------------------------------ MODULE FilesProofs ------------------------------
(***************************************************************************)
(* The file system keeps its tree, shows no byte that nobody wrote, and    *)
(* implements OpenFiles, for every set of names, paths, bytes and sizes.   *)
(*                                                                         *)
(* The calls are operators from states to states, so the invariant is a    *)
(* predicate of a state: Sound.  What each call does to a sound state is a *)
(* lemma of its own, and a command is several such lemmas in a row.        *)
(***************************************************************************)
EXTENDS FileClients, NumberLemmas, SequenceTheorems, FiniteSetTheorems

-----------------------------------------------------------------------------
(* The invariant.                                                          *)

Nodes(s) == 1..Len(s.node)
Kids(s, d) == 1..Len(s.node[d].kids)

Memory  == Byte \cup {Junk}
Content == UNION {[0..(k - 1) -> Memory] : k \in Nat}
NodeSet == [name : Names \cup {Empty}, dir : BOOLEAN, kids : Seq(Nat), size : Nat, data : Content]
States  == [node : Seq(NodeSet), fd : [Fds -> [node : Nat, at : Nat]], ret : Int, seen : Seq(Memory)]

\* Every child came after its directory, and only directories have any.
Later(s) == \A d \in Nodes(s) : \A i \in Kids(s, d) : s.node[d].kids[i] \in (d + 1)..Len(s.node)
DirsOnly(s) == \A d \in Nodes(s) : ~s.node[d].dir => s.node[d].kids = <<>>
\* Every node but the root is a child, once; fewer children than nodes are in each list.
Placed(s) == \A n \in 2..Len(s.node) : \E d \in Nodes(s) : \E i \in Kids(s, d) : s.node[d].kids[i] = n
Once(s) ==
  \A d, e \in Nodes(s) : \A i \in Kids(s, d), j \in Kids(s, e) :
    s.node[d].kids[i] = s.node[e].kids[j] => d = e /\ i = j
Fewer(s) == \A d \in Nodes(s) : Len(s.node[d].kids) < Len(s.node)
\* The children of a directory have different names.
Distinct(s) ==
  \A d \in Nodes(s) : \A i, j \in Kids(s, d) :
    s.node[s.node[d].kids[i]].name = s.node[s.node[d].kids[j]].name => i = j

Tree(s) == s.node # <<>> /\ Later(s) /\ DirsOnly(s) /\ Placed(s) /\ Once(s) /\ Fewer(s) /\ Distinct(s)

\* Descriptors that are open are of nodes there are.
Pointing(s) == \A d \in Fds : s.fd[d] # Closed => s.fd[d].node \in Nodes(s)

\* NoJunk, of any state.
Full(s) ==
  /\ \A n \in Nodes(s) : Filled(s.node[n], s.node[n].size)
  /\ \A d \in Fds : s.fd[d] # Closed => Filled(s.node[s.fd[d].node], s.fd[d].at)

Sound(s) == s \in States /\ Tree(s) /\ Pointing(s) /\ Full(s)

\* Between two calls no file is larger than the bound.
Sized == \A n \in 1..Len(node) : node[n].size <= MaxSize

\* While vfs_init is at its i-th call, each node but the root has the path of an earlier
\* one, and the path of a child is that of its directory and its name.
SetupPaths(i) == {Setup[j].path : j \in 1..(i - 1)}
Paved(s, P, i) ==
  /\ P[Root] = <<>>
  /\ \A n \in 2..Len(s.node) : P[n] \in SetupPaths(i)
  /\ \A d \in Nodes(s) : \A k \in Kids(s, d) :
       P[s.node[d].kids[k]] = Append(P[d], s.node[s.node[d].kids[k]].name)
Made(i) == \E P \in [Nodes(Now) -> {<<>>} \cup SetupPaths(i)] : Paved(Now, P, i)

InSetup ==
  \E i \in 1..(Len(Setup) + 1) :
    setup = SubSeq(Setup, i, Len(Setup)) /\ (i <= Len(Setup) => Made(i))

\* The calls of vfs_init come before all others.
FInv ==
  /\ Sound(Now) /\ Sized /\ InSetup
  /\ tested => setup = <<>>
  /\ failed \in BOOLEAN /\ seen \in Seq(Memory)

-----------------------------------------------------------------------------
(* States and their parts.                                                 *)

\* The parts of a state have their types.
LEMMA StateParts ==
  ASSUME NEW s \in States
  PROVE  /\ s.node \in Seq(NodeSet) /\ Len(s.node) \in Nat
         /\ s.fd \in [Fds -> [node : Nat, at : Nat]]
         /\ s.ret \in Int /\ s.seen \in Seq(Memory)
BY DEF States

\* The parts of a node have their types.
LEMMA NodeParts ==
  ASSUME NEW n \in NodeSet
  PROVE  /\ n.name \in Names \cup {Empty} /\ n.dir \in BOOLEAN
         /\ n.kids \in Seq(Nat) /\ Len(n.kids) \in Nat
         /\ n.size \in Nat /\ n.data \in Content
BY DEF NodeSet

\* A place in the list of nodes holds a node.
LEMMA NodeAt ==
  ASSUME NEW s \in States, NEW d \in Nodes(s)
  PROVE  s.node[d] \in NodeSet
BY StateParts DEF Nodes

\* The entries of a directory are numbers.
LEMMA KidAt ==
  ASSUME NEW s \in States, NEW d \in Nodes(s), NEW i \in Kids(s, d)
  PROVE  s.node[d].kids[i] \in Nat
BY NodeAt, NodeParts DEF Kids

\* Returns changes the result and what was seen, and nothing else.
LEMMA ReturnsState ==
  ASSUME NEW s \in States, NEW v \in Int
  PROVE  /\ Returns(s, v) \in States
         /\ Returns(s, v).node = s.node /\ Returns(s, v).fd = s.fd
         /\ Returns(s, v).ret = v /\ Returns(s, v).seen = <<>>
<1> DEFINE t == [s EXCEPT !.ret = v, !.seen = <<>>]
<1>1. <<>> \in Seq(Memory)
  OBVIOUS
<1>2. t \in States /\ t.node = s.node /\ t.fd = s.fd /\ t.ret = v /\ t.seen = <<>>
  BY <1>1 DEF States
<1>3. QED BY <1>2 DEF Returns

\* Soundness does not depend on the result.
LEMMA SoundReturns ==
  ASSUME NEW s, NEW t \in States, Sound(s), t.node = s.node, t.fd = s.fd
  PROVE  Sound(t)
BY DEF Sound, Tree, Later, DirsOnly, Placed, Once, Fewer, Distinct, Pointing, Full, Nodes, Kids

\* Setting what a call returns keeps a state sound.
LEMMA ReturnsSound ==
  ASSUME NEW s, Sound(s), NEW v \in Int
  PROVE  Sound(Returns(s, v))
BY ReturnsState, SoundReturns DEF Sound

\* t is s after a call that returned v and changed nothing.
Leaves(s, v, t) == t \in States /\ t.node = s.node /\ t.fd = s.fd /\ t.ret = v /\ t.seen = <<>>

\* A call that only returns leaves the rest as it was.
LEMMA ReturnsLeaves ==
  ASSUME NEW s \in States, NEW v \in Int, NEW t, t = Returns(s, v)
  PROVE  Leaves(s, v, t)
BY ReturnsState DEF Leaves

\* What leaves the rest as it was keeps a state sound.
LEMMA LeavesSound ==
  ASSUME NEW s, Sound(s), NEW v, NEW t, Leaves(s, v, t)
  PROVE  Sound(t)
BY SoundReturns DEF Leaves

-----------------------------------------------------------------------------
(* ramfs_finddir.                                                          *)

\* v is the child of d of that name, and no node if there is none.
Finds(s, d, name, v) ==
  IF v = Nil THEN \A i \in Kids(s, d) : s.node[s.node[d].kids[i]].name # name
  ELSE \E i \in Kids(s, d) : s.node[d].kids[i] = v /\ s.node[v].name = name

\* ramfs_finddir finds the child of that name if there is one.
LEMMA FindFinds ==
  ASSUME NEW s, Sound(s), NEW d \in Nodes(s), NEW name
  PROVE  Find(s, d, name) \in 0..Len(s.node) /\ Finds(s, d, name, Find(s, d, name))
<1> DEFINE kids == s.node[d].kids
           I == {i \in 1..Len(kids) : s.node[kids[i]].name = name}
<1>1. s \in States /\ Later(s) /\ DirsOnly(s)
  BY DEF Sound, Tree
<1>2. kids \in Seq(Nat) /\ Len(kids) \in Nat /\ Len(s.node) \in Nat /\ d \in Nat
  <2>1. s.node[d] \in NodeSet
    BY <1>1, NodeAt
  <2>2. kids \in Seq(Nat) /\ Len(kids) \in Nat
    BY <2>1, NodeParts
  <2>3. Len(s.node) \in Nat /\ d \in Nat
    BY <1>1, StateParts DEF Nodes
  <2>4. QED BY <2>2, <2>3
<1>3. \A i \in I : kids[i] \in 1..Len(s.node) /\ kids[i] # Nil
  <2>1. \A i \in I : kids[i] \in (d + 1)..Len(s.node)
    BY <1>1 DEF Later, Kids
  <2>2. \A k \in (d + 1)..Len(s.node) : k \in 1..Len(s.node) /\ k # 0
    BY <1>2
  <2>3. QED BY <2>1, <2>2 DEF Nil
<1>4. CASE ~s.node[d].dir
  <2>1. kids = <<>> /\ Kids(s, d) = {}
    BY <1>1, <1>4 DEF DirsOnly, Kids
  <2>2. Find(s, d, name) = Nil
    BY <1>4 DEF Find, Nil
  <2>3. QED BY <1>2, <2>1, <2>2 DEF Finds, Nil
<1>5. CASE s.node[d].dir /\ I = {}
  <2>1. Find(s, d, name) = Nil
    BY <1>5 DEF Find, Nil, SelectInSeq
  <2>2. \A i \in Kids(s, d) : s.node[kids[i]].name # name
    BY <1>5 DEF Kids
  <2>3. QED BY <1>2, <2>1, <2>2 DEF Finds, Nil
<1>6. CASE s.node[d].dir /\ I # {}
  <2> DEFINE m == Min(I)
  <2>1. I \in SUBSET Nat /\ \A x \in I : x # 0
    BY <1>2
  <2>2. PICK x \in I : \A y \in I : x <= y
    BY <1>6, <2>1, LeastExists
  <2>3. m \in I
    BY <2>2 DEF Min
  <2>4. m # 0
    <3> HIDE DEF I, m
    <3> QED BY <2>1, <2>3
  <2>5. Find(s, d, name) = kids[m]
    BY <1>6, <2>4 DEF Find, SelectInSeq
  <2> HIDE DEF m
  <2>6. m \in Kids(s, d) /\ s.node[kids[m]].name = name
    BY <2>3 DEF Kids
  <2>7. kids[m] \in 1..Len(s.node) /\ kids[m] # Nil
    BY <1>3, <2>3
  <2> HIDE DEF I
  <2>8. QED BY <1>2, <2>5, <2>6, <2>7 DEF Finds, Nil
<1>7. QED BY <1>4, <1>5, <1>6

\* There is one answer: the children of a directory have different names.
LEMMA FindsOne ==
  ASSUME NEW s, Sound(s), NEW d \in Nodes(s), NEW name, NEW v, NEW w,
         Finds(s, d, name, v), Finds(s, d, name, w)
  PROVE  v = w
BY DEF Finds, Sound, Tree, Distinct

-----------------------------------------------------------------------------
(* vfs_lookup.                                                             *)

PathSet == Seq(Names \cup {Empty})

\* f goes down a path, component by component.
Walks(s, path, f) ==
  /\ f \in [0..Len(path) -> 0..Len(s.node)]
  /\ f[0] = Root
  /\ \A k \in 1..Len(path) : f[k] = Enter(s, f[k - 1], path[k])

\* From a node, or none, one component leads to a node or to none.
LEMMA EnterType ==
  ASSUME NEW s, Sound(s), NEW d \in 0..Len(s.node), NEW name
  PROVE  Enter(s, d, name) \in 0..Len(s.node)
<1>1. CASE d = Nil \/ name = Empty
  BY <1>1 DEF Enter
<1>2. CASE ~(d = Nil \/ name = Empty)
  <2>1. d \in Nodes(s)
    BY <1>2, StateParts DEF Sound, Nodes, Nil
  <2>2. QED BY <1>2, <2>1, FindFinds DEF Enter
<1>3. QED BY <1>1, <1>2

\* vfs_lookup goes down its path.
LEMMA LookupWalks ==
  ASSUME NEW s, Sound(s), NEW path \in PathSet, path # <<>>
  PROVE  \E f : Walks(s, path, f) /\ Lookup(s, path) = f[Len(path)]
<1> DEFINE N == Len(path)
           D == 0..Len(s.node)
           P(w) == w = [k \in 0..N |-> IF k = 0 THEN Root ELSE Enter(s, w[k - 1], path[k])]
           g == [x \in (1..N) \X D |-> Enter(s, x[2], path[x[1]])]
           v == CHOOSE w : P(w)
<1>1. N \in Nat /\ N # 0
  BY DEF PathSet
<1>2. Len(s.node) \in Nat \ {0} /\ Root \in D
  <2>1. Len(s.node) \in Nat /\ s.node \in Seq(NodeSet) /\ s.node # <<>>
    BY StateParts DEF Sound, Tree
  <2>2. QED BY <2>1 DEF Root
<1>3. g \in [(1..N) \X D -> D]
  BY EnterType
<1>4. PICK f \in [0..N -> D] : Follows(f, N, Root, g)
  <2> HIDE DEF g, N, D
  <2>1. QED BY <1>1, <1>2, <1>3, RecursionExists
<1>5. P(f)
  <2>1. f[0] = Root /\ \A k \in 1..N : f[k] = g[<<k, f[k - 1]>>]
    BY <1>4 DEF Follows
  <2>2. \A k \in 1..N, d \in D : g[<<k, d>>] = Enter(s, d, path[k])
    OBVIOUS
  <2> HIDE DEF D
  <2>3. \A k \in 1..N : f[k - 1] \in D
    BY <1>1
  <2> HIDE DEF g
  <2>4. \A k \in 1..N : f[k] = Enter(s, f[k - 1], path[k])
    BY <2>1, <2>2, <2>3
  <2> HIDE DEF N
  <2>5. QED BY <1>1, <2>1, <2>4
<1>6. P(v)
  <2> HIDE DEF P
  <2>1. QED BY <1>5
<1>7. Lookup(s, path) = v[N]
  BY DEF Lookup
<1> HIDE DEF v
<1>8. v[0] = Root /\ \A k \in 1..N : v[k] = Enter(s, v[k - 1], path[k])
  <2> HIDE DEF N
  <2>1. QED BY <1>1, <1>6
<1>9. \A k \in 0..N : v[k] \in D
  <2> DEFINE T == {k \in 0..N : v[k] \in D}
  <2>1. 0 \in T
    BY <1>1, <1>2, <1>8
  <2> HIDE DEF N
  <2>2. \A k \in 1..N : k - 1 \in T => k \in T
    BY <1>1, <1>8, EnterType
  <2>3. 0..N \subseteq T
    <3> HIDE DEF T
    <3>1. QED BY <1>1, <2>1, <2>2, Induction
  <2>4. QED BY <2>3
<1>10. v \in [0..N -> D]
  <2> HIDE DEF N, D
  <2>1. v = [k \in 0..N |-> v[k]]
    BY <1>6
  <2>2. QED BY <1>9, <2>1
<1>11. Walks(s, path, v)
  BY <1>8, <1>10 DEF Walks
<1>12. QED BY <1>7, <1>11

\* Two walks agree as far as their paths do.
LEMMA WalksAgree ==
  ASSUME NEW s, NEW p \in PathSet, NEW q \in PathSet, NEW f, NEW h,
         Walks(s, p, f), Walks(s, q, h), NEW n \in Nat, n <= Len(p), n <= Len(q),
         \A k \in 1..n : p[k] = q[k]
  PROVE  f[n] = h[n]
<1> DEFINE T == {k \in 0..n : f[k] = h[k]}
<1>1. 0 \in T
  BY DEF Walks
<1>2. \A k \in 1..n : k \in 1..Len(p) /\ k \in 1..Len(q) /\ k - 1 \in 0..n
  BY DEF PathSet
<1>3. \A k \in 1..n : k - 1 \in T => k \in T
  BY <1>2 DEF Walks
<1>4. 0..n \subseteq T
  <2> HIDE DEF T
  <2>1. QED BY <1>1, <1>3, Induction
<1>5. QED BY <1>4

\* A path of more than one component names what its last component leads to from where the
\* others lead.
LEMMA LookupFront ==
  ASSUME NEW s, Sound(s), NEW path \in PathSet, Len(path) > 1
  PROVE  /\ Front(path) \in PathSet /\ Front(path) # <<>>
         /\ Lookup(s, path) = Enter(s, Lookup(s, Front(path)), Last(path))
<1> DEFINE N == Len(path)
           p == Front(path)
<1>1. N \in Nat /\ N > 1
  BY DEF PathSet
<1>2. p \in PathSet /\ Len(p) = N - 1 /\ \A k \in 1..(N - 1) : p[k] = path[k]
  BY <1>1 DEF Front, PathSet
<1>3. p # <<>> /\ path # <<>>
  BY <1>1, <1>2
<1> HIDE DEF p
<1>4. PICK f : Walks(s, path, f) /\ Lookup(s, path) = f[N]
  BY <1>3, LookupWalks
<1>5. PICK h : Walks(s, p, h) /\ Lookup(s, p) = h[N - 1]
  BY <1>2, <1>3, LookupWalks
<1>6. f[N - 1] = h[N - 1]
  <2>1. N - 1 \in Nat /\ N - 1 <= Len(path) /\ N - 1 <= Len(p)
    BY <1>1, <1>2
  <2>2. \A k \in 1..(N - 1) : path[k] = p[k]
    BY <1>2
  <2>3. p \in PathSet /\ Walks(s, path, f) /\ Walks(s, p, h)
    BY <1>2, <1>4, <1>5
  <2> DEFINE n == N - 1
  <2>4. n \in Nat /\ n <= Len(path) /\ n <= Len(p) /\ \A k \in 1..n : path[k] = p[k]
    BY <2>1, <2>2
  <2> HIDE DEF n
  <2>5. f[n] = h[n]
    BY <2>3, <2>4, WalksAgree
  <2>6. QED BY <2>5 DEF n
<1>7. f[N] = Enter(s, f[N - 1], path[N])
  BY <1>1, <1>4 DEF Walks
<1>8. Last(path) = path[N]
  BY DEF Last
<1>9. QED BY <1>2, <1>3, <1>4, <1>5, <1>6, <1>7, <1>8 DEF p

\* A path of one component is looked for in the root.
LEMMA LookupOne ==
  ASSUME NEW s, Sound(s), NEW path \in PathSet, Len(path) = 1
  PROVE  Lookup(s, path) = Enter(s, Root, Last(path))
<1>1. path # <<>> /\ Last(path) = path[1]
  BY DEF Last
<1>2. PICK f : Walks(s, path, f) /\ Lookup(s, path) = f[1]
  BY <1>1, LookupWalks
<1>3. QED BY <1>1, <1>2 DEF Walks

\* A path names a node or nothing.
LEMMA LookupType ==
  ASSUME NEW s, Sound(s), NEW path \in PathSet
  PROVE  Lookup(s, path) \in 0..Len(s.node)
<1>1. Len(s.node) \in Nat /\ Len(path) \in Nat
  BY StateParts DEF Sound, PathSet
<1>2. CASE path = <<>>
  BY <1>1, <1>2 DEF Lookup, Nil
<1>3. CASE path # <<>>
  <2>1. PICK f : Walks(s, path, f) /\ Lookup(s, path) = f[Len(path)]
    BY <1>3, LookupWalks
  <2>2. QED BY <1>1, <2>1 DEF Walks
<1>4. QED BY <1>2, <1>3

-----------------------------------------------------------------------------
(* Trees that grow.                                                        *)

\* t has all that s has: nodes keep their names and kinds, and lists their first children.
Grows(s, t) ==
  /\ Len(s.node) <= Len(t.node)
  /\ \A d \in Nodes(s) :
       /\ t.node[d].name = s.node[d].name /\ t.node[d].dir = s.node[d].dir
       /\ Len(s.node[d].kids) <= Len(t.node[d].kids)
       /\ \A i \in Kids(s, d) : t.node[d].kids[i] = s.node[d].kids[i]

\* What a directory has under a name, it keeps.
LEMMA FindKept ==
  ASSUME NEW s, NEW t, Sound(s), Sound(t), Grows(s, t), NEW d \in Nodes(s), NEW name,
         Find(s, d, name) # Nil
  PROVE  Find(t, d, name) = Find(s, d, name)
<1> DEFINE v == Find(s, d, name)
<1>1. v \in Nodes(s) /\ Finds(s, d, name, v)
  BY FindFinds, StateParts DEF Sound, Nodes, Nil
<1> HIDE DEF v
<1>2. Len(s.node) \in Nat /\ Len(t.node) \in Nat /\ Len(s.node) <= Len(t.node)
  BY StateParts DEF Sound, Grows
<1>3. d \in Nodes(t) /\ v \in Nodes(t) /\ v # Nil
  BY <1>1, <1>2 DEF Nodes, Nil
<1>4. PICK i \in Kids(s, d) : s.node[d].kids[i] = v /\ s.node[v].name = name
  BY <1>1, <1>3 DEF Finds
<1>5. Len(s.node[d].kids) \in Nat /\ Len(t.node[d].kids) \in Nat
  BY <1>3, NodeAt, NodeParts DEF Sound
<1>6. i \in Kids(t, d) /\ t.node[d].kids[i] = v
  <2>1. /\ Len(s.node[d].kids) <= Len(t.node[d].kids)
        /\ t.node[d].kids[i] = s.node[d].kids[i]
    BY <1>4 DEF Grows
  <2>2. i \in 1..Len(s.node[d].kids)
    BY <1>4 DEF Kids
  <2>3. i \in 1..Len(t.node[d].kids)
    BY <1>5, <2>1, <2>2
  <2>4. QED BY <1>4, <2>1, <2>3 DEF Kids
<1>7. t.node[v].name = name
  BY <1>1, <1>4 DEF Grows
<1>8. Finds(t, d, name, v)
  BY <1>3, <1>6, <1>7 DEF Finds
<1>9. Finds(t, d, name, Find(t, d, name))
  BY <1>3, FindFinds
<1>10. Find(t, d, name) = v
  BY <1>3, <1>8, <1>9, FindsOne
<1>11. QED BY <1>10 DEF v

\* What a path names, it names in a tree that has grown.
LEMMA LookupKept ==
  ASSUME NEW s, NEW t, Sound(s), Sound(t), Grows(s, t), NEW path \in PathSet,
         Lookup(s, path) # Nil
  PROVE  Lookup(t, path) = Lookup(s, path)
<1> DEFINE N == Len(path)
<1>1. path # <<>>
  BY DEF Lookup
<1>2. N \in Nat
  BY DEF PathSet
<1>3. PICK f : Walks(s, path, f) /\ Lookup(s, path) = f[N]
  BY <1>1, LookupWalks
<1>4. PICK h : Walks(t, path, h) /\ Lookup(t, path) = h[N]
  BY <1>1, LookupWalks
<1> DEFINE T == {k \in 0..N : f[k] # Nil => h[k] = f[k]}
<1>5. 0 \in T
  BY <1>2, <1>3, <1>4 DEF Walks
<1>6. ASSUME NEW k \in 1..N, k - 1 \in T
      PROVE  k \in T
  <2>1. SUFFICES ASSUME f[k] # Nil PROVE h[k] = f[k]
    BY <1>2
  <2>2. f[k] = Enter(s, f[k - 1], path[k]) /\ h[k] = Enter(t, h[k - 1], path[k])
    BY <1>3, <1>4 DEF Walks
  <2>3. f[k - 1] # Nil
    BY <2>1, <2>2 DEF Enter
  <2>4. k - 1 \in 0..N /\ h[k - 1] = f[k - 1]
    BY <1>2, <1>6, <2>3
  <2>5. f[k - 1] \in Nodes(s)
    <3>1. f[k - 1] \in 0..Len(s.node)
      BY <1>3, <2>4 DEF Walks
    <3>2. Len(s.node) \in Nat
      BY StateParts DEF Sound
    <3>3. QED BY <2>3, <3>1, <3>2 DEF Nodes, Nil
  <2> DEFINE d == f[k - 1]
             name == path[k]
  <2>6. f[k] = Enter(s, d, name) /\ h[k] = Enter(t, d, name) /\ d \in Nodes(s) /\ d # Nil
    BY <2>2, <2>3, <2>4, <2>5
  <2> HIDE DEF d, name
  <2>7. CASE name = Empty
    BY <2>6, <2>7 DEF Enter
  <2>8. CASE name # Empty
    <3>1. f[k] = Find(s, d, name) /\ h[k] = Find(t, d, name)
      BY <2>6, <2>8 DEF Enter
    <3>2. QED BY <2>1, <2>6, <3>1, FindKept
  <2>9. QED BY <2>7, <2>8
<1>7. 0..N \subseteq T
  <2> HIDE DEF T, N
  <2>1. QED BY <1>2, <1>5, <1>6, Induction
<1>8. N \in T
  BY <1>2, <1>7
<1>9. QED BY <1>3, <1>4, <1>8

\* The two trees are the same; contents may differ.
Alike(s, t) ==
  /\ Len(t.node) = Len(s.node)
  /\ \A d \in Nodes(s) :
       /\ t.node[d].name = s.node[d].name /\ t.node[d].dir = s.node[d].dir
       /\ t.node[d].kids = s.node[d].kids

\* Nodes alike, the tree is the same, and a state grows into one like it.
LEMMA AlikeTree ==
  ASSUME NEW s, NEW t, Sound(s), t \in States, Alike(s, t)
  PROVE  Tree(t) /\ Grows(s, t)
<1>1. s \in States /\ Tree(s)
  BY DEF Sound
<1>2. /\ Nodes(t) = Nodes(s) /\ Len(t.node) = Len(s.node)
      /\ \A d \in Nodes(s) : Kids(t, d) = Kids(s, d)
  BY DEF Alike, Nodes, Kids
<1>3. \A d \in Nodes(s) : Len(s.node[d].kids) \in Nat
  BY <1>1, NodeAt, NodeParts
<1>4. Grows(s, t)
  BY <1>1, <1>2, <1>3, StateParts DEF Alike, Grows
<1>5. t.node # <<>>
  BY <1>1, <1>2, StateParts DEF Tree
<1>6. Later(t)
  BY <1>1, <1>2 DEF Tree, Later, Alike
<1>7. DirsOnly(t) /\ Fewer(t)
  BY <1>1, <1>2 DEF Tree, DirsOnly, Fewer, Alike
<1>8. Placed(t)
  BY <1>1, <1>2 DEF Tree, Placed, Alike
<1>9. Once(t)
  <2>1. SUFFICES ASSUME NEW d \in Nodes(t), NEW e \in Nodes(t), NEW i \in Kids(t, d), NEW j \in Kids(t, e),
                        t.node[d].kids[i] = t.node[e].kids[j]
                 PROVE  d = e /\ i = j
    BY DEF Once
  <2>2. s.node[d].kids[i] = s.node[e].kids[j] /\ i \in Kids(s, d) /\ j \in Kids(s, e)
    BY <1>2, <2>1 DEF Alike
  <2>3. QED BY <1>1, <1>2, <2>2 DEF Tree, Once
<1>10. Distinct(t)
  <2>1. SUFFICES ASSUME NEW d \in Nodes(t), NEW i \in Kids(t, d), NEW j \in Kids(t, d),
                        t.node[t.node[d].kids[i]].name = t.node[t.node[d].kids[j]].name
                 PROVE  i = j
    BY DEF Distinct
  <2>2. d \in Nodes(s) /\ t.node[d].kids = s.node[d].kids /\ i \in Kids(s, d) /\ j \in Kids(s, d)
    BY <1>2 DEF Alike
  <2>3. s.node[d].kids[i] \in Nodes(s) /\ s.node[d].kids[j] \in Nodes(s)
    BY <1>1, <2>2, StateParts DEF Tree, Later, Nodes
  <2>4. s.node[s.node[d].kids[i]].name = s.node[s.node[d].kids[j]].name
    BY <2>1, <2>2, <2>3 DEF Alike
  <2>5. QED BY <1>1, <2>2, <2>4 DEF Tree, Distinct
<1>11. QED BY <1>4, <1>5, <1>6, <1>7, <1>8, <1>9, <1>10 DEF Tree

-----------------------------------------------------------------------------
(* add_child_node.                                                         *)

\* A node that has no children yet, whose bytes were written.
Fresh(n) == n \in NodeSet /\ n.kids = <<>> /\ Filled(n, n.size)

\* t is s with the node n as the last child of p, where nothing has its name.
Adds(s, t, p, n) ==
  /\ p \in Nodes(s) /\ s.node[p].dir /\ Finds(s, p, n.name, Nil)
  /\ Fresh(n)
  /\ t = Added(s, p, n)

\* The parts of a state after a node was added.
AddedAs(s, t, p, n) ==
  /\ t \in States /\ t.fd = s.fd /\ t.ret = Len(s.node) + 1 /\ t.seen = <<>>
  /\ Len(t.node) = Len(s.node) + 1
  /\ t.node[Len(s.node) + 1] = n
  /\ \A d \in Nodes(s) : d # p => t.node[d] = s.node[d]
  /\ t.node[p] = [s.node[p] EXCEPT !.kids = Append(@, Len(s.node) + 1)]

\* What add_child leaves of the parts of a state.
LEMMA AddedParts ==
  ASSUME NEW s, Sound(s), NEW p \in Nodes(s), NEW n \in NodeSet, NEW t, t = Added(s, p, n)
  PROVE  AddedAs(s, t, p, n)
<1> DEFINE L == Len(s.node)
           q == [s.node[p] EXCEPT !.kids = Append(@, L + 1)]
           u == [s.node EXCEPT ![p] = q]
           w == Append(u, n)
<1>1. s \in States /\ L \in Nat /\ s.node \in Seq(NodeSet) /\ p \in 1..L
  BY StateParts DEF Sound, Nodes
<1>2. s.node[p] \in NodeSet /\ s.node[p].kids \in Seq(Nat)
  BY <1>1, NodeAt, NodeParts
<1>3. q \in NodeSet
  <2>1. Append(s.node[p].kids, L + 1) \in Seq(Nat)
    BY <1>1, <1>2
  <2>2. QED BY <1>2, <2>1 DEF NodeSet
<1>4. t = [s EXCEPT !.node = w, !.ret = L + 1, !.seen = <<>>]
  BY DEF Added
<1> HIDE DEF q
<1>5. u \in Seq(NodeSet) /\ Len(u) = L /\ \A d \in 1..L : u[d] = IF d = p THEN q ELSE s.node[d]
  BY <1>1, <1>3, ExceptSeq
<1> HIDE DEF u
<1>6. w \in Seq(NodeSet) /\ Len(w) = L + 1 /\ w[L + 1] = n /\ \A d \in 1..L : w[d] = u[d]
  BY <1>1, <1>5
<1> HIDE DEF w
<1>7. <<>> \in Seq(Memory)
  OBVIOUS
<1>8. t \in States /\ t.node = w /\ t.fd = s.fd /\ t.ret = L + 1 /\ t.seen = <<>>
  <2>1. L + 1 \in Int /\ w \in Seq(NodeSet)
    BY <1>1, <1>6
  <2> DEFINE r == L + 1
  <2>2. r \in Int /\ t = [s EXCEPT !.node = w, !.ret = r, !.seen = <<>>]
    BY <1>4, <2>1
  <2> HIDE DEF r
  <2>3. t \in States /\ t.node = w /\ t.fd = s.fd /\ t.ret = r /\ t.seen = <<>>
    BY <1>1, <1>7, <2>1, <2>2 DEF States
  <2>4. QED BY <2>3 DEF r
<1>9. QED BY <1>1, <1>5, <1>6, <1>8 DEF AddedAs, Nodes, q

\* The nodes and the children after a node was added.
AddedNodes(s, t, p, n) ==
  /\ Len(s.node) \in Nat \ {0} /\ Len(t.node) = Len(s.node) + 1
  /\ t.node[Len(t.node)] = n
  /\ \A d \in Nodes(s) :
       /\ t.node[d].name = s.node[d].name /\ t.node[d].dir = s.node[d].dir
       /\ t.node[d].size = s.node[d].size /\ t.node[d].data = s.node[d].data
       /\ \A i \in Kids(s, d) : i \in Kids(t, d) /\ t.node[d].kids[i] = s.node[d].kids[i]
       /\ Len(s.node[d].kids) \in Nat
       /\ Len(t.node[d].kids) = IF d = p THEN Len(s.node[d].kids) + 1 ELSE Len(s.node[d].kids)

\* A child after a node was added is one from before, or the new node.
AddedKids(s, t, p) ==
  \A d \in Nodes(t) : \A i \in Kids(t, d) :
    \/ d \in Nodes(s) /\ i \in Kids(s, d) /\ t.node[d].kids[i] = s.node[d].kids[i]
    \/ d = p /\ i = Len(s.node[p].kids) + 1 /\ t.node[d].kids[i] = Len(t.node)

\* The nodes and the lists of children after add_child.
LEMMA AddedShape ==
  ASSUME NEW s, Sound(s), NEW t, NEW p, NEW n, Adds(s, t, p, n)
  PROVE  AddedNodes(s, t, p, n) /\ AddedKids(s, t, p)
<1> DEFINE L == Len(s.node)
           K == Len(s.node[p].kids)
<1>1. s \in States /\ L \in Nat /\ p \in Nodes(s) /\ p \in 1..L /\ n \in NodeSet /\ n.kids = <<>>
  BY StateParts DEF Sound, Nodes, Adds, Fresh
<1>2. /\ Len(t.node) = L + 1 /\ t.node[L + 1] = n
      /\ \A d \in Nodes(s) : d # p => t.node[d] = s.node[d]
      /\ t.node[p] = [s.node[p] EXCEPT !.kids = Append(@, L + 1)]
  <2>1. t = Added(s, p, n)
    BY DEF Adds
  <2>2. AddedAs(s, t, p, n)
    BY <1>1, <2>1, AddedParts
  <2>3. QED BY <2>2 DEF AddedAs
<1>3. s.node[p] \in NodeSet /\ s.node[p].kids \in Seq(Nat) /\ K \in Nat
  BY <1>1, NodeAt, NodeParts
<1>4. /\ t.node[p].name = s.node[p].name /\ t.node[p].dir = s.node[p].dir
      /\ t.node[p].size = s.node[p].size /\ t.node[p].data = s.node[p].data
      /\ t.node[p].kids = Append(s.node[p].kids, L + 1)
  BY <1>2, <1>3 DEF NodeSet
<1>5. /\ Len(t.node[p].kids) = K + 1 /\ t.node[p].kids[K + 1] = L + 1
      /\ \A i \in 1..K : t.node[p].kids[i] = s.node[p].kids[i]
  BY <1>1, <1>3, <1>4
<1>6. K \in Nat /\ \A d \in Nodes(s) : Len(s.node[d].kids) \in Nat
  BY <1>1, <1>3, NodeAt, NodeParts
<1> HIDE DEF L, K
<1>7. ASSUME NEW d \in Nodes(s)
      PROVE  /\ t.node[d].name = s.node[d].name /\ t.node[d].dir = s.node[d].dir
             /\ t.node[d].size = s.node[d].size /\ t.node[d].data = s.node[d].data
             /\ \A i \in Kids(s, d) : i \in Kids(t, d) /\ t.node[d].kids[i] = s.node[d].kids[i]
             /\ Len(s.node[d].kids) \in Nat
             /\ Len(t.node[d].kids) = IF d = p THEN Len(s.node[d].kids) + 1 ELSE Len(s.node[d].kids)
  <2>1. CASE d # p
    BY <1>2, <1>6, <2>1 DEF Kids
  <2>2. CASE d = p
    <3>1. Kids(s, p) = 1..K /\ Kids(t, p) = 1..(K + 1)
      BY <1>5 DEF Kids, K
    <3>2. \A i \in Kids(s, p) : i \in Kids(t, p) /\ t.node[p].kids[i] = s.node[p].kids[i]
      <4>1. SUFFICES ASSUME NEW i \in 1..K PROVE i \in 1..(K + 1) /\ t.node[p].kids[i] = s.node[p].kids[i]
        BY <3>1
      <4>2. QED BY <1>5, <1>6
    <3>3. K \in Nat /\ Len(s.node[p].kids) = K
      BY <1>3 DEF K
    <3>4. QED BY <1>4, <1>5, <2>2, <3>2, <3>3
  <2>3. QED BY <2>1, <2>2
<1>8. AddedNodes(s, t, p, n)
  <2>1. Len(s.node) \in Nat \ {0} /\ Len(t.node) = Len(s.node) + 1 /\ t.node[Len(t.node)] = n
    BY <1>1, <1>2 DEF L
  <2>2. QED BY <1>7, <2>1 DEF AddedNodes
<1>9. ASSUME NEW d \in Nodes(t), NEW i \in Kids(t, d)
      PROVE  \/ d \in Nodes(s) /\ i \in Kids(s, d) /\ t.node[d].kids[i] = s.node[d].kids[i]
             \/ d = p /\ i = K + 1 /\ t.node[d].kids[i] = Len(t.node)
  <2>1. d \in Nodes(s) \/ d = L + 1
    BY <1>1, <1>2 DEF Nodes, L
  <2>2. CASE d = L + 1
    BY <1>1, <1>2, <2>2 DEF Kids
  <2>3. CASE d \in Nodes(s) /\ d # p
    BY <1>2, <2>3 DEF Kids
  <2>4. CASE d = p
    <3>1. i \in 1..(K + 1)
      BY <1>5, <2>4 DEF Kids
    <3>2. CASE i = K + 1
      BY <1>2, <1>5, <2>4, <3>2
    <3>3. CASE i # K + 1
      <4>1. i \in 1..K
        BY <1>3, <3>1, <3>3
      <4>2. QED BY <1>1, <1>5, <2>4, <4>1 DEF Kids, K
    <3>4. QED BY <3>2, <3>3
  <2>5. QED BY <2>1, <2>2, <2>3, <2>4
<1>10. AddedKids(s, t, p)
  BY <1>9 DEF AddedKids, K
<1>11. QED BY <1>8, <1>10

\* The tree stays one when a node is added under a name that is not taken.
LEMMA AddsTree ==
  ASSUME NEW s, Sound(s), NEW t, NEW p, NEW n, Adds(s, t, p, n)
  PROVE  Tree(t) /\ Grows(s, t)
<1> DEFINE L == Len(s.node)
<1>1. s \in States /\ Tree(s) /\ AddedAs(s, t, p, n) /\ t \in States
  <2>1. p \in Nodes(s) /\ n \in NodeSet /\ t = Added(s, p, n)
    BY DEF Adds, Fresh
  <2>2. AddedAs(s, t, p, n)
    BY <2>1, AddedParts
  <2>3. QED BY <2>2 DEF Sound, AddedAs
<1>2. AddedNodes(s, t, p, n) /\ AddedKids(s, t, p)
  BY AddedShape
<1>3. /\ p \in Nodes(s) /\ s.node[p].dir /\ n.kids = <<>>
      /\ \A i \in Kids(s, p) : s.node[s.node[p].kids[i]].name # n.name
  BY DEF Adds, Fresh, Finds
<1>4. /\ L \in Nat \ {0} /\ Len(t.node) = L + 1 /\ t.node[L + 1] = n
      /\ \A d \in Nodes(s) : d \in Nodes(t) /\ d \in Nat /\ d # L + 1
      /\ \A d \in Nodes(t) : d \in Nodes(s) \/ d = L + 1
  BY <1>2 DEF AddedNodes, Nodes
<1>5. \A d \in Nodes(s) : \A i \in Kids(s, d) :
        s.node[d].kids[i] \in Nodes(s) /\ s.node[d].kids[i] > d
  BY <1>1, <1>4 DEF Tree, Later, Nodes
<1>6. Kids(t, L + 1) = {}
  BY <1>3, <1>4 DEF Kids
<1> HIDE DEF L
<1>7. Grows(s, t)
  <2>1. Len(s.node) <= Len(t.node)
    BY <1>4 DEF L
  <2>2. \A d \in Nodes(s) : Len(s.node[d].kids) <= Len(t.node[d].kids)
    BY <1>2 DEF AddedNodes
  <2>3. QED BY <1>2, <2>1, <2>2 DEF Grows, AddedNodes
<1>8. t.node # <<>>
  BY <1>1, <1>4, StateParts
<1>9. Later(t)
  <2>1. SUFFICES ASSUME NEW d \in Nodes(t), NEW i \in Kids(t, d)
                 PROVE  t.node[d].kids[i] \in (d + 1)..Len(t.node)
    BY DEF Later
  <2>2. CASE d \in Nodes(s) /\ i \in Kids(s, d) /\ t.node[d].kids[i] = s.node[d].kids[i]
    <3>1. s.node[d].kids[i] \in 1..L /\ s.node[d].kids[i] > d /\ d \in 1..L
      BY <1>5, <2>2 DEF Nodes, L
    <3>2. QED BY <1>4, <2>2, <3>1
  <2>3. CASE d = p /\ t.node[d].kids[i] = Len(t.node)
    <3>1. d \in 1..L
      BY <1>3, <2>3 DEF Nodes, L
    <3>2. QED BY <1>4, <2>3, <3>1
  <2>4. QED BY <1>2, <2>2, <2>3 DEF AddedKids
<1>10. DirsOnly(t)
  <2>1. SUFFICES ASSUME NEW d \in Nodes(t), ~t.node[d].dir
                 PROVE  t.node[d].kids = <<>>
    BY DEF DirsOnly
  <2>2. CASE d = L + 1
    BY <1>3, <1>4, <2>2
  <2>3. CASE d \in Nodes(s)
    <3>1. ~s.node[d].dir /\ d # p
      BY <1>2, <1>3, <2>1, <2>3 DEF AddedNodes
    <3>2. t.node[d] = s.node[d]
      BY <1>1, <2>3, <3>1 DEF AddedAs
    <3>3. QED BY <1>1, <2>3, <3>1, <3>2 DEF Tree, DirsOnly
  <2>4. QED BY <1>4, <2>2, <2>3
<1>11. Placed(t)
  <2>1. SUFFICES ASSUME NEW m \in 2..Len(t.node)
                 PROVE  \E d \in Nodes(t) : \E i \in Kids(t, d) : t.node[d].kids[i] = m
    BY DEF Placed
  <2>2. CASE m \in 2..Len(s.node)
    <3>1. PICK d \in Nodes(s) : \E i \in Kids(s, d) : s.node[d].kids[i] = m
      BY <1>1, <2>2 DEF Tree, Placed
    <3>2. PICK i \in Kids(s, d) : s.node[d].kids[i] = m
      BY <3>1
    <3>3. i \in Kids(t, d) /\ t.node[d].kids[i] = m
      BY <1>2, <3>2 DEF AddedNodes
    <3>4. QED BY <1>4, <3>3
  <2>3. CASE m = L + 1
    <3> DEFINE k == Len(t.node[p].kids)
    <3>1. k = Len(s.node[p].kids) + 1 /\ Len(s.node[p].kids) \in Nat
      BY <1>2, <1>3 DEF AddedNodes
    <3>2. k \in Kids(t, p) /\ k \notin Kids(s, p) /\ p \in Nodes(t)
      <4>1. Kids(t, p) = 1..k /\ p \in Nodes(t)
        BY <1>3, <1>4 DEF Kids
      <4> DEFINE l == Len(s.node[p].kids)
      <4>2. Kids(s, p) = 1..l
        BY DEF Kids
      <4> HIDE DEF k, l
      <4>3. k = l + 1 /\ l \in Nat
        BY <3>1 DEF l
      <4>4. k \in 1..k /\ k \notin 1..l
        BY <4>3
      <4>5. QED BY <4>1, <4>2, <4>4
    <3> HIDE DEF k
    <3>3. t.node[p].kids[k] = Len(t.node)
      BY <1>2, <3>2 DEF AddedKids
    <3>4. QED BY <1>4, <2>3, <3>2, <3>3
  <2>4. m \in 2..L \/ m = L + 1
    BY <1>4, <2>1
  <2>5. QED BY <2>2, <2>3, <2>4 DEF L
<1>12. Once(t)
  <2>1. SUFFICES ASSUME NEW d \in Nodes(t), NEW e \in Nodes(t), NEW i \in Kids(t, d), NEW j \in Kids(t, e),
                        t.node[d].kids[i] = t.node[e].kids[j]
                 PROVE  d = e /\ i = j
    BY DEF Once
  <2> DEFINE Old(x, y) == x \in Nodes(s) /\ y \in Kids(s, x) /\ t.node[x].kids[y] = s.node[x].kids[y]
             New(x, y) == x = p /\ y = Len(s.node[p].kids) + 1 /\ t.node[x].kids[y] = L + 1
  <2>2. (Old(d, i) \/ New(d, i)) /\ (Old(e, j) \/ New(e, j))
    BY <1>2, <1>4 DEF AddedKids
  <2>3. CASE Old(d, i) /\ Old(e, j)
    <3>1. s.node[d].kids[i] = s.node[e].kids[j]
      BY <2>1, <2>3
    <3>2. d \in Nodes(s) /\ e \in Nodes(s) /\ i \in Kids(s, d) /\ j \in Kids(s, e)
      BY <2>3
    <3>3. QED BY <1>1, <3>1, <3>2 DEF Tree, Once
  <2>4. ASSUME NEW x, NEW y, Old(x, y) PROVE t.node[x].kids[y] # L + 1
    BY <1>4, <1>5, <2>4
  <2>5. QED BY <2>1, <2>2, <2>3, <2>4
<1>13. Fewer(t)
  <2>1. SUFFICES ASSUME NEW d \in Nodes(t)
                 PROVE  Len(t.node[d].kids) < L + 1
    BY <1>4 DEF Fewer
  <2>2. CASE d = L + 1
    BY <1>3, <1>4, <2>2
  <2>3. CASE d \in Nodes(s)
    <3>1. /\ Len(s.node[d].kids) \in Nat
          /\ Len(t.node[d].kids) = IF d = p THEN Len(s.node[d].kids) + 1 ELSE Len(s.node[d].kids)
      BY <1>2, <2>3 DEF AddedNodes
    <3>2. Len(s.node[d].kids) < L
      BY <1>1, <2>3 DEF Tree, Fewer, L
    <3>3. QED BY <1>4, <3>1, <3>2
  <2>4. QED BY <1>4, <2>2, <2>3
<1>14. Distinct(t)
  <2>1. SUFFICES ASSUME NEW d \in Nodes(t), NEW i \in Kids(t, d), NEW j \in Kids(t, d),
                        t.node[t.node[d].kids[i]].name = t.node[t.node[d].kids[j]].name
                 PROVE  i = j
    BY DEF Distinct
  <2> DEFINE Old(y) == d \in Nodes(s) /\ y \in Kids(s, d) /\ t.node[d].kids[y] = s.node[d].kids[y]
             New(y) == d = p /\ y = Len(s.node[p].kids) + 1 /\ t.node[d].kids[y] = L + 1
  <2>2. (Old(i) \/ New(i)) /\ (Old(j) \/ New(j))
    BY <1>2, <1>4 DEF AddedKids
  <2>3. ASSUME NEW y, Old(y)
        PROVE  t.node[t.node[d].kids[y]].name = s.node[s.node[d].kids[y]].name
    BY <1>2, <1>5, <2>3 DEF AddedNodes
  <2>4. CASE Old(i) /\ Old(j)
    <3>1. s.node[s.node[d].kids[i]].name = s.node[s.node[d].kids[j]].name
      BY <2>1, <2>3, <2>4
    <3>2. QED BY <1>1, <2>4, <3>1 DEF Tree, Distinct
  <2>5. ASSUME NEW x, NEW y, Old(x), New(y)
        PROVE  t.node[t.node[d].kids[x]].name # t.node[t.node[d].kids[y]].name
    BY <1>3, <1>4, <2>3, <2>5
  <2>6. QED BY <2>1, <2>2, <2>4, <2>5
<1>15. QED BY <1>7, <1>8, <1>9, <1>10, <1>11, <1>12, <1>13, <1>14 DEF Tree

\* A state stays sound when a node is added under a name that is not taken.
LEMMA AddsSound ==
  ASSUME NEW s, Sound(s), NEW t, NEW p, NEW n, Adds(s, t, p, n)
  PROVE  Sound(t) /\ Grows(s, t)
<1>1. Tree(t) /\ Grows(s, t)
  BY AddsTree
<1>2. AddedNodes(s, t, p, n)
  BY AddedShape
<1>3. t \in States /\ t.fd = s.fd
  <2>1. p \in Nodes(s) /\ n \in NodeSet /\ t = Added(s, p, n)
    BY DEF Adds, Fresh
  <2>2. AddedAs(s, t, p, n)
    BY <2>1, AddedParts
  <2>3. QED BY <2>2 DEF AddedAs
<1>4. /\ \A d \in Nodes(s) : d \in Nodes(t)
      /\ \A d \in Nodes(t) : d \in Nodes(s) \/ d = Len(t.node)
  BY <1>2 DEF AddedNodes, Nodes
<1>5. Pointing(t)
  BY <1>3, <1>4 DEF Sound, Pointing
<1>6. \A d \in Nodes(s) : \A k : Filled(s.node[d], k) => Filled(t.node[d], k)
  BY <1>2 DEF AddedNodes, Filled
<1>7. Filled(n, n.size)
  BY DEF Adds, Fresh
<1>8. \A d \in Nodes(t) : Filled(t.node[d], t.node[d].size)
  <2>1. SUFFICES ASSUME NEW d \in Nodes(t) PROVE Filled(t.node[d], t.node[d].size)
    OBVIOUS
  <2>2. CASE d \in Nodes(s)
    <3>1. Filled(s.node[d], s.node[d].size) /\ t.node[d].size = s.node[d].size
      BY <1>2, <2>2 DEF Sound, Full, AddedNodes
    <3>2. QED BY <1>6, <2>2, <3>1
  <2>3. CASE d = Len(t.node)
    BY <1>2, <1>7, <2>3 DEF AddedNodes
  <2>4. QED BY <1>4, <2>2, <2>3
<1>9. \A d \in Fds : t.fd[d] # Closed => Filled(t.node[t.fd[d].node], t.fd[d].at)
  BY <1>3, <1>6 DEF Sound, Full, Pointing
<1>10. Full(t)
  BY <1>8, <1>9 DEF Full
<1>11. QED BY <1>1, <1>3, <1>5, <1>10 DEF Sound

-----------------------------------------------------------------------------
(* ramfs_write.                                                            *)

\* A buffer's capacity.
LEMMA Capacity ==
  ASSUME NEW d \in Content
  PROVE  /\ Cardinality(DOMAIN d) \in Nat
         /\ DOMAIN d = 0..(Cardinality(DOMAIN d) - 1)
         /\ \A i \in DOMAIN d : d[i] \in Memory
<1>1. PICK k \in Nat : d \in [0..(k - 1) -> Memory]
  BY DEF Content
<1>2. Cardinality(0..(k - 1)) = k
  <2>1. 0 \in Int /\ k - 1 \in Int /\ (0 > k - 1 => k = 0) /\ (k - 1) - 0 + 1 = k
    BY <1>1
  <2>2. QED BY <1>1, <2>1, FS_Interval
<1>3. QED BY <1>1, <1>2

\* What a write does to the node: m is n with the text at a place.
WrittenAs(n, at, text, m) ==
  /\ m \in NodeSet
  /\ m.name = n.name /\ m.dir = n.dir /\ m.kids = n.kids
  /\ m.size = IF at + Len(text) > n.size THEN at + Len(text) ELSE n.size
  /\ \A i \in DOMAIN n.data : i \in DOMAIN m.data
  /\ \A i \in at..(at + Len(text) - 1) : i \in DOMAIN m.data /\ m.data[i] = text[i - at + 1]
  /\ \A i \in DOMAIN n.data \ at..(at + Len(text) - 1) : m.data[i] = n.data[i]

\* The buffer of a node after a write holds what it held, and the text.
LEMMA WrittenLemma ==
  ASSUME NEW n \in NodeSet, NEW at \in Nat, NEW text \in Seq(Byte)
  PROVE  WrittenAs(n, at, text, Written(n, at, text))
<1> DEFINE need == at + Len(text)
           c == Cardinality(DOMAIN n.data)
           room == IF need <= c THEN c ELSE IF need < LeastBuffer THEN LeastBuffer ELSE 2 * need
           d == [i \in 0..(room - 1) |->
                   IF i \in at..(need - 1) THEN text[i - at + 1]
                   ELSE IF i \in DOMAIN n.data THEN n.data[i] ELSE Junk]
           z == IF need > n.size THEN need ELSE n.size
           m == [n EXCEPT !.data = d, !.size = z]
<1>1. /\ c \in Nat /\ DOMAIN n.data = 0..(c - 1) /\ n.size \in Nat
      /\ \A i \in DOMAIN n.data : n.data[i] \in Memory
  BY NodeParts, Capacity
<1>2. Len(text) \in Nat /\ need \in Nat /\ LeastBuffer \in Nat
  BY VfsAssumption
<1>3. Written(n, at, text) = m
  BY DEF Written
<1> HIDE DEF c, m
<1>4. room \in Nat /\ c <= room /\ need <= room
  BY <1>1, <1>2
<1>5. \A i \in at..(need - 1) : i - at + 1 \in 1..Len(text) /\ text[i - at + 1] \in Byte
  <2>1. SUFFICES ASSUME NEW i \in at..(need - 1) PROVE i - at + 1 \in 1..Len(text) /\ text[i - at + 1] \in Byte
    OBVIOUS
  <2>2. i - at + 1 \in 1..Len(text)
    BY <1>2
  <2>3. QED BY <2>2
<1> HIDE DEF room
<1>6. \A i \in 0..(room - 1) : d[i] \in Memory
  BY <1>1, <1>5 DEF Memory
<1>7. d \in [0..(room - 1) -> Memory]
  BY <1>6
<1>8. d \in Content
  BY <1>4, <1>7 DEF Content
<1>9. /\ \A i \in DOMAIN n.data : i \in DOMAIN d
      /\ \A i \in at..(need - 1) : i \in DOMAIN d /\ d[i] = text[i - at + 1]
      /\ \A i \in DOMAIN n.data \ at..(need - 1) : d[i] = n.data[i]
  BY <1>1, <1>2, <1>4
<1>10. z \in Nat
  BY <1>1, <1>2
<1>11. m = [n EXCEPT !.data = d, !.size = z]
  BY DEF m
<1>12. z = IF need > n.size THEN need ELSE n.size
  OBVIOUS
<1> HIDE DEF d, z
<1>13. /\ m \in NodeSet /\ m.name = n.name /\ m.dir = n.dir /\ m.kids = n.kids
       /\ m.size = z /\ m.data = d
  BY <1>8, <1>10, <1>11 DEF NodeSet
<1>14. WrittenAs(n, at, text, m)
  BY <1>9, <1>12, <1>13 DEF WrittenAs
<1>15. QED BY <1>3, <1>14

\* What was written stays written, and so is the text; no byte between them was not.
LEMMA WrittenFilled ==
  ASSUME NEW n \in NodeSet, NEW at \in Nat, NEW text \in Seq(Byte), NEW m,
         WrittenAs(n, at, text, m)
  PROVE  /\ \A k \in Nat : Filled(n, k) => Filled(m, k)
         /\ Filled(n, at) => Filled(m, at + Len(text))
         /\ Filled(n, at) /\ Filled(n, n.size) => Filled(m, m.size)
<1>1. Len(text) \in Nat /\ n.size \in Nat
  BY NodeParts
<1>2. \A i \in at..(at + Len(text) - 1) : i \in DOMAIN m.data /\ m.data[i] \in Byte
  <2>1. SUFFICES ASSUME NEW i \in at..(at + Len(text) - 1) PROVE i \in DOMAIN m.data /\ m.data[i] \in Byte
    OBVIOUS
  <2>2. i - at + 1 \in 1..Len(text)
    BY <1>1
  <2>3. text[i - at + 1] \in Byte
    BY <2>2
  <2>4. QED BY <2>3 DEF WrittenAs
<1>3. \A i \in DOMAIN n.data : n.data[i] \in Byte => i \in DOMAIN m.data /\ m.data[i] \in Byte
  BY <1>2 DEF WrittenAs
<1>4. \A k \in Nat : Filled(n, k) => Filled(m, k)
  BY <1>3 DEF Filled
<1>5. Filled(n, at) => Filled(m, at + Len(text))
  <2>1. SUFFICES ASSUME Filled(n, at), NEW i \in 0..(at + Len(text) - 1)
                 PROVE  i \in DOMAIN m.data /\ m.data[i] \in Byte
    BY DEF Filled
  <2>2. i \in 0..(at - 1) \/ i \in at..(at + Len(text) - 1)
    BY <1>1
  <2>3. QED BY <1>2, <1>3, <2>1, <2>2 DEF Filled
<1>6. m.size = at + Len(text) \/ m.size = n.size
  BY DEF WrittenAs
<1>7. QED BY <1>1, <1>4, <1>5, <1>6

-----------------------------------------------------------------------------
(* Contents.                                                               *)

\* Soundness when only contents and descriptors change.
LEMMA AlikeSound ==
  ASSUME NEW s, NEW t, Sound(s), t \in States, Alike(s, t), Pointing(t), Full(t)
  PROVE  Sound(t) /\ Grows(s, t)
BY AlikeTree DEF Sound

\* The bytes of a node and of all nodes, and the open descriptors, as their users see them.
Bytes(n) == [i \in 1..n.size |-> n.data[i - 1]]
File(s) == [n \in DOMAIN s.node |-> Bytes(s.node[n])]
Desc(s) ==
  [d \in {x \in Fds : s.fd[x] # Closed} |-> [file |-> s.fd[d].node, at |-> s.fd[d].at]]

\* Bytes that were written are bytes.
LEMMA BytesType ==
  ASSUME NEW n \in NodeSet, Filled(n, n.size)
  PROVE  Bytes(n) \in Seq(Byte) /\ Len(Bytes(n)) = n.size
<1>1. n.size \in Nat
  BY NodeParts
<1>2. \A i \in 1..n.size : n.data[i - 1] \in Byte
  BY <1>1 DEF Filled
<1>3. Bytes(n) \in [1..n.size -> Byte]
  BY <1>2 DEF Bytes
<1>4. DOMAIN Bytes(n) = 1..n.size
  BY DEF Bytes
<1>5. QED BY <1>1, <1>3, <1>4

\* The files of a sound state are a sequence of sequences of bytes.
LEMMA FileType ==
  ASSUME NEW s, Sound(s)
  PROVE  /\ DOMAIN s.node = Nodes(s) /\ File(s) \in Seq(Seq(Byte)) /\ Len(File(s)) = Len(s.node)
         /\ \A n \in Nodes(s) : File(s)[n] = Bytes(s.node[n])
<1>1. s \in States /\ s.node \in Seq(NodeSet) /\ Len(s.node) \in Nat
  BY StateParts DEF Sound
<1>2. DOMAIN s.node = Nodes(s)
  BY <1>1 DEF Nodes
<1>3. \A n \in Nodes(s) : Bytes(s.node[n]) \in Seq(Byte)
  BY <1>1, NodeAt, BytesType DEF Sound, Full
<1>4. File(s) \in [1..Len(s.node) -> Seq(Byte)]
  BY <1>2, <1>3 DEF File, Nodes
<1>5. DOMAIN File(s) = 1..Len(s.node)
  BY <1>2 DEF File, Nodes
<1>6. \A n \in Nodes(s) : File(s)[n] = Bytes(s.node[n])
  BY <1>2 DEF File
<1> HIDE DEF File
<1>7. QED BY <1>1, <1>2, <1>4, <1>5, <1>6

\* A node that was added is a file more.
LEMMA AddsFile ==
  ASSUME NEW s, Sound(s), NEW t, NEW p, NEW n, Adds(s, t, p, n)
  PROVE  /\ File(t) = Append(File(s), Bytes(n)) /\ Desc(t) = Desc(s)
         /\ Bytes(n) \in Seq(Byte)
<1>1. Sound(t) /\ AddedNodes(s, t, p, n)
  BY AddsSound, AddedShape
<1>2. AddedAs(s, t, p, n)
  BY AddedParts DEF Adds, Fresh
<1>3. Bytes(n) \in Seq(Byte)
  BY BytesType DEF Adds, Fresh
<1> DEFINE L == Len(s.node)
           f == File(s)
           g == File(t)
           b == Bytes(n)
<1>4. /\ L \in Nat /\ f \in Seq(Seq(Byte)) /\ Len(f) = L
      /\ g \in Seq(Seq(Byte)) /\ Len(g) = L + 1
  BY <1>1, FileType DEF AddedNodes
<1>5. g[L + 1] = b
  <2>1. L + 1 \in Nodes(t) /\ t.node[L + 1] = n
    BY <1>1 DEF AddedNodes, Nodes
  <2>2. QED BY <1>1, <2>1, FileType
<1>6. \A d \in 1..L : g[d] = f[d]
  <2>1. SUFFICES ASSUME NEW d \in 1..L PROVE g[d] = f[d]
    OBVIOUS
  <2>2. d \in Nodes(s) /\ d \in Nodes(t)
    BY <1>1 DEF Nodes, AddedNodes
  <2>3. t.node[d].size = s.node[d].size /\ t.node[d].data = s.node[d].data
    BY <1>1, <2>2 DEF AddedNodes
  <2>4. Bytes(t.node[d]) = Bytes(s.node[d])
    BY <2>3 DEF Bytes
  <2>5. QED BY <1>1, <2>2, <2>4, FileType
<1> HIDE DEF L, f, g, b
<1>7. g = Append(f, b)
  <2>1. b \in Seq(Byte)
    BY <1>3 DEF b
  <2>2. Append(f, b) \in Seq(Seq(Byte)) /\ Len(Append(f, b)) = L + 1
    BY <1>4, <2>1
  <2>3. \A d \in 1..(L + 1) : g[d] = Append(f, b)[d]
    BY <1>4, <1>5, <1>6
  <2>4. QED BY <1>4, <2>2, <2>3, SeqEqual
<1>8. Desc(t) = Desc(s)
  BY <1>2 DEF AddedAs, Desc
<1>9. QED BY <1>3, <1>7, <1>8 DEF f, g, b

\* t is s with the contents of node m replaced by those of n.
Rewrites(s, t, m, n) ==
  /\ m \in Nodes(s) /\ n \in NodeSet
  /\ n.name = s.node[m].name /\ n.dir = s.node[m].dir /\ n.kids = s.node[m].kids
  /\ t.node = [s.node EXCEPT ![m] = n]

\* When one node is rewritten, the rest of the tree is as it was.
LEMMA RewritesShape ==
  ASSUME NEW s, Sound(s), NEW t \in States, NEW m, NEW n, Rewrites(s, t, m, n)
  PROVE  /\ Alike(s, t) /\ Nodes(t) = Nodes(s)
         /\ t.node[m] = n /\ \A d \in Nodes(s) : d # m => t.node[d] = s.node[d]
<1>1. s.node \in Seq(NodeSet) /\ Len(s.node) \in Nat /\ m \in 1..Len(s.node) /\ n \in NodeSet
  BY StateParts DEF Sound, Rewrites, Nodes
<1>2. /\ Len(t.node) = Len(s.node)
      /\ \A d \in 1..Len(s.node) : t.node[d] = IF d = m THEN n ELSE s.node[d]
  BY <1>1, ExceptSeq DEF Rewrites
<1>3. QED BY <1>1, <1>2 DEF Rewrites, Alike, Nodes

\* A file is replaced, and no other changes.
LEMMA RewritesFile ==
  ASSUME NEW s, Sound(s), NEW t, Sound(t), NEW m, NEW n, Rewrites(s, t, m, n)
  PROVE  File(t) = [File(s) EXCEPT ![m] = Bytes(n)]
<1>1. t \in States /\ m \in Nodes(s)
  BY DEF Sound, Rewrites
<1>2. Nodes(t) = Nodes(s) /\ t.node[m] = n /\ \A d \in Nodes(s) : d # m => t.node[d] = s.node[d]
  BY <1>1, RewritesShape
<1>3. DOMAIN s.node = Nodes(s) /\ DOMAIN t.node = Nodes(s)
  BY <1>2, FileType
<1>4. \A d \in Nodes(s) : Bytes(t.node[d]) = IF d = m THEN Bytes(n) ELSE Bytes(s.node[d])
  BY <1>2
<1>5. QED BY <1>1, <1>3, <1>4 DEF File

-----------------------------------------------------------------------------
(* vfs_mkdir and vfs_create_file.                                          *)

\* p is the directory the last component of a path is looked for in.
Holder(s, path, p) ==
  /\ p = IF Len(path) = 1 THEN Root ELSE Lookup(s, Front(path))
  /\ p \in Nodes(s) /\ s.node[p].dir

\* A path has one component or more.
LEMMA LongPath ==
  ASSUME NEW path \in PathSet, path # <<>>, Len(path) # 1
  PROVE  Len(path) > 1
<1> DEFINE n == Len(path)
<1>1. n \in Nat \ {0} /\ n # 1
  BY DEF PathSet
<1> HIDE DEF n
<1>2. n > 1
  BY <1>1
<1>3. QED BY <1>2 DEF n

\* A parent that is found is the directory a path is looked for in.
LEMMA ParentHolds ==
  ASSUME NEW s, Sound(s), NEW path \in PathSet, path # <<>>, Parent(s, path) # Nil
  PROVE  Holder(s, path, Parent(s, path))
<1> DEFINE q == IF Len(path) = 1 THEN Root ELSE Lookup(s, Front(path))
<1>1. Len(path) \in Nat \ {0} /\ Len(s.node) \in Nat \ {0}
  BY StateParts DEF PathSet, Sound, Tree
<1>2. q \in 0..Len(s.node)
  <2>1. CASE Len(path) = 1
    BY <1>1, <2>1 DEF Root
  <2>2. CASE Len(path) # 1
    <3>1. Len(path) > 1
      BY <2>2, LongPath
    <3>2. Front(path) \in PathSet
      BY <3>1, LookupFront
    <3>3. QED BY <2>2, <3>2, LookupType
  <2>3. QED BY <2>1, <2>2
<1>3. Parent(s, path) = IF q # Nil /\ s.node[q].dir THEN q ELSE Nil
  BY DEF Parent
<1> HIDE DEF q
<1>4. Parent(s, path) = q /\ q # Nil /\ s.node[q].dir
  BY <1>3
<1>5. q \in Nodes(s)
  BY <1>1, <1>2, <1>4 DEF Nodes, Nil
<1>6. QED BY <1>4, <1>5 DEF Holder, q

\* The last component leads on from that directory.
LEMMA HolderLookup ==
  ASSUME NEW s, Sound(s), NEW path \in PathSet, path # <<>>, NEW p, Holder(s, path, p)
  PROVE  Lookup(s, path) = Enter(s, p, Last(path)) /\ p # Nil
<1>1. p # Nil
  BY StateParts DEF Holder, Nodes, Nil, Sound
<1>2. CASE Len(path) = 1
  BY <1>1, <1>2, LookupOne DEF Holder
<1>3. CASE Len(path) # 1
  <2>1. Len(path) > 1
    BY <1>3, LongPath
  <2>2. QED BY <1>1, <1>3, <2>1, LookupFront DEF Holder
<1>4. QED BY <1>2, <1>3

\* t is s with a node more, for a path that had none.
Makes(s, t, path) ==
  \E p, n : Holder(s, path, p) /\ n.name = Last(path) /\ Adds(s, t, p, n)

\* The last component of a path is a name or empty.
LEMMA LastName ==
  ASSUME NEW path \in PathSet, path # <<>>
  PROVE  Last(path) \in Names \cup {Empty}
<1>1. Len(path) \in 1..Len(path)
  BY DEF PathSet
<1>2. QED BY <1>1 DEF Last, PathSet

\* A new node has no children and no bytes.
LEMMA NewNodeFresh ==
  ASSUME NEW name \in Names \cup {Empty}, NEW dir \in BOOLEAN
  PROVE  /\ Fresh(NewNode(name, dir)) /\ NewNode(name, dir).name = name
         /\ NewNode(name, dir).size = 0
<1> DEFINE e == [i \in {} |-> Junk]
           n == [name |-> name, dir |-> dir, kids |-> <<>>, size |-> 0, data |-> e]
<1>1. e \in [0..(0 - 1) -> Memory] /\ 0 \in Nat
  OBVIOUS
<1>2. e \in Content
  BY <1>1 DEF Content
<1>3. <<>> \in Seq(Nat)
  OBVIOUS
<1>4. NewNode(name, dir) = n
  BY DEF NewNode
<1> HIDE DEF e
<1>5. n \in NodeSet
  BY <1>2, <1>3 DEF NodeSet
<1>6. n.kids = <<>> /\ n.name = name /\ n.size = 0
  OBVIOUS
<1>7. 0..(0 - 1) = {}
  OBVIOUS
<1>8. Filled(n, n.size)
  BY <1>6, <1>7 DEF Filled
<1>9. QED BY <1>4, <1>5, <1>6, <1>8 DEF Fresh

\* Without bytes, a file is the empty sequence.
LEMMA BytesNone ==
  ASSUME NEW n \in NodeSet, n.size = 0
  PROVE  Bytes(n) = <<>>
<1>1. 1..0 = {}
  OBVIOUS
<1>2. Filled(n, n.size)
  BY DEF Filled
<1>3. Bytes(n) \in Seq(Byte) /\ Len(Bytes(n)) = 0
  BY <1>2, BytesType
<1>4. QED BY <1>3

\* The path vfs_mkdir uses: a slash at the end is dropped.
Trim(path) == IF Len(path) > 1 /\ Last(path) = Empty THEN Front(path) ELSE path

\* A path without its last slash is a path, and not empty.
LEMMA TrimPath ==
  ASSUME NEW path \in PathSet, path # <<>>
  PROVE  Trim(path) \in PathSet /\ Trim(path) # <<>>
<1>1. Len(path) \in Nat \ {0}
  BY DEF PathSet
<1>2. CASE Len(path) > 1 /\ Last(path) = Empty
  <2> DEFINE p == Front(path)
  <2>1. p \in PathSet /\ Len(p) = Len(path) - 1
    BY <1>1, <1>2 DEF Front, PathSet
  <2>2. p # <<>>
    BY <1>1, <1>2, <2>1
  <2>3. QED BY <1>2, <2>1, <2>2 DEF Trim
<1>3. QED BY <1>2 DEF Trim

\* vfs_mkdir changes nothing, or makes one directory.
LEMMA MkdirLemma ==
  ASSUME NEW s, Sound(s), NEW path \in PathSet
  PROVE  \/ \E v \in 0..Len(s.node) : Mkdir(s, path) = Returns(s, v)
         \/ /\ path # <<>> /\ Makes(s, Mkdir(s, path), Trim(path))
            /\ File(Mkdir(s, path)) = Append(File(s), <<>>)
<1> DEFINE q == Trim(path)
           parent == IF path = <<>> THEN Nil ELSE Parent(s, q)
           found == Find(s, parent, Last(q))
           n == NewNode(Last(q), TRUE)
           t == Mkdir(s, path)
<1>1. Len(s.node) \in Nat /\ Nil \in 0..Len(s.node)
  BY StateParts DEF Sound, Nil
<1>2. t = IF parent = Nil THEN Returns(s, Nil)
          ELSE IF found # Nil THEN Returns(s, found) ELSE Added(s, parent, n)
  BY DEF Mkdir, Trim
<1> HIDE DEF t
<1>3. CASE parent = Nil
  BY <1>1, <1>2, <1>3 DEF t
<1>4. CASE parent # Nil
  <2>1. path # <<>> /\ parent = Parent(s, q)
    BY <1>4
  <2>2. q \in PathSet /\ q # <<>>
    BY <2>1, TrimPath
  <2> HIDE DEF q
  <2>3. Holder(s, q, parent)
    BY <1>4, <2>1, <2>2, ParentHolds
  <2> HIDE DEF parent
  <2>4. found \in 0..Len(s.node) /\ Finds(s, parent, Last(q), found)
    BY <2>3, FindFinds DEF Holder
  <2>5. CASE found # Nil
    <3>1. t = Returns(s, found)
      BY <1>2, <1>4, <2>5
    <3>2. QED BY <2>4, <3>1 DEF t
  <2>6. CASE found = Nil
    <3>1. t = Added(s, parent, n)
      BY <1>2, <1>4, <2>6
    <3>2. Fresh(n) /\ n.name = Last(q) /\ n.size = 0
      BY <2>2, LastName, NewNodeFresh
    <3> HIDE DEF n
    <3>3. Finds(s, parent, n.name, Nil)
      BY <2>4, <2>6, <3>2
    <3>4. Adds(s, t, parent, n)
      BY <2>3, <3>1, <3>2, <3>3 DEF Adds, Holder
    <3>5. Makes(s, t, q)
      BY <2>3, <3>2, <3>4 DEF Makes
    <3>6. Bytes(n) = <<>>
      BY <3>2, BytesNone DEF Fresh
    <3>7. File(t) = Append(File(s), <<>>)
      BY <3>4, <3>6, AddsFile
    <3>8. QED BY <2>1, <3>5, <3>7 DEF t, q
  <2>7. QED BY <2>5, <2>6
<1>5. QED BY <1>3, <1>4

\* t is s unchanged, or with the file of that path and with bytes if there are any.
Creates(s, path, text, t) ==
  \/ t = Returns(s, Nil)
  \/ /\ path # <<>> /\ Makes(s, t, path)
     /\ \E b \in Seq(Byte) : File(t) = Append(File(s), b) /\ (text = <<>> => b = <<>>)

\* vfs_create_file changes nothing, or makes the file if its name is not taken.
LEMMA CreateFileLemma ==
  ASSUME NEW s, Sound(s), NEW path \in PathSet, NEW text \in Seq(Byte),
         path # <<>> =>
           \A p : Holder(s, path, p) => Finds(s, p, Last(path), Nil)
  PROVE  Creates(s, path, text, CreateFile(s, path, text))
<1> DEFINE parent == IF path = <<>> THEN Nil ELSE Parent(s, path)
           new == NewNode(Last(path), FALSE)
           n == IF text = <<>> THEN new ELSE Written(new, 0, text)
           t == CreateFile(s, path, text)
<1>1. t = IF parent = Nil THEN Returns(s, Nil) ELSE Added(s, parent, n)
  BY DEF CreateFile
<1> HIDE DEF t
<1>2. CASE parent = Nil
  BY <1>1, <1>2 DEF t, Creates
<1>3. CASE parent # Nil
  <2>1. path # <<>> /\ parent = Parent(s, path)
    BY <1>3
  <2>2. Holder(s, path, parent)
    BY <1>3, <2>1, ParentHolds
  <2> HIDE DEF parent
  <2>3. Fresh(new) /\ new.name = Last(path) /\ new.size = 0
    BY <2>1, LastName, NewNodeFresh
  <2> HIDE DEF new
  <2>4. Fresh(n) /\ n.name = Last(path)
    <3>1. CASE text = <<>>
      BY <2>3, <3>1
    <3>2. CASE text # <<>>
      <4> DEFINE w == Written(new, 0, text)
      <4>1. new \in NodeSet /\ 0 \in Nat
        BY <2>3 DEF Fresh
      <4>2. WrittenAs(new, 0, text, w)
        BY <4>1, WrittenLemma
      <4>3. n = w
        BY <3>2
      <4> HIDE DEF w, n
      <4>4. Filled(new, 0)
        BY <2>3 DEF Fresh
      <4>5. Filled(w, w.size)
        BY <2>3, <4>1, <4>2, <4>4, WrittenFilled
      <4>6. w \in NodeSet /\ w.name = new.name /\ w.kids = new.kids
        BY <4>2 DEF WrittenAs
      <4>7. QED BY <2>3, <4>3, <4>5, <4>6 DEF Fresh
    <3>3. QED BY <3>1, <3>2
  <2>5. text = <<>> => n.size = 0
    BY <2>3
  <2>6. t = Added(s, parent, n)
    BY <1>1, <1>3
  <2> HIDE DEF n
  <2>7. Finds(s, parent, n.name, Nil)
    BY <2>1, <2>2, <2>4
  <2>8. Adds(s, t, parent, n)
    BY <2>2, <2>4, <2>6, <2>7 DEF Adds, Holder
  <2>9. Makes(s, t, path)
    BY <2>2, <2>4, <2>8 DEF Makes
  <2>10. File(t) = Append(File(s), Bytes(n)) /\ Bytes(n) \in Seq(Byte)
    BY <2>8, AddsFile
  <2>11. text = <<>> => Bytes(n) = <<>>
    BY <2>4, <2>5, BytesNone DEF Fresh
  <2>12. QED BY <2>1, <2>9, <2>10, <2>11 DEF t, Creates
<1>4. QED BY <1>2, <1>3

\* What a call that made a node leaves.
LEMMA MakesLemma ==
  ASSUME NEW s, Sound(s), NEW t, NEW path, Makes(s, t, path)
  PROVE  /\ Sound(t) /\ Grows(s, t)
         /\ t.fd = s.fd /\ t.seen = <<>> /\ t.ret = Len(s.node) + 1
         /\ Len(t.node) = Len(s.node) + 1
<1>1. PICK p, n : Adds(s, t, p, n)
  BY DEF Makes
<1>2. p \in Nodes(s) /\ n \in NodeSet /\ t = Added(s, p, n)
  BY <1>1 DEF Adds, Fresh
<1>3. AddedAs(s, t, p, n)
  BY <1>2, AddedParts
<1>4. QED BY <1>1, <1>3, AddsSound DEF AddedAs

-----------------------------------------------------------------------------
(* vfs_open.                                                               *)

\* A path that names nothing has a last component that nothing in its directory has.
LEMMA NotTaken ==
  ASSUME NEW s, Sound(s), NEW path \in PathSet, path # <<>>, Lookup(s, path) = Nil,
         NEW p, Holder(s, path, p)
  PROVE  Finds(s, p, Last(path), Nil)
<1>1. Enter(s, p, Last(path)) = Nil /\ p # Nil
  BY HolderLookup
<1>2. Find(s, p, Last(path)) = Nil
  BY <1>1 DEF Enter
<1>3. p \in Nodes(s)
  BY DEF Holder
<1>4. Finds(s, p, Last(path), Find(s, p, Last(path)))
  BY <1>3, FindFinds
<1>5. QED BY <1>2, <1>4

\* u is s, or s with the file that the result is the number of, new and empty.
FoundAs(s, u, flags) ==
  /\ Sound(u) /\ Grows(s, u) /\ u.fd = s.fd /\ u.seen = <<>> /\ u.ret \in 0..Len(u.node)
  /\ \/ u.node = s.node
     \/ /\ "CREAT" \in flags /\ u.ret = Len(s.node) + 1
        /\ Len(u.node) = Len(s.node) + 1 /\ File(u) = Append(File(s), <<>>)

\* Trees grow from themselves, and on.
LEMMA GrowsSelf ==
  ASSUME NEW s \in States, NEW t, t.node = s.node
  PROVE  Grows(s, t)
<1>1. Len(s.node) \in Nat
  BY StateParts
<1>2. \A d \in Nodes(s) : Len(s.node[d].kids) \in Nat
  BY NodeAt, NodeParts
<1>3. QED BY <1>1, <1>2 DEF Grows

\* Growing twice is growing.
LEMMA GrowsOn ==
  ASSUME NEW s, NEW t, NEW u, Sound(s), Sound(t), Sound(u), Grows(s, t), Grows(t, u)
  PROVE  Grows(s, u)
<1>1. Len(s.node) \in Nat /\ Len(t.node) \in Nat /\ Len(u.node) \in Nat
  BY StateParts DEF Sound
<1>2. Len(s.node) <= Len(t.node) /\ Len(t.node) <= Len(u.node)
  BY DEF Grows
<1>3. \A d \in Nodes(s) : d \in Nodes(t) /\ d \in Nodes(u)
  BY <1>1, <1>2 DEF Nodes
<1>4. ASSUME NEW d \in Nodes(s)
      PROVE  /\ u.node[d].name = s.node[d].name /\ u.node[d].dir = s.node[d].dir
             /\ Len(s.node[d].kids) <= Len(u.node[d].kids)
             /\ \A i \in Kids(s, d) : u.node[d].kids[i] = s.node[d].kids[i]
  <2>1. /\ Len(s.node[d].kids) \in Nat /\ Len(t.node[d].kids) \in Nat /\ Len(u.node[d].kids) \in Nat
    BY <1>3, NodeAt, NodeParts DEF Sound
  <2>2. /\ t.node[d].name = s.node[d].name /\ t.node[d].dir = s.node[d].dir
        /\ Len(s.node[d].kids) <= Len(t.node[d].kids)
        /\ \A i \in Kids(s, d) : t.node[d].kids[i] = s.node[d].kids[i]
    BY DEF Grows
  <2>3. /\ u.node[d].name = t.node[d].name /\ u.node[d].dir = t.node[d].dir
        /\ Len(t.node[d].kids) <= Len(u.node[d].kids)
        /\ \A i \in Kids(t, d) : u.node[d].kids[i] = t.node[d].kids[i]
    BY <1>3 DEF Grows
  <2>4. \A i \in Kids(s, d) : i \in Kids(t, d)
    BY <2>1, <2>2 DEF Kids
  <2>5. Len(s.node[d].kids) <= Len(u.node[d].kids)
    <3> DEFINE a == Len(s.node[d].kids)
               b == Len(t.node[d].kids)
               c == Len(u.node[d].kids)
    <3>1. a \in Nat /\ b \in Nat /\ c \in Nat /\ a <= b /\ b <= c
      BY <2>1, <2>2, <2>3
    <3> HIDE DEF a, b, c
    <3>2. a <= c
      BY <3>1
    <3>3. QED BY <3>2 DEF a, c
  <2>6. QED BY <2>2, <2>3, <2>4, <2>5
<1>5. Len(s.node) <= Len(u.node)
  BY <1>1, <1>2
<1>6. QED BY <1>4, <1>5 DEF Grows

\* What vfs_open does up to its check of the node it found or made.
LEMMA FoundOrMadeLemma ==
  ASSUME NEW s, Sound(s), NEW path \in PathSet, NEW flags
  PROVE  FoundAs(s, FoundOrMade(s, path, flags), flags)
<1> DEFINE u == FoundOrMade(s, path, flags)
<1>1. s \in States /\ Len(s.node) \in Nat /\ Lookup(s, path) \in 0..Len(s.node)
  BY StateParts, LookupType DEF Sound
<1>2. ASSUME NEW v \in 0..Len(s.node), u = Returns(s, v)
      PROVE  FoundAs(s, u, flags)
  <2>1. v \in Int
    BY <1>1
  <2> HIDE DEF u
  <2>2. Sound(u) /\ u.node = s.node /\ u.fd = s.fd /\ u.ret = v /\ u.seen = <<>>
    BY <1>1, <1>2, <2>1, ReturnsSound, ReturnsState
  <2>3. Grows(s, u)
    BY <1>1, <2>2, GrowsSelf
  <2>4. QED BY <2>2, <2>3 DEF FoundAs
<1>3. CASE Lookup(s, path) = Nil /\ "CREAT" \in flags
  <2>1. u = CreateFile(s, path, <<>>)
    BY <1>3 DEF FoundOrMade
  <2>2. path # <<>> => \A p : Holder(s, path, p) => Finds(s, p, Last(path), Nil)
    BY <1>3, NotTaken
  <2>3. <<>> \in Seq(Byte)
    OBVIOUS
  <2>4. Creates(s, path, <<>>, u)
    BY <2>1, <2>2, <2>3, CreateFileLemma
  <2>5. CASE u = Returns(s, Nil)
    BY <1>1, <1>2, <2>5 DEF Nil
  <2>6. CASE Makes(s, u, path) /\ File(u) = Append(File(s), <<>>)
    <3> HIDE DEF u
    <3>1. /\ Sound(u) /\ Grows(s, u) /\ u.fd = s.fd /\ u.seen = <<>> /\ u.ret = Len(s.node) + 1
          /\ Len(u.node) = Len(s.node) + 1
      BY <2>6, MakesLemma
    <3>2. u.ret \in 0..Len(u.node)
      BY <1>1, <3>1
    <3>3. "CREAT" \in flags /\ File(u) = Append(File(s), <<>>)
      BY <1>3, <2>6
    <3>4. QED BY <3>1, <3>2, <3>3 DEF FoundAs, u
  <2>7. QED BY <2>4, <2>5, <2>6 DEF Creates
<1>4. CASE ~(Lookup(s, path) = Nil /\ "CREAT" \in flags)
  <2>1. u = Returns(s, Lookup(s, path))
    BY <1>4 DEF FoundOrMade
  <2>2. QED BY <1>1, <1>2, <2>1
<1>5. QED BY <1>3, <1>4

\* A truncation takes the bytes of one file and changes nothing else.
LEMMA TruncatedLemma ==
  ASSUME NEW s, Sound(s), NEW m \in Nodes(s), NEW t, t = Truncated(s, m)
  PROVE  /\ Sound(t) /\ Grows(s, t) /\ Len(t.node) = Len(s.node)
         /\ t.fd = s.fd /\ t.ret = s.ret /\ t.seen = s.seen
         /\ File(t) = [File(s) EXCEPT ![m] = <<>>]
<1> DEFINE n == [s.node[m] EXCEPT !.size = 0]
           w == [s.node EXCEPT ![m] = n]
<1>1. /\ s \in States /\ s.node \in Seq(NodeSet) /\ Len(s.node) \in Nat /\ m \in 1..Len(s.node)
      /\ s.node[m] \in NodeSet
  BY StateParts, NodeAt DEF Sound, Nodes
<1>2. /\ n \in NodeSet /\ n.name = s.node[m].name /\ n.dir = s.node[m].dir
      /\ n.kids = s.node[m].kids /\ n.data = s.node[m].data /\ n.size = 0
  BY <1>1 DEF NodeSet
<1>3. t = [s EXCEPT !.node = w]
  BY DEF Truncated
<1> HIDE DEF n
<1>4. w \in Seq(NodeSet)
  BY <1>1, <1>2, ExceptSeq
<1>5. w = [s.node EXCEPT ![m] = n]
  OBVIOUS
<1> HIDE DEF w
<1>6. t \in States /\ t.node = w /\ t.fd = s.fd /\ t.ret = s.ret /\ t.seen = s.seen
  BY <1>1, <1>3, <1>4 DEF States
<1>7. Rewrites(s, t, m, n)
  BY <1>2, <1>5, <1>6 DEF Rewrites
<1>8. /\ Alike(s, t) /\ Nodes(t) = Nodes(s)
      /\ t.node[m] = n /\ \A d \in Nodes(s) : d # m => t.node[d] = s.node[d]
  BY <1>6, <1>7, RewritesShape
<1>9. \A d \in Nodes(s) : \A k : Filled(s.node[d], k) => Filled(t.node[d], k)
  BY <1>2, <1>8 DEF Filled
<1>10. Filled(n, 0)
  BY DEF Filled
<1>11. \A d \in Nodes(t) : Filled(t.node[d], t.node[d].size)
  <2>1. SUFFICES ASSUME NEW d \in Nodes(s) PROVE Filled(t.node[d], t.node[d].size)
    BY <1>8
  <2>2. CASE d = m
    BY <1>2, <1>8, <1>10, <2>2
  <2>3. CASE d # m
    BY <1>8, <2>3 DEF Sound, Full
  <2>4. QED BY <2>2, <2>3
<1>12. \A d \in Fds : t.fd[d] # Closed => Filled(t.node[t.fd[d].node], t.fd[d].at)
  BY <1>6, <1>9 DEF Sound, Full, Pointing
<1>13. Full(t)
  BY <1>11, <1>12 DEF Full
<1>14. Pointing(t)
  BY <1>6, <1>8 DEF Sound, Pointing
<1>15. Sound(t) /\ Grows(s, t)
  BY <1>6, <1>8, <1>13, <1>14, AlikeSound
<1>16. File(t) = [File(s) EXCEPT ![m] = Bytes(n)]
  BY <1>7, <1>15, RewritesFile
<1>17. Bytes(n) = <<>>
  BY <1>2, BytesNone
<1>18. QED BY <1>6, <1>8, <1>15, <1>16, <1>17 DEF Alike

\* v is s made ready for an open of the node that is the result: as it is, with that file
\* emptied, or with that file, new.
PreparedFile(s, v) ==
  \/ v.ret \in Nodes(s) /\ v.node = s.node
  \/ v.ret \in Nodes(s) /\ File(v) = [File(s) EXCEPT ![v.ret] = <<>>]
  \/ v.ret = Len(s.node) + 1 /\ File(v) = Append(File(s), <<>>)

Prepared(s, v, flags) ==
  /\ Sound(v) /\ Grows(s, v) /\ v.fd = s.fd /\ v.ret \in 0..Len(v.node)
  /\ v.ret = Nil => v.node = s.node
  /\ v.ret # Nil => PreparedFile(s, v)
  /\ "CREAT" \notin flags /\ "TRUNC" \notin flags => v.node = s.node

\* What vfs_open does up to the search for a descriptor.
LEMMA EmptiedLemma ==
  ASSUME NEW s, Sound(s), NEW flags, NEW u, FoundAs(s, u, flags)
  PROVE  Prepared(s, Emptied(u, flags), flags)
<1> DEFINE v == Emptied(u, flags)
<1>1. Sound(u) /\ Grows(s, u) /\ u.fd = s.fd /\ u.ret \in 0..Len(u.node)
  BY DEF FoundAs
<1>2. Len(s.node) \in Nat \ {0} /\ Len(u.node) \in Nat
  BY <1>1, StateParts DEF Sound, Tree
<1>3. u.ret = Nil => u.node = s.node
  BY <1>2 DEF FoundAs, Nil
<1>4. u.ret # Nil => u.ret \in Nodes(u)
  BY <1>1, <1>2 DEF Nodes, Nil
<1>5. File(s) \in Seq(Seq(Byte)) /\ Len(File(s)) = Len(s.node)
  BY FileType
<1>6. CASE u.ret = Nil \/ "TRUNC" \notin flags
  <2>1. v = u
    BY <1>6 DEF Emptied
  <2> HIDE DEF v
  <2>2. v.ret # Nil => PreparedFile(s, v)
    BY <1>4, <2>1 DEF PreparedFile, FoundAs, Nodes
  <2>3. "CREAT" \notin flags => v.node = s.node
    BY <2>1 DEF FoundAs
  <2>4. QED BY <1>1, <1>3, <2>1, <2>2, <2>3 DEF Prepared, v
<1>7. CASE u.ret # Nil /\ "TRUNC" \in flags
  <2> DEFINE m == u.ret
  <2>1. v = Truncated(u, m) /\ m \in Nodes(u)
    BY <1>4, <1>7 DEF Emptied
  <2> HIDE DEF v
  <2>2. /\ Sound(v) /\ Grows(u, v) /\ Len(v.node) = Len(u.node)
        /\ v.fd = u.fd /\ v.ret = u.ret
        /\ File(v) = [File(u) EXCEPT ![m] = <<>>]
    BY <1>1, <2>1, TruncatedLemma
  <2>3. Grows(s, v)
    BY <1>1, <2>2, GrowsOn
  <2>4. CASE u.node = s.node
    <3>1. File(u) = File(s) /\ m \in Nodes(s)
      BY <2>1, <2>4 DEF File, Nodes
    <3>2. PreparedFile(s, v)
      BY <2>2, <3>1 DEF PreparedFile
    <3>3. QED BY <1>1, <1>7, <2>2, <2>3, <3>2 DEF Prepared, v
  <2>5. CASE /\ m = Len(s.node) + 1 /\ File(u) = Append(File(s), <<>>)
    <3>1. [Append(File(s), <<>>) EXCEPT ![m] = <<>>] = Append(File(s), <<>>)
      <4> DEFINE f == Append(File(s), <<>>)
      <4>1. <<>> \in Seq(Byte)
        OBVIOUS
      <4>2. f \in Seq(Seq(Byte)) /\ Len(f) = m /\ f[m] = <<>> /\ m \in 1..m
        BY <1>2, <1>5, <2>5, <4>1
      <4> HIDE DEF f
      <4>3. [f EXCEPT ![m] = <<>>] = f
        BY <4>2
      <4>4. QED BY <4>3 DEF f
    <3>2. PreparedFile(s, v)
      BY <2>2, <2>5, <3>1 DEF PreparedFile
    <3>3. QED BY <1>1, <1>7, <2>2, <2>3, <3>2 DEF Prepared, v
  <2>6. QED BY <2>4, <2>5 DEF FoundAs
<1>8. QED BY <1>6, <1>7

\* The lowest of the free descriptors.
Lowest(s) == CHOOSE x \in FreeFds(s) : \A y \in FreeFds(s) : x <= y

\* The descriptor vfs_open takes is a free one.
LEMMA LowestFree ==
  ASSUME NEW s, FreeFds(s) # {}
  PROVE  Lowest(s) \in FreeFds(s) /\ Lowest(s) \in Fds /\ s.fd[Lowest(s)] = Closed
<1>1. FreeFds(s) \in SUBSET Nat
  BY VfsAssumption DEF FreeFds, Fds
<1>2. \E x \in FreeFds(s) : \A y \in FreeFds(s) : x <= y
  BY <1>1, LeastExists
<1>3. Lowest(s) \in FreeFds(s)
  BY <1>2 DEF Lowest
<1>4. QED BY <1>3 DEF FreeFds

\* r is v after the open failed, for want of the file or of a descriptor.
OpenFails(v, r) ==
  /\ r.node = v.node /\ r.fd = v.fd /\ r.ret = Failed /\ r.seen = <<>>
  /\ v.ret = Nil \/ FreeFds(v) = {}

\* r is v after the open gave the lowest free descriptor.
OpenSucceeds(v, r, flags) ==
  /\ v.ret \in Nodes(v) /\ FreeFds(v) # {}
  /\ r.node = v.node /\ r.ret = Lowest(v) /\ r.seen = <<>>
  /\ \E at \in {0, v.node[v.ret].size} :
       /\ r.fd = [v.fd EXCEPT ![Lowest(v)] = [node |-> v.ret, at |-> at]]
       /\ "APPEND" \notin flags => at = 0

\* An open descriptor is not a closed one.
LEMMA OpenIsNotClosed ==
  ASSUME NEW n \in Nat \ {0}, NEW at \in Nat
  PROVE  [node |-> n, at |-> at] # Closed /\ [node |-> n, at |-> at] \in [node : Nat, at : Nat]
<1> DEFINE p == [node |-> n, at |-> at]
<1>1. p.node = n /\ Closed.node = 0
  BY DEF Closed, Nil
<1>2. p \in [node : Nat, at : Nat]
  OBVIOUS
<1> HIDE DEF p
<1>3. p # Closed
  BY <1>1
<1>4. QED BY <1>2, <1>3 DEF p

\* Soundness when only the descriptors change.
LEMMA DescriptorSound ==
  ASSUME NEW s, Sound(s), NEW t \in States, t.node = s.node, NEW d \in Fds, NEW p,
         t.fd = [s.fd EXCEPT ![d] = p], p \in [node : Nat, at : Nat],
         p # Closed => p.node \in Nodes(s) /\ Filled(s.node[p.node], p.at)
  PROVE  Sound(t) /\ Grows(s, t)
<1>1. s \in States /\ s.fd \in [Fds -> [node : Nat, at : Nat]] /\ Nodes(t) = Nodes(s)
  BY StateParts DEF Sound, Nodes
<1>2. \A e \in Fds : t.fd[e] = IF e = d THEN p ELSE s.fd[e]
  BY <1>1
<1>3. Pointing(t)
  BY <1>1, <1>2 DEF Sound, Pointing
<1>4. \A e \in Fds : t.fd[e] # Closed => Filled(t.node[t.fd[e].node], t.fd[e].at)
  BY <1>2 DEF Sound, Full
<1>5. \A n \in Nodes(t) : Filled(t.node[n], t.node[n].size)
  BY <1>1 DEF Sound, Full
<1>6. Full(t)
  BY <1>4, <1>5 DEF Full
<1>7. Alike(s, t)
  BY DEF Alike
<1>8. QED BY <1>3, <1>6, <1>7, AlikeSound

\* What vfs_open leaves of a state that is ready for it.
LEMMA OpenedLemma ==
  ASSUME NEW v, Sound(v), v.ret \in 0..Len(v.node), NEW flags, NEW r, r = Opened(v, flags)
  PROVE  /\ Sound(r) /\ Grows(v, r)
         /\ OpenFails(v, r) \/ OpenSucceeds(v, r, flags)
<1> DEFINE n == v.ret
           d == Lowest(v)
           at == IF "APPEND" \in flags THEN v.node[n].size ELSE 0
           p == [node |-> n, at |-> at]
           t == [v EXCEPT !.fd[d] = p]
<1>1. v \in States /\ Len(v.node) \in Nat /\ v.fd \in [Fds -> [node : Nat, at : Nat]]
  BY StateParts DEF Sound
<1>2. r = IF n = Nil \/ FreeFds(v) = {} THEN Returns(v, Failed) ELSE Returns(t, d)
  BY DEF Opened, Lowest
<1>3. CASE n = Nil \/ FreeFds(v) = {}
  <2>1. r = Returns(v, Failed) /\ Failed \in Int
    BY <1>2, <1>3 DEF Failed
  <2>2. Sound(r) /\ r.node = v.node /\ r.fd = v.fd /\ r.ret = Failed /\ r.seen = <<>>
    <3>1. Leaves(v, Failed, r)
      BY <1>1, <2>1, ReturnsLeaves
    <3>2. Sound(r)
      BY <3>1, LeavesSound
    <3>3. QED BY <3>1, <3>2 DEF Leaves
  <2>3. Grows(v, r)
    BY <1>1, <2>2, GrowsSelf
  <2>4. OpenFails(v, r)
    BY <1>3, <2>2 DEF OpenFails
  <2>5. QED BY <2>2, <2>3, <2>4
<1>4. CASE ~(n = Nil \/ FreeFds(v) = {})
  <2>1. n \in Nodes(v) /\ n \in Nat \ {0}
    BY <1>1, <1>4 DEF Nodes, Nil
  <2>2. d \in Fds
    BY <1>4, LowestFree
  <2>3. v.node[n] \in NodeSet /\ v.node[n].size \in Nat
    BY <1>1, <2>1, NodeAt, NodeParts
  <2>4. at \in Nat /\ at \in {0, v.node[n].size} /\ ("APPEND" \notin flags => at = 0)
    BY <2>3
  <2>5. Filled(v.node[n], at)
    <3>1. Filled(v.node[n], 0)
      BY DEF Filled
    <3>2. Filled(v.node[n], v.node[n].size)
      BY <2>1 DEF Sound, Full
    <3>3. QED BY <2>4, <3>1, <3>2
  <2>6. p # Closed /\ p \in [node : Nat, at : Nat] /\ p.node = n /\ p.at = at
    BY <2>1, <2>4, OpenIsNotClosed
  <2>7. p = [node |-> n, at |-> at]
    OBVIOUS
  <2>8. r = Returns(t, d) /\ d \in Int
    BY <1>2, <1>4, <2>2, VfsAssumption DEF Fds
  <2>9. t = [v EXCEPT !.fd = [v.fd EXCEPT ![d] = p]]
    OBVIOUS
  <2> HIDE DEF n, d, at, p, t
  <2> DEFINE f == [v.fd EXCEPT ![d] = p]
  <2>10. f \in [Fds -> [node : Nat, at : Nat]]
    BY <1>1, <2>6
  <2>11. t = [v EXCEPT !.fd = f]
    BY <2>9
  <2> HIDE DEF f
  <2>12. t \in States /\ t.node = v.node /\ t.fd = f
    BY <1>1, <2>10, <2>11 DEF States
  <2>13. r \in States /\ r.node = v.node /\ r.fd = f /\ r.ret = d /\ r.seen = <<>>
    <3>1. Leaves(t, d, r)
      BY <2>8, <2>12, ReturnsLeaves
    <3>2. QED BY <2>12, <3>1 DEF Leaves
  <2>14. r.fd = [v.fd EXCEPT ![d] = p]
    BY <2>13 DEF f
  <2>15. Sound(r) /\ Grows(v, r)
    BY <2>1, <2>2, <2>5, <2>6, <2>13, <2>14, DescriptorSound
  <2>16. OpenSucceeds(v, r, flags)
    <3>1. FreeFds(v) # {} /\ v.ret \in Nodes(v) /\ r.ret = Lowest(v)
      BY <1>4, <2>1, <2>13 DEF n, d
    <3>2. at \in {0, v.node[v.ret].size} /\ ("APPEND" \notin flags => at = 0)
      BY <2>4 DEF n
    <3>3. r.fd = [v.fd EXCEPT ![Lowest(v)] = [node |-> v.ret, at |-> at]]
      BY <2>7, <2>14 DEF n, d
    <3>4. QED BY <2>13, <3>1, <3>2, <3>3 DEF OpenSucceeds
  <2>17. QED BY <2>15, <2>16
<1>5. QED BY <1>3, <1>4

\* vfs_open, as a whole.
Opens(s, r, flags) ==
  /\ Sound(r) /\ Grows(s, r)
  /\ \E v : Prepared(s, v, flags) /\ (OpenFails(v, r) \/ OpenSucceeds(v, r, flags))

\* vfs_open as a whole: it fails, or one descriptor more is open.
LEMMA OpenLemma ==
  ASSUME NEW s, Sound(s), NEW path \in PathSet, NEW flags
  PROVE  Opens(s, Open(s, path, flags), flags)
<1> DEFINE u == FoundOrMade(s, path, flags)
           v == Emptied(u, flags)
           r == Opened(v, flags)
<1>1. Open(s, path, flags) = r
  BY DEF Open
<1>2. FoundAs(s, u, flags)
  BY FoundOrMadeLemma
<1> HIDE DEF u
<1>3. Prepared(s, v, flags)
  BY <1>2, EmptiedLemma
<1> HIDE DEF v
<1>4. r = Opened(v, flags) /\ Sound(v) /\ v.ret \in 0..Len(v.node) /\ Grows(s, v)
  BY <1>3 DEF Prepared
<1> HIDE DEF r
<1>5. /\ Sound(r) /\ Grows(v, r)
      /\ OpenFails(v, r) \/ OpenSucceeds(v, r, flags)
  BY <1>4, OpenedLemma
<1>6. Grows(s, r)
  BY <1>4, <1>5, GrowsOn
<1>7. Opens(s, r, flags)
  BY <1>3, <1>5, <1>6 DEF Opens
<1>8. QED BY <1>1, <1>7

-----------------------------------------------------------------------------
(* vfs_read, vfs_write and vfs_close.                                      *)

\* The node and the place of an open descriptor.
At(s, d) == s.fd[d].at
Of(s, d) == s.node[s.fd[d].node]

\* An open descriptor is of a node, and its place is in bytes that were written.
LEMMA OpenParts ==
  ASSUME NEW s, Sound(s), NEW d, IsOpen(s, d)
  PROVE  /\ d \in Fds /\ s.fd[d].node \in Nodes(s) /\ s.fd[d].node \in Nat \ {0} /\ At(s, d) \in Nat
         /\ s.fd[d] = [node |-> s.fd[d].node, at |-> At(s, d)]
         /\ Of(s, d) \in NodeSet /\ Of(s, d).size \in Nat
         /\ Filled(Of(s, d), At(s, d)) /\ Filled(Of(s, d), Of(s, d).size)
<1>1. s \in States /\ s.fd \in [Fds -> [node : Nat, at : Nat]] /\ Len(s.node) \in Nat /\ d \in Fds
  BY StateParts DEF Sound, IsOpen
<1>2. s.fd[d] \in [node : Nat, at : Nat] /\ s.fd[d] # Closed
  BY <1>1 DEF IsOpen
<1>3. s.fd[d].node \in Nodes(s)
  BY <1>1, <1>2 DEF Sound, Pointing
<1>4. s.fd[d].node \in Nat \ {0}
  BY <1>1, <1>3 DEF Nodes
<1>5. Of(s, d) \in NodeSet /\ Of(s, d).size \in Nat
  BY <1>1, <1>3, NodeAt, NodeParts DEF Of
<1>6. Filled(Of(s, d), At(s, d)) /\ Filled(Of(s, d), Of(s, d).size)
  BY <1>1, <1>2, <1>3 DEF Sound, Full, Of, At
<1>7. QED BY <1>1, <1>2, <1>3, <1>4, <1>5, <1>6 DEF At

\* What was written up to a place was written up to each place before it.
LEMMA FilledLess ==
  ASSUME NEW n, NEW k \in Nat, NEW j \in Nat, j <= k, Filled(n, k)
  PROVE  Filled(n, j)
BY DEF Filled

\* r is s after a read of at most count bytes, which got k.
Reads(s, d, count, r, k) ==
  /\ k \in Nat
  /\ k = IF At(s, d) >= Of(s, d).size THEN 0
         ELSE IF At(s, d) + count > Of(s, d).size THEN Of(s, d).size - At(s, d) ELSE count
  /\ r.node = s.node /\ r.ret = k
  /\ r.fd = [s.fd EXCEPT ![d] = [node |-> s.fd[d].node, at |-> At(s, d) + k]]
  /\ r.seen \in Seq(Byte) /\ Len(r.seen) = k
  /\ \A i \in 1..k : At(s, d) + i \in 1..Of(s, d).size /\ r.seen[i] = Bytes(Of(s, d))[At(s, d) + i]

\* vfs_read shows what follows the place of an open descriptor, or fails.
LEMMA ReadLemma ==
  ASSUME NEW s, Sound(s), NEW d \in Fds, NEW count \in Nat, NEW r, r = Read(s, d, count)
  PROVE  /\ Sound(r) /\ Grows(s, r)
         /\ IF IsOpen(s, d) THEN \E k : Reads(s, d, count, r, k) ELSE Leaves(s, Failed, r)
<1>1. s \in States
  BY DEF Sound
<1>2. CASE ~IsOpen(s, d)
  <2>1. r = Returns(s, Failed) /\ Failed \in Int
    BY <1>2 DEF Read, Failed
  <2>2. Leaves(s, Failed, r)
    BY <1>1, <2>1, ReturnsLeaves
  <2>3. Sound(r) /\ Grows(s, r)
    BY <1>1, <2>2, LeavesSound, GrowsSelf DEF Leaves
  <2>4. QED BY <1>2, <2>2, <2>3
<1>3. CASE IsOpen(s, d)
  <2> DEFINE n == Of(s, d)
             a == At(s, d)
             k == IF a >= n.size THEN 0 ELSE IF a + count > n.size THEN n.size - a ELSE count
             q == [i \in 1..k |-> n.data[a + i - 1]]
             p == [node |-> s.fd[d].node, at |-> a + k]
             f == [s.fd EXCEPT ![d] = p]
  <2>1. /\ s.fd[d].node \in Nodes(s) /\ s.fd[d].node \in Nat \ {0} /\ a \in Nat
        /\ s.fd[d] = [node |-> s.fd[d].node, at |-> a]
        /\ n \in NodeSet /\ n.size \in Nat /\ Filled(n, a) /\ Filled(n, n.size)
    BY <1>3, OpenParts
  <2>2. r = [s EXCEPT !.fd[d].at = a + k, !.ret = k, !.seen = q]
    BY <1>3 DEF Read, Of, At
  <2>3. s.fd[d].node = p.node
    OBVIOUS
  <2>4. [s.fd[d] EXCEPT !.at = a + k] = p
    <3> DEFINE x == s.fd[d].node
               y == a + k
    <3>1. s.fd[d] = [node |-> x, at |-> a]
      BY <2>1
    <3> HIDE DEF x, y, a
    <3>2. [s.fd[d] EXCEPT !.at = y] = [node |-> x, at |-> y]
      BY <3>1
    <3>3. QED BY <3>2 DEF x, y
  <2>5. r = [s EXCEPT !.fd = f, !.ret = k, !.seen = q]
    BY <2>2, <2>4
  <2> HIDE DEF n, a
  <2>6. /\ k \in Nat /\ (a >= n.size => k = 0) /\ (a < n.size => a + k <= n.size)
    BY <2>1
  <2>7. k = IF a >= n.size THEN 0 ELSE IF a + count > n.size THEN n.size - a ELSE count
    OBVIOUS
  <2> HIDE DEF k
  <2>8. \A i \in 1..k : a + i \in 1..n.size /\ n.data[a + i - 1] \in Byte
    <3>1. SUFFICES ASSUME NEW i \in 1..k PROVE a + i \in 1..n.size /\ n.data[a + i - 1] \in Byte
      OBVIOUS
    <3>2. a < n.size
      BY <2>1, <2>6
    <3>3. a + i \in 1..n.size /\ a + i - 1 \in 0..(n.size - 1)
      BY <2>1, <2>6, <3>2
    <3>4. QED BY <2>1, <3>3 DEF Filled
  <2>9. q \in [1..k -> Byte]
    BY <2>8
  <2>10. q \in Seq(Byte) /\ q \in Seq(Memory) /\ Len(q) = k
    BY <2>6, <2>9 DEF Memory
  <2>11. \A i \in 1..k : q[i] = Bytes(n)[a + i]
    BY <2>1, <2>8 DEF Bytes
  <2>12. a + k \in Nat /\ Filled(n, a + k)
    <3>1. CASE a >= n.size
      BY <2>1, <2>6, <3>1
    <3>2. CASE a < n.size
      <4>1. a + k \in Nat /\ a + k <= n.size
        BY <2>1, <2>6, <3>2
      <4>2. QED BY <2>1, <4>1, FilledLess
    <3>3. QED BY <2>1, <3>1, <3>2
  <2>13. p # Closed /\ p \in [node : Nat, at : Nat] /\ p.node = s.fd[d].node /\ p.at = a + k
    BY <2>1, <2>12, OpenIsNotClosed
  <2>14. p = [node |-> s.fd[d].node, at |-> a + k]
    OBVIOUS
  <2>15. s.fd \in [Fds -> [node : Nat, at : Nat]]
    BY <1>1, StateParts
  <2> HIDE DEF p, q
  <2>16. f \in [Fds -> [node : Nat, at : Nat]] /\ f = [s.fd EXCEPT ![d] = p]
    BY <2>13, <2>15
  <2> HIDE DEF f
  <2>17. r \in States /\ r.node = s.node /\ r.fd = f /\ r.ret = k /\ r.seen = q
    <3>1. k \in Int /\ f \in [Fds -> [node : Nat, at : Nat]] /\ q \in Seq(Memory)
      BY <2>6, <2>10, <2>16
    <3>2. QED BY <1>1, <2>5, <3>1 DEF States
  <2>18. Sound(r) /\ Grows(s, r)
    <3>1. s.node[p.node] = n
      BY <2>13 DEF n, Of
    <3>2. QED BY <2>1, <2>12, <2>13, <2>16, <2>17, <3>1, DescriptorSound
  <2>19. Reads(s, d, count, r, k)
    BY <2>6, <2>7, <2>8, <2>10, <2>11, <2>14, <2>16, <2>17 DEF Reads, n, a
  <2>20. QED BY <1>3, <2>18, <2>19
<1>4. QED BY <1>2, <1>3

\* r is s after a write of the text at the place of the descriptor.
Writes(s, d, text, r) ==
  /\ \E w : WrittenAs(Of(s, d), At(s, d), text, w) /\ Rewrites(s, r, s.fd[d].node, w)
  /\ r.ret = Len(text) /\ r.seen = <<>>
  /\ r.fd = [s.fd EXCEPT ![d] = [node |-> s.fd[d].node, at |-> At(s, d) + Len(text)]]

\* vfs_write puts the text at the place of an open descriptor, or fails.
LEMMA WriteLemma ==
  ASSUME NEW s, Sound(s), NEW d \in Fds, NEW text \in Seq(Byte), NEW r, r = Write(s, d, text)
  PROVE  /\ Sound(r) /\ Grows(s, r)
         /\ IF IsOpen(s, d) THEN Writes(s, d, text, r) ELSE Leaves(s, Failed, r)
<1>1. s \in States
  BY DEF Sound
<1>2. CASE ~IsOpen(s, d)
  <2>1. r = Returns(s, Failed) /\ Failed \in Int
    BY <1>2 DEF Write, Failed
  <2>2. Leaves(s, Failed, r)
    BY <1>1, <2>1, ReturnsLeaves
  <2>3. Sound(r) /\ Grows(s, r)
    BY <1>1, <2>2, LeavesSound, GrowsSelf DEF Leaves
  <2>4. QED BY <1>2, <2>2, <2>3
<1>3. CASE IsOpen(s, d)
  <2> DEFINE m == s.fd[d].node
             n == Of(s, d)
             a == At(s, d)
             l == Len(text)
             w == Written(n, a, text)
             p == [node |-> m, at |-> a + l]
             f == [s.fd EXCEPT ![d] = p]
             g == [s.node EXCEPT ![m] = w]
             t == [s EXCEPT !.node = g, !.fd = f]
  <2>1. /\ m \in Nodes(s) /\ m \in Nat \ {0} /\ a \in Nat /\ l \in Nat
        /\ s.fd[d] = [node |-> m, at |-> a]
        /\ n \in NodeSet /\ n.size \in Nat /\ Filled(n, a) /\ Filled(n, n.size)
    BY <1>3, OpenParts
  <2>2. n = s.node[m] /\ a = s.fd[d].at
    BY DEF Of, At
  <2>3. r = Returns([s EXCEPT !.node[s.fd[d].node] = Written(@, s.fd[d].at, text),
                              !.fd[d].at = @ + Len(text)], Len(text))
    BY <1>3 DEF Write
  <2>4. [s.fd[d] EXCEPT !.at = @ + l] = p
    <3> HIDE DEF m, a, l
    <3>1. [s.fd[d] EXCEPT !.at = @ + l] = [node |-> m, at |-> a + l]
      BY <2>1
    <3>2. QED BY <3>1
  <2>5. r = Returns(t, l)
    <3>1. [s EXCEPT !.node[s.fd[d].node] = Written(@, s.fd[d].at, text), !.fd[d].at = @ + Len(text)]
          = [s EXCEPT !.node = [s.node EXCEPT ![s.fd[d].node] = Written(@, s.fd[d].at, text)],
                      !.fd = [s.fd EXCEPT ![d] = [s.fd[d] EXCEPT !.at = @ + Len(text)]]]
      OBVIOUS
    <3>2. g = [s.node EXCEPT ![s.fd[d].node] = Written(@, s.fd[d].at, text)]
      BY DEF Of, At
    <3>3. f = [s.fd EXCEPT ![d] = [s.fd[d] EXCEPT !.at = @ + Len(text)]]
      BY <2>4
    <3> HIDE DEF f, g
    <3>4. QED BY <2>3, <3>1, <3>2, <3>3
  <2> HIDE DEF n, a, l
  <2>6. WrittenAs(n, a, text, w)
    BY <2>1, WrittenLemma
  <2> HIDE DEF w
  <2>7. w \in NodeSet /\ w.name = n.name /\ w.dir = n.dir /\ w.kids = n.kids
    BY <2>6 DEF WrittenAs
  <2>8. /\ \A k \in Nat : Filled(n, k) => Filled(w, k)
        /\ Filled(w, a + l) /\ Filled(w, w.size)
    BY <2>1, <2>6, WrittenFilled DEF l
  <2>9. p # Closed /\ p \in [node : Nat, at : Nat] /\ p.node = m /\ p.at = a + l
    <3>1. a + l \in Nat
      BY <2>1
    <3>2. QED BY <2>1, <3>1, OpenIsNotClosed
  <2>10. p = [node |-> m, at |-> a + l]
    OBVIOUS
  <2> HIDE DEF m, p
  <2>11. s.fd \in [Fds -> [node : Nat, at : Nat]] /\ s.node \in Seq(NodeSet) /\ m \in 1..Len(s.node)
    BY <1>1, <2>1, StateParts DEF Nodes
  <2>12. f \in [Fds -> [node : Nat, at : Nat]] /\ \A e \in Fds : f[e] = IF e = d THEN p ELSE s.fd[e]
    BY <2>9, <2>11
  <2>13. g \in Seq(NodeSet) /\ g = [s.node EXCEPT ![m] = w] /\ f = [s.fd EXCEPT ![d] = p]
    BY <2>7, <2>11, ExceptSeq
  <2> HIDE DEF f, g
  <2>14. t \in States /\ t.node = g /\ t.fd = f
    BY <1>1, <2>12, <2>13 DEF States
  <2> HIDE DEF t
  <2>15. Leaves(t, l, r)
    BY <2>1, <2>5, <2>14, ReturnsLeaves
  <2>16. r \in States /\ r.node = g /\ r.fd = f /\ r.ret = l /\ r.seen = <<>>
    BY <2>14, <2>15 DEF Leaves
  <2>17. Rewrites(s, r, m, w)
    BY <2>1, <2>2, <2>7, <2>13, <2>16 DEF Rewrites
  <2>18. /\ Alike(s, r) /\ Nodes(r) = Nodes(s)
         /\ r.node[m] = w /\ \A e \in Nodes(s) : e # m => r.node[e] = s.node[e]
    BY <2>16, <2>17, RewritesShape
  <2>19. \A e \in Nodes(s), k \in Nat : Filled(s.node[e], k) => Filled(r.node[e], k)
    BY <2>2, <2>8, <2>18
  <2>20. \A e \in Nodes(r) : Filled(r.node[e], r.node[e].size)
    <3>1. SUFFICES ASSUME NEW e \in Nodes(s) PROVE Filled(r.node[e], r.node[e].size)
      BY <2>18
    <3>2. CASE e = m
      BY <2>8, <2>18, <3>2
    <3>3. CASE e # m
      BY <2>18, <3>3 DEF Sound, Full
    <3>4. QED BY <3>2, <3>3
  <2>21. \A e \in Fds : r.fd[e] # Closed => Filled(r.node[r.fd[e].node], r.fd[e].at)
    <3>1. SUFFICES ASSUME NEW e \in Fds, r.fd[e] # Closed PROVE Filled(r.node[r.fd[e].node], r.fd[e].at)
      OBVIOUS
    <3>2. CASE e = d
      BY <2>8, <2>9, <2>12, <2>16, <2>18, <3>2
    <3>3. CASE e # d
      <4>1. r.fd[e] = s.fd[e] /\ IsOpen(s, e)
        BY <2>12, <2>16, <3>1, <3>3 DEF IsOpen
      <4>2. s.fd[e].node \in Nodes(s) /\ At(s, e) \in Nat /\ Filled(Of(s, e), At(s, e))
        BY <4>1, OpenParts
      <4>3. QED BY <2>19, <4>1, <4>2 DEF Of, At
    <3>4. QED BY <3>2, <3>3
  <2>22. Full(r)
    BY <2>20, <2>21 DEF Full
  <2>23. Pointing(r)
    BY <2>1, <2>9, <2>12, <2>16, <2>18 DEF Sound, Pointing
  <2>24. Sound(r) /\ Grows(s, r)
    BY <2>16, <2>18, <2>22, <2>23, AlikeSound
  <2>25. Writes(s, d, text, r)
    <3>1. r.fd = [s.fd EXCEPT ![d] = [node |-> m, at |-> a + l]]
      BY <2>10, <2>13, <2>16
    <3>2. QED BY <2>6, <2>16, <2>17, <3>1 DEF Writes, m, n, a, l
  <2>26. QED BY <1>3, <2>24, <2>25
<1>4. QED BY <1>2, <1>3

\* r is s with a descriptor closed.
Closes(s, d, r) ==
  r.node = s.node /\ r.ret = 0 /\ r.seen = <<>> /\ r.fd = [s.fd EXCEPT ![d] = Closed]

\* vfs_close frees an open descriptor, or fails.
LEMMA CloseLemma ==
  ASSUME NEW s, Sound(s), NEW d \in Fds, NEW r, r = Close(s, d)
  PROVE  /\ Sound(r) /\ Grows(s, r)
         /\ IF IsOpen(s, d) THEN Closes(s, d, r) ELSE Leaves(s, Failed, r)
<1>1. s \in States
  BY DEF Sound
<1>2. CASE ~IsOpen(s, d)
  <2>1. r = Returns(s, Failed) /\ Failed \in Int
    BY <1>2 DEF Close, Failed
  <2>2. Leaves(s, Failed, r)
    BY <1>1, <2>1, ReturnsLeaves
  <2>3. Sound(r) /\ Grows(s, r)
    BY <1>1, <2>2, LeavesSound, GrowsSelf DEF Leaves
  <2>4. QED BY <1>2, <2>2, <2>3
<1>3. CASE IsOpen(s, d)
  <2> DEFINE f == [s.fd EXCEPT ![d] = Closed]
             t == [s EXCEPT !.fd = f]
  <2>1. r = Returns(t, 0)
    BY <1>3 DEF Close
  <2>2. Closed \in [node : Nat, at : Nat]
    BY DEF Closed, Nil
  <2>3. s.fd \in [Fds -> [node : Nat, at : Nat]]
    BY <1>1, StateParts
  <2>4. f \in [Fds -> [node : Nat, at : Nat]] /\ f = [s.fd EXCEPT ![d] = Closed]
    BY <2>2, <2>3
  <2> HIDE DEF f
  <2>5. t \in States /\ t.node = s.node /\ t.fd = f
    BY <1>1, <2>4 DEF States
  <2> HIDE DEF t
  <2>6. Leaves(t, 0, r)
    BY <2>1, <2>5, ReturnsLeaves
  <2>7. r \in States /\ r.node = s.node /\ r.fd = f /\ r.ret = 0 /\ r.seen = <<>>
    BY <2>5, <2>6 DEF Leaves
  <2>8. Sound(r) /\ Grows(s, r)
    BY <2>2, <2>4, <2>7, DescriptorSound
  <2>9. QED BY <1>3, <2>4, <2>7, <2>8 DEF Closes
<1>4. QED BY <1>2, <1>3

-----------------------------------------------------------------------------
(* The callers.                                                            *)

\* t is s after writes through the descriptor: one file may have other bytes, and the place
\* of one descriptor has moved.
Puts(s, d, t) ==
  /\ Sound(t) /\ Grows(s, t) /\ Len(t.node) = Len(s.node)
  /\ IsOpen(t, d) /\ t.fd[d].node = s.fd[d].node
  /\ \A e \in Fds : e # d => t.fd[e] = s.fd[e]
  /\ \A n \in Nodes(s) : n # s.fd[d].node => t.node[n] = s.node[n]

\* A write more is a write like the others.
LEMMA PutsOn ==
  ASSUME NEW s, Sound(s), NEW d \in Fds, NEW t, Puts(s, d, t), NEW text \in Seq(Byte)
  PROVE  Puts(s, d, Write(t, d, text))
<1> DEFINE r == Write(t, d, text)
           m == s.fd[d].node
           p == [node |-> m, at |-> At(t, d) + Len(text)]
<1>1. Sound(t) /\ Grows(s, t) /\ IsOpen(t, d) /\ t.fd[d].node = m /\ Len(t.node) = Len(s.node)
  BY DEF Puts
<1>2. Sound(r) /\ Grows(t, r) /\ Writes(t, d, text, r)
  BY <1>1, WriteLemma
<1> HIDE DEF r
<1>3. Grows(s, r)
  BY <1>1, <1>2, GrowsOn
<1>4. PICK w : Rewrites(t, r, m, w)
  BY <1>1, <1>2 DEF Writes
<1>5. /\ Alike(t, r) /\ Nodes(r) = Nodes(t)
      /\ \A n \in Nodes(t) : n # m => r.node[n] = t.node[n]
  BY <1>1, <1>2, <1>4, RewritesShape DEF Sound
<1>6. Len(r.node) = Len(s.node) /\ Nodes(t) = Nodes(s)
  BY <1>1, <1>5 DEF Alike, Nodes
<1>7. m \in Nat \ {0} /\ At(t, d) + Len(text) \in Nat
  <2>1. t.fd[d].node \in Nat \ {0} /\ At(t, d) \in Nat
    BY <1>1, OpenParts
  <2>2. QED BY <1>1, <2>1
<1>8. p # Closed /\ p \in [node : Nat, at : Nat] /\ p.node = m
  BY <1>7, OpenIsNotClosed
<1>9. r.fd = [t.fd EXCEPT ![d] = p] /\ t.fd \in [Fds -> [node : Nat, at : Nat]]
  BY <1>1, <1>2, StateParts DEF Writes, Sound
<1> HIDE DEF p
<1>10. \A e \in Fds : r.fd[e] = IF e = d THEN p ELSE t.fd[e]
  BY <1>9
<1>11. IsOpen(r, d) /\ r.fd[d].node = m
  BY <1>8, <1>10 DEF IsOpen
<1>12. \A e \in Fds : e # d => r.fd[e] = s.fd[e]
  BY <1>10 DEF Puts
<1>13. \A n \in Nodes(s) : n # m => r.node[n] = s.node[n]
  BY <1>5, <1>6 DEF Puts
<1>14. Puts(s, d, r)
  BY <1>2, <1>3, <1>6, <1>11, <1>12, <1>13 DEF Puts
<1>15. QED BY <1>14 DEF r

\* A state is itself after no writes.
LEMMA PutsNone ==
  ASSUME NEW s, Sound(s), NEW d \in Fds, IsOpen(s, d)
  PROVE  Puts(s, d, s)
BY GrowsSelf DEF Puts, Sound

\* The words of a line are written one after the other.
LEMMA PutWordsLemma ==
  ASSUME NEW s, Sound(s), NEW d \in Fds, IsOpen(s, d), NEW words \in Seq(Seq(Byte))
  PROVE  Puts(s, d, PutWords(s, d, words))
<1> DEFINE N == Len(words)
           S == {t \in States : Puts(s, d, t)}
           P(w) == w = [k \in 0..N |-> IF k = 0 THEN s ELSE Write(w[k - 1], d, words[k])]
           g == [x \in (1..N) \X S |-> Write(x[2], d, words[x[1]])]
           v == CHOOSE w : P(w)
<1>1. N \in Nat /\ \A k \in 1..N : words[k] \in Seq(Byte)
  OBVIOUS
<1>2. s \in S
  BY PutsNone DEF Sound
<1>3. ASSUME NEW k \in 1..N, NEW t \in S
      PROVE  Write(t, d, words[k]) \in S
  <2>1. words[k] \in Seq(Byte) /\ Puts(s, d, t)
    BY <1>1
  <2>2. Puts(s, d, Write(t, d, words[k]))
    BY <2>1, PutsOn
  <2>3. QED BY <2>2 DEF Puts, Sound
<1> HIDE DEF S
<1>4. g \in [(1..N) \X S -> S]
  BY <1>3
<1>5. PICK f \in [0..N -> S] : Follows(f, N, s, g)
  <2> HIDE DEF g, N
  <2>1. QED BY <1>1, <1>2, <1>4, RecursionExists
<1>6. P(f)
  <2>1. f[0] = s /\ \A k \in 1..N : f[k] = g[<<k, f[k - 1]>>]
    BY <1>5 DEF Follows
  <2>2. \A k \in 1..N, t \in S : g[<<k, t>>] = Write(t, d, words[k])
    OBVIOUS
  <2> HIDE DEF g, N
  <2>3. \A k \in 1..N : k - 1 \in 0..N /\ f[k - 1] \in S
    BY <1>1
  <2>4. \A k \in 1..N : f[k] = Write(f[k - 1], d, words[k])
    BY <2>1, <2>2, <2>3
  <2>5. QED BY <1>1, <2>1, <2>4
<1>7. P(v)
  <2> HIDE DEF P
  <2>1. QED BY <1>6
<1>8. PutWords(s, d, words) = v[N]
  BY DEF PutWords
<1> HIDE DEF v
<1>9. v[0] = s /\ \A k \in 1..N : v[k] = Write(v[k - 1], d, words[k])
  <2> HIDE DEF N
  <2>1. QED BY <1>1, <1>7
<1> DEFINE T == {k \in 0..N : v[k] \in S}
<1>10. 0 \in T
  BY <1>1, <1>2, <1>9
<1>11. \A k \in 1..N : k - 1 \in T => k \in T
  <2> HIDE DEF N
  <2>1. QED BY <1>1, <1>3, <1>9
<1>12. 0..N \subseteq T
  <2> HIDE DEF T, N
  <2>1. QED BY <1>1, <1>10, <1>11, Induction
<1>13. v[N] \in S
  <2> HIDE DEF N
  <2>1. QED BY <1>1, <1>12
<1>14. QED BY <1>8, <1>13 DEF S

\* The files g are the files f made ready for the m-th: as they are, with it emptied, or
\* with it, new.
After(f, g, m) ==
  \/ m \in 1..Len(f) /\ (g = f \/ g = [f EXCEPT ![m] = <<>>])
  \/ m = Len(f) + 1 /\ g = Append(f, <<>>)

\* The files h are the files f with at most one replaced, or made.
Changes(f, h) ==
  \/ h = f
  \/ \E n \in 1..Len(f), x \in Seq(Byte) : h = [f EXCEPT ![n] = x]
  \/ \E x \in Seq(Byte) : h = Append(f, x)

\* What was made ready and then written has changed once.
LEMMA AfterChanges ==
  ASSUME NEW f \in Seq(Seq(Byte)), NEW g \in Seq(Seq(Byte)), NEW h \in Seq(Seq(Byte)), NEW m,
         After(f, g, m), Len(h) = Len(g), \A n \in 1..Len(g) : n # m => h[n] = g[n]
  PROVE  Changes(f, h)
<1> DEFINE x == h[m]
           e == [f EXCEPT ![m] = x]
           a == Append(f, x)
<1>1. Len(f) \in Nat /\ Len(g) \in Nat
  OBVIOUS
<1>2. CASE m \in 1..Len(f) /\ (g = f \/ g = [f EXCEPT ![m] = <<>>])
  <2>1. Len(g) = Len(f) /\ \A n \in 1..Len(f) : n # m => g[n] = f[n]
    BY <1>2
  <2>2. x \in Seq(Byte) /\ \A n \in 1..Len(f) : h[n] = IF n = m THEN x ELSE f[n]
    <3>1. Len(h) = Len(f) /\ m \in 1..Len(h)
      BY <1>2, <2>1
    <3>2. x \in Seq(Byte)
      BY <3>1
    <3>3. \A n \in 1..Len(f) : n # m => h[n] = f[n]
      BY <2>1
    <3>4. QED BY <3>2, <3>3
  <2> HIDE DEF x
  <2>3. e \in Seq(Seq(Byte)) /\ Len(e) = Len(f) /\ \A n \in 1..Len(f) : e[n] = IF n = m THEN x ELSE f[n]
    <3>1. m \in 1..Len(f) /\ x \in Seq(Byte)
      BY <1>2, <2>2
    <3>2. QED BY <3>1, ExceptSeq
  <2>4. h = e
    <3> HIDE DEF e
    <3>1. Len(h) = Len(e) /\ \A n \in 1..Len(h) : h[n] = e[n]
      BY <1>1, <2>1, <2>2, <2>3
    <3>2. QED BY <2>3, <3>1, SeqEqual
  <2>5. QED BY <1>2, <2>2, <2>4 DEF Changes
<1>3. CASE m = Len(f) + 1 /\ g = Append(f, <<>>)
  <2>1. Len(g) = Len(f) + 1 /\ \A n \in 1..Len(f) : g[n] = f[n]
    BY <1>3
  <2>2. x \in Seq(Byte) /\ h[Len(f) + 1] = x /\ \A n \in 1..Len(f) : h[n] = f[n]
    BY <1>1, <1>3, <2>1
  <2> HIDE DEF x
  <2>3. a \in Seq(Seq(Byte)) /\ Len(a) = Len(f) + 1 /\ a[Len(f) + 1] = x /\ \A n \in 1..Len(f) : a[n] = f[n]
    BY <2>2
  <2>4. h = a
    <3> HIDE DEF a
    <3>1. Len(h) = Len(a) /\ Len(h) = Len(f) + 1
      BY <2>1, <2>3
    <3>2. \A n \in 1..(Len(f) + 1) : n = Len(f) + 1 \/ n \in 1..Len(f)
      BY <1>1
    <3>3. \A n \in 1..(Len(f) + 1) : h[n] = a[n]
      BY <2>2, <2>3, <3>2
    <3>4. QED BY <2>3, <3>1, <3>3, SeqEqual
  <2>5. QED BY <2>2, <2>4 DEF Changes
<1>4. QED BY <1>2, <1>3 DEF After

\* r is s after a call that failed: as it was or, with no descriptor free, with one file
\* made empty or emptied.
Fails(s, r) ==
  \/ r.node = s.node
  \/ /\ FreeFds(s) = {}
     /\ \/ File(r) = Append(File(s), <<>>)
        \/ \E n \in 1..Len(File(s)) : File(r) = [File(s) EXCEPT ![n] = <<>>]

\* r is s after a call that leaves the descriptors as they were, shows no bytes, and makes
\* or replaces one file at most.
Quiet(s, r) ==
  /\ Sound(r) /\ Grows(s, r) /\ r.fd = s.fd /\ r.seen = <<>>
  /\ Changes(File(s), File(r))
  /\ r.ret = Failed => Fails(s, r)

\* An open that fails is such a call.
LEMMA OpenFailed ==
  ASSUME NEW s, Sound(s), NEW flags, NEW r, Opens(s, r, flags), r.ret = Failed
  PROVE  Quiet(s, r) /\ ("CREAT" \notin flags /\ "TRUNC" \notin flags => r.node = s.node)
<1>1. PICK v : Prepared(s, v, flags) /\ (OpenFails(v, r) \/ OpenSucceeds(v, r, flags))
  BY DEF Opens
<1>2. ~OpenSucceeds(v, r, flags)
  <2>1. SUFFICES ASSUME OpenSucceeds(v, r, flags) PROVE FALSE
    OBVIOUS
  <2>2. r.ret \in Fds
    BY <2>1, LowestFree DEF OpenSucceeds
  <2>3. QED BY <2>2, VfsAssumption DEF Fds, Failed
<1>3. OpenFails(v, r)
  BY <1>1, <1>2
<1>4. /\ r.node = v.node /\ r.fd = s.fd /\ r.seen = <<>> /\ Sound(v) /\ v.fd = s.fd
      /\ v.ret \in 0..Len(v.node) /\ File(r) = File(v) /\ FreeFds(v) = FreeFds(s)
  BY <1>1, <1>3 DEF OpenFails, Prepared, File, FreeFds
<1>5. Fails(s, r)
  <2>1. CASE v.ret = Nil
    BY <1>1, <1>4, <2>1 DEF Prepared, Fails
  <2>2. CASE v.ret # Nil
    <3>1. PreparedFile(s, v) /\ Nodes(s) = 1..Len(File(s)) /\ FreeFds(s) = {}
      BY <1>1, <1>3, <1>4, <2>2, FileType DEF Prepared, Nodes, OpenFails
    <3>2. CASE v.node = s.node
      BY <1>4, <3>2 DEF Fails
    <3>3. CASE v.ret \in Nodes(s) /\ File(v) = [File(s) EXCEPT ![v.ret] = <<>>]
      <4>1. v.ret \in 1..Len(File(s)) /\ File(r) = [File(s) EXCEPT ![v.ret] = <<>>]
        BY <1>4, <3>1, <3>3
      <4>2. QED BY <3>1, <4>1 DEF Fails
    <3>4. CASE File(v) = Append(File(s), <<>>)
      BY <1>4, <3>1, <3>4 DEF Fails
    <3>5. QED BY <3>1, <3>2, <3>3, <3>4 DEF PreparedFile
  <2>3. QED BY <2>1, <2>2
<1>6. Changes(File(s), File(r))
  <2>1. <<>> \in Seq(Byte)
    OBVIOUS
  <2>2. CASE r.node = s.node
    <3>1. File(r) = File(s)
      BY <2>2 DEF File
    <3>2. QED BY <3>1 DEF Changes
  <2>3. CASE r.node # s.node
    BY <1>5, <2>1, <2>3 DEF Fails, Changes
  <2>4. QED BY <2>2, <2>3
<1>7. Sound(r) /\ Grows(s, r)
  BY DEF Opens
<1>8. QED BY <1>1, <1>3, <1>4, <1>5, <1>6, <1>7 DEF Quiet, Prepared

\* r is s with the descriptor that it returns open for the m-th file.
Opening(s, r, m, at) ==
  /\ Sound(r) /\ Grows(s, r) /\ r.seen = <<>>
  /\ FreeFds(s) # {} /\ r.ret = Lowest(s) /\ r.ret \in Fds /\ s.fd[r.ret] = Closed
  /\ r.fd = [s.fd EXCEPT ![r.ret] = [node |-> m, at |-> at]]
  /\ IsOpen(r, r.ret) /\ r.fd[r.ret] = [node |-> m, at |-> at]
  /\ m \in Nodes(r) /\ at \in {0, r.node[m].size}
  /\ After(File(s), File(r), m)

\* An open that does not fail opens a file.
LEMMA OpenSucceeded ==
  ASSUME NEW s, Sound(s), NEW flags, NEW r, Opens(s, r, flags), r.ret # Failed
  PROVE  /\ \E m, at : Opening(s, r, m, at) /\ ("APPEND" \notin flags => at = 0)
         /\ "CREAT" \notin flags /\ "TRUNC" \notin flags => r.node = s.node
<1>1. PICK v : Prepared(s, v, flags) /\ (OpenFails(v, r) \/ OpenSucceeds(v, r, flags))
  BY DEF Opens
<1>2. OpenSucceeds(v, r, flags)
  BY <1>1 DEF OpenFails
<1> DEFINE m == v.ret
           d == r.ret
<1>3. /\ r.node = v.node /\ r.seen = <<>> /\ Sound(v) /\ v.fd = s.fd /\ m \in Nodes(v)
      /\ File(r) = File(v) /\ FreeFds(v) = FreeFds(s) /\ Lowest(v) = Lowest(s) /\ d = Lowest(s)
      /\ FreeFds(s) # {} /\ Nodes(r) = Nodes(v)
  BY <1>1, <1>2 DEF OpenSucceeds, Prepared, File, FreeFds, Lowest, Nodes
<1>4. PICK at \in {0, v.node[m].size} :
        /\ r.fd = [v.fd EXCEPT ![Lowest(v)] = [node |-> m, at |-> at]]
        /\ "APPEND" \notin flags => at = 0
  BY <1>2 DEF OpenSucceeds
<1>5. d \in Fds /\ s.fd[d] = Closed
  BY <1>3, LowestFree
<1>6. Len(s.node) \in Nat /\ Len(v.node) \in Nat /\ s.fd \in [Fds -> [node : Nat, at : Nat]]
  BY <1>3, StateParts DEF Sound
<1>7. m \in Nat \ {0} /\ at \in Nat
  <2>1. v.node[m].size \in Nat
    BY <1>3, NodeAt, NodeParts DEF Sound
  <2>2. QED BY <1>3, <1>4, <1>6, <2>1 DEF Nodes
<1> DEFINE p == [node |-> m, at |-> at]
<1>8. r.fd = [s.fd EXCEPT ![d] = p]
  BY <1>3, <1>4
<1>9. p # Closed
  BY <1>7, OpenIsNotClosed
<1>10. r.fd[d] = p /\ IsOpen(r, d)
  <2> HIDE DEF p
  <2>1. QED BY <1>5, <1>6, <1>8, <1>9 DEF IsOpen
<1>11. After(File(s), File(r), m)
  <2>1. PreparedFile(s, v) /\ Nodes(s) = 1..Len(File(s)) /\ Len(File(s)) = Len(s.node)
    BY <1>1, <1>7, FileType DEF Prepared, Nodes, Nil
  <2>2. CASE m \in Nodes(s) /\ v.node = s.node
    <3>1. File(r) = File(s)
      BY <1>3, <2>2 DEF File
    <3>2. QED BY <2>1, <2>2, <3>1 DEF After
  <2>3. CASE m \in Nodes(s) /\ File(v) = [File(s) EXCEPT ![m] = <<>>]
    BY <1>3, <2>1, <2>3 DEF After
  <2>4. CASE m = Len(s.node) + 1 /\ File(v) = Append(File(s), <<>>)
    BY <1>3, <2>1, <2>4 DEF After
  <2>5. QED BY <2>1, <2>2, <2>3, <2>4 DEF PreparedFile
<1>12. Sound(r) /\ Grows(s, r)
  BY DEF Opens
<1>13. at \in {0, r.node[m].size} /\ m \in Nodes(r)
  BY <1>3, <1>4
<1> HIDE DEF m, d
<1>14. Opening(s, r, m, at)
  BY <1>3, <1>5, <1>8, <1>10, <1>11, <1>12, <1>13 DEF Opening, d
<1>15. "CREAT" \notin flags /\ "TRUNC" \notin flags => r.node = s.node
  BY <1>1, <1>3 DEF Prepared
<1>16. QED BY <1>4, <1>14, <1>15

\* Closing gives back the descriptor an open took: the table is as it was.
LEMMA ClosedAgain ==
  ASSUME NEW s, Sound(s), NEW u, NEW m, NEW at, Opening(s, u, m, at), NEW t, Sound(t),
         IsOpen(t, u.ret), \A e \in Fds : e # u.ret => t.fd[e] = u.fd[e], NEW r, r = Close(t, u.ret)
  PROVE  Sound(r) /\ Grows(t, r) /\ r.node = t.node /\ r.fd = s.fd /\ r.ret = 0 /\ r.seen = <<>>
<1> DEFINE d == u.ret
           p == [node |-> m, at |-> at]
<1>1. d \in Fds /\ s.fd[d] = Closed /\ u.fd = [s.fd EXCEPT ![d] = p]
  BY DEF Opening
<1>2. Sound(r) /\ Grows(t, r) /\ Closes(t, d, r)
  BY <1>1, CloseLemma
<1>3. r.node = t.node /\ r.ret = 0 /\ r.seen = <<>> /\ r.fd = [t.fd EXCEPT ![d] = Closed]
  BY <1>2 DEF Closes
<1>4. s.fd \in [Fds -> [node : Nat, at : Nat]] /\ t.fd \in [Fds -> [node : Nat, at : Nat]]
  BY StateParts DEF Sound
<1> HIDE DEF p
<1>5. \A e \in Fds : e # d => t.fd[e] = s.fd[e]
  BY <1>1, <1>4
<1> HIDE DEF d
<1>6. r.fd = s.fd
  <2> DEFINE f == s.fd
             g == t.fd
             h == [g EXCEPT ![d] = Closed]
  <2>1. f[d] = Closed /\ (\A e \in Fds : e # d => g[e] = f[e]) /\ d \in Fds
    BY <1>1, <1>5
  <2>2. f \in [Fds -> [node : Nat, at : Nat]] /\ g \in [Fds -> [node : Nat, at : Nat]]
    BY <1>4
  <2> HIDE DEF f, g
  <2>3. \A e \in Fds : h[e] = f[e]
    BY <2>1, <2>2
  <2>4. h = f
    BY <2>2, <2>3
  <2>5. QED BY <1>3, <2>4 DEF f, g
<1>7. QED BY <1>2, <1>3, <1>6

\* cmd_write: the descriptor is given back, and one file at most is made or replaced.
LEMMA SaveLemma ==
  ASSUME NEW s, Sound(s), NEW path \in PathSet, NEW flags, NEW words \in Seq(Seq(Byte))
  PROVE  Quiet(s, Save(s, path, flags, words))
<1> DEFINE u == Open(s, path, flags)
           d == u.ret
           t == PutWords(u, d, words)
           r == Save(s, path, flags, words)
<1>1. Opens(s, u, flags)
  BY OpenLemma
<1>2. r = IF d = Failed THEN u ELSE Close(t, d)
  BY DEF Save, SaveOpen
<1> HIDE DEF u, r
<1>3. CASE d = Failed
  <2>1. Quiet(s, u) /\ r = u
    BY <1>1, <1>2, <1>3, OpenFailed
  <2>2. QED BY <2>1 DEF r
<1>4. CASE d # Failed
  <2>1. PICK m, at : Opening(s, u, m, at)
    BY <1>1, <1>4, OpenSucceeded
  <2>2. /\ Sound(u) /\ Grows(s, u) /\ d \in Fds /\ IsOpen(u, d) /\ u.fd[d].node = m
        /\ After(File(s), File(u), m) /\ r = Close(t, d)
    BY <1>2, <1>4, <2>1 DEF Opening
  <2>3. Puts(u, d, t)
    BY <2>2, PutWordsLemma
  <2> HIDE DEF t
  <2>4. /\ Sound(t) /\ Grows(u, t) /\ IsOpen(t, d) /\ Len(t.node) = Len(u.node)
        /\ \A e \in Fds : e # d => t.fd[e] = u.fd[e]
        /\ \A n \in Nodes(u) : n # m => t.node[n] = u.node[n]
    BY <2>2, <2>3 DEF Puts
  <2>5. Sound(r) /\ Grows(t, r) /\ r.node = t.node /\ r.fd = s.fd /\ r.ret = 0 /\ r.seen = <<>>
    BY <2>1, <2>2, <2>4, ClosedAgain
  <2>6. Grows(s, r)
    <3>1. Grows(s, t)
      BY <2>2, <2>4, GrowsOn
    <3>2. QED BY <2>4, <2>5, <3>1, GrowsOn
  <2>7. Changes(File(s), File(r))
    <3> DEFINE f == File(s)
               g == File(u)
               h == File(r)
    <3>1. f \in Seq(Seq(Byte)) /\ g \in Seq(Seq(Byte)) /\ h \in Seq(Seq(Byte))
      BY <2>2, <2>5, FileType
    <3>2. Len(h) = Len(g) /\ Nodes(u) = 1..Len(g) /\ Nodes(r) = Nodes(u)
      BY <2>2, <2>4, <2>5, FileType DEF Nodes
    <3>3. \A n \in 1..Len(g) : n # m => h[n] = g[n]
      <4>1. \A n \in Nodes(u) : g[n] = Bytes(u.node[n])
        BY <2>2, FileType
      <4>2. \A n \in Nodes(u) : h[n] = Bytes(r.node[n])
        BY <2>5, <3>2, FileType
      <4>3. \A n \in Nodes(u) : n # m => r.node[n] = u.node[n]
        BY <2>4, <2>5
      <4> HIDE DEF g, h
      <4>4. QED BY <3>2, <4>1, <4>2, <4>3
    <3>4. After(f, g, m)
      BY <2>2
    <3> HIDE DEF f, g, h
    <3>5. Changes(f, h)
      BY <3>1, <3>2, <3>3, <3>4, AfterChanges
    <3>6. QED BY <3>5 DEF f, h
  <2>8. r.ret # Failed
    BY <2>5 DEF Failed
  <2>9. Quiet(s, r)
    BY <2>5, <2>6, <2>7, <2>8 DEF Quiet
  <2>10. QED BY <2>9 DEF r
<1>5. QED BY <1>3, <1>4

\* cmd_touch is a write of no words.
LEMMA TouchLemma ==
  ASSUME NEW s, Sound(s), NEW path \in PathSet
  PROVE  Quiet(s, Touch(s, path))
<1> DEFINE u == Open(s, path, {"CREAT"})
           d == u.ret
           r == Touch(s, path)
<1>1. Opens(s, u, {"CREAT"})
  BY OpenLemma
<1>2. r = IF d = Failed THEN u ELSE Close(u, d)
  BY DEF Touch, CloseOpen
<1> HIDE DEF u, r
<1>3. CASE d = Failed
  <2>1. Quiet(s, u) /\ r = u
    BY <1>1, <1>2, <1>3, OpenFailed
  <2>2. QED BY <2>1 DEF r
<1>4. CASE d # Failed
  <2>1. PICK m, at : Opening(s, u, m, at)
    BY <1>1, <1>4, OpenSucceeded
  <2>2. /\ Sound(u) /\ Grows(s, u) /\ d \in Fds /\ IsOpen(u, d)
        /\ After(File(s), File(u), m) /\ r = Close(u, d)
    BY <1>2, <1>4, <2>1 DEF Opening
  <2>3. Sound(r) /\ Grows(u, r) /\ r.node = u.node /\ r.fd = s.fd /\ r.ret = 0 /\ r.seen = <<>>
    BY <2>1, <2>2, ClosedAgain
  <2>4. Grows(s, r)
    BY <2>2, <2>3, GrowsOn
  <2>5. Changes(File(s), File(r))
    <3> DEFINE f == File(s)
               g == File(u)
    <3>1. f \in Seq(Seq(Byte)) /\ g \in Seq(Seq(Byte)) /\ File(r) = g /\ After(f, g, m)
      BY <2>2, <2>3, FileType DEF File
    <3> HIDE DEF f, g
    <3>2. Changes(f, g)
      BY <3>1, AfterChanges
    <3>3. QED BY <3>1, <3>2 DEF f
  <2>6. r.ret # Failed
    BY <2>3 DEF Failed
  <2>7. Quiet(s, r)
    BY <2>3, <2>4, <2>5, <2>6 DEF Quiet
  <2>8. QED BY <2>7 DEF r
<1>5. QED BY <1>3, <1>4

\* r is s after a file was shown, whole, or nothing was.
Shows(s, r) ==
  /\ Sound(r) /\ Grows(s, r) /\ r.node = s.node /\ r.fd = s.fd
  /\ r.seen = <<>> \/ \E n \in Nodes(s) : r.seen = File(s)[n]

\* cmd_cat: the descriptor is given back, nothing changes, and the whole file is shown.
LEMMA CatLemma ==
  ASSUME NEW s, Sound(s), \A n \in Nodes(s) : s.node[n].size <= MaxSize, NEW path \in PathSet
  PROVE  Shows(s, Cat(s, path))
<1> DEFINE u == Open(s, path, {})
           d == u.ret
           q == Read(u, d, MaxSize)
           c == Close(q, d)
           r == Cat(s, path)
<1>1. Opens(s, u, {})
  BY OpenLemma
<1>2. r = IF d = Failed THEN u ELSE [c EXCEPT !.seen = q.seen]
  BY DEF Cat, CatOpen, CloseRead
<1> HIDE DEF u, r
<1>3. CASE d = Failed
  <2>1. Quiet(s, u) /\ u.node = s.node /\ r = u
    BY <1>1, <1>2, <1>3, OpenFailed
  <2>2. QED BY <2>1 DEF r, Quiet, Shows
<1>4. CASE d # Failed
  <2>1. u.node = s.node /\ \E m, at : Opening(s, u, m, at) /\ at = 0
    BY <1>1, <1>4, OpenSucceeded
  <2>2. PICK m : Opening(s, u, m, 0)
    BY <2>1
  <2>3. /\ Sound(u) /\ Grows(s, u) /\ d \in Fds /\ IsOpen(u, d) /\ u.fd[d] = [node |-> m, at |-> 0]
        /\ m \in Nodes(u) /\ u.fd[d].node = m /\ At(u, d) = 0
    BY <2>2 DEF Opening, At
  <2>4. MaxSize \in Nat
    BY VfsAssumption
  <2>5. Sound(q) /\ Grows(u, q) /\ \E k : Reads(u, d, MaxSize, q, k)
    BY <2>3, <2>4, ReadLemma
  <2>6. PICK k : Reads(u, d, MaxSize, q, k)
    BY <2>5
  <2> HIDE DEF q
  <2> DEFINE n == u.node[m]
  <2>7. /\ Of(u, d) = n /\ m \in Nodes(s) /\ n = s.node[m] /\ n \in NodeSet
        /\ Filled(n, n.size) /\ n.size <= MaxSize /\ n.size \in Nat
    BY <2>1, <2>3, NodeAt, NodeParts DEF Of, Nodes, Sound, Full
  <2>8. k = n.size
    BY <2>3, <2>4, <2>6, <2>7 DEF Reads
  <2>9. q.seen = Bytes(n)
    <3> DEFINE b == Bytes(n)
               v == q.seen
    <3>1. b \in Seq(Byte) /\ Len(b) = n.size
      BY <2>7, BytesType
    <3>2. v \in Seq(Byte) /\ Len(v) = k /\ \A i \in 1..k : v[i] = b[0 + i]
      BY <2>3, <2>6, <2>7 DEF Reads
    <3> HIDE DEF b, v
    <3>3. \A i \in 1..Len(v) : v[i] = b[i]
      BY <3>2
    <3>4. v = b
      BY <2>8, <3>1, <3>2, <3>3, SeqEqual
    <3>5. QED BY <3>4 DEF v, b
  <2>10. q.node = s.node /\ q.fd = [u.fd EXCEPT ![d] = [node |-> m, at |-> 0 + k]]
    BY <2>1, <2>3, <2>6 DEF Reads
  <2>11. IsOpen(q, d) /\ \A e \in Fds : e # d => q.fd[e] = u.fd[e]
    <3> DEFINE p == [node |-> m, at |-> 0 + k]
    <3>1. m \in Nat \ {0} /\ 0 + k \in Nat
      BY <2>3, <2>7, <2>8, OpenParts
    <3>2. p # Closed
      BY <3>1, OpenIsNotClosed
    <3>3. u.fd \in [Fds -> [node : Nat, at : Nat]]
      BY <2>3, StateParts DEF Sound
    <3>4. q.fd = [u.fd EXCEPT ![d] = p]
      BY <2>10
    <3> HIDE DEF p
    <3>5. QED BY <2>3, <3>2, <3>3, <3>4 DEF IsOpen
  <2>12. Sound(c) /\ Grows(q, c) /\ c.node = q.node /\ c.fd = s.fd
    BY <2>2, <2>5, <2>11, ClosedAgain
  <2> HIDE DEF c
  <2>13. q.seen \in Seq(Memory)
    BY <2>5, StateParts DEF Sound
  <2> DEFINE v == q.seen
  <2>14. r = [c EXCEPT !.seen = v] /\ v \in Seq(Memory) /\ c \in States
    BY <1>2, <1>4, <2>12, <2>13 DEF Sound
  <2> HIDE DEF v
  <2>15. r \in States /\ r.node = c.node /\ r.fd = c.fd /\ r.seen = v
    BY <2>14 DEF States
  <2>16. Sound(r)
    BY <2>12, <2>15, SoundReturns
  <2>17. r.node = s.node /\ r.fd = s.fd /\ s \in States
    BY <2>10, <2>12, <2>15 DEF Sound
  <2>18. Grows(s, r)
    BY <2>17, GrowsSelf
  <2>19. r.seen = File(s)[m]
    <3>1. File(s)[m] = Bytes(n)
      BY <2>7, FileType
    <3>2. QED BY <2>9, <2>15, <3>1 DEF v
  <2>20. Shows(s, r)
    BY <2>7, <2>16, <2>17, <2>18, <2>19 DEF Shows
  <2>21. QED BY <2>20 DEF r
<1>5. QED BY <1>3, <1>4

-----------------------------------------------------------------------------
(* What a call may do.                                                     *)

\* All that a call does to the state it starts from.
Acts(s, r) ==
  \/ Quiet(s, r)
  \/ Shows(s, r)
  \/ \E m, at : Opening(s, r, m, at)
  \/ /\ Sound(r) /\ Grows(s, r)
     /\ \E d \in Fds :
          /\ IsOpen(s, d)
          /\ \/ \E count \in Nat : \E k : Reads(s, d, count, r, k)
             \/ \E text \in Texts : Writes(s, d, text, r)
             \/ Closes(s, d, r)

\* Calls keep a state sound and let its tree grow.
LEMMA ActsSound ==
  ASSUME NEW s, NEW r, Acts(s, r)
  PROVE  Sound(r) /\ Grows(s, r)
BY DEF Acts, Quiet, Shows, Opening

\* A call that changes nothing is a quiet one.
LEMMA LeavesQuiet ==
  ASSUME NEW s, Sound(s), NEW v, NEW r, Leaves(s, v, r)
  PROVE  Quiet(s, r)
<1>1. Sound(r) /\ r.node = s.node /\ r.fd = s.fd /\ r.seen = <<>>
  BY LeavesSound DEF Leaves
<1>2. Grows(s, r)
  BY <1>1, GrowsSelf DEF Sound
<1>3. Changes(File(s), File(r))
  <2>1. File(r) = File(s)
    BY <1>1 DEF File
  <2>2. QED BY <2>1 DEF Changes
<1>4. QED BY <1>1, <1>2, <1>3 DEF Quiet, Fails

\* A call that makes one node is a quiet one.
LEMMA MakesQuiet ==
  ASSUME NEW s, Sound(s), NEW r, NEW path, Makes(s, r, path), NEW x \in Seq(Byte),
         File(r) = Append(File(s), x)
  PROVE  Quiet(s, r)
<1>1. /\ Sound(r) /\ Grows(s, r) /\ r.fd = s.fd /\ r.seen = <<>> /\ r.ret = Len(s.node) + 1
      /\ Len(s.node) \in Nat
  BY MakesLemma, StateParts DEF Sound
<1>2. r.ret # Failed
  BY <1>1 DEF Failed
<1>3. Changes(File(s), File(r))
  BY DEF Changes
<1>4. QED BY <1>1, <1>2, <1>3 DEF Quiet

\* vfs_mkdir is a quiet call.
LEMMA MkdirQuiet ==
  ASSUME NEW s, Sound(s), NEW path \in PathSet
  PROVE  Quiet(s, Mkdir(s, path))
<1> DEFINE r == Mkdir(s, path)
           q == Trim(path)
<1>1. \/ \E v \in 0..Len(s.node) : r = Returns(s, v)
      \/ Makes(s, r, q) /\ File(r) = Append(File(s), <<>>)
  BY MkdirLemma
<1> HIDE DEF r, q
<1>2. CASE \E v \in 0..Len(s.node) : r = Returns(s, v)
  <2>1. PICK v \in 0..Len(s.node) : r = Returns(s, v)
    BY <1>2
  <2>2. v \in Int /\ s \in States
    BY StateParts DEF Sound
  <2>3. Leaves(s, v, r)
    BY <2>1, <2>2, ReturnsLeaves
  <2>4. Quiet(s, r)
    BY <2>3, LeavesQuiet
  <2>5. QED BY <2>4 DEF r
<1>3. CASE Makes(s, r, q) /\ File(r) = Append(File(s), <<>>)
  <2>1. <<>> \in Seq(Byte)
    OBVIOUS
  <2>2. Quiet(s, r)
    BY <1>3, <2>1, MakesQuiet
  <2>3. QED BY <2>2 DEF r
<1>4. QED BY <1>1, <1>2, <1>3

\* vfs_open is an open or, when it fails, a quiet call.
LEMMA OpenActs ==
  ASSUME NEW s, Sound(s), NEW path \in PathSet, NEW flags
  PROVE  Acts(s, Open(s, path, flags))
<1> DEFINE r == Open(s, path, flags)
<1>1. Opens(s, r, flags)
  BY OpenLemma
<1> HIDE DEF r
<1>2. CASE r.ret = Failed
  <2>1. Quiet(s, r)
    BY <1>1, <1>2, OpenFailed
  <2>2. QED BY <2>1 DEF Acts, r
<1>3. CASE r.ret # Failed
  <2>1. \E m, at : Opening(s, r, m, at)
    <3>1. \E m, at : Opening(s, r, m, at) /\ ("APPEND" \notin flags => at = 0)
      BY <1>1, <1>3, OpenSucceeded
    <3>2. QED BY <3>1
  <2>2. QED BY <2>1 DEF Acts, r
<1>4. QED BY <1>2, <1>3

\* vfs_read, vfs_write and vfs_close act through an open descriptor, or do nothing.
LEMMA ReadActs ==
  ASSUME NEW s, Sound(s), NEW d \in Fds, NEW count \in Nat
  PROVE  Acts(s, Read(s, d, count))
<1> DEFINE r == Read(s, d, count)
<1>1. /\ Sound(r) /\ Grows(s, r)
      /\ IF IsOpen(s, d) THEN \E k : Reads(s, d, count, r, k) ELSE Leaves(s, Failed, r)
  BY ReadLemma
<1> HIDE DEF r
<1>2. CASE IsOpen(s, d)
  BY <1>1, <1>2 DEF Acts, r
<1>3. CASE ~IsOpen(s, d)
  <2>1. Quiet(s, r)
    BY <1>1, <1>3, LeavesQuiet
  <2>2. QED BY <2>1 DEF Acts, r
<1>4. QED BY <1>2, <1>3

\* A write is one of the things a call may do.
LEMMA WriteActs ==
  ASSUME NEW s, Sound(s), NEW d \in Fds, NEW text \in Texts
  PROVE  Acts(s, Write(s, d, text))
<1> DEFINE r == Write(s, d, text)
<1>1. text \in Seq(Byte)
  BY VfsAssumption
<1>2. /\ Sound(r) /\ Grows(s, r)
      /\ IF IsOpen(s, d) THEN Writes(s, d, text, r) ELSE Leaves(s, Failed, r)
  BY <1>1, WriteLemma
<1> HIDE DEF r
<1>3. CASE IsOpen(s, d)
  BY <1>2, <1>3 DEF Acts, r
<1>4. CASE ~IsOpen(s, d)
  <2>1. Quiet(s, r)
    BY <1>2, <1>4, LeavesQuiet
  <2>2. QED BY <2>1 DEF Acts, r
<1>5. QED BY <1>3, <1>4

\* A close is one of the things a call may do.
LEMMA CloseActs ==
  ASSUME NEW s, Sound(s), NEW d \in Fds
  PROVE  Acts(s, Close(s, d))
<1> DEFINE r == Close(s, d)
<1>1. /\ Sound(r) /\ Grows(s, r)
      /\ IF IsOpen(s, d) THEN Closes(s, d, r) ELSE Leaves(s, Failed, r)
  BY CloseLemma
<1> HIDE DEF r
<1>2. CASE IsOpen(s, d)
  BY <1>1, <1>2 DEF Acts, r
<1>3. CASE ~IsOpen(s, d)
  <2>1. Quiet(s, r)
    BY <1>1, <1>3, LeavesQuiet
  <2>2. QED BY <2>1 DEF Acts, r
<1>4. QED BY <1>2, <1>3

\* kmain's checks: a file is shown to nobody, and one written.
LEMMA CheckActs ==
  ASSUME NEW s, Sound(s), \A n \in Nodes(s) : s.node[n].size <= MaxSize
  PROVE  Quiet(s, Save(Cat(s, SelfTest.reads), SelfTest.writes, {"CREAT"}, <<SelfTest.text>>))
<1> DEFINE u == Cat(s, SelfTest.reads)
           words == <<SelfTest.text>>
           path == SelfTest.writes
           r == Save(u, path, {"CREAT"}, words)
<1>1. SelfTest.reads \in PathSet /\ path \in PathSet /\ words \in Seq(Seq(Byte))
  BY ClientAssumption DEF PathSet
<1>2. Shows(s, u)
  BY <1>1, CatLemma
<1> HIDE DEF u, words, path
<1>3. Sound(u) /\ Grows(s, u) /\ u.node = s.node /\ u.fd = s.fd
  BY <1>2 DEF Shows
<1>4. Quiet(u, r)
  BY <1>1, <1>3, SaveLemma
<1> HIDE DEF r
<1>5. FreeFds(u) = FreeFds(s) /\ File(u) = File(s)
  BY <1>3 DEF FreeFds, File
<1>6. Grows(s, r)
  BY <1>3, <1>4, GrowsOn DEF Quiet
<1>7. Quiet(s, r)
  BY <1>3, <1>4, <1>5, <1>6 DEF Quiet, Fails
<1>8. QED BY <1>7 DEF r, u, words, path

\* The parts of the states before and after a step.
LEMMA NowParts ==
  /\ Now.node = node /\ Now.fd = fd /\ Now.ret = 0 /\ Now.seen = <<>>
  /\ Now'.node = node' /\ Now'.fd = fd' /\ Now'.ret = 0 /\ Now'.seen = <<>>
BY DEF Now

\* What the callers see of a step is what they see of the states around it.
LEMMA Views ==
  ASSUME NEW r, Becomes(r)
  PROVE  /\ FileBytes = File(Now) /\ OpenDescs = Desc(Now)
         /\ FileBytes' = File(r) /\ OpenDescs' = Desc(r) /\ seen' = r.seen
<1>1. node' = r.node /\ fd' = r.fd /\ seen' = r.seen
  BY DEF Becomes
<1>2. FileBytes = File(Now) /\ OpenDescs = Desc(Now)
  BY NowParts DEF FileBytes, OpenDescs, File, Desc, Bytes
<1>3. FileBytes' = File(r) /\ OpenDescs' = Desc(r)
  BY <1>1 DEF FileBytes, OpenDescs, File, Desc, Bytes
<1>4. QED BY <1>1, <1>2, <1>3

\* Every step after vfs_init is one of these calls.
LEMMA StepActs ==
  ASSUME FInv, Check \/ ShellCommand \/ SystemCall
  PROVE  /\ \E r : Becomes(r) /\ Acts(Now, r)
         /\ setup = <<>> /\ UNCHANGED setup
<1>1. Sound(Now) /\ \A n \in Nodes(Now) : Now.node[n].size <= MaxSize
  BY NowParts DEF FInv, Sized, Nodes
<1>2. Paths \subseteq PathSet /\ Lines \subseteq Seq(Seq(Byte)) /\ Counts \subseteq Nat
  BY VfsAssumption, ClientAssumption DEF PathSet
<1> DEFINE Goal == \E r : Becomes(r) /\ Acts(Now, r)
<1>3. ASSUME NEW r, Becomes(r), Quiet(Now, r) PROVE Goal
  BY <1>3 DEF Acts
<1>4. CASE Check
  <2> DEFINE r == Save(Cat(Now, SelfTest.reads), SelfTest.writes, {"CREAT"}, <<SelfTest.text>>)
  <2>1. Quiet(Now, r)
    BY <1>1, CheckActs
  <2>2. Becomes(r) /\ setup = <<>> /\ UNCHANGED setup
    BY <1>4 DEF Check
  <2> HIDE DEF r
  <2>3. QED BY <1>3, <2>1, <2>2
<1>5. CASE ShellCommand
  <2>1. PICK path \in Paths :
          \/ Becomes(Mkdir(Now, path))
          \/ Becomes(Cat(Now, path))
          \/ Becomes(Touch(Now, path))
          \/ \E words \in Lines : Becomes(Save(Now, path, {"CREAT", "TRUNC"}, words))
    BY <1>5 DEF ShellCommand
  <2>2. path \in PathSet /\ setup = <<>> /\ UNCHANGED setup
    BY <1>2, <1>5 DEF ShellCommand
  <2>3. CASE Becomes(Mkdir(Now, path))
    <3>1. Quiet(Now, Mkdir(Now, path))
      BY <1>1, <2>2, MkdirQuiet
    <3>2. QED BY <1>3, <2>2, <2>3, <3>1
  <2>4. CASE Becomes(Cat(Now, path))
    <3>1. Shows(Now, Cat(Now, path))
      BY <1>1, <2>2, CatLemma
    <3>2. QED BY <2>2, <2>4, <3>1 DEF Acts
  <2>5. CASE Becomes(Touch(Now, path))
    <3>1. Quiet(Now, Touch(Now, path))
      BY <1>1, <2>2, TouchLemma
    <3>2. QED BY <1>3, <2>2, <2>5, <3>1
  <2>6. CASE \E words \in Lines : Becomes(Save(Now, path, {"CREAT", "TRUNC"}, words))
    <3>1. PICK words \in Lines : Becomes(Save(Now, path, {"CREAT", "TRUNC"}, words))
      BY <2>6
    <3>2. words \in Seq(Seq(Byte))
      BY <1>2
    <3>3. Quiet(Now, Save(Now, path, {"CREAT", "TRUNC"}, words))
      BY <1>1, <2>2, <3>2, SaveLemma
    <3>4. QED BY <1>3, <2>2, <3>1, <3>3
  <2>7. QED BY <2>1, <2>3, <2>4, <2>5, <2>6
<1>6. CASE SystemCall /\ VfsCall
  <2>1. setup = <<>> /\ UNCHANGED setup
    BY <1>6 DEF VfsCall
  <2>2. CASE \E path \in Paths : Becomes(Mkdir(Now, path))
    <3>1. PICK path \in Paths : Becomes(Mkdir(Now, path))
      BY <2>2
    <3>2. Quiet(Now, Mkdir(Now, path))
      BY <1>1, <1>2, MkdirQuiet
    <3>3. QED BY <1>3, <2>1, <3>1, <3>2
  <2>3. CASE \E path \in Paths, flags \in SUBSET {"CREAT", "TRUNC", "APPEND"} : Becomes(Open(Now, path, flags))
    <3>1. PICK path \in Paths, flags \in SUBSET {"CREAT", "TRUNC", "APPEND"} : Becomes(Open(Now, path, flags))
      BY <2>3
    <3>2. Acts(Now, Open(Now, path, flags))
      BY <1>1, <1>2, OpenActs
    <3>3. QED BY <2>1, <3>1, <3>2
  <2>4. ASSUME NEW d \in Fds,
               \/ \E count \in Counts : Becomes(Read(Now, d, count))
               \/ \E text \in Texts : Becomes(Write(Now, d, text))
               \/ Becomes(Close(Now, d))
        PROVE  Goal
    <3>1. CASE \E count \in Counts : Becomes(Read(Now, d, count))
      <4>1. PICK count \in Counts : Becomes(Read(Now, d, count))
        BY <3>1
      <4>2. Acts(Now, Read(Now, d, count))
        BY <1>1, <1>2, ReadActs
      <4>3. QED BY <4>1, <4>2
    <3>2. CASE \E text \in Texts : Becomes(Write(Now, d, text))
      <4>1. PICK text \in Texts : Becomes(Write(Now, d, text))
        BY <3>2
      <4>2. Acts(Now, Write(Now, d, text))
        BY <1>1, WriteActs
      <4>3. QED BY <4>1, <4>2
    <3>3. CASE Becomes(Close(Now, d))
      <4>1. Acts(Now, Close(Now, d))
        BY <1>1, CloseActs
      <4>2. QED BY <3>3, <4>1
    <3>4. QED BY <2>4, <3>1, <3>2, <3>3
  <2>5. QED BY <1>6, <2>1, <2>2, <2>3, <2>4 DEF VfsCall
<1>7. CASE /\ tested /\ UNCHANGED setup
           /\ \E d \in Fds, text \in Texts : Becomes(SysWrite(Now, d, text))
  <2>0. setup = <<>> /\ UNCHANGED setup
    BY <1>7 DEF FInv
  <2>1. PICK d \in Fds, text \in Texts : Becomes(SysWrite(Now, d, text))
    BY <1>7
  <2>2. CASE d \in {1, 2}
    <3> DEFINE r == Returns(Now, Len(text))
               l == Len(text)
    <3>1. Becomes(r)
      BY <2>1, <2>2 DEF SysWrite
    <3>2. l \in Int /\ Now \in States
      BY <1>1, VfsAssumption DEF Sound
    <3>3. r = Returns(Now, l)
      OBVIOUS
    <3> HIDE DEF r, l
    <3>4. Leaves(Now, l, r)
      BY <3>2, <3>3, ReturnsLeaves
    <3>5. Quiet(Now, r)
      BY <1>1, <3>4, LeavesQuiet
    <3>6. QED BY <1>3, <2>0, <3>1, <3>5
  <2>3. CASE d \notin {1, 2}
    <3>1. Becomes(Write(Now, d, text))
      BY <2>1, <2>3 DEF SysWrite
    <3>2. Acts(Now, Write(Now, d, text))
      BY <1>1, WriteActs
    <3>3. QED BY <2>0, <3>1, <3>2
  <2>4. QED BY <2>2, <2>3
<1>8. QED BY <1>4, <1>5, <1>6, <1>7 DEF SystemCall

-----------------------------------------------------------------------------
(* vfs_init.                                                               *)

\* A call of vfs_init and its parts.
LEMMA SetupParts ==
  ASSUME NEW i \in 1..Len(Setup)
  PROVE  /\ Len(Setup) \in Nat /\ i \in Nat /\ Setup[i].dir \in BOOLEAN
         /\ Setup[i].path \in Seq(Names) /\ Setup[i].text \in Seq(Byte)
         /\ SetupPaths(i) \subseteq SetupPaths(i + 1) /\ Setup[i].path \in SetupPaths(i + 1)
<1> DEFINE C == [dir : BOOLEAN, path : Seq(Names), text : Seq(Byte)]
<1>1. Setup \in Seq(C)
  BY VfsAssumption
<1>2. Len(Setup) \in Nat /\ Setup[i] \in C
  <2> HIDE DEF C
  <2>1. QED BY <1>1
<1>3. i \in Nat
  BY <1>2
<1>4. i \in 1..(i + 1 - 1) /\ \A j \in 1..(i - 1) : j \in 1..(i + 1 - 1)
  BY <1>2
<1>5. QED BY <1>2, <1>3, <1>4 DEF SetupPaths

\* Before the first component of a path there is none.
LEMMA NoPrefix ==
  ASSUME NEW S, NEW q \in Seq(S)
  PROVE  SubSeq(q, 1, 0) = <<>>
BY SubSeqEmpty

\* A walk along names ends at the node of the path it went.
LEMMA PavedWalk ==
  ASSUME NEW s, Sound(s), NEW i, NEW P, Paved(s, P, i), NEW path \in Seq(Names), NEW f,
         Walks(s, path, f), f[Len(path)] # Nil
  PROVE  P[f[Len(path)]] = path
<1> DEFINE N == Len(path)
           T == {k \in 0..N : f[k] # Nil => P[f[k]] = SubSeq(path, 1, k)}
<1>1. N \in Nat /\ \A k \in 1..N : path[k] \in Names
  OBVIOUS
<1>2. 0 \in T
  <2>1. f[0] = Root /\ P[Root] = <<>>
    BY DEF Walks, Paved
  <2>2. SubSeq(path, 1, 0) = <<>>
    BY NoPrefix
  <2>3. f[0] # Nil => P[f[0]] = SubSeq(path, 1, 0)
    BY <2>1, <2>2
  <2> DEFINE A(k) == f[k] # Nil => P[f[k]] = SubSeq(path, 1, k)
  <2>4. A(0) /\ T = {k \in 0..N : A(k)}
    BY <2>3
  <2> HIDE DEF A, T, N
  <2>5. QED BY <1>1, <2>4
<1>3. ASSUME NEW k \in 1..N, k - 1 \in T
      PROVE  k \in T
  <2>1. SUFFICES ASSUME f[k] # Nil PROVE P[f[k]] = SubSeq(path, 1, k)
    BY <1>1
  <2> DEFINE d == f[k - 1]
             v == f[k]
             name == path[k]
             q == SubSeq(path, 1, k - 1)
  <2>2. v = Enter(s, d, name) /\ name \in Names /\ k - 1 \in 0..N
    BY <1>1 DEF Walks
  <2>3. d \in 0..Len(s.node) /\ Len(s.node) \in Nat
    BY <2>2, StateParts DEF Walks, Sound
  <2>4. P[d] = q \/ d = Nil
    BY <1>3
  <2>5. q \in Seq(Names) /\ Append(q, name) = SubSeq(path, 1, k)
    BY <1>1
  <2>6. v # Nil
    BY <2>1
  <2> HIDE DEF d, v, name, q
  <2>7. d # Nil /\ name # Empty
    BY <2>2, <2>6, VfsAssumption DEF Enter
  <2>8. v = Find(s, d, name) /\ d \in Nodes(s)
    BY <2>2, <2>3, <2>7 DEF Enter, Nodes, Nil
  <2>9. PICK j \in Kids(s, d) : s.node[d].kids[j] = v /\ s.node[v].name = name
    BY <2>6, <2>8, FindFinds DEF Finds
  <2>10. P[v] = Append(P[d], name)
    BY <2>8, <2>9 DEF Paved
  <2>11. P[v] = SubSeq(path, 1, k)
    BY <2>4, <2>5, <2>7, <2>10
  <2>12. QED BY <2>11 DEF v
<1>4. 0..N \subseteq T
  <2> HIDE DEF T, N
  <2>1. QED BY <1>1, <1>2, <1>3, Induction
<1>5. N \in T
  BY <1>1, <1>4
<1>6. SubSeq(path, 1, N) = path
  OBVIOUS
<1>7. QED BY <1>5, <1>6

\* The path of a node that is made is the path it is made for.
LEMMA PavedHolder ==
  ASSUME NEW s, Sound(s), NEW i, NEW P, Paved(s, P, i), NEW path \in Seq(Names), path # <<>>,
         NEW p, Holder(s, path, p)
  PROVE  Append(P[p], Last(path)) = path
<1>1. path \in PathSet /\ Len(path) \in Nat \ {0}
  BY DEF PathSet
<1>2. CASE Len(path) = 1
  <2>1. P[p] = <<>>
    BY <1>2 DEF Holder, Paved
  <2>2. Last(path) = path[1] /\ path = <<path[1]>>
    BY <1>2 DEF Last
  <2> DEFINE x == path[1]
  <2>3. Append(<<>>, x) = <<x>>
    OBVIOUS
  <2>4. QED BY <2>1, <2>2, <2>3
<1>3. CASE Len(path) # 1
  <2> DEFINE q == Front(path)
  <2>1. Len(path) > 1
    BY <1>1, <1>3, LongPath
  <2>2. p = Lookup(s, q) /\ p \in Nodes(s)
    BY <1>3 DEF Holder
  <2>3. q \in Seq(Names) /\ Len(q) = Len(path) - 1 /\ Append(q, Last(path)) = path
    BY <2>1 DEF Front, Last
  <2>4. q \in PathSet /\ q # <<>>
    BY <1>1, <2>1, LookupFront
  <2> HIDE DEF q
  <2>5. PICK f : Walks(s, q, f) /\ Lookup(s, q) = f[Len(q)]
    BY <2>4, LookupWalks
  <2>6. f[Len(q)] # Nil
    BY <2>2, <2>5, StateParts DEF Nodes, Nil, Sound
  <2>7. P[p] = q
    BY <2>2, <2>3, <2>5, <2>6, PavedWalk
  <2>8. QED BY <2>3, <2>7
<1>4. QED BY <1>2, <1>3

\* When vfs_init makes a file, its directory has no entry of that name.
LEMMA SetupFree ==
  ASSUME NEW s, Sound(s), NEW i \in 1..Len(Setup), NEW P, Paved(s, P, i), ~Setup[i].dir,
         Setup[i].path # <<>>, NEW p, Holder(s, Setup[i].path, p)
  PROVE  Finds(s, p, Last(Setup[i].path), Nil)
<1> DEFINE path == Setup[i].path
<1>1. path \in Seq(Names)
  BY SetupParts
<1>2. Append(P[p], Last(path)) = path /\ p \in Nodes(s)
  BY <1>1, PavedHolder DEF Holder
<1>3. ASSUME NEW k \in Kids(s, p), s.node[s.node[p].kids[k]].name = Last(path)
      PROVE  FALSE
  <2> DEFINE c == s.node[p].kids[k]
  <2>1. P[c] = path
    BY <1>2, <1>3 DEF Paved
  <2>2. c \in 2..Len(s.node)
    <3>1. c \in (p + 1)..Len(s.node) /\ p \in 1..Len(s.node) /\ Len(s.node) \in Nat
      BY <1>2, StateParts DEF Sound, Tree, Later, Nodes
    <3> HIDE DEF c
    <3>2. QED BY <3>1
  <2>3. PICK j \in 1..(i - 1) : Setup[j].path = path
    <3>1. P[c] \in SetupPaths(i)
      BY <2>2 DEF Paved
    <3>2. QED BY <2>1, <3>1 DEF SetupPaths
  <2>4. j \in 1..Len(Setup) /\ j < i
    BY SetupParts
  <2>5. QED BY <2>3, <2>4, SetupAssumption
<1>4. QED BY <1>3 DEF Finds

\* The paths of the nodes after a call of vfs_init that made none.
LEMMA PavedSame ==
  ASSUME NEW s, NEW i \in 1..Len(Setup), NEW P \in [Nodes(s) -> {<<>>} \cup SetupPaths(i)],
         Paved(s, P, i), NEW r, r.node = s.node
  PROVE  P \in [Nodes(r) -> {<<>>} \cup SetupPaths(i + 1)] /\ Paved(r, P, i + 1)
<1>1. SetupPaths(i) \subseteq SetupPaths(i + 1)
  BY SetupParts
<1>2. QED BY <1>1 DEF Paved, Nodes, Kids

\* The paths of the nodes after a call that made one.
LEMMA PavedMore ==
  ASSUME NEW s, Sound(s), NEW i \in 1..Len(Setup), NEW P \in [Nodes(s) -> {<<>>} \cup SetupPaths(i)],
         Paved(s, P, i), NEW r, Makes(s, r, Setup[i].path), Setup[i].path # <<>>
  PROVE  \E Q \in [Nodes(r) -> {<<>>} \cup SetupPaths(i + 1)] : Paved(r, Q, i + 1)
<1> DEFINE path == Setup[i].path
           L == Len(s.node)
           Q == [n \in Nodes(r) |-> IF n = L + 1 THEN path ELSE P[n]]
<1>1. /\ path \in Seq(Names) /\ SetupPaths(i) \subseteq SetupPaths(i + 1)
      /\ path \in SetupPaths(i + 1)
  BY SetupParts
<1>2. PICK p, n : Holder(s, path, p) /\ n.name = Last(path) /\ Adds(s, r, p, n)
  BY DEF Makes
<1>3. AddedNodes(s, r, p, n) /\ AddedKids(s, r, p)
  BY <1>2, AddedShape
<1>4. /\ L \in Nat \ {0} /\ Len(r.node) = L + 1 /\ r.node[L + 1] = n
      /\ \A d \in Nodes(s) : d \in Nodes(r) /\ d # L + 1 /\ r.node[d].name = s.node[d].name
      /\ \A d \in Nodes(r) : d = L + 1 \/ d \in Nodes(s)
  BY <1>3 DEF AddedNodes, Nodes
<1>5. Append(P[p], Last(path)) = path /\ p \in Nodes(s)
  BY <1>1, <1>2, PavedHolder DEF Holder
<1>6. \A d \in Nodes(s) : \A k \in Kids(s, d) : s.node[d].kids[k] \in Nodes(s)
  BY <1>4, StateParts DEF Sound, Tree, Later, Nodes
<1> HIDE DEF L
<1>7. Q \in [Nodes(r) -> {<<>>} \cup SetupPaths(i + 1)]
  BY <1>1, <1>4
<1>8. /\ \A d \in Nodes(s) : Q[d] = P[d]
      /\ Q[L + 1] = path
  <2>1. L + 1 \in Nodes(r)
    BY <1>4 DEF Nodes
  <2>2. QED BY <1>4, <2>1
<1> HIDE DEF Q, path
<1>9. Q[Root] = <<>>
  <2>1. Root \in Nodes(s) /\ P[Root] = <<>>
    BY <1>4 DEF Root, Nodes, L, Paved
  <2>2. QED BY <1>8, <2>1
<1>10. \A m \in 2..Len(r.node) : Q[m] \in SetupPaths(i + 1)
  <2>1. SUFFICES ASSUME NEW m \in 2..Len(r.node) PROVE Q[m] \in SetupPaths(i + 1)
    OBVIOUS
  <2>2. CASE m = L + 1
    BY <1>1, <1>8, <2>2
  <2>3. CASE m # L + 1
    <3>1. m \in 2..L /\ m \in 1..L
      BY <1>4, <2>1, <2>3
    <3>2. P[m] \in SetupPaths(i) /\ Q[m] = P[m]
      BY <1>8, <3>1 DEF Paved, Nodes, L
    <3>3. QED BY <1>1, <3>2
  <2>4. QED BY <2>2, <2>3
<1>11. ASSUME NEW d \in Nodes(r), NEW k \in Kids(r, d)
       PROVE  Q[r.node[d].kids[k]] = Append(Q[d], r.node[r.node[d].kids[k]].name)
  <2>1. CASE d \in Nodes(s) /\ k \in Kids(s, d) /\ r.node[d].kids[k] = s.node[d].kids[k]
    <3> DEFINE c == s.node[d].kids[k]
    <3>1. c \in Nodes(s) /\ P[c] = Append(P[d], s.node[c].name)
      BY <1>6, <2>1 DEF Paved
    <3>2. Q[c] = P[c] /\ Q[d] = P[d] /\ r.node[c].name = s.node[c].name
      BY <1>4, <1>8, <2>1, <3>1
    <3>3. QED BY <2>1, <3>1, <3>2
  <2>2. CASE d = p /\ r.node[d].kids[k] = Len(r.node)
    BY <1>2, <1>4, <1>5, <1>8, <2>2
  <2>3. QED BY <1>3, <2>1, <2>2 DEF AddedKids
<1>12. Paved(r, Q, i + 1)
  BY <1>9, <1>10, <1>11 DEF Paved
<1>13. QED BY <1>7, <1>12

\* A call of vfs_init is a quiet one, and the paths of the nodes are known after it.
LEMMA SetupCall ==
  ASSUME NEW s, Sound(s), NEW i \in 1..Len(Setup), NEW P \in [Nodes(s) -> {<<>>} \cup SetupPaths(i)],
         Paved(s, P, i), NEW r,
         r = IF Setup[i].dir THEN Mkdir(s, Setup[i].path)
             ELSE CreateFile(s, Setup[i].path, Setup[i].text)
  PROVE  /\ Quiet(s, r)
         /\ \E Q \in [Nodes(r) -> {<<>>} \cup SetupPaths(i + 1)] : Paved(r, Q, i + 1)
<1> DEFINE path == Setup[i].path
           text == Setup[i].text
<1>1. path \in Seq(Names) /\ path \in PathSet /\ text \in Seq(Byte)
  BY SetupParts DEF PathSet
<1>2. ASSUME r.node = s.node
      PROVE  \E Q \in [Nodes(r) -> {<<>>} \cup SetupPaths(i + 1)] : Paved(r, Q, i + 1)
  BY <1>2, PavedSame
<1>3. ASSUME Makes(s, r, path), path # <<>>
      PROVE  \E Q \in [Nodes(r) -> {<<>>} \cup SetupPaths(i + 1)] : Paved(r, Q, i + 1)
  BY <1>3, PavedMore
<1>4. ASSUME NEW v \in 0..Len(s.node), r = Returns(s, v)
      PROVE  Quiet(s, r) /\ r.node = s.node
  <2>1. v \in Int /\ s \in States
    BY StateParts DEF Sound
  <2>2. Leaves(s, v, r)
    BY <1>4, <2>1, ReturnsLeaves
  <2>3. QED BY <2>2, LeavesQuiet DEF Leaves
<1>5. CASE Setup[i].dir
  <2>1. r = Mkdir(s, path)
    BY <1>5
  <2>2. ASSUME path # <<>> PROVE Trim(path) = path
    <3>1. Len(path) \in 1..Len(path)
      BY <1>1, <2>2 DEF PathSet
    <3>2. Last(path) \in Names
      BY <1>1, <3>1 DEF Last
    <3>3. Last(path) # Empty
      BY <3>2, VfsAssumption
    <3>4. QED BY <3>3 DEF Trim
  <2>3. \/ \E v \in 0..Len(s.node) : r = Returns(s, v)
        \/ path # <<>> /\ Makes(s, r, Trim(path)) /\ File(r) = Append(File(s), <<>>)
    BY <1>1, <2>1, MkdirLemma
  <2>4. Quiet(s, r)
    BY <1>1, <2>1, MkdirQuiet
  <2>5. CASE \E v \in 0..Len(s.node) : r = Returns(s, v)
    <3>1. r.node = s.node
      BY <1>4, <2>5
    <3>2. QED BY <1>2, <2>4, <3>1
  <2>6. CASE path # <<>> /\ Makes(s, r, Trim(path))
    BY <1>3, <2>2, <2>4, <2>6
  <2>7. QED BY <2>3, <2>5, <2>6
<1>6. CASE ~Setup[i].dir
  <2>1. r = CreateFile(s, path, text)
    BY <1>6
  <2>2. path # <<>> => \A p : Holder(s, path, p) => Finds(s, p, Last(path), Nil)
    BY <1>6, SetupFree
  <2>3. Creates(s, path, text, r)
    BY <1>1, <2>1, <2>2, CreateFileLemma
  <2> HIDE DEF path, text
  <2>4. CASE r = Returns(s, Nil)
    <3>1. Nil \in 0..Len(s.node)
      BY StateParts DEF Sound, Nil
    <3>2. Quiet(s, r) /\ r.node = s.node
      BY <1>4, <2>4, <3>1
    <3>3. QED BY <1>2, <3>2
  <2>5. CASE path # <<>> /\ Makes(s, r, path) /\ \E b \in Seq(Byte) : File(r) = Append(File(s), b)
    <3>1. Quiet(s, r)
      BY <2>5, MakesQuiet
    <3>2. QED BY <1>3, <2>5, <3>1
  <2>6. QED BY <2>3, <2>4, <2>5 DEF Creates
<1>7. QED BY <1>5, <1>6

\* What is left of vfs_init: the calls from the i-th on.
LEMMA SetupLeft ==
  ASSUME NEW i \in 1..(Len(Setup) + 1)
  PROVE  /\ SubSeq(Setup, i, Len(Setup)) = <<>> <=> i = Len(Setup) + 1
         /\ i <= Len(Setup) =>
              /\ Head(SubSeq(Setup, i, Len(Setup))) = Setup[i]
              /\ Tail(SubSeq(Setup, i, Len(Setup))) = SubSeq(Setup, i + 1, Len(Setup))
<1> DEFINE C == [dir : BOOLEAN, path : Seq(Names), text : Seq(Byte)]
           N == Len(Setup)
<1>1. Setup \in Seq(C)
  BY VfsAssumption
<1> HIDE DEF C
<1>2. N \in Nat /\ i \in Nat \ {0}
  BY <1>1
<1> DEFINE q == SubSeq(Setup, i, N)
           t == SubSeq(Setup, i + 1, N)
<1>3. /\ q \in Seq(C) /\ Len(q) = IF i <= N THEN N - i + 1 ELSE 0
      /\ \A j \in 1..(N - i + 1) : q[j] = Setup[i + j - 1]
  BY <1>1, <1>2, SubSeqProperties
<1>4. /\ t \in Seq(C) /\ Len(t) = IF i + 1 <= N THEN N - i ELSE 0
      /\ \A j \in 1..(N - i) : t[j] = Setup[i + j]
  BY <1>1, <1>2, SubSeqProperties
<1> HIDE DEF q, t, N
<1>5. q = <<>> <=> i = N + 1
  BY <1>2, <1>3 DEF N
<1>6. ASSUME i <= N PROVE Head(q) = Setup[i] /\ Tail(q) = t
  <2>1. q # <<>> /\ Len(q) = N - i + 1 /\ Len(t) = N - i
    BY <1>2, <1>3, <1>4, <1>6
  <2>2. q[1] = Setup[i]
    BY <1>2, <1>3, <1>6
  <2>3. Head(q) = Setup[i]
    BY <1>3, <2>1, <2>2
  <2>4. Tail(q) \in Seq(C) /\ Len(Tail(q)) = N - i /\ \A j \in 1..(N - i) : Tail(q)[j] = q[j + 1]
    BY <1>2, <1>3, <2>1
  <2>5. \A j \in 1..(N - i) : Tail(q)[j] = t[j]
    <3>1. SUFFICES ASSUME NEW j \in 1..(N - i) PROVE Tail(q)[j] = t[j]
      OBVIOUS
    <3>2. Tail(q)[j] = q[j + 1] /\ t[j] = Setup[i + j]
      BY <1>4, <2>4
    <3>3. j + 1 \in 1..(N - i + 1) /\ i + (j + 1) - 1 = i + j
      BY <1>2
    <3>4. q[j + 1] = Setup[i + j]
      BY <1>3, <3>3
    <3>5. QED BY <3>2, <3>4
  <2>6. Tail(q) = t
    BY <1>4, <2>1, <2>4, <2>5, SeqEqual
  <2>7. QED BY <2>3, <2>6
<1>7. QED BY <1>5, <1>6 DEF q, t, N

\* A step of vfs_init.
LEMMA SetupActs ==
  ASSUME FInv, VfsInit
  PROVE  InSetup' /\ \E r : Becomes(r) /\ Quiet(Now, r)
<1>1. Sound(Now) /\ InSetup /\ setup # <<>>
  BY DEF FInv, VfsInit
<1>2. PICK i \in 1..(Len(Setup) + 1) :
        setup = SubSeq(Setup, i, Len(Setup)) /\ (i <= Len(Setup) => Made(i))
  BY <1>1 DEF InSetup
<1>3. /\ i \in 1..Len(Setup) /\ i + 1 \in 1..(Len(Setup) + 1)
      /\ Head(setup) = Setup[i] /\ Tail(setup) = SubSeq(Setup, i + 1, Len(Setup))
  <2>1. Len(Setup) \in Nat
    BY VfsAssumption
  <2>2. i # Len(Setup) + 1
    BY <1>1, <1>2, SetupLeft
  <2>3. i <= Len(Setup)
    BY <2>1, <2>2
  <2>4. QED BY <1>2, <2>1, <2>3, SetupLeft
<1>4. PICK P \in [Nodes(Now) -> {<<>>} \cup SetupPaths(i)] : Paved(Now, P, i)
  <2>1. Made(i)
    BY <1>2, <1>3, VfsAssumption
  <2>2. QED BY <2>1 DEF Made
<1> DEFINE r == IF Setup[i].dir THEN Mkdir(Now, Setup[i].path)
                ELSE CreateFile(Now, Setup[i].path, Setup[i].text)
<1>5. Becomes(r) /\ setup' = SubSeq(Setup, i + 1, Len(Setup))
  BY <1>3 DEF VfsInit
<1>6. r = IF Setup[i].dir THEN Mkdir(Now, Setup[i].path)
          ELSE CreateFile(Now, Setup[i].path, Setup[i].text)
  OBVIOUS
<1> HIDE DEF r
<1>7. /\ Quiet(Now, r)
      /\ \E Q \in [Nodes(r) -> {<<>>} \cup SetupPaths(i + 1)] : Paved(r, Q, i + 1)
  BY <1>1, <1>3, <1>4, <1>6, SetupCall
<1>8. Made(i + 1)'
  <2>1. PICK Q \in [Nodes(r) -> {<<>>} \cup SetupPaths(i + 1)] : Paved(r, Q, i + 1)
    BY <1>7
  <2>2. Now'.node = r.node
    BY <1>5, NowParts DEF Becomes
  <2>3. Nodes(Now') = Nodes(r) /\ Paved(Now', Q, i + 1)
    BY <2>1, <2>2 DEF Nodes, Paved, Kids
  <2>4. \E R \in [Nodes(Now') -> {<<>>} \cup SetupPaths(i + 1)] : Paved(Now', R, i + 1)
    BY <2>1, <2>3
  <2>5. QED BY <2>4 DEF Made
<1>9. InSetup'
  BY <1>3, <1>5, <1>8 DEF InSetup
<1>10. QED BY <1>5, <1>7, <1>9

-----------------------------------------------------------------------------
(* The invariant holds.                                                    *)

\* What a call leaves is the state between calls.
LEMMA BecomesSound ==
  ASSUME NEW r, Becomes(r), Sound(r)
  PROVE  /\ Sound(Now)' /\ Sized' /\ failed' \in BOOLEAN /\ seen' \in Seq(Memory)
<1>1. r \in States /\ node' = r.node /\ fd' = r.fd /\ seen' = r.seen /\ failed' = (r.ret = Failed)
  BY DEF Becomes, Sound
<1>2. /\ node' \in Seq(NodeSet) /\ fd' \in [Fds -> [node : Nat, at : Nat]]
      /\ seen' \in Seq(Memory)
  BY <1>1, StateParts
<1>3. Now' = [node |-> node', fd |-> fd', ret |-> 0, seen |-> <<>>]
  BY DEF Now
<1>4. <<>> \in Seq(Memory) /\ 0 \in Int
  OBVIOUS
<1>5. Now' \in States
  BY <1>2, <1>3, <1>4 DEF States
<1>6. Sound(Now')
  BY <1>1, <1>5, NowParts, SoundReturns
<1>7. Sound(Now)'
  BY <1>6 DEF Sound, Tree, Later, DirsOnly, Placed, Once, Fewer, Distinct, Pointing, Full, Nodes, Kids, Filled
<1>8. Sized'
  BY <1>1 DEF Sized, Becomes
<1>9. QED BY <1>1, <1>2, <1>7, <1>8

\* The file system starts with its root, and nothing open.
LEMMA FilesInit ==
  ASSUME ClientInit
  PROVE  FInv
<1>1. /\ node = <<NewNode(Empty, TRUE)>> /\ fd = [d \in Fds |-> Closed]
      /\ failed = FALSE /\ seen = <<>> /\ setup = Setup /\ tested = FALSE
  BY DEF ClientInit, Init
<1> DEFINE n == NewNode(Empty, TRUE)
<1>2. n \in NodeSet /\ n.kids = <<>> /\ Filled(n, n.size) /\ n.size = 0
  BY NewNodeFresh DEF Fresh
<1>3. Closed \in [node : Nat, at : Nat]
  BY DEF Closed, Nil
<1>4. /\ Now.node = <<n>> /\ Now.fd = [d \in Fds |-> Closed]
      /\ Now = [node |-> <<n>>, fd |-> [d \in Fds |-> Closed], ret |-> 0, seen |-> <<>>]
  BY <1>1 DEF Now
<1> HIDE DEF n
<1>5. <<>> \in Seq(Memory) /\ <<n>> \in Seq(NodeSet) /\ Len(<<n>>) = 1 /\ <<n>>[1] = n
  BY <1>2
<1>6. Now \in States
  <2> DEFINE f == [d \in Fds |-> Closed]
             q == <<n>>
  <2>1. f \in [Fds -> [node : Nat, at : Nat]] /\ q \in Seq(NodeSet)
    BY <1>3, <1>5
  <2>2. Now = [node |-> q, fd |-> f, ret |-> 0, seen |-> <<>>] /\ 0 \in Int
    BY <1>4
  <2> HIDE DEF f, q
  <2>3. QED BY <1>5, <2>1, <2>2 DEF States
<1>7. Nodes(Now) = {1} /\ Kids(Now, 1) = {} /\ Now.node[1] = n /\ Len(Now.node) = 1
  BY <1>2, <1>4, <1>5 DEF Nodes, Kids
<1>8. Now.node # <<>>
  BY <1>4, <1>5
<1>9. Later(Now) /\ DirsOnly(Now) /\ Once(Now) /\ Distinct(Now)
  BY <1>2, <1>7 DEF Later, DirsOnly, Once, Distinct
<1>10. Placed(Now) /\ Fewer(Now)
  <2>1. 2..1 = {} /\ Len(n.kids) = 0
    BY <1>2
  <2>2. QED BY <1>7, <2>1 DEF Placed, Fewer
<1>11. Tree(Now)
  BY <1>8, <1>9, <1>10 DEF Tree
<1>12. Pointing(Now) /\ Full(Now)
  BY <1>2, <1>4, <1>7 DEF Pointing, Full
<1>13. Sound(Now)
  BY <1>6, <1>11, <1>12 DEF Sound
<1>14. Sized
  <2>1. n.size <= MaxSize
    BY <1>2, VfsAssumption
  <2>2. node = <<n>>
    BY <1>1 DEF n
  <2>3. QED BY <1>5, <2>1, <2>2 DEF Sized
<1>15. InSetup
  <2>1. Setup = SubSeq(Setup, 1, Len(Setup)) /\ 1 \in 1..(Len(Setup) + 1)
    <3> DEFINE C == [dir : BOOLEAN, path : Seq(Names), text : Seq(Byte)]
    <3>1. Setup \in Seq(C)
      BY VfsAssumption
    <3> HIDE DEF C
    <3>2. QED BY <3>1
  <2>2. Made(1)
    <3> DEFINE P == [d \in Nodes(Now) |-> <<>>]
    <3>1. P \in [Nodes(Now) -> {<<>>} \cup SetupPaths(1)] /\ P[Root] = <<>>
      BY <1>7 DEF Root
    <3>2. 2..Len(Now.node) = {}
      BY <1>7
    <3> HIDE DEF P
    <3>3. Paved(Now, P, 1)
      BY <1>7, <3>1, <3>2 DEF Paved
    <3>4. QED BY <3>1, <3>3 DEF Made
  <2>3. QED BY <1>1, <2>1, <2>2 DEF InSetup
<1>16. QED BY <1>1, <1>5, <1>13, <1>14, <1>15 DEF FInv

\* A step is a call.
LEMMA StepCall ==
  ASSUME FInv, ClientNext
  PROVE  \E r : Becomes(r) /\ Acts(Now, r)
<1>1. CASE VfsInit
  BY <1>1, SetupActs DEF Acts
<1>2. CASE Check \/ ShellCommand \/ SystemCall
  BY <1>2, StepActs
<1>3. QED BY <1>1, <1>2 DEF ClientNext

\* A step keeps the invariant.
LEMMA FilesStep ==
  ASSUME FInv, [ClientNext]_clientVars
  PROVE  FInv'
<1>1. CASE ClientNext
  <2>1. PICK r : Becomes(r) /\ Acts(Now, r)
    BY <1>1, StepCall
  <2>2. Sound(r)
    BY <2>1, ActsSound
  <2>3. Sound(Now)' /\ Sized' /\ failed' \in BOOLEAN /\ seen' \in Seq(Memory)
    BY <2>1, <2>2, BecomesSound
  <2>4. InSetup' /\ (tested' => setup' = <<>>)
    <3>1. CASE VfsInit /\ UNCHANGED tested
      <4>1. InSetup' /\ setup # <<>>
        BY <3>1, SetupActs DEF VfsInit
      <4>2. QED BY <3>1, <4>1 DEF FInv
    <3>2. CASE Check \/ ShellCommand \/ SystemCall
      <4>1. setup = <<>> /\ setup' = <<>>
        BY <3>2, StepActs
      <4>2. InSetup'
        <5>1. PICK i \in 1..(Len(Setup) + 1) : setup = SubSeq(Setup, i, Len(Setup))
          BY DEF FInv, InSetup
        <5>2. i = Len(Setup) + 1
          BY <4>1, <5>1, SetupLeft
        <5>3. ~(i <= Len(Setup))
          BY <5>2, VfsAssumption
        <5>4. setup' = SubSeq(Setup, i, Len(Setup)) /\ (i <= Len(Setup) => Made(i)')
          BY <4>1, <5>1, <5>3
        <5>5. QED BY <5>4 DEF InSetup
      <4>3. QED BY <4>1, <4>2
    <3>3. QED BY <1>1, <3>1, <3>2 DEF ClientNext
  <2>5. QED BY <2>3, <2>4 DEF FInv
<1>2. CASE UNCHANGED clientVars
  <2>1. /\ node' = node /\ fd' = fd /\ setup' = setup /\ seen' = seen /\ failed' = failed
        /\ tested' = tested
    BY <1>2 DEF clientVars, vars
  <2>2. Now' = Now /\ Sized'
    BY <2>1 DEF Now, FInv, Sized
  <2>3. Sound(Now)'
    <3>1. Sound(Now')
      BY <2>2 DEF FInv
    <3>2. QED BY <3>1 DEF Sound, Tree, Later, DirsOnly, Placed, Once, Fewer, Distinct, Pointing,
          Full, Nodes, Kids, Filled
  <2>4. InSetup'
    <3>1. PICK i \in 1..(Len(Setup) + 1) :
            setup = SubSeq(Setup, i, Len(Setup)) /\ (i <= Len(Setup) => Made(i))
      BY DEF FInv, InSetup
    <3>2. Made(i) => Made(i)'
      BY <2>1, <2>2 DEF Made, Paved, Nodes, Kids
    <3>3. QED BY <2>1, <3>1, <3>2 DEF InSetup
  <2>5. QED BY <2>1, <2>2, <2>3, <2>4 DEF FInv
<1>3. QED BY <1>1, <1>2

\* The invariant of the file system under all its callers: its tree is one, open
\* descriptors are of nodes, and nothing shows a byte that was not written.
THEOREM FilesInvariant == ClientSpec => []FInv
<1>1. ClientInit => FInv
  BY FilesInit
<1>2. FInv /\ [ClientNext]_clientVars => FInv'
  BY FilesStep
<1>3. QED BY <1>1, <1>2, PTL DEF ClientSpec

\* The invariant says that the nodes form a tree.
LEMMA TreeIsTree ==
  ASSUME FInv
  PROVE  IsTree
<1>1. /\ Sound(Now) /\ Nodes(Now) = 1..Len(node) /\ Len(node) \in Nat
      /\ \A d \in Nodes(Now) : Kids(Now, d) = 1..Len(node[d].kids) /\ Len(node[d].kids) \in Nat
  <2>1. Sound(Now)
    BY DEF FInv
  <2>2. Now \in States
    BY <2>1 DEF Sound
  <2>3. \A d \in Nodes(Now) : Len(Now.node[d].kids) \in Nat
    BY <2>2, NodeAt, NodeParts
  <2>4. Len(Now.node) \in Nat
    BY <2>2, StateParts
  <2>5. QED BY <2>1, <2>3, <2>4, NowParts DEF Nodes, Kids
<1>2. ASSUME NEW n \in 2..Len(node)
      PROVE  \E d \in 1..(n - 1), i \in 1..Len(node) :
               \A e \in 1..Len(node), j \in 1..Len(node) :
                 (j <= Len(node[e].kids) /\ node[e].kids[j] = n) <=> (e = d /\ j = i)
  <2>1. PICK d \in Nodes(Now) : \E i \in Kids(Now, d) : node[d].kids[i] = n
    BY <1>1, NowParts DEF Sound, Tree, Placed
  <2>2. PICK i \in Kids(Now, d) : node[d].kids[i] = n
    BY <2>1
  <2>3. n \in (d + 1)..Len(node) /\ d \in Nat \ {0}
    BY <1>1, <2>2, NowParts DEF Sound, Tree, Later
  <2>4. d \in 1..(n - 1)
    BY <2>3
  <2>5. Len(node[d].kids) < Len(node)
    BY <1>1, NowParts DEF Sound, Tree, Fewer
  <2>6. i \in 1..Len(node) /\ i <= Len(node[d].kids)
    BY <1>1, <2>5
  <2>7. ASSUME NEW e \in 1..Len(node), NEW j \in 1..Len(node), j <= Len(node[e].kids),
               node[e].kids[j] = n
        PROVE  e = d /\ j = i
    <3>1. e \in Nodes(Now) /\ j \in Kids(Now, e)
      BY <1>1, <2>7
    <3>2. QED BY <1>1, <2>2, <2>7, <3>1, NowParts DEF Sound, Tree, Once
  <2>8. \A e \in 1..Len(node), j \in 1..Len(node) :
          (j <= Len(node[e].kids) /\ node[e].kids[j] = n) <=> (e = d /\ j = i)
    <3>1. SUFFICES ASSUME NEW e \in 1..Len(node), NEW j \in 1..Len(node)
                   PROVE  (j <= Len(node[e].kids) /\ node[e].kids[j] = n) <=> (e = d /\ j = i)
      OBVIOUS
    <3>2. CASE e = d /\ j = i
      BY <2>2, <2>6, <3>2
    <3>3. CASE ~(e = d /\ j = i)
      BY <2>7, <3>3
    <3>4. QED BY <3>2, <3>3
  <2>9. QED BY <2>4, <2>6, <2>8
<1>3. ASSUME NEW d \in 1..Len(node)
      PROVE  /\ ~node[d].dir => node[d].kids = <<>>
             /\ \A i, j \in 1..Len(node[d].kids) :
                  node[node[d].kids[i]].name = node[node[d].kids[j]].name => i = j
  BY <1>1, NowParts DEF Sound, Tree, DirsOnly, Distinct
<1>4. QED BY <1>2, <1>3 DEF IsTree

\* The invariant says that the variables have their types.
LEMMA FilesTyped ==
  ASSUME FInv
  PROVE  TypeOK
<1>1. /\ Now \in States /\ Sound(Now)
      /\ node \in Seq(NodeSet) /\ fd \in [Fds -> [node : Nat, at : Nat]] /\ Len(node) \in Nat
      /\ DOMAIN node = Nodes(Now)
  <2>1. Now \in States /\ Sound(Now)
    BY DEF FInv, Sound
  <2>2. QED BY <2>1, NowParts, StateParts, FileType
<1>2. ASSUME NEW n \in DOMAIN node
      PROVE  /\ [name |-> node[n].name, dir |-> node[n].dir, kids |-> node[n].kids,
                 size |-> node[n].size] \in NodeType
             /\ node[n].data \in [0..(Cardinality(DOMAIN node[n].data) - 1) -> Byte \cup {Junk}]
  <2>1. node[n] \in NodeSet
    BY <1>1, NodeAt, NowParts
  <2>2. /\ node[n].name \in Names \cup {Empty} /\ node[n].dir \in BOOLEAN
        /\ node[n].kids \in Seq(Nat) /\ node[n].size \in Nat /\ node[n].data \in Content
    BY <2>1, NodeParts
  <2>3. [name |-> node[n].name, dir |-> node[n].dir, kids |-> node[n].kids,
         size |-> node[n].size] \in NodeType
    BY <2>2 DEF NodeType
  <2> DEFINE d == node[n].data
             c == Cardinality(DOMAIN d)
  <2>4. d \in [0..(c - 1) -> Memory]
    <3>1. DOMAIN d = 0..(c - 1) /\ \A i \in DOMAIN d : d[i] \in Memory
      BY <2>2, Capacity
    <3>2. PICK k \in Nat : d \in [0..(k - 1) -> Memory]
      BY <2>2 DEF Content
    <3> HIDE DEF d, c
    <3>3. d = [i \in DOMAIN d |-> d[i]]
      BY <3>2
    <3>4. QED BY <3>1, <3>3
  <2>5. QED BY <2>3, <2>4 DEF Memory
<1>3. fd \in [Fds -> [node : 0..Len(node), at : Nat]]
  <2>1. ASSUME NEW d \in Fds PROVE fd[d] \in [node : 0..Len(node), at : Nat]
    <3>1. fd[d] \in [node : Nat, at : Nat]
      BY <1>1
    <3>2. CASE fd[d] = Closed
      BY <1>1, <3>2 DEF Closed, Nil
    <3>3. CASE fd[d] # Closed
      <4>1. fd[d].node \in 1..Len(node)
        BY <1>1, <3>3, NowParts DEF Sound, Pointing, Nodes
      <4>2. fd[d].node \in 0..Len(node)
        BY <1>1, <4>1
      <4>3. QED BY <3>1, <4>2
    <3>4. QED BY <3>2, <3>3
  <2>2. QED BY <1>1, <2>1
<1>4. \E i \in 1..(Len(Setup) + 1) : setup = SubSeq(Setup, i, Len(Setup))
  BY DEF FInv, InSetup
<1>5. failed \in BOOLEAN /\ seen \in Seq(Byte \cup {Junk})
  BY DEF FInv, Memory
<1>6. QED BY <1>2, <1>3, <1>4, <1>5 DEF TypeOK

\* Every node but the root is in one directory's list, once, and came after it, and the
\* names in a directory are different, whatever the callers ask for.
THEOREM FilesWellFormed == ClientSpec => []WellFormed
<1>1. FInv => WellFormed
  BY TreeIsTree, FilesTyped DEF WellFormed
<1>2. QED BY <1>1, FilesInvariant, PTL

\* No read shows memory that nobody wrote: neither a file's bytes nor those before the
\* place of any descriptor are such.
THEOREM FilesNoJunk == ClientSpec => []NoJunk
<1>1. FInv => NoJunk
  BY NowParts DEF FInv, Sound, Full, NoJunk, Nodes
<1>2. QED BY <1>1, FilesInvariant, PTL

\* A shell command leaves the table of descriptors as it found it.
THEOREM CommandsClose == ClientSpec => []CommandsCloseTheirFiles
<1>1. ASSUME FInv PROVE CommandsCloseTheirFiles
  <2>1. Sound(Now) /\ \A n \in Nodes(Now) : Now.node[n].size <= MaxSize
    BY <1>1, NowParts DEF FInv, Sized, Nodes
  <2>2. Paths \subseteq PathSet /\ Lines \subseteq Seq(Seq(Byte))
    BY VfsAssumption, ClientAssumption DEF PathSet
  <2>3. ASSUME NEW path \in Paths, NEW words \in Lines
        PROVE  /\ Cat(Now, path).fd = fd
               /\ Touch(Now, path).fd = fd
               /\ Save(Now, path, {"CREAT", "TRUNC"}, words).fd = fd
    <3>1. Shows(Now, Cat(Now, path))
      BY <2>1, <2>2, CatLemma
    <3>2. Quiet(Now, Touch(Now, path))
      BY <2>1, <2>2, TouchLemma
    <3>3. Quiet(Now, Save(Now, path, {"CREAT", "TRUNC"}, words))
      BY <2>1, <2>2, SaveLemma
    <3>4. QED BY <3>1, <3>2, <3>3, NowParts DEF Shows, Quiet
  <2>4. QED BY <2>3 DEF CommandsCloseTheirFiles
<1>2. QED BY <1>1, FilesInvariant, PTL

\* A call that fails leaves everything as it was while a descriptor is free; without one it
\* has made a file, empty, or emptied one, and nothing else.
THEOREM FilesFailSafely == ClientSpec => FailuresContained
<1> DEFINE FailsContained ==
             /\ fd' = fd
             /\ \/ node' = node
                \/ /\ \A d \in Fds : fd[d] # Closed
                   /\ \/ FileBytes' = Append(FileBytes, <<>>)
                      \/ \E n \in DOMAIN node : FileBytes' = [FileBytes EXCEPT ![n] = <<>>]
<1>1. ASSUME FInv, [ClientNext]_clientVars
      PROVE  [failed' => FailsContained]_vars
  <2>1. CASE UNCHANGED clientVars
    BY <2>1 DEF clientVars
  <2>2. CASE ClientNext
    <3>1. PICK r : Becomes(r) /\ Acts(Now, r)
      BY <1>1, <2>2, StepCall
    <3>2. node' = r.node /\ fd' = r.fd /\ failed' = (r.ret = Failed)
      BY <3>1 DEF Becomes
    <3>3. SUFFICES ASSUME r.ret = Failed PROVE FailsContained
      BY <3>2
    <3>4. FileBytes = File(Now) /\ FileBytes' = File(r)
      BY <3>1, Views
    <3>5. CASE Quiet(Now, r)
      <4>1. r.fd = fd /\ Fails(Now, r)
        BY <3>3, <3>5, NowParts DEF Quiet
      <4>2. CASE r.node = node
        BY <3>2, <4>1, <4>2
      <4>3. CASE r.node # node
        <5>1. /\ FreeFds(Now) = {}
              /\ \/ FileBytes' = Append(FileBytes, <<>>)
                 \/ \E n \in 1..Len(FileBytes) : FileBytes' = [FileBytes EXCEPT ![n] = <<>>]
          BY <3>4, <4>1, <4>3, NowParts DEF Fails
        <5>2. \A d \in Fds : fd[d] # Closed
          BY <5>1, NowParts DEF FreeFds
        <5>3. DOMAIN node = 1..Len(FileBytes)
          BY <1>1, <3>4, FileType, NowParts DEF FInv, Nodes, Sound
        <5>4. QED BY <3>2, <4>1, <5>1, <5>2, <5>3
      <4>4. QED BY <4>2, <4>3
    <3>6. CASE Shows(Now, r)
      BY <3>2, <3>6, NowParts DEF Shows
    <3>7. CASE \E m, at : Opening(Now, r, m, at)
      <4>1. r.ret \in Fds
        BY <3>7 DEF Opening
      <4>2. QED BY <3>3, <4>1, VfsAssumption DEF Fds, Failed
    <3>8. CASE \E d \in Fds : \/ \E count \in Nat : \E k : Reads(Now, d, count, r, k)
                              \/ \E text \in Texts : Writes(Now, d, text, r)
                              \/ Closes(Now, d, r)
      <4>1. r.ret \in Nat
        <5>1. \A text \in Texts : Len(text) \in Nat
          BY VfsAssumption
        <5>2. \A d, count, k : Reads(Now, d, count, r, k) => r.ret \in Nat
          BY DEF Reads
        <5>3. \A d, text : Writes(Now, d, text, r) => r.ret = Len(text)
          BY DEF Writes
        <5>4. \A d : Closes(Now, d, r) => r.ret = 0
          BY DEF Closes
        <5>5. QED BY <3>8, <5>1, <5>2, <5>3, <5>4
      <4>2. QED BY <3>3, <4>1 DEF Failed
    <3>9. QED BY <3>1, <3>5, <3>6, <3>7, <3>8 DEF Acts
  <2>3. QED BY <1>1, <2>1, <2>2
<1>2. QED BY <1>1, FilesInvariant, PTL DEF ClientSpec, FailuresContained

\* What a path names, it names for ever.
THEOREM FilesPathsStay == ClientSpec => PathsStay
<1>1. ASSUME FInv, FInv', [ClientNext]_clientVars
      PROVE  [Len(node') # Len(node) =>
                \A p \in Paths : Lookup(Now, p) # Nil => Lookup(Now', p) = Lookup(Now, p)]_vars
  <2>1. CASE UNCHANGED clientVars
    BY <2>1 DEF clientVars
  <2>2. CASE ClientNext
    <3>1. PICK r : Becomes(r) /\ Acts(Now, r)
      BY <1>1, <2>2, StepCall
    <3>2. Sound(Now) /\ Sound(r) /\ Grows(Now, r)
      BY <1>1, <3>1, ActsSound DEF FInv
    <3>3. Now'.node = r.node
      BY <3>1, NowParts DEF Becomes
    <3>4. Paths \subseteq PathSet
      BY VfsAssumption DEF PathSet
    <3>5. ASSUME NEW p \in Paths, Lookup(Now, p) # Nil
          PROVE  Lookup(Now', p) = Lookup(Now, p)
      <4>1. Lookup(r, p) = Lookup(Now, p)
        BY <3>2, <3>4, <3>5, LookupKept
      <4>2. Lookup(Now', p) = Lookup(r, p)
        BY <3>3 DEF Lookup, Enter, Find
      <4>3. QED BY <4>1, <4>2
    <3>6. QED BY <3>5
  <2>3. QED BY <1>1, <2>1, <2>2
<1>2. QED BY <1>1, FilesInvariant, PTL DEF ClientSpec, PathsStay

-----------------------------------------------------------------------------
(* The refinement of OpenFiles.                                            *)

\* A quiet call makes a file, overwrites one, or does nothing.
LEMMA QuietRefines ==
  ASSUME NEW s, Sound(s), NEW r, Becomes(r), FileBytes = File(s), OpenDescs = Desc(s),
         Quiet(s, r), Seq(Byte) \subseteq Wholes
  PROVE  Contents!Next
<1>1. FileBytes' = File(r) /\ OpenDescs' = OpenDescs /\ seen' = <<>>
  <2>1. FileBytes' = File(r) /\ OpenDescs' = Desc(r) /\ seen' = r.seen
    BY Views
  <2>2. r.fd = s.fd /\ r.seen = <<>>
    BY DEF Quiet
  <2>3. Desc(r) = Desc(s)
    BY <2>2 DEF Desc
  <2>4. QED BY <2>1, <2>2, <2>3
<1>2. FileBytes \in Seq(Seq(Byte)) /\ DOMAIN FileBytes = 1..Len(FileBytes)
  <2>1. File(s) \in Seq(Seq(Byte))
    BY FileType
  <2>2. QED BY <2>1
<1>3. CASE FileBytes' = FileBytes
  BY <1>1, <1>3 DEF Contents!Next, Contents!Nothing
<1>4. CASE \E n \in 1..Len(FileBytes), x \in Seq(Byte) : FileBytes' = [FileBytes EXCEPT ![n] = x]
  <2>1. PICK n \in 1..Len(FileBytes), x \in Seq(Byte) : FileBytes' = [FileBytes EXCEPT ![n] = x]
    BY <1>4
  <2>2. Contents!Overwrite(n, x) /\ n \in Contents!Files /\ x \in Wholes
    BY <1>1, <1>2, <2>1 DEF Contents!Overwrite, Contents!Files
  <2>3. QED BY <2>2 DEF Contents!Next
<1>5. CASE \E x \in Seq(Byte) : FileBytes' = Append(FileBytes, x)
  <2>1. PICK x \in Seq(Byte) : FileBytes' = Append(FileBytes, x)
    BY <1>5
  <2>2. Contents!Make(x) /\ x \in Wholes
    BY <1>1, <2>1 DEF Contents!Make
  <2>3. QED BY <2>2 DEF Contents!Next
<1>6. Changes(FileBytes, FileBytes')
  BY <1>1 DEF Quiet
<1>7. QED BY <1>3, <1>4, <1>5, <1>6 DEF Changes

\* A command that shows a file shows it whole.
LEMMA ShowsRefines ==
  ASSUME NEW s, Sound(s), NEW r, Becomes(r), FileBytes = File(s), OpenDescs = Desc(s), Shows(s, r)
  PROVE  Contents!Next
<1>1. FileBytes' = FileBytes /\ OpenDescs' = OpenDescs /\ seen' = r.seen
  <2>1. FileBytes' = File(r) /\ OpenDescs' = Desc(r) /\ seen' = r.seen
    BY Views
  <2>2. r.fd = s.fd /\ r.node = s.node
    BY DEF Shows
  <2>3. Desc(r) = Desc(s) /\ File(r) = File(s)
    BY <2>2 DEF Desc, File
  <2>4. QED BY <2>1, <2>3
<1>2. CASE r.seen = <<>>
  BY <1>1, <1>2 DEF Contents!Next, Contents!Nothing
<1>3. CASE \E n \in Nodes(s) : r.seen = File(s)[n]
  <2>1. PICK n \in Nodes(s) : r.seen = FileBytes[n]
    BY <1>3
  <2>2. n \in Contents!Files
    BY FileType DEF Contents!Files, File
  <2>3. Contents!Show(n)
    BY <1>1, <2>1 DEF Contents!Show
  <2>4. QED BY <2>2, <2>3 DEF Contents!Next
<1>4. QED BY <1>2, <1>3 DEF Shows

\* Which descriptors are open, and what the callers see of one.
OpenSet(s) == {x \in Fds : s.fd[x] # Closed}
Entry(n, at) == [file |-> n, at |-> at]

\* The descriptors the callers see are the open ones, each with its node and its place.
LEMMA DescParts ==
  ASSUME NEW s
  PROVE  /\ DOMAIN Desc(s) = OpenSet(s)
         /\ \A d \in OpenSet(s) : Desc(s)[d] = Entry(s.fd[d].node, s.fd[d].at)
         /\ (0..(MaxFds - 1)) \ OpenSet(s) = FreeFds(s)
BY DEF Desc, FreeFds, Fds, OpenSet, Entry

\* The callers see the entry of d as p, and the others as they were.
Repoints(s, r, d, p) ==
  /\ DOMAIN Desc(r) = OpenSet(s) \cup {d} /\ Desc(r)[d] = Entry(p.node, p.at)
  /\ \A x \in OpenSet(s) : x # d => Desc(r)[x] = Desc(s)[x]

\* When one descriptor is set, it is what changes.
LEMMA DescPut ==
  ASSUME NEW s, s.fd \in [Fds -> [node : Nat, at : Nat]], NEW r, NEW d \in Fds, NEW p,
         r.fd = [s.fd EXCEPT ![d] = p], p # Closed
  PROVE  Repoints(s, r, d, p)
<1>1. r.fd[d] = p /\ \A x \in Fds : x # d => r.fd[x] = s.fd[x]
  OBVIOUS
<1>2. OpenSet(r) = OpenSet(s) \cup {d}
  BY <1>1 DEF OpenSet
<1>3. Desc(r)[d] = Entry(p.node, p.at)
  BY <1>1, <1>2, DescParts
<1>4. \A x \in OpenSet(s) : x # d => Desc(r)[x] = Desc(s)[x]
  <2>1. \A x \in OpenSet(s) : x \in Fds /\ x \in OpenSet(r)
    BY <1>2 DEF OpenSet
  <2>2. QED BY <1>1, <2>1, DescParts
<1>5. QED BY <1>2, <1>3, <1>4, DescParts DEF Repoints

\* An open gives the lowest free descriptor of a file that is there, emptied or made.
LEMMA OpeningRefines ==
  ASSUME NEW s, Sound(s), NEW r, Becomes(r), FileBytes = File(s), OpenDescs = Desc(s),
         NEW m, NEW at, Opening(s, r, m, at)
  PROVE  Contents!Next
<1> DEFINE d == r.ret
           f == FileBytes
           g == FileBytes'
           p == [node |-> m, at |-> at]
<1>1. /\ g = File(r) /\ OpenDescs' = Desc(r) /\ seen' = <<>> /\ Sound(r)
      /\ After(f, g, m) /\ d \in Fds /\ s.fd[d] = Closed /\ m \in Nodes(r)
      /\ r.fd = [s.fd EXCEPT ![d] = p] /\ d = Lowest(s) /\ FreeFds(s) # {}
      /\ r.fd[d] = p /\ r.fd[d] # Closed
      /\ at \in {0, r.node[m].size}
  BY Views DEF Opening, IsOpen
<1>2. f \in Seq(Seq(Byte)) /\ DOMAIN f = 1..Len(f) /\ Len(f) \in Nat
  <2>1. File(s) \in Seq(Seq(Byte))
    BY FileType
  <2>2. QED BY <2>1
<1>3. Len(g[m]) = r.node[m].size
  <2>1. r.node[m] \in NodeSet /\ Filled(r.node[m], r.node[m].size) /\ g[m] = Bytes(r.node[m])
    BY <1>1, NodeAt, FileType DEF Sound, Full
  <2>2. QED BY <2>1, BytesType
<1>4. s.fd \in [Fds -> [node : Nat, at : Nat]]
  BY StateParts DEF Sound
<1>5. OpenDescs' = [x \in DOMAIN OpenDescs \cup {d} |->
                      IF x = d THEN [file |-> m, at |-> at] ELSE OpenDescs[x]]
  <2> DEFINE D == Desc(s)
             E == Desc(r)
             c == Entry(m, at)
             F == [x \in DOMAIN D \cup {d} |-> IF x = d THEN c ELSE D[x]]
  <2>1. p # Closed /\ p.node = m /\ p.at = at
    BY <1>1
  <2> HIDE DEF p, d
  <2>2. /\ DOMAIN E = OpenSet(s) \cup {d} /\ E[d] = c
        /\ \A x \in OpenSet(s) : x # d => E[x] = D[x]
    <3>1. d \in Fds /\ r.fd = [s.fd EXCEPT ![d] = p]
      BY <1>1
    <3>2. Repoints(s, r, d, p)
      BY <1>4, <2>1, <3>1, DescPut
    <3>3. QED BY <2>1, <3>2 DEF Repoints
  <2>3. DOMAIN D = OpenSet(s)
    BY DescParts
  <2>4. E = [x \in DOMAIN E |-> E[x]]
    BY DEF Desc
  <2> HIDE DEF D, E, c
  <2>5. DOMAIN E = DOMAIN F /\ \A x \in DOMAIN E : E[x] = F[x]
    BY <2>2, <2>3
  <2>6. E = F
    BY <2>4, <2>5
  <2>7. OpenDescs' = E /\ OpenDescs = D
    BY <1>1 DEF D, E
  <2>8. QED BY <2>6, <2>7 DEF c, Entry
<1>6. d = CHOOSE x \in (0..(MaxFds - 1)) \ DOMAIN OpenDescs :
            \A y \in (0..(MaxFds - 1)) \ DOMAIN OpenDescs : x <= y
  <2>1. (0..(MaxFds - 1)) \ DOMAIN OpenDescs = FreeFds(s)
    BY DescParts
  <2>2. QED BY <1>1, <2>1 DEF Lowest
<1>7. IF m \in Contents!Files THEN g \in {f, [f EXCEPT ![m] = <<>>]} ELSE g = Append(f, <<>>)
  BY <1>1, <1>2 DEF After, Contents!Files
<1>8. m \in 1..(Len(f) + 1)
  BY <1>1, <1>2 DEF After
<1>9. (0..(MaxFds - 1)) \ DOMAIN OpenDescs # {}
  BY <1>1, DescParts
<1>10. at \in {0, Len(g[m])}
  BY <1>1, <1>3
<1> HIDE DEF d
<1>11. Contents!Open(m)
  BY <1>1, <1>5, <1>6, <1>7, <1>9, <1>10 DEF Contents!Open
<1>12. QED BY <1>8, <1>11 DEF Contents!Next

\* The place of a descriptor moves on, and that is all the callers see of the table.
LEMMA DescMoves ==
  ASSUME NEW s, Sound(s), NEW d, IsOpen(s, d), NEW k \in Nat, NEW r,
         r.fd = [s.fd EXCEPT ![d] = [node |-> s.fd[d].node, at |-> At(s, d) + k]]
  PROVE  Desc(r) = [Desc(s) EXCEPT ![d].at = @ + k]
<1> DEFINE m == s.fd[d].node
           a == At(s, d)
           p == [node |-> m, at |-> a + k]
           D == Desc(s)
           E == Desc(r)
           c == Entry(m, a + k)
<1>1. d \in Fds /\ m \in Nat \ {0} /\ a \in Nat /\ s.fd[d] # Closed
  BY OpenParts DEF IsOpen
<1>2. p # Closed /\ p.node = m /\ p.at = a + k
  BY <1>1, OpenIsNotClosed
<1>3. s.fd \in [Fds -> [node : Nat, at : Nat]] /\ r.fd = [s.fd EXCEPT ![d] = p]
  BY StateParts DEF Sound
<1>4. d \in OpenSet(s)
  BY <1>1 DEF OpenSet
<1>5. D[d] = Entry(m, a)
  BY <1>4, DescParts DEF At
<1> HIDE DEF p
<1>6. Repoints(s, r, d, p)
  BY <1>1, <1>2, <1>3, DescPut
<1>7. /\ DOMAIN D = OpenSet(s) /\ DOMAIN E = OpenSet(s) /\ E[d] = c
      /\ \A x \in OpenSet(s) : x # d => E[x] = D[x]
  BY <1>2, <1>4, <1>6, DescParts DEF Repoints
<1>8. D = [x \in DOMAIN D |-> D[x]] /\ E = [x \in DOMAIN E |-> E[x]]
  BY DEF Desc
<1>9. [D[d] EXCEPT !.at = @ + k] = c
  <2> HIDE DEF D, m, a
  <2>1. D[d] = [file |-> m, at |-> a]
    BY <1>5 DEF Entry
  <2>2. [D[d] EXCEPT !.at = @ + k] = [file |-> m, at |-> a + k]
    BY <2>1
  <2>3. QED BY <2>2 DEF Entry
<1> HIDE DEF D, E, c
<1>10. E = [D EXCEPT ![d] = c]
  BY <1>4, <1>7, <1>8
<1>11. [D EXCEPT ![d].at = @ + k] = [D EXCEPT ![d] = [D[d] EXCEPT !.at = @ + k]]
  OBVIOUS
<1>12. E = [D EXCEPT ![d].at = @ + k]
  BY <1>9, <1>10, <1>11
<1>13. QED BY <1>12 DEF D, E

\* A part of a sequence, of which the elements are known.
LEMMA SliceIs ==
  ASSUME NEW b \in Seq(Byte), NEW a \in Nat, NEW q \in Seq(Byte),
         Len(q) = 0 \/ a + Len(q) <= Len(b), \A i \in 1..Len(q) : q[i] = b[a + i]
  PROVE  Contents!Slice(b, a, Len(q)) = q
<1> DEFINE k == Len(q)
           l == Len(b)
           e == IF a + k < l THEN a + k ELSE l
           t == SubSeq(b, a + 1, e)
<1>1. k \in Nat /\ l \in Nat
  OBVIOUS
<1>2. Contents!Slice(b, a, k) = t
  BY DEF Contents!Slice
<1> HIDE DEF k, l
<1>3. e \in Int /\ e <= l /\ (k = 0 => e < a + 1) /\ (k # 0 => e = a + k)
  BY <1>1 DEF k, l
<1> HIDE DEF e
<1>4. \A i \in (a + 1)..e : b[i] \in Byte
  BY <1>1, <1>3 DEF l
<1>5. t \in Seq(Byte) /\ Len(t) = k /\ \A i \in 1..k : t[i] = b[a + i]
  <2>1. a + 1 \in Int
    OBVIOUS
  <2>2. /\ t \in Seq(Byte) /\ Len(t) = IF a + 1 <= e THEN e - (a + 1) + 1 ELSE 0
        /\ \A i \in 1..(e - (a + 1) + 1) : t[i] = b[a + 1 + i - 1]
    BY <1>3, <1>4, <2>1, SubSeqProperties
  <2> HIDE DEF t
  <2>3. CASE k = 0
    BY <1>1, <1>3, <2>2, <2>3
  <2>4. CASE k # 0
    <3>1. a + 1 <= e /\ e - (a + 1) + 1 = k
      BY <1>1, <1>3, <2>4
    <3>2. \A i \in 1..k : t[i] = b[a + 1 + i - 1] /\ a + 1 + i - 1 = a + i
      BY <1>1, <2>2, <3>1
    <3>3. QED BY <2>2, <3>1, <3>2
  <2>5. QED BY <2>3, <2>4
<1> HIDE DEF t
<1>6. \A i \in 1..Len(t) : t[i] = q[i]
  BY <1>5 DEF k
<1>7. t = q
  BY <1>5, <1>6, SeqEqual DEF k
<1>8. QED BY <1>2, <1>7 DEF k

\* A read shows what follows the place of the descriptor, and moves it on.
LEMMA ReadsRefines ==
  ASSUME NEW s, Sound(s), NEW r, Becomes(r), FileBytes = File(s), OpenDescs = Desc(s),
         NEW d \in Fds, IsOpen(s, d), NEW count \in Nat, NEW k, Reads(s, d, count, r, k),
         \A n \in Nodes(s) : s.node[n].size <= MaxSize
  PROVE  Contents!Next
<1> DEFINE m == s.fd[d].node
           a == At(s, d)
           n == Of(s, d)
           b == Bytes(n)
           q == r.seen
<1>1. /\ m \in Nodes(s) /\ a \in Nat /\ n \in NodeSet /\ Filled(n, n.size) /\ n = s.node[m]
      /\ n.size \in Nat /\ n.size <= MaxSize /\ MaxSize \in Nat
  BY OpenParts, VfsAssumption DEF Of
<1>2. b \in Seq(Byte) /\ Len(b) = n.size /\ FileBytes[m] = b
  BY <1>1, BytesType, FileType
<1>3. OpenDescs[d] = Entry(m, a) /\ d \in DOMAIN OpenDescs
  BY DescParts DEF IsOpen, OpenSet, At
<1>4. /\ k \in Nat /\ r.node = s.node /\ q \in Seq(Byte) /\ Len(q) = k
      /\ \A i \in 1..k : q[i] = b[a + i]
      /\ k = 0 \/ a + k <= n.size
  <2>1. /\ k \in Nat /\ r.node = s.node /\ q \in Seq(Byte) /\ Len(q) = k
        /\ \A i \in 1..k : q[i] = b[a + i]
    BY DEF Reads
  <2>2. k = IF a >= n.size THEN 0 ELSE IF a + count > n.size THEN n.size - a ELSE count
    BY DEF Reads
  <2>3. k = 0 \/ a + k <= n.size
    <3> DEFINE z == n.size
    <3>1. z \in Nat /\ a \in Nat
      BY <1>1
    <3>2. k = IF a >= z THEN 0 ELSE IF a + count > z THEN z - a ELSE count
      BY <2>2
    <3> HIDE DEF a, z
    <3>3. k = 0 \/ a + k <= z
      BY <3>1, <3>2
    <3>4. QED BY <3>3 DEF z
  <2>4. QED BY <2>1, <2>3
<1>5. Contents!Slice(b, a, k) = q
  <2> HIDE DEF b, a, q
  <2>1. Len(q) = 0 \/ a + Len(q) <= Len(b)
    BY <1>2, <1>4
  <2>2. \A i \in 1..Len(q) : q[i] = b[a + i]
    BY <1>4
  <2>3. Contents!Slice(b, a, Len(q)) = q
    BY <1>1, <1>2, <1>4, <2>1, <2>2, SliceIs
  <2>4. QED BY <1>4, <2>3
<1>6. Desc(r) = [Desc(s) EXCEPT ![d].at = @ + k]
  <2>1. r.fd = [s.fd EXCEPT ![d] = [node |-> s.fd[d].node, at |-> At(s, d) + k]]
    BY DEF Reads
  <2>2. k \in Nat
    BY <1>4
  <2>3. QED BY <2>1, <2>2, DescMoves
<1>7. /\ FileBytes' = FileBytes /\ seen' = q
      /\ OpenDescs' = [OpenDescs EXCEPT ![d].at = @ + k]
  <2>1. FileBytes' = File(r) /\ OpenDescs' = Desc(r) /\ seen' = r.seen
    BY Views
  <2>2. File(r) = File(s)
    BY <1>4 DEF File
  <2>3. QED BY <1>6, <2>1, <2>2
<1>8. k \in 0..MaxSize
  <2> DEFINE z == n.size
  <2>1. /\ a \in Nat /\ z \in Nat /\ z <= MaxSize /\ MaxSize \in Nat
        /\ k \in Nat /\ (k = 0 \/ a + k <= z)
    BY <1>1, <1>4
  <2> HIDE DEF a, z
  <2>2. QED BY <2>1
<1>9. OpenDescs[d].file = m /\ OpenDescs[d].at = a
  BY <1>3 DEF Entry
<1> HIDE DEF m, a, n, b, q
<1>10. Contents!Slice(FileBytes[OpenDescs[d].file], OpenDescs[d].at, k) = q
  BY <1>2, <1>5, <1>9
<1>11. Contents!Read(d, k)
  BY <1>4, <1>7, <1>10 DEF Contents!Read
<1>12. QED BY <1>3, <1>8, <1>11 DEF Contents!Next

\* A close makes the descriptor free, and that is all.
LEMMA ClosesRefines ==
  ASSUME NEW s, Sound(s), NEW r, Becomes(r), FileBytes = File(s), OpenDescs = Desc(s),
         NEW d \in Fds, IsOpen(s, d), Closes(s, d, r)
  PROVE  Contents!Next
<1> DEFINE D == Desc(s)
           E == Desc(r)
<1>1. /\ r.node = s.node /\ r.seen = <<>> /\ r.fd = [s.fd EXCEPT ![d] = Closed]
      /\ s.fd \in [Fds -> [node : Nat, at : Nat]]
  BY StateParts DEF Closes, Sound
<1>2. r.fd[d] = Closed /\ \A x \in Fds : x # d => r.fd[x] = s.fd[x]
  BY <1>1
<1>3. OpenSet(r) = OpenSet(s) \ {d}
  BY <1>2 DEF OpenSet
<1>4. DOMAIN D = OpenSet(s) /\ DOMAIN E = OpenSet(s) \ {d}
  BY <1>3, DescParts
<1>5. \A x \in OpenSet(s) \ {d} : E[x] = D[x]
  <2>1. \A x \in OpenSet(s) \ {d} : x \in Fds /\ x \in OpenSet(r) /\ r.fd[x] = s.fd[x]
    BY <1>2, <1>3 DEF OpenSet
  <2>2. QED BY <2>1, DescParts
<1>6. E = [x \in DOMAIN E |-> E[x]]
  BY DEF Desc
<1> HIDE DEF D, E
<1>7. E = [x \in DOMAIN D \ {d} |-> D[x]]
  BY <1>4, <1>5, <1>6
<1>8. FileBytes' = FileBytes /\ seen' = <<>> /\ OpenDescs' = E /\ OpenDescs = D
  <2>1. FileBytes' = File(r) /\ OpenDescs' = Desc(r) /\ seen' = r.seen
    BY Views
  <2>2. File(r) = File(s)
    BY <1>1 DEF File
  <2>3. QED BY <1>1, <2>1, <2>2 DEF D, E
<1>9. d \in DOMAIN OpenDescs
  BY <1>4, <1>8 DEF IsOpen, OpenSet
<1>10. Contents!Close(d)
  BY <1>7, <1>8 DEF Contents!Close
<1>11. QED BY <1>9, <1>10 DEF Contents!Next

\* c is the bytes b with the text at a place: a gap before it is filled with some bytes.
Spliced(b, at, text, c) ==
  \E fill \in [1..(IF at > Len(b) THEN at - Len(b) ELSE 0) -> Byte] :
    c = Contents!Slice(b, 0, at) \o fill \o text \o Contents!Slice(b, at + Len(text), Len(b))

\* What a write does to the bytes of its file is to splice the text in.
LEMMA WrittenBytes ==
  ASSUME NEW n \in NodeSet, NEW at \in Nat, NEW text \in Seq(Byte), NEW w,
         Filled(n, at), Filled(n, n.size), WrittenAs(n, at, text, w)
  PROVE  Spliced(Bytes(n), at, text, Bytes(w))
<1> DEFINE b == Bytes(n)
           c == Bytes(w)
           z == n.size
           l == Len(text)
           gap == IF at > z THEN at - z ELSE 0
           low == IF at < z THEN at ELSE z
           rest == IF at + l < z THEN z - (at + l) ELSE 0
           A == [i \in 1..low |-> c[i]]
           fill == [i \in 1..gap |-> c[low + i]]
           Z == [i \in 1..rest |-> c[at + l + i]]
<1>1. /\ b \in Seq(Byte) /\ Len(b) = z /\ z \in Nat /\ l \in Nat
      /\ \A i \in 1..z : b[i] = n.data[i - 1]
  BY BytesType, NodeParts DEF Bytes
<1>2. /\ w \in NodeSet /\ Filled(w, w.size) /\ w.size = IF at + l > z THEN at + l ELSE z
  BY WrittenFilled DEF WrittenAs
<1>3. c \in Seq(Byte) /\ Len(c) = w.size /\ \A i \in 1..w.size : c[i] = w.data[i - 1]
  BY <1>2, BytesType DEF Bytes
<1>4. \A i \in at..(at + l - 1) : w.data[i] = text[i - at + 1]
  BY DEF WrittenAs
<1>5. \A i \in DOMAIN n.data \ at..(at + l - 1) : w.data[i] = n.data[i]
  BY DEF WrittenAs
<1>6. \A i \in 0..(z - 1) : i \in DOMAIN n.data
  BY DEF Filled
<1> HIDE DEF b, c, z, l
<1>7. gap \in Nat /\ low \in Nat /\ rest \in Nat /\ low + gap = at /\ low <= z
  BY <1>1
<1>8. /\ w.size \in Nat /\ w.size = at + l + rest /\ low <= w.size /\ at + l <= w.size
      /\ rest # 0 => at + l + rest = z
      /\ low <= at
  BY <1>1, <1>2
<1> HIDE DEF gap, low, rest
<1>9. A \in Seq(Byte) /\ Len(A) = low /\ \A i \in 1..low : A[i] = c[i]
  <2>1. \A i \in 1..low : c[i] \in Byte
    BY <1>3, <1>7, <1>8
  <2>2. A \in [1..low -> Byte]
    BY <2>1
  <2>3. QED BY <1>7, <2>2
<1>10. fill \in [1..gap -> Byte] /\ fill \in Seq(Byte) /\ Len(fill) = gap
       /\ \A i \in 1..gap : fill[i] = c[low + i]
  <2>1. \A i \in 1..gap : low + i \in 1..w.size
    BY <1>1, <1>7, <1>8
  <2>2. \A i \in 1..gap : c[low + i] \in Byte
    BY <1>3, <2>1
  <2>3. fill \in [1..gap -> Byte]
    BY <2>2
  <2>4. QED BY <1>7, <2>3
<1>11. Z \in Seq(Byte) /\ Len(Z) = rest /\ \A i \in 1..rest : Z[i] = c[at + l + i]
  <2>1. \A i \in 1..rest : at + l + i \in 1..w.size
    BY <1>1, <1>7, <1>8
  <2>2. \A i \in 1..rest : c[at + l + i] \in Byte
    BY <1>3, <2>1
  <2>3. Z \in [1..rest -> Byte]
    BY <2>2
  <2>4. QED BY <1>7, <2>3
<1> HIDE DEF A, fill, Z
<1>12. \A i \in 1..z : (i <= at \/ i > at + l) => c[i] = b[i]
  <2>1. SUFFICES ASSUME NEW i \in 1..z, i <= at \/ i > at + l PROVE c[i] = b[i]
    OBVIOUS
  <2>2. i \in 1..w.size /\ i - 1 \in 0..(z - 1) /\ i - 1 \notin at..(at + l - 1)
    BY <1>1, <1>2, <2>1
  <2>3. QED BY <1>1, <1>3, <1>5, <1>6, <2>2
<1>13. Contents!Slice(b, 0, at) = A
  <2>1. Contents!Slice(b, 0, at) = Contents!Slice(b, 0, low)
    <3>1. (IF 0 + at < Len(b) THEN 0 + at ELSE Len(b)) = (IF 0 + low < Len(b) THEN 0 + low ELSE Len(b))
      BY <1>1 DEF low
    <3>2. QED BY <3>1 DEF Contents!Slice
  <2>2. 0 + Len(A) <= Len(b)
    BY <1>1, <1>7, <1>9
  <2>3. \A i \in 1..Len(A) : A[i] = b[0 + i]
    <3>1. SUFFICES ASSUME NEW i \in 1..low PROVE A[i] = b[0 + i]
      BY <1>9
    <3>2. i \in 1..z /\ i <= at /\ 0 + i = i
      BY <1>1, <1>7, <1>8
    <3>3. QED BY <1>9, <1>12, <3>2
  <2>4. Contents!Slice(b, 0, Len(A)) = A
    BY <1>1, <1>9, <2>2, <2>3, SliceIs
  <2>5. QED BY <1>9, <2>1, <2>4
<1>14. Contents!Slice(b, at + l, z) = Z
  <2>1. Contents!Slice(b, at + l, z) = Contents!Slice(b, at + l, rest)
    <3> DEFINE e == IF at + l + z < Len(b) THEN at + l + z ELSE Len(b)
               f == IF at + l + rest < Len(b) THEN at + l + rest ELSE Len(b)
    <3>1. Contents!Slice(b, at + l, z) = SubSeq(b, at + l + 1, e)
      BY DEF Contents!Slice
    <3>2. Contents!Slice(b, at + l, rest) = SubSeq(b, at + l + 1, f)
      BY DEF Contents!Slice
    <3>3. e = f
      BY <1>1 DEF rest
    <3> HIDE DEF e, f
    <3>4. QED BY <3>1, <3>2, <3>3
  <2>2. Len(Z) = 0 \/ at + l + Len(Z) <= Len(b)
    BY <1>1, <1>7, <1>8, <1>11
  <2>3. \A i \in 1..Len(Z) : Z[i] = b[at + l + i]
    <3>1. SUFFICES ASSUME NEW i \in 1..rest PROVE Z[i] = b[at + l + i]
      BY <1>11
    <3>2. at + l + i \in 1..z /\ at + l + i > at + l
      BY <1>1, <1>7, <1>8
    <3>3. QED BY <1>11, <1>12, <3>2
  <2> DEFINE a == at + l
  <2>4. a \in Nat
    BY <1>1
  <2> HIDE DEF a
  <2>5. Contents!Slice(b, a, Len(Z)) = Z
    BY <1>1, <1>11, <2>2, <2>3, <2>4, SliceIs DEF a
  <2>6. QED BY <1>11, <2>1, <2>5 DEF a
<1> DEFINE X == A \o fill
           Y == X \o text
           V == Y \o Z
<1>15. X \in Seq(Byte) /\ Len(X) = at /\ \A i \in 1..at : X[i] = c[i]
  <2>0. A \in Seq(Byte) /\ fill \in Seq(Byte) /\ Len(A) = low /\ Len(fill) = gap
    BY <1>9, <1>10
  <2>1. /\ X \in Seq(Byte) /\ Len(X) = low + gap
        /\ \A i \in 1..(low + gap) : X[i] = IF i <= low THEN A[i] ELSE fill[i - low]
    BY <2>0, ConcatProperties
  <2> HIDE DEF X
  <2>2. ASSUME NEW i \in 1..at PROVE X[i] = c[i]
    <3>1. CASE i <= low
      <4>1. i \in 1..low /\ X[i] = A[i]
        BY <1>7, <2>1, <3>1
      <4>2. QED BY <1>9, <4>1
    <3>2. CASE ~(i <= low)
      <4>1. i - low \in 1..gap /\ low + (i - low) = i /\ X[i] = fill[i - low]
        BY <1>7, <2>1, <3>2
      <4>2. QED BY <1>10, <4>1
    <3>3. QED BY <3>1, <3>2
  <2>3. QED BY <1>7, <2>1, <2>2
<1>16. Y \in Seq(Byte) /\ Len(Y) = at + l /\ \A i \in 1..(at + l) : Y[i] = c[i]
  <2> HIDE DEF X
  <2>1. /\ Y \in Seq(Byte) /\ Len(Y) = at + l
        /\ \A i \in 1..(at + l) : Y[i] = IF i <= at THEN X[i] ELSE text[i - at]
    BY <1>15, ConcatProperties DEF l
  <2> HIDE DEF Y
  <2>2. ASSUME NEW i \in 1..(at + l) PROVE Y[i] = c[i]
    <3>1. CASE i <= at
      <4>1. i \in 1..at /\ Y[i] = X[i]
        BY <2>1, <3>1
      <4>2. QED BY <1>15, <4>1
    <3>2. CASE ~(i <= at)
      <4>1. i - 1 \in at..(at + l - 1) /\ (i - 1) - at + 1 = i - at /\ Y[i] = text[i - at]
        BY <1>1, <2>1, <3>2
      <4>2. w.data[i - 1] = text[i - at]
        BY <1>4, <4>1
      <4>3. i \in 1..w.size
        BY <1>1, <1>8
      <4>4. QED BY <1>3, <4>1, <4>2, <4>3
    <3>3. QED BY <3>1, <3>2
  <2>3. QED BY <2>1, <2>2
<1>17. V \in Seq(Byte) /\ Len(V) = w.size /\ \A i \in 1..w.size : V[i] = c[i]
  <2> HIDE DEF Y
  <2>0. Y \in Seq(Byte) /\ Z \in Seq(Byte) /\ Len(Y) = at + l /\ Len(Z) = rest
    BY <1>11, <1>16
  <2> DEFINE y == at + l
  <2>01. Len(Y) = y
    BY <2>0
  <2>02. /\ V \in Seq(Byte) /\ Len(V) = Len(Y) + Len(Z)
         /\ \A i \in 1..(Len(Y) + Len(Z)) : V[i] = IF i <= Len(Y) THEN Y[i] ELSE Z[i - Len(Y)]
    BY <2>0, ConcatProperties
  <2> HIDE DEF V, y
  <2>03. /\ V \in Seq(Byte) /\ Len(V) = y + rest
         /\ \A i \in 1..(y + rest) : V[i] = IF i <= y THEN Y[i] ELSE Z[i - y]
    BY <2>0, <2>01, <2>02
  <2>1. /\ V \in Seq(Byte) /\ Len(V) = at + l + rest
        /\ \A i \in 1..(at + l + rest) : V[i] = IF i <= at + l THEN Y[i] ELSE Z[i - (at + l)]
    BY <2>03 DEF y
  <2> HIDE DEF V
  <2>2. ASSUME NEW i \in 1..w.size PROVE V[i] = c[i]
    <3>1. i \in 1..(at + l + rest)
      BY <1>8
    <3>2. CASE i <= at + l
      <4>1. i \in 1..(at + l) /\ V[i] = Y[i]
        BY <1>1, <2>1, <3>1, <3>2
      <4>2. QED BY <1>16, <4>1
    <3>3. CASE ~(i <= at + l)
      <4>1. i - (at + l) \in 1..rest /\ at + l + (i - (at + l)) = i /\ V[i] = Z[i - (at + l)]
        BY <1>1, <1>7, <2>1, <3>1, <3>3
      <4>2. QED BY <1>11, <4>1
    <3>4. QED BY <3>2, <3>3
  <2>3. QED BY <1>8, <2>1, <2>2
<1>18. c = V
  <2> HIDE DEF V
  <2>1. Len(c) = Len(V) /\ \A i \in 1..Len(c) : c[i] = V[i]
    BY <1>3, <1>17
  <2>2. QED BY <1>3, <1>17, <2>1, SeqEqual
<1>19. c = Contents!Slice(b, 0, at) \o fill \o text \o Contents!Slice(b, at + l, Len(b))
  BY <1>1, <1>13, <1>14, <1>18
<1>20. fill \in [1..(IF at > Len(b) THEN at - Len(b) ELSE 0) -> Byte]
  BY <1>1, <1>10 DEF gap
<1>21. QED BY <1>19, <1>20 DEF b, c, l, Spliced

\* A write puts the text at the place of the descriptor, and moves it on.
LEMMA WritesRefines ==
  ASSUME NEW s, Sound(s), NEW r, Becomes(r), FileBytes = File(s), OpenDescs = Desc(s),
         NEW d \in Fds, IsOpen(s, d), NEW text \in Texts, Writes(s, d, text, r), Sound(r)
  PROVE  Contents!Next
<1> DEFINE m == s.fd[d].node
           a == At(s, d)
           n == Of(s, d)
           b == Bytes(n)
           l == Len(text)
<1>1. /\ m \in Nodes(s) /\ a \in Nat /\ n \in NodeSet /\ Filled(n, a) /\ Filled(n, n.size)
      /\ n = s.node[m]
  BY OpenParts DEF Of
<1>2. text \in Seq(Byte) /\ l \in Nat
  BY VfsAssumption
<1>3. FileBytes[m] = b
  BY <1>1, FileType
<1>4. OpenDescs[d] = Entry(m, a) /\ d \in DOMAIN OpenDescs
  BY DescParts DEF IsOpen, OpenSet, At
<1>5. OpenDescs[d].file = m /\ OpenDescs[d].at = a
  BY <1>4 DEF Entry
<1>6. PICK w : WrittenAs(n, a, text, w) /\ Rewrites(s, r, m, w)
  BY DEF Writes
<1>7. FileBytes' = [FileBytes EXCEPT ![m] = Bytes(w)] /\ OpenDescs' = Desc(r) /\ seen' = <<>>
  <2>1. FileBytes' = File(r) /\ OpenDescs' = Desc(r) /\ seen' = r.seen
    BY Views
  <2>2. File(r) = [File(s) EXCEPT ![m] = Bytes(w)]
    BY <1>6, RewritesFile
  <2>3. r.seen = <<>>
    BY DEF Writes
  <2>4. QED BY <2>1, <2>2, <2>3
<1>8. OpenDescs' = [OpenDescs EXCEPT ![d].at = @ + l]
  <2>1. r.fd = [s.fd EXCEPT ![d] = [node |-> s.fd[d].node, at |-> At(s, d) + l]]
    BY DEF Writes
  <2>2. l \in Nat
    BY <1>2
  <2> HIDE DEF l
  <2>3. Desc(r) = [Desc(s) EXCEPT ![d].at = @ + l]
    BY <2>1, <2>2, DescMoves
  <2>4. QED BY <1>7, <2>3
<1>9. Spliced(b, a, text, Bytes(w))
  BY <1>1, <1>2, <1>6, WrittenBytes
<1> HIDE DEF m, a, n, b
<1>10. Contents!Write(d, text)
  <2> DEFINE f == OpenDescs[d]
             old == FileBytes[f.file]
             gap == IF f.at > Len(old) THEN f.at - Len(old) ELSE 0
  <2>0. PICK fill \in [1..(IF a > Len(b) THEN a - Len(b) ELSE 0) -> Byte] :
          Bytes(w) = Contents!Slice(b, 0, a) \o fill \o text
                     \o Contents!Slice(b, a + Len(text), Len(b))
    BY <1>9 DEF Spliced
  <2>1. f.file = m /\ f.at = a /\ old = b
    BY <1>3, <1>5
  <2>2. fill \in [1..gap -> Byte]
    BY <2>0, <2>1
  <2>3. FileBytes' = [FileBytes EXCEPT ![f.file] =
           Contents!Slice(old, 0, f.at) \o fill \o text
           \o Contents!Slice(old, f.at + Len(text), Len(old))]
    BY <1>7, <2>0, <2>1
  <2>4. QED BY <1>7, <1>8, <2>2, <2>3 DEF Contents!Write
<1>11. QED BY <1>4, <1>10 DEF Contents!Next

\* Every call is one the contents promise.
LEMMA ActsRefine ==
  ASSUME NEW s, Sound(s), NEW r, Becomes(r), FileBytes = File(s), OpenDescs = Desc(s),
         Acts(s, r), \A n \in Nodes(s) : s.node[n].size <= MaxSize, Seq(Byte) \subseteq Wholes
  PROVE  Contents!Next
<1>1. CASE Quiet(s, r)
  BY <1>1, QuietRefines
<1>2. CASE Shows(s, r)
  BY <1>2, ShowsRefines
<1>3. CASE \E m, at : Opening(s, r, m, at)
  <2>1. PICK m, at : Opening(s, r, m, at)
    BY <1>3
  <2>2. QED BY <2>1, OpeningRefines
<1>4. ASSUME Sound(r), NEW d \in Fds, IsOpen(s, d),
             \/ \E count \in Nat : \E k : Reads(s, d, count, r, k)
             \/ \E text \in Texts : Writes(s, d, text, r)
             \/ Closes(s, d, r)
      PROVE  Contents!Next
  <2>1. CASE \E count \in Nat : \E k : Reads(s, d, count, r, k)
    <3>1. PICK count \in Nat : \E k : Reads(s, d, count, r, k)
      BY <2>1
    <3>2. PICK k : Reads(s, d, count, r, k)
      BY <3>1
    <3>3. QED BY <1>4, <3>2, ReadsRefines
  <2>2. CASE \E text \in Texts : Writes(s, d, text, r)
    <3>1. PICK text \in Texts : Writes(s, d, text, r)
      BY <2>2
    <3>2. QED BY <1>4, <3>1, WritesRefines
  <2>3. CASE Closes(s, d, r)
    BY <1>4, <2>3, ClosesRefines
  <2>4. QED BY <1>4, <2>1, <2>2, <2>3
<1>5. QED BY <1>1, <1>2, <1>3, <1>4 DEF Acts

\* At the start there is the root, which holds nothing, and nothing is open.
LEMMA ContentsInit ==
  ASSUME ClientInit
  PROVE  Contents!Init
<1>1. /\ node = <<NewNode(Empty, TRUE)>> /\ fd = [d \in Fds |-> Closed] /\ seen = <<>>
  BY DEF ClientInit, Init
<1> DEFINE n == NewNode(Empty, TRUE)
<1>2. n.size = 0
  BY NewNodeFresh DEF Fresh
<1>3. node = <<n>>
  BY <1>1
<1> HIDE DEF n
<1>4. Len(node) = 1 /\ DOMAIN node = 1..1 /\ node[1] = n
  BY <1>3
<1>5. FileBytes = [x \in 1..1 |-> <<>>]
  <2>1. \A x \in 1..1 : [i \in 1..node[x].size |-> node[x].data[i - 1]] = <<>>
    <3>1. SUFFICES ASSUME NEW x \in 1..1
                   PROVE  [i \in 1..node[x].size |-> node[x].data[i - 1]] = <<>>
      OBVIOUS
    <3>2. node[x].size = 0
      BY <1>2, <1>4
    <3>3. 1..node[x].size = {}
      BY <3>2
    <3>4. QED BY <3>3
  <2>2. QED BY <1>4, <2>1 DEF FileBytes
<1>6. FileBytes = << <<>> >>
  BY <1>5
<1>7. OpenDescs = [d \in {} |-> 0]
  <2>1. {d \in Fds : fd[d] # Closed} = {}
    BY <1>1
  <2>2. QED BY <2>1 DEF OpenDescs
<1>8. QED BY <1>1, <1>6, <1>7 DEF Contents!Init

\* Files keep their contents: what the callers see of the files and the descriptors, they
\* would see of sequences of bytes and places in them.
THEOREM FilesKeepContents ==
  ASSUME Seq(Byte) \subseteq Wholes
  PROVE  ClientSpec => KeepsContents
<1>1. ClientInit => Contents!Init
  BY ContentsInit
<1>2. ASSUME FInv, [ClientNext]_clientVars PROVE [Contents!Next]_Contents!vars
  <2>1. CASE UNCHANGED clientVars
    <3>1. node' = node /\ fd' = fd /\ seen' = seen
      BY <2>1 DEF clientVars, vars
    <3>2. FileBytes' = FileBytes /\ OpenDescs' = OpenDescs
      BY <3>1 DEF FileBytes, OpenDescs
    <3>3. QED BY <3>1, <3>2 DEF Contents!vars
  <2>2. CASE ClientNext
    <3>1. PICK r : Becomes(r) /\ Acts(Now, r)
      BY <1>2, <2>2, StepCall
    <3>2. Sound(Now) /\ \A n \in Nodes(Now) : Now.node[n].size <= MaxSize
      BY <1>2, NowParts DEF FInv, Sized, Nodes
    <3>3. FileBytes = File(Now) /\ OpenDescs = Desc(Now)
      BY <3>1, Views
    <3>4. Contents!Next
      BY <3>1, <3>2, <3>3, ActsRefine
    <3>5. QED BY <3>4
  <2>3. QED BY <1>2, <2>1, <2>2
<1>3. QED BY <1>1, <1>2, FilesInvariant, PTL DEF ClientSpec, KeepsContents, Contents!Spec
================================================================================
