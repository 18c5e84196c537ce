----------------------------- MODULE VmmProofs ------------------------------
(***************************************************************************)
(* Proofs about module Vmm: the tables that are made on the way to a page  *)
(* are those of a tree, in which the page is found and no other is lost,   *)
(* for every number of levels and every size of the tables.                *)
(***************************************************************************)
EXTENDS Vmm, NumberLemmas

-----------------------------------------------------------------------------
(* The indexes of a page.                                                  *)

\* An entry covers as many pages as the table it leads to has entries, times what these cover.
LEMMA ReachDef ==
  /\ Reach[0] = 1
  /\ \A k \in 1..Levels : Reach[k] = TableSpan * Reach[k - 1]
  /\ \A k \in 0..Levels : Reach[k] \in Nat \ {0}
<1> DEFINE N == Nat \ {0}
           g == [x \in (1..Levels) \X N |-> TableSpan * x[2]]
<1>1. Levels \in Nat \ {0} /\ TableSpan \in N
  BY PagingAssumption
<1>2. g \in [(1..Levels) \X N -> N]
  BY <1>1
<1>3. PICK f \in [0..Levels -> N] : Follows(f, Levels, 1, g)
  <2>1. 1 \in N /\ Levels \in Nat
    BY <1>1
  <2> HIDE DEF N, g
  <2>2. QED BY <1>2, <2>1, RecursionExists
<1>4. f[0] = 1 /\ \A k \in 1..Levels : f[k] = TableSpan * f[k - 1]
  <2>1. f[0] = 1 /\ \A k \in 1..Levels : f[k] = g[<<k, f[k - 1]>>]
    BY <1>3 DEF Follows
  <2>2. \A k \in 1..Levels : k - 1 \in 0..Levels
    BY <1>1
  <2>3. \A k \in 1..Levels, n \in N : g[<<k, n>>] = TableSpan * n
    OBVIOUS
  <2> HIDE DEF g, N
  <2>4. QED BY <2>1, <2>2, <2>3
<1>5. f = [k \in 0..Levels |-> IF k = 0 THEN 1 ELSE TableSpan * f[k - 1]]
  BY <1>1, <1>3, <1>4
<1>6. Reach = [k \in 0..Levels |-> IF k = 0 THEN 1 ELSE TableSpan * Reach[k - 1]]
  <2> DEFINE P(w) == w = [k \in 0..Levels |-> IF k = 0 THEN 1 ELSE TableSpan * w[k - 1]]
  <2>1. Reach = CHOOSE w : P(w)
    BY DEF Reach
  <2>2. P(f)
    BY <1>5
  <2> HIDE DEF P
  <2>3. P(Reach)
    BY <2>1, <2>2
  <2>4. QED BY <2>3 DEF P
<1>7. Reach[0] = 1 /\ \A k \in 1..Levels : Reach[k] = TableSpan * Reach[k - 1]
  BY <1>1, <1>6
<1> DEFINE T == {k \in 0..Levels : Reach[k] \in N}
<1>8. 0 \in T
  BY <1>1, <1>7
<1>9. \A k \in 1..Levels : k - 1 \in T => k \in T
  <2>1. SUFFICES ASSUME NEW k \in 1..Levels, Reach[k - 1] \in N PROVE k \in T
    OBVIOUS
  <2>2. k \in 0..Levels /\ Reach[k] = TableSpan * Reach[k - 1]
    BY <1>1, <1>7
  <2>3. TableSpan * Reach[k - 1] \in N
    BY <1>1, <2>1
  <2>4. QED BY <2>2, <2>3
<1>10. 0..Levels \subseteq T
  <2> HIDE DEF T
  <2>1. QED BY <1>1, <1>8, <1>9, Induction
<1>11. QED BY <1>7, <1>10

\* The pages, and the number the first l indexes of a page make.
Pages == 0..(Reach[Levels] - 1)
Prefix(page, l) == page \div Reach[Levels - l]

\* A number divided by a product.
LEMMA DivisionTwice ==
  ASSUME NEW n \in Nat, NEW r \in Nat \ {0}, NEW s \in Nat \ {0}
  PROVE  n \div (s * r) = (n \div r) \div s
<1> DEFINE q == n \div r
           a == n % r
           p == q \div s
           b == q % s
<1>1. q \in Nat /\ a \in 0..(r - 1) /\ n = r * q + a
  BY Division
<1> HIDE DEF q, a
<1>2. p \in Nat /\ b \in 0..(s - 1) /\ q = s * p + b
  BY <1>1, Division
<1> HIDE DEF p, b
<1>3. r * q = r * (s * p) + r * b
  BY <1>2
<1>4. r * (s * p) = (s * r) * p /\ s * r \in Nat \ {0} /\ r * b \in Nat
  BY <1>2
<1>5. r * b <= r * (s - 1)
  BY <1>2
<1>6. r * (s - 1) = s * r - r
  OBVIOUS
<1>7. r * b + a \in 0..(s * r - 1)
  BY <1>1, <1>4, <1>5, <1>6
<1>8. n = (s * r) * p + (r * b + a)
  BY <1>1, <1>2, <1>3, <1>4
<1>9. n \div (s * r) = p
  <2> DEFINE m == s * r
             c == r * b + a
  <2>1. m \in Nat \ {0} /\ c \in 0..(m - 1) /\ n = m * p + c
    BY <1>4, <1>7, <1>8
  <2> HIDE DEF m, c
  <2>2. n \div m = p
    BY <1>2, <2>1, DivisionUnique
  <2>3. QED BY <2>2 DEF m
<1>10. QED BY <1>9 DEF p, q

\* The indexes of a page are the digits of its number.
LEMMA Digits ==
  ASSUME NEW page \in Pages
  PROVE  /\ Prefix(page, 0) = 0 /\ Prefix(page, Levels) = page
         /\ \A l \in 1..Levels :
              /\ Index(page, l) \in Nat
              /\ Prefix(page, l) = TableSpan * Prefix(page, l - 1) + Index(page, l)
<1>1. Levels \in Nat \ {0} /\ TableSpan \in Nat \ {0} /\ page \in Nat /\ page < Reach[Levels]
  BY PagingAssumption, ReachDef DEF Pages
<1>2. Prefix(page, 0) = 0
  <2>1. Reach[Levels] \in Nat \ {0} /\ Levels - 0 = Levels
    BY <1>1, ReachDef
  <2>2. page = Reach[Levels] * 0 + page /\ page \in 0..(Reach[Levels] - 1)
    BY <1>1, <2>1
  <2>3. page \div Reach[Levels] = 0
    BY <1>1, <2>1, <2>2, DivisionUnique
  <2>4. QED BY <2>1, <2>3 DEF Prefix
<1>3. Prefix(page, Levels) = page
  <2>1. Levels - Levels = 0 /\ page \div 1 = page
    BY <1>1
  <2>2. QED BY <2>1, ReachDef DEF Prefix
<1>4. ASSUME NEW l \in 1..Levels
      PROVE  /\ Index(page, l) \in Nat
             /\ Prefix(page, l) = TableSpan * Prefix(page, l - 1) + Index(page, l)
  <2> DEFINE r == Reach[Levels - l]
             q == page \div r
  <2>1. /\ Levels - l \in 0..Levels /\ Levels - (l - 1) \in 1..Levels
        /\ (Levels - (l - 1)) - 1 = Levels - l
    BY <1>1
  <2>2. r \in Nat \ {0} /\ Reach[Levels - (l - 1)] = TableSpan * r
    BY <2>1, ReachDef
  <2> HIDE DEF r
  <2>3. Prefix(page, l - 1) = q \div TableSpan
    <3>1. page \div (TableSpan * r) = q \div TableSpan
      BY <1>1, <2>2, DivisionTwice
    <3>2. QED BY <2>2, <3>1 DEF Prefix
  <2>4. q \in Nat
    BY <1>1, <2>2, Division
  <2>5. Prefix(page, l) = q /\ Index(page, l) = q % TableSpan
    BY DEF Prefix, Index, r, q
  <2> HIDE DEF q
  <2>6. q % TableSpan \in Nat /\ q = TableSpan * (q \div TableSpan) + (q % TableSpan)
    BY <1>1, <2>4, Division
  <2>7. QED BY <2>3, <2>5, <2>6
<1>5. QED BY <1>2, <1>3, <1>4

-----------------------------------------------------------------------------
(* The way through the tables to a page.                                   *)

\* Entries lead to frames.
Entries == UNION {[E -> Nat \ {NoFrame}] : E \in SUBSET (Int \X Nat)}

\* The entry that is looked at in a table, and where it leads.
Looked(e, table, i) == IF <<table, i>> \in DOMAIN e THEN e[<<table, i>>] ELSE NoFrame

\* The tables on the way to a page, the last one being its frame.
Path(e, page) ==
  CHOOSE f : f = [l \in 0..Levels |->
                    IF l = 0 THEN Root ELSE Looked(e, f[l - 1], Index(page, l))]

\* An entry's type, without the sets.
LEMMA EntriesType ==
  ASSUME NEW e
  PROVE  e \in Entries <=>
           /\ e = [x \in DOMAIN e |-> e[x]]
           /\ DOMAIN e \subseteq Int \X Nat
           /\ \A x \in DOMAIN e : e[x] \in Nat \ {NoFrame}
BY DEF Entries

\* What the processor sees is the end of the way.
LEMMA PathDef ==
  ASSUME NEW e \in Entries, NEW page \in Pages
  PROVE  /\ Path(e, page)[0] = Root
         /\ \A l \in 1..Levels :
              Path(e, page)[l] = Looked(e, Path(e, page)[l - 1], Index(page, l))
         /\ \A l \in 0..Levels : Path(e, page)[l] \in Int
         /\ Translate(e, page) = Path(e, page)[Levels]
<1> DEFINE P(w) == w = [l \in 0..Levels |-> IF l = 0 THEN Root ELSE Looked(e, w[l - 1], Index(page, l))]
           g == [x \in (1..Levels) \X Int |-> Looked(e, x[2], Index(page, x[1]))]
           p == Path(e, page)
<1>1. Levels \in Nat \ {0} /\ Root \in Int
  BY PagingAssumption DEF Root
<1>2. \A t \in Int : \A i : Looked(e, t, i) \in Int
  BY EntriesType DEF Looked, NoFrame
<1>3. g \in [(1..Levels) \X Int -> Int]
  BY <1>2
<1>4. \E f \in [0..Levels -> Int] : P(f)
  <2>1. PICK f \in [0..Levels -> Int] : Follows(f, Levels, Root, g)
    <3> HIDE DEF g
    <3>1. QED BY <1>1, <1>3, RecursionExists
  <2>2. f[0] = Root /\ \A l \in 1..Levels : f[l] = g[<<l, f[l - 1]>>]
    BY <2>1 DEF Follows
  <2>3. \A l \in 1..Levels, t \in Int : g[<<l, t>>] = Looked(e, t, Index(page, l))
    OBVIOUS
  <2>4. \A l \in 1..Levels : f[l - 1] \in Int
    BY <1>1
  <2> HIDE DEF g
  <2>5. \A l \in 1..Levels : f[l] = Looked(e, f[l - 1], Index(page, l))
    BY <2>2, <2>3, <2>4
  <2>6. P(f)
    BY <1>1, <2>2, <2>5
  <2>7. QED BY <2>6
<1>5. p = CHOOSE w : P(w)
  BY DEF Path
<1>6. P(p)
  <2> HIDE DEF P, p
  <2>1. QED BY <1>4, <1>5
<1>7. Translate(e, page) = p[Levels]
  BY DEF Translate, Path, Looked
<1> HIDE DEF p
<1>8. /\ p[0] = Root
      /\ \A l \in 1..Levels : p[l] = Looked(e, p[l - 1], Index(page, l))
  BY <1>1, <1>6
<1> HIDE DEF P, g
<1>9. \A l \in 0..Levels : p[l] \in Int
  <2> DEFINE T == {l \in 0..Levels : p[l] \in Int}
  <2>1. 0 \in T
    BY <1>1, <1>8
  <2>2. \A l \in 1..Levels : l - 1 \in T => l \in T
    BY <1>1, <1>2, <1>8
  <2>3. 0..Levels \subseteq T
    <3> HIDE DEF T
    <3>1. QED BY <1>1, <2>1, <2>2, Induction
  <2>4. QED BY <2>3
<1>10. QED BY <1>7, <1>8, <1>9 DEF p

-----------------------------------------------------------------------------
(* The tree.  S are pairs of a page and a level: the entries there are.    *)

\* The entry on the way to a page at a level.
Slot(e, page, l) == <<Path(e, page)[l - 1], Index(page, l)>>

Tree(e, S) ==
  /\ e \in Entries
  /\ S \subseteq Pages \X (1..Levels)
  /\ \A x, y \in DOMAIN e : e[x] = e[y] => x = y
  /\ \A x \in DOMAIN e : \E z \in S : x = Slot(e, z[1], z[2])
  /\ \A z \in S : /\ Path(e, z[1])[z[2]] # NoFrame
                  /\ z[2] > 1 => <<z[1], z[2] - 1>> \in S

\* No entry lies in the frame that is none.
LEMMA NoEntryOfNone ==
  ASSUME NEW e, NEW S, Tree(e, S), NEW i
  PROVE  <<NoFrame, i>> \notin DOMAIN e
<1>1. SUFFICES ASSUME <<NoFrame, i>> \in DOMAIN e PROVE FALSE
  OBVIOUS
<1>2. PICK z \in S : <<NoFrame, i>> = Slot(e, z[1], z[2])
  BY <1>1 DEF Tree
<1>3. z[1] \in Pages /\ z[2] \in 1..Levels /\ Path(e, z[1])[z[2] - 1] = NoFrame
  BY <1>2 DEF Tree, Slot
<1>4. z[2] # 1
  BY <1>3, PathDef DEF Tree, Root, NoFrame
<1>5. <<z[1], z[2] - 1>> \in S
  BY <1>3, <1>4 DEF Tree
<1>6. Path(e, z[1])[z[2] - 1] # NoFrame
  BY <1>5 DEF Tree
<1>7. QED BY <1>3, <1>6

\* Where the way goes on, there is an entry, which leads to a frame.
LEMMA PathStep ==
  ASSUME NEW e, NEW S, Tree(e, S), NEW page \in Pages, NEW l \in 1..Levels
  PROVE  /\ Path(e, page)[l] # NoFrame <=> Slot(e, page, l) \in DOMAIN e
         /\ Path(e, page)[l] # NoFrame => /\ Path(e, page)[l] = e[Slot(e, page, l)]
                                          /\ Path(e, page)[l] # Root
                                          /\ Path(e, page)[l - 1] # NoFrame
<1>1. e \in Entries
  BY DEF Tree
<1>2. Path(e, page)[l] = Looked(e, Path(e, page)[l - 1], Index(page, l))
  BY <1>1, PathDef
<1>3. \A x \in DOMAIN e : e[x] \in Nat \ {NoFrame}
  BY <1>1, EntriesType
<1>4. Path(e, page)[l - 1] = NoFrame => Slot(e, page, l) \notin DOMAIN e
  BY NoEntryOfNone DEF Slot
<1>5. QED BY <1>2, <1>3, <1>4 DEF Looked, Slot, Root, NoFrame

\* Two ways that meet are one way.
LEMMA PathUnique ==
  ASSUME NEW e, NEW S, Tree(e, S)
  PROVE  \A l \in 0..Levels : \A p, q \in Pages, k \in 0..Levels :
           Path(e, p)[l] = Path(e, q)[k] /\ Path(e, p)[l] # NoFrame =>
             l = k /\ Prefix(p, l) = Prefix(q, k)
<1> DEFINE Good(l) == \A p, q \in Pages, k \in 0..Levels :
             Path(e, p)[l] = Path(e, q)[k] /\ Path(e, p)[l] # NoFrame =>
               l = k /\ Prefix(p, l) = Prefix(q, k)
           T == {l \in 0..Levels : Good(l)}
<1>1. Levels \in Nat \ {0} /\ e \in Entries
  BY PagingAssumption DEF Tree
<1>2. \A p \in Pages : Path(e, p)[0] = Root /\ Prefix(p, 0) = 0
  BY <1>1, PathDef, Digits
<1>3. Good(0)
  <2>1. SUFFICES ASSUME NEW p \in Pages, NEW q \in Pages, NEW k \in 0..Levels,
                        Path(e, q)[k] = Root
                 PROVE  k = 0
    BY <1>2
  <2>2. SUFFICES ASSUME k \in 1..Levels PROVE FALSE
    BY <1>1
  <2>3. Path(e, q)[k] # Root
    BY <2>1, <2>2, PathStep DEF Root, NoFrame
  <2>4. QED BY <2>1, <2>3
<1>4. ASSUME NEW l \in 1..Levels, Good(l - 1)
      PROVE  Good(l)
  <2>1. SUFFICES ASSUME NEW p \in Pages, NEW q \in Pages, NEW k \in 0..Levels,
                        Path(e, p)[l] = Path(e, q)[k], Path(e, p)[l] # NoFrame
                 PROVE  l = k /\ Prefix(p, l) = Prefix(q, k)
    OBVIOUS
  <2>2. /\ Slot(e, p, l) \in DOMAIN e /\ Path(e, p)[l] = e[Slot(e, p, l)]
        /\ Path(e, p)[l] # Root /\ Path(e, p)[l - 1] # NoFrame
    BY <2>1, PathStep
  <2>3. k \in 1..Levels
    <3>1. Path(e, q)[0] = Root
      BY <1>2
    <3>2. k # 0
      BY <2>1, <2>2, <3>1
    <3>3. QED BY <1>1, <3>2
  <2>4. Slot(e, q, k) \in DOMAIN e /\ Path(e, q)[k] = e[Slot(e, q, k)]
    BY <2>1, <2>3, PathStep
  <2>5. Slot(e, p, l) = Slot(e, q, k)
    BY <2>1, <2>2, <2>4 DEF Tree
  <2>6. Path(e, p)[l - 1] = Path(e, q)[k - 1] /\ Index(p, l) = Index(q, k)
    BY <2>5 DEF Slot
  <2>7. l - 1 = k - 1 /\ Prefix(p, l - 1) = Prefix(q, k - 1)
    <3>1. k - 1 \in 0..Levels
      BY <1>1, <2>3
    <3>2. QED BY <1>4, <2>2, <2>6, <3>1
  <2>8. /\ Prefix(p, l) = TableSpan * Prefix(p, l - 1) + Index(p, l)
        /\ Prefix(q, k) = TableSpan * Prefix(q, k - 1) + Index(q, k)
    BY <2>3, Digits
  <2>9. QED BY <2>3, <2>6, <2>7, <2>8
<1> HIDE DEF Good
<1>5. 0 \in T /\ \A l \in 1..Levels : l - 1 \in T => l \in T
  BY <1>1, <1>3, <1>4
<1> HIDE DEF T
<1>6. 0..Levels \subseteq T
  BY <1>1, <1>5, Induction
<1>7. \A l \in 0..Levels : Good(l)
  BY <1>6 DEF T
<1>8. QED BY <1>7 DEF Good

\* An entry on the way to a page is one of the tree.
LEMMA InTree ==
  ASSUME NEW e, NEW S, Tree(e, S), NEW page \in Pages, NEW l \in 1..Levels,
         Slot(e, page, l) \in DOMAIN e
  PROVE  \E q \in Pages : <<q, l>> \in S /\ Prefix(q, l) = Prefix(page, l)
<1>1. Levels \in Nat \ {0}
  BY PagingAssumption
<1>2. PICK z \in S : Slot(e, page, l) = Slot(e, z[1], z[2])
  BY DEF Tree
<1> DEFINE q == z[1]
           k == z[2]
<1>3. q \in Pages /\ k \in 1..Levels /\ z = <<q, k>>
  BY DEF Tree
<1> HIDE DEF q, k
<1>4. Slot(e, page, l) = Slot(e, q, k)
  BY <1>2 DEF q, k
<1>5. Path(e, page)[l - 1] = Path(e, q)[k - 1] /\ Index(page, l) = Index(q, k)
  BY <1>4 DEF Slot
<1>6. Path(e, page)[l - 1] # NoFrame
  BY PathStep
<1>7. l - 1 \in 0..Levels /\ k - 1 \in 0..Levels
  BY <1>1, <1>3
<1>8. l - 1 = k - 1 /\ Prefix(page, l - 1) = Prefix(q, k - 1)
  BY <1>3, <1>5, <1>6, <1>7, PathUnique
<1>9. l = k
  BY <1>1, <1>3, <1>8
<1>10. Prefix(page, l) = Prefix(q, l)
  <2>1. /\ Prefix(page, l) = TableSpan * Prefix(page, l - 1) + Index(page, l)
        /\ Prefix(q, l) = TableSpan * Prefix(q, l - 1) + Index(q, l)
    BY <1>3, Digits
  <2>2. QED BY <1>5, <1>8, <1>9, <2>1
<1>11. QED BY <1>3, <1>9, <1>10

\* Entries that are more: where the way was, it is.
LEMMA PathKept ==
  ASSUME NEW e, NEW S, Tree(e, S), NEW f \in Entries,
         \A x \in DOMAIN e : x \in DOMAIN f /\ f[x] = e[x],
         NEW page \in Pages
  PROVE  \A l \in 0..Levels : l = 0 \/ <<page, l>> \in S => Path(f, page)[l] = Path(e, page)[l]
<1> DEFINE T == {l \in 0..Levels : l = 0 \/ <<page, l>> \in S => Path(f, page)[l] = Path(e, page)[l]}
<1>1. Levels \in Nat \ {0} /\ e \in Entries
  BY PagingAssumption DEF Tree
<1>2. 0 \in T
  BY <1>1, PathDef
<1>3. ASSUME NEW l \in 1..Levels, l - 1 \in T
      PROVE  l \in T
  <2>1. SUFFICES ASSUME <<page, l>> \in S
                 PROVE  Path(f, page)[l] = Path(e, page)[l]
    BY <1>1
  <2>2. l - 1 = 0 \/ <<page, l - 1>> \in S
    <3>1. l > 1 => <<<<page, l>>[1], <<page, l>>[2] - 1>> \in S
      BY <2>1 DEF Tree
    <3>2. QED BY <3>1
  <2>3. Path(f, page)[l - 1] = Path(e, page)[l - 1]
    BY <1>3, <2>2
  <2>4. Path(e, page)[l] # NoFrame
    <3>1. Path(e, <<page, l>>[1])[<<page, l>>[2]] # NoFrame
      BY <2>1 DEF Tree
    <3>2. QED BY <3>1
  <2>5. Slot(e, page, l) \in DOMAIN e /\ Path(e, page)[l] = e[Slot(e, page, l)]
    BY <2>4, PathStep
  <2>6. Path(f, page)[l] = Looked(f, Path(f, page)[l - 1], Index(page, l))
    BY PathDef
  <2>7. Slot(e, page, l) \in DOMAIN f /\ f[Slot(e, page, l)] = e[Slot(e, page, l)]
    BY <2>5
  <2>8. QED BY <2>3, <2>5, <2>6, <2>7 DEF Looked, Slot
<1> HIDE DEF T
<1>4. 0..Levels \subseteq T
  BY <1>1, <1>2, <1>3, Induction
<1>5. QED BY <1>4 DEF T

\* One more entry on the way to a page, that there is already.
LEMMA TreeFound ==
  ASSUME NEW e, NEW S, Tree(e, S), NEW page \in Pages, NEW l \in 1..Levels,
         l = 1 \/ <<page, l - 1>> \in S,
         Slot(e, page, l) \in DOMAIN e
  PROVE  Tree(e, S \cup {<<page, l>>}) /\ Path(e, page)[l] = e[Slot(e, page, l)]
<1>1. Path(e, page)[l] # NoFrame /\ Path(e, page)[l] = e[Slot(e, page, l)]
  BY PathStep
<1> DEFINE z == <<page, l>>
           R == S \cup {z}
<1>2. z \in Pages \X (1..Levels) /\ z[1] = page /\ z[2] = l
  OBVIOUS
<1>3. z[2] > 1 => <<z[1], z[2] - 1>> \in R
  BY <1>2
<1> HIDE DEF z
<1>4. R \subseteq Pages \X (1..Levels)
  BY <1>2 DEF Tree
<1>5. \A x \in DOMAIN e : \E y \in R : x = Slot(e, y[1], y[2])
  BY DEF Tree
<1>6. \A y \in R : /\ Path(e, y[1])[y[2]] # NoFrame
                   /\ y[2] > 1 => <<y[1], y[2] - 1>> \in R
  BY <1>1, <1>2, <1>3 DEF Tree
<1>7. Tree(e, R)
  <2> HIDE DEF R
  <2>1. QED BY <1>4, <1>5, <1>6 DEF Tree
<1>8. QED BY <1>1, <1>7 DEF z

\* f is e with the entry s, which it did not have, for the frame v, which it did not use.
Enters(f, e, s, v) ==
  /\ s \notin DOMAIN e /\ v \in Nat \ {NoFrame} /\ \A x \in DOMAIN e : e[x] # v
  /\ f = [x \in DOMAIN e \cup {s} |-> IF x = s THEN v ELSE e[x]]

\* One more entry on the way to a page, that leads to a frame nothing else leads to.
LEMMA TreeGrows ==
  ASSUME NEW e, NEW S, Tree(e, S), NEW page \in Pages, NEW l \in 1..Levels,
         l = 1 \/ <<page, l - 1>> \in S,
         NEW v, NEW f, Enters(f, e, Slot(e, page, l), v)
  PROVE  Tree(f, S \cup {<<page, l>>}) /\ Path(f, page)[l] = v
<1> DEFINE s == Slot(e, page, l)
           z == <<page, l>>
           R == S \cup {z}
<1>1. e \in Entries /\ Levels \in Nat \ {0}
  BY PagingAssumption DEF Tree
<1>2. s \in Int \X Nat
  <2>1. l - 1 \in 0..Levels
    BY <1>1
  <2>2. Path(e, page)[l - 1] \in Int /\ Index(page, l) \in Nat
    BY <1>1, <2>1, PathDef, Digits
  <2>3. QED BY <2>2 DEF Slot
<1> HIDE DEF s
<1>3. /\ s \notin DOMAIN e /\ v \in Nat \ {NoFrame} /\ \A x \in DOMAIN e : e[x] # v
      /\ f = [x \in DOMAIN e \cup {s} |-> IF x = s THEN v ELSE e[x]]
  BY DEF Enters, s
<1>4. /\ DOMAIN f = DOMAIN e \cup {s} /\ f[s] = v
      /\ \A x \in DOMAIN e : f[x] = e[x]
  BY <1>3
<1>5. f \in Entries
  <2>1. f = [x \in DOMAIN f |-> f[x]]
    BY <1>3
  <2>2. DOMAIN f \subseteq Int \X Nat
    BY <1>1, <1>2, <1>4, EntriesType
  <2>3. \A x \in DOMAIN f : f[x] \in Nat \ {NoFrame}
    BY <1>1, <1>3, <1>4, EntriesType
  <2>4. QED BY <2>1, <2>2, <2>3, EntriesType
<1>6. \A y \in Pages : \A k \in 0..Levels :
        k = 0 \/ <<y, k>> \in S => Path(f, y)[k] = Path(e, y)[k]
  <2>1. \A x \in DOMAIN e : x \in DOMAIN f /\ f[x] = e[x]
    BY <1>4
  <2>2. QED BY <1>5, <2>1, PathKept
<1>7. Path(f, page)[l - 1] = Path(e, page)[l - 1] /\ Slot(f, page, l) = s
  <2>1. l - 1 \in 0..Levels /\ (l - 1 = 0 \/ <<page, l - 1>> \in S)
    BY <1>1
  <2>2. Path(f, page)[l - 1] = Path(e, page)[l - 1]
    BY <1>6, <2>1
  <2>3. QED BY <2>2 DEF Slot, s
<1>8. Path(f, page)[l] = v
  <2>1. Path(f, page)[l] = Looked(f, Path(f, page)[l - 1], Index(page, l))
    BY <1>5, PathDef
  <2>2. QED BY <1>4, <1>7, <2>1 DEF Looked, Slot
<1>9. z \in Pages \X (1..Levels) /\ z[1] = page /\ z[2] = l
  OBVIOUS
<1>10. z[2] > 1 => <<z[1], z[2] - 1>> \in R
  BY <1>9
<1> HIDE DEF z
<1>11. R \subseteq Pages \X (1..Levels)
  BY <1>9 DEF Tree
<1>12. \A x, y \in DOMAIN f : f[x] = f[y] => x = y
  BY <1>3, <1>4 DEF Tree
<1>13. ASSUME NEW x \in DOMAIN f
       PROVE  \E y \in R : x = Slot(f, y[1], y[2])
  <2>1. CASE x = s
    BY <1>7, <1>9, <2>1
  <2>2. CASE x \in DOMAIN e
    <3>1. PICK y \in S : x = Slot(e, y[1], y[2])
      BY <2>2 DEF Tree
    <3>2. y[1] \in Pages /\ y[2] \in 1..Levels /\ y = <<y[1], y[2]>>
      BY DEF Tree
    <3>3. y[2] - 1 = 0 \/ <<y[1], y[2] - 1>> \in S
      BY <3>2 DEF Tree
    <3>4. Path(f, y[1])[y[2] - 1] = Path(e, y[1])[y[2] - 1]
      <4>1. y[2] - 1 \in 0..Levels
        BY <1>1, <3>2
      <4>2. QED BY <1>6, <3>2, <3>3, <4>1
    <3>5. QED BY <3>1, <3>4 DEF Slot
  <2>3. QED BY <1>4, <2>1, <2>2
<1>14. ASSUME NEW y \in R
       PROVE  /\ Path(f, y[1])[y[2]] # NoFrame
              /\ y[2] > 1 => <<y[1], y[2] - 1>> \in R
  <2>1. CASE y = z
    BY <1>3, <1>8, <1>9, <1>10, <2>1
  <2>2. CASE y \in S
    <3>1. y[1] \in Pages /\ y[2] \in 0..Levels /\ y = <<y[1], y[2]>>
      BY <1>1, <2>2 DEF Tree
    <3>2. Path(f, y[1])[y[2]] = Path(e, y[1])[y[2]]
      BY <1>6, <2>2, <3>1
    <3>3. QED BY <2>2, <3>2 DEF Tree
  <2>3. QED BY <2>1, <2>2
<1>15. Tree(f, R)
  <2> HIDE DEF R
  <2>1. QED BY <1>5, <1>11, <1>12, <1>13, <1>14 DEF Tree
<1>16. QED BY <1>8, <1>15 DEF z

\* The pages of a tree are those the processor finds.
LEMMA Translated ==
  ASSUME NEW M \in SUBSET Pages, NEW e, Tree(e, M \X (1..Levels)), NEW page \in Pages
  PROVE  Translate(e, page) # NoFrame <=> page \in M
<1> DEFINE S == M \X (1..Levels)
<1>1. Levels \in Nat \ {0} /\ e \in Entries /\ Levels \in 1..Levels
  BY PagingAssumption DEF Tree
<1>2. Translate(e, page) = Path(e, page)[Levels]
  BY <1>1, PathDef
<1>3. Tree(e, S)
  OBVIOUS
<1>4. ASSUME page \in M
      PROVE  Path(e, page)[Levels] # NoFrame
  <2>1. <<page, Levels>> \in S
    BY <1>1, <1>4
  <2> HIDE DEF S
  <2>2. Path(e, <<page, Levels>>[1])[<<page, Levels>>[2]] # NoFrame
    BY <1>3, <2>1 DEF Tree
  <2>3. QED BY <2>2
<1>5. ASSUME Path(e, page)[Levels] # NoFrame
      PROVE  page \in M
  <2>1. Slot(e, page, Levels) \in DOMAIN e
    BY <1>1, <1>3, <1>5, PathStep
  <2>2. PICK q \in Pages : <<q, Levels>> \in S /\ Prefix(q, Levels) = Prefix(page, Levels)
    <3> HIDE DEF S
    <3>1. QED BY <1>1, <1>3, <2>1, InTree
  <2>3. q = page
    BY <2>2, Digits
  <2>4. QED BY <2>2, <2>3
<1>6. QED BY <1>2, <1>4, <1>5

-----------------------------------------------------------------------------
(* Mapping a page.                                                         *)

\* The states of a walk, and the frames the entries lead to.
Walks == [entry : Entries, free : Nat, at : Int]
Values(e) == {e[x] : x \in DOMAIN e}

\* A step of the walk keeps the types.
LEMMA NextLevelType ==
  ASSUME NEW m \in Walks, NEW i \in Nat
  PROVE  NextLevel(m, i) \in Walks
<1> DEFINE x == <<m.at, i>>
<1>1. m.entry \in Entries /\ m.free \in Nat /\ m.at \in Int /\ x \in Int \X Nat
  BY DEF Walks
<1> HIDE DEF x
<1>2. CASE m.at = NoFrame
  BY <1>2 DEF NextLevel
<1>3. CASE m.at # NoFrame /\ x \in DOMAIN m.entry
  <2>1. m.entry[x] \in Int
    BY <1>1, <1>3, EntriesType
  <2>2. NextLevel(m, i) = [m EXCEPT !.at = m.entry[x]]
    BY <1>3 DEF NextLevel, x
  <2>3. QED BY <2>1, <2>2 DEF Walks
<1>4. CASE m.at # NoFrame /\ x \notin DOMAIN m.entry /\ m.free = NoFrame
  <2>1. NextLevel(m, i) = [m EXCEPT !.at = NoFrame]
    BY <1>4 DEF NextLevel, Frame, x
  <2>2. QED BY <2>1 DEF Walks, NoFrame
<1>5. CASE m.at # NoFrame /\ x \notin DOMAIN m.entry /\ m.free # NoFrame
  <2> DEFINE l == Linked(m, x, m.free)
  <2>1. NextLevel(m, i) = [entry |-> l, free |-> m.free - 1, at |-> m.free]
    BY <1>5 DEF NextLevel, Frame, x
  <2>2. /\ DOMAIN l = DOMAIN m.entry \cup {x}
        /\ \A y \in DOMAIN l : l[y] = IF y = x THEN m.free ELSE m.entry[y]
        /\ l = [y \in DOMAIN l |-> l[y]]
    BY DEF Linked
  <2> HIDE DEF l
  <2>3. /\ DOMAIN l \subseteq Int \X Nat
        /\ \A y \in DOMAIN l : l[y] \in Nat \ {NoFrame}
    BY <1>1, <1>5, <2>2, EntriesType
  <2>4. l \in Entries
    BY <2>2, <2>3, EntriesType
  <2>5. m.free - 1 \in Nat /\ m.free \in Int
    BY <1>1, <1>5 DEF NoFrame
  <2>6. QED BY <2>1, <2>4, <2>5 DEF Walks
<1>6. QED BY <1>2, <1>3, <1>4, <1>5

\* The walk, step by step.
WalkSteps(m, page, w) ==
  /\ w[0] = [m EXCEPT !.at = Root]
  /\ \A l \in 1..(Levels - 1) : w[l] = NextLevel(w[l - 1], Index(page, l))
  /\ Walk(m, page) = w[Levels - 1]

LEMMA WalkDef ==
  ASSUME NEW m \in Walks, NEW page \in Pages
  PROVE  \E w \in [0..(Levels - 1) -> Walks] : WalkSteps(m, page, w)
<1> DEFINE N == Levels - 1
           first == [m EXCEPT !.at = Root]
           P(w) == w = [l \in 0..N |-> IF l = 0 THEN first ELSE NextLevel(w[l - 1], Index(page, l))]
           g == [x \in (1..N) \X Walks |-> NextLevel(x[2], Index(page, x[1]))]
           v == CHOOSE w : P(w)
<1>1. N \in Nat /\ \A l \in 1..N : l \in 1..Levels
  BY PagingAssumption
<1>2. first \in Walks
  BY DEF Walks, Root
<1>3. g \in [(1..N) \X Walks -> Walks]
  <2>1. \A l \in 1..N : Index(page, l) \in Nat
    BY <1>1, Digits
  <2>2. QED BY <2>1, NextLevelType
<1> HIDE DEF first
<1>4. PICK f \in [0..N -> Walks] : Follows(f, N, first, g)
  <2> HIDE DEF g, N
  <2>1. QED BY <1>1, <1>2, <1>3, RecursionExists
<1>5. P(f)
  <2>1. f[0] = first /\ \A l \in 1..N : f[l] = g[<<l, f[l - 1]>>]
    BY <1>4 DEF Follows
  <2>2. \A l \in 1..N, t \in Walks : g[<<l, t>>] = NextLevel(t, Index(page, l))
    OBVIOUS
  <2>3. \A l \in 1..N : f[l - 1] \in Walks
    BY <1>1
  <2> HIDE DEF g
  <2>4. \A l \in 1..N : f[l] = NextLevel(f[l - 1], Index(page, l))
    BY <2>1, <2>2, <2>3
  <2> HIDE DEF N
  <2>5. QED BY <1>1, <2>1, <2>4
<1>6. P(v)
  <2> HIDE DEF P
  <2>1. QED BY <1>5
<1>7. Walk(m, page) = v[N]
  BY DEF Walk, first
<1> HIDE DEF v
<1>8. v[0] = first /\ \A l \in 1..N : v[l] = NextLevel(v[l - 1], Index(page, l))
  <2> HIDE DEF N
  <2>1. QED BY <1>1, <1>6
<1>9. \A l \in 0..N : v[l] \in Walks
  <2> DEFINE T == {l \in 0..N : v[l] \in Walks}
  <2>1. 0 \in T
    BY <1>1, <1>2, <1>8
  <2>2. \A l \in 1..N : Index(page, l) \in Nat
    BY <1>1, Digits
  <2> HIDE DEF N
  <2>3. \A l \in 1..N : l - 1 \in T => l \in T
    BY <1>1, <1>8, <2>2, NextLevelType
  <2>4. 0..N \subseteq T
    <3> HIDE DEF T
    <3>1. QED BY <1>1, <2>1, <2>3, Induction
  <2>5. QED BY <2>4
<1>10. v \in [0..N -> Walks]
  <2> HIDE DEF N
  <2>1. v = [l \in 0..N |-> v[l]]
    BY <1>6
  <2>2. QED BY <1>9, <2>1
<1>11. WalkSteps(m, page, v)
  BY <1>7, <1>8 DEF WalkSteps, first
<1>12. QED BY <1>10, <1>11

\* What the walk from m has made when it is in w at level l: the way to the page as far as
\* that, from frames that were free, each of them used.
Way(S, page, l) == S \cup {<<page, k>> : k \in 1..l}
Made(m, S, page, l, w) ==
  /\ w \in Walks /\ w.free <= m.free
  /\ w.at # NoFrame =>
       /\ Tree(w.entry, Way(S, page, l)) /\ Path(w.entry, page)[l] = w.at
       /\ Values(w.entry) = Values(m.entry) \cup (w.free + 1)..m.free

\* One table more.
LEMMA NextMade ==
  ASSUME NEW m \in Walks, Values(m.entry) \cap 1..m.free = {},
         NEW S, NEW page \in Pages, NEW l \in 1..Levels,
         NEW w, Made(m, S, page, l - 1, w)
  PROVE  Made(m, S, page, l, NextLevel(w, Index(page, l)))
<1> DEFINE i == Index(page, l)
           x == Slot(w.entry, page, l)
           n == NextLevel(w, i)
<1>1. /\ w \in Walks /\ w.free \in Nat /\ m.free \in Nat /\ w.free <= m.free
      /\ w.entry \in Entries /\ l \in Nat /\ l - 1 \in 0..Levels /\ Levels \in Nat
  BY PagingAssumption DEF Made, Walks
<1>2. i \in Nat /\ n \in Walks
  BY <1>1, Digits, NextLevelType
<1>3. CASE w.at = NoFrame
  BY <1>1, <1>3 DEF NextLevel, Made
<1>4. CASE w.at # NoFrame
  <2>1. /\ Tree(w.entry, Way(S, page, l - 1)) /\ Path(w.entry, page)[l - 1] = w.at
        /\ Values(w.entry) = Values(m.entry) \cup (w.free + 1)..m.free
    BY <1>4 DEF Made
  <2>2. x = <<w.at, i>>
    BY <2>1 DEF Slot
  <2>3. l = 1 \/ <<page, l - 1>> \in Way(S, page, l - 1)
    <3>1. l # 1 => l - 1 \in 1..(l - 1)
      BY <1>1
    <3>2. QED BY <3>1 DEF Way
  <2>4. Way(S, page, l) = Way(S, page, l - 1) \cup {<<page, l>>}
    <3>1. 1..l = 1..(l - 1) \cup {l}
      BY <1>1
    <3>2. QED BY <3>1 DEF Way
  <2> HIDE DEF n, i
  <2>5. CASE x \in DOMAIN w.entry
    <3>1. n = [w EXCEPT !.at = w.entry[x]]
      BY <1>4, <2>2, <2>5 DEF NextLevel, n, i
    <3>2. /\ Tree(w.entry, Way(S, page, l)) /\ Path(w.entry, page)[l] = w.entry[x]
      BY <2>1, <2>3, <2>4, <2>5, TreeFound
    <3>3. n.entry = w.entry /\ n.free = w.free /\ n.at = w.entry[x]
      BY <1>1, <3>1 DEF Walks
    <3>4. Made(m, S, page, l, n)
      BY <1>1, <1>2, <2>1, <3>2, <3>3 DEF Made, n, i
    <3>5. QED BY <3>4 DEF n, i
  <2>6. CASE x \notin DOMAIN w.entry /\ w.free = NoFrame
    <3>1. n = [w EXCEPT !.at = NoFrame]
      BY <1>4, <2>2, <2>6 DEF NextLevel, Frame, n, i
    <3>2. n.at = NoFrame /\ n.free = w.free
      BY <1>1, <3>1 DEF Walks
    <3>3. Made(m, S, page, l, n)
      BY <1>1, <1>2, <3>2 DEF Made, n, i
    <3>4. QED BY <3>3 DEF n, i
  <2>7. CASE x \notin DOMAIN w.entry /\ w.free # NoFrame
    <3> DEFINE v == w.free
               f == Linked(w, x, v)
    <3>1. n = [entry |-> f, free |-> v - 1, at |-> v]
      BY <1>4, <2>2, <2>7 DEF NextLevel, Frame, n, i
    <3>2. f = [y \in DOMAIN w.entry \cup {x} |-> IF y = x THEN v ELSE w.entry[y]]
      BY DEF Linked
    <3>3. v \in Nat \ {NoFrame} /\ v \in 1..m.free /\ v \notin (v + 1)..m.free
      BY <1>1, <2>7 DEF NoFrame
    <3>4. \A y \in DOMAIN w.entry : w.entry[y] # v
      BY <2>1, <3>3 DEF Values
    <3>5. n.entry = f /\ n.free = v - 1 /\ n.at = v
      BY <3>1
    <3> HIDE DEF f
    <3>6. Tree(f, Way(S, page, l)) /\ Path(f, page)[l] = v
      <4> DEFINE e == w.entry
                 R == Way(S, page, l - 1)
      <4>1. Tree(e, R)
        BY <2>1
      <4>2. l = 1 \/ <<page, l - 1>> \in R
        BY <2>3
      <4>3. Enters(f, e, Slot(e, page, l), v)
        BY <2>7, <3>2, <3>3, <3>4 DEF Enters
      <4> HIDE DEF e, R, v, x
      <4>4. Tree(f, R \cup {<<page, l>>}) /\ Path(f, page)[l] = v
        BY <4>1, <4>2, <4>3, TreeGrows
      <4>5. QED BY <2>4, <4>4 DEF R
    <3>7. Values(f) = Values(w.entry) \cup {v}
      <4>1. DOMAIN f = DOMAIN w.entry \cup {x} /\ f[x] = v
            /\ \A y \in DOMAIN w.entry : f[y] = w.entry[y]
        BY <2>7, <3>2
      <4> HIDE DEF v, x
      <4>2. QED BY <4>1 DEF Values
    <3>8. {v} \cup (v + 1)..m.free = ((v - 1) + 1)..m.free
      BY <1>1, <3>3
    <3>9. Values(f) = Values(m.entry) \cup ((v - 1) + 1)..m.free
      BY <2>1, <3>7, <3>8
    <3>10. v - 1 <= m.free
      BY <1>1
    <3>11. Made(m, S, page, l, n)
      <4> HIDE DEF v
      <4>1. QED BY <1>2, <3>5, <3>6, <3>9, <3>10 DEF Made, n, i
    <3>12. QED BY <3>11 DEF n, i
  <2>8. QED BY <2>5, <2>6, <2>7
<1>5. QED BY <1>3, <1>4

\* The walk.
LEMMA WalkMade ==
  ASSUME NEW m \in Walks, Values(m.entry) \cap 1..m.free = {},
         NEW S, Tree(m.entry, S), NEW page \in Pages
  PROVE  Made(m, S, page, Levels - 1, Walk(m, page))
<1>1. PICK w \in [0..(Levels - 1) -> Walks] : WalkSteps(m, page, w)
  BY WalkDef
<1> DEFINE N == Levels - 1
           T == {l \in 0..N : Made(m, S, page, l, w[l])}
<1>2. N \in Nat /\ \A l \in 1..N : l \in 1..Levels
  BY PagingAssumption
<1>3. 0 \in T
  <2>1. w[0] = [m EXCEPT !.at = Root]
    BY <1>1 DEF WalkSteps
  <2>2. w[0] \in Walks /\ w[0].entry = m.entry /\ w[0].free = m.free /\ w[0].at = Root
    BY <1>2, <2>1 DEF Walks
  <2>3. Way(S, page, 0) = S
    BY DEF Way
  <2>4. Path(m.entry, page)[0] = Root
    BY PathDef DEF Tree
  <2>5. m.free \in Nat /\ (m.free + 1)..m.free = {} /\ m.free <= m.free
    BY DEF Walks
  <2>6. Made(m, S, page, 0, w[0])
    BY <2>2, <2>3, <2>4, <2>5 DEF Made
  <2>7. QED BY <1>2, <2>6
<1>4. ASSUME NEW l \in 1..N, l - 1 \in T
      PROVE  l \in T
  <2>1. Made(m, S, page, l - 1, w[l - 1]) /\ l \in 1..Levels
    BY <1>2, <1>4
  <2>2. w[l] = NextLevel(w[l - 1], Index(page, l))
    BY <1>1 DEF WalkSteps
  <2>3. Made(m, S, page, l, w[l])
    BY <2>1, <2>2, NextMade
  <2>4. QED BY <1>2, <2>3
<1>5. N \in T
  <2> HIDE DEF T, N
  <2>1. 0..N \subseteq T
    BY <1>2, <1>3, <1>4, Induction
  <2>2. QED BY <1>2, <2>1
<1>6. Walk(m, page) = w[N]
  BY <1>1 DEF WalkSteps
<1>7. QED BY <1>5, <1>6

\* A page is mapped, and nothing else changes, or a table is missing; every frame that is
\* taken is entered once.
Maps(m, M, page, v, r) ==
  /\ r.free \in Nat /\ r.free <= m.free
  /\ r.at # NoFrame =>
       /\ Tree(r.entry, (M \cup {page}) \X (1..Levels))
       /\ Values(r.entry) = Values(m.entry) \cup (r.free + 1)..m.free \cup {v}

LEMMA MapPageMaps ==
  ASSUME NEW m \in Walks, Values(m.entry) \cap 1..m.free = {},
         NEW M \in SUBSET Pages, Tree(m.entry, M \X (1..Levels)),
         NEW page \in Pages, page \notin M,
         NEW v \in Nat, v > m.free, v \notin Values(m.entry)
  PROVE  Maps(m, M, page, v, MapPage(m, page, v))
<1> DEFINE S == M \X (1..Levels)
           w == Walk(m, page)
           x == Slot(w.entry, page, Levels)
           r == MapPage(m, page, v)
<1>1. Made(m, S, page, Levels - 1, w)
  <2> HIDE DEF S
  <2>1. Tree(m.entry, S)
    BY DEF S
  <2>2. QED BY <2>1, WalkMade
<1> HIDE DEF w
<1>2. /\ w \in Walks /\ w.free \in Nat /\ w.free <= m.free /\ m.free \in Nat
      /\ Levels \in Nat \ {0} /\ Levels \in 1..Levels
  BY <1>1, PagingAssumption DEF Made, Walks
<1>3. CASE w.at = NoFrame
  <2>1. r = w
    BY <1>3 DEF MapPage, w
  <2>2. QED BY <1>2, <1>3, <2>1 DEF Maps
<1>4. CASE w.at # NoFrame
  <2> DEFINE R == Way(S, page, Levels - 1)
             f == Linked(w, x, v)
  <2>1. /\ Tree(w.entry, R) /\ Path(w.entry, page)[Levels - 1] = w.at
        /\ Values(w.entry) = Values(m.entry) \cup (w.free + 1)..m.free
    BY <1>1, <1>4 DEF Made
  <2>2. x = <<w.at, Index(page, Levels)>>
    BY <2>1 DEF Slot
  <2>3. r = [w EXCEPT !.entry = f]
    BY <1>4, <2>2 DEF MapPage, w
  <2>4. r.entry = f /\ r.free = w.free
    BY <1>2, <2>3 DEF Walks
  <2>5. \A q \in Pages : <<q, Levels>> \in R => q \in M
    <3>1. \A k \in 1..(Levels - 1) : k # Levels
      BY <1>2
    <3>2. QED BY <3>1 DEF Way
  <2>6. Levels = 1 \/ <<page, Levels - 1>> \in R
    <3>1. Levels # 1 => Levels - 1 \in 1..(Levels - 1)
      BY <1>2
    <3>2. QED BY <3>1 DEF Way
  <2>7. R \cup {<<page, Levels>>} = (M \cup {page}) \X (1..Levels)
    <3>1. 1..Levels = 1..(Levels - 1) \cup {Levels}
      BY <1>2
    <3>2. R \cup {<<page, Levels>>} = S \cup {<<page, k>> : k \in 1..Levels}
      BY <3>1 DEF Way
    <3>3. S \cup {<<page, k>> : k \in 1..Levels} = (M \cup {page}) \X (1..Levels)
      OBVIOUS
    <3>4. QED BY <3>2, <3>3
  <2> HIDE DEF R, r
  <2>8. x \notin DOMAIN w.entry
    <3>1. SUFFICES ASSUME x \in DOMAIN w.entry PROVE FALSE
      OBVIOUS
    <3>2. PICK q \in Pages : <<q, Levels>> \in R /\ Prefix(q, Levels) = Prefix(page, Levels)
      BY <1>2, <2>1, <3>1, InTree
    <3>3. q = page
      BY <3>2, Digits
    <3>4. QED BY <2>5, <3>2, <3>3
  <2>9. v \in Nat \ {NoFrame} /\ v \notin (w.free + 1)..m.free
    BY <1>2 DEF NoFrame
  <2>10. \A y \in DOMAIN w.entry : w.entry[y] # v
    BY <2>1, <2>9 DEF Values
  <2>11. f = [y \in DOMAIN w.entry \cup {x} |-> IF y = x THEN v ELSE w.entry[y]]
    BY DEF Linked
  <2> HIDE DEF f
  <2>12. Tree(f, R \cup {<<page, Levels>>})
    <3>1. Enters(f, w.entry, x, v)
      BY <2>8, <2>9, <2>10, <2>11 DEF Enters
    <3>2. QED BY <1>2, <2>1, <2>6, <3>1, TreeGrows
  <2>13. Values(f) = Values(w.entry) \cup {v}
    <3>1. DOMAIN f = DOMAIN w.entry \cup {x} /\ f[x] = v
          /\ \A y \in DOMAIN w.entry : f[y] = w.entry[y]
      BY <2>8, <2>11
    <3> HIDE DEF x
    <3>2. QED BY <3>1 DEF Values
  <2>14. Maps(m, M, page, v, r)
    BY <1>2, <2>1, <2>4, <2>7, <2>12, <2>13 DEF Maps
  <2>15. QED BY <2>14 DEF r
<1>5. QED BY <1>3, <1>4

=============================================================================
