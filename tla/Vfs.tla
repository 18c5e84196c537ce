---------------------------------- MODULE Vfs ----------------------------------
(***************************************************************************)
(* The virtual file system: a tree of nodes in memory, each directory with *)
(* a list of its children, each file with a buffer that grows, and a table *)
(* of open descriptors.                                                    *)
(*                                                                         *)
(* A path is the sequence of the components between its slashes: "/a" is   *)
(* <<a>>, "/a/" is <<a, Empty>>, "/" is <<Empty>>; a path that does not    *)
(* begin with a slash is <<>>.  Names fit in the 127 bytes a node keeps.   *)
(* Memory never runs out: kmalloc does not return without it (module       *)
(* Heap).  The parent and inode fields are left out, nothing reads them.   *)
(***************************************************************************)
EXTENDS Integers, SequencesExt

CONSTANTS
  Names,         \* names of files and directories
  Empty,         \* the component between two slashes in a row
  Byte,          \* the values of a byte
  Junk,          \* what lies in memory that nothing was written to
  MaxFds,        \* MAX_FDS: 64
  LeastBuffer,   \* the least capacity of a buffer: 64
  Setup,         \* the calls vfs_init makes: the path, the bytes, and whether it is mkdir
  Paths,         \* bound: paths that are asked for
  Texts,         \* bound: what is written in one call
  Wholes,        \* bound: what a file is made with or, by a command, replaced by
  Counts,        \* bound: how much is read in one call
  MaxNodes,      \* bound: nodes in the tree
  MaxSize,       \* bound: bytes in a file
  MaxBuffers     \* bound: nodes with a buffer

ASSUME VfsAssumption ==
  /\ Empty \notin Names /\ Junk \notin Byte
  /\ MaxFds \in Nat \ {0} /\ LeastBuffer \in Nat /\ MaxSize \in Nat
  /\ Paths \subseteq Seq(Names \cup {Empty}) /\ Texts \subseteq Seq(Byte) /\ Counts \subseteq Nat
  /\ Setup \in Seq([dir : BOOLEAN, path : Seq(Names), text : Seq(Byte)])

\* vfs_init makes none of its files under a path it has used before.
ASSUME SetupAssumption ==
  \A i, j \in 1..Len(Setup) : j < i /\ ~Setup[i].dir => Setup[j].path # Setup[i].path

VARIABLES
  node,    \* the nodes, in the order they were made; the first is the root
  fd,      \* g_fd_table
  failed,  \* whether the last call returned -1
  seen,    \* the bytes it read
  setup    \* calls vfs_init has still to make

vars == <<node, fd, failed, seen, setup>>

Nil    == 0       \* a null node pointer
Failed == -1
Root   == 1
Fds    == 0..(MaxFds - 1)
Closed == [node |-> Nil, at |-> 0]

\* The state a call starts from, and the one it leaves.
Now == [node |-> node, fd |-> fd, ret |-> 0, seen |-> <<>>]
Becomes(s) ==
  /\ Len(s.node) <= MaxNodes
  /\ \A n \in 1..Len(s.node) : s.node[n].size <= MaxSize
  /\ Cardinality({n \in 1..Len(s.node) : s.node[n].data # <<>>}) <= MaxBuffers
  /\ node' = s.node /\ fd' = s.fd /\ seen' = s.seen
  /\ failed' = (s.ret = Failed)

Returns(s, v) == [s EXCEPT !.ret = v, !.seen = <<>>]

-----------------------------------------------------------------------------
\* The tree.

\* create_vfs_node
NewNode(name, dir) ==
  [name |-> name, dir |-> dir, kids |-> <<>>, size |-> 0, data |-> [i \in {} |-> Junk]]

\* ramfs_finddir: the first child of that name.
Find(s, d, name) ==
  LET named(k) == s.node[k].name = name
      i == IF s.node[d].dir THEN SelectInSeq(s.node[d].kids, named) ELSE 0
  IN IF i = 0 THEN Nil ELSE s.node[d].kids[i]

\* The way from a directory through one component of a path; an empty one is skipped.
Enter(s, d, name) == IF d = Nil \/ name = Empty THEN d ELSE Find(s, d, name)

\* vfs_lookup
Lookup(s, path) ==
  LET found[k \in 0..Len(path)] == IF k = 0 THEN Root ELSE Enter(s, found[k - 1], path[k])
  IN IF path = <<>> THEN Nil ELSE found[Len(path)]

\* The directory the last component of a path is looked for in.
Parent(s, path) ==
  LET p == IF Len(path) = 1 THEN Root ELSE Lookup(s, Front(path))
  IN IF p # Nil /\ s.node[p].dir THEN p ELSE Nil

\* Mutant: the new node becomes the only child.
AddedAlone(s, parent, n) ==
  [s EXCEPT !.node = Append([s.node EXCEPT ![parent].kids = <<Len(s.node) + 1>>], n),
            !.ret = Len(s.node) + 1, !.seen = <<>>]

\* add_child_node: the new node goes to the end of its parent's list.
Added(s, parent, n) ==
  [s EXCEPT !.node = Append([s.node EXCEPT ![parent].kids = Append(@, Len(s.node) + 1)], n),
            !.ret = Len(s.node) + 1, !.seen = <<>>]

\* Mutant: nobody looks whether the name is taken.
MkdirAgain(s, path) ==
  LET p == IF Len(path) > 1 /\ Last(path) = Empty THEN Front(path) ELSE path
      parent == IF path = <<>> THEN Nil ELSE Parent(s, p)
  IN IF parent = Nil THEN Returns(s, Nil) ELSE Added(s, parent, NewNode(Last(p), TRUE))

\* vfs_mkdir: a slash at the end is dropped; what has the name already is returned,
\* whether it is a directory or a file.
Mkdir(s, path) ==
  LET p == IF Len(path) > 1 /\ Last(path) = Empty THEN Front(path) ELSE path
      parent == IF path = <<>> THEN Nil ELSE Parent(s, p)
  IN IF parent = Nil THEN Returns(s, Nil)
     ELSE IF Find(s, parent, Last(p)) # Nil THEN Returns(s, Find(s, parent, Last(p)))
     ELSE Added(s, parent, NewNode(Last(p), TRUE))

-----------------------------------------------------------------------------
\* Contents.

\* ramfs_write: the buffer grows to twice what is needed.  What was in it stays, and so
\* does what a truncation has hidden.
Written(n, at, text) ==
  LET need == at + Len(text)
      room == IF need <= Cardinality(DOMAIN n.data) THEN Cardinality(DOMAIN n.data)
              ELSE IF need < LeastBuffer THEN LeastBuffer ELSE 2 * need
  IN [n EXCEPT !.data = [i \in 0..(room - 1) |->
                           IF i \in at..(need - 1) THEN text[i - at + 1]
                           ELSE IF i \in DOMAIN n.data THEN n.data[i] ELSE Junk],
               !.size = IF need > @ THEN need ELSE @]

\* vfs_create_file does not look whether the name is taken: vfs_open has.
CreateFile(s, path, text) ==
  LET parent == IF path = <<>> THEN Nil ELSE Parent(s, path)
      new == NewNode(Last(path), FALSE)
  IN IF parent = Nil THEN Returns(s, Nil)
     ELSE Added(s, parent, IF text = <<>> THEN new ELSE Written(new, 0, text))

-----------------------------------------------------------------------------
\* Descriptors.

IsOpen(s, d) == d \in Fds /\ s.fd[d] # Closed

\* Mutant: the last descriptor is never looked at.
FreeFdsShort(s) == {d \in 0..(MaxFds - 2) : s.fd[d] = Closed}

FreeFds(s) == {d \in Fds : s.fd[d] = Closed}

\* Mutant: a truncation gives the buffer back.
TruncatedHard(s, n) == [s EXCEPT !.node[n].size = 0, !.node[n].data = [i \in {} |-> Junk]]

\* O_TRUNC: the size is 0, the buffer stays.
Truncated(s, n) == [s EXCEPT !.node[n].size = 0]

\* vfs_open: the node that is there, or a new one.
FoundOrMade(s, path, flags) ==
  IF Lookup(s, path) = Nil /\ "CREAT" \in flags THEN CreateFile(s, path, <<>>)
  ELSE Returns(s, Lookup(s, path))

Emptied(s, flags) == IF s.ret # Nil /\ "TRUNC" \in flags THEN Truncated(s, s.ret) ELSE s

\* The lowest free descriptor is for the node.
Opened(s, flags) ==
  LET free  == FreeFds(s)
      d     == CHOOSE x \in free : \A y \in free : x <= y
      place == IF "APPEND" \in flags THEN s.node[s.ret].size ELSE 0
  IN IF s.ret = Nil \/ free = {} THEN Returns(s, Failed)
     ELSE Returns([s EXCEPT !.fd[d] = [node |-> s.ret, at |-> place]], d)

\* The file is made and emptied before a free descriptor is looked for.
Open(s, path, flags) == Opened(Emptied(FoundOrMade(s, path, flags), flags), flags)

\* vfs_read and ramfs_read
Read(s, d, count) ==
  LET n == s.node[s.fd[d].node]
      at == s.fd[d].at
      k == IF at >= n.size THEN 0 ELSE IF at + count > n.size THEN n.size - at ELSE count
  IN IF ~IsOpen(s, d) THEN Returns(s, Failed)
     ELSE [s EXCEPT !.fd[d].at = at + k, !.ret = k,
                    !.seen = [i \in 1..k |-> n.data[at + i - 1]]]

\* Mutant: the descriptor stays where it was.
WriteInPlace(s, d, text) ==
  IF ~IsOpen(s, d) THEN Returns(s, Failed)
  ELSE Returns([s EXCEPT !.node[s.fd[d].node] = Written(@, s.fd[d].at, text)], Len(text))

\* vfs_write.  The flags of the open are not looked at.
Write(s, d, text) ==
  IF ~IsOpen(s, d) THEN Returns(s, Failed)
  ELSE Returns([s EXCEPT !.node[s.fd[d].node] = Written(@, s.fd[d].at, text),
                         !.fd[d].at = @ + Len(text)], Len(text))

\* vfs_close
Close(s, d) ==
  IF ~IsOpen(s, d) THEN Returns(s, Failed) ELSE Returns([s EXCEPT !.fd[d] = Closed], 0)

-----------------------------------------------------------------------------

Init ==
  /\ node = <<NewNode(Empty, TRUE)>>
  /\ fd = [d \in Fds |-> Closed]
  /\ failed = FALSE /\ seen = <<>>
  /\ setup = Setup

\* The rest of vfs_init, call by call.
VfsInit ==
  /\ setup # <<>>
  /\ LET c == Head(setup)
     IN Becomes(IF c.dir THEN Mkdir(Now, c.path) ELSE CreateFile(Now, c.path, c.text))
  /\ setup' = Tail(setup)

\* A call through vfs.h.
VfsCall ==
  /\ setup = <<>>
  /\ \/ \E path \in Paths : Becomes(Mkdir(Now, path))
     \/ \E path \in Paths, flags \in SUBSET {"CREAT", "TRUNC", "APPEND"} :
          Becomes(Open(Now, path, flags))
     \/ \E d \in Fds :
          \/ \E count \in Counts : Becomes(Read(Now, d, count))
          \/ \E text \in Texts : Becomes(Write(Now, d, text))
          \/ Becomes(Close(Now, d))
  /\ UNCHANGED setup

Next == VfsInit \/ VfsCall

Spec == Init /\ [][Next]_vars

-----------------------------------------------------------------------------
\* Properties.

NodeType == [name : Names \cup {Empty}, dir : BOOLEAN, kids : Seq(Nat), size : Nat]

TypeOK ==
  /\ \A n \in DOMAIN node :
       /\ [name |-> node[n].name, dir |-> node[n].dir, kids |-> node[n].kids,
           size |-> node[n].size] \in NodeType
       /\ node[n].data \in [0..(Cardinality(DOMAIN node[n].data) - 1) -> Byte \cup {Junk}]
  /\ fd \in [Fds -> [node : 0..Len(node), at : Nat]]
  /\ failed \in BOOLEAN
  /\ seen \in Seq(Byte \cup {Junk})
  /\ \E i \in 1..(Len(Setup) + 1) : setup = SubSeq(Setup, i, Len(Setup))

\* The nodes form a tree: every node but the root is in one directory's list, once, and
\* came after that directory; two nodes of one directory have different names, so the
\* first match of ramfs_finddir is the only one.
IsTree ==
  /\ \A n \in 2..Len(node) :
       \E d \in 1..(n - 1), i \in 1..Len(node) :
         \A e \in 1..Len(node), j \in 1..Len(node) :
           (j <= Len(node[e].kids) /\ node[e].kids[j] = n) <=> (e = d /\ j = i)
  /\ \A d \in 1..Len(node) :
       /\ ~node[d].dir => node[d].kids = <<>>
       /\ \A i, j \in 1..Len(node[d].kids) :
            node[node[d].kids[i]].name = node[node[d].kids[j]].name => i = j

WellFormed == TypeOK /\ IsTree

Filled(n, k) == \A i \in 0..(k - 1) : i \in DOMAIN n.data /\ n.data[i] \in Byte

\* A file's bytes, and those before the place of any descriptor, lie in its buffer and
\* were written, though other descriptors truncate the file and buffers move: neither a
\* read nor the gap a write leaves shows memory that was somebody else's.
NoJunk ==
  /\ \A n \in 1..Len(node) : Filled(node[n], node[n].size)
  /\ \A d \in Fds : fd[d] # Closed => Filled(node[fd[d].node], fd[d].at)

\* What a path names, it names for ever: nothing made later comes between a path and its
\* node, whatever slashes it is written with.
PathsStay ==
  [][Len(node') # Len(node) =>
       \A p \in Paths : Lookup(Now, p) # Nil => Lookup(Now', p) = Lookup(Now, p)]_vars

\* What the callers see: the bytes of each file, and the file and place of each descriptor.
FileBytes == [n \in DOMAIN node |-> [i \in 1..node[n].size |-> node[n].data[i - 1]]]
OpenDescs ==
  [d \in {x \in Fds : fd[x] # Closed} |-> [file |-> fd[d].node, at |-> fd[d].at]]

\* A call that fails leaves everything as it was, with one exception that stays within one
\* file: an open that finds no free descriptor has by then made the file, empty, or emptied
\* the one there was; every other file keeps its bytes and every descriptor its place.
FailuresContained ==
  [][failed' =>
       /\ fd' = fd
       /\ \/ node' = node
          \/ /\ \A d \in Fds : fd[d] # Closed
             /\ \/ FileBytes' = Append(FileBytes, <<>>)
                \/ \E n \in DOMAIN node : FileBytes' = [FileBytes EXCEPT ![n] = <<>>]]_vars

\* The callers see sequences of bytes, and descriptors that go on where they left off:
\* buffers that grow, move and outlive a truncation do not show.
Contents == INSTANCE OpenFiles WITH
  file <- FileBytes, desc <- OpenDescs, Wholes <- Wholes, MaxRead <- MaxSize
KeepsContents == Contents!Spec
===============================================================================
