----------------------------- MODULE MemoryPool -----------------------------
(***************************************************************************)
(* What the kernel heap promises its clients, without blocks and lists:    *)
(* memory that is asked for lies inside the pool, clear of everything a    *)
(* client still has, and stays the client's until it is given back.        *)
(***************************************************************************)
EXTENDS Integers

CONSTANT Requests   \* the sizes asked for

VARIABLES
  memory,   \* addresses of the pool
  live      \* pointer -> number of bytes asked for

poolVars == <<memory, live>>

Extent(p, n) == p..(p + n - 1)

\* p may be answered to a request for n bytes while the pointers in S are taken.
Clear(p, n, S) ==
  /\ Extent(p, n) \subseteq memory
  /\ \A q \in S : Extent(p, n) \cap Extent(q, live[q]) = {}

\* The pointers in S, and p with n bytes.
With(p, n, S) == [q \in S \cup {p} |-> IF q = p THEN n ELSE live[q]]

Init == memory = {} /\ live = [q \in {} |-> 0]

Extend == memory \subseteq memory' /\ UNCHANGED live

\* A new allocation, or one that moves: the old memory is kept until the new is had.
Allocate(p, n) ==
  /\ Clear(p, n, DOMAIN live)
  /\ p \notin DOMAIN live
  /\ \/ live' = With(p, n, DOMAIN live)
     \/ \E q \in DOMAIN live : n > live[q] /\ live' = With(p, n, DOMAIN live \ {q})
  /\ UNCHANGED memory

ResizeInPlace(p, n) ==
  /\ p \in DOMAIN live
  /\ Clear(p, n, DOMAIN live \ {p})
  /\ live' = With(p, n, DOMAIN live)
  /\ UNCHANGED memory

Release(p) ==
  /\ p \in DOMAIN live
  /\ live' = [q \in DOMAIN live \ {p} |-> live[q]]
  /\ UNCHANGED memory

Next ==
  \/ Extend
  \/ \E p \in memory, n \in Requests : Allocate(p, n) \/ ResizeInPlace(p, n)
  \/ \E p \in DOMAIN live : Release(p)

Spec == Init /\ [][Next]_poolVars

=============================================================================
