--------------------------- MODULE FrameAllocator ---------------------------
(***************************************************************************)
(* What an allocator of page frames promises its clients, without bitmap,  *)
(* counters or search order: a request gets frames nobody has, in one run, *)
(* and is refused only when there is no such run; frames given back can be *)
(* had again.                                                              *)
(***************************************************************************)
EXTENDS Integers

CONSTANT MaxRun   \* the longest run that is asked for

VARIABLES
  avail,    \* frames that can be had
  held,     \* frames clients have
  answer    \* what the last call asked for and got

allocatorVars == <<avail, held, answer>>

Init ==
  /\ avail \subseteq Nat
  /\ held = {}
  /\ answer = [asked |-> 0, got |-> {}]

Grant(n) ==
  \E s \in avail :
    /\ s..(s + n - 1) \subseteq avail
    /\ avail' = avail \ s..(s + n - 1)
    /\ held' = held \cup s..(s + n - 1)
    /\ answer' = [asked |-> n, got |-> s..(s + n - 1)]

Refuse(n) ==
  /\ ~\E s \in avail : s..(s + n - 1) \subseteq avail
  /\ answer' = [asked |-> n, got |-> {}]
  /\ UNCHANGED <<avail, held>>

Release(run) ==
  /\ avail' = avail \cup run
  /\ held' = held \ run
  /\ answer' = [asked |-> 0, got |-> {}]

Next ==
  \/ \E n \in 1..MaxRun : Grant(n) \/ Refuse(n)
  \/ \E run \in SUBSET held : Release(run)

Spec == Init /\ [][Next]_allocatorVars

=============================================================================
