--------------------------- MODULE WorkerContract ---------------------------
(***************************************************************************)
(* What the scheduler promises the worker threads, without interrupts,     *)
(* stacks or time slices: a worker does its cycles in order, sleeps in     *)
(* each for at least the ticks of its period, and does nothing once it     *)
(* has exited.                                                             *)
(***************************************************************************)
EXTENDS Integers

CONSTANTS
  Slots,    \* the slots a worker can be created in
  Rounds,   \* cycles of a worker
  Period    \* ticks a worker of each kind sleeps per cycle, indexed by kind

VARIABLES
  now,      \* ticks counted
  kind,     \* the kind of worker in a slot, 0 before there is one
  todo,     \* cycles it still has to do
  wake,     \* the tick before which it does nothing
  ended     \* slots whose worker has exited

contractVars == <<now, kind, todo, wake, ended>>

Init ==
  /\ now = 0
  /\ kind = [t \in Slots |-> 0]
  /\ todo = [t \in Slots |-> 0]
  /\ wake = [t \in Slots |-> 0]
  /\ ended = {}

Awake(t) == kind[t] # 0 /\ t \notin ended /\ now >= wake[t]

Tick ==
  /\ now' = now + 1
  /\ UNCHANGED <<kind, todo, wake, ended>>

Create(t) ==
  /\ kind[t] = 0 \/ t \in ended
  /\ \E k \in DOMAIN Period : kind' = [kind EXCEPT ![t] = k]
  /\ todo' = [todo EXCEPT ![t] = Rounds]
  /\ wake' = [wake EXCEPT ![t] = 0]
  /\ ended' = ended \ {t}
  /\ UNCHANGED now

Cycle(t) ==
  /\ Awake(t)
  /\ todo[t] > 0
  /\ todo' = [todo EXCEPT ![t] = @ - 1]
  /\ wake' = [wake EXCEPT ![t] = now + Period[kind[t]]]
  /\ UNCHANGED <<now, kind, ended>>

Exit(t) ==
  /\ Awake(t)
  /\ todo[t] = 0
  /\ ended' = ended \cup {t}
  /\ UNCHANGED <<now, kind, todo, wake>>

Next == Tick \/ \E t \in Slots : Create(t) \/ Cycle(t) \/ Exit(t)

Spec == Init /\ [][Next]_contractVars

=============================================================================
