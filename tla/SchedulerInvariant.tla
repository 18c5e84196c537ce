------------------------ MODULE SchedulerInvariant ------------------------
(***************************************************************************)
(* An inductive invariant of module Scheduler for Desktop = "never": what  *)
(* the stacks, the controllers and the thread table look like between any  *)
(* two steps of the machine while no program runs inside a keyboard        *)
(* interrupt.  It is what makes scheduler_schedule safe without a lock:    *)
(* every call of it finds the timer interrupt in service, so nothing can   *)
(* interrupt the call.                                                     *)
(***************************************************************************)
EXTENDS Scheduler

Bottom(s) == s[1]
Below(s) == s[Len(s) - 1]

\* The innermost frame of thread 0 that is not a call of scheduler_schedule.
Handler == IF Last(stack[0]).fn = "schedule" THEN Below(stack[0]) ELSE Last(stack[0])

InSchedule == Top.fn = "schedule"

\* The stack of thread 0: kmain at the bottom, interrupt frames above it, all of them
\* but the last about to return, and perhaps a call of scheduler_schedule on the last.
BootShape(s) ==
  /\ s # <<>>
  /\ Bottom(s).fn = "kmain" /\ Bottom(s).at \in {"create", "halt"}
  /\ \A i \in 2..Len(s) :
       \/ s[i].fn = "irq" /\ s[i].at = "iret"
       \/ s[i].fn = "irq" /\ s[i].at \in {"callback", "eoi"} /\ i = Len(s)
       \/ s[i].fn = "irq" /\ s[i].at = "eoi" /\ i + 1 = Len(s) /\ s[i + 1].fn = "schedule"
       \/ s[i].fn = "schedule" /\ i = Len(s)
  /\ Last(s).fn = "schedule" => Len(s) > 2

\* The stack of a worker: its entry function, and perhaps a call of scheduler_schedule
\* made by thread_sleep or thread_exit.
EntryFrame(f) == \/ f.fn = "trampoline" /\ f.at = "start"
                 \/ f.fn = "worker" /\ f.at \in {"run", "sleep"}
                 \/ f.fn = "thread_exit" /\ f.at = "halt"

WorkerShape(s) ==
  /\ s # <<>>
  /\ EntryFrame(Bottom(s))
  /\ Len(s) = 1 \/ Len(s) = 2
  /\ Len(s) = 2 => Last(s).fn = "schedule" /\ <<Bottom(s).fn, Bottom(s).at>> \in
                      {<<"worker", "run">>, <<"thread_exit", "halt">>}

Stacks ==
  /\ BootShape(stack[0])
  /\ \A t \in Workers : stack[t] # <<>> => WorkerShape(stack[t]) /\ job[t] > 0
  /\ \A t \in Threads : stack[t] # <<>> /\ Last(stack[t]).fn = "schedule" => t = cpu

\* While kmain creates the workers, interrupts are off and nothing else has run.
Booting ==
  Bottom(stack[0]).at = "create" =>
    /\ ~iflag /\ Len(stack[0]) = 1 /\ cpu = 0
    /\ \A t \in Workers : state[t] \in {"UNUSED", "READY"}

\* The controllers have in service what the innermost handler still has to end; off
\* the boot thread, and in scheduler_schedule, that is the timer interrupt.
InService ==
  /\ isr = IF Handler.fn = "irq" /\ Handler.at \in {"callback", "eoi"}
             THEN {Handler.line, Level(Handler.line)} ELSE {}
  /\ Handler.fn = "irq" /\ Handler.at = "callback" => cpu = 0 /\ ~iflag /\ ~InSchedule
  /\ Handler.fn = "irq" /\ Handler.at = "eoi" /\ Handler.line # Timer =>
       cpu = 0 /\ ~iflag /\ ~InSchedule
  /\ cpu # 0 \/ InSchedule =>
       Handler.fn = "irq" /\ Handler.at = "eoi" /\ Handler.line = Timer

\* The thread table agrees with the stacks.
Table ==
  /\ state[0] \in {"READY", "RUNNING"}
  /\ \A t \in Workers :
       /\ state[t] \in {"READY", "RUNNING", "SLEEPING"} =>
            stack[t] # <<>> /\ Bottom(stack[t]).fn \in {"trampoline", "worker"}
       /\ stack[t] # <<>> /\ Bottom(stack[t]).at = "sleep" => t = cpu /\ ~InSchedule
       /\ /\ state[t] \in {"READY", "RUNNING"}
          /\ Bottom(stack[t]).at # "sleep"
          => until[t] <= ticks

\* Outside scheduler_schedule the thread on the CPU is the one marked running.
Running ==
  ~InSchedule => /\ cpu = current
                 /\ \A t \in Threads : state[t] = "RUNNING" <=> t = current

\* Inside it, each phase knows what the earlier ones found.
Scheduling ==
  InSchedule =>
    /\ Top.at \in {"wake", "scan", "none", "found", "switch", "wait", "armed", "halt"}
    /\ Top.at # "switch" =>
         /\ current = cpu
         /\ \A t \in Threads : state[t] = "RUNNING" => t = cpu
         /\ cpu # 0 => state[cpu] # "RUNNING"
    /\ Top.at \in {"none", "found", "switch", "wait", "armed", "halt"} => Top.prev = cpu
    /\ Top.at = "found" => Top.next = 0 \/ state[Top.next] = "READY"
    /\ Top.at = "switch" =>
         /\ current = Top.next /\ Top.next # cpu
         /\ \A t \in Threads : state[t] = "RUNNING" <=> t = Top.next
         /\ slice[Top.next] = TimeSlice
    /\ Top.at \in {"wait", "armed", "halt"} => state[cpu] = "SLEEPING"
    /\ Top.at \in {"scan", "none", "found", "switch"} =>
         \A t \in Threads : state[t] = "SLEEPING" => ticks < until[t]
    /\ Top.at \in {"wait", "armed", "halt"} =>
         \A t \in Threads \ {cpu} : state[t] = "SLEEPING" => ticks < until[t]

\* A sleeper that is due has been due for less time than the slice has been used.
Latency ==
  ~InSchedule => \A t \in Threads :
                   state[t] = "SLEEPING" => ticks + slice[current] < until[t] + TimeSlice

IInv ==
  /\ TypeOK
  /\ Stacks
  /\ Booting
  /\ InService
  /\ Table
  /\ Running
  /\ Scheduling
  /\ OwnStack
  /\ Latency

=============================================================================
