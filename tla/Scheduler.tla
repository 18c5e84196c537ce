----------------------------- MODULE Scheduler -----------------------------
(***************************************************************************)
(* The thread scheduler of the kernel with everything that drives it: the  *)
(* boot thread, the worker threads, the interrupt stubs and dispatcher,    *)
(* the timer, keyboard and mouse handlers, the desktop loop and the        *)
(* assembly context switch, on one CPU behind the interrupt controllers    *)
(* of module Pic.                                                          *)
(*                                                                         *)
(* The CPU executes the frame on top of the stack it is on.  A frame is a  *)
(* function that has not returned, "at" the step it does next, with the    *)
(* locals that outlive a step.  Interrupt frames lie on the stack of the   *)
(* thread they interrupted, and a context switch leaves a stack with       *)
(* whatever is on it: both are how the code behaves, and most of what can  *)
(* go wrong in it.                                                         *)
(***************************************************************************)
EXTENDS Pic, Sequences

CONSTANTS
  MaxThreads,   \* MAX_THREADS
  TimeSlice,    \* DEFAULT_TIME_SLICE
  Jobs,         \* the workers kmain creates: what each sleeps per cycle, in ms
  Cycles,       \* cycles of a worker's loop
  AllocOutcomes,\* what kmalloc may answer for a stack: subset of BOOLEAN
  Desktop,      \* may "gui" be typed: "never", "late" (no worker is left), "any"
  MaxTicks,     \* bound: timer interrupts handled
  MaxInput      \* bound: keyboard and mouse interrupts raised

ASSUME ThreadsAssumption == MaxThreads \in Nat \ {0} /\ TimeSlice \in Nat \ {0}
ASSUME JobsAssumption == Jobs \in Seq(Nat) /\ Cycles \in Nat
ASSUME AllocAssumption == AllocOutcomes \subseteq BOOLEAN
ASSUME DesktopAssumption == Desktop \in {"never", "late", "any"}
ASSUME BoundsAssumption == MaxTicks \in Nat /\ MaxInput \in Nat

VARIABLES
  state,    \* thread_t.state of each slot of g_threads
  slice,    \* thread_t.time_slice
  until,    \* thread_t.sleep_until_ticks
  rsp,      \* thread_t.rsp: the stack whose top holds the saved context
  job,      \* the element of Jobs the thread runs (its entry function), 0 for none
  left,     \* cycles the worker still has to do: its loop counter
  stack,    \* the frames on each thread's stack, the innermost last
  current,  \* g_current_thread
  ticks,    \* g_timer_ticks
  cpu,      \* the stack the CPU is on
  iflag,    \* the interrupt flag of RFLAGS
  made,     \* thread_create calls kmain has made
  inputs    \* keyboard and mouse interrupts raised so far (bounds the model)

threadVars == <<state, slice, until, rsp, current>>
workVars == <<job, left, made>>
vars == <<state, slice, until, rsp, current, job, left, made, stack, ticks,
          cpu, iflag, inputs, irr, isr, imr>>

Threads == 0..(MaxThreads - 1)
Workers == Threads \ {0}
States == {"UNUSED", "READY", "RUNNING", "SLEEPING", "TERMINATED"}

-----------------------------------------------------------------------------
\* Frames and stacks.

Functions == {"kmain", "trampoline", "worker", "thread_exit", "desktop", "irq", "schedule"}
Steps == {"create", "halt", "start", "run", "sleep", "callback", "eoi", "iret",
          "wake", "scan", "none", "found", "switch", "wait", "armed"}

Frame == [fn : Functions, at : Steps, line : Lines, prev : Threads, next : Threads]

Call(f, a) == [fn |-> f, at |-> a, line |-> 0, prev |-> 0, next |-> 0]
Irq(l) == [fn |-> "irq", at |-> "callback", line |-> l, prev |-> 0, next |-> 0]
Schedule == Call("schedule", "wake")
Scheduled(a, p, n) == [fn |-> "schedule", at |-> a, line |-> 0, prev |-> p, next |-> n]

Last(s) == s[Len(s)]
Return(s) == SubSeq(s, 1, Len(s) - 1)
Replace(s, f) == [s EXCEPT ![Len(s)] = f]
Jump(s, a) == Replace(s, [Last(s) EXCEPT !.at = a])

Here == stack[cpu]
Top == Last(Here)
At(f, a) == Top.fn = f /\ Top.at = a

\* The CPU stays on its stack and leaves s on it.
Continue(s) == stack' = [stack EXCEPT ![cpu] = s] /\ UNCHANGED cpu

-----------------------------------------------------------------------------
\* The state once kmain is through scheduler_init: the controllers programmed,
\* the handlers of lines 0, 1 and 12 registered, interrupts still disabled.
Init ==
  /\ state = [t \in Threads |-> IF t = 0 THEN "RUNNING" ELSE "UNUSED"]
  /\ slice = [t \in Threads |-> IF t = 0 THEN TimeSlice ELSE 0]
  /\ until = [t \in Threads |-> 0]
  /\ rsp = [t \in Threads |-> t]
  /\ job = [t \in Threads |-> 0]
  /\ left = [t \in Threads |-> 0]
  /\ stack = [t \in Threads |-> IF t = 0 THEN <<Call("kmain", "create")>> ELSE <<>>]
  /\ current = 0
  /\ ticks = 0
  /\ cpu = 0
  /\ iflag = FALSE
  /\ made = 0
  /\ inputs = 0
  /\ irr = {}
  /\ isr = {}
  /\ imr = Unmask(Unmask(Unmask(InitialMask, Keyboard), Cascade), Mouse)

-----------------------------------------------------------------------------
\* thread_create, as kmain calls it.

FreeSlots == {i \in Workers : state[i] \in {"UNUSED", "TERMINATED"}}

\* The first free slot gets a stack with the context the trampoline starts from.
ThreadCreated(s) ==
  /\ state' = [state EXCEPT ![s] = "READY"]
  /\ slice' = [slice EXCEPT ![s] = TimeSlice]
  /\ until' = [until EXCEPT ![s] = 0]
  /\ rsp' = [rsp EXCEPT ![s] = s]
  /\ job' = [job EXCEPT ![s] = made + 1]
  /\ left' = [left EXCEPT ![s] = Cycles]
  /\ stack' = [stack EXCEPT ![s] = <<Call("trampoline", "start")>>]

\* The slot was wiped before its stack was asked for.
StackRefused(s) ==
  /\ state' = [state EXCEPT ![s] = "UNUSED"]
  /\ slice' = [slice EXCEPT ![s] = 0]
  /\ until' = [until EXCEPT ![s] = 0]
  /\ UNCHANGED <<rsp, job, left, stack>>

ThreadCreate ==
  /\ At("kmain", "create")
  /\ made < Len(Jobs)
  /\ made' = made + 1
  /\ \/ \E s \in Highest(FreeSlots), ok \in AllocOutcomes :
          IF ok THEN ThreadCreated(s) ELSE StackRefused(s)
     \/ /\ FreeSlots = {}
        /\ UNCHANGED <<state, slice, until, rsp, job, left, stack>>
  /\ UNCHANGED <<current, cpu, ticks, iflag, inputs, picVars>>

\* kmain enables interrupts, starts the shell and idles in hlt.
EnableInterrupts ==
  /\ At("kmain", "create")
  /\ made = Len(Jobs)
  /\ iflag' = TRUE
  /\ Continue(Jump(Here, "halt"))
  /\ UNCHANGED <<threadVars, workVars, ticks, inputs, picVars>>

-----------------------------------------------------------------------------
\* The devices and the interrupt stubs.

TimerRaise ==
  /\ ticks < MaxTicks
  /\ Timer \notin irr
  /\ Raise(Timer)
  /\ UNCHANGED <<threadVars, workVars, stack, ticks, cpu, iflag, inputs>>

InputRaise ==
  /\ inputs < MaxInput
  /\ inputs' = inputs + 1
  /\ \E l \in {Keyboard, Mouse} : l \notin irr /\ Raise(l)
  /\ UNCHANGED <<threadVars, workVars, stack, ticks, cpu, iflag>>

\* An interrupt ends the hlt it finds: the wait loop of scheduler_schedule tests
\* the clock again, the idle loops halt again.
Resumed(s) == IF Last(s).fn = "schedule" /\ Last(s).at = "halt" THEN Jump(s, "wait") ELSE s

\* Every gate is an interrupt gate: the handler starts with IF clear.
Interrupt ==
  \E l \in Presented :
    /\ iflag
    /\ iflag' = FALSE
    /\ Acknowledge(l)
    /\ Continue(Append(Resumed(Here), Irq(l)))
    /\ UNCHANGED <<threadVars, workVars, ticks, inputs>>

\* Mutant: the end of interrupt is sent before the reschedule.
TimerCallbackEoiFirst ==
  LET rest == IF slice[current] > 0 THEN slice[current] - 1 ELSE 0
  IN /\ At("irq", "callback")
     /\ Top.line = Timer
     /\ ticks' = ticks + 1
     /\ slice' = [slice EXCEPT ![current] = rest]
     /\ SendEoi(Timer)
     /\ IF rest = 0
          THEN Continue(Append(Jump(Here, "iret"), Schedule))
          ELSE Continue(Jump(Here, "iret"))
     /\ UNCHANGED <<state, until, rsp, current, workVars, iflag, inputs>>

\* timer_callback: count the tick, charge it to the current thread, reschedule
\* when its slice is used up.
TimerCallback ==
  LET rest == IF slice[current] > 0 THEN slice[current] - 1 ELSE 0
  IN /\ At("irq", "callback")
     /\ Top.line = Timer
     /\ ticks' = ticks + 1
     /\ slice' = [slice EXCEPT ![current] = rest]
     /\ IF rest = 0
          THEN Continue(Append(Jump(Here, "eoi"), Schedule))
          ELSE Continue(Jump(Here, "eoi"))
     /\ UNCHANGED <<state, until, rsp, current, workVars, iflag, inputs, picVars>>

\* The keyboard and mouse handlers, where they do not start the desktop.
InputCallback ==
  /\ At("irq", "callback")
  /\ Top.line # Timer
  /\ Continue(Jump(Here, "eoi"))
  /\ UNCHANGED <<threadVars, workVars, ticks, iflag, inputs, picVars>>

\* Enter after "gui": the shell runs inside the keyboard handler, and so does
\* the desktop loop, which never returns.
StartDesktop ==
  /\ At("irq", "callback")
  /\ Top.line = Keyboard
  /\ \/ Desktop = "any"
     \/ Desktop = "late" /\ \A t \in Workers : state[t] \in {"UNUSED", "TERMINATED"}
  /\ Continue(Append(Jump(Here, "eoi"), Call("desktop", "run")))
  /\ UNCHANGED <<threadVars, workVars, ticks, iflag, inputs, picVars>>

EndOfInterrupt ==
  /\ At("irq", "eoi")
  /\ SendEoi(Top.line)
  /\ Continue(Jump(Here, "iret"))
  /\ UNCHANGED <<threadVars, workVars, ticks, iflag, inputs>>

\* iretq restores the RFLAGS of the interrupted code, which had IF set.
InterruptReturn ==
  /\ At("irq", "iret")
  /\ iflag' = TRUE
  /\ Continue(Return(Here))
  /\ UNCHANGED <<threadVars, workVars, ticks, inputs, picVars>>

-----------------------------------------------------------------------------
\* scheduler_schedule, in the steps an interrupt can come between.

\* Mutant: the sleepers due at the next tick are woken too.
WakeSleepersEarly ==
  /\ At("schedule", "wake")
  /\ state' = [t \in Threads |->
                 IF state[t] = "SLEEPING" /\ ticks + 1 >= until[t] THEN "READY" ELSE state[t]]
  /\ Continue(Jump(Here, "scan"))
  /\ UNCHANGED <<slice, until, rsp, current, workVars, ticks, iflag, inputs, picVars>>

\* Mutant: a sleeper is woken one tick after it is due.
WakeSleepersLate ==
  /\ At("schedule", "wake")
  /\ state' = [t \in Threads |->
                 IF state[t] = "SLEEPING" /\ ticks > until[t] THEN "READY" ELSE state[t]]
  /\ Continue(Jump(Here, "scan"))
  /\ UNCHANGED <<slice, until, rsp, current, workVars, ticks, iflag, inputs, picVars>>

\* Mutant: nobody looks at the sleepers.
WakeSleepersNever ==
  /\ At("schedule", "wake")
  /\ Continue(Jump(Here, "scan"))
  /\ UNCHANGED <<threadVars, workVars, ticks, iflag, inputs, picVars>>

WakeSleepers ==
  /\ At("schedule", "wake")
  /\ state' = [t \in Threads |->
                 IF state[t] = "SLEEPING" /\ ticks >= until[t] THEN "READY" ELSE state[t]]
  /\ Continue(Jump(Here, "scan"))
  /\ UNCHANGED <<slice, until, rsp, current, workVars, ticks, iflag, inputs, picVars>>

\* Places after p in round-robin order: 1 for its successor, MaxThreads for p itself.
Distance(p, t) == IF t > p THEN t - p ELSE t - p + MaxThreads

NextReady(p) ==
  {n \in Threads :
     /\ state[n] = "READY"
     /\ \A t \in Threads : state[t] = "READY" => Distance(p, n) <= Distance(p, t)}

Scan ==
  /\ At("schedule", "scan")
  /\ \/ \E n \in NextReady(current) : Continue(Replace(Here, Scheduled("found", current, n)))
     \/ NextReady(current) = {} /\ Continue(Replace(Here, Scheduled("none", current, 0)))
  /\ UNCHANGED <<threadVars, workVars, ticks, iflag, inputs, picVars>>

\* The thread runs on with a fresh slice: scheduler_schedule returns to it.
KeepRunning(t) ==
  /\ state' = [state EXCEPT ![t] = "RUNNING"]
  /\ slice' = [slice EXCEPT ![t] = TimeSlice]
  /\ Continue(Return(Here))

NoneReady ==
  /\ At("schedule", "none")
  /\ \/ /\ state[Top.prev] \in {"RUNNING", "READY"}
        /\ KeepRunning(Top.prev)
     \/ /\ state[Top.prev] = "SLEEPING"
        /\ Continue(Jump(Here, "wait"))
        /\ UNCHANGED <<state, slice>>
     \/ /\ state[Top.prev] \in {"UNUSED", "TERMINATED"}
        /\ Continue(Replace(Here, Scheduled("found", Top.prev, 0)))
        /\ UNCHANGED <<state, slice>>
  /\ UNCHANGED <<until, rsp, current, workVars, ticks, iflag, inputs, picVars>>

\* Mutant: hlt without the sti before it.
WaitForTickNoSti ==
  /\ At("schedule", "wait")
  /\ \/ /\ ticks < until[Top.prev]
        /\ Continue(Jump(Here, IF iflag THEN "armed" ELSE "halt"))
        /\ UNCHANGED <<state, slice>>
     \/ /\ ticks >= until[Top.prev]
        /\ KeepRunning(Top.prev)
  /\ UNCHANGED <<until, rsp, current, workVars, ticks, iflag, inputs, picVars>>

\* while (timer_get_ticks() < prev->sleep_until_ticks) sti; hlt.  An sti that sets the
\* flag lets nothing in before the hlt; one that finds it set does, from the second time
\* round, and a tick that comes there is not waited for but missed.
WaitForTick ==
  /\ At("schedule", "wait")
  /\ \/ /\ ticks < until[Top.prev]
        /\ iflag' = TRUE
        /\ Continue(Jump(Here, IF iflag THEN "armed" ELSE "halt"))
        /\ UNCHANGED <<state, slice>>
     \/ /\ ticks >= until[Top.prev]
        /\ KeepRunning(Top.prev)
        /\ UNCHANGED iflag
  /\ UNCHANGED <<until, rsp, current, workVars, ticks, inputs, picVars>>

\* The hlt after an sti that changed nothing.
Halt ==
  /\ At("schedule", "armed")
  /\ Continue(Jump(Here, "halt"))
  /\ UNCHANGED <<threadVars, workVars, ticks, iflag, inputs, picVars>>

\* Mutant: prev stays in RUNNING.
CommitNoDemote ==
  /\ At("schedule", "found")
  /\ IF Top.next = Top.prev
       THEN KeepRunning(Top.prev) /\ UNCHANGED current
       ELSE /\ state' = [state EXCEPT ![Top.next] = "RUNNING"]
            /\ slice' = [slice EXCEPT ![Top.next] = TimeSlice]
            /\ current' = Top.next
            /\ Continue(Jump(Here, "switch"))
  /\ UNCHANGED <<until, rsp, workVars, ticks, iflag, inputs, picVars>>

\* Mutant: prev becomes READY whatever it was, a sleeper included.
CommitAlwaysReady ==
  /\ At("schedule", "found")
  /\ IF Top.next = Top.prev
       THEN KeepRunning(Top.prev) /\ UNCHANGED current
       ELSE /\ state' = [state EXCEPT ![Top.prev] = "READY", ![Top.next] = "RUNNING"]
            /\ slice' = [slice EXCEPT ![Top.next] = TimeSlice]
            /\ current' = Top.next
            /\ Continue(Jump(Here, "switch"))
  /\ UNCHANGED <<until, rsp, workVars, ticks, iflag, inputs, picVars>>

Commit ==
  /\ At("schedule", "found")
  /\ IF Top.next = Top.prev
       THEN KeepRunning(Top.prev) /\ UNCHANGED current
       ELSE /\ state' = [t \in Threads |->
                           IF t = Top.next THEN "RUNNING"
                           ELSE IF t = Top.prev /\ state[t] = "RUNNING" THEN "READY"
                           ELSE state[t]]
            /\ slice' = [slice EXCEPT ![Top.next] = TimeSlice]
            /\ current' = Top.next
            /\ Continue(Jump(Here, "switch"))
  /\ UNCHANGED <<until, rsp, workVars, ticks, iflag, inputs, picVars>>

\* Every saved context lies on the stack of the thread that owns it: no switch in
\* scheduler_schedule ever saves one thread's stack pointer under another.
OwnStack == \A t \in Threads : rsp[t] = t

\* Mutant: the stack pointer is saved after g_current_thread has moved on.
ContextSwitchSaveLate ==
  /\ At("schedule", "switch")
  /\ OwnStack
  /\ rsp' = [rsp EXCEPT ![Top.next] = cpu]
  /\ cpu' = rsp[Top.next]
  /\ stack' = [stack EXCEPT ![cpu] = Return(@)]
  /\ UNCHANGED <<state, slice, until, current, workVars, ticks, iflag, inputs, picVars>>

\* context_switch saves the stack pointer under prev, loads next's and returns on
\* next's stack; scheduler_schedule has nothing left to do when prev is resumed.
\* RFLAGS is not part of the saved context.  The model ends at the first switch after
\* a context was saved on a foreign stack: what the stacks hold is then undefined.
ContextSwitch ==
  /\ At("schedule", "switch")
  /\ OwnStack
  /\ rsp' = [rsp EXCEPT ![Top.prev] = cpu]
  /\ cpu' = rsp[Top.next]
  /\ stack' = [stack EXCEPT ![cpu] = Return(@)]
  /\ UNCHANGED <<state, slice, until, current, workVars, ticks, iflag, inputs, picVars>>

-----------------------------------------------------------------------------
\* The code of the threads.

Trampoline ==
  /\ At("trampoline", "start")
  /\ iflag' = TRUE
  /\ Continue(Replace(Here, Call("worker", "run")))
  /\ UNCHANGED <<threadVars, workVars, ticks, inputs, picVars>>

\* 100 ticks a second; a sleep lasts at least one.
SleepTicks(ms) == IF (ms * 100) \div 1000 = 0 THEN 1 ELSE (ms * 100) \div 1000

\* A worker's cycle, up to the deadline thread_sleep sets.  One that computes for long is
\* this step taken late: no interrupt comes in meanwhile (SchedulerProofs, WorkersRunOn).
\* That it ends, and in thread_sleep, is how kmain's workers are written ...
WorkerCycle ==
  /\ At("worker", "run")
  /\ left[cpu] > 0
  /\ left' = [left EXCEPT ![cpu] = @ - 1]
  /\ until' = [until EXCEPT ![current] = ticks + SleepTicks(Jobs[job[cpu]])]
  /\ Continue(Jump(Here, "sleep"))
  /\ UNCHANGED <<state, slice, rsp, current, job, made, ticks, iflag, inputs, picVars>>

\* ... and a frame of the desktop, which sleeps 16 ms.
DesktopCycle ==
  /\ At("desktop", "run")
  /\ until' = [until EXCEPT ![current] = ticks + SleepTicks(16)]
  /\ Continue(Jump(Here, "sleep"))
  /\ UNCHANGED <<state, slice, rsp, current, workVars, ticks, iflag, inputs, picVars>>

\* thread_sleep gives the CPU away.
GoToSleep ==
  /\ Top.fn \in {"worker", "desktop"} /\ Top.at = "sleep"
  /\ state' = [state EXCEPT ![current] = "SLEEPING"]
  /\ Continue(Append(Jump(Here, "run"), Schedule))
  /\ UNCHANGED <<slice, until, rsp, current, workVars, ticks, iflag, inputs, picVars>>

\* Mutant: the thread gives the CPU away without leaving the table.
ThreadExitYields ==
  /\ At("worker", "run")
  /\ left[cpu] = 0
  /\ Continue(Append(Replace(Here, Call("thread_exit", "halt")), Schedule))
  /\ UNCHANGED <<threadVars, workVars, ticks, iflag, inputs, picVars>>

\* The entry function returns to the trampoline, which calls thread_exit.
ThreadExit ==
  /\ At("worker", "run")
  /\ left[cpu] = 0
  /\ state' = [state EXCEPT ![current] = "TERMINATED"]
  /\ Continue(Append(Replace(Here, Call("thread_exit", "halt")), Schedule))
  /\ UNCHANGED <<slice, until, rsp, current, workVars, ticks, iflag, inputs, picVars>>

-----------------------------------------------------------------------------
ScheduleStep == WakeSleepers \/ Scan \/ NoneReady \/ WaitForTick \/ Halt \/ Commit \/ ContextSwitch
HandlerStep == TimerCallback \/ InputCallback \/ StartDesktop \/ EndOfInterrupt \/ InterruptReturn
ThreadStep == ThreadCreate \/ EnableInterrupts \/ Trampoline \/ WorkerCycle
                \/ DesktopCycle \/ GoToSleep \/ ThreadExit

CpuStep == ScheduleStep \/ HandlerStep \/ ThreadStep

Next == CpuStep \/ Interrupt \/ TimerRaise \/ InputRaise

Spec == Init /\ [][Next]_vars

\* The CPU keeps executing, takes the interrupts it may take, and the timer ticks.
FairSpec ==
  Spec /\ WF_vars(CpuStep) /\ WF_vars(Interrupt) /\ WF_vars(TimerRaise)

-----------------------------------------------------------------------------
\* Properties.

TypeOK ==
  /\ state \in [Threads -> States]
  /\ slice \in [Threads -> 0..TimeSlice]
  /\ until \in [Threads -> Nat]
  /\ rsp \in [Threads -> Threads]
  /\ job \in [Threads -> 0..Len(Jobs)]
  /\ left \in [Threads -> 0..Cycles]
  /\ stack \in [Threads -> Seq(Frame)]
  /\ current \in Threads /\ cpu \in Threads
  /\ stack[cpu] # <<>>
  /\ ticks \in Nat /\ made \in 0..Len(Jobs) /\ inputs \in Nat
  /\ iflag \in BOOLEAN
  /\ PicTypeOK

\* No call of scheduler_schedule is under way on the stack the CPU is on.
Settled == \A i \in 1..Len(Here) : Here[i].fn # "schedule"

\* The bookkeeping agrees with the machine whenever thread or handler code runs: the
\* CPU is on the stack of g_current_thread, and that is the one thread in RUNNING
\* (scheduler.c sets three variables and swaps two stacks to get there).
OneRunning ==
  Settled => /\ cpu = current
             /\ \A t \in Threads : state[t] = "RUNNING" <=> t = current

Frames(t) == {stack[t][i] : i \in 1..Len(stack[t])}
AwaitingEoi == {f \in UNION {Frames(t) : t \in Threads} :
                  f.fn = "irq" /\ f.at \in {"callback", "eoi"}}

\* The controllers and the stacks agree on what is in service, although the end of
\* interrupt names no line and handlers may be switched away from before they send it.
EoiBalanced == isr = UNION {{f.line, Level(f.line)} : f \in AwaitingEoi}

\* scheduler_schedule, which takes no lock, is never entered while a call of it is
\* under way on the CPU, and nothing can interrupt it.
NotReentered ==
  /\ \A t \in Threads : \A i \in 1..Len(stack[t]) :
       stack[t][i].fn = "schedule" => t = cpu /\ i = Len(Here)
  /\ ~Settled => Presented = {}

\* A thread that called thread_sleep executes its next cycle no earlier than the
\* tick it asked for (scheduler.h: sleep for the specified duration).
SleepRespected == Top.fn \in {"worker", "desktop"} /\ Top.at = "run" => ticks >= until[cpu]

\* thread_exit does not return from scheduler_schedule ("Should never reach here").
ExitIsFinal == ~At("thread_exit", "halt")

\* Wake-ups are late by less than a slice: a sleeper that is due has been due for less
\* time than the running thread has used of its slice, so the schedule at the end of
\* the slice finds it (nothing else in the code looks at the sleepers).
WakeLatency ==
  Settled => \A t \in Threads :
               state[t] = "SLEEPING" => ticks + slice[current] < until[t] + TimeSlice

\* Every worker that was created runs its cycles and exits.
WorkersFinish ==
  \A t \in Threads : job[t] > 0 ~> state[t] = "TERMINATED" /\ left[t] = 0

\* A sleeper whose deadline lies a slice before the last tick gets the CPU back.
SleeperWakes ==
  \A t \in Threads :
    state[t] = "SLEEPING" /\ until[t] + TimeSlice <= MaxTicks ~> state[t] = "RUNNING"

\* The desktop can be told of mouse movements while it runs (README: PS/2 mouse driver on
\* IRQ12, window manager with draggable windows).
DesktopHearsMouse == Top.fn = "desktop" => ~HeldBack(Mouse)

\* A keystroke and a mouse movement reach their handlers, whatever the workers do: the
\* request is acknowledged.
InputServed == \A line \in {Keyboard, Mouse} : line \in irr ~> line \notin irr

-----------------------------------------------------------------------------
\* The workers see a scheduler that keeps the contract: interrupts, switches and the
\* stacks they leave behind never let a cycle run early, twice or after the exit.
Contract == INSTANCE WorkerContract WITH
  Slots  <- Workers,
  Rounds <- Cycles,
  Period <- [j \in DOMAIN Jobs |-> SleepTicks(Jobs[j])],
  now    <- ticks,
  kind   <- [t \in Workers |-> job[t]],
  todo   <- [t \in Workers |-> left[t]],
  wake   <- [t \in Workers |-> until[t]],
  ended  <- {t \in Workers : state[t] = "TERMINATED"}

KeepsContract == Contract!Spec

=============================================================================
