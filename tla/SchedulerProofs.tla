-------------------------- MODULE SchedulerProofs --------------------------
(***************************************************************************)
(* The invariant of module SchedulerInvariant is inductive, for every      *)
(* number of threads, jobs, cycles and ticks, and what follows from it for *)
(* the scheduler while the desktop is not started: that it implements the  *)
(* contract of module WorkerContract, too.  First come lemmas on what the  *)
(* stack operators do, and that they keep the shapes of the stacks.        *)
(***************************************************************************)
EXTENDS SchedulerInvariant, SequenceTheorems, TLAPS

-----------------------------------------------------------------------------
(* Calls and returns build frames and stacks.                              *)

\* The frames the code pushes are frames.
LEMMA CallIsFrame ==
  /\ \A f \in Functions, a \in Steps : Call(f, a) \in Frame
  /\ Schedule \in Frame
  /\ \A l \in Lines : Irq(l) \in Frame
  /\ \A a \in Steps, p, n \in Threads : Scheduled(a, p, n) \in Frame
<1>1. 0 \in Lines /\ 0 \in Threads
  BY ThreadsAssumption DEF Lines, Threads
<1>2. \A f \in Functions, a \in Steps : Call(f, a) \in Frame
  BY <1>1 DEF Call, Frame
<1>3. QED BY <1>1, <1>2 DEF Schedule, Irq, Scheduled, Frame, Functions, Steps

\* A stack in use has a last frame.
LEMMA LastInFrame ==
  ASSUME NEW s \in Seq(Frame), s # <<>>
  PROVE  /\ Len(s) \in Nat \ {0} /\ Len(s) \in 1..Len(s)
         /\ Last(s) \in Frame /\ Bottom(s) \in Frame
         /\ Len(s) = 1 => Last(s) = Bottom(s)
BY DEF Last, Bottom

\* Replacing the last frame keeps the others.
LEMMA ReplaceLemma ==
  ASSUME NEW s \in Seq(Frame), s # <<>>, NEW f \in Frame
  PROVE  /\ Replace(s, f) \in Seq(Frame) /\ Replace(s, f) # <<>>
         /\ Len(Replace(s, f)) = Len(s)
         /\ \A i \in 1..Len(s) : Replace(s, f)[i] = IF i = Len(s) THEN f ELSE s[i]
         /\ Last(Replace(s, f)) = f
         /\ Len(s) # 1 => Bottom(Replace(s, f)) = Bottom(s) /\ Below(Replace(s, f)) = Below(s)
<1> DEFINE r == Replace(s, f)
           n == Len(s)
<1>1. n \in Nat \ {0} /\ n \in 1..n
  BY LastInFrame
<1>2. r \in Seq(Frame) /\ Len(r) = n /\ \A i \in 1..n : r[i] = IF i = n THEN f ELSE s[i]
  BY <1>1, ExceptSeq DEF Replace
<1>3. r # <<>>
  BY <1>1, <1>2
<1>4. r[n] = f
  BY <1>1, <1>2
<1>5. n # 1 => r[1] = s[1] /\ r[n - 1] = s[n - 1]
  <2> HIDE DEF n, r
  <2> SUFFICES ASSUME n # 1 PROVE r[1] = s[1] /\ r[n - 1] = s[n - 1]
    OBVIOUS
  <2>1. 1 \in 1..n /\ n - 1 \in 1..n /\ n - 1 # n
    BY <1>1
  <2>2. QED BY <1>2, <2>1
<1>6. QED BY <1>2, <1>3, <1>4, <1>5 DEF Last, Bottom, Below

\* A jump changes the step of the last frame and nothing else.
LEMMA JumpLemma ==
  ASSUME NEW s \in Seq(Frame), s # <<>>, NEW a \in Steps
  PROVE  /\ Jump(s, a) \in Seq(Frame) /\ Jump(s, a) # <<>>
         /\ Len(Jump(s, a)) = Len(s)
         /\ \A i \in 1..Len(s) :
              Jump(s, a)[i] = IF i = Len(s) THEN [Last(s) EXCEPT !.at = a] ELSE s[i]
         /\ Last(Jump(s, a)) = [Last(s) EXCEPT !.at = a]
         /\ Len(s) # 1 => Bottom(Jump(s, a)) = Bottom(s) /\ Below(Jump(s, a)) = Below(s)
<1>1. [Last(s) EXCEPT !.at = a] \in Frame
  BY LastInFrame DEF Frame
<1>2. QED BY <1>1, ReplaceLemma DEF Jump

\* A call puts a frame on top of the last one.
LEMMA AppendLemma ==
  ASSUME NEW s \in Seq(Frame), s # <<>>, NEW f \in Frame
  PROVE  /\ Append(s, f) \in Seq(Frame) /\ Append(s, f) # <<>>
         /\ Len(Append(s, f)) = Len(s) + 1
         /\ \A i \in 1..Len(s) : Append(s, f)[i] = s[i]
         /\ Append(s, f)[Len(s) + 1] = f
         /\ Last(Append(s, f)) = f
         /\ Bottom(Append(s, f)) = Bottom(s) /\ Below(Append(s, f)) = Last(s)
<1> DEFINE r == Append(s, f)
           n == Len(s)
<1>1. n \in Nat \ {0} /\ n \in 1..n
  BY LastInFrame
<1>2. /\ r \in Seq(Frame) /\ r # <<>> /\ Len(r) = n + 1 /\ r[n + 1] = f
      /\ \A i \in 1..n : r[i] = s[i]
  BY <1>1, AppendProperties
<1>3. (n + 1) - 1 = n /\ 1 \in 1..n
  <2> HIDE DEF n
  <2> QED BY <1>1
<1>4. QED BY <1>1, <1>2, <1>3 DEF Last, Bottom, Below

\* A return uncovers the frame below.
LEMMA ReturnLemma ==
  ASSUME NEW s \in Seq(Frame), s # <<>>, Len(s) # 1
  PROVE  /\ Return(s) \in Seq(Frame) /\ Return(s) # <<>>
         /\ Len(Return(s)) = Len(s) - 1
         /\ \A i \in 1..(Len(s) - 1) : Return(s)[i] = s[i]
         /\ Last(Return(s)) = Below(s) /\ Bottom(Return(s)) = Bottom(s)
<1> DEFINE r == Return(s)
           n == Len(s)
<1>1. n \in Nat \ {0} /\ n # 1
  BY LastInFrame
<1>2. n - 1 \in Nat /\ 1 <= n - 1 /\ (n - 1) - 1 + 1 = n - 1
  <2> HIDE DEF n
  <2> QED BY <1>1
<1>3. \A i \in 1..(n - 1) : s[i] \in Frame
  <2> TAKE i \in 1..(n - 1)
  <2>1. i \in 1..n
    <3> HIDE DEF n
    <3> QED BY <1>1
  <2>2. QED BY <2>1, ElementOfSeq
<1>4. /\ r \in Seq(Frame) /\ Len(r) = (n - 1) - 1 + 1
      /\ \A i \in 1..((n - 1) - 1 + 1) : r[i] = s[1 + i - 1]
  BY <1>2, <1>3, SubSeqProperties DEF Return
<1>5. \A i \in 1..(n - 1) : r[i] = s[i]
  <2> TAKE i \in 1..(n - 1)
  <2>1. i \in Int /\ 1 + i - 1 = i
    OBVIOUS
  <2>2. QED BY <1>2, <1>4, <2>1
<1>6. r # <<>> /\ Len(r) = n - 1
  <2>1. Len(r) = n - 1 /\ Len(r) # 0
    <3> HIDE DEF n, r
    <3> QED BY <1>2, <1>4
  <2>2. QED BY <2>1
<1>7. r[Len(r)] = s[n - 1] /\ r[1] = s[1]
  <2>1. n - 1 \in 1..(n - 1) /\ 1 \in 1..(n - 1)
    <3> HIDE DEF n
    <3> QED BY <1>2
  <2>2. QED BY <1>5, <1>6, <2>1
<1>8. QED BY <1>4, <1>5, <1>6, <1>7 DEF Last, Bottom, Below

-----------------------------------------------------------------------------
(* The shape of thread 0's stack.                                          *)

\* What the shape says of the ends of the stack.
LEMMA BootEnds ==
  ASSUME NEW s \in Seq(Frame), BootShape(s)
  PROVE  /\ s # <<>> /\ Bottom(s).fn = "kmain" /\ Bottom(s).at \in {"create", "halt"}
         /\ Len(s) = 1 => Last(s) = Bottom(s)
         /\ Len(s) # 1 => \/ Last(s).fn = "schedule"
                          \/ Last(s).fn = "irq" /\ Last(s).at \in {"callback", "eoi", "iret"}
         /\ Last(s).fn = "schedule" =>
              Len(s) # 1 /\ Below(s).fn = "irq" /\ Below(s).at \in {"eoi", "iret"}
<1> DEFINE n == Len(s)
<1>1. n \in Nat \ {0} /\ (n = 1 => Last(s) = Bottom(s)) /\ s # <<>>
  BY LastInFrame DEF BootShape
<1>2. n # 1 => n \in 2..n
  <2> HIDE DEF n
  <2> QED BY <1>1
<1>3. n # 1 => \/ Last(s).fn = "schedule"
               \/ Last(s).fn = "irq" /\ Last(s).at \in {"callback", "eoi", "iret"}
  BY <1>2 DEF BootShape, Last
<1>4. ASSUME Last(s).fn = "schedule"
      PROVE  n # 1 /\ Below(s).fn = "irq" /\ Below(s).at \in {"eoi", "iret"}
  <2>1. n > 2
    BY <1>4 DEF BootShape
  <2>2. n - 1 \in 2..n /\ n - 1 # n /\ n # 1
    <3> HIDE DEF n
    <3> QED BY <1>1, <2>1
  <2>3. QED BY <2>2 DEF BootShape, Below
<1>5. QED BY <1>1, <1>3, <1>4 DEF BootShape

\* kmain goes on.
LEMMA BootHalt ==
  ASSUME NEW s \in Seq(Frame), BootShape(s), Last(s).fn = "kmain"
  PROVE  /\ Len(s) = 1 /\ Last(s) = Bottom(s) /\ BootShape(Jump(s, "halt"))
         /\ Bottom(Jump(s, "halt")) = Last(Jump(s, "halt"))
<1> DEFINE r == Jump(s, "halt")
<1>1. Len(s) = 1 /\ Last(s) = Bottom(s) /\ s # <<>>
  BY BootEnds
<1>2. r \in Seq(Frame) /\ r # <<>> /\ Len(r) = 1 /\ Last(r) = [Last(s) EXCEPT !.at = "halt"]
  BY <1>1, JumpLemma DEF Steps
<1>3. Last(r) = Bottom(r) /\ Last(r).fn = "kmain" /\ Last(r).at = "halt"
  BY <1>1, <1>2, LastInFrame DEF Frame
<1>4. QED BY <1>1, <1>2, <1>3 DEF BootShape

\* An interrupt of kmain, or of a handler about to return.
LEMMA BootInterrupt ==
  ASSUME NEW s \in Seq(Frame), BootShape(s), NEW l \in Lines,
         Last(s).fn = "kmain" \/ (Last(s).fn = "irq" /\ Last(s).at = "iret")
  PROVE  BootShape(Append(s, Irq(l)))
<1> DEFINE r == Append(s, Irq(l))
           n == Len(s)
<1>1. n \in Nat \ {0}
  BY LastInFrame DEF BootShape
<1>2. /\ r # <<>> /\ Len(r) = n + 1 /\ r[n + 1] = Irq(l) /\ Bottom(r) = Bottom(s)
      /\ Last(r) = Irq(l) /\ \A i \in 1..n : r[i] = s[i]
  BY CallIsFrame, AppendLemma DEF BootShape
<1>3. \A i \in 2..n : s[i].fn = "irq" /\ s[i].at = "iret"
  <2> TAKE i \in 2..n
  <2>1. i = n \/ (i # n /\ i + 1 \in 2..n)
    <3> HIDE DEF n
    <3> QED BY <1>1
  <2>2. CASE i = n
    BY <2>2 DEF BootShape, Last
  <2>3. CASE i # n /\ i + 1 = n
    BY <2>3 DEF BootShape, Last
  <2>4. CASE i # n /\ i + 1 # n
    BY <2>4 DEF BootShape
  <2>5. QED BY <2>2, <2>3, <2>4
<1>4. \A i \in 2..(n + 1) : i = n + 1 \/ (i \in 2..n /\ i \in 1..n)
  <2> HIDE DEF n
  <2> QED BY <1>1
<1>5. \A i \in 2..(n + 1) : i = n + 1 \/ (r[i].fn = "irq" /\ r[i].at = "iret")
  BY <1>2, <1>3, <1>4
<1>6. Irq(l).fn = "irq" /\ Irq(l).at = "callback"
  BY DEF Irq
<1>7. QED BY <1>2, <1>5, <1>6 DEF BootShape

\* A handler goes on.
LEMMA BootHandler ==
  ASSUME NEW s \in Seq(Frame), BootShape(s), Last(s).fn = "irq",
         NEW a \in {"callback", "eoi", "iret"}
  PROVE  BootShape(Jump(s, a))
<1> DEFINE r == Jump(s, a)
           n == Len(s)
<1>0. n # 1
  BY BootEnds
<1>1. /\ r # <<>> /\ Len(r) = n /\ Bottom(r) = Bottom(s)
      /\ Last(r) = [Last(s) EXCEPT !.at = a]
      /\ \A i \in 1..n : r[i] = IF i = n THEN [Last(s) EXCEPT !.at = a] ELSE s[i]
  <2>1. s # <<>> /\ a \in Steps
    BY BootEnds DEF Steps
  <2>2. QED BY <1>0, <2>1, JumpLemma
<1>2. Last(r).fn = "irq" /\ Last(r).at = a
  BY <1>1, BootEnds, LastInFrame DEF Frame
<1>3. n \in Nat \ {0} /\ \A i \in 2..n : i \in 1..n
  BY LastInFrame, BootEnds
<1>4. \A i \in 2..n : i # n => s[i].fn = "irq" /\ s[i].at = "iret"
  BY DEF BootShape, Last
<1>5. \A i \in 2..n : \/ i = n /\ r[i] = Last(r)
                      \/ i # n /\ r[i].fn = "irq" /\ r[i].at = "iret"
  <2> TAKE i \in 2..n
  <2>0. i \in 1..n
    BY <1>3
  <2>1. CASE i = n
    <3> HIDE DEF n, r
    <3>1. r[i] = [Last(s) EXCEPT !.at = a]
      BY <1>1, <2>0, <2>1
    <3>2. QED BY <1>1, <2>1, <3>1
  <2>2. CASE i # n
    <3>1. r[i] = s[i]
      BY <1>1, <1>3, <2>2
    <3>2. QED BY <1>4, <2>2, <3>1
  <2>3. QED BY <2>1, <2>2
<1>6. QED BY <1>1, <1>2, <1>5 DEF BootShape

\* A handler calls scheduler_schedule.
LEMMA BootSchedule ==
  ASSUME NEW s \in Seq(Frame), BootShape(s), Last(s).fn = "irq", Last(s).at = "eoi"
  PROVE  BootShape(Append(s, Schedule))
<1> DEFINE r == Append(s, Schedule)
           n == Len(s)
<1>1. n \in Nat \ {0} /\ n # 1
  BY LastInFrame, BootEnds
<1>2. /\ r # <<>> /\ Len(r) = n + 1 /\ r[n + 1] = Schedule /\ Bottom(r) = Bottom(s)
      /\ Last(r) = Schedule /\ \A i \in 1..n : r[i] = s[i]
  BY CallIsFrame, AppendLemma DEF BootShape
<1>3. \A i \in 2..n : i # n => s[i].fn = "irq" /\ s[i].at = "iret"
  BY DEF BootShape, Last
<1>4. n + 1 > 2 /\ \A i \in 2..(n + 1) : i = n + 1 \/ (i \in 2..n /\ i \in 1..n)
  <2> HIDE DEF n
  <2> QED BY <1>1
<1>5. \A i \in 2..(n + 1) : \/ i = n + 1 /\ r[i] = Schedule
                            \/ i = n /\ r[i].fn = "irq" /\ r[i].at = "eoi" /\ r[i + 1] = Schedule
                            \/ i # n /\ r[i].fn = "irq" /\ r[i].at = "iret"
  <2> TAKE i \in 2..(n + 1)
  <2>1. CASE i = n + 1
    BY <1>2, <2>1
  <2>2. CASE i = n
    <3>1. n \in 1..n /\ Last(s) = s[n]
      BY LastInFrame DEF Last, BootShape
    <3> HIDE DEF n, r
    <3>2. r[i] = Last(s) /\ r[i + 1] = Schedule
      BY <1>2, <2>2, <3>1
    <3>3. QED BY <2>2, <3>2
  <2>3. CASE i # n + 1 /\ i # n
    <3> HIDE DEF n, r
    <3>1. r[i] = s[i] /\ i \in 2..n
      BY <1>2, <1>4, <2>3
    <3>2. QED BY <1>3, <2>3, <3>1
  <2>4. QED BY <2>1, <2>2, <2>3
<1>6. Schedule.fn = "schedule"
  BY DEF Schedule, Call
<1>7. QED BY <1>2, <1>4, <1>5, <1>6 DEF BootShape

\* scheduler_schedule goes on.
LEMMA BootScheduling ==
  ASSUME NEW s \in Seq(Frame), BootShape(s), Last(s).fn = "schedule",
         NEW f \in Frame, f.fn = "schedule"
  PROVE  BootShape(Replace(s, f))
<1> DEFINE r == Replace(s, f)
           n == Len(s)
<1>0. n # 1
  BY BootEnds
<1>1. /\ r # <<>> /\ Len(r) = n /\ Bottom(r) = Bottom(s) /\ Last(r) = f
      /\ \A i \in 1..n : r[i] = IF i = n THEN f ELSE s[i]
  BY <1>0, ReplaceLemma, BootEnds
<1>2. n \in Nat \ {0} /\ \A i \in 2..n : i \in 1..n
  BY LastInFrame, BootEnds
<1>3. \A i \in 2..n : r[i].fn = s[i].fn /\ (i # n => r[i].at = s[i].at)
  BY <1>1, <1>2 DEF Last
<1>4. ASSUME NEW i \in 2..n, i + 1 = n
      PROVE  r[i + 1].fn = "schedule"
  <2>1. i + 1 \in 1..n
    BY <1>2, <1>4
  <2>2. QED BY <1>1, <1>4, <2>1
<1>5. QED BY <1>1, <1>3, <1>4 DEF BootShape, Last

\* scheduler_schedule returns to the handler, and a handler to what it interrupted.
LEMMA BootReturn ==
  ASSUME NEW s \in Seq(Frame), BootShape(s), Last(s).fn \in {"irq", "schedule"}
  PROVE  /\ BootShape(Return(s)) /\ Last(Return(s)) = Below(s)
         /\ Last(s).fn = "irq" =>
              \/ Below(s).fn = "kmain" /\ Below(s) = Bottom(s)
              \/ Below(s).fn = "irq" /\ Below(s).at = "iret"
<1> DEFINE r == Return(s)
           n == Len(s)
<1>0. n # 1 /\ s # <<>>
  BY BootEnds
<1>1. /\ r # <<>> /\ Len(r) = n - 1 /\ Bottom(r) = Bottom(s) /\ Last(r) = Below(s)
      /\ \A i \in 1..(n - 1) : r[i] = s[i]
  BY <1>0, ReturnLemma
<1>2. n \in Nat \ {0}
  BY <1>0, LastInFrame
<1>3. \A i \in 2..(n - 1) : i \in 1..(n - 1) /\ i \in 2..n /\ i # n /\ (i + 1 = n <=> i = n - 1)
  <2> HIDE DEF n
  <2> QED BY <1>2
<1>4. \A i \in 2..(n - 1) : \/ r[i].fn = "irq" /\ r[i].at = "iret"
                            \/ r[i].fn = "irq" /\ r[i].at = "eoi" /\ i = n - 1 /\ s[n].fn = "schedule"
  <2> TAKE i \in 2..(n - 1)
  <2>1. r[i] = s[i] /\ i \in 2..n /\ i # n /\ (i + 1 = n <=> i = n - 1)
    BY <1>1, <1>3
  <2>2. \/ s[i].fn = "irq" /\ s[i].at = "iret"
        \/ s[i].fn = "irq" /\ s[i].at = "eoi" /\ i + 1 = n /\ s[i + 1].fn = "schedule"
    BY <2>1 DEF BootShape
  <2>3. QED BY <2>1, <2>2
<1>5. n - 1 = 1 \/ n - 1 \in 2..(n - 1)
  <2> HIDE DEF n
  <2> QED BY <1>0, <1>2
<1>6. CASE n - 1 = 1
  <2>1. Below(s) = Bottom(s) /\ Last(s).fn = "irq"
    <3>1. ~(n > 2)
      <4> HIDE DEF n
      <4> QED BY <1>2, <1>6
    <3>2. QED BY <1>6, <3>1 DEF Below, Bottom, BootShape
  <2>2. QED BY <1>1, <1>4, <1>6, <2>1 DEF BootShape
<1>7. CASE n - 1 \in 2..(n - 1)
  <2>1. Below(s).fn = "irq" /\ (Last(s).fn = "irq" => Below(s).at = "iret")
    <3>1. Below(s) = s[n - 1] /\ Last(s) = s[n]
      BY DEF Below, Last
    <3> HIDE DEF n, r
    <3>2. r[n - 1] = s[n - 1]
      BY <1>1, <1>7, <1>3
    <3>3. \/ r[n - 1].fn = "irq" /\ r[n - 1].at = "iret"
          \/ r[n - 1].fn = "irq" /\ s[n].fn = "schedule"
      BY <1>4, <1>7
    <3>4. QED BY <3>1, <3>2, <3>3
  <2>2. QED BY <1>1, <1>4, <2>1 DEF BootShape
<1>8. QED BY <1>5, <1>6, <1>7

-----------------------------------------------------------------------------
(* The shape of a worker's stack.                                          *)

\* What the shape says of the ends of the stack.
LEMMA WorkerEnds ==
  ASSUME NEW s \in Seq(Frame), WorkerShape(s)
  PROVE  /\ s # <<>> /\ EntryFrame(Bottom(s)) /\ Len(s) \in {1, 2}
         /\ Len(s) = 1 => Last(s) = Bottom(s) /\ Last(s).fn # "schedule"
         /\ Len(s) = 2 => /\ Last(s).fn = "schedule" /\ Below(s) = Bottom(s)
                          /\ \/ Bottom(s).fn = "worker" /\ Bottom(s).at = "run"
                             \/ Bottom(s).fn = "thread_exit" /\ Bottom(s).at = "halt"
BY DEF WorkerShape, EntryFrame, Last, Bottom, Below

\* The entry function goes on, or another takes its place.
LEMMA WorkerReplace ==
  ASSUME NEW s \in Seq(Frame), WorkerShape(s), Last(s).fn # "schedule",
         NEW f \in Frame, EntryFrame(f)
  PROVE  /\ WorkerShape(Replace(s, f)) /\ Len(Replace(s, f)) = 1
         /\ Last(Replace(s, f)) = f /\ Bottom(Replace(s, f)) = f
<1>1. s # <<>> /\ Len(s) = 1
  BY WorkerEnds
<1>2. /\ Replace(s, f) \in Seq(Frame) /\ Replace(s, f) # <<>>
      /\ Len(Replace(s, f)) = 1 /\ Last(Replace(s, f)) = f
  BY <1>1, ReplaceLemma
<1>3. Bottom(Replace(s, f)) = f
  BY <1>2, LastInFrame
<1>4. QED BY <1>2, <1>3 DEF WorkerShape

\* thread_sleep and thread_exit call scheduler_schedule.
LEMMA WorkerSchedule ==
  ASSUME NEW s \in Seq(Frame), WorkerShape(s), Last(s).fn # "schedule",
         <<Bottom(s).fn, Bottom(s).at>> \in {<<"worker", "run">>, <<"thread_exit", "halt">>}
  PROVE  WorkerShape(Append(s, Schedule))
<1>1. s # <<>> /\ Len(s) = 1 /\ EntryFrame(Bottom(s))
  BY WorkerEnds
<1>2. /\ Append(s, Schedule) # <<>> /\ Len(Append(s, Schedule)) = 2
      /\ Last(Append(s, Schedule)) = Schedule /\ Bottom(Append(s, Schedule)) = Bottom(s)
  <2> DEFINE r == Append(s, Schedule)
             n == Len(s)
  <2>1. /\ r # <<>> /\ Len(r) = n + 1 /\ Last(r) = Schedule /\ Bottom(r) = Bottom(s)
    BY <1>1, CallIsFrame, AppendLemma
  <2> HIDE DEF n
  <2>2. n = 1
    BY <1>1 DEF n
  <2>3. QED BY <2>1, <2>2
<1>3. Schedule.fn = "schedule"
  BY DEF Schedule, Call
<1>4. QED BY <1>1, <1>2, <1>3 DEF WorkerShape

\* scheduler_schedule goes on.
LEMMA WorkerScheduling ==
  ASSUME NEW s \in Seq(Frame), WorkerShape(s), Last(s).fn = "schedule",
         NEW f \in Frame, f.fn = "schedule"
  PROVE  WorkerShape(Replace(s, f))
<1>1. s # <<>> /\ Len(s) = 2
  BY WorkerEnds
<1>2. /\ Replace(s, f) # <<>> /\ Len(Replace(s, f)) = 2
      /\ Last(Replace(s, f)) = f /\ Bottom(Replace(s, f)) = Bottom(s)
  <2> DEFINE r == Replace(s, f)
             n == Len(s)
  <2>1. n = 2 /\ n # 1
    BY <1>1
  <2>2. r # <<>> /\ Last(r) = f /\ Bottom(r) = Bottom(s) /\ Len(r) = n
    BY <1>1, <2>1, ReplaceLemma
  <2> HIDE DEF n
  <2>3. QED BY <2>1, <2>2
<1>3. QED BY <1>1, <1>2 DEF WorkerShape

\* scheduler_schedule returns to the entry function.
LEMMA WorkerReturn ==
  ASSUME NEW s \in Seq(Frame), WorkerShape(s), Last(s).fn = "schedule"
  PROVE  /\ WorkerShape(Return(s)) /\ Len(Return(s)) = 1
         /\ Last(Return(s)) = Below(s) /\ Below(s) = Bottom(s)
         /\ \/ Bottom(s).fn = "worker" /\ Bottom(s).at = "run"
            \/ Bottom(s).fn = "thread_exit" /\ Bottom(s).at = "halt"
<1>1. s # <<>> /\ Len(s) = 2 /\ Below(s) = Bottom(s)
  BY WorkerEnds
<1>2. /\ Return(s) # <<>> /\ Len(Return(s)) = 1
      /\ Last(Return(s)) = Below(s) /\ Bottom(Return(s)) = Bottom(s)
  <2> DEFINE r == Return(s)
             n == Len(s)
  <2>1. n = 2 /\ n # 1
    BY <1>1
  <2>2. r # <<>> /\ Last(r) = Below(s) /\ Bottom(r) = Bottom(s) /\ Len(r) = n - 1
    BY <1>1, <2>1, ReturnLemma
  <2> HIDE DEF n
  <2>3. QED BY <2>1, <2>2
<1>3. QED BY <1>1, <1>2, WorkerEnds DEF WorkerShape

-----------------------------------------------------------------------------

(* What the invariant says of the frame the CPU executes.                  *)
LEMMA Machine ==
  ASSUME IInv
  PROVE  /\ Here \in Seq(Frame) /\ Here # <<>> /\ Top \in Frame /\ 0 \in Threads
         /\ cpu = 0 => BootShape(Here)
         /\ cpu # 0 => cpu \in Workers /\ WorkerShape(Here) /\ Handler = Last(stack[0])
         /\ ~InSchedule => Handler = Last(stack[0])
         /\ InSchedule /\ cpu = 0 => Handler = Below(Here)
         /\ Top.fn \in {"kmain", "irq"} => cpu = 0
         /\ Top.fn \in {"trampoline", "worker", "thread_exit"} => cpu # 0 /\ Top = Bottom(Here)
         /\ Top.fn # "desktop"
<1>1. /\ 0 \in Threads /\ cpu \in Threads /\ Here \in Seq(Frame) /\ Here # <<>>
      /\ stack[0] \in Seq(Frame)
  BY ThreadsAssumption DEF IInv, TypeOK, Threads, Here
<1>2. Top \in Frame
  BY <1>1, LastInFrame DEF Top
<1>3. cpu = 0 => BootShape(Here)
  BY DEF IInv, Stacks, Here
<1>4. cpu # 0 => cpu \in Workers /\ WorkerShape(Here)
  BY <1>1 DEF IInv, Stacks, Here, Workers
<1>5. BootShape(stack[0]) /\ (Last(stack[0]).fn = "schedule" => cpu = 0)
  BY <1>1 DEF IInv, Stacks, BootShape
<1>6. cpu # 0 => Handler = Last(stack[0])
  BY <1>5 DEF Handler
<1>7. ~InSchedule => Handler = Last(stack[0])
  BY <1>5 DEF Handler, InSchedule, Top, Here
<1>8. InSchedule /\ cpu = 0 => Handler = Below(Here)
  BY DEF Handler, InSchedule, Top, Here
<1>9. CASE cpu = 0
  <2>1. Top.fn \in {"schedule", "irq", "kmain"}
    BY <1>1, <1>3, <1>9, BootEnds DEF Top
  <2>2. QED BY <1>1, <1>2, <1>3, <1>6, <1>7, <1>8, <1>9, <2>1
<1>10. CASE cpu # 0
  <2>1. /\ Top.fn \in {"schedule", "trampoline", "worker", "thread_exit"}
        /\ Top.fn # "schedule" => Top = Bottom(Here)
    BY <1>1, <1>4, <1>10, WorkerEnds DEF Top, EntryFrame
  <2>2. QED BY <1>1, <1>2, <1>4, <1>6, <1>7, <1>8, <1>10, <2>1
<1>11. QED BY <1>9, <1>10

(* A step that leaves r on the stack the CPU is on, and stays there.       *)
LEMMA ContinueLemma ==
  ASSUME IInv, NEW r \in Seq(Frame), Continue(r), UNCHANGED job,
         cpu = 0 => BootShape(r), cpu # 0 => WorkerShape(r)
  PROVE  /\ Stacks'
         /\ stack' \in [Threads -> Seq(Frame)] /\ stack'[cpu'] # <<>>
         /\ cpu' = cpu /\ Top' = Last(r) /\ Here' = r /\ stack'[cpu] = r
         /\ \A t \in Threads : t # cpu => stack'[t] = stack[t]
         /\ cpu # 0 => Handler' = Handler
         /\ cpu = 0 => Handler' = IF Last(r).fn = "schedule" THEN Below(r) ELSE Last(r)
         /\ cpu = 0 => Bottom(stack'[0]) = Bottom(r)
         /\ cpu # 0 => stack'[0] = stack[0]
<1>1. /\ 0 \in Threads /\ cpu \in Threads /\ cpu' = cpu /\ stack' = [stack EXCEPT ![cpu] = r]
      /\ stack \in [Threads -> Seq(Frame)] /\ job' = job
  BY Machine DEF IInv, TypeOK, Continue
<1>2. /\ stack' \in [Threads -> Seq(Frame)] /\ stack'[cpu] = r
      /\ \A t \in Threads : t # cpu => stack'[t] = stack[t]
  BY <1>1
<1>3. r # <<>>
  BY DEF BootShape, WorkerShape
<1>4. Here' = r /\ Top' = Last(r)
  BY <1>1, <1>2 DEF Here, Top
<1>5. BootShape(stack'[0])
  BY <1>1, <1>2 DEF IInv, Stacks
<1>6. ASSUME NEW t \in Workers, stack'[t] # <<>> PROVE WorkerShape(stack'[t]) /\ job'[t] > 0
  <2>1. CASE t = cpu
    <3>1. stack[t] # <<>> /\ t # 0
      BY <2>1 DEF Workers, IInv, TypeOK
    <3>2. QED BY <1>1, <1>2, <2>1, <3>1 DEF IInv, Stacks
  <2>2. CASE t # cpu
    BY <1>1, <1>2, <1>6, <2>2 DEF IInv, Stacks, Workers
  <2>3. QED BY <2>1, <2>2
<1>7. ASSUME NEW t \in Threads, stack'[t] # <<>>, Last(stack'[t]).fn = "schedule" PROVE t = cpu
  BY <1>2, <1>7 DEF IInv, Stacks
<1>8. Stacks'
  BY <1>1, <1>5, <1>6, <1>7 DEF Stacks
<1>9. cpu # 0 => Handler' = Handler /\ stack'[0] = stack[0]
  BY <1>1, <1>2 DEF Handler
<1>10. cpu = 0 => Handler' = IF Last(r).fn = "schedule" THEN Below(r) ELSE Last(r)
  BY <1>1, <1>2 DEF Handler
<1>11. QED BY <1>1, <1>2, <1>3, <1>4, <1>8, <1>9, <1>10

-----------------------------------------------------------------------------
(* Devices: a request changes nothing but the request register.            *)

\* A request on a line changes what is requested, and nothing the invariant speaks of.
LEMMA RaiseInv == IInv /\ (TimerRaise \/ InputRaise) => IInv'
<1> SUFFICES ASSUME IInv, TimerRaise \/ InputRaise PROVE IInv'
  OBVIOUS
<1>1. /\ UNCHANGED <<state, slice, until, rsp, current, job, left, made>>
      /\ UNCHANGED <<stack, ticks, cpu, iflag, isr, imr>>
  BY DEF TimerRaise, InputRaise, Raise, threadVars, workVars
<1>2. irr' \subseteq Lines /\ inputs' \in Nat
  <2>1. Timer \in Lines /\ Keyboard \in Lines /\ Mouse \in Lines
    BY DEF Lines, Timer, Keyboard, Mouse
  <2>2. irr \subseteq Lines /\ inputs \in Nat
    BY DEF IInv, TypeOK, PicTypeOK
  <2>3. CASE TimerRaise
    BY <2>1, <2>2, <2>3 DEF TimerRaise, Raise
  <2>4. CASE InputRaise
    BY <2>1, <2>2, <2>4 DEF InputRaise, Raise
  <2>5. QED BY <2>3, <2>4
<1>3. Here' = Here /\ Top' = Top /\ Handler' = Handler /\ InSchedule' = InSchedule
  BY <1>1 DEF Here, Top, Handler, InSchedule
<1>4. TypeOK'
  BY <1>1, <1>2 DEF IInv, TypeOK, PicTypeOK
<1>5. Stacks'
  BY <1>1 DEF IInv, Stacks
<1>6. Booting'
  BY <1>1 DEF IInv, Booting
<1>7. InService'
  BY <1>1, <1>3 DEF IInv, InService
<1>8. Table'
  BY <1>1, <1>3 DEF IInv, Table
<1>9. Running' /\ Latency'
  BY <1>1, <1>3 DEF IInv, Running, Latency
<1>10. Scheduling'
  BY <1>1, <1>3 DEF IInv, Scheduling
<1>11. OwnStack'
  BY <1>1 DEF IInv, OwnStack
<1>12. QED BY <1>4, <1>5, <1>6, <1>7, <1>8, <1>9, <1>10, <1>11 DEF IInv

-----------------------------------------------------------------------------
(* Handlers.                                                               *)

\* With one line in service, the end of interrupt that names no line is the right one.
LEMMA EoiLemma ==
  ASSUME NEW l \in Lines, isr = {l, Level(l)}, SendEoi(l)
  PROVE  isr' = {}
<1> DEFINE gone == Highest(isr \cap Master) \cup (IF l >= 8 THEN Highest(isr \cap Slave) ELSE {})
<1>1. isr' = isr \ gone
  BY DEF SendEoi
<1>2. CASE l \in Slave
  <2>1. l >= 8 /\ isr = {l, 2} /\ l \in Int /\ l \notin Master /\ 2 \in Master /\ 2 \notin Slave
    BY <1>2 DEF Level, Cascade, Lines, Slave, Master
  <2>2. isr \cap Master = {2} /\ isr \cap Slave = {l}
    BY <1>2, <2>1, Zenon
  <2>3. Highest({2}) = {2} /\ Highest({l}) = {l}
    BY <2>1 DEF Highest
  <2>4. gone = {2} \cup {l}
    BY <2>1, <2>2, <2>3
  <2>5. QED BY <1>1, <2>1, <2>4
<1>3. CASE l \notin Slave
  <2>1. isr = {l} /\ l \in Int /\ l \in Master
    BY <1>3 DEF Level, Lines, Slave, Master
  <2>2. isr \cap Master = {l}
    BY <2>1, Zenon
  <2>3. Highest({l}) = {l}
    BY <2>1 DEF Highest
  <2>4. l \in gone
    BY <2>1, <2>2, <2>3
  <2>5. QED BY <1>1, <2>1, <2>4
<1>4. QED BY <1>2, <1>3

\* The keyboard and mouse handlers return to the dispatcher.
LEMMA InputCallbackInv == IInv /\ InputCallback => IInv'
<1> SUFFICES ASSUME IInv, InputCallback PROVE IInv'
  OBVIOUS
<1> DEFINE r == Jump(Here, "eoi")
<1>1. /\ UNCHANGED <<state, slice, until, rsp, current, job, left, made>>
      /\ UNCHANGED <<ticks, iflag, inputs, irr, isr, imr>>
      /\ Top.fn = "irq" /\ Top.at = "callback" /\ Top.line # Timer /\ Continue(r)
  BY DEF InputCallback, threadVars, workVars, picVars, At
<1>2. /\ cpu = 0 /\ BootShape(Here) /\ Here \in Seq(Frame) /\ Here # <<>> /\ Top \in Frame
      /\ Len(Here) # 1 /\ Handler = Top
  <2>1. cpu = 0 /\ Handler = Last(stack[0]) /\ BootShape(Here)
    BY <1>1, Machine DEF InSchedule
  <2>2. QED BY <1>1, <2>1, Machine, BootEnds DEF Top, Here
<1>3. r \in Seq(Frame) /\ BootShape(r) /\ Last(r) = [Top EXCEPT !.at = "eoi"] /\ Bottom(r) = Bottom(Here)
      /\ Len(r) = Len(Here)
  BY <1>1, <1>2, JumpLemma, BootHandler DEF Top, Steps
<1>4. /\ Last(r).fn = "irq" /\ Last(r).at = "eoi" /\ Last(r).line = Top.line
  BY <1>1, <1>2, <1>3 DEF Frame
<1> HIDE DEF r
<1>5. /\ Stacks' /\ stack' \in [Threads -> Seq(Frame)] /\ stack'[cpu'] # <<>>
      /\ cpu' = cpu /\ Top' = Last(r) /\ Handler' = Last(r) /\ stack'[0] = r
      /\ \A t \in Workers : stack'[t] = stack[t]
  BY <1>1, <1>2, <1>3, <1>4, ContinueLemma DEF Workers
<1>6. InSchedule' = FALSE /\ InSchedule = FALSE
  BY <1>1, <1>4, <1>5 DEF InSchedule
<1>7. TypeOK'
  BY <1>1, <1>2, <1>5 DEF IInv, TypeOK, PicTypeOK
<1>8. Booting'
  BY <1>1, <1>2, <1>3, <1>5 DEF IInv, Booting, Here
<1>9. InService'
  BY <1>1, <1>2, <1>4, <1>5, <1>6 DEF IInv, InService
<1>10. Table'
  BY <1>1, <1>5, <1>6 DEF IInv, Table
<1>11. Running' /\ Latency' /\ Scheduling' /\ OwnStack'
  BY <1>1, <1>5, <1>6 DEF IInv, Running, Latency, Scheduling, OwnStack
<1>12. QED BY <1>5, <1>7, <1>8, <1>9, <1>10, <1>11 DEF IInv

\* The end of interrupt clears the line the handler was started for.
LEMMA EndOfInterruptInv == IInv /\ EndOfInterrupt => IInv'
<1> SUFFICES ASSUME IInv, EndOfInterrupt PROVE IInv'
  OBVIOUS
<1> DEFINE r == Jump(Here, "iret")
<1>1. /\ UNCHANGED <<state, slice, until, rsp, current, job, left, made>>
      /\ UNCHANGED <<ticks, iflag, inputs, irr, imr>>
      /\ Top.fn = "irq" /\ Top.at = "eoi" /\ SendEoi(Top.line) /\ Continue(r)
  BY DEF EndOfInterrupt, SendEoi, threadVars, workVars, At
<1>2. /\ cpu = 0 /\ BootShape(Here) /\ Here \in Seq(Frame) /\ Here # <<>> /\ Top \in Frame
      /\ Len(Here) # 1 /\ Handler = Top
  <2>1. cpu = 0 /\ Handler = Last(stack[0]) /\ BootShape(Here)
    BY <1>1, Machine DEF InSchedule
  <2>2. QED BY <1>1, <2>1, Machine, BootEnds DEF Top, Here
<1>3. r \in Seq(Frame) /\ BootShape(r) /\ Last(r) = [Top EXCEPT !.at = "iret"] /\ Bottom(r) = Bottom(Here)
      /\ Len(r) = Len(Here)
  BY <1>1, <1>2, JumpLemma, BootHandler DEF Top, Steps
<1>4. Last(r).fn = "irq" /\ Last(r).at = "iret"
  BY <1>1, <1>2, <1>3 DEF Frame
<1> HIDE DEF r
<1>5. /\ Stacks' /\ stack' \in [Threads -> Seq(Frame)] /\ stack'[cpu'] # <<>>
      /\ cpu' = cpu /\ Top' = Last(r) /\ Handler' = Last(r) /\ stack'[0] = r
      /\ \A t \in Workers : stack'[t] = stack[t]
  BY <1>1, <1>2, <1>3, <1>4, ContinueLemma DEF Workers
<1>6. InSchedule' = FALSE /\ InSchedule = FALSE
  BY <1>1, <1>4, <1>5 DEF InSchedule
<1>7. isr' = {}
  <2>1. isr = {Top.line, Level(Top.line)} /\ Top.line \in Lines
    BY <1>1, <1>2 DEF IInv, InService, Frame
  <2>2. QED BY <1>1, <2>1, EoiLemma
<1>8. TypeOK'
  BY <1>1, <1>2, <1>5, <1>7 DEF IInv, TypeOK, PicTypeOK
<1>9. Booting'
  BY <1>1, <1>2, <1>3, <1>5 DEF IInv, Booting, Here
<1>10. InService'
  BY <1>1, <1>2, <1>4, <1>5, <1>6, <1>7 DEF IInv, InService
<1>11. Table'
  BY <1>1, <1>5, <1>6 DEF IInv, Table
<1>12. Running' /\ Latency' /\ Scheduling' /\ OwnStack'
  BY <1>1, <1>5, <1>6 DEF IInv, Running, Latency, Scheduling, OwnStack
<1>13. QED BY <1>5, <1>8, <1>9, <1>10, <1>11, <1>12 DEF IInv

\* The handler returns to kmain or to a handler that is about to return.
LEMMA InterruptReturnInv == IInv /\ InterruptReturn => IInv'
<1> SUFFICES ASSUME IInv, InterruptReturn PROVE IInv'
  OBVIOUS
<1> DEFINE r == Return(Here)
<1>1. /\ UNCHANGED <<state, slice, until, rsp, current, job, left, made>>
      /\ UNCHANGED <<ticks, inputs, irr, isr, imr>>
      /\ iflag' = TRUE /\ Top.fn = "irq" /\ Top.at = "iret" /\ Continue(r)
  BY DEF InterruptReturn, threadVars, workVars, picVars, At
<1>2. /\ cpu = 0 /\ BootShape(Here) /\ Here \in Seq(Frame) /\ Here # <<>> /\ Top \in Frame
      /\ Len(Here) # 1 /\ Handler = Top
  <2>1. cpu = 0 /\ Handler = Last(stack[0]) /\ BootShape(Here)
    BY <1>1, Machine DEF InSchedule
  <2>2. QED BY <1>1, <2>1, Machine, BootEnds DEF Top, Here
<1>3. r \in Seq(Frame) /\ BootShape(r) /\ Bottom(r) = Bottom(Here)
  BY <1>1, <1>2, ReturnLemma, BootReturn DEF Top
<1>4. Last(r).fn = "kmain" \/ (Last(r).fn = "irq" /\ Last(r).at = "iret")
  BY <1>1, <1>2, BootReturn DEF Top
<1>5. Bottom(Here).at # "create"
  BY <1>2 DEF IInv, Booting, Here
<1> HIDE DEF r
<1>6. /\ Stacks' /\ stack' \in [Threads -> Seq(Frame)] /\ stack'[cpu'] # <<>>
      /\ cpu' = cpu /\ Top' = Last(r) /\ Handler' = Last(r) /\ stack'[0] = r
      /\ \A t \in Workers : stack'[t] = stack[t]
  BY <1>1, <1>2, <1>3, <1>4, ContinueLemma DEF Workers
<1>7. InSchedule' = FALSE /\ InSchedule = FALSE
  BY <1>1, <1>4, <1>6 DEF InSchedule
<1>8. TypeOK'
  BY <1>1, <1>2, <1>6 DEF IInv, TypeOK, PicTypeOK
<1>9. Booting'
  BY <1>3, <1>5, <1>6 DEF Booting
<1>10. InService'
  BY <1>1, <1>2, <1>4, <1>6, <1>7 DEF IInv, InService
<1>11. Table'
  BY <1>1, <1>6, <1>7 DEF IInv, Table
<1>12. Running' /\ Latency' /\ Scheduling' /\ OwnStack'
  BY <1>1, <1>6, <1>7 DEF IInv, Running, Latency, Scheduling, OwnStack
<1>13. QED BY <1>6, <1>8, <1>9, <1>10, <1>11, <1>12 DEF IInv

-----------------------------------------------------------------------------
(* Interrupts.                                                             *)

\* While the timer interrupt is in service nothing is presented.
LEMMA TimerHoldsBack == Timer \in isr => Presented = {}
<1> SUFFICES ASSUME Timer \in isr, NEW l \in Presented PROVE FALSE
  OBVIOUS
<1>1. l \in Lines /\ ~HeldBack(l)
  BY DEF Presented, Requesting
<1>2. 0 <= Level(l) /\ 0 \in isr \cap Master
  BY <1>1 DEF Level, Cascade, Lines, Timer, Master
<1>3. QED BY <1>1, <1>2 DEF HeldBack

\* Scheduling and running a worker happen with the timer interrupt in service.
LEMMA TimerInService == IInv /\ (cpu # 0 \/ InSchedule) => Timer \in isr
BY DEF IInv, InService, Level, Timer, Slave

\* So an interrupt finds the CPU in kmain or in a handler about to return.
LEMMA InterruptedCode ==
  ASSUME IInv, iflag, Presented # {}
  PROVE  /\ cpu = 0 /\ isr = {} /\ ~InSchedule
         /\ \/ Top.fn = "kmain"
            \/ Top.fn = "irq" /\ Top.at = "iret"
<1>1. Timer \notin isr
  BY TimerHoldsBack
<1>2. cpu = 0 /\ ~InSchedule
  BY <1>1, TimerInService
<1>3. Handler = Top
  BY <1>2, Machine DEF Top, Here
<1>4. \/ Top.fn = "kmain"
      \/ Top.fn = "irq" /\ Top.at \in {"callback", "eoi", "iret"}
  BY <1>2, Machine, BootEnds DEF Top, InSchedule
<1>5. ~(Top.fn = "irq" /\ Top.at = "callback")
  BY <1>3 DEF IInv, InService
<1>6. ~(Top.fn = "irq" /\ Top.at = "eoi")
  BY <1>1, <1>3 DEF IInv, InService
<1>7. isr = {}
  BY <1>3, <1>4, <1>5, <1>6 DEF IInv, InService
<1>8. QED BY <1>2, <1>4, <1>5, <1>6, <1>7

\* The stub pushes its frame on kmain or on a handler about to return, and the line
\* is then the only one in service.
LEMMA InterruptInv == IInv /\ Interrupt => IInv'
<1> SUFFICES ASSUME IInv, Interrupt PROVE IInv'
  OBVIOUS
<1>1. PICK l \in Presented :
        /\ UNCHANGED <<state, slice, until, rsp, current, job, left, made>>
        /\ UNCHANGED <<ticks, inputs>>
        /\ iflag /\ iflag' = FALSE /\ Acknowledge(l)
        /\ Continue(Append(Resumed(Here), Irq(l)))
  BY DEF Interrupt, threadVars, workVars
<1>2. /\ cpu = 0 /\ isr = {} /\ ~InSchedule /\ l \in Lines
      /\ Top.fn = "kmain" \/ (Top.fn = "irq" /\ Top.at = "iret")
  BY <1>1, InterruptedCode DEF Presented
<1>3. BootShape(Here) /\ Here \in Seq(Frame) /\ Here # <<>> /\ Irq(l) \in Frame
  BY <1>2, Machine, CallIsFrame
<1>4. Resumed(Here) = Here
  BY <1>2 DEF Resumed, InSchedule, Top
<1> DEFINE r == Append(Here, Irq(l))
<1>5. r \in Seq(Frame) /\ BootShape(r) /\ Last(r) = Irq(l) /\ Bottom(r) = Bottom(Here)
  BY <1>2, <1>3, AppendLemma, BootInterrupt DEF Top
<1>6. Continue(r)
  BY <1>1, <1>4
<1>7. Irq(l).fn = "irq" /\ Irq(l).at = "callback" /\ Irq(l).line = l
  BY DEF Irq
<1> HIDE DEF r
<1>8. /\ Stacks' /\ stack' \in [Threads -> Seq(Frame)] /\ stack'[cpu'] # <<>>
      /\ cpu' = cpu /\ Top' = Irq(l) /\ Handler' = Irq(l) /\ stack'[0] = r
      /\ \A t \in Workers : stack'[t] = stack[t]
  BY <1>1, <1>2, <1>5, <1>6, <1>7, ContinueLemma DEF Workers
<1>9. InSchedule' = FALSE
  BY <1>7, <1>8 DEF InSchedule
<1>10. Bottom(r).at # "create"
  BY <1>1, <1>2, <1>5 DEF IInv, Booting, Here
<1>11. isr' = {l, Level(l)} /\ irr' = irr \ {l} /\ imr' = imr
  BY <1>1, <1>2 DEF Acknowledge
<1>12. TypeOK'
  <2>1. Level(l) \in Lines
    BY <1>2 DEF Level, Cascade, Lines, Slave
  <2>2. PicTypeOK'
    BY <1>2, <1>11, <2>1 DEF IInv, TypeOK, PicTypeOK
  <2>3. QED BY <1>1, <1>8, <2>2 DEF IInv, TypeOK
<1>13. Booting'
  BY <1>8, <1>10 DEF Booting
<1>14. InService'
  BY <1>1, <1>2, <1>7, <1>8, <1>9, <1>11 DEF InService
<1>15. Table'
  BY <1>1, <1>2, <1>8, <1>9 DEF IInv, Table
<1>16. Running' /\ Latency' /\ Scheduling' /\ OwnStack'
  BY <1>1, <1>2, <1>8, <1>9 DEF IInv, Running, Latency, Scheduling, OwnStack
<1>17. QED BY <1>8, <1>12, <1>13, <1>14, <1>15, <1>16 DEF IInv

\* timer_callback returns to the dispatcher, or calls scheduler_schedule first.
LEMMA TimerCallbackInv == IInv /\ TimerCallback => IInv'
<1> SUFFICES ASSUME IInv, TimerCallback PROVE IInv'
  OBVIOUS
<1> DEFINE rest == IF slice[current] > 0 THEN slice[current] - 1 ELSE 0
           h == Jump(Here, "eoi")
           r == IF rest = 0 THEN Append(h, Schedule) ELSE h
<1>1. /\ UNCHANGED <<state, until, rsp, current, job, left, made>>
      /\ UNCHANGED <<iflag, inputs, irr, isr, imr>>
      /\ Top.fn = "irq" /\ Top.at = "callback" /\ Top.line = Timer
      /\ ticks' = ticks + 1 /\ slice' = [slice EXCEPT ![current] = rest]
      /\ Continue(r)
  BY DEF TimerCallback, workVars, picVars, At
<1>2. /\ cpu = 0 /\ BootShape(Here) /\ Here \in Seq(Frame) /\ Here # <<>> /\ Top \in Frame
      /\ Len(Here) # 1 /\ Handler = Top
  <2>1. cpu = 0 /\ Handler = Last(stack[0]) /\ BootShape(Here)
    BY <1>1, Machine DEF InSchedule
  <2>2. QED BY <1>1, <2>1, Machine, BootEnds DEF Top, Here
<1>3. /\ h \in Seq(Frame) /\ h # <<>> /\ BootShape(h) /\ Last(h) = [Top EXCEPT !.at = "eoi"]
      /\ Bottom(h) = Bottom(Here)
  BY <1>1, <1>2, JumpLemma, BootHandler DEF Top, Steps
<1>4. Last(h).fn = "irq" /\ Last(h).at = "eoi" /\ Last(h).line = Timer
  BY <1>1, <1>2, <1>3 DEF Frame
<1>5. Schedule \in Frame /\ Schedule.fn = "schedule" /\ Schedule.at = "wake"
  BY CallIsFrame DEF Schedule, Call
<1>6. Bottom(Here).at # "create"
  BY <1>2 DEF IInv, Booting, Here
<1>7. /\ r \in Seq(Frame) /\ BootShape(r) /\ Bottom(r) = Bottom(Here)
      /\ rest = 0 => Last(r) = Schedule /\ Below(r) = Last(h)
      /\ rest # 0 => Last(r) = Last(h)
  <2>1. CASE rest = 0
    BY <1>3, <1>4, <1>5, <2>1, AppendLemma, BootSchedule
  <2>2. CASE rest # 0
    BY <1>3, <2>2
  <2>3. QED BY <2>1, <2>2
<1>8. /\ current \in Threads /\ slice \in [Threads -> 0..TimeSlice] /\ rest \in 0..TimeSlice
      /\ ticks \in Nat /\ ticks' \in Nat
  <2>1. /\ current \in Threads /\ slice \in [Threads -> 0..TimeSlice] /\ ticks \in Nat
        /\ TimeSlice \in Nat
    BY ThreadsAssumption DEF IInv, TypeOK
  <2>2. slice[current] \in 0..TimeSlice
    BY <2>1
  <2>3. rest \in 0..TimeSlice
    BY <2>1, <2>2
  <2>4. QED BY <1>1, <2>1, <2>3
<1> HIDE DEF h, r, rest
<1>9. /\ Stacks' /\ stack' \in [Threads -> Seq(Frame)] /\ stack'[cpu'] # <<>>
      /\ cpu' = cpu /\ Top' = Last(r) /\ Handler' = Last(h) /\ stack'[0] = r
      /\ \A t \in Workers : stack'[t] = stack[t]
  BY <1>1, <1>2, <1>4, <1>5, <1>7, ContinueLemma DEF Workers
<1>10. InSchedule = FALSE /\ (InSchedule' <=> rest = 0)
  BY <1>1, <1>4, <1>5, <1>7, <1>9 DEF InSchedule
<1>11. TypeOK'
  BY <1>1, <1>2, <1>8, <1>9 DEF IInv, TypeOK, PicTypeOK
<1>12. Booting'
  BY <1>6, <1>7, <1>9 DEF Booting
<1>13. InService'
  BY <1>1, <1>2, <1>4, <1>9 DEF IInv, InService
<1>14. Table'
  <2>1. \A t \in Workers : until'[t] = until[t] /\ until[t] \in Nat
    BY <1>1 DEF IInv, TypeOK, Workers
  <2>2. \A t \in Workers : until[t] <= ticks => until'[t] <= ticks'
    BY <1>1, <1>8, <2>1
  <2>3. /\ state' = state /\ cpu' = cpu /\ ~InSchedule
        /\ \A t \in Workers : t # cpu /\ stack'[t] = stack[t]
    BY <1>1, <1>2, <1>9, <1>10 DEF Workers
  <2>4. QED BY <2>2, <2>3 DEF IInv, Table
<1>15. Running'
  BY <1>1, <1>9, <1>10 DEF IInv, Running
<1>16. Scheduling'
  BY <1>1, <1>2, <1>5, <1>7, <1>9, <1>10 DEF IInv, Running, Scheduling
<1>17. Latency'
  <2> SUFFICES ASSUME rest # 0, NEW t \in Threads, state[t] = "SLEEPING"
               PROVE  ticks' + slice'[current] < until[t] + TimeSlice
    BY <1>1, <1>10 DEF Latency
  <2>1. ticks + slice[current] < until[t] + TimeSlice
    BY <1>10 DEF IInv, Latency
  <2>2. slice'[current] = slice[current] - 1 /\ slice[current] \in Int
    <3>1. slice'[current] = rest /\ slice[current] \in Int
      BY <1>1, <1>8
    <3>2. QED BY <3>1 DEF rest
  <2>3. QED BY <1>1, <1>8, <2>1, <2>2
<1>18. OwnStack'
  BY <1>1 DEF IInv, OwnStack
<1>19. QED BY <1>9, <1>11, <1>12, <1>13, <1>14, <1>15, <1>16, <1>17, <1>18 DEF IInv

-----------------------------------------------------------------------------
(* The code of the threads.                                                *)

\* kmain enables interrupts when the workers are created.
LEMMA EnableInterruptsInv == IInv /\ EnableInterrupts => IInv'
<1> SUFFICES ASSUME IInv, EnableInterrupts PROVE IInv'
  OBVIOUS
<1> DEFINE r == Jump(Here, "halt")
<1>1. /\ UNCHANGED <<state, slice, until, rsp, current, job, left, made>>
      /\ UNCHANGED <<ticks, inputs, irr, isr, imr>>
      /\ iflag' = TRUE /\ Top.fn = "kmain" /\ Top.at = "create" /\ Continue(r)
  BY DEF EnableInterrupts, threadVars, workVars, picVars, At
<1>2. /\ cpu = 0 /\ BootShape(Here) /\ Here \in Seq(Frame) /\ Here # <<>> /\ Top \in Frame
      /\ Handler = Top
  BY <1>1, Machine DEF InSchedule, Top, Here
<1>3. /\ r \in Seq(Frame) /\ BootShape(r) /\ Last(r) = [Top EXCEPT !.at = "halt"]
      /\ Bottom(r) = Last(r)
  BY <1>1, <1>2, JumpLemma, BootHalt DEF Top, Steps
<1>4. Last(r).fn = "kmain" /\ Last(r).at = "halt"
  BY <1>1, <1>2, <1>3 DEF Frame
<1> HIDE DEF r
<1>5. /\ Stacks' /\ stack' \in [Threads -> Seq(Frame)] /\ stack'[cpu'] # <<>>
      /\ cpu' = cpu /\ Top' = Last(r) /\ Handler' = Last(r) /\ stack'[0] = r
      /\ \A t \in Workers : stack'[t] = stack[t]
  BY <1>1, <1>2, <1>3, <1>4, ContinueLemma DEF Workers
<1>6. InSchedule' = FALSE /\ InSchedule = FALSE
  BY <1>1, <1>4, <1>5 DEF InSchedule
<1>7. TypeOK'
  BY <1>1, <1>2, <1>5 DEF IInv, TypeOK, PicTypeOK
<1>8. Booting'
  BY <1>3, <1>4, <1>5 DEF Booting
<1>9. InService'
  BY <1>1, <1>2, <1>4, <1>5, <1>6 DEF IInv, InService
<1>10. Table'
  BY <1>1, <1>5, <1>6 DEF IInv, Table
<1>11. Running' /\ Latency' /\ Scheduling' /\ OwnStack'
  BY <1>1, <1>5, <1>6 DEF IInv, Running, Latency, Scheduling, OwnStack
<1>12. QED BY <1>5, <1>7, <1>8, <1>9, <1>10, <1>11 DEF IInv

\* The trampoline enables interrupts and calls the entry function.
LEMMA TrampolineInv == IInv /\ Trampoline => IInv'
<1> SUFFICES ASSUME IInv, Trampoline PROVE IInv'
  OBVIOUS
<1> DEFINE f == Call("worker", "run")
           r == Replace(Here, f)
<1>1. /\ UNCHANGED <<state, slice, until, rsp, current, job, left, made>>
      /\ UNCHANGED <<ticks, inputs, irr, isr, imr>>
      /\ iflag' = TRUE /\ Top.fn = "trampoline" /\ Top.at = "start" /\ Continue(r)
  BY DEF Trampoline, threadVars, workVars, picVars, At
<1>2. /\ cpu \in Workers /\ WorkerShape(Here) /\ Here \in Seq(Frame) /\ Here # <<>>
      /\ Top = Bottom(Here) /\ cpu # 0
  BY <1>1, Machine DEF Top
<1>3. f \in Frame /\ f.fn = "worker" /\ f.at = "run"
  BY CallIsFrame DEF Functions, Steps, Call
<1>4. r \in Seq(Frame) /\ WorkerShape(r) /\ Last(r) = f /\ Bottom(r) = f
  BY <1>1, <1>2, <1>3, ReplaceLemma, WorkerReplace DEF Top, EntryFrame
<1> HIDE DEF f, r
<1>5. /\ Stacks' /\ stack' \in [Threads -> Seq(Frame)] /\ stack'[cpu'] # <<>>
      /\ cpu' = cpu /\ Top' = f /\ Handler' = Handler /\ stack'[cpu] = r
      /\ stack'[0] = stack[0] /\ \A t \in Threads : t # cpu => stack'[t] = stack[t]
  BY <1>1, <1>2, <1>4, ContinueLemma
<1>6. InSchedule' = FALSE /\ InSchedule = FALSE
  BY <1>1, <1>3, <1>5 DEF InSchedule
<1>7. TypeOK'
  BY <1>1, <1>2, <1>5 DEF IInv, TypeOK, PicTypeOK
<1>8. Booting'
  BY <1>2, <1>5 DEF IInv, Booting
<1>9. InService'
  BY <1>1, <1>2, <1>5, <1>6 DEF IInv, InService
<1>10. Table'
  <2>1. state[cpu] = "RUNNING" /\ stack[cpu] # <<>> /\ Bottom(stack[cpu]).at = "start"
    BY <1>1, <1>2, <1>6 DEF IInv, Running, Workers, Here
  <2>2. until[cpu] <= ticks
    BY <1>2, <2>1 DEF IInv, Table
  <2>3. \A t \in Workers : t # cpu => stack'[t] = stack[t]
    BY <1>5 DEF Workers
  <2>4. QED BY <1>1, <1>3, <1>4, <1>5, <1>6, <2>2, <2>3 DEF IInv, Table
<1>11. Running' /\ Latency' /\ Scheduling' /\ OwnStack'
  BY <1>1, <1>5, <1>6 DEF IInv, Running, Latency, Scheduling, OwnStack
<1>12. QED BY <1>5, <1>7, <1>8, <1>9, <1>10, <1>11 DEF IInv

\* A sleep lasts some whole number of ticks.
LEMMA SleepTicksLemma == \A ms \in Nat : SleepTicks(ms) \in Nat \ {0}
BY DEF SleepTicks

\* A worker's cycle sets a deadline for the running thread only.
LEMMA WorkerCycleInv == IInv /\ WorkerCycle => IInv'
<1> SUFFICES ASSUME IInv, WorkerCycle PROVE IInv'
  OBVIOUS
<1> DEFINE r == Jump(Here, "sleep")
           d == ticks + SleepTicks(Jobs[job[cpu]])
<1>1. /\ UNCHANGED <<state, slice, rsp, current, job, made>>
      /\ UNCHANGED <<ticks, iflag, inputs, irr, isr, imr>>
      /\ Top.fn = "worker" /\ Top.at = "run" /\ Continue(r)
      /\ left[cpu] > 0 /\ left' = [left EXCEPT ![cpu] = @ - 1]
      /\ until' = [until EXCEPT ![current] = d]
  BY DEF WorkerCycle, picVars, At
<1>2. /\ cpu \in Workers /\ cpu \in Threads /\ WorkerShape(Here) /\ Here \in Seq(Frame) /\ Here # <<>>
      /\ Top = Bottom(Here) /\ cpu # 0 /\ Top \in Frame
  BY <1>1, Machine DEF Top, Workers
<1>3. [Top EXCEPT !.at = "sleep"] \in Frame /\ EntryFrame([Top EXCEPT !.at = "sleep"])
  BY <1>1, <1>2 DEF Frame, Steps, EntryFrame
<1>4. /\ r \in Seq(Frame) /\ WorkerShape(r) /\ Last(r) = [Top EXCEPT !.at = "sleep"]
      /\ Bottom(r) = [Top EXCEPT !.at = "sleep"]
  BY <1>1, <1>2, <1>3, ReplaceLemma, WorkerReplace DEF Top, Jump
<1>5. Last(r).fn = "worker" /\ Last(r).at = "sleep" /\ Bottom(r).fn = "worker" /\ Bottom(r).at = "sleep"
  BY <1>1, <1>2, <1>4 DEF Frame
<1>6. d \in Nat
  <2>1. job[cpu] \in 0..Len(Jobs) /\ job[cpu] > 0 /\ ticks \in Nat
    BY <1>2 DEF IInv, Stacks, TypeOK, Here
  <2>2. Jobs[job[cpu]] \in Nat
    BY <2>1, JobsAssumption
  <2>3. SleepTicks(Jobs[job[cpu]]) \in Nat
    BY <2>2, SleepTicksLemma
  <2>4. QED BY <2>1, <2>3
<1> HIDE DEF r, d
<1>7. /\ Stacks' /\ stack' \in [Threads -> Seq(Frame)] /\ stack'[cpu'] # <<>>
      /\ cpu' = cpu /\ Top' = Last(r) /\ Handler' = Handler /\ stack'[cpu] = r
      /\ stack'[0] = stack[0] /\ \A t \in Threads : t # cpu => stack'[t] = stack[t]
  BY <1>1, <1>2, <1>4, ContinueLemma
<1>8. InSchedule' = FALSE /\ InSchedule = FALSE
  BY <1>1, <1>5, <1>7 DEF InSchedule
<1>9. /\ current = cpu /\ state[cpu] = "RUNNING" /\ until \in [Threads -> Nat]
      /\ until' \in [Threads -> Nat] /\ \A t \in Threads : t # cpu => until'[t] = until[t]
  BY <1>1, <1>2, <1>6, <1>8 DEF IInv, TypeOK, Running
<1>10. TypeOK'
  <2>1. left' \in [Threads -> 0..Cycles]
    <3>1. left \in [Threads -> 0..Cycles] /\ Cycles \in Nat /\ cpu \in Threads
      BY <1>2, JobsAssumption DEF IInv, TypeOK
    <3>2. left[cpu] \in 0..Cycles /\ left[cpu] - 1 \in 0..Cycles
      BY <1>1, <3>1
    <3>3. left' = [left EXCEPT ![cpu] = @ - 1]
      BY <1>1
    <3>4. QED BY <3>1, <3>2, <3>3
  <2>2. TypeOK
    BY DEF IInv
  <2>3. cpu' \in Threads /\ stack' \in [Threads -> Seq(Frame)] /\ stack'[cpu'] # <<>>
        /\ until' \in [Threads -> Nat]
    BY <1>7, <1>9, <2>2 DEF TypeOK
  <2>4. QED BY <1>1, <2>1, <2>2, <2>3 DEF TypeOK, PicTypeOK
<1>11. Booting'
  BY <1>2, <1>7 DEF IInv, Booting
<1>12. InService'
  BY <1>1, <1>2, <1>7, <1>8 DEF IInv, InService
<1>13. Table'
  <2>1. \A t \in Workers : t # cpu => stack'[t] = stack[t] /\ until'[t] = until[t]
    BY <1>7, <1>9 DEF Workers
  <2>2. stack'[cpu] # <<>>
    BY <1>7
  <2>3. QED BY <1>1, <1>5, <1>7, <1>8, <2>1, <2>2 DEF IInv, Table
<1>14. Running' /\ Scheduling' /\ OwnStack'
  BY <1>1, <1>7, <1>8 DEF IInv, Running, Scheduling, OwnStack
<1>15. Latency'
  <2>1. \A t \in Threads : state[t] = "SLEEPING" => until'[t] = until[t]
    BY <1>9
  <2>2. QED BY <1>1, <1>8, <2>1 DEF IInv, Latency
<1>16. QED BY <1>7, <1>10, <1>11, <1>12, <1>13, <1>14, <1>15 DEF IInv

\* thread_sleep gives the CPU away: nothing is marked running while it is scheduled.
LEMMA GoToSleepInv == IInv /\ GoToSleep => IInv'
<1> SUFFICES ASSUME IInv, GoToSleep PROVE IInv'
  OBVIOUS
<1> DEFINE h == Jump(Here, "run")
           r == Append(h, Schedule)
<1>1. /\ UNCHANGED <<slice, until, rsp, current, job, left, made>>
      /\ UNCHANGED <<ticks, iflag, inputs, irr, isr, imr>>
      /\ Top.fn \in {"worker", "desktop"} /\ Top.at = "sleep" /\ Continue(r)
      /\ state' = [state EXCEPT ![current] = "SLEEPING"]
  BY DEF GoToSleep, workVars, picVars
<1>2. /\ cpu \in Workers /\ cpu \in Threads /\ WorkerShape(Here) /\ Here \in Seq(Frame) /\ Here # <<>>
      /\ Top = Bottom(Here) /\ cpu # 0 /\ Top \in Frame /\ Top.fn = "worker" /\ 0 \in Threads
  BY <1>1, Machine DEF Top, Workers
<1>3. [Top EXCEPT !.at = "run"] \in Frame /\ EntryFrame([Top EXCEPT !.at = "run"])
  BY <1>1, <1>2 DEF Frame, Steps, EntryFrame
<1>4. /\ h \in Seq(Frame) /\ h # <<>> /\ WorkerShape(h)
      /\ Last(h) = [Top EXCEPT !.at = "run"] /\ Bottom(h) = [Top EXCEPT !.at = "run"]
  BY <1>1, <1>2, <1>3, ReplaceLemma, WorkerReplace DEF Top, Jump
<1>5. Last(h).fn = "worker" /\ Last(h).at = "run" /\ Bottom(h).fn = "worker" /\ Bottom(h).at = "run"
  BY <1>1, <1>2, <1>4 DEF Frame
<1>6. Schedule \in Frame /\ Schedule.fn = "schedule" /\ Schedule.at = "wake"
  BY CallIsFrame DEF Schedule, Call
<1>7. r \in Seq(Frame) /\ WorkerShape(r) /\ Last(r) = Schedule /\ Bottom(r) = Bottom(h)
  BY <1>4, <1>5, <1>6, AppendLemma, WorkerSchedule
<1> HIDE DEF h, r
<1>8. /\ Stacks' /\ stack' \in [Threads -> Seq(Frame)] /\ stack'[cpu'] # <<>>
      /\ cpu' = cpu /\ Top' = Schedule /\ Handler' = Handler /\ stack'[cpu] = r
      /\ stack'[0] = stack[0] /\ \A t \in Threads : t # cpu => stack'[t] = stack[t]
  BY <1>1, <1>2, <1>7, ContinueLemma
<1>9. InSchedule' = TRUE /\ InSchedule = FALSE
  BY <1>1, <1>2, <1>6, <1>8 DEF InSchedule
<1>10. /\ current = cpu /\ \A t \in Threads : state[t] = "RUNNING" <=> t = cpu
       /\ state' \in [Threads -> States] /\ state'[cpu] = "SLEEPING"
       /\ \A t \in Threads : t # cpu => state'[t] = state[t] /\ state'[t] # "RUNNING"
  BY <1>1, <1>2, <1>9 DEF IInv, TypeOK, Running, States
<1>11. TypeOK'
  BY <1>1, <1>8, <1>10 DEF IInv, TypeOK, PicTypeOK
<1>12. Booting'
  BY <1>2, <1>8 DEF IInv, Booting
<1>13. InService'
  BY <1>1, <1>2, <1>8 DEF IInv, InService
<1>14. Table'
  <2>1. \A t \in Workers : t # cpu => stack'[t] = stack[t] /\ state'[t] = state[t]
    BY <1>8, <1>10 DEF Workers
  <2>2. stack'[cpu] # <<>> /\ state'[0] = state[0]
    BY <1>2, <1>8, <1>10
  <2>3. QED BY <1>1, <1>5, <1>7, <1>8, <1>9, <1>10, <2>1, <2>2 DEF IInv, Table
<1>15. Running' /\ Latency'
  BY <1>9 DEF Running, Latency
<1>16. Scheduling'
  BY <1>1, <1>6, <1>8, <1>10 DEF Scheduling
<1>17. OwnStack'
  BY <1>1 DEF IInv, OwnStack
<1>18. QED BY <1>8, <1>11, <1>12, <1>13, <1>14, <1>15, <1>16, <1>17 DEF IInv

\* thread_exit gives the CPU away for good.
LEMMA ThreadExitInv == IInv /\ ThreadExit => IInv'
<1> SUFFICES ASSUME IInv, ThreadExit PROVE IInv'
  OBVIOUS
<1> DEFINE f == Call("thread_exit", "halt")
           h == Replace(Here, f)
           r == Append(h, Schedule)
<1>1. /\ UNCHANGED <<slice, until, rsp, current, job, left, made>>
      /\ UNCHANGED <<ticks, iflag, inputs, irr, isr, imr>>
      /\ Top.fn = "worker" /\ Top.at = "run" /\ Continue(r)
      /\ state' = [state EXCEPT ![current] = "TERMINATED"]
  BY DEF ThreadExit, workVars, picVars, At
<1>2. /\ cpu \in Workers /\ cpu \in Threads /\ WorkerShape(Here) /\ Here \in Seq(Frame) /\ Here # <<>>
      /\ Top = Bottom(Here) /\ cpu # 0 /\ 0 \in Threads
  BY <1>1, Machine DEF Top, Workers
<1>3. f \in Frame /\ f.fn = "thread_exit" /\ f.at = "halt" /\ EntryFrame(f)
  BY CallIsFrame DEF Functions, Steps, Call, EntryFrame
<1>4. h \in Seq(Frame) /\ h # <<>> /\ WorkerShape(h) /\ Last(h) = f /\ Bottom(h) = f
  BY <1>1, <1>2, <1>3, ReplaceLemma, WorkerReplace DEF Top
<1>5. Schedule \in Frame /\ Schedule.fn = "schedule" /\ Schedule.at = "wake"
  BY CallIsFrame DEF Schedule, Call
<1>6. r \in Seq(Frame) /\ WorkerShape(r) /\ Last(r) = Schedule /\ Bottom(r) = f
  BY <1>3, <1>4, <1>5, AppendLemma, WorkerSchedule
<1> HIDE DEF f, h, r
<1>7. /\ Stacks' /\ stack' \in [Threads -> Seq(Frame)] /\ stack'[cpu'] # <<>>
      /\ cpu' = cpu /\ Top' = Schedule /\ Handler' = Handler /\ stack'[cpu] = r
      /\ stack'[0] = stack[0] /\ \A t \in Threads : t # cpu => stack'[t] = stack[t]
  BY <1>1, <1>2, <1>6, ContinueLemma
<1>8. InSchedule' = TRUE /\ InSchedule = FALSE
  BY <1>1, <1>5, <1>7 DEF InSchedule
<1>9. /\ current = cpu /\ \A t \in Threads : state[t] = "RUNNING" <=> t = cpu
      /\ state' \in [Threads -> States] /\ state'[cpu] = "TERMINATED"
      /\ \A t \in Threads : t # cpu => state'[t] = state[t] /\ state'[t] # "RUNNING"
  BY <1>1, <1>2, <1>8 DEF IInv, TypeOK, Running, States
<1>10. TypeOK'
  BY <1>1, <1>7, <1>9 DEF IInv, TypeOK, PicTypeOK
<1>11. Booting'
  BY <1>2, <1>7 DEF IInv, Booting
<1>12. InService'
  BY <1>1, <1>2, <1>7 DEF IInv, InService
<1>13. Table'
  <2>1. \A t \in Workers : t # cpu => stack'[t] = stack[t] /\ state'[t] = state[t]
    BY <1>7, <1>9 DEF Workers
  <2>2. state'[0] = state[0]
    BY <1>2, <1>9
  <2>3. QED BY <1>1, <1>3, <1>6, <1>7, <1>8, <1>9, <2>1, <2>2 DEF IInv, Table
<1>14. Running' /\ Latency'
  BY <1>8 DEF Running, Latency
<1>15. Scheduling'
  BY <1>1, <1>5, <1>7, <1>9 DEF Scheduling
<1>16. OwnStack'
  BY <1>1 DEF IInv, OwnStack
<1>17. QED BY <1>7, <1>10, <1>11, <1>12, <1>13, <1>14, <1>15, <1>16 DEF IInv

\* Without a "gui" there is no desktop.
LEMMA NoDesktop == Desktop = "never" /\ IInv => ~StartDesktop /\ ~DesktopCycle
BY Machine DEF StartDesktop, DesktopCycle, At

\* thread_create fills a slot no code runs in.
LEMMA ThreadCreateInv == IInv /\ ThreadCreate => IInv'
<1> SUFFICES ASSUME IInv, ThreadCreate PROVE IInv'
  OBVIOUS
<1>1. /\ UNCHANGED <<current, cpu, ticks, iflag, inputs, irr, isr, imr>>
      /\ Top.fn = "kmain" /\ Top.at = "create" /\ made \in 0..Len(Jobs) /\ made < Len(Jobs)
      /\ made' = made + 1 /\ made' \in 1..Len(Jobs)
  <2>1. made \in 0..Len(Jobs) /\ made < Len(Jobs) /\ made' = made + 1 /\ Len(Jobs) \in Nat
    BY JobsAssumption DEF ThreadCreate, IInv, TypeOK
  <2>2. made' \in 1..Len(Jobs)
    BY <2>1
  <2>3. QED BY <2>1, <2>2 DEF ThreadCreate, picVars, At
<1>2. cpu = 0 /\ current = 0 /\ BootShape(Here) /\ Here \in Seq(Frame) /\ ~InSchedule /\ 0 \in Threads
  BY <1>1, Machine DEF InSchedule, IInv, Running
<1>3. /\ Len(stack[0]) = 1 /\ Bottom(stack[0]) = Top
      /\ \A t \in Workers : state[t] \in {"UNUSED", "READY"}
  <2>1. Len(stack[0]) = 1 /\ Bottom(stack[0]) = Top
    BY <1>1, <1>2, BootHalt DEF Top, Here
  <2>2. QED BY <1>1, <2>1 DEF IInv, Booting
<1>4. ASSUME UNCHANGED <<state, slice, until, rsp, job, left, stack>>
      PROVE  IInv'
  <2>1. Here' = Here /\ Top' = Top /\ Handler' = Handler /\ InSchedule' = InSchedule
    BY <1>1, <1>4 DEF Here, Top, Handler, InSchedule
  <2>2. TypeOK'
    <3>1. TypeOK
      BY DEF IInv
    <3>2. made' \in 0..Len(Jobs)
      BY <1>1, JobsAssumption
    <3>3. /\ state' = state /\ slice' = slice /\ until' = until /\ rsp' = rsp /\ job' = job
          /\ left' = left /\ stack' = stack
      BY <1>4
    <3>4. /\ current' = current /\ cpu' = cpu /\ ticks' = ticks /\ iflag' = iflag
          /\ inputs' = inputs /\ irr' = irr /\ isr' = isr /\ imr' = imr
      BY <1>1
    <3>5. QED BY <3>1, <3>2, <3>3, <3>4 DEF TypeOK, PicTypeOK
  <2>3. Stacks' /\ Booting'
    BY <1>1, <1>4 DEF IInv, Stacks, Booting
  <2>4. InService'
    BY <1>1, <2>1 DEF IInv, InService
  <2>5. Table' /\ Running' /\ Latency' /\ Scheduling' /\ OwnStack'
    BY <1>1, <1>2, <1>4, <2>1 DEF IInv, Table, Running, Latency, Scheduling, OwnStack
  <2>6. QED BY <2>2, <2>3, <2>4, <2>5 DEF IInv
<1>5. ASSUME NEW s \in Workers, ThreadCreated(s)
      PROVE  IInv'
  <2> DEFINE f == Call("trampoline", "start")
             r == <<f>>
  <2>1. f \in Frame /\ f.fn = "trampoline" /\ f.at = "start" /\ EntryFrame(f)
    BY CallIsFrame DEF Functions, Steps, Call, EntryFrame
  <2>2. r \in Seq(Frame) /\ r # <<>> /\ Len(r) = 1 /\ Last(r) = f /\ Bottom(r) = f
    BY <2>1 DEF Last, Bottom
  <2>3. WorkerShape(r)
    BY <2>1, <2>2 DEF WorkerShape
  <2> HIDE DEF f, r
  <2>4. /\ stack' = [stack EXCEPT ![s] = r] /\ state' = [state EXCEPT ![s] = "READY"]
        /\ slice' = [slice EXCEPT ![s] = TimeSlice] /\ until' = [until EXCEPT ![s] = 0]
        /\ rsp' = [rsp EXCEPT ![s] = s] /\ job' = [job EXCEPT ![s] = made + 1]
        /\ left' = [left EXCEPT ![s] = Cycles]
    BY <1>5 DEF ThreadCreated, r, f
  <2>5. /\ s \in Threads /\ s # 0
        /\ stack' \in [Threads -> Seq(Frame)] /\ stack'[s] = r /\ stack'[0] = stack[0]
        /\ state' \in [Threads -> States] /\ state'[s] = "READY" /\ state'[0] = state[0]
        /\ slice' \in [Threads -> 0..TimeSlice] /\ slice'[0] = slice[0]
        /\ until' \in [Threads -> Nat] /\ until'[s] = 0
        /\ rsp' = rsp
        /\ job' \in [Threads -> 0..Len(Jobs)] /\ job'[s] > 0
        /\ left' \in [Threads -> 0..Cycles]
    <3>1. s \in Threads /\ s # 0 /\ TimeSlice \in 0..TimeSlice /\ Cycles \in 0..Cycles /\ "READY" \in States
      BY ThreadsAssumption, JobsAssumption DEF Workers, States
    <3>2. rsp' = rsp
      BY <2>4, <3>1 DEF IInv, OwnStack, TypeOK
    <3>3. job' \in [Threads -> 0..Len(Jobs)] /\ job'[s] > 0
      BY <1>1, <2>4, <3>1 DEF IInv, TypeOK
    <3>4. slice' \in [Threads -> 0..TimeSlice] /\ left' \in [Threads -> 0..Cycles]
      BY <2>4, <3>1 DEF IInv, TypeOK
    <3>5. /\ stack' \in [Threads -> Seq(Frame)] /\ state' \in [Threads -> States]
          /\ until' \in [Threads -> Nat]
      BY <2>2, <2>4, <3>1 DEF IInv, TypeOK
    <3>6. /\ stack'[s] = r /\ stack'[0] = stack[0] /\ state'[s] = "READY" /\ state'[0] = state[0]
          /\ slice'[0] = slice[0] /\ until'[s] = 0
      BY <1>2, <2>4, <3>1 DEF IInv, TypeOK
    <3>7. QED BY <3>1, <3>2, <3>3, <3>4, <3>5, <3>6
  <2>6. \A t \in Threads : t # s => /\ stack'[t] = stack[t] /\ state'[t] = state[t]
                                    /\ until'[t] = until[t] /\ job'[t] = job[t]
    BY <2>4 DEF IInv, TypeOK
  <2>7. Here' = Here /\ Top' = Top /\ Handler' = Handler /\ InSchedule' = InSchedule
    BY <1>1, <1>2, <2>5 DEF Here, Top, Handler, InSchedule
  <2>8. \A t \in Workers : t \in Threads /\ t # 0
    BY DEF Workers
  <2>9. TypeOK'
    <3>1. stack'[cpu'] # <<>>
      BY <1>1, <1>2, <2>5 DEF IInv, TypeOK
    <3>2. made' \in 0..Len(Jobs)
      BY <1>1
    <3>3. QED BY <1>1, <2>5, <3>1, <3>2 DEF IInv, TypeOK, PicTypeOK
  <2>10. Stacks'
    <3>1. ASSUME NEW t \in Workers, stack'[t] # <<>> PROVE WorkerShape(stack'[t]) /\ job'[t] > 0
      <4>1. CASE t = s
        BY <2>3, <2>5, <4>1
      <4>2. CASE t # s
        BY <2>6, <2>8, <3>1, <4>2 DEF IInv, Stacks
      <4>3. QED BY <4>1, <4>2
    <3>2. ASSUME NEW t \in Threads, stack'[t] # <<>>, Last(stack'[t]).fn = "schedule" PROVE t = cpu
      BY <2>1, <2>2, <2>5, <2>6, <3>2 DEF IInv, Stacks
    <3>3. QED BY <1>1, <2>5, <3>1, <3>2 DEF IInv, Stacks
  <2>11. Booting'
    BY <1>1, <1>2, <1>3, <2>5, <2>6, <2>8 DEF IInv, Booting
  <2>12. InService'
    BY <1>1, <2>7 DEF IInv, InService
  <2>13. Table'
    <3>1. ticks \in Nat
      BY DEF IInv, TypeOK
    <3>2. ASSUME NEW t \in Workers
          PROVE  /\ state'[t] \in {"READY", "RUNNING", "SLEEPING"} =>
                      stack'[t] # <<>> /\ Bottom(stack'[t]).fn \in {"trampoline", "worker"}
                 /\ stack'[t] # <<>> /\ Bottom(stack'[t]).at = "sleep" => t = cpu /\ ~InSchedule
                 /\ /\ state'[t] \in {"READY", "RUNNING"}
                    /\ Bottom(stack'[t]).at # "sleep"
                    => until'[t] <= ticks
      <4>1. CASE t = s
        BY <2>1, <2>2, <2>5, <3>1, <4>1
      <4>2. CASE t # s
        BY <2>6, <2>8, <4>2 DEF IInv, Table
      <4>3. QED BY <4>1, <4>2
    <3>3. QED BY <1>1, <2>5, <2>7, <3>2 DEF IInv, Table
  <2>14. Running'
    BY <1>1, <1>2, <2>5, <2>6 DEF IInv, Running
  <2>15. Latency' /\ Scheduling' /\ OwnStack'
    BY <1>1, <1>2, <2>5, <2>6, <2>7 DEF IInv, Latency, Scheduling, OwnStack
  <2>16. QED BY <2>9, <2>10, <2>11, <2>12, <2>13, <2>14, <2>15 DEF IInv
<1>6. ASSUME NEW s \in Workers, StackRefused(s)
      PROVE  IInv'
  <2>1. /\ UNCHANGED <<rsp, job, left, stack>>
        /\ state' = [state EXCEPT ![s] = "UNUSED"]
        /\ slice' = [slice EXCEPT ![s] = 0] /\ until' = [until EXCEPT ![s] = 0]
    BY <1>6 DEF StackRefused
  <2>2. /\ s \in Threads /\ s # 0
        /\ state' \in [Threads -> States] /\ state'[s] = "UNUSED" /\ state'[0] = state[0]
        /\ slice' \in [Threads -> 0..TimeSlice] /\ slice'[0] = slice[0]
        /\ until' \in [Threads -> Nat] /\ until'[s] = 0
    <3>1. /\ state \in [Threads -> States] /\ slice \in [Threads -> 0..TimeSlice]
          /\ until \in [Threads -> Nat]
      BY DEF IInv, TypeOK
    <3>2. s \in Threads /\ s # 0 /\ 0 \in Threads /\ "UNUSED" \in States /\ 0 \in 0..TimeSlice
      BY ThreadsAssumption DEF Workers, Threads, States
    <3>3. QED BY <2>1, <3>1, <3>2
  <2>3. \A t \in Threads : t # s => state'[t] = state[t] /\ until'[t] = until[t]
    BY <2>1 DEF IInv, TypeOK
  <2>4. Here' = Here /\ Top' = Top /\ Handler' = Handler /\ InSchedule' = InSchedule
    BY <1>1, <2>1 DEF Here, Top, Handler, InSchedule
  <2>5. \A t \in Workers : t \in Threads /\ t # 0
    BY DEF Workers
  <2>6. TypeOK'
    <3>1. made' \in 0..Len(Jobs)
      BY <1>1
    <3>2. QED BY <1>1, <2>1, <2>2, <3>1 DEF IInv, TypeOK, PicTypeOK
  <2>7. Stacks' /\ OwnStack'
    BY <1>1, <2>1 DEF IInv, Stacks, OwnStack
  <2>8. Booting'
    BY <1>1, <1>2, <1>3, <2>1, <2>2, <2>3, <2>5 DEF IInv, Booting
  <2>9. InService'
    BY <1>1, <2>4 DEF IInv, InService
  <2>10. Table'
    BY <1>1, <2>1, <2>2, <2>3, <2>4, <2>5 DEF IInv, Table
  <2>11. Running'
    BY <1>1, <1>2, <2>2, <2>3 DEF IInv, Running
  <2>12. Latency' /\ Scheduling'
    BY <1>1, <1>2, <2>2, <2>3, <2>4 DEF IInv, Latency, Scheduling
  <2>13. QED BY <2>6, <2>7, <2>8, <2>9, <2>10, <2>11, <2>12 DEF IInv
<1>7. CASE FreeSlots = {} /\ UNCHANGED <<state, slice, until, rsp, job, left, stack>>
  BY <1>4, <1>7
<1>8. CASE \E s \in Highest(FreeSlots), ok \in AllocOutcomes :
             IF ok THEN ThreadCreated(s) ELSE StackRefused(s)
  <2>1. PICK s \in Highest(FreeSlots) : ThreadCreated(s) \/ StackRefused(s)
    BY <1>8
  <2>2. s \in Workers
    BY DEF Highest, FreeSlots
  <2>3. QED BY <1>5, <1>6, <2>1, <2>2
<1>9. QED BY <1>7, <1>8 DEF ThreadCreate

-----------------------------------------------------------------------------
(* scheduler_schedule.                                                     *)

\* It runs with the timer interrupt in service, long after kmain's boot code.
LEMMA ScheduleFacts ==
  ASSUME IInv, InSchedule
  PROVE  /\ Bottom(stack[0]).at # "create"
         /\ Handler.fn = "irq" /\ Handler.at = "eoi" /\ Handler.line = Timer
         /\ Len(Here) # 1 /\ Below(Here).fn # "schedule"
         /\ cpu = 0 => Handler = Below(Here)
<1>1. Top.fn = "schedule" /\ Here \in Seq(Frame) /\ cpu \in Threads
  BY Machine DEF InSchedule, IInv, TypeOK
<1>2. CASE cpu = 0
  <2>1. BootShape(Here) /\ Here = stack[0] /\ Handler = Below(Here)
    BY <1>1, <1>2, Machine DEF Here
  <2>2. Len(Here) # 1 /\ Below(Here).fn = "irq"
    BY <1>1, <2>1, BootEnds DEF Top
  <2>3. QED BY <2>1, <2>2 DEF IInv, Booting, InService
<1>3. CASE cpu # 0
  <2>1. WorkerShape(Here)
    BY <1>1, <1>3, Machine
  <2>2. Len(Here) # 1 /\ Below(Here).fn # "schedule"
    BY <1>1, <2>1, WorkerEnds DEF Top
  <2>3. QED BY <1>3, <2>2 DEF IInv, Booting, InService
<1>4. QED BY <1>2, <1>3

\* A step of it that goes on with f.
LEMMA ScheduleStays ==
  ASSUME IInv, InSchedule, NEW f \in Frame, f.fn = "schedule",
         Continue(Replace(Here, f)), UNCHANGED <<job, isr>>
  PROVE  /\ Stacks' /\ Booting' /\ InService'
         /\ stack' \in [Threads -> Seq(Frame)] /\ stack'[cpu'] # <<>>
         /\ cpu' = cpu /\ Top' = f /\ InSchedule'
         /\ \A t \in Threads : /\ stack'[t] # <<>> <=> stack[t] # <<>>
                               /\ Bottom(stack'[t]) = Bottom(stack[t])
<1> DEFINE r == Replace(Here, f)
<1>1. Here \in Seq(Frame) /\ Here # <<>> /\ Last(Here).fn = "schedule" /\ 0 \in Threads
  BY Machine DEF InSchedule, Top
<1>2. Len(Here) # 1
  BY ScheduleFacts
<1>3. /\ r \in Seq(Frame) /\ r # <<>> /\ Last(r) = f
      /\ Bottom(r) = Bottom(Here) /\ Below(r) = Below(Here)
  BY <1>1, <1>2, ReplaceLemma
<1>4. (cpu = 0 => BootShape(r)) /\ (cpu # 0 => WorkerShape(r))
  BY <1>1, Machine, BootScheduling, WorkerScheduling
<1>5. Continue(r) /\ job' = job /\ isr' = isr
  OBVIOUS
<1> HIDE DEF r
<1>6. /\ Stacks' /\ stack' \in [Threads -> Seq(Frame)] /\ stack'[cpu'] # <<>>
      /\ cpu' = cpu /\ Top' = f /\ stack'[cpu] = r
      /\ \A t \in Threads : t # cpu => stack'[t] = stack[t]
      /\ cpu # 0 => Handler' = Handler
      /\ cpu = 0 => Handler' = Below(r)
  BY <1>3, <1>4, <1>5, ContinueLemma
<1>7. InSchedule' /\ Handler' = Handler
  BY <1>3, <1>6, ScheduleFacts DEF InSchedule
<1>8. InService'
  BY <1>5, <1>7, ScheduleFacts DEF IInv, InService
<1>9. \A t \in Threads : /\ stack'[t] # <<>> <=> stack[t] # <<>>
                         /\ Bottom(stack'[t]) = Bottom(stack[t])
  BY <1>1, <1>3, <1>6 DEF Here
<1>10. Booting'
  BY <1>1, <1>9, ScheduleFacts DEF Booting
<1>11. QED BY <1>6, <1>7, <1>8, <1>9, <1>10

\* A step of it that returns on the stack it was called on.
LEMMA ScheduleReturns ==
  ASSUME IInv, InSchedule, Continue(Return(Here)), UNCHANGED <<job, isr>>
  PROVE  /\ Stacks' /\ Booting' /\ InService'
         /\ stack' \in [Threads -> Seq(Frame)] /\ stack'[cpu'] # <<>>
         /\ cpu' = cpu /\ ~InSchedule'
         /\ \A t \in Threads : /\ stack'[t] # <<>> <=> stack[t] # <<>>
                               /\ Bottom(stack'[t]) = Bottom(stack[t])
<1> DEFINE r == Return(Here)
<1>1. Here \in Seq(Frame) /\ Here # <<>> /\ Last(Here).fn = "schedule" /\ 0 \in Threads
  BY Machine DEF InSchedule, Top
<1>2. Len(Here) # 1 /\ Below(Here).fn # "schedule"
  BY ScheduleFacts
<1>3. /\ r \in Seq(Frame) /\ r # <<>> /\ Last(r) = Below(Here) /\ Bottom(r) = Bottom(Here)
  BY <1>1, <1>2, ReturnLemma
<1>4. (cpu = 0 => BootShape(r)) /\ (cpu # 0 => WorkerShape(r))
  BY <1>1, Machine, BootReturn, WorkerReturn
<1>5. Continue(r) /\ job' = job /\ isr' = isr
  OBVIOUS
<1> HIDE DEF r
<1>6. /\ Stacks' /\ stack' \in [Threads -> Seq(Frame)] /\ stack'[cpu'] # <<>>
      /\ cpu' = cpu /\ Top' = Last(r) /\ stack'[cpu] = r
      /\ \A t \in Threads : t # cpu => stack'[t] = stack[t]
      /\ cpu # 0 => Handler' = Handler
      /\ cpu = 0 => Handler' = Last(r)
  BY <1>2, <1>3, <1>4, <1>5, ContinueLemma
<1>7. ~InSchedule' /\ Handler' = Handler
  BY <1>2, <1>3, <1>6, ScheduleFacts DEF InSchedule
<1>8. InService'
  BY <1>5, <1>7, ScheduleFacts DEF IInv, InService
<1>9. \A t \in Threads : /\ stack'[t] # <<>> <=> stack[t] # <<>>
                         /\ Bottom(stack'[t]) = Bottom(stack[t])
  BY <1>1, <1>3, <1>6 DEF Here
<1>10. Booting'
  BY <1>1, <1>9, ScheduleFacts DEF Booting
<1>11. QED BY <1>6, <1>7, <1>8, <1>9, <1>10

\* The thread it was called by runs on: it is not asleep, or its deadline has passed.
LEMMA KeepRunningInv ==
  ASSUME IInv, InSchedule, Top.at # "switch", KeepRunning(cpu),
         UNCHANGED <<until, rsp, current, job, left, made, ticks, inputs, irr, isr, imr>>,
         iflag' \in BOOLEAN, state[cpu] \in {"READY", "RUNNING", "SLEEPING"},
         state[cpu] = "SLEEPING" => until[cpu] <= ticks,
         \A t \in Threads \ {cpu} : state[t] = "SLEEPING" => ticks < until[t]
  PROVE  IInv'
<1>1. /\ state' = [state EXCEPT ![cpu] = "RUNNING"] /\ slice' = [slice EXCEPT ![cpu] = TimeSlice]
      /\ Continue(Return(Here))
  BY DEF KeepRunning
<1>2. /\ Stacks' /\ Booting' /\ InService'
      /\ stack' \in [Threads -> Seq(Frame)] /\ stack'[cpu'] # <<>>
      /\ cpu' = cpu /\ ~InSchedule'
      /\ \A t \in Threads : /\ stack'[t] # <<>> <=> stack[t] # <<>>
                            /\ Bottom(stack'[t]) = Bottom(stack[t])
  BY <1>1, ScheduleReturns
<1>3. /\ cpu \in Threads /\ 0 \in Threads /\ TimeSlice \in Nat
      /\ state' \in [Threads -> States] /\ state'[cpu] = "RUNNING"
      /\ slice' \in [Threads -> 0..TimeSlice] /\ slice'[cpu] = TimeSlice
      /\ \A t \in Threads : t # cpu => state'[t] = state[t]
  <2>1. cpu \in Threads /\ 0 \in Threads /\ TimeSlice \in Nat /\ TimeSlice \in 0..TimeSlice
    <3>1. cpu \in Threads /\ 0 \in Threads
      BY Machine DEF IInv, TypeOK
    <3>2. TimeSlice \in Nat /\ TimeSlice \in 0..TimeSlice
      BY ThreadsAssumption
    <3>3. QED BY <3>1, <3>2
  <2>2. state \in [Threads -> States] /\ slice \in [Threads -> 0..TimeSlice]
    BY DEF IInv, TypeOK
  <2>3. QED BY <1>1, <2>1, <2>2 DEF States
<1>4. current = cpu /\ \A t \in Threads : state[t] = "RUNNING" => t = cpu
  BY DEF IInv, Scheduling
<1>5. TypeOK'
  BY <1>2, <1>3 DEF IInv, TypeOK, PicTypeOK
<1>6. Table'
  <2>1. ASSUME NEW t \in Workers
        PROVE  /\ state'[t] \in {"READY", "RUNNING", "SLEEPING"} =>
                    stack'[t] # <<>> /\ Bottom(stack'[t]).fn \in {"trampoline", "worker"}
               /\ ~(stack'[t] # <<>> /\ Bottom(stack'[t]).at = "sleep")
               /\ /\ state'[t] \in {"READY", "RUNNING"}
                  /\ Bottom(stack'[t]).at # "sleep"
                  => until[t] <= ticks
    <3>1. t \in Threads
      BY DEF Workers
    <3>2. CASE t = cpu
      BY <1>2, <1>3, <3>1, <3>2 DEF IInv, Table
    <3>3. CASE t # cpu
      BY <1>2, <1>3, <3>1, <3>3 DEF IInv, Table
    <3>4. QED BY <3>2, <3>3
  <2>2. state'[0] \in {"READY", "RUNNING"}
    BY <1>3 DEF IInv, Table
  <2>3. QED BY <2>1, <2>2 DEF Table
<1>7. Running'
  BY <1>2, <1>3, <1>4 DEF Running
<1>8. Scheduling'
  BY <1>2 DEF Scheduling
<1>9. OwnStack'
  BY DEF IInv, OwnStack
<1>10. Latency'
  <2> SUFFICES ASSUME NEW t \in Threads, state'[t] = "SLEEPING"
               PROVE  ticks + TimeSlice < until[t] + TimeSlice
    BY <1>2, <1>3, <1>4 DEF Latency
  <2>1. t # cpu /\ ticks < until[t]
    BY <1>3
  <2>2. ticks \in Nat /\ until[t] \in Nat
    BY DEF IInv, TypeOK
  <2>3. QED BY <1>3, <2>1, <2>2
<1>11. QED BY <1>2, <1>5, <1>6, <1>7, <1>8, <1>9, <1>10 DEF IInv

\* The next frame of a step that only moves on.
LEMMA JumpFrame ==
  ASSUME NEW a \in Steps, Top \in Frame, Top.fn = "schedule"
  PROVE  LET f == [Top EXCEPT !.at = a]
         IN  /\ f \in Frame /\ f.fn = "schedule" /\ f.at = a
             /\ f.prev = Top.prev /\ f.next = Top.next
             /\ Jump(Here, a) = Replace(Here, f)
BY DEF Frame, Jump, Top

\* Waking the sleepers that are due leaves only sleepers that are not.
LEMMA WakeSleepersInv == IInv /\ WakeSleepers => IInv'
<1> SUFFICES ASSUME IInv, WakeSleepers PROVE IInv'
  OBVIOUS
<1> DEFINE f == [Top EXCEPT !.at = "scan"]
<1>1. /\ UNCHANGED <<slice, until, rsp, current, job, left, made>>
      /\ UNCHANGED <<ticks, iflag, inputs, irr, isr, imr>>
      /\ Top.fn = "schedule" /\ Top.at = "wake" /\ Continue(Jump(Here, "scan")) /\ InSchedule
      /\ state' = [t \in Threads |->
                     IF state[t] = "SLEEPING" /\ ticks >= until[t] THEN "READY" ELSE state[t]]
  BY DEF WakeSleepers, workVars, picVars, At, InSchedule
<1>2. f \in Frame /\ f.fn = "schedule" /\ f.at = "scan" /\ Continue(Replace(Here, f))
  BY <1>1, Machine, JumpFrame DEF Steps
<1> HIDE DEF f
<1>3. /\ Stacks' /\ Booting' /\ InService'
      /\ stack' \in [Threads -> Seq(Frame)] /\ stack'[cpu'] # <<>>
      /\ cpu' = cpu /\ Top' = f /\ InSchedule'
      /\ \A t \in Threads : /\ stack'[t] # <<>> <=> stack[t] # <<>>
                            /\ Bottom(stack'[t]) = Bottom(stack[t])
  BY <1>1, <1>2, ScheduleStays
<1>4. /\ cpu \in Threads /\ 0 \in Threads /\ ticks \in Nat /\ state' \in [Threads -> States]
      /\ \A t \in Threads :
           /\ until[t] \in Nat
           /\ state'[t] = "RUNNING" <=> state[t] = "RUNNING"
           /\ state'[t] = "SLEEPING" => state[t] = "SLEEPING" /\ ticks < until[t]
           /\ state'[t] = "READY" => state[t] = "READY" \/ (state[t] = "SLEEPING" /\ until[t] <= ticks)
  <2>1. /\ cpu \in Threads /\ 0 \in Threads /\ ticks \in Nat
        /\ state \in [Threads -> States] /\ until \in [Threads -> Nat]
    BY Machine DEF IInv, TypeOK
  <2>2. QED BY <1>1, <2>1 DEF States
<1>5. TypeOK'
  BY <1>1, <1>3, <1>4 DEF IInv, TypeOK, PicTypeOK
<1>6. Table'
  <2>1. ASSUME NEW t \in Workers
        PROVE  /\ state'[t] \in {"READY", "RUNNING", "SLEEPING"} =>
                    stack'[t] # <<>> /\ Bottom(stack'[t]).fn \in {"trampoline", "worker"}
               /\ ~(stack'[t] # <<>> /\ Bottom(stack'[t]).at = "sleep")
               /\ /\ state'[t] \in {"READY", "RUNNING"}
                  /\ Bottom(stack'[t]).at # "sleep"
                  => until[t] <= ticks
    <3>1. t \in Threads
      BY DEF Workers
    <3>2. QED BY <1>1, <1>3, <1>4, <3>1 DEF IInv, Table
  <2>2. state'[0] \in {"READY", "RUNNING"}
    BY <1>1, <1>4 DEF IInv, Table
  <2>3. QED BY <1>1, <2>1, <2>2 DEF Table
<1>7. Running' /\ Latency'
  BY <1>3 DEF Running, Latency
<1>8. Scheduling'
  BY <1>1, <1>2, <1>3, <1>4 DEF IInv, Scheduling
<1>9. OwnStack'
  BY <1>1 DEF IInv, OwnStack
<1>10. QED BY <1>3, <1>5, <1>6, <1>7, <1>8, <1>9 DEF IInv

\* What a step that changes only the frame of scheduler_schedule, and perhaps the
\* interrupt flag, has to establish.
LEMMA FrameOnly ==
  ASSUME IInv, InSchedule, NEW f \in Frame, f.fn = "schedule", Continue(Replace(Here, f)),
         UNCHANGED <<state, slice, until, rsp, current, job, left, made>>,
         UNCHANGED <<ticks, inputs, irr, isr, imr>>, iflag' \in BOOLEAN,
         (cpu' = cpu /\ Top' = f) => Scheduling'
  PROVE  IInv'
<1>1. /\ Stacks' /\ Booting' /\ InService'
      /\ stack' \in [Threads -> Seq(Frame)] /\ stack'[cpu'] # <<>>
      /\ cpu' = cpu /\ Top' = f /\ InSchedule'
      /\ \A t \in Threads : /\ stack'[t] # <<>> <=> stack[t] # <<>>
                            /\ Bottom(stack'[t]) = Bottom(stack[t])
  BY ScheduleStays
<1>2. TypeOK'
  BY <1>1 DEF IInv, TypeOK, PicTypeOK
<1>3. Table'
  <2>1. \A t \in Workers : /\ stack'[t] # <<>> <=> stack[t] # <<>>
                           /\ Bottom(stack'[t]) = Bottom(stack[t])
    BY <1>1 DEF Workers
  <2>2. QED BY <1>1, <2>1 DEF IInv, Table
<1>4. Running' /\ Latency' /\ OwnStack'
  BY <1>1 DEF IInv, Running, Latency, OwnStack
<1>5. QED BY <1>1, <1>2, <1>3, <1>4 DEF IInv

\* The scan finds a READY thread or none, and moves on.
LEMMA ScanInv == IInv /\ Scan => IInv'
<1> SUFFICES ASSUME IInv, Scan PROVE IInv'
  OBVIOUS
<1>1. /\ UNCHANGED <<state, slice, until, rsp, current, job, left, made>>
      /\ UNCHANGED <<ticks, iflag, inputs, irr, isr, imr>>
      /\ Top.fn = "schedule" /\ Top.at = "scan" /\ InSchedule
  BY DEF Scan, threadVars, workVars, picVars, At, InSchedule
<1>2. PICK n \in Threads, a \in {"found", "none"} :
        /\ a = "found" => state[n] = "READY"
        /\ Continue(Replace(Here, Scheduled(a, current, n)))
  <2>1. CASE \E n \in NextReady(current) : Continue(Replace(Here, Scheduled("found", current, n)))
    BY <2>1 DEF NextReady
  <2>2. CASE Continue(Replace(Here, Scheduled("none", current, 0)))
    BY <2>2, Machine
  <2>3. QED BY <2>1, <2>2 DEF Scan
<1> DEFINE f == Scheduled(a, current, n)
<1>3. f \in Frame
  BY CallIsFrame DEF Steps, IInv, TypeOK
<1>4. f.fn = "schedule" /\ f.at = a /\ f.prev = current /\ f.next = n
  BY DEF Scheduled
<1>5. ASSUME cpu' = cpu, Top' = f PROVE Scheduling'
  <2> HIDE DEF f
  <2>1. QED BY <1>1, <1>2, <1>4, <1>5 DEF IInv, Scheduling
<1>6. iflag' \in BOOLEAN /\ Continue(Replace(Here, f))
  BY <1>1, <1>2 DEF IInv, TypeOK
<1> HIDE DEF f
<1>7. QED BY <1>1, <1>3, <1>4, <1>5, <1>6, FrameOnly

\* With no READY thread the caller runs on, waits, or gives way to thread 0.
LEMMA NoneReadyInv == IInv /\ NoneReady => IInv'
<1> SUFFICES ASSUME IInv, NoneReady PROVE IInv'
  OBVIOUS
<1>1. /\ UNCHANGED <<until, rsp, current, job, left, made>>
      /\ UNCHANGED <<ticks, iflag, inputs, irr, isr, imr>>
      /\ Top.fn = "schedule" /\ Top.at = "none" /\ InSchedule /\ iflag' \in BOOLEAN
  BY DEF NoneReady, workVars, picVars, At, InSchedule, IInv, TypeOK
<1>2. Top.prev = cpu /\ Top \in Frame /\ cpu \in Threads /\ 0 \in Threads
  BY <1>1, Machine DEF IInv, Scheduling, TypeOK
<1>3. CASE state[cpu] \in {"RUNNING", "READY"} /\ KeepRunning(cpu)
  <2>1. \A t \in Threads \ {cpu} : state[t] = "SLEEPING" => ticks < until[t]
    BY <1>1 DEF IInv, Scheduling
  <2>2. QED BY <1>1, <1>3, <2>1, KeepRunningInv
<1>4. CASE state[cpu] = "SLEEPING" /\ Continue(Jump(Here, "wait")) /\ UNCHANGED <<state, slice>>
  <2> DEFINE f == [Top EXCEPT !.at = "wait"]
  <2>1. /\ f \in Frame /\ f.fn = "schedule" /\ f.at = "wait" /\ f.prev = cpu
        /\ Continue(Replace(Here, f))
    BY <1>1, <1>2, <1>4, JumpFrame DEF Steps
  <2> HIDE DEF f
  <2>2. ASSUME cpu' = cpu, Top' = f PROVE Scheduling'
    BY <1>1, <1>4, <2>1, <2>2 DEF IInv, Scheduling
  <2>3. QED BY <1>1, <1>4, <2>1, <2>2, FrameOnly
<1>5. CASE Continue(Replace(Here, Scheduled("found", cpu, 0))) /\ UNCHANGED <<state, slice>>
  <2> DEFINE f == Scheduled("found", cpu, 0)
  <2>1. f \in Frame
    BY <1>2, CallIsFrame DEF Steps
  <2>2. f.fn = "schedule" /\ f.at = "found" /\ f.prev = cpu /\ f.next = 0
    BY DEF Scheduled
  <2>3. Continue(Replace(Here, f))
    BY <1>5
  <2> HIDE DEF f
  <2>4. ASSUME cpu' = cpu, Top' = f PROVE Scheduling'
    BY <1>1, <1>5, <2>2, <2>4 DEF IInv, Scheduling
  <2>5. QED BY <1>1, <1>5, <2>1, <2>2, <2>3, <2>4, FrameOnly
<1>6. QED BY <1>2, <1>3, <1>4, <1>5 DEF NoneReady

\* The wait loop halts again or lets the caller run on.
LEMMA WaitForTickInv == IInv /\ WaitForTick => IInv'
<1> SUFFICES ASSUME IInv, WaitForTick PROVE IInv'
  OBVIOUS
<1>1. /\ UNCHANGED <<until, rsp, current, job, left, made>>
      /\ UNCHANGED <<ticks, inputs, irr, isr, imr>>
      /\ Top.fn = "schedule" /\ Top.at = "wait" /\ InSchedule /\ iflag' \in BOOLEAN
  BY DEF WaitForTick, workVars, picVars, At, InSchedule, IInv, TypeOK
<1>2. /\ Top.prev = cpu /\ Top \in Frame /\ cpu \in Threads /\ state[cpu] = "SLEEPING"
      /\ until[cpu] \in Nat /\ ticks \in Nat
  BY <1>1, Machine DEF IInv, Scheduling, TypeOK
<1>3. ASSUME NEW a \in {"armed", "halt"}, Continue(Jump(Here, a)), UNCHANGED <<state, slice>>
      PROVE  IInv'
  <2> DEFINE f == [Top EXCEPT !.at = a]
  <2>1. /\ f \in Frame /\ f.fn = "schedule" /\ f.at = a /\ f.prev = cpu
        /\ Continue(Replace(Here, f))
    BY <1>1, <1>2, <1>3, JumpFrame DEF Steps
  <2> HIDE DEF f
  <2>2. ASSUME cpu' = cpu, Top' = f PROVE Scheduling'
    BY <1>1, <1>3, <2>1, <2>2 DEF IInv, Scheduling
  <2>3. QED BY <1>1, <1>3, <2>1, <2>2, FrameOnly
<1>4. CASE ticks >= until[cpu] /\ KeepRunning(cpu)
  <2>1. until[cpu] <= ticks
    BY <1>2, <1>4
  <2>2. \A t \in Threads \ {cpu} : state[t] = "SLEEPING" => ticks < until[t]
    BY <1>1 DEF IInv, Scheduling
  <2>3. QED BY <1>1, <1>2, <1>4, <2>1, <2>2, KeepRunningInv
<1>5. QED BY <1>2, <1>3, <1>4 DEF WaitForTick

\* The hlt changes nothing but the place in scheduler_schedule.
LEMMA HaltInv == IInv /\ Halt => IInv'
<1> SUFFICES ASSUME IInv, Halt PROVE IInv'
  OBVIOUS
<1> DEFINE f == [Top EXCEPT !.at = "halt"]
<1>1. /\ UNCHANGED <<state, slice, until, rsp, current, job, left, made>>
      /\ UNCHANGED <<ticks, iflag, inputs, irr, isr, imr>>
      /\ Top.fn = "schedule" /\ Top.at = "armed" /\ InSchedule /\ iflag' \in BOOLEAN
      /\ Continue(Jump(Here, "halt"))
  BY DEF Halt, threadVars, workVars, picVars, At, InSchedule, IInv, TypeOK
<1>2. Top \in Frame /\ Top.prev = cpu /\ state[cpu] = "SLEEPING"
  BY <1>1, Machine DEF IInv, Scheduling
<1>3. /\ f \in Frame /\ f.fn = "schedule" /\ f.at = "halt" /\ f.prev = cpu
      /\ Continue(Replace(Here, f))
  BY <1>1, <1>2, JumpFrame DEF Steps
<1> HIDE DEF f
<1>4. ASSUME cpu' = cpu, Top' = f PROVE Scheduling'
  BY <1>1, <1>2, <1>3, <1>4 DEF IInv, Scheduling
<1>5. QED BY <1>1, <1>3, <1>4, FrameOnly

\* The thread found, or the caller itself, is marked running.
LEMMA CommitInv == IInv /\ Commit => IInv'
<1> SUFFICES ASSUME IInv, Commit PROVE IInv'
  OBVIOUS
<1>1. /\ UNCHANGED <<until, rsp, job, left, made>>
      /\ UNCHANGED <<ticks, iflag, inputs, irr, isr, imr>>
      /\ Top.fn = "schedule" /\ Top.at = "found" /\ InSchedule /\ iflag' \in BOOLEAN
  BY DEF Commit, workVars, picVars, At, InSchedule, IInv, TypeOK
<1>2. /\ Top.prev = cpu /\ current = cpu /\ Top \in Frame /\ Top.next \in Threads
      /\ cpu \in Threads /\ 0 \in Threads
      /\ state[0] \in {"READY", "RUNNING"} /\ (Top.next = 0 \/ state[Top.next] = "READY")
  BY <1>1, Machine DEF IInv, Scheduling, TypeOK, Frame, Table
<1>3. CASE Top.next = cpu /\ KeepRunning(cpu) /\ current' = current
  <2>1. \A t \in Threads \ {cpu} : state[t] = "SLEEPING" => ticks < until[t]
    BY <1>1 DEF IInv, Scheduling
  <2>2. QED BY <1>1, <1>2, <1>3, <2>1, KeepRunningInv
<1>4. ASSUME Top.next # cpu,
             state' = [t \in Threads |->
                         IF t = Top.next THEN "RUNNING"
                         ELSE IF t = cpu /\ state[t] = "RUNNING" THEN "READY"
                         ELSE state[t]],
             slice' = [slice EXCEPT ![Top.next] = TimeSlice],
             current' = Top.next, Continue(Jump(Here, "switch"))
      PROVE  IInv'
  <2> DEFINE f == [Top EXCEPT !.at = "switch"]
  <2>1. /\ f \in Frame /\ f.fn = "schedule" /\ f.at = "switch" /\ f.prev = cpu
        /\ f.next = Top.next /\ Continue(Replace(Here, f))
    BY <1>1, <1>2, <1>4, JumpFrame DEF Steps
  <2> HIDE DEF f
  <2>2. /\ Stacks' /\ Booting' /\ InService'
        /\ stack' \in [Threads -> Seq(Frame)] /\ stack'[cpu'] # <<>>
        /\ cpu' = cpu /\ Top' = f /\ InSchedule'
        /\ \A t \in Threads : /\ stack'[t] # <<>> <=> stack[t] # <<>>
                              /\ Bottom(stack'[t]) = Bottom(stack[t])
    BY <1>1, <2>1, ScheduleStays
  <2>3. /\ state' \in [Threads -> States]
        /\ slice' \in [Threads -> 0..TimeSlice] /\ slice'[Top.next] = TimeSlice
    <3>1. TimeSlice \in 0..TimeSlice
      BY ThreadsAssumption
    <3>2. QED BY <1>2, <1>4, <3>1 DEF IInv, TypeOK, States
  <2>4. \A t \in Threads :
          /\ state'[t] = "RUNNING" <=> t = Top.next
          /\ state'[t] = "SLEEPING" => state[t] = "SLEEPING"
          /\ state'[t] \in {"READY", "RUNNING"} =>
               state[t] \in {"READY", "RUNNING"} \/ t = 0
    <3>1. \A t \in Threads : state[t] = "RUNNING" => t = cpu
      BY <1>1 DEF IInv, Scheduling
    <3>2. QED BY <1>2, <1>4, <3>1
  <2>5. TypeOK'
    BY <1>1, <1>2, <1>4, <2>2, <2>3 DEF IInv, TypeOK, PicTypeOK
  <2>6. Table'
    <3>1. ASSUME NEW t \in Workers
          PROVE  /\ state'[t] \in {"READY", "RUNNING", "SLEEPING"} =>
                      stack'[t] # <<>> /\ Bottom(stack'[t]).fn \in {"trampoline", "worker"}
                 /\ ~(stack'[t] # <<>> /\ Bottom(stack'[t]).at = "sleep")
                 /\ /\ state'[t] \in {"READY", "RUNNING"}
                    /\ Bottom(stack'[t]).at # "sleep"
                    => until[t] <= ticks
      <4>1. t \in Threads /\ t # 0
        BY DEF Workers
      <4>2. QED BY <1>1, <2>2, <2>4, <4>1 DEF IInv, Table
    <3>2. state'[0] \in {"READY", "RUNNING"}
      BY <1>2, <1>4
    <3>3. QED BY <1>1, <3>1, <3>2 DEF Table
  <2>7. Running' /\ Latency'
    BY <2>2 DEF Running, Latency
  <2>8. Scheduling'
    <3>1. \A t \in Threads : state[t] = "SLEEPING" => ticks < until[t]
      BY <1>1 DEF IInv, Scheduling
    <3>2. QED BY <1>1, <1>4, <2>1, <2>2, <2>3, <2>4, <3>1 DEF Scheduling
  <2>9. OwnStack'
    BY <1>1 DEF IInv, OwnStack
  <2>10. QED BY <2>2, <2>5, <2>6, <2>7, <2>8, <2>9 DEF IInv
<1>5. QED BY <1>2, <1>3, <1>4 DEF Commit

\* The switch uncovers the caller on the old stack and goes on with the new one's.
LEMMA ContextSwitchInv == IInv /\ ContextSwitch => IInv'
<1> SUFFICES ASSUME IInv, ContextSwitch PROVE IInv'
  OBVIOUS
<1> DEFINE r == Return(Here)
           n == Top.next
<1>1. /\ UNCHANGED <<state, slice, until, current, job, left, made>>
      /\ UNCHANGED <<ticks, iflag, inputs, irr, isr, imr>>
      /\ Top.fn = "schedule" /\ Top.at = "switch" /\ InSchedule
      /\ rsp' = [rsp EXCEPT ![Top.prev] = cpu] /\ cpu' = rsp[n]
      /\ stack' = [stack EXCEPT ![cpu] = r]
  BY DEF ContextSwitch, workVars, picVars, At, InSchedule, Here
<1>2. /\ Top.prev = cpu /\ Top \in Frame /\ n \in Threads /\ cpu \in Threads /\ 0 \in Threads
      /\ current = n /\ n # cpu /\ \A t \in Threads : state[t] = "RUNNING" <=> t = n
      /\ slice[n] = TimeSlice /\ \A t \in Threads : state[t] = "SLEEPING" => ticks < until[t]
  BY <1>1, Machine DEF IInv, Scheduling, TypeOK, Frame
<1>3. Here \in Seq(Frame) /\ Here # <<>> /\ Len(Here) # 1 /\ Below(Here).fn # "schedule"
  BY <1>1, Machine, ScheduleFacts
<1>4. r \in Seq(Frame) /\ r # <<>> /\ Last(r) = Below(Here) /\ Bottom(r) = Bottom(Here)
  BY <1>3, ReturnLemma
<1>5. (cpu = 0 => BootShape(r)) /\ (cpu # 0 => WorkerShape(r))
  BY <1>1, <1>3, Machine, BootReturn, WorkerReturn DEF Top
<1> HIDE DEF r, n
<1>6. cpu' = n /\ rsp' = rsp
  BY <1>1, <1>2 DEF IInv, OwnStack, TypeOK
<1>7. /\ stack' \in [Threads -> Seq(Frame)] /\ stack'[cpu] = r
      /\ \A t \in Threads : t # cpu => stack'[t] = stack[t]
  BY <1>1, <1>2, <1>4 DEF IInv, TypeOK
<1>8. \A t \in Threads : /\ stack'[t] # <<>> <=> stack[t] # <<>>
                         /\ Bottom(stack'[t]) = Bottom(stack[t])
                         /\ stack'[t] # <<>> => Last(stack'[t]).fn # "schedule"
  <2> TAKE t \in Threads
  <2>1. CASE t = cpu
    BY <1>3, <1>4, <1>7, <2>1 DEF Here
  <2>2. CASE t # cpu
    BY <1>7, <2>2 DEF IInv, Stacks
  <2>3. QED BY <2>1, <2>2
<1>9. stack[n] # <<>>
  <2>1. CASE n = 0
    BY <2>1 DEF IInv, Stacks, BootShape
  <2>2. CASE n # 0
    BY <1>2, <2>2 DEF IInv, Table, Workers
  <2>3. QED BY <2>1, <2>2
<1>10. ~InSchedule' /\ stack'[cpu'] # <<>>
  BY <1>2, <1>6, <1>8, <1>9 DEF InSchedule, Top, Here
<1>11. Handler' = Handler
  <2>1. CASE cpu = 0
    BY <1>1, <1>3, <1>4, <1>7, <2>1, Machine DEF Handler
  <2>2. CASE cpu # 0
    BY <1>2, <1>7, <2>2 DEF Handler
  <2>3. QED BY <2>1, <2>2
<1>12. TypeOK'
  BY <1>1, <1>2, <1>6, <1>7, <1>10 DEF IInv, TypeOK, PicTypeOK
<1>13. Stacks'
  <2>1. BootShape(stack'[0])
    BY <1>2, <1>5, <1>7 DEF IInv, Stacks
  <2>2. ASSUME NEW t \in Workers, stack'[t] # <<>> PROVE WorkerShape(stack'[t]) /\ job'[t] > 0
    <3>1. t \in Threads /\ t # 0 /\ stack[t] # <<>>
      BY <1>8, <2>2 DEF Workers
    <3>2. CASE t = cpu
      BY <1>1, <1>5, <1>7, <3>1, <3>2 DEF IInv, Stacks
    <3>3. CASE t # cpu
      BY <1>1, <1>7, <3>1, <3>3 DEF IInv, Stacks
    <3>4. QED BY <3>2, <3>3
  <2>3. QED BY <1>8, <2>1, <2>2 DEF Stacks
<1>14. Booting'
  BY <1>1, <1>2, <1>8, ScheduleFacts DEF Booting
<1>15. InService'
  BY <1>1, <1>11, ScheduleFacts DEF IInv, InService
<1>16. Table'
  <2>1. \A t \in Workers : /\ stack'[t] # <<>> <=> stack[t] # <<>>
                           /\ Bottom(stack'[t]) = Bottom(stack[t])
    BY <1>8 DEF Workers
  <2>2. QED BY <1>1, <2>1 DEF IInv, Table
<1>17. Running'
  BY <1>1, <1>2, <1>6 DEF Running
<1>18. Scheduling'
  BY <1>10 DEF Scheduling
<1>19. OwnStack'
  BY <1>6 DEF IInv, OwnStack
<1>20. Latency'
  <2> SUFFICES ASSUME NEW t \in Threads, state[t] = "SLEEPING"
               PROVE  ticks + TimeSlice < until[t] + TimeSlice
    BY <1>1, <1>2 DEF Latency
  <2>1. ticks < until[t] /\ ticks \in Nat /\ until[t] \in Nat /\ TimeSlice \in Nat
    BY <1>2, ThreadsAssumption DEF IInv, TypeOK
  <2>2. QED BY <2>1
<1>21. QED BY <1>12, <1>13, <1>14, <1>15, <1>16, <1>17, <1>18, <1>19, <1>20 DEF IInv

-----------------------------------------------------------------------------
(* The invariant.                                                          *)

\* The machine is in a state of the invariant once kmain is through scheduler_init.
LEMMA InitInv == Init => IInv
<1> SUFFICES ASSUME Init PROVE IInv
  OBVIOUS
<1> DEFINE f == Call("kmain", "create")
<1>1. /\ 0 \in Threads /\ TimeSlice \in 0..TimeSlice /\ 0 \in 0..TimeSlice
      /\ 0 \in 0..Len(Jobs) /\ 0 \in 0..Cycles
  BY ThreadsAssumption, JobsAssumption DEF Threads
<1>2. f \in Frame /\ f.fn = "kmain" /\ f.at = "create"
  BY CallIsFrame DEF Functions, Steps, Call
<1>3. \A t \in Workers : t \in Threads /\ t # 0
  BY DEF Workers
<1>4. /\ stack = [t \in Threads |-> IF t = 0 THEN <<f>> ELSE <<>>] /\ cpu = 0 /\ current = 0
      /\ state = [t \in Threads |-> IF t = 0 THEN "RUNNING" ELSE "UNUSED"]
      /\ isr = {} /\ irr = {} /\ iflag = FALSE
  BY DEF Init
<1> HIDE DEF f
<1>5. /\ stack[0] = <<f>> /\ <<f>> \in Seq(Frame) /\ <<f>> # <<>> /\ Last(<<f>>) = f
      /\ Bottom(<<f>>) = f /\ Len(<<f>>) = 1 /\ stack \in [Threads -> Seq(Frame)]
      /\ \A t \in Workers : stack[t] = <<>>
  BY <1>1, <1>2, <1>3, <1>4 DEF Last, Bottom
<1>6. Here = <<f>> /\ Top = f /\ Handler = f /\ ~InSchedule
  BY <1>2, <1>4, <1>5 DEF Here, Top, Handler, InSchedule
<1>7. TypeOK
  <2>1. PicTypeOK
    BY DEF Init, PicTypeOK, Unmask, InitialMask, Master, Slave, Lines
  <2>2. state \in [Threads -> States]
    BY <1>4 DEF States
  <2>3. QED BY <1>1, <1>4, <1>5, <2>1, <2>2 DEF Init, TypeOK
<1>8. Stacks
  <2>1. BootShape(<<f>>)
    BY <1>2, <1>5 DEF BootShape
  <2>2. \A t \in Threads : stack[t] # <<>> => t = 0
    BY <1>4
  <2>3. QED BY <1>2, <1>4, <1>5, <2>1, <2>2 DEF Stacks
<1>9. Booting /\ InService
  BY <1>1, <1>2, <1>3, <1>4, <1>5, <1>6 DEF Booting, InService
<1>10. Table
  BY <1>1, <1>3, <1>4, <1>5 DEF Table
<1>11. Running /\ Scheduling /\ Latency
  BY <1>1, <1>4, <1>6 DEF Running, Scheduling, Latency
<1>12. OwnStack
  BY DEF Init, OwnStack
<1>13. QED BY <1>7, <1>8, <1>9, <1>10, <1>11, <1>12 DEF IInv

\* A step that changes nothing keeps the invariant.
LEMMA StutterInv == IInv /\ UNCHANGED vars => IInv'
<1> SUFFICES ASSUME IInv, UNCHANGED vars PROVE IInv'
  OBVIOUS
<1>1. /\ UNCHANGED <<state, slice, until, rsp, current, job, left, made>>
      /\ UNCHANGED <<stack, ticks, cpu, iflag, inputs, irr, isr, imr>>
  BY DEF vars
<1>2. Here' = Here /\ Top' = Top /\ Handler' = Handler /\ InSchedule' = InSchedule
  BY <1>1 DEF Here, Top, Handler, InSchedule
<1>3. TypeOK' /\ Stacks' /\ Booting'
  BY <1>1 DEF IInv, TypeOK, PicTypeOK, Stacks, Booting
<1>4. InService'
  BY <1>1, <1>2 DEF IInv, InService
<1>5. Table' /\ Running' /\ Latency' /\ Scheduling' /\ OwnStack'
  BY <1>1, <1>2 DEF IInv, Table, Running, Latency, Scheduling, OwnStack
<1>6. QED BY <1>3, <1>4, <1>5 DEF IInv

\* Every step of the machine keeps the invariant while the desktop is not started.
LEMMA NextInv == Desktop = "never" /\ IInv /\ [Next]_vars => IInv'
BY RaiseInv, InputCallbackInv, EndOfInterruptInv, InterruptReturnInv, InterruptInv,
   TimerCallbackInv, EnableInterruptsInv, TrampolineInv, WorkerCycleInv, GoToSleepInv,
   ThreadExitInv, NoDesktop, ThreadCreateInv, WakeSleepersInv, ScanInv, NoneReadyInv,
   WaitForTickInv, HaltInv, CommitInv, ContextSwitchInv, StutterInv
   DEF Next, CpuStep, ScheduleStep, HandlerStep, ThreadStep

\* While the desktop is not started the machine stays in the states of the invariant,
\* whatever the number of threads, jobs, cycles and ticks.
THEOREM Inductive == Spec /\ Desktop = "never" => []IInv
<1>1. Init => IInv
  BY InitInv
<1>2. Desktop = "never" /\ IInv /\ [Next]_vars => IInv'
  BY NextInv
<1>3. CASE Desktop = "never"
  <2>1. IInv /\ [Next]_vars => IInv'
    BY <1>2, <1>3
  <2>2. QED BY <1>1, <2>1, PTL DEF Spec
<1>4. QED BY <1>3

-----------------------------------------------------------------------------
(* What follows from it.                                                   *)

\* Types: in particular the CPU never runs off the end of a stack.
THEOREM TypeCorrect == Spec /\ Desktop = "never" => []TypeOK
<1>1. IInv => TypeOK
  BY DEF IInv
<1>2. QED BY <1>1, Inductive, PTL

\* A call of scheduler_schedule lies on top of the stack the CPU is on.
LEMMA OnlyOnTop ==
  ASSUME IInv, NEW t \in Threads, NEW i \in 1..Len(stack[t]), stack[t][i].fn = "schedule"
  PROVE  t = cpu /\ i = Len(Here) /\ InSchedule
<1> DEFINE s == stack[t]
           n == Len(s)
<1>1. s \in Seq(Frame) /\ n \in Nat
  BY DEF IInv, TypeOK
<1>2. s # <<>>
  BY <1>1
<1>3. i = 1 \/ i \in 2..n
  <2> HIDE DEF n
  <2>1. i \in 1..n
    BY DEF n
  <2>2. QED BY <1>1, <2>1
<1>4. i = n /\ Last(s).fn = "schedule"
  <2>1. CASE t = 0
    <3>1. BootShape(s)
      BY <2>1 DEF IInv, Stacks
    <3>2. QED BY <1>3, <3>1 DEF BootShape, Bottom, Last
  <2>2. CASE t # 0
    <3>1. WorkerShape(s)
      BY <1>2, <2>2 DEF IInv, Stacks, Workers
    <3>2. i # 1 /\ n \in {1, 2}
      BY <3>1 DEF WorkerShape, EntryFrame, Bottom
    <3>3. i = n
      <4> HIDE DEF n
      <4>1. QED BY <1>3, <3>2
    <3>4. QED BY <3>3 DEF Last
  <2>3. QED BY <2>1, <2>2
<1>5. t = cpu
  BY <1>2, <1>4 DEF IInv, Stacks
<1>6. QED BY <1>4, <1>5 DEF InSchedule, Top, Here

\* The call of scheduler_schedule under way, if there is one, is the top frame.
LEMMA SettledFacts == IInv => (Settled <=> ~InSchedule)
<1> SUFFICES ASSUME IInv PROVE Settled <=> ~InSchedule
  OBVIOUS
<1>1. Here \in Seq(Frame) /\ Here # <<>> /\ Len(Here) \in 1..Len(Here) /\ cpu \in Threads
  BY Machine, LastInFrame DEF IInv, TypeOK
<1>2. InSchedule => ~Settled
  BY <1>1 DEF Settled, InSchedule, Top, Last
<1>3. ~Settled => InSchedule
  BY <1>1, OnlyOnTop DEF Settled, Here
<1>4. QED BY <1>2, <1>3

\* scheduler_schedule, which takes no lock, is never entered a second time: no other
\* stack holds a call of it, and every interrupt is held back while one is under way.
THEOREM NeverReentered == Spec /\ Desktop = "never" => []NotReentered
<1>1. IInv => NotReentered
  <2> SUFFICES ASSUME IInv PROVE NotReentered
    OBVIOUS
  <2>1. ~Settled => Presented = {}
    BY SettledFacts, TimerInService, TimerHoldsBack
  <2>2. QED BY <2>1, OnlyOnTop DEF NotReentered
<1>2. QED BY <1>1, Inductive, PTL

\* A worker has the CPU to itself until it sleeps or exits: it is only ever started or
\* resumed by the handler of the timer, whose interrupt stays in service behind it, so no
\* tick, key or mouse movement is presented while any of its code runs.
THEOREM WorkersRunOn == Spec /\ Desktop = "never" => [](cpu # 0 => Presented = {})
<1>1. IInv => (cpu # 0 => Presented = {})
  BY TimerInService, TimerHoldsBack
<1>2. QED BY <1>1, Inductive, PTL

\* Whenever code of a thread or handler runs, the thread table agrees with the CPU.
THEOREM TableAgrees == Spec /\ Desktop = "never" => []OneRunning
<1>1. IInv => OneRunning
  BY SettledFacts DEF OneRunning, IInv, Running
<1>2. QED BY <1>1, Inductive, PTL

\* No thread's stack pointer is ever saved under another thread.
THEOREM StacksOwned == Spec /\ Desktop = "never" => []OwnStack
<1>1. IInv => OwnStack
  BY DEF IInv
<1>2. QED BY <1>1, Inductive, PTL

\* No worker cycle starts before the deadline its last sleep asked for.
LEMMA AwakeInCycle == IInv => SleepRespected
<1> SUFFICES ASSUME IInv, Top.fn = "worker", Top.at = "run" PROVE ticks >= until[cpu]
  BY Machine DEF SleepRespected
<1>1. cpu \in Workers /\ Here # <<>> /\ Top = Bottom(Here) /\ ~InSchedule
  BY Machine DEF InSchedule
<1>2. state[cpu] = "RUNNING"
  BY <1>1 DEF IInv, Running, Workers
<1>3. until[cpu] <= ticks
  BY <1>1, <1>2 DEF IInv, Table, Here
<1>4. ticks \in Nat /\ until[cpu] \in Nat
  BY DEF IInv, TypeOK
<1>5. QED BY <1>3, <1>4

\* No worker runs its next cycle before the tick it asked for.
THEOREM SleepsLastLongEnough == Spec /\ Desktop = "never" => []SleepRespected
BY AwakeInCycle, Inductive, PTL

\* The loop behind scheduler_schedule in thread_exit is never reached.
THEOREM ExitNeverReturns == Spec /\ Desktop = "never" => []ExitIsFinal
<1>1. IInv => ExitIsFinal
  <2> SUFFICES ASSUME IInv, Top.fn = "thread_exit" PROVE FALSE
    BY DEF ExitIsFinal, At
  <2>1. cpu \in Workers /\ Top = Bottom(Here) /\ ~InSchedule
    BY Machine DEF InSchedule
  <2>2. state[cpu] = "RUNNING"
    BY <2>1 DEF IInv, Running, Workers
  <2>3. QED BY <2>1, <2>2 DEF IInv, Table, Here
<1>2. QED BY <1>1, Inductive, PTL

\* A sleeper is woken less than a slice after its deadline.
THEOREM WokenInTime == Spec /\ Desktop = "never" => []WakeLatency
<1>1. IInv => WakeLatency
  BY SettledFacts DEF WakeLatency, IInv, Latency
<1>2. QED BY <1>1, Inductive, PTL

\* The frames that still owe an end of interrupt: the innermost handler, or none.
LEMMA OneAwaitsEoi ==
  ASSUME IInv, NEW f
  PROVE  f \in AwaitingEoi <=>
           f = Handler /\ Handler.fn = "irq" /\ Handler.at \in {"callback", "eoi"}
<1> DEFINE s == stack[0]
           n == Len(s)
<1>1. BootShape(s) /\ s \in Seq(Frame) /\ s # <<>> /\ 0 \in Threads /\ n \in Nat \ {0}
  BY Machine, LastInFrame DEF IInv, TypeOK, Stacks, BootShape
<1>2. Last(s).fn = "schedule" => n > 2
  BY <1>1 DEF BootShape
<1>3. n \in 1..n /\ (n > 2 => n - 1 \in 1..n)
  <2> HIDE DEF n
  <2>1. QED BY <1>1
<1>4. \E i \in 1..n : Handler = s[i]
  BY <1>2, <1>3 DEF Handler, Last, Below
<1>5. ASSUME NEW i \in 1..n, s[i].fn = "irq", s[i].at \in {"callback", "eoi"}
      PROVE  s[i] = Handler
  <2>1. i = 1 \/ i \in 2..n
    <3> HIDE DEF n
    <3>1. QED BY <1>1
  <2>2. i # 1
    BY <1>1, <1>5 DEF BootShape, Bottom
  <2>3. i = n \/ (i + 1 = n /\ s[i + 1].fn = "schedule")
    BY <1>1, <1>5, <2>1, <2>2 DEF BootShape
  <2>4. CASE i = n
    BY <1>5, <2>4 DEF Handler, Last
  <2>5. CASE i + 1 = n /\ s[i + 1].fn = "schedule"
    <3>1. i = n - 1
      <4> HIDE DEF n
      <4>1. QED BY <1>1, <2>5
    <3>2. QED BY <2>5, <3>1 DEF Handler, Last, Below
  <2>6. QED BY <2>3, <2>4, <2>5
<1>6. ASSUME NEW t \in Workers, NEW i \in 1..Len(stack[t])
      PROVE  stack[t][i].fn # "irq"
  <2>1. t \in Threads /\ stack[t] \in Seq(Frame) /\ stack[t] # <<>>
    BY DEF Workers, IInv, TypeOK
  <2>2. WorkerShape(stack[t])
    BY <2>1 DEF IInv, Stacks
  <2>3. i = 1 \/ (i = 2 /\ Len(stack[t]) = 2)
    <3> DEFINE m == Len(stack[t])
    <3>1. (m = 1 \/ m = 2) /\ i \in 1..m
      BY <2>2 DEF WorkerShape
    <3> HIDE DEF m
    <3>2. i = 1 \/ (i = 2 /\ m = 2)
      BY <3>1
    <3>3. QED BY <3>2 DEF m
  <2>4. CASE i = 1
    BY <2>2, <2>4 DEF WorkerShape, EntryFrame, Bottom
  <2>5. CASE i = 2 /\ Len(stack[t]) = 2
    <3>1. Last(stack[t]).fn = "schedule" /\ Last(stack[t]) = stack[t][i]
      BY <2>2, <2>5 DEF WorkerShape, Last
    <3>2. QED BY <3>1
  <2>6. QED BY <2>3, <2>4, <2>5
<1>7. f \in AwaitingEoi =>
        f = Handler /\ Handler.fn = "irq" /\ Handler.at \in {"callback", "eoi"}
  <2> SUFFICES ASSUME f \in AwaitingEoi
               PROVE  f = Handler /\ f.fn = "irq" /\ f.at \in {"callback", "eoi"}
    OBVIOUS
  <2>1. PICK t \in Threads :
          f \in Frames(t) /\ f.fn = "irq" /\ f.at \in {"callback", "eoi"}
    BY DEF AwaitingEoi
  <2>2. PICK i \in 1..Len(stack[t]) : f = stack[t][i]
    BY <2>1 DEF Frames
  <2>3. t = 0
    BY <1>6, <2>1, <2>2 DEF Workers
  <2>4. QED BY <1>5, <2>1, <2>2, <2>3
<1>8. f = Handler /\ Handler.fn = "irq" /\ Handler.at \in {"callback", "eoi"} => f \in AwaitingEoi
  BY <1>1, <1>4 DEF AwaitingEoi, Frames
<1>9. QED BY <1>7, <1>8

\* The controllers have in service exactly what the handlers on the stacks still owe.
THEOREM EoisBalanced == Spec /\ Desktop = "never" => []EoiBalanced
<1>1. IInv => EoiBalanced
  <2> SUFFICES ASSUME IInv PROVE EoiBalanced
    OBVIOUS
  <2>1. CASE Handler.fn = "irq" /\ Handler.at \in {"callback", "eoi"}
    <3>1. AwaitingEoi = {Handler}
      BY <2>1, OneAwaitsEoi
    <3>2. QED BY <2>1, <3>1 DEF EoiBalanced, IInv, InService
  <2>2. CASE ~(Handler.fn = "irq" /\ Handler.at \in {"callback", "eoi"})
    <3>1. AwaitingEoi = {}
      BY <2>2, OneAwaitsEoi
    <3>2. QED BY <2>2, <3>1 DEF EoiBalanced, IInv, InService
  <2>3. QED BY <2>1, <2>2
<1>2. QED BY <1>1, Inductive, PTL

-----------------------------------------------------------------------------
(* While the desktop is not started, the scheduler implements the contract *)
(* of module WorkerContract: whatever interrupts, preemptions and switches *)
(* lie between them, the steps the workers see are those of the contract.  *)

\* A slot no worker was created in is as scheduler_init left it.
Unborn == \A t \in Workers : state[t] = "UNUSED" => job[t] = 0 /\ until[t] = 0

\* A step that ends no worker and changes no deadline, loop counter or clock.
LEMMA Stutters ==
  ASSUME Unborn, UNCHANGED <<ticks, job, left, until>>,
         \A t \in Workers : /\ state'[t] = "TERMINATED" <=> state[t] = "TERMINATED"
                            /\ state'[t] = "UNUSED" => state[t] = "UNUSED"
  PROVE  Unborn' /\ UNCHANGED Contract!contractVars
<1>1. Unborn'
  BY DEF Unborn
<1>2. {t \in Workers : state[t] = "TERMINATED"}' = {t \in Workers : state[t] = "TERMINATED"}
  OBVIOUS
<1>3. QED BY <1>1, <1>2 DEF Contract!contractVars

\* The slot of the thread on the CPU.
LEMMA OnCpu ==
  ASSUME IInv, Top.fn = "worker"
  PROVE  /\ cpu \in Workers /\ cpu \in Threads /\ current = cpu /\ state[cpu] = "RUNNING"
         /\ job[cpu] \in 1..Len(Jobs)
         /\ Top.at = "run" => Contract!Awake(cpu)
<1>1. cpu \in Workers /\ cpu \in Threads /\ ~InSchedule /\ Here # <<>>
  BY Machine DEF InSchedule, Workers
<1>2. current = cpu /\ state[cpu] = "RUNNING"
  BY <1>1 DEF IInv, Running
<1>3. job[cpu] \in 0..Len(Jobs) /\ job[cpu] > 0
  BY <1>1 DEF IInv, TypeOK, Stacks, Here
<1>4. job[cpu] \in 1..Len(Jobs)
  BY <1>3, JobsAssumption
<1>5. ASSUME Top.at = "run" PROVE Contract!Awake(cpu)
  <2>1. ticks >= until[cpu]
    BY <1>5, AwakeInCycle DEF SleepRespected
  <2>2. QED BY <1>1, <1>2, <1>3, <2>1 DEF Contract!Awake
<1>6. QED BY <1>1, <1>2, <1>4, <1>5

\* A timer interrupt is a tick of the contract.
LEMMA TickStep ==
  ASSUME IInv, Unborn, TimerCallback
  PROVE  Unborn' /\ Contract!Tick
BY DEF TimerCallback, workVars, Unborn, Contract!Tick

\* A worker's cycle is a cycle of the contract: the worker on the CPU is awake.
LEMMA CycleStep ==
  ASSUME IInv, Unborn, WorkerCycle
  PROVE  Unborn' /\ \E t \in Workers : Contract!Cycle(t)
<1>1. /\ Top.fn = "worker" /\ Top.at = "run" /\ left[cpu] > 0
      /\ left' = [left EXCEPT ![cpu] = left[cpu] - 1]
      /\ until' = [until EXCEPT ![current] = ticks + SleepTicks(Jobs[job[cpu]])]
      /\ UNCHANGED <<state, job, ticks>>
  BY DEF WorkerCycle, At
<1>2. PICK c \in Workers :
        /\ c = cpu /\ c \in Threads /\ current = c /\ state[c] = "RUNNING"
        /\ job[c] \in 1..Len(Jobs) /\ Contract!Awake(c)
  BY <1>1, OnCpu DEF Contract!Awake
<1>3. \A t \in Workers : t \in Threads
  BY DEF Workers
<1>4. job[c] \in DOMAIN Jobs
  BY <1>2, JobsAssumption
<1>5. [t \in Workers |-> left[t]]' = [[t \in Workers |-> left[t]] EXCEPT ![c] = left[c] - 1]
  BY <1>1, <1>2, <1>3 DEF IInv, TypeOK
<1>6. [t \in Workers |-> until[t]]' =
        [[t \in Workers |-> until[t]] EXCEPT ![c] = ticks + SleepTicks(Jobs[job[c]])]
  BY <1>1, <1>2, <1>3 DEF IInv, TypeOK
<1>7. Contract!Cycle(c)
  BY <1>1, <1>2, <1>4, <1>5, <1>6 DEF Contract!Cycle
<1>8. Unborn'
  BY <1>1, <1>2, <1>3 DEF Unborn, IInv, TypeOK
<1>9. QED BY <1>7, <1>8

\* An exit is an exit of the contract.
LEMMA ExitStep ==
  ASSUME IInv, Unborn, ThreadExit
  PROVE  Unborn' /\ \E t \in Workers : Contract!Exit(t)
<1>1. /\ Top.fn = "worker" /\ Top.at = "run" /\ left[cpu] = 0
      /\ state' = [state EXCEPT ![current] = "TERMINATED"]
      /\ UNCHANGED <<until, job, left, ticks>>
  BY DEF ThreadExit, At, workVars
<1>2. PICK c \in Workers : c = cpu /\ c \in Threads /\ current = c /\ Contract!Awake(c)
  BY <1>1, OnCpu DEF Contract!Awake
<1>3. \A t \in Workers : t \in Threads
  BY DEF Workers
<1>4. state'[c] = "TERMINATED" /\ \A t \in Workers : t # c => state'[t] = state[t]
  BY <1>1, <1>2, <1>3 DEF IInv, TypeOK
<1>5. {t \in Workers : state[t] = "TERMINATED"}' = {t \in Workers : state[t] = "TERMINATED"} \cup {c}
  BY <1>2, <1>4
<1>6. Contract!Exit(c)
  BY <1>1, <1>2, <1>5 DEF Contract!Exit
<1>7. Unborn'
  BY <1>1, <1>4 DEF Unborn
<1>8. QED BY <1>6, <1>7

\* thread_create creates a worker in a slot of the contract, or changes nothing in it.
LEMMA CreateStep ==
  ASSUME IInv, Unborn, ThreadCreate
  PROVE  Unborn' /\ (UNCHANGED Contract!contractVars \/ \E t \in Workers : Contract!Create(t))
<1>1. UNCHANGED ticks /\ made \in 0..Len(Jobs) /\ made < Len(Jobs) /\ Len(Jobs) \in Nat
  BY JobsAssumption DEF ThreadCreate, IInv, TypeOK
<1>2. \A t \in Workers : t \in Threads
  BY DEF Workers
<1>3. ASSUME NEW s \in FreeSlots, ThreadCreated(s)
      PROVE  Unborn' /\ \E t \in Workers : Contract!Create(t)
  <2>1. /\ s \in Workers /\ s \in Threads /\ state[s] \in {"UNUSED", "TERMINATED"}
        /\ state' = [state EXCEPT ![s] = "READY"] /\ until' = [until EXCEPT ![s] = 0]
        /\ job' = [job EXCEPT ![s] = made + 1] /\ left' = [left EXCEPT ![s] = Cycles]
    BY <1>2, <1>3 DEF FreeSlots, ThreadCreated
  <2>2. made + 1 \in DOMAIN Jobs
    BY <1>1, JobsAssumption
  <2>3. /\ [t \in Workers |-> job[t]]' = [[t \in Workers |-> job[t]] EXCEPT ![s] = made + 1]
        /\ [t \in Workers |-> left[t]]' = [[t \in Workers |-> left[t]] EXCEPT ![s] = Cycles]
        /\ [t \in Workers |-> until[t]]' = [[t \in Workers |-> until[t]] EXCEPT ![s] = 0]
    BY <1>2, <2>1 DEF IInv, TypeOK
  <2>4. state'[s] = "READY" /\ \A t \in Workers : t # s => state'[t] = state[t]
    BY <1>2, <2>1 DEF IInv, TypeOK
  <2>5. {t \in Workers : state[t] = "TERMINATED"}' = {t \in Workers : state[t] = "TERMINATED"} \ {s}
    BY <2>1, <2>4
  <2>6. job[s] = 0 \/ s \in {t \in Workers : state[t] = "TERMINATED"}
    BY <2>1 DEF Unborn
  <2>7. Contract!Create(s)
    BY <1>1, <2>1, <2>2, <2>3, <2>5, <2>6 DEF Contract!Create
  <2>8. Unborn'
    BY <1>2, <2>1, <2>4 DEF Unborn, IInv, TypeOK
  <2>9. QED BY <2>1, <2>7, <2>8
<1>4. ASSUME NEW s \in FreeSlots, StackRefused(s)
      PROVE  Unborn' /\ UNCHANGED Contract!contractVars
  <2>1. /\ s \in Workers /\ s \in Threads
        /\ state' = [state EXCEPT ![s] = "UNUSED"] /\ until' = [until EXCEPT ![s] = 0]
        /\ job' = job /\ left' = left
    BY <1>2, <1>4 DEF FreeSlots, StackRefused
  <2>2. state[s] = "UNUSED"
    <3>1. Top.fn = "kmain" /\ Top.at = "create"
      BY DEF ThreadCreate, At
    <3>2. cpu = 0 /\ Bottom(stack[0]).at = "create"
      BY <3>1, Machine, BootHalt DEF Top, Here
    <3>3. QED BY <1>4, <3>2 DEF IInv, Booting, FreeSlots
  <2>3. state' = state /\ until' = until
    BY <2>1, <2>2 DEF Unborn, IInv, TypeOK
  <2>4. QED BY <1>1, <2>1, <2>3, Stutters
<1>5. CASE UNCHANGED <<state, until, job, left>>
  BY <1>1, <1>5, Stutters
<1>6. CASE \E s \in Highest(FreeSlots), ok \in AllocOutcomes :
             IF ok THEN ThreadCreated(s) ELSE StackRefused(s)
  <2>1. PICK s \in Highest(FreeSlots) : ThreadCreated(s) \/ StackRefused(s)
    BY <1>6
  <2>2. s \in FreeSlots
    BY DEF Highest
  <2>3. QED BY <1>3, <1>4, <2>1, <2>2
<1>7. QED BY <1>5, <1>6 DEF ThreadCreate

\* Everything else is invisible to the workers.
LEMMA OtherSteps ==
  ASSUME IInv, Unborn,
         \/ TimerRaise \/ InputRaise \/ Interrupt \/ InputCallback \/ EndOfInterrupt
         \/ InterruptReturn \/ EnableInterrupts \/ Trampoline \/ GoToSleep \/ ScheduleStep
         \/ UNCHANGED vars
  PROVE  Unborn' /\ UNCHANGED Contract!contractVars
<1>1. UNCHANGED <<ticks, job, left, until>>
  BY DEF TimerRaise, InputRaise, Interrupt, InputCallback, EndOfInterrupt, InterruptReturn,
         EnableInterrupts, Trampoline, GoToSleep, ScheduleStep, WakeSleepers, Scan, NoneReady,
         WaitForTick, Halt, Commit, ContextSwitch, threadVars, workVars, vars
<1>2. \A t \in Workers : t \in Threads
  BY DEF Workers
<1>3. CASE UNCHANGED state
  BY <1>1, <1>3, Stutters
<1>4. CASE GoToSleep
  <2>1. Top.fn = "worker" /\ state' = [state EXCEPT ![current] = "SLEEPING"]
    BY <1>4, Machine DEF GoToSleep
  <2>2. state[current] = "RUNNING" /\ current \in Threads
    BY <2>1, OnCpu
  <2>3. QED BY <1>1, <1>2, <2>1, <2>2, Stutters DEF IInv, TypeOK
<1>5. CASE WakeSleepers
  BY <1>1, <1>2, <1>5, Stutters DEF WakeSleepers
<1>6. ASSUME Top.fn = "schedule", KeepRunning(Top.prev), Top.prev \in Threads,
             state[Top.prev] \in {"READY", "RUNNING", "SLEEPING"}
      PROVE  Unborn' /\ UNCHANGED Contract!contractVars
  BY <1>1, <1>2, <1>6, Stutters DEF KeepRunning, IInv, TypeOK
<1>7. Top.fn = "schedule" => Top.prev \in Threads /\ Top.next \in Threads
  BY Machine DEF Frame
<1>8. CASE NoneReady
  BY <1>3, <1>6, <1>7, <1>8 DEF NoneReady, At
<1>9. CASE WaitForTick
  <2>1. Top.fn = "schedule" /\ Top.at = "wait"
    BY <1>9 DEF WaitForTick, At
  <2>2. state[Top.prev] = "SLEEPING"
    BY <2>1 DEF IInv, Scheduling, InSchedule
  <2>3. UNCHANGED state \/ KeepRunning(Top.prev)
    BY <1>9 DEF WaitForTick
  <2>4. QED BY <1>3, <1>6, <1>7, <2>1, <2>2, <2>3
<1>10. CASE Commit
  <2>1. /\ Top.fn = "schedule" /\ (Top.next = 0 \/ state[Top.next] = "READY")
        /\ state[0] \in {"READY", "RUNNING"}
    BY <1>10 DEF Commit, At, IInv, Scheduling, InSchedule, Table
  <2>2. CASE Top.next = Top.prev
    BY <1>6, <1>7, <1>10, <2>1, <2>2 DEF Commit
  <2>3. CASE Top.next # Top.prev
    <3>1. state' = [t \in Threads |->
                      IF t = Top.next THEN "RUNNING"
                      ELSE IF t = Top.prev /\ state[t] = "RUNNING" THEN "READY"
                      ELSE state[t]]
      BY <1>10, <2>3 DEF Commit
    <3>2. QED BY <1>1, <1>2, <2>1, <3>1, Stutters
  <2>4. QED BY <2>2, <2>3
<1>11. QED BY <1>3, <1>4, <1>5, <1>8, <1>9, <1>10
           DEF TimerRaise, InputRaise, Interrupt, InputCallback, EndOfInterrupt, InterruptReturn,
               EnableInterrupts, Trampoline, ScheduleStep, Scan, Halt, ContextSwitch, threadVars, vars

\* Workers do their cycles in order, sleep in each for at least the time they asked for,
\* and do nothing after their exit, for every number of workers, cycles and ticks.
THEOREM ContractKept == Spec /\ Desktop = "never" => KeepsContract
<1>1. Init => Unborn /\ Contract!Init
  BY DEF Init, Unborn, Contract!Init, Workers
<1>2. ASSUME Desktop = "never", IInv, Unborn, [Next]_vars
      PROVE  Unborn' /\ [Contract!Next]_(Contract!contractVars)
  <2>1. CASE TimerCallback
    BY <1>2, <2>1, TickStep DEF Contract!Next
  <2>2. CASE WorkerCycle
    <3>1. Unborn' /\ \E t \in Workers : Contract!Cycle(t)
      BY <1>2, <2>2, CycleStep
    <3>2. Contract!Next
      BY <3>1 DEF Contract!Next
    <3>3. QED BY <3>1, <3>2
  <2>3. CASE ThreadExit
    <3>1. Unborn' /\ \E t \in Workers : Contract!Exit(t)
      BY <1>2, <2>3, ExitStep
    <3>2. Contract!Next
      BY <3>1 DEF Contract!Next
    <3>3. QED BY <3>1, <3>2
  <2>4. CASE ThreadCreate
    BY <1>2, <2>4, CreateStep DEF Contract!Next
  <2>5. CASE ~(TimerCallback \/ WorkerCycle \/ ThreadExit \/ ThreadCreate)
    BY <1>2, <2>5, OtherSteps, NoDesktop DEF Next, CpuStep, HandlerStep, ThreadStep
  <2>6. QED BY <2>1, <2>2, <2>3, <2>4, <2>5
<1>3. CASE Desktop = "never"
  <2>1. IInv /\ Unborn /\ [Next]_vars => Unborn' /\ [Contract!Next]_(Contract!contractVars)
    BY <1>2, <1>3
  <2>2. Spec => []IInv
    BY <1>3, Inductive
  <2>3. QED BY <1>1, <2>1, <2>2, PTL DEF Spec, KeepsContract, Contract!Spec
<1>4. QED BY <1>3

=============================================================================
