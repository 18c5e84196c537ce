---------------------------- MODULE DevicesProofs ----------------------------
(***************************************************************************)
(* Proofs about module Devices: the controller never keeps a byte nobody   *)
(* will read, shift is never left on, a transfer that returned true was of *)
(* the whole sector, the pointer is where the mouse's packets led it, and  *)
(* the cursor stays on the screen, for every screen, keyboard map and      *)
(* scenario.                                                               *)
(***************************************************************************)
EXTENDS Devices, NumberLemmas, SequenceTheorems

-----------------------------------------------------------------------------
\* The controller's byte.

BootSteps ==
  <<"configure", "keyboard", "mouse", "defaults", "poll", "stream", "poll", "disk", "sti">>

\* A byte that waits has its interrupt raised from the moment the controller is configured,
\* and not only once the CPU listens.
ByteWaits ==
  \/ boot = BootSteps
  \/ irqs = {1, 12} /\ (buffer # Empty => Irq(buffer[1]) \in raised)

\* Nothing is done yet when the kernel starts.
LEMMA ByteInit == DevicesInit => ByteWaits
BY DEF DevicesInit, Init, ByteWaits, BootSteps

\* As long as the controller is not configured, nothing else of boot is done.
LEMMA FirstStep ==
  ASSUME boot = BootSteps, NEW step, Boots(step)
  PROVE  step = "configure"
BY DEF BootSteps, Boots

\* A byte is in the controller only with its interrupt raised.
LEMMA ByteStep == ByteWaits /\ [DevicesNext]_deviceVars => ByteWaits'
<1> SUFFICES ASSUME ByteWaits, [DevicesNext]_deviceVars PROVE ByteWaits'
  OBVIOUS
<1>1. CASE UNCHANGED <<boot, irqs, buffer, raised>>
  BY <1>1 DEF ByteWaits, Irq
<1>2. CASE Key \/ Reply \/ Report
  BY <1>1, <1>2 DEF Key, Reply, Report
<1>3. CASE KeyArrives \/ MouseArrives
  <2>1. PICK b : Arrive(b)
    BY <1>3 DEF KeyArrives, MouseArrives
  <2>2. /\ boot' = boot /\ irqs' = irqs /\ buffer' = <<b>>
        /\ raised' = raised \cup ({Irq(b)} \cap irqs)
    BY <2>1 DEF Arrive
  <2>3. Irq(b) \in {1, 12} /\ buffer'[1] = b
    BY <2>2 DEF Irq
  <2>4. Irq(buffer'[1]) = Irq(b)
    BY <2>3
  <2>5. QED BY <2>2, <2>3, <2>4 DEF ByteWaits, Irq
<1>4. CASE Configure
  BY <1>4 DEF Configure, ByteWaits
<1>5. CASE EnablePort \/ Order \/ Sti \/ FindDisk
  <2>1. /\ irqs' = irqs /\ buffer' = buffer /\ raised' = raised
    BY <1>5 DEF EnablePort, Order, Sti, FindDisk, devices, drivers
  <2>2. PICK step \in {"keyboard", "mouse", "defaults", "stream", "sti", "disk"} : Boots(step)
    BY <1>5 DEF EnablePort, Order, Sti, FindDisk
  <2>3. boot # BootSteps
    BY <2>2, FirstStep
  <2>4. QED BY <2>1, <2>3 DEF ByteWaits, Irq
<1>6. CASE Poll
  <2>1. irqs' = irqs /\ buffer' = Empty /\ boot # BootSteps
    BY <1>6, FirstStep DEF Poll
  <2>2. QED BY <2>1 DEF ByteWaits
<1>7. CASE Interrupt
  <2>1. boot = <<>> /\ boot' = boot /\ irqs' = irqs
    BY <1>7 DEF Interrupt, InterruptsOn, devices
  <2>2. PICK irq \in raised : raised' = raised \ {irq} /\ Callback(irq)
    BY <1>7 DEF Interrupt
  <2>3. buffer' = Empty
    BY <2>2 DEF Callback, Empty
  <2>4. boot # BootSteps
    BY <2>1 DEF BootSteps
  <2>5. QED BY <2>1, <2>3, <2>4 DEF ByteWaits
<1>8. CASE ShellStarts \/ UseDisk \/ DiskStep \/ UNCHANGED deviceVars
  BY <1>1, <1>8 DEF ShellStarts, UseDisk, DiskStep, deviceVars, ps2Vars
<1>9. QED
  BY <1>2, <1>3, <1>4, <1>5, <1>6, <1>7, <1>8 DEF DevicesNext, Ps2Step

\* A byte in the controller always has an interrupt that will have it read, once interrupts
\* are on: neither what the polling reads of mouse_init took nor the order in which the two
\* handlers run leaves one behind.
THEOREM BytesAreRead == DevicesSpec => []NoByteIsStuck
<1>1. ByteWaits => NoByteIsStuck
  <2>1. <<>> # BootSteps
    BY DEF BootSteps
  <2>2. QED BY <2>1 DEF ByteWaits, NoByteIsStuck, InterruptsOn
<1>2. QED
  BY <1>1, ByteInit, ByteStep, PTL DEF DevicesSpec

-----------------------------------------------------------------------------
\* Shift.

IsShift(key) == key % 256 \in Shifts

\* What shift will be once the byte in the controller and those the keyboard has still to
\* send, at most the two of one key, are through.
AfterBuffer ==
  IF buffer # Empty /\ ~buffer[1].aux THEN ShiftAfter(kbd.shift, buffer[1].byte) ELSE kbd.shift
AfterOne == IF Len(keyQ) > 0 THEN ShiftAfter(AfterBuffer, keyQ[1]) ELSE AfterBuffer
AfterAll == IF Len(keyQ) > 1 THEN ShiftAfter(AfterOne, keyQ[2]) ELSE AfterOne

Budget == [keys : SUBSET (0..511), ups : SUBSET BOOLEAN, events : Int, mouse : BOOLEAN,
           packets : Int, calls : Int]

ShiftType ==
  /\ keyQ \in Seq(Nat) /\ Len(keyQ) <= 2
  /\ kbd \in [shift : BOOLEAN, caps : BOOLEAN]
  /\ budget \in Budget

\* Shift ends up set only when a shift key is down: what was polled away at boot may have
\* been the press, for the driver has heard of nothing by then.
ShiftHeld ==
  /\ ShiftType
  /\ ~InterruptsOn => ~kbd.shift
  /\ AfterAll => \E key \in down : IsShift(key)

\* A scan code leaves shift on or off.
LEMMA ShiftIsBoolean ==
  ASSUME NEW s \in BOOLEAN, NEW code
  PROVE  ShiftAfter(s, code) \in BOOLEAN
BY DEF ShiftAfter

\* A shift that is off is set by later bytes only where one that is on would be.
LEMMA ShiftMonotone ==
  ASSUME NEW s \in BOOLEAN, NEW code, ShiftAfter(FALSE, code)
  PROVE  ShiftAfter(s, code)
BY DEF ShiftAfter

\* The byte that may be in the controller at the start is no shift key's.
LEMMA ShiftInit == DevicesInit => ShiftHeld
<1> SUFFICES ASSUME DevicesInit PROVE ShiftHeld
  OBVIOUS
<1>1. /\ keyQ = <<>> /\ kbd = [shift |-> FALSE, caps |-> FALSE]
      /\ buffer \in {Empty, <<[aux |-> FALSE, byte |-> 30]>>} /\ budget \in Scenarios
  BY DEF DevicesInit, Init, KeyboardInit
<1>2. ShiftType
  <2>1. budget \in [keys : SUBSET (0..511), ups : SUBSET BOOLEAN, events : Nat,
                    mouse : BOOLEAN, packets : Nat, calls : Nat]
    <3>1. budget \in Scenarios
      BY <1>1
    <3>2. QED BY <3>1, Ps2Assumption, Zenon
  <2>2. budget \in Budget
    BY <2>1 DEF Budget
  <2>3. keyQ \in Seq(Nat) /\ Len(keyQ) <= 2
    BY <1>1
  <2>4. kbd \in [shift : BOOLEAN, caps : BOOLEAN]
    BY <1>1
  <2>5. QED BY <2>2, <2>3, <2>4 DEF ShiftType
<1>3. ~AfterAll
  BY <1>1 DEF AfterAll, AfterOne, AfterBuffer, ShiftAfter, Shifts, LeftShift, RightShift, Break, Empty
<1>4. ~kbd.shift
  BY <1>1
<1>5. QED BY <1>2, <1>3, <1>4 DEF ShiftHeld

\* Bytes that are taken away before the driver has heard of any.
LEMMA ShiftLess ==
  ASSUME kbd.shift = FALSE, keyQ \in Seq(Nat), keyQ' = keyQ, kbd' = kbd, buffer' = Empty, AfterAll'
  PROVE  AfterAll
<1>1. AfterBuffer' = FALSE /\ AfterBuffer \in BOOLEAN
  BY ShiftIsBoolean DEF AfterBuffer
<1>2. CASE Len(keyQ) > 1
  <2>1. Len(keyQ) > 0 /\ Len(keyQ) > 1
    BY <1>2
  <2>2. ShiftAfter(ShiftAfter(FALSE, keyQ[1]), keyQ[2])
    BY <1>1, <2>1, Zenon DEF AfterAll, AfterOne
  <2>3. ShiftAfter(ShiftAfter(AfterBuffer, keyQ[1]), keyQ[2])
    BY <1>1, <2>2 DEF ShiftAfter
  <2>4. QED BY <2>1, <2>3, Zenon DEF AfterAll, AfterOne
<1>3. CASE Len(keyQ) = 1
  <2>1. Len(keyQ) > 0 /\ ~(Len(keyQ) > 1)
    BY <1>3
  <2>2. ShiftAfter(FALSE, keyQ[1])
    BY <1>1, <2>1, Zenon DEF AfterAll, AfterOne
  <2>3. ShiftAfter(AfterBuffer, keyQ[1])
    BY <1>1, <2>2, ShiftMonotone
  <2>4. QED BY <2>1, <2>3, Zenon DEF AfterAll, AfterOne
<1>4. CASE Len(keyQ) = 0
  <2>1. ~(Len(keyQ) > 0) /\ ~(Len(keyQ) > 1)
    BY <1>4
  <2>2. QED BY <1>1, <2>1, Zenon DEF AfterAll, AfterOne
<1>5. Len(keyQ) \in Nat
  OBVIOUS
<1>6. Len(keyQ) > 1 \/ Len(keyQ) = 1 \/ Len(keyQ) = 0
  <2>1. \A n \in Nat : n > 1 \/ n = 1 \/ n = 0
    OBVIOUS
  <2>2. QED BY <1>5, <2>1, Zenon
<1>7. QED BY <1>2, <1>3, <1>4, <1>6

\* A key that is pressed or released.
LEMMA KeyShift ==
  ASSUME ShiftHeld, Key
  PROVE  ShiftHeld'
<1>0. budget \in Budget /\ budget' = [budget EXCEPT !.events = @ - 1]
  BY DEF Key, ShiftHeld, ShiftType
<1>1. PICK key \in budget.keys, up \in budget.ups :
        /\ keyQ' = keyQ \o Sends(key, up)
        /\ down' = IF up THEN down \ {key} ELSE down \cup {key}
  BY DEF Key
<1>2. keyQ = <<>> /\ UNCHANGED <<boot, buffer, kbd>>
  BY DEF Key, drivers
<1> DEFINE code == (key % 256) + (IF up THEN Break ELSE 0)
<1>3. key % 256 \in 0..255
  <2>1. key \in 0..511
    BY <1>0 DEF Budget
  <2>2. QED BY <2>1
<1>4. keyQ' = IF key > 255 THEN <<224, code>> ELSE <<code>>
  BY <1>1, <1>2 DEF Sends
<1>5. code \in Nat
  BY <1>3 DEF Break
<1>6. ShiftType'
  <2>1. budget' \in Budget
    BY <1>0 DEF Budget
  <2> HIDE DEF code
  <2>2. keyQ' \in Seq(Nat) /\ Len(keyQ') <= 2
    BY <1>4, <1>5
  <2>3. QED BY <1>2, <2>1, <2>2 DEF ShiftHeld, ShiftType
<1>7. AfterBuffer' = AfterBuffer /\ AfterAll = AfterBuffer
  BY <1>2 DEF AfterAll, AfterOne, AfterBuffer
<1>8. ShiftAfter(AfterBuffer, 224) = AfterBuffer
  BY DEF ShiftAfter, Shifts, LeftShift, RightShift, Break
<1>9. AfterAll' = ShiftAfter(AfterBuffer, code)
  <2> HIDE DEF code
  <2>1. CASE key > 255
    <3>1. Len(keyQ') = 2 /\ keyQ'[1] = 224 /\ keyQ'[2] = code
      BY <1>4, <2>1
    <3>2. QED BY <1>7, <1>8, <3>1 DEF AfterAll, AfterOne
  <2>2. CASE ~(key > 255)
    <3>1. Len(keyQ') = 1 /\ keyQ'[1] = code
      BY <1>4, <2>2
    <3>2. QED BY <1>7, <3>1 DEF AfterAll, AfterOne
  <2>3. QED BY <2>1, <2>2
<1>10. AfterAll' => \E k \in down' : IsShift(k)
  <2> SUFFICES ASSUME ShiftAfter(AfterBuffer, code) PROVE \E k \in down' : IsShift(k)
    BY <1>9
  <2>1. CASE up
    <3>1. code \notin Shifts /\ code - Break = key % 256
      BY <1>3, <2>1 DEF Shifts, LeftShift, RightShift, Break
    <3>2. ~IsShift(key) /\ AfterBuffer
      BY <3>1 DEF ShiftAfter, IsShift
    <3>3. PICK k \in down : IsShift(k)
      BY <1>7, <3>2 DEF ShiftHeld
    <3>4. k \in down'
      BY <1>1, <2>1, <3>2, <3>3
    <3>5. QED BY <3>3, <3>4
  <2>2. CASE ~up
    <3>1. code = key % 256
      BY <1>3, <2>2
    <3>0. down' = down \cup {key}
      BY <1>1, <2>2
    <3>2. CASE IsShift(key)
      BY <3>0, <3>2
    <3>3. CASE ~IsShift(key)
      <4>1. AfterBuffer
        BY <3>1, <3>3 DEF ShiftAfter, IsShift
      <4>2. QED BY <1>7, <3>0, <4>1 DEF ShiftHeld
    <3>4. QED BY <3>2, <3>3
  <2>3. QED BY <2>1, <2>2
<1>11. QED
  BY <1>2, <1>6, <1>10 DEF ShiftHeld, InterruptsOn

\* A step that does not change what shift will be.
LEMMA SameShift ==
  ASSUME ShiftHeld, ShiftType', AfterAll' = AfterAll, down' = down, boot' = boot,
         ~InterruptsOn => kbd' = kbd
  PROVE  ShiftHeld'
BY DEF ShiftHeld, InterruptsOn, IsShift

\* A byte moves from a device to the controller.
LEMMA ArrivalShift ==
  ASSUME ShiftHeld, KeyArrives \/ MouseArrives
  PROVE  ShiftHeld'
<1>1. /\ buffer = Empty /\ keyQ \in Seq(Nat) /\ Len(keyQ) <= 2
      /\ UNCHANGED <<boot, down, kbd, budget>>
  BY DEF KeyArrives, MouseArrives, Arrive, drivers, ShiftHeld, ShiftType
<1>2. AfterBuffer = kbd.shift
  BY <1>1 DEF AfterBuffer
<1>3. CASE KeyArrives
  <2>1. /\ keyQ # <<>> /\ keyQ' = Tail(keyQ)
        /\ buffer' = <<[aux |-> FALSE, byte |-> Head(keyQ)]>>
    BY <1>3 DEF KeyArrives, Arrive
  <2>2. AfterBuffer' = ShiftAfter(kbd.shift, keyQ[1])
    BY <1>1, <2>1 DEF AfterBuffer, Empty
  <2>3. /\ keyQ' \in Seq(Nat) /\ Len(keyQ') = Len(keyQ) - 1
        /\ Len(keyQ) \in Nat /\ Len(keyQ) # 0
        /\ \A i \in 1..(Len(keyQ) - 1) : keyQ'[i] = keyQ[i + 1]
    BY <1>1, <2>1, HeadTailProperties
  <2>4. AfterAll' = AfterAll
    <3>1. CASE Len(keyQ) = 1
      <4>1. Len(keyQ) > 0 /\ ~(Len(keyQ) > 1) /\ ~(Len(keyQ') > 0) /\ ~(Len(keyQ') > 1)
        BY <2>3, <3>1
      <4>2. QED BY <1>2, <2>2, <4>1, Zenon DEF AfterAll, AfterOne
    <3>2. CASE Len(keyQ) = 2
      <4>1. /\ Len(keyQ) > 0 /\ Len(keyQ) > 1 /\ Len(keyQ') > 0 /\ ~(Len(keyQ') > 1)
            /\ keyQ'[1] = keyQ[2]
        BY <2>3, <3>2
      <4>2. QED BY <1>2, <2>2, <4>1, Zenon DEF AfterAll, AfterOne
    <3>3. QED BY <1>1, <2>3, <3>1, <3>2
  <2>5. ShiftType'
    BY <1>1, <2>3 DEF ShiftHeld, ShiftType
  <2>6. QED BY <1>1, <2>4, <2>5, SameShift
<1>4. CASE MouseArrives
  <2>1. /\ keyQ' = keyQ /\ \E b : buffer' = <<[aux |-> TRUE, byte |-> b]>>
    BY <1>4 DEF MouseArrives, Arrive
  <2>2. AfterBuffer' = kbd.shift
    BY <1>1, <2>1 DEF AfterBuffer
  <2>3. AfterAll' = AfterAll
    BY <1>2, <2>1, <2>2 DEF AfterAll, AfterOne
  <2>4. ShiftType'
    BY <1>1, <2>1 DEF ShiftHeld, ShiftType
  <2>5. QED BY <1>1, <2>3, <2>4, SameShift
<1>5. QED BY <1>3, <1>4

\* The handler of either interrupt takes the byte that is there.
LEMMA InterruptShift ==
  ASSUME ShiftHeld, Interrupt
  PROVE  ShiftHeld'
<1>1. InterruptsOn /\ UNCHANGED <<boot, keyQ, down, budget>>
  BY DEF Interrupt, devices
<1>2. PICK irq \in raised : Callback(irq)
  BY DEF Interrupt
<1>3. kbd \in [shift : BOOLEAN, caps : BOOLEAN]
  BY DEF ShiftHeld, ShiftType
<1>4. kbd' \in [shift : BOOLEAN, caps : BOOLEAN] /\ AfterBuffer' = AfterBuffer
  <2>1. CASE buffer = Empty
    BY <1>2, <1>3, <2>1 DEF Callback, drivers, AfterBuffer
  <2>2. CASE buffer # Empty /\ buffer[1].aux
    BY <1>2, <1>3, <2>2 DEF Callback, HandleMouse, AfterBuffer
  <2>3. CASE buffer # Empty /\ ~buffer[1].aux
    <3>1. buffer' = Empty /\ kbd' = Scancode(kbd, buffer[1].byte)
      BY <1>2, <2>3 DEF Callback, HandleScancode
    <3>2. /\ kbd'.shift = ShiftAfter(kbd.shift, buffer[1].byte)
          /\ kbd' \in [shift : BOOLEAN, caps : BOOLEAN]
      BY <1>3, <3>1, ShiftIsBoolean DEF Scancode
    <3>3. QED BY <2>3, <3>1, <3>2 DEF AfterBuffer
  <2>4. QED BY <2>1, <2>2, <2>3
<1>5. AfterAll' = AfterAll
  BY <1>1, <1>4 DEF AfterAll, AfterOne
<1>6. ShiftType'
  BY <1>1, <1>4 DEF ShiftHeld, ShiftType
<1>7. QED BY <1>1, <1>5, <1>6, SameShift

\* No step leaves shift on with all keys up.
LEMMA ShiftStep == ShiftHeld /\ [DevicesNext]_deviceVars => ShiftHeld'
<1> SUFFICES ASSUME ShiftHeld, [DevicesNext]_deviceVars PROVE ShiftHeld'
  OBVIOUS
<1>0. budget \in Budget
  BY DEF ShiftHeld, ShiftType
<1>1. ASSUME UNCHANGED <<buffer, keyQ, down, kbd>>, budget' \in Budget,
             ~InterruptsOn' => ~InterruptsOn
      PROVE  ShiftHeld'
  BY <1>1 DEF ShiftHeld, ShiftType, AfterAll, AfterOne, AfterBuffer, IsShift
<1>2. CASE Reply \/ Report
  <2>1. budget' = budget \/ budget' = [budget EXCEPT !.packets = @ - 1]
    BY <1>2 DEF Reply, Report
  <2>4. budget' \in Budget
    BY <1>0, <2>1 DEF Budget
  <2>2. UNCHANGED <<boot, buffer, keyQ, down, kbd>>
    BY <1>2 DEF Reply, Report, drivers
  <2>3. QED BY <1>1, <2>2, <2>4 DEF InterruptsOn
<1>3. CASE EnablePort \/ Order \/ Sti \/ FindDisk
  <2>1. UNCHANGED <<buffer, keyQ, down, kbd, budget>> /\ boot # <<>>
    BY <1>3 DEF EnablePort, Order, Sti, FindDisk, devices, drivers, Boots
  <2>2. QED BY <1>0, <1>1, <2>1 DEF InterruptsOn
<1>4. CASE ShellStarts \/ UseDisk \/ DiskStep \/ UNCHANGED deviceVars
  <2>1. budget' = budget \/ budget' = [budget EXCEPT !.calls = @ - 1]
    BY <1>4 DEF ShellStarts, UseDisk, DiskStep, deviceVars, ps2Vars
  <2>4. budget' \in Budget
    BY <1>0, <2>1 DEF Budget
  <2>2. UNCHANGED <<boot, buffer, keyQ, down, kbd>>
    BY <1>4 DEF ShellStarts, UseDisk, DiskStep, deviceVars, ps2Vars
  <2>3. QED BY <1>1, <2>2, <2>4 DEF InterruptsOn
<1>5. CASE Configure \/ Poll
  <2>1. UNCHANGED <<keyQ, down, kbd, budget>> /\ boot # <<>> /\ buffer' = Empty
    BY <1>5 DEF Configure, Poll, devices, drivers, Boots
  <2>2. kbd.shift = FALSE /\ keyQ \in Seq(Nat)
    BY <2>1 DEF ShiftHeld, ShiftType, InterruptsOn
  <2>3. AfterAll' => AfterAll
    BY <2>1, <2>2, ShiftLess
  <2>4. QED BY <2>1, <2>2, <2>3 DEF ShiftHeld, ShiftType, IsShift
<1>6. QED
  BY <1>2, <1>3, <1>4, <1>5, KeyShift, ArrivalShift, InterruptShift DEF DevicesNext, Ps2Step

\* However keys are pressed, held and released together, and whatever of it was taken away by
\* the polling at boot, shift is off once all keys are up.
THEOREM ShiftIsReleased == DevicesSpec => []ShiftReleased
<1>1. ShiftHeld => ShiftReleased
  BY DEF ShiftHeld, ShiftReleased, AfterAll, AfterOne, AfterBuffer
<1>2. QED
  BY <1>1, ShiftInit, ShiftStep, PTL DEF DevicesSpec

-----------------------------------------------------------------------------
\* The disk.

Sector == [1..Words -> Nat]

AtaType ==
  /\ at \in {"idle", "status", "wait", "poll", "words", "flush", "flushing"}
  /\ call \in [op : {"none", "identify", "read", "write"}, lba : Nat, text : Seq(Nat)]
  /\ call.op = "write" => call.text \in Sector
  /\ buf \in Seq(Nat) /\ ret \in BOOLEAN
  /\ drive \in [bsy : BOOLEAN, drq : BOOLEAN, err : BOOLEAN,
                op : {"none", "identify", "read", "write", "flush"}, lba : Addresses,
                got : Seq(Nat), faulty : BOOLEAN]
  /\ media \in [Addresses -> Sector]

Target == call.lba % AddressSpace

\* Where there is no drive, none says that it is ready.
NoDrive ==
  kind = "none" => /\ ~drive.bsy /\ ~drive.drq /\ drive.op = "none" /\ drive.got = <<>>
                   /\ at \notin {"words", "flush", "flushing"}

\* Before the transfer: the drive has the command, or was given up.
Waiting ==
  at \in {"status", "wait", "poll"} =>
    /\ buf = <<>> /\ drive.got = <<>>
    /\ kind # "none" => drive.op = call.op /\ drive.lba = Target
    /\ at = "poll" => ~drive.bsy

\* During the transfer: the drive waits for the CPU, and the words so far are right.
Transferring ==
  at = "words" =>
    /\ ~drive.bsy /\ drive.drq /\ Len(buf) < Words
    /\ drive.op = call.op /\ drive.lba = Target
    /\ IF call.op = "write" THEN drive.got = buf /\ \A i \in 1..Len(buf) : buf[i] = call.text[i]
       ELSE \A i \in 1..Len(buf) : buf[i] = media[Target][i]

\* After the last word: the drive will store the sector, or has, or has failed.
Storing ==
  at \in {"flush", "flushing"} =>
    /\ call.op = "write" /\ drive.got = call.text /\ drive.lba = Target /\ ~drive.drq
    /\ drive.op \in {"write", "flush"}
    /\ (drive.bsy /\ drive.op = "write") \/ drive.faulty \/ media[Target] = call.text

Answered ==
  Idle => /\ ~drive.bsy
          /\ ret => /\ ~drive.drq
                    /\ call.op = "read" => buf = media[Target]
                    /\ call.op = "write" => drive.faulty \/ media[Target] = call.text

AtaInv == AtaType /\ NoDrive /\ Waiting /\ Transferring /\ Storing /\ Answered

\* A sequence that agrees with a sector is the sector.
LEMMA WholeSector ==
  ASSUME NEW s \in Seq(Nat), NEW t \in Sector, Len(s) = Words, \A i \in 1..Len(s) : s[i] = t[i]
  PROVE  s = t
<1>1. t \in Seq(Nat) /\ Len(t) = Words
  BY AtaAssumption DEF Sector
<1>2. QED BY <1>1, SeqEqual

\* Whatever sector is asked for, the address sent is one the drive knows.
LEMMA TargetInSpace ==
  ASSUME AtaType
  PROVE  Target \in Addresses /\ (call.lba \in Addresses => Target = call.lba)
<1>1. call.lba \in Nat /\ AddressSpace \in Nat \ {0}
  BY AtaAssumption DEF AtaType
<1>2. \A n \in Nat, m \in Nat \ {0} : n % m \in 0..(m - 1) /\ (n \in 0..(m - 1) => n % m = n)
  OBVIOUS
<1>3. QED BY <1>1, <1>2, Zenon DEF Target, Addresses

\* There is an address.
LEMMA SomeAddress == 0 \in Addresses
BY AtaAssumption DEF Addresses

\* The drive is at rest when the kernel starts.
LEMMA DiskInit == DevicesInit => AtaInv
<1> SUFFICES ASSUME AtaInit PROVE AtaInv
  BY DEF DevicesInit
<1>1. media = [a \in Addresses |-> [i \in 1..Words |-> 0]] /\ media \in [Addresses -> Sector]
  BY DEF AtaInit, Sector
<1>2. AtaType
  <2>1. drive \in [bsy : BOOLEAN, drq : BOOLEAN, err : BOOLEAN,
                   op : {"none", "identify", "read", "write", "flush"}, lba : Addresses,
                   got : Seq(Nat), faulty : BOOLEAN]
    BY SomeAddress DEF AtaInit
  <2>2. call \in [op : {"none", "identify", "read", "write"}, lba : Nat, text : Seq(Nat)]
    BY DEF AtaInit
  <2>3. at = "idle" /\ call.op = "none" /\ buf = <<>> /\ ret = FALSE
    BY DEF AtaInit
  <2>4. <<>> \in Seq(Nat)
    OBVIOUS
  <2>5. buf \in Seq(Nat) /\ ret \in BOOLEAN /\ (call.op = "write" => call.text \in Sector)
    BY <2>3, <2>4, Zenon
  <2>6. QED BY <1>1, <2>1, <2>2, <2>3, <2>5 DEF AtaType
<1>3. at = "idle" /\ ret = FALSE /\ ~drive.bsy /\ ~drive.drq /\ drive.op = "none" /\ drive.got = <<>>
  BY DEF AtaInit
<1>4. QED
  BY <1>2, <1>3 DEF AtaInv, NoDrive, Waiting, Transferring, Storing, Answered

\* The drive answers, or fails.
LEMMA DriveStep ==
  ASSUME AtaInv, Drive
  PROVE  AtaInv'
<1>1. UNCHANGED <<at, call, buf, ret, kind>>
  BY DEF Drive, Answers, Ready
<1>2. CASE Ready
  <2>1. /\ ~drive.bsy /\ ~drive.drq /\ drive.op # "none" /\ at \in {"status", "wait", "poll"}
        /\ drive' = [drive EXCEPT !.drq = TRUE] /\ media' = media
    BY <1>2 DEF Ready
  <2>2. AtaType'
    BY <1>1, <2>1 DEF AtaInv, AtaType
  <2>3. /\ drive'.bsy = drive.bsy /\ drive'.op = drive.op /\ drive'.lba = drive.lba
        /\ drive'.got = drive.got
    BY <2>1 DEF AtaInv, AtaType
  <2>4. QED
    BY <1>1, <2>1, <2>2, <2>3
    DEF AtaInv, NoDrive, Waiting, Transferring, Storing, Answered, Target, Idle
<1>3. CASE Answers
  <2>1. drive.bsy /\ kind # "none" /\ at \notin {"idle", "words", "poll"}
    BY <1>3 DEF Answers, AtaInv, NoDrive, Answered, Transferring, Waiting, Idle
  <2>2. \/ drive' = [drive EXCEPT !.bsy = FALSE, !.err = TRUE, !.faulty = TRUE] /\ media' = media
        \/ \E drq \in BOOLEAN :
             /\ drq => drive.op # "flush" /\ ~Stored
             /\ drive' = [drive EXCEPT !.bsy = FALSE, !.drq = drq]
             /\ media' = IF Stored THEN [media EXCEPT ![drive.lba] = drive.got] ELSE media
    BY <1>3 DEF Answers
  <2>3. /\ drive'.op = drive.op /\ drive'.lba = drive.lba /\ drive'.got = drive.got
        /\ ~drive'.bsy
    BY <2>2 DEF AtaInv, AtaType
  <2>4. CASE at \in {"status", "wait"}
    <3>1. ~Stored
      <4>1. drive.got = <<>> /\ Words # 0
        BY <2>4, AtaAssumption DEF AtaInv, Waiting
      <4>2. QED BY <4>1 DEF Stored
    <3>2. media' = media
      BY <2>2, <3>1
    <3>3. AtaType'
      BY <1>1, <2>2, <3>2 DEF AtaInv, AtaType
    <3>4. QED
      BY <1>1, <2>1, <2>3, <2>4, <3>2, <3>3
      DEF AtaInv, NoDrive, Waiting, Transferring, Storing, Answered, Target, Idle
  <2>5. CASE at \in {"flush", "flushing"}
    <3>1. /\ call.op = "write" /\ drive.got = call.text /\ drive.lba = Target /\ ~drive.drq
          /\ drive.op \in {"write", "flush"}
          /\ (drive.bsy /\ drive.op = "write") \/ drive.faulty \/ media[Target] = call.text
          /\ call.text \in Sector /\ Target \in Addresses
      BY <2>5, TargetInSpace DEF AtaInv, Storing, AtaType
    <3>2. Stored <=> drive.op = "write"
      BY <3>1, AtaAssumption DEF Stored, Sector
    <3>3. ~drive'.drq
      BY <2>2, <3>1, <3>2 DEF AtaInv, AtaType
    <3>4. media' \in [Addresses -> Sector]
      BY <2>2, <3>1 DEF AtaInv, AtaType
    <3>5. drive'.faulty \/ media'[Target] = call.text
      BY <2>2, <3>1, <3>2 DEF AtaInv, AtaType
    <3>6. AtaType'
      <4>1. drive' \in [bsy : BOOLEAN, drq : BOOLEAN, err : BOOLEAN,
                        op : {"none", "identify", "read", "write", "flush"}, lba : Addresses,
                        got : Seq(Nat), faulty : BOOLEAN]
        BY <2>2 DEF AtaInv, AtaType
      <4>2. QED BY <1>1, <3>4, <4>1 DEF AtaInv, AtaType
    <3>7. QED
      BY <1>1, <2>1, <2>3, <2>5, <3>1, <3>3, <3>5, <3>6
      DEF AtaInv, NoDrive, Waiting, Transferring, Storing, Answered, Target, Idle
  <2>6. QED BY <2>1, <2>4, <2>5 DEF AtaInv, AtaType
<1>4. QED BY <1>2, <1>3 DEF Drive

\* A call sends its command, or returns without one.
LEMMA IssueStep ==
  ASSUME AtaInv, NEW op \in {"identify", "read", "write"}, NEW lba \in Nat,
         NEW text \in Seq(Nat), op = "write" => text \in Sector, Issue(op, lba, text)
  PROVE  AtaInv'
<1>1. /\ call' = [op |-> op, lba |-> lba, text |-> text]
      /\ drive' = Sent(op, lba) /\ at' \in {"status", "wait"} /\ buf' = <<>>
      /\ UNCHANGED <<ret, kind, media>> /\ Idle
  BY DEF Issue
<1>2. /\ call' \in [op : {"none", "identify", "read", "write"}, lba : Nat, text : Seq(Nat)]
      /\ call'.op = op /\ call'.lba = lba /\ call'.text = text
  BY <1>1
<1>3. lba % AddressSpace \in Addresses /\ Target' = lba % AddressSpace
  <2>1. \A n \in Nat, m \in Nat \ {0} : n % m \in 0..(m - 1)
    OBVIOUS
  <2>2. QED BY <1>2, <2>1, AtaAssumption DEF Target, Addresses
<1>4. CASE kind = "none"
  <2>1. drive' = drive
    BY <1>1, <1>4 DEF Sent
  <2>2. AtaType'
    BY <1>1, <1>2, <2>1 DEF AtaInv, AtaType
  <2>3. QED
    BY <1>1, <1>4, <2>1, <2>2
    DEF AtaInv, NoDrive, Waiting, Transferring, Storing, Answered, Idle
<1>5. CASE kind # "none"
  <2>1. drive' = [drive EXCEPT !.bsy = TRUE, !.drq = FALSE, !.err = FALSE, !.op = op,
                               !.lba = lba % AddressSpace, !.got = <<>>, !.faulty = FALSE]
    BY <1>1, <1>5 DEF Sent
  <2>2. drive'.op = op /\ drive'.lba = lba % AddressSpace /\ drive'.got = <<>>
    BY <2>1 DEF AtaInv, AtaType
  <2>3. drive' \in [bsy : BOOLEAN, drq : BOOLEAN, err : BOOLEAN,
                    op : {"none", "identify", "read", "write", "flush"}, lba : Addresses,
                    got : Seq(Nat), faulty : BOOLEAN]
    <3>1. <<>> \in Seq(Nat) /\ op \in {"none", "identify", "read", "write", "flush"}
      OBVIOUS
    <3>2. QED BY <1>3, <2>1, <3>1 DEF AtaInv, AtaType
  <2>4. AtaType'
    BY <1>1, <1>2, <2>3 DEF AtaInv, AtaType
  <2>5. QED
    BY <1>1, <1>2, <1>3, <1>5, <2>2, <2>4
    DEF AtaInv, NoDrive, Waiting, Transferring, Storing, Answered, Idle
<1>6. QED BY <1>4, <1>5

\* The waits: for the drive to be found, to be ready, and to be ready to transfer.
LEMMA WaitStep ==
  ASSUME AtaInv, Status \/ WaitReady \/ WaitDrq
  PROVE  AtaInv'
<1>1. UNCHANGED <<call, kind, media, buf, drive>> /\ ~drive.bsy
  BY DEF AtaInv, Waiting, Status, WaitReady, WaitDrq, Stays
<1>2. /\ at \in {"status", "wait", "poll"}
      /\ \/ at' = "idle" /\ ret' = FALSE
         \/ at' \in {"wait", "poll"} /\ ret' = ret
         \/ at' = "words" /\ ret' = ret /\ drive.drq
  BY DEF Status, WaitReady, WaitDrq, Returns, AtaInv, AtaType
<1>3. AtaType'
  BY <1>1, <1>2 DEF AtaInv, AtaType
<1>4. Target' = Target /\ buf = <<>> /\ drive.got = <<>> /\ Words > 0
  BY <1>1, <1>2, AtaAssumption DEF AtaInv, Waiting, Target
<1>5. NoDrive' /\ Waiting' /\ Storing' /\ Answered'
  BY <1>1, <1>2, <1>4 DEF AtaInv, NoDrive, Waiting, Storing, Answered, Idle
<1>6. Transferring'
  <2> SUFFICES ASSUME at' = "words" PROVE Transferring'
    BY DEF Transferring
  <2>1. drive.drq /\ kind # "none"
    BY <1>2 DEF AtaInv, NoDrive
  <2>2. drive.op = call.op /\ drive.lba = Target /\ Len(buf) = 0
    BY <1>2, <1>4, <2>1 DEF AtaInv, Waiting
  <2>3. QED BY <1>1, <1>4, <2>1, <2>2 DEF Transferring
<1>7. QED BY <1>3, <1>5, <1>6 DEF AtaInv

\* One more word in buf, and what it agrees with.
LEMMA OneMore ==
  ASSUME NEW s \in Seq(Nat), NEW t \in Sector, Len(s) < Words,
         \A i \in 1..Len(s) : s[i] = t[i],
         NEW r, r = Append(s, t[Len(s) + 1])
  PROVE  /\ r \in Seq(Nat) /\ Len(r) = Len(s) + 1 /\ Len(r) <= Words
         /\ \A i \in 1..Len(r) : r[i] = t[i]
         /\ ~(Len(r) < Words) => r = t
<1>1. Len(s) + 1 \in 1..Words /\ Words \in Nat
  BY AtaAssumption
<1>2. t[Len(s) + 1] \in Nat
  BY <1>1 DEF Sector
<1>3. r \in Seq(Nat) /\ Len(r) = Len(s) + 1 /\ Len(r) <= Words
  BY <1>1, <1>2
<1>4. \A i \in 1..Len(r) : r[i] = t[i]
  BY <1>1, <1>2, <1>3
<1>5. ~(Len(r) < Words) => Len(r) = Words
  BY <1>1, <1>3
<1>6. QED BY <1>3, <1>4, <1>5, WholeSector

\* A word of the sector is read.
LEMMA ReadStep ==
  ASSUME AtaInv, ReadWord
  PROVE  AtaInv'
<1>1. /\ at = "words" /\ call.op # "write" /\ UNCHANGED <<call, kind, media>>
      /\ buf' = Append(buf, media[drive.lba][Len(buf) + 1])
      /\ drive' = [drive EXCEPT !.drq = Len(buf') < Words]
      /\ IF Len(buf') < Words THEN UNCHANGED <<at, ret>> ELSE at' = "idle" /\ ret' = TRUE
  BY DEF ReadWord, Stays, Returns
<1>2. /\ AtaType /\ kind # "none" /\ ~drive.bsy /\ Len(buf) < Words
      /\ drive.op = call.op /\ drive.lba = Target
      /\ \A i \in 1..Len(buf) : buf[i] = media[Target][i]
  BY <1>1 DEF AtaInv, NoDrive, Transferring
<1>3. Target' = Target /\ media[Target] \in Sector /\ buf \in Seq(Nat)
  BY <1>1, <1>2, TargetInSpace DEF Target, AtaType
<1>4. /\ buf' \in Seq(Nat)
      /\ \A i \in 1..Len(buf') : buf'[i] = media[Target][i]
      /\ ~(Len(buf') < Words) => buf' = media[Target]
  <2>1. buf' = Append(buf, media[Target][Len(buf) + 1])
    BY <1>1, <1>2
  <2>2. PICK t \in Sector : t = media[Target]
    BY <1>3
  <2>3. /\ Len(buf) < Words /\ \A i \in 1..Len(buf) : buf[i] = t[i]
        /\ buf' = Append(buf, t[Len(buf) + 1]) /\ buf \in Seq(Nat)
    BY <1>2, <1>3, <2>1, <2>2
  <2>4. /\ buf' \in Seq(Nat) /\ Len(buf') <= Words
        /\ \A i \in 1..Len(buf') : buf'[i] = t[i]
        /\ ~(Len(buf') < Words) => buf' = t
    BY <2>3, OneMore
  <2>5. QED BY <2>2, <2>4
<1> DEFINE more == Len(buf') < Words
<1>5. more \in BOOLEAN
  OBVIOUS
<1> HIDE DEF more
<1>6. /\ drive'.bsy = drive.bsy /\ drive'.op = drive.op /\ drive'.lba = drive.lba
      /\ drive'.drq = more
      /\ drive' \in [bsy : BOOLEAN, drq : BOOLEAN, err : BOOLEAN,
                     op : {"none", "identify", "read", "write", "flush"}, lba : Addresses,
                     got : Seq(Nat), faulty : BOOLEAN]
  <2>1. drive' = [drive EXCEPT !.drq = more]
    BY <1>1, Zenon DEF more
  <2>2. QED BY <1>2, <1>5, <2>1 DEF AtaType
<1>7. AtaType'
  BY <1>1, <1>2, <1>4, <1>6 DEF AtaType
<1>8. CASE Len(buf') < Words
  <2>1. at' = "words" /\ more
    BY <1>1, <1>8 DEF more
  <2>2. Transferring'
    <3>1. ~drive'.bsy /\ drive'.drq
      BY <1>2, <1>6, <2>1, Zenon
    <3>2. call'.op # "write" /\ drive'.op = call'.op /\ drive'.lba = Target'
      BY <1>1, <1>2, <1>3, <1>6, Zenon
    <3>3. \A i \in 1..Len(buf') : buf'[i] = media'[Target'][i]
      BY <1>1, <1>3, <1>4, Zenon
    <3>4. QED BY <1>8, <3>1, <3>2, <3>3, Zenon DEF Transferring
  <2>3. NoDrive' /\ Waiting' /\ Storing' /\ Answered'
    BY <1>1, <1>2, <2>1 DEF NoDrive, Waiting, Storing, Answered, Idle
  <2>4. QED BY <1>7, <2>2, <2>3 DEF AtaInv
<1>9. CASE ~(Len(buf') < Words)
  <2>1. at' = "idle" /\ ~more /\ buf' = media[Target]
    BY <1>1, <1>4, <1>9 DEF more
  <2>2. Answered'
    BY <1>1, <1>2, <1>3, <1>6, <2>1 DEF Answered
  <2>3. NoDrive' /\ Waiting' /\ Transferring' /\ Storing'
    BY <1>1, <1>2, <2>1 DEF NoDrive, Waiting, Transferring, Storing
  <2>4. QED BY <1>7, <2>2, <2>3 DEF AtaInv
<1>10. QED BY <1>8, <1>9

\* A word of the sector is written.
LEMMA WriteStep ==
  ASSUME AtaInv, WriteWord
  PROVE  AtaInv'
<1>1. /\ at = "words" /\ call.op = "write" /\ UNCHANGED <<call, kind, media, ret>>
      /\ buf' = Append(buf, call.text[Len(buf) + 1])
      /\ drive' = [drive EXCEPT !.got = buf', !.drq = Len(buf') < Words,
                                !.bsy = Len(buf') = Words]
      /\ at' = IF Len(buf') = Words THEN "flush" ELSE at
  BY DEF WriteWord, Stays
<1>2. /\ AtaType /\ kind # "none" /\ Len(buf) < Words
      /\ drive.op = "write" /\ drive.lba = Target
      /\ \A i \in 1..Len(buf) : buf[i] = call.text[i]
  BY <1>1 DEF AtaInv, NoDrive, Transferring
<1>3. Target' = Target /\ call.text \in Sector /\ buf \in Seq(Nat) /\ Words \in Nat
  BY <1>1, <1>2, AtaAssumption DEF Target, AtaType
<1>4. /\ buf' \in Seq(Nat) /\ Len(buf') <= Words /\ Len(buf') \in Nat
      /\ \A i \in 1..Len(buf') : buf'[i] = call.text[i]
      /\ ~(Len(buf') < Words) => buf' = call.text
  <2>1. PICK t \in Sector : t = call.text
    BY <1>3
  <2>2. /\ Len(buf) < Words /\ \A i \in 1..Len(buf) : buf[i] = t[i]
        /\ buf' = Append(buf, t[Len(buf) + 1]) /\ buf \in Seq(Nat)
    BY <1>1, <1>2, <1>3, <2>1
  <2>3. /\ buf' \in Seq(Nat) /\ Len(buf') <= Words
        /\ \A i \in 1..Len(buf') : buf'[i] = t[i]
        /\ ~(Len(buf') < Words) => buf' = t
    BY <2>2, OneMore
  <2>4. QED BY <2>1, <2>3
<1> DEFINE more == Len(buf') < Words
<1> DEFINE all == Len(buf') = Words
<1>5. more \in BOOLEAN /\ all \in BOOLEAN
  OBVIOUS
<1> HIDE DEF more, all
<1>6. /\ drive'.bsy = all /\ drive'.op = drive.op /\ drive'.lba = drive.lba
      /\ drive'.drq = more /\ drive'.got = buf'
      /\ drive' \in [bsy : BOOLEAN, drq : BOOLEAN, err : BOOLEAN,
                     op : {"none", "identify", "read", "write", "flush"}, lba : Addresses,
                     got : Seq(Nat), faulty : BOOLEAN]
  <2>1. drive' = [drive EXCEPT !.got = buf', !.drq = more, !.bsy = all]
    BY <1>1, Zenon DEF more, all
  <2>2. QED BY <1>2, <1>4, <1>5, <2>1 DEF AtaType
<1>7. AtaType'
  BY <1>1, <1>2, <1>4, <1>6 DEF AtaType
<1>8. CASE Len(buf') = Words
  <2>1. buf' = call.text /\ ~(Len(buf') < Words) /\ at' = "flush"
    BY <1>1, <1>3, <1>4, <1>8
  <2>2. ~more /\ all
    BY <1>8, <2>1 DEF more, all
  <2>3. Storing'
    BY <1>1, <1>2, <1>3, <1>6, <2>1, <2>2 DEF Storing
  <2>4. NoDrive' /\ Waiting' /\ Transferring' /\ Answered'
    BY <1>1, <1>2, <2>1 DEF NoDrive, Waiting, Transferring, Answered, Idle
  <2>5. QED BY <1>7, <2>3, <2>4 DEF AtaInv
<1>9. CASE Len(buf') # Words
  <2>1. Len(buf') < Words /\ at' = "words"
    BY <1>1, <1>3, <1>4, <1>9
  <2>2. more /\ ~all
    BY <1>9, <2>1 DEF more, all
  <2>3. Transferring'
    <3>1. ~drive'.bsy /\ drive'.drq /\ drive'.got = buf'
      BY <1>6, <2>2, Zenon
    <3>2. call'.op = "write" /\ drive'.op = call'.op /\ drive'.lba = Target'
      BY <1>1, <1>2, <1>3, <1>6, Zenon
    <3>3. \A i \in 1..Len(buf') : buf'[i] = call'.text[i]
      BY <1>1, <1>4, Zenon
    <3>4. QED BY <2>1, <3>1, <3>2, <3>3, Zenon DEF Transferring
  <2>4. NoDrive' /\ Waiting' /\ Storing' /\ Answered'
    BY <1>1, <1>2, <2>1 DEF NoDrive, Waiting, Storing, Answered, Idle
  <2>5. QED BY <1>7, <2>3, <2>4 DEF AtaInv
<1>10. QED BY <1>8, <1>9

\* The cache is flushed after a write, and the call returns.
LEMMA FlushStep ==
  ASSUME AtaInv, Flush \/ Flushed
  PROVE  AtaInv'
<1>1. AtaType /\ UNCHANGED <<call, kind, media, buf>> /\ Target' = Target
  BY DEF AtaInv, Flush, Flushed, Stays, Target
<1>2. /\ kind # "none" /\ call.op = "write" /\ drive.got = call.text
      /\ drive.lba = Target /\ ~drive.drq /\ drive.op \in {"write", "flush"}
      /\ (drive.bsy /\ drive.op = "write") \/ drive.faulty \/ media[Target] = call.text
  BY DEF AtaInv, NoDrive, Storing, Flush, Flushed
<1>3. CASE Flush
  <2>1. at' = "flushing" /\ ret' = ret
    BY <1>3 DEF Flush
  <2>2. CASE drive.bsy
    <3>1. drive' = drive
      BY <1>3, <2>2 DEF Flush
    <3>2. AtaType'
      BY <1>1, <2>1, <3>1 DEF AtaType
    <3>3. QED
      BY <1>1, <1>2, <2>1, <3>1, <3>2
      DEF AtaInv, NoDrive, Waiting, Transferring, Storing, Answered, Idle
  <2>3. CASE ~drive.bsy
    <3>1. drive' = [drive EXCEPT !.op = "flush", !.bsy = TRUE, !.err = FALSE]
      BY <1>3, <2>3 DEF Flush
    <3>2. AtaType'
      BY <1>1, <2>1, <3>1 DEF AtaType
    <3>3. /\ drive'.op = "flush" /\ drive'.got = drive.got /\ drive'.lba = drive.lba
          /\ drive'.drq = drive.drq /\ drive'.faulty = drive.faulty
      BY <1>1, <3>1 DEF AtaType
    <3>4. QED
      BY <1>1, <1>2, <2>1, <2>3, <3>2, <3>3
      DEF AtaInv, NoDrive, Waiting, Transferring, Storing, Answered, Idle
  <2>4. QED BY <2>2, <2>3
<1>4. CASE Flushed
  <2>1. at' = "idle" /\ ret' = TRUE /\ drive' = drive /\ ~drive.bsy
    BY <1>4 DEF Flushed, Returns
  <2>2. AtaType'
    BY <1>1, <2>1 DEF AtaType
  <2>3. QED
    BY <1>1, <1>2, <2>1, <2>2
    DEF AtaInv, NoDrive, Waiting, Transferring, Storing, Answered, Idle
<1>5. QED BY <1>3, <1>4

\* A call that is refused says so, and does no more.
LEMMA RefusedStep ==
  ASSUME AtaInv, NoBuffer
  PROVE  AtaInv'
<1>1. UNCHANGED <<call, buf, kind, drive, media>> /\ at = "idle" /\ at' = "idle" /\ ret' = FALSE
  BY DEF NoBuffer, Idle, Returns, Stays
<1>2. AtaType'
  BY <1>1 DEF AtaInv, AtaType
<1>3. QED
  BY <1>1, <1>2
  DEF AtaInv, NoDrive, Waiting, Transferring, Storing, Answered, Target, Idle

\* What is none of the disk's leaves it alone.
LEMMA DiskStays ==
  ASSUME AtaInv, UNCHANGED ataVars
  PROVE  AtaInv'
<1>1. UNCHANGED <<at, call, buf, ret, kind, drive, media>>
  BY DEF ataVars
<1>2. AtaType'
  BY <1>1 DEF AtaInv, AtaType
<1>3. QED
  BY <1>1, <1>2
  DEF AtaInv, NoDrive, Waiting, Transferring, Storing, Answered, Target, Idle

\* No step loses track of the transfer.
LEMMA DevicesDisk == AtaInv /\ [DevicesNext]_deviceVars => AtaInv'
<1> SUFFICES ASSUME AtaInv, [DevicesNext]_deviceVars PROVE AtaInv'
  OBVIOUS
<1>1. CASE FindDisk
  <2>1. Issue("identify", 0, <<>>)
    BY <1>1 DEF FindDisk, Identify
  <2>2. 0 \in Nat /\ <<>> \in Seq(Nat) /\ "identify" \in {"identify", "read", "write"}
    OBVIOUS
  <2>3. "identify" = "write" => <<>> \in Sector
    OBVIOUS
  <2>4. QED BY <2>1, <2>2, <2>3, IssueStep, Zenon
<1>2. CASE UseDisk
  <2>1. CASE \E lba \in Sectors : ReadSector(lba)
    <3>1. PICK lba \in Sectors : Issue("read", lba, <<>>)
      BY <2>1 DEF ReadSector
    <3>2. <<>> \in Seq(Nat) /\ "read" \in {"identify", "read", "write"}
      OBVIOUS
    <3>3. "read" = "write" => <<>> \in Sector
      OBVIOUS
    <3>4. lba \in Nat
      BY AtaAssumption
    <3>5. QED BY <3>1, <3>2, <3>3, <3>4, IssueStep, Zenon
  <2>2. CASE \E lba \in Sectors, text \in Contents : WriteSector(lba, text)
    <3>1. PICK lba \in Sectors, text \in Contents : Issue("write", lba, text)
      BY <2>2 DEF WriteSector
    <3>2. text \in Sector /\ text \in Seq(Nat)
      BY AtaAssumption DEF Sector
    <3>3. lba \in Nat
      BY AtaAssumption
    <3>4. QED BY <3>1, <3>2, <3>3, IssueStep
  <2>3. CASE NoBuffer
    BY <2>3, RefusedStep
  <2>4. QED BY <1>2, <2>1, <2>2, <2>3 DEF UseDisk, AtaCalls
<1>3. CASE DiskStep
  BY <1>3, WaitStep, ReadStep, WriteStep, FlushStep, DriveStep DEF DiskStep, Driver
<1>4. CASE Ps2Step \/ UNCHANGED deviceVars
  BY <1>4, DiskStays DEF Ps2Step, deviceVars
<1>5. QED BY <1>1, <1>2, <1>3, <1>4 DEF DevicesNext

\* A call that returned true has transferred its whole sector, whatever drive is connected and
\* however late it answers, unless the drive failed while it stored: the one error that
\* nothing looks for.
THEOREM SectorsAreWhole == DevicesSpec => []SectorTransferred
<1>1. AtaInv => SectorTransferred
  BY TargetInSpace DEF AtaInv, Answered, SectorTransferred
<1>2. QED
  BY <1>1, DiskInit, DevicesDisk, PTL DEF DevicesSpec

-----------------------------------------------------------------------------
\* The mouse.

MouseType == [cycle : 0..2, packet : [1..3 -> Int], left : BOOLEAN, x : Int, y : Int]

\* What the packet of these three bytes makes of the pointer and the button.
After(pos, a, b, c) ==
  IF Overflow(a) THEN pos
  ELSE [x |-> Clamp(pos.x + Signed(b), ScreenWidth), y |-> Clamp(pos.y - Signed(c), ScreenHeight),
        left |-> Bit(a, 1)]

\* The bytes the decoder has taken of a packet, and those behind them.
Taken(m, q, k) == IF k <= m.cycle THEN m.packet[k] ELSE q[k - m.cycle]

\* What is under way completes the packet the decoder is in, and at most one more.
InStep(m, q, pos) ==
  \/ m.cycle + Len(q) = 0 /\ pos = Pointer(m)
  \/ /\ m.cycle + Len(q) = 3 /\ Bit(Taken(m, q, 1), 8)
     /\ pos = After(Pointer(m), Taken(m, q, 1), Taken(m, q, 2), Taken(m, q, 3))
  \/ /\ m.cycle + Len(q) = 6 /\ Bit(Taken(m, q, 1), 8) /\ Bit(Taken(m, q, 4), 8)
     /\ pos = After(After(Pointer(m), Taken(m, q, 1), Taken(m, q, 2), Taken(m, q, 3)),
                   Taken(m, q, 4), Taken(m, q, 5), Taken(m, q, 6))

\* The decoder stays what it is, whatever byte comes.
LEMMA MouseByteType ==
  ASSUME NEW m \in MouseType, NEW b \in Int
  PROVE  MouseByte(m, b) \in MouseType
<1> DEFINE t == [m EXCEPT !.packet[m.cycle + 1] = b, !.cycle = (m.cycle + 1) % 3]
<1>1. m.cycle \in 0..2 /\ m.packet \in [1..3 -> Int]
  BY DEF MouseType
<1>2. (m.cycle + 1) % 3 \in 0..2
  BY <1>1
<1>3. t \in MouseType
  BY <1>1, <1>2 DEF MouseType
<1> HIDE DEF t
<1>4. Moved(t) \in MouseType
  <2> DEFINE l == Bit(t.packet[1], 1)
             x == Clamp(t.x + Signed(t.packet[2]), ScreenWidth)
             y == Clamp(t.y - Signed(t.packet[3]), ScreenHeight)
  <2>1. l \in BOOLEAN
    BY DEF Bit
  <2>2. t.packet[2] \in Int /\ t.packet[3] \in Int /\ t.x \in Int /\ t.y \in Int
    BY <1>3 DEF MouseType
  <2>3. Signed(t.packet[2]) \in Int /\ Signed(t.packet[3]) \in Int
    BY <2>2 DEF Signed
  <2>4. x \in Int /\ y \in Int
    BY <2>2, <2>3, ScreenAssumption DEF Clamp
  <2>5. Moved(t) = IF Overflow(t.packet[1]) THEN t
                   ELSE [t EXCEPT !.left = l, !.x = x, !.y = y]
    BY DEF Moved
  <2> HIDE DEF l, x, y
  <2>6. [t EXCEPT !.left = l, !.x = x, !.y = y] \in MouseType
    BY <1>3, <2>1, <2>4 DEF MouseType
  <2>7. QED BY <1>3, <2>5, <2>6
<1>5. MouseByte(m, b) = m \/ MouseByte(m, b) = Moved(t) \/ MouseByte(m, b) = t
  BY DEF MouseByte, t
<1>6. QED BY <1>3, <1>4, <1>5

\* A byte that starts a packet, or continues it.
LEMMA ByteInPacket ==
  ASSUME NEW m \in MouseType, NEW b \in Int, m.cycle # 2, m.cycle = 0 => Bit(b, 8)
  PROVE  LET n == MouseByte(m, b)
         IN /\ n.cycle = m.cycle + 1 /\ Pointer(n) = Pointer(m)
            /\ \A k \in 1..m.cycle : n.packet[k] = m.packet[k]
            /\ n.packet[m.cycle + 1] = b
<1> DEFINE t == [m EXCEPT !.packet[m.cycle + 1] = b, !.cycle = (m.cycle + 1) % 3]
<1>1. m.cycle \in 0..1 /\ m.packet \in [1..3 -> Int]
  BY DEF MouseType
<1>2. (m.cycle + 1) % 3 = m.cycle + 1
  BY <1>1
<1>3. MouseByte(m, b) = t
  BY DEF MouseByte
<1>4. /\ t.cycle = m.cycle + 1 /\ t.x = m.x /\ t.y = m.y /\ t.left = m.left
      /\ t.packet = [m.packet EXCEPT ![m.cycle + 1] = b]
  BY <1>1, <1>2 DEF MouseType
<1> HIDE DEF t
<1>5. /\ \A k \in 1..m.cycle : t.packet[k] = m.packet[k]
      /\ t.packet[m.cycle + 1] = b
  BY <1>1, <1>4
<1>6. Pointer(t) = Pointer(m)
  BY <1>4 DEF Pointer
<1>7. QED BY <1>3, <1>4, <1>5, <1>6

\* The byte that completes a packet.
LEMMA ByteOfPacket ==
  ASSUME NEW m \in MouseType, NEW b \in Int, m.cycle = 2
  PROVE  LET n == MouseByte(m, b)
         IN /\ n.cycle = 0
            /\ Pointer(n) = After(Pointer(m), m.packet[1], m.packet[2], b)
<1> DEFINE t == [m EXCEPT !.packet[m.cycle + 1] = b, !.cycle = (m.cycle + 1) % 3]
<1>1. m.packet \in [1..3 -> Int] /\ (m.cycle + 1) % 3 = 0 /\ m.cycle + 1 = 3
  BY DEF MouseType
<1>2. MouseByte(m, b) = Moved(t)
  BY DEF MouseByte
<1>3. /\ t.cycle = 0 /\ t.x = m.x /\ t.y = m.y /\ t.left = m.left
      /\ t.packet = [m.packet EXCEPT ![3] = b]
  BY <1>1 DEF MouseType
<1>4. t \in MouseType
  <2>1. (m.cycle + 1) % 3 \in 0..2 /\ m.cycle + 1 \in 1..3
    BY <1>1
  <2>2. QED BY <1>1, <2>1 DEF MouseType
<1> HIDE DEF t
<1>5. t.packet[1] = m.packet[1] /\ t.packet[2] = m.packet[2] /\ t.packet[3] = b
  BY <1>1, <1>3
<1> DEFINE l == Bit(t.packet[1], 1)
           x == Clamp(t.x + Signed(t.packet[2]), ScreenWidth)
           y == Clamp(t.y - Signed(t.packet[3]), ScreenHeight)
<1>6. Moved(t) = IF Overflow(t.packet[1]) THEN t ELSE [t EXCEPT !.left = l, !.x = x, !.y = y]
  BY DEF Moved
<1>7. After(Pointer(m), m.packet[1], m.packet[2], b)
        = IF Overflow(t.packet[1]) THEN Pointer(t) ELSE [x |-> x, y |-> y, left |-> l]
  BY <1>3, <1>5 DEF After, Pointer
<1> HIDE DEF l, x, y
<1>8. CASE Overflow(t.packet[1])
  BY <1>2, <1>3, <1>6, <1>7, <1>8
<1>9. CASE ~Overflow(t.packet[1])
  <2>1. Moved(t) = [t EXCEPT !.left = l, !.x = x, !.y = y]
    BY <1>6, <1>9
  <2>2. Moved(t).cycle = 0 /\ Moved(t).left = l /\ Moved(t).x = x /\ Moved(t).y = y
    BY <1>3, <1>4, <2>1 DEF MouseType
  <2>3. QED BY <1>2, <1>7, <1>9, <2>2 DEF Pointer
<1>10. QED BY <1>8, <1>9

\* q is what is behind the first of the bytes in f.
Behind(f, q) ==
  /\ Len(f) = Len(q) + 1 /\ Len(q) \in Nat
  /\ \A k \in 1..Len(q) : f[k + 1] = q[k]

\* The decoder takes the next byte, and what is under way still leads to the same place.
LEMMA ByteKeepsStep ==
  ASSUME NEW m \in MouseType, NEW f, NEW q, Behind(f, q), f[1] \in Int, NEW pos, InStep(m, f, pos)
  PROVE  InStep(MouseByte(m, f[1]), q, pos)
<1> DEFINE n == MouseByte(m, f[1])
           all == m.cycle + Len(f)
<1>1. /\ m.cycle \in 0..2 /\ Len(q) \in Nat /\ Len(f) = Len(q) + 1 /\ all \in {3, 6}
      /\ Bit(Taken(m, f, 1), 8)
  <2>1. m.cycle \in 0..2
    BY DEF MouseType
  <2>2. Len(f) \in Nat /\ Len(f) > 0
    BY DEF Behind
  <2>3. QED BY <2>1, <2>2 DEF InStep, Behind
<1>2. \A k \in Int : Taken(m, f, k) = IF k <= m.cycle THEN m.packet[k] ELSE f[k - m.cycle]
  BY DEF Taken
<1>3. \A k \in Int : Taken(n, q, k) = IF k <= n.cycle THEN n.packet[k] ELSE q[k - n.cycle]
  BY DEF Taken
<1>4. \A k \in 1..Len(q) : f[k + 1] = q[k]
  BY DEF Behind
<1>5. CASE m.cycle # 2
  <2>1. m.cycle = 0 => Bit(f[1], 8)
    BY <1>1, <1>2
  <2>2. /\ n.cycle = m.cycle + 1 /\ Pointer(n) = Pointer(m)
        /\ \A k \in 1..m.cycle : n.packet[k] = m.packet[k]
        /\ n.packet[m.cycle + 1] = f[1]
    BY <1>5, <2>1, ByteInPacket
  <2> HIDE DEF n, all
  <2>3. ASSUME NEW k \in 1..all PROVE Taken(n, q, k) = Taken(m, f, k)
    <3>0. m.cycle \in Int /\ k \in Int /\ 1 <= k /\ n.cycle = m.cycle + 1
      BY <1>1, <2>2 DEF all
    <3>1. CASE k <= m.cycle
      <4>1. Taken(m, f, k) = m.packet[k] /\ Taken(n, q, k) = n.packet[k]
        BY <1>2, <1>3, <3>0, <3>1
      <4>2. k \in 1..m.cycle
        BY <3>0, <3>1
      <4>3. QED BY <2>2, <4>1, <4>2
    <3>2. CASE k = m.cycle + 1
      <4>1. Taken(m, f, k) = f[k - m.cycle] /\ Taken(n, q, k) = n.packet[k]
        BY <1>2, <1>3, <3>0, <3>2
      <4>2. k - m.cycle = 1
        BY <3>0, <3>2
      <4>3. QED BY <2>2, <3>2, <4>1, <4>2
    <3>3. CASE k > m.cycle + 1
      <4>1. k - m.cycle - 1 \in 1..Len(q)
        <5>1. \A x, y \in Int, z \in Nat :
                x > y + 1 /\ x <= y + (z + 1) => x - y - 1 \in 1..z
          OBVIOUS
        <5>2. k <= m.cycle + (Len(q) + 1) /\ Len(q) \in Nat
          BY <1>1 DEF all
        <5>3. QED BY <3>0, <3>3, <5>1, <5>2, Zenon
      <4>2. f[k - m.cycle] = q[k - m.cycle - 1]
        <5> DEFINE j == k - m.cycle - 1
        <5>1. j + 1 = k - m.cycle
          BY <1>1
        <5>2. f[j + 1] = q[j]
          BY <1>4, <4>1
        <5>3. QED BY <5>1, <5>2
      <4>3. Taken(m, f, k) = f[k - m.cycle]
        BY <1>2, <3>0, <3>3
      <4>4. Taken(n, q, k) = q[k - n.cycle] /\ k - n.cycle = k - m.cycle - 1
        BY <1>3, <3>0, <3>3
      <4>5. QED BY <4>2, <4>3, <4>4
    <3>4. QED BY <1>1, <3>1, <3>2, <3>3
  <2>4. n.cycle + Len(q) = all
    BY <1>1, <2>2 DEF all
  <2>5. all = m.cycle + Len(f)
    BY DEF all
  <2>6. CASE all = 3
    <3>1. \A k \in {1, 2, 3} : Taken(n, q, k) = Taken(m, f, k)
      BY <2>3, <2>6
    <3>2. QED BY <2>2, <2>4, <2>5, <2>6, <3>1 DEF InStep, n
  <2>7. CASE all = 6
    <3>1. \A k \in {1, 2, 3, 4, 5, 6} : Taken(n, q, k) = Taken(m, f, k)
      BY <2>3, <2>7
    <3>2. QED BY <2>2, <2>4, <2>5, <2>7, <3>1 DEF InStep, n
  <2>8. QED BY <1>1, <2>6, <2>7
<1>6. CASE m.cycle = 2
  <2>1. n.cycle = 0 /\ Pointer(n) = After(Pointer(m), m.packet[1], m.packet[2], f[1])
    BY <1>6, ByteOfPacket
  <2> HIDE DEF n
  <2>2. Taken(m, f, 1) = m.packet[1] /\ Taken(m, f, 2) = m.packet[2] /\ Taken(m, f, 3) = f[1]
    BY <1>2, <1>6
  <2>3. CASE all = 3
    <3>1. Len(q) = 0
      BY <1>1, <1>6, <2>3
    <3>2. pos = Pointer(n)
      BY <2>1, <2>2, <2>3 DEF InStep
    <3>3. QED BY <2>1, <3>1, <3>2 DEF InStep, n
  <2>4. CASE all = 6
    <3>1. Len(q) = 3
      <4>1. Len(q) \in Nat /\ Len(f) = Len(q) + 1 /\ m.cycle + Len(f) = 6
        BY <1>1, <2>4
      <4>2. 2 + (Len(q) + 1) = 6
        BY <1>6, <4>1
      <4>3. \A x \in Nat : 2 + (x + 1) = 6 => x = 3
        OBVIOUS
      <4>4. QED BY <4>1, <4>2, <4>3, Zenon
    <3>2. Taken(m, f, 4) = f[2] /\ Taken(m, f, 5) = f[3] /\ Taken(m, f, 6) = f[4]
      BY <1>2, <1>6
    <3>3. Taken(n, q, 1) = q[1] /\ Taken(n, q, 2) = q[2] /\ Taken(n, q, 3) = q[3]
      BY <1>3, <2>1
    <3>4. f[2] = q[1] /\ f[3] = q[2] /\ f[4] = q[3]
      BY <1>4, <3>1
    <3>5. /\ pos = After(Pointer(n), Taken(m, f, 4), Taken(m, f, 5), Taken(m, f, 6))
          /\ Bit(Taken(m, f, 4), 8)
      BY <2>1, <2>2, <2>4 DEF InStep
    <3>6. QED BY <2>1, <3>1, <3>2, <3>3, <3>4, <3>5 DEF InStep, n
  <2>5. QED BY <1>1, <2>3, <2>4
<1>7. QED BY <1>5, <1>6

\* A packet that follows what is under way.
LEMMA PacketFollows ==
  ASSUME NEW m \in MouseType, NEW f, Len(f) \in 0..1, NEW pos, InStep(m, f, pos),
         NEW a, NEW b, NEW c, Bit(a, 8),
         NEW g, Len(g) = Len(f) + 3, \A k \in 1..Len(f) : g[k] = f[k],
         g[Len(f) + 1] = a, g[Len(f) + 2] = b, g[Len(f) + 3] = c
  PROVE  InStep(m, g, After(pos, a, b, c))
<1>1. m.cycle \in 0..2
  BY DEF MouseType
<1>2. \A k \in Int : Taken(m, f, k) = IF k <= m.cycle THEN m.packet[k] ELSE f[k - m.cycle]
  BY DEF Taken
<1>3. \A k \in Int : Taken(m, g, k) = IF k <= m.cycle THEN m.packet[k] ELSE g[k - m.cycle]
  BY DEF Taken
<1>4. CASE m.cycle + Len(f) = 0
  <2>1. m.cycle = 0 /\ Len(f) = 0 /\ pos = Pointer(m)
    BY <1>1, <1>4 DEF InStep
  <2>2. Taken(m, g, 1) = a /\ Taken(m, g, 2) = b /\ Taken(m, g, 3) = c
    BY <1>3, <2>1
  <2>3. QED BY <2>1, <2>2 DEF InStep
<1>5. CASE m.cycle + Len(f) # 0
  <2>1. /\ m.cycle = 2 /\ Len(f) = 1 /\ Bit(Taken(m, f, 1), 8)
        /\ pos = After(Pointer(m), Taken(m, f, 1), Taken(m, f, 2), Taken(m, f, 3))
    BY <1>1, <1>5 DEF InStep
  <2>2. /\ Taken(m, g, 1) = Taken(m, f, 1) /\ Taken(m, g, 2) = Taken(m, f, 2)
        /\ Taken(m, g, 3) = Taken(m, f, 3)
    BY <1>2, <1>3, <2>1
  <2>3. Taken(m, g, 4) = a /\ Taken(m, g, 5) = b /\ Taken(m, g, 6) = c
    BY <1>3, <2>1
  <2>4. QED BY <2>1, <2>2, <2>3 DEF InStep
<1>6. QED BY <1>4, <1>5

StepNames == {"configure", "keyboard", "mouse", "defaults", "poll", "stream", "disk", "sti"}

\* What is left of boot is the end of its steps.
BootInv ==
  /\ boot \in Seq(StepNames) /\ Len(boot) <= 9
  /\ \A i \in 1..Len(boot) : boot[i] = BootSteps[9 - Len(boot) + i]

\* The mouse's byte in the controller, and all that is to come.
First    == IF buffer # Empty /\ buffer[1].aux THEN <<buffer[1].byte>> ELSE <<>>
UnderWay == First \o mouseQ

\* Nothing has been reported yet.
Fresh  == mouse.cycle = 0 /\ moved = Pointer(mouse)
Silent == asked = <<>> /\ First = <<>> /\ mouseQ = <<>> /\ ~streams /\ Fresh

\* The mouse has to reply to the first command: the reply is with it, in its queue, or in the
\* controller.  To the second one it replies before it reports.
RepliesToDefaults ==
  /\ ~streams /\ Fresh
  /\ \/ asked = <<Defaults>> /\ First = <<>> /\ mouseQ = <<>>
     \/ asked = <<>> /\ First = <<>> /\ mouseQ = <<Ack>>
     \/ asked = <<>> /\ First = <<Ack>> /\ mouseQ = <<>>
RepliesToStream ==
  \/ asked = <<Stream>> /\ First = <<>> /\ mouseQ = <<>> /\ ~streams /\ Fresh
  \/ asked = <<>> /\ First = <<>> /\ mouseQ = <<Ack>> /\ Fresh
  \/ asked = <<>> /\ First = <<Ack>> /\ InStep(mouse, mouseQ, moved)

\* As long as mouse_init has read every reply there was, it and the mouse agree on what the
\* next byte is.
Agreed ==
  /\ Len(boot) \in {9, 8, 7, 6} => replies = 0 /\ Silent
  /\ Len(boot) = 5 => replies = 0 /\ RepliesToDefaults
  /\ Len(boot) = 4 => replies \in 0..1 /\ (replies = 1 => Silent)
  /\ Len(boot) = 3 => replies \in 0..1 /\ (replies = 1 => RepliesToStream)
  /\ Len(boot) \in {2, 1, 0} => /\ replies \in 0..2
                                /\ replies = 2 => asked = <<>> /\ InStep(mouse, UnderWay, moved)

MouseBytes == mouse \in MouseType /\ mouseQ \in Seq(Int) /\ First \in Seq(Int)

MouseInv == BootInv /\ MouseBytes /\ Agreed

\* Boot has nine steps.
LEMMA BootLength == BootInv => Len(boot) \in 0..9
<1>1. \A n \in Nat : n <= 9 => n \in 0..9
  OBVIOUS
<1>2. BootInv => Len(boot) \in Nat /\ Len(boot) <= 9
  BY DEF BootInv
<1>3. QED BY <1>1, <1>2, Zenon

\* How many steps are left, n with this one and m after it.
Left(step, n, m) ==
  /\ step = "configure" => n = 9 /\ m = 8
  /\ step = "defaults" => n = 6 /\ m = 5
  /\ step = "poll" => <<n, m>> \in {<<5, 4>>, <<3, 2>>}
  /\ step = "stream" => n = 4 /\ m = 3
  /\ step \in {"keyboard", "mouse", "disk", "sti"} =>
       <<n, m>> \in {<<8, 7>>, <<7, 6>>, <<2, 1>>, <<1, 0>>}

\* Which step it is says how many are left.
LEMMA StepsLeft ==
  ASSUME BootInv, NEW step, Boots(step)
  PROVE  BootInv' /\ Left(step, Len(boot), Len(boot'))
<1>1. boot \in Seq(StepNames) /\ boot # <<>> /\ Head(boot) = step /\ boot' = Tail(boot)
  BY DEF BootInv, Boots
<1>2. /\ Len(boot) \in 1..9 /\ boot' \in Seq(StepNames) /\ Len(boot') = Len(boot) - 1
      /\ step = boot[1]
      /\ \A i \in 1..(Len(boot) - 1) : boot'[i] = boot[i + 1]
  BY <1>1, HeadTailProperties, BootLength
<1>3. step = BootSteps[10 - Len(boot)]
  <2>1. 1 \in 1..Len(boot) /\ 9 - Len(boot) + 1 = 10 - Len(boot)
    BY <1>2
  <2>2. QED BY <1>2, <2>1 DEF BootInv
<1>4. BootInv'
  <2>1. ASSUME NEW i \in 1..Len(boot') PROVE boot'[i] = BootSteps[9 - Len(boot') + i]
    <3>1. /\ i \in 1..(Len(boot) - 1) /\ i + 1 \in 1..Len(boot)
          /\ 9 - Len(boot) + (i + 1) = 9 - Len(boot') + i
      BY <1>2
    <3>2. boot[i + 1] = BootSteps[9 - Len(boot) + (i + 1)]
      BY <3>1 DEF BootInv
    <3>3. QED BY <1>2, <3>1, <3>2
  <2>2. QED BY <1>2, <2>1 DEF BootInv
<1>5. /\ BootSteps[1] = "configure" /\ BootSteps[2] = "keyboard" /\ BootSteps[3] = "mouse"
      /\ BootSteps[4] = "defaults" /\ BootSteps[5] = "poll" /\ BootSteps[6] = "stream"
      /\ BootSteps[7] = "poll" /\ BootSteps[8] = "disk" /\ BootSteps[9] = "sti"
  BY DEF BootSteps
<1>6. \A n \in 1..9 : n = 1 \/ n = 2 \/ n = 3 \/ n = 4 \/ n = 5 \/ n = 6 \/ n = 7 \/ n = 8 \/ n = 9
  OBVIOUS
<1>7. ASSUME NEW n \in 1..9, step = BootSteps[10 - n]
      PROVE  Left(step, n, n - 1)
  <2>1. CASE n = 1
    <3>1. 10 - n = 9 /\ n - 1 = 0
      BY <2>1
    <3>2. QED BY <1>5, <1>7, <2>1, <3>1 DEF Left
  <2>2. CASE n = 2
    <3>1. 10 - n = 8 /\ n - 1 = 1
      BY <2>2
    <3>2. QED BY <1>5, <1>7, <2>2, <3>1 DEF Left
  <2>3. CASE n = 3
    <3>1. 10 - n = 7 /\ n - 1 = 2
      BY <2>3
    <3>2. QED BY <1>5, <1>7, <2>3, <3>1 DEF Left
  <2>4. CASE n = 4
    <3>1. 10 - n = 6 /\ n - 1 = 3
      BY <2>4
    <3>2. QED BY <1>5, <1>7, <2>4, <3>1 DEF Left
  <2>5. CASE n = 5
    <3>1. 10 - n = 5 /\ n - 1 = 4
      BY <2>5
    <3>2. QED BY <1>5, <1>7, <2>5, <3>1 DEF Left
  <2>6. CASE n = 6
    <3>1. 10 - n = 4 /\ n - 1 = 5
      BY <2>6
    <3>2. QED BY <1>5, <1>7, <2>6, <3>1 DEF Left
  <2>7. CASE n = 7
    <3>1. 10 - n = 3 /\ n - 1 = 6
      BY <2>7
    <3>2. QED BY <1>5, <1>7, <2>7, <3>1 DEF Left
  <2>8. CASE n = 8
    <3>1. 10 - n = 2 /\ n - 1 = 7
      BY <2>8
    <3>2. QED BY <1>5, <1>7, <2>8, <3>1 DEF Left
  <2>9. CASE n = 9
    <3>1. 10 - n = 1 /\ n - 1 = 8
      BY <2>9
    <3>2. QED BY <1>5, <1>7, <2>9, <3>1 DEF Left
  <2>10. QED BY <1>6, <2>1, <2>2, <2>3, <2>4, <2>5, <2>6, <2>7, <2>8, <2>9
<1>8. Left(step, Len(boot), Len(boot) - 1)
  BY <1>2, <1>3, <1>7
<1>9. QED BY <1>2, <1>4, <1>8

\* The mouse is silent when the kernel starts.
LEMMA MouseStarts == DevicesInit => MouseInv
<1> SUFFICES ASSUME DevicesInit PROVE MouseInv
  OBVIOUS
<1>1. /\ boot = BootSteps /\ buffer \in {Empty, <<[aux |-> FALSE, byte |-> 30]>>}
      /\ mouseQ = <<>> /\ asked = <<>> /\ streams = FALSE /\ mouse = MouseInit
      /\ replies = 0 /\ moved = Pointer(MouseInit)
  BY DEF DevicesInit, Init, BootSteps
<1>2. First = <<>>
  BY <1>1 DEF First, Empty
<1>3. mouse \in MouseType
  <2>1. FirstWidth \div 2 \in Int /\ FirstHeight \div 2 \in Int
    BY MouseAssumption
  <2>2. ScreenWidth \div 2 \in Int /\ ScreenHeight \div 2 \in Int
    BY ScreenAssumption
  <2>3. <<0, 0, 0>> \in [1..3 -> Int]
    OBVIOUS
  <2>4. QED BY <1>1, <2>1, <2>2, <2>3 DEF MouseInit, MouseType
<1>4. mouse.cycle = 0
  BY <1>1 DEF MouseInit
<1>5. BootInv /\ Len(boot) = 9
  <2>1. BootSteps \in Seq(StepNames) /\ Len(BootSteps) = 9
    BY DEF BootSteps, StepNames
  <2>2. \A i \in 1..9 : BootSteps[i] = BootSteps[9 - 9 + i]
    OBVIOUS
  <2>3. QED BY <1>1, <2>1, <2>2 DEF BootInv
<1>6. MouseBytes
  BY <1>1, <1>2, <1>3 DEF MouseBytes
<1>7. Silent
  BY <1>1, <1>2, <1>4 DEF Silent, Fresh
<1>8. Agreed
  BY <1>1, <1>5, <1>7 DEF Agreed
<1>9. QED BY <1>5, <1>6, <1>8 DEF MouseInv

\* A step that is none of the mouse's.
LEMMA NoMouse ==
  ASSUME MouseInv, UNCHANGED <<boot, mouse, mouseQ, asked, streams, replies, moved>>, First' = First
  PROVE  MouseInv'
<1>1. BootInv' /\ MouseBytes'
  BY DEF MouseInv, BootInv, MouseBytes
<1>2. Fresh' = Fresh /\ UnderWay' = UnderWay
  BY DEF Fresh, UnderWay
<1>3. InStep(mouse, mouseQ, moved)' = InStep(mouse, mouseQ, moved)
  BY DEF InStep, Taken, After
<1>4. InStep(mouse, UnderWay, moved)' = InStep(mouse, UnderWay, moved)
  BY <1>2 DEF InStep, Taken, After
<1>5. /\ Silent' = Silent /\ RepliesToDefaults' = RepliesToDefaults
      /\ RepliesToStream' = RepliesToStream
  BY <1>2, <1>3 DEF Silent, RepliesToDefaults, RepliesToStream
<1>6. Agreed'
  BY <1>4, <1>5 DEF MouseInv, Agreed
<1>7. QED BY <1>1, <1>6 DEF MouseInv

\* The mouse replies to the oldest command.
LEMMA ReplyAgreed ==
  ASSUME MouseInv, Reply
  PROVE  MouseInv'
<1>1. /\ asked # <<>> /\ mouseQ' = Append(mouseQ, Ack) /\ streams' = (Head(asked) = Stream)
      /\ asked' = Tail(asked) /\ UNCHANGED <<boot, buffer, mouse, replies, moved>>
  BY DEF Reply, drivers
<1>2. BootInv' /\ Len(boot') = Len(boot) /\ First' = First /\ Fresh' = Fresh
  BY <1>1 DEF MouseInv, BootInv, First, Fresh
<1>3. MouseBytes'
  <2>1. mouseQ \in Seq(Int) /\ Ack \in Int
    BY DEF MouseInv, MouseBytes, Ack
  <2>2. QED BY <1>1, <1>2, <2>1 DEF MouseInv, MouseBytes
<1>4. asked # <<>> => ~Silent
  BY DEF Silent
<1>5. RepliesToDefaults => RepliesToDefaults'
  <2> SUFFICES ASSUME RepliesToDefaults PROVE RepliesToDefaults'
    OBVIOUS
  <2>1. asked = <<Defaults>> /\ First = <<>> /\ mouseQ = <<>> /\ Fresh
    BY <1>1 DEF RepliesToDefaults
  <2>2. asked' = <<>> /\ mouseQ' = <<Ack>> /\ ~streams'
    <3>1. Head(asked) = Defaults /\ Tail(asked) = <<>> /\ Append(mouseQ, Ack) = <<Ack>>
      BY <2>1
    <3>2. Defaults # Stream
      BY DEF Defaults, Stream
    <3>3. QED BY <1>1, <3>1, <3>2
  <2>3. QED BY <1>2, <2>1, <2>2 DEF RepliesToDefaults
<1>6. RepliesToStream => RepliesToStream'
  <2> SUFFICES ASSUME RepliesToStream PROVE RepliesToStream'
    OBVIOUS
  <2>1. asked = <<Stream>> /\ First = <<>> /\ mouseQ = <<>> /\ Fresh
    BY <1>1 DEF RepliesToStream
  <2>2. asked' = <<>> /\ mouseQ' = <<Ack>>
    BY <1>1, <2>1
  <2>3. QED BY <1>2, <2>1, <2>2 DEF RepliesToStream
<1>7. Agreed'
  BY <1>1, <1>2, <1>4, <1>5, <1>6 DEF MouseInv, Agreed
<1>8. QED BY <1>2, <1>3, <1>7 DEF MouseInv

\* A report is a whole packet, and the pointer it leads to is what the decoder makes of it.
LEMMA ReportAgreed ==
  ASSUME MouseInv, Report
  PROVE  MouseInv'
<1> DEFINE bit(b, mask) == IF b THEN mask ELSE 0
<1>1. PICK p \in Packets :
        /\ mouseQ' = <<8 + bit(p.left, 1) + bit(p.dx < 0, 16) + bit(p.dy < 0, 32) + bit(p.over, 64),
                       p.dx % 256, p.dy % 256>>
        /\ moved' = IF p.over THEN moved
                    ELSE [x |-> Clamp(moved.x + p.dx, ScreenWidth),
                          y |-> Clamp(moved.y - p.dy, ScreenHeight), left |-> p.left]
  BY DEF Report
<1>2. /\ streams /\ mouseQ = <<>> /\ UNCHANGED <<boot, buffer, mouse, replies, asked, streams>>
  BY DEF Report, drivers
<1> DEFINE a == 8 + bit(p.left, 1) + bit(p.dx < 0, 16) + bit(p.dy < 0, 32) + bit(p.over, 64)
           b == p.dx % 256
           c == p.dy % 256
<1>3. p.left \in BOOLEAN /\ p.over \in BOOLEAN /\ p.dx \in -127..127 /\ p.dy \in -127..127
  BY Ps2Assumption
<1>4. b \in Int /\ c \in Int /\ Signed(b) = p.dx /\ Signed(c) = p.dy
  <2>1. ASSUME NEW d \in -127..127 PROVE d % 256 \in Int /\ Signed(d % 256) = d
    BY DEF Signed
  <2>2. b \in Int /\ Signed(b) = p.dx
    <3>1. p.dx \in -127..127
      BY <1>3
    <3>2. QED BY <2>1, <3>1
  <2>3. c \in Int /\ Signed(c) = p.dy
    <3>1. p.dy \in -127..127
      BY <1>3
    <3>2. QED BY <2>1, <3>1
  <2>4. QED BY <2>2, <2>3
<1>5. /\ a \in Int /\ Bit(a, 8) /\ (Bit(a, 1) <=> p.left) /\ (Bit(a, 64) <=> p.over) /\ ~Bit(a, 128)
  <2> DEFINE v(l, x, y, o) == 8 + bit(l, 1) + bit(x, 16) + bit(y, 32) + bit(o, 64)
  <2>1. ASSUME NEW l \in BOOLEAN, NEW x \in BOOLEAN, NEW y \in BOOLEAN, NEW o \in BOOLEAN
        PROVE  /\ v(l, x, y, o) \in Int /\ Bit(v(l, x, y, o), 8) /\ ~Bit(v(l, x, y, o), 128)
               /\ (Bit(v(l, x, y, o), 1) <=> l) /\ (Bit(v(l, x, y, o), 64) <=> o)
    BY <2>1 DEF Bit
  <2>2. a = v(p.left, p.dx < 0, p.dy < 0, p.over)
    OBVIOUS
  <2>3. (p.dx < 0) \in BOOLEAN /\ (p.dy < 0) \in BOOLEAN
    OBVIOUS
  <2> HIDE DEF v, a
  <2>4. PICK l \in BOOLEAN, x \in BOOLEAN, y \in BOOLEAN, o \in BOOLEAN :
          l = p.left /\ o = p.over /\ a = v(l, x, y, o)
    BY <1>3, <2>2, <2>3
  <2>5. QED BY <2>1, <2>4
<1>6. mouseQ' = <<a, b, c>>
  BY <1>1
<1> HIDE DEF a, b, c, bit
<1>7. moved' = After(moved, a, b, c)
  <2>1. Overflow(a) <=> p.over
    BY <1>5 DEF Overflow
  <2>2. Bit(a, 1) = p.left
    BY <1>3, <1>5 DEF Bit
  <2>3. QED BY <1>1, <1>4, <2>1, <2>2 DEF After
<1>8. BootInv' /\ Len(boot') = Len(boot) /\ First' = First
  BY <1>2 DEF MouseInv, BootInv, First
<1>9. MouseBytes'
  <2>1. mouseQ' \in Seq(Int)
    BY <1>4, <1>5, <1>6
  <2>2. QED BY <1>2, <1>8, <2>1 DEF MouseInv, MouseBytes
<1>10. mouse \in MouseType
  BY DEF MouseInv, MouseBytes
<1>11. ~Silent /\ ~RepliesToDefaults
  BY <1>2 DEF Silent, RepliesToDefaults
<1>12. ASSUME NEW f, f \in {<<>>, First}, InStep(mouse, f, moved)
       PROVE  InStep(mouse, f \o mouseQ', moved')
  <2>1. Len(f) \in 0..1
    BY <1>12 DEF First
  <2> DEFINE g == f \o <<a, b, c>>
  <2>2. /\ Len(g) = Len(f) + 3 /\ \A k \in 1..Len(f) : g[k] = f[k]
        /\ g[Len(f) + 1] = a /\ g[Len(f) + 2] = b /\ g[Len(f) + 3] = c
    <3>1. CASE f = <<>>
      BY <3>1
    <3>2. CASE f # <<>>
      <4>1. f = <<buffer[1].byte>>
        BY <1>12, <3>2 DEF First
      <4>2. QED BY <4>1
    <3>3. QED BY <3>1, <3>2
  <2> HIDE DEF g
  <2>3. InStep(mouse, g, After(moved, a, b, c))
    BY <1>5, <1>10, <1>12, <2>1, <2>2, PacketFollows
  <2>4. QED BY <1>6, <1>7, <2>3 DEF g
<1>13. RepliesToStream => RepliesToStream'
  <2> SUFFICES ASSUME RepliesToStream PROVE RepliesToStream'
    OBVIOUS
  <2>1. asked = <<>> /\ First = <<Ack>> /\ InStep(mouse, mouseQ, moved)
    BY <1>2 DEF RepliesToStream
  <2>2. InStep(mouse, <<>> \o mouseQ', moved')
    BY <1>2, <1>12, <2>1
  <2>3. <<>> \o mouseQ' = mouseQ'
    BY <1>6
  <2>4. InStep(mouse, mouseQ, moved)'
    BY <1>2, <2>2, <2>3
  <2>5. QED BY <1>2, <1>8, <2>1, <2>4 DEF RepliesToStream
<1>14. InStep(mouse, UnderWay, moved) => InStep(mouse, UnderWay, moved)'
  <2>1. UnderWay = First
    BY <1>2 DEF UnderWay, First
  <2>2. UnderWay' = First \o mouseQ'
    BY <1>8 DEF UnderWay
  <2>3. QED BY <1>2, <1>12, <2>1, <2>2
<1>15. Agreed'
  BY <1>2, <1>8, <1>11, <1>13, <1>14 DEF MouseInv, Agreed
<1>16. QED BY <1>8, <1>9, <1>15 DEF MouseInv

\* A byte moves from the mouse to the controller.
LEMMA ArrivalAgreed ==
  ASSUME MouseInv, MouseArrives
  PROVE  MouseInv'
<1>1. /\ buffer = Empty /\ mouseQ # <<>> /\ mouseQ' = Tail(mouseQ)
      /\ buffer' = <<[aux |-> TRUE, byte |-> Head(mouseQ)]>>
      /\ UNCHANGED <<boot, asked, streams, mouse, replies, moved>>
  BY DEF MouseArrives, Arrive, drivers
<1>2. mouseQ \in Seq(Int) /\ mouse \in MouseType
  BY DEF MouseInv, MouseBytes
<1>3. First = <<>> /\ First' = <<Head(mouseQ)>>
  BY <1>1 DEF First, Empty
<1>4. BootInv' /\ Len(boot') = Len(boot) /\ Fresh' = Fresh
  BY <1>1 DEF MouseInv, BootInv, Fresh
<1>5. MouseBytes'
  <2>1. Head(mouseQ) \in Int /\ Tail(mouseQ) \in Seq(Int)
    BY <1>1, <1>2, HeadTailProperties
  <2>2. QED BY <1>1, <1>2, <1>3, <2>1 DEF MouseBytes
<1>6. UnderWay' = UnderWay
  <2>1. UnderWay = mouseQ
    BY <1>2, <1>3 DEF UnderWay
  <2>2. <<Head(mouseQ)>> \o Tail(mouseQ) = mouseQ
    BY <1>1, <1>2
  <2>3. QED BY <1>1, <1>3, <2>1, <2>2 DEF UnderWay
<1>7. ~Silent
  BY <1>1 DEF Silent
<1>8. mouseQ = <<Ack>> => First' = <<Ack>> /\ mouseQ' = <<>>
  BY <1>1, <1>3
<1>9. RepliesToDefaults => RepliesToDefaults'
  BY <1>1, <1>3, <1>4, <1>8 DEF RepliesToDefaults
<1>10. RepliesToStream => RepliesToStream'
  <2> SUFFICES ASSUME RepliesToStream PROVE RepliesToStream'
    OBVIOUS
  <2>1. asked = <<>> /\ mouseQ = <<Ack>> /\ Fresh
    BY <1>1, <1>3 DEF RepliesToStream
  <2>2. InStep(mouse, <<>>, moved)
    BY <2>1 DEF Fresh, InStep
  <2>3. InStep(mouse, mouseQ, moved)'
    BY <1>1, <1>8, <2>1, <2>2
  <2>4. QED BY <1>1, <1>8, <2>1, <2>3 DEF RepliesToStream
<1>11. InStep(mouse, UnderWay, moved) => InStep(mouse, UnderWay, moved)'
  BY <1>1, <1>6
<1>12. Agreed'
  BY <1>1, <1>4, <1>7, <1>9, <1>10, <1>11 DEF MouseInv, Agreed
<1>13. QED BY <1>4, <1>5, <1>12 DEF MouseInv

\* A step of boot: a command, a reply that is read or not, and the steps between.
LEMMA BootAgreed ==
  ASSUME MouseInv, Configure \/ EnablePort \/ Order \/ Poll \/ Sti \/ FindDisk
  PROVE  MouseInv'
<1>1. BootInv /\ MouseBytes /\ Agreed
  BY DEF MouseInv
<1>2. UNCHANGED <<mouse, mouseQ, streams, moved>>
  BY DEF Configure, EnablePort, Order, Poll, Sti, FindDisk, devices, drivers
<1>3. Fresh' = Fresh
  BY <1>2 DEF Fresh
<1>4. CASE Configure
  <2>1. Boots("configure") /\ First' = <<>> /\ UNCHANGED <<asked, replies>>
    BY <1>4 DEF Configure, devices, First
  <2>2. BootInv' /\ Len(boot) = 9 /\ Len(boot') = 8
    BY <1>1, <2>1, StepsLeft DEF Left
  <2>3. replies = 0 /\ Silent
    BY <1>1, <2>2 DEF Agreed
  <2>4. Silent'
    BY <1>2, <1>3, <2>1, <2>3 DEF Silent
  <2>5. QED BY <1>1, <1>2, <2>1, <2>2, <2>3, <2>4 DEF MouseInv, MouseBytes, Agreed
<1>5. CASE EnablePort \/ Sti \/ FindDisk
  <2>1. PICK step \in {"keyboard", "mouse", "disk", "sti"} : Boots(step)
    BY <1>5 DEF EnablePort, Sti, FindDisk
  <2>2. buffer' = buffer /\ UNCHANGED <<asked, replies>>
    BY <1>5 DEF EnablePort, Sti, FindDisk, devices
  <2>3. First' = First /\ UnderWay' = UnderWay
    BY <1>2, <2>2 DEF First, UnderWay
  <2>4. BootInv' /\ (\/ Len(boot) = 8 /\ Len(boot') = 7
                     \/ Len(boot) = 7 /\ Len(boot') = 6
                     \/ Len(boot) = 2 /\ Len(boot') = 1
                     \/ Len(boot) = 1 /\ Len(boot') = 0)
    BY <1>1, <2>1, StepsLeft DEF Left
  <2>5. Silent' = Silent
    BY <1>2, <1>3, <2>2, <2>3 DEF Silent
  <2>6. InStep(mouse, UnderWay, moved)' = InStep(mouse, UnderWay, moved)
    BY <1>2, <2>3
  <2>7. MouseBytes'
    BY <1>1, <1>2, <2>3 DEF MouseBytes
  <2>8. CASE Len(boot) \in {8, 7}
    <3>1. replies = 0 /\ Silent
      BY <1>1, <2>8 DEF Agreed
    <3>2. Len(boot') \in {7, 6}
      BY <2>4, <2>8
    <3>3. Agreed'
      BY <2>2, <2>5, <3>1, <3>2 DEF Agreed
    <3>4. QED BY <2>4, <2>7, <3>3 DEF MouseInv
  <2>9. CASE Len(boot) \in {2, 1}
    <3>1. replies \in 0..2 /\ (replies = 2 => asked = <<>> /\ InStep(mouse, UnderWay, moved))
      BY <1>1, <2>9 DEF Agreed
    <3>2. Len(boot') \in {1, 0}
      <4>1. CASE Len(boot) = 2
        BY <2>4, <4>1
      <4>2. CASE Len(boot) = 1
        BY <2>4, <4>2
      <4>3. QED BY <2>9, <4>1, <4>2
    <3>3. replies' \in 0..2 /\ (replies' = 2 => asked' = <<>> /\ InStep(mouse, UnderWay, moved)')
      BY <2>2, <2>6, <3>1
    <3>4. /\ Len(boot') \notin {9, 8, 7, 6} /\ Len(boot') # 5 /\ Len(boot') # 4
          /\ Len(boot') # 3
      <4>1. \A n \in {1, 0} : n \notin {9, 8, 7, 6} /\ n # 5 /\ n # 4 /\ n # 3
        OBVIOUS
      <4>2. QED BY <3>2, <4>1, Zenon
    <3>5. Agreed'
      BY <3>3, <3>4, Zenon DEF Agreed
    <3>6. QED BY <2>4, <2>7, <3>5 DEF MouseInv
  <2>10. QED BY <2>4, <2>8, <2>9
<1>6. CASE Order
  <2>1. UNCHANGED <<buffer, replies>>
    BY <1>6 DEF Order
  <2>2. First' = First
    BY <2>1 DEF First
  <2>3. MouseBytes'
    BY <1>1, <1>2, <2>2 DEF MouseBytes
  <2>4. CASE Boots("defaults") /\ asked' = Append(asked, Defaults)
    <3>1. BootInv' /\ Len(boot) = 6 /\ Len(boot') = 5
      BY <1>1, <2>4, StepsLeft DEF Left
    <3>2. replies = 0 /\ Silent
      BY <1>1, <3>1 DEF Agreed
    <3>3. asked' = <<Defaults>>
      BY <2>4, <3>2 DEF Silent
    <3>4. RepliesToDefaults'
      BY <1>2, <1>3, <2>2, <3>2, <3>3 DEF Silent, RepliesToDefaults
    <3>5. QED BY <2>1, <2>3, <3>1, <3>2, <3>4 DEF MouseInv, Agreed
  <2>5. CASE Boots("stream") /\ asked' = Append(asked, Stream)
    <3>1. BootInv' /\ Len(boot) = 4 /\ Len(boot') = 3
      BY <1>1, <2>5, StepsLeft DEF Left
    <3>2. replies \in 0..1 /\ (replies = 1 => Silent)
      BY <1>1, <3>1 DEF Agreed
    <3>3. Silent => asked' = <<Stream>>
      BY <2>5 DEF Silent
    <3>4. Silent => RepliesToStream'
      BY <1>2, <1>3, <2>2, <3>3 DEF Silent, RepliesToStream
    <3>5. QED BY <2>1, <2>3, <3>1, <3>2, <3>4 DEF MouseInv, Agreed
  <2>6. QED BY <1>6, <2>4, <2>5 DEF Order
<1>7. CASE Poll
  <2>1. /\ Boots("poll") /\ buffer' = Empty /\ asked' = asked
        /\ replies' = IF buffer # Empty /\ buffer[1].aux THEN replies + 1 ELSE replies
    BY <1>7 DEF Poll, devices
  <2>2. First' = <<>> /\ replies' = IF First # <<>> THEN replies + 1 ELSE replies
    BY <2>1 DEF First
  <2>3. MouseBytes'
    BY <1>1, <1>2, <2>2 DEF MouseBytes
  <2>4. BootInv' /\ (\/ Len(boot) = 5 /\ Len(boot') = 4
                     \/ Len(boot) = 3 /\ Len(boot') = 2)
    BY <1>1, <2>1, StepsLeft DEF Left
  <2>5. CASE Len(boot) = 5
    <3>1. replies = 0 /\ RepliesToDefaults
      BY <1>1, <2>5 DEF Agreed
    <3>2. replies' = 1 => First # <<>>
      BY <2>2, <3>1
    <3>3. replies' = 1 => Silent'
      BY <1>2, <1>3, <2>1, <2>2, <3>1, <3>2 DEF RepliesToDefaults, Silent
    <3>4. replies' \in 0..1
      BY <2>2, <3>1
    <3>5. Len(boot') = 4
      BY <2>4, <2>5
    <3>6. QED BY <2>3, <2>4, <3>3, <3>4, <3>5 DEF MouseInv, Agreed
  <2>6. CASE Len(boot) = 3
    <3>1. replies \in 0..1 /\ (replies = 1 => RepliesToStream)
      BY <1>1, <2>6 DEF Agreed
    <3>2. replies' \in 0..2 /\ (replies' = 2 => replies = 1 /\ First # <<>>)
      BY <2>2, <3>1
    <3>3. replies' = 2 => asked = <<>> /\ InStep(mouse, mouseQ, moved)
      BY <3>1, <3>2 DEF RepliesToStream
    <3>4. UnderWay' = mouseQ
      <4>1. mouseQ \in Seq(Int)
        BY <1>1 DEF MouseBytes
      <4>2. QED BY <1>2, <2>2, <4>1 DEF UnderWay
    <3>5. replies' = 2 => InStep(mouse, UnderWay, moved)'
      BY <1>2, <3>3, <3>4
    <3>6. Len(boot') = 2
      BY <2>4, <2>6
    <3>7. QED BY <2>1, <2>3, <2>4, <3>2, <3>3, <3>5, <3>6 DEF MouseInv, Agreed
  <2>7. QED BY <2>4, <2>5, <2>6
<1>8. QED BY <1>4, <1>5, <1>6, <1>7

\* The handler of either interrupt takes the byte that is there, the mouse's or the keyboard's.
LEMMA InterruptAgreed ==
  ASSUME MouseInv, Interrupt
  PROVE  MouseInv'
<1>1. boot = <<>> /\ UNCHANGED <<boot, mouseQ, asked, streams, moved, replies>>
  BY DEF Interrupt, InterruptsOn, devices
<1>2. PICK irq \in raised : Callback(irq)
  BY DEF Interrupt
<1>3. CASE First = <<>>
  <2>1. mouse' = mouse /\ First' = First
    BY <1>2, <1>3 DEF Callback, First, drivers, HandleScancode
  <2>2. QED BY <1>1, <2>1, NoMouse
<1>4. CASE First # <<>>
  <2>1. /\ buffer # Empty /\ buffer[1].aux /\ First = <<buffer[1].byte>>
        /\ buffer' = Empty /\ HandleMouse(buffer[1].byte)
    BY <1>2, <1>4 DEF Callback, First
  <2> DEFINE b == First[1]
  <2>2. b = buffer[1].byte /\ mouse' = MouseByte(mouse, b) /\ First' = <<>>
    BY <2>1 DEF HandleMouse, First
  <2>3. mouse \in MouseType /\ mouseQ \in Seq(Int) /\ b \in Int
    BY <1>4, <2>1 DEF MouseInv, MouseBytes
  <2>4. mouse' \in MouseType
    BY <2>2, <2>3, MouseByteType
  <2>5. UnderWay = <<b>> \o mouseQ /\ UnderWay' = mouseQ
    BY <1>1, <2>1, <2>2, <2>3 DEF UnderWay
  <2> HIDE DEF b
  <2>6. Behind(UnderWay, mouseQ) /\ UnderWay[1] = b
    <3>1. /\ Len(UnderWay) = Len(mouseQ) + 1 /\ UnderWay[1] = b /\ Len(mouseQ) \in Nat
          /\ \A k \in 1..Len(mouseQ) : UnderWay[k + 1] = mouseQ[k]
      BY <2>3, <2>5
    <3>2. QED BY <3>1 DEF Behind
  <2>7. InStep(mouse, UnderWay, moved) => InStep(MouseByte(mouse, b), mouseQ, moved)
    BY <2>3, <2>6, ByteKeepsStep
  <2>8. InStep(mouse, UnderWay, moved) => InStep(mouse, UnderWay, moved)'
    BY <1>1, <2>2, <2>5, <2>7
  <2>9. Len(boot) = 0 /\ Len(boot') = 0 /\ BootInv'
    BY <1>1 DEF MouseInv, BootInv
  <2>10. Agreed'
    BY <1>1, <2>8, <2>9 DEF MouseInv, Agreed
  <2>11. QED BY <1>1, <2>2, <2>3, <2>4, <2>9, <2>10 DEF MouseInv, MouseBytes
<1>5. QED BY <1>3, <1>4

\* No step brings the decoder out of step with the mouse.
LEMMA MouseStep == MouseInv /\ [DevicesNext]_deviceVars => MouseInv'
<1> SUFFICES ASSUME MouseInv, [DevicesNext]_deviceVars PROVE MouseInv'
  OBVIOUS
<1>1. CASE Key \/ ShellStarts \/ UseDisk \/ DiskStep \/ UNCHANGED deviceVars
  <2>1. UNCHANGED <<boot, mouse, mouseQ, asked, streams, replies, moved, buffer>>
    BY <1>1 DEF Key, ShellStarts, UseDisk, DiskStep, deviceVars, ps2Vars, drivers
  <2>2. QED BY <2>1, NoMouse DEF First
<1>2. CASE KeyArrives
  <2>1. /\ UNCHANGED <<boot, mouse, mouseQ, asked, streams, replies, moved>> /\ buffer = Empty
        /\ buffer' = <<[aux |-> FALSE, byte |-> Head(keyQ)]>>
    BY <1>2 DEF KeyArrives, Arrive, drivers
  <2>2. First' = First
    BY <2>1 DEF First
  <2>3. QED BY <2>1, <2>2, NoMouse
<1>3. QED
  BY <1>1, <1>2, ReplyAgreed, ReportAgreed, ArrivalAgreed, BootAgreed, InterruptAgreed
  DEF DevicesNext, Ps2Step

\* Whenever mouse_init has read both replies, the pointer is where the packets led it, once
\* they are through, whatever was polled at boot, and however keys and packets take turns.
THEOREM PacketsAreDecoded == DevicesSpec => []PointerAsMoved
<1>1. MouseInv => PointerAsMoved
  <2> SUFFICES ASSUME MouseInv, boot = <<>>, replies = 2, mouseQ = <<>>,
                      buffer # Empty => ~buffer[1].aux
               PROVE  mouse.cycle = 0 /\ Pointer(mouse) = moved
    BY DEF PointerAsMoved, InterruptsOn
  <2>1. UnderWay = <<>>
    BY DEF UnderWay, First
  <2>2. InStep(mouse, <<>>, moved)
    BY <2>1 DEF MouseInv, Agreed
  <2>3. mouse.cycle \in 0..2
    BY DEF MouseInv, MouseBytes, MouseType
  <2>4. QED BY <2>2, <2>3 DEF InStep
<1>2. QED
  BY <1>1, MouseStarts, MouseStep, PTL DEF DevicesSpec

-----------------------------------------------------------------------------
\* The cursor.

CellType    == {Blank} \cup (Nat \X Int \X Int)
ConsoleType == [x : Int, y : Int, pixel : [PixelRows -> [PixelCols -> CellType]]]

\* The last column and the last row a character is drawn at.
LastX == ScreenWidth - Padding - FontWidth - 1
LastY == ScreenHeight - Padding - FontHeight - 1

\* The cursor is in a box of the screen.
Within(s, right, top, bottom) ==
  /\ s \in ConsoleType
  /\ s.x \in Padding..right
  /\ s.y \in top..bottom

\* A box the text does not leave, wherever the cursor is in it.
Roomy(right, top, bottom) ==
  /\ right \in Int /\ top \in Int /\ bottom \in Int
  /\ LastX + FontWidth <= right /\ top <= Padding /\ LastY <= bottom

\* The margin has room for two characters, and the text area for one.
LEMMA Sizes ==
  /\ FontWidth \in Nat /\ FontHeight \in Nat /\ RowHeight \in Nat /\ Padding \in Nat
  /\ ScreenWidth \in Nat /\ ScreenHeight \in Nat
  /\ FontWidth > 0 /\ FontHeight > 0 /\ RowHeight >= FontHeight /\ Padding >= RowHeight
  /\ Padding >= 2 * FontWidth
  /\ LastX \in Int /\ LastY \in Int /\ Padding <= LastX /\ Padding <= LastY
BY ConsoleAssumption, ScreenAssumption DEF LastX, LastY

\* Drawing and scrolling change pixels only.
LEMMA DrawnType ==
  ASSUME NEW s \in ConsoleType, NEW ch \in Nat
  PROVE  Drawn(s, ch) \in ConsoleType /\ Drawn(s, ch).x = s.x /\ Drawn(s, ch).y = s.y
<1> DEFINE new(r, c) == IF r \in s.y..(s.y + FontHeight - 1) /\ c \in s.x..(s.x + FontWidth - 1)
                        THEN IF ch = Space THEN Blank ELSE <<ch, r - s.y, c - s.x>>
                        ELSE s.pixel[r][c]
           pixel == [r \in PixelRows |-> [c \in PixelCols |-> new(r, c)]]
<1>1. \A r \in PixelRows, c \in PixelCols : new(r, c) \in CellType
  <2> SUFFICES ASSUME NEW r \in PixelRows, NEW c \in PixelCols PROVE new(r, c) \in CellType
    OBVIOUS
  <2>1. s.pixel[r][c] \in CellType
    BY DEF ConsoleType
  <2>2. s.x \in Int /\ s.y \in Int /\ r \in Int /\ c \in Int
    BY DEF ConsoleType, PixelRows, PixelCols
  <2>3. Blank \in CellType /\ <<ch, r - s.y, c - s.x>> \in CellType
    BY <2>2 DEF CellType
  <2>4. QED BY <2>1, <2>3, Zenon
<1>2. Drawn(s, ch) = [s EXCEPT !.pixel = pixel]
  BY Zenon DEF Drawn
<1> HIDE DEF new
<1>3. pixel \in [PixelRows -> [PixelCols -> CellType]]
  BY <1>1
<1> HIDE DEF pixel
<1>4. QED BY <1>2, <1>3 DEF ConsoleType

\* Scrolling reads and writes pixels of the screen only.
LEMMA ScrolledType ==
  ASSUME NEW s \in ConsoleType
  PROVE  Scrolled(s) \in ConsoleType /\ Scrolled(s).x = s.x /\ Scrolled(s).y = s.y
<1> DEFINE new(r, c) == IF c \notin TextCols \/ r \notin Padding..(Bottom - 1) THEN s.pixel[r][c]
                        ELSE IF r < Bottom - RowHeight THEN s.pixel[r + RowHeight][c] ELSE Blank
           pixel == [r \in PixelRows |-> [c \in PixelCols |-> new(r, c)]]
<1>1. \A r \in PixelRows, c \in PixelCols : new(r, c) \in CellType
  <2> SUFFICES ASSUME NEW r \in PixelRows, NEW c \in PixelCols PROVE new(r, c) \in CellType
    OBVIOUS
  <2>1. s.pixel[r][c] \in CellType
    BY DEF ConsoleType
  <2>2. r < Bottom - RowHeight => r + RowHeight \in PixelRows
    BY Sizes DEF Bottom, PixelRows
  <2>3. r < Bottom - RowHeight => s.pixel[r + RowHeight][c] \in CellType
    BY <2>2 DEF ConsoleType
  <2>4. Blank \in CellType
    BY DEF CellType
  <2>5. QED BY <2>1, <2>3, <2>4, Zenon
<1>2. Scrolled(s) = [s EXCEPT !.pixel = pixel]
  BY Zenon DEF Scrolled
<1> HIDE DEF new
<1>3. pixel \in [PixelRows -> [PixelCols -> CellType]]
  BY <1>1
<1> HIDE DEF pixel
<1>4. QED BY <1>2, <1>3 DEF ConsoleType

\* A newline brings the cursor to the margin, and no further down than it was if it was too
\* low already.
LEMMA NewLineWithin ==
  ASSUME NEW right, NEW top, NEW bottom, Roomy(right, top, bottom),
         NEW s, Within(s, right, top, bottom)
  PROVE  Within(NewLine(s), right, top, bottom) /\ NewLine(s).x = Padding
<1> DEFINE low == Lowered(s)
           up  == Scrolled(low)
<1>1. s \in ConsoleType /\ s.x \in Int /\ s.y \in Int /\ s.y \in top..bottom
  BY DEF Within, ConsoleType
<1>2. low \in ConsoleType /\ low.x = Padding /\ low.y = s.y + RowHeight
  <2>1. Padding \in Int /\ s.y + RowHeight \in Int
    BY <1>1, Sizes
  <2>2. low = [s EXCEPT !.x = Padding, !.y = s.y + RowHeight]
    BY DEF Lowered
  <2>3. QED BY <1>1, <2>1, <2>2 DEF ConsoleType
<1>3. TooLow(low) <=> s.y + RowHeight + FontHeight + Padding >= ScreenHeight
  BY <1>2, Zenon DEF TooLow
<1>4. Padding \in Padding..right
  BY Sizes DEF Roomy
<1> HIDE DEF low
<1>5. CASE TooLow(low)
  <2>1. up \in ConsoleType /\ up.x = Padding /\ up.y = s.y + RowHeight
    BY <1>2, ScrolledType
  <2> HIDE DEF up
  <2>2. Raised(up) \in ConsoleType /\ Raised(up).x = Padding /\ Raised(up).y = s.y
    BY <1>1, <2>1, Sizes DEF Raised, ConsoleType
  <2>3. NewLine(s) = Raised(up)
    BY <1>5, Zenon DEF NewLine, low, up
  <2>4. QED BY <1>1, <1>4, <2>2, <2>3, Zenon DEF Within
<1>6. CASE ~TooLow(low)
  <2>1. NewLine(s) = low
    BY <1>6, Zenon DEF NewLine, low
  <2>2. low.y \in top..bottom
    BY <1>1, <1>2, <1>3, <1>6, Sizes DEF Roomy, LastY
  <2>3. QED BY <1>2, <1>4, <2>1, <2>2, Zenon DEF Within
<1>7. QED BY <1>5, <1>6

\* A character is drawn where it fits, and the cursor is behind it.
LEMMA GlyphWithin ==
  ASSUME NEW right, NEW top, NEW bottom, Roomy(right, top, bottom),
         NEW s, Within(s, right, top, bottom), NEW ch \in Nat
  PROVE  Within(Glyph(s, ch), right, top, bottom)
<1> DEFINE t == IF LineFull(s) THEN NewLine(s) ELSE s
           d == Drawn(t, ch)
<1>1. Within(t, right, top, bottom) /\ t.x <= LastX
  <2>1. CASE LineFull(s)
    BY <2>1, NewLineWithin, Sizes
  <2>2. CASE ~LineFull(s)
    <3>1. s.x \in Int
      BY DEF Within, ConsoleType
    <3>2. QED BY <2>2, <3>1, Sizes DEF LineFull, LastX
  <2>3. QED BY <2>1, <2>2
<1> HIDE DEF t
<1>2. d \in ConsoleType /\ d.x = t.x /\ d.y = t.y
  BY <1>1, DrawnType DEF Within
<1> HIDE DEF d
<1>3. Advanced(d) \in ConsoleType /\ Advanced(d).x = t.x + FontWidth /\ Advanced(d).y = t.y
  BY <1>2, Sizes DEF Advanced, ConsoleType
<1>4. t.x \in Int /\ t.x \in Padding..right /\ t.y \in top..bottom
  BY <1>1 DEF Within, ConsoleType
<1>5. t.x + FontWidth \in Padding..right
  BY <1>1, <1>4, Sizes DEF Roomy
<1>6. Glyph(s, ch) = Advanced(d)
  BY Zenon DEF Glyph, d, t
<1>7. QED BY <1>3, <1>4, <1>5, <1>6, Zenon DEF Within

\* A character of any kind leaves the cursor in its box.
LEMMA PutWithin ==
  ASSUME NEW right, NEW top, NEW bottom, Roomy(right, top, bottom),
         NEW s, Within(s, right, top, bottom), NEW ch \in Nat
  PROVE  Within(Put(s, ch), right, top, bottom)
<1>1. Within(NewLine(s), right, top, bottom)
  BY NewLineWithin
<1>2. Within([s EXCEPT !.x = Padding], right, top, bottom)
  BY Sizes DEF Within, ConsoleType, Roomy
<1>3. Within(Back(s), right, top, bottom)
  <2>1. CASE s.x >= Padding + FontWidth
    <3> DEFINE b == [s EXCEPT !.x = @ - FontWidth]
    <3>1. /\ b \in ConsoleType /\ b.x = s.x - FontWidth /\ b.y = s.y
          /\ s.x \in Padding..right /\ s.y \in top..bottom
      BY Sizes DEF Within, ConsoleType
    <3> HIDE DEF b
    <3>2. Space \in Nat
      BY DEF Space
    <3>3. Drawn(b, Space) \in ConsoleType /\ Drawn(b, Space).x = b.x /\ Drawn(b, Space).y = b.y
      BY <3>1, <3>2, DrawnType
    <3>4. s.x - FontWidth \in Padding..right
      BY <2>1, <3>1, Sizes DEF Roomy
    <3>5. Within(Drawn(b, Space), right, top, bottom)
      BY <3>1, <3>3, <3>4, Zenon DEF Within
    <3>6. QED BY <2>1, <3>5, Zenon DEF Back, b
  <2>2. CASE ~(s.x >= Padding + FontWidth)
    BY <2>2, Zenon DEF Back
  <2>3. QED BY <2>1, <2>2
<1>4. Within(Glyph(Glyph(Glyph(Glyph(s, Space), Space), Space), Space), right, top, bottom)
  <2>1. Space \in Nat
    BY DEF Space
  <2>2. \A t : Within(t, right, top, bottom) => Within(Glyph(t, Space), right, top, bottom)
    BY <2>1, GlyphWithin
  <2>3. QED BY <2>2, Zenon
<1>5. Within(Glyph(s, ch), right, top, bottom)
  BY GlyphWithin
<1>6. QED BY <1>1, <1>2, <1>3, <1>4, <1>5, Zenon DEF Put

\* A text is written from its first character to its last: what each keeps, it keeps.
LEMMA PutsKeeps ==
  ASSUME NEW S, NEW s \in S, NEW text, Len(text) \in Nat,
         \A k \in 1..Len(text), t \in S : Put(t, text[k]) \in S
  PROVE  Puts(s, text) \in S
<1> DEFINE N == Len(text)
           P(f) == f = [k \in 0..N |-> IF k = 0 THEN s ELSE Put(f[k - 1], text[k])]
           g == [p \in (1..N) \X S |-> Put(p[2], text[p[1]])]
           f == CHOOSE f : P(f)
<1>1. N \in Nat /\ s \in S
  OBVIOUS
<1>2. \A k \in 1..N, t \in S : Put(t, text[k]) \in S
  OBVIOUS
<1> HIDE DEF N
<1>3. g \in [(1..N) \X S -> S]
  BY <1>2
<1>4. \A k \in 1..N, t \in S : g[<<k, t>>] = Put(t, text[k])
  OBVIOUS
<1> HIDE DEF g
<1>5. PICK h \in [0..N -> S] : Follows(h, N, s, g)
  BY <1>1, <1>3, RecursionExists
<1>6. h = [k \in 0..N |-> IF k = 0 THEN s ELSE Put(h[k - 1], text[k])]
  <2>1. \A k \in 1..N : k - 1 \in 0..N /\ k # 0
    BY <1>1
  <2>2. \A k \in 1..N : h[k] = Put(h[k - 1], text[k])
    BY <1>4, <1>5, <2>1 DEF Follows
  <2>3. h[0] = s
    BY <1>5 DEF Follows
  <2>4. \A k \in 0..N : k = 0 \/ k \in 1..N
    BY <1>1
  <2>5. \A k \in 0..N : h[k] = IF k = 0 THEN s ELSE Put(h[k - 1], text[k])
    BY <2>1, <2>2, <2>3, <2>4
  <2>6. QED BY <1>5, <2>5
<1>7. P(f)
  <2>1. P(h)
    BY <1>6
  <2> HIDE DEF P
  <2>2. QED BY <2>1
<1>8. Puts(s, text) = f[N]
  BY DEF Puts, N
<1> HIDE DEF f
<1> DEFINE T == {k \in 0..N : f[k] \in S}
<1>9. 0 \in T
  BY <1>1, <1>7
<1>10. ASSUME NEW k \in 1..N, k - 1 \in T PROVE k \in T
  <2>1. f[k] = Put(f[k - 1], text[k])
    BY <1>7, <1>1
  <2>2. QED BY <1>2, <1>10, <2>1
<1> HIDE DEF T
<1>11. 0..N \subseteq T
  BY <1>1, <1>9, <1>10, Induction
<1>12. N \in T
  BY <1>1, <1>11
<1>13. QED BY <1>8, <1>12 DEF T

\* So a text leaves the cursor in its box.
LEMMA PutsWithin ==
  ASSUME NEW right, NEW top, NEW bottom, Roomy(right, top, bottom),
         NEW s, Within(s, right, top, bottom), NEW text \in Seq(Nat)
  PROVE  Within(Puts(s, text), right, top, bottom)
<1> DEFINE S == {t \in ConsoleType : Within(t, right, top, bottom)}
<1>1. Len(text) \in Nat /\ s \in S
  BY DEF Within
<1>2. ASSUME NEW k \in 1..Len(text), NEW t \in S PROVE Put(t, text[k]) \in S
  <2>1. Within(t, right, top, bottom) /\ text[k] \in Nat
    OBVIOUS
  <2>2. Within(Put(t, text[k]), right, top, bottom)
    BY <2>1, PutWithin
  <2>3. QED BY <2>2 DEF Within
<1> HIDE DEF S
<1>3. Puts(s, text) \in S
  BY <1>1, <1>2, PutsKeeps
<1>4. QED BY <1>3 DEF S

\* Where a step of shell_init's newline has let the cursor be too low, and where the column
\* may still be one character too far.
TooDeep == {"test", "up", "raise"}
Steps   == {"start", "wipe", "next", "down", "lower", "draw", "across", "advance"} \cup TooDeep

FarRight == LastX + FontWidth + IF task.at = "next" THEN FontWidth ELSE 0
Highest  == IF task.at \in TooDeep THEN Padding ELSE Padding - RowHeight
Lowest   == IF task.at \in TooDeep THEN LastY + RowHeight ELSE LastY

\* What shell_init has loaded may be stale when it is stored: the cursor is then where one
\* step from a place it may have been at brings it.
CursorInv ==
  /\ task \in [todo : Seq(Nat), at : Steps, held : Int]
  /\ task.at \notin {"start", "wipe", "next"} => task.todo # <<>>
  /\ Within(console, FarRight, Highest, Lowest)
  /\ task.at = "lower" => task.held \in (Padding - RowHeight)..LastY
  /\ task.at = "raise" => task.held \in Padding..(LastY + RowHeight)
  /\ task.at = "advance" => task.held \in Padding..(LastX + FontWidth)

\* So does clearing the screen.
LEMMA ClearWithin ==
  ASSUME NEW right, NEW top, NEW bottom, Roomy(right, top, bottom)
  PROVE  Within(Clear, right, top, bottom)
<1>1. Clear \in ConsoleType
  BY Sizes DEF Clear, ConsoleType, CellType
<1>2. Clear.x = Padding /\ Clear.y = Padding
  BY DEF Clear
<1>3. Padding \in Padding..right /\ Padding \in top..bottom
  BY Sizes DEF Roomy
<1>4. QED BY <1>1, <1>2, <1>3, Zenon DEF Within

\* The box the cursor is in is one that the text does not leave.
LEMMA RoomyNow == Roomy(FarRight, Highest, Lowest)
BY Sizes DEF Roomy, FarRight, Highest, Lowest

\* A text of some characters is a text of more.
LEMMA MoreTexts ==
  ASSUME NEW A, NEW B, A \subseteq B
  PROVE  Seq(A) \subseteq Seq(B)
OBVIOUS

\* Texts are of numbers.
LEMMA TextTypes ==
  /\ Banner \in Seq(Nat) /\ Prompt \in Seq(Nat) /\ Printable \subseteq Nat
  /\ \A out \in Outputs : out.text \in Seq(Nat)
<1>1. Printable \subseteq Nat /\ Newline \in Nat
  BY DEF Printable, Newline
<1>2. \A out \in Outputs : out.text \in Seq(Nat \ {Return})
  BY ShellAssumption
<1>3. Printable \cup {Newline} \subseteq Nat /\ Nat \ {Return} \subseteq Nat
  BY <1>1
<1>4. /\ Seq(Printable \cup {Newline}) \subseteq Seq(Nat) /\ Seq(Printable) \subseteq Seq(Nat)
      /\ Seq(Nat \ {Return}) \subseteq Seq(Nat)
  BY <1>1, <1>3, MoreTexts, Zenon
<1>5. Banner \in Seq(Nat) /\ Prompt \in Seq(Nat)
  BY <1>4, ShellAssumption
<1>6. \A out \in Outputs : out.text \in Seq(Nat)
  BY <1>2, <1>4
<1>7. QED BY <1>1, <1>5, <1>6

\* The cursor starts at the margin.
LEMMA CursorInit == DevicesInit => CursorInv
<1> SUFFICES ASSUME DevicesInit PROVE CursorInv
  OBVIOUS
<1>1. console = Clear /\ task = [todo |-> Banner \o Prompt, at |-> "start", held |-> 0]
  BY DEF DevicesInit, Init, ShellBoot
<1>2. Banner \o Prompt \in Seq(Nat)
  <2>1. Banner \in Seq(Nat) /\ Prompt \in Seq(Nat)
    BY TextTypes
  <2>2. QED BY <2>1
<1>3. Within(console, FarRight, Highest, Lowest)
  BY <1>1, RoomyNow, ClearWithin
<1>4. QED BY <1>1, <1>2, <1>3 DEF CursorInv, Steps

\* A key, between any two steps of shell_init.
LEMMA KeyWithin ==
  ASSUME CursorInv, NEW ch, HandleChar(ch)
  PROVE  CursorInv'
<1> DEFINE In(s) == Within(s, FarRight, Highest, Lowest)
<1>1. task' = task /\ In(console)
  BY DEF HandleChar, CursorInv
<1>2. \A s, c : c \in Nat /\ In(s) => In(Put(s, c))
  BY RoomyNow, PutWithin
<1>3. \A s, text : text \in Seq(Nat) /\ In(s) => In(Puts(s, text))
  BY RoomyNow, PutsWithin
<1>4. In(Clear)
  BY RoomyNow, ClearWithin
<1>5. Newline \in Nat /\ Backspace \in Nat /\ Printable \subseteq Nat /\ Prompt \in Seq(Nat)
  BY TextTypes DEF Newline, Backspace
<1> HIDE DEF In
<1>6. In(console')
  <2>1. CASE Enter
    <3>1. PICK out \in Outputs :
            console' = Puts(IF line = <<>> THEN Put(console, Newline)
                            ELSE Executed(Put(console, Newline), out), Prompt)
      BY <2>1 DEF Enter
    <3>2. out.text \in Seq(Nat)
      BY TextTypes
    <3>3. In(Put(console, Newline))
      BY <1>1, <1>2, <1>5
    <3>4. In(Executed(Put(console, Newline), out))
      BY <1>3, <1>4, <3>2, <3>3 DEF Executed
    <3>5. QED BY <1>3, <1>5, <3>1, <3>3, <3>4
  <2>2. CASE RubOut
    BY <1>1, <1>2, <1>5, <2>2 DEF RubOut
  <2>3. CASE Type(ch)
    BY <1>1, <1>2, <1>5, <2>3 DEF Type
  <2>4. QED BY <2>1, <2>2, <2>3 DEF HandleChar
<1>7. FarRight' = FarRight /\ Highest' = Highest /\ Lowest' = Lowest
  BY <1>1 DEF FarRight, Highest, Lowest
<1>8. Within(console, FarRight, Highest, Lowest)'
  BY <1>6, <1>7 DEF In, Within
<1>9. QED BY <1>1, <1>8 DEF CursorInv

\* A step of shell_init that leaves the cursor, or sets one of its fields.
LEMMA InitWithin ==
  ASSUME CursorInv, ShellInit
  PROVE  CursorInv'
<1>1. /\ console \in ConsoleType /\ console.x \in Padding..FarRight
      /\ console.y \in Highest..Lowest /\ console.x \in Int /\ console.y \in Int
      /\ task \in [todo : Seq(Nat), at : Steps, held : Int]
      /\ task.at \notin {"start", "wipe", "next"} => task.todo # <<>>
  BY DEF CursorInv, Within, ConsoleType
<1>0. /\ console.x \in Padding..FarRight /\ console.y \in Highest..Lowest
      /\ console.x \in Int /\ console.y \in Int /\ console \in ConsoleType
  BY <1>1
<1>2. /\ FarRight = LastX + FontWidth + IF task.at = "next" THEN FontWidth ELSE 0
      /\ FarRight' = LastX + FontWidth + IF task'.at = "next" THEN FontWidth ELSE 0
      /\ Highest = IF task.at \in TooDeep THEN Padding ELSE Padding - RowHeight
      /\ Highest' = IF task'.at \in TooDeep THEN Padding ELSE Padding - RowHeight
      /\ Lowest = IF task.at \in TooDeep THEN LastY + RowHeight ELSE LastY
      /\ Lowest' = IF task'.at \in TooDeep THEN LastY + RowHeight ELSE LastY
  BY DEF FarRight, Highest, Lowest
<1>3. Within(console, FarRight, Highest, Lowest)' <=>
        /\ console' \in ConsoleType /\ console'.x \in Padding..FarRight'
        /\ console'.y \in Highest'..Lowest'
  BY DEF Within
<1>20. ASSUME task.at # "next"
       PROVE  /\ FarRight = LastX + FontWidth /\ FarRight <= FarRight'
              /\ FarRight \in Int /\ FarRight' \in Int /\ Padding \in Int
  <2>1. FarRight = LastX + FontWidth
    BY <1>20, Sizes DEF FarRight
  <2>2. FarRight' = LastX + FontWidth \/ FarRight' = LastX + FontWidth + FontWidth
    BY Sizes DEF FarRight
  <2>3. QED BY <2>1, <2>2, Sizes
<1>4. ASSUME NEW to \in Steps, task' = [task EXCEPT !.at = to]
      PROVE  task'.at = to /\ task'.todo = task.todo /\ task'.held = task.held
             /\ task' \in [todo : Seq(Nat), at : Steps, held : Int]
  BY <1>1, <1>4
<1>5. CASE Reset \/ Wipe
  <2>1. PICK to \in {"wipe", "next"} : task' = [task EXCEPT !.at = to] /\ console' = console
          /\ task.at \in {"start", "wipe"}
    BY <1>5 DEF Reset, Wipe, Goes
  <2>2. to \in Steps
    BY DEF Steps
  <2>3. task'.at = to /\ task' \in [todo : Seq(Nat), at : Steps, held : Int]
    BY <1>4, <2>1, <2>2
  <2>4. Within(console, FarRight, Highest, Lowest)'
    <3>1. Highest' = Highest /\ Lowest' = Lowest
      BY <1>2, <2>1, <2>3 DEF TooDeep
    <3>2. FarRight <= FarRight' /\ FarRight \in Int /\ FarRight' \in Int /\ Padding \in Int
      BY <1>20, <2>1
    <3>3. console'.x \in Padding..FarRight'
      BY <1>0, <2>1, <3>2
    <3>4. QED BY <1>0, <1>3, <2>1, <3>1, <3>3
  <2>5. QED BY <2>3, <2>4 DEF CursorInv
<1>6. CASE Begin
  <2>1. task.at = "next" /\ task.todo # <<>>
    BY <1>6 DEF Begin, At
  <2>2. CASE console' = [console EXCEPT !.x = Padding] /\ Goes("down")
    <3>1. task' = [task EXCEPT !.at = "down"] /\ "down" \in Steps
      BY <2>2 DEF Goes, Steps
    <3>2. /\ task'.at = "down" /\ task'.todo = task.todo
          /\ task' \in [todo : Seq(Nat), at : Steps, held : Int]
      BY <1>4, <3>1
    <3>3. console' \in ConsoleType /\ console'.x = Padding /\ console'.y = console.y
      <4>1. Padding \in Int
        BY Sizes
      <4>2. QED BY <1>0, <2>2, <4>1 DEF ConsoleType
    <3>4. Within(console, FarRight, Highest, Lowest)'
      BY <1>0, <1>2, <1>3, <2>1, <3>2, <3>3, Sizes DEF TooDeep
    <3>5. QED BY <2>1, <3>2, <3>4 DEF CursorInv
  <2>3. CASE ~LineFull(console) /\ Goes("draw") /\ console' = console
    <3>1. task' = [task EXCEPT !.at = "draw"] /\ "draw" \in Steps
      BY <2>3 DEF Goes, Steps
    <3>2. /\ task'.at = "draw" /\ task'.todo = task.todo
          /\ task' \in [todo : Seq(Nat), at : Steps, held : Int]
      BY <1>4, <3>1
    <3>3. console.x <= LastX
      BY <1>1, <2>3, Sizes DEF LineFull, LastX
    <3>4. Within(console, FarRight, Highest, Lowest)'
      <4>1. Highest' = Highest /\ Lowest' = Lowest /\ FarRight' = LastX + FontWidth
        BY <1>2, <2>1, <3>2, Sizes DEF TooDeep
      <4>2. console.x \in Padding..(LastX + FontWidth)
        BY <1>0, <3>3, Sizes
      <4>3. QED BY <1>0, <1>3, <2>3, <4>1, <4>2
    <3>5. QED BY <2>1, <3>2, <3>4 DEF CursorInv
  <2>4. QED BY <1>6, <2>2, <2>3 DEF Begin
<1>7. CASE LoadDown \/ LoadUp \/ LoadAcross
  <2> DEFINE Loads(now, to, v) == /\ task.at = now /\ console' = console
                                  /\ task' = [task EXCEPT !.at = to, !.held = v]
  <2>1. ASSUME NEW now, NEW to \in Steps, NEW v \in Int, Loads(now, to, v)
        PROVE  /\ task.at = now /\ task'.at = to /\ task'.held = v /\ task'.todo = task.todo
               /\ task' \in [todo : Seq(Nat), at : Steps, held : Int] /\ console' = console
    BY <1>1, <2>1
  <2>2. \/ Loads("down", "lower", console.y) \/ Loads("up", "raise", console.y)
        \/ Loads("across", "advance", console.x)
    BY <1>7 DEF LoadDown, LoadUp, LoadAcross, At
  <2> HIDE DEF Loads
  <2>3. {"lower", "raise", "advance"} \subseteq Steps
    BY DEF Steps, TooDeep
  <2>4. CASE Loads("down", "lower", console.y)
    <3>1. /\ task.at = "down" /\ task'.at = "lower" /\ task'.held = console.y
          /\ task'.todo = task.todo /\ console' = console
          /\ task' \in [todo : Seq(Nat), at : Steps, held : Int]
      BY <1>1, <2>1, <2>3, <2>4
    <3>2. Within(console, FarRight, Highest, Lowest)'
      BY <1>0, <1>2, <1>3, <3>1 DEF TooDeep
    <3>3. task'.held \in (Padding - RowHeight)..LastY
      BY <1>1, <1>2, <3>1 DEF TooDeep
    <3>4. QED BY <1>1, <3>1, <3>2, <3>3 DEF CursorInv, LastX, LastY
  <2>5. CASE Loads("up", "raise", console.y)
    <3>1. /\ task.at = "up" /\ task'.at = "raise" /\ task'.held = console.y
          /\ task'.todo = task.todo /\ console' = console
          /\ task' \in [todo : Seq(Nat), at : Steps, held : Int]
      BY <1>1, <2>1, <2>3, <2>5
    <3>2. Within(console, FarRight, Highest, Lowest)'
      BY <1>0, <1>2, <1>3, <3>1 DEF TooDeep
    <3>3. task'.held \in Padding..(LastY + RowHeight)
      BY <1>1, <1>2, <3>1 DEF TooDeep
    <3>4. QED BY <1>1, <3>1, <3>2, <3>3 DEF CursorInv, LastX, LastY
  <2>6. CASE Loads("across", "advance", console.x)
    <3>1. /\ task.at = "across" /\ task'.at = "advance" /\ task'.held = console.x
          /\ task'.todo = task.todo /\ console' = console
          /\ task' \in [todo : Seq(Nat), at : Steps, held : Int]
      BY <1>1, <2>1, <2>3, <2>6
    <3>2. Within(console, FarRight, Highest, Lowest)'
      BY <1>0, <1>2, <1>3, <3>1 DEF TooDeep
    <3>3. task'.held \in Padding..(LastX + FontWidth)
      BY <1>1, <1>2, <3>1, Sizes
    <3>4. QED BY <1>1, <3>1, <3>2, <3>3 DEF CursorInv, LastX, LastY
  <2>7. QED BY <2>2, <2>4, <2>5, <2>6
<1>8. CASE Lower
  <2>1. /\ task.at = "lower" /\ console' = [console EXCEPT !.y = task.held + RowHeight]
        /\ task' = [task EXCEPT !.at = "test"] /\ "test" \in Steps
    BY <1>8 DEF Lower, At, Goes, Steps, TooDeep
  <2>2. /\ task'.at = "test" /\ task'.todo = task.todo
        /\ task' \in [todo : Seq(Nat), at : Steps, held : Int]
    BY <1>4, <2>1
  <2>3. task.held \in (Padding - RowHeight)..LastY
    BY <2>1 DEF CursorInv
  <2>4. task.held + RowHeight \in Padding..(LastY + RowHeight)
    BY <2>3, Sizes
  <2>5. console' \in ConsoleType /\ console'.x = console.x /\ console'.y = task.held + RowHeight
    <3>1. task.held + RowHeight \in Int
      BY <2>4, Sizes
    <3>2. QED BY <1>1, <2>1, <3>1 DEF ConsoleType
  <2>6. Within(console, FarRight, Highest, Lowest)'
    BY <1>0, <1>2, <1>3, <2>1, <2>2, <2>4, <2>5 DEF TooDeep
  <2>7. QED BY <1>1, <2>1, <2>2, <2>6 DEF CursorInv
<1>9. ASSUME NEW wrapping \in BOOLEAN, Done(wrapping), task.todo # <<>>
      PROVE  /\ task'.at \in {"draw", "next"} /\ task' \in [todo : Seq(Nat), at : Steps, held : Int]
             /\ task'.at # "next" => task'.todo # <<>>
             /\ ~wrapping => task'.at = "next"
  <2>1. {"draw", "next"} \subseteq Steps /\ task.todo \in Seq(Nat)
    BY <1>1 DEF Steps
  <2>2. Tail(task.todo) \in Seq(Nat)
    BY <1>9, <2>1, HeadTailProperties
  <2>3. CASE wrapping
    <3>1. task' = [task EXCEPT !.at = "draw"]
      BY <1>9, <2>3 DEF Done
    <3>2. QED BY <1>4, <1>9, <2>1, <2>3, <3>1
  <2>4. CASE ~wrapping
    <3>1. task' = [task EXCEPT !.at = "next", !.todo = Tail(task.todo)]
      BY <1>9, <2>4 DEF Done
    <3>2. QED BY <1>1, <2>1, <2>2, <2>4, <3>1
  <2>5. QED BY <2>3, <2>4
<1>10. Wrapping \in BOOLEAN /\ FALSE \in BOOLEAN
  BY DEF Wrapping
<1>11. CASE Test
  <2>1. task.at = "test" /\ task.todo # <<>>
    BY <1>1, <1>11 DEF Test, At
  <2>2. CASE TooLow(console) /\ console' = Scrolled(console) /\ Goes("up")
    <3>1. task' = [task EXCEPT !.at = "up"] /\ "up" \in Steps
      BY <2>2 DEF Goes, Steps, TooDeep
    <3>2. /\ task'.at = "up" /\ task'.todo = task.todo
          /\ task' \in [todo : Seq(Nat), at : Steps, held : Int]
      BY <1>4, <3>1
    <3>3. console' \in ConsoleType /\ console'.x = console.x /\ console'.y = console.y
      BY <1>1, <2>2, ScrolledType
    <3>4. Within(console, FarRight, Highest, Lowest)'
      BY <1>0, <1>2, <1>3, <2>1, <3>2, <3>3 DEF TooDeep
    <3>5. QED BY <2>1, <3>2, <3>4 DEF CursorInv
  <2>3. CASE ~TooLow(console) /\ console' = console /\ Done(Wrapping)
    <3>1. /\ task'.at \in {"draw", "next"} /\ task' \in [todo : Seq(Nat), at : Steps, held : Int]
          /\ task'.at # "next" => task'.todo # <<>>
      BY <1>9, <1>10, <2>1, <2>3
    <3>2. console.y <= LastY
      BY <1>1, <2>3, Sizes DEF TooLow, LastY
    <3>3. Within(console, FarRight, Highest, Lowest)'
      BY <1>0, <1>2, <1>3, <2>1, <2>3, <3>1, <3>2, Sizes DEF TooDeep
    <3>4. QED BY <3>1, <3>3 DEF CursorInv
  <2>4. QED BY <1>11, <2>2, <2>3 DEF Test
<1>12. CASE Raise
  <2>1. /\ task.at = "raise" /\ console' = [console EXCEPT !.y = task.held - RowHeight]
        /\ Done(Wrapping) /\ task.todo # <<>>
    BY <1>1, <1>12 DEF Raise, At
  <2>2. /\ task'.at \in {"draw", "next"} /\ task' \in [todo : Seq(Nat), at : Steps, held : Int]
        /\ task'.at # "next" => task'.todo # <<>>
    BY <1>9, <1>10, <2>1
  <2>3. task.held \in Padding..(LastY + RowHeight)
    BY <2>1 DEF CursorInv
  <2>4. task.held - RowHeight \in (Padding - RowHeight)..LastY
    BY <2>3, Sizes
  <2>5. console' \in ConsoleType /\ console'.x = console.x /\ console'.y = task.held - RowHeight
    <3>1. task.held - RowHeight \in Int
      BY <2>4, Sizes
    <3>2. QED BY <1>1, <2>1, <3>1 DEF ConsoleType
  <2>6. Within(console, FarRight, Highest, Lowest)'
    <3>1. Highest' = Padding - RowHeight /\ Lowest' = LastY
      BY <1>2, <2>2 DEF TooDeep
    <3>2. FarRight <= FarRight' /\ FarRight \in Int /\ FarRight' \in Int /\ Padding \in Int
      BY <1>20, <2>1
    <3>3. console'.x \in Padding..FarRight'
      BY <1>0, <2>5, <3>2
    <3>4. QED BY <1>3, <2>4, <2>5, <3>1, <3>3
  <2>7. QED BY <2>2, <2>6 DEF CursorInv
<1>13. CASE Draw
  <2>1. /\ task.at = "draw" /\ console' = Drawn(console, Head(task.todo)) /\ task.todo # <<>>
        /\ task' = [task EXCEPT !.at = "across"] /\ "across" \in Steps
    BY <1>1, <1>13 DEF Draw, At, Goes, Steps
  <2>2. /\ task'.at = "across" /\ task'.todo = task.todo
        /\ task' \in [todo : Seq(Nat), at : Steps, held : Int]
    BY <1>4, <2>1
  <2>3. Head(task.todo) \in Nat
    BY <1>1, <2>1
  <2>4. console' \in ConsoleType /\ console'.x = console.x /\ console'.y = console.y
    BY <1>1, <2>1, <2>3, DrawnType
  <2>5. Within(console, FarRight, Highest, Lowest)'
    BY <1>0, <1>2, <1>3, <2>1, <2>2, <2>4 DEF TooDeep
  <2>6. QED BY <2>1, <2>2, <2>5 DEF CursorInv
<1>14. CASE Advance
  <2>1. /\ task.at = "advance" /\ console' = [console EXCEPT !.x = task.held + FontWidth]
        /\ Done(FALSE) /\ task.todo # <<>>
    BY <1>1, <1>14 DEF Advance, At
  <2>2. task'.at = "next" /\ task' \in [todo : Seq(Nat), at : Steps, held : Int]
    BY <1>9, <1>10, <2>1
  <2>3. task.held \in Padding..(LastX + FontWidth)
    BY <2>1 DEF CursorInv
  <2>4. task.held + FontWidth \in Padding..(LastX + FontWidth + FontWidth)
    BY <2>3, Sizes
  <2>5. console' \in ConsoleType /\ console'.x = task.held + FontWidth /\ console'.y = console.y
    <3>1. task.held + FontWidth \in Int
      BY <2>4, Sizes
    <3>2. QED BY <1>1, <2>1, <3>1 DEF ConsoleType
  <2>6. Within(console, FarRight, Highest, Lowest)'
    BY <1>0, <1>2, <1>3, <2>1, <2>2, <2>4, <2>5 DEF TooDeep
  <2>7. QED BY <2>2, <2>6 DEF CursorInv
<1>15. QED
  BY <1>5, <1>6, <1>7, <1>8, <1>11, <1>12, <1>13, <1>14 DEF ShellInit

\* The shell's state is written by its start in thread 0, and by the keyboard's interrupt.
LEMMA CursorStep == CursorInv /\ [DevicesNext]_deviceVars => CursorInv'
<1> SUFFICES ASSUME CursorInv, [DevicesNext]_deviceVars PROVE CursorInv'
  OBVIOUS
<1>1. CASE UNCHANGED shellVars
  BY <1>1 DEF shellVars, CursorInv, FarRight, Highest, Lowest, Within
<1>2. CASE ShellStarts
  BY <1>2, InitWithin DEF ShellStarts
<1>3. CASE Interrupt
  <2>1. PICK irq \in raised : Callback(irq)
    BY <1>3 DEF Interrupt
  <2>2. UNCHANGED shellVars \/ \E code : HandleScancode(code)
    BY <2>1 DEF Callback, HandleMouse
  <2>3. UNCHANGED shellVars \/ \E ch : HandleChar(ch)
    BY <2>2 DEF HandleScancode
  <2>4. QED BY <1>1, <2>3, KeyWithin
<1>4. CASE Key \/ Reply \/ Report \/ KeyArrives \/ MouseArrives \/ Configure \/ EnablePort
           \/ Order \/ Poll \/ Sti \/ FindDisk \/ UseDisk \/ DiskStep \/ UNCHANGED deviceVars
  <2>1. UNCHANGED shellVars
    BY <1>4 DEF Key, Reply, Report, KeyArrives, MouseArrives, Arrive, Configure, EnablePort,
                Order, Poll, Sti, FindDisk, UseDisk, DiskStep, deviceVars
  <2>2. QED BY <1>1, <2>1
<1>5. QED BY <1>2, <1>3, <1>4 DEF DevicesNext, Ps2Step

\* The cursor and what is drawn at it stay on the screen, on every screen with room for one
\* character, and whatever keys come between the load and the store of its fields.
THEOREM CursorStays == DevicesSpec => []CursorOnScreen
<1>1. CursorInv => CursorOnScreen
  <2> SUFFICES ASSUME CursorInv PROVE CursorOnScreen
    OBVIOUS
  <2>1. Within(console, FarRight, Highest, Lowest)
    BY DEF CursorInv
  <2>2. console.x \in Padding..FarRight /\ console.y \in Highest..Lowest
    BY <2>1 DEF Within
  <2>3. /\ FarRight <= ScreenWidth - FontWidth /\ FarRight \in Int
        /\ 0 <= Highest /\ Lowest <= ScreenHeight - FontHeight /\ Highest \in Int /\ Lowest \in Int
    BY Sizes DEF FarRight, Highest, Lowest, LastX, LastY
  <2>4. QED BY <2>2, <2>3, Sizes DEF CursorOnScreen
<1>2. QED
  BY <1>1, CursorInit, CursorStep, PTL DEF DevicesSpec

-----------------------------------------------------------------------------
\* The line.

\* What is behind the cursor: the rest of its line from column x on, and the lines below.
Blanks(s, x, y) ==
  \A r \in y..(Bottom - 1), c \in TextCols :
    r >= y + FontHeight \/ c >= x => s.pixel[r][c] = Blank

\* The cursor is in the text area, and nothing is behind it.
Neat(s) == Within(s, LastX + FontWidth, Padding, LastY) /\ Blanks(s, s.x, s.y)

\* The text area is on the screen.
LEMMA TextArea ==
  /\ Bottom \in Int /\ LastY + FontHeight + 1 = Bottom
  /\ \A r \in Padding..(Bottom - 1) : r \in PixelRows /\ r \in Int
  /\ \A c \in TextCols : c \in PixelCols /\ c \in Int /\ c >= Padding
  /\ \A c \in Padding..(LastX + FontWidth) : c \in TextCols
BY Sizes DEF Bottom, LastX, LastY, PixelRows, PixelCols, TextCols

\* The pixels of a character, and those beside it.
LEMMA DrawnPixels ==
  ASSUME NEW s \in ConsoleType, NEW ch \in Nat
  PROVE  \A r \in PixelRows, c \in PixelCols :
           Drawn(s, ch).pixel[r][c]
             = IF r \in s.y..(s.y + FontHeight - 1) /\ c \in s.x..(s.x + FontWidth - 1)
               THEN IF ch = Space THEN Blank ELSE <<ch, r - s.y, c - s.x>>
               ELSE s.pixel[r][c]
<1> DEFINE new(r, c) == IF r \in s.y..(s.y + FontHeight - 1) /\ c \in s.x..(s.x + FontWidth - 1)
                        THEN IF ch = Space THEN Blank ELSE <<ch, r - s.y, c - s.x>>
                        ELSE s.pixel[r][c]
           pixel == [r \in PixelRows |-> [c \in PixelCols |-> new(r, c)]]
<1>1. Drawn(s, ch) = [s EXCEPT !.pixel = pixel]
  BY Zenon DEF Drawn
<1>2. \A r \in PixelRows, c \in PixelCols : pixel[r][c] = new(r, c)
  OBVIOUS
<1> HIDE DEF new, pixel
<1>3. Drawn(s, ch).pixel = pixel
  BY <1>1 DEF ConsoleType
<1>4. QED BY <1>2, <1>3 DEF new

\* Beside its columns nothing changes.
LEMMA BesideDrawn ==
  ASSUME NEW s \in ConsoleType, NEW ch \in Nat
  PROVE  \A r \in PixelRows, c \in PixelCols :
           c \notin s.x..(s.x + FontWidth - 1) => Drawn(s, ch).pixel[r][c] = s.pixel[r][c]
<1> SUFFICES ASSUME NEW r \in PixelRows, NEW c \in PixelCols, c \notin s.x..(s.x + FontWidth - 1)
             PROVE  Drawn(s, ch).pixel[r][c] = s.pixel[r][c]
  OBVIOUS
<1> DEFINE p == Drawn(s, ch).pixel[r][c]
<1>1. p = IF r \in s.y..(s.y + FontHeight - 1) /\ c \in s.x..(s.x + FontWidth - 1)
          THEN IF ch = Space THEN Blank ELSE <<ch, r - s.y, c - s.x>>
          ELSE s.pixel[r][c]
  BY DrawnPixels
<1> HIDE DEF p
<1>2. p = s.pixel[r][c]
  BY <1>1, Zenon
<1>3. QED BY <1>2 DEF p

\* The pixels of the text area after scrolling.
LEMMA ScrolledPixels ==
  ASSUME NEW s \in ConsoleType
  PROVE  \A r \in Padding..(Bottom - 1), c \in TextCols :
           Scrolled(s).pixel[r][c]
             = IF r < Bottom - RowHeight THEN s.pixel[r + RowHeight][c] ELSE Blank
<1> DEFINE new(r, c) == IF c \notin TextCols \/ r \notin Padding..(Bottom - 1) THEN s.pixel[r][c]
                        ELSE IF r < Bottom - RowHeight THEN s.pixel[r + RowHeight][c] ELSE Blank
           pixel == [r \in PixelRows |-> [c \in PixelCols |-> new(r, c)]]
<1>1. Scrolled(s) = [s EXCEPT !.pixel = pixel]
  BY Zenon DEF Scrolled
<1>2. \A r \in PixelRows, c \in PixelCols : pixel[r][c] = new(r, c)
  OBVIOUS
<1> HIDE DEF new, pixel
<1>3. Scrolled(s).pixel = pixel
  BY <1>1 DEF ConsoleType
<1>4. \A r \in Padding..(Bottom - 1), c \in TextCols :
         new(r, c) = IF r < Bottom - RowHeight THEN s.pixel[r + RowHeight][c] ELSE Blank
  BY DEF new
<1>5. QED BY <1>2, <1>3, <1>4, TextArea

\* A character takes the first column that was blank.
LEMMA DrawnBlanks ==
  ASSUME NEW s \in ConsoleType, NEW ch \in Nat, s.y >= Padding, Blanks(s, s.x, s.y)
  PROVE  Blanks(Drawn(s, ch), s.x + FontWidth, s.y)
<1>1. s.x \in Int /\ s.y \in Int
  BY DEF ConsoleType
<1> SUFFICES ASSUME NEW r \in s.y..(Bottom - 1), NEW c \in TextCols,
                    r >= s.y + FontHeight \/ c >= s.x + FontWidth
             PROVE  Drawn(s, ch).pixel[r][c] = Blank
  BY DEF Blanks
<1>2. r \in Padding..(Bottom - 1) /\ r \in Int /\ c \in Int
  BY <1>1, TextArea, Sizes
<1>3. r \in PixelRows /\ c \in PixelCols
  BY <1>2, TextArea
<1>4. ~(r \in s.y..(s.y + FontHeight - 1) /\ c \in s.x..(s.x + FontWidth - 1))
  BY <1>1, <1>2, Sizes
<1>5. Drawn(s, ch).pixel[r][c] = s.pixel[r][c]
  BY <1>3, <1>4, DrawnPixels
<1>6. r >= s.y + FontHeight \/ c >= s.x
  BY <1>1, <1>2, Sizes
<1>7. QED BY <1>5, <1>6 DEF Blanks

\* A space gives it back.
LEMMA WipedBlanks ==
  ASSUME NEW s \in ConsoleType, s.y >= Padding, Blanks(s, s.x + FontWidth, s.y)
  PROVE  Blanks(Drawn(s, Space), s.x, s.y)
<1>1. s.x \in Int /\ s.y \in Int /\ Space \in Nat
  BY DEF ConsoleType, Space
<1> SUFFICES ASSUME NEW r \in s.y..(Bottom - 1), NEW c \in TextCols,
                    r >= s.y + FontHeight \/ c >= s.x
             PROVE  Drawn(s, Space).pixel[r][c] = Blank
  BY DEF Blanks
<1>2. r \in Padding..(Bottom - 1) /\ r \in Int /\ c \in Int
  BY <1>1, TextArea, Sizes
<1>3. r \in PixelRows /\ c \in PixelCols
  BY <1>2, TextArea
<1>4. CASE r \in s.y..(s.y + FontHeight - 1) /\ c \in s.x..(s.x + FontWidth - 1)
  BY <1>1, <1>3, <1>4, DrawnPixels
<1>5. CASE ~(r \in s.y..(s.y + FontHeight - 1) /\ c \in s.x..(s.x + FontWidth - 1))
  <2>1. Drawn(s, Space).pixel[r][c] = s.pixel[r][c]
    BY <1>1, <1>3, <1>5, DrawnPixels
  <2>2. r >= s.y + FontHeight \/ c >= s.x + FontWidth
    BY <1>1, <1>2, <1>5, Sizes
  <2>3. QED BY <2>1, <2>2 DEF Blanks
<1>6. QED BY <1>4, <1>5

\* Scrolling moves the blank lines up and adds one.
LEMMA ScrolledBlanks ==
  ASSUME NEW s \in ConsoleType, NEW y \in Int, y >= Padding + RowHeight, Blanks(s, Padding, y)
  PROVE  Blanks(Scrolled(s), Padding, y - RowHeight)
<1> SUFFICES ASSUME NEW r \in (y - RowHeight)..(Bottom - 1), NEW c \in TextCols
             PROVE  Scrolled(s).pixel[r][c] = Blank
  BY DEF Blanks
<1>1. r \in Padding..(Bottom - 1) /\ r \in Int
  BY TextArea, Sizes
<1>2. CASE r < Bottom - RowHeight
  <2>1. r + RowHeight \in y..(Bottom - 1) /\ c >= Padding
    BY <1>1, <1>2, TextArea, Sizes
  <2>2. s.pixel[r + RowHeight][c] = Blank
    BY <2>1 DEF Blanks
  <2>3. QED BY <1>1, <1>2, <2>2, ScrolledPixels
<1>3. CASE ~(r < Bottom - RowHeight)
  BY <1>1, <1>3, ScrolledPixels
<1>4. QED BY <1>2, <1>3

\* What is blank behind a column is blank behind a later one.
LEMMA FewerBlanks ==
  ASSUME NEW s, NEW x \in Int, NEW y \in Int, NEW z \in Int, x <= z, Blanks(s, x, y)
  PROVE  Blanks(s, z, y)
BY TextArea DEF Blanks

\* The line below has none of this line's glyphs.
LEMMA BlanksBelow ==
  ASSUME NEW s, NEW y \in Int, NEW x \in Int, Blanks(s, x, y)
  PROVE  Blanks(s, Padding, y + RowHeight)
<1> SUFFICES ASSUME NEW r \in (y + RowHeight)..(Bottom - 1), NEW c \in TextCols
             PROVE  s.pixel[r][c] = Blank
  BY DEF Blanks
<1>1. r \in y..(Bottom - 1) /\ r >= y + FontHeight
  BY Sizes, TextArea
<1>2. QED BY <1>1 DEF Blanks

\* Only pixels matter.
LEMMA SameBlanks ==
  ASSUME NEW s, NEW t, NEW x, NEW y, s.pixel = t.pixel, Blanks(s, x, y)
  PROVE  Blanks(t, x, y)
BY DEF Blanks

\* The text area is a box that text does not leave.
LEMMA RoomyText ==
  /\ Roomy(LastX + FontWidth, Padding, LastY)
  /\ LastX + FontWidth \in Int /\ Padding \in Int /\ LastY \in Int
BY Sizes DEF Roomy

\* A screen that is cleared is blank.
LEMMA ClearNeat == Neat(Clear)
<1>1. Within(Clear, LastX + FontWidth, Padding, LastY)
  BY RoomyText, ClearWithin
<1>2. Clear.y = Padding /\ \A r \in PixelRows, c \in PixelCols : Clear.pixel[r][c] = Blank
  BY DEF Clear
<1>3. Blanks(Clear, Clear.x, Clear.y)
  BY <1>2, TextArea DEF Blanks
<1>4. QED BY <1>1, <1>3 DEF Neat

\* After a newline nothing is behind the cursor, wherever it was in its line.
LEMMA NewLineNeat ==
  ASSUME NEW s, Within(s, LastX + FontWidth, Padding, LastY), NEW z \in Int, Blanks(s, z, s.y)
  PROVE  Neat(NewLine(s)) /\ NewLine(s).x = Padding
<1> DEFINE low == Lowered(s)
           up  == Scrolled(low)
           y   == s.y + RowHeight
<1>1. s \in ConsoleType /\ s.y \in Int /\ s.y >= Padding
  BY Sizes DEF Within, ConsoleType
<1>2. Within(NewLine(s), LastX + FontWidth, Padding, LastY) /\ NewLine(s).x = Padding
  BY RoomyText, NewLineWithin
<1>3. low \in ConsoleType /\ low.pixel = s.pixel /\ low.y = y /\ low.x = Padding
  <2>1. Padding \in Int /\ s.y + RowHeight \in Int
    BY <1>1, Sizes
  <2>2. low = [s EXCEPT !.x = Padding, !.y = s.y + RowHeight]
    BY DEF Lowered
  <2>3. QED BY <1>1, <2>1, <2>2 DEF ConsoleType
<1>4. y \in Int /\ y >= Padding + RowHeight /\ y - RowHeight = s.y
  BY <1>1, Sizes
<1> HIDE DEF low
<1>5. Blanks(low, Padding, y)
  <2>1. Blanks(s, Padding, y)
    BY <1>1, BlanksBelow
  <2> HIDE DEF y
  <2>2. QED BY <1>3, <2>1, SameBlanks
<1> HIDE DEF y
<1>6. CASE TooLow(low)
  <2>1. Blanks(up, Padding, s.y)
    BY <1>3, <1>4, <1>5, ScrolledBlanks
  <2>2. up \in ConsoleType /\ up.y = y
    BY <1>3, ScrolledType
  <2> HIDE DEF up
  <2>3. Raised(up).pixel = up.pixel /\ Raised(up).y = s.y
    BY <1>4, <2>2 DEF Raised, ConsoleType
  <2>4. NewLine(s) = Raised(up)
    BY <1>6, Zenon DEF NewLine, low, up
  <2>5. Blanks(NewLine(s), Padding, s.y)
    BY <2>1, <2>3, <2>4, SameBlanks
  <2>6. QED BY <1>2, <2>3, <2>4, <2>5, Zenon DEF Neat
<1>7. CASE ~TooLow(low)
  <2>1. NewLine(s) = low
    BY <1>7, Zenon DEF NewLine, low
  <2>2. QED BY <1>2, <1>3, <1>5, <2>1, Zenon DEF Neat
<1>8. QED BY <1>6, <1>7

\* A character drawn in the line of the cursor leaves nothing behind the cursor.
LEMMA AdvancedNeat ==
  ASSUME NEW s, Neat(s), s.x <= LastX, NEW ch \in Nat
  PROVE  /\ Neat(Advanced(Drawn(s, ch)))
         /\ Advanced(Drawn(s, ch)).x = s.x + FontWidth /\ Advanced(Drawn(s, ch)).y = s.y
         /\ Advanced(Drawn(s, ch)).pixel = Drawn(s, ch).pixel
<1> DEFINE d == Drawn(s, ch)
<1>1. /\ s \in ConsoleType /\ s.x \in Int /\ s.y \in Int /\ s.y >= Padding
      /\ s.x \in Padding..(LastX + FontWidth) /\ s.y \in Padding..LastY
      /\ Blanks(s, s.x, s.y)
  BY Sizes DEF Neat, Within, ConsoleType
<1>2. d \in ConsoleType /\ d.x = s.x /\ d.y = s.y
  BY <1>1, DrawnType
<1>3. Blanks(d, s.x + FontWidth, s.y)
  BY <1>1, DrawnBlanks
<1> HIDE DEF d
<1>4. /\ Advanced(d) \in ConsoleType /\ Advanced(d).x = s.x + FontWidth /\ Advanced(d).y = s.y
      /\ Advanced(d).pixel = d.pixel
  BY <1>2, Sizes DEF Advanced, ConsoleType
<1>5. s.x + FontWidth \in Padding..(LastX + FontWidth)
  BY <1>1, Sizes
<1>6. Within(Advanced(d), LastX + FontWidth, Padding, LastY)
  BY <1>1, <1>4, <1>5, Zenon DEF Within
<1>7. Blanks(Advanced(d), s.x + FontWidth, s.y)
  BY <1>3, <1>4, SameBlanks
<1>8. Neat(Advanced(d))
  BY <1>4, <1>6, <1>7, Zenon DEF Neat
<1>9. QED BY <1>4, <1>8 DEF d

\* So does one that may have to go to the next line.
LEMMA GlyphNeat ==
  ASSUME NEW s, Neat(s), NEW ch \in Nat
  PROVE  Neat(Glyph(s, ch))
<1> DEFINE t == IF LineFull(s) THEN NewLine(s) ELSE s
<1>1. Within(s, LastX + FontWidth, Padding, LastY) /\ s.x \in Int /\ Blanks(s, s.x, s.y)
  BY DEF Neat, Within, ConsoleType
<1>2. CASE LineFull(s)
  <2>1. Neat(NewLine(s)) /\ NewLine(s).x <= LastX
    BY <1>1, NewLineNeat, Sizes
  <2>2. QED BY <1>2, <2>1, AdvancedNeat DEF Glyph
<1>3. CASE ~LineFull(s)
  <2>1. s.x <= LastX
    BY <1>1, <1>3, Sizes DEF LineFull, LastX
  <2>2. QED BY <1>3, <2>1, AdvancedNeat DEF Glyph
<1>4. QED BY <1>2, <1>3

\* Rubbing out blanks what was in front of the cursor.
LEMMA BackNeat ==
  ASSUME NEW s, Neat(s)
  PROVE  Neat(Back(s))
<1>1. /\ s \in ConsoleType /\ s.x \in Int /\ s.y \in Int /\ s.y >= Padding
      /\ s.x \in Padding..(LastX + FontWidth) /\ s.y \in Padding..LastY
      /\ Blanks(s, s.x, s.y)
  BY Sizes DEF Neat, Within, ConsoleType
<1>2. CASE s.x >= Padding + FontWidth
  <2> DEFINE b == [s EXCEPT !.x = @ - FontWidth]
             d == Drawn(b, Space)
  <2>1. b \in ConsoleType /\ b.x = s.x - FontWidth /\ b.y = s.y /\ b.pixel = s.pixel
    BY <1>1, Sizes DEF ConsoleType
  <2> HIDE DEF b
  <2>2. b.x + FontWidth = s.x /\ b.x \in Padding..(LastX + FontWidth)
    BY <1>1, <1>2, <2>1, Sizes
  <2>3. Blanks(b, b.x + FontWidth, b.y)
    BY <1>1, <2>1, <2>2, SameBlanks
  <2>4. b.y >= Padding
    BY <1>1, <2>1
  <2>5. Blanks(d, b.x, b.y)
    BY <2>1, <2>3, <2>4, WipedBlanks
  <2>6. Space \in Nat
    BY DEF Space
  <2>7. d \in ConsoleType /\ d.x = b.x /\ d.y = b.y
    BY <2>1, <2>6, DrawnType
  <2>8. Back(s) = d
    BY <1>2, Zenon DEF Back, b
  <2> HIDE DEF d
  <2>9. Within(d, LastX + FontWidth, Padding, LastY)
    BY <1>1, <2>1, <2>2, <2>7, Zenon DEF Within
  <2>10. QED BY <2>5, <2>7, <2>8, <2>9, Zenon DEF Neat
<1>3. CASE ~(s.x >= Padding + FontWidth)
  BY <1>3, Zenon DEF Back
<1>4. QED BY <1>2, <1>3

\* Every character but a carriage return leaves nothing behind the cursor.
LEMMA PutNeat ==
  ASSUME NEW s, Neat(s), NEW ch \in Nat \ {Return}
  PROVE  Neat(Put(s, ch))
<1>1. Neat(NewLine(s))
  <2>1. Within(s, LastX + FontWidth, Padding, LastY) /\ s.x \in Int /\ Blanks(s, s.x, s.y)
    BY DEF Neat, Within, ConsoleType
  <2>2. QED BY <2>1, NewLineNeat
<1>2. Neat(Back(s))
  BY BackNeat
<1>3. Neat(Glyph(Glyph(Glyph(Glyph(s, Space), Space), Space), Space))
  <2>1. Space \in Nat
    BY DEF Space
  <2>2. \A t : Neat(t) => Neat(Glyph(t, Space))
    BY <2>1, GlyphNeat
  <2>3. QED BY <2>2, Zenon
<1>4. Neat(Glyph(s, ch))
  BY GlyphNeat
<1>5. ch # Return
  OBVIOUS
<1>6. QED BY <1>1, <1>2, <1>3, <1>4, <1>5, Zenon DEF Put

\* So does a text.
LEMMA PutsNeat ==
  ASSUME NEW s, Neat(s), NEW text \in Seq(Nat \ {Return})
  PROVE  Neat(Puts(s, text))
<1> DEFINE S == {t \in ConsoleType : Neat(t)}
<1>1. Len(text) \in Nat /\ s \in S
  BY DEF Neat, Within
<1>2. ASSUME NEW k \in 1..Len(text), NEW t \in S PROVE Put(t, text[k]) \in S
  <2>1. Neat(t) /\ text[k] \in Nat \ {Return}
    OBVIOUS
  <2>2. Neat(Put(t, text[k]))
    BY <2>1, PutNeat
  <2>3. QED BY <2>2 DEF Neat, Within
<1> HIDE DEF S
<1>3. Puts(s, text) \in S
  BY <1>1, <1>2, PutsKeeps
<1>4. QED BY <1>3 DEF S

\* The line that was typed stands on the screen from the place b on, up to the cursor.
Typed(s, l, b) ==
  /\ l \in Seq(Printable) /\ b \in Int \X Int
  /\ b[1] >= Padding /\ b[2] = s.y
  /\ s.x = b[1] + Len(l) * FontWidth
  /\ \A i \in 1..Len(l), r \in 0..(FontHeight - 1), d \in 0..(FontWidth - 1) :
       s.pixel[s.y + r][b[1] + (i - 1) * FontWidth + d]
         = IF l[i] = Space THEN Blank ELSE <<l[i], r, d>>

\* The columns of n characters.
LEMMA Columns ==
  ASSUME NEW n \in Nat, NEW w \in Nat \ {0}
  PROVE  /\ n * w \in Nat /\ (n + 1) * w = n * w + w
         /\ \A i \in 1..n, d \in 0..(w - 1) : (i - 1) * w + d \in 0..(n * w - 1)
         /\ \A k \in 0..(n * w - 1) : /\ k \div w \in 0..(n - 1) /\ k % w \in 0..(w - 1)
                                      /\ k = (k \div w) * w + (k % w)
<1>1. n * w \in Nat /\ (n + 1) * w = n * w + w
  OBVIOUS
<1>2. ASSUME NEW i \in 1..n, NEW d \in 0..(w - 1) PROVE (i - 1) * w + d \in 0..(n * w - 1)
  <2>1. (i - 1) * w \in Nat /\ (i - 1) * w + w = i * w
    OBVIOUS
  <2>2. n * w = i * w + (n - i) * w /\ (n - i) * w \in Nat /\ i * w \in Nat
    OBVIOUS
  <2>3. QED BY <1>1, <2>1, <2>2
<1>3. ASSUME NEW k \in 0..(n * w - 1)
      PROVE  /\ k \div w \in 0..(n - 1) /\ k % w \in 0..(w - 1) /\ k = (k \div w) * w + (k % w)
  <2> DEFINE q == k \div w
             e == k % w
  <2>0. k \in Nat
    BY <1>1
  <2>1. q \in Nat /\ e \in 0..(w - 1) /\ k = w * q + e
    BY <2>0, Division
  <2> HIDE DEF q, e
  <2>2. q * w = w * q /\ q * w \in Nat
    BY <2>1
  <2>3. ASSUME q >= n PROVE FALSE
    <3>1. q * w = n * w + (q - n) * w /\ (q - n) * w \in Nat
      BY <2>1, <2>3
    <3>2. QED BY <1>1, <2>1, <2>2, <3>1
  <2>4. q \in 0..(n - 1) /\ k = q * w + e
    BY <2>1, <2>2, <2>3
  <2>5. QED BY <2>1, <2>4 DEF q, e
<1>4. QED BY <1>1, <1>2, <1>3

\* Where the glyphs of the line are: in the text area.
LEMMA LinePixels ==
  ASSUME NEW s, Neat(s), NEW r \in 0..(FontHeight - 1)
  PROVE  /\ s.y + r \in s.y..(Bottom - 1) /\ s.y + r \in s.y..(s.y + FontHeight - 1)
         /\ s.y + r \in PixelRows
         /\ \A c \in Padding..(LastX + FontWidth) : c \in PixelCols
<1>1. s.y \in Padding..LastY /\ s.y \in Int
  BY Sizes DEF Neat, Within
<1>2. s.y + r \in Padding..(Bottom - 1) /\ s.y + r \in s.y..(Bottom - 1)
  BY <1>1, TextArea, Sizes
<1>3. s.y + r \in s.y..(s.y + FontHeight - 1)
  BY <1>1, Sizes
<1>4. QED BY <1>2, <1>3, TextArea

\* An empty line begins at the cursor.
LEMMA EmptyTyped ==
  ASSUME NEW s, Neat(s)
  PROVE  Typed(s, <<>>, <<s.x, s.y>>)
<1>1. s.x \in Int /\ s.y \in Int /\ s.x >= Padding
  BY Sizes DEF Neat, Within, ConsoleType
<1>2. Len(<<>>) * FontWidth = 0
  BY Sizes
<1>3. s.x = s.x + Len(<<>>) * FontWidth
  BY <1>1, <1>2
<1>4. QED BY <1>1, <1>3 DEF Typed

\* A character is drawn behind the line.
LEMMA LongerTyped ==
  ASSUME NEW s, Neat(s), s.x <= LastX, NEW ch \in Printable, NEW l, NEW b, Typed(s, l, b)
  PROVE  Typed(Advanced(Drawn(s, ch)), Append(l, ch), b)
<1> DEFINE d == Drawn(s, ch)
           t == Advanced(d)
           n == Len(l)
           m == Append(l, ch)
           w == FontWidth
           Lit(i, r, e) == t.pixel[s.y + r][b[1] + (i - 1) * w + e]
                            = IF m[i] = Space THEN Blank ELSE <<m[i], r, e>>
<1>1. ch \in Nat
  BY DEF Printable
<1>2. /\ l \in Seq(Printable) /\ b \in Int \X Int /\ b[1] >= Padding /\ b[2] = s.y
      /\ s.x = b[1] + n * w
  BY DEF Typed
<1>3. t.x = s.x + w /\ t.y = s.y /\ t.pixel = d.pixel
  BY <1>1, AdvancedNeat
<1>4. /\ s \in ConsoleType /\ s.x \in Int /\ s.y \in Int /\ s.x \in Padding..(LastX + FontWidth)
  BY DEF Neat, Within, ConsoleType
<1>5. /\ m \in Seq(Printable) /\ Len(m) = n + 1 /\ n \in Nat /\ m[n + 1] = ch
      /\ \A i \in 1..n : m[i] = l[i]
  BY <1>2
<1>6. /\ n * w \in Nat /\ (n + 1) * w = n * w + w /\ w \in Nat /\ w > 0
      /\ \A i \in 1..n, e \in 0..(w - 1) : (i - 1) * w + e \in 0..(n * w - 1)
  BY <1>5, Columns, Sizes
<1>7. b[1] \in Int
  BY <1>2
<1> HIDE DEF t, m
<1>7a. \A r \in PixelRows, c \in PixelCols :
          c \notin s.x..(s.x + FontWidth - 1) => d.pixel[r][c] = s.pixel[r][c]
  BY <1>1, <1>4, BesideDrawn
<1>8. ASSUME NEW i \in 1..n, NEW r \in 0..(FontHeight - 1), NEW e \in 0..(w - 1)
      PROVE  Lit(i, r, e)
  <2> DEFINE c == b[1] + (i - 1) * w + e
  <2>1. (i - 1) * w + e \in 0..(n * w - 1)
    BY <1>6
  <2>2. (i - 1) * w \in Int
    BY <1>5, <1>6
  <2>3. c \in Padding..(s.x - 1)
    <3> DEFINE k == (i - 1) * w
               m0 == n * w
    <3>1. k \in Int /\ k + e \in 0..(m0 - 1) /\ m0 \in Int /\ e \in Int
      BY <1>6, <2>1, <2>2
    <3>2. /\ c = b[1] + k + e
          /\ s.x = b[1] + m0
      BY <1>2
    <3> HIDE DEF k, m0
    <3>3. c = b[1] + (k + e)
      BY <1>7, <3>1, <3>2
    <3>4. \A p, a, q \in Int : \A j \in 0..(q - 1) : a >= p => a + j \in p..(a + q - 1)
      OBVIOUS
    <3>5. b[1] >= Padding /\ Padding \in Int /\ b[1] \in Int
      BY <1>2, <1>7, Sizes
    <3>6. b[1] + (k + e) \in Padding..(b[1] + m0 - 1)
      BY <3>1, <3>4, <3>5, Zenon
    <3>7. s.x - 1 = b[1] + m0 - 1
      BY <3>1, <3>2, <3>5
    <3> HIDE DEF c
    <3>8. c \in Padding..(b[1] + m0 - 1)
      BY <3>3, <3>6
    <3>9. QED BY <3>7, <3>8
  <2>4. c \in Padding..(LastX + FontWidth) /\ c \notin s.x..(s.x + FontWidth - 1)
    BY <1>4, <2>3, Sizes
  <2> HIDE DEF c
  <2>5. s.y + r \in PixelRows /\ c \in PixelCols
    BY <2>4, LinePixels
  <2>6. d.pixel[s.y + r][c] = s.pixel[s.y + r][c]
    BY <1>7a, <2>4, <2>5, Zenon
  <2>7. s.pixel[s.y + r][c] = IF l[i] = Space THEN Blank ELSE <<l[i], r, e>>
    BY DEF Typed, c
  <2>8. m[i] = l[i]
    BY <1>5
  <2>9. QED BY <1>3, <2>6, <2>7, <2>8 DEF c
<1>9. ASSUME NEW r \in 0..(FontHeight - 1), NEW e \in 0..(w - 1)
      PROVE  Lit(n + 1, r, e)
  <2> DEFINE c == b[1] + ((n + 1) - 1) * w + e
  <2>1. c = s.x + e
    <3>1. (n + 1) - 1 = n
      BY <1>5
    <3>2. c = b[1] + n * w + e
      BY <3>1
    <3>3. QED BY <1>2, <3>2
  <2> HIDE DEF c
  <2>2. c \in s.x..(s.x + FontWidth - 1) /\ c - s.x = e
    BY <1>4, <2>1, Sizes
  <2>3. c \in Padding..(LastX + FontWidth)
    BY <1>4, <2>2, Sizes
  <2>4. s.y + r \in PixelRows /\ c \in PixelCols /\ s.y + r \in s.y..(s.y + FontHeight - 1)
    BY <2>3, LinePixels
  <2>5. d.pixel[s.y + r][c] = IF ch = Space THEN Blank ELSE <<ch, (s.y + r) - s.y, c - s.x>>
    BY <1>1, <1>4, <2>2, <2>4, DrawnPixels
  <2>6. (s.y + r) - s.y = r
    BY <1>4, Sizes
  <2>7. t.pixel[s.y + r][c] = IF m[n + 1] = Space THEN Blank ELSE <<m[n + 1], r, e>>
    BY <1>3, <1>5, <2>2, <2>5, <2>6
  <2>8. QED BY <2>7 DEF c
<1> HIDE DEF Lit
<1>10. \A i \in 1..(n + 1), r \in 0..(FontHeight - 1), e \in 0..(w - 1) : Lit(i, r, e)
  <2>1. \A i \in 1..(n + 1) : i \in 1..n \/ i = n + 1
    BY <1>5
  <2>2. QED BY <1>8, <1>9, <2>1
<1>11. t.x = b[1] + Len(m) * w
  <2>1. s.x + w = b[1] + (n * w + w)
    BY <1>2, <1>6, <1>7
  <2>2. QED BY <1>3, <1>5, <1>6, <2>1
<1>12. Typed(t, m, b)
  BY <1>2, <1>3, <1>5, <1>10, <1>11 DEF Typed, Lit
<1>13. QED BY <1>12 DEF t, m

\* The last character of the line is the one rubbed out.
LEMMA ShorterTyped ==
  ASSUME NEW s, Neat(s), NEW l, l # <<>>, NEW b, Typed(s, l, b)
  PROVE  Typed(Back(s), Front(l), b)
<1> DEFINE n == Len(l) - 1
           m == Front(l)
           w == FontWidth
           c0 == [s EXCEPT !.x = @ - FontWidth]
           d == Drawn(c0, Space)
<1>1. /\ l \in Seq(Printable) /\ b \in Int \X Int /\ b[1] >= Padding /\ b[2] = s.y
      /\ s.x = b[1] + Len(l) * w /\ b[1] \in Int
  BY DEF Typed
<1>2. /\ n \in Nat /\ Len(l) = n + 1 /\ m \in Seq(Printable) /\ Len(m) = n
      /\ \A i \in 1..n : m[i] = l[i] /\ i \in 1..Len(l)
  <2>1. Len(l) \in Nat \ {0}
    BY <1>1, EmptySeq
  <2>2. m = SubSeq(l, 1, n)
    BY DEF Front
  <2>3. n \in Nat /\ Len(l) = n + 1
    BY <2>1
  <2> HIDE DEF m, n
  <2>4. \A i \in 1..n : i \in 1..Len(l)
    BY <2>3
  <2>5. QED BY <1>1, <2>2, <2>3, <2>4
<1> HIDE DEF n, m
<1>3. /\ n * w \in Nat /\ (n + 1) * w = n * w + w /\ w \in Nat /\ w > 0
      /\ \A i \in 1..n, e \in 0..(w - 1) : (i - 1) * w + e \in 0..(n * w - 1)
  BY <1>2, Columns, Sizes
<1>4. /\ s \in ConsoleType /\ s.x \in Int /\ s.y \in Int /\ s.x \in Padding..(LastX + FontWidth)
  BY DEF Neat, Within, ConsoleType
<1>5. c0 \in ConsoleType /\ c0.x = s.x - w /\ c0.y = s.y /\ c0.pixel = s.pixel
  <2>1. FontWidth \in Nat
    BY Sizes
  <2>2. QED BY <1>4, <2>1 DEF ConsoleType
<1> HIDE DEF c0
<1>6. s.x = b[1] + (n * w + w)
  BY <1>1, <1>2, <1>3
<1>7. c0.x = b[1] + n * w /\ s.x >= Padding + FontWidth
  <2>1. \A x, a, q, v, p \in Int :
          x = a + (q + v) /\ a >= p /\ q >= 0 => x - v = a + q /\ x >= p + v
    OBVIOUS
  <2>2. n * w \in Int /\ n * w >= 0 /\ Padding \in Int /\ w \in Int
    BY <1>3, Sizes
  <2>3. s.x - w = b[1] + n * w /\ s.x >= Padding + w
    BY <1>1, <1>4, <1>6, <2>1, <2>2, Zenon
  <2>4. QED BY <1>5, <2>3
<1>8. Back(s) = d
  BY <1>7, Zenon DEF Back, c0
<1>9. Space \in Nat
  BY DEF Space
<1>10. d.x = c0.x /\ d.y = s.y
  BY <1>5, <1>9, DrawnType
<1>10a. \A r \in PixelRows, c \in PixelCols :
          c \notin c0.x..(c0.x + FontWidth - 1) => d.pixel[r][c] = c0.pixel[r][c]
  BY <1>5, <1>9, BesideDrawn
<1>11. ASSUME NEW i \in 1..n, NEW r \in 0..(FontHeight - 1), NEW e \in 0..(w - 1)
       PROVE  d.pixel[s.y + r][b[1] + (i - 1) * w + e]
                = IF m[i] = Space THEN Blank ELSE <<m[i], r, e>>
  <2> DEFINE c == b[1] + (i - 1) * w + e
  <2>1. (i - 1) * w + e \in 0..(n * w - 1)
    BY <1>3
  <2>2. (i - 1) * w \in Int
    BY <1>2, <1>3
  <2>3. c \in Padding..(c0.x - 1)
    <3> DEFINE k == (i - 1) * w
               m0 == n * w
    <3>1. k \in Int /\ k + e \in 0..(m0 - 1) /\ m0 \in Int /\ e \in Int
      BY <1>3, <2>1, <2>2
    <3>2. /\ c = b[1] + k + e
          /\ c0.x = b[1] + m0
      BY <1>7
    <3> HIDE DEF k, m0
    <3>3. c = b[1] + (k + e)
      BY <1>1, <3>1, <3>2
    <3>4. \A p, a, q \in Int : \A j \in 0..(q - 1) : a >= p => a + j \in p..(a + q - 1)
      OBVIOUS
    <3>5. b[1] >= Padding /\ Padding \in Int /\ b[1] \in Int
      BY <1>1, Sizes
    <3>6. b[1] + (k + e) \in Padding..(b[1] + m0 - 1)
      BY <3>1, <3>4, <3>5, Zenon
    <3>7. c0.x - 1 = b[1] + m0 - 1
      BY <3>1, <3>2, <3>5
    <3> HIDE DEF c
    <3>8. c \in Padding..(b[1] + m0 - 1)
      BY <3>3, <3>6
    <3>9. QED BY <3>7, <3>8
  <2>4. c \in Padding..(LastX + FontWidth) /\ c \notin c0.x..(c0.x + FontWidth - 1)
    BY <1>4, <1>5, <2>3, Sizes
  <2> HIDE DEF c
  <2>5. s.y + r \in PixelRows /\ c \in PixelCols
    BY <2>4, LinePixels
  <2>6. d.pixel[s.y + r][c] = c0.pixel[s.y + r][c]
    BY <1>10a, <2>4, <2>5, Zenon
  <2>7. s.pixel[s.y + r][c] = IF l[i] = Space THEN Blank ELSE <<l[i], r, e>>
    BY <1>2 DEF Typed, c
  <2>8. m[i] = l[i] /\ c0.pixel = s.pixel
    BY <1>2, <1>5
  <2>9. QED BY <2>6, <2>7, <2>8 DEF c
<1> HIDE DEF d
<1>12. d.x = b[1] + Len(m) * w
  BY <1>2, <1>7, <1>10
<1>13. Typed(d, m, b)
  BY <1>1, <1>2, <1>10, <1>11, <1>12 DEF Typed
<1>14. QED BY <1>8, <1>13 DEF m

\* What the console s shows between two steps of shell_init, when v was loaded.
Written(step, s, v) ==
  /\ step \in {"start", "wipe", "next", "draw"} => Neat(s)
  /\ step \in {"draw", "across", "advance"} => s.x <= LastX
  /\ step \in {"across", "advance"} =>
       Within(s, LastX + FontWidth, Padding, LastY) /\ Blanks(s, s.x + FontWidth, s.y)
  /\ step = "advance" => v = s.x
Wrapped(step, s, v) ==
  /\ step \in {"down", "lower"} \cup TooDeep => s.x = Padding
  /\ step \in {"down", "lower"} =>
       Within(s, LastX + FontWidth, Padding, LastY) /\ Blanks(s, ScreenWidth, s.y)
  /\ step \in TooDeep => Within(s, LastX + FontWidth, Padding + RowHeight, LastY + RowHeight)
  /\ step = "test" => Blanks(s, Padding, s.y)
  /\ step \in {"up", "raise"} => Blanks(s, Padding, s.y - RowHeight)
  /\ step \in {"lower", "raise"} => v = s.y
Shown(step, s, v) == Written(step, s, v) /\ Wrapped(step, s, v)

\* As long as no key came while shell_init wrote, nothing is behind the cursor but what the
\* step under way accounts for, and at the prompt the line stands in front of it.
LineInv ==
  quiet =>
    /\ Shown(task.at, console, task.held)
    /\ Initialising => line = <<>>
    /\ task.at # "next" => task.todo # <<>>
    /\ task.todo # <<>> => Last(task.todo) # Newline
    /\ Initialised /\ start # Nowhere => Typed(console, line, start)

\* The prompt does not end with a newline.
LEMMA LineInit == DevicesInit => LineInv
<1> SUFFICES ASSUME DevicesInit PROVE LineInv
  OBVIOUS
<1>1. /\ console = Clear /\ line = <<>> /\ start = Nowhere
      /\ task = [todo |-> Banner \o Prompt, at |-> "start", held |-> 0]
  BY DEF DevicesInit, Init, ShellBoot
<1>2. Shown("start", Clear, 0)
  BY ClearNeat DEF Shown, Written, Wrapped, TooDeep
<1>3. Last(Banner \o Prompt) # Newline
  <2> DEFINE B == Banner
             Q == Prompt
             n == Len(Q)
  <2>1. B \in Seq(Nat) /\ Q \in Seq(Nat) /\ Q \in Seq(Printable) /\ Q # <<>>
    BY TextTypes, ShellAssumption
  <2>2. n \in Nat \ {0} /\ Len(B) \in Nat
    BY <2>1, EmptySeq
  <2>3. Len(B \o Q) = Len(B) + n /\ (B \o Q)[Len(B) + n] = Q[n]
    BY <2>1, <2>2
  <2>4. Q[n] \in Printable
    BY <2>1, <2>2
  <2>5. Q[n] # Newline
    <3>1. \A p \in Printable : p # Newline
      BY DEF Printable, Newline
    <3>2. QED BY <2>4, <3>1
  <2> HIDE DEF n, B, Q
  <2>6. Last(B \o Q) = Q[n]
    BY <2>3 DEF Last
  <2>7. QED BY <2>5, <2>6 DEF B, Q
<1>4. Banner \o Prompt # <<>>
  <2> DEFINE B == Banner
             Q == Prompt
  <2>1. B \in Seq(Nat) /\ Q \in Seq(Nat) /\ Q # <<>>
    BY TextTypes, ShellAssumption
  <2> HIDE DEF B, Q
  <2>2. B \o Q # <<>>
    BY <2>1
  <2>3. QED BY <2>2 DEF B, Q
<1>5. QED BY <1>1, <1>2, <1>3, <1>4 DEF LineInv, Initialised, Initialising

\* A key at a prompt, or before shell_init has begun.
LEMMA LineKey ==
  ASSUME CursorInv, LineInv, NEW ch, HandleChar(ch)
  PROVE  LineInv'
<1> SUFFICES ASSUME quiet' PROVE LineInv'
  BY DEF LineInv
<1>1. task' = task /\ quiet /\ ~Initialising
  BY DEF HandleChar
<1>2. task.at = "start" \/ Initialised
  BY <1>1 DEF Initialising
<1>3. task.at \in {"start", "next"} /\ Neat(console)
  BY <1>1, <1>2 DEF Initialised, LineInv, Shown, Written
<1>4. Initialised => (start # Nowhere => Typed(console, line, start))
  BY <1>1 DEF LineInv
<1>5. Newline \in Nat \ {Return} /\ Backspace \in Nat \ {Return} /\ Prompt \in Seq(Nat \ {Return})
      /\ Printable \subseteq Nat \ {Return}
  <2>1. Printable \subseteq Nat \ {Return}
    BY DEF Printable, Return
  <2>2. Prompt \in Seq(Printable)
    BY ShellAssumption
  <2> DEFINE Kept == Nat \ {Return}
  <2>3. Seq(Printable) \subseteq Seq(Kept)
    <3>1. Printable \subseteq Kept
      BY <2>1
    <3> HIDE DEF Kept
    <3>2. QED BY <3>1, MoreTexts
  <2>4. QED BY <2>1, <2>2, <2>3 DEF Newline, Backspace, Return
<1>6. /\ Neat(console')
      /\ Initialised => (start' # Nowhere => Typed(console', line', start'))
  <2>1. CASE Enter
    <3>1. PICK out \in Outputs :
            console' = Puts(IF line = <<>> THEN Put(console, Newline)
                            ELSE Executed(Put(console, Newline), out), Prompt)
      BY <2>1 DEF Enter
    <3>2. out.text \in Seq(Nat \ {Return})
      BY ShellAssumption
    <3>3. Neat(Put(console, Newline))
      BY <1>3, <1>5, PutNeat
    <3>4. Neat(Executed(Put(console, Newline), out))
      BY <3>2, <3>3, PutsNeat, ClearNeat DEF Executed
    <3>5. Neat(console')
      BY <1>5, <3>1, <3>3, <3>4, PutsNeat
    <3>6. line' = <<>> /\ start' = <<console'.x, console'.y>>
      BY <2>1 DEF Enter
    <3>7. Typed(console', line', start')
      BY <3>5, <3>6, EmptyTyped
    <3>8. QED BY <3>5, <3>7
  <2>2. CASE RubOut
    <3>1. start' = start
      BY <2>2 DEF RubOut
    <3>2. CASE line # <<>>
      <4>1. line' = Front(line) /\ console' = Put(console, Backspace)
        BY <2>2, <3>2 DEF RubOut
      <4>2. Put(console, Backspace) = Back(console)
        <5>1. Backspace # Newline /\ Backspace # Return /\ Backspace # Tab
          BY DEF Backspace, Newline, Return, Tab
        <5>2. QED BY <5>1, Zenon DEF Put
      <4>3. Neat(console')
        BY <1>3, <4>1, <4>2, BackNeat
      <4>4. ASSUME start # Nowhere, Initialised PROVE Typed(console', line', start')
        BY <1>3, <1>4, <3>1, <3>2, <4>1, <4>2, <4>4, ShorterTyped
      <4>5. QED BY <3>1, <4>3, <4>4
    <3>3. CASE line = <<>>
      BY <1>3, <1>4, <2>2, <3>1, <3>3 DEF RubOut
    <3>4. QED BY <3>2, <3>3
  <2>3. CASE Type(ch)
    <3>1. CASE ch \in Printable /\ Len(line) < LineSize - 1
      <4>1. /\ line' = Append(line, ch) /\ console' = Put(console, ch)
            /\ start' = IF LineFull(console) THEN Nowhere ELSE start
        BY <2>3, <3>1 DEF Type
      <4>2. Neat(console')
        BY <1>3, <1>5, <3>1, <4>1, PutNeat
      <4>3. Put(console, ch) = Glyph(console, ch)
        <5>1. ch # Newline /\ ch # Return /\ ch # Backspace /\ ch # Tab
          BY <3>1 DEF Printable, Backspace, Newline, Return, Tab
        <5>2. QED BY <5>1, Zenon DEF Put
      <4>4. ASSUME start' # Nowhere, Initialised PROVE Typed(console', line', start')
        <5>1. ~LineFull(console) /\ start' = start /\ Typed(console, line, start)
          BY <1>4, <4>1, <4>4
        <5>2. console.x \in Int
          BY <1>3 DEF Neat, Within, ConsoleType
        <5>3. console.x <= LastX
          BY <5>1, <5>2, Sizes DEF LineFull, LastX
        <5>4. console' = Advanced(Drawn(console, ch))
          BY <4>1, <4>3, <5>1 DEF Glyph
        <5>5. Typed(Advanced(Drawn(console, ch)), Append(line, ch), start)
          BY <1>3, <3>1, <5>1, <5>3, LongerTyped
        <5>6. QED BY <4>1, <5>1, <5>4, <5>5
      <4>5. QED BY <4>2, <4>4
    <3>2. CASE ~(ch \in Printable /\ Len(line) < LineSize - 1)
      <4>1. UNCHANGED <<line, console, start>>
        BY <2>3, <3>2 DEF Type
      <4>2. QED BY <1>3, <1>4, <4>1
    <3>3. QED BY <3>1, <3>2
  <2>4. QED BY <2>1, <2>2, <2>3 DEF HandleChar
<1>7. Shown(task.at, console', task.held)
  BY <1>3, <1>6 DEF Shown, Written, Wrapped, TooDeep
<1>8. Initialised' = Initialised /\ Initialising' = Initialising
  BY <1>1 DEF Initialised, Initialising
<1>9. (task.at # "next" => task.todo # <<>>) /\ (task.todo # <<>> => Last(task.todo) # Newline)
  BY <1>1 DEF LineInv
<1>10. QED BY <1>1, <1>6, <1>7, <1>8, <1>9 DEF LineInv

\* The last character is the first one of a text of one, and stays the last until then.
LEMMA LastOfTail ==
  ASSUME NEW q \in Seq(Nat), q # <<>>
  PROVE  /\ Len(q) = 1 => Last(q) = Head(q) /\ Tail(q) = <<>>
         /\ Len(q) # 1 => Tail(q) # <<>> /\ Last(Tail(q)) = Last(q)
         /\ Tail(q) \in Seq(Nat)
<1>1. Len(q) \in Nat \ {0}
  BY EmptySeq
<1>2. Tail(q) \in Seq(Nat) /\ Len(Tail(q)) = Len(q) - 1
  BY <1>1
<1>3. CASE Len(q) = 1
  <2> DEFINE u == Tail(q)
  <2>1. u \in Seq(Nat) /\ Len(u) = 0
    BY <1>2, <1>3
  <2> HIDE DEF u
  <2>2. u = <<>>
    BY <2>1, EmptySeq
  <2>3. Last(q) = Head(q)
    BY <1>3 DEF Last
  <2>4. QED BY <1>2, <1>3, <2>2, <2>3 DEF u
<1>4. CASE Len(q) # 1
  <2>1. Len(Tail(q)) \in 1..Len(q) /\ Len(Tail(q)) + 1 = Len(q)
    BY <1>1, <1>2, <1>4
  <2>2. Tail(q)[Len(Tail(q))] = q[Len(Tail(q)) + 1]
    BY <1>1, <1>2, <2>1
  <2>3. Last(Tail(q)) = q[Len(q)]
    BY <2>1, <2>2 DEF Last
  <2>4. Tail(q) # <<>>
    <3> DEFINE u == Tail(q)
    <3>1. Len(u) # 0 /\ Len(<<>>) = 0
      BY <2>1
    <3> HIDE DEF u
    <3>2. u # <<>>
      BY <3>1
    <3>3. QED BY <3>2 DEF u
  <2>5. Last(q) = q[Len(q)]
    BY DEF Last
  <2>6. QED BY <1>2, <1>4, <2>3, <2>4, <2>5
<1>5. QED BY <1>3, <1>4

\* What a step of shell_init that writes does to the screen.  It begins a newline, or finds
\* room for the character;
LEMMA BeginShows ==
  ASSUME NEW s, NEW v, NEW u, Shown("next", s, v)
  PROVE  /\ Shown("down", [s EXCEPT !.x = Padding], u)
         /\ ~LineFull(s) => Shown("draw", s, u)
<1> DEFINE t == [s EXCEPT !.x = Padding]
<1>1. /\ s \in ConsoleType /\ s.x \in Int /\ s.y \in Int
      /\ s.x \in Padding..(LastX + FontWidth) /\ s.y \in Padding..LastY
      /\ Blanks(s, s.x, s.y) /\ Neat(s)
  BY DEF Shown, Written, Neat, Within, ConsoleType
<1>2. t \in ConsoleType /\ t.x = Padding /\ t.y = s.y /\ t.pixel = s.pixel
  <2>1. Padding \in Int
    BY Sizes
  <2>2. QED BY <1>1, <2>1 DEF ConsoleType
<1> HIDE DEF t
<1>3. s.x <= ScreenWidth /\ ScreenWidth \in Int /\ Padding \in Padding..(LastX + FontWidth)
  BY <1>1, Sizes DEF LastX
<1>4. Blanks(s, ScreenWidth, s.y)
  BY <1>1, <1>3, FewerBlanks
<1>5. Blanks(t, ScreenWidth, s.y)
  BY <1>2, <1>4, SameBlanks
<1>6. Within(t, LastX + FontWidth, Padding, LastY)
  BY <1>1, <1>2, <1>3, Zenon DEF Within
<1>7. Shown("down", t, u)
  BY <1>2, <1>5, <1>6 DEF Shown, Written, Wrapped, TooDeep
<1>8. ASSUME ~LineFull(s) PROVE Shown("draw", s, u)
  <2>1. s.x <= LastX
    BY <1>1, <1>8, Sizes DEF LineFull, LastX
  <2>2. QED BY <1>1, <2>1 DEF Shown, Written, Wrapped, TooDeep
<1>9. QED BY <1>7, <1>8 DEF t

\* it loads the cursor;
LEMMA LoadShows ==
  ASSUME NEW s, NEW v
  PROVE  /\ Shown("down", s, v) => Shown("lower", s, s.y)
         /\ Shown("up", s, v) => Shown("raise", s, s.y)
         /\ Shown("across", s, v) => Shown("advance", s, s.x)
BY DEF Shown, Written, Wrapped, TooDeep

\* it stores the cursor a line further down;
LEMMA LowerShows ==
  ASSUME NEW s, NEW v, NEW u, Shown("lower", s, v)
  PROVE  Shown("test", [s EXCEPT !.y = v + RowHeight], u)
<1> DEFINE y == v + RowHeight
           t == [s EXCEPT !.y = y]
<1>1. /\ s \in ConsoleType /\ s.x = Padding /\ s.y \in Int /\ v = s.y
      /\ s.x \in Padding..(LastX + FontWidth) /\ s.y \in Padding..LastY
      /\ Blanks(s, ScreenWidth, s.y)
  BY DEF Shown, Wrapped, Within, ConsoleType
<1>2. y \in Int /\ y \in (Padding + RowHeight)..(LastY + RowHeight)
  BY <1>1, Sizes
<1>3. Blanks(s, Padding, y)
  BY <1>1, BlanksBelow, Sizes
<1> HIDE DEF y
<1>4. t \in ConsoleType /\ t.x = Padding /\ t.y = y /\ t.pixel = s.pixel
  BY <1>1, <1>2 DEF ConsoleType
<1> HIDE DEF t
<1>5. Blanks(t, Padding, t.y)
  BY <1>3, <1>4, SameBlanks
<1>6. Within(t, LastX + FontWidth, Padding + RowHeight, LastY + RowHeight)
  BY <1>1, <1>2, <1>4, Zenon DEF Within
<1>7. Shown("test", t, u)
  BY <1>4, <1>5, <1>6 DEF Shown, Written, Wrapped, TooDeep
<1>8. QED BY <1>7 DEF t, y

\* it scrolls if that is too low, or is done;
LEMMA TestShows ==
  ASSUME NEW s, NEW v, NEW u, Shown("test", s, v)
  PROVE  /\ Shown("up", Scrolled(s), u)
         /\ ~TooLow(s) => \A to \in {"draw", "next"} : Shown(to, s, u)
<1> DEFINE t == Scrolled(s)
<1>1. /\ s \in ConsoleType /\ s.x = Padding /\ s.y \in Int
      /\ s.x \in Padding..(LastX + FontWidth)
      /\ s.y \in (Padding + RowHeight)..(LastY + RowHeight)
      /\ Blanks(s, Padding, s.y)
  BY DEF Shown, Wrapped, Within, ConsoleType, TooDeep
<1>2. t \in ConsoleType /\ t.x = s.x /\ t.y = s.y
  BY <1>1, ScrolledType
<1>3. s.y >= Padding + RowHeight
  BY <1>1, Sizes
<1>4. Blanks(t, Padding, s.y - RowHeight)
  BY <1>1, <1>3, ScrolledBlanks
<1> HIDE DEF t
<1>5. Within(t, LastX + FontWidth, Padding + RowHeight, LastY + RowHeight)
  BY <1>1, <1>2, Zenon DEF Within
<1>6. Shown("up", t, u)
  BY <1>1, <1>2, <1>4, <1>5 DEF Shown, Written, Wrapped, TooDeep
<1>7. ASSUME ~TooLow(s), NEW to \in {"draw", "next"} PROVE Shown(to, s, u)
  <2>1. s.y \in Padding..LastY /\ s.x <= LastX
    BY <1>1, <1>7, Sizes DEF TooLow, LastY
  <2>2. Within(s, LastX + FontWidth, Padding, LastY)
    BY <1>1, <2>1, Zenon DEF Within
  <2>3. Neat(s)
    BY <1>1, <2>2, Zenon DEF Neat
  <2>4. QED BY <2>1, <2>3 DEF Shown, Written, Wrapped, TooDeep
<1>8. QED BY <1>6, <1>7 DEF t

\* it stores the cursor a line further up;
LEMMA RaiseShows ==
  ASSUME NEW s, NEW v, NEW u, Shown("raise", s, v), NEW to \in {"draw", "next"}
  PROVE  Shown(to, [s EXCEPT !.y = v - RowHeight], u)
<1> DEFINE y == v - RowHeight
           t == [s EXCEPT !.y = y]
<1>1. /\ s \in ConsoleType /\ s.x = Padding /\ s.y \in Int /\ v = s.y
      /\ s.x \in Padding..(LastX + FontWidth)
      /\ s.y \in (Padding + RowHeight)..(LastY + RowHeight)
      /\ Blanks(s, Padding, s.y - RowHeight)
  BY DEF Shown, Wrapped, Within, ConsoleType, TooDeep
<1>2. y \in Int /\ y \in Padding..LastY /\ Padding <= LastX
  BY <1>1, Sizes
<1>3. Blanks(s, Padding, y)
  BY <1>1
<1> HIDE DEF y
<1>4. t \in ConsoleType /\ t.x = Padding /\ t.y = y /\ t.pixel = s.pixel
  BY <1>1, <1>2 DEF ConsoleType
<1> HIDE DEF t
<1>5. Blanks(t, t.x, t.y)
  BY <1>3, <1>4, SameBlanks
<1>6. Within(t, LastX + FontWidth, Padding, LastY)
  BY <1>1, <1>2, <1>4, Zenon DEF Within
<1>7. Neat(t)
  BY <1>5, <1>6 DEF Neat
<1>8. Shown(to, t, u)
  BY <1>2, <1>4, <1>7 DEF Shown, Written, Wrapped, TooDeep
<1>9. QED BY <1>8 DEF t, y

\* it draws the character;
LEMMA DrawShows ==
  ASSUME NEW s, NEW v, NEW u, Shown("draw", s, v), NEW ch \in Nat
  PROVE  Shown("across", Drawn(s, ch), u)
<1> DEFINE d == Drawn(s, ch)
<1>1. /\ s \in ConsoleType /\ s.x \in Int /\ s.y \in Int /\ s.y >= Padding /\ s.x <= LastX
      /\ s.x \in Padding..(LastX + FontWidth) /\ s.y \in Padding..LastY
      /\ Blanks(s, s.x, s.y)
  BY Sizes DEF Shown, Written, Neat, Within, ConsoleType
<1>2. d \in ConsoleType /\ d.x = s.x /\ d.y = s.y
  BY <1>1, DrawnType
<1>3. Blanks(d, s.x + FontWidth, s.y)
  BY <1>1, DrawnBlanks
<1> HIDE DEF d
<1>4. Within(d, LastX + FontWidth, Padding, LastY)
  BY <1>1, <1>2, Zenon DEF Within
<1>5. Shown("across", d, u)
  BY <1>1, <1>2, <1>3, <1>4 DEF Shown, Written, Wrapped, TooDeep
<1>6. QED BY <1>5 DEF d

\* and stores the cursor a character further on.
LEMMA AdvanceShows ==
  ASSUME NEW s, NEW v, NEW u, Shown("advance", s, v)
  PROVE  /\ Shown("next", [s EXCEPT !.x = v + FontWidth], u)
         /\ Neat([s EXCEPT !.x = v + FontWidth])
<1> DEFINE x == v + FontWidth
           t == [s EXCEPT !.x = x]
<1>1. /\ s \in ConsoleType /\ s.x \in Int /\ s.y \in Int /\ s.x <= LastX /\ v = s.x
      /\ s.x \in Padding..(LastX + FontWidth) /\ s.y \in Padding..LastY
      /\ Blanks(s, s.x + FontWidth, s.y)
  BY DEF Shown, Written, Within, ConsoleType
<1>2. x \in Int /\ x \in Padding..(LastX + FontWidth)
  BY <1>1, Sizes
<1>3. Blanks(s, x, s.y)
  BY <1>1
<1> HIDE DEF x
<1>4. t \in ConsoleType /\ t.x = x /\ t.y = s.y /\ t.pixel = s.pixel
  BY <1>1, <1>2 DEF ConsoleType
<1> HIDE DEF t
<1>5. Blanks(t, t.x, t.y)
  BY <1>3, <1>4, SameBlanks
<1>6. Within(t, LastX + FontWidth, Padding, LastY)
  BY <1>1, <1>2, <1>4, Zenon DEF Within
<1>7. Neat(t)
  BY <1>5, <1>6 DEF Neat
<1>8. Shown("next", t, u)
  BY <1>7 DEF Shown, Written, Wrapped, TooDeep
<1>9. QED BY <1>7, <1>8 DEF t, x

\* A step of shell_init, when no key has come.
LEMMA LineWriting ==
  ASSUME CursorInv, LineInv, ShellInit
  PROVE  LineInv'
<1> DEFINE T == [todo : Seq(Nat), at : Steps, held : Int]
           now == task.at
           s == console
           v == task.held
<1>1. quiet' = quiet
  BY DEF ShellInit, Reset, Wipe, Begin, LoadDown, Lower, Test, LoadUp, Raise, Draw, LoadAcross,
         Advance, At
<1> SUFFICES ASSUME quiet PROVE LineInv'
  BY <1>1 DEF LineInv
<1>2. /\ Shown(task.at, console, task.held) /\ task \in T
      /\ Initialising => line = <<>>
      /\ task.at # "next" => task.todo # <<>>
      /\ task.todo # <<>> => Last(task.todo) # Newline
  BY DEF LineInv, CursorInv
<1>3. task.todo # <<>>
  BY <1>2 DEF ShellInit, Reset, Wipe, Begin, LoadDown, Lower, Test, LoadUp, Raise, Draw, LoadAcross,
         Advance, At
<1>4. task.at # "start" => line = <<>>
  BY <1>2, <1>3 DEF Initialising, Initialised
<1>5. line' = <<>>
  <2>1. CASE Reset
    BY <2>1 DEF Reset
  <2>2. CASE Wipe
    <3>1. line = <<>>
      BY <1>4, <2>2 DEF Wipe
    <3>2. line' = [i \in DOMAIN line |-> 0]
      BY <2>2 DEF Wipe
    <3>3. QED BY <3>1, <3>2
  <2>3. CASE ~(Reset \/ Wipe)
    <3>1. task.at # "start" /\ line' = line
      BY <2>3 DEF ShellInit, Begin, LoadDown, Lower, Test, LoadUp, Raise, Draw, LoadAcross, Advance, At
    <3>2. QED BY <1>4, <3>1
  <2>4. QED BY <2>1, <2>2, <2>3
\* Nothing is left to write only after the last character was.
<1>6. ASSUME task'.todo = task.todo, Shown(task'.at, console', task'.held)
      PROVE  LineInv'
  <2>1. ~Initialised'
    BY <1>3, <1>6 DEF Initialised
  <2>2. Last(task'.todo) # Newline
    BY <1>2, <1>3, <1>6
  <2>3. QED BY <1>3, <1>5, <1>6, <2>1, <2>2 DEF LineInv
<1>7. ASSUME NEW to, task' = [task EXCEPT !.at = to]
      PROVE  task'.at = to /\ task'.todo = task.todo /\ task'.held = task.held
  BY <1>2, <1>7
<1>8. ASSUME NEW to, NEW w, task' = [task EXCEPT !.at = to, !.held = w]
      PROVE  task'.at = to /\ task'.todo = task.todo /\ task'.held = w
  BY <1>2, <1>8
<1>9. ASSUME Done(Wrapping), \A to \in {"draw", "next"}, u \in {task.held} : Shown(to, console', u)
      PROVE  LineInv'
  <2>1. CASE Wrapping
    <3>1. task' = [task EXCEPT !.at = "draw"]
      BY <1>9, <2>1 DEF Done
    <3>2. task'.at = "draw" /\ task'.todo = task.todo /\ task'.held = task.held
      BY <1>7, <3>1
    <3>3. QED BY <1>6, <1>9, <3>2
  <2>2. CASE ~Wrapping
    <3>1. task' = [task EXCEPT !.at = "next", !.todo = Tail(task.todo)]
      BY <1>9, <2>2 DEF Done
    <3>2. task'.at = "next" /\ task'.todo = Tail(task.todo) /\ task'.held = task.held
      BY <1>2, <3>1
    <3>3. Head(task.todo) = Newline /\ task.todo \in Seq(Nat)
      BY <1>2, <2>2 DEF Wrapping
    <3>4. Tail(task.todo) # <<>> /\ Last(Tail(task.todo)) = Last(task.todo)
      BY <1>2, <1>3, <3>3, LastOfTail
    <3>5. Shown(task'.at, console', task'.held)
      BY <1>9, <3>2
    <3>6. ~Initialised' /\ task'.todo # <<>> /\ Last(task'.todo) # Newline
      BY <1>2, <1>3, <3>2, <3>4 DEF Initialised
    <3>7. QED BY <1>5, <3>5, <3>6 DEF LineInv
  <2>3. QED BY <2>1, <2>2
<1>10. CASE Reset \/ Wipe
  <2>1. PICK to \in {"wipe", "next"} : task' = [task EXCEPT !.at = to]
          /\ console' = console /\ task.at \in {"start", "wipe"}
    BY <1>10 DEF Reset, Wipe, Goes
  <2>2. task'.at = to /\ task'.todo = task.todo
    BY <1>7, <2>1
  <2>3. Shown(to, console, task'.held)
    BY <1>2, <2>1 DEF Shown, Written, Wrapped, TooDeep
  <2>4. QED BY <1>6, <2>1, <2>2, <2>3
<1>11. CASE Begin
  <2>1. task.at = "next" /\ Shown("next", console, task.held)
    BY <1>2, <1>11 DEF Begin, At
  <2>2. CASE console' = [console EXCEPT !.x = Padding] /\ Goes("down")
    <3>1. task'.at = "down" /\ task'.todo = task.todo /\ task'.held = task.held
      BY <1>7, <2>2 DEF Goes
    <3>2. Shown("down", console', task.held)
      BY <2>1, <2>2, BeginShows
    <3>3. QED BY <1>6, <3>1, <3>2
  <2>3. CASE ~LineFull(console) /\ Goes("draw") /\ console' = console
    <3>1. task'.at = "draw" /\ task'.todo = task.todo /\ task'.held = task.held
      BY <1>7, <2>3 DEF Goes
    <3>2. Shown("draw", console', task.held)
      BY <2>1, <2>3, BeginShows
    <3>3. QED BY <1>6, <3>1, <3>2
  <2>4. QED BY <1>11, <2>2, <2>3 DEF Begin
<1>12. CASE LoadDown
  <2>1. /\ task.at = "down" /\ console' = console
        /\ task' = [task EXCEPT !.at = "lower", !.held = console.y]
    BY <1>12 DEF LoadDown, At
  <2>2. task'.at = "lower" /\ task'.todo = task.todo /\ task'.held = console.y
    BY <1>8, <2>1
  <2>3. Shown("lower", console, console.y)
    BY <1>2, <2>1, LoadShows
  <2>4. QED BY <1>6, <2>1, <2>2, <2>3
<1>13. CASE LoadUp
  <2>1. /\ task.at = "up" /\ console' = console
        /\ task' = [task EXCEPT !.at = "raise", !.held = console.y]
    BY <1>13 DEF LoadUp, At
  <2>2. task'.at = "raise" /\ task'.todo = task.todo /\ task'.held = console.y
    BY <1>8, <2>1
  <2>3. Shown("raise", console, console.y)
    BY <1>2, <2>1, LoadShows
  <2>4. QED BY <1>6, <2>1, <2>2, <2>3
<1>14. CASE LoadAcross
  <2>1. /\ task.at = "across" /\ console' = console
        /\ task' = [task EXCEPT !.at = "advance", !.held = console.x]
    BY <1>14 DEF LoadAcross, At
  <2>2. task'.at = "advance" /\ task'.todo = task.todo /\ task'.held = console.x
    BY <1>8, <2>1
  <2>3. Shown("advance", console, console.x)
    BY <1>2, <2>1, LoadShows
  <2>4. QED BY <1>6, <2>1, <2>2, <2>3
<1>15. CASE Lower
  <2>1. /\ task.at = "lower" /\ console' = [console EXCEPT !.y = task.held + RowHeight]
        /\ task' = [task EXCEPT !.at = "test"]
    BY <1>15 DEF Lower, At, Goes
  <2>2. task'.at = "test" /\ task'.todo = task.todo /\ task'.held = task.held
    BY <1>7, <2>1
  <2>3. Shown("test", console', task.held)
    BY <1>2, <2>1, LowerShows
  <2>4. QED BY <1>6, <2>2, <2>3
<1>16. CASE Test
  <2>1. task.at = "test" /\ Shown("test", console, task.held)
    BY <1>2, <1>16 DEF Test, At
  <2>2. CASE TooLow(console) /\ console' = Scrolled(console) /\ Goes("up")
    <3>1. task'.at = "up" /\ task'.todo = task.todo /\ task'.held = task.held
      BY <1>7, <2>2 DEF Goes
    <3>2. Shown("up", console', task.held)
      BY <2>1, <2>2, TestShows
    <3>3. QED BY <1>6, <3>1, <3>2
  <2>3. CASE ~TooLow(console) /\ console' = console /\ Done(Wrapping)
    <3>1. \A to \in {"draw", "next"} : Shown(to, console', task.held)
      BY <2>1, <2>3, TestShows
    <3>2. QED BY <1>9, <2>3, <3>1
  <2>4. QED BY <1>16, <2>2, <2>3 DEF Test
<1>17. CASE Raise
  <2>1. /\ task.at = "raise" /\ console' = [console EXCEPT !.y = task.held - RowHeight]
        /\ Done(Wrapping)
    BY <1>17 DEF Raise, At
  <2>2. \A to \in {"draw", "next"} : Shown(to, console', task.held)
    BY <1>2, <2>1, RaiseShows
  <2>3. QED BY <1>9, <2>1, <2>2
<1>18. CASE Draw
  <2>1. /\ task.at = "draw" /\ console' = Drawn(console, Head(task.todo))
        /\ task' = [task EXCEPT !.at = "across"]
    BY <1>18 DEF Draw, At, Goes
  <2>2. task'.at = "across" /\ task'.todo = task.todo /\ task'.held = task.held
    BY <1>7, <2>1
  <2>3. Head(task.todo) \in Nat
    BY <1>2, <1>3
  <2>4. Shown("across", console', task.held)
    BY <1>2, <2>1, <2>3, DrawShows
  <2>5. QED BY <1>6, <2>2, <2>4
<1>19. CASE Advance
  <2>1. /\ task.at = "advance" /\ console' = [console EXCEPT !.x = task.held + FontWidth]
        /\ task' = [task EXCEPT !.at = "next", !.todo = Tail(task.todo)]
        /\ start' = IF Len(task.todo) = 1 /\ line = <<>> THEN <<console'.x, console.y>> ELSE start
    BY <1>19 DEF Advance, At, Done
  <2>2. task'.at = "next" /\ task'.todo = Tail(task.todo) /\ task'.held = task.held
    BY <1>2, <2>1
  <2>3. Shown("next", console', task.held) /\ Neat(console')
    BY <1>2, <2>1, AdvanceShows
  <2>4. task.todo \in Seq(Nat)
    BY <1>2
  <2>5. CASE Len(task.todo) = 1
    <3>1. task'.todo = <<>>
      BY <1>3, <2>2, <2>4, <2>5, LastOfTail
    <3>2. console'.y = console.y
      <4>1. console \in ConsoleType
        BY DEF CursorInv, Within
      <4>2. QED BY <2>1, <4>1 DEF ConsoleType
    <3>3. start' = <<console'.x, console'.y>>
      BY <1>4, <2>1, <2>5, <3>2
    <3>4. Typed(console', line', start')
      BY <1>5, <2>3, <3>3, EmptyTyped
    <3>5. QED BY <1>5, <2>2, <2>3, <3>1, <3>4 DEF LineInv
  <2>6. CASE Len(task.todo) # 1
    <3>1. Tail(task.todo) # <<>> /\ Last(Tail(task.todo)) = Last(task.todo)
      BY <1>3, <2>4, <2>6, LastOfTail
    <3>2. ~Initialised' /\ task'.todo # <<>> /\ Last(task'.todo) # Newline
      BY <1>2, <1>3, <2>2, <3>1 DEF Initialised
    <3>3. QED BY <1>5, <2>2, <2>3, <3>2 DEF LineInv
  <2>7. QED BY <2>5, <2>6
<1>20. QED
  BY <1>10, <1>11, <1>12, <1>13, <1>14, <1>15, <1>16, <1>17, <1>18, <1>19 DEF ShellInit

\* Nobody else writes the shell's state.
LEMMA LineStep == CursorInv /\ LineInv /\ [DevicesNext]_deviceVars => LineInv'
<1> SUFFICES ASSUME CursorInv, LineInv, [DevicesNext]_deviceVars PROVE LineInv'
  OBVIOUS
<1>1. CASE UNCHANGED shellVars
  BY <1>1 DEF shellVars, LineInv, Initialised, Initialising
<1>2. CASE ShellStarts
  BY <1>2, LineWriting DEF ShellStarts
<1>3. CASE Interrupt
  <2>1. PICK irq \in raised : Callback(irq)
    BY <1>3 DEF Interrupt
  <2>2. UNCHANGED shellVars \/ \E code : HandleScancode(code)
    BY <2>1 DEF Callback, HandleMouse
  <2>3. UNCHANGED shellVars \/ \E ch : HandleChar(ch)
    BY <2>2 DEF HandleScancode
  <2>4. QED BY <1>1, <2>3, LineKey
<1>4. CASE Key \/ Reply \/ Report \/ KeyArrives \/ MouseArrives \/ Configure \/ EnablePort
           \/ Order \/ Poll \/ Sti \/ FindDisk \/ UseDisk \/ DiskStep \/ UNCHANGED deviceVars
  <2>1. UNCHANGED shellVars
    BY <1>4 DEF Key, Reply, Report, KeyArrives, MouseArrives, Arrive, Configure, EnablePort,
                Order, Poll, Sti, FindDisk, UseDisk, DiskStep, deviceVars
  <2>2. QED BY <1>1, <2>1
<1>5. QED BY <1>2, <1>3, <1>4 DEF DevicesNext, Ps2Step

\* The screen shows the line that will be executed, and nothing behind it, on every screen,
\* for every prompt and everything commands print, as long as the line was not wrapped and no
\* key came while shell_init wrote.
THEOREM LineIsShown == DevicesSpec => []LineOnScreen
<1>1. ASSUME LineInv PROVE LineOnScreen
  <2> DEFINE b == start
             w == FontWidth
             n == Len(line)
             g(c) == line[(c - b[1]) \div w + 1]
             p(r, c) == IF c >= console.x \/ g(c) = Space THEN Blank
                        ELSE <<g(c), r, (c - b[1]) % w>>
             Cell(r, c) == console.pixel[console.y + r][c] = p(r, c)
  <2>1. SUFFICES ASSUME Initialised, quiet, start # Nowhere
                 PROVE  /\ console.x = b[1] + n * w /\ console.y = b[2]
                        /\ \A r \in 0..(FontHeight - 1), c \in b[1]..(ScreenWidth - Padding - 1) : Cell(r, c)
    BY DEF LineOnScreen
  <2>2. Typed(console, line, b) /\ Neat(console)
    BY <1>1, <2>1 DEF LineInv, Shown, Written, Initialised
  <2>3. /\ line \in Seq(Printable) /\ n \in Nat /\ b[1] \in Int /\ b[1] >= Padding /\ b[2] = console.y
        /\ console.x = b[1] + n * w
    BY <2>2 DEF Typed
  <2>4. /\ console.x \in Int /\ console.y \in Int /\ console.y >= Padding
        /\ Blanks(console, console.x, console.y)
    BY <2>2, Sizes DEF Neat, Within, ConsoleType
  <2>5. ASSUME NEW r \in 0..(FontHeight - 1), NEW c \in b[1]..(ScreenWidth - Padding - 1)
        PROVE  Cell(r, c)
    <3>1. console.y + r \in console.y..(Bottom - 1)
      BY <2>2, LinePixels
    <3>2. c \in TextCols /\ c \in Int
      BY <2>3, Sizes DEF TextCols
    <3>3. CASE c >= console.x
      <4>1. console.pixel[console.y + r][c] = Blank
        BY <2>4, <3>1, <3>2, <3>3 DEF Blanks
      <4>2. QED BY <3>3, <4>1
    <3>4. CASE ~(c >= console.x)
      <4> DEFINE k == c - b[1]
                 q == k \div w
                 e == k % w
                 m == n * w
      <4>1. m \in Nat
        BY <2>3, Columns, Sizes
      <4>2. k \in 0..(m - 1)
        <5> HIDE DEF m
        <5>1. console.x = b[1] + m
          BY <2>3 DEF m
        <5>2. QED BY <2>3, <3>2, <3>4, <4>1, <5>1
      <4> HIDE DEF k
      <4>3. q \in 0..(n - 1) /\ e \in 0..(w - 1) /\ k = q * w + e
        <5>1. n \in Nat /\ w \in Nat \ {0}
          BY <2>3, Sizes
        <5>2. \A j \in 0..(n * w - 1) :
                /\ j \div w \in 0..(n - 1) /\ j % w \in 0..(w - 1)
                /\ j = (j \div w) * w + (j % w)
          BY <5>1, Columns
        <5>3. QED BY <4>2, <5>2, Zenon
      <4> HIDE DEF q, e, m
      <4>4. q + 1 \in 1..n /\ (q + 1) - 1 = q
        BY <2>3, <4>3
      <4>5. console.pixel[console.y + r][b[1] + ((q + 1) - 1) * w + e]
              = IF line[q + 1] = Space THEN Blank ELSE <<line[q + 1], r, e>>
        BY <2>2, <4>3, <4>4 DEF Typed
      <4>6. b[1] + ((q + 1) - 1) * w + e = c
        <5>1. q * w \in Int
          BY <4>3, Sizes
        <5>2. c = b[1] + k
          BY <2>3, <3>2 DEF k
        <5>3. QED BY <2>3, <4>3, <4>4, <5>1, <5>2
      <4>7. console.pixel[console.y + r][c] = IF line[q + 1] = Space THEN Blank ELSE <<line[q + 1], r, e>>
        BY <4>5, <4>6
      <4>8. g(c) = line[q + 1] /\ e = (c - b[1]) % w
        BY DEF q, e, k
      <4>9. QED BY <3>4, <4>7, <4>8
    <3>5. QED BY <3>3, <3>4
  <2> HIDE DEF Cell
  <2>6. QED BY <2>3, <2>5
<1>2. QED
  BY <1>1, CursorInit, CursorStep, LineInit, LineStep, PTL DEF DevicesSpec
=============================================================================
