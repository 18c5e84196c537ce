---------------------------------- MODULE Ps2 ----------------------------------
(***************************************************************************)
(* The PS/2 controller with its two devices, the two interrupt handlers,   *)
(* and the kernel's thread 0 from ps2_init to the shell's prompt.          *)
(*                                                                         *)
(* The controller has one byte for the CPU, marked when it comes from the  *)
(* mouse, and takes no other from a device until that one is read.  While  *)
(* the drivers are set up, interrupts are off and the CPU polls; the byte  *)
(* it reads may be a key's.  A reply that is late is left to the handlers. *)
(* Controller, keyboard and mouse are external: the drivers' reads and     *)
(* writes of their ports are not.                                          *)
(***************************************************************************)
EXTENDS Keyboard, Mouse, Shell

CONSTANTS
  Scenarios,   \* bound: the keys, whether they are released, how often; if there is a mouse, packets
  Packets      \* bound: what the mouse may report

ASSUME Ps2Assumption ==
  /\ Scenarios \subseteq [keys : SUBSET (0..511), ups : SUBSET BOOLEAN, events : Nat,
                          mouse : BOOLEAN, packets : Nat, calls : Nat]
  /\ Packets \subseteq [left : BOOLEAN, dx : -127..127, dy : -127..127, over : BOOLEAN]

VARIABLES
  boot,     \* what thread 0 has still to do before the interrupts are on
  buffer,   \* the controller's output buffer: empty, or one byte and where it is from
  ports,    \* the devices the controller listens to
  irqs,     \* the interrupts it may raise
  raised,   \* interrupts that wait for the CPU
  keyQ,     \* bytes the keyboard has still to send
  mouseQ,   \* bytes the mouse has still to send
  asked,    \* commands the mouse has not replied to
  streams,  \* the mouse reports what happens to it
  down,     \* keys that are down
  kbd,      \* the keyboard driver's state
  mouse,    \* the mouse driver's state
  replies,  \* replies of the mouse that mouse_init has read
  moved,    \* what the packets come to: the pointer and the left button
  budget    \* what the scenario has left

ps2Vars == <<boot, buffer, ports, irqs, raised, keyQ, mouseQ, asked, streams, down, kbd, mouse,
             replies, moved, budget>>
devices == <<keyQ, mouseQ, asked, streams, down, moved, budget>>
drivers == <<kbd, mouse>>

Ack      == 250
Defaults == 246    \* 0xF6
Stream   == 244    \* 0xF4
Empty    == <<>>

InterruptsOn == boot = <<>>
Irq(b)       == IF b.aux THEN 12 ELSE 1

Pointer(m) == [x |-> m.x, y |-> m.y, left |-> m.left]

Init ==
  /\ boot = <<"configure", "keyboard", "mouse", "defaults", "poll", "stream", "poll", "disk", "sti">>
  /\ buffer \in {Empty, <<[aux |-> FALSE, byte |-> 30]>>}
  /\ ports = {"keyboard", "mouse"}
  /\ irqs \in SUBSET {1, 12} /\ raised = {}
  /\ keyQ = <<>> /\ mouseQ = <<>> /\ asked = <<>> /\ streams = FALSE /\ down = {}
  /\ kbd = KeyboardInit /\ mouse = MouseInit
  /\ replies = 0 /\ moved = Pointer(MouseInit)
  /\ budget \in Scenarios
  /\ ShellBoot

-----------------------------------------------------------------------------
\* The devices.

\* What a key sends: a code of its own, or one behind a prefix.
Sends(key, up) ==
  LET code == (key % 256) + (IF up THEN Break ELSE 0)
  IN IF key > 255 THEN <<224, code>> ELSE <<code>>

\* A key is pressed, repeats, or is released.  Bound: not before the last one is sent.
Key ==
  /\ budget.events > 0 /\ keyQ = <<>>
  /\ \E key \in budget.keys, up \in budget.ups :
       /\ up => key \in down
       /\ keyQ' = keyQ \o Sends(key, up)
       /\ down' = IF up THEN down \ {key} ELSE down \cup {key}
  /\ budget' = [budget EXCEPT !.events = @ - 1]
  /\ UNCHANGED <<shellVars, boot, buffer, ports, irqs, raised, mouseQ, asked, streams, drivers,
                 replies, moved>>

Reply ==
  /\ asked # <<>> /\ budget.mouse
  /\ mouseQ' = Append(mouseQ, Ack)
  /\ streams' = (Head(asked) = Stream)
  /\ asked' = Tail(asked)
  /\ UNCHANGED <<shellVars, boot, buffer, ports, irqs, raised, keyQ, down, drivers, replies,
                 moved, budget>>

\* The mouse reports in packets of three, the next one when the last is out.
Report ==
  /\ streams /\ mouseQ = <<>> /\ budget.packets > 0
  /\ \E p \in Packets :
       LET bit(b, mask) == IF b THEN mask ELSE 0
       IN /\ mouseQ' = <<8 + bit(p.left, 1) + bit(p.dx < 0, 16) + bit(p.dy < 0, 32) + bit(p.over, 64),
                         p.dx % 256, p.dy % 256>>
          /\ moved' = IF p.over THEN moved
                      ELSE [x |-> Clamp(moved.x + p.dx, ScreenWidth),
                            y |-> Clamp(moved.y - p.dy, ScreenHeight), left |-> p.left]
  /\ budget' = [budget EXCEPT !.packets = @ - 1]
  /\ UNCHANGED <<shellVars, boot, buffer, ports, irqs, raised, keyQ, asked, streams, down, drivers,
                 replies>>

\* A byte comes to the output buffer, and the interrupt is raised.
Arrive(b) ==
  /\ buffer = Empty
  /\ buffer' = <<b>>
  /\ raised' = raised \cup ({Irq(b)} \cap irqs)
  /\ UNCHANGED <<shellVars, boot, ports, irqs, asked, streams, down, drivers, replies, moved, budget>>

KeyArrives ==
  /\ "keyboard" \in ports /\ keyQ # <<>>
  /\ Arrive([aux |-> FALSE, byte |-> Head(keyQ)])
  /\ keyQ' = Tail(keyQ) /\ UNCHANGED mouseQ

MouseArrives ==
  /\ "mouse" \in ports /\ mouseQ # <<>>
  /\ Arrive([aux |-> TRUE, byte |-> Head(mouseQ)])
  /\ mouseQ' = Tail(mouseQ) /\ UNCHANGED keyQ

-----------------------------------------------------------------------------
\* Thread 0.

Boots(step) == boot # <<>> /\ Head(boot) = step /\ boot' = Tail(boot)

\* Mutant: the configuration is written back as it was read.
ConfigureKept ==
  /\ Boots("configure")
  /\ ports' = {} /\ buffer' = Empty /\ raised' = {} /\ irqs' = irqs
  /\ UNCHANGED <<shellVars, devices, drivers, replies>>

\* ps2_init up to the new configuration: the ports are off, the output buffer is emptied,
\* and so is the reply that holds the old configuration.
Configure ==
  /\ Boots("configure")
  /\ ports' = {} /\ buffer' = Empty /\ raised' = {} /\ irqs' = {1, 12}
  /\ UNCHANGED <<shellVars, devices, drivers, replies>>

EnablePort ==
  /\ \E port \in {"keyboard", "mouse"} : Boots(port) /\ ports' = ports \cup {port}
  /\ UNCHANGED <<shellVars, buffer, irqs, raised, devices, drivers, replies>>

\* ps2_mouse_write
Order ==
  /\ \E c \in {"defaults", "stream"} :
       /\ Boots(c)
       /\ asked' = Append(asked, IF c = "defaults" THEN Defaults ELSE Stream)
  /\ UNCHANGED <<shellVars, buffer, ports, irqs, raised, keyQ, mouseQ, streams, down, moved, budget,
                 drivers, replies>>

\* ps2_read_data: the byte that is there, whoever sent it, or none in time.  Its
\* interrupt may stay raised.
Poll ==
  /\ Boots("poll")
  /\ buffer' = Empty
  /\ replies' = IF buffer # Empty /\ buffer[1].aux THEN replies + 1 ELSE replies
  /\ raised' \in {raised, {}}
  /\ UNCHANGED <<shellVars, ports, irqs, devices, drivers>>

Sti ==
  /\ Boots("sti")
  /\ UNCHANGED <<shellVars, buffer, ports, irqs, raised, devices, drivers, replies>>

ShellStarts == InterruptsOn /\ ShellInit /\ UNCHANGED ps2Vars

-----------------------------------------------------------------------------
\* The interrupts.  Either handler takes the byte that is there, and gives it to the
\* driver it is for.

\* keyboard_handle_scancode
HandleScancode(code) ==
  /\ kbd' = Scancode(kbd, code)
  /\ IF Character(kbd, code) = 0 THEN UNCHANGED shellVars ELSE HandleChar(Character(kbd, code))
  /\ UNCHANGED mouse

\* mouse_handle_byte
HandleMouse(byte) == mouse' = MouseByte(mouse, byte) /\ UNCHANGED <<kbd, shellVars>>

\* Mutant: the byte is taken for one of the device whose interrupt it is.
CallbackByIrq(irq) ==
  IF buffer = Empty THEN UNCHANGED <<buffer, drivers, shellVars>>
  ELSE /\ buffer' = Empty
       /\ IF irq = 12 THEN HandleMouse(buffer[1].byte) ELSE HandleScancode(buffer[1].byte)

\* keyboard_callback and mouse_callback
Callback(irq) ==
  IF buffer = Empty THEN UNCHANGED <<buffer, drivers, shellVars>>
  ELSE /\ buffer' = Empty
       /\ IF buffer[1].aux THEN HandleMouse(buffer[1].byte) ELSE HandleScancode(buffer[1].byte)

Interrupt ==
  /\ InterruptsOn
  /\ \E irq \in raised : raised' = raised \ {irq} /\ Callback(irq)
  /\ UNCHANGED <<boot, ports, irqs, devices, replies>>

-----------------------------------------------------------------------------
\* Properties.

\* A byte the CPU does not read blocks both devices for good: one that waits has an
\* interrupt that will have it read.
NoByteIsStuck == InterruptsOn /\ buffer # Empty => Irq(buffer[1]) \in raised

\* When both replies of the mouse were read by mouse_init, and not by the handlers, the
\* decoder is in step with the mouse: once a packet is through, the pointer and the button
\* are what the packets up to it come to.
PointerAsMoved ==
  InterruptsOn /\ replies = 2 /\ mouseQ = <<>> /\ (buffer # Empty => ~buffer[1].aux)
    => mouse.cycle = 0 /\ Pointer(mouse) = moved

\* Once every key is up and all they sent is through, shift is off: at boot too, where the
\* driver may hear of a release only, or of nothing.
ShiftReleased ==
  InterruptsOn /\ down = {} /\ keyQ = <<>> /\ (buffer # Empty => buffer[1].aux)
    => ~kbd.shift
================================================================================
