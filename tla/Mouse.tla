--------------------------------- MODULE Mouse ---------------------------------
(***************************************************************************)
(* The mouse driver's decoder: three bytes make a packet, and the driver   *)
(* keeps its place between the interrupts.  The right and middle buttons   *)
(* have no reader and are left out.                                        *)
(***************************************************************************)
EXTENDS Screen

CONSTANTS FirstWidth, FirstHeight    \* the size mouse_init is told: 1280 and 800

ASSUME MouseAssumption == FirstWidth \in Nat /\ FirstHeight \in Nat

\* Whether the bit with this value is set in a byte.
Bit(byte, mask) == (byte \div mask) % 2 = 1

\* (int8_t)
Signed(byte) == IF byte < 128 THEN byte ELSE byte - 256

Clamp(v, size) == IF v < 0 THEN 0 ELSE IF v >= size THEN size - 1 ELSE v

Overflow(header) == Bit(header, 64) \/ Bit(header, 128)

\* mouse_init, then mouse_set_screen_dimensions from gui_init.
MouseInit ==
  [cycle |-> 0, packet |-> <<0, 0, 0>>, left |-> FALSE,
   x |-> IF FirstWidth \div 2 >= ScreenWidth THEN ScreenWidth \div 2 ELSE FirstWidth \div 2,
   y |-> IF FirstHeight \div 2 >= ScreenHeight THEN ScreenHeight \div 2 ELSE FirstHeight \div 2]

\* A whole packet: one that says its movement overflowed is dropped, buttons and all.
Moved(m) ==
  LET p == m.packet
  IN IF Overflow(p[1]) THEN m
     ELSE [m EXCEPT !.left = Bit(p[1], 1),
                    !.x = Clamp(@ + Signed(p[2]), ScreenWidth),
                    !.y = Clamp(@ - Signed(p[3]), ScreenHeight)]

\* mouse_handle_byte: a first byte without bit 3 is skipped.
MouseByte(m, byte) ==
  LET taken == [m EXCEPT !.packet[m.cycle + 1] = byte, !.cycle = (m.cycle + 1) % 3]
  IN IF m.cycle = 0 /\ ~Bit(byte, 8) THEN m
     ELSE IF m.cycle = 2 THEN Moved(taken) ELSE taken
================================================================================
