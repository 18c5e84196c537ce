------------------------------- MODULE Keyboard -------------------------------
(***************************************************************************)
(* The keyboard driver's decoder: one scan code at a time, with what shift *)
(* and caps lock were last.  Ctrl and alt are kept too, but nothing reads  *)
(* them: they are left out, with the log of the first ten codes.           *)
(***************************************************************************)
EXTENDS Integers

CONSTANT KeyMap    \* the two tables: code -> its characters [low, up]; 0 is none

Break     == 128
LeftShift  == 42
RightShift == 54
CapsLock  == 58
Shifts    == {LeftShift, RightShift}

ASSUME KeyMapAssumption == DOMAIN KeyMap \subseteq 0..(Break - 1)

\* keyboard_init
KeyboardInit == [shift |-> FALSE, caps |-> FALSE]

\* Mutant: the release of the right shift key is not known.
ShiftAfterLeft(shift, code) ==
  IF code \in Shifts THEN TRUE ELSE IF code = LeftShift + Break THEN FALSE ELSE shift

\* Either key sets it, and the release of either clears it.
ShiftAfter(shift, code) ==
  IF code \in Shifts THEN TRUE ELSE IF code - Break \in Shifts THEN FALSE ELSE shift

\* keyboard_handle_scancode: the decoder afterwards, and the character the shell gets.
Scancode(k, code) ==
  [shift |-> ShiftAfter(k.shift, code),
   caps |-> IF code = CapsLock THEN ~k.caps ELSE k.caps]

Character(k, code) ==
  IF code \in DOMAIN KeyMap \ (Shifts \cup {CapsLock})
  THEN IF k.shift # k.caps THEN KeyMap[code].up ELSE KeyMap[code].low
  ELSE 0
===============================================================================
