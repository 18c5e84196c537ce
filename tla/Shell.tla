--------------------------------- MODULE Shell ---------------------------------
(***************************************************************************)
(* The shell's line editor on the text console.  shell_handle_char runs in *)
(* the keyboard interrupt, where nothing interrupts it; shell_init runs in *)
(* thread 0 with interrupts already on, so that a key may come between any *)
(* two of its steps, and between the load and the store of the cursor in   *)
(* fb_putchar, which nothing keeps together.                               *)
(*                                                                         *)
(* A command is what it puts on the screen: what it does to files is in    *)
(* module FileClients, and gui, which does not return, in Scheduler.  The  *)
(* history has no reader and is left out, like the copy on the serial port.*)
(***************************************************************************)
EXTENDS Console, SequencesExt

CONSTANTS
  LineSize,    \* MAX_LINE_LEN: 256
  Banner,      \* what shell_init writes first
  Prompt,      \* "vailism-os:/ "
  Outputs      \* bound: what a command does to the screen

Printable == 32..126

\* The banner has lines, the prompt is in one; no command writes a carriage return.
ASSUME ShellAssumption ==
  /\ LineSize \in Nat \ {0}
  /\ Banner \in Seq(Printable \cup {Newline}) /\ Prompt \in Seq(Printable) /\ Prompt # <<>>
  /\ Outputs \subseteq [clear : BOOLEAN, text : Seq(Nat \ {Return})]

VARIABLES
  console,   \* the cursor and the pixels
  line,      \* g_line_buffer up to g_line_len
  task,      \* shell_init: what it has still to write, where it is, what it has loaded
  start,     \* where the line begins on the screen, Nowhere when it has been wrapped
  quiet      \* no key has come while shell_init ran

shellVars == <<console, line, task, start, quiet>>

Nowhere == <<>>

\* fb_puts
Puts(s, text) ==
  LET put[k \in 0..Len(text)] == IF k = 0 THEN s ELSE Put(put[k - 1], text[k])
  IN put[Len(text)]

Initialised  == task.at = "next" /\ task.todo = <<>>
Initialising == ~Initialised /\ task.at # "start"

ShellBoot ==
  /\ console = Clear
  /\ line = <<>>
  /\ task = [todo |-> Banner \o Prompt, at |-> "start", held |-> 0]
  /\ start = Nowhere /\ quiet = TRUE

-----------------------------------------------------------------------------
\* shell_init, in thread 0.

At(step) == task.at = step /\ UNCHANGED <<line, quiet>>
Goes(step) == task' = [task EXCEPT !.at = step]

\* The character is on the screen, or the newline done: after one that was only there
\* because the line is full, the character follows.
Done(wrapping) ==
  task' = IF wrapping THEN [task EXCEPT !.at = "draw"]
          ELSE [task EXCEPT !.at = "next", !.todo = Tail(@)]

Wrapping == Head(task.todo) # Newline

Reset ==
  /\ task.at = "start"
  /\ line' = <<>>
  /\ Goes("wipe")
  /\ UNCHANGED <<console, start, quiet>>

\* memset: what was typed since the line was emptied becomes NULs, and stays in the line.
Wipe ==
  /\ task.at = "wipe"
  /\ line' = [i \in DOMAIN line |-> 0]
  /\ Goes("next")
  /\ UNCHANGED <<console, start, quiet>>

Begin ==
  /\ At("next") /\ task.todo # <<>>
  /\ IF Head(task.todo) = Newline \/ LineFull(console)
     THEN console' = [console EXCEPT !.x = Padding] /\ Goes("down")
     ELSE Goes("draw") /\ UNCHANGED console
  /\ UNCHANGED start

\* g_cursor_y += FONT_HEIGHT + 4
LoadDown ==
  At("down") /\ task' = [task EXCEPT !.at = "lower", !.held = console.y]
  /\ UNCHANGED <<console, start>>
Lower ==
  At("lower") /\ console' = [console EXCEPT !.y = task.held + RowHeight] /\ Goes("test")
  /\ UNCHANGED start

Test ==
  /\ At("test")
  /\ IF TooLow(console) THEN console' = Scrolled(console) /\ Goes("up")
     ELSE Done(Wrapping) /\ UNCHANGED console
  /\ UNCHANGED start

\* g_cursor_y -= FONT_HEIGHT + 4
LoadUp ==
  At("up") /\ task' = [task EXCEPT !.at = "raise", !.held = console.y]
  /\ UNCHANGED <<console, start>>
Raise ==
  At("raise") /\ console' = [console EXCEPT !.y = task.held - RowHeight] /\ Done(Wrapping)
  /\ UNCHANGED start

Draw ==
  At("draw") /\ console' = Drawn(console, Head(task.todo)) /\ Goes("across")
  /\ UNCHANGED start

\* g_cursor_x += FONT_WIDTH
LoadAcross ==
  At("across") /\ task' = [task EXCEPT !.at = "advance", !.held = console.x]
  /\ UNCHANGED <<console, start>>
Advance ==
  /\ At("advance")
  /\ console' = [console EXCEPT !.x = task.held + FontWidth]
  /\ Done(FALSE)
  /\ start' = IF Len(task.todo) = 1 /\ line = <<>> THEN <<console'.x, console.y>> ELSE start

ShellInit ==
  \/ Reset \/ Wipe \/ Begin \/ LoadDown \/ Lower \/ Test \/ LoadUp \/ Raise
  \/ Draw \/ LoadAcross \/ Advance

-----------------------------------------------------------------------------
\* shell_handle_char, in the keyboard interrupt.

\* What shell_execute_command leaves on the screen.
Executed(s, out) == Puts(IF out.clear THEN Clear ELSE s, out.text)

Enter ==
  /\ \E out \in Outputs :
       LET below == Put(console, Newline)
       IN console' = Puts(IF line = <<>> THEN below ELSE Executed(below, out), Prompt)
  /\ line' = <<>>
  /\ start' = <<console'.x, console'.y>>

RubOut ==
  /\ IF line # <<>> THEN line' = Front(line) /\ console' = Put(console, Backspace)
     ELSE UNCHANGED <<line, console>>
  /\ UNCHANGED start

Type(ch) ==
  IF ch \in Printable /\ Len(line) < LineSize - 1
  THEN /\ line' = Append(line, ch)
       /\ console' = Put(console, ch)
       /\ start' = IF LineFull(console) THEN Nowhere ELSE start
  ELSE UNCHANGED <<line, console, start>>

HandleChar(ch) ==
  /\ CASE ch \in {Return, Newline} -> Enter
       [] ch = Backspace -> RubOut
       [] OTHER -> Type(ch)
  /\ quiet' = (quiet /\ ~Initialising)
  /\ UNCHANGED task

-----------------------------------------------------------------------------
\* Properties.

\* The cursor and the character it would draw stay on the screen, whatever keys come
\* while shell_init writes: the margin takes up the one step a lost update may be off.
CursorOnScreen ==
  /\ console.x \in Padding..(ScreenWidth - FontWidth)
  /\ console.y \in 0..(ScreenHeight - FontHeight)

\* As long as a line has not been wrapped, the screen shows after the prompt what the
\* shell will execute, and nothing behind it, unless a key came while shell_init wrote.
LineOnScreen ==
  Initialised /\ quiet /\ start # Nowhere =>
    LET shown(c) == line[(c - start[1]) \div FontWidth + 1]
        pixel(r, c) == IF c >= console.x \/ shown(c) = Space THEN Blank
                       ELSE <<shown(c), r, (c - start[1]) % FontWidth>>
    IN /\ console.x = start[1] + Len(line) * FontWidth
       /\ console.y = start[2]
       /\ \A r \in 0..(FontHeight - 1), c \in start[1]..(ScreenWidth - Padding - 1) :
            console.pixel[console.y + r][c] = pixel(r, c)
================================================================================
