-------------------------------- MODULE Console --------------------------------
(***************************************************************************)
(* The text console: a cursor, and pixels.  A character is drawn as a box  *)
(* of pixels in rows; the text stays inside a margin; the newline that     *)
(* would leave it moves the pixels of the text area up instead.  Colours   *)
(* are left out.                                                           *)
(***************************************************************************)
EXTENDS Screen

CONSTANTS
  FontWidth, FontHeight,   \* 8 and 16
  RowHeight,               \* FONT_HEIGHT + 4
  Padding                  \* PADDING_X and PADDING_Y: 24

ASSUME ConsoleAssumption ==
  /\ FontWidth \in Nat \ {0} /\ FontHeight \in Nat \ {0}
  /\ RowHeight >= FontHeight /\ Padding >= RowHeight /\ Padding >= 2 * FontWidth
  /\ RowHeight \in Nat /\ Padding \in Nat
  /\ ScreenWidth > 2 * Padding + FontWidth /\ ScreenHeight > 2 * Padding + RowHeight

Newline   == 10
Return    == 13
Backspace == 8
Tab       == 9
Space     == 32

TextCols == Padding..(ScreenWidth - Padding - 1)

\* fb_clear: the pixels and the cursor.
Clear ==
  [x |-> Padding, y |-> Padding, pixel |-> [r \in PixelRows |-> [c \in PixelCols |-> Blank]]]

\* draw_char_at: what a pixel shows is the character and its place in the glyph.
Drawn(s, ch) ==
  [s EXCEPT !.pixel =
     [r \in PixelRows |-> [c \in PixelCols |->
        IF r \in s.y..(s.y + FontHeight - 1) /\ c \in s.x..(s.x + FontWidth - 1)
        THEN IF ch = Space THEN Blank ELSE <<ch, r - s.y, c - s.x>>
        ELSE s.pixel[r][c]]]]

\* The bottom row the text may not reach.
Bottom == ScreenHeight - Padding

\* fb_scroll: the text area goes up by one line of text, and its last line is cleared.
Scrolled(s) ==
  [s EXCEPT !.pixel =
     [r \in PixelRows |-> [c \in PixelCols |->
        IF c \notin TextCols \/ r \notin Padding..(Bottom - 1) THEN s.pixel[r][c]
        ELSE IF r < Bottom - RowHeight THEN s.pixel[r + RowHeight][c] ELSE Blank]]]

\* The parts of fb_putchar's newline: the cursor goes down, and when it is too low the
\* text goes up under it, and then the cursor.
Lowered(s) == [s EXCEPT !.x = Padding, !.y = @ + RowHeight]
TooLow(s)  == s.y + FontHeight + Padding >= ScreenHeight
Raised(s)  == [s EXCEPT !.y = @ - RowHeight]

\* Mutant: the cursor does not go up with the text.
NewLineDrifts(s) == IF TooLow(Lowered(s)) THEN Scrolled(Lowered(s)) ELSE Lowered(s)

NewLine(s) == IF TooLow(Lowered(s)) THEN Raised(Scrolled(Lowered(s))) ELSE Lowered(s)

\* The next character does not fit in the line.
LineFull(s) == s.x + FontWidth + Padding >= ScreenWidth

Advanced(s) == [s EXCEPT !.x = @ + FontWidth]

\* Mutant: the character that is rubbed out stays on the screen.
BackOnly(s) == IF s.x >= Padding + FontWidth THEN [s EXCEPT !.x = @ - FontWidth] ELSE s

\* Rubbing out never leaves the line.
Back(s) ==
  IF s.x >= Padding + FontWidth THEN Drawn([s EXCEPT !.x = @ - FontWidth], Space) ELSE s

Glyph(s, ch) == Advanced(Drawn(IF LineFull(s) THEN NewLine(s) ELSE s, ch))

\* fb_putchar, when nothing comes between its steps.  A tab is four spaces.
Put(s, ch) ==
  CASE ch = Newline   -> NewLine(s)
    [] ch = Return    -> [s EXCEPT !.x = Padding]
    [] ch = Backspace -> Back(s)
    [] ch = Tab       -> Glyph(Glyph(Glyph(Glyph(s, Space), Space), Space), Space)
    [] OTHER          -> Glyph(s, ch)
================================================================================
