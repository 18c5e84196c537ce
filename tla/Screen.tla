--------------------------------- MODULE Screen ---------------------------------
(***************************************************************************)
(* The frame buffer the boot loader hands over.  Its size is what the text *)
(* console, the mouse driver and the compositor stay within.               *)
(***************************************************************************)
EXTENDS Integers

CONSTANTS ScreenWidth, ScreenHeight    \* in pixels

ASSUME ScreenAssumption == ScreenWidth \in Nat \ {0} /\ ScreenHeight \in Nat \ {0}

Blank     == <<>>
PixelRows == 0..(ScreenHeight - 1)
PixelCols == 0..(ScreenWidth - 1)
=================================================================================
