---------------------------------- MODULE Gui ----------------------------------
(***************************************************************************)
(* The window manager and the compositor: a loop that looks at the mouse,  *)
(* moves windows, and paints a frame.  The mouse may be anywhere on the    *)
(* screen in every frame, and with interrupts on even between the two      *)
(* looks at it.                                                            *)
(*                                                                         *)
(* A frame is, for every pixel, what was painted there last: the desktop,  *)
(* a window's shadow, a window, or a bar.  Colours, text, outlines and the *)
(* pointer's own picture are left out; what a window shows is taken to fit *)
(* in it, as it does at the sizes gui_init gives on a large screen.        *)
(***************************************************************************)
EXTENDS Screen, SequencesExt

CONSTANTS
  MaxWindows,   \* MAX_WINDOWS: 8
  Topbar,       \* TOPBAR_HEIGHT: 36
  Titlebar,     \* TITLEBAR_HEIGHT: 32
  Taskbar,      \* TASKBAR_HEIGHT: 40
  Shadow,       \* 8
  CloseFrom,    \* where the close button is in the title bar: 8 to 28
  CloseTo,
  Margin,       \* distances of the first windows from the sides and the bars: 32,
  Gap, LowGap,  \* 24 and 36
  Large,        \* a screen wider than 900, higher than 700
  Sizes,        \* has windows of these sizes
  Pointers      \* bound: where the mouse is when the loop looks at it

ASSUME GuiAssumption ==
  /\ MaxWindows \in Nat /\ MaxWindows >= 3
  /\ {Topbar, Titlebar, Taskbar, Shadow, CloseFrom, CloseTo, Margin, Gap, LowGap} \subseteq Nat
  /\ CloseFrom > 0 /\ Taskbar > 0
  /\ Large \in [w : Nat, h : Nat] /\ Sizes \in [1..3 -> [w : Nat, h : Nat]]
  /\ Pointers \subseteq PixelCols \X PixelRows

VARIABLES
  window,   \* g_windows, the last one is on top
  active,   \* g_active_window
  turn,     \* what the loop does next
  pointer,  \* where it saw the mouse last
  frame     \* the frame buffer

vars == <<window, active, turn, pointer, frame>>

None    == 0
Pixels  == PixelCols \X PixelRows
Windows == 1..Len(window)

\* What a pixel may show besides a window.
Text     == -1    \* the console, before the first frame
Desktop  == -2
Bar      == -3
Shade    == -4

-----------------------------------------------------------------------------
\* Painting.

Rect(x, y, w, h) == [x |-> x, y |-> y, w |-> w, h |-> h]

Inside(p, r) == p[1] \in r.x..(r.x + r.w - 1) /\ p[2] \in r.y..(r.y + r.h - 1)

\* draw_rect, clipped to the screen.
DrawRect(f, r, what) == [p \in Pixels |-> IF Inside(p, r) THEN what ELSE f[p]]

\* A visible window with its shadow.
DrawWindow(f, i) ==
  LET w == window[i]
      shadow == DrawRect(f, Rect(w.x + Shadow, w.y + Shadow, w.w, w.h), Shade)
  IN IF w.visible THEN DrawRect(shadow, Rect(w.x, w.y, w.w, w.h), i) ELSE f

\* Mutant: the last window is painted first.
PaintBackwards(f) == FoldRight(LAMBDA i, g : DrawWindow(g, i), [i \in Windows |-> i], f)

PaintWindows(f) ==
  LET painted[k \in 0..Len(window)] == IF k = 0 THEN f ELSE DrawWindow(painted[k - 1], k)
  IN painted[Len(window)]

\* The height of the gradient behind the windows.
DesktopHeight == ScreenHeight - Topbar - Taskbar

\* gui_render_frame
Render ==
  LET desktop == DrawRect(frame, Rect(0, Topbar, ScreenWidth, DesktopHeight), Desktop)
      topbar  == DrawRect(PaintWindows(desktop), Rect(0, 0, ScreenWidth, Topbar), Bar)
  IN /\ turn = "render" /\ turn' = "mouse"
     /\ frame' = DrawRect(topbar, Rect(0, ScreenHeight - Taskbar, ScreenWidth, Taskbar), Bar)
     /\ UNCHANGED <<window, active, pointer>>

-----------------------------------------------------------------------------
\* The mouse.

\* One pixel further to the right and down than the window is painted.
Over(p, w) == p[1] \in w.x..(w.x + w.w) /\ p[2] \in w.y..(w.y + w.h)

\* The loop over the windows, from the top: the one a press at p is for.
Hit(p) ==
  LET hits == {i \in Windows : window[i].visible /\ Over(p, window[i])}
  IN IF hits = {} THEN None ELSE CHOOSE i \in hits : \A j \in hits : j <= i

OnTitle(p, w) == p[2] <= w.y + Titlebar
OnClose(p, w) == OnTitle(p, w) /\ p[1] \in (w.x + CloseFrom)..(w.x + CloseTo)

Dragging == active # None /\ window[active].dragging

Looks(p) == turn = "mouse" /\ turn' = "render" /\ pointer' = p /\ UNCHANGED frame

\* Mutant: the window that was closed stays the active one.
CloseActive(p) ==
  /\ ~Dragging
  /\ LET i == Hit(p)
     IN /\ i # None /\ OnClose(p, window[i])
        /\ window' = [window EXCEPT ![i].visible = FALSE]
        /\ UNCHANGED active

Close(p) ==
  /\ ~Dragging
  /\ LET i == Hit(p)
     IN /\ i # None /\ OnClose(p, window[i])
        /\ window' = [window EXCEPT ![i].visible = FALSE]
        /\ active' = IF active = i THEN None ELSE active

\* The title bar is grabbed where the pointer is.
Grab(p) ==
  /\ ~Dragging
  /\ LET i == Hit(p)
         w == window[i]
     IN /\ i # None /\ OnTitle(p, w) /\ ~OnClose(p, w)
        /\ window' = [window EXCEPT ![i].dragging = TRUE, ![i].dx = p[1] - w.x, ![i].dy = p[2] - w.y]
        /\ active' = i

Activate(p) ==
  /\ ~Dragging
  /\ LET i == Hit(p)
     IN i # None /\ ~OnTitle(p, window[i]) /\ active' = i
  /\ UNCHANGED window

Miss(p) == ~Dragging /\ Hit(p) = None /\ UNCHANGED <<window, active>>

\* Mutant: only the top bar is kept free.
BetweenTop(y, h) == IF y < Topbar THEN Topbar ELSE y

\* Between the bars; the taskbar has the last word.
Between(y, h) ==
  LET below == IF y < Topbar THEN Topbar ELSE y
  IN IF below + h > ScreenHeight - Taskbar THEN ScreenHeight - Taskbar - h ELSE below

\* Mutant: the window's corner goes to the pointer.
DragCorner(p) ==
  /\ Dragging
  /\ window' = [window EXCEPT ![active].x = p[1], ![active].y = Between(p[2], window[active].h)]
  /\ UNCHANGED active

Drag(p) ==
  /\ Dragging
  /\ LET w == window[active]
     IN window' = [window EXCEPT ![active].x = p[1] - w.dx, ![active].y = Between(p[2] - w.dy, w.h)]
  /\ UNCHANGED active

Release ==
  /\ window' = [i \in Windows |-> [window[i] EXCEPT !.dragging = FALSE]]
  /\ UNCHANGED active

\* gui_handle_mouse
HandleMouse ==
  \E p \in Pointers :
    /\ Looks(p)
    /\ Close(p) \/ Grab(p) \/ Activate(p) \/ Miss(p) \/ Drag(p) \/ Release

-----------------------------------------------------------------------------

\* gui_create_window
Created(ws, r) ==
  IF Len(ws) >= MaxWindows THEN ws
  ELSE Append(ws, [x |-> r.x, y |-> r.y, w |-> r.w, h |-> r.h, visible |-> TRUE,
                   dragging |-> FALSE, dx |-> 0, dy |-> 0])

\* The places and sizes of the three windows gui_init makes.
Shares == << [w |-> 48, h |-> 48], [w |-> 48, h |-> 50], [w |-> 46, h |-> 42] >>

Width(i)  == IF ScreenWidth > Large.w THEN Sizes[i].w ELSE (ScreenWidth * Shares[i].w) \div 100
Height(i) == IF ScreenHeight > Large.h THEN Sizes[i].h ELSE (ScreenHeight * Shares[i].h) \div 100

Layout ==
  << Rect(Margin, Topbar + Gap, Width(1), Height(1)),
     Rect(ScreenWidth - Width(2) - Margin, Topbar + LowGap, Width(2), Height(2)),
     Rect(ScreenWidth \div 2 - Width(3) \div 2, ScreenHeight - Taskbar - Height(3) - Gap,
          Width(3), Height(3)) >>

\* The screen is large enough for them: there is room between the bars.
ASSUME LayoutAssumption ==
  \A i \in 1..3 :
    LET r == Layout[i]
    IN r.x \in PixelCols /\ r.y >= Topbar /\ r.y + r.h <= ScreenHeight - Taskbar

\* gui_init.  kmain does not come here without a framebuffer, and kmalloc does not return
\* without a back buffer, so painting into the front buffer instead is left out.
Init ==
  /\ window = Created(Created(Created(<<>>, Layout[1]), Layout[2]), Layout[3])
  /\ active = 2
  /\ turn = "mouse"
  /\ pointer \in Pointers
  /\ frame = [p \in Pixels |-> Text]

Next == HandleMouse \/ Render

Spec == Init /\ [][Next]_vars

-----------------------------------------------------------------------------
\* Properties.

\* Only the active window is dragged, and no closed window is active: gui_handle_mouse
\* asks the active window alone whether a drag is on.
OneDrag ==
  /\ \A i \in Windows : window[i].dragging => active = i
  /\ active # None => active \in Windows /\ window[active].visible

\* A window that is dragged stays under the pointer where it was grabbed, except that it
\* stops at the bars.
GrabStays ==
  \A i \in Windows :
    LET w == window[i]
    IN w.dragging =>
         /\ w.x = pointer[1] - w.dx
         /\ w.y = pointer[2] - w.dy \/ w.y = Topbar \/ w.y + w.h = ScreenHeight - Taskbar

\* However a window was dragged, it lies between the bars, and some point of its title bar
\* outside the close button is on the screen: it can be dragged back.
Reachable ==
  \A i \in Windows :
    LET w == window[i]
    IN /\ w.y >= Topbar /\ w.y + w.h <= ScreenHeight - Taskbar
       /\ \E p \in Pixels : Over(p, w) /\ OnTitle(p, w) /\ ~OnClose(p, w)

\* A press goes to the window that is seen under the pointer, and nothing of an earlier
\* frame is seen.  The exception is the line of pixels right of a window or below it, which
\* is its own but shows what is behind.
ShownIsHit ==
  turn = "mouse" =>
    \A p \in Pixels :
      LET w == window[Hit(p)]
      IN frame[p] \in Windows =>
           \/ Hit(p) = frame[p]
           \/ Hit(p) # None /\ (p[1] = w.x + w.w \/ p[2] = w.y + w.h)
================================================================================
