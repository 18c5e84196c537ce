------------------------------ MODULE GuiProofs ------------------------------
(***************************************************************************)
(* Proofs about module Gui: one window is dragged at a time, it stays      *)
(* under the pointer, no drag takes a window out of reach, and a press     *)
(* goes to the window that is seen, for every screen with room for the     *)
(* first windows and every place of the mouse.                             *)
(***************************************************************************)
EXTENDS Gui, NumberLemmas, SequenceTheorems

WindowType ==
  [x : Int, y : Int, w : Nat, h : Nat, visible : BOOLEAN, dragging : BOOLEAN, dx : Int, dy : Int]

TypeOK ==
  /\ window \in Seq(WindowType) /\ Len(window) = 3
  /\ active \in Nat
  /\ pointer \in Pixels

\* A window is held by its title bar, and not by its close button: the point that is held
\* will always be one to hold it by.
HeldByTitle ==
  \A i \in Windows :
    window[i].dragging =>
      window[i].dx \in 0..window[i].w /\ window[i].dx \notin CloseFrom..CloseTo

GInv == TypeOK /\ OneDrag /\ GrabStays /\ HeldByTitle /\ Reachable

-----------------------------------------------------------------------------

\* The sizes gui_init computes are natural numbers.
LEMMA SizesNatural ==
  /\ Layout \in [1..3 -> [x : Int, y : Int, w : Nat, h : Nat]]
  /\ Width(1) \in Nat /\ Width(2) \in Nat /\ Width(3) \in Nat
<1> USE ScreenAssumption, GuiAssumption
<1>1. \A i \in 1..3 : Shares[i].w \in Nat /\ Shares[i].h \in Nat
  BY DEF Shares
<1>2. \A n \in Nat : n \div 100 \in Nat /\ n \div 2 \in Nat
  OBVIOUS
<1>3. \A i \in 1..3 : Width(i) \in Nat
  BY <1>1, <1>2 DEF Width
<1>4. \A i \in 1..3 : Height(i) \in Nat
  BY <1>1, <1>2 DEF Height
<1>5. QED
  BY <1>2, <1>3, <1>4 DEF Layout, Rect

\* A window that lies between the bars, with the left edge on the screen, can be grabbed.
LEMMA Grabbable ==
  ASSUME NEW w \in WindowType, NEW d \in Int,
         d \in 0..w.w, d \notin CloseFrom..CloseTo, w.x + d \in PixelCols,
         w.y >= Topbar, w.y + w.h <= ScreenHeight - Taskbar
  PROVE  \E p \in Pixels : Over(p, w) /\ OnTitle(p, w) /\ ~OnClose(p, w)
<1> DEFINE p == <<w.x + d, w.y>>
<1> USE ScreenAssumption, GuiAssumption
<1>1. p \in Pixels
  BY DEF Pixels, PixelCols, PixelRows, WindowType
<1>2. Over(p, w)
  BY DEF Over, WindowType
<1>3. OnTitle(p, w)
  BY DEF OnTitle, WindowType
<1>4. ~OnClose(p, w)
  BY DEF OnClose, WindowType
<1>5. QED
  BY <1>1, <1>2, <1>3, <1>4

\* What gui_create_window enters in the table.
Made(r) == [x |-> r.x, y |-> r.y, w |-> r.w, h |-> r.h, visible |-> TRUE,
            dragging |-> FALSE, dx |-> 0, dy |-> 0]

LEMMA MadeFields ==
  \A r : /\ Made(r).x = r.x /\ Made(r).y = r.y /\ Made(r).w = r.w /\ Made(r).h = r.h
        /\ Made(r).visible = TRUE /\ Made(r).dragging = FALSE
BY DEF Made

\* A window more, as long as there are fewer than three.
LEMMA OneMore ==
  ASSUME NEW ws \in Seq(WindowType), Len(ws) < 3, NEW r, Made(r) \in WindowType
  PROVE  /\ Created(ws, r) \in Seq(WindowType)
         /\ Len(Created(ws, r)) = Len(ws) + 1
         /\ Created(ws, r)[Len(ws) + 1] = Made(r)
         /\ \A i \in 1..Len(ws) : Created(ws, r)[i] = ws[i]
<1>0. MaxWindows \in Nat /\ MaxWindows >= 3
  BY GuiAssumption, Zenon
<1>1. ~(Len(ws) >= MaxWindows)
  <2>1. Len(ws) \in Nat
    OBVIOUS
  <2>2. QED BY <1>0, <2>1
<1>2. Created(ws, r) = Append(ws, Made(r))
  BY <1>1, Zenon DEF Created, Made
<1>3. QED
  BY <1>2, AppendProperties

LEMMA InitInv == Init => GInv
<1> SUFFICES ASSUME Init PROVE GInv
  OBVIOUS
<1>1. \A i \in 1..3 : Made(Layout[i]) \in WindowType
  BY SizesNatural DEF WindowType, Made
<1>2. /\ window \in Seq(WindowType) /\ Len(window) = 3
      /\ \A i \in 1..3 : window[i] = Made(Layout[i])
  <2> DEFINE empty == <<>>
             one == Created(empty, Layout[1])
             two == Created(one, Layout[2])
             three == Created(two, Layout[3])
  <2>1. empty \in Seq(WindowType) /\ Len(empty) = 0
    OBVIOUS
  <2> HIDE DEF empty
  <2>2. one \in Seq(WindowType) /\ Len(one) = 1 /\ one[1] = Made(Layout[1])
    <3>1. Made(Layout[1]) \in WindowType /\ Len(empty) < 3
      BY <1>1, <2>1
    <3>2. /\ one \in Seq(WindowType) /\ Len(one) = Len(empty) + 1
          /\ one[Len(empty) + 1] = Made(Layout[1])
      BY <2>1, <3>1, OneMore
    <3> HIDE DEF one
    <3>3. QED BY <2>1, <3>2
  <2> HIDE DEF one
  <2>3. two \in Seq(WindowType) /\ Len(two) = 2 /\ two[1] = one[1] /\ two[2] = Made(Layout[2])
    <3>1. Made(Layout[2]) \in WindowType /\ Len(one) < 3
      BY <1>1, <2>2
    <3>2. /\ two \in Seq(WindowType) /\ Len(two) = Len(one) + 1
          /\ two[Len(one) + 1] = Made(Layout[2])
          /\ \A i \in 1..Len(one) : two[i] = one[i]
      BY <2>2, <3>1, OneMore
    <3> HIDE DEF two
    <3>3. QED BY <2>2, <3>2
  <2> HIDE DEF two
  <2>4. /\ three \in Seq(WindowType) /\ Len(three) = 3 /\ three[1] = two[1] /\ three[2] = two[2]
        /\ three[3] = Made(Layout[3])
    <3>1. Made(Layout[3]) \in WindowType /\ Len(two) < 3
      BY <1>1, <2>3
    <3>2. /\ three \in Seq(WindowType) /\ Len(three) = Len(two) + 1
          /\ three[Len(two) + 1] = Made(Layout[3])
          /\ \A i \in 1..Len(two) : three[i] = two[i]
      BY <2>3, <3>1, OneMore
    <3> HIDE DEF three
    <3>3. QED BY <2>3, <3>2
  <2>5. window = three
    BY DEF Init, empty, one, two
  <2> HIDE DEF three
  <2>6. QED BY <2>2, <2>3, <2>4, <2>5
<1>3. Windows = 1..3
  BY <1>2 DEF Windows
<1>4. \A i \in 1..3 : window[i].visible = TRUE /\ window[i].dragging = FALSE
  BY <1>2, MadeFields
<1>5. TypeOK
  BY <1>2, GuiAssumption DEF TypeOK, Init, Pixels
<1>6. OneDrag
  <2>1. active = 2 /\ 2 \in 1..3
    BY DEF Init
  <2>2. QED BY <1>3, <1>4, <2>1 DEF OneDrag
<1>7. GrabStays /\ HeldByTitle
  BY <1>3, <1>4 DEF GrabStays, HeldByTitle
<1>8. Reachable
  <2> SUFFICES ASSUME NEW i \in 1..3
               PROVE  /\ window[i].y >= Topbar
                      /\ window[i].y + window[i].h <= ScreenHeight - Taskbar
                      /\ \E p \in Pixels : /\ Over(p, window[i]) /\ OnTitle(p, window[i])
                                           /\ ~OnClose(p, window[i])
    BY <1>3 DEF Reachable
  <2>1. window[i] \in WindowType /\ window[i].w \in Nat /\ window[i].x \in Int
    BY <1>1, <1>2 DEF WindowType
  <2>2. /\ window[i].x \in PixelCols /\ window[i].y >= Topbar
        /\ window[i].y + window[i].h <= ScreenHeight - Taskbar
    BY <1>2, MadeFields, LayoutAssumption
  <2>3. /\ 0 \in 0..window[i].w /\ 0 \notin CloseFrom..CloseTo
        /\ window[i].x + 0 \in PixelCols
    BY <2>1, <2>2, GuiAssumption
  <2>4. QED BY <2>1, <2>2, <2>3, Grabbable
<1>9. QED BY <1>5, <1>6, <1>7, <1>8 DEF GInv

-----------------------------------------------------------------------------

\* What the next frame's mouse finds: if no drag is on, no window is dragged at all.
LEMMA NoneDragged ==
  ASSUME TypeOK, OneDrag, ~Dragging, NEW i \in Windows
  PROVE  ~window[i].dragging
<1>1. i # None
  BY DEF Windows, None
<1>2. QED BY <1>1, Zenon DEF OneDrag, Dragging

\* The topmost window under the pointer is one of the windows, and can be seen.
LEMMA HitIsWindow ==
  ASSUME TypeOK, NEW p, Hit(p) # None
  PROVE  Hit(p) \in Windows /\ window[Hit(p)].visible /\ Over(p, window[Hit(p)])
<1> DEFINE hits == {i \in Windows : window[i].visible /\ Over(p, window[i])}
<1>1. hits \subseteq 1..3 /\ hits # {}
  BY DEF Hit, TypeOK, Windows
<1>2. Hit(p) = CHOOSE i \in hits : \A j \in hits : j <= i
  BY <1>1, Zenon DEF Hit
<1>3. Hit(p) \in hits
  <2> HIDE DEF hits
  <2>1. \E i \in hits : \A j \in hits : j <= i
    <3>1. hits \subseteq {1, 2, 3}
      BY <1>1
    <3>2. CASE 3 \in hits
      BY <3>1, <3>2
    <3>3. CASE 3 \notin hits /\ 2 \in hits
      BY <3>1, <3>3
    <3>4. CASE 3 \notin hits /\ 2 \notin hits
      <4>1. \A j \in hits : j = 1
        BY <3>1, <3>4
      <4>2. PICK i \in hits : TRUE
        BY <1>1
      <4>3. \A j \in hits : j <= i
        BY <4>1, <4>2
      <4>4. QED BY <4>2, <4>3
    <3>5. QED BY <3>2, <3>3, <3>4
  <2>2. QED BY <1>2, <2>1
<1>4. QED BY <1>3

\* What Reachable asks of one window.
CanBeGrabbed(w) ==
  /\ w.y >= Topbar /\ w.y + w.h <= ScreenHeight - Taskbar
  /\ \E p \in Pixels : Over(p, w) /\ OnTitle(p, w) /\ ~OnClose(p, w)

LEMMA ReachableIs == Reachable <=> \A i \in Windows : CanBeGrabbed(window[i])
BY DEF Reachable, CanBeGrabbed

\* It is a matter of place and size alone.
LEMMA SameShape ==
  ASSUME NEW v, NEW w, v.x = w.x, v.y = w.y, v.w = w.w, v.h = w.h, CanBeGrabbed(w)
  PROVE  CanBeGrabbed(v)
BY Zenon DEF CanBeGrabbed, Over, OnTitle, OnClose

\* Where Between puts a window that has room.
LEMMA BetweenBars ==
  ASSUME NEW y \in Int, NEW h \in Nat, Topbar + h <= ScreenHeight - Taskbar
  PROVE  /\ Between(y, h) \in Int
         /\ Between(y, h) >= Topbar /\ Between(y, h) + h <= ScreenHeight - Taskbar
         /\ Between(y, h) = y \/ Between(y, h) = Topbar
              \/ Between(y, h) + h = ScreenHeight - Taskbar
<1>1. Topbar \in Nat /\ Taskbar \in Nat /\ ScreenHeight \in Nat
  BY GuiAssumption, ScreenAssumption
<1>2. QED BY <1>1 DEF Between

\* A frame in which no window moves and none is dragged afterwards.
LEMMA NothingMoves ==
  ASSUME GInv, window' \in Seq(WindowType), Len(window') = 3, pointer' \in Pixels,
         \A i \in 1..3 :
           /\ window'[i].x = window[i].x /\ window'[i].y = window[i].y
           /\ window'[i].w = window[i].w /\ window'[i].h = window[i].h
           /\ ~window'[i].dragging,
         active' # None => active' \in 1..3 /\ window'[active'].visible,
         active' \in Nat
  PROVE  GInv'
<1>1. Windows = 1..3 /\ Windows' = 1..3
  BY DEF GInv, TypeOK, Windows
<1>2. TypeOK'
  BY DEF TypeOK
<1>3. OneDrag'
  BY <1>1 DEF OneDrag, None
<1>4. GrabStays' /\ HeldByTitle'
  BY <1>1 DEF GrabStays, HeldByTitle
<1>5. Reachable'
  <2>1. \A i \in Windows' : CanBeGrabbed(window'[i])
    BY <1>1, ReachableIs, SameShape DEF GInv
  <2>2. QED BY <2>1 DEF Reachable, CanBeGrabbed, Windows, Over, OnTitle, OnClose, Pixels
<1>6. QED BY <1>2, <1>3, <1>4, <1>5 DEF GInv

\* A step that changes one window only, or none, keeps the table a table.
LEMMA OneChanged ==
  ASSUME TypeOK, NEW i \in Windows, NEW w \in WindowType, window' = [window EXCEPT ![i] = w]
  PROVE  /\ window' \in Seq(WindowType) /\ Len(window') = 3
         /\ window'[i] = w /\ \A j \in Windows : j # i => window'[j] = window[j]
<1>1. i \in 1..Len(window) /\ Len(window) = 3 /\ window \in Seq(WindowType)
  BY DEF TypeOK, Windows
<1>2. /\ window' \in Seq(WindowType) /\ Len(window') = Len(window)
      /\ \A j \in 1..Len(window) : window'[j] = IF j = i THEN w ELSE window[j]
  <2> DEFINE t == [window EXCEPT ![i] = w]
  <2>1. window \in Seq(WindowType) /\ i \in 1..Len(window) /\ w \in WindowType
    BY <1>1
  <2>2. /\ t \in Seq(WindowType) /\ Len(t) = Len(window)
        /\ \A j \in 1..Len(window) : t[j] = IF j = i THEN w ELSE window[j]
    BY <2>1, ExceptSeq
  <2>3. window' = t
    OBVIOUS
  <2> HIDE DEF t
  <2>4. QED BY <2>2, <2>3
<1>3. QED BY <1>1, <1>2 DEF Windows

\* What a step may do to an entry.
LEMMA ClosedEntry ==
  ASSUME NEW v \in WindowType
  PROVE  LET w == [v EXCEPT !.visible = FALSE]
         IN /\ w \in WindowType /\ w.dragging = v.dragging
            /\ w.x = v.x /\ w.y = v.y /\ w.w = v.w /\ w.h = v.h
BY DEF WindowType

LEMMA EntryType ==
  ASSUME TypeOK, NEW i \in Windows
  PROVE  window[i] \in WindowType
BY ElementOfSeq, Zenon DEF TypeOK, Windows

LEMMA CloseInv ==
  ASSUME GInv, NEW p \in Pixels, pointer' = p, Close(p)
  PROVE  GInv'
<1> DEFINE i == Hit(p)
           w == [window[i] EXCEPT !.visible = FALSE]
<1>1. i \in Windows /\ Windows = 1..3
  BY HitIsWindow DEF Close, GInv, TypeOK, Windows
<1>2. window[i] \in WindowType
  BY <1>1, EntryType DEF GInv
<1>3. window' = [window EXCEPT ![i] = w]
  BY Zenon DEF Close
<1>4. /\ w \in WindowType /\ w.dragging = window[i].dragging
      /\ w.x = window[i].x /\ w.y = window[i].y /\ w.w = window[i].w /\ w.h = window[i].h
  BY <1>2, ClosedEntry, Zenon
<1>5. /\ window' \in Seq(WindowType) /\ Len(window') = 3
      /\ window'[i] = w /\ \A j \in Windows : j # i => window'[j] = window[j]
  <2> HIDE DEF w, i
  <2>1. QED BY <1>1, <1>3, <1>4, OneChanged DEF GInv
<1>6. \A j \in Windows : ~window[j].dragging
  BY NoneDragged DEF GInv, Close
<1>7. active' = IF active = i THEN None ELSE active
  BY DEF Close
<1>8. active' # None => active' \in 1..3 /\ window'[active'].visible
  BY <1>1, <1>5, <1>7 DEF GInv, OneDrag
<1>9. active' \in Nat
  BY <1>7 DEF GInv, TypeOK, None
<1>10. \A j \in 1..3 :
         /\ window'[j].x = window[j].x /\ window'[j].y = window[j].y
         /\ window'[j].w = window[j].w /\ window'[j].h = window[j].h
         /\ ~window'[j].dragging
  <2> SUFFICES ASSUME NEW j \in 1..3
               PROVE  /\ window'[j].x = window[j].x /\ window'[j].y = window[j].y
                      /\ window'[j].w = window[j].w /\ window'[j].h = window[j].h
                      /\ ~window'[j].dragging
    OBVIOUS
  <2> HIDE DEF w
  <2>1. CASE j = i
    BY <1>1, <1>5, <1>6, <1>4, <2>1
  <2>2. CASE j # i
    BY <1>1, <1>5, <1>6, <2>2
  <2>3. QED BY <2>1, <2>2
<1>11. QED
  BY <1>5, <1>8, <1>9, <1>10, NothingMoves

LEMMA ActivateInv ==
  ASSUME GInv, NEW p \in Pixels, pointer' = p, Activate(p)
  PROVE  GInv'
<1>1. Hit(p) \in Windows /\ window[Hit(p)].visible /\ Windows = 1..3
  BY HitIsWindow DEF Activate, GInv, TypeOK, Windows
<1>2. window' = window /\ active' = Hit(p)
  BY DEF Activate
<1>3. \A j \in Windows : ~window[j].dragging
  BY NoneDragged DEF GInv, Activate
<1>4. window \in Seq(WindowType) /\ Len(window) = 3
  BY DEF GInv, TypeOK
<1>5. QED
  BY <1>1, <1>2, <1>3, <1>4, NothingMoves

LEMMA MissInv ==
  ASSUME GInv, NEW p \in Pixels, pointer' = p, Miss(p)
  PROVE  GInv'
<1>1. window' = window /\ active' = active /\ Windows = 1..3
  BY DEF Miss, GInv, TypeOK, Windows
<1>2. \A j \in Windows : ~window[j].dragging
  BY NoneDragged DEF GInv, Miss
<1>3. window \in Seq(WindowType) /\ Len(window) = 3 /\ active \in Nat
  BY DEF GInv, TypeOK
<1>4. active # None => active \in 1..3 /\ window[active].visible
  BY <1>1 DEF GInv, OneDrag
<1>5. QED
  BY <1>1, <1>2, <1>3, <1>4, NothingMoves

LEMMA DroppedEntry ==
  ASSUME NEW v \in WindowType
  PROVE  LET w == [v EXCEPT !.dragging = FALSE]
         IN /\ w \in WindowType /\ w.visible = v.visible /\ ~w.dragging
            /\ w.x = v.x /\ w.y = v.y /\ w.w = v.w /\ w.h = v.h
BY DEF WindowType

LEMMA ReleaseInv ==
  ASSUME GInv, NEW p \in Pixels, pointer' = p, Release
  PROVE  GInv'
<1>1. /\ window' = [j \in 1..3 |-> [window[j] EXCEPT !.dragging = FALSE]] /\ active' = active
      /\ Windows = 1..3
  BY DEF Release, GInv, TypeOK, Windows
<1>2. \A j \in 1..3 : window[j] \in WindowType
  BY <1>1, EntryType DEF GInv
<1>3. \A j \in 1..3 :
        /\ window'[j] \in WindowType /\ window'[j].visible = window[j].visible
        /\ ~window'[j].dragging
        /\ window'[j].x = window[j].x /\ window'[j].y = window[j].y
        /\ window'[j].w = window[j].w /\ window'[j].h = window[j].h
  <2> SUFFICES ASSUME NEW j \in 1..3
               PROVE  /\ window'[j] \in WindowType /\ window'[j].visible = window[j].visible
                      /\ ~window'[j].dragging
                      /\ window'[j].x = window[j].x /\ window'[j].y = window[j].y
                      /\ window'[j].w = window[j].w /\ window'[j].h = window[j].h
    OBVIOUS
  <2>1. window'[j] = [window[j] EXCEPT !.dragging = FALSE]
    BY <1>1
  <2>2. QED BY <1>2, <2>1, DroppedEntry
<1>4. window' \in [1..3 -> WindowType]
  BY <1>1, <1>3
<1>5. window' \in Seq(WindowType) /\ Len(window') = 3
  BY <1>4
<1>6. active \in Nat /\ (active # None => active \in 1..3 /\ window[active].visible)
  BY <1>1 DEF GInv, OneDrag, TypeOK
<1>7. QED
  BY <1>1, <1>3, <1>5, <1>6, NothingMoves

-----------------------------------------------------------------------------

\* A frame after which window i is dragged.
LEMMA OneMoves ==
  ASSUME GInv, NEW i \in Windows, NEW w \in WindowType, window' = [window EXCEPT ![i] = w],
         NEW p \in Pixels, pointer' = p, active' = i,
         \A j \in Windows : j # i => ~window[j].dragging,
         w.visible, CanBeGrabbed(w),
         w.x = p[1] - w.dx,
         w.y = p[2] - w.dy \/ w.y = Topbar \/ w.y + w.h = ScreenHeight - Taskbar,
         w.dx \in 0..w.w, w.dx \notin CloseFrom..CloseTo
  PROVE  GInv'
<1>1. Windows = 1..3 /\ i \in 1..3 /\ i \in Nat
  BY DEF GInv, TypeOK, Windows
<1>2. /\ window' \in Seq(WindowType) /\ Len(window') = 3
      /\ window'[i] = w /\ \A j \in Windows : j # i => window'[j] = window[j]
  BY OneChanged DEF GInv
<1>3. Windows' = 1..3
  BY <1>2 DEF Windows
<1>4. \A j \in 1..3 : window'[j].dragging => j = i
  BY <1>1, <1>2
<1>5. TypeOK'
  BY <1>1, <1>2 DEF TypeOK
<1>6. OneDrag'
  BY <1>1, <1>2, <1>3, <1>4 DEF OneDrag
<1>7. GrabStays'
  BY <1>2, <1>3, <1>4 DEF GrabStays
<1>8. HeldByTitle'
  BY <1>2, <1>3, <1>4 DEF HeldByTitle
<1>9. Reachable'
  <2>1. \A j \in 1..3 : CanBeGrabbed(window'[j])
    <3> SUFFICES ASSUME NEW j \in 1..3 PROVE CanBeGrabbed(window'[j])
      OBVIOUS
    <3>1. CASE j = i
      BY <1>2, <3>1
    <3>2. CASE j # i
      BY <1>1, <1>2, <3>2, ReachableIs DEF GInv
    <3>3. QED BY <3>1, <3>2
  <2>2. QED BY <1>3, <2>1 DEF Reachable, CanBeGrabbed, Over, OnTitle, OnClose, Pixels
<1>10. QED BY <1>5, <1>6, <1>7, <1>8, <1>9 DEF GInv

LEMMA GrabInv ==
  ASSUME GInv, NEW p \in Pixels, pointer' = p, Grab(p)
  PROVE  GInv'
<1> DEFINE i == Hit(p)
           v == window[i]
           w == [v EXCEPT !.dragging = TRUE, !.dx = p[1] - v.x, !.dy = p[2] - v.y]
<1>1. i \in Windows /\ v.visible /\ Over(p, v)
  BY HitIsWindow DEF Grab, GInv
<1>2. v \in WindowType
  BY <1>1, EntryType DEF GInv
<1>3. p[1] \in Int /\ p[2] \in Int /\ v.x \in Int /\ v.y \in Int /\ v.w \in Nat /\ v.h \in Nat
  BY <1>2 DEF Pixels, PixelCols, PixelRows, WindowType
<1>4. /\ w \in WindowType /\ w.visible = v.visible /\ w.dx = p[1] - v.x /\ w.dy = p[2] - v.y
      /\ w.x = v.x /\ w.y = v.y /\ w.w = v.w /\ w.h = v.h
  <2>1. p[1] - v.x \in Int /\ p[2] - v.y \in Int
    BY <1>3
  <2>2. w = [v EXCEPT !.dragging = TRUE, !.dx = p[1] - v.x, !.dy = p[2] - v.y]
    OBVIOUS
  <2> HIDE DEF w, v
  <2>3. QED BY <1>2, <2>1, <2>2 DEF WindowType
<1>5. window' = [window EXCEPT ![i] = w] /\ active' = i
  BY Zenon DEF Grab
<1>6. \A j \in Windows : ~window[j].dragging
  BY NoneDragged DEF GInv, Grab
<1>7. CanBeGrabbed(w)
  BY <1>1, <1>4, ReachableIs, SameShape DEF GInv
<1>8. OnTitle(p, v) /\ ~OnClose(p, v)
  BY DEF Grab
<1>9. w.dx \in 0..w.w /\ w.dx \notin CloseFrom..CloseTo
  <2>1. p[1] \in v.x..(v.x + v.w) /\ p[1] \notin (v.x + CloseFrom)..(v.x + CloseTo)
    BY <1>1, <1>8 DEF Over, OnClose
  <2>2. CloseFrom \in Nat /\ CloseTo \in Nat
    BY GuiAssumption
  <2> HIDE DEF w, v
  <2>3. QED BY <1>3, <1>4, <2>1, <2>2
<1>10. w.x = p[1] - w.dx /\ w.y = p[2] - w.dy
  <2> HIDE DEF w, v
  <2>1. QED BY <1>3, <1>4
<1>11. QED
  <2> HIDE DEF w, v, i
  <2>1. QED BY <1>1, <1>4, <1>5, <1>6, <1>7, <1>9, <1>10, OneMoves

LEMMA DragInv ==
  ASSUME GInv, NEW p \in Pixels, pointer' = p, Drag(p)
  PROVE  GInv'
<1> DEFINE i == active
           v == window[i]
           y == Between(p[2] - v.dy, v.h)
           w == [v EXCEPT !.x = p[1] - v.dx, !.y = y]
<1>1. i \in Windows /\ v.visible /\ v.dragging
  BY DEF Drag, Dragging, GInv, OneDrag
<1>2. v \in WindowType
  BY <1>1, EntryType DEF GInv
<1>3. /\ p[1] \in Int /\ p[2] \in Int /\ v.dx \in Int /\ v.dy \in Int /\ v.h \in Nat /\ v.y \in Int
      /\ p[1] \in PixelCols
  BY <1>2 DEF Pixels, PixelCols, PixelRows, WindowType
<1>4. /\ y \in Int /\ y >= Topbar /\ y + v.h <= ScreenHeight - Taskbar
      /\ y = p[2] - v.dy \/ y = Topbar \/ y + v.h = ScreenHeight - Taskbar
  <2>1. v.y >= Topbar /\ v.y + v.h <= ScreenHeight - Taskbar
    BY <1>1 DEF GInv, Reachable
  <2>2. Topbar \in Nat /\ Taskbar \in Nat /\ ScreenHeight \in Nat
    BY GuiAssumption, ScreenAssumption
  <2> HIDE DEF v
  <2>3. Topbar + v.h <= ScreenHeight - Taskbar /\ p[2] - v.dy \in Int
    BY <1>3, <2>1, <2>2
  <2>4. QED BY <1>3, <2>3, BetweenBars
<1>5. /\ w \in WindowType /\ w.visible = v.visible /\ w.x = p[1] - v.dx /\ w.y = y
      /\ w.dx = v.dx /\ w.dy = v.dy /\ w.w = v.w /\ w.h = v.h
  <2>1. p[1] - v.dx \in Int
    BY <1>3
  <2>2. w = [v EXCEPT !.x = p[1] - v.dx, !.y = y]
    OBVIOUS
  <2> HIDE DEF w, v, y
  <2>3. QED BY <1>2, <1>4, <2>1, <2>2 DEF WindowType
<1>6. window' = [window EXCEPT ![i] = w] /\ active' = i
  BY Zenon DEF Drag
<1>7. \A j \in Windows : j # i => ~window[j].dragging
  BY DEF GInv, OneDrag
<1>8. v.dx \in 0..v.w /\ v.dx \notin CloseFrom..CloseTo
  BY <1>1 DEF GInv, HeldByTitle
<1> HIDE DEF w, y, v, i
<1>9. CanBeGrabbed(w)
  <2>1. w.dx \in Int /\ w.x + w.dx \in PixelCols /\ w.dx \in 0..w.w /\ w.dx \notin CloseFrom..CloseTo
    BY <1>3, <1>5, <1>8
  <2>2. w.y >= Topbar /\ w.y + w.h <= ScreenHeight - Taskbar
    BY <1>4, <1>5
  <2>3. QED BY <1>5, <2>1, <2>2, Grabbable DEF CanBeGrabbed
<1>10. /\ w.x = p[1] - w.dx
       /\ w.y = p[2] - w.dy \/ w.y = Topbar \/ w.y + w.h = ScreenHeight - Taskbar
  BY <1>4, <1>5
<1>11. QED
  BY <1>1, <1>5, <1>6, <1>7, <1>8, <1>9, <1>10, OneMoves

LEMMA StepInv == GInv /\ [Next]_vars => GInv'
<1> SUFFICES ASSUME GInv, [Next]_vars PROVE GInv'
  OBVIOUS
<1>1. CASE HandleMouse
  <2>1. PICK p \in Pointers : /\ Looks(p)
                              /\ Close(p) \/ Grab(p) \/ Activate(p) \/ Miss(p) \/ Drag(p) \/ Release
    BY <1>1 DEF HandleMouse
  <2>2. p \in Pixels /\ pointer' = p
    BY <2>1, GuiAssumption DEF Looks, Pixels
  <2>3. CASE Close(p)
    BY <2>2, <2>3, CloseInv
  <2>4. CASE Grab(p)
    BY <2>2, <2>4, GrabInv
  <2>5. CASE Activate(p)
    BY <2>2, <2>5, ActivateInv
  <2>6. CASE Miss(p)
    BY <2>2, <2>6, MissInv
  <2>7. CASE Drag(p)
    BY <2>2, <2>7, DragInv
  <2>8. CASE Release
    BY <2>2, <2>8, ReleaseInv
  <2>9. QED BY <2>1, <2>3, <2>4, <2>5, <2>6, <2>7, <2>8
<1>2. CASE Render \/ UNCHANGED vars
  <2>1. window' = window /\ active' = active /\ pointer' = pointer
    BY <1>2 DEF Render, vars
  <2>2. QED
    BY <2>1 DEF GInv, TypeOK, OneDrag, GrabStays, HeldByTitle, Reachable, Windows, Over, OnTitle,
                OnClose, Pixels
<1>3. QED BY <1>1, <1>2 DEF Next

LEMMA Invariant == Spec => []GInv
<1>1. Init => GInv
  BY InitInv
<1>2. GInv /\ [Next]_vars => GInv'
  BY StepInv
<1>3. QED BY <1>1, <1>2, PTL DEF Spec

\* However the mouse is moved and pressed, the window that is dragged is the active one, and
\* a window that was closed is not: the one flag gui_handle_mouse looks at decides.
THEOREM DragIsOfActive == Spec => []OneDrag
<1>1. GInv => OneDrag
  BY DEF GInv
<1>2. QED BY <1>1, Invariant, PTL

\* A dragged window follows the pointer, up to the bars.
THEOREM DragFollowsPointer == Spec => []GrabStays
<1>1. GInv => GrabStays
  BY DEF GInv
<1>2. QED BY <1>1, Invariant, PTL

\* No sequence of drags takes a window where it cannot be dragged back from, on any screen
\* that has room for the first windows.
THEOREM WindowsCanBeGrabbed == Spec => []Reachable
<1>1. GInv => Reachable
  BY DEF GInv
<1>2. QED BY <1>1, Invariant, PTL

-----------------------------------------------------------------------------
(* What is painted.                                                        *)

\* Painting gives every pixel a value, if it had one.
Frames == [Pixels -> Int]

\* Pixels between the bars.
Middle == {p \in Pixels : p[2] \in Topbar..(ScreenHeight - Taskbar - 1)}

\* Of the first k windows, the i-th is the last one that covers p.
Covers(p, i, k) ==
  /\ i <= k /\ window[i].visible /\ Inside(p, window[i])
  /\ \A j \in (i + 1)..k : window[j].visible => ~Inside(p, window[j])

\* A pixel that shows a window shows the last one that covers it.
ShowsLast(f, p, k) == f[p] \in 1..3 => Covers(p, f[p], k)
Layered(f, k) == \A p \in Middle : ShowsLast(f, p, k)

\* What DrawRect does to a pixel.
LEMMA RectPixels ==
  ASSUME NEW f \in Frames, NEW r, NEW what \in Int
  PROVE  /\ DrawRect(f, r, what) \in Frames
         /\ \A p \in Pixels : DrawRect(f, r, what)[p] = IF Inside(p, r) THEN what ELSE f[p]
<1>1. \A p \in Pixels : f[p] \in Int
  BY DEF Frames
<1>2. QED BY <1>1 DEF DrawRect, Frames

\* What DrawWindow does to a pixel: it is the window's, or its shadow, or what it was.
LEMMA WindowPixels ==
  ASSUME NEW f \in Frames, NEW k \in 1..3
  PROVE  /\ DrawWindow(f, k) \in Frames
         /\ ~window[k].visible => DrawWindow(f, k) = f
         /\ window[k].visible => \A p \in Pixels :
              IF Inside(p, window[k]) THEN DrawWindow(f, k)[p] = k
              ELSE DrawWindow(f, k)[p] \in {f[p], Shade}
<1> DEFINE w == window[k]
           a == Rect(w.x + Shadow, w.y + Shadow, w.w, w.h)
           b == Rect(w.x, w.y, w.w, w.h)
           g == DrawRect(f, a, Shade)
           h == DrawRect(g, b, k)
<1>1. Shade \in Int /\ k \in Int
  BY DEF Shade
<1>2. \A p : Inside(p, b) <=> Inside(p, w)
  BY DEF Inside, Rect
<1> HIDE DEF a, b
<1>3. g \in Frames /\ \A p \in Pixels : g[p] = IF Inside(p, a) THEN Shade ELSE f[p]
  BY <1>1, RectPixels
<1> HIDE DEF g
<1>4. h \in Frames /\ \A p \in Pixels : h[p] = IF Inside(p, b) THEN k ELSE g[p]
  BY <1>1, <1>3, RectPixels
<1>5. DrawWindow(f, k) = IF w.visible THEN h ELSE f
  BY DEF DrawWindow, a, b, g
<1> HIDE DEF h, w
<1>6. \A p \in Pixels : IF Inside(p, w) THEN h[p] = k ELSE h[p] \in {f[p], Shade}
  BY <1>2, <1>3, <1>4
<1>7. QED BY <1>4, <1>5, <1>6 DEF w

\* One window more, and pixels still show the last one that covers them.
LEMMA LayeredOn ==
  ASSUME NEW f \in Frames, NEW k \in 1..3, Layered(f, k - 1)
  PROVE  Layered(DrawWindow(f, k), k)
<1> DEFINE g == DrawWindow(f, k)
<1> SUFFICES ASSUME NEW p \in Middle, g[p] \in 1..3
             PROVE  Covers(p, g[p], k)
  BY DEF Layered, ShowsLast
<1>1. p \in Pixels
  BY DEF Middle
<1>2. ASSUME g[p] = f[p], ~(window[k].visible /\ Inside(p, window[k]))
      PROVE  Covers(p, g[p], k)
  <2> DEFINE i == f[p]
  <2>1. i \in 1..3 /\ Covers(p, i, k - 1)
    BY <1>2 DEF Layered, ShowsLast
  <2> HIDE DEF i
  <2>2. i <= k /\ \A j \in (i + 1)..k : j \in (i + 1)..(k - 1) \/ j = k
    BY <2>1 DEF Covers
  <2>3. Covers(p, i, k)
    BY <1>2, <2>1, <2>2 DEF Covers
  <2>4. QED BY <1>2, <2>3 DEF i
<1>3. CASE ~window[k].visible
  <2>1. g = f
    BY <1>3, WindowPixels
  <2>2. QED BY <1>2, <1>3, <2>1
<1>4. CASE window[k].visible /\ Inside(p, window[k])
  <2>1. g[p] = k
    BY <1>1, <1>4, WindowPixels
  <2>2. k <= k /\ (k + 1)..k = {}
    OBVIOUS
  <2> HIDE DEF g
  <2>3. QED BY <1>4, <2>1, <2>2 DEF Covers
<1>5. CASE window[k].visible /\ ~Inside(p, window[k])
  <2>1. g[p] \in {f[p], Shade}
    BY <1>1, <1>5, WindowPixels
  <2>2. Shade \notin 1..3
    BY DEF Shade
  <2> HIDE DEF g
  <2>3. g[p] = f[p]
    BY <2>1, <2>2
  <2>4. QED BY <1>2, <1>5, <2>3
<1>6. QED BY <1>3, <1>4, <1>5

\* After all windows are painted, pixels show the last one that covers them.
LEMMA PaintedLayers ==
  ASSUME Len(window) = 3, NEW f \in Frames, Layered(f, 0)
  PROVE  PaintWindows(f) \in Frames /\ Layered(PaintWindows(f), 3)
<1> DEFINE P(w) == w = [k \in 0..3 |-> IF k = 0 THEN f ELSE DrawWindow(w[k - 1], k)]
           a == DrawWindow(f, 1)
           b == DrawWindow(a, 2)
           c == DrawWindow(b, 3)
           h == [k \in 0..3 |-> IF k = 0 THEN f ELSE IF k = 1 THEN a ELSE IF k = 2 THEN b ELSE c]
           v == CHOOSE w : P(w)
<1>1. h[0] = f /\ h[1] = a /\ h[2] = b /\ h[3] = c
  OBVIOUS
<1> HIDE DEF a, b, c
<1>2. P(h)
  <2>1. \A k \in 0..3 : h[k] = IF k = 0 THEN f ELSE DrawWindow(h[k - 1], k)
    <3>1. h[1] = DrawWindow(h[1 - 1], 1) /\ h[2] = DrawWindow(h[2 - 1], 2)
          /\ h[3] = DrawWindow(h[3 - 1], 3)
      BY <1>1 DEF a, b, c
    <3>2. \A k \in 0..3 : k = 0 \/ k = 1 \/ k = 2 \/ k = 3
      OBVIOUS
    <3> HIDE DEF h
    <3>3. QED BY <1>1, <3>1, <3>2
  <2>2. QED BY <2>1
<1>3. P(v)
  <2> HIDE DEF P
  <2>1. QED BY <1>2
<1>4. PaintWindows(f) = v[3]
  BY DEF PaintWindows
<1> HIDE DEF v
<1>5. /\ v[0] = f /\ v[1] = DrawWindow(v[0], 1) /\ v[2] = DrawWindow(v[1], 2)
      /\ v[3] = DrawWindow(v[2], 3)
  <2>1. \A k \in 0..3 : v[k] = IF k = 0 THEN f ELSE DrawWindow(v[k - 1], k)
    BY <1>3
  <2>2. 1 - 1 = 0 /\ 2 - 1 = 1 /\ 3 - 1 = 2
    OBVIOUS
  <2>3. QED BY <2>1, <2>2
<1>6. v[1] \in Frames /\ Layered(v[1], 1)
  <2>1. f \in Frames /\ Layered(f, 1 - 1) /\ 1 \in 1..3
    OBVIOUS
  <2>2. QED BY <1>5, <2>1, WindowPixels, LayeredOn
<1>7. v[2] \in Frames /\ Layered(v[2], 2)
  <2>1. v[1] \in Frames /\ Layered(v[1], 2 - 1) /\ 2 \in 1..3
    BY <1>6
  <2>2. QED BY <1>5, <2>1, WindowPixels, LayeredOn
<1>8. v[3] \in Frames /\ Layered(v[3], 3)
  <2>1. v[2] \in Frames /\ Layered(v[2], 3 - 1) /\ 3 \in 1..3
    BY <1>7
  <2>2. QED BY <1>5, <2>1, WindowPixels, LayeredOn
<1>9. QED BY <1>4, <1>8

\* What a painted frame shows, and keeps showing until the mouse was looked at.
Painted ==
  /\ frame \in Frames
  /\ turn = "mouse" => \A p \in Pixels : ShowsLast(frame, p, 3)

\* A frame covers all that an earlier one showed.
LEMMA RenderPaints ==
  ASSUME TypeOK, frame \in Frames, Render
  PROVE  Painted'
<1> USE ScreenAssumption, GuiAssumption
<1> DEFINE d == DrawRect(frame, Rect(0, Topbar, ScreenWidth, DesktopHeight), Desktop)
           w == PaintWindows(d)
           t == DrawRect(w, Rect(0, 0, ScreenWidth, Topbar), Bar)
           u == DrawRect(t, Rect(0, ScreenHeight - Taskbar, ScreenWidth, Taskbar), Bar)
<1>1. frame' = u /\ window' = window
  BY DEF Render
<1>2. Desktop \in Int /\ Bar \in Int /\ Desktop \notin 1..3 /\ Bar \notin 1..3
  BY DEF Desktop, Bar
<1>3. d \in Frames /\ Layered(d, 0)
  <2>1. d \in Frames /\ \A p \in Pixels :
          d[p] = IF Inside(p, Rect(0, Topbar, ScreenWidth, DesktopHeight)) THEN Desktop ELSE frame[p]
    BY <1>2, RectPixels
  <2>2. \A p \in Middle : p \in Pixels /\ Inside(p, Rect(0, Topbar, ScreenWidth, DesktopHeight))
    BY DEF Middle, Pixels, PixelCols, PixelRows, Inside, Rect, DesktopHeight
  <2>3. \A p \in Middle : d[p] = Desktop
    BY <2>1, <2>2
  <2>4. QED BY <1>2, <2>1, <2>3 DEF Layered, ShowsLast
<1> HIDE DEF d
<1>4. w \in Frames /\ Layered(w, 3)
  BY <1>3, PaintedLayers DEF TypeOK
<1> HIDE DEF w
<1>5. t \in Frames /\ \A p \in Pixels :
        t[p] = IF Inside(p, Rect(0, 0, ScreenWidth, Topbar)) THEN Bar ELSE w[p]
  BY <1>2, <1>4, RectPixels
<1> HIDE DEF t
<1>6. u \in Frames /\ \A p \in Pixels :
        u[p] = IF Inside(p, Rect(0, ScreenHeight - Taskbar, ScreenWidth, Taskbar)) THEN Bar ELSE t[p]
  BY <1>2, <1>5, RectPixels
<1> HIDE DEF u
<1>7. ASSUME NEW p \in Pixels, u[p] \in 1..3
      PROVE  p \in Middle /\ u[p] = w[p]
  <2>1. /\ ~Inside(p, Rect(0, ScreenHeight - Taskbar, ScreenWidth, Taskbar)) /\ u[p] = t[p]
        /\ ~Inside(p, Rect(0, 0, ScreenWidth, Topbar)) /\ t[p] = w[p]
    BY <1>2, <1>5, <1>6, <1>7
  <2>2. p \in Middle
    BY <2>1 DEF Middle, Pixels, PixelCols, PixelRows, Inside, Rect
  <2>3. QED BY <2>1, <2>2
<1>8. \A p \in Pixels : ShowsLast(u, p, 3)
  BY <1>4, <1>7 DEF Layered, ShowsLast
<1>9. QED BY <1>1, <1>6, <1>8 DEF Painted, ShowsLast, Covers, Frames, Inside

\* The console's pixels show no window; between a look at the mouse and the next frame
\* nothing is said.
LEMMA PaintedInv == Spec => []Painted
<1>1. Init => Painted
  <2>1. ASSUME Init PROVE Painted
    <3>1. frame = [p \in Pixels |-> Text]
      BY <2>1 DEF Init
    <3>2. Text \in Int /\ Text \notin 1..3
      BY DEF Text
    <3>3. QED BY <3>1, <3>2 DEF Painted, ShowsLast, Frames
  <2>2. QED BY <2>1
<1>2. ASSUME GInv, Painted, [Next]_vars PROVE Painted'
  <2>1. CASE HandleMouse
    <3>1. turn' = "render" /\ frame' = frame
      BY <2>1 DEF HandleMouse, Looks
    <3>2. QED BY <1>2, <3>1 DEF Painted, Frames
  <2>2. CASE Render
    BY <1>2, <2>2, RenderPaints DEF GInv, Painted
  <2>3. CASE UNCHANGED vars
    BY <1>2, <2>3 DEF vars, Painted, Frames, ShowsLast, Covers, Inside
  <2>4. QED BY <1>2, <2>1, <2>2, <2>3 DEF Next
<1>3. QED BY <1>1, <1>2, Invariant, PTL DEF Spec

\* The window a press is for is not below one that is under the pointer.
LEMMA HitIsTopmost ==
  ASSUME TypeOK, NEW p, NEW i \in Windows, window[i].visible, Over(p, window[i])
  PROVE  Hit(p) # None /\ i <= Hit(p)
<1> DEFINE hits == {j \in Windows : window[j].visible /\ Over(p, window[j])}
<1>1. hits \subseteq 1..3 /\ i \in hits
  BY DEF TypeOK, Windows
<1>2. Hit(p) = CHOOSE j \in hits : \A k \in hits : k <= j
  BY <1>1, Zenon DEF Hit
<1> HIDE DEF hits
<1>3. \E j \in hits : \A k \in hits : k <= j
  <2>1. hits \subseteq {1, 2, 3}
    BY <1>1
  <2>2. CASE 3 \in hits
    BY <2>1, <2>2
  <2>3. CASE 3 \notin hits /\ 2 \in hits
    BY <2>1, <2>3
  <2>4. CASE 3 \notin hits /\ 2 \notin hits
    BY <1>1, <2>1, <2>4
  <2>5. QED BY <2>2, <2>3, <2>4
<1>4. Hit(p) \in hits /\ i <= Hit(p)
  BY <1>1, <1>2, <1>3
<1>5. QED BY <1>1, <1>4 DEF None

\* What is inside a window is under the pointer there, and only its own line of pixels to
\* the right and below is not inside it.
LEMMA InsideIsOver ==
  ASSUME NEW w \in WindowType, NEW p \in Pixels
  PROVE  /\ Inside(p, w) => Over(p, w)
         /\ Over(p, w) /\ ~Inside(p, w) => p[1] = w.x + w.w \/ p[2] = w.y + w.h
<1>1. p[1] \in Int /\ p[2] \in Int
  BY ScreenAssumption DEF Pixels, PixelCols, PixelRows
<1>2. w.x \in Int /\ w.y \in Int /\ w.w \in Nat /\ w.h \in Nat
  BY DEF WindowType
<1>3. \A a, b \in Int, n \in Nat :
        /\ a \in b..(b + n - 1) => a \in b..(b + n)
        /\ a \in b..(b + n) /\ a \notin b..(b + n - 1) => a = b + n
  OBVIOUS
<1>4. /\ p[1] \in w.x..(w.x + w.w - 1) => p[1] \in w.x..(w.x + w.w)
      /\ p[1] \in w.x..(w.x + w.w) /\ p[1] \notin w.x..(w.x + w.w - 1) => p[1] = w.x + w.w
  BY <1>1, <1>2, <1>3, Zenon
<1>5. /\ p[2] \in w.y..(w.y + w.h - 1) => p[2] \in w.y..(w.y + w.h)
      /\ p[2] \in w.y..(w.y + w.h) /\ p[2] \notin w.y..(w.y + w.h - 1) => p[2] = w.y + w.h
  BY <1>1, <1>2, <1>3, Zenon
<1>6. QED BY <1>4, <1>5, Zenon DEF Inside, Over

\* A press goes to the window that is seen under the pointer, on every screen and wherever
\* the windows were dragged: the order of painting is the order of the search.
THEOREM PressesGoToWhatIsSeen == Spec => []ShownIsHit
<1>1. ASSUME GInv, Painted PROVE ShownIsHit
  <2>1. SUFFICES ASSUME turn = "mouse", NEW p \in Pixels, frame[p] \in Windows, Hit(p) # frame[p]
                 PROVE  /\ Hit(p) # None
                        /\ \/ p[1] = window[Hit(p)].x + window[Hit(p)].w
                           \/ p[2] = window[Hit(p)].y + window[Hit(p)].h
    BY DEF ShownIsHit
  <2> DEFINE i == frame[p]
             h == Hit(p)
  <2>2. TypeOK /\ Windows = 1..3
    BY <1>1 DEF GInv, TypeOK, Windows
  <2>3. i \in 1..3 /\ Covers(p, i, 3)
    BY <1>1, <2>1, <2>2 DEF Painted, ShowsLast
  <2> HIDE DEF i
  <2>4. \A k \in 1..3 : window[k] \in WindowType
    <3>1. window \in Seq(WindowType) /\ Len(window) = 3
      BY <2>2 DEF TypeOK
    <3>2. \A q \in Seq(WindowType) : Len(q) = 3 => \A k \in 1..3 : q[k] \in WindowType
      <4> HIDE DEF WindowType
      <4>1. QED OBVIOUS
    <3>3. QED BY <3>1, <3>2, Zenon
  <2>5. window[i].visible /\ Inside(p, window[i])
    BY <2>3 DEF Covers
  <2>6. Over(p, window[i])
    BY <2>1, <2>3, <2>4, <2>5, InsideIsOver
  <2>7. h # None /\ i <= h
    BY <2>2, <2>3, <2>5, <2>6, HitIsTopmost
  <2>8. h \in 1..3 /\ window[h].visible /\ Over(p, window[h])
    BY <2>2, <2>7, HitIsWindow
  <2>9. h # i
    BY <2>1 DEF i
  <2> HIDE DEF h
  <2>10. h \in (i + 1)..3
    BY <2>3, <2>7, <2>8, <2>9
  <2>11. ~Inside(p, window[h])
    BY <2>3, <2>8, <2>10 DEF Covers
  <2>12. p[1] = window[h].x + window[h].w \/ p[2] = window[h].y + window[h].h
    BY <2>1, <2>4, <2>8, <2>11, InsideIsOver
  <2>13. QED BY <2>7, <2>12 DEF h
<1>2. QED BY <1>1, Invariant, PaintedInv, PTL
=============================================================================
