--------------------------------- MODULE MCGui ---------------------------------
EXTENDS Gui

\* On a screen of this size the windows are a share of it.
NotLarge == [w |-> 900, h |-> 700]
NoSizes  == [i \in 1..3 |-> [w |-> 0, h |-> 0]]

\* The close button of the first window and its title, the title of the
\* second, the inside of the third, and two corners of the screen.
SomePointers == {<<2, 3>>, <<4, 4>>, <<13, 4>>, <<8, 11>>, <<0, 0>>, <<15, 15>>}
================================================================================
