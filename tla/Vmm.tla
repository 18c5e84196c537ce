---------------------------------- MODULE Vmm ----------------------------------
(***************************************************************************)
(* Page tables: a tree of tables in page frames, made on the way to the    *)
(* page that is mapped, from the tables that the loader has left.  Frames  *)
(* come from the physical memory manager; that they are handed out once is *)
(* shown in module Pmm, and here they are numbered as they are left.       *)
(*                                                                         *)
(* vmm_unmap_page and vmm_switch_pml4 have no caller and are left out;     *)
(* flags and the translation buffer are too, nothing is ever unmapped.     *)
(***************************************************************************)
EXTENDS Integers, FiniteSets

CONSTANTS
  Levels,      \* of tables: 4
  TableSpan    \* entries of a table: 512

ASSUME PagingAssumption == Levels \in Nat \ {0} /\ TableSpan \in Nat \ {0, 1}

NoFrame == 0
Root    == -1    \* the table CR3 points to, which vmm_init keeps

\* The tables and the frames: an entry is a table and an index, and present if it is there.
NoTables == [e \in {} |-> NoFrame]

\* How many pages an entry covers that is k levels above the last.
Reach[k \in 0..Levels] == IF k = 0 THEN 1 ELSE TableSpan * Reach[k - 1]

\* The part of a page's number that is the index at a level, 1 being the root's.
Index(page, level) == (page \div Reach[Levels - level]) % TableSpan

Linked(m, e, frame) == [x \in DOMAIN m.entry \cup {e} |-> IF x = e THEN frame ELSE m.entry[x]]

\* pmm_alloc_page
Frame(m) == m.free

\* get_next_level, which allocates: m.at is the table, NoFrame when there is none.
NextLevel(m, i) ==
  LET e == <<m.at, i>>
  IN IF m.at = NoFrame THEN m
     ELSE IF e \in DOMAIN m.entry THEN [m EXCEPT !.at = m.entry[e]]
     ELSE IF Frame(m) = NoFrame THEN [m EXCEPT !.at = NoFrame]
     ELSE [entry |-> Linked(m, e, Frame(m)), free |-> m.free - 1, at |-> Frame(m)]

\* The way to the table of the last level, made where it is missing.
Walk(m, page) ==
  LET walked[l \in 0..(Levels - 1)] ==
        IF l = 0 THEN [m EXCEPT !.at = Root] ELSE NextLevel(walked[l - 1], Index(page, l))
  IN walked[Levels - 1]

\* Mutant: the last index is left out of the page's address.
MapPageFirst(m, page, frame) ==
  LET w == Walk(m, page)
  IN IF w.at = NoFrame THEN w ELSE [w EXCEPT !.entry = Linked(w, <<w.at, 0>>, frame)]

\* vmm_map_page: nothing is said when a table is missing, and those that were made stay.
MapPage(m, page, frame) ==
  LET w == Walk(m, page)
  IN IF w.at = NoFrame THEN w
     ELSE [w EXCEPT !.entry = Linked(w, <<w.at, Index(page, Levels)>>, frame)]

-----------------------------------------------------------------------------
\* What the processor sees.

\* The frame of a page, NoFrame when one of its tables is missing.
Translate(entry, page) ==
  LET table[l \in 0..Levels] ==
        IF l = 0 THEN Root
        ELSE LET e == <<table[l - 1], Index(page, l)>>
             IN IF e \in DOMAIN entry THEN entry[e] ELSE NoFrame
  IN table[Levels]
================================================================================
