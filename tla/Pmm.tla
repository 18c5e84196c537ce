-------------------------------- MODULE Pmm --------------------------------
(***************************************************************************)
(* The physical memory manager: one bit per page frame, two counters kept  *)
(* beside the bitmap, and the place where the search for a single page     *)
(* resumes.  Addresses and lengths are counted in pages.                   *)
(*                                                                         *)
(* The clients are assumed to free what they hold, or what is free         *)
(* already, or nothing (NULL and frames there are not).                    *)
(***************************************************************************)
EXTENDS Integers, Sequences, FiniteSets

CONSTANTS
  Maps,         \* the memory maps the boot loader may hand over
  ByteBits,     \* bits of a byte: 8
  PageBytes,    \* PAGE_SIZE: 4096
  LowPages,     \* pages below 1 MB: 256
  MaxRequest    \* bound: pages asked for or given back in one call

\* The entries of a map, sorted and disjoint as the boot protocol promises.
IsMap(m) ==
  /\ m \in Seq([base : Nat, pages : Nat, usable : BOOLEAN])
  /\ \A i, j \in DOMAIN m : i < j => m[i].base + m[i].pages <= m[j].base

ASSUME MapsAssumption == \A m \in Maps : IsMap(m)
ASSUME GeometryAssumption ==
  ByteBits \in Nat \ {0} /\ PageBytes \in Nat \ {0} /\ LowPages \in Nat \ {0}
ASSUME RequestAssumption == MaxRequest \in Nat \ {0}

VARIABLES
  memmap,     \* the memory map of this boot
  total,      \* g_total_pages
  base,       \* the page the bitmap starts at
  bitmap,     \* the bits that are 1
  free,       \* g_free_pages
  used,       \* g_used_pages
  last,       \* g_last_index
  held,       \* the frames clients have: handed out and not freed
  answer      \* what the last call asked for and got

vars == <<memmap, total, base, bitmap, free, used, last, held, answer>>
bootVars == <<memmap, total, base>>

Pages == 0..(total - 1)

-----------------------------------------------------------------------------
\* pmm_init.

UsableEntries(m) == {m[i] : i \in {j \in DOMAIN m : m[j].usable}}
Usable(m) == UNION {e.base..(e.base + e.pages - 1) : e \in UsableEntries(m)}

\* g_bitmap_size in pages: ALIGN_UP(g_total_pages / 8, PAGE_SIZE).
BitmapPages(n) == (n \div ByteBits + PageBytes - 1) \div PageBytes

BitmapFrames == base..(base + BitmapPages(total) - 1)

\* Mutant: the pages of the bitmap are not marked.
BitsAtBootWithoutOwn == {p \in Pages : p \notin Usable(memmap) \/ p < LowPages}

\* All bits are set, those of usable pages cleared, those of the bitmap's own pages and
\* of the pages below 1 MB set again.
BitsAtBoot == {p \in Pages : p \notin Usable(memmap) \/ p \in BitmapFrames \/ p < LowPages}

\* g_free_pages counts the usable pages, then loses one for each page of the bitmap
\* and for each page below 1 MB that is still free.
FreePagesAtBoot(m, n, b) ==
  Cardinality(Usable(m)) - BitmapPages(n)
    - Cardinality({p \in Usable(m) : p < LowPages /\ p \notin b..(b + BitmapPages(n) - 1)})

Init ==
  /\ memmap \in Maps
  /\ \E e \in UsableEntries(memmap) :
       /\ total = e.base + e.pages
       /\ \A f \in UsableEntries(memmap) : f.base + f.pages <= total
  /\ \E e \in UsableEntries(memmap) :
       /\ e.pages >= BitmapPages(total)
       /\ \A f \in UsableEntries(memmap) : f.pages >= BitmapPages(total) => e.base <= f.base
       /\ base = e.base
  /\ bitmap = BitsAtBoot
  /\ free = FreePagesAtBoot(memmap, total, base)
  /\ used = total - free
  /\ last = 0
  /\ held = {}
  /\ answer = [asked |-> 0, got |-> {}]

-----------------------------------------------------------------------------
Run(s, n) == s..(s + n - 1)

Least(S) == {x \in S : \A y \in S : x <= y}

\* Mutant: the page after the run is marked too.
HandOneMore(run, n) ==
  /\ bitmap' = bitmap \cup run \cup {p \in Pages : p - 1 \in run}
  /\ free' = free - n
  /\ used' = used + n
  /\ held' = held \cup run
  /\ answer' = [asked |-> n, got |-> run]

\* The pages of the run are marked, counted and handed out.
Hand(run, n) ==
  /\ bitmap' = bitmap \cup run
  /\ free' = free - n
  /\ used' = used + n
  /\ held' = held \cup run
  /\ answer' = [asked |-> n, got |-> run]

Refuse(n) ==
  /\ answer' = [asked |-> n, got |-> {}]
  /\ UNCHANGED <<bitmap, free, used, last, held>>

\* pmm_alloc_page: the first free page from last on, wrapping round.
Steps(p) == IF p >= last THEN p - last ELSE p - last + total

NextFree == {p \in Pages \ bitmap : \A q \in Pages \ bitmap : Steps(p) <= Steps(q)}

AllocPage ==
  /\ \/ \E p \in NextFree : Hand({p}, 1) /\ last' = p + 1
     \/ NextFree = {} /\ Refuse(1)
  /\ UNCHANGED bootVars

\* Mutant: the run may start in the last pages and end beyond the bitmap.
FirstRunPastEnd(n) == Least({s \in Pages : Run(s, n) \cap bitmap = {}})

\* Mutant: the count of free pages is not reset at a page that is used.
FirstRunNoReset(n) ==
  IF Cardinality(Pages \ bitmap) >= n THEN Least(Pages \ bitmap) ELSE {}

\* The lowest run of n free pages.
FirstRun(n) == Least({s \in Pages : Run(s, n) \subseteq Pages \ bitmap})

\* pmm_alloc_pages for two pages or more: the first fit, which leaves last alone.
AllocRun(n) ==
  /\ n > 1
  /\ \/ \E s \in FirstRun(n) : Hand(Run(s, n), n) /\ UNCHANGED last
     \/ FirstRun(n) = {} /\ Refuse(n)
  /\ UNCHANGED bootVars

AllocNothing ==
  /\ Refuse(0)
  /\ UNCHANGED bootVars

\* Mutant: a page that is free already is counted again.
FreePagesTwice(s, n) ==
  LET pages == IF s = 0 THEN {} ELSE Run(s, n) \cap Pages
  IN /\ Run(s, n) \cap bitmap \subseteq held \/ s = 0
     /\ bitmap' = bitmap \ pages
     /\ free' = free + Cardinality(pages)
     /\ used' = used - Cardinality(pages)
     /\ held' = held \ pages
     /\ answer' = [asked |-> 0, got |-> {}]
     /\ UNCHANGED <<last, bootVars>>

\* pmm_free_pages, and pmm_free_page with n = 1: NULL, pages there are not and pages
\* that are free already are passed over.
FreePages(s, n) ==
  LET pages == IF s = 0 THEN {} ELSE Run(s, n) \cap Pages \cap bitmap
  IN /\ pages \subseteq held
     /\ bitmap' = bitmap \ pages
     /\ free' = free + Cardinality(pages)
     /\ used' = used - Cardinality(pages)
     /\ held' = held \ pages
     /\ answer' = [asked |-> 0, got |-> {}]
     /\ UNCHANGED <<last, bootVars>>

Next ==
  \/ AllocPage
  \/ AllocNothing
  \/ \E n \in 2..MaxRequest : AllocRun(n)
  \/ \E s \in 0..total, n \in 0..MaxRequest : FreePages(s, n)

Spec == Init /\ [][Next]_vars

-----------------------------------------------------------------------------
\* Properties.

TypeOK ==
  /\ memmap \in Maps
  /\ total \in Nat /\ base \in Nat
  /\ bitmap \subseteq Pages
  /\ free \in Nat /\ used \in Nat
  /\ last \in 0..total
  /\ held \subseteq Pages
  /\ answer \in [asked : Nat, got : SUBSET Pages]

\* The counters, which each operation adjusts by what it was asked, are what counting
\* the bits would give: neither wraps below zero, and what the shell reports is right.
CountersAgree ==
  /\ free = Cardinality(Pages \ bitmap)
  /\ used = Cardinality(bitmap)

\* Memory the kernel must not hand out stays out of reach for ever: holes and firmware,
\* the first megabyte (page 0 with it, whose address would read as NULL), the bitmap.
Reserved == {p \in Pages : p \notin Usable(memmap) \/ p < LowPages} \cup BitmapFrames
ReservedKept == Reserved \cap Pages \subseteq bitmap \ held

\* Every frame is reserved, held or free: none is lost, whatever is freed twice.
NothingLost == bitmap = held \cup (Reserved \cap Pages)

\* The frame the bit of page p lies in.
FrameOfBit(p) == base + p \div (ByteBits * PageBytes)

\* No client holds a frame that bits of the bitmap are kept in (pmm.c: find a usable
\* memory block big enough to store the bitmap itself).
BitmapPrivate == \A p \in Pages : FrameOfBit(p) \notin held

-----------------------------------------------------------------------------
\* The clients see an allocator: no frame is handed out twice, and a request is refused
\* only when no run of free frames is long enough.
Allocator == INSTANCE FrameAllocator WITH
  MaxRun <- MaxRequest,
  avail  <- Pages \ bitmap

IsAllocator == Allocator!Spec

=============================================================================
