-------------------------------- MODULE Heap --------------------------------
(***************************************************************************)
(* The kernel heap: a list of blocks, each a header and the memory behind  *)
(* it, first fit, split on allocation and merged on release, over pages    *)
(* that the physical memory manager hands out one by one.  Addresses are   *)
(* bytes.                                                                  *)
(*                                                                         *)
(* All calls are made by one processor at a time.  Clients write only into *)
(* what they asked for, and free or resize only what they have; no header  *)
(* loses its magic number then, and the checks of it are left out.         *)
(***************************************************************************)
EXTENDS Vmm

CONSTANTS
  HeapStart,      \* KERNEL_HEAP_START
  PageSize,       \* PAGE_SIZE: 4096
  Header,         \* sizeof(struct heap_block): 32
  Unit,           \* the alignment of sizes, and the least a split leaves: 16
  InitialPages,   \* KERNEL_HEAP_INITIAL_PAGES: 1024
  LeastPages,     \* pages of an expansion, at least: 4
  KernelPage,     \* a page of the kernel, which the loader has mapped below the heap
  FreeFrames,     \* bound: how many page frames the loader may find free
  Sizes           \* bound: sizes asked for

ASSUME GeometryAssumption ==
  /\ {Unit, HeapStart, PageSize, Header, InitialPages, LeastPages} \subseteq Nat \ {0}
  /\ \A x \in {HeapStart, PageSize, Header} : x % Unit = 0
  /\ HeapStart % PageSize = 0
  /\ PageSize > Header
ASSUME SizesAssumption == Sizes \subseteq Nat
\* bound: the frames do not reach to the end of the addresses.
ASSUME FramesAssumption ==
  /\ FreeFrames \subseteq Nat
  /\ \A n \in FreeFrames : HeapStart \div PageSize + n <= Reach[Levels]

\* The tables CR3 leads to when vmm_init takes them over, and the frames left: of the
\* pages the loader has mapped, one stands for those that share tables with the heap's.
VmmInit(n) == MapPage([entry |-> NoTables, free |-> n - 1, at |-> NoFrame], KernelPage, n)

\* The loader had frames enough for that.
ASSUME LoaderAssumption ==
  /\ KernelPage \in 0..(HeapStart \div PageSize - 1)
  /\ \A n \in FreeFrames : n > 0 /\ VmmInit(n).at # NoFrame

VARIABLES
  block,    \* address of its header -> block
  head,     \* g_heap_head
  top,      \* g_heap_top
  frames,   \* page frames still free
  entry,    \* the entries of the page tables
  call,     \* the call under way: asked bytes, pages still to add, pointer to move
  live      \* pointer -> bytes asked for: what the clients have

vars == <<block, head, top, frames, entry, call, live>>

Nil == 0

Idle == [at |-> "idle", asked |-> 0, pages |-> 0, old |-> Nil]

Aligned(n) == ((n + Unit - 1) \div Unit) * Unit

Of(p) == p - Header       \* the block of a pointer
Ptr(b) == b + Header      \* the pointer of a block
End(h, b) == b + Header + h[b].size

-----------------------------------------------------------------------------
\* The list of blocks.

Mergeable(h, b) ==
  /\ h[b].next # Nil
  /\ h[h[b].next].free
  /\ End(h, b) = h[b].next

\* Mutant: the block after the two still points back at the one that is gone.
MergeOneWay(h, b) ==
  LET n == h[b].next
  IN [x \in DOMAIN h \ {n} |->
        IF x = b THEN [h[b] EXCEPT !.size = @ + Header + h[n].size, !.next = h[n].next]
        ELSE h[x]]

\* Block b takes in the block after it.
Merge(h, b) ==
  LET n == h[b].next
  IN [x \in DOMAIN h \ {n} |->
        CASE x = b -> [h[b] EXCEPT !.size = @ + Header + h[n].size, !.next = h[n].next]
          [] x # b /\ x = h[n].next -> [h[x] EXCEPT !.prev = b]
          [] OTHER -> h[x]]

MergeNext(h, b) == IF Mergeable(h, b) THEN Merge(h, b) ELSE h

\* Mutant: a free block before the freed one is not looked at.
FreedForward(h, b) == MergeNext([h EXCEPT ![b].free = TRUE], b)

\* Block b is freed and merged with the block after it, then with the one before it.
Freed(h, b) ==
  LET marked == [h EXCEPT ![b].free = TRUE]
      merged == MergeNext(marked, b)
      p == merged[b].prev
  IN IF p # Nil /\ merged[p].free THEN MergeNext(merged, p) ELSE merged

\* What block b has beyond n bytes becomes a block of its own, if it can hold a header
\* and one unit.
Split(h, b, n) ==
  LET s == b + Header + n
      left == [size |-> h[b].size - n - Header, free |-> TRUE, next |-> h[b].next, prev |-> b]
  IN IF h[b].size >= n + Header + Unit
     THEN [x \in DOMAIN h \cup {s} |->
             CASE x = s -> left
               [] x # s /\ x = b -> [h[b] EXCEPT !.size = n, !.next = s]
               [] x # s /\ x = h[b].next -> [h[x] EXCEPT !.prev = s]
               [] OTHER -> h[x]]
     ELSE h

Taken(h, b, n) == [Split(h, b, n) EXCEPT ![b].free = FALSE]

\* The list is in the order of addresses, so the first fit is the lowest.
Fitting(n) == {b \in DOMAIN block : block[b].free /\ block[b].size >= n}
FirstFit(n) == {b \in Fitting(n) : \A c \in Fitting(n) : b <= c}

-----------------------------------------------------------------------------
\* heap_expand.

\* Mutant: the header of the block is not counted.
BatchWithoutHeader(n) ==
  LET needed == (Aligned(n) + PageSize - 1) \div PageSize
  IN IF needed > LeastPages THEN needed ELSE LeastPages

\* Pages to add for a request of n bytes.
Batch(n) ==
  LET needed == (Aligned(n) + Header + PageSize - 1) \div PageSize
  IN IF needed > LeastPages THEN needed ELSE LeastPages

\* A frame is taken and mapped at the top of the heap.
Expanded ==
  MapPage([entry |-> entry, free |-> frames - 1, at |-> NoFrame], top \div PageSize, frames)

\* A block for the page at the top, last in the list.
Appended(h) ==
  LET new(p) == [size |-> PageSize - Header, free |-> TRUE, next |-> Nil, prev |-> p]
      tails == {b \in DOMAIN h : h[b].next = Nil}
  IN [x \in DOMAIN h \cup {top} |->
        CASE x = top -> new(IF head = Nil THEN Nil ELSE CHOOSE t \in tails : TRUE)
          [] x # top /\ x \in tails -> [h[x] EXCEPT !.next = top]
          [] OTHER -> h[x]]

\* Mutant: the new page stays a block of its own.
GrownApart == Appended(block)

\* The page's block is merged with the tail, if that is free and ends at the page.
Grown ==
  LET h == Appended(block)
      t == h[top].prev
  IN IF t # Nil /\ h[t].free THEN MergeNext(h, t) ELSE h

\* One page more.
ExpandPage ==
  /\ call.at = "expand" /\ call.pages > 0
  /\ frames > 0
  /\ LET m == Expanded
     IN m.at # NoFrame /\ frames' = m.free /\ entry' = m.entry
  /\ block' = Grown
  /\ head' = IF head = Nil THEN top ELSE head
  /\ top' = top + PageSize
  /\ call' = [call EXCEPT !.pages = @ - 1]
  /\ UNCHANGED live

\* A frame for the page, none for a page table: vmm_map_page returns without mapping and
\* without a word, and the write of the header faults.
ExpandFault ==
  /\ call.at = "expand" /\ call.pages > 0
  /\ frames > 0
  /\ LET m == Expanded
     IN m.at = NoFrame /\ frames' = m.free /\ entry' = m.entry
  /\ call' = [call EXCEPT !.at = "fault"]
  /\ UNCHANGED <<block, head, top, live>>

\* All pages are added, or there is no frame left: heap_init returns, kmalloc tries again.
ExpandDone ==
  /\ call.at = "expand"
  /\ call.pages = 0 \/ frames = 0
  /\ call' = IF call.asked = 0 THEN Idle ELSE [call EXCEPT !.at = "search", !.pages = 0]
  /\ UNCHANGED <<block, head, top, frames, entry, live>>

-----------------------------------------------------------------------------
\* kmalloc, kfree, krealloc.

Kmalloc(n) ==
  /\ call = Idle /\ n > 0
  /\ call' = [Idle EXCEPT !.at = "search", !.asked = n]
  /\ UNCHANGED <<block, head, top, frames, entry, live>>

\* A block that fits is taken; if krealloc asked for it, the old one is freed.
Take ==
  /\ call.at = "search"
  /\ \E b \in FirstFit(Aligned(call.asked)) :
       LET taken == Taken(block, b, Aligned(call.asked))
           kept == DOMAIN live \ {call.old}
       IN /\ block' = IF call.old = Nil THEN taken ELSE Freed(taken, Of(call.old))
          /\ live' = [p \in kept \cup {Ptr(b)} |-> IF p = Ptr(b) THEN call.asked ELSE live[p]]
  /\ call' = Idle
  /\ UNCHANGED <<head, top, frames, entry>>

NothingFits ==
  /\ call.at = "search"
  /\ Fitting(Aligned(call.asked)) = {}
  /\ call' = [call EXCEPT !.at = "expand", !.pages = Batch(call.asked)]
  /\ UNCHANGED <<block, head, top, frames, entry, live>>

Kfree(p) ==
  /\ call = Idle
  /\ block' = Freed(block, Of(p))
  /\ live' = [q \in DOMAIN live \ {p} |-> live[q]]
  /\ UNCHANGED <<head, top, frames, entry, call>>

\* Mutant: the old block is large enough if its end on the page is.
KreallocGenerous(p, n) ==
  /\ call = Idle /\ n > 0
  /\ \/ /\ block[Of(p)].size + Header >= n
        /\ live' = [live EXCEPT ![p] = n]
        /\ UNCHANGED call
     \/ /\ block[Of(p)].size + Header < n
        /\ call' = [Idle EXCEPT !.at = "search", !.asked = n, !.old = p]
        /\ UNCHANGED live
  /\ UNCHANGED <<block, head, top, frames, entry>>

\* krealloc of memory a client has: in place if the block is large enough.  A null
\* pointer makes it kmalloc, a size of zero kfree.
Krealloc(p, n) ==
  /\ call = Idle /\ n > 0
  /\ \/ /\ block[Of(p)].size >= n
        /\ live' = [live EXCEPT ![p] = n]
        /\ UNCHANGED call
     \/ /\ block[Of(p)].size < n
        /\ call' = [Idle EXCEPT !.at = "search", !.asked = n, !.old = p]
        /\ UNCHANGED live
  /\ UNCHANGED <<block, head, top, frames, entry>>

\* heap_init is called, after vmm_init, with whatever frames there are.
Init ==
  /\ block = [b \in {} |-> Nil]
  /\ head = Nil
  /\ top = HeapStart
  /\ \E n \in FreeFrames : frames = VmmInit(n).free /\ entry = VmmInit(n).entry
  /\ call = [Idle EXCEPT !.at = "expand", !.pages = InitialPages]
  /\ live = [p \in {} |-> 0]

Step == ExpandPage \/ ExpandFault \/ ExpandDone \/ Take \/ NothingFits

Next ==
  \/ Step
  \/ \E n \in Sizes : Kmalloc(n)
  \/ \E p \in DOMAIN live : Kfree(p)
  \/ \E p \in DOMAIN live, n \in Sizes : Krealloc(p, n)

Spec == Init /\ [][Next]_vars

\* A call that is made is executed.
FairSpec == Spec /\ WF_vars(Step)

-----------------------------------------------------------------------------
\* Properties.

BlockType == [size : Nat, free : BOOLEAN, next : Nat, prev : Nat]

Typed ==
  /\ DOMAIN block \subseteq Nat \ {Nil}
  /\ \A b \in DOMAIN block : block[b] \in BlockType
  /\ head \in DOMAIN block \cup {Nil}
  /\ top \in Nat /\ frames \in Nat
  /\ call \in [at : {"idle", "search", "expand", "fault"}, asked : Nat, pages : Nat, old : Nat]
  /\ DOMAIN live \subseteq Nat /\ \A p \in DOMAIN live : live[p] \in Nat \ {0}

\* The blocks tile the heap without gap or overlap, whatever was split and merged, and
\* the links, both ways, follow the tiles: each block ends where the next begins.
Tiled ==
  /\ head = IF block = [b \in {} |-> Nil] THEN Nil ELSE HeapStart
  /\ head = Nil => top = HeapStart
  /\ head # Nil => head \in DOMAIN block /\ block[head].prev = Nil
  /\ \A b \in DOMAIN block :
       /\ block[b].size > 0
       /\ block[b].next = IF End(block, b) = top THEN Nil ELSE End(block, b)
       /\ End(block, b) # top =>
            End(block, b) \in DOMAIN block /\ block[End(block, b)].prev = b

\* No two free blocks are neighbours: memory that was freed can be had again in the
\* largest pieces.
Coalesced ==
  \A b \in DOMAIN block :
    block[b].free /\ block[b].next # Nil => ~block[block[b].next].free

\* The blocks that are not free are those the clients have, each as large as was asked.
Owned ==
  /\ {Ptr(b) : b \in {c \in DOMAIN block : ~block[c].free}} = DOMAIN live
  /\ \A p \in DOMAIN live : live[p] <= block[Of(p)].size

\* The state has its types, and the list of blocks these three.
WellFormed == Typed /\ Tiled /\ Coalesced /\ Owned

\* The pages of the heap are mapped, what the loader had mapped still is, and nothing else;
\* every frame that was taken is used once, as one page or as one table, and none is lost
\* on the way to a mapping.
HeapMapped ==
  call.at # "fault" =>
    /\ \A page \in 0..(Reach[Levels] - 1) :
         (Translate(entry, page) # NoFrame) <=>
           (page * PageSize \in HeapStart..(top - 1) \/ page = KernelPage)
    /\ \A e, f \in DOMAIN entry : entry[e] = entry[f] => e = f
    /\ {entry[e] : e \in DOMAIN entry} = (frames + 1)..(frames + Cardinality(DOMAIN entry))

\* The bytes of the heap that no client's block and no such block's header occupies.
Occupied == UNION {Of(p)..(End(block, Of(p)) - 1) : p \in DOMAIN live}
Gap(n) ==
  \E a \in HeapStart..(top - 1) :
    a..(a + n - 1) \subseteq (HeapStart..(top - 1)) \ Occupied

\* The heap takes pages only when no gap between the clients' blocks would do, so it
\* never grows because of how memory was split and freed.
GrowsOnlyWhenFull ==
  call.at = "expand" /\ call.pages = Batch(call.asked) /\ call.asked > 0 =>
    ~Gap(Header + Aligned(call.asked))

\* A full expansion is enough: the second search finds a block.
ExpansionSuffices ==
  call.at = "expand" /\ call.pages = 0 /\ call.asked > 0 =>
    Fitting(Aligned(call.asked)) # {}

\* The clients see a pool of memory: what they have lies in the heap and overlaps nothing
\* else they have, through splits, merges and moves.
Pool == INSTANCE MemoryPool WITH
  Requests <- Sizes,
  memory   <- HeapStart..(top - 1)
IsPool == Pool!Spec

\* The tables that pages following the last one mapped can need, at most.
NewTables(pages) == (Levels - 1) * ((pages + TableSpan - 1) \div TableSpan)

\* With a frame for each page it needs and each table these enter, kmalloc returns.
EnoughMemoryReturns ==
  \A n \in Sizes :
    (/\ call.at = "search" /\ call.asked = n
     /\ frames >= Batch(n) + NewTables(Batch(n))) ~> (call.at = "idle")

\* kmalloc returns, with memory or without.  Its callers say so: each looks for NULL.
KmallocReturns == (call.at = "search") ~> (call.at = "idle")

=============================================================================
