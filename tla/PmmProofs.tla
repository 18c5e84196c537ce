----------------------------- MODULE PmmProofs -----------------------------
(***************************************************************************)
(* Proofs about module Pmm: the counters, the reserved frames and the      *)
(* frames of the clients, for every memory map and every size.             *)
(***************************************************************************)
EXTENDS Pmm, FiniteSetTheorems, WellFoundedInduction, TLAPS

-----------------------------------------------------------------------------
(* Sets of numbers.                                                        *)

\* A set of natural numbers that is not empty has a least element.
LEMMA LeastExists ==
  ASSUME NEW S \in SUBSET Nat, S # {}
  PROVE  \E x \in S : \A y \in S : x <= y
<1> DEFINE R == OpToRel(<, Nat)
<1>1. IsWellFoundedOn(R, Nat)
  BY NatLessThanWellFounded
<1> HIDE DEF R
<1>2. PICK x \in S : \A y \in S : ~(<<y, x>> \in R)
  BY <1>1, WFMin
<1>3. \A y \in S : ~(y < x)
  BY <1>2 DEF R, OpToRel
<1>4. QED BY <1>3

\* The frames of a run, counted.
LEMMA RunSize ==
  ASSUME NEW s \in Nat, NEW n \in Nat
  PROVE  IsFiniteSet(Run(s, n)) /\ Cardinality(Run(s, n)) = n
BY FS_Interval DEF Run

\* Taking from a finite set some of its elements.
LEMMA Taking ==
  ASSUME NEW S, IsFiniteSet(S), NEW T \in SUBSET S
  PROVE  /\ IsFiniteSet(T) /\ Cardinality(T) \in Nat /\ Cardinality(S) \in Nat
         /\ IsFiniteSet(S \ T) /\ Cardinality(S \ T) = Cardinality(S) - Cardinality(T)
<1>1. S \cap T = T
  OBVIOUS
<1>2. IsFiniteSet(T)
  BY FS_Subset
<1>3. IsFiniteSet(S \ T) /\ Cardinality(S \ T) = Cardinality(S) - Cardinality(T)
  BY <1>1, FS_Difference
<1>4. QED BY <1>2, <1>3, FS_CardinalityType

\* Putting new elements to a finite set.
LEMMA Putting ==
  ASSUME NEW S, IsFiniteSet(S), NEW T, IsFiniteSet(T), S \cap T = {}
  PROVE  /\ IsFiniteSet(S \cup T)
         /\ Cardinality(S \cup T) = Cardinality(S) + Cardinality(T)
<1>1. Cardinality({}) = 0 /\ Cardinality(S) \in Nat /\ Cardinality(T) \in Nat
  BY FS_EmptySet, FS_CardinalityType
<1>2. Cardinality(S \cup T) = Cardinality(S) + Cardinality(T) - Cardinality(S \cap T)
  BY FS_Union
<1>3. QED BY <1>1, <1>2, FS_Union

-----------------------------------------------------------------------------
(* The invariant.                                                          *)

PInv == TypeOK /\ CountersAgree /\ ReservedKept /\ NothingLost

\* The pages and the bits are finitely many.
LEMMA Finite ==
  ASSUME TypeOK
  PROVE  /\ IsFiniteSet(Pages) /\ IsFiniteSet(bitmap) /\ IsFiniteSet(Pages \ bitmap)
         /\ Cardinality(bitmap) \in Nat /\ Cardinality(Pages \ bitmap) \in Nat
<1>1. IsFiniteSet(Pages)
  BY FS_Interval DEF TypeOK, Pages
<1>2. bitmap \in SUBSET Pages
  BY DEF TypeOK
<1>3. QED BY <1>1, <1>2, Taking

\* Handing out a run of free pages keeps the books, if last stays in range.
LEMMA HandInv ==
  ASSUME PInv, NEW s \in Pages, NEW n \in Nat \ {0}, Run(s, n) \subseteq Pages \ bitmap,
         Hand(Run(s, n), n), UNCHANGED bootVars, last' \in 0..total
  PROVE  PInv'
<1> DEFINE run == Run(s, n)
<1>1. /\ IsFiniteSet(run) /\ Cardinality(run) = n
  BY RunSize DEF Pages
<1>2. Pages' = Pages /\ Reserved' = Reserved /\ total' = total
  BY DEF bootVars, Pages, Reserved, BitmapFrames
<1> HIDE DEF run
<1>3. /\ bitmap' = bitmap \cup run /\ held' = held \cup run
      /\ free' = free - n /\ used' = used + n /\ answer' = [asked |-> n, got |-> run]
      /\ run \subseteq Pages \ bitmap
  BY DEF Hand, run
<1>4. /\ Cardinality(Pages \ bitmap') = Cardinality(Pages \ bitmap) - n
      /\ Cardinality(bitmap') = Cardinality(bitmap) + n
      /\ Cardinality(Pages \ bitmap') \in Nat
  <2>1. Pages \ bitmap' = (Pages \ bitmap) \ run /\ bitmap \cap run = {}
    BY <1>3
  <2>2. Cardinality((Pages \ bitmap) \ run) = Cardinality(Pages \ bitmap) - n
    BY <1>1, <1>3, Finite, Taking DEF PInv
  <2>3. Cardinality(bitmap \cup run) = Cardinality(bitmap) + n
    BY <1>1, <2>1, Finite, Putting DEF PInv
  <2>4. IsFiniteSet((Pages \ bitmap) \ run)
    BY <1>3, Finite, Taking DEF PInv
  <2>5. Cardinality((Pages \ bitmap) \ run) \in Nat
    BY <2>4, FS_CardinalityType
  <2>6. QED BY <1>3, <2>1, <2>2, <2>3, <2>5
<1>5. CountersAgree'
  BY <1>2, <1>3, <1>4 DEF PInv, CountersAgree
<1>6. TypeOK'
  <2>1. free' \in Nat /\ used' \in Nat
    BY <1>3, <1>4 DEF PInv, TypeOK, CountersAgree
  <2>2. QED BY <1>2, <1>3, <2>1 DEF PInv, TypeOK, bootVars
<1>7. ReservedKept' /\ NothingLost'
  BY <1>2, <1>3 DEF PInv, ReservedKept, NothingLost
<1>8. QED BY <1>5, <1>6, <1>7 DEF PInv

\* A call that is refused changes nothing but the answer.
LEMMA RefuseInv ==
  ASSUME PInv, NEW n \in Nat, Refuse(n), UNCHANGED bootVars
  PROVE  PInv'
<1>1. Pages' = Pages /\ Reserved' = Reserved
  BY DEF bootVars, Pages, Reserved, BitmapFrames
<1>2. TypeOK'
  BY <1>1 DEF PInv, TypeOK, Refuse, bootVars
<1>3. QED BY <1>1, <1>2 DEF PInv, CountersAgree, ReservedKept, NothingLost, Refuse

\* A single page comes from the free ones, and the search resumes after it.
LEMMA AllocPageInv == PInv /\ AllocPage => PInv'
<1> SUFFICES ASSUME PInv, AllocPage PROVE PInv'
  OBVIOUS
<1>1. CASE NextFree = {} /\ Refuse(1)
  BY <1>1, RefuseInv DEF AllocPage
<1>2. ASSUME NEW p \in NextFree, Hand({p}, 1), last' = p + 1
      PROVE  PInv'
  <2>1. p \in Pages \ bitmap /\ Run(p, 1) = {p} /\ p + 1 \in 0..total
    BY DEF NextFree, Run, Pages, PInv, TypeOK
  <2>2. QED BY <1>2, <2>1, HandInv DEF AllocPage
<1>3. QED BY <1>1, <1>2 DEF AllocPage

\* A run comes from the free pages.
LEMMA AllocRunInv ==
  ASSUME PInv, NEW n \in Nat, AllocRun(n)
  PROVE  PInv'
<1>1. CASE FirstRun(n) = {} /\ Refuse(n)
  BY <1>1, RefuseInv DEF AllocRun
<1>2. ASSUME NEW s \in FirstRun(n), Hand(Run(s, n), n), UNCHANGED last
      PROVE  PInv'
  <2>1. s \in Pages /\ Run(s, n) \subseteq Pages \ bitmap /\ n > 0
    BY DEF FirstRun, Least, AllocRun
  <2>2. last' \in 0..total
    BY <1>2 DEF PInv, TypeOK
  <2>3. QED BY <1>2, <2>1, <2>2, HandInv DEF AllocRun
<1>3. QED BY <1>1, <1>2 DEF AllocRun

\* Freed pages were held, so none of the reserved ones is among them.
LEMMA FreePagesInv ==
  ASSUME PInv, NEW s \in Nat, NEW n \in Nat, FreePages(s, n)
  PROVE  PInv'
<1> DEFINE pages == IF s = 0 THEN {} ELSE Run(s, n) \cap Pages \cap bitmap
<1>1. pages \subseteq Pages /\ pages \subseteq bitmap
  OBVIOUS
<1>2. /\ pages \subseteq held /\ bitmap' = bitmap \ pages
      /\ free' = free + Cardinality(pages) /\ used' = used - Cardinality(pages)
      /\ held' = held \ pages /\ answer' = [asked |-> 0, got |-> {}]
      /\ UNCHANGED <<last, memmap, total, base>>
  BY DEF FreePages, bootVars
<1> HIDE DEF pages
<1>3. Pages' = Pages /\ Reserved' = Reserved
  BY <1>2 DEF Pages, Reserved, BitmapFrames
<1>4. /\ IsFiniteSet(pages) /\ Cardinality(pages) \in Nat
      /\ Cardinality(bitmap \ pages) = Cardinality(bitmap) - Cardinality(pages)
      /\ Cardinality(bitmap \ pages) \in Nat
  <2>1. IsFiniteSet(bitmap) /\ pages \in SUBSET bitmap
    BY <1>1, Finite DEF PInv
  <2>2. /\ IsFiniteSet(pages) /\ Cardinality(pages) \in Nat /\ IsFiniteSet(bitmap \ pages)
        /\ Cardinality(bitmap \ pages) = Cardinality(bitmap) - Cardinality(pages)
    BY <2>1, Taking
  <2>3. QED BY <2>2, FS_CardinalityType
<1>5. Cardinality(Pages \ (bitmap \ pages)) = Cardinality(Pages \ bitmap) + Cardinality(pages)
  <2>1. Pages \ (bitmap \ pages) = (Pages \ bitmap) \cup pages /\ (Pages \ bitmap) \cap pages = {}
    BY <1>1
  <2>2. QED BY <1>4, <2>1, Finite, Putting DEF PInv
<1>6. CountersAgree'
  BY <1>2, <1>3, <1>4, <1>5 DEF PInv, CountersAgree
<1>7. TypeOK'
  <2>1. free' \in Nat /\ used' \in Nat
    BY <1>2, <1>4 DEF PInv, TypeOK, CountersAgree
  <2>2. QED BY <1>2, <1>3, <2>1 DEF PInv, TypeOK
<1>8. ReservedKept' /\ NothingLost'
  BY <1>1, <1>2, <1>3 DEF PInv, ReservedKept, NothingLost
<1>9. QED BY <1>6, <1>7, <1>8 DEF PInv

-----------------------------------------------------------------------------
(* The state pmm_init leaves.                                              *)

\* The bitmap has some number of pages.
LEMMA BitmapPagesType == \A n \in Nat : BitmapPages(n) \in Nat
<1> SUFFICES ASSUME NEW n \in Nat PROVE BitmapPages(n) \in Nat
  OBVIOUS
<1>1. n \div ByteBits \in Nat
  BY GeometryAssumption
<1> DEFINE k == n \div ByteBits + PageBytes - 1
<1>2. k \in Nat
  BY <1>1, GeometryAssumption
<1> HIDE DEF k
<1>3. k \div PageBytes \in Nat
  BY <1>2, GeometryAssumption
<1>4. QED BY <1>3 DEF BitmapPages, k

\* The entries of a map are where they should be.
LEMMA EntryType ==
  ASSUME NEW m \in Maps, NEW e \in UsableEntries(m)
  PROVE  e.base \in Nat /\ e.pages \in Nat
<1> DEFINE T == [base : Nat, pages : Nat, usable : BOOLEAN]
<1>1. PICK i \in DOMAIN m : e = m[i]
  BY DEF UsableEntries
<1>2. m \in Seq(T)
  BY MapsAssumption DEF IsMap
<1> HIDE DEF T
<1>3. m[i] \in T
  BY <1>1, <1>2
<1>4. QED BY <1>1, <1>3 DEF T

\* What Init says of the bitmap's place: inside the usable memory it marks.
LEMMA BootFacts ==
  ASSUME Init
  PROVE  /\ total \in Nat /\ base \in Nat /\ memmap \in Maps
         /\ Usable(memmap) \subseteq Pages
         /\ BitmapFrames \subseteq Usable(memmap)
<1>1. PICK e \in UsableEntries(memmap) :
        total = e.base + e.pages
          /\ \A f \in UsableEntries(memmap) : f.base + f.pages <= total
  BY DEF Init
<1>2. PICK b \in UsableEntries(memmap) : b.pages >= BitmapPages(total) /\ base = b.base
  BY DEF Init
<1>3. memmap \in Maps
  BY DEF Init
<1>4. \A f \in UsableEntries(memmap) : f.base \in Nat /\ f.pages \in Nat
  BY <1>3, EntryType
<1>5. total \in Nat /\ base \in Nat
  BY <1>1, <1>2, <1>4
<1>6. ASSUME NEW p \in Usable(memmap) PROVE p \in Pages
  <2>1. PICK f \in UsableEntries(memmap) : p \in f.base..(f.base + f.pages - 1)
    BY DEF Usable
  <2>2. QED BY <1>1, <1>4, <1>5, <2>1 DEF Pages
<1>7. ASSUME NEW p \in BitmapFrames PROVE p \in Usable(memmap)
  <2>1. BitmapPages(total) \in Nat
    BY <1>5, BitmapPagesType
  <2>2. p \in b.base..(b.base + b.pages - 1)
    BY <1>2, <1>4, <1>5, <2>1 DEF BitmapFrames
  <2>3. QED BY <2>2 DEF Usable
<1>8. QED BY <1>3, <1>5, <1>6, <1>7

\* The counters pmm_init leaves are those of the bitmap it leaves.
LEMMA InitInv == Init => PInv
<1> SUFFICES ASSUME Init PROVE PInv
  OBVIOUS
<1> DEFINE U == Usable(memmap)
           L == {p \in U : p < LowPages /\ p \notin BitmapFrames}
<1>1. /\ total \in Nat /\ base \in Nat /\ memmap \in Maps
      /\ U \subseteq Pages /\ BitmapFrames \subseteq U
  BY BootFacts
<1>2. /\ bitmap = BitsAtBoot /\ used = total - free /\ last = 0 /\ held = {}
      /\ free = Cardinality(U) - BitmapPages(total) - Cardinality(L)
      /\ answer = [asked |-> 0, got |-> {}]
  BY DEF Init, FreePagesAtBoot, BitmapFrames
<1>3. bitmap \subseteq Pages /\ Pages \ bitmap = (U \ BitmapFrames) \ L
  BY <1>1, <1>2 DEF BitsAtBoot
<1>4. L \subseteq U \ BitmapFrames
  OBVIOUS
<1> HIDE DEF U, L
<1>5. IsFiniteSet(Pages) /\ Cardinality(Pages) = total
  BY <1>1, FS_Interval DEF Pages
<1>6. IsFiniteSet(U) /\ Cardinality(U) \in Nat
  BY <1>1, <1>5, Taking
<1>7. IsFiniteSet(BitmapFrames) /\ Cardinality(BitmapFrames) = BitmapPages(total)
  <2>1. BitmapPages(total) \in Nat
    BY <1>1, BitmapPagesType
  <2>2. BitmapFrames = Run(base, BitmapPages(total))
    BY DEF BitmapFrames, Run
  <2>3. QED BY <1>1, <2>1, <2>2, RunSize
<1>8. /\ IsFiniteSet(U \ BitmapFrames)
      /\ Cardinality(U \ BitmapFrames) = Cardinality(U) - BitmapPages(total)
  BY <1>1, <1>6, <1>7, Taking
<1>9. Cardinality((U \ BitmapFrames) \ L) = Cardinality(U \ BitmapFrames) - Cardinality(L)
  BY <1>4, <1>8, Taking
<1>10. IsFiniteSet((U \ BitmapFrames) \ L)
  BY <1>4, <1>8, Taking
<1>11. free = Cardinality(Pages \ bitmap) /\ free \in Nat
  BY <1>2, <1>3, <1>8, <1>9, <1>10, FS_CardinalityType
<1>12. used = Cardinality(bitmap) /\ used \in Nat
  <2>1. /\ IsFiniteSet(bitmap) /\ Cardinality(bitmap) \in Nat
        /\ Cardinality(Pages \ bitmap) = total - Cardinality(bitmap)
    BY <1>3, <1>5, Taking
  <2>2. QED BY <1>1, <1>2, <1>11, <2>1
<1>13. TypeOK /\ CountersAgree
  BY <1>1, <1>2, <1>3, <1>11, <1>12 DEF TypeOK, CountersAgree
<1>14. ReservedKept /\ NothingLost
  <2>1. bitmap = Reserved \cap Pages
    BY <1>1, <1>2 DEF BitsAtBoot, Reserved, U
  <2>2. QED BY <1>2, <2>1 DEF ReservedKept, NothingLost
<1>15. QED BY <1>13, <1>14 DEF PInv

-----------------------------------------------------------------------------
(* The theorems.                                                           *)

\* Every call keeps the invariant.
LEMMA NextInv == PInv /\ [Next]_vars => PInv'
<1> SUFFICES ASSUME PInv, [Next]_vars PROVE PInv'
  OBVIOUS
<1>1. CASE AllocPage
  BY <1>1, AllocPageInv
<1>2. CASE AllocNothing
  BY <1>2, RefuseInv DEF AllocNothing
<1>3. ASSUME NEW n \in 2..MaxRequest, AllocRun(n) PROVE PInv'
  BY <1>3, AllocRunInv, RequestAssumption
<1>4. ASSUME NEW s \in 0..total, NEW n \in 0..MaxRequest, FreePages(s, n) PROVE PInv'
  BY <1>4, FreePagesInv, RequestAssumption DEF PInv, TypeOK
<1>5. CASE UNCHANGED vars
  <2>1. Pages' = Pages /\ Reserved' = Reserved
    BY <1>5 DEF vars, Pages, Reserved, BitmapFrames
  <2>2. QED BY <1>5, <2>1 DEF vars, PInv, TypeOK, CountersAgree, ReservedKept, NothingLost
<1>6. QED BY <1>1, <1>2, <1>3, <1>4, <1>5 DEF Next

\* Whatever is asked for and given back, the invariant holds.
THEOREM Inductive == Spec => []PInv
BY InitInv, NextInv, PTL DEF Spec

\* Types: in particular the counters never fall below zero.
THEOREM TypeCorrect == Spec => []TypeOK
<1>1. PInv => TypeOK
  BY DEF PInv
<1>2. QED BY <1>1, Inductive, PTL

\* The counters count the bits.
THEOREM CountersCorrect == Spec => []CountersAgree
<1>1. PInv => CountersAgree
  BY DEF PInv
<1>2. QED BY <1>1, Inductive, PTL

\* Reserved memory is never handed out.
THEOREM ReservedNeverHeld == Spec => []ReservedKept
<1>1. PInv => ReservedKept
  BY DEF PInv
<1>2. QED BY <1>1, Inductive, PTL

\* No frame is lost.
THEOREM FramesConserved == Spec => []NothingLost
<1>1. PInv => NothingLost
  BY DEF PInv
<1>2. QED BY <1>1, Inductive, PTL

-----------------------------------------------------------------------------
(* The bitmap's own memory.                                                *)

\* Rounding up to whole pages loses nothing.
LEMMA RoundUp ==
  ASSUME NEW q \in Nat, NEW d \in Nat \ {0}
  PROVE  q <= ((q + d - 1) \div d) * d
<1> DEFINE x == q + d - 1
           k == x \div d
           r == x % d
<1>1. x \in Nat /\ k \in Nat /\ r \in 0..(d - 1) /\ x = d * k + r
  OBVIOUS
<1> HIDE DEF x, k, r
<1>2. d * k = k * d /\ k * d \in Nat
  BY <1>1
<1>3. q = x - d + 1
  BY DEF x
<1>4. QED BY <1>1, <1>2, <1>3 DEF x, k

\* The bit of a page the bitmap has room for lies in one of its frames.
LEMMA BitInside ==
  ASSUME NEW p \in Nat, NEW k \in Nat, NEW c \in Nat \ {0}, p < k * c
  PROVE  p \div c \in 0..(k - 1)
<1> DEFINE q == p \div c
           r == p % c
<1>1. q \in Nat /\ r \in 0..(c - 1) /\ p = c * q + r
  OBVIOUS
<1> HIDE DEF q, r
<1>2. ASSUME q >= k PROVE FALSE
  <2>1. c * q >= c * k
    BY <1>1, <1>2
  <2>2. c * k = k * c
    OBVIOUS
  <2>3. QED BY <1>1, <2>1, <2>2
<1>3. QED BY <1>1, <1>2 DEF q

\* The bitmap has a bit for every page.
BitmapFits == total <= BitmapPages(total) * (ByteBits * PageBytes)

\* It has, when the number of pages is a multiple of the bits of a byte.
LEMMA WholeBytesFit ==
  ASSUME total \in Nat, total % ByteBits = 0
  PROVE  BitmapFits
<1> DEFINE q == total \div ByteBits
           k == (q + PageBytes - 1) \div PageBytes
<1>1. q \in Nat /\ total = ByteBits * q
  BY GeometryAssumption
<1>2. q <= k * PageBytes
  BY <1>1, RoundUp, GeometryAssumption
<1>3. k \in Nat
  <2>1. BitmapPages(total) \in Nat
    BY BitmapPagesType
  <2>2. QED BY <2>1 DEF BitmapPages
<1>4. k = BitmapPages(total)
  BY DEF BitmapPages
<1> HIDE DEF q, k
<1>5. ByteBits * q <= ByteBits * (k * PageBytes)
  BY <1>1, <1>2, <1>3, GeometryAssumption
<1>6. ByteBits * (k * PageBytes) = k * (ByteBits * PageBytes)
  BY <1>3, GeometryAssumption
<1>7. QED BY <1>1, <1>4, <1>5, <1>6 DEF BitmapFits

\* No client holds a frame of the bitmap, if the bitmap has a bit for every page: when the
\* memory ends at a whole byte of it, for one.
THEOREM BitmapStaysPrivate ==
  Spec /\ (BitmapFits \/ total % ByteBits = 0) => []BitmapPrivate
<1>1. PInv /\ BitmapFits => BitmapPrivate
  <2> SUFFICES ASSUME PInv, BitmapFits, NEW p \in Pages PROVE FrameOfBit(p) \notin held
    BY DEF BitmapPrivate
  <2> DEFINE c == ByteBits * PageBytes
             k == BitmapPages(total)
  <2>1. c \in Nat \ {0} /\ k \in Nat /\ p \in Nat /\ base \in Nat /\ total \in Nat
    BY GeometryAssumption, BitmapPagesType DEF PInv, TypeOK, Pages
  <2>2. p < k * c
    <3>1. p < total /\ total <= k * c
      BY <2>1 DEF Pages, BitmapFits
    <3>2. k * c \in Nat
      BY <2>1
    <3> HIDE DEF k, c
    <3>3. QED BY <2>1, <3>1, <3>2
  <2> HIDE DEF k, c
  <2>3. p \div c \in 0..(k - 1)
    BY <2>1, <2>2, BitInside
  <2>4. FrameOfBit(p) = base + p \div c
    BY DEF FrameOfBit, c
  <2>5. FrameOfBit(p) \in BitmapFrames
    BY <2>1, <2>3, <2>4 DEF BitmapFrames, k
  <2>6. BitmapFrames \cap held = {}
    BY DEF PInv, TypeOK, ReservedKept, Reserved
  <2>7. QED BY <2>5, <2>6
<1>2. Init /\ (BitmapFits \/ total % ByteBits = 0) => BitmapFits
  BY BootFacts, WholeBytesFit
<1>3. BitmapFits /\ [Next]_vars => BitmapFits'
  <2> SUFFICES ASSUME BitmapFits, [Next]_vars PROVE total' = total
    BY DEF BitmapFits, BitmapPages
  <2>1. QED BY DEF Next, vars, bootVars, AllocPage, AllocNothing, AllocRun, FreePages
<1>4. QED BY <1>1, <1>2, <1>3, Inductive, PTL DEF Spec

-----------------------------------------------------------------------------
(* The refinement.                                                         *)

\* The search of pmm_alloc_page fails only when every page is taken.
LEMMA NextFreeExists ==
  ASSUME TypeOK, NextFree = {}
  PROVE  Pages \ bitmap = {}
<1> SUFFICES ASSUME Pages \ bitmap # {} PROVE FALSE
  OBVIOUS
<1> DEFINE S == {Steps(p) : p \in Pages \ bitmap}
<1>1. S \in SUBSET Nat /\ S # {}
  BY DEF Steps, Pages, TypeOK
<1>2. PICK d \in S : \A e \in S : d <= e
  BY <1>1, LeastExists
<1>3. PICK p \in Pages \ bitmap : d = Steps(p)
  OBVIOUS
<1>4. p \in NextFree
  BY <1>2, <1>3 DEF NextFree
<1>5. QED BY <1>4

\* The search of pmm_alloc_pages fails only when there is no run.
LEMMA FirstRunExists ==
  ASSUME TypeOK, NEW n \in Nat, FirstRun(n) = {}
  PROVE  ~\E s \in Pages : Run(s, n) \subseteq Pages \ bitmap
<1> DEFINE S == {s \in Pages : Run(s, n) \subseteq Pages \ bitmap}
<1>1. S \in SUBSET Nat
  BY DEF Pages
<1>2. CASE S # {}
  <2>1. PICK s \in S : \A r \in S : s <= r
    BY <1>1, <1>2, LeastExists
  <2>2. s \in FirstRun(n)
    BY <2>1 DEF FirstRun, Least
  <2>3. QED BY <2>2
<1>3. QED BY <1>2

\* Every call is a call of the allocator, or changes nothing its clients can see.
LEMMA StepRefines == PInv /\ [Next]_vars => [Allocator!Next]_(Allocator!allocatorVars)
<1> SUFFICES ASSUME PInv, [Next]_vars PROVE [Allocator!Next]_(Allocator!allocatorVars)
  OBVIOUS
<1> DEFINE avail == Pages \ bitmap
<1>1. /\ Allocator!Next <=> \/ \E n \in 1..MaxRequest : Allocator!Grant(n) \/ Allocator!Refuse(n)
                            \/ \E run \in SUBSET held : Allocator!Release(run)
      /\ 1 \in 1..MaxRequest /\ \A n \in 2..MaxRequest : n \in 1..MaxRequest /\ n \in Nat
  BY RequestAssumption DEF Allocator!Next
<1>2. ASSUME NEW n \in Nat \ {0}, NEW s \in Pages, Run(s, n) \subseteq avail,
             Hand(Run(s, n), n), UNCHANGED bootVars
      PROVE  Allocator!Grant(n)
  <2>1. s \in avail /\ Pages' = Pages
    BY <1>2 DEF Run, Pages, PInv, TypeOK, bootVars
  <2>2. QED BY <1>2, <2>1 DEF Allocator!Grant, Hand, Run
<1>3. ASSUME NEW n \in Nat \ {0}, Refuse(n), UNCHANGED bootVars,
             ~\E s \in Pages : Run(s, n) \subseteq avail
      PROVE  Allocator!Refuse(n)
  <2>1. Pages' = Pages
    BY <1>3 DEF Pages, bootVars
  <2>2. QED BY <1>3, <2>1 DEF Allocator!Refuse, Refuse, Run
<1>4. CASE AllocPage
  <2>1. UNCHANGED bootVars
    BY <1>4 DEF AllocPage
  <2>2. CASE NextFree = {} /\ Refuse(1)
    <3>1. avail = {}
      BY <2>2, NextFreeExists DEF PInv
    <3>2. ~\E s \in Pages : Run(s, 1) \subseteq avail
      BY <3>1 DEF Run, Pages, PInv, TypeOK
    <3>3. QED BY <1>1, <1>3, <2>1, <2>2, <3>2
  <2>3. ASSUME NEW p \in NextFree, Hand({p}, 1) PROVE Allocator!Grant(1)
    <3>1. p \in Pages /\ Run(p, 1) = {p} /\ {p} \subseteq avail
      BY DEF NextFree, Run, Pages, PInv, TypeOK
    <3>2. QED BY <1>2, <2>1, <2>3, <3>1
  <2>4. QED BY <1>1, <1>4, <2>2, <2>3 DEF AllocPage
<1>5. ASSUME NEW n \in 2..MaxRequest, AllocRun(n)
      PROVE  Allocator!Grant(n) \/ Allocator!Refuse(n)
  <2>1. UNCHANGED bootVars /\ n \in Nat \ {0}
    BY <1>1, <1>5 DEF AllocRun
  <2>2. CASE FirstRun(n) = {} /\ Refuse(n)
    BY <1>3, <2>1, <2>2, FirstRunExists DEF PInv
  <2>3. ASSUME NEW s \in FirstRun(n), Hand(Run(s, n), n) PROVE Allocator!Grant(n)
    BY <1>2, <2>1, <2>3 DEF FirstRun, Least
  <2>4. QED BY <1>5, <2>2, <2>3 DEF AllocRun
<1>6. CASE AllocNothing
  <2>1. Allocator!Release({})
    BY <1>6 DEF AllocNothing, Refuse, bootVars, Pages, Allocator!Release
  <2>2. QED BY <1>1, <2>1
<1>7. ASSUME NEW s \in 0..total, NEW n \in 0..MaxRequest, FreePages(s, n)
      PROVE  \E run \in SUBSET held : Allocator!Release(run)
  <2> DEFINE pages == IF s = 0 THEN {} ELSE Run(s, n) \cap Pages \cap bitmap
  <2>1. /\ pages \subseteq held /\ pages \subseteq Pages
        /\ bitmap' = bitmap \ pages /\ held' = held \ pages
        /\ answer' = [asked |-> 0, got |-> {}] /\ Pages' = Pages
    BY <1>7 DEF FreePages, bootVars, Pages
  <2> HIDE DEF pages
  <2>2. Allocator!Release(pages)
    BY <2>1 DEF Allocator!Release
  <2>3. QED BY <2>1, <2>2
<1>8. CASE UNCHANGED vars
  BY <1>8 DEF vars, Pages, Allocator!allocatorVars
<1>9. QED BY <1>1, <1>4, <1>5, <1>6, <1>7, <1>8 DEF Next

\* The memory manager implements the abstract allocator: no frame is handed out twice,
\* and a request is refused only when no run of free frames is long enough.
THEOREM AllocatorImplemented == Spec => IsAllocator
<1>1. Init => Allocator!Init
  <2>1. Init => Pages \ bitmap \in SUBSET Nat /\ held = {} /\ answer = [asked |-> 0, got |-> {}]
    BY DEF Init, Pages
  <2>2. QED BY <2>1 DEF Allocator!Init
<1>2. QED BY <1>1, StepRefines, Inductive, PTL DEF Spec, IsAllocator, Allocator!Spec

=============================================================================
