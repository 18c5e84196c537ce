----------------------------- MODULE HeapProofs -----------------------------
(***************************************************************************)
(* Proofs about module Heap: the list of blocks, the expansions and the    *)
(* memory of the clients, for every size of the pages, of the header and   *)
(* of the requests, and for every number of page frames.                   *)
(***************************************************************************)
EXTENDS Heap, VmmProofs, FiniteSetTheorems

-----------------------------------------------------------------------------
(* Numbers.                                                                *)

\* The constants, one by one.
LEMMA Constants ==
  /\ Unit \in Nat /\ Unit > 0
  /\ HeapStart \in Nat /\ HeapStart > 0
  /\ PageSize \in Nat /\ PageSize > Header
  /\ Header \in Nat /\ Header > 0
  /\ InitialPages \in Nat /\ InitialPages > 0
  /\ LeastPages \in Nat /\ LeastPages > 0
  /\ Sizes \subseteq Nat /\ FreeFrames \subseteq Nat
BY GeometryAssumption, SizesAssumption, FramesAssumption

\* An aligned request is no smaller, and an expansion holds it and a header.
LEMMA Requested ==
  ASSUME NEW n \in Nat \ {0}
  PROVE  /\ Aligned(n) \in Nat /\ Aligned(n) >= n
         /\ Batch(n) \in Nat \ {0}
         /\ Batch(n) * PageSize >= Aligned(n) + Header
<1>1. Aligned(n) \in Nat /\ Aligned(n) >= n
  <2>1. Unit \in Nat \ {0}
    BY Constants
  <2>2. (n + Unit - 1) \div Unit \in Nat /\ ((n + Unit - 1) \div Unit) * Unit >= n
    BY <2>1, RoundedUp
  <2>3. ((n + Unit - 1) \div Unit) * Unit \in Nat
    BY <2>1, <2>2
  <2>4. QED BY <2>2, <2>3 DEF Aligned
<1> DEFINE bytes == Aligned(n) + Header
           needed == (bytes + PageSize - 1) \div PageSize
<1>2. bytes \in Nat /\ PageSize \in Nat \ {0}
  BY <1>1, Constants
<1>3. needed \in Nat /\ needed * PageSize >= bytes
  <2> HIDE DEF bytes
  <2>1. QED BY <1>2, RoundedUp
<1>4. Batch(n) = IF needed > LeastPages THEN needed ELSE LeastPages
  BY DEF Batch
<1> HIDE DEF bytes, needed
<1>5. CASE needed > LeastPages
  BY <1>1, <1>3, <1>4, <1>5, Constants DEF bytes
<1>6. CASE ~(needed > LeastPages)
  <2>1. Batch(n) = LeastPages /\ LeastPages >= needed
    BY <1>3, <1>4, <1>6, Constants
  <2>2. LeastPages * PageSize >= needed * PageSize
    BY <2>1, <1>2, <1>3, Constants
  <2>3. LeastPages * PageSize \in Nat /\ needed * PageSize \in Nat
    BY <1>2, <1>3, Constants
  <2>4. LeastPages * PageSize >= bytes
    BY <1>2, <1>3, <2>2, <2>3
  <2>5. QED BY <1>1, <2>1, <2>4, Constants DEF bytes
<1>7. QED BY <1>5, <1>6

-----------------------------------------------------------------------------
(* The list of blocks, in parts: h are the blocks, t is the top.           *)

\* Every block is of its type and has room.
Shaped(h) ==
  /\ DOMAIN h \subseteq Nat \ {Nil}
  /\ \A b \in DOMAIN h : h[b] \in BlockType /\ h[b].size > 0

\* The blocks lie in the heap, none over another; the first is at its start.
Placed(h, t) ==
  /\ t \in Nat
  /\ DOMAIN h = {} => t = HeapStart
  /\ DOMAIN h # {} => HeapStart \in DOMAIN h
  /\ \A b \in DOMAIN h : HeapStart <= b /\ End(h, b) <= t
  /\ \A b, c \in DOMAIN h : b < c => End(h, b) <= c

\* The link to the next block.
Forward(h, t) ==
  \A b \in DOMAIN h :
    /\ h[b].next = IF End(h, b) = t THEN Nil ELSE End(h, b)
    /\ End(h, b) # t => End(h, b) \in DOMAIN h

\* The link to the block before.
Backward(h) ==
  \A b \in DOMAIN h :
    IF b = HeapStart THEN h[b].prev = Nil
    ELSE h[b].prev \in DOMAIN h /\ End(h, h[b].prev) = b

Chain(h, t) == Shaped(h) /\ Placed(h, t) /\ Forward(h, t) /\ Backward(h)

\* Block b and the one after it are not both free.
Apart(h, b) == h[b].free /\ h[b].next # Nil => ~h[h[b].next].free

Packed(h) == \A b \in DOMAIN h : Apart(h, b)

Used(h) == {b \in DOMAIN h : ~h[b].free}

-----------------------------------------------------------------------------
(* What the operations on the list do to each block.                       *)

\* The numbers of a block.
LEMMA BlockFields ==
  ASSUME NEW h, NEW t, Chain(h, t), NEW b \in DOMAIN h
  PROVE  /\ b \in Nat /\ b > 0 /\ h[b].size \in Nat /\ h[b].size > 0
         /\ h[b].free \in BOOLEAN /\ h[b].next \in Nat /\ h[b].prev \in Nat
         /\ End(h, b) \in Nat /\ End(h, b) = b + Header + h[b].size
         /\ HeapStart <= b /\ End(h, b) <= t /\ t \in Nat
         /\ HeapStart \in Nat /\ Header \in Nat
<1>1. b \in Nat /\ b > 0
  BY DEF Chain, Shaped, Nil
<1>2. h[b] \in BlockType /\ h[b].size > 0
  BY DEF Chain, Shaped
<1>3. /\ h[b].size \in Nat /\ h[b].free \in BOOLEAN
      /\ h[b].next \in Nat /\ h[b].prev \in Nat
  BY <1>2 DEF BlockType
<1>4. HeapStart <= b /\ End(h, b) <= t /\ t \in Nat
  BY DEF Chain, Placed
<1>5. End(h, b) \in Nat /\ End(h, b) = b + Header + h[b].size
  BY <1>1, <1>3, Constants DEF End
<1>6. QED BY <1>1, <1>2, <1>3, <1>4, <1>5, Constants

\* Two blocks that end at the same place are one; one that begins before another ends by then.
LEMMA EndsDiffer ==
  ASSUME NEW h, NEW t, Chain(h, t), NEW b \in DOMAIN h, NEW c \in DOMAIN h
  PROVE  /\ b < c => End(h, b) <= c
         /\ End(h, b) = End(h, c) => b = c
         /\ End(h, b) > b
<1>1. b < c => End(h, b) <= c
  BY DEF Chain, Placed
<1>2. c < b => End(h, c) <= b
  BY DEF Chain, Placed
<1>3. QED BY <1>1, <1>2, BlockFields

\* The next block is where a block ends, and points back at it.
LEMMA NextBlock ==
  ASSUME NEW h, NEW t, Chain(h, t), NEW b \in DOMAIN h
  PROVE  /\ h[b].next = Nil <=> End(h, b) = t
         /\ h[b].next # Nil =>
              /\ h[b].next \in DOMAIN h /\ h[b].next = End(h, b)
              /\ h[b].next > b /\ h[b].next # HeapStart
              /\ h[h[b].next].prev = b
<1>1. /\ h[b].next = IF End(h, b) = t THEN Nil ELSE End(h, b)
      /\ End(h, b) # t => End(h, b) \in DOMAIN h
  BY DEF Chain, Forward
<1>2. End(h, b) > b /\ b >= HeapStart /\ End(h, b) \in Nat /\ b \in Nat /\ HeapStart \in Nat
  BY BlockFields, EndsDiffer
<1>3. ASSUME End(h, b) # t
      PROVE  h[End(h, b)].prev = b
  <2>1. End(h, b) \in DOMAIN h /\ End(h, b) # HeapStart
    BY <1>1, <1>2, <1>3
  <2>2. h[End(h, b)].prev \in DOMAIN h /\ End(h, h[End(h, b)].prev) = End(h, b)
    BY <2>1 DEF Chain, Backward
  <2>3. QED BY <2>2, EndsDiffer
<1>4. QED BY <1>1, <1>2, <1>3 DEF Nil

\* The block before.
LEMMA PrevBlock ==
  ASSUME NEW h, NEW t, Chain(h, t), NEW b \in DOMAIN h
  PROVE  /\ h[b].prev = Nil <=> b = HeapStart
         /\ h[b].prev # Nil =>
              /\ h[b].prev \in DOMAIN h /\ End(h, h[b].prev) = b
              /\ h[h[b].prev].next = b /\ h[b].prev < b
<1>1. IF b = HeapStart THEN h[b].prev = Nil
      ELSE h[b].prev \in DOMAIN h /\ End(h, h[b].prev) = b
  BY DEF Chain, Backward
<1>2. \A c \in DOMAIN h : c # Nil
  BY DEF Chain, Shaped
<1>3. ASSUME b # HeapStart
      PROVE  h[h[b].prev].next = b /\ h[b].prev < b
  <2>1. h[b].prev \in DOMAIN h /\ End(h, h[b].prev) = b
    BY <1>1, <1>3
  <2>2. End(h, h[b].prev) > h[b].prev
    BY <2>1, EndsDiffer
  <2>3. b # t
    BY BlockFields
  <2>4. QED BY <2>1, <2>2, <2>3 DEF Chain, Forward
<1>4. QED BY <1>1, <1>2, <1>3

\* A block with another size and another link to the next.
LEMMA Resized ==
  ASSUME NEW r \in BlockType, NEW v \in Nat, NEW w \in Nat
  PROVE  [r EXCEPT !.size = v, !.next = w] =
           [size |-> v, free |-> r.free, next |-> w, prev |-> r.prev]
<1> DEFINE e == [r EXCEPT !.size = v, !.next = w]
<1>1. e \in BlockType
  BY DEF BlockType
<1>2. e.size = v /\ e.next = w /\ e.free = r.free /\ e.prev = r.prev
  BY DEF BlockType
<1> HIDE DEF e
<1>3. e = [size |-> e.size, free |-> e.free, next |-> e.next, prev |-> e.prev]
  BY <1>1 DEF BlockType
<1>4. e = [size |-> v, free |-> r.free, next |-> w, prev |-> r.prev]
  BY <1>2, <1>3
<1>5. QED BY <1>4 DEF e

\* A block with another link to the one before.
LEMMA LinkedBack ==
  ASSUME NEW r \in BlockType, NEW v \in Nat, NEW e, e = [r EXCEPT !.prev = v]
  PROVE  /\ e \in BlockType
         /\ e.size = r.size /\ e.free = r.free /\ e.next = r.next /\ e.prev = v
BY DEF BlockType

\* The merge of b and n, field by field.
LEMMA MergeFields ==
  ASSUME NEW h, Shaped(h), NEW b \in DOMAIN h, NEW n \in DOMAIN h, n = h[b].next, n # b,
         NEW g, g = Merge(h, b)
  PROVE  /\ DOMAIN g = DOMAIN h \ {n}
         /\ g[b].size = h[b].size + Header + h[n].size /\ g[b].free = h[b].free
         /\ g[b].next = h[n].next /\ g[b].prev = h[b].prev
         /\ \A x \in DOMAIN h \ {n, b} :
              /\ g[x].size = h[x].size /\ g[x].free = h[x].free /\ g[x].next = h[x].next
              /\ g[x].prev = IF x = h[n].next THEN b ELSE h[x].prev
         /\ \A x \in DOMAIN g : g[x] \in BlockType
<1> DEFINE D == DOMAIN h \ {n}
           wide == [h[b] EXCEPT !.size = @ + Header + h[n].size, !.next = h[n].next]
           back(x) == [h[x] EXCEPT !.prev = b]
           value(x) == CASE x = b -> wide
                         [] x # b /\ x = h[n].next -> back(x)
                         [] OTHER -> h[x]
<1>1. g = [x \in D |-> value(x)]
  BY DEF Merge
<1>2. b \in D /\ DOMAIN h \ {n, b} = D \ {b} /\ b \in Nat
  BY DEF Shaped
<1>3. \A x \in DOMAIN h : h[x] \in BlockType
  BY DEF Shaped
<1>4. /\ wide.size = h[b].size + Header + h[n].size /\ wide.free = h[b].free
      /\ wide.next = h[n].next /\ wide.prev = h[b].prev /\ wide \in BlockType
  <2> DEFINE v == h[b].size + Header + h[n].size
             w == h[n].next
  <2>1. h[b] \in BlockType /\ v \in Nat /\ w \in Nat
    BY <1>3, Constants DEF BlockType
  <2>2. wide = [h[b] EXCEPT !.size = v, !.next = w]
    OBVIOUS
  <2> HIDE DEF v, w, wide
  <2>3. wide = [size |-> v, free |-> h[b].free, next |-> w, prev |-> h[b].prev]
    BY <2>1, <2>2, Resized
  <2>4. wide \in BlockType
    BY <2>1, <2>3 DEF BlockType
  <2>5. QED BY <2>3, <2>4 DEF v, w
<1>5. \A x \in DOMAIN h :
        /\ back(x) \in BlockType
        /\ back(x).size = h[x].size /\ back(x).free = h[x].free
        /\ back(x).next = h[x].next /\ back(x).prev = b
  BY <1>2, <1>3, LinkedBack
<1> HIDE DEF wide, back
<1>6. value(b) = wide
  OBVIOUS
<1>7. \A x \in D \ {b} : value(x) = IF x = h[n].next THEN back(x) ELSE h[x]
  OBVIOUS
<1> HIDE DEF value
<1>8. DOMAIN g = D /\ g[b] = wide /\ \A x \in D \ {b} : g[x] = IF x = h[n].next THEN back(x) ELSE h[x]
  BY <1>1, <1>2, <1>6, <1>7
<1>9. \A x \in D \ {b} :
        /\ g[x].size = h[x].size /\ g[x].free = h[x].free /\ g[x].next = h[x].next
        /\ g[x].prev = IF x = h[n].next THEN b ELSE h[x].prev
        /\ g[x] \in BlockType
  <2> TAKE x \in D \ {b}
  <2>1. x \in DOMAIN h
    OBVIOUS
  <2>2. CASE x = h[n].next
    BY <1>5, <1>8, <2>1, <2>2
  <2>3. CASE x # h[n].next
    BY <1>3, <1>8, <2>1, <2>3
  <2>4. QED BY <2>2, <2>3
<1>10. \A x \in D : g[x] \in BlockType
  BY <1>4, <1>8, <1>9
<1>11. QED BY <1>2, <1>4, <1>8, <1>9, <1>10

\* g is h with block b cut in two, k bytes before s.
Cut(h, b, k, s, g) ==
  /\ DOMAIN g = DOMAIN h \cup {s}
  /\ g[s].size = h[b].size - k - Header /\ g[s].free = TRUE
  /\ g[s].next = h[b].next /\ g[s].prev = b
  /\ g[b].size = k /\ g[b].free = h[b].free /\ g[b].next = s /\ g[b].prev = h[b].prev
  /\ \A x \in DOMAIN h \ {b} :
       /\ g[x].size = h[x].size /\ g[x].free = h[x].free /\ g[x].next = h[x].next
       /\ g[x].prev = IF x = h[b].next THEN s ELSE h[x].prev
  /\ \A x \in DOMAIN g : g[x] \in BlockType

\* A split cuts in two.
LEMMA SplitFields ==
  ASSUME NEW h, Shaped(h), NEW b \in DOMAIN h, NEW k \in Nat,
         NEW s, s = b + Header + k, s \notin DOMAIN h, h[b].next # b,
         h[b].size >= k + Header + Unit
  PROVE  Cut(h, b, k, s, Split(h, b, k))
<1> DEFINE g == Split(h, b, k)
<1> DEFINE D == DOMAIN h \cup {s}
           left == [size |-> h[b].size - k - Header, free |-> TRUE, next |-> h[b].next, prev |-> b]
           cut == [h[b] EXCEPT !.size = k, !.next = s]
           back(x) == [h[x] EXCEPT !.prev = s]
           value(x) == CASE x = s -> left
                         [] x # s /\ x = b -> cut
                         [] x # s /\ x = h[b].next -> back(x)
                         [] OTHER -> h[x]
<1>1. g = [x \in D |-> value(x)]
  BY DEF Split
<1>2. b \in D /\ s \in D /\ b # s /\ \A x \in DOMAIN h : x \in D /\ x # s
  OBVIOUS
<1>3. \A x \in DOMAIN h : h[x] \in BlockType
  BY DEF Shaped
<1>4. b \in Nat /\ s \in Nat
  BY Constants DEF Shaped
<1>5. /\ cut.size = k /\ cut.free = h[b].free /\ cut.next = s /\ cut.prev = h[b].prev
      /\ cut \in BlockType
  <2>1. h[b] \in BlockType /\ cut = [h[b] EXCEPT !.size = k, !.next = s]
    BY <1>3
  <2> HIDE DEF cut
  <2>2. cut = [size |-> k, free |-> h[b].free, next |-> s, prev |-> h[b].prev]
    BY <1>4, <2>1, Resized
  <2>3. cut \in BlockType
    BY <1>4, <2>1, <2>2 DEF BlockType
  <2>4. QED BY <2>2, <2>3
<1>6. \A x \in DOMAIN h :
        /\ back(x) \in BlockType
        /\ back(x).size = h[x].size /\ back(x).free = h[x].free
        /\ back(x).next = h[x].next /\ back(x).prev = s
  BY <1>4, <1>3, LinkedBack
<1>7. left \in BlockType
  <2>1. h[b].size - k - Header \in Nat /\ h[b].next \in Nat
    BY <1>3, Constants DEF BlockType
  <2>2. QED BY <1>4, <2>1 DEF BlockType
<1>8. /\ left.size = h[b].size - k - Header /\ left.free = TRUE
      /\ left.next = h[b].next /\ left.prev = b
  OBVIOUS
<1> HIDE DEF left, cut, back
<1>9. value(s) = left /\ value(b) = cut
  <2>1. value(s) = left
    OBVIOUS
  <2>2. value(b) = cut
    BY <1>2
  <2>3. QED BY <2>1, <2>2
<1>10. \A x \in DOMAIN h \ {b} : value(x) = IF x = h[b].next THEN back(x) ELSE h[x]
  <2> TAKE x \in DOMAIN h \ {b}
  <2>1. x # s /\ x # b
    BY <1>2
  <2>2. QED BY <2>1
<1> HIDE DEF value
<1>11. /\ DOMAIN g = D /\ g[s] = left /\ g[b] = cut
       /\ \A x \in DOMAIN h \ {b} : g[x] = IF x = h[b].next THEN back(x) ELSE h[x]
  BY <1>1, <1>2, <1>9, <1>10
<1>12. \A x \in DOMAIN h \ {b} :
         /\ g[x].size = h[x].size /\ g[x].free = h[x].free /\ g[x].next = h[x].next
         /\ g[x].prev = IF x = h[b].next THEN s ELSE h[x].prev
         /\ g[x] \in BlockType
  <2> TAKE x \in DOMAIN h \ {b}
  <2>1. x \in DOMAIN h
    OBVIOUS
  <2>2. CASE x = h[b].next
    BY <1>6, <1>11, <2>1, <2>2
  <2>3. CASE x # h[b].next
    BY <1>3, <1>11, <2>1, <2>3
  <2>4. QED BY <2>2, <2>3
<1>13. \A x \in D : g[x] \in BlockType
  BY <1>5, <1>7, <1>11, <1>12
<1>14. DOMAIN g = DOMAIN h \cup {s}
  BY <1>11 DEF D
<1> HIDE DEF D, g
<1>15. QED BY <1>5, <1>8, <1>11, <1>12, <1>13, <1>14 DEF Cut, g

-----------------------------------------------------------------------------
(* The operations keep the list a list.                                    *)

\* A block marked as free or as used, field by field.
LEMMA MarkFields ==
  ASSUME NEW h, Shaped(h), NEW b \in DOMAIN h, NEW v \in BOOLEAN
  PROVE  LET g == [h EXCEPT ![b].free = v]
         IN /\ DOMAIN g = DOMAIN h /\ g[b].free = v
            /\ \A x \in DOMAIN h : /\ g[x] \in BlockType
                                   /\ g[x].size = h[x].size
                                   /\ g[x].next = h[x].next /\ g[x].prev = h[x].prev
                                   /\ x # b => g[x].free = h[x].free
<1> DEFINE g == [h EXCEPT ![b].free = v]
           r == [h[b] EXCEPT !.free = v]
<1>1. \A x \in DOMAIN h : h[x] \in BlockType
  BY DEF Shaped
<1>2. r \in BlockType /\ r.free = v /\ r.size = h[b].size /\ r.next = h[b].next /\ r.prev = h[b].prev
  BY <1>1 DEF BlockType
<1>3. DOMAIN g = DOMAIN h /\ g[b] = r /\ \A x \in DOMAIN h \ {b} : g[x] = h[x]
  OBVIOUS
<1> HIDE DEF g, r
<1>4. QED BY <1>1, <1>2, <1>3 DEF g

\* Marking a block moves nothing.
LEMMA MarkChain ==
  ASSUME NEW h, NEW t, Chain(h, t), NEW b \in DOMAIN h, NEW v \in BOOLEAN
  PROVE  Chain([h EXCEPT ![b].free = v], t)
<1> DEFINE g == [h EXCEPT ![b].free = v]
<1>0. Shaped(h)
  BY DEF Chain
<1>1. /\ DOMAIN g = DOMAIN h
      /\ \A x \in DOMAIN h : /\ g[x] \in BlockType
                             /\ g[x].size = h[x].size
                             /\ g[x].next = h[x].next /\ g[x].prev = h[x].prev
  BY <1>0, MarkFields
<1> HIDE DEF g
<1>2. \A x \in DOMAIN h : End(g, x) = End(h, x)
  BY <1>1 DEF End
<1>3. Shaped(g)
  BY <1>0, <1>1 DEF Shaped
<1>4. Placed(g, t)
  BY <1>1, <1>2 DEF Chain, Placed
<1>5. Forward(g, t)
  BY <1>1, <1>2 DEF Chain, Forward
<1>6. Backward(g)
  BY <1>1, <1>2 DEF Chain, Backward
<1>7. QED BY <1>3, <1>4, <1>5, <1>6 DEF Chain, g

\* g is h with block n, the one after b, taken in by b.
Absorbs(h, b, n, g) ==
  /\ DOMAIN g = DOMAIN h \ {n} /\ n \in DOMAIN h /\ n # b
  /\ g[b].next = h[n].next /\ g[b].free = h[b].free
  /\ g[b].size = h[b].size + Header + h[n].size /\ g[b].prev = h[b].prev
  /\ \A x \in DOMAIN h \ {b, n} : g[x].size = h[x].size /\ g[x].free = h[x].free
                                  /\ g[x].next = h[x].next

\* A block that takes in the next one ends where that one ended; nothing else moves.
LEMMA MergeChain ==
  ASSUME NEW h, NEW t, Chain(h, t), NEW b \in DOMAIN h, NEW n, n = h[b].next, n # Nil
  PROVE  Chain(Merge(h, b), t) /\ Absorbs(h, b, n, Merge(h, b))
<1> DEFINE g == Merge(h, b)
<1>1. /\ n \in DOMAIN h /\ n = End(h, b) /\ n > b /\ n # HeapStart /\ n # b
  BY NextBlock, BlockFields
<1>2. Shaped(h)
  BY DEF Chain
<1>3. g = Merge(h, b)
  OBVIOUS
<1> HIDE DEF g
<1> DEFINE D == DOMAIN h \ {n}
<1>4. /\ DOMAIN g = D /\ b \in D
      /\ g[b].size = h[b].size + Header + h[n].size /\ g[b].free = h[b].free
      /\ g[b].next = h[n].next /\ g[b].prev = h[b].prev
      /\ \A x \in D \ {b} : /\ g[x].size = h[x].size /\ g[x].free = h[x].free
                            /\ g[x].next = h[x].next
                            /\ g[x].prev = IF x = h[n].next THEN b ELSE h[x].prev
      /\ \A x \in D : g[x] \in BlockType
  <2>0. n \in DOMAIN h /\ n # b
    BY <1>1
  <2>1. D \ {b} = DOMAIN h \ {n, b} /\ b \in D
    BY <2>0
  <2> HIDE DEF D
  <2>2. /\ DOMAIN g = D
        /\ g[b].size = h[b].size + Header + h[n].size /\ g[b].free = h[b].free
        /\ g[b].next = h[n].next /\ g[b].prev = h[b].prev
    BY <1>2, <1>3, <2>0, MergeFields DEF D
  <2>3. \A x \in D \ {b} : /\ g[x].size = h[x].size /\ g[x].free = h[x].free
                            /\ g[x].next = h[x].next
                            /\ g[x].prev = IF x = h[n].next THEN b ELSE h[x].prev
    BY <1>2, <1>3, <2>0, <2>1, MergeFields
  <2>4. \A x \in D : g[x] \in BlockType
    BY <1>2, <1>3, <2>0, <2>2, MergeFields
  <2>5. QED BY <2>1, <2>2, <2>3, <2>4
<1>5. /\ End(g, b) = End(h, n)
      /\ \A x \in D \ {b} : End(g, x) = End(h, x)
  <2>1. End(h, b) = b + Header + h[b].size /\ End(h, n) = n + Header + h[n].size
    BY DEF End
  <2>2. b \in Nat /\ n \in Nat /\ h[b].size \in Nat /\ h[n].size \in Nat /\ Header \in Nat
    BY <1>1, BlockFields
  <2>3. End(g, b) = End(h, n)
    BY <1>1, <1>4, <2>1, <2>2 DEF End
  <2>4. \A x \in D \ {b} : End(g, x) = End(h, x)
    BY <1>4 DEF End
  <2>5. QED BY <2>3, <2>4
<1>6. Shaped(g)
  <2>1. g[b].size > 0
    BY <1>1, <1>4, BlockFields
  <2>2. \A x \in D : x # b => g[x].size > 0
    BY <1>4, BlockFields
  <2>3. QED BY <1>2, <1>4, <2>1, <2>2 DEF Shaped
<1>7. Placed(g, t)
  <2>1. HeapStart \in D
    BY <1>1 DEF Chain, Placed
  <2>2. \A x \in D : HeapStart <= x /\ End(g, x) <= t
    BY <1>1, <1>4, <1>5, BlockFields
  <2>3. ASSUME NEW x \in D, NEW c \in D, x < c
        PROVE  End(g, x) <= c
    <3>1. CASE x = b
      <4>1. n <= c
        BY <1>1, <2>3, <3>1, EndsDiffer
      <4>2. n < c
        BY <1>1, <4>1, BlockFields
      <4>3. QED BY <1>1, <1>5, <3>1, <4>2, EndsDiffer
    <3>2. CASE x # b
      BY <1>5, <2>3, <3>2, EndsDiffer
    <3>3. QED BY <3>1, <3>2
  <2>4. t \in Nat
    BY BlockFields
  <2>5. QED BY <1>4, <2>1, <2>2, <2>3, <2>4 DEF Placed
<1>8. Forward(g, t)
  <2>1. ASSUME NEW x \in D
        PROVE  /\ g[x].next = IF End(g, x) = t THEN Nil ELSE End(g, x)
               /\ End(g, x) # t => End(g, x) \in D
    <3>1. CASE x = b
      <4>1. /\ h[n].next = IF End(h, n) = t THEN Nil ELSE End(h, n)
            /\ End(h, n) # t => End(h, n) \in DOMAIN h
        BY <1>1 DEF Chain, Forward
      <4>2. End(h, n) # n
        BY <1>1, EndsDiffer, BlockFields
      <4>3. QED BY <1>4, <1>5, <3>1, <4>1, <4>2
    <3>2. CASE x # b
      <4>1. /\ h[x].next = IF End(h, x) = t THEN Nil ELSE End(h, x)
            /\ End(h, x) # t => End(h, x) \in DOMAIN h
        BY DEF Chain, Forward
      <4>2. End(h, x) # n
        BY <1>1, <3>2, EndsDiffer
      <4>3. QED BY <1>4, <1>5, <3>2, <4>1, <4>2
    <3>3. QED BY <3>1, <3>2
  <2>2. QED BY <1>4, <2>1 DEF Forward
<1>9. Backward(g)
  <2>1. ASSUME NEW x \in D
        PROVE  IF x = HeapStart THEN g[x].prev = Nil
               ELSE g[x].prev \in D /\ End(g, g[x].prev) = x
    <3>1. CASE x = b /\ x = HeapStart
      BY <1>4, <3>1 DEF Chain, Backward
    <3>2. CASE x = b /\ x # HeapStart
      <4>1. h[b].prev \in DOMAIN h /\ End(h, h[b].prev) = b /\ h[b].prev < b
        BY <3>2, PrevBlock
      <4>2. h[b].prev # n /\ h[b].prev # b
        BY <1>1, <4>1, BlockFields
      <4>3. QED BY <1>4, <1>5, <3>2, <4>1, <4>2
    <3>3. CASE x # b /\ x = h[n].next
      <4>1. x # Nil
        BY DEF Chain, Shaped
      <4>2. x = End(h, n) /\ x # HeapStart
        BY <1>1, <3>3, <4>1, NextBlock
      <4>3. QED BY <1>4, <1>5, <3>3, <4>2
    <3>4. CASE x # b /\ x # h[n].next /\ x = HeapStart
      BY <1>4, <3>4 DEF Chain, Backward
    <3>5. CASE x # b /\ x # h[n].next /\ x # HeapStart
      <4>1. h[x].prev \in DOMAIN h /\ End(h, h[x].prev) = x /\ h[h[x].prev].next = x
        BY <3>5, PrevBlock
      <4>2. h[x].prev # n /\ h[x].prev # b
        BY <1>1, <3>5, <4>1
      <4>3. QED BY <1>4, <1>5, <3>5, <4>1, <4>2
    <3>6. QED BY <3>1, <3>2, <3>3, <3>4, <3>5
  <2>2. QED BY <1>4, <2>1 DEF Backward
<1>10. Chain(g, t)
  BY <1>6, <1>7, <1>8, <1>9 DEF Chain
<1>11. Absorbs(h, b, n, g)
  BY <1>1, <1>4 DEF Absorbs
<1>12. QED BY <1>10, <1>11 DEF g

\* g is h with the free part of block b, k bytes from its start, as block s.
Divides(h, b, k, s, g) ==
  /\ DOMAIN g = DOMAIN h \cup {s} /\ s \notin DOMAIN h
  /\ g[s].free = TRUE /\ g[s].next = h[b].next
  /\ g[b].size = k /\ g[b].free = h[b].free /\ g[b].next = s
  /\ \A x \in DOMAIN h \ {b} : g[x].size = h[x].size /\ g[x].free = h[x].free
                               /\ g[x].next = h[x].next

\* A block that is cut in two ends where the first part ends; nothing else moves.
LEMMA SplitChain ==
  ASSUME NEW h, NEW t, Chain(h, t), NEW b \in DOMAIN h, NEW k \in Nat, k > 0,
         h[b].size >= k + Header + Unit,
         NEW g, g = Split(h, b, k)
  PROVE  Chain(g, t) /\ \E s \in Nat : Divides(h, b, k, s, g)
<1> DEFINE s == b + Header + k
<1>1. /\ s \in Nat /\ s > b /\ s < End(h, b) /\ s # HeapStart /\ s < t
      /\ b \in Nat /\ h[b].size \in Nat /\ h[b].free \in BOOLEAN /\ b >= HeapStart
      /\ End(h, b) = b + Header + h[b].size /\ HeapStart \in Nat /\ End(h, b) \in Nat
  <2>1. /\ b \in Nat /\ h[b].size \in Nat /\ h[b].free \in BOOLEAN /\ b >= HeapStart
        /\ End(h, b) = b + Header + h[b].size /\ t \in Nat /\ End(h, b) <= t
    BY BlockFields
  <2>2. QED BY <2>1, Constants
<1>2. s = b + Header + k
  OBVIOUS
<1> HIDE DEF s
<1>3. s \notin DOMAIN h
  <2>1. SUFFICES ASSUME s \in DOMAIN h PROVE FALSE
    OBVIOUS
  <2>2. End(h, b) <= s
    BY <1>1, <2>1, EndsDiffer
  <2>3. QED BY <1>1, <2>2, BlockFields
<1>4. Shaped(h)
  BY DEF Chain
<1>5. h[b].next # b
  <2>1. b # Nil
    BY BlockFields DEF Nil
  <2>2. h[b].next # Nil => h[b].next = End(h, b)
    BY NextBlock
  <2>3. QED BY <1>1, <2>1, <2>2
<1> DEFINE D == DOMAIN h \cup {s}
           C == DOMAIN h \ {b}
<1>6. /\ DOMAIN g = D
      /\ g[s].size = h[b].size - k - Header /\ g[s].free = TRUE
      /\ g[s].next = h[b].next /\ g[s].prev = b
      /\ g[b].size = k /\ g[b].free = h[b].free /\ g[b].next = s /\ g[b].prev = h[b].prev
      /\ \A x \in C :
              /\ g[x].size = h[x].size /\ g[x].free = h[x].free /\ g[x].next = h[x].next
              /\ g[x].prev = IF x = h[b].next THEN s ELSE h[x].prev
      /\ \A x \in D : g[x] \in BlockType
  <2>1. Cut(h, b, k, s, g)
    BY <1>2, <1>3, <1>4, <1>5, SplitFields
  <2>2. QED BY <2>1 DEF Cut
<1>7. b \in D /\ s \in D /\ s # b /\ \A x \in D : x = b \/ x = s \/ x \in C
  BY <1>3
<1>8. C \subseteq DOMAIN h /\ C \subseteq D /\ DOMAIN h \subseteq D /\ b \notin C /\ s \notin C
  BY <1>3
<1>9. DOMAIN h = C \cup {b}
  OBVIOUS
<1> HIDE DEF D, C
<1>10. /\ End(g, b) = s
       /\ End(g, s) = End(h, b)
       /\ \A x \in C : End(g, x) = End(h, x)
  <2>1. End(g, b) = s
    BY <1>2, <1>6 DEF End
  <2>2. End(g, s) = End(h, b)
    BY <1>1, <1>2, <1>6, Constants DEF End
  <2>3. \A x \in C : End(g, x) = End(h, x)
    BY <1>6 DEF End
  <2>4. QED BY <2>1, <2>2, <2>3
<1>11. Shaped(g)
  <2>1. g[s].size > 0
    BY <1>1, <1>6, Constants
  <2>2. \A x \in C : g[x].size > 0
    BY <1>6, <1>8, BlockFields
  <2>3. D \subseteq Nat \ {Nil}
    BY <1>1, <1>2, <1>4, <1>8, <1>9, Constants DEF Shaped, Nil, D
  <2>4. QED BY <1>6, <1>7, <2>1, <2>2, <2>3 DEF Shaped
<1>12. Placed(g, t)
  <2>1. HeapStart \in D /\ t \in Nat
    BY <1>8 DEF Chain, Placed
  <2>2. \A x \in D : HeapStart <= x /\ End(g, x) <= t
    <3>1. End(h, b) <= t /\ t \in Nat
      BY BlockFields
    <3>2. HeapStart <= s /\ End(g, s) <= t /\ HeapStart <= b /\ End(g, b) <= t
      BY <1>1, <1>10, <3>1
    <3>3. \A x \in C : HeapStart <= x /\ End(g, x) <= t
      BY <1>8, <1>10, BlockFields
    <3>4. QED BY <1>7, <3>2, <3>3
  <2>3. ASSUME NEW x \in D, NEW c \in D, x < c
        PROVE  End(g, x) <= c
    <3>1. CASE x \in C /\ c \in DOMAIN h
      BY <1>8, <1>10, <2>3, <3>1, EndsDiffer
    <3>2. CASE x = b /\ c \in DOMAIN h
      <4>1. End(h, b) <= c /\ c \in Nat
        BY <2>3, <3>2, EndsDiffer, BlockFields
      <4>2. QED BY <1>1, <1>10, <3>2, <4>1
    <3>3. CASE x = s /\ c \in DOMAIN h
      <4>1. c \in Nat
        BY <3>3, BlockFields
      <4>2. b < c
        BY <1>1, <2>3, <3>3, <4>1
      <4>3. QED BY <1>10, <3>3, <4>2, EndsDiffer
    <3>4. CASE x \in C /\ c = s
      <4>1. x \in Nat /\ x \in DOMAIN h /\ x # b
        BY <1>8, <3>4, BlockFields
      <4>2. ~(b < x)
        <5>1. SUFFICES ASSUME b < x PROVE FALSE
          OBVIOUS
        <5>2. End(h, b) <= x
          BY <4>1, <5>1, EndsDiffer
        <5>3. QED BY <1>1, <2>3, <3>4, <4>1, <5>2
      <4>3. x < b
        BY <1>1, <4>1, <4>2
      <4>4. End(h, x) <= b /\ End(h, x) \in Nat
        BY <4>1, <4>3, EndsDiffer, BlockFields
      <4>5. QED BY <1>1, <1>10, <3>4, <4>4
    <3>5. CASE x = b /\ c = s
      BY <1>1, <1>10, <3>5
    <3>6. CASE x = s /\ c = s
      BY <1>1, <2>3, <3>6
    <3>7. QED BY <1>7, <1>8, <3>1, <3>2, <3>3, <3>4, <3>5, <3>6
  <2>4. QED BY <1>6, <2>1, <2>2, <2>3 DEF Placed
<1>13. Forward(g, t)
  <2>1. /\ g[b].next = IF End(g, b) = t THEN Nil ELSE End(g, b)
        /\ End(g, b) # t => End(g, b) \in D
    BY <1>1, <1>6, <1>7, <1>10, BlockFields
  <2>2. /\ g[s].next = IF End(g, s) = t THEN Nil ELSE End(g, s)
        /\ End(g, s) # t => End(g, s) \in D
    BY <1>6, <1>8, <1>10 DEF Chain, Forward
  <2>3. ASSUME NEW x \in C
        PROVE  /\ g[x].next = IF End(g, x) = t THEN Nil ELSE End(g, x)
               /\ End(g, x) # t => End(g, x) \in D
    <3>1. /\ h[x].next = IF End(h, x) = t THEN Nil ELSE End(h, x)
          /\ End(h, x) # t => End(h, x) \in DOMAIN h
      BY <1>8 DEF Chain, Forward
    <3>2. QED BY <1>6, <1>8, <1>10, <3>1
  <2>4. QED BY <1>6, <1>7, <2>1, <2>2, <2>3 DEF Forward
<1>14. Backward(g)
  <2>1. ASSUME NEW x \in D
        PROVE  IF x = HeapStart THEN g[x].prev = Nil
               ELSE g[x].prev \in D /\ End(g, g[x].prev) = x
    <3>1. CASE x = s
      BY <1>1, <1>6, <1>7, <1>10, <3>1
    <3>2. CASE x = b /\ x = HeapStart
      BY <1>6, <3>2 DEF Chain, Backward
    <3>3. CASE x = b /\ x # HeapStart
      <4>1. h[b].prev \in DOMAIN h /\ End(h, h[b].prev) = b /\ h[b].prev < b
        BY <3>3, PrevBlock
      <4>2. h[b].prev \in C
        BY <1>1, <1>9, <4>1
      <4>3. QED BY <1>6, <1>8, <1>10, <3>3, <4>1, <4>2
    <3>4. CASE x \in C /\ x = h[b].next
      <4>1. x # Nil
        BY <1>4, <1>8, <3>4 DEF Shaped
      <4>2. x = End(h, b) /\ x # HeapStart
        BY <3>4, <4>1, NextBlock
      <4>3. QED BY <1>6, <1>7, <1>10, <3>4, <4>2
    <3>5. CASE x \in C /\ x # h[b].next /\ x = HeapStart
      BY <1>6, <1>8, <3>5 DEF Chain, Backward
    <3>6. CASE x \in C /\ x # h[b].next /\ x # HeapStart
      <4>1. h[x].prev \in DOMAIN h /\ End(h, h[x].prev) = x /\ h[h[x].prev].next = x
        BY <1>8, <3>6, PrevBlock
      <4>2. h[x].prev \in C
        BY <1>9, <3>6, <4>1
      <4>3. QED BY <1>6, <1>8, <1>10, <3>6, <4>1, <4>2
    <3>7. QED BY <1>7, <3>1, <3>2, <3>3, <3>4, <3>5, <3>6
  <2>2. QED BY <1>6, <2>1 DEF Backward
<1>15. Chain(g, t)
  BY <1>11, <1>12, <1>13, <1>14 DEF Chain
<1>16. /\ DOMAIN g = DOMAIN h \cup {s}
       /\ \A x \in DOMAIN h \ {b} : /\ g[x].size = h[x].size /\ g[x].free = h[x].free
                                    /\ g[x].next = h[x].next
  BY <1>6 DEF C, D
<1>17. Divides(h, b, k, s, g)
  BY <1>3, <1>6, <1>16 DEF Divides
<1>18. QED BY <1>1, <1>15, <1>17

-----------------------------------------------------------------------------
(* What a call does to the list.                                           *)

\* g is h after a merge at the free block b: the used blocks are as they were, and only the
\* block before b may have a free neighbour.
Joins(h, t, b, g) ==
  /\ Chain(g, t) /\ b \in DOMAIN g /\ DOMAIN g \subseteq DOMAIN h
  /\ g[b].prev = h[b].prev
  /\ \A x \in DOMAIN g : g[x].free = h[x].free
  /\ \A x \in DOMAIN g : x # h[b].prev => Apart(g, x)
  /\ Used(g) = Used(h) /\ \A x \in Used(h) : g[x].size = h[x].size

\* g is h with block b no longer used, and h with k bytes of block b used.
Frees(h, t, b, g) ==
  /\ Chain(g, t) /\ Packed(g)
  /\ Used(g) = Used(h) \ {b} /\ \A x \in Used(g) : g[x].size = h[x].size
Takes(h, t, b, k, g) ==
  /\ Chain(g, t) /\ Packed(g)
  /\ Used(g) = Used(h) \cup {b} /\ \A x \in Used(h) : g[x].size = h[x].size
  /\ g[b].size >= k

\* A free block is merged with the next one, if that is free too.
LEMMA MergeNextJoins ==
  ASSUME NEW h, NEW t, Chain(h, t), NEW b \in DOMAIN h, h[b].free,
         \A x \in DOMAIN h : x # b /\ x # h[b].prev => Apart(h, x)
  PROVE  Joins(h, t, b, MergeNext(h, b))
<1> DEFINE n == h[b].next
           g == MergeNext(h, b)
<1>1. CASE Mergeable(h, b)
  <2>1. n # Nil /\ h[n].free /\ g = Merge(h, b)
    BY <1>1 DEF Mergeable, MergeNext
  <2>2. n = h[b].next
    OBVIOUS
  <2> HIDE DEF g, n
  <2>3. /\ Chain(g, t)
        /\ DOMAIN g = DOMAIN h \ {n} /\ n \in DOMAIN h /\ n # b
        /\ g[b].next = h[n].next /\ g[b].free = h[b].free /\ g[b].prev = h[b].prev
        /\ \A x \in DOMAIN h \ {b, n} : g[x].size = h[x].size /\ g[x].free = h[x].free
                                        /\ g[x].next = h[x].next
    <3>1. Chain(g, t) /\ Absorbs(h, b, n, g)
      BY <2>1, <2>2, MergeChain
    <3>2. QED BY <3>1 DEF Absorbs
  <2>4. n > b /\ n = End(h, b) /\ h[n].prev = b /\ b \in Nat /\ n \in Nat
    BY <2>1, <2>2, <2>3, NextBlock, BlockFields
  <2>5. \A x \in DOMAIN g : g[x].free = h[x].free
    BY <2>3
  <2>6. Used(g) = Used(h)
    BY <2>1, <2>3, <2>5 DEF Used
  <2>7. \A x \in Used(h) : g[x].size = h[x].size
    BY <2>1, <2>3 DEF Used
  <2>8. Apart(g, b)
    <3>1. h[b].prev # Nil => h[b].prev < b
      BY PrevBlock
    <3>2. n # h[b].prev
      BY <2>1, <2>4, <3>1
    <3>3. Apart(h, n)
      BY <2>3, <3>2
    <3>4. h[n].next # Nil => h[n].next \in DOMAIN h /\ h[n].next > n
      BY <2>3, NextBlock
    <3>5. h[n].next # Nil => h[n].next \in DOMAIN g
      BY <2>3, <2>4, <3>4
    <3>6. h[n].next # Nil => ~g[h[n].next].free
      BY <2>1, <2>5, <3>3, <3>5 DEF Apart
    <3>7. QED BY <2>3, <3>6 DEF Apart
  <2>9. ASSUME NEW x \in DOMAIN g, x # h[b].prev, x # b
        PROVE  Apart(g, x)
    <3>1. x \in DOMAIN h \ {b, n} /\ Apart(h, x)
      BY <2>3, <2>9
    <3>2. h[x].next # Nil => /\ h[x].next \in DOMAIN h /\ h[x].next = End(h, x)
                             /\ h[h[x].next].prev = x
      BY <3>1, NextBlock
    <3>3. h[x].next # Nil => h[x].next # n
      <4>1. End(h, x) = End(h, b) => x = b
        BY <3>1, EndsDiffer
      <4>2. QED BY <2>4, <2>9, <3>2, <4>1
    <3>4. h[x].next # Nil => h[x].next \in DOMAIN g
      BY <2>3, <3>2, <3>3
    <3>5. QED BY <2>3, <2>5, <3>1, <3>4 DEF Apart
  <2>10. \A x \in DOMAIN g : x # h[b].prev => Apart(g, x)
    BY <2>8, <2>9
  <2>11. Joins(h, t, b, g)
    BY <2>3, <2>5, <2>6, <2>7, <2>10 DEF Joins
  <2>12. QED BY <2>11 DEF g
<1>2. CASE ~Mergeable(h, b)
  <2>1. g = h
    BY <1>2 DEF MergeNext
  <2>2. Apart(h, b)
    BY <1>2, NextBlock DEF Mergeable, Apart
  <2>3. \A x \in DOMAIN h : x # h[b].prev => Apart(h, x)
    BY <2>2
  <2>4. Joins(h, t, b, h)
    BY <2>3 DEF Joins, Used
  <2>5. QED BY <2>1, <2>4
<1>3. QED BY <1>1, <1>2

\* g is h with the same used blocks and no free neighbours.
Closes(h, t, g) ==
  /\ Chain(g, t) /\ Packed(g)
  /\ Used(g) = Used(h) /\ \A x \in Used(h) : g[x].size = h[x].size

\* When only the free block b may have a free neighbour, and after it, a merge ends that.
LEMMA MergeBack ==
  ASSUME NEW h, NEW t, Chain(h, t), NEW b \in DOMAIN h, h[b].free,
         \A x \in DOMAIN h : x # b => Apart(h, x)
  PROVE  Closes(h, t, MergeNext(h, b))
<1> DEFINE f == MergeNext(h, b)
           q == h[b].prev
<1>1. Joins(h, t, b, f)
  BY MergeNextJoins
<1> HIDE DEF f
<1>2. ASSUME q \in DOMAIN f
      PROVE  Apart(f, q)
  <2>1. q \in DOMAIN h
    BY <1>1, <1>2 DEF Joins
  <2>2. q # Nil /\ b # Nil
    BY <2>1, BlockFields DEF Nil
  <2>3. h[q].next = b /\ q < b
    BY <2>2, PrevBlock
  <2>4. q # b
    BY <2>1, <2>3, BlockFields
  <2>5. ~h[q].free
    BY <2>1, <2>2, <2>3, <2>4 DEF Apart
  <2>6. QED BY <1>1, <1>2, <2>5 DEF Joins, Apart
<1>3. \A x \in DOMAIN f : Apart(f, x)
  BY <1>1, <1>2 DEF Joins
<1>4. Closes(h, t, f)
  BY <1>1, <1>3 DEF Joins, Closes, Packed
<1>5. QED BY <1>4 DEF f

\* A freed block is free, and it has no free neighbour.
LEMMA FreedList ==
  ASSUME NEW h, NEW t, Chain(h, t), Packed(h), NEW b \in DOMAIN h
  PROVE  Frees(h, t, b, Freed(h, b))
<1> DEFINE m == [h EXCEPT ![b].free = TRUE]
           g == MergeNext(m, b)
           p == g[b].prev
<1>1. /\ DOMAIN m = DOMAIN h /\ m[b].free = TRUE
      /\ \A x \in DOMAIN h : /\ m[x].size = h[x].size
                             /\ m[x].next = h[x].next /\ m[x].prev = h[x].prev
                             /\ x # b => m[x].free = h[x].free
  <2>1. Shaped(h)
    BY DEF Chain
  <2>2. QED BY <2>1, MarkFields
<1>2. Chain(m, t)
  BY MarkChain
<1>3. Freed(h, b) = IF p # Nil /\ g[p].free THEN MergeNext(g, p) ELSE g
  BY DEF Freed
<1> HIDE DEF m
<1>4. Used(m) = Used(h) \ {b}
  BY <1>1 DEF Used
<1>5. \A x \in DOMAIN m : x # b /\ x # m[b].prev => Apart(m, x)
  <2>1. SUFFICES ASSUME NEW x \in DOMAIN m, x # b, x # m[b].prev
                 PROVE  Apart(m, x)
    OBVIOUS
  <2>2. Apart(h, x)
    BY <1>1 DEF Packed
  <2>3. m[x].next # Nil => m[x].next \in DOMAIN m /\ m[m[x].next].prev = x
    BY <1>2, NextBlock
  <2>4. m[x].next # b \/ b = Nil
    BY <2>1, <2>3
  <2>5. b # Nil
    BY BlockFields DEF Nil
  <2>6. QED BY <1>1, <2>1, <2>2, <2>3, <2>4, <2>5 DEF Apart
<1>6. Joins(m, t, b, g)
  BY <1>1, <1>2, <1>5, MergeNextJoins
<1> HIDE DEF g
<1>7. /\ Chain(g, t) /\ b \in DOMAIN g
      /\ p = m[b].prev
      /\ \A x \in DOMAIN g : x # p => Apart(g, x)
      /\ Used(g) = Used(h) \ {b} /\ \A x \in Used(g) : g[x].size = h[x].size
  <2>1. \A x \in Used(m) : m[x].size = h[x].size
    BY <1>1 DEF Used
  <2>2. QED BY <1>4, <1>6, <2>1 DEF Joins
<1>8. p # Nil => p \in DOMAIN g
  BY <1>7, PrevBlock
<1> HIDE DEF p
<1>9. CASE p # Nil /\ g[p].free
  <2>1. p \in DOMAIN g
    BY <1>8, <1>9
  <2>2. Closes(g, t, MergeNext(g, p))
    BY <1>7, <1>9, <2>1, MergeBack
  <2>3. Frees(h, t, b, MergeNext(g, p))
    BY <1>7, <2>2 DEF Closes, Frees
  <2>4. QED BY <1>3, <1>9, <2>3
<1>10. CASE ~(p # Nil /\ g[p].free)
  <2>1. \A x \in DOMAIN g : Apart(g, x)
    <3>1. SUFFICES ASSUME NEW x \in DOMAIN g, x = p
                   PROVE  Apart(g, x)
      BY <1>7
    <3>2. p # Nil
      BY <1>7, <3>1, BlockFields DEF Nil
    <3>3. ~g[p].free
      BY <1>10, <3>2
    <3>4. QED BY <3>1, <3>3 DEF Apart
  <2>2. Frees(h, t, b, g)
    BY <1>7, <2>1 DEF Frees, Packed
  <2>3. Freed(h, b) = g
    BY <1>3, <1>10
  <2>4. QED BY <2>2, <2>3
<1>11. QED BY <1>9, <1>10

\* A free block that is taken is used, and what is left of it has no free neighbour.
LEMMA TakenList ==
  ASSUME NEW h, NEW t, Chain(h, t), Packed(h), NEW b \in DOMAIN h, h[b].free,
         NEW k \in Nat, k > 0, h[b].size >= k
  PROVE  Takes(h, t, b, k, Taken(h, b, k))
<1> DEFINE f == Split(h, b, k)
           g == Taken(h, b, k)
<1>1. /\ Chain(f, t) /\ b \in DOMAIN f /\ f[b].size >= k
      /\ \A x \in DOMAIN h : /\ x \in DOMAIN f /\ f[x].free = h[x].free
                             /\ x # b => f[x].size = h[x].size /\ f[x].next = h[x].next
      /\ \A x \in DOMAIN f \ DOMAIN h : f[x].free /\ f[x].next = h[b].next
  <2>1. CASE h[b].size >= k + Header + Unit
    <3>1. f = Split(h, b, k)
      OBVIOUS
    <3> HIDE DEF f
    <3>2. Chain(f, t) /\ \E s \in Nat : Divides(h, b, k, s, f)
      BY <2>1, <3>1, SplitChain
    <3>3. PICK s \in Nat : Divides(h, b, k, s, f)
      BY <3>2
    <3>4. DOMAIN f = DOMAIN h \cup {s} /\ f[b].size = k
      BY <3>3 DEF Divides
    <3>5. \A x \in DOMAIN h : /\ x \in DOMAIN f /\ f[x].free = h[x].free
                              /\ x # b => f[x].size = h[x].size /\ f[x].next = h[x].next
      BY <3>3 DEF Divides
    <3>6. \A x \in DOMAIN f \ DOMAIN h : f[x].free /\ f[x].next = h[b].next
      BY <3>3 DEF Divides
    <3>7. QED BY <3>2, <3>4, <3>5, <3>6
  <2>2. CASE ~(h[b].size >= k + Header + Unit)
    <3>1. f = h
      BY <2>2 DEF Split
    <3>2. QED BY <3>1
  <2>3. QED BY <2>1, <2>2
<1>2. g = [f EXCEPT ![b].free = FALSE]
  BY DEF Taken
<1> HIDE DEF f, g
<1>3. /\ DOMAIN g = DOMAIN f /\ ~g[b].free
      /\ \A x \in DOMAIN f : /\ g[x].size = f[x].size
                             /\ g[x].next = f[x].next
                             /\ x # b => g[x].free = f[x].free
  <2>1. Shaped(f)
    BY <1>1 DEF Chain
  <2>2. QED BY <1>1, <1>2, <2>1, MarkFields
<1>4. Chain(g, t)
  BY <1>1, <1>2, MarkChain
<1>5. Used(g) = Used(h) \cup {b}
  BY <1>1, <1>3 DEF Used
<1>6. \A x \in Used(h) : g[x].size = h[x].size
  BY <1>1, <1>3 DEF Used
<1>7. g[b].size >= k
  BY <1>1, <1>3
<1>8. ASSUME NEW x \in DOMAIN g
      PROVE  Apart(g, x)
  <2>1. CASE x = b
    BY <1>3, <2>1 DEF Apart
  <2>2. ASSUME NEW y \in DOMAIN h, ~h[y].free
        PROVE  ~g[y].free
    BY <1>1, <1>3, <2>2
  <2>3. CASE x \in DOMAIN h /\ x # b
    <3>1. g[x].next = h[x].next /\ g[x].free = h[x].free
      BY <1>1, <1>3, <2>3
    <3>2. h[x].next # Nil => h[x].next \in DOMAIN h
      BY <2>3, NextBlock
    <3>3. Apart(h, x)
      BY <2>3 DEF Packed
    <3>4. QED BY <2>2, <3>1, <3>2, <3>3 DEF Apart
  <2>4. CASE x \notin DOMAIN h
    <3>1. g[x].next = h[b].next
      BY <1>1, <1>3, <2>4
    <3>2. h[b].next # Nil => h[b].next \in DOMAIN h
      BY NextBlock
    <3>3. Apart(h, b)
      BY DEF Packed
    <3>4. QED BY <2>2, <3>1, <3>2, <3>3 DEF Apart
  <2>5. QED BY <2>1, <2>3, <2>4
<1>9. Takes(h, t, b, k, g)
  BY <1>4, <1>5, <1>6, <1>7, <1>8 DEF Takes, Packed
<1>10. QED BY <1>9 DEF g

\* Every address of the heap lies in a block.
LEMMA Covered ==
  ASSUME NEW h, NEW t, Chain(h, t), NEW a \in Nat, HeapStart <= a, a < t
  PROVE  \E b \in DOMAIN h : b <= a /\ a < End(h, b)
<1> DEFINE S == {d \in Nat : \E b \in DOMAIN h : b <= a /\ d = a - b}
<1>1. HeapStart \in DOMAIN h /\ HeapStart \in Nat /\ t \in Nat
  <2>1. HeapStart \in Nat /\ t \in Nat
    BY Constants DEF Chain, Placed
  <2>2. HeapStart # t
    BY <2>1
  <2>3. QED BY <2>1, <2>2 DEF Chain, Placed
<1>2. a - HeapStart \in S
  BY <1>1
<1>3. PICK d \in S : \A e \in S : d <= e
  BY <1>2, LeastExists
<1>4. PICK b \in DOMAIN h : b <= a /\ d = a - b
  OBVIOUS
<1>5. SUFFICES ASSUME ~(a < End(h, b)) PROVE FALSE
  BY <1>4
<1>6. /\ b \in Nat /\ End(h, b) \in Nat /\ End(h, b) > b
  BY BlockFields, EndsDiffer
<1>7. End(h, b) # t /\ End(h, b) <= a
  BY <1>1, <1>5, <1>6
<1>8. End(h, b) \in DOMAIN h
  BY <1>7 DEF Chain, Forward
<1>9. a - End(h, b) \in S
  BY <1>6, <1>7, <1>8
<1>10. d <= a - End(h, b)
  BY <1>3, <1>9
<1>11. QED BY <1>4, <1>6, <1>7, <1>10

\* A heap that is not empty has one last block, which ends at the top.
LEMMA LastBlock ==
  ASSUME NEW h, NEW t, Chain(h, t), DOMAIN h # {}
  PROVE  \E b \in DOMAIN h : {c \in DOMAIN h : h[c].next = Nil} = {b} /\ End(h, b) = t
<1>1. HeapStart \in DOMAIN h
  BY DEF Chain, Placed
<1>2. t \in Nat /\ HeapStart \in Nat /\ HeapStart < t
  BY <1>1, BlockFields, EndsDiffer
<1>3. t - 1 \in Nat /\ HeapStart <= t - 1 /\ t - 1 < t
  BY <1>2
<1>4. PICK b \in DOMAIN h : t - 1 < End(h, b)
  BY <1>3, Covered
<1>5. End(h, b) = t
  BY <1>2, <1>4, BlockFields
<1>6. h[b].next = Nil
  BY <1>5, NextBlock
<1>7. ASSUME NEW c \in DOMAIN h, h[c].next = Nil
      PROVE  c = b
  <2>1. End(h, c) = t
    BY <1>7, NextBlock
  <2>2. QED BY <1>5, <2>1, EndsDiffer
<1>8. QED BY <1>5, <1>6, <1>7

\* g is the heap with one page more: what was free at the top is larger by the page.
Grows(g) ==
  /\ Closes(block, top + PageSize, g)
  /\ DOMAIN g # {}
  /\ \E b \in DOMAIN g :
       /\ g[b].free /\ End(g, b) = top + PageSize
       /\ g[b].size + Header >= PageSize
       /\ \A c \in DOMAIN block :
            block[c].free /\ End(block, c) = top => g[b].size >= block[c].size + PageSize

\* a is the heap with a free block for the page at the top, last in the list.
Adds(a) ==
  /\ DOMAIN a = DOMAIN block \cup {top} /\ top \notin DOMAIN block
  /\ a[top].free = TRUE /\ a[top].size = PageSize - Header /\ a[top].next = Nil
  /\ \A x \in DOMAIN block :
       /\ a[x].size = block[x].size /\ a[x].free = block[x].free
       /\ a[x].next = IF End(block, x) = top THEN top ELSE block[x].next

\* A page that is added is last in the list.
LEMMA AppendedList ==
  ASSUME Chain(block, top), head = Nil <=> DOMAIN block = {}
  PROVE  Chain(Appended(block), top + PageSize) /\ Adds(Appended(block))
<1> DEFINE a == Appended(block)
           tails == {b \in DOMAIN block : block[b].next = Nil}
           before == IF head = Nil THEN Nil ELSE CHOOSE x \in tails : TRUE
           new == [size |-> PageSize - Header, free |-> TRUE, next |-> Nil, prev |-> before]
           linked(x) == [block[x] EXCEPT !.next = top]
           t == top + PageSize
<1>1. top \in Nat /\ t \in Nat /\ HeapStart \in Nat /\ t > top /\ PageSize - Header \in Nat
      /\ PageSize - Header > 0 /\ HeapStart <= top /\ top # Nil
  <2>1. top \in Nat
    BY DEF Chain, Placed
  <2>2. HeapStart <= top
    <3>1. CASE DOMAIN block = {}
      BY <3>1, Constants DEF Chain, Placed
    <3>2. CASE DOMAIN block # {}
      <4>1. HeapStart \in DOMAIN block
        BY <3>2 DEF Chain, Placed
      <4>2. QED BY <2>1, <4>1, BlockFields, EndsDiffer
    <3>3. QED BY <3>1, <3>2
  <2>3. QED BY <2>1, <2>2, Constants DEF Nil
<1>2. top \notin DOMAIN block
  BY <1>1, BlockFields, EndsDiffer
<1>3. \A x \in tails : End(block, x) = top
  BY NextBlock
<1>4. \A x \in DOMAIN block \ tails : End(block, x) # top
  BY NextBlock
<1>5. IF DOMAIN block = {} THEN before = Nil /\ top = HeapStart
      ELSE before \in DOMAIN block /\ End(block, before) = top /\ top # HeapStart
  <2>1. CASE DOMAIN block = {}
    BY <2>1 DEF Chain, Placed
  <2>2. CASE DOMAIN block # {}
    <3>1. PICK b \in DOMAIN block : tails = {b} /\ End(block, b) = top
      BY <2>2, LastBlock
    <3>2. before = b
      BY <2>2, <3>1
    <3>3. top # HeapStart
      BY <3>1, BlockFields, EndsDiffer
    <3>4. QED BY <2>2, <3>1, <3>2, <3>3
  <2>3. QED BY <2>1, <2>2
<1>6. before \in Nat
  BY <1>5, BlockFields DEF Nil
<1> HIDE DEF before
<1>7. new \in BlockType /\ new.size = PageSize - Header /\ new.free = TRUE /\ new.next = Nil
      /\ new.prev = before
  BY <1>1, <1>6 DEF BlockType, Nil
<1>8. \A x \in DOMAIN block : block[x] \in BlockType
  BY DEF Chain, Shaped
<1>9. \A x \in DOMAIN block :
        /\ linked(x) \in BlockType
        /\ linked(x).size = block[x].size /\ linked(x).free = block[x].free
        /\ linked(x).prev = block[x].prev /\ linked(x).next = top
  <2> TAKE x \in DOMAIN block
  <2>1. block[x] \in BlockType
    BY <1>8
  <2>2. QED BY <1>1, <2>1 DEF BlockType
<1> HIDE DEF new, linked
<1>10. a = [x \in DOMAIN block \cup {top} |->
              CASE x = top -> new
                [] x # top /\ x \in tails -> linked(x)
                [] OTHER -> block[x]]
  BY DEF Appended, new, linked, before
<1> HIDE DEF a
<1>11. /\ DOMAIN a = DOMAIN block \cup {top}
       /\ a[top] = new
       /\ \A x \in DOMAIN block : a[x] = IF x \in tails THEN linked(x) ELSE block[x]
  BY <1>2, <1>10
<1>12. \A x \in DOMAIN block :
         /\ a[x] \in BlockType
         /\ a[x].size = block[x].size /\ a[x].free = block[x].free
         /\ a[x].prev = block[x].prev
         /\ a[x].next = IF End(block, x) = top THEN top ELSE block[x].next
  <2> TAKE x \in DOMAIN block
  <2>1. CASE x \in tails
    <3>1. End(block, x) = top
      BY <1>3, <2>1
    <3>2. QED BY <1>9, <1>11, <2>1, <3>1
  <2>2. CASE x \notin tails
    <3>1. End(block, x) # top
      BY <1>4, <2>2
    <3>2. QED BY <1>8, <1>11, <2>2, <3>1
  <2>3. QED BY <2>1, <2>2
<1> HIDE DEF tails
<1>13. /\ a[top].free = TRUE /\ a[top].size = PageSize - Header /\ a[top].next = Nil
       /\ a[top].prev = before /\ a[top] \in BlockType
  BY <1>7, <1>11
<1>14. End(a, top) = t /\ \A x \in DOMAIN block : End(a, x) = End(block, x)
  BY <1>1, <1>12, <1>13, Constants DEF End
<1>15. Shaped(a)
  BY <1>1, <1>11, <1>12, <1>13 DEF Shaped, Chain
<1>16. Placed(a, t)
  <2>1. HeapStart \in DOMAIN a
    BY <1>5, <1>11 DEF Chain, Placed
  <2>2. \A x \in DOMAIN a : HeapStart <= x /\ End(a, x) <= t
    BY <1>1, <1>11, <1>14, BlockFields
  <2>3. ASSUME NEW x \in DOMAIN a, NEW c \in DOMAIN a, x < c
        PROVE  End(a, x) <= c
    <3>1. CASE x \in DOMAIN block /\ c \in DOMAIN block
      BY <1>14, <2>3, <3>1, EndsDiffer
    <3>2. CASE x \in DOMAIN block /\ c = top
      BY <1>14, <3>2, BlockFields
    <3>3. CASE x = top /\ c \in DOMAIN block
      <4>1. c < top /\ c \in Nat
        BY <1>1, <3>3, BlockFields, EndsDiffer
      <4>2. QED BY <1>1, <2>3, <3>3, <4>1
    <3>4. CASE x = top /\ c = top
      BY <1>1, <2>3, <3>4
    <3>5. QED BY <1>11, <3>1, <3>2, <3>3, <3>4
  <2>4. QED BY <1>1, <2>1, <2>2, <2>3 DEF Placed
<1>17. Forward(a, t)
  <2>1. ASSUME NEW x \in DOMAIN block
        PROVE  /\ a[x].next = IF End(a, x) = t THEN Nil ELSE End(a, x)
               /\ End(a, x) # t => End(a, x) \in DOMAIN a
    <3>1. End(block, x) <= top /\ End(block, x) \in Nat
      BY BlockFields
    <3>2. End(a, x) # t
      BY <1>1, <1>14, <3>1
    <3>3. /\ block[x].next = IF End(block, x) = top THEN Nil ELSE End(block, x)
          /\ End(block, x) # top => End(block, x) \in DOMAIN block
      BY DEF Chain, Forward
    <3>4. QED BY <1>11, <1>12, <1>14, <3>2, <3>3
  <2>2. QED BY <1>11, <1>13, <1>14, <2>1 DEF Forward
<1>18. Backward(a)
  <2>1. ASSUME NEW x \in DOMAIN block
        PROVE  IF x = HeapStart THEN a[x].prev = Nil
               ELSE a[x].prev \in DOMAIN a /\ End(a, a[x].prev) = x
    <3>1. IF x = HeapStart THEN block[x].prev = Nil
          ELSE block[x].prev \in DOMAIN block /\ End(block, block[x].prev) = x
      BY DEF Chain, Backward
    <3>2. QED BY <1>11, <1>12, <1>14, <3>1
  <2>2. IF top = HeapStart THEN a[top].prev = Nil
        ELSE a[top].prev \in DOMAIN a /\ End(a, a[top].prev) = top
    BY <1>5, <1>11, <1>13, <1>14
  <2>3. QED BY <1>11, <2>1, <2>2 DEF Backward
<1>19. Chain(a, t)
  BY <1>15, <1>16, <1>17, <1>18 DEF Chain
<1>20. Adds(a)
  BY <1>2, <1>11, <1>12, <1>13 DEF Adds
<1>21. QED BY <1>19, <1>20 DEF a

\* A page that is added is free at the top, merged with what was free there.
LEMMA GrownList ==
  ASSUME Chain(block, top), Packed(block), head = Nil <=> DOMAIN block = {}
  PROVE  Grows(Grown)
<1> DEFINE a == Appended(block)
           p == a[top].prev
           t == top + PageSize
           f == MergeNext(a, p)
<1>1. Chain(a, t) /\ Adds(a)
  BY AppendedList
<1>2. Grown = IF p # Nil /\ a[p].free THEN f ELSE a
  BY DEF Grown
<1> HIDE DEF a
<1>3. /\ DOMAIN a = DOMAIN block \cup {top} /\ top \notin DOMAIN block /\ top \in DOMAIN a
      /\ a[top].free = TRUE /\ a[top].size = PageSize - Header /\ a[top].next = Nil
      /\ \A x \in DOMAIN block :
           /\ a[x].size = block[x].size /\ a[x].free = block[x].free
           /\ a[x].next = IF End(block, x) = top THEN top ELSE block[x].next
  BY <1>1 DEF Adds
<1>4. \A x \in DOMAIN block : End(a, x) = End(block, x)
  BY <1>3 DEF End
<1>5. End(a, top) = t /\ top \in Nat /\ top # Nil /\ t \in Nat
  <2>1. top \in Nat /\ top > 0
    BY <1>1, <1>3, BlockFields
  <2>2. QED BY <1>3, <2>1, Constants DEF End, Nil
<1>6. p # Nil => /\ p \in DOMAIN a /\ End(a, p) = top /\ a[p].next = top /\ p \in DOMAIN block
  <2>1. p # Nil => p \in DOMAIN a /\ End(a, p) = top /\ a[p].next = top /\ p < top
    BY <1>1, <1>3, PrevBlock
  <2>2. QED BY <1>3, <1>5, <2>1
<1>7. ASSUME NEW c \in DOMAIN block, End(block, c) = top
      PROVE  c = p /\ p # Nil
  <2>1. c \in DOMAIN a /\ a[c].next = top
    BY <1>3, <1>7
  <2>2. a[a[c].next].prev = c
    BY <1>1, <1>5, <2>1, NextBlock
  <2>3. c # Nil
    BY <1>1, <2>1, BlockFields DEF Nil
  <2>4. QED BY <2>1, <2>2, <2>3
<1>8. \A x \in DOMAIN a : x # p => Apart(a, x)
  <2>1. SUFFICES ASSUME NEW x \in DOMAIN block, x # p
                 PROVE  Apart(a, x)
    BY <1>3 DEF Apart
  <2>2. End(block, x) # top
    BY <1>7, <2>1
  <2>3. block[x].next # Nil => block[x].next \in DOMAIN block
    BY NextBlock
  <2>4. Apart(block, x)
    BY DEF Packed
  <2>5. QED BY <1>3, <2>2, <2>3, <2>4 DEF Apart
<1>9. Used(a) = Used(block) /\ \A x \in Used(block) : a[x].size = block[x].size
  BY <1>3 DEF Used
<1> HIDE DEF p
<1>10. CASE p # Nil /\ a[p].free
  <2>1. p \in DOMAIN a /\ p \in DOMAIN block
    BY <1>6, <1>10
  <2>2. Closes(a, t, f)
    BY <1>1, <1>8, <1>10, <2>1, MergeBack
  <2>3. Closes(block, t, f)
    BY <1>9, <2>2 DEF Closes
  <2>4. Mergeable(a, p)
    BY <1>3, <1>5, <1>6, <1>10 DEF Mergeable
  <2>5. f = Merge(a, p)
    BY <2>4 DEF MergeNext
  <2>6. Absorbs(a, p, top, f)
    BY <1>1, <1>5, <1>6, <1>10, <2>1, <2>5, MergeChain
  <2> HIDE DEF f
  <2>7. /\ p \in DOMAIN f /\ f[p].free
        /\ f[p].size = a[p].size + Header + (PageSize - Header)
    BY <1>3, <1>10, <2>1, <2>6 DEF Absorbs
  <2>8. p \in Nat /\ a[p].size \in Nat /\ End(a, p) = p + Header + a[p].size
    BY <1>1, <2>1, BlockFields
  <2>9. f[p].size = a[p].size + PageSize
    BY <2>7, <2>8, Constants
  <2>10. End(f, p) = t /\ f[p].size + Header >= PageSize
    <3>1. End(f, p) = p + Header + f[p].size /\ p + Header + a[p].size = top
      BY <1>6, <1>10, <2>8 DEF End
    <3>2. QED BY <1>5, <2>8, <2>9, <3>1, Constants
  <2>11. \A c \in DOMAIN block :
           block[c].free /\ End(block, c) = top => f[p].size >= block[c].size + PageSize
    <3>1. SUFFICES ASSUME NEW c \in DOMAIN block, End(block, c) = top
                   PROVE  f[p].size >= block[c].size + PageSize
      OBVIOUS
    <3>2. c = p
      BY <1>7, <3>1
    <3>3. QED BY <1>3, <2>8, <2>9, <3>2, Constants
  <2>12. Grows(f)
    BY <2>3, <2>7, <2>10, <2>11 DEF Grows
  <2>13. QED BY <1>2, <1>10, <2>12
<1>11. CASE ~(p # Nil /\ a[p].free)
  <2>1. \A x \in DOMAIN a : Apart(a, x)
    <3>1. SUFFICES ASSUME NEW x \in DOMAIN a, x = p
                   PROVE  Apart(a, x)
      BY <1>8
    <3>2. p # Nil
      BY <1>1, <3>1, BlockFields DEF Nil
    <3>3. ~a[p].free
      BY <1>11, <3>2
    <3>4. QED BY <3>1, <3>3 DEF Apart
  <2>2. Closes(block, t, a)
    BY <1>1, <1>9, <2>1 DEF Closes, Packed
  <2>3. \A c \in DOMAIN block : ~(block[c].free /\ End(block, c) = top)
    BY <1>3, <1>7, <1>11
  <2>4. a[top].size + Header >= PageSize
    BY <1>3, Constants
  <2>5. Grows(a)
    BY <1>3, <1>5, <2>2, <2>3, <2>4 DEF Grows
  <2>6. QED BY <1>2, <1>11, <2>5
<1>12. QED BY <1>10, <1>11

-----------------------------------------------------------------------------
(* What the clients have.                                                  *)

\* The used blocks of h are those of the pointers of L, each as large as was asked.
Holds(h, L) ==
  /\ DOMAIN L \subseteq Nat /\ \A p \in DOMAIN L : L[p] \in Nat \ {0}
  /\ {Ptr(b) : b \in Used(h)} = DOMAIN L
  /\ \A p \in DOMAIN L : L[p] <= h[Of(p)].size

\* Blocks and pointers.
LEMMA Pointers ==
  ASSUME NEW b \in Nat
  PROVE  Ptr(b) \in Nat /\ Of(Ptr(b)) = b /\ Ptr(b) > b
BY Constants DEF Ptr, Of

\* A client's pointer is that of a used block.
LEMMA HeldBlock ==
  ASSUME NEW h, NEW t, Chain(h, t), NEW L, Holds(h, L), NEW p \in DOMAIN L
  PROVE  /\ p \in Nat /\ p # Nil
         /\ Of(p) \in Used(h) /\ Of(p) \in DOMAIN h /\ Of(p) \in Nat /\ p = Ptr(Of(p))
         /\ ~h[Of(p)].free /\ L[p] <= h[Of(p)].size
<1>1. PICK b \in Used(h) : p = Ptr(b)
  BY DEF Holds
<1>2. b \in DOMAIN h /\ b \in Nat /\ ~h[b].free
  BY BlockFields DEF Used
<1>3. p \in Nat /\ Of(p) = b /\ p > b
  BY <1>1, <1>2, Pointers
<1>4. QED BY <1>1, <1>2, <1>3 DEF Holds, Nil

\* A block that is taken is one more the clients have.
LEMMA TakeHolds ==
  ASSUME NEW h, NEW t, Chain(h, t), NEW L, Holds(h, L),
         NEW b \in DOMAIN h, h[b].free, NEW n \in Nat \ {0}, NEW k \in Nat, n <= k,
         NEW g, Takes(h, t, b, k, g),
         NEW M, M = [p \in DOMAIN L \cup {Ptr(b)} |-> IF p = Ptr(b) THEN n ELSE L[p]]
  PROVE  Holds(g, M)
<1>1. b \in Nat /\ Ptr(b) \in Nat /\ Of(Ptr(b)) = b
  BY BlockFields, Pointers
<1>2. /\ Used(g) = Used(h) \cup {b} /\ \A x \in Used(h) : g[x].size = h[x].size
      /\ g[b].size >= k /\ b \in DOMAIN g
  BY DEF Takes, Used
<1>3. g[b].size \in Nat
  <2>1. Chain(g, t)
    BY DEF Takes
  <2>2. QED BY <1>2, <2>1, BlockFields
<1>4. Ptr(b) \notin DOMAIN L
  BY <1>1, HeldBlock
<1>5. DOMAIN M = DOMAIN L \cup {Ptr(b)} /\ M[Ptr(b)] = n /\ \A p \in DOMAIN L : M[p] = L[p]
  BY <1>4
<1>6. {Ptr(x) : x \in Used(g)} = DOMAIN M
  BY <1>2, <1>5 DEF Holds
<1>7. \A p \in DOMAIN L : Of(p) \in Used(h) /\ L[p] <= h[Of(p)].size
  BY HeldBlock
<1>8. \A p \in DOMAIN M : M[p] <= g[Of(p)].size
  BY <1>1, <1>2, <1>3, <1>5, <1>7
<1>9. DOMAIN M \subseteq Nat /\ \A p \in DOMAIN M : M[p] \in Nat \ {0}
  BY <1>1, <1>5 DEF Holds
<1>10. QED BY <1>6, <1>8, <1>9 DEF Holds

\* A block that is freed is one less.
LEMMA FreeHolds ==
  ASSUME NEW h, NEW t, Chain(h, t), NEW L, Holds(h, L), NEW q \in DOMAIN L,
         NEW g, Frees(h, t, Of(q), g),
         NEW M, M = [p \in DOMAIN L \ {q} |-> L[p]]
  PROVE  Holds(g, M)
<1>1. Of(q) \in Nat /\ q = Ptr(Of(q)) /\ \A x \in Used(h) : x \in Nat
  BY HeldBlock, BlockFields DEF Used
<1>2. /\ Used(g) = Used(h) \ {Of(q)} /\ \A x \in Used(g) : g[x].size = h[x].size
  BY DEF Frees
<1>3. \A x \in Used(h) : Ptr(x) = q <=> x = Of(q)
  BY <1>1, Pointers
<1>4. {Ptr(x) : x \in Used(g)} = DOMAIN M
  BY <1>2, <1>3 DEF Holds
<1>5. \A p \in DOMAIN M : p \in DOMAIN L /\ p # q /\ M[p] = L[p]
  OBVIOUS
<1>6. \A p \in DOMAIN L : Of(p) \in Used(h) /\ p = Ptr(Of(p)) /\ L[p] <= h[Of(p)].size
  BY HeldBlock
<1>7. \A p \in DOMAIN M : M[p] <= g[Of(p)].size
  BY <1>1, <1>2, <1>5, <1>6
<1>8. DOMAIN M \subseteq Nat /\ \A p \in DOMAIN M : M[p] \in Nat \ {0}
  BY <1>5 DEF Holds
<1>9. QED BY <1>4, <1>7, <1>8 DEF Holds

\* A block the clients have may be asked to hold more, if it can.
LEMMA ResizeHolds ==
  ASSUME NEW h, NEW t, Chain(h, t), NEW L, Holds(h, L), NEW q \in DOMAIN L,
         NEW n \in Nat \ {0}, n <= h[Of(q)].size,
         NEW M, M = [L EXCEPT ![q] = n]
  PROVE  Holds(h, M)
<1>1. DOMAIN M = DOMAIN L /\ M[q] = n /\ \A p \in DOMAIN L : p # q => M[p] = L[p]
  OBVIOUS
<1>2. QED BY <1>1 DEF Holds

\* Blocks that are used stay as they are.
LEMMA ClosesHolds ==
  ASSUME NEW h, NEW t, Chain(h, t), NEW L, Holds(h, L), NEW u, NEW g, Closes(h, u, g)
  PROVE  Holds(g, L)
<1>1. \A p \in DOMAIN L : Of(p) \in Used(h)
  BY HeldBlock
<1>2. QED BY <1>1 DEF Holds, Closes

\* The heap is empty when the top is at its start, and only then.
LEMMA EmptyHeap ==
  ASSUME NEW h, NEW t, Chain(h, t)
  PROVE  DOMAIN h = {} <=> t = HeapStart
<1>1. DOMAIN h = {} => t = HeapStart
  BY DEF Chain, Placed
<1>2. ASSUME DOMAIN h # {} PROVE t # HeapStart
  <2>1. HeapStart \in DOMAIN h
    BY <1>2 DEF Chain, Placed
  <2>2. QED BY <2>1, BlockFields, EndsDiffer
<1>3. QED BY <1>1, <1>2

-----------------------------------------------------------------------------
(* The inductive invariant.                                                *)

\* The list is empty or begins at the start of the heap.
Headed ==
  /\ DOMAIN block = {} => head = Nil /\ block = [b \in {} |-> Nil]
  /\ DOMAIN block # {} => head = HeapStart

\* A call asks for one of the sizes; the memory it moves is the client's until it is done,
\* and less than it asks for.
CallKept ==
  /\ call \in [at : {"idle", "search", "expand", "fault"}, asked : Nat, pages : Nat, old : Nat]
  /\ call.asked \in Sizes \cup {0}
  /\ call.at = "search" => call.asked > 0
  /\ call.at \in {"search", "expand"} /\ call.old # Nil =>
       call.old \in DOMAIN live /\ live[call.old] < call.asked

\* Before the first page of an expansion nothing fits; from then on the free memory at the
\* top is at least what was added.
ExpansionKept ==
  call.at = "expand" /\ call.asked > 0 =>
    LET added == Batch(call.asked) - call.pages
    IN /\ added >= 0
       /\ added = 0 => Fitting(Aligned(call.asked)) = {}
       /\ added > 0 => \E b \in DOMAIN block :
                          /\ block[b].free /\ End(block, b) = top
                          /\ block[b].size + Header >= added * PageSize

\* The pages that are mapped when t is the last one of the heap.
MappedTo(t) == ((HeapStart \div PageSize)..t) \cup {KernelPage}

\* The pages of the heap are mapped, the kernel's is, and no others; the frames that are taken
\* are the last ones, and the entries lead to each of them; those left do not reach the last page.
Paged ==
  /\ frames \in Nat
  /\ call.at # "fault" =>
       /\ top = PageSize * (top \div PageSize)
       /\ top \div PageSize + frames <= Reach[Levels]
       /\ Tree(entry, MappedTo(top \div PageSize - 1) \X (1..Levels))
       /\ \E last \in Nat : frames <= last /\ Values(entry) = (frames + 1)..last

HInv ==
  /\ Chain(block, top) /\ Packed(block) /\ Headed
  /\ Holds(block, live)
  /\ CallKept /\ ExpansionKept
  /\ Paged

\* What the state of the call and of the lists gives.
LEMMA Known ==
  ASSUME HInv
  PROVE  /\ call.asked \in Nat /\ call.pages \in Nat /\ call.old \in Nat
         /\ call.at \in {"idle", "search", "expand", "fault"}
         /\ top \in Nat /\ frames \in Nat /\ HeapStart \in Nat /\ top >= HeapStart
         /\ HeapStart > 0
         /\ head = Nil <=> DOMAIN block = {}
<1>1. /\ call.asked \in Nat /\ call.pages \in Nat /\ call.old \in Nat
      /\ call.at \in {"idle", "search", "expand", "fault"}
  BY DEF HInv, CallKept
<1>2. top \in Nat /\ frames \in Nat /\ HeapStart \in Nat /\ HeapStart > 0
  BY Constants DEF HInv, Chain, Placed, Paged
<1>3. head = Nil <=> DOMAIN block = {}
  <2>1. HeapStart # Nil
    BY <1>2 DEF Nil
  <2>2. /\ DOMAIN block = {} => head = Nil
        /\ DOMAIN block # {} => head = HeapStart
    BY DEF HInv, Headed
  <2>3. QED BY <2>1, <2>2
<1>4. top >= HeapStart
  <2>1. CASE DOMAIN block = {}
    BY <1>2, <2>1, EmptyHeap DEF HInv
  <2>2. CASE DOMAIN block # {}
    <3>1. HeapStart \in DOMAIN block
      BY <2>2 DEF HInv, Chain, Placed
    <3>2. QED BY <1>2, <3>1, BlockFields, EndsDiffer DEF HInv
  <2>3. QED BY <2>1, <2>2
<1>5. QED BY <1>1, <1>2, <1>3, <1>4

\* The invariant holds when heap_init is called.
LEMMA InitHolds ==
  ASSUME Init
  PROVE  HInv
<1>1. /\ DOMAIN block = {} /\ block = [b \in {} |-> Nil] /\ head = Nil /\ top = HeapStart
      /\ DOMAIN live = {}
  BY DEF Init
<1>2. /\ call \in [at : {"idle", "search", "expand", "fault"}, asked : Nat, pages : Nat, old : Nat]
      /\ call.at = "expand" /\ call.asked = 0 /\ call.old = Nil
  BY Constants DEF Init, Idle, Nil
<1>3. Chain(block, top)
  BY <1>1, Constants DEF Chain, Shaped, Placed, Forward, Backward
<1>4. Packed(block) /\ Headed
  BY <1>1 DEF Packed, Headed
<1>5. Holds(block, live)
  BY <1>1 DEF Holds, Used
<1>6. CallKept /\ ExpansionKept
  BY <1>2 DEF CallKept, ExpansionKept
<1>7. Paged
  <2> DEFINE q == HeapStart \div PageSize
             z == top \div PageSize
  <2>1. /\ HeapStart \in Nat /\ PageSize \in Nat \ {0} /\ HeapStart % PageSize = 0
        /\ Reach[Levels] \in Nat
    BY Constants, GeometryAssumption, PagingAssumption, ReachDef
  <2>2. q \in Nat /\ HeapStart = PageSize * q
    BY <2>1
  <2>3. z = q /\ top = PageSize * z
    BY <1>1, <2>2
  <2>4. PICK n \in FreeFrames : frames = VmmInit(n).free /\ entry = VmmInit(n).entry
    BY DEF Init
  <2>5. /\ n \in Nat \ {0} /\ q + n <= Reach[Levels] /\ VmmInit(n).at # NoFrame
        /\ KernelPage \in 0..(q - 1)
    BY <2>4, FramesAssumption, LoaderAssumption
  <2> DEFINE m == [entry |-> NoTables, free |-> n - 1, at |-> NoFrame]
             t == VmmInit(n)
  <2>6. /\ m \in Walks /\ m.entry = NoTables /\ m.free = n - 1
        /\ NoTables \in Entries /\ DOMAIN NoTables = {}
    <3>1. NoTables = [x \in {} |-> NoFrame] /\ {} \in SUBSET (Int \X Nat)
      BY DEF NoTables
    <3>2. NoTables \in [{} -> Nat \ {NoFrame}]
      BY <3>1
    <3>3. NoTables \in Entries /\ DOMAIN NoTables = {}
      BY <3>1, <3>2 DEF Entries
    <3>4. n - 1 \in Nat /\ NoFrame \in Int
      BY <2>5 DEF NoFrame
    <3>5. QED BY <3>3, <3>4 DEF Walks
  <2>7. Tree(NoTables, {} \X (1..Levels)) /\ Values(NoTables) = {}
    <3>1. {} \X (1..Levels) = {}
      OBVIOUS
    <3>2. Tree(NoTables, {})
      BY <2>6 DEF Tree
    <3>3. QED BY <2>6, <3>1, <3>2 DEF Values
  <2> HIDE DEF m, q, z, t
  <2>8. KernelPage \in Pages /\ {} \in SUBSET Pages
    BY <2>1, <2>2, <2>5 DEF Pages
  <2>9. Maps(m, {}, KernelPage, n, MapPage(m, KernelPage, n))
    <3>1. n \in Nat /\ n > m.free
      BY <2>5, <2>6
    <3>2. QED BY <2>6, <2>7, <2>8, <3>1, MapPageMaps
  <2>10. Maps(m, {}, KernelPage, n, t)
    BY <2>9 DEF VmmInit, m, t
  <2>11. /\ frames \in Nat /\ frames <= n - 1 /\ frames = t.free /\ entry = t.entry
         /\ Tree(entry, ({} \cup {KernelPage}) \X (1..Levels))
         /\ Values(entry) = {} \cup (frames + 1)..(n - 1) \cup {n}
    BY <2>4, <2>5, <2>6, <2>7, <2>10 DEF Maps, t
  <2>12. MappedTo(z - 1) = {} \cup {KernelPage}
    BY <2>2, <2>3 DEF MappedTo, q
  <2>13. Tree(entry, MappedTo(top \div PageSize - 1) \X (1..Levels))
    BY <2>11, <2>12 DEF z
  <2>14. Values(entry) = (frames + 1)..n /\ frames <= n /\ n \in Nat
    BY <2>5, <2>11
  <2>15. z + frames <= Reach[Levels]
    BY <2>1, <2>2, <2>3, <2>5, <2>11
  <2>16. QED BY <2>3, <2>11, <2>13, <2>14, <2>15 DEF Paged, z
<1>8. QED BY <1>3, <1>4, <1>5, <1>6, <1>7 DEF HInv


\* The parts of the invariant that only the call, the lists or the tables decide.
LEMMA StillHeaded ==
  ASSUME HInv, Chain(block', top'), top' # HeapStart, head' = HeapStart
  PROVE  Headed'
<1>1. DOMAIN block' = {} <=> top' = HeapStart
  BY EmptyHeap
<1>2. DOMAIN block' # {}
  BY <1>1
<1>3. QED BY <1>2 DEF Headed

\* A page is mapped at the top, or a table for it is missing.
LEMMA ExpandedMaps ==
  ASSUME HInv, frames > 0, call.at # "fault"
  PROVE  /\ Expanded.free \in Nat /\ Expanded.free < frames
         /\ Expanded.at # NoFrame =>
              /\ Tree(Expanded.entry, MappedTo(top \div PageSize) \X (1..Levels))
              /\ \E last \in Nat : /\ Expanded.free <= last
                                   /\ Values(Expanded.entry) = (Expanded.free + 1)..last
<1> DEFINE m == [entry |-> entry, free |-> frames - 1, at |-> NoFrame]
           q == HeapStart \div PageSize
           z == top \div PageSize
           M == MappedTo(z - 1)
           r == MapPage(m, z, frames)
<1>1. r = Expanded
  BY DEF Expanded
<1>2. PICK last \in Nat : frames <= last /\ Values(entry) = (frames + 1)..last
  BY DEF HInv, Paged
<1>3. Tree(entry, M \X (1..Levels))
  BY DEF HInv, Paged
<1>4. /\ top = PageSize * z /\ z + frames <= Reach[Levels] /\ frames \in Nat
      /\ PageSize \in Nat \ {0} /\ HeapStart \in Nat /\ top \in Nat /\ HeapStart <= top
      /\ HeapStart % PageSize = 0 /\ Reach[Levels] \in Nat
  BY Known, Constants, GeometryAssumption, PagingAssumption, ReachDef DEF HInv, Paged
<1>5. q \in Nat /\ z \in Nat /\ HeapStart = PageSize * q
  BY <1>4
<1>6. q <= z
  <2> HIDE DEF q, z
  <2>1. SUFFICES ASSUME q > z PROVE FALSE
    BY <1>5
  <2>2. PageSize * q >= PageSize * (z + 1)
    BY <1>4, <1>5, <2>1
  <2>3. PageSize * (z + 1) = PageSize * z + PageSize
    BY <1>4, <1>5
  <2>4. QED BY <1>4, <1>5, <2>2, <2>3
<1>7. /\ frames - 1 \in Nat /\ frames > frames - 1 /\ frames \notin Values(entry)
      /\ Values(entry) \cap 1..(frames - 1) = {}
  BY <1>2, <1>4
<1> HIDE DEF q, z
<1>8. M \in SUBSET Pages /\ z \in Pages /\ z \notin M /\ M \cup {z} = MappedTo(z)
  <2>1. KernelPage \in 0..(q - 1)
    BY LoaderAssumption DEF q
  <2>2. M = q..(z - 1) \cup {KernelPage} /\ MappedTo(z) = q..z \cup {KernelPage}
    BY DEF MappedTo, q
  <2>3. q..(z - 1) \in SUBSET Pages /\ z \in Pages /\ KernelPage \in Pages
    BY <1>4, <1>5, <1>6, <2>1 DEF Pages
  <2>4. z \notin q..(z - 1) /\ z # KernelPage
    BY <1>5, <1>6, <2>1
  <2>5. q..(z - 1) \cup {z} = q..z
    BY <1>5, <1>6
  <2> HIDE DEF M
  <2>6. QED BY <2>2, <2>3, <2>4, <2>5
<1>9. m \in Walks /\ m.entry = entry /\ m.free = frames - 1
  <2>1. entry \in Entries
    BY <1>3 DEF Tree
  <2>2. QED BY <1>7, <2>1 DEF Walks, NoFrame
<1> HIDE DEF m, M, r
<1>10. Maps(m, M, z, frames, MapPage(m, z, frames))
  BY <1>3, <1>4, <1>7, <1>8, <1>9, MapPageMaps
<1>11. Maps(m, M, z, frames, r)
  BY <1>10 DEF r
<1>12. /\ r.free \in Nat /\ r.free <= frames - 1
       /\ r.at # NoFrame =>
            /\ Tree(r.entry, (M \cup {z}) \X (1..Levels))
            /\ Values(r.entry) = Values(entry) \cup (r.free + 1)..(frames - 1) \cup {frames}
  BY <1>9, <1>11 DEF Maps
<1>13. ASSUME r.at # NoFrame
       PROVE  r.free <= last /\ Values(r.entry) = (r.free + 1)..last
  <2>1. Values(r.entry) = (frames + 1)..last \cup (r.free + 1)..(frames - 1) \cup {frames}
    BY <1>2, <1>12, <1>13
  <2>2. (frames + 1)..last \cup (r.free + 1)..(frames - 1) \cup {frames} = (r.free + 1)..last
    BY <1>2, <1>4, <1>12
  <2>3. QED BY <1>2, <1>4, <1>12, <2>1, <2>2
<1>14. r.free < frames
  BY <1>4, <1>12
<1>15. QED BY <1>1, <1>8, <1>12, <1>13, <1>14 DEF q, z


\* The invariant after an action that leaves the blocks and the tables.
LEMMA CallMoves ==
  ASSUME HInv, UNCHANGED <<block, head, top, frames, entry>>,
         Holds(block, live'), CallKept', ExpansionKept',
         call.at # "fault"
  PROVE  HInv'
<1>1. Chain(block', top') /\ Packed(block') /\ Headed'
  BY DEF HInv, Headed
<1>2. Holds(block', live')
  OBVIOUS
<1>3. Paged'
  BY DEF HInv, Paged
<1>4. QED BY <1>1, <1>2, <1>3 DEF HInv

\* The call is over.
LEMMA IdleKept ==
  ASSUME call' = Idle
  PROVE  CallKept' /\ ExpansionKept'
<1>1. /\ call' \in [at : {"idle", "search", "expand", "fault"}, asked : Nat, pages : Nat, old : Nat]
      /\ call'.at = "idle" /\ call'.asked = 0
  BY DEF Idle, Nil
<1>2. QED BY <1>1 DEF CallKept, ExpansionKept

LEMMA KmallocKeeps ==
  ASSUME HInv, NEW n \in Sizes, Kmalloc(n)
  PROVE  HInv'
<1>1. /\ n \in Nat \ {0} /\ call' = [Idle EXCEPT !.at = "search", !.asked = n]
      /\ call.at # "fault" /\ live' = live
  BY Constants DEF Kmalloc, Idle
<1>2. /\ call' \in [at : {"idle", "search", "expand", "fault"}, asked : Nat, pages : Nat, old : Nat]
      /\ call'.at = "search" /\ call'.asked = n /\ call'.old = Nil
  BY <1>1 DEF Idle, Nil
<1>3. CallKept' /\ ExpansionKept'
  BY <1>1, <1>2 DEF CallKept, ExpansionKept
<1>4. Holds(block, live')
  BY <1>1 DEF HInv
<1>5. QED BY <1>1, <1>3, <1>4, CallMoves DEF Kmalloc

LEMMA NothingFitsKeeps ==
  ASSUME HInv, NothingFits
  PROVE  HInv'
<1> DEFINE n == call.asked
<1>1. /\ n \in Nat \ {0} /\ call.at = "search" /\ live' = live
      /\ Fitting(Aligned(n)) = {} /\ block' = block
      /\ call' = [call EXCEPT !.at = "expand", !.pages = Batch(n)]
  BY Known DEF NothingFits, HInv, CallKept
<1>2. Batch(n) \in Nat
  BY <1>1, Requested
<1>3. /\ call' \in [at : {"idle", "search", "expand", "fault"}, asked : Nat, pages : Nat, old : Nat]
      /\ call'.at = "expand" /\ call'.asked = n /\ call'.old = call.old
      /\ call'.pages = Batch(n)
  BY <1>1, <1>2 DEF HInv, CallKept
<1>4. CallKept'
  BY <1>1, <1>3 DEF HInv, CallKept
<1>5. ExpansionKept'
  <2>1. Fitting(Aligned(call.asked))' = {}
    BY <1>1, <1>3 DEF Fitting, Aligned
  <2>2. Batch(call'.asked) - call'.pages = 0
    BY <1>2, <1>3
  <2>3. QED BY <2>1, <2>2 DEF ExpansionKept
<1>6. Holds(block, live')
  BY <1>1 DEF HInv
<1>7. QED BY <1>1, <1>4, <1>5, <1>6, CallMoves DEF NothingFits

LEMMA ExpandDoneKeeps ==
  ASSUME HInv, ExpandDone
  PROVE  HInv'
<1>1. call.at = "expand" /\ live' = live
  BY DEF ExpandDone
<1>2. CallKept' /\ ExpansionKept'
  <2>1. CASE call' = Idle
    BY <2>1, IdleKept
  <2>2. CASE call.asked # 0 /\ call' = [call EXCEPT !.at = "search", !.pages = 0]
    <3>1. /\ call' \in [at : {"idle", "search", "expand", "fault"}, asked : Nat, pages : Nat, old : Nat]
          /\ call'.at = "search" /\ call'.asked = call.asked /\ call'.old = call.old
      BY <2>2 DEF HInv, CallKept
    <3>2. call.asked > 0
      BY <2>2, Known
    <3>3. QED BY <1>1, <3>1, <3>2 DEF HInv, CallKept, ExpansionKept
  <2>3. QED BY <2>1, <2>2 DEF ExpandDone
<1>3. Holds(block, live')
  BY <1>1 DEF HInv
<1>4. QED BY <1>1, <1>2, <1>3, CallMoves DEF ExpandDone

LEMMA KreallocKeeps ==
  ASSUME HInv, NEW p \in DOMAIN live, NEW n \in Sizes, Krealloc(p, n)
  PROVE  HInv'
<1>1. n \in Nat \ {0} /\ call = Idle /\ call.at # "fault"
  BY Constants DEF Krealloc, Idle
<1>2. /\ p \in Nat /\ p # Nil /\ Of(p) \in DOMAIN block /\ live[p] <= block[Of(p)].size
      /\ live[p] \in Nat /\ block[Of(p)].size \in Nat
  <2>1. Chain(block, top) /\ Holds(block, live)
    BY DEF HInv
  <2>2. p \in Nat /\ p # Nil /\ Of(p) \in DOMAIN block /\ live[p] <= block[Of(p)].size
    BY <2>1, HeldBlock
  <2>3. QED BY <2>1, <2>2, BlockFields DEF Holds
<1>3. CASE block[Of(p)].size >= n /\ live' = [live EXCEPT ![p] = n] /\ call' = call
  <2>1. Holds(block, live')
    <3>1. Chain(block, top) /\ Holds(block, live)
      BY DEF HInv
    <3>2. n <= block[Of(p)].size
      BY <1>1, <1>2, <1>3
    <3>3. QED BY <1>1, <1>3, <3>1, <3>2, ResizeHolds
  <2>2. CallKept' /\ ExpansionKept'
    BY <1>1, <1>3, IdleKept
  <2>3. QED BY <1>1, <2>1, <2>2, CallMoves DEF Krealloc
<1>4. CASE /\ block[Of(p)].size < n
           /\ call' = [Idle EXCEPT !.at = "search", !.asked = n, !.old = p]
           /\ live' = live
  <2>1. /\ call' \in [at : {"idle", "search", "expand", "fault"}, asked : Nat, pages : Nat, old : Nat]
        /\ call'.at = "search" /\ call'.asked = n /\ call'.old = p
    BY <1>1, <1>2, <1>4 DEF Idle
  <2>2. live[p] < n
    BY <1>1, <1>2, <1>4
  <2>3. CallKept' /\ ExpansionKept'
    BY <1>1, <1>4, <2>1, <2>2 DEF CallKept, ExpansionKept
  <2>4. Holds(block, live')
    BY <1>4 DEF HInv
  <2>5. QED BY <1>1, <2>3, <2>4, CallMoves DEF Krealloc
<1>5. QED BY <1>3, <1>4 DEF Krealloc


\* The invariant after an action that moves no page and ends a call.
LEMMA ListMoves ==
  ASSUME HInv, UNCHANGED <<head, top, frames, entry>>, DOMAIN block # {},
         Chain(block', top), Packed(block'), Holds(block', live'),
         call' = Idle, call.at # "fault"
  PROVE  HInv'
<1>1. Headed'
  <2>1. top # HeapStart /\ head = HeapStart
    BY EmptyHeap DEF HInv, Headed
  <2>2. QED BY <2>1, StillHeaded
<1>2. CallKept' /\ ExpansionKept'
  BY IdleKept
<1>3. Paged'
  BY DEF HInv, Paged
<1>4. Chain(block', top')
  OBVIOUS
<1>5. QED BY <1>1, <1>2, <1>3, <1>4 DEF HInv

LEMMA KfreeKeeps ==
  ASSUME HInv, NEW p \in DOMAIN live, Kfree(p)
  PROVE  HInv'
<1> DEFINE g == Freed(block, Of(p))
<1>1. Chain(block, top) /\ Packed(block) /\ Holds(block, live)
  BY DEF HInv
<1>2. Of(p) \in DOMAIN block
  BY <1>1, HeldBlock
<1>3. Frees(block, top, Of(p), g)
  BY <1>1, <1>2, FreedList
<1>4. block' = g /\ live' = [q \in DOMAIN live \ {p} |-> live[q]] /\ call = Idle /\ call' = Idle
  BY DEF Kfree
<1> HIDE DEF g
<1>5. Holds(g, live')
  BY <1>1, <1>3, <1>4, FreeHolds
<1>6. Chain(g, top) /\ Packed(g)
  BY <1>3 DEF Frees
<1>7. call.at # "fault" /\ DOMAIN block # {}
  BY <1>2, <1>4 DEF Idle
<1>8. QED BY <1>4, <1>5, <1>6, <1>7, ListMoves DEF Kfree

LEMMA TakeKeeps ==
  ASSUME HInv, Take
  PROVE  HInv'
<1> DEFINE n == call.asked
           k == Aligned(n)
           old == call.old
<1>1. /\ n \in Nat \ {0} /\ k \in Nat /\ k > 0 /\ n <= k /\ call.at = "search"
      /\ call' = Idle /\ old \in Nat
      /\ old # Nil => old \in DOMAIN live
  <2>1. call.at = "search" /\ call' = Idle
    BY DEF Take
  <2>2. n \in Nat \ {0} /\ old \in Nat /\ (old # Nil => old \in DOMAIN live)
    BY <2>1, Known DEF HInv, CallKept
  <2>3. k \in Nat /\ k >= n
    BY <2>2, Requested
  <2>4. QED BY <2>1, <2>2, <2>3
<1>2. Chain(block, top) /\ Packed(block) /\ Holds(block, live)
  BY DEF HInv
<1>3. PICK b \in FirstFit(k) :
        /\ block' = IF old = Nil THEN Taken(block, b, k) ELSE Freed(Taken(block, b, k), Of(old))
        /\ live' = [p \in (DOMAIN live \ {old}) \cup {Ptr(b)} |-> IF p = Ptr(b) THEN n ELSE live[p]]
  BY DEF Take
<1>4. b \in DOMAIN block /\ block[b].free /\ block[b].size >= k
  BY <1>3 DEF FirstFit, Fitting
<1> DEFINE g == Taken(block, b, k)
           M == [p \in DOMAIN live \cup {Ptr(b)} |-> IF p = Ptr(b) THEN n ELSE live[p]]
<1> HIDE DEF n, k, old
<1>5. Takes(block, top, b, k, g)
  BY <1>1, <1>2, <1>4, TakenList
<1> HIDE DEF g
<1>6. Chain(g, top) /\ Packed(g)
  BY <1>5 DEF Takes
<1>7. M = [p \in DOMAIN live \cup {Ptr(b)} |-> IF p = Ptr(b) THEN n ELSE live[p]]
  OBVIOUS
<1> HIDE DEF M
<1>8. Holds(g, M)
  BY <1>1, <1>2, <1>4, <1>5, <1>7, TakeHolds
<1>9. call.at # "fault" /\ DOMAIN block # {}
  BY <1>1, <1>4
<1>10. CASE old = Nil
  <2>1. block' = g
    BY <1>3, <1>10 DEF g
  <2>2. old \notin DOMAIN live
    BY <1>2, <1>10, HeldBlock
  <2>3. live' = M
    BY <1>3, <1>7, <2>2
  <2>4. QED BY <1>1, <1>6, <1>8, <1>9, <2>1, <2>3, ListMoves DEF Take
<1>11. CASE old # Nil
  <2> DEFINE f == Freed(g, Of(old))
  <2>1. block' = f
    BY <1>3, <1>11 DEF g
  <2>2. old \in DOMAIN live /\ old \in DOMAIN M
    BY <1>1, <1>7, <1>11
  <2>3. Of(old) \in DOMAIN g
    BY <1>6, <1>8, <2>2, HeldBlock
  <2>4. Frees(g, top, Of(old), f)
    BY <1>6, <2>3, FreedList
  <2> HIDE DEF f
  <2>5. Ptr(b) # old
    <3>1. Of(Ptr(b)) = b
      BY <1>2, <1>4, BlockFields, Pointers
    <3>2. ~block[Of(old)].free
      BY <1>2, <2>2, HeldBlock
    <3>3. QED BY <1>4, <3>1, <3>2
  <2>6. live' = [p \in DOMAIN M \ {old} |-> M[p]]
    <3>1. (DOMAIN live \ {old}) \cup {Ptr(b)} = DOMAIN M \ {old}
      BY <1>7, <2>5
    <3>2. \A p \in DOMAIN M \ {old} : M[p] = IF p = Ptr(b) THEN n ELSE live[p]
      BY <1>7
    <3>3. QED BY <1>3, <3>1, <3>2
  <2>7. Holds(f, live')
    BY <1>6, <1>8, <2>2, <2>4, <2>6, FreeHolds
  <2>8. Chain(f, top) /\ Packed(f)
    BY <2>4 DEF Frees
  <2>9. QED BY <1>1, <1>9, <2>1, <2>7, <2>8, ListMoves DEF Take
<1>12. QED BY <1>10, <1>11

\* The write of the header of a page that is not mapped.
LEMMA ExpandFaultKeeps ==
  ASSUME HInv, ExpandFault
  PROVE  HInv'
<1>1. /\ frames > 0 /\ call.at = "expand" /\ frames' = Expanded.free
      /\ call' = [call EXCEPT !.at = "fault"] /\ UNCHANGED <<block, head, top, live>>
  BY DEF ExpandFault
<1>2. /\ call' \in [at : {"idle", "search", "expand", "fault"}, asked : Nat, pages : Nat, old : Nat]
      /\ call'.at = "fault" /\ call'.asked = call.asked
  BY <1>1 DEF HInv, CallKept
<1>3. frames' \in Nat
  BY <1>1, ExpandedMaps
<1>4. Paged'
  BY <1>2, <1>3 DEF Paged
<1>5. CallKept' /\ ExpansionKept'
  BY <1>2 DEF HInv, CallKept, ExpansionKept
<1>6. Chain(block', top') /\ Packed(block') /\ Headed' /\ Holds(block', live')
  BY <1>1 DEF HInv, Headed
<1>7. QED BY <1>4, <1>5, <1>6 DEF HInv

LEMMA ExpandPageKeeps ==
  ASSUME HInv, ExpandPage
  PROVE  HInv'
<1>1. /\ call.at = "expand" /\ call.pages > 0 /\ frames > 0
      /\ Expanded.at # NoFrame /\ frames' = Expanded.free /\ entry' = Expanded.entry
      /\ block' = Grown /\ head' = (IF head = Nil THEN top ELSE head)
      /\ top' = top + PageSize /\ live' = live
      /\ call' = [call EXCEPT !.pages = @ - 1]
  BY DEF ExpandPage
<1>2. Chain(block, top) /\ Packed(block) /\ Holds(block, live)
  BY DEF HInv
<1>3. Grows(block')
  BY <1>1, <1>2, Known, GrownList
<1>4. Closes(block, top', block') /\ DOMAIN block' # {}
  BY <1>1, <1>3 DEF Grows
<1>5. Chain(block', top') /\ Packed(block')
  BY <1>4 DEF Closes
<1>6. Holds(block', live')
  BY <1>1, <1>2, <1>4, ClosesHolds
<1>7. Headed'
  <2>1. head' = HeapStart
    <3>1. CASE DOMAIN block = {}
      <4>1. head = Nil /\ top = HeapStart
        BY <1>2, <3>1, Known, EmptyHeap
      <4>2. QED BY <1>1, <4>1
    <3>2. CASE DOMAIN block # {}
      <4>1. head # Nil /\ head = HeapStart
        BY <3>2, Known DEF HInv, Headed
      <4>2. QED BY <1>1, <4>1
    <3>3. QED BY <3>1, <3>2
  <2>2. QED BY <1>4, <2>1 DEF Headed
<1>8. /\ call' \in [at : {"idle", "search", "expand", "fault"}, asked : Nat, pages : Nat, old : Nat]
      /\ call'.at = "expand" /\ call'.asked = call.asked /\ call'.old = call.old
      /\ call'.pages = call.pages - 1
  BY <1>1 DEF HInv, CallKept
<1>9. CallKept'
  BY <1>1, <1>8 DEF HInv, CallKept
<1>10. ExpansionKept'
  <2> DEFINE a == Batch(call.asked) - call.pages
  <2>1. SUFFICES ASSUME call.asked > 0 PROVE ExpansionKept'
    BY <1>8 DEF ExpansionKept
  <2>2. a \in Nat
    BY <1>1, <2>1, Known, Requested DEF HInv, ExpansionKept
  <2>3. PICK b \in DOMAIN block' :
          /\ block'[b].free /\ End(block', b) = top'
          /\ block'[b].size + Header >= PageSize
          /\ \A c \in DOMAIN block :
               block[c].free /\ End(block, c) = top => block'[b].size >= block[c].size + PageSize
    BY <1>1, <1>3 DEF Grows
  <2>4. block'[b].size \in Nat
    BY <1>5, BlockFields
  <2>5. (a + 1) * PageSize = a * PageSize + PageSize /\ a * PageSize \in Nat
    BY <2>2, Constants
  <2>6. block'[b].size + Header >= (a + 1) * PageSize
    <3>1. CASE a = 0
      BY <2>3, <2>4, <3>1, Constants
    <3>2. CASE a > 0
      <4>1. PICK c \in DOMAIN block : /\ block[c].free /\ End(block, c) = top
                                      /\ block[c].size + Header >= a * PageSize
        BY <1>1, <2>1, <3>2 DEF HInv, ExpansionKept
      <4>2. block[c].size \in Nat /\ block'[b].size >= block[c].size + PageSize
        BY <1>2, <2>3, <4>1, BlockFields
      <4>3. QED BY <2>2, <2>4, <2>5, <4>1, <4>2, Constants
    <3>3. QED BY <2>2, <3>1, <3>2
  <2>7. Batch(call'.asked) - call'.pages = a + 1
    <3>1. call.asked \in Nat \ {0} /\ call.pages \in Nat
      BY <2>1, Known
    <3>2. Batch(call.asked) \in Nat
      BY <3>1, Requested
    <3>3. QED BY <1>8, <3>1, <3>2
  <2>8. a + 1 >= 0 /\ a + 1 # 0
    BY <2>2
  <2> HIDE DEF a
  <2>9. QED BY <2>3, <2>6, <2>7, <2>8 DEF ExpansionKept
<1>11. Paged'
  <2> DEFINE z == top \div PageSize
  <2>1. top = PageSize * z /\ z + frames <= Reach[Levels]
    BY <1>1 DEF HInv, Paged
  <2>2. /\ PageSize \in Nat \ {0} /\ top \in Nat /\ z \in Nat /\ frames \in Nat
        /\ Reach[Levels] \in Nat
    <3>1. PageSize \in Nat \ {0} /\ top \in Nat /\ frames \in Nat
      BY Known, Constants
    <3>2. Reach[Levels] \in Nat
      BY PagingAssumption, ReachDef
    <3>3. QED BY <3>1, <3>2
  <2>3. top' \div PageSize = z + 1 /\ top' = PageSize * (z + 1)
    <3>1. top' \in Nat /\ top' = PageSize * (z + 1) + 0 /\ 0 \in 0..(PageSize - 1) /\ z + 1 \in Nat
      BY <1>1, <2>1, <2>2
    <3> HIDE DEF z
    <3>2. top' \div PageSize = z + 1
      BY <2>2, <3>1, DivisionUnique
    <3>3. QED BY <2>2, <3>1, <3>2
  <2>4. /\ frames' \in Nat /\ frames' < frames
        /\ Tree(entry', MappedTo(z) \X (1..Levels))
        /\ \E last \in Nat : frames' <= last /\ Values(entry') = (frames' + 1)..last
    BY <1>1, ExpandedMaps
  <2> HIDE DEF z
  <2>5. (z + 1) - 1 = z /\ z + 1 + frames' <= Reach[Levels]
    BY <2>1, <2>2, <2>4
  <2>6. QED BY <2>3, <2>4, <2>5 DEF Paged
<1>12. QED BY <1>5, <1>6, <1>7, <1>9, <1>10, <1>11 DEF HInv

LEMMA NextHolds ==
  ASSUME HInv, [Next]_vars
  PROVE  HInv'
<1>1. CASE Next
  BY <1>1, ExpandPageKeeps, ExpandFaultKeeps, ExpandDoneKeeps, TakeKeeps, NothingFitsKeeps,
     KmallocKeeps, KfreeKeeps, KreallocKeeps DEF Next, Step
<1>2. CASE UNCHANGED vars
  BY <1>2 DEF vars, HInv, Headed, CallKept, ExpansionKept, Fitting, Paged
<1>3. QED BY <1>1, <1>2


\* The invariant holds always.
THEOREM HeapInvariant == Spec => []HInv
BY InitHolds, NextHolds, PTL DEF Spec

-----------------------------------------------------------------------------
(* What follows from it.                                                   *)

\* The list of blocks.
LEMMA TiledAlways ==
  ASSUME HInv
  PROVE  Tiled
<1>1. Chain(block, top) /\ Headed
  BY DEF HInv
<1>2. head = IF block = [b \in {} |-> Nil] THEN Nil ELSE HeapStart
  <2>1. DOMAIN [b \in {} |-> Nil] = {}
    OBVIOUS
  <2>2. CASE DOMAIN block = {}
    BY <1>1, <2>2 DEF Headed
  <2>3. CASE DOMAIN block # {}
    BY <1>1, <2>1, <2>3 DEF Headed
  <2>4. QED BY <2>2, <2>3
<1>3. head = Nil => top = HeapStart
  BY <1>1, Known, EmptyHeap
<1>4. head # Nil => head \in DOMAIN block /\ block[head].prev = Nil
  <2>1. SUFFICES ASSUME head # Nil
                 PROVE  head \in DOMAIN block /\ block[head].prev = Nil
    OBVIOUS
  <2>2. DOMAIN block # {} /\ head = HeapStart
    BY <1>1, <2>1, Known DEF Headed
  <2>3. HeapStart \in DOMAIN block
    BY <1>1, <2>2 DEF Chain, Placed
  <2>4. QED BY <1>1, <2>2, <2>3, PrevBlock
<1>5. ASSUME NEW b \in DOMAIN block
      PROVE  /\ block[b].size > 0
             /\ block[b].next = IF End(block, b) = top THEN Nil ELSE End(block, b)
             /\ End(block, b) # top =>
                  End(block, b) \in DOMAIN block /\ block[End(block, b)].prev = b
  <2>1. /\ block[b].size > 0
        /\ block[b].next = IF End(block, b) = top THEN Nil ELSE End(block, b)
        /\ End(block, b) # top => End(block, b) \in DOMAIN block
    BY <1>1 DEF Chain, Shaped, Forward
  <2>2. End(block, b) # top => block[End(block, b)].prev = b
    BY <1>1, NextBlock
  <2>3. QED BY <2>1, <2>2
<1>6. QED BY <1>2, <1>3, <1>4, <1>5 DEF Tiled

LEMMA TypedAlways ==
  ASSUME HInv
  PROVE  Typed
<1>1. Chain(block, top) /\ Headed /\ Holds(block, live) /\ CallKept
  BY DEF HInv
<1>2. DOMAIN block \subseteq Nat \ {Nil} /\ \A b \in DOMAIN block : block[b] \in BlockType
  BY <1>1 DEF Chain, Shaped
<1>3. head \in DOMAIN block \cup {Nil}
  <2>1. DOMAIN block # {} => HeapStart \in DOMAIN block
    BY <1>1 DEF Chain, Placed
  <2>2. CASE DOMAIN block = {}
    BY <2>2, Known
  <2>3. CASE DOMAIN block # {}
    BY <1>1, <2>1, <2>3 DEF Headed
  <2>4. QED BY <2>2, <2>3
<1>4. DOMAIN live \subseteq Nat /\ \A p \in DOMAIN live : live[p] \in Nat \ {0}
  BY <1>1 DEF Holds
<1>5. QED BY <1>1, <1>2, <1>3, <1>4, Known DEF Typed, CallKept

\* Through every sequence of kmalloc, kfree, krealloc and heap_expand the blocks tile the
\* heap, no two free ones are neighbours, and the used ones are those of the clients.
THEOREM HeapWellFormed == Spec => []WellFormed
<1>1. ASSUME HInv PROVE WellFormed
  <2>1. Typed /\ Tiled
    BY <1>1, TypedAlways, TiledAlways
  <2>2. Coalesced
    BY <1>1 DEF HInv, Packed, Apart, Coalesced
  <2>3. Owned
    BY <1>1 DEF HInv, Holds, Used, Owned
  <2>4. QED BY <2>1, <2>2, <2>3 DEF WellFormed
<1>2. QED BY <1>1, HeapInvariant, PTL

\* When heap_expand could add all its pages, the second search of kmalloc finds a block.
THEOREM HeapExpansionSuffices == Spec => []ExpansionSuffices
<1>1. ASSUME HInv PROVE ExpansionSuffices
  <2> DEFINE n == call.asked
             k == Aligned(n)
  <2>1. SUFFICES ASSUME call.at = "expand", call.pages = 0, n > 0
                 PROVE  Fitting(k) # {}
    BY DEF ExpansionSuffices
  <2>2. n \in Nat \ {0}
    BY <1>1, <2>1, Known
  <2>3. k \in Nat /\ Batch(n) \in Nat \ {0} /\ Batch(n) * PageSize >= k + Header
    BY <2>2, Requested
  <2>4. Batch(n) - call.pages = Batch(n) /\ Batch(n) > 0
    BY <2>1, <2>3
  <2>5. PICK b \in DOMAIN block :
          block[b].free /\ block[b].size + Header >= Batch(n) * PageSize
    BY <1>1, <2>1, <2>4 DEF HInv, ExpansionKept
  <2>6. block[b].size \in Nat
    BY <1>1, BlockFields DEF HInv
  <2>7. Batch(n) * PageSize \in Nat
    BY <2>3, Constants
  <2> HIDE DEF k
  <2>8. block[b].size >= k
    BY <2>3, <2>5, <2>6, <2>7, Constants
  <2>9. QED BY <2>5, <2>8 DEF Fitting
<1>2. QED BY <1>1, HeapInvariant, PTL

\* heap_expand is called only when no gap between the clients' blocks would do.
THEOREM HeapGrowsOnlyWhenFull == Spec => []GrowsOnlyWhenFull
<1>1. ASSUME HInv PROVE GrowsOnlyWhenFull
  <2> DEFINE n == call.asked
             k == Aligned(n)
  <2>1. SUFFICES ASSUME call.at = "expand", call.pages = Batch(n), n > 0, Gap(Header + k)
                 PROVE  FALSE
    BY DEF GrowsOnlyWhenFull
  <2>2. n \in Nat \ {0} /\ top \in Nat /\ HeapStart \in Nat
    BY <1>1, <2>1, Known
  <2>3. k \in Nat /\ k > 0 /\ Batch(n) \in Nat
    BY <2>2, Requested
  <2>4. Fitting(k) = {}
    <3>1. Batch(n) - call.pages = 0
      BY <2>1, <2>3
    <3>2. QED BY <1>1, <2>1, <3>1 DEF HInv, ExpansionKept
  <2> HIDE DEF k
  <2>5. PICK a \in HeapStart..(top - 1) :
          a..(a + (Header + k) - 1) \subseteq (HeapStart..(top - 1)) \ Occupied
    BY <2>1 DEF Gap
  <2>6. Chain(block, top) /\ Packed(block) /\ Holds(block, live)
    BY <1>1 DEF HInv
  <2>7. ASSUME NEW x \in DOMAIN block, ~block[x].free, NEW y \in Int, x <= y, y < End(block, x)
        PROVE  y \in Occupied
    <3>1. x \in Used(block) /\ x \in Nat /\ End(block, x) \in Nat
      BY <2>6, <2>7, BlockFields DEF Used
    <3>2. Ptr(x) \in DOMAIN live /\ Of(Ptr(x)) = x
      BY <2>6, <3>1, Pointers DEF Holds
    <3>3. y \in x..(End(block, x) - 1)
      BY <2>7, <3>1
    <3>4. QED BY <3>2, <3>3 DEF Occupied
  <2>8. PICK b \in DOMAIN block : b <= a /\ a < End(block, b)
    BY <2>2, <2>5, <2>6, Covered
  <2>9. /\ b \in Nat /\ block[b].size \in Nat /\ End(block, b) \in Nat
        /\ End(block, b) = b + Header + block[b].size /\ Header \in Nat
    BY <2>6, BlockFields
  <2>10. a \notin Occupied
    BY <2>2, <2>3, <2>5, <2>9
  <2>11. block[b].free
    BY <2>2, <2>7, <2>8, <2>10
  <2>12. block[b].size < k
    BY <2>3, <2>4, <2>9, <2>11 DEF Fitting
  <2>13. End(block, b) \in a..(a + (Header + k) - 1)
    BY <2>2, <2>3, <2>8, <2>9, <2>12
  <2>14. End(block, b) # top /\ End(block, b) \notin Occupied
    BY <2>2, <2>5, <2>13
  <2>15. block[b].next # Nil /\ block[b].next \in DOMAIN block /\ block[b].next = End(block, b)
    BY <2>6, <2>14, NextBlock
  <2>16. ~block[End(block, b)].free
    BY <2>6, <2>11, <2>15 DEF Packed, Apart
  <2>17. End(block, b) < End(block, End(block, b))
    BY <2>6, <2>15, EndsDiffer
  <2>18. QED BY <2>7, <2>9, <2>14, <2>15, <2>16, <2>17
<1>2. QED BY <1>1, HeapInvariant, PTL


\* The number of entries is that of the frames they lead to.
LEMMA EntriesCounted ==
  ASSUME NEW e, NEW S, Tree(e, S), NEW n \in Nat, NEW last \in Nat, n <= last,
         Values(e) = (n + 1)..last
  PROVE  Cardinality(DOMAIN e) = last - n
<1>1. e \in [DOMAIN e -> Values(e)]
  <2>1. e = [x \in DOMAIN e |-> e[x]]
    BY EntriesType DEF Tree
  <2>2. QED BY <2>1 DEF Values
<1>2. e \in Injection(DOMAIN e, Values(e))
  BY <1>1 DEF Tree, Injection, IsInjective
<1>3. e \in Surjection(DOMAIN e, Values(e))
  BY <1>1 DEF Values, Surjection
<1>4. IsFiniteSet(Values(e)) /\ Cardinality(Values(e)) = last - n
  <2> DEFINE a == n + 1
  <2>1. a \in Int /\ last \in Int
    OBVIOUS
  <2>2. /\ IsFiniteSet(a..last)
        /\ Cardinality(a..last) = IF a > last THEN 0 ELSE last - a + 1
    <3> HIDE DEF a
    <3>1. QED BY <2>1, FS_Interval
  <2>3. Cardinality(a..last) = last - n
    <3>1. CASE a > last
      BY <2>2, <3>1
    <3>2. CASE ~(a > last)
      BY <2>2, <3>2
    <3>3. QED BY <3>1, <3>2
  <2>4. QED BY <2>2, <2>3
<1>5. IsFiniteSet(DOMAIN e)
  BY <1>2, <1>4, FS_Injection
<1>6. Cardinality(Values(e)) = Cardinality(DOMAIN e)
  BY <1>2, <1>3, <1>5, FS_Surjection
<1>7. QED BY <1>4, <1>6

\* The pages of the heap and the kernel's and no others are mapped, each to a frame of its own,
\* and every frame that was taken is in use as a page or as a table.
THEOREM HeapPagesMapped == Spec => []HeapMapped
<1>1. ASSUME HInv PROVE HeapMapped
  <2> DEFINE q == HeapStart \div PageSize
             z == top \div PageSize
             M == MappedTo(z - 1)
  <2>1. SUFFICES ASSUME call.at # "fault"
                 PROVE  /\ \A page \in 0..(Reach[Levels] - 1) :
                             Translate(entry, page) # NoFrame
                               <=> \/ page * PageSize \in HeapStart..(top - 1)
                                   \/ page = KernelPage
                        /\ \A e, f \in DOMAIN entry : entry[e] = entry[f] => e = f
                        /\ {entry[e] : e \in DOMAIN entry} =
                             (frames + 1)..(frames + Cardinality(DOMAIN entry))
    BY DEF HeapMapped
  <2>2. /\ top = PageSize * z /\ z + frames <= Reach[Levels] /\ frames \in Nat
        /\ Tree(entry, M \X (1..Levels))
    BY <1>1, <2>1 DEF HInv, Paged
  <2>3. PICK last \in Nat : frames <= last /\ Values(entry) = (frames + 1)..last
    BY <1>1, <2>1 DEF HInv, Paged
  <2>4. /\ PageSize \in Nat \ {0} /\ HeapStart \in Nat /\ top \in Nat
        /\ HeapStart % PageSize = 0
    BY <1>1, Known, Constants, GeometryAssumption
  <2>5. q \in Nat /\ z \in Nat /\ HeapStart = PageSize * q
    BY <2>4
  <2>6. Reach[Levels] \in Nat
    BY PagingAssumption, ReachDef
  <2> HIDE DEF q, z
  <2>7. M \in SUBSET Pages /\ M = q..(z - 1) \cup {KernelPage}
    <3>1. M = q..(z - 1) \cup {KernelPage}
      BY DEF MappedTo, q
    <3>2. M \X (1..Levels) \subseteq Pages \X (1..Levels)
      BY <2>2 DEF Tree
    <3>3. 1 \in 1..Levels
      BY PagingAssumption
    <3> HIDE DEF M
    <3>4. ASSUME NEW page \in M PROVE page \in Pages
      <4>1. <<page, 1>> \in Pages \X (1..Levels)
        BY <3>2, <3>3
      <4>2. QED BY <4>1
    <3>5. QED BY <3>1, <3>4
  <2> HIDE DEF M
  <2>8. ASSUME NEW page \in Pages
        PROVE  Translate(entry, page) # NoFrame
                 <=> page * PageSize \in HeapStart..(top - 1) \/ page = KernelPage
    <3>1. Translate(entry, page) # NoFrame <=> page \in M
      BY <2>2, <2>7, Translated
    <3>2. page \in Nat /\ page * PageSize = PageSize * page
      BY <2>4, <2>6 DEF Pages
    <3>3. q <= page <=> PageSize * q <= PageSize * page
      <4>1. q <= page => PageSize * q <= PageSize * page
        BY <2>4, <2>5, <3>2
      <4>2. ASSUME page < q PROVE PageSize * page < PageSize * q
        BY <2>4, <2>5, <3>2, <4>2
      <4>3. PageSize * q \in Nat /\ PageSize * page \in Nat
        BY <2>4, <2>5, <3>2
      <4>4. QED BY <2>5, <3>2, <4>1, <4>2, <4>3
    <3>4. page < z <=> PageSize * page < PageSize * z
      <4>1. z <= page => PageSize * z <= PageSize * page
        BY <2>4, <2>5, <3>2
      <4>2. ASSUME page < z PROVE PageSize * page < PageSize * z
        BY <2>4, <2>5, <3>2, <4>2
      <4>3. PageSize * z \in Nat /\ PageSize * page \in Nat
        BY <2>4, <2>5, <3>2
      <4>4. QED BY <2>5, <3>2, <4>1, <4>2, <4>3
    <3>5. PageSize * q \in Int /\ PageSize * z \in Int /\ PageSize * page \in Int
      BY <2>4, <2>5, <3>2
    <3>6. page * PageSize \in HeapStart..(top - 1) <=> page \in q..(z - 1)
      BY <2>2, <2>4, <2>5, <3>2, <3>3, <3>4, <3>5
    <3>7. QED BY <2>7, <3>1, <3>6
  <2>9. \A e, f \in DOMAIN entry : entry[e] = entry[f] => e = f
    BY <2>2 DEF Tree
  <2>10. {entry[e] : e \in DOMAIN entry} = (frames + 1)..(frames + Cardinality(DOMAIN entry))
    <3>1. Cardinality(DOMAIN entry) = last - frames
      BY <2>2, <2>3, EntriesCounted
    <3>2. frames + (last - frames) = last
      BY <2>2, <2>3
    <3>3. QED BY <2>3, <3>1, <3>2 DEF Values
  <2>11. QED BY <2>8, <2>9, <2>10 DEF Pages
<1>2. QED BY <1>1, HeapInvariant, PTL

-----------------------------------------------------------------------------
(* The pool of memory the clients see.                                     *)

\* What a block holds lies in the pool, clear of what the other blocks hold.
LEMMA BlocksClear ==
  ASSUME HInv, NEW b \in DOMAIN block, NEW n \in Nat \ {0}, n <= block[b].size
  PROVE  /\ Ptr(b) \in HeapStart..(top - 1)
         /\ Pool!Clear(Ptr(b), n, DOMAIN live \ {Ptr(b)})
<1>1. Chain(block, top) /\ Holds(block, live)
  BY DEF HInv
<1>2. /\ b \in Nat /\ block[b].size \in Nat /\ End(block, b) \in Nat /\ End(block, b) <= top
      /\ End(block, b) = b + Header + block[b].size /\ top \in Nat /\ HeapStart \in Nat
      /\ HeapStart <= b /\ Header \in Nat /\ Header > 0
  BY <1>1, BlockFields, Constants
<1>3. Ptr(b) = b + Header
  BY DEF Ptr
<1>4. Pool!Extent(Ptr(b), n) \subseteq HeapStart..(top - 1)
  BY <1>2, <1>3 DEF Pool!Extent
<1>5. ASSUME NEW q \in DOMAIN live \ {Ptr(b)}
      PROVE  Pool!Extent(Ptr(b), n) \cap Pool!Extent(q, live[q]) = {}
  <2> DEFINE c == Of(q)
  <2>1. /\ q = Ptr(c) /\ c \in DOMAIN block /\ c # b /\ live[q] <= block[c].size
        /\ live[q] \in Nat
    BY <1>1, <1>5, HeldBlock DEF Holds
  <2> HIDE DEF c
  <2>2. /\ c \in Nat /\ block[c].size \in Nat /\ End(block, c) \in Nat
        /\ End(block, c) = c + Header + block[c].size
    BY <1>1, <2>1, BlockFields
  <2>3. q = c + Header
    BY <2>1 DEF Ptr
  <2>4. b < c => End(block, b) <= c
    BY <1>1, <2>1, EndsDiffer
  <2>5. c < b => End(block, c) <= b
    BY <1>1, <2>1, EndsDiffer
  <2>6. b < c \/ c < b
    BY <1>2, <2>1, <2>2
  <2>7. QED BY <1>2, <1>3, <2>1, <2>2, <2>3, <2>4, <2>5, <2>6 DEF Pool!Extent
<1>6. QED BY <1>2, <1>3, <1>4, <1>5 DEF Pool!Clear

LEMMA TakeAllocates ==
  ASSUME HInv, Take
  PROVE  \E p \in HeapStart..(top - 1), n \in Sizes : Pool!Allocate(p, n)
<1> DEFINE n == call.asked
           k == Aligned(n)
           old == call.old
<1>1. /\ n \in Nat \ {0} /\ n \in Sizes /\ k \in Nat /\ n <= k /\ old \in Nat
      /\ old # Nil => old \in DOMAIN live /\ live[old] < n
  <2>1. call.at = "search"
    BY DEF Take
  <2>2. /\ n \in Nat \ {0} /\ n \in Sizes /\ old \in Nat
        /\ old # Nil => old \in DOMAIN live /\ live[old] < n
    BY <2>1, Known DEF HInv, CallKept
  <2>3. k \in Nat /\ k >= n
    BY <2>2, Requested
  <2>4. QED BY <2>2, <2>3
<1>2. Chain(block, top) /\ Holds(block, live)
  BY DEF HInv
<1>3. PICK b \in FirstFit(k) :
        live' = [p \in (DOMAIN live \ {old}) \cup {Ptr(b)} |-> IF p = Ptr(b) THEN n ELSE live[p]]
  BY DEF Take
<1>4. b \in DOMAIN block /\ block[b].free /\ block[b].size >= k
  BY <1>3 DEF FirstFit, Fitting
<1> HIDE DEF n, k, old
<1>5. block[b].size \in Nat /\ Of(Ptr(b)) = b
  BY <1>2, <1>4, BlockFields, Pointers
<1>6. Ptr(b) \notin DOMAIN live
  BY <1>2, <1>4, <1>5, HeldBlock
<1>7. n <= block[b].size
  BY <1>1, <1>4, <1>5
<1>8. Ptr(b) \in HeapStart..(top - 1) /\ Pool!Clear(Ptr(b), n, DOMAIN live)
  <2>1. DOMAIN live \ {Ptr(b)} = DOMAIN live
    BY <1>6
  <2>2. /\ Ptr(b) \in HeapStart..(top - 1)
        /\ Pool!Clear(Ptr(b), n, DOMAIN live \ {Ptr(b)})
    BY <1>1, <1>4, <1>7, BlocksClear
  <2>3. QED BY <2>1, <2>2
<1>9. live' = Pool!With(Ptr(b), n, DOMAIN live \ {old})
  BY <1>3 DEF Pool!With
<1>10. (HeapStart..(top - 1))' = HeapStart..(top - 1)
  BY DEF Take
<1>11. Pool!Allocate(Ptr(b), n)
  <2>1. CASE old = Nil
    <3>1. old \notin DOMAIN live
      BY <1>2, <2>1, HeldBlock
    <3>2. live' = Pool!With(Ptr(b), n, DOMAIN live)
      <4>1. DOMAIN live \ {old} = DOMAIN live
        BY <3>1
      <4>2. QED BY <1>9, <4>1
    <3>3. QED BY <1>6, <1>8, <1>10, <3>2 DEF Pool!Allocate
  <2>2. CASE old # Nil
    <3>1. old \in DOMAIN live /\ n > live[old]
      BY <1>1, <1>2, <2>2 DEF Holds
    <3>2. QED BY <1>6, <1>8, <1>9, <1>10, <3>1 DEF Pool!Allocate
  <2>3. QED BY <2>1, <2>2
<1>12. QED BY <1>1, <1>8, <1>11

LEMMA StepPools ==
  ASSUME HInv, [Next]_vars
  PROVE  [Pool!Next]_(Pool!poolVars)
<1> USE DEF Pool!poolVars
<1>1. CASE ExpandPage
  <2>1. HeapStart..(top - 1) \subseteq (HeapStart..(top - 1))' /\ live' = live
    BY <1>1, Known, Constants DEF ExpandPage
  <2>2. QED BY <2>1 DEF Pool!Next, Pool!Extend
<1>2. CASE ExpandFault \/ ExpandDone \/ NothingFits \/ \E n \in Sizes : Kmalloc(n)
  BY <1>2 DEF ExpandFault, ExpandDone, NothingFits, Kmalloc
<1>3. CASE Take
  BY <1>3, TakeAllocates DEF Pool!Next
<1>4. ASSUME NEW p \in DOMAIN live, Kfree(p)
      PROVE  Pool!Next
  BY <1>4 DEF Kfree, Pool!Next, Pool!Release
<1>5. ASSUME NEW p \in DOMAIN live, NEW n \in Sizes, Krealloc(p, n)
      PROVE  Pool!Next \/ UNCHANGED Pool!poolVars
  <2>1. n \in Nat \ {0} /\ top' = top
    BY <1>5, Constants DEF Krealloc
  <2>2. CASE block[Of(p)].size >= n /\ live' = [live EXCEPT ![p] = n]
    <3>1. Chain(block, top) /\ Holds(block, live)
      BY DEF HInv
    <3>2. Of(p) \in DOMAIN block /\ p = Ptr(Of(p)) /\ block[Of(p)].size \in Nat
      BY <3>1, HeldBlock, BlockFields
    <3>3. p \in HeapStart..(top - 1) /\ Pool!Clear(p, n, DOMAIN live \ {p})
      <4>1. n <= block[Of(p)].size
        BY <2>1, <2>2, <3>2
      <4>2. QED BY <2>1, <3>2, <4>1, BlocksClear
    <3>4. live' = Pool!With(p, n, DOMAIN live)
      BY <2>2 DEF Pool!With
    <3>5. Pool!ResizeInPlace(p, n)
      BY <2>1, <3>3, <3>4 DEF Pool!ResizeInPlace
    <3>6. QED BY <3>3, <3>5 DEF Pool!Next
  <2>3. CASE live' = live
    BY <2>1, <2>3
  <2>4. QED BY <1>5, <2>2, <2>3 DEF Krealloc
<1>6. CASE UNCHANGED vars
  BY <1>6 DEF vars
<1>7. QED BY <1>1, <1>2, <1>3, <1>4, <1>5, <1>6 DEF Next, Step

\* The heap implements the pool: what a client has lies in the heap and overlaps nothing
\* else a client has.
THEOREM HeapIsPool == Spec => IsPool
<1>1. Init => Pool!Init
  BY Constants DEF Init, Pool!Init
<1>2. QED BY <1>1, StepPools, HeapInvariant, PTL DEF Spec, IsPool, Pool!Spec

=============================================================================
