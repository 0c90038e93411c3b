----------------------- MODULE LinkedListAllocatorProofs -----------------------
(***************************************************************************)
(* Proofs about the heap allocator of LinkedListAllocator.tla, for every   *)
(* heap start and size and every set of Layout sizes and alignments.       *)
(*                                                                         *)
(* FreeRegionsHoldNode is not inductive on its own: a region pushed by     *)
(* alloc is the excess of a region taken from the list, and the start of a *)
(* block given back by dealloc comes from live.  IInv adds what those      *)
(* steps read: every region on the list is a region of naturals that can   *)
(* hold a ListNode, and every live block has a natural start and a Layout. *)
(***************************************************************************)
EXTENDS LinkedListAllocator, SequenceTheorems, TLAPS

\* The regions add_free_region accepts: big enough for a ListNode.
NodeRegion == {r \in Region : r.size >= NodeSize}

\* The inductive invariant.
IInv ==
    /\ free \in Seq(NodeRegion)
    /\ live \subseteq [start : Nat, layout : Layout]

-----------------------------------------------------------------------------

\* Every alignment a Layout may ask for is a positive natural.
LEMMA AlignsPositive == \A a \in Aligns : a \in Nat \ {0}
BY AllocatorAssumption

\* align_up of a natural address to a positive alignment is a natural
\* address at or above it.
LEMMA AlignUpNat ==
    ASSUME NEW addr \in Nat, NEW align \in Nat \ {0}
    PROVE  AlignUp(addr, align) \in Nat
BY SMT DEF AlignUp

\* size_align keeps the Layout's alignment and returns a size that can hold
\* a ListNode: its `.max(mem::size_of::<ListNode>())`.
LEMMA SizeAlignType ==
    ASSUME NEW l \in Layout
    PROVE  /\ SizeAlign(l).align = l.align
           /\ SizeAlign(l).align \in Nat \ {0}
           /\ SizeAlign(l).size \in Nat
           /\ SizeAlign(l).size >= NodeSize
<1>1. l.align \in Nat \ {0} /\ l.size \in Nat
  BY AlignsPositive, AllocatorAssumption DEF Layout
<1>2. AlignUp(l.size, l.align) \in Nat
  BY <1>1, AlignUpNat
<1> QED
  BY <1>1, <1>2 DEF SizeAlign, NodeAlign, NodeSize

\* Unlinking a region keeps a list of elements of T a list of elements of T.
LEMMA UnlinkType ==
    ASSUME NEW T, NEW s \in Seq(T), NEW i \in 1..Len(s)
    PROVE  Unlink(s, i) \in Seq(T)
<1>1. SubSeq(s, 1, i - 1) \in Seq(T)
  BY SubSeqProperties, ElementOfSeq
<1>2. SubSeq(s, i + 1, Len(s)) \in Seq(T)
  BY SubSeqProperties, ElementOfSeq
<1> QED
  BY <1>1, <1>2, ConcatProperties DEF Unlink

\* Pushing an element of T keeps a list of elements of T.
LEMMA AddFreeRegionType ==
    ASSUME NEW T, NEW s \in Seq(T), NEW addr, NEW size,
           [start |-> addr, size |-> size] \in T
    PROVE  AddFreeRegion(s, addr, size) \in Seq(T)
<1>1. <<[start |-> addr, size |-> size]>> \in Seq(T)
  OBVIOUS
<1> QED
  BY <1>1, ConcatProperties DEF AddFreeRegion

-----------------------------------------------------------------------------
(***************************************************************************)
(* Lemmas for NoOverlap: what Unlink and AddFreeRegion do to the indices   *)
(* of the list, what align_up returns, and that a range inside another     *)
(* one is apart from whatever that one is apart from.                      *)
(***************************************************************************)

\* The index in s of the k-th region of Unlink(s, i).
UnlinkIdx(i, k) == IF k < i THEN k ELSE k + 1

\* Unlink(s, i) is s without position i, in order.
LEMMA UnlinkIndices ==
    ASSUME NEW T, NEW s \in Seq(T), NEW i \in 1..Len(s)
    PROVE  /\ Len(Unlink(s, i)) = Len(s) - 1
           /\ \A k \in 1..Len(s) - 1 :
                 /\ UnlinkIdx(i, k) \in 1..Len(s) \ {i}
                 /\ Unlink(s, i)[k] = s[UnlinkIdx(i, k)]
           /\ \A j, k \in 1..Len(s) - 1 :
                 j # k => UnlinkIdx(i, j) # UnlinkIdx(i, k)
<1> DEFINE lo == SubSeq(s, 1, i - 1)
           hi == SubSeq(s, i + 1, Len(s))
<1>1. /\ lo \in Seq(T) /\ Len(lo) = i - 1
      /\ \A k \in 1..i - 1 : lo[k] = s[k]
  BY SubSeqProperties, ElementOfSeq
<1>2. /\ hi \in Seq(T) /\ Len(hi) = Len(s) - i
      /\ \A k \in 1..Len(s) - i : hi[k] = s[i + k]
  BY SubSeqProperties, ElementOfSeq
<1>3. Unlink(s, i) = lo \o hi
  BY DEF Unlink
<1> HIDE DEF lo, hi
<1>4. /\ Len(lo \o hi) = Len(s) - 1
      /\ \A k \in 1..Len(s) - 1 : (lo \o hi)[k] = s[UnlinkIdx(i, k)]
  <2>1. /\ Len(lo \o hi) = Len(lo) + Len(hi)
        /\ \A k \in 1..Len(lo) + Len(hi) :
              (lo \o hi)[k] = IF k <= Len(lo) THEN lo[k] ELSE hi[k - Len(lo)]
    BY <1>1, <1>2, ConcatProperties
  <2>2. Len(lo) + Len(hi) = Len(s) - 1
    BY <1>1, <1>2
  <2>3. ASSUME NEW k \in 1..Len(s) - 1
        PROVE  (lo \o hi)[k] = s[UnlinkIdx(i, k)]
    <3>1. (lo \o hi)[k] = IF k <= i - 1 THEN lo[k] ELSE hi[k - (i - 1)]
      BY <1>1, <2>1, <2>2
    <3>2. CASE k < i
      BY <1>1, <3>1, <3>2 DEF UnlinkIdx
    <3>3. CASE ~(k < i)
      <4>1. k - (i - 1) \in 1..Len(s) - i /\ i + (k - (i - 1)) = k + 1
        BY <3>3
      <4> QED
        BY <1>2, <3>1, <3>3, <4>1 DEF UnlinkIdx
    <3> QED
      BY <3>2, <3>3
  <2> QED
    BY <2>1, <2>2, <2>3
<1>5. /\ \A k \in 1..Len(s) - 1 : UnlinkIdx(i, k) \in 1..Len(s) \ {i}
      /\ \A j, k \in 1..Len(s) - 1 :
            j # k => UnlinkIdx(i, j) # UnlinkIdx(i, k)
  BY DEF UnlinkIdx
<1> QED
  BY <1>3, <1>4, <1>5

\* add_free_region puts the new region at index 1 and shifts the rest.
LEMMA PushIndices ==
    ASSUME NEW T, NEW s \in Seq(T), NEW x \in T
    PROVE  /\ Len(<<x>> \o s) = Len(s) + 1
           /\ (<<x>> \o s)[1] = x
           /\ \A k \in 2..Len(s) + 1 : (<<x>> \o s)[k] = s[k - 1]
BY ConcatProperties

\* align_up to an alignment of a Layout: the least multiple of the
\* alignment at or above the address.
LEMMA AlignUpFacts ==
    ASSUME NEW addr \in Nat, NEW align \in {1, 2, 4, 8, 16}
    PROVE  /\ AlignUp(addr, align) \in Nat
           /\ addr <= AlignUp(addr, align)
           /\ AlignUp(addr, align) % align = 0
<1>1. CASE align = 1
  BY <1>1 DEF AlignUp
<1>2. CASE align = 2
  BY <1>2, SMT DEF AlignUp
<1>3. CASE align = 4
  BY <1>3, SMT DEF AlignUp
<1>4. CASE align = 8
  BY <1>4, SMT DEF AlignUp
<1>5. CASE align = 16
  BY <1>5, SMT DEF AlignUp
<1> QED
  BY <1>1, <1>2, <1>3, <1>4, <1>5

\* A range inside r is apart from every range r is apart from.
LEMMA ApartInside ==
    ASSUME NEW r \in Region, NEW s \in Region, NEW t \in Region,
           r.start <= s.start, End(s) <= End(r), Apart(r, t)
    PROVE  Apart(s, t) /\ Apart(t, s)
BY DEF Apart, End, Region

-----------------------------------------------------------------------------
(***************************************************************************)
(* The inductive invariant behind NoOverlap.  NoOverlap speaks of the      *)
(* pieces of memory as a whole; alloc and dealloc move one piece between   *)
(* the list and the live set, so the proof needs the same facts for every  *)
(* list s and live set L a step produces: FreeOK(s, L) for the list        *)
(* against the live blocks, LiveOK(L) for the live blocks among            *)
(* themselves.  LiveOK also keeps every live block aligned (LiveAligned).  *)
(***************************************************************************)

\* A piece of memory inside the heap.
InHeap(r) == HeapStart <= r.start /\ End(r) <= HeapStart + HeapSize

\* The list s holds regions that can hold a ListNode, lie in the heap, are
\* pairwise apart and apart from every block of L.
FreeOK(s, L) ==
    /\ s \in Seq(NodeRegion)
    /\ \A k \in 1..Len(s) : InHeap(s[k])
    /\ \A j, k \in 1..Len(s) : j # k => Apart(s[j], s[k])
    /\ \A k \in 1..Len(s) : \A b \in L : Apart(s[k], Block(b))

\* The blocks of L are typed, lie in the heap, are aligned as their
\* Layout asks and are pairwise apart.
LiveOK(L) ==
    /\ L \subseteq [start : Nat, layout : Layout]
    /\ \A b \in L : InHeap(Block(b)) /\ b.start % b.layout.align = 0
    /\ \A b, c \in L : b # c => Apart(Block(b), Block(c))

SafeInv == FreeOK(free, live) /\ LiveOK(live)

\* Pushing a region that can hold a ListNode, lies in the heap and is apart
\* from every region of the list and every block keeps FreeOK.
LEMMA PushFreeOK ==
    ASSUME NEW s, NEW L, FreeOK(s, L),
           NEW x \in NodeRegion, InHeap(x),
           \A k \in 1..Len(s) : Apart(x, s[k]),
           \A b \in L : Apart(x, Block(b))
    PROVE  FreeOK(<<x>> \o s, L)
<1> DEFINE t == <<x>> \o s
<1>1. s \in Seq(NodeRegion)
  BY DEF FreeOK
<1>2. /\ Len(t) = Len(s) + 1
      /\ t[1] = x
      /\ \A k \in 2..Len(s) + 1 : t[k] = s[k - 1]
  BY <1>1, PushIndices
<1>3. t \in Seq(NodeRegion)
  BY <1>1, ConcatProperties
<1>4. \A k \in 1..Len(t) : InHeap(t[k])
  BY <1>1, <1>2 DEF FreeOK
<1>5. \A j, k \in 1..Len(t) : j # k => Apart(t[j], t[k])
  <2> SUFFICES ASSUME NEW j \in 1..Len(t), NEW k \in 1..Len(t), j # k
               PROVE  Apart(t[j], t[k])
    OBVIOUS
  <2>1. CASE j = 1
    BY <2>1, <1>1, <1>2
  <2>2. CASE k = 1
    BY <2>2, <1>1, <1>2 DEF Apart
  <2>3. CASE j # 1 /\ k # 1
    <3>1. j - 1 \in 1..Len(s) /\ k - 1 \in 1..Len(s) /\ j - 1 # k - 1
      BY <2>3, <1>1, <1>2
    <3> QED
      BY <3>1, <2>3, <1>1, <1>2 DEF FreeOK
  <2> QED
    BY <2>1, <2>2, <2>3
<1>6. \A k \in 1..Len(t) : \A b \in L : Apart(t[k], Block(b))
  <2> SUFFICES ASSUME NEW k \in 1..Len(t), NEW b \in L
               PROVE  Apart(t[k], Block(b))
    OBVIOUS
  <2>1. CASE k = 1
    BY <2>1, <1>2
  <2>2. CASE k # 1
    <3>1. k - 1 \in 1..Len(s)
      BY <2>2, <1>1, <1>2
    <3> QED
      BY <3>1, <2>2, <1>2 DEF FreeOK
  <2> QED
    BY <2>1, <2>2
<1> QED
  BY <1>3, <1>4, <1>5, <1>6 DEF FreeOK

\* Unlinking a region keeps FreeOK, and what is left of the list is apart
\* from the region taken out.
LEMMA UnlinkFreeOK ==
    ASSUME NEW s, NEW L, NEW i \in 1..Len(s), FreeOK(s, L)
    PROVE  /\ FreeOK(Unlink(s, i), L)
           /\ \A k \in 1..Len(Unlink(s, i)) : Apart(Unlink(s, i)[k], s[i])
<1>1. s \in Seq(NodeRegion)
  BY DEF FreeOK
<1>2. /\ Len(Unlink(s, i)) = Len(s) - 1
      /\ \A k \in 1..Len(s) - 1 :
            /\ UnlinkIdx(i, k) \in 1..Len(s) \ {i}
            /\ Unlink(s, i)[k] = s[UnlinkIdx(i, k)]
      /\ \A j, k \in 1..Len(s) - 1 :
            j # k => UnlinkIdx(i, j) # UnlinkIdx(i, k)
  BY <1>1, UnlinkIndices
<1>3. Unlink(s, i) \in Seq(NodeRegion)
  BY <1>1, UnlinkType
<1>4. \A k \in 1..Len(Unlink(s, i)) : InHeap(Unlink(s, i)[k])
  BY <1>2 DEF FreeOK
<1>5. \A j, k \in 1..Len(Unlink(s, i)) : j # k => Apart(Unlink(s, i)[j], Unlink(s, i)[k])
  BY <1>2 DEF FreeOK
<1>6. \A k \in 1..Len(Unlink(s, i)) : \A b \in L : Apart(Unlink(s, i)[k], Block(b))
  BY <1>2 DEF FreeOK
<1>7. \A k \in 1..Len(Unlink(s, i)) : Apart(Unlink(s, i)[k], s[i])
  BY <1>2 DEF FreeOK
<1> QED
  BY <1>3, <1>4, <1>5, <1>6, <1>7 DEF FreeOK

\* The memory of a typed block is a region that can hold a ListNode.
LEMMA BlockRegion ==
    ASSUME NEW b \in [start : Nat, layout : Layout]
    PROVE  Block(b) \in NodeRegion
BY SizeAlignType DEF Block, NodeRegion, Region

\* init leaves the whole heap on the list and nothing live.
LEMMA InitSafe == Init => SafeInv
<1> SUFFICES ASSUME Init PROVE SafeInv
  OBVIOUS
<1> DEFINE x == [start |-> HeapStart, size |-> HeapSize]
<1>1. x \in NodeRegion /\ InHeap(x)
  BY AllocatorAssumption DEF NodeRegion, Region, NodeSize, InHeap, End
<1>2. free = <<x>>
  BY DEF Init, AddFreeRegion
<1>3. FreeOK(<<x>>, {})
  BY <1>1 DEF FreeOK
<1> QED
  BY <1>2, <1>3 DEF Init, SafeInv, LiveOK

\* dealloc moves a live block to the front of the list.
LEMMA DeallocSafe ==
    ASSUME SafeInv, NEW b \in live, Dealloc(b)
    PROVE  SafeInv'
<1> DEFINE x == Block(b)
<1>1. b \in [start : Nat, layout : Layout]
  BY DEF SafeInv, LiveOK
<1>2. x \in NodeRegion /\ InHeap(x)
  BY <1>1, BlockRegion DEF SafeInv, LiveOK
<1>3. FreeOK(free, live \ {b})
  BY DEF SafeInv, FreeOK
<1>4. \A k \in 1..Len(free) : Apart(x, free[k])
  BY DEF SafeInv, FreeOK, Apart
<1>5. \A c \in live \ {b} : Apart(x, Block(c))
  BY DEF SafeInv, LiveOK
<1>6. FreeOK(<<x>> \o free, live \ {b})
  BY <1>2, <1>3, <1>4, <1>5, PushFreeOK
<1>7. free' = <<x>> \o free /\ live' = live \ {b}
  BY DEF Dealloc, AddFreeRegion, Block
<1>8. LiveOK(live \ {b})
  BY DEF SafeInv, LiveOK
<1> QED
  BY <1>6, <1>7, <1>8 DEF SafeInv

(***************************************************************************)
(* alloc keeps SafeInv.  The block and the excess after it both lie inside *)
(* the region find_region unlinked, which was in the heap and apart from   *)
(* every other region and every live block; the block and the excess are  *)
(* adjacent, so apart from each other; and align_up makes the block start  *)
(* a multiple of the Layout's alignment.                                   *)
(***************************************************************************)
LEMMA AllocSafe ==
    ASSUME SafeInv, NEW l \in Layout, Alloc(l)
    PROVE  SafeInv'
<1> DEFINE sa == SizeAlign(l)
<1>1. PICK i \in 1..Len(free) :
        LET r == free[i]
            start == AlignUp(r.start, sa.align)
            excess == End(r) - (start + sa.size)
        IN /\ FirstFit(free, i, sa.size, sa.align)
           /\ free' = IF excess > 0
                      THEN AddFreeRegion(Unlink(free, i), start + sa.size, excess)
                      ELSE Unlink(free, i)
           /\ live' = live \cup {[start |-> start, layout |-> l]}
  BY DEF Alloc
<1> DEFINE r == free[i]
           start == AlignUp(r.start, sa.align)
           excess == End(r) - (start + sa.size)
           nb == [start |-> start, layout |-> l]
           u == Unlink(free, i)
           blk == [start |-> start, size |-> sa.size]
<1>2. r \in NodeRegion /\ InHeap(r)
  BY ElementOfSeq DEF SafeInv, FreeOK
<1>3. /\ sa.align = l.align
      /\ sa.align \in {1, 2, 4, 8, 16}
      /\ sa.size \in Nat
      /\ sa.size >= NodeSize
  BY SizeAlignType, AllocatorAssumption DEF Layout
<1>9a. r.start \in Nat
  BY <1>2 DEF NodeRegion, Region
<1>4. /\ start \in Nat
      /\ r.start <= start
      /\ start % l.align = 0
  <2>1. /\ AlignUp(r.start, sa.align) \in Nat
        /\ r.start <= AlignUp(r.start, sa.align)
        /\ AlignUp(r.start, sa.align) % sa.align = 0
    BY <1>9a, <1>3, AlignUpFacts
  <2> QED
    BY <2>1, <1>3
<1>5. /\ start + sa.size <= End(r)
      /\ excess > 0 => excess >= NodeSize
  <2>1. Fits(r, sa.size, sa.align)
    BY <1>1 DEF FirstFit
  <2>2. start + sa.size <= End(r) /\ ~(excess > 0 /\ excess < NodeSize)
    BY <2>1 DEF Fits
  <2> QED
    BY <2>2, <1>2, <1>3, <1>4 DEF NodeRegion, Region, End, NodeSize
<1>6. Block(nb) = blk /\ blk \in Region
  BY <1>3, <1>4 DEF Block, Region
<1>7. r.start <= blk.start /\ End(blk) <= End(r)
  BY <1>4, <1>5 DEF End
<1>8. /\ FreeOK(u, live)
      /\ \A k \in 1..Len(u) : Apart(u[k], r)
      /\ u \in Seq(NodeRegion)
  BY UnlinkFreeOK DEF SafeInv, FreeOK
<1>9. \A k \in 1..Len(u) : Apart(u[k], blk)
  <2> SUFFICES ASSUME NEW k \in 1..Len(u) PROVE Apart(u[k], blk)
    OBVIOUS
  <2>1. u[k] \in Region /\ Apart(r, u[k])
    BY <1>8, ElementOfSeq DEF NodeRegion, Apart
  <2> QED
    BY <2>1, <1>2, <1>6, <1>7, ApartInside DEF NodeRegion
<1>10. \A c \in live : Block(c) \in Region /\ Apart(r, Block(c))
  BY BlockRegion DEF SafeInv, FreeOK, LiveOK, NodeRegion
<1>11. FreeOK(u, live \cup {nb})
  BY <1>6, <1>8, <1>9 DEF FreeOK
<1>12. FreeOK(free', live')
  <2>1. CASE excess > 0
    <3> DEFINE ex == [start |-> start + sa.size, size |-> excess]
    <3>1. free' = <<ex>> \o u /\ live' = live \cup {nb}
      BY <1>1, <2>1 DEF AddFreeRegion
    <3>2. ex \in NodeRegion /\ ex \in Region
      BY <1>2, <1>3, <1>4, <1>5, <2>1 DEF NodeRegion, Region, NodeSize, ex, excess, End
    <3>3. r.start <= ex.start /\ End(ex) <= End(r)
      BY <1>2, <1>3, <1>4, <1>5 DEF End, NodeRegion, Region
    <3>4. InHeap(ex)
      <4>1. ex.start = start + sa.size /\ End(ex) = End(r)
        BY <1>2, <1>3, <1>4 DEF ex, excess, End, NodeRegion, Region
      <4>2. /\ HeapStart <= r.start /\ End(r) <= HeapStart + HeapSize
            /\ r.start \in Nat /\ End(r) \in Nat
        BY <1>2 DEF InHeap, NodeRegion, Region, End
      <4> QED
        BY <4>1, <4>2, <1>3, <1>4, AllocatorAssumption DEF InHeap
    <3>5. \A k \in 1..Len(u) : Apart(ex, u[k])
      <4> SUFFICES ASSUME NEW k \in 1..Len(u) PROVE Apart(ex, u[k])
        OBVIOUS
      <4>1. u[k] \in Region /\ Apart(r, u[k])
        BY <1>8, ElementOfSeq DEF NodeRegion, Apart
      <4> QED
        BY <4>1, <3>2, <3>3, <1>2, ApartInside DEF NodeRegion
    <3>6. \A c \in live : Apart(ex, Block(c))
      BY <1>10, <3>2, <3>3, <1>2, ApartInside DEF NodeRegion
    <3>7. Apart(ex, Block(nb))
      BY <1>6, <1>3, <1>4 DEF Apart, End
    <3> QED
      BY <3>1, <3>2, <3>4, <3>5, <3>6, <3>7, <1>11, PushFreeOK
  <2>2. CASE ~(excess > 0)
    BY <1>1, <2>2, <1>11
  <2> QED
    BY <2>1, <2>2
<1>13. LiveOK(live')
  <2>1. live' = live \cup {nb}
    BY <1>1
  <2>2. nb \in [start : Nat, layout : Layout]
    BY <1>4
  <2>3. InHeap(Block(nb)) /\ nb.start % nb.layout.align = 0
    <3>1. /\ HeapStart <= r.start /\ End(r) <= HeapStart + HeapSize
          /\ r.start \in Nat /\ End(r) \in Nat
      BY <1>2 DEF InHeap, NodeRegion, Region, End
    <3>2. Block(nb).start = start /\ End(Block(nb)) = start + sa.size
      BY <1>6 DEF blk, End
    <3>3. InHeap(Block(nb))
      BY <3>1, <3>2, <1>3, <1>4, <1>5, AllocatorAssumption DEF InHeap
    <3>4. nb.start % nb.layout.align = 0
      BY <1>4 DEF nb
    <3> QED
      BY <3>3, <3>4
  <2>4. \A c \in live : Apart(Block(nb), Block(c)) /\ Apart(Block(c), Block(nb))
    BY <1>10, <1>6, <1>7, <1>2, ApartInside DEF NodeRegion
  <2> QED
    BY <2>1, <2>2, <2>3, <2>4 DEF SafeInv, LiveOK
<1> QED
  BY <1>12, <1>13 DEF SafeInv

\* Every step keeps SafeInv.
LEMMA NextSafe == SafeInv /\ [Next]_vars => SafeInv'
<1> SUFFICES ASSUME SafeInv, [Next]_vars PROVE SafeInv'
  OBVIOUS
<1>1. CASE \E l \in Layout : Alloc(l)
  BY <1>1, AllocSafe
<1>2. CASE \E b \in live : Dealloc(b)
  BY <1>2, DeallocSafe
<1>3. CASE UNCHANGED vars
  BY <1>3 DEF SafeInv, FreeOK, LiveOK, vars
<1> QED
  BY <1>1, <1>2, <1>3 DEF Next

\* The pieces of NoOverlap, named for the proof.
Pieces == {<<"free", k>> : k \in 1..Len(free)} \cup {<<"live", b>> : b \in live}
Mem(p) == IF p[1] = "free" THEN free[p[2]] ELSE Block(p[2])

\* SafeInv gives NoOverlap: each piece is a region of the list or the
\* memory of a live block, and SafeInv relates every two of them.
LEMMA SafeNoOverlap == SafeInv => NoOverlap
<1> SUFFICES ASSUME SafeInv PROVE NoOverlap
  OBVIOUS
<1>1. \A p \in Pieces : InHeap(Mem(p))
  BY DEF Pieces, Mem, SafeInv, FreeOK, LiveOK
<1>2. ASSUME NEW p \in Pieces, NEW q \in Pieces, p # q
      PROVE  Apart(Mem(p), Mem(q))
  <2>1. CASE p[1] = "free" /\ q[1] = "free"
    <3>1. PICK j \in 1..Len(free) : p = <<"free", j>>
      BY <2>1 DEF Pieces
    <3>2. PICK k \in 1..Len(free) : q = <<"free", k>>
      BY <2>1 DEF Pieces
    <3> QED
      BY <1>2, <3>1, <3>2 DEF Mem, SafeInv, FreeOK
  <2>2. CASE p[1] = "free" /\ q[1] # "free"
    <3>1. PICK j \in 1..Len(free) : p = <<"free", j>>
      BY <2>2 DEF Pieces
    <3>2. PICK c \in live : q = <<"live", c>>
      BY <2>2 DEF Pieces
    <3> QED
      BY <3>1, <3>2 DEF Mem, SafeInv, FreeOK
  <2>3. CASE p[1] # "free" /\ q[1] = "free"
    <3>1. PICK c \in live : p = <<"live", c>>
      BY <2>3 DEF Pieces
    <3>2. PICK k \in 1..Len(free) : q = <<"free", k>>
      BY <2>3 DEF Pieces
    <3> QED
      BY <3>1, <3>2 DEF Mem, SafeInv, FreeOK, Apart
  <2>4. CASE p[1] # "free" /\ q[1] # "free"
    <3>1. PICK b \in live : p = <<"live", b>>
      BY <2>4 DEF Pieces
    <3>2. PICK c \in live : q = <<"live", c>>
      BY <2>4 DEF Pieces
    <3> QED
      BY <1>2, <3>1, <3>2 DEF Mem, SafeInv, LiveOK
  <2> QED
    BY <2>1, <2>2, <2>3, <2>4
<1> QED
  BY <1>1, <1>2 DEF NoOverlap, Pieces, Mem, InHeap

-----------------------------------------------------------------------------

\* Init establishes IInv: init adds the whole heap, of at least a ListNode.
LEMMA InitIInv == Init => IInv
<1> SUFFICES ASSUME Init PROVE IInv
  OBVIOUS
<1>1. [start |-> HeapStart, size |-> HeapSize] \in NodeRegion
  BY AllocatorAssumption DEF NodeRegion, Region, NodeSize
<1>2. << >> \in Seq(NodeRegion)
  OBVIOUS
<1> QED
  BY <1>1, <1>2, AddFreeRegionType DEF Init, IInv

\* alloc keeps IInv: the excess it pushes back passed the excess check of
\* alloc_from_region, so it is either empty or at least a ListNode.
LEMMA AllocIInv ==
    ASSUME IInv, NEW l \in Layout, Alloc(l)
    PROVE  IInv'
<1> DEFINE sa == SizeAlign(l)
<1>1. PICK i \in 1..Len(free) :
        LET r == free[i]
            start == AlignUp(r.start, sa.align)
            excess == End(r) - (start + sa.size)
        IN /\ FirstFit(free, i, sa.size, sa.align)
           /\ free' = IF excess > 0
                      THEN AddFreeRegion(Unlink(free, i), start + sa.size, excess)
                      ELSE Unlink(free, i)
           /\ live' = live \cup {[start |-> start, layout |-> l]}
  BY DEF Alloc
<1> DEFINE r == free[i]
           start == AlignUp(r.start, sa.align)
           excess == End(r) - (start + sa.size)
<1>2. r \in NodeRegion
  BY ElementOfSeq DEF IInv
<1>3. /\ sa.align \in Nat \ {0}
      /\ sa.size \in Nat
      /\ sa.size >= NodeSize
  BY SizeAlignType
<1>4. start \in Nat
  BY <1>2, <1>3, AlignUpNat DEF NodeRegion, Region
<1>5. Fits(r, sa.size, sa.align)
  BY <1>1 DEF FirstFit
<1>6. Unlink(free, i) \in Seq(NodeRegion)
  BY UnlinkType DEF IInv
<1>7. free' \in Seq(NodeRegion)
  <2>1. CASE excess > 0
    <3>0. ~(excess > 0 /\ excess < NodeSize)
      BY <1>5 DEF Fits
    <3>1. excess >= NodeSize
      BY <3>0, <2>1, <1>2, <1>3, <1>4 DEF NodeRegion, Region, End, NodeSize
    <3>2. [start |-> start + sa.size, size |-> excess] \in NodeRegion
      BY <3>1, <2>1, <1>2, <1>3, <1>4 DEF NodeRegion, Region, End, NodeSize
    <3> QED
      BY <1>1, <2>1, <3>2, <1>6, AddFreeRegionType
  <2>2. CASE ~(excess > 0)
    BY <1>1, <2>2, <1>6
  <2> QED
    BY <2>1, <2>2
<1>8. live' \subseteq [start : Nat, layout : Layout]
  BY <1>1, <1>4 DEF IInv
<1> QED
  BY <1>7, <1>8 DEF IInv

\* dealloc keeps IInv: the region it pushes has the size_align size of the
\* block's Layout, at least a ListNode.
LEMMA DeallocIInv ==
    ASSUME IInv, NEW b \in live, Dealloc(b)
    PROVE  IInv'
<1>1. b.start \in Nat /\ b.layout \in Layout
  BY DEF IInv
<1>2. [start |-> b.start, size |-> SizeAlign(b.layout).size] \in NodeRegion
  BY <1>1, SizeAlignType DEF NodeRegion, Region
<1>3. free' \in Seq(NodeRegion)
  BY <1>2, AddFreeRegionType DEF Dealloc, IInv
<1> QED
  BY <1>3 DEF Dealloc, IInv

\* Every step keeps IInv.
LEMMA NextIInv == IInv /\ [Next]_vars => IInv'
<1> SUFFICES ASSUME IInv, [Next]_vars PROVE IInv'
  OBVIOUS
<1>1. CASE \E l \in Layout : Alloc(l)
  BY <1>1, AllocIInv
<1>2. CASE \E b \in live : Dealloc(b)
  BY <1>2, DeallocIInv
<1>3. CASE UNCHANGED vars
  BY <1>3 DEF IInv, vars
<1> QED
  BY <1>1, <1>2, <1>3 DEF Next

-----------------------------------------------------------------------------

(***************************************************************************)
(* The size assertion of add_free_region never fails, in every run of the  *)
(* allocator, for every heap and every set of Layouts: each region alloc   *)
(* and dealloc push onto the free list holds a ListNode.                   *)
(***************************************************************************)
THEOREM FreeRegionsHoldNodeInvariant == Spec => []FreeRegionsHoldNode
<1>1. IInv => FreeRegionsHoldNode
  BY ElementOfSeq DEF IInv, NodeRegion, FreeRegionsHoldNode
<1> QED
  BY <1>1, InitIInv, NextIInv, PTL DEF Spec

(***************************************************************************)
(* Every run of the allocator keeps its type: the free list is a sequence  *)
(* of regions and every live block pairs a start address with a Layout.    *)
(***************************************************************************)
THEOREM TypeInvariant == Spec => []TypeOK
<1>1. IInv => TypeOK
  <2> SUFFICES ASSUME IInv PROVE TypeOK
    OBVIOUS
  <2>1. NodeRegion \subseteq Region
    BY DEF NodeRegion
  <2>2. Seq(NodeRegion) \subseteq Seq(Region)
    BY <2>1
  <2> QED
    BY <2>2 DEF IInv, TypeOK
<1> QED
  BY <1>1, InitIInv, NextIInv, PTL DEF Spec

(***************************************************************************)
(* No run of the allocator ever hands out memory that is free or already   *)
(* live, or memory outside the heap: for every heap and every set of       *)
(* Layouts, the free regions and the live blocks stay pairwise disjoint    *)
(* and inside [heap_start, heap_start + heap_size), whatever the order of  *)
(* alloc and dealloc calls, the splits of regions and the pushes of freed  *)
(* blocks.                                                                 *)
(***************************************************************************)
THEOREM NoOverlapInvariant == Spec => []NoOverlap
BY InitSafe, NextSafe, SafeNoOverlap, PTL DEF Spec

(***************************************************************************)
(* Every block alloc returns, in every run, starts at a multiple of the    *)
(* alignment its Layout asks for: find_region aligns the start with        *)
(* align_up, and size_align keeps the Layout's alignment.                  *)
(***************************************************************************)
THEOREM LiveAlignedInvariant == Spec => []LiveAligned
<1>1. SafeInv => LiveAligned
  BY DEF SafeInv, LiveOK, LiveAligned
<1> QED
  BY <1>1, InitSafe, NextSafe, PTL DEF Spec

=============================================================================
