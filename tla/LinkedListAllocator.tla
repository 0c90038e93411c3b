-------------------------- MODULE LinkedListAllocator --------------------------
(***************************************************************************)
(* The kernel heap allocator of src/os/src/allocator/linked_list.rs: a     *)
(* singly linked list of free regions, each region's ListNode stored in    *)
(* the region itself, with first-fit allocation and no coalescing.         *)
(*                                                                         *)
(* Addresses and sizes are in units of 8 bytes, the size and alignment of  *)
(* a usize: a ListNode (size, next) is two units with an alignment of one. *)
(* free is the list from head.next on, as a sequence of regions, head      *)
(* first.  live is the set of blocks alloc has returned and dealloc has    *)
(* not yet taken back, each with the Layout its caller passes to both.     *)
(* The whole of alloc and of dealloc runs under the Locked spin lock, so   *)
(* each is one step.                                                       *)
(***************************************************************************)
EXTENDS Naturals, Sequences

CONSTANTS
    HeapStart,   \* the heap_start passed to init
    HeapSize,    \* the heap_size passed to init
    Sizes,       \* Layout sizes a caller may ask for
    Aligns       \* Layout alignments a caller may ask for (powers of two)

ASSUME AllocatorAssumption ==
    /\ HeapStart \in Nat /\ HeapSize \in Nat /\ HeapSize >= 2
    /\ Sizes \subseteq Nat \ {0}
    /\ Aligns \subseteq {1, 2, 4, 8, 16}

VARIABLES free, live

vars == <<free, live>>

\* mem::size_of::<ListNode>() and mem::align_of::<ListNode>().
NodeSize == 2
NodeAlign == 1

Region == [start : Nat, size : Nat]
Layout == [size : Sizes, align : Aligns]

\* align_up of allocator/mod.rs: the least multiple of align at or above
\* addr, for a power-of-two align.
AlignUp(addr, align) == ((addr + align - 1) \div align) * align

\* The end address of a region (ListNode::end_addr).
End(r) == r.start + r.size

\* Fault variant of size_align: the Layout's alignment is dropped.
SizeAlignIgnoresAlign(l) ==
    [size |-> IF l.size >= NodeSize THEN l.size ELSE NodeSize,
     align |-> NodeAlign]

\* size_align: align the layout to a ListNode, pad it to its alignment and
\* make it at least one ListNode large.
SizeAlign(l) ==
    LET align == IF l.align >= NodeAlign THEN l.align ELSE NodeAlign
        padded == AlignUp(l.size, align)
    IN [size |-> IF padded >= NodeSize THEN padded ELSE NodeSize,
        align |-> align]

\* Fault variant of alloc_from_region: only the excess check is made.
FitsUnbounded(r, size, align) ==
    LET excess == End(r) - (AlignUp(r.start, align) + size)
    IN ~(excess > 0 /\ excess < NodeSize)

\* Fault variant of alloc_from_region: the check on the excess is dropped.
FitsNoExcessCheck(r, size, align) ==
    AlignUp(r.start, align) + size <= End(r)

\* alloc_from_region succeeds: the aligned block fits in the region, and
\* what is left after it is empty or can hold a ListNode.
Fits(r, size, align) ==
    LET alloc_end == AlignUp(r.start, align) + size
        excess == End(r) - alloc_end
    IN /\ alloc_end <= End(r)
       /\ ~(excess > 0 /\ excess < NodeSize)

\* add_free_region: a new ListNode at addr pushed at the front of the list.
AddFreeRegion(list, addr, size) ==
    <<[start |-> addr, size |-> size]>> \o list

\* Fault variant of find_region's unlink: current.next is not reset.
UnlinkKeeps(list, i) == list

\* The list without its i-th region.
Unlink(list, i) == SubSeq(list, 1, i - 1) \o SubSeq(list, i + 1, Len(list))

\* find_region's scan stops at region i: it is the first one for which
\* alloc_from_region succeeds.
FirstFit(list, i, size, align) ==
    /\ Fits(list[i], size, align)
    /\ \A j \in 1..i - 1 : ~Fits(list[j], size, align)

(***************************************************************************)
(* GlobalAlloc::alloc(layout): find_region unlinks the first region that   *)
(* fits; the part after the block, if any, goes back to the front of the   *)
(* list as a new region, and the aligned start is returned.  The part      *)
(* before the aligned start stays out of the list.  With no region that    *)
(* fits, alloc returns null and changes nothing (no step).                 *)
(***************************************************************************)
Alloc(l) ==
    LET sa == SizeAlign(l)
    IN \E i \in 1..Len(free) :
        LET r == free[i]
            start == AlignUp(r.start, sa.align)
            excess == End(r) - (start + sa.size)
        IN /\ FirstFit(free, i, sa.size, sa.align)
           /\ free' = IF excess > 0
                      THEN AddFreeRegion(Unlink(free, i), start + sa.size, excess)
                      ELSE Unlink(free, i)
           /\ live' = live \cup {[start |-> start, layout |-> l]}

\* GlobalAlloc::dealloc(ptr, layout) of a live block: the size_align size
\* at ptr goes to the front of the list.
Dealloc(b) ==
    /\ free' = AddFreeRegion(free, b.start, SizeAlign(b.layout).size)
    /\ live' = live \ {b}

\* LinkedListAllocator::new followed by init(heap_start, heap_size).
Init ==
    /\ free = AddFreeRegion(<< >>, HeapStart, HeapSize)
    /\ live = {}

Next ==
    \/ \E l \in Layout : Alloc(l)
    \/ \E b \in live : Dealloc(b)

Spec == Init /\ [][Next]_vars

-----------------------------------------------------------------------------
(* Properties.                                                             *)

\* The memory a live block occupies, as alloc handed it out.
Block(b) == [start |-> b.start, size |-> SizeAlign(b.layout).size]

\* Every variable holds a value of its type.
TypeOK ==
    /\ free \in Seq(Region)
    /\ live \subseteq [start : Nat, layout : Layout]

\* Two address ranges share no address.
Apart(r, s) == End(r) <= s.start \/ End(s) <= r.start

(***************************************************************************)
(* No two pieces of memory overlap, and all lie in the heap: the free      *)
(* regions of the list and the live blocks are pairwise disjoint, so alloc *)
(* never hands out memory that is free or already live, whatever sequence  *)
(* of allocations and frees of different sizes and alignments led here.    *)
(***************************************************************************)
NoOverlap ==
    LET pieces == {<<"free", k>> : k \in 1..Len(free)}
                  \cup {<<"live", b>> : b \in live}
        mem(p) == IF p[1] = "free" THEN free[p[2]] ELSE Block(p[2])
    IN /\ \A p \in pieces :
              /\ HeapStart <= mem(p).start
              /\ End(mem(p)) <= HeapStart + HeapSize
       /\ \A p, q \in pieces : p # q => Apart(mem(p), mem(q))

\* Every block alloc returns is aligned as its Layout asks.
LiveAligned == \A b \in live : b.start % b.layout.align = 0

(***************************************************************************)
(* The size assertion of add_free_region never fails: every region put on  *)
(* the list, whether the whole heap, the excess after a block or a freed   *)
(* block, can hold a ListNode.  It rests on the excess check of            *)
(* alloc_from_region and on size_align.  (The alignment assertion holds    *)
(* by the choice of units: every address is a multiple of 8 bytes.)        *)
(***************************************************************************)
FreeRegionsHoldNode == \A k \in 1..Len(free) : free[k].size >= NodeSize

=============================================================================
