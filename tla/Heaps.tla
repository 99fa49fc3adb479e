------------------------------- MODULE Heaps --------------------------------
(***************************************************************************)
(* The two heaps, of the kernel and of an application. Both implement      *)
(* Allocator.                                                              *)
(***************************************************************************)
EXTENDS Integers, Sequences, SequencesExt, FiniteSetsExt, Functions, TLC

-----------------------------------------------------------------------------
(***************************************************************************)
(* kernel/mem/kheap.c: a first-fit allocator over one arena. The blocks    *)
(* form a list in address order; a block is a header followed by its       *)
(* payload. Sizes are in units of KHEAP_ALIGN bytes, so align_up of a size *)
(* is the number of units it takes; a request within KHEAP_ALIGN of        *)
(* SIZE_MAX, which align_up would wrap, is not made. The zeroing of the    *)
(* payload is left out: no property looks at the contents.                 *)
(***************************************************************************)

CONSTANTS
  KArena,     \* KHEAP_ARENA_SIZE
  KHeader,    \* align_up(HEADER_SIZE)
  KRequests   \* the sizes that callers ask for

VARIABLE kblocks  \* the list from g_head: [size, free] in address order

\* The address of the header of block i: the blocks follow each other.
HeaderAt(blocks, i) == FoldLeft(LAMBDA at, b : at + KHeader + b.size, 0, SubSeq(blocks, 1, i - 1))

\* The one free block that kheap_init leaves.
KHeapInit == kblocks = <<[size |-> KArena - KHeader, free |-> TRUE]>>

\* Block i, taken for n units: the rest becomes a block of its own when it
\* has room for a header and one unit of payload.
Placed(blocks, i, n) ==
  IF blocks[i].size >= n + KHeader + 1
  THEN InsertAt([blocks EXCEPT ![i] = [size |-> n, free |-> FALSE]], i + 1,
                [size |-> blocks[i].size - n - KHeader, free |-> TRUE])
  ELSE [blocks EXCEPT ![i].free = FALSE]

\* kmalloc. Without a fitting block it returns 0 and changes nothing.
Kmalloc(n) ==
  \E i \in 1 .. Len(kblocks) :
    /\ kblocks[i].free /\ kblocks[i].size >= n
    /\ \A j \in 1 .. (i - 1) : ~(kblocks[j].free /\ kblocks[j].size >= n)
    /\ kblocks' = Placed(kblocks, i, n)

\* A coalescing pass that stops after the first merge.
CoalescedOnce(blocks) ==
  IF \E i \in 1 .. (Len(blocks) - 1) : blocks[i].free /\ blocks[i + 1].free
  THEN LET i == Min({j \in 1 .. (Len(blocks) - 1) : blocks[j].free /\ blocks[j + 1].free})
       IN RemoveAt([blocks EXCEPT ![i].size = @ + KHeader + blocks[i + 1].size], i + 1)
  ELSE blocks

\* The pass that follows every kfree: a free block swallows the free blocks
\* behind it.
Coalesced(blocks) ==
  FoldLeft(LAMBDA done, b :
             IF done # <<>> /\ Last(done).free /\ b.free
             THEN [done EXCEPT ![Len(done)].size = @ + KHeader + b.size]
             ELSE Append(done, b),
           <<>>, blocks)

\* kfree of a pointer that kmalloc returned and that is still in use.
Kfree(i) ==
  /\ ~kblocks[i].free
  /\ kblocks' = Coalesced([kblocks EXCEPT ![i].free = TRUE])

KHeapNext == (\E n \in KRequests : Kmalloc(n)) \/ (\E i \in 1 .. Len(kblocks) : Kfree(i))

\* kheap_free_bytes.
FreeUnits(blocks) == FoldLeft(LAMBDA sum, b : IF b.free THEN sum + b.size ELSE sum, 0, blocks)

-----------------------------------------------------------------------------
\* The payloads that callers hold.
KRegions ==
  {[at |-> HeaderAt(kblocks, i) + KHeader, len |-> kblocks[i].size] :
     i \in {j \in 1 .. Len(kblocks) : ~kblocks[j].free}}

\* The list of kheap.c covers the whole arena and never keeps two free blocks
\* next to each other, so no fragmentation outlives the blocks that caused it:
\* a heap whose blocks are all freed is again the one block of kheap_init.
KernelHeapTight ==
  /\ HeaderAt(kblocks, Len(kblocks) + 1) = KArena
  /\ \A i \in 1 .. (Len(kblocks) - 1) : ~(kblocks[i].free /\ kblocks[i + 1].free)
  /\ KRegions = {} => FreeUnits(kblocks) = KArena - KHeader

-----------------------------------------------------------------------------
(***************************************************************************)
(* The heap of an application: the boundary-tag allocator of the C library *)
(* (malloc.c), grown through os_brk.c and the os_mem_brk wrapper by the    *)
(* mem_brk service of the kernel (app_native_heap.c). The kernel has one   *)
(* pool with one break: a program that spawns another shares them with it, *)
(* while each has an allocator of its own.                                 *)
(*                                                                         *)
(* Sizes are in units of 8 bytes: the alignment of 16 and the header are   *)
(* two units, the footer is one. The tags at both ends of a block are      *)
(* written together, so one record stands for them, and "the block before" *)
(* is the one that ends where this one starts. Requests within 15 of       *)
(* SIZE_MAX, which round_up would wrap, are not made, and a program frees  *)
(* only pointers that its allocator returned and whose header still stands.*)
(***************************************************************************)

CONSTANTS
  Pool,       \* APP_NATIVE_HEAP_BYTES
  Programs,   \* a program and those it spawns, innermost last
  Requests    \* the sizes a program asks for

VARIABLES
  heapBreak,  \* g_native_heap_break
  heap,       \* the allocator state of each program
  depth       \* how many of the programs are running

clibVars == <<heapBreak, heap, depth>>

Align == 2
Overhead == 3
RoundUp(n) == ((n + Align - 1) \div Align) * Align

\* The state after clib_malloc_init without a seed window.
NoHeap == [base |-> -1, size |-> 0, blocks |-> <<>>, freeList |-> <<>>, inUse |-> 0, count |-> 0]

Block(sz, used) == [sz |-> sz, used |-> used]

\* free_list_remove and free_list_push.
Without(list, a) == SelectSeq(list, LAMBDA x : x # a)
Pushed(list, a) == <<a>> \o list

SetBlock(h, a, sz, used) == [h EXCEPT !.blocks = (a :> Block(sz, used)) @@ @]

\* split_block on a detached block.
Split(h, a, want) ==
  IF h.blocks[a].sz < want + Overhead + Align THEN h
  ELSE [SetBlock(SetBlock(h, a, want, FALSE), a + want, h.blocks[a].sz - want, FALSE)
          EXCEPT !.freeList = Pushed(@, a + want)]

MarkUsed(h, a) ==
  [SetBlock(h, a, h.blocks[a].sz, TRUE)
     EXCEPT !.inUse = @ + h.blocks[a].sz - Overhead, !.count = @ + 1]

\* The end of clib_malloc: block a leaves the free list, is split and marked.
Claim(h, a, need) == MarkUsed(Split([h EXCEPT !.freeList = Without(@, a)], a, need), a)

\* The first entry of the free list that fits.
Fits(h, need) == {i \in 1 .. Len(h.freeList) : h.blocks[h.freeList[i]].sz >= need}

\* The free block at the end of the arena, if there is one.
FreeTail(h) == {a \in DOMAIN h.blocks : ~h.blocks[a].used /\ a + h.blocks[a].sz = h.base + h.size}

\* What grow_arena asks for: a whole block, or what the free tail lacks.
GrowBy(h, payload) ==
  IF FreeTail(h) = {} THEN RoundUp(payload + Overhead)
  ELSE RoundUp(RoundUp(payload + Overhead) - h.blocks[CHOOSE a \in FreeTail(h) : TRUE].sz)

\* grow_arena after a successful brk of delta: the tail is extended, or a
\* fresh block follows it.
Grown(h, delta) ==
  IF FreeTail(h) = {}
  THEN [SetBlock(h, heapBreak, delta, FALSE)
          EXCEPT !.base = IF h.base = -1 THEN heapBreak ELSE h.base,
                 !.size = @ + delta, !.freeList = Pushed(@, heapBreak)]
  ELSE LET a == CHOOSE b \in FreeTail(h) : TRUE IN
       [SetBlock(h, a, h.blocks[a].sz + delta, FALSE)
          EXCEPT !.size = @ + delta, !.freeList = Pushed(Without(@, a), a)]

\* Without the contiguity check of grow_arena.
AnyRegion(h) == TRUE

\* The region obtained starts where the arena ends, or starts it.
Contiguous(h) == h.base = -1 \/ heapBreak = h.base + h.size

\* The outcomes of clib_malloc in the running program: the heap and the break
\* after the call, and the block it returns (-1 for NULL).
Outcome(h, brk, ptr) == [h |-> h, brk |-> brk, ptr |-> ptr]

\* app_native_mem_brk with a positive delta: the pool has room for it.
MemBrk(delta) == delta <= Pool - heapBreak

\* os_mem_brk: the break before the call, or none (-1) when it is denied.
OsMemBrk(delta) == IF MemBrk(delta) THEN heapBreak ELSE -1

\* clib_os_brk: the region that malloc.c gets, or none (-1).
OsBrk(delta) == OsMemBrk(delta)

AfterGrowth(h, need, delta) ==
  IF OsBrk(delta) = -1 THEN Outcome(h, heapBreak, -1)                   \* denied
  ELSE IF ~Contiguous(h) THEN Outcome(h, heapBreak + delta, -1)         \* bytes lost
  ELSE Outcome(Claim(Grown(h, delta), Grown(h, delta).freeList[1], need),
               heapBreak + delta, Grown(h, delta).freeList[1])

Malloc(h, n) ==
  IF Fits(h, RoundUp(n) + Overhead) # {}
  THEN Outcome(Claim(h, h.freeList[Min(Fits(h, RoundUp(n) + Overhead))], RoundUp(n) + Overhead),
               heapBreak, h.freeList[Min(Fits(h, RoundUp(n) + Overhead))])
  ELSE AfterGrowth(h, RoundUp(n) + Overhead, GrowBy(h, RoundUp(n)))

\* The free blocks that touch a block: the one behind it, the one before it.
Behind(h, a) == {b \in DOMAIN h.blocks : ~h.blocks[b].used /\ b = a + h.blocks[a].sz}
Before(h, a) == {b \in DOMAIN h.blocks : ~h.blocks[b].used /\ a = b + h.blocks[b].sz}

\* The block that clib_free leaves: the freed one with its free neighbours,
\* pushed once on the free list.
Merged(h, group) ==
  [h EXCEPT !.blocks = (Min(group) :> Block(MapThenSumSet(LAMBDA b : h.blocks[b].sz, group), FALSE))
                       @@ Restrict(h.blocks, DOMAIN h.blocks \ group),
            !.freeList = Pushed(SelectSeq(@, LAMBDA x : x \notin group), Min(group))]

\* clib_free that merges only with the block behind.
FreeForward(h, a) ==
  Merged([h EXCEPT !.inUse = @ - (h.blocks[a].sz - Overhead), !.count = @ - 1],
         {a} \cup Behind(h, a))

Free(h, a) ==
  Merged([h EXCEPT !.inUse = @ - (h.blocks[a].sz - Overhead), !.count = @ - 1],
         {a} \cup Behind(h, a) \cup Before(h, a))

-----------------------------------------------------------------------------
Used(h) == {a \in DOMAIN h.blocks : h.blocks[a].used}
Running == Programs[depth]

ClibInit ==
  /\ heapBreak = 0 /\ depth = 1
  /\ heap = [p \in Range(Programs) |-> NoHeap]

Becomes(outcome) ==
  /\ heap' = [heap EXCEPT ![Running] = outcome.h]
  /\ heapBreak' = outcome.brk
  /\ UNCHANGED depth

\* clib_malloc, clib_calloc (whose product did not overflow).
MallocCall(n) == Becomes(Malloc(heap[Running], n))

\* clib_free of a block in use; of a free block it is refused.
FreeCall(a) == Becomes(Outcome(Free(heap[Running], a), heapBreak, -1))

\* clib_realloc that frees the old block first.
ReallocFreesFirst(a, n) ==
  /\ n > heap[Running].blocks[a].sz - Overhead
  /\ Becomes(Malloc(Free(heap[Running], a), n))

\* clib_realloc beyond the payload: a new block, then the old one is freed.
ReallocCall(a, n) ==
  /\ n > heap[Running].blocks[a].sz - Overhead
  /\ Becomes(IF Malloc(heap[Running], n).ptr = -1 THEN Malloc(heap[Running], n)
             ELSE [Malloc(heap[Running], n) EXCEPT !.h = Free(@, a)])

\* A nested program starts: its image has an empty allocator, the break stays.
SpawnNested ==
  /\ depth < Len(Programs)
  /\ depth' = depth + 1
  /\ heap' = [heap EXCEPT ![Programs[depth + 1]] = NoHeap]
  /\ UNCHANGED heapBreak

\* A program returns. Only the outermost one resets the break.
ProgramReturns ==
  /\ heap' = [heap EXCEPT ![Running] = NoHeap]
  /\ depth' = IF depth = 1 THEN 1 ELSE depth - 1
  /\ heapBreak' = IF depth = 1 THEN 0 ELSE heapBreak

ClibNext ==
  \/ \E n \in Requests : MallocCall(n)
  \/ \E a \in Used(heap[Running]) : FreeCall(a)
  \/ \E a \in Used(heap[Running]), n \in Requests : ReallocCall(a, n)
  \/ SpawnNested
  \/ ProgramReturns

-----------------------------------------------------------------------------
\* The payloads in the hands of the programs, whichever allocator they came
\* from.
AppRegions ==
  UNION {{[at |-> a + Align, len |-> heap[p].blocks[a].sz - Overhead] : a \in Used(heap[p])} :
           p \in Range(Programs)}

\* The boundary tags, the free list and the counters of malloc.c agree: the
\* blocks cover the arena, the free list names every free block once, no two
\* free blocks touch, and the statistics are those of the blocks in use.
AppHeapTight ==
  \A p \in Range(Programs) :
    LET h == heap[p] IN
    /\ UNION {a .. (a + h.blocks[a].sz - 1) : a \in DOMAIN h.blocks} = h.base .. (h.base + h.size - 1)
       \/ h.base = -1
    /\ MapThenSumSet(LAMBDA a : h.blocks[a].sz, DOMAIN h.blocks) = h.size
    /\ IsInjective(h.freeList) /\ Range(h.freeList) = DOMAIN h.blocks \ Used(h)
    /\ \A a \in DOMAIN h.blocks \ Used(h) : Behind(h, a) = {}
    /\ h.count = Cardinality(Used(h))
    /\ h.inUse = MapThenSumSet(LAMBDA a : h.blocks[a].sz - Overhead, Used(h))
=============================================================================
