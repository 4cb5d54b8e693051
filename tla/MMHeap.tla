------------------------------- MODULE MMHeap -------------------------------
(***************************************************************************)
(* The heap of the monitor (src/monitor/mmheap): malloc, calloc, realloc   *)
(* and free over one static pool, a two-level segregated fit allocator.    *)
(*                                                                         *)
(* A block is named by the address of its size word, the first one by 0:   *)
(* its header takes Overhead bytes, the pointer handed out is the address  *)
(* behind them, and the next block begins where this one ends.  A header   *)
(* holds the size, the two state bits and prev_phys_blk, which lies in the *)
(* last bytes of the previous block and is only valid while that is free.  *)
(* A header newly cut out of a block has Junk in what the code does not    *)
(* set.  Each helper of the code is an operator from a heap to a heap; the *)
(* monitor is one thread with its own copy of all this, so that a call is  *)
(* one step.                                                               *)
(***************************************************************************)
EXTENDS Integers, Sequences, FiniteSets, SequencesExt, FiniteSetsExt, Functions

CONSTANTS
  SlLog2,     \* NOD_MMHEAP_SL_INDEX_COUNT_LOG2
  FlMax,      \* NOD_MMHEAP_FL_INDEX_MAX
  SizeBits,   \* the width of size_t
  PoolSize,   \* what nod_mmheap_init is given
  Request,    \* sizes asked for
  Pair,       \* <<num, size>> of calloc
  Boundary,   \* alignments asked for, powers of 2
  MaxLive     \* bound: allocations held at a time

VARIABLES
  heap,       \* the headers, the free lists, the two levels of bitmaps
  live,       \* pointers handed out and not freed, with the size asked for
  odd         \* unusual calls made so far

vars == <<heap, live, odd>>

Align == 4
Overhead == 8
BlkStruct == 32
BlkMin == BlkStruct - Overhead
BlkMax == 2^FlMax
FlShift == SlLog2 + 2
FlCount == FlMax - FlShift + 1
SmallBlock == 2^FlShift
Class == (0 .. FlCount - 1) \X (0 .. 2^SlLog2 - 1)
Wrap(n) == n % 2^SizeBits
None == 0 - 1
Junk == "junk"
Odd == {"realloc_huge", "calloc_wraps"}

AlignUp(n, a) == (Wrap(n + a - 1) \div a) * a
AlignDown(n, a) == n - (n % a)

------------------------------------------------------------------------------
(* The list a block of a size belongs to.                                  *)
Fls(n) == CHOOSE k \in 0 .. SizeBits : 2^k <= n /\ n < 2^(k + 1)

MappingInsert(size) ==
  IF size < SmallBlock
  THEN <<0, size \div (SmallBlock \div 2^SlLog2)>>
  ELSE <<Fls(size) - (FlShift - 1), size \div 2^(Fls(size) - SlLog2) - 2^SlLog2>>

(* Faulty variants of some operations below, each with a plausible slip;   *)
(* they are no part of the specification.                                  *)
MappingSearchUnrounded(size) == MappingInsert(size)

MappingSearchTooFar(size) ==
  MappingInsert(IF size < SmallBlock THEN size ELSE size + 2^(Fls(size) - SlLog2))

(* The first list all blocks of which are large enough.                    *)
MappingSearch(size) ==
  MappingInsert(IF size < SmallBlock THEN size ELSE size + 2^(Fls(size) - SlLog2) - 1)

AdjustRequestSize(size, a) ==
  LET n == AlignUp(size, a)
  IN  IF size = 0 \/ n = 0 \/ n > BlkMax THEN 0 ELSE Max({n, BlkMin})

------------------------------------------------------------------------------
Size(h, x) == h.hdr[x].size
BlkNext(h, x) == x + Overhead + Size(h, x)
ToPtr(x) == x + Overhead
FromPtr(p) == p - Overhead

LinkNext(h, x) == [h EXCEPT !.hdr[BlkNext(h, x)].prev = x]

MarkAsFree(h, x) ==
  LET n == BlkNext(h, x)
  IN  [h EXCEPT !.hdr[n].prev = x, !.hdr[n].prevFree = TRUE, !.hdr[x].free = TRUE]

(* ... whose last bytes, where the next block has its prev_phys_blk, are   *)
(* the user's from now on.                                                 *)
MarkAsUsed(h, x) ==
  LET n == BlkNext(h, x)
  IN  [h EXCEPT !.hdr[n].prev = Junk, !.hdr[n].prevFree = FALSE, !.hdr[x].free = FALSE]

RemoveLeavesMaps(h, x, c) == [h EXCEPT !.list[c] = Remove(@, x)]

InsertFreeBlock(h, x, c) ==
  [h EXCEPT !.list[c] = <<x>> \o @, !.fl = @ \cup {c[1]}, !.sl = @ \cup {c}]

RemoveFreeBlock(h, x, c) ==
  LET rest == Remove(h.list[c], x)
      emptied == h.list[c] # <<>> /\ Head(h.list[c]) = x /\ rest = <<>>
      sl == IF emptied THEN h.sl \ {c} ELSE h.sl
  IN  [h EXCEPT !.list[c] = rest, !.sl = sl,
                !.fl = IF emptied /\ \A d \in sl : d[1] # c[1] THEN @ \ {c[1]} ELSE @]

BlkInsert(h, x) == InsertFreeBlock(h, x, MappingInsert(Size(h, x)))
BlkRemove(h, x) == RemoveFreeBlock(h, x, MappingInsert(Size(h, x)))

CanSplitExactly(h, x, size) == Size(h, x) >= Overhead + size

CanSplit(h, x, size) == Size(h, x) >= BlkStruct + size

(* blk_split; the rest is the block behind x in the result.                *)
Split(h, x, size) ==
  LET r == x + Overhead + size
      rest == [size |-> Size(h, x) - (size + Overhead), free |-> Junk, prevFree |-> Junk, prev |-> Junk]
  IN  MarkAsFree([h EXCEPT !.hdr = [y \in DOMAIN @ \cup {r} |->
                    IF y = r THEN rest ELSE IF y = x THEN [@[x] EXCEPT !.size = size] ELSE @[y]]], r)

(* blk_absorb; the header of y is part of x from then on.                  *)
Absorb(h, x, y) ==
  LinkNext([h EXCEPT !.hdr = Restrict([@ EXCEPT ![x].size = @ + Overhead + Size(h, y)], DOMAIN @ \ {y})], x)

MergeNext(h, x) ==
  LET n == BlkNext(h, x) IN IF h.hdr[n].free THEN Absorb(BlkRemove(h, n), x, n) ELSE h

(* The two merges of free, and the insertion of what results.              *)
MergeAndInsert(h, x) ==
  LET p == h.hdr[x].prev
      first == IF h.hdr[x].prevFree THEN p ELSE x
      h1 == IF h.hdr[x].prevFree THEN Absorb(BlkRemove(h, p), p, x) ELSE h
  IN  BlkInsert(MergeNext(h1, first), first)

TrimFree(h, x, size) ==
  IF ~CanSplit(h, x, size) THEN h
  ELSE LET h1 == LinkNext(Split(h, x, size), x)
           r == BlkNext(h1, x)
       IN  BlkInsert([h1 EXCEPT !.hdr[r].prevFree = TRUE], r)

TrimUsed(h, x, size) ==
  IF ~CanSplit(h, x, size) THEN h
  ELSE LET h1 == Split(h, x, size)
           r == BlkNext(h1, x)
       IN  BlkInsert(MergeNext([h1 EXCEPT !.hdr[r].prevFree = FALSE], r), r)

(* blk_trim_free_leading: the block wanted begins gap bytes further.       *)
TrimFreeLeading(h, x, gap) ==
  IF ~CanSplit(h, x, gap) THEN [heap |-> h, blk |-> x]
  ELSE LET h1 == LinkNext(Split(h, x, gap - Overhead), x)
           r == BlkNext(h1, x)
       IN  [heap |-> BlkInsert([h1 EXCEPT !.hdr[r].prevFree = TRUE], x), blk |-> r]

(* The head of the first list that has one, from class c on.               *)
SearchSuitable(h, c) ==
  LET sls == {d \in h.sl : d[1] = c[1] /\ d[2] >= c[2]}
      fls == {f \in h.fl : f > c[1]}
      f == IF sls # {} THEN c[1] ELSE Min(fls)
      s == Min({d[2] : d \in IF sls # {} THEN sls ELSE {d \in h.sl : d[1] = f}})
  IN  IF sls = {} /\ fls = {} THEN <<>> ELSE <<f, s>>

LocateFree(h, size) ==
  LET c == IF size = 0 \/ MappingSearch(size)[1] >= FlCount THEN <<>>
           ELSE SearchSuitable(h, MappingSearch(size))
  IN  IF c = <<>> THEN [heap |-> h, blk |-> None]
      ELSE [heap |-> RemoveFreeBlock(h, Head(h.list[c]), c), blk |-> Head(h.list[c])]

PrepareUsed(h, x, size) == MarkAsUsed(TrimFree(h, x, size), x)

------------------------------------------------------------------------------
(* nod_mmheap_init: no list, and the pool as one free block before a block *)
(* of size 0 that is never free.                                           *)
HeapInit ==
  LET size == AlignDown(PoolSize - 2 * Overhead, Align)
      h == [hdr |-> [x \in {0, Overhead + size} |->
                       IF x = 0 THEN [size |-> size, free |-> TRUE, prevFree |-> FALSE, prev |-> Junk]
                       ELSE [size |-> 0, free |-> FALSE, prevFree |-> TRUE, prev |-> 0]],
            list |-> [c \in Class |-> <<>>], fl |-> {}, sl |-> {}]
  IN  BlkInsert(h, 0)

(* nod_mmheap_alloc, nod_mmheap_aligned_alloc and nod_mmheap_free, from a  *)
(* heap to a heap and a pointer, None for NULL.                            *)
AllocFrom(h, size) ==
  LET n == AdjustRequestSize(size, Align)
      f == LocateFree(h, IF size > BlkMax THEN 0 ELSE n)
  IN  IF f.blk = None THEN [heap |-> h, ptr |-> None]
      ELSE [heap |-> PrepareUsed(f.heap, f.blk, n), ptr |-> ToPtr(f.blk)]

AlignedGap(p, a) ==
  LET gap == AlignUp(p, a) - p
      more == Max({BlkStruct - gap, a})
  IN  IF gap = 0 \/ gap >= BlkStruct THEN gap ELSE AlignUp(p + gap + more, a) - p

AlignedAllocFrom(h, size, a) ==
  LET n == AdjustRequestSize(size, Align)
      withGap == AdjustRequestSize(Wrap(n + a + BlkStruct), a)
      f == LocateFree(h, IF n # 0 /\ a > Align THEN withGap ELSE n)
      gap == AlignedGap(ToPtr(f.blk), a)
      t == IF gap = 0 THEN f ELSE TrimFreeLeading(f.heap, f.blk, gap)
  IN  IF f.blk = None THEN [heap |-> h, ptr |-> None]
      ELSE [heap |-> PrepareUsed(t.heap, t.blk, n), ptr |-> ToPtr(t.blk)]

FreeFrom(h, p) == MergeAndInsert(MarkAsFree(h, FromPtr(p)), FromPtr(p))

(* nod_mmheap_realloc of a pointer to a size that is not 0.                *)
ReallocFrom(h, p, size) ==
  LET x == FromPtr(p)
      n == AdjustRequestSize(size, Align)
      next == BlkNext(h, x)
      combined == Size(h, x) + Size(h, next) + Overhead
      a == AllocFrom(h, size)
      grown == IF n > Size(h, x) THEN MarkAsUsed(MergeNext(h, x), x) ELSE h
  IN  IF n > Size(h, x) /\ (~h.hdr[next].free \/ n > combined)
      THEN IF a.ptr = None THEN a ELSE [heap |-> FreeFrom(a.heap, p), ptr |-> a.ptr]
      ELSE [heap |-> TrimUsed(grown, x, n), ptr |-> p]

------------------------------------------------------------------------------
(* A call for size bytes that gave up pointer old, if it was one, and      *)
(* returned r.                                                             *)
Answered(size, old, r) ==
  /\ heap' = r.heap
  /\ live' = IF r.ptr = None THEN live
             ELSE [p \in (DOMAIN live \ {old}) \cup {r.ptr} |-> IF p = r.ptr THEN size ELSE live[p]]

Init == heap = HeapInit /\ live = [p \in {} |-> 0] /\ odd = {}

Room == Cardinality(DOMAIN live) < MaxLive /\ odd = {}

Alloc(size) ==
  Room /\ Answered(size, None, AllocFrom(heap, size)) /\ UNCHANGED odd

Calloc(num, size) ==
  /\ Room
  /\ Answered(num * size, None, AllocFrom(heap, Wrap(num * size)))
  /\ odd' = IF num * size # Wrap(num * size) /\ live' # live THEN odd \cup {"calloc_wraps"} ELSE odd

AlignedAlloc(size, a) ==
  Room /\ Answered(size, None, AlignedAllocFrom(heap, size, a)) /\ UNCHANGED odd

Realloc(p, size) ==
  /\ odd = {} /\ size # 0
  /\ Answered(size, p, ReallocFrom(heap, p, size))
  /\ odd' = IF AdjustRequestSize(size, Align) = 0 THEN odd \cup {"realloc_huge"} ELSE odd

(* free, and realloc to size 0.                                            *)
Free(p) ==
  /\ odd = {}
  /\ heap' = FreeFrom(heap, p) /\ live' = Restrict(live, DOMAIN live \ {p})
  /\ UNCHANGED odd

(* After a call the program cannot survive there is nothing to say.        *)
Ruined == odd # {} /\ UNCHANGED vars

Next ==
  \/ \E size \in Request :
       Alloc(size) \/ (\E a \in Boundary : AlignedAlloc(size, a))
       \/ (\E p \in DOMAIN live : Realloc(p, size))
  \/ \E q \in Pair : Calloc(q[1], q[2])
  \/ \E p \in DOMAIN live : Free(p)
  \/ Ruined

Spec == Init /\ [][Next]_vars

ASSUME HeapAssumption ==
  /\ SlLog2 \in Nat \ {0} /\ FlMax \in Nat /\ FlMax > FlShift /\ SizeBits > FlMax
  /\ PoolSize \in (BlkMin + 2 * Overhead) .. (BlkMax - 1)
  /\ Request \subseteq 0 .. 2^SizeBits - 1 /\ Boundary \subseteq {2^k : k \in 0 .. FlMax}
  /\ Pair \subseteq Nat \X Nat /\ MaxLive \in Nat

------------------------------------------------------------------------------
Blocks == DOMAIN heap.hdr
EndBlk == Overhead + AlignDown(PoolSize - 2 * Overhead, Align)
FreeBlocks == {x \in Blocks : heap.hdr[x].free}

(* The blocks tile the pool from its start to the block of size 0 at its   *)
(* end, each header says whether the one before it is free and, if it is,  *)
(* where it begins (what blk_merge_prev relies on), and no two neighbours  *)
(* are free: free and the trimming of realloc have merged them.            *)
BlocksTile ==
  odd = {} =>
    /\ Blocks = {0} \cup {BlkNext(heap, x) : x \in Blocks \ {EndBlk}}
    /\ heap.hdr[EndBlk].size = 0 /\ ~heap.hdr[EndBlk].free /\ ~heap.hdr[0].prevFree
    /\ \A x \in Blocks \ {EndBlk} :
         LET n == heap.hdr[BlkNext(heap, x)]
         IN  /\ Size(heap, x) >= BlkMin /\ Size(heap, x) % Align = 0
             /\ n.prevFree = heap.hdr[x].free
             /\ heap.hdr[x].free => n.prev = x /\ ~n.free

(* A free block is in the list of its size and in no other, a block in use *)
(* in none, and the bitmaps that blk_search_suitable looks at have a bit   *)
(* exactly for the lists that are not empty.                               *)
FreeListed ==
  odd = {} =>
    /\ \A c \in Class :
         /\ ToSet(heap.list[c]) = {x \in FreeBlocks : MappingInsert(Size(heap, x)) = c}
         /\ IsInjective(heap.list[c])
    /\ heap.sl = {c \in Class : heap.list[c] # <<>>}
    /\ heap.fl = {c[1] : c \in heap.sl}

(* The blocks in use are those handed out and not freed, and each has the  *)
(* room asked for: nothing leaks, no two allocations overlap.              *)
LiveHaveRoom ==
  odd = {} =>
    /\ {ToPtr(x) : x \in (Blocks \ FreeBlocks) \ {EndBlk}} = DOMAIN live
    /\ \A p \in DOMAIN live : Size(heap, FromPtr(p)) >= live[p]

(* nod_mmheap_alloc returns NULL only when no free block reaches the       *)
(* request rounded up to the step of its size class: fragmentation apart,  *)
(* memory that was freed can be had again.  What nod_mmheap_aligned_alloc  *)
(* returns is aligned.                                                     *)
RefusedForWant ==
  odd = {} =>
    /\ \A size \in Request \cap 1 .. BlkMax :
         AllocFrom(heap, size).ptr = None =>
           LET n == AdjustRequestSize(size, Align)
               step == IF n < SmallBlock THEN Align ELSE 2^(Fls(n) - SlLog2)
           IN  \A x \in FreeBlocks : Size(heap, x) < AlignUp(n, step)
    /\ \A size \in Request, a \in Boundary :
         LET p == AlignedAllocFrom(heap, size, a).ptr IN p # None => p % a = 0

(* `Change the size of the memory block pointed to by ptr to size bytes'   *)
(* (mmheap.h), for every size.                                             *)
ReallocHasRoom ==
  odd = {} =>
    \A p \in DOMAIN live, size \in Request \ {0} :
      LET r == ReallocFrom(heap, p, size)
      IN  r.ptr # None => Size(r.heap, FromPtr(r.ptr)) >= size
==============================================================================
