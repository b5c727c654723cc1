------------------------------ MODULE MemPool ------------------------------
(***************************************************************************)
(* The memory pool of 8_mem_pool/MemPool.c.  The program is sequential: an *)
(* action is one call of the interface, from entry to return.  Memory is   *)
(* counted in words of 8 bytes, so that a piece's header (MP_PIECE) is one *)
(* word and a bucket's descriptor (MP_BUCKET) three.                       *)
(*                                                                         *)
(* The client follows the interface's rules: it frees what it was given    *)
(* and has not freed yet, and nothing of before a reset.                   *)
(***************************************************************************)
EXTENDS Integers, FiniteSets

CONSTANTS
  BlockSize,    \* words of data in a block
  Sizes,        \* words a client may ask for
  MaxFail,      \* MP_MAX_BLOCK_FAIL_TIME, 4 in the code
  MaxBlocks,    \* bound: blocks of the pool
  MaxRefusals   \* bound: refusals of posix_memalign in the life of a pool

Header == 1                   \* sizeof(MP_PIECE)
Descriptor == 3               \* sizeof(MP_BUCKET)
Blocks == 1..MaxBlocks
NullBlock == 0

\* A descriptor fits a block: MP_MIN_BLK_SZIE is 16 words.
ASSUME SizesAssumption ==
  /\ BlockSize \in Nat /\ BlockSize >= Header + Descriptor
  /\ Sizes \subseteq Nat \ {0}
ASSUME BoundsAssumption ==
  MaxFail \in Nat \ {0} /\ MaxBlocks \in Nat \ {0} /\ MaxRefusals \in Nat

VARIABLES
  n,         \* number of blocks, 0 without a pool; block b's next is b + 1
  auto,      \* auto_clear
  current,   \* current_block
  used,      \* used[b]: words of block b below its start_of_rest
  failed,    \* failed[b]: failed_time, only told apart below MaxFail
  refs,      \* refs[b]: ref_counter
  buckets,   \* the pieces of the descriptors in the list from first_bucket; the order
             \* of the list decides only which unused one is taken first
  big,       \* the descriptors whose start_of_bucket is not NULL
  pieces,    \* the pieces the client has, with block, offset and length
  lost,      \* a field was read that nothing had written; see Uninitialised
  refusals   \* how often posix_memalign has refused

pool == <<n, auto, current, used, failed, refs, buckets, big>>
vars == <<pool, pieces, lost, refusals>>

\* Where a piece may be, its header included.
Area == [blk : Blocks, off : Nat, len : Nat \ {0}]

TypeOK ==
  /\ n \in 0..MaxBlocks /\ auto \in BOOLEAN /\ current \in 0..n
  /\ used \in [Blocks -> Nat] /\ failed \in [Blocks -> 0..MaxFail]
  /\ refs \in [Blocks -> Nat]
  /\ buckets \subseteq Area /\ big \subseteq buckets
  /\ pieces \subseteq Area
  /\ lost \in BOOLEAN /\ refusals \in 0..MaxRefusals

Zero == [b \in Blocks |-> 0]

Init ==
  /\ n = 0 /\ auto = FALSE /\ current = NullBlock
  /\ used = Zero /\ failed = Zero /\ refs = Zero
  /\ buckets = {} /\ big = {} /\ pieces = {}
  /\ lost = FALSE /\ refusals = 0

\* mp_create_pool: the first block comes with the pool.
Create ==
  /\ n = 0
  /\ auto' \in BOOLEAN /\ n' = 1 /\ current' = 1
  /\ UNCHANGED <<used, failed, refs, buckets, big, pieces, lost, refusals>>

-----------------------------------------------------------------------------
(* Operators named Bad... are wrong variants of the definition that follows *)
(* them; no specification uses them.                                       *)

Refuse == refusals < MaxRefusals /\ refusals' = refusals + 1

\* rest_block_space is unsigned: a block that was overrun seems to have all the
\* room in the world.
Fits(b, len) == used[b] > BlockSize \/ BlockSize - used[b] >= len

\* The blocks malloc_a_piece looks at, from current_block on: those before the first
\* one with room, which all fail once more.
Candidates(len) == {b \in 1..n : current # NullBlock /\ b >= current /\ Fits(b, len)}
Passed(len) ==
  {b \in 1..n : current # NullBlock /\ b >= current /\ \A c \in Candidates(len) : b < c}
FailedAfter(len) ==
  [b \in Blocks |-> IF b \in Passed(len) /\ failed[b] < MaxFail THEN failed[b] + 1
                    ELSE failed[b]]

\* The last of them that has failed too often hands current_block on to its next.
TooOften(f) == f >= MaxFail
GivenUp(len) == {b \in Passed(len) : TooOften(FailedAfter(len)[b])}
NextOf(b) == IF b = n THEN NullBlock ELSE b + 1

Look(len) ==
  /\ failed' = FailedAfter(len)
  /\ \/ GivenUp(len) = {} /\ current' = current
     \/ \E b \in GivenUp(len) : /\ \A c \in GivenUp(len) : c =< b
                               /\ current' = NextOf(b)

\* malloc_a_piece finds room in block b.
InBlock(b, len) ==
  /\ b \in Candidates(len) /\ \A c \in Candidates(len) : b =< c
  /\ n' = n

\* malloc_a_block: a new block, whatever its size, goes to the end of the list,
\* which is sought from current_block.  No step is defined when that is NULL.
InNewBlock(b, len) ==
  /\ Candidates(len) = {} /\ current # NullBlock /\ n \notin GivenUp(len)
  /\ b = n + 1 /\ b \in Blocks
  /\ n' = b

\* A piece of len words in block b; held tells whether its reference remains.
Carve(b, len, held) ==
  /\ InBlock(b, len) \/ InNewBlock(b, len)
  /\ used' = [used EXCEPT ![b] = @ + len]
  /\ refs' = [refs EXCEPT ![b] = @ + held]
  /\ Look(len)

\* malloc_a_piece ends without a piece.
NoPiece(len) ==
  /\ Candidates(len) = {} /\ Refuse
  /\ Look(len)
  /\ UNCHANGED <<n, used, refs>>

MallocPiece(size) ==
  /\ n > 0 /\ size =< BlockSize
  /\ \/ \E b \in Blocks :
          /\ Carve(b, size + Header, 1)
          /\ pieces' = pieces \cup {[blk |-> b, off |-> used[b], len |-> size + Header]}
          /\ UNCHANGED refusals
     \/ NoPiece(size + Header) /\ UNCHANGED pieces
  /\ UNCHANGED <<auto, buckets, big, lost>>

-----------------------------------------------------------------------------
(* Requests larger than a block get memory of their own                    *)

\* The fields next and start_of_bucket of a new descriptor are read before anything
\* is written there: they hold NULL or what was there before.  In the second case
\* the list goes on into memory that is no descriptor, and what a later walk along it
\* does is undefined: no step is modelled but Undefined.
Uninitialised == lost' \in BOOLEAN

WalkIsDefined == ~lost

\* A descriptor that was freed is used again: it gets its reference back, unless the
\* memory is refused.
BadOneMore(b) == refs
OneMore(b) == [refs EXCEPT ![b] = @ + 1]

ReuseDescriptor ==
  /\ \E d \in buckets \ big :
       \/ big' = big \cup {d} /\ refs' = OneMore(d.blk) /\ UNCHANGED refusals
       \/ Refuse /\ UNCHANGED <<big, refs>>
  /\ UNCHANGED <<n, current, used, failed, buckets, lost>>

NewDescriptor ==
  LET len == Header + Descriptor
  IN /\ buckets = big
     /\ \/ \E b \in Blocks :
             LET d == [blk |-> b, off |-> used[b], len |-> len]
             IN /\ buckets' = buckets \cup {d}
                /\ Uninitialised
                /\ \/ Carve(b, len, 1) /\ big' = big \cup {d} /\ UNCHANGED refusals
                   \/ Carve(b, len, 0) /\ Refuse /\ UNCHANGED big
        \/ NoPiece(len) /\ UNCHANGED <<buckets, big, lost>>

MallocBucket(size) ==
  /\ n > 0 /\ size > BlockSize /\ WalkIsDefined
  /\ ReuseDescriptor \/ NewDescriptor
  /\ UNCHANGED <<auto, pieces>>

-----------------------------------------------------------------------------
(* Giving memory back                                                      *)

BadUnused(r) == r =< 1
Unused(r) == r =< 0

BadWithout(b) == buckets
Without(b) == {d \in buckets : d.blk # b}

\* clear_block: the block is as new, the descriptors in it leave the list with the
\* memory they may still have, and current_block goes back to the first block.
ClearBlock(b, left) ==
  /\ refs' = [refs EXCEPT ![b] = 0]
  /\ failed' = [failed EXCEPT ![b] = 0]
  /\ used' = [used EXCEPT ![b] = 0]
  /\ current' = 1
  /\ buckets' = Without(b)
  /\ big' = {d \in left : d.blk # b}

\* The end of mp_free; left are the buckets that keep their memory.
Release(b, left) ==
  \/ /\ auto /\ Unused(refs[b] - 1)
     /\ ClearBlock(b, left)
  \/ /\ ~(auto /\ Unused(refs[b] - 1))
     /\ refs' = [refs EXCEPT ![b] = @ - 1]
     /\ big' = left
     /\ UNCHANGED <<failed, used, current, buckets>>

FreePiece(p) ==
  /\ p \in pieces /\ WalkIsDefined
  /\ pieces' = pieces \ {p}
  /\ Release(p.blk, big)
  /\ UNCHANGED <<n, auto, lost, refusals>>

FreeBucket(d) ==
  /\ d \in big /\ WalkIsDefined
  /\ Release(d.blk, big \ {d})
  /\ UNCHANGED <<n, auto, pieces, lost, refusals>>

\* mp_reset_pool keeps the blocks and forgets what is in them.
Emptied ==
  /\ used' = Zero /\ failed' = Zero /\ refs' = Zero
  /\ buckets' = {} /\ big' = {} /\ pieces' = {}

Reset ==
  /\ n > 0 /\ WalkIsDefined
  /\ Emptied /\ current' = 1
  /\ UNCHANGED <<n, auto, lost, refusals>>

\* mp_destroy_pool frees the blocks after that.
Destroy ==
  /\ n > 0 /\ WalkIsDefined
  /\ Emptied /\ current' = NullBlock /\ n' = 0
  /\ auto' = FALSE /\ refusals' = 0
  /\ UNCHANGED lost

Undefined == ~WalkIsDefined /\ UNCHANGED vars

Next ==
  \/ Create \/ Reset \/ Destroy \/ Undefined
  \/ \E size \in Sizes : MallocPiece(size) \/ MallocBucket(size)
  \/ \E p \in pieces : FreePiece(p)
  \/ \E d \in big : FreeBucket(d)

Spec == Init /\ [][Next]_vars
-----------------------------------------------------------------------------
(* Safety                                                                  *)

\* A block's counter is the number of the client's allocations in it: pieces, and
\* buckets whose descriptor is there (MemPool.c:49, 102, 109, 262).
RefsCountUsers ==
  \A b \in 1..n : refs[b] = Cardinality({p \in pieces : p.blk = b})
                            + Cardinality({d \in big : d.blk = b})

\* Pieces and listed descriptors, headers included, never overlap, and none reaches
\* into the part of its block that is still to be handed out (MemPool.c:47-48, 181-183).
Disjoint(x, y) == x.blk # y.blk \/ x.off + x.len =< y.off \/ y.off + y.len =< x.off
NoOverlap ==
  /\ pieces \cap buckets = {}
  /\ \A x, y \in pieces \cup buckets : x # y => Disjoint(x, y)
  /\ \A x \in pieces \cup buckets : x.blk =< n /\ x.off + x.len =< used[x.blk]

\* No block is handed out beyond its end, provided that no request lies between a
\* block's size without a header and its whole size (MemPool.c:45, 227).
InsideBlocks == \A b \in 1..n : used[b] =< BlockSize

\* Allocations lie apart and inside their blocks (MemPool.c:45, 47-48, 181-183, 227).
LaidOut == TypeOK /\ NoOverlap /\ InsideBlocks

\* current_block is in the list, so that its end can be found from there, as long as
\* too few requests for memory are refused to give up the last block (MemPool.c:31, 57).
Lengths == {size + Header : size \in {s \in Sizes : s =< BlockSize}} \cup {Header + Descriptor}
EndCanBeFound == n > 0 => current # NullBlock /\ \A len \in Lengths : n \notin GivenUp(len)

\* With auto_clear an unused block is empty again, but for the descriptor a refused
\* bucket left in it (MemPool.c:109, 267).
UnusedIsEmpty ==
  auto => \A b \in 1..n : refs[b] = 0 /\ used[b] > 0 => \E d \in buckets : d.blk = b

\* What reuse rests on: true counters, a list whose end is found, and empty blocks
\* where nothing is used (MemPool.c:31, 57, 109, 262, 267).
Reusable == RefsCountUsers /\ EndCanBeFound /\ UnusedIsEmpty

\* The client sees an allocator of disjoint allocations that never takes one back
\* (MemPool.c:38, 75, 237, 272).
Words(p) == {<<p.blk, w>> : w \in (p.off + Header)..(p.off + p.len - 1)}
Heap == INSTANCE Allocator
          WITH live <- {Words(p) : p \in pieces} \cup {{<<NullBlock, d>>} : d \in big}
ImplementsAllocator == Heap!Spec
=============================================================================
