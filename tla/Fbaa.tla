-------------------------------- MODULE Fbaa --------------------------------
(***************************************************************************)
(* fbaa.c: the fixed-block array allocator.  An fbaa_t owns size blocks of *)
(* block_size bytes and a free list of block numbers, kept in an array a   *)
(* ring buffer indexes; full_blocks says of each block whether a caller    *)
(* has it.  A block is taken from the front of the free list and given     *)
(* back to its front, so the block freed last is the next one handed out.  *)
(*                                                                         *)
(* The record is the struct with the arrays it points to.  Addresses are   *)
(* byte offsets from its memory pointer, NULL a value that is none.        *)
(***************************************************************************)
EXTENDS RingBuffer

Allocator(size, flist_rb, flist_mem, full_blocks) ==
  [size |-> size, flist_rb |-> flist_rb, flist_mem |-> flist_mem,
   full_blocks |-> full_blocks]

FbBlocks(size) == 0 .. size - 1

FbType(size) ==
  [size : {size}, flist_rb : RingType(size),
   flist_mem : [RingSlots(size) -> FbBlocks(size)],
   full_blocks : [FbBlocks(size) -> {0, 1}]]

\* What fbaa_malloc_index returns when no block is left, and fbaa_malloc.
NoBlock     == -1
NullAddress == -1

-----------------------------------------------------------------------------
(* Wrong variants of the operations, for the mutation checks.              *)

\* The block stays in the free list.
FbMallocNoPop(a) ==
  IF RbSize(a.flist_rb) = 0 THEN a
  ELSE Allocator(a.size, a.flist_rb, a.flist_mem,
         [a.full_blocks EXCEPT ![a.flist_mem[RbFront(a.flist_rb)]] = 1])

\* A block that is not full is put on the free list once more.
FbFreeIndexUnchecked(a, block_index) ==
  Allocator(a.size, RbPushFront(a.flist_rb),
    [a.flist_mem EXCEPT ![RbPushFrontSlot(a.flist_rb)] = block_index],
    [a.full_blocks EXCEPT ![block_index] = 0])

-----------------------------------------------------------------------------

\* The loop of fbaa_init and fbaa_clear: the numbers 0 .. size - 1 are pushed
\* to the back of an empty ring, which comes round to slot 0, full.
FbFresh(size) ==
  Allocator(size, Ring(0, 0, size, size), [i \in RingSlots(size) |-> i],
            [b \in FbBlocks(size) |-> 0])

FbInit(size) == FbFresh(size)

FbClear(a) == FbFresh(a.size)

FbMallocIndex(a) ==
  IF RbSize(a.flist_rb) = 0 THEN NoBlock ELSE a.flist_mem[RbFront(a.flist_rb)]

\* The allocator after fbaa_malloc_index.
FbMalloc(a) ==
  IF RbSize(a.flist_rb) = 0 THEN a
  ELSE Allocator(a.size, RbPopFront(a.flist_rb), a.flist_mem,
                 [a.full_blocks EXCEPT ![FbMallocIndex(a)] = 1])

\* The allocator after fbaa_free_index; a block no caller has is left alone.
FbFreeIndex(a, block_index) ==
  IF a.full_blocks[block_index] = 0 THEN a
  ELSE Allocator(a.size, RbPushFront(a.flist_rb),
         [a.flist_mem EXCEPT ![RbPushFrontSlot(a.flist_rb)] = block_index],
         [a.full_blocks EXCEPT ![block_index] = 0])

\* The address of a block, and the block an address lies in.
FbAddress(block_index, block_size) == block_index * block_size
FbBlockAt(mem, block_size)         == mem \div block_size

FbAvailable(a) == RbSize(a.flist_rb)

-----------------------------------------------------------------------------

\* The block number at position i of the free list, 0 being its front.
FbFreeAt(a, i) == a.flist_mem[RbSlot(a.flist_rb, i)]

FbFreePositions(a) == 0 .. a.flist_rb.size - 1

\* The free list and full_blocks tell the same story: the list holds every
\* block no caller has, each once, and no block a caller has.
FbExact(a) ==
  /\ \A i, j \in FbFreePositions(a) : FbFreeAt(a, i) = FbFreeAt(a, j) => i = j
  /\ \A b \in FbBlocks(a.size) :
       a.full_blocks[b] = 0 <=> \E i \in FbFreePositions(a) : FbFreeAt(a, i) = b
=============================================================================
