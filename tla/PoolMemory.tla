----------------------------- MODULE PoolMemory -----------------------------
(***************************************************************************)
(* How fbaa.c, ring_fbaa.c and array_rbt.c lay a pool out in one piece of  *)
(* memory: *_mem_size says how many bytes to ask for, *_new_from_void      *)
(* where each array starts.  The two are written apart and must agree.     *)
(*                                                                         *)
(* Sizes are computed in an int of IntMax + 1 values to each side of zero, *)
(* on which overflow wraps around, the outcome of the usual builds.        *)
(* Structs have the sizes they have with 4-byte int and 8-byte pointers.   *)
(***************************************************************************)
EXTENDS Integers, Sequences

CONSTANT IntMax

ASSUME IntMaxAssumption == IntMax \in Nat /\ IntMax >= 255

SizeofInt           == 4
SizeofPointer       == 8
SizeofFbaa          == 48     \* fbaa_t
SizeofRingFbaa      == 128    \* ring_fbaa_t
SizeofRingFbaaNode  == 24     \* ring_fbaa_ll_node_t
SizeofArrayRbt      == 64     \* array_rbt_t
SizeofRbtNode       == 32     \* rbt_node_t

\* The value an int has after a computation whose exact result is n.
AsInt(n) == ((n + IntMax + 1) % (2 * (IntMax + 1))) - (IntMax + 1)

\* % of C, which takes the sign of size.
Remainder(size, alignment) ==
  IF size >= 0 THEN size % alignment ELSE 0 - ((-size) % alignment)

-----------------------------------------------------------------------------

\* At least one byte more than size, even when size is aligned.
AlignSize(size, alignment) ==
  AsInt(size + (alignment - Remainder(size, alignment)))

\* IARRAY_SIZE, NARRAY_SIZE, PARRAY_SIZE: an array of size elements.
ArraySize(size, element) == AlignSize(AsInt(size * element), 16)

\* Bytes of the memory that belong to one array, or to the struct.
Region(start, bytes) == [start |-> start, bytes |-> bytes]

FbaaMemSize(size, block_size) ==
  AsInt(AlignSize(SizeofFbaa, 16) + 2 * ArraySize(size, SizeofInt)
          + size * block_size)

\* allocator, free_list_mem, full_block_mem and the blocks, in that order.
FbaaLayout(size, block_size) ==
  LET mem    == AlignSize(SizeofFbaa, 16)
      iarray == ArraySize(size, SizeofInt)
  IN  << Region(0, SizeofFbaa),
         Region(mem, size * SizeofInt),
         Region(mem + iarray, size * SizeofInt),
         Region(mem + 2 * iarray, size * block_size) >>

\* A wrong variant, for the mutation checks: the nodes' array is forgotten.
RingFbaaMemSizeNoNodes(size, block_size) ==
  AsInt(AlignSize(SizeofRingFbaa, 16) + 4 * ArraySize(size, SizeofInt)
          + ArraySize(size, SizeofPointer) + size * block_size)

RingFbaaMemSize(size, block_size) ==
  AsInt(AlignSize(SizeofRingFbaa, 16) + 4 * ArraySize(size, SizeofInt)
          + ArraySize(size, SizeofPointer) + ArraySize(size, SizeofRingFbaaNode)
          + size * block_size)

\* allocator, the free lists and flags of both pools, ll_mem, lu_mem, blocks.
RingFbaaLayout(size, block_size) ==
  LET mem    == AlignSize(SizeofRingFbaa, 16)
      iarray == ArraySize(size, SizeofInt)
      narray == ArraySize(size, SizeofRingFbaaNode)
      parray == ArraySize(size, SizeofPointer)
  IN  << Region(0, SizeofRingFbaa),
         Region(mem, size * SizeofInt),
         Region(mem + iarray, size * SizeofInt),
         Region(mem + 2 * iarray, size * SizeofInt),
         Region(mem + 3 * iarray, size * SizeofInt),
         Region(mem + 4 * iarray, size * SizeofRingFbaaNode),
         Region(mem + 4 * iarray + narray, size * SizeofPointer),
         Region(mem + 4 * iarray + narray + parray, size * block_size) >>

ArrayRbtMemSize(size) ==
  AsInt(AlignSize(SizeofArrayRbt, 16) + 2 * ArraySize(size, SizeofInt)
          + size * SizeofRbtNode)

\* arbt, free_list_mem, full_block_mem and the nodes.
ArrayRbtLayout(size) ==
  LET mem    == AlignSize(SizeofArrayRbt, 16)
      iarray == ArraySize(size, SizeofInt)
  IN  << Region(0, SizeofArrayRbt),
         Region(mem, size * SizeofInt),
         Region(mem + iarray, size * SizeofInt),
         Region(mem + 2 * iarray, size * SizeofRbtNode) >>

-----------------------------------------------------------------------------

\* Each region ends before the next one starts, the last one ends inside the
\* memory, and all start where any element type may.
LaidOut(regions, bytes) ==
  /\ \A i \in 1 .. Len(regions) - 1 :
       regions[i].start + regions[i].bytes <= regions[i + 1].start
  /\ regions[Len(regions)].start + regions[Len(regions)].bytes <= bytes
  /\ \A i \in 1 .. Len(regions) : regions[i].start % 16 = 0

\* No more than the bytes a pool has beside size * unit: the struct, and 16
\* bytes at most for each array.
Slack == 256

\* The sizes for which no computation overflows: unit is the number of bytes
\* that all arrays together have for one block.
Representable(size, unit) == size * unit + Slack <= IntMax
=============================================================================
