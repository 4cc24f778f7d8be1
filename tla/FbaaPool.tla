------------------------------ MODULE FbaaPool ------------------------------
(***************************************************************************)
(* An fbaa_t and the callers of its interface.  Callers may free any block *)
(* and any address inside the allocator's memory, whether it is allocated  *)
(* or not: fbaa_free_index is written to tolerate a second free.           *)
(***************************************************************************)
EXTENDS Fbaa

CONSTANTS N,          \* size: the number of blocks
          BlockSize   \* block_size: bytes in a block

ASSUME NAssumption == N \in Nat \ {0}
ASSUME BlockSizeAssumption == BlockSize \in Nat \ {0}

VARIABLES alloc,  \* the fbaa_t
          ret     \* what the last call returned, and of which kind it is

vars == <<alloc, ret>>

Blocks    == FbBlocks(N)
Addresses == 0 .. N * BlockSize - 1

\* The results a caller sees: a block number, an address, or nothing.
Returned(kind, value) == [kind |-> kind, value |-> value]

Init == alloc = FbInit(N) /\ ret = Returned("void", 0)

MallocIndex ==
  /\ alloc' = FbMalloc(alloc)
  /\ ret' = Returned("index", FbMallocIndex(alloc))

Malloc ==
  /\ alloc' = FbMalloc(alloc)
  /\ ret' = LET block_index == FbMallocIndex(alloc)
            IN  Returned("address", IF block_index < 0 THEN NullAddress
                                    ELSE FbAddress(block_index, BlockSize))

FreeIndex(block_index) ==
  alloc' = FbFreeIndex(alloc, block_index) /\ ret' = Returned("void", 0)

Free(mem) ==
  /\ alloc' = FbFreeIndex(alloc, FbBlockAt(mem, BlockSize))
  /\ ret' = Returned("void", 0)

Clear == alloc' = FbClear(alloc) /\ ret' = Returned("void", 0)

Next == \/ MallocIndex
        \/ Malloc
        \/ \E b \in Blocks : FreeIndex(b)
        \/ \E mem \in Addresses : Free(mem)
        \/ Clear

Spec == Init /\ [][Next]_vars

-----------------------------------------------------------------------------

\* The free list, its indices and the flags stay in their arrays.
TypeOK == alloc \in FbType(N)

\* The free list and full_blocks agree.  A push to the list then always finds
\* room: fbaa_free_index never uses the -1 of a full ring as an index.
FreeListExact == FbExact(alloc)

\* The block a caller was given: for an address, the one it lies in.
RetBlock ==
  CASE ret.kind = "void" -> NoBlock
    [] ret.kind = "index" -> ret.value
    [] ret.kind = "address" ->
         IF ret.value = NullAddress THEN NoBlock ELSE ret.value \div BlockSize

Pool == INSTANCE BlockPool
          WITH Blocks <- Blocks, None <- NoBlock, ret <- RetBlock,
               live <- {b \in Blocks : alloc.full_blocks[b] = 1}

\* No block is handed out while a caller has it, an allocation fails only
\* when all of them are out, and a second free is ignored.
PoolSpec == Pool!Spec
=============================================================================
