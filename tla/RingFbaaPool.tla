---------------------------- MODULE RingFbaaPool ----------------------------
(***************************************************************************)
(* A ring_fbaa_t and the callers of its interface.  As with fbaa_t, a      *)
(* caller may free or renew any block or any address inside the memory;    *)
(* the code ignores the ones that are not out.                             *)
(***************************************************************************)
EXTENDS RingFbaa, SequencesExt

CONSTANTS N,          \* size: the number of blocks
          BlockSize   \* block_size: bytes in a block

ASSUME NAssumption == N \in Nat \ {0}
ASSUME BlockSizeAssumption == BlockSize \in Nat \ {0}

VARIABLES alloc,  \* the ring_fbaa_t
          ret     \* what the last call returned, and of which kind it is

vars == <<alloc, ret>>

Blocks    == FbBlocks(N)
Addresses == 0 .. N * BlockSize - 1

Returned(kind, value) == [kind |-> kind, value |-> value]
Nothing == Returned("void", 0)

\* The pointer to a block, or NULL for none.
AddressOf(b) ==
  Returned("address", IF b = NoBlock THEN NullAddress ELSE FbAddress(b, BlockSize))

Init == alloc = RfInit(N) /\ ret = Nothing

MallocIndex ==
  alloc' = RfMalloc(alloc) /\ ret' = Returned("index", RfMallocIndex(alloc))

Malloc == alloc' = RfMalloc(alloc) /\ ret' = AddressOf(RfMallocIndex(alloc))

FreeIndex(b) == alloc' = RfFreeIndex(alloc, b) /\ ret' = Nothing

Free(mem) ==
  alloc' = RfFreeIndex(alloc, FbBlockAt(mem, BlockSize)) /\ ret' = Nothing

OldestIndex == ret' = Returned("index", RfOldestIndex(alloc)) /\ UNCHANGED alloc

Oldest == ret' = AddressOf(RfOldestIndex(alloc)) /\ UNCHANGED alloc

FreeOldest == alloc' = RfFreeOldest(alloc) /\ ret' = Nothing

RenewIndex(b) == alloc' = RfRenewIndex(alloc, b) /\ ret' = Nothing

Renew(mem) ==
  alloc' = RfRenewIndex(alloc, FbBlockAt(mem, BlockSize)) /\ ret' = Nothing

Clear == alloc' = RfClear(alloc) /\ ret' = Nothing

Next == \/ MallocIndex
        \/ Malloc
        \/ \E b \in Blocks : FreeIndex(b) \/ RenewIndex(b)
        \/ \E mem \in Addresses : Free(mem) \/ Renew(mem)
        \/ OldestIndex
        \/ Oldest
        \/ FreeOldest
        \/ Clear

Spec == Init /\ [][Next]_vars

-----------------------------------------------------------------------------

\* Block numbers, node pointers and list ends stay in range, or were never
\* written.
TypeOK == alloc \in RfType(N)

\* The block and the node allocator go through the same states: a node is
\* always left for a block that is, so the pointer rfbaa_malloc_index writes
\* through unchecked is never null, and a block and its node have the same
\* number.
TwinPools ==
  /\ alloc.mem_alloc = alloc.ll_alloc
  /\ \A b \in Blocks : alloc.mem_alloc.full_blocks[b] = 1 =>
       alloc.ll_nodes[b] = b /\ alloc.block_index[b] = b

\* The list links the nodes of the blocks that are out and no others.  The
\* operations follow ll_nodes only for a block that is out, so they unlink
\* only nodes that are linked, and a free list that agrees with full_blocks
\* never hands out a node that still is.
ListHoldsLive ==
  /\ Linked(alloc.ll, Blocks)
  /\ FbExact(alloc.ll_alloc)
  /\ ToSet(Order(alloc.ll, Blocks))
       = {n \in Blocks : alloc.ll_alloc.full_blocks[n] = 1}

\* The block a caller was given: for an address, the one it lies in.
RetBlock ==
  CASE ret.kind = "void" -> NoBlock
    [] ret.kind = "index" -> ret.value
    [] ret.kind = "address" ->
         IF ret.value = NullAddress THEN NoBlock ELSE ret.value \div BlockSize

\* The blocks in the order the list links their nodes.
Age == LET nodes == Order(alloc.ll, Blocks)
       IN  [i \in DOMAIN nodes |-> alloc.block_index[nodes[i]]]

Pool == INSTANCE AgePool
          WITH Blocks <- Blocks, None <- NoBlock, age <- Age, ret <- RetBlock

\* The oldest block is the one allocated or renewed longest ago, whatever was
\* freed, renewed or cleared in between.
AgeSpec == Pool!Spec
=============================================================================
