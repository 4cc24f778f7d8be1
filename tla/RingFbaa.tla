------------------------------ MODULE RingFbaa ------------------------------
(***************************************************************************)
(* ring_fbaa.c: a block allocator that also knows which of its blocks was  *)
(* allocated or renewed longest ago.  It is put together from two fbaa_t   *)
(* of the same size, one for the blocks and one for list nodes, and a      *)
(* linked list of the nodes of the blocks that are out.  ll_nodes leads    *)
(* from a block to its node, block_index from a node to its block.         *)
(*                                                                         *)
(* A node pointer is the number of its block in ll_alloc: fbaa_malloc and  *)
(* fbaa_free convert one to the other and back.                            *)
(***************************************************************************)
EXTENDS Fbaa, LinkedList

RingAllocator(mem_alloc, ll_alloc, ll, ll_nodes, block_index) ==
  [mem_alloc |-> mem_alloc, ll_alloc |-> ll_alloc, ll |-> ll,
   ll_nodes |-> ll_nodes, block_index |-> block_index]

RfType(size) ==
  [mem_alloc : FbType(size), ll_alloc : FbType(size), ll : LlType(FbBlocks(size)),
   ll_nodes : [FbBlocks(size) -> FbBlocks(size) \cup {Wild}],
   block_index : [FbBlocks(size) -> FbBlocks(size) \cup {Wild}]]

-----------------------------------------------------------------------------
(* Wrong variants of the operations, for the mutation checks.              *)

\* The renewed block goes to the front.
RfRenewToFront(a, b) ==
  IF a.mem_alloc.full_blocks[b] = 0 THEN a
  ELSE RingAllocator(a.mem_alloc, a.ll_alloc,
         LlPushFront(LlDelete(a.ll, a.ll_nodes[b]), a.ll_nodes[b]),
         a.ll_nodes, a.block_index)

\* The node is not given back.
RfFreeOldestLeaksNode(a) ==
  IF a.ll.first = NoNode THEN a
  ELSE RingAllocator(FbFreeIndex(a.mem_alloc, a.block_index[a.ll.first]),
         a.ll_alloc, LlDelete(a.ll, a.ll.first), a.ll_nodes, a.block_index)

\* The list is not emptied.
RfClearKeepsList(a) ==
  RingAllocator(FbClear(a.mem_alloc), FbClear(a.ll_alloc), a.ll,
                a.ll_nodes, a.block_index)
-----------------------------------------------------------------------------

\* rfbaa_init: the arrays of pointers and nodes stay as they were in memory.
RfInit(size) ==
  RingAllocator(FbInit(size), FbInit(size), LlInit(LlMemory(FbBlocks(size))),
                [b \in FbBlocks(size) |-> Wild], [n \in FbBlocks(size) |-> Wild])

RfClear(a) ==
  RingAllocator(FbClear(a.mem_alloc), FbClear(a.ll_alloc), LlInit(a.ll),
                a.ll_nodes, a.block_index)

RfMallocIndex(a) == FbMallocIndex(a.mem_alloc)

\* The allocator after rfbaa_malloc_index.  The node is used unchecked.
RfMalloc(a) ==
  LET b == FbMallocIndex(a.mem_alloc)
      n == FbMallocIndex(a.ll_alloc)
  IN  IF b = NoBlock THEN a
      ELSE RingAllocator(FbMalloc(a.mem_alloc), FbMalloc(a.ll_alloc),
             LlPushBack(a.ll, n), [a.ll_nodes EXCEPT ![b] = n],
             [a.block_index EXCEPT ![n] = b])

\* The allocator after rfbaa_free_index.
RfFreeIndex(a, b) ==
  LET n == a.ll_nodes[b]
  IN  IF a.mem_alloc.full_blocks[b] = 0 THEN a
      ELSE RingAllocator(FbFreeIndex(a.mem_alloc, b), FbFreeIndex(a.ll_alloc, n),
             LlDelete(a.ll, n), a.ll_nodes, a.block_index)

RfOldestIndex(a) ==
  IF a.ll.first = NoNode THEN NoBlock ELSE a.block_index[a.ll.first]

\* The allocator after rfbaa_free_oldest.
RfFreeOldest(a) ==
  LET n == a.ll.first
  IN  IF n = NoNode THEN a
      ELSE RingAllocator(FbFreeIndex(a.mem_alloc, a.block_index[n]),
             FbFreeIndex(a.ll_alloc, n), LlDelete(a.ll, n),
             a.ll_nodes, a.block_index)

\* The allocator after rfbaa_renew_index: the node moves to the end.
RfRenewIndex(a, b) ==
  LET n == a.ll_nodes[b]
  IN  IF a.mem_alloc.full_blocks[b] = 0 THEN a
      ELSE RingAllocator(a.mem_alloc, a.ll_alloc,
             LlPushBack(LlDelete(a.ll, n), n), a.ll_nodes, a.block_index)
=============================================================================
