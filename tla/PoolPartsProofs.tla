--------------------------- MODULE PoolPartsProofs ---------------------------
(***************************************************************************)
(* The two parts of the age-ordered allocator, each with callers of its    *)
(* own.  fbaa.c, for every number of blocks and every block size: the free *)
(* list stays exact, and the allocator is a BlockPool.  linked_list.c, for *)
(* every set of nodes: what the callers asked for is what the pointers     *)
(* say.                                                                    *)
(***************************************************************************)
EXTENDS FbaaPool, ListUse, ContainerProofs

-----------------------------------------------------------------------------
(* fbaa.c.                                                                 *)

\* The invariant of the allocator.
IInv == TypeOK /\ FreeListExact

\* Dividing the address of a block gives the block back.
LEMMA AddressOfBlock ==
  ASSUME NEW b \in Blocks
  PROVE  /\ FbAddress(b, BlockSize) \div BlockSize = b
         /\ FbAddress(b, BlockSize) \in Nat
BY NAssumption, BlockSizeAssumption, AddressOfABlock DEF Blocks

\* Every address inside the memory lies in one of the blocks.
LEMMA BlockOfAddress ==
  ASSUME NEW mem \in Addresses
  PROVE  FbBlockAt(mem, BlockSize) \in Blocks
BY NAssumption, BlockSizeAssumption, BlockOfAnAddress DEF Addresses, Blocks

\* fbaa_free_index, whether the block is out or not.
LEMMA FreeStep ==
  ASSUME IInv, NEW c \in Blocks, alloc' = FbFreeIndex(alloc, c)
  PROVE  /\ IInv'
         /\ {b \in Blocks : alloc.full_blocks[b] = 1}'
              = {b \in Blocks : alloc.full_blocks[b] = 1} \ {c}
<1>0. /\ alloc \in FbType(N) /\ FbExact(alloc)
      /\ alloc.full_blocks \in [Blocks -> {0, 1}]
  BY NAssumption, FbFields DEF IInv, TypeOK, FreeListExact, Blocks
<1>1. CASE alloc.full_blocks[c] = 0
  <2>1. alloc' = alloc
    BY <1>1 DEF FbFreeIndex
  <2>2. QED BY <1>0, <1>1, <2>1 DEF IInv, TypeOK, FreeListExact
<1>2. CASE alloc.full_blocks[c] = 1
  <2>1. /\ alloc' \in FbType(N) /\ FbExact(alloc')
        /\ alloc'.full_blocks = [alloc.full_blocks EXCEPT ![c] = 0]
    BY <1>0, <1>2, NAssumption, FbFreeEffect DEF Blocks
  <2>2. QED BY <1>0, <2>1 DEF IInv, TypeOK, FreeListExact
<1>3. QED BY <1>0, <1>1, <1>2

\* fbaa_clear leaves nothing allocated.
LEMMA ClearStep ==
  ASSUME IInv, alloc' = FbClear(alloc)
  PROVE  IInv' /\ {b \in Blocks : alloc.full_blocks[b] = 1}' = {}
<1>1. alloc' = FbFresh(N)
  BY NAssumption, FbFields DEF IInv, TypeOK, FbClear
<1>2. /\ alloc' \in FbType(N) /\ FbExact(alloc')
      /\ alloc'.full_blocks = [b \in Blocks |-> 0]
  BY <1>1, NAssumption, FbFreshExact DEF Blocks
<1>3. {b \in Blocks : alloc'.full_blocks[b] = 1} = {}
  BY <1>2
<1>4. QED BY <1>2, <1>3 DEF IInv, TypeOK, FreeListExact, Blocks

\* fbaa_malloc_index, whether a block is left or not.
LEMMA MallocStep ==
  ASSUME IInv, alloc' = FbMalloc(alloc)
  PROVE  /\ IInv'
         /\ \/ /\ FbMallocIndex(alloc) = NoBlock
               /\ alloc' = alloc
               /\ {b \in Blocks : alloc.full_blocks[b] = 1} = Blocks
            \/ /\ FbMallocIndex(alloc) \in Blocks
               /\ alloc.full_blocks[FbMallocIndex(alloc)] = 0
               /\ {b \in Blocks : alloc.full_blocks[b] = 1}'
                    = {b \in Blocks : alloc.full_blocks[b] = 1}
                        \cup {FbMallocIndex(alloc)}
<1>0. /\ alloc \in FbType(N) /\ FbExact(alloc)
      /\ alloc.full_blocks \in [Blocks -> {0, 1}]
  BY NAssumption, FbFields DEF IInv, TypeOK, FreeListExact, Blocks
<1>1. CASE RbSize(alloc.flist_rb) = 0
  <2>1. alloc' = alloc /\ FbMallocIndex(alloc) = NoBlock
    BY <1>1 DEF FbMalloc, FbMallocIndex
  <2>2. \A b \in Blocks : alloc.full_blocks[b] = 1
    BY <1>0, <1>1, NAssumption, FbEmptyIsAllOut DEF Blocks
  <2>3. QED BY <2>1, <2>2 DEF IInv, TypeOK, FreeListExact
<1>2. CASE RbSize(alloc.flist_rb) # 0
  <2>1. /\ FbMallocIndex(alloc) \in Blocks
        /\ alloc.full_blocks[FbMallocIndex(alloc)] = 0
        /\ alloc' \in FbType(N) /\ FbExact(alloc')
        /\ alloc'.full_blocks
             = [alloc.full_blocks EXCEPT ![FbMallocIndex(alloc)] = 1]
    BY <1>0, <1>2, NAssumption, FbMallocEffect DEF Blocks
  <2>2. QED BY <1>0, <2>1 DEF IInv, TypeOK, FreeListExact
<1>3. QED BY <1>1, <1>2

\* The invariant holds of a new allocator.
LEMMA InvInit == Init => IInv
BY NAssumption, FbFreshExact DEF Init, FbInit, IInv, TypeOK, FreeListExact

\* Every call keeps the invariant.
LEMMA InvStep == IInv /\ [Next]_vars => IInv'
<1> SUFFICES ASSUME IInv, [Next]_vars PROVE IInv'
  OBVIOUS
<1>1. CASE MallocIndex
  BY <1>1, MallocStep DEF MallocIndex
<1>2. CASE Malloc
  BY <1>2, MallocStep DEF Malloc
<1>3. ASSUME NEW b \in Blocks, FreeIndex(b) PROVE IInv'
  BY <1>3, FreeStep DEF FreeIndex
<1>4. ASSUME NEW mem \in Addresses, Free(mem) PROVE IInv'
  BY <1>4, BlockOfAddress, FreeStep DEF Free
<1>5. CASE Clear
  BY <1>5, ClearStep DEF Clear
<1>6. CASE UNCHANGED vars
  BY <1>6 DEF vars, IInv, TypeOK, FreeListExact
<1>7. QED BY <1>1, <1>2, <1>3, <1>4, <1>5, <1>6 DEF Next

\* Every index the allocator computes stays inside the array it indexes.
THEOREM TypeCorrect == Spec => []TypeOK
<1>1. IInv => TypeOK
  BY DEF IInv
<1>2. QED BY <1>1, InvInit, InvStep, PTL DEF Spec

\* The free list and full_blocks agree forever, whatever is freed and in which
\* order, twice or through an address inside a block.
THEOREM FreeListAlwaysExact == Spec => []FreeListExact
<1>1. IInv => FreeListExact
  BY DEF IInv
<1>2. QED BY <1>1, InvInit, InvStep, PTL DEF Spec

-----------------------------------------------------------------------------

\* Every call is a step of the abstract pool, or none.
LEMMA PoolStep == IInv /\ [Next]_vars => [Pool!Next]_Pool!vars
<1> SUFFICES ASSUME IInv, Next \/ UNCHANGED vars
             PROVE  Pool!Next \/ UNCHANGED Pool!vars
  BY DEF vars
<1> DEFINE live == {b \in Blocks : alloc.full_blocks[b] = 1}
<1>1. ASSUME alloc' = FbMalloc(alloc), RetBlock' = FbMallocIndex(alloc)
      PROVE  Pool!Malloc
  <2>1. CASE /\ FbMallocIndex(alloc) = NoBlock /\ alloc' = alloc /\ live = Blocks
    BY <1>1, <2>1 DEF Pool!Malloc
  <2>2. CASE /\ FbMallocIndex(alloc) \in Blocks
             /\ alloc.full_blocks[FbMallocIndex(alloc)] = 0
             /\ live' = live \cup {FbMallocIndex(alloc)}
    <3>1. FbMallocIndex(alloc) \in Blocks \ live
      BY <2>2
    <3>2. QED BY <1>1, <2>2, <3>1 DEF Pool!Malloc
  <2>3. QED BY <1>1, <2>1, <2>2, MallocStep
<1>2. CASE MallocIndex
  <2>1. RetBlock' = FbMallocIndex(alloc)
    BY <1>2 DEF MallocIndex, RetBlock, Returned
  <2>2. QED BY <1>1, <1>2, <2>1 DEF MallocIndex, Pool!Next
<1>3. CASE Malloc
  <2>1. alloc' = FbMalloc(alloc)
    BY <1>3 DEF Malloc
  <2>2. FbMallocIndex(alloc) = NoBlock \/ FbMallocIndex(alloc) \in Blocks
    BY <2>1, MallocStep
  <2>3. RetBlock' = FbMallocIndex(alloc)
    <3>1. CASE FbMallocIndex(alloc) = NoBlock
      <4>1. ret' = Returned("address", NullAddress)
        BY <1>3, <3>1 DEF Malloc, NoBlock
      <4>2. QED BY <3>1, <4>1 DEF RetBlock, Returned, NullAddress
    <3>2. CASE FbMallocIndex(alloc) \in Blocks
      <4>1. ~(FbMallocIndex(alloc) < 0)
        BY <3>2, NAssumption DEF Blocks, FbBlocks
      <4>2. ret' = Returned("address", FbAddress(FbMallocIndex(alloc), BlockSize))
        BY <1>3, <4>1 DEF Malloc
      <4>3. /\ FbAddress(FbMallocIndex(alloc), BlockSize) # NullAddress
            /\ FbAddress(FbMallocIndex(alloc), BlockSize) \div BlockSize
                 = FbMallocIndex(alloc)
        BY <3>2, AddressOfBlock DEF NullAddress
      <4>4. QED BY <4>2, <4>3 DEF RetBlock, Returned
    <3>3. QED BY <2>2, <3>1, <3>2
  <2>4. QED BY <1>1, <2>1, <2>3 DEF Pool!Next
<1>4. ASSUME NEW c \in Blocks, alloc' = FbFreeIndex(alloc, c),
             ret' = Returned("void", 0)
      PROVE  Pool!Next
  <2>1. live' = live \ {c}
    BY <1>4, FreeStep
  <2>2. RetBlock' = NoBlock
    BY <1>4 DEF RetBlock, Returned
  <2>3. QED BY <2>1, <2>2 DEF Pool!Next, Pool!Free
<1>5. ASSUME NEW c \in Blocks, FreeIndex(c) PROVE Pool!Next
  BY <1>4, <1>5 DEF FreeIndex
<1>6. ASSUME NEW mem \in Addresses, Free(mem) PROVE Pool!Next
  BY <1>4, <1>6, BlockOfAddress DEF Free
<1>7. CASE Clear
  <2>1. live' = {}
    BY <1>7, ClearStep DEF Clear
  <2>2. RetBlock' = NoBlock
    BY <1>7 DEF Clear, RetBlock, Returned
  <2>3. QED BY <2>1, <2>2 DEF Pool!Next, Pool!Clear
<1>8. CASE UNCHANGED vars
  BY <1>8 DEF vars, RetBlock, Pool!vars
<1>9. QED BY <1>2, <1>3, <1>5, <1>6, <1>7, <1>8 DEF Next

\* No block is handed out while a caller has it, an allocation fails only when
\* every block is out, and freeing a block twice is as good as freeing it once.
THEOREM RefinesBlockPool == Spec => PoolSpec
<1>1. Init => Pool!Init
  <2> SUFFICES ASSUME Init PROVE Pool!Init
    OBVIOUS
  <2>1. alloc.full_blocks = [b \in FbBlocks(N) |-> 0]
    BY NAssumption, FbFreshExact DEF Init, FbInit
  <2>2. {b \in Blocks : alloc.full_blocks[b] = 1} = {}
    BY <2>1 DEF Blocks
  <2>3. RetBlock = NoBlock
    BY DEF Init, RetBlock, Returned
  <2>4. QED BY <2>2, <2>3 DEF Pool!Init
<1>2. QED BY <1>1, InvInit, InvStep, PoolStep, PTL DEF Spec, PoolSpec, Pool!Spec

-----------------------------------------------------------------------------
(* linked_list.c.  The invariant is inductive as it stands: what each      *)
(* operation does to a list that holds a sequence is a lemma of            *)
(* ContainerProofs.                                                        *)

\* What is asked for and what the pointers say, with the typing.
UseInv == UseTypeOK /\ AsAsked

\* A node the caller may insert is not in the list.
LEMMA UnlinkedIsOut ==
  ASSUME NEW n \in Unlinked
  PROVE  n \in Nodes /\ n \notin Range(order)
BY DEF Unlinked, ToSet, Range

\* A new list is empty and represents no nodes.
LEMMA UseInvInit == UseInit => UseInv
<1> SUFFICES ASSUME UseInit PROVE UseInv
  OBVIOUS
<1>1. /\ LlMemory(Nodes).prev \in [Nodes -> Nodes \cup {NoNode, Wild}]
      /\ LlMemory(Nodes).next \in [Nodes -> Nodes \cup {NoNode, Wild}]
  BY DEF LlMemory, List
<1>2. list \in LlType(Nodes) /\ Represents(list, <<>>)
  BY <1>1, NodesAssumption, LlInitEffect DEF UseInit
<1>3. QED BY <1>2 DEF UseInit, UseInv, UseTypeOK, AsAsked

\* Every call leaves the pointers as the order asked for.
LEMMA UseInvStep == UseInv /\ [UseNext]_useVars => UseInv'
<1> SUFFICES ASSUME UseInv, [UseNext]_useVars PROVE UseInv'
  OBVIOUS
<1>1. /\ Nodes \in SUBSET Nat /\ list \in LlType(Nodes) /\ order \in Seq(Nodes)
      /\ Represents(list, order) /\ Len(order) \in Nat /\ DOMAIN order = 1 .. Len(order)
  BY NodesAssumption DEF UseInv, UseTypeOK, AsAsked
<1>2. ASSUME NEW n \in Unlinked, PushBack(n) PROVE UseInv'
  <2>1. list' \in LlType(Nodes) /\ Represents(list', order')
    BY <1>1, <1>2, UnlinkedIsOut, LlPushBackEffect DEF PushBack
  <2>2. order' \in Seq(Nodes)
    BY <1>1, <1>2, UnlinkedIsOut DEF PushBack
  <2>3. QED BY <2>1, <2>2 DEF UseInv, UseTypeOK, AsAsked
<1>3. ASSUME NEW n \in Unlinked, PushFront(n) PROVE UseInv'
  <2>1. list' \in LlType(Nodes) /\ Represents(list', order')
    BY <1>1, <1>3, UnlinkedIsOut, LlPushFrontEffect DEF PushFront
  <2>2. order' \in Seq(Nodes)
    BY <1>1, <1>3, UnlinkedIsOut DEF PushFront
  <2>3. QED BY <2>1, <2>2 DEF UseInv, UseTypeOK, AsAsked
<1>4. ASSUME NEW n \in Unlinked, NEW i \in DOMAIN order, InsertAfter(i, n) PROVE UseInv'
  <2>1. list' \in LlType(Nodes) /\ Represents(list', order')
    BY <1>1, <1>4, UnlinkedIsOut, InsertAfterEffect DEF InsertAfter
  <2>2. i + 1 \in 1 .. Len(order) + 1
    BY <1>1
  <2>3. order' \in Seq(Nodes)
    BY <1>1, <1>4, <2>2, UnlinkedIsOut, InsertAtEffect DEF InsertAfter
  <2>4. QED BY <2>1, <2>3 DEF UseInv, UseTypeOK, AsAsked
<1>5. ASSUME NEW n \in Unlinked, NEW i \in DOMAIN order, InsertBefore(i, n) PROVE UseInv'
  <2>1. list' \in LlType(Nodes) /\ Represents(list', order')
    BY <1>1, <1>5, UnlinkedIsOut, InsertBeforeEffect DEF InsertBefore
  <2>2. i \in 1 .. Len(order) + 1
    BY <1>1
  <2>3. order' \in Seq(Nodes)
    BY <1>1, <1>5, <2>2, UnlinkedIsOut, InsertAtEffect DEF InsertBefore
  <2>4. QED BY <2>1, <2>3 DEF UseInv, UseTypeOK, AsAsked
<1>6. ASSUME NEW i \in DOMAIN order, Delete(i) PROVE UseInv'
  <2>1. list' \in LlType(Nodes) /\ Represents(list', order')
    BY <1>1, <1>6, LlDeleteEffect DEF Delete
  <2>2. order' \in Seq(Nodes)
    BY <1>1, <1>6, RemoveAtEffect DEF Delete
  <2>3. QED BY <2>1, <2>2 DEF UseInv, UseTypeOK, AsAsked
<1>7. CASE Reinit
  <2>1. list' \in LlType(Nodes) /\ Represents(list', <<>>)
    BY <1>1, <1>7, LlFields, LlInitEffect DEF Reinit
  <2>2. QED BY <1>7, <2>1 DEF Reinit, UseInv, UseTypeOK, AsAsked
<1>8. CASE UNCHANGED useVars
  BY <1>8 DEF useVars, UseInv, UseTypeOK, AsAsked
<1>9. QED BY <1>2, <1>3, <1>4, <1>5, <1>6, <1>7, <1>8 DEF UseNext

\* The pointers always represent the order asked for.
LEMMA UseInvAlways == UseSpec => []UseInv
<1>1. QED BY UseInvInit, UseInvStep, PTL DEF UseSpec

\* Whatever is linked and unlinked, the ends and the pointers of the nodes
\* name nodes or nothing.
THEOREM UseTypeCorrect == UseSpec => []UseTypeOK
<1>1. UseInv => UseTypeOK
  BY DEF UseInv
<1>2. QED BY <1>1, UseInvAlways, PTL

\* The list the pointers make is the sequence the callers of linked_list.c
\* built, read either way, whatever stale pointers its nodes came with.
THEOREM AlwaysAsAsked == UseSpec => []AsAsked
<1>1. UseInv => AsAsked
  BY DEF UseInv
<1>2. QED BY <1>1, UseInvAlways, PTL
=============================================================================
