------------------------- MODULE RingFbaaPoolProofs -------------------------
(***************************************************************************)
(* RingFbaaPool for every number of blocks and every block size.  The      *)
(* three invariants that the run checks are inductive only together: the   *)
(* node allocator follows the block allocator because every call finds     *)
(* them equal, the list holds the nodes of the blocks that are out because *)
(* the node it is given is out of the free list, and that free list is     *)
(* exact because only nodes of blocks that are out are given back.         *)
(***************************************************************************)
EXTENDS RingFbaaPool, ContainerProofs

Out(a) == {b \in Blocks : a.ll_alloc.full_blocks[b] = 1}

\* The three invariants, of any allocator, but for the list.
Sound(a) ==
  /\ a \in RfType(N)
  /\ a.mem_alloc = a.ll_alloc
  /\ \A b \in Blocks : a.mem_alloc.full_blocks[b] = 1 =>
       a.ll_nodes[b] = b /\ a.block_index[b] = b
  /\ FbExact(a.ll_alloc)

\* The blocks of s are out, in the order of the list.
Holds(a, s) ==
  /\ Sound(a)
  /\ s \in Seq(Blocks) /\ Represents(a.ll, s) /\ Range(s) = Out(a)

IInv == TypeOK /\ TwinPools /\ ListHoldsLive

\* The numbers of blocks serve as list nodes.
LEMMA BlocksAreNodes == Blocks \in SUBSET Nat /\ N \in Nat \ {0}
BY NAssumption DEF Blocks, FbBlocks

\* The sequence a list represents is the one Order chooses.
LEMMA OrderIs ==
  ASSUME NEW nodes \in SUBSET Nat, NEW l, NEW s \in Seq(nodes), Represents(l, s)
  PROVE  Linked(l, nodes) /\ Order(l, nodes) = s
<1>1. s \in Orders(l, nodes)
  BY RepresentsParts DEF Orders
<1>2. ASSUME NEW t \in Orders(l, nodes), Represents(l, t) PROVE t = s
  <2>1. l.size \in Nat
    BY RepresentsParts
  <2>2. t \in Seq(nodes)
    BY <2>1 DEF Orders
  <2>3. QED BY <1>2, <2>2, OneOrder
<1>3. QED BY <1>1, <1>2 DEF Linked, Order

\* The invariant says that the allocator holds some sequence of blocks.
LEMMA InvHolds ==
  ASSUME IInv
  PROVE  \E s \in Seq(Blocks) : Holds(alloc, s)
<1>1. PICK s \in Orders(alloc.ll, Blocks) : Represents(alloc.ll, s)
  BY DEF IInv, ListHoldsLive, Linked
<1>2. alloc.ll.size \in Nat
  BY LlFields DEF IInv, TypeOK, RfType, Blocks
<1>3. s \in Seq(Blocks)
  BY <1>2 DEF Orders
<1>4. Order(alloc.ll, Blocks) = s
  BY <1>1, <1>3, BlocksAreNodes, OrderIs
<1>5. Range(s) = Out(alloc)
  BY <1>4 DEF IInv, ListHoldsLive, ToSet, Range, Out
<1>6. Sound(alloc)
  BY DEF IInv, TypeOK, TwinPools, ListHoldsLive, Sound
<1>7. QED BY <1>1, <1>3, <1>5, <1>6 DEF Holds

\* What Holds says of the list and of its allocator.
LEMMA HoldsParts ==
  ASSUME NEW a, NEW s, Holds(a, s)
  PROVE  /\ Linked(a.ll, Blocks) /\ FbExact(a.ll_alloc)
         /\ ToSet(Order(a.ll, Blocks)) = {n \in Blocks : a.ll_alloc.full_blocks[n] = 1}
<1>1. Linked(a.ll, Blocks) /\ Order(a.ll, Blocks) = s
  BY BlocksAreNodes, OrderIs DEF Holds
<1>2. QED BY <1>1 DEF Holds, Sound, ToSet, Range, Out

\* The age order of the blocks is that of the list.
AgeOf(a) == LET nodes == Order(a.ll, Blocks)
            IN  [i \in DOMAIN nodes |-> a.block_index[nodes[i]]]

\* The age list that the refinement reads is the sequence held.
LEMMA AgeIs ==
  ASSUME NEW a, NEW s, Holds(a, s)
  PROVE  AgeOf(a) = s
<1>1. Order(a.ll, Blocks) = s
  BY BlocksAreNodes, OrderIs DEF Holds
<1>2. /\ DOMAIN s = 1 .. Len(s) /\ Len(s) \in Nat
      /\ s = [i \in DOMAIN s |-> s[i]]
  BY DEF Holds
<1>3. \A i \in DOMAIN s : a.block_index[s[i]] = s[i]
  BY DEF Holds, Sound, Out, Range
<1>4. [i \in DOMAIN s |-> a.block_index[s[i]]] = s
  BY <1>2, <1>3
<1>5. QED BY <1>1, <1>4 DEF AgeOf

\* What the invariant says of each field of ring_fbaa_t.
LEMMA RfFields ==
  ASSUME NEW a, Sound(a)
  PROVE  /\ a.mem_alloc = a.ll_alloc
         /\ a.ll_alloc \in FbType(N) /\ a.ll \in LlType(Blocks)
         /\ a.ll_nodes \in [Blocks -> Blocks \cup {Wild}]
         /\ a.block_index \in [Blocks -> Blocks \cup {Wild}]
         /\ FbExact(a.ll_alloc)
         /\ a.ll_alloc.full_blocks \in [Blocks -> {0, 1}]
         /\ \A b \in Out(a) : a.ll_nodes[b] = b /\ a.block_index[b] = b
<1>1. /\ a.mem_alloc = a.ll_alloc /\ FbExact(a.ll_alloc)
      /\ a.ll_alloc \in FbType(N) /\ a.ll \in LlType(Blocks)
      /\ a.ll_nodes \in [Blocks -> Blocks \cup {Wild}]
      /\ a.block_index \in [Blocks -> Blocks \cup {Wild}]
  BY DEF Sound, RfType, Blocks
<1>2. a.ll_alloc.full_blocks \in [Blocks -> {0, 1}]
  BY <1>1, BlocksAreNodes, FbFields DEF Blocks
<1>3. QED BY <1>1, <1>2 DEF Sound, Out

\* An allocator is put together from its parts.
LEMMA PutTogether ==
  ASSUME NEW f \in FbType(N), FbExact(f), NEW l \in LlType(Blocks),
         NEW nodes \in [Blocks -> Blocks \cup {Wild}],
         NEW index \in [Blocks -> Blocks \cup {Wild}],
         \A b \in Blocks : f.full_blocks[b] = 1 => nodes[b] = b /\ index[b] = b,
         NEW s \in Seq(Blocks), Represents(l, s),
         Range(s) = {b \in Blocks : f.full_blocks[b] = 1}
  PROVE  Holds(RingAllocator(f, f, l, nodes, index), s)
<1> DEFINE a == RingAllocator(f, f, l, nodes, index)
<1>1. /\ a.mem_alloc = f /\ a.ll_alloc = f /\ a.ll = l /\ a.ll_nodes = nodes
      /\ a.block_index = index
  BY DEF RingAllocator
<1>2. a \in RfType(N)
  BY DEF RingAllocator, RfType, Blocks
<1> HIDE DEF a
<1>3. Sound(a)
  BY <1>1, <1>2 DEF Sound
<1>4. Range(s) = Out(a)
  BY <1>1 DEF Out
<1>5. Holds(a, s)
  BY <1>1, <1>3, <1>4 DEF Holds
<1>6. QED BY <1>5 DEF a

-----------------------------------------------------------------------------
(* What the operations do to an allocator that holds s.                    *)

\* rfbaa_init and rfbaa_clear.
LEMMA FreshHolds ==
  ASSUME NEW l, l.prev \in [Blocks -> Blocks \cup {NoNode, Wild}],
         l.next \in [Blocks -> Blocks \cup {NoNode, Wild}],
         NEW nodes \in [Blocks -> Blocks \cup {Wild}],
         NEW index \in [Blocks -> Blocks \cup {Wild}]
  PROVE  Holds(RingAllocator(FbFresh(N), FbFresh(N), LlInit(l), nodes, index), <<>>)
<1>1. /\ FbFresh(N) \in FbType(N) /\ FbExact(FbFresh(N))
      /\ \A b \in Blocks : FbFresh(N).full_blocks[b] = 0
  BY BlocksAreNodes, FbFreshExact DEF Blocks
<1>2. LlInit(l) \in LlType(Blocks) /\ Represents(LlInit(l), <<>>)
  BY BlocksAreNodes, LlInitEffect
<1>3. <<>> \in Seq(Blocks) /\ Range(<<>>) = {}
  BY DEF Range
<1>4. {b \in Blocks : FbFresh(N).full_blocks[b] = 1} = {}
  BY <1>1
<1>5. QED BY <1>1, <1>2, <1>3, <1>4, PutTogether

\* A new allocator holds nothing.
LEMMA InitHolds == Holds(RfInit(N), <<>>)
<1>1. /\ LlMemory(Blocks).prev \in [Blocks -> Blocks \cup {NoNode, Wild}]
      /\ LlMemory(Blocks).next \in [Blocks -> Blocks \cup {NoNode, Wild}]
  BY DEF LlMemory, List
<1>2. [b \in Blocks |-> Wild] \in [Blocks -> Blocks \cup {Wild}]
  OBVIOUS
<1>3. QED BY <1>1, <1>2, FreshHolds DEF RfInit, FbInit, Blocks

\* rfbaa_clear leaves nothing held.
LEMMA ClearHolds ==
  ASSUME NEW a, Sound(a)
  PROVE  Holds(RfClear(a), <<>>)
<1>1. FbClear(a.mem_alloc) = FbFresh(N) /\ FbClear(a.ll_alloc) = FbFresh(N)
  BY RfFields, BlocksAreNodes, FbFields DEF FbClear
<1>2. QED BY <1>1, RfFields, LlFields, FreshHolds DEF RfClear

\* rfbaa_malloc_index: there is a node for every block.
LEMMA MallocHolds ==
  ASSUME NEW a, NEW s, Holds(a, s)
  PROVE  LET b == RfMallocIndex(a) IN
         \/ b = NoBlock /\ RfMalloc(a) = a /\ Range(s) = Blocks
         \/ b \in Blocks \ Range(s) /\ Holds(RfMalloc(a), Append(s, b))
<1> DEFINE f == a.ll_alloc
           b == FbMallocIndex(f)
<1>0. /\ Sound(a) /\ a.mem_alloc = f /\ f \in FbType(N) /\ FbExact(f)
      /\ f.full_blocks \in [Blocks -> {0, 1}] /\ a.ll \in LlType(Blocks)
      /\ s \in Seq(Blocks) /\ Represents(a.ll, s) /\ Range(s) = Out(a)
  BY RfFields DEF Holds
<1>1. RfMallocIndex(a) = b
  BY <1>0 DEF RfMallocIndex
<1>2. CASE RbSize(f.flist_rb) = 0
  <2>1. b = NoBlock /\ RfMalloc(a) = a
    BY <1>0, <1>2 DEF FbMallocIndex, RfMalloc
  <2>2. \A c \in Blocks : f.full_blocks[c] = 1
    BY <1>0, <1>2, BlocksAreNodes, FbEmptyIsAllOut DEF Blocks
  <2>3. Range(s) = Blocks
    BY <1>0, <2>2 DEF Out
  <2>4. QED BY <1>1, <2>1, <2>3
<1>3. CASE RbSize(f.flist_rb) # 0
  <2>1. /\ b \in Blocks /\ f.full_blocks[b] = 0
        /\ FbMalloc(f) \in FbType(N) /\ FbExact(FbMalloc(f))
        /\ FbMalloc(f).full_blocks = [f.full_blocks EXCEPT ![b] = 1]
    BY <1>0, <1>3, BlocksAreNodes, FbMallocEffect DEF Blocks
  <2> DEFINE g == FbMalloc(f)
             l == LlPushBack(a.ll, b)
             nodes == [a.ll_nodes EXCEPT ![b] = b]
             index == [a.block_index EXCEPT ![b] = b]
             t == Append(s, b)
  <2>2. RfMalloc(a) = RingAllocator(g, g, l, nodes, index)
    <3>1. b # NoBlock
      BY <2>1, BlocksAreNodes DEF NoBlock
    <3>2. QED BY <1>0, <3>1 DEF RfMalloc
  <2> HIDE DEF b
  <2>3. b \notin Range(s)
    BY <1>0, <2>1 DEF Out
  <2>4. l \in LlType(Blocks) /\ Represents(l, t)
    BY <1>0, <2>1, <2>3, BlocksAreNodes, LlPushBackEffect
  <2>5. t \in Seq(Blocks) /\ Range(t) = Range(s) \cup {b}
    BY <1>0, <2>1, AppendedRange
  <2> HIDE DEF l, t
  <2>6. Range(t) = {c \in Blocks : g.full_blocks[c] = 1}
    BY <1>0, <2>1, <2>5 DEF Out
  <2>7. /\ nodes \in [Blocks -> Blocks \cup {Wild}]
        /\ index \in [Blocks -> Blocks \cup {Wild}]
        /\ \A c \in Blocks : g.full_blocks[c] = 1 => nodes[c] = c /\ index[c] = c
    BY <1>0, <2>1, RfFields DEF Out
  <2> HIDE DEF g, nodes, index
  <2>8. g \in FbType(N) /\ FbExact(g)
    BY <2>1 DEF g
  <2>9. Holds(RfMalloc(a), t)
    BY <2>2, <2>4, <2>5, <2>6, <2>7, <2>8, PutTogether
  <2>10. QED BY <1>1, <2>1, <2>3, <2>9 DEF t
<1>4. QED BY <1>2, <1>3

\* A block that is out has a place in the list, and its number is the number
\* of its node; one that is not out is left alone.
LEMMA OutBlock ==
  ASSUME NEW a, NEW s, Holds(a, s), NEW b \in Blocks
  PROVE  IF b \in Range(s)
         THEN /\ a.mem_alloc.full_blocks[b] = 1 /\ a.ll_nodes[b] = b
              /\ a.block_index[b] = b /\ \E i \in 1 .. Len(s) : s[i] = b
         ELSE a.mem_alloc.full_blocks[b] = 0
<1>1. /\ a.mem_alloc = a.ll_alloc /\ a.ll_alloc.full_blocks \in [Blocks -> {0, 1}]
      /\ \A c \in Out(a) : a.ll_nodes[c] = c /\ a.block_index[c] = c
      /\ Range(s) = Out(a) /\ DOMAIN s = 1 .. Len(s)
  BY RfFields DEF Holds
<1>2. QED BY <1>1 DEF Out, Range

\* rfbaa_oldest_index is the first of the blocks held.
LEMMA OldestIs ==
  ASSUME NEW a, NEW s, Holds(a, s)
  PROVE  /\ s = <<>> => a.ll.first = NoNode /\ RfOldestIndex(a) = NoBlock
         /\ s # <<>> => /\ a.ll.first = s[1] /\ s[1] \in Blocks /\ s[1] \in Range(s)
                        /\ a.ll.first # NoNode /\ RfOldestIndex(a) = s[1]
<1>1. a.ll.first = IF s = <<>> THEN NoNode ELSE s[1]
  BY DEF Holds, Represents
<1>2. ASSUME s # <<>> PROVE s[1] \in Blocks /\ s[1] \in Range(s) /\ s[1] # NoNode
  <2>1. 1 \in DOMAIN s /\ s[1] \in Blocks
    BY <1>2 DEF Holds
  <2>2. QED BY <2>1, BlocksAreNodes DEF Range, NoNode
<1>3. s # <<>> => a.block_index[s[1]] = s[1]
  BY <1>2, OutBlock
<1>4. QED BY <1>1, <1>2, <1>3 DEF RfOldestIndex

\* rfbaa_free_index of the block in the i-th place.
LEMMA FreeHolds ==
  ASSUME NEW a, NEW s, Holds(a, s), NEW i \in 1 .. Len(s)
  PROVE  Holds(RfFreeIndex(a, s[i]), RemoveAt(s, i))
<1> DEFINE f == a.ll_alloc
           b == s[i]
           g == FbFreeIndex(f, b)
           l == LlDelete(a.ll, b)
           t == RemoveAt(s, i)
<1>0. /\ a.mem_alloc = f /\ f \in FbType(N) /\ FbExact(f)
      /\ f.full_blocks \in [Blocks -> {0, 1}] /\ a.ll \in LlType(Blocks)
      /\ s \in Seq(Blocks) /\ Represents(a.ll, s) /\ Range(s) = Out(a)
      /\ a.ll_nodes \in [Blocks -> Blocks \cup {Wild}]
      /\ a.block_index \in [Blocks -> Blocks \cup {Wild}]
      /\ \A c \in Out(a) : a.ll_nodes[c] = c /\ a.block_index[c] = c
  BY RfFields DEF Holds
<1>1. b \in Blocks /\ b \in Range(s)
  BY <1>0 DEF Range
<1>2. f.full_blocks[b] = 1 /\ a.ll_nodes[b] = b
  BY <1>0, <1>1 DEF Out
<1>3. RfFreeIndex(a, b) = RingAllocator(g, g, l, a.ll_nodes, a.block_index)
  BY <1>0, <1>2 DEF RfFreeIndex
<1>4. l \in LlType(Blocks) /\ Represents(l, t)
  BY <1>0, BlocksAreNodes, LlDeleteEffect
<1>5. \A j, k \in 1 .. Len(s) : s[j] = s[k] => j = k
  BY <1>0 DEF Represents
<1>6. t \in Seq(Blocks) /\ Range(t) = Range(s) \ {b}
  BY <1>0, <1>5, RemoveAtEffect, RemovedRange
<1> HIDE DEF b, t, l
<1>7. /\ g \in FbType(N) /\ FbExact(g)
      /\ g.full_blocks = [f.full_blocks EXCEPT ![b] = 0]
  BY <1>0, <1>1, <1>2, BlocksAreNodes, FbFreeEffect DEF Blocks
<1> HIDE DEF g
<1>8. Range(t) = {c \in Blocks : g.full_blocks[c] = 1}
  BY <1>0, <1>1, <1>6, <1>7 DEF Out
<1>9. \A c \in Blocks : g.full_blocks[c] = 1 => a.ll_nodes[c] = c /\ a.block_index[c] = c
  BY <1>0, <1>1, <1>7 DEF Out
<1>10. /\ t \in Seq(Blocks) /\ a.ll_nodes \in [Blocks -> Blocks \cup {Wild}]
       /\ a.block_index \in [Blocks -> Blocks \cup {Wild}]
  BY <1>0, <1>6
<1>11. g \in FbType(N) /\ FbExact(g)
  BY <1>7
<1>12. Holds(RingAllocator(g, g, l, a.ll_nodes, a.block_index), t)
  BY ONLY <1>4, <1>8, <1>9, <1>10, <1>11, PutTogether
<1>13. Holds(RfFreeIndex(a, b), t)
  BY <1>3, <1>12
<1>14. QED BY <1>13 DEF b, t

\* rfbaa_free_oldest frees the first of the list.
LEMMA FreeOldestHolds ==
  ASSUME NEW a, NEW s, Holds(a, s)
  PROVE  /\ s = <<>> => RfFreeOldest(a) = a
         /\ s # <<>> => Holds(RfFreeOldest(a), Tail(s))
<1>1. CASE s = <<>>
  BY <1>1, OldestIs DEF RfFreeOldest
<1>2. CASE s # <<>>
  <2>1. /\ a.ll.first = s[1] /\ s[1] # NoNode /\ a.block_index[s[1]] = s[1]
        /\ a.ll_nodes[s[1]] = s[1] /\ a.mem_alloc.full_blocks[s[1]] = 1
    BY <1>2, OldestIs, OutBlock
  <2>2. RfFreeOldest(a) = RfFreeIndex(a, s[1])
    BY <2>1 DEF RfFreeOldest, RfFreeIndex
  <2>3. s \in Seq(Blocks) /\ 1 \in 1 .. Len(s)
    BY <1>2 DEF Holds
  <2>4. RemoveAt(s, 1) = Tail(s)
    BY <1>2, <2>3, RemoveAtFront
  <2>5. QED BY <1>2, <2>2, <2>3, <2>4, FreeHolds
<1>3. QED BY <1>1, <1>2

\* rfbaa_renew_index of the block in the i-th place.
LEMMA RenewHolds ==
  ASSUME NEW a, NEW s, Holds(a, s), NEW i \in 1 .. Len(s)
  PROVE  Holds(RfRenewIndex(a, s[i]), Append(RemoveAt(s, i), s[i]))
<1> DEFINE f == a.ll_alloc
           b == s[i]
           l == LlDelete(a.ll, b)
           m == LlPushBack(l, b)
           t == RemoveAt(s, i)
           u == Append(t, b)
<1>0. /\ a.mem_alloc = f /\ f \in FbType(N) /\ FbExact(f) /\ a.ll \in LlType(Blocks)
      /\ s \in Seq(Blocks) /\ Represents(a.ll, s) /\ Range(s) = Out(a)
      /\ a.ll_nodes \in [Blocks -> Blocks \cup {Wild}]
      /\ a.block_index \in [Blocks -> Blocks \cup {Wild}]
      /\ \A c \in Out(a) : a.ll_nodes[c] = c /\ a.block_index[c] = c
  BY RfFields DEF Holds
<1>1. b \in Blocks /\ b \in Range(s)
  BY <1>0 DEF Range
<1>2. f.full_blocks[b] = 1 /\ a.ll_nodes[b] = b
  BY <1>0, <1>1 DEF Out
<1>3. RfRenewIndex(a, b) = RingAllocator(f, f, m, a.ll_nodes, a.block_index)
  BY <1>0, <1>2 DEF RfRenewIndex
<1>4. l \in LlType(Blocks) /\ Represents(l, t)
  BY <1>0, BlocksAreNodes, LlDeleteEffect
<1>5. \A j, k \in 1 .. Len(s) : s[j] = s[k] => j = k
  BY <1>0 DEF Represents
<1>6. t \in Seq(Blocks) /\ Range(t) = Range(s) \ {b}
  BY <1>0, <1>5, RemoveAtEffect, RemovedRange
<1> HIDE DEF b, t, l
<1>7. m \in LlType(Blocks) /\ Represents(m, u)
  BY <1>1, <1>4, <1>6, BlocksAreNodes, LlPushBackEffect
<1>8. u \in Seq(Blocks) /\ Range(u) = Range(s)
  <2>1. u \in Seq(Blocks) /\ Range(u) = Range(t) \cup {b}
    BY <1>1, <1>6, AppendedRange
  <2>2. QED BY <1>1, <1>6, <2>1
<1> HIDE DEF m, u
<1>9. \A c \in Blocks : f.full_blocks[c] = 1 => a.ll_nodes[c] = c /\ a.block_index[c] = c
  BY <1>0 DEF Out
<1>10. Range(u) = {c \in Blocks : f.full_blocks[c] = 1}
  BY <1>0, <1>8 DEF Out
<1>11. Holds(RfRenewIndex(a, b), u)
  BY <1>0, <1>3, <1>7, <1>8, <1>9, <1>10, PutTogether
<1>12. QED BY <1>11 DEF b, t, u

-----------------------------------------------------------------------------
(* The machine.                                                            *)

\* Every address inside the memory lies in one of the blocks.
LEMMA BlockOfAddress ==
  ASSUME NEW mem \in Addresses
  PROVE  FbBlockAt(mem, BlockSize) \in Blocks
BY NAssumption, BlockSizeAssumption, BlockOfAnAddress DEF Addresses, Blocks

\* The invariant holds of a new allocator.
LEMMA InvInit == Init => IInv
<1> SUFFICES ASSUME Init PROVE IInv
  OBVIOUS
<1>1. Holds(alloc, <<>>)
  BY InitHolds DEF Init
<1>2. QED BY <1>1, HoldsParts DEF Holds, Sound, IInv, TypeOK, TwinPools, ListHoldsLive

\* A call on a block in the list, or on one that is not.
LEMMA FreeStep ==
  ASSUME NEW s, Holds(alloc, s), NEW b \in Blocks, alloc' = RfFreeIndex(alloc, b)
  PROVE  \/ b \notin Range(s) /\ Holds(alloc', s)
         \/ \E i \in 1 .. Len(s) : s[i] = b /\ Holds(alloc', RemoveAt(s, i))
<1>1. CASE b \notin Range(s)
  <2>1. alloc' = alloc
    BY <1>1, OutBlock DEF RfFreeIndex
  <2>2. QED BY <1>1, <2>1
<1>2. CASE b \in Range(s)
  <2>1. PICK i \in 1 .. Len(s) : s[i] = b
    BY <1>2, OutBlock
  <2>2. Holds(alloc', RemoveAt(s, i))
    BY <2>1, FreeHolds
  <2>3. QED BY <2>1, <2>2
<1>3. QED BY <1>1, <1>2

\* rfbaa_renew_index moves a block that is held to the end, and does nothing to another.
LEMMA RenewStep ==
  ASSUME NEW s, Holds(alloc, s), NEW b \in Blocks, alloc' = RfRenewIndex(alloc, b)
  PROVE  \/ b \notin Range(s) /\ Holds(alloc', s)
         \/ \E i \in 1 .. Len(s) : s[i] = b /\ Holds(alloc', Append(RemoveAt(s, i), b))
<1>1. CASE b \notin Range(s)
  <2>1. alloc' = alloc
    BY <1>1, OutBlock DEF RfRenewIndex
  <2>2. QED BY <1>1, <2>1
<1>2. CASE b \in Range(s)
  <2>1. PICK i \in 1 .. Len(s) : s[i] = b
    BY <1>2, OutBlock
  <2>2. Holds(alloc', Append(RemoveAt(s, i), b))
    BY <2>1, RenewHolds
  <2>3. QED BY <2>1, <2>2
<1>3. QED BY <1>1, <1>2

\* Each step leaves an allocator that holds a sequence.
LEMMA StepHolds ==
  ASSUME NEW s, Holds(alloc, s), [Next]_vars
  PROVE  \E t : Holds(alloc', t)
<1>1. CASE MallocIndex \/ Malloc
  <2>1. alloc' = RfMalloc(alloc)
    BY <1>1 DEF MallocIndex, Malloc
  <2>2. QED BY <2>1, MallocHolds
<1>2. ASSUME NEW b \in Blocks, FreeIndex(b) PROVE \E t : Holds(alloc', t)
  BY <1>2, FreeStep DEF FreeIndex
<1>3. ASSUME NEW b \in Blocks, RenewIndex(b) PROVE \E t : Holds(alloc', t)
  BY <1>3, RenewStep DEF RenewIndex
<1>4. ASSUME NEW mem \in Addresses, Free(mem) PROVE \E t : Holds(alloc', t)
  BY <1>4, BlockOfAddress, FreeStep DEF Free
<1>5. ASSUME NEW mem \in Addresses, Renew(mem) PROVE \E t : Holds(alloc', t)
  BY <1>5, BlockOfAddress, RenewStep DEF Renew
<1>6. CASE FreeOldest
  BY <1>6, FreeOldestHolds DEF FreeOldest
<1>7. CASE Clear
  BY <1>7, ClearHolds DEF Clear, Holds
<1>8. CASE OldestIndex \/ Oldest \/ UNCHANGED vars
  <2>1. alloc' = alloc
    BY <1>8 DEF OldestIndex, Oldest, vars
  <2>2. QED BY <2>1
<1>9. QED BY <1>1, <1>2, <1>3, <1>4, <1>5, <1>6, <1>7, <1>8 DEF Next

\* Every call keeps the invariant.
LEMMA InvStep == IInv /\ [Next]_vars => IInv'
<1> SUFFICES ASSUME IInv, [Next]_vars PROVE IInv'
  OBVIOUS
<1>1. PICK t : Holds(alloc', t)
  BY InvHolds, StepHolds
<1>2. /\ Linked(alloc'.ll, Blocks) /\ FbExact(alloc'.ll_alloc)
      /\ ToSet(Order(alloc'.ll, Blocks))
           = {n \in Blocks : alloc'.ll_alloc.full_blocks[n] = 1}
  BY <1>1, HoldsParts
<1>3. QED BY <1>1, <1>2 DEF Holds, Sound, IInv, TypeOK, TwinPools, ListHoldsLive

\* The invariant holds in every reachable state.
LEMMA InvAlways == Spec => []IInv
<1>1. QED BY InvInit, InvStep, PTL DEF Spec

\* No index and no list pointer of ring_fbaa.c leaves its array.
THEOREM TypeCorrect == Spec => []TypeOK
<1>1. IInv => TypeOK
  BY DEF IInv
<1>2. QED BY <1>1, InvAlways, PTL

\* rfbaa_malloc_index never writes through the pointer of a node that is not
\* there: the two allocators are in the same state after every call.
THEOREM PoolsStayTwins == Spec => []TwinPools
<1>1. IInv => TwinPools
  BY DEF IInv
<1>2. QED BY <1>1, InvAlways, PTL

\* The list links the nodes of exactly the blocks that are out, so no node is
\* linked twice and none is unlinked that is not linked.
THEOREM ListAlwaysHoldsLive == Spec => []ListHoldsLive
<1>1. IInv => ListHoldsLive
  BY DEF IInv
<1>2. QED BY <1>1, InvAlways, PTL

-----------------------------------------------------------------------------
(* The refinement.  Age is the sequence the list holds.                    *)

\* The age list before a call.
LEMMA AgeNow ==
  ASSUME NEW s, Holds(alloc, s)
  PROVE  Age = s
BY AgeIs DEF Age, AgeOf

\* The age list after a call.
LEMMA AgeNext ==
  ASSUME NEW s, Holds(alloc', s)
  PROVE  Age' = s
BY AgeIs DEF Age, AgeOf

\* A returned address stands for the block it is the address of.
LEMMA AddressBlock ==
  ASSUME NEW b \in Blocks \cup {NoBlock}, ret' = AddressOf(b)
  PROVE  RetBlock' = b
<1>1. CASE b = NoBlock
  <2>1. ret' = Returned("address", NullAddress)
    BY <1>1 DEF AddressOf
  <2>2. QED BY <1>1, <2>1 DEF RetBlock, Returned, NoBlock, NullAddress
<1>2. CASE b # NoBlock
  <2>1. b \in Blocks
    BY <1>2
  <2>2. /\ FbAddress(b, BlockSize) # NullAddress
        /\ FbAddress(b, BlockSize) \div BlockSize = b
    BY <2>1, NAssumption, BlockSizeAssumption, AddressOfABlock DEF Blocks, NullAddress
  <2>3. ret' = Returned("address", FbAddress(b, BlockSize))
    BY <1>2 DEF AddressOf
  <2>4. QED BY <2>2, <2>3 DEF RetBlock, Returned
<1>3. QED BY <1>1, <1>2

\* A call that returns nothing hands out no block.
LEMMA NothingBlock == ret' = Nothing => RetBlock' = NoBlock
BY DEF Nothing, RetBlock, Returned

\* A call that returns an index hands out that block.
LEMMA IndexBlock == ASSUME NEW b, ret' = Returned("index", b) PROVE RetBlock' = b
BY DEF RetBlock, Returned

\* Every call is a step of the abstract age-ordered pool, or none.
LEMMA PoolStep == IInv /\ [Next]_vars => [Pool!Next]_Pool!vars
<1> SUFFICES ASSUME IInv, Next \/ UNCHANGED vars
             PROVE  Pool!Next \/ UNCHANGED Pool!vars
  BY DEF vars
<1>1. PICK s \in Seq(Blocks) : Holds(alloc, s)
  BY InvHolds
<1>2. /\ Age = s /\ Pool!ToSet(s) = Range(s) /\ DOMAIN s = 1 .. Len(s)
      /\ \A i : Pool!RemoveAt(s, i) = RemoveAt(s, i)
  BY <1>1, AgeNow DEF Pool!ToSet, Range, Pool!RemoveAt, RemoveAt
<1>3. ASSUME alloc' = RfMalloc(alloc), RetBlock' = RfMallocIndex(alloc)
      PROVE  Pool!Malloc
  <2> DEFINE b == RfMallocIndex(alloc)
  <2>1. CASE b = NoBlock /\ alloc' = alloc /\ Range(s) = Blocks
    <3>1. Age' = s
      BY <1>1, <2>1, AgeNext
    <3>2. QED BY <1>2, <1>3, <2>1, <3>1 DEF Pool!Malloc
  <2>2. CASE b \in Blocks \ Range(s) /\ Holds(alloc', Append(s, b))
    <3>1. Age' = Append(s, b)
      BY <2>2, AgeNext
    <3>2. QED BY <1>2, <1>3, <2>2, <3>1 DEF Pool!Malloc
  <2>3. QED BY <1>1, <1>3, <2>1, <2>2, MallocHolds
<1>4. CASE MallocIndex
  <2>1. RetBlock' = RfMallocIndex(alloc)
    BY <1>4, IndexBlock DEF MallocIndex
  <2>2. QED BY <1>3, <1>4, <2>1 DEF MallocIndex, Pool!Next
<1>5. CASE Malloc
  <2>1. RfMallocIndex(alloc) \in Blocks \cup {NoBlock}
    BY <1>1, MallocHolds
  <2>2. RetBlock' = RfMallocIndex(alloc)
    BY <1>5, <2>1, AddressBlock DEF Malloc
  <2>3. QED BY <1>3, <1>5, <2>2 DEF Malloc, Pool!Next
<1>6. ASSUME NEW b \in Blocks, alloc' = RfFreeIndex(alloc, b), ret' = Nothing
      PROVE  Pool!Next
  <2>1. CASE b \notin Range(s) /\ Holds(alloc', s)
    <3>1. Age' = s
      BY <2>1, AgeNext
    <3>2. Pool!Free(b)
      BY <1>2, <1>6, <2>1, <3>1, NothingBlock DEF Pool!Free
    <3>3. QED BY <3>2 DEF Pool!Next
  <2>2. ASSUME NEW i \in 1 .. Len(s), s[i] = b, Holds(alloc', RemoveAt(s, i))
        PROVE  Pool!Next
    <3>1. Age' = RemoveAt(s, i)
      BY <2>2, AgeNext
    <3>2. Pool!Free(b)
      BY <1>2, <1>6, <2>2, <3>1, NothingBlock DEF Pool!Free
    <3>3. QED BY <3>2 DEF Pool!Next
  <2>3. QED BY <1>1, <1>6, <2>1, <2>2, FreeStep
<1>7. ASSUME NEW b \in Blocks, alloc' = RfRenewIndex(alloc, b), ret' = Nothing
      PROVE  Pool!Next
  <2>1. CASE b \notin Range(s) /\ Holds(alloc', s)
    <3>1. Age' = s
      BY <2>1, AgeNext
    <3>2. Pool!Renew(b)
      BY <1>2, <1>7, <2>1, <3>1, NothingBlock DEF Pool!Renew
    <3>3. QED BY <3>2 DEF Pool!Next
  <2>2. ASSUME NEW i \in 1 .. Len(s), s[i] = b, Holds(alloc', Append(RemoveAt(s, i), b))
        PROVE  Pool!Next
    <3>1. Age' = Append(RemoveAt(s, i), b)
      BY <2>2, AgeNext
    <3>2. Pool!Renew(b)
      BY <1>2, <1>7, <2>2, <3>1, NothingBlock DEF Pool!Renew
    <3>3. QED BY <3>2 DEF Pool!Next
  <2>3. QED BY <1>1, <1>7, <2>1, <2>2, RenewStep
<1>8. ASSUME NEW b \in Blocks, FreeIndex(b) \/ RenewIndex(b) PROVE Pool!Next
  BY <1>6, <1>7, <1>8 DEF FreeIndex, RenewIndex
<1>9. ASSUME NEW mem \in Addresses, Free(mem) \/ Renew(mem) PROVE Pool!Next
  BY <1>6, <1>7, <1>9, BlockOfAddress DEF Free, Renew
<1>10. CASE OldestIndex \/ Oldest
  <2>1. RfOldestIndex(alloc) = (IF s = <<>> THEN NoBlock ELSE Head(s))
        /\ RfOldestIndex(alloc) \in Blocks \cup {NoBlock}
    BY <1>1, OldestIs
  <2>2. alloc' = alloc
    BY <1>10 DEF OldestIndex, Oldest
  <2>3. RetBlock' = RfOldestIndex(alloc)
    BY <1>10, <2>1, IndexBlock, AddressBlock DEF OldestIndex, Oldest
  <2>4. Age' = s
    BY <1>1, <2>2, AgeNext
  <2>5. QED BY <1>2, <2>1, <2>3, <2>4 DEF Pool!Next, Pool!Oldest
<1>11. CASE FreeOldest
  <2>1. RetBlock' = NoBlock
    BY <1>11, NothingBlock DEF FreeOldest
  <2>2. Age' = IF s = <<>> THEN <<>> ELSE Tail(s)
    <3>1. CASE s = <<>>
      BY <1>1, <1>11, <3>1, FreeOldestHolds, AgeNext DEF FreeOldest
    <3>2. CASE s # <<>>
      BY <1>1, <1>11, <3>2, FreeOldestHolds, AgeNext DEF FreeOldest
    <3>3. QED BY <3>1, <3>2
  <2>3. QED BY <1>2, <2>1, <2>2 DEF Pool!Next, Pool!FreeOldest
<1>12. CASE Clear
  <2>1. Age' = <<>>
    BY <1>1, <1>12, ClearHolds, AgeNext DEF Clear, Holds
  <2>2. RetBlock' = NoBlock
    BY <1>12, NothingBlock DEF Clear
  <2>3. QED BY <2>1, <2>2 DEF Pool!Next, Pool!Clear
<1>13. CASE UNCHANGED vars
  BY <1>13 DEF vars, Age, RetBlock, Pool!vars
<1>14. QED BY <1>4, <1>5, <1>8, <1>9, <1>10, <1>11, <1>12, <1>13 DEF Next

\* ring_fbaa.c is the pool AgePool promises: the oldest block is the one that
\* was allocated or renewed longest ago, and what a call returns is it.
THEOREM RefinesAgePool == Spec => AgeSpec
<1>1. Init => Pool!Init
  <2> SUFFICES ASSUME Init PROVE Pool!Init
    OBVIOUS
  <2>1. Age = <<>>
    BY InitHolds, AgeNow DEF Init
  <2>2. RetBlock = NoBlock
    BY DEF Init, Nothing, RetBlock, Returned
  <2>3. QED BY <2>1, <2>2 DEF Pool!Init
<1>2. QED BY <1>1, InvAlways, PoolStep, PTL DEF Spec, AgeSpec, Pool!Spec
=============================================================================
