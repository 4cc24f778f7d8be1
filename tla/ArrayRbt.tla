------------------------------ MODULE ArrayRbt ------------------------------
(***************************************************************************)
(* array_rbt.c: a red-black tree whose nodes are the blocks of an fbaa_t,  *)
(* and a caller that keeps the rules the code leaves to it, as the session *)
(* server does: it asks arbt_contains before it inserts, reads, changes or *)
(* deletes a key, and available before it inserts.  rbt_delete does not    *)
(* always give up the node that held the key, so arbt_delete must free     *)
(* the one it returns.                                                     *)
(***************************************************************************)
EXTENDS Rbt, Fbaa

VARIABLES rbt,             \* the tree
          node_allocator,  \* the blocks of its nodes
          ret              \* the question, the key and the answer, or Null

vars == <<rbt, node_allocator, ret>>

Blocks == FbBlocks(N)

Init == rbt = RbtInit /\ node_allocator = FbInit(N) /\ ret = Null

-----------------------------------------------------------------------------
(* A wrong variant of arbt_delete, for the mutation checks: it frees the   *)
(* node a search for the key finds.                                        *)
DeletedByFind(key) == RbtFind(rbt, key)

-----------------------------------------------------------------------------

Insert(key, val) ==
  /\ RbtFind(rbt, key) = Null /\ FbAvailable(node_allocator) > 0
  /\ node_allocator' = FbMalloc(node_allocator)
  /\ rbt' = RbtInsert(rbt, InitNode(FbMallocIndex(node_allocator), key, val))
  /\ ret' = Null

Modify(key, val) ==
  /\ RbtFind(rbt, key) # Null
  /\ rbt' = [rbt EXCEPT !.root = Write(@, key, val)]
  /\ ret' = Null
  /\ UNCHANGED node_allocator

\* The node rbt_delete gives back to its caller.
Deleted(key) == RbtDeleted(rbt, key)

Delete(key) ==
  /\ RbtFind(rbt, key) # Null
  /\ node_allocator' = FbFreeIndex(node_allocator, Deleted(key).id)
  /\ rbt' = RbtDelete(rbt, key)
  /\ ret' = Null

Get(key) ==
  /\ RbtFind(rbt, key) # Null
  /\ ret' = <<"get", key, RbtFind(rbt, key).val>>
  /\ UNCHANGED <<rbt, node_allocator>>

ContainsKey(key) ==
  /\ ret' = <<"contains", key, IF RbtFind(rbt, key) = Null THEN 0 ELSE 1>>
  /\ UNCHANGED <<rbt, node_allocator>>

Clear ==
  node_allocator' = FbClear(node_allocator) /\ rbt' = RbtInit /\ ret' = Null

Next == \/ \E key \in Key, val \in Val : Insert(key, val) \/ Modify(key, val)
        \/ \E key \in Key : Delete(key) \/ Get(key) \/ ContainsKey(key)
        \/ Clear

Spec == Init /\ [][Next]_vars

-----------------------------------------------------------------------------

\* The blocks handed out are the nodes of the tree, one block to a node: no
\* block leaks, none is freed while the tree links it, and none is handed out
\* a second time.
NodesAreBlocks ==
  /\ {n.id : n \in Nodes(rbt.root)} = {b \in Blocks : node_allocator.full_blocks[b] = 1}
  /\ Cardinality({n.id : n \in Nodes(rbt.root)}) = rbt.size
  /\ FbAvailable(node_allocator) = N - rbt.size

\* The pairs the nodes hold.
Pairs ==
  [k \in Keys(rbt.root) |-> (CHOOSE n \in Nodes(rbt.root) : n.key = k).val]

Map == INSTANCE KeyMap WITH map <- Pairs, Capacity <- N, None <- Null

\* It is a map: arbt_get and arbt_contains answer what was inserted or modified
\* last, and a deletion takes away its key and no other, although it moves keys
\* and values between nodes.
MapSpec == Map!Spec
=============================================================================
