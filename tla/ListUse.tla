------------------------------ MODULE ListUse -------------------------------
(***************************************************************************)
(* A linked_list_t and callers that keep its rules: they link nodes that   *)
(* are not linked and unlink nodes that are.  An unlinked node carries the *)
(* stale pointers of its last time in the list, or wild ones.  order is    *)
(* what the calls so far ask for; the code keeps no such thing.            *)
(***************************************************************************)
EXTENDS LinkedList, SequencesExt

CONSTANT Nodes

ASSUME NodesAssumption == Nodes \subseteq Nat

VARIABLES list,   \* the linked_list_t and the nodes' fields
          order   \* the nodes the callers have linked, in the order they chose

useVars == <<list, order>>

Unlinked == Nodes \ ToSet(order)

UseInit == list = LlInit(LlMemory(Nodes)) /\ order = <<>>

PushBack(n)  == list' = LlPushBack(list, n)  /\ order' = Append(order, n)
PushFront(n) == list' = LlPushFront(list, n) /\ order' = <<n>> \o order

InsertAfter(i, n) ==
  /\ list' = LlInsertAfter(list, order[i], n)
  /\ order' = InsertAt(order, i + 1, n)

InsertBefore(i, n) ==
  /\ list' = LlInsertBefore(list, order[i], n)
  /\ order' = InsertAt(order, i, n)

Delete(i) == list' = LlDelete(list, order[i]) /\ order' = RemoveAt(order, i)

\* ll_init of a list in use, as rfbaa_clear does: the nodes keep their fields.
Reinit == list' = LlInit(list) /\ order' = <<>>

UseNext == \/ \E n \in Unlinked : PushBack(n) \/ PushFront(n)
           \/ \E n \in Unlinked, i \in DOMAIN order : InsertAfter(i, n) \/ InsertBefore(i, n)
           \/ \E i \in DOMAIN order : Delete(i)
           \/ Reinit

UseSpec == UseInit /\ [][UseNext]_useVars

-----------------------------------------------------------------------------

\* Every end and every pointer names a node or nothing, or was never written.
UseTypeOK == list \in LlType(Nodes) /\ order \in Seq(Nodes)

\* Both chains, both ends and the size are the sequence the callers built: no
\* stale or wild pointer of an unlinked node is ever followed, and a node can
\* be linked again after it was unlinked.
AsAsked == Represents(list, order)
=============================================================================
