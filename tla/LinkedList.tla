----------------------------- MODULE LinkedList -----------------------------
(***************************************************************************)
(* linked_list.c: an intrusive doubly linked list.  The record is the      *)
(* linked_list_t together with the prev and next fields of every node that *)
(* may be linked into it; a node is named by a natural number.             *)
(*                                                                         *)
(* The operations trust their caller: a node handed to an insertion is in  *)
(* no list, and a node handed to ll_delete is in this one.  ll_delete does *)
(* not touch the fields of the node it unlinks.                            *)
(***************************************************************************)
EXTENDS Integers, Sequences

\* The null pointer, and a pointer nobody has written yet.
NoNode == -1
Wild   == -2

List(size, first, last, prev, next) ==
  [size |-> size, first |-> first, last |-> last, prev |-> prev, next |-> next]

LlType(nodes) ==
  [size : Nat, first : nodes \cup {NoNode}, last : nodes \cup {NoNode},
   prev : [nodes -> nodes \cup {NoNode, Wild}],
   next : [nodes -> nodes \cup {NoNode, Wild}]]

\* What there is before ll_init: nodes whose fields nobody has written.
LlMemory(nodes) ==
  List(0, NoNode, NoNode, [n \in nodes |-> Wild], [n \in nodes |-> Wild])

\* The pointer fields with one of them written, or none if p is null.
Point(field, p, q) == IF p = NoNode THEN field ELSE [field EXCEPT ![p] = q]

-----------------------------------------------------------------------------
(* Wrong variants of the operations, for the mutation checks.              *)

\* The first node is linked and not counted.
LlAddFirstUncounted(l, n) ==
  List(l.size, n, n, [l.prev EXCEPT ![n] = NoNode],
       [l.next EXCEPT ![n] = NoNode])

\* The end of the list is not moved.
LlDeleteKeepsLast(l, node) ==
  List(l.size - 1, IF l.prev[node] = NoNode THEN l.next[node] ELSE l.first,
       l.last, Point(l.prev, l.next[node], l.prev[node]),
       Point(l.next, l.prev[node], l.next[node]))
-----------------------------------------------------------------------------

LlInit(l) == List(0, NoNode, NoNode, l.prev, l.next)

LlAddFirst(l, n) ==
  List(l.size + 1, n, n, [l.prev EXCEPT ![n] = NoNode],
       [l.next EXCEPT ![n] = NoNode])

LlInsertAfter(l, node, new) ==
  List(l.size + 1, l.first, IF l.next[node] = NoNode THEN new ELSE l.last,
       [Point(l.prev, l.next[node], new) EXCEPT ![new] = node],
       [l.next EXCEPT ![new] = l.next[node], ![node] = new])

LlInsertBefore(l, node, new) ==
  List(l.size + 1, IF l.prev[node] = NoNode THEN new ELSE l.first, l.last,
       [l.prev EXCEPT ![new] = l.prev[node], ![node] = new],
       [Point(l.next, l.prev[node], new) EXCEPT ![new] = node])

LlDelete(l, node) ==
  List(l.size - 1,
       IF l.prev[node] = NoNode THEN l.next[node] ELSE l.first,
       IF l.next[node] = NoNode THEN l.prev[node] ELSE l.last,
       Point(l.prev, l.next[node], l.prev[node]),
       Point(l.next, l.prev[node], l.next[node]))

LlPushBack(l, n) ==
  IF l.last = NoNode THEN LlAddFirst(l, n) ELSE LlInsertAfter(l, l.last, n)

LlPushFront(l, n) ==
  IF l.first = NoNode THEN LlAddFirst(l, n) ELSE LlInsertBefore(l, l.first, n)

-----------------------------------------------------------------------------

\* The list links exactly the nodes of s, each once and in this order: the
\* same order whether it is walked from first along next or from last along
\* prev, and as many as size says.
Represents(l, s) ==
  /\ l.size = Len(s)
  /\ l.first = IF s = <<>> THEN NoNode ELSE s[1]
  /\ l.last  = IF s = <<>> THEN NoNode ELSE s[Len(s)]
  /\ \A i \in 1 .. Len(s) :
       /\ l.prev[s[i]] = IF i = 1 THEN NoNode ELSE s[i - 1]
       /\ l.next[s[i]] = IF i = Len(s) THEN NoNode ELSE s[i + 1]
  /\ \A i, j \in 1 .. Len(s) : s[i] = s[j] => i = j

\* The sequences of nodes as long as the list says it is.
Orders(l, nodes) == [1 .. l.size -> nodes]

\* The nodes are linked into one list.
Linked(l, nodes) == \E s \in Orders(l, nodes) : Represents(l, s)

\* Their order.
Order(l, nodes) == CHOOSE s \in Orders(l, nodes) : Represents(l, s)
=============================================================================
