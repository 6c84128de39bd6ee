--------------------------- MODULE IntrusiveLists ---------------------------
(***************************************************************************)
(* The doubly linked lists of list.h, which the repository uses but does   *)
(* not contain.  A node lies inside the structure it links; list_remove    *)
(* and the iterators take a node and no list, so the list itself is a      *)
(* sentinel node and the elements form a ring through it.                  *)
(*                                                                         *)
(* A heap of such nodes is a record of two functions, `next` and `prev`.   *)
(***************************************************************************)
EXTENDS Integers, FiniteSets, SequencesExt

CONSTANTS
  Entries,      \* the structures that are linked: the array arp_entries
  FREE, USED    \* the sentinels of the two lists: free_entries and used_entries

ASSUME ListAssumption ==
  /\ IsFiniteSet(Entries) /\ Entries # {}
  /\ FREE # USED /\ {FREE, USED} \cap Entries = {}

Nodes == Entries \cup {FREE, USED}

\* list_init on every list; the nodes are not linked yet.
EmptyLists(nodes) ==
  [next |-> [n \in nodes |-> n], prev |-> [n \in nodes |-> n]]

LinkBetween(heap, node, before, after) ==
  [next |-> [heap.next EXCEPT ![node] = after, ![before] = node],
   prev |-> [heap.prev EXCEPT ![node] = before, ![after] = node]]

ListAddFirst(heap, node, list) == LinkBetween(heap, node, list, heap.next[list])

ListAddLast(heap, node, list) == LinkBetween(heap, node, heap.prev[list], list)

\* The neighbours forget the node; the node keeps its own pointers.
ListRemove(heap, node) ==
  [next |-> [heap.next EXCEPT ![heap.prev[node]] = heap.next[node]],
   prev |-> [heap.prev EXCEPT ![heap.next[node]] = heap.prev[node]]]

\* list_init and then the nodes of `order` one by one in front of `list`.
ListOf(nodes, order, list) ==
  LET heap[k \in 0 .. Len(order)] ==
        IF k = 0 THEN EmptyLists(nodes) ELSE ListAddFirst(heap[k - 1], order[k], list)
  IN  heap[Len(order)]

ListIsEmpty(heap, list) == heap.next[list] = list

ListFirst(heap, list) == heap.next[list]

\* The first nodes an iteration over `list` visits, the sentinel included
\* when it comes round to it; more of them than there are nodes.
Visits(heap, list) ==
  LET visit[k \in 0 .. Cardinality(DOMAIN heap.next)] ==
        IF k = 0 THEN heap.next[list] ELSE heap.next[visit[k - 1]]
  IN  visit

\* The elements of a list whose ring is intact.
Elements(heap, list) ==
  LET visit == Visits(heap, list) IN
  {visit[k] : k \in {k \in DOMAIN visit : \A j \in 0 .. k : visit[j] # list}}
==============================================================================
