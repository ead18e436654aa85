------------------------------ MODULE TimerHeap -------------------------------
(***************************************************************************)
(* Any sequence of insertions and removals on the heap of HeapInl.  The    *)
(* nodes are numbers and their order is that of the numbers: two nodes     *)
(* never compare equal, as timers with one timeout are told apart by their *)
(* start_id.                                                               *)
(***************************************************************************)
EXTENDS HeapInl, FiniteSets

VARIABLES
  heap,  \* the heap
  set    \* the nodes a caller has inserted and not removed

vars == <<heap, set>>

\* Nodes 2k - 1 and 2k have the same timeout.
Keys == [n \in Nodes |-> [timeout |-> (n + 1) \div 2, start_id |-> n]]

Init == heap = heap_init /\ set = {}

Insert(n) ==
  /\ n \notin set
  /\ heap' = heap_insert(heap, n, Keys)
  /\ set' = set \cup {n}

Remove(n) ==
  /\ n \in set
  /\ heap' = heap_remove(heap, n, Keys)
  /\ set' = set \ {n}

heap_dequeue ==
  /\ set # {}
  /\ heap' = heap_remove(heap, heap.min, Keys)
  /\ set' = set \ {heap.min}

Next == (\E n \in Nodes : Insert(n) \/ Remove(n)) \/ heap_dequeue

Spec == Init /\ [][Next]_vars

-----------------------------------------------------------------------------
\* The heap's comment (libuv/src/heap-inl.h:33): it is always a complete binary
\* tree, of exactly the inserted nodes, whatever nodes the swaps moved around.
Complete == IsComplete(heap) /\ Members(heap) = set

\* No child is less than its parent, also after a removal in the middle put
\* the last node, which need not be the greatest, in its place.
Ordered == IsOrdered(heap, Keys)

\* The root is the lowest element of the set, which is all the timers rely on.
RootIsLeast ==
  IF set = {} THEN heap_min(heap) = Nil
  ELSE heap_min(heap) \in set /\ \A n \in set : heap_min(heap) <= n
=============================================================================
