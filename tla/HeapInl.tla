------------------------------- MODULE HeapInl --------------------------------
(***************************************************************************)
(* The binary min heap of libuv (libuv/src/heap-inl.h), a tree of nodes    *)
(* with left, right and parent pointers in which nodes, not their          *)
(* contents, change places.  A heap is a record of its two fields and of   *)
(* the three pointers of every node.                                       *)
(***************************************************************************)
EXTENDS Integers, Sequences

CONSTANTS Nodes, Nil

heap_init ==
  [min |-> Nil, nelts |-> 0, left |-> [n \in Nodes |-> Nil],
   right |-> [n \in Nodes |-> Nil], parent |-> [n \in Nodes |-> Nil]]

heap_min(h) == h.min

SetParent(h, n, p) == IF n = Nil THEN h ELSE [h EXCEPT !.parent[n] = p]

\* The pointer that held old, in old's parent p or in the heap, holds new.
Relink(h, p, old, new) ==
  IF p = Nil THEN [h EXCEPT !.min = new]
  ELSE IF h.left[p] = old THEN [h EXCEPT !.left[p] = new]
       ELSE [h EXCEPT !.right[p] = new]

heap_node_swap(h, parent, child) ==
  LET l == h.left[parent] = child
      sibling == IF l THEN h.right[parent] ELSE h.left[parent]
      swapped == [h EXCEPT
        !.left[parent] = h.left[child], !.right[parent] = h.right[child],
        !.left[child] = IF l THEN parent ELSE sibling,
        !.right[child] = IF l THEN sibling ELSE parent,
        !.parent[child] = h.parent[parent], !.parent[parent] = child]
      adopted == SetParent(SetParent(SetParent(swapped, sibling, child),
                                     h.left[child], parent),
                           h.right[child], parent)
  IN Relink(adopted, h.parent[parent], parent, child)

\* The comparison the timers use: by timeout, then in the order of starting.
timer_less_than(keys, a, b) ==
  \/ keys[a].timeout < keys[b].timeout
  \/ keys[a].timeout = keys[b].timeout /\ keys[a].start_id < keys[b].start_id

\* The node at place n of the tree, counted row by row: the bits of n below
\* the first are the path from the root, as insert and remove compute it.
RECURSIVE NodeAt(_, _)
NodeAt(h, n) ==
  IF n = 1 THEN h.min
  ELSE IF n % 2 = 1 THEN h.right[NodeAt(h, n \div 2)]
                    ELSE h.left[NodeAt(h, n \div 2)]

\* Puts node at place n, or clears it.
SetPlace(h, n, node) ==
  IF n = 1 THEN [h EXCEPT !.min = node]
  ELSE IF n % 2 = 1 THEN [h EXCEPT !.right[NodeAt(h, n \div 2)] = node]
                    ELSE [h EXCEPT !.left[NodeAt(h, n \div 2)] = node]

\* Walks up from node.
RECURSIVE WalkUp(_, _, _)
WalkUp(h, node, keys) ==
  IF h.parent[node] # Nil /\ timer_less_than(keys, node, h.parent[node])
  THEN WalkUp(heap_node_swap(h, h.parent[node], node), node, keys)
  ELSE h

\* Walks down from node, swapping it with its smaller child.
RECURSIVE WalkDown(_, _, _)
WalkDown(h, node, keys) ==
  LET l == h.left[node]
      r == h.right[node]
      s1 == IF l # Nil /\ timer_less_than(keys, l, node) THEN l ELSE node
      smallest == IF r # Nil /\ timer_less_than(keys, r, s1) THEN r ELSE s1
  IN IF smallest = node THEN h
     ELSE WalkDown(heap_node_swap(h, node, smallest), node, keys)

heap_insert(h, node, keys) ==
  LET n == h.nelts + 1
      placed == SetPlace([h EXCEPT !.left[node] = Nil, !.right[node] = Nil],
                         n, node)
  IN WalkUp([placed EXCEPT
               !.parent[node] = IF n = 1 THEN Nil ELSE NodeAt(h, n \div 2),
               !.nelts = n], node, keys)

\* child takes the place of node.
Replace(h, node, child) ==
  LET moved == [h EXCEPT !.left[child] = h.left[node],
                         !.right[child] = h.right[node],
                         !.parent[child] = h.parent[node]]
      adopted == SetParent(SetParent(moved, h.left[node], child),
                           h.right[node], child)
  IN Relink(adopted, h.parent[node], node, child)

\* A removed node's pointers are stale in the code; nobody reads them before
\* the next insertion sets them, and here they are cleared.
Forget(h, node) ==
  [h EXCEPT !.left[node] = Nil, !.right[node] = Nil, !.parent[node] = Nil,
            !.nelts = @ - 1]

heap_remove_down_only(h, node, keys) ==
  IF h.nelts = 0 THEN h
  ELSE LET child == NodeAt(h, h.nelts)
           cut == SetPlace(h, h.nelts, Nil)
       IN IF child = node THEN Forget(cut, node)
          ELSE Forget(WalkDown(Replace(cut, node, child), child, keys), node)

\* The last node replaces the removed one and walks down, then up, since the
\* last node is not the greatest.
heap_remove(h, node, keys) ==
  IF h.nelts = 0 THEN h
  ELSE LET child == NodeAt(h, h.nelts)
           cut == SetPlace(h, h.nelts, Nil)
       IN IF child = node THEN Forget(cut, node)
          ELSE Forget(WalkUp(WalkDown(Replace(cut, node, child), child, keys),
                             child, keys), node)

-----------------------------------------------------------------------------
(* What a heap should be.                                                  *)

\* The places of the tree are 1 .. nelts, each with its own node, and every
\* pointer is the one the places give: a complete binary tree.
IsComplete(h) ==
  LET n == h.nelts
      at == [k \in 1 .. n |-> NodeAt(h, k)]
      At(k) == IF k \in 1 .. n THEN at[k] ELSE Nil
  IN /\ \A k, m \in 1 .. n : at[k] \in Nodes /\ (at[k] = at[m] => k = m)
     /\ \A k \in 1 .. n : /\ h.left[at[k]] = At(2 * k)
                          /\ h.right[at[k]] = At(2 * k + 1)
                          /\ h.parent[at[k]] = At(k \div 2)
     /\ n = 0 => h.min = Nil

Members(h) == {NodeAt(h, k) : k \in 1 .. h.nelts}

IsOrdered(h, keys) ==
  \A n \in Members(h) : h.parent[n] # Nil => ~timer_less_than(keys, n, h.parent[n])
=============================================================================
