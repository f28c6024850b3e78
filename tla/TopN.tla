--------------------------------- MODULE TopN ---------------------------------
(***************************************************************************)
(* The bounded heap of packetql/index/topn.py.  Items are records with a   *)
(* key; the heap is a sequence, so the children of place i are 2i and      *)
(* 2i + 1.  To keep the largest the root is the smallest, and the other    *)
(* way round.                                                              *)
(*                                                                         *)
(* The two loops move an item through the heap: a state of theirs is the   *)
(* heap and the place the item is at, which a round that breaks leaves as  *)
(* it is.  A heap has fewer levels than items, so as many rounds as there  *)
(* are items always suffice.                                               *)
(***************************************************************************)
EXTENDS Integers, Sequences, FiniteSets

\* _evictable_above: a belongs nearer the root than b.
EvictableAbove(a, b, largest) == IF largest THEN a.key < b.key ELSE a.key > b.key

\* The item at place s.at changes places with the one at place j.
Moved(s, j) == [heap |-> [s.heap EXCEPT ![s.at] = s.heap[j], ![j] = s.heap[s.at]], at |-> j]

\* A round of _sift_up.
RiseOnce(s, largest) ==
  LET parent == s.at \div 2
  IN  IF s.at > 1 /\ EvictableAbove(s.heap[s.at], s.heap[parent], largest)
      THEN Moved(s, parent) ELSE s

\* _sift_up of the last item, after each round.
Rising(h, largest) ==
  LET rise[k \in 0 .. Len(h)] ==
        IF k = 0 THEN [heap |-> h, at |-> Len(h)] ELSE RiseOnce(rise[k - 1], largest)
  IN  rise

SiftUp(h, largest) == Rising(h, largest)[Len(h)].heap

\* The place that goes on top, of i and its left child only.
TopOfLeft(h, i, largest) ==
  IF 2 * i <= Len(h) /\ EvictableAbove(h[2 * i], h[i], largest) THEN 2 * i ELSE i

\* The place that goes on top, of i and its children: the first of the best.
Top(h, i, largest) ==
  LET Better(top, child) ==
        IF child <= Len(h) /\ EvictableAbove(h[child], h[top], largest) THEN child ELSE top
  IN  Better(Better(i, 2 * i), 2 * i + 1)

\* A round of _sift_down.
SinkOnce(s, largest) ==
  LET top == Top(s.heap, s.at, largest) IN IF top = s.at THEN s ELSE Moved(s, top)

\* _sift_down of the root, after each round.
Sinking(h, largest) ==
  LET sink[k \in 0 .. Len(h)] ==
        IF k = 0 THEN [heap |-> h, at |-> 1] ELSE SinkOnce(sink[k - 1], largest)
  IN  sink

SiftDown(h, largest) == Sinking(h, largest)[Len(h)].heap

\* push: while there is room the item is added, then it must beat the root.
Push(h, item, n, largest) ==
  CASE n <= 0 -> h
    [] n > 0 /\ Len(h) < n -> SiftUp(Append(h, item), largest)
    [] n > 0 /\ Len(h) >= n /\ EvictableAbove(h[1], item, largest) ->
         SiftDown([h EXCEPT ![1] = item], largest)
    [] OTHER -> h

\* The heap after each item.
Pushing(items, n, largest) ==
  LET pushed[k \in 0 .. Len(items)] ==
        IF k = 0 THEN <<>> ELSE Push(pushed[k - 1], items[k], n, largest)
  IN  pushed

\* sorted(..., key, reverse): stable, also when it is reversed.
StableSort(items, descending) ==
  LET Before(i, j) == \/ IF descending THEN items[i].key > items[j].key
                                       ELSE items[i].key < items[j].key
                      \/ items[i].key = items[j].key /\ i < j
      NumBefore(j) == Cardinality({i \in DOMAIN items : Before(i, j)})
  IN  [k \in DOMAIN items |-> items[CHOOSE j \in DOMAIN items : NumBefore(j) = k - 1]]

TopOf(items, n, largest) == StableSort(Pushing(items, n, largest)[Len(items)], largest)
===============================================================================
