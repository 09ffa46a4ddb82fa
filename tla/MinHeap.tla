------------------------------ MODULE MinHeap ------------------------------
(***************************************************************************)
(* The indexed min-heap of polar_flush.c that orders the flush lists by    *)
(* their least LSN.  A heap is a record: arr is heap[0 .. size - 1], a     *)
(* sequence of nodes [id, lsn]; pos gives the index of each id, -1 when it *)
(* is not in the heap.  Indices are those of C: index i is arr[i + 1].     *)
(***************************************************************************)
EXTENDS Integers, Sequences

InvalidLsn == 0

\* polar_flushlist_lsn_compare: an invalid LSN is greater than any other.
LsnCompare(a, b) ==
    IF a = b THEN 0
    ELSE IF a = InvalidLsn THEN 1
    ELSE IF b = InvalidLsn THEN -1
    ELSE IF a < b THEN -1 ELSE 1

EmptyHeap(ids) == [arr |-> <<>>, pos |-> [i \in ids |-> -1]]

Size(h) == Len(h.arr)
Node(h, i) == h.arr[i + 1]

SwapNodes(h, i, j) ==
    [arr |-> [h.arr EXCEPT ![i + 1] = Node(h, j), ![j + 1] = Node(h, i)],
     pos |-> [h.pos EXCEPT ![Node(h, j).id] = i, ![Node(h, i).id] = j]]

Before(h, i, j) == LsnCompare(Node(h, i).lsn, Node(h, j).lsn) < 0

RECURSIVE SiftUp(_, _)
SiftUp(h, idx) ==
    LET parent == (idx - 1) \div 2
    IN  IF idx > 0 /\ Before(h, idx, parent)
        THEN SiftUp(SwapNodes(h, idx, parent), parent)
        ELSE h

\* Mutant: the right child is not compared.
SmallestLeft(h, idx) ==
    LET left == 2 * idx + 1
    IN  IF left < Size(h) /\ Before(h, left, idx) THEN left ELSE idx

\* The child that sift_down moves to, or idx itself.
Smallest(h, idx) ==
    LET left == 2 * idx + 1
        right == left + 1
        s == IF left < Size(h) /\ Before(h, left, idx) THEN left ELSE idx
    IN  IF right < Size(h) /\ Before(h, right, s) THEN right ELSE s

RECURSIVE SiftDown(_, _)
SiftDown(h, idx) ==
    LET s == Smallest(h, idx)
    IN  IF s = idx THEN h ELSE SiftDown(SwapNodes(h, idx, s), s)

HeapInsert(h, id, lsn) ==
    IF lsn = InvalidLsn \/ h.pos[id] # -1
    THEN h
    ELSE SiftUp([arr |-> Append(h.arr, [id |-> id, lsn |-> lsn]),
                 pos |-> [h.pos EXCEPT ![id] = Size(h)]], Size(h))

\* The last node takes the place of node idx, which is gone.
FillHole(h, idx) ==
    LET n == Size(h)
        lastNode == Node(h, n - 1)
        gone == [h.pos EXCEPT ![Node(h, idx).id] = -1]
    IN  IF idx = n - 1
        THEN [arr |-> SubSeq(h.arr, 1, n - 1), pos |-> gone]
        ELSE [arr |-> SubSeq([h.arr EXCEPT ![idx + 1] = lastNode], 1, n - 1),
              pos |-> [gone EXCEPT ![lastNode.id] = idx]]

\* The heap after polar_flushlist_minheap_pop; the node popped is Node(h, 0).
HeapPop(h) == SiftDown(FillHole(h, 0), 0)

\* Mutant: the node that fills the hole only moves down.
HeapRemoveDown(h, id) ==
    IF h.pos[id] = -1
    THEN h
    ELSE LET filled == FillHole(h, h.pos[id])
         IN  IF h.pos[id] >= Size(filled)
             THEN filled
             ELSE SiftDown(filled, h.pos[id])

HeapRemove(h, id) ==
    IF h.pos[id] = -1
    THEN h
    ELSE LET idx == h.pos[id]
             filled == FillHole(h, idx)
         IN  IF idx >= Size(filled)
             THEN filled
             ELSE SiftDown(SiftUp(filled, idx), idx)

HeapUpdate(h, id, lsn) ==
    LET idx == h.pos[id]
        old == Node(h, idx).lsn
        new == [h EXCEPT !.arr[idx + 1].lsn = lsn]
        cmp == LsnCompare(lsn, old)
    IN  IF idx = -1 THEN h
        ELSE IF cmp < 0 THEN SiftUp(new, idx)
        ELSE IF cmp > 0 THEN SiftDown(new, idx)
        ELSE new

\* What the code relies on: pos is the inverse of arr, and no node is before
\* its parent.
PosIsInverse(h) ==
    \A id \in DOMAIN h.pos :
        IF h.pos[id] = -1
        THEN \A i \in 1 .. Size(h) : h.arr[i].id # id
        ELSE h.pos[id] < Size(h) /\ Node(h, h.pos[id]).id = id
HeapOrdered(h) ==
    \A i \in 1 .. Size(h) - 1 : ~Before(h, i, (i - 1) \div 2)
=============================================================================
