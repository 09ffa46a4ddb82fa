----------------------------- MODULE MCMinHeap -----------------------------
(***************************************************************************)
(* Every sequence of heap operations over a few ids and LSNs, next to a    *)
(* reference: the function from the ids in the heap to their LSNs.         *)
(***************************************************************************)
EXTENDS MinHeap, FiniteSets

CONSTANTS Ids,     \* flush-list partitions
          MaxLsn

Lsns == 1 .. MaxLsn

VARIABLES heap,
          ref,     \* the LSN of each id, 0 when it is not in the heap
          popped   \* the node of the last pop

vars == <<heap, ref, popped>>

NoNode == [id |-> -1, lsn |-> InvalidLsn]

Init ==
    /\ heap = EmptyHeap(Ids)
    /\ ref = [i \in Ids |-> 0]
    /\ popped = NoNode

Insert(id, lsn) ==
    /\ ref[id] = 0
    /\ heap' = HeapInsert(heap, id, lsn)
    /\ ref' = [ref EXCEPT ![id] = lsn]
    /\ popped' = NoNode

Pop ==
    /\ Size(heap) > 0
    /\ popped' = Node(heap, 0)
    /\ heap' = HeapPop(heap)
    /\ ref' = [ref EXCEPT ![popped'.id] = 0]

Remove(id) ==
    /\ ref[id] # 0
    /\ heap' = HeapRemove(heap, id)
    /\ ref' = [ref EXCEPT ![id] = 0]
    /\ popped' = NoNode

Update(id, lsn) ==
    /\ ref[id] # 0
    /\ heap' = HeapUpdate(heap, id, lsn)
    /\ ref' = [ref EXCEPT ![id] = lsn]
    /\ popped' = NoNode

Next ==
    \/ \E id \in Ids, lsn \in Lsns : Insert(id, lsn) \/ Update(id, lsn)
    \/ \E id \in Ids : Remove(id)
    \/ Pop

Spec == Init /\ [][Next]_vars

\* After any sequence of inserts, pops, updates and removals at any index the
\* heap has exactly the ids and LSNs of the reference, every id is where pos
\* says (removal and update go by pos), and no node is before its parent.
HeapIsReference ==
    /\ PosIsInverse(heap) /\ HeapOrdered(heap)
    /\ Size(heap) = Cardinality({i \in Ids : ref[i] # 0})
    /\ \A i \in Ids : ref[i] # 0 => heap.pos[i] # -1
                                    /\ Node(heap, heap.pos[i]).lsn = ref[i]

\* polar_flushlist_minheap_pop takes a list with the least LSN of all.
PopsLeast ==
    popped.id # -1 => \A i \in Ids : ref[i] # 0 => popped.lsn <= ref[i]
=============================================================================
