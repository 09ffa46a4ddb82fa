----------------------------- MODULE FlushList -----------------------------
(***************************************************************************)
(* The flush list of polar_flush.c: dirty buffers on doubly linked lists,  *)
(* one per partition, and the min-heap from which background writers take  *)
(* a partition (polar_buffer_sync).                                        *)
(*                                                                         *)
(* Each list has a spinlock.  The heap, min_lsn and flushing are under     *)
(* polar_flush_ctl->lock, which a list operation takes inside its list     *)
(* spinlock and flush_begin and flush_end take alone.  So an operation     *)
(* that needs the inner lock is two steps: the changes to the links, which *)
(* leaves ctl[l] saying what remains to be done, and CtlSection(l).  While *)
(* ctl[l] is not NoCtl the spinlock of l is held.                          *)
(***************************************************************************)
EXTENDS MinHeap, SequencesExt

CONSTANTS NBuffers,     \* NBuffers of bufmgr
          NLists,       \* POLAR_FLUSHLIST_PARTITIONS
          Bgwriters,    \* background writers, normal and parallel
          BatchSize,    \* polar_bgwriter_flush_batch_size
          MaxBatch,     \* polar_bgwriter_batch_size
          MaxLsn,       \* bound: the insert position stops here
          MaxErrors     \* bound: write errors raised in a background writer

ASSUME FlushListAssumption ==
    /\ NBuffers \in Nat /\ NLists \in Nat \ {0}
    /\ BatchSize \in Nat \ {0} /\ MaxBatch \in Nat \ {0}
    /\ MaxLsn \in Nat \ {0} /\ MaxErrors \in Nat

EndOfList == -1         \* POLAR_FLUSHNEXT_END_OF_LIST
NotInList == -2         \* POLAR_FLUSHNEXT_NOT_IN_LIST

Buffers == 0 .. NBuffers - 1
Lists == 0 .. NLists - 1
Partition(b) == b % NLists
NoList == -1
NoCtl == [op |-> "none", lsn |-> InvalidLsn]

VARIABLES insertLsn,    \* GetXLogInsertRecPtr()
          flushNext, flushPrev,    \* BufferDesc.flush_next, flush_prev
          oldestLsn,    \* BufferDesc.oldest_lsn
          list,         \* FlushList of each partition
          heap,         \* polar_flush_ctl->heap
          ctl,          \* what CtlSection has to do for a list
          wlist,        \* the list each background writer is flushing
          wbatch,       \* the rest of its batch_buf
          wpc,          \* where it is in polar_buffer_sync
          errors

bufVars == <<flushNext, flushPrev, oldestLsn>>
workVars == <<wlist, wbatch, wpc, errors>>
vars == <<insertLsn, flushNext, flushPrev, oldestLsn, list, heap, ctl,
          wlist, wbatch, wpc, errors>>

Init ==
    /\ insertLsn = 1
    /\ flushNext = [b \in Buffers |-> NotInList]
    /\ flushPrev = [b \in Buffers |-> NotInList]
    /\ oldestLsn = [b \in Buffers |-> InvalidLsn]
    /\ list = [l \in Lists |->
                 [first |-> EndOfList, last |-> EndOfList, cur |-> NotInList,
                  count |-> 0, min |-> InvalidLsn, flushing |-> FALSE]]
    /\ heap = EmptyHeap(Lists)
    /\ ctl = [l \in Lists |-> NoCtl]
    /\ wlist = [w \in Bgwriters |-> NoList]
    /\ wbatch = [w \in Bgwriters |-> <<>>]
    /\ wpc = [w \in Bgwriters |-> "idle"]
    /\ errors = 0

IsEmpty(l) == list[l].first = EndOfList /\ list[l].last = EndOfList
InList(b) == ~(flushPrev[b] = NotInList /\ flushNext[b] = NotInList)
LockFree(l) == ctl[l] = NoCtl

\* WAL is inserted: the fake oldest LSN that a later put reads is larger.
AdvanceInsert ==
    /\ insertLsn < MaxLsn
    /\ insertLsn' = insertLsn + 1
    /\ UNCHANGED <<bufVars, list, heap, ctl, workVars>>

-----------------------------------------------------------------------------
(* remove_one_buffer and append_one_buffer on a view of the links, the     *)
(* record [next, prev, lst] for the list at hand.                          *)

View(l) == [next |-> flushNext, prev |-> flushPrev, lst |-> list[l]]

\* Mutant: the cursor stays on the buffer that leaves the list.
UnlinkKeepsCursor(v, b) ==
    LET p == v.prev[b]
        n == v.next[b]
    IN  [next |-> [i \in Buffers |-> IF i = b THEN NotInList
                                     ELSE IF i = p THEN n ELSE v.next[i]],
         prev |-> [i \in Buffers |-> IF i = b THEN NotInList
                                     ELSE IF i = n THEN p ELSE v.prev[i]],
         lst |-> [v.lst EXCEPT !.first = IF p = EndOfList THEN n ELSE @,
                               !.last = IF n = EndOfList THEN p ELSE @]]

UnlinkBuffer(v, b) ==
    LET p == v.prev[b]
        n == v.next[b]
        first == IF p = EndOfList THEN n ELSE v.lst.first
        last == IF n = EndOfList THEN p ELSE v.lst.last
        cur == IF b # v.lst.cur THEN v.lst.cur
               ELSE IF n = EndOfList THEN first ELSE n
    IN  [next |-> [i \in Buffers |-> IF i = b THEN NotInList
                                     ELSE IF i = p THEN n ELSE v.next[i]],
         prev |-> [i \in Buffers |-> IF i = b THEN NotInList
                                     ELSE IF i = n THEN p ELSE v.prev[i]],
         lst |-> [v.lst EXCEPT !.first = first, !.last = last, !.cur = cur]]

\* Mutant: the buffer goes to the head of the list.
PrependBuffer(v, b) ==
    LET head == v.lst.first
    IN  [next |-> [v.next EXCEPT ![b] = head],
         prev |-> [i \in Buffers |-> IF i = b THEN EndOfList
                                     ELSE IF i = head THEN b ELSE v.prev[i]],
         lst |-> [v.lst EXCEPT !.first = b,
                               !.last = IF head = EndOfList THEN b ELSE @]]

AppendBuffer(v, b) ==
    LET tail == v.lst.last
        empty == tail = EndOfList
    IN  [next |-> [i \in Buffers |-> IF i = b THEN EndOfList
                                     ELSE IF i = tail THEN b ELSE v.next[i]],
         prev |-> [v.prev EXCEPT ![b] = tail],
         lst |-> [v.lst EXCEPT !.first = IF empty THEN b ELSE @, !.last = b]]

SetView(l, v) ==
    /\ flushNext' = v.next
    /\ flushPrev' = v.prev
    /\ list' = [list EXCEPT ![l] = v.lst]

\* What remove_one_buffer does under the inner lock: nothing unless the
\* buffer is the first of its list.
CtlOfRemove(b) ==
    IF flushPrev[b] # EndOfList THEN NoCtl
    ELSE IF flushNext[b] = EndOfList
    THEN [op |-> "remove", lsn |-> InvalidLsn]
    ELSE [op |-> "update", lsn |-> oldestLsn[flushNext[b]]]

\* polar_put_buffer_to_flush_list and, for hints, the locked part of
\* polar_put_dirty_hint_buffer_into_flushlist, with the fake oldest LSN that is
\* read under the spinlock.  Appending a smaller LSN than the tail's is a PANIC.
Put(b) ==
    LET l == Partition(b)
    IN  /\ LockFree(l)
        /\ ~InList(b)
        /\ oldestLsn' = [oldestLsn EXCEPT ![b] = insertLsn]
        /\ SetView(l, AppendBuffer(View(l), b))
        /\ ctl' = [ctl EXCEPT ![l] =
                     IF IsEmpty(l) THEN [op |-> "insert", lsn |-> insertLsn]
                     ELSE NoCtl]
        /\ UNCHANGED <<insertLsn, heap, workVars>>

\* Mutant: the new fake oldest LSN, and no move to the tail.
AdjustInPlace(b) ==
    /\ LockFree(Partition(b))
    /\ InList(b)
    /\ oldestLsn[b] < insertLsn
    /\ oldestLsn' = [oldestLsn EXCEPT ![b] = insertLsn]
    /\ UNCHANGED <<insertLsn, flushNext, flushPrev, list, heap, ctl, workVars>>

\* polar_adjust_position_in_flush_list: a new fake oldest LSN, and the buffer
\* moves to the tail unless it is there.
Adjust(b) ==
    LET l == Partition(b)
    IN  /\ LockFree(l)
        /\ InList(b)
        /\ oldestLsn[b] < insertLsn
        /\ oldestLsn' = [oldestLsn EXCEPT ![b] = insertLsn]
        /\ IF flushNext[b] # EndOfList
           THEN /\ SetView(l, AppendBuffer(UnlinkBuffer(View(l), b), b))
                /\ ctl' = [ctl EXCEPT ![l] = CtlOfRemove(b)]
           ELSE UNCHANGED <<flushNext, flushPrev, list, ctl>>
        /\ UNCHANGED <<insertLsn, heap, workVars>>

\* polar_remove_buffer_from_flush_list.
RemoveBuffer(b) ==
    LET l == Partition(b)
    IN  /\ LockFree(l)
        /\ InList(b)
        /\ oldestLsn' = [oldestLsn EXCEPT ![b] = InvalidLsn]
        /\ SetView(l, UnlinkBuffer(View(l), b))
        /\ ctl' = [ctl EXCEPT ![l] = CtlOfRemove(b)]

\* A backend or the checkpointer flushes the buffer.
BackendRemove(b) ==
    /\ RemoveBuffer(b)
    /\ UNCHANGED <<insertLsn, heap, workVars>>

\* Mutant: a list that is being flushed goes back to the heap when it fills.
CtlIgnoresFlushing(l) ==
    /\ ctl[l] # NoCtl
    /\ list' = [list EXCEPT ![l].min = ctl[l].lsn]
    /\ heap' = CASE ctl[l].op = "insert" -> HeapInsert(heap, l, ctl[l].lsn)
                 [] ctl[l].op = "update" -> HeapUpdate(heap, l, ctl[l].lsn)
                 [] ctl[l].op = "remove" -> HeapRemove(heap, l)
    /\ ctl' = [ctl EXCEPT ![l] = NoCtl]
    /\ UNCHANGED <<insertLsn, bufVars, workVars>>

\* The part of remove_one_buffer and append_one_buffer under the inner lock.
\* Assert(succ): a list that is not being flushed is in the heap.
CtlSection(l) ==
    /\ ctl[l] # NoCtl
    /\ list' = [list EXCEPT ![l].min = ctl[l].lsn]
    /\ heap' = IF list[l].flushing THEN heap
               ELSE CASE ctl[l].op = "insert" -> HeapInsert(heap, l, ctl[l].lsn)
                      [] ctl[l].op = "update" -> HeapUpdate(heap, l, ctl[l].lsn)
                      [] ctl[l].op = "remove" -> HeapRemove(heap, l)
    /\ ctl' = [ctl EXCEPT ![l] = NoCtl]
    /\ UNCHANGED <<insertLsn, bufVars, workVars>>

-----------------------------------------------------------------------------
(* polar_buffer_sync of a background writer.                               *)

\* Mutant: the list is looked up and not popped.
FlushBeginPeeks(w) ==
    /\ wpc[w] = "idle"
    /\ Size(heap) > 0
    /\ LET l == Node(heap, 0).id
       IN  /\ wlist' = [wlist EXCEPT ![w] = l]
           /\ list' = [list EXCEPT ![l].flushing = TRUE]
    /\ wpc' = [wpc EXCEPT ![w] = "batch"]
    /\ UNCHANGED <<insertLsn, bufVars, heap, ctl, wbatch, errors>>

\* polar_flush_list_flush_begin; an empty heap ends the pass.
FlushBegin(w) ==
    /\ wpc[w] = "idle"
    /\ Size(heap) > 0
    /\ LET l == Node(heap, 0).id
       IN  /\ wlist' = [wlist EXCEPT ![w] = l]
           /\ list' = [list EXCEPT ![l].flushing = TRUE]
    /\ heap' = HeapPop(heap)
    /\ wpc' = [wpc EXCEPT ![w] = "batch"]
    /\ UNCHANGED <<insertLsn, bufVars, ctl, wbatch, errors>>

\* The buffers of the list from position b on, at most n of them.
RECURSIVE Chain(_, _, _)
Chain(next, b, n) ==
    IF n = 0 \/ b \in {EndOfList, NotInList} THEN <<>>
    ELSE <<b>> \o Chain(next, next[b], n - 1)

\* Mutants: the scan does not start over at the end of the list; the count of
\* buffers offered is not reset.
GetBatchFrom(w, restart(_), resetCount) ==
    LET l == wlist[w]
        start == IF list[l].cur = NotInList THEN list[l].first ELSE list[l].cur
        batch == Chain(flushNext, start, BatchSize)
        stop == IF batch = <<>> THEN start ELSE flushNext[Last(batch)]
    IN  /\ wpc[w] = "batch"
        /\ LockFree(l)
        /\ wbatch' = [wbatch EXCEPT ![w] = batch]
        /\ list' = [list EXCEPT
             ![l].cur = IF restart(stop) THEN list[l].first ELSE stop,
             ![l].count = IF restart(stop) /\ resetCount THEN 0
                          ELSE @ + Len(batch)]
        /\ wpc' = [wpc EXCEPT ![w] = "sync"]
        /\ UNCHANGED <<insertLsn, bufVars, heap, ctl, wlist, errors>>
GetBatchStaysAtEnd(w) == GetBatchFrom(w, LAMBDA stop : FALSE, TRUE)
GetBatchKeepsCount(w) == GetBatchFrom(w, LAMBDA stop : stop = EndOfList, FALSE)

\* polar_get_batch_buffer.  The scan that ends at the end of the list, or that
\* has offered more than MaxBatch buffers, starts over from the head.
GetBatch(w) ==
    LET l == wlist[w]
        start == IF list[l].cur = NotInList THEN list[l].first ELSE list[l].cur
        batch == Chain(flushNext, start, BatchSize)
        stop == IF batch = <<>> THEN start ELSE flushNext[Last(batch)]
        restart == stop = EndOfList \/ list[l].count + Len(batch) > MaxBatch
    IN  /\ wpc[w] = "batch"
        /\ LockFree(l)
        /\ IF IsEmpty(l)
           THEN UNCHANGED <<list, wbatch>>
           ELSE /\ wbatch' = [wbatch EXCEPT ![w] = batch]
                /\ list' = [list EXCEPT
                     ![l].cur = IF restart THEN list[l].first ELSE stop,
                     ![l].count = IF restart THEN 0 ELSE @ + Len(batch)]
        /\ wpc' = [wpc EXCEPT ![w] = "sync"]
        /\ UNCHANGED <<insertLsn, bufVars, heap, ctl, wlist, errors>>

TakeOne(w) ==
    /\ wpc[w] = "sync"
    /\ wbatch[w] # <<>>
    /\ wbatch' = [wbatch EXCEPT ![w] = Tail(@)]
    /\ UNCHANGED <<insertLsn, heap, wlist, wpc, errors>>

\* SyncOneBuffer writes the buffer and takes it off the list, ...
SyncWrite(w) ==
    /\ TakeOne(w)
    /\ RemoveBuffer(Head(wbatch[w]))

\* ... or finds it clean, or not yet allowed to be written.
SyncSkip(w) ==
    /\ TakeOne(w)
    /\ UNCHANGED <<bufVars, list, ctl>>

\* polar_flush_list_flush_end.
FlushEnd(w) ==
    LET l == wlist[w]
    IN  /\ wpc[w] = "sync"
        /\ wbatch[w] = <<>>
        /\ list' = [list EXCEPT ![l].flushing = FALSE]
        /\ heap' = HeapInsert(heap, l, list[l].min)
        /\ wlist' = [wlist EXCEPT ![w] = NoList]
        /\ wpc' = [wpc EXCEPT ![w] = "idle"]
        /\ UNCHANGED <<insertLsn, bufVars, ctl, wbatch, errors>>

\* The write in SyncOneBuffer raises an ERROR: the background writer resumes
\* at its sigsetjmp, which releases locks and pins but ends no flush.
SyncError(w) ==
    /\ wpc[w] = "sync"
    /\ wbatch[w] # <<>>
    /\ errors < MaxErrors
    /\ errors' = errors + 1
    /\ wlist' = [wlist EXCEPT ![w] = NoList]
    /\ wbatch' = [wbatch EXCEPT ![w] = <<>>]
    /\ wpc' = [wpc EXCEPT ![w] = "idle"]
    /\ UNCHANGED <<insertLsn, bufVars, list, heap, ctl>>

Bgwriter(w) ==
    \/ FlushBegin(w) \/ GetBatch(w) \/ SyncWrite(w) \/ SyncSkip(w)
    \/ FlushEnd(w) \/ SyncError(w)

Next ==
    \/ AdvanceInsert
    \/ \E b \in Buffers : Put(b) \/ Adjust(b) \/ BackendRemove(b)
    \/ \E l \in Lists : CtlSection(l)
    \/ \E w \in Bgwriters : Bgwriter(w)

Spec == Init /\ [][Next]_vars

\* A list section is a few instructions under a spinlock, so a background writer
\* that waits for the lock gets it; a background writer keeps going; and a page
\* that is offered again and again is written in the end, because the replicas
\* that hold it back keep applying WAL.
Fairness ==
    /\ \A l \in Lists : WF_vars(CtlSection(l))
    /\ \A w \in Bgwriters :
          /\ WF_vars(FlushBegin(w) \/ FlushEnd(w)) /\ SF_vars(GetBatch(w))
          /\ WF_vars(SyncWrite(w) \/ SyncSkip(w))
          /\ \A b \in Buffers :
                SF_vars(SyncWrite(w) /\ b = Head(wbatch[w]))

FairSpec == Spec /\ Fairness

-----------------------------------------------------------------------------
(* Properties.                                                             *)

Queue(l) == Chain(flushNext, list[l].first, NBuffers + 1)

TypeOK ==
    /\ insertLsn \in 1 .. MaxLsn
    /\ oldestLsn \in [Buffers -> 0 .. MaxLsn]
    /\ flushNext \in [Buffers -> Buffers \cup {EndOfList, NotInList}]
    /\ flushPrev \in [Buffers -> Buffers \cup {EndOfList, NotInList}]
    /\ \A l \in Lists : list[l].min \in 0 .. MaxLsn /\ list[l].count \in 0 .. MaxBatch
    /\ wlist \in [Bgwriters -> Lists \cup {NoList}]
    /\ wpc \in [Bgwriters -> {"idle", "batch", "sync"}]

\* Whatever puts, moves and removals interleave, each list is a sound doubly
\* linked list of exactly the buffers of its partition that have an oldest LSN,
\* in the order of their oldest LSNs.  polar_cal_cur_consistent_lsn takes the
\* oldest LSN of first_flush_buffer as the least of the list, and
\* append_one_buffer is a PANIC on a buffer out of order.
ListsInOrder ==
    \A l \in Lists :
        LET q == Queue(l)
            n == Len(q)
        IN  /\ ToSet(q) = {b \in Buffers : Partition(b) = l /\ InList(b)}
            /\ ToSet(q) = {b \in Buffers : Partition(b) = l /\ oldestLsn[b] # 0}
            /\ n = 0 => list[l].last = EndOfList
            /\ n > 0 => list[l].last = q[n] /\ flushPrev[q[1]] = EndOfList
            /\ \A i \in 1 .. n - 1 : /\ flushPrev[q[i + 1]] = q[i]
                                     /\ oldestLsn[q[i]] <= oldestLsn[q[i + 1]]

\* The cursor of polar_get_batch_buffer survives every removal and move: it is
\* a buffer of its own list or one of the two marks, so the walk never meets a
\* buffer that is not in the list (the Assert in its loop).
CursorInList ==
    \A l \in Lists : list[l].cur \in ToSet(Queue(l)) \cup {EndOfList, NotInList}

\* The heap holds exactly the lists that have buffers and that no background
\* writer has, each under its own min_lsn, which is never above the oldest LSN
\* of the head.  This is what Assert(succ) in remove_one_buffer and
\* Assert(!list->flushing) in flush_begin rely on; a list missing from the heap
\* would never be flushed by a background writer again.
HeapHoldsLists ==
    /\ PosIsInverse(heap) /\ HeapOrdered(heap)
    /\ \A l \in Lists :
        /\ heap.pos[l] # -1 <=> ~list[l].flushing /\ list[l].min # InvalidLsn
        /\ heap.pos[l] # -1 => Node(heap, heap.pos[l]).lsn = list[l].min
        /\ LockFree(l) =>
             IF IsEmpty(l) THEN list[l].min = InvalidLsn
             ELSE list[l].min \in 1 .. oldestLsn[list[l].first]

Writers(l) == {w \in Bgwriters : wlist[w] = l}

\* No two background writers work on the same list, and a list that one works
\* on is marked flushing, whatever the others and the backends do to the heap
\* (Assert(!list->flushing) in flush_begin, Assert(list->flushing) in
\* flush_end).
OneWriterPerList ==
    \A l \in Lists :
        Writers(l) # {} => list[l].flushing /\ \E w \in Writers(l) : Writers(l) = {w}

\* "All lists are being flushed by other bgwriters" is how flush_begin explains
\* a heap without lists: a list marked flushing has a background writer at work
\* on it.
FlushingHasWriter ==
    \A l \in Lists : list[l].flushing => Writers(l) # {}

\* Every dirty buffer on a list is written and leaves it in the end: neither
\* the cursor, the batch bound, a tie in the heap, nor a list that empties and
\* fills while it is being flushed makes the writers pass it by for ever.
EventuallyFlushed ==
    \A b \in Buffers : oldestLsn[b] # InvalidLsn ~> oldestLsn[b] = InvalidLsn

\* The linked lists with the heap implement the queues of FlushQueue.
Abstract == INSTANCE FlushQueue WITH
    Lsns <- 1 .. MaxLsn,
    queue <- [l \in Lists |-> Queue(l)],
    oldest <- oldestLsn,
    flushing <- {l \in Lists : list[l].flushing}
ImplementsQueue == Abstract!QSpec
=============================================================================
