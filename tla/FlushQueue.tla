----------------------------- MODULE FlushQueue -----------------------------
(***************************************************************************)
(* What the partitioned flush list promises to the buffer manager: each    *)
(* partition is a queue of dirty buffers in the order of their oldest      *)
(* LSNs, whose head is therefore the partition's lower bound for the       *)
(* consistent LSN, and a partition is in the hands of one background       *)
(* writer at a time.  FlushList, the linked lists and the heap of          *)
(* polar_flush.c, implements this specification.                           *)
(***************************************************************************)
EXTENDS Integers, Sequences, SequencesExt

CONSTANTS Buffers, Lists, Lsns,
          Partition(_)     \* the list of a buffer

VARIABLES queue,           \* the buffers of each list, oldest first
          oldest,          \* the oldest LSN of a queued buffer, else 0
          flushing         \* lists taken by a background writer

qvars == <<queue, oldest, flushing>>

Queued(b) == Contains(queue[Partition(b)], b)

QInit ==
    /\ queue = [l \in Lists |-> <<>>]
    /\ oldest = [b \in Buffers |-> 0]
    /\ flushing = {}

NotBelow(q, lsn) == \A i \in 1 .. Len(q) : oldest[q[i]] <= lsn

QPut(b, lsn) ==
    /\ ~Queued(b)
    /\ NotBelow(queue[Partition(b)], lsn)
    /\ queue' = [queue EXCEPT ![Partition(b)] = Append(@, b)]
    /\ oldest' = [oldest EXCEPT ![b] = lsn]
    /\ UNCHANGED flushing

QAdjust(b, lsn) ==
    /\ Queued(b)
    /\ NotBelow(queue[Partition(b)], lsn)
    /\ queue' = [queue EXCEPT ![Partition(b)] = Append(Remove(@, b), b)]
    /\ oldest' = [oldest EXCEPT ![b] = lsn]
    /\ UNCHANGED flushing

QRemove(b) ==
    /\ Queued(b)
    /\ queue' = [queue EXCEPT ![Partition(b)] = Remove(@, b)]
    /\ oldest' = [oldest EXCEPT ![b] = 0]
    /\ UNCHANGED flushing

QFlushBegin(l) ==
    /\ l \notin flushing
    /\ flushing' = flushing \cup {l}
    /\ UNCHANGED <<queue, oldest>>

QFlushEnd(l) ==
    /\ l \in flushing
    /\ flushing' = flushing \ {l}
    /\ UNCHANGED <<queue, oldest>>

QNext ==
    \/ \E b \in Buffers : QRemove(b)
    \/ \E b \in Buffers, lsn \in Lsns : QPut(b, lsn) \/ QAdjust(b, lsn)
    \/ \E l \in Lists : QFlushBegin(l) \/ QFlushEnd(l)

QSpec == QInit /\ [][QNext]_qvars
=============================================================================
