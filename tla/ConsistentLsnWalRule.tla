----------------------- MODULE ConsistentLsnWalRule -------------------------
(***************************************************************************)
(* Types and the WAL rule of ConsistentLsn for any number of processes,    *)
(* buffers, copy buffers and replicas, with hint records, slots that come  *)
(* and go and any number of crashes.                                       *)
(*                                                                         *)
(* First come the frame lemmas: which steps change which variables and how *)
(* a process moves. They keep the proofs about a group of variables to the *)
(* steps that change it. Then the first conjuncts of the inductive         *)
(* invariant: TypeOK is not inductive by itself, for that a process works  *)
(* on a buffer is part of Locks and that the copy it writes exists is part *)
(* of Writing; who holds which lock; and the order of the LSNs: the redo   *)
(* point, the consistent LSN and the flushed WAL never pass the insert     *)
(* position, and neither does an LSN that a process carries in a local     *)
(* variable.                                                               *)
(*                                                                         *)
(* WalBeforeData needs the page LSN a flusher holds while it flushes WAL   *)
(* to be that of the page, although hints may dirty the page meanwhile     *)
(* (Writing), and every LSN in memory to be at most the insert position    *)
(* (PageBounds, HeldBounds).                                               *)
(***************************************************************************)
EXTENDS ConsistentLsn, TLAPS

\* A leaf that names no prover is for Zenon.
USE Zenon DEF diskVars

\* A copy buffer is attached to b.
HasCopy(b) == copyOf[b] # NoCopy

\* Who holds which lock.
Locks ==
    /\ \A p \in Procs : pc[p] \notin {"idle"} \cup CalPcs => pb[p] \in Buffers
    /\ \A p, q \in Procs :
          p # q /\ pb[p] = pb[q] =>
            /\ pc[p] \in ExclPcs => pc[q] \notin ExclPcs \cup SharePcs
            /\ pc[p] \in IoPcs => pc[q] \notin IoPcs
            /\ pc[p] \in ListPcs => pc[q] \notin ListPcs

\* Where the LSNs lie.
WalBounds ==
    /\ 1 <= ckptRedo /\ ckptRedo <= walFlushed /\ walFlushed <= insertLsn
    /\ 1 <= redoRecPtr /\ redoRecPtr <= insertLsn
    /\ 1 <= replayLsn
    /\ mode = "redo" => replayLsn <= insertLsn
    /\ consistentLsn <= insertLsn
    /\ \A r \in wal : r.start < insertLsn
    /\ \A r, s \in wal : r.start = s.start => r = s

\* No page, copy or oldest LSN is ahead of the WAL.
PageBounds ==
    \A b \in Buffers :
        /\ pageLsn[b] <= insertLsn
        /\ oldestLsn[b] <= insertLsn
        /\ diskLsn[b] <= walFlushed
        /\ HasCopy(b) => cLsn[copyOf[b]] <= insertLsn

\* Nor is an LSN that a process holds in a local variable.
HoldingPcs == ListPcs \cup CalPcs \cup {"setlsn", "hdirty", "fwal"}
HeldBounds ==
    \A p \in Procs :
        /\ pc[p] \in ListPcs => 1 <= plsn[p]
        /\ pc[p] \in HoldingPcs => plsn[p] <= insertLsn
        /\ pc[p] = "hsave" => plsn[p] = 0
        /\ 1 <= pscan[p]

\* What a process may rely on while it writes a page or its copy.
Writing ==
    \A p \in Procs :
        LET b == pb[p] IN
        /\ pc[p] \in FlushIoPcs => dirty[b]
        /\ pc[p] = "fwal" => plsn[p] = pageLsn[b]
        /\ pc[p] = "fwrite" => pageLsn[b] <= walFlushed
        /\ pc[p] = "freset" => ~HasCopy(b)
        /\ pc[p] \in CopyIoPcs => HasCopy(b)
        /\ pc[p] = "cwrite" => cLsn[copyOf[b]] <= walFlushed
        /\ pc[p] = "cfree" => diskLsn[b] = cLsn[copyOf[b]]

\* A buffer with a copy is in the flush list, and no copy has two owners.
Copies ==
    /\ \A b \in Buffers :
          HasCopy(b) => oldestLsn[b] # Invalid /\ cOldest[copyOf[b]] # Invalid
    /\ \A a, b \in Buffers : a # b /\ HasCopy(a) => copyOf[a] # copyOf[b]

-----------------------------------------------------------------------------
(* Numbers. *)

\* What Zenon has to be told of the order of the LSNs.
LEMMA LeqTrans == \A i, j, k \in Nat : i <= j /\ j <= k => i <= k
    BY SMT
LEMMA ZeroLeast == \A i \in Nat : 0 <= i
    BY SMT

-----------------------------------------------------------------------------
(* Which steps change which variables. *)

\* Who changes the WAL and how far it is flushed.
LEMMA WalSteps ==
    [Next]_vars =>
        \/ UNCHANGED walVars
        \/ \E p \in Procs : XLogInsert(p) \/ HintLog(p) \/ FlushXLog(p)
                            \/ CopyFlushXLog(p)
        \/ CkptBegin \/ CkptEnd \/ XLogFlush \/ Crash
<1>1. ASSUME NEW p \in Procs, Update(p)
      PROVE  UNCHANGED walVars \/ XLogInsert(p)
    BY <1>1 DEF Update, LockForUpdate, MarkBufferDirty, PutBuffer,
       AdjustPosition, PageSetLSN
<1>2. ASSUME NEW p \in Procs, Hint(p)
      PROVE  UNCHANGED walVars \/ HintLog(p)
    BY <1>2 DEF Hint, HintStart, HintSave, HintList, HintPut, HintDirty
<1>3. ASSUME NEW p \in Procs, Flush(p)
      PROVE  UNCHANGED walVars \/ FlushXLog(p)
    BY <1>3 DEF Flush, SyncOneBuffer, GetVictimBuffer, FlushRelationBuffers, SyncLocked, FlushStart,
       FlushSkip, FlushWrite, FlushFreeCopy, FlushReset, FlushEnd
<1>4. ASSUME NEW p \in Procs, Copy(p) \/ Calculate(p)
      PROVE  UNCHANGED walVars \/ CopyFlushXLog(p)
    BY <1>4 DEF Copy, Calculate, CopyFlushStart, CopyFlushWrite, CopyFlushEnd,
       CopyBuffer, CalFlushLists, CalCopyBuffers, SetConsistentLsn
<1> QED
    BY <1>1, <1>2, <1>3, <1>4 DEF Next, vars, Replicate, ReplicaReply,
       DropSlot, Recover, RedoRecord, EndRecovery

\* A record that was not there before starts where the WAL ended.
LEMMA NewRecords ==
    ASSUME [Next]_vars, ~Crash, NEW r \in wal'
    PROVE  r \in wal \/ r.start = insertLsn
<1>1. ASSUME NEW b, NEW h, Append1(b, h)
      PROVE  r \in wal \/ r.start = insertLsn
    BY <1>1, SMT DEF Append1
<1>2. ASSUME NEW p \in Procs, XLogInsert(p) \/ HintLog(p)
      PROVE  r \in wal \/ r.start = insertLsn
    BY <1>1, <1>2 DEF XLogInsert, HintLog
<1>3. CASE UNCHANGED wal
    BY <1>3
<1>4. ASSUME NEW p \in Procs, FlushXLog(p) \/ CopyFlushXLog(p)
      PROVE  UNCHANGED wal
    BY <1>4 DEF FlushXLog, CopyFlushXLog
<1>5. UNCHANGED walVars \/ CkptBegin \/ CkptEnd \/ XLogFlush => UNCHANGED wal
    BY DEF walVars, CkptBegin, CkptEnd, XLogFlush
<1> QED
    BY <1>2, <1>3, <1>4, <1>5, WalSteps

\* Who changes buffers and their descriptors.
LEMMA BufSteps ==
    [Next]_vars =>
        \/ UNCHANGED bufVars
        \/ \E p \in Procs : MarkBufferDirty(p) \/ PutBuffer(p) \/ AdjustPosition(p)
                            \/ PageSetLSN(p) \/ HintPut(p) \/ HintDirty(p)
                            \/ FlushStart(p) \/ FlushFreeCopy(p) \/ FlushReset(p)
                            \/ FlushEnd(p) \/ CopyFlushEnd(p) \/ CopyBuffer(p)
        \/ Crash \/ RedoRecord
<1>1. ASSUME NEW p \in Procs, Update(p)
      PROVE  UNCHANGED bufVars \/ MarkBufferDirty(p) \/ PutBuffer(p)
             \/ AdjustPosition(p) \/ PageSetLSN(p)
    BY <1>1 DEF Update, LockForUpdate, XLogInsert
<1>2. ASSUME NEW p \in Procs, Hint(p)
      PROVE  UNCHANGED bufVars \/ HintPut(p) \/ HintDirty(p)
    BY <1>2 DEF Hint, HintStart, HintSave, HintList, HintLog
<1>3. ASSUME NEW p \in Procs, Flush(p)
      PROVE  UNCHANGED bufVars \/ FlushStart(p) \/ FlushFreeCopy(p)
             \/ FlushReset(p) \/ FlushEnd(p)
    BY <1>3 DEF Flush, SyncOneBuffer, GetVictimBuffer, FlushRelationBuffers, SyncLocked, FlushSkip,
       FlushXLog, FlushWrite
<1>4. ASSUME NEW p \in Procs, Copy(p) \/ Calculate(p)
      PROVE  UNCHANGED bufVars \/ CopyFlushEnd(p) \/ CopyBuffer(p)
    BY <1>4 DEF Copy, Calculate, CopyFlushStart, CopyFlushXLog, CopyFlushWrite,
       CalFlushLists, CalCopyBuffers, SetConsistentLsn
<1> QED
    BY <1>1, <1>2, <1>3, <1>4 DEF Next, vars, CkptBegin, CkptEnd, XLogFlush,
       Replicate, ReplicaReply, DropSlot, Recover, EndRecovery

\* Who changes copy buffers: copy_buffer_alloc and polar_free_copy_buffer.
LEMMA CopySteps ==
    [Next]_vars =>
        \/ UNCHANGED copyVars
        \/ \E p \in Procs : FlushFreeCopy(p) \/ CopyFlushEnd(p) \/ CopyBuffer(p)
        \/ Crash
<1>1. ASSUME NEW p \in Procs, Update(p)
      PROVE  UNCHANGED copyVars
    BY <1>1 DEF Update, LockForUpdate, MarkBufferDirty, PutBuffer,
       AdjustPosition, XLogInsert, PageSetLSN
<1>2. ASSUME NEW p \in Procs, Hint(p)
      PROVE  UNCHANGED copyVars
    BY <1>2 DEF Hint, HintStart, HintSave, HintList, HintPut, HintLog,
       HintDirty
<1>3. ASSUME NEW p \in Procs, Flush(p)
      PROVE  UNCHANGED copyVars \/ FlushFreeCopy(p)
    BY <1>3 DEF Flush, SyncOneBuffer, GetVictimBuffer, FlushRelationBuffers, SyncLocked, FlushStart,
       FlushSkip, FlushXLog, FlushWrite, FlushReset, FlushEnd
<1>4. ASSUME NEW p \in Procs, Copy(p) \/ Calculate(p)
      PROVE  UNCHANGED copyVars \/ CopyFlushEnd(p) \/ CopyBuffer(p)
    BY <1>4 DEF Copy, Calculate, CopyFlushStart, CopyFlushXLog, CopyFlushWrite,
       CalFlushLists, CalCopyBuffers, SetConsistentLsn
<1> QED
    BY <1>1, <1>2, <1>3, <1>4 DEF Next, vars, CkptBegin, CkptEnd, XLogFlush,
       Replicate, ReplicaReply, DropSlot, Recover, RedoRecord, EndRecovery

\* Who writes to the shared storage.
LEMMA DiskSteps ==
    [Next]_vars =>
        \/ UNCHANGED diskLsn
        \/ \E p \in Procs : FlushWrite(p) \/ CopyFlushWrite(p)
<1>1. ASSUME NEW p \in Procs, Update(p)
      PROVE  UNCHANGED diskLsn
    BY <1>1 DEF Update, LockForUpdate, MarkBufferDirty, PutBuffer,
       AdjustPosition, XLogInsert, PageSetLSN
<1>2. ASSUME NEW p \in Procs, Hint(p)
      PROVE  UNCHANGED diskLsn
    BY <1>2 DEF Hint, HintStart, HintSave, HintList, HintPut, HintLog,
       HintDirty
<1>3. ASSUME NEW p \in Procs, Flush(p)
      PROVE  UNCHANGED diskLsn \/ FlushWrite(p)
    BY <1>3 DEF Flush, SyncOneBuffer, GetVictimBuffer, FlushRelationBuffers, SyncLocked, FlushStart,
       FlushSkip, FlushXLog, FlushFreeCopy, FlushReset, FlushEnd
<1>4. ASSUME NEW p \in Procs, Copy(p) \/ Calculate(p)
      PROVE  UNCHANGED diskLsn \/ CopyFlushWrite(p)
    BY <1>4 DEF Copy, Calculate, CopyFlushStart, CopyFlushXLog, CopyFlushEnd,
       CopyBuffer, CalFlushLists, CalCopyBuffers, SetConsistentLsn
<1> QED
    BY <1>1, <1>2, <1>3, <1>4 DEF Next, vars, CkptBegin, CkptEnd, XLogFlush,
       Replicate, ReplicaReply, DropSlot, Recover, Crash, RedoRecord, EndRecovery

\* Who begins or ends a flush without the gate, and who writes.
LEMMA DirectSteps ==
    [Next]_vars =>
        \/ UNCHANGED <<direct, unchecked>>
        \/ \E p \in Procs :
              \/ \E b \in Buffers : FlushRelationBuffers(p, b)
              \/ FlushStart(p) \/ FlushWrite(p) \/ FlushEnd(p) \/ CopyFlushWrite(p)
        \/ Crash
<1>1. ASSUME NEW p \in Procs, Update(p)
      PROVE  UNCHANGED <<direct, unchecked>>
    BY <1>1 DEF Update, LockForUpdate, MarkBufferDirty, PutBuffer,
       AdjustPosition, XLogInsert, PageSetLSN
<1>2. ASSUME NEW p \in Procs, Hint(p)
      PROVE  UNCHANGED <<direct, unchecked>>
    BY <1>2 DEF Hint, HintStart, HintSave, HintList, HintPut, HintLog,
       HintDirty
<1>3. ASSUME NEW p \in Procs, Flush(p)
      PROVE  \/ UNCHANGED <<direct, unchecked>> \/ FlushStart(p) \/ FlushWrite(p) \/ FlushEnd(p)
             \/ \E b \in Buffers : FlushRelationBuffers(p, b)
    BY <1>3 DEF Flush, SyncOneBuffer, GetVictimBuffer, SyncLocked,
       FlushSkip, FlushXLog, FlushFreeCopy, FlushReset
<1>4. ASSUME NEW p \in Procs, Copy(p) \/ Calculate(p)
      PROVE  UNCHANGED <<direct, unchecked>> \/ CopyFlushWrite(p)
    BY <1>4 DEF Copy, Calculate, CopyFlushStart, CopyFlushXLog, CopyFlushEnd,
       CopyBuffer, CalFlushLists, CalCopyBuffers, SetConsistentLsn
<1> QED
    BY <1>1, <1>2, <1>3, <1>4 DEF Next, vars, CkptBegin, CkptEnd, XLogFlush,
       Replicate, ReplicaReply, DropSlot, Recover, RedoRecord, EndRecovery

\* Who changes the redo points or ends a wait of the checkpointer.
LEMMA CkptSteps ==
    [Next]_vars =>
        \/ UNCHANGED ckptVars
        \/ \E p \in Procs : HintDirty(p)
        \/ CkptBegin \/ CkptEnd \/ Crash
<1>1. ASSUME NEW p \in Procs, Update(p)
      PROVE  UNCHANGED ckptVars
    BY <1>1 DEF Update, LockForUpdate, MarkBufferDirty, PutBuffer,
       AdjustPosition, XLogInsert, PageSetLSN
<1>2. ASSUME NEW p \in Procs, Hint(p)
      PROVE  UNCHANGED ckptVars \/ HintDirty(p)
    BY <1>2 DEF Hint, HintStart, HintSave, HintList, HintPut, HintLog
<1>3. ASSUME NEW p \in Procs, Flush(p)
      PROVE  UNCHANGED ckptVars
    BY <1>3 DEF Flush, SyncOneBuffer, GetVictimBuffer, FlushRelationBuffers, SyncLocked, FlushStart,
       FlushSkip, FlushXLog, FlushWrite, FlushFreeCopy, FlushReset, FlushEnd
<1>4. ASSUME NEW p \in Procs, Copy(p) \/ Calculate(p)
      PROVE  UNCHANGED ckptVars
    BY <1>4 DEF Copy, Calculate, CopyFlushStart, CopyFlushXLog, CopyFlushWrite,
       CopyFlushEnd, CopyBuffer, CalFlushLists, CalCopyBuffers, SetConsistentLsn
<1> QED
    BY <1>1, <1>2, <1>3, <1>4 DEF Next, vars, XLogFlush, Replicate,
       ReplicaReply, DropSlot, Recover, RedoRecord, EndRecovery

\* Who changes the LSNs of XLogCtl and the state of recovery.
LEMMA RecSteps ==
    [Next]_vars =>
        \/ UNCHANGED <<consistentLsn, replVars, recVars>>
        \/ \E p \in Procs : SetConsistentLsn(p)
        \/ Replicate \/ Recover
<1>1. ASSUME NEW p \in Procs, Update(p)
      PROVE  UNCHANGED <<consistentLsn, replVars, recVars>>
    BY <1>1 DEF Update, LockForUpdate, MarkBufferDirty, PutBuffer,
       AdjustPosition, XLogInsert, PageSetLSN
<1>2. ASSUME NEW p \in Procs, Hint(p)
      PROVE  UNCHANGED <<consistentLsn, replVars, recVars>>
    BY <1>2 DEF Hint, HintStart, HintSave, HintList, HintPut, HintLog,
       HintDirty
<1>3. ASSUME NEW p \in Procs, Flush(p)
      PROVE  UNCHANGED <<consistentLsn, replVars, recVars>>
    BY <1>3 DEF Flush, SyncOneBuffer, GetVictimBuffer, FlushRelationBuffers, SyncLocked, FlushStart,
       FlushSkip, FlushXLog, FlushWrite, FlushFreeCopy, FlushReset, FlushEnd
<1>4. ASSUME NEW p \in Procs, Copy(p) \/ Calculate(p)
      PROVE  UNCHANGED <<consistentLsn, replVars, recVars>>
             \/ SetConsistentLsn(p)
    BY <1>4 DEF Copy, Calculate, CopyFlushStart, CopyFlushXLog, CopyFlushWrite,
       CopyFlushEnd, CopyBuffer, CalFlushLists, CalCopyBuffers
<1> QED
    BY <1>1, <1>2, <1>3, <1>4 DEF Next, vars, CkptBegin, CkptEnd, XLogFlush

\* Who moves a process.
LEMMA ProcSteps ==
    [Next]_vars =>
        \/ UNCHANGED procVars
        \/ \E p \in Procs : Update(p) \/ Hint(p) \/ Flush(p) \/ Copy(p) \/ Calculate(p)
        \/ Crash
BY DEF Next, vars, CkptBegin, CkptEnd, XLogFlush, Replicate, ReplicaReply, DropSlot,
       Recover, RedoRecord, EndRecovery

-----------------------------------------------------------------------------
(* Types.  TypeOK in five parts, each preserved by every step. *)

WalType == insertLsn \in Lsn /\ walFlushed \in Lsn /\ wal \subseteq Record
BufType ==
    /\ dirty \in [Buffers -> BOOLEAN] /\ justDirtied \in [Buffers -> BOOLEAN]
    /\ pageLsn \in [Buffers -> Lsn] /\ oldestLsn \in [Buffers -> Lsn]
    /\ touched \in [Buffers -> BOOLEAN]
    /\ copyOf \in [Buffers -> CopyBuffers \cup {NoCopy}]
CopyType == cOldest \in [CopyBuffers -> Lsn] /\ cLsn \in [CopyBuffers -> Lsn]
SharedType ==
    /\ diskLsn \in [Buffers -> Lsn]
    /\ direct \subseteq Procs /\ unchecked \subseteq Buffers
    /\ consistentLsn \in Lsn /\ oldestApply \in Lsn
    /\ applyLsn \in [Replicas -> Lsn]
    /\ redoRecPtr \in Lsn /\ ckptRunning \in BOOLEAN
    /\ ckptWait \subseteq Procs /\ ckptRedo \in Lsn
    /\ mode \in {"run", "redo"} /\ replayLsn \in Lsn /\ crashes \in Nat
ProcType ==
    /\ pc \in [Procs -> Pcs] /\ pb \in [Procs -> Buffers \cup {NoBuf}]
    /\ plsn \in [Procs -> Lsn] /\ pcur \in [Procs -> Lsn]
    /\ pscan \in [Procs -> Nat]

\* The parts make up TypeOK, in this state and in the next.
LEMMA TypeParts ==
    /\ TypeOK <=> WalType /\ BufType /\ CopyType /\ SharedType /\ ProcType
    /\ TypeOK' <=> WalType' /\ BufType' /\ CopyType' /\ SharedType' /\ ProcType'
BY DEF TypeOK, WalType, BufType, CopyType, SharedType, ProcType

\* What XLogInsert appends is a record.
LEMMA AppendType ==
    ASSUME WalType, NEW b \in Buffers, NEW h \in BOOLEAN, Append1(b, h)
    PROVE  wal' \subseteq Record /\ insertLsn' \in Lsn
<1> DEFINE i == h \/ (WithHints /\ pageLsn[b] <= redoRecPtr)
           r == [start |-> insertLsn, buf |-> b, hint |-> h, image |-> i]
<1>1. i \in BOOLEAN
    OBVIOUS
<1>2. r \in Record
    BY <1>1, SMT DEF WalType, Record
<1> QED
    BY <1>2, SMT DEF WalType, Append1, Lsn

\* A process that is not idle and does not compute works on a buffer.
LEMMA AtBuffer ==
    ASSUME Locks, NEW p \in Procs, pc[p] \notin {"idle"} \cup CalPcs
    PROVE  pb[p] \in Buffers
BY DEF Locks

\* A process works on a buffer wherever it appends a record.
LEMMA WalTypes == TypeOK /\ Locks /\ Writing /\ [Next]_vars => WalType'
<1> SUFFICES ASSUME TypeOK, Locks, Writing, [Next]_vars PROVE WalType'
    OBVIOUS
<1>0. WalType /\ BufType /\ CopyType /\ SharedType /\ ProcType
    BY TypeParts
<1>1. CASE UNCHANGED walVars
    BY <1>0, <1>1 DEF WalType, walVars
<1>2. ASSUME NEW p \in Procs, XLogInsert(p) \/ HintLog(p) PROVE WalType'
    <2>1. pb[p] \in Buffers
        BY <1>2 DEF XLogInsert, HintLog, Locks, CalPcs
    <2>2. wal' \subseteq Record /\ insertLsn' \in Lsn
        BY <1>0, <1>2, <2>1, AppendType DEF XLogInsert, HintLog
    <2> QED
        BY <1>0, <1>2, <2>2 DEF WalType, XLogInsert, HintLog
<1>3. ASSUME NEW p \in Procs, FlushXLog(p) PROVE WalType'
    BY <1>0, <1>3 DEF WalType, FlushXLog, MaxOf, ProcType
<1>4. ASSUME NEW p \in Procs, CopyFlushXLog(p) PROVE WalType'
    <2>1. pb[p] \in Buffers
        BY <1>4 DEF CopyFlushXLog, Locks, CalPcs
    <2>2. copyOf[pb[p]] \in CopyBuffers
        BY <1>0, <1>4, <2>1 DEF CopyFlushXLog, Writing, CopyIoPcs, HasCopy, BufType
    <2> QED
        BY <1>0, <1>4, <2>2 DEF WalType, CopyFlushXLog, MaxOf, CopyType
<1>5. CASE CkptBegin \/ CkptEnd \/ XLogFlush \/ Crash
    BY <1>0, <1>5, SMT DEF WalType, CkptBegin, CkptEnd, XLogFlush, Crash, Lsn
<1> QED
    BY <1>1, <1>2, <1>3, <1>4, <1>5, WalSteps

\* The buffers and their copies.
LEMMA BufTypes == TypeOK /\ [Next]_vars => BufType'
<1> SUFFICES ASSUME TypeOK, [Next]_vars PROVE BufType'
    OBVIOUS
<1>0. WalType /\ BufType /\ CopyType /\ SharedType /\ ProcType
    BY TypeParts
<1>1. CASE UNCHANGED bufVars
    BY <1>0, <1>1 DEF BufType, bufVars
<1>2. ASSUME NEW p \in Procs, MarkBufferDirty(p) PROVE BufType'
    BY <1>0, <1>2 DEF BufType, MarkBufferDirty
<1>3. ASSUME NEW p \in Procs, PutBuffer(p) PROVE BufType'
    BY <1>0, <1>3 DEF BufType, ProcType, PutBuffer
<1>4. ASSUME NEW p \in Procs, AdjustPosition(p) PROVE BufType'
    BY <1>0, <1>4 DEF BufType, ProcType, AdjustPosition
<1>5. ASSUME NEW p \in Procs, PageSetLSN(p) \/ HintPut(p)
      PROVE  BufType'
    BY <1>0, <1>5 DEF BufType, ProcType, PageSetLSN, HintPut
<1>6. ASSUME NEW p \in Procs, HintDirty(p) PROVE BufType'
    BY <1>0, <1>6 DEF BufType, ProcType, HintDirty
<1>7. ASSUME NEW p \in Procs, FlushStart(p) PROVE BufType'
    BY <1>0, <1>7 DEF BufType, FlushStart
<1>8. ASSUME NEW p \in Procs, FlushReset(p) PROVE BufType'
    <2>1. UNCHANGED <<dirty, justDirtied, pageLsn, copyOf>>
        BY <1>8 DEF FlushReset
    <2>2. CASE oldestLsn[pb[p]] = Invalid
        BY <1>0, <1>8, <2>1, <2>2 DEF BufType, FlushReset
    <2>3. CASE oldestLsn[pb[p]] # Invalid
        <3>1. /\ oldestLsn' = [oldestLsn EXCEPT ![pb[p]] = 0]
              /\ touched' = [touched EXCEPT ![pb[p]] = FALSE]
            BY <1>8, <2>3 DEF FlushReset, Invalid
        <3> QED
            BY <1>0, <2>1, <3>1 DEF BufType, Lsn
    <2> QED
        BY <2>2, <2>3
<1>9. ASSUME NEW p \in Procs, FlushEnd(p) PROVE BufType'
    BY <1>0, <1>9 DEF BufType, FlushEnd
<1>10. ASSUME NEW p \in Procs, FlushFreeCopy(p) \/ CopyFlushEnd(p)
      PROVE  BufType'
    BY <1>0, <1>10 DEF BufType, FlushFreeCopy, CopyFlushEnd, FreeCopyBuffer
<1>11. ASSUME NEW p \in Procs, CopyBuffer(p) PROVE BufType'
    BY <1>0, <1>11 DEF BufType, CopyBuffer
<1>12. CASE Crash
    BY <1>0, <1>12 DEF BufType, SharedType, Crash, Invalid, Lsn
<1>13. CASE RedoRecord
    <2>1. CASE UNCHANGED <<dirty, justDirtied, pageLsn, oldestLsn>>
        BY <1>0, <1>13, <2>1 DEF BufType, RedoRecord
    <2>2. ASSUME NEW r \in wal,
                 pageLsn' = [pageLsn EXCEPT ![r.buf] = r.start + 1],
                 dirty' = [dirty EXCEPT ![r.buf] = TRUE],
                 justDirtied' = [justDirtied EXCEPT ![r.buf] = TRUE],
                 oldestLsn' = [oldestLsn EXCEPT ![r.buf] =
                                 IF @ = Invalid THEN r.start ELSE @]
          PROVE  BufType'
        <3>1. r.start \in Nat /\ r.buf \in Buffers
            BY <1>0 DEF WalType, Record, Lsn
        <3>2. UNCHANGED <<touched, copyOf>>
            BY <1>13 DEF RedoRecord
        <3>3. pageLsn' \in [Buffers -> Lsn] /\ oldestLsn' \in [Buffers -> Lsn]
            BY <1>0, <2>2, <3>1, SMT DEF BufType, Lsn
        <3> QED
            BY <1>0, <2>2, <3>2, <3>3 DEF BufType
    <2> QED
        BY <1>13, <2>1, <2>2 DEF RedoRecord
<1> QED
    BY <1>1, <1>2, <1>3, <1>4, <1>5, <1>6, <1>7, <1>8, <1>9, <1>10,
       <1>11, <1>12, <1>13, BufSteps, Zenon

\* Copy buffers keep their types.
LEMMA CopyTypes == TypeOK /\ Locks /\ [Next]_vars => CopyType'
<1> SUFFICES ASSUME TypeOK, Locks, [Next]_vars PROVE CopyType'
    OBVIOUS
<1>0. WalType /\ BufType /\ CopyType /\ SharedType /\ ProcType
    BY TypeParts
<1>1. CASE UNCHANGED copyVars
    BY <1>0, <1>1 DEF CopyType, copyVars
<1>2. ASSUME NEW p \in Procs, FlushFreeCopy(p) \/ CopyFlushEnd(p) PROVE CopyType'
    BY <1>0, <1>2, SMT DEF CopyType, FlushFreeCopy, CopyFlushEnd, FreeCopyBuffer, Invalid, Lsn
<1>3. ASSUME NEW p \in Procs, CopyBuffer(p) PROVE CopyType'
    <2>1. pb[p] \in Buffers
        BY <1>3 DEF CopyBuffer, Locks, CalPcs
    <2> QED
        BY <1>0, <1>3, <2>1, SMT DEF CopyType, BufType, CopyBuffer
<1>4. CASE Crash
    BY <1>4 DEF CopyType, Crash, Invalid, Lsn
<1> QED
    BY <1>1, <1>2, <1>3, <1>4, CopySteps

\* Storage, XLogCtl, checkpoint and recovery state keep their types.
LEMMA SharedTypes == TypeOK /\ Locks /\ Writing /\ [Next]_vars => SharedType'
<1> SUFFICES ASSUME TypeOK, Locks, Writing, [Next]_vars PROVE SharedType'
    OBVIOUS
<1>0. WalType /\ BufType /\ CopyType /\ SharedType /\ ProcType
    BY TypeParts
<1>1. diskLsn' \in [Buffers -> Lsn]
    <2>1. CASE UNCHANGED diskLsn
        BY <1>0, <2>1 DEF SharedType
    <2>2. ASSUME NEW p \in Procs, FlushWrite(p) PROVE diskLsn' \in [Buffers -> Lsn]
        <3>1. pb[p] \in Buffers
            BY <2>2, AtBuffer DEF FlushWrite, CalPcs
        <3> QED
            BY <1>0, <2>2, <3>1 DEF SharedType, BufType, FlushWrite
    <2>3. ASSUME NEW p \in Procs, CopyFlushWrite(p) PROVE diskLsn' \in [Buffers -> Lsn]
        <3>1. pb[p] \in Buffers
            BY <2>3, AtBuffer DEF CopyFlushWrite, CalPcs
        <3>2. copyOf[pb[p]] \in CopyBuffers
            BY <1>0, <2>3, <3>1 DEF CopyFlushWrite, Writing, CopyIoPcs, HasCopy, BufType
        <3> QED
            BY <1>0, <2>3, <3>1, <3>2 DEF SharedType, CopyType, CopyFlushWrite
    <2> QED
        BY <2>1, <2>2, <2>3, DiskSteps
<1>4. direct' \subseteq Procs /\ unchecked' \subseteq Buffers
    <2>0. direct \subseteq Procs /\ unchecked \subseteq Buffers
        BY <1>0 DEF SharedType
    <2>1. ASSUME NEW p \in Procs, FlushWrite(p) PROVE unchecked' \subseteq Buffers /\ direct' = direct
        <3>1. pb[p] \in Buffers
            BY <2>1, AtBuffer DEF FlushWrite, CalPcs
        <3> QED
            BY <2>0, <2>1, <3>1 DEF FlushWrite
    <2>2. ASSUME NEW p \in Procs,
                 (\E b \in Buffers : FlushRelationBuffers(p, b)) \/ FlushStart(p) \/ FlushEnd(p)
                 \/ CopyFlushWrite(p)
          PROVE  direct' \subseteq Procs /\ unchecked' \subseteq Buffers
        BY <2>0, <2>2 DEF FlushRelationBuffers, FlushStart, FlushEnd, CopyFlushWrite
    <2>3. CASE Crash
        BY <2>0, <2>3 DEF Crash
    <2> QED
        BY <2>0, <2>1, <2>2, <2>3, DirectSteps
<1>2. /\ redoRecPtr' \in Lsn /\ ckptRunning' \in BOOLEAN
      /\ ckptWait' \subseteq Procs /\ ckptRedo' \in Lsn
    <2>1. CASE UNCHANGED ckptVars
        BY <1>0, <2>1 DEF SharedType, ckptVars
    <2>2. ASSUME NEW p \in Procs, HintDirty(p)
          PROVE  UNCHANGED <<redoRecPtr, ckptRunning, ckptRedo>> /\ ckptWait' \subseteq ckptWait
        BY <2>2 DEF HintDirty
    <2>3. CASE CkptBegin \/ CkptEnd \/ Crash
        BY <1>0, <2>3 DEF SharedType, WalType, CkptBegin, CkptEnd, Crash
    <2> QED
        BY <1>0, <2>1, <2>2, <2>3, CkptSteps DEF SharedType
<1>3. /\ consistentLsn' \in Lsn /\ oldestApply' \in Lsn
      /\ applyLsn' \in [Replicas -> Lsn]
      /\ mode' \in {"run", "redo"} /\ replayLsn' \in Lsn /\ crashes' \in Nat
    <2>1. CASE UNCHANGED <<consistentLsn, replVars, recVars>>
        BY <1>0, <2>1 DEF SharedType, replVars, recVars
    <2>2. ASSUME NEW p \in Procs, SetConsistentLsn(p)
          PROVE  consistentLsn' \in Lsn /\ UNCHANGED <<replVars, recVars>>
        BY <1>0, <2>2 DEF SharedType, ProcType, SetConsistentLsn, MaxOf
    <2>3. CASE Replicate
        BY <1>0, <2>3, SMT DEF SharedType, Replicate, ReplicaReply, DropSlot,
           SetOldestReplicaLsn, MaxOf, recVars, Invalid, Lsn
    <2>4. CASE Recover
        BY <1>0, <2>4, SMT DEF SharedType, Recover, Crash, RedoRecord, EndRecovery,
           replVars, Invalid, Lsn
    <2> QED
        BY <1>0, <2>1, <2>2, <2>3, <2>4, RecSteps DEF SharedType, replVars, recVars
<1> QED
    BY <1>1, <1>2, <1>3, <1>4 DEF SharedType

\* Where a process may go, and what it may hold there.
LEMMA ProcStep ==
    ASSUME ProcType, NEW p \in Procs, NEW l \in Pcs, NEW v \in Lsn
    PROVE  /\ Step(p, l) => ProcType'
           /\ StepHolding(p, l, v) => ProcType'
           /\ Done(p) => ProcType'
           /\ \A b \in Buffers : Enter(p, l, b, v) => ProcType'
<1>1. "idle" \in Pcs
    BY DEF Pcs
<1>2. 0 \in Lsn
    BY DEF Lsn
<1>3. Step(p, l) => ProcType'
    BY DEF ProcType, Step, Goto
<1>4. StepHolding(p, l, v) => ProcType'
    BY DEF ProcType, StepHolding, Goto, Hold
<1>5. Done(p) => ProcType'
    BY <1>1, <1>2 DEF ProcType, Done, Goto, Hold
<1>6. ASSUME NEW b \in Buffers PROVE Enter(p, l, b, v) => ProcType'
    BY DEF ProcType, Enter, Goto, Hold
<1> QED
    BY <1>3, <1>4, <1>5, <1>6

\* Every process stays at one of its program counters.
LEMMA ProcTypes == TypeOK /\ Locks /\ WalBounds /\ [Next]_vars => ProcType'
<1> SUFFICES ASSUME TypeOK, Locks, WalBounds, [Next]_vars PROVE ProcType'
    OBVIOUS
<1>0. WalType /\ BufType /\ CopyType /\ SharedType /\ ProcType
    BY TypeParts
<1>1. ASSUME NEW p \in Procs, Update(p) PROVE ProcType'
    <2> USE DEF Pcs, ExclPcs
    <2>1. ASSUME NEW b \in Buffers, LockForUpdate(p, b) PROVE ProcType'
        BY <1>0, <2>1, ProcStep DEF LockForUpdate, Lsn
    <2>2. CASE MarkBufferDirty(p)
        BY <1>0, <2>2, ProcStep DEF MarkBufferDirty, WalType
    <2>3. CASE PutBuffer(p) \/ AdjustPosition(p) \/ PageSetLSN(p)
        BY <1>0, <2>3, ProcStep DEF PutBuffer, AdjustPosition, PageSetLSN, Lsn
    <2>4. CASE XLogInsert(p)
        <3>1. insertLsn + 1 \in Lsn
            BY <1>0, SMT DEF WalType, Lsn
        <3> QED
            BY <1>0, <2>4, <3>1, ProcStep DEF XLogInsert
    <2> QED
        BY <1>1, <2>1, <2>2, <2>3, <2>4 DEF Update
<1>2. ASSUME NEW p \in Procs, Hint(p) PROVE ProcType'
    <2> USE DEF Pcs, SharePcs, HintPcs
    <2>1. ASSUME NEW b \in Buffers, HintStart(p, b) PROVE ProcType'
        BY <1>0, <2>1, ProcStep DEF HintStart, Lsn
    <2>2. CASE HintSave(p) \/ HintPut(p) \/ HintDirty(p)
        BY <1>0, <2>2, ProcStep DEF HintSave, HintPut, HintDirty, Lsn
    <2>3. CASE HintList(p)
        BY <1>0, <2>3, ProcStep DEF HintList, WalType
    <2>4. CASE HintLog(p)
        <3>1. insertLsn + 1 \in Lsn
            BY <1>0, SMT DEF WalType, Lsn
        <3> QED
            BY <1>0, <2>4, <3>1, ProcStep DEF HintLog
    <2> QED
        BY <1>2, <2>1, <2>2, <2>3, <2>4 DEF Hint
<1>3. ASSUME NEW p \in Procs, Flush(p) PROVE ProcType'
    <2> USE DEF Pcs, SharePcs, IoPcs, FlushIoPcs
    <2>1. ASSUME NEW b \in Buffers, SyncOneBuffer(p, b) \/ GetVictimBuffer(p, b)
                                      \/ FlushRelationBuffers(p, b)
          PROVE  ProcType'
        BY <1>0, <2>1, ProcStep DEF SyncOneBuffer, GetVictimBuffer, FlushRelationBuffers, SharedType, Lsn
    <2>2. CASE SyncLocked(p)
        BY <1>0, <2>2, ProcStep DEF SyncLocked, Lsn
    <2>3. CASE FlushStart(p)
        <3>1. pb[p] \in Buffers
            BY <2>3, AtBuffer DEF FlushStart, CalPcs
        <3> QED
            BY <1>0, <2>3, <3>1, ProcStep DEF FlushStart, BufType, Lsn
    <2>4. CASE FlushSkip(p) \/ FlushXLog(p) \/ FlushWrite(p) \/ FlushFreeCopy(p)
        BY <1>0, <2>4, ProcStep DEF FlushSkip, FlushXLog, FlushWrite,
           FlushFreeCopy, Lsn
    <2>5. CASE FlushReset(p) \/ FlushEnd(p)
        BY <1>0, <2>5, ProcStep DEF FlushReset, FlushEnd, Lsn
    <2> QED
        BY <1>3, <2>1, <2>2, <2>3, <2>4, <2>5 DEF Flush
<1>4. ASSUME NEW p \in Procs, Copy(p) PROVE ProcType'
    BY <1>0, <1>4, ProcStep DEF Copy, CopyFlushStart, CopyFlushXLog,
       CopyFlushWrite, CopyFlushEnd, CopyBuffer, Lsn, Pcs, SharePcs, IoPcs,
       CopyIoPcs
<1>5. ASSUME NEW p \in Procs, CalFlushLists(p) PROVE ProcType'
    <2>1. MaxValidLsns \subseteq Lsn
        BY <1>0, SMT DEF MaxValidLsns, MaxOf, SharedType, WalType, WalBounds, Lsn
    <2> QED
        BY <1>0, <1>5, <2>1 DEF CalFlushLists, ProcType, BufType, SharedType,
           InFlushList, Goto, Hold, Pcs, CalPcs, Lsn
<1>6. ASSUME NEW p \in Procs, CalCopyBuffers(p) PROVE ProcType'
    BY <1>0, <1>6, SMT DEF CalCopyBuffers, ProcType, CopyType, Goto, Hold, Pcs, CalPcs, Lsn
<1>7. ASSUME NEW p \in Procs, SetConsistentLsn(p) PROVE ProcType'
    BY <1>0, <1>7 DEF SetConsistentLsn, ProcType, Goto, Hold, Pcs, Lsn
<1>8. CASE UNCHANGED procVars
    BY <1>0, <1>8 DEF ProcType, procVars
<1>9. CASE Crash
    BY <1>9 DEF Crash, ProcType, Pcs, Lsn
<1> QED
    BY <1>1, <1>2, <1>3, <1>4, <1>5, <1>6, <1>7, <1>8, <1>9, ProcSteps DEF Calculate

\* Every step keeps every variable in its domain.
LEMMA TypeInductive ==
    TypeOK /\ Locks /\ WalBounds /\ Writing /\ [Next]_vars => TypeOK'
BY TypeParts, WalTypes, BufTypes, CopyTypes, SharedTypes, ProcTypes

-----------------------------------------------------------------------------
(* The moves of a process, with what the proofs need to know of each. *)

Unmoved(q) ==
    /\ pc'[q] = pc[q] /\ pb'[q] = pb[q]
    /\ plsn'[q] = plsn[q] /\ pscan'[q] = pscan[q]
Edge(q, from, to) == pc[q] = from /\ pc'[q] = to /\ pb'[q] = pb[q]

UpdateMove(q) ==
    \/ pc[q] = "idle" /\ pc'[q] = "mark"
    \/ Edge(q, "mark", "put") /\ MarkBufferDirty(q) /\ oldestLsn[pb[q]] = Invalid
    \/ Edge(q, "mark", "adjust") /\ MarkBufferDirty(q) /\ FirstTouchAfterCopy(pb[q])
    \/ /\ Edge(q, "mark", "log") /\ MarkBufferDirty(q)
       /\ oldestLsn[pb[q]] # Invalid /\ ~FirstTouchAfterCopy(pb[q])
    \/ Edge(q, "put", "log") /\ PutBuffer(q)
    \/ Edge(q, "adjust", "log") /\ AdjustPosition(q)
    \/ Edge(q, "log", "setlsn") /\ XLogInsert(q) /\ plsn'[q] = insertLsn + 1
    \/ pc[q] = "setlsn" /\ pc'[q] = "idle" /\ PageSetLSN(q)
HintMove(q) ==
    \/ pc[q] = "idle" /\ pc'[q] = "hsave"
    \/ Edge(q, "hsave", "hdirty") /\ plsn'[q] = plsn[q]
    \/ Edge(q, "hsave", "hlist") \/ Edge(q, "hsave", "hlog")
    \/ Edge(q, "hlist", "hlog")
    \/ Edge(q, "hlist", "hput") /\ HintList(q) /\ oldestLsn[pb[q]] = Invalid
    \/ Edge(q, "hput", "hlog")
    \/ Edge(q, "hlog", "hdirty") /\ HintLog(q) /\ plsn'[q] = insertLsn + 1
    \/ pc[q] = "hdirty" /\ pc'[q] = "idle"
FlushMove(q) ==
    \/ pc[q] = "idle" /\ pc'[q] \in {"sync", "fstart"}
    \/ pc[q] \in {"sync", "fstart", "fend"} /\ pc'[q] = "idle"
    \/ Edge(q, "sync", "fstart") \/ Edge(q, "sync", "cstart") \/ Edge(q, "sync", "copy")
    \/ /\ Edge(q, "fstart", "fwal") /\ FlushStart(q)
       /\ dirty[pb[q]] /\ plsn'[q] = pageLsn[pb[q]]
    \/ Edge(q, "fwal", "fwrite") /\ FlushXLog(q)
    \/ Edge(q, "fwrite", "ffree") /\ FlushWrite(q)
    \/ Edge(q, "ffree", "freset") /\ FlushFreeCopy(q)
    \/ Edge(q, "freset", "fend") /\ FlushReset(q)
CopyIoMove(q) ==
    \/ pc[q] \in {"cstart", "cfree", "copy"} /\ pc'[q] = "idle"
    \/ Edge(q, "cstart", "cwal") /\ CopyFlushStart(q) /\ HasCopy(pb[q])
    \/ Edge(q, "cwal", "cwrite") /\ CopyFlushXLog(q)
    \/ Edge(q, "cwrite", "cfree") /\ CopyFlushWrite(q)
CalMove(q) ==
    \/ pc[q] = "idle" /\ pc'[q] \in CalPcs /\ CalFlushLists(q)
    \/ pc[q] = "calcopy" /\ pc'[q] \in CalPcs /\ CalCopyBuffers(q)
    \/ pc[q] = "calset" /\ pc'[q] = "idle"

\* Nobody moves another process.
LEMMA OthersStay ==
    ASSUME ProcType, NEW p \in Procs, NEW q \in Procs, p # q,
           Update(p) \/ Hint(p) \/ Flush(p) \/ Copy(p) \/ Calculate(p)
    PROVE  Unmoved(q)
<1> USE DEF Unmoved, ProcType, Step, StepHolding, Enter, Done, Goto, Hold
<1>1. CASE Update(p)
    BY <1>1 DEF Update, LockForUpdate, MarkBufferDirty, PutBuffer, AdjustPosition,
       XLogInsert, PageSetLSN
<1>2. CASE Hint(p)
    BY <1>2 DEF Hint, HintStart, HintSave, HintList, HintPut, HintLog, HintDirty
<1>3. CASE Flush(p)
    <2>1. CASE \E b \in Buffers : SyncOneBuffer(p, b) \/ GetVictimBuffer(p, b)
                                      \/ FlushRelationBuffers(p, b)
        BY <2>1 DEF SyncOneBuffer, GetVictimBuffer, FlushRelationBuffers
    <2>2. CASE SyncLocked(p) \/ FlushStart(p) \/ FlushSkip(p) \/ FlushXLog(p)
        BY <2>2 DEF SyncLocked, FlushStart, FlushSkip, FlushXLog
    <2>3. CASE FlushWrite(p) \/ FlushFreeCopy(p) \/ FlushReset(p) \/ FlushEnd(p)
        BY <2>3 DEF FlushWrite, FlushFreeCopy, FlushReset, FlushEnd
    <2> QED
        BY <1>3, <2>1, <2>2, <2>3 DEF Flush
<1>4. CASE Copy(p)
    BY <1>4 DEF Copy, CopyFlushStart, CopyFlushXLog, CopyFlushWrite, CopyFlushEnd,
       CopyBuffer
<1>5. CASE Calculate(p)
    BY <1>5 DEF Calculate, CalFlushLists, CalCopyBuffers, SetConsistentLsn
<1> QED
    BY <1>1, <1>2, <1>3, <1>4, <1>5

\* How a process moves itself.
LEMMA Moves ==
    ASSUME ProcType, [Next]_vars, ~Crash, NEW q \in Procs
    PROVE  \/ Unmoved(q) \/ UpdateMove(q) \/ HintMove(q) \/ FlushMove(q)
           \/ CopyIoMove(q) \/ CalMove(q)
<1> USE DEF ProcType, Step, StepHolding, Enter, Done, Goto, Hold, Edge
<1>1. CASE UNCHANGED procVars
    BY <1>1 DEF Unmoved, procVars
<1>2. ASSUME Update(q) PROVE UpdateMove(q)
    <2>1. ASSUME NEW b \in Buffers, LockForUpdate(q, b) PROVE UpdateMove(q)
        BY <2>1 DEF UpdateMove, LockForUpdate
    <2>2. ASSUME MarkBufferDirty(q) PROVE UpdateMove(q)
        BY <2>2 DEF UpdateMove, MarkBufferDirty
    <2>3. ASSUME PutBuffer(q) \/ AdjustPosition(q) PROVE UpdateMove(q)
        BY <2>3 DEF UpdateMove, PutBuffer, AdjustPosition
    <2>4. ASSUME XLogInsert(q) \/ PageSetLSN(q) PROVE UpdateMove(q)
        BY <2>4 DEF UpdateMove, XLogInsert, PageSetLSN
    <2> QED
        BY <1>2, <2>1, <2>2, <2>3, <2>4 DEF Update
<1>3. ASSUME Hint(q) PROVE HintMove(q)
    <2>1. ASSUME NEW b \in Buffers, HintStart(q, b) PROVE HintMove(q)
        BY <2>1 DEF HintMove, HintStart
    <2>2. ASSUME HintSave(q) PROVE HintMove(q)
        BY <2>2 DEF HintMove, HintSave
    <2>3. ASSUME HintList(q) \/ HintPut(q) PROVE HintMove(q)
        BY <2>3 DEF HintMove, HintList, HintPut
    <2>4. ASSUME HintLog(q) \/ HintDirty(q) PROVE HintMove(q)
        BY <2>4 DEF HintMove, HintLog, HintDirty
    <2> QED
        BY <1>3, <2>1, <2>2, <2>3, <2>4 DEF Hint
<1>4. ASSUME Flush(q) PROVE FlushMove(q)
    <2>1. ASSUME NEW b \in Buffers, SyncOneBuffer(q, b) \/ GetVictimBuffer(q, b)
                                      \/ FlushRelationBuffers(q, b)
          PROVE  FlushMove(q)
        BY <2>1 DEF FlushMove, SyncOneBuffer, GetVictimBuffer, FlushRelationBuffers
    <2>2. ASSUME SyncLocked(q) \/ FlushSkip(q) \/ FlushEnd(q) PROVE FlushMove(q)
        BY <2>2 DEF FlushMove, SyncLocked, FlushSkip, FlushEnd
    <2>3. ASSUME FlushStart(q) PROVE FlushMove(q)
        BY <2>3 DEF FlushMove, FlushStart
    <2>4. ASSUME FlushXLog(q) \/ FlushWrite(q) PROVE FlushMove(q)
        BY <2>4 DEF FlushMove, FlushXLog, FlushWrite
    <2>5. ASSUME FlushFreeCopy(q) PROVE FlushMove(q)
        BY <2>5 DEF FlushMove, FlushFreeCopy
    <2>6. ASSUME FlushReset(q) PROVE FlushMove(q)
        BY <2>6 DEF FlushMove, FlushReset
    <2> QED
        BY <1>4, <2>1, <2>2, <2>3, <2>4, <2>5, <2>6 DEF Flush
<1>5. ASSUME Copy(q) PROVE CopyIoMove(q)
    BY <1>5 DEF CopyIoMove, Copy, CopyFlushStart, CopyFlushXLog, CopyFlushWrite,
       CopyFlushEnd, CopyBuffer, HasCopy
<1>6. ASSUME Calculate(q) PROVE CalMove(q)
    BY <1>6 DEF CalMove, Calculate, CalFlushLists, CalCopyBuffers, SetConsistentLsn, CalPcs
<1> QED
    BY <1>1, <1>2, <1>3, <1>4, <1>5, <1>6, ProcSteps, OthersStay

-----------------------------------------------------------------------------
(* Locks. *)

\* A process at b may hold what is held at l if q may go on holding its locks.
Compatible(q, b, l) ==
    pb[q] = b =>
        /\ l \in ExclPcs => pc[q] \notin ExclPcs \cup SharePcs
        /\ l \in SharePcs => pc[q] \notin ExclPcs
        /\ l \in IoPcs => pc[q] \notin IoPcs
        /\ l \in ListPcs => pc[q] \notin ListPcs

\* A process that goes to a place where it holds the lock of a buffer only
\* when nobody holds a lock that excludes it keeps Locks; the program counters
\* are those of any place.
LEMMA LockStep ==
    ASSUME ProcType, Locks, NEW p \in Procs, NEW l \in Pcs, NEW b \in Buffers,
           pc' = [pc EXCEPT ![p] = l], pb' = [pb EXCEPT ![p] = b],
           \A q \in Procs \ {p} : Compatible(q, b, l)
    PROVE  Locks'
BY DEF Locks, ProcType, Compatible

\* A process that gives up its buffer disturbs no lock.
LEMMA UnlockStep ==
    ASSUME ProcType, Locks, NEW p \in Procs, NEW l \in {"idle"} \cup CalPcs,
           NEW b, pc' = [pc EXCEPT ![p] = l], pb' = [pb EXCEPT ![p] = b]
    PROVE  Locks'
<1>1. l \notin ExclPcs \cup SharePcs \cup IoPcs \cup ListPcs
    BY DEF ExclPcs, SharePcs, IoPcs, ListPcs, CalPcs, HintPcs, FlushIoPcs, CopyIoPcs
<1> QED
    BY <1>1, SMT DEF Locks, ProcType

\* A step of a process at one buffer that asks for no more than it has.
LEMMA KeepStep ==
    ASSUME ProcType, Locks, NEW p \in Procs, NEW l \in Pcs,
           pc[p] \notin {"idle"} \cup CalPcs,
           pc' = [pc EXCEPT ![p] = l], pb' = pb,
           l \in ExclPcs => pc[p] \in ExclPcs,
           l \in SharePcs => pc[p] \in SharePcs,
           l \in IoPcs => pc[p] \in IoPcs,
           l \in ListPcs => pc[p] \in ListPcs
    PROVE  Locks'
<1>1. pb[p] \in Buffers
    BY AtBuffer
<1>2. pb' = [pb EXCEPT ![p] = pb[p]]
    BY DEF ProcType
<1> QED
    BY <1>1, <1>2, LockStep, SMT DEF Locks, Compatible

\* Every action respects the content lock, BM_IO_IN_PROGRESS and the list lock.
LEMMA LocksInductive == TypeOK /\ Locks /\ [Next]_vars => Locks'
<1> SUFFICES ASSUME TypeOK, Locks, [Next]_vars PROVE Locks'
    OBVIOUS
<1>0. ProcType
    BY TypeParts
<1> USE DEF Pcs, ExclPcs, SharePcs, IoPcs, ListPcs, HintPcs, FlushIoPcs,
            CopyIoPcs, CalPcs
<1>1. ASSUME NEW p \in Procs, Update(p) PROVE Locks'
    <2>1. ASSUME NEW b \in Buffers, LockForUpdate(p, b) PROVE Locks'
        <3>1. \A q \in Procs \ {p} : Compatible(q, b, "mark")
            BY <2>1 DEF LockForUpdate, ExclLocked, ShareLocked, AtBuf, Compatible
        <3> QED
            BY <1>0, <2>1, <3>1, LockStep DEF LockForUpdate, Enter, Goto
    <2>2. CASE MarkBufferDirty(p)
        <3>1. pb[p] \in Buffers /\ pb' = [pb EXCEPT ![p] = pb[p]]
            BY <1>0, <2>2, AtBuffer DEF MarkBufferDirty, ProcType, Step, StepHolding
        <3>2. PICK l \in {"put", "adjust", "log"} :
                  /\ pc' = [pc EXCEPT ![p] = l]
                  /\ l \in ListPcs => ~ListLocked(pb[p])
            BY <2>2 DEF MarkBufferDirty, Step, StepHolding, Goto
        <3>3. \A q \in Procs \ {p} : Compatible(q, pb[p], l)
            BY <2>2, <3>2 DEF MarkBufferDirty, ListLocked, Locks, Compatible
        <3> QED
            BY <1>0, <3>1, <3>2, <3>3, LockStep
    <2>3. CASE PutBuffer(p) \/ AdjustPosition(p) \/ XLogInsert(p)
        BY <1>0, <2>3, KeepStep DEF PutBuffer, AdjustPosition, XLogInsert, Step,
           StepHolding, Goto
    <2>4. CASE PageSetLSN(p)
        BY <1>0, <2>4, UnlockStep DEF PageSetLSN, Done, Goto
    <2> QED
        BY <1>1, <2>1, <2>2, <2>3, <2>4 DEF Update
<1>2. ASSUME NEW p \in Procs, Hint(p) PROVE Locks'
    <2>1. ASSUME NEW b \in Buffers, HintStart(p, b) PROVE Locks'
        <3>1. \A q \in Procs \ {p} : Compatible(q, b, "hsave")
            BY <2>1 DEF HintStart, ExclLocked, AtBuf, Compatible
        <3> QED
            BY <1>0, <2>1, <3>1, LockStep DEF HintStart, Enter, Goto
    <2>2. CASE HintSave(p) \/ HintPut(p) \/ HintLog(p)
        BY <1>0, <2>2, KeepStep DEF HintSave, HintPut, HintLog, Step, StepHolding, Goto
    <2>3. CASE HintList(p)
        <3>1. pb[p] \in Buffers /\ pb' = [pb EXCEPT ![p] = pb[p]]
            BY <1>0, <2>3, AtBuffer DEF HintList, ProcType, Step, StepHolding
        <3>2. PICK l \in {"hlog", "hput"} : pc' = [pc EXCEPT ![p] = l]
            BY <2>3 DEF HintList, Step, StepHolding, Goto
        <3>3. \A q \in Procs \ {p} : Compatible(q, pb[p], l)
            BY <2>3, <3>2 DEF HintList, ListLocked, Locks, Compatible
        <3> QED
            BY <1>0, <3>1, <3>2, <3>3, LockStep
    <2>4. CASE HintDirty(p)
        BY <1>0, <2>4, UnlockStep DEF HintDirty, Done, Goto
    <2> QED
        BY <1>2, <2>1, <2>2, <2>3, <2>4 DEF Hint
<1>3. ASSUME NEW p \in Procs, Flush(p) PROVE Locks'
    <2>1. ASSUME NEW b \in Buffers, SyncOneBuffer(p, b) \/ GetVictimBuffer(p, b)
                                      \/ FlushRelationBuffers(p, b)
          PROVE  Locks'
        <3>1. \A q \in Procs \ {p} : Compatible(q, b, "sync")
            BY DEF Compatible
        <3>2. GetVictimBuffer(p, b) \/ FlushRelationBuffers(p, b)
              => \A q \in Procs \ {p} : Compatible(q, b, "fstart")
            BY DEF GetVictimBuffer, FlushRelationBuffers, ExclLocked, AtBuf, Compatible
        <3> QED
            BY <1>0, <2>1, <3>1, <3>2, LockStep DEF SyncOneBuffer, GetVictimBuffer, FlushRelationBuffers,
               Enter, Goto
    <2>2. CASE SyncLocked(p)
        <3>1. CASE Done(p)
            BY <1>0, <3>1, UnlockStep DEF Done, Goto
        <3>2. ASSUME NEW l \in {"fstart", "cstart", "copy"}, Step(p, l)
              PROVE  Locks'
            <4>1. pb[p] \in Buffers /\ pb' = [pb EXCEPT ![p] = pb[p]]
                BY <1>0, <2>2, <3>2, AtBuffer DEF SyncLocked, ProcType, Step
            <4>2. \A q \in Procs \ {p} : Compatible(q, pb[p], l)
                BY <2>2 DEF SyncLocked, ExclLocked, AtBuf, Compatible
            <4> QED
                BY <1>0, <3>2, <4>1, <4>2, LockStep DEF Step, Goto
        <3> QED
            BY <2>2, <3>1, <3>2 DEF SyncLocked
    <2>3. CASE FlushStart(p)
        <3>1. CASE Done(p)
            BY <1>0, <3>1, UnlockStep DEF Done, Goto
        <3>2. CASE StepHolding(p, "fwal", pageLsn[pb[p]])
            <4>1. pb[p] \in Buffers /\ pb' = [pb EXCEPT ![p] = pb[p]]
                BY <1>0, <2>3, <3>2, AtBuffer DEF FlushStart, ProcType, StepHolding
            <4>2. \A q \in Procs \ {p} : Compatible(q, pb[p], "fwal")
                BY <2>3 DEF FlushStart, IoInProgress, AtBuf, Locks, Compatible
            <4> QED
                BY <1>0, <3>2, <4>1, <4>2, LockStep DEF StepHolding, Goto
        <3> QED
            BY <2>3, <3>1, <3>2 DEF FlushStart
    <2>4. CASE FlushXLog(p) \/ FlushWrite(p) \/ FlushFreeCopy(p) \/ FlushReset(p)
        BY <1>0, <2>4, KeepStep DEF FlushXLog, FlushWrite, FlushFreeCopy,
           FlushReset, Step, Goto
    <2>5. CASE FlushSkip(p) \/ FlushEnd(p)
        BY <1>0, <2>5, UnlockStep DEF FlushSkip, FlushEnd, Done, Goto
    <2> QED
        BY <1>3, <2>1, <2>2, <2>3, <2>4, <2>5 DEF Flush
<1>4. ASSUME NEW p \in Procs, Copy(p) PROVE Locks'
    <2>1. CASE CopyFlushStart(p)
        <3>1. CASE Done(p)
            BY <1>0, <3>1, UnlockStep DEF Done, Goto
        <3>2. CASE Step(p, "cwal")
            <4>1. pb[p] \in Buffers /\ pb' = [pb EXCEPT ![p] = pb[p]]
                BY <1>0, <2>1, <3>2, AtBuffer DEF CopyFlushStart, ProcType, Step
            <4>2. \A q \in Procs \ {p} : Compatible(q, pb[p], "cwal")
                BY <2>1 DEF CopyFlushStart, IoInProgress, AtBuf, Locks, Compatible
            <4> QED
                BY <1>0, <3>2, <4>1, <4>2, LockStep DEF Step, Goto
        <3> QED
            BY <2>1, <3>1, <3>2 DEF CopyFlushStart
    <2>2. CASE CopyFlushXLog(p) \/ CopyFlushWrite(p)
        BY <1>0, <2>2, KeepStep DEF CopyFlushXLog, CopyFlushWrite, Step, Goto
    <2>3. CASE CopyFlushEnd(p) \/ CopyBuffer(p)
        BY <1>0, <2>3, UnlockStep DEF CopyFlushEnd, CopyBuffer, Done, Goto
    <2> QED
        BY <1>4, <2>1, <2>2, <2>3 DEF Copy
<1>5. ASSUME NEW p \in Procs, Calculate(p) PROVE Locks'
    <2>1. pb' = [pb EXCEPT ![p] = pb[p]]
        <3>1. UNCHANGED pb
            BY <1>5 DEF Calculate, CalFlushLists, CalCopyBuffers, SetConsistentLsn
        <3> QED
            BY <1>0, <3>1 DEF ProcType
    <2>2. PICK l \in {"idle"} \cup CalPcs : pc' = [pc EXCEPT ![p] = l]
        BY <1>0, <1>5 DEF Calculate, CalFlushLists, CalCopyBuffers,
           SetConsistentLsn, Goto, ProcType
    <2> QED
        BY <1>0, <2>1, <2>2, UnlockStep
<1>6. CASE UNCHANGED procVars
    BY <1>6 DEF Locks, procVars
<1>7. CASE Crash
    BY <1>7 DEF Crash, Locks
<1> QED
    BY <1>1, <1>2, <1>3, <1>4, <1>5, <1>6, <1>7, ProcSteps

-----------------------------------------------------------------------------
(* Bounds. *)

\* Only a crash takes WAL away.
LEMMA WalGrows ==
    ASSUME TypeOK, TypeOK', WalBounds, [Next]_vars, ~Crash
    PROVE  /\ insertLsn <= insertLsn'
           /\ walFlushed <= walFlushed'
           /\ wal \subseteq wal'
<1>0. insertLsn \in Nat /\ walFlushed \in Nat /\ walFlushed <= insertLsn
    BY DEF TypeOK, Lsn, WalBounds
<1>1. CASE UNCHANGED walVars
    BY <1>0, <1>1, SMT DEF walVars
<1>2. ASSUME NEW p \in Procs, XLogInsert(p) \/ HintLog(p) \/ FlushXLog(p)
                              \/ CopyFlushXLog(p)
      PROVE  /\ insertLsn <= insertLsn'
             /\ walFlushed <= walFlushed'
             /\ wal \subseteq wal'
    <2>1. walFlushed' \in Nat
        BY DEF TypeOK, Lsn
    <2>2. CASE XLogInsert(p) \/ HintLog(p)
        BY <1>0, <2>2, SMT DEF XLogInsert, HintLog, Append1
    <2>3. CASE FlushXLog(p) \/ CopyFlushXLog(p)
        <3>1. UNCHANGED <<insertLsn, wal>> /\ \E l : walFlushed' = MaxOf(walFlushed, l)
            BY <2>3 DEF FlushXLog, CopyFlushXLog
        <3> QED
            BY <1>0, <2>1, <3>1, SMT DEF MaxOf
    <2> QED
        BY <1>2, <2>2, <2>3
<1>3. CASE CkptBegin \/ CkptEnd \/ XLogFlush
    BY <1>0, <1>3, SMT DEF CkptBegin, CkptEnd, XLogFlush
<1> QED
    BY <1>1, <1>2, <1>3, WalSteps

\* Who changes the LSNs of the WAL, of XLogCtl, of checkpoints and of redo.
LEMMA LsnSteps ==
    [Next]_vars =>
        \/ UNCHANGED <<walVars, consistentLsn, ckptVars, recVars>>
        \/ \E p \in Procs : HintDirty(p) \/ XLogInsert(p) \/ HintLog(p) \/ FlushXLog(p)
                            \/ CopyFlushXLog(p) \/ SetConsistentLsn(p)
        \/ CkptBegin \/ CkptEnd \/ XLogFlush \/ Crash \/ RedoRecord \/ EndRecovery
<1>1. ASSUME NEW p \in Procs, Update(p)
      PROVE  UNCHANGED <<walVars, consistentLsn, ckptVars, recVars>>
             \/ XLogInsert(p)
    BY <1>1 DEF Update, LockForUpdate, MarkBufferDirty, PutBuffer,
       AdjustPosition, PageSetLSN
<1>2. ASSUME NEW p \in Procs, Hint(p)
      PROVE  UNCHANGED <<walVars, consistentLsn, ckptVars, recVars>>
             \/ HintLog(p) \/ HintDirty(p)
    BY <1>2 DEF Hint, HintStart, HintSave, HintList, HintPut
<1>3. ASSUME NEW p \in Procs, Flush(p)
      PROVE  UNCHANGED <<walVars, consistentLsn, ckptVars, recVars>>
             \/ FlushXLog(p)
    BY <1>3 DEF Flush, SyncOneBuffer, GetVictimBuffer, FlushRelationBuffers, SyncLocked, FlushStart,
       FlushSkip, FlushWrite, FlushFreeCopy, FlushReset, FlushEnd
<1>4. ASSUME NEW p \in Procs, Copy(p) \/ Calculate(p)
      PROVE  UNCHANGED <<walVars, consistentLsn, ckptVars, recVars>>
             \/ CopyFlushXLog(p) \/ SetConsistentLsn(p)
    BY <1>4 DEF Copy, Calculate, CopyFlushStart, CopyFlushWrite, CopyFlushEnd,
       CopyBuffer, CalFlushLists, CalCopyBuffers
<1> QED
    BY <1>1, <1>2, <1>3, <1>4 DEF Next, vars, Replicate, ReplicaReply,
       DropSlot, Recover

\* The LSNs stay in order: redo point, flushed WAL, insert position.
LEMMA WalBoundsInductive ==
    TypeOK /\ Locks /\ WalBounds /\ PageBounds /\ HeldBounds /\ Writing /\ [Next]_vars
    => WalBounds'
<1> SUFFICES ASSUME TypeOK, Locks, WalBounds, PageBounds, HeldBounds, Writing, [Next]_vars
             PROVE  WalBounds'
    OBVIOUS
<1>0. /\ insertLsn \in Nat /\ walFlushed \in Nat /\ wal \subseteq Record
      /\ consistentLsn \in Nat /\ redoRecPtr \in Nat /\ ckptRedo \in Nat
      /\ replayLsn \in Nat /\ mode \in {"run", "redo"}
    BY DEF TypeOK, Lsn
<1>1. CASE UNCHANGED <<walVars, consistentLsn, redoRecPtr, ckptRedo, recVars>>
    BY <1>1 DEF WalBounds, walVars, recVars
<1>2. ASSUME NEW p \in Procs, XLogInsert(p) \/ HintLog(p) PROVE WalBounds'
    <2>1. /\ insertLsn' = insertLsn + 1
          /\ UNCHANGED <<walFlushed, consistentLsn, redoRecPtr, ckptRedo, mode, replayLsn>>
        BY <1>2 DEF XLogInsert, HintLog, Append1, ckptVars, recVars
    <2>2. PICK n : n.start = insertLsn /\ wal' = wal \cup {n}
        BY <1>2 DEF XLogInsert, HintLog, Append1
    <2>3. \A r \in wal : r.start \in Nat
        BY <1>0 DEF Record, Lsn
    <2> QED
        BY <1>0, <2>1, <2>2, <2>3, SMT DEF WalBounds
<1>3. ASSUME NEW p \in Procs, FlushXLog(p) PROVE WalBounds'
    <2>1. plsn[p] \in Nat /\ plsn[p] <= insertLsn
        BY <1>3 DEF FlushXLog, HeldBounds, HoldingPcs, TypeOK, Lsn
    <2> QED
        BY <1>0, <1>3, <2>1, SMT DEF FlushXLog, WalBounds, MaxOf, ckptVars, recVars
<1>4. ASSUME NEW p \in Procs, CopyFlushXLog(p) PROVE WalBounds'
    <2>1. pb[p] \in Buffers
        BY <1>4, AtBuffer DEF CopyFlushXLog, CalPcs
    <2>2. HasCopy(pb[p])
        BY <1>4, <2>1 DEF CopyFlushXLog, Writing, CopyIoPcs
    <2>3. cLsn[copyOf[pb[p]]] \in Nat /\ cLsn[copyOf[pb[p]]] <= insertLsn
        BY <2>1, <2>2 DEF PageBounds, HasCopy, TypeOK, Lsn
    <2> QED
        BY <1>0, <1>4, <2>3, SMT DEF CopyFlushXLog, WalBounds, MaxOf, ckptVars, recVars
<1>5. ASSUME NEW p \in Procs, SetConsistentLsn(p) PROVE WalBounds'
    <2>1. plsn[p] \in Nat /\ plsn[p] <= insertLsn
        BY <1>5 DEF SetConsistentLsn, HeldBounds, HoldingPcs, CalPcs, TypeOK, Lsn
    <2> QED
        BY <1>0, <1>5, <2>1 DEF SetConsistentLsn, WalBounds, MaxOf, walVars, ckptVars, recVars
<1>6. CASE CkptBegin \/ CkptEnd \/ XLogFlush
    <2>1. \A r \in wal : r.start \in Nat
        BY <1>0 DEF Record, Lsn
    <2>2. CASE CkptBegin
        BY <1>0, <2>1, <2>2, SMT DEF CkptBegin, WalBounds, recVars, Invalid
    <2>3. CASE CkptEnd
        BY <1>0, <2>1, <2>3, SMT DEF CkptEnd, WalBounds, recVars
    <2>4. CASE XLogFlush
        BY <1>0, <2>1, <2>4, SMT DEF XLogFlush, WalBounds, ckptVars, recVars
    <2> QED
        BY <1>6, <2>2, <2>3, <2>4
<1>7. CASE Crash
    BY <1>0, <1>7, SMT DEF Crash, WalBounds, Invalid
<1>8. CASE RedoRecord \/ EndRecovery
    BY <1>0, <1>8, SMT DEF RedoRecord, EndRecovery, WalBounds, walVars, ckptVars
<1> QED
    BY <1>1, <1>2, <1>3, <1>4, <1>5, <1>6, <1>7, <1>8, LsnSteps DEF HintDirty, ckptVars

\* A process that goes to l with v in its local variable stays within bounds.
HeldAt(l, v) ==
    /\ l \in ListPcs => 1 <= v
    /\ l \in HoldingPcs => v <= insertLsn'
    /\ l = "hsave" => v = 0

\* When one process moves within bounds, the others are still within theirs.
LEMMA HeldMove ==
    ASSUME HeldBounds, insertLsn \in Nat, insertLsn' \in Nat, insertLsn <= insertLsn',
           plsn \in [Procs -> Nat], pscan \in [Procs -> Nat], pc \in [Procs -> Pcs],
           NEW p \in Procs, NEW l, NEW v, NEW n, HeldAt(l, v), 1 <= n,
           Goto(p, l), Hold(p, v), pscan' = [pscan EXCEPT ![p] = n]
    PROVE  HeldBounds'
<1> SUFFICES ASSUME NEW q \in Procs
             PROVE  /\ pc'[q] \in ListPcs => 1 <= plsn'[q]
                    /\ pc'[q] \in HoldingPcs => plsn'[q] <= insertLsn'
                    /\ pc'[q] = "hsave" => plsn'[q] = 0
                    /\ 1 <= pscan'[q]
    BY DEF HeldBounds
<1>1. CASE q = p
    BY <1>1 DEF Goto, Hold, HeldAt
<1>2. CASE q # p
    <2>1. pc'[q] = pc[q] /\ plsn'[q] = plsn[q] /\ pscan'[q] = pscan[q] /\ plsn[q] \in Nat
        BY <1>2 DEF Goto, Hold
    <2> QED
        BY <2>1, LeqTrans DEF HeldBounds
<1> QED
    BY <1>1, <1>2

\* The LSNs that processes hold.
LEMMA HeldBoundsInductive ==
    TypeOK /\ TypeOK' /\ Locks /\ WalBounds /\ PageBounds /\ HeldBounds /\ [Next]_vars
    => HeldBounds'
<1> SUFFICES ASSUME TypeOK, TypeOK', Locks, WalBounds, PageBounds, HeldBounds,
                    [Next]_vars
             PROVE  HeldBounds'
    OBVIOUS
<1>0. /\ insertLsn \in Nat /\ insertLsn' \in Nat
      /\ plsn \in [Procs -> Nat] /\ pscan \in [Procs -> Nat]
      /\ pc \in [Procs -> Pcs]
    BY DEF TypeOK, Lsn
<1>1. CASE Crash
    BY <1>1, SMT DEF Crash, HeldBounds, HoldingPcs, ListPcs, CalPcs
<1>2. CASE ~Crash
    <2>0. /\ insertLsn <= insertLsn' /\ insertLsn' <= insertLsn'
          /\ 1 <= insertLsn /\ insertLsn <= insertLsn
        <3>1. insertLsn <= insertLsn'
            BY <1>2, WalGrows
        <3>2. 1 <= ckptRedo /\ ckptRedo <= walFlushed /\ walFlushed <= insertLsn
            BY DEF WalBounds
        <3>3. ckptRedo \in Nat /\ walFlushed \in Nat
            BY DEF TypeOK, Lsn
        <3> QED
            BY <1>0, <3>1, <3>2, <3>3, SMT
    <2>1. CASE UNCHANGED procVars
        <3>1. \A p \in Procs : plsn[p] \in Nat
            BY <1>0
        <3> QED
            BY <1>0, <2>0, <2>1, <3>1, LeqTrans DEF HeldBounds, procVars
    <2>a. ASSUME NEW p \in Procs, NEW l, NEW v, StepHolding(p, l, v), HeldAt(l, v)
          PROVE  HeldBounds'
        <3>1. pscan' = [pscan EXCEPT ![p] = pscan[p]] /\ 1 <= pscan[p]
            BY <1>0, <2>a DEF StepHolding, HeldBounds
        <3> QED
            BY <1>0, <2>0, <2>a, <3>1, HeldMove DEF StepHolding
    <2>b. ASSUME NEW p \in Procs, NEW l, Step(p, l), HeldAt(l, plsn[p])
          PROVE  HeldBounds'
        BY <1>0, <2>a, <2>b DEF Step, StepHolding, Hold
    <2>c. ASSUME NEW p \in Procs, NEW l, NEW b, NEW v, Enter(p, l, b, v), HeldAt(l, v)
          PROVE  HeldBounds'
        <3>1. pscan' = [pscan EXCEPT ![p] = pscan[p]] /\ 1 <= pscan[p]
            BY <1>0, <2>c DEF Enter, HeldBounds
        <3> QED
            BY <1>0, <2>0, <2>c, <3>1, HeldMove DEF Enter
    <2>d. ASSUME NEW p \in Procs, Done(p) PROVE HeldBounds'
        <3>1. HeldAt("idle", 0)
            BY DEF HeldAt, HoldingPcs, ListPcs, CalPcs
        <3> QED
            BY <2>c, <2>d, <3>1 DEF Done, Enter
    <2>2. ASSUME NEW p \in Procs, Update(p) PROVE HeldBounds'
        <3> USE DEF HeldAt, HoldingPcs, ListPcs, CalPcs
        <3>1. ASSUME NEW b \in Buffers, LockForUpdate(p, b) PROVE HeldBounds'
            <4>1. HeldAt("mark", 0)
                OBVIOUS
            <4> QED
                BY <2>c, <3>1, <4>1 DEF LockForUpdate
        <3>2. CASE MarkBufferDirty(p)
            <4>1. HeldAt("put", insertLsn) /\ HeldAt("adjust", insertLsn)
                BY <2>0
            <4>2. HeldAt("log", plsn[p])
                OBVIOUS
            <4> HIDE DEF HeldAt, HoldingPcs, ListPcs, CalPcs
            <4> QED
                BY <2>a, <2>b, <3>2, <4>1, <4>2 DEF MarkBufferDirty
        <3>3. CASE PutBuffer(p) \/ AdjustPosition(p)
            <4>1. HeldAt("log", plsn[p])
                OBVIOUS
            <4> QED
                BY <2>b, <3>3, <4>1 DEF PutBuffer, AdjustPosition
        <3>4. CASE XLogInsert(p)
            <4>1. insertLsn' = insertLsn + 1 /\ StepHolding(p, "setlsn", insertLsn + 1)
                BY <3>4 DEF XLogInsert, Append1
            <4>2. HeldAt("setlsn", insertLsn + 1)
                BY <2>0, <4>1
            <4> QED
                BY <2>a, <4>1, <4>2
        <3>5. CASE PageSetLSN(p)
            BY <2>d, <3>5 DEF PageSetLSN
        <3> QED
            BY <2>2, <3>1, <3>2, <3>3, <3>4, <3>5 DEF Update
    <2>3. ASSUME NEW p \in Procs, Hint(p) PROVE HeldBounds'
        <3> USE DEF HeldAt, HoldingPcs, ListPcs, CalPcs
        <3>1. ASSUME NEW b \in Buffers, HintStart(p, b) PROVE HeldBounds'
            <4>1. HeldAt("hsave", 0)
                OBVIOUS
            <4> QED
                BY <2>c, <3>1, <4>1 DEF HintStart
        <3>2. CASE HintSave(p)
            <4>1. plsn[p] = 0 /\ 0 <= insertLsn'
                BY <1>0, <3>2, ZeroLeast DEF HintSave, HeldBounds
            <4>2. HeldAt("hdirty", plsn[p])
                BY <4>1
            <4>3. HeldAt("hlist", plsn[p]) /\ HeldAt("hlog", plsn[p])
                OBVIOUS
            <4> HIDE DEF HeldAt, HoldingPcs, ListPcs, CalPcs
            <4> QED
                BY <2>b, <3>2, <4>2, <4>3 DEF HintSave
        <3>3. CASE HintList(p)
            <4>1. HeldAt("hput", insertLsn)
                BY <2>0
            <4>2. HeldAt("hlog", plsn[p])
                OBVIOUS
            <4> HIDE DEF HeldAt, HoldingPcs, ListPcs, CalPcs
            <4> QED
                BY <2>a, <2>b, <3>3, <4>1, <4>2 DEF HintList
        <3>4. CASE HintPut(p)
            <4>1. HeldAt("hlog", 0)
                OBVIOUS
            <4> QED
                BY <2>a, <3>4, <4>1 DEF HintPut
        <3>5. CASE HintLog(p)
            <4>1. insertLsn' = insertLsn + 1 /\ StepHolding(p, "hdirty", insertLsn + 1)
                BY <3>5 DEF HintLog, Append1
            <4>2. HeldAt("hdirty", insertLsn + 1)
                BY <2>0, <4>1
            <4> QED
                BY <2>a, <4>1, <4>2
        <3>6. CASE HintDirty(p)
            BY <2>d, <3>6 DEF HintDirty
        <3> QED
            BY <2>3, <3>1, <3>2, <3>3, <3>4, <3>5, <3>6 DEF Hint
    <2>4. ASSUME NEW p \in Procs, Flush(p) PROVE HeldBounds'
        <3>1. CASE FlushStart(p)
            <4>1. pb[p] \in Buffers
                BY <3>1, AtBuffer DEF FlushStart, CalPcs
            <4>2. pageLsn[pb[p]] \in Nat /\ pageLsn[pb[p]] <= insertLsn
                BY <4>1 DEF PageBounds, TypeOK, Lsn
            <4>3. pageLsn[pb[p]] <= insertLsn'
                BY <1>0, <2>0, <4>2, LeqTrans
            <4>4. HeldAt("fwal", pageLsn[pb[p]])
                BY <4>3 DEF HeldAt, ListPcs
            <4> QED
                BY <2>a, <2>d, <3>1, <4>4 DEF FlushStart
        <3>2. ASSUME NEW l \in Pcs \ (HoldingPcs \cup {"hsave"}), NEW v PROVE HeldAt(l, v)
            BY <3>2 DEF HeldAt, HoldingPcs
        <3>3. ASSUME NEW l \in Pcs \ (HoldingPcs \cup {"hsave"}), NEW b, NEW v,
                     Step(p, l) \/ Done(p) \/ Enter(p, l, b, v)
              PROVE  HeldBounds'
            BY <2>b, <2>c, <2>d, <3>2, <3>3
        <3> QED
            BY <2>4, <3>1, <3>3 DEF Flush, SyncOneBuffer, GetVictimBuffer, FlushRelationBuffers, SyncLocked,
               FlushSkip, FlushXLog, FlushWrite, FlushFreeCopy, FlushReset, FlushEnd,
               HoldingPcs, ListPcs, CalPcs, Pcs, SharePcs, IoPcs, FlushIoPcs
    <2>5. ASSUME NEW p \in Procs, Copy(p) PROVE HeldBounds'
        <3>1. ASSUME NEW l \in Pcs \ (HoldingPcs \cup {"hsave"}), Step(p, l) \/ Done(p)
              PROVE  HeldBounds'
            <4>1. HeldAt(l, plsn[p])
                BY DEF HeldAt, HoldingPcs
            <4> QED
                BY <2>b, <2>d, <3>1, <4>1
        <3> QED
            BY <2>5, <3>1 DEF Copy, CopyFlushStart, CopyFlushXLog, CopyFlushWrite,
               CopyFlushEnd, CopyBuffer, HoldingPcs, ListPcs, CalPcs, Pcs, SharePcs,
               IoPcs, CopyIoPcs
    <2>e. ASSUME NEW l \in CalPcs, NEW v \in Nat, v <= insertLsn PROVE HeldAt(l, v)
        <3>1. v <= insertLsn'
            BY <1>0, <2>0, <2>e, LeqTrans
        <3> QED
            BY <2>e, <3>1 DEF HeldAt, ListPcs, CalPcs
    <2>6. ASSUME NEW p \in Procs, CalFlushLists(p) PROVE HeldBounds'
        <3>1. \A v \in MaxValidLsns : v \in Nat /\ v <= insertLsn
            BY SMT DEF MaxValidLsns, MaxOf, WalBounds, TypeOK, Lsn
        <3>2. \A b \in InFlushList : oldestLsn[b] \in Nat /\ oldestLsn[b] <= insertLsn
            BY DEF InFlushList, PageBounds, TypeOK, Lsn
        <3>3. PICK l \in CalPcs, v \in Nat :
                  /\ v <= insertLsn /\ Goto(p, l) /\ Hold(p, v)
                  /\ pscan' = [pscan EXCEPT ![p] = 1]
            BY <2>6, <3>1, <3>2 DEF CalFlushLists, CalPcs
        <3>4. 1 <= 1
            BY SMT
        <3> QED
            BY <1>0, <2>0, <2>e, <3>3, <3>4, HeldMove
    <2>7. ASSUME NEW p \in Procs, CalCopyBuffers(p) PROVE HeldBounds'
        <3>1. /\ pc[p] = "calcopy" /\ plsn[p] \in Nat /\ plsn[p] <= insertLsn
              /\ pscan[p] \in Nat /\ 1 <= pscan[p]
            BY <1>0, <2>7 DEF CalCopyBuffers, HeldBounds, HoldingPcs, CalPcs
        <3>2. CASE pscan[p] \in CopyBuffers
            <4> DEFINE c == cOldest[pscan[p]]
                       v == IF c # Invalid /\ c < plsn[p] THEN c ELSE plsn[p]
            <4>1. c \in Nat
                BY <3>2 DEF TypeOK, Lsn
            <4>2. /\ pc' = [pc EXCEPT ![p] = "calcopy"]
                  /\ plsn' = [plsn EXCEPT ![p] = v]
                  /\ pscan' = [pscan EXCEPT ![p] = pscan[p] + 1]
                BY <1>0, <2>7, <3>1, <3>2 DEF CalCopyBuffers, Hold
            <4> HIDE DEF c
            <4>3. v \in Nat /\ v <= insertLsn /\ 1 <= pscan[p] + 1
                BY <1>0, <3>1, <4>1, SMT
            <4> HIDE DEF v
            <4>4. HeldAt("calcopy", v)
                BY <2>e, <4>3 DEF CalPcs
            <4> QED
                BY <1>0, <2>0, <4>2, <4>3, <4>4, HeldMove DEF Goto, Hold
        <3>3. CASE pscan[p] \notin CopyBuffers
            <4>1. Step(p, "calset")
                BY <2>7, <3>3 DEF CalCopyBuffers, Step
            <4>2. HeldAt("calset", plsn[p])
                BY <2>e, <3>1 DEF CalPcs
            <4> QED
                BY <2>b, <4>1, <4>2
        <3> QED
            BY <3>2, <3>3
    <2>8. ASSUME NEW p \in Procs, SetConsistentLsn(p) PROVE HeldBounds'
        <3>1. HeldAt("idle", 0)
            BY DEF HeldAt, HoldingPcs, ListPcs, CalPcs
        <3>2. Goto(p, "idle") /\ Hold(p, 0) /\ pscan' = [pscan EXCEPT ![p] = 1]
            BY <2>8 DEF SetConsistentLsn
        <3>3. 1 <= 1
            BY SMT
        <3> QED
            BY <1>0, <2>0, <3>1, <3>2, <3>3, HeldMove
    <2> QED
        BY <1>2, <2>1, <2>2, <2>3, <2>4, <2>5, <2>6, <2>7, <2>8, ProcSteps DEF Calculate
<1> QED
    BY <1>1, <1>2

-----------------------------------------------------------------------------
(* Pages and their copies. *)

\* What is known of the page of b, in memory, in its copy and on disk, stays.
Same(b) ==
    /\ dirty'[b] = dirty[b] /\ justDirtied'[b] = justDirtied[b]
    /\ pageLsn'[b] = pageLsn[b] /\ oldestLsn'[b] = oldestLsn[b]
    /\ touched'[b] = touched[b] /\ copyOf'[b] = copyOf[b]
    /\ diskLsn'[b] = diskLsn[b]
    /\ HasCopy(b) => /\ cOldest'[copyOf[b]] = cOldest[copyOf[b]]
                     /\ cLsn'[copyOf[b]] = cLsn[copyOf[b]]

\* The steps of a process that change a page, its copy or its descriptor.
PageStep(p) ==
    \/ MarkBufferDirty(p) \/ PutBuffer(p) \/ AdjustPosition(p) \/ PageSetLSN(p)
    \/ HintPut(p) \/ HintDirty(p)
    \/ FlushStart(p) \/ FlushWrite(p) \/ FlushFreeCopy(p) \/ FlushReset(p)
    \/ FlushEnd(p) \/ CopyFlushWrite(p) \/ CopyFlushEnd(p) \/ CopyBuffer(p)

\* Only these steps, redo and a crash touch pages, copies or the storage.
LEMMA PageSteps ==
    [Next]_vars =>
        \/ UNCHANGED <<bufVars, copyVars, diskLsn>>
        \/ \E p \in Procs : PageStep(p)
        \/ Crash \/ RedoRecord
<1>1. ASSUME NEW p \in Procs, Update(p)
      PROVE  UNCHANGED <<bufVars, copyVars, diskLsn>> \/ MarkBufferDirty(p)
             \/ PutBuffer(p) \/ AdjustPosition(p) \/ PageSetLSN(p)
    BY <1>1 DEF Update, LockForUpdate, XLogInsert
<1>2. ASSUME NEW p \in Procs, Hint(p)
      PROVE  UNCHANGED <<bufVars, copyVars, diskLsn>> \/ HintPut(p)
             \/ HintDirty(p)
    BY <1>2 DEF Hint, HintStart, HintSave, HintList, HintLog
<1>3. ASSUME NEW p \in Procs, Flush(p)
      PROVE  UNCHANGED <<bufVars, copyVars, diskLsn>> \/ FlushStart(p)
             \/ FlushWrite(p) \/ FlushFreeCopy(p) \/ FlushReset(p)
             \/ FlushEnd(p)
    BY <1>3 DEF Flush, SyncOneBuffer, GetVictimBuffer, FlushRelationBuffers, SyncLocked, FlushSkip,
       FlushXLog
<1>4. ASSUME NEW p \in Procs, Copy(p) \/ Calculate(p)
      PROVE  UNCHANGED <<bufVars, copyVars, diskLsn>> \/ CopyFlushWrite(p)
             \/ CopyFlushEnd(p) \/ CopyBuffer(p)
    BY <1>4 DEF Copy, Calculate, CopyFlushStart, CopyFlushXLog, CalFlushLists,
       CalCopyBuffers, SetConsistentLsn
<1> QED
    BY <1>1, <1>2, <1>3, <1>4 DEF PageStep, Next, vars, CkptBegin, CkptEnd, XLogFlush,
       Replicate, ReplicaReply, DropSlot, Recover, EndRecovery

\* Whoever takes such a step holds a buffer and moves on.
LEMMA PageStepPc ==
    ASSUME ProcType, Locks, NEW p \in Procs, PageStep(p)
    PROVE  /\ pb[p] \in Buffers
           /\ pc'[p] # pc[p]
           /\ pc[p] \in ExclPcs \cup {"hput", "hdirty", "fstart", "fwrite", "ffree",
                                      "freset", "fend", "cwrite", "cfree", "copy"}
<1>1. pc[p] \in {"mark", "put", "adjust", "setlsn", "hput", "hdirty", "fstart",
                 "fwrite", "ffree", "freset", "fend", "cwrite", "cfree", "copy"}
    BY DEF PageStep, MarkBufferDirty, PutBuffer, AdjustPosition, PageSetLSN, HintPut,
       HintDirty, FlushStart, FlushWrite, FlushFreeCopy, FlushReset, FlushEnd,
       CopyFlushWrite, CopyFlushEnd, CopyBuffer
<1>2. pb[p] \in Buffers
    BY <1>1, AtBuffer DEF CalPcs
<1>3. pc'[p] # pc[p]
    BY DEF PageStep, MarkBufferDirty, PutBuffer, AdjustPosition, PageSetLSN, HintPut,
       HintDirty, FlushStart, FlushWrite, FlushFreeCopy, FlushReset, FlushEnd,
       CopyFlushWrite, CopyFlushEnd, CopyBuffer, Step, StepHolding, Done, Goto, ProcType
<1> QED
    BY <1>1, <1>2, <1>3 DEF ExclPcs

\* A process touches the page of its own buffer only: copies are not shared.
LEMMA OtherBuffer ==
    ASSUME TypeOK, Locks, Copies, NEW p \in Procs, PageStep(p),
           NEW b \in Buffers, b # pb[p]
    PROVE  Same(b)
<1>0. BufType /\ CopyType /\ ProcType /\ diskLsn \in [Buffers -> Lsn]
    BY TypeParts DEF SharedType
<1>1. pb[p] \in Buffers
    BY <1>0, PageStepPc
<1>2. CASE MarkBufferDirty(p) \/ PutBuffer(p) \/ AdjustPosition(p) \/ PageSetLSN(p)
    BY <1>0, <1>1, <1>2 DEF Same, BufType, MarkBufferDirty, PutBuffer, AdjustPosition,
       PageSetLSN, copyVars
<1>3. CASE HintPut(p) \/ HintDirty(p)
    BY <1>0, <1>1, <1>3 DEF Same, BufType, HintPut, HintDirty, copyVars
<1>4. CASE FlushStart(p) \/ FlushReset(p) \/ FlushEnd(p)
    BY <1>0, <1>1, <1>4 DEF Same, BufType, FlushStart, FlushReset, FlushEnd, copyVars
<1>5. CASE FlushWrite(p) \/ CopyFlushWrite(p)
    BY <1>0, <1>1, <1>5 DEF Same, FlushWrite, CopyFlushWrite, bufVars, copyVars
<1>6. CASE FlushFreeCopy(p) \/ CopyFlushEnd(p)
    <2>1. HasCopy(b) => copyOf[b] \in CopyBuffers /\ copyOf[b] # copyOf[pb[p]]
        BY <1>0, <1>1 DEF Copies, HasCopy, BufType
    <2>2. CASE copyOf[pb[p]] = NoCopy
        BY <1>6, <2>2 DEF Same, FlushFreeCopy, CopyFlushEnd, FreeCopyBuffer
    <2>3. CASE copyOf[pb[p]] # NoCopy
        <3>1. UNCHANGED <<dirty, justDirtied, pageLsn, oldestLsn, diskLsn>>
            BY <1>6 DEF FlushFreeCopy, CopyFlushEnd
        <3>2. /\ copyOf' = [copyOf EXCEPT ![pb[p]] = NoCopy]
              /\ touched' = [touched EXCEPT ![pb[p]] = FALSE]
              /\ cOldest' = [cOldest EXCEPT ![copyOf[pb[p]]] = Invalid]
              /\ cLsn' = [cLsn EXCEPT ![copyOf[pb[p]]] = Invalid]
            BY <1>6, <2>3 DEF FlushFreeCopy, CopyFlushEnd, FreeCopyBuffer
        <3>3. copyOf'[b] = copyOf[b] /\ touched'[b] = touched[b]
            BY <1>0, <3>2 DEF BufType
        <3>4. HasCopy(b) => /\ cOldest'[copyOf[b]] = cOldest[copyOf[b]]
                            /\ cLsn'[copyOf[b]] = cLsn[copyOf[b]]
            BY <1>0, <2>1, <3>2 DEF CopyType
        <3> QED
            BY <3>1, <3>3, <3>4 DEF Same
    <2> QED
        BY <2>2, <2>3
<1>7. CASE CopyBuffer(p)
    <2>1. HasCopy(b) => copyOf[b] \in CopyBuffers /\ cOldest[copyOf[b]] # Invalid
        BY <1>0 DEF Copies, HasCopy, BufType
    <2>2. UNCHANGED <<dirty, justDirtied, pageLsn, oldestLsn, touched, diskLsn>>
        BY <1>7 DEF CopyBuffer
    <2>3. CASE UNCHANGED <<cOldest, cLsn, copyOf>>
        BY <2>2, <2>3 DEF Same
    <2>4. ASSUME NEW c \in CopyBuffers, cOldest[c] = Invalid,
                 cOldest' = [cOldest EXCEPT ![c] = oldestLsn[pb[p]]],
                 cLsn' = [cLsn EXCEPT ![c] = pageLsn[pb[p]]],
                 copyOf' = [copyOf EXCEPT ![pb[p]] = c]
          PROVE  Same(b)
        BY <1>0, <1>1, <2>1, <2>2, <2>4 DEF Same, BufType, CopyType
    <2> QED
        BY <1>7, <2>3, <2>4 DEF CopyBuffer
<1> QED
    BY <1>2, <1>3, <1>4, <1>5, <1>6, <1>7 DEF PageStep

\* The same, but for the hint of a page that is dirty.
IoSame(b) ==
    /\ touched'[b] = touched[b] /\ copyOf'[b] = copyOf[b]
    /\ diskLsn'[b] = diskLsn[b]
    /\ dirty[b] => dirty'[b] /\ pageLsn'[b] = pageLsn[b]
    /\ HasCopy(b) => /\ cOldest'[copyOf[b]] = cOldest[copyOf[b]]
                     /\ cLsn'[copyOf[b]] = cLsn[copyOf[b]]

\* While a process does I/O on a page, only hints touch it.
LEMMA IoStable ==
    ASSUME TypeOK, Locks, Copies, [Next]_vars, ~Crash,
           NEW q \in Procs, pc[q] \in IoPcs, pc'[q] = pc[q]
    PROVE  IoSame(pb[q])
<1>0. BufType /\ ProcType
    BY TypeParts
<1>1. pb[q] \in Buffers
    BY AtBuffer DEF IoPcs, FlushIoPcs, CopyIoPcs, CalPcs
<1>2. CASE UNCHANGED <<bufVars, copyVars, diskLsn>>
    BY <1>2 DEF IoSame, bufVars, copyVars
<1>3. ASSUME NEW p \in Procs, PageStep(p) PROVE IoSame(pb[q])
    <2>1. p # q
        BY <1>0, <1>3, PageStepPc
    <2>2. CASE pb[p] # pb[q]
        BY <1>1, <1>3, <2>2, OtherBuffer DEF Same, IoSame
    <2>3. CASE pb[p] = pb[q]
        <3>1. pc[p] \notin ExclPcs \cup IoPcs
            <4>1. pc[q] \in SharePcs
                BY DEF SharePcs
            <4> QED
                BY <2>1, <2>3, <4>1 DEF Locks
        <3>2. IoInProgress(pb[p])
            BY <2>3 DEF IoInProgress, AtBuf
        <3>3. HintPut(p) \/ HintDirty(p)
            BY <1>3, <3>1, <3>2 DEF PageStep, MarkBufferDirty, PutBuffer, AdjustPosition,
               PageSetLSN, FlushStart, FlushWrite, FlushFreeCopy, FlushReset, FlushEnd,
               CopyFlushWrite, CopyFlushEnd, CopyBuffer, ExclPcs, IoPcs, FlushIoPcs,
               CopyIoPcs
        <3>4. CASE HintPut(p)
            BY <3>4 DEF HintPut, IoSame, copyVars
        <3>5. CASE HintDirty(p)
            BY <1>0, <1>1, <2>3, <3>5 DEF HintDirty, IoSame, BufType, copyVars
        <3> QED
            BY <3>3, <3>4, <3>5
    <2> QED
        BY <2>2, <2>3
<1>4. CASE RedoRecord
    <2>1. \A r \in wal : r.buf = pb[q] => ShareLocked(r.buf)
        BY DEF ShareLocked, AtBuf, SharePcs
    <2>2. UNCHANGED <<touched, copyOf, copyVars, diskLsn>>
        BY <1>4 DEF RedoRecord
    <2>3. \/ UNCHANGED <<dirty, pageLsn>>
          \/ \E r \in wal : /\ ~ShareLocked(r.buf)
                            /\ pageLsn' = [pageLsn EXCEPT ![r.buf] = r.start + 1]
                            /\ dirty' = [dirty EXCEPT ![r.buf] = TRUE]
        BY <1>4 DEF RedoRecord
    <2> QED
        BY <1>0, <1>1, <2>1, <2>2, <2>3 DEF IoSame, BufType, copyVars
<1> QED
    BY <1>2, <1>3, <1>4, PageSteps

\* No page is ahead of the WAL, and no page on disk is ahead of the flushed WAL.
LEMMA PageBoundsInductive ==
    TypeOK /\ TypeOK' /\ Locks /\ WalBounds /\ PageBounds /\ HeldBounds /\ Writing
    /\ Copies /\ [Next]_vars => PageBounds'
<1> SUFFICES ASSUME TypeOK, TypeOK', Locks, WalBounds, PageBounds, HeldBounds,
                    Writing, Copies, [Next]_vars
             PROVE  PageBounds'
    OBVIOUS
<1>0. BufType /\ BufType' /\ CopyType /\ CopyType' /\ ProcType
    BY TypeParts
<1>a. /\ insertLsn \in Nat /\ insertLsn' \in Nat
      /\ walFlushed \in Nat /\ walFlushed' \in Nat
      /\ diskLsn \in [Buffers -> Nat] /\ diskLsn' \in [Buffers -> Nat]
    BY DEF TypeOK, Lsn
<1>1. CASE Crash
    BY <1>a, <1>1, SMT DEF Crash, PageBounds, HasCopy, Invalid
<1>2. CASE ~Crash
    <2>0. insertLsn <= insertLsn' /\ walFlushed <= walFlushed'
        BY <1>2, WalGrows
    <2>1. ASSUME NEW b \in Buffers, Same(b)
          PROVE  /\ pageLsn'[b] <= insertLsn'
                 /\ oldestLsn'[b] <= insertLsn'
                 /\ diskLsn'[b] <= walFlushed'
                 /\ HasCopy(b)' => cLsn'[copyOf'[b]] <= insertLsn'
        BY <1>0, <1>a, <2>0, <2>1, SMT DEF Same, PageBounds, HasCopy, BufType, CopyType, Lsn
    <2>2. CASE UNCHANGED <<bufVars, copyVars, diskLsn>>
        BY <2>1, <2>2 DEF PageBounds, Same, bufVars, copyVars
    <2>3. ASSUME NEW p \in Procs, PageStep(p) PROVE PageBounds'
        <3>1. PICK b \in Buffers : b = pb[p]
            BY <1>0, <2>3, PageStepPc
        <3>2. SUFFICES /\ pageLsn'[b] <= insertLsn'
                       /\ oldestLsn'[b] <= insertLsn'
                       /\ diskLsn'[b] <= walFlushed'
                       /\ HasCopy(b)' => cLsn'[copyOf'[b]] <= insertLsn'
            BY <2>1, <2>3, <3>1, OtherBuffer DEF PageBounds
        <3>3. /\ pageLsn[b] \in Nat /\ pageLsn[b] <= insertLsn
              /\ oldestLsn[b] \in Nat /\ oldestLsn[b] <= insertLsn
              /\ diskLsn[b] \in Nat /\ diskLsn[b] <= walFlushed
              /\ HasCopy(b) => /\ cLsn[copyOf[b]] \in Nat
                               /\ cLsn[copyOf[b]] <= insertLsn
            BY <1>0, <1>a, <3>1 DEF PageBounds, BufType, CopyType, HasCopy, Lsn
        <3>4. /\ plsn[p] \in Nat
              /\ pc[p] \in HoldingPcs => plsn[p] <= insertLsn
            BY <1>0 DEF HeldBounds, ProcType, Lsn
        <3>5. CASE MarkBufferDirty(p) \/ FlushStart(p) \/ FlushEnd(p)
            <4>1. UNCHANGED <<pageLsn, oldestLsn, diskLsn, copyOf, cLsn>>
                BY <3>5 DEF MarkBufferDirty, FlushStart, FlushEnd, copyVars
            <4> QED
                BY <1>a, <2>0, <3>3, <4>1, LeqTrans DEF HasCopy
        <3>6. CASE PutBuffer(p) \/ AdjustPosition(p) \/ HintPut(p)
            <4>1. UNCHANGED <<pageLsn, diskLsn, copyOf, cLsn>>
                BY <3>6 DEF PutBuffer, AdjustPosition, HintPut, copyVars
            <4>2. oldestLsn'[b] = oldestLsn[b] \/ oldestLsn'[b] = plsn[p]
                BY <1>0, <3>1, <3>6 DEF PutBuffer, AdjustPosition, HintPut, BufType
            <4>3. pc[p] \in HoldingPcs
                BY <3>6 DEF PutBuffer, AdjustPosition, HintPut, HoldingPcs, ListPcs
            <4> QED
                BY <1>a, <2>0, <3>3, <3>4, <4>1, <4>2, <4>3, LeqTrans DEF HasCopy
        <3>7. CASE PageSetLSN(p) \/ HintDirty(p)
            <4>1. UNCHANGED <<oldestLsn, diskLsn, copyOf, cLsn>>
                BY <3>7 DEF PageSetLSN, HintDirty, copyVars
            <4>2. pageLsn'[b] = pageLsn[b] \/ pageLsn'[b] = plsn[p]
                BY <1>0, <3>1, <3>7 DEF PageSetLSN, HintDirty, BufType
            <4>3. pc[p] \in HoldingPcs
                BY <3>7 DEF PageSetLSN, HintDirty, HoldingPcs
            <4> QED
                BY <1>a, <2>0, <3>3, <3>4, <4>1, <4>2, <4>3, LeqTrans DEF HasCopy
        <3>8. CASE FlushReset(p)
            <4>1. UNCHANGED <<pageLsn, diskLsn, copyOf, cLsn>>
                BY <3>8 DEF FlushReset, copyVars
            <4>2. oldestLsn'[b] = oldestLsn[b] \/ oldestLsn'[b] = 0
                BY <1>0, <3>1, <3>8 DEF FlushReset, BufType, Invalid
            <4> QED
                BY <1>a, <2>0, <3>3, <4>1, <4>2, LeqTrans, ZeroLeast DEF HasCopy
        <3>9. CASE FlushWrite(p)
            <4>1. pageLsn[b] <= walFlushed
                BY <3>1, <3>9 DEF FlushWrite, Writing
            <4> QED
                BY <1>a, <2>0, <3>1, <3>3, <3>9, <4>1, SMT DEF FlushWrite, bufVars,
                   copyVars, HasCopy
        <3>10. CASE CopyFlushWrite(p)
            <4>1. HasCopy(b) /\ cLsn[copyOf[b]] <= walFlushed
                BY <3>1, <3>10 DEF CopyFlushWrite, Writing, CopyIoPcs
            <4> QED
                BY <1>a, <2>0, <3>1, <3>3, <3>10, <4>1, SMT DEF CopyFlushWrite, bufVars,
                   copyVars, HasCopy
        <3>11. CASE FlushFreeCopy(p) \/ CopyFlushEnd(p)
            <4>1. UNCHANGED <<pageLsn, oldestLsn, diskLsn>>
                BY <3>11 DEF FlushFreeCopy, CopyFlushEnd, FreeCopyBuffer
            <4>2. copyOf'[b] = NoCopy
                BY <1>0, <3>1, <3>11 DEF FlushFreeCopy, CopyFlushEnd, FreeCopyBuffer,
                   BufType
            <4> QED
                BY <1>a, <2>0, <3>3, <4>1, <4>2, LeqTrans, ZeroLeast DEF HasCopy
        <3>12. CASE CopyBuffer(p)
            <4>1. UNCHANGED <<pageLsn, oldestLsn, diskLsn>>
                BY <3>12 DEF CopyBuffer
            <4>2. \/ UNCHANGED <<copyOf, cLsn>>
                  \/ \E c \in CopyBuffers : /\ cLsn' = [cLsn EXCEPT ![c] = pageLsn[b]]
                                            /\ copyOf' = [copyOf EXCEPT ![b] = c]
                BY <3>1, <3>12 DEF CopyBuffer
            <4>3. \/ cLsn'[copyOf'[b]] = cLsn[copyOf[b]] /\ copyOf'[b] = copyOf[b]
                  \/ cLsn'[copyOf'[b]] = pageLsn[b]
                <5>1. CASE UNCHANGED <<copyOf, cLsn>>
                    BY <5>1
                <5>2. ASSUME NEW c \in CopyBuffers,
                             cLsn' = [cLsn EXCEPT ![c] = pageLsn[b]],
                             copyOf' = [copyOf EXCEPT ![b] = c]
                      PROVE  cLsn'[copyOf'[b]] = pageLsn[b]
                    BY <1>0, <5>2 DEF BufType, CopyType
                <5> QED
                    BY <4>2, <5>1, <5>2
            <4> QED
                BY <1>a, <2>0, <3>3, <4>1, <4>3, LeqTrans DEF HasCopy
        <3> QED
            BY <2>3, <3>5, <3>6, <3>7, <3>8, <3>9, <3>10, <3>11, <3>12 DEF PageStep
    <2>4. CASE RedoRecord
        <3>1. ASSUME NEW b \in Buffers
              PROVE  pageLsn'[b] <= insertLsn' /\ oldestLsn'[b] <= insertLsn'
            <4>1. \A r \in wal : r.start \in Nat /\ r.start + 1 <= insertLsn
                BY <1>a, SMT DEF WalBounds, TypeOK, Record, Lsn
            <4>2. /\ pageLsn[b] \in Nat /\ pageLsn[b] <= insertLsn
                  /\ oldestLsn[b] \in Nat /\ oldestLsn[b] <= insertLsn
                BY <1>0 DEF PageBounds, BufType, Lsn
            <4>3. \/ UNCHANGED <<pageLsn, oldestLsn>>
                  \/ \E r \in wal :
                       /\ pageLsn' = [pageLsn EXCEPT ![r.buf] = r.start + 1]
                       /\ oldestLsn' = [oldestLsn EXCEPT ![r.buf] =
                                          IF @ = Invalid THEN r.start ELSE @]
                BY <2>4 DEF RedoRecord
            <4> QED
                BY <1>0, <1>a, <2>0, <4>1, <4>2, <4>3, SMT DEF BufType
        <3>2. UNCHANGED <<copyOf, copyVars, diskLsn>>
            BY <2>4 DEF RedoRecord
        <3> QED
            BY <1>0, <1>a, <2>0, <3>1, <3>2, SMT DEF PageBounds, HasCopy, copyVars, BufType,
               CopyType, Lsn
    <2> QED
        BY <1>2, <2>2, <2>3, <2>4, PageSteps
<1> QED
    BY <1>1, <1>2

\* A buffer with a copy is in the flush list, and has the copy for itself.
LEMMA CopiesInductive ==
    TypeOK /\ Locks /\ HeldBounds /\ Writing /\ Copies /\ [Next]_vars => Copies'
<1> SUFFICES ASSUME TypeOK, Locks, HeldBounds, Writing, Copies, [Next]_vars
             PROVE  Copies'
    OBVIOUS
<1>0. BufType /\ CopyType /\ ProcType
    BY TypeParts
<1>1. CASE Crash
    BY <1>1 DEF Crash, Copies, HasCopy
<1>2. CASE UNCHANGED <<bufVars, copyVars, diskLsn>>
    BY <1>2 DEF Copies, HasCopy, bufVars, copyVars
<1>3. ASSUME NEW p \in Procs, PageStep(p) PROVE Copies'
    <2>1. PICK b \in Buffers : b = pb[p]
        BY <1>0, <1>3, PageStepPc
    <2>2. \A a \in Buffers : a # b => Same(a)
        BY <1>3, <2>1, OtherBuffer
    <2>3. SUFFICES ASSUME copyOf'[b] # NoCopy
                   PROVE  /\ oldestLsn'[b] # Invalid /\ cOldest'[copyOf'[b]] # Invalid
                          /\ \A a \in Buffers : a # b => copyOf'[b] # copyOf[a]
        <3>1. \A a \in Buffers : a # b => copyOf'[a] = copyOf[a]
            BY <2>2 DEF Same
        <3> QED
            BY <2>2, <2>3, <3>1, SMT DEF Copies, Same, HasCopy
    <2>4. CASE \/ MarkBufferDirty(p) \/ PageSetLSN(p) \/ HintDirty(p) \/ FlushStart(p)
               \/ FlushWrite(p) \/ FlushEnd(p) \/ CopyFlushWrite(p)
        <3>1. UNCHANGED <<oldestLsn, copyOf, cOldest>>
            BY <2>4 DEF MarkBufferDirty, PageSetLSN, HintDirty, FlushStart, FlushWrite,
               FlushEnd, CopyFlushWrite, bufVars, copyVars
        <3> QED
            BY <2>3, <3>1 DEF Copies, HasCopy
    <2>5. CASE PutBuffer(p) \/ AdjustPosition(p) \/ HintPut(p)
        <3>1. /\ UNCHANGED <<copyOf, cOldest>>
              /\ oldestLsn' = [oldestLsn EXCEPT ![b] = plsn[p]]
            BY <2>1, <2>5 DEF PutBuffer, AdjustPosition, HintPut, copyVars
        <3>2. plsn[p] # Invalid
            BY <1>0, <2>5, SMT DEF PutBuffer, AdjustPosition, HintPut, HeldBounds, ListPcs,
               ProcType, Lsn, Invalid
        <3> QED
            BY <1>0, <2>3, <3>1, <3>2 DEF Copies, HasCopy, BufType
    <2>6. CASE FlushReset(p)
        BY <2>1, <2>3, <2>6 DEF FlushReset, Writing, HasCopy
    <2>7. CASE FlushFreeCopy(p) \/ CopyFlushEnd(p)
        BY <1>0, <2>1, <2>3, <2>7 DEF FlushFreeCopy, CopyFlushEnd, FreeCopyBuffer, BufType
    <2>8. CASE CopyBuffer(p)
        <3>1. oldestLsn' = oldestLsn
            BY <2>8 DEF CopyBuffer
        <3>2. CASE UNCHANGED <<cOldest, cLsn, copyOf>>
            BY <2>3, <3>1, <3>2 DEF Copies, HasCopy
        <3>3. ASSUME NEW c \in CopyBuffers, cOldest[c] = Invalid,
                     oldestLsn[b] # Invalid,
                     cOldest' = [cOldest EXCEPT ![c] = oldestLsn[b]],
                     copyOf' = [copyOf EXCEPT ![b] = c]
              PROVE  /\ oldestLsn'[b] # Invalid /\ cOldest'[copyOf'[b]] # Invalid
                     /\ \A a \in Buffers : a # b => copyOf'[b] # copyOf[a]
            <4>1. copyOf'[b] = c /\ c # NoCopy
                BY <1>0, <3>3, SMT DEF BufType, CopyBuffers, NoCopy
            <4>2. cOldest'[c] = oldestLsn[b]
                BY <1>0, <3>3 DEF CopyType
            <4> QED
                BY <3>1, <3>3, <4>1, <4>2 DEF Copies, HasCopy
        <3> QED
            BY <2>1, <2>8, <3>2, <3>3 DEF CopyBuffer, CopyIsSatisfied
    <2> QED
        BY <1>3, <2>4, <2>5, <2>6, <2>7, <2>8 DEF PageStep
<1>4. CASE RedoRecord
    <2>1. UNCHANGED <<copyOf, copyVars>>
        BY <1>4 DEF RedoRecord
    <2>2. \A b \in Buffers : oldestLsn[b] # Invalid => oldestLsn'[b] # Invalid
        BY <1>0, <1>4 DEF RedoRecord, BufType
    <2> QED
        BY <2>1, <2>2 DEF Copies, HasCopy, copyVars
<1> QED
    BY <1>1, <1>2, <1>3, <1>4, PageSteps

\* A process that does I/O stays where it is, or takes the next step of its I/O.
LEMMA Stay ==
    ASSUME ProcType, [Next]_vars, ~Crash,
           NEW q \in Procs, pc'[q] = pc[q], pc[q] \notin {"idle"} \cup CalPcs
    PROVE  pb'[q] = pb[q] /\ plsn'[q] = plsn[q]
<1>1. ~UpdateMove(q) /\ ~HintMove(q)
    BY DEF Edge, UpdateMove, HintMove
<1>2. ~FlushMove(q)
    BY DEF Edge, FlushMove
<1>3. ~CopyIoMove(q) /\ ~CalMove(q)
    BY DEF Edge, CopyIoMove, CalMove, CalPcs
<1> QED
    BY <1>1, <1>2, <1>3, Moves DEF Unmoved

\* The steps of q to a place where it does I/O.
IoMove(q) ==
    /\ pb'[q] = pb[q]
    /\ \/ /\ FlushStart(q) /\ dirty[pb[q]]
          /\ pc'[q] = "fwal" /\ plsn'[q] = pageLsn[pb[q]]
       \/ FlushXLog(q) /\ pc'[q] = "fwrite"
       \/ FlushWrite(q) /\ pc'[q] = "ffree"
       \/ FlushFreeCopy(q) /\ pc'[q] = "freset"
       \/ FlushReset(q) /\ pc'[q] = "fend"
       \/ CopyFlushStart(q) /\ HasCopy(pb[q]) /\ pc'[q] = "cwal"
       \/ CopyFlushXLog(q) /\ pc'[q] = "cwrite"
       \/ CopyFlushWrite(q) /\ pc'[q] = "cfree"

\* There is no other way into the I/O of a buffer.
LEMMA IoMoves ==
    ASSUME ProcType, [Next]_vars, ~Crash,
           NEW q \in Procs, pc'[q] \in IoPcs, pc'[q] # pc[q]
    PROVE  IoMove(q)
<1> USE DEF IoPcs, FlushIoPcs, CopyIoPcs
<1>1. ~UpdateMove(q) /\ ~HintMove(q)
    BY DEF Edge, UpdateMove, HintMove
<1>2. FlushMove(q) => IoMove(q)
    BY DEF Edge, FlushMove, IoMove
<1>3. CopyIoMove(q) => IoMove(q)
    BY DEF Edge, CopyIoMove, IoMove
<1>4. ~Unmoved(q) /\ ~CalMove(q)
    BY DEF Unmoved, CalMove, CalPcs
<1> QED
    BY <1>1, <1>2, <1>3, <1>4, Moves

\* What a process relies on while it does I/O.
LEMMA WritingInductive ==
    TypeOK /\ TypeOK' /\ Locks /\ WalBounds /\ Writing /\ Copies /\ [Next]_vars
    => Writing'
<1> SUFFICES ASSUME TypeOK, TypeOK', Locks, WalBounds, Writing, Copies, [Next]_vars,
                    NEW q \in Procs, NEW b, b = pb'[q], pc'[q] \in IoPcs
             PROVE  /\ pc'[q] \in FlushIoPcs => dirty'[b]
                    /\ pc'[q] = "fwal" => plsn'[q] = pageLsn'[b]
                    /\ pc'[q] = "fwrite" => pageLsn'[b] <= walFlushed'
                    /\ pc'[q] = "freset" => copyOf'[b] = NoCopy
                    /\ pc'[q] \in CopyIoPcs => copyOf'[b] # NoCopy
                    /\ pc'[q] = "cwrite" => cLsn'[copyOf'[b]] <= walFlushed'
                    /\ pc'[q] = "cfree" => diskLsn'[b] = cLsn'[copyOf'[b]]
    BY DEF Writing, IoPcs, FlushIoPcs, CopyIoPcs, HasCopy
<1>0. BufType /\ BufType' /\ CopyType /\ ProcType /\ diskLsn \in [Buffers -> Lsn]
    BY TypeParts DEF SharedType
<1>a. walFlushed \in Nat /\ walFlushed' \in Nat
    BY DEF TypeOK, Lsn
<1>1. ~Crash
    BY DEF Crash, IoPcs, FlushIoPcs, CopyIoPcs
<1>2. walFlushed <= walFlushed'
    BY <1>1, WalGrows
<1>3. CASE pc'[q] = pc[q]
    <2>1. pb'[q] = pb[q] /\ plsn'[q] = plsn[q]
        BY <1>0, <1>1, <1>3, Stay DEF IoPcs, FlushIoPcs, CopyIoPcs, CalPcs
    <2>2. b \in Buffers
        BY <1>3, <2>1, AtBuffer DEF IoPcs, FlushIoPcs, CopyIoPcs, CalPcs
    <2>3. IoSame(b)
        BY <1>1, <1>3, <2>1, IoStable
    <2>4. pageLsn[b] \in Nat /\ (HasCopy(b) => cLsn[copyOf[b]] \in Nat)
        BY <1>0, <2>2 DEF BufType, CopyType, HasCopy, Lsn
    <2> QED
        <3>1. dirty[b] => dirty'[b] /\ pageLsn'[b] = pageLsn[b]
            BY <2>3 DEF IoSame
        <3>2. /\ copyOf'[b] = copyOf[b] /\ diskLsn'[b] = diskLsn[b]
              /\ HasCopy(b) => cLsn'[copyOf'[b]] = cLsn[copyOf[b]]
            BY <2>3 DEF IoSame
        <3>3. /\ pc[q] \in FlushIoPcs => dirty[b]
              /\ pc[q] = "fwal" => plsn[q] = pageLsn[b]
              /\ pc[q] = "fwrite" => pageLsn[b] <= walFlushed
              /\ pc[q] = "freset" => ~HasCopy(b)
              /\ pc[q] \in CopyIoPcs => HasCopy(b)
              /\ pc[q] = "cwrite" => cLsn[copyOf[b]] <= walFlushed
              /\ pc[q] = "cfree" => diskLsn[b] = cLsn[copyOf[b]]
            BY <2>1 DEF Writing
        <3>4. {"fwal", "fwrite"} \subseteq FlushIoPcs /\ {"cwrite", "cfree"} \subseteq CopyIoPcs
            BY DEF FlushIoPcs, CopyIoPcs
        <3>5. pc[q] = "fwal" => plsn'[q] = pageLsn'[b]
            BY <2>1, <3>1, <3>3, <3>4
        <3>6. pc[q] = "fwrite" => pageLsn'[b] <= walFlushed'
            BY <1>a, <1>2, <2>4, <3>1, <3>3, <3>4, LeqTrans
        <3>7. pc[q] = "cwrite" => cLsn'[copyOf'[b]] <= walFlushed'
            BY <1>a, <1>2, <2>4, <3>2, <3>3, <3>4, LeqTrans
        <3>8. pc[q] = "cfree" => diskLsn'[b] = cLsn'[copyOf'[b]]
            BY <3>2, <3>3, <3>4
        <3> QED
            BY <1>3, <3>1, <3>2, <3>3, <3>5, <3>6, <3>7, <3>8 DEF HasCopy
<1>4. CASE pc'[q] # pc[q]
    <2>1. IoMove(q) /\ b = pb[q]
        BY <1>0, <1>1, <1>4, IoMoves DEF IoMove
    <2>2. b \in Buffers
        BY <2>1, AtBuffer DEF IoMove, FlushStart, FlushXLog, FlushWrite, FlushFreeCopy,
           FlushReset, CopyFlushStart, CopyFlushXLog, CopyFlushWrite, CalPcs
    <2> USE DEF FlushIoPcs, CopyIoPcs
    <2>3. CASE FlushStart(q) /\ dirty[b] /\ pc'[q] = "fwal" /\ plsn'[q] = pageLsn[b]
        BY <2>3 DEF FlushStart
    <2>4. CASE FlushXLog(q) /\ pc'[q] = "fwrite"
        <3>1. dirty[b] /\ plsn[q] = pageLsn[b]
            BY <2>1, <2>4 DEF FlushXLog, Writing
        <3>2. pageLsn[b] \in Nat
            BY <1>0, <2>2 DEF BufType, Lsn
        <3>3. dirty' = dirty /\ pageLsn' = pageLsn /\ walFlushed' = MaxOf(walFlushed, plsn[q])
            BY <2>4 DEF FlushXLog, bufVars
        <3>4. pageLsn'[b] <= walFlushed'
            BY <1>a, <3>1, <3>2, <3>3, SMT DEF MaxOf
        <3> QED
            BY <2>4, <3>1, <3>3, <3>4
    <2>5. CASE FlushWrite(q) /\ pc'[q] = "ffree"
        BY <2>1, <2>5 DEF FlushWrite, Writing, bufVars
    <2>6. CASE FlushFreeCopy(q) /\ pc'[q] = "freset"
        BY <1>0, <2>1, <2>2, <2>6 DEF FlushFreeCopy, FreeCopyBuffer, Writing, BufType
    <2>7. CASE FlushReset(q) /\ pc'[q] = "fend"
        BY <2>1, <2>7 DEF FlushReset, Writing
    <2>8. CASE CopyFlushStart(q) /\ HasCopy(b) /\ pc'[q] = "cwal"
        BY <2>8 DEF CopyFlushStart, HasCopy, bufVars
    <2>9. CASE CopyFlushXLog(q) /\ pc'[q] = "cwrite"
        <3>1. HasCopy(b)
            BY <2>1, <2>9 DEF CopyFlushXLog, Writing
        <3>2. cLsn[copyOf[b]] \in Nat
            BY <1>0, <2>2, <3>1 DEF BufType, CopyType, HasCopy, Lsn
        <3>3. /\ copyOf' = copyOf /\ cLsn' = cLsn
              /\ walFlushed' = MaxOf(walFlushed, cLsn[copyOf[b]])
            BY <2>1, <2>9 DEF CopyFlushXLog, bufVars, copyVars
        <3>4. \A m, n \in Nat : n <= MaxOf(m, n)
            BY SMT DEF MaxOf
        <3>5. cLsn'[copyOf'[b]] = cLsn[copyOf[b]] /\ walFlushed \in Nat
            BY <1>a, <3>3
        <3>6. cLsn'[copyOf'[b]] <= walFlushed'
            BY <3>2, <3>3, <3>4, <3>5
        <3> QED
            BY <2>9, <3>1, <3>3, <3>6 DEF HasCopy
    <2>10. CASE CopyFlushWrite(q) /\ pc'[q] = "cfree"
        BY <1>0, <2>1, <2>2, <2>10 DEF CopyFlushWrite, Writing, HasCopy, bufVars, copyVars
    <2> QED
        BY <2>1, <2>3, <2>4, <2>5, <2>6, <2>7, <2>8, <2>9, <2>10 DEF IoMove
<1> QED
    BY <1>3, <1>4

-----------------------------------------------------------------------------
(* The first theorems. *)

\* The part of the inductive invariant that types and the WAL rule need.
WInv == TypeOK /\ Locks /\ WalBounds /\ PageBounds /\ HeldBounds /\ Writing /\ Copies

\* The program starts in the invariant.
LEMMA WInvInit == Init => WInv
<1> SUFFICES ASSUME Init PROVE WInv
    OBVIOUS
<1> USE DEF Invalid, NoCopy, Lsn
<1>1. TypeOK
    <2>1. WalType /\ BufType /\ CopyType
        BY DEF Init, WalType, BufType, CopyType
    <2>2. SharedType
        <3>1. InitApply \in Nat
            BY ConstantsAssumption, SMT
        <3> QED
            BY <3>1 DEF Init, SharedType
    <2>3. ProcType
        BY DEF Init, ProcType, Pcs
    <2> QED
        BY <2>1, <2>2, <2>3, TypeParts
<1>2. Locks
    BY DEF Init, Locks, ExclPcs, IoPcs, FlushIoPcs, CopyIoPcs, ListPcs
<1>3. WalBounds /\ PageBounds
    BY SMT DEF Init, WalBounds, PageBounds, HasCopy
<1>4. HeldBounds
    BY SMT DEF Init, HeldBounds, HoldingPcs, ListPcs, CalPcs
<1>5. Writing
    BY DEF Init, Writing, FlushIoPcs, CopyIoPcs
<1>6. Copies
    BY DEF Init, Copies, HasCopy
<1> QED
    BY <1>1, <1>2, <1>3, <1>4, <1>5, <1>6 DEF WInv

\* Every step keeps it.
LEMMA WInvInductive == WInv /\ [Next]_vars => WInv'
<1> SUFFICES ASSUME WInv, [Next]_vars PROVE WInv'
    OBVIOUS
<1>0. /\ TypeOK /\ Locks /\ WalBounds /\ PageBounds
      /\ HeldBounds /\ Writing /\ Copies
    BY DEF WInv
<1>1. TypeOK'
    BY <1>0, TypeInductive
<1>2. Locks' /\ WalBounds' /\ Copies'
    BY <1>0, LocksInductive, WalBoundsInductive, CopiesInductive
<1>3. PageBounds' /\ HeldBounds' /\ Writing'
    BY <1>0, <1>1, PageBoundsInductive, HeldBoundsInductive, WritingInductive
<1> QED
    BY <1>1, <1>2, <1>3 DEF WInv

\* So it always holds.
LEMMA WInvAlways == Spec => []WInv
<1>1. Init => WInv
    BY WInvInit
<1>2. WInv /\ [Next]_vars => WInv'
    BY WInvInductive
<1> QED
    BY <1>1, <1>2, PTL DEF Spec

\* Every variable stays in its domain, whatever the number of processes,
\* buffers, copy buffers, replicas and crashes.
THEOREM TypeCorrect == Spec => []TypeOK
<1>1. WInv => TypeOK
    BY DEF WInv
<1> QED
    BY <1>1, WInvAlways, PTL

\* FlushBuffer and polar_flush_copy_buffer never write a page whose WAL could
\* be lost: what they wait for with XLogFlush is the LSN of what they write.
THEOREM WalRule == Spec => []WalBeforeData
<1>1. WInv => WalBeforeData
    BY DEF WInv, PageBounds, WalBeforeData
<1> QED
    BY <1>1, WInvAlways, PTL
=============================================================================
