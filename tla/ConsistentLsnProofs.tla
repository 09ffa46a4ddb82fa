------------------------ MODULE ConsistentLsnProofs -------------------------
(***************************************************************************)
(* The properties of ConsistentLsn, for any number of processes, buffers,  *)
(* copy buffers and replicas, with hint records, slots that come and go    *)
(* and any number of crashes (NoFuturePage: without these three, and of    *)
(* the writes that look at the gate only).                                 *)
(*                                                                         *)
(* ConsistentLsnSafe, RedoPointSafe, NoLostUpdate and DiskKeepsChanges     *)
(* rest on this argument. Every change that memory has is in the page of   *)
(* its buffer or about to be (MemoryHasChanges), in normal running and     *)
(* while redo replays it, and a buffer is in the flush list before its     *)
(* change is logged (Listing). A change that memory has and the disk has   *)
(* not is either in the page of a buffer whose oldest LSN is at or below   *)
(* it, or in the copy of that page, under the oldest LSN the page had when *)
(* it was copied (Covered). A process that computes the consistent LSN     *)
(* holds a bound v such that every change below v is on disk or in a copy  *)
(* it has not read yet (CalculationSound); new changes are above v,        *)
(* changes never leave the disk, and a copy goes only when its content is  *)
(* on disk.                                                                *)
(*                                                                         *)
(* OldestNotBehind, ConsistentLsnAdvances and RedoNeverFallsBack on this   *)
(* one. An LSN is a floor when no buffer of the flush list, none that is   *)
(* about to be put there and no copy is older. New oldest LSNs are read at *)
(* the end of the WAL under the list lock, and a copy takes that of its    *)
(* page, so that a floor stays one; what a calculation holds is a floor of *)
(* all it has read (Calc), which is why the consistent LSN and the redo    *)
(* point, which come from calculations, are floors too, and why the next   *)
(* calculation is not below them (Order).                                  *)
(*                                                                         *)
(* NoFuturePage on the third. The oldest apply LSN grows, and only a new   *)
(* record raises the LSN of a page, which needs the exclusive content      *)
(* lock; so what the flusher has found out about its page or its copy      *)
(* before it started the write still holds when it writes (Gates).         *)
(***************************************************************************)
EXTENDS ConsistentLsnWalRule

\* A leaf that names no prover is for Zenon.
USE Zenon DEF diskVars

\* The changes that the pages in memory are to have: all that are logged or,
\* during redo, those replayed.
Changes == {r \in wal : ~r.hint /\ (mode = "run" \/ r.start < replayLsn)}

\* Where a change may be found.
OnDisk(r) == diskLsn[r.buf] > r.start
Listed(r) == oldestLsn[r.buf] # Invalid /\ oldestLsn[r.buf] <= r.start
InCopy(r) ==
    /\ HasCopy(r.buf)
    /\ cOldest[copyOf[r.buf]] <= r.start
    /\ cLsn[copyOf[r.buf]] > r.start

\* What a process may rely on while it puts a buffer into the flush list.
Listing ==
    \A p \in Procs :
        LET b == pb[p] IN
        /\ pc[p] \in {"put", "hput"} => oldestLsn[b] = Invalid
        /\ pc[p] = "adjust" => HasCopy(b) /\ ~touched[b]
        /\ pc[p] = "log" => /\ oldestLsn[b] # Invalid
                            /\ HasCopy(b) => touched[b]

\* During redo only pages are flushed, and a page that is ahead of redo is as
\* it is on disk.
Redoing ==
    mode = "redo" =>
        /\ oldestApply = Invalid /\ consistentLsn = Invalid /\ ~ckptRunning
        /\ ckptRedo <= replayLsn
        /\ \A b \in Buffers :
              /\ ~HasCopy(b)
              /\ oldestLsn[b] <= replayLsn
              /\ pageLsn[b] > replayLsn => diskLsn[b] = pageLsn[b]
        /\ \A p \in Procs :
              /\ pc[p] \in {"idle", "sync", "fstart"} \cup FlushIoPcs \cup CalPcs
              /\ pc[p] = "sync" => plsn[p] = Invalid
              /\ pc[p] \in CalPcs => plsn[p] <= replayLsn

\* A change is on disk, or the flush list or a copy knows of it.
Covered == \A r \in Changes : OnDisk(r) \/ Listed(r) \/ InCopy(r)

\* A copy has what the disk has, and all that there is until the page is
\* touched; a page that was written is on disk as it is in memory.
CopySound ==
    \A r \in Changes :
        /\ HasCopy(r.buf) /\ ~touched[r.buf] => OnDisk(r) \/ InCopy(r)
        /\ HasCopy(r.buf) /\ OnDisk(r) =>
              \/ cLsn[copyOf[r.buf]] > r.start
              \/ \E p \in Procs : AtBuf(p, r.buf, {"ffree"})
        /\ \A p \in Procs : AtBuf(p, r.buf, {"ffree", "freset"}) => OnDisk(r)

\* What a calculation that is under way has established.
CalculationSound ==
    \A p \in Procs : \A r \in Changes :
        pc[p] \in CalPcs /\ r.start < plsn[p] =>
            \/ OnDisk(r)
            \/ pc[p] = "calcopy" /\ InCopy(r) /\ pscan[p] <= copyOf[r.buf]

-----------------------------------------------------------------------------
(* The flush list and recovery. *)

\* Nobody else touches a page whose content lock is held exclusively.
LEMMA ExclStable ==
    ASSUME TypeOK, Locks, Copies, [Next]_vars, ~Crash,
           NEW q \in Procs, pc[q] \in ExclPcs, pc'[q] = pc[q]
    PROVE  Same(pb[q])
<1>0. BufType /\ ProcType
    BY TypeParts
<1>1. pb[q] \in Buffers
    BY AtBuffer DEF ExclPcs, CalPcs
<1>2. CASE UNCHANGED <<bufVars, copyVars, diskLsn>>
    BY <1>2 DEF Same, bufVars, copyVars
<1>3. ASSUME NEW p \in Procs, PageStep(p) PROVE Same(pb[q])
    <2>1. p # q /\ pc[p] \in ExclPcs \cup SharePcs
        BY <1>0, <1>3, PageStepPc DEF SharePcs, HintPcs, IoPcs, FlushIoPcs, CopyIoPcs
    <2>2. pb[p] # pb[q]
        BY <2>1 DEF Locks
    <2> QED
        BY <1>1, <1>3, <2>2, OtherBuffer
<1>4. CASE RedoRecord
    <2>1. \A r \in wal : r.buf = pb[q] => ExclLocked(r.buf)
        BY DEF ExclLocked, AtBuf
    <2>2. UNCHANGED <<touched, copyOf, copyVars, diskLsn>>
        BY <1>4 DEF RedoRecord
    <2>3. \/ UNCHANGED <<dirty, justDirtied, pageLsn, oldestLsn>>
          \/ \E r \in wal : /\ ~ExclLocked(r.buf)
                            /\ pageLsn' = [pageLsn EXCEPT ![r.buf] = r.start + 1]
                            /\ dirty' = [dirty EXCEPT ![r.buf] = TRUE]
                            /\ justDirtied' = [justDirtied EXCEPT ![r.buf] = TRUE]
                            /\ oldestLsn' = [oldestLsn EXCEPT ![r.buf] =
                                               IF @ = Invalid THEN r.start ELSE @]
        BY <1>4 DEF RedoRecord
    <2> QED
        BY <1>0, <1>1, <2>1, <2>2, <2>3 DEF Same, BufType, copyVars
<1> QED
    BY <1>2, <1>3, <1>4, PageSteps

\* The steps of q to a place where it is about to list its buffer or has done so.
ListMove(q) ==
    /\ pb'[q] = pb[q]
    /\ \/ /\ MarkBufferDirty(q)
          /\ \/ pc'[q] = "put" /\ oldestLsn[pb[q]] = Invalid
             \/ pc'[q] = "adjust" /\ FirstTouchAfterCopy(pb[q])
             \/ /\ pc'[q] = "log" /\ oldestLsn[pb[q]] # Invalid
                /\ ~FirstTouchAfterCopy(pb[q])
       \/ HintList(q) /\ pc'[q] = "hput" /\ oldestLsn[pb[q]] = Invalid
       \/ PutBuffer(q) /\ pc'[q] = "log"
       \/ AdjustPosition(q) /\ pc'[q] = "log"

\* There is no other way to the places of Listing.
LEMMA ListMoves ==
    ASSUME ProcType, [Next]_vars, ~Crash, NEW q \in Procs,
           pc'[q] \in {"put", "hput", "adjust", "log"}, pc'[q] # pc[q]
    PROVE  ListMove(q)
BY Moves DEF Unmoved, Edge, UpdateMove, HintMove, FlushMove, CopyIoMove, CalMove,
   CalPcs, ListMove

\* A buffer that is about to be listed stays out of the list.
LEMMA HintListStable ==
    ASSUME TypeOK, Locks, Copies, Redoing, [Next]_vars, ~Crash,
           NEW q \in Procs, pc[q] = "hput", pc'[q] = pc[q], oldestLsn[pb[q]] = Invalid
    PROVE  oldestLsn'[pb[q]] = Invalid
<1>0. BufType /\ ProcType
    BY TypeParts
<1>1. pb[q] \in Buffers
    BY AtBuffer DEF CalPcs
<1>2. CASE UNCHANGED <<bufVars, copyVars, diskLsn>>
    BY <1>2 DEF bufVars
<1>3. ASSUME NEW p \in Procs, PageStep(p) PROVE oldestLsn'[pb[q]] = Invalid
    <2>1. p # q
        BY <1>0, <1>3, PageStepPc
    <2>2. CASE pb[p] # pb[q]
        BY <1>1, <1>3, <2>2, OtherBuffer DEF Same
    <2>3. CASE pb[p] = pb[q]
        <3>1. pc[p] \notin ListPcs
            BY <2>1, <2>3 DEF Locks, ListPcs
        <3>2. oldestLsn' = oldestLsn \/ FlushReset(p)
            BY <1>3, <3>1 DEF PageStep, ListPcs, MarkBufferDirty, PutBuffer,
               AdjustPosition, PageSetLSN, HintPut, HintDirty, FlushStart, FlushWrite,
               FlushFreeCopy, FlushEnd, CopyFlushWrite, CopyFlushEnd, CopyBuffer, bufVars
        <3> QED
            BY <1>0, <1>1, <2>3, <3>2 DEF FlushReset, BufType
    <2> QED
        BY <2>2, <2>3
<1>4. CASE RedoRecord
    BY <1>4 DEF RedoRecord, Redoing, FlushIoPcs, CalPcs
<1> QED
    BY <1>2, <1>3, <1>4, PageSteps

\* A buffer is listed, and its copy marked touched, before its change is logged.
LEMMA ListingInductive ==
    TypeOK /\ Locks /\ HeldBounds /\ Listing /\ Copies /\ Redoing /\ [Next]_vars
    => Listing'
<1> SUFFICES ASSUME TypeOK, Locks, HeldBounds, Listing, Copies, Redoing, [Next]_vars,
                    NEW q \in Procs, NEW b, b = pb'[q],
                    pc'[q] \in {"put", "hput", "adjust", "log"}
             PROVE  /\ pc'[q] \in {"put", "hput"} => oldestLsn'[b] = Invalid
                    /\ pc'[q] = "adjust" => copyOf'[b] # NoCopy /\ ~touched'[b]
                    /\ pc'[q] = "log" => /\ oldestLsn'[b] # Invalid
                                         /\ copyOf'[b] # NoCopy => touched'[b]
    BY DEF Listing, HasCopy
<1>0. BufType /\ ProcType
    BY TypeParts
<1>1. ~Crash
    BY DEF Crash
<1>2. CASE pc'[q] = pc[q]
    <2>1. b = pb[q]
        BY <1>0, <1>1, <1>2, Stay DEF CalPcs
    <2>2. CASE pc[q] = "hput"
        BY <1>1, <1>2, <2>1, <2>2, HintListStable, SMT DEF Listing
    <2>3. CASE pc[q] # "hput"
        <3>1. Same(b)
            BY <1>1, <1>2, <2>1, <2>3, ExclStable DEF ExclPcs
        <3> QED
            BY <1>2, <2>1, <2>3, <3>1 DEF Same, Listing, HasCopy
    <2> QED
        BY <2>2, <2>3
<1>3. CASE pc'[q] # pc[q]
    <2>1. ListMove(q) /\ b = pb[q]
        BY <1>0, <1>1, <1>3, ListMoves DEF ListMove
    <2>2. b \in Buffers
        BY <2>1, AtBuffer DEF ListMove, MarkBufferDirty, HintList, PutBuffer,
           AdjustPosition, CalPcs
    <2>3. CASE MarkBufferDirty(q)
        <3>1. UNCHANGED <<oldestLsn, touched, copyOf>>
            BY <2>3 DEF MarkBufferDirty
        <3>2. \/ pc'[q] = "put" /\ oldestLsn[b] = Invalid
              \/ pc'[q] = "adjust" /\ FirstTouchAfterCopy(b)
              \/ /\ pc'[q] = "log" /\ oldestLsn[b] # Invalid
                 /\ ~FirstTouchAfterCopy(b)
            BY <2>1, <2>3 DEF ListMove, MarkBufferDirty, HintList, PutBuffer,
               AdjustPosition
        <3> QED
            BY <3>1, <3>2 DEF FirstTouchAfterCopy
    <2>4. CASE HintList(q)
        BY <2>1, <2>4 DEF ListMove, MarkBufferDirty, HintList, PutBuffer, AdjustPosition,
           bufVars
    <2>5. CASE PutBuffer(q) \/ AdjustPosition(q)
        <3>1. pc'[q] = "log"
            BY <2>1, <2>5 DEF ListMove, MarkBufferDirty, HintList, PutBuffer, AdjustPosition
        <3>2. oldestLsn'[b] # Invalid
            <4>1. plsn[q] # Invalid
                BY <1>0, <2>5, SMT DEF PutBuffer, AdjustPosition, HeldBounds, ListPcs,
                   ProcType, Lsn, Invalid
            <4> QED
                BY <1>0, <2>1, <2>2, <2>5, <4>1 DEF PutBuffer, AdjustPosition, BufType
        <3>3. copyOf'[b] # NoCopy => touched'[b]
            <4>1. CASE PutBuffer(q)
                BY <2>1, <2>2, <4>1 DEF PutBuffer, Listing, Copies, HasCopy
            <4>2. CASE AdjustPosition(q)
                BY <1>0, <2>1, <2>2, <4>2 DEF AdjustPosition, BufType
            <4> QED
                BY <2>5, <4>1, <4>2
        <3> QED
            BY <3>1, <3>2, <3>3
    <2> QED
        BY <2>1, <2>3, <2>4, <2>5 DEF ListMove
<1> QED
    BY <1>2, <1>3

\* What processes do while the startup process replays WAL.
LEMMA RedoSteps ==
    ASSUME TypeOK, Redoing, mode = "redo", [Next]_vars, mode' = "redo", ~Crash
    PROVE  \/ UNCHANGED vars \/ RedoRecord
           \/ \E p \in Procs : Flush(p) \/ Calculate(p)
<1>1. \A p \in Procs : pc[p] \in {"idle", "sync", "fstart"} \cup FlushIoPcs \cup CalPcs
    BY DEF Redoing
<1>2. ASSUME NEW p \in Procs, Update(p) PROVE FALSE
    BY <1>1, <1>2 DEF Update, LockForUpdate, MarkBufferDirty, PutBuffer, AdjustPosition,
       XLogInsert, PageSetLSN, FlushIoPcs, CalPcs
<1>3. ASSUME NEW p \in Procs, Hint(p) PROVE FALSE
    BY <1>1, <1>3 DEF Hint, HintStart, HintSave, HintList, HintPut, HintLog, HintDirty,
       FlushIoPcs, CalPcs
<1>4. ASSUME NEW p \in Procs, Copy(p) PROVE FALSE
    BY <1>1, <1>4 DEF Copy, CopyFlushStart, CopyFlushXLog, CopyFlushWrite, CopyFlushEnd,
       CopyBuffer, FlushIoPcs, CalPcs
<1>5. ~(CkptBegin \/ CkptEnd \/ XLogFlush \/ Replicate \/ EndRecovery)
    BY DEF CkptBegin, CkptEnd, XLogFlush, Replicate, ReplicaReply, DropSlot, EndRecovery,
       Redoing
<1> QED
    BY <1>2, <1>3, <1>4, <1>5 DEF Next, Recover

\* The conditions of redo on a buffer and on a process.
RedoBuffer(b) ==
    /\ ~HasCopy(b)
    /\ oldestLsn[b] <= replayLsn
    /\ pageLsn[b] > replayLsn => diskLsn[b] = pageLsn[b]
RedoProcess(p) ==
    /\ pc[p] \in {"idle", "sync", "fstart"} \cup FlushIoPcs \cup CalPcs
    /\ pc[p] = "sync" => plsn[p] = Invalid
    /\ pc[p] \in CalPcs => plsn[p] <= replayLsn

\* What holds during redo holds until redo ends.
LEMMA RedoingInductive ==
    TypeOK /\ TypeOK' /\ Locks /\ WalBounds /\ Copies /\ Redoing /\ [Next]_vars
    => Redoing'
<1> SUFFICES ASSUME TypeOK, TypeOK', Locks, WalBounds, Copies, Redoing, [Next]_vars,
                    mode' = "redo"
             PROVE  /\ oldestApply' = Invalid /\ consistentLsn' = Invalid /\ ~ckptRunning'
                    /\ ckptRedo' <= replayLsn'
                    /\ \A b \in Buffers : RedoBuffer(b)'
                    /\ \A p \in Procs : RedoProcess(p)'
    BY DEF Redoing, RedoBuffer, RedoProcess
<1>0. BufType /\ BufType' /\ ProcType /\ diskLsn \in [Buffers -> Lsn]
    BY TypeParts DEF SharedType
<1>a. replayLsn \in Nat /\ 1 <= replayLsn /\ ckptRedo \in Nat /\ plsn \in [Procs -> Nat]
    BY DEF TypeOK, WalBounds, Lsn
<1>1. CASE Crash
    BY <1>0, <1>a, <1>1, SMT DEF Crash, RedoBuffer, RedoProcess, HasCopy, Invalid, CalPcs
<1>2. CASE ~Crash
    <2>0. mode = "redo"
        BY <1>2, RecSteps DEF recVars, SetConsistentLsn, Replicate, ReplicaReply, DropSlot,
           Recover, RedoRecord, EndRecovery
    <2>1. /\ oldestApply = Invalid /\ consistentLsn = Invalid /\ ~ckptRunning
          /\ ckptRedo <= replayLsn
          /\ \A b \in Buffers : RedoBuffer(b)
          /\ \A p \in Procs : RedoProcess(p)
        BY <2>0 DEF Redoing, RedoBuffer, RedoProcess
    <2>2. CASE UNCHANGED vars
        BY <2>1, <2>2 DEF vars, walVars, bufVars, copyVars, replVars, ckptVars, recVars,
           procVars, RedoBuffer, RedoProcess, HasCopy
    <2>3. CASE RedoRecord
        <3>1. /\ replayLsn' = replayLsn + 1
              /\ UNCHANGED <<copyOf, diskLsn, consistentLsn, replVars, ckptVars, procVars>>
            BY <2>3 DEF RedoRecord
        <3>2. ASSUME NEW b \in Buffers PROVE RedoBuffer(b)'
            <4>0. /\ pageLsn[b] \in Nat /\ oldestLsn[b] \in Nat
                  /\ ~HasCopy(b) /\ oldestLsn[b] <= replayLsn
                  /\ pageLsn[b] > replayLsn => diskLsn[b] = pageLsn[b]
                BY <1>0, <2>1 DEF BufType, RedoBuffer, Lsn
            <4>1. \/ pageLsn'[b] = pageLsn[b] /\ oldestLsn'[b] = oldestLsn[b]
                  \/ /\ pageLsn'[b] = replayLsn + 1
                     /\ oldestLsn'[b] \in {oldestLsn[b], replayLsn}
                BY <1>0, <2>3, SMT DEF RedoRecord, BufType
            <4> QED
                BY <1>a, <3>1, <4>0, <4>1, SMT DEF RedoBuffer, HasCopy
        <3>3. ASSUME NEW p \in Procs PROVE RedoProcess(p)'
            BY <1>a, <2>1, <3>1, SMT DEF RedoProcess, procVars
        <3> QED
            BY <1>a, <2>1, <3>1, <3>2, <3>3, SMT DEF replVars, ckptVars
    <2>4. ASSUME NEW p \in Procs, Flush(p) \/ Calculate(p)
          PROVE  /\ UNCHANGED <<oldestApply, consistentLsn, ckptRunning, ckptRedo, replayLsn>>
                 /\ \A b \in Buffers : RedoBuffer(b)'
                 /\ \A q \in Procs : RedoProcess(q)'
        <3>1. UNCHANGED <<oldestApply, consistentLsn, ckptRunning, ckptRedo, replayLsn>>
            BY <2>0, <2>4 DEF Flush, Calculate, SyncOneBuffer, GetVictimBuffer, FlushRelationBuffers, SyncLocked,
               FlushStart, FlushSkip, FlushXLog, FlushWrite, FlushFreeCopy, FlushReset,
               FlushEnd, CalFlushLists, CalCopyBuffers, SetConsistentLsn, replVars,
               ckptVars, recVars
        <3>2. ASSUME NEW b \in Buffers PROVE RedoBuffer(b)'
            <4>0. /\ pageLsn[b] \in Nat /\ oldestLsn[b] \in Nat
                  /\ ~HasCopy(b) /\ oldestLsn[b] <= replayLsn
                  /\ pageLsn[b] > replayLsn => diskLsn[b] = pageLsn[b]
                BY <1>0, <2>1 DEF BufType, RedoBuffer, Lsn
            <4>1. pageLsn' = pageLsn
                BY <2>4 DEF Flush, Calculate, SyncOneBuffer, GetVictimBuffer, FlushRelationBuffers, SyncLocked,
                   FlushStart, FlushSkip, FlushXLog, FlushWrite, FlushFreeCopy, FlushReset,
                   FlushEnd, CalFlushLists, CalCopyBuffers, SetConsistentLsn, bufVars
            <4>2. diskLsn'[b] \in {diskLsn[b], pageLsn[b]}
                BY <1>0, <2>4 DEF Flush, Calculate, SyncOneBuffer, GetVictimBuffer, FlushRelationBuffers,
                   SyncLocked, FlushStart, FlushSkip, FlushXLog, FlushWrite, FlushFreeCopy,
                   FlushReset, FlushEnd, CalFlushLists, CalCopyBuffers, SetConsistentLsn
            <4>3. oldestLsn'[b] \in {oldestLsn[b], 0}
                BY <1>0, <2>4 DEF Flush, Calculate, SyncOneBuffer, GetVictimBuffer, FlushRelationBuffers,
                   SyncLocked, FlushStart, FlushSkip, FlushXLog, FlushWrite, FlushFreeCopy,
                   FlushReset, FlushEnd, CalFlushLists, CalCopyBuffers, SetConsistentLsn,
                   bufVars, BufType, Invalid
            <4>4. copyOf'[b] \in {copyOf[b], NoCopy}
                BY <1>0, <2>4 DEF Flush, Calculate, SyncOneBuffer, GetVictimBuffer, FlushRelationBuffers,
                   SyncLocked, FlushStart, FlushSkip, FlushXLog, FlushWrite, FlushFreeCopy,
                   FlushReset, FlushEnd, CalFlushLists, CalCopyBuffers, SetConsistentLsn,
                   bufVars, BufType, FreeCopyBuffer
            <4> QED
                BY <1>a, <3>1, <4>0, <4>1, <4>2, <4>3, <4>4, SMT DEF RedoBuffer, HasCopy
        <3>3. ASSUME NEW q \in Procs, q # p PROVE RedoProcess(q)'
            <4>1. pc'[q] = pc[q] /\ plsn'[q] = plsn[q]
                BY <1>0, <2>4, <3>3 DEF Flush, Calculate, SyncOneBuffer, GetVictimBuffer, FlushRelationBuffers,
                   SyncLocked, FlushStart, FlushSkip, FlushXLog, FlushWrite, FlushFreeCopy,
                   FlushReset, FlushEnd, CalFlushLists, CalCopyBuffers, SetConsistentLsn,
                   Step, StepHolding, Enter, Done, Goto, Hold, ProcType
            <4> QED
                BY <2>1, <3>1, <4>1 DEF RedoProcess
        <3>4. RedoProcess(p)'
            <4> USE <1>0, <2>1, <3>1 DEF RedoProcess, ProcType, FlushIoPcs, CalPcs, Step,
                    StepHolding, Enter, Done, Goto, Hold
            <4>1. ASSUME NEW b \in Buffers, SyncOneBuffer(p, b) \/ GetVictimBuffer(p, b)
                                              \/ FlushRelationBuffers(p, b)
                  PROVE  RedoProcess(p)'
                BY <4>1 DEF SyncOneBuffer, GetVictimBuffer, FlushRelationBuffers
            <4>2. CASE SyncLocked(p)
                BY <4>2 DEF SyncLocked, CanBeFlushed, CopyCanBeFlushed
            <4>3. CASE FlushStart(p) \/ FlushSkip(p) \/ FlushXLog(p) \/ FlushWrite(p)
                BY <4>3 DEF FlushStart, FlushSkip, FlushXLog, FlushWrite
            <4>4. CASE FlushFreeCopy(p) \/ FlushReset(p) \/ FlushEnd(p)
                BY <4>4 DEF FlushFreeCopy, FlushReset, FlushEnd
            <4>5. CASE CalFlushLists(p)
                <5>1. \A b \in InFlushList : oldestLsn[b] <= replayLsn
                    BY DEF InFlushList, RedoBuffer
                <5>2. \A v \in MaxValidLsns : v <= replayLsn
                    BY <1>a, <2>0, SMT DEF MaxValidLsns, MaxOf
                <5> QED
                    BY <4>5, <5>1, <5>2 DEF CalFlushLists
            <4>6. CASE CalCopyBuffers(p)
                <5>0. plsn[p] \in Nat /\ plsn[p] <= replayLsn
                    BY <1>a, <4>6 DEF CalCopyBuffers
                <5>1. plsn'[p] \in Nat /\ plsn'[p] <= plsn[p]
                    BY <1>a, <4>6, <5>0, SMTT(20) DEF CalCopyBuffers, TypeOK, Lsn
                <5>2. pc'[p] \in CalPcs
                    BY <4>6 DEF CalCopyBuffers
                <5>3. plsn'[p] <= replayLsn'
                    BY <1>a, <5>0, <5>1, SMT
                <5> QED
                    BY <5>2, <5>3
            <4>7. CASE SetConsistentLsn(p)
                BY <4>7 DEF SetConsistentLsn
            <4> QED
                BY <2>4, <4>1, <4>2, <4>3, <4>4, <4>5, <4>6, <4>7 DEF Flush, Calculate
        <3> QED
            BY <3>1, <3>2, <3>3, <3>4
    <2> QED
        BY <1>2, <2>0, <2>1, <2>2, <2>3, <2>4, RedoSteps
<1> QED
    BY <1>1, <1>2

-----------------------------------------------------------------------------
(* Changes, in memory and on disk. *)

\* What a change is.
LEMMA ChangeType ==
    ASSUME TypeOK, NEW r \in Changes
    PROVE  r \in wal /\ ~r.hint /\ r.buf \in Buffers /\ r.start \in Nat
BY DEF TypeOK, Changes, Record, Lsn

\* A crash leaves the changes that are before the redo point.
LEMMA CrashChanges ==
    ASSUME RedoPointSafe, Crash, NEW r \in Changes'
    PROVE  r \in wal /\ diskLsn[r.buf] > r.start /\ diskLsn' = diskLsn
BY DEF RedoPointSafe, Crash, Changes

\* Where a change comes from.
LEMMA NewChanges ==
    ASSUME TypeOK, WalBounds, [Next]_vars, ~Crash, NEW r \in Changes'
    PROVE  \/ r \in Changes
           \/ \E p \in Procs : /\ XLogInsert(p) /\ r.start = insertLsn /\ r.buf = pb[p]
                               /\ UNCHANGED <<mode, replayLsn>>
           \/ RedoRecord /\ r \in wal /\ ~r.hint /\ r.start = replayLsn
<1>0. /\ r \in wal' /\ ~r.hint /\ (mode' = "run" \/ r.start < replayLsn')
      /\ \A s \in wal : s.start \in Nat
      /\ replayLsn \in Nat /\ insertLsn \in Nat /\ mode \in {"run", "redo"}
    BY DEF Changes, TypeOK, Record, Lsn
<1>1. CASE UNCHANGED <<walVars, consistentLsn, ckptVars, recVars>>
    BY <1>0, <1>1 DEF Changes, walVars, recVars
<1>2. ASSUME NEW p \in Procs, XLogInsert(p) \/ HintLog(p)
      PROVE  \/ r \in Changes
             \/ XLogInsert(p) /\ r.start = insertLsn /\ r.buf = pb[p]
                /\ UNCHANGED <<mode, replayLsn>>
    <2>1. UNCHANGED <<mode, replayLsn>>
        BY <1>2 DEF XLogInsert, HintLog, recVars
    <2>2. CASE XLogInsert(p)
        BY <1>0, <2>1, <2>2, SMT DEF XLogInsert, Append1, Changes
    <2>3. CASE HintLog(p)
        BY <1>0, <2>1, <2>3, SMT DEF HintLog, Append1, Changes
    <2> QED
        BY <1>2, <2>2, <2>3
<1>3. ASSUME NEW p \in Procs,
             HintDirty(p) \/ FlushXLog(p) \/ CopyFlushXLog(p) \/ SetConsistentLsn(p)
      PROVE  r \in Changes
    BY <1>0, <1>3 DEF HintDirty, FlushXLog, CopyFlushXLog, SetConsistentLsn, Changes,
       walVars, recVars
<1>4. CASE CkptBegin \/ CkptEnd \/ XLogFlush
    BY <1>0, <1>4 DEF CkptBegin, CkptEnd, XLogFlush, Changes, recVars
<1>5. CASE RedoRecord
    BY <1>0, <1>5, SMTT(20) DEF RedoRecord, Changes, walVars
<1>6. CASE EndRecovery
    BY <1>0, <1>6 DEF EndRecovery, Changes, walVars, WalBounds
<1> QED
    BY <1>1, <1>2, <1>3, <1>4, <1>5, <1>6, LsnSteps

\* The steps of q to a place where it is about to set the LSN of a page.
LEMMA SetLsnMoves ==
    ASSUME ProcType, [Next]_vars, ~Crash, NEW q \in Procs,
           pc'[q] \in {"setlsn", "hdirty"}, pc'[q] # pc[q]
    PROVE  /\ pb'[q] = pb[q]
           /\ \/ XLogInsert(q) /\ plsn'[q] = insertLsn + 1
              \/ HintLog(q) /\ plsn'[q] = insertLsn + 1
              \/ pc[q] = "hsave" /\ pc'[q] = "hdirty" /\ plsn'[q] = plsn[q]
BY Moves DEF Unmoved, Edge, UpdateMove, HintMove, FlushMove, CopyIoMove, CalMove,
   CalPcs

\* A process about to set a page LSN stays there until it does.
LEMMA SetLsnStays ==
    ASSUME ProcType, [Next]_vars, ~Crash, NEW q \in Procs, pc[q] = "setlsn",
           ~PageSetLSN(q)
    PROVE  pc'[q] = "setlsn"
BY Moves DEF Unmoved, Edge, UpdateMove, HintMove, FlushMove, CopyIoMove, CalMove,
   CalPcs

\* A page LSN that is about to be set is above all the changes of the page ...
LsnToSet ==
    \A p \in Procs : \A r \in Changes :
        /\ r.buf = pb[p]
        /\ pc[p] = "setlsn" \/ (pc[p] = "hdirty" /\ plsn[p] # Invalid)
        => r.start < plsn[p]

\* A new change of that page would need the content lock.
LEMMA LsnToSetInductive ==
    TypeOK /\ TypeOK' /\ Locks /\ WalBounds /\ WalBounds' /\ HeldBounds /\ Redoing
    /\ LsnToSet /\ [Next]_vars => LsnToSet'
<1> SUFFICES ASSUME TypeOK, TypeOK', Locks, WalBounds, WalBounds', HeldBounds, Redoing,
                    LsnToSet, [Next]_vars,
                    NEW p \in Procs, NEW r \in Changes', r.buf = pb'[p],
                    pc'[p] = "setlsn" \/ (pc'[p] = "hdirty" /\ plsn'[p] # Invalid)
             PROVE  r.start < plsn'[p]
    BY DEF LsnToSet
<1>0. ProcType /\ insertLsn \in Nat
    BY TypeParts DEF TypeOK, Lsn
<1>1. ~Crash
    BY DEF Crash
<1>2. r \in wal' /\ r.start \in Nat /\ r.start < insertLsn'
    BY DEF Changes, TypeOK, WalBounds, Record, Lsn
<1>3. CASE pc'[p] = pc[p]
    <2>1. pb'[p] = pb[p] /\ plsn'[p] = plsn[p]
        BY <1>0, <1>1, <1>3, Stay DEF CalPcs
    <2>2. CASE r \in Changes
        BY <1>3, <2>1, <2>2 DEF LsnToSet
    <2>3. ASSUME NEW q \in Procs, XLogInsert(q), r.buf = pb[q] PROVE FALSE
        <3>1. pc[q] = "log"
            BY <2>3 DEF XLogInsert
        <3>2. p # q /\ pb[q] = pb[p] /\ pc[p] \in ExclPcs \cup SharePcs
            BY <1>3, <2>1, <2>3, <3>1 DEF ExclPcs, SharePcs, HintPcs
        <3> QED
            BY <3>1, <3>2 DEF Locks, ExclPcs
    <2>4. CASE RedoRecord
        <3>1. pc[p] \in {"idle", "sync", "fstart"} \cup FlushIoPcs \cup CalPcs
            BY <2>4 DEF RedoRecord, Redoing
        <3> QED
            BY <1>3, <3>1 DEF FlushIoPcs, CalPcs
    <2> QED
        BY <1>1, <2>2, <2>3, <2>4, NewChanges
<1>4. CASE pc'[p] # pc[p]
    <2>1. CASE XLogInsert(p) \/ HintLog(p)
        <3>1. plsn'[p] = insertLsn + 1 /\ insertLsn' = insertLsn + 1
            BY <1>0, <2>1 DEF XLogInsert, HintLog, Append1, StepHolding, Hold, ProcType
        <3> QED
            BY <1>0, <1>2, <3>1
    <2>2. ~(pc[p] = "hsave" /\ pc'[p] = "hdirty" /\ plsn'[p] = plsn[p])
        BY DEF HeldBounds, Invalid
    <2> QED
        BY <1>0, <1>1, <1>4, <2>1, <2>2, SetLsnMoves
<1> QED
    BY <1>3, <1>4

\* ... so no change is taken out of the page again.
MemoryHasChanges ==
    \A r \in Changes :
        \/ pageLsn[r.buf] > r.start
        \/ \E p \in Procs : AtBuf(p, r.buf, {"setlsn"}) /\ plsn[p] = r.start + 1

\* The page LSN moves by PageSetLSN, a hint, redo or a crash.
LEMMA PageLsnSteps ==
    [Next]_vars =>
        \/ UNCHANGED pageLsn
        \/ \E p \in Procs : PageSetLSN(p) \/ HintDirty(p)
        \/ Crash \/ RedoRecord
BY BufSteps DEF bufVars, MarkBufferDirty, PutBuffer, AdjustPosition, HintPut, FlushStart,
   FlushFreeCopy, FlushReset, FlushEnd, CopyFlushEnd, CopyBuffer

\* No new page LSN is below a change the page has.
LEMMA PageKeepsChange ==
    ASSUME TypeOK, Locks, LsnToSet, [Next]_vars, ~Crash,
           NEW r \in Changes, pageLsn[r.buf] > r.start
    PROVE  pageLsn'[r.buf] > r.start
<1>0. BufType /\ ProcType /\ r.buf \in Buffers /\ r.start \in Nat
    BY ChangeType, TypeParts
<1>1. CASE UNCHANGED pageLsn
    BY <1>1
<1>2. ASSUME NEW p \in Procs, PageSetLSN(p) PROVE pageLsn'[r.buf] > r.start
    <2>1. r.buf = pb[p] => r.start < plsn[p]
        BY <1>2 DEF LsnToSet, PageSetLSN
    <2>2. pageLsn' = [pageLsn EXCEPT ![pb[p]] = plsn[p]]
        BY <1>2 DEF PageSetLSN
    <2> QED
        BY <1>0, <2>1, <2>2 DEF BufType, ProcType, Lsn
<1>3. ASSUME NEW p \in Procs, HintDirty(p) PROVE pageLsn'[r.buf] > r.start
    <2>1. r.buf = pb[p] /\ plsn[p] # Invalid => r.start < plsn[p]
        BY <1>3 DEF LsnToSet, HintDirty
    <2>2. \/ pageLsn'[r.buf] = pageLsn[r.buf]
          \/ r.buf = pb[p] /\ plsn[p] # Invalid /\ pageLsn'[r.buf] = plsn[p]
        BY <1>0, <1>3 DEF HintDirty, BufType
    <2> QED
        BY <1>0, <2>1, <2>2 DEF BufType, ProcType, Lsn
<1>4. CASE RedoRecord
    <2>1. r.start < replayLsn /\ replayLsn \in Nat
        BY <1>4 DEF RedoRecord, Changes, TypeOK, Lsn
    <2>2. pageLsn'[r.buf] \in {pageLsn[r.buf], replayLsn + 1}
        BY <1>0, <1>4, SMT DEF RedoRecord, BufType
    <2> QED
        BY <1>0, <2>1, <2>2, SMT
<1> QED
    BY <1>1, <1>2, <1>3, <1>4, PageLsnSteps

\* Every change is in memory, or about to be.
LEMMA MemoryInductive ==
    TypeOK /\ Locks /\ WalBounds /\ LsnToSet /\ RedoPointSafe
    /\ MemoryHasChanges /\ [Next]_vars => MemoryHasChanges'
<1> SUFFICES ASSUME TypeOK, Locks, WalBounds, LsnToSet, RedoPointSafe,
                    MemoryHasChanges, [Next]_vars, NEW r \in Changes'
             PROVE  \/ pageLsn'[r.buf] > r.start
                    \/ \E p \in Procs : /\ pb'[p] = r.buf /\ pc'[p] = "setlsn"
                                        /\ plsn'[p] = r.start + 1
    BY DEF MemoryHasChanges, AtBuf
<1>0. BufType /\ ProcType
    BY TypeParts
<1>1. CASE Crash
    BY <1>1, CrashChanges DEF Crash
<1>2. CASE ~Crash /\ r \in Changes
    <2>1. CASE pageLsn[r.buf] > r.start
        BY <1>2, <2>1, PageKeepsChange
    <2>2. ASSUME NEW p \in Procs, pb[p] = r.buf, pc[p] = "setlsn", plsn[p] = r.start + 1
          PROVE  \/ pageLsn'[r.buf] > r.start
                 \/ pb'[p] = r.buf /\ pc'[p] = "setlsn" /\ plsn'[p] = r.start + 1
        <3>1. CASE PageSetLSN(p)
            <4>1. r.buf \in Buffers /\ r.start \in Nat
                BY <1>2, ChangeType
            <4>2. pageLsn' = [pageLsn EXCEPT ![pb[p]] = plsn[p]]
                BY <3>1 DEF PageSetLSN
            <4> QED
                BY <1>0, <2>2, <4>1, <4>2, SMT DEF BufType
        <3>2. CASE ~PageSetLSN(p)
            <4>1. pc'[p] = "setlsn"
                BY <1>0, <1>2, <2>2, <3>2, SetLsnStays
            <4>2. pb'[p] = pb[p] /\ plsn'[p] = plsn[p]
                BY <1>0, <1>2, <2>2, <4>1, Stay DEF CalPcs
            <4> QED
                BY <2>2, <4>1, <4>2
        <3> QED
            BY <3>1, <3>2
    <2> QED
        BY <1>2, <2>1, <2>2 DEF MemoryHasChanges, AtBuf
<1>3. ASSUME NEW p \in Procs, XLogInsert(p), r.start = insertLsn, r.buf = pb[p]
      PROVE  pb'[p] = r.buf /\ pc'[p] = "setlsn" /\ plsn'[p] = r.start + 1
    BY <1>0, <1>3 DEF XLogInsert, StepHolding, Goto, Hold, ProcType
<1>4. CASE RedoRecord /\ r \in wal /\ r.start = replayLsn
    <2>1. r.buf \in Buffers /\ r.start \in Nat
        BY <1>4 DEF TypeOK, Record, Lsn
    <2>2. PICK s \in wal :
            /\ s.start = replayLsn
            /\ IF s.image \/ pageLsn[s.buf] <= s.start
               THEN pageLsn' = [pageLsn EXCEPT ![s.buf] = s.start + 1]
               ELSE UNCHANGED pageLsn
        BY <1>4 DEF RedoRecord
    <2>3. s = r
        BY <1>4, <2>2 DEF WalBounds
    <2> QED
        BY <1>0, <2>1, <2>2, <2>3, SMT DEF BufType, Lsn
<1> QED
    BY <1>1, <1>2, <1>3, <1>4, NewChanges

-----------------------------------------------------------------------------
(* Changes that leave memory for the disk, directly or through a copy. *)

\* Nobody who may write a page sees it without one of its changes.
LEMMA SharedHasChanges ==
    ASSUME Locks, MemoryHasChanges, NEW p \in Procs, pc[p] \in SharePcs,
           NEW r \in Changes, r.buf = pb[p]
    PROVE  pageLsn[r.buf] > r.start
<1>1. ASSUME NEW q \in Procs, AtBuf(q, r.buf, {"setlsn"}) PROVE FALSE
    <2>1. pc[q] \in ExclPcs /\ pb[q] = pb[p]
        BY <1>1 DEF AtBuf, ExclPcs
    <2>2. p # q
        BY <2>1 DEF ExclPcs, SharePcs, HintPcs, IoPcs, FlushIoPcs, CopyIoPcs
    <2> QED
        BY <2>1, <2>2 DEF Locks
<1> QED
    BY <1>1 DEF MemoryHasChanges

\* A change that is on disk stays there.
LEMMA DiskKeepsChange ==
    ASSUME TypeOK, Locks, Writing, MemoryHasChanges, CopySound, [Next]_vars,
           NEW r \in Changes, OnDisk(r)
    PROVE  diskLsn'[r.buf] > r.start
<1>0. diskLsn \in [Buffers -> Lsn] /\ r.buf \in Buffers
    BY ChangeType DEF TypeOK
<1>1. CASE UNCHANGED diskLsn
    BY <1>1 DEF OnDisk
<1>2. ASSUME NEW p \in Procs, FlushWrite(p) PROVE diskLsn'[r.buf] > r.start
    <2>1. /\ pc[p] \in SharePcs
          /\ diskLsn' = [diskLsn EXCEPT ![pb[p]] = pageLsn[pb[p]]]
        BY <1>2 DEF FlushWrite, SharePcs, IoPcs, FlushIoPcs
    <2>2. r.buf = pb[p] => pageLsn[r.buf] > r.start
        BY <2>1, SharedHasChanges
    <2> QED
        BY <1>0, <2>1, <2>2 DEF OnDisk
<1>3. ASSUME NEW p \in Procs, CopyFlushWrite(p) PROVE diskLsn'[r.buf] > r.start
    <2>1. /\ pc[p] \in IoPcs \cap CopyIoPcs /\ pc[p] # "ffree"
          /\ diskLsn' = [diskLsn EXCEPT ![pb[p]] = cLsn[copyOf[pb[p]]]]
        BY <1>3 DEF CopyFlushWrite, IoPcs, CopyIoPcs
    <2>2. ASSUME r.buf = pb[p] PROVE cLsn[copyOf[r.buf]] > r.start
        <3>1. HasCopy(r.buf)
            BY <2>1, <2>2 DEF Writing
        <3>2. ASSUME NEW q \in Procs, AtBuf(q, r.buf, {"ffree"}) PROVE FALSE
            <4>1. q # p /\ pb[q] = pb[p] /\ pc[q] \in IoPcs
                BY <2>1, <2>2, <3>2 DEF AtBuf, IoPcs, FlushIoPcs
            <4> QED
                BY <2>1, <4>1 DEF Locks
        <3> QED
            BY <3>1, <3>2 DEF CopySound
    <2> QED
        BY <1>0, <2>1, <2>2 DEF OnDisk
<1> QED
    BY <1>1, <1>2, <1>3, DiskSteps

\* What a step may do to the copy of b and to b on disk.
KeepsCopy(b) ==
    /\ copyOf'[b] = copyOf[b]
    /\ HasCopy(b) => /\ cOldest'[copyOf[b]] = cOldest[copyOf[b]]
                     /\ cLsn'[copyOf[b]] = cLsn[copyOf[b]]
                     /\ touched[b] => touched'[b]
NewCopy(p, b) ==
    /\ pc[p] = "copy" /\ ~HasCopy(b) /\ oldestLsn[b] # Invalid
    /\ copyOf'[b] \in CopyBuffers
    /\ cOldest'[copyOf'[b]] = oldestLsn[b] /\ cLsn'[copyOf'[b]] = pageLsn[b]
CopyMove(b) ==
    \/ KeepsCopy(b) /\ diskLsn'[b] = diskLsn[b]
    \/ \E p \in Procs : /\ pb[p] = b /\ KeepsCopy(b)
                        /\ FlushWrite(p) \/ CopyFlushWrite(p)
    \/ \E p \in Procs : /\ pb[p] = b /\ copyOf'[b] = NoCopy /\ diskLsn'[b] = diskLsn[b]
                        /\ FlushFreeCopy(p) \/ CopyFlushEnd(p)
    \/ \E p \in Procs : pb[p] = b /\ NewCopy(p, b) /\ diskLsn'[b] = diskLsn[b]

\* There is nothing else a step may do to them.
LEMMA CopyMoves ==
    ASSUME TypeOK, Locks, Writing, Copies, [Next]_vars, ~Crash, NEW b \in Buffers
    PROVE  CopyMove(b)
<1>0. BufType /\ CopyType /\ ProcType
    BY TypeParts
<1>1. CASE UNCHANGED <<bufVars, copyVars, diskLsn>>
    BY <1>1 DEF CopyMove, KeepsCopy, bufVars, copyVars
<1>2. CASE RedoRecord
    BY <1>2 DEF RedoRecord, CopyMove, KeepsCopy, copyVars
<1>3. ASSUME NEW p \in Procs, PageStep(p) PROVE CopyMove(b)
    <2>1. CASE b # pb[p]
        BY <1>3, <2>1, OtherBuffer DEF Same, CopyMove, KeepsCopy
    <2>2. CASE b = pb[p]
        <3>1. CASE \/ MarkBufferDirty(p) \/ PutBuffer(p) \/ PageSetLSN(p) \/ HintPut(p)
                   \/ HintDirty(p) \/ FlushStart(p) \/ FlushEnd(p)
            BY <3>1 DEF MarkBufferDirty, PutBuffer, PageSetLSN, HintPut, HintDirty,
               FlushStart, FlushEnd, CopyMove, KeepsCopy, copyVars
        <3>2. CASE AdjustPosition(p)
            BY <1>0, <2>2, <3>2 DEF AdjustPosition, CopyMove, KeepsCopy, copyVars, BufType
        <3>3. CASE FlushReset(p)
            BY <2>2, <3>3 DEF FlushReset, Writing, CopyMove, KeepsCopy
        <3>4. CASE FlushWrite(p) \/ CopyFlushWrite(p)
            <4>1. KeepsCopy(b)
                BY <3>4 DEF FlushWrite, CopyFlushWrite, KeepsCopy, bufVars, copyVars
            <4> QED
                BY <2>2, <3>4, <4>1 DEF CopyMove
        <3>5. CASE FlushFreeCopy(p) \/ CopyFlushEnd(p)
            <4>1. copyOf'[b] = NoCopy /\ diskLsn'[b] = diskLsn[b]
                BY <1>0, <2>2, <3>5 DEF FlushFreeCopy, CopyFlushEnd, FreeCopyBuffer, BufType
            <4> QED
                BY <2>2, <3>5, <4>1 DEF CopyMove
        <3>6. CASE CopyBuffer(p)
            <4>1. UNCHANGED <<touched, diskLsn>> /\ pc[p] = "copy"
                BY <3>6 DEF CopyBuffer
            <4>2. CASE UNCHANGED <<cOldest, cLsn, copyOf>>
                BY <4>1, <4>2 DEF CopyMove, KeepsCopy
            <4>3. ASSUME NEW c \in CopyBuffers, copyOf[b] = NoCopy, oldestLsn[b] # Invalid,
                         cOldest' = [cOldest EXCEPT ![c] = oldestLsn[b]],
                         cLsn' = [cLsn EXCEPT ![c] = pageLsn[b]],
                         copyOf' = [copyOf EXCEPT ![b] = c]
                  PROVE  NewCopy(p, b)
                BY <1>0, <4>1, <4>3 DEF NewCopy, HasCopy, BufType, CopyType
            <4>4. UNCHANGED <<cOldest, cLsn, copyOf>> \/ NewCopy(p, b)
                BY <2>2, <3>6, <4>3 DEF CopyBuffer, CopyIsSatisfied
            <4> QED
                BY <2>2, <4>1, <4>2, <4>4 DEF CopyMove
        <3> QED
            BY <1>3, <3>1, <3>2, <3>3, <3>4, <3>5, <3>6 DEF PageStep
    <2> QED
        BY <2>1, <2>2
<1> QED
    BY <1>1, <1>2, <1>3, PageSteps

\* A copy goes only when its content is on disk.
LEMMA CopyKeepsChange ==
    ASSUME TypeOK, Locks, Writing, Copies, CopySound, [Next]_vars, ~Crash,
           NEW r \in Changes, InCopy(r)
    PROVE  \/ diskLsn'[r.buf] > r.start
           \/ InCopy(r)' /\ copyOf'[r.buf] = copyOf[r.buf]
<1>0. r.buf \in Buffers
    BY ChangeType
<1>1. CASE KeepsCopy(r.buf)
    BY <1>1 DEF KeepsCopy, InCopy, HasCopy
<1>2. ASSUME NEW p \in Procs, pb[p] = r.buf, FlushFreeCopy(p) PROVE OnDisk(r)
    BY <1>2 DEF FlushFreeCopy, CopySound, AtBuf
<1>3. ASSUME NEW p \in Procs, pb[p] = r.buf, CopyFlushEnd(p) PROVE OnDisk(r)
    BY <1>3 DEF CopyFlushEnd, Writing, InCopy, OnDisk
<1>4. ASSUME NEW p \in Procs, NewCopy(p, r.buf) PROVE FALSE
    BY <1>4 DEF NewCopy, InCopy
<1> QED
    BY <1>0, <1>1, <1>2, <1>3, <1>4, CopyMoves DEF CopyMove, OnDisk

-----------------------------------------------------------------------------
(* The invariants about changes that are not on disk. *)

\* The oldest LSN of a buffer.
LEMMA OldestSteps ==
    ASSUME TypeOK, Locks, Copies, [Next]_vars, ~Crash, NEW b \in Buffers
    PROVE  \/ oldestLsn'[b] = oldestLsn[b]
           \/ oldestLsn[b] = Invalid /\ RedoRecord
           \/ \E p \in Procs : /\ pb[p] = b
                               /\ pc[p] \in {"put", "hput", "freset", "adjust"}
<1>0. BufType
    BY TypeParts
<1>1. CASE UNCHANGED <<bufVars, copyVars, diskLsn>>
    BY <1>1 DEF bufVars
<1>2. ASSUME NEW p \in Procs, PageStep(p)
      PROVE  \/ oldestLsn'[b] = oldestLsn[b]
             \/ pb[p] = b /\ pc[p] \in {"put", "hput", "freset", "adjust"}
    <2>1. b # pb[p] => oldestLsn'[b] = oldestLsn[b]
        BY <1>2, OtherBuffer DEF Same
    <2>2. oldestLsn' = oldestLsn \/ pc[p] \in {"put", "hput", "freset", "adjust"}
        BY <1>2 DEF PageStep, MarkBufferDirty, PutBuffer, AdjustPosition, PageSetLSN,
           HintPut, HintDirty, FlushStart, FlushWrite, FlushFreeCopy, FlushReset, FlushEnd,
           CopyFlushWrite, CopyFlushEnd, CopyBuffer, bufVars
    <2> QED
        BY <2>1, <2>2
<1>3. CASE RedoRecord
    BY <1>0, <1>3 DEF RedoRecord, BufType
<1> QED
    BY <1>1, <1>2, <1>3, PageSteps

\* No change drops out of disk, flush list and copies.
LEMMA CoveredInductive ==
    TypeOK /\ Locks /\ WalBounds /\ PageBounds /\ Writing /\ Listing /\ Copies /\ Redoing
    /\ MemoryHasChanges /\ Covered /\ CopySound /\ RedoPointSafe /\ [Next]_vars
    => Covered'
<1> SUFFICES ASSUME TypeOK, Locks, WalBounds, PageBounds, Writing, Listing, Copies, Redoing,
                    MemoryHasChanges, Covered, CopySound, RedoPointSafe, [Next]_vars,
                    NEW r \in Changes'
             PROVE  diskLsn'[r.buf] > r.start \/ Listed(r)' \/ InCopy(r)'
    BY DEF Covered, OnDisk
<1>0. BufType /\ ProcType /\ diskLsn \in [Buffers -> Lsn] /\ insertLsn \in Nat
      /\ replayLsn \in Nat
    BY TypeParts DEF TypeOK, Lsn
<1>1. CASE Crash
    BY <1>1, CrashChanges
<1>2. CASE ~Crash /\ r \in Changes
    <2>0. r.buf \in Buffers /\ r.start \in Nat
        BY <1>2, ChangeType
    <2>1. CASE OnDisk(r)
        BY <1>2, <2>1, DiskKeepsChange
    <2>2. CASE InCopy(r)
        BY <1>2, <2>2, CopyKeepsChange
    <2>3. CASE Listed(r) /\ ~OnDisk(r) /\ ~InCopy(r)
        <3>1. ASSUME NEW p \in Procs, pb[p] = r.buf,
                     pc[p] \in {"put", "hput", "freset", "adjust"}
              PROVE  FALSE
            <4>1. pc[p] \notin {"put", "hput"}
                BY <2>3, <3>1, SMT DEF Listing, Listed
            <4>2. pc[p] # "freset"
                BY <1>2, <2>3, <3>1 DEF CopySound, AtBuf
            <4>3. pc[p] # "adjust"
                BY <1>2, <2>3, <3>1 DEF Listing, CopySound
            <4> QED
                BY <3>1, <4>1, <4>2, <4>3
        <3>2. oldestLsn'[r.buf] = oldestLsn[r.buf]
            BY <1>2, <2>0, <2>3, <3>1, OldestSteps DEF Listed
        <3> QED
            BY <2>3, <3>2 DEF Listed
    <2> QED
        BY <1>2, <2>1, <2>2, <2>3 DEF Covered
<1>3. ASSUME NEW p \in Procs, XLogInsert(p), r.start = insertLsn, r.buf = pb[p]
      PROVE  Listed(r)'
    <2>1. oldestLsn' = oldestLsn /\ pc[p] = "log"
        BY <1>3 DEF XLogInsert, bufVars
    <2>2. r.buf \in Buffers
        BY <1>3, <2>1, AtBuffer DEF CalPcs
    <2>3. oldestLsn[r.buf] # Invalid /\ oldestLsn[r.buf] <= insertLsn
        BY <1>3, <2>1, <2>2 DEF Listing, PageBounds
    <2> QED
        BY <1>3, <2>1, <2>3 DEF Listed
<1>4. CASE RedoRecord /\ r \in wal /\ r.start = replayLsn
    <2>1. r.buf \in Buffers /\ r.start \in Nat
        BY <1>4 DEF TypeOK, Record, Lsn
    <2>2. PICK s \in wal :
            /\ s.start = replayLsn
            /\ \/ oldestLsn' = [oldestLsn EXCEPT ![s.buf] =
                                  IF @ = Invalid THEN s.start ELSE @]
               \/ ~(pageLsn[s.buf] <= s.start)
        BY <1>4 DEF RedoRecord
    <2>3. s = r
        BY <1>4, <2>2 DEF WalBounds
    <2>4. /\ oldestLsn[r.buf] <= replayLsn
          /\ pageLsn[r.buf] > replayLsn => diskLsn[r.buf] = pageLsn[r.buf]
          /\ diskLsn' = diskLsn /\ replayLsn # Invalid
        BY <1>0, <1>4, <2>1, SMTT(20) DEF Redoing, RedoRecord, WalBounds, Invalid
    <2>5. CASE oldestLsn' = [oldestLsn EXCEPT ![r.buf] =
                               IF @ = Invalid THEN r.start ELSE @]
        <3>1. oldestLsn'[r.buf] = IF oldestLsn[r.buf] = Invalid THEN r.start
                                  ELSE oldestLsn[r.buf]
            BY <1>0, <2>1, <2>5 DEF BufType
        <3>2. oldestLsn'[r.buf] # Invalid /\ oldestLsn'[r.buf] <= r.start
            BY <1>4, <2>1, <2>4, <3>1, SMT
        <3> QED
            BY <3>2 DEF Listed
    <2>6. CASE ~(pageLsn[r.buf] <= r.start)
        <3>1. pageLsn[r.buf] > replayLsn
            BY <1>0, <1>4, <2>1, <2>6, SMT DEF BufType, Lsn
        <3> QED
            BY <1>4, <2>4, <3>1
    <2> QED
        BY <2>2, <2>3, <2>5, <2>6
<1> QED
    BY <1>1, <1>2, <1>3, <1>4, NewChanges

\* A process about to free the copy of a page stays there until it does.
LEMMA FreeStays ==
    ASSUME ProcType, [Next]_vars, ~Crash, NEW q \in Procs, pc[q] = "ffree",
           ~FlushFreeCopy(q)
    PROVE  pc'[q] = "ffree"
BY Moves DEF Unmoved, Edge, UpdateMove, HintMove, FlushMove, CopyIoMove, CalMove,
   CalPcs

\* A copy stays as complete as the page was until the page is touched.
LEMMA CopySoundInductive ==
    TypeOK /\ TypeOK' /\ Locks /\ WalBounds /\ PageBounds /\ Writing /\ Listing /\ Copies
    /\ Redoing /\ MemoryHasChanges /\ Covered /\ CopySound /\ [Next]_vars
    => CopySound'
<1> SUFFICES ASSUME TypeOK, TypeOK', Locks, WalBounds, PageBounds, Writing, Listing, Copies,
                    Redoing, MemoryHasChanges, Covered, CopySound, [Next]_vars,
                    NEW r \in Changes'
             PROVE  /\ copyOf'[r.buf] # NoCopy /\ ~touched'[r.buf]
                          => diskLsn'[r.buf] > r.start \/ InCopy(r)'
                    /\ copyOf'[r.buf] # NoCopy /\ diskLsn'[r.buf] > r.start =>
                          \/ cLsn'[copyOf'[r.buf]] > r.start
                          \/ \E p \in Procs : pb'[p] = r.buf /\ pc'[p] = "ffree"
                    /\ \A p \in Procs :
                          pb'[p] = r.buf /\ pc'[p] \in {"ffree", "freset"}
                          => diskLsn'[r.buf] > r.start
    BY DEF CopySound, HasCopy, OnDisk, AtBuf
<1>0. BufType /\ BufType' /\ ProcType /\ diskLsn \in [Buffers -> Lsn]
    BY TypeParts DEF TypeOK
<1>a. r.buf \in Buffers /\ r.start \in Nat
    BY DEF Changes, TypeOK, Record, Lsn
<1>1. CASE Crash
    BY <1>0, <1>a, <1>1 DEF Crash
<1>2. ASSUME ~Crash, NEW p \in Procs, XLogInsert(p), r.start = insertLsn, r.buf = pb[p]
      PROVE  /\ copyOf'[r.buf] # NoCopy => touched'[r.buf]
             /\ ~(diskLsn'[r.buf] > r.start)
             /\ \A q \in Procs : ~(pb'[q] = r.buf /\ pc'[q] \in {"ffree", "freset"})
    <2>1. UNCHANGED <<copyOf, touched, diskLsn, pb>> /\ pc[p] = "log" /\ pc'[p] = "setlsn"
        BY <1>0, <1>2 DEF XLogInsert, bufVars, StepHolding, Goto, ProcType
    <2>2. copyOf[r.buf] # NoCopy => touched[r.buf]
        BY <1>2, <2>1 DEF Listing, HasCopy
    <2>3. ~(diskLsn[r.buf] > r.start)
        <3>1. diskLsn[r.buf] <= walFlushed /\ walFlushed <= insertLsn
            BY <1>a DEF PageBounds, WalBounds
        <3>2. diskLsn[r.buf] \in Nat /\ walFlushed \in Nat /\ insertLsn \in Nat
            BY <1>a DEF TypeOK, Lsn
        <3> QED
            BY <1>2, <3>1, <3>2, SMT
    <2>4. ASSUME NEW q \in Procs, pb'[q] = r.buf, pc'[q] \in {"ffree", "freset"}
          PROVE  FALSE
        <3>1. q # p /\ pc'[q] = pc[q]
            BY <1>0, <1>2, <2>1, <2>4 DEF XLogInsert, StepHolding, Goto, ProcType
        <3>2. pc[q] \in SharePcs /\ pb[q] = pb[p]
            BY <1>2, <2>1, <2>4, <3>1 DEF SharePcs, IoPcs, FlushIoPcs
        <3> QED
            BY <2>1, <3>1, <3>2 DEF Locks, ExclPcs
    <2> QED
        BY <2>1, <2>2, <2>3, <2>4
<1>3. ASSUME ~Crash, RedoRecord, r \in wal, r.start = replayLsn
      PROVE  /\ copyOf'[r.buf] = NoCopy
             /\ \A q \in Procs : ~(pb'[q] = r.buf /\ pc'[q] \in {"ffree", "freset"})
    <2>1. copyOf'[r.buf] = NoCopy /\ pb' = pb /\ pc' = pc
        BY <1>3, <1>a DEF RedoRecord, Redoing, HasCopy, procVars
    <2>2. ~ShareLocked(r.buf)
        BY <1>3 DEF RedoRecord, WalBounds
    <2> QED
        BY <2>1, <2>2 DEF ShareLocked, AtBuf, SharePcs, IoPcs, FlushIoPcs
<1>4. ASSUME ~Crash, r \in Changes
      PROVE  copyOf'[r.buf] # NoCopy /\ ~touched'[r.buf]
             => diskLsn'[r.buf] > r.start \/ InCopy(r)'
    <2>1. CASE OnDisk(r)
        BY <1>4, <2>1, DiskKeepsChange
    <2>2. CASE InCopy(r)
        BY <1>4, <2>2, CopyKeepsChange
    <2>3. ASSUME ~OnDisk(r), ~InCopy(r), copyOf'[r.buf] # NoCopy, ~touched'[r.buf]
          PROVE  InCopy(r)'
        <3>1. ~KeepsCopy(r.buf)
            BY <1>4, <2>3 DEF CopySound, KeepsCopy, HasCopy
        <3>2. PICK p \in Procs : pb[p] = r.buf /\ NewCopy(p, r.buf)
            BY <1>4, <1>a, <2>3, <3>1, CopyMoves DEF CopyMove
        <3>3. pageLsn[r.buf] > r.start
            BY <1>4, <3>2, SharedHasChanges DEF NewCopy, SharePcs
        <3>4. oldestLsn[r.buf] <= r.start
            BY <1>4, <2>3 DEF Covered, Listed
        <3> QED
            BY <2>3, <3>2, <3>3, <3>4 DEF NewCopy, InCopy, HasCopy
    <2> QED
        BY <2>1, <2>2, <2>3
<1>5. ASSUME ~Crash, r \in Changes, copyOf'[r.buf] # NoCopy, diskLsn'[r.buf] > r.start
      PROVE  \/ cLsn'[copyOf'[r.buf]] > r.start
             \/ \E p \in Procs : pb'[p] = r.buf /\ pc'[p] = "ffree"
    <2>1. ASSUME KeepsCopy(r.buf), diskLsn'[r.buf] = diskLsn[r.buf]
          PROVE  \/ cLsn'[copyOf'[r.buf]] > r.start
                 \/ \E p \in Procs : pb'[p] = r.buf /\ pc'[p] = "ffree"
        <3>1. HasCopy(r.buf) /\ OnDisk(r)
            BY <1>5, <2>1 DEF KeepsCopy, HasCopy, OnDisk
        <3>2. ASSUME NEW p \in Procs, AtBuf(p, r.buf, {"ffree"})
              PROVE  pb'[p] = r.buf /\ pc'[p] = "ffree"
            <4>1. pc[p] = "ffree" /\ pb[p] = r.buf
                BY <3>2 DEF AtBuf
            <4>2. ~FlushFreeCopy(p)
                BY <1>0, <1>5, <1>a, <4>1 DEF FlushFreeCopy, FreeCopyBuffer, BufType
            <4>3. pc'[p] = "ffree"
                BY <1>0, <1>5, <4>1, <4>2, FreeStays
            <4> QED
                BY <1>0, <1>5, <4>1, <4>3, Stay DEF CalPcs
        <3>3. CASE cLsn[copyOf[r.buf]] > r.start
            BY <2>1, <3>1, <3>3 DEF KeepsCopy
        <3> QED
            BY <1>5, <3>1, <3>2, <3>3 DEF CopySound
    <2>2. ASSUME NEW p \in Procs, pb[p] = r.buf, FlushWrite(p)
          PROVE  pb'[p] = r.buf /\ pc'[p] = "ffree"
        BY <1>0, <2>2 DEF FlushWrite, Step, Goto, ProcType
    <2>3. ASSUME NEW p \in Procs, pb[p] = r.buf, CopyFlushWrite(p)
          PROVE  cLsn'[copyOf'[r.buf]] > r.start
        BY <1>0, <1>5, <1>a, <2>3 DEF CopyFlushWrite, bufVars, copyVars
    <2>4. ASSUME NEW p \in Procs, pb[p] = r.buf, NewCopy(p, r.buf)
          PROVE  cLsn'[copyOf'[r.buf]] > r.start
        BY <1>5, <2>4, SharedHasChanges DEF NewCopy, SharePcs
    <2> QED
        BY <1>5, <1>a, <2>1, <2>2, <2>3, <2>4, CopyMoves DEF CopyMove
<1>6. ASSUME ~Crash, r \in Changes, NEW q \in Procs, pb'[q] = r.buf,
             pc'[q] \in {"ffree", "freset"}
      PROVE  diskLsn'[r.buf] > r.start
    <2>1. CASE pc'[q] = pc[q]
        <3>1. AtBuf(q, r.buf, {"ffree", "freset"})
            BY <1>0, <1>6, <2>1, Stay DEF CalPcs, AtBuf
        <3> QED
            BY <1>6, <3>1, DiskKeepsChange DEF CopySound
    <2>2. CASE pc'[q] # pc[q]
        <3>0. IoMove(q)
            BY <1>0, <1>6, <2>2, IoMoves DEF IoPcs, FlushIoPcs
        <3>1. pb[q] = r.buf
            BY <1>6, <3>0 DEF IoMove
        <3>2. FlushWrite(q) \/ FlushFreeCopy(q)
            BY <1>6, <3>0 DEF IoMove
        <3>3. CASE FlushWrite(q)
            <4>1. pageLsn[r.buf] > r.start
                BY <1>6, <3>1, <3>3, SharedHasChanges DEF FlushWrite, SharePcs, IoPcs,
                   FlushIoPcs
            <4> QED
                BY <1>0, <1>a, <3>1, <3>3, <4>1 DEF FlushWrite
        <3>4. CASE FlushFreeCopy(q)
            BY <1>6, <3>1, <3>4, DiskKeepsChange DEF CopySound, AtBuf, FlushFreeCopy
        <3> QED
            BY <3>2, <3>3, <3>4
    <2> QED
        BY <2>1, <2>2
<1>7. CASE ~Crash /\ r \in Changes
    BY <1>4, <1>5, <1>6, <1>7
<1> QED
    BY <1>1, <1>2, <1>3, <1>7, NewChanges

\* The steps of a process to a place where it computes the consistent LSN.
LEMMA CalMoves ==
    ASSUME ProcType, [Next]_vars, ~Crash, NEW q \in Procs, pc'[q] \in CalPcs
    PROVE  \/ CalFlushLists(q) \/ CalCopyBuffers(q)
           \/ pc'[q] = pc[q] /\ plsn'[q] = plsn[q] /\ pscan'[q] = pscan[q]
BY Moves DEF Unmoved, Edge, UpdateMove, HintMove, FlushMove, CopyIoMove, CalMove,
   CalPcs

\* The bound of a running calculation stays sound while others work.
LEMMA CalculationInductive ==
    TypeOK /\ TypeOK' /\ Locks /\ WalBounds /\ HeldBounds /\ Writing /\ Copies /\ Redoing
    /\ MemoryHasChanges /\ Covered /\ CopySound /\ CalculationSound /\ [Next]_vars
    => CalculationSound'
<1> SUFFICES ASSUME TypeOK, TypeOK', Locks, WalBounds, HeldBounds, Writing, Copies, Redoing,
                    MemoryHasChanges, Covered, CopySound, CalculationSound, [Next]_vars,
                    NEW p \in Procs, NEW r \in Changes', pc'[p] \in CalPcs,
                    r.start < plsn'[p]
             PROVE  \/ diskLsn'[r.buf] > r.start
                    \/ /\ pc'[p] = "calcopy" /\ InCopy(r)'
                       /\ pscan'[p] <= copyOf'[r.buf]
    BY DEF CalculationSound, OnDisk
<1>0. BufType /\ CopyType /\ ProcType
    BY TypeParts
<1>a. r.buf \in Buffers /\ r.start \in Nat
    BY DEF Changes, TypeOK, Record, Lsn
<1>b. plsn[p] \in Nat /\ plsn'[p] \in Nat /\ pscan[p] \in Nat
    BY DEF TypeOK, Lsn
<1>1. ~Crash
    BY DEF Crash, CalPcs
<1>2. CASE CalFlushLists(p) \/ CalCopyBuffers(p)
    <2>1. UNCHANGED <<walVars, bufVars, copyVars, diskLsn, recVars>>
        BY <1>2 DEF CalFlushLists, CalCopyBuffers
    <2>2. r \in Changes
        BY <2>1 DEF Changes, walVars, recVars
    <2>3. OnDisk(r) => diskLsn'[r.buf] > r.start
        BY <2>1 DEF OnDisk
    <2>4. InCopy(r) => InCopy(r)' /\ copyOf' = copyOf
        BY <2>1 DEF InCopy, HasCopy, bufVars, copyVars
    <2>5. InCopy(r) => /\ copyOf[r.buf] \in CopyBuffers /\ copyOf[r.buf] \in Nat
                       /\ 1 <= copyOf[r.buf] /\ copyOf[r.buf] <= NCopy
                       /\ cOldest[copyOf[r.buf]] \in Nat
                       /\ cOldest[copyOf[r.buf]] # Invalid
                       /\ cOldest[copyOf[r.buf]] <= r.start
                       /\ r.buf \in InFlushList
        BY <1>0, <1>a, SMTT(20) DEF InCopy, HasCopy, BufType, CopyType, CopyBuffers, Copies,
           InFlushList, Lsn
    <2>6. CASE CalFlushLists(p)
        <3>1. ~Listed(r)
            <4>1. SUFFICES ASSUME Listed(r) PROVE FALSE
                OBVIOUS
            <4>2. r.buf \in InFlushList
                BY <1>a, <4>1 DEF Listed, InFlushList
            <4>3. PICK b \in InFlushList : /\ oldestLsn[b] <= oldestLsn[r.buf]
                                           /\ plsn'[p] = oldestLsn[b]
                BY <1>0, <2>6, <4>2 DEF CalFlushLists, Hold, ProcType
            <4>4. oldestLsn[b] \in Nat /\ oldestLsn[r.buf] \in Nat
                BY <1>0, <1>a, <4>3 DEF BufType, InFlushList, Lsn
            <4> QED
                BY <1>a, <4>1, <4>3, <4>4, SMT DEF Listed
        <3>2. CASE InCopy(r)
            <4>1. pc'[p] = "calcopy" /\ pscan'[p] = 1
                BY <1>0, <2>5, <2>6, <3>2 DEF CalFlushLists, Goto, ProcType
            <4> QED
                BY <2>4, <2>5, <3>2, <4>1
        <3> QED
            BY <2>2, <2>3, <3>1, <3>2 DEF Covered
    <2>7. CASE CalCopyBuffers(p)
        <3>0. pc[p] = "calcopy" /\ 1 <= pscan[p]
            BY <2>7 DEF CalCopyBuffers, HeldBounds
        <3>1. plsn'[p] <= plsn[p]
            BY <1>0, <1>b, <2>7, SMTT(20) DEF CalCopyBuffers, Hold, CopyType, ProcType, Lsn
        <3>2. OnDisk(r) \/ (InCopy(r) /\ pscan[p] <= copyOf[r.buf])
            BY <1>a, <1>b, <2>2, <3>0, <3>1, SMTT(20) DEF CalculationSound, CalPcs
        <3>3. ASSUME InCopy(r), pscan[p] <= copyOf[r.buf]
              PROVE  pc'[p] = "calcopy" /\ pscan'[p] <= copyOf'[r.buf]
            <4>1. pscan[p] \in CopyBuffers
                BY <1>b, <2>5, <3>0, <3>3, ConstantsAssumption, SMT DEF CopyBuffers
            <4>2. /\ pc' = pc /\ pscan'[p] = pscan[p] + 1
                  /\ plsn'[p] = IF /\ cOldest[pscan[p]] # Invalid
                                   /\ cOldest[pscan[p]] < plsn[p]
                                THEN cOldest[pscan[p]] ELSE plsn[p]
                BY <1>0, <2>7, <4>1 DEF CalCopyBuffers, Hold, ProcType
            <4>3. pscan[p] # copyOf[r.buf]
                BY <1>a, <1>b, <2>5, <3>3, <4>2, SMT
            <4>4. copyOf[r.buf] \in Nat /\ copyOf' = copyOf
                BY <2>4, <2>5, <3>3
            <4>5. pscan'[p] <= copyOf'[r.buf]
                BY <1>b, <3>3, <4>2, <4>3, <4>4, SMT
            <4> QED
                BY <3>0, <4>2, <4>5
        <3> QED
            BY <2>3, <2>4, <3>2, <3>3
    <2> QED
        BY <1>2, <2>6, <2>7
<1>3. CASE pc'[p] = pc[p] /\ plsn'[p] = plsn[p] /\ pscan'[p] = pscan[p]
    <2>1. ASSUME r \in Changes
          PROVE  \/ diskLsn'[r.buf] > r.start
                 \/ /\ pc'[p] = "calcopy" /\ InCopy(r)'
                    /\ pscan'[p] <= copyOf'[r.buf]
        <3>1. \/ OnDisk(r)
              \/ pc[p] = "calcopy" /\ InCopy(r) /\ pscan[p] <= copyOf[r.buf]
            BY <1>3, <2>1 DEF CalculationSound
        <3>2. CASE OnDisk(r)
            BY <2>1, <3>2, DiskKeepsChange
        <3>3. CASE pc[p] = "calcopy" /\ InCopy(r) /\ pscan[p] <= copyOf[r.buf]
            BY <1>1, <1>3, <2>1, <3>3, CopyKeepsChange
        <3> QED
            BY <3>1, <3>2, <3>3
    <2>2. r.start # insertLsn
        <3>1. plsn[p] <= insertLsn /\ insertLsn \in Nat
            BY <1>3 DEF HeldBounds, HoldingPcs, TypeOK, Lsn
        <3> QED
            BY <1>3, <1>a, <1>b, <3>1, SMT
    <2>3. ~(RedoRecord /\ r.start = replayLsn)
        <3>1. RedoRecord => plsn[p] <= replayLsn /\ replayLsn \in Nat
            BY <1>3 DEF Redoing, RedoRecord, TypeOK, Lsn
        <3> QED
            BY <1>3, <1>a, <1>b, <3>1, SMT
    <2> QED
        BY <1>1, <2>1, <2>2, <2>3, NewChanges
<1> QED
    BY <1>0, <1>1, <1>2, <1>3, CalMoves

\* A checkpoint ends only when the consistent LSN has passed its redo point.
LEMMA RedoPointInductive ==
    TypeOK /\ Locks /\ WalBounds /\ Writing /\ Redoing /\ MemoryHasChanges
    /\ CopySound /\ RedoPointSafe /\ ConsistentLsnSafe /\ [Next]_vars => RedoPointSafe'
<1> SUFFICES ASSUME TypeOK, Locks, WalBounds, Writing, Redoing, MemoryHasChanges,
                    CopySound, RedoPointSafe, ConsistentLsnSafe, [Next]_vars,
                    NEW r \in wal', ~r.hint, r.start < ckptRedo'
             PROVE  diskLsn'[r.buf] > r.start
    BY DEF RedoPointSafe
<1>0. /\ insertLsn \in Nat /\ ckptRedo \in Nat /\ redoRecPtr \in Nat /\ replayLsn \in Nat
      /\ consistentLsn \in Nat /\ walFlushed \in Nat /\ mode \in {"run", "redo"}
      /\ \A s \in wal : s.start \in Nat
    BY DEF TypeOK, Lsn, Record
<1>1. CASE Crash
    BY <1>1 DEF Crash, RedoPointSafe
<1>2. CASE CkptEnd
    <2>1. r \in wal /\ ckptRedo' = redoRecPtr /\ redoRecPtr <= consistentLsn
          /\ diskLsn' = diskLsn
        BY <1>2 DEF CkptEnd
    <2> QED
        BY <1>0, <2>1, SMT DEF ConsistentLsnSafe
<1>3. CASE ~Crash /\ ~CkptEnd
    <2>1. ckptRedo' = ckptRedo
        BY <1>3, CkptSteps DEF ckptVars, HintDirty, CkptBegin
    <2>2. ASSUME r \in wal PROVE diskLsn'[r.buf] > r.start
        <3>1. mode = "redo" => ckptRedo <= replayLsn
            BY DEF Redoing
        <3>2. r \in Changes
            <4>1. mode = "run" \/ r.start < replayLsn
                BY <1>0, <2>1, <2>2, <3>1, SMT
            <4> QED
                BY <2>2, <4>1 DEF Changes
        <3> QED
            BY <2>1, <2>2, <3>2, DiskKeepsChange DEF RedoPointSafe, OnDisk
    <2>3. r \in wal \/ r.start = insertLsn
        BY <1>3, NewRecords
    <2> QED
        BY <1>0, <2>1, <2>2, <2>3, SMT DEF WalBounds
<1> QED
    BY <1>1, <1>2, <1>3

\* Only a finished calculation raises the consistent LSN.
LEMMA ConsistentLsnInductive ==
    TypeOK /\ Locks /\ WalBounds /\ Writing /\ Redoing /\ MemoryHasChanges
    /\ CopySound /\ CalculationSound /\ ConsistentLsnSafe /\ [Next]_vars
    => ConsistentLsnSafe'
<1> SUFFICES ASSUME TypeOK, Locks, WalBounds, Writing, Redoing, MemoryHasChanges,
                    CopySound, CalculationSound, ConsistentLsnSafe, [Next]_vars,
                    NEW r \in wal', ~r.hint, r.start < consistentLsn'
             PROVE  diskLsn'[r.buf] > r.start
    BY DEF ConsistentLsnSafe
<1>0. /\ insertLsn \in Nat /\ consistentLsn \in Nat /\ mode \in {"run", "redo"}
      /\ \A s \in wal : s.start \in Nat
    BY DEF TypeOK, Lsn, Record
<1>1. CASE Crash
    <2>1. r.start \in Nat /\ consistentLsn' = 0
        BY <1>0, <1>1 DEF Crash, Invalid
    <2> QED
        BY <2>1, SMT
<1>2. ASSUME NEW p \in Procs, SetConsistentLsn(p), mode = "run"
      PROVE  diskLsn'[r.buf] > r.start
    <2>1. r \in wal /\ consistentLsn' = MaxOf(consistentLsn, plsn[p]) /\ diskLsn' = diskLsn
        BY <1>2 DEF SetConsistentLsn, walVars
    <2>2. r \in Changes
        BY <1>2, <2>1 DEF Changes
    <2>3. r.start < consistentLsn \/ r.start < plsn[p]
        BY <2>1 DEF MaxOf
    <2>4. r.start < plsn[p] => OnDisk(r)
        BY <1>2, <2>2 DEF CalculationSound, SetConsistentLsn, CalPcs
    <2> QED
        BY <2>1, <2>3, <2>4 DEF ConsistentLsnSafe, OnDisk
<1>3. CASE ~Crash /\ consistentLsn' = consistentLsn
    <2>1. ASSUME r \in wal PROVE diskLsn'[r.buf] > r.start
        <3>1. mode = "redo" => consistentLsn = 0
            BY DEF Redoing, Invalid
        <3>2. r \in Changes
            <4>1. mode = "run"
                BY <1>0, <1>3, <2>1, <3>1, SMT
            <4> QED
                BY <2>1, <4>1 DEF Changes
        <3> QED
            BY <1>3, <2>1, <3>2, DiskKeepsChange DEF ConsistentLsnSafe, OnDisk
    <2>2. r \in wal \/ r.start = insertLsn
        BY <1>3, NewRecords
    <2> QED
        BY <1>0, <1>3, <2>1, <2>2, SMT DEF WalBounds
<1>4. \/ consistentLsn' = consistentLsn \/ Crash
      \/ \E p \in Procs : SetConsistentLsn(p) /\ mode = "run"
    BY RecSteps DEF SetConsistentLsn, Replicate, ReplicaReply, DropSlot, Recover,
       RedoRecord, EndRecovery
<1> QED
    BY <1>1, <1>2, <1>3, <1>4

-----------------------------------------------------------------------------
(* The inductive invariant and what follows from it. *)

IInv ==
    /\ WInv /\ Listing /\ Redoing /\ LsnToSet /\ MemoryHasChanges /\ Covered
    /\ CopySound /\ CalculationSound /\ RedoPointSafe /\ ConsistentLsnSafe

\* The program starts in the invariant.
LEMMA IInvInit == Init => IInv
<1> SUFFICES ASSUME Init PROVE IInv
    OBVIOUS
<1>1. WInv
    BY WInvInit
<1>2. Changes = {} /\ wal = {}
    BY DEF Init, Changes
<1>3. LsnToSet /\ MemoryHasChanges /\ Covered /\ CopySound /\ CalculationSound
    BY <1>2 DEF LsnToSet, MemoryHasChanges, Covered, CopySound, CalculationSound
<1>4. RedoPointSafe /\ ConsistentLsnSafe
    BY <1>2 DEF RedoPointSafe, ConsistentLsnSafe
<1>5. Listing /\ Redoing
    BY DEF Init, Listing, Redoing
<1> QED
    BY <1>1, <1>3, <1>4, <1>5 DEF IInv

\* Every step keeps it.
LEMMA IInvInductive == IInv /\ [Next]_vars => IInv'
<1> SUFFICES ASSUME IInv, [Next]_vars PROVE IInv'
    OBVIOUS
<1>1. /\ TypeOK /\ Locks /\ WalBounds /\ PageBounds
      /\ HeldBounds /\ Writing /\ Copies
    BY DEF IInv, WInv
<1>2. /\ Listing /\ Redoing /\ LsnToSet /\ MemoryHasChanges /\ Covered
      /\ CopySound /\ CalculationSound /\ RedoPointSafe /\ ConsistentLsnSafe
    BY DEF IInv
<1>3. WInv' /\ TypeOK' /\ WalBounds'
    BY WInvInductive DEF IInv, WInv
<1>4. Listing' /\ Redoing'
    BY <1>1, <1>2, <1>3, ListingInductive, RedoingInductive
<1>5. LsnToSet' /\ MemoryHasChanges'
    BY <1>1, <1>2, <1>3, LsnToSetInductive, MemoryInductive
<1>6. Covered' /\ CopySound'
    BY <1>1, <1>2, <1>3, CoveredInductive, CopySoundInductive
<1>7. CalculationSound' /\ RedoPointSafe' /\ ConsistentLsnSafe'
    BY <1>1, <1>2, <1>3, CalculationInductive, RedoPointInductive, ConsistentLsnInductive
<1> QED
    BY <1>3, <1>4, <1>5, <1>6, <1>7 DEF IInv

\* So it always holds.
LEMMA IInvAlways == Spec => []IInv
<1>1. Init => IInv
    BY IInvInit
<1>2. IInv /\ [Next]_vars => IInv'
    BY IInvInductive
<1> QED
    BY <1>1, <1>2, PTL DEF Spec

\* polar_cal_cur_consistent_lsn: whatever is logged before the consistent LSN
\* is on disk, however the scan of the lists and the copies interleaves with
\* updates, hints, flushes, copies and crashes.
THEOREM ConsistentLsnIsSafe == Spec => []ConsistentLsnSafe
<1>1. IInv => ConsistentLsnSafe
    BY DEF IInv
<1> QED
    BY <1>1, IInvAlways, PTL

\* CreateCheckPoint: whatever is logged before the redo point in the control
\* file is on disk.
THEOREM RedoPointIsSafe == Spec => []RedoPointSafe
<1>1. IInv => RedoPointSafe
    BY DEF IInv
<1> QED
    BY <1>1, IInvAlways, PTL

\* Crash recovery from that redo point gives every page all its changes.
THEOREM NothingLost == Spec => []NoLostUpdate
<1>1. IInv => NoLostUpdate
    <2> SUFFICES ASSUME IInv, mode = "run", NEW r \in wal, ~r.hint
                 PROVE  \/ pageLsn[r.buf] > r.start
                        \/ \E p \in Procs : /\ AtBuf(p, r.buf, {"setlsn"})
                                            /\ plsn[p] = r.start + 1
        BY DEF NoLostUpdate
    <2>1. r \in Changes
        BY DEF Changes
    <2> QED
        BY <2>1 DEF IInv, MemoryHasChanges
<1> QED
    BY <1>1, IInvAlways, PTL

\* Neither FlushBuffer nor polar_flush_copy_buffer writes an older page over a
\* newer one.
THEOREM DiskNeverLoses == Spec => DiskKeepsChanges
<1> DEFINE A == \A r \in wal :
                    ~r.hint /\ diskLsn[r.buf] > r.start
                    /\ (mode = "run" \/ r.start < replayLsn)
                    => diskLsn'[r.buf] > r.start
<1>1. IInv /\ [Next]_vars => [A]_vars
    <2> SUFFICES ASSUME IInv, [Next]_vars, NEW r \in wal, ~r.hint,
                        diskLsn[r.buf] > r.start,
                        mode = "run" \/ r.start < replayLsn
                 PROVE  diskLsn'[r.buf] > r.start
        OBVIOUS
    <2>1. r \in Changes /\ OnDisk(r)
        BY DEF Changes, OnDisk
    <2> QED
        BY <2>1, DiskKeepsChange DEF IInv, WInv
<1> QED
    BY <1>1, IInvAlways, PTL DEF Spec, DiskKeepsChanges

-----------------------------------------------------------------------------
(* The order of the LSNs. *)

\* No buffer of the flush list, and none that is about to be put there, is
\* older than l; nor is one of the copies in cs.
Floor(l) ==
    /\ \A b \in Buffers : oldestLsn[b] # Invalid => l <= oldestLsn[b]
    /\ \A p \in Procs : pc[p] \in ListPcs => l <= plsn[p]
CopyFloor(l, cs) == \A c \in cs : cOldest[c] # Invalid => l <= cOldest[c]

\* A copy in use belongs to a buffer.
Owned == \A c \in CopyBuffers : cOldest[c] # Invalid => \E b \in Buffers : copyOf[b] = c

\* The consistent LSN and the redo point are floors, in this order.
Order ==
    /\ Floor(consistentLsn) /\ CopyFloor(consistentLsn, CopyBuffers)
    /\ Floor(ckptRedo) /\ CopyFloor(ckptRedo, CopyBuffers)
    /\ consistentLsn # Invalid => ckptRedo <= consistentLsn
    /\ ckptRedo <= redoRecPtr

\* What a calculation holds is a floor of all it has read, however much it has
\* changed since, and not below the LSNs that it may replace.
Calc ==
    \A p \in Procs :
        pc[p] \in CalPcs =>
            /\ Floor(plsn[p])
            /\ CopyFloor(plsn[p], {c \in CopyBuffers : pc[p] = "calset" \/ c < pscan[p]})
            /\ pcur[p] <= plsn[p] /\ pcur[p] <= consistentLsn
            /\ ckptRedo <= plsn[p] \/ consistentLsn # Invalid

\* A buffer gets the oldest LSN that its process holds under the list lock or,
\* from redo, the start of the record.
LEMMA OldestFrom ==
    ASSUME TypeOK, Locks, Copies, [Next]_vars, ~Crash, NEW b \in Buffers
    PROVE  \/ oldestLsn'[b] = oldestLsn[b] \/ oldestLsn'[b] = Invalid
           \/ mode = "redo" /\ oldestLsn'[b] = replayLsn
           \/ \E p \in Procs : pc[p] \in ListPcs /\ oldestLsn'[b] = plsn[p]
<1>0. BufType
    BY TypeParts
<1>1. CASE UNCHANGED <<bufVars, copyVars, diskLsn>>
    BY <1>1 DEF bufVars
<1>2. ASSUME NEW p \in Procs, PageStep(p)
      PROVE  \/ oldestLsn'[b] = oldestLsn[b] \/ oldestLsn'[b] = Invalid
             \/ pc[p] \in ListPcs /\ oldestLsn'[b] = plsn[p]
    <2>1. CASE PutBuffer(p) \/ AdjustPosition(p) \/ HintPut(p)
        BY <1>0, <2>1 DEF PutBuffer, AdjustPosition, HintPut, ListPcs, BufType
    <2>2. CASE FlushReset(p)
        BY <1>0, <2>2 DEF FlushReset, BufType
    <2>3. CASE oldestLsn' = oldestLsn
        BY <2>3
    <2> QED
        BY <1>2, <2>1, <2>2, <2>3 DEF PageStep, MarkBufferDirty, PageSetLSN, HintDirty,
           FlushStart, FlushWrite, FlushFreeCopy, FlushEnd, CopyFlushWrite, CopyFlushEnd,
           CopyBuffer, bufVars
<1>3. CASE RedoRecord
    BY <1>0, <1>3 DEF RedoRecord, BufType
<1> QED
    BY <1>1, <1>2, <1>3, PageSteps

\* The LSN that a process takes under the list lock is the insert position.
LEMMA ListFrom ==
    ASSUME ProcType, [Next]_vars, ~Crash, NEW q \in Procs, pc'[q] \in ListPcs
    PROVE  plsn'[q] = insertLsn \/ (pc[q] \in ListPcs /\ plsn'[q] = plsn[q])
<1>1. CASE pc'[q] = pc[q]
    BY <1>1, Stay DEF ListPcs, CalPcs
<1>2. CASE pc'[q] # pc[q]
    <2>1. ListMove(q)
        BY <1>2, ListMoves DEF ListPcs
    <2> QED
        BY <2>1 DEF ListMove, ListPcs, MarkBufferDirty, HintList, PutBuffer, AdjustPosition,
           Step, StepHolding, Goto, Hold, ProcType
<1> QED
    BY <1>1, <1>2

\* A floor stays one while the program runs: new oldest LSNs are at the end of
\* the WAL, or of what is replayed.
LEMMA FloorStays ==
    ASSUME TypeOK, TypeOK', Locks, Copies, [Next]_vars, ~Crash, NEW l \in Nat,
           l <= insertLsn, mode = "redo" => l <= replayLsn, Floor(l)
    PROVE  /\ \A b \in Buffers : oldestLsn'[b] # Invalid => l <= oldestLsn'[b]
           /\ \A p \in Procs : pc'[p] \in ListPcs => l <= plsn'[p]
<1>1. ASSUME NEW b \in Buffers, oldestLsn'[b] # Invalid PROVE l <= oldestLsn'[b]
    BY <1>1, OldestFrom DEF Floor
<1>2. ASSUME NEW p \in Procs, pc'[p] \in ListPcs PROVE l <= plsn'[p]
    BY <1>2, ListFrom, TypeParts DEF Floor
<1> QED
    BY <1>1, <1>2

\* So does a floor of copies, for a copy takes the oldest LSN of its page.
LEMMA CopyFloorStays ==
    ASSUME TypeOK, Locks, [Next]_vars, ~Crash, NEW l \in Nat, Floor(l),
           NEW cs \in SUBSET CopyBuffers, CopyFloor(l, cs)
    PROVE  \A c \in cs : cOldest'[c] # Invalid => l <= cOldest'[c]
<1>0. BufType /\ CopyType /\ ProcType
    BY TypeParts
<1>1. CASE UNCHANGED copyVars
    BY <1>1 DEF copyVars, CopyFloor
<1>2. ASSUME NEW p \in Procs, FlushFreeCopy(p) \/ CopyFlushEnd(p), NEW c \in cs,
             cOldest'[c] # Invalid
      PROVE  cOldest'[c] = cOldest[c]
    BY <1>0, <1>2 DEF FlushFreeCopy, CopyFlushEnd, FreeCopyBuffer, CopyType
<1>3. ASSUME NEW p \in Procs, CopyBuffer(p), NEW c \in cs, cOldest'[c] # Invalid
      PROVE  l <= cOldest'[c]
    <2>1. pb[p] \in Buffers
        BY <1>3, AtBuffer DEF CopyBuffer, CalPcs
    <2>2. cOldest'[c] = cOldest[c] \/ cOldest'[c] = oldestLsn[pb[p]]
        BY <1>0, <1>3 DEF CopyBuffer, CopyType
    <2> QED
        BY <1>3, <2>1, <2>2 DEF Floor, CopyFloor
<1> QED
    BY <1>1, <1>2, <1>3, CopySteps DEF CopyFloor

\* A copy changes hands only through copy_buffer_alloc and polar_free_copy_buffer,
\* which change the buffer's copy_buffer with it.
LEMMA OwnedInductive == TypeOK /\ Locks /\ Owned /\ [Next]_vars => Owned'
<1> SUFFICES ASSUME TypeOK, Locks, Owned, [Next]_vars, NEW c \in CopyBuffers,
                    cOldest'[c] # Invalid
             PROVE  \E b \in Buffers : copyOf'[b] = c
    BY DEF Owned
<1>0. BufType /\ CopyType /\ ProcType /\ c # NoCopy
    BY TypeParts, ConstantsAssumption, SMT DEF CopyBuffers, NoCopy
<1>1. CASE Crash
    BY <1>1 DEF Crash
<1>2. ASSUME NEW p \in Procs, FlushFreeCopy(p) \/ CopyFlushEnd(p)
      PROVE  \E b \in Buffers : copyOf'[b] = c
    <2>1. CASE copyOf[pb[p]] = NoCopy
        BY <1>2, <2>1 DEF FlushFreeCopy, CopyFlushEnd, FreeCopyBuffer, Owned
    <2>2. CASE copyOf[pb[p]] # NoCopy
        <3>1. /\ copyOf' = [copyOf EXCEPT ![pb[p]] = NoCopy]
              /\ cOldest' = [cOldest EXCEPT ![copyOf[pb[p]]] = Invalid]
            BY <1>2, <2>2 DEF FlushFreeCopy, CopyFlushEnd, FreeCopyBuffer
        <3>2. c # copyOf[pb[p]] /\ cOldest'[c] = cOldest[c]
            BY <1>0, <3>1 DEF CopyType
        <3>3. PICK b \in Buffers : copyOf[b] = c
            BY <3>2 DEF Owned
        <3>4. copyOf'[b] = c
            BY <1>0, <3>1, <3>2, <3>3 DEF BufType
        <3> QED
            BY <3>4
    <2> QED
        BY <2>1, <2>2
<1>3. ASSUME NEW p \in Procs, CopyBuffer(p) PROVE \E b \in Buffers : copyOf'[b] = c
    <2>0. pb[p] \in Buffers
        BY <1>3, AtBuffer DEF CopyBuffer, CalPcs
    <2>1. CASE UNCHANGED <<cOldest, copyOf>>
        BY <2>1 DEF Owned
    <2>2. ASSUME NEW d \in CopyBuffers, copyOf[pb[p]] = NoCopy, c # d,
                 cOldest' = [cOldest EXCEPT ![d] = oldestLsn[pb[p]]],
                 copyOf' = [copyOf EXCEPT ![pb[p]] = d]
          PROVE  \E b \in Buffers : copyOf'[b] = c
        <3>1. cOldest'[c] = cOldest[c]
            BY <1>0, <2>2 DEF CopyType
        <3>2. PICK b \in Buffers : copyOf[b] = c
            BY <3>1 DEF Owned
        <3>3. copyOf'[b] = c
            BY <1>0, <2>2, <3>2 DEF BufType
        <3> QED
            BY <3>3
    <2>3. ASSUME copyOf' = [copyOf EXCEPT ![pb[p]] = c]
          PROVE  \E b \in Buffers : copyOf'[b] = c
        BY <1>0, <2>0, <2>3 DEF BufType
    <2> QED
        BY <1>3, <2>1, <2>2, <2>3 DEF CopyBuffer, CopyIsSatisfied
<1>4. CASE UNCHANGED <<copyVars, copyOf>>
    BY <1>4 DEF copyVars, Owned
<1>5. \/ UNCHANGED <<copyVars, copyOf>> \/ Crash
      \/ \E p \in Procs : FlushFreeCopy(p) \/ CopyFlushEnd(p) \/ CopyBuffer(p)
    BY BufSteps, CopySteps DEF bufVars, copyVars, MarkBufferDirty, PutBuffer,
       AdjustPosition, PageSetLSN, HintPut, HintDirty, FlushStart, FlushReset, FlushEnd,
       RedoRecord
<1> QED
    BY <1>1, <1>2, <1>3, <1>4, <1>5

\* How the consistent LSN and the two redo points move.
LEMMA PointSteps ==
    ASSUME TypeOK, [Next]_vars, ~Crash
    PROVE  \/ UNCHANGED <<consistentLsn, redoRecPtr, ckptRedo>>
           \/ /\ UNCHANGED <<redoRecPtr, ckptRedo>>
              /\ \E p \in Procs : /\ pc[p] = "calset"
                                  /\ consistentLsn' = MaxOf(consistentLsn, plsn[p])
           \/ /\ CkptBegin /\ UNCHANGED <<consistentLsn, ckptRedo>>
              /\ redoRecPtr' = insertLsn \/ (consistentLsn # Invalid /\ redoRecPtr' = consistentLsn)
           \/ /\ CkptEnd /\ UNCHANGED <<consistentLsn, redoRecPtr>>
              /\ ckptRedo' = redoRecPtr /\ redoRecPtr <= consistentLsn
<1>1. ASSUME NEW p \in Procs, SetConsistentLsn(p)
      PROVE  /\ UNCHANGED <<redoRecPtr, ckptRedo>> /\ pc[p] = "calset"
             /\ consistentLsn' \in {consistentLsn, MaxOf(consistentLsn, plsn[p])}
    BY <1>1 DEF SetConsistentLsn, ckptVars
<1>2. CASE Replicate \/ Recover
    BY <1>2 DEF Replicate, ReplicaReply, DropSlot, Recover, RedoRecord, EndRecovery,
       ckptVars
<1>3. CASE CkptBegin
    BY <1>3 DEF CkptBegin
<1>4. CASE CkptEnd
    BY <1>4 DEF CkptEnd
<1>5. ASSUME NEW p \in Procs, HintDirty(p)
      PROVE  UNCHANGED <<consistentLsn, redoRecPtr, ckptRedo>>
    BY <1>5 DEF HintDirty
<1>6. CASE UNCHANGED <<consistentLsn, ckptVars>>
    BY <1>6 DEF ckptVars
<1> QED
    BY <1>1, <1>2, <1>3, <1>4, <1>5, <1>6, RecSteps, CkptSteps

\* Calculations only raise the consistent LSN, and a checkpoint ends only when
\* it has passed its redo point.
LEMMA OrderInductive ==
    TypeOK /\ TypeOK' /\ Locks /\ WalBounds /\ HeldBounds /\ Copies /\ Redoing /\ Calc
    /\ Order /\ [Next]_vars => Order'
<1> SUFFICES ASSUME TypeOK, TypeOK', Locks, WalBounds, HeldBounds, Copies, Redoing, Calc,
                    Order, [Next]_vars
             PROVE  Order'
    OBVIOUS
<1>0. /\ consistentLsn \in Nat /\ consistentLsn' \in Nat /\ ckptRedo \in Nat
      /\ ckptRedo' \in Nat /\ redoRecPtr \in Nat /\ redoRecPtr' \in Nat
      /\ insertLsn \in Nat /\ walFlushed \in Nat /\ replayLsn \in Nat
      /\ plsn \in [Procs -> Nat] /\ oldestLsn \in [Buffers -> Nat]
      /\ cOldest \in [CopyBuffers -> Nat]
    BY DEF TypeOK, Lsn
<1>1. CASE Crash
    <2>1. /\ consistentLsn' = 0 /\ UNCHANGED ckptRedo /\ redoRecPtr' = ckptRedo
          /\ \A b \in Buffers : oldestLsn'[b] = Invalid
          /\ \A c \in CopyBuffers : cOldest'[c] = Invalid
          /\ \A p \in Procs : pc'[p] = "idle"
        BY <1>1 DEF Crash, Invalid
    <2>2. "idle" \notin ListPcs
        BY DEF ListPcs
    <2> QED
        BY <1>0, <2>1, <2>2, SMT DEF Order, Floor, CopyFloor, Invalid
<1>2. CASE ~Crash
    <2>1. ASSUME NEW l \in Nat, l <= insertLsn, mode = "redo" => l <= replayLsn,
                 Floor(l), CopyFloor(l, CopyBuffers)
          PROVE  /\ \A b \in Buffers : oldestLsn'[b] # Invalid => l <= oldestLsn'[b]
                 /\ \A p \in Procs : pc'[p] \in ListPcs => l <= plsn'[p]
                 /\ \A c \in CopyBuffers : cOldest'[c] # Invalid => l <= cOldest'[c]
        <3>1. /\ \A b \in Buffers : oldestLsn'[b] # Invalid => l <= oldestLsn'[b]
              /\ \A p \in Procs : pc'[p] \in ListPcs => l <= plsn'[p]
            BY <1>2, <2>1, FloorStays
        <3>2. \A c \in CopyBuffers : cOldest'[c] # Invalid => l <= cOldest'[c]
            BY <1>2, <2>1, CopyFloorStays
        <3> QED
            BY <3>1, <3>2
    <2>2. ASSUME NEW l \in Nat, NEW m \in Nat, m <= l, Floor(l), CopyFloor(l, CopyBuffers)
          PROVE  Floor(m) /\ CopyFloor(m, CopyBuffers)
        BY <1>0, <2>2, SMT DEF Floor, CopyFloor
    <2>3. PICK v \in Nat : v = consistentLsn'
        BY <1>0
    <2>4. PICK w \in Nat : w = ckptRedo'
        BY <1>0
    <2>5. /\ consistentLsn <= insertLsn /\ ckptRedo <= insertLsn /\ redoRecPtr <= insertLsn
          /\ mode = "redo" => consistentLsn <= replayLsn /\ ckptRedo <= replayLsn /\ ~ckptRunning
        BY <1>0, SMT DEF WalBounds, Redoing, Invalid
    <2>6. ASSUME NEW p \in Procs, pc[p] = "calset"
          PROVE  /\ plsn[p] <= insertLsn /\ (mode = "redo" => plsn[p] <= replayLsn)
                 /\ Floor(plsn[p]) /\ CopyFloor(plsn[p], CopyBuffers)
                 /\ ckptRedo <= plsn[p] \/ consistentLsn # Invalid
        <3>1. pc[p] \in CalPcs /\ {c \in CopyBuffers : pc[p] = "calset" \/ c < pscan[p]} = CopyBuffers
            BY <2>6 DEF CalPcs
        <3>2. plsn[p] <= insertLsn /\ (mode = "redo" => plsn[p] <= replayLsn)
            BY <3>1 DEF HeldBounds, HoldingPcs, Redoing
        <3> QED
            BY <3>1, <3>2 DEF Calc
    <2>7. /\ Floor(consistentLsn) /\ CopyFloor(consistentLsn, CopyBuffers)
          /\ Floor(ckptRedo) /\ CopyFloor(ckptRedo, CopyBuffers)
          /\ consistentLsn # Invalid => ckptRedo <= consistentLsn
          /\ ckptRedo <= redoRecPtr
        BY DEF Order
    <2>8. ASSUME NEW p \in Procs, pc[p] = "calset",
                 consistentLsn' = MaxOf(consistentLsn, plsn[p])
          PROVE  v = consistentLsn \/ (v = plsn[p] /\ consistentLsn <= v)
        BY <1>0, <2>3, <2>8, SMT DEF MaxOf
    <2>9. \/ v = consistentLsn
          \/ \E p \in Procs : pc[p] = "calset" /\ v = plsn[p] /\ consistentLsn <= v
        BY <1>2, <2>3, <2>8, PointSteps
    <2>10. /\ v <= insertLsn /\ (mode = "redo" => v <= replayLsn)
           /\ Floor(v) /\ CopyFloor(v, CopyBuffers)
        BY <2>5, <2>6, <2>7, <2>9
    <2>11. w = ckptRedo \/ (w = redoRecPtr /\ w <= consistentLsn /\ mode = "run")
        BY <1>2, <2>4, <2>5, PointSteps DEF CkptEnd, TypeOK
    <2>12. /\ w <= insertLsn /\ (mode = "redo" => w <= replayLsn)
           /\ Floor(w) /\ CopyFloor(w, CopyBuffers)
        BY <1>0, <2>2, <2>5, <2>7, <2>11
    <2>13. v # Invalid => w <= v
        <3>1. CASE w = ckptRedo
            BY <1>0, <2>6, <2>7, <2>9, <3>1, SMT DEF Invalid
        <3>2. CASE w = redoRecPtr /\ w <= consistentLsn
            BY <1>0, <2>9, <3>2, SMT
        <3> QED
            BY <2>11, <3>1, <3>2
    <2>14. w <= redoRecPtr'
        BY <1>0, <1>2, <2>4, <2>5, <2>7, PointSteps, SMT
    <2>15. /\ \A b \in Buffers : oldestLsn'[b] # Invalid => v <= oldestLsn'[b] /\ w <= oldestLsn'[b]
           /\ \A p \in Procs : pc'[p] \in ListPcs => v <= plsn'[p] /\ w <= plsn'[p]
           /\ \A c \in CopyBuffers : cOldest'[c] # Invalid => v <= cOldest'[c] /\ w <= cOldest'[c]
        BY <2>1, <2>10, <2>12
    <2> QED
        BY <2>3, <2>4, <2>13, <2>14, <2>15 DEF Order, Floor, CopyFloor
<1> QED
    BY <1>1, <1>2

\* What a process that computes remembers of the consistent LSN.
LEMMA CurSteps ==
    ASSUME ProcType, [Next]_vars, ~Crash, NEW q \in Procs, pc'[q] \in CalPcs,
           ~CalFlushLists(q)
    PROVE  pcur'[q] = pcur[q]
<1> USE DEF ProcType, Step, StepHolding, Enter, Done, Goto, Hold
<1>1. ASSUME NEW p \in Procs, CalFlushLists(p) \/ SetConsistentLsn(p)
      PROVE  pcur'[q] = pcur[q]
    <2>1. p # q
        BY <1>1 DEF SetConsistentLsn, CalPcs
    <2> QED
        BY <1>1, <2>1 DEF CalFlushLists, SetConsistentLsn
<1>2. ASSUME NEW p \in Procs, Update(p) PROVE pcur'[q] = pcur[q]
    BY <1>2 DEF Update, LockForUpdate, MarkBufferDirty, PutBuffer, AdjustPosition,
       XLogInsert, PageSetLSN
<1>3. ASSUME NEW p \in Procs, Hint(p) PROVE pcur'[q] = pcur[q]
    BY <1>3 DEF Hint, HintStart, HintSave, HintList, HintPut, HintLog, HintDirty
<1>4. ASSUME NEW p \in Procs, Flush(p) PROVE pcur'[q] = pcur[q]
    BY <1>4 DEF Flush, SyncOneBuffer, GetVictimBuffer, FlushRelationBuffers, SyncLocked, FlushStart, FlushSkip,
       FlushXLog, FlushWrite, FlushFreeCopy, FlushReset, FlushEnd
<1>5. ASSUME NEW p \in Procs, Copy(p) \/ CalCopyBuffers(p) PROVE pcur'[q] = pcur[q]
    BY <1>5 DEF Copy, CopyFlushStart, CopyFlushXLog, CopyFlushWrite, CopyFlushEnd,
       CopyBuffer, CalCopyBuffers
<1>6. CASE UNCHANGED procVars
    BY <1>6 DEF procVars
<1> QED
    BY <1>1, <1>2, <1>3, <1>4, <1>5, <1>6, ProcSteps DEF Calculate

\* What the scan of the flush lists starts with.
LEMMA ListsFloor ==
    ASSUME TypeOK, Locks, WalBounds, Copies, Redoing, Owned, Order,
           NEW p \in Procs, CalFlushLists(p)
    PROVE  /\ Floor(plsn'[p])
           /\ pc'[p] = "calset" => CopyFloor(plsn'[p], CopyBuffers)
           /\ pscan'[p] = 1
           /\ pcur'[p] = consistentLsn /\ consistentLsn <= plsn'[p] /\ ckptRedo <= plsn'[p]
<1>0. BufType /\ CopyType /\ ProcType
    BY TypeParts
<1>a. /\ consistentLsn \in Nat /\ ckptRedo \in Nat /\ insertLsn \in Nat /\ walFlushed \in Nat
      /\ replayLsn \in Nat /\ mode \in {"run", "redo"}
    BY DEF TypeOK, Lsn
<1>1. pscan'[p] = 1 /\ pcur'[p] = consistentLsn
    BY <1>0 DEF CalFlushLists, ProcType
<1>2. \A q \in Procs : pc[q] \notin ListPcs
    BY DEF CalFlushLists, SomeListLocked
<1>3. ASSUME InFlushList = {}, NEW v \in MaxValidLsns, plsn'[p] = v
      PROVE  /\ Floor(plsn'[p])
             /\ CopyFloor(plsn'[p], CopyBuffers)
             /\ consistentLsn <= plsn'[p] /\ ckptRedo <= plsn'[p]
    <2>1. \A b \in Buffers : oldestLsn[b] = Invalid
        BY <1>3 DEF InFlushList
    <2>2. \A c \in CopyBuffers : cOldest[c] = Invalid
        <3>1. SUFFICES ASSUME NEW c \in CopyBuffers, cOldest[c] # Invalid PROVE FALSE
            OBVIOUS
        <3>2. PICK b \in Buffers : copyOf[b] = c
            BY <3>1 DEF Owned
        <3>3. HasCopy(b)
            BY <3>2, ConstantsAssumption, SMT DEF HasCopy, NoCopy, CopyBuffers
        <3> QED
            BY <2>1, <3>3 DEF Copies
    <2>3. consistentLsn <= v /\ ckptRedo <= v
        BY <1>a, <1>3, SMT DEF MaxValidLsns, MaxOf, WalBounds, Redoing, Invalid
    <2> QED
        BY <1>2, <1>3, <2>1, <2>2, <2>3 DEF Floor, CopyFloor
<1>4. ASSUME NEW b \in InFlushList, \A a \in InFlushList : oldestLsn[b] <= oldestLsn[a],
             plsn'[p] = oldestLsn[b]
      PROVE  Floor(plsn'[p]) /\ consistentLsn <= plsn'[p] /\ ckptRedo <= plsn'[p]
    BY <1>2, <1>4 DEF Floor, Order, InFlushList
<1>5. \/ InFlushList = {} /\ \E v \in MaxValidLsns : plsn'[p] = v
      \/ /\ pc'[p] = "calcopy"
         /\ \E b \in InFlushList : /\ \A a \in InFlushList : oldestLsn[b] <= oldestLsn[a]
                                   /\ plsn'[p] = oldestLsn[b]
    BY <1>0 DEF CalFlushLists, ProcType, Goto, Hold
<1> QED
    BY <1>1, <1>3, <1>4, <1>5

\* What a calculation holds stays a floor of what it has read, and of what it
\* has still to read once it has read it.
LEMMA CalcInductive ==
    TypeOK /\ TypeOK' /\ Locks /\ WalBounds /\ HeldBounds /\ HeldBounds' /\ Copies
    /\ Redoing /\ Redoing' /\ Owned /\ Order /\ Calc /\ [Next]_vars => Calc'
<1> SUFFICES ASSUME TypeOK, TypeOK', Locks, WalBounds, HeldBounds, HeldBounds', Copies,
                    Redoing, Redoing', Owned, Order, Calc, [Next]_vars,
                    NEW p \in Procs, pc'[p] \in CalPcs,
                    NEW v \in Nat, v = plsn'[p]
             PROVE  /\ \A b \in Buffers : oldestLsn'[b] # Invalid => v <= oldestLsn'[b]
                    /\ \A q \in Procs : pc'[q] \in ListPcs => v <= plsn'[q]
                    /\ \A c \in CopyBuffers :
                          (pc'[p] = "calset" \/ c < pscan'[p]) /\ cOldest'[c] # Invalid
                          => v <= cOldest'[c]
                    /\ pcur'[p] <= v /\ pcur'[p] <= consistentLsn'
                    /\ ckptRedo' <= v \/ consistentLsn' # Invalid
    BY DEF Calc, Floor, CopyFloor, TypeOK, Lsn
<1> DEFINE read == {c \in CopyBuffers : pc[p] = "calset" \/ c < pscan[p]}
           read1 == {c \in CopyBuffers : pc'[p] = "calset" \/ c < pscan'[p]}
<1>0. BufType /\ CopyType /\ ProcType
    BY TypeParts
<1>a. /\ consistentLsn \in Nat /\ consistentLsn' \in Nat /\ ckptRedo \in Nat
      /\ ckptRedo' \in Nat /\ redoRecPtr \in Nat /\ insertLsn \in Nat /\ walFlushed \in Nat
      /\ replayLsn \in Nat /\ plsn[p] \in Nat /\ pcur[p] \in Nat /\ pcur'[p] \in Nat
      /\ pscan[p] \in Nat /\ 1 <= pscan[p]
    BY DEF TypeOK, HeldBounds, Lsn
<1>1. ~Crash
    BY DEF Crash, CalPcs
<1>2. /\ v <= insertLsn /\ (mode = "redo" => v <= replayLsn)
      /\ Floor(v) /\ CopyFloor(v, read1)
      /\ pcur'[p] <= v /\ pcur'[p] <= consistentLsn
      /\ ckptRedo <= v \/ consistentLsn # Invalid
    <2>0. ASSUME UNCHANGED <<walVars, recVars>>
          PROVE  v <= insertLsn /\ (mode = "redo" => v <= replayLsn)
        BY <2>0 DEF HeldBounds, HoldingPcs, Redoing, walVars, recVars
    <2>1. CASE CalFlushLists(p)
        <3>1. UNCHANGED <<walVars, recVars>>
            BY <2>1 DEF CalFlushLists
        <3>2. /\ Floor(v) /\ pscan'[p] = 1 /\ pcur'[p] = consistentLsn
              /\ pc'[p] = "calset" => CopyFloor(v, CopyBuffers)
              /\ consistentLsn <= v /\ ckptRedo <= v
            BY <2>1, ListsFloor
        <3>3. CopyFloor(v, read1)
            BY <3>2, SMT DEF CopyFloor, CopyBuffers
        <3> QED
            BY <1>a, <2>0, <3>1, <3>2, <3>3, SMT
    <2>2. CASE CalCopyBuffers(p)
        <3>1. UNCHANGED <<walVars, recVars>> /\ pc[p] = "calcopy" /\ pc[p] \in CalPcs
              /\ pcur'[p] = pcur[p]
            BY <2>2 DEF CalCopyBuffers, CalPcs
        <3>2. /\ Floor(plsn[p]) /\ CopyFloor(plsn[p], read)
              /\ pcur[p] <= plsn[p] /\ pcur[p] <= consistentLsn
              /\ ckptRedo <= plsn[p] \/ consistentLsn # Invalid
            BY <3>1 DEF Calc
        <3>3. CASE pscan[p] \in CopyBuffers
            <4>1. PICK d \in CopyBuffers : d = pscan[p]
                BY <3>3
            <4>2. /\ pc'[p] = "calcopy" /\ pscan'[p] = d + 1 /\ d \in Nat /\ cOldest[d] \in Nat
                  /\ v = IF cOldest[d] # Invalid /\ cOldest[d] < plsn[p] THEN cOldest[d]
                         ELSE plsn[p]
                BY <1>0, <2>2, <3>1, <4>1 DEF CalCopyBuffers, Hold, ProcType, CopyType,
                   CopyBuffers, Lsn
            <4>3. v <= plsn[p] /\ (cOldest[d] # Invalid => v <= cOldest[d])
                BY <1>a, <4>2, SMT
            <4>4. v = plsn[p] \/ (cOldest[d] # Invalid /\ v = cOldest[d])
                BY <4>2
            <4>5. Floor(v)
                BY <1>0, <1>a, <3>2, <4>3, SMT DEF Floor, BufType, ProcType, Lsn
            <4>6. CopyFloor(v, read1)
                <5>1. SUFFICES ASSUME NEW c \in CopyBuffers, c < d + 1, cOldest[c] # Invalid
                               PROVE  v <= cOldest[c]
                    BY <4>2 DEF CopyFloor
                <5>2. c \in Nat /\ cOldest[c] \in Nat
                    BY <1>0, SMT DEF CopyType, CopyBuffers, Lsn
                <5>3. CASE c = d
                    BY <4>3, <5>1, <5>3
                <5>4. CASE c # d
                    <6>1. c \in read
                        BY <4>1, <4>2, <5>1, <5>2, <5>4, SMT
                    <6>2. plsn[p] <= cOldest[c]
                        BY <3>2, <5>1, <6>1 DEF CopyFloor
                    <6> QED
                        BY <1>a, <4>3, <5>2, <6>2, SMT
                <5> QED
                    BY <5>3, <5>4
            <4>7. cOldest[d] # Invalid => consistentLsn <= cOldest[d] /\ ckptRedo <= cOldest[d]
                BY DEF Order, CopyFloor
            <4>8. pcur[p] <= v /\ (ckptRedo <= v \/ consistentLsn # Invalid)
                BY <1>a, <3>2, <4>2, <4>4, <4>7, SMT
            <4> QED
                BY <2>0, <3>1, <3>2, <4>5, <4>6, <4>8
        <3>4. CASE pscan[p] \notin CopyBuffers
            <4>1. v = plsn[p]
                BY <2>2, <3>4 DEF CalCopyBuffers
            <4>2. read = CopyBuffers
                BY <1>a, <3>4, ConstantsAssumption, SMT DEF CopyBuffers
            <4>3. CopyFloor(v, read1)
                BY <3>2, <4>1, <4>2 DEF CopyFloor
            <4> QED
                BY <2>0, <3>1, <3>2, <4>1, <4>3
        <3> QED
            BY <3>3, <3>4
    <2>3. CASE /\ pc'[p] = pc[p] /\ plsn'[p] = plsn[p] /\ pscan'[p] = pscan[p]
               /\ pcur'[p] = pcur[p]
        <3>1. pc[p] \in CalPcs /\ v = plsn[p] /\ read1 = read
            BY <2>3
        <3>2. v <= insertLsn /\ (mode = "redo" => v <= replayLsn)
            BY <3>1 DEF HeldBounds, HoldingPcs, Redoing
        <3> HIDE DEF read1
        <3> QED
            BY <2>3, <3>1, <3>2 DEF Calc
    <2> QED
        BY <1>0, <1>1, <2>1, <2>2, <2>3, CalMoves, CurSteps
<1>3. consistentLsn <= consistentLsn'
    <2>1. \/ consistentLsn' = consistentLsn
          \/ \E q \in Procs : consistentLsn' = MaxOf(consistentLsn, plsn[q])
        BY <1>1, PointSteps
    <2>2. \A q \in Procs : plsn[q] \in Nat
        BY <1>0 DEF ProcType, Lsn
    <2> QED
        BY <1>a, <2>1, <2>2, SMT DEF MaxOf
<1>4. ckptRedo' <= v \/ consistentLsn' # Invalid
    <2>1. CASE ckptRedo' = ckptRedo
        BY <1>a, <1>2, <1>3, <2>1, SMT DEF Invalid
    <2>2. CASE /\ ckptRedo' = redoRecPtr /\ redoRecPtr <= consistentLsn
               /\ consistentLsn' = consistentLsn
        <3>1. 1 <= redoRecPtr
            BY DEF WalBounds
        <3> QED
            BY <1>a, <2>2, <3>1, SMT DEF Invalid
    <2> QED
        BY <1>1, <2>1, <2>2, PointSteps
<1>5. /\ \A b \in Buffers : oldestLsn'[b] # Invalid => v <= oldestLsn'[b]
      /\ \A q \in Procs : pc'[q] \in ListPcs => v <= plsn'[q]
      /\ \A c \in read1 : cOldest'[c] # Invalid => v <= cOldest'[c]
    <2>1. read1 \in SUBSET CopyBuffers
        OBVIOUS
    <2> HIDE DEF read1
    <2> QED
        BY <1>1, <1>2, <2>1, FloorStays, CopyFloorStays
<1> QED
    BY <1>a, <1>2, <1>3, <1>4, <1>5, SMT

OInv == IInv /\ Owned /\ Order /\ Calc

\* It holds at the start, where nothing is in the flush list or computed ...
LEMMA OInvInit == Init => OInv
<1> SUFFICES ASSUME Init PROVE OInv
    OBVIOUS
<1>1. IInv
    BY IInvInit
<1>2. /\ consistentLsn = 0 /\ ckptRedo = 1 /\ redoRecPtr = 1
      /\ \A b \in Buffers : oldestLsn[b] = Invalid
      /\ \A c \in CopyBuffers : cOldest[c] = Invalid
      /\ \A p \in Procs : pc[p] = "idle"
    BY DEF Init, Invalid
<1>3. "idle" \notin ListPcs \cup CalPcs
    BY DEF ListPcs, CalPcs
<1>4. Owned /\ Calc
    BY <1>2, <1>3 DEF Owned, Calc
<1>5. Order
    BY <1>2, <1>3, SMT DEF Order, Floor, CopyFloor, Invalid
<1> QED
    BY <1>1, <1>4, <1>5 DEF OInv

\* ... and every step keeps it.
LEMMA OInvInductive == OInv /\ [Next]_vars => OInv'
<1> SUFFICES ASSUME OInv, [Next]_vars PROVE OInv'
    OBVIOUS
<1>1. IInv'
    BY IInvInductive DEF OInv
<1>2. /\ TypeOK /\ Locks /\ WalBounds /\ HeldBounds /\ Copies /\ Redoing
      /\ Owned /\ Order /\ Calc
    BY DEF OInv, IInv, WInv
<1>3. TypeOK' /\ HeldBounds' /\ Redoing'
    BY <1>1 DEF IInv, WInv
<1>4. Owned'
    BY <1>2, OwnedInductive
<1>5. Order'
    BY <1>2, <1>3, OrderInductive
<1>6. Calc'
    BY <1>2, <1>3, CalcInductive
<1> QED
    BY <1>1, <1>4, <1>5, <1>6 DEF OInv

\* So it always holds.
LEMMA OInvAlways == Spec => []OInv
<1>1. Init => OInv
    BY OInvInit
<1>2. OInv /\ [Next]_vars => OInv'
    BY OInvInductive
<1> QED
    BY <1>1, <1>2, PTL DEF Spec

\* polar_reset_buffer_oldest_lsn: no buffer is ever in the flush list with an
\* oldest LSN below the consistent LSN, though the one may be computed while
\* the other is put there.
THEOREM OldestIsNotBehind == Spec => []OldestNotBehind
<1>1. OInv => OldestNotBehind
    <2> SUFFICES ASSUME OInv, NEW b \in Buffers, oldestLsn[b] # Invalid
                 PROVE  oldestLsn[b] >= consistentLsn
        BY DEF OldestNotBehind
    <2>1. consistentLsn <= oldestLsn[b]
        BY DEF OInv, Order, Floor
    <2> QED
        BY <2>1
<1> QED
    BY <1>1, OInvAlways, PTL

\* update_consistent_lsn_delta never panics: a calculation never ends below the
\* consistent LSN that was read before it, although others calculate and set
\* it at the same time.
THEOREM CalculationAdvances == Spec => []ConsistentLsnAdvances
<1>1. OInv => ConsistentLsnAdvances
    <2> SUFFICES ASSUME OInv, NEW p \in Procs, pc[p] = "calset"
                 PROVE  plsn[p] >= pcur[p]
        BY DEF ConsistentLsnAdvances
    <2>1. pcur[p] <= plsn[p]
        BY DEF OInv, Calc, CalPcs
    <2> QED
        BY <2>1
<1> QED
    BY <1>1, OInvAlways, PTL

\* CreateCheckPoint never panics over a redo point that falls back, be it the
\* consistent LSN or the insert position, before or after a crash.
THEOREM RedoPointAdvances == Spec => []RedoNeverFallsBack
<1>1. OInv => RedoNeverFallsBack
    <2> SUFFICES ASSUME OInv PROVE redoRecPtr >= ckptRedo
        BY DEF RedoNeverFallsBack
    <2>1. ckptRedo <= redoRecPtr
        BY DEF OInv, Order
    <2> QED
        BY <2>1
<1> QED
    BY <1>1, OInvAlways, PTL

-----------------------------------------------------------------------------
(* Pages that a replica may not see yet. *)

\* No hint is logged, no slot comes or goes and nothing crashes.  A hint raises
\* the LSN of a page that is being flushed; a slot that is attached later, or
\* reports for the first time after a crash, is behind what is on disk.
Steady == ~WithHints /\ ~WithChurn /\ MaxCrash = 0

\* All replicas have applied l, as far as b is concerned.
Gate(l, b) == b \in Ungated \/ oldestApply = Invalid \/ l <= oldestApply

\* What a process knows of the page or the copy that it is going to write.
GateHeld(p) ==
    LET b == pb[p] IN
    /\ pc[p] \notin HintPcs
    /\ pc[p] = "setlsn" => pageLsn[b] <= plsn[p]
    /\ pc[p] = "sync" => plsn[p] <= oldestApply /\ (plsn[p] = Invalid => oldestApply = Invalid)
    /\ pc[p] \in {"fstart", "fwal", "fwrite"} /\ p \notin direct => Gate(pageLsn[b], b)
    /\ pc[p] \in {"cwal", "cwrite"} => Gate(cLsn[copyOf[b]], b)

Gates ==
    /\ mode = "run"
    /\ oldestApply = Invalid => \A r \in Replicas : applyLsn[r] = Invalid
    /\ \A b \in Buffers : /\ b \in unchecked \/ Gate(diskLsn[b], b)
                          /\ HasCopy(b) => cLsn[copyOf[b]] <= pageLsn[b]
    /\ \A p \in Procs : GateHeld(p)

\* Then nothing leaves normal running and nobody sets a hint.
LEMMA SteadySteps ==
    ASSUME Steady, TypeOK, Gates, [Next]_vars
    PROVE  ~Crash /\ mode' = "run" /\ \A q \in Procs : pc'[q] \notin HintPcs
<1>0. ProcType /\ crashes \in Nat /\ mode = "run" /\ (\A q \in Procs : pc[q] \notin HintPcs)
    BY TypeParts DEF TypeOK, Gates, GateHeld
<1>1. ~Crash
    BY <1>0, SMT DEF Crash, Steady
<1>2. mode' = "run"
    BY <1>0, <1>1, RecSteps DEF SetConsistentLsn, Replicate, ReplicaReply, DropSlot,
       Recover, RedoRecord, EndRecovery, recVars
<1>3. ASSUME NEW q \in Procs, pc'[q] \in HintPcs PROVE FALSE
    <2>1. ~Unmoved(q) /\ ~UpdateMove(q) /\ ~FlushMove(q) /\ ~CopyIoMove(q) /\ ~CalMove(q)
        BY <1>0, <1>3 DEF Unmoved, Edge, UpdateMove, FlushMove, CopyIoMove, CalMove,
           CalPcs, HintPcs
    <2>2. pc[q] = "idle" /\ pc'[q] = "hsave"
        BY <1>0, <1>1, <2>1, Moves DEF HintMove, Edge, HintPcs
    <2>3. ASSUME NEW p \in Procs, Hint(p) PROVE FALSE
        BY <1>0, <2>3 DEF Hint, HintStart, HintSave, HintList, HintPut, HintLog, HintDirty,
           HintPcs, Steady
    <2>4. Update(q) \/ Flush(q) \/ Copy(q) \/ Calculate(q)
        BY <1>0, <1>1, <2>1, <2>3, ProcSteps, OthersStay DEF Unmoved, procVars
    <2> USE DEF Goto, Step, StepHolding, Enter, Done, ProcType
    <2>5. ~Update(q)
        BY <1>0, <2>2 DEF Update, LockForUpdate, MarkBufferDirty, PutBuffer,
           AdjustPosition, XLogInsert, PageSetLSN
    <2>6. ~Flush(q)
        BY <1>0, <2>2 DEF Flush, SyncOneBuffer, GetVictimBuffer, FlushRelationBuffers, SyncLocked, FlushStart,
           FlushSkip, FlushXLog, FlushWrite, FlushFreeCopy, FlushReset, FlushEnd
    <2>7. ~Copy(q) /\ ~Calculate(q)
        BY <1>0, <2>2 DEF Copy, CopyFlushStart, CopyFlushXLog, CopyFlushWrite,
           CopyFlushEnd, CopyBuffer, Calculate, CalFlushLists, CalCopyBuffers, SetConsistentLsn
    <2> QED
        BY <2>4, <2>5, <2>6, <2>7
<1> QED
    BY <1>1, <1>2, <1>3

\* The oldest apply LSN only grows, and is there from the start or never.
LEMMA ApplyGrows ==
    ASSUME Steady, TypeOK, Gates, [Next]_vars
    PROVE  /\ oldestApply <= oldestApply'
           /\ oldestApply' = Invalid <=> oldestApply = Invalid
           /\ oldestApply' = Invalid => \A r \in Replicas : applyLsn'[r] = Invalid
<1>0. /\ oldestApply \in Nat /\ applyLsn \in [Replicas -> Nat] /\ mode = "run"
      /\ oldestApply = Invalid => \A r \in Replicas : applyLsn[r] = Invalid
    BY DEF TypeOK, Lsn, Gates
<1>1. ASSUME NEW r \in Replicas, NEW l \in 1 .. walFlushed, ReplicaReply(r, l)
      PROVE  /\ oldestApply <= oldestApply'
             /\ oldestApply' # Invalid /\ oldestApply # Invalid
    <2>0. l \in Nat /\ l # Invalid
        BY SMT DEF Invalid
    <2>1. applyLsn[r] # Invalid /\ oldestApply # Invalid
        BY <1>0, <1>1 DEF ReplicaReply, Steady
    <2>2. applyLsn' = [applyLsn EXCEPT ![r] = l] /\ applyLsn' \in [Replicas -> Nat]
          /\ applyLsn'[r] # Invalid
        BY <1>0, <1>1, <2>0 DEF ReplicaReply
    <2>3. PICK s \in Replicas : applyLsn'[s] \in Nat /\ oldestApply' = MaxOf(oldestApply, applyLsn'[s])
        BY <1>1, <2>2 DEF ReplicaReply, SetOldestReplicaLsn
    <2> QED
        BY <1>0, <2>1, <2>3, SMT DEF MaxOf, Invalid
<1>2. ~\E r \in Replicas : DropSlot(r)
    BY DEF DropSlot, Steady
<1>3. CASE UNCHANGED replVars
    BY <1>0, <1>3, SMT DEF replVars
<1>4. UNCHANGED replVars \/ Replicate
    BY <1>0, SteadySteps, RecSteps DEF SetConsistentLsn, Recover, RedoRecord, EndRecovery
<1> QED
    BY <1>1, <1>2, <1>3, <1>4 DEF Replicate

\* So what all replicas may see stays so.
LEMMA GateStays ==
    ASSUME Steady, TypeOK, TypeOK', Gates, [Next]_vars, NEW l \in Nat, NEW b, Gate(l, b)
    PROVE  b \in Ungated \/ oldestApply' = Invalid \/ l <= oldestApply'
<1>1. oldestApply \in Nat /\ oldestApply' \in Nat
    BY DEF TypeOK, Lsn
<1> QED
    BY <1>1, ApplyGrows, SMT DEF Gate

\* Page LSNs grow, and only under the exclusive content lock.
LEMMA PageGrows ==
    ASSUME Steady, TypeOK, Locks, Gates, [Next]_vars, NEW b \in Buffers
    PROVE  /\ pageLsn[b] <= pageLsn'[b]
           /\ pageLsn'[b] = pageLsn[b] \/ ExclLocked(b)
<1>0. BufType /\ ProcType /\ pageLsn[b] \in Nat
    BY TypeParts DEF BufType, Lsn
<1>1. CASE UNCHANGED pageLsn
    BY <1>0, <1>1, SMT
<1>2. ASSUME NEW p \in Procs, PageSetLSN(p)
      PROVE  /\ pageLsn[b] <= pageLsn'[b]
             /\ pageLsn'[b] = pageLsn[b] \/ ExclLocked(b)
    <2>1. pc[p] = "setlsn" /\ pageLsn[pb[p]] <= plsn[p]
        BY <1>2 DEF PageSetLSN, Gates, GateHeld
    <2>2. pageLsn'[b] = IF b = pb[p] THEN plsn[p] ELSE pageLsn[b]
        BY <1>0, <1>2 DEF PageSetLSN, BufType
    <2>3. b = pb[p] => ExclLocked(b)
        BY <2>1 DEF ExclLocked, AtBuf, ExclPcs
    <2> QED
        BY <1>0, <2>1, <2>2, <2>3, SMT
<1>3. \A p \in Procs : ~HintDirty(p)
    BY DEF HintDirty, Gates, GateHeld, HintPcs
<1>4. ~Crash /\ ~RedoRecord
    BY SteadySteps DEF RedoRecord, Gates
<1> QED
    BY <1>1, <1>2, <1>3, <1>4, PageLsnSteps

\* How a process comes to look at the gate.
LEMMA GateMoves ==
    ASSUME ProcType, [Next]_vars, ~Crash, NEW q \in Procs, pc'[q] \in {"sync", "fstart"},
           pc'[q] # pc[q]
    PROVE  \/ \E b \in Buffers : SyncOneBuffer(q, b) /\ pc'[q] = "sync"
           \/ \E b \in Buffers : GetVictimBuffer(q, b) /\ pc'[q] = "fstart"
           \/ \E b \in Buffers : FlushRelationBuffers(q, b) /\ pc'[q] = "fstart"
           \/ SyncLocked(q) /\ pc'[q] = "fstart"
<1>1. ~Unmoved(q) /\ ~UpdateMove(q) /\ ~HintMove(q) /\ ~CopyIoMove(q) /\ ~CalMove(q)
    BY DEF Unmoved, Edge, UpdateMove, HintMove, CopyIoMove, CalMove, CalPcs
<1>2. FlushMove(q) /\ pc[q] \in {"idle", "sync"}
    BY <1>1, Moves DEF FlushMove, Edge
<1>3. Update(q) \/ Hint(q) \/ Flush(q) \/ Copy(q) \/ Calculate(q)
    BY <1>1, ProcSteps, OthersStay DEF Unmoved, procVars
<1> USE DEF Goto, Step, StepHolding, Enter, Done, ProcType
<1>4. ~Update(q)
    BY <1>2 DEF Update, LockForUpdate, MarkBufferDirty, PutBuffer, AdjustPosition,
       XLogInsert, PageSetLSN
<1>5. ~Hint(q)
    BY <1>2 DEF Hint, HintStart, HintSave, HintList, HintPut, HintLog, HintDirty
<1>6. ~Copy(q) /\ ~Calculate(q)
    BY <1>2 DEF Copy, CopyFlushStart, CopyFlushXLog, CopyFlushWrite, CopyFlushEnd,
       CopyBuffer, Calculate, CalFlushLists, CalCopyBuffers, SetConsistentLsn
<1> QED
    BY <1>2, <1>3, <1>4, <1>5, <1>6 DEF Flush, SyncOneBuffer, GetVictimBuffer, FlushRelationBuffers, SyncLocked,
       FlushStart, FlushSkip, FlushXLog, FlushWrite, FlushFreeCopy, FlushReset, FlushEnd

\* A flush that looked at the gate stays one that did.
LEMMA DirectKept ==
    ASSUME ProcType, [Next]_vars, ~Crash, NEW q \in Procs, q \notin direct',
           pc'[q] \in {"fstart", "fwal", "fwrite"}
    PROVE  q \notin direct /\ \A b \in Buffers : ~FlushRelationBuffers(q, b)
<1>1. \A b \in Buffers : ~FlushRelationBuffers(q, b)
    BY DEF FlushRelationBuffers
<1>2. ASSUME NEW p \in Procs, FlushStart(p) \/ FlushEnd(p), q \in direct PROVE FALSE
    <2>1. p = q
        BY <1>2 DEF FlushStart, FlushEnd
    <2>2. pc'[q] = "idle"
        BY <1>2, <2>1 DEF FlushStart, FlushEnd, Done, Goto, ProcType
    <2> QED
        BY <2>2
<1>3. ASSUME NEW p \in Procs, NEW b \in Buffers, FlushRelationBuffers(p, b) PROVE q \notin direct
    BY <1>3 DEF FlushRelationBuffers
<1>4. ASSUME NEW p \in Procs, FlushWrite(p) \/ CopyFlushWrite(p) PROVE q \notin direct
    BY <1>4 DEF FlushWrite, CopyFlushWrite
<1> QED
    BY <1>1, <1>2, <1>3, <1>4, DirectSteps

\* What a process knows of its page stays true until it writes it: the page is
\* locked, the copy is held by BM_IO_IN_PROGRESS, and the oldest apply LSN grows.
LEMMA GateHeldStays ==
    ASSUME Steady, TypeOK, TypeOK', Locks, PageBounds, Writing, Copies, Gates, [Next]_vars,
           NEW q \in Procs
    PROVE  GateHeld(q)'
<1>0. BufType /\ CopyType /\ ProcType /\ insertLsn \in Nat /\ oldestApply \in Nat
      /\ oldestApply' \in Nat /\ plsn[q] \in Nat
    BY TypeParts DEF TypeOK, Lsn
<1>1. ~Crash /\ pc'[q] \notin HintPcs
    BY SteadySteps
<1>2. GateHeld(q)
    BY DEF Gates
<1>3. ASSUME pc'[q] = "setlsn" PROVE pageLsn'[pb'[q]] <= plsn'[q]
    <2>1. CASE pc[q] = "setlsn"
        <3>1. pb'[q] = pb[q] /\ plsn'[q] = plsn[q]
            BY <1>0, <1>1, <1>3, <2>1, Stay DEF CalPcs
        <3>2. Same(pb[q])
            BY <1>1, <1>3, <2>1, ExclStable DEF ExclPcs
        <3> QED
            BY <1>2, <2>1, <3>1, <3>2 DEF Same, GateHeld
    <2>2. CASE pc[q] # "setlsn"
        <3>1. pb'[q] = pb[q] /\ XLogInsert(q) /\ plsn'[q] = insertLsn + 1
            BY <1>0, <1>1, <1>2, <1>3, <2>2, SetLsnMoves DEF HintLog, GateHeld, HintPcs
        <3>2. pb[q] \in Buffers /\ pageLsn' = pageLsn
            BY <3>1, AtBuffer DEF XLogInsert, CalPcs, bufVars
        <3>3. pageLsn[pb[q]] <= insertLsn /\ pageLsn[pb[q]] \in Nat
            BY <1>0, <3>2 DEF PageBounds, BufType, Lsn
        <3> QED
            BY <1>0, <3>1, <3>2, <3>3, SMT
    <2> QED
        BY <2>1, <2>2
<1>4. ASSUME pc'[q] = "sync"
      PROVE  plsn'[q] <= oldestApply' /\ (plsn'[q] = Invalid => oldestApply' = Invalid)
    <2>1. CASE pc[q] = "sync"
        <3>1. plsn'[q] = plsn[q]
            BY <1>0, <1>1, <1>4, <2>1, Stay DEF CalPcs
        <3>2. plsn[q] <= oldestApply /\ (plsn[q] = Invalid => oldestApply = Invalid)
            BY <1>2, <2>1 DEF GateHeld
        <3> QED
            BY <1>0, <3>1, <3>2, ApplyGrows, SMT
    <2>2. CASE pc[q] # "sync"
        <3>1. \E b \in Buffers : SyncOneBuffer(q, b)
            BY <1>0, <1>1, <1>4, <2>2, GateMoves
        <3>2. plsn'[q] = oldestApply /\ oldestApply' = oldestApply
            BY <1>0, <3>1 DEF SyncOneBuffer, Enter, Hold, ProcType, replVars
        <3> QED
            BY <1>0, <3>2, SMT
    <2> QED
        BY <2>1, <2>2
<1>5. ASSUME pc'[q] \in {"fstart", "fwal", "fwrite"}, q \notin direct'
      PROVE  Gate(pageLsn[pb[q]], pb[q])'
    <2>0. q \notin direct /\ \A b \in Buffers : ~FlushRelationBuffers(q, b)
        BY <1>0, <1>1, <1>5, DirectKept
    <2>1. ASSUME NEW b \in Buffers, pb'[q] = b, pageLsn'[b] = pageLsn[b], Gate(pageLsn[b], b)
          PROVE  Gate(pageLsn[pb[q]], pb[q])'
        <3>1. PICK l \in Nat : l = pageLsn[b]
            BY <1>0 DEF BufType, Lsn
        <3>2. b \in Ungated \/ oldestApply' = Invalid \/ l <= oldestApply'
            BY <2>1, <3>1, GateStays
        <3> QED
            BY <2>1, <3>1, <3>2 DEF Gate
    <2>2. CASE pc'[q] = pc[q] \/ (pc[q] = "fstart" /\ pc'[q] = "fwal" /\ pb'[q] = pb[q])
               \/ (pc[q] = "fwal" /\ pc'[q] = "fwrite" /\ pb'[q] = pb[q])
        <3>1. pb'[q] = pb[q] /\ pc[q] \in {"fstart", "fwal", "fwrite"}
            BY <1>0, <1>1, <1>5, <2>2, Stay DEF CalPcs
        <3>2. pb[q] \in Buffers /\ pc[q] \in SharePcs
            BY <3>1, AtBuffer DEF CalPcs, SharePcs, IoPcs, FlushIoPcs
        <3>3. ~ExclLocked(pb[q])
            <4>1. "fstart" \notin ExclPcs /\ "fwal" \notin ExclPcs /\ "fwrite" \notin ExclPcs
                BY DEF ExclPcs
            <4> QED
                BY <3>1, <3>2, <4>1 DEF Locks, ExclLocked, AtBuf
        <3>4. pageLsn'[pb[q]] = pageLsn[pb[q]]
            BY <3>2, <3>3, PageGrows
        <3> QED
            BY <1>2, <2>0, <2>1, <3>1, <3>2, <3>4 DEF GateHeld
    <2>3. ASSUME pc'[q] = "fstart", NEW b \in Buffers, GetVictimBuffer(q, b)
          PROVE  Gate(pageLsn[pb[q]], pb[q])'
        <3>1. pb'[q] = b /\ pageLsn'[b] = pageLsn[b] /\ Gate(pageLsn[b], b)
            BY <1>0, <2>3 DEF GetVictimBuffer, Enter, ProcType, bufVars, CanBeFlushed, Gate
        <3> QED
            BY <2>1, <3>1
    <2>4. ASSUME pc'[q] = "fstart", SyncLocked(q) PROVE Gate(pageLsn[pb[q]], pb[q])'
        <3>1. pc[q] = "sync" /\ pb[q] \in Buffers /\ pageLsn' = pageLsn
            BY <2>4, AtBuffer DEF SyncLocked, CalPcs, bufVars
        <3>2. pb'[q] = pb[q] /\ CanBeFlushed(pb[q], plsn[q])
            BY <1>0, <2>4 DEF SyncLocked, Step, Done, Goto, ProcType
        <3>3. plsn[q] <= oldestApply /\ (plsn[q] = Invalid => oldestApply = Invalid)
            BY <1>2, <3>1 DEF GateHeld
        <3>4. Gate(pageLsn[pb[q]], pb[q])
            <4>1. pageLsn[pb[q]] \in Nat
                BY <1>0, <3>1 DEF BufType, Lsn
            <4> QED
                BY <1>0, <3>2, <3>3, <4>1, SMT DEF CanBeFlushed, Gate
        <3> QED
            BY <2>1, <3>1, <3>2, <3>4
    <2>5. CASE pc'[q] \in {"fwal", "fwrite"} /\ pc'[q] # pc[q]
        <3>1. IoMove(q)
            BY <1>0, <1>1, <2>5, IoMoves DEF IoPcs, FlushIoPcs
        <3> QED
            BY <2>2, <2>5, <3>1 DEF IoMove, FlushStart, FlushXLog
    <2> QED
        BY <1>0, <1>1, <1>5, <2>0, <2>2, <2>3, <2>4, <2>5, GateMoves
<1>6. ASSUME pc'[q] \in {"cwal", "cwrite"} PROVE Gate(cLsn[copyOf[pb[q]]], pb[q])'
    <2>1. ASSUME NEW b \in Buffers, NEW c \in CopyBuffers, pb'[q] = b, copyOf[b] = c,
                 copyOf'[b] = c, cLsn'[c] = cLsn[c], Gate(cLsn[c], b)
          PROVE  Gate(cLsn[copyOf[pb[q]]], pb[q])'
        <3>1. PICK l \in Nat : l = cLsn[c]
            BY <1>0 DEF CopyType, Lsn
        <3>2. b \in Ungated \/ oldestApply' = Invalid \/ l <= oldestApply'
            BY <2>1, <3>1, GateStays
        <3> QED
            BY <2>1, <3>1, <3>2 DEF Gate
    <2>2. CASE pc'[q] = pc[q]
        <3>1. pb'[q] = pb[q] /\ pb[q] \in Buffers
            BY <1>0, <1>1, <1>6, <2>2, Stay, AtBuffer DEF CalPcs
        <3>2. IoSame(pb[q]) /\ HasCopy(pb[q])
            BY <1>1, <1>6, <2>2, IoStable DEF IoPcs, CopyIoPcs, Writing
        <3>3. copyOf[pb[q]] \in CopyBuffers
            BY <1>0, <3>1, <3>2 DEF HasCopy, BufType
        <3> QED
            BY <1>2, <1>6, <2>1, <2>2, <3>1, <3>2, <3>3 DEF IoSame, GateHeld
    <2>3. CASE pc'[q] # pc[q]
        <3>1. pb'[q] = pb[q] /\ (CopyFlushStart(q) \/ CopyFlushXLog(q))
            BY <1>0, <1>1, <1>6, <2>3, IoMoves DEF IoMove, IoPcs, CopyIoPcs
        <3>2. pb[q] \in Buffers /\ UNCHANGED <<copyOf, cLsn>>
            BY <3>1, AtBuffer DEF CopyFlushStart, CopyFlushXLog, CalPcs, bufVars, copyVars
        <3>3. CASE CopyFlushXLog(q)
            <4>1. HasCopy(pb[q]) /\ pc[q] = "cwal"
                BY <3>3 DEF CopyFlushXLog, Writing, CopyIoPcs
            <4>2. copyOf[pb[q]] \in CopyBuffers
                BY <1>0, <3>2, <4>1 DEF HasCopy, BufType
            <4> QED
                BY <1>2, <2>1, <3>1, <3>2, <4>1, <4>2 DEF GateHeld
        <3>4. CASE CopyFlushStart(q)
            <4>1. HasCopy(pb[q]) /\ CopyCanBeFlushed(pb[q], oldestApply)
                BY <1>0, <1>6, <3>4 DEF CopyFlushStart, Done, Goto, ProcType, HasCopy
            <4>2. PICK c \in CopyBuffers : c = copyOf[pb[q]]
                BY <1>0, <3>2, <4>1 DEF HasCopy, BufType
            <4>3. cLsn[c] <= pageLsn[pb[q]]
                BY <3>2, <4>1, <4>2 DEF Gates
            <4>4. cLsn[c] \in Nat /\ pageLsn[pb[q]] \in Nat
                BY <1>0, <3>2 DEF BufType, CopyType, Lsn
            <4>5. Gate(cLsn[c], pb[q])
                BY <1>0, <4>1, <4>2, <4>3, <4>4, SMT DEF CopyCanBeFlushed, CanBeFlushed, Gate
            <4> QED
                BY <2>1, <3>1, <3>2, <4>2, <4>5
        <3> QED
            BY <3>1, <3>3, <3>4
    <2> QED
        BY <2>2, <2>3
<1> QED
    BY <1>1, <1>3, <1>4, <1>5, <1>6 DEF GateHeld

\* Nothing that some replica may not see is written.
LEMMA GatesInductive ==
    ASSUME Steady, TypeOK, TypeOK', Locks, PageBounds, Writing, Copies, Gates, [Next]_vars
    PROVE  Gates'
<1>0. BufType /\ BufType' /\ CopyType /\ CopyType' /\ ProcType /\ diskLsn \in [Buffers -> Nat]
    BY TypeParts DEF TypeOK, Lsn
<1>1. ~Crash /\ mode' = "run"
    BY SteadySteps
<1>2. oldestApply' = Invalid => \A r \in Replicas : applyLsn'[r] = Invalid
    BY ApplyGrows
<1>3. ASSUME NEW b \in Buffers, b \notin unchecked' PROVE Gate(diskLsn[b], b)'
    <2>1. ASSUME NEW l \in Nat, l = diskLsn'[b], Gate(l, b) PROVE Gate(diskLsn[b], b)'
        <3>1. b \in Ungated \/ oldestApply' = Invalid \/ l <= oldestApply'
            BY <2>1, GateStays
        <3> QED
            BY <2>1, <3>1 DEF Gate
    <2>2. CASE diskLsn'[b] = diskLsn[b] /\ b \notin unchecked
        BY <1>0, <2>1, <2>2 DEF Gates
    <2>3. ASSUME NEW p \in Procs, FlushWrite(p), b = pb[p] PROVE Gate(diskLsn[b], b)'
        <3>1. diskLsn'[b] = pageLsn[b] /\ pageLsn[b] \in Nat
            BY <1>0, <2>3 DEF FlushWrite, BufType, Lsn
        <3>2. p \notin direct \/ b \in Ungated
            BY <1>3, <2>3 DEF FlushWrite
        <3>3. CASE b \in Ungated
            BY <3>3 DEF Gate
        <3>4. CASE p \notin direct
            <4>1. Gate(pageLsn[b], b)
                BY <2>3, <3>4 DEF FlushWrite, Gates, GateHeld
            <4> QED
                BY <2>1, <3>1, <4>1
        <3> QED
            BY <3>2, <3>3, <3>4
    <2>4. ASSUME NEW p \in Procs, CopyFlushWrite(p), b = pb[p] PROVE Gate(diskLsn[b], b)'
        <3>1. copyOf[b] \in CopyBuffers
            BY <1>0, <2>4 DEF CopyFlushWrite, Writing, CopyIoPcs, HasCopy, BufType
        <3>2. diskLsn'[b] = cLsn[copyOf[b]] /\ cLsn[copyOf[b]] \in Nat
            BY <1>0, <2>4, <3>1 DEF CopyFlushWrite, CopyType, Lsn
        <3>3. Gate(cLsn[copyOf[b]], b)
            BY <2>4 DEF CopyFlushWrite, Gates, GateHeld
        <3> QED
            BY <2>1, <3>2, <3>3
    <2>5. \/ diskLsn'[b] = diskLsn[b]
          \/ \E p \in Procs : (FlushWrite(p) \/ CopyFlushWrite(p)) /\ b = pb[p]
        BY <1>0, DiskSteps DEF FlushWrite, CopyFlushWrite
    <2>6. \/ b \notin unchecked
          \/ \E p \in Procs : (FlushWrite(p) \/ CopyFlushWrite(p)) /\ b = pb[p]
        <3>1. ASSUME NEW p \in Procs, FlushWrite(p) \/ CopyFlushWrite(p)
              PROVE  b \notin unchecked \/ b = pb[p]
            BY <1>3, <3>1 DEF FlushWrite, CopyFlushWrite
        <3>2. ASSUME NEW p \in Procs,
                     (\E a \in Buffers : FlushRelationBuffers(p, a)) \/ FlushStart(p) \/ FlushEnd(p)
              PROVE  b \notin unchecked
            BY <1>3, <3>2 DEF FlushRelationBuffers, FlushStart, FlushEnd
        <3> QED
            BY <1>1, <1>3, <3>1, <3>2, DirectSteps
    <2> QED
        BY <2>2, <2>3, <2>4, <2>5, <2>6
<1>4. ASSUME NEW b \in Buffers, copyOf'[b] # NoCopy
      PROVE  cLsn'[copyOf'[b]] <= pageLsn'[b]
    <2>0. pageLsn[b] <= pageLsn'[b] /\ pageLsn[b] \in Nat /\ pageLsn'[b] \in Nat
          /\ cLsn'[copyOf'[b]] \in Nat
        BY <1>0, <1>4, PageGrows DEF BufType, CopyType, Lsn
    <2>1. CASE KeepsCopy(b)
        <3>1. HasCopy(b) /\ cLsn'[copyOf'[b]] = cLsn[copyOf[b]]
            BY <1>4, <2>1 DEF KeepsCopy, HasCopy
        <3>2. cLsn[copyOf[b]] <= pageLsn[b]
            BY <3>1 DEF Gates
        <3> QED
            BY <2>0, <3>1, <3>2, SMT
    <2>2. ASSUME NEW p \in Procs, NewCopy(p, b) PROVE cLsn'[copyOf'[b]] <= pageLsn'[b]
        BY <2>0, <2>2 DEF NewCopy
    <2> QED
        BY <1>1, <1>4, <2>1, <2>2, CopyMoves DEF CopyMove
<1>5. \A p \in Procs : GateHeld(p)'
    BY GateHeldStays
<1> QED
    BY <1>1, <1>2, <1>3, <1>4, <1>5 DEF Gates, HasCopy

\* polar_buffer_can_be_flushed: as long as no slot comes or goes, no hint is
\* logged and nothing crashes, a page whose last write looked at the gate is
\* not ahead of any replica on the storage, although the flusher looks at an
\* old oldest apply LSN and the page or the copy is written much later.  Of a
\* page last written by FlushRelationBuffers and its like, which do not look
\* at the gate, nothing is said.
THEOREM NoPageFromTheFuture ==
    ASSUME Steady
    PROVE  Spec => []NoFuturePage
<1> DEFINE GInv == IInv /\ Gates
<1>1. Init => GInv
    <2> SUFFICES ASSUME Init PROVE GInv
        OBVIOUS
    <2>1. IInv
        BY IInvInit
    <2>2. \A p \in Procs : GateHeld(p)
        BY DEF Init, GateHeld, HintPcs
    <2>3. \A b \in Buffers : Gate(diskLsn[b], b) /\ ~HasCopy(b)
        BY ConstantsAssumption, SMT DEF Init, Gate, HasCopy, Invalid
    <2>4. oldestApply = Invalid => \A r \in Replicas : applyLsn[r] = Invalid
        BY DEF Init, Invalid
    <2> QED
        BY <2>1, <2>2, <2>3, <2>4 DEF Gates, Init
<1>2. GInv /\ [Next]_vars => GInv'
    <2> SUFFICES ASSUME GInv, [Next]_vars PROVE GInv'
        OBVIOUS
    <2>1. IInv'
        BY IInvInductive
    <2>2. TypeOK /\ TypeOK' /\ Locks /\ PageBounds /\ Writing /\ Copies
        BY <2>1 DEF IInv, WInv
    <2> QED
        BY <2>1, <2>2, GatesInductive
<1>3. GInv => NoFuturePage
    BY DEF Gates, Gate, NoFuturePage
<1> QED
    BY <1>1, <1>2, <1>3, PTL DEF Spec
=============================================================================
