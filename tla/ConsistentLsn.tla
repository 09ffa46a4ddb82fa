--------------------------- MODULE ConsistentLsn ---------------------------
(***************************************************************************)
(* Dirty pages of the primary, the consistent LSN and what a crash needs.  *)
(*                                                                         *)
(* Backends modify pages (MarkBufferDirty, XLogInsert, PageSetLSN) and set *)
(* hint bits (MarkBufferDirtyHint); backends and background writers flush  *)
(* pages (SyncOneBuffer, GetVictimBuffer, FlushBuffer), copy pages that    *)
(* the read-only replicas may not see yet (copy buffers) and flush the     *)
(* copies; a background writer computes the consistent LSN; the            *)
(* checkpointer uses it as the redo point; the primary may crash and       *)
(* recover from the last redo point.                                       *)
(*                                                                         *)
(* An LSN is a number; a WAL record takes one unit, so the record that     *)
(* starts at s ends at s + 1.  0 is InvalidXLogRecPtr.  A page is its LSN: *)
(* the page with LSN l holds the records of that page that end at or       *)
(* before l.  The flush list is the set of buffers with a valid oldest     *)
(* LSN; the module FlushList has the lists themselves.                     *)
(*                                                                         *)
(* Locks are not variables: a process holds a lock exactly at the program  *)
(* counters named below.                                                   *)
(***************************************************************************)
EXTENDS Integers, FiniteSets

CONSTANTS
    Procs,       \* backends and background writers
    Buffers,     \* shared buffers, one page each
    Ungated,     \* buffers of FSM and INIT forks, which any replica may see
    Partition,   \* polar_buffer_get_flushlist_partition
    NCopy,       \* polar_copy_buffers
    Replicas,    \* read-only nodes with a replication slot
    InitApply,   \* apply LSN of the slots at the start, 0 when not attached
    NoBuf,       \* no buffer
    WithHints,   \* full_page_writes, and wal_log_hints or checksums
    WithChurn,   \* slots are dropped and attached
    MaxLsn,      \* bound on the insert position
    MaxCrash     \* bound on the number of crashes

CopyBuffers == 1 .. NCopy
NoCopy == 0
Invalid == 0

ASSUME ConstantsAssumption ==
    /\ Ungated \subseteq Buffers
    /\ NoBuf \notin Buffers
    /\ NCopy \in Nat
    /\ InitApply \in {0, 1}
    /\ MaxLsn \in Nat /\ MaxCrash \in Nat
    /\ WithHints \in BOOLEAN /\ WithChurn \in BOOLEAN

VARIABLES
    \* write-ahead log
    insertLsn,      \* GetXLogInsertRecPtr
    walFlushed,     \* everything before it survives a crash
    wal,            \* the page records: [start, buf, hint, image]
    \* buffer descriptors
    dirty,          \* BM_DIRTY
    justDirtied,    \* BM_JUST_DIRTIED
    pageLsn,        \* PageGetLSN of the page in the buffer
    oldestLsn,      \* oldest_lsn, valid exactly while in the flush list
    touched,        \* POLAR_BUF_FIRST_TOUCHED_AFTER_COPY
    copyOf,         \* copy_buffer
    \* copy buffers, free when cOldest is invalid
    cOldest, cLsn,
    \* shared storage
    diskLsn,        \* LSN of the page on disk
    direct,         \* processes in a FlushBuffer that did not look at the gate
    unchecked,      \* history: pages, but for Ungated ones, whose last write was
                    \* one of those
    \* XLogCtl and replication slots
    consistentLsn, oldestApply,
    applyLsn,       \* polar_replica_apply_lsn of each slot
    \* checkpointer and control file
    redoRecPtr,     \* RedoRecPtr of the checkpoint that started last
    ckptRunning,
    ckptWait,       \* processes seen with DELAY_CHKPT_START that it waits for
    ckptRedo,       \* ControlFile->checkPointCopy.redo
    \* recovery
    mode, replayLsn, crashes,
    \* processes
    pc, pb,         \* program counter and buffer at hand
    plsn,           \* an LSN held in a local variable
    pcur,           \* cur_consistent_lsn of polar_buffer_sync
    pscan           \* next copy buffer that polar_cal_cur_consistent_lsn reads

walVars == <<insertLsn, walFlushed, wal>>
bufVars == <<dirty, justDirtied, pageLsn, oldestLsn, touched, copyOf>>
copyVars == <<cOldest, cLsn>>
diskVars == <<diskLsn, direct, unchecked>>
replVars == <<oldestApply, applyLsn>>
ckptVars == <<redoRecPtr, ckptRunning, ckptWait, ckptRedo>>
recVars == <<mode, replayLsn, crashes>>
procVars == <<pc, pb, plsn, pcur, pscan>>
vars == <<walVars, bufVars, copyVars, diskVars, consistentLsn, replVars,
          ckptVars, recVars, procVars>>

Lsn == Nat
Record == [start : Lsn, buf : Buffers, hint : BOOLEAN, image : BOOLEAN]

-----------------------------------------------------------------------------
(* Program counters and the locks held there. *)

ExclPcs == {"mark", "put", "adjust", "log", "setlsn"}
HintPcs == {"hsave", "hlist", "hput", "hlog", "hdirty"}
FlushIoPcs == {"fwal", "fwrite", "ffree", "freset", "fend"}
CopyIoPcs == {"cwal", "cwrite", "cfree"}
IoPcs == FlushIoPcs \cup CopyIoPcs
SharePcs == HintPcs \cup IoPcs \cup {"fstart", "cstart", "copy"}
ListPcs == {"put", "adjust", "hput"}
LoggingPcs == {"mark", "put", "adjust", "log", "hsave", "hlist", "hput", "hlog"}
CalPcs == {"calcopy", "calset"}
Pcs == {"idle", "sync"} \cup ExclPcs \cup SharePcs \cup CalPcs

AtBuf(p, b, pcs) == pb[p] = b /\ pc[p] \in pcs

\* The content lock of b.
ExclLocked(b) == \E p \in Procs : AtBuf(p, b, ExclPcs)
ShareLocked(b) == \E p \in Procs : AtBuf(p, b, SharePcs)

\* BM_IO_IN_PROGRESS of b.
IoInProgress(b) == \E p \in Procs : AtBuf(p, b, IoPcs)

\* flushlist_lock of the partition of b, and of any partition.
ListLocked(b) ==
    \E p \in Procs : pc[p] \in ListPcs /\ Partition[pb[p]] = Partition[b]
SomeListLocked == \E p \in Procs : pc[p] \in ListPcs

\* MyProc->delayChkptFlags & DELAY_CHKPT_START
DelaysCkpt(p) == pc[p] \in HintPcs

Goto(p, l) == pc' = [pc EXCEPT ![p] = l]
Hold(p, l) == plsn' = [plsn EXCEPT ![p] = l]
Done(p) ==
    /\ Goto(p, "idle")
    /\ pb' = [pb EXCEPT ![p] = NoBuf]
    /\ Hold(p, 0)
    /\ UNCHANGED <<pcur, pscan>>
Step(p, l) == Goto(p, l) /\ UNCHANGED <<pb, plsn, pcur, pscan>>
StepHolding(p, l, v) == Goto(p, l) /\ Hold(p, v) /\ UNCHANGED <<pb, pcur, pscan>>
Enter(p, l, b, v) ==
    /\ Goto(p, l)
    /\ pb' = [pb EXCEPT ![p] = b]
    /\ Hold(p, v)
    /\ UNCHANGED <<pcur, pscan>>

\* Room for the records that are being made and one more.
Room == insertLsn + Cardinality({p \in Procs : pc[p] \in LoggingPcs}) < MaxLsn

MaxOf(a, b) == IF a < b THEN b ELSE a

-----------------------------------------------------------------------------
(* Modifying a page: content lock, MarkBufferDirty, XLogInsert, PageSetLSN. *)

LockForUpdate(p, b) ==
    /\ mode = "run" /\ pc[p] = "idle" /\ Room
    /\ ~ExclLocked(b) /\ ~ShareLocked(b)
    /\ Enter(p, "mark", b, 0)
    /\ UNCHANGED <<walVars, bufVars, copyVars, diskVars, consistentLsn,
                   replVars, ckptVars, recVars>>

FirstTouchAfterCopy(b) == copyOf[b] # NoCopy /\ ~touched[b]

\* PolarMarkBufferDirty sets the flags and then, in
\* polar_set_buffer_fake_oldest_lsn, takes the lock of the flush list and
\* reads the insert position as the fake oldest LSN.
MarkBufferDirty(p) ==
    LET b == pb[p] IN
    /\ pc[p] = "mark"
    /\ dirty' = [dirty EXCEPT ![b] = TRUE]
    /\ justDirtied' = [justDirtied EXCEPT ![b] = TRUE]
    /\ \/ /\ oldestLsn[b] = Invalid
          /\ ~ListLocked(b)
          /\ StepHolding(p, "put", insertLsn)
       \/ /\ oldestLsn[b] # Invalid /\ FirstTouchAfterCopy(b)
          /\ ~ListLocked(b)
          /\ StepHolding(p, "adjust", insertLsn)
       \/ /\ oldestLsn[b] # Invalid /\ ~FirstTouchAfterCopy(b)
          /\ Step(p, "log")
    /\ UNCHANGED <<walVars, pageLsn, oldestLsn, touched, copyOf, copyVars,
                   diskVars, consistentLsn, replVars, ckptVars, recVars>>

\* The end of polar_put_buffer_to_flush_list, still under the list lock.
PutBuffer(p) ==
    /\ pc[p] = "put"
    /\ oldestLsn' = [oldestLsn EXCEPT ![pb[p]] = plsn[p]]
    /\ Step(p, "log")
    /\ UNCHANGED <<walVars, dirty, justDirtied, pageLsn, touched,
                   copyOf, copyVars, diskVars, consistentLsn, replVars,
                   ckptVars, recVars>>

\* The end of polar_adjust_position_in_flush_list.
AdjustPosition(p) ==
    /\ pc[p] = "adjust"
    /\ oldestLsn' = [oldestLsn EXCEPT ![pb[p]] = plsn[p]]
    /\ touched' = [touched EXCEPT ![pb[p]] = TRUE]
    /\ Step(p, "log")
    /\ UNCHANGED <<walVars, dirty, justDirtied, pageLsn, copyOf,
                   copyVars, diskVars, consistentLsn, replVars, ckptVars,
                   recVars>>

\* A record has a full-page image when it is the page's first since the redo
\* point; a hint record is nothing but one.
Append1(b, h) ==
    /\ wal' = wal \cup {[start |-> insertLsn, buf |-> b, hint |-> h,
                         image |-> h \/ (WithHints /\ pageLsn[b] <= redoRecPtr)]}
    /\ insertLsn' = insertLsn + 1

XLogInsert(p) ==
    /\ pc[p] = "log"
    /\ Append1(pb[p], FALSE)
    /\ StepHolding(p, "setlsn", insertLsn + 1)
    /\ UNCHANGED <<walFlushed, bufVars, copyVars, diskVars, consistentLsn,
                   replVars, ckptVars, recVars>>

\* PageSetLSN and the release of the content lock.
PageSetLSN(p) ==
    /\ pc[p] = "setlsn"
    /\ pageLsn' = [pageLsn EXCEPT ![pb[p]] = plsn[p]]
    /\ Done(p)
    /\ UNCHANGED <<walVars, dirty, justDirtied, oldestLsn, touched,
                   copyOf, copyVars, diskVars, consistentLsn, replVars,
                   ckptVars, recVars>>

-----------------------------------------------------------------------------
(* MarkBufferDirtyHint, with the content lock shared. *)

HintStart(p, b) ==
    /\ WithHints /\ mode = "run" /\ pc[p] = "idle" /\ Room
    /\ ~ExclLocked(b)
    /\ ~dirty[b]
    /\ Enter(p, "hsave", b, 0)
    /\ UNCHANGED <<walVars, bufVars, copyVars, diskVars, consistentLsn,
                   replVars, ckptVars, recVars>>

\* XLogSaveBufferForHint: no record for a page that had one since the redo
\* point; otherwise polar_put_dirty_hint_buffer_into_flushlist first, which
\* looks at the oldest LSN without a lock ...
HintSave(p) ==
    LET b == pb[p] IN
    /\ pc[p] = "hsave"
    /\ Step(p, IF pageLsn[b] > redoRecPtr THEN "hdirty"
               ELSE IF oldestLsn[b] = Invalid THEN "hlist" ELSE "hlog")
    /\ UNCHANGED <<walVars, bufVars, copyVars, diskVars, consistentLsn,
                   replVars, ckptVars, recVars>>

\* ... and, under the list lock, again, and at BM_DIRTY.
HintList(p) ==
    LET b == pb[p] IN
    /\ pc[p] = "hlist"
    /\ ~ListLocked(b)
    /\ IF oldestLsn[b] # Invalid \/ dirty[b]
       THEN Step(p, "hlog")
       ELSE StepHolding(p, "hput", insertLsn)
    /\ UNCHANGED <<walVars, bufVars, copyVars, diskVars, consistentLsn,
                   replVars, ckptVars, recVars>>

HintPut(p) ==
    /\ pc[p] = "hput"
    /\ oldestLsn' = [oldestLsn EXCEPT ![pb[p]] = plsn[p]]
    /\ StepHolding(p, "hlog", 0)
    /\ UNCHANGED <<walVars, dirty, justDirtied, pageLsn, touched,
                   copyOf, copyVars, diskVars, consistentLsn, replVars,
                   ckptVars, recVars>>

HintLog(p) ==
    /\ pc[p] = "hlog"
    /\ Append1(pb[p], TRUE)
    /\ StepHolding(p, "hdirty", insertLsn + 1)
    /\ UNCHANGED <<walFlushed, bufVars, copyVars, diskVars, consistentLsn,
                   replVars, ckptVars, recVars>>

\* The page LSN is set only if the buffer is not dirty by then.
HintDirty(p) ==
    LET b == pb[p] IN
    /\ pc[p] = "hdirty"
    /\ pageLsn' = [pageLsn EXCEPT ![b] =
                      IF ~dirty[b] /\ plsn[p] # Invalid THEN plsn[p] ELSE @]
    /\ dirty' = [dirty EXCEPT ![b] = TRUE]
    /\ justDirtied' = [justDirtied EXCEPT ![b] = TRUE]
    /\ Done(p)
    /\ ckptWait' = ckptWait \ {p}
    /\ UNCHANGED <<walVars, oldestLsn, touched, copyOf, copyVars,
                   diskVars, consistentLsn, replVars, redoRecPtr, ckptRunning,
                   ckptRedo, recVars>>

-----------------------------------------------------------------------------
(* Flushing: the page itself, its copy, or making a copy. *)

\* Mutant: off by one, a page one record ahead of the replicas passes.
CanBeFlushedAhead(b, apply) ==
    apply = Invalid \/ pageLsn[b] <= apply + 1 \/ b \in Ungated

\* polar_buffer_can_be_flushed with use_cbuf false and true.
CanBeFlushed(b, apply) ==
    apply = Invalid \/ pageLsn[b] <= apply \/ b \in Ungated
CopyCanBeFlushed(b, apply) ==
    \/ CanBeFlushed(b, apply)
    \/ copyOf[b] # NoCopy /\ cLsn[copyOf[b]] <= apply

\* polar_buffer_copy_is_satisfied but for the thresholds on lag and count.
CopyIsSatisfied(b, apply) ==
    /\ apply # Invalid /\ b \notin Ungated /\ pageLsn[b] > apply
    /\ copyOf[b] = NoCopy
    /\ oldestLsn[b] # Invalid

\* SyncOneBuffer reads the oldest apply LSN before it takes the content lock.
SyncOneBuffer(p, b) ==
    /\ pc[p] = "idle"
    /\ dirty[b]
    /\ Enter(p, "sync", b, oldestApply)
    /\ UNCHANGED <<walVars, bufVars, copyVars, diskVars, consistentLsn,
                   replVars, ckptVars, recVars>>

SyncLocked(p) ==
    LET b == pb[p] IN
    /\ pc[p] = "sync"
    /\ ~ExclLocked(b)
    /\ \/ CanBeFlushed(b, plsn[p]) /\ Step(p, "fstart")
       \/ /\ ~CanBeFlushed(b, plsn[p])
          /\ CopyCanBeFlushed(b, plsn[p])
          /\ Step(p, "cstart")
       \/ /\ ~CopyCanBeFlushed(b, plsn[p])
          /\ CopyIsSatisfied(b, plsn[p])
          /\ Step(p, "copy")
       \/ ~CopyCanBeFlushed(b, plsn[p]) /\ Done(p)
    /\ UNCHANGED <<walVars, bufVars, copyVars, diskVars, consistentLsn,
                   replVars, ckptVars, recVars>>

\* GetVictimBuffer reads it after the (conditional) content lock.
GetVictimBuffer(p, b) ==
    /\ pc[p] = "idle"
    /\ dirty[b] /\ ~ExclLocked(b)
    /\ CanBeFlushed(b, oldestApply)
    /\ Enter(p, "fstart", b, oldestApply)
    /\ UNCHANGED <<walVars, bufVars, copyVars, diskVars, consistentLsn,
                   replVars, ckptVars, recVars>>

\* FlushRelationBuffers, FlushRelationsAllBuffers and FlushDatabaseBuffers
\* flush a dirty page whatever its LSN, without buffer flush control.
FlushRelationBuffers(p, b) ==
    /\ pc[p] = "idle"
    /\ dirty[b] /\ ~ExclLocked(b)
    /\ Enter(p, "fstart", b, 0)
    /\ direct' = direct \cup {p}
    /\ UNCHANGED <<walVars, bufVars, copyVars, diskLsn, unchecked,
                   consistentLsn, replVars, ckptVars, recVars>>

\* FlushBuffer: start the I/O unless the buffer is clean by now; then clear
\* BM_JUST_DIRTIED and read the page LSN under the header lock.
FlushStart(p) ==
    LET b == pb[p] IN
    /\ pc[p] = "fstart"
    /\ ~IoInProgress(b)
    /\ IF dirty[b]
       THEN /\ justDirtied' = [justDirtied EXCEPT ![b] = FALSE]
            /\ StepHolding(p, "fwal", pageLsn[b])
            /\ UNCHANGED direct
       ELSE Done(p) /\ direct' = direct \ {p} /\ UNCHANGED justDirtied
    /\ UNCHANGED <<walVars, dirty, pageLsn, oldestLsn, touched,
                   copyOf, copyVars, diskLsn, unchecked, consistentLsn,
                   replVars, ckptVars, recVars>>

\* FLUSH_NOWAIT gives up when somebody else has the content lock or does I/O
\* on the buffer.
FlushSkip(p) ==
    /\ \/ pc[p] = "sync" /\ ExclLocked(pb[p])
       \/ pc[p] = "fstart" /\ p \notin direct /\ IoInProgress(pb[p])
    /\ Done(p)
    /\ UNCHANGED <<walVars, bufVars, copyVars, diskVars, consistentLsn,
                   replVars, ckptVars, recVars>>

\* Mutant: no XLogFlush before the write.
FlushNoXLog(p) ==
    /\ pc[p] = "fwal"
    /\ Step(p, "fwrite")
    /\ UNCHANGED <<walVars, bufVars, copyVars, diskVars, consistentLsn, replVars,
                   ckptVars, recVars>>

FlushXLog(p) ==
    /\ pc[p] = "fwal"
    /\ walFlushed' = MaxOf(walFlushed, plsn[p])
    /\ Step(p, "fwrite")
    /\ UNCHANGED <<insertLsn, wal, bufVars, copyVars, diskVars, consistentLsn,
                   replVars, ckptVars, recVars>>

FlushWrite(p) ==
    /\ pc[p] = "fwrite"
    /\ diskLsn' = [diskLsn EXCEPT ![pb[p]] = pageLsn[pb[p]]]
    /\ unchecked' = IF p \in direct THEN unchecked \cup ({pb[p]} \ Ungated)
                                    ELSE unchecked \ {pb[p]}
    /\ Step(p, "ffree")
    /\ UNCHANGED <<walVars, bufVars, copyVars, direct, consistentLsn,
                   replVars, ckptVars, recVars>>

\* polar_free_copy_buffer
FreeCopyBuffer(b) ==
    IF copyOf[b] = NoCopy
    THEN UNCHANGED <<copyOf, touched, cOldest, cLsn>>
    ELSE /\ copyOf' = [copyOf EXCEPT ![b] = NoCopy]
         /\ touched' = [touched EXCEPT ![b] = FALSE]
         /\ cOldest' = [cOldest EXCEPT ![copyOf[b]] = Invalid]
         /\ cLsn' = [cLsn EXCEPT ![copyOf[b]] = Invalid]

FlushFreeCopy(p) ==
    /\ pc[p] = "ffree"
    /\ FreeCopyBuffer(pb[p])
    /\ Step(p, "freset")
    /\ UNCHANGED <<walVars, dirty, justDirtied, pageLsn, oldestLsn,
                   diskVars, consistentLsn, replVars, ckptVars, recVars>>

\* polar_reset_buffer_oldest_lsn
FlushReset(p) ==
    LET b == pb[p] IN
    /\ pc[p] = "freset"
    /\ IF oldestLsn[b] = Invalid
       THEN UNCHANGED <<oldestLsn, touched>>
       ELSE /\ ~ListLocked(b)
            /\ oldestLsn' = [oldestLsn EXCEPT ![b] = Invalid]
            /\ touched' = [touched EXCEPT ![b] = FALSE]
    /\ Step(p, "fend")
    /\ UNCHANGED <<walVars, dirty, justDirtied, pageLsn, copyOf, copyVars,
                   diskVars, consistentLsn, replVars, ckptVars, recVars>>

\* TerminateBufferIO with clear_dirty, and the release of the content lock.
FlushEnd(p) ==
    /\ pc[p] = "fend"
    /\ dirty' = [dirty EXCEPT ![pb[p]] = justDirtied[pb[p]]]
    /\ Done(p) /\ direct' = direct \ {p}
    /\ UNCHANGED <<walVars, justDirtied, pageLsn, oldestLsn, touched,
                   copyOf, copyVars, diskLsn, unchecked, consistentLsn,
                   replVars, ckptVars, recVars>>

\* Mutant: the copy is written without starting I/O on its buffer.
CopyFlushNoIo(p) ==
    LET b == pb[p] IN
    /\ pc[p] = "cstart"
    /\ IF dirty[b] /\ copyOf[b] # NoCopy /\ CopyCanBeFlushed(b, oldestApply)
       THEN diskLsn' = [diskLsn EXCEPT ![b] = cLsn[copyOf[b]]]
       ELSE UNCHANGED diskLsn
    /\ Done(p)
    /\ UNCHANGED <<walVars, bufVars, copyVars, direct, unchecked, consistentLsn,
                   replVars, ckptVars, recVars>>

\* polar_flush_copy_buffer: start the I/O, then check again with a fresh
\* oldest apply LSN.
CopyFlushStart(p) ==
    LET b == pb[p] IN
    /\ pc[p] = "cstart"
    /\ ~IoInProgress(b)
    /\ IF dirty[b] /\ copyOf[b] # NoCopy /\ CopyCanBeFlushed(b, oldestApply)
       THEN Step(p, "cwal")
       ELSE Done(p)
    /\ UNCHANGED <<walVars, bufVars, copyVars, diskVars, consistentLsn,
                   replVars, ckptVars, recVars>>

CopyFlushXLog(p) ==
    /\ pc[p] = "cwal"
    /\ walFlushed' = MaxOf(walFlushed, cLsn[copyOf[pb[p]]])
    /\ Step(p, "cwrite")
    /\ UNCHANGED <<insertLsn, wal, bufVars, copyVars, diskVars, consistentLsn,
                   replVars, ckptVars, recVars>>

CopyFlushWrite(p) ==
    /\ pc[p] = "cwrite"
    /\ diskLsn' = [diskLsn EXCEPT ![pb[p]] = cLsn[copyOf[pb[p]]]]
    /\ unchecked' = unchecked \ {pb[p]}
    /\ Step(p, "cfree")
    /\ UNCHANGED <<walVars, bufVars, copyVars, direct, consistentLsn,
                   replVars, ckptVars, recVars>>

\* The original buffer stays dirty.
CopyFlushEnd(p) ==
    /\ pc[p] = "cfree"
    /\ FreeCopyBuffer(pb[p])
    /\ Done(p)
    /\ UNCHANGED <<walVars, dirty, justDirtied, pageLsn, oldestLsn,
                   diskVars, consistentLsn, replVars, ckptVars, recVars>>

\* Mutant: copy_buffer_alloc takes a descriptor past the last one.
CopyPastEnd(p) ==
    /\ pc[p] = "copy"
    /\ ~IoInProgress(pb[p])
    /\ copyOf' = [copyOf EXCEPT ![pb[p]] = NCopy + 1]
    /\ Done(p)
    /\ UNCHANGED <<walVars, dirty, justDirtied, pageLsn, oldestLsn, touched,
                   copyVars, diskVars, consistentLsn, replVars,
                   ckptVars, recVars>>

\* copy_buffer_alloc, from start_copy_buffer_io to TerminateBufferIO: only
\* holders of the exclusive content lock or of the I/O could tell the steps
\* apart.
CopyBuffer(p) ==
    LET b == pb[p] IN
    /\ pc[p] = "copy"
    /\ ~IoInProgress(b)
    /\ \/ /\ dirty[b] /\ CopyIsSatisfied(b, plsn[p])
          /\ \E c \in CopyBuffers :
                /\ cOldest[c] = Invalid
                /\ cOldest' = [cOldest EXCEPT ![c] = oldestLsn[b]]
                /\ cLsn' = [cLsn EXCEPT ![c] = pageLsn[b]]
                /\ copyOf' = [copyOf EXCEPT ![b] = c]
       \/ /\ \/ ~dirty[b] \/ ~CopyIsSatisfied(b, plsn[p])
             \/ \A c \in CopyBuffers : cOldest[c] # Invalid
          /\ UNCHANGED <<cOldest, cLsn, copyOf>>
    /\ Done(p)
    /\ UNCHANGED <<walVars, dirty, justDirtied, pageLsn, oldestLsn, touched,
                   diskVars, consistentLsn, replVars, ckptVars,
                   recVars>>

-----------------------------------------------------------------------------
(* The consistent LSN. *)

\* polar_max_valid_lsn: the insert position, or during recovery the start of
\* the record that was replayed last, or of the next one when its replay has
\* begun (it is published before the record is replayed).  The redo point, as
\* long as nothing is replayed.
MaxValidLsns ==
    IF mode = "run" THEN {insertLsn}
    ELSE {MaxOf(ckptRedo, replayLsn - 1)} \cup {l \in {replayLsn} : l < insertLsn}

InFlushList == {b \in Buffers : oldestLsn[b] # Invalid}

\* Mutant: the lists are read without their locks.
CalWithoutLocks(p) ==
    /\ pc[p] = "idle"
    /\ pcur' = [pcur EXCEPT ![p] = consistentLsn]
    /\ pscan' = [pscan EXCEPT ![p] = 1]
    /\ \/ /\ InFlushList = {} /\ Goto(p, "calset")
          /\ \E l \in MaxValidLsns : Hold(p, l)
       \/ \E b \in InFlushList :
             /\ \A a \in InFlushList : oldestLsn[b] <= oldestLsn[a]
             /\ Goto(p, "calcopy") /\ Hold(p, oldestLsn[b])
    /\ UNCHANGED <<walVars, bufVars, copyVars, diskVars, consistentLsn,
                   replVars, ckptVars, recVars, pb>>

\* polar_cal_cur_consistent_lsn under all the list locks.  The first buffer of
\* each list has its least oldest LSN.
CalFlushLists(p) ==
    /\ pc[p] = "idle"
    /\ ~SomeListLocked
    /\ pcur' = [pcur EXCEPT ![p] = consistentLsn]
    /\ pscan' = [pscan EXCEPT ![p] = 1]
    /\ \/ /\ InFlushList = {} /\ Goto(p, "calset")
          /\ \E l \in MaxValidLsns : Hold(p, l)
       \/ \E b \in InFlushList :
             /\ \A a \in InFlushList : oldestLsn[b] <= oldestLsn[a]
             /\ Goto(p, "calcopy") /\ Hold(p, oldestLsn[b])
    /\ UNCHANGED <<walVars, bufVars, copyVars, diskVars, consistentLsn,
                   replVars, ckptVars, recVars, pb>>

\* Mutant: the copy buffers are not looked at.
CalSkipsCopies(p) ==
    /\ pc[p] = "calcopy"
    /\ Goto(p, "calset")
    /\ UNCHANGED <<walVars, bufVars, copyVars, diskVars, consistentLsn, replVars,
                   ckptVars, recVars, pb, plsn, pcur, pscan>>

\* polar_copy_buffers_get_oldest_lsn, one atomic read at a time.
CalCopyBuffers(p) ==
    LET c == pscan[p] IN
    /\ pc[p] = "calcopy"
    /\ IF c \in CopyBuffers
       THEN /\ Hold(p, IF cOldest[c] # Invalid /\ cOldest[c] < plsn[p]
                       THEN cOldest[c] ELSE plsn[p])
            /\ pscan' = [pscan EXCEPT ![p] = c + 1]
            /\ UNCHANGED pc
       ELSE Goto(p, "calset") /\ UNCHANGED <<plsn, pscan>>
    /\ UNCHANGED <<walVars, bufVars, copyVars, diskVars, consistentLsn,
                   replVars, ckptVars, recVars, pb, pcur>>

\* polar_set_consistent_lsn
SetConsistentLsn(p) ==
    /\ pc[p] = "calset"
    /\ consistentLsn' = IF mode = "run" THEN MaxOf(consistentLsn, plsn[p])
                                        ELSE consistentLsn
    /\ Goto(p, "idle") /\ Hold(p, 0)
    /\ pcur' = [pcur EXCEPT ![p] = 0]
    /\ pscan' = [pscan EXCEPT ![p] = 1]
    /\ UNCHANGED <<walVars, bufVars, copyVars, diskVars, replVars, ckptVars,
                   recVars, pb>>

-----------------------------------------------------------------------------
(* Checkpoints. *)

\* Mutant: the consistent LSN is taken before it is known.
CkptBeginUnset ==
    /\ mode = "run" /\ ~ckptRunning /\ Room
    /\ redoRecPtr' = consistentLsn
    /\ insertLsn' = insertLsn + 1
    /\ ckptRunning' = TRUE
    /\ ckptWait' = {p \in Procs : DelaysCkpt(p)}
    /\ UNCHANGED <<walFlushed, wal, bufVars, copyVars, diskVars, consistentLsn,
                   replVars, ckptRedo, recVars, procVars>>

\* The first half of CreateCheckPoint: the redo point is the consistent LSN
\* (incremental) or the start of the XLOG_CHECKPOINT_REDO record.
CkptBegin ==
    /\ mode = "run" /\ ~ckptRunning /\ Room
    /\ \/ consistentLsn # Invalid /\ redoRecPtr' = consistentLsn
       \/ redoRecPtr' = insertLsn
    /\ insertLsn' = insertLsn + 1
    /\ ckptRunning' = TRUE
    /\ ckptWait' = {p \in Procs : DelaysCkpt(p)}
    /\ UNCHANGED <<walFlushed, wal, bufVars, copyVars, diskVars, consistentLsn,
                   replVars, ckptRedo, recVars, procVars>>

\* Mutant: no wait for the consistent LSN.
CkptEndNoWait ==
    /\ ckptRunning /\ ckptWait = {} /\ Room
    /\ insertLsn' = insertLsn + 1
    /\ walFlushed' = insertLsn + 1
    /\ ckptRedo' = redoRecPtr
    /\ ckptRunning' = FALSE
    /\ UNCHANGED <<wal, bufVars, copyVars, diskVars, consistentLsn, replVars,
                   redoRecPtr, ckptWait, recVars, procVars>>

\* The second half, once polar_is_checkpoint_legal: the checkpoint record is
\* flushed and the control file written.
CkptEnd ==
    /\ ckptRunning /\ ckptWait = {} /\ Room
    /\ redoRecPtr <= consistentLsn
    /\ insertLsn' = insertLsn + 1
    /\ walFlushed' = insertLsn + 1
    /\ ckptRedo' = redoRecPtr
    /\ ckptRunning' = FALSE
    /\ UNCHANGED <<wal, bufVars, copyVars, diskVars, consistentLsn, replVars,
                   redoRecPtr, ckptWait, recVars, procVars>>

-----------------------------------------------------------------------------
(* WAL flush, replicas, crash and recovery. *)

\* XLogFlush for a commit or by the WAL writer.
XLogFlush ==
    /\ mode = "run" /\ walFlushed < insertLsn
    /\ walFlushed' = insertLsn
    /\ UNCHANGED <<insertLsn, wal, bufVars, copyVars, diskVars, consistentLsn,
                   replVars, ckptVars, recVars, procVars>>

\* polar_compute_and_set_replica_lsn and polar_set_oldest_replica_lsn
SetOldestReplicaLsn(slots) ==
    LET valid == {r \in Replicas : slots[r] # Invalid}
    IN  \/ valid = {} /\ oldestApply' = Invalid
        \/ \E r \in valid :
              /\ \A q \in valid : slots[r] <= slots[q]
              /\ oldestApply' = MaxOf(oldestApply, slots[r])

\* polar_record_replica_lsn: a replica reports what it has applied of the
\* flushed WAL; its first report attaches it.
ReplicaReply(r, l) ==
    /\ mode = "run"
    /\ applyLsn[r] < l /\ l <= walFlushed
    /\ applyLsn[r] # Invalid \/ WithChurn
    /\ applyLsn' = [applyLsn EXCEPT ![r] = l]
    /\ SetOldestReplicaLsn(applyLsn')
    /\ UNCHANGED <<walVars, bufVars, copyVars, diskVars, consistentLsn,
                   ckptVars, recVars, procVars>>

\* ReplicationSlotDropAcquired
DropSlot(r) ==
    /\ WithChurn /\ mode = "run" /\ applyLsn[r] # Invalid
    /\ applyLsn' = [applyLsn EXCEPT ![r] = Invalid]
    /\ SetOldestReplicaLsn(applyLsn')
    /\ UNCHANGED <<walVars, bufVars, copyVars, diskVars, consistentLsn,
                   ckptVars, recVars, procVars>>

\* Memory and unflushed WAL are lost; StartupXLOG starts at the redo point
\* and resets the LSNs of XLogCtl.  Slots are kept on disk.
Crash ==
    /\ crashes < MaxCrash
    /\ crashes' = crashes + 1
    /\ mode' = "redo" /\ replayLsn' = ckptRedo
    /\ insertLsn' = walFlushed
    /\ wal' = {r \in wal : r.start < walFlushed}
    /\ dirty' = [b \in Buffers |-> FALSE]
    /\ justDirtied' = [b \in Buffers |-> FALSE]
    /\ pageLsn' = diskLsn
    /\ oldestLsn' = [b \in Buffers |-> Invalid]
    /\ touched' = [b \in Buffers |-> FALSE]
    /\ copyOf' = [b \in Buffers |-> NoCopy]
    /\ cOldest' = [c \in CopyBuffers |-> Invalid]
    /\ cLsn' = [c \in CopyBuffers |-> Invalid]
    /\ direct' = {}
    /\ consistentLsn' = Invalid /\ oldestApply' = Invalid
    /\ redoRecPtr' = ckptRedo /\ ckptRunning' = FALSE /\ ckptWait' = {}
    /\ pc' = [p \in Procs |-> "idle"] /\ pb' = [p \in Procs |-> NoBuf]
    /\ plsn' = [p \in Procs |-> 0] /\ pcur' = [p \in Procs |-> 0]
    /\ pscan' = [p \in Procs |-> 1]
    /\ UNCHANGED <<walFlushed, diskLsn, unchecked, applyLsn, ckptRedo>>

\* Mutant: a page whose LSN is where the record starts is taken to have it.
RedoSkipsEqual ==
    /\ mode = "redo" /\ replayLsn < insertLsn
    /\ \/ /\ \A r \in wal : r.start # replayLsn
          /\ UNCHANGED <<dirty, justDirtied, pageLsn, oldestLsn>>
       \/ \E r \in wal :
             /\ r.start = replayLsn
             /\ ~ExclLocked(r.buf) /\ ~ShareLocked(r.buf)
             /\ IF r.image \/ pageLsn[r.buf] < r.start
                THEN /\ pageLsn' = [pageLsn EXCEPT ![r.buf] = r.start + 1]
                     /\ dirty' = [dirty EXCEPT ![r.buf] = TRUE]
                     /\ justDirtied' = [justDirtied EXCEPT ![r.buf] = TRUE]
                     /\ oldestLsn' = [oldestLsn EXCEPT ![r.buf] =
                                        IF @ = Invalid THEN r.start ELSE @]
                ELSE UNCHANGED <<dirty, justDirtied, pageLsn, oldestLsn>>
    /\ replayLsn' = replayLsn + 1
    /\ UNCHANGED <<walVars, touched, copyOf, copyVars, diskVars, consistentLsn,
                   replVars, ckptVars, mode, crashes, procVars>>

\* The startup process replays one record.  A full-page image is restored
\* whatever the LSN of the page, any other record only on an older page; the
\* buffer gets the start of the record as its oldest LSN.
RedoRecord ==
    /\ mode = "redo" /\ replayLsn < insertLsn
    /\ \/ /\ \A r \in wal : r.start # replayLsn
          /\ UNCHANGED <<dirty, justDirtied, pageLsn, oldestLsn>>
       \/ \E r \in wal :
             /\ r.start = replayLsn
             /\ ~ExclLocked(r.buf) /\ ~ShareLocked(r.buf)
             /\ IF r.image \/ pageLsn[r.buf] <= r.start
                THEN /\ pageLsn' = [pageLsn EXCEPT ![r.buf] = r.start + 1]
                     /\ dirty' = [dirty EXCEPT ![r.buf] = TRUE]
                     /\ justDirtied' = [justDirtied EXCEPT ![r.buf] = TRUE]
                     /\ oldestLsn' = [oldestLsn EXCEPT ![r.buf] =
                                        IF @ = Invalid THEN r.start ELSE @]
                ELSE UNCHANGED <<dirty, justDirtied, pageLsn, oldestLsn>>
    /\ replayLsn' = replayLsn + 1
    /\ UNCHANGED <<walVars, touched, copyOf, copyVars, diskVars, consistentLsn,
                   replVars, ckptVars, mode, crashes, procVars>>

EndRecovery ==
    /\ mode = "redo" /\ replayLsn = insertLsn
    /\ mode' = "run"
    /\ UNCHANGED <<walVars, bufVars, copyVars, diskVars, consistentLsn,
                   replVars, ckptVars, replayLsn, crashes, procVars>>

-----------------------------------------------------------------------------
Init ==
    /\ insertLsn = 1 /\ walFlushed = 1 /\ wal = {}
    /\ dirty = [b \in Buffers |-> FALSE]
    /\ justDirtied = [b \in Buffers |-> FALSE]
    /\ pageLsn = [b \in Buffers |-> 1]
    /\ oldestLsn = [b \in Buffers |-> Invalid]
    /\ touched = [b \in Buffers |-> FALSE]
    /\ copyOf = [b \in Buffers |-> NoCopy]
    /\ cOldest = [c \in CopyBuffers |-> Invalid]
    /\ cLsn = [c \in CopyBuffers |-> Invalid]
    /\ diskLsn = [b \in Buffers |-> 1] /\ direct = {} /\ unchecked = {}
    /\ consistentLsn = Invalid
    /\ oldestApply = IF Replicas = {} THEN Invalid ELSE InitApply
    /\ applyLsn = [r \in Replicas |-> InitApply]
    /\ redoRecPtr = 1 /\ ckptRunning = FALSE /\ ckptWait = {} /\ ckptRedo = 1
    /\ mode = "run" /\ replayLsn = 1 /\ crashes = 0
    /\ pc = [p \in Procs |-> "idle"] /\ pb = [p \in Procs |-> NoBuf]
    /\ plsn = [p \in Procs |-> 0] /\ pcur = [p \in Procs |-> 0]
    /\ pscan = [p \in Procs |-> 1]

Update(p) ==
    \/ \E b \in Buffers : LockForUpdate(p, b)
    \/ MarkBufferDirty(p) \/ PutBuffer(p) \/ AdjustPosition(p)
    \/ XLogInsert(p) \/ PageSetLSN(p)

Hint(p) ==
    \/ \E b \in Buffers : HintStart(p, b)
    \/ HintSave(p) \/ HintList(p) \/ HintPut(p) \/ HintLog(p) \/ HintDirty(p)

Flush(p) ==
    \/ \E b \in Buffers : SyncOneBuffer(p, b) \/ GetVictimBuffer(p, b)
                         \/ FlushRelationBuffers(p, b)
    \/ SyncLocked(p) \/ FlushStart(p) \/ FlushSkip(p) \/ FlushXLog(p)
    \/ FlushWrite(p) \/ FlushFreeCopy(p) \/ FlushReset(p) \/ FlushEnd(p)

Copy(p) ==
    \/ CopyFlushStart(p) \/ CopyFlushXLog(p) \/ CopyFlushWrite(p)
    \/ CopyFlushEnd(p) \/ CopyBuffer(p)

Calculate(p) == CalFlushLists(p) \/ CalCopyBuffers(p) \/ SetConsistentLsn(p)

Replicate ==
    \/ \E r \in Replicas : \E l \in 1 .. walFlushed : ReplicaReply(r, l)
    \/ \E r \in Replicas : DropSlot(r)

Recover == Crash \/ RedoRecord \/ EndRecovery

Next ==
    \/ \E p \in Procs :
          Update(p) \/ Hint(p) \/ Flush(p) \/ Copy(p) \/ Calculate(p)
    \/ CkptBegin \/ CkptEnd \/ XLogFlush \/ Replicate \/ Recover

Spec == Init /\ [][Next]_vars

-----------------------------------------------------------------------------
(* Properties. *)

\* Every variable stays in its domain.
TypeOK ==
    /\ insertLsn \in Lsn /\ walFlushed \in Lsn /\ wal \subseteq Record
    /\ dirty \in [Buffers -> BOOLEAN] /\ justDirtied \in [Buffers -> BOOLEAN]
    /\ pageLsn \in [Buffers -> Lsn] /\ oldestLsn \in [Buffers -> Lsn]
    /\ touched \in [Buffers -> BOOLEAN]
    /\ copyOf \in [Buffers -> CopyBuffers \cup {NoCopy}]
    /\ cOldest \in [CopyBuffers -> Lsn] /\ cLsn \in [CopyBuffers -> Lsn]
    /\ diskLsn \in [Buffers -> Lsn]
    /\ direct \subseteq Procs /\ unchecked \subseteq Buffers
    /\ consistentLsn \in Lsn /\ oldestApply \in Lsn
    /\ applyLsn \in [Replicas -> Lsn]
    /\ redoRecPtr \in Lsn /\ ckptRunning \in BOOLEAN
    /\ ckptWait \subseteq Procs /\ ckptRedo \in Lsn
    /\ mode \in {"run", "redo"} /\ replayLsn \in Lsn /\ crashes \in Nat
    /\ pc \in [Procs -> Pcs] /\ pb \in [Procs -> Buffers \cup {NoBuf}]
    /\ plsn \in [Procs -> Lsn] /\ pcur \in [Procs -> Lsn]
    /\ pscan \in [Procs -> Nat]

\* Every change that is logged before the consistent LSN is on disk: a
\* replica, or recovery, that starts at the consistent LSN misses nothing
\* (what polar_cal_cur_consistent_lsn promises).  Hint bits may be lost.
ConsistentLsnSafe ==
    \A r \in wal :
        ~r.hint /\ r.start < consistentLsn => diskLsn[r.buf] > r.start

\* The same for the redo point in the control file, from which a crash at
\* this moment would recover (CreateCheckPoint).
RedoPointSafe ==
    \A r \in wal : ~r.hint /\ r.start < ckptRedo => diskLsn[r.buf] > r.start

\* Outside recovery, whatever crashes there have been, every page in memory
\* has every change in the WAL, but for the one whose XLogInsert has returned
\* and whose PageSetLSN is still to come.
NoLostUpdate ==
    mode = "run" =>
        \A r \in wal :
            \/ r.hint \/ pageLsn[r.buf] > r.start
            \/ \E p \in Procs : AtBuf(p, r.buf, {"setlsn"}) /\ plsn[p] = r.start + 1

\* A page on disk has no change whose WAL could be lost (XLogFlush before
\* smgrwrite in FlushBuffer and polar_flush_copy_buffer).
WalBeforeData == \A b \in Buffers : diskLsn[b] <= walFlushed

\* The PANIC of update_consistent_lsn_delta cannot happen: what is computed is
\* not below the consistent LSN read before.
ConsistentLsnAdvances ==
    \A p \in Procs : pc[p] = "calset" /\ mode = "run" => plsn[p] >= pcur[p]

\* The WARNING of polar_reset_buffer_oldest_lsn that "should not happen": no
\* buffer of the flush list is older than the consistent LSN.
OldestNotBehind ==
    \A b \in Buffers : oldestLsn[b] # Invalid => oldestLsn[b] >= consistentLsn

\* The PANIC of CreateCheckPoint, "redoptr shouldn't fall back", cannot happen.
RedoNeverFallsBack == redoRecPtr >= ckptRedo

\* A flush that looks at polar_buffer_can_be_flushed (the background writers,
\* the checkpointer, GetVictimBuffer, copy buffers) leaves no page on the
\* storage that some replica has not replayed yet, by the oldest apply LSN of
\* now and not by the one the flusher read.  Nothing is said of a page flushed
\* last by FlushRelationBuffers and its like, which do not look at the gate.
NoFuturePage ==
    \A b \in Buffers \ (Ungated \cup unchecked) :
        oldestApply # Invalid => diskLsn[b] <= oldestApply

\* A write to the storage never takes back a change that was there, be it of
\* a copy buffer or of the page.  During recovery this is so of the records
\* replayed already: a full-page image restored from an earlier record puts the
\* page back to that record, and replay then goes over the later ones again.
DiskKeepsChanges ==
    [][\A r \in wal : ~r.hint /\ diskLsn[r.buf] > r.start
                      /\ (mode = "run" \/ r.start < replayLsn)
                      => diskLsn'[r.buf] > r.start]_vars

\* MarkBufferDirtyHint: a hint that is logged is known to the flush list, so
\* that the consistent LSN does not pass its record before the page is on disk.
HintCovered ==
    \A r \in wal : r.start < consistentLsn => diskLsn[r.buf] > r.start
=============================================================================
