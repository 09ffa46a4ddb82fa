---------------------------- MODULE CsnSnapshot ----------------------------
(***************************************************************************)
(* Commit sequence numbers, the reading side: GetSnapshotDataCSN, which    *)
(* takes a snapshot without any lock, the visibility checks against it     *)
(* (XidVisibleInSnapshotCSN, CommittedXidVisibleInSnapshotCSN), the lookup *)
(* of a CSN in the csnlog, and the checkpoint that truncates the csnlog    *)
(* after ComputeXidHorizons.                                               *)
(***************************************************************************)
EXTENDS CsnCommit

CONSTANTS Readers,          \* backends that take snapshots
          Vacuuming,        \* those of them with PROC_IN_VACUUM
          ListModes,        \* values polar_csn_xid_snapshot may have
          ListMax,          \* GetMaxSnapshotSubxidCount()
          MaxCheckpoints    \* bound

ASSUME CsnSnapshotAssumption ==
    /\ Readers \cap Writers = {} /\ Vacuuming \subseteq Readers
    /\ ListModes \subseteq BOOLEAN
    /\ ListMax \in Nat /\ MaxCheckpoints \in Nat

VARIABLES rpc,
          procXmin,     \* MyProc->xmin and TransactionXmin
          snap,         \* the SnapshotData
          asOf,         \* the xids that had a CSN when the snapshot read its own
          listXid,      \* next xid polar_csnlog_get_running_xids looks at
          asked,        \* the xid whose visibility is checked
          check,        \* what the answer is made from
          walk,         \* xids of the calls of polar_csnlog_get_csn_recursive
          found,        \* the CSN found so far
          waited,       \* CommitSeqNoLock was waited for
          cache,        \* polar_cached_csn_xid, polar_cached_csn
          ckpt          \* the checkpoint in progress

checkVars == <<asked, check, walk, found, waited, cache>>
readVars == <<rpc, procXmin, snap, asOf, listXid, checkVars>>
vars == <<commitVars, readVars, ckpt>>

NoSnap == [xmin |-> InvalidXid, csn |-> InProgress, xmax |-> InvalidXid,
           isList |-> FALSE, list |-> {}, overflowed |-> FALSE]

Init ==
    /\ CommitInit
    /\ rpc = [r \in Readers |-> "none"]
    /\ procXmin = [r \in Readers |-> InvalidXid]
    /\ snap = [r \in Readers |-> NoSnap]
    /\ asOf = [r \in Readers |-> {}]
    /\ listXid = [r \in Readers |-> InvalidXid]
    /\ asked = [r \in Readers |-> InvalidXid]
    /\ check = [r \in Readers |-> "no"]
    /\ walk = [r \in Readers |-> {}]
    /\ found = [r \in Readers |-> InProgress]
    /\ waited = [r \in Readers |-> FALSE]
    /\ cache = [r \in Readers |-> [xid |-> InvalidXid, csn |-> InProgress]]
    /\ ckpt = [pc |-> "idle", cap |-> InvalidXid, horizon |-> InvalidXid,
               toScan |-> {}, truncated |-> 1, count |-> 0]

RGoto(r, from, to) == rpc[r] = from /\ rpc' = [rpc EXCEPT ![r] = to]

-----------------------------------------------------------------------------
(* GetSnapshotDataCSN.                                                     *)

\* The first snapshot of a transaction, or one more: then MyProc->xmin is set.
ReadOldestActive(r) ==
    /\ rpc[r] \in {"none", "ready"}
    /\ \E m \in ListModes :
          snap' = [snap EXCEPT ![r] = [NoSnap EXCEPT !.xmin = oldestActive, !.isList = m]]
    /\ rpc' = [rpc EXCEPT ![r] = IF procXmin[r] = InvalidXid THEN "announce" ELSE "csn"]
    /\ asOf' = [asOf EXCEPT ![r] = {}]
    /\ UNCHANGED <<commitVars, procXmin, listXid, checkVars, ckpt>>

AnnounceXmin(r) ==
    /\ RGoto(r, "announce", "recheck")
    /\ procXmin' = [procXmin EXCEPT ![r] = snap[r].xmin]
    /\ UNCHANGED <<commitVars, snap, asOf, listXid, checkVars, ckpt>>

\* Mutant: oldestActiveXid is not read again.
RecheckNothing(r) ==
    /\ RGoto(r, "recheck", "csn")
    /\ UNCHANGED <<commitVars, procXmin, snap, asOf, listXid, checkVars, ckpt>>

RecheckOldestActive(r) ==
    /\ RGoto(r, "recheck", "csn")
    /\ snap' = [snap EXCEPT ![r].xmin = oldestActive]
    /\ procXmin' = [procXmin EXCEPT ![r] = oldestActive]
    /\ UNCHANGED <<commitVars, asOf, listXid, checkVars, ckpt>>

\* The xids that have a CSN: it is in their entry, or on the way there.
HasCsn(x) ==
    \/ IsCommitted(csnlog[x])
    \/ \E w \in Writers : x \in stamp[w] /\ IsCommitted(stampCsn[w])

ReadNextCsn(r) ==
    /\ RGoto(r, "csn", "xmax")
    /\ snap' = [snap EXCEPT ![r].csn = nextCsn]
    /\ asOf' = [asOf EXCEPT ![r] = {x \in Xids : HasCsn(x)}]
    /\ UNCHANGED <<commitVars, procXmin, listXid, checkVars, ckpt>>

ReadLatestCompleted(r) ==
    /\ rpc[r] = "xmax"
    /\ snap' = [snap EXCEPT ![r].xmax = latestCompleted + 1]
    /\ IF snap[r].isList /\ snap[r].xmin < latestCompleted + 1
       THEN /\ rpc' = [rpc EXCEPT ![r] = "list"]
            /\ listXid' = [listXid EXCEPT ![r] = snap[r].xmin]
       ELSE rpc' = [rpc EXCEPT ![r] = "ready"] /\ UNCHANGED listXid
    /\ UNCHANGED <<commitVars, procXmin, asOf, checkVars, ckpt>>

\* Mutant: the array of running xids is taken to be large enough.
ListUnbounded(r) ==
    LET x == listXid[r]
        running == ~IsFinal(csnlog[x]) /\ ~IsSubTrans(csnlog[x])
    IN
    /\ rpc[r] = "list"
    /\ snap' = [snap EXCEPT ![r].list = IF running THEN @ \cup {x} ELSE @]
    /\ rpc' = [rpc EXCEPT ![r] = IF x + 1 = snap[r].xmax THEN "ready" ELSE "list"]
    /\ listXid' = [listXid EXCEPT ![r] = x + 1]
    /\ UNCHANGED <<commitVars, procXmin, asOf, checkVars, ckpt>>

\* polar_csnlog_get_running_xids, one entry.
ListRunning(r) ==
    LET x == listXid[r]
        c == csnlog[x]
        running == IsActive(c) \/ (IsCommitted(c) /\ c >= snap[r].csn)
        full == running /\ Cardinality(snap[r].list) = ListMax
    IN
    /\ rpc[r] = "list"
    /\ snap' = [snap EXCEPT ![r].overflowed = full,
                            ![r].list = IF running /\ ~full THEN @ \cup {x} ELSE @]
    /\ IF full \/ x + 1 = snap[r].xmax
       THEN /\ rpc' = [rpc EXCEPT ![r] = "ready"]
            /\ listXid' = [listXid EXCEPT ![r] = InvalidXid]
       ELSE listXid' = [listXid EXCEPT ![r] = x + 1] /\ UNCHANGED rpc
    /\ UNCHANGED <<commitVars, procXmin, asOf, checkVars, ckpt>>

\* The transaction of the reader ends: no snapshot, no MyProc->xmin.
DropSnapshot(r) ==
    /\ RGoto(r, "ready", "none")
    /\ procXmin' = [procXmin EXCEPT ![r] = InvalidXid]
    /\ snap' = [snap EXCEPT ![r] = NoSnap]
    /\ asOf' = [asOf EXCEPT ![r] = {}]
    /\ UNCHANGED <<commitVars, listXid, checkVars, ckpt>>

-----------------------------------------------------------------------------
(* Visibility checks.  A check is "yes" or "no" at once, or is made from   *)
(* the CSN that polar_xact_get_csn returns; it ends in "done".             *)

\* An xid is met in a tuple: a subtransaction sets its parent before it writes.
Written(x) == /\ x < nextXid
              /\ \A w \in Writers : ~(pc[w] = "sub" /\ IsLatest(x, open[w]))

\* XidInMVCCSnapshotCSN.
InList(r, x) == x >= snap[r].xmin /\ (x >= snap[r].xmax \/ x \in snap[r].list)

\* The beginning of polar_xact_get_csn: the single-item cache; the upper bound of
\* the group, for an xid known to be committed; an xid older than TransactionXmin
\* is looked up in the clog, any other in the csnlog.
Begin(r, x, how) ==
    LET bound == upperBound[UBSlot(x)]
        known == CASE how \in {"yes", "no"} -> found[r]
                   [] how \notin {"yes", "no"} /\ cache[r].xid = x -> cache[r].csn
                   [] OTHER -> bound
        atOnce == \/ how \in {"yes", "no"} \/ cache[r].xid = x
                  \/ how = "committed" /\ bound < snap[r].csn
    IN
    IF atOnce
    THEN /\ rpc' = [rpc EXCEPT ![r] = "done"]
         /\ found' = [found EXCEPT ![r] = known]
         /\ UNCHANGED walk
    ELSE /\ rpc' = [rpc EXCEPT ![r] = IF x < procXmin[r] THEN "clog" ELSE "down"]
         /\ walk' = [walk EXCEPT ![r] = IF x < procXmin[r] THEN {} ELSE {x}]
         /\ UNCHANGED found

Ask(r, x, how) ==
    /\ rpc[r] = "ready" /\ Written(x)
    /\ asked' = [asked EXCEPT ![r] = x]
    /\ check' = [check EXCEPT ![r] = how]
    /\ Begin(r, x, how)
    /\ UNCHANGED <<commitVars, procXmin, snap, asOf, listXid, waited, cache, ckpt>>

\* XidVisibleInSnapshotCSN.
XidVisible(r, x) ==
    Ask(r, x, CASE snap[r].isList /\ InList(r, x) -> "no"
                [] snap[r].isList /\ ~InList(r, x) /\ ~snap[r].overflowed -> "didcommit"
                [] ~snap[r].isList \/ (~InList(r, x) /\ snap[r].overflowed)
                     -> IF x >= snap[r].xmax THEN "no" ELSE "visible")

\* CommittedXidVisibleInSnapshotCSN, for an xid with a hint bit: some backend has
\* found its CSN.
CommittedXidVisible(r, x) ==
    /\ IsCommitted(csnlog[x])
    /\ Ask(r, x, CASE snap[r].isList /\ InList(r, x) -> "no"
                   [] snap[r].isList /\ ~InList(r, x) /\ ~snap[r].overflowed -> "yes"
                   [] ~snap[r].isList \/ (~InList(r, x) /\ snap[r].overflowed)
                        -> IF x < snap[r].xmin THEN "yes"
                           ELSE IF x >= snap[r].xmax THEN "no" ELSE "committed")

\* The end of polar_xact_get_csn: a final status is cached.
Finish(r, c) ==
    /\ found' = [found EXCEPT ![r] = c]
    /\ rpc' = [rpc EXCEPT ![r] = "done"]
    /\ cache' = IF IsFinal(c) THEN [cache EXCEPT ![r] = [xid |-> asked[r], csn |-> c]]
                ELSE cache

FetchFromClog(r) ==
    /\ rpc[r] = "clog"
    /\ Finish(r, clog[asked[r]])
    /\ UNCHANGED <<commitVars, procXmin, snap, asOf, listXid, asked, check, walk, waited,
                   ckpt>>

\* What polar_csnlog_get_csn returned.  A transaction that is committing is
\* waited for, once.
GotCsn(r, c) ==
    IF c = Committing /\ ~waited[r]
    THEN /\ rpc' = [rpc EXCEPT ![r] = "wait"]
         /\ UNCHANGED <<found, cache>>
    ELSE Finish(r, c)

IsEarliest(x, S) == x \in S /\ \A y \in S : x <= y

\* polar_csnlog_get_csn_recursive on the way from a child to its parent, ...
WalkDown(r) ==
    /\ rpc[r] = "down"
    /\ \E x \in walk[r] :
          /\ IsEarliest(x, walk[r])
          /\ IF IsSubTrans(csnlog[x])
             THEN /\ walk' = [walk EXCEPT ![r] = @ \cup {-csnlog[x]}]
                  /\ UNCHANGED <<rpc, found, cache>>
             ELSE /\ walk' = [walk EXCEPT ![r] = @ \ {x}]
                  /\ IF walk[r] = {x}
                     THEN GotCsn(r, csnlog[x])
                     ELSE /\ rpc' = [rpc EXCEPT ![r] = "up"]
                          /\ found' = [found EXCEPT ![r] = csnlog[x]]
                          /\ UNCHANGED cache
    /\ UNCHANGED <<commitVars, procXmin, snap, asOf, listXid, asked, check, waited, ckpt>>

\* Mutant: the child is taken to have the status of its parent.
WalkUpTrustsParent(r) ==
    /\ rpc[r] = "up"
    /\ \E x \in walk[r] :
          /\ IsEarliest(x, walk[r])
          /\ walk' = [walk EXCEPT ![r] = @ \ {x}]
          /\ IF walk[r] = {x} THEN GotCsn(r, found[r]) ELSE UNCHANGED <<rpc, found, cache>>
    /\ UNCHANGED <<commitVars, procXmin, snap, asOf, listXid, asked, check, waited, ckpt>>

\* ... and back: the entry of the child is read again, and one that still names
\* its parent has the status found for the parent.
WalkUp(r) ==
    /\ rpc[r] = "up"
    /\ \E x \in walk[r] :
          LET c == IF IsSubTrans(csnlog[x]) /\ IsActive(found[r]) THEN found[r] ELSE csnlog[x]
          IN
          /\ IsEarliest(x, walk[r])
          /\ walk' = [walk EXCEPT ![r] = @ \ {x}]
          /\ IF walk[r] = {x}
             THEN GotCsn(r, c)
             ELSE found' = [found EXCEPT ![r] = c] /\ UNCHANGED <<rpc, cache>>
    /\ UNCHANGED <<commitVars, procXmin, snap, asOf, listXid, asked, check, waited, ckpt>>

\* LWLockAcquire(CommitSeqNoLock, LW_EXCLUSIVE), LWLockRelease, once more.
WaitForCommit(r) ==
    /\ RGoto(r, "wait", "down")
    /\ \A w \in Writers : ~HoldsCommitSeqNoLock(w)
    /\ walk' = [walk EXCEPT ![r] = {asked[r]}]
    /\ waited' = [waited EXCEPT ![r] = TRUE]
    /\ UNCHANGED <<commitVars, procXmin, snap, asOf, listXid, asked, check, found, cache,
                   ckpt>>

\* The answer of a check that is done, and its hintstatus.
Visible(r) ==
    CASE check[r] = "yes" -> TRUE
      [] check[r] = "no" -> FALSE
      [] check[r] = "didcommit" -> IsCommitted(found[r])
      [] check[r] = "visible" -> IsCommitted(found[r]) /\ found[r] < snap[r].csn
      [] check[r] = "committed" -> IsCommitted(found[r]) => found[r] < snap[r].csn

HintCommitted(r) == check[r] \in {"visible", "didcommit"} /\ IsCommitted(found[r])
HintAborted(r) == \/ check[r] = "visible" /\ found[r] = Aborted
                  \/ check[r] = "didcommit" /\ ~IsCommitted(found[r])

\* HeapTupleSatisfiesMVCC has the answer and goes on.
Answer(r) ==
    /\ RGoto(r, "done", "ready")
    /\ asked' = [asked EXCEPT ![r] = InvalidXid]
    /\ check' = [check EXCEPT ![r] = "no"]
    /\ found' = [found EXCEPT ![r] = InProgress]
    /\ waited' = [waited EXCEPT ![r] = FALSE]
    /\ UNCHANGED <<commitVars, procXmin, snap, asOf, listXid, walk, cache, ckpt>>

Reader(r) ==
    \/ ReadOldestActive(r) \/ AnnounceXmin(r) \/ RecheckOldestActive(r) \/ ReadNextCsn(r)
    \/ ReadLatestCompleted(r) \/ ListRunning(r) \/ DropSnapshot(r)
    \/ \E x \in Xids : XidVisible(r, x) \/ CommittedXidVisible(r, x)
    \/ FetchFromClog(r) \/ WalkDown(r) \/ WalkUp(r) \/ WaitForCommit(r) \/ Answer(r)

-----------------------------------------------------------------------------
(* CreateCheckPoint, as far as it truncates the csnlog.                    *)

\* polar_oldest_active_xid before the redo point.
CheckpointBegin ==
    /\ ckpt.pc = "idle" /\ ckpt.count < MaxCheckpoints
    /\ ckpt' = [ckpt EXCEPT !.pc = "redo", !.cap = oldestActive, !.count = @ + 1]
    /\ UNCHANGED <<commitVars, readVars>>

\* ComputeXidHorizons: latestCompletedXid + 1 first, ...
HorizonBegin ==
    /\ ckpt.pc = "redo"
    /\ ckpt' = [ckpt EXCEPT !.pc = "scan", !.horizon = latestCompleted + 1,
                            !.toScan = Writers \cup Readers]
    /\ UNCHANGED <<commitVars, readVars>>

\* ... then one process of the array after the other.  ProcArrayLock is shared
\* with ProcArrayEndTransactionCSN, and GetSnapshotDataCSN takes no lock.
HorizonScan ==
    /\ ckpt.pc = "scan"
    /\ \E p \in ckpt.toScan :
          LET xid == CASE p \in Writers -> procXid[p]
                       [] p \in Readers \ Vacuuming -> procXmin[p]
                       [] p \in Vacuuming -> InvalidXid
          IN  ckpt' = [ckpt EXCEPT !.toScan = @ \ {p},
                          !.horizon = IF xid # InvalidXid /\ xid < @ THEN xid ELSE @]
    /\ UNCHANGED <<commitVars, readVars>>

\* GetOldestNonRemovableTransactionId has returned: polar_csnlog_truncate.
Truncate ==
    /\ ckpt.pc = "scan" /\ ckpt.toScan = {}
    /\ LET cut == IF ckpt.cap < ckpt.horizon THEN ckpt.cap ELSE ckpt.horizon IN
       ckpt' = [ckpt EXCEPT !.pc = "idle", !.truncated = Later(@, cut),
                            !.cap = InvalidXid, !.horizon = InvalidXid]
    /\ UNCHANGED <<commitVars, readVars>>

Checkpointer == CheckpointBegin \/ HorizonBegin \/ HorizonScan \/ Truncate

Next ==
    \/ CommitNext /\ UNCHANGED <<readVars, ckpt>>
    \/ \E r \in Readers : Reader(r)
    \/ Checkpointer

Spec == Init /\ [][Next]_vars

-----------------------------------------------------------------------------
(* Properties.                                                             *)

\* Every variable has its type; the list of running xids fits its array, and no
\* xmin is ahead of polar_oldest_active_xid.
TypeOK ==
    /\ nextXid \in 1 .. MaxXid + 1 /\ oldestActive \in 1 .. nextXid
    /\ latestCompleted \in 0 .. nextXid - 1 /\ nextCsn \in Int /\ nextCsn >= FirstNormal
    /\ csnlog \in [Xids -> Int] /\ clog \in [Xids -> {InProgress, Aborted, Frozen}]
    /\ \A r \in Readers :
          /\ snap[r].list \subseteq Xids /\ Cardinality(snap[r].list) <= ListMax
          /\ procXmin[r] \in 0 .. oldestActive /\ walk[r] \subseteq Xids

\* A visibility check answers for the instant at which its snapshot read
\* polar_next_csn: an xid is visible exactly when it had its CSN by then, however
\* the four values of the snapshot, the entries of the transaction and of its
\* children, the walk to the parent and back, the upper bound and the cache
\* interleave.  A snapshot with a list of xids is only claimed to show nothing
\* younger, and that of top-level xids: polar_csnlog_get_running_xids lists an
\* xid that has its CSN and is still marked as committing, and passes over a
\* running subtransaction.
AnswerIsAsOf ==
    \A r \in Readers : rpc[r] = "done" =>
        /\ ~snap[r].isList \/ parent[asked[r]] = InvalidXid
              => (Visible(r) => asked[r] \in asOf[r])
        /\ ~snap[r].isList => (asked[r] \in asOf[r] => Visible(r))

\* A hint bit outlives every snapshot, so hintstatus is final: XID_COMMITTED only
\* for an xid whose entry has its CSN, XID_ABORTED only for one that is aborted
\* (again of top-level xids only, with a list of xids).
HintsTrue ==
    \A r \in Readers : rpc[r] = "done" =>
        /\ HintCommitted(r) => IsCommitted(csnlog[asked[r]])
        /\ HintAborted(r) /\ (snap[r].isList => parent[asked[r]] = InvalidXid)
              => csnlog[asked[r]] = Aborted

\* The two states that the lookup takes to be impossible are: the PANIC "Wrong csn
\* state" of polar_csnlog_get_csn_recursive (a child that still names a parent
\* found finished), and Assert(csn != POLAR_CSN_COMMITTING) after the wait in
\* polar_xact_get_csn.
NoWrongState ==
    \A r \in Readers :
        /\ rpc[r] = "up" => \E x \in walk[r] :
              IsEarliest(x, walk[r]) /\ (IsSubTrans(csnlog[x]) => IsActive(found[r]))
        /\ rpc[r] = "done" => found[r] # Committing

\* No lookup of a reader meets an entry that a checkpoint has cut off: every xid
\* looked up, parents included, is at or after TransactionXmin (the Assert of
\* polar_csnlog_get_csn_internal), and no checkpoint truncates past that, even
\* when its scan of the process array has passed the reader before the reader
\* announced its xmin.  A reader with PROC_IN_VACUUM has no such protection.
LookupsInLog ==
    \A r \in Readers :
        /\ rpc[r] = "list" => procXmin[r] <= listXid[r]
        /\ \A x \in walk[r] : procXmin[r] <= x
        /\ rpc[r] \notin {"none", "announce", "recheck"} /\ r \notin Vacuuming
              => ckpt.truncated <= procXmin[r]

\* polar_oldest_active_xid never stays behind for good: the xid it names is
\* running or not yet handed out, or a process that has ended is on its way to
\* advance it, although the transaction that ends and the process that advances
\* to it may each take the other to be responsible.
OldestHasKeeper ==
    \/ oldestActive = nextXid
    \/ \E w \in Writers :
          \/ oldestActive \in tree[w]
          \/ pc[w] \in {"advance", "next", "scan", "cas"} /\ oldestActive = oldValue[w]

\* An entry that says committed or aborted never changes again ("We only cache
\* status that is guaranteed not to change"), and polar_oldest_active_xid never
\* moves back: the fast checks against xmin rest on both.
EntriesFinal ==
    [][/\ \A x \in Xids : IsFinal(csnlog[x]) => csnlog'[x] = csnlog[x]
       /\ oldestActive <= oldestActive']_vars
=============================================================================
