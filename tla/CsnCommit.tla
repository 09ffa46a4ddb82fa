----------------------------- MODULE CsnCommit -----------------------------
(***************************************************************************)
(* Commit sequence numbers (polar_csn_enable), the writing side: how a     *)
(* transaction and its subtransactions get their entries in the csnlog,    *)
(* when they are committed or aborted there, and how                       *)
(* polar_oldest_active_xid follows.                                        *)
(*                                                                         *)
(* Every access to shared memory that another process can see between two  *)
(* others is an action of its own.  The two compare-and-swap loops that    *)
(* only raise a value (polar_update_latest_completed,                      *)
(* polar_csnlog_set_upperbound_csn) take effect at one instant and are one *)
(* maximum each.                                                           *)
(***************************************************************************)
EXTENDS Integers, FiniteSets

CONSTANTS Writers,      \* backends that run transactions
          GroupSize,    \* CSNLOG_XACTS_PER_UB_GROUP
          MaxXid,       \* bound: xids that are handed out
          MaxTops       \* bound: top-level transactions

ASSUME CsnCommitAssumption ==
    MaxXid \in Nat /\ MaxTops \in Nat /\ GroupSize \in Nat \ {0}

Xids == 1 .. MaxXid
InvalidXid == 0

\* Values of a csnlog entry.  POLAR_CSN_SUBTRANS_BIT | parent is -parent.
InProgress == 0
Aborted == 1
Committing == 2
Frozen == 3
FirstNormal == 4
SubTrans(p) == -p
IsSubTrans(c) == c < 0
IsCommitted(c) == c >= Frozen
IsActive(c) == c = InProgress \/ c = Committing
IsFinal(c) == c = Aborted \/ IsCommitted(c)

UBSlot(x) == x \div GroupSize

VARIABLES nextXid,          \* TransamVariables->nextXid
          nextCsn,          \* polar_next_csn
          latestCompleted,  \* polar_latest_completed_xid
          oldestActive,     \* polar_oldest_active_xid
          csnlog,           \* the entries of the csnlog
          upperBound,       \* highest CSN given in each group of xids
          clog,             \* commit status in the clog
          parent,           \* s->parent of the TransactionState of an xid
          procXid,          \* ProcGlobal->xids
          pc,
          open,             \* xids of the open (sub)transactions
          tree,             \* the xid and its children that are not aborted
          stamp,            \* entries that polar_csnlog_set_csn has still to write
          stampCsn,         \* the value it writes
          oldValue, scanXid, scanEnd    \* locals of AdvanceOldestActiveXidCSN

logVars == <<csnlog, upperBound, clog>>
counters == <<nextXid, nextCsn, latestCompleted, oldestActive>>
treeVars == <<open, tree, parent, procXid>>
stampVars == <<stamp, stampCsn>>
scanVars == <<oldValue, scanXid, scanEnd>>
commitVars == <<logVars, counters, pc, treeVars, stampVars, scanVars>>

CommitInit ==
    /\ nextXid = 1 /\ oldestActive = 1 /\ latestCompleted = InvalidXid
    /\ nextCsn = FirstNormal
    /\ csnlog = [x \in Xids |-> InProgress]
    /\ upperBound = [g \in 0 .. UBSlot(MaxXid) |-> Frozen]
    /\ clog = [x \in Xids |-> InProgress]
    /\ parent = [x \in Xids |-> InvalidXid]
    /\ procXid = [w \in Writers |-> InvalidXid]
    /\ pc = [w \in Writers |-> "idle"]
    /\ open = [w \in Writers |-> {}]
    /\ tree = [w \in Writers |-> {}]
    /\ stamp = [w \in Writers |-> {}]
    /\ stampCsn = [w \in Writers |-> InProgress]
    /\ oldValue = [w \in Writers |-> InvalidXid]
    /\ scanXid = [w \in Writers |-> InvalidXid]
    /\ scanEnd = [w \in Writers |-> InvalidXid]

Goto(w, from, to) == pc[w] = from /\ pc' = [pc EXCEPT ![w] = to]

\* TransactionIdLatest.
IsLatest(x, S) == x \in S /\ \A y \in S : y <= x
Later(a, b) == IF a < b THEN b ELSE a

\* A subtransaction that is rolled back, and its committed children: the xids
\* of this transaction from its own on.
Since(w, x) == {y \in tree[w] : x <= y}

-----------------------------------------------------------------------------
(* Xids.                                                                   *)

\* GetNewTransactionId(false), under XidGenLock.
GetNewTransactionId(w) ==
    /\ Goto(w, "idle", "run") /\ nextXid <= MaxXid
    /\ Cardinality({x \in 1 .. nextXid - 1 : parent[x] = InvalidXid}) < MaxTops
    /\ csnlog' = [csnlog EXCEPT ![nextXid] = InProgress]
    /\ procXid' = [procXid EXCEPT ![w] = nextXid]
    /\ open' = [open EXCEPT ![w] = {nextXid}]
    /\ tree' = [tree EXCEPT ![w] = {nextXid}]
    /\ nextXid' = nextXid + 1
    /\ UNCHANGED <<upperBound, clog, nextCsn, latestCompleted, oldestActive, parent,
                   stampVars, scanVars>>

\* AssignTransactionId of a subtransaction: the xid first, ...
AssignSubXid(w) ==
    /\ Goto(w, "run", "sub") /\ nextXid <= MaxXid
    /\ csnlog' = [csnlog EXCEPT ![nextXid] = InProgress]
    /\ \E p \in open[w] : /\ IsLatest(p, open[w])
                          /\ parent' = [parent EXCEPT ![nextXid] = p]
    /\ open' = [open EXCEPT ![w] = @ \cup {nextXid}]
    /\ tree' = [tree EXCEPT ![w] = @ \cup {nextXid}]
    /\ nextXid' = nextXid + 1
    /\ UNCHANGED <<upperBound, clog, nextCsn, latestCompleted, oldestActive, procXid,
                   stampVars, scanVars>>

\* ... then polar_csnlog_set_parent.
SetParent(w) ==
    /\ Goto(w, "sub", "run")
    /\ \E x \in open[w] :
          LET old == csnlog[x] new == SubTrans(parent[x]) IN
          /\ IsLatest(x, open[w])
          /\ csnlog' = IF old = InProgress \/ (IsSubTrans(old) /\ old # new)
                       THEN [csnlog EXCEPT ![x] = new] ELSE csnlog
    /\ UNCHANGED <<upperBound, clog, counters, treeVars, stampVars, scanVars>>

\* CommitSubTransaction: the xid becomes a committed child; nothing is logged.
CommitSubTransaction(w) ==
    /\ pc[w] = "run" /\ open[w] # {procXid[w]}
    /\ \E x \in open[w] : /\ IsLatest(x, open[w])
                          /\ open' = [open EXCEPT ![w] = @ \ {x}]
    /\ UNCHANGED <<logVars, counters, pc, tree, parent, procXid, stampVars, scanVars>>

-----------------------------------------------------------------------------
(* Commit and abort.                                                       *)

\* TransactionIdCommitTree, in RecordTransactionCommit.
CommitTree(w) ==
    /\ Goto(w, "run", "latest") /\ open[w] = {procXid[w]}
    /\ clog' = [x \in Xids |-> IF x \in tree[w] THEN Frozen ELSE clog[x]]
    /\ UNCHANGED <<csnlog, upperBound, counters, treeVars, stampVars, scanVars>>

\* polar_xact_commit_tree_csn: CommitSeqNoLock shared, polar_latest_completed_xid, ...
UpdateLatestCompleted(w) ==
    /\ Goto(w, "latest", "mark")
    /\ \E x \in tree[w] : /\ IsLatest(x, tree[w])
                          /\ latestCompleted' = Later(latestCompleted, x)
    /\ UNCHANGED <<logVars, nextXid, nextCsn, oldestActive, treeVars, stampVars, scanVars>>

\* Mutant: the csnlog does not tell that a commit is on its way.
MarkNothing(w) ==
    /\ Goto(w, "mark", "csn")
    /\ UNCHANGED <<logVars, counters, treeVars, stampVars, scanVars>>

\* ... the top xid is marked as committing, ...
MarkCommitting(w) ==
    /\ Goto(w, "mark", "csn")
    /\ csnlog' = [csnlog EXCEPT ![procXid[w]] = Committing]
    /\ UNCHANGED <<upperBound, clog, counters, treeVars, stampVars, scanVars>>

\* ... the CSN is taken, ...
TakeCsn(w) ==
    /\ Goto(w, "csn", "bound")
    /\ stampCsn' = [stampCsn EXCEPT ![w] = nextCsn]
    /\ stamp' = [stamp EXCEPT ![w] = tree[w]]
    /\ nextCsn' = nextCsn + 1
    /\ UNCHANGED <<logVars, nextXid, latestCompleted, oldestActive, treeVars, scanVars>>

\* ... and the entries get it, children first; the upper bound of the group of
\* an xid before its entry.
SetUpperBound(w) ==
    /\ Goto(w, "bound", "item")
    /\ \E x \in stamp[w] :
          /\ IsLatest(x, stamp[w])
          /\ upperBound' = [upperBound EXCEPT ![UBSlot(x)] = Later(@, stampCsn[w])]
    /\ UNCHANGED <<csnlog, clog, counters, treeVars, stampVars, scanVars>>

\* polar_csnlog_set_csn_by_itemno, of a commit or an abort.  After the last entry
\* a commit releases CommitSeqNoLock; an abort goes on to the clog.
WriteItem(w, x) ==
    /\ pc[w] = "item"
    /\ csnlog' = [csnlog EXCEPT ![x] = stampCsn[w]]
    /\ stamp' = [stamp EXCEPT ![w] = @ \ {x}]
    /\ pc' = [pc EXCEPT ![w] = IF stamp[w] = {x}
                               THEN IF stampCsn[w] = Aborted THEN "clog" ELSE "end"
                               ELSE IF stampCsn[w] = Aborted THEN "item" ELSE "bound"]
    /\ UNCHANGED <<upperBound, clog, counters, treeVars, stampCsn, scanVars>>

\* Mutant: the parent is written before its children.
SetItemTopFirst(w) ==
    \E x \in stamp[w] : (\A y \in stamp[w] : x <= y) /\ WriteItem(w, x)

SetItem(w) == \E x \in stamp[w] : IsLatest(x, stamp[w]) /\ WriteItem(w, x)

\* CommitSeqNoLock is held shared from before polar_latest_completed_xid is
\* updated until every entry of the transaction is written.
HoldsCommitSeqNoLock(w) ==
    \/ pc[w] \in {"mark", "csn", "bound"}
    \/ pc[w] = "item" /\ stampCsn[w] # Aborted

\* TransactionIdAbortTree: the csnlog (polar_xact_abort_tree_csn) first, ...
AbortTree(w) ==
    /\ Goto(w, "run", "item")
    /\ \E x \in open[w] : /\ IsLatest(x, open[w])
                          /\ stamp' = [stamp EXCEPT ![w] = Since(w, x)]
    /\ stampCsn' = [stampCsn EXCEPT ![w] = Aborted]
    /\ \E x \in stamp'[w] : /\ IsLatest(x, stamp'[w])
                            /\ latestCompleted' = Later(latestCompleted, x)
    /\ UNCHANGED <<logVars, nextXid, nextCsn, oldestActive, treeVars, scanVars>>

\* Mutant: an aborted subtransaction stays among the children of its transaction.
AbortKeepsChild(w) ==
    /\ pc[w] = "clog"
    /\ \E x \in open[w] :
          /\ IsLatest(x, open[w])
          /\ clog' = [y \in Xids |-> IF y \in Since(w, x) THEN Aborted ELSE clog[y]]
          /\ pc' = [pc EXCEPT ![w] = IF x = procXid[w] THEN "end" ELSE "run"]
          /\ open' = [open EXCEPT ![w] = IF x = procXid[w] THEN @ ELSE @ \ {x}]
    /\ UNCHANGED <<csnlog, upperBound, counters, tree, parent, procXid, stampVars, scanVars>>

\* ... then the clog.  A subtransaction is gone, its transaction goes on.
AbortInClog(w) ==
    /\ pc[w] = "clog"
    /\ \E x \in open[w] :
          /\ IsLatest(x, open[w])
          /\ clog' = [y \in Xids |-> IF y \in Since(w, x) THEN Aborted ELSE clog[y]]
          /\ IF x = procXid[w]
             THEN /\ pc' = [pc EXCEPT ![w] = "end"]
                  /\ UNCHANGED <<open, tree>>
             ELSE /\ pc' = [pc EXCEPT ![w] = "run"]
                  /\ open' = [open EXCEPT ![w] = @ \ {x}]
                  /\ tree' = [tree EXCEPT ![w] = @ \ Since(w, x)]
    /\ UNCHANGED <<csnlog, upperBound, counters, parent, procXid, stampVars, scanVars>>

-----------------------------------------------------------------------------
(* ProcArrayEndTransactionCSN and AdvanceOldestActiveXidCSN.               *)

EndTransaction(w) ==
    /\ Goto(w, "end", "advance")
    /\ procXid' = [procXid EXCEPT ![w] = InvalidXid]
    /\ oldValue' = [oldValue EXCEPT ![w] = procXid[w]]
    /\ open' = [open EXCEPT ![w] = {}]
    /\ tree' = [tree EXCEPT ![w] = {}]
    /\ stampCsn' = [stampCsn EXCEPT ![w] = InProgress]
    /\ UNCHANGED <<logVars, counters, parent, stamp, scanXid, scanEnd>>

AdvanceDone(w) ==
    /\ pc' = [pc EXCEPT ![w] = "idle"]
    /\ oldValue' = [oldValue EXCEPT ![w] = InvalidXid]
    /\ scanXid' = [scanXid EXCEPT ![w] = InvalidXid]
    /\ scanEnd' = [scanEnd EXCEPT ![w] = InvalidXid]

\* Only the oldest active transaction has anything to advance.
AdvanceOldest(w) ==
    /\ pc[w] = "advance"
    /\ IF oldestActive = oldValue[w]
       THEN /\ pc' = [pc EXCEPT ![w] = "next"]
            /\ scanXid' = [scanXid EXCEPT ![w] = oldValue[w] + 1]
            /\ UNCHANGED <<oldValue, scanEnd>>
       ELSE AdvanceDone(w)
    /\ UNCHANGED <<logVars, counters, treeVars, stampVars>>

ReadNextXid(w) ==
    /\ Goto(w, "next", "scan")
    /\ scanEnd' = [scanEnd EXCEPT ![w] = nextXid]
    /\ UNCHANGED <<logVars, counters, treeVars, stampVars, oldValue, scanXid>>

\* polar_csnlog_get_next_active_xid, one entry.
ScanActive(w) ==
    /\ pc[w] = "scan"
    /\ IF scanXid[w] < scanEnd[w] /\ ~IsActive(csnlog[scanXid[w]])
       THEN scanXid' = [scanXid EXCEPT ![w] = @ + 1] /\ UNCHANGED pc
       ELSE pc' = [pc EXCEPT ![w] = "cas"] /\ UNCHANGED scanXid
    /\ UNCHANGED <<logVars, counters, treeVars, stampVars, oldValue, scanEnd>>

\* Mutant: who succeeds does not look again.
SwapOnce(w) ==
    /\ pc[w] = "cas"
    /\ oldestActive' = IF oldestActive = oldValue[w] THEN scanXid[w] ELSE oldestActive
    /\ AdvanceDone(w)
    /\ UNCHANGED <<logVars, nextXid, nextCsn, latestCompleted, treeVars, stampVars>>

\* The compare-and-swap; who succeeds looks again at the xid it found.
SwapOldest(w) ==
    /\ pc[w] = "cas"
    /\ IF scanXid[w] # oldValue[w] /\ oldestActive = oldValue[w]
       THEN /\ oldestActive' = scanXid[w]
            /\ oldValue' = [oldValue EXCEPT ![w] = scanXid[w]]
            /\ scanEnd' = [scanEnd EXCEPT ![w] = InvalidXid]
            /\ pc' = [pc EXCEPT ![w] = "next"]
            /\ UNCHANGED scanXid
       ELSE AdvanceDone(w) /\ UNCHANGED oldestActive
    /\ UNCHANGED <<logVars, nextXid, nextCsn, latestCompleted, treeVars, stampVars>>

Writer(w) ==
    \/ GetNewTransactionId(w) \/ AssignSubXid(w) \/ SetParent(w) \/ CommitSubTransaction(w)
    \/ CommitTree(w) \/ UpdateLatestCompleted(w) \/ MarkCommitting(w) \/ TakeCsn(w)
    \/ SetUpperBound(w) \/ SetItem(w) \/ AbortTree(w) \/ AbortInClog(w)
    \/ EndTransaction(w) \/ AdvanceOldest(w) \/ ReadNextXid(w) \/ ScanActive(w)
    \/ SwapOldest(w)

CommitNext == \E w \in Writers : Writer(w)

CommitSpec == CommitInit /\ [][CommitNext]_commitVars
=============================================================================
