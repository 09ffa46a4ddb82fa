-------------------------- MODULE CsnCommitProofs --------------------------
(***************************************************************************)
(* The inductive invariant of CsnCommit, for any number of writers and any *)
(* shape of transactions.                                                  *)
(*                                                                         *)
(* CommitInv is inductive for the writers alone.  Trees says which xids    *)
(* belong to which writer; Entries what the csnlog holds for them at each  *)
(* point of a commit or an abort (an entry that is not final still says    *)
(* what its transaction does, and no parent is final before its children); *)
(* Csns relates the CSNs to nextCsn, latestCompleted, the upper bounds and *)
(* the clog; Scans says that AdvanceOldestActiveXidCSN passes only xids    *)
(* that have ended, and Keepers that somebody is left to advance.  For     *)
(* each part one lemma says what a step does for the writer that takes it, *)
(* one what it leaves alone for the others.                                *)
(***************************************************************************)
EXTENDS CsnCommit, TLAPS

\* A leaf that names no prover is for Zenon.
USE Zenon

\* Program counters of a writer with and without a transaction.
Live == {"run", "sub", "latest", "mark", "csn", "bound", "item", "clog", "end"}
Scanning == {"next", "scan", "cas"}
Ending == {"advance"} \cup Scanning
Steps == {"idle"} \cup Live \cup Ending

TypeInv ==
    /\ nextXid \in 1 .. MaxXid + 1 /\ oldestActive \in Int
    /\ latestCompleted \in Int /\ nextCsn \in Int /\ nextCsn >= FirstNormal
    /\ csnlog \in [Xids -> Int] /\ clog \in [Xids -> {InProgress, Aborted, Frozen}]
    /\ upperBound \in [0 .. UBSlot(MaxXid) -> Int]
    /\ parent \in [Xids -> 0 .. MaxXid] /\ procXid \in [Writers -> 0 .. MaxXid]
    /\ pc \in [Writers -> Steps]
    /\ open \in [Writers -> SUBSET Xids] /\ tree \in [Writers -> SUBSET Xids]
    /\ stamp \in [Writers -> SUBSET Xids] /\ stampCsn \in [Writers -> Int]
    /\ oldValue \in [Writers -> Int] /\ scanXid \in [Writers -> Int]
    /\ scanEnd \in [Writers -> Int]

-----------------------------------------------------------------------------
(* The invariant.                                                          *)

\* The writer has a commit under way that the csnlog can tell (top xid COMMITTING).
Commits(w) == pc[w] = "csn" \/ (pc[w] \in {"bound", "item"} /\ stampCsn[w] # Aborted)

\* The tree of a transaction: its top-level xid is the oldest, every other xid
\* has its parent in the tree.
TreeOf(w) ==
    /\ pc[w] \in Live => procXid[w] \in open[w] /\ parent[procXid[w]] = InvalidXid
    /\ pc[w] \notin Live => open[w] = {} /\ tree[w] = {} /\ procXid[w] = InvalidXid
    /\ open[w] \subseteq tree[w] /\ stamp[w] \subseteq tree[w]
    /\ pc[w] \notin {"bound", "item"} => stamp[w] = {}
    /\ \A y \in tree[w] : /\ y < nextXid /\ procXid[w] <= y
                          /\ y # procXid[w] => parent[y] \in tree[w] /\ parent[y] < y
Trees ==
    /\ \A w \in Writers : TreeOf(w)
    /\ \A v, w \in Writers : v # w => tree[v] \cap tree[w] = {}

\* An entry that has its final value still to come.
Unwritten(w, y) ==
    IF y = procXid[w]
    THEN csnlog[y] = IF Commits(w) THEN Committing ELSE InProgress
    ELSE \/ csnlog[y] = SubTrans(parent[y])
         \/ csnlog[y] = InProgress /\ pc[w] = "sub" /\ IsLatest(y, open[w])

\* The entries of a transaction at each point of its commit or abort.
EntriesOf(w) ==
    /\ pc[w] \in {"run", "sub", "latest", "mark", "csn"} =>
          \A y \in tree[w] : ~IsFinal(csnlog[y])
    /\ \A y \in stamp[w] : ~IsFinal(csnlog[y])
    /\ pc[w] \in {"bound", "item"} /\ stampCsn[w] # Aborted =>
          \A y \in tree[w] \ stamp[w] : csnlog[y] = stampCsn[w]
    /\ pc[w] \in {"item", "clog"} /\ stampCsn[w] = Aborted =>
          \E x \in open[w] :
             /\ IsLatest(x, open[w])
             /\ \A y \in tree[w] : y < x => ~IsFinal(csnlog[y]) /\ y \notin stamp[w]
             /\ \A y \in tree[w] \ stamp[w] : x <= y => csnlog[y] = Aborted
    /\ pc[w] = "clog" => stampCsn[w] = Aborted
    /\ pc[w] = "bound" => stampCsn[w] # Aborted
    /\ pc[w] = "end" => \A y \in tree[w] : IsFinal(csnlog[y])
    /\ \A y \in tree[w] : ~IsFinal(csnlog[y]) => Unwritten(w, y)
Entries ==
    /\ \A w \in Writers : EntriesOf(w)
    /\ \A x \in Xids : x < nextXid /\ (\A w \in Writers : x \notin tree[w])
                         => IsFinal(csnlog[x])
    /\ \A x \in Xids : x >= nextXid => /\ csnlog[x] = InProgress /\ clog[x] = InProgress
                                       /\ parent[x] = InvalidXid
    \* children first
    /\ \A x \in Xids : parent[x] # InvalidXid /\ IsFinal(csnlog[parent[x]])
                         => IsFinal(csnlog[x])
    /\ \A x \in Xids : parent[x] < x

\* The value being written, the clog and latestCompleted of a committing transaction.
CommitOf(w) ==
    /\ pc[w] \in {"bound", "item"} /\ stampCsn[w] # Aborted =>
          FirstNormal <= stampCsn[w] /\ stampCsn[w] < nextCsn
    /\ HoldsCommitSeqNoLock(w) => \A y \in tree[w] : y <= latestCompleted
    /\ pc[w] = "latest" \/ HoldsCommitSeqNoLock(w) => \A y \in tree[w] : clog[y] = Frozen
    /\ \/ pc[w] \in {"run", "sub", "clog"}
       \/ pc[w] = "item" /\ stampCsn[w] = Aborted
       => \A y \in tree[w] : clog[y] = InProgress
    /\ pc[w] = "item" /\ stampCsn[w] # Aborted =>
          \A x \in stamp[w] : IsLatest(x, stamp[w]) => stampCsn[w] <= upperBound[UBSlot(x)]
Csns ==
    /\ \A w \in Writers : CommitOf(w)
    /\ \A x \in Xids : IsCommitted(csnlog[x]) =>
          /\ FirstNormal <= csnlog[x] /\ csnlog[x] < nextCsn
          /\ x <= latestCompleted /\ csnlog[x] <= upperBound[UBSlot(x)]
          /\ clog[x] = Frozen
    /\ \A x \in Xids : csnlog[x] = Aborted => clog[x] # Frozen
    /\ \A x \in Xids : clog[x] = Aborted => csnlog[x] = Aborted

\* Everything that AdvanceOldestActiveXidCSN has passed has ended.
Ended(x) == \A y \in Xids : y < x => IsFinal(csnlog[y])
ScanOf(w) ==
    /\ pc[w] = "advance" => /\ oldValue[w] \in Xids /\ oldValue[w] < nextXid
                            /\ IsFinal(csnlog[oldValue[w]])
    /\ pc[w] \in Scanning => /\ oldValue[w] <= oldestActive /\ oldValue[w] <= scanXid[w]
                             /\ 1 <= scanXid[w] /\ scanXid[w] <= nextXid /\ Ended(scanXid[w])
    /\ pc[w] = "scan" => scanEnd[w] <= nextXid
Scans ==
    /\ \A w \in Writers : ScanOf(w)
    /\ 1 <= oldestActive /\ oldestActive <= nextXid /\ Ended(oldestActive)

\* Somebody still has to end, or to advance, the oldest active xid.
Keeps(w, x) == procXid[w] = x \/ (pc[w] \in Ending /\ oldValue[w] = x)
\* ... and has not found it still active.
Owes(w, x) ==
    \/ procXid[w] = x
    \/ pc[w] \in Ending /\ oldValue[w] = x /\ (pc[w] = "advance" \/ x < scanXid[w])
GivesUp(w) ==
    /\ oldValue[w] = oldestActive /\ scanXid[w] = oldestActive
    /\ pc[w] = "cas" \/ (pc[w] = "scan" /\ scanEnd[w] <= oldestActive)
Keepers ==
    /\ oldestActive = nextXid \/ \E v \in Writers : Keeps(v, oldestActive)
    /\ \A w \in Writers : GivesUp(w) =>
          oldestActive = nextXid \/ \E v \in Writers : Owes(v, oldestActive)

CommitInv == TypeInv /\ Trees /\ Entries /\ Csns /\ Scans /\ Keepers

\* Xids are numbers, and the next one is an xid until they run out.
LEMMA XidsInt == Xids \subseteq Int
  BY SMT DEF Xids
LEMMA NextXid ==
    ASSUME TypeInv
    PROVE  nextXid \in Int /\ (nextXid <= MaxXid => nextXid \in Xids)
<1>1. nextXid \in 1 .. MaxXid + 1 BY DEF TypeInv
<1> QED BY <1>1, CsnCommitAssumption, SMT DEF Xids

\* Every step of a writer keeps the types.
LEMMA TypeStep == TypeInv /\ CommitNext => TypeInv'
<1> SUFFICES ASSUME TypeInv, NEW w \in Writers, Writer(w) PROVE TypeInv'
    BY DEF CommitNext
<1>b. /\ {"run", "sub", "latest", "mark", "csn", "bound", "item", "clog", "end"} \subseteq Steps
      /\ {"idle", "advance", "next", "scan", "cas"} \subseteq Steps
  BY DEF Steps, Live, Ending, Scanning
<1>c. InProgress \in Int /\ Aborted \in Int /\ Committing \in Int /\ FirstNormal \in Int
  BY SMT DEF InProgress, Aborted, Committing, FirstNormal
<1>d. \A x \in Xids : x \in Int /\ x \in 0 .. MaxXid
  BY CsnCommitAssumption, SMT DEF Xids
<1>e. InvalidXid \in Int /\ InvalidXid \in 0 .. MaxXid BY CsnCommitAssumption, SMT DEF InvalidXid
<1>f. nextXid <= MaxXid => nextXid \in Xids /\ nextXid + 1 \in 1 .. MaxXid + 1
  BY CsnCommitAssumption, SMT DEF Xids, TypeInv
<1>g. /\ pc \in [Writers -> Steps] /\ oldValue \in [Writers -> Int]
      /\ scanXid \in [Writers -> Int] /\ scanEnd \in [Writers -> Int]
      /\ open \in [Writers -> SUBSET Xids] /\ tree \in [Writers -> SUBSET Xids]
  BY DEF TypeInv
<1>h. ASSUME AdvanceDone(w)
      PROVE  /\ pc' \in [Writers -> Steps] /\ oldValue' \in [Writers -> Int]
             /\ scanXid' \in [Writers -> Int] /\ scanEnd' \in [Writers -> Int]
  BY <1>b, <1>e, <1>g, <1>h DEF AdvanceDone
<1>12. CASE AbortInClog(w)
  <2>1. PICK x \in open[w] :
           /\ clog' = [y \in Xids |-> IF y \in Since(w, x) THEN Aborted ELSE clog[y]]
           /\ \/ /\ pc' = [pc EXCEPT ![w] = "end"] /\ UNCHANGED <<open, tree>>
              \/ /\ pc' = [pc EXCEPT ![w] = "run"]
                 /\ open' = [open EXCEPT ![w] = @ \ {x}]
                 /\ tree' = [tree EXCEPT ![w] = @ \ Since(w, x)]
    BY <1>12 DEF AbortInClog
  <2>2. pc' \in [Writers -> Steps] /\ open' \in [Writers -> SUBSET Xids]
        /\ tree' \in [Writers -> SUBSET Xids]
    <3>1. CASE pc' = [pc EXCEPT ![w] = "end"] /\ UNCHANGED <<open, tree>>
      BY <1>b, <1>g, <3>1
    <3>2. CASE /\ pc' = [pc EXCEPT ![w] = "run"]
               /\ open' = [open EXCEPT ![w] = @ \ {x}]
               /\ tree' = [tree EXCEPT ![w] = @ \ Since(w, x)]
      BY <1>b, <1>g, <3>2
    <3> QED BY <2>1, <3>1, <3>2
  <2>3. clog' \in [Xids -> {InProgress, Aborted, Frozen}] BY <2>1 DEF TypeInv
  <2> QED BY <1>12, <2>2, <2>3 DEF TypeInv, AbortInClog, counters, stampVars, scanVars
<1>2. CASE AssignSubXid(w)
  <2>1. /\ pc' = [pc EXCEPT ![w] = "sub"] /\ nextXid \in Xids /\ nextXid' \in 1 .. MaxXid + 1
        /\ open' = [open EXCEPT ![w] = @ \cup {nextXid}]
        /\ tree' = [tree EXCEPT ![w] = @ \cup {nextXid}]
    BY <1>2, <1>f DEF AssignSubXid, Goto
  <2>2. open[w] \cup {nextXid} \in SUBSET Xids /\ tree[w] \cup {nextXid} \in SUBSET Xids
    BY <1>g, <2>1
  <2>3. /\ pc' \in [Writers -> Steps]
        /\ open' \in [Writers -> SUBSET Xids] /\ tree' \in [Writers -> SUBSET Xids]
    BY <1>b, <1>g, <2>1, <2>2
  <2>4. PICK p \in Xids : parent' = [parent EXCEPT ![nextXid] = p]
    BY <1>2, <1>g DEF AssignSubXid
  <2>5. parent' \in [Xids -> 0 .. MaxXid] BY <1>d, <2>1, <2>4 DEF TypeInv
  <2>6. csnlog' \in [Xids -> Int] BY <1>2, <1>c, <2>1 DEF AssignSubXid, TypeInv
  <2> QED BY <1>2, <2>1, <2>3, <2>5, <2>6 DEF TypeInv, AssignSubXid, stampVars, scanVars
<1>3. CASE SetParent(w)
  <2>1. \A x \in Xids : SubTrans(parent[x]) \in Int
    <3>1. \A x \in Xids : parent[x] \in 0 .. MaxXid BY DEF TypeInv
    <3>2. \A n \in 0 .. MaxXid : SubTrans(n) \in Int BY SMT DEF SubTrans
    <3> QED BY <3>1, <3>2
  <2>2. PICK x \in Xids : csnlog' = [csnlog EXCEPT ![x] = SubTrans(parent[x])] \/ csnlog' = csnlog
    BY <1>3, <1>g DEF SetParent
  <2>3. csnlog \in [Xids -> Int] BY DEF TypeInv
  <2>4. csnlog' \in [Xids -> Int] BY <2>1, <2>2, <2>3
  <2>5. pc' \in [Writers -> Steps] BY <1>3, <1>b, <1>g DEF SetParent, Goto
  <2> QED BY <1>3, <2>4, <2>5 DEF TypeInv, SetParent, counters, treeVars, stampVars, scanVars
<1>4. CASE CommitSubTransaction(w)
  <2>1. PICK x \in open[w] : open' = [open EXCEPT ![w] = @ \ {x}]
    BY <1>4 DEF CommitSubTransaction
  <2>2. open[w] \ {x} \in SUBSET Xids BY <1>g
  <2>3. open' \in [Writers -> SUBSET Xids] BY <1>g, <2>1, <2>2
  <2> QED BY <1>4, <2>3 DEF TypeInv, CommitSubTransaction, logVars, counters, stampVars, scanVars
<1>10. CASE SetItem(w)
  <2>1. PICK x \in stamp[w] : WriteItem(w, x) BY <1>10 DEF SetItem
  <2>2. /\ csnlog \in [Xids -> Int] /\ stamp \in [Writers -> SUBSET Xids]
        /\ stampCsn \in [Writers -> Int]
    BY DEF TypeInv
  <2>3. x \in Xids /\ stamp[w] \ {x} \in SUBSET Xids /\ stampCsn[w] \in Int BY <2>2
  <2>4. csnlog' \in [Xids -> Int] BY <2>1, <2>2, <2>3 DEF WriteItem
  <2>5. stamp' \in [Writers -> SUBSET Xids] BY <2>1, <2>2, <2>3 DEF WriteItem
  <2>6. PICK q \in Steps : pc' = [pc EXCEPT ![w] = q] BY <1>b, <2>1 DEF WriteItem
  <2>7. pc' \in [Writers -> Steps] BY <1>g, <2>6
  <2> QED BY <2>1, <2>4, <2>5, <2>7 DEF TypeInv, WriteItem, counters, treeVars, scanVars
<1>11. CASE AbortTree(w)
  <2>1. PICK x \in open[w] : stamp' = [stamp EXCEPT ![w] = Since(w, x)] BY <1>11 DEF AbortTree
  <2>2. Since(w, x) \in SUBSET Xids BY <1>g DEF Since
  <2>3. stamp' \in [Writers -> SUBSET Xids] BY <2>1, <2>2 DEF TypeInv
  <2>4. stampCsn' \in [Writers -> Int] BY <1>11, <1>c DEF AbortTree, TypeInv
  <2>5. pc' \in [Writers -> Steps] BY <1>11, <1>b, <1>g DEF AbortTree, Goto
  <2>6. latestCompleted' \in Int
    <3>1. PICK z \in stamp'[w] : latestCompleted' = Later(latestCompleted, z)
      BY <1>11 DEF AbortTree
    <3>2. z \in Int BY <1>d, <2>3
    <3> QED BY <3>1, <3>2 DEF TypeInv, Later
  <2> QED BY <1>11, <2>3, <2>4, <2>5, <2>6 DEF TypeInv, AbortTree, logVars, treeVars, scanVars
<1>14. CASE AdvanceOldest(w)
  <2>1. UNCHANGED <<logVars, counters, treeVars, stampVars>> BY <1>14 DEF AdvanceOldest
  <2>2. CASE /\ pc' = [pc EXCEPT ![w] = "next"] /\ UNCHANGED <<oldValue, scanEnd>>
             /\ scanXid' = [scanXid EXCEPT ![w] = oldValue[w] + 1]
    <3>1. pc' \in [Writers -> Steps] /\ scanXid' \in [Writers -> Int] BY <1>b, <1>g, <2>2, SMT
    <3> QED BY <2>1, <2>2, <3>1 DEF TypeInv, logVars, counters, treeVars, stampVars
  <2>3. CASE AdvanceDone(w)
    BY <1>h, <2>1, <2>3 DEF TypeInv, logVars, counters, treeVars, stampVars
  <2> QED BY <1>14, <2>2, <2>3 DEF AdvanceOldest
<1>17. CASE SwapOldest(w)
  <2>1. UNCHANGED <<logVars, nextXid, nextCsn, latestCompleted, treeVars, stampVars>>
    BY <1>17 DEF SwapOldest
  <2>2. CASE /\ pc' = [pc EXCEPT ![w] = "next"] /\ oldestActive' = scanXid[w]
             /\ oldValue' = [oldValue EXCEPT ![w] = scanXid[w]]
             /\ scanEnd' = [scanEnd EXCEPT ![w] = InvalidXid] /\ UNCHANGED scanXid
    <3>1. /\ pc' \in [Writers -> Steps] /\ oldValue' \in [Writers -> Int]
          /\ scanEnd' \in [Writers -> Int] /\ oldestActive' \in Int
      BY <1>b, <1>e, <1>g, <2>2
    <3> QED BY <2>1, <2>2, <3>1 DEF TypeInv, logVars, treeVars, stampVars
  <2>3. CASE AdvanceDone(w) /\ UNCHANGED oldestActive
    BY <1>h, <2>1, <2>3 DEF TypeInv, logVars, treeVars, stampVars
  <2> QED BY <1>17, <2>2, <2>3 DEF SwapOldest
<1> USE <1>b, <1>c, <1>d, <1>e DEF TypeInv, Goto
<1>1. CASE GetNewTransactionId(w) BY <1>1, <1>f DEF GetNewTransactionId, stampVars, scanVars
<1>5. CASE CommitTree(w) BY <1>5 DEF CommitTree, counters, treeVars, stampVars, scanVars
<1>6. CASE UpdateLatestCompleted(w)
  BY <1>6 DEF UpdateLatestCompleted, Later, logVars, treeVars, stampVars, scanVars
<1>7. CASE MarkCommitting(w) BY <1>7 DEF MarkCommitting, counters, treeVars, stampVars, scanVars
<1>8. CASE TakeCsn(w) BY <1>8, SMT DEF TakeCsn, logVars, treeVars, scanVars
<1>9. CASE SetUpperBound(w)
  BY <1>9 DEF SetUpperBound, Later, counters, treeVars, stampVars, scanVars
<1>13. CASE EndTransaction(w)
  <2>1. /\ procXid' \in [Writers -> 0 .. MaxXid] /\ stampCsn' \in [Writers -> Int]
        /\ open' \in [Writers -> SUBSET Xids] /\ tree' \in [Writers -> SUBSET Xids]
        /\ pc' \in [Writers -> Steps]
    BY <1>13 DEF EndTransaction
  <2>2. oldValue' \in [Writers -> Int]
    <3>1. procXid[w] \in 0 .. MaxXid OBVIOUS
    <3>2. procXid[w] \in Int BY <3>1, SMT
    <3> QED BY <1>13, <3>2 DEF EndTransaction
  <2> QED BY <1>13, <2>1, <2>2 DEF EndTransaction, logVars, counters
<1>15. CASE ReadNextXid(w)
  <2>1. nextXid \in Int BY SMT
  <2>2. scanEnd' \in [Writers -> Int] BY <1>15, <1>g, <2>1 DEF ReadNextXid
  <2> QED BY <1>15, <2>2 DEF ReadNextXid, logVars, counters, treeVars, stampVars
<1>16. CASE ScanActive(w)
  <2>1. CASE UNCHANGED scanXid
    BY <1>16, <2>1 DEF ScanActive, logVars, counters, treeVars, stampVars
  <2>2. CASE scanXid' = [scanXid EXCEPT ![w] = @ + 1] /\ UNCHANGED pc
    BY <1>16, <2>2, SMT DEF ScanActive, logVars, counters, treeVars, stampVars
  <2> QED BY <1>16, <2>1, <2>2 DEF ScanActive
<1> QED BY <1>1, <1>2, <1>3, <1>4, <1>5, <1>6, <1>7, <1>8, <1>9, <1>10, <1>11, <1>12,
           <1>13, <1>14, <1>15, <1>16, <1>17 DEF Writer

-----------------------------------------------------------------------------
(* What a step of one writer leaves alone.                                 *)

Same(v) ==
    /\ pc'[v] = pc[v] /\ open'[v] = open[v] /\ tree'[v] = tree[v] /\ stamp'[v] = stamp[v]
    /\ stampCsn'[v] = stampCsn[v] /\ procXid'[v] = procXid[v] /\ oldValue'[v] = oldValue[v]
    /\ scanXid'[v] = scanXid[v] /\ scanEnd'[v] = scanEnd[v]

\* A step changes no local state of another writer.
LEMMA OthersStay ==
    ASSUME TypeInv, NEW w \in Writers, Writer(w), NEW v \in Writers, v # w
    PROVE  Same(v)
<1>a. /\ pc \in [Writers -> Steps] /\ procXid \in [Writers -> 0 .. MaxXid]
      /\ open \in [Writers -> SUBSET Xids] /\ tree \in [Writers -> SUBSET Xids]
      /\ stamp \in [Writers -> SUBSET Xids] /\ stampCsn \in [Writers -> Int]
      /\ oldValue \in [Writers -> Int] /\ scanXid \in [Writers -> Int]
      /\ scanEnd \in [Writers -> Int]
  BY DEF TypeInv
<1> USE <1>a DEF Goto, Same
<1>1. CASE GetNewTransactionId(w)
  BY <1>1 DEF GetNewTransactionId, stampVars, scanVars
<1>2. CASE AssignSubXid(w)
  BY <1>2 DEF AssignSubXid, stampVars, scanVars
<1>3. CASE SetParent(w) \/ CommitSubTransaction(w)
  BY <1>3 DEF SetParent, CommitSubTransaction, treeVars, stampVars, scanVars
<1>4. CASE CommitTree(w) \/ UpdateLatestCompleted(w)
  BY <1>4 DEF CommitTree, UpdateLatestCompleted, treeVars, stampVars, scanVars
<1>5. CASE MarkCommitting(w) \/ TakeCsn(w)
  BY <1>5 DEF MarkCommitting, TakeCsn, treeVars, stampVars, scanVars
<1>6. CASE SetUpperBound(w)
  BY <1>6 DEF SetUpperBound, treeVars, stampVars, scanVars
<1>7. CASE SetItem(w)
  BY <1>7 DEF SetItem, WriteItem, treeVars, scanVars
<1>8. CASE AbortTree(w)
  BY <1>8 DEF AbortTree, treeVars, scanVars
<1>9. CASE AbortInClog(w)
  BY <1>9 DEF AbortInClog, stampVars, scanVars
<1>10. CASE EndTransaction(w)
  BY <1>10 DEF EndTransaction
<1>11. CASE AdvanceOldest(w)
  BY <1>11 DEF AdvanceOldest, AdvanceDone, treeVars, stampVars
<1>12. CASE ReadNextXid(w) \/ ScanActive(w)
  BY <1>12 DEF ReadNextXid, ScanActive, treeVars, stampVars
<1>13. CASE SwapOldest(w)
  BY <1>13 DEF SwapOldest, AdvanceDone, treeVars, stampVars
<1> QED BY <1>1, <1>2, <1>3, <1>4, <1>5, <1>6, <1>7, <1>8, <1>9, <1>10, <1>11, <1>12, <1>13 DEF Writer

\* A step writes entries of its own transaction that are not final, and hands
\* out one xid at most.
Shared(w) ==
    /\ nextCsn <= nextCsn' /\ latestCompleted <= latestCompleted'
    /\ \A x \in Xids : csnlog'[x] = csnlog[x] \/ (x \in tree'[w] /\ ~IsFinal(csnlog[x]))
    /\ \A x \in Xids : clog'[x] = clog[x] \/ x \in tree[w]
    /\ \A x \in Xids : parent'[x] = parent[x] \/ (x = nextXid /\ x \in tree'[w])
    /\ \A g \in DOMAIN upperBound : upperBound[g] <= upperBound'[g]
    /\ \A x \in tree'[w] : x \in tree[w] \/ x = nextXid
    /\ nextXid' = nextXid \/ (nextXid' = nextXid + 1 /\ nextXid \in tree'[w])
    /\ nextXid' = nextXid => tree'[w] \subseteq tree[w]

\* What each step of a writer does to the variables that all writers share.
LEMMA SharedSteps ==
    ASSUME TypeInv, Trees, Entries, NEW w \in Writers, Writer(w)
    PROVE  Shared(w)
<1>a. TreeOf(w) /\ EntriesOf(w) BY DEF Trees, Entries
<1>b. \A x \in Xids : x >= nextXid => csnlog[x] = InProgress BY DEF Entries
<1>c. nextXid <= MaxXid => nextXid \in Xids BY NextXid
<1>d. /\ nextXid \in Int /\ nextCsn \in Int /\ latestCompleted \in Int
      /\ csnlog \in [Xids -> Int] /\ clog \in [Xids -> {InProgress, Aborted, Frozen}]
      /\ upperBound \in [0 .. UBSlot(MaxXid) -> Int] /\ parent \in [Xids -> 0 .. MaxXid]
      /\ tree[w] \subseteq Xids /\ open[w] \subseteq Xids /\ stamp[w] \subseteq Xids
      /\ tree \in [Writers -> SUBSET Xids] /\ Xids \subseteq Int /\ stampCsn[w] \in Int
  BY NextXid, XidsInt DEF TypeInv
<1>e. ASSUME NEW a \in Int, NEW b \in Int PROVE a <= Later(a, b)
  BY SMT DEF Later
<1> USE DEF Goto, Shared
<1>1. CASE GetNewTransactionId(w)
  BY <1>1, <1>b, <1>c, <1>d, SMT DEF GetNewTransactionId, IsFinal, IsCommitted, InProgress, Aborted,
     Frozen
<1>2. CASE AssignSubXid(w)
  BY <1>2, <1>b, <1>c, <1>d, SMT DEF AssignSubXid, IsFinal, IsCommitted, InProgress, Aborted, Frozen
<1>3. CASE SetParent(w)
  BY <1>3, <1>a, <1>d, SMT DEF SetParent, TreeOf, counters, treeVars, IsFinal, IsCommitted, IsSubTrans,
     InProgress, Aborted, Frozen
<1>4. CASE CommitSubTransaction(w) BY <1>4, <1>d, SMT DEF CommitSubTransaction, logVars, counters
<1>5. CASE CommitTree(w) BY <1>5, <1>d, SMT DEF CommitTree, counters, treeVars
<1>6. CASE UpdateLatestCompleted(w)
  BY <1>6, <1>d, <1>e, SMT DEF UpdateLatestCompleted, logVars, treeVars
<1>7. CASE MarkCommitting(w)
  BY <1>7, <1>a, <1>d, SMT DEF MarkCommitting, TreeOf, EntriesOf, Live, counters, treeVars
<1>8. CASE TakeCsn(w) BY <1>8, <1>d, SMT DEF TakeCsn, logVars, treeVars
<1>9. CASE SetUpperBound(w) BY <1>9, <1>d, <1>e, SMT DEF SetUpperBound, counters, treeVars
<1>10. CASE SetItem(w)
  BY <1>10, <1>a, <1>d, SMT DEF SetItem, WriteItem, TreeOf, EntriesOf, counters, treeVars
<1>11. CASE AbortTree(w)
  <2>1. stamp'[w] \subseteq tree[w] BY <1>11 DEF AbortTree, Since, TypeInv
  <2>2. PICK x \in stamp'[w] : latestCompleted' = Later(latestCompleted, x)
    BY <1>11 DEF AbortTree
  <2>3. x \in Int BY <1>d, <2>1, <2>2
  <2> QED BY <1>11, <1>d, <1>e, <2>2, <2>3, SMT DEF AbortTree, logVars, treeVars
<1>12. CASE AbortInClog(w)
  <2>1. UNCHANGED <<csnlog, upperBound, nextXid, nextCsn, latestCompleted, parent>>
    BY <1>12 DEF AbortInClog, counters
  <2>2. tree'[w] \subseteq tree[w] BY <1>12, <1>d, SMT DEF AbortInClog
  <2>3. \A x \in Xids : clog'[x] = clog[x] \/ x \in tree[w]
    BY <1>12, <1>d DEF AbortInClog, Since
  <2> QED BY <1>d, <2>1, <2>2, <2>3, SMT
<1>13. CASE EndTransaction(w) BY <1>13, <1>d, SMT DEF EndTransaction, logVars, counters
<1>14. CASE AdvanceOldest(w) \/ ReadNextXid(w) \/ ScanActive(w) \/ SwapOldest(w)
  <2>1. UNCHANGED <<logVars, nextXid, nextCsn, latestCompleted, treeVars>>
    BY <1>14 DEF AdvanceOldest, ReadNextXid, ScanActive, SwapOldest, counters
  <2> QED BY <1>d, <2>1, SMT DEF logVars, treeVars
<1> QED BY <1>1, <1>2, <1>3, <1>4, <1>5, <1>6, <1>7, <1>8, <1>9, <1>10, <1>11, <1>12,
           <1>13, <1>14, Zenon DEF Writer

-----------------------------------------------------------------------------
(* Trees.                                                                  *)

\* A step keeps the trees: they stay disjoint, and every child keeps its parent.
LEMMA TreesStep ==
    ASSUME TypeInv, Trees, Entries, NEW w \in Writers, Writer(w), TypeInv'
    PROVE  Trees'
<1>a. Shared(w) BY SharedSteps
<1>b. nextXid \in Int /\ nextXid' \in Int /\ nextXid <= nextXid' BY <1>a, SMT DEF Shared, TypeInv
<1>c. \A v \in Writers : tree[v] \subseteq Xids /\ tree'[v] \subseteq Xids /\ TreeOf(v)
  BY DEF TypeInv, Trees
<1>d. Xids \subseteq Int BY SMT DEF Xids
<1>e. /\ pc \in [Writers -> Steps] /\ open \in [Writers -> SUBSET Xids]
      /\ tree \in [Writers -> SUBSET Xids] /\ stamp \in [Writers -> SUBSET Xids]
      /\ parent \in [Xids -> 0 .. MaxXid] /\ procXid \in [Writers -> 0 .. MaxXid]
  BY DEF TypeInv
<1>f. nextXid <= MaxXid => nextXid \in Xids /\ nextXid # InvalidXid
  BY CsnCommitAssumption, SMT DEF TypeInv, Xids, InvalidXid
<1>g. \A x \in Xids : parent'[x] = parent[x] \/ x = nextXid BY <1>a DEF Shared
<1>1. ASSUME NEW v \in Writers, v # w PROVE TreeOf(v)'
  <2>1. Same(v) BY <1>1, OthersStay
  <2>2. TreeOf(v) /\ \A y \in tree[v] : y \in Xids /\ y < nextXid
    BY <1>c DEF TreeOf
  <2>3. ASSUME NEW y \in tree[v] PROVE parent'[y] = parent[y] /\ y < nextXid'
    <3>1. y \in Xids /\ y \in Int /\ y < nextXid BY <1>d, <2>2
    <3>2. y # nextXid /\ y < nextXid' BY <1>b, <3>1, SMT
    <3> QED BY <1>g, <3>1, <3>2
  <2>4. pc[v] \in Live => procXid[v] \in tree[v] BY <2>2 DEF TreeOf
  <2> QED BY <2>1, <2>2, <2>3, <2>4 DEF TreeOf, Same
<1>2. ASSUME NEW u \in Writers, NEW v \in Writers, u # v PROVE tree'[u] \cap tree'[v] = {}
  <2>1. ASSUME NEW t \in Writers, t # w PROVE tree'[t] \cap tree'[w] = {}
    <3>1. tree'[t] = tree[t] /\ tree[t] \cap tree[w] = {}
      BY <2>1, OthersStay DEF Same, Trees
    <3>2. \A y \in tree[t] : y < nextXid BY <1>c DEF TreeOf
    <3>3. nextXid \notin tree[t] BY <1>b, <3>2, SMT
    <3> QED BY <1>a, <3>1, <3>3 DEF Shared
  <2>2. u # w /\ v # w => tree'[u] \cap tree'[v] = tree[u] \cap tree[v]
    BY OthersStay DEF Same
  <2> QED BY <1>2, <2>1, <2>2 DEF Trees
<1>3. TreeOf(w)'
  <2>a. TreeOf(w) BY <1>c
  <2> USE <1>e DEF Goto, Live
  <2>1. CASE GetNewTransactionId(w)
    <3>1. /\ nextXid \in Xids /\ nextXid' = nextXid + 1 /\ parent' = parent
          /\ pc[w] = "idle" /\ pc'[w] = "run" /\ procXid'[w] = nextXid /\ stamp'[w] = stamp[w]
          /\ open'[w] = {nextXid} /\ tree'[w] = {nextXid}
      BY <2>1, <1>f DEF GetNewTransactionId, stampVars
    <3>2. parent[nextXid] = InvalidXid /\ stamp[w] = {}
      BY <1>b, <2>a, <3>1, SMT DEF Entries, TreeOf
    <3> QED BY <1>b, <3>1, <3>2, SMT DEF TreeOf
  <2>2. CASE AssignSubXid(w)
    <3>1. PICK p \in open[w] : parent' = [parent EXCEPT ![nextXid] = p]
      BY <2>2 DEF AssignSubXid
    <3>2. /\ nextXid \in Xids /\ nextXid' = nextXid + 1
          /\ pc[w] = "run" /\ pc'[w] = "sub" /\ procXid' = procXid /\ stamp' = stamp
          /\ open'[w] = open[w] \cup {nextXid} /\ tree'[w] = tree[w] \cup {nextXid}
      BY <2>2, <1>f DEF AssignSubXid, stampVars
    <3>3. \A y \in tree[w] : y \in Xids /\ y < nextXid /\ parent'[y] = parent[y]
      BY <3>1, <1>b, <1>d, <2>a, SMT DEF TreeOf
    <3>4. procXid[w] \in tree[w] /\ p \in tree[w] /\ parent'[nextXid] = p
      BY <3>1, <3>2, <2>a DEF TreeOf
    <3>5. parent[procXid[w]] = InvalidXid /\ procXid[w] \in open[w] /\ stamp[w] = {}
          /\ procXid[w] \in Int /\ nextXid \in Int /\ p < nextXid /\ procXid[w] <= nextXid
      BY <1>b, <1>d, <2>a, <3>2, <3>3, <3>4, SMT DEF TreeOf
    <3>6. ASSUME NEW y \in tree'[w]
          PROVE  /\ y < nextXid' /\ procXid'[w] <= y
                 /\ y # procXid'[w] => parent'[y] \in tree'[w] /\ parent'[y] < y
      <4>1. CASE y = nextXid BY <3>2, <3>4, <3>5, <4>1, SMT
      <4>2. CASE y \in tree[w]
        BY <1>d, <2>a, <3>2, <3>3, <3>5, <4>2, SMT DEF TreeOf
      <4> QED BY <3>2, <4>1, <4>2
    <3> QED BY <2>a, <3>2, <3>3, <3>4, <3>5, <3>6 DEF TreeOf
  <2>3. CASE SetParent(w) \/ CommitTree(w) \/ UpdateLatestCompleted(w) \/ MarkCommitting(w)
    <3>1. UNCHANGED <<nextXid, treeVars, stampVars>> /\ pc[w] \in Live /\ pc'[w] \in Live
          /\ pc[w] \notin {"bound", "item"}
      BY <2>3 DEF SetParent, CommitTree, UpdateLatestCompleted, MarkCommitting, counters
    <3> QED BY <3>1, <2>a DEF TreeOf, treeVars, stampVars
  <2>4. CASE CommitSubTransaction(w)
    <3>1. PICK x \in open[w] : IsLatest(x, open[w]) /\ open'[w] = open[w] \ {x}
      BY <2>4 DEF CommitSubTransaction
    <3>2. PICK y \in open[w] : y # procXid[w]
      BY <2>4, <2>a DEF CommitSubTransaction, TreeOf
    <3>3. x # procXid[w]
      <4>1. y \in tree[w] /\ procXid[w] <= y /\ procXid[w] \in open[w]
        BY <2>4, <2>a DEF CommitSubTransaction, TreeOf
      <4>2. y <= x BY <3>1, <3>2 DEF IsLatest
      <4>3. x \in Int /\ y \in Int
        <5>1. x \in Xids /\ y \in Xids BY DEF TypeInv
        <5> QED BY <5>1, SMT DEF Xids
      <4> QED BY <3>2, <4>1, <4>2, <4>3, SMT
    <3> QED BY <2>4, <2>a, <3>1, <3>3 DEF CommitSubTransaction, TreeOf, counters, stampVars
  <2>5. CASE TakeCsn(w) BY <2>5, <2>a DEF TakeCsn, TreeOf, treeVars
  <2>6. CASE SetUpperBound(w)
    BY <2>6, <2>a DEF SetUpperBound, TreeOf, counters, treeVars, stampVars
  <2>7. CASE SetItem(w)
    BY <2>7, <2>a, SMT DEF SetItem, WriteItem, TreeOf, counters, treeVars
  <2>8. CASE AbortTree(w)
    BY <2>8, <2>a, SMT DEF AbortTree, Since, TreeOf, treeVars
  <2>9. CASE AbortInClog(w)
    <3>1. UNCHANGED <<nextXid, parent, procXid, stamp>> /\ pc[w] = "clog"
      BY <2>9 DEF AbortInClog, counters, stampVars
    <3>2. PICK x \in open[w] :
             /\ IsLatest(x, open[w])
             /\ \/ pc' = [pc EXCEPT ![w] = "end"] /\ UNCHANGED <<open, tree>>
                \/ /\ x # procXid[w] /\ pc' = [pc EXCEPT ![w] = "run"]
                   /\ open' = [open EXCEPT ![w] = @ \ {x}]
                   /\ tree' = [tree EXCEPT ![w] = @ \ Since(w, x)]
      BY <2>9 DEF AbortInClog
    <3>3. CASE pc' = [pc EXCEPT ![w] = "end"] /\ UNCHANGED <<open, tree>>
      BY <2>a, <3>1, <3>3 DEF TreeOf
    <3>4. CASE /\ x # procXid[w] /\ pc' = [pc EXCEPT ![w] = "run"]
               /\ open' = [open EXCEPT ![w] = @ \ {x}]
               /\ tree' = [tree EXCEPT ![w] = @ \ Since(w, x)]
      <4>1. open'[w] = open[w] \ {x} /\ tree'[w] = {y \in tree[w] : ~(x <= y)} /\ pc'[w] = "run"
        BY <3>4 DEF Since
      <4>2. \A y \in tree[w] : y \in Int /\ y \in Xids BY <1>d, <1>e
      <4> QED BY <2>a, <3>1, <3>2, <3>4, <4>1, <4>2, SMT DEF TreeOf, IsLatest
    <3> QED BY <3>2, <3>3, <3>4
  <2>10. CASE EndTransaction(w)
    BY <2>10, <2>a DEF EndTransaction, TreeOf, counters
  <2>11. CASE AdvanceOldest(w) \/ ReadNextXid(w) \/ ScanActive(w) \/ SwapOldest(w)
    <3>1. UNCHANGED <<nextXid, treeVars, stampVars>> /\ pc[w] \notin Live /\ pc'[w] \notin Live
      BY <2>11 DEF AdvanceOldest, ReadNextXid, ScanActive, SwapOldest, AdvanceDone, counters
    <3> QED BY <3>1, <2>a DEF TreeOf, treeVars, stampVars
  <2> QED BY <2>1, <2>2, <2>3, <2>4, <2>5, <2>6, <2>7, <2>8, <2>9, <2>10, <2>11
             DEF Writer
<1> QED BY <1>1, <1>2, <1>3 DEF Trees

-----------------------------------------------------------------------------
(* Entries.                                                                *)

\* A step leaves the entries of the other transactions alone.
LEMMA EntriesOfOther ==
    ASSUME TypeInv, Trees, Entries, NEW w \in Writers, Writer(w), Trees', TypeInv',
           NEW v \in Writers, v # w
    PROVE  /\ \A y \in tree[v] : csnlog'[y] = csnlog[y] /\ clog'[y] = clog[y]
                                 /\ parent'[y] = parent[y]
           /\ EntriesOf(v)'
<1>a. Same(v) /\ Shared(w) BY OthersStay, SharedSteps
<1>b. tree[v] \subseteq Xids /\ TreeOf(v) /\ EntriesOf(v) /\ nextXid \in Int /\ Xids \subseteq Int
  BY NextXid, XidsInt DEF TypeInv, Trees, Entries
<1>c. tree'[v] = tree[v] /\ tree[v] \cap tree[w] = {} /\ tree'[v] \cap tree'[w] = {}
  BY <1>a DEF Same, Trees
<1>1. ASSUME NEW y \in tree[v]
      PROVE  csnlog'[y] = csnlog[y] /\ clog'[y] = clog[y] /\ parent'[y] = parent[y]
  BY <1>a, <1>b, <1>c DEF Shared
<1>2. stamp[v] \subseteq tree[v] /\ Commits(v)' = Commits(v)
  BY <1>a, <1>b DEF TreeOf, Commits, Same
<1>3. \A y \in tree[v] : Unwritten(v, y)' = Unwritten(v, y)
  BY <1>a, <1>1, <1>2 DEF Unwritten, Same
<1>4. open[v] \subseteq tree[v] BY <1>b DEF TreeOf
<1>5. /\ pc'[v] = pc[v] /\ open'[v] = open[v] /\ stamp'[v] = stamp[v] /\ stampCsn'[v] = stampCsn[v]
  BY <1>a DEF Same
<1>6. EntriesOf(v)'
  <2>1. \A y \in tree'[v] : csnlog'[y] = csnlog[y] BY <1>1, <1>c
  <2>2. \A y \in tree'[v] : ~IsFinal(csnlog'[y]) => Unwritten(v, y)'
    BY <1>b, <1>c, <1>3, <2>1 DEF EntriesOf
  <2>3. pc'[v] \in {"item", "clog"} /\ stampCsn'[v] = Aborted =>
           \E x \in open'[v] :
              /\ IsLatest(x, open'[v])
              /\ \A y \in tree'[v] : y < x => ~IsFinal(csnlog'[y]) /\ y \notin stamp'[v]
              /\ \A y \in tree'[v] \ stamp'[v] : x <= y => csnlog'[y] = Aborted
    <3> SUFFICES ASSUME pc[v] \in {"item", "clog"}, stampCsn[v] = Aborted
                 PROVE  \E x \in open[v] :
                          /\ IsLatest(x, open[v])
                          /\ \A y \in tree[v] : y < x => ~IsFinal(csnlog'[y]) /\ y \notin stamp[v]
                          /\ \A y \in tree[v] \ stamp[v] : x <= y => csnlog'[y] = Aborted
      BY <1>c, <1>5
    <3>1. PICK x \in open[v] :
             /\ IsLatest(x, open[v])
             /\ \A y \in tree[v] : y < x => ~IsFinal(csnlog[y]) /\ y \notin stamp[v]
             /\ \A y \in tree[v] \ stamp[v] : x <= y => csnlog[y] = Aborted
      BY <1>b DEF EntriesOf
    <3> QED BY <1>1, <3>1
  <2>4. /\ \A y \in stamp'[v] : ~IsFinal(csnlog'[y])
        /\ pc'[v] \in {"bound", "item"} /\ stampCsn'[v] # Aborted =>
              \A y \in tree'[v] \ stamp'[v] : csnlog'[y] = stampCsn'[v]
    BY <1>b, <1>c, <1>1, <1>2, <1>5 DEF EntriesOf
  <2>5. /\ pc'[v] \in {"run", "sub", "latest", "mark", "csn"} =>
              \A y \in tree'[v] : ~IsFinal(csnlog'[y])
        /\ pc'[v] = "end" => \A y \in tree'[v] : IsFinal(csnlog'[y])
    BY <1>b, <1>c, <1>1, <1>5 DEF EntriesOf
  <2>6. /\ pc'[v] = "clog" => stampCsn'[v] = Aborted
        /\ pc'[v] = "bound" => stampCsn'[v] # Aborted
    BY <1>b, <1>5 DEF EntriesOf
  <2> QED BY <2>2, <2>3, <2>4, <2>5, <2>6 DEF EntriesOf
<1> QED BY <1>1, <1>6

\* A step of the transaction itself keeps its entries in the order of its commit or
\* abort.
LEMMA EntriesOfWriter ==
    ASSUME TypeInv, Trees, Entries, Csns, NEW w \in Writers, Writer(w), TypeInv'
    PROVE  EntriesOf(w)'
<1>a. TreeOf(w) /\ EntriesOf(w) /\ CommitOf(w) BY DEF Trees, Entries, Csns
<1>b. /\ pc \in [Writers -> Steps] /\ open \in [Writers -> SUBSET Xids]
      /\ tree \in [Writers -> SUBSET Xids] /\ stamp \in [Writers -> SUBSET Xids]
      /\ stampCsn \in [Writers -> Int] /\ csnlog \in [Xids -> Int]
      /\ parent \in [Xids -> 0 .. MaxXid] /\ procXid \in [Writers -> 0 .. MaxXid]
      /\ nextXid \in 1 .. MaxXid + 1 /\ nextCsn \in Int /\ nextCsn >= FirstNormal
  BY DEF TypeInv
<1>c. Xids \subseteq Int /\ tree[w] \subseteq Int /\ nextXid \in Int BY <1>b, SMT DEF Xids
<1>d. nextXid <= MaxXid => nextXid \in Xids BY NextXid
<1> USE <1>b DEF Goto
<1>1. CASE GetNewTransactionId(w)
  <2>1. /\ pc'[w] = "run" /\ tree'[w] = {nextXid} /\ procXid'[w] = nextXid
        /\ csnlog'[nextXid] = InProgress /\ stamp'[w] = {}
    BY <1>1, <1>a, <1>d DEF GetNewTransactionId, TreeOf, stampVars, Live
  <2> QED BY <2>1, SMT DEF EntriesOf, Unwritten, Commits, IsFinal, IsCommitted, InProgress, Aborted, Frozen
<1>2. CASE AssignSubXid(w)
  <2>1. /\ pc[w] = "run" /\ pc'[w] = "sub" /\ tree'[w] = tree[w] \cup {nextXid} /\ nextXid \in Xids
        /\ open'[w] = open[w] \cup {nextXid}
        /\ procXid' = procXid /\ csnlog'[nextXid] = InProgress /\ stamp'[w] = {}
    BY <1>2, <1>a, <1>d DEF AssignSubXid, TreeOf, stampVars, Live
  <2>2. \A y \in tree[w] : y < nextXid /\ csnlog'[y] = csnlog[y] /\ parent'[y] = parent[y]
    BY <1>2, <1>a, <1>c, SMT DEF AssignSubXid, TreeOf
  <2>3. IsLatest(nextXid, open'[w]) /\ procXid[w] # nextXid
    BY <1>a, <1>c, <2>1, <2>2, SMT DEF IsLatest, TreeOf, Live
  <2>4. ASSUME NEW y \in tree'[w] PROVE ~IsFinal(csnlog'[y]) /\ Unwritten(w, y)'
    <3>1. CASE y = nextXid
      BY <2>1, <2>3, <3>1, SMT DEF Unwritten, IsFinal, IsCommitted, InProgress, Aborted, Frozen
    <3>2. CASE y \in tree[w]
      BY <1>a, <2>1, <2>2, <3>2 DEF EntriesOf, Unwritten, Commits
    <3> QED BY <2>1, <3>1, <3>2
  <2> QED BY <2>1, <2>4 DEF EntriesOf
<1>3. CASE SetParent(w)
  <2>1. PICK x \in open[w] :
           /\ IsLatest(x, open[w])
           /\ csnlog' = IF csnlog[x] = InProgress
                           \/ (IsSubTrans(csnlog[x]) /\ csnlog[x] # SubTrans(parent[x]))
                        THEN [csnlog EXCEPT ![x] = SubTrans(parent[x])] ELSE csnlog
    BY <1>3 DEF SetParent
  <2>2. /\ pc[w] = "sub" /\ pc'[w] = "run" /\ UNCHANGED <<tree, open, parent, procXid, stamp>>
        /\ x \in tree[w] /\ stamp[w] = {} /\ procXid[w] \in open[w]
    BY <1>3, <1>a DEF SetParent, TreeOf, treeVars, stampVars, Live
  <2>3. \A y \in open[w] : IsLatest(y, open[w]) => y = x
    BY <1>a, <1>c, <2>1, SMT DEF IsLatest, TreeOf
  <2>4. /\ \A y \in tree[w] : y # x => csnlog'[y] = csnlog[y]
        /\ x # procXid[w] => csnlog'[x] = SubTrans(parent[x])
        /\ x = procXid[w] => csnlog'[x] = InProgress
    BY <1>a, <2>1, <2>2, SMT DEF EntriesOf, Unwritten, TreeOf, Live, Commits, SubTrans, InProgress, InvalidXid,
       IsSubTrans
  <2>5. SubTrans(parent[x]) \in Int /\ SubTrans(parent[x]) <= 0 BY <2>2, SMT DEF SubTrans, Xids
  <2>6. ASSUME NEW y \in tree[w] PROVE ~IsFinal(csnlog'[y]) /\ Unwritten(w, y)'
    <3>1. CASE y = x
      <4>1. ~IsFinal(csnlog'[y])
        BY <2>4, <2>5, <3>1, SMT DEF IsFinal, IsCommitted, InProgress, Aborted, Frozen
      <4> QED BY <2>2, <2>4, <3>1, <4>1 DEF Unwritten, Commits
    <3>2. CASE y # x
      <4>1. ~IsFinal(csnlog[y]) /\ Unwritten(w, y) /\ csnlog'[y] = csnlog[y]
        BY <1>a, <2>2, <2>4, <3>2 DEF EntriesOf
      <4> QED BY <2>2, <2>3, <3>2, <4>1 DEF Unwritten, Commits, IsLatest
    <3> QED BY <3>1, <3>2
  <2> QED BY <2>2, <2>6 DEF EntriesOf
<1>4. CASE CommitSubTransaction(w) \/ CommitTree(w) \/ UpdateLatestCompleted(w)
  <2>1. /\ pc[w] \in {"run", "latest"} /\ pc'[w] \in {"run", "latest", "mark"} /\ stamp[w] = {}
        /\ UNCHANGED <<csnlog, tree, parent, procXid, stamp>>
    BY <1>4, <1>a DEF CommitSubTransaction, CommitTree, UpdateLatestCompleted, logVars, treeVars,
       stampVars, TreeOf
  <2> QED BY <1>a, <2>1 DEF EntriesOf, Unwritten, Commits
<1>5. CASE MarkCommitting(w)
  <2>1. /\ pc[w] = "mark" /\ pc'[w] = "csn" /\ stamp[w] = {} /\ procXid[w] \in Xids
        /\ UNCHANGED <<tree, parent, procXid, stamp>>
        /\ csnlog' = [csnlog EXCEPT ![procXid[w]] = Committing]
    BY <1>5, <1>a DEF MarkCommitting, treeVars, stampVars, TreeOf, Live
  <2> QED BY <1>a, <2>1, SMT DEF EntriesOf, Unwritten, Commits, IsFinal, IsCommitted, Aborted, Frozen, Committing
<1>6. CASE TakeCsn(w)
  <2>1. /\ pc[w] = "csn" /\ pc'[w] = "bound" /\ stamp'[w] = tree[w] /\ stampCsn'[w] # Aborted
        /\ UNCHANGED <<csnlog, tree, parent, procXid>>
    BY <1>6, SMT DEF TakeCsn, logVars, treeVars, Aborted, FirstNormal
  <2> QED BY <1>a, <2>1 DEF EntriesOf, Unwritten, Commits
<1>7. CASE SetUpperBound(w)
  <2>1. /\ pc[w] = "bound" /\ pc'[w] = "item"
        /\ UNCHANGED <<csnlog, tree, open, parent, procXid, stamp, stampCsn>>
    BY <1>7 DEF SetUpperBound, treeVars, stampVars
  <2> QED BY <1>a, <2>1 DEF EntriesOf, Unwritten, Commits
<1>8. CASE SetItem(w)
  <2>1. PICK x \in stamp[w] : IsLatest(x, stamp[w]) /\ WriteItem(w, x)
    BY <1>8 DEF SetItem
  <2>2. /\ pc[w] = "item" /\ UNCHANGED <<tree, open, parent, procXid, stampCsn>> /\ x \in tree[w]
        /\ csnlog'[x] = stampCsn[w] /\ stamp'[w] = stamp[w] \ {x}
        /\ \A y \in tree[w] : y # x => csnlog'[y] = csnlog[y]
    BY <1>a, <2>1 DEF WriteItem, treeVars, TreeOf
  <2>3. /\ pc'[w] = IF stamp[w] = {x}
                    THEN IF stampCsn[w] = Aborted THEN "clog" ELSE "end"
                    ELSE IF stampCsn[w] = Aborted THEN "item" ELSE "bound"
        /\ IsFinal(stampCsn[w])
    BY <1>a, <2>1, SMT DEF WriteItem, CommitOf, IsFinal, IsCommitted, FirstNormal, Frozen
  <2>4. ASSUME NEW y \in tree[w], ~IsFinal(csnlog'[y]) PROVE Unwritten(w, y)' /\ csnlog'[y] = csnlog[y]
    <3>1. y # x /\ csnlog'[y] = csnlog[y] BY <2>2, <2>3, <2>4
    <3>2. Unwritten(w, y) BY <1>a, <2>4, <3>1 DEF EntriesOf
    <3>3. CASE stamp[w] # {x} BY <2>2, <2>3, <3>1, <3>2, <3>3 DEF Unwritten, Commits
    <3>4. CASE stamp[w] = {x}
      BY <1>a, <2>2, <2>3, <2>4, <3>1, <3>2, <3>4 DEF Unwritten, Commits, EntriesOf
    <3> QED BY <3>1, <3>3, <3>4
  <2>7. \A y \in stamp'[w] : ~IsFinal(csnlog'[y]) BY <1>a, <2>2 DEF EntriesOf, TreeOf
  <2>5. CASE stampCsn[w] # Aborted
    <3>1. \A y \in tree[w] \ stamp'[w] : csnlog'[y] = stampCsn[w]
      BY <1>a, <2>2, <2>5 DEF EntriesOf
    <3>2. \A y \in stamp'[w] : ~IsFinal(csnlog'[y]) BY <2>7
    <3>3. CASE stamp[w] = {x}
      <4>1. pc'[w] = "end" /\ stamp'[w] = {} BY <2>2, <2>3, <2>5, <3>3
      <4>2. \A y \in tree[w] : IsFinal(csnlog'[y]) BY <2>3, <3>1, <4>1
      <4> QED BY <2>2, <2>4, <4>1, <4>2 DEF EntriesOf
    <3>4. CASE stamp[w] # {x}
      <4>1. pc'[w] = "bound" BY <2>3, <2>5, <3>4
      <4> QED BY <2>2, <2>4, <2>5, <3>1, <3>2, <4>1 DEF EntriesOf
    <3> QED BY <3>3, <3>4
  <2>6. CASE stampCsn[w] = Aborted
    <3>1. PICK z \in open[w] :
             /\ IsLatest(z, open[w])
             /\ \A y \in tree[w] : y < z => ~IsFinal(csnlog[y]) /\ y \notin stamp[w]
             /\ \A y \in tree[w] \ stamp[w] : z <= y => csnlog[y] = Aborted
      BY <1>a, <2>2, <2>6 DEF EntriesOf
    <3>2. /\ \A y \in tree[w] : y < z => ~IsFinal(csnlog'[y]) /\ y \notin stamp'[w]
          /\ \A y \in tree[w] \ stamp'[w] : z <= y => csnlog'[y] = Aborted
      BY <1>a, <1>c, <2>2, <2>6, <3>1 DEF TreeOf
    <3>3. pc'[w] \in {"item", "clog"} BY <2>3, <2>6
    <3> QED BY <2>2, <2>4, <2>6, <2>7, <3>1, <3>2, <3>3 DEF EntriesOf
  <2> QED BY <2>5, <2>6
<1>9. CASE AbortTree(w)
  <2>1. PICK x \in open[w] : IsLatest(x, open[w]) /\ stamp' = [stamp EXCEPT ![w] = Since(w, x)]
    BY <1>9 DEF AbortTree
  <2>2. /\ pc[w] = "run" /\ pc'[w] = "item" /\ UNCHANGED <<csnlog, tree, open, parent, procXid>>
        /\ stampCsn'[w] = Aborted /\ stamp'[w] = {y \in tree[w] : x <= y}
    BY <1>9, <2>1 DEF AbortTree, Since, logVars, treeVars
  <2>3. x \in Int BY <1>a, <1>c, <2>1 DEF TreeOf
  <2>4. \A y \in tree[w] : ~IsFinal(csnlog[y]) /\ Unwritten(w, y)'
    BY <1>a, <2>2 DEF EntriesOf, Unwritten, Commits
  <2>5. \A y \in tree[w] : /\ y < x => y \notin stamp'[w]
                           /\ y \notin stamp'[w] => ~(x <= y)
    BY <1>c, <2>1, <2>2, <2>3, SMT
  <2> QED BY <2>1, <2>2, <2>4, <2>5 DEF EntriesOf
<1>10. CASE AbortInClog(w)
  <2>1. pc[w] = "clog" /\ stampCsn[w] = Aborted /\ UNCHANGED <<csnlog, parent, procXid, stamp>>
        /\ stamp[w] = {}
    BY <1>10, <1>a DEF AbortInClog, EntriesOf, stampVars, TreeOf
  <2>2. PICK x \in open[w] :
             /\ IsLatest(x, open[w])
             /\ \/ x = procXid[w] /\ pc' = [pc EXCEPT ![w] = "end"] /\ UNCHANGED <<open, tree>>
                \/ /\ pc' = [pc EXCEPT ![w] = "run"]
                   /\ tree' = [tree EXCEPT ![w] = @ \ Since(w, x)]
    BY <1>10 DEF AbortInClog
  <2>3. /\ \A y \in tree[w] : y < x => ~IsFinal(csnlog[y])
        /\ \A y \in tree[w] : x <= y => csnlog[y] = Aborted
    BY <1>a, <1>c, <2>1, <2>2, SMT DEF EntriesOf, IsLatest, TreeOf
  <2>4. CASE x = procXid[w] /\ pc' = [pc EXCEPT ![w] = "end"] /\ UNCHANGED <<open, tree>>
    <3>1. \A y \in tree[w] : IsFinal(csnlog[y])
      BY <1>a, <2>3, <2>4 DEF TreeOf, IsFinal
    <3> QED BY <2>1, <2>4, <3>1 DEF EntriesOf
  <2>5. CASE /\ pc' = [pc EXCEPT ![w] = "run"] /\ tree' = [tree EXCEPT ![w] = @ \ Since(w, x)]
    <3>1. \A y \in tree'[w] : y \in tree[w] /\ y < x
      BY <1>a, <1>c, <2>2, <2>5, SMT DEF Since, TreeOf
    <3>2. \A y \in tree'[w] : ~IsFinal(csnlog[y]) /\ Unwritten(w, y)'
      BY <1>a, <2>1, <2>3, <2>5, <3>1 DEF EntriesOf, Unwritten, Commits
    <3> QED BY <2>1, <2>5, <3>2 DEF EntriesOf
  <2> QED BY <2>2, <2>4, <2>5
<1>11. CASE EndTransaction(w) \/ AdvanceOldest(w) \/ ReadNextXid(w) \/ ScanActive(w) \/ SwapOldest(w)
  <2>1. tree'[w] = {} /\ stamp'[w] = {} /\ open'[w] = {}
        /\ pc'[w] \in {"idle", "advance", "next", "scan", "cas"}
    BY <1>11, <1>a DEF EndTransaction, AdvanceOldest, AdvanceDone, ReadNextXid, ScanActive,
       SwapOldest, TreeOf, Live, treeVars, stampVars
  <2> QED BY <2>1 DEF EntriesOf
<1> QED BY <1>1, <1>2, <1>3, <1>4, <1>5, <1>6, <1>7, <1>8, <1>9, <1>10, <1>11 DEF Writer

\* Only SetItem makes an entry final, and the entries of the children of that
\* xid are final before.
LEMMA FinalSteps ==
    ASSUME TypeInv, Trees, Entries, Csns, NEW w \in Writers, Writer(w), TypeInv',
           NEW p \in Xids, IsFinal(csnlog'[p]), ~IsFinal(csnlog[p])
    PROVE  /\ pc[w] = "item" /\ p \in tree[w] /\ IsLatest(p, stamp[w])
           /\ csnlog'[p] = stampCsn[w]
           /\ UNCHANGED <<parent, clog, upperBound, nextCsn, latestCompleted>>
           /\ \A x \in Xids : parent[x] = p => IsFinal(csnlog[x])
<1>a. TreeOf(w) /\ EntriesOf(w) /\ CommitOf(w) BY DEF Trees, Entries, Csns
<1>b. /\ csnlog \in [Xids -> Int] /\ parent \in [Xids -> 0 .. MaxXid] /\ Xids \subseteq Int
      /\ tree[w] \subseteq Xids /\ nextXid \in Int
  <2>1. Xids \subseteq Int BY XidsInt
  <2>2. nextXid \in 1 .. MaxXid + 1 BY DEF TypeInv
  <2>3. nextXid \in Int BY <2>2, SMT
  <2> QED BY <2>1, <2>3 DEF TypeInv
<1>1. SetItem(w)
  <2>1. CASE UNCHANGED csnlog BY <2>1
  <2>2. CASE \E x \in Xids : csnlog' = [csnlog EXCEPT ![x] = InProgress]
                             \/ csnlog' = [csnlog EXCEPT ![x] = Committing]
    BY <1>b, <2>2, SMT DEF IsFinal, IsCommitted, InProgress, Committing, Aborted, Frozen
  <2>3. CASE \E x \in Xids : csnlog' = [csnlog EXCEPT ![x] = SubTrans(parent[x])]
    BY <1>b, <2>3, SMT DEF IsFinal, IsCommitted, SubTrans, Aborted, Frozen
  <2>4. nextXid <= MaxXid => nextXid \in Xids BY NextXid
  <2>5. SetParent(w) => UNCHANGED csnlog \/ \E x \in Xids : csnlog' = [csnlog EXCEPT ![x] = SubTrans(parent[x])]
    BY <1>a, <1>b DEF SetParent, TreeOf
  <2>6. MarkCommitting(w) => \E x \in Xids : csnlog' = [csnlog EXCEPT ![x] = Committing]
    BY <1>a, <1>b DEF MarkCommitting, TreeOf, Goto, Live
  <2>7. GetNewTransactionId(w) \/ AssignSubXid(w) =>
           \E x \in Xids : csnlog' = [csnlog EXCEPT ![x] = InProgress]
    BY <2>4 DEF GetNewTransactionId, AssignSubXid
  <2>8. \/ UNCHANGED csnlog \/ SetParent(w) \/ MarkCommitting(w) \/ GetNewTransactionId(w)
        \/ AssignSubXid(w) \/ SetItem(w)
    BY DEF Writer, CommitSubTransaction, CommitTree, UpdateLatestCompleted, TakeCsn,
       SetUpperBound, AbortTree, AbortInClog, EndTransaction, AdvanceOldest, ReadNextXid,
       ScanActive, SwapOldest, logVars
  <2> QED BY <2>1, <2>2, <2>3, <2>5, <2>6, <2>7, <2>8
<1>2. PICK z \in stamp[w] : IsLatest(z, stamp[w]) /\ WriteItem(w, z)
  BY <1>1 DEF SetItem
<1>3. /\ p = z /\ pc[w] = "item" /\ csnlog'[p] = stampCsn[w]
      /\ UNCHANGED <<parent, clog, upperBound, nextCsn, latestCompleted>>
  BY <1>b, <1>2 DEF WriteItem, treeVars, counters
<1>4. ASSUME NEW x \in Xids, parent[x] = p PROVE IsFinal(csnlog[x])
  <2>1. p < x /\ p # InvalidXid /\ x < nextXid
    <3>1. p < x /\ (x >= nextXid => parent[x] = InvalidXid) BY <1>4 DEF Entries
    <3> QED BY <1>b, <1>4, <3>1, SMT DEF Xids, InvalidXid
  <2>2. CASE \A v \in Writers : x \notin tree[v] BY <2>1, <2>2 DEF Entries
  <2>3. ASSUME NEW v \in Writers, x \in tree[v] PROVE IsFinal(csnlog[x])
    <3>1. p \in tree[v]
      BY <1>4, <2>1, <2>3 DEF Trees, TreeOf, Live
    <3>2. v = w BY <1>a, <1>2, <1>3, <3>1 DEF Trees, TreeOf
    <3>3. x \notin stamp[w]
      <4>1. ~(x <= p)
        <5>1. x \in Int /\ p \in Int BY XidsInt
        <5> QED BY <2>1, <5>1, SMT
      <4> QED BY <1>2, <1>3, <4>1 DEF IsLatest
    <3>4. CASE stampCsn[w] # Aborted
      <4>1. csnlog[x] = stampCsn[w] BY <1>a, <1>3, <2>3, <3>2, <3>3, <3>4 DEF EntriesOf
      <4>2. FirstNormal <= stampCsn[w] /\ stampCsn[w] \in Int
        BY <1>a, <1>3, <3>4 DEF CommitOf, TypeInv
      <4> QED BY <4>1, <4>2, SMT DEF IsFinal, IsCommitted, FirstNormal, Frozen
    <3>5. CASE stampCsn[w] = Aborted
      <4>1. PICK y \in open[w] :
               /\ \A q \in tree[w] : q < y => q \notin stamp[w]
               /\ \A q \in tree[w] \ stamp[w] : y <= q => csnlog[q] = Aborted
        BY <1>a, <1>3, <3>5 DEF EntriesOf
      <4>2. p \in tree[w] /\ x \in tree[w] /\ y \in tree[w] BY <1>a, <3>1, <3>2, <2>3 DEF TreeOf
      <4>3. ~(p < y) BY <1>3, <4>1, <4>2
      <4>4. y \in Int /\ p \in Int /\ x \in Int BY <1>b, <4>2
      <4>5. y <= x BY <2>1, <4>3, <4>4, SMT
      <4> QED BY <3>3, <4>1, <4>2, <4>5 DEF IsFinal
    <3> QED BY <3>4, <3>5
  <2> QED BY <2>2, <2>3
<1> QED BY <1>a, <1>2, <1>3, <1>4 DEF TreeOf

\* A step keeps what is known of every entry: in particular no parent is final
\* before its children.
LEMMA EntriesStep ==
    ASSUME TypeInv, Trees, Entries, Csns, NEW w \in Writers, Writer(w), TypeInv', Trees'
    PROVE  Entries'
<1>a. Shared(w) BY SharedSteps
<1>b. /\ \A v \in Writers : TreeOf(v)' /\ tree'[v] \subseteq Xids /\ tree[v] \subseteq Xids
      /\ \A x \in Xids : x \in Int /\ parent'[x] \in 0 .. MaxXid
      /\ nextXid \in Int /\ nextXid' \in Int /\ nextXid <= nextXid'
      /\ TreeOf(w) /\ EntriesOf(w)
  <2>1. /\ \A v \in Writers : TreeOf(v)' /\ tree'[v] \subseteq Xids /\ tree[v] \subseteq Xids
        /\ TreeOf(w) /\ EntriesOf(w)
        /\ parent' \in [Xids -> 0 .. MaxXid]
        /\ nextXid \in 1 .. MaxXid + 1 /\ nextXid' \in 1 .. MaxXid + 1
        /\ nextXid' = nextXid \/ nextXid' = nextXid + 1
    BY <1>a DEF TypeInv, Trees, Entries, Shared
  <2> QED BY <2>1, SMT DEF Xids
<1>c. \A v \in Writers : \A x \in tree'[v] : x < nextXid' BY <1>b DEF TreeOf
<1>d. \A x \in Xids : x \in Int BY SMT DEF Xids
<1>e. nextXid \in Int /\ nextXid' \in Int /\ nextXid <= nextXid' BY <1>b
<1>1. \A v \in Writers : EntriesOf(v)' BY EntriesOfOther, EntriesOfWriter
<1>2. ASSUME NEW x \in Xids, x < nextXid', \A v \in Writers : x \notin tree'[v]
      PROVE  IsFinal(csnlog'[x])
  <2>1. csnlog'[x] = csnlog[x] /\ x < nextXid
    <3>1. csnlog'[x] = csnlog[x] /\ (x = nextXid => nextXid' = nextXid)
          /\ (nextXid' = nextXid \/ nextXid' = nextXid + 1)
      BY <1>a, <1>2 DEF Shared
    <3>2. x \in Int BY <1>d
    <3> QED BY <1>e, <1>2, <3>1, <3>2, SMT
  <2>2. ASSUME x \in tree[w] PROVE IsFinal(csnlog[x])
    <3>1. CASE AbortInClog(w)
      <4>1. PICK z \in open[w] : IsLatest(z, open[w]) /\ z <= x
        <5>1. PICK z \in open[w] :
                /\ IsLatest(z, open[w])
                /\ UNCHANGED tree \/ tree' = [tree EXCEPT ![w] = @ \ Since(w, z)]
          BY <3>1 DEF AbortInClog
        <5>2. x \notin tree'[w] BY <1>2
        <5>3. tree'[w] = tree[w] \ Since(w, z) BY <2>2, <5>1, <5>2 DEF TypeInv
        <5> QED BY <2>2, <5>1, <5>2, <5>3 DEF Since
      <4>2. stampCsn[w] = Aborted /\ stamp[w] = {} /\ pc[w] = "clog"
        BY <1>b, <3>1 DEF AbortInClog, EntriesOf, TreeOf
      <4>3. PICK y \in open[w] : /\ IsLatest(y, open[w])
                                 /\ \A q \in tree[w] : y <= q => csnlog[q] = Aborted
        BY <1>b, <4>2 DEF EntriesOf
      <4>4. y <= x
        <5>1. y <= z /\ z <= x BY <4>1, <4>3 DEF IsLatest
        <5>2. x \in Xids /\ y \in Xids /\ z \in Xids BY <2>2 DEF TypeInv
        <5>3. x \in Int /\ y \in Int /\ z \in Int BY <5>2, SMT DEF Xids
        <5> QED BY <5>1, <5>3, SMT
      <4> QED BY <2>2, <4>3, <4>4 DEF IsFinal
    <3>2. CASE EndTransaction(w) BY <1>b, <2>2, <3>2 DEF EndTransaction, Goto, EntriesOf
    <3>3. tree[w] \subseteq tree'[w] \/ AbortInClog(w) \/ EndTransaction(w)
      <4>1. GetNewTransactionId(w) => tree[w] = {}
        BY <1>b DEF GetNewTransactionId, Goto, TreeOf, Live
      <4>2. AssignSubXid(w) => tree[w] \subseteq tree'[w]
        BY SMT DEF AssignSubXid, TypeInv
      <4>3. \/ tree' = tree \/ GetNewTransactionId(w) \/ AssignSubXid(w) \/ AbortInClog(w)
            \/ EndTransaction(w)
        BY DEF Writer, SetParent, CommitSubTransaction, CommitTree, UpdateLatestCompleted,
           MarkCommitting, TakeCsn, SetUpperBound, SetItem, WriteItem, AbortTree, AdvanceOldest,
           ReadNextXid, ScanActive, SwapOldest, treeVars
      <4> QED BY <4>1, <4>2, <4>3
    <3> QED BY <1>2, <2>2, <3>1, <3>2, <3>3
  <2>3. \A v \in Writers : v # w => x \notin tree[v] BY <1>2, OthersStay DEF Same
  <2> QED BY <2>1, <2>2, <2>3 DEF Entries
<1>3. ASSUME NEW x \in Xids, x >= nextXid'
      PROVE  csnlog'[x] = InProgress /\ clog'[x] = InProgress /\ parent'[x] = InvalidXid
  <2>1. x >= nextXid /\ ~(x < nextXid) /\ ~(x < nextXid') BY <1>d, <1>e, <1>3, SMT
  <2>2. x \notin tree'[w] /\ x \notin tree[w] BY <1>b, <1>c, <2>1 DEF TreeOf
  <2> QED BY <1>a, <2>1, <2>2 DEF Shared, Entries
<1>4. ASSUME NEW x \in Xids, parent'[x] # parent[x]
      PROVE  /\ x = nextXid /\ parent'[x] \in tree[w] /\ parent'[x] < x
             /\ pc[w] = "run" /\ csnlog'[parent'[x]] = csnlog[parent'[x]]
  <2>1. AssignSubXid(w)
    BY <1>4 DEF Writer, GetNewTransactionId, SetParent, CommitSubTransaction, CommitTree,
         UpdateLatestCompleted, MarkCommitting, TakeCsn, SetUpperBound, SetItem, WriteItem,
         AbortTree, AbortInClog, EndTransaction, AdvanceOldest, ReadNextXid, ScanActive, SwapOldest, treeVars
  <2>2. PICK p \in open[w] : parent' = [parent EXCEPT ![nextXid] = p]
    BY <2>1 DEF AssignSubXid
  <2>3. x = nextXid /\ parent'[x] = p BY <1>4, <2>2 DEF TypeInv
  <2>4. p \in tree[w] /\ p < nextXid /\ p \in Xids BY <1>b DEF TreeOf
  <2> QED BY <1>b, <2>1, <2>3, <2>4, SMT DEF AssignSubXid, Goto, TypeInv
<1>5. ASSUME NEW x \in Xids, parent'[x] # InvalidXid, IsFinal(csnlog'[parent'[x]])
      PROVE  IsFinal(csnlog'[x])
  <2>1. CASE parent'[x] # parent[x]
    BY <1>b, <1>4, <1>5, <2>1 DEF EntriesOf
  <2>2. CASE parent'[x] = parent[x]
    <3>1. parent[x] \in Xids BY <1>b, <1>5, <2>2, SMT DEF Xids, InvalidXid
    <3>2. IsFinal(csnlog[x])
      BY <1>5, <2>2, <3>1, FinalSteps DEF Entries
    <3> QED BY <1>a, <3>2 DEF Shared
  <2> QED BY <2>1, <2>2
<1>6. \A x \in Xids : parent'[x] < x BY <1>4 DEF Entries
<1> QED BY <1>1, <1>2, <1>3, <1>5, <1>6 DEF Entries

-----------------------------------------------------------------------------
(* Commit sequence numbers.                                                *)

\* Every xid has its group in csnlog's table of upper bounds.
LEMMA UpperBoundSlot == \A x \in Xids : UBSlot(x) \in 0 .. UBSlot(MaxXid)
<1> SUFFICES ASSUME NEW x \in Xids PROVE UBSlot(x) \in 0 .. UBSlot(MaxXid)
    OBVIOUS
<1> DEFINE q == x \div GroupSize
           m == MaxXid \div GroupSize
<1>1. x \in Nat /\ MaxXid \in Nat /\ x <= MaxXid /\ GroupSize \in Nat /\ GroupSize > 0
  BY CsnCommitAssumption, SMT DEF Xids
<1>2. /\ q \in Int /\ m \in Int /\ q >= 0
      /\ GroupSize * q <= x /\ MaxXid < GroupSize * (m + 1)
  BY <1>1, SMT
<1>3. q <= m
  <2> SUFFICES ASSUME q > m PROVE FALSE BY <1>2, SMT
  <2> HIDE DEF q, m
  <2>1. q - (m + 1) >= 0 BY <1>2, SMT
  <2>2. GroupSize * (q - (m + 1)) >= 0 BY <1>1, <1>2, <2>1, SMT
  <2>3. GroupSize * (q - (m + 1)) = GroupSize * q - GroupSize * (m + 1) BY <1>1, <1>2, SMT
  <2> QED BY <1>1, <1>2, <2>2, <2>3, SMT
<1> QED BY <1>2, <1>3, SMT DEF UBSlot

\* A step leaves the CSN being written by another transaction alone.
LEMMA CommitOfOther ==
    ASSUME TypeInv, Trees, Entries, Csns, NEW w \in Writers, Writer(w), Trees', TypeInv',
           NEW v \in Writers, v # w
    PROVE  CommitOf(v)'
<1>a. Same(v) /\ Shared(w) BY OthersStay, SharedSteps
<1>b. \A y \in tree[v] : clog'[y] = clog[y] BY EntriesOfOther
<1>c. CommitOf(v) /\ stamp[v] \subseteq Xids /\ tree[v] \subseteq Xids
  BY DEF Csns, TypeInv
<1>d. /\ nextCsn \in Int /\ nextCsn' \in Int /\ nextCsn <= nextCsn'
      /\ latestCompleted \in Int /\ latestCompleted' \in Int /\ latestCompleted <= latestCompleted'
      /\ stampCsn[v] \in Int /\ \A x \in tree[v] : x \in Int
  <2>1. /\ nextCsn \in Int /\ nextCsn' \in Int
        /\ latestCompleted \in Int /\ latestCompleted' \in Int /\ stampCsn[v] \in Int
    BY DEF TypeInv
  <2>2. \A x \in tree[v] : x \in Int BY <1>c, XidsInt
  <2>3. nextCsn <= nextCsn' /\ latestCompleted <= latestCompleted'
    BY <1>a, <2>1, SMT DEF Shared
  <2> QED BY <2>1, <2>2, <2>3
<1>e. \A x \in stamp[v] : upperBound[UBSlot(x)] <= upperBound'[UBSlot(x)]
                          /\ upperBound[UBSlot(x)] \in Int /\ upperBound'[UBSlot(x)] \in Int
  BY <1>a, <1>c, UpperBoundSlot DEF Shared, TypeInv
<1>f. HoldsCommitSeqNoLock(v)' = HoldsCommitSeqNoLock(v)
  BY <1>a DEF HoldsCommitSeqNoLock, Same
<1>1. stampCsn[v] < nextCsn => stampCsn[v] < nextCsn' BY <1>d, SMT
<1>2. \A y \in tree[v] : y <= latestCompleted => y <= latestCompleted' BY <1>d, SMT
<1>3. \A x \in stamp[v] : stampCsn[v] <= upperBound[UBSlot(x)] => stampCsn[v] <= upperBound'[UBSlot(x)]
  BY <1>d, <1>e, SMT
<1> QED BY <1>a, <1>b, <1>c, <1>1, <1>2, <1>3, <1>f DEF CommitOf, Same

\* A step of the committing transaction itself.
LEMMA CommitOfWriter ==
    ASSUME TypeInv, Trees, Entries, Csns, NEW w \in Writers, Writer(w), TypeInv'
    PROVE  CommitOf(w)'
<1>a. TreeOf(w) /\ EntriesOf(w) /\ CommitOf(w) BY DEF Trees, Entries, Csns
<1>b. /\ pc \in [Writers -> Steps] /\ open \in [Writers -> SUBSET Xids]
      /\ tree \in [Writers -> SUBSET Xids] /\ stamp \in [Writers -> SUBSET Xids]
      /\ stampCsn \in [Writers -> Int] /\ clog \in [Xids -> {InProgress, Aborted, Frozen}]
      /\ upperBound \in [0 .. UBSlot(MaxXid) -> Int]
      /\ nextXid \in 1 .. MaxXid + 1 /\ nextCsn \in Int /\ nextCsn >= FirstNormal
      /\ latestCompleted \in Int
  BY DEF TypeInv
<1>c. Xids \subseteq Int /\ tree[w] \subseteq Int /\ tree[w] \subseteq Xids BY <1>b, SMT DEF Xids
<1>d. nextXid <= MaxXid => nextXid \in Xids /\ clog[nextXid] = InProgress
  BY CsnCommitAssumption, SMT DEF TypeInv, Xids, Entries
<1> USE <1>b DEF Goto, HoldsCommitSeqNoLock
<1>1. CASE GetNewTransactionId(w)
  <2>1. pc'[w] = "run" /\ tree'[w] = {nextXid} /\ clog' = clog /\ clog[nextXid] = InProgress
    BY <1>1, <1>d DEF GetNewTransactionId
  <2> QED BY <2>1 DEF CommitOf
<1>2. CASE AssignSubXid(w)
  <2>1. pc[w] = "run" /\ pc'[w] = "sub" /\ tree'[w] = tree[w] \cup {nextXid} /\ clog' = clog
        /\ clog[nextXid] = InProgress
    BY <1>2, <1>d DEF AssignSubXid
  <2> QED BY <1>a, <2>1 DEF CommitOf
<1>3. CASE SetParent(w) \/ CommitSubTransaction(w)
  <2>1. pc[w] \in {"run", "sub"} /\ pc'[w] = "run" /\ UNCHANGED <<tree, clog>>
    BY <1>3 DEF SetParent, CommitSubTransaction, treeVars, logVars
  <2> QED BY <1>a, <2>1 DEF CommitOf
<1>4. CASE CommitTree(w)
  <2>1. pc'[w] = "latest" /\ tree' = tree /\ \A y \in tree[w] : clog'[y] = Frozen
    BY <1>4, <1>c DEF CommitTree, treeVars
  <2> QED BY <2>1 DEF CommitOf
<1>5. CASE UpdateLatestCompleted(w)
  <2>1. /\ pc[w] = "latest" /\ pc'[w] = "mark" /\ UNCHANGED <<tree, clog>>
        /\ \A y \in tree[w] : y <= latestCompleted'
    BY <1>5, <1>c, SMT DEF UpdateLatestCompleted, IsLatest, Later, treeVars, logVars
  <2> QED BY <1>a, <2>1 DEF CommitOf
<1>6. CASE MarkCommitting(w)
  <2>1. pc[w] = "mark" /\ pc'[w] = "csn" /\ UNCHANGED <<tree, clog, latestCompleted>>
    BY <1>6 DEF MarkCommitting, treeVars, counters
  <2> QED BY <1>a, <2>1 DEF CommitOf
<1>7. CASE TakeCsn(w)
  <2>1. /\ pc[w] = "csn" /\ pc'[w] = "bound" /\ UNCHANGED <<tree, clog, latestCompleted>>
        /\ FirstNormal <= stampCsn'[w] /\ stampCsn'[w] < nextCsn'
    BY <1>7, SMT DEF TakeCsn, treeVars, logVars, FirstNormal
  <2> QED BY <1>a, <2>1 DEF CommitOf
<1>8. CASE SetUpperBound(w)
  <2>1. /\ pc[w] = "bound" /\ pc'[w] = "item"
        /\ UNCHANGED <<tree, clog, latestCompleted, nextCsn, stamp, stampCsn>>
        /\ stampCsn[w] # Aborted
    BY <1>8, <1>a DEF SetUpperBound, EntriesOf, treeVars, counters, stampVars
  <2>2. PICK x \in stamp[w] :
           /\ IsLatest(x, stamp[w])
           /\ upperBound' = [upperBound EXCEPT ![UBSlot(x)] = Later(@, stampCsn[w])]
    BY <1>8 DEF SetUpperBound
  <2>3. \A y \in stamp[w] : IsLatest(y, stamp[w]) => y = x BY <1>c, <2>2, SMT DEF IsLatest
  <2>4. stampCsn[w] <= upperBound'[UBSlot(x)] BY <2>2, UpperBoundSlot, SMT DEF Later
  <2> QED BY <1>a, <2>1, <2>3, <2>4 DEF CommitOf
<1>9. CASE SetItem(w)
  <2>1. /\ pc[w] = "item" /\ UNCHANGED <<tree, clog, latestCompleted, nextCsn, stampCsn>>
        /\ pc'[w] \in IF stampCsn[w] = Aborted THEN {"item", "clog"} ELSE {"bound", "end"}
    BY <1>9 DEF SetItem, WriteItem, treeVars, counters
  <2> QED BY <1>a, <2>1 DEF CommitOf
<1>10. CASE AbortTree(w)
  <2>1. pc[w] = "run" /\ pc'[w] = "item" /\ UNCHANGED <<tree, clog>> /\ stampCsn'[w] = Aborted
    BY <1>10 DEF AbortTree, treeVars, logVars
  <2> QED BY <1>a, <2>1 DEF CommitOf
<1>11. CASE AbortInClog(w)
  <2>1. pc[w] = "clog" BY <1>11 DEF AbortInClog
  <2>2. PICK x \in open[w] :
          /\ clog' = [y \in Xids |-> IF y \in Since(w, x) THEN Aborted ELSE clog[y]]
          /\ \/ pc' = [pc EXCEPT ![w] = "end"] /\ UNCHANGED tree
             \/ /\ pc' = [pc EXCEPT ![w] = "run"]
                /\ tree' = [tree EXCEPT ![w] = @ \ Since(w, x)]
    BY <1>11 DEF AbortInClog
  <2>3. CASE pc' = [pc EXCEPT ![w] = "end"] /\ UNCHANGED tree BY <2>3 DEF CommitOf
  <2>4. CASE pc' = [pc EXCEPT ![w] = "run"] /\ tree' = [tree EXCEPT ![w] = @ \ Since(w, x)]
    <3>1. \A y \in tree'[w] : y \in tree[w] /\ clog'[y] = clog[y] BY <1>c, <2>2, <2>4
    <3> QED BY <1>a, <2>1, <2>4, <3>1 DEF CommitOf
  <2> QED BY <2>2, <2>3, <2>4
<1>12. CASE EndTransaction(w) \/ AdvanceOldest(w) \/ ReadNextXid(w) \/ ScanActive(w) \/ SwapOldest(w)
  <2>1. pc'[w] \in {"idle", "advance", "next", "scan", "cas"}
    BY <1>12 DEF EndTransaction, AdvanceOldest, AdvanceDone, ReadNextXid, ScanActive, SwapOldest
  <2> QED BY <2>1 DEF CommitOf
<1> QED BY <1>1, <1>2, <1>3, <1>4, <1>5, <1>6, <1>7, <1>8, <1>9, <1>10, <1>11, <1>12
           DEF Writer

\* The clog says what the csnlog will say, or has said.
LEMMA ClogSteps ==
    ASSUME TypeInv, Trees, Entries, NEW w \in Writers, Writer(w), TypeInv',
           NEW x \in Xids, clog'[x] # clog[x]
    PROVE  \/ clog'[x] = Frozen /\ ~IsFinal(csnlog[x])
           \/ clog'[x] = Aborted /\ csnlog[x] = Aborted
<1>a. TreeOf(w) /\ EntriesOf(w) /\ x \in Int BY SMT DEF Trees, Entries, Xids
<1>b. CommitTree(w) \/ AbortInClog(w)
  BY DEF Writer, GetNewTransactionId, AssignSubXid, SetParent, CommitSubTransaction,
     UpdateLatestCompleted, MarkCommitting, TakeCsn, SetUpperBound, SetItem, WriteItem, AbortTree,
     EndTransaction, AdvanceOldest, ReadNextXid, ScanActive, SwapOldest, logVars
<1>1. CASE CommitTree(w)
  BY <1>1, <1>a DEF CommitTree, Goto, EntriesOf
<1>2. CASE AbortInClog(w)
  <2>1. PICK z \in open[w] :
          /\ IsLatest(z, open[w])
          /\ clog' = [y \in Xids |-> IF y \in Since(w, z) THEN Aborted ELSE clog[y]]
    BY <1>2 DEF AbortInClog
  <2>2. x \in tree[w] /\ z <= x /\ clog'[x] = Aborted BY <2>1 DEF Since
  <2>3. PICK y \in open[w] : /\ IsLatest(y, open[w])
                             /\ \A q \in tree[w] \ stamp[w] : y <= q => csnlog[q] = Aborted
    BY <1>2, <1>a DEF AbortInClog, EntriesOf
  <2>4. stamp[w] = {} /\ y \in Int /\ z \in Int
    <3>1. pc[w] = "clog" BY <1>2 DEF AbortInClog
    <3>2. stamp[w] = {} BY <1>a, <3>1 DEF TreeOf
    <3>3. y \in Xids /\ z \in Xids BY DEF TypeInv
    <3> QED BY <3>2, <3>3, SMT DEF Xids
  <2>5. y <= x BY <1>a, <2>1, <2>2, <2>3, <2>4, SMT DEF IsLatest
  <2> QED BY <2>2, <2>3, <2>4, <2>5
<1> QED BY <1>b, <1>1, <1>2

\* A step keeps CSNs, clog, upper bounds and latestCompleted in agreement.
LEMMA CsnsStep ==
    ASSUME TypeInv, Trees, Entries, Csns, NEW w \in Writers, Writer(w), TypeInv', Trees', Entries'
    PROVE  Csns'
<1>a. Shared(w) /\ CommitOf(w) /\ stamp[w] \subseteq tree[w] BY SharedSteps DEF Csns, Trees, TreeOf
<1>b. /\ nextCsn \in Int /\ nextCsn' \in Int /\ latestCompleted \in Int /\ latestCompleted' \in Int
      /\ \A x \in Xids : x \in Int /\ csnlog[x] \in Int /\ csnlog'[x] \in Int
      /\ \A x \in Xids : upperBound[UBSlot(x)] \in Int /\ upperBound'[UBSlot(x)] \in Int
                         /\ UBSlot(x) \in DOMAIN upperBound
  <2>1. /\ csnlog \in [Xids -> Int] /\ csnlog' \in [Xids -> Int]
        /\ upperBound \in [0 .. UBSlot(MaxXid) -> Int]
        /\ upperBound' \in [0 .. UBSlot(MaxXid) -> Int]
        /\ nextCsn \in Int /\ nextCsn' \in Int
        /\ latestCompleted \in Int /\ latestCompleted' \in Int
    BY DEF TypeInv
  <2> QED BY <2>1, UpperBoundSlot, SMT DEF Xids
<1>c. \A x \in Xids : IsCommitted(csnlog'[x]) => IsFinal(csnlog'[x]) BY DEF IsFinal
<1>d. InProgress # Frozen /\ Aborted # Frozen /\ ~IsCommitted(Aborted) /\ IsFinal(Aborted)
  BY SMT DEF InProgress, Frozen, Aborted, IsCommitted, IsFinal
<1>e. \A x \in Xids : IsFinal(csnlog[x]) => csnlog'[x] = csnlog[x] BY <1>a DEF Shared
<1>1. \A v \in Writers : CommitOf(v)' BY CommitOfOther, CommitOfWriter
<1>2. ASSUME NEW x \in Xids, IsCommitted(csnlog'[x])
      PROVE  /\ FirstNormal <= csnlog'[x] /\ csnlog'[x] < nextCsn'
             /\ x <= latestCompleted' /\ csnlog'[x] <= upperBound'[UBSlot(x)]
             /\ clog'[x] = Frozen
  <2>1. CASE IsFinal(csnlog[x])
    <3>1. csnlog'[x] = csnlog[x] /\ IsCommitted(csnlog[x]) BY <1>2, <1>e, <2>1
    <3>2. /\ FirstNormal <= csnlog[x] /\ csnlog[x] < nextCsn /\ x <= latestCompleted
          /\ csnlog[x] <= upperBound[UBSlot(x)] /\ clog[x] = Frozen
      BY <3>1 DEF Csns
    <3>3. clog'[x] = Frozen BY <1>d, <2>1, <3>1, <3>2, ClogSteps
    <3> QED BY <1>a, <1>b, <3>1, <3>2, <3>3, SMT DEF Shared
  <2>2. CASE ~IsFinal(csnlog[x])
    <3>1. /\ pc[w] = "item" /\ x \in tree[w] /\ IsLatest(x, stamp[w])
          /\ csnlog'[x] = stampCsn[w]
          /\ UNCHANGED <<clog, upperBound, nextCsn, latestCompleted>>
      BY <1>2, <1>c, <2>2, FinalSteps
    <3>2. stampCsn[w] # Aborted BY <1>2, <1>d, <3>1
    <3> QED BY <1>a, <3>1, <3>2 DEF CommitOf, HoldsCommitSeqNoLock, IsLatest
  <2> QED BY <2>1, <2>2
<1>3. ASSUME NEW x \in Xids, csnlog'[x] = Aborted PROVE clog'[x] # Frozen
  <2>1. CASE IsFinal(csnlog[x])
    <3>1. csnlog[x] = Aborted BY <1>3, <1>e, <2>1
    <3>2. clog[x] # Frozen BY <3>1 DEF Csns
    <3> QED BY <1>d, <2>1, <3>2, ClogSteps
  <2>2. CASE ~IsFinal(csnlog[x])
    <3>1. pc[w] = "item" /\ x \in tree[w] /\ stampCsn[w] = Aborted /\ UNCHANGED clog
      BY <1>3, <1>d, <2>2, FinalSteps
    <3> QED BY <1>a, <1>d, <3>1 DEF CommitOf
  <2> QED BY <2>1, <2>2
<1>4. ASSUME NEW x \in Xids, clog'[x] = Aborted PROVE csnlog'[x] = Aborted
  <2>1. csnlog[x] = Aborted
    <3>1. CASE clog'[x] = clog[x] BY <1>4, <3>1 DEF Csns
    <3>2. CASE clog'[x] # clog[x] BY <1>4, <1>d, <3>2, ClogSteps
    <3> QED BY <3>1, <3>2
  <2> QED BY <1>d, <1>e, <2>1
<1> QED BY <1>1, <1>2, <1>3, <1>4 DEF Csns

-----------------------------------------------------------------------------
(* The oldest active xid.                                                  *)

\* Entries below an xid that are final stay so.
LEMMA EndedStays ==
    ASSUME TypeInv, Trees, Entries, NEW w \in Writers, Writer(w), NEW x, Ended(x)
    PROVE  \A y \in Xids : y < x => IsFinal(csnlog'[y])
BY SharedSteps DEF Ended, Shared

\* When every older xid has ended, an xid that has not is a top-level xid and
\* its entry is active.
LEMMA NextIsTop ==
    ASSUME TypeInv, Trees, Entries, NEW s \in Xids, s < nextXid, Ended(s), ~IsFinal(csnlog[s])
    PROVE  IsActive(csnlog[s]) /\ \E v \in Writers : procXid[v] = s
<1>1. PICK v \in Writers : s \in tree[v] BY DEF Entries
<1>2. TreeOf(v) /\ Unwritten(v, s) BY <1>1 DEF Trees, Entries, EntriesOf
<1>3. s = procXid[v]
  <2> SUFFICES ASSUME s # procXid[v] PROVE FALSE OBVIOUS
  <2>1. parent[s] \in tree[v] /\ parent[s] < s BY <1>1, <1>2 DEF TreeOf
  <2>2. parent[s] \in Xids /\ parent[s] # InvalidXid BY <2>1, SMT DEF TypeInv, Xids, InvalidXid
  <2> QED BY <2>1, <2>2 DEF Ended, Entries
<1> QED BY <1>2, <1>3 DEF Unwritten, IsActive

\* polar_oldest_active_xid moves only in the compare-and-swap, and forward.
LEMMA OldestGrows ==
    ASSUME TypeInv, Scans, NEW w \in Writers, Writer(w)
    PROVE  oldestActive' = oldestActive \/ (SwapOldest(w) /\ oldestActive < oldestActive')
<1>1. CASE SwapOldest(w)
  <2>1. /\ oldestActive \in Int /\ scanXid[w] \in Int /\ oldValue[w] \in Int
        /\ pc[w] = "cas" => oldValue[w] <= scanXid[w]
    BY DEF TypeInv, Scans, ScanOf, Scanning
  <2>2. /\ pc[w] = "cas"
        /\ \/ scanXid[w] # oldValue[w] /\ oldestActive = oldValue[w] /\ oldestActive' = scanXid[w]
           \/ oldestActive' = oldestActive
    BY <1>1 DEF SwapOldest
  <2> QED BY <1>1, <2>1, <2>2, SMT
<1> QED BY <1>1 DEF Writer, GetNewTransactionId, AssignSubXid, SetParent, CommitSubTransaction,
     CommitTree, UpdateLatestCompleted, MarkCommitting, TakeCsn, SetUpperBound, SetItem, WriteItem,
     AbortTree, AbortInClog, EndTransaction, AdvanceOldest, ReadNextXid, ScanActive, counters

\* AdvanceOldestActiveXidCSN passes only xids that have ended.
LEMMA ScansStep ==
    ASSUME TypeInv, Trees, Entries, Scans, NEW w \in Writers, Writer(w), TypeInv'
    PROVE  Scans'
<1>a. Shared(w) /\ TreeOf(w) /\ EntriesOf(w) /\ ScanOf(w) BY SharedSteps DEF Trees, Entries, Scans
<1>b. /\ nextXid \in Int /\ nextXid' \in Int /\ nextXid <= nextXid'
      /\ oldestActive \in Int /\ oldestActive' \in Int /\ oldestActive <= oldestActive'
  <2>1. /\ nextXid \in 1 .. MaxXid + 1 /\ nextXid' \in 1 .. MaxXid + 1
        /\ nextXid' = nextXid \/ nextXid' = nextXid + 1
        /\ oldestActive \in Int /\ oldestActive' \in Int
        /\ oldestActive' = oldestActive \/ oldestActive < oldestActive'
    BY <1>a, OldestGrows DEF Shared, TypeInv
  <2> QED BY <2>1, SMT
<1>c. /\ pc \in [Writers -> Steps] /\ procXid \in [Writers -> 0 .. MaxXid]
      /\ oldValue \in [Writers -> Int] /\ scanXid \in [Writers -> Int]
      /\ scanEnd \in [Writers -> Int] /\ Xids \subseteq Int
  <2>1. Xids \subseteq Int BY XidsInt
  <2> QED BY <2>1 DEF TypeInv
<1>d. /\ 1 <= oldestActive /\ oldestActive <= nextXid /\ Ended(oldestActive)
      /\ \A y \in Xids : y < oldestActive => IsFinal(csnlog'[y])
      /\ \A y \in Xids : IsFinal(csnlog[y]) => IsFinal(csnlog'[y])
  BY EndedStays, <1>a DEF Scans, Shared
<1>1. ASSUME NEW v \in Writers, v # w PROVE ScanOf(v)'
  <2>1. Same(v) BY <1>1, OthersStay
  <2>2. ScanOf(v) /\ oldValue[v] \in Int /\ scanXid[v] \in Int /\ scanEnd[v] \in Int
    BY <1>c DEF Scans
  <2>3. Ended(scanXid[v]) => \A y \in Xids : y < scanXid[v] => IsFinal(csnlog'[y])
    BY EndedStays
  <2>4. /\ \A n \in Int : n < nextXid => n < nextXid'
        /\ \A n \in Int : n <= nextXid => n <= nextXid'
        /\ \A n \in Int : n <= oldestActive => n <= oldestActive'
    BY <1>b, SMT
  <2> QED BY <1>d, <2>1, <2>2, <2>3, <2>4 DEF ScanOf, Same, Ended
<1>2. ScanOf(w)' /\ oldestActive' <= nextXid' /\ Ended(oldestActive)'
  <2> USE <1>c DEF Goto, Scanning
  <2>1. CASE EndTransaction(w)
    <3>1. /\ pc'[w] = "advance" /\ oldValue'[w] = procXid[w] /\ procXid[w] \in tree[w]
          /\ oldestActive' = oldestActive
      BY <2>1, <1>a DEF EndTransaction, TreeOf, Live, counters
    <3>2. procXid[w] \in Xids /\ procXid[w] < nextXid /\ IsFinal(csnlog[procXid[w]])
      BY <2>1, <1>a, <3>1 DEF EndTransaction, EntriesOf, TreeOf, TypeInv
    <3> QED BY <1>b, <1>d, <3>1, <3>2, SMT DEF ScanOf, Ended
  <2>2. CASE AdvanceOldest(w)
    <3>1. UNCHANGED <<csnlog, nextXid, oldestActive>> BY <2>2 DEF AdvanceOldest, logVars, counters
    <3>2. CASE oldestActive = oldValue[w]
      <4>1. pc'[w] = "next" /\ scanXid'[w] = oldValue[w] + 1 /\ oldValue'[w] = oldValue[w]
        BY <2>2, <3>2 DEF AdvanceOldest
      <4>2. oldValue[w] \in Xids /\ oldValue[w] < nextXid /\ IsFinal(csnlog[oldValue[w]])
        BY <1>a, <2>2 DEF AdvanceOldest, ScanOf
      <4>3. \A y \in Xids : y < oldValue[w] + 1 => IsFinal(csnlog[y])
        <5>1. SUFFICES ASSUME NEW y \in Xids, y < oldValue[w] + 1 PROVE IsFinal(csnlog[y]) OBVIOUS
        <5>2. y \in Int /\ oldValue[w] \in Int OBVIOUS
        <5>3. y = oldValue[w] \/ y < oldestActive BY <3>2, <5>1, <5>2, SMT
        <5> QED BY <1>d, <4>2, <5>3 DEF Ended
      <4> QED BY <1>b, <1>d, <3>1, <3>2, <4>1, <4>2, <4>3, SMT DEF ScanOf, Ended
    <3>3. CASE oldestActive # oldValue[w]
      <4>1. pc'[w] = "idle" BY <2>2, <3>3 DEF AdvanceOldest, AdvanceDone
      <4> QED BY <1>d, <3>1, <4>1 DEF ScanOf, Ended
    <3> QED BY <3>2, <3>3
  <2>3. CASE ReadNextXid(w)
    <3>1. /\ pc[w] = "next" /\ pc'[w] = "scan" /\ scanEnd'[w] = nextXid
          /\ UNCHANGED <<csnlog, nextXid, oldestActive, oldValue, scanXid>>
      BY <2>3 DEF ReadNextXid, logVars, counters
    <3> QED BY <1>a, <1>b, <1>d, <3>1 DEF ScanOf, Ended
  <2>4. CASE ScanActive(w)
    <3>1. /\ pc[w] = "scan"
          /\ UNCHANGED <<csnlog, nextXid, oldestActive, oldValue, scanEnd>>
      BY <2>4 DEF ScanActive, logVars, counters
    <3>2. /\ oldValue[w] <= oldestActive /\ oldValue[w] <= scanXid[w] /\ 1 <= scanXid[w]
          /\ scanXid[w] <= nextXid /\ Ended(scanXid[w]) /\ scanEnd[w] <= nextXid
      BY <1>a, <3>1 DEF ScanOf
    <3>3. CASE scanXid[w] < scanEnd[w] /\ ~IsActive(csnlog[scanXid[w]])
      <4>1. scanXid'[w] = scanXid[w] + 1 /\ pc'[w] = "scan" BY <2>4, <3>1, <3>3 DEF ScanActive
      <4>2. scanXid[w] \in Xids /\ scanXid[w] < nextXid
        <5>1. nextXid <= MaxXid + 1 /\ MaxXid \in Int BY CsnCommitAssumption, SMT DEF TypeInv
        <5>2. scanXid[w] \in Int /\ scanEnd[w] \in Int OBVIOUS
        <5> QED BY <1>b, <3>2, <3>3, <5>1, <5>2, SMT DEF Xids
      <4>3. IsFinal(csnlog[scanXid[w]]) BY <3>2, <3>3, <4>2, NextIsTop
      <4>4. \A y \in Xids : y < scanXid[w] + 1 => IsFinal(csnlog[y])
        <5>1. SUFFICES ASSUME NEW y \in Xids, y < scanXid[w] + 1 PROVE IsFinal(csnlog[y]) OBVIOUS
        <5>2. y \in Int /\ scanXid[w] \in Int OBVIOUS
        <5>3. y = scanXid[w] \/ y < scanXid[w] BY <5>1, <5>2, SMT
        <5> QED BY <3>2, <4>3, <5>3 DEF Ended
      <4>5. /\ oldValue[w] <= scanXid[w] + 1 /\ 1 <= scanXid[w] + 1 /\ scanXid[w] + 1 <= nextXid
        <5>1. scanXid[w] \in Int /\ oldValue[w] \in Int OBVIOUS
        <5> QED BY <1>b, <3>2, <4>2, <5>1, SMT
      <4> QED BY <1>d, <3>1, <3>2, <4>1, <4>4, <4>5 DEF ScanOf, Ended
    <3>4. CASE ~(scanXid[w] < scanEnd[w] /\ ~IsActive(csnlog[scanXid[w]]))
      <4>1. pc'[w] = "cas" /\ scanXid' = scanXid BY <2>4, <3>4 DEF ScanActive
      <4> QED BY <1>d, <3>1, <3>2, <4>1 DEF ScanOf, Ended
    <3> QED BY <3>3, <3>4
  <2>5. CASE SwapOldest(w)
    <3>1. UNCHANGED <<csnlog, nextXid>> /\ pc[w] = "cas" BY <2>5 DEF SwapOldest, logVars
    <3>2. CASE scanXid[w] # oldValue[w] /\ oldestActive = oldValue[w]
      <4>1. /\ pc'[w] = "next" /\ oldValue'[w] = scanXid[w] /\ scanXid' = scanXid
            /\ oldestActive' = scanXid[w]
        BY <2>5, <3>2 DEF SwapOldest
      <4>2. /\ 1 <= scanXid[w] /\ scanXid[w] <= nextXid /\ Ended(scanXid[w])
            /\ scanXid[w] \in Int
        BY <1>a, <1>c, <3>1 DEF ScanOf, Scanning
      <4>3. scanXid[w] <= scanXid[w] BY <4>2, SMT
      <4>4. Ended(scanXid[w])' BY <3>1, <4>1, <4>2 DEF Ended
      <4> QED BY <3>1, <4>1, <4>2, <4>3, <4>4 DEF ScanOf, Scanning
    <3>3. CASE ~(scanXid[w] # oldValue[w] /\ oldestActive = oldValue[w])
      <4>1. pc'[w] = "idle" /\ oldestActive' = oldestActive BY <2>5, <3>3 DEF SwapOldest, AdvanceDone
      <4> QED BY <1>d, <3>1, <4>1 DEF ScanOf, Ended
    <3> QED BY <3>2, <3>3
  <2>6. CASE ~(EndTransaction(w) \/ AdvanceOldest(w) \/ ReadNextXid(w) \/ ScanActive(w) \/ SwapOldest(w))
    <3>1. pc'[w] \in Live /\ oldestActive' = oldestActive
      BY <2>6 DEF Writer, GetNewTransactionId, AssignSubXid, SetParent, CommitSubTransaction,
         CommitTree, UpdateLatestCompleted, MarkCommitting, TakeCsn, SetUpperBound, SetItem,
         WriteItem, AbortTree, AbortInClog, counters, Live
    <3> QED BY <1>b, <1>d, <3>1, SMT DEF ScanOf, Ended, Live
  <2> QED BY <2>1, <2>2, <2>3, <2>4, <2>5, <2>6
<1> QED BY <1>1, <1>2, <1>b, <1>d, SMT DEF Scans

\* The oldest active xid always has a process that will move it: the one that finds
\* it active leaves it to the transaction that holds it, and that one to itself.
LEMMA KeepersStep ==
    ASSUME TypeInv, Trees, Entries, Scans, Keepers, NEW w \in Writers, Writer(w), TypeInv'
    PROVE  Keepers'
<1>a. TreeOf(w) /\ EntriesOf(w) /\ ScanOf(w) BY DEF Trees, Entries, Scans
<1>b. /\ pc \in [Writers -> Steps] /\ procXid \in [Writers -> 0 .. MaxXid]
      /\ oldValue \in [Writers -> Int] /\ scanXid \in [Writers -> Int]
      /\ scanEnd \in [Writers -> Int] /\ nextXid \in Int /\ oldestActive \in Int
  <2>1. nextXid \in 1 .. MaxXid + 1 BY DEF TypeInv
  <2>2. nextXid \in Int BY <2>1, SMT
  <2> QED BY <2>2 DEF TypeInv
<1>c. \A v \in Writers : v # w => Same(v) BY OthersStay
<1>d. 1 <= oldestActive /\ oldestActive <= nextXid /\ Ended(oldestActive) BY DEF Scans
<1>e. Live \cap Ending = {} /\ {"idle"} \cap Ending = {} /\ {"cas", "scan"} \subseteq Ending
  BY DEF Live, Ending, Scanning
<1> DEFINE KP(v, x) == procXid'[v] = x \/ (pc'[v] \in Ending /\ oldValue'[v] = x)
           OP(v, x) == \/ procXid'[v] = x
                       \/ /\ pc'[v] \in Ending /\ oldValue'[v] = x
                          /\ pc'[v] = "advance" \/ x < scanXid'[v]
           Others == \E v \in Writers : Owes(v, oldestActive)
           OthersP == \E v \in Writers : OP(v, oldestActive')
<1>f. \A v \in Writers : v # w =>
         /\ \A x : (KP(v, x) <=> Keeps(v, x)) /\ (OP(v, x) <=> Owes(v, x))
         /\ oldestActive' = oldestActive => (GivesUp(v)' <=> GivesUp(v))
  BY <1>c DEF Same, Keeps, Owes, GivesUp
\* The oldest active xid stays, and so does what w does about it.
<1>g. ASSUME oldestActive' = oldestActive,
             oldestActive = nextXid => nextXid' = nextXid \/ OP(w, oldestActive),
             Keeps(w, oldestActive) => KP(w, oldestActive),
             Owes(w, oldestActive) => OP(w, oldestActive),
             GivesUp(w)' => oldestActive' = nextXid' \/ OthersP
      PROVE  Keepers'
  <2>1. \A v \in Writers : (Keeps(v, oldestActive) => KP(v, oldestActive'))
                           /\ (Owes(v, oldestActive) => OP(v, oldestActive'))
                           /\ (OP(v, oldestActive') => KP(v, oldestActive'))
    <3> SUFFICES ASSUME NEW v \in Writers
                 PROVE  /\ Keeps(v, oldestActive) => KP(v, oldestActive)
                        /\ Owes(v, oldestActive) => OP(v, oldestActive)
      BY <1>g
    <3>1. CASE v = w BY <1>g, <3>1
    <3>2. CASE v # w BY <1>f, <3>2
    <3> QED BY <3>1, <3>2
  <2>2. oldestActive' = nextXid' \/ \E v \in Writers : KP(v, oldestActive')
    <3>1. OP(w, oldestActive) => KP(w, oldestActive') BY <1>g, <2>1
    <3> QED BY <1>g, <2>1, <3>1 DEF Keepers
  <2>3. \A v \in Writers : GivesUp(v)' => oldestActive' = nextXid' \/ OthersP
    BY <1>f, <1>g, <2>1 DEF Keepers
  <2> QED BY <2>2, <2>3 DEF Keepers, Keeps, Owes
<1> USE DEF Goto
<1>1. CASE GetNewTransactionId(w)
  <2>1. /\ pc[w] = "idle" /\ pc'[w] = "run" /\ procXid[w] = InvalidXid /\ procXid'[w] = nextXid
        /\ oldestActive' = oldestActive
    BY <1>1, <1>a, <1>b DEF GetNewTransactionId, TreeOf, Live
  <2>2. ~Keeps(w, oldestActive) /\ ~Owes(w, oldestActive)
    BY <1>b, <1>d, <1>e, <2>1, SMT DEF Keeps, Owes, InvalidXid
  <2> QED BY <1>g, <2>1, <2>2 DEF GivesUp
<1>2. CASE AssignSubXid(w)
  <2>1. /\ pc[w] = "run" /\ pc'[w] = "sub" /\ UNCHANGED <<procXid, oldestActive>>
    BY <1>2, <1>b DEF AssignSubXid
  <2>2. oldestActive # nextXid
    <3>1. procXid[w] \in tree[w] BY <1>a, <2>1 DEF TreeOf, Live
    <3>2. procXid[w] \in Xids /\ procXid[w] < nextXid /\ ~IsFinal(csnlog[procXid[w]])
      BY <1>a, <2>1, <3>1 DEF TreeOf, EntriesOf, TypeInv
    <3> QED BY <1>d, <3>2 DEF Ended
  <2> QED BY <1>e, <1>g, <2>1, <2>2 DEF GivesUp, Keeps, Owes, Live
<1>3. CASE \/ SetParent(w) \/ CommitSubTransaction(w) \/ CommitTree(w) \/ UpdateLatestCompleted(w)
           \/ MarkCommitting(w) \/ TakeCsn(w) \/ SetUpperBound(w) \/ SetItem(w) \/ AbortTree(w)
           \/ AbortInClog(w)
  <2>1. pc[w] \in Live /\ pc'[w] \in Live /\ UNCHANGED <<procXid, oldestActive, nextXid>>
    <3>1. UNCHANGED <<procXid, oldestActive, nextXid>>
      BY <1>3 DEF SetParent, CommitSubTransaction, CommitTree, UpdateLatestCompleted,
         MarkCommitting, TakeCsn, SetUpperBound, SetItem, WriteItem, AbortTree, AbortInClog,
         counters, treeVars
    <3>2. pc[w] \in Live /\ pc'[w] \in Live
      BY <1>3, <1>b DEF SetParent, CommitSubTransaction, CommitTree, UpdateLatestCompleted,
         MarkCommitting, TakeCsn, SetUpperBound, SetItem, WriteItem, AbortTree, AbortInClog, Live
    <3> QED BY <3>1, <3>2
  <2> QED BY <1>e, <1>g, <2>1 DEF GivesUp, Keeps, Owes, Live
<1>4. CASE EndTransaction(w)
  <2>1. /\ pc[w] = "end" /\ pc'[w] = "advance" /\ oldValue'[w] = procXid[w]
        /\ UNCHANGED <<oldestActive, nextXid>>
    BY <1>4, <1>b DEF EndTransaction, counters
  <2>2. pc[w] \notin Ending /\ pc'[w] \in Ending BY <2>1 DEF Ending, Scanning
  <2> QED BY <1>g, <2>1, <2>2 DEF GivesUp, Keeps, Owes
<1>h. pc[w] \in Ending => procXid[w] = InvalidXid /\ procXid[w] # oldestActive
  BY <1>a, <1>d, <1>e, SMT DEF TreeOf, InvalidXid
<1>5. CASE AdvanceOldest(w)
  <2>1. pc[w] = "advance" /\ UNCHANGED <<procXid, oldestActive, nextXid>> /\ pc[w] \in Ending
    BY <1>5 DEF AdvanceOldest, counters, treeVars, Ending
  <2>2. CASE oldestActive = oldValue[w]
    <3>1. pc'[w] = "next" /\ scanXid'[w] = oldValue[w] + 1 /\ oldValue' = oldValue
      BY <1>5, <1>b, <2>2 DEF AdvanceOldest
    <3>2. OP(w, oldestActive) /\ KP(w, oldestActive) BY <1>b, <2>2, <3>1, SMT DEF Ending, Scanning
    <3> QED BY <1>g, <2>1, <3>1, <3>2 DEF GivesUp
  <2>3. CASE oldestActive # oldValue[w]
    <3>1. pc'[w] = "idle" BY <1>5, <1>b, <2>3 DEF AdvanceOldest, AdvanceDone
    <3> QED BY <1>g, <1>h, <2>1, <2>3, <3>1 DEF GivesUp, Keeps, Owes
  <2> QED BY <2>2, <2>3
<1>6. CASE ReadNextXid(w)
  <2>1. /\ pc[w] = "next" /\ pc'[w] = "scan" /\ scanEnd'[w] = nextXid
        /\ UNCHANGED <<procXid, oldestActive, nextXid, oldValue, scanXid>>
    BY <1>6, <1>b DEF ReadNextXid, counters, treeVars
  <2>2. GivesUp(w)' => oldestActive = nextXid BY <1>b, <1>d, <2>1, SMT DEF GivesUp
  <2>3. pc[w] \in Ending /\ pc'[w] \in Ending BY <2>1 DEF Ending, Scanning
  <2> QED BY <1>g, <2>1, <2>2, <2>3 DEF Keeps, Owes
<1>7. CASE ScanActive(w)
  <2>1. /\ pc[w] = "scan" /\ UNCHANGED <<procXid, oldestActive, nextXid, oldValue, scanEnd>>
    BY <1>7 DEF ScanActive, counters, treeVars
  <2>2. pc[w] \in Ending /\ pc'[w] \in Ending
    BY <1>7, <1>b DEF ScanActive, Ending, Scanning
  <2>3. CASE scanXid[w] < scanEnd[w] /\ ~IsActive(csnlog[scanXid[w]])
    <3>1. scanXid'[w] = scanXid[w] + 1 /\ pc' = pc BY <1>7, <1>b, <2>3 DEF ScanActive
    <3>2. ~GivesUp(w)'
      <4>1. oldValue[w] <= scanXid[w] BY <1>a, <2>1 DEF ScanOf, Scanning
      <4> QED BY <1>b, <2>1, <3>1, <4>1, SMT DEF GivesUp
    <3>3. Owes(w, oldestActive) => OP(w, oldestActive) BY <1>b, <2>1, <2>2, <3>1, SMT DEF Owes
    <3> QED BY <1>g, <2>1, <2>2, <3>2, <3>3 DEF Keeps
  <2>4. CASE ~(scanXid[w] < scanEnd[w] /\ ~IsActive(csnlog[scanXid[w]]))
    <3>1. scanXid' = scanXid /\ pc'[w] = "cas" BY <1>7, <1>b, <2>4 DEF ScanActive
    <3>2. Owes(w, oldestActive) => OP(w, oldestActive) BY <2>1, <2>2, <3>1 DEF Owes
    <3>3. ASSUME oldValue[w] = oldestActive, scanXid[w] = oldestActive
          PROVE  oldestActive = nextXid \/ OthersP
      <4>1. CASE scanEnd[w] <= oldestActive
        <5>1. oldestActive = nextXid \/ Others BY <2>1, <3>3, <4>1 DEF GivesUp, Keepers
        <5> QED BY <1>f, <2>1, <3>2, <5>1
      <4>2. CASE ~(scanEnd[w] <= oldestActive)
        <5>1. IsActive(csnlog[oldestActive]) /\ oldestActive < nextXid
          <6>1. scanEnd[w] <= nextXid BY <1>a, <2>1 DEF ScanOf
          <6> QED BY <1>b, <2>4, <3>3, <4>2, <6>1, SMT
        <5>2. oldestActive \in Xids
          BY <1>d, <5>1, CsnCommitAssumption, SMT DEF TypeInv, Xids
        <5>3. ~IsFinal(csnlog[oldestActive])
          BY <5>1, SMT DEF IsActive, IsFinal, IsCommitted, InProgress, Committing, Aborted, Frozen
        <5>4. PICK v \in Writers : procXid[v] = oldestActive
          BY <1>d, <5>1, <5>2, <5>3, NextIsTop
        <5> QED BY <2>1, <5>4
      <4> QED BY <4>1, <4>2
    <3>4. Keeps(w, oldestActive) => KP(w, oldestActive) BY <2>1, <2>2 DEF Keeps
    <3>5. GivesUp(w)' => oldestActive' = nextXid' \/ OthersP BY <2>1, <3>1, <3>3 DEF GivesUp
    <3> QED BY <1>g, <2>1, <3>2, <3>4, <3>5
  <2> QED BY <2>3, <2>4
<1>8. CASE SwapOldest(w)
  <2>1. pc[w] = "cas" /\ UNCHANGED <<procXid, nextXid>> /\ pc[w] \in Ending
    BY <1>8 DEF SwapOldest, treeVars, Ending, Scanning
  <2>2. CASE scanXid[w] # oldValue[w] /\ oldestActive = oldValue[w]
    <3>1. /\ pc'[w] = "next" /\ oldestActive' = scanXid[w] /\ oldValue'[w] = scanXid[w]
      BY <1>8, <1>b, <2>2 DEF SwapOldest
    <3>2. KP(w, oldestActive') BY <3>1 DEF Ending, Scanning
    <3>3. \A v \in Writers : ~GivesUp(v)'
      <4>1. ~GivesUp(w)' BY <3>1 DEF GivesUp
      <4>2. ASSUME NEW v \in Writers, v # w, GivesUp(v)' PROVE FALSE
        <5>1. oldValue[v] = oldestActive' /\ pc[v] \in Scanning
          BY <1>c, <4>2 DEF Same, GivesUp, Scanning
        <5>2. oldValue[v] <= oldestActive BY <5>1 DEF Scans, ScanOf
        <5>3. oldValue[w] <= scanXid[w] BY <1>a, <2>1 DEF ScanOf, Scanning
        <5> QED BY <1>b, <2>2, <3>1, <5>1, <5>2, <5>3, SMT
      <4> QED BY <4>1, <4>2
    <3> QED BY <3>2, <3>3 DEF Keepers, Keeps
  <2>3. CASE ~(scanXid[w] # oldValue[w] /\ oldestActive = oldValue[w])
    <3>1. pc'[w] = "idle" /\ oldestActive' = oldestActive
      BY <1>8, <1>b, <2>3 DEF SwapOldest, AdvanceDone
    <3>2. ~Owes(w, oldestActive)
      BY <1>b, <1>h, <2>1, <2>3, SMT DEF Owes
    <3>3. CASE oldestActive # oldValue[w]
      BY <1>g, <1>h, <2>1, <3>1, <3>2, <3>3 DEF Keeps, GivesUp
    <3>4. CASE oldestActive = oldValue[w]
      <4>1. oldestActive = nextXid \/ Others
        BY <2>1, <2>3, <3>4 DEF GivesUp, Keepers
      <4>2. oldestActive' = nextXid' \/ OthersP
        BY <1>f, <2>1, <3>1, <3>2, <4>1
      <4>3. ~GivesUp(w)' BY <3>1 DEF GivesUp
      <4>4. \A v \in Writers : OP(v, oldestActive') => KP(v, oldestActive') OBVIOUS
      <4> QED BY <4>2, <4>4 DEF Keepers, Keeps, Owes
    <3> QED BY <3>3, <3>4
  <2> QED BY <2>2, <2>3
<1> QED BY <1>1, <1>2, <1>3, <1>4, <1>5, <1>6, <1>7, <1>8 DEF Writer

-----------------------------------------------------------------------------
\* The invariant holds at the start of the server.
LEMMA CommitInvInit == CommitInit => CommitInv
<1> SUFFICES ASSUME CommitInit PROVE CommitInv OBVIOUS
<1> USE CsnCommitAssumption DEF CommitInit
<1>1. TypeInv
  <2>1. UBSlot(MaxXid) \in Int BY SMT DEF UBSlot
  <2> QED BY <2>1, SMT DEF TypeInv, Xids, InvalidXid, InProgress, Aborted, Frozen, FirstNormal, Steps
<1>2. \A w \in Writers : /\ pc[w] = "idle" /\ tree[w] = {} /\ open[w] = {} /\ stamp[w] = {}
                         /\ procXid[w] = InvalidXid
  OBVIOUS
<1>3. Trees BY <1>2 DEF Trees, TreeOf, Live
<1>4. Entries
  <2>1. \A w \in Writers : EntriesOf(w) BY <1>2 DEF EntriesOf
  <2>2. \A x \in Xids : parent[x] < x /\ ~(x < nextXid) BY SMT DEF Xids, InvalidXid
  <2> QED BY <2>1, <2>2 DEF Entries
<1>5. Csns
  <2>1. \A w \in Writers : CommitOf(w) BY <1>2 DEF CommitOf, HoldsCommitSeqNoLock
  <2> QED BY <2>1, SMT DEF Csns, IsCommitted, InProgress, Aborted, Frozen
<1>6. Scans /\ Keepers
  BY <1>2, SMT DEF Scans, ScanOf, Ended, Keepers, GivesUp, Scanning, Xids
<1> QED BY <1>1, <1>3, <1>4, <1>5, <1>6 DEF CommitInv

\* Every step, and every step of a reader, keeps the invariant of the writers.
LEMMA CommitInvStep == CommitInv /\ [CommitNext]_commitVars => CommitInv'
<1>1. ASSUME CommitInv, UNCHANGED commitVars PROVE CommitInv'
  <2> USE <1>1 DEF commitVars, logVars, counters, treeVars, stampVars, scanVars, CommitInv
  <2>1. TypeInv' BY DEF TypeInv
  <2>2. Trees' BY DEF Trees, TreeOf
  <2>3. Entries'
    <3>1. \A w, x : Unwritten(w, x)' <=> Unwritten(w, x) BY DEF Unwritten, Commits
    <3>2. ASSUME NEW w \in Writers, EntriesOf(w) PROVE EntriesOf(w)'
      <4>1. UNCHANGED <<pc, tree, stamp, stampCsn, csnlog, open>> OBVIOUS
      <4> HIDE <1>1
      <4> QED BY <3>1, <3>2, <4>1 DEF EntriesOf
    <3> QED BY <3>2 DEF Entries
  <2>4. Csns' BY DEF Csns, CommitOf, HoldsCommitSeqNoLock
  <2>5. Scans' BY DEF Scans, ScanOf, Ended
  <2>6. Keepers' BY DEF Keepers, Keeps, Owes, GivesUp
  <2> QED BY <2>1, <2>2, <2>3, <2>4, <2>5, <2>6
<1>2. ASSUME CommitInv, NEW w \in Writers, Writer(w) PROVE CommitInv'
  <2>0. TypeInv /\ Trees /\ Entries /\ Csns /\ Scans /\ Keepers BY <1>2 DEF CommitInv
  <2>1. TypeInv' BY <1>2, <2>0, TypeStep DEF CommitNext
  <2>2. Trees' BY <1>2, <2>0, <2>1, TreesStep
  <2>3. Entries' BY <1>2, <2>0, <2>1, <2>2, EntriesStep
  <2>4. Csns' BY <1>2, <2>0, <2>1, <2>2, <2>3, CsnsStep
  <2>5. Scans' BY <1>2, <2>0, <2>1, ScansStep
  <2>6. Keepers' BY <1>2, <2>0, <2>1, KeepersStep
  <2> QED BY <2>1, <2>2, <2>3, <2>4, <2>5, <2>6 DEF CommitInv
<1> QED BY <1>1, <1>2 DEF CommitNext

\* The types of the shared variables, one by one.
LEMMA CommitTypes ==
    ASSUME TypeInv
    PROVE  /\ nextXid \in Int /\ nextCsn \in Int /\ latestCompleted \in Int /\ oldestActive \in Int
           /\ \A x \in Xids : /\ x \in Int /\ 1 <= x /\ csnlog[x] \in Int /\ parent[x] \in Int
                              /\ parent[x] # InvalidXid => parent[x] \in Xids
                              /\ clog[x] \in {InProgress, Aborted, Frozen}
           /\ \A w \in Writers : /\ stampCsn[w] \in Int /\ tree[w] \subseteq Xids
                                 /\ stamp[w] \subseteq Xids
<1>1. nextXid \in Int /\ nextCsn \in Int /\ latestCompleted \in Int /\ oldestActive \in Int
  BY SMT DEF TypeInv
<1>2. /\ csnlog \in [Xids -> Int] /\ clog \in [Xids -> {InProgress, Aborted, Frozen}]
      /\ parent \in [Xids -> 0 .. MaxXid] /\ stampCsn \in [Writers -> Int]
      /\ tree \in [Writers -> SUBSET Xids] /\ stamp \in [Writers -> SUBSET Xids]
  BY DEF TypeInv
<1>3. \A x \in Xids : x \in Int /\ 1 <= x BY SMT DEF Xids
<1>4. \A n \in 0 .. MaxXid : n \in Int /\ (n # InvalidXid => n \in Xids)
  BY SMT DEF Xids, InvalidXid
<1>5. \A x \in Xids : parent[x] \in 0 .. MaxXid BY <1>2
<1>6. \A x \in Xids : parent[x] \in Int /\ (parent[x] # InvalidXid => parent[x] \in Xids)
  BY <1>4, <1>5
<1> QED BY <1>1, <1>2, <1>3, <1>6

-----------------------------------------------------------------------------
(* Who has a CSN.                                                          *)

\* What a step of a writer does to the CSNs that are given and written.
CsnSteps(w) ==
    /\ \A v \in Writers : \A x \in stamp'[v] : IsCommitted(stampCsn'[v]) =>
          \/ x \in stamp[v] /\ stampCsn[v] = stampCsn'[v]
          \/ v = w /\ TakeCsn(w)
    /\ \A v \in Writers : \A x \in stamp[v] : IsCommitted(stampCsn[v]) =>
          \/ x \in stamp'[v] /\ stampCsn'[v] = stampCsn[v]
          \/ csnlog'[x] = stampCsn[v]
    /\ \A x \in Xids : IsCommitted(csnlog'[x]) =>
          csnlog'[x] = csnlog[x] \/ (x \in stamp[w] /\ stampCsn[w] = csnlog'[x])
    /\ \A x \in Xids : IsFinal(csnlog[x]) => csnlog'[x] = csnlog[x]

\* A step of a writer gives and writes CSNs in no other way.
LEMMA CsnStepsHold ==
    ASSUME CommitInv, CommitInv', NEW w \in Writers, Writer(w)
    PROVE  CsnSteps(w)
<1>a. TypeInv /\ Trees /\ Entries /\ Csns /\ TypeInv' BY DEF CommitInv
<1>b. \A x \in Xids : csnlog'[x] = csnlog[x] \/ ~IsFinal(csnlog[x])
  BY <1>a, SharedSteps DEF Shared
<1>c. \A v \in Writers : v # w => stamp'[v] = stamp[v] /\ stampCsn'[v] = stampCsn[v]
  BY <1>a, OthersStay DEF Same
<1>d. /\ stamp \in [Writers -> SUBSET Xids] /\ stampCsn \in [Writers -> Int]
      /\ csnlog \in [Xids -> Int] /\ tree \in [Writers -> SUBSET Xids]
      /\ (pc[w] \notin {"bound", "item"} => stamp[w] = {})
  BY <1>a DEF TypeInv, Trees, TreeOf
<1>1. ASSUME NEW x \in Xids, IsCommitted(csnlog'[x])
      PROVE  csnlog'[x] = csnlog[x] \/ (x \in stamp[w] /\ stampCsn[w] = csnlog'[x])
  <2>1. CASE IsFinal(csnlog[x]) BY <1>b, <2>1
  <2>2. CASE ~IsFinal(csnlog[x])
    BY <1>1, <1>a, <2>2, FinalSteps DEF IsFinal, IsLatest
  <2> QED BY <2>1, <2>2
<1>2. /\ \A x \in stamp'[w] : IsCommitted(stampCsn'[w]) =>
             (x \in stamp[w] /\ stampCsn[w] = stampCsn'[w]) \/ TakeCsn(w)
      /\ \A x \in stamp[w] : IsCommitted(stampCsn[w]) =>
             (x \in stamp'[w] /\ stampCsn'[w] = stampCsn[w]) \/ csnlog'[x] = stampCsn[w]
  <2>1. CASE SetItem(w)
    <3>1. PICK z \in stamp[w] : WriteItem(w, z) BY <2>1 DEF SetItem
    <3>2. /\ stamp'[w] = stamp[w] \ {z} /\ stampCsn' = stampCsn
          /\ csnlog' = [csnlog EXCEPT ![z] = stampCsn[w]]
      BY <1>d, <3>1 DEF WriteItem
    <3>3. csnlog'[z] = stampCsn[w] BY <1>d, <3>2
    <3> QED BY <3>2, <3>3
  <2>2. CASE AbortTree(w)
    BY <1>d, <2>2, SMT DEF AbortTree, Goto, IsCommitted, Aborted, Frozen
  <2>3. CASE TakeCsn(w) BY <1>d, <2>3 DEF TakeCsn, Goto
  <2>4. CASE EndTransaction(w) BY <1>d, <2>4 DEF EndTransaction, Goto
  <2>5. CASE UNCHANGED stampVars BY <2>5 DEF stampVars
  <2>6. \/ SetItem(w) \/ AbortTree(w) \/ TakeCsn(w) \/ EndTransaction(w) \/ UNCHANGED stampVars
    <3>1. GetNewTransactionId(w) \/ AssignSubXid(w) \/ SetParent(w) \/ CommitSubTransaction(w)
          => UNCHANGED stampVars
      BY DEF GetNewTransactionId, AssignSubXid, SetParent, CommitSubTransaction
    <3>2. CommitTree(w) \/ UpdateLatestCompleted(w) \/ MarkCommitting(w) \/ SetUpperBound(w)
          \/ AbortInClog(w) => UNCHANGED stampVars
      BY DEF CommitTree, UpdateLatestCompleted, MarkCommitting, SetUpperBound, AbortInClog
    <3>3. AdvanceOldest(w) \/ ReadNextXid(w) \/ ScanActive(w) \/ SwapOldest(w)
          => UNCHANGED stampVars
      BY DEF AdvanceOldest, ReadNextXid, ScanActive, SwapOldest
    <3> QED BY <3>1, <3>2, <3>3 DEF Writer
  <2> QED BY <2>1, <2>2, <2>3, <2>4, <2>5, <2>6
<1>3. /\ \A v \in Writers : \A x \in stamp'[v] : IsCommitted(stampCsn'[v]) =>
             (x \in stamp[v] /\ stampCsn[v] = stampCsn'[v]) \/ (v = w /\ TakeCsn(w))
      /\ \A v \in Writers : \A x \in stamp[v] : IsCommitted(stampCsn[v]) =>
             (x \in stamp'[v] /\ stampCsn'[v] = stampCsn[v]) \/ csnlog'[x] = stampCsn[v]
  BY <1>c, <1>2
<1> QED BY <1>1, <1>3, <1>b DEF CsnSteps

=============================================================================
