------------------------- MODULE CsnSnapshotProofs -------------------------
(***************************************************************************)
(* The inductive invariant of CsnSnapshot, and why the steps that writers, *)
(* readers that take a snapshot, and checkpoints do keep it.               *)
(*                                                                         *)
(* SnapInv adds to CommitInv what each reader knows at each point: its     *)
(* xmin (XminOf), that its CSN separates the xids in asOf from all others, *)
(* now and later (SnapOf), what its list may omit (ListOf), what the       *)
(* lookup has found for the parent of the xid it returns to (WalkOf) and   *)
(* what the check will be answered from (AskOf).  A step of a writer keeps *)
(* all of that, because entries are final once they are written and a CSN  *)
(* given later is not below the snapshot's (WriterStep).  A checkpoint     *)
(* cuts off at most the xmin of the readers (CkptInv), whether it scanned  *)
(* them before or after they announced it.                                 *)
(***************************************************************************)
EXTENDS CsnSnapshot, CsnCommitProofs

\* A leaf that names no prover is for Zenon.
USE Zenon

-----------------------------------------------------------------------------
(* What a reader knows.                                                    *)

Checking == {"clog", "down", "up", "wait", "done"}
SnapRead == {"xmax", "list", "ready"} \cup Checking
Protected == {"csn"} \cup SnapRead
ReaderSteps == {"none", "announce", "recheck"} \cup Protected
Checks == {"yes", "no", "visible", "didcommit", "committed"}
Snapshots == [xmin : Int, csn : Int, xmax : Int, isList : BOOLEAN, list : SUBSET Int,
              overflowed : BOOLEAN]
Checkpoints == [pc : {"idle", "redo", "scan"}, cap : Int, horizon : Int,
                toScan : SUBSET (Writers \cup Readers), truncated : Int, count : Int]

ReaderType ==
    /\ rpc \in [Readers -> ReaderSteps] /\ procXmin \in [Readers -> Int]
    /\ snap \in [Readers -> Snapshots] /\ asOf \in [Readers -> SUBSET Xids]
    /\ listXid \in [Readers -> Int] /\ asked \in [Readers -> 0 .. MaxXid]
    /\ check \in [Readers -> Checks] /\ walk \in [Readers -> SUBSET Xids]
    /\ found \in [Readers -> Int] /\ waited \in [Readers -> BOOLEAN]
    /\ cache \in [Readers -> [xid : 0 .. MaxXid, csn : Int]] /\ ckpt \in Checkpoints

\* What the single-item cache may hold for an xid: its entry, or Frozen from the
\* clog, for one that is older than every later snapshot.
Cached(r, x, c) ==
    \/ IsFinal(csnlog[x]) /\ c = csnlog[x]
    \/ /\ c = Frozen /\ IsCommitted(csnlog[x]) /\ x < oldestActive
       /\ rpc[r] # "none" => x < snap[r].xmin
\* MyProc->xmin and the snapshot's xmin.
XminOf(r) ==
    /\ rpc[r] = "none" => procXmin[r] = InvalidXid
    /\ rpc[r] # "none" => snap[r].xmin <= oldestActive
    /\ rpc[r] \in Protected => 1 <= procXmin[r] /\ procXmin[r] <= snap[r].xmin
    /\ cache[r].xid # InvalidXid => Cached(r, cache[r].xid, cache[r].csn)

\* An xid has its CSN, and it is below c.
CsnBelow(x, c) ==
    \/ IsCommitted(csnlog[x]) /\ csnlog[x] < c
    \/ \E w \in Writers : x \in stamp[w] /\ IsCommitted(stampCsn[w]) /\ stampCsn[w] < c
\* It has none that is below c.
CsnNotBelow(x, c) ==
    /\ IsCommitted(csnlog[x]) => c <= csnlog[x]
    /\ \A w \in Writers : x \in stamp[w] /\ IsCommitted(stampCsn[w]) => c <= stampCsn[w]

\* The snapshot's CSN separates the xids that had theirs from the others.
SnapOf(r) ==
    rpc[r] \in SnapRead =>
        /\ FirstNormal <= snap[r].csn /\ snap[r].csn <= nextCsn
        /\ \A x \in asOf[r] : CsnBelow(x, snap[r].csn)
        /\ \A x \in Xids \ asOf[r] : CsnNotBelow(x, snap[r].csn)
        /\ \A x \in asOf[r] : parent[x] # InvalidXid => parent[x] \in asOf[r]
        /\ \A x \in Xids : x < snap[r].xmin /\ IsCommitted(csnlog[x]) => x \in asOf[r]
        /\ rpc[r] # "xmax" => \A x \in asOf[r] : x < snap[r].xmax

\* What an xid that is not in the list of a snapshot may be.
Unlisted(r, x) ==
    \/ csnlog[x] = Aborted \/ parent[x] # InvalidXid
    \/ x \in asOf[r] /\ IsCommitted(csnlog[x])
ListOf(r) ==
    /\ rpc[r] = "list" => snap[r].xmin <= listXid[r]
    /\ \A x \in Xids \ snap[r].list : snap[r].xmin <= x =>
          /\ rpc[r] = "list" /\ x < listXid[r] => Unlisted(r, x)
          /\ rpc[r] \in {"ready"} \cup Checking /\ snap[r].isList /\ ~snap[r].overflowed
             /\ x < snap[r].xmax => Unlisted(r, x)

\* What the lookup of p may have found.
Known(r, p, c) ==
    \/ c = InProgress /\ p \notin asOf[r]
    \/ c = Committing /\ (IsCommitted(csnlog[p]) \/ \E w \in Writers : p \in tree[w] /\ Commits(w))
    \/ IsFinal(c) /\ csnlog[p] = c
Looked(r) == check[r] \in {"visible", "didcommit", "committed"}
\* The entry of the asked xid is known to be final.
Settled(r) == waited[r] \/ check[r] = "committed"
\* The xid before x in the walk.
NextUp(p, x, S) == p \in S /\ p < x /\ \A y \in S : y < x => y <= p
WalkOf(r) ==
    /\ rpc[r] \notin {"down", "up"} => walk[r] = {}
    /\ rpc[r] \in {"down", "up"} => asked[r] \in walk[r]
    /\ \A x \in walk[r] : /\ procXmin[r] <= x /\ x < nextXid /\ x <= asked[r]
                          /\ IsEarliest(x, walk[r]) \/ NextUp(parent[x], x, walk[r])
    /\ rpc[r] = "up" => \A x \in walk[r] :
          /\ parent[x] # InvalidXid
          /\ IsEarliest(x, walk[r]) => Known(r, parent[x], found[r])
    /\ rpc[r] = "wait" => Known(r, asked[r], Committing) /\ procXmin[r] <= asked[r]
    /\ rpc[r] \in Checking \ {"done"} => Looked(r)
    /\ waited[r] => rpc[r] \in {"down", "done"}
    /\ rpc[r] \in Checking /\ Settled(r) =>
          /\ IsCommitted(csnlog[asked[r]]) /\ rpc[r] \notin {"up", "wait"}
          /\ rpc[r] = "down" => walk[r] = {asked[r]}
AskOf(r) ==
    /\ rpc[r] \in Checking => asked[r] \in Xids /\ asked[r] < nextXid
    /\ rpc[r] = "clog" => asked[r] < procXmin[r]
    /\ rpc[r] \in Checking =>
          /\ check[r] = "yes" => asked[r] \in asOf[r] \/ (snap[r].isList /\ parent[asked[r]] # InvalidXid)
          /\ check[r] = "no" => snap[r].isList \/ asked[r] \notin asOf[r]
          /\ check[r] = "didcommit" => snap[r].isList /\ Unlisted(r, asked[r])
    /\ rpc[r] = "done" /\ Looked(r) =>
          \/ found[r] = InProgress /\ asked[r] \notin asOf[r] /\ check[r] # "committed"
          \/ found[r] = Aborted /\ csnlog[asked[r]] = Aborted
          \/ /\ IsCommitted(found[r]) /\ IsCommitted(csnlog[asked[r]])
             /\ found[r] = csnlog[asked[r]] \/ (asked[r] \in asOf[r] /\ found[r] < snap[r].csn)
    /\ rpc[r] = "done" => found[r] # Committing
    /\ rpc[r] \notin Checking => found[r] = InProgress

CkptInv ==
    /\ ckpt.truncated <= oldestActive
    /\ ckpt.pc # "idle" => ckpt.cap <= oldestActive
    /\ \A r \in Readers \ Vacuuming : rpc[r] \in Protected =>
          /\ ckpt.truncated <= procXmin[r]
          /\ ckpt.pc = "scan" => \/ ckpt.cap <= procXmin[r] \/ ckpt.horizon <= procXmin[r]
                                 \/ r \in ckpt.toScan

\* A transaction gets its CSN as a whole.
ParentsHaveCsn == \A x \in Xids : HasCsn(x) /\ parent[x] # InvalidXid => HasCsn(parent[x])

ReaderInv(r) == XminOf(r) /\ SnapOf(r) /\ ListOf(r) /\ WalkOf(r) /\ AskOf(r)
SnapInv == CommitInv /\ ParentsHaveCsn /\ ReaderType /\ CkptInv /\ \A r \in Readers : ReaderInv(r)

-----------------------------------------------------------------------------
\* An xid that has a CSN was handed out, is not aborted, and is covered by
\* polar_latest_completed_xid.
LEMMA CsnGiven ==
    ASSUME CommitInv, NEW x \in Xids, HasCsn(x)
    PROVE  /\ x < nextXid /\ x <= latestCompleted /\ csnlog[x] # Aborted
           /\ csnlog[x] # InProgress
           /\ \A v \in Writers : x \in stamp[v] => ~IsFinal(csnlog[x])
<1>a. TypeInv /\ Trees /\ Entries /\ Csns BY DEF CommitInv
<1>b. x \in Int /\ nextXid \in Int /\ csnlog[x] \in Int BY <1>a, CommitTypes
<1>0. \A v \in Writers : x \in stamp[v] => ~IsFinal(csnlog[x])
  BY <1>a DEF Entries, EntriesOf
<1>1. CASE IsCommitted(csnlog[x])
  <2>1. csnlog[x] # Aborted /\ csnlog[x] # InProgress
    BY <1>b, <1>1, SMT DEF IsCommitted, Aborted, InProgress, Frozen
  <2>2. x <= latestCompleted BY <1>a, <1>1 DEF Csns
  <2>3. x < nextXid
    <3>1. x >= nextXid => csnlog[x] = InProgress BY <1>a DEF Entries
    <3> QED BY <1>b, <2>1, <3>1, SMT
  <2> QED BY <1>0, <2>1, <2>2, <2>3
<1>2. ASSUME NEW v \in Writers, x \in stamp[v], IsCommitted(stampCsn[v])
      PROVE  /\ x < nextXid /\ x <= latestCompleted /\ csnlog[x] # Aborted
             /\ csnlog[x] # InProgress
  <2>1. TreeOf(v) /\ EntriesOf(v) /\ CommitOf(v) BY <1>a DEF Trees, Entries, Csns
  <2>2. x \in tree[v] /\ pc[v] \in {"bound", "item"} BY <1>2, <2>1 DEF TreeOf
  <2>3. stampCsn[v] # Aborted BY <1>2, SMT DEF IsCommitted, Aborted, Frozen
  <2>4. HoldsCommitSeqNoLock(v) /\ Commits(v) /\ pc[v] # "sub"
    BY <2>2, <2>3 DEF HoldsCommitSeqNoLock, Commits
  <2>5. x < nextXid /\ x <= latestCompleted /\ ~IsFinal(csnlog[x])
    BY <1>2, <2>1, <2>2, <2>4 DEF TreeOf, CommitOf, EntriesOf
  <2>6. Unwritten(v, x) BY <2>1, <2>2, <2>5 DEF EntriesOf
  <2>7. x # procXid[v] => parent[x] \in Xids
    BY <1>a, <2>1, <2>2 DEF TreeOf, TypeInv
  <2>8. csnlog[x] # InProgress
    BY <2>4, <2>6, <2>7, SMT DEF Unwritten, InProgress, Committing, SubTrans, Xids
  <2> QED BY <2>5, <2>8 DEF IsFinal
<1> QED BY <1>0, <1>1, <1>2 DEF HasCsn

\* ParentsHaveCsn is kept.
LEMMA ParentsStep ==
    ASSUME CommitInv, CommitInv', ParentsHaveCsn, NEW w \in Writers, Writer(w)
    PROVE  ParentsHaveCsn'
<1>a. TypeInv /\ Trees /\ Entries /\ TypeInv' BY DEF CommitInv
<1>b. CsnSteps(w) /\ Shared(w) BY <1>a, CsnStepsHold, SharedSteps
<1>1. ASSUME NEW x \in Xids, HasCsn(x) PROVE HasCsn(x)'
  <2>1. CASE IsCommitted(csnlog[x])
    BY <1>b, <2>1 DEF CsnSteps, IsFinal, HasCsn
  <2>2. ASSUME NEW v \in Writers, x \in stamp[v], IsCommitted(stampCsn[v]) PROVE HasCsn(x)'
    BY <1>b, <2>2 DEF CsnSteps, HasCsn
  <2> QED BY <1>1, <2>1, <2>2 DEF HasCsn
<1>2. ASSUME NEW x \in Xids, HasCsn(x)', ~HasCsn(x)
      PROVE  TakeCsn(w) /\ x \in stamp'[w]
  <2>1. ~IsCommitted(csnlog'[x])
    BY <1>b, <1>2 DEF CsnSteps, HasCsn
  <2> QED BY <1>b, <1>2, <2>1 DEF CsnSteps, HasCsn
<1> SUFFICES ASSUME NEW x \in Xids, HasCsn(x)', NEW p, p = parent'[x], p # InvalidXid
             PROVE  HasCsn(p)'
  BY DEF ParentsHaveCsn, HasCsn
<1>3. p \in Xids
  <2>1. p \in 0 .. MaxXid BY <1>a DEF TypeInv
  <2> QED BY <2>1, SMT DEF InvalidXid, Xids
<1>4. CASE HasCsn(x)
  <2>1. x # nextXid
    <3>1. x < nextXid BY <1>4, CsnGiven
    <3> QED BY <1>a, <3>1, SMT DEF TypeInv, Xids
  <2>2. p = parent[x] BY <1>b, <2>1 DEF Shared
  <2>3. HasCsn(p) BY <1>4, <2>2 DEF ParentsHaveCsn
  <2> QED BY <1>1, <1>3, <2>3
<1>5. CASE ~HasCsn(x)
  <2>1. TakeCsn(w) /\ x \in stamp'[w] BY <1>2, <1>5
  <2>2. /\ parent' = parent /\ stamp'[w] = tree[w] /\ stampCsn'[w] = nextCsn /\ pc[w] = "csn"
        /\ tree' = tree
    BY <1>a, <2>1 DEF TakeCsn, treeVars, Goto, TypeInv
  <2>3. TreeOf(w) BY <1>a DEF Trees
  <2>4. x # procXid[w] BY <2>2, <2>3 DEF TreeOf, Live
  <2>5. p \in stamp'[w] BY <2>1, <2>2, <2>3, <2>4 DEF TreeOf
  <2>6. IsCommitted(stampCsn'[w]) BY <1>a, <2>2, SMT DEF TypeInv, IsCommitted, Frozen, FirstNormal
  <2> QED BY <2>5, <2>6 DEF HasCsn
<1> QED BY <1>4, <1>5

-----------------------------------------------------------------------------
(* What steps of writers mean to a reader.                                 *)

\* A step of a writer moves no CSN across that of a snapshot.
LEMMA CsnsStay ==
    ASSUME CommitInv, CommitInv', NEW w \in Writers, Writer(w), NEW x \in Xids,
           NEW c \in Int, c <= nextCsn
    PROVE  /\ CsnBelow(x, c) => CsnBelow(x, c)'
           /\ CsnNotBelow(x, c) => CsnNotBelow(x, c)'
<1>a. TypeInv BY DEF CommitInv
<1>b. CsnSteps(w) BY CsnStepsHold
<1>1. ASSUME CsnBelow(x, c) PROVE CsnBelow(x, c)'
  <2>1. CASE IsCommitted(csnlog[x]) /\ csnlog[x] < c
    BY <1>b, <2>1 DEF CsnSteps, IsFinal, CsnBelow
  <2>2. ASSUME NEW v \in Writers, x \in stamp[v], IsCommitted(stampCsn[v]), stampCsn[v] < c
        PROVE  CsnBelow(x, c)'
    BY <1>b, <2>2 DEF CsnSteps, CsnBelow
  <2> QED BY <1>1, <2>1, <2>2 DEF CsnBelow
<1>2. ASSUME CsnNotBelow(x, c) PROVE CsnNotBelow(x, c)'
  <2>1. IsCommitted(csnlog'[x]) => c <= csnlog'[x]
    BY <1>b, <1>2 DEF CsnSteps, CsnNotBelow
  <2>2. ASSUME NEW v \in Writers, x \in stamp'[v], IsCommitted(stampCsn'[v])
        PROVE  c <= stampCsn'[v]
    <3>1. CASE x \in stamp[v] /\ stampCsn[v] = stampCsn'[v]
      BY <1>2, <2>2, <3>1 DEF CsnNotBelow
    <3>2. CASE v = w /\ TakeCsn(w)
      <4>1. stampCsn'[w] = nextCsn BY <1>a, <3>2 DEF TakeCsn, TypeInv
      <4> QED BY <3>2, <4>1
    <3> QED BY <1>b, <2>2, <3>1, <3>2 DEF CsnSteps
  <2> QED BY <2>1, <2>2 DEF CsnNotBelow
<1> QED BY <1>1, <1>2

\* What a step of a writer leaves alone, for a reader.
Stays ==
    /\ oldestActive <= oldestActive' /\ nextCsn <= nextCsn' /\ nextXid <= nextXid'
    /\ \A x \in Xids : IsFinal(csnlog[x]) => csnlog'[x] = csnlog[x]
    /\ \A x \in Xids : x < nextXid \/ parent[x] # InvalidXid => parent'[x] = parent[x]
\* A step of a writer leaves them alone.
LEMMA StaysHold ==
    ASSUME CommitInv, CommitInv', NEW w \in Writers, Writer(w)
    PROVE  Stays
<1>a. TypeInv /\ Trees /\ Entries /\ Scans /\ TypeInv' BY DEF CommitInv
<1>b. Shared(w) BY <1>a, SharedSteps
<1>c. \A x \in Xids : x \in Int BY SMT DEF Xids
<1>d. nextXid \in Int /\ oldestActive \in Int /\ oldestActive' \in Int BY <1>a, SMT DEF TypeInv
<1>1. oldestActive <= oldestActive' BY <1>a, <1>d, OldestGrows, SMT
<1>2. nextCsn <= nextCsn' /\ nextXid <= nextXid' BY <1>b, <1>d, SMT DEF Shared
<1>3. \A x \in Xids : IsFinal(csnlog[x]) => csnlog'[x] = csnlog[x] BY <1>b DEF Shared
<1>4. ASSUME NEW x \in Xids, x < nextXid \/ parent[x] # InvalidXid PROVE parent'[x] = parent[x]
  <2>1. x # nextXid
    <3>1. x >= nextXid => parent[x] = InvalidXid BY <1>a DEF Entries
    <3> QED BY <1>4, <1>c, <1>d, <3>1, SMT
  <2> QED BY <1>b, <2>1 DEF Shared
<1> QED BY <1>1, <1>2, <1>3, <1>4 DEF Stays

\* A commit that is under way stays so until the entry has the CSN.
LEMMA CommittingStays ==
    ASSUME CommitInv, CommitInv', NEW w \in Writers, Writer(w), NEW v \in Writers,
           NEW p \in tree[v], Commits(v)
    PROVE  IsCommitted(csnlog'[p]) \/ (p \in tree'[v] /\ Commits(v)')
<1>a. TypeInv /\ Trees /\ Entries /\ Csns /\ TypeInv' BY DEF CommitInv
<1>1. CASE v # w BY <1>a, <1>1, OthersStay DEF Same, Commits
<1>2. CASE v = w
  <2>a. EntriesOf(w) /\ CommitOf(w) /\ TreeOf(w) BY <1>a DEF Entries, Csns, Trees
  <2>b. /\ pc \in [Writers -> Steps] /\ stampCsn \in [Writers -> Int] /\ nextCsn \in Int
        /\ stamp \in [Writers -> SUBSET Xids] /\ tree \in [Writers -> SUBSET Xids]
        /\ csnlog \in [Xids -> Int] /\ nextCsn >= FirstNormal
    BY <1>a DEF TypeInv
  <2>1. CASE TakeCsn(w)
    <3>1. pc'[w] = "bound" /\ stampCsn'[w] = nextCsn /\ tree' = tree
      BY <2>1, <2>b DEF TakeCsn, Goto, treeVars
    <3> QED BY <1>2, <2>b, <3>1, SMT DEF Commits, FirstNormal, Aborted
  <2>2. CASE SetUpperBound(w)
    <3>1. pc'[w] = "item" /\ stampCsn' = stampCsn /\ tree' = tree /\ pc[w] = "bound"
      BY <2>2, <2>b DEF SetUpperBound, Goto, treeVars, stampVars
    <3> QED BY <1>2, <3>1 DEF Commits
  <2>3. CASE SetItem(w)
    <3>1. PICK x \in stamp[w] : WriteItem(w, x) BY <2>3 DEF SetItem
    <3>2. /\ csnlog'[x] = stampCsn[w] /\ \A y \in Xids : y # x => csnlog'[y] = csnlog[y]
          /\ pc[w] = "item" /\ stampCsn' = stampCsn /\ tree' = tree
      BY <2>b, <3>1 DEF WriteItem, treeVars
    <3>3. stampCsn[w] # Aborted BY <1>2, <3>2 DEF Commits
    <3>4. IsCommitted(stampCsn[w])
      BY <2>a, <2>b, <3>2, <3>3, SMT DEF CommitOf, IsCommitted, Frozen, FirstNormal
    <3>5. CASE stamp[w] = {x}
      <4>1. p # x => csnlog[p] = stampCsn[w] BY <1>2, <2>a, <3>2, <3>3, <3>5 DEF EntriesOf
      <4>2. p \in Xids BY <1>2, <2>b
      <4> QED BY <3>2, <3>4, <4>1, <4>2
    <3>6. CASE stamp[w] # {x}
      <4>1. pc'[w] = "bound" BY <2>b, <3>1, <3>3, <3>6 DEF WriteItem
      <4> QED BY <1>2, <3>2, <3>3, <4>1 DEF Commits
    <3> QED BY <3>5, <3>6
  <2>4. pc[w] \in {"csn", "bound"} \/ (pc[w] = "item" /\ stampCsn[w] # Aborted)
    BY <1>2 DEF Commits
  <2>5. TakeCsn(w) \/ SetUpperBound(w) \/ SetItem(w)
    <3>1. ~(GetNewTransactionId(w) \/ AssignSubXid(w) \/ SetParent(w) \/ CommitSubTransaction(w))
      BY <2>4 DEF GetNewTransactionId, AssignSubXid, SetParent, CommitSubTransaction, Goto
    <3>2. ~(CommitTree(w) \/ UpdateLatestCompleted(w) \/ MarkCommitting(w) \/ AbortTree(w)
            \/ AbortInClog(w))
      BY <2>4 DEF CommitTree, UpdateLatestCompleted, MarkCommitting, AbortTree,
         AbortInClog, Goto
    <3>3. ~(EndTransaction(w) \/ AdvanceOldest(w) \/ ReadNextXid(w) \/ ScanActive(w)
            \/ SwapOldest(w))
      BY <2>4 DEF EndTransaction, AdvanceOldest, ReadNextXid, ScanActive, SwapOldest, Goto
    <3> QED BY <3>1, <3>2, <3>3 DEF Writer
  <2> QED BY <2>1, <2>2, <2>3, <2>5
<1> QED BY <1>1, <1>2

\* The types of the variables of a reader, one by one.
LEMMA ReaderTypes ==
    ASSUME ReaderType, NEW r \in Readers
    PROVE  /\ rpc[r] \in ReaderSteps /\ procXmin[r] \in Int /\ snap[r] \in Snapshots
           /\ snap[r].xmin \in Int /\ snap[r].csn \in Int /\ snap[r].xmax \in Int
           /\ snap[r].list \subseteq Int /\ snap[r].isList \in BOOLEAN
           /\ snap[r].overflowed \in BOOLEAN
           /\ asOf[r] \subseteq Xids /\ listXid[r] \in Int /\ asked[r] \in 0 .. MaxXid
           /\ check[r] \in Checks /\ walk[r] \subseteq Xids /\ found[r] \in Int
           /\ waited[r] \in BOOLEAN /\ cache[r].csn \in Int
           /\ cache[r].xid # InvalidXid => cache[r].xid \in Xids
<1>1. snap[r] \in Snapshots /\ cache[r] \in [xid : 0 .. MaxXid, csn : Int]
  BY DEF ReaderType
<1>2. /\ snap[r].xmin \in Int /\ snap[r].csn \in Int /\ snap[r].xmax \in Int
      /\ snap[r].list \subseteq Int /\ snap[r].isList \in BOOLEAN
      /\ snap[r].overflowed \in BOOLEAN
  BY <1>1 DEF Snapshots
<1>3. cache[r].xid \in 0 .. MaxXid /\ cache[r].csn \in Int BY <1>1
<1>4. cache[r].xid # InvalidXid => cache[r].xid \in Xids BY <1>3, SMT DEF InvalidXid, Xids
<1>5. /\ rpc[r] \in ReaderSteps /\ procXmin[r] \in Int /\ asOf[r] \subseteq Xids
      /\ listXid[r] \in Int /\ asked[r] \in 0 .. MaxXid /\ check[r] \in Checks
      /\ walk[r] \subseteq Xids /\ found[r] \in Int /\ waited[r] \in BOOLEAN
  BY DEF ReaderType
<1> QED BY <1>1, <1>2, <1>3, <1>4, <1>5

\* A step of a writer keeps what a reader knows of its xmin, ...
LEMMA XminStays ==
    ASSUME CommitInv, CommitInv', NEW w \in Writers, Writer(w), ReaderType, UNCHANGED readVars,
           NEW r \in Readers, XminOf(r)
    PROVE  XminOf(r)'
<1>a. Stays BY StaysHold
<1>b. /\ snap[r].xmin \in Int
      /\ cache[r].xid # InvalidXid => cache[r].xid \in Xids
  BY ReaderTypes
<1>b2. cache[r].xid # InvalidXid => cache[r].xid \in Int BY <1>b, SMT DEF Xids
<1>c. UNCHANGED <<rpc, snap, procXmin, cache>> BY DEF readVars, checkVars
<1>d. oldestActive \in Int /\ oldestActive' \in Int /\ oldestActive <= oldestActive'
  BY <1>a DEF CommitInv, TypeInv, Stays
<1>1. rpc[r] # "none" => snap[r].xmin <= oldestActive' BY <1>b, <1>d, SMT DEF XminOf, Cached
<1>2. cache[r].xid # InvalidXid /\ cache[r].xid < oldestActive => cache[r].xid < oldestActive'
  BY <1>b2, <1>d, SMT
<1>3. cache[r].xid # InvalidXid => csnlog'[cache[r].xid] = csnlog[cache[r].xid]
  BY <1>a, <1>b DEF XminOf, Cached, Stays, IsFinal
<1> QED BY <1>c, <1>1, <1>2, <1>3 DEF XminOf, Cached

\* ... of its snapshot, ...
LEMMA SnapStays ==
    ASSUME CommitInv, CommitInv', NEW w \in Writers, Writer(w), ReaderType, UNCHANGED readVars,
           NEW r \in Readers, XminOf(r), SnapOf(r)
    PROVE  SnapOf(r)'
<1> SUFFICES ASSUME rpc[r] \in SnapRead PROVE SnapOf(r)'
  BY DEF SnapOf, readVars
<1>a. Stays BY StaysHold
<1>b. /\ snap[r].xmin \in Int /\ snap[r].csn \in Int /\ asOf[r] \subseteq Xids
  BY ReaderTypes
<1>c. UNCHANGED <<rpc, snap, asOf>> BY DEF readVars, checkVars
<1>d. /\ oldestActive \in Int /\ nextCsn \in Int /\ nextCsn' \in Int /\ nextXid \in Int
      /\ \A x \in Xids : x \in Int
  BY SMT DEF CommitInv, TypeInv, Xids
<1>e. /\ FirstNormal <= snap[r].csn /\ snap[r].csn <= nextCsn /\ nextCsn <= nextCsn'
      /\ snap[r].xmin <= oldestActive
  BY <1>a DEF SnapOf, XminOf, Stays, SnapRead, Checking
<1>1. snap[r].csn <= nextCsn' BY <1>b, <1>d, <1>e, SMT
<1>2. \A x \in asOf[r] : CsnBelow(x, snap[r].csn)'
  <2> DEFINE c == snap[r].csn
  <2>1. c' = c BY <1>c
  <2>2. c \in Int /\ c <= nextCsn BY <1>b, <1>e
  <2>3. \A x \in asOf[r] : CsnBelow(x, c) BY DEF SnapOf
  <2> HIDE DEF c
  <2>4. TAKE x \in asOf[r]
  <2>5. x \in Xids BY <1>b
  <2>6. CsnBelow(x, c)' BY <2>1, <2>2, <2>3, <2>5, CsnsStay DEF CsnBelow
  <2> QED BY <2>6 DEF c
<1>3. \A x \in Xids \ asOf[r] : CsnNotBelow(x, snap[r].csn)'
  <2> DEFINE c == snap[r].csn
  <2>1. c' = c BY <1>c
  <2>2. c \in Int /\ c <= nextCsn BY <1>b, <1>e
  <2>3. \A x \in Xids \ asOf[r] : CsnNotBelow(x, c) BY DEF SnapOf
  <2> HIDE DEF c
  <2>4. TAKE x \in Xids \ asOf[r]
  <2>6. CsnNotBelow(x, c)' BY <2>1, <2>2, <2>3, CsnsStay DEF CsnNotBelow
  <2> QED BY <2>6 DEF c
<1>4. \A x \in asOf[r] : parent'[x] # InvalidXid => parent'[x] \in asOf[r]
  <2> TAKE x \in asOf[r]
  <2>1. x \in Xids /\ CsnBelow(x, snap[r].csn) BY <1>b DEF SnapOf
  <2>2. HasCsn(x) BY <2>1 DEF CsnBelow, HasCsn
  <2>3. x < nextXid BY <2>1, <2>2, CsnGiven
  <2>4. parent'[x] = parent[x] BY <1>a, <2>1, <2>3 DEF Stays
  <2> QED BY <2>4 DEF SnapOf
<1>5. \A x \in Xids : x < snap[r].xmin /\ IsCommitted(csnlog'[x]) => x \in asOf[r]
  <2> TAKE x \in Xids
  <2> SUFFICES ASSUME x < snap[r].xmin, IsCommitted(csnlog'[x]) PROVE x \in asOf[r] OBVIOUS
  <2>1. x < oldestActive BY <1>b, <1>d, <1>e, SMT
  <2>2. IsFinal(csnlog[x]) BY <2>1 DEF CommitInv, Scans, Ended
  <2>3. csnlog'[x] = csnlog[x] BY <1>a, <2>2 DEF Stays
  <2> QED BY <2>3 DEF SnapOf
<1>6. rpc[r] # "xmax" => \A x \in asOf[r] : x < snap[r].xmax BY DEF SnapOf
<1> QED BY <1>c, <1>e, <1>1, <1>2, <1>3, <1>4, <1>5, <1>6 DEF SnapOf

\* ... of an xid that its list omits, ...
LEMMA UnlistedStays ==
    ASSUME Stays, UNCHANGED asOf, NEW r, NEW x \in Xids, Unlisted(r, x)
    PROVE  Unlisted(r, x)'
BY DEF Stays, Unlisted, IsFinal

\* ... of its list of running xids, ...
LEMMA ListStays ==
    ASSUME CommitInv, CommitInv', NEW w \in Writers, Writer(w), ReaderType, UNCHANGED readVars,
           NEW r \in Readers, ListOf(r)
    PROVE  ListOf(r)'
<1>a. Stays BY StaysHold
<1>b. UNCHANGED <<rpc, snap, asOf, listXid>> BY DEF readVars, checkVars
<1>c. \A x \in Xids : Unlisted(r, x) => Unlisted(r, x)' BY <1>a, <1>b, UnlistedStays
<1> QED BY <1>b, <1>c DEF ListOf

\* What is known of an entry stays true.
LEMMA KnownStays ==
    ASSUME CommitInv, CommitInv', NEW w \in Writers, Writer(w), UNCHANGED asOf,
           NEW r, NEW p \in Xids, NEW c, Known(r, p, c)
    PROVE  Known(r, p, c)'
<1>a. Stays BY StaysHold
<1>1. CASE c = InProgress /\ p \notin asOf[r] BY <1>1 DEF Known
<1>2. CASE IsFinal(c) /\ csnlog[p] = c BY <1>a, <1>2 DEF Known, Stays
<1>3. CASE c = Committing /\ IsCommitted(csnlog[p]) BY <1>a, <1>3 DEF Known, Stays, IsFinal
<1>4. ASSUME c = Committing, NEW v \in Writers, p \in tree[v], Commits(v) PROVE Known(r, p, c)'
  BY <1>4, CommittingStays DEF Known
<1> QED BY <1>1, <1>2, <1>3, <1>4 DEF Known

\* ... of the lookup under way, ...
LEMMA WalkStays ==
    ASSUME CommitInv, CommitInv', NEW w \in Writers, Writer(w), ReaderType, UNCHANGED readVars,
           NEW r \in Readers, WalkOf(r), AskOf(r)
    PROVE  WalkOf(r)'
<1>a. Stays BY StaysHold
<1>b. UNCHANGED <<rpc, procXmin, asOf, asked, check, walk, found, waited>>
  BY DEF readVars, checkVars
<1>c. walk[r] \subseteq Xids BY ReaderTypes
<1>d. nextXid \in Int /\ nextXid' \in Int /\ nextXid <= nextXid' /\ \A x \in Xids : x \in Int
  BY <1>a, SMT DEF CommitInv, TypeInv, Stays, Xids
<1>1. \A x \in walk[r] : x \in Xids /\ x < nextXid' /\ parent'[x] = parent[x]
  <2> TAKE x \in walk[r]
  <2>1. x \in Xids /\ x < nextXid BY <1>c DEF WalkOf
  <2>2. x < nextXid' BY <1>d, <2>1, SMT
  <2> QED BY <1>a, <2>1, <2>2 DEF Stays
<1>2. rpc[r] \in Checking => asked[r] \in Xids BY DEF AskOf
<1>3. rpc[r] \in Checking /\ IsCommitted(csnlog[asked[r]]) => IsCommitted(csnlog'[asked[r]])
  BY <1>a, <1>2 DEF Stays, IsFinal
<1>4. rpc[r] = "wait" => Known(r, asked[r], Committing)'
  <2> SUFFICES ASSUME rpc[r] = "wait" PROVE Known(r, asked[r], Committing)' OBVIOUS
  <2>1. asked[r] \in Xids /\ Known(r, asked[r], Committing)
    BY <1>2 DEF WalkOf, Checking
  <2> DEFINE p == asked[r]
  <2>2. p \in Xids /\ Known(r, p, Committing) /\ p' = p BY <1>b, <2>1
  <2> HIDE DEF p
  <2>3. Known(r, p, Committing)'
    BY <1>b, <2>2, KnownStays DEF Known
  <2> QED BY <2>3 DEF p
<1>5. rpc[r] = "up" => \A x \in walk[r] : parent'[x] # InvalidXid /\
         (IsEarliest(x, walk[r]) => Known(r, parent[x], found[r])')
  <2> SUFFICES ASSUME rpc[r] = "up", NEW x \in walk[r]
               PROVE  parent'[x] # InvalidXid /\
                      (IsEarliest(x, walk[r]) => Known(r, parent[x], found[r])')
    OBVIOUS
  <2>1. parent[x] # InvalidXid /\ parent'[x] = parent[x] BY <1>1 DEF WalkOf
  <2>2. parent[x] \in Xids
    <3>1. x \in Xids BY <1>c
    <3> QED BY <2>1, <3>1, CommitTypes DEF CommitInv
  <2> SUFFICES ASSUME IsEarliest(x, walk[r]) PROVE Known(r, parent[x], found[r])' BY <2>1
  <2> DEFINE p == parent[x]
             c == found[r]
  <2>3. p \in Xids /\ Known(r, p, c) /\ p' = p /\ c' = c BY <1>b, <2>1, <2>2 DEF WalkOf
  <2> HIDE DEF p, c
  <2>4. Known(r, p, c)' BY <1>b, <2>3, KnownStays DEF Known
  <2> QED BY <2>4 DEF p, c
<1>6. /\ rpc[r] \notin {"down", "up"} => walk[r] = {}
      /\ rpc[r] \in {"down", "up"} => asked[r] \in walk[r]
      /\ \A x \in walk[r] : /\ procXmin[r] <= x /\ x <= asked[r]
                            /\ IsEarliest(x, walk[r]) \/ NextUp(parent[x], x, walk[r])
      /\ rpc[r] \in Checking \ {"done"} => Looked(r)
      /\ waited[r] => rpc[r] \in {"down", "done"}
      /\ rpc[r] = "wait" => procXmin[r] <= asked[r]
  BY DEF WalkOf
<1>7. rpc[r] \in Checking /\ Settled(r) =>
          /\ IsCommitted(csnlog[asked[r]]) /\ rpc[r] \notin {"up", "wait"}
          /\ rpc[r] = "down" => walk[r] = {asked[r]}
  BY DEF WalkOf
<1>8. Settled(r)' = Settled(r) /\ Looked(r)' = Looked(r) BY <1>b DEF Settled, Looked
<1>9. \A x \in walk[r] : /\ procXmin[r] <= x /\ x < nextXid' /\ x <= asked[r]
                         /\ IsEarliest(x, walk[r]) \/ NextUp(parent'[x], x, walk[r])
  BY <1>1, <1>6
<1> HIDE DEF Settled, Looked
<1>10. WalkOf(r)'
  BY <1>b, <1>3, <1>4, <1>5, <1>6, <1>7, <1>8, <1>9 DEF WalkOf
<1> QED BY <1>10

\* ... and of the check that is being made.
LEMMA AskStays ==
    ASSUME CommitInv, CommitInv', NEW w \in Writers, Writer(w), ReaderType, UNCHANGED readVars,
           NEW r \in Readers, AskOf(r)
    PROVE  AskOf(r)'
<1>a. Stays BY StaysHold
<1>b. UNCHANGED <<rpc, procXmin, asOf, asked, check, snap, found>>
  BY DEF readVars, checkVars
<1>d. nextXid \in Int /\ nextXid' \in Int /\ nextXid <= nextXid' /\ \A x \in Xids : x \in Int
  BY <1>a, SMT DEF CommitInv, TypeInv, Stays, Xids
<1>1. CASE rpc[r] \notin Checking
  <2>1. rpc[r] \notin {"clog", "done"} BY <1>1 DEF Checking
  <2> QED BY <1>1, <1>b, <2>1 DEF AskOf
<1>2. CASE rpc[r] \in Checking
  <2>1. asked[r] \in Xids /\ asked[r] < nextXid BY <1>2 DEF AskOf
  <2>2. asked[r] < nextXid' BY <1>d, <2>1, SMT
  <2>3. parent'[asked[r]] = parent[asked[r]] BY <1>a, <2>1 DEF Stays
  <2>4. IsFinal(csnlog[asked[r]]) => csnlog'[asked[r]] = csnlog[asked[r]]
    BY <1>a, <2>1 DEF Stays
  <2>5. Unlisted(r, asked[r]) => Unlisted(r, asked[r])'
    BY <1>b, <2>3, <2>4 DEF Unlisted, IsFinal
  <2>6. Looked(r)' = Looked(r) BY <1>b DEF Looked
  <2>7. rpc[r] = "done" /\ Looked(r) =>
          \/ found[r] = InProgress /\ asked[r] \notin asOf[r] /\ check[r] # "committed"
          \/ found[r] = Aborted /\ csnlog'[asked[r]] = Aborted
          \/ /\ IsCommitted(found[r]) /\ IsCommitted(csnlog'[asked[r]])
             /\ found[r] = csnlog'[asked[r]] \/ (asked[r] \in asOf[r] /\ found[r] < snap[r].csn)
    BY <2>4 DEF AskOf, IsFinal
  <2> HIDE DEF Looked, Unlisted
  <2>8. /\ rpc[r] = "clog" => asked[r] < procXmin[r]
        /\ rpc[r] = "done" => found[r] # Committing
        /\ check[r] = "yes" => asked[r] \in asOf[r] \/ (snap[r].isList /\ parent[asked[r]] # InvalidXid)
        /\ check[r] = "no" => snap[r].isList \/ asked[r] \notin asOf[r]
        /\ check[r] = "didcommit" => snap[r].isList /\ Unlisted(r, asked[r])
    BY <1>2 DEF AskOf
  <2> QED BY <1>b, <2>1, <2>2, <2>3, <2>5, <2>6, <2>7, <2>8 DEF AskOf
<1> QED BY <1>1, <1>2

-----------------------------------------------------------------------------
(* What steps of readers change.                                           *)

\* What an entry that names a parent tells: neither of the two has ended.
LEMMA SubTransEntry ==
    ASSUME CommitInv, NEW x \in Xids, IsSubTrans(csnlog[x])
    PROVE  /\ parent[x] \in Xids /\ parent[x] # InvalidXid /\ csnlog[x] = -parent[x]
           /\ -csnlog[x] = parent[x] /\ parent[x] < x /\ x < nextXid
           /\ ~IsFinal(csnlog[parent[x]]) /\ oldestActive <= parent[x]
           /\ \E v \in Writers : x \in tree[v] /\ parent[x] \in tree[v]
<1>a. TypeInv /\ Trees /\ Entries /\ Scans BY DEF CommitInv
<1>b. /\ nextXid \in Int /\ oldestActive \in Int /\ csnlog[x] \in Int /\ x \in Int
      /\ \A y \in Xids : y \in Int /\ 1 <= y
  BY <1>a, CommitTypes
<1>1. ~IsFinal(csnlog[x]) /\ csnlog[x] # InProgress
  BY <1>b, SMT DEF IsSubTrans, IsFinal, IsCommitted, Aborted, Frozen, InProgress
<1>2. x < nextXid
  <2>1. x >= nextXid => csnlog[x] = InProgress BY <1>a DEF Entries
  <2> QED BY <1>b, <1>1, <2>1, SMT
<1>3. PICK v \in Writers : x \in tree[v] BY <1>a, <1>1, <1>2 DEF Entries
<1>4. Unwritten(v, x) /\ TreeOf(v) /\ tree[v] \subseteq Xids
  BY <1>a, <1>1, <1>3 DEF Entries, EntriesOf, Trees, TypeInv
<1>5. x # procXid[v] /\ csnlog[x] = SubTrans(parent[x])
  BY <1>1, <1>4, SMT DEF Unwritten, IsSubTrans, Committing, InProgress
<1>6. parent[x] \in tree[v] /\ parent[x] < x /\ parent[x] \in Xids
  BY <1>3, <1>4, <1>5 DEF TreeOf
<1>7. parent[x] \in Int /\ 1 <= parent[x] BY <1>b, <1>6
<1>8. parent[x] # InvalidXid /\ csnlog[x] = -parent[x] /\ -csnlog[x] = parent[x]
  BY <1>5, <1>7, SMT DEF SubTrans, InvalidXid
<1>9. ~IsFinal(csnlog[parent[x]])
  BY <1>a, <1>1, <1>8 DEF Entries
<1>10. oldestActive <= parent[x]
  <2>1. parent[x] < oldestActive => IsFinal(csnlog[parent[x]])
    BY <1>a, <1>6 DEF Scans, Ended
  <2> QED BY <1>7, <1>9, <1>b, <2>1, SMT
<1> QED BY <1>2, <1>3, <1>6, <1>8, <1>9, <1>10

\* A step of a reader changes nothing else.
RSame(q) ==
    /\ rpc'[q] = rpc[q] /\ procXmin'[q] = procXmin[q] /\ snap'[q] = snap[q]
    /\ asOf'[q] = asOf[q] /\ listXid'[q] = listXid[q] /\ asked'[q] = asked[q]
    /\ check'[q] = check[q] /\ walk'[q] = walk[q] /\ found'[q] = found[q]
    /\ waited'[q] = waited[q] /\ cache'[q] = cache[q]
\* It leaves the shared variables and the other readers alone.
LEMMA ReadersApart ==
    ASSUME ReaderType, NEW r \in Readers, Reader(r)
    PROVE  UNCHANGED <<commitVars, ckpt>> /\ \A q \in Readers : q # r => RSame(q)
<1> USE DEF RGoto, RSame, checkVars
<1>a. /\ rpc \in [Readers -> ReaderSteps] /\ procXmin \in [Readers -> Int]
      /\ snap \in [Readers -> Snapshots] /\ asOf \in [Readers -> SUBSET Xids]
      /\ listXid \in [Readers -> Int] /\ asked \in [Readers -> 0 .. MaxXid]
      /\ check \in [Readers -> Checks] /\ walk \in [Readers -> SUBSET Xids]
      /\ found \in [Readers -> Int] /\ waited \in [Readers -> BOOLEAN]
      /\ cache \in [Readers -> [xid : 0 .. MaxXid, csn : Int]]
  BY DEF ReaderType
<1>0. UNCHANGED <<commitVars, ckpt>>
  BY DEF Reader, ReadOldestActive, AnnounceXmin, RecheckOldestActive, ReadNextCsn,
     ReadLatestCompleted, ListRunning, DropSnapshot, XidVisible, CommittedXidVisible, Ask,
     FetchFromClog, WaitForCommit, Answer, WalkDown, WalkUp
<1> SUFFICES ASSUME NEW q \in Readers, q # r PROVE RSame(q) BY <1>0
<1>1. CASE ReadOldestActive(r) \/ AnnounceXmin(r)
  BY <1>a, <1>1 DEF ReadOldestActive, AnnounceXmin
<1>2. CASE RecheckOldestActive(r) \/ ReadNextCsn(r)
  BY <1>a, <1>2 DEF RecheckOldestActive, ReadNextCsn
<1>3. CASE ReadLatestCompleted(r) BY <1>a, <1>3 DEF ReadLatestCompleted
<1>4. CASE ListRunning(r) \/ DropSnapshot(r)
  BY <1>a, <1>4 DEF ListRunning, DropSnapshot
<1>5. ASSUME NEW x, NEW how, Ask(r, x, how) PROVE RSame(q) BY <1>a, <1>5 DEF Ask, Begin
<1>6. CASE \E x \in Xids : XidVisible(r, x) \/ CommittedXidVisible(r, x)
  BY <1>5, <1>6 DEF XidVisible, CommittedXidVisible
<1>7. ASSUME NEW c, GotCsn(r, c) \/ Finish(r, c)
      PROVE  rpc'[q] = rpc[q] /\ found'[q] = found[q] /\ cache'[q] = cache[q]
  <2>1. CASE Finish(r, c) BY <1>a, <2>1 DEF Finish
  <2> QED BY <1>a, <1>7, <2>1 DEF GotCsn
<1>8. CASE FetchFromClog(r)
  <2>1. Finish(r, clog[asked[r]])
        /\ UNCHANGED <<procXmin, snap, asOf, listXid, asked, check, walk, waited>>
    BY <1>8 DEF FetchFromClog
  <2> QED BY <1>7, <2>1
<1>9. CASE WaitForCommit(r) BY <1>a, <1>9 DEF WaitForCommit
<1>10. CASE Answer(r) BY <1>a, <1>10 DEF Answer
<1>11. CASE WalkDown(r)
  <2>1. UNCHANGED <<procXmin, snap, asOf, listXid, asked, check, waited>>
    BY <1>11 DEF WalkDown
  <2>2. walk'[q] = walk[q] BY <1>a, <1>11 DEF WalkDown
  <2>3. rpc'[q] = rpc[q] /\ found'[q] = found[q] /\ cache'[q] = cache[q]
    BY <1>a, <1>7, <1>11 DEF WalkDown
  <2> QED BY <2>1, <2>2, <2>3
<1>12. CASE WalkUp(r)
  <2>1. UNCHANGED <<procXmin, snap, asOf, listXid, asked, check, waited>>
    BY <1>12 DEF WalkUp
  <2>2. walk'[q] = walk[q] BY <1>a, <1>12 DEF WalkUp
  <2>3. rpc'[q] = rpc[q] /\ found'[q] = found[q] /\ cache'[q] = cache[q]
    BY <1>a, <1>7, <1>12 DEF WalkUp
  <2> QED BY <2>1, <2>2, <2>3
<1> QED BY <1>1, <1>2, <1>3, <1>4, <1>6, <1>8, <1>9, <1>10, <1>11, <1>12 DEF Reader

\* A reader that takes no step keeps its invariant.
LEMMA ReaderSame ==
    ASSUME UNCHANGED commitVars, NEW q \in Readers, RSame(q), ReaderInv(q)
    PROVE  ReaderInv(q)'
<1> USE DEF RSame
<1>a. UNCHANGED <<csnlog, stamp, stampCsn, tree, pc, parent, nextXid, nextCsn, oldestActive>>
  BY DEF commitVars, logVars, counters, treeVars, stampVars
<1>b. XminOf(q) /\ SnapOf(q) /\ ListOf(q) /\ WalkOf(q) /\ AskOf(q) BY DEF ReaderInv
<1>1. XminOf(q)' BY <1>a, <1>b DEF XminOf, Cached
<1>2. SnapOf(q)' BY <1>a, <1>b DEF SnapOf, CsnBelow, CsnNotBelow
<1>3. ListOf(q)' BY <1>a, <1>b DEF ListOf, Unlisted
<1>4. WalkOf(q)' BY <1>a, <1>b DEF WalkOf, Known, Commits, Settled, Looked
<1>5. AskOf(q)' BY <1>a, <1>b DEF AskOf, Unlisted, Looked
<1> QED BY <1>1, <1>2, <1>3, <1>4, <1>5 DEF ReaderInv

\* A step of a reader keeps the types.
LEMMA ReaderTypeStep ==
    ASSUME CommitInv, ReaderType, NEW r \in Readers, Reader(r), ReaderInv(r)
    PROVE  ReaderType'
<1>a. /\ rpc \in [Readers -> ReaderSteps] /\ procXmin \in [Readers -> Int]
      /\ snap \in [Readers -> Snapshots] /\ asOf \in [Readers -> SUBSET Xids]
      /\ listXid \in [Readers -> Int] /\ asked \in [Readers -> 0 .. MaxXid]
      /\ check \in [Readers -> Checks] /\ walk \in [Readers -> SUBSET Xids]
      /\ found \in [Readers -> Int] /\ waited \in [Readers -> BOOLEAN]
      /\ cache \in [Readers -> [xid : 0 .. MaxXid, csn : Int]] /\ ckpt \in Checkpoints
  BY DEF ReaderType
<1>b. /\ {"none", "announce", "recheck", "csn", "xmax", "list", "ready"} \subseteq ReaderSteps
      /\ {"clog", "down", "up", "wait", "done"} \subseteq ReaderSteps
  BY DEF ReaderSteps, Protected, SnapRead, Checking
<1>c. /\ {"yes", "no", "visible", "didcommit", "committed"} \subseteq Checks
      /\ InProgress \in Int /\ InvalidXid \in Int /\ InvalidXid \in 0 .. MaxXid
      /\ \A x \in Xids : x \in 0 .. MaxXid
  BY CsnCommitAssumption, SMT DEF Checks, InProgress, InvalidXid, Xids
<1>d. /\ oldestActive \in Int /\ nextCsn \in Int /\ latestCompleted \in Int
      /\ latestCompleted + 1 \in Int /\ \A x \in Xids : csnlog[x] \in Int
  BY CommitTypes, SMT DEF CommitInv
<1>e. /\ NoSnap \in Snapshots
      /\ \A s \in Snapshots : \A n \in Int :
            /\ [s EXCEPT !.xmin = n] \in Snapshots /\ [s EXCEPT !.csn = n] \in Snapshots
            /\ [s EXCEPT !.xmax = n] \in Snapshots
            /\ \A m \in BOOLEAN : [s EXCEPT !.xmin = n, !.isList = m] \in Snapshots
  <2>1. NoSnap \in Snapshots BY SMT DEF Snapshots, NoSnap, InvalidXid, InProgress
  <2>2. ASSUME NEW s \in Snapshots, NEW n \in Int
        PROVE  /\ [s EXCEPT !.xmin = n] \in Snapshots /\ [s EXCEPT !.csn = n] \in Snapshots
               /\ [s EXCEPT !.xmax = n] \in Snapshots
    BY DEF Snapshots
  <2>3. ASSUME NEW s \in Snapshots, NEW n \in Int, NEW m \in BOOLEAN
        PROVE  [s EXCEPT !.xmin = n, !.isList = m] \in Snapshots
    BY DEF Snapshots
  <2> QED BY <2>1, <2>2, <2>3
<1>f. snap[r] \in Snapshots /\ listXid[r] \in Int /\ snap[r].list \subseteq Int
      /\ asked[r] \in 0 .. MaxXid
  BY <1>a DEF Snapshots
<1>g. UNCHANGED ckpt BY ReadersApart
<1> USE DEF RGoto, checkVars
<1>1. CASE ReadOldestActive(r)
  <2>1. PICK m \in ListModes :
           snap' = [snap EXCEPT ![r] = [NoSnap EXCEPT !.xmin = oldestActive, !.isList = m]]
    BY <1>1 DEF ReadOldestActive
  <2>2. m \in BOOLEAN BY CsnSnapshotAssumption
  <2>3. [NoSnap EXCEPT !.xmin = oldestActive, !.isList = m] \in Snapshots BY <1>d, <1>e, <2>2
  <2>4. snap' \in [Readers -> Snapshots] BY <1>a, <2>1, <2>3
  <2>5. rpc' \in [Readers -> ReaderSteps] /\ asOf' \in [Readers -> SUBSET Xids]
    BY <1>1, <1>a, <1>b DEF ReadOldestActive
  <2> QED BY <1>1, <1>a, <2>4, <2>5 DEF ReadOldestActive, ReaderType
<1>2. CASE AnnounceXmin(r)
  <2>1. snap[r].xmin \in Int BY <1>f DEF Snapshots
  <2> QED BY <1>2, <1>a, <1>b, <2>1 DEF AnnounceXmin, ReaderType
<1>3. CASE RecheckOldestActive(r)
  <2>1. snap' = [snap EXCEPT ![r] = [snap[r] EXCEPT !.xmin = oldestActive]]
    BY <1>3, <1>a DEF RecheckOldestActive
  <2>2. snap' \in [Readers -> Snapshots] BY <1>a, <1>d, <1>e, <1>f, <2>1
  <2> QED BY <1>3, <1>a, <1>b, <1>d, <2>2 DEF RecheckOldestActive, ReaderType
<1>4. CASE ReadNextCsn(r)
  <2>1. snap' = [snap EXCEPT ![r] = [snap[r] EXCEPT !.csn = nextCsn]]
    BY <1>4, <1>a DEF ReadNextCsn
  <2>2. snap' \in [Readers -> Snapshots] BY <1>a, <1>d, <1>e, <1>f, <2>1
  <2>3. asOf' \in [Readers -> SUBSET Xids] /\ rpc' \in [Readers -> ReaderSteps]
    BY <1>4, <1>a, <1>b DEF ReadNextCsn
  <2> QED BY <1>4, <1>a, <2>2, <2>3 DEF ReadNextCsn, ReaderType
<1>5. CASE ReadLatestCompleted(r)
  <2>1. snap' = [snap EXCEPT ![r] = [snap[r] EXCEPT !.xmax = latestCompleted + 1]]
    BY <1>5, <1>a DEF ReadLatestCompleted
  <2>2. snap' \in [Readers -> Snapshots] BY <1>a, <1>d, <1>e, <1>f, <2>1
  <2>3. snap[r].xmin \in Int BY <1>f DEF Snapshots
  <2>4. rpc' \in [Readers -> ReaderSteps] /\ listXid' \in [Readers -> Int]
    BY <1>5, <1>a, <1>b, <2>3 DEF ReadLatestCompleted
  <2> QED BY <1>5, <1>a, <2>2, <2>4 DEF ReadLatestCompleted, ReaderType
<1>6. CASE ListRunning(r)
  <2>1. snap' \in [Readers -> Snapshots]
    <3>1. PICK o, l : /\ snap' = [snap EXCEPT ![r].overflowed = o, ![r].list = l]
                      /\ o \in BOOLEAN /\ (l = snap[r].list \/ l = snap[r].list \cup {listXid[r]})
      BY <1>6, <1>a DEF ListRunning
    <3>2. l \subseteq Int BY <1>f, <3>1
    <3>3. snap' = [snap EXCEPT ![r] = [snap[r] EXCEPT !.overflowed = o, !.list = l]]
      BY <1>a, <3>1
    <3>4. [snap[r] EXCEPT !.overflowed = o, !.list = l] \in Snapshots
      BY <1>f, <3>1, <3>2 DEF Snapshots
    <3> QED BY <1>a, <3>3, <3>4
  <2>2. rpc' \in [Readers -> ReaderSteps] /\ listXid' \in [Readers -> Int]
    BY <1>6, <1>a, <1>b, <1>c, <1>f, SMT DEF ListRunning
  <2> QED BY <1>6, <1>a, <2>1, <2>2 DEF ListRunning, ReaderType
<1>7. CASE DropSnapshot(r)
  <2>1. snap' \in [Readers -> Snapshots] BY <1>7, <1>a, <1>e DEF DropSnapshot
  <2> QED BY <1>7, <1>a, <1>b, <1>c, <2>1 DEF DropSnapshot, ReaderType
<1>8. ASSUME NEW x \in Xids, NEW how \in Checks, Ask(r, x, how) PROVE ReaderType'
  <2>1. upperBound[UBSlot(x)] \in Int /\ cache[r].csn \in Int /\ found[r] \in Int
    <3>1. upperBound \in [0 .. UBSlot(MaxXid) -> Int] BY DEF CommitInv, TypeInv
    <3>2. UBSlot(x) \in 0 .. UBSlot(MaxXid) BY UpperBoundSlot
    <3>3. cache[r] \in [xid : 0 .. MaxXid, csn : Int] BY <1>a
    <3> QED BY <1>a, <3>1, <3>2, <3>3
  <2>2. asked' \in [Readers -> 0 .. MaxXid] /\ check' \in [Readers -> Checks]
    BY <1>8, <1>a, <1>c DEF Ask
  <2>3. /\ rpc' \in [Readers -> ReaderSteps] /\ found' \in [Readers -> Int]
        /\ walk' \in [Readers -> SUBSET Xids]
    <3>1. Begin(r, x, how) BY <1>8 DEF Ask
    <3>2. /\ \/ rpc' = [rpc EXCEPT ![r] = "done"] \/ rpc' = [rpc EXCEPT ![r] = "clog"]
             \/ rpc' = [rpc EXCEPT ![r] = "down"]
          /\ \/ UNCHANGED walk \/ walk' = [walk EXCEPT ![r] = {}]
             \/ walk' = [walk EXCEPT ![r] = {x}]
      BY <3>1 DEF Begin
    <3>3. PICK k : /\ UNCHANGED found \/ found' = [found EXCEPT ![r] = k]
                   /\ k \in {found[r], cache[r].csn, upperBound[UBSlot(x)]}
      BY <3>1 DEF Begin
    <3>4. found' \in [Readers -> Int] BY <1>a, <2>1, <3>3
    <3>5. rpc' \in [Readers -> ReaderSteps] BY <1>a, <1>b, <3>2
    <3>6. walk' \in [Readers -> SUBSET Xids] BY <1>a, <3>2, SMT
    <3> QED BY <3>4, <3>5, <3>6
  <2> QED BY <1>8, <1>a, <1>g, <2>2, <2>3 DEF Ask, ReaderType
<1>9. CASE \E x \in Xids : XidVisible(r, x) \/ CommittedXidVisible(r, x)
  <2>1. PICK x \in Xids : XidVisible(r, x) \/ CommittedXidVisible(r, x) BY <1>9
  <2>2. PICK how \in Checks : Ask(r, x, how)
    <3>1. CASE XidVisible(r, x) BY <1>c, <1>f, <3>1 DEF XidVisible, Snapshots
    <3>2. CASE CommittedXidVisible(r, x) BY <1>c, <1>f, <3>2 DEF CommittedXidVisible, Snapshots
    <3> QED BY <2>1, <3>1, <3>2
  <2> QED BY <1>8, <2>2
<1>10. ASSUME NEW c \in Int, GotCsn(r, c) \/ Finish(r, c)
       PROVE  /\ rpc' \in [Readers -> ReaderSteps] /\ found' \in [Readers -> Int]
              /\ cache' \in [Readers -> [xid : 0 .. MaxXid, csn : Int]]
  <2>1. [xid |-> asked[r], csn |-> c] \in [xid : 0 .. MaxXid, csn : Int] BY <1>f
  <2>2. CASE Finish(r, c) BY <1>a, <1>b, <2>1, <2>2 DEF Finish
  <2>3. CASE UNCHANGED <<found, cache>> /\ rpc' = [rpc EXCEPT ![r] = "wait"]
    BY <1>a, <1>b, <2>3
  <2> QED BY <1>10, <2>2, <2>3 DEF GotCsn
<1>h. rpc[r] \in Checking => asked[r] \in Xids BY DEF ReaderInv, AskOf
<1>11. CASE FetchFromClog(r)
  <2>1. asked[r] \in Xids BY <1>11, <1>h DEF FetchFromClog, Checking
  <2>2. clog[asked[r]] \in Int
    <3>1. clog[asked[r]] \in {InProgress, Aborted, Frozen} BY <2>1, CommitTypes DEF CommitInv
    <3> QED BY <3>1, SMT DEF InProgress, Aborted, Frozen
  <2>3. Finish(r, clog[asked[r]]) BY <1>11 DEF FetchFromClog
  <2>4. /\ rpc' \in [Readers -> ReaderSteps] /\ found' \in [Readers -> Int]
        /\ cache' \in [Readers -> [xid : 0 .. MaxXid, csn : Int]]
    BY <1>10, <2>2, <2>3
  <2> QED BY <1>11, <1>a, <1>g, <2>4 DEF FetchFromClog, ReaderType
<1>12. CASE WaitForCommit(r)
  <2>1. asked[r] \in Xids BY <1>12, <1>h DEF WaitForCommit, Checking
  <2> QED BY <1>12, <1>a, <1>b, <2>1 DEF WaitForCommit, ReaderType
<1>13. CASE Answer(r) BY <1>13, <1>a, <1>b, <1>c DEF Answer, ReaderType
<1>14. CASE WalkDown(r)
  <2>1. PICK x \in walk[r] :
          IF IsSubTrans(csnlog[x])
          THEN /\ walk' = [walk EXCEPT ![r] = @ \cup {-csnlog[x]}]
               /\ UNCHANGED <<rpc, found, cache>>
          ELSE /\ walk' = [walk EXCEPT ![r] = @ \ {x}]
               /\ IF walk[r] = {x}
                  THEN GotCsn(r, csnlog[x])
                  ELSE /\ rpc' = [rpc EXCEPT ![r] = "up"]
                       /\ found' = [found EXCEPT ![r] = csnlog[x]]
                       /\ UNCHANGED cache
    BY <1>14 DEF WalkDown
  <2>2. x \in Xids /\ csnlog[x] \in Int BY <1>a, <1>d, <2>1
  <2>3. walk' \in [Readers -> SUBSET Xids]
    <3>1. IsSubTrans(csnlog[x]) => -csnlog[x] \in Xids BY <2>2, SubTransEntry
    <3> QED BY <1>a, <2>1, <2>2, <3>1, SMT
  <2>4. /\ rpc' \in [Readers -> ReaderSteps] /\ found' \in [Readers -> Int]
        /\ cache' \in [Readers -> [xid : 0 .. MaxXid, csn : Int]]
    <3>1. CASE UNCHANGED <<rpc, found, cache>> BY <1>a, <3>1
    <3>2. CASE GotCsn(r, csnlog[x]) BY <1>10, <2>2, <3>2
    <3>3. CASE /\ rpc' = [rpc EXCEPT ![r] = "up"]
               /\ found' = [found EXCEPT ![r] = csnlog[x]] /\ UNCHANGED cache
      BY <1>a, <1>b, <2>2, <3>3
    <3> QED BY <2>1, <3>1, <3>2, <3>3
  <2>5. UNCHANGED <<procXmin, snap, asOf, listXid, asked, check, waited, ckpt>>
    BY <1>14 DEF WalkDown
  <2> QED BY <1>a, <2>3, <2>4, <2>5 DEF ReaderType
<1>15. CASE WalkUp(r)
  <2> DEFINE C(x) == IF IsSubTrans(csnlog[x]) /\ IsActive(found[r]) THEN found[r] ELSE csnlog[x]
  <2>1. PICK x \in walk[r] :
          /\ walk' = [walk EXCEPT ![r] = @ \ {x}]
          /\ IF walk[r] = {x}
             THEN GotCsn(r, C(x))
             ELSE found' = [found EXCEPT ![r] = C(x)] /\ UNCHANGED <<rpc, cache>>
    BY <1>15 DEF WalkUp
  <2>2. C(x) \in Int BY <1>a, <1>d, <2>1
  <2> HIDE DEF C
  <2>3. walk' \in [Readers -> SUBSET Xids] BY <1>a, <2>1
  <2>4. /\ rpc' \in [Readers -> ReaderSteps] /\ found' \in [Readers -> Int]
        /\ cache' \in [Readers -> [xid : 0 .. MaxXid, csn : Int]]
    <3>1. CASE GotCsn(r, C(x)) BY <1>10, <2>2, <3>1
    <3>2. CASE found' = [found EXCEPT ![r] = C(x)] /\ UNCHANGED <<rpc, cache>>
      BY <1>a, <1>b, <2>2, <3>2
    <3> QED BY <2>1, <3>1, <3>2
  <2>5. UNCHANGED <<procXmin, snap, asOf, listXid, asked, check, waited, ckpt>>
    BY <1>15 DEF WalkUp
  <2> QED BY <1>a, <2>3, <2>4, <2>5 DEF ReaderType
<1> QED BY <1>1, <1>2, <1>3, <1>4, <1>5, <1>6, <1>7, <1>9, <1>11, <1>12, <1>13, <1>14, <1>15 DEF Reader

-----------------------------------------------------------------------------
(* The writers keep SnapInv.                                               *)

\* A step of a writer keeps what the readers rely on.
LEMMA WriterStep ==
    ASSUME SnapInv, CommitNext, UNCHANGED <<readVars, ckpt>>
    PROVE  SnapInv'
<1>a. CommitInv /\ ParentsHaveCsn /\ ReaderType /\ CkptInv /\ \A r \in Readers : ReaderInv(r)
  BY DEF SnapInv
<1>b. CommitInv' BY <1>a, CommitInvStep
<1>c. PICK w \in Writers : Writer(w) BY DEF CommitNext
<1>1. ParentsHaveCsn' BY <1>a, <1>b, <1>c, ParentsStep
<1>2. ReaderType' BY <1>a DEF ReaderType, readVars, checkVars
<1>3. CkptInv'
  <2>1. oldestActive <= oldestActive' BY <1>a, <1>b, <1>c, StaysHold DEF Stays
  <2>2. UNCHANGED <<rpc, procXmin>> BY DEF readVars
  <2>3. oldestActive \in Int /\ oldestActive' \in Int BY <1>a, <1>b DEF CommitInv, TypeInv
  <2>4. ckpt.truncated \in Int /\ ckpt.cap \in Int
    BY <1>a DEF ReaderType, Checkpoints
  <2> QED BY <1>a, <2>1, <2>2, <2>3, <2>4, SMT DEF CkptInv
<1>4. ASSUME NEW r \in Readers PROVE ReaderInv(r)'
  <2>1. XminOf(r) /\ SnapOf(r) /\ ListOf(r) /\ WalkOf(r) /\ AskOf(r) BY <1>a DEF ReaderInv
  <2>2. XminOf(r)' BY <1>a, <1>b, <1>c, <2>1, XminStays
  <2>3. SnapOf(r)' BY <1>a, <1>b, <1>c, <2>1, SnapStays
  <2>4. ListOf(r)' BY <1>a, <1>b, <1>c, <2>1, ListStays
  <2>5. WalkOf(r)' BY <1>a, <1>b, <1>c, <2>1, WalkStays
  <2>6. AskOf(r)' BY <1>a, <1>b, <1>c, <2>1, AskStays
  <2> QED BY <2>2, <2>3, <2>4, <2>5, <2>6 DEF ReaderInv
<1> QED BY <1>b, <1>1, <1>2, <1>3, <1>4 DEF SnapInv

-----------------------------------------------------------------------------
(* Taking a snapshot.                                                      *)

\* Outside of a visibility check there is nothing to know about one.
LEMMA NotChecking ==
    ASSUME NEW r \in Readers, WalkOf(r), AskOf(r), UNCHANGED checkVars,
           rpc[r] \notin Checking, rpc'[r] \notin Checking
    PROVE  WalkOf(r)' /\ AskOf(r)'
<1>1. /\ rpc[r] \notin {"clog", "down", "up", "wait", "done"}
      /\ rpc'[r] \notin {"clog", "down", "up", "wait", "done"}
  BY DEF Checking
<1>2. walk[r] = {} /\ ~waited[r] BY <1>1 DEF WalkOf
<1>3. walk'[r] = {} /\ ~waited'[r] BY <1>2 DEF checkVars
<1>4. found'[r] = InProgress BY DEF AskOf, checkVars
<1> QED BY <1>1, <1>3, <1>4 DEF WalkOf, AskOf

\* The first reads of GetSnapshotDataCSN, and the end of the transaction.
LEMMA OldestReadKeeps ==
    ASSUME CommitInv, ReaderType, NEW r \in Readers, ReaderInv(r),
           ReadOldestActive(r) \/ AnnounceXmin(r) \/ RecheckOldestActive(r) \/ DropSnapshot(r)
    PROVE  ReaderInv(r)'
<1>a. /\ rpc \in [Readers -> ReaderSteps] /\ procXmin \in [Readers -> Int]
      /\ snap \in [Readers -> Snapshots]
  BY DEF ReaderType
<1>b. snap[r] \in Snapshots /\ snap[r].xmin \in Int /\ procXmin[r] \in Int BY ReaderTypes
<1>c. oldestActive \in Int /\ 1 <= oldestActive BY DEF CommitInv, TypeInv, Scans
<1>d. XminOf(r) /\ WalkOf(r) /\ AskOf(r) BY DEF ReaderInv
<1>e. UNCHANGED <<csnlog, oldestActive, cache, checkVars>>
  BY DEF ReadOldestActive, AnnounceXmin, RecheckOldestActive, DropSnapshot, checkVars,
     commitVars, logVars, counters
<1> SUFFICES /\ rpc[r] \notin Checking /\ rpc'[r] \notin SnapRead
             /\ XminOf(r)'
  <2>1. \A s : s \notin SnapRead => s \notin Checking /\ s # "list" /\ s \notin {"ready"} \cup Checking
    BY DEF SnapRead
  <2>2. SnapOf(r)' /\ ListOf(r)' BY <2>1 DEF SnapOf, ListOf
  <2> QED BY <1>d, <1>e, <2>1, <2>2, NotChecking DEF ReaderInv
<1> USE DEF RGoto
<1>1. CASE ReadOldestActive(r)
  <2>1. PICK m \in ListModes :
           snap' = [snap EXCEPT ![r] = [NoSnap EXCEPT !.xmin = oldestActive, !.isList = m]]
    BY <1>1 DEF ReadOldestActive
  <2>2. snap'[r] = [NoSnap EXCEPT !.xmin = oldestActive, !.isList = m] BY <1>a, <2>1
  <2>3. snap'[r].xmin = oldestActive BY <2>2 DEF NoSnap
  <2>4. /\ rpc[r] \in {"none", "ready"} /\ procXmin' = procXmin
        /\ rpc'[r] = IF procXmin[r] = InvalidXid THEN "announce" ELSE "csn"
    BY <1>1, <1>a DEF ReadOldestActive
  <2>5. rpc[r] \notin Checking /\ rpc'[r] \notin SnapRead /\ rpc'[r] # "none"
    BY <2>4 DEF Checking, SnapRead
  <2>6. rpc'[r] \in Protected => 1 <= procXmin[r] /\ procXmin[r] <= oldestActive
    <3>1. CASE procXmin[r] = InvalidXid
      BY <2>4, <3>1 DEF Protected, SnapRead, Checking
    <3>2. CASE procXmin[r] # InvalidXid
      <4>1. rpc[r] = "ready" BY <1>d, <2>4, <3>2 DEF XminOf, Cached
      <4>2. 1 <= procXmin[r] /\ procXmin[r] <= snap[r].xmin /\ snap[r].xmin <= oldestActive
        BY <1>d, <4>1 DEF XminOf, Cached, Protected, SnapRead
      <4> QED BY <1>b, <1>c, <4>2, SMT
    <3> QED BY <3>1, <3>2
  <2>7. oldestActive <= oldestActive BY <1>c, SMT
  <2> QED BY <1>d, <1>e, <2>3, <2>4, <2>5, <2>6, <2>7 DEF XminOf, Cached
<1>2. CASE AnnounceXmin(r)
  <2>1. rpc[r] = "announce" /\ rpc'[r] = "recheck" /\ snap' = snap
    BY <1>2, <1>a DEF AnnounceXmin
  <2>2. rpc[r] \notin Checking /\ rpc'[r] \notin SnapRead /\ rpc'[r] \notin Protected
    BY <2>1 DEF Checking, SnapRead, Protected
  <2>3. rpc'[r] # "none" /\ rpc[r] # "none" BY <2>1
  <2> QED BY <1>d, <1>e, <2>1, <2>2, <2>3 DEF XminOf, Cached
<1>3. CASE RecheckOldestActive(r)
  <2>1. /\ rpc[r] = "recheck" /\ rpc'[r] = "csn" /\ procXmin'[r] = oldestActive
        /\ snap' = [snap EXCEPT ![r].xmin = oldestActive]
    BY <1>3, <1>a DEF RecheckOldestActive
  <2>2. rpc[r] \notin Checking /\ rpc'[r] \notin SnapRead /\ rpc'[r] # "none"
    BY <2>1 DEF Checking, SnapRead
  <2>3. snap'[r].xmin = oldestActive BY <1>a, <2>1 DEF Snapshots
  <2>4. oldestActive <= oldestActive BY <1>c, SMT
  <2> QED BY <1>c, <1>d, <1>e, <2>1, <2>2, <2>3, <2>4 DEF XminOf, Cached
<1>4. CASE DropSnapshot(r)
  <2>1. rpc[r] = "ready" /\ rpc'[r] = "none" /\ procXmin'[r] = InvalidXid
    BY <1>4, <1>a DEF DropSnapshot
  <2>2. /\ rpc[r] \notin Checking /\ rpc'[r] \notin SnapRead /\ rpc'[r] \notin Protected
    BY <2>1 DEF Checking, SnapRead, Protected
  <2> QED BY <1>d, <1>e, <2>1, <2>2 DEF XminOf, Cached
<1> QED BY <1>1, <1>2, <1>3, <1>4

\* GetSnapshotDataCSN reads polar_next_csn: the snapshot is fixed here.
LEMMA CsnReadKeeps ==
    ASSUME CommitInv, ParentsHaveCsn, ReaderType, NEW r \in Readers, ReaderInv(r), ReadNextCsn(r)
    PROVE  ReaderInv(r)'
<1>a. snap \in [Readers -> Snapshots] /\ asOf \in [Readers -> SUBSET Xids]
      /\ rpc \in [Readers -> ReaderSteps]
  BY DEF ReaderType
<1>b. UNCHANGED <<commitVars, procXmin, checkVars, cache>> BY DEF ReadNextCsn, checkVars
<1>c. UNCHANGED <<csnlog, stamp, stampCsn, parent, nextCsn, oldestActive>>
  BY <1>b DEF commitVars, logVars, counters, treeVars, stampVars
<1>d. /\ rpc[r] = "csn" /\ rpc'[r] = "xmax" /\ asOf'[r] = {x \in Xids : HasCsn(x)}
      /\ snap' = [snap EXCEPT ![r].csn = nextCsn]
  BY <1>a DEF ReadNextCsn, RGoto
<1>e. snap'[r].csn = nextCsn /\ snap'[r].xmin = snap[r].xmin BY <1>a, <1>d DEF Snapshots
<1>f. /\ "csn" \notin Checking /\ "xmax" \notin Checking /\ "xmax" \in SnapRead
      /\ "csn" \in Protected /\ "xmax" \in Protected
      /\ "xmax" \notin {"ready"} \cup Checking
  BY DEF Checking, SnapRead, Protected
<1>g. XminOf(r) /\ WalkOf(r) /\ AskOf(r) BY DEF ReaderInv
<1>h. TypeInv /\ Trees /\ Csns BY DEF CommitInv
<1>1. XminOf(r)' BY <1>b, <1>c, <1>d, <1>e, <1>f, <1>g DEF XminOf, Cached
<1>2. WalkOf(r)' /\ AskOf(r)' BY <1>b, <1>d, <1>f, <1>g, NotChecking
<1>3. ListOf(r)' BY <1>d, <1>f DEF ListOf
<1>4. SnapOf(r)'
  <2>1. \A x \in asOf'[r] : CsnBelow(x, nextCsn)
    <3> TAKE x \in asOf'[r]
    <3>1. x \in Xids /\ HasCsn(x) BY <1>d
    <3>2. CASE IsCommitted(csnlog[x]) BY <1>h, <3>1, <3>2 DEF CsnBelow, Csns
    <3>3. ASSUME NEW v \in Writers, x \in stamp[v], IsCommitted(stampCsn[v])
          PROVE  CsnBelow(x, nextCsn)
      <4>1. pc[v] \in {"bound", "item"} BY <1>h, <3>3 DEF Trees, TreeOf
      <4>2. stampCsn[v] # Aborted BY <3>3, SMT DEF IsCommitted, Aborted, Frozen
      <4>3. stampCsn[v] < nextCsn BY <1>h, <4>1, <4>2 DEF Csns, CommitOf
      <4> QED BY <3>3, <4>3 DEF CsnBelow
    <3> QED BY <3>1, <3>2, <3>3 DEF HasCsn
  <2>2. \A x \in Xids \ asOf'[r] : CsnNotBelow(x, nextCsn)
    BY <1>d DEF CsnNotBelow, HasCsn
  <2>3. \A x \in asOf'[r] : parent[x] # InvalidXid => parent[x] \in asOf'[r]
    <3>1. \A x \in Xids : parent[x] # InvalidXid => parent[x] \in Xids BY <1>h, CommitTypes
    <3> QED BY <1>d, <3>1 DEF ParentsHaveCsn
  <2>4. \A x \in Xids : IsCommitted(csnlog[x]) => x \in asOf'[r] BY <1>d DEF HasCsn
  <2>5. FirstNormal <= nextCsn /\ nextCsn <= nextCsn BY <1>h, SMT DEF TypeInv, FirstNormal
  <2>6. /\ \A x \in asOf'[r] : CsnBelow(x, snap[r].csn)'
        /\ \A x \in Xids \ asOf'[r] : CsnNotBelow(x, snap[r].csn)'
    BY <1>c, <1>e, <2>1, <2>2 DEF CsnBelow, CsnNotBelow
  <2> QED BY <1>c, <1>d, <1>e, <2>3, <2>4, <2>5, <2>6 DEF SnapOf
<1> QED BY <1>1, <1>2, <1>3, <1>4 DEF ReaderInv

\* SnapOf does not depend on the list.
LEMMA SnapFrame ==
    ASSUME NEW r \in Readers, SnapOf(r), UNCHANGED commitVars, asOf'[r] = asOf[r],
           snap'[r].csn = snap[r].csn, snap'[r].xmin = snap[r].xmin, rpc[r] \in SnapRead,
           rpc'[r] = "xmax" \/ \A x \in asOf[r] : x < snap'[r].xmax
    PROVE  SnapOf(r)'
<1>a. UNCHANGED <<csnlog, stamp, stampCsn, parent, nextCsn>>
  BY DEF commitVars, logVars, counters, treeVars, stampVars
<1>b. /\ FirstNormal <= snap[r].csn /\ snap[r].csn <= nextCsn
      /\ \A x \in asOf[r] : CsnBelow(x, snap[r].csn)
      /\ \A x \in Xids \ asOf[r] : CsnNotBelow(x, snap[r].csn)
      /\ \A x \in asOf[r] : parent[x] # InvalidXid => parent[x] \in asOf[r]
      /\ \A x \in Xids : x < snap[r].xmin /\ IsCommitted(csnlog[x]) => x \in asOf[r]
  BY DEF SnapOf
<1>1. /\ \A x \in asOf[r] : CsnBelow(x, snap[r].csn)'
      /\ \A x \in Xids \ asOf[r] : CsnNotBelow(x, snap[r].csn)'
  BY <1>a, <1>b DEF CsnBelow, CsnNotBelow
<1> HIDE DEF CsnBelow, CsnNotBelow
<1> QED BY <1>a, <1>b, <1>1 DEF SnapOf

\* It reads polar_latest_completed_xid, which every xid with a CSN has reached.
LEMMA XmaxReadKeeps ==
    ASSUME CommitInv, ReaderType, NEW r \in Readers, ReaderInv(r), ReadLatestCompleted(r)
    PROVE  ReaderInv(r)'
<1>a. /\ snap \in [Readers -> Snapshots] /\ listXid \in [Readers -> Int]
      /\ rpc \in [Readers -> ReaderSteps] /\ snap[r].xmin \in Int /\ asOf[r] \subseteq Xids
      /\ latestCompleted \in Int
  BY ReaderTypes DEF ReaderType, CommitInv, TypeInv
<1>b. UNCHANGED <<commitVars, procXmin, asOf, checkVars, cache>>
  BY DEF ReadLatestCompleted, checkVars
<1>c. UNCHANGED <<csnlog, parent, oldestActive>>
  BY <1>b DEF commitVars, logVars, counters, treeVars
<1>d. /\ rpc[r] = "xmax" /\ snap' = [snap EXCEPT ![r].xmax = latestCompleted + 1]
      /\ \/ rpc'[r] = "list" /\ listXid'[r] = snap[r].xmin
         \/ rpc'[r] = "ready" /\ ~(snap[r].isList /\ snap[r].xmin < latestCompleted + 1)
  BY <1>a DEF ReadLatestCompleted
<1>e. /\ snap'[r].xmax = latestCompleted + 1 /\ snap'[r].xmin = snap[r].xmin
      /\ snap'[r].csn = snap[r].csn /\ snap'[r].isList = snap[r].isList
  BY <1>a, <1>d DEF Snapshots
<1>f. /\ "xmax" \notin Checking /\ "list" \notin Checking /\ "ready" \notin Checking
      /\ {"xmax", "list", "ready"} \subseteq SnapRead /\ {"xmax", "list", "ready"} \subseteq Protected
  BY DEF Checking, SnapRead, Protected
<1>g. XminOf(r) /\ SnapOf(r) /\ WalkOf(r) /\ AskOf(r) BY DEF ReaderInv
<1>1. XminOf(r)'
  <2>1. rpc[r] # "none" /\ rpc'[r] # "none" /\ rpc[r] \in Protected /\ rpc'[r] \in Protected
    BY <1>d, <1>f
  <2> QED BY <1>b, <1>c, <1>e, <1>g, <2>1 DEF XminOf, Cached
<1>2. WalkOf(r)' /\ AskOf(r)'
  <2>1. rpc[r] \notin Checking /\ rpc'[r] \notin Checking BY <1>d, <1>f
  <2> QED BY <1>b, <1>g, <2>1, NotChecking
<1>3. SnapOf(r)'
  <2>1. \A x \in asOf[r] : x < snap'[r].xmax
    <3> TAKE x \in asOf[r]
    <3>1. x \in Xids /\ CsnBelow(x, snap[r].csn) BY <1>a, <1>d, <1>f, <1>g DEF SnapOf
    <3>2. HasCsn(x) BY <3>1 DEF CsnBelow, HasCsn
    <3>3. x <= latestCompleted /\ x \in Int BY <3>1, <3>2, CsnGiven, SMT DEF Xids
    <3> QED BY <1>a, <1>e, <3>3, SMT
  <2>2. rpc[r] \in SnapRead /\ asOf'[r] = asOf[r] BY <1>b, <1>d, <1>f
  <2> QED BY <1>b, <1>e, <1>g, <2>1, <2>2, SnapFrame
<1>4. ListOf(r)'
  <2>1. CASE rpc'[r] = "list"
    <3>1. listXid'[r] = snap'[r].xmin BY <1>d, <1>e, <2>1
    <3>2. \A x \in Xids : ~(snap'[r].xmin <= x /\ x < listXid'[r])
      BY <1>a, <1>e, <3>1, SMT DEF Xids
    <3>3. snap'[r].xmin <= listXid'[r] BY <1>a, <1>e, <3>1, SMT
    <3>4. rpc'[r] \notin {"ready"} \cup Checking BY <2>1, <1>f
    <3> QED BY <3>2, <3>3, <3>4 DEF ListOf
  <2>2. CASE rpc'[r] = "ready"
    <3>1. snap[r].isList => latestCompleted + 1 <= snap[r].xmin BY <1>a, <1>d, <2>2, SMT
    <3>2. \A x \in Xids : ~(snap'[r].xmin <= x /\ snap'[r].isList /\ x < snap'[r].xmax)
      BY <1>a, <1>e, <3>1, SMT DEF Xids
    <3> QED BY <2>2, <3>2 DEF ListOf
  <2> QED BY <1>d, <2>1, <2>2
<1> QED BY <1>1, <1>2, <1>3, <1>4 DEF ReaderInv

\* polar_csnlog_get_running_xids reads one more entry.
LEMMA ListKeeps ==
    ASSUME CommitInv, ReaderType, NEW r \in Readers, ReaderInv(r), ListRunning(r)
    PROVE  ReaderInv(r)'
<1> DEFINE x == listXid[r]
           c == csnlog[x]
           running == IsActive(c) \/ (IsCommitted(c) /\ c >= snap[r].csn)
           full == running /\ Cardinality(snap[r].list) = ListMax
<1>a. /\ snap \in [Readers -> Snapshots] /\ listXid \in [Readers -> Int]
      /\ rpc \in [Readers -> ReaderSteps] /\ snap[r].xmin \in Int /\ asOf[r] \subseteq Xids
      /\ x \in Int /\ snap[r].list \subseteq Int /\ snap[r].csn \in Int /\ snap[r].xmax \in Int
  BY ReaderTypes DEF ReaderType
<1>b. UNCHANGED <<commitVars, procXmin, asOf, checkVars, cache>>
  BY DEF ListRunning, checkVars
<1>c. UNCHANGED <<csnlog, parent, oldestActive>>
  BY <1>b DEF commitVars, logVars, counters, treeVars
<1>d. /\ rpc[r] = "list"
      /\ snap' = [snap EXCEPT ![r].overflowed = full,
                              ![r].list = IF running /\ ~full THEN @ \cup {x} ELSE @]
      /\ \/ rpc'[r] = "ready" /\ (full \/ x + 1 = snap[r].xmax)
         \/ rpc'[r] = "list" /\ listXid'[r] = x + 1 /\ ~full
  BY <1>a DEF ListRunning
<1> HIDE DEF full, running, c
<1>e. /\ snap'[r].xmax = snap[r].xmax /\ snap'[r].xmin = snap[r].xmin
      /\ snap'[r].csn = snap[r].csn /\ snap'[r].isList = snap[r].isList
      /\ snap'[r].overflowed = full
      /\ snap'[r].list = IF running /\ ~full THEN snap[r].list \cup {x} ELSE snap[r].list
  <2>1. PICK o, l : o = full /\ l = IF running /\ ~full THEN snap[r].list \cup {x} ELSE snap[r].list
    OBVIOUS
  <2>2. snap' = [snap EXCEPT ![r] = [snap[r] EXCEPT !.overflowed = o, !.list = l]]
    BY <1>a, <1>d, <2>1
  <2>3. snap'[r] = [snap[r] EXCEPT !.overflowed = o, !.list = l] BY <1>a, <2>2
  <2>4. snap[r] \in Snapshots BY <1>a
  <2>5. /\ snap'[r].xmax = snap[r].xmax /\ snap'[r].xmin = snap[r].xmin
        /\ snap'[r].csn = snap[r].csn /\ snap'[r].isList = snap[r].isList
        /\ snap'[r].overflowed = o /\ snap'[r].list = l
    BY <2>3, <2>4 DEF Snapshots
  <2> QED BY <2>1, <2>5
<1>f. /\ "list" \notin Checking /\ "ready" \notin Checking
      /\ {"list", "ready"} \subseteq SnapRead /\ {"list", "ready"} \subseteq Protected
  BY DEF Checking, SnapRead, Protected
<1>g. XminOf(r) /\ SnapOf(r) /\ WalkOf(r) /\ ListOf(r) /\ AskOf(r) BY DEF ReaderInv
<1>1. XminOf(r)'
  <2>1. rpc[r] # "none" /\ rpc'[r] # "none" /\ rpc[r] \in Protected /\ rpc'[r] \in Protected
    BY <1>d, <1>f
  <2> QED BY <1>b, <1>c, <1>e, <1>g, <2>1 DEF XminOf, Cached
<1>2. WalkOf(r)' /\ AskOf(r)'
  <2>1. rpc[r] \notin Checking /\ rpc'[r] \notin Checking BY <1>d, <1>f
  <2> QED BY <1>b, <1>g, <2>1, NotChecking
<1>3. SnapOf(r)'
  <2>1. \A y \in asOf[r] : y < snap'[r].xmax BY <1>d, <1>e, <1>f, <1>g DEF SnapOf
  <2>2. rpc[r] \in SnapRead /\ asOf'[r] = asOf[r] BY <1>b, <1>d, <1>f
  <2> QED BY <1>b, <1>e, <1>g, <2>1, <2>2, SnapFrame
<1>4. x \in Xids /\ ~running => Unlisted(r, x)
  <2> SUFFICES ASSUME x \in Xids, ~running PROVE Unlisted(r, x) OBVIOUS
  <2>1. c \in Int BY CommitTypes DEF CommitInv, c
  <2>2. c = Aborted \/ IsSubTrans(c) \/ (IsCommitted(c) /\ c < snap[r].csn)
    BY <1>a, <2>1, SMT DEF running, IsActive, IsSubTrans, IsCommitted, InProgress, Aborted, Committing,
       Frozen
  <2>3. CASE IsSubTrans(c) BY <2>3, SubTransEntry DEF c, Unlisted
  <2>4. CASE IsCommitted(c) /\ c < snap[r].csn
    <3>1. x \in asOf[r]
      <4>1. x \notin asOf[r] => CsnNotBelow(x, snap[r].csn)
        BY <1>d, <1>f, <1>g DEF SnapOf
      <4>2. CsnNotBelow(x, snap[r].csn) => snap[r].csn <= c BY <2>4 DEF CsnNotBelow, c
      <4> QED BY <1>a, <2>1, <2>4, <4>1, <4>2, SMT
    <3> QED BY <2>4, <3>1 DEF Unlisted, c
  <2> QED BY <2>2, <2>3, <2>4 DEF Unlisted, c
<1>5. \A y \in Xids \ snap'[r].list : snap[r].xmin <= y /\ y < x + 1 /\ ~full => Unlisted(r, y)'
  <2> SUFFICES ASSUME NEW y \in Xids, y \notin snap'[r].list, snap[r].xmin <= y, y < x + 1, ~full
               PROVE  Unlisted(r, y)
    BY <1>b, <1>c DEF Unlisted
  <2>1. CASE y = x
    <3>1. ~running BY <1>e, <2>1
    <3> QED BY <1>4, <2>1, <3>1
  <2>2. CASE y # x
    <3>1. y < x BY <1>a, <2>2, SMT DEF Xids
    <3>2. y \notin snap[r].list BY <1>e
    <3> QED BY <1>d, <1>g, <3>1, <3>2 DEF ListOf
  <2> QED BY <2>1, <2>2
<1>6. ListOf(r)'
  <2>1. CASE rpc'[r] = "list"
    <3>1. listXid'[r] = x + 1 /\ ~full BY <1>d, <2>1
    <3>2. snap'[r].xmin <= listXid'[r]
      <4>1. snap[r].xmin <= x BY <1>d, <1>g DEF ListOf
      <4> QED BY <1>a, <1>e, <3>1, <4>1, SMT
    <3>3. rpc'[r] \notin {"ready"} \cup Checking BY <2>1, <1>f
    <3> QED BY <1>5, <1>e, <3>1, <3>2, <3>3 DEF ListOf
  <2>2. CASE rpc'[r] = "ready"
    <3>1. ~snap'[r].overflowed => snap'[r].xmax = x + 1 /\ ~full BY <1>d, <1>e, <2>2
    <3> QED BY <1>5, <1>e, <2>2, <3>1 DEF ListOf
  <2> QED BY <1>d, <2>1, <2>2
<1> QED BY <1>1, <1>2, <1>3, <1>6 DEF ReaderInv

-----------------------------------------------------------------------------
(* The steps of the checkpointer.                                          *)

\* Nothing but RecheckOldestActive protects a reader, and it does so with the
\* oldest active xid of that moment.
LEMMA XminProtects ==
    ASSUME ReaderType, NEW r \in Readers, Reader(r), ReaderInv(r), rpc'[r] \in Protected
    PROVE  \/ rpc[r] \in Protected /\ procXmin'[r] = procXmin[r]
           \/ procXmin'[r] = oldestActive
<1>a. rpc \in [Readers -> ReaderSteps] /\ procXmin \in [Readers -> Int] BY DEF ReaderType
<1>b. /\ {"csn", "xmax", "list", "ready", "clog", "down", "up", "wait", "done"} \subseteq Protected
      /\ "none" \notin Protected /\ "announce" \notin Protected /\ "recheck" \notin Protected
  BY DEF Protected, SnapRead, Checking
<1> USE DEF RGoto
<1>1. CASE ReadOldestActive(r)
  <2>1. rpc[r] = "none" => procXmin[r] = InvalidXid BY DEF ReaderInv, XminOf
  <2>2. rpc[r] = "none" => rpc'[r] = "announce" BY <1>1, <1>a, <2>1 DEF ReadOldestActive
  <2>3. rpc[r] = "ready" /\ UNCHANGED procXmin BY <1>1, <1>b, <2>2 DEF ReadOldestActive
  <2> QED BY <1>b, <2>3
<1>2. CASE AnnounceXmin(r) \/ DropSnapshot(r)
  <2>1. rpc'[r] \in {"recheck", "none"} BY <1>2, <1>a DEF AnnounceXmin, DropSnapshot
  <2> QED BY <1>b, <2>1
<1>3. CASE RecheckOldestActive(r) BY <1>3, <1>a DEF RecheckOldestActive
<1>4. CASE ReadNextCsn(r) \/ ReadLatestCompleted(r) \/ ListRunning(r)
  <2>1. UNCHANGED procXmin /\ rpc[r] \in {"csn", "xmax", "list"}
    BY <1>4 DEF ReadNextCsn, ReadLatestCompleted, ListRunning
  <2> QED BY <1>b, <2>1
<1>5. CASE \E x \in Xids : XidVisible(r, x) \/ CommittedXidVisible(r, x)
  <2>1. rpc[r] = "ready" /\ UNCHANGED procXmin
    BY <1>5 DEF XidVisible, CommittedXidVisible, Ask
  <2> QED BY <1>b, <2>1
<1>6. CASE FetchFromClog(r) \/ WalkDown(r) \/ WalkUp(r) \/ WaitForCommit(r) \/ Answer(r)
  <2>1. rpc[r] \in {"clog", "down", "up", "wait", "done"} /\ UNCHANGED procXmin
    BY <1>6 DEF FetchFromClog, WalkDown, WalkUp, WaitForCommit, Answer
  <2> QED BY <1>b, <2>1
<1> QED BY <1>1, <1>2, <1>3, <1>4, <1>5, <1>6 DEF Reader

\* A step of the checkpoint: it cuts off no more than the xmin of each reader it
\* has scanned, and no more than the oldest active xid of its beginning, which the
\* readers it scanned too early recheck against.
LEMMA CheckpointStep ==
    ASSUME SnapInv, Checkpointer
    PROVE  SnapInv'
<1>a. CommitInv /\ ParentsHaveCsn /\ ReaderType /\ CkptInv /\ \A q \in Readers : ReaderInv(q)
  BY DEF SnapInv
<1>b. UNCHANGED <<commitVars, readVars>>
  BY DEF Checkpointer, CheckpointBegin, HorizonBegin, HorizonScan, Truncate
<1>c. /\ UNCHANGED <<rpc, procXmin, snap, asOf, listXid, asked, check, walk, found, waited, cache>>
      /\ UNCHANGED <<csnlog, parent, stamp, stampCsn, oldestActive>>
  BY <1>b DEF readVars, checkVars, commitVars, logVars, treeVars, stampVars, counters
<1>d. /\ ckpt \in Checkpoints /\ ckpt.cap \in Int /\ ckpt.horizon \in Int /\ ckpt.truncated \in Int
      /\ ckpt.count \in Int /\ ckpt.toScan \subseteq Writers \cup Readers
  BY <1>a DEF ReaderType, Checkpoints
<1>e. /\ oldestActive \in Int /\ latestCompleted \in Int
      /\ \A w \in Writers : procXid[w] \in Int
      /\ \A q \in Readers : procXmin[q] \in Int
      /\ ckpt.count + 1 \in Int /\ latestCompleted + 1 \in Int
  <2>1. procXid \in [Writers -> 0 .. MaxXid] /\ procXmin \in [Readers -> Int]
    BY <1>a DEF CommitInv, TypeInv, ReaderType
  <2>2. \A n \in 0 .. MaxXid : n \in Int BY SMT
  <2>3. oldestActive \in Int /\ latestCompleted \in Int BY <1>a, CommitTypes DEF CommitInv
  <2>4. ckpt.count + 1 \in Int /\ latestCompleted + 1 \in Int BY <1>d, <2>3, SMT
  <2> QED BY <2>1, <2>2, <2>3, <2>4
<1>f. Writers \cap Readers = {} /\ InvalidXid \in Int
  BY CsnSnapshotAssumption, SMT DEF InvalidXid
<1>1. CommitInv' BY <1>a, <1>b, CommitInvStep
<1>2. ParentsHaveCsn' BY <1>a, <1>c DEF ParentsHaveCsn, HasCsn
<1>3. \A q \in Readers : ReaderInv(q)' BY <1>a, <1>b, <1>c, ReaderSame DEF RSame
<1>4. ckpt' \in Checkpoints /\ CkptInv'
  <2>1. CASE CheckpointBegin
    <3>1. ckpt' = [ckpt EXCEPT !.pc = "redo", !.cap = oldestActive, !.count = @ + 1]
      BY <2>1 DEF CheckpointBegin
    <3>2. ckpt' \in Checkpoints BY <1>d, <1>e, <3>1 DEF Checkpoints
    <3>3. /\ ckpt'.pc = "redo" /\ ckpt'.cap = oldestActive /\ ckpt'.truncated = ckpt.truncated
      BY <1>d, <3>1 DEF Checkpoints
    <3> QED BY <1>a, <1>c, <1>e, <3>2, <3>3, SMT DEF CkptInv
  <2>2. CASE HorizonBegin
    <3>1. ckpt' = [ckpt EXCEPT !.pc = "scan", !.horizon = latestCompleted + 1,
                               !.toScan = Writers \cup Readers] /\ ckpt.pc = "redo"
      BY <2>2 DEF HorizonBegin
    <3>2. ckpt' \in Checkpoints BY <1>d, <1>e, <3>1 DEF Checkpoints
    <3>3. /\ ckpt'.pc = "scan" /\ ckpt'.cap = ckpt.cap /\ ckpt'.truncated = ckpt.truncated
          /\ ckpt'.toScan = Writers \cup Readers
      BY <1>d, <3>1 DEF Checkpoints
    <3> QED BY <1>a, <1>c, <3>1, <3>2, <3>3 DEF CkptInv
  <2>3. CASE HorizonScan
    <3> DEFINE X(p) == CASE p \in Writers -> procXid[p]
                         [] p \in Readers \ Vacuuming -> procXmin[p]
                         [] p \in Vacuuming -> InvalidXid
    <3>1. ckpt.pc = "scan" /\ \E p \in ckpt.toScan :
            ckpt' = [ckpt EXCEPT !.toScan = @ \ {p},
                        !.horizon = IF X(p) # InvalidXid /\ X(p) < @ THEN X(p) ELSE @]
      BY <2>3 DEF HorizonScan
    <3>2. PICK p \in ckpt.toScan :
            ckpt' = [ckpt EXCEPT !.toScan = @ \ {p},
                        !.horizon = IF X(p) # InvalidXid /\ X(p) < @ THEN X(p) ELSE @]
      BY <3>1
    <3>3. X(p) \in Int /\ (p \in Readers \ Vacuuming => X(p) = procXmin[p])
      <4>1. p \in Writers => X(p) = procXid[p] BY <1>f, CsnSnapshotAssumption
      <4>2. p \in Readers \ Vacuuming => X(p) = procXmin[p] BY <1>f
      <4>3. p \in Vacuuming => X(p) = InvalidXid BY <1>f, CsnSnapshotAssumption
      <4>4. p \in Writers \/ p \in Readers \ Vacuuming \/ p \in Vacuuming BY <1>d
      <4> HIDE DEF X
      <4> QED BY <1>e, <1>f, <4>1, <4>2, <4>3, <4>4
    <3> HIDE DEF X
    <3>4. ckpt' \in Checkpoints BY <1>d, <3>2, <3>3 DEF Checkpoints
    <3> DEFINE h == IF X(p) # InvalidXid /\ X(p) < ckpt.horizon THEN X(p) ELSE ckpt.horizon
    <3>h. /\ h \in Int /\ h <= ckpt.horizon
          /\ X(p) # InvalidXid => h <= X(p)
      BY <1>d, <3>3, SMT
    <3>g. /\ ckpt'.pc = "scan" /\ ckpt'.cap = ckpt.cap /\ ckpt'.truncated = ckpt.truncated
          /\ ckpt'.toScan = ckpt.toScan \ {p} /\ ckpt'.horizon = h
      BY <1>d, <3>1, <3>2 DEF Checkpoints
    <3> HIDE DEF h
    <3>5. /\ ckpt'.pc = "scan" /\ ckpt'.cap = ckpt.cap /\ ckpt'.truncated = ckpt.truncated
          /\ ckpt'.toScan = ckpt.toScan \ {p} /\ ckpt'.horizon <= ckpt.horizon
          /\ ckpt'.horizon \in Int
          /\ X(p) # InvalidXid => ckpt'.horizon <= X(p)
      BY <3>h, <3>g
    <3>6. ASSUME NEW q \in Readers \ Vacuuming, rpc[q] \in Protected
          PROVE  ckpt.cap <= procXmin[q] \/ ckpt'.horizon <= procXmin[q] \/ q \in ckpt'.toScan
      <4>1. ckpt.cap <= procXmin[q] \/ ckpt.horizon <= procXmin[q] \/ q \in ckpt.toScan
        BY <1>a, <3>1, <3>6 DEF CkptInv
      <4>2. CASE q = p
        <5>1. 1 <= procXmin[q] BY <1>a, <3>6 DEF ReaderInv, XminOf
        <5>2. X(p) = procXmin[q] /\ X(p) # InvalidXid BY <3>3, <4>2, <5>1, SMT DEF InvalidXid
        <5> QED BY <3>5, <5>2
      <4>3. CASE q # p
        <5>1. procXmin[q] \in Int BY <1>e
        <5> QED BY <1>d, <3>5, <4>1, <4>3, <5>1, SMT
      <4> QED BY <4>2, <4>3
    <3> QED BY <1>a, <1>c, <3>1, <3>4, <3>5, <3>6 DEF CkptInv
  <2>4. CASE Truncate
    <3> DEFINE cut == IF ckpt.cap < ckpt.horizon THEN ckpt.cap ELSE ckpt.horizon
    <3>1. /\ ckpt.pc = "scan" /\ ckpt.toScan = {}
          /\ ckpt' = [ckpt EXCEPT !.pc = "idle", !.truncated = Later(@, cut),
                                  !.cap = InvalidXid, !.horizon = InvalidXid]
      BY <2>4 DEF Truncate
    <3>2. cut \in Int /\ cut <= ckpt.cap /\ cut <= ckpt.horizon BY <1>d, SMT
    <3>3. ckpt' \in Checkpoints BY <1>d, <1>f, <3>1, <3>2 DEF Checkpoints, Later
    <3>4. ckpt'.pc = "idle" /\ ckpt'.truncated = Later(ckpt.truncated, cut)
      BY <1>d, <3>1 DEF Checkpoints
    <3> HIDE DEF cut
    <3>5. ckpt'.truncated <= oldestActive
      <4>1. ckpt.truncated <= oldestActive /\ ckpt.cap <= oldestActive BY <1>a, <3>1 DEF CkptInv
      <4> QED BY <1>d, <1>e, <3>2, <3>4, <4>1, SMT DEF Later
    <3>6. ASSUME NEW q \in Readers \ Vacuuming, rpc[q] \in Protected
          PROVE  ckpt'.truncated <= procXmin[q]
      <4>1. /\ ckpt.truncated <= procXmin[q]
            /\ ckpt.cap <= procXmin[q] \/ ckpt.horizon <= procXmin[q]
        BY <1>a, <3>1, <3>6 DEF CkptInv
      <4>2. procXmin[q] \in Int BY <1>e
      <4> QED BY <1>d, <3>2, <3>4, <4>1, <4>2, SMT DEF Later
    <3> QED BY <1>a, <1>c, <3>3, <3>4, <3>5, <3>6 DEF CkptInv
  <2> QED BY <2>1, <2>2, <2>3, <2>4 DEF Checkpointer
<1>5. ReaderType' BY <1>a, <1>c, <1>4 DEF ReaderType
<1> QED BY <1>1, <1>2, <1>3, <1>4, <1>5 DEF SnapInv
=============================================================================
