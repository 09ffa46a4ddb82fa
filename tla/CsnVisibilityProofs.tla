------------------------ MODULE CsnVisibilityProofs ------------------------
(***************************************************************************)
(* The invariants and the action property of CsnSnapshot, proved for any   *)
(* number of writers, readers and checkpoints.  The steps of a visibility  *)
(* check keep SnapInv, from its beginning (AskKeeps) over the lookup in    *)
(* the clog or down to the parent in the csnlog and back (WalkDownKeeps,   *)
(* WalkUpKeeps) to its answer; the invariants follow from it.  TypeOK      *)
(* needs Bounds besides: where the list of a snapshot is read, and that it *)
(* is left when the array is full.                                         *)
(***************************************************************************)
EXTENDS CsnSnapshotProofs

\* A leaf that names no prover is for Zenon.
USE Zenon

-----------------------------------------------------------------------------
(* A visibility check.                                                     *)

\* A visibility check changes nothing of the snapshot.
LEMMA CheckFrame ==
    ASSUME NEW r \in Readers, ReaderInv(r), UNCHANGED <<commitVars, procXmin, snap, asOf, listXid>>,
           rpc[r] \in {"ready"} \cup Checking, rpc'[r] \in {"ready"} \cup Checking,
           cache'[r] = cache[r] \/ Cached(r, cache[r].xid, cache[r].csn)'
    PROVE  XminOf(r)' /\ SnapOf(r)' /\ ListOf(r)'
<1>a. UNCHANGED <<csnlog, parent, oldestActive>>
  BY DEF commitVars, logVars, counters, treeVars
<1>b. \A s \in {"ready"} \cup Checking :
         s \in Protected /\ s \in SnapRead /\ s # "none" /\ s # "xmax" /\ s # "list"
  BY DEF Protected, SnapRead, Checking
<1>c. XminOf(r) /\ SnapOf(r) /\ ListOf(r) BY DEF ReaderInv
<1>1. XminOf(r)'
  <2>1. CASE cache'[r] = cache[r] BY <1>a, <1>b, <1>c, <2>1 DEF XminOf, Cached
  <2>2. CASE Cached(r, cache[r].xid, cache[r].csn)'
    BY <1>a, <1>b, <1>c, <2>2 DEF XminOf
  <2> QED BY <2>1, <2>2
<1>2. SnapOf(r)' BY <1>b, <1>c, SnapFrame DEF SnapOf
<1>3. ListOf(r)'
  <2>1. \A x \in Xids : Unlisted(r, x)' = Unlisted(r, x) BY <1>a DEF Unlisted
  <2>2. \A x \in Xids \ snap[r].list : snap[r].xmin <= x /\ snap[r].isList /\ ~snap[r].overflowed
           /\ x < snap[r].xmax => Unlisted(r, x)
    BY <1>c DEF ListOf
  <2> QED BY <1>b, <2>1, <2>2 DEF ListOf
<1> QED BY <1>1, <1>2, <1>3

\* What a kind of check takes for granted of its xid.
HowOk(r, x, how) ==
    /\ how = "yes" => x \in asOf[r] \/ (snap[r].isList /\ parent[x] # InvalidXid)
    /\ how = "no" => snap[r].isList \/ x \notin asOf[r]
    /\ how = "didcommit" => snap[r].isList /\ Unlisted(r, x)
    /\ how = "committed" => IsCommitted(csnlog[x])

\* An xid that has its CSN below that of the snapshot is in asOf.
LEMMA BelowIsAsOf ==
    ASSUME CommitInv, ReaderType, NEW r \in Readers, SnapOf(r), rpc[r] \in SnapRead, NEW x \in Xids,
           IsCommitted(csnlog[x]), csnlog[x] < snap[r].csn
    PROVE  x \in asOf[r]
<1>1. csnlog[x] \in Int /\ snap[r].csn \in Int BY CommitTypes, ReaderTypes DEF CommitInv
<1>2. x \notin asOf[r] => CsnNotBelow(x, snap[r].csn) BY DEF SnapOf
<1>3. CsnNotBelow(x, snap[r].csn) => snap[r].csn <= csnlog[x] BY DEF CsnNotBelow
<1> QED BY <1>1, <1>2, <1>3, SMT

\* What the lookup of the asked xid returns.
Result(r, x, c) ==
    \/ c = InProgress /\ x \notin asOf[r]
    \/ c = Aborted /\ csnlog[x] = Aborted
    \/ /\ IsCommitted(c) /\ IsCommitted(csnlog[x])
       /\ c = csnlog[x] \/ (x \in asOf[r] /\ c < snap[r].csn)

\* What the cache holds is a right result.
LEMMA CachedResult ==
    ASSUME CommitInv, ReaderType, NEW r \in Readers, ReaderInv(r),
           rpc[r] \in {"ready"} \cup Checking, NEW x \in Xids, NEW c, Cached(r, x, c)
    PROVE  Result(r, x, c) /\ c # InProgress
<1>a. SnapOf(r) /\ rpc[r] \in SnapRead /\ rpc[r] # "none"
  BY DEF ReaderInv, SnapRead, Checking
<1>b. csnlog[x] \in Int /\ snap[r].csn \in Int BY CommitTypes, ReaderTypes DEF CommitInv
<1>1. CASE IsFinal(csnlog[x]) /\ c = csnlog[x]
  <2>1. c # InProgress BY <1>1, <1>b, SMT DEF IsFinal, IsCommitted, Aborted, Frozen, InProgress
  <2> QED BY <1>1, <2>1 DEF IsFinal, Result
<1>2. CASE c = Frozen /\ IsCommitted(csnlog[x]) /\ x < snap[r].xmin
  <2>1. x \in asOf[r] BY <1>a, <1>2 DEF SnapOf
  <2>2. FirstNormal <= snap[r].csn BY <1>a DEF SnapOf
  <2>3. IsCommitted(c) /\ c < snap[r].csn /\ c # InProgress
    BY <1>2, <1>b, <2>2, SMT DEF IsCommitted, Frozen, FirstNormal, InProgress
  <2> QED BY <1>2, <2>1, <2>3 DEF Result
<1> QED BY <1>a, <1>1, <1>2 DEF Cached

\* A check begins.
LEMMA AskKeeps ==
    ASSUME CommitInv, ReaderType, NEW r \in Readers, ReaderInv(r), NEW x \in Xids,
           NEW how \in Checks, HowOk(r, x, how), Ask(r, x, how)
    PROVE  ReaderInv(r)'
<1>a. /\ rpc \in [Readers -> ReaderSteps] /\ asked \in [Readers -> 0 .. MaxXid]
      /\ check \in [Readers -> Checks] /\ walk \in [Readers -> SUBSET Xids]
      /\ found \in [Readers -> Int]
  BY DEF ReaderType
<1>b. /\ UNCHANGED <<commitVars, procXmin, snap, asOf, listXid, waited, cache>>
      /\ rpc[r] = "ready" /\ Begin(r, x, how) /\ asked'[r] = x /\ check'[r] = how
      /\ x < nextXid
  BY <1>a DEF Ask, Written
<1>c. UNCHANGED <<csnlog, parent, nextXid>>
  BY <1>b DEF commitVars, logVars, counters, treeVars
<1>d. SnapOf(r) /\ XminOf(r) /\ WalkOf(r) /\ AskOf(r) BY DEF ReaderInv
<1>e. walk[r] = {} /\ ~waited[r] /\ found[r] = InProgress /\ ~waited'[r]
  BY <1>b, <1>d DEF WalkOf, AskOf, Checking
<1>f. rpc[r] \in SnapRead /\ rpc[r] \in {"ready"} \cup Checking BY <1>b DEF SnapRead
<1>g. csnlog[x] \in Int /\ snap[r].csn \in Int /\ procXmin[r] \in Int /\ x \in Int
  BY CommitTypes, ReaderTypes DEF CommitInv
<1>h. how \in {"yes", "no"} <=> ~(how \in {"visible", "didcommit", "committed"})
  BY DEF Checks
<1>i. HowOk(r, x, how)' BY <1>b, <1>c DEF HowOk, Unlisted
<1>1. CASE rpc'[r] = "done"
  <2>1. walk'[r] = {} BY <1>1, <1>b, <1>e, <1>a DEF Begin
  <2>2. /\ how \in {"yes", "no"} => found'[r] = InProgress
        /\ how \notin {"yes", "no"} =>
              Result(r, x, found'[r]) /\ found'[r] # InProgress
    <3>1. CASE how \in {"yes", "no"} BY <1>a, <1>b, <1>e, <3>1 DEF Begin
    <3>2. CASE how \notin {"yes", "no"} /\ cache[r].xid = x
      <4>1. found'[r] = cache[r].csn BY <1>a, <1>b, <3>2 DEF Begin
      <4>2. x # InvalidXid BY SMT DEF Xids, InvalidXid
      <4>3. Cached(r, x, found'[r]) BY <1>d, <3>2, <4>1, <4>2 DEF XminOf
      <4> QED BY <1>f, <3>2, <4>3, CachedResult
    <3>3. CASE how \notin {"yes", "no"} /\ cache[r].xid # x
      <4> DEFINE bound == upperBound[UBSlot(x)]
      <4>1. how = "committed" /\ bound < snap[r].csn /\ found'[r] = bound
        <5>1. rpc'[r] # "done" \/ (how = "committed" /\ bound < snap[r].csn)
          BY <1>a, <1>b, <3>3 DEF Begin
        <5>2. how = "committed" /\ bound < snap[r].csn => found' = [found EXCEPT ![r] = bound]
          BY <1>b, <3>3 DEF Begin
        <5> QED BY <1>1, <1>a, <5>1, <5>2
      <4>2. IsCommitted(csnlog[x]) BY <4>1 DEF HowOk
      <4>3. FirstNormal <= csnlog[x] /\ csnlog[x] <= bound BY <4>2 DEF CommitInv, Csns
      <4>4. bound \in Int
        <5>1. upperBound \in [0 .. UBSlot(MaxXid) -> Int] BY DEF CommitInv, TypeInv
        <5> QED BY <5>1, UpperBoundSlot
      <4> HIDE DEF bound
      <4>5. csnlog[x] < snap[r].csn /\ IsCommitted(bound) /\ bound # InProgress
        BY <1>g, <4>1, <4>3, <4>4, SMT DEF IsCommitted, FirstNormal, Frozen, InProgress
      <4>6. x \in asOf[r] BY <1>d, <1>f, <4>2, <4>5, BelowIsAsOf
      <4> QED BY <3>3, <4>1, <4>2, <4>5, <4>6 DEF Result
    <3> QED BY <3>1, <3>2, <3>3
  <2>3. found'[r] # Committing
    <3>1. how \notin {"yes", "no"} => found'[r] = Aborted \/ IsCommitted(found'[r])
      BY <2>2 DEF Result
    <3> QED BY <2>2, <3>1, SMT DEF InProgress, IsCommitted, Frozen, Aborted, Committing
  <2>4. "done" \in Checking BY DEF Checking
  <2>5. WalkOf(r)'
    BY <1>1, <1>b, <1>c, <1>e, <2>1, <2>4 DEF WalkOf, Settled, HowOk
  <2>6. AskOf(r)'
    <3>1. Looked(r)' => how \notin {"yes", "no"} BY <1>b, <1>h DEF Looked
    <3>2. how \notin {"yes", "no"} =>
             \/ found'[r] = Aborted /\ csnlog[x] = Aborted
             \/ /\ IsCommitted(found'[r]) /\ IsCommitted(csnlog[x])
                /\ found'[r] = csnlog[x] \/ (x \in asOf[r] /\ found'[r] < snap[r].csn)
      BY <2>2 DEF Result
    <3> HIDE DEF Looked
    <3> QED BY <1>1, <1>b, <1>c, <1>i, <2>3, <2>4, <3>1, <3>2 DEF AskOf, HowOk
  <2>7. XminOf(r)' /\ SnapOf(r)' /\ ListOf(r)'
    BY <1>1, <1>b, <1>f, <2>4, CheckFrame
  <2> QED BY <2>5, <2>6, <2>7 DEF ReaderInv
<1>2. CASE rpc'[r] # "done"
  <2>1. /\ how \notin {"yes", "no"}
        /\ \/ rpc'[r] = "clog" /\ x < procXmin[r] /\ walk'[r] = {}
           \/ rpc'[r] = "down" /\ ~(x < procXmin[r]) /\ walk'[r] = {x}
    BY <1>2, <1>a, <1>b DEF Begin
  <2>2. "clog" \in Checking /\ "down" \in Checking BY DEF Checking
  <2>3. how \in {"visible", "didcommit", "committed"} BY <1>h, <2>1
  <2>4. rpc'[r] = "down" => procXmin[r] <= x BY <1>g, <2>1, SMT
  <2>5. \A y \in walk'[r] : y = x /\ y <= x /\ IsEarliest(y, walk'[r])
    <3>1. x <= x BY <1>g, SMT
    <3> QED BY <2>1, <3>1 DEF IsEarliest
  <2>6. WalkOf(r)'
    <3>1. /\ rpc'[r] \notin {"up", "wait", "done"} /\ Looked(r)'
          /\ Settled(r)' => IsCommitted(csnlog[x])
      BY <1>b, <1>e, <2>1, <2>3 DEF Looked, Settled, HowOk
    <3>2. /\ rpc'[r] \notin {"down", "up"} => walk'[r] = {}
          /\ rpc'[r] \in {"down", "up"} => x \in walk'[r] /\ walk'[r] = {x}
      BY <2>1
    <3>3. \A y \in walk'[r] : /\ procXmin[r] <= y /\ y < nextXid /\ y <= x
                              /\ IsEarliest(y, walk'[r])
      BY <1>b, <2>1, <2>4, <2>5
    <3> HIDE DEF Looked, Settled
    <3> QED BY <1>b, <1>c, <1>e, <3>1, <3>2, <3>3 DEF WalkOf
  <2>7. AskOf(r)'
    <3>1. rpc'[r] # "done" /\ rpc'[r] \in Checking /\ (rpc'[r] = "clog" => x < procXmin[r])
      BY <2>1, <2>2, <1>2
    <3> QED BY <1>b, <1>c, <1>i, <3>1 DEF AskOf, HowOk
  <2>8. XminOf(r)' /\ SnapOf(r)' /\ ListOf(r)'
    <3>1. rpc'[r] \in {"ready"} \cup Checking BY <2>1, <2>2
    <3> QED BY <1>b, <1>f, <3>1, CheckFrame
  <2> QED BY <2>6, <2>7, <2>8 DEF ReaderInv
<1> QED BY <1>1, <1>2

\* What is not in the list of a snapshot, and older than its xmax.
LEMMA NotInList ==
    ASSUME CommitInv, ReaderType, NEW r \in Readers, ReaderInv(r), rpc[r] = "ready", NEW x \in Xids,
           snap[r].isList, ~snap[r].overflowed, ~InList(r, x)
    PROVE  Unlisted(r, x)
<1>a. SnapOf(r) /\ XminOf(r) /\ ListOf(r) BY DEF ReaderInv
<1>b. snap[r].xmin \in Int /\ snap[r].xmax \in Int /\ x \in Int /\ oldestActive \in Int
  BY CommitTypes, ReaderTypes DEF CommitInv
<1>c. rpc[r] \in SnapRead BY DEF SnapRead
<1>1. CASE x < snap[r].xmin
  <2>1. x < oldestActive
    <3>1. snap[r].xmin <= oldestActive BY <1>a DEF XminOf
    <3> QED BY <1>1, <1>b, <3>1, SMT
  <2>2. IsFinal(csnlog[x]) BY <2>1 DEF CommitInv, Scans, Ended
  <2> QED BY <1>1, <1>a, <1>c, <2>2 DEF IsFinal, Unlisted, SnapOf
<1>2. CASE ~(x < snap[r].xmin)
  <2>1. snap[r].xmin <= x /\ x < snap[r].xmax /\ x \notin snap[r].list
    BY <1>2, <1>b, SMT DEF InList
  <2> QED BY <1>a, <2>1 DEF ListOf
<1> QED BY <1>1, <1>2

\* A check begins with what the snapshot alone can tell.
LEMMA VisibleKeeps ==
    ASSUME CommitInv, ReaderType, NEW r \in Readers, ReaderInv(r), NEW x \in Xids,
           XidVisible(r, x) \/ CommittedXidVisible(r, x)
    PROVE  ReaderInv(r)'
<1>a. SnapOf(r) BY DEF ReaderInv
<1>b. rpc[r] = "ready" BY DEF XidVisible, CommittedXidVisible, Ask
<1>c. /\ snap[r].isList \in BOOLEAN /\ snap[r].overflowed \in BOOLEAN /\ snap[r].xmax \in Int
      /\ snap[r].xmin \in Int /\ x \in Int /\ csnlog[x] \in Int
  BY CommitTypes, ReaderTypes DEF CommitInv
<1>d. rpc[r] \in SnapRead BY <1>b DEF SnapRead
<1>e. snap[r].isList /\ ~snap[r].overflowed /\ ~InList(r, x) => Unlisted(r, x)
  BY <1>b, NotInList
<1>f. x >= snap[r].xmax => x \notin asOf[r]
  <2>1. x \in asOf[r] => x < snap[r].xmax BY <1>a, <1>b, <1>d DEF SnapOf
  <2> QED BY <1>c, <2>1, SMT
<1>g. x < snap[r].xmin /\ IsCommitted(csnlog[x]) => x \in asOf[r] BY <1>a, <1>d DEF SnapOf
<1>h. {"yes", "no", "visible", "didcommit", "committed"} \subseteq Checks BY DEF Checks
<1>1. PICK how \in Checks : Ask(r, x, how) /\ HowOk(r, x, how)
  <2>1. CASE XidVisible(r, x)
    <3>1. CASE snap[r].isList /\ InList(r, x)
      <4>1. Ask(r, x, "no") BY <2>1, <3>1 DEF XidVisible
      <4>2. HowOk(r, x, "no") BY <3>1 DEF HowOk
      <4> QED BY <1>h, <4>1, <4>2
    <3>2. CASE snap[r].isList /\ ~InList(r, x) /\ ~snap[r].overflowed
      <4>1. Ask(r, x, "didcommit") BY <2>1, <3>2 DEF XidVisible
      <4>2. HowOk(r, x, "didcommit") BY <1>e, <3>2 DEF HowOk
      <4> QED BY <1>h, <4>1, <4>2
    <3>3. CASE ~snap[r].isList \/ (~InList(r, x) /\ snap[r].overflowed)
      <4>1. Ask(r, x, IF x >= snap[r].xmax THEN "no" ELSE "visible")
        BY <2>1, <3>3 DEF XidVisible
      <4>2. CASE x >= snap[r].xmax
        <5>1. Ask(r, x, "no") BY <4>1, <4>2
        <5>2. HowOk(r, x, "no") BY <1>f, <4>2 DEF HowOk
        <5> QED BY <1>h, <5>1, <5>2
      <4>3. CASE ~(x >= snap[r].xmax)
        <5>1. Ask(r, x, "visible") BY <4>1, <4>3
        <5>2. HowOk(r, x, "visible") BY DEF HowOk
        <5> QED BY <1>h, <5>1, <5>2
      <4> QED BY <4>2, <4>3
    <3> QED BY <1>c, <3>1, <3>2, <3>3
  <2>2. CASE CommittedXidVisible(r, x)
    <3>0. IsCommitted(csnlog[x]) /\ csnlog[x] # Aborted
      BY <1>c, <2>2, SMT DEF CommittedXidVisible, IsCommitted, Frozen, Aborted
    <3>1. CASE snap[r].isList /\ InList(r, x)
      <4>1. Ask(r, x, "no") BY <2>2, <3>1 DEF CommittedXidVisible
      <4>2. HowOk(r, x, "no") BY <3>1 DEF HowOk
      <4> QED BY <1>h, <4>1, <4>2
    <3>2. CASE snap[r].isList /\ ~InList(r, x) /\ ~snap[r].overflowed
      <4>1. Ask(r, x, "yes") BY <2>2, <3>2 DEF CommittedXidVisible
      <4>2. HowOk(r, x, "yes") BY <1>e, <3>0, <3>2 DEF HowOk, Unlisted
      <4> QED BY <1>h, <4>1, <4>2
    <3>3. CASE ~snap[r].isList \/ (~InList(r, x) /\ snap[r].overflowed)
      <4>1. Ask(r, x, IF x < snap[r].xmin THEN "yes"
                      ELSE IF x >= snap[r].xmax THEN "no" ELSE "committed")
        BY <2>2, <3>3 DEF CommittedXidVisible
      <4>2. CASE x < snap[r].xmin
        <5>1. Ask(r, x, "yes") BY <4>1, <4>2
        <5>2. HowOk(r, x, "yes") BY <1>g, <3>0, <4>2 DEF HowOk
        <5> QED BY <1>h, <5>1, <5>2
      <4>3. CASE ~(x < snap[r].xmin) /\ x >= snap[r].xmax
        <5>1. Ask(r, x, "no") BY <4>1, <4>3
        <5>2. HowOk(r, x, "no") BY <1>f, <4>3 DEF HowOk
        <5> QED BY <1>h, <5>1, <5>2
      <4>4. CASE ~(x < snap[r].xmin) /\ ~(x >= snap[r].xmax)
        <5>1. Ask(r, x, "committed") BY <4>1, <4>4
        <5>2. HowOk(r, x, "committed") BY <3>0 DEF HowOk
        <5> QED BY <1>h, <5>1, <5>2
      <4> QED BY <4>2, <4>3, <4>4
    <3> QED BY <1>c, <3>1, <3>2, <3>3
  <2> QED BY <2>1, <2>2
<1> QED BY <1>1, AskKeeps

\* What an entry that names no parent tells of its transaction.
LEMMA KnownEntry ==
    ASSUME CommitInv, ReaderType, NEW r \in Readers, SnapOf(r), rpc[r] \in SnapRead,
           NEW x \in Xids, x < nextXid, ~IsSubTrans(csnlog[x])
    PROVE  Known(r, x, csnlog[x])
<1>a. TypeInv /\ Trees /\ Entries BY DEF CommitInv
<1>b. csnlog[x] \in Int BY <1>a, CommitTypes
<1>1. CASE csnlog[x] = InProgress
  <2>1. x \in asOf[r] => HasCsn(x) BY DEF SnapOf, CsnBelow, HasCsn
  <2>2. x \notin asOf[r] BY <1>1, <2>1, CsnGiven
  <2> QED BY <1>1, <2>2 DEF Known
<1>2. CASE csnlog[x] = Committing
  <2>1. ~IsFinal(csnlog[x]) BY <1>2, SMT DEF IsFinal, IsCommitted, Committing, Aborted, Frozen
  <2>2. PICK v \in Writers : x \in tree[v] BY <1>a, <2>1 DEF Entries
  <2>3. Unwritten(v, x) /\ TreeOf(v) BY <1>a, <2>1, <2>2 DEF Entries, EntriesOf, Trees
  <2>4. x # procXid[v] => parent[x] \in Xids
    BY <1>a, <2>2, <2>3 DEF TreeOf, TypeInv
  <2>5. Commits(v)
    BY <1>2, <2>3, <2>4, SMT DEF Unwritten, InProgress, Committing, SubTrans, Xids
  <2> QED BY <1>2, <2>2, <2>5 DEF Known
<1>3. CASE IsFinal(csnlog[x]) BY <1>3 DEF Known
<1> QED BY <1>b, <1>1, <1>2, <1>3, SMT DEF IsFinal, IsCommitted, IsSubTrans, InProgress, Aborted,
                                       Committing, Frozen

\* A lookup ends.
LEMMA FinishKeeps ==
    ASSUME CommitInv, ReaderType, NEW r \in Readers, ReaderInv(r), NEW c, Finish(r, c),
           UNCHANGED <<commitVars, procXmin, snap, asOf, listXid, asked, check, waited>>,
           rpc[r] \in {"clog", "down", "up"}, walk'[r] = {}, Result(r, asked[r], c),
           IsFinal(c) => Cached(r, asked[r], c), Settled(r) => c # InProgress
    PROVE  ReaderInv(r)'
<1>a. /\ rpc \in [Readers -> ReaderSteps] /\ found \in [Readers -> Int]
      /\ cache \in [Readers -> [xid : 0 .. MaxXid, csn : Int]]
  BY DEF ReaderType
<1>b. UNCHANGED <<csnlog, parent, nextXid, oldestActive>>
  BY DEF commitVars, logVars, counters, treeVars
<1>c. rpc'[r] = "done" /\ found'[r] = c BY <1>a DEF Finish
<1>d. WalkOf(r) /\ AskOf(r) BY DEF ReaderInv
<1>e. /\ rpc[r] \in Checking /\ rpc[r] \in Checking \ {"done"} /\ "done" \in Checking
      /\ rpc[r] # "none"
  BY DEF Checking
<1>1. c # Committing
  BY SMT DEF Result, InProgress, Aborted, Committing, IsCommitted, Frozen
<1>2. XminOf(r)' /\ SnapOf(r)' /\ ListOf(r)'
  <2>1. cache'[r] = cache[r] \/ Cached(r, cache[r].xid, cache[r].csn)'
    <3>1. CASE ~IsFinal(c) BY <3>1 DEF Finish
    <3>2. CASE IsFinal(c)
      <4>1. cache'[r] = [xid |-> asked[r], csn |-> c] BY <1>a, <3>2 DEF Finish
      <4>2. cache'[r].xid = asked[r] /\ cache'[r].csn = c BY <4>1, SMT
      <4>3. Cached(r, asked[r], c) BY <3>2
      <4>4. rpc'[r] # "none" /\ UNCHANGED <<csnlog, oldestActive, snap>> BY <1>b, <1>c
      <4> HIDE DEF IsFinal, IsCommitted
      <4> QED BY <1>e, <4>2, <4>3, <4>4 DEF Cached
    <3> QED BY <3>1, <3>2
  <2>2. rpc[r] \in {"ready"} \cup Checking /\ rpc'[r] \in {"ready"} \cup Checking BY <1>c, <1>e
  <2> QED BY <2>1, <2>2, CheckFrame
<1>3. WalkOf(r)'
  <2>1. Settled(r)' = Settled(r) BY DEF Settled
  <2>2. Settled(r) => IsCommitted(csnlog[asked[r]]) BY <1>d, <1>e DEF WalkOf
  <2> HIDE DEF Settled
  <2> QED BY <1>b, <1>c, <2>1, <2>2 DEF WalkOf
<1>4. AskOf(r)'
  <2>1. c = InProgress => check[r] # "committed" BY DEF Settled
  <2>2. \/ c = InProgress /\ asked[r] \notin asOf[r] /\ check[r] # "committed"
        \/ c = Aborted /\ csnlog[asked[r]] = Aborted
        \/ /\ IsCommitted(c) /\ IsCommitted(csnlog[asked[r]])
           /\ c = csnlog[asked[r]] \/ (asked[r] \in asOf[r] /\ c < snap[r].csn)
    BY <2>1 DEF Result
  <2>3. /\ asked[r] \in Xids /\ asked[r] < nextXid
        /\ check[r] = "yes" => asked[r] \in asOf[r] \/ (snap[r].isList /\ parent[asked[r]] # InvalidXid)
        /\ check[r] = "no" => snap[r].isList \/ asked[r] \notin asOf[r]
        /\ check[r] = "didcommit" => snap[r].isList /\ Unlisted(r, asked[r])
    BY <1>d, <1>e DEF AskOf
  <2>4. Unlisted(r, asked[r])' = Unlisted(r, asked[r]) BY <1>b DEF Unlisted
  <2> HIDE DEF Unlisted, Result
  <2> QED BY <1>1, <1>b, <1>c, <1>e, <2>2, <2>3, <2>4 DEF AskOf
<1> QED BY <1>2, <1>3, <1>4 DEF ReaderInv

\* polar_csnlog_get_csn returns.
LEMMA GotKeeps ==
    ASSUME CommitInv, ReaderType, NEW r \in Readers, ReaderInv(r), NEW c \in Int, GotCsn(r, c),
           UNCHANGED <<commitVars, procXmin, snap, asOf, listXid, asked, check, waited>>,
           rpc[r] \in {"down", "up"}, walk'[r] = {}, Known(r, asked[r], c),
           Settled(r) => IsCommitted(c)
    PROVE  ReaderInv(r)'
<1>a. rpc \in [Readers -> ReaderSteps] BY DEF ReaderType
<1>b. UNCHANGED <<csnlog, parent, nextXid, oldestActive, tree, pc, stampCsn>>
  BY DEF commitVars, logVars, counters, treeVars, stampVars
<1>d. WalkOf(r) /\ AskOf(r) BY DEF ReaderInv
<1>e. /\ rpc[r] \in Checking /\ rpc[r] \in Checking \ {"done"} /\ "wait" \in Checking
      /\ "wait" \in Checking \ {"done"}
  BY DEF Checking
<1>1. CASE c = Committing
  <2>1. ~Settled(r) BY <1>1, SMT DEF IsCommitted, Committing, Frozen
  <2>2. ~waited[r] BY <2>1 DEF Settled
  <2>3. rpc'[r] = "wait" /\ UNCHANGED <<found, cache>>
    BY <1>1, <1>a, <2>2 DEF GotCsn
  <2>4. Known(r, asked[r], Committing)' BY <1>1, <1>b DEF Known, Commits
  <2>5. ~Settled(r)' /\ ~waited'[r] BY <2>1, <2>2 DEF Settled
  <2>6. Looked(r)' BY <1>d, <1>e DEF WalkOf, Looked
  <2>7. WalkOf(r)'
    <3>1. procXmin[r] <= asked[r] BY <1>d DEF WalkOf
    <3> HIDE DEF Known, Settled, Looked
    <3> QED BY <2>3, <2>4, <2>5, <2>6, <3>1 DEF WalkOf
  <2>8. AskOf(r)'
    <3>1. /\ asked[r] \in Xids /\ asked[r] < nextXid
          /\ check[r] = "yes" => asked[r] \in asOf[r] \/ (snap[r].isList /\ parent[asked[r]] # InvalidXid)
          /\ check[r] = "no" => snap[r].isList \/ asked[r] \notin asOf[r]
          /\ check[r] = "didcommit" => snap[r].isList /\ Unlisted(r, asked[r])
      BY <1>d, <1>e DEF AskOf
    <3>2. Unlisted(r, asked[r])' = Unlisted(r, asked[r]) BY <1>b DEF Unlisted
    <3> HIDE DEF Unlisted
    <3> QED BY <1>b, <1>e, <2>3, <3>1, <3>2 DEF AskOf
  <2>9. XminOf(r)' /\ SnapOf(r)' /\ ListOf(r)'
    <3>1. rpc[r] \in {"ready"} \cup Checking /\ rpc'[r] \in {"ready"} \cup Checking
      BY <1>e, <2>3
    <3> QED BY <2>3, <3>1, CheckFrame
  <2> QED BY <2>7, <2>8, <2>9 DEF ReaderInv
<1>2. CASE c # Committing
  <2>1. Finish(r, c) BY <1>2 DEF GotCsn
  <2>2. Result(r, asked[r], c) BY <1>2 DEF Known, Result, IsFinal
  <2>3. IsFinal(c) => Cached(r, asked[r], c)
    <3>1. IsFinal(c) => c # InProgress
      BY SMT DEF IsFinal, IsCommitted, Aborted, Frozen, InProgress
    <3> QED BY <1>2, <3>1 DEF Known, Cached
  <2>4. Settled(r) => c # InProgress BY SMT DEF IsCommitted, Frozen, InProgress
  <2>5. rpc[r] \in {"clog", "down", "up"} OBVIOUS
  <2> QED BY <2>1, <2>2, <2>3, <2>4, <2>5, FinishKeeps
<1> QED BY <1>1, <1>2

\* The clog answers for an xid before the reader's xmin.
LEMMA ClogKeeps ==
    ASSUME CommitInv, ReaderType, NEW r \in Readers, ReaderInv(r), FetchFromClog(r)
    PROVE  ReaderInv(r)'
<1> DEFINE x == asked[r]
           c == clog[x]
<1>a. XminOf(r) /\ SnapOf(r) /\ WalkOf(r) /\ AskOf(r) BY DEF ReaderInv
<1>b. rpc[r] = "clog" /\ Finish(r, c)
      /\ UNCHANGED <<commitVars, procXmin, snap, asOf, listXid, asked, check, walk, waited>>
  BY DEF FetchFromClog
<1>c. /\ rpc[r] \in Checking /\ rpc[r] \in SnapRead /\ rpc[r] \in Protected /\ rpc[r] # "none"
  BY <1>b DEF Checking, SnapRead, Protected
<1>d. x \in Xids /\ x < procXmin[r] /\ procXmin[r] <= snap[r].xmin /\ snap[r].xmin <= oldestActive
  BY <1>a, <1>b, <1>c DEF AskOf, XminOf
<1>e. /\ x \in Int /\ procXmin[r] \in Int /\ snap[r].xmin \in Int /\ oldestActive \in Int
      /\ snap[r].csn \in Int /\ csnlog[x] \in Int /\ c \in {InProgress, Aborted, Frozen}
  BY <1>d, CommitTypes, ReaderTypes DEF CommitInv
<1>f. x < snap[r].xmin /\ x < oldestActive BY <1>d, <1>e, SMT
<1>g. IsFinal(csnlog[x]) BY <1>d, <1>f DEF CommitInv, Scans, Ended
<1>h. walk'[r] = {} BY <1>a, <1>b DEF WalkOf
<1>i. Csns BY DEF CommitInv
<1> HIDE DEF x, c
<1>1. CASE IsCommitted(csnlog[x])
  <2>1. c = Frozen BY <1>1, <1>d, <1>i DEF Csns, c
  <2>2. x \in asOf[r] /\ FirstNormal <= snap[r].csn
    BY <1>1, <1>a, <1>c, <1>d, <1>f DEF SnapOf
  <2>3. IsCommitted(c) /\ c < snap[r].csn /\ c # InProgress
    BY <1>e, <2>1, <2>2, SMT DEF IsCommitted, Frozen, FirstNormal, InProgress
  <2>4. Result(r, x, c) BY <1>1, <2>2, <2>3 DEF Result
  <2>5. Cached(r, x, c) BY <1>1, <1>f, <2>1 DEF Cached
  <2> QED BY <1>b, <1>h, <2>3, <2>4, <2>5, FinishKeeps DEF x
<1>2. CASE csnlog[x] = Aborted
  <2>1. c = InProgress \/ c = Aborted BY <1>2, <1>d, <1>e, <1>i DEF Csns, c
  <2>2. x \notin asOf[r]
    <3>1. x \in asOf[r] => HasCsn(x) BY <1>a, <1>c DEF SnapOf, CsnBelow, HasCsn
    <3> QED BY <1>2, <1>d, <3>1, CsnGiven
  <2>3. Result(r, x, c) BY <1>2, <2>1, <2>2 DEF Result
  <2>4. IsFinal(c) => Cached(r, x, c)
    <3>1. ~IsFinal(InProgress) BY SMT DEF IsFinal, IsCommitted, InProgress, Aborted, Frozen
    <3> QED BY <1>2, <2>1, <3>1 DEF Cached, IsFinal
  <2>5. ~Settled(r)
    <3>1. Settled(r) => IsCommitted(csnlog[x]) BY <1>a, <1>c DEF WalkOf, x
    <3>2. ~IsCommitted(Aborted) BY SMT DEF IsCommitted, Aborted, Frozen
    <3> QED BY <1>2, <3>1, <3>2
  <2>6. rpc[r] \in {"clog", "down", "up"} BY <1>b
  <2> QED BY <1>b, <1>h, <2>3, <2>4, <2>5, <2>6, FinishKeeps DEF x
<1> QED BY <1>1, <1>2, <1>g DEF IsFinal

\* The wait for CommitSeqNoLock: the committing transaction has written its CSN.
LEMMA WaitKeeps ==
    ASSUME CommitInv, ReaderType, NEW r \in Readers, ReaderInv(r), WaitForCommit(r)
    PROVE  ReaderInv(r)'
<1>a. /\ rpc \in [Readers -> ReaderSteps] /\ walk \in [Readers -> SUBSET Xids]
      /\ waited \in [Readers -> BOOLEAN]
  BY DEF ReaderType
<1>b. /\ UNCHANGED <<commitVars, procXmin, snap, asOf, listXid, asked, check, found, cache>>
      /\ rpc[r] = "wait" /\ rpc'[r] = "down" /\ walk'[r] = {asked[r]} /\ waited'[r]
      /\ \A w \in Writers : ~HoldsCommitSeqNoLock(w)
  BY <1>a DEF WaitForCommit, RGoto
<1>c. UNCHANGED <<csnlog, parent, nextXid>>
  BY <1>b DEF commitVars, logVars, counters, treeVars
<1>d. XminOf(r) /\ WalkOf(r) /\ AskOf(r) BY DEF ReaderInv
<1>e. {"wait", "down"} \subseteq Checking /\ {"wait", "down"} \subseteq Checking \ {"done"}
  BY DEF Checking
<1>f. rpc[r] \in Checking /\ asked[r] \in Xids /\ asked[r] < nextXid
  BY <1>b, <1>d, <1>e DEF AskOf
<1>g. IsCommitted(csnlog[asked[r]])
  <2>1. Known(r, asked[r], Committing) BY <1>b, <1>d DEF WalkOf
  <2>2. \A w \in Writers : ~Commits(w) BY <1>b DEF Commits, HoldsCommitSeqNoLock
  <2>3. Committing # InProgress /\ ~IsFinal(Committing)
    BY SMT DEF Committing, InProgress, IsFinal, IsCommitted, Aborted, Frozen
  <2> QED BY <2>1, <2>2, <2>3 DEF Known
<1>h. procXmin[r] <= asked[r] BY <1>b, <1>d DEF WalkOf
<1>1. WalkOf(r)'
  <2>1. asked[r] \in Int /\ asked[r] <= asked[r] BY <1>f, SMT DEF Xids
  <2>2. \A y \in walk'[r] : /\ procXmin[r] <= y /\ y < nextXid /\ y <= asked[r]
                            /\ IsEarliest(y, walk'[r])
    BY <1>b, <1>f, <1>h, <2>1 DEF IsEarliest
  <2>3. Looked(r)' BY <1>b, <1>d, <1>e DEF WalkOf, Looked
  <2>4. asked[r] \in walk'[r] BY <1>b
  <2>5. rpc'[r] \in {"down", "done"} /\ rpc'[r] \notin {"up", "wait"} BY <1>b
  <2> HIDE DEF Looked
  <2> QED BY <1>b, <1>c, <1>g, <2>2, <2>3, <2>4, <2>5 DEF WalkOf
<1>2. AskOf(r)'
  <2>1. /\ check[r] = "yes" => asked[r] \in asOf[r] \/ (snap[r].isList /\ parent[asked[r]] # InvalidXid)
        /\ check[r] = "no" => snap[r].isList \/ asked[r] \notin asOf[r]
        /\ check[r] = "didcommit" => snap[r].isList /\ Unlisted(r, asked[r])
    BY <1>d, <1>f DEF AskOf
  <2>2. Unlisted(r, asked[r])' = Unlisted(r, asked[r]) BY <1>b, <1>c DEF Unlisted
  <2>3. "down" \in Checking BY <1>e
  <2> HIDE DEF Unlisted
  <2> QED BY <1>b, <1>c, <1>f, <2>1, <2>2, <2>3 DEF AskOf
<1>3. XminOf(r)' /\ SnapOf(r)' /\ ListOf(r)'
  <2>1. rpc[r] \in {"ready"} \cup Checking /\ rpc'[r] \in {"ready"} \cup Checking BY <1>b, <1>e
  <2> QED BY <1>b, <2>1, CheckFrame
<1> QED BY <1>1, <1>2, <1>3 DEF ReaderInv

\* The check has been answered.
LEMMA AnswerKeeps ==
    ASSUME CommitInv, ReaderType, NEW r \in Readers, ReaderInv(r), Answer(r)
    PROVE  ReaderInv(r)'
<1>a. /\ rpc \in [Readers -> ReaderSteps] /\ found \in [Readers -> Int]
      /\ waited \in [Readers -> BOOLEAN]
  BY DEF ReaderType
<1>b. /\ UNCHANGED <<commitVars, procXmin, snap, asOf, listXid, walk, cache>>
      /\ rpc[r] = "done" /\ rpc'[r] = "ready" /\ found'[r] = InProgress /\ ~waited'[r]
  BY <1>a DEF Answer, RGoto
<1>c. "ready" \notin Checking /\ "done" \in Checking BY DEF Checking
<1>d. walk'[r] = {} BY <1>b DEF ReaderInv, WalkOf
<1>1. WalkOf(r)' /\ AskOf(r)' BY <1>b, <1>c, <1>d DEF WalkOf, AskOf
<1>2. XminOf(r)' /\ SnapOf(r)' /\ ListOf(r)'
  <2>1. rpc[r] \in {"ready"} \cup Checking /\ rpc'[r] \in {"ready"} \cup Checking BY <1>b, <1>c
  <2> QED BY <1>b, <2>1, CheckFrame
<1> QED BY <1>1, <1>2 DEF ReaderInv

\* The earliest xid leaves the walk: the next one is its child.
LEMMA NextOfWalk ==
    ASSUME NEW S, S \subseteq Xids, NEW x, IsEarliest(x, S), S # {x},
           \A y \in S : IsEarliest(y, S) \/ NextUp(parent[y], y, S)
    PROVE  /\ \A y \in S \ {x} : /\ parent[y] \in S
                                 /\ IsEarliest(y, S \ {x}) \/ NextUp(parent[y], y, S \ {x})
                                 /\ IsEarliest(y, S \ {x}) => parent[y] = x
           /\ \E y \in S : x < y
<1>a. \A y \in S : y \in Int BY SMT DEF Xids
<1>b. x \in S /\ \A y \in S : x <= y BY DEF IsEarliest
<1>1. \E y \in S : x < y BY <1>a, <1>b, SMT
<1>2. ASSUME NEW y \in S, y # x
      PROVE  /\ parent[y] \in S
             /\ IsEarliest(y, S \ {x}) \/ NextUp(parent[y], y, S \ {x})
             /\ IsEarliest(y, S \ {x}) => parent[y] = x
  <2>1. ~IsEarliest(y, S) BY <1>2, <1>a, <1>b, SMT DEF IsEarliest
  <2>2. parent[y] \in S /\ parent[y] < y /\ \A z \in S : z < y => z <= parent[y]
    BY <1>2, <2>1 DEF NextUp
  <2>3. CASE parent[y] = x
    <3>1. \A z \in S \ {x} : y <= z
      <4> TAKE z \in S \ {x}
      <4>1. z \in Int /\ y \in Int /\ x \in Int /\ x <= z BY <1>2, <1>a, <1>b
      <4>2. z < y => z <= x BY <2>2, <2>3
      <4> QED BY <4>1, <4>2, SMT
    <3> QED BY <1>2, <2>2, <2>3, <3>1 DEF IsEarliest
  <2>4. CASE parent[y] # x
    <3>1. NextUp(parent[y], y, S \ {x}) BY <2>2, <2>4 DEF NextUp
    <3>2. ~IsEarliest(y, S \ {x})
      <4>1. parent[y] \in S \ {x} /\ parent[y] \in Int /\ y \in Int /\ parent[y] < y
        BY <1>2, <1>a, <2>2, <2>4
      <4> QED BY <4>1, SMT DEF IsEarliest
    <3> QED BY <2>2, <3>1, <3>2
  <2> QED BY <2>3, <2>4
<1> QED BY <1>1, <1>2

\* AskOf while a lookup goes on.
LEMMA AskFrame ==
    ASSUME NEW r \in Readers, AskOf(r), rpc[r] \in Checking,
           UNCHANGED <<commitVars, snap, asOf, asked, check>>, rpc'[r] \in {"down", "up"}
    PROVE  AskOf(r)'
<1>a. UNCHANGED <<csnlog, parent, nextXid>>
  BY DEF commitVars, logVars, counters, treeVars
<1>1. /\ asked[r] \in Xids /\ asked[r] < nextXid
      /\ check[r] = "yes" => asked[r] \in asOf[r] \/ (snap[r].isList /\ parent[asked[r]] # InvalidXid)
      /\ check[r] = "no" => snap[r].isList \/ asked[r] \notin asOf[r]
      /\ check[r] = "didcommit" => snap[r].isList /\ Unlisted(r, asked[r])
  BY DEF AskOf
<1>2. Unlisted(r, asked[r])' = Unlisted(r, asked[r]) BY <1>a DEF Unlisted
<1>3. rpc'[r] \in Checking /\ rpc'[r] \notin {"clog", "done"} BY DEF Checking
<1> HIDE DEF Unlisted
<1> QED BY <1>a, <1>1, <1>2, <1>3 DEF AskOf

\* The walk goes on with the next xid, whose parent is known.
LEMMA UpKeeps ==
    ASSUME CommitInv, ReaderType, NEW r \in Readers, ReaderInv(r), NEW x \in walk[r], NEW c,
           UNCHANGED <<commitVars, procXmin, snap, asOf, listXid, asked, check, waited, cache>>,
           rpc[r] \in {"down", "up"}, rpc'[r] = "up", found'[r] = c, walk'[r] = walk[r] \ {x},
           IsEarliest(x, walk[r]), walk[r] # {x}, Known(r, x, c)
    PROVE  ReaderInv(r)'
<1>a. UNCHANGED <<csnlog, parent, nextXid, tree, pc, stampCsn>>
  BY DEF commitVars, logVars, counters, treeVars, stampVars
<1>b. XminOf(r) /\ WalkOf(r) /\ AskOf(r) /\ walk[r] \subseteq Xids BY ReaderTypes DEF ReaderInv
<1>c. /\ {"down", "up"} \subseteq Checking /\ {"down", "up"} \subseteq Checking \ {"done"}
  BY DEF Checking
<1>d. /\ \A y \in walk[r] \ {x} :
            /\ parent[y] \in walk[r]
            /\ IsEarliest(y, walk[r] \ {x}) \/ NextUp(parent[y], y, walk[r] \ {x})
            /\ IsEarliest(y, walk[r] \ {x}) => parent[y] = x
      /\ \E y \in walk[r] : x < y
  <2>1. \A y \in walk[r] : IsEarliest(y, walk[r]) \/ NextUp(parent[y], y, walk[r])
    BY <1>b DEF WalkOf
  <2> QED BY <1>b, <2>1, NextOfWalk
<1>e. asked[r] \in walk[r] /\ \A y \in walk[r] : procXmin[r] <= y /\ y < nextXid /\ y <= asked[r]
  BY <1>b DEF WalkOf
<1>f. asked[r] # x
  <2>1. PICK y \in walk[r] : x < y BY <1>d
  <2>2. x \in Int /\ y \in Int BY <1>b, SMT DEF Xids
  <2> QED BY <1>e, <2>1, <2>2, SMT
<1>g. Known(r, x, c)' BY <1>a DEF Known, Commits
<1>h. \A y \in walk'[r] : /\ parent[y] # InvalidXid
                          /\ IsEarliest(y, walk'[r]) => Known(r, parent[y], found[r])'
  <2> TAKE y \in walk'[r]
  <2>1. y \in walk[r] \ {x} /\ parent[y] \in Xids BY <1>b, <1>d
  <2>2. parent[y] # InvalidXid BY <2>1, SMT DEF Xids, InvalidXid
  <2>3. ASSUME IsEarliest(y, walk'[r]) PROVE Known(r, parent[y], found[r])'
    <3>1. parent'[y] = x BY <1>a, <1>d, <2>1, <2>3
    <3> QED BY <1>g, <3>1 DEF Known
  <2> QED BY <2>2, <2>3
<1>i. ~Settled(r) /\ ~Settled(r)' /\ Looked(r)' /\ ~waited'[r]
  <2>1. Settled(r) => rpc[r] # "up" /\ walk[r] = {asked[r]}
    BY <1>b, <1>c DEF WalkOf
  <2>2. ~Settled(r) BY <1>e, <1>f, <2>1
  <2>3. Looked(r) BY <1>b, <1>c DEF WalkOf
  <2> QED BY <2>2, <2>3 DEF Settled, Looked
<1>1. WalkOf(r)'
  <2>1. asked[r] \in walk'[r] BY <1>e, <1>f
  <2>2. \A y \in walk'[r] : /\ procXmin[r] <= y /\ y < nextXid /\ y <= asked[r]
                            /\ IsEarliest(y, walk'[r]) \/ NextUp(parent[y], y, walk'[r])
    BY <1>d, <1>e
  <2> HIDE DEF Known, Settled, Looked
  <2> QED BY <1>a, <1>c, <1>h, <1>i, <2>1, <2>2 DEF WalkOf
<1>2. AskOf(r)'
  <2>1. rpc[r] \in Checking BY <1>c
  <2> QED BY <1>b, <2>1, AskFrame
<1>3. XminOf(r)' /\ SnapOf(r)' /\ ListOf(r)'
  <2>1. rpc[r] \in {"ready"} \cup Checking /\ rpc'[r] \in {"ready"} \cup Checking BY <1>c
  <2> QED BY <2>1, CheckFrame
<1> QED BY <1>1, <1>2, <1>3 DEF ReaderInv

\* The walk goes on to the parent, which is not cut off: it is still active.
LEMMA DownKeeps ==
    ASSUME CommitInv, ReaderType, NEW r \in Readers, ReaderInv(r), NEW x \in walk[r],
           UNCHANGED <<commitVars, procXmin, snap, asOf, listXid, asked, check, waited, cache>>,
           rpc[r] = "down", rpc'[r] = "down", IsEarliest(x, walk[r]), IsSubTrans(csnlog[x]),
           walk'[r] = walk[r] \cup {-csnlog[x]}
    PROVE  ReaderInv(r)'
<1>a. UNCHANGED <<csnlog, parent, nextXid>>
  BY DEF commitVars, logVars, counters, treeVars
<1>b. XminOf(r) /\ WalkOf(r) /\ AskOf(r) /\ walk[r] \subseteq Xids /\ TypeInv
  BY ReaderTypes DEF ReaderInv, CommitInv
<1>c. "down" \in Checking /\ "down" \in Checking \ {"done"} /\ "down" \in Protected
      /\ "down" \in {"ready"} \cup Checking
  BY DEF Checking, Protected, SnapRead
<1> DEFINE p == parent[x]
<1>d. /\ p \in Xids /\ -csnlog[x] = p /\ p < x /\ x < nextXid /\ oldestActive <= p
  BY <1>b, SubTransEntry
<1>e. /\ asked[r] \in walk[r] /\ \A y \in walk[r] : procXmin[r] <= y /\ y < nextXid /\ y <= asked[r]
      /\ \A y \in walk[r] : IsEarliest(y, walk[r]) \/ NextUp(parent[y], y, walk[r])
  BY <1>b DEF WalkOf
<1>f. /\ p \in Int /\ x \in Int /\ asked[r] \in Int /\ procXmin[r] \in Int /\ snap[r].xmin \in Int
      /\ oldestActive \in Int /\ nextXid \in Int /\ \A y \in walk[r] : y \in Int
  <2>1. procXmin[r] \in Int /\ snap[r].xmin \in Int BY ReaderTypes
  <2>2. oldestActive \in Int /\ nextXid \in Int BY <1>b, CommitTypes
  <2>3. \A y \in Xids : y \in Int BY SMT DEF Xids
  <2> QED BY <1>b, <1>d, <1>e, <2>1, <2>2, <2>3
<1>g. procXmin[r] <= p
  <2>1. procXmin[r] <= snap[r].xmin /\ snap[r].xmin <= oldestActive
    BY <1>b, <1>c DEF XminOf
  <2> QED BY <1>d, <1>f, <2>1, SMT
<1>h. p < nextXid /\ p <= asked[r]
  <2>1. x <= asked[r] BY <1>e
  <2> QED BY <1>d, <1>f, <2>1, SMT
<1>i. walk'[r] = walk[r] \cup {p} BY <1>d
<1>j. \A y \in walk[r] : x <= y BY DEF IsEarliest
<1>1. IsEarliest(p, walk'[r]) BY <1>d, <1>f, <1>i, <1>j, SMT DEF IsEarliest
<1>2. ASSUME NEW y \in walk[r] PROVE NextUp(parent[y], y, walk'[r])
  <2>1. CASE y = x BY <1>d, <1>f, <1>i, <1>j, <2>1, SMT DEF NextUp
  <2>2. CASE y # x
    <3>1. ~IsEarliest(y, walk[r]) BY <1>f, <1>j, <2>2, SMT DEF IsEarliest
    <3>2. NextUp(parent[y], y, walk[r]) BY <1>e, <3>1
    <3>3. x <= parent[y] /\ parent[y] \in Int BY <1>f, <1>j, <3>2 DEF NextUp
    <3>4. p <= parent[y] BY <1>d, <1>f, <3>3, SMT
    <3> HIDE DEF p
    <3> QED BY <1>i, <3>2, <3>4 DEF NextUp
  <2> QED BY <2>1, <2>2
<1>3. ~Settled(r)
  <2>1. Settled(r) => walk[r] = {asked[r]} /\ IsCommitted(csnlog[asked[r]])
    BY <1>b, <1>c DEF WalkOf
  <2>2. ~IsCommitted(csnlog[x])
    <3>1. csnlog[x] \in Int BY <1>b, CommitTypes
    <3> QED BY <3>1, SMT DEF IsSubTrans, IsCommitted, Frozen
  <2> QED BY <2>1, <2>2
<1>4. ~Settled(r)' /\ Looked(r)' BY <1>3, <1>b, <1>c DEF Settled, Looked, WalkOf
<1>5. WalkOf(r)'
  <2>1. \A y \in walk'[r] : /\ procXmin[r] <= y /\ y < nextXid /\ y <= asked[r]
                            /\ IsEarliest(y, walk'[r]) \/ NextUp(parent[y], y, walk'[r])
    <3> HIDE DEF p
    <3> QED BY <1>e, <1>g, <1>h, <1>i, <1>1, <1>2
  <2>2. asked[r] \in walk'[r] BY <1>e
  <2> HIDE DEF Settled, Looked
  <2> QED BY <1>a, <1>c, <1>4, <2>1, <2>2 DEF WalkOf
<1>6. AskOf(r)'
  <2>1. rpc'[r] \in {"down", "up"} OBVIOUS
  <2> QED BY <1>b, <1>c, <2>1, AskFrame
<1>7. XminOf(r)' /\ SnapOf(r)' /\ ListOf(r)' BY <1>c, CheckFrame
<1> QED BY <1>5, <1>6, <1>7 DEF ReaderInv

\* The lookup on its way to the top-level transaction.
LEMMA WalkDownKeeps ==
    ASSUME CommitInv, ReaderType, NEW r \in Readers, ReaderInv(r), WalkDown(r)
    PROVE  ReaderInv(r)'
<1>a. /\ rpc \in [Readers -> ReaderSteps] /\ found \in [Readers -> Int]
      /\ walk \in [Readers -> SUBSET Xids]
  BY DEF ReaderType
<1>b. /\ UNCHANGED <<commitVars, procXmin, snap, asOf, listXid, asked, check, waited>>
      /\ rpc[r] = "down" /\ "down" \in Checking /\ "down" \in SnapRead
  BY DEF WalkDown, Checking, SnapRead
<1>c. PICK x \in walk[r] :
          /\ IsEarliest(x, walk[r])
          /\ IF IsSubTrans(csnlog[x])
             THEN /\ walk' = [walk EXCEPT ![r] = @ \cup {-csnlog[x]}]
                  /\ UNCHANGED <<rpc, found, cache>>
             ELSE /\ walk' = [walk EXCEPT ![r] = @ \ {x}]
                  /\ IF walk[r] = {x}
                     THEN GotCsn(r, csnlog[x])
                     ELSE /\ rpc' = [rpc EXCEPT ![r] = "up"]
                          /\ found' = [found EXCEPT ![r] = csnlog[x]]
                          /\ UNCHANGED cache
  BY DEF WalkDown
<1>d. WalkOf(r) /\ SnapOf(r) /\ TypeInv BY DEF ReaderInv, CommitInv
<1>e. x \in Xids /\ x < nextXid /\ asked[r] \in walk[r] /\ csnlog[x] \in Int
  <2>1. x \in Xids BY <1>a
  <2>2. csnlog[x] \in Int BY <1>d, <2>1, CommitTypes
  <2> QED BY <1>b, <1>d, <2>1, <2>2 DEF WalkOf
<1>1. CASE IsSubTrans(csnlog[x])
  <2>1. walk'[r] = walk[r] \cup {-csnlog[x]} /\ UNCHANGED <<rpc, cache>>
    BY <1>1, <1>a, <1>c
  <2>2. rpc'[r] = "down" BY <1>b, <2>1
  <2> QED BY <1>1, <1>b, <1>c, <2>1, <2>2, DownKeeps
<1>2. CASE ~IsSubTrans(csnlog[x]) /\ walk[r] = {x}
  <2>1. walk'[r] = walk[r] \ {x} /\ GotCsn(r, csnlog[x]) BY <1>2, <1>a, <1>c
  <2>2. walk'[r] = {} /\ asked[r] = x BY <1>2, <1>e, <2>1
  <2>3. Known(r, asked[r], csnlog[x]) BY <1>2, <1>b, <1>d, <1>e, <2>2, KnownEntry
  <2>4. Settled(r) => IsCommitted(csnlog[x]) BY <1>b, <1>d, <2>2 DEF WalkOf
  <2>5. rpc[r] \in {"down", "up"} BY <1>b
  <2> QED BY <1>b, <1>e, <2>1, <2>2, <2>3, <2>4, <2>5, GotKeeps
<1>3. CASE ~IsSubTrans(csnlog[x]) /\ walk[r] # {x}
  <2>1. /\ walk'[r] = walk[r] \ {x} /\ rpc'[r] = "up" /\ found'[r] = csnlog[x] /\ UNCHANGED cache
    BY <1>3, <1>a, <1>c
  <2>2. Known(r, x, csnlog[x]) BY <1>3, <1>b, <1>d, <1>e, KnownEntry
  <2>3. rpc[r] \in {"down", "up"} BY <1>b
  <2> QED BY <1>3, <1>b, <1>c, <2>1, <2>2, <2>3, UpKeeps
<1> QED BY <1>1, <1>2, <1>3

\* What is found for a child that still names its parent.
LEMMA KnownOfChild ==
    ASSUME CommitInv, ReaderType, NEW r \in Readers, SnapOf(r), rpc[r] \in SnapRead,
           NEW x \in Xids, IsSubTrans(csnlog[x]), Known(r, parent[x], found[r])
    PROVE  IsActive(found[r]) /\ Known(r, x, found[r])
<1>a. Trees BY DEF CommitInv
<1>b. /\ parent[x] \in Xids /\ parent[x] # InvalidXid /\ ~IsFinal(csnlog[parent[x]])
      /\ \E v \in Writers : x \in tree[v] /\ parent[x] \in tree[v]
  BY SubTransEntry
<1>1. \/ found[r] = InProgress /\ parent[x] \notin asOf[r]
      \/ found[r] = Committing /\ \E w \in Writers : parent[x] \in tree[w] /\ Commits(w)
  BY <1>b DEF Known, IsFinal
<1>2. CASE found[r] = InProgress /\ parent[x] \notin asOf[r]
  <2>1. x \notin asOf[r] BY <1>2, <1>b DEF SnapOf
  <2> QED BY <1>2, <2>1 DEF Known, IsActive
<1>3. CASE found[r] = Committing /\ \E w \in Writers : parent[x] \in tree[w] /\ Commits(w)
  <2>1. PICK w \in Writers : parent[x] \in tree[w] /\ Commits(w) BY <1>3
  <2>2. PICK v \in Writers : x \in tree[v] /\ parent[x] \in tree[v] BY <1>b
  <2>3. v = w BY <1>a, <2>1, <2>2 DEF Trees
  <2> QED BY <1>3, <2>1, <2>2, <2>3 DEF Known, IsActive
<1> QED BY <1>1, <1>2, <1>3

\* The lookup on its way back.
LEMMA WalkUpKeeps ==
    ASSUME CommitInv, ReaderType, NEW r \in Readers, ReaderInv(r), WalkUp(r)
    PROVE  ReaderInv(r)'
<1>a. /\ rpc \in [Readers -> ReaderSteps] /\ found \in [Readers -> Int]
      /\ walk \in [Readers -> SUBSET Xids]
  BY DEF ReaderType
<1>b. /\ UNCHANGED <<commitVars, procXmin, snap, asOf, listXid, asked, check, waited>>
      /\ rpc[r] = "up" /\ "up" \in Checking /\ "up" \in SnapRead
  BY DEF WalkUp, Checking, SnapRead
<1> DEFINE C(x) == IF IsSubTrans(csnlog[x]) /\ IsActive(found[r]) THEN found[r] ELSE csnlog[x]
<1>c. PICK x \in walk[r] :
          /\ IsEarliest(x, walk[r])
          /\ walk' = [walk EXCEPT ![r] = @ \ {x}]
          /\ IF walk[r] = {x}
             THEN GotCsn(r, C(x))
             ELSE found' = [found EXCEPT ![r] = C(x)] /\ UNCHANGED <<rpc, cache>>
  BY DEF WalkUp
<1>d. WalkOf(r) /\ SnapOf(r) /\ TypeInv BY DEF ReaderInv, CommitInv
<1>e. x \in Xids /\ x < nextXid /\ asked[r] \in walk[r] /\ csnlog[x] \in Int /\ found[r] \in Int
  <2>1. x \in Xids /\ found[r] \in Int BY <1>a
  <2>2. csnlog[x] \in Int BY <1>d, <2>1, CommitTypes
  <2> QED BY <1>b, <1>d, <2>1, <2>2 DEF WalkOf
<1>f. Known(r, x, C(x)) /\ C(x) \in Int
  <2>1. Known(r, parent[x], found[r]) BY <1>b, <1>c, <1>d DEF WalkOf
  <2>2. IsSubTrans(csnlog[x]) => IsActive(found[r]) /\ Known(r, x, found[r])
    BY <1>b, <1>d, <1>e, <2>1, KnownOfChild
  <2>3. ~IsSubTrans(csnlog[x]) => Known(r, x, csnlog[x])
    BY <1>b, <1>d, <1>e, KnownEntry
  <2> HIDE DEF Known, IsSubTrans, IsActive
  <2> QED BY <1>e, <2>2, <2>3
<1>g. walk'[r] = walk[r] \ {x} /\ rpc[r] \in {"down", "up"} BY <1>a, <1>b, <1>c
<1>1. CASE walk[r] = {x}
  <2>1. GotCsn(r, C(x)) BY <1>1, <1>c
  <2>2. walk'[r] = {} /\ asked[r] = x BY <1>1, <1>e, <1>g
  <2>3. ~Settled(r) BY <1>b, <1>d DEF WalkOf
  <2> HIDE DEF C
  <2> QED BY <1>b, <1>f, <1>g, <2>1, <2>2, <2>3, GotKeeps
<1>2. CASE walk[r] # {x}
  <2>1. rpc'[r] = "up" /\ found'[r] = C(x) /\ UNCHANGED cache BY <1>2, <1>a, <1>b, <1>c
  <2> HIDE DEF C
  <2> QED BY <1>2, <1>b, <1>c, <1>f, <1>g, <2>1, UpKeeps
<1> QED BY <1>1, <1>2

\* A step of a reader.
LEMMA ReaderStep ==
    ASSUME SnapInv, NEW r \in Readers, Reader(r)
    PROVE  SnapInv'
<1>a. CommitInv /\ ParentsHaveCsn /\ ReaderType /\ CkptInv /\ \A q \in Readers : ReaderInv(q)
  BY DEF SnapInv
<1>b. UNCHANGED <<commitVars, ckpt>> /\ \A q \in Readers : q # r => RSame(q)
  BY <1>a, ReadersApart
<1>1. CommitInv' BY <1>a, <1>b, CommitInvStep
<1>2. ParentsHaveCsn'
  <2>1. UNCHANGED <<csnlog, parent, stamp, stampCsn>>
    BY <1>b DEF commitVars, logVars, treeVars, stampVars
  <2> QED BY <1>a, <2>1 DEF ParentsHaveCsn, HasCsn
<1>3. ReaderType' BY <1>a, ReaderTypeStep
<1>4. CkptInv'
  <2>1. UNCHANGED oldestActive BY <1>b DEF commitVars, counters
  <2>2. ASSUME NEW q \in Readers \ Vacuuming, rpc'[q] \in Protected
        PROVE  /\ ckpt.truncated <= procXmin'[q]
               /\ ckpt.pc = "scan" => \/ ckpt.cap <= procXmin'[q] \/ ckpt.horizon <= procXmin'[q]
                                      \/ q \in ckpt.toScan
    <3>1. \/ rpc[q] \in Protected /\ procXmin'[q] = procXmin[q]
          \/ procXmin'[q] = oldestActive
      BY <1>a, <1>b, <2>2, XminProtects DEF RSame
    <3>2. CASE rpc[q] \in Protected /\ procXmin'[q] = procXmin[q] BY <1>a, <3>2 DEF CkptInv
    <3>3. CASE procXmin'[q] = oldestActive BY <1>a, <3>3 DEF CkptInv
    <3> QED BY <3>1, <3>2, <3>3
  <2> QED BY <1>a, <1>b, <2>1, <2>2 DEF CkptInv
<1>5. ReaderInv(r)'
  <2>1. CASE ReadOldestActive(r) \/ AnnounceXmin(r) \/ RecheckOldestActive(r) \/ DropSnapshot(r)
    BY <1>a, <2>1, OldestReadKeeps
  <2>2. CASE ReadNextCsn(r) BY <1>a, <2>2, CsnReadKeeps
  <2>3. CASE ReadLatestCompleted(r) BY <1>a, <2>3, XmaxReadKeeps
  <2>4. CASE ListRunning(r) BY <1>a, <2>4, ListKeeps
  <2>5. CASE \E x \in Xids : XidVisible(r, x) \/ CommittedXidVisible(r, x)
    BY <1>a, <2>5, VisibleKeeps
  <2>6. CASE FetchFromClog(r) BY <1>a, <2>6, ClogKeeps
  <2>7. CASE WalkDown(r) BY <1>a, <2>7, WalkDownKeeps
  <2>8. CASE WalkUp(r) BY <1>a, <2>8, WalkUpKeeps
  <2>9. CASE WaitForCommit(r) BY <1>a, <2>9, WaitKeeps
  <2>10. CASE Answer(r) BY <1>a, <2>10, AnswerKeeps
  <2> QED BY <2>1, <2>2, <2>3, <2>4, <2>5, <2>6, <2>7, <2>8, <2>9, <2>10 DEF Reader
<1>6. ASSUME NEW q \in Readers, q # r PROVE ReaderInv(q)'
  BY <1>a, <1>b, <1>6, ReaderSame
<1> QED BY <1>1, <1>2, <1>3, <1>4, <1>5, <1>6 DEF SnapInv

-----------------------------------------------------------------------------
(* The theorems.                                                           *)

\* The invariant holds at the start of the server.
LEMMA SnapInvInit == Init => SnapInv
<1> SUFFICES ASSUME Init PROVE SnapInv OBVIOUS
<1>a. CommitInv BY CommitInvInit DEF Init
<1>b. /\ oldestActive = 1 /\ csnlog = [x \in Xids |-> InProgress]
      /\ parent = [x \in Xids |-> InvalidXid]
  BY DEF Init, CommitInit
<1>c. ASSUME NEW r \in Readers
      PROVE  /\ rpc[r] = "none" /\ procXmin[r] = InvalidXid /\ snap[r] = NoSnap /\ asOf[r] = {}
             /\ walk[r] = {} /\ found[r] = InProgress /\ ~waited[r] /\ check[r] = "no"
             /\ cache[r].xid = InvalidXid
  BY DEF Init
<1>d. "none" \notin Checking /\ "none" \notin Protected /\ "none" \notin SnapRead
  BY DEF Protected, SnapRead, Checking
<1>1. ParentsHaveCsn BY <1>b DEF ParentsHaveCsn
<1>2. ReaderType
  <2>1. "none" \in ReaderSteps /\ "no" \in Checks /\ NoSnap \in Snapshots
    BY SMT DEF ReaderSteps, Checks, Snapshots, NoSnap, InvalidXid, InProgress
  <2>2. 0 \in 0 .. MaxXid /\ InvalidXid = 0 /\ InProgress \in Int /\ InvalidXid \in Int
    BY CsnCommitAssumption, SMT DEF InvalidXid, InProgress
  <2>3. ckpt \in Checkpoints BY SMT DEF Init, Checkpoints, InvalidXid
  <2> QED BY <2>1, <2>2, <2>3 DEF Init, ReaderType
<1>3. CkptInv
  <2>1. ckpt.truncated = 1 /\ ckpt.pc = "idle" BY DEF Init
  <2> QED BY <1>b, <1>c, <1>d, <2>1, SMT DEF CkptInv
<1>4. ASSUME NEW r \in Readers PROVE ReaderInv(r)
  <2>1. XminOf(r) BY <1>c, <1>d DEF XminOf
  <2>2. SnapOf(r) BY <1>c, <1>d DEF SnapOf
  <2>3. ListOf(r)
    <3>1. rpc[r] # "list" /\ rpc[r] \notin {"ready"} \cup Checking BY <1>c, <1>d
    <3> QED BY <3>1 DEF ListOf
  <2>4. WalkOf(r)
    <3>1. /\ rpc[r] \notin {"down", "up"} /\ rpc[r] # "up" /\ rpc[r] # "wait"
          /\ rpc[r] \notin Checking
      BY <1>c, <1>d
    <3> QED BY <1>c, <3>1 DEF WalkOf
  <2>5. AskOf(r)
    <3>1. rpc[r] # "clog" /\ rpc[r] # "done" /\ rpc[r] \notin Checking BY <1>c, <1>d
    <3> QED BY <1>c, <3>1 DEF AskOf
  <2> QED BY <2>1, <2>2, <2>3, <2>4, <2>5 DEF ReaderInv
<1> QED BY <1>a, <1>1, <1>2, <1>3, <1>4 DEF SnapInv

\* Every step keeps it.
LEMMA SnapInvStep == SnapInv /\ [Next]_vars => SnapInv'
<1>1. ASSUME SnapInv, UNCHANGED vars PROVE SnapInv'
  <2>a. CommitInv /\ ParentsHaveCsn /\ ReaderType /\ CkptInv /\ \A q \in Readers : ReaderInv(q)
    BY <1>1 DEF SnapInv
  <2>b. UNCHANGED <<commitVars, readVars, ckpt>> BY <1>1 DEF vars
  <2>c. /\ UNCHANGED <<rpc, procXmin, snap, asOf, listXid, asked, check, walk, found, waited, cache>>
        /\ UNCHANGED <<csnlog, parent, stamp, stampCsn, oldestActive>>
    BY <2>b DEF readVars, checkVars, commitVars, logVars, treeVars, stampVars, counters
  <2>1. CommitInv' BY <2>a, <2>b, CommitInvStep
  <2>2. ParentsHaveCsn' BY <2>a, <2>c DEF ParentsHaveCsn, HasCsn
  <2>3. \A q \in Readers : ReaderInv(q)' BY <2>a, <2>b, <2>c, ReaderSame DEF RSame
  <2>4. ReaderType' BY <2>a, <2>b, <2>c DEF ReaderType
  <2>5. CkptInv' BY <2>a, <2>b, <2>c DEF CkptInv
  <2> QED BY <2>1, <2>2, <2>3, <2>4, <2>5 DEF SnapInv
<1> QED BY <1>1, WriterStep, ReaderStep, CheckpointStep DEF Next

\* The inductive invariant of the commit and of the snapshots, for any number of
\* writers and readers and transactions of any shape.
THEOREM SnapInvAlways == Spec => []SnapInv
<1>1. Init => SnapInv BY SnapInvInit
<1>2. SnapInv /\ [Next]_vars => SnapInv' BY SnapInvStep
<1> QED BY <1>1, <1>2, PTL DEF Spec

\* An entry of the csnlog that says committed or aborted never changes again, and
\* polar_oldest_active_xid never moves back.
THEOREM EntriesAreFinal == Spec => EntriesFinal
<1> DEFINE A == /\ \A x \in Xids : IsFinal(csnlog[x]) => csnlog'[x] = csnlog[x]
                /\ oldestActive <= oldestActive'
<1>1. SnapInv /\ SnapInv' /\ [Next]_vars => [A]_vars
  <2> SUFFICES ASSUME SnapInv, SnapInv', Next PROVE A OBVIOUS
  <2>a. CommitInv /\ CommitInv' /\ ReaderType BY DEF SnapInv
  <2>1. CASE CommitNext
    <3>1. PICK w \in Writers : Writer(w) BY <2>1 DEF CommitNext
    <3> QED BY <2>a, <3>1, StaysHold DEF Stays
  <2>2. CASE UNCHANGED commitVars
    <3>1. UNCHANGED <<csnlog, oldestActive>>
      BY <2>2 DEF commitVars, logVars, counters
    <3>2. oldestActive \in Int BY <2>a DEF CommitInv, TypeInv
    <3> QED BY <3>1, <3>2, SMT
  <2>3. ASSUME NEW r \in Readers, Reader(r) PROVE UNCHANGED commitVars
    BY <2>a, <2>3, ReadersApart
  <2>4. Checkpointer => UNCHANGED commitVars
    BY DEF Checkpointer, CheckpointBegin, HorizonBegin, HorizonScan, Truncate
  <2> HIDE DEF A
  <2> QED BY <2>1, <2>2, <2>3, <2>4 DEF Next
<1>2. Spec => []SnapInv BY SnapInvAlways
<1>3. Spec => [][Next]_vars BY PTL DEF Spec
<1>4. EntriesFinal <=> [][A]_vars BY PTL DEF EntriesFinal
<1> HIDE DEF A
<1> QED BY <1>1, <1>2, <1>3, <1>4, PTL

\* polar_oldest_active_xid never stays behind for good: an active transaction holds
\* it, or a process that has ended is on its way to advance it.
THEOREM OldestIsKept == Spec => []OldestHasKeeper
<1>1. SnapInv => OldestHasKeeper
  <2> SUFFICES ASSUME SnapInv PROVE OldestHasKeeper OBVIOUS
  <2>a. TypeInv /\ Trees /\ Scans /\ Keepers BY DEF SnapInv, CommitInv
  <2>1. CASE oldestActive = nextXid BY <2>1 DEF OldestHasKeeper
  <2>2. ASSUME NEW w \in Writers, Keeps(w, oldestActive) PROVE OldestHasKeeper
    <3>1. CASE pc[w] \in Ending /\ oldValue[w] = oldestActive
      <4>1. pc[w] \in {"advance", "next", "scan", "cas"} BY <3>1 DEF Ending, Scanning
      <4> QED BY <3>1, <4>1 DEF OldestHasKeeper
    <3>2. CASE procXid[w] = oldestActive
      <4>1. 1 <= oldestActive BY <2>a DEF Scans
      <4>2. procXid[w] # InvalidXid BY <3>2, <4>1, SMT DEF InvalidXid
      <4>3. procXid[w] \in tree[w] BY <2>a, <4>2 DEF Trees, TreeOf
      <4> QED BY <3>2, <4>3 DEF OldestHasKeeper
    <3> QED BY <2>2, <3>1, <3>2 DEF Keeps
  <2> QED BY <2>a, <2>1, <2>2 DEF Keepers
<1> QED BY <1>1, SnapInvAlways, PTL

\* No reader meets an entry that a checkpoint has cut off: it looks up no xid before
\* its xmin, and no checkpoint truncates past the xmin of a reader that is not
\* vacuuming.
THEOREM LookupsStayInLog == Spec => []LookupsInLog
<1>1. SnapInv => LookupsInLog
  <2> SUFFICES ASSUME SnapInv, NEW r \in Readers
               PROVE  /\ rpc[r] = "list" => procXmin[r] <= listXid[r]
                      /\ \A x \in walk[r] : procXmin[r] <= x
                      /\ rpc[r] \notin {"none", "announce", "recheck"} /\ r \notin Vacuuming
                            => ckpt.truncated <= procXmin[r]
      BY DEF LookupsInLog
  <2>a. ReaderType /\ CkptInv /\ XminOf(r) /\ ListOf(r) /\ WalkOf(r)
    BY DEF SnapInv, ReaderInv
  <2>b. procXmin[r] \in Int /\ snap[r].xmin \in Int /\ listXid[r] \in Int /\ rpc[r] \in ReaderSteps
    BY <2>a, ReaderTypes
  <2>1. ASSUME rpc[r] = "list" PROVE procXmin[r] <= listXid[r]
    <3>1. rpc[r] \in Protected BY <2>1 DEF Protected, SnapRead
    <3>2. procXmin[r] <= snap[r].xmin BY <2>a, <3>1 DEF XminOf
    <3>3. snap[r].xmin <= listXid[r] BY <2>a, <2>1 DEF ListOf
    <3> QED BY <2>b, <3>2, <3>3, SMT
  <2>2. \A x \in walk[r] : procXmin[r] <= x BY <2>a DEF WalkOf
  <2>3. ASSUME rpc[r] \notin {"none", "announce", "recheck"}, r \notin Vacuuming
        PROVE  ckpt.truncated <= procXmin[r]
    <3>1. rpc[r] \in Protected BY <2>b, <2>3 DEF ReaderSteps
    <3> QED BY <2>a, <2>3, <3>1 DEF CkptInv
  <2> QED BY <2>1, <2>2, <2>3
<1> QED BY <1>1, SnapInvAlways, PTL

\* What is known when a check that looked the xid up is done.
LEMMA DoneResult ==
    ASSUME SnapInv, NEW r \in Readers, rpc[r] = "done"
    PROVE  /\ asked[r] \in Xids /\ check[r] \in Checks
           /\ check[r] = "yes" => asked[r] \in asOf[r] \/ (snap[r].isList /\ parent[asked[r]] # InvalidXid)
           /\ check[r] = "no" => snap[r].isList \/ asked[r] \notin asOf[r]
           /\ check[r] = "didcommit" => snap[r].isList /\ Unlisted(r, asked[r])
           /\ check[r] \in {"visible", "didcommit", "committed"} =>
                 \/ /\ found[r] = InProgress /\ ~IsCommitted(found[r]) /\ asked[r] \notin asOf[r]
                    /\ check[r] # "committed"
                 \/ /\ found[r] = Aborted /\ ~IsCommitted(found[r]) /\ csnlog[asked[r]] = Aborted
                    /\ asked[r] \notin asOf[r] /\ check[r] # "committed"
                 \/ /\ IsCommitted(found[r]) /\ IsCommitted(csnlog[asked[r]])
                    /\ csnlog[asked[r]] # Aborted /\ found[r] # Aborted
                    /\ asked[r] \in asOf[r] <=> found[r] < snap[r].csn
<1>a. CommitInv /\ TypeInv /\ ReaderType /\ SnapOf(r) /\ WalkOf(r) /\ AskOf(r)
  BY DEF SnapInv, ReaderInv, CommitInv
<1>b. rpc[r] \in Checking /\ rpc[r] \in SnapRead BY DEF SnapRead, Checking
<1> DEFINE x == asked[r]
<1>c. /\ x \in Xids
      /\ check[r] = "yes" => x \in asOf[r] \/ (snap[r].isList /\ parent[x] # InvalidXid)
      /\ check[r] = "no" => snap[r].isList \/ x \notin asOf[r]
      /\ check[r] = "didcommit" => snap[r].isList /\ Unlisted(r, x)
      /\ Looked(r) =>
          \/ found[r] = InProgress /\ x \notin asOf[r] /\ check[r] # "committed"
          \/ found[r] = Aborted /\ csnlog[x] = Aborted
          \/ /\ IsCommitted(found[r]) /\ IsCommitted(csnlog[x])
             /\ found[r] = csnlog[x] \/ (x \in asOf[r] /\ found[r] < snap[r].csn)
  BY <1>a, <1>b DEF AskOf
<1>d. ~IsCommitted(InProgress) /\ ~IsCommitted(Aborted)
  BY SMT DEF IsCommitted, InProgress, Aborted, Frozen
<1>e. check[r] = "committed" => IsCommitted(csnlog[x]) BY <1>a, <1>b DEF WalkOf, Settled
<1>f. x \in asOf[r] => HasCsn(x) /\ CsnBelow(x, snap[r].csn)
  BY <1>a, <1>b DEF SnapOf, CsnBelow, HasCsn
<1>1. csnlog[x] = Aborted => x \notin asOf[r] BY <1>a, <1>c, <1>f, CsnGiven
<1>2. ASSUME IsCommitted(csnlog[x]) PROVE x \in asOf[r] <=> csnlog[x] < snap[r].csn
  <2>1. csnlog[x] < snap[r].csn => x \in asOf[r] BY <1>a, <1>b, <1>c, <1>2, BelowIsAsOf
  <2>2. ASSUME x \in asOf[r] PROVE csnlog[x] < snap[r].csn
    <3>1. \A v \in Writers : x \notin stamp[v]
      BY <1>a, <1>c, <1>f, <1>2, <2>2, CsnGiven DEF IsFinal
    <3> QED BY <1>f, <2>2, <3>1 DEF CsnBelow
  <2> QED BY <2>1, <2>2
<1>3. check[r] \in Checks BY <1>a, ReaderTypes
<1>4. ASSUME check[r] \in {"visible", "didcommit", "committed"}
      PROVE  \/ found[r] = InProgress /\ x \notin asOf[r] /\ check[r] # "committed"
             \/ found[r] = Aborted /\ csnlog[x] = Aborted
             \/ /\ IsCommitted(found[r]) /\ IsCommitted(csnlog[x])
                /\ found[r] = csnlog[x] \/ (x \in asOf[r] /\ found[r] < snap[r].csn)
  BY <1>c, <1>4 DEF Looked
<1> HIDE DEF x, IsCommitted, Unlisted
<1>5. ASSUME check[r] \in {"visible", "didcommit", "committed"}
      PROVE  \/ /\ found[r] = InProgress /\ ~IsCommitted(found[r]) /\ x \notin asOf[r]
                /\ check[r] # "committed"
             \/ /\ found[r] = Aborted /\ ~IsCommitted(found[r]) /\ csnlog[x] = Aborted
                /\ x \notin asOf[r] /\ check[r] # "committed"
             \/ /\ IsCommitted(found[r]) /\ IsCommitted(csnlog[x])
                /\ csnlog[x] # Aborted /\ found[r] # Aborted
                /\ x \in asOf[r] <=> found[r] < snap[r].csn
  <2>1. CASE found[r] = InProgress /\ x \notin asOf[r] /\ check[r] # "committed"
    BY <1>d, <2>1
  <2>2. CASE found[r] = Aborted /\ csnlog[x] = Aborted BY <1>d, <1>e, <1>1, <2>2
  <2>3. CASE /\ IsCommitted(found[r]) /\ IsCommitted(csnlog[x])
             /\ found[r] = csnlog[x] \/ (x \in asOf[r] /\ found[r] < snap[r].csn)
    BY <1>d, <1>2, <2>3
  <2> QED BY <1>4, <1>5, <2>1, <2>2, <2>3
<1> QED BY <1>c, <1>3, <1>5 DEF x

\* A visibility check answers for the instant at which its snapshot read
\* polar_next_csn, whatever was read and written meanwhile.  With a list of xids
\* it is only shown not to take a younger top-level transaction for visible.
THEOREM AnswersAreAsOf == Spec => []AnswerIsAsOf
<1>1. SnapInv => AnswerIsAsOf
  <2> SUFFICES ASSUME SnapInv, NEW r \in Readers, rpc[r] = "done"
               PROVE  /\ ~snap[r].isList \/ parent[asked[r]] = InvalidXid
                            => (Visible(r) => asked[r] \in asOf[r])
                      /\ ~snap[r].isList => (asked[r] \in asOf[r] => Visible(r))
      BY DEF AnswerIsAsOf
  <2>a. check[r] \in Checks BY DoneResult
  <2>1. CASE check[r] = "yes" \/ check[r] = "no"
    <3>1. Visible(r) <=> check[r] = "yes" BY <2>1 DEF Visible
    <3>2. /\ check[r] = "yes" => asked[r] \in asOf[r] \/ (snap[r].isList /\ parent[asked[r]] # InvalidXid)
          /\ check[r] = "no" => snap[r].isList \/ asked[r] \notin asOf[r]
      BY DoneResult
    <3> QED BY <2>1, <3>1, <3>2
  <2>2. CASE check[r] = "didcommit"
    <3>1. Visible(r) <=> IsCommitted(found[r]) BY <2>2 DEF Visible
    <3>2. snap[r].isList /\ Unlisted(r, asked[r]) BY <2>2, DoneResult
    <3>3. IsCommitted(found[r]) => csnlog[asked[r]] # Aborted BY <2>2, DoneResult
    <3> QED BY <3>1, <3>2, <3>3 DEF Unlisted
  <2>3. CASE check[r] = "visible"
    <3>1. Visible(r) <=> IsCommitted(found[r]) /\ found[r] < snap[r].csn BY <2>3 DEF Visible
    <3>2. \/ ~IsCommitted(found[r]) /\ asked[r] \notin asOf[r]
          \/ IsCommitted(found[r]) /\ (asked[r] \in asOf[r] <=> found[r] < snap[r].csn)
      BY <2>3, DoneResult
    <3> QED BY <3>1, <3>2
  <2>4. CASE check[r] = "committed"
    <3>1. Visible(r) <=> (IsCommitted(found[r]) => found[r] < snap[r].csn) BY <2>4 DEF Visible
    <3>2. IsCommitted(found[r]) /\ (asked[r] \in asOf[r] <=> found[r] < snap[r].csn)
      BY <2>4, DoneResult
    <3> QED BY <3>1, <3>2
  <2> QED BY <2>a, <2>1, <2>2, <2>3, <2>4 DEF Checks
<1> QED BY <1>1, SnapInvAlways, PTL

\* The hintstatus of a check is final: XID_COMMITTED only for an entry with its CSN,
\* XID_ABORTED only for one that is aborted (with a list of xids, of top-level ones).
THEOREM HintsAreTrue == Spec => []HintsTrue
<1>1. SnapInv => HintsTrue
  <2> SUFFICES ASSUME SnapInv, NEW r \in Readers, rpc[r] = "done"
               PROVE  /\ HintCommitted(r) => IsCommitted(csnlog[asked[r]])
                      /\ HintAborted(r) /\ (snap[r].isList => parent[asked[r]] = InvalidXid)
                            => csnlog[asked[r]] = Aborted
      BY DEF HintsTrue
  <2>1. ASSUME HintCommitted(r) PROVE IsCommitted(csnlog[asked[r]])
    <3>1. check[r] \in {"visible", "didcommit", "committed"} /\ IsCommitted(found[r])
      BY <2>1 DEF HintCommitted
    <3> QED BY <3>1, DoneResult
  <2>2. ASSUME check[r] = "visible", found[r] = Aborted PROVE csnlog[asked[r]] = Aborted
    <3>1. InProgress # Aborted BY SMT DEF InProgress, Aborted
    <3> QED BY <2>2, <3>1, DoneResult
  <2>3. ASSUME check[r] = "didcommit", ~IsCommitted(found[r]),
               snap[r].isList => parent[asked[r]] = InvalidXid
        PROVE  csnlog[asked[r]] = Aborted
    <3>1. snap[r].isList /\ Unlisted(r, asked[r]) BY <2>3, DoneResult
    <3>2. asked[r] \notin asOf[r] BY <2>3, DoneResult
    <3> QED BY <2>3, <3>1, <3>2 DEF Unlisted
  <2> QED BY <2>1, <2>2, <2>3 DEF HintAborted
<1> QED BY <1>1, SnapInvAlways, PTL

-----------------------------------------------------------------------------
(* The types of a run, and the bounds among them.                          *)

\* polar_latest_completed_xid is below the next xid.
Latest == 0 <= latestCompleted /\ latestCompleted < nextXid

\* Every snapshot starts at an xid, MyProc->xmin is not ahead of the oldest active
\* xid, and the array of running xids is not overrun.
ArrayOf(r) ==
    /\ procXmin[r] \in 0 .. oldestActive
    /\ rpc[r] # "none" => 1 <= snap[r].xmin
    /\ rpc[r] = "list" => listXid[r] < snap[r].xmax /\ snap[r].xmax <= MaxXid + 1
    /\ IsFiniteSet(snap[r].list) /\ Cardinality(snap[r].list) <= ListMax
    /\ snap[r].list \subseteq Xids
Bounds == Latest /\ \A r \in Readers : ArrayOf(r)

\* Only xids of the transaction that ends are reported as completed.
LEMMA LatestStays ==
    ASSUME CommitInv, CommitInv', NEW w \in Writers, Writer(w), Latest
    PROVE  Latest'
<1>a. TypeInv /\ TypeInv' /\ Trees BY DEF CommitInv
<1>b. nextXid \in Int /\ nextXid' \in Int /\ latestCompleted \in Int
      /\ latestCompleted' \in Int /\ \A y \in tree[w] : y \in Int /\ y < nextXid
  <2>1. tree[w] \subseteq Xids /\ \A y \in tree[w] : y < nextXid
    BY <1>a, CommitTypes DEF Trees, TreeOf
  <2>2. \A y \in Xids : y \in Int BY SMT DEF Xids
  <2> QED BY <1>a, <2>1, <2>2, SMT DEF TypeInv
<1>c. nextXid <= nextXid' BY StaysHold DEF Stays
<1>1. UNCHANGED latestCompleted \/ \E x \in tree[w] : latestCompleted' = Later(latestCompleted, x)
  <2>1. CASE AbortTree(w)
    <3>1. stamp \in [Writers -> SUBSET Xids] BY <1>a DEF TypeInv
    <3>2. stamp'[w] \subseteq tree[w] BY <2>1, <3>1 DEF AbortTree, Since
    <3> QED BY <2>1, <3>2 DEF AbortTree
  <2>2. CASE UpdateLatestCompleted(w) BY <2>2 DEF UpdateLatestCompleted
  <2>3. CASE GetNewTransactionId(w) \/ AssignSubXid(w) \/ SetParent(w) \/ CommitSubTransaction(w)
             \/ CommitTree(w) \/ MarkCommitting(w) \/ TakeCsn(w)
    BY <2>3 DEF GetNewTransactionId, AssignSubXid, SetParent, CommitSubTransaction,
       CommitTree, MarkCommitting, TakeCsn, counters
  <2>4. CASE SetUpperBound(w) \/ SetItem(w) \/ AbortInClog(w) \/ EndTransaction(w)
    BY <2>4 DEF SetUpperBound, SetItem, WriteItem, AbortInClog, EndTransaction,
       counters
  <2>5. CASE AdvanceOldest(w) \/ ReadNextXid(w) \/ ScanActive(w) \/ SwapOldest(w)
    BY <2>5 DEF AdvanceOldest, ReadNextXid, ScanActive, SwapOldest, counters
  <2> QED BY <2>1, <2>2, <2>3, <2>4, <2>5 DEF Writer
<1> QED BY <1>1, <1>b, <1>c, SMT DEF Latest, Later

\* A reader that takes no step, while the oldest active xid moves on.
LEMMA ArrayStays ==
    ASSUME NEW r \in Readers, ArrayOf(r), oldestActive \in Int, oldestActive' \in Int,
           oldestActive <= oldestActive', procXmin'[r] = procXmin[r], rpc'[r] = rpc[r],
           snap'[r] = snap[r], listXid'[r] = listXid[r]
    PROVE  ArrayOf(r)'
<1>1. procXmin'[r] \in 0 .. oldestActive' BY SMT DEF ArrayOf
<1> QED BY <1>1 DEF ArrayOf

\* The facts about finite sets are only in scope from here on.
INSTANCE FiniteSetTheorems

\* polar_csnlog_get_running_xids stops when the array is full.
LEMMA ListFits ==
    ASSUME SnapInv, NEW r \in Readers, ArrayOf(r), ListRunning(r)
    PROVE  ArrayOf(r)'
<1> DEFINE x == listXid[r]
           running == \/ IsActive(csnlog[x])
                      \/ IsCommitted(csnlog[x]) /\ csnlog[x] >= snap[r].csn
           full == running /\ Cardinality(snap[r].list) = ListMax
<1>a. ReaderType /\ ReaderInv(r) BY DEF SnapInv
<1>b. /\ snap \in [Readers -> Snapshots] /\ listXid \in [Readers -> Int]
      /\ rpc \in [Readers -> ReaderSteps]
      /\ x \in Int /\ snap[r].xmin \in Int /\ snap[r].xmax \in Int
  BY <1>a, ReaderTypes DEF ReaderType
<1>c. /\ rpc[r] = "list" /\ UNCHANGED <<procXmin, oldestActive>>
      /\ snap' = [snap EXCEPT ![r].overflowed = full,
                              ![r].list = IF running /\ ~full THEN @ \cup {x} ELSE @]
      /\ \/ rpc'[r] = "ready"
         \/ rpc'[r] = "list" /\ listXid'[r] = x + 1 /\ x + 1 # snap[r].xmax
  BY <1>b DEF ListRunning, commitVars, counters
<1>d. PICK o, l : /\ o = full
                  /\ l = IF running /\ ~full THEN snap[r].list \cup {x} ELSE snap[r].list
  OBVIOUS
<1>e. /\ snap'[r].xmax = snap[r].xmax /\ snap'[r].xmin = snap[r].xmin /\ snap'[r].list = l
  <2>1. snap' = [snap EXCEPT ![r] = [snap[r] EXCEPT !.overflowed = o, !.list = l]]
    BY <1>b, <1>c, <1>d
  <2>2. snap'[r] = [snap[r] EXCEPT !.overflowed = o, !.list = l] /\ snap[r] \in Snapshots
    BY <1>b, <2>1
  <2> QED BY <2>2 DEF Snapshots
<1>f. l = snap[r].list \/ (l = snap[r].list \cup {x} /\ Cardinality(snap[r].list) # ListMax)
  BY <1>d
<1> HIDE DEF full, running
<1>1. x < snap[r].xmax /\ snap[r].xmax <= MaxXid + 1 /\ 1 <= snap[r].xmin /\ snap[r].xmin <= x
  BY <1>a, <1>c DEF ArrayOf, ReaderInv, ListOf
<1>2. x \in Xids BY <1>1, <1>b, CsnCommitAssumption, SMT DEF Xids
<1>3. IsFiniteSet(l) /\ Cardinality(l) <= ListMax /\ l \subseteq Xids
  <2>1. /\ IsFiniteSet(snap[r].list) /\ Cardinality(snap[r].list) <= ListMax
        /\ snap[r].list \subseteq Xids
    BY DEF ArrayOf
  <2>2. Cardinality(snap[r].list) \in Nat /\ ListMax \in Nat
    BY <2>1, FS_CardinalityType, CsnSnapshotAssumption
  <2>3. CASE l = snap[r].list \cup {x} /\ Cardinality(snap[r].list) # ListMax
    <3>1. /\ IsFiniteSet(l)
          /\ Cardinality(l) \in {Cardinality(snap[r].list), Cardinality(snap[r].list) + 1}
      BY <2>1, <2>3, FS_AddElement
    <3>2. Cardinality(l) <= ListMax BY <2>1, <2>2, <2>3, <3>1, SMT
    <3> QED BY <1>2, <2>1, <2>3, <3>1, <3>2
  <2> QED BY <1>f, <2>1, <2>3
<1>4. rpc'[r] = "list" => listXid'[r] < snap'[r].xmax /\ snap'[r].xmax <= MaxXid + 1
  BY <1>1, <1>b, <1>c, <1>e, SMT
<1>5. rpc[r] # "none" BY <1>c
<1> QED BY <1>1, <1>3, <1>4, <1>c, <1>e DEF ArrayOf

\* A step of a reader keeps the bounds.
LEMMA ArrayStep ==
    ASSUME SnapInv, Latest, NEW r \in Readers, ArrayOf(r), Reader(r)
    PROVE  ArrayOf(r)'
<1>a. CommitInv /\ TypeInv /\ Scans /\ ReaderType /\ ReaderInv(r) BY DEF SnapInv, CommitInv
<1>b. /\ snap \in [Readers -> Snapshots] /\ listXid \in [Readers -> Int]
      /\ rpc \in [Readers -> ReaderSteps] /\ procXmin \in [Readers -> Int]
      /\ snap[r] \in Snapshots /\ snap[r].xmin \in Int /\ snap[r].xmax \in Int
  BY <1>a, ReaderTypes DEF ReaderType
<1>c. /\ oldestActive \in Int /\ 1 <= oldestActive /\ latestCompleted \in Int /\ nextXid \in Int
      /\ nextXid <= MaxXid + 1 /\ MaxXid \in Int
  BY <1>a, CsnCommitAssumption, SMT DEF TypeInv, Scans
<1>d. UNCHANGED oldestActive
  <2>1. UNCHANGED commitVars BY <1>a, ReadersApart
  <2> QED BY <2>1 DEF commitVars, counters
<1>e. /\ IsFiniteSet({}) /\ Cardinality({}) <= ListMax /\ {} \subseteq Xids
      /\ NoSnap.list = {}
  <2>1. IsFiniteSet({}) /\ Cardinality({}) = 0 BY FS_EmptySet
  <2>2. 0 <= ListMax BY CsnSnapshotAssumption, SMT
  <2> QED BY <2>1, <2>2 DEF NoSnap
<1>f. /\ oldestActive \in 0 .. oldestActive /\ InvalidXid \in 0 .. oldestActive
      /\ rpc[r] # "none" => snap[r].xmin \in 0 .. oldestActive
  BY <1>a, <1>b, <1>c, SMT DEF ReaderInv, XminOf, InvalidXid, ArrayOf
<1>g. /\ procXmin[r] \in 0 .. oldestActive
      /\ rpc[r] # "none" => 1 <= snap[r].xmin
      /\ IsFiniteSet(snap[r].list) /\ Cardinality(snap[r].list) <= ListMax
      /\ snap[r].list \subseteq Xids
  BY DEF ArrayOf
<1> USE DEF RGoto
<1>1. CASE ReadOldestActive(r)
  <2>1. PICK m \in ListModes :
           snap' = [snap EXCEPT ![r] = [NoSnap EXCEPT !.xmin = oldestActive, !.isList = m]]
    BY <1>1 DEF ReadOldestActive
  <2>2. snap'[r] = [NoSnap EXCEPT !.xmin = oldestActive, !.isList = m] BY <1>b, <2>1
  <2>3. snap'[r].xmin = oldestActive /\ snap'[r].list = {} BY <2>2 DEF NoSnap
  <2>4. UNCHANGED procXmin /\ rpc'[r] \in {"announce", "csn"} BY <1>1, <1>b DEF ReadOldestActive
  <2>5. rpc'[r] # "list" BY <2>4
  <2> QED BY <1>c, <1>d, <1>e, <1>g, <2>3, <2>4, <2>5 DEF ArrayOf
<1>2. CASE AnnounceXmin(r)
  <2>1. /\ procXmin'[r] = snap[r].xmin /\ rpc[r] # "none" /\ rpc'[r] # "list" /\ UNCHANGED snap
    BY <1>2, <1>b DEF AnnounceXmin
  <2> QED BY <1>d, <1>f, <1>g, <2>1 DEF ArrayOf
<1>3. CASE RecheckOldestActive(r)
  <2>1. snap' = [snap EXCEPT ![r] = [snap[r] EXCEPT !.xmin = oldestActive]]
    BY <1>3, <1>b DEF RecheckOldestActive
  <2>2. snap'[r].xmin = oldestActive /\ snap'[r].list = snap[r].list
    BY <1>b, <2>1 DEF Snapshots
  <2>3. procXmin'[r] = oldestActive /\ rpc'[r] # "list" BY <1>3, <1>b DEF RecheckOldestActive
  <2> QED BY <1>c, <1>d, <1>f, <1>g, <2>2, <2>3 DEF ArrayOf
<1>4. CASE ReadNextCsn(r)
  <2>1. snap' = [snap EXCEPT ![r] = [snap[r] EXCEPT !.csn = nextCsn]]
    BY <1>4, <1>b DEF ReadNextCsn
  <2>2. snap'[r].xmin = snap[r].xmin /\ snap'[r].list = snap[r].list
    BY <1>b, <2>1 DEF Snapshots
  <2>3. UNCHANGED procXmin /\ rpc[r] # "none" /\ rpc'[r] # "list"
    BY <1>4, <1>b DEF ReadNextCsn
  <2> QED BY <1>d, <1>g, <2>2, <2>3 DEF ArrayOf
<1>5. CASE ReadLatestCompleted(r)
  <2>1. snap' = [snap EXCEPT ![r] = [snap[r] EXCEPT !.xmax = latestCompleted + 1]]
    BY <1>5, <1>b DEF ReadLatestCompleted
  <2>2. snap'[r].xmin = snap[r].xmin /\ snap'[r].list = snap[r].list
        /\ snap'[r].xmax = latestCompleted + 1
    BY <1>b, <2>1 DEF Snapshots
  <2>3. UNCHANGED procXmin /\ rpc[r] # "none" BY <1>5 DEF ReadLatestCompleted
  <2>4. rpc'[r] = "list" => listXid'[r] = snap[r].xmin /\ snap[r].xmin < latestCompleted + 1
    BY <1>5, <1>b DEF ReadLatestCompleted
  <2>5. latestCompleted + 1 <= MaxXid + 1 BY <1>c, SMT DEF Latest
  <2> QED BY <1>d, <1>g, <2>2, <2>3, <2>4, <2>5 DEF ArrayOf
<1>6. CASE ListRunning(r) BY <1>6, ListFits
<1>7. CASE DropSnapshot(r)
  <2>1. snap'[r].list = {} BY <1>7, <1>b, <1>e DEF DropSnapshot
  <2>2. procXmin'[r] = InvalidXid /\ rpc'[r] = "none" BY <1>7, <1>b DEF DropSnapshot
  <2> QED BY <1>d, <1>e, <1>f, <2>1, <2>2 DEF ArrayOf
<1>8. ASSUME UNCHANGED <<snap, procXmin>>, rpc[r] # "none", rpc'[r] # "list" PROVE ArrayOf(r)'
  BY <1>8, <1>d, <1>g DEF ArrayOf
<1>9. CASE \E x \in Xids : XidVisible(r, x) \/ CommittedXidVisible(r, x)
  <2>1. PICK x, how : Ask(r, x, how) BY <1>9 DEF XidVisible, CommittedXidVisible
  <2>2. UNCHANGED <<snap, procXmin>> /\ rpc[r] # "none" /\ rpc'[r] # "list"
    BY <1>b, <2>1 DEF Ask, Begin
  <2> QED BY <1>8, <2>2
<1>10. ASSUME NEW c, GotCsn(r, c) \/ Finish(r, c) PROVE rpc'[r] # "list"
  BY <1>b, <1>10 DEF GotCsn, Finish
<1>11. CASE FetchFromClog(r) \/ WaitForCommit(r) \/ Answer(r)
  <2>1. UNCHANGED <<snap, procXmin>> /\ rpc[r] # "none"
    BY <1>11 DEF FetchFromClog, WaitForCommit, Answer
  <2>2. rpc'[r] # "list" BY <1>10, <1>11, <1>b DEF FetchFromClog, WaitForCommit, Answer
  <2> QED BY <1>8, <2>1, <2>2
<1>12. CASE WalkDown(r) \/ WalkUp(r)
  <2>1. UNCHANGED <<snap, procXmin>> /\ rpc[r] # "none" BY <1>12 DEF WalkDown, WalkUp
  <2>2. rpc[r] # "list" BY <1>12 DEF WalkDown, WalkUp
  <2>3. rpc'[r] # "list"
    <3>1. CASE WalkDown(r) BY <1>10, <1>b, <2>2, <3>1 DEF WalkDown
    <3>2. CASE WalkUp(r) BY <1>10, <1>b, <2>2, <3>2 DEF WalkUp
    <3> QED BY <1>12, <3>1, <3>2
  <2> QED BY <1>8, <2>1, <2>3
<1> QED BY <1>1, <1>2, <1>3, <1>4, <1>5, <1>6, <1>7, <1>9, <1>11, <1>12 DEF Reader

\* The bounds hold at the start and every step keeps them.
LEMMA BoundsStep == SnapInv /\ SnapInv' /\ Bounds /\ [Next]_vars => Bounds'
<1> SUFFICES ASSUME SnapInv, SnapInv', Bounds, [Next]_vars PROVE Bounds' OBVIOUS
<1>a. CommitInv /\ CommitInv' /\ ReaderType BY DEF SnapInv
<1>b. oldestActive \in Int /\ oldestActive' \in Int BY <1>a DEF CommitInv, TypeInv
<1>1. CASE CommitNext /\ UNCHANGED <<readVars, ckpt>>
  <2>1. PICK w \in Writers : Writer(w) BY <1>1 DEF CommitNext
  <2>2. Latest' BY <1>a, <2>1, LatestStays DEF Bounds
  <2>3. oldestActive <= oldestActive' BY <1>a, <2>1, StaysHold DEF Stays
  <2>4. UNCHANGED <<rpc, procXmin, snap, listXid>> BY <1>1 DEF readVars
  <2> QED BY <1>b, <2>2, <2>3, <2>4, ArrayStays DEF Bounds
<1>2. CASE UNCHANGED commitVars
  <2>1. UNCHANGED <<latestCompleted, nextXid, oldestActive>> BY <1>2 DEF commitVars, counters
  <2>2. Latest' BY <2>1 DEF Bounds, Latest
  <2>3. oldestActive <= oldestActive' BY <1>b, <2>1, SMT
  <2>4. ASSUME NEW r \in Readers, Reader(r) PROVE \A q \in Readers : ArrayOf(q)'
    <3>1. ArrayOf(r)' BY <2>4, ArrayStep DEF Bounds
    <3>2. ASSUME NEW q \in Readers, q # r PROVE ArrayOf(q)'
      <4>1. RSame(q) BY <1>a, <2>4, <3>2, ReadersApart
      <4>2. ArrayOf(q) BY DEF Bounds
      <4> QED BY <1>b, <2>3, <4>1, <4>2, ArrayStays DEF RSame
    <3> QED BY <3>1, <3>2
  <2>5. CASE UNCHANGED readVars
    <3>1. UNCHANGED <<rpc, procXmin, snap, listXid>> BY <2>5 DEF readVars
    <3> QED BY <1>b, <2>2, <2>3, <3>1, ArrayStays DEF Bounds
  <2>6. Checkpointer \/ UNCHANGED vars => UNCHANGED readVars
    BY DEF Checkpointer, CheckpointBegin, HorizonBegin, HorizonScan, Truncate, vars
  <2>7. (\E r \in Readers : Reader(r)) \/ UNCHANGED readVars
        \/ (CommitNext /\ UNCHANGED <<readVars, ckpt>>)
    BY <2>6 DEF Next
  <2> QED BY <1>1, <2>2, <2>4, <2>5, <2>7 DEF Bounds
<1>3. ASSUME NEW r \in Readers, Reader(r) PROVE UNCHANGED commitVars
  BY <1>a, <1>3, ReadersApart
<1>4. Checkpointer \/ UNCHANGED vars => UNCHANGED commitVars
  BY DEF Checkpointer, CheckpointBegin, HorizonBegin, HorizonScan, Truncate, vars
<1> QED BY <1>1, <1>2, <1>3, <1>4 DEF Next

\* The counters stay in their ranges, MyProc->xmin never passes
\* polar_oldest_active_xid, and polar_csnlog_get_running_xids never writes past the
\* GetMaxSnapshotSubxidCount() elements of its array, whatever it finds.
THEOREM TypesHold == Spec => []TypeOK
<1>1. Init => Bounds
  <2> SUFFICES ASSUME Init PROVE Bounds OBVIOUS
  <2>1. Latest BY SMT DEF Init, CommitInit, Latest, InvalidXid
  <2>2. ASSUME NEW r \in Readers PROVE ArrayOf(r)
    <3>1. rpc[r] = "none" /\ procXmin[r] = 0 /\ snap[r].list = {} /\ oldestActive = 1
      BY DEF Init, CommitInit, NoSnap, InvalidXid
    <3>2. IsFiniteSet({}) /\ Cardinality({}) = 0 BY FS_EmptySet
    <3>3. 0 \in 0 .. 1 /\ 0 <= ListMax BY CsnSnapshotAssumption, SMT
    <3> QED BY <3>1, <3>2, <3>3 DEF ArrayOf
  <2> QED BY <2>1, <2>2 DEF Bounds
<1>2. SnapInv /\ SnapInv' /\ Bounds /\ [Next]_vars => Bounds' BY BoundsStep
<1>3. SnapInv /\ Bounds => TypeOK
  <2> SUFFICES ASSUME SnapInv, Bounds PROVE TypeOK OBVIOUS
  <2>1. TypeInv /\ Scans /\ ReaderType BY DEF SnapInv, CommitInv
  <2>2. /\ nextXid \in 1 .. MaxXid + 1 /\ oldestActive \in 1 .. nextXid
        /\ latestCompleted \in 0 .. nextXid - 1 /\ nextCsn \in Int /\ nextCsn >= FirstNormal
    BY <2>1, SMT DEF TypeInv, Scans, Bounds, Latest
  <2>3. csnlog \in [Xids -> Int] /\ clog \in [Xids -> {InProgress, Aborted, Frozen}]
    BY <2>1 DEF TypeInv
  <2>4. \A r \in Readers :
          /\ snap[r].list \subseteq Xids /\ Cardinality(snap[r].list) <= ListMax
          /\ procXmin[r] \in 0 .. oldestActive /\ walk[r] \subseteq Xids
    BY <2>1 DEF Bounds, ArrayOf, ReaderType
  <2> QED BY <2>2, <2>3, <2>4 DEF TypeOK
<1>4. Spec => []SnapInv BY SnapInvAlways
<1> QED BY <1>1, <1>2, <1>3, <1>4, PTL DEF Spec

-----------------------------------------------------------------------------
(* The walk from a sub-transaction to its parents ends at the least xid.   *)

\* A set of numbers has a least one.
LEMMA HasMin == ASSUME NEW S, S \subseteq Nat, S # {} PROVE \E x \in S : \A y \in S : x <= y
<1> DEFINE R == OpToRel(<, Nat)
<1>1. IsWellFoundedOn(R, Nat) BY NatLessThanWellFounded
<1>2. PICK x \in S : \A y \in S : ~(<<y, x>> \in R)
  <2> HIDE DEF R
  <2> QED BY <1>1, WFMin
<1>3. \A y \in S : ~(y < x)
  <2> TAKE y \in S
  <2>1. x \in Nat /\ y \in Nat OBVIOUS
  <2>2. ~(<<y, x>> \in R) BY <1>2
  <2> QED BY <2>1, <2>2 DEF OpToRel
<1> QED BY <1>3, SMT

\* Neither of the states that the lookup takes to be impossible is ever met: no
\* PANIC "Wrong csn state", no COMMITTING after the wait.
THEOREM StatesAreRight == Spec => []NoWrongState
<1>1. SnapInv => NoWrongState
  <2> SUFFICES ASSUME SnapInv, NEW r \in Readers
               PROVE  /\ rpc[r] = "up" => \E x \in walk[r] :
                            IsEarliest(x, walk[r]) /\ (IsSubTrans(csnlog[x]) => IsActive(found[r]))
                      /\ rpc[r] = "done" => found[r] # Committing
      BY DEF NoWrongState
  <2>a. CommitInv /\ ReaderType /\ SnapOf(r) /\ WalkOf(r) /\ AskOf(r)
    BY DEF SnapInv, ReaderInv
  <2>1. ASSUME rpc[r] = "up"
        PROVE  \E x \in walk[r] :
                  IsEarliest(x, walk[r]) /\ (IsSubTrans(csnlog[x]) => IsActive(found[r]))
    <3>1. walk[r] \subseteq Xids BY <2>a, ReaderTypes
    <3>2. asked[r] \in walk[r] BY <2>a, <2>1 DEF WalkOf
    <3>3. walk[r] \subseteq Nat /\ walk[r] # {} BY <3>1, <3>2, SMT DEF Xids
    <3>4. PICK x \in walk[r] : \A y \in walk[r] : x <= y BY <3>3, HasMin
    <3>5. IsEarliest(x, walk[r]) BY <3>4 DEF IsEarliest
    <3>6. Known(r, parent[x], found[r]) BY <2>a, <2>1, <3>5 DEF WalkOf
    <3>7. rpc[r] \in SnapRead /\ x \in Xids BY <2>1, <3>1 DEF SnapRead, Checking
    <3>8. IsSubTrans(csnlog[x]) => IsActive(found[r])
      BY <2>a, <3>6, <3>7, KnownOfChild
    <3> QED BY <3>5, <3>8
  <2>2. rpc[r] = "done" => found[r] # Committing BY <2>a DEF AskOf
  <2> QED BY <2>1, <2>2
<1> QED BY <1>1, SnapInvAlways, PTL

=============================================================================
