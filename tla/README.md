# A formal model of the shared-storage core of Awide Polar

The repository is a PostgreSQL 17 fork in which one primary and any number of
read-only replicas work on the *same* files. The primary writes pages and WAL
to the shared storage; a replica replays WAL in memory and reads pages from the
storage. From this follow three obligations that stock PostgreSQL does not
have:

* no *future page*: the primary must not write a page that is ahead of what the
  slowest replica has replayed (`oldest_apply_lsn`);
* the *consistent LSN*: the primary must know an LSN below which every change is
  on the storage, because replicas, and incremental checkpoints, start there;
* pages that may not be written yet must not hold that LSN back for ever (copy
  buffers, the order of the flush list).

Two more parts are the fork's own. WAL records reach the logindex and the
replicas through a *WAL meta queue* in shared memory, which inserters may not
overrun and readers may not hold up. And transactions may be ordered by *commit
sequence numbers* (CSN), so that a snapshot is taken without a lock.

This directory has TLA+ modules of the code that meets these obligations, TLC
configurations that check them on small instances, and TLAPS proofs of the safety
properties of the consistent LSN, of the WAL meta queue and of CSN snapshots for
every number of processes, buffers, replicas, records and transactions.

Paths below are relative to `src/src/backend/` unless they start with `src/`.

## 1. Inventory: the parts of the system

| Part | Code | Mutable state | Operations | Hard behaviours |
|---|---|---|---|---|
| Flush list | `storage/buffer/polar_flush.c` | 64 doubly linked lists, cursor, `flushing`, `min_lsn`, an indexed min-heap | put, put for a hint, move to the tail, remove, batch, flush begin and end | two nested spinlocks, lists that empty and fill while flushed, errors in a writer |
| Consistent LSN | `storage/buffer/polar_bufmgr.c` | `XLogCtl->consistent_lsn`, `oldest_lsn` of buffers | compute under all list locks, then over copy buffers, publish | concurrent puts and flushes; a PANIC if it falls back |
| Copy buffers | `storage/buffer/polar_copybuf.c` | copy descriptors, `copy_buffer` and flags of a buffer | copy, flush a copy, free | a copy older than the page, and a page flushed behind a scan |
| Buffer manager | `storage/buffer/bufmgr.c` | dirty flags, page, I/O flag, locks | `MarkBufferDirty`, `MarkBufferDirtyHint`, `SyncOneBuffer`, `FlushBuffer`, `GetVictimBuffer` | hints under a shared lock, stale oldest apply LSN, write combining |
| Checkpoint, recovery | `access/transam/xlog.c`, `xloginsert.c`, `xlogutils.c` | redo points, control file | `CreateCheckPoint`, `polar_wait_consistent_lsn`, `StartupXLOG`, redo | a crash between choosing and publishing the redo point |
| Replica progress | `replication/slot.c`, `walsender.c` | slots, `oldest_apply_lsn` | feedback, drop, attach, recompute | lost at restart; slots dropped while a page is flushed |
| Background writers | `postmaster/bgwriter.c`, `polar_parallel_bgwriter.c` | process state | `polar_buffer_sync`, error handler | an ERROR between flush begin and flush end |
| WAL meta queue | `access/logindex/polar_ringbuf.c`, `polar_queue_manager.c` | ring, reader references | reserve, write, read, evict, keep, reset | eviction of a slow reader while it reads |
| Logindex | `access/logindex/polar_logindex.c` and the rest of the directory | mem tables, saved tables, meta file | insert, freeze, save, look up, truncate | full tables, several writes per save, promotion |
| Logindex redo | `access/logindex/polar_logindex_redo.c` | instance state, outdated flags, background replay LSN | parse, mark, replay on access, promote | replay by a backend against replay in the background |
| Full-page snapshots | `access/logindex/polar_fullpage.c` | snapshot files | log, read | written while the page is ahead of replicas |
| Relation size caches | `storage/smgr/polar_rsc.c`, `access/logindex/polar_rel_size_cache.c` | entries with generations | look up, update, evict | lock-free reads |
| CSN log, CSN snapshots | `access/transam/polar_csnlog.c`, `transam.c`, `storage/ipc/procarray.c`, `access/heap/heapam_visibility.c` | entry per xid, next CSN, latest completed and oldest active xid, upper bounds of groups | assign, commit, abort, take a snapshot, look up, truncate | no lock around a snapshot; parent and children written one by one |
| Asynchronous lock replay | `postmaster/polar_async_lock_replay.c` | table of locks, applied LSN | add, acquire, release | a lock waited for while its transaction ends |
| DataMax log node | `polar_datamax/polar_datamax.c` | meta file, valid LSN list | receive, advance, clean | restart between WAL and meta |
| WAL pipeliner, WAL buffer of replicas, local SLRU cache, process pool, VFS, statistics | see `PROJECT.json` | | | |

What correctness means for the whole: (1) nothing committed is lost in a crash;
(2) a replica that starts at the consistent LSN, or reads a page from the
storage, misses nothing and sees nothing of its future; (3) WAL reaches the
storage before the page it describes; (4) a dirty page is written in the end, so
that checkpoints end; (5) the sanity checks of the code (PANIC, WARNING,
Assert) never fire.

`PROJECT.json` lists every component with its status, and under `hazards` the
places where these properties are at risk.

## 2. Modules and how they correspond to the code

### MinHeap, MCMinHeap

`polar_flushlist_minheap_*`, `polar_flushlist_sift_*` as operators on a record
`[arr, pos]`: `arr` is `heap[0..size-1]`, `pos` the index of each list. Indices
are those of C. `MCMinHeap` runs every sequence of operations next to a
reference function.

### FlushList, MCFlushList, FlushQueue

`polar_flush.c` with the links it really has (`flush_next`, `flush_prev`, head,
tail, cursor), the heap, and `polar_buffer_sync`. Each list has a spinlock; the
heap, `min_lsn` and `flushing` are under `polar_flush_ctl->lock`, taken inside it.
An operation that takes both is therefore two steps: the links, and then
`CtlSection(l)`. Between the two `ctl[l]` says what is left, and the spinlock of
`l` counts as held, while `polar_flush_list_flush_begin` and `_end` of other
processes may run, as in the code. `SyncWrite` and `SyncSkip` are the outcomes
of `SyncOneBuffer` as the list sees them; the fake oldest LSN is read under the
spinlock, as in `polar_put_buffer_to_flush_list`.

`FlushQueue` is the abstract specification: each partition is a queue ordered by
oldest LSN, in the hands of at most one writer. `ImplementsQueue` is the
refinement.

### ConsistentLsn, MCConsistentLsn

The composition of buffer manager, copy buffers, consistent LSN, checkpointer,
replica feedback, crash and redo. The flush list appears as what `FlushList`
shows it to be: the set of buffers with a valid oldest LSN, whose least is found
at the heads. Correspondence:

| Code | Action |
|---|---|
| content lock, `MarkBufferDirty`, `polar_set_buffer_fake_oldest_lsn` | `LockForUpdate`, `MarkBufferDirty`, `PutBuffer`, `AdjustPosition` |
| `XLogInsert`, `PageSetLSN` | `XLogInsert`, `PageSetLSN` |
| `MarkBufferDirtyHint`, `XLogSaveBufferForHint`, `polar_put_dirty_hint_buffer_into_flushlist` | `HintStart` ... `HintDirty` |
| `SyncOneBuffer` | `SyncOneBuffer` (read the oldest apply LSN), `SyncLocked` (decide under the content lock) |
| `GetVictimBuffer` | `GetVictimBuffer` |
| `FlushRelationBuffers`, `FlushRelationsAllBuffers`, `FlushDatabaseBuffers` (no buffer flush control) | `FlushRelationBuffers` |
| `FlushBuffer` | `FlushStart`, `FlushXLog`, `FlushWrite`, `FlushFreeCopy`, `FlushReset`, `FlushEnd`, `FlushSkip` |
| `polar_flush_copy_buffer`, `copy_buffer_alloc` | `CopyFlushStart` ... `CopyFlushEnd`, `CopyBuffer` |
| `polar_cal_cur_consistent_lsn`, `polar_copy_buffers_get_oldest_lsn`, `polar_set_consistent_lsn` | `CalFlushLists`, `CalCopyBuffers` (one descriptor per step), `SetConsistentLsn` |
| `CreateCheckPoint` | `CkptBegin`, `CkptEnd` |
| `polar_compute_and_set_replica_lsn` and its callers | `ReplicaReply`, `DropSlot` |
| crash, `StartupXLOG`, redo | `Crash`, `RedoRecord`, `EndRecovery` |

Data abstraction: an LSN is a number, a record is one unit long, and a page is
its LSN: the page with LSN `l` has the records of that page that end at or
before `l`. Locks are no variables; a process holds a lock exactly at certain
program counters, which the module names. Steps under one lock that no other
process can tell apart are one action; wherever a lock is released, or something
is read without one, a new action begins. `direct` marks a process in a flush that
did not look at `polar_buffer_can_be_flushed`, and the history variable
`unchecked` the pages whose last write was such a flush: `NoFuturePage` claims
nothing of them. The code relies there on the `AccessExclusiveLock` of the caller
and on the replicas' knowing of it (`bufmgr.c:5359-5365`), which is not modelled.

### CsnCommit, CsnSnapshot, MCCsnSnapshot

`CsnCommit` has the writers, `CsnSnapshot` composes them with the readers and
the checkpointer. Nothing here is under a lock that both sides take, so every
read or write of a shared word that another process can see between two others
is an action. The two compare-and-swap loops that only raise a value are one
maximum each.

| Code | Action |
|---|---|
| `GetNewTransactionId`, `AssignTransactionId`, `polar_csnlog_set_parent` | `GetNewTransactionId`, `AssignSubXid`, `SetParent` |
| `CommitSubTransaction`; abort of a transaction or subtransaction (`polar_xact_abort_tree_csn`, `TransactionIdAbortTree`) | `CommitSubTransaction`; `AbortTree`, `SetItem`, `AbortInClog` |
| `polar_xact_commit_tree_csn` | `CommitTree`, `UpdateLatestCompleted`, `MarkCommitting`, `TakeCsn`, then `SetUpperBound` and `SetItem` of `polar_csnlog_set_csn`, children first |
| `ProcArrayEndTransactionCSN`, `AdvanceOldestActiveXidCSN` | `EndTransaction`, `AdvanceOldest`, `ReadNextXid`, `ScanActive`, `SwapOldest` |
| `GetSnapshotDataCSN` | `ReadOldestActive`, `AnnounceXmin`, `RecheckOldestActive`, `ReadNextCsn`, `ReadLatestCompleted`, `ListRunning` (`polar_csnlog_get_running_xids`, one entry) |
| `XidVisibleInSnapshotCSN`, `CommittedXidVisibleInSnapshotCSN` | `XidVisible`, `CommittedXidVisible`, and `Visible`, `HintCommitted`, `HintAborted` for what they return |
| `polar_xact_get_csn`, `polar_csnlog_get_csn_recursive` | `Begin` (cache, upper bound), `FetchFromClog`, `WalkDown`, `WalkUp`, `WaitForCommit`, `Finish` |
| `CreateCheckPoint`, `ComputeXidHorizons`, `polar_csnlog_truncate` | `CheckpointBegin`, `HorizonBegin`, `HorizonScan`, `Truncate` |

`asOf` is a history variable: the xids that had a CSN when the snapshot read
`polar_next_csn`. It is what visibility is measured against. Xids do not wrap
around. An entry that was truncated stays readable in the model, and
`LookupsInLog` says that no reader looks at it.

### RingBuf, XlogQueue, MetaQueue, MCXlogQueue

`RingBuf` has the functions of `polar_ringbuf.c` as operators: positions that
grow without bound, a ring of cells, slots of references with a read position.
A header is one cell and a body cell holds arbitrary bytes. `XlogQueue` has what a
reader takes the bytes at its position for (`Headers`: at a body cell any header,
ready or not, of any type, LSN and length), and the processes of a primary:

| Code | Action |
|---|---|
| `ReserveXLogInsertLocation`, `XLogInsertRecord` after it, `polar_xlog_send_queue_push` | `Reserve`, `ReleaseInsertLock`, `WaitForSpace`, `SetPktLen`, `SendQueuePush` |
| `XLogBackgroundFlush` with `WaitXLogInsertionsToFinish` | `FlushRequest`, `XLogWrite` |
| `polar_logindex_primary_save` | `SaverNewRef`, `SendQueuePop`, `SendQueueEmpty`, and `KeepNewRef`, `KeepJump`, `KeepStep`, `KeepDone` of `polar_xlog_send_queue_keep_data` |
| `WalSndLoop`, `polar_xlog_send_queue_check`, `polar_send_physical_by_queue`, exit | `WalSndStart`, `CheckPromote`, `CheckNewRef`, `CheckScan`, `CheckEnd`, `SendPromote`, `RawDataPop`, `SendEnd`, `WalSndExit` |

An LSN is the number of records that end at or before it. `MetaQueue` is the
abstract specification: records are reserved in order, published in any order,
flushed in order, and taken once, in order, when published and flushed.
`SavedInOrder` is the refinement. A walsender may make its reference between two
packets (section 5), and no code notices; it goes through the same steps as any
other and reads bytes of a body. The history variable `astray` has these
walsenders, until the reference is made anew at a packet; `NothingSkipped` leaves
them out, and all other properties hold in spite of them. Simplifications:
walsenders start after the saver's first pass (section 5); the shortcut of
`last_flush_ptr` is left out, which only puts off packets sent before; and so is
the PANIC of the check when a body looks like a packet too short for an LSN (a
restart, after which the queue is empty). `XLogBackgroundFlush` backs off to the
last completed WAL page (`xlog.c:4464`) and leaves the rest to its branch for
asynchronous commits and to the flushes of commits; `FlushRequest` stands for
all of them and may pick any position, so `SaverCatchesUp` assumes that somebody
flushes what is left of the last page.

### Proof modules

Three chains, in each of which a module extends the one before.
`ConsistentLsnWalRule` (which actions change which variables, moves of the
program counter, types, locks, the WAL rule), `ConsistentLsnProofs` (what is on
disk, in the list or in a copy, and redo; the order of the LSNs; the gate for
future pages). `CsnCommitProofs` (the invariant of the writers),
`CsnSnapshotProofs` (what readers know, why writers keep it, taking a snapshot,
checkpoints), `CsnVisibilityProofs` (the visibility check, the theorems, and the
types). `XlogQueueSteps` (offsets in the ring, references, positions),
`XlogQueueProofs` (the cells, the readers, and the theorems). In each, a leaf is
for Zenon unless it names SMT, which is kept for arithmetic.

## 3. What is checked

| Run | Instance | Shows |
|---|---|---|
| `minheap` | 6 lists, 3 LSNs | after any sequence of inserts, pops, updates and removals the heap is its reference (`HeapIsReference`) and pops a least LSN (`PopsLeast`) |
| `flushlist_safety` | 3 buffers, 2 lists, 2 writers, 3 LSNs, one error | lists sound and sorted, cursor on its list, heap exactly the free non-empty lists, one writer per list, refinement of `FlushQueue` |
| `flushlist_liveness` | 3 buffers, 2 lists, 1 writer | every listed buffer is flushed in the end |
| `lsn_two_buffers` | 2 pages in 2 partitions (one of an FSM or INIT fork), 2 processes, 1 copy buffer, 1 replica | everything below the consistent LSN is on disk, WAL before data, no PANIC and no WARNING, no future page by a flush that looks at the oldest apply LSN, no write takes a change back |
| `lsn_crash` | 1 page, 2 processes, 1 copy buffer, 1 replica, 1 crash | redo point safe, nothing lost, the redo point does not fall back, no write takes a change back |
| `lsn_hints` | 1 page, 2 processes, hints, slots dropped and attached, 1 crash, 2 records | the consistent LSN is safe, no buffer behind it and nothing lost, with hint records under a shared lock |
| `csn_snapshot` | 2 writers, 1 reader, 3 xids of at most 2 top-level transactions, 1 checkpoint | a visibility check answers for the instant of its snapshot, hint bits are true, the PANIC and the Assert of the lookup are not reached, no lookup meets a truncated entry, the oldest active xid never stays behind, entries are final |
| `xlog_queue` | 3 records, 2 inserters at a time, 1 walsender, a ring of 4 cells | packets whole until read, strong references stay, the saver takes every record once, in order and flushed (refinement of `MetaQueue`), a walsender whose reference was made at a packet leaves nothing out, the saver catches up |

Three runs state a sentence of the repository that the code does not keep, and
one shows a defect; all four are in section 5.

Bounds. `MaxLsn` caps the insert position (`Room` keeps a unit for every record
that is being made, so that no process is stuck half way), `MaxCrash` the
crashes, `MaxErrors` the write errors. Three records are enough for a page to be
modified, copied, modified again and flushed while a checkpoint runs. In
`lsn_hints`, where hints and slots multiply the states, there are two, of which
either may be the hint's; the proofs cover all of it without bounds. `lsn_two_buffers` leaves checkpoints
(`NoCheckpoint`) to `lsn_crash` and `lsn_hints`: without hints and crashes nothing
else depends on the redo point. Two processes suffice for every race of which we
know (they are backend and writer in turn); the proofs cover more. Two lists and three buffers give a
list with two buffers (move, remove from either end, cursor in the middle) next
to another list in the heap; six heap entries give three levels. Processes and
writers are symmetric except in `flushlist_error` and the liveness run.

`csn_snapshot`: `MaxXid` caps the xids, `MaxTops` the top-level transactions and
`MaxCheckpoints` the checkpoints. Three xids give a transaction with a child and
a grandchild, or one with a child next to another transaction. `GroupSize = 2`
puts two of them under one upper bound, `ListMax = 1` lets the list overflow.
The constraint `Focus` leaves out products of features that do not meet: with a
list of xids, or once the single-item cache of a reader is filled, a
subtransaction and a second transaction do not occur together; with a checkpoint
there are transactions and snapshots but no checks (`LookupsInLog` speaks of both
apart). The proofs need no such constraint.

`xlog_queue`: a ring of 4 cells holds one or two packets of one or two cells, so
three records lap it and two inserters wait in it together. `MaxRefs` bounds the
references that are made: one of the saver, and two of which either is to keep
data or the walsender's, so that the walsender's is evicted and made again, or its
slot goes to the other. `KeepSize` and `KeepEvery` make
the keep reference move. `MaxPosition` bounds how far a walsender reads that is
astray; it is above every position that packets get to.

Fairness of `flushlist_liveness`. `CtlSection` is a few instructions under a
spinlock: weak fairness. A background writer keeps running: weak fairness on its
steps, and strong fairness on `GetBatch`, which has to get a spinlock that
others take and release. A page offered again and again is written in the end
(strong fairness per buffer), which assumes that replicas keep applying WAL.
Errors are excluded there; what they do is the run `flushlist_error`.

Fairness of `xlog_queue`. Inserters are in a critical section that polls for
space, walwriter and logindex writer are loops that latches and timeouts wake,
and a walsender that has started a turn ends it: weak fairness on the flush, on
the saver and on each walsender, and strong fairness on the inserters together.
An inserter in `polar_ringbuf_wait_for_space` looks every 10 microseconds whether
the slowest reference is weak and may be evicted. A walsender that finds nothing
to send sleeps with a weak reference, so the inserter meets it weak; with weak
fairness alone, one that is astray could make its reference strong and weak for
ever and be strong whenever the inserter looks. No fairness on starting or ending
walsenders or on new records.

Each property has a mutant, an altered definition in the same module marked
`Mutant:` (a dropped lock, a missing wait, an off-by-one, a cursor not moved),
under which TLC finds it violated.

## 4. What is proved

For every value of the constants, with the assumptions `ConstantsAssumption`
(`NoBuf` is no buffer, the bounds are numbers, and so on), `CsnCommitAssumption`,
`CsnSnapshotAssumption`, `RingBufAssumption` and `XlogQueueAssumption`:

| Theorem | Module | Statement |
|---|---|---|
| `TypeCorrect` | ConsistentLsnWalRule | `Spec => []TypeOK` |
| `WalRule` | ConsistentLsnWalRule | `Spec => []WalBeforeData` |
| `ConsistentLsnIsSafe` | ConsistentLsnProofs | `Spec => []ConsistentLsnSafe` |
| `RedoPointIsSafe` | ConsistentLsnProofs | `Spec => []RedoPointSafe` |
| `NothingLost` | ConsistentLsnProofs | `Spec => []NoLostUpdate` |
| `DiskNeverLoses` | ConsistentLsnProofs | `Spec => DiskKeepsChanges` |
| `OldestIsNotBehind` | ConsistentLsnProofs | `Spec => []OldestNotBehind` |
| `CalculationAdvances` | ConsistentLsnProofs | `Spec => []ConsistentLsnAdvances` |
| `RedoPointAdvances` | ConsistentLsnProofs | `Spec => []RedoNeverFallsBack` |
| `NoPageFromTheFuture` | ConsistentLsnProofs | `Steady` implies `Spec => []NoFuturePage` (pages last written by a flush that looks) |
| `AnswersAreAsOf` | CsnVisibilityProofs | `Spec => []AnswerIsAsOf` |
| `HintsAreTrue` | CsnVisibilityProofs | `Spec => []HintsTrue` |
| `StatesAreRight` | CsnVisibilityProofs | `Spec => []NoWrongState` |
| `LookupsStayInLog` | CsnVisibilityProofs | `Spec => []LookupsInLog` |
| `OldestIsKept` | CsnVisibilityProofs | `Spec => []OldestHasKeeper` |
| `EntriesAreFinal` | CsnVisibilityProofs | `Spec => EntriesFinal` |
| `TypesHold` | CsnVisibilityProofs | `Spec => []TypeOK` |
| `QueueTypes` | XlogQueueProofs | `Spec => []TypeOK` |
| `QueueStrongRefs` | XlogQueueProofs | `Spec => []StrongRefsStay` |
| `QueueIntact` | XlogQueueProofs | `Spec => []PacketsIntact` |
| `QueueNothingSkipped` | XlogQueueProofs | `Spec => NothingSkipped` (references made at a packet) |
| `QueueRefinement` | XlogQueueProofs | `Spec => SavedInOrder` (`MetaQueue` is implemented) |

None of these is inductive by itself.

### The consistent LSN

The argument, in the order of the modules:

1. `Locks`: content locks, the I/O flag and list locks exclude each other. This
   is what makes "a process at this program counter holds this lock" usable.
2. `WalBounds`, `PageBounds`, `HeldBounds`: every LSN in a page, copy, list or
   local variable is at most the insert position, so a new record is above all
   of them; `Copies`: a copy belongs to one buffer; `Writing`: what a process is
   about to write is covered by flushed WAL, although hints may raise the page
   LSN during the write. Together (`WInv`) they give `WalRule`.
3. `Listing`: a buffer is in the flush list, with an oldest LSN not above the
   insert position, before its change is logged. `Redoing`: redo never meets a
   change between the disk and its own position. `LsnToSet` and
   `MemoryHasChanges`: memory has every change, or a process is about to set its
   LSN.
4. `Covered`, the heart: every change is on disk, or its buffer is listed with an
   oldest LSN at or below it, or it is in a copy whose oldest LSN is at or below
   it. `CopySound`: what the list no longer covers after a buffer was moved to
   the tail is covered by its copy. `CalculationSound`: the value a process holds
   while it scans the copy buffers is a lower bound for what is not on disk and
   not in a copy it has yet to read. From these `ConsistentLsnSafe` and, as a
   checkpoint waits for the consistent LSN, `RedoPointSafe` are preserved.

`IInv` is the conjunction. The proof of each conjunct has one step per action
that can disturb it; frame lemmas (`WalSteps`, `BufSteps`, ...) and one lemma on
program counters (`Moves`) dispose of the other actions.

5. `Order` and `Calc` (in `OInv`, on top of `IInv`): the consistent LSN and the
   redo point of the last checkpoint are *floors*, that is, no buffer of the list,
   none about to be put there and no copy is older. A floor stays one because a
   new oldest LSN is the insert position, read under the list lock, or the start
   of the record being replayed; and what a calculation holds is a floor of all it
   has read so far, and at least the consistent LSN it read first. During redo
   this needs the rule that the code follows with an empty list: the start of the
   record being replayed, not its end (`MaxValidLsns`); it may be that record's as
   soon as its replay has begun, and the redo point before the first one.
6. `Gates`: what a flusher that looks found out (the page, or the copy, is not ahead
   of the oldest apply LSN) still holds when it writes, because only a record raises the
   LSN of a page, under the exclusive lock, and the oldest apply LSN grows. This
   is proved under `Steady`: no hints, no slots that come and go, no crash. Hints
   and crashes break it, as `hint_future_page` and `crash_future_page` show, and a
   slot that is attached is behind by definition.

### CSN snapshots

1. `Trees`: the xids of a running transaction are one writer's, the top-level xid
   is the oldest, and every other has its parent before it in the same tree.
   `Entries`: what the entry of an xid can be at each step of its writer.
   `Csns`: a CSN in an entry, or on its way there, is below `polar_next_csn`, and
   at most the upper bound of its group once the entry has it. `Scans`: what a
   process that advances the oldest active xid has passed is finished.
   `Keepers`: the oldest active xid has someone to advance it. Together
   (`CommitInv`) they are inductive for the writers alone.
2. `ParentsHaveCsn`: children are written before their parent and with the same
   CSN, so an xid with a CSN has a parent with one.
3. For each reader, `XminOf`: its xmin is at most the oldest active xid, and the
   cache holds what cannot change. `SnapOf`, the heart: the snapshot's CSN
   separates the xids of `asOf` from all others, and `asOf` lies below its xmax.
   `ListOf`: what the list leaves out so far. `WalkOf`: the chain from the asked
   xid to its ancestors, and what was found for the parent of the next one to
   return to. `AskOf`: what an answer will be given from. `CkptInv`: a checkpoint
   cuts off at most the xmin of every reader, whether its scan came before or
   after the reader announced it; the cap at the oldest active xid is what this
   rests on.

A step of a writer keeps all of that because entries are final and a CSN given
later is not below the snapshot's; a step of a reader changes only its own part.
`SnapInv` is the conjunction. `Bounds` adds what `TypeOK` says beyond it: the
latest completed xid stays below the next (`Latest`), and the list never has more
elements than its array (`ArrayOf`), by cardinalities of finite sets.

### The WAL meta queue

1. Remainders. Positions grow without bound and share the cells of the ring:
   positions less than a lap apart are different cells, and the cells that
   `polar_ringbuf_update_pread` clears are those of the positions between the old
   `pread` and the new, no other (`Apart`, `Offset`, `FreedIs`).
2. `Layout`, `Space`: packets lie one after the other, and one that may be written
   ends within the lap that starts at `pread`. `RefsHeld`: numbers of references are
   unique, so that a slot answers to one reference only, also after an eviction.
   `SlotsAhead`: no reference is behind `pread`. `Unborn`, `SaverAt`: the saver's
   reference is strong, is made first, and stands at the start of the packet after
   the last one taken. `StrongRefsStay` is one of the conjuncts.
3. `Cells`: in the lap that starts at `pread`, the pushed packets are whole and no
   other cell looks like a packet that is ready. So what is read at the start of a
   packet is that packet, or nothing (`AtStart`).
4. `Readers`: the reference of a walsender that is not astray is at the start of a
   packet, and once its check has succeeded at one not beyond the next to send.
   An eviction takes the reference away and the next one is made anew, at a packet
   or astray.

`QInv` is the conjunction. For the refinement each action is a step of
`MetaQueue` (`Reserve`, `SendQueuePush`, `XLogWrite`, `SendQueuePop`) or leaves its
variables alone.

### Only model-checked

All of FlushList and MinHeap and the refinement of `FlushQueue`: their operators
(walks along the links, sifting in the heap) are recursive, and what a recursion
computes for every input is beyond the prover. Liveness (`EventuallyFlushed`,
`SaverCatchesUp`): fairness is beyond it too.

## 5. Where code and text disagree

* `flushlist_error`: an ERROR in `SyncOneBuffer` unwinds to the `sigsetjmp` of
  the background writer, which never calls `polar_flush_list_flush_end`; the list
  stays `flushing` with no writer, and no background writer takes it again.
  Backends and the checkpointer still flush its buffers.
* `hint_covered`: the comment of `MarkBufferDirtyHint` describes a race between a
  hint and a flush and says it is avoided. With two processes that set hints on
  the same clean page it remains. Only hints are concerned, which may be lost:
  `ConsistentLsnSafe` holds with hints on, and is proved.
* `hint_future_page`: with full-page snapshots off, a hint between the check
  against the oldest apply LSN and the write puts a future page on the storage.
* `crash_future_page`: after a restart the oldest apply LSN is unknown until the
  first feedback of a replica, and every page may be flushed meanwhile, although
  the slot of the replica was kept.

Further places were met where the code does less than its text says, or where
only something else makes up for it. They have no run of their own: the
properties claim what holds, and most of them are among the hazards of
`PROJECT.json`, with a note.

* A snapshot with a list of xids. A transaction that has its CSN and is still
  marked `COMMITTING` is listed as running, although `polar_csnlog.c:833-836` says
  its CSN must be at least the snapshot's; and a running subtransaction is not
  listed, although `heapam_visibility.c:1983-1985` takes what is not listed for
  finished. `AnswerIsAsOf` and `HintsTrue` claim less of such snapshots.
* `ProcArrayEndTransactionCSN` and `ComputeXidHorizons` both hold `ProcArrayLock`
  shared, so the horizon of a scan can pass the xmin of a reader. For the csnlog
  the cap at the oldest active xid (`xlog.c:9023`) makes up for it; vacuum is not
  modelled. The truncation also ignores processes with `PROC_IN_VACUUM`, and the
  scan of `polar_csnlog_get_next_active_xid` holds no xmin.
* `polar_ringbuf_ref_keep_data` steps over packets whose length is not written
  yet and may stop between packets, and a reference that a walsender makes there
  reads bytes of a body as a header. The saver and the packets are not touched;
  what that walsender sends may be anything (`astray` in `NothingSkipped`).
* `polar_xlog_send_queue_check` may succeed behind what was sent from files, and
  records are sent twice.
* The saver makes its reference in its first pass, and nothing orders that before
  the first walsender. The model does (`WalSndStart`).

## 6. What is not modelled

* Full-page snapshots (`polar_enable_fullpage_snapshot`) are taken to be off. With
  the setting on, a page ahead of the replicas may be written after its older
  version was logged for them: `NoFuturePage` is then not what the code aims
  at. The branches are `bufmgr.c:3788-3795` and `bufmgr.c:4408-4417`.
* `NoFuturePage` is not claimed of pages that `FlushRelationBuffers`,
  `FlushRelationsAllBuffers` or `FlushDatabaseBuffers` wrote last: they do not look
  at the oldest apply LSN, and that no replica reads such a page meanwhile is a
  matter of DDL synchronisation. `FlushOneBuffer`, for redo of INIT forks and hash
  indexes, is not modelled.
* Write combining (`FlushBufferNext`) flushes neighbouring buffers in the same
  call, each under the same checks.
* The thresholds of `polar_buffer_copy_is_satisfied` (lag, recently modified
  count) only decide when a copy is worth making: the model may make one
  whenever the hard conditions hold, or decline. `polar_flags` other than
  `FIRST_TOUCHED_AFTER_COPY` are read by asserts and statistics only.
* The shutdown checkpoint and its treatment of inactive slots, online promotion,
  dropping of buffers, the lock LSN of replicas.
* CSN: prepared transactions, imported snapshots (`ProcArrayInstallImportedXmin`
  and the CSN of the exporter), redo of the csnlog on replicas, xid wraparound,
  the SLRU pages under the entries.
* WAL meta queue: the receive queue of replicas with `polar_ringbuf_free_up`, the
  reset at promotion, decoding of a packet.
* Components marked `not_modelled` in `PROJECT.json`, with the reason there.

## 7. Plan

In this order; each with its own MC module, reusing the names of the code.

1. `AsyncLockReplay`: startup process, worker and waiting locks; the applied LSN
   never passes a lock not yet taken; every lock of a finished transaction is
   released.
2. `LogIndex`: mem tables (free, active, inactive, flushed), saving with meta
   file, look-up, restart and promotion. Property: every record at or above the
   start LSN of a look-up is found exactly once, in order, across a crash.
   `XlogQueue` is its input.
3. The receive queue of replicas, the reset at promotion, and the saver's first
   pass racing walsenders.
4. `RelSizeCache` and `LogIndexRedo`: lock-free reads with generations; replay on
   access against replay in the background.
5. Imported snapshots, prepared transactions and vacuum with `CsnSnapshot`.
6. Compositions: `ConsistentLsn` with full-page snapshots and write combining;
   progress of checkpoints with fair replicas; the replica that starts at the
   consistent LSN with `LogIndex`.
7. Proofs: the flush list with queues in place of links, and its refinement of
   `FlushQueue`.
