# A TLA+ verification of the Extensible Storage Engine

This directory models the parts of the Extensible Storage Engine (ESE) that carry
its concurrency and its crash safety: the locks every other part is built on, the
version store and its transactions, the log, recovery, and the buffer manager.
Paths below are relative to `src/dev/ese/`.

## 1. The system

ESE is an embedded transactional storage engine. Sessions (PIBs) run
transactions with snapshot isolation on B+ trees. Trees live on pages that a
buffer manager caches; changes go to a write-ahead log; recovery replays the log
after a crash.

| Component | State it keeps | Operations | Works with | What is hard, and what makes it correct |
|---|---|---|---|---|
| S/X/W latch (`published/inc/sync.hxx`, `CSXWLatch`) | a control word, a count of quiesced owners, three semaphores | acquire, try, upgrade, downgrade, release, wait | every page in the buffer manager | three pieces of state that no instruction updates together; exclusion, no lost and no spare wake-up, service of waiters |
| Other synchronization primitives (`published/inc/sync.hxx`, `src/sync/sync.cxx`) | packed state words, a pool of kernel semaphores | enter, leave, wait, set, release, partition | everything | hand-over between groups of owners; waits that time out while they are served; kernel semaphores that change their user |
| Version store (`src/ese/ver.cxx`, `src/inc/ver.hxx`) | RCEs in chains per node and in a list per session, buckets | create, look past, commit, undo, nullify, clean | trees, transactions, cleanup tasks, create-index | commits and rollbacks reach the RCEs one by one; cleanup uses an oldest transaction it read earlier; every snapshot must stay what it was; no bucket is freed too early |
| Transactions (`src/ese/dir.cxx`, `src/ese/pib.cxx`, `src/inc/pib.hxx`) | level, `trxBegin0`, `trxCommit0`, `m_trxNewest`, cached oldest transaction | begin, commit, rollback, `TrxOldest` | version store, log | the window between drawing a commit number and publishing it; a cache with a stale flag; numbers that wrap |
| B-tree and nodes (`src/ese/bt.cxx`, `src/ese/node.cxx`) | pages of nodes | seek, insert, replace, delete, delta, lock, split, merge, page cleanup | version store, buffer manager, log | version and page change in two steps; page cleanup against readers |
| Log (`src/ese/_log/`) | log buffer, write and flush positions, files, checkpoint | append, write, flush, roll over, truncate | buffer manager, transactions | group commit, durability before the commit returns, torn segments, the checkpoint not past what is needed |
| Recovery (`src/ese/_log/logredo.cxx`) | the redo position, recovered sessions | redo, undo | log, version store, pages | pages newer or older than the record that is replayed; crashes while recovering |
| Buffer manager (`src/ese/bf.cxx`, `src/inc/_bf.hxx`) | cached pages, versioned copies, undo information, dependencies | latch, dirty, flush, evict | latch, log, disk | write-ahead rule, order of flushes, writes without a latch, evicting while others look up |
| Database map and range locks (`src/ese/fmp.cxx`) | databases, arrays of locked ranges | lock and unlock a range, enter to write a page | buffer manager, backup | an array that is replaced while others look at it |
| Space manager, catalog, records, long values, page format | trees and schema | allocate, create, modify | B-tree | layered on node operations; mostly sequential under latches |
| Flush map, revert snapshot, block cache, hash table, task manager | maps, journals, queues | | buffer manager, files | their own crash and concurrency rules |
| OS layer, maintenance tools, API, checksums | | | | I/O, offline tools, dispatch, byte computations |

`PROJECT.json` lists every component with its status, and under `hazards` the
places where each of these difficulties bites in the code, with the properties
that would catch it.

## 2. Modules

| Module | Models | Role |
|---|---|---|
| `Latch` | | what a lock with shared, exclusive and write owners promises its clients |
| `SXWLatch` | `CSXWLatch` in `published/inc/sync.hxx` | the latch, one step per interlocked instruction; implements `Latch` |
| `ReaderWriterLock` | `CReaderWriterLock` | implements `Latch` too |
| `BinaryLock` | `CBinaryLock` | two groups of owners that exclude each other |
| `CountingSemaphore` | | what a semaphore or an auto-reset signal promises |
| `SyncObject` | `CSemaphore`, `CAutoResetSignal`, `CManualResetSignal`, `CGate`, `CKernelSemaphorePool` | implements `CountingSemaphore` |
| `RangeLock` | range locks of `fmp.cxx` over `CMeteredSection` | |
| `SnapshotIsolation` | | what the version store promises |
| `VersionStore` | `ver.cxx`, `ver.hxx`, and what `dir.cxx`, `pib.*`, `bt.cxx`, `node.cxx`, `fcreate.cxx` do with versions | the detailed version store; implements `SnapshotIsolation` |
| `TrxOldest` | `TrxOldest` and the per-processor lists of `pib.hxx`, `pib.cxx` | the oldest transaction that `VersionStore` reads, and its cache |
| `TrxNumber` | `TrxCmp`, `RceidCmp` and the counters behind them | order across wraparound |
| `VersionBuckets` | buckets, cleanup tasks, quota, detach and shutdown of `ver.cxx` | |
| `LogBuffer` | `_log/logwrite.cxx`, and the search for the end of the log in `_log/logread.cxx` | |
| `Recovery` | write-ahead rule, checkpoint, redo and undo: `bf.cxx`, `ver.cxx`, `node.cxx`, `logapi.cxx`, `_log/log.cxx`, `_log/logredo.cxx` | composes log, cache, transactions and recovery |
| `BufferCache` | latching, versioning, flushing and evicting pages: `bf.cxx` | |
| `VersionStore_proofs`, `BufferCache_proofs` | | machine-checked proofs about the modules they are named after |
| `Recovery_proofs`, `RecoveryState_proofs` | | machine-checked proofs about `Recovery`: what redo relies on, then what recovery restores |
| `MCRecovery_proofs` | | carries them over to the specification `MCRecovery` checks |
| `Locks_proofs` | | machine-checked proofs about `SXWLatch`, and about `ReaderWriterLock` and `BinaryLock` as `MCLocks` instantiates them |
| `RangeLock_proofs` | | machine-checked proofs about `RangeLock`, as `MCLocks` instantiates it |
| `Transactions_proofs` | | machine-checked proofs about `VersionBuckets`, and about `TrxOldest` and `TrxNumber` as `MCTransactions` instantiates them |
| `MCLocks`, `MCVersionStore`, `MCTransactions`, `MCLogBuffer`, `MCRecovery`, `MCBufferCache` | | instances for TLC (section 3) |

Definitions whose comment begins with *Slip* are not part of a specification.
Each is a plausible mistake in the definition that follows it; with the mistake
in place the named property fails (`mutants` in `PROJECT.json`), which shows that
the property depends on the code.

The modules meet where one states what another relies on. `BufferCache` uses of a
latch what `Latch` promises, which `SXWLatch` implements. The semaphores in
`SXWLatch`, `ReaderWriterLock` and `BinaryLock` are counts, as
`CountingSemaphore` describes them and `SyncObject` implements them, call by call.
`VersionStore` reads the exact oldest transaction and compares numbers that do not
wrap; `TrxOldest` shows that the cached value was exact at some moment of the
call, `TrxNumber` that the comparison of wrapped numbers is the order in which they
were drawn. `Recovery` knows the log as a durable prefix of records, which is what
`LogBuffer` establishes. `BufferCache` lets a flush be refused at any time;
`Recovery` says when it is.

### 2.1 SXWLatch

| Variable | Code |
|---|---|
| `cw` | `State().m_cw`: bits 0-14 `m_cOOWS` (shared owners or waiters), bit 15 `m_fQS` (shared latches quiesced), bits 16-31 `m_cOAWX` (exclusive owner and waiters) |
| `cQS` | `State().m_cQS`; the code's DWORD is read as the signed number it wraps to |
| `semS`, `semX`, `semW` | available counts of `m_semS`, `m_semX`, `m_semW` |
| `latch[t]` | what the thread owns (`S`, `X`, `W`) or has declared to wait for (`waitS` ...) |
| `dQ`, `postS`, `postX`, `postW` | what the thread's operation has yet to do after its interlocked instruction: the update of `m_cQS`, the releases of the semaphores |

One interlocked instruction is one step. A compare-exchange loop is its
successful iteration; a call that returns `errLatchConflict` changes nothing and
is a stuttering step. The blocking `Acquire...` wrappers are an `Err...` call
followed by the wait. A writer that finds shared owners moves their count from
`m_cw` to `m_cQS` in two instructions; owners may leave between the two, so
`m_cQS` passes through negative values, and through zero at most where the
writer is to be woken. Semaphores are counts: which waiter gets a count is left
open, and in particular a thread that began to wait under a later writer may take
a count meant for an earlier one.

### 2.2 VersionStore

| Variable | Code |
|---|---|
| `trxNewest` | `INST::m_trxNewest` |
| `level`, `trxBegin0`, `trxCommit0` | the fields of a PIB |
| `pc`, `local` | where a session is inside an operation, a commit, a rollback or page cleanup; the RCE it is making, or the commit number it has drawn and not yet published |
| `rce`, `rceidLast` | the RCEs that are not nullified: node, session, level, operation, `trxBegin0`, committed number once fully committed, before image or delta, rolled-back flag |
| `page` | the node on its page: absent, live or flagged deleted, and its data; "checked" and "expunged" while page cleanup has the page write-latched |
| `clean` | the cleanup thread: idle, scanning, about to nullify an RCE, with the oldest transaction it has read |
| `indexLock` | `g_crefVERCreateIndexLock > 0` |

The steps of the code that others can see between are steps of the model:

* Commit to level 0 is `SetPrecommit`, `DrawCommit0`, `PublishCommit0`, one
  `VERICommitOneRCEToLevel0` per RCE, `EndCommit`. A caller of `TrxCommitted` that
  finds `trxPrecommit` waits; an operation that would wait is disabled
  (`Settled`), and the value that a reader will get is given by `TrxCommitted`.
* `Replace` and locks make their version while the page is latched. Insert,
  delete and delta make it first and latch the page later (`Begin...`, then
  `ErrND...`), or fail in between and take it back (`VERNullifyFailedDMLRCE`). An
  insert over a node that is flagged deleted makes a second version for the data.
* Rollback undoes the RCEs of the level from the newest to the oldest, each with
  its page in one step (`ErrVERITryUndoLoggedOper`); RCEs that a concurrent
  create-index may be looking at stay, flagged, until it is over.
* Cleanup reads the oldest transaction, looks at the oldest RCE, and nullifies it
  and its followers in a later step.
* Page cleanup (`ErrBTISPCDeleteNodes`), under the write latch of the page, finds that
  a deleted node has no active version, takes the node from the page
  (`ErrNDDelete`), and nullifies its inactive versions
  (`VERNullifyInactiveVersionsOnBM`), in three steps. Who wants the page waits
  meanwhile (`Latchable`); versions that are made before the page is latched go on
  the chain in between, transactions begin and commit, and cleanup runs.

Abstractions: a node is a bookmark of a unique tree and holds one number. The
version bit of a node is left out, as it only saves lookups of empty chains.
`trxPrecommit` is -1 here (the code takes a value just below `trxMax`);
transaction numbers do not wrap (`TrxNumber`), and the oldest transaction is the
exact minimum (`TrxOldest`). Page cleanup takes one node at a time, and never meets
the last node of a page, which the code keeps and empties.

### 2.3 TrxOldest, TrxNumber, VersionBuckets

`TrxOldest`: a session draws its number and enters the list of its processor under
that list's lock (`PIBSetTrxBegin0`), and leaves it (`PIBResetTrxBegin0`); a caller
reads the flag, takes `m_critTrxOldestCached`, clears the flag, locks the lists one
after the other, stores the minimum, and reads the cache after all locks are
released. `seen` is a history variable: the minima there were during a call.

`TrxNumber` keeps unbounded counters and gives the code their remainders. It
assumes that all numbers in use lie within half the range (`Within`): the code has
no guard for it, but it takes 2^29 transactions during one transaction to break
it. The scenarios let the counters wrap more than once, past the special values
`trxMax` and `rceidNull`.

`VersionBuckets` leaves out what RCEs hold: an RCE is active, committed, old
(below the oldest transaction) or nullified. Modelled are the list of buckets,
the quota and the wait for a cleanup, the signals between sessions and the
cleanup task, cleanup with its restart place in each bucket and with skipped
buckets, cleaning one database at detach, the synchronous mode and the shutdown.
While a database is cleaned for its detach nobody creates versions in it: its users
are gone by then ("the database has been closed so no user actions can be
performed", db.cxx:5544).

### 2.4 ReaderWriterLock and BinaryLock

As in the latch, one interlocked instruction is one step, and what an operation
still owes is in `todo`. The four legal states of the control word are those that
the comments of the classes describe. The difficulty is the hand-over: a thread of
the group that is kept out moves the owners to `m_cOwner` in two instructions, the
last of them that leaves takes `m_cOwner` to zero, lets the other group in and,
if its own group has waiters, moves the new owners to `m_cOwner` in turn.
`CountsAgree` says what the counts mean in each of these states. The two groups of
`BinaryLock` are mirror images and a parameter here.

### 2.5 SyncObject

The word of an object is a count or a number of waiters with the kernel semaphore
that serves them. A thread that must wait allocates one or references the one in
the word, and may time out: if its place in the word has been taken by a release
meanwhile, it must absorb the count that is on its way. Left out: spinning. Kernel
semaphores that do not exist yet count as available. Dropping the last reference
and returning the semaphore to the pool are one step (nobody else can name it
then). A gate requires its users to hold a critical section, which makes its
allocation and reference one step. A wait may time out whenever no count is there
for it. All threads may end up asleep at a gate.

`CountingSemaphore` is what a caller is promised. It keeps apart the counts that are
available and those owed to sleepers. `ImplementsSemaphore` pairs every step of the
code with the abstract step it must be: a wait that returns fTrue with `Take` or
`Wake`, one that returns fFalse with `TryFails` or `GiveUp` (which needs a sleeper to
whom nothing is owed), a `Release(n)` with exactly `n` counts, given to sleepers
first, `Set`, `Reset` and `ReleaseAllWaiters` likewise, and every other step with none.
So a count that is made up, lost in a time-out or returned twice violates it.

### 2.6 RangeLock

`CMeteredSection` with its two groups, and on top of it the two arrays of ranges.
`Partition` switches the current group and runs `PartitionComplete` in the thread
that leaves last. Copying an array is one step, which is sound because nobody is in
its group (`NobodyInOldGroup`). `MaxActive` stands for `cMaxActive` (0x7ffe), so that a
full section happens; running out of memory while the array grows is modelled.

### 2.7 LogBuffer

Positions are counted in units; a segment has `cbSec` of them, the circular buffer
`csecLGBuf` segments and a file `csecFile` segments for data and one for a
shadow. `ErrLGLogRec` is `LogRecReserve` (under `m_critLGBuf`), `Copy` (outside of it,
inside a metered section) or one of its ways out: restart after waiting for
room, a new file, an error. A write is a sequence of I/Os (`w.ios`), each of which
ends, fails or is cut short by a crash. The last, partly filled segment is
written and then written again as a shadow in the place of its successor; the next
write overwrites it in the right order. `CrashDisks` are the contents a crash can
leave: each segment of the I/O under way is there, is not, or is torn, in any
combination, since "order of sector updating is not guaranteed when writing
multiple sectors to disk" (logwrite.cxx:2882). A segment carries the number of
crashes before it was written, so that what an earlier run left behind is not
taken for what was acknowledged. `Usable` and `FReadable` are the scan of
`ErrLGCheckReadLastLogRecordFF`. `Restart` opens a log that can be read and goes on
after what was found; one that cannot be read stays refused.

`Durable` has two parts. However the segments of a write arrive, every record before
`m_lgposToWrite` is whole on disk, in good segments or their shadows. That the scan
*accepts* what is left is promised only for `OrderlyDisks`, where segments written for
the first time arrive in order and whole: the scan refuses a valid segment after an
empty one, and a torn one without a shadow (third observation of section 6).

Waits: `ErrLGWaitForWrite` enters the queue, and `FWakeWaitingQueue` wakes those whose
record is written; `FLGWriteLog` has the two semaphores `m_semLogSignal` and
`m_semLogWrite`, and `Check` at the end of a write makes up for signals that were
missed. Lazy commits share `m_lgposNextLazyCommit`, a tick and a timer task.

Left out: the flush tip as a position of its own, log stop and snapshots, failure
to commit memory for the buffer, renaming of files. The tests of the tick before
and after `m_critNextLazyCommit` is entered are one.

### 2.8 Recovery

| Variable | Code |
|---|---|
| `log`, `durable` | all records, and the written prefix (`LgposWriteTip`) |
| `disk`, `buf` | pages: values of their nodes and `dbtime`; in the cache also dirty, `lgposModify`, `lgposOldestBegin0` and the undo information owed |
| `sess` | a session with its Begin0 position, its RCEs and, in recovery, the rceids whose undo information has yet to come |
| `chk`, `ckpt` | the checkpoint file; an update of it under way, which looks at the log tip, the sessions and the pages one after the other |
| `waypoint` | with log loss resiliency the first position whose changes may not reach the database |
| `redo`, `mode` | the last record replayed; running, redo or undo |
| `acked`, `kept` | history variables, see below |

An update changes the page, makes a version and logs its record in one step, as
they happen under the write latch. Inserts carry in the log what their undo
needs; replaces and flag-deletes do not, so a page that holds one must log its
undo information (`LogUndoInfo`) before it is written, unless the transaction has
committed. `FlushPage` is allowed by the conditions of `ErrBFIPrepareFlushPage`: no
undo information owed, not touched after the waypoint, not past the written log.
Redo compares the `dbtime` of page and record, makes versions, applies undo
information and undo records; `BeginUndo` logs the beginning of undo, sessions left
open roll back, and recovery ends keeping the database attached or detaching it.

`RecoveredState` compares the pages with what the committed records of the log say.
A transaction that committed lazily counts as committed too if a crash loses its
commit record but the checkpoint had passed its begin (`kept`): its changes are
all on disk and nothing in the log undoes them, so it took effect as a whole
(second observation of section 6).

Left out or reduced: nested levels, several versions of a page, splits and merges,
redo maps, delta operations. Stale entries of clean pages in the begin-0 index and
rounding of positions there only make the checkpoint older. A page write is
atomic: torn page writes are the business of checksums. A node that is flagged
deleted has no value. The waypoint moves by records, not by files.

### 2.9 BufferCache

| Variable | Code |
|---|---|
| `hash` | `g_bfhash`: the current buffer of each page |
| `bf` | the `BF`s: page number, current and older flags, `err`, dirty, content, neighbours in the chain of versions, result of an I/O that nobody has looked at |
| `io` | the read or write under way on a buffer |
| `th` | where a thread is in latching, upgrading, copying or flushing, and its latch |
| `disk`, `latest` | the file; history: the last content of each page |

A buffer that is being written has the error `wrnBFPageFlushPending` and no latch;
the next exclusive owner completes the flush, or copies the page to a new
buffer if the write is still under way. Latching by hash and by hint, misses, read
ahead, synchronous reads, failing I/O, upgrades from shared latches, version copies,
flushing (which only tries latches and writes older versions first) and eviction
are actions. The latch is what `Latch` promises, with waiters let in in any order.
Copying a version, evicting and caching are one step each: they happen under the
write latch or the lock of the hash chain. Content is the number of updates.

Dirty pages are flushed (`ErrBFIFlushPage`), and with a page its neighbours in the
file are written, clean ones too when they fill a gap between dirty ones
(`GetFlushableNeighboringBFs`, for `CBFOpportuneWriter`). So a clean page may be under
write when it is changed: then it is copied, and what stays behind is a clean older
version at the end of the chain. It is taken out of the chain by whoever comes by
to flush or evict (`ErrBFIEvictRemoveCleanVersions`). The neighbour is looked up before
it is latched and may be an older version by then, which must not be written when it
is clean (bf.cxx:22383). In the model any buffer that was a page's may be a neighbour,
at any time: which pages are near a flushed one and which gaps are
worth filling is left open. A writer that holds several neighbours is several threads,
as it gets their latches by tries alone.

Left out: `BFPurge` and abandoned pages, hashed latches, the view cache and
dehydration, the WAR latch, the untidy and filthy levels, new pages, latches that do
not wait, which buffer is chosen for eviction. A flush may be refused at any time
(log dependencies, range locks), for good if errors are allowed (`FlushRefused`: the
log is down, or a version was taken out of the chain unwritten). The loop
that flushes older versions (bf.cxx:21455) stays at a clean one whose write
failed until somebody takes it out of the chain; in the model, too, `FlushOlderVersion`
does nothing then.

### 2.10 How the abstract state is read off

`Latch`: a waiter for `S` or `X` owns nothing; one that waits for `W` owns `X`.

`SnapshotIsolation` keeps the committed database and for each session a stack of
databases: the one it began with and one per open level. The refinement computes
the first as what a reader that began now would find (`ReadAs({}, ...)`), and each
level as what the session reads with its own RCEs above that level taken back.
It does so in *every* state, also in the middle of commits, rollbacks and
cleanups. The abstract commit happens when the number is drawn; an abstract
rollback when the rollback starts. All other steps of commit, undo,
nullification and cleanup must therefore change nothing that any transaction can
read, and `SI!Spec` fails if one does. A commit merges: it takes away nothing
that was committed since the transaction began, and only deltas may meet on one
node.

## 3. Runs

An MC module holds several small instances. In `MCLocks` a behaviour uses one
primitive, in the others it belongs to one *scenario*, chosen in the initial state
and never changed; a scenario instantiates the module with its own constants, or
restricts which pages or nodes a session uses. So one run asks one question of
several instances, each of which is large in one direction. The scenarios of
`MCRecovery` restrict the sessions, nodes, crashes and log records (`Dims`) of one
`Recovery`; *waypoints* uses an instance of it in which written log is lost.

| Run | Scenarios | Shows |
|---|---|---|
| `locks` | 4 threads on the latch, the reader / writer lock, the binary lock, the range locks (2 lockers, 2 writers, 2 pages); 3 threads on semaphore and auto-reset signal, or manual-reset signal and gate, with 2 kernel semaphores | `MutualExclusion`, `CountsAgree`, `NoLostWakeup`, `QuiescenceDrains`, `ImplementsLatch` (latch); `LockCountsAgree`, `RWImplementsLatch`, `GroupsExclude`; `NoWriteInLockedRange`, `RangeArrays`; `ImplementsSemaphore`, `PoolIsSound` |
| `locks_live` | 3 threads on the first four | `AllServed`: every declared waiter gets its lock; `RangesReleased` |
| `version_store` | *cleanup*, *nested*, *create*; *readers*, *locks*, *nodes* with 3 sessions | `VersionsSound` (first updater wins), `CleansOnlyOld`, `ImplementsSI` |
| `transactions` | *oldest*; *trxs*, *rceids*; *alloc*, *detach*, *notimeout*, *shutdown* | `OldestSound`, `ReturnsOldest`; `TrxOrder`, `ChainInOrder`; `BucketsSound`, `DetachLeavesNone`, `AllocEnds`, `TermEnds` |
| `log_buffer` | *shared*, *crash*, *flushes*, *room*, *lazy* | `LogDurable`, `BufferSound`, `CallsEnd`, `LazyWritten` |
| `recovery` | *lazy*, *shared*, *pages*, *crashes*, *waypoints* | `RecoveredState`, `RecoveryReliable`, `AckedDurable`, `RecoveryDone` |
| `buffer_cache` | *versions*, *threads*, *pages* | `SeesLatest`, `NoLostUpdate`, `CacheSound`, `StableWrite`, `DiskForward` |
| `buffer_cache_live` | 1 page, 2 buffers, 2 threads | `UpdatesReachDisk` |
| `vs_clean_race`, `vs_rolled_back_insert`, `vs_commute`, `lb_torn` | | violations, section 6 |

What the properties say:

* `QuiescenceDrains`: once shared latches are quiesced none is granted any more.
  `ImplementsLatch`, `RWImplementsLatch`, `ImplementsSemaphore`: refinements of
  `Latch` and `CountingSemaphore`. `PoolIsSound`: kernel semaphores pass from one
  object to another without a count, a waiter or a late release left over.
  `RangeArrays`: the array of ranges does not change under a thread that looks at
  it, is rewritten only when nobody can, and holds what is locked.
* `ImplementsSI`: section 2.10. `CleansOnlyOld`: cleanup nullifies only versions that
  all open transactions can do without, and when page cleanup takes a node away, no
  version of it is younger, but for those of inserts that wait for the page.
* `ReturnsOldest`: `TrxOldest` is linearizable. `OldestSound`: the cache is not ahead
  of a listed transaction, exact when nothing is pending, and lists are in order.
  `BucketsSound`: no RCE is lost with its bucket or passed by for good, whoever
  waits for a cleanup will be told, the flag about big transactions is right,
  shutdown leaves nothing behind. `DetachLeavesNone`: a cleanup of one database that
  has gone through all buckets leaves no version of it, although other sessions
  create versions, cut new ones from the newest bucket and nullify theirs meanwhile;
  detach relies on it ("All versions on this ifmp should be cleanable", db.cxx:5555).
* `LogDurable`: every record before `m_lgposToWrite` is whole on disk after a crash at
  any moment, in whatever order the segments of the write under way arrived; if they
  arrived in order, the log is accepted (section 2.7). `BufferSound`: a session is told
  that its record is on disk only if it is, and no byte is written before its
  session has copied it. `CallsEnd`, `LazyWritten`: waits end, lazy commits get
  written without another commit.
* `RecoveredState`: outside of recovery the database, less the changes of open
  transactions, is what the committed ones made of it. `AckedDurable`: a commit
  reported as durable stays committed. `RecoveryReliable`: what the code asserts on
  the way (the `dbtime` of a page matches the record, an undo finds its version, no
  undo information is missing when undo begins, `dbtime` is ahead of every page), and
  write-ahead logging.
* `SeesLatest`: who has a page latched has its last version. `NoLostUpdate`: what is
  not in a dirty current buffer is on disk. `CacheSound`: every dirty version is on
  the chain of its page, the chains are in order, a clean version is the end of its
  chain and is what the disk has, and one I/O at a time is under way for a page. `StableWrite`: a page
  does not change while it is written. `DiskForward`: the disk does not go back.

Bounds. Four threads give an owner and a waiter of each of two kinds, the thread
that leaves and the one that comes; the proofs remove these
bounds for the locks, the version store, the oldest transaction, the numbers, the
buckets, the buffer cache and recovery.
In the version store `rceidMax` bounds the RCEs ever made (2 or 3), `trxLast` the
transaction numbers, `levelMax` the levels: three RCEs allow a chain with a version to
be cleaned, one in the middle and one in the making. `TrxOldest` has two
processors, two sessions and two callers; its `trxLast` leaves three different
numbers of transactions, of which there is no bound. `VersionBuckets` has a quota of
2 buckets of 2 RCEs, so that the quota is reached, and in *detach* 3 buckets of one RCE,
so that the cleaner leaves buckets behind it, frees some and steps over others. The log buffer has 2 to 4
segments of 1 to 3 units and files of 2 to 4 segments, so that records span
segments, the buffer wraps and files end; `cbMax` bounds what is logged,
`ccrashMax` the crashes (2 in *crash*). Recovery has logs of 3 to 6 records (`MaxLog`, beside the
ones recovery writes), two crashes in *crashes* and one elsewhere; *shared* takes no
checkpoints, *crashes* and *waypoints* have one session that writes. The buffer
manager has 3 buffers for one page (two older versions of it, two updates, and I/O that
fails) with two threads; two of them for one page with three threads, of which one
reads and flushes, and one update; or 3 buffers for two pages, of which one is updated, so that versions of one page and reads of another
compete; in the last two no I/O fails.

Deadlock is checked in `locks`, `locks_live`, `buffer_cache` and
`buffer_cache_live`. In the others the bounded numbers, logs and crashes are used up in
the end, and the system stops.

Three restrictions of the passing runs follow from the findings: `QuietClean` is
TRUE (no transaction begins while cleanup works with `trxOldest = trxMax`, first
finding), the scenario *create* has no inserts (second finding), and
`fTearShadow` is FALSE (third finding).

Fairness.

* Locks (`LocksFairness`): weak fairness of the steps an operation still owes, which
  nothing blocks, and of leaving a reader / writer or binary lock, which its owners
  do. Strong fairness of waits: a thread that waits on a semaphore to which counts
  keep coming gets one in the end (kernel semaphores do not pass over a waiter for
  ever). Strong fairness of releasing a latch, also if its owner upgrades and
  downgrades before, and of unlocking a range. Nothing is assumed about acquiring.
* Transactions: sessions and the shutdown get a lock that is free again and
  again (strong), the worker, the signaller and posted tasks run (weak).
* Log: every thread inside an operation runs, the posted task and the timer fire,
  an I/O comes back, with or without an error (all weak).
* Recovery: redo goes on although checkpoint updates come in between (strong),
  checkpoint updates, rollbacks and the end of recovery go on (weak). The number
  of crashes is bounded.
* Buffer manager: I/O completes, threads that are inside go on (weak), latches are
  granted and released, and checkpoint maintenance and the scavenger come back to a
  dirty buffer however often they are refused (strong). `UpdatesReachDisk` also
  assumes that users leave the page alone infinitely often and that no I/O fails.

## 4. Proofs

A proof module EXTENDS the specification, states the inductive invariant it
needs as a conjunction of named parts, and has one lemma per action that says that
the action keeps it. All theorems are about every value of the constants that the
named assumptions of the modules allow; TLC evaluates these on the runs.

| Theorem | Shows |
|---|---|
| `Locks_proofs`: `CountsAgreeAlways`, `MutualExclusionAlways`, `AssertValidAlways`, `NoSpareCountAlways`, `NoLostWakeupAlways` | the invariants of the latch |
| `QuiescenceDrainsAlways`, `LatchImplemented` | the action property `QuiescenceDrains` and the refinement `ImplementsLatch` |
| `LocksCountsAgree`, `LocksGroupsExclude`, `LocksImplementLatch` | `LockCountsAgree`, `GroupsExclude`, `RWImplementsLatch` |
| `BufferCache_proofs`: `CacheInvariant` | the inductive invariant of the cache |
| `LatchedPageIsLatest`, `UpdatesKept`, `CacheStaysSound`, `WritesAreStable`, `DiskNeverGoesBack` | `SeesLatest`, `NoLostUpdate`, `CacheSound`, `StableWrite`, `DiskForward` |
| `VersionStore_proofs`: `VersionInvariant` | the inductive invariant of the version store |
| `FirstUpdaterAlwaysWins` | `VersionsSound` |
| `CleanupTakesOnlyOld` | what holds of `CleansOnlyOld` when transactions begin at any time |
| `Transactions_proofs`: `BucketsInvariant` | the inductive invariant of the buckets |
| `BucketsAreSound`, `DetachLeavesNoneAlways` | `BucketsSound`, `DetachLeavesNone` |
| `OldestInvariant` | the inductive invariant of `TrxOldest` |
| `OldestAlwaysSound`, `OldestReturned`, `TrxAlwaysOrdered`, `ChainAlwaysInOrder` | `OldestSound`, `ReturnsOldest`, `TrxOrder`, `ChainInOrder` |
| `RangeLock_proofs`: `NoWriteInLockedRangeAlways`, `RangeArraysAlways` | `NoWriteInLockedRange`, `RangeArrays` |
| `Recovery_proofs`: `RecoveryTypes`, `RedoMatchesAlways`, `DbtimeAlways`, `WriteAheadAlways`, `AckedAlways` | types, and the parts of `RecoveryReliable` and `AckedDurable` that need no account of values |
| `RecoveryState_proofs`: `RecoverySoundAlways`, `RecoveredStateAlways` | redo always finds what it relies on; `RecoveredState` |
| `MCRecovery_proofs`: `RecoveredStateChecked`, `RecoveryReliableAlways`, `AckedDurableAlways` | `RecoveredState`, `RecoveryReliable`, `AckedDurable` of the specification that the run checks |

### 4.1 The latch

For every finite set of fewer than 32767 threads (the range of the 15-bit
`m_cOOWS`, `ThreadAssumption`). `MutualExclusion`, `AssertValid`, `NoSpareCount`
and `NoLostWakeup` are not inductive, because none of them says what the counters
mean. The inductive invariant is `IInv == TypeOK /\ CountsAgree`, with three
parts. `ExclusiveCounts`: `m_cOAWX` counts the exclusive owner and waiters, and
if there are any, exactly one of an owner, a count in `m_semX` and a release on
its way exists. `SharedCounts`: `m_fQS` is set exactly while there is a writer;
while it is clear `m_cOOWS` counts shared owners and waiters and each waiter has
its count, while it is set `m_cOOWS` counts the waiters that have none.
`WriterCounts`: `m_cQS` plus what the writer has yet to add is the number of
shared latches still out, and a wake-up for the writer exists exactly when that
is zero and the writer has added its part. `Moved` says how a change of one
thread's mode changes each count, `PendingSet` and `PendingValue` handle the counts
promised to `m_semS`. The refinement maps a waiter to what it owns; each
instruction is then a step of `Latch` or a stutter, by the same invariant.

### 4.2 The buffer cache

For any sets of pages, buffers and threads. `IInv == TypeOK /\ CacheInv /\ ThreadInv`.
`CacheInv` is about buffers: the hash table and the flags agree on which buffer is
current (`HashSound`), what the error of a buffer says of the I/O on it
(`IOSound`), the two ends of a link agree and the chain starts at the current buffer
(`LinksSound`), dirty buffers are on a chain below a dirty current one and a clean
older version ends its chain and was under write when it was copied (`DirtySound`),
there is a rank that orders each chain (`ChainsOrdered`, from
which one I/O per page and the order of writes follow, without an induction
over the chain), and what content says of disk and updates (`DataSound`).
`ThreadInv` is about threads: the latch each has at its place, that latches
exclude each other, and what a thread that owns a buffer may rely on after its last
look at it (`Hold`). Each action lemma shows that the buffers stay sound, that the
thread that moves keeps its part, and that the others are `Undisturbed`; and that
the step is `Steady`: it changes nothing that is being written and puts nothing
older on disk, which gives the two action properties.

### 4.3 The version store

For any finite set of sessions and any nodes, values, levels and bounds. The
invariant says what a session has drawn at each step of its commit (`SessionInv`),
that transactions that write began with different numbers (`BeginsDiffer`), that
numbers are left for all that may commit (`NumbersInv`); what an RCE shows of its
session (`RowInv`); that ids differ, that RCEs of one transaction show one commit
number (`OneCommit`), `FirstUpdaterWins`; that a session inside an operation has its
RCE (`NodeInv`); and what cleanup has read (`CleanInv`). `SessionStep` and `RowStep`
say what an action may do to a session and to an RCE, and suffice for the
invariant; `ConflictFree` is what the conflict check of `ErrVERModify` establishes
for a new RCE. An earlier form of `FirstUpdaterWins`, which also said that
operations which commute are of one kind, is not inductive: the attempt to prove
it led to a chain on which the code lets two kinds of operations meet (fourth
finding), and the property now says what the code ensures. `CleanupTakesOnlyOld`
says what is true of the code as it is, transactions beginning at any time: an RCE
that an open transaction may need is nullified only by a version cleanup that still
goes by the `trxMax` it has read (first finding), never by page cleanup and never
once cleanup has seen a transaction.

### 4.4 Version buckets

For any number of sessions, workers, signallers, detachers and terminators, any
quota, bucket size and number of RCEs. The invariant: who may be where (`Roles`), who
owns the critical sections (`Locks`), that the cleaner is in a linked bucket, in
which everything behind it is nullified unless it skipped something, and that it
frees the newest bucket only with the critical section held since it saw its end
(`Walk`), that one cleanup at a time is asked for, posted or carried out
(`Asked`), and how far a shutdown has got (`Ending`). It shows that the second
`MsigSet` of a cleanup task that meets a shutdown (`"set2"`) is never reached.

`DetachLeavesNoneAlways` adds to it (`DetachInv`): nobody is about to make a version of
the database that is being cleaned, and what the cleaner of one database has passed,
in the buckets before its own and in its own before its place, is nullified or
belongs to others (`Behind`). New versions go to places that the cleaner has yet to
come to, and a bucket it frees moves the ones after it up with the cleaner.

### 4.5 Transactions

`TrxOldest`, for any number of sessions, callers and processors. `OldestLocks`: who
owns which list and `m_critTrxOldestCached`; `OldestLists`: a session is on one list,
once, from its insertion to its removal; `OldestNumbers`: lists are in the order of
the numbers, and the cache is not ahead of a listed transaction, nor of one that has
drawn its number and still holds its list; `OldestPending`: unless an update of the
cache is under way or owed (the flag is up) the cache is exact. `OldestSeen` adds
the history variable: what a caller that may read now has seen was exact during
its call, hence linearizability. That the minimum over the lists exists is taken
from the well-foundedness of `Nat`.

`TrxNumber`, for any width of the word: the signed difference of two words is the
difference of the counters if these are less than half the range apart
(`SignedDifference`, by the fact that a multiple of the range that is smaller than
the range is zero), and a word is odd or even as its counter is (`Parity`), which
keeps numbers of transactions apart from `trxMax` and `trxPrecommit`, and ids of
versions from `rceidNull`. With that the walk of `ErrVERIInsertRCEIntoHash` compares
counters, and a version is inserted between the newer and the older ones. `Within`
is the one assumption (section 2.3).

### 4.6 The reader / writer lock and the binary lock

For any finite set of threads. Both locks spread their ownership over the control
word, `m_cOwner`, semaphores and threads between two interlocked operations, so the
invariant is about numbers: `RWInv` (`BLInv`) says that there are a state `q` of the
control word, the work `x` of at most one thread that hands ownership over and the
work `y` of at most one that has displaced owners (`Sole`) with which the counts of
owners, waiters and leavers, the counts in the word, `m_cOwner` and the semaphores
satisfy `RWSum` (`BLSum`), a predicate of numbers alone. For each kind of step there is
a lemma of arithmetic about `RWSum` (`BLSum`), in which no state occurs, and a lemma
per action that shows that the counts change by the thread that moves and then cites
it. That at most one thread hands over is part of the invariant and follows from the
numbers: the transition that makes a thread the one that hands over needs `m_cOwner` to
drop to zero, or a displaced count to meet it. The binary lock is treated for one
group, `"mine"` against `"theirs"`; `FlipSum` and `BLInvBoth` show that the other one sees
the same. The operators of the properties (`Owed`, `Granted`, `Out`, sets of threads
with a kind of work) are read off `x` and `y` at the end.

### 4.7 The range locks

For any set of page numbers and any set of fewer than 32767 threads, some of which lock
ranges. `RLInv`: a locker holds `m_semRangeLock` exactly while it changes the
arrays (`RLPlaces`); the counters of the metered section count who is in it
(`RLCounts`); a partition is under way only while a locker waits for it, and then
threads are in the old group, or the last of them is about to complete the partition,
or the signal is set, one of the three (`RLPhase`); the current array lists the
lockers' ranges, each in a place of its own (a bijection, `ListedBy`), the other one is
prepared from it, or was the current one and still has every range that is locked, and
both fit (`RLArrays`); and what a thread found in its array (`RLFound`). The bijection
carries the counting: `IRemoveRangeLock` takes the first equal range, perhaps that of
another locker, and the two then change places. A write under way in the old group
is safe because a range is held only after its partition, and held through the next one
in both arrays (`HeldIsListed`). That a count of ranges has a next power of two is where
the bound on the threads is needed.

### 4.8 Recovery

For any sets of nodes, pages and sessions, any length of the log, any number of
updates and crashes (those during recovery included), and with or without loss of
written log. `AckedDurable` alone needs `~LosesLogs`, as it does in the code.

What redo relies on (`Recovery_proofs`). `RecInv` has four parts.

* `Types`, and positions that lie in the log (`Bounds`).
* `LogInv`: `dbtime`s grow along the log (`Order`), a record about a page has as its
  `dbtime` before the one of the last record about the page before it (`Chain`), the
  counter and the checkpoint have seen those of their prefixes (`SeenTimes`,
  `ChkTimes`), and a transaction is one stretch of the records of its session
  (`OfTrx`).
* `PageInv`: a cached page has the `dbtime` it has on disk or that of a record no later
  than its `lgposModify` (`Stamps`), a page on disk that of a record which survives a
  crash (`WriteAhead`); a cached page has every change so far (`Caught`), and is dirty and names a transaction no younger than
  the change if the disk lacks it (`Dirty`); changes of transactions that began
  before the checkpoint are on disk (`ChkSafe`).
* `SessInv`: an open session is the last transaction of its log records and began
  behind the checkpoint, and behind the one that is being computed (`OpenTrx`), which
  reads log tip, sessions and pages one after the other while all go on; a record
  that redo has yet to come to is of a session that redo knows, or its page has it
  (`InRedo`); commits and acknowledgements have records (`Commits`, `AckedLogged`).

With `Chain` and `Caught`, redo finds each page newer than the record, or exactly at
the `dbtime` that the operation found: whichever pages were written, wherever the
checkpoint was, and however often redo itself was cut short.

What recovery restores (`RecoveryState_proofs`). `StateInv` adds the values. A change
*stands* at a position of the log if no Undo record up to there is about it.

* `LogOK`: every record is one that fits the log before it (`RecOK`: a session changes
  a node only if what stands there is committed or its own, changes are undone
  newest first and not without undo information, what a rollback or the end of
  recovery leaves standing is committed), and after every prefix the last record
  about a node and the last change that stands agree on its value (`NetOK`). The second
  follows from the first, record by record, which lets each action show `RecOK` of
  what it logs and no more.
* `PageState`: a page holds what the records up to its `dbtime` show (`Images`), and
  every change on it that may have to be undone has its undo information, or the
  commit that makes it superfluous, where a crash does not take it: for a page on disk
  among the records that survive (`DiskCovered`), for a cached one also in
  `undoInfo` or no later than `lgposModify`, up to which the log is written first
  (`BufCovered`).
* `SessState`: the RCEs of a session are its changes that stand, with the value before
  (`Versions`); undo information that an RCE needs is in the log or owed by its page,
  and pages owe nothing else (`Owing`, `Owned`); in redo a version that waits for it
  has it, or its commit, ahead in the log (`Deferred`); sessions end before they
  begin again, and commit what they did not undo (`Runs`, `CommitsOwn`,
  `EndInRedo`).
* `TrxState`: a change that stands is of a committed transaction, or of an open session,
  or of a transaction that redo passes by (`Resolved`); those that began before the
  checkpoint are committed (`Passed`), the lazy commits whose record a crash took
  included (`KeptTrx`).

`RecoveredState` follows: outside of recovery the checkpoint passes nothing by, so
what a node holds is what its committed changes and its open session's make of it. A
crash cuts the log; `DiskCovered` and `Passed` are what makes the shorter log an
acceptable one for the pages on disk. The lemmas take the log as a parameter,
since a step appends to it and a crash cuts it, and logs that agree up to a position
say the same there.

`MCRecovery_proofs` shows that a step of a scenario is a step of `Recovery`, or in
*waypoints* of its instance with loss of log, and carries the three invariants over.

### 4.9 Only model-checked

Liveness (`AllServed`, `RangesReleased`, `AllocEnds`, `TermEnds`, `CallsEnd`,
`LazyWritten`, `RecoveryDone`, `UpdatesReachDisk`), which is out of the prover's reach
with its fairness and `ENABLED`. `ImplementsSI`: what a reader finds adds up the deltas
on a chain of RCEs, a fold, and what a fold gives for every set takes an induction
that the prover cannot do. The synchronization
objects (`ImplementsSemaphore`, `PoolIsSound`) and the log buffer (`LogDurable`,
`BufferSound`) have no theorems yet. No module declares a `RECURSIVE` operator, so
that theorems can be added to each.

## 5. Not modelled

Besides what section 2 leaves out of each module: in the latch, lock statistics and
deadlock detection; of the synchronization library, critical sections (a semaphore
and an owner), `CInitOnce` and `CInitTermLock`; in the version store, RCEs of schema
changes, rollback of a single update (`updateid`), deferred before images and
versions by proxy. In the B-tree, navigation, splits, merges and the
layout of pages. Of the database map, attaching and detaching.

Whole components: page format, space manager, catalog, records and long values
(layers on node operations, sequential under latches or transactions); flush map,
revert snapshot, block cache (files of their own with crash rules of their own); the
dynamic hash table and LRU-K (the buffer manager's model takes them as atomic maps);
the task manager and timers (a posted task runs, in `VersionBuckets` and
`LogBuffer`); the OS layer, maintenance tools, the API and checksums. `PROJECT.json`
gives the reason for each. Most of the repository's lines are in these: API
dispatch, debugger extensions, interop layers, tests and record handling, which have
no protocol for a model to check.

## 6. Findings

1. `ErrVERIRCEClean` passes the oldest transaction it read to
   `RCE::ErrPrepareToDeallocate`, whose loop over the following versions of the
   node (`ver.cxx:5994`) compares with it. If no transaction was open that value
   is `trxMax`; a reader that began and a writer that began and committed since
   the read lose the version that separates them. Run `vs_clean_race`.
2. When all RCEs of a node are rolled back and kept for a create-index,
   `ErrVERAccessNode` takes the newest. For a replace or delete it goes to the
   page, for an insert it hides the node (`ver.cxx:3351`), also when the node was
   deleted and inserted again by the transaction rolled back, and is live and
   committed. Run `vs_rolled_back_insert`.
3. The comment of `ErrLGCheckReadLastLogRecordFF` (`_log/logread.cxx:1269`) says that
   it writes a shadow sector that did not get written. It does not; a crash that
   tears the rewrite of a shadow leaves a log that is refused as corrupt, although
   the data segment before it is complete. Run `lb_torn`.
4. Before a session may do an operation that commutes with others of its kind (a
   delta, a read lock) on a node, `ErrVERModify` looks for an active version of
   another kind. The loop stops at the first version that had committed before the
   session began (`ver.cxx:4200`), although an older one on the chain may belong
   to a transaction that was open then. A delta and a read lock of overlapping
   transactions can meet. The comment (`ver.cxx:4190`) says that all active
   versions are looked at. Run `vs_commute`.

Three more observations, without a run:

* The comment of `ErrVERRollback` (`ver.cxx:8240`) says that versions are held until
  everything is undone; `ErrVERITryUndoLoggedOper` nullifies each with its undo
  (`ver.cxx:7281`).
* `ErrLGCommitTransaction` (`logapi.cxx:2582`) takes a session out of the
  checkpoint's sight when its commit is logged, not when it is written. A lazy
  commit can thus be passed by the checkpoint and lose its commit record in a
  crash. It took effect as a whole, which `kept` in `Recovery` accounts for.
* The log writer counts on no order of the segments of one write (`logwrite.cxx:2882`),
  but the scan of the log does: a valid segment after an empty one
  (`logread.cxx:1544`), an invalid one after an empty one (`logread.cxx:1502`) and a torn
  one without a shadow (`logread.cxx:1596`) make it refuse the log, although
  everything that was acknowledged is whole on disk (`LogDurable`). A system that
  loses power while several segments are written for the first time may thus need
  its log repaired.

## 7. Plan

Done: the latch; the version store, its oldest transaction, its numbers and its
memory; the other primitives; range locks; the log buffer;
checkpoint and recovery; the buffer cache. Proofs about the latch, the version store,
the oldest transaction, the numbers, the buckets, the buffer cache, the reader / writer
lock, the binary lock, the range locks and recovery.

Next:

1. Proofs: `PoolIsSound` of `SyncObject`; `BufferSound` and `LogDurable` of
   `LogBuffer`.
2. Models: purging and abandoned pages in the buffer manager, versions of schema
   changes, the flush map with its crash rules, the dynamic hash table under its
   resizing, the task manager.
