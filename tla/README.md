# TLA+ models of rayon-core and of tantivy's indexer

The repository is a collection of Rust crates kept for use inside Teaclave: rayon, tantivy,
casbin-rs, mio, rustls, tonic, rhai, ring, gbdt-rs, rusty-machine, rustface, image, rust-csv,
rand, getrandom and num_cpus. They do not call one another; each is a system of its own. This
project models the two whose correctness rests most on interleavings and failures that no test
reaches: **rayon-core**, the work-stealing thread pool (`src/rayon/rayon-core/src`), and the
indexing side of **tantivy**, the search engine library (`src/tantivy/src/indexer`,
`src/tantivy/src/directory`).

## 1. Inventory

### rayon-core

| Part | State it keeps | Operations | Hard behaviour | What makes it correct |
|---|---|---|---|---|
| `sleep/counters.rs` | one `AtomicUsize` with three fields: sleeping threads, inactive threads, jobs event counter (JEC) | add/sub inactive, add/sub sleeping, increment JEC if sleepy / if active | fields share a word: a borrow or a carry corrupts a neighbour; the JEC rolls over | counts exact, fields isolated |
| `sleep/mod.rs` | a mutex, condvar and `is_blocked` per worker; the counters; an `IdleState` per search | `start_looking`, `work_found`, `no_work_found`, `announce_sleepy`, `sleep`, `new_injected_jobs`, `new_internal_jobs`, `notify_worker_latch_is_set`, `wake_any_threads`, `wake_specific_thread` | the decision to sleep and the decision whom to wake are made from values read earlier, by different threads, without a common lock | no wake-up is lost, no job is left behind sleeping workers, no worker sleeps for ever |
| `latch.rs` | `CoreLatch` (UNSET, SLEEPY, SLEEPING, SET), `SpinLatch`, `CountLatch`, `LockLatch`, `CountLockLatch` | probe, `get_sleepy`, `fall_asleep`, `wake_up`, `set`, `wait` | set races with every step of falling asleep; the latch may be freed by its owner as soon as it is set | set is never undone and its owner is woken |
| `registry.rs` | the injector, a deque and a broadcast deque per worker, a terminate latch per worker, `terminate_count` | `inject`, `inject_broadcast`, `push`, `find_work`, `steal`, `wait_until`, `in_worker*`, `terminate`, `main_loop` | nested waits, several thieves on one deque, termination against late work | each job runs exactly once, a dropped pool stops, nothing is left queued |
| `join/mod.rs` | a `StackJob` on the caller's stack | `join_context`, `join_recover_from_panic` | the stack frame must outlive the stolen half, also when the first half panics | both halves are over before the call returns or unwinds |
| `scope/mod.rs` | a counter latch, the first panic | `scope`, `spawn`, `spawn_fifo`, `spawn_broadcast`, `complete` | jobs spawn further jobs while the scope waits; several panics | the scope ends after all its jobs, with the first panic |
| `spawn/mod.rs`, `job.rs` | heap jobs, a FIFO indirection | `spawn`, `spawn_fifo`, `execute` | `terminate_count` is raised by work that outlives the pool handle | the pool outlives its spawned jobs |
| `broadcast/mod.rs` | an `ArcJob` per broadcast | `broadcast_in`, `spawn_broadcast` | pushes and notifications are not atomic | every worker runs it once |
| `thread_pool/mod.rs`, `lib.rs` | the handle; the builder | `install`, `build`, `Drop` | a thread that fails to start | as the registry |

How they interact: a worker's `wait_until` loop asks its latch (`latch.rs`), then the queues
(`registry.rs`), then tells `sleep/mod.rs` that nothing was found; posting threads put a job in
a queue and call `Sleep::new_*_jobs`; whoever finishes a job sets its latch, which may call
`Sleep::notify_worker_latch_is_set`. All of that runs concurrently on shared atomics, one mutex
per worker's sleep state and lock-free deques.

### tantivy, the side that writes

| Part | State it keeps | Operations | Hard behaviour | What makes it correct |
|---|---|---|---|---|
| `indexer/delete_queue.rs` | a vector of pending deletes, a linked list of read-only blocks, a weak reference to the last one | `push`, `cursor`, `DeleteCursor::get`, `advance`, clone, drop | a block is closed under a lock taken for reading and then again for writing; the list starts anew when nobody holds it | a log: no cursor misses or repeats a delete |
| `indexer/index_writer.rs`, `stamper.rs`, `prepared_commit.rs` | the stamper, a channel of batches, worker threads, the opstamp of the last commit | `add_document`, `delete_term`, `run`, `prepare_commit`, `commit`, `commit_future`, `rollback`, `delete_all_documents`, `merge` | opstamps are taken and operations pushed in separate steps by concurrent clients; workers see documents in another order | a commit publishes what was added and not deleted before it |
| `indexer/segment_updater.rs`, `segment_manager.rs`, `segment_register.rs`, `merge_operation.rs` | two registers of segments, the active meta, a queue of tasks, running merges | `schedule_add_segment`, `schedule_commit`, `start_merge`, `end_merge`, `save_metas` | merges work on copies while commits change the originals | merges change nothing a reader sees, no document is lost or doubled |
| `directory/managed_directory.rs`, `mmap_directory.rs`, `directory_lock.rs` | the files, the list of managed files, `meta.json`, locks | `open_write`, `terminate`, `atomic_write`, `sync_directory`, `garbage_collect`, `acquire_lock` | the collector against files being written, read or not yet published; a crash or a loss of power between any two steps | no file in use is deleted, none is forgotten, a commit that returned survives a crash; a loss of power may cost the last one, against the documentation of `commit` |

Clients and the owner of the writer hand documents to the workers through a channel and deletes to
the queue; workers hand segments to the updater, a single thread with a queue of tasks, which also
runs commits and the ends of merges and collects garbage; merging threads run beside it. Readers
share nothing with the writer but the directory and a lock.

### The other parts

* The rest of **tantivy** (queries, postings, fast fields, aggregations, the document store):
  codecs and sequential algorithms over immutable files.
* **rayon**'s parallel iterators: generic plumbing over `join`.
* **casbin-rs**: an access-control library: a policy model, a role graph, effectors, an enforcer
  with a cache. Sequential; the cache against policy changes and the role graph's depth limit are
  the subtle parts.
* **mio**, **tonic**: thin layers over the operating system's selectors, and over hyper and tower.
* **rustls** (three versions), **ring**: handshakes over cryptographic data, and primitives.
* **rhai**: a sequential script interpreter.
* **gbdt-rs**, **rusty-machine**, **rustface**: floating-point learning and detection.
* **image**, **rust-csv**, **rand**, **getrandom**, **num_cpus**: codecs, generators, queries.

`PROJECT.json` lists every part, with the reason where it is not modelled, and the hazards of the
code at their lines.

## 2. Modules

| Module | Models |
|---|---|
| `Counters` | `sleep/counters.rs`: the packed word, with the wrapping arithmetic of a machine word of any width |
| `Sleep` | `sleep/mod.rs`, the search loop, the queues and the termination of `registry.rs`, the latches of `latch.rs` |
| `ForkJoin` | `join`, `scope`, `in_place_scope`, `install`, `broadcast`, `spawn`: jobs, frames, panics, `terminate_count`, building and dropping a pool |
| `DeleteLog` | what the delete queue promises, an abstract specification |
| `DeleteQueue` | `indexer/delete_queue.rs`, which implements `DeleteLog` |
| `Indexer` | the writer, its workers, the updater's tasks and the merging threads: documents and deletes |
| `SegmentFiles` | the files of segments, `meta.json` and `.managed.json` under the same threads, with crashes |
| `CountersProofs` | proofs about `Counters` |
| `SleepProofs` | the inductive invariant of `Sleep`, its type invariant, the exactness of its counts, and that no wake-up is lost |
| `JobProofs` | proofs that no job of `Sleep` is lost, doubled or left behind |
| `ForkJoinCounts` | how stacks, calls and jobs of `ForkJoin` hang together, and that its latches count what is held of them |
| `ForkJoinProofs` | the inductive invariant of `ForkJoin` and its theorems |
| `DeleteQueueProofs` | the inductive invariant of `DeleteQueue`, and that it implements `DeleteLog` |
| `IndexerProofs` | the inductive invariant of `Indexer`, its type invariant and that no document is in two segments |
| `SegmentFilesProofs` | the inductive invariant of `SegmentFiles` and its six safety properties |
| `MC...` | the instances that TLC checks |

`Counters` is the word whose fields `Sleep` keeps as a record. `Sleep` and `ForkJoin` look at the
same pool from two sides: in `Sleep` a worker falls asleep and is woken, and a job is little more
than a latch; in `ForkJoin` a waiting worker merely looks for work, and it is the lifetime of what
jobs point to that counts. `Indexer` uses the delete queue as the log that `DeleteQueue` is shown to
implement. `Indexer` and `SegmentFiles` follow the same threads, one with the contents of segments
and no files, the other with files and no contents.

### Counters

`word` is `AtomicCounters::value`. Each action is one atomic operation of `counters.rs`; a loop
of load and `compare_exchange` is the exchange that succeeds. `sleeping`, `idle` are ghost sets:
which threads the callers have registered, the callers' discipline (a thread registers as
sleeping only while inactive) being that of `sleep/mod.rs`. Field widths are constants, so that
TLC reaches the maximum of a field (`THREADS_MAX`) and the rollover of the JEC; the proofs hold for
all widths.

### Sleep

State: the three counters as a record (the word is `Counters`' subject), the injector, each
worker's deque and broadcast deque, the `CoreLatch` of each wait of each worker, `is_blocked`, the
`IdleState`, and for each thread where it is (`pc`). One step is one access to shared state:

* `WaitUntil`, `StartLooking`, `Probe`, `PopLocal`, `PopBroadcast`, `Steal`, `PopInjected`,
  `WorkFound` are `WorkerThread::wait_until` with `find_work`;
* `SpinRound`, `AnnounceSleepy`, `GetSleepy`, `FallAsleep`, `Register`, `InterruptedByJob`,
  `LastCheckBroadcasts`, `LastCheckInjector`, `Unregister`, `Awaken` are `Sleep::no_work_found`
  and `Sleep::sleep`. From `FallAsleep` to the block the worker holds its sleep state's mutex
  (`Locked`), which `WakeThread` needs;
* `NewJobs` is `Sleep::new_jobs`, `WakeThread` one iteration of `wake_any_threads` or a call of
  `wake_specific_thread`;
* `Execute`, `Fork`, `Push`, `Return`, `SetLockLatch`, `SetCoreLatch` are what a job does: fork a
  job with a `SpinLatch` (join) or a `CountLatch` (scope) and wait for it, end and set its latch;
* `StartInject`, `Inject`, `StartBroadcast`, `PushBroadcast`, `LatchReleased` are threads outside
  the pool in `in_worker_cold` and `broadcast_in`;
* `DropPool`, `SetTerminate` are `ThreadPool::drop` and `Registry::terminate`.

Abstractions. Memory is sequentially consistent: the two `fence(SeqCst)` and the `SeqCst`
orderings are taken to do what `sleep/README.md` says of them. A `Steal::Retry` is a stuttering
step: the loop goes round. A steal visits the victims in any order, which includes the random
start of the code. What a job computes is left out; join and scope are jobs that fork one job and
wait (the rest of them is `ForkJoin`'s). The `LockLatch`
of a poster is the number of sets it still waits for. The owner drops the pool while nobody has
work in it, which is what borrowing guarantees for `install` and `broadcast`.

### ForkJoin

A thread is its stack of frames. A call that waits (`join`, `scope`, `install`, `broadcast`) has a
frame and an entry in `call`: its latch, counter, results and panic slot, which in the code lie in
that frame. A job names the call it belongs to and the scopes its closure can name (`env`), which
by the borrow checker's rules are those that live as long as the scope it is spawned in. User code
(the closures) may call anything at any time, end, or panic with a fresh payload.

* `SpawnThread`, `SpawnThreadFails` are `Registry::new` with its `Terminator`; `DropPool` is the
  drop of the handle, possible when no client borrows it; `Terminate` and `StopWorker` are
  `Registry::terminate`, by whoever lets go of the last reference;
* `Join`, `OperAEnds`, `JoinPop`, `InlineEnds` and `CallReturns` are `join_context`: job b is popped
  and run inline, or stolen, or found below other jobs; a panic of the first closure waits for b
  (`recover`) before it unwinds;
* `Scope`, `ScopeSpawn`, `ScopeClosureEnds`, `JobPanicked`, `CountSet`, `CoreSet`, `CallReturns` are a
  scope and its jobs: the panic is stored before the count goes down, the last one sets the latch,
  and from that step on the frame may be gone;
* `StackJobEnds`, `StackJobSet` are the jobs of `join`, `install` and `broadcast`; `Notify` is what
  comes after the set, on the registry of the owner;
* `PushBroadcast` is one turn of the loop in `inject_broadcast`, whose iterator takes the reference
  for each job as it goes;
* `FindWork` is one turn of `wait_until`, on top of the waiting frame.

A `Foreign` thread is the last worker of another pool that has been dropped; it calls into this pool
and then ends (`Leave`), which frees its registry unless somebody holds a clone. Its own pool has no
other work. Left out: sleeping, the FIFO variants, `yield_now`, the global registry; a panic of a
spawned job without a handler, which aborts the process; a notification within one pool, where the
setter keeps the registry alive by being one of its workers. Bounds: `MaxCalls`, `MaxSpawns`,
`MaxPanics`, and `MaxEvents` for the three together.

### DeleteLog and DeleteQueue

`DeleteLog` is a counter of pushes and a position per cursor. `DeleteQueue` has the pending vector,
the blocks with their `next`, the weak last block, and each cursor's thread inside the calls; a step
is what is done under one acquisition of a lock. The refinement maps a cursor to the operations
flushed before its block (a history field of blocks) plus its offset. `Weak::upgrade` succeeds as
long as some cursor holds the block or one that leads to it (`Reaches`: each block owns its
successor).

### Indexer

A document is a term, an opstamp and its number; a delete names a term. `client` holds what a call
has stamped and not yet pushed or sent, `worker` the batch and the segment a worker is making, `tasks`
and `updating` the updater's queue and the task it is in the middle of, `uncommitted` and
`committed` the registers, `merge` the merging threads, `meta` the published `meta.json`. `history`
records which operation returned before which began: the properties speak of what clients can know,
never of opstamps alone. A delete is applied as the code does it, by `skip_to`,
`compute_deleted_bitset` and `advance_deletes`, with the cursor and the opstamp mapping each of them
uses. Merges may be proposed for
any sequence of segments at any time, which covers every merge policy. A segment that lost no document
has every document it was made of in its `alive_bitset`, where the code has no bitset at all.

Simplifications: `consider_merge_options` starts at most one merge per task; `rollback` and
`delete_all_documents` are one step each (what a killed updater may still do is in `SegmentFiles`);
nothing fails. The channel holds one batch. Deadlock is not checked since the bounds (`MaxOps`,
`MaxCommits`, `MaxSegments`) stop every behaviour; that calls return is a property of its own.

### SegmentFiles

A segment is a data file and, once it has deletes, a del file named by an opstamp. `disk` is what
the directory holds, `unsynced` the states its entries went through since the last `sync_directory`.
`WriteNext` is `open_write` to `terminate` in its steps (register, save the list, create, close);
the other actions are those of the worker, the updater (del files, `save_metas`, `garbage_collect`,
in that order), the merging thread and readers that open the files of the `meta.json` they loaded.
`Crash` ends the process between any two steps, `PowerLoss` also takes the directory back to one of
its `unsynced` states (updates in order); `Restart` opens the index again. Opstamps are reused after a
restart or a rollback, and so are the names of del files. A task whose del file exists already fails,
and a merge is cancelled (which takes three writers and is met only outside the passing run); an
`end_merge` whose sources are in neither register any more is given up: a
commit dropped the segments that it left without documents. A merge of sources without documents makes
no segment (`empty`) and ends in an `end_merge` without an entry.

Opstamps are abstracted to what names and the order of commits need: a commit takes any opstamp from
the stamper on, for the operations in between, and documents are not counted. Two cases are kept apart,
because the first stamp of a writer equals the opstamp of the commit it was opened on. A commit that is
its first operation has no deletes to apply. A first operation that is a delete (`FirstDelete`) is one
that a merge of committed segments applies, writing del files with the opstamp of the last commit, to
the segments that it may concern and no commit has handled since (`undeleted`, `Undeleted`).
`acked` and `settled` are auxiliary: the last commit that returned and the one before it.

Simplifications: a del file of opstamp 0 (the first delete of the first writer) is not told from none;
`IndexWriter::merge` of uncommitted segments, whose target is the last commit, writes no del file here,
where the code writes one for a segment that lost documents before it was flushed (a bitset in memory);
a first delete is the writer's first operation, so it finds nothing uncommitted; deleting a file does
not fail; one merge at a time; `delete_all_documents` is `Indexer`'s. `QuietRollback` says that rollback
is called only when the updater has nothing to do; two instances below let it go. Bounds: `MaxWriters`,
`MaxSegments`, `MaxOpstamp`.

## 3. Runs

| Run | Instance | Shows |
|---|---|---|
| `counters` | 3 threads, 2-bit thread fields (so THREADS_MAX = 3 is reached), small JEC | `TypeOK`, `FieldsExact`, `FieldsIsolated`: no field carries into another |
| `sleep_pool` | 2 workers, 1 poster, forks nested once, a JEC of 2 values, weak fairness | `TypeOK`, `LatchWakeNotLost`, `JobsConserved`, `SetLatchStaysSet`, `PostsComplete`, `ForksJoin`, `PoolStops` |
| `sleep_posters` | 2 workers, 2 posters injecting and broadcasting, 1 round before sleepy | `InjectedHasTaker`, `BroadcastNotLost`, `NoWorkAfterDrop`, `CountersExact`, `InjectedNotStranded` |
| `fork_join` | 2 workers, a client, a worker of another pool; up to 2 nested calls, 3 spawned jobs and 2 panics, 4 of these in all | `TypeOK`, `FramesOutliveJobs`, `NotifiedRegistryAlive`, `PanicsReported`, `StopsWhenIdle`, `NobodyStuck`; deadlock is checked |
| `fork_join_in_place` | as above, the other pool's worker calling `in_place_scope` | finds `NotifiedRegistryAlive` violated |
| `delete_queue` | 3 cursors, 2 pushes, lists started twice | `TypeOK`, `OneOpenBlock`, `ImplementsDeleteLog` (refinement) |
| `indexer_merge` | 1 client with groups of 2 documents, deletes, 1 merging thread, 2 commits, 5 operations | `TypeOK`, `PublishedExact`, `NoDocumentTwice`, `NoDeleteSkipped`, `MergesInvisible` |
| `indexer_rollback` | 2 clients, 2 workers, updates, `commit_future`, rollback, 3 commits | `PublishedExact`, `NoDeleteSkipped` |
| `indexer_live` | `delete_all_documents` under merges and pipelined commits, weak fairness | `NoDocumentTwice`, `CommitReturns`, `MergeEnds` |
| `indexer_update` | 2 clients, 2 terms, replacing a document | finds `DeletesOnlyEarlier` violated |
| `segment_files` | 2 writers one after the other, 2 segments, opstamps 0 and 1, 1 reader; merges by policy and by `merge`, garbage collection after commits and merges and on request, a first delete, a crash, a loss of power or a rollback of a quiet writer | `TypeOK`, `PublishedFilesDurable`, `LivingFilesExist`, `ReaderFindsFiles`, `NoOrphan` |
| `segment_files_power_loss` | a loss of power after the first commit | finds `CommitSurvives` violated |

Why the bounds are enough. A lost wake-up needs one sleeper and one waker, and a third party that
makes the waker's information stale: two workers and two posters. A JEC of two
values rolls over at every second toggle, the hardest case for a worker that remembers an old
value. `ROUNDS_UNTIL_SLEEPY` is 32 in the code; 0
and 1 keep every branch and shorten the spinning, which touches nothing. `MaxDepth` bounds nested
waits, `MaxPosts` the posts of each poster; the theorems below hold for all of them. In `fork_join` a
call inside a call, on either of two workers, lets each half be stolen by a thread that waits
itself; two spawned jobs let a job of a scope spawn another one or a spawned job outlive the handle;
two panics race for one slot. Four events together allow two calls with a job spawned in each, or a
call whose own closure and whose job both panic. In the indexer two commits with a merge
across them need five operations (two documents in two segments, and deletes between); the order of
two clients' pushes needs two clients and two workers. In `segment_files` a second writer
sees what a crash of the first one left and gives out its opstamps again; two segments are what a merge
and its result need, or two sources of which one commit may drop one; two opstamps let a commit without
del files precede one with them, under the reader and the collector. What takes two failures in a row,
or three commits, is left to `MCSegmentFilesPower.cfg`, an instance with three writers, one segment and
opstamps to 2, and to the theorems. Two terms
are enough because a delete only asks whether a document has its term.

Fairness. `sleep_pool`: weak fairness of each worker and of each poster's steps inside a call:
the operating system schedules every runnable thread, mutexes are held for a bounded number of
steps, and the jobs' code ends. Nobody is obliged to post or to drop the pool. `indexer_live`: weak
fairness of the workers, the updater's thread, the merging threads and a call once it has begun;
nobody has to begin one. `ForkJoin` has no fairness: each of its steps uses up a call, a job or a
frame, so behaviours are finite, and `NobodyStuck` with the check for deadlocks says where they
may end. In `sleep_pool`, and in the runs of `DeleteQueue`, `Indexer` and `SegmentFiles`, deadlock is
not checked, since there the pool may rest with every worker asleep, or the bounds stop everyone.

What the mutants taught. With the last check of the injector dropped from `sleep`
(`has_injected_job`), `InjectedNotStranded` still holds under sequential consistency on the
instances tried: each toggle of the JEC to even is made by a worker that searches again
afterwards, so a sleepy worker that misses a rollover leaves another one searching.
`InjectedHasTaker`, which does not let busy workers excuse the sleepers, fails at once.

### Findings

* `fork_join_in_place`: the latch of a scope or a broadcast notifies its owner through a plain
  reference to the owner's registry. When the owner is a worker of another pool
  (`ThreadPool::in_place_scope` or `broadcast` called there), nothing keeps that registry once the
  latch is set; `SpinLatch::set` clones it for this very reason.
* `indexer_update`: clients take opstamps and push deletes in separate steps, so the queue may hold a
  delete with a large opstamp in front of one with a small one. `skip_to` and `apply_deletes` both
  stop at the large one; the small one is applied at the commit without the opstamps of documents,
  and removes the document that the same group added after it.
* `segment_files_power_loss`: `save_metas` syncs the directory before it replaces `meta.json` and not
  after, and the garbage collection at the end of a commit syncs only if it deleted something. When the
  power fails after `commit` has returned, the commit may be gone, which its documentation excludes
  (`index_writer.rs:640`). What holds is `EarlierCommitsSurvive`: a crash costs no commit
  that returned, a loss of power at most the last one. It is proved, and TLC confirms it on
  `MCSegmentFilesPower.cfg`.

Further instances refute a property and are not runs; `tlc -config <instance> MCIndexer`, or
`MCSegmentFiles`, shows the behaviour:

* `MCIndexerGroup.cfg` (`DeletesReachEarlier`): `run` pushes the deletes of a group before it sends
  the group's documents, and a worker skips the deletes below the first document of its first batch
  (`index_writer.rs:418`). When another client's document, of a larger opstamp, comes first in the
  channel, the delete of a group [add t, delete t] is skipped and the commit publishes the document.
* `MCIndexerClear.cfg` (`DeletesOnlyEarlier`): `delete_all_documents` takes the stamper back
  (`index_writer.rs:503`) and leaves the delete queue as it is, so a document added afterwards is
  removed by a delete made before the call.
* `MCIndexerUnasked.cfg` (`DeletesOnlyEarlier`): `IndexWriter::new` starts its stamper at the
  opstamp of the last commit (`index_writer.rs:288`), and deletes are applied up to the target
  opstamp inclusive (`:89`). The first delete of a reopened writer has that opstamp, and a merge of
  committed segments publishes it without a commit; so `MergesInvisible` does not hold of an
  instance with both rollbacks and merges.
* `MCIndexerReopened.cfg` (`NoDeleteSkipped`): `advance_deletes` takes a segment whose del file has
  that same opstamp for up to date (`index_writer.rs:117`) and leaves its cursor, another segment of
  the merge advances over the delete, and the merged segment continues from the first one's cursor.
* `MCIndexerPipelined.cfg` (`NoDeleteSkipped`): a merge of uncommitted segments started between
  `commit_future` and the commit's task has a larger target opstamp (`segment_updater.rs:559`) than
  the commit; committed segments then have different cursors, and the next merge of two takes the
  first one's (`:112`).
* `MCSegmentFilesResume.cfg` (`ResumeNotBlocked`): a crash between the creation of a del file and
  the `meta.json` that names it leaves a file whose name the next writer, which gives out the same
  opstamps, may need: its commit fails with `FileAlreadyExists`.
* `MCSegmentFilesOrphan.cfg` (`NoOrphan`): the collector of a killed updater deletes a file and
  forgets it in two steps; in between the new writer may make a file of the same name, which is then
  on no list.
* `MCSegmentFilesReused.cfg` (`LivingFilesExist`): the collector deletes without the lock what it
  listed under it. After a crash left a del file's name on the list of managed files, a merge of a
  writer that begins with a delete makes a file of this name, and the collector deletes it.
* `MCSegmentFilesKilled.cfg` (`KilledIgnored`): an updater past its `is_alive` check when `rollback`
  kills it replaces `meta.json` under the new writer.

Other differences met while modelling:

* On a file system that reorders directory updates a loss of power may leave the former `meta.json`
  without its files, which garbage collection unlinks before any sync of the new one; `SegmentFiles`
  assumes ordered updates.
* `IndexWriter::commit_opstamp` returns the opstamp at opening, whatever was committed since.
* `sleep/README.md:146` says a worker whose last check finds a job "returns to the 'pre-sleepy' state
  as if the JEC had changed"; the code calls `wake_fully`, and the worker spins its rounds again.

## 4. Proofs

All of them hold for every value of the constants: every number of workers, posters, cursors,
readers, writers, segments and opstamps, every nesting of forks, every range of the JEC and every
width of the fields, under the named assumptions of the modules (`RangeAssumption`,
`ThreadsAssumption`, `SleepAssumption`, `ForkJoinAssumption`, `QueueAssumption`, `IndexerAssumption`,
`SegmentFilesAssumption`: sizes are positive, the JEC's range is even, posters are not integers, `None`
is not a record of the model, and so on).

* **`CountersProofs`**. The inductive invariant says that the word is
  `|sleeping| + |inactive| * 2^b + jec * 2^(2b)` for some JEC in range, and that each count fits
  its field. Exactness and isolation of the fields follow by division with remainder (`DivMod`,
  `Unpack`).
* **`SleepProofs`**. `IInv` is the type invariant with `CountersExact`, `WalksOK` (a walk over the
  sleep states has someone left to visit and quota left), `BlockedOK` (`is_blocked` only while its
  worker is at the condvar) and `PushOK`. The counts are bounded because they are exact, and they
  stay exact because the classes `Idle`, `Checking` and `Busy` of a worker's places change only in
  the steps that change a count (`Quiet` steps change neither).
  No wake-up is lost: `InjectedHasTaker` is inductive over `IInv`: a worker that leaves the search
  wakes a sleeper (`TakerWorkFound`), and a poster that wakes nobody has counted a worker that
  really is searching (`TakerNewJobs`, from the exact counts). `InjectedNotStranded` follows.
  `LatchWakeNotLost` and `BroadcastNotLost` are strengthened to `LatchInv` and `BroadcastInv`, which
  also speak of a worker that is committed to block but has not blocked: its latch is SLEEPING, or
  SET with a notifier that waits for the worker's mutex; its broadcasts were empty when it looked,
  or the broadcaster is still to come with quota left. `SetLatchStaysSet` is proved as an action
  property.
* **`JobProofs`**. `Held(C)` counts the queue positions, hands and executions that hold a job of the set
  `C`, as a sum with one term per kind of place; `HeldPlaces` shows that it is the size of `Places`,
  and the lemmas on queues (`AtQueue`, `AtChange`, `EachChange`) show that a pop, a steal or the start
  of a job moves one unit from one term to another. `JInv` gives the count its value: 1 for a wait
  whose job was pushed and whose latch is not set, 0 for any other (`ForksCounted`), and for a poster
  what its latch still counts less what it has yet to push (`PostsCounted`). It needs `HandOK` (a
  worker that searches has nothing in hand, and one that leaves the search with nothing in hand has its
  latch set, so a wait is left only after its job has ended) and `RunOK` (a worker executes one job
  inside each of its waits but the innermost). `JobsConserved` is then the definition of `Held`. That
  nothing is left after the drop needs more: the posts are done, but a forked job might still be inside
  another one and so on in a circle. `Ranked` excludes it: waits can be numbered so that each is newer
  than the wait whose job it is inside; the oldest job left would be inside a posted one. `JInv` was
  checked with TLC on the instances of `sleep_pool` and `sleep_posters` before it was proved.
* **`ForkJoinCounts` and `ForkJoinProofs`**. The five safety invariants of `ForkJoin`, type
  correctness among them, for any number of workers, clients, nested calls, spawned jobs and panics;
  only `NotifiedRegistryAlive` has a hypothesis, that threads of other pools do nothing but `install`,
  because `fork_join_in_place` refutes it otherwise. `IInv` has these parts:
  * `Struct`: the kinds, places and nesting of frames on a stack; that a call's entry and its frame
    belong together; and that a job's `env` is `Rooted`: a scope it names is the job's own, or one that
    the code around its call can name too. The last part says which threads exist while
    the pool is built and that clients are outside it unless it is open (`Opened`).
  * `Counted`: `Held` is how many queue positions, running frames and turns of a broadcast loop hold
    something of a call or of the pool. It is what the call's latch still waits for (one for a `join` or
    an `install`, the counter of a scope or a broadcast), and for the pool `terminate_count` less the
    handle. Each action is brought into one of a few forms (`Executes`, `Makes`, `Recounts`, `Latches`,
    `CountsDown`, `Lets`, `Gone`, ...), and each form moves one unit or changes a counter with it.
  * `Cored`: whoever brought a counter to 0 is alone in setting its latch, and has not set it yet.
  * `Results` and `Shared`: a call whose latch is set has its results; a scope that has seen a panic
    has it stored or on its way (`Witnessed`); and each worker's share of a broadcast is to come, in
    its queue, on its stack, or stored, and only one of these. That is why each result is written once and
    before the latch is set.
  * `Cloned`: the setter of a latch of another pool's thread holds its registry from before the set.
  * `Pooled`: workers are told to stop only at count 0.

  `FramesOutliveJobs` needs a descent: what is held of a call keeps that call, but a job also points
  into the scopes around it. Were nothing held of a scope that some code can name, the call this code
  belongs to would be inside code of an earlier call that can name the scope too; taking the earliest
  (`EnvHeld`) leaves the code of the scope itself, which holds it. `StopsWhenIdle` descends in the same
  way: at count 0 no spawned job is left and no client is in a call, so code that still runs would be
  inside code of an earlier call, and there is an earliest (`ShutQuiet`).
  The parts of `IInv` were checked with TLC on the instance of `fork_join` before they were proved.
* **`DeleteQueueProofs`**. `IInv` says that the operations are numbered through the blocks and the
  pending vector without a gap (`Numbered`), that a block's successor begins where it ends
  (`Linked`), that a cursor is within its block (`Placed`), that only the thread that holds the write
  lock of the last block is between flushing and linking (`Closing`), and that the block the weak
  reference names is the last one that any cursor reaches (`Connected`). That a list has a first
  block that is still open is an induction over its length, taken from the well-foundedness of the
  naturals (`NatMin`). `OneOpenBlock` follows, and each step maps to a step of `DeleteLog` or a
  stutter (`QueueRefinesLog`).
* **`IndexerProofs`**. That no document is ever in two live segments, with every call at any time:
  merges, pipelined commits, rollbacks and `delete_all_documents`, whatever they do to the order of
  opstamps. On its way to a register a document is in one place: a client's call, the channel, a
  worker, a segment (`Apart`). A segment has one content wherever copies of its entry are, in the
  registers, in the updater's hands or in a merge, and different segments share no document
  (`Idents`); the identity of a segment still on its way is nowhere else (`Fresh`); the segment that
  a merge delivers is made of documents of the segments it replaces, and each worker and each merge
  has at most one task in the queue (`Waiting`). Rollback takes the history back, and numbers above
  it are given out again: so what is published, and what a queued commit will publish, must be
  numbered below the history behind it (`Counted`, `Settled`), or a document of a segment kept in
  `meta.json` would come twice. `IInv` was checked with TLC on three instances, one of them to the
  end, before it was proved.
* **`SegmentFilesProofs`**. The theorems are about owners that call `rollback` when the updater has
  nothing to do, or never, and do not begin with a delete (`Quiet`): the instances
  `MCSegmentFilesKilled.cfg`, `MCSegmentFilesOrphan.cfg` and `MCSegmentFilesReused.cfg` show what else
  can happen. The argument
  turns on the files that *stay* (`Stays`): in the directory, complete, and on no collector's list.
  Every SegmentMeta that something holds names files that stay or that its own thread is writing
  (`Keeps`, `Merging`), no step takes one away, and what is collected is what nobody holds
  (`ListGarbageStep`, `Doom`). The rest of `IInv` is about names, because opstamps are reused: a file
  is made anew only under a name that no `meta.json` of the directory, now or as a loss of power may
  restore it, holds (`WritingOK`); the registers never hold an older del file of a segment than a
  `meta.json` does (`Segs`, `Newer`); commits and merges never write a del file under the same stamp,
  because a merge of uncommitted segments takes a stamp of its own and commits are queued in the order
  of theirs (`Queue`, `Stamps`). `Published` states for each directory that a loss of power may leave
  that it is whole; with it `PowerLossStep` is as simple as `CrashStep`. That a loss of
  power costs at most one commit (`EarlierCommitsAreDurable`) has an invariant of its own, `Durable`:
  every directory it may leave has a `meta.json` at least as new as the commit before the last, and,
  from the sync in a commit's `save_metas` until the commit returns (`Past`), at least as new as the
  last one. `IInv` was checked with TLC on instances with merges, crashes and losses of power before it
  was proved.

Only model-checked: the liveness properties (fairness is outside the prover's reach) and `NobodyStuck`
of `ForkJoin`, which uses ENABLED, which the prover does not handle. `PublishedExact`, `NoDeleteSkipped`
and `MergesInvisible` of `Indexer` are not theorems: instances of section 3 refute them of the
code as a whole, and the passing runs show the instances on which they hold. A writer that begins with a
delete is only model-checked (`segment_files`).

## 5. Plan

1. Proofs: `PublishedExact` for one client and one worker that never rolls back.
2. `JobFifo`: `spawn_fifo` and scopes in FIFO order.
3. `Pool`: the abstract promise of a registry (posts are answered once, by some worker, until the
   pool is dropped), implemented by `Sleep` under a refinement mapping.
4. A store-buffer version of the injection protocol: what the two fences are needed for.
5. tantivy: a worker that fails (`index_writer_status.rs`), the watcher and the reload of searchers.
6. casbin-rs: the cached enforcer and the role graph.

## 6. Not modelled

Most of the repository's lines are code for which a state machine says little: codecs, parsers,
interpreters, cryptographic primitives, floating-point algorithms, generic iterator adaptors and
bindings to system calls, in sixteen crates that have nothing to do with each other. The map covers
the two systems whose hazards a model checker reaches and tests do not, and a small share of all
lines. Within them these are left out: memory orders weaker than sequential consistency; the FIFO
indirection, `yield_now` and the global registry of rayon-core; its logging; the contents and formats
of tantivy's segments, `RamDirectory`, footers and checksums, the watcher of `meta.json`, errors of the
file system other than a name already taken, and a worker thread that fails. `PROJECT.json` gives the
reason for each part.
