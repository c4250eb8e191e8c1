---------------------------- MODULE SegmentFiles ----------------------------
(***************************************************************************)
(* tantivy's files: ManagedDirectory over MmapDirectory, and the steps of  *)
(* the indexing worker, the SegmentUpdater and the merging thread that     *)
(* create, publish and delete them. Which documents a segment holds is     *)
(* Indexer's; here a segment is its files, and deletes are a del file.     *)
(*                                                                         *)
(* A process may crash at any step, or the machine may lose its power and  *)
(* with it directory updates that no sync_directory followed. Restarting,  *)
(* and rollback, open another writer on what the disk holds; the updater   *)
(* of a rolled back writer goes on beside the new one.                     *)
(***************************************************************************)
EXTENDS Naturals, Sequences

CONSTANTS Readers,      \* other processes that open the index
          Calls,        \* what happens besides commits: a subset of the kinds below
          QuietRollback,\* rollback is only called when the updater has nothing to do
          MaxWriters,   \* writers opened one after the other (a bound)
          MaxSegments,  \* segments ever made (a bound)
          MaxOpstamp,   \* (a bound)
          None

ASSUME SegmentFilesAssumption ==
  /\ Calls \subseteq {"merge", "merge_call", "gc", "first_delete", "rollback", "crash", "power_loss"}
  /\ QuietRollback \in BOOLEAN
  /\ MaxWriters \in Nat \ {0} /\ MaxSegments \in Nat /\ MaxOpstamp \in Nat
  /\ None \notin Nat /\ None \notin [seg : Nat, del : Nat]
  /\ None \notin [file : Nat \X Nat, at : {"register", "create", "close", "done", "failed"}]

Writers == 1 .. MaxWriters
Threads == Writers \X {"worker", "updater", "merge"}

VARIABLES
  disk,           \* the directory: files, the closed ones, meta.json, .managed.json
  unsynced,       \* what its entries were since the last sync_directory
  managed_paths,  \* MetaInformation::managed_paths
  current,        \* the open writer, or 0 when no process runs
  opened,         \* writers opened so far
  stamper,
  updater,        \* each writer's SegmentUpdater
  worker,         \* each writer's indexing worker: the segment it makes, or None
  merge,          \* each writer's merging thread
  writing,        \* the file each thread is writing, or None
  reader,         \* the files each reader still has to open; holder of META_LOCK
  next_seg,
  undeleted,      \* the segments that a delete with the opstamp of meta.json has yet to reach
  acked,          \* auxiliary: the opstamp of the last commit that returned
  settled         \* auxiliary: the opstamp of the one before it

vars == <<disk, unsynced, managed_paths, current, opened, stamper, updater, worker, merge, writing,
          reader, next_seg, undeleted, acked, settled>>
owner == <<undeleted, acked, settled>>

-----------------------------------------------------------------------------
(* A SegmentMeta names a segment and the opstamp of its del file, if any.    *)
File(seg, opstamp) == <<seg, opstamp>>
list_files(m) == {File(m.seg, 0)} \cup IF m.del = 0 THEN {} ELSE {File(m.seg, m.del)}
FilesOf(metas) == UNION {list_files(m) : m \in metas}
Fresh(seg) == [seg |-> seg, del |-> 0]
ids(metas) == {m.seg : m \in metas}

NoMerge == [sources |-> {}, todo |-> {}, target |-> 0, merged |-> None, empty |-> FALSE]
NoTask == [kind |-> "none", entry |-> None, sources |-> {}, opstamp |-> 0]

\* SegmentUpdater::create, on the meta.json it loads.
NewUpdater(meta) ==
  [alive |-> TRUE, uncommitted |-> {}, committed |-> meta.segments, active |-> meta,
   tasks |-> <<>>, step |-> "idle", task |-> NoTask, entries |-> {}, todo |-> {}, meta |-> None,
   gc |-> {}, deleted |-> {}]

(* The inventory: every SegmentMeta that something in the process holds. An   *)
(* updater is dropped with its writer, or after its last task and merge.     *)
Busy(u) ==
  updater[u].step # "idle" \/ updater[u].tasks # <<>> \/ merge[u] # NoMerge \/ worker[u] # None
OfTask(task) == {task.entry} \ {None}
Held(u) ==
  (UNION {OfTask(updater[u].tasks[i]) : i \in DOMAIN updater[u].tasks})
  \cup merge[u].sources \cup ({merge[u].merged} \ {None}) \cup ({worker[u]} \ {None})
  \cup updater[u].entries
  \cup IF u = current \/ Busy(u)
       THEN updater[u].uncommitted \cup updater[u].committed \cup updater[u].active.segments
       ELSE {}
list_all_segment_metas == IF current = 0 THEN {} ELSE UNION {Held(u) : u \in 1 .. opened}
BeingWritten == {writing[t].file : t \in {s \in Threads : writing[s] # None}}

\* Mutant: only the published segments are spared.
LivingPublished == FilesOf(disk.meta.segments) \cup BeingWritten

Living == FilesOf(list_all_segment_metas) \cup BeingWritten

-----------------------------------------------------------------------------
(* The directory: a change of its entries is durable after sync_directory.    *)
Entries(d) == [files |-> d.files, meta |-> d.meta, managed |-> d.managed]

Change(d) == disk' = d /\ unsynced' = unsynced \cup {Entries(d)}

\* What a loss of power leaves: the directory as it was at some time since the
\* last sync, on a file system that orders the updates of its entries.
AfterPowerLoss == unsynced

-----------------------------------------------------------------------------
Init ==
  /\ disk = [files |-> {}, closed |-> {}, managed |-> {}, meta |-> [opstamp |-> 0, segments |-> {}]]
  /\ unsynced = {Entries(disk)}
  /\ managed_paths = disk.managed
  /\ current = 1 /\ opened = 1
  /\ stamper = 0
  /\ updater = [u \in Writers |-> NewUpdater(disk.meta)]
  /\ worker = [u \in Writers |-> None]
  /\ merge = [u \in Writers |-> NoMerge]
  /\ writing = [t \in Threads |-> None]
  /\ reader = [r \in Readers |-> None]
  /\ next_seg = 1
  /\ undeleted = {} /\ acked = 0 /\ settled = 0

-----------------------------------------------------------------------------
(* ManagedDirectory::open_write, a file's contents, and its terminate.        *)
Write(t, f) == writing' = [writing EXCEPT ![t] = [file |-> f, at |-> "register"]]
Finished(t) == writing[t] # None /\ writing[t].at = "done"
Failed(t) == writing[t] # None /\ writing[t].at = "failed"
Ended(t) == writing[t] # None /\ writing[t].at \in {"done", "failed"}
At(t, step) == writing[t] # None /\ writing[t].at = step
threads == <<current, opened, stamper, updater, worker, merge, reader, next_seg, owner>>

Create(f) == Change([disk EXCEPT !.files = @ \cup {f}, !.closed = @ \ {f}])

\* Mutant: the list is kept in memory only.
register_unsaved(t) ==
  /\ At(t, "register")
  /\ managed_paths' = managed_paths \cup {writing[t].file}
  /\ writing' = [writing EXCEPT ![t].at = "create"]
  /\ UNCHANGED <<disk, unsynced, threads>>

\* save_managed_paths, before the file exists. (The sync of the directory for
\* the first file is the one of meta.json, when the index is created.)
register_file_as_managed(t) ==
  /\ At(t, "register")
  /\ managed_paths' = managed_paths \cup {writing[t].file}
  /\ Change([disk EXCEPT !.managed = IF managed_paths' = managed_paths THEN @ ELSE managed_paths'])
  /\ writing' = [writing EXCEPT ![t].at = "create"]
  /\ UNCHANGED threads

\* create_new(true): an existing file is an error.
open_write(t) ==
  /\ At(t, "create")
  /\ IF writing[t].file \in disk.files
     THEN writing' = [writing EXCEPT ![t].at = "failed"] /\ UNCHANGED <<disk, unsynced>>
     ELSE writing' = [writing EXCEPT ![t].at = "close"] /\ Create(writing[t].file)
  /\ UNCHANGED <<managed_paths, threads>>

\* SafeFileWriter::terminate_ref: the contents are on the disk (sync_data).
terminate(t) ==
  /\ At(t, "close")
  /\ disk' = [disk EXCEPT !.closed = @ \cup {writing[t].file}]
  /\ writing' = [writing EXCEPT ![t].at = "done"]
  /\ UNCHANGED <<unsynced, managed_paths, threads>>

-----------------------------------------------------------------------------
(* The indexing worker makes a segment and waits until it is registered.      *)
storage == <<disk, unsynced, managed_paths>>

\* rollback has returned once the workers of the old writer are joined.
Open(u) == u = current /\ \A v \in 1 .. u - 1 : worker[v] = None

NewSegment(u) ==
  /\ Open(u) /\ worker[u] = None /\ next_seg <= MaxSegments
  /\ worker' = [worker EXCEPT ![u] = Fresh(next_seg)]
  /\ Write(<<u, "worker">>, File(next_seg, 0))
  /\ next_seg' = next_seg + 1
  /\ UNCHANGED <<storage, current, opened, stamper, updater, merge, reader, owner>>

Update(u, record) == updater' = [updater EXCEPT ![u] = record]

\* schedule_task: nothing is queued for an updater that was killed.
schedule_task(u, task) ==
  IF updater[u].alive THEN [updater EXCEPT ![u].tasks = Append(@, task)] ELSE updater

ScheduleAddSegment(u) ==
  /\ Finished(<<u, "worker">>)
  /\ updater' = schedule_task(u, [NoTask EXCEPT !.kind = "add", !.entry = worker[u]])
  /\ worker' = IF updater[u].alive THEN worker ELSE [worker EXCEPT ![u] = None]
  /\ writing' = [writing EXCEPT ![<<u, "worker">>] = None]
  /\ UNCHANGED <<storage, current, opened, stamper, merge, reader, next_seg, owner>>

-----------------------------------------------------------------------------
(* The owner: commits with any opstamp the operations since may lead to.      *)
ScheduleCommit(u) ==
  /\ Open(u) /\ worker[u] = None
  /\ \E opstamp \in stamper .. MaxOpstamp :
       /\ updater' = schedule_task(u, [NoTask EXCEPT !.kind = "commit", !.opstamp = opstamp])
       /\ stamper' = opstamp + 1
  /\ UNCHANGED <<storage, current, opened, worker, merge, writing, reader, next_seg, owner>>

ScheduleGarbageCollect(u) ==
  /\ "gc" \in Calls /\ Open(u) /\ updater[u].tasks = <<>>
  /\ updater' = schedule_task(u, [NoTask EXCEPT !.kind = "gc"])
  /\ UNCHANGED <<storage, current, opened, stamper, worker, merge, writing, reader, next_seg, owner>>

\* delete_term, as the first operation of a writer: its stamp is the opstamp of
\* the commit that the writer was opened on, whose segments it may concern. (Other
\* deletes show in the next stamp, and in the del files of commits and merges.)
FirstDelete(u) ==
  /\ "first_delete" \in Calls /\ Open(u) /\ stamper = updater[u].active.opstamp
  /\ worker[u] = None /\ updater[u].uncommitted = {} /\ updater[u].tasks = <<>>
  /\ undeleted' = ids(updater[u].committed) /\ stamper' = stamper + 1
  /\ UNCHANGED <<storage, current, opened, updater, worker, merge, writing, reader, next_seg, acked, settled>>

\* IndexWriter::new.
OpenWriter ==
  /\ opened < MaxWriters
  /\ opened' = opened + 1 /\ current' = opened'
  /\ stamper' = disk.meta.opstamp /\ undeleted' = {}

\* rollback kills the updater and opens a new writer on the same Index.
Rollback(u) ==
  /\ "rollback" \in Calls /\ Open(u)
  /\ QuietRollback => updater[u].step = "idle" /\ updater[u].tasks = <<>> /\ merge[u] = NoMerge
  /\ OpenWriter
  /\ updater' = [updater EXCEPT ![u].alive = FALSE, ![opened'] = NewUpdater(disk.meta)]
  /\ UNCHANGED <<storage, worker, merge, writing, reader, next_seg, acked, settled>>

-----------------------------------------------------------------------------
(* The updater thread.                                                       *)
others == <<current, opened, stamper, worker, merge, writing, reader, next_seg>>
Idle(record) == [record EXCEPT !.step = "idle", !.task = NoTask, !.entries = {}, !.todo = {}, !.meta = None]
TaskIs(u, kind) == u <= opened /\ updater[u].step = "idle" /\ updater[u].tasks # <<>> /\ Head(updater[u].tasks).kind = kind
Taken(u) == [updater[u] EXCEPT !.tasks = Tail(@), !.task = Head(updater[u].tasks)]

(* consider_merge_options: a merge of some uncommitted or committed segments *)
(* may start. Of uncommitted sources some may need a new del file; for       *)
(* committed ones the commit that is the target wrote it, but for a first    *)
(* delete made since, which has the same opstamp.                            *)
Targeted(metas, target) == {m \in metas : m.del # target}
Undeleted(metas, target) == {m \in Targeted(metas, target) : m.seg \in undeleted}

\* The merging thread makes no segment of sources that have no document left.
start_merge(u, sources, todo, target) ==
  \E empty \in BOOLEAN :
    /\ empty => todo = {} /\ \A m \in sources : m.del # 0
    /\ merge' = [merge EXCEPT ![u] = [sources |-> sources, todo |-> todo, target |-> target,
                                      merged |-> None, empty |-> empty]]
Mergeable(metas) == (SUBSET metas) \ {{}}

consider_merge_options(u) ==
  \/ UNCHANGED <<merge, stamper>>
  \/ /\ "merge" \in Calls /\ merge[u] = NoMerge
     /\ \/ /\ stamper <= MaxOpstamp /\ stamper' = stamper + 1
           /\ \E sources \in Mergeable(updater'[u].uncommitted) :
                \E todo \in SUBSET Targeted(sources, stamper) : start_merge(u, sources, todo, stamper)
        \/ /\ \E sources \in Mergeable(updater'[u].committed) :
                LET target == updater'[u].active.opstamp
                IN \E todo \in SUBSET Undeleted(sources, target) : start_merge(u, sources, todo, target)
           /\ UNCHANGED stamper

\* IndexWriter::merge, on the caller's thread, whatever the updater is doing.
MergeSegments(u) ==
  /\ "merge_call" \in Calls /\ Open(u) /\ merge[u] = NoMerge
  /\ \E sources \in Mergeable(updater[u].uncommitted) \cup Mergeable(updater[u].committed) :
       LET target == updater[u].active.opstamp
       IN \E todo \in SUBSET Undeleted(sources, target) : start_merge(u, sources, todo, target)
  /\ UNCHANGED <<storage, current, opened, stamper, updater, worker, writing, reader, next_seg, owner>>

AddSegment(u) ==
  /\ TaskIs(u, "add")
  /\ Update(u, Idle([Taken(u) EXCEPT !.uncommitted = @ \cup {Head(updater[u].tasks).entry}]))
  /\ worker' = [worker EXCEPT ![u] = None]
  /\ consider_merge_options(u)
  /\ UNCHANGED <<storage, current, opened, writing, reader, next_seg, owner>>

\* purge_deletes: advance_deletes on copies of the entries, some of which need a
\* del file (not when the commit is the writer's first operation).
StartCommit(u) ==
  /\ TaskIs(u, "commit")
  /\ LET entries == updater[u].uncommitted \cup updater[u].committed
     IN \E todo \in SUBSET Targeted(entries, Head(updater[u].tasks).opstamp) :
          /\ todo # {} => Head(updater[u].tasks).opstamp # updater[u].active.opstamp
          /\ Update(u, [Taken(u) EXCEPT !.step = "purge", !.entries = entries, !.todo = todo])
  /\ UNCHANGED <<storage, others, owner>>

\* end_merge catches up with the deletes of the commits since, likewise.
StartEndMerge(u) ==
  /\ TaskIs(u, "end_merge")
  /\ LET task == [Head(updater[u].tasks) EXCEPT !.opstamp = updater[u].active.opstamp]
         entries == OfTask(task)
     IN \E todo \in SUBSET Targeted(entries, task.opstamp) :
          Update(u, [Taken(u) EXCEPT !.step = "purge", !.task = task, !.entries = entries, !.todo = todo])
  /\ UNCHANGED <<storage, others, owner>>

StartGarbageCollect(u) ==
  /\ TaskIs(u, "gc")
  /\ Update(u, [Taken(u) EXCEPT !.step = "gc"])
  /\ UNCHANGED <<storage, others, owner>>

AdvanceDeletes(u) ==
  /\ updater[u].step = "purge" /\ writing[<<u, "updater">>] = None
  /\ \E m \in updater[u].todo :
       /\ Write(<<u, "updater">>, File(m.seg, updater[u].task.opstamp))
       /\ Update(u, [updater[u] EXCEPT !.todo = @ \ {m},
                       !.entries = (@ \ {m}) \cup {[m EXCEPT !.del = updater[u].task.opstamp]}])
  /\ UNCHANGED <<storage, current, opened, stamper, worker, merge, reader, next_seg, owner>>

\* The del file is written, or it existed (a crash left it): then the commit fails.
DeletesAdvanced(u) ==
  /\ updater[u].step = "purge"
  /\ \/ Finished(<<u, "updater">>) /\ UNCHANGED <<updater, merge>>
     \/ /\ Failed(<<u, "updater">>) /\ Update(u, Idle(updater[u]))
        /\ merge' = IF updater[u].task.kind = "end_merge" THEN [merge EXCEPT ![u] = NoMerge] ELSE merge
  /\ writing' = [writing EXCEPT ![<<u, "updater">>] = None]
  /\ UNCHANGED <<storage, current, opened, stamper, worker, reader, next_seg, owner>>

Purged(u, kind) ==
  /\ updater[u].step = "purge" /\ updater[u].task.kind = kind
  /\ updater[u].todo = {} /\ writing[<<u, "updater">>] = None

\* Mutant: the segments stay in the uncommitted register too.
CommitSegmentsTwice(u) ==
  /\ Purged(u, "commit")
  /\ Update(u, [updater[u] EXCEPT !.committed = updater[u].entries, !.entries = {}, !.step = "save"])
  /\ undeleted' = IF u = current THEN {} ELSE undeleted
  /\ UNCHANGED <<storage, others, acked, settled>>

CommitSegments(u) ==
  /\ Purged(u, "commit")
  /\ Update(u, [updater[u] EXCEPT !.committed = updater[u].entries, !.uncommitted = {},
                                  !.entries = {}, !.step = "save"])
  /\ undeleted' = IF u = current THEN {} ELSE undeleted
  /\ UNCHANGED <<storage, others, acked, settled>>

\* SegmentManager::end_merge: the sources are in one register or the other, or
\* the merge is given up, as a commit since left one of them without documents.
\* (delete_all_documents, which empties both registers, is in Indexer.)
EndMerge(u) ==
  /\ Purged(u, "end_merge")
  /\ LET up == updater[u]
         before == up.task.sources
         Replaced(register) == {m \in register : m.seg \notin before} \cup up.entries
     IN \/ /\ before \subseteq ids(up.uncommitted)
           /\ Update(u, [up EXCEPT !.uncommitted = Replaced(@), !.entries = {}, !.step = "merged"])
        \/ /\ before \subseteq ids(up.committed)
           /\ Update(u, [up EXCEPT !.committed = Replaced(@), !.entries = {}, !.step = "save"])
        \/ /\ ~ (before \subseteq ids(up.uncommitted)) /\ ~ (before \subseteq ids(up.committed))
           /\ Update(u, Idle(up))
  /\ merge' = [merge EXCEPT ![u] = NoMerge]
  /\ UNCHANGED <<storage, current, opened, stamper, worker, writing, reader, next_seg, owner>>

AfterSave(task) == IF task.kind = "commit" THEN "gc" ELSE "merged"

(* save_metas: not for a killed updater; segments left without documents go. *)
SaveMetas(u) ==
  /\ updater[u].step = "save"
  /\ IF updater[u].alive
     THEN \E empty \in SUBSET {m \in updater[u].committed : m.del # 0} :
            LET segments == updater[u].committed \ empty
            IN Update(u, [updater[u] EXCEPT !.committed = segments, !.step = "sync",
                            !.meta = [opstamp |-> updater[u].task.opstamp, segments |-> segments]])
     ELSE Update(u, [updater[u] EXCEPT !.step = AfterSave(updater[u].task)])
  /\ UNCHANGED <<storage, others, owner>>

\* Mutant: the directory is not synced before meta.json is replaced.
NoSync(u) ==
  /\ updater[u].step = "sync"
  /\ Update(u, [updater[u] EXCEPT !.step = "write"])
  /\ UNCHANGED <<disk, unsynced, managed_paths, others, owner>>

SyncDirectory(u) ==
  /\ updater[u].step = "sync"
  /\ unsynced' = {Entries(disk)}
  /\ Update(u, [updater[u] EXCEPT !.step = "write"])
  /\ UNCHANGED <<disk, managed_paths, others, owner>>

\* atomic_write of meta.json and store_meta.
WriteMeta(u) ==
  /\ updater[u].step = "write"
  /\ Change([disk EXCEPT !.meta = updater[u].meta])
  /\ Update(u, [updater[u] EXCEPT !.active = updater[u].meta, !.meta = None,
                                  !.step = AfterSave(updater[u].task)])
  /\ UNCHANGED <<managed_paths, others, owner>>

ConsiderMerge(u) ==
  /\ updater[u].step = "merged"
  /\ Update(u, [updater[u] EXCEPT !.step = "gc"])
  /\ consider_merge_options(u)
  /\ UNCHANGED <<storage, current, opened, worker, writing, reader, next_seg, owner>>

\* Mutant: the list is made without META_LOCK.
lock_ignored == TRUE

meta_lock_free == \A r \in Readers : reader[r] = None

\* garbage_collect: the list is made under the lock on managed_paths and META_LOCK, ...
ListGarbage(u) ==
  /\ updater[u].step = "gc" /\ meta_lock_free
  /\ Update(u, [updater[u] EXCEPT !.gc = managed_paths \ Living, !.step = "delete"])
  /\ UNCHANGED <<storage, others, owner>>

\* ... the files are deleted without them (a file already gone counts as deleted), ...
DeleteFile(u) ==
  /\ updater[u].step = "delete"
  /\ \E f \in updater[u].gc :
       /\ Change([disk EXCEPT !.files = @ \ {f}])
       /\ Update(u, [updater[u] EXCEPT !.gc = @ \ {f}, !.deleted = @ \cup {f}])
  /\ UNCHANGED <<managed_paths, others, owner>>

\* ... and forgotten, when there were any; then the task is over.
ForgetDeleted(u) ==
  /\ updater[u].step = "delete" /\ updater[u].gc = {}
  /\ IF updater[u].deleted = {} THEN UNCHANGED storage
     ELSE /\ managed_paths' = managed_paths \ updater[u].deleted
          /\ disk' = [disk EXCEPT !.managed = managed_paths']
          /\ unsynced' = {Entries(disk), Entries(disk')}
  /\ Update(u, [Idle(updater[u]) EXCEPT !.deleted = {}])
  /\ IF updater[u].task.kind = "commit" THEN consider_merge_options(u) ELSE UNCHANGED <<merge, stamper>>
  /\ IF updater[u].task.kind = "commit"
     THEN acked' = updater[u].task.opstamp /\ settled' = acked
     ELSE UNCHANGED <<acked, settled>>
  /\ UNCHANGED <<current, opened, worker, writing, reader, next_seg, undeleted>>

-----------------------------------------------------------------------------
(* The merging thread: del files for its sources, the merged segment, and an  *)
(* end_merge task.                                                            *)
MergeAdvance(u) ==
  /\ merge[u].merged = None /\ writing[<<u, "merge">>] = None
  /\ \E m \in merge[u].todo :
       /\ Write(<<u, "merge">>, File(m.seg, merge[u].target))
       /\ merge' = [merge EXCEPT ![u].todo = @ \ {m},
                      ![u].sources = (@ \ {m}) \cup {[m EXCEPT !.del = merge[u].target]}]
  /\ UNCHANGED <<storage, current, opened, stamper, updater, worker, reader, next_seg, owner>>

\* The del file is written; or it existed, and the merge is cancelled.
MergeAdvanced(u) ==
  /\ merge[u].merged = None /\ Ended(<<u, "merge">>)
  /\ merge' = IF Failed(<<u, "merge">>) THEN [merge EXCEPT ![u] = NoMerge] ELSE merge
  /\ writing' = [writing EXCEPT ![<<u, "merge">>] = None]
  /\ UNCHANGED <<storage, current, opened, stamper, updater, worker, reader, next_seg, owner>>

MergeWrite(u) ==
  /\ merge[u] # NoMerge /\ ~merge[u].empty /\ merge[u].merged = None /\ merge[u].todo = {}
  /\ writing[<<u, "merge">>] = None /\ next_seg <= MaxSegments
  /\ merge' = [merge EXCEPT ![u].merged = Fresh(next_seg)]
  /\ Write(<<u, "merge">>, File(next_seg, 0))
  /\ next_seg' = next_seg + 1
  /\ UNCHANGED <<storage, current, opened, stamper, updater, worker, reader, owner>>

ScheduleEndMerge(u) ==
  /\ \/ merge[u].merged # None /\ Finished(<<u, "merge">>)
     \/ merge[u].empty /\ merge[u].sources # {}
  /\ updater' = schedule_task(u, [NoTask EXCEPT !.kind = "end_merge", !.entry = merge[u].merged,
                                             !.sources = ids(merge[u].sources)])
  /\ merge' = IF updater[u].alive THEN [merge EXCEPT ![u].sources = {}] ELSE [merge EXCEPT ![u] = NoMerge]
  /\ writing' = [writing EXCEPT ![<<u, "merge">>] = None]
  /\ UNCHANGED <<storage, current, opened, stamper, worker, reader, next_seg, owner>>

-----------------------------------------------------------------------------
(* open_segment_readers: META_LOCK and meta.json, then its files.                *)
LoadMetas(r) ==
  /\ meta_lock_free
  /\ reader' = [reader EXCEPT ![r] = FilesOf(disk.meta.segments)]
  /\ UNCHANGED <<storage, current, opened, stamper, updater, worker, merge, writing, next_seg, owner>>

OpenRead(r) ==
  /\ reader[r] # None /\ reader[r] \subseteq disk.files
  /\ reader' = [reader EXCEPT ![r] = None]
  /\ UNCHANGED <<storage, current, opened, stamper, updater, worker, merge, writing, next_seg, owner>>

-----------------------------------------------------------------------------
(* Failures. *)
MemoryLost ==
  /\ current' = 0
  /\ managed_paths' = {}
  /\ updater' = [u \in Writers |-> NewUpdater([opstamp |-> 0, segments |-> {}])]
  /\ worker' = [u \in Writers |-> None]
  /\ merge' = [u \in Writers |-> NoMerge]
  /\ writing' = [t \in Threads |-> None]
  /\ UNCHANGED <<opened, stamper, next_seg, undeleted>>

Crash ==
  /\ "crash" \in Calls /\ current # 0 /\ opened < MaxWriters
  /\ MemoryLost
  /\ UNCHANGED <<disk, unsynced, reader, acked, settled>>

PowerLoss ==
  /\ "power_loss" \in Calls /\ current # 0 /\ opened < MaxWriters
  /\ MemoryLost
  /\ \E e \in AfterPowerLoss :
       /\ disk' = [disk EXCEPT !.files = e.files, !.meta = e.meta, !.managed = e.managed]
       /\ unsynced' = {e}
  /\ reader' = [r \in Readers |-> None]
  /\ acked' = disk'.meta.opstamp /\ settled' = acked'

\* ManagedDirectory::wrap and a new writer.
Restart ==
  /\ current = 0
  /\ OpenWriter
  /\ managed_paths' = disk.managed
  /\ updater' = [updater EXCEPT ![opened'] = NewUpdater(disk.meta)]
  /\ UNCHANGED <<disk, unsynced, worker, merge, writing, reader, next_seg, acked, settled>>

-----------------------------------------------------------------------------
WriteNext(t) == register_file_as_managed(t) \/ open_write(t) \/ terminate(t)
OwnerNext(u) ==
  \/ NewSegment(u) \/ FirstDelete(u) \/ ScheduleCommit(u) \/ ScheduleGarbageCollect(u)
  \/ MergeSegments(u) \/ Rollback(u)
UpdaterNext(u) ==
  \/ AddSegment(u) \/ StartCommit(u) \/ StartEndMerge(u) \/ StartGarbageCollect(u)
  \/ AdvanceDeletes(u) \/ DeletesAdvanced(u) \/ CommitSegments(u) \/ EndMerge(u)
  \/ SaveMetas(u) \/ SyncDirectory(u) \/ WriteMeta(u) \/ ConsiderMerge(u)
  \/ ListGarbage(u) \/ DeleteFile(u) \/ ForgetDeleted(u)
MergeNext(u) ==
  MergeAdvance(u) \/ MergeAdvanced(u) \/ MergeWrite(u) \/ ScheduleEndMerge(u)

Next ==
  \/ \E t \in Threads : WriteNext(t)
  \/ \E u \in Writers : OwnerNext(u) \/ ScheduleAddSegment(u) \/ UpdaterNext(u) \/ MergeNext(u)
  \/ \E r \in Readers : LoadMetas(r) \/ OpenRead(r)
  \/ Crash \/ PowerLoss \/ Restart

Spec == Init /\ [][Next]_vars

-----------------------------------------------------------------------------
IsFile(f) == f \in (1 .. MaxSegments) \X (0 .. MaxOpstamp)

\* What is on the disk and in memory is about segments that were made.
TypeOK ==
  /\ \A f \in disk.files \cup disk.closed \cup disk.managed \cup managed_paths : IsFile(f)
  /\ Entries(disk) \in unsynced
  /\ current \in 0 .. opened /\ opened \in Writers /\ stamper \in 0 .. MaxOpstamp + 1
  /\ \A u \in Writers : ids(updater[u].uncommitted) \cap ids(updater[u].committed) = {}

\* Every file that meta.json names is in the directory with its contents, and
\* will be if the power fails now (sync_directory in save_metas, garbage_collect).
PublishedFilesDurable ==
  \A e \in unsynced : FilesOf(disk.meta.segments) \subseteq e.files \cap disk.closed

\* Every file a live thread may still read is there: the garbage collector
\* spares merges, registers and segments that are not published yet (list_files).
LivingFilesExist == FilesOf(list_all_segment_metas) \ BeingWritten \subseteq disk.files

\* A reader finds every file of the meta.json it loaded, though the writer may
\* replace it and collect garbage meanwhile (META_LOCK, open_segment_readers).
ReaderFindsFiles == \A r \in Readers : reader[r] # None => reader[r] \subseteq disk.files

\* A crash never leaves a file that no garbage collection will ever find
\* (register_file_as_managed: registered before it is created).
NoOrphan == disk.files \subseteq disk.managed

\* The documentation of commit: after a crash or a failure of the hardware
\* indexing resumes from the last commit that returned (save_metas).
CommitSurvives == [][disk'.meta.opstamp >= acked]_vars

\* A crash costs no commit that returned, and a loss of power at most the last
\* one: the next save_metas syncs the directory before it writes meta.json.
EarlierCommitsSurvive ==
  [][disk'.meta.opstamp >= settled /\ (current' # 0 => disk'.meta.opstamp >= acked)]_vars

\* The documentation of commit: after a crash indexing can be resumed. No file
\* that a thread is about to make has its name taken (open_write, advance_deletes).
ResumeNotBlocked == \A t \in Threads : ~Failed(t)

\* The comment in rollback: once the updater is killed, its updates are ignored.
KilledIgnored ==
  [][\A u \in Writers : ~updater[u].alive /\ updater[u].step = "write" => disk'.meta = disk.meta]_vars
=============================================================================
