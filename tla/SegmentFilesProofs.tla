------------------------- MODULE SegmentFilesProofs -------------------------
(***************************************************************************)
(* tantivy never loses a file that it needs, for any number of segments,   *)
(* commits, merges, readers, crashes and losses of power, as long as       *)
(* rollback finds the updater idle (QuietRollback) and the first operation *)
(* of a writer is not a delete; and a loss of power costs one commit.      *)
(*                                                                         *)
(* The argument turns on the files that stay: complete, in the directory   *)
(* and on no updater's list of garbage. Every SegmentMeta that something   *)
(* holds, but for the file its own thread is writing, names files that     *)
(* stay (Keeps), and no step takes one away. What remains is names: a del  *)
(* file is never begun under a name that a meta.json of the directory, now *)
(* or as a loss of power may restore it, or a list of garbage holds        *)
(* (WritingOK, Doom); so a del file of a segment is only replaced by a     *)
(* later one (Segs) and commits and merges never share a stamp (Merging).  *)
(***************************************************************************)
EXTENDS SegmentFiles, TLAPS

Metas == [seg : Nat, del : Nat]
MetaFile == [opstamp : Nat, segments : SUBSET Metas]
FileNames == Nat \X Nat
Kinds == {"none", "add", "commit", "end_merge", "gc"}
Task == [kind : Kinds, entry : Metas \cup {None}, sources : SUBSET Nat, opstamp : Nat]
Steps == {"idle", "purge", "save", "sync", "write", "merged", "gc", "delete"}
Updater ==
  [alive : BOOLEAN, uncommitted : SUBSET Metas, committed : SUBSET Metas, active : MetaFile,
   tasks : Seq(Task), step : Steps, task : Task, entries : SUBSET Metas, todo : SUBSET Metas,
   meta : MetaFile \cup {None}, gc : SUBSET FileNames, deleted : SUBSET FileNames]
Merge ==
  [sources : SUBSET Metas, todo : SUBSET Metas, target : Nat, merged : Metas \cup {None}, empty : BOOLEAN]
Disk == [files : SUBSET FileNames, closed : SUBSET FileNames, managed : SUBSET FileNames, meta : MetaFile]
Directory == [files : SUBSET FileNames, meta : MetaFile, managed : SUBSET FileNames]
Writing == [file : FileNames, at : {"register", "create", "close", "done", "failed"}]

Shape ==
  /\ disk \in Disk /\ unsynced \subseteq Directory /\ managed_paths \subseteq FileNames
  /\ opened \in Writers /\ current \in 0 .. opened
  /\ stamper \in 0 .. MaxOpstamp + 1
  /\ updater \in [Writers -> Updater]
  /\ worker \in [Writers -> Metas \cup {None}]
  /\ merge \in [Writers -> Merge]
  /\ writing \in [Threads -> Writing \cup {None}]
  /\ reader \in [Readers -> (SUBSET FileNames) \cup {None}]
  /\ next_seg \in 1 .. MaxSegments + 1

\* Only the updater of the open writer works; a worker may outlive its writer.
StillOf(u) ==
  /\ writing[<<u, "worker">>] # None => worker[u] # None
  /\ u = current => updater[u].alive
  /\ u # current =>
       /\ updater[u].step = "idle" /\ updater[u].tasks = <<>> /\ merge[u] = NoMerge
       /\ updater[u].entries = {}
       /\ writing[<<u, "updater">>] = None /\ writing[<<u, "merge">>] = None
       /\ worker[u] # None => ~updater[u].alive /\ u < current
Still == \A u \in Writers : StillOf(u)

(* A meta names two files, the same one twice when it has no del file.       *)
Named(metas, files) == \A m \in metas : File(m.seg, 0) \in files /\ File(m.seg, m.del) \in files
Names(metas, f) == \E m \in metas : f = File(m.seg, 0) \/ f = File(m.seg, m.del)
OneEach(metas) == \A m, n \in metas : m.seg = n.seg => m = n
Made(f) == \E s \in 1 .. next_seg - 1, d \in 0 .. MaxOpstamp : f = File(s, d)

Doomed(f) == \E u \in Writers : f \in updater[u].gc
Stays == {f \in disk.files \cap disk.closed : ~Doomed(f)}
WrittenBy(t) == IF writing[t] = None THEN {} ELSE {writing[t].file}

\* Every file is on the list, now and as a loss of power may leave the directory.
Listed ==
  /\ managed_paths \subseteq disk.managed /\ (current # 0 => managed_paths = disk.managed)
  /\ Entries(disk) \in unsynced
  /\ \A f \in disk.closed : Made(f)
  /\ \A e \in unsynced : e.files \subseteq e.managed /\ \A f \in e.managed : Made(f)

\* What the directory may hold of a segment is not newer than metas.
Newer(metas) == \A e \in unsynced : \A m \in e.meta.segments, n \in metas : m.seg = n.seg => m.del =< n.del

Published ==
  /\ Named(disk.meta.segments, Stays)
  /\ Newer(disk.meta.segments)
  /\ \A e \in unsynced :
       /\ Named(disk.meta.segments, e.files)
       /\ Named(e.meta.segments, e.files) /\ Named(e.meta.segments, disk.closed)
       /\ Named(e.meta.segments, disk.managed)
       /\ OneEach(e.meta.segments)
       /\ e.meta.opstamp =< MaxOpstamp /\ \A m \in e.meta.segments : m.del =< e.meta.opstamp
  /\ \A u \in Writers : u = current => updater[u].active = disk.meta

\* A file being written is listed, then there, then complete; it is made anew
\* only when no meta.json names it.
WritingOK ==
  \A t \in Threads : writing[t] # None =>
    /\ Made(writing[t].file)
    /\ writing[t].at # "register" => writing[t].file \in managed_paths
    /\ writing[t].at \in {"close", "done", "failed"} => writing[t].file \in disk.files
    /\ writing[t].at = "done" => writing[t].file \in disk.closed
    /\ \/ writing[t].at \notin {"register", "create"}
       \/ writing[t].file \in disk.files
       \/ \A e \in unsynced : ~Names(e.meta.segments, writing[t].file)

\* The garbage collector's files are listed, and nobody writes or reads them.
Doom ==
  /\ \A u \in Writers :
       /\ updater[u].step # "delete" => updater[u].gc = {} /\ updater[u].deleted = {}
       /\ updater[u].gc \subseteq managed_paths /\ updater[u].deleted \subseteq managed_paths
       /\ \A f \in updater[u].deleted : f \notin disk.files
       /\ \A t \in Threads : \A f \in WrittenBy(t) : f \notin updater[u].gc /\ f \notin updater[u].deleted
  /\ \A r \in Readers : reader[r] # None => \A f \in reader[r] : f \in disk.files /\ ~Doomed(f)

KeepsOf(u) ==
  /\ (u = current \/ worker[u] # None) =>
       /\ Named(updater[u].uncommitted, Stays) /\ Named(updater[u].committed, Stays)
       /\ Named(updater[u].active.segments, Stays)
  /\ worker[u] # None => Named({worker[u]}, Stays \cup WrittenBy(<<u, "worker">>))
  /\ Named(updater[u].entries, Stays \cup WrittenBy(<<u, "updater">>))
  /\ updater[u].step \in {"sync", "write"} =>
       /\ updater[u].meta \in MetaFile /\ updater[u].meta.opstamp = updater[u].task.opstamp
       /\ updater[u].meta.segments = updater[u].committed
  /\ updater[u].step = "write" => \A e \in unsynced : Named(updater[u].committed, e.files)
Keeps == \A u \in Writers : KeepsOf(u)

(* A segment in the making is in no register and in no meta.json, and has no *)
(* del file.                                                                 *)
Marked(s, d) == File(s, d) \in managed_paths \/ \E t \in Threads : File(s, d) \in WrittenBy(t)
Pending(u, n) ==
  /\ n.del = 0
  /\ \A m \in updater[u].uncommitted \cup updater[u].committed : m.seg # n.seg
  /\ \A e \in unsynced : \A m \in e.meta.segments : m.seg # n.seg

Saving == {"save", "sync", "write"}
Purging == {"purge"} \cup Saving

Apart(u) == \A m \in updater[u].uncommitted, n \in updater[u].committed : m.seg # n.seg
SegsOf(u) ==
  /\ OneEach(updater[u].uncommitted) /\ OneEach(updater[u].committed) /\ OneEach(updater[u].entries)
  /\ Newer(updater[u].uncommitted) /\ Newer(updater[u].committed) /\ Newer(updater[u].entries)
  /\ worker[u] # None =>
       /\ Pending(u, worker[u])
       /\ \A m \in updater[u].entries : m.seg # worker[u].seg
       /\ \A d \in Nat : Marked(worker[u].seg, d) => d = 0
  /\ \A m \in updater[u].uncommitted : m.del =< updater[u].active.opstamp
  /\ \A m \in updater[u].committed :
       m.del =< IF updater[u].step \in Saving THEN updater[u].task.opstamp ELSE updater[u].active.opstamp
  /\ \A m \in updater[u].entries : m.del =< updater[u].task.opstamp
  /\ updater[u].todo \subseteq updater[u].entries
  /\ \A m \in updater[u].todo : m.del # updater[u].task.opstamp
Segs == \A u \in Writers : Apart(u) /\ (u = current => SegsOf(u))

\* The updater's task and the queue behind it: commits in the order of their stamps.
Queued(u) == 1 .. Len(updater[u].tasks)
IsTask(u, i, kind) == updater[u].tasks[i].kind = kind
EndingMerge(u) == updater[u].step = "purge" /\ updater[u].task.kind = "end_merge"

TaskOf(u) ==
  /\ updater[u].step # "purge" => updater[u].entries = {} /\ writing[<<u, "updater">>] = None
  /\ updater[u].step = "idle" => updater[u].task = NoTask
  /\ updater[u].step = "merged" => updater[u].task.kind = "end_merge"
  /\ EndingMerge(u) => updater[u].task.opstamp = updater[u].active.opstamp
  /\ updater[u].step \in Purging =>
       /\ updater[u].task.kind \in {"commit", "end_merge"}
       /\ updater[u].active.opstamp =< updater[u].task.opstamp
       /\ updater[u].task.opstamp =< MaxOpstamp
  /\ updater[u].task.kind = "commit" /\ updater[u].step \in {"gc", "delete"} =>
       updater[u].task.opstamp =< updater[u].active.opstamp

ItemOf(u, i) ==
  /\ updater[u].tasks[i].entry # None => updater[u].tasks[i].kind \in {"add", "end_merge"}
  /\ IsTask(u, i, "commit") =>
       /\ updater[u].active.opstamp =< updater[u].tasks[i].opstamp
       /\ updater[u].tasks[i].opstamp =< MaxOpstamp
       /\ updater[u].step \in Purging => updater[u].task.opstamp =< updater[u].tasks[i].opstamp
  /\ IsTask(u, i, "add") =>
       worker[u] # None /\ updater[u].tasks[i].entry = worker[u] /\ writing[<<u, "worker">>] = None

PairOf(u, i, j) ==
  /\ IsTask(u, i, "commit") /\ IsTask(u, j, "commit") => updater[u].tasks[i].opstamp =< updater[u].tasks[j].opstamp
  /\ ~ (IsTask(u, i, "add") /\ IsTask(u, j, "add"))
  /\ ~ (IsTask(u, i, "end_merge") /\ IsTask(u, j, "end_merge"))

QueueOf(u) ==
  /\ TaskOf(u)
  /\ \A i \in Queued(u) : ItemOf(u, i)
  /\ \A i, j \in Queued(u) : i < j => PairOf(u, i, j)
Queue == \A u \in Writers : u = current => QueueOf(u)

(* A merge, with its stamp among those that were given out before st. Its    *)
(* sources and its result are kept, the del files it will write are not on   *)
(* the list, and its result is not in use yet.                               *)
Sources(u, M) ==
  /\ writing[<<u, "merge">>] # None => M # NoMerge
  /\ Named(M.sources, Stays \cup WrittenBy(<<u, "merge">>))
  /\ M.todo \subseteq M.sources /\ OneEach(M.todo)
  /\ \A m \in M.todo : ~Marked(m.seg, M.target) /\ M.target =< MaxOpstamp
  /\ worker[u] # None => \A m \in M.todo : m.seg # worker[u].seg
  /\ M.empty => M.todo = {} /\ M.merged = None /\ writing[<<u, "merge">>] = None

\* A merge whose end is scheduled or under way has its result, if there is to be one.
Over(u, M) ==
  /\ M # NoMerge /\ M.sources = {} /\ writing[<<u, "merge">>] = None
  /\ M.merged = None => M.empty

Result(u, M) ==
  /\ M.merged # None =>
       /\ M.todo = {}
       /\ Named({M.merged}, Stays \cup WrittenBy(<<u, "merge">>))
       /\ Pending(u, M.merged)
       /\ worker[u] # None => worker[u].seg # M.merged.seg
       /\ ~EndingMerge(u) => \A m \in updater[u].entries : m.seg # M.merged.seg
       /\ \A d \in Nat : Marked(M.merged.seg, d) =>
            d = 0 \/ \E m \in updater[u].entries : m.seg = M.merged.seg /\ m.del = d
  /\ EndingMerge(u) =>
       /\ Over(u, M)
       /\ \A m \in updater[u].entries : M.merged # None /\ m.seg = M.merged.seg
       /\ \A m \in updater[u].todo : m.del = 0

EndItem(u, M, i) ==
  IsTask(u, i, "end_merge") =>
    Over(u, M) /\ updater[u].tasks[i].entry = M.merged /\ ~EndingMerge(u)

Stamps(u, M, st) ==
  /\ updater[u].active.opstamp =< st
  /\ updater[u].step \in Purging => updater[u].task.opstamp =< st
  /\ M.todo # {} => M.target < st
  /\ updater[u].step = "purge" /\ updater[u].task.kind = "commit" =>
       updater[u].task.opstamp < st /\ (M.todo # {} => updater[u].task.opstamp # M.target)
  /\ \A m \in updater[u].uncommitted : \A d \in Nat : Marked(m.seg, d) => (d < st \/ d = 0 \/ d = m.del)

StampItem(u, M, st, i) ==
  IsTask(u, i, "commit") =>
    updater[u].tasks[i].opstamp < st /\ (M.todo # {} => updater[u].tasks[i].opstamp # M.target)

MergeOf(u, M, st) ==
  /\ Sources(u, M) /\ Result(u, M) /\ Stamps(u, M, st)
  /\ \A i \in Queued(u) : EndItem(u, M, i) /\ StampItem(u, M, st, i)
Merging == \A u \in Writers : u = current => MergeOf(u, merge[u], stamper)

IInv == Shape /\ Still /\ Listed /\ Published /\ WritingOK /\ Doom /\ Keeps /\ Segs /\ Queue /\ Merging

USE SegmentFilesAssumption

-----------------------------------------------------------------------------
(* Facts about the operators.                                                *)
LEMMA FileInj ==
  ASSUME NEW a, NEW b, NEW c, NEW d, File(a, b) = File(c, d)
  PROVE  a = c /\ b = d
  BY DEF File

LEMMA ListFiles ==
  ASSUME NEW m
  PROVE  list_files(m) = {File(m.seg, 0), File(m.seg, m.del)}
  BY DEF list_files

LEMMA NamedFiles ==
  ASSUME NEW metas
  PROVE  /\ \A f : f \in FilesOf(metas) <=> Names(metas, f)
         /\ \A files : FilesOf(metas) \subseteq files <=> Named(metas, files)
<1>1. ASSUME NEW f PROVE f \in FilesOf(metas) <=> Names(metas, f)
  BY ListFiles DEF FilesOf, Names
<1>2. QED
  BY <1>1 DEF Names, Named

\* The thread of an updater, a worker and a merge.
LEMMA ThreadNames ==
  ASSUME NEW u \in Writers
  PROVE  <<u, "worker">> \in Threads /\ <<u, "updater">> \in Threads /\ <<u, "merge">> \in Threads
  BY DEF Threads

\* Only u's updater changes, and becomes q.
LEMMA Updated ==
  ASSUME Shape, NEW u \in Writers, NEW q \in Updater, Update(u, q)
  PROVE  /\ updater' \in [Writers -> Updater] /\ updater'[u] = q
         /\ \A v \in Writers : v # u => updater'[v] = updater[v]
  BY DEF Shape, Update

LEMMA Types ==
  ASSUME Shape, NEW u \in Writers
  PROVE  /\ updater[u] \in Updater /\ merge[u] \in Merge /\ worker[u] \in Metas \cup {None}
         /\ stamper \in Nat /\ stamper =< MaxOpstamp + 1
         /\ updater[u].active \in MetaFile /\ updater[u].active.opstamp \in Nat
         /\ updater[u].task \in Task /\ updater[u].task.opstamp \in Nat
         /\ updater[u].tasks \in Seq(Task) /\ Len(updater[u].tasks) \in Nat
         /\ \A i \in Queued(u) : i \in Nat /\ updater[u].tasks[i] \in Task /\ updater[u].tasks[i].opstamp \in Nat
         /\ merge[u].target \in Nat
         /\ updater[u].uncommitted \subseteq Metas /\ updater[u].committed \subseteq Metas
         /\ updater[u].entries \subseteq Metas /\ updater[u].todo \subseteq Metas
         /\ merge[u].sources \subseteq Metas /\ merge[u].todo \subseteq Metas
         /\ \A m \in Metas : m.seg \in Nat /\ m.del \in Nat
<1>1. updater[u] \in Updater /\ merge[u] \in Merge /\ worker[u] \in Metas \cup {None}
      /\ stamper \in Nat /\ stamper =< MaxOpstamp + 1
  BY DEF Shape
<1>2. /\ updater[u].active \in MetaFile /\ updater[u].task \in Task /\ updater[u].tasks \in Seq(Task)
      /\ updater[u].uncommitted \subseteq Metas /\ updater[u].committed \subseteq Metas
      /\ updater[u].entries \subseteq Metas /\ updater[u].todo \subseteq Metas
  BY <1>1 DEF Updater
<1>3. merge[u].target \in Nat /\ merge[u].sources \subseteq Metas /\ merge[u].todo \subseteq Metas
  BY <1>1 DEF Merge
<1>4. /\ updater[u].active.opstamp \in Nat /\ updater[u].task.opstamp \in Nat
      /\ Len(updater[u].tasks) \in Nat
  BY <1>2 DEF MetaFile, Task
<1>5. \A i \in Queued(u) : i \in Nat /\ updater[u].tasks[i] \in Task
  BY <1>2, <1>4 DEF Queued
<1>6. (\A i \in Queued(u) : updater[u].tasks[i].opstamp \in Nat) /\ \A m \in Metas : m.seg \in Nat /\ m.del \in Nat
  BY <1>5 DEF Task, Metas
<1>7. QED
  BY <1>1, <1>2, <1>3, <1>4, <1>5, <1>6

-----------------------------------------------------------------------------
(* Steps that leave the directory and the files being written alone.         *)
Untouched ==
  /\ UNCHANGED <<disk, unsynced, managed_paths, current, writing, reader, next_seg>>
  /\ \A v \in Writers : updater'[v].gc = updater[v].gc /\ updater'[v].deleted = updater[v].deleted

LEMMA UntouchedFiles ==
  ASSUME IInv, Untouched
  PROVE  /\ Listed' /\ WritingOK' /\ Stays' = Stays
         /\ \A t : WrittenBy(t)' = WrittenBy(t)
         /\ \A s, d : Marked(s, d)' = Marked(s, d)
         /\ \A metas : Newer(metas)' = Newer(metas)
<1>1. UNCHANGED <<disk, unsynced, managed_paths, current, writing, next_seg>>
  BY DEF Untouched
<1>2. Listed' /\ WritingOK'
  BY <1>1 DEF IInv, Listed, WritingOK, Made, Entries
<1>3. \A f : Doomed(f)' = Doomed(f)
  BY DEF Doomed, Untouched
<1>4. Stays' = Stays
  BY <1>1, <1>3 DEF Stays
<1>5. (\A t : WrittenBy(t)' = WrittenBy(t)) /\ \A metas : Newer(metas)' = Newer(metas)
  BY <1>1 DEF WrittenBy, Newer
<1>6. \A s, d : Marked(s, d)' = Marked(s, d)
  BY <1>1, <1>5 DEF Marked
<1>7. QED
  BY <1>2, <1>4, <1>5, <1>6

LEMMA UntouchedRest ==
  ASSUME IInv, Untouched,
         \A v \in Writers : /\ updater'[v].active = updater[v].active
                            /\ updater'[v].step # "delete" => updater[v].step # "delete"
  PROVE  Listed' /\ Published' /\ WritingOK' /\ Doom'
<1>1. UNCHANGED <<disk, unsynced, managed_paths, current, writing, reader>>
  BY DEF Untouched
<1>2. \A f : Doomed(f)' = Doomed(f)
  BY DEF Doomed, Untouched
<1>3. Published'
  BY <1>1, UntouchedFiles DEF IInv, Published, Named, OneEach
<1>4. Doom'
  BY <1>1, <1>2, UntouchedFiles DEF IInv, Doom, Untouched
<1>5. QED
  BY <1>3, <1>4, UntouchedFiles

\* A record with another queue.
LEMMA WithTasks ==
  ASSUME NEW r \in Updater, NEW tasks \in Seq(Task)
  PROVE  LET q == [r EXCEPT !.tasks = tasks] IN
         /\ q \in Updater /\ q.tasks = tasks
         /\ q.alive = r.alive /\ q.uncommitted = r.uncommitted /\ q.committed = r.committed
         /\ q.active = r.active /\ q.step = r.step /\ q.task = r.task /\ q.entries = r.entries
         /\ q.todo = r.todo /\ q.meta = r.meta /\ q.gc = r.gc /\ q.deleted = r.deleted
  BY DEF Updater

(* A task is scheduled: the queue of the open writer's updater grows.        *)
LEMMA Scheduled ==
  ASSUME IInv, NEW u \in Writers, NEW task \in Task, u = current, updater' = schedule_task(u, task)
  PROVE  /\ updater' \in [Writers -> Updater]
         /\ \A v \in Writers : v # u => updater'[v] = updater[v]
         /\ updater'[u] = [updater[u] EXCEPT !.tasks = Append(updater[u].tasks, task)]
         /\ Len(updater'[u].tasks) = Len(updater[u].tasks) + 1 /\ Len(updater[u].tasks) \in Nat
         /\ updater'[u].tasks[Len(updater[u].tasks) + 1] = task
         /\ \A i \in Queued(u) : updater'[u].tasks[i] = updater[u].tasks[i]
         /\ \A i \in Queued(u)' : i \in Queued(u) \/ i = Len(updater[u].tasks) + 1
         /\ \A i \in Queued(u) : i < Len(updater[u].tasks) + 1
<1>1. updater[u] \in Updater /\ updater[u].alive
  BY DEF IInv, Shape, Still, StillOf
<1>2. updater[u].tasks \in Seq(Task)
  BY <1>1 DEF Updater
<1> DEFINE q == [updater[u] EXCEPT !.tasks = Append(updater[u].tasks, task)]
<1>a. Append(updater[u].tasks, task) \in Seq(Task)
  BY <1>2
<1>3. q \in Updater /\ q.tasks = Append(updater[u].tasks, task)
  BY <1>1, <1>a, WithTasks
<1>4. updater' = [updater EXCEPT ![u] = q]
  BY <1>1 DEF schedule_task
<1> HIDE DEF q
<1>5. /\ updater' \in [Writers -> Updater] /\ updater'[u] = q
      /\ \A v \in Writers : v # u => updater'[v] = updater[v]
  BY <1>3, <1>4, Updated DEF IInv, Update
<1>6. /\ Len(updater'[u].tasks) = Len(updater[u].tasks) + 1 /\ Len(updater[u].tasks) \in Nat
      /\ updater'[u].tasks[Len(updater[u].tasks) + 1] = task
      /\ \A i \in 1 .. Len(updater[u].tasks) : updater'[u].tasks[i] = updater[u].tasks[i]
  BY <1>2, <1>3, <1>5
<1>7. QED
  BY <1>5, <1>6 DEF q, Queued

\* What a longer queue leaves alone.
LEMMA ScheduledRest ==
  ASSUME IInv, NEW u \in Writers, NEW task \in Task, u = current, updater' = schedule_task(u, task)
  PROVE  /\ \A v \in Writers :
              /\ updater'[v].alive = updater[v].alive /\ updater'[v].uncommitted = updater[v].uncommitted
              /\ updater'[v].committed = updater[v].committed /\ updater'[v].active = updater[v].active
              /\ updater'[v].step = updater[v].step /\ updater'[v].task = updater[v].task
              /\ updater'[v].entries = updater[v].entries /\ updater'[v].todo = updater[v].todo
              /\ updater'[v].meta = updater[v].meta /\ updater'[v].gc = updater[v].gc
              /\ updater'[v].deleted = updater[v].deleted
         /\ \A v \in Writers : v # u => updater'[v].tasks = updater[v].tasks
<1>1. updater[u] \in Updater
  BY DEF IInv, Shape
<1>2. Append(updater[u].tasks, task) \in Seq(Task)
  BY <1>1 DEF Updater
<1>3. \A v \in Writers : v # u => updater'[v] = updater[v]
  BY Scheduled
<1> DEFINE q == [updater[u] EXCEPT !.tasks = Append(updater[u].tasks, task)]
<1>4. updater'[u] = q
  BY Scheduled
<1>5. /\ q.alive = updater[u].alive /\ q.uncommitted = updater[u].uncommitted
      /\ q.committed = updater[u].committed /\ q.active = updater[u].active /\ q.step = updater[u].step
      /\ q.task = updater[u].task /\ q.entries = updater[u].entries /\ q.todo = updater[u].todo
      /\ q.meta = updater[u].meta /\ q.gc = updater[u].gc /\ q.deleted = updater[u].deleted
  BY <1>1, <1>2, WithTasks
<1> HIDE DEF q
<1>6. QED
  BY <1>3, <1>4, <1>5

LEMMA ScheduledStep ==
  ASSUME IInv, NEW u \in Writers, NEW task \in Task, u = current, updater' = schedule_task(u, task),
         UNCHANGED <<disk, unsynced, managed_paths, current, opened, worker, merge, writing, reader, next_seg>>,
         stamper' \in stamper .. MaxOpstamp + 1,
         task.entry = None, task.kind \in {"commit", "gc"},
         task.kind = "commit" => task.opstamp \in stamper .. stamper' - 1
  PROVE  IInv'
<1>1. Untouched
  BY ScheduledRest DEF Untouched
<1>2. Listed' /\ Published' /\ WritingOK' /\ Doom'
  BY <1>1, ScheduledRest, UntouchedRest
<1>0. Shape /\ Still /\ Keeps /\ Segs /\ Queue /\ Merging
  BY DEF IInv
<1>3. Shape'
  <2>1. updater' \in [Writers -> Updater]
    BY Scheduled
  <2>2. stamper' \in 0 .. MaxOpstamp + 1
    BY <1>0 DEF Shape
  <2>3. QED
    BY <1>0, <2>1, <2>2 DEF Shape
<1>4. ASSUME NEW v \in Writers PROVE StillOf(v)'
  BY <1>0, ScheduledRest DEF Still, StillOf
<1>5. ASSUME NEW v \in Writers PROVE KeepsOf(v)'
  BY <1>0, <1>1, UntouchedFiles, ScheduledRest DEF Keeps, KeepsOf, Named
<1>6. Segs'
  BY <1>0, <1>1, UntouchedFiles, ScheduledRest DEF Segs, SegsOf, Apart, Pending, OneEach
<1> DEFINE n == Len(updater[u].tasks) + 1
<1>7. /\ \A i \in Queued(u) : updater'[u].tasks[i] = updater[u].tasks[i]
      /\ updater'[u].tasks[n] = task /\ \A i \in Queued(u)' : i \in Queued(u) \/ i = n
      /\ \A i \in Queued(u) : i < n
  BY Scheduled
<1>a. /\ stamper \in Nat /\ stamper' \in Nat /\ stamper =< stamper' /\ n \in Nat
      /\ updater[u].active.opstamp \in Nat /\ updater[u].task.opstamp \in Nat
      /\ \A i \in Queued(u) : i \in Nat /\ updater[u].tasks[i].opstamp \in Nat
      /\ \A m \in updater[u].uncommitted : m.del \in Nat
  BY <1>0, <1>3, Types DEF Shape
<1>b. task.kind = "commit" => /\ task.opstamp \in Nat /\ stamper =< task.opstamp /\ task.opstamp < stamper'
                              /\ task.opstamp =< MaxOpstamp
  BY <1>0, <1>3, <1>a DEF Shape, Task
<1> HIDE DEF n
<1>8. TaskOf(u)' /\ Sources(u, merge[u])' /\ Result(u, merge[u])'
  BY <1>0, <1>1, UntouchedFiles, ScheduledRest
     DEF Queue, QueueOf, TaskOf, Merging, MergeOf, Sources, Result, Over, Pending, EndingMerge, Named
<1>9. Stamps(u, merge[u], stamper)'
  <2>1. Stamps(u, merge[u], stamper)
    BY <1>0 DEF Merging, MergeOf
  <2>2. /\ updater'[u].active = updater[u].active /\ updater'[u].step = updater[u].step
        /\ updater'[u].task = updater[u].task /\ updater'[u].uncommitted = updater[u].uncommitted
        /\ updater'[u].committed = updater[u].committed
        /\ merge'[u] = merge[u] /\ merge[u].target \in Nat
    BY <1>0, ScheduledRest, Types DEF Shape
  <2>3. QED
    BY <1>a, <2>1, <2>2, UntouchedFiles, <1>1 DEF Stamps
<1>10. ASSUME NEW i \in Queued(u)'
       PROVE  ItemOf(u, i)' /\ EndItem(u, merge[u], i)' /\ StampItem(u, merge[u], stamper, i)'
  <2>1. CASE i \in Queued(u)
    <3>1. ItemOf(u, i) /\ EndItem(u, merge[u], i) /\ StampItem(u, merge[u], stamper, i)
      BY <1>0, <2>1 DEF Queue, QueueOf, Merging, MergeOf
    <3>2. ItemOf(u, i)' /\ EndItem(u, merge[u], i)'
      BY <1>7, <2>1, <3>1, ScheduledRest DEF ItemOf, IsTask, EndItem, Over, EndingMerge
    <3>3. StampItem(u, merge[u], stamper, i)'
      BY <1>7, <1>a, <2>1, <3>1 DEF StampItem, IsTask
    <3>4. QED
      BY <3>2, <3>3
  <2>2. CASE i = n
    <3>1. updater'[u].tasks[i] = task
      BY <1>7, <2>2
    <3>2. TaskOf(u) /\ Stamps(u, merge[u], stamper)
      BY <1>0 DEF Queue, QueueOf, Merging, MergeOf
    <3>3. ItemOf(u, i)' /\ EndItem(u, merge[u], i)'
      BY <1>a, <1>b, <3>1, <3>2, ScheduledRest DEF ItemOf, TaskOf, Stamps, IsTask, EndItem, Over
    <3>4. StampItem(u, merge[u], stamper, i)'
      BY <1>0, <1>a, <1>b, <3>1, <3>2, Types DEF StampItem, Stamps, IsTask
    <3>5. QED
      BY <3>3, <3>4
  <2>3. QED
    BY <1>7, <2>1, <2>2
<1>11. ASSUME NEW i \in Queued(u)', NEW j \in Queued(u)', i < j
       PROVE  PairOf(u, i, j)'
  <2>1. i \in Queued(u)
    BY <1>7, <1>a, <1>11
  <2>2. CASE j \in Queued(u)
    BY <1>0, <1>7, <1>11, <2>1, <2>2, SMTT(30) DEF Queue, QueueOf, PairOf, IsTask
  <2>3. CASE j = n
    <3>1. StampItem(u, merge[u], stamper, i)
      BY <1>0, <2>1 DEF Merging, MergeOf
    <3>2. QED
      BY <1>7, <1>a, <1>b, <2>1, <2>3, <3>1 DEF PairOf, IsTask, StampItem
  <2>4. QED
    BY <1>7, <2>2, <2>3
<1>12. QueueOf(u)' /\ MergeOf(u, merge[u], stamper)'
  BY <1>8, <1>9, <1>10, <1>11 DEF QueueOf, MergeOf
<1>13. QED
  BY <1>2, <1>3, <1>4, <1>5, <1>6, <1>12 DEF IInv, Still, Keeps, Queue, Merging

LEMMA ScheduleCommitStep ==
  ASSUME IInv, NEW u \in Writers, ScheduleCommit(u)
  PROVE  IInv'
<1>1. PICK o \in stamper .. MaxOpstamp :
        /\ updater' = schedule_task(u, [NoTask EXCEPT !.kind = "commit", !.opstamp = o])
        /\ stamper' = o + 1
  BY DEF ScheduleCommit
<1> DEFINE task == [NoTask EXCEPT !.kind = "commit", !.opstamp = o]
<1>2. stamper \in Nat /\ o \in Nat /\ o =< MaxOpstamp /\ stamper =< o
  BY DEF IInv, Shape
<1>3. task \in Task /\ task.entry = None /\ task.kind = "commit" /\ task.opstamp = o
  BY <1>2 DEF Task, NoTask, Kinds
<1>4. u = current /\ UNCHANGED <<disk, unsynced, managed_paths, current, opened, worker, merge, writing, reader,
                                next_seg>>
  BY DEF ScheduleCommit, Open, storage
<1> HIDE DEF task
<1>5. stamper' \in stamper .. MaxOpstamp + 1 /\ task.opstamp \in stamper .. stamper' - 1
  BY <1>1, <1>2, <1>3
<1>6. updater' = schedule_task(u, task)
  BY <1>1 DEF task
<1>7. QED
  BY <1>3, <1>4, <1>5, <1>6, ScheduledStep

LEMMA ScheduleGarbageCollectStep ==
  ASSUME IInv, NEW u \in Writers, ScheduleGarbageCollect(u)
  PROVE  IInv'
<1> DEFINE task == [NoTask EXCEPT !.kind = "gc"]
<1>1. task \in Task /\ task.entry = None /\ task.kind = "gc"
  BY DEF Task, NoTask, Kinds
<1>2. u = current /\ UNCHANGED <<disk, unsynced, managed_paths, current, opened, worker, merge, writing, reader,
                                next_seg>>
  BY DEF ScheduleGarbageCollect, Open, storage
<1>3. stamper' \in stamper .. MaxOpstamp + 1
  BY DEF ScheduleGarbageCollect, IInv, Shape
<1>4. updater' = schedule_task(u, task)
  BY DEF ScheduleGarbageCollect
<1> HIDE DEF task
<1>5. QED
  BY <1>1, <1>2, <1>3, <1>4, ScheduledStep

-----------------------------------------------------------------------------
(* What a step of the updater does to its record.                            *)
Effect(u, unc, com, act, tasks, step, task, entries, todo, gc, deleted) ==
  /\ updater' \in [Writers -> Updater]
  /\ \A v \in Writers : v # u => updater'[v] = updater[v]
  /\ updater'[u].alive = updater[u].alive
  /\ updater'[u].uncommitted = unc /\ updater'[u].committed = com /\ updater'[u].active = act
  /\ updater'[u].tasks = tasks /\ updater'[u].step = step /\ updater'[u].task = task
  /\ updater'[u].entries = entries /\ updater'[u].todo = todo
  /\ updater'[u].gc = gc /\ updater'[u].deleted = deleted

LEMMA Effects ==
  ASSUME Shape, NEW u \in Writers, NEW q \in Updater, Update(u, q), q.alive = updater[u].alive
  PROVE  /\ Effect(u, q.uncommitted, q.committed, q.active, q.tasks, q.step, q.task, q.entries, q.todo, q.gc,
                   q.deleted)
         /\ updater'[u].meta = q.meta
  BY Updated DEF Effect

\* Only the updater of the open writer works.
LEMMA Works ==
  ASSUME IInv, NEW u \in Writers,
         \/ updater[u].step # "idle" \/ updater[u].tasks # <<>> \/ merge[u] # NoMerge
         \/ writing[<<u, "updater">>] # None \/ writing[<<u, "merge">>] # None
  PROVE  u = current
  BY DEF IInv, Still, StillOf

LEMMA HeadFacts ==
  ASSUME NEW s \in Seq(Task), s # <<>>
  PROVE  /\ Head(s) \in Task /\ Head(s) = s[1] /\ Tail(s) \in Seq(Task) /\ Len(s) \in Nat /\ Len(s) >= 1
         /\ Len(Tail(s)) = Len(s) - 1 /\ \A i \in 1 .. Len(s) - 1 : Tail(s)[i] = s[i + 1]
  OBVIOUS

LEMMA AddSegmentEffect ==
  ASSUME Shape, NEW u \in Writers, AddSegment(u), Head(updater[u].tasks).entry \in Metas
  PROVE  Effect(u, updater[u].uncommitted \cup {Head(updater[u].tasks).entry}, updater[u].committed,
                updater[u].active, Tail(updater[u].tasks), "idle", NoTask, {}, {}, updater[u].gc,
                updater[u].deleted)
<1> DEFINE r == updater[u]
           q == Idle([Taken(u) EXCEPT !.uncommitted = @ \cup {Head(updater[u].tasks).entry}])
<1>1. r \in Updater /\ Head(r.tasks) \in Task /\ Tail(r.tasks) \in Seq(Task)
  BY Types, HeadFacts DEF AddSegment, TaskIs
<1>2. NoTask \in Task
  BY DEF NoTask, Task, Kinds
<1>3. /\ q \in Updater /\ q.alive = r.alive /\ q.uncommitted = r.uncommitted \cup {Head(updater[u].tasks).entry}
      /\ q.committed = r.committed /\ q.active = r.active /\ q.tasks = Tail(r.tasks) /\ q.step = "idle"
      /\ q.task = NoTask /\ q.entries = {} /\ q.todo = {} /\ q.gc = r.gc /\ q.deleted = r.deleted
  BY <1>1, <1>2 DEF Idle, Taken, Updater, Steps
<1>4. Update(u, q)
  BY DEF AddSegment
<1> HIDE DEF q
<1>5. QED
  BY <1>3, <1>4, Effects DEF Effect

LEMMA TakenCommit ==
  ASSUME Shape, NEW u \in Writers, NEW E \in SUBSET Metas, NEW T \in SUBSET Metas, updater[u].tasks # <<>>,
         Update(u, [Taken(u) EXCEPT !.step = "purge", !.entries = E, !.todo = T])
  PROVE  Effect(u, updater[u].uncommitted, updater[u].committed, updater[u].active, Tail(updater[u].tasks), "purge",
                Head(updater[u].tasks), E, T, updater[u].gc, updater[u].deleted)
<1> DEFINE q == [Taken(u) EXCEPT !.step = "purge", !.entries = E, !.todo = T]
<1>1. updater[u] \in Updater /\ Head(updater[u].tasks) \in Task /\ Tail(updater[u].tasks) \in Seq(Task)
  BY Types, HeadFacts
<1>3. /\ q \in Updater /\ q.alive = updater[u].alive
      /\ q.uncommitted = updater[u].uncommitted /\ q.committed = updater[u].committed
      /\ q.active = updater[u].active /\ q.tasks = Tail(updater[u].tasks) /\ q.step = "purge"
      /\ q.task = Head(updater[u].tasks) /\ q.entries = E /\ q.todo = T /\ q.gc = updater[u].gc
      /\ q.deleted = updater[u].deleted
  BY <1>1 DEF Taken, Updater, Steps
<1> HIDE DEF q
<1>4. Update(u, q)
  BY DEF q
<1>5. QED
  BY <1>3, <1>4, Effects DEF Effect

LEMMA TakenEndMerge ==
  ASSUME Shape, NEW u \in Writers, NEW E \in SUBSET Metas, NEW T \in SUBSET Metas, NEW K \in Task, updater[u].tasks # <<>>,
         Update(u, [Taken(u) EXCEPT !.step = "purge", !.task = K, !.entries = E, !.todo = T])
  PROVE  Effect(u, updater[u].uncommitted, updater[u].committed, updater[u].active, Tail(updater[u].tasks), "purge",
                K, E, T, updater[u].gc, updater[u].deleted)
<1> DEFINE q == [Taken(u) EXCEPT !.step = "purge", !.task = K, !.entries = E, !.todo = T]
<1>1. updater[u] \in Updater /\ Head(updater[u].tasks) \in Task /\ Tail(updater[u].tasks) \in Seq(Task)
  BY Types, HeadFacts
<1>3. /\ q \in Updater /\ q.alive = updater[u].alive
      /\ q.uncommitted = updater[u].uncommitted /\ q.committed = updater[u].committed
      /\ q.active = updater[u].active /\ q.tasks = Tail(updater[u].tasks) /\ q.step = "purge" /\ q.task = K
      /\ q.entries = E /\ q.todo = T /\ q.gc = updater[u].gc /\ q.deleted = updater[u].deleted
  BY <1>1 DEF Taken, Updater, Steps
<1> HIDE DEF q
<1>4. Update(u, q)
  BY DEF q
<1>5. QED
  BY <1>3, <1>4, Effects DEF Effect

LEMMA TakenGc ==
  ASSUME Shape, NEW u \in Writers, updater[u].tasks # <<>>,
         Update(u, [Taken(u) EXCEPT !.step = "gc"])
  PROVE  Effect(u, updater[u].uncommitted, updater[u].committed, updater[u].active, Tail(updater[u].tasks), "gc",
                Head(updater[u].tasks), updater[u].entries, updater[u].todo, updater[u].gc, updater[u].deleted)
<1> DEFINE q == [Taken(u) EXCEPT !.step = "gc"]
<1>1. updater[u] \in Updater /\ Head(updater[u].tasks) \in Task /\ Tail(updater[u].tasks) \in Seq(Task)
  BY Types, HeadFacts
<1>3. /\ q \in Updater /\ q.alive = updater[u].alive
      /\ q.uncommitted = updater[u].uncommitted /\ q.committed = updater[u].committed
      /\ q.active = updater[u].active /\ q.tasks = Tail(updater[u].tasks) /\ q.step = "gc"
      /\ q.task = Head(updater[u].tasks) /\ q.entries = updater[u].entries /\ q.todo = updater[u].todo
      /\ q.gc = updater[u].gc /\ q.deleted = updater[u].deleted
  BY <1>1 DEF Taken, Updater, Steps
<1> HIDE DEF q
<1>4. Update(u, q)
  BY DEF q
<1>5. QED
  BY <1>3, <1>4, Effects DEF Effect

LEMMA Advanced ==
  ASSUME Shape, NEW u \in Writers, NEW m \in Metas, NEW n \in Metas,
         Update(u, [updater[u] EXCEPT !.todo = @ \ {m}, !.entries = (@ \ {m}) \cup {n}])
  PROVE  Effect(u, updater[u].uncommitted, updater[u].committed, updater[u].active, updater[u].tasks, updater[u].step,
                updater[u].task, (updater[u].entries \ {m}) \cup {n}, updater[u].todo \ {m}, updater[u].gc, updater[u].deleted)
<1> DEFINE q == [updater[u] EXCEPT !.todo = @ \ {m}, !.entries = (@ \ {m}) \cup {n}]
<1>1. updater[u] \in Updater
  BY Types
<1>3. /\ q \in Updater /\ q.alive = updater[u].alive
      /\ q.uncommitted = updater[u].uncommitted /\ q.committed = updater[u].committed
      /\ q.active = updater[u].active /\ q.tasks = updater[u].tasks /\ q.step = updater[u].step
      /\ q.task = updater[u].task /\ q.entries = (updater[u].entries \ {m}) \cup {n}
      /\ q.todo = updater[u].todo \ {m} /\ q.gc = updater[u].gc /\ q.deleted = updater[u].deleted
  BY <1>1 DEF Updater, Steps
<1> HIDE DEF q
<1>4. Update(u, q)
  BY DEF q
<1>5. QED
  BY <1>3, <1>4, Effects DEF Effect

LEMMA Idled ==
  ASSUME Shape, NEW u \in Writers,
         Update(u, Idle(updater[u]))
  PROVE  Effect(u, updater[u].uncommitted, updater[u].committed, updater[u].active, updater[u].tasks, "idle",
                NoTask, {}, {}, updater[u].gc, updater[u].deleted)
<1> DEFINE q == Idle(updater[u])
<1>1. updater[u] \in Updater
  BY Types
<1>2. NoTask \in Task
  BY DEF NoTask, Task, Kinds
<1>3. /\ q \in Updater /\ q.alive = updater[u].alive
      /\ q.uncommitted = updater[u].uncommitted /\ q.committed = updater[u].committed
      /\ q.active = updater[u].active /\ q.tasks = updater[u].tasks /\ q.step = "idle" /\ q.task = NoTask
      /\ q.entries = {} /\ q.todo = {} /\ q.gc = updater[u].gc /\ q.deleted = updater[u].deleted
  BY <1>1, <1>2 DEF Idle, Updater, Steps
<1> HIDE DEF q
<1>4. Update(u, q)
  BY DEF q
<1>5. QED
  BY <1>3, <1>4, Effects DEF Effect

LEMMA Committed ==
  ASSUME Shape, NEW u \in Writers,
         Update(u, [updater[u] EXCEPT !.committed = updater[u].entries, !.uncommitted = {}, !.entries = {}, !.step = "save"])
  PROVE  Effect(u, {}, updater[u].entries, updater[u].active, updater[u].tasks, "save",
                updater[u].task, {}, updater[u].todo, updater[u].gc, updater[u].deleted)
<1> DEFINE q == [updater[u] EXCEPT !.committed = updater[u].entries, !.uncommitted = {}, !.entries = {}, !.step = "save"]
<1>1. updater[u] \in Updater
  BY Types
<1>3. /\ q \in Updater /\ q.alive = updater[u].alive
      /\ q.uncommitted = {} /\ q.committed = updater[u].entries /\ q.active = updater[u].active
      /\ q.tasks = updater[u].tasks /\ q.step = "save" /\ q.task = updater[u].task /\ q.entries = {}
      /\ q.todo = updater[u].todo /\ q.gc = updater[u].gc /\ q.deleted = updater[u].deleted
  BY <1>1 DEF Updater, Steps
<1> HIDE DEF q
<1>4. Update(u, q)
  BY DEF q
<1>5. QED
  BY <1>3, <1>4, Effects DEF Effect

LEMMA MergedUncommitted ==
  ASSUME Shape, NEW u \in Writers, NEW S \in SUBSET Metas,
         Update(u, [updater[u] EXCEPT !.uncommitted = S, !.entries = {}, !.step = "merged"])
  PROVE  Effect(u, S, updater[u].committed, updater[u].active, updater[u].tasks, "merged",
                updater[u].task, {}, updater[u].todo, updater[u].gc, updater[u].deleted)
<1> DEFINE q == [updater[u] EXCEPT !.uncommitted = S, !.entries = {}, !.step = "merged"]
<1>1. updater[u] \in Updater
  BY Types
<1>3. /\ q \in Updater /\ q.alive = updater[u].alive
      /\ q.uncommitted = S /\ q.committed = updater[u].committed /\ q.active = updater[u].active
      /\ q.tasks = updater[u].tasks /\ q.step = "merged" /\ q.task = updater[u].task /\ q.entries = {}
      /\ q.todo = updater[u].todo /\ q.gc = updater[u].gc /\ q.deleted = updater[u].deleted
  BY <1>1 DEF Updater, Steps
<1> HIDE DEF q
<1>4. Update(u, q)
  BY DEF q
<1>5. QED
  BY <1>3, <1>4, Effects DEF Effect

LEMMA MergedCommitted ==
  ASSUME Shape, NEW u \in Writers, NEW S \in SUBSET Metas,
         Update(u, [updater[u] EXCEPT !.committed = S, !.entries = {}, !.step = "save"])
  PROVE  Effect(u, updater[u].uncommitted, S, updater[u].active, updater[u].tasks, "save",
                updater[u].task, {}, updater[u].todo, updater[u].gc, updater[u].deleted)
<1> DEFINE q == [updater[u] EXCEPT !.committed = S, !.entries = {}, !.step = "save"]
<1>1. updater[u] \in Updater
  BY Types
<1>3. /\ q \in Updater /\ q.alive = updater[u].alive
      /\ q.uncommitted = updater[u].uncommitted /\ q.committed = S /\ q.active = updater[u].active
      /\ q.tasks = updater[u].tasks /\ q.step = "save" /\ q.task = updater[u].task /\ q.entries = {}
      /\ q.todo = updater[u].todo /\ q.gc = updater[u].gc /\ q.deleted = updater[u].deleted
  BY <1>1 DEF Updater, Steps
<1> HIDE DEF q
<1>4. Update(u, q)
  BY DEF q
<1>5. QED
  BY <1>3, <1>4, Effects DEF Effect

LEMMA Saved ==
  ASSUME Shape, NEW u \in Writers, NEW S \in SUBSET Metas, NEW M \in MetaFile,
         Update(u, [updater[u] EXCEPT !.committed = S, !.step = "sync", !.meta = M])
  PROVE  /\ Effect(u, updater[u].uncommitted, S, updater[u].active, updater[u].tasks, "sync",
                   updater[u].task, updater[u].entries, updater[u].todo, updater[u].gc, updater[u].deleted)
         /\ updater'[u].meta = M
<1> DEFINE q == [updater[u] EXCEPT !.committed = S, !.step = "sync", !.meta = M]
<1>1. updater[u] \in Updater
  BY Types
<1>3. /\ q \in Updater /\ q.alive = updater[u].alive
      /\ q.uncommitted = updater[u].uncommitted /\ q.committed = S /\ q.active = updater[u].active
      /\ q.tasks = updater[u].tasks /\ q.step = "sync" /\ q.task = updater[u].task
      /\ q.entries = updater[u].entries /\ q.todo = updater[u].todo /\ q.gc = updater[u].gc
      /\ q.deleted = updater[u].deleted /\ q.meta = M
  BY <1>1 DEF Updater, Steps
<1> HIDE DEF q
<1>4. Update(u, q)
  BY DEF q
<1>5. QED
  BY <1>3, <1>4, Effects DEF Effect

LEMMA Stepped ==
  ASSUME Shape, NEW u \in Writers, NEW step \in Steps,
         Update(u, [updater[u] EXCEPT !.step = step])
  PROVE  /\ Effect(u, updater[u].uncommitted, updater[u].committed, updater[u].active, updater[u].tasks, step,
                   updater[u].task, updater[u].entries, updater[u].todo, updater[u].gc, updater[u].deleted)
         /\ updater'[u].meta = updater[u].meta
<1> DEFINE q == [updater[u] EXCEPT !.step = step]
<1>1. updater[u] \in Updater
  BY Types
<1>3. /\ q \in Updater /\ q.alive = updater[u].alive
      /\ q.uncommitted = updater[u].uncommitted /\ q.committed = updater[u].committed
      /\ q.active = updater[u].active /\ q.tasks = updater[u].tasks /\ q.step = step
      /\ q.task = updater[u].task /\ q.entries = updater[u].entries /\ q.todo = updater[u].todo
      /\ q.gc = updater[u].gc /\ q.deleted = updater[u].deleted /\ q.meta = updater[u].meta
  BY <1>1 DEF Updater, Steps
<1> HIDE DEF q
<1>4. Update(u, q)
  BY DEF q
<1>5. QED
  BY <1>3, <1>4, Effects DEF Effect

LEMMA MetaWritten ==
  ASSUME Shape, NEW u \in Writers, NEW step \in Steps, updater[u].meta \in MetaFile,
         Update(u, [updater[u] EXCEPT !.active = updater[u].meta, !.meta = None, !.step = step])
  PROVE  Effect(u, updater[u].uncommitted, updater[u].committed, updater[u].meta, updater[u].tasks, step,
                updater[u].task, updater[u].entries, updater[u].todo, updater[u].gc, updater[u].deleted)
<1> DEFINE q == [updater[u] EXCEPT !.active = updater[u].meta, !.meta = None, !.step = step]
<1>1. updater[u] \in Updater
  BY Types
<1>3. /\ q \in Updater /\ q.alive = updater[u].alive
      /\ q.uncommitted = updater[u].uncommitted /\ q.committed = updater[u].committed
      /\ q.active = updater[u].meta /\ q.tasks = updater[u].tasks /\ q.step = step
      /\ q.task = updater[u].task /\ q.entries = updater[u].entries /\ q.todo = updater[u].todo
      /\ q.gc = updater[u].gc /\ q.deleted = updater[u].deleted
  BY <1>1 DEF Updater, Steps
<1> HIDE DEF q
<1>4. Update(u, q)
  BY DEF q
<1>5. QED
  BY <1>3, <1>4, Effects DEF Effect

LEMMA GarbageListed ==
  ASSUME Shape, NEW u \in Writers, NEW G \in SUBSET FileNames,
         Update(u, [updater[u] EXCEPT !.gc = G, !.step = "delete"])
  PROVE  Effect(u, updater[u].uncommitted, updater[u].committed, updater[u].active, updater[u].tasks, "delete",
                updater[u].task, updater[u].entries, updater[u].todo, G, updater[u].deleted)
<1> DEFINE q == [updater[u] EXCEPT !.gc = G, !.step = "delete"]
<1>1. updater[u] \in Updater
  BY Types
<1>3. /\ q \in Updater /\ q.alive = updater[u].alive
      /\ q.uncommitted = updater[u].uncommitted /\ q.committed = updater[u].committed
      /\ q.active = updater[u].active /\ q.tasks = updater[u].tasks /\ q.step = "delete"
      /\ q.task = updater[u].task /\ q.entries = updater[u].entries /\ q.todo = updater[u].todo /\ q.gc = G
      /\ q.deleted = updater[u].deleted
  BY <1>1 DEF Updater, Steps
<1> HIDE DEF q
<1>4. Update(u, q)
  BY DEF q
<1>5. QED
  BY <1>3, <1>4, Effects DEF Effect

LEMMA FileDeleted ==
  ASSUME Shape, NEW u \in Writers, NEW f \in FileNames,
         Update(u, [updater[u] EXCEPT !.gc = @ \ {f}, !.deleted = @ \cup {f}])
  PROVE  Effect(u, updater[u].uncommitted, updater[u].committed, updater[u].active, updater[u].tasks, updater[u].step,
                updater[u].task, updater[u].entries, updater[u].todo, updater[u].gc \ {f}, updater[u].deleted \cup {f})
<1> DEFINE q == [updater[u] EXCEPT !.gc = @ \ {f}, !.deleted = @ \cup {f}]
<1>1. updater[u] \in Updater
  BY Types
<1>3. /\ q \in Updater /\ q.alive = updater[u].alive
      /\ q.uncommitted = updater[u].uncommitted /\ q.committed = updater[u].committed
      /\ q.active = updater[u].active /\ q.tasks = updater[u].tasks /\ q.step = updater[u].step
      /\ q.task = updater[u].task /\ q.entries = updater[u].entries /\ q.todo = updater[u].todo
      /\ q.gc = updater[u].gc \ {f} /\ q.deleted = updater[u].deleted \cup {f}
  BY <1>1 DEF Updater, Steps
<1> HIDE DEF q
<1>4. Update(u, q)
  BY DEF q
<1>5. QED
  BY <1>3, <1>4, Effects DEF Effect

LEMMA Forgotten ==
  ASSUME Shape, NEW u \in Writers,
         Update(u, [Idle(updater[u]) EXCEPT !.deleted = {}])
  PROVE  Effect(u, updater[u].uncommitted, updater[u].committed, updater[u].active, updater[u].tasks, "idle",
                NoTask, {}, {}, updater[u].gc, {})
<1> DEFINE q == [Idle(updater[u]) EXCEPT !.deleted = {}]
<1>1. updater[u] \in Updater
  BY Types
<1>2. NoTask \in Task
  BY DEF NoTask, Task, Kinds
<1>3. /\ q \in Updater /\ q.alive = updater[u].alive
      /\ q.uncommitted = updater[u].uncommitted /\ q.committed = updater[u].committed
      /\ q.active = updater[u].active /\ q.tasks = updater[u].tasks /\ q.step = "idle" /\ q.task = NoTask
      /\ q.entries = {} /\ q.todo = {} /\ q.gc = updater[u].gc /\ q.deleted = {}
  BY <1>1, <1>2 DEF Idle, Updater, Steps
<1> HIDE DEF q
<1>4. Update(u, q)
  BY DEF q
<1>5. QED
  BY <1>3, <1>4, Effects DEF Effect

-----------------------------------------------------------------------------
(* consider_merge_options: the merge that starts takes a stamp of its own.   *)
LEMMA NoMergeFacts == NoMerge.merged = None /\ NoMerge.sources = {} /\ NoMerge.todo = {} /\ NoMerge \in Merge /\ ~NoMerge.empty
  BY DEF NoMerge, Merge

LEMMA MergeStarted ==
  ASSUME Shape, NEW u \in Writers, NEW st \in Nat, NEW next \in Nat, stamper' = next, st =< next,
         NEW S \in SUBSET Metas, NEW T \in SUBSET S, NEW target \in Nat,
         start_merge(u, S, T, target), merge[u] = NoMerge, S # {},
         MergeOf(u, NoMerge, st)',
         Named(S, Stays)', OneEach(S), target =< MaxOpstamp,
         \A m \in T : ~Marked(m.seg, target)', worker'[u] # None => \A m \in T : m.seg # worker'[u].seg,
         T # {} => target = st /\ next = st + 1,
         \A m \in updater'[u].uncommitted : m.del \in Nat, updater'[u].active.opstamp \in Nat,
         updater'[u].task.opstamp \in Nat, \A i \in Queued(u)' : updater'[u].tasks[i].opstamp \in Nat
  PROVE  /\ merge' \in [Writers -> Merge] /\ \A v \in Writers : v # u => merge'[v] = merge[v]
         /\ MergeOf(u, merge[u], stamper)'
<1>a. PICK empty \in BOOLEAN :
        /\ empty => T = {}
        /\ merge' = [merge EXCEPT ![u] = [sources |-> S, todo |-> T, target |-> target, merged |-> None, empty |-> empty]]
  BY DEF start_merge
<1> DEFINE M == [sources |-> S, todo |-> T, target |-> target, merged |-> None, empty |-> empty]
<1>1. /\ M \in Merge /\ M.sources = S /\ M.todo = T /\ M.target = target /\ M.merged = None
      /\ M.empty => T = {}
  BY <1>a DEF Merge
<1>2. merge' = [merge EXCEPT ![u] = M]
  BY <1>a
<1> HIDE DEF M
<1>3. merge' \in [Writers -> Merge] /\ (\A v \in Writers : v # u => merge'[v] = merge[v]) /\ merge'[u] = M
  BY <1>1, <1>2 DEF Shape
<1>4. M # NoMerge
  BY <1>1, NoMergeFacts
<1>b. writing'[<<u, "merge">>] = None /\ ~EndingMerge(u)'
  BY DEF MergeOf, Sources, Result, Over
<1>5. Sources(u, M)'
  BY <1>1, <1>4, <1>b DEF Sources, Named, OneEach
<1>6. Result(u, M)'
  BY <1>1, <1>b DEF Result, Over
<1>7. Stamps(u, NoMerge, st)' /\ \A i \in Queued(u)' : EndItem(u, NoMerge, i)' /\ StampItem(u, NoMerge, st, i)'
  BY DEF MergeOf
<1>8. Stamps(u, M, next)'
  BY <1>1, <1>7 DEF Stamps
<1>9. \A i \in Queued(u)' : EndItem(u, M, i)' /\ StampItem(u, M, next, i)'
  BY <1>1, <1>7, NoMergeFacts DEF EndItem, Over, StampItem, IsTask
<1>10. QED
  BY <1>3, <1>5, <1>6, <1>8, <1>9 DEF MergeOf

\* Without a first delete a merge of committed segments writes no del file.
NoFirst == undeleted = {}

LEMMA MergeConsidered ==
  ASSUME Shape, NoFirst, NEW u \in Writers, consider_merge_options(u), updater' \in [Writers -> Updater],
         NEW M \in Merge, NEW st \in Nat, M = merge[u], st = stamper, MergeOf(u, M, st)',
         updater'[u].step # "purge",
         Named(updater[u].uncommitted, Stays)', Named(updater[u].committed, Stays)',
         OneEach(updater[u].uncommitted)', OneEach(updater[u].committed)',
         \A m \in updater'[u].uncommitted : m.del =< updater'[u].active.opstamp,
         updater'[u].active.opstamp =< MaxOpstamp, worker'[u] # None => Pending(u, worker[u])'
  PROVE  /\ merge' \in [Writers -> Merge] /\ \A v \in Writers : v # u => merge'[v] = merge[v]
         /\ stamper' \in 0 .. MaxOpstamp + 1
         /\ MergeOf(u, merge[u], stamper)'
<1> DEFINE r == updater'[u]
<1>1. stamper \in 0 .. MaxOpstamp + 1 /\ merge \in [Writers -> Merge]
  BY DEF Shape
<1>2. CASE UNCHANGED <<merge, stamper>>
  <2>1. merge'[u] = M /\ stamper' = st
    BY <1>2
  <2>2. QED
    BY <1>1, <1>2, <2>1 DEF MergeOf
<1>3. r \in Updater
  OBVIOUS
<1>4. /\ r.uncommitted \subseteq Metas /\ r.committed \subseteq Metas /\ r.active \in MetaFile /\ r.task \in Task
      /\ r.tasks \in Seq(Task)
  BY <1>3 DEF Updater
<1>5. /\ r.active.opstamp \in Nat /\ r.task.opstamp \in Nat
      /\ \A m \in r.uncommitted : m.del \in Nat /\ m.seg \in Nat
      /\ \A i \in Queued(u)' : updater'[u].tasks[i].opstamp \in Nat
  <2>1. \A i \in Queued(u)' : updater'[u].tasks[i] \in Task
    BY <1>4 DEF Queued
  <2>2. QED
    BY <1>4, <2>1 DEF Metas, MetaFile, Task
<1>6. CASE /\ merge[u] = NoMerge /\ stamper <= MaxOpstamp /\ stamper' = stamper + 1
           /\ \E sources \in Mergeable(updater'[u].uncommitted) :
                \E todo \in SUBSET Targeted(sources, stamper) : start_merge(u, sources, todo, stamper)
  <2>a. PICK S \in Mergeable(updater'[u].uncommitted) :
          \E todo \in SUBSET Targeted(S, stamper) : start_merge(u, S, todo, stamper)
    BY <1>6
  <2>1. PICK T \in SUBSET Targeted(S, stamper) : start_merge(u, S, T, st)
    BY <2>a
  <2>2. S \subseteq r.uncommitted /\ S # {} /\ S \in SUBSET Metas /\ T \in SUBSET S
    BY <1>4, <2>1 DEF Mergeable, Targeted
  <2>3. Named(S, Stays)' /\ OneEach(S)
    BY <2>2 DEF Named, OneEach
  <2>4. ASSUME NEW m \in T PROVE ~Marked(m.seg, st)'
    <3>1. m \in r.uncommitted /\ m.del # st /\ m.del \in Nat /\ m.del =< r.active.opstamp
      BY <1>5, <2>1, <2>2, <2>4 DEF Targeted
    <3>2. /\ r.active.opstamp =< st
          /\ Marked(m.seg, st)' => (st < st \/ st = 0 \/ st = m.del)
      BY <3>1 DEF MergeOf, Stamps
    <3>3. QED
      BY <1>5, <3>1, <3>2
  <2>5. PICK next \in Nat : next = st + 1
    OBVIOUS
  <2>6. st =< next /\ stamper' = next /\ st =< MaxOpstamp /\ next \in 0 .. MaxOpstamp + 1
    BY <1>6, <2>5
  <2> HIDE DEF r
  <2>7. worker'[u] # None => \A m \in T : m.seg # worker'[u].seg
    BY <2>2 DEF Pending, r
  <2>8. QED
    BY <1>5, <1>6, <2>1, <2>2, <2>3, <2>4, <2>5, <2>6, <2>7, MergeStarted DEF r
<1>7. CASE /\ merge[u] = NoMerge /\ UNCHANGED stamper
           /\ \E sources \in Mergeable(updater'[u].committed) :
                \E todo \in SUBSET Undeleted(sources, updater'[u].active.opstamp) :
                  start_merge(u, sources, todo, updater'[u].active.opstamp)
  <2>b. PICK S \in Mergeable(updater'[u].committed) :
          \E todo \in SUBSET Undeleted(S, updater'[u].active.opstamp) :
            start_merge(u, S, todo, updater'[u].active.opstamp)
    BY <1>7
  <2>1. start_merge(u, S, {}, updater'[u].active.opstamp)
    BY <1>5, <2>b DEF Undeleted, NoFirst
  <2>2. S \subseteq r.committed /\ S # {} /\ S \in SUBSET Metas
    BY <1>4, <2>1 DEF Mergeable
  <2>3. Named(S, Stays)' /\ OneEach(S)
    BY <2>2 DEF Named, OneEach
  <2>4. PICK target \in Nat : target = updater'[u].active.opstamp
    BY <1>5
  <2>a. PICK T \in SUBSET S, next \in Nat : T = {} /\ next = st
    OBVIOUS
  <2>5. start_merge(u, S, T, target) /\ target =< MaxOpstamp
    BY <2>1, <2>4, <2>a
  <2>6. st =< next /\ stamper' = next /\ next \in 0 .. MaxOpstamp + 1
    BY <1>1, <1>7, <2>a
  <2> HIDE DEF r
  <2>7. QED
    BY <1>5, <1>7, <2>2, <2>3, <2>a, <2>5, <2>6, MergeStarted DEF r
<1>8. QED
  BY <1>2, <1>6, <1>7 DEF consider_merge_options

(* The updater takes the first task of its queue.                            *)
LEMMA Dequeued ==
  ASSUME IInv, NEW u \in Writers, u = current, updater[u].tasks # <<>>,
         updater'[u].tasks = Tail(updater[u].tasks)
  PROVE  /\ 1 \in Queued(u) /\ Head(updater[u].tasks) = updater[u].tasks[1]
         /\ \A i \in Queued(u)' :
              /\ i + 1 \in Queued(u) /\ i \in Nat /\ 1 < i + 1
              /\ updater'[u].tasks[i] = updater[u].tasks[i + 1]
         /\ Head(updater[u].tasks) \in Task
<1>1. updater[u].tasks \in Seq(Task)
  BY Types DEF IInv
<1>2. QED
  BY <1>1, HeadFacts DEF Queued

\* The queue without its first task is in order as before.
LEMMA DequeuedPairs ==
  ASSUME IInv, NEW u \in Writers, u = current, updater[u].tasks # <<>>,
         updater'[u].tasks = Tail(updater[u].tasks)
  PROVE  \A i, j \in Queued(u)' : i < j => PairOf(u, i, j)'
<1> SUFFICES ASSUME NEW i \in Queued(u)', NEW j \in Queued(u)', i < j
             PROVE  PairOf(u, i, j)'
  OBVIOUS
<1>1. /\ i + 1 \in Queued(u) /\ updater'[u].tasks[i] = updater[u].tasks[i + 1] /\ i \in Nat
      /\ j + 1 \in Queued(u) /\ updater'[u].tasks[j] = updater[u].tasks[j + 1] /\ j \in Nat
  BY Dequeued
<1>2. i + 1 < j + 1
  BY <1>1
<1>3. PairOf(u, i + 1, j + 1)
  BY <1>1, <1>2 DEF IInv, Queue, QueueOf
<1>4. QED
  BY <1>1, <1>3 DEF PairOf, IsTask

\* The same for what the parts of the invariant say of one task.
LEMMA DequeuedItem ==
  ASSUME IInv, NEW u \in Writers, u = current, updater[u].tasks # <<>>,
         updater'[u].tasks = Tail(updater[u].tasks), NEW i \in Queued(u)',
         NEW M, NEW st, M = merge[u], st = stamper
  PROVE  \E j \in Queued(u) :
           /\ updater'[u].tasks[i] = updater[u].tasks[j] /\ ItemOf(u, j) /\ PairOf(u, 1, j)
           /\ EndItem(u, M, j) /\ StampItem(u, M, st, j)
<1>1. i + 1 \in Queued(u) /\ updater'[u].tasks[i] = updater[u].tasks[i + 1] /\ 1 \in Queued(u) /\ 1 < i + 1
  BY Dequeued
<1>2. ItemOf(u, i + 1) /\ PairOf(u, 1, i + 1) /\ EndItem(u, M, i + 1) /\ StampItem(u, M, st, i + 1)
  BY <1>1 DEF IInv, Queue, QueueOf, Merging, MergeOf
<1>3. QED
  BY <1>1, <1>2

-----------------------------------------------------------------------------
(* The invariant after a step of the open writer u: what is not u's is as    *)
(* before, since no file that stays goes away.                               *)
OthersSame(u) ==
  \A v \in Writers : v # u =>
    /\ updater'[v] = updater[v] /\ worker'[v] = worker[v] /\ merge'[v] = merge[v]
    /\ writing'[<<v, "worker">>] = writing[<<v, "worker">>]
    /\ writing'[<<v, "updater">>] = writing[<<v, "updater">>]
    /\ writing'[<<v, "merge">>] = writing[<<v, "merge">>]

LEMMA Assembled ==
  ASSUME IInv, NEW u \in Writers, u = current, current' = current, OthersSame(u), Stays \subseteq Stays',
         Shape', Listed', Published', WritingOK', Doom',
         StillOf(u)', KeepsOf(u)', Apart(u)', SegsOf(u)', QueueOf(u)', MergeOf(u, merge[u], stamper)'
  PROVE  IInv'
<1>1. ASSUME NEW v \in Writers, v # u PROVE StillOf(v)' /\ KeepsOf(v)' /\ Apart(v)'
  <2>1. StillOf(v) /\ KeepsOf(v) /\ Apart(v)
    BY DEF IInv, Still, Keeps, Segs
  <2>2. /\ updater'[v] = updater[v] /\ worker'[v] = worker[v] /\ merge'[v] = merge[v]
        /\ writing'[<<v, "worker">>] = writing[<<v, "worker">>]
        /\ writing'[<<v, "updater">>] = writing[<<v, "updater">>]
        /\ writing'[<<v, "merge">>] = writing[<<v, "merge">>]
    BY <1>1 DEF OthersSame
  <2>3. StillOf(v)' /\ Apart(v)'
    BY <1>1, <2>1, <2>2 DEF StillOf, Apart
  <2>4. updater[v].step = "idle"
    BY <1>1, <2>1 DEF StillOf
  <2>5. KeepsOf(v)'
    BY <1>1, <2>1, <2>2, <2>4 DEF KeepsOf, Named, WrittenBy
  <2>6. QED
    BY <2>3, <2>5
<1>2. QED
  BY <1>1 DEF IInv, Still, Keeps, Segs, Queue, Merging

LEMMA AddSegmentStep ==
  ASSUME IInv, NoFirst, NEW u \in Writers, AddSegment(u)
  PROVE  IInv'
<1>0. Shape /\ Still /\ Published /\ Keeps /\ Segs /\ Queue /\ Merging
  BY DEF IInv
<1>1. /\ updater[u].step = "idle" /\ updater[u].tasks # <<>> /\ Head(updater[u].tasks).kind = "add"
      /\ worker' = [worker EXCEPT ![u] = None] /\ consider_merge_options(u)
      /\ UNCHANGED <<disk, unsynced, managed_paths, current, opened, writing, reader, next_seg>>
  BY DEF AddSegment, TaskIs, storage
<1>2. u = current
  BY <1>1, Works
<1>3. /\ StillOf(u) /\ KeepsOf(u) /\ Apart(u) /\ SegsOf(u) /\ QueueOf(u) /\ MergeOf(u, merge[u], stamper)
      /\ TaskOf(u)
  BY <1>0, <1>2 DEF Still, Keeps, Segs, Queue, QueueOf, Merging
<1>4. PICK w \in Metas : w = worker[u] /\ w = Head(updater[u].tasks).entry /\ writing[<<u, "worker">>] = None
  <2>1. 1 \in Queued(u) /\ Head(updater[u].tasks) = updater[u].tasks[1]
    BY <1>0, <1>1, Types, HeadFacts DEF Queued
  <2>2. ItemOf(u, 1)
    BY <1>3, <2>1 DEF QueueOf
  <2>3. QED
    BY <1>0, <1>1, <2>1, <2>2, Types DEF ItemOf, IsTask
<1>5. w # None /\ worker'[u] = None /\ worker' \in [Writers -> Metas \cup {None}]
      /\ \A v \in Writers : v # u => worker'[v] = worker[v]
  BY <1>0, <1>1 DEF Shape, Metas
<1>6. Effect(u, updater[u].uncommitted \cup {w}, updater[u].committed, updater[u].active, Tail(updater[u].tasks),
             "idle", NoTask, {}, {}, updater[u].gc, updater[u].deleted)
  BY <1>0, <1>4, AddSegmentEffect DEF IInv
<1>7. Untouched
  BY <1>1, <1>6 DEF Untouched, Effect
<1>8. Listed' /\ Published' /\ WritingOK' /\ Doom'
  BY <1>1, <1>6, <1>7, UntouchedRest DEF Effect
<1>9. /\ Stays' = Stays /\ (\A t : WrittenBy(t)' = WrittenBy(t)) /\ (\A s, d : Marked(s, d)' = Marked(s, d))
      /\ \A metas : Newer(metas)' = Newer(metas)
  BY <1>7, UntouchedFiles
<1>10. Named({w}, Stays)
  BY <1>3, <1>4, <1>5 DEF KeepsOf, WrittenBy, Named
<1>11. Pending(u, w) /\ \A d \in Nat : Marked(w.seg, d) => d = 0
  BY <1>3, <1>4, <1>5 DEF SegsOf
<1>12. KeepsOf(u)'
  BY <1>2, <1>3, <1>5, <1>6, <1>9, <1>10 DEF KeepsOf, Effect, Named
<1>13. Apart(u)' /\ OneEach(updater[u].uncommitted)' /\ OneEach(updater[u].committed)'
  BY <1>3, <1>6, <1>11 DEF Apart, Pending, SegsOf, OneEach, Effect
<1>14. Newer(updater[u].uncommitted)' /\ Newer(updater[u].committed)' /\ Newer(updater[u].entries)'
  BY <1>1, <1>3, <1>6, <1>11 DEF Newer, Pending, SegsOf, Effect
<1>15. /\ updater[u].active.opstamp \in Nat /\ updater[u].active.opstamp =< MaxOpstamp
       /\ w.del =< updater[u].active.opstamp
  BY <1>0, <1>2, <1>11, Types DEF Published, Pending, IInv, Listed, Entries
<1>16. SegsOf(u)'
  BY <1>1, <1>3, <1>5, <1>6, <1>9, <1>13, <1>14, <1>15 DEF SegsOf, Effect, OneEach, Saving
<1>17. TaskOf(u)'
  BY <1>1, <1>3, <1>6 DEF TaskOf, EndingMerge, Effect, Purging, Saving
<1>18. PICK M \in Merge, st \in Nat : M = merge[u] /\ st = stamper
  BY <1>0, Types
<1>19. Sources(u, M)' /\ Result(u, M)'
  <2>1. Sources(u, M) /\ Result(u, M) /\ updater[u].entries = {}
    BY <1>1, <1>3, <1>18 DEF MergeOf, TaskOf
  <2>2. Sources(u, M)'
    BY <1>1, <1>9, <2>1 DEF Sources, Named
  <2>3. M.merged # None => Pending(u, M.merged)'
    BY <1>1, <1>4, <1>5, <1>6, <2>1 DEF Result, Over, Pending, Effect
  <2>4. QED
    BY <1>1, <1>5, <1>6, <1>9, <2>1, <2>2, <2>3 DEF Result, Over, Effect, EndingMerge, Named
<1>20. Stamps(u, M, st)'
  <2>1. Stamps(u, M, st)
    BY <1>3, <1>18 DEF MergeOf
  <2>2. QED
    BY <1>6, <1>9, <1>11, <2>1 DEF Stamps, Effect, Purging, Saving
<1>21. updater'[u].tasks = Tail(updater[u].tasks) /\ updater[u].tasks[1].kind = "add"
  BY <1>1, <1>2, <1>6, Dequeued DEF Effect
<1>22. ASSUME NEW i \in Queued(u)'
       PROVE  ItemOf(u, i)' /\ EndItem(u, M, i)' /\ StampItem(u, M, st, i)'
  <2>1. PICK j \in Queued(u) : /\ updater'[u].tasks[i] = updater[u].tasks[j] /\ ItemOf(u, j) /\ PairOf(u, 1, j)
                               /\ EndItem(u, M, j) /\ StampItem(u, M, st, j)
    BY <1>1, <1>2, <1>18, <1>21, DequeuedItem
  <2>2. ItemOf(u, i)'
    BY <1>6, <1>21, <2>1 DEF ItemOf, PairOf, IsTask, Effect, Purging, Saving
  <2>3. EndItem(u, M, i)' /\ StampItem(u, M, st, i)'
    BY <1>1, <1>6, <2>1 DEF EndItem, Over, StampItem, IsTask, Effect, EndingMerge
  <2>4. QED
    BY <2>2, <2>3
<1>23. QueueOf(u)' /\ MergeOf(u, M, st)'
  BY <1>1, <1>2, <1>17, <1>19, <1>20, <1>21, <1>22, DequeuedPairs DEF QueueOf, MergeOf
<1>24. /\ merge' \in [Writers -> Merge] /\ \A v \in Writers : v # u => merge'[v] = merge[v]
       /\ stamper' \in 0 .. MaxOpstamp + 1
       /\ MergeOf(u, merge[u], stamper)'
  <2>1. /\ Named(updater[u].uncommitted, Stays)' /\ Named(updater[u].committed, Stays)'
        /\ \A m \in updater'[u].uncommitted : m.del =< updater'[u].active.opstamp
        /\ worker'[u] # None => Pending(u, worker[u])'
    BY <1>1, <1>2, <1>12, <1>16 DEF KeepsOf, SegsOf
  <2>2. updater' \in [Writers -> Updater] /\ updater'[u].step # "purge" /\ updater'[u].active.opstamp =< MaxOpstamp
    BY <1>6, <1>15 DEF Effect
  <2>3. QED
    BY <1>0, <1>1, <1>13, <1>18, <1>23, <2>1, <2>2, MergeConsidered
<1>25. Shape'
  BY <1>0, <1>1, <1>5, <1>6, <1>24 DEF Shape, Effect
<1>26. StillOf(u)' /\ OthersSame(u)
  BY <1>1, <1>2, <1>3, <1>4, <1>5, <1>6, <1>24 DEF StillOf, Effect, OthersSame
<1>27. QED
  BY <1>1, <1>2, <1>8, <1>9, <1>12, <1>13, <1>16, <1>23, <1>24, <1>25, <1>26, Assembled

\* What is known of the updater that takes a task.
LEMMA Takes ==
  ASSUME IInv, NEW u \in Writers, NEW kind, TaskIs(u, kind)
  PROVE  /\ u = current /\ updater[u].step = "idle" /\ updater[u].tasks # <<>>
         /\ Head(updater[u].tasks) = updater[u].tasks[1] /\ Head(updater[u].tasks).kind = kind
         /\ Head(updater[u].tasks) \in Task /\ 1 \in Queued(u)
         /\ StillOf(u) /\ KeepsOf(u) /\ Apart(u) /\ SegsOf(u) /\ QueueOf(u) /\ TaskOf(u) /\ ItemOf(u, 1)
         /\ MergeOf(u, merge[u], stamper) /\ EndItem(u, merge[u], 1) /\ StampItem(u, merge[u], stamper, 1)
         /\ updater[u].entries = {} /\ updater[u].todo = {} /\ writing[<<u, "updater">>] = None
         /\ updater[u].active.opstamp \in Nat /\ updater[u].active.opstamp =< MaxOpstamp
<1>1. updater[u].step = "idle" /\ updater[u].tasks # <<>> /\ Head(updater[u].tasks).kind = kind
  BY DEF TaskIs
<1>2. u = current
  BY <1>1, Works
<1>3. 1 \in Queued(u) /\ Head(updater[u].tasks) = updater[u].tasks[1] /\ Head(updater[u].tasks) \in Task
  BY <1>1, Types, HeadFacts DEF Queued, IInv
<1>4. /\ StillOf(u) /\ KeepsOf(u) /\ Apart(u) /\ SegsOf(u) /\ QueueOf(u) /\ MergeOf(u, merge[u], stamper)
  BY <1>2 DEF IInv, Still, Keeps, Segs, Queue, Merging
<1>5. TaskOf(u) /\ ItemOf(u, 1) /\ EndItem(u, merge[u], 1) /\ StampItem(u, merge[u], stamper, 1)
  BY <1>3, <1>4 DEF QueueOf, MergeOf
<1>6. updater[u].entries = {} /\ updater[u].todo = {} /\ writing[<<u, "updater">>] = None
  BY <1>1, <1>4, <1>5 DEF TaskOf, SegsOf
<1>7. updater[u].active.opstamp \in Nat /\ updater[u].active.opstamp =< MaxOpstamp
  BY <1>2, Types DEF IInv, Published, Listed, Entries
<1>8. QED
  BY <1>1, <1>2, <1>3, <1>4, <1>5, <1>6, <1>7

(* A task that starts without a change of the registers: what is left to     *)
(* show is about the new task and the entries it works on.                   *)
LEMMA TakenStep ==
  ASSUME IInv, NEW u \in Writers, NEW kind, TaskIs(u, kind),
         UNCHANGED <<disk, unsynced, managed_paths, current, opened, stamper, worker, merge, writing, reader,
                     next_seg>>,
         NEW step \in {"purge", "gc"}, NEW task \in Task, NEW E \in SUBSET Metas, NEW T \in SUBSET Metas,
         Effect(u, updater[u].uncommitted, updater[u].committed, updater[u].active, Tail(updater[u].tasks),
                step, task, E, T, updater[u].gc, updater[u].deleted),
         task.kind = kind,
         step = "purge" => /\ kind \in {"commit", "end_merge"}
                           /\ updater[u].active.opstamp =< task.opstamp
                           /\ kind = "commit" => task = Head(updater[u].tasks)
                           /\ kind = "end_merge" => task.opstamp = updater[u].active.opstamp
                           /\ kind = "end_merge" => \A m \in E : m = merge[u].merged /\ m # None,
         step = "gc" => kind = "gc" /\ E = {},
         Named(E, Stays), OneEach(E), Newer(E), T \subseteq E, \A m \in T : m.del # task.opstamp,
         \A m \in E : m.del =< task.opstamp,
         worker[u] # None => \A m \in E : m.seg # worker[u].seg,
         merge[u].merged # None /\ kind # "end_merge" => \A m \in E : m.seg # merge[u].merged.seg
  PROVE  IInv'
<1>1. /\ u = current /\ updater[u].step = "idle" /\ updater[u].tasks # <<>>
      /\ Head(updater[u].tasks) = updater[u].tasks[1] /\ Head(updater[u].tasks).kind = kind
      /\ StillOf(u) /\ KeepsOf(u) /\ Apart(u) /\ SegsOf(u) /\ QueueOf(u) /\ TaskOf(u) /\ ItemOf(u, 1)
      /\ MergeOf(u, merge[u], stamper) /\ EndItem(u, merge[u], 1) /\ StampItem(u, merge[u], stamper, 1)
      /\ updater[u].entries = {} /\ writing[<<u, "updater">>] = None
      /\ updater[u].active.opstamp \in Nat /\ updater[u].active.opstamp =< MaxOpstamp
  BY Takes
<1>2. Untouched
  BY DEF Untouched, Effect
<1>3. Listed' /\ Published' /\ WritingOK' /\ Doom'
  BY <1>1, <1>2, UntouchedRest DEF Effect
<1>4. /\ Stays' = Stays /\ (\A t : WrittenBy(t)' = WrittenBy(t)) /\ (\A s, d : Marked(s, d)' = Marked(s, d))
  BY <1>2, UntouchedFiles
<1>5. Shape'
  BY DEF IInv, Shape, Effect
<1>6. StillOf(u)' /\ OthersSame(u)
  BY <1>1 DEF StillOf, OthersSame, Effect
<1>7. KeepsOf(u)'
  BY <1>1, <1>4 DEF KeepsOf, Effect, Named
<1>8. Apart(u)'
  BY <1>1 DEF Apart, Effect
<1>9. SegsOf(u)'
  <2>1. Newer(updater[u].uncommitted)' /\ Newer(updater[u].committed)' /\ Newer(updater[u].entries)'
    BY <1>1 DEF SegsOf, Effect, Newer
  <2>2. worker'[u] # None => Pending(u, worker[u])'
    BY <1>1 DEF SegsOf, Effect, Pending
  <2>3. QED
    BY <1>1, <1>4, <2>1, <2>2 DEF SegsOf, Effect, OneEach, Saving
<1>10. TaskOf(u)'
  BY <1>1 DEF TaskOf, EndingMerge, ItemOf, IsTask, Effect, Purging, Saving
<1>11. PICK M \in Merge, st \in Nat : M = merge[u] /\ st = stamper /\ M = merge'[u] /\ st = stamper'
  BY Types DEF IInv
<1>12. Sources(u, M)'
  BY <1>1, <1>4, <1>11 DEF MergeOf, Sources, Named
<1>13. Result(u, M)'
  <2>1. M.merged # None => Pending(u, M.merged)'
    BY <1>1, <1>11 DEF MergeOf, Result, Over, Pending, Effect
  <2>2. EndingMerge(u)' => Over(u, M)'
    BY <1>1, <1>11 DEF EndingMerge, EndItem, Over, IsTask, Effect
  <2>3. EndingMerge(u)' => kind = "end_merge"
    BY DEF EndingMerge, Effect
  <2>4. kind = "end_merge" => EndingMerge(u)' \/ E = {}
    BY DEF EndingMerge, Effect
  <2>5. EndingMerge(u)' => \A m \in T : m.del = 0
    BY <1>11, <2>1, <2>2, <2>3 DEF Pending, EndingMerge, Effect
  <2>6. QED
    BY <1>1, <1>4, <1>11, <2>1, <2>2, <2>3, <2>4, <2>5 DEF MergeOf, Result, Over, Effect, Named
<1>14. Stamps(u, M, st)'
  <2>1. Stamps(u, M, st) /\ StampItem(u, M, st, 1) /\ task.opstamp \in Nat
    BY <1>1, <1>11 DEF MergeOf, Task
  <2>2. step = "purge" /\ kind = "commit" => task.opstamp < st /\ (M.todo # {} => task.opstamp # M.target)
    BY <1>1, <2>1 DEF StampItem, IsTask
  <2>3. step = "purge" => task.opstamp =< st
    BY <1>1, <1>11, <2>1, <2>2 DEF Stamps
  <2>4. QED
    BY <1>4, <2>1, <2>2, <2>3 DEF Stamps, Effect, Purging, Saving
<1>15. ASSUME NEW i \in Queued(u)'
       PROVE  ItemOf(u, i)' /\ EndItem(u, M, i)' /\ StampItem(u, M, st, i)'
  <2>1. updater'[u].tasks = Tail(updater[u].tasks)
    BY DEF Effect
  <2>2. PICK j \in Queued(u) : /\ updater'[u].tasks[i] = updater[u].tasks[j] /\ ItemOf(u, j) /\ PairOf(u, 1, j)
                               /\ EndItem(u, M, j) /\ StampItem(u, M, st, j)
    BY <1>1, <1>11, <2>1, DequeuedItem
  <2>3. ItemOf(u, i)'
    BY <1>1, <2>2, ZenonT(30) DEF ItemOf, PairOf, IsTask, Effect, Purging, Saving
  <2>4. EndItem(u, M, i)'
    BY <1>1, <2>2 DEF EndItem, Over, PairOf, IsTask, Effect, EndingMerge
  <2>5. StampItem(u, M, st, i)'
    BY <2>2 DEF StampItem, IsTask
  <2>6. QED
    BY <2>3, <2>4, <2>5
<1>16. QueueOf(u)'
  BY <1>1, <1>10, <1>15, DequeuedPairs DEF QueueOf, Effect
<1>17. MergeOf(u, merge[u], stamper)'
  BY <1>11, <1>12, <1>13, <1>14, <1>15 DEF MergeOf
<1>18. QED
  BY <1>1, <1>3, <1>4, <1>5, <1>6, <1>7, <1>8, <1>9, <1>16, <1>17, Assembled

LEMMA StartCommitStep ==
  ASSUME IInv, NEW u \in Writers, StartCommit(u)
  PROVE  IInv'
<1> DEFINE E == updater[u].uncommitted \cup updater[u].committed
           task == Head(updater[u].tasks)
<1>1. TaskIs(u, "commit") /\ UNCHANGED <<disk, unsynced, managed_paths, current, opened, stamper, worker, merge,
                                         writing, reader, next_seg>>
  BY DEF StartCommit, storage, others
<1>2. PICK T \in SUBSET Targeted(E, task.opstamp) :
        Update(u, [Taken(u) EXCEPT !.step = "purge", !.entries = E, !.todo = T])
  BY DEF StartCommit
<1>3. /\ task = updater[u].tasks[1] /\ task.kind = "commit" /\ task \in Task /\ ItemOf(u, 1)
      /\ updater[u].step = "idle" /\ u = current /\ updater[u].tasks # <<>>
      /\ KeepsOf(u) /\ Apart(u) /\ SegsOf(u) /\ MergeOf(u, merge[u], stamper)
      /\ updater[u].active.opstamp \in Nat
  BY <1>1, Takes
<1>4. E \in SUBSET Metas /\ T \in SUBSET Metas /\ T \subseteq E /\ \A m \in T : m.del # task.opstamp
  BY <1>2, Types DEF IInv, Targeted
<1>5. Effect(u, updater[u].uncommitted, updater[u].committed, updater[u].active, Tail(updater[u].tasks),
             "purge", task, E, T, updater[u].gc, updater[u].deleted)
  BY <1>2, <1>3, <1>4, TakenCommit DEF IInv
<1>6. updater[u].active.opstamp =< task.opstamp /\ task.opstamp \in Nat
  BY <1>3 DEF ItemOf, IsTask, Task
<1>7. \A m \in E : m.del =< task.opstamp
  <2>1. \A m \in E : m.del =< updater[u].active.opstamp /\ m.del \in Nat
    BY <1>3, <1>4, Types DEF SegsOf, Saving, IInv
  <2>2. QED
    BY <1>3, <1>6, <2>1
<1>8. Named(E, Stays) /\ OneEach(E) /\ Newer(E)
  BY <1>3 DEF KeepsOf, SegsOf, Apart, Named, OneEach, Newer
<1>9. worker[u] # None => \A m \in E : m.seg # worker[u].seg
  BY <1>3 DEF SegsOf, Pending
<1>10. merge[u].merged # None => \A m \in E : m.seg # merge[u].merged.seg
  BY <1>3 DEF MergeOf, Result, Over, Pending
<1> HIDE DEF E, task
<1>11. PICK step \in {"purge", "gc"}, kind \in {"commit", "end_merge", "gc"} : kind = "commit" /\ step = "purge"
  OBVIOUS
<1>12. /\ TaskIs(u, kind) /\ task.kind = kind /\ (step = "gc" => kind = "gc" /\ E = {})
       /\ step = "purge" => /\ kind \in {"commit", "end_merge"}
                            /\ updater[u].active.opstamp =< task.opstamp
                            /\ kind = "commit" => task = Head(updater[u].tasks)
                            /\ kind = "end_merge" => task.opstamp = updater[u].active.opstamp
                            /\ kind = "end_merge" => \A m \in E : m = merge[u].merged /\ m # None
       /\ merge[u].merged # None /\ kind # "end_merge" => \A m \in E : m.seg # merge[u].merged.seg
  BY <1>1, <1>3, <1>6, <1>10, <1>11 DEF task
<1>13. Effect(u, updater[u].uncommitted, updater[u].committed, updater[u].active, Tail(updater[u].tasks),
             step, task, E, T, updater[u].gc, updater[u].deleted)
  BY <1>5, <1>11
<1>14. /\ UNCHANGED <<disk, unsynced, managed_paths, current, opened, stamper, worker, merge, writing, reader,
                      next_seg>>
       /\ task \in Task
  BY <1>1, <1>3
<1>15. QED
  BY <1>4, <1>7, <1>8, <1>9, <1>12, <1>13, <1>14, TakenStep, SMTT(30)

LEMMA StartEndMergeStep ==
  ASSUME IInv, NEW u \in Writers, StartEndMerge(u)
  PROVE  IInv'
<1> DEFINE task == [Head(updater[u].tasks) EXCEPT !.opstamp = updater[u].active.opstamp]
           E == OfTask(task)
<1>1. TaskIs(u, "end_merge") /\ UNCHANGED <<disk, unsynced, managed_paths, current, opened, stamper, worker, merge,
                                            writing, reader, next_seg>>
  BY DEF StartEndMerge, storage, others
<1>2. PICK T \in SUBSET Targeted(E, task.opstamp) :
        Update(u, [Taken(u) EXCEPT !.step = "purge", !.task = task, !.entries = E, !.todo = T])
  BY DEF StartEndMerge
<1>3. /\ Head(updater[u].tasks) = updater[u].tasks[1] /\ Head(updater[u].tasks).kind = "end_merge"
      /\ Head(updater[u].tasks) \in Task
      /\ updater[u].step = "idle" /\ u = current /\ updater[u].tasks # <<>>
      /\ KeepsOf(u) /\ SegsOf(u) /\ MergeOf(u, merge[u], stamper) /\ EndItem(u, merge[u], 1)
      /\ updater[u].active.opstamp \in Nat
  BY <1>1, Takes
<1>4. /\ task \in Task /\ task.kind = "end_merge" /\ task.opstamp = updater[u].active.opstamp
      /\ task.entry = Head(updater[u].tasks).entry
  BY <1>3 DEF Task
<1>5. \A m \in E : m = merge[u].merged /\ m # None /\ m \in Metas /\ writing[<<u, "merge">>] = None
  <2>1. merge[u].merged = task.entry /\ writing[<<u, "merge">>] = None
    BY <1>3, <1>4 DEF EndItem, Over, IsTask
  <2>2. merge[u].merged \in Metas \cup {None}
    BY Types DEF IInv, Merge
  <2>3. QED
    BY <2>1, <2>2 DEF OfTask
<1> HIDE DEF task
<1>6. E \in SUBSET Metas /\ T \in SUBSET Metas /\ T \subseteq E /\ \A n \in T : n.del # task.opstamp
  BY <1>2, <1>5 DEF Targeted
<1>7. Effect(u, updater[u].uncommitted, updater[u].committed, updater[u].active, Tail(updater[u].tasks),
             "purge", task, E, T, updater[u].gc, updater[u].deleted)
  BY <1>2, <1>3, <1>4, <1>6, TakenEndMerge DEF IInv
<1> HIDE DEF E
<1>8. \A m \in E : /\ Pending(u, m) /\ Named({m}, Stays \cup WrittenBy(<<u, "merge">>))
                   /\ worker[u] # None => worker[u].seg # m.seg
  BY <1>3, <1>5 DEF MergeOf, Result, Over
<1>9. \A n \in E : n.del = 0 /\ n.del =< task.opstamp
  <2>1. (\A n \in E : n.del = 0) /\ task.opstamp \in Nat
    BY <1>3, <1>4, <1>8 DEF Pending
  <2>2. QED
    BY <2>1
<1>10. Named(E, Stays) /\ OneEach(E) /\ Newer(E)
  <2>1. \A m \in E : Named({m}, Stays)
    BY <1>5, <1>8 DEF Named, WrittenBy
  <2>2. QED
    BY <1>5, <1>8, <2>1 DEF Named, OneEach, Newer, Pending
<1>11. worker[u] # None => \A n \in E : n.seg # worker[u].seg
  BY <1>5, <1>8
<1>12. (\A n \in E : n = merge[u].merged /\ n # None) /\ updater[u].active.opstamp =< task.opstamp
  BY <1>3, <1>4, <1>5
<1>13. PICK step \in {"purge", "gc"}, kind \in {"commit", "end_merge", "gc"} : kind = "end_merge" /\ step = "purge"
  OBVIOUS
<1>14. /\ TaskIs(u, kind) /\ task.kind = kind /\ (step = "gc" => kind = "gc" /\ E = {})
       /\ step = "purge" => /\ kind \in {"commit", "end_merge"}
                            /\ updater[u].active.opstamp =< task.opstamp
                            /\ kind = "commit" => task = Head(updater[u].tasks)
                            /\ kind = "end_merge" => task.opstamp = updater[u].active.opstamp
                            /\ kind = "end_merge" => \A x \in E : x = merge[u].merged /\ x # None
       /\ merge[u].merged # None /\ kind # "end_merge" => \A x \in E : x.seg # merge[u].merged.seg
  BY <1>1, <1>4, <1>12, <1>13
<1>15. Effect(u, updater[u].uncommitted, updater[u].committed, updater[u].active, Tail(updater[u].tasks),
             step, task, E, T, updater[u].gc, updater[u].deleted)
  BY <1>7, <1>13
<1>16. QED
  BY <1>1, <1>4, <1>6, <1>9, <1>10, <1>11, <1>14, <1>15, TakenStep

LEMMA StartGarbageCollectStep ==
  ASSUME IInv, NEW u \in Writers, StartGarbageCollect(u)
  PROVE  IInv'
<1>1. TaskIs(u, "gc") /\ UNCHANGED <<disk, unsynced, managed_paths, current, opened, stamper, worker, merge,
                                     writing, reader, next_seg>>
  BY DEF StartGarbageCollect, storage, others
<1>2. /\ updater[u].tasks # <<>> /\ Head(updater[u].tasks) \in Task /\ Head(updater[u].tasks).kind = "gc"
      /\ updater[u].entries = {} /\ updater[u].todo = {}
  BY <1>1, Takes
<1>3. Effect(u, updater[u].uncommitted, updater[u].committed, updater[u].active, Tail(updater[u].tasks),
             "gc", Head(updater[u].tasks), {}, {}, updater[u].gc, updater[u].deleted)
  BY <1>2, TakenGc DEF IInv, StartGarbageCollect
<1>4. Named({}, Stays) /\ OneEach({}) /\ Newer({})
  BY DEF Named, OneEach, Newer
<1> DEFINE E == {}
           T == {}
           task == Head(updater[u].tasks)
<1>5. E \in SUBSET Metas /\ T \in SUBSET Metas /\ task \in Task /\ E = {} /\ T = {}
  BY <1>2
<1>6. PICK step \in {"purge", "gc"}, kind \in {"commit", "end_merge", "gc"} : kind = "gc" /\ step = "gc"
  OBVIOUS
<1>7. /\ TaskIs(u, kind) /\ task.kind = kind /\ (step = "gc" => kind = "gc" /\ E = {})
      /\ step = "purge" => /\ kind \in {"commit", "end_merge"}
                           /\ updater[u].active.opstamp =< task.opstamp
                           /\ kind = "commit" => task = Head(updater[u].tasks)
                           /\ kind = "end_merge" => task.opstamp = updater[u].active.opstamp
                           /\ kind = "end_merge" => \A m \in E : m = merge[u].merged /\ m # None
      /\ merge[u].merged # None /\ kind # "end_merge" => \A m \in E : m.seg # merge[u].merged.seg
  BY <1>1, <1>2, <1>5, <1>6
<1>8. Effect(u, updater[u].uncommitted, updater[u].committed, updater[u].active, Tail(updater[u].tasks),
             step, task, E, T, updater[u].gc, updater[u].deleted)
  BY <1>3, <1>5, <1>6
<1>9. /\ Named(E, Stays) /\ OneEach(E) /\ Newer(E) /\ T \subseteq E /\ (\A m \in T : m.del # task.opstamp)
      /\ (\A m \in E : m.del =< task.opstamp) /\ (worker[u] # None => \A m \in E : m.seg # worker[u].seg)
  BY <1>4, <1>5
<1>10. UNCHANGED <<disk, unsynced, managed_paths, current, opened, stamper, worker, merge, writing, reader,
                   next_seg>>
  BY <1>1
<1> HIDE DEF E, T, task
<1>11. QED
  BY <1>5, <1>6, <1>7, <1>8, <1>9, <1>10, TakenStep

-----------------------------------------------------------------------------
(* Steps of a task that the updater has taken.                               *)
LEMMA Parts ==
  ASSUME IInv, NEW u \in Writers, u = current
  PROVE  /\ StillOf(u) /\ KeepsOf(u) /\ Apart(u) /\ SegsOf(u) /\ QueueOf(u) /\ TaskOf(u)
         /\ MergeOf(u, merge[u], stamper) /\ updater[u].alive /\ updater[u].active = disk.meta
         /\ updater[u].active.opstamp \in Nat /\ updater[u].active.opstamp =< MaxOpstamp
<1>1. StillOf(u) /\ KeepsOf(u) /\ Apart(u) /\ SegsOf(u) /\ QueueOf(u) /\ MergeOf(u, merge[u], stamper)
  BY DEF IInv, Still, Keeps, Segs, Queue, Merging
<1>2. TaskOf(u) /\ updater[u].alive
  BY <1>1 DEF QueueOf, StillOf
<1>3. /\ updater[u].active = disk.meta
      /\ updater[u].active.opstamp \in Nat /\ updater[u].active.opstamp =< MaxOpstamp
  BY Types DEF IInv, Published, Listed, Entries
<1>4. QED
  BY <1>1, <1>2, <1>3

\* The queue stays as it is.
LEMMA SameQueue ==
  ASSUME IInv, NEW u \in Writers, u = current, updater'[u].tasks = updater[u].tasks
  PROVE  /\ Queued(u)' = Queued(u) /\ \A i, kind : IsTask(u, i, kind)' = IsTask(u, i, kind)
         /\ \A i, j \in Queued(u)' : i < j => PairOf(u, i, j)'
<1>1. Queued(u)' = Queued(u) /\ \A i, kind : IsTask(u, i, kind)' = IsTask(u, i, kind)
  BY DEF Queued, IsTask
<1>2. \A i, j \in Queued(u) : i < j => PairOf(u, i, j)
  BY DEF IInv, Queue, QueueOf
<1>3. QED
  BY <1>1, <1>2 DEF PairOf

LEMMA CommitSegmentsStep ==
  ASSUME IInv, NEW u \in Writers, CommitSegments(u)
  PROVE  IInv'
<1>1. /\ updater[u].step = "purge" /\ updater[u].task.kind = "commit"
      /\ updater[u].todo = {} /\ writing[<<u, "updater">>] = None
      /\ UNCHANGED <<disk, unsynced, managed_paths, current, opened, stamper, worker, merge, writing, reader,
                     next_seg>>
  BY DEF CommitSegments, Purged, storage, others
<1>2. u = current
  BY <1>1, Works
<1>3. StillOf(u) /\ KeepsOf(u) /\ SegsOf(u) /\ QueueOf(u) /\ TaskOf(u) /\ MergeOf(u, merge[u], stamper)
  BY <1>2, Parts
<1>4. Effect(u, {}, updater[u].entries, updater[u].active, updater[u].tasks, "save", updater[u].task, {}, {},
             updater[u].gc, updater[u].deleted)
  BY <1>1, Committed DEF CommitSegments, IInv
<1>5. Untouched
  BY <1>1, <1>4 DEF Untouched, Effect
<1>6. Listed' /\ Published' /\ WritingOK' /\ Doom'
  BY <1>1, <1>4, <1>5, UntouchedRest DEF Effect
<1>7. /\ Stays' = Stays /\ (\A t : WrittenBy(t)' = WrittenBy(t)) /\ (\A s, d : Marked(s, d)' = Marked(s, d))
  BY <1>5, UntouchedFiles
<1>8. Shape'
  BY <1>1, <1>4 DEF IInv, Shape, Effect
<1>9. StillOf(u)' /\ OthersSame(u) /\ Apart(u)'
  BY <1>1, <1>2, <1>3, <1>4 DEF StillOf, OthersSame, Effect, Apart
<1>10. KeepsOf(u)'
  BY <1>1, <1>2, <1>3, <1>4, <1>7 DEF KeepsOf, Effect, Named, WrittenBy
<1>11. SegsOf(u)'
  <2>1. Newer(updater[u].uncommitted)' /\ Newer(updater[u].committed)' /\ Newer(updater[u].entries)'
    BY <1>1, <1>3, <1>4 DEF SegsOf, Effect, Newer
  <2>2. worker'[u] # None => Pending(u, worker[u])'
    BY <1>1, <1>3, <1>4 DEF SegsOf, Effect, Pending
  <2>3. QED
    BY <1>1, <1>3, <1>4, <1>7, <2>1, <2>2 DEF SegsOf, Effect, OneEach, Saving
<1>12. TaskOf(u)'
  BY <1>1, <1>3, <1>4 DEF TaskOf, EndingMerge, Effect, Purging, Saving
<1>13. PICK M \in Merge, st \in Nat : M = merge[u] /\ st = stamper /\ M = merge'[u] /\ st = stamper'
  BY <1>1, Types DEF IInv
<1>14. Sources(u, M)' /\ Result(u, M)'
  <2>1. Sources(u, M) /\ Result(u, M) /\ ~EndingMerge(u) /\ ~EndingMerge(u)'
    BY <1>1, <1>3, <1>4, <1>13 DEF MergeOf, EndingMerge, Effect
  <2>2. M.merged # None => Pending(u, M.merged)'
    BY <1>1, <1>4, <2>1 DEF Result, Over, Pending, Effect
  <2>3. QED
    BY <1>1, <1>4, <1>7, <2>1, <2>2 DEF Result, Over, Sources, Effect, Named
<1>15. Stamps(u, M, st)'
  BY <1>1, <1>3, <1>4, <1>7, <1>13 DEF MergeOf, Stamps, Effect, Purging, Saving
<1>16. ASSUME NEW i \in Queued(u)'
       PROVE  ItemOf(u, i)' /\ EndItem(u, M, i)' /\ StampItem(u, M, st, i)'
  <2>1. i \in Queued(u) /\ \A kind : IsTask(u, i, kind)' = IsTask(u, i, kind)
    BY <1>2, <1>4, SameQueue DEF Effect
  <2>2. ItemOf(u, i) /\ EndItem(u, M, i) /\ StampItem(u, M, st, i)
    BY <1>3, <1>13, <2>1 DEF QueueOf, MergeOf
  <2>3. QED
    BY <1>1, <1>4, <2>1, <2>2 DEF ItemOf, EndItem, Over, StampItem, Effect, Purging, Saving, EndingMerge
<1>17. QueueOf(u)' /\ MergeOf(u, M, st)'
  BY <1>2, <1>4, <1>12, <1>14, <1>15, <1>16, SameQueue DEF QueueOf, MergeOf, Effect
<1>18. MergeOf(u, merge[u], stamper)'
  BY <1>13, <1>17 DEF MergeOf
<1>19. QED
  BY <1>1, <1>2, <1>6, <1>7, <1>8, <1>9, <1>10, <1>11, <1>17, <1>18, Assembled

LEMMA EndMergeEffect ==
  ASSUME IInv, NEW u \in Writers, EndMerge(u)
  PROVE  \E U, C \in SUBSET Metas, step \in Steps, task \in Task :
           /\ Effect(u, U, C, updater[u].active, updater[u].tasks, step, task, {}, {}, updater[u].gc,
                     updater[u].deleted)
           /\ U \subseteq updater[u].uncommitted \cup updater[u].entries
           /\ C \subseteq updater[u].committed \cup updater[u].entries
           /\ \/ step = "merged" /\ task = updater[u].task /\ C = updater[u].committed
              \/ step = "save" /\ task = updater[u].task /\ U = updater[u].uncommitted
              \/ step = "idle" /\ task = NoTask /\ U = updater[u].uncommitted /\ C = updater[u].committed
<1> DEFINE before == updater[u].task.sources
           Replaced(register) == {m \in register : m.seg \notin before} \cup updater[u].entries
<1>1. /\ updater[u].task \in Task /\ updater[u].todo = {} /\ NoTask \in Task
      /\ {"merged", "save", "idle"} \subseteq Steps
  BY Types DEF IInv, EndMerge, Purged, NoTask, Task, Kinds, Steps
<1>2. /\ updater[u].uncommitted \in SUBSET Metas /\ updater[u].committed \in SUBSET Metas
      /\ Replaced(updater[u].uncommitted) \in SUBSET Metas /\ Replaced(updater[u].committed) \in SUBSET Metas
  BY Types DEF IInv
<1>3. CASE Update(u, [updater[u] EXCEPT !.uncommitted = Replaced(@), !.entries = {}, !.step = "merged"])
  <2>1. PICK S \in SUBSET Metas : S = Replaced(updater[u].uncommitted)
    BY <1>2
  <2>2. Update(u, [updater[u] EXCEPT !.uncommitted = S, !.entries = {}, !.step = "merged"])
    BY <1>3, <2>1
  <2>3. Effect(u, S, updater[u].committed, updater[u].active, updater[u].tasks, "merged", updater[u].task, {}, {},
               updater[u].gc, updater[u].deleted)
    BY <1>1, <2>2, MergedUncommitted DEF IInv
  <2>4. S \subseteq updater[u].uncommitted \cup updater[u].entries
    BY <2>1
  <2>5. QED
    BY <1>1, <1>2, <2>3, <2>4
<1>4. CASE Update(u, [updater[u] EXCEPT !.committed = Replaced(@), !.entries = {}, !.step = "save"])
  <2>1. PICK S \in SUBSET Metas : S = Replaced(updater[u].committed)
    BY <1>2
  <2>2. Update(u, [updater[u] EXCEPT !.committed = S, !.entries = {}, !.step = "save"])
    BY <1>4, <2>1
  <2>3. Effect(u, updater[u].uncommitted, S, updater[u].active, updater[u].tasks, "save", updater[u].task, {}, {},
               updater[u].gc, updater[u].deleted)
    BY <1>1, <2>2, MergedCommitted DEF IInv
  <2>4. S \subseteq updater[u].committed \cup updater[u].entries
    BY <2>1
  <2>5. QED
    BY <1>1, <1>2, <2>3, <2>4
<1>5. CASE Update(u, Idle(updater[u]))
  <2>1. Effect(u, updater[u].uncommitted, updater[u].committed, updater[u].active, updater[u].tasks, "idle", NoTask,
               {}, {}, updater[u].gc, updater[u].deleted)
    BY <1>5, Idled DEF IInv
  <2>2. QED
    BY <1>1, <1>2, <2>1
<1>6. QED
  BY <1>3, <1>4, <1>5 DEF EndMerge

LEMMA EndMergeStep ==
  ASSUME IInv, NEW u \in Writers, EndMerge(u)
  PROVE  IInv'
<1>1. /\ updater[u].step = "purge" /\ updater[u].task.kind = "end_merge"
      /\ updater[u].todo = {} /\ writing[<<u, "updater">>] = None
      /\ merge' = [merge EXCEPT ![u] = NoMerge]
      /\ UNCHANGED <<disk, unsynced, managed_paths, current, opened, stamper, worker, writing, reader,
                     next_seg>>
  BY DEF EndMerge, Purged, storage
<1>2. u = current
  BY <1>1, Works
<1>3. /\ StillOf(u) /\ KeepsOf(u) /\ SegsOf(u) /\ QueueOf(u) /\ TaskOf(u) /\ MergeOf(u, merge[u], stamper)
      /\ Apart(u)
  BY <1>2, Parts
<1>4. PICK U, C \in SUBSET Metas, step \in Steps, task \in Task :
           /\ Effect(u, U, C, updater[u].active, updater[u].tasks, step, task, {}, {}, updater[u].gc,
                     updater[u].deleted)
           /\ U \subseteq updater[u].uncommitted \cup updater[u].entries
           /\ C \subseteq updater[u].committed \cup updater[u].entries
           /\ \/ step = "merged" /\ task = updater[u].task /\ C = updater[u].committed
              \/ step = "save" /\ task = updater[u].task /\ U = updater[u].uncommitted
              \/ step = "idle" /\ task = NoTask /\ U = updater[u].uncommitted /\ C = updater[u].committed
  BY EndMergeEffect
<1>5. Untouched
  BY <1>1, <1>4 DEF Untouched, Effect
<1>6. Listed' /\ Published' /\ WritingOK' /\ Doom'
  BY <1>1, <1>4, <1>5, UntouchedRest DEF Effect
<1>7. /\ Stays' = Stays /\ (\A t : WrittenBy(t)' = WrittenBy(t)) /\ (\A s, d : Marked(s, d)' = Marked(s, d))
  BY <1>5, UntouchedFiles
<1>a. merge' \in [Writers -> Merge] /\ merge'[u] = NoMerge /\ \A v \in Writers : v # u => merge'[v] = merge[v]
  BY <1>1, NoMergeFacts DEF IInv, Shape
<1>8. Shape'
  BY <1>1, <1>4, <1>a DEF IInv, Shape, Effect
<1>9. StillOf(u)' /\ OthersSame(u)
  BY <1>1, <1>2, <1>3, <1>4, <1>a DEF StillOf, OthersSame, Effect
<1>10. KeepsOf(u)'
  BY <1>1, <1>2, <1>3, <1>4, <1>7 DEF KeepsOf, Effect, Named, WrittenBy
<1>11. \A m \in updater[u].entries :
         /\ Pending(u, merge[u].merged) /\ m.seg = merge[u].merged.seg
         /\ \A d \in Nat : Marked(m.seg, d) => d = 0 \/ \E k \in updater[u].entries : k.seg = m.seg /\ k.del = d
  BY <1>1, <1>3 DEF MergeOf, Result, EndingMerge
<1>12. /\ \A m \in updater[u].entries, k \in updater[u].uncommitted \cup updater[u].committed : m.seg # k.seg
       /\ \A k \in U : k \in updater[u].uncommitted \/ k \in updater[u].entries
       /\ \A k \in C : k \in updater[u].committed \/ k \in updater[u].entries
  BY <1>4, <1>11 DEF Pending
<1>13. Apart(u)' /\ OneEach(U) /\ OneEach(C)
  BY <1>3, <1>4, <1>12 DEF Apart, OneEach, SegsOf, Effect
<1>14. updater[u].task.opstamp = updater[u].active.opstamp /\ NoTask.kind = "none"
  BY <1>1, <1>3 DEF TaskOf, EndingMerge, NoTask
<1>15. SegsOf(u)'
  <2>1. Newer(updater[u].uncommitted)' /\ Newer(updater[u].committed)' /\ Newer(updater[u].entries)'
    BY <1>1, <1>3, <1>4, <1>12 DEF SegsOf, Effect, Newer
  <2>2. worker'[u] # None => Pending(u, worker[u])'
    BY <1>1, <1>3, <1>4, <1>12 DEF SegsOf, Effect, Pending
  <2>3. /\ \A m \in U : m.del =< updater[u].active.opstamp
        /\ \A m \in C : m.del =< updater[u].active.opstamp
    BY <1>1, <1>3, <1>12, <1>14 DEF SegsOf, Saving
  <2>4. QED
    BY <1>1, <1>3, <1>4, <1>7, <1>13, <1>14, <2>1, <2>2, <2>3 DEF SegsOf, Effect, OneEach, Saving
<1>16. TaskOf(u)'
  BY <1>1, <1>3, <1>4, <1>14 DEF TaskOf, EndingMerge, Effect, Purging, Saving
<1>17. PICK st \in Nat : st = stamper /\ st = stamper'
  BY <1>1, Types DEF IInv
<1>18. Sources(u, NoMerge)' /\ Result(u, NoMerge)'
  BY <1>1, <1>3, <1>4, NoMergeFacts DEF MergeOf, Sources, Result, Over, Named, OneEach, EndingMerge, Effect
<1>19. Stamps(u, NoMerge, st)'
  <2>1. ASSUME NEW m \in U, NEW d \in Nat, Marked(m.seg, d) PROVE d < st \/ d = 0 \/ d = m.del
    <3>1. CASE m \in updater[u].uncommitted
      BY <1>3, <1>17, <2>1, <3>1 DEF MergeOf, Stamps
    <3>2. CASE m \in updater[u].entries /\ d # 0
      <4>1. PICK k \in updater[u].entries : k.seg = m.seg /\ k.del = d
        BY <1>11, <2>1, <3>2
      <4>2. m = k
        BY <1>3, <3>2, <4>1 DEF SegsOf, OneEach
      <4>3. QED
        BY <4>1, <4>2
    <3>3. QED
      BY <1>12, <3>1, <3>2
  <2>2. QED
    BY <1>1, <1>3, <1>4, <1>7, <1>14, <1>17, <2>1, NoMergeFacts DEF MergeOf, Stamps, Effect, Purging, Saving
<1>20. ASSUME NEW i \in Queued(u)'
       PROVE  ItemOf(u, i)' /\ EndItem(u, NoMerge, i)' /\ StampItem(u, NoMerge, st, i)'
  <2>1. i \in Queued(u) /\ \A kind : IsTask(u, i, kind)' = IsTask(u, i, kind)
    BY <1>2, <1>4, SameQueue DEF Effect
  <2>2. ItemOf(u, i) /\ EndItem(u, merge[u], i) /\ StampItem(u, merge[u], stamper, i)
    BY <1>3, <2>1 DEF QueueOf, MergeOf
  <2>3. ItemOf(u, i)'
    BY <1>1, <1>4, <2>1, <2>2 DEF ItemOf, Effect, Purging, Saving
  <2>4. EndItem(u, NoMerge, i)' /\ StampItem(u, NoMerge, st, i)'
    BY <1>1, <1>4, <1>17, <2>1, <2>2, NoMergeFacts DEF EndItem, Over, StampItem, Effect, EndingMerge
  <2>5. QED
    BY <2>3, <2>4
<1>21. QueueOf(u)' /\ MergeOf(u, NoMerge, st)'
  BY <1>2, <1>4, <1>16, <1>18, <1>19, <1>20, SameQueue DEF QueueOf, MergeOf, Effect
<1>22. MergeOf(u, merge[u], stamper)'
  BY <1>17, <1>a, <1>21 DEF MergeOf
<1>23. QED
  BY <1>1, <1>2, <1>6, <1>7, <1>8, <1>9, <1>10, <1>13, <1>15, <1>21, <1>22, Assembled

LEMMA SaveMetasStep ==
  ASSUME IInv, NEW u \in Writers, SaveMetas(u)
  PROVE  IInv'
<1>1. /\ updater[u].step = "save"
      /\ UNCHANGED <<disk, unsynced, managed_paths, current, opened, stamper, worker, merge, writing, reader,
                     next_seg>>
  BY DEF SaveMetas, storage, others
<1>2. u = current
  BY <1>1, Works
<1>3. /\ StillOf(u) /\ KeepsOf(u) /\ Apart(u) /\ SegsOf(u) /\ QueueOf(u) /\ TaskOf(u)
      /\ MergeOf(u, merge[u], stamper) /\ updater[u].alive
  BY <1>2, Parts
<1>4. PICK S \in SUBSET Metas, F \in MetaFile :
        /\ S \subseteq updater[u].committed /\ F.opstamp = updater[u].task.opstamp /\ F.segments = S
        /\ Update(u, [updater[u] EXCEPT !.committed = S, !.step = "sync", !.meta = F])
  <2>1. PICK empty \in SUBSET {m \in updater[u].committed : m.del # 0} :
          LET segments == updater[u].committed \ empty
          IN Update(u, [updater[u] EXCEPT !.committed = segments, !.step = "sync",
                          !.meta = [opstamp |-> updater[u].task.opstamp, segments |-> segments]])
    BY <1>3 DEF SaveMetas
  <2> DEFINE S == updater[u].committed \ empty
             F == [opstamp |-> updater[u].task.opstamp, segments |-> S]
  <2>2. S \in SUBSET Metas /\ F \in MetaFile /\ F.opstamp = updater[u].task.opstamp /\ F.segments = S
    BY Types DEF IInv, MetaFile
  <2>3. QED
    BY <2>1, <2>2
<1>5. /\ Effect(u, updater[u].uncommitted, S, updater[u].active, updater[u].tasks, "sync", updater[u].task,
                updater[u].entries, updater[u].todo, updater[u].gc, updater[u].deleted)
      /\ updater'[u].meta = F
  BY <1>4, Saved DEF IInv
<1>6. Untouched
  BY <1>1, <1>5 DEF Untouched, Effect
<1>7. Listed' /\ Published' /\ WritingOK' /\ Doom'
  BY <1>1, <1>5, <1>6, UntouchedRest DEF Effect
<1>8. /\ Stays' = Stays /\ (\A t : WrittenBy(t)' = WrittenBy(t)) /\ (\A s, d : Marked(s, d)' = Marked(s, d))
  BY <1>6, UntouchedFiles
<1>9. Shape'
  BY <1>1, <1>5 DEF IInv, Shape, Effect
<1>10. StillOf(u)' /\ OthersSame(u) /\ Apart(u)'
  BY <1>1, <1>2, <1>3, <1>4, <1>5 DEF StillOf, OthersSame, Effect, Apart
<1>11. KeepsOf(u)'
  BY <1>1, <1>2, <1>3, <1>4, <1>5, <1>8 DEF KeepsOf, Effect, Named
<1>12. SegsOf(u)'
  <2>1. Newer(updater[u].uncommitted)' /\ Newer(updater[u].committed)' /\ Newer(updater[u].entries)'
    BY <1>1, <1>3, <1>4, <1>5 DEF SegsOf, Effect, Newer
  <2>2. worker'[u] # None => Pending(u, worker[u])'
    BY <1>1, <1>3, <1>4, <1>5 DEF SegsOf, Effect, Pending
  <2>3. QED
    BY <1>1, <1>3, <1>4, <1>5, <1>8, <2>1, <2>2 DEF SegsOf, Effect, OneEach, Saving
<1>13. TaskOf(u)'
  BY <1>1, <1>3, <1>5 DEF TaskOf, EndingMerge, Effect, Purging, Saving
<1>14. PICK M \in Merge, st \in Nat : M = merge[u] /\ st = stamper /\ M = merge'[u] /\ st = stamper'
  BY <1>1, Types DEF IInv
<1>15. Sources(u, M)' /\ Result(u, M)'
  <2>1. Sources(u, M) /\ Result(u, M) /\ ~EndingMerge(u) /\ ~EndingMerge(u)'
    BY <1>1, <1>3, <1>5, <1>14 DEF MergeOf, EndingMerge, Effect
  <2>2. M.merged # None => Pending(u, M.merged)'
    BY <1>1, <1>4, <1>5, <2>1 DEF Result, Over, Pending, Effect
  <2>3. QED
    BY <1>1, <1>5, <1>8, <2>1, <2>2 DEF Result, Over, Sources, Effect, Named
<1>16. Stamps(u, M, st)'
  BY <1>1, <1>3, <1>5, <1>8, <1>14 DEF MergeOf, Stamps, Effect, Purging, Saving
<1>17. ASSUME NEW i \in Queued(u)'
       PROVE  ItemOf(u, i)' /\ EndItem(u, M, i)' /\ StampItem(u, M, st, i)'
  <2>1. i \in Queued(u) /\ \A kind : IsTask(u, i, kind)' = IsTask(u, i, kind)
    BY <1>2, <1>5, SameQueue DEF Effect
  <2>2. ItemOf(u, i) /\ EndItem(u, M, i) /\ StampItem(u, M, st, i)
    BY <1>3, <1>14, <2>1 DEF QueueOf, MergeOf
  <2>3. QED
    BY <1>1, <1>5, <2>1, <2>2 DEF ItemOf, EndItem, Over, StampItem, Effect, Purging, Saving, EndingMerge
<1>18. QueueOf(u)' /\ MergeOf(u, M, st)'
  BY <1>2, <1>5, <1>13, <1>15, <1>16, <1>17, SameQueue DEF QueueOf, MergeOf, Effect
<1>19. MergeOf(u, merge[u], stamper)'
  BY <1>14, <1>18 DEF MergeOf
<1>20. QED
  BY <1>1, <1>2, <1>7, <1>8, <1>9, <1>10, <1>11, <1>12, <1>18, <1>19, Assembled

LEMMA ConsiderMergeStep ==
  ASSUME IInv, NoFirst, NEW u \in Writers, ConsiderMerge(u)
  PROVE  IInv'
<1>1. /\ updater[u].step = "merged" /\ consider_merge_options(u)
      /\ UNCHANGED <<disk, unsynced, managed_paths, current, opened, worker, writing, reader, next_seg>>
  BY DEF ConsiderMerge, storage
<1>2. u = current
  BY <1>1, Works
<1>3. /\ StillOf(u) /\ KeepsOf(u) /\ Apart(u) /\ SegsOf(u) /\ QueueOf(u) /\ TaskOf(u)
      /\ MergeOf(u, merge[u], stamper) /\ updater[u].active.opstamp =< MaxOpstamp
  BY <1>2, Parts
<1>4. Effect(u, updater[u].uncommitted, updater[u].committed, updater[u].active, updater[u].tasks, "gc",
             updater[u].task, updater[u].entries, updater[u].todo, updater[u].gc, updater[u].deleted)
  <2>1. "gc" \in Steps
    BY DEF Steps
  <2>2. QED
    BY <2>1, Stepped DEF IInv, ConsiderMerge
<1>5. Untouched
  BY <1>1, <1>4 DEF Untouched, Effect
<1>6. Listed' /\ Published' /\ WritingOK' /\ Doom'
  BY <1>1, <1>4, <1>5, UntouchedRest DEF Effect
<1>7. /\ Stays' = Stays /\ (\A t : WrittenBy(t)' = WrittenBy(t)) /\ (\A s, d : Marked(s, d)' = Marked(s, d))
  BY <1>5, UntouchedFiles
<1>8. KeepsOf(u)' /\ Apart(u)'
  BY <1>1, <1>2, <1>3, <1>4, <1>7 DEF KeepsOf, Effect, Named, Apart
<1>9. SegsOf(u)'
  <2>1. Newer(updater[u].uncommitted)' /\ Newer(updater[u].committed)' /\ Newer(updater[u].entries)'
    BY <1>1, <1>3, <1>4 DEF SegsOf, Effect, Newer
  <2>2. worker'[u] # None => Pending(u, worker[u])'
    BY <1>1, <1>3, <1>4 DEF SegsOf, Effect, Pending
  <2>3. QED
    BY <1>1, <1>3, <1>4, <1>7, <2>1, <2>2 DEF SegsOf, Effect, OneEach, Saving
<1>10. TaskOf(u)'
  BY <1>1, <1>3, <1>4 DEF TaskOf, EndingMerge, Effect, Purging, Saving
<1>11. PICK M \in Merge, st \in Nat : M = merge[u] /\ st = stamper
  BY Types DEF IInv
<1>12. Sources(u, M)' /\ Result(u, M)'
  <2>1. Sources(u, M) /\ Result(u, M) /\ ~EndingMerge(u) /\ ~EndingMerge(u)'
    BY <1>1, <1>3, <1>4, <1>11 DEF MergeOf, EndingMerge, Effect
  <2>2. M.merged # None => Pending(u, M.merged)'
    BY <1>1, <1>4, <2>1 DEF Result, Over, Pending, Effect
  <2>3. QED
    BY <1>1, <1>4, <1>7, <2>1, <2>2 DEF Result, Over, Sources, Effect, Named
<1>13. Stamps(u, M, st)'
  BY <1>1, <1>3, <1>4, <1>7, <1>11 DEF MergeOf, Stamps, Effect, Purging, Saving
<1>14. ASSUME NEW i \in Queued(u)'
       PROVE  ItemOf(u, i)' /\ EndItem(u, M, i)' /\ StampItem(u, M, st, i)'
  <2>1. i \in Queued(u) /\ \A kind : IsTask(u, i, kind)' = IsTask(u, i, kind)
    BY <1>2, <1>4, SameQueue DEF Effect
  <2>2. ItemOf(u, i) /\ EndItem(u, M, i) /\ StampItem(u, M, st, i)
    BY <1>3, <1>11, <2>1 DEF QueueOf, MergeOf
  <2>3. QED
    BY <1>1, <1>4, <2>1, <2>2 DEF ItemOf, EndItem, Over, StampItem, Effect, Purging, Saving, EndingMerge
<1>15. QueueOf(u)' /\ MergeOf(u, M, st)'
  BY <1>2, <1>4, <1>10, <1>12, <1>13, <1>14, SameQueue DEF QueueOf, MergeOf, Effect
<1>16. /\ merge' \in [Writers -> Merge] /\ \A v \in Writers : v # u => merge'[v] = merge[v]
       /\ stamper' \in 0 .. MaxOpstamp + 1
       /\ MergeOf(u, merge[u], stamper)'
  <2>1. /\ Named(updater[u].uncommitted, Stays)' /\ Named(updater[u].committed, Stays)'
        /\ OneEach(updater[u].uncommitted)' /\ OneEach(updater[u].committed)'
        /\ \A m \in updater'[u].uncommitted : m.del =< updater'[u].active.opstamp
        /\ worker'[u] # None => Pending(u, worker[u])'
    BY <1>1, <1>2, <1>8, <1>9 DEF KeepsOf, SegsOf
  <2>2. updater' \in [Writers -> Updater] /\ updater'[u].step # "purge" /\ updater'[u].active.opstamp =< MaxOpstamp
    BY <1>3, <1>4 DEF Effect
  <2>3. Shape
    BY DEF IInv
  <2>4. QED
    BY <1>1, <1>11, <1>15, <2>1, <2>2, <2>3, MergeConsidered
<1>17. Shape'
  BY <1>1, <1>4, <1>16 DEF IInv, Shape, Effect
<1>18. StillOf(u)' /\ OthersSame(u)
  BY <1>1, <1>2, <1>3, <1>4, <1>16 DEF StillOf, Effect, OthersSame
<1>19. QED
  BY <1>1, <1>2, <1>6, <1>7, <1>8, <1>9, <1>15, <1>16, <1>17, <1>18, Assembled

(* Steps after the purge that leave the registers and meta.json alone. They  *)
(* may change the directory, but no file that stays goes away.               *)
SameMetas == \A e \in unsynced' : \E f \in unsynced : e.meta = f.meta

LEMMA OldMetas ==
  ASSUME SameMetas
  PROVE  \A metas : Newer(metas) => \A e \in unsynced' : \A m \in e.meta.segments, n \in metas :
                                      m.seg = n.seg => m.del =< n.del
  BY DEF SameMetas, Newer

MergeKept(u, M) ==
  /\ Named(M.sources, Stays \cup WrittenBy(<<u, "merge">>))
  /\ M.merged # None => Named({M.merged}, Stays \cup WrittenBy(<<u, "merge">>))

LEMMA StillKept ==
  ASSUME IInv, NEW u \in Writers, u = current, UNCHANGED writing, Stays \subseteq Stays', NEW M, M = merge[u]
  PROVE  MergeKept(u, M)'
<1>1. Sources(u, M) /\ Result(u, M)
  BY Parts DEF MergeOf
<1>2. \A t : WrittenBy(t)' = WrittenBy(t)
  BY DEF WrittenBy
<1>3. QED
  BY <1>1, <1>2 DEF MergeKept, Sources, Result, Over, Named

LEMMA Settled ==
  ASSUME IInv, NEW u \in Writers, u = current, UNCHANGED <<current, worker, writing>>, SameMetas,
         NEW step, NEW task, NEW gc, NEW deleted,
         Effect(u, updater[u].uncommitted, updater[u].committed, updater[u].active, updater[u].tasks, step, task,
                {}, {}, gc, deleted),
         \A s, d : Marked(s, d)' => Marked(s, d),
         \/ updater[u].step = "sync" /\ step = "write" /\ task = updater[u].task
         \/ updater[u].step \in {"gc", "delete"} /\ step = "delete" /\ task = updater[u].task
         \/ updater[u].step = "delete" /\ step = "idle" /\ task = NoTask,
         NEW M \in Merge, NEW st \in Nat, M = merge[u], st = stamper, MergeKept(u, M)'
  PROVE  StillOf(u)' /\ Apart(u)' /\ SegsOf(u)' /\ QueueOf(u)' /\ MergeOf(u, M, st)'
<1>1. /\ StillOf(u) /\ KeepsOf(u) /\ Apart(u) /\ SegsOf(u) /\ QueueOf(u) /\ TaskOf(u)
      /\ MergeOf(u, M, st)
  BY Parts
<1>2. updater[u].entries = {} /\ updater[u].step # "purge" /\ NoTask.kind = "none"
  BY <1>1 DEF TaskOf, NoTask
<1>3. \A t : WrittenBy(t)' = WrittenBy(t)
  BY DEF WrittenBy
<1>4. StillOf(u)' /\ Apart(u)'
  BY <1>1 DEF StillOf, Effect, Apart
<1>5. SegsOf(u)'
  <2>1. Newer(updater[u].uncommitted)' /\ Newer(updater[u].committed)' /\ Newer(updater[u].entries)'
    BY <1>1, OldMetas DEF SegsOf, Effect, Newer
  <2>2. worker'[u] # None => Pending(u, worker[u])'
    BY <1>1 DEF SegsOf, Effect, Pending, SameMetas
  <2>3. QED
    BY <1>1, <2>1, <2>2 DEF SegsOf, Effect, OneEach, Saving
<1>6. TaskOf(u)'
  BY <1>1, <1>2 DEF TaskOf, EndingMerge, Effect, Purging, Saving
<1>7. Sources(u, M)' /\ Result(u, M)'
  <2>1. Sources(u, M) /\ Result(u, M) /\ ~EndingMerge(u) /\ ~EndingMerge(u)'
    BY <1>1, <1>2 DEF MergeOf, EndingMerge, Effect
  <2>2. M.merged # None => Pending(u, M.merged)'
    BY <2>1 DEF Result, Over, Pending, Effect, SameMetas
  <2>3. Sources(u, M)'
    BY <1>3, <2>1 DEF Sources, MergeKept
  <2>4. QED
    BY <1>2, <1>3, <2>1, <2>2, <2>3 DEF Result, Over, Effect, MergeKept
<1>8. Stamps(u, M, st)'
  BY <1>1, <1>2 DEF MergeOf, Stamps, Effect, Purging, Saving
<1>9. ASSUME NEW i \in Queued(u)'
       PROVE  ItemOf(u, i)' /\ EndItem(u, M, i)' /\ StampItem(u, M, st, i)'
  <2>1. i \in Queued(u) /\ \A kind : IsTask(u, i, kind)' = IsTask(u, i, kind)
    BY SameQueue DEF Effect
  <2>2. ItemOf(u, i) /\ EndItem(u, M, i) /\ StampItem(u, M, st, i)
    BY <1>1, <2>1 DEF QueueOf, MergeOf
  <2>3. ItemOf(u, i)'
    BY <1>2, <2>1, <2>2 DEF ItemOf, Effect, Purging, Saving
  <2>4. EndItem(u, M, i)' /\ StampItem(u, M, st, i)'
    BY <1>2, <2>1, <2>2 DEF EndItem, Over, StampItem, Effect, EndingMerge
  <2>5. QED
    BY <2>3, <2>4
<1>10. QueueOf(u)' /\ MergeOf(u, M, st)'
  BY <1>6, <1>7, <1>8, <1>9, SameQueue DEF QueueOf, MergeOf, Effect
<1>11. QED
  BY <1>4, <1>5, <1>10

LEMMA SyncDirectoryStep ==
  ASSUME IInv, NEW u \in Writers, SyncDirectory(u)
  PROVE  IInv'
<1>0. Shape /\ Listed /\ Published /\ WritingOK /\ Doom
  BY DEF IInv
<1>1. /\ updater[u].step = "sync" /\ unsynced' = {Entries(disk)}
      /\ UNCHANGED <<disk, managed_paths, current, opened, stamper, worker, merge, writing, reader,
                     next_seg>>
  BY DEF SyncDirectory, others
<1>2. u = current
  BY <1>1, Works
<1>3. KeepsOf(u) /\ TaskOf(u) /\ SegsOf(u)
  BY <1>2, Parts
<1>4. updater[u].entries = {} /\ updater[u].todo = {}
  BY <1>1, <1>3 DEF TaskOf, SegsOf
<1>5. /\ Effect(u, updater[u].uncommitted, updater[u].committed, updater[u].active, updater[u].tasks, "write",
                updater[u].task, {}, {}, updater[u].gc, updater[u].deleted)
      /\ updater'[u].meta = updater[u].meta
  <2>1. "write" \in Steps
    BY DEF Steps
  <2>2. QED
    BY <1>4, <2>1, Stepped DEF IInv, SyncDirectory
<1>6. unsynced' \subseteq unsynced /\ Entries(disk)' \in unsynced' /\ SameMetas
  BY <1>0, <1>1 DEF Listed, SameMetas, Entries
<1>7. \A v \in Writers : updater'[v].gc = updater[v].gc /\ updater'[v].deleted = updater[v].deleted
  BY <1>5 DEF Effect
<1>8. Stays' = Stays /\ (\A f : Doomed(f)' = Doomed(f)) /\ \A t : WrittenBy(t)' = WrittenBy(t)
  BY <1>1, <1>7 DEF Stays, Doomed, WrittenBy
<1>9. \A s, d : Marked(s, d)' = Marked(s, d)
  BY <1>1, <1>8 DEF Marked
<1>10. Shape'
  BY <1>0, <1>1, <1>5, <1>6 DEF Shape, Effect
<1>11. Listed' /\ WritingOK'
  BY <1>0, <1>1, <1>6 DEF Listed, WritingOK, Made
<1>12. Published'
  <2>1. Newer(disk.meta.segments)'
    BY <1>0, <1>1, <1>6 DEF Published, Newer
  <2>2. \A v \in Writers : v = current => updater'[v].active = disk.meta
    BY <1>0, <1>5 DEF Published, Effect
  <2>3. QED
    BY <1>0, <1>1, <1>6, <1>8, <2>1, <2>2 DEF Published, Named, OneEach
<1>13. Doom'
  <2>1. \A v \in Writers : updater'[v].step # "delete" => updater[v].step # "delete"
    BY <1>1, <1>5 DEF Effect
  <2>2. QED
    BY <1>0, <1>1, <1>7, <1>8, <2>1 DEF Doom
<1>14. KeepsOf(u)'
  <2>1. \A e \in unsynced' : Named(updater[u].committed, e.files)
    BY <1>1, <1>2, <1>3 DEF KeepsOf, Named, Stays, Entries
  <2>2. QED
    BY <1>1, <1>2, <1>3, <1>5, <1>8, <2>1 DEF KeepsOf, Effect, Named
<1>15. PICK M \in Merge, st \in Nat : M = merge[u] /\ st = stamper /\ M = merge'[u] /\ st = stamper'
  BY <1>0, <1>1, Types
<1>16. StillOf(u)' /\ Apart(u)' /\ SegsOf(u)' /\ QueueOf(u)' /\ MergeOf(u, M, st)'
  <2>1. MergeKept(u, M)'
    BY <1>1, <1>2, <1>8, <1>15, StillKept
  <2>2. QED
    BY <1>1, <1>2, <1>5, <1>6, <1>8, <1>9, <1>15, <2>1, Settled
<1>17. MergeOf(u, merge[u], stamper)' /\ OthersSame(u)
  BY <1>1, <1>5, <1>15, <1>16 DEF MergeOf, OthersSame, Effect
<1>18. QED
  BY <1>1, <1>2, <1>8, <1>10, <1>11, <1>12, <1>13, <1>14, <1>16, <1>17, Assembled

LEMMA WriteMetaStep ==
  ASSUME IInv, NEW u \in Writers, WriteMeta(u)
  PROVE  IInv'
<1>0. Shape /\ Listed /\ Published /\ WritingOK /\ Doom
  BY DEF IInv
<1>1. /\ updater[u].step = "write" /\ Change([disk EXCEPT !.meta = updater[u].meta])
      /\ UNCHANGED <<managed_paths, current, opened, stamper, worker, merge, writing, reader,
                     next_seg>>
  BY DEF WriteMeta, others
<1>2. u = current
  BY <1>1, Works
<1>3. /\ StillOf(u) /\ KeepsOf(u) /\ Apart(u) /\ SegsOf(u) /\ QueueOf(u) /\ TaskOf(u)
      /\ MergeOf(u, merge[u], stamper) /\ updater[u].active = disk.meta
  BY <1>2, Parts
<1>4. /\ updater[u].entries = {} /\ updater[u].todo = {} /\ updater[u].task.kind \in {"commit", "end_merge"}
      /\ updater[u].active.opstamp =< updater[u].task.opstamp /\ updater[u].task.opstamp =< MaxOpstamp
  BY <1>1, <1>3 DEF TaskOf, SegsOf, Purging, Saving
<1>5. PICK F \in MetaFile : /\ F = updater[u].meta /\ F.opstamp = updater[u].task.opstamp
                            /\ F.segments = updater[u].committed
  BY <1>1, <1>3 DEF KeepsOf
<1>6. PICK step \in {"gc", "merged"} : /\ step = AfterSave(updater[u].task)
                                       /\ step = "gc" <=> updater[u].task.kind = "commit"
  BY DEF AfterSave
<1>7. Effect(u, updater[u].uncommitted, updater[u].committed, F, updater[u].tasks, step, updater[u].task, {}, {},
             updater[u].gc, updater[u].deleted)
  <2>1. step \in Steps
    BY <1>6 DEF Steps
  <2>2. Update(u, [updater[u] EXCEPT !.active = updater[u].meta, !.meta = None, !.step = step])
    BY <1>6 DEF WriteMeta
  <2>3. Effect(u, updater[u].uncommitted, updater[u].committed, updater[u].meta, updater[u].tasks, step,
               updater[u].task, updater[u].entries, updater[u].todo, updater[u].gc, updater[u].deleted)
    BY <1>0, <1>5, <2>1, <2>2, MetaWritten
  <2>4. QED
    BY <1>4, <1>5, <2>3 DEF Effect
<1>8. /\ disk' \in Disk /\ disk'.files = disk.files /\ disk'.closed = disk.closed
      /\ disk'.managed = disk.managed /\ disk'.meta = F
  BY <1>0, <1>1, <1>5 DEF Change, Shape, Disk
<1>9. PICK new \in Directory : /\ new = Entries(disk') /\ unsynced' = unsynced \cup {new}
                               /\ new.files = disk.files /\ new.managed = disk.managed /\ new.meta = F
  <2>1. Entries(disk') \in Directory
    BY <1>8 DEF Entries, Directory, Disk
  <2>2. unsynced' = unsynced \cup {Entries(disk')}
    BY <1>1 DEF Change
  <2>3. QED
    BY <1>8, <2>1, <2>2 DEF Entries
<1>10. \A v \in Writers : updater'[v].gc = updater[v].gc /\ updater'[v].deleted = updater[v].deleted
  BY <1>7 DEF Effect
<1>11. Stays' = Stays /\ (\A f : Doomed(f)' = Doomed(f)) /\ \A t : WrittenBy(t)' = WrittenBy(t)
  BY <1>1, <1>8, <1>10 DEF Stays, Doomed, WrittenBy
<1>12. \A s, d : Marked(s, d)' = Marked(s, d)
  BY <1>1, <1>11 DEF Marked
<1>13. Shape'
  BY <1>0, <1>1, <1>7, <1>8, <1>9 DEF Shape, Effect
<1>14. /\ Named(updater[u].committed, Stays) /\ Named(updater[u].committed, disk.files)
       /\ Named(updater[u].committed, disk.closed) /\ Named(updater[u].committed, disk.managed)
  <2>1. disk.files \subseteq disk.managed
    BY <1>0 DEF Listed, Entries
  <2>2. QED
    BY <1>2, <1>3, <2>1 DEF KeepsOf, Stays, Named
<1>15. Listed'
  <2>1. disk.files \subseteq disk.managed /\ \A f \in disk.managed : Made(f)
    BY <1>0 DEF Listed, Entries
  <2>2. \A f : Made(f)' = Made(f)
    BY <1>1 DEF Made
  <2>3. Entries(disk)' \in unsynced'
    BY <1>9 DEF Entries
  <2>4. QED
    BY <1>0, <1>1, <1>8, <1>9, <2>1, <2>2, <2>3 DEF Listed
<1>16. Newer(updater[u].committed)' /\ Newer(updater[u].uncommitted)' /\ Newer(disk.meta.segments)'
  <2>1. \A n \in updater[u].committed : n.del =< n.del
    BY <1>0, Types
  <2>2. \A m, n \in updater[u].committed : m.seg = n.seg => m.del =< n.del
    BY <1>3, <2>1 DEF SegsOf, OneEach
  <2>3. Newer(updater[u].committed)'
    BY <1>3, <1>5, <1>7, <1>9, <2>2 DEF SegsOf, Newer, Effect
  <2>4. Newer(updater[u].uncommitted)'
    BY <1>3, <1>5, <1>7, <1>9 DEF SegsOf, Newer, Effect, Apart
  <2>5. QED
    BY <1>5, <1>7, <1>8, <2>3, <2>4 DEF Newer, Effect
<1>17. Published'
  <2>1. \A e \in unsynced' : Named(F.segments, e.files)
    BY <1>1, <1>3, <1>5, <1>9, <1>14 DEF KeepsOf, Named
  <2>2. \A e \in unsynced' :
          /\ Named(e.meta.segments, e.files) /\ Named(e.meta.segments, disk'.closed)
          /\ Named(e.meta.segments, disk'.managed) /\ OneEach(e.meta.segments)
    BY <1>0, <1>3, <1>5, <1>8, <1>9, <1>14 DEF Published, SegsOf
  <2>3. \A e \in unsynced' :
          e.meta.opstamp =< MaxOpstamp /\ \A m \in e.meta.segments : m.del =< e.meta.opstamp
    <3>1. F.opstamp =< MaxOpstamp /\ \A m \in F.segments : m.del =< F.opstamp
      BY <1>1, <1>3, <1>4, <1>5 DEF SegsOf, Saving
    <3>2. QED
      BY <1>0, <1>9, <3>1 DEF Published
  <2>4. \A v \in Writers : v = current => updater'[v].active = disk'.meta
    BY <1>2, <1>7, <1>8 DEF Effect
  <2>5. Named(disk'.meta.segments, Stays')
    BY <1>5, <1>8, <1>11, <1>14
  <2>6. QED
    BY <1>1, <1>8, <1>16, <2>1, <2>2, <2>3, <2>4, <2>5 DEF Published, Named, OneEach
<1>18. WritingOK'
  <2>1. \A f : f \notin disk.files => ~Names(F.segments, f)
    BY <1>5, <1>14 DEF Names, Named
  <2>2. ASSUME NEW t \in Threads, writing[t] # None
        PROVE  \/ writing[t].at \notin {"register", "create"}
               \/ writing[t].file \in disk.files
               \/ \A e \in unsynced' : ~Names(e.meta.segments, writing[t].file)
    BY <1>0, <1>9, <2>1, <2>2 DEF WritingOK
  <2>3. QED
    BY <1>0, <1>1, <1>8, <2>2 DEF WritingOK, Made, Names
<1>19. Doom'
  <2>1. \A v \in Writers : updater'[v].step # "delete" => updater[v].step # "delete"
    BY <1>1, <1>7 DEF Effect
  <2>2. QED
    BY <1>0, <1>1, <1>8, <1>10, <1>11, <2>1 DEF Doom
<1>20. KeepsOf(u)'
  BY <1>1, <1>2, <1>3, <1>5, <1>6, <1>7, <1>11, <1>14 DEF KeepsOf, Effect, Named
<1>22. StillOf(u)' /\ Apart(u)' /\ OthersSame(u)
  BY <1>1, <1>2, <1>3, <1>7 DEF StillOf, Effect, Apart, OthersSame
<1>23. /\ updater[u].active.opstamp \in Nat /\ updater[u].task.opstamp \in Nat
       /\ \A m \in Metas : m.del \in Nat /\ m.seg \in Nat
       /\ updater[u].uncommitted \subseteq Metas
  BY <1>0, Types
<1>24. SegsOf(u)'
  <2>1. worker'[u] # None => Pending(u, worker[u])'
    BY <1>1, <1>3, <1>5, <1>7, <1>9 DEF SegsOf, Effect, Pending
  <2>2. \A m \in updater[u].uncommitted : m.del =< F.opstamp
    BY <1>3, <1>4, <1>5, <1>23 DEF SegsOf
  <2>3. \A m \in updater[u].committed : m.del =< F.opstamp
    BY <1>1, <1>3, <1>5 DEF SegsOf, Saving
  <2>4. Newer(updater[u].entries)'
    BY <1>7 DEF Effect, Newer
  <2>5. QED
    BY <1>1, <1>3, <1>6, <1>7, <1>12, <1>16, <2>1, <2>2, <2>3, <2>4 DEF SegsOf, Effect, OneEach, Saving
<1>25. TaskOf(u)'
  BY <1>1, <1>3, <1>4, <1>5, <1>6, <1>7, <1>23 DEF TaskOf, EndingMerge, Effect, Purging, Saving
<1>26. PICK M \in Merge, st \in Nat : M = merge[u] /\ st = stamper /\ M = merge'[u] /\ st = stamper'
  BY <1>0, <1>1, Types
<1>27. Sources(u, M)' /\ Result(u, M)'
  <2>1. Sources(u, M) /\ Result(u, M) /\ ~EndingMerge(u) /\ ~EndingMerge(u)'
    BY <1>1, <1>3, <1>6, <1>7, <1>26 DEF MergeOf, EndingMerge, Effect
  <2>2. M.merged # None => Pending(u, M.merged)'
    BY <1>5, <1>7, <1>9, <2>1 DEF Result, Over, Pending, Effect
  <2>3. Sources(u, M)'
    BY <1>1, <1>11, <1>12, <2>1 DEF Sources, Named
  <2>4. QED
    BY <1>1, <1>4, <1>7, <1>11, <1>12, <2>1, <2>2, <2>3 DEF Result, Over, Effect, Named
<1>28. Stamps(u, M, st)'
  BY <1>1, <1>3, <1>5, <1>6, <1>7, <1>12, <1>26 DEF MergeOf, Stamps, Effect, Purging, Saving
<1>29. ASSUME NEW i \in Queued(u)'
       PROVE  ItemOf(u, i)' /\ EndItem(u, M, i)' /\ StampItem(u, M, st, i)'
  <2>1. i \in Queued(u) /\ \A kind : IsTask(u, i, kind)' = IsTask(u, i, kind)
    BY <1>2, <1>7, SameQueue DEF Effect
  <2>2. ItemOf(u, i) /\ EndItem(u, M, i) /\ StampItem(u, M, st, i)
    BY <1>3, <1>26, <2>1 DEF QueueOf, MergeOf
  <2>3. ItemOf(u, i)'
    BY <1>1, <1>5, <1>6, <1>7, <2>1, <2>2 DEF ItemOf, Effect, Purging, Saving
  <2>4. EndItem(u, M, i)' /\ StampItem(u, M, st, i)'
    BY <1>1, <1>6, <1>7, <2>1, <2>2 DEF EndItem, Over, StampItem, Effect, EndingMerge
  <2>5. QED
    BY <2>3, <2>4
<1>30. QueueOf(u)' /\ MergeOf(u, M, st)'
  BY <1>2, <1>7, <1>25, <1>27, <1>28, <1>29, SameQueue DEF QueueOf, MergeOf, Effect
<1>31. MergeOf(u, merge[u], stamper)'
  BY <1>26, <1>30 DEF MergeOf
<1>32. QED
  BY <1>1, <1>2, <1>11, <1>13, <1>15, <1>17, <1>18, <1>19, <1>20, <1>22, <1>24, <1>30, <1>31, Assembled

(* The list of garbage names no file that something holds.                   *)
LEMMA Holds ==
  ASSUME IInv, NEW v \in Writers, v = current \/ worker[v] # None,
         NEW m, \/ m \in updater[v].uncommitted \cup updater[v].committed \cup updater[v].active.segments
                \/ m \in updater[v].entries \/ m \in merge[v].sources
                \/ m = merge[v].merged /\ m # None
                \/ m = worker[v] /\ m # None
  PROVE  File(m.seg, 0) \in Living /\ File(m.seg, m.del) \in Living
<1>1. current # 0 /\ v \in 1 .. opened
  <2>1. v \in Nat /\ v >= 1 /\ opened \in Nat /\ current \in Nat /\ current =< opened
    BY DEF IInv, Shape, Writers
  <2>2. v = current \/ v < current
    BY DEF IInv, Still, StillOf
  <2>3. QED
    BY <2>1, <2>2
<1>2. m \in Held(v)
  <2> DEFINE queued == UNION {OfTask(updater[v].tasks[i]) : i \in DOMAIN updater[v].tasks}
             registers == updater[v].uncommitted \cup updater[v].committed \cup updater[v].active.segments
  <2>1. Held(v) = queued \cup merge[v].sources \cup ({merge[v].merged} \ {None}) \cup ({worker[v]} \ {None})
                  \cup updater[v].entries
                  \cup IF v = current \/ Busy(v) THEN registers ELSE {}
    BY DEF Held
  <2> HIDE DEF queued
  <2>2. v = current \/ Busy(v)
    BY DEF Busy
  <2>3. QED
    BY <2>1, <2>2
<1>3. m \in list_all_segment_metas
  BY <1>1, <1>2 DEF list_all_segment_metas
<1>4. QED
  BY <1>3, ListFiles DEF Living, FilesOf

LEMMA ListGarbageStep ==
  ASSUME IInv, NEW u \in Writers, ListGarbage(u)
  PROVE  IInv'
<1>0. Shape /\ Listed /\ Published /\ WritingOK /\ Doom
  BY DEF IInv
<1>1. /\ updater[u].step = "gc" /\ meta_lock_free
      /\ UNCHANGED <<disk, unsynced, managed_paths, current, opened, stamper, worker, merge, writing, reader,
                     next_seg>>
  BY DEF ListGarbage, storage, others
<1>2. u = current
  BY <1>1, Works
<1>3. KeepsOf(u) /\ TaskOf(u) /\ SegsOf(u) /\ MergeOf(u, merge[u], stamper) /\ updater[u].active = disk.meta
  BY <1>2, Parts
<1>4. updater[u].entries = {} /\ updater[u].todo = {}
  BY <1>1, <1>3 DEF TaskOf, SegsOf
<1>5. PICK G \in SUBSET FileNames : G = managed_paths \ Living
  BY <1>0 DEF Shape
<1>6. Effect(u, updater[u].uncommitted, updater[u].committed, updater[u].active, updater[u].tasks, "delete",
             updater[u].task, {}, {}, G, updater[u].deleted)
  <2>1. Effect(u, updater[u].uncommitted, updater[u].committed, updater[u].active, updater[u].tasks, "delete",
               updater[u].task, updater[u].entries, updater[u].todo, G, updater[u].deleted)
    BY <1>0, <1>5, GarbageListed DEF ListGarbage
  <2>2. QED
    BY <1>4, <2>1 DEF Effect
<1>7. SameMetas /\ (\A t : WrittenBy(t)' = WrittenBy(t)) /\ \A s, d : Marked(s, d)' = Marked(s, d)
  BY <1>1 DEF SameMetas, WrittenBy, Marked
<1>8. \A v \in Writers : v # u => updater'[v] = updater[v] /\ updater[v].gc = {} /\ updater[v].deleted = {}
  <2>1. \A v \in Writers : v # u => updater[v].step = "idle"
    BY <1>2, Works
  <2>2. QED
    BY <1>0, <1>6, <2>1 DEF Doom, Effect
<1>9. \A f : f \in Stays /\ f \in Living => f \in Stays'
  BY <1>1, <1>5, <1>6, <1>8 DEF Stays, Doomed, Effect
<1>10. Shape'
  BY <1>0, <1>1, <1>6 DEF Shape, Effect
<1>11. Listed' /\ WritingOK'
  BY <1>0, <1>1 DEF Listed, WritingOK, Made, Entries
<1>12. Published'
  <2>1. Named(disk.meta.segments, Stays')
    BY <1>0, <1>2, <1>3, <1>9, Holds DEF Published, Named
  <2>2. Newer(disk.meta.segments)' /\ \A v \in Writers : v = current => updater'[v].active = disk.meta
    BY <1>0, <1>1, <1>6 DEF Published, Newer, Effect
  <2>3. QED
    BY <1>0, <1>1, <2>1, <2>2 DEF Published, Named, OneEach
<1>13. Doom'
  <2>1. \A t \in Threads : \A f \in WrittenBy(t) : f \in Living
    BY DEF WrittenBy, Living, BeingWritten
  <2>2. updater[u].deleted = {} /\ \A r \in Readers : reader'[r] = None
    BY <1>0, <1>1 DEF Doom, meta_lock_free
  <2>3. \A v \in Writers : updater'[v].deleted = {} /\ updater'[v].gc \subseteq managed_paths
    BY <1>0, <1>5, <1>6, <1>8, <2>2 DEF Doom, Effect
  <2>4. \A v \in Writers : updater'[v].step # "delete" => updater'[v].gc = {}
    BY <1>6, <1>8 DEF Effect
  <2>5. ASSUME NEW v \in Writers, NEW t \in Threads, NEW f \in WrittenBy(t) PROVE f \notin updater'[v].gc
    BY <1>5, <1>6, <1>8, <2>1, <2>5 DEF Effect
  <2>6. QED
    BY <1>1, <1>7, <2>2, <2>3, <2>4, <2>5 DEF Doom
<1>14. ASSUME NEW v \in Writers PROVE KeepsOf(v)'
  <2>1. KeepsOf(v) /\ StillOf(v)
    BY DEF IInv, Keeps, Still
  <2>2. /\ updater'[v].uncommitted = updater[v].uncommitted /\ updater'[v].committed = updater[v].committed
        /\ updater'[v].active = updater[v].active /\ updater'[v].entries = updater[v].entries
        /\ updater'[v].step \notin {"sync", "write"}
    <3>1. CASE v = u
      BY <1>4, <1>6, <3>1 DEF Effect
    <3>2. CASE v # u
      BY <1>2, <1>8, <2>1, <3>2 DEF StillOf
    <3>3. QED
      BY <3>1, <3>2
  <2>3. updater[v].entries = {}
    BY <1>2, <1>4, <2>1 DEF StillOf
  <2>4. v = current \/ worker[v] # None =>
          /\ Named(updater[v].uncommitted, Stays') /\ Named(updater[v].committed, Stays')
          /\ Named(updater[v].active.segments, Stays')
    BY <1>9, <2>1, Holds DEF KeepsOf, Named
  <2>5. worker[v] # None => Named({worker[v]}, Stays' \cup WrittenBy(<<v, "worker">>))
    BY <1>9, <2>1, Holds DEF KeepsOf, Named
  <2>6. QED
    BY <1>1, <1>7, <2>1, <2>2, <2>3, <2>4, <2>5 DEF KeepsOf, Named
<1>15. PICK M \in Merge, st \in Nat : M = merge[u] /\ st = stamper /\ M = merge'[u] /\ st = stamper'
  BY <1>0, <1>1, Types
<1>16. StillOf(u)' /\ Apart(u)' /\ SegsOf(u)' /\ QueueOf(u)' /\ MergeOf(u, M, st)'
  <2>1. MergeKept(u, M)'
    <3>1. Sources(u, M) /\ Result(u, M)
      BY <1>3, <1>15 DEF MergeOf
    <3>2. \A m \in M.sources : File(m.seg, 0) \in Living /\ File(m.seg, m.del) \in Living
      BY <1>2, <1>15, Holds
    <3>3. M.merged # None => File(M.merged.seg, 0) \in Living /\ File(M.merged.seg, M.merged.del) \in Living
      BY <1>2, <1>15, Holds
    <3>4. QED
      BY <1>7, <1>9, <3>1, <3>2, <3>3 DEF MergeKept, Sources, Result, Over, Named
  <2>2. QED
    BY <1>1, <1>2, <1>6, <1>7, <1>15, <2>1, Settled
<1>17. ASSUME NEW v \in Writers, v # u PROVE StillOf(v)' /\ Apart(v)'
  BY <1>1, <1>8, <1>17 DEF IInv, Still, StillOf, Segs, Apart
<1>18. MergeOf(u, merge[u], stamper)'
  BY <1>15, <1>16 DEF MergeOf
<1>19. QED
  BY <1>1, <1>2, <1>10, <1>11, <1>12, <1>13, <1>14, <1>16, <1>17, <1>18
     DEF IInv, Still, Keeps, Segs, Queue, Merging

LEMMA DeleteFileStep ==
  ASSUME IInv, NEW u \in Writers, DeleteFile(u)
  PROVE  IInv'
<1>0. Shape /\ Listed /\ Published /\ WritingOK /\ Doom
  BY DEF IInv
<1>1. /\ updater[u].step = "delete"
      /\ UNCHANGED <<managed_paths, current, opened, stamper, worker, merge, writing, reader,
                     next_seg>>
  BY DEF DeleteFile, others
<1>2. u = current
  BY <1>1, Works
<1>3. KeepsOf(u) /\ TaskOf(u) /\ SegsOf(u)
  BY <1>2, Parts
<1>4. updater[u].entries = {} /\ updater[u].todo = {}
  BY <1>1, <1>3 DEF TaskOf, SegsOf
<1>5. PICK f \in updater[u].gc :
        /\ Change([disk EXCEPT !.files = @ \ {f}])
        /\ Update(u, [updater[u] EXCEPT !.gc = @ \ {f}, !.deleted = @ \cup {f}])
  BY DEF DeleteFile
<1>6. f \in FileNames /\ f \in managed_paths /\ Doomed(f)
  BY <1>0, <1>5 DEF Shape, Updater, Doom, Doomed
<1>7. Effect(u, updater[u].uncommitted, updater[u].committed, updater[u].active, updater[u].tasks, "delete",
             updater[u].task, {}, {}, updater[u].gc \ {f}, updater[u].deleted \cup {f})
  <2>1. Effect(u, updater[u].uncommitted, updater[u].committed, updater[u].active, updater[u].tasks,
               updater[u].step, updater[u].task, updater[u].entries, updater[u].todo, updater[u].gc \ {f},
               updater[u].deleted \cup {f})
    BY <1>0, <1>5, <1>6, FileDeleted
  <2>2. QED
    BY <1>1, <1>4, <2>1 DEF Effect
<1>8. /\ disk' \in Disk /\ disk'.files = disk.files \ {f} /\ disk'.closed = disk.closed
      /\ disk'.managed = disk.managed /\ disk'.meta = disk.meta
  BY <1>0, <1>5 DEF Change, Shape, Disk
<1>9. PICK new \in Directory : /\ new = Entries(disk') /\ unsynced' = unsynced \cup {new}
                               /\ new.files = disk.files \ {f} /\ new.managed = disk.managed /\ new.meta = disk.meta
  <2>1. Entries(disk') \in Directory
    BY <1>8 DEF Entries, Directory, Disk
  <2>2. unsynced' = unsynced \cup {Entries(disk')}
    BY <1>5 DEF Change
  <2>3. QED
    BY <1>8, <2>1, <2>2 DEF Entries
<1>10. PICK old \in unsynced : old.files = disk.files /\ old.managed = disk.managed /\ old.meta = disk.meta
  BY <1>0 DEF Listed, Entries
<1>11. SameMetas /\ (\A t : WrittenBy(t)' = WrittenBy(t)) /\ (\A s, d : Marked(s, d)' = Marked(s, d))
       /\ \A g : Made(g)' = Made(g)
  BY <1>1, <1>9, <1>10 DEF SameMetas, WrittenBy, Marked, Made
<1>12. (\A g : Doomed(g)' => Doomed(g)) /\ Stays \subseteq Stays'
  <2>1. \A g : Doomed(g)' => Doomed(g)
    BY <1>7 DEF Doomed, Effect
  <2>2. QED
    BY <1>6, <1>8, <2>1 DEF Stays
<1>13. Shape'
  BY <1>0, <1>1, <1>7, <1>8, <1>9 DEF Shape, Effect
<1>14. Listed'
  <2>1. Entries(disk)' \in unsynced'
    BY <1>9 DEF Entries
  <2>2. \A e \in unsynced' : e.files \subseteq e.managed /\ \A g \in e.managed : Made(g)
    BY <1>0, <1>9, <1>10 DEF Listed
  <2>3. QED
    BY <1>0, <1>1, <1>8, <1>11, <2>1, <2>2 DEF Listed
<1>15. Published'
  <2>1. Named(disk.meta.segments, Stays') /\ Named(disk.meta.segments, new.files)
    BY <1>0, <1>6, <1>9, <1>12 DEF Published, Named, Stays
  <2>2. Newer(disk.meta.segments)'
    BY <1>0, <1>8, <1>11, OldMetas DEF Published, Newer
  <2>3. \A v \in Writers : v = current => updater'[v].active = disk.meta
    BY <1>0, <1>7 DEF Published, Effect
  <2>4. \A e \in unsynced' :
          /\ Named(disk.meta.segments, e.files) /\ Named(e.meta.segments, e.files)
          /\ Named(e.meta.segments, disk.closed) /\ Named(e.meta.segments, disk.managed) /\ OneEach(e.meta.segments)
          /\ e.meta.opstamp =< MaxOpstamp /\ \A m \in e.meta.segments : m.del =< e.meta.opstamp
    BY <1>0, <1>9, <1>10, <2>1 DEF Published
  <2>5. QED
    BY <1>1, <1>8, <2>1, <2>2, <2>3, <2>4 DEF Published, Named, OneEach
<1>16. WritingOK'
  <2>1. ASSUME NEW t \in Threads, writing[t] # None
        PROVE  /\ writing[t].file # f
               /\ \/ writing[t].at \notin {"register", "create"}
                  \/ writing[t].file \in disk.files
                  \/ \A e \in unsynced' : ~Names(e.meta.segments, writing[t].file)
    BY <1>0, <1>5, <1>9, <1>10, <2>1 DEF WritingOK, Doom, WrittenBy
  <2>2. QED
    BY <1>0, <1>1, <1>8, <1>11, <2>1 DEF WritingOK, Names
<1>17. Doom'
  <2>1. ASSUME NEW v \in Writers
        PROVE  /\ updater'[v].step # "delete" => updater'[v].gc = {} /\ updater'[v].deleted = {}
               /\ updater'[v].gc \subseteq managed_paths /\ updater'[v].deleted \subseteq managed_paths
               /\ \A g \in updater'[v].deleted : g \notin disk'.files
               /\ \A t \in Threads : \A g \in WrittenBy(t) : g \notin updater'[v].gc /\ g \notin updater'[v].deleted
    <3>1. CASE v = u
      BY <1>0, <1>5, <1>6, <1>7, <1>8, <3>1 DEF Doom, Effect
    <3>2. CASE v # u
      BY <1>0, <1>7, <1>8, <3>2 DEF Doom, Effect
    <3>3. QED
      BY <3>1, <3>2
  <2>2. \A r \in Readers : reader[r] # None => \A g \in reader[r] : g \in disk'.files /\ ~Doomed(g)'
    BY <1>0, <1>6, <1>8, <1>12 DEF Doom
  <2>3. QED
    BY <1>1, <1>11, <2>1, <2>2 DEF Doom
<1>18. KeepsOf(u)'
  BY <1>1, <1>2, <1>3, <1>7, <1>11, <1>12 DEF KeepsOf, Effect, Named
<1>19. PICK M \in Merge, st \in Nat : M = merge[u] /\ st = stamper /\ M = merge'[u] /\ st = stamper'
  BY <1>0, <1>1, Types
<1>20. StillOf(u)' /\ Apart(u)' /\ SegsOf(u)' /\ QueueOf(u)' /\ MergeOf(u, M, st)'
  <2>1. MergeKept(u, M)'
    BY <1>1, <1>2, <1>12, <1>19, StillKept
  <2>2. QED
    BY <1>1, <1>2, <1>7, <1>11, <1>19, <2>1, Settled
<1>21. MergeOf(u, merge[u], stamper)' /\ OthersSame(u)
  BY <1>0, <1>1, <1>7, <1>8, <1>19, <1>20 DEF MergeOf, OthersSame, Effect
<1>22. QED
  BY <1>1, <1>2, <1>12, <1>13, <1>14, <1>15, <1>16, <1>17, <1>18, <1>20, <1>21, Assembled

LEMMA ForgetDeletedStorage ==
  ASSUME IInv, NEW u \in Writers, ForgetDeleted(u)
  PROVE  /\ disk' \in Disk /\ disk'.files = disk.files /\ disk'.closed = disk.closed /\ disk'.meta = disk.meta
         /\ managed_paths' = managed_paths \ updater[u].deleted /\ disk'.managed = managed_paths'
         /\ unsynced' \subseteq Directory /\ Entries(disk)' \in unsynced'
         /\ \A e \in unsynced' :
              \/ e \in unsynced
              \/ e.files = disk.files /\ e.meta = disk.meta /\ e.managed = managed_paths'
         /\ updater[u].deleted # {} => \A e \in unsynced' : e.meta = disk.meta
<1>1. updater[u].step = "delete"
  BY DEF ForgetDeleted
<1>a. u # 0
  BY DEF Writers
<1>2. u = current /\ u # 0
  BY <1>1, <1>a, Works
<1>3. disk \in Disk /\ disk.managed = managed_paths /\ Entries(disk) \in unsynced /\ unsynced \subseteq Directory
  BY <1>2 DEF IInv, Shape, Listed
<1>4. CASE updater[u].deleted = {}
  <2>1. UNCHANGED <<disk, unsynced, managed_paths>>
    BY <1>4 DEF ForgetDeleted, storage
  <2>2. QED
    BY <1>3, <1>4, <2>1 DEF Disk
<1>5. CASE updater[u].deleted # {}
  <2>1. /\ managed_paths' = managed_paths \ updater[u].deleted /\ disk' = [disk EXCEPT !.managed = managed_paths']
        /\ unsynced' = {Entries(disk), Entries(disk')}
    BY <1>5 DEF ForgetDeleted
  <2>2. /\ disk' \in Disk /\ disk'.files = disk.files /\ disk'.closed = disk.closed /\ disk'.meta = disk.meta
        /\ disk'.managed = managed_paths'
    BY <1>3, <2>1 DEF Disk
  <2>3. /\ Entries(disk').files = disk.files /\ Entries(disk').meta = disk.meta
        /\ Entries(disk').managed = managed_paths' /\ Entries(disk') \in Directory
        /\ Entries(disk).meta = disk.meta
    BY <2>2 DEF Entries, Directory, Disk
  <2>4. QED
    BY <1>3, <2>1, <2>2, <2>3 DEF Entries
<1>6. QED
  BY <1>4, <1>5

LEMMA ForgetDeletedStep ==
  ASSUME IInv, NoFirst, NEW u \in Writers, ForgetDeleted(u)
  PROVE  IInv'
<1>0. Shape /\ Listed /\ Published /\ WritingOK /\ Doom
  BY DEF IInv
<1>1. /\ updater[u].step = "delete" /\ updater[u].gc = {}
      /\ UNCHANGED <<current, opened, worker, writing, reader, next_seg>>
      /\ consider_merge_options(u) \/ UNCHANGED <<merge, stamper>>
  BY DEF ForgetDeleted
<1>2. u = current
  BY <1>1, Works
<1>3. /\ KeepsOf(u) /\ TaskOf(u) /\ SegsOf(u) /\ updater[u].active = disk.meta
      /\ updater[u].active.opstamp \in Nat /\ updater[u].active.opstamp =< MaxOpstamp
  BY <1>2, Parts
<1>4. Effect(u, updater[u].uncommitted, updater[u].committed, updater[u].active, updater[u].tasks, "idle", NoTask,
             {}, {}, updater[u].gc, {})
  BY <1>0, Forgotten DEF ForgetDeleted
<1>5. /\ disk' \in Disk /\ disk'.files = disk.files /\ disk'.closed = disk.closed /\ disk'.meta = disk.meta
      /\ managed_paths' = managed_paths \ updater[u].deleted /\ disk'.managed = managed_paths'
      /\ unsynced' \subseteq Directory /\ Entries(disk)' \in unsynced'
  BY ForgetDeletedStorage
<1>6. \A e \in unsynced' :
        \/ e \in unsynced
        \/ e.files = disk.files /\ e.meta = disk.meta /\ e.managed = managed_paths'
  BY ForgetDeletedStorage
<1>7. updater[u].deleted # {} => \A e \in unsynced' : e.meta = disk.meta
  BY ForgetDeletedStorage
<1>8. PICK old \in unsynced : old.files = disk.files /\ old.managed = disk.managed /\ old.meta = disk.meta
  BY <1>0 DEF Listed, Entries
<1>9. SameMetas
  BY <1>6, <1>8 DEF SameMetas
<1>10. /\ \A f \in updater[u].deleted : f \notin disk.files
       /\ \A t \in Threads : \A f \in WrittenBy(t) : f \notin updater[u].deleted
  BY <1>0 DEF Doom
<1>11. (\A t : WrittenBy(t)' = WrittenBy(t)) /\ (\A s, d : Marked(s, d)' => Marked(s, d))
       /\ \A g : Made(g)' = Made(g)
  BY <1>1, <1>5 DEF WrittenBy, Marked, Made
<1>12. (\A g : Doomed(g)' = Doomed(g)) /\ Stays' = Stays
  <2>1. \A g : Doomed(g)' = Doomed(g)
    BY <1>4 DEF Doomed, Effect
  <2>2. QED
    BY <1>5, <2>1 DEF Stays
<1>13. Listed'
  <2>1. \A g \in managed_paths : Made(g)
    BY <1>0, <1>8 DEF Listed
  <2>2. disk.files \subseteq managed_paths'
    <3>1. current # 0
      BY <1>2 DEF Writers
    <3>2. disk.files \subseteq managed_paths
      BY <1>0, <1>8, <3>1 DEF Listed
    <3>3. QED
      BY <1>5, <1>10, <3>2
  <2>3. \A e \in unsynced' : e.files \subseteq e.managed /\ \A g \in e.managed : Made(g)
    BY <1>0, <1>5, <1>6, <2>1, <2>2 DEF Listed
  <2>4. QED
    BY <1>0, <1>1, <1>5, <1>11, <2>3 DEF Listed
<1>14. Published'
  <2>1. Named(disk.meta.segments, Stays') /\ Named(disk.meta.segments, disk.files)
    BY <1>0, <1>12 DEF Published, Named, Stays
  <2>2. Newer(disk.meta.segments)'
    BY <1>0, <1>5, <1>9, OldMetas DEF Published, Newer
  <2>3. \A v \in Writers : v = current => updater'[v].active = disk.meta
    BY <1>0, <1>4 DEF Published, Effect
  <2>4. \A e \in unsynced' :
          /\ Named(disk.meta.segments, e.files) /\ Named(e.meta.segments, e.files)
          /\ Named(e.meta.segments, disk.closed) /\ OneEach(e.meta.segments)
          /\ e.meta.opstamp =< MaxOpstamp /\ \A m \in e.meta.segments : m.del =< e.meta.opstamp
    BY <1>0, <1>6, <1>8, <2>1 DEF Published
  <2>5. \A e \in unsynced' : Named(e.meta.segments, managed_paths')
    <3>1. CASE updater[u].deleted = {}
      <4>1. managed_paths' = disk.managed
        <5>1. current # 0
          BY <1>2 DEF Writers
        <5>2. QED
          BY <1>0, <1>5, <3>1, <5>1 DEF Listed
      <4>2. QED
        BY <1>0, <1>6, <1>8, <4>1 DEF Published
    <3>2. CASE updater[u].deleted # {}
      <4>1. disk.files \subseteq managed_paths'
        BY <1>5, <1>13 DEF Listed, Entries
      <4>2. QED
        BY <1>7, <2>1, <3>2, <4>1 DEF Named
    <3>3. QED
      BY <3>1, <3>2
  <2>6. QED
    BY <1>1, <1>5, <2>1, <2>2, <2>3, <2>4, <2>5 DEF Published, Named, OneEach
<1>15. WritingOK'
  <2>1. ASSUME NEW t \in Threads, writing[t] # None
        PROVE  /\ writing[t].file \notin updater[u].deleted
               /\ \/ writing[t].at \notin {"register", "create"}
                  \/ writing[t].file \in disk.files
                  \/ \A e \in unsynced' : ~Names(e.meta.segments, writing[t].file)
    BY <1>0, <1>6, <1>8, <1>10, <2>1 DEF WritingOK, WrittenBy
  <2>2. QED
    BY <1>0, <1>1, <1>5, <1>11, <2>1 DEF WritingOK, Names
<1>16. Doom'
  <2>1. ASSUME NEW v \in Writers
        PROVE  /\ updater'[v].step # "delete" => updater'[v].gc = {} /\ updater'[v].deleted = {}
               /\ updater'[v].gc \subseteq managed_paths' /\ updater'[v].deleted \subseteq managed_paths'
               /\ \A g \in updater'[v].deleted : g \notin disk'.files
               /\ \A t \in Threads : \A g \in WrittenBy(t) : g \notin updater'[v].gc /\ g \notin updater'[v].deleted
    <3>1. CASE v = u
      BY <1>1, <1>4, <3>1 DEF Effect
    <3>2. CASE v # u
      <4>1. updater[v].step = "idle"
        BY <1>2, <3>2, Works
      <4>2. QED
        BY <1>0, <1>4, <3>2, <4>1 DEF Doom, Effect
    <3>3. QED
      BY <3>1, <3>2
  <2>2. QED
    BY <1>0, <1>1, <1>5, <1>11, <1>12, <2>1 DEF Doom
<1>17. KeepsOf(u)'
  BY <1>1, <1>2, <1>3, <1>4, <1>11, <1>12 DEF KeepsOf, Effect, Named
<1>18. PICK M \in Merge, st \in Nat : M = merge[u] /\ st = stamper
  BY <1>0, <1>1, Types
<1>19. StillOf(u)' /\ Apart(u)' /\ SegsOf(u)' /\ QueueOf(u)' /\ MergeOf(u, M, st)'
  <2>1. MergeKept(u, M)'
    BY <1>1, <1>2, <1>12, <1>18, StillKept
  <2>2. QED
    BY <1>1, <1>2, <1>4, <1>9, <1>11, <1>18, <2>1, Settled
<1>20. /\ merge' \in [Writers -> Merge] /\ \A v \in Writers : v # u => merge'[v] = merge[v]
       /\ stamper' \in 0 .. MaxOpstamp + 1
       /\ MergeOf(u, merge[u], stamper)'
  <2>1. CASE consider_merge_options(u)
    <3>1. /\ Named(updater[u].uncommitted, Stays)' /\ Named(updater[u].committed, Stays)'
          /\ OneEach(updater[u].uncommitted)' /\ OneEach(updater[u].committed)'
          /\ \A m \in updater'[u].uncommitted : m.del =< updater'[u].active.opstamp
          /\ worker'[u] # None => Pending(u, worker[u])'
      BY <1>1, <1>2, <1>17, <1>19 DEF KeepsOf, SegsOf
    <3>2. updater' \in [Writers -> Updater] /\ updater'[u].step # "purge" /\ updater'[u].active.opstamp =< MaxOpstamp
      BY <1>3, <1>4 DEF Effect
    <3>3. QED
      BY <1>0, <1>18, <1>19, <2>1, <3>1, <3>2, MergeConsidered
  <2>2. CASE UNCHANGED <<merge, stamper>>
    BY <1>0, <1>18, <1>19, <2>2 DEF Shape, MergeOf
  <2>3. QED
    BY <1>1, <2>1, <2>2
<1>22. Shape'
  <2>1. managed_paths' \subseteq FileNames
    BY <1>0, <1>5 DEF Shape
  <2>2. QED
    BY <1>0, <1>1, <1>4, <1>5, <1>20, <2>1 DEF Shape, Effect
<1>23. OthersSame(u)
  BY <1>1, <1>4, <1>20 DEF OthersSame, Effect
<1>24. QED
  BY <1>1, <1>2, <1>12, <1>13, <1>14, <1>15, <1>16, <1>17, <1>19, <1>20, <1>22, <1>23, Assembled

-----------------------------------------------------------------------------
(* Steps that begin a file or let go of a finished one.                      *)
LEMMA MadeSegs ==
  ASSUME IInv, NEW t \in Threads, NEW metas, metas \subseteq Metas, Named(metas, Stays \cup WrittenBy(t))
  PROVE  \A m \in metas : m.seg \in 1 .. next_seg - 1
<1> SUFFICES ASSUME NEW m \in metas PROVE m.seg \in 1 .. next_seg - 1
  OBVIOUS
<1>1. File(m.seg, 0) \in disk.closed \/ (writing[t] # None /\ File(m.seg, 0) = writing[t].file)
  BY DEF Named, Stays, WrittenBy
<1>2. Made(File(m.seg, 0))
  BY <1>1 DEF IInv, Listed, WritingOK
<1>3. PICK s \in 1 .. next_seg - 1, d \in 0 .. MaxOpstamp : File(m.seg, 0) = File(s, d)
  BY <1>2 DEF Made
<1>4. QED
  BY <1>3, FileInj

\* Every segment of the open writer was made.
LEMMA MadeAll ==
  ASSUME IInv, NEW u \in Writers, u = current
  PROVE  /\ \A m \in updater[u].uncommitted : m.seg \in 1 .. next_seg - 1
         /\ \A m \in updater[u].committed : m.seg \in 1 .. next_seg - 1
         /\ \A m \in updater[u].entries : m.seg \in 1 .. next_seg - 1
         /\ \A m \in merge[u].sources : m.seg \in 1 .. next_seg - 1
         /\ merge[u].merged # None => merge[u].merged.seg \in 1 .. next_seg - 1
         /\ worker[u] # None => worker[u].seg \in 1 .. next_seg - 1
<1>1. KeepsOf(u) /\ Sources(u, merge[u]) /\ Result(u, merge[u])
  BY Parts DEF MergeOf
<1>2. /\ updater[u].uncommitted \subseteq Metas /\ updater[u].committed \subseteq Metas
      /\ updater[u].entries \subseteq Metas /\ merge[u].sources \subseteq Metas
      /\ merge[u].merged # None => {merge[u].merged} \subseteq Metas
      /\ worker[u] # None => {worker[u]} \subseteq Metas
  BY Types DEF Merge, IInv
<1>3. <<u, "worker">> \in Threads /\ <<u, "updater">> \in Threads /\ <<u, "merge">> \in Threads
  BY ThreadNames
<1>4. Named(updater[u].uncommitted, Stays \cup WrittenBy(<<u, "updater">>))
      /\ Named(updater[u].committed, Stays \cup WrittenBy(<<u, "updater">>))
  BY <1>1 DEF KeepsOf, Named
<1>5. /\ \A m \in updater[u].uncommitted : m.seg \in 1 .. next_seg - 1
      /\ \A m \in updater[u].committed : m.seg \in 1 .. next_seg - 1
  BY <1>2, <1>3, <1>4, MadeSegs
<1>6. \A m \in updater[u].entries : m.seg \in 1 .. next_seg - 1
  BY <1>1, <1>2, <1>3, MadeSegs DEF KeepsOf
<1>7. \A m \in merge[u].sources : m.seg \in 1 .. next_seg - 1
  BY <1>1, <1>2, <1>3, MadeSegs DEF Sources
<1>8. ASSUME merge[u].merged # None PROVE merge[u].merged.seg \in 1 .. next_seg - 1
  <2>1. \A m \in {merge[u].merged} : m.seg \in 1 .. next_seg - 1
    BY <1>1, <1>2, <1>3, <1>8, MadeSegs DEF Result, Over
  <2>2. QED
    BY <2>1
<1>9. ASSUME worker[u] # None PROVE worker[u].seg \in 1 .. next_seg - 1
  <2>1. \A m \in {worker[u]} : m.seg \in 1 .. next_seg - 1
    BY <1>1, <1>2, <1>3, <1>9, MadeSegs DEF KeepsOf
  <2>2. QED
    BY <2>1
<1>10. QED
  BY <1>5, <1>6, <1>7, <1>8, <1>9

LEMMA Unmade ==
  ASSUME IInv
  PROVE  /\ \A d : File(next_seg, d) \notin managed_paths /\ File(next_seg, d) \notin disk.files
         /\ \A d : ~Marked(next_seg, d)
         /\ \A e \in unsynced : \A m \in e.meta.segments : m.seg # next_seg
<1>1. next_seg \in Nat /\ \A d : ~Made(File(next_seg, d))
  BY FileInj DEF IInv, Shape, Made
<1>2. \A f : f \in managed_paths \/ f \in disk.files => Made(f)
  BY DEF IInv, Listed, Entries
<1>3. \A t \in Threads : \A f \in WrittenBy(t) : Made(f)
  BY DEF IInv, WritingOK, WrittenBy
<1>4. \A d : ~Marked(next_seg, d)
  BY <1>1, <1>2, <1>3 DEF Marked
<1>5. ASSUME NEW e \in unsynced, NEW m \in e.meta.segments PROVE m.seg # next_seg
  <2>1. File(m.seg, 0) \in e.managed
    BY <1>5 DEF IInv, Published, Listed, Named
  <2>2. Made(File(m.seg, 0))
    BY <2>1 DEF IInv, Listed
  <2>3. QED
    BY <1>1, <2>2
<1>6. QED
  BY <1>1, <1>2, <1>4, <1>5

\* What the start and the end of a file have in common.
Handled(t) ==
  /\ UNCHANGED <<disk, unsynced, managed_paths, current, reader>>
  /\ next_seg \in Nat /\ next_seg' \in Nat /\ next_seg =< next_seg'
  /\ \A v \in Writers :
       /\ updater'[v].gc = updater[v].gc /\ updater'[v].deleted = updater[v].deleted
       /\ updater'[v].active = updater[v].active
       /\ updater[v].step = "delete" => updater'[v].step = "delete"
  /\ writing' \in [Threads -> Writing \cup {None}]
  /\ \A s \in Threads : s # t => writing'[s] = writing[s]

LEMMA HandledFiles ==
  ASSUME IInv, NEW t \in Threads, Handled(t)
  PROVE  /\ Listed' /\ Published' /\ Stays' = Stays
         /\ \A f : Made(f) => Made(f)'
         /\ \A f : Doomed(f)' = Doomed(f)
         /\ \A s \in Threads : s # t => WrittenBy(s)' = WrittenBy(s)
         /\ \A metas : Newer(metas)' = Newer(metas)
<1>0. Listed /\ Published
  BY DEF IInv
<1>1. /\ UNCHANGED <<disk, unsynced, managed_paths, current, reader>>
      /\ next_seg \in Nat /\ next_seg' \in Nat /\ next_seg =< next_seg'
  BY DEF Handled
<1>2. \A f : Made(f) => Made(f)'
  BY <1>1 DEF Made
<1>3. \A f : Doomed(f)' = Doomed(f)
  BY DEF Doomed, Handled
<1>4. Stays' = Stays /\ \A metas : Newer(metas)' = Newer(metas)
  BY <1>1, <1>3 DEF Stays, Newer
<1>5. Listed'
  BY <1>0, <1>1, <1>2 DEF Listed, Entries
<1>6. Published'
  <2>1. \A v \in Writers : updater'[v].active = updater[v].active
    BY DEF Handled
  <2>2. QED
    BY <1>0, <1>1, <1>4, <2>1 DEF Published, Named, OneEach
<1>7. \A s \in Threads : s # t => WrittenBy(s)' = WrittenBy(s)
  BY DEF Handled, WrittenBy
<1>8. QED
  BY <1>2, <1>3, <1>4, <1>5, <1>6, <1>7

LEMMA HandledDoom ==
  ASSUME IInv, NEW t \in Threads, Handled(t),
         \A f \in WrittenBy(t)' : \A v \in Writers : f \notin updater[v].gc /\ f \notin updater[v].deleted
  PROVE  Doom'
<1>1. /\ UNCHANGED <<disk, unsynced, managed_paths, reader>>
      /\ \A v \in Writers : updater'[v].gc = updater[v].gc /\ updater'[v].deleted = updater[v].deleted
  BY DEF Handled
<1>2. (\A f : Doomed(f)' = Doomed(f)) /\ \A s \in Threads : s # t => WrittenBy(s)' = WrittenBy(s)
  BY HandledFiles
<1>3. ASSUME NEW v \in Writers, NEW s \in Threads, NEW f \in WrittenBy(s)'
      PROVE  f \notin updater'[v].gc /\ f \notin updater'[v].deleted
  <2>1. CASE s = t
    BY <1>1, <1>3, <2>1
  <2>2. CASE s # t
    BY <1>1, <1>2, <1>3, <2>2 DEF IInv, Doom
  <2>3. QED
    BY <2>1, <2>2
<1>4. ASSUME NEW v \in Writers
      PROVE  /\ updater'[v].step # "delete" => updater'[v].gc = {} /\ updater'[v].deleted = {}
             /\ updater'[v].gc \subseteq managed_paths' /\ updater'[v].deleted \subseteq managed_paths'
             /\ \A f \in updater'[v].deleted : f \notin disk'.files
  <2>1. updater[v].step = "delete" => updater'[v].step = "delete"
    BY DEF Handled
  <2>2. QED
    BY <1>1, <2>1 DEF IInv, Doom
<1>5. \A r \in Readers : reader'[r] # None => \A f \in reader'[r] : f \in disk'.files /\ ~Doomed(f)'
  BY <1>1, <1>2 DEF IInv, Doom
<1>6. QED
  BY <1>3, <1>4, <1>5 DEF Doom

LEMMA Begun ==
  ASSUME IInv, NEW t \in Threads, NEW f \in FileNames, Handled(t), Write(t, f), Made(f)',
         writing[t] = None,
         f \in disk.files \/ \A e \in unsynced : ~Names(e.meta.segments, f),
         \A v \in Writers : f \notin updater[v].gc /\ f \notin updater[v].deleted
  PROVE  /\ WritingOK' /\ Doom'
         /\ WrittenBy(t)' = {f} /\ writing'[t] # None
         /\ \A s, d : Marked(s, d)' => Marked(s, d) \/ File(s, d) = f
<1>1. UNCHANGED <<disk, unsynced, managed_paths>> /\ \A s \in Threads : s # t => writing'[s] = writing[s]
  BY DEF Handled
<1>2. writing'[t] = [file |-> f, at |-> "register"]
  BY DEF IInv, Shape, Write
<1>3. writing'[t] # None /\ writing'[t].file = f /\ writing'[t].at = "register"
  <2>1. [file |-> f, at |-> "register"] \in Writing
    BY DEF Writing
  <2>2. QED
    BY <1>2, <2>1 DEF Writing, FileNames
<1>4. WrittenBy(t)' = {f}
  BY <1>3 DEF WrittenBy
<1>5. Doom'
  BY <1>4, HandledDoom
<1>6. WritingOK'
  <2>1. \A g : Made(g) => Made(g)'
    BY HandledFiles
  <2>2. f \in disk.files \/ \A e \in unsynced' : ~Names(e.meta.segments, f)'
    BY <1>1 DEF Names
  <2>3. QED
    BY <1>1, <1>3, <2>1, <2>2 DEF IInv, WritingOK, Names
<1>7. \A s, d : Marked(s, d)' => Marked(s, d) \/ File(s, d) = f
  BY <1>1, <1>4, HandledFiles DEF Marked
<1>8. QED
  BY <1>3, <1>4, <1>5, <1>6, <1>7

LEMMA Released ==
  ASSUME IInv, NEW t \in Threads, Handled(t), writing'[t] = None
  PROVE  /\ WritingOK' /\ Doom'
         /\ WrittenBy(t)' = {}
         /\ \A s, d : Marked(s, d)' => Marked(s, d)
<1>1. UNCHANGED <<disk, unsynced, managed_paths>> /\ \A s \in Threads : s # t => writing'[s] = writing[s]
  BY DEF Handled
<1>2. WrittenBy(t)' = {}
  BY DEF WrittenBy
<1>3. Doom'
  BY <1>2, HandledDoom
<1>4. WritingOK'
  <2>1. \A g : Made(g) => Made(g)'
    BY HandledFiles
  <2>2. QED
    BY <1>1, <2>1 DEF IInv, WritingOK, Names
<1>5. \A s, d : Marked(s, d)' => Marked(s, d)
  BY <1>1, <1>2, HandledFiles DEF Marked
<1>6. QED
  BY <1>2, <1>3, <1>4, <1>5

\* The files that a finished thread lets go of stay.
LEMMA FinishedStays ==
  ASSUME IInv, NEW t \in Threads, Finished(t)
  PROVE  WrittenBy(t) \subseteq Stays
<1>1. writing[t].file \in disk.files /\ writing[t].file \in disk.closed
  BY DEF IInv, WritingOK, Finished
<1>2. ~Doomed(writing[t].file)
  BY DEF IInv, Doom, Doomed, Finished, WrittenBy
<1>3. QED
  BY <1>1, <1>2 DEF Stays, WrittenBy

LEMMA OtherThreads ==
  ASSUME NEW u \in Writers, NEW kind \in {"worker", "updater", "merge"}, NEW t, t = <<u, kind>>, Handled(t)
  PROVE  /\ t \in Threads
         /\ \A k \in {"worker", "updater", "merge"} : k # kind => writing'[<<u, k>>] = writing[<<u, k>>]
         /\ \A v \in Writers : v # u => /\ writing'[<<v, "worker">>] = writing[<<v, "worker">>]
                                        /\ writing'[<<v, "updater">>] = writing[<<v, "updater">>]
                                        /\ writing'[<<v, "merge">>] = writing[<<v, "merge">>]
<1>1. \A s \in Threads : s # t => writing'[s] = writing[s]
  BY DEF Handled
<1>2. \A v \in Writers : \A k \in {"worker", "updater", "merge"} : <<v, k>> \in Threads
  BY DEF Threads
<1>3. \A v \in Writers : \A k \in {"worker", "updater", "merge"} : <<v, k>> = t => v = u /\ k = kind
  OBVIOUS
<1>4. QED
  BY <1>1, <1>2, <1>3

LEMMA NewSegmentStep ==
  ASSUME IInv, NEW u \in Writers, NewSegment(u)
  PROVE  IInv'
<1> DEFINE t == <<u, "worker">>
           f == File(next_seg, 0)
           w == Fresh(next_seg)
<1>0. Shape /\ Listed /\ Published /\ WritingOK /\ Doom
  BY DEF IInv
<1>1. /\ u = current /\ worker[u] = None /\ next_seg =< MaxSegments /\ next_seg' = next_seg + 1
      /\ worker' = [worker EXCEPT ![u] = w] /\ Write(t, f)
      /\ UNCHANGED <<disk, unsynced, managed_paths, current, opened, stamper, updater, merge, reader>>
  BY DEF NewSegment, Open, storage
<1>2. /\ StillOf(u) /\ KeepsOf(u) /\ Apart(u) /\ SegsOf(u) /\ QueueOf(u) /\ TaskOf(u)
      /\ MergeOf(u, merge[u], stamper)
  BY <1>1, Parts
<1>3. next_seg \in Nat /\ next_seg >= 1 /\ t \in Threads /\ writing[t] = None
  <2>1. next_seg \in Nat /\ next_seg >= 1
    BY <1>0 DEF Shape
  <2>2. t \in Threads /\ writing[t] = None
    BY <1>1, <1>2, ThreadNames DEF StillOf
  <2>3. QED
    BY <2>1, <2>2
<1>4. /\ w \in Metas /\ w.seg = next_seg /\ w.del = 0 /\ w # None /\ f \in FileNames
      /\ File(w.seg, 0) = f /\ File(w.seg, w.del) = f
  BY <1>3 DEF Fresh, Metas, File, FileNames
<1>5. PICK g \in FileNames, n \in Metas, o \in Threads : g = f /\ n = w /\ o = t
  BY <1>3, <1>4
<1>6. /\ worker' \in [Writers -> Metas \cup {None}] /\ worker'[u] = n
      /\ \A v \in Writers : v # u => worker'[v] = worker[v]
  BY <1>0, <1>1, <1>4, <1>5 DEF Shape
<1>7. Handled(o)
  <2>1. [file |-> g, at |-> "register"] \in Writing
    BY DEF Writing
  <2>2. writing' \in [Threads -> Writing \cup {None}] /\ \A s \in Threads : s # o => writing'[s] = writing[s]
    BY <1>0, <1>1, <1>5, <2>1 DEF Shape, Write
  <2>3. QED
    BY <1>1, <1>3, <2>2 DEF Handled
<1>8. Made(g)'
  BY <1>1, <1>3, <1>5 DEF Made
<1>9. /\ g \notin managed_paths /\ g \notin disk.files
      /\ \A e \in unsynced : \A m \in e.meta.segments : m.seg # n.seg
      /\ \A d : ~Marked(n.seg, d)
  BY <1>4, <1>5, Unmade
<1>10. \A e \in unsynced : ~Names(e.meta.segments, g)
  BY <1>4, <1>5, <1>9, FileInj DEF Names
<1>11. \A v \in Writers : g \notin updater[v].gc /\ g \notin updater[v].deleted
  BY <1>0, <1>9 DEF Doom
<1>12. /\ WritingOK' /\ Doom' /\ WrittenBy(o)' = {g} /\ writing'[o] # None
       /\ \A s, d : Marked(s, d)' => Marked(s, d) \/ File(s, d) = g
  BY <1>1, <1>3, <1>5, <1>7, <1>8, <1>10, <1>11, Begun
<1>13. /\ Listed' /\ Published' /\ Stays' = Stays
       /\ \A metas : Newer(metas)' = Newer(metas)
  BY <1>7, HandledFiles
<1>14. /\ \A k \in {"worker", "updater", "merge"} : k # "worker" => writing'[<<u, k>>] = writing[<<u, k>>]
       /\ \A v \in Writers : v # u => /\ writing'[<<v, "worker">>] = writing[<<v, "worker">>]
                                      /\ writing'[<<v, "updater">>] = writing[<<v, "updater">>]
                                      /\ writing'[<<v, "merge">>] = writing[<<v, "merge">>]
  BY <1>5, <1>7, OtherThreads
<1>15. WrittenBy(<<u, "updater">>)' = WrittenBy(<<u, "updater">>) /\ WrittenBy(<<u, "merge">>)' = WrittenBy(<<u, "merge">>)
  BY <1>14 DEF WrittenBy
<1>16. \A d \in Nat : Marked(n.seg, d)' => d = 0
  BY <1>4, <1>5, <1>9, <1>12, FileInj
<1>17. Shape'
  <2>1. next_seg' \in 1 .. MaxSegments + 1
    BY <1>1, <1>3
  <2>2. writing' \in [Threads -> Writing \cup {None}]
    BY <1>7 DEF Handled
  <2>3. QED
    BY <1>0, <1>1, <1>6, <2>1, <2>2 DEF Shape
<1>18. StillOf(u)' /\ OthersSame(u) /\ Apart(u)'
  BY <1>1, <1>2, <1>4, <1>5, <1>6, <1>14 DEF StillOf, OthersSame, Apart
<1>19. KeepsOf(u)'
  <2>1. Named({n}, Stays' \cup WrittenBy(<<u, "worker">>)')
    BY <1>4, <1>5, <1>12 DEF Named
  <2>2. QED
    BY <1>1, <1>2, <1>6, <1>13, <1>15, <2>1 DEF KeepsOf, Named
<1>20. /\ \A m \in updater[u].uncommitted : m.seg # n.seg
       /\ \A m \in updater[u].committed : m.seg # n.seg
       /\ \A m \in updater[u].entries : m.seg # n.seg
       /\ \A m \in merge[u].sources : m.seg # n.seg
       /\ merge[u].merged # None => merge[u].merged.seg # n.seg
  BY <1>1, <1>3, <1>4, <1>5, MadeAll
<1>21. Pending(u, n)'
  BY <1>1, <1>4, <1>5, <1>9, <1>20 DEF Pending
<1>22. SegsOf(u)'
  <2>1. Newer(updater[u].uncommitted)' /\ Newer(updater[u].committed)' /\ Newer(updater[u].entries)'
    BY <1>1, <1>2 DEF SegsOf, Newer
  <2>2. worker'[u] # None => Pending(u, worker[u])'
    BY <1>1, <1>6, <1>21 DEF Pending
  <2>3. \A d \in Nat : Marked(worker[u].seg, d)' => d = 0
    BY <1>6, <1>16 DEF Marked
  <2>4. QED
    BY <1>1, <1>2, <1>6, <1>20, <2>1, <2>2, <2>3 DEF SegsOf, OneEach
<1>23. PICK M \in Merge, st \in Nat : M = merge[u] /\ st = stamper /\ M = merge'[u] /\ st = stamper'
  BY <1>0, <1>1, Types
<1>24. Sources(u, M) /\ Result(u, M) /\ Stamps(u, M, st)
  BY <1>2, <1>23 DEF MergeOf
<1>25. Sources(u, M)'
  <2>1. \A m \in M.todo : ~Marked(m.seg, M.target)' /\ m.seg # n.seg
    BY <1>4, <1>5, <1>12, <1>20, <1>23, <1>24, FileInj DEF Sources
  <2>2. QED
    BY <1>1, <1>6, <1>13, <1>14, <1>15, <1>24, <2>1 DEF Sources, Named
<1>26. Result(u, M)'
  <2>1. M.merged # None => Pending(u, M.merged)'
    BY <1>1, <1>24 DEF Result, Over, Pending
  <2>2. ASSUME M.merged # None, NEW d \in Nat, Marked(M.merged.seg, d)' PROVE Marked(M.merged.seg, d)
    BY <1>4, <1>5, <1>12, <1>20, <1>23, <2>2, FileInj
  <2>3. EndingMerge(u)' = EndingMerge(u)
    BY <1>1 DEF EndingMerge
  <2>4. QED
    BY <1>1, <1>6, <1>13, <1>14, <1>15, <1>20, <1>23, <1>24, <2>1, <2>2, <2>3 DEF Result, Over, Named
<1>27. Stamps(u, M, st)'
  <2>1. ASSUME NEW m \in updater[u].uncommitted, NEW d \in Nat, Marked(m.seg, d)' PROVE Marked(m.seg, d)
    BY <1>4, <1>5, <1>12, <1>20, <2>1, FileInj
  <2>2. QED
    BY <1>1, <1>24, <2>1 DEF Stamps
<1>28. ASSUME NEW i \in Queued(u)'
       PROVE  ItemOf(u, i)' /\ EndItem(u, M, i)' /\ StampItem(u, M, st, i)'
  <2>1. i \in Queued(u) /\ \A kind : IsTask(u, i, kind)' = IsTask(u, i, kind)
    BY <1>1, SameQueue
  <2>2. ItemOf(u, i) /\ EndItem(u, M, i) /\ StampItem(u, M, st, i)
    BY <1>2, <1>23, <2>1 DEF QueueOf, MergeOf
  <2>3. ItemOf(u, i)'
    BY <1>1, <2>1, <2>2 DEF ItemOf
  <2>4. EndItem(u, M, i)' /\ StampItem(u, M, st, i)'
    BY <1>1, <1>14, <2>1, <2>2 DEF EndItem, Over, StampItem, EndingMerge
  <2>5. QED
    BY <2>3, <2>4
<1>29. TaskOf(u)'
  BY <1>1, <1>2, <1>14 DEF TaskOf, EndingMerge
<1>30. QueueOf(u)' /\ MergeOf(u, M, st)'
  BY <1>1, <1>25, <1>26, <1>27, <1>28, <1>29, SameQueue DEF QueueOf, MergeOf
<1>31. MergeOf(u, merge[u], stamper)'
  BY <1>23, <1>30 DEF MergeOf
<1>32. QED
  BY <1>1, <1>12, <1>13, <1>17, <1>18, <1>19, <1>22, <1>30, <1>31, Assembled

(* A step of the merging thread: the merge of the open writer becomes M, its *)
(* thread begins a file or lets go of one, and nothing else changes.         *)
LEMMA MergeThread ==
  ASSUME IInv, NEW u \in Writers, u = current, NEW t \in Threads, t = <<u, "merge">>, Handled(t),
         UNCHANGED <<opened, stamper, updater, worker>>, WritingOK', Doom',
         next_seg' \in 1 .. MaxSegments + 1,
         NEW M \in Merge, merge' = [merge EXCEPT ![u] = M],
         NEW st \in Nat, st = stamper,
         writing'[t] # None => M # NoMerge,
         Sources(u, M)', Result(u, M)', Stamps(u, M, st)',
         \A i \in Queued(u) : EndItem(u, M, i)' /\ StampItem(u, M, st, i)',
         worker[u] # None => \A d \in Nat : Marked(worker[u].seg, d)' => d = 0
  PROVE  IInv'
<1>1. /\ StillOf(u) /\ KeepsOf(u) /\ Apart(u) /\ SegsOf(u) /\ QueueOf(u) /\ TaskOf(u)
  BY Parts
<1>2. UNCHANGED <<disk, unsynced, managed_paths, current, reader>>
      /\ writing' \in [Threads -> Writing \cup {None}]
  BY DEF Handled
<1>3. /\ \A k \in {"worker", "updater", "merge"} : k # "merge" => writing'[<<u, k>>] = writing[<<u, k>>]
      /\ \A v \in Writers : v # u => /\ writing'[<<v, "worker">>] = writing[<<v, "worker">>]
                                     /\ writing'[<<v, "updater">>] = writing[<<v, "updater">>]
                                     /\ writing'[<<v, "merge">>] = writing[<<v, "merge">>]
  BY OtherThreads
<1>4. Listed' /\ Published' /\ Stays' = Stays
  BY HandledFiles
<1>5. merge' \in [Writers -> Merge] /\ merge'[u] = M /\ \A v \in Writers : v # u => merge'[v] = merge[v]
  BY DEF IInv, Shape
<1>6. Shape'
  BY <1>2, <1>5 DEF IInv, Shape
<1>7. StillOf(u)' /\ OthersSame(u) /\ Apart(u)'
  BY <1>1, <1>2, <1>3, <1>5 DEF StillOf, OthersSame, Apart
<1>8. KeepsOf(u)'
  BY <1>1, <1>2, <1>3, <1>4 DEF KeepsOf, Named, WrittenBy
<1>9. SegsOf(u)'
  <2>1. Newer(updater[u].uncommitted)' /\ Newer(updater[u].committed)' /\ Newer(updater[u].entries)'
    BY <1>1, <1>2 DEF SegsOf, Newer
  <2>2. worker'[u] # None => Pending(u, worker[u])'
    BY <1>1, <1>2 DEF SegsOf, Pending
  <2>3. worker'[u] # None => \A d \in Nat : Marked(worker[u].seg, d)' => d = 0
    OBVIOUS
  <2>4. QED
    BY <1>1, <2>1, <2>2, <2>3 DEF SegsOf, OneEach
<1>10. \A i \in Queued(u)' : ItemOf(u, i)'
  BY <1>1, <1>3 DEF QueueOf, ItemOf, Queued, IsTask
<1>11. TaskOf(u)'
  BY <1>1, <1>3 DEF TaskOf, EndingMerge
<1>12. QueueOf(u)' /\ MergeOf(u, M, st)'
  BY <1>10, <1>11, SameQueue DEF QueueOf, MergeOf
<1>13. MergeOf(u, merge[u], stamper)'
  BY <1>5, <1>12 DEF MergeOf
<1>14. QED
  BY <1>2, <1>4, <1>6, <1>7, <1>8, <1>9, <1>12, <1>13, Assembled

LEMMA MergeFinishedStep ==
  ASSUME IInv, NEW u \in Writers, MergeAdvanced(u), ~Failed(<<u, "merge">>)
  PROVE  IInv'
<1>0. Shape
  BY DEF IInv
<1>1. /\ merge[u].merged = None /\ Finished(<<u, "merge">>) /\ writing[<<u, "merge">>] # None
      /\ writing' = [writing EXCEPT ![<<u, "merge">>] = None]
      /\ UNCHANGED <<disk, unsynced, managed_paths, current, opened, stamper, updater, worker, merge, reader,
                     next_seg>>
  BY DEF MergeAdvanced, Ended, Failed, Finished, storage
<1>2. u = current
  BY <1>1, Works
<1>3. PICK t \in Threads : t = <<u, "merge">>
  BY ThreadNames
<1>4. Handled(t) /\ writing'[t] = None
  BY <1>0, <1>1, <1>3 DEF Handled, Shape
<1>5. WritingOK' /\ Doom' /\ WrittenBy(t)' = {} /\ \A s, d : Marked(s, d)' => Marked(s, d)
  BY <1>4, Released
<1>6. Stays' = Stays /\ WrittenBy(t) \subseteq Stays
  BY <1>1, <1>3, <1>4, HandledFiles, FinishedStays
<1>7. PICK M \in Merge, st \in Nat : M = merge[u] /\ st = stamper
  BY <1>0, Types
<1>8. /\ Sources(u, M) /\ Result(u, M) /\ Stamps(u, M, st) /\ SegsOf(u)
      /\ \A i \in Queued(u) : EndItem(u, M, i) /\ StampItem(u, M, st, i)
  BY <1>2, <1>7, Parts DEF MergeOf
<1>9. merge' = [merge EXCEPT ![u] = M] /\ next_seg' \in 1 .. MaxSegments + 1
  BY <1>0, <1>1, <1>7 DEF Shape
<1>10. Sources(u, M)'
  <2>1. Named(M.sources, Stays')
    BY <1>3, <1>6, <1>8 DEF Sources, Named
  <2>2. QED
    BY <1>1, <1>3, <1>4, <1>5, <1>8, <2>1 DEF Sources, Named
<1>11. Result(u, M)'
  BY <1>1, <1>7, <1>8 DEF Result, Over, EndingMerge
<1>12. Stamps(u, M, st)'
  BY <1>1, <1>5, <1>8 DEF Stamps
<1>13. \A i \in Queued(u) : EndItem(u, M, i)' /\ StampItem(u, M, st, i)'
  BY <1>1, <1>3, <1>7, <1>8 DEF EndItem, Over, StampItem, IsTask, EndingMerge
<1>14. worker[u] # None => \A d \in Nat : Marked(worker[u].seg, d)' => d = 0
  BY <1>1, <1>5, <1>8 DEF SegsOf
<1>15. QED
  BY <1>1, <1>2, <1>3, <1>4, <1>5, <1>7, <1>9, <1>10, <1>11, <1>12, <1>13, <1>14, MergeThread

\* A del file existed: nothing is left of the merge but its files.
LEMMA MergeFailedStep ==
  ASSUME IInv, NEW u \in Writers, MergeAdvanced(u), Failed(<<u, "merge">>)
  PROVE  IInv'
<1>0. Shape
  BY DEF IInv
<1>1. /\ writing[<<u, "merge">>] # None
      /\ merge' = [merge EXCEPT ![u] = NoMerge]
      /\ writing' = [writing EXCEPT ![<<u, "merge">>] = None]
      /\ UNCHANGED <<disk, unsynced, managed_paths, current, opened, stamper, updater, worker, reader, next_seg>>
  BY DEF MergeAdvanced, Ended, storage
<1>2. u = current
  BY <1>1, Works
<1>3. PICK t \in Threads : t = <<u, "merge">>
  BY ThreadNames
<1>4. Handled(t) /\ writing'[t] = None
  BY <1>0, <1>1, <1>3 DEF Handled, Shape
<1>5. WritingOK' /\ Doom' /\ WrittenBy(t)' = {} /\ \A s, d : Marked(s, d)' => Marked(s, d)
  BY <1>4, Released
<1>6. PICK O \in Merge, M \in Merge, st \in Nat : O = merge[u] /\ st = stamper /\ M = NoMerge
  BY <1>0, Types, NoMergeFacts
<1>7. /\ Sources(u, O) /\ Result(u, O) /\ Stamps(u, O, st) /\ SegsOf(u)
      /\ \A i \in Queued(u) : EndItem(u, O, i) /\ StampItem(u, O, st, i)
  BY <1>2, <1>6, Parts DEF MergeOf
<1>8. ~EndingMerge(u) /\ \A i \in Queued(u) : ~IsTask(u, i, "end_merge")
  BY <1>1, <1>7 DEF Result, EndItem, Over
<1>9. Sources(u, M)' /\ Result(u, M)'
  BY <1>1, <1>3, <1>4, <1>6, <1>8, NoMergeFacts DEF Sources, Result, Named, OneEach, EndingMerge
<1>10. Stamps(u, M, st)'
  BY <1>1, <1>5, <1>6, <1>7, NoMergeFacts DEF Stamps
<1>11. \A i \in Queued(u) : EndItem(u, M, i)' /\ StampItem(u, M, st, i)'
  BY <1>1, <1>6, <1>7, <1>8, NoMergeFacts DEF EndItem, StampItem, IsTask
<1>12. worker[u] # None => \A d \in Nat : Marked(worker[u].seg, d)' => d = 0
  BY <1>1, <1>5, <1>7 DEF SegsOf
<1>13. merge' = [merge EXCEPT ![u] = M] /\ next_seg' \in 1 .. MaxSegments + 1
  BY <1>0, <1>1, <1>6 DEF Shape
<1>14. QED
  BY <1>1, <1>2, <1>3, <1>4, <1>5, <1>6, <1>9, <1>10, <1>11, <1>12, <1>13, MergeThread

\* IndexWriter::merge: as when the updater starts a merge, in the middle of its task.
LEMMA MergeSegmentsStep ==
  ASSUME IInv, NoFirst, NEW u \in Writers, MergeSegments(u)
  PROVE  IInv'
<1>0. Shape
  BY DEF IInv
<1>1. /\ u = current /\ merge[u] = NoMerge
      /\ UNCHANGED <<disk, unsynced, managed_paths, current, opened, stamper, updater, worker, writing, reader,
                     next_seg>>
  BY DEF MergeSegments, Open, storage
<1>2. PICK S \in Mergeable(updater[u].uncommitted) \cup Mergeable(updater[u].committed) :
        \E todo \in SUBSET Undeleted(S, updater[u].active.opstamp) :
          start_merge(u, S, todo, updater[u].active.opstamp)
  BY DEF MergeSegments
<1>3. /\ StillOf(u) /\ KeepsOf(u) /\ Apart(u) /\ SegsOf(u) /\ QueueOf(u) /\ MergeOf(u, merge[u], stamper)
      /\ updater[u].active.opstamp \in Nat /\ updater[u].active.opstamp =< MaxOpstamp
  BY <1>1, Parts
<1>4. start_merge(u, S, {}, updater[u].active.opstamp)
  BY <1>2, <1>3 DEF Undeleted, NoFirst
<1>5. Untouched /\ \A v \in Writers : updater'[v] = updater[v]
  BY <1>1 DEF Untouched
<1>6. Listed' /\ Published' /\ WritingOK' /\ Doom'
  BY <1>5, UntouchedRest
<1>7. /\ Stays' = Stays /\ (\A t : WrittenBy(t)' = WrittenBy(t)) /\ (\A s, d : Marked(s, d)' = Marked(s, d))
      /\ \A metas : Newer(metas)' = Newer(metas)
  BY <1>5, UntouchedFiles
<1>8. S \in SUBSET Metas /\ S # {} /\ Named(S, Stays)' /\ OneEach(S)
  <2>1. S # {} /\ (S \subseteq updater[u].uncommitted \/ S \subseteq updater[u].committed)
    BY <1>2 DEF Mergeable
  <2>2. S \in SUBSET Metas
    BY <1>0, <2>1, Types
  <2>3. Named(S, Stays)' /\ OneEach(S)
    BY <1>1, <1>3, <1>7, <2>1 DEF KeepsOf, SegsOf, Named, OneEach
  <2>4. QED
    BY <2>1, <2>2, <2>3
<1>9. PICK st \in Nat, next \in Nat, target \in Nat, T \in SUBSET S :
        /\ st = stamper /\ next = st /\ stamper' = next /\ st =< next
        /\ target = updater[u].active.opstamp /\ T = {}
  <2>1. stamper \in Nat /\ stamper =< stamper /\ stamper' = stamper
    BY <1>0, <1>1, Types
  <2>2. {} \in SUBSET S
    OBVIOUS
  <2>3. QED
    BY <1>3, <2>1, <2>2
<1>10. MergeOf(u, NoMerge, st)'
  BY <1>1, <1>3, <1>7, <1>9 DEF MergeOf, Sources, Result, Over, Pending, EndingMerge, Stamps, EndItem, StampItem,
     IsTask, Queued, Named, OneEach
<1>11. /\ \A m \in updater'[u].uncommitted : m.del \in Nat
       /\ updater'[u].active.opstamp \in Nat /\ updater'[u].task.opstamp \in Nat
       /\ \A i \in Queued(u)' : updater'[u].tasks[i].opstamp \in Nat
  BY <1>0, <1>1, Types DEF Queued
<1>12. start_merge(u, S, T, target) /\ target =< MaxOpstamp
  BY <1>3, <1>4, <1>9
<1>13. /\ merge' \in [Writers -> Merge] /\ \A v \in Writers : v # u => merge'[v] = merge[v]
       /\ MergeOf(u, merge[u], stamper)'
  BY <1>0, <1>1, <1>8, <1>9, <1>10, <1>11, <1>12, MergeStarted
<1>14. Shape' /\ OthersSame(u)
  BY <1>0, <1>1, <1>13 DEF Shape, OthersSame
<1>15. StillOf(u)' /\ KeepsOf(u)' /\ Apart(u)' /\ QueueOf(u)'
  <2>1. StillOf(u)' /\ Apart(u)'
    BY <1>1, <1>3 DEF StillOf, Apart
  <2>2. KeepsOf(u)'
    BY <1>1, <1>3, <1>7 DEF KeepsOf, Named
  <2>3. TaskOf(u)'
    BY <1>1, <1>3 DEF QueueOf, TaskOf, EndingMerge
  <2>4. \A i \in Queued(u)' : ItemOf(u, i)'
    BY <1>1, <1>3 DEF QueueOf, ItemOf, Queued, IsTask
  <2>5. QueueOf(u)'
    BY <1>1, <2>3, <2>4, SameQueue DEF QueueOf
  <2>6. QED
    BY <2>1, <2>2, <2>5
<1>16. SegsOf(u)'
  <2>1. worker'[u] # None => Pending(u, worker[u])'
    BY <1>1, <1>3 DEF SegsOf, Pending
  <2>2. QED
    BY <1>1, <1>3, <1>7, <2>1 DEF SegsOf, OneEach
<1>17. QED
  BY <1>1, <1>6, <1>7, <1>13, <1>14, <1>15, <1>16, Assembled

LEMMA MergeWriteStep ==
  ASSUME IInv, NEW u \in Writers, MergeWrite(u)
  PROVE  IInv'
<1>0. Shape /\ Doom
  BY DEF IInv
<1>1. /\ merge[u] # NoMerge /\ ~merge[u].empty /\ merge[u].merged = None /\ merge[u].todo = {}
      /\ writing[<<u, "merge">>] = None
      /\ next_seg =< MaxSegments /\ next_seg' = next_seg + 1
      /\ merge' = [merge EXCEPT ![u].merged = Fresh(next_seg)] /\ Write(<<u, "merge">>, File(next_seg, 0))
      /\ UNCHANGED <<disk, unsynced, managed_paths, current, opened, stamper, updater, worker, reader>>
  BY DEF MergeWrite, storage
<1>2. u = current
  BY <1>1, Works
<1>3. PICK t \in Threads : t = <<u, "merge">>
  BY ThreadNames
<1>4. next_seg \in Nat /\ next_seg >= 1
  BY <1>0 DEF Shape
<1>5. PICK n \in Metas, f \in FileNames :
        /\ n = Fresh(next_seg) /\ f = File(next_seg, 0) /\ n.seg = next_seg /\ n.del = 0 /\ n # None
        /\ File(n.seg, 0) = f /\ File(n.seg, n.del) = f
  <2>1. /\ Fresh(next_seg) \in Metas /\ Fresh(next_seg).seg = next_seg /\ Fresh(next_seg).del = 0
        /\ File(next_seg, 0) \in FileNames /\ None \notin Metas
    BY <1>4 DEF Fresh, Metas, File, FileNames
  <2>2. QED
    BY <2>1
<1>6. PICK M \in Merge : /\ merge' = [merge EXCEPT ![u] = M] /\ M.merged = n /\ M.todo = {}
                         /\ M.sources = merge[u].sources /\ ~M.empty
  <2> DEFINE M == [merge[u] EXCEPT !.merged = n]
  <2>1. merge[u] \in Merge
    BY <1>0, Types
  <2>2. M \in Merge /\ M.merged = n /\ M.todo = {} /\ M.sources = merge[u].sources /\ ~M.empty
    BY <1>1, <2>1 DEF Merge
  <2>3. merge' = [merge EXCEPT ![u] = M]
    BY <1>1, <1>5
  <2>4. QED
    BY <2>2, <2>3
<1>7. Handled(t)
  <2>1. [file |-> f, at |-> "register"] \in Writing
    BY DEF Writing
  <2>2. writing' \in [Threads -> Writing \cup {None}] /\ \A s \in Threads : s # t => writing'[s] = writing[s]
    BY <1>0, <1>1, <1>3, <1>5, <2>1 DEF Shape, Write
  <2>3. QED
    BY <1>1, <1>4, <2>2 DEF Handled
<1>8. Made(f)'
  BY <1>1, <1>4, <1>5 DEF Made
<1>9. /\ f \notin managed_paths
      /\ \A e \in unsynced : \A m \in e.meta.segments : m.seg # n.seg
      /\ \A d : ~Marked(n.seg, d)
  BY <1>5, Unmade
<1>10. \A e \in unsynced : ~Names(e.meta.segments, f)
  BY <1>5, <1>9, FileInj DEF Names
<1>11. \A v \in Writers : f \notin updater[v].gc /\ f \notin updater[v].deleted
  BY <1>0, <1>9 DEF Doom
<1>12. /\ WritingOK' /\ Doom' /\ WrittenBy(t)' = {f} /\ writing'[t] # None
       /\ \A s, d : Marked(s, d)' => Marked(s, d) \/ File(s, d) = f
  BY <1>1, <1>3, <1>5, <1>7, <1>8, <1>10, <1>11, Begun
<1>13. Stays' = Stays
  BY <1>7, HandledFiles
<1>14. /\ \A m \in updater[u].uncommitted : m.seg # n.seg
       /\ \A m \in updater[u].committed : m.seg # n.seg
       /\ \A m \in updater[u].entries : m.seg # n.seg
       /\ worker[u] # None => worker[u].seg # n.seg
  BY <1>2, <1>4, <1>5, MadeAll
<1>15. PICK st \in Nat : st = stamper
  BY <1>0, Types
<1>16. /\ Sources(u, merge[u]) /\ Result(u, merge[u]) /\ Stamps(u, merge[u], st) /\ SegsOf(u)
       /\ \A i \in Queued(u) : EndItem(u, merge[u], i) /\ StampItem(u, merge[u], st, i)
  BY <1>2, <1>15, Parts DEF MergeOf
<1>17. M # NoMerge
  BY <1>5, <1>6, NoMergeFacts
<1>18. Sources(u, M)'
  <2>1. Named(M.sources, Stays')
    BY <1>1, <1>6, <1>13, <1>16 DEF Sources, Named, WrittenBy
  <2>2. QED
    BY <1>6, <1>17, <2>1 DEF Sources, Named, OneEach
<1>19. ~EndingMerge(u)' /\ ~EndingMerge(u)
  BY <1>1, <1>16 DEF Result, Over, EndingMerge
<1>20. Result(u, M)'
  <2>1. Pending(u, n)'
    BY <1>1, <1>5, <1>9, <1>14 DEF Pending
  <2>2. Named({n}, Stays' \cup WrittenBy(<<u, "merge">>)')
    BY <1>3, <1>5, <1>12 DEF Named
  <2>3. \A d \in Nat : Marked(n.seg, d)' => d = 0
    BY <1>5, <1>9, <1>12, FileInj
  <2>4. QED
    BY <1>1, <1>6, <1>14, <1>19, <2>1, <2>2, <2>3 DEF Result, Over, Named
<1>21. Stamps(u, M, st)'
  <2>1. ASSUME NEW m \in updater[u].uncommitted, NEW d \in Nat, Marked(m.seg, d)' PROVE Marked(m.seg, d)
    BY <1>5, <1>12, <1>14, <2>1, FileInj
  <2>2. QED
    BY <1>1, <1>6, <1>16, <2>1 DEF Stamps
<1>22. \A i \in Queued(u) : EndItem(u, M, i)' /\ StampItem(u, M, st, i)'
  BY <1>1, <1>6, <1>16 DEF EndItem, Over, StampItem, IsTask
<1>23. worker[u] # None => \A d \in Nat : Marked(worker[u].seg, d)' => d = 0
  BY <1>1, <1>5, <1>12, <1>14, <1>16, FileInj DEF SegsOf
<1>24. next_seg' \in 1 .. MaxSegments + 1
  BY <1>1, <1>4
<1>25. QED
  BY <1>1, <1>2, <1>3, <1>6, <1>7, <1>12, <1>15, <1>17, <1>18, <1>20, <1>21, <1>22, <1>23, <1>24, MergeThread

LEMMA MergeAdvanceStep ==
  ASSUME IInv, NEW u \in Writers, MergeAdvance(u)
  PROVE  IInv'
<1>0. Shape /\ Doom /\ Listed /\ Published
  BY DEF IInv
<1>1. PICK m \in merge[u].todo :
        /\ Write(<<u, "merge">>, File(m.seg, merge[u].target))
        /\ merge' = [merge EXCEPT ![u].todo = @ \ {m},
                       ![u].sources = (@ \ {m}) \cup {[m EXCEPT !.del = merge[u].target]}]
  BY DEF MergeAdvance
<1>2. /\ merge[u].merged = None /\ writing[<<u, "merge">>] = None
      /\ UNCHANGED <<disk, unsynced, managed_paths, current, opened, stamper, updater, worker, reader, next_seg>>
  BY DEF MergeAdvance, storage
<1>3. merge[u] # NoMerge
  BY <1>1, NoMergeFacts
<1>4. u = current
  BY <1>3, Works
<1>5. PICK t \in Threads : t = <<u, "merge">>
  BY ThreadNames
<1>6. PICK O \in Merge, st \in Nat : O = merge[u] /\ st = stamper
  BY <1>0, Types
<1>7. /\ Sources(u, O) /\ Result(u, O) /\ Stamps(u, O, st) /\ SegsOf(u)
      /\ \A i \in Queued(u) : EndItem(u, O, i) /\ StampItem(u, O, st, i)
  BY <1>4, <1>6, Parts DEF MergeOf
<1>8. /\ m \in Metas /\ m \in O.sources /\ O.target \in Nat /\ O.target =< MaxOpstamp /\ m.seg \in Nat
      /\ ~Marked(m.seg, O.target) /\ O.sources \subseteq Metas /\ O.todo \subseteq Metas
  BY <1>0, <1>1, <1>6, <1>7, Types DEF Sources
<1>9. PICK n \in Metas, f \in FileNames :
        /\ n = [m EXCEPT !.del = O.target] /\ f = File(m.seg, O.target) /\ n.seg = m.seg /\ n.del = O.target
  <2>1. /\ [m EXCEPT !.del = O.target] \in Metas /\ [m EXCEPT !.del = O.target].seg = m.seg
        /\ [m EXCEPT !.del = O.target].del = O.target /\ File(m.seg, O.target) \in FileNames
    BY <1>8 DEF Metas, File, FileNames
  <2>2. QED
    BY <2>1
<1>10. PICK M \in Merge : /\ merge' = [merge EXCEPT ![u] = M] /\ M.merged = None /\ M.todo = O.todo \ {m}
                          /\ M.sources = (O.sources \ {m}) \cup {n} /\ M.target = O.target /\ ~M.empty /\ ~O.empty
  <2> DEFINE M == [O EXCEPT !.todo = @ \ {m}, !.sources = (@ \ {m}) \cup {n}]
  <2>1. M \in Merge /\ M.merged = None /\ M.todo = O.todo \ {m} /\ M.sources = (O.sources \ {m}) \cup {n}
        /\ M.target = O.target /\ M.empty = O.empty
    BY <1>2, <1>6, <1>8 DEF Merge
  <2>2. merge' = [merge EXCEPT ![u] = M] /\ ~O.empty
    BY <1>1, <1>6, <1>7, <1>9 DEF Sources
  <2>3. QED
    BY <2>1, <2>2
<1>11. Handled(t)
  <2>1. [file |-> f, at |-> "register"] \in Writing
    BY DEF Writing
  <2>2. writing' \in [Threads -> Writing \cup {None}] /\ \A s \in Threads : s # t => writing'[s] = writing[s]
    BY <1>0, <1>1, <1>5, <1>6, <1>9, <2>1 DEF Shape, Write
  <2>3. next_seg \in Nat
    BY <1>0 DEF Shape
  <2>4. QED
    BY <1>2, <2>2, <2>3 DEF Handled
<1>12. Made(f)'
  <2>1. m.seg \in 1 .. next_seg - 1
    BY <1>4, <1>6, <1>8, MadeAll
  <2>2. QED
    BY <1>2, <1>8, <1>9, <2>1 DEF Made
<1>13. f \notin managed_paths
  BY <1>8, <1>9 DEF Marked
<1>14. \A e \in unsynced : ~Names(e.meta.segments, f)
  <2>1. current # 0
    BY <1>4 DEF Writers
  <2>2. managed_paths = disk.managed
    BY <1>0, <2>1 DEF Listed
  <2>3. \A e \in unsynced : Named(e.meta.segments, disk.managed)
    BY <1>0 DEF Published
  <2>4. QED
    BY <1>13, <2>2, <2>3 DEF Named, Names
<1>15. \A v \in Writers : f \notin updater[v].gc /\ f \notin updater[v].deleted
  BY <1>0, <1>13 DEF Doom
<1>16. /\ WritingOK' /\ Doom' /\ WrittenBy(t)' = {f} /\ writing'[t] # None
       /\ \A s, d : Marked(s, d)' => Marked(s, d) \/ File(s, d) = f
  <2>1. Write(t, f) /\ writing[t] = None
    BY <1>1, <1>2, <1>5, <1>6, <1>9
  <2>2. QED
    BY <1>11, <1>12, <1>14, <1>15, <2>1, Begun
<1>17. Stays' = Stays
  BY <1>11, HandledFiles
<1>18. M # NoMerge
  BY <1>10, NoMergeFacts
<1>19. Sources(u, M)'
  <2>1. Named(O.sources, Stays)
    BY <1>2, <1>7 DEF Sources, Named, WrittenBy
  <2>2. Named(M.sources, Stays' \cup WrittenBy(<<u, "merge">>)')
    BY <1>5, <1>8, <1>9, <1>10, <1>16, <1>17, <2>1 DEF Named
  <2>3. ASSUME NEW k \in M.todo PROVE ~Marked(k.seg, M.target)'
    <3>1. k \in O.todo /\ k # m /\ ~Marked(k.seg, O.target)
      BY <1>7, <1>10 DEF Sources
    <3>2. k.seg # m.seg
      BY <1>1, <1>6, <1>7, <3>1 DEF Sources, OneEach
    <3>3. QED
      BY <1>9, <1>10, <1>16, <3>1, <3>2, FileInj
  <2>4. M.todo \subseteq M.sources /\ OneEach(M.todo)
    BY <1>7, <1>10 DEF Sources, OneEach
  <2>5. QED
    BY <1>2, <1>7, <1>8, <1>10, <1>18, <2>2, <2>3, <2>4 DEF Sources, Named, OneEach
<1>20. Result(u, M)'
  BY <1>2, <1>6, <1>7, <1>10 DEF Result, Over, EndingMerge
<1>21. Stamps(u, M, st)'
  <2>1. O.target < st /\ (M.todo # {} => O.todo # {})
    BY <1>1, <1>6, <1>7, <1>10 DEF Stamps
  <2>2. ASSUME NEW k \in updater[u].uncommitted, NEW d \in Nat, Marked(k.seg, d)'
        PROVE  d < st \/ d = 0 \/ d = k.del
    <3>1. Marked(k.seg, d) \/ d = O.target
      BY <1>9, <1>16, <2>2, FileInj
    <3>2. QED
      BY <1>7, <2>1, <3>1 DEF Stamps
  <2>3. QED
    BY <1>2, <1>7, <1>10, <2>1, <2>2 DEF Stamps
<1>22. \A i \in Queued(u) : EndItem(u, M, i)' /\ StampItem(u, M, st, i)'
  BY <1>1, <1>2, <1>6, <1>7, <1>10 DEF EndItem, Over, StampItem, IsTask
<1>23. worker[u] # None => \A d \in Nat : Marked(worker[u].seg, d)' => d = 0
  <2>1. worker[u] # None => worker[u].seg # m.seg
    BY <1>1, <1>6, <1>7 DEF Sources
  <2>2. QED
    BY <1>2, <1>7, <1>9, <1>16, <2>1, FileInj DEF SegsOf
<1>24. next_seg' \in 1 .. MaxSegments + 1
  BY <1>0, <1>2 DEF Shape
<1>25. QED
  BY <1>2, <1>4, <1>5, <1>6, <1>10, <1>11, <1>16, <1>18, <1>19, <1>20, <1>21, <1>22, <1>23, <1>24, MergeThread

LEMMA ScheduleEndMergeStep ==
  ASSUME IInv, NEW u \in Writers, ScheduleEndMerge(u)
  PROVE  IInv'
<1>0. Shape /\ Doom /\ Listed /\ Published
  BY DEF IInv
<1>1. /\ \/ merge[u].merged # None /\ Finished(<<u, "merge">>) /\ writing[<<u, "merge">>] # None
         \/ merge[u].empty /\ merge[u].sources # {}
      /\ writing' = [writing EXCEPT ![<<u, "merge">>] = None]
      /\ UNCHANGED <<disk, unsynced, managed_paths, current, opened, stamper, worker, reader, next_seg>>
  BY DEF ScheduleEndMerge, Finished, storage
<1>2. u = current /\ merge[u] # NoMerge
  BY <1>1, Works, NoMergeFacts
<1>3. /\ StillOf(u) /\ KeepsOf(u) /\ Apart(u) /\ SegsOf(u) /\ QueueOf(u) /\ TaskOf(u) /\ updater[u].alive
      /\ MergeOf(u, merge[u], stamper)
  BY <1>2, Parts
<1>4. PICK t \in Threads : t = <<u, "merge">>
  BY ThreadNames
<1>5. PICK O \in Merge, st \in Nat : O = merge[u] /\ st = stamper /\ st = stamper'
  BY <1>0, <1>1, Types
<1>6. PICK task \in Task : /\ updater' = schedule_task(u, task) /\ task.kind = "end_merge"
                           /\ task.entry = O.merged
  <2> DEFINE task == [NoTask EXCEPT !.kind = "end_merge", !.entry = merge[u].merged,
                                    !.sources = ids(merge[u].sources)]
  <2>1. merge[u].merged \in Metas \cup {None} /\ ids(merge[u].sources) \in SUBSET Nat
    BY <1>0, Types DEF Merge, ids
  <2> HIDE DEF ids
  <2>2. task \in Task /\ task.kind = "end_merge" /\ task.entry = O.merged
    BY <1>5, <2>1 DEF NoTask, Task, Kinds
  <2>3. updater' = schedule_task(u, task)
    BY DEF ScheduleEndMerge
  <2>4. QED
    BY <2>2, <2>3
<1>7. PICK M \in Merge : /\ merge' = [merge EXCEPT ![u] = M] /\ M.merged = O.merged /\ M.todo = O.todo
                         /\ M.sources = {} /\ M.target = O.target /\ M.empty = O.empty
  <2> DEFINE M == [O EXCEPT !.sources = {}]
  <2>1. M \in Merge /\ M.merged = O.merged /\ M.todo = O.todo /\ M.sources = {} /\ M.target = O.target
        /\ M.empty = O.empty
    BY DEF Merge
  <2>2. merge' = [merge EXCEPT ![u] = M]
    BY <1>3, <1>5 DEF ScheduleEndMerge
  <2>3. QED
    BY <2>1, <2>2
<1>8. merge' \in [Writers -> Merge] /\ merge'[u] = M /\ \A v \in Writers : v # u => merge'[v] = merge[v]
  BY <1>0, <1>7 DEF Shape
<1>9. Handled(t) /\ writing'[t] = None
  <2>1. writing' \in [Threads -> Writing \cup {None}] /\ next_seg \in Nat
    BY <1>0, <1>1, <1>4 DEF Shape
  <2>2. writing'[t] = None /\ \A s \in Threads : s # t => writing'[s] = writing[s]
    BY <1>0, <1>1, <1>4 DEF Shape
  <2>3. QED
    BY <1>1, <1>2, <1>6, <2>1, <2>2, ScheduledRest DEF Handled
<1>10. WritingOK' /\ Doom' /\ WrittenBy(t)' = {} /\ \A s, d : Marked(s, d)' => Marked(s, d)
  BY <1>9, Released
<1>11. /\ Listed' /\ Published' /\ Stays' = Stays
       /\ \A metas : Newer(metas)' = Newer(metas)
  BY <1>9, HandledFiles
<1>13. /\ \A k \in {"worker", "updater", "merge"} : k # "merge" => writing'[<<u, k>>] = writing[<<u, k>>]
       /\ \A v \in Writers : v # u => /\ writing'[<<v, "worker">>] = writing[<<v, "worker">>]
                                      /\ writing'[<<v, "updater">>] = writing[<<v, "updater">>]
                                      /\ writing'[<<v, "merge">>] = writing[<<v, "merge">>]
  BY <1>4, <1>9, OtherThreads
<1>14. /\ Sources(u, O) /\ Result(u, O) /\ Stamps(u, O, st)
       /\ \A i \in Queued(u) : EndItem(u, O, i) /\ StampItem(u, O, st, i)
  BY <1>3, <1>5 DEF MergeOf
<1>12. O.merged # None => WrittenBy(t) \subseteq Stays
  BY <1>1, <1>4, <1>5, <1>14, FinishedStays DEF Sources
<1>15. ~EndingMerge(u) /\ M.todo = {} /\ \A i \in Queued(u) : ~IsTask(u, i, "end_merge")
  BY <1>1, <1>5, <1>7, <1>14 DEF Sources, Result, Over, EndItem
<1>16. Shape'
  <2>1. updater' \in [Writers -> Updater]
    BY <1>2, <1>6, Scheduled
  <2>2. writing' \in [Threads -> Writing \cup {None}]
    BY <1>9 DEF Handled
  <2>3. QED
    BY <1>0, <1>1, <1>8, <2>1, <2>2 DEF Shape
<1>17. StillOf(u)' /\ Apart(u)'
  BY <1>1, <1>2, <1>3, <1>6, <1>13, ScheduledRest DEF StillOf, Apart
<1>18. OthersSame(u)
  <2>1. \A v \in Writers : v # u => updater'[v] = updater[v]
    BY <1>2, <1>6, Scheduled
  <2>2. QED
    BY <1>1, <1>8, <1>13, <2>1 DEF OthersSame
<1>19. KeepsOf(u)'
  <2>1. /\ WrittenBy(<<u, "worker">>)' = WrittenBy(<<u, "worker">>)
        /\ WrittenBy(<<u, "updater">>)' = WrittenBy(<<u, "updater">>)
    BY <1>13 DEF WrittenBy
  <2>2. QED
    BY <1>1, <1>2, <1>3, <1>6, <1>11, <2>1, ScheduledRest DEF KeepsOf, Named
<1>20. SegsOf(u)'
  <2>1. Newer(updater[u].uncommitted)' /\ Newer(updater[u].committed)' /\ Newer(updater[u].entries)'
    BY <1>1, <1>2, <1>3, <1>6, ScheduledRest DEF SegsOf, Newer
  <2>2. worker'[u] # None => Pending(u, worker[u])'
    BY <1>1, <1>2, <1>3, <1>6, ScheduledRest DEF SegsOf, Pending
  <2>3. QED
    BY <1>1, <1>2, <1>3, <1>6, <1>10, <2>1, <2>2, ScheduledRest DEF SegsOf, OneEach
<1>21. TaskOf(u)'
  BY <1>2, <1>3, <1>6, <1>13, ScheduledRest DEF TaskOf, EndingMerge
<1>22. ~EndingMerge(u)'
  BY <1>2, <1>6, <1>15, ScheduledRest DEF EndingMerge
<1>23. Sources(u, M)' /\ Result(u, M)'
  <2>1. Sources(u, M)'
    BY <1>4, <1>7, <1>9, <1>14, <1>15 DEF Sources, Named, OneEach
  <2>2. M.merged # None => Pending(u, M.merged)'
    BY <1>1, <1>2, <1>5, <1>6, <1>7, <1>14, ScheduledRest DEF Result, Over, Pending
  <2>3. M.merged # None => Named({M.merged}, Stays')
    BY <1>1, <1>4, <1>5, <1>7, <1>11, <1>12, <1>14 DEF Result, Over, Named
  <2>4. M.merged # None => \A d \in Nat : Marked(M.merged.seg, d)' =>
          d = 0 \/ \E k \in updater'[u].entries : k.seg = M.merged.seg /\ k.del = d
    BY <1>1, <1>2, <1>5, <1>6, <1>7, <1>10, <1>14, ScheduledRest DEF Result, Over
  <2>5. M.merged # None => \A k \in updater'[u].entries : k.seg # M.merged.seg
    BY <1>1, <1>2, <1>5, <1>6, <1>7, <1>14, <1>15, ScheduledRest DEF Result, Over
  <2>6. M.merged # None /\ worker'[u] # None => worker'[u].seg # M.merged.seg
    BY <1>1, <1>5, <1>7, <1>14 DEF Result, Over
  <2>7. QED
    BY <1>15, <1>22, <2>1, <2>2, <2>3, <2>4, <2>5, <2>6 DEF Result, Over, Named
<1>24. Stamps(u, M, st)'
  BY <1>2, <1>6, <1>10, <1>14, <1>15, ScheduledRest DEF Stamps
<1> DEFINE n == Len(updater[u].tasks) + 1
<1>25. /\ \A i \in Queued(u) : updater'[u].tasks[i] = updater[u].tasks[i]
       /\ updater'[u].tasks[n] = task /\ \A i \in Queued(u)' : i \in Queued(u) \/ i = n
       /\ \A i \in Queued(u) : i < n
  BY <1>2, <1>6, Scheduled
<1>26. n \in Nat /\ \A i \in Queued(u) : i \in Nat
  BY <1>0, Types
<1> HIDE DEF n
<1>27. ASSUME NEW i \in Queued(u)'
       PROVE  ItemOf(u, i)' /\ EndItem(u, M, i)' /\ StampItem(u, M, st, i)'
  <2>1. CASE i \in Queued(u)
    <3>1. ItemOf(u, i) /\ EndItem(u, O, i) /\ StampItem(u, O, st, i)
      BY <1>3, <1>14, <2>1 DEF QueueOf
    <3>2. ItemOf(u, i)'
      BY <1>1, <1>2, <1>6, <1>13, <1>25, <2>1, <3>1, ScheduledRest DEF ItemOf, IsTask
    <3>3. EndItem(u, M, i)' /\ StampItem(u, M, st, i)'
      BY <1>15, <1>25, <2>1, <3>1 DEF EndItem, Over, StampItem, IsTask
    <3>4. QED
      BY <3>2, <3>3
  <2>2. CASE i = n
    <3>1. updater'[u].tasks[i] = task
      BY <1>25, <2>2
    <3>2. ItemOf(u, i)' /\ StampItem(u, M, st, i)'
      BY <1>6, <3>1 DEF ItemOf, StampItem, IsTask
    <3>3. EndItem(u, M, i)'
      BY <1>1, <1>4, <1>5, <1>6, <1>7, <1>9, <1>22, <3>1, NoMergeFacts DEF EndItem, Over, IsTask
    <3>4. QED
      BY <3>2, <3>3
  <2>3. QED
    BY <1>25, <2>1, <2>2
<1>28. ASSUME NEW i \in Queued(u)', NEW j \in Queued(u)', i < j
       PROVE  PairOf(u, i, j)'
  <2>1. i \in Queued(u)
    BY <1>25, <1>26, <1>28
  <2>2. CASE j \in Queued(u)
    BY <1>3, <1>25, <1>28, <2>1, <2>2 DEF QueueOf, PairOf, IsTask
  <2>3. CASE j = n
    BY <1>6, <1>15, <1>25, <2>1, <2>3 DEF PairOf, IsTask
  <2>4. QED
    BY <1>25, <2>2, <2>3
<1>29. QueueOf(u)' /\ MergeOf(u, M, st)'
  BY <1>21, <1>23, <1>24, <1>27, <1>28 DEF QueueOf, MergeOf
<1>30. MergeOf(u, merge[u], stamper)'
  BY <1>5, <1>8, <1>29 DEF MergeOf
<1>31. QED
  BY <1>1, <1>2, <1>10, <1>11, <1>16, <1>17, <1>18, <1>19, <1>20, <1>29, <1>30, Assembled

(* Steps that do not concern the open writer c: its parts of the invariant   *)
(* hold as long as no file that stays goes away and no name is added.        *)
Undisturbed(c) ==
  /\ updater'[c] = updater[c] /\ merge'[c] = merge[c] /\ worker'[c] = worker[c] /\ stamper' = stamper
  /\ \A k \in {"worker", "updater", "merge"} :
       WrittenBy(<<c, k>>)' = WrittenBy(<<c, k>>) /\ (writing'[<<c, k>>] = None <=> writing[<<c, k>>] = None)

LEMMA Elsewhere ==
  ASSUME IInv, NEW c \in Writers, c = current, Undisturbed(c), SameMetas, Stays \subseteq Stays',
         \A s, d : Marked(s, d)' => Marked(s, d)
  PROVE  Apart(c)' /\ SegsOf(c)' /\ QueueOf(c)' /\ MergeOf(c, merge[c], stamper)'
<1>1. Apart(c) /\ SegsOf(c) /\ QueueOf(c) /\ TaskOf(c)
  BY Parts
<1>2. PICK M, st : M = merge[c] /\ st = stamper
  OBVIOUS
<1>3. /\ Sources(c, M) /\ Result(c, M) /\ Stamps(c, M, st)
      /\ \A i \in Queued(c) : EndItem(c, M, i) /\ StampItem(c, M, st, i)
  BY <1>2, Parts DEF MergeOf
<1>4. updater'[c] = updater[c] /\ merge'[c] = M /\ worker'[c] = worker[c] /\ stamper' = st
  BY <1>2 DEF Undisturbed
<1>5. /\ WrittenBy(<<c, "merge">>)' = WrittenBy(<<c, "merge">>)
      /\ (writing'[<<c, "worker">>] = None <=> writing[<<c, "worker">>] = None)
      /\ (writing'[<<c, "updater">>] = None <=> writing[<<c, "updater">>] = None)
      /\ (writing'[<<c, "merge">>] = None <=> writing[<<c, "merge">>] = None)
  BY DEF Undisturbed
<1>6. SegsOf(c)' /\ Apart(c)'
  <2>1. Newer(updater[c].uncommitted)' /\ Newer(updater[c].committed)' /\ Newer(updater[c].entries)'
    BY <1>1, <1>4, OldMetas DEF SegsOf, Newer
  <2>2. worker'[c] # None => Pending(c, worker[c])'
    BY <1>1, <1>4 DEF SegsOf, Pending, SameMetas
  <2>3. QED
    BY <1>1, <1>4, <2>1, <2>2 DEF SegsOf, OneEach, Apart
<1>7. QueueOf(c)'
  <2>1. TaskOf(c)'
    BY <1>1, <1>4, <1>5 DEF TaskOf, EndingMerge
  <2>2. \A i \in Queued(c)' : ItemOf(c, i)'
    BY <1>1, <1>4, <1>5 DEF QueueOf, ItemOf, Queued, IsTask
  <2>3. QED
    BY <1>4, <2>1, <2>2, SameQueue DEF QueueOf
<1>8. Sources(c, M)' /\ Result(c, M)'
  <2>1. M.merged # None => Pending(c, M.merged)'
    BY <1>3, <1>4 DEF Result, Over, Pending, SameMetas
  <2>2. Sources(c, M)'
    BY <1>3, <1>4, <1>5 DEF Sources, Named
  <2>3. QED
    BY <1>3, <1>4, <1>5, <2>1, <2>2 DEF Result, Over, Named, EndingMerge
<1>9. Stamps(c, M, st)'
  BY <1>3, <1>4 DEF Stamps
<1>10. \A i \in Queued(c)' : EndItem(c, M, i)' /\ StampItem(c, M, st, i)'
  BY <1>3, <1>4, <1>5 DEF EndItem, Over, StampItem, IsTask, EndingMerge, Queued
<1>11. MergeOf(c, M, st)'
  BY <1>8, <1>9, <1>10 DEF MergeOf
<1>12. QED
  BY <1>4, <1>6, <1>7, <1>11 DEF MergeOf

\* The worker of a rolled back writer finds its updater killed.
LEMMA OldWorkerStep ==
  ASSUME IInv, NEW u \in Writers, ScheduleAddSegment(u), u # current
  PROVE  IInv'
<1>0. Shape
  BY DEF IInv
<1>1. /\ Finished(<<u, "worker">>) /\ writing' = [writing EXCEPT ![<<u, "worker">>] = None]
      /\ UNCHANGED <<disk, unsynced, managed_paths, current, opened, stamper, merge, reader, next_seg>>
  BY DEF ScheduleAddSegment, storage
<1>2. worker[u] # None /\ ~updater[u].alive
  BY <1>1 DEF IInv, Still, StillOf, Finished
<1>3. updater' = updater /\ worker' = [worker EXCEPT ![u] = None]
  BY <1>2 DEF ScheduleAddSegment, schedule_task
<1>4. /\ worker' \in [Writers -> Metas \cup {None}] /\ worker'[u] = None
      /\ \A v \in Writers : v # u => worker'[v] = worker[v]
  BY <1>0, <1>3 DEF Shape
<1>5. PICK t \in Threads : t = <<u, "worker">>
  BY ThreadNames
<1>6. Handled(t) /\ writing'[t] = None
  BY <1>0, <1>1, <1>3, <1>5 DEF Handled, Shape
<1>7. WritingOK' /\ Doom' /\ WrittenBy(t)' = {} /\ \A s, d : Marked(s, d)' => Marked(s, d)
  BY <1>6, Released
<1>8. Listed' /\ Published' /\ Stays' = Stays
  BY <1>6, HandledFiles
<1>9. /\ \A k \in {"worker", "updater", "merge"} : k # "worker" => writing'[<<u, k>>] = writing[<<u, k>>]
      /\ \A v \in Writers : v # u => /\ writing'[<<v, "worker">>] = writing[<<v, "worker">>]
                                     /\ writing'[<<v, "updater">>] = writing[<<v, "updater">>]
                                     /\ writing'[<<v, "merge">>] = writing[<<v, "merge">>]
  BY <1>5, <1>6, OtherThreads
<1>10. Shape'
  BY <1>0, <1>1, <1>3, <1>4, <1>6 DEF Shape, Handled
<1>11. ASSUME NEW v \in Writers PROVE StillOf(v)' /\ KeepsOf(v)' /\ Apart(v)'
  <2>1. StillOf(v) /\ KeepsOf(v) /\ Apart(v)
    BY DEF IInv, Still, Keeps, Segs
  <2>2. CASE v = u
    <3>1. StillOf(v)' /\ Apart(v)'
      BY <1>1, <1>3, <1>4, <1>5, <1>6, <1>9, <2>1, <2>2 DEF StillOf, Apart
    <3>2. updater[v].entries = {} /\ updater[v].step = "idle"
      BY <2>1, <2>2 DEF StillOf
    <3>3. KeepsOf(v)'
      BY <1>1, <1>3, <1>4, <2>2, <3>2 DEF KeepsOf, Named
    <3>4. QED
      BY <3>1, <3>3
  <2>3. CASE v # u
    <3>1. StillOf(v)' /\ Apart(v)'
      BY <1>1, <1>3, <1>4, <1>9, <2>1, <2>3 DEF StillOf, Apart
    <3>2. KeepsOf(v)'
      BY <1>1, <1>3, <1>4, <1>8, <1>9, <2>1, <2>3 DEF KeepsOf, Named, WrittenBy
    <3>3. QED
      BY <3>1, <3>2
  <2>4. QED
    BY <2>2, <2>3
<1>12. ASSUME NEW c \in Writers, c = current'
       PROVE  SegsOf(c)' /\ QueueOf(c)' /\ MergeOf(c, merge[c], stamper)'
  <2>1. c = current /\ c # u
    BY <1>1, <1>12
  <2>2. Undisturbed(c) /\ SameMetas
    BY <1>1, <1>3, <1>4, <1>9, <2>1 DEF Undisturbed, SameMetas, WrittenBy
  <2>3. QED
    BY <1>7, <1>8, <2>1, <2>2, Elsewhere
<1>13. QED
  BY <1>7, <1>8, <1>10, <1>11, <1>12 DEF IInv, Still, Keeps, Segs, Queue, Merging

LEMMA ScheduleAddSegmentStep ==
  ASSUME IInv, NEW u \in Writers, ScheduleAddSegment(u), u = current
  PROVE  IInv'
<1>0. Shape
  BY DEF IInv
<1>1. /\ Finished(<<u, "worker">>) /\ writing[<<u, "worker">>] # None
      /\ writing' = [writing EXCEPT ![<<u, "worker">>] = None]
      /\ UNCHANGED <<disk, unsynced, managed_paths, current, opened, stamper, merge, reader, next_seg>>
  BY DEF ScheduleAddSegment, Finished, storage
<1>2. /\ StillOf(u) /\ KeepsOf(u) /\ Apart(u) /\ SegsOf(u) /\ QueueOf(u) /\ TaskOf(u) /\ updater[u].alive
      /\ MergeOf(u, merge[u], stamper)
  BY Parts
<1>3. worker[u] # None /\ worker' = worker /\ worker[u] \in Metas
  <2>1. worker[u] # None
    BY <1>1, <1>2 DEF StillOf
  <2>2. QED
    BY <1>0, <1>2, <2>1, Types DEF ScheduleAddSegment
<1>4. PICK t \in Threads : t = <<u, "worker">>
  BY ThreadNames
<1>5. PICK M \in Merge, st \in Nat : M = merge[u] /\ M = merge'[u] /\ st = stamper /\ st = stamper'
  BY <1>0, <1>1, Types
<1>6. PICK task \in Task : updater' = schedule_task(u, task) /\ task.kind = "add" /\ task.entry = worker[u]
  <2> DEFINE task == [NoTask EXCEPT !.kind = "add", !.entry = worker[u]]
  <2>1. task \in Task /\ task.kind = "add" /\ task.entry = worker[u]
    BY <1>3 DEF NoTask, Task, Kinds
  <2>2. updater' = schedule_task(u, task)
    BY DEF ScheduleAddSegment
  <2>3. QED
    BY <2>1, <2>2
<1>7. Handled(t) /\ writing'[t] = None
  <2>1. writing' \in [Threads -> Writing \cup {None}] /\ next_seg \in Nat
    BY <1>0, <1>1, <1>4 DEF Shape
  <2>2. writing'[t] = None /\ \A s \in Threads : s # t => writing'[s] = writing[s]
    BY <1>0, <1>1, <1>4 DEF Shape
  <2>3. QED
    BY <1>1, <1>6, <2>1, <2>2, ScheduledRest DEF Handled
<1>8. WritingOK' /\ Doom' /\ WrittenBy(t)' = {} /\ \A s, d : Marked(s, d)' => Marked(s, d)
  BY <1>7, Released
<1>9. Listed' /\ Published' /\ Stays' = Stays
  BY <1>7, HandledFiles
<1>10. WrittenBy(t) \subseteq Stays
  BY <1>1, <1>4, FinishedStays
<1>11. /\ \A k \in {"worker", "updater", "merge"} : k # "worker" => writing'[<<u, k>>] = writing[<<u, k>>]
       /\ \A v \in Writers : v # u => /\ writing'[<<v, "worker">>] = writing[<<v, "worker">>]
                                      /\ writing'[<<v, "updater">>] = writing[<<v, "updater">>]
                                      /\ writing'[<<v, "merge">>] = writing[<<v, "merge">>]
  BY <1>4, <1>7, OtherThreads
<1>12. \A v \in Writers : v # u => updater'[v] = updater[v]
  BY <1>6, Scheduled
<1>13. Shape'
  <2>1. updater' \in [Writers -> Updater]
    BY <1>6, Scheduled
  <2>2. writing' \in [Threads -> Writing \cup {None}]
    BY <1>7 DEF Handled
  <2>3. QED
    BY <1>0, <1>1, <1>3, <2>1, <2>2 DEF Shape
<1>14. StillOf(u)' /\ Apart(u)' /\ OthersSame(u)
  BY <1>1, <1>2, <1>3, <1>6, <1>11, <1>12, ScheduledRest DEF StillOf, Apart, OthersSame
<1>15. KeepsOf(u)'
  <2>1. WrittenBy(<<u, "updater">>)' = WrittenBy(<<u, "updater">>)
    BY <1>11 DEF WrittenBy
  <2>2. Named({worker[u]}, Stays)
    BY <1>2, <1>3, <1>4, <1>10 DEF KeepsOf, Named
  <2>3. QED
    BY <1>1, <1>2, <1>3, <1>6, <1>9, <2>1, <2>2, ScheduledRest DEF KeepsOf, Named
<1>16. SegsOf(u)'
  <2>1. Newer(updater[u].uncommitted)' /\ Newer(updater[u].committed)' /\ Newer(updater[u].entries)'
    BY <1>1, <1>2, <1>6, ScheduledRest DEF SegsOf, Newer
  <2>2. worker'[u] # None => Pending(u, worker[u])'
    BY <1>1, <1>2, <1>3, <1>6, ScheduledRest DEF SegsOf, Pending
  <2>3. QED
    BY <1>1, <1>2, <1>3, <1>6, <1>8, <2>1, <2>2, ScheduledRest DEF SegsOf, OneEach
<1>17. TaskOf(u)'
  BY <1>2, <1>6, <1>11, ScheduledRest DEF TaskOf, EndingMerge
<1>18. /\ Sources(u, M) /\ Result(u, M) /\ Stamps(u, M, st)
       /\ \A i \in Queued(u) : EndItem(u, M, i) /\ StampItem(u, M, st, i)
  BY <1>2, <1>5 DEF MergeOf
<1>19. Sources(u, M)' /\ Result(u, M)'
  <2>1. WrittenBy(<<u, "merge">>)' = WrittenBy(<<u, "merge">>)
    BY <1>11 DEF WrittenBy
  <2>2. M.merged # None => Pending(u, M.merged)'
    BY <1>1, <1>6, <1>18, ScheduledRest DEF Result, Over, Pending
  <2>3. EndingMerge(u)' = EndingMerge(u)
    BY <1>6, ScheduledRest DEF EndingMerge
  <2>4. Sources(u, M)'
    BY <1>3, <1>8, <1>9, <1>11, <1>18, <2>1 DEF Sources, Named
  <2>5. QED
    BY <1>3, <1>6, <1>8, <1>9, <1>11, <1>18, <2>1, <2>2, <2>3, <2>4, ScheduledRest DEF Result, Over, Named
<1>20. Stamps(u, M, st)'
  BY <1>6, <1>8, <1>18, ScheduledRest DEF Stamps
<1> DEFINE n == Len(updater[u].tasks) + 1
<1>21. /\ \A i \in Queued(u) : updater'[u].tasks[i] = updater[u].tasks[i]
       /\ updater'[u].tasks[n] = task /\ \A i \in Queued(u)' : i \in Queued(u) \/ i = n
       /\ \A i \in Queued(u) : i < n
  BY <1>6, Scheduled
<1>22. n \in Nat /\ \A i \in Queued(u) : i \in Nat
  BY <1>0, Types
<1>23. \A i \in Queued(u) : ~IsTask(u, i, "add")
  BY <1>1, <1>2 DEF QueueOf, ItemOf
<1> HIDE DEF n
<1>24. ASSUME NEW i \in Queued(u)'
       PROVE  ItemOf(u, i)' /\ EndItem(u, M, i)' /\ StampItem(u, M, st, i)'
  <2>1. CASE i \in Queued(u)
    <3>1. ItemOf(u, i) /\ EndItem(u, M, i) /\ StampItem(u, M, st, i)
      BY <1>2, <1>18, <2>1 DEF QueueOf
    <3>2. ItemOf(u, i)'
      BY <1>6, <1>21, <1>23, <2>1, <3>1, ScheduledRest DEF ItemOf, IsTask
    <3>3. EndItem(u, M, i)' /\ StampItem(u, M, st, i)'
      BY <1>6, <1>11, <1>21, <2>1, <3>1, ScheduledRest DEF EndItem, Over, StampItem, IsTask, EndingMerge
    <3>4. QED
      BY <3>2, <3>3
  <2>2. CASE i = n
    <3>1. updater'[u].tasks[i] = task
      BY <1>21, <2>2
    <3>2. ItemOf(u, i)'
      BY <1>3, <1>4, <1>6, <1>7, <3>1 DEF ItemOf, IsTask
    <3>3. EndItem(u, M, i)' /\ StampItem(u, M, st, i)'
      BY <1>6, <3>1 DEF EndItem, Over, StampItem, IsTask
    <3>4. QED
      BY <3>2, <3>3
  <2>3. QED
    BY <1>21, <2>1, <2>2
<1>25. ASSUME NEW i \in Queued(u)', NEW j \in Queued(u)', i < j
       PROVE  PairOf(u, i, j)'
  <2>1. i \in Queued(u)
    BY <1>21, <1>22, <1>25
  <2>2. CASE j \in Queued(u)
    BY <1>2, <1>21, <1>25, <2>1, <2>2, SMTT(30) DEF QueueOf, PairOf, IsTask
  <2>3. CASE j = n
    BY <1>6, <1>21, <1>23, <2>1, <2>3 DEF PairOf, IsTask
  <2>4. QED
    BY <1>21, <2>2, <2>3
<1>26. QueueOf(u)' /\ MergeOf(u, M, st)'
  BY <1>17, <1>19, <1>20, <1>24, <1>25 DEF QueueOf, MergeOf
<1>27. MergeOf(u, merge[u], stamper)'
  BY <1>5, <1>26 DEF MergeOf
<1>28. QED
  BY <1>1, <1>8, <1>9, <1>13, <1>14, <1>15, <1>16, <1>26, <1>27, Assembled

LEMMA AdvanceDeletesStep ==
  ASSUME IInv, NEW u \in Writers, AdvanceDeletes(u)
  PROVE  IInv'
<1>0. Shape /\ Doom /\ Still
  BY DEF IInv
<1>1. PICK m \in updater[u].todo :
        /\ Write(<<u, "updater">>, File(m.seg, updater[u].task.opstamp))
        /\ Update(u, [updater[u] EXCEPT !.todo = @ \ {m},
                        !.entries = (@ \ {m}) \cup {[m EXCEPT !.del = updater[u].task.opstamp]}])
  BY DEF AdvanceDeletes
<1>2. /\ updater[u].step = "purge" /\ writing[<<u, "updater">>] = None
      /\ UNCHANGED <<disk, unsynced, managed_paths, current, opened, stamper, worker, merge, reader, next_seg>>
  BY DEF AdvanceDeletes, storage
<1>3. u = current
  BY <1>2, Works
<1>4. PICK t \in Threads : t = <<u, "updater">>
  BY ThreadNames
<1>5. PICK M \in Merge, st \in Nat, ts \in Nat : M = merge[u] /\ st = stamper /\ ts = updater[u].task.opstamp
  BY <1>0, Types
<1>6. /\ StillOf(u) /\ KeepsOf(u) /\ Apart(u) /\ SegsOf(u) /\ QueueOf(u) /\ TaskOf(u)
      /\ Sources(u, M) /\ Result(u, M) /\ Stamps(u, M, st)
      /\ \A i \in Queued(u) : EndItem(u, M, i) /\ StampItem(u, M, st, i)
  BY <1>3, <1>5, Parts DEF MergeOf
<1>7. /\ m \in Metas /\ m \in updater[u].entries /\ m.seg \in Nat /\ m.del \in Nat /\ m.del < ts /\ ts =< MaxOpstamp
      /\ updater[u].entries \subseteq Metas /\ \A k \in Metas : k.seg \in Nat /\ k.del \in Nat
  <2>1. /\ m \in Metas /\ updater[u].entries \subseteq Metas /\ \A k \in Metas : k.seg \in Nat /\ k.del \in Nat
    BY <1>0, Types
  <2>2. m \in updater[u].entries /\ m.del =< ts /\ m.del # ts
    BY <1>5, <1>6 DEF SegsOf
  <2>3. ts =< MaxOpstamp
    BY <1>2, <1>5, <1>6 DEF TaskOf, Purging
  <2>4. QED
    BY <2>1, <2>2, <2>3
<1>8. PICK n \in Metas, f \in FileNames :
        n = [m EXCEPT !.del = ts] /\ f = File(m.seg, ts) /\ n.seg = m.seg /\ n.del = ts
  <2>1. /\ [m EXCEPT !.del = ts] \in Metas /\ [m EXCEPT !.del = ts].seg = m.seg
        /\ [m EXCEPT !.del = ts].del = ts /\ File(m.seg, ts) \in FileNames
    BY <1>7 DEF Metas, File, FileNames
  <2>2. QED
    BY <2>1
<1>9. PICK E, T : E = (updater[u].entries \ {m}) \cup {n} /\ T = updater[u].todo \ {m}
  OBVIOUS
<1>10. Effect(u, updater[u].uncommitted, updater[u].committed, updater[u].active, updater[u].tasks, "purge",
              updater[u].task, E, T, updater[u].gc, updater[u].deleted)
  <2>1. Update(u, [updater[u] EXCEPT !.todo = @ \ {m}, !.entries = (@ \ {m}) \cup {n}])
    BY <1>1, <1>5, <1>8
  <2>2. Effect(u, updater[u].uncommitted, updater[u].committed, updater[u].active, updater[u].tasks, updater[u].step,
               updater[u].task, (updater[u].entries \ {m}) \cup {n}, updater[u].todo \ {m}, updater[u].gc, updater[u].deleted)
    BY <1>0, <1>7, <2>1, Advanced
  <2>3. QED
    BY <1>2, <1>9, <2>2
<1>11. Write(t, f) /\ writing[t] = None
  BY <1>1, <1>2, <1>4, <1>5, <1>8
<1>12. Handled(t)
  <2>1. [file |-> f, at |-> "register"] \in Writing
    BY DEF Writing
  <2>2. writing' \in [Threads -> Writing \cup {None}] /\ \A s \in Threads : s # t => writing'[s] = writing[s]
    BY <1>0, <1>11, <2>1 DEF Shape, Write
  <2>3. next_seg \in Nat
    BY <1>0 DEF Shape
  <2>4. QED
    BY <1>2, <1>10, <2>2, <2>3 DEF Handled, Effect
<1>13. Made(f)'
  <2>1. m.seg \in 1 .. next_seg - 1
    BY <1>3, <1>7, MadeAll
  <2>2. QED
    BY <1>2, <1>7, <1>8, <2>1 DEF Made
<1>14. \A e \in unsynced : e.meta.segments \subseteq Metas
  BY <1>0 DEF Shape, Directory, MetaFile
<1>15. \A e \in unsynced : ~Names(e.meta.segments, f)
  <2>1. ASSUME NEW e \in unsynced, NEW k \in e.meta.segments, k.seg = m.seg
        PROVE  k.del < ts /\ ts # 0
    <3>1. k.del =< m.del /\ k.del \in Nat
      BY <1>6, <1>7, <1>14, <2>1 DEF SegsOf, Newer
    <3>2. QED
      BY <1>7, <3>1
  <2>2. ASSUME NEW e \in unsynced, NEW k \in e.meta.segments
        PROVE  f # File(k.seg, 0) /\ f # File(k.seg, k.del)
    <3>1. k.seg = m.seg => k.del # ts /\ ts # 0
      BY <1>7, <1>14, <2>1
    <3>2. QED
      BY <1>8, <3>1, FileInj
  <2>3. QED
    BY <2>2 DEF Names
<1>16. \A v \in Writers : f \notin updater[v].gc /\ f \notin updater[v].deleted
  <2>1. \A v \in Writers : updater[v].step # "delete"
    BY <1>0, <1>2, <1>3 DEF Still, StillOf
  <2>2. QED
    BY <1>0, <2>1 DEF Doom
<1>17. /\ WritingOK' /\ Doom' /\ WrittenBy(t)' = {f} /\ writing'[t] # None
       /\ \A s, d : Marked(s, d)' => Marked(s, d) \/ File(s, d) = f
  BY <1>11, <1>12, <1>13, <1>15, <1>16, Begun
<1>18. Listed' /\ Published' /\ Stays' = Stays
  BY <1>12, HandledFiles
<1>19. /\ \A k \in {"worker", "updater", "merge"} : k # "updater" => writing'[<<u, k>>] = writing[<<u, k>>]
       /\ \A v \in Writers : v # u => /\ writing'[<<v, "worker">>] = writing[<<v, "worker">>]
                                      /\ writing'[<<v, "updater">>] = writing[<<v, "updater">>]
                                      /\ writing'[<<v, "merge">>] = writing[<<v, "merge">>]
  BY <1>4, <1>12, OtherThreads
<1>20. Shape'
  BY <1>0, <1>2, <1>10, <1>12 DEF Shape, Handled, Effect
<1>21. StillOf(u)' /\ OthersSame(u) /\ Apart(u)'
  BY <1>2, <1>3, <1>6, <1>10, <1>19 DEF StillOf, OthersSame, Apart, Effect
<1>22. KeepsOf(u)'
  <2>1. Named(updater[u].entries, Stays)
    BY <1>2, <1>6 DEF KeepsOf, Named, WrittenBy
  <2>2. Named(E, Stays' \cup WrittenBy(<<u, "updater">>)')
    BY <1>4, <1>7, <1>8, <1>9, <1>17, <1>18, <2>1 DEF Named
  <2>3. WrittenBy(<<u, "worker">>)' = WrittenBy(<<u, "worker">>)
    BY <1>19 DEF WrittenBy
  <2>4. QED
    BY <1>2, <1>6, <1>10, <1>18, <2>2, <2>3 DEF KeepsOf, Named, Effect
<1>23. ASSUME NEW k \in E PROVE (\E x \in updater[u].entries : k.seg = x.seg) /\ k.del =< ts
  <2>1. CASE k \in updater[u].entries
    BY <1>5, <1>6, <2>1 DEF SegsOf
  <2>2. CASE k = n
    BY <1>7, <1>8, <2>2
  <2>3. QED
    BY <1>9, <2>1, <2>2
<1>24. SegsOf(u)'
  <2>1. Newer(updater[u].uncommitted)' /\ Newer(updater[u].committed)'
    BY <1>2, <1>6, <1>10 DEF SegsOf, Newer, Effect
  <2>2. ASSUME NEW e \in unsynced, NEW k \in e.meta.segments, NEW x \in E, k.seg = x.seg PROVE k.del =< x.del
    <3>1. CASE x \in updater[u].entries
      BY <1>6, <2>2, <3>1 DEF SegsOf, Newer
    <3>2. CASE x = n
      <4>1. k.del =< m.del /\ k.del \in Nat
        BY <1>6, <1>7, <1>8, <1>14, <2>2, <3>2 DEF SegsOf, Newer
      <4>2. QED
        BY <1>7, <1>8, <3>2, <4>1
    <3>3. QED
      BY <1>9, <3>1, <3>2
  <2>3. Newer(updater[u].entries)'
    BY <1>2, <1>10, <2>2 DEF Newer, Effect
  <2>4. OneEach(E)
    <3>1. \A k \in E : k # n => k \in updater[u].entries /\ k # m
      BY <1>9
    <3>2. \A k, x \in updater[u].entries : k.seg = x.seg => k = x
      BY <1>6 DEF SegsOf, OneEach
    <3>3. \A k \in E : k # n => k.seg # n.seg
      BY <1>7, <1>8, <3>1, <3>2
    <3>4. QED
      BY <3>1, <3>2, <3>3 DEF OneEach
  <2>5. worker'[u] # None => Pending(u, worker[u])' /\ \A k \in E : k.seg # worker[u].seg
    BY <1>2, <1>6, <1>10, <1>23 DEF SegsOf, Pending, Effect
  <2>6. worker'[u] # None => \A d \in Nat : Marked(worker[u].seg, d)' => d = 0
    BY <1>2, <1>6, <1>7, <1>8, <1>17, FileInj DEF SegsOf
  <2>7. T \subseteq E /\ \A k \in T : k.del # ts
    BY <1>5, <1>6, <1>9 DEF SegsOf
  <2>8. QED
    BY <1>2, <1>5, <1>6, <1>10, <1>23, <2>1, <2>3, <2>4, <2>5, <2>6, <2>7 DEF SegsOf, OneEach, Effect
<1>25. TaskOf(u)' /\ EndingMerge(u)' = EndingMerge(u)
  BY <1>2, <1>6, <1>10 DEF TaskOf, EndingMerge, Effect
<1>26. \A i \in Queued(u)' : ItemOf(u, i)'
  BY <1>2, <1>6, <1>10, <1>19 DEF QueueOf, ItemOf, Queued, IsTask, Effect
<1>27. QueueOf(u)'
  BY <1>3, <1>10, <1>25, <1>26, SameQueue DEF QueueOf, Effect
<1>28. EndingMerge(u) => M.merged # None /\ M.todo = {} /\ m.seg = M.merged.seg /\ m.del = 0
  BY <1>6, <1>7 DEF Result, Over
<1>29. ~EndingMerge(u) => updater[u].task.kind = "commit" /\ ts < st /\ (M.todo # {} => ts # M.target)
  BY <1>2, <1>5, <1>6 DEF EndingMerge, TaskOf, Stamps, Purging
<1>30. Sources(u, M)'
  <2>1. WrittenBy(<<u, "merge">>)' = WrittenBy(<<u, "merge">>)
    BY <1>19 DEF WrittenBy
  <2>2. ASSUME NEW k \in M.todo PROVE ~Marked(k.seg, M.target)'
    <3>1. ts # M.target
      BY <1>28, <1>29
    <3>2. QED
      BY <1>6, <1>8, <1>17, <3>1, FileInj DEF Sources
  <2>3. QED
    BY <1>2, <1>6, <1>18, <1>19, <2>1, <2>2 DEF Sources, Named
<1>31. Result(u, M)'
  <2>1. WrittenBy(<<u, "merge">>)' = WrittenBy(<<u, "merge">>)
    BY <1>19 DEF WrittenBy
  <2>2. M.merged # None => Pending(u, M.merged)'
    BY <1>2, <1>6, <1>10 DEF Result, Over, Pending, Effect
  <2>3. ~EndingMerge(u) /\ M.merged # None =>
           (\A k \in E : k.seg # M.merged.seg) /\ \A d \in Nat : Marked(M.merged.seg, d)' => d = 0
    <3>1. SUFFICES ASSUME ~EndingMerge(u), M.merged # None
                   PROVE  (\A k \in E : k.seg # M.merged.seg) /\ \A d \in Nat : Marked(M.merged.seg, d)' => d = 0
      OBVIOUS
    <3>2. \A k \in updater[u].entries : k.seg # M.merged.seg
      BY <1>6, <3>1 DEF Result, Over
    <3>3. \A d \in Nat : Marked(M.merged.seg, d) => d = 0
      BY <1>6, <3>1, <3>2 DEF Result, Over
    <3>4. QED
      BY <1>7, <1>8, <1>17, <1>23, <3>2, <3>3, FileInj
  <2>4. EndingMerge(u) =>
           /\ (\A k \in E : k.seg = M.merged.seg) /\ \A k \in T : k.del = 0
           /\ \A d \in Nat : Marked(M.merged.seg, d)' => d = 0 \/ \E k \in E : k.seg = M.merged.seg /\ k.del = d
    <3>1. SUFFICES ASSUME EndingMerge(u)
                   PROVE /\ (\A k \in E : k.seg = M.merged.seg) /\ \A k \in T : k.del = 0
                         /\ \A d \in Nat : Marked(M.merged.seg, d)' =>
                              d = 0 \/ \E k \in E : k.seg = M.merged.seg /\ k.del = d
      OBVIOUS
    <3>2. (\A k \in E : k.seg = M.merged.seg) /\ \A k \in T : k.del = 0
      BY <1>6, <1>8, <1>9, <1>28, <3>1 DEF Result, Over
    <3>3. ASSUME NEW d \in Nat, Marked(M.merged.seg, d)' PROVE d = 0 \/ \E k \in E : k.seg = M.merged.seg /\ k.del = d
      <4>1. CASE Marked(M.merged.seg, d)
        <5>1. d = 0 \/ \E k \in updater[u].entries : k.seg = M.merged.seg /\ k.del = d
          BY <1>6, <1>28, <3>1, <4>1 DEF Result, Over
        <5>2. \A k \in updater[u].entries : k # m => k \in E
          BY <1>9
        <5>3. QED
          BY <1>28, <3>1, <5>1, <5>2
      <4>2. CASE File(M.merged.seg, d) = f
        <5>1. n \in E /\ n.seg = M.merged.seg
          BY <1>8, <1>9, <1>28, <3>1
        <5>2. d = n.del
          BY <1>8, <4>2, FileInj
        <5>3. QED
          BY <5>1, <5>2
      <4>3. QED
        BY <1>17, <3>3, <4>1, <4>2
    <3>4. QED
      BY <3>2, <3>3
  <2>5. updater'[u].entries = E /\ updater'[u].todo = T
    BY <1>10 DEF Effect
  <2>9. EndingMerge(u) => Over(u, M)'
    BY <1>6, <1>19 DEF Result, Over
  <2>6. CASE EndingMerge(u)
    BY <1>2, <1>6, <1>18, <1>19, <1>25, <2>1, <2>2, <2>4, <2>5, <2>6, <2>9, <1>28 DEF Result, Named
  <2>7. CASE ~EndingMerge(u)
    BY <1>2, <1>6, <1>18, <1>19, <1>25, <2>1, <2>2, <2>3, <2>5, <2>7 DEF Result, Over, Named
  <2>8. QED
    BY <2>6, <2>7
<1>32. Stamps(u, M, st)'
  <2>1. ASSUME NEW k \in updater[u].uncommitted, NEW d \in Nat, Marked(k.seg, d)'
        PROVE  d < st \/ d = 0 \/ d = k.del
    <3>1. Marked(k.seg, d) \/ (k.seg = m.seg /\ d = ts)
      BY <1>8, <1>17, <2>1, FileInj
    <3>2. EndingMerge(u) => k.seg # m.seg
      BY <1>6, <1>28 DEF Result, Over, Pending
    <3>3. QED
      BY <1>6, <1>29, <3>1, <3>2 DEF Stamps
  <2>2. QED
    BY <1>2, <1>6, <1>10, <2>1 DEF Stamps, Effect
<1>33. \A i \in Queued(u)' : EndItem(u, M, i)' /\ StampItem(u, M, st, i)'
  BY <1>3, <1>6, <1>10, <1>19, <1>25, SameQueue DEF EndItem, Over, StampItem, IsTask, Effect
<1>34. MergeOf(u, M, st)'
  BY <1>30, <1>31, <1>32, <1>33 DEF MergeOf
<1>35. MergeOf(u, merge[u], stamper)'
  BY <1>2, <1>5, <1>34 DEF MergeOf
<1>36. QED
  BY <1>2, <1>3, <1>17, <1>18, <1>20, <1>21, <1>22, <1>24, <1>27, <1>35, Assembled

LEMMA DeletesWritten ==
  ASSUME IInv, NEW u \in Writers, DeletesAdvanced(u), Finished(<<u, "updater">>), UNCHANGED <<updater, merge>>
  PROVE  IInv'
<1>0. Shape
  BY DEF IInv
<1>1. /\ updater[u].step = "purge" /\ writing' = [writing EXCEPT ![<<u, "updater">>] = None]
      /\ UNCHANGED <<disk, unsynced, managed_paths, current, opened, stamper, worker, reader, next_seg>>
  BY DEF DeletesAdvanced, storage
<1>2. u = current
  BY <1>1, Works
<1>3. PICK t \in Threads : t = <<u, "updater">>
  BY ThreadNames
<1>4. PICK M \in Merge, st \in Nat : M = merge[u] /\ st = stamper
  BY <1>0, Types
<1>5. /\ StillOf(u) /\ KeepsOf(u) /\ Apart(u) /\ SegsOf(u) /\ QueueOf(u) /\ TaskOf(u)
      /\ Sources(u, M) /\ Result(u, M) /\ Stamps(u, M, st)
      /\ \A i \in Queued(u) : EndItem(u, M, i) /\ StampItem(u, M, st, i)
  BY <1>2, <1>4, Parts DEF MergeOf
<1>6. Handled(t) /\ writing'[t] = None
  BY <1>0, <1>1, <1>3 DEF Handled, Shape
<1>7. WritingOK' /\ Doom' /\ WrittenBy(t)' = {} /\ \A s, d : Marked(s, d)' => Marked(s, d)
  BY <1>6, Released
<1>8. Listed' /\ Published' /\ Stays' = Stays /\ WrittenBy(t) \subseteq Stays
  BY <1>3, <1>6, HandledFiles, FinishedStays
<1>9. /\ \A k \in {"worker", "updater", "merge"} : k # "updater" => writing'[<<u, k>>] = writing[<<u, k>>]
      /\ \A v \in Writers : v # u => /\ writing'[<<v, "worker">>] = writing[<<v, "worker">>]
                                     /\ writing'[<<v, "updater">>] = writing[<<v, "updater">>]
                                     /\ writing'[<<v, "merge">>] = writing[<<v, "merge">>]
  BY <1>3, <1>6, OtherThreads
<1>10. Shape'
  BY <1>0, <1>1, <1>6 DEF Shape, Handled
<1>11. StillOf(u)' /\ OthersSame(u) /\ Apart(u)'
  BY <1>1, <1>2, <1>5, <1>9 DEF StillOf, OthersSame, Apart
<1>12. KeepsOf(u)'
  <2>1. Named(updater[u].entries, Stays')
    BY <1>3, <1>5, <1>8 DEF KeepsOf, Named
  <2>2. WrittenBy(<<u, "worker">>)' = WrittenBy(<<u, "worker">>)
    BY <1>9 DEF WrittenBy
  <2>3. QED
    BY <1>1, <1>5, <1>8, <2>1, <2>2 DEF KeepsOf, Named
<1>13. SegsOf(u)'
  <2>1. Newer(updater[u].uncommitted)' /\ Newer(updater[u].committed)' /\ Newer(updater[u].entries)'
    BY <1>1, <1>5 DEF SegsOf, Newer
  <2>2. worker'[u] # None => Pending(u, worker[u])'
    BY <1>1, <1>5 DEF SegsOf, Pending
  <2>3. worker'[u] # None => \A d \in Nat : Marked(worker[u].seg, d)' => d = 0
    BY <1>1, <1>5, <1>7 DEF SegsOf
  <2>4. QED
    BY <1>1, <1>5, <2>1, <2>2, <2>3 DEF SegsOf, OneEach
<1>14. TaskOf(u)' /\ EndingMerge(u)' = EndingMerge(u)
  BY <1>1, <1>5 DEF TaskOf, EndingMerge
<1>15. \A i \in Queued(u)' : ItemOf(u, i)'
  BY <1>1, <1>5, <1>9 DEF QueueOf, ItemOf, Queued, IsTask
<1>16. QueueOf(u)'
  BY <1>2, <1>14, <1>15, SameQueue DEF QueueOf
<1>17. WrittenBy(<<u, "merge">>)' = WrittenBy(<<u, "merge">>)
  BY <1>9 DEF WrittenBy
<1>18. Sources(u, M)'
  BY <1>1, <1>5, <1>7, <1>8, <1>9, <1>17 DEF Sources, Named
<1>19. Result(u, M)'
  <2>1. M.merged # None => Pending(u, M.merged)'
    BY <1>1, <1>5 DEF Result, Over, Pending
  <2>2. QED
    BY <1>1, <1>5, <1>7, <1>8, <1>9, <1>14, <1>17, <2>1 DEF Result, Over, Named
<1>20. Stamps(u, M, st)'
  BY <1>1, <1>5, <1>7 DEF Stamps
<1>21. \A i \in Queued(u)' : EndItem(u, M, i)' /\ StampItem(u, M, st, i)'
  BY <1>5, <1>9, <1>14 DEF EndItem, Over, StampItem, IsTask, Queued
<1>22. MergeOf(u, M, st)'
  BY <1>18, <1>19, <1>20, <1>21 DEF MergeOf
<1>23. MergeOf(u, merge[u], stamper)'
  BY <1>1, <1>4, <1>22 DEF MergeOf
<1>24. QED
  BY <1>1, <1>2, <1>7, <1>8, <1>10, <1>11, <1>12, <1>13, <1>16, <1>23, Assembled

\* The task is given up, and with it the merge that it was to end.
LEMMA DeletesFailed ==
  ASSUME IInv, NEW u \in Writers, DeletesAdvanced(u), Update(u, Idle(updater[u])),
         merge' = IF updater[u].task.kind = "end_merge" THEN [merge EXCEPT ![u] = NoMerge] ELSE merge
  PROVE  IInv'
<1>0. Shape
  BY DEF IInv
<1>1. /\ updater[u].step = "purge" /\ writing' = [writing EXCEPT ![<<u, "updater">>] = None]
      /\ UNCHANGED <<disk, unsynced, managed_paths, current, opened, stamper, worker, reader, next_seg>>
  BY DEF DeletesAdvanced, storage
<1>2. u = current
  BY <1>1, Works
<1>3. PICK t \in Threads : t = <<u, "updater">>
  BY ThreadNames
<1>4. PICK O \in Merge, st \in Nat : O = merge[u] /\ st = stamper
  BY <1>0, Types
<1>5. /\ StillOf(u) /\ KeepsOf(u) /\ Apart(u) /\ SegsOf(u) /\ QueueOf(u) /\ TaskOf(u)
      /\ Sources(u, O) /\ Result(u, O) /\ Stamps(u, O, st)
      /\ \A i \in Queued(u) : EndItem(u, O, i) /\ StampItem(u, O, st, i)
  BY <1>2, <1>4, Parts DEF MergeOf
<1>a. PICK M \in Merge : /\ merge' = [merge EXCEPT ![u] = M]
                         /\ \/ M = O /\ ~EndingMerge(u)
                            \/ M = NoMerge /\ EndingMerge(u)
  <2>1. CASE updater[u].task.kind = "end_merge"
    BY <1>1, <2>1, NoMergeFacts DEF EndingMerge
  <2>2. CASE updater[u].task.kind # "end_merge"
    BY <1>0, <1>4, <2>2 DEF EndingMerge, Shape
  <2>3. QED
    BY <2>1, <2>2
<1>b. merge' \in [Writers -> Merge] /\ merge'[u] = M /\ \A v \in Writers : v # u => merge'[v] = merge[v]
  BY <1>0, <1>a DEF Shape
<1>c. Effect(u, updater[u].uncommitted, updater[u].committed, updater[u].active, updater[u].tasks, "idle",
             NoTask, {}, {}, updater[u].gc, updater[u].deleted)
  BY <1>0, Idled
<1>6. Handled(t) /\ writing'[t] = None
  <2>1. writing' \in [Threads -> Writing \cup {None}] /\ next_seg \in Nat
    BY <1>0, <1>1, <1>3 DEF Shape
  <2>2. writing'[t] = None /\ \A s \in Threads : s # t => writing'[s] = writing[s]
    BY <1>0, <1>1, <1>3 DEF Shape
  <2>3. QED
    BY <1>1, <1>c, <2>1, <2>2 DEF Handled, Effect
<1>7. WritingOK' /\ Doom' /\ WrittenBy(t)' = {} /\ \A s, d : Marked(s, d)' => Marked(s, d)
  BY <1>6, Released
<1>8. Listed' /\ Published' /\ Stays' = Stays
  BY <1>6, HandledFiles
<1>9. /\ \A k \in {"worker", "updater", "merge"} : k # "updater" => writing'[<<u, k>>] = writing[<<u, k>>]
      /\ \A v \in Writers : v # u => /\ writing'[<<v, "worker">>] = writing[<<v, "worker">>]
                                     /\ writing'[<<v, "updater">>] = writing[<<v, "updater">>]
                                     /\ writing'[<<v, "merge">>] = writing[<<v, "merge">>]
  BY <1>3, <1>6, OtherThreads
<1>10. Shape'
  BY <1>0, <1>1, <1>6, <1>b, <1>c DEF Shape, Handled, Effect
<1>11. StillOf(u)' /\ OthersSame(u) /\ Apart(u)'
  BY <1>1, <1>2, <1>5, <1>9, <1>b, <1>c DEF StillOf, OthersSame, Apart, Effect
<1>12. KeepsOf(u)'
  <2>1. WrittenBy(<<u, "worker">>)' = WrittenBy(<<u, "worker">>)
    BY <1>9 DEF WrittenBy
  <2>2. QED
    BY <1>1, <1>5, <1>8, <1>c, <2>1 DEF KeepsOf, Named, Effect
<1>13. SegsOf(u)'
  <2>1. Newer(updater[u].uncommitted)' /\ Newer(updater[u].committed)' /\ Newer(updater[u].entries)'
    BY <1>1, <1>5, <1>c DEF SegsOf, Newer, Effect
  <2>2. worker'[u] # None => Pending(u, worker[u])'
    BY <1>1, <1>5, <1>c DEF SegsOf, Pending, Effect
  <2>3. worker'[u] # None => \A d \in Nat : Marked(worker[u].seg, d)' => d = 0
    BY <1>1, <1>5, <1>7 DEF SegsOf
  <2>4. QED
    BY <1>1, <1>5, <1>c, <2>1, <2>2, <2>3 DEF SegsOf, OneEach, Effect, Saving
<1>14. TaskOf(u)' /\ ~EndingMerge(u)'
  BY <1>1, <1>3, <1>5, <1>6, <1>c DEF TaskOf, EndingMerge, Effect, Purging, Saving, NoTask
<1>15. \A i \in Queued(u)' : ItemOf(u, i)'
  BY <1>1, <1>5, <1>9, <1>c DEF QueueOf, ItemOf, Queued, IsTask, Effect, Purging, Saving
<1>16. QueueOf(u)'
  BY <1>2, <1>14, <1>15, <1>c, SameQueue DEF QueueOf, Effect
<1>17. WrittenBy(<<u, "merge">>)' = WrittenBy(<<u, "merge">>)
  BY <1>9 DEF WrittenBy
<1>18. Sources(u, M)'
  <2>1. CASE M = O
    BY <1>1, <1>5, <1>7, <1>8, <1>9, <1>17, <2>1 DEF Sources, Named
  <2>2. CASE M = NoMerge /\ EndingMerge(u)
    BY <1>5, <1>9, <2>2, NoMergeFacts DEF Sources, Named, OneEach, Result, Over
  <2>3. QED
    BY <1>a, <2>1, <2>2
<1>19. Result(u, M)'
  <2>1. CASE M = O /\ ~EndingMerge(u) /\ M.merged # None
    <3>1. Pending(u, M.merged)'
      BY <1>1, <1>5, <1>c, <2>1 DEF Result, Over, Pending, Effect
    <3>2. \A d \in Nat : Marked(M.merged.seg, d)' => d = 0
      BY <1>5, <1>7, <2>1 DEF Result, Over
    <3>3. QED
      BY <1>1, <1>5, <1>8, <1>9, <1>14, <1>17, <1>c, <2>1, <3>1, <3>2 DEF Result, Over, Named, Effect
  <2>2. CASE M.merged = None
    BY <1>14, <2>2 DEF Result, Over
  <2>3. QED
    BY <1>a, <2>1, <2>2, NoMergeFacts
<1>20. Stamps(u, M, st)'
  BY <1>1, <1>5, <1>7, <1>a, <1>c, NoMergeFacts DEF Stamps, Effect, Purging, Saving
<1>21. \A i \in Queued(u)' : EndItem(u, M, i)' /\ StampItem(u, M, st, i)'
  <2>1. SUFFICES ASSUME NEW i \in Queued(u) PROVE EndItem(u, M, i)' /\ StampItem(u, M, st, i)'
    BY <1>2, <1>c, SameQueue DEF Effect
  <2>2. EndItem(u, O, i) /\ StampItem(u, O, st, i)
    BY <1>5
  <2>3. EndItem(u, M, i)'
    BY <1>9, <1>14, <1>a, <1>c, <2>2 DEF EndItem, Over, IsTask, Effect
  <2>4. StampItem(u, M, st, i)'
    BY <1>a, <1>c, <2>2, NoMergeFacts DEF StampItem, IsTask, Effect
  <2>5. QED
    BY <2>3, <2>4
<1>22. MergeOf(u, M, st)'
  BY <1>18, <1>19, <1>20, <1>21 DEF MergeOf
<1>23. MergeOf(u, merge[u], stamper)'
  BY <1>1, <1>4, <1>b, <1>22 DEF MergeOf
<1>24. QED
  BY <1>1, <1>2, <1>7, <1>8, <1>10, <1>11, <1>12, <1>13, <1>16, <1>23, Assembled

LEMMA DeletesAdvancedStep ==
  ASSUME IInv, NEW u \in Writers, DeletesAdvanced(u)
  PROVE  IInv'
  BY DeletesWritten, DeletesFailed DEF DeletesAdvanced

-----------------------------------------------------------------------------
(* A thread registers, creates or completes the file that it is writing.     *)
FileHandled(t) ==
  /\ UNCHANGED <<current, opened, stamper, updater, worker, merge, reader, next_seg>>
  /\ writing' \in [Threads -> Writing \cup {None}]
  /\ writing[t] # None /\ writing'[t] # None /\ writing'[t].file = writing[t].file
  /\ \A s \in Threads : s # t => writing'[s] = writing[s]

LEMMA FileHandledStep ==
  ASSUME IInv, NEW t \in Threads, FileHandled(t), Shape', Listed', Published', WritingOK', Doom',
         Stays \subseteq Stays', \A s, d : Marked(s, d)' => Marked(s, d), disk'.meta = disk.meta,
         \A e \in unsynced' : \E g \in unsynced : e.meta = g.meta /\ g.files \subseteq e.files
  PROVE  IInv'
<1>1. UNCHANGED <<current, opened, stamper, updater, worker, merge, reader, next_seg>>
  BY DEF FileHandled
<1>2. /\ \A s \in Threads : WrittenBy(s)' = WrittenBy(s) /\ (writing'[s] = None <=> writing[s] = None)
  BY DEF FileHandled, WrittenBy
<1>3. ASSUME NEW v \in Writers PROVE StillOf(v)' /\ KeepsOf(v)' /\ Apart(v)'
  <2>1. StillOf(v) /\ KeepsOf(v) /\ Apart(v)
    BY DEF IInv, Still, Keeps, Segs
  <2>2. /\ WrittenBy(<<v, "worker">>)' = WrittenBy(<<v, "worker">>)
        /\ WrittenBy(<<v, "updater">>)' = WrittenBy(<<v, "updater">>)
        /\ (writing'[<<v, "worker">>] = None <=> writing[<<v, "worker">>] = None)
        /\ (writing'[<<v, "updater">>] = None <=> writing[<<v, "updater">>] = None)
        /\ (writing'[<<v, "merge">>] = None <=> writing[<<v, "merge">>] = None)
    BY <1>2, ThreadNames
  <2>3. StillOf(v)' /\ Apart(v)'
    BY <1>1, <2>1, <2>2 DEF StillOf, Apart
  <2>4. (v = current \/ worker[v] # None) =>
          /\ Named(updater[v].uncommitted, Stays') /\ Named(updater[v].committed, Stays')
          /\ Named(updater[v].active.segments, Stays')
    BY <2>1 DEF KeepsOf, Named
  <2>5. /\ worker[v] # None => Named({worker[v]}, Stays' \cup WrittenBy(<<v, "worker">>)')
        /\ Named(updater[v].entries, Stays' \cup WrittenBy(<<v, "updater">>)')
    BY <2>1, <2>2 DEF KeepsOf, Named
  <2>6. updater[v].step = "write" => \A e \in unsynced' : Named(updater[v].committed, e.files)
    BY <2>1 DEF KeepsOf, Named
  <2>7. KeepsOf(v)'
    BY <1>1, <2>1, <2>4, <2>5, <2>6 DEF KeepsOf, Named
  <2>8. QED
    BY <2>3, <2>7
<1>4. ASSUME NEW c \in Writers, c = current'
      PROVE  SegsOf(c)' /\ QueueOf(c)' /\ MergeOf(c, merge[c], stamper)'
  <2>1. c = current
    BY <1>1, <1>4
  <2>2. SameMetas
    BY DEF SameMetas
  <2>3. \A k \in {"worker", "updater", "merge"} : <<c, k>> \in Threads
    BY DEF Threads
  <2>4. Undisturbed(c)
    BY <1>1, <1>2, <2>3 DEF Undisturbed
  <2>5. QED
    BY <2>1, <2>2, <2>4, Elsewhere
<1>5. QED
  BY <1>3, <1>4 DEF IInv, Still, Keeps, Segs, Queue, Merging

\* Only threads of an open or a rolled back writer write.
LEMMA WritersOpen ==
  ASSUME IInv, NEW t \in Threads, writing[t] # None
  PROVE  current # 0
<1>1. PICK u \in Writers, k \in {"worker", "updater", "merge"} : t = <<u, k>>
  BY DEF Threads
<1>2. StillOf(u) /\ current \in Nat /\ u \in Nat /\ u >= 1
  BY DEF IInv, Still, Shape, Writers
<1>3. QED
  BY <1>1, <1>2 DEF StillOf

\* The directory after a change of its entries.
LEMMA Changed ==
  ASSUME Shape, NEW d \in Disk, Change(d)
  PROVE  /\ disk' = d /\ unsynced' \subseteq Directory /\ Entries(disk)' \in unsynced'
         /\ \A e \in unsynced' : e \in unsynced \/ (e.files = d.files /\ e.meta = d.meta /\ e.managed = d.managed)
         /\ unsynced \subseteq unsynced'
<1>1. Entries(d) \in Directory
  BY DEF Disk, Entries, Directory
<1>2. QED
  BY <1>1 DEF Change, Entries, Shape

\* What is published stays so while no file of it goes away.
LEMMA PublishedKept ==
  ASSUME Published, disk'.meta = disk.meta, Stays \subseteq Stays', disk.managed \subseteq disk'.managed,
         \A e \in unsynced' : \E g \in unsynced : e.meta = g.meta /\ g.files \subseteq e.files,
         \A e \in unsynced : Named(e.meta.segments, disk'.closed), UNCHANGED <<updater, current>>
  PROVE  Published'
<1>1. Named(disk.meta.segments, Stays') /\ Newer(disk.meta.segments)
  BY DEF Published, Named
<1>2. Newer(disk.meta.segments)'
  BY <1>1 DEF Newer
<1>3. ASSUME NEW e \in unsynced'
      PROVE  /\ Named(disk.meta.segments, e.files)
             /\ Named(e.meta.segments, e.files) /\ Named(e.meta.segments, disk'.closed)
             /\ Named(e.meta.segments, disk'.managed)
             /\ OneEach(e.meta.segments)
             /\ e.meta.opstamp =< MaxOpstamp /\ \A m \in e.meta.segments : m.del =< e.meta.opstamp
  <2>1. PICK g \in unsynced : e.meta = g.meta /\ g.files \subseteq e.files
    OBVIOUS
  <2>2. /\ Named(disk.meta.segments, g.files)
        /\ Named(g.meta.segments, g.files) /\ Named(g.meta.segments, disk.managed)
        /\ OneEach(g.meta.segments)
        /\ g.meta.opstamp =< MaxOpstamp /\ \A m \in g.meta.segments : m.del =< g.meta.opstamp
    BY DEF Published
  <2>3. Named(g.meta.segments, disk'.closed)
    OBVIOUS
  <2>4. QED
    BY <2>1, <2>2, <2>3 DEF Named
<1>4. \A u \in Writers : u = current' => updater'[u].active = disk'.meta
  BY DEF Published
<1>5. QED
  BY <1>1, <1>2, <1>3, <1>4 DEF Published, Named, OneEach

WritingIs(w) ==
  /\ Made(w.file)
  /\ w.at # "register" => w.file \in managed_paths
  /\ w.at \in {"close", "done", "failed"} => w.file \in disk.files
  /\ w.at = "done" => w.file \in disk.closed
  /\ \/ w.at \notin {"register", "create"}
     \/ w.file \in disk.files
     \/ \A e \in unsynced : ~Names(e.meta.segments, w.file)
WritingOf(t) == writing[t] # None => WritingIs(writing[t])

LEMMA WritingAll == (WritingOK <=> \A t \in Threads : WritingOf(t)) /\ (WritingOK' <=> \A t \in Threads : WritingOf(t)')
  BY DEF WritingOK, WritingOf, WritingIs

LEMMA WritingKept ==
  ASSUME WritingOK, NEW s \in Threads, writing'[s] = writing[s], next_seg' = next_seg, SameMetas,
         managed_paths \subseteq managed_paths', disk.files \subseteq disk'.files,
         writing[s] # None /\ writing[s].at = "done" => writing[s].file \in disk'.closed
  PROVE  WritingOf(s)'
<1>1. PICK w : w = writing[s]
  OBVIOUS
<1>2. w # None => WritingIs(w)
  BY <1>1, WritingAll DEF WritingOf
<1>3. Made(w.file)' = Made(w.file)
  BY DEF Made
<1>4. (\A e \in unsynced : ~Names(e.meta.segments, w.file)) => \A e \in unsynced' : ~Names(e.meta.segments, w.file)
  BY DEF SameMetas
<1>5. w # None => WritingIs(w)'
  BY <1>1, <1>2, <1>3, <1>4 DEF WritingIs, Names
<1>6. QED
  BY <1>1, <1>5 DEF WritingOf, WritingIs

LEMMA RegisterStep ==
  ASSUME IInv, NEW t \in Threads, register_file_as_managed(t)
  PROVE  IInv'
<1>0. Shape /\ Listed /\ Published /\ WritingOK /\ Doom
  BY DEF IInv
<1>1. /\ writing[t] # None /\ writing[t].at = "register"
      /\ managed_paths' = managed_paths \cup {writing[t].file}
      /\ Change([disk EXCEPT !.managed = IF managed_paths' = managed_paths THEN disk.managed ELSE managed_paths'])
      /\ writing' = [writing EXCEPT ![t].at = "create"]
      /\ UNCHANGED <<current, opened, stamper, updater, worker, merge, reader, next_seg>>
  BY DEF register_file_as_managed, At, threads
<1>2. writing[t] \in Writing /\ current # 0 /\ managed_paths = disk.managed
  BY <1>0, <1>1, WritersOpen DEF Shape, Listed
<1>3. PICK w \in Writing : w = [writing[t] EXCEPT !.at = "create"]
  BY <1>2 DEF Writing
<1>4. w # None /\ w.file = writing[t].file /\ w.at = "create" /\ w.file \in FileNames
  BY <1>2, <1>3 DEF Writing, FileNames
<1>5. writing' = [writing EXCEPT ![t] = w]
  BY <1>1, <1>3
<1>6. FileHandled(t) /\ writing'[t] = w
  BY <1>0, <1>1, <1>4, <1>5 DEF FileHandled, Shape
<1>7. PICK d \in Disk : /\ Change(d) /\ d.files = disk.files /\ d.closed = disk.closed /\ d.meta = disk.meta
                        /\ d.managed = managed_paths'
  <2> DEFINE d == [disk EXCEPT !.managed = managed_paths']
  <2>1. disk \in Disk /\ managed_paths' \subseteq FileNames
    BY <1>0, <1>1, <1>4 DEF Shape
  <2>2. d \in Disk /\ d.files = disk.files /\ d.closed = disk.closed /\ d.meta = disk.meta /\ d.managed = managed_paths'
    BY <2>1 DEF Disk
  <2>3. Change(d)
    BY <1>1, <1>2
  <2>4. QED
    BY <2>2, <2>3
<1>8. /\ disk' = d /\ unsynced' \subseteq Directory /\ Entries(disk)' \in unsynced' /\ unsynced \subseteq unsynced'
      /\ \A e \in unsynced' : e \in unsynced \/ (e.files = disk.files /\ e.meta = disk.meta /\ e.managed = managed_paths')
  BY <1>0, <1>7, Changed
<1>9. PICK now \in unsynced : now.files = disk.files /\ now.meta = disk.meta /\ now.managed = disk.managed
  BY <1>0 DEF Listed, Entries
<1>10. Made(w.file)
  BY <1>0, <1>1, <1>4 DEF WritingOK
<1>11. Shape'
  BY <1>0, <1>1, <1>4, <1>6, <1>7, <1>8 DEF Shape, FileHandled
<1>12. \A f : Made(f)' = Made(f)
  BY <1>1 DEF Made
<1>13. Listed'
  <2>1. \A e \in unsynced' : e.files \subseteq e.managed /\ \A f \in e.managed : Made(f)
    BY <1>0, <1>1, <1>2, <1>4, <1>8, <1>9, <1>10 DEF Listed
  <2>2. QED
    BY <1>0, <1>7, <1>8, <1>12, <2>1 DEF Listed
<1>14. Stays' = Stays /\ \A f : Doomed(f)' = Doomed(f)
  BY <1>1, <1>7, <1>8 DEF Stays, Doomed
<1>15. \A e \in unsynced' : \E g \in unsynced : e.meta = g.meta /\ g.files = e.files
  BY <1>8, <1>9
<1>16. Published'
  <2>1. disk'.meta = disk.meta /\ disk'.closed = disk.closed /\ disk.managed \subseteq disk'.managed
    BY <1>1, <1>2, <1>7, <1>8
  <2>2. \A e \in unsynced : Named(e.meta.segments, disk'.closed)
    BY <1>0, <2>1 DEF Published
  <2>3. QED
    BY <1>0, <1>1, <1>14, <1>15, <2>1, <2>2, PublishedKept
<1>17. WritingOK'
  <2>1. ASSUME NEW s \in Threads PROVE WritingOf(s)'
    <3>1. CASE s = t
      <4>1. w.file \in disk.files \/ \A e \in unsynced : ~Names(e.meta.segments, w.file)
        BY <1>0, <1>1, <1>4 DEF WritingOK
      <4>2. w.file \in disk'.files \/ \A e \in unsynced' : ~Names(e.meta.segments, w.file)
        BY <1>7, <1>8, <1>15, <4>1 DEF Names
      <4>3. Made(w.file)' /\ w.file \in managed_paths'
        BY <1>1, <1>4, <1>10, <1>12
      <4>4. WritingIs(w)'
        BY <1>4, <4>2, <4>3 DEF WritingIs, Names
      <4>5. QED
        BY <1>6, <3>1, <4>4 DEF WritingOf, WritingIs
    <3>2. CASE s # t
      <4>1. writing'[s] = writing[s]
        BY <1>6, <3>2 DEF FileHandled
      <4>2. managed_paths \subseteq managed_paths' /\ disk.files \subseteq disk'.files /\ disk'.closed = disk.closed
        BY <1>1, <1>7, <1>8
      <4>3. QED
        BY <1>0, <1>1, <1>15, <4>1, <4>2, WritingKept DEF SameMetas, WritingOK
    <3>3. QED
      BY <3>1, <3>2
  <2>2. QED
    BY <2>1, WritingAll
<1>18. \A s \in Threads : WrittenBy(s)' = WrittenBy(s)
  BY <1>4, <1>6 DEF FileHandled, WrittenBy
<1>19. Doom'
  BY <1>0, <1>1, <1>7, <1>8, <1>14, <1>18 DEF Doom
<1>20. \A s, e : Marked(s, e)' => Marked(s, e)
  BY <1>1, <1>18 DEF Marked, WrittenBy
<1>21. QED
  BY <1>6, <1>7, <1>8, <1>11, <1>13, <1>14, <1>15, <1>16, <1>17, <1>19, <1>20, FileHandledStep

\* A thread's file changes only in its stage.
LEMMA Staged ==
  ASSUME Shape, NEW t \in Threads, NEW at \in {"create", "close", "done", "failed"}, writing[t] # None,
         writing' = [writing EXCEPT ![t].at = at],
         UNCHANGED <<current, opened, stamper, updater, worker, merge, reader, next_seg>>
  PROVE  /\ FileHandled(t) /\ \A s \in Threads : WrittenBy(s)' = WrittenBy(s)
         /\ \E w \in Writing : writing'[t] = w /\ w # None /\ w.at = at /\ w.file = writing[t].file /\ w.file \in FileNames
<1>1. writing[t] \in Writing
  BY DEF Shape
<1>2. PICK w \in Writing : w = [writing[t] EXCEPT !.at = at]
  BY <1>1 DEF Writing
<1>3. w # None /\ w.file = writing[t].file /\ w.at = at /\ w.file \in FileNames
  BY <1>1, <1>2 DEF Writing, FileNames
<1>4. writing' = [writing EXCEPT ![t] = w]
  BY <1>2
<1>5. FileHandled(t) /\ writing'[t] = w
  BY <1>3, <1>4 DEF FileHandled, Shape
<1>6. \A s \in Threads : WrittenBy(s)' = WrittenBy(s)
  BY <1>5 DEF FileHandled, WrittenBy
<1>7. QED
  BY <1>3, <1>5, <1>6

LEMMA OpenWriteFailed ==
  ASSUME IInv, NEW t \in Threads, open_write(t), writing[t].file \in disk.files
  PROVE  IInv'
<1>0. Shape /\ Listed /\ Published /\ WritingOK /\ Doom
  BY DEF IInv
<1>1. /\ writing[t] # None /\ writing[t].at = "create"
      /\ writing' = [writing EXCEPT ![t].at = "failed"]
      /\ UNCHANGED <<disk, unsynced, managed_paths, current, opened, stamper, updater, worker, merge, reader,
                     next_seg>>
  BY DEF open_write, At, threads
<1>2. FileHandled(t) /\ \A s \in Threads : WrittenBy(s)' = WrittenBy(s)
  BY <1>0, <1>1, Staged
<1>3. PICK w \in Writing : writing'[t] = w /\ w # None /\ w.at = "failed" /\ w.file = writing[t].file
  BY <1>0, <1>1, Staged
<1>4. Shape'
  BY <1>0, <1>1, <1>2 DEF Shape, FileHandled
<1>5. Stays' = Stays /\ \A f : Doomed(f)' = Doomed(f)
  BY <1>1 DEF Stays, Doomed
<1>6. Listed'
  BY <1>0, <1>1 DEF Listed, Made, Entries
<1>7. \A e \in unsynced : Named(e.meta.segments, disk'.closed)
  BY <1>0, <1>1 DEF Published
<1>8. Published'
  BY <1>0, <1>1, <1>5, <1>7, PublishedKept
<1>9. WritingOK'
  <2>1. ASSUME NEW s \in Threads PROVE WritingOf(s)'
    <3>1. CASE s = t
      <4>1. Made(w.file)' /\ w.file \in managed_paths
        BY <1>0, <1>1, <1>3 DEF WritingOK, Made
      <4>2. WritingIs(w)'
        BY <1>1, <1>3, <4>1 DEF WritingIs
      <4>3. QED
        BY <1>3, <3>1, <4>2 DEF WritingOf, WritingIs
    <3>2. CASE s # t
      <4>1. writing'[s] = writing[s]
        BY <1>2, <3>2 DEF FileHandled
      <4>2. QED
        BY <1>0, <1>1, <4>1, WritingKept DEF SameMetas, WritingOK
    <3>3. QED
      BY <3>1, <3>2
  <2>2. QED
    BY <2>1, WritingAll
<1>10. Doom'
  BY <1>0, <1>1, <1>2, <1>5 DEF Doom
<1>11. \A s, e : Marked(s, e)' => Marked(s, e)
  BY <1>1, <1>2 DEF Marked
<1>12. QED
  BY <1>1, <1>2, <1>4, <1>5, <1>6, <1>8, <1>9, <1>10, <1>11, FileHandledStep

LEMMA OpenWriteCreated ==
  ASSUME IInv, NEW t \in Threads, open_write(t), writing[t].file \notin disk.files
  PROVE  IInv'
<1>0. Shape /\ Listed /\ Published /\ WritingOK /\ Doom
  BY DEF IInv
<1>1. /\ writing[t] # None /\ writing[t].at = "create"
      /\ writing' = [writing EXCEPT ![t].at = "close"] /\ Create(writing[t].file)
      /\ UNCHANGED <<managed_paths, current, opened, stamper, updater, worker, merge, reader, next_seg>>
  BY DEF open_write, At, threads
<1>2. FileHandled(t) /\ \A s \in Threads : WrittenBy(s)' = WrittenBy(s)
  BY <1>0, <1>1, Staged
<1>3. PICK w \in Writing : writing'[t] = w /\ w # None /\ w.at = "close" /\ w.file = writing[t].file /\ w.file \in FileNames
  BY <1>0, <1>1, Staged
<1>4. PICK f \in FileNames : f = w.file /\ f \notin disk.files
  BY <1>3
<1>5. PICK d \in Disk : /\ Change(d) /\ d.files = disk.files \cup {f} /\ d.closed = disk.closed \ {f}
                        /\ d.meta = disk.meta /\ d.managed = disk.managed
  <2> DEFINE d == [disk EXCEPT !.files = @ \cup {f}, !.closed = @ \ {f}]
  <2>1. disk \in Disk
    BY <1>0 DEF Shape
  <2>2. d \in Disk /\ d.files = disk.files \cup {f} /\ d.closed = disk.closed \ {f}
        /\ d.meta = disk.meta /\ d.managed = disk.managed
    BY <2>1 DEF Disk
  <2>3. Change(d)
    BY <1>1, <1>3, <1>4 DEF Create
  <2>4. QED
    BY <2>2, <2>3
<1>6. /\ disk' = d /\ unsynced' \subseteq Directory /\ Entries(disk)' \in unsynced' /\ unsynced \subseteq unsynced'
      /\ \A e \in unsynced' : \/ e \in unsynced
                              \/ e.files = disk.files \cup {f} /\ e.meta = disk.meta /\ e.managed = disk.managed
  BY <1>0, <1>5, Changed
<1>7. PICK now \in unsynced : now.files = disk.files /\ now.meta = disk.meta /\ now.managed = disk.managed
  BY <1>0 DEF Listed, Entries
<1>8. Made(f) /\ f \in managed_paths /\ \A e \in unsynced : ~Names(e.meta.segments, f)
  BY <1>0, <1>1, <1>3, <1>4 DEF WritingOK
<1>9. Shape'
  BY <1>0, <1>1, <1>2, <1>5, <1>6 DEF Shape, FileHandled
<1>10. \A g : Made(g)' = Made(g)
  BY <1>1 DEF Made
<1>11. Listed'
  <2>1. f \in disk.managed
    BY <1>0, <1>8 DEF Listed
  <2>2. \A e \in unsynced' : e.files \subseteq e.managed /\ \A g \in e.managed : Made(g)
    BY <1>0, <1>6, <1>7, <2>1 DEF Listed
  <2>3. QED
    BY <1>0, <1>1, <1>5, <1>6, <1>10, <2>2 DEF Listed
<1>12. (\A g : Doomed(g)' = Doomed(g)) /\ Stays \subseteq Stays'
  <2>1. \A g : Doomed(g)' = Doomed(g)
    BY <1>1 DEF Doomed
  <2>2. QED
    BY <1>4, <1>5, <1>6, <2>1 DEF Stays
<1>13. \A e \in unsynced' : \E g \in unsynced : e.meta = g.meta /\ g.files \subseteq e.files
  BY <1>6, <1>7
<1>14. Published'
  <2>1. disk'.meta = disk.meta /\ disk.managed \subseteq disk'.managed
    BY <1>5, <1>6
  <2>2. \A e \in unsynced : Named(e.meta.segments, disk'.closed)
    BY <1>0, <1>5, <1>6, <1>8 DEF Published, Named, Names
  <2>3. QED
    BY <1>0, <1>1, <1>12, <1>13, <2>1, <2>2, PublishedKept
<1>15. WritingOK'
  <2>1. ASSUME NEW s \in Threads PROVE WritingOf(s)'
    <3>1. CASE s = t
      <4>1. Made(w.file)' /\ w.file \in managed_paths' /\ w.file \in disk'.files
        BY <1>1, <1>4, <1>5, <1>6, <1>8, <1>10
      <4>2. WritingIs(w)'
        BY <1>3, <4>1 DEF WritingIs
      <4>3. QED
        BY <1>3, <3>1, <4>2 DEF WritingOf, WritingIs
    <3>2. CASE s # t
      <4>1. writing'[s] = writing[s]
        BY <1>2, <3>2 DEF FileHandled
      <4>2. writing[s] # None /\ writing[s].at = "done" => writing[s].file \in disk'.closed
        BY <1>0, <1>4, <1>5, <1>6 DEF WritingOK
      <4>3. disk.files \subseteq disk'.files /\ SameMetas
        BY <1>5, <1>6, <1>13 DEF SameMetas
      <4>4. QED
        BY <1>0, <1>1, <4>1, <4>2, <4>3, WritingKept
    <3>3. QED
      BY <3>1, <3>2
  <2>2. QED
    BY <2>1, WritingAll
<1>16. Doom'
  <2>1. f \in WrittenBy(t)
    BY <1>1, <1>3, <1>4 DEF WrittenBy
  <2>2. \A v \in Writers : f \notin updater[v].deleted
    BY <1>0, <2>1 DEF Doom
  <2>3. QED
    BY <1>0, <1>1, <1>2, <1>5, <1>6, <1>12, <2>2 DEF Doom
<1>17. \A s, e : Marked(s, e)' => Marked(s, e)
  BY <1>1, <1>2 DEF Marked
<1>18. disk'.meta = disk.meta
  BY <1>5, <1>6
<1>19. QED
  BY <1>2, <1>9, <1>11, <1>12, <1>13, <1>14, <1>15, <1>16, <1>17, <1>18, FileHandledStep

LEMMA OpenWriteStep ==
  ASSUME IInv, NEW t \in Threads, open_write(t)
  PROVE  IInv'
  BY OpenWriteFailed, OpenWriteCreated

LEMMA TerminateStep ==
  ASSUME IInv, NEW t \in Threads, terminate(t)
  PROVE  IInv'
<1>0. Shape /\ Listed /\ Published /\ WritingOK /\ Doom
  BY DEF IInv
<1>1. /\ writing[t] # None /\ writing[t].at = "close"
      /\ writing' = [writing EXCEPT ![t].at = "done"]
      /\ disk' = [disk EXCEPT !.closed = @ \cup {writing[t].file}]
      /\ UNCHANGED <<unsynced, managed_paths, current, opened, stamper, updater, worker, merge, reader, next_seg>>
  BY DEF terminate, At, threads
<1>2. FileHandled(t) /\ \A s \in Threads : WrittenBy(s)' = WrittenBy(s)
  BY <1>0, <1>1, Staged
<1>3. PICK w \in Writing : writing'[t] = w /\ w # None /\ w.at = "done" /\ w.file = writing[t].file /\ w.file \in FileNames
  BY <1>0, <1>1, Staged
<1>4. /\ disk' \in Disk /\ disk'.files = disk.files /\ disk'.closed = disk.closed \cup {w.file}
      /\ disk'.meta = disk.meta /\ disk'.managed = disk.managed
  <2>1. disk \in Disk
    BY <1>0 DEF Shape
  <2>2. QED
    BY <1>1, <1>3, <2>1 DEF Disk
<1>5. Made(w.file) /\ w.file \in managed_paths /\ w.file \in disk.files
  BY <1>0, <1>1, <1>3 DEF WritingOK
<1>6. Shape'
  BY <1>0, <1>1, <1>2, <1>4 DEF Shape, FileHandled
<1>7. \A g : Made(g)' = Made(g)
  BY <1>1 DEF Made
<1>8. Listed'
  <2>1. Entries(disk)' = Entries(disk)
    BY <1>4 DEF Entries
  <2>2. QED
    BY <1>0, <1>1, <1>4, <1>5, <1>7, <2>1 DEF Listed
<1>9. (\A g : Doomed(g)' = Doomed(g)) /\ Stays \subseteq Stays'
  <2>1. \A g : Doomed(g)' = Doomed(g)
    BY <1>1 DEF Doomed
  <2>2. QED
    BY <1>4, <2>1 DEF Stays
<1>10. \A e \in unsynced : Named(e.meta.segments, disk'.closed)
  BY <1>0, <1>4 DEF Published, Named
<1>11. Published'
  BY <1>0, <1>1, <1>4, <1>9, <1>10, PublishedKept
<1>12. WritingOK'
  <2>1. ASSUME NEW s \in Threads PROVE WritingOf(s)'
    <3>1. CASE s = t
      <4>1. Made(w.file)' /\ w.file \in managed_paths' /\ w.file \in disk'.files /\ w.file \in disk'.closed
        BY <1>1, <1>4, <1>5, <1>7
      <4>2. WritingIs(w)'
        BY <1>3, <4>1 DEF WritingIs
      <4>3. QED
        BY <1>3, <3>1, <4>2 DEF WritingOf, WritingIs
    <3>2. CASE s # t
      <4>1. writing'[s] = writing[s]
        BY <1>2, <3>2 DEF FileHandled
      <4>2. writing[s] # None /\ writing[s].at = "done" => writing[s].file \in disk'.closed
        BY <1>0, <1>4 DEF WritingOK
      <4>3. SameMetas
        BY <1>1 DEF SameMetas
      <4>4. QED
        BY <1>0, <1>1, <1>4, <4>1, <4>2, <4>3, WritingKept
    <3>3. QED
      BY <3>1, <3>2
  <2>2. QED
    BY <2>1, WritingAll
<1>13. Doom'
  BY <1>0, <1>1, <1>2, <1>4, <1>9 DEF Doom
<1>14. \A s, e : Marked(s, e)' => Marked(s, e)
  BY <1>1, <1>2 DEF Marked
<1>15. QED
  BY <1>1, <1>2, <1>4, <1>6, <1>8, <1>9, <1>11, <1>12, <1>13, <1>14, FileHandledStep

-----------------------------------------------------------------------------
(* Readers.                                                                  *)
LEMMA ReaderStep ==
  ASSUME IInv,
         UNCHANGED <<disk, unsynced, managed_paths, current, opened, stamper, updater, worker, merge, writing,
                     next_seg>>,
         reader' \in [Readers -> (SUBSET FileNames) \cup {None}],
         \A r \in Readers : reader'[r] # None => \A f \in reader'[r] : f \in disk.files /\ ~Doomed(f)
  PROVE  IInv'
<1>1. Stays' = Stays /\ \A f : Doomed(f)' = Doomed(f)
  BY DEF Stays, Doomed
<1>2. /\ \A t : WrittenBy(t)' = WrittenBy(t)
      /\ \A f : Made(f)' = Made(f)
      /\ \A metas : Newer(metas)' = Newer(metas)
  BY DEF WrittenBy, Made, Newer
<1>3. \A s, d : Marked(s, d)' = Marked(s, d)
  BY <1>2 DEF Marked
<1>4. Shape' /\ Still'
  BY DEF IInv, Shape, Still, StillOf
<1>5. Listed' /\ Published' /\ WritingOK'
  BY <1>1, <1>2 DEF IInv, Listed, Entries, Published, WritingOK, Named, Names, OneEach
<1>6. Doom'
  BY <1>1, <1>2 DEF IInv, Doom
<1>7. ASSUME NEW v \in Writers PROVE KeepsOf(v)' /\ Apart(v)'
  BY <1>1, <1>2 DEF IInv, Keeps, KeepsOf, Named, Segs, Apart
<1>8. ASSUME NEW c \in Writers, c = current'
      PROVE  SegsOf(c)' /\ QueueOf(c)' /\ MergeOf(c, merge[c], stamper)'
  <2>1. c = current /\ SameMetas /\ Undisturbed(c)
    BY <1>2, <1>8 DEF SameMetas, Undisturbed
  <2>2. QED
    BY <1>1, <1>3, <2>1, Elsewhere
<1>9. QED
  BY <1>4, <1>5, <1>6, <1>7, <1>8 DEF IInv, Keeps, Segs, Queue, Merging

LEMMA StutterStep ==
  ASSUME IInv, UNCHANGED vars
  PROVE  IInv'
<1>1. UNCHANGED <<disk, unsynced, managed_paths, current, opened, stamper, updater, worker, merge, writing, reader,
                  next_seg>>
  BY DEF vars
<1>2. Shape /\ Doom
  BY DEF IInv
<1>3. reader' \in [Readers -> (SUBSET FileNames) \cup {None}]
  BY <1>1, <1>2 DEF Shape
<1>4. \A r \in Readers : reader'[r] # None => \A f \in reader'[r] : f \in disk.files /\ ~Doomed(f)
  BY <1>1, <1>2 DEF Doom
<1>5. QED
  BY <1>1, <1>3, <1>4, ReaderStep

\* A reader loads the files of meta.json, which stay.
LEMMA LoadMetasStep ==
  ASSUME IInv, NEW r \in Readers, LoadMetas(r)
  PROVE  IInv'
<1>0. Shape /\ Doom /\ Published
  BY DEF IInv
<1>1. /\ reader' = [reader EXCEPT ![r] = FilesOf(disk.meta.segments)]
      /\ UNCHANGED <<disk, unsynced, managed_paths, current, opened, stamper, updater, worker, merge, writing,
                     next_seg>>
  BY DEF LoadMetas, storage
<1>2. FilesOf(disk.meta.segments) \subseteq Stays
  <2>1. Named(disk.meta.segments, Stays)
    BY <1>0 DEF Published
  <2>2. QED
    BY <2>1, NamedFiles
<1>3. disk.files \subseteq FileNames
  BY <1>0 DEF Shape, Disk
<1>4. PICK F \in SUBSET FileNames : F = FilesOf(disk.meta.segments) /\ \A f \in F : f \in disk.files /\ ~Doomed(f)
  BY <1>2, <1>3 DEF Stays
<1>5. reader' \in [Readers -> (SUBSET FileNames) \cup {None}]
  BY <1>0, <1>1, <1>4 DEF Shape
<1>6. \A p \in Readers : reader'[p] # None => \A f \in reader'[p] : f \in disk.files /\ ~Doomed(f)
  BY <1>0, <1>1, <1>4 DEF Shape, Doom
<1>7. QED
  BY <1>1, <1>5, <1>6, ReaderStep

LEMMA OpenReadStep ==
  ASSUME IInv, NEW r \in Readers, OpenRead(r)
  PROVE  IInv'
<1>0. Shape /\ Doom
  BY DEF IInv
<1>1. /\ reader' = [reader EXCEPT ![r] = None]
      /\ UNCHANGED <<disk, unsynced, managed_paths, current, opened, stamper, updater, worker, merge, writing,
                     next_seg>>
  BY DEF OpenRead, storage
<1>2. reader' \in [Readers -> (SUBSET FileNames) \cup {None}]
  BY <1>0, <1>1 DEF Shape
<1>3. \A p \in Readers : reader'[p] # None => \A f \in reader'[p] : f \in disk.files /\ ~Doomed(f)
  BY <1>0, <1>1 DEF Shape, Doom
<1>4. QED
  BY <1>1, <1>2, <1>3, ReaderStep

-----------------------------------------------------------------------------
(* A new writer, on what the disk holds.                                     *)
LEMMA NewUpdaterFacts ==
  ASSUME NEW meta \in MetaFile, NEW q, q = NewUpdater(meta)
  PROVE  /\ q \in Updater /\ q.alive /\ q.uncommitted = {} /\ q.committed = meta.segments /\ q.active = meta
         /\ q.tasks = <<>> /\ Len(q.tasks) = 0 /\ q.step = "idle" /\ q.task = NoTask /\ q.entries = {} /\ q.todo = {}
         /\ q.gc = {} /\ q.deleted = {}
<1>1. NoTask \in Task /\ meta.segments \subseteq Metas /\ <<>> \in Seq(Task)
  BY DEF NoTask, Task, Kinds, MetaFile
<1>2. QED
  BY <1>1 DEF NewUpdater, Updater, Steps

LEMMA NewWriter ==
  ASSUME IInv, NEW c \in Writers, c = opened + 1, opened' = c, current' = c, stamper' = disk.meta.opstamp,
         managed_paths' = disk.managed,
         UNCHANGED <<disk, unsynced, worker, merge, writing, reader, next_seg>>,
         updater' \in [Writers -> Updater], updater'[c] = NewUpdater(disk.meta),
         \A v \in Writers : v # c =>
           /\ updater'[v].uncommitted = updater[v].uncommitted /\ updater'[v].committed = updater[v].committed
           /\ updater'[v].active = updater[v].active /\ updater'[v].tasks = updater[v].tasks
           /\ updater'[v].step = updater[v].step /\ updater'[v].entries = updater[v].entries
           /\ updater'[v].gc = updater[v].gc /\ updater'[v].deleted = updater[v].deleted
           /\ IF v = current THEN ~updater'[v].alive ELSE updater'[v].alive = updater[v].alive,
         \A v \in Writers : v = current =>
           updater[v].step = "idle" /\ updater[v].tasks = <<>> /\ merge[v] = NoMerge
  PROVE  IInv'
<1>0. Shape /\ Still /\ Listed /\ Published /\ WritingOK /\ Doom /\ Keeps /\ Segs
  BY DEF IInv
<1>1. /\ disk.meta \in MetaFile /\ disk.meta.segments \subseteq Metas /\ disk.meta.opstamp \in Nat
      /\ opened \in Nat /\ current \in Nat /\ current =< opened /\ current < c /\ c \in Nat /\ c # current
  BY <1>0 DEF Shape, Disk, MetaFile, Writers
<1>2. PICK q : q = NewUpdater(disk.meta)
  OBVIOUS
<1>3. /\ q \in Updater /\ q.alive /\ q.uncommitted = {} /\ q.committed = disk.meta.segments /\ q.active = disk.meta
      /\ q.tasks = <<>> /\ Len(q.tasks) = 0 /\ q.step = "idle" /\ q.task = NoTask /\ q.entries = {} /\ q.todo = {}
      /\ q.gc = {} /\ q.deleted = {}
  BY <1>1, <1>2, NewUpdaterFacts
<1>4. updater'[c] = q
  BY <1>2
<1>5. /\ worker[c] = None /\ merge[c] = NoMerge /\ writing[<<c, "worker">>] = None /\ writing[<<c, "updater">>] = None
      /\ writing[<<c, "merge">>] = None /\ updater[c].step = "idle" /\ updater[c].gc = {} /\ updater[c].deleted = {}
  <2>1. StillOf(c)
    BY <1>0 DEF Still
  <2>2. /\ worker[c] = None /\ merge[c] = NoMerge /\ writing[<<c, "updater">>] = None
        /\ writing[<<c, "merge">>] = None /\ updater[c].step = "idle"
    BY <1>1, <2>1 DEF StillOf
  <2>3. writing[<<c, "worker">>] = None
    BY <2>1, <2>2 DEF StillOf
  <2>4. QED
    BY <1>0, <2>2, <2>3 DEF Doom
<1>6. PICK now \in unsynced : now.files = disk.files /\ now.meta = disk.meta /\ now.managed = disk.managed
  BY <1>0 DEF Listed, Entries
<1>7. /\ Named(disk.meta.segments, Stays) /\ Newer(disk.meta.segments) /\ OneEach(disk.meta.segments)
      /\ disk.meta.opstamp =< MaxOpstamp /\ \A m \in disk.meta.segments : m.del =< disk.meta.opstamp
  BY <1>0, <1>6 DEF Published
<1>8. Shape'
  <2>1. stamper' \in 0 .. MaxOpstamp + 1
    BY <1>1, <1>7
  <2>2. managed_paths' \subseteq FileNames
    BY <1>0 DEF Shape, Disk
  <2>3. current' \in 0 .. opened'
    BY <1>1
  <2>4. QED
    BY <1>0, <2>1, <2>2, <2>3 DEF Shape
<1>9. ASSUME NEW v \in Writers PROVE updater'[v].gc = updater[v].gc /\ updater'[v].deleted = updater[v].deleted
  <2>1. CASE v = c
    BY <1>3, <1>4, <1>5, <2>1, ZenonT(30)
  <2>2. CASE v # c
    BY <2>2
  <2>3. QED
    BY <2>1, <2>2
<1>10. Stays' = Stays /\ \A f : Doomed(f)' = Doomed(f)
  <2>1. \A f : Doomed(f)' = Doomed(f)
    BY <1>9 DEF Doomed
  <2>2. QED
    BY <2>1 DEF Stays
<1>11. /\ \A t : WrittenBy(t)' = WrittenBy(t)
       /\ \A f : Made(f)' = Made(f)
       /\ \A metas : Newer(metas)' = Newer(metas)
  BY DEF WrittenBy, Made, Newer
<1>12. Listed'
  BY <1>0, <1>11 DEF Listed, Entries
<1>13. Published'
  <2>1. \A v \in Writers : v = current' => updater'[v].active = disk'.meta
    BY <1>3, <1>4
  <2>2. QED
    BY <1>0, <1>10, <1>11, <2>1 DEF Published, Named, OneEach
<1>14. managed_paths \subseteq managed_paths'
  BY <1>0 DEF Listed
<1>15. WritingOK'
  BY <1>0, <1>11, <1>14 DEF WritingOK, Names
<1>16. Doom'
  <2>1. \A v \in Writers : updater'[v].step # "delete" => updater[v].step # "delete"
    BY <1>5
  <2>2. QED
    BY <1>0, <1>9, <1>10, <1>11, <1>14, <2>1 DEF Doom
<1>17. Still'
  <2>1. ASSUME NEW v \in Writers PROVE StillOf(v)'
    <3>0. StillOf(v)
      BY <1>0 DEF Still
    <3>1. CASE v = c
      BY <1>3, <1>4, <1>5, <3>1 DEF StillOf
    <3>2. CASE v # c /\ v # current
      <4>1. worker[v] # None => v < c
        BY <1>1, <3>0, <3>2 DEF StillOf, Writers
      <4>2. QED
        BY <3>0, <3>2, <4>1 DEF StillOf
    <3>3. CASE v = current
      <4>1. v # c /\ v < c
        BY <1>1, <3>3
      <4>2. TaskOf(v) /\ Sources(v, merge[v])
        BY <3>3, Parts DEF MergeOf
      <4>3. updater[v].entries = {} /\ writing[<<v, "updater">>] = None /\ writing[<<v, "merge">>] = None
        BY <3>3, <4>2 DEF TaskOf, Sources
      <4>4. QED
        BY <3>0, <3>3, <4>1, <4>3 DEF StillOf
    <3>4. QED
      BY <3>1, <3>2, <3>3
  <2>2. QED
    BY <2>1 DEF Still
<1>18. Keeps'
  <2>1. ASSUME NEW v \in Writers PROVE KeepsOf(v)'
    <3>1. CASE v = c
      BY <1>3, <1>4, <1>5, <1>7, <1>10, <3>1 DEF KeepsOf, Named
    <3>2. CASE v # c
      <4>1. KeepsOf(v)
        BY <1>0 DEF Keeps
      <4>2. updater[v].step = "idle"
        BY <1>0, ZenonT(30) DEF Still, StillOf
      <4>3. QED
        BY <1>10, <1>11, <3>2, <4>1, <4>2 DEF KeepsOf, Named
    <3>3. QED
      BY <3>1, <3>2
  <2>2. QED
    BY <2>1 DEF Keeps
<1>19. SegsOf(c)'
  <2>1. Newer(updater[c].uncommitted)' /\ Newer(updater[c].committed)' /\ Newer(updater[c].entries)'
    BY <1>3, <1>4, <1>7 DEF Newer
  <2>2. QED
    BY <1>3, <1>4, <1>5, <1>7, <2>1 DEF SegsOf, OneEach, Saving
<1>20. Segs'
  <2>1. \A v \in Writers : Apart(v)'
    BY <1>0, <1>3, <1>4 DEF Segs, Apart
  <2>2. QED
    BY <1>19, <2>1 DEF Segs
<1>21. Queued(c)' = {}
  BY <1>3, <1>4 DEF Queued
<1>22. Queue'
  <2>1. TaskOf(c)'
    BY <1>3, <1>4, <1>5 DEF TaskOf, EndingMerge, Purging, Saving, NoTask
  <2>2. QED
    BY <1>21, <2>1 DEF Queue, QueueOf
<1>23. Merging'
  <2>1. Sources(c, NoMerge)'
    BY <1>5, NoMergeFacts DEF Sources, Named, OneEach
  <2>2. Result(c, NoMerge)'
    BY <1>3, <1>4, NoMergeFacts DEF Result, Over, EndingMerge
  <2>3. PICK st \in Nat : st = disk.meta.opstamp
    BY <1>1
  <2>4. Stamps(c, NoMerge, st)'
    BY <1>3, <1>4, <2>3, NoMergeFacts DEF Stamps, Purging, Saving
  <2>5. MergeOf(c, NoMerge, st)'
    BY <1>21, <2>1, <2>2, <2>4 DEF MergeOf
  <2>6. MergeOf(c, merge[c], stamper)'
    BY <1>5, <2>3, <2>5 DEF MergeOf
  <2>7. QED
    BY <2>6 DEF Merging
<1>24. QED
  BY <1>8, <1>12, <1>13, <1>15, <1>16, <1>17, <1>18, <1>20, <1>22, <1>23 DEF IInv

\* Rollback finds nothing to do in the updater that it kills.
LEMMA RollbackStep ==
  ASSUME IInv, QuietRollback, NEW u \in Writers, Rollback(u)
  PROVE  IInv'
<1>0. Shape /\ Listed
  BY DEF IInv
<1>1. /\ u = current /\ opened < MaxWriters /\ opened' = opened + 1 /\ current' = opened + 1
      /\ stamper' = disk.meta.opstamp
      /\ updater[u].step = "idle" /\ updater[u].tasks = <<>> /\ merge[u] = NoMerge
      /\ updater' = [updater EXCEPT ![u].alive = FALSE, ![opened + 1] = NewUpdater(disk.meta)]
      /\ UNCHANGED <<disk, unsynced, managed_paths, worker, merge, writing, reader, next_seg>>
  BY DEF Rollback, Open, OpenWriter, storage
<1>2. PICK c \in Writers : c = opened + 1 /\ c # u
  BY <1>0, <1>1 DEF Shape, Writers
<1>3. disk.meta \in MetaFile /\ updater[u] \in Updater
  BY <1>0, Types DEF Shape, Disk
<1>4. PICK q \in Updater : q = NewUpdater(disk.meta)
  BY <1>3, NewUpdaterFacts
<1>5. PICK k \in Updater :
        /\ k = [updater[u] EXCEPT !.alive = FALSE] /\ ~k.alive
        /\ k.uncommitted = updater[u].uncommitted /\ k.committed = updater[u].committed
        /\ k.active = updater[u].active /\ k.tasks = updater[u].tasks /\ k.step = updater[u].step
        /\ k.entries = updater[u].entries /\ k.gc = updater[u].gc /\ k.deleted = updater[u].deleted
  <2> DEFINE k == [updater[u] EXCEPT !.alive = FALSE]
  <2>1. k \in Updater /\ ~k.alive
    BY <1>3 DEF Updater
  <2>2. /\ k.uncommitted = updater[u].uncommitted /\ k.committed = updater[u].committed
        /\ k.active = updater[u].active /\ k.tasks = updater[u].tasks /\ k.step = updater[u].step
        /\ k.entries = updater[u].entries /\ k.gc = updater[u].gc /\ k.deleted = updater[u].deleted
    BY <1>3 DEF Updater
  <2>3. QED
    BY <2>1, <2>2
<1>6. updater' = [updater EXCEPT ![u] = k, ![c] = q]
  BY <1>1, <1>2, <1>4, <1>5
<1>7. /\ updater' \in [Writers -> Updater] /\ updater'[c] = q /\ updater'[u] = k
      /\ \A v \in Writers : v # c /\ v # u => updater'[v] = updater[v]
  BY <1>0, <1>2, <1>6 DEF Shape
<1>8. managed_paths' = disk.managed
  BY <1>0, <1>1 DEF Listed, Writers
<1>9. ASSUME NEW v \in Writers, v # c
      PROVE  /\ updater'[v].uncommitted = updater[v].uncommitted /\ updater'[v].committed = updater[v].committed
             /\ updater'[v].active = updater[v].active /\ updater'[v].tasks = updater[v].tasks
             /\ updater'[v].step = updater[v].step /\ updater'[v].entries = updater[v].entries
             /\ updater'[v].gc = updater[v].gc /\ updater'[v].deleted = updater[v].deleted
             /\ IF v = current THEN ~updater'[v].alive ELSE updater'[v].alive = updater[v].alive
  <2>1. CASE v = u
    BY <1>1, <1>5, <1>7, <2>1
  <2>2. CASE v # u
    BY <1>1, <1>7, <1>9, <2>2
  <2>3. QED
    BY <2>1, <2>2
<1>10. \A v \in Writers : v = current => updater[v].step = "idle" /\ updater[v].tasks = <<>> /\ merge[v] = NoMerge
  BY <1>1
<1>11. /\ opened' = c /\ current' = c /\ stamper' = disk.meta.opstamp /\ updater'[c] = NewUpdater(disk.meta)
       /\ UNCHANGED <<disk, unsynced, worker, merge, writing, reader, next_seg>>
  BY <1>1, <1>2, <1>4, <1>7
<1>12. QED
  BY <1>2, <1>7, <1>8, <1>9, <1>10, <1>11, NewWriter

LEMMA RestartStep ==
  ASSUME IInv, Restart
  PROVE  IInv'
<1>0. Shape /\ Listed
  BY DEF IInv
<1>1. /\ current = 0 /\ opened < MaxWriters /\ opened' = opened + 1 /\ current' = opened + 1
      /\ stamper' = disk.meta.opstamp /\ managed_paths' = disk.managed
      /\ updater' = [updater EXCEPT ![opened + 1] = NewUpdater(disk.meta)]
      /\ UNCHANGED <<disk, unsynced, worker, merge, writing, reader, next_seg>>
  BY DEF Restart, OpenWriter
<1>2. PICK c \in Writers : c = opened + 1
  BY <1>0, <1>1 DEF Shape, Writers
<1>3. PICK q \in Updater : q = NewUpdater(disk.meta)
  <2>1. disk.meta \in MetaFile
    BY <1>0 DEF Shape, Disk
  <2>2. QED
    BY <2>1, NewUpdaterFacts
<1>4. /\ updater' \in [Writers -> Updater] /\ updater'[c] = q
      /\ \A v \in Writers : v # c => updater'[v] = updater[v]
  BY <1>0, <1>1, <1>2, <1>3 DEF Shape
<1>5. \A v \in Writers : v # current
  BY <1>1 DEF Writers
<1>6. QED
  BY <1>1, <1>2, <1>3, <1>4, <1>5, NewWriter

-----------------------------------------------------------------------------
(* Failures.                                                                 *)
LEMMA MemoryLostStep ==
  ASSUME IInv, MemoryLost, Shape', Listed', Published',
         \A r \in Readers : reader'[r] # None => reader'[r] \subseteq disk'.files
  PROVE  IInv'
<1>1. PICK q \in Updater : q = NewUpdater([opstamp |-> 0, segments |-> {}])
  BY NewUpdaterFacts DEF MetaFile
<1>2. /\ q.uncommitted = {} /\ q.committed = {} /\ q.step = "idle" /\ q.tasks = <<>> /\ q.entries = {}
      /\ q.gc = {} /\ q.deleted = {}
  BY <1>1, NewUpdaterFacts DEF MetaFile
<1>3. /\ current' = 0 /\ managed_paths' = {}
      /\ \A u \in Writers : updater'[u] = q /\ worker'[u] = None /\ merge'[u] = NoMerge
      /\ \A t \in Threads : writing'[t] = None
  BY <1>1 DEF MemoryLost
<1>4. \A u \in Writers : u # current'
  BY <1>3 DEF Writers
<1>5. WritingOK' /\ Queue' /\ Merging'
  BY <1>3, <1>4 DEF WritingOK, Queue, Merging
<1>6. Doom'
  BY <1>2, <1>3 DEF Doom, Doomed, WrittenBy
<1>7. \A u \in Writers : StillOf(u)'
  BY <1>2, <1>3, <1>4, ThreadNames DEF StillOf
<1>8. \A u \in Writers : KeepsOf(u)' /\ Apart(u)'
  BY <1>2, <1>3, <1>4 DEF KeepsOf, Named, Apart
<1>9. QED
  BY <1>4, <1>5, <1>6, <1>7, <1>8 DEF IInv, Still, Keeps, Segs

LEMMA MemoryLostShape ==
  ASSUME Shape, MemoryLost, disk' \in Disk, unsynced' \subseteq Directory,
         reader' \in [Readers -> (SUBSET FileNames) \cup {None}]
  PROVE  Shape' /\ \A f : ~Doomed(f)'
<1>1. PICK q \in Updater : q = NewUpdater([opstamp |-> 0, segments |-> {}]) /\ q.gc = {}
  BY NewUpdaterFacts DEF MetaFile
<1>2. /\ updater' = [u \in Writers |-> q] /\ worker' = [u \in Writers |-> None]
      /\ merge' = [u \in Writers |-> NoMerge] /\ writing' = [t \in Threads |-> None]
      /\ current' = 0 /\ managed_paths' = {} /\ UNCHANGED <<opened, stamper, next_seg>>
  BY <1>1 DEF MemoryLost
<1>3. current' \in 0 .. opened'
  BY <1>2 DEF Shape, Writers
<1>4. updater' \in [Writers -> Updater] /\ worker' \in [Writers -> Metas \cup {None}]
      /\ merge' \in [Writers -> Merge] /\ writing' \in [Threads -> Writing \cup {None}]
  BY <1>2, NoMergeFacts
<1>5. \A f : ~Doomed(f)'
  BY <1>1, <1>2 DEF Doomed
<1>6. QED
  BY <1>2, <1>3, <1>4, <1>5 DEF Shape

LEMMA CrashStep ==
  ASSUME IInv, Crash
  PROVE  IInv'
<1>0. Shape /\ Listed /\ Published /\ Doom
  BY DEF IInv
<1>1. MemoryLost /\ UNCHANGED <<disk, unsynced, reader>>
  BY DEF Crash
<1>2. current' = 0 /\ managed_paths' = {} /\ UNCHANGED <<opened, stamper, next_seg>>
  BY <1>1 DEF MemoryLost
<1>3. Shape' /\ \A f : ~Doomed(f)'
  BY <1>0, <1>1, MemoryLostShape DEF Shape
<1>4. Listed'
  BY <1>0, <1>1, <1>2 DEF Listed, Entries, Made
<1>5. Stays \subseteq Stays'
  BY <1>1, <1>3 DEF Stays
<1>6. Published'
  <2>1. Named(disk.meta.segments, Stays)'
    BY <1>0, <1>1, <1>5 DEF Published, Named
  <2>2. \A v \in Writers : v # current'
    BY <1>2 DEF Writers
  <2>3. QED
    BY <1>0, <1>1, <2>1, <2>2 DEF Published, Named, OneEach, Newer
<1>7. \A r \in Readers : reader'[r] # None => reader'[r] \subseteq disk'.files
  BY <1>0, <1>1 DEF Doom
<1>8. QED
  BY <1>1, <1>3, <1>4, <1>6, <1>7, MemoryLostStep

\* Whatever the loss of power leaves of the directory is whole.
LEMMA PowerLossStep ==
  ASSUME IInv, PowerLoss
  PROVE  IInv'
<1>0. Shape /\ Listed /\ Published
  BY DEF IInv
<1>1. PICK e \in unsynced :
        disk' = [disk EXCEPT !.files = e.files, !.meta = e.meta, !.managed = e.managed] /\ unsynced' = {e}
  BY DEF PowerLoss, AfterPowerLoss
<1>2. MemoryLost /\ reader' = [r \in Readers |-> None]
  BY DEF PowerLoss
<1>3. current' = 0 /\ managed_paths' = {} /\ UNCHANGED <<opened, stamper, next_seg>>
  BY <1>2 DEF MemoryLost
<1>4. e \in Directory /\ disk \in Disk /\ e.meta.segments \subseteq Metas
  BY <1>0 DEF Shape, Directory, MetaFile
<1>5. /\ disk' \in Disk /\ disk'.files = e.files /\ disk'.meta = e.meta /\ disk'.managed = e.managed
      /\ disk'.closed = disk.closed
  BY <1>1, <1>4 DEF Directory, Disk
<1>6. Entries(disk)' = e
  BY <1>4, <1>5 DEF Entries, Directory
<1>7. Shape' /\ \A f : ~Doomed(f)'
  BY <1>0, <1>1, <1>2, <1>4, <1>5, MemoryLostShape
<1>8. Listed'
  <2>1. \A f : Made(f)' = Made(f)
    BY <1>3 DEF Made
  <2>2. QED
    BY <1>0, <1>1, <1>3, <1>5, <1>6, <2>1 DEF Listed
<1>9. /\ Named(e.meta.segments, e.files) /\ Named(e.meta.segments, disk.closed) /\ OneEach(e.meta.segments)
      /\ e.meta.opstamp =< MaxOpstamp /\ \A m \in e.meta.segments : m.del =< e.meta.opstamp
  BY <1>0 DEF Published
<1>10. Published'
  <2>1. Named(e.meta.segments, Stays')
    BY <1>5, <1>7, <1>9 DEF Named, Stays
  <2>2. \A m, n \in e.meta.segments : m.seg = n.seg => m.del =< n.del
    BY <1>4, <1>9 DEF OneEach, Metas
  <2>3. \A v \in Writers : v # current'
    BY <1>3 DEF Writers
  <2>4. Named(e.meta.segments, e.managed)
    BY <1>0, <1>9 DEF Listed, Named
  <2>5. QED
    BY <1>1, <1>5, <1>9, <2>1, <2>2, <2>3, <2>4 DEF Published, Named, OneEach, Newer
<1>11. \A r \in Readers : reader'[r] # None => reader'[r] \subseteq disk'.files
  BY <1>2
<1>12. QED
  BY <1>2, <1>7, <1>8, <1>10, <1>11, MemoryLostStep

-----------------------------------------------------------------------------
(* The theorems.                                                             *)

\* What the theorems assume of the owner: it rolls back when the updater has
\* nothing to do, or never, and its first operation is not a delete.
Quiet == (QuietRollback \/ "rollback" \notin Calls) /\ "first_delete" \notin Calls

LEMMA InitIInv ==
  ASSUME Init
  PROVE  IInv
<1> DEFINE meta == [opstamp |-> 0, segments |-> {}]
<1>1. /\ disk = [files |-> {}, closed |-> {}, managed |-> {}, meta |-> meta]
      /\ unsynced = {Entries(disk)} /\ managed_paths = disk.managed /\ current = 1 /\ opened = 1 /\ stamper = 0
      /\ updater = [u \in Writers |-> NewUpdater(disk.meta)]
      /\ worker = [u \in Writers |-> None] /\ merge = [u \in Writers |-> NoMerge]
      /\ writing = [t \in Threads |-> None] /\ reader = [r \in Readers |-> None] /\ next_seg = 1
  BY DEF Init
<1>2. meta \in MetaFile /\ meta.opstamp = 0 /\ meta.segments = {}
  BY DEF MetaFile
<1>3. disk \in Disk /\ disk.files = {} /\ disk.closed = {} /\ disk.managed = {} /\ disk.meta = meta
  BY <1>1, <1>2 DEF Disk
<1> HIDE DEF meta
<1>4. PICK q \in Updater : q = NewUpdater(meta)
  BY <1>2, NewUpdaterFacts
<1>5. /\ q.alive /\ q.uncommitted = {} /\ q.committed = {} /\ q.active = meta /\ q.tasks = <<>> /\ Len(q.tasks) = 0
      /\ q.step = "idle" /\ q.task = NoTask /\ q.entries = {} /\ q.todo = {} /\ q.gc = {} /\ q.deleted = {}
  BY <1>2, <1>4, NewUpdaterFacts
<1>6. updater = [u \in Writers |-> q] /\ \A u \in Writers : updater[u] = q
  BY <1>1, <1>3, <1>4
<1>7. /\ \A u \in Writers : worker[u] = None /\ merge[u] = NoMerge
      /\ \A t \in Threads : writing[t] = None
      /\ \A u \in Writers : /\ writing[<<u, "worker">>] = None /\ writing[<<u, "updater">>] = None
                            /\ writing[<<u, "merge">>] = None
  BY <1>1, ThreadNames
<1>8. /\ Entries(disk) \in Directory /\ Entries(disk).files = {} /\ Entries(disk).managed = {}
      /\ Entries(disk).meta = meta
  BY <1>2, <1>3 DEF Entries, Directory
<1>9. Shape
  <2>1. /\ updater \in [Writers -> Updater] /\ worker \in [Writers -> Metas \cup {None}]
        /\ merge \in [Writers -> Merge] /\ writing \in [Threads -> Writing \cup {None}]
        /\ reader \in [Readers -> (SUBSET FileNames) \cup {None}]
    BY <1>1, <1>6, NoMergeFacts
  <2>2. opened \in Writers /\ current \in 0 .. opened /\ stamper \in 0 .. MaxOpstamp + 1 /\ next_seg \in 1 .. MaxSegments + 1
    BY <1>1 DEF Writers
  <2>3. QED
    BY <1>1, <1>3, <1>8, <2>1, <2>2 DEF Shape
<1>10. Still
  BY <1>1, <1>5, <1>6, <1>7 DEF Still, StillOf
<1>11. Listed
  BY <1>1, <1>3, <1>8 DEF Listed
<1>12. Published
  <2>1. \A e \in unsynced : e.meta.segments = {} /\ e.meta.opstamp = 0
    BY <1>1, <1>2, <1>8
  <2>2. disk.meta.segments = {} /\ \A u \in Writers : updater[u].active = disk.meta
    BY <1>2, <1>3, <1>5, <1>6
  <2>3. QED
    BY <2>1, <2>2 DEF Published, Named, Newer, OneEach
<1>13. WritingOK /\ Doom
  BY <1>1, <1>2, <1>3, <1>5, <1>6, <1>7 DEF WritingOK, Doom, WrittenBy
<1>14. Keeps
  BY <1>2, <1>5, <1>6, <1>7 DEF Keeps, KeepsOf, Named
<1>15. Segs
  BY <1>5, <1>6, <1>7 DEF Segs, SegsOf, Apart, OneEach, Newer
<1>16. \A u \in Writers : Queued(u) = {}
  BY <1>5, <1>6 DEF Queued
<1>17. Queue
  BY <1>5, <1>6, <1>7, <1>16 DEF Queue, QueueOf, TaskOf, EndingMerge, Purging, Saving, NoTask
<1>18. Merging
  <2>1. ASSUME NEW u \in Writers PROVE MergeOf(u, merge[u], stamper)
    <3>1. Sources(u, NoMerge) /\ Result(u, NoMerge)
      BY <1>5, <1>6, <1>7, NoMergeFacts DEF Sources, Result, Over, Named, OneEach, EndingMerge
    <3>2. Stamps(u, NoMerge, 0)
      BY <1>2, <1>5, <1>6, NoMergeFacts DEF Stamps, Purging, Saving
    <3>3. QED
      BY <1>1, <1>7, <1>16, <3>1, <3>2 DEF MergeOf
  <2>2. QED
    BY <2>1 DEF Merging
<1>19. QED
  BY <1>9, <1>10, <1>11, <1>12, <1>13, <1>14, <1>15, <1>17, <1>18 DEF IInv

LEMMA NextIInv ==
  ASSUME Quiet, IInv, NoFirst, [Next]_vars
  PROVE  IInv'
<1>1. ASSUME NEW t \in Threads, WriteNext(t) PROVE IInv'
  BY <1>1, RegisterStep, OpenWriteStep, TerminateStep DEF WriteNext
<1>2. ASSUME NEW u \in Writers, OwnerNext(u) PROVE IInv'
  <2>1. CASE Rollback(u)
    <3>1. QuietRollback
      BY <2>1 DEF Quiet, Rollback
    <3>2. QED
      BY <2>1, <3>1, RollbackStep
  <2>2. QED
    BY <1>2, <2>1, NewSegmentStep, ScheduleCommitStep, ScheduleGarbageCollectStep, MergeSegmentsStep
       DEF OwnerNext, FirstDelete, Quiet
<1>3. ASSUME NEW u \in Writers, ScheduleAddSegment(u) PROVE IInv'
  BY <1>3, ScheduleAddSegmentStep, OldWorkerStep
<1>4. ASSUME NEW u \in Writers, UpdaterNext(u) PROVE IInv'
  BY <1>4, AddSegmentStep, StartCommitStep, StartEndMergeStep, StartGarbageCollectStep, AdvanceDeletesStep,
     DeletesAdvancedStep, CommitSegmentsStep, EndMergeStep, SaveMetasStep, SyncDirectoryStep, WriteMetaStep,
     ConsiderMergeStep, ListGarbageStep, DeleteFileStep, ForgetDeletedStep DEF UpdaterNext
<1>5. ASSUME NEW u \in Writers, MergeNext(u) PROVE IInv'
  BY <1>5, MergeAdvanceStep, MergeFinishedStep, MergeFailedStep, MergeWriteStep,
     ScheduleEndMergeStep DEF MergeNext
<1>6. ASSUME NEW r \in Readers, LoadMetas(r) \/ OpenRead(r) PROVE IInv'
  BY <1>6, LoadMetasStep, OpenReadStep
<1>7. CASE Crash \/ PowerLoss \/ Restart
  BY <1>7, CrashStep, PowerLossStep, RestartStep
<1>8. CASE UNCHANGED vars
  BY <1>8, StutterStep
<1>9. QED
  BY <1>1, <1>2, <1>3, <1>4, <1>5, <1>6, <1>7, <1>8 DEF Next

LEMMA NextNoFirst ==
  ASSUME Quiet, NoFirst, [Next]_vars
  PROVE  NoFirst'
<1>1. ASSUME NEW u \in Writers, OwnerNext(u) PROVE NoFirst'
  BY <1>1 DEF OwnerNext, NewSegment, FirstDelete, ScheduleCommit, ScheduleGarbageCollect, MergeSegments, Rollback,
     OpenWriter, owner, Quiet, NoFirst
<1>2. ASSUME NEW u \in Writers, UpdaterNext(u) PROVE NoFirst'
  BY <1>2 DEF UpdaterNext, AddSegment, StartCommit, StartEndMerge, StartGarbageCollect, AdvanceDeletes,
     DeletesAdvanced, CommitSegments, EndMerge, SaveMetas, SyncDirectory, WriteMeta, ConsiderMerge, ListGarbage,
     DeleteFile, ForgetDeleted, owner, NoFirst
<1>3. ASSUME NEW u \in Writers, ScheduleAddSegment(u) \/ MergeNext(u) PROVE NoFirst'
  BY <1>3 DEF ScheduleAddSegment, MergeNext, MergeAdvance, MergeAdvanced, MergeWrite, ScheduleEndMerge,
     owner, NoFirst
<1>4. ASSUME NEW t \in Threads, WriteNext(t) PROVE NoFirst'
  BY <1>4 DEF WriteNext, register_file_as_managed, open_write, terminate, threads, owner, NoFirst
<1>5. ASSUME NEW r \in Readers, LoadMetas(r) \/ OpenRead(r) PROVE NoFirst'
  BY <1>5 DEF LoadMetas, OpenRead, owner, NoFirst
<1>6. CASE Crash \/ PowerLoss \/ Restart
  BY <1>6 DEF Crash, PowerLoss, MemoryLost, Restart, OpenWriter, NoFirst
<1>7. CASE UNCHANGED vars
  BY <1>7 DEF vars, NoFirst
<1>8. QED
  BY <1>1, <1>2, <1>3, <1>4, <1>5, <1>6, <1>7 DEF Next

\* The inductive invariant of the directory, the updaters, the merges and the
\* threads that write files, whatever fails and whenever it does.
THEOREM FilesInvariant ==
  ASSUME Quiet
  PROVE  Spec => []IInv
<1>1. Init => IInv /\ NoFirst
  BY InitIInv DEF Init, NoFirst
<1>2. IInv /\ NoFirst /\ [Next]_vars => (IInv /\ NoFirst)'
  BY NextIInv, NextNoFirst
<1>3. QED
  BY <1>1, <1>2, PTL DEF Spec

\* A meta that something in the process holds names files that are there, or
\* that a thread is still writing.
LEMMA HeldFiles ==
  ASSUME IInv, NEW u \in Writers, NEW m \in Held(u), NEW f, f = File(m.seg, 0) \/ f = File(m.seg, m.del)
  PROVE  f \in disk.files \/ f \in BeingWritten
<1>0. Shape
  BY DEF IInv
<1>1. KeepsOf(u) /\ StillOf(u)
  BY DEF IInv, Keeps, Still
<1>2. ASSUME NEW t \in Threads, f \in Stays \cup WrittenBy(t) PROVE f \in disk.files \/ f \in BeingWritten
  BY <1>2 DEF Stays, WrittenBy, BeingWritten
<1>3. <<u, "worker">> \in Threads /\ <<u, "updater">> \in Threads /\ <<u, "merge">> \in Threads
  BY ThreadNames
<1>4. CASE m = worker[u] /\ m # None
  <2>1. f \in Stays \cup WrittenBy(<<u, "worker">>)
    BY <1>1, <1>4 DEF KeepsOf, Named
  <2>2. QED
    BY <1>2, <1>3, <2>1
<1>5. CASE m \in updater[u].entries
  <2>1. f \in Stays \cup WrittenBy(<<u, "updater">>)
    BY <1>1, <1>5 DEF KeepsOf, Named
  <2>2. QED
    BY <1>2, <1>3, <2>1
<1>6. CASE m \in merge[u].sources \/ (m = merge[u].merged /\ m # None)
  <2>1. merge[u] # NoMerge
    BY <1>6, NoMergeFacts
  <2>2. u = current
    BY <2>1, Works
  <2>3. Sources(u, merge[u]) /\ Result(u, merge[u])
    BY <2>2, Parts DEF MergeOf
  <2>4. f \in Stays \cup WrittenBy(<<u, "merge">>)
    BY <1>6, <2>3 DEF Sources, Result, Over, Named
  <2>5. QED
    BY <1>2, <1>3, <2>4
<1>7. CASE \E i \in DOMAIN updater[u].tasks : m = updater[u].tasks[i].entry /\ m # None
  <2>1. PICK i \in DOMAIN updater[u].tasks : m = updater[u].tasks[i].entry /\ m # None
    BY <1>7
  <2>2. updater[u].tasks \in Seq(Task)
    BY <1>0, Types
  <2>3. i \in Queued(u) /\ updater[u].tasks # <<>>
    BY <2>1, <2>2 DEF Queued
  <2>4. u = current
    BY <2>3, Works
  <2>5. ItemOf(u, i) /\ EndItem(u, merge[u], i)
    BY <2>3, <2>4, Parts DEF QueueOf, MergeOf
  <2>6. m = worker[u] \/ m = merge[u].merged
    BY <2>1, <2>5 DEF ItemOf, EndItem, Over, IsTask
  <2>7. QED
    BY <1>4, <1>6, <2>1, <2>6
<1>8. CASE /\ u = current \/ Busy(u)
           /\ m \in updater[u].uncommitted \cup updater[u].committed \cup updater[u].active.segments
  <2>1. u = current \/ worker[u] # None
    BY <1>8, Works DEF Busy
  <2>2. f \in Stays
    BY <1>1, <1>8, <2>1 DEF KeepsOf, Named
  <2>3. QED
    BY <2>2 DEF Stays
<1>9. QED
  BY <1>4, <1>5, <1>6, <1>7, <1>8 DEF Held, OfTask

LEMMA IInvImplies ==
  ASSUME IInv
  PROVE  TypeOK /\ PublishedFilesDurable /\ LivingFilesExist /\ ReaderFindsFiles /\ NoOrphan
<1>0. Shape /\ Listed /\ Published /\ Doom /\ Segs
  BY DEF IInv
<1>1. PICK now \in unsynced : now.files = disk.files /\ now.meta = disk.meta /\ now.managed = disk.managed
  BY <1>0 DEF Listed, Entries
<1>2. NoOrphan
  BY <1>0, <1>1 DEF NoOrphan, Listed
<1>3. TypeOK
  <2>1. \A f : Made(f) => IsFile(f)
    BY <1>0 DEF Made, IsFile, File, Shape
  <2>2. \A f \in disk.files \cup disk.closed \cup disk.managed \cup managed_paths : Made(f)
    BY <1>0, <1>1 DEF Listed
  <2>3. \A u \in Writers : ids(updater[u].uncommitted) \cap ids(updater[u].committed) = {}
    BY <1>0 DEF Segs, Apart, ids
  <2>4. QED
    BY <1>0, <2>1, <2>2, <2>3 DEF TypeOK, Shape, Listed
<1>4. PublishedFilesDurable
  <2>1. ASSUME NEW e \in unsynced PROVE Named(disk.meta.segments, e.files \cap disk.closed)
    BY <1>0 DEF Published, Named, Stays
  <2>2. QED
    BY <2>1, NamedFiles DEF PublishedFilesDurable
<1>5. LivingFilesExist
  <2>1. SUFFICES ASSUME NEW f \in FilesOf(list_all_segment_metas) PROVE f \in disk.files \/ f \in BeingWritten
    BY DEF LivingFilesExist
  <2>2. PICK m \in list_all_segment_metas : f = File(m.seg, 0) \/ f = File(m.seg, m.del)
    BY NamedFiles DEF Names
  <2>3. PICK u \in 1 .. opened : m \in Held(u)
    BY DEF list_all_segment_metas
  <2>4. u \in Writers
    BY <1>0 DEF Shape, Writers
  <2>5. QED
    BY <2>2, <2>3, <2>4, HeldFiles
<1>6. ReaderFindsFiles
  BY <1>0 DEF ReaderFindsFiles, Doom
<1>7. QED
  BY <1>0, <1>2, <1>3, <1>4, <1>5, <1>6

\* Everything that is on the disk or in memory is about segments that were made,
\* and no segment is in both registers of a SegmentManager.
THEOREM FilesTypes ==
  ASSUME Quiet
  PROVE  Spec => []TypeOK
<1>1. IInv => TypeOK
  BY IInvImplies
<1>2. QED
  BY <1>1, FilesInvariant, PTL

\* Whenever a process stops or the power fails, every file that meta.json names
\* is in the directory, complete (save_metas syncs the directory before it
\* replaces meta.json; garbage_collect spares the files of list_files).
THEOREM PublishedFilesAreDurable ==
  ASSUME Quiet
  PROVE  Spec => []PublishedFilesDurable
<1>1. IInv => PublishedFilesDurable
  BY IInvImplies
<1>2. QED
  BY <1>1, FilesInvariant, PTL

\* garbage_collect never deletes a file of a segment that the registers, a
\* merge, a task or an indexing worker still holds.
THEOREM LivingFilesAreSpared ==
  ASSUME Quiet
  PROVE  Spec => []LivingFilesExist
<1>1. IInv => LivingFilesExist
  BY IInvImplies
<1>2. QED
  BY <1>1, FilesInvariant, PTL

\* META_LOCK is enough: a reader that loaded meta.json in another process opens
\* all of its files, though garbage_collect deletes them without the lock.
THEOREM ReadersFindTheirFiles ==
  ASSUME Quiet
  PROVE  Spec => []ReaderFindsFiles
<1>1. IInv => ReaderFindsFiles
  BY IInvImplies
<1>2. QED
  BY <1>1, FilesInvariant, PTL

\* Every file of the directory is in .managed.json, so that a later
\* garbage_collect finds what a crash left behind (register_file_as_managed).
THEOREM NothingIsOrphaned ==
  ASSUME Quiet
  PROVE  Spec => []NoOrphan
<1>1. IInv => NoOrphan
  BY IInvImplies
<1>2. QED
  BY <1>1, FilesInvariant, PTL

-----------------------------------------------------------------------------
(* What a failure costs. The last commit that returned is in meta.json, and  *)
(* the one before it in every state of the directory that a loss of power    *)
(* may restore; while a commit is between its sync and its answer, the last  *)
(* one is too.                                                               *)
Past(u) == updater[u].step \in {"write", "gc", "delete"} /\ updater[u].task.kind = "commit"
InAll(opstamp) == \A e \in unsynced : opstamp =< e.meta.opstamp
Durable ==
  /\ acked \in Nat /\ settled \in Nat
  /\ acked =< disk.meta.opstamp /\ InAll(settled)
  /\ \A u \in Writers : Past(u) => InAll(acked)

\* What most steps are for the commits: nothing new is published or answered.
Plain ==
  /\ UNCHANGED <<acked, settled>> /\ disk'.meta = disk.meta
  /\ \A e \in unsynced' : e \in unsynced \/ e.meta = disk.meta
  /\ \A v \in Writers : Past(v)' => Past(v)

\* The step keeps the commits that EarlierCommitsSurvive speaks of.
KeepsCommits == disk'.meta.opstamp >= settled /\ (current' # 0 => disk'.meta.opstamp >= acked)

LEMMA Opstamps ==
  ASSUME IInv
  PROVE  /\ disk.meta.opstamp \in Nat /\ \A e \in unsynced : e.meta.opstamp \in Nat
         /\ \E e \in unsynced : e.meta = disk.meta
<1>1. disk \in Disk /\ unsynced \subseteq Directory /\ Entries(disk) \in unsynced
  BY DEF IInv, Shape, Listed
<1>2. QED
  BY <1>1 DEF Disk, Directory, MetaFile, Entries

LEMMA PlainStep ==
  ASSUME IInv, Durable, Plain
  PROVE  Durable' /\ KeepsCommits
<1>1. settled =< disk.meta.opstamp /\ acked =< disk.meta.opstamp /\ acked \in Nat /\ settled \in Nat
  BY Opstamps DEF Durable, InAll
<1>2. InAll(settled)'
  BY <1>1 DEF Plain, Durable, InAll
<1>3. ASSUME NEW v \in Writers, Past(v)' PROVE InAll(acked)'
  BY <1>1, <1>3 DEF Plain, Durable, InAll
<1>4. QED
  BY <1>1, <1>2, <1>3, Opstamps DEF Plain, Durable, KeepsCommits

\* A step of the updater that is not in the second half of a commit, nor enters it.
LEMMA PastOf ==
  ASSUME IInv, NEW u \in Writers, NEW q, Update(u, q), q.step \in {"write", "gc", "delete"} => Past(u) /\ q.task = updater[u].task
  PROVE  \A v \in Writers : Past(v)' => Past(v)
  BY DEF IInv, Shape, Update, Past

LEMMA PastScheduled ==
  ASSUME IInv, NEW u \in Writers, NEW task, updater' = schedule_task(u, task)
  PROVE  \A v \in Writers : Past(v)' => Past(v)
<1>1. updater[u] \in Updater
  BY DEF IInv, Shape
<1>2. [updater[u] EXCEPT !.tasks = Append(@, task)].step = updater[u].step
      /\ [updater[u] EXCEPT !.tasks = Append(@, task)].task = updater[u].task
  BY <1>1 DEF Updater
<1>3. QED
  BY <1>2 DEF IInv, Shape, schedule_task, Past

LEMMA WritePlain ==
  ASSUME IInv, NEW t \in Threads, WriteNext(t)
  PROVE  Plain
<1>1. disk \in Disk
  BY DEF IInv, Shape
<1>2. UNCHANGED <<acked, settled, updater>>
  BY DEF WriteNext, register_file_as_managed, open_write, terminate, threads, owner
<1>3. disk'.meta = disk.meta /\ \A e \in unsynced' : e \in unsynced \/ e.meta = disk.meta
  <2>1. CASE register_file_as_managed(t)
    BY <1>1, <2>1 DEF register_file_as_managed, Change, Entries, Disk
  <2>2. CASE open_write(t)
    <3> DEFINE d == [disk EXCEPT !.files = @ \cup {writing[t].file}, !.closed = @ \ {writing[t].file}]
    <3>1. d.meta = disk.meta
      BY <1>1 DEF Disk
    <3>2. Entries(d).meta = disk.meta
      BY <3>1 DEF Entries
    <3>3. \/ UNCHANGED <<disk, unsynced>>
          \/ disk' = d /\ unsynced' = unsynced \cup {Entries(d)}
      BY <2>2 DEF open_write, Create, Change
    <3> HIDE DEF d
    <3>4. QED
      BY <3>1, <3>2, <3>3
  <2>3. CASE terminate(t)
    BY <1>1, <2>3 DEF terminate, Disk
  <2>4. QED
    BY <2>1, <2>2, <2>3 DEF WriteNext
<1>4. QED
  BY <1>2, <1>3 DEF Plain, Past

LEMMA OwnerPlain ==
  ASSUME IInv, NEW u \in Writers, OwnerNext(u) \/ ScheduleAddSegment(u) \/ MergeNext(u)
  PROVE  Plain
<1>1. UNCHANGED <<disk, unsynced, acked, settled>>
  BY DEF OwnerNext, NewSegment, FirstDelete, ScheduleCommit, ScheduleGarbageCollect, MergeSegments, Rollback,
     ScheduleAddSegment, MergeNext, MergeAdvance, MergeAdvanced, MergeWrite, ScheduleEndMerge,
     storage, owner
<1>2. CASE UNCHANGED updater
  BY <1>1, <1>2 DEF Plain, Past
<1>3. CASE \E task : updater' = schedule_task(u, task)
  BY <1>1, <1>3, PastScheduled DEF Plain
<1>4. CASE Rollback(u)
  <2>1. PICK c \in Writers : c = opened'
    BY <1>4 DEF Rollback, OpenWriter, IInv, Shape, Writers
  <2>2. updater[u] \in Updater /\ NewUpdater(disk.meta).step = "idle"
    BY DEF IInv, Shape, NewUpdater
  <2>3. \A v \in Writers : Past(v)' => Past(v)
    BY <1>4, <2>1, <2>2 DEF Rollback, IInv, Shape, Past, Updater
  <2>4. QED
    BY <1>1, <2>3 DEF Plain
<1>5. QED
  BY <1>2, <1>3, <1>4 DEF OwnerNext, NewSegment, FirstDelete, ScheduleCommit, ScheduleGarbageCollect, MergeSegments,
     ScheduleAddSegment, MergeNext, MergeAdvance, MergeAdvanced, MergeWrite, ScheduleEndMerge

\* The updater's steps before meta.json is replaced, and the garbage collector's.
LEMMA UpdaterPlain ==
  ASSUME IInv, NEW u \in Writers, UpdaterNext(u), ~SyncDirectory(u), ~WriteMeta(u), ~ForgetDeleted(u)
  PROVE  Plain
<1>1. disk \in Disk /\ updater[u] \in Updater
  BY DEF IInv, Shape
<1>2. UNCHANGED <<acked, settled>> /\ disk'.meta = disk.meta /\ \A e \in unsynced' : e \in unsynced \/ e.meta = disk.meta
  <2>1. CASE DeleteFile(u)
    BY <1>1, <2>1 DEF DeleteFile, Change, Entries, Disk, owner
  <2>2. CASE ~DeleteFile(u)
    BY <2>2 DEF UpdaterNext, AddSegment, StartCommit, StartEndMerge, StartGarbageCollect, AdvanceDeletes,
       DeletesAdvanced, CommitSegments, EndMerge, SaveMetas, ConsiderMerge, ListGarbage, storage, owner
  <2>3. QED
    BY <2>1, <2>2
<1>3. \A v \in Writers : Past(v)' => Past(v)
  <2>1. CASE AddSegment(u)
    <3> DEFINE q == Idle([Taken(u) EXCEPT !.uncommitted = @ \cup {Head(updater[u].tasks).entry}])
    <3>1. q.step = "idle"
      BY <1>1 DEF Idle, Taken, Updater
    <3>2. Update(u, q)
      BY <2>1 DEF AddSegment
    <3>3. QED
      BY <3>1, <3>2, PastOf
  <2>a. ASSUME NEW E, NEW T, Update(u, [Taken(u) EXCEPT !.step = "purge", !.entries = E, !.todo = T])
        PROVE  \A v \in Writers : Past(v)' => Past(v)
    <3>1. [Taken(u) EXCEPT !.step = "purge", !.entries = E, !.todo = T].step = "purge"
      BY <1>1 DEF Taken, Updater
    <3>2. QED
      BY <2>a, <3>1, PastOf
  <2>b. CASE StartCommit(u)
    BY <2>a, <2>b DEF StartCommit
  <2>c. ASSUME NEW K, NEW E, NEW T, Update(u, [Taken(u) EXCEPT !.step = "purge", !.task = K, !.entries = E, !.todo = T])
        PROVE  \A v \in Writers : Past(v)' => Past(v)
    <3>1. [Taken(u) EXCEPT !.step = "purge", !.task = K, !.entries = E, !.todo = T].step = "purge"
      BY <1>1 DEF Taken, Updater
    <3>2. QED
      BY <2>c, <3>1, PastOf
  <2>d. CASE StartEndMerge(u)
    BY <2>c, <2>d DEF StartEndMerge
  <2>2. CASE StartGarbageCollect(u)
    <3>1. updater'[u].task.kind = "gc" /\ \A v \in Writers : v # u => updater'[v] = updater[v]
      BY <1>1, <2>2 DEF StartGarbageCollect, TaskIs, Update, Taken, Updater, IInv, Shape
    <3>2. QED
      BY <3>1 DEF Past
  <2>3. CASE AdvanceDeletes(u)
    <3>1. PICK m \in updater[u].todo :
            Update(u, [updater[u] EXCEPT !.todo = @ \ {m},
                         !.entries = (@ \ {m}) \cup {[m EXCEPT !.del = updater[u].task.opstamp]}])
      BY <2>3 DEF AdvanceDeletes
    <3>2. [updater[u] EXCEPT !.todo = @ \ {m},
             !.entries = (@ \ {m}) \cup {[m EXCEPT !.del = updater[u].task.opstamp]}].step = "purge"
      BY <1>1, <2>3 DEF AdvanceDeletes, Updater
    <3>3. QED
      BY <3>1, <3>2, PastOf
  <2>4. CASE DeletesAdvanced(u)
    <3>1. Idle(updater[u]).step = "idle"
      BY <1>1 DEF Idle, Updater
    <3>2. UNCHANGED updater \/ Update(u, Idle(updater[u]))
      BY <2>4 DEF DeletesAdvanced
    <3>3. QED
      BY <3>1, <3>2, PastOf DEF Past
  <2>5. CASE CommitSegments(u)
    <3> DEFINE q == [updater[u] EXCEPT !.committed = updater[u].entries, !.uncommitted = {}, !.entries = {}, !.step = "save"]
    <3>1. q.step = "save"
      BY <1>1 DEF Updater
    <3>2. Update(u, q)
      BY <2>5 DEF CommitSegments
    <3>3. QED
      BY <3>1, <3>2, PastOf
  <2>6. CASE EndMerge(u)
    <3>1. updater'[u].step \in {"merged", "save", "idle"} /\ \A v \in Writers : v # u => updater'[v] = updater[v]
      BY <2>6, EndMergeEffect DEF Effect
    <3>2. QED
      BY <3>1 DEF Past
  <2>7. CASE SaveMetas(u)
    <3>1. u = current
      BY <2>7, Works DEF SaveMetas
    <3>2. updater[u].alive
      BY <3>1, Parts
    <3>3. PICK empty \in SUBSET updater[u].committed :
            Update(u, [updater[u] EXCEPT !.committed = updater[u].committed \ empty, !.step = "sync",
                         !.meta = [opstamp |-> updater[u].task.opstamp, segments |-> updater[u].committed \ empty]])
      BY <2>7, <3>2 DEF SaveMetas
    <3>4. [updater[u] EXCEPT !.committed = updater[u].committed \ empty, !.step = "sync",
             !.meta = [opstamp |-> updater[u].task.opstamp, segments |-> updater[u].committed \ empty]].step = "sync"
      BY <1>1 DEF Updater
    <3>5. QED
      BY <3>3, <3>4, PastOf
  <2>8. CASE ConsiderMerge(u)
    <3>1. u = current
      BY <2>8, Works DEF ConsiderMerge
    <3>2. updater[u].task.kind = "end_merge"
      BY <2>8, <3>1, Parts DEF ConsiderMerge, TaskOf
    <3>3. updater'[u].task = updater[u].task /\ \A v \in Writers : v # u => updater'[v] = updater[v]
      BY <1>1, <2>8 DEF ConsiderMerge, Update, Updater, IInv, Shape
    <3>4. QED
      BY <3>2, <3>3 DEF Past
  <2>9. CASE ListGarbage(u)
    <3> DEFINE q == [updater[u] EXCEPT !.gc = managed_paths \ Living, !.step = "delete"]
    <3>1. q.task = updater[u].task
      BY <1>1 DEF Updater
    <3>2. Update(u, q) /\ updater[u].step = "gc"
      BY <2>9 DEF ListGarbage
    <3>3. QED
      BY <3>1, <3>2 DEF IInv, Shape, Update, Past
  <2>e. CASE DeleteFile(u)
    <3>1. PICK f \in updater[u].gc : Update(u, [updater[u] EXCEPT !.gc = @ \ {f}, !.deleted = @ \cup {f}])
      BY <2>e DEF DeleteFile
    <3>2. [updater[u] EXCEPT !.gc = @ \ {f}, !.deleted = @ \cup {f}].task = updater[u].task
      BY <1>1 DEF Updater
    <3>3. updater[u].step = "delete"
      BY <2>e DEF DeleteFile
    <3>4. QED
      BY <3>1, <3>2, <3>3 DEF IInv, Shape, Update, Past
  <2>10. QED
    BY <2>1, <2>b, <2>d, <2>e, <2>2, <2>3, <2>4, <2>5, <2>6, <2>7, <2>8, <2>9 DEF UpdaterNext
<1>4. QED
  BY <1>2, <1>3 DEF Plain

\* The directory is synced before meta.json is replaced, so the last commit is durable then.
LEMMA SyncDurable ==
  ASSUME IInv, Durable, NEW u \in Writers, SyncDirectory(u)
  PROVE  Durable' /\ KeepsCommits
<1>1. UNCHANGED <<disk, acked, settled>> /\ unsynced' = {Entries(disk)}
  BY DEF SyncDirectory, owner
<1>2. settled =< disk.meta.opstamp /\ acked =< disk.meta.opstamp /\ acked \in Nat /\ settled \in Nat
  BY Opstamps DEF Durable, InAll
<1>3. \A e \in unsynced' : e.meta = disk.meta
  BY <1>1 DEF Entries
<1>4. QED
  BY <1>1, <1>2, <1>3, Opstamps DEF Durable, InAll, KeepsCommits

LEMMA WriteDurable ==
  ASSUME IInv, Durable, NEW u \in Writers, WriteMeta(u)
  PROVE  Durable' /\ KeepsCommits
<1>1. /\ updater[u].step = "write" /\ Change([disk EXCEPT !.meta = updater[u].meta])
      /\ UNCHANGED <<acked, settled>>
  BY DEF WriteMeta, owner
<1>2. u = current
  BY <1>1, Works
<1>3. /\ updater[u].meta \in MetaFile /\ updater[u].meta.opstamp = updater[u].task.opstamp
      /\ disk.meta.opstamp =< updater[u].task.opstamp /\ updater[u].task.opstamp \in Nat
  BY <1>1, <1>2, Parts, Types DEF KeepsOf, TaskOf, Purging, Saving, IInv
<1>4. /\ disk'.meta = updater[u].meta
      /\ \A e \in unsynced' : e \in unsynced \/ e.meta = updater[u].meta
  BY <1>1 DEF Change, Entries, IInv, Shape, Disk
<1>5. settled =< disk.meta.opstamp /\ acked =< disk.meta.opstamp /\ acked \in Nat /\ settled \in Nat
  BY Opstamps DEF Durable, InAll
<1>6. settled =< disk'.meta.opstamp /\ acked =< disk'.meta.opstamp
  BY <1>3, <1>4, <1>5, Opstamps
<1>7. InAll(settled)'
  BY <1>1, <1>4, <1>6 DEF Durable, InAll
<1>8. ASSUME NEW v \in Writers, Past(v)' PROVE InAll(acked)'
  <2>1. updater'[u].task = updater[u].task /\ \A w \in Writers : w # u => updater'[w] = updater[w]
    BY DEF WriteMeta, Update, Updater, IInv, Shape
  <2>2. Past(v)
    BY <1>1, <1>8, <2>1 DEF Past
  <2>3. QED
    BY <1>1, <1>4, <1>6, <2>2 DEF Durable, InAll
<1>9. QED
  BY <1>1, <1>3, <1>4, <1>5, <1>6, <1>7, <1>8 DEF Durable, KeepsCommits

\* A commit answers: it is in meta.json, and the one before it was durable already.
LEMMA ForgetDurable ==
  ASSUME IInv, Durable, NEW u \in Writers, ForgetDeleted(u)
  PROVE  Durable' /\ KeepsCommits
<1>1. /\ updater[u].step = "delete"
      /\ IF updater[u].task.kind = "commit" THEN acked' = updater[u].task.opstamp /\ settled' = acked
         ELSE UNCHANGED <<acked, settled>>
      /\ Update(u, [Idle(updater[u]) EXCEPT !.deleted = {}])
  BY DEF ForgetDeleted
<1>2. u = current
  BY <1>1, Works
<1>3. /\ updater[u].task.opstamp \in Nat
      /\ updater[u].task.kind = "commit" => updater[u].task.opstamp =< disk.meta.opstamp
  BY <1>1, <1>2, Parts, Types DEF TaskOf, IInv
<1>4. disk'.meta = disk.meta /\ \A e \in unsynced' : e \in unsynced \/ e.meta = disk.meta
  BY ForgetDeletedStorage
<1>5. settled =< disk.meta.opstamp /\ acked =< disk.meta.opstamp /\ acked \in Nat /\ settled \in Nat
  BY Opstamps DEF Durable, InAll
<1>6. InAll(settled)'
  <2>1. CASE updater[u].task.kind = "commit"
    <3>1. InAll(acked)
      BY <1>1, <2>1 DEF Durable, Past
    <3>2. QED
      BY <1>1, <1>4, <1>5, <2>1, <3>1 DEF InAll
  <2>2. CASE updater[u].task.kind # "commit"
    BY <1>1, <1>4, <1>5, <2>2 DEF Durable, InAll
  <2>3. QED
    BY <2>1, <2>2
<1>7. \A v \in Writers : ~Past(v)'
  <2>1. updater'[u].step = "idle" /\ \A v \in Writers : v # u => updater'[v] = updater[v] /\ updater[v].step = "idle"
    <3>1. updater'[u].step = "idle" /\ \A v \in Writers : v # u => updater'[v] = updater[v]
      BY <1>1, Forgotten DEF Effect, IInv
    <3>2. \A v \in Writers : v # current => updater[v].step = "idle"
      BY DEF IInv, Still, StillOf
    <3>3. QED
      BY <1>2, <3>1, <3>2
  <2>2. QED
    BY <2>1 DEF Past
<1>8. QED
  BY <1>1, <1>3, <1>4, <1>5, <1>6, <1>7, Opstamps DEF Durable, KeepsCommits

LEMMA FailureDurable ==
  ASSUME IInv, Durable, Crash \/ PowerLoss
  PROVE  Durable' /\ KeepsCommits
<1>1. NewUpdater([opstamp |-> 0, segments |-> {}]).step = "idle"
  BY DEF NewUpdater
<1>2. MemoryLost
  BY DEF Crash, PowerLoss
<1>3. \A v \in Writers : ~Past(v)'
  BY <1>1, <1>2 DEF MemoryLost, Past
<1>4. current' = 0
  BY <1>2 DEF MemoryLost
<1>5. CASE Crash
  BY <1>3, <1>5, PlainStep DEF Crash, Plain
<1>6. CASE PowerLoss
  <2>1. PICK e \in unsynced :
          disk' = [disk EXCEPT !.files = e.files, !.meta = e.meta, !.managed = e.managed] /\ unsynced' = {e}
    BY <1>6 DEF PowerLoss, AfterPowerLoss
  <2>2. disk'.meta = e.meta /\ acked' = disk'.meta.opstamp /\ settled' = acked'
    BY <1>6, <2>1 DEF PowerLoss, IInv, Shape, Disk
  <2>3. e.meta.opstamp \in Nat /\ settled =< e.meta.opstamp /\ settled \in Nat
    BY Opstamps DEF Durable, InAll
  <2>4. QED
    BY <1>3, <1>4, <2>1, <2>2, <2>3 DEF Durable, InAll, KeepsCommits
<1>7. QED
  BY <1>5, <1>6

LEMMA NextDurable ==
  ASSUME IInv, Durable, [Next]_vars
  PROVE  Durable' /\ KeepsCommits
<1>1. ASSUME NEW u \in Writers, UpdaterNext(u) PROVE Durable' /\ KeepsCommits
  BY <1>1, UpdaterPlain, PlainStep, SyncDurable, WriteDurable, ForgetDurable
<1>2. ASSUME NEW r \in Readers, LoadMetas(r) \/ OpenRead(r) PROVE Plain
  BY <1>2 DEF LoadMetas, OpenRead, storage, owner, Plain, Past
<1>3. CASE Restart
  <2>1. PICK c \in Writers : c = opened'
    BY <1>3 DEF Restart, OpenWriter, IInv, Shape, Writers
  <2>2. NewUpdater(disk.meta).step = "idle"
    BY DEF NewUpdater
  <2>3. QED
    BY <1>3, <2>1, <2>2, PlainStep DEF Restart, IInv, Shape, Plain, Past
<1>4. CASE UNCHANGED vars
  BY <1>4, PlainStep DEF vars, Plain, Past
<1>5. QED
  BY <1>1, <1>2, <1>3, <1>4, WritePlain, OwnerPlain, FailureDurable, PlainStep DEF Next

\* A crash costs no commit that returned and a loss of power at most the last
\* one, though save_metas syncs the directory before it replaces meta.json and
\* not after; and indexing goes on from the last commit otherwise.
THEOREM EarlierCommitsAreDurable ==
  ASSUME Quiet
  PROVE  Spec => EarlierCommitsSurvive
<1>1. Init => Durable
  <2>1. SUFFICES ASSUME Init PROVE Durable
    OBVIOUS
  <2>2. IInv
    BY <2>1, InitIInv
  <2>3. acked = 0 /\ settled = 0 /\ \A u \in Writers : updater[u].step = "idle"
    BY <2>1 DEF Init, NewUpdater
  <2>4. QED
    BY <2>2, <2>3, Opstamps DEF Durable, InAll, Past
<1>2. IInv /\ Durable /\ [Next]_vars => Durable' /\ KeepsCommits
  BY NextDurable
<1>3. QED
  BY <1>1, <1>2, FilesInvariant, PTL DEF Spec, EarlierCommitsSurvive, KeepsCommits
=============================================================================
