------------------------------- MODULE Indexer -------------------------------
(***************************************************************************)
(* tantivy's IndexWriter and SegmentUpdater: what becomes of documents and *)
(* deletes between add_document, delete_term and the published meta.json.  *)
(*                                                                         *)
(* Clients call the methods that take &self concurrently; the owner of the *)
(* writer calls the ones that take &mut self, alone. Indexing workers turn *)
(* documents into segments, one updater thread runs the tasks queued for   *)
(* it in order, and merging threads merge segments on the side. The delete *)
(* queue is the log that DeleteQueue implements: a cursor is a position.   *)
(*                                                                         *)
(* Files are not modelled here (SegmentFiles has them), nor failures.      *)
(***************************************************************************)
EXTENDS Naturals, Sequences, FiniteSets, FiniteSetsExt

CONSTANTS Clients,      \* threads that share the writer
          Workers,      \* indexing threads (num_threads)
          Merges,       \* merging threads
          Terms,        \* what documents contain and deletes name
          Groups,       \* the groups of operations given to run
          Calls,        \* the calls clients make: subset of the kinds below
          OwnerCalls,   \* the calls the owner makes: subset of the kinds below
          MaxOps,       \* operations by all clients (a bound)
          MaxCommits,   \* commits and rollbacks (a bound)
          MaxSegments,  \* no merge starts once this many segments were made (a bound)
          PIPELINE_MAX_SIZE_IN_DOCS,
          None

ClientCalls == {"add_document", "delete_term", "run", "delete_all_documents"}
MutCalls == {"commit", "commit_future", "rollback", "merge"}

Docs == [n : Nat, opstamp : Nat, term : Terms]

ASSUME IndexerAssumption ==
  /\ Calls \subseteq ClientCalls
  /\ OwnerCalls \subseteq MutCalls
  /\ \A group \in Groups : group \in Seq([kind : {"add", "delete"}, term : Terms])
  /\ MaxOps \in Nat /\ MaxCommits \in Nat /\ MaxSegments \in Nat
  /\ PIPELINE_MAX_SIZE_IN_DOCS \in Nat \ {0}
  /\ None \notin [alive : SUBSET Docs, opstamp : Nat]

VARIABLES
  stamper,      \* Stamper: the next opstamp
  delete_queue, \* the log of DeleteOperations
  channel,      \* batches of AddOperations on their way to the workers
  client,       \* each client's call: operations to push, documents to send
  worker,       \* each indexing thread
  owner,        \* the owner's call: "idle", "joining", "prepared" or "waiting"
  tasks,        \* the closures queued on the updater's pool
  updating,     \* the task the updater is in the middle of
  uncommitted, committed,  \* SegmentRegisters: sets of SegmentEntry
  merge,        \* each merging thread's MergeOperation and entries
  meta,         \* meta.json, and active_index_meta
  committed_opstamp, \* of IndexWriter: what meta had when the writer was opened
  next_id,      \* SegmentId::generate_random
  commits,      \* commits and rollbacks made
  history,      \* auxiliary: the operations, and which returned before which began
  published     \* auxiliary: the history behind meta

vars == <<stamper, delete_queue, channel, client, worker, owner, tasks, updating, uncommitted,
          committed, merge, meta, committed_opstamp, next_id, commits, history, published>>
registers == <<uncommitted, committed>>
pipeline == <<channel, client, worker>>
updater == <<tasks, updating, uncommitted, committed, merge, meta, next_id>>
aux == <<history, published>>

-----------------------------------------------------------------------------
(* Deletes. A cursor is the number of operations it has passed. *)
QueueLen == Len(delete_queue)

\* Mutant: a segment starts at the end of the queue.
skip_all(cursor, target) == QueueLen

\* DeleteCursor::skip_to.
skip_to(cursor, target) ==
  Min({p \in cursor .. QueueLen : p = QueueLen \/ delete_queue[p + 1].opstamp >= target})

\* Where compute_deleted_bitset stops, and the documents it removes on the way.
\* mapped: DocToOpstampMapping::WithMap, else every matching document goes.
stop_at(cursor, target) ==
  Min({p \in cursor .. QueueLen : p = QueueLen \/ delete_queue[p + 1].opstamp > target})

\* Mutant: deletes are applied whatever the opstamp of the document.
is_deleted_unmapped(doc, op, mapped) == doc.term = op.term

\* DocToOpstampMapping::is_deleted, for a document the delete's query matches.
is_deleted(doc, op, mapped) == doc.term = op.term /\ (mapped => doc.opstamp < op.opstamp)

deleted(docs, from, to, mapped) ==
  {d \in docs : \E i \in (from + 1) .. to : is_deleted(d, delete_queue[i], mapped)}

alive_docs(segment) == IF segment.del = None THEN segment.docs ELSE segment.del.alive

\* index_writer::advance_deletes: the entry with its deletes up to target.
advance_deletes(entry, target) ==
  LET to == stop_at(entry.cursor, target)
      alive == (entry.alive_bitset \ deleted(entry.docs, entry.cursor, to, FALSE)) \cap alive_docs(entry)
  IN IF \/ entry.del # None /\ entry.del.opstamp = target
        \/ entry.alive_bitset = entry.docs /\ entry.cursor = QueueLen
     THEN entry
     ELSE [entry EXCEPT !.cursor = to,
                        !.del = IF alive = alive_docs(entry) THEN @
                                ELSE [alive |-> alive, opstamp |-> target]]

\* SegmentEntry::new. A segment without alive_bitset has all its documents in it.
NewEntry(id, docs, cursor, bits) ==
  [id |-> id, docs |-> docs, del |-> None, cursor |-> cursor, alive_bitset |-> bits]

segment_meta(entry) == [id |-> entry.id, docs |-> entry.docs, del |-> entry.del]
ids(entries) == {e.id : e \in entries}

-----------------------------------------------------------------------------
(* The history of operations: what each returned after. *)
NoCall == [push |-> {}, send |-> {}, began |-> {}]

Began(n, kind, term, after) == [n |-> n, kind |-> kind, term |-> term, after |-> after, over |-> FALSE]
Over == {o.n : o \in {x \in history : x.over}}
Ended(ns) == {IF o.n \in ns THEN [o EXCEPT !.over = TRUE] ELSE o : o \in history}
NextOp == Cardinality(history) + 1

Matches(del, add) == del.kind = "clear" \/ del.term = add.term
Adds(h) == {o \in h : o.kind = "add"}
Dels(h) == {o \in h : o.kind \in {"delete", "clear"}}

\* Documents that no delete may have removed, and those that none must have.
Kept(h) == {a.n : a \in {x \in Adds(h) : \A d \in Dels(h) : Matches(d, x) => d.n \in x.after}}
Spared(h) == {a.n : a \in {x \in Adds(h) : \A d \in Dels(h) : Matches(d, x) => x.n \notin d.after}}

Visible(m) == UNION {{d.n : d \in alive_docs(s)} : s \in m.segments}

-----------------------------------------------------------------------------
FreshWorker(cursor) ==
  [pc |-> "peek", cursor |-> cursor, docs |-> {}, first |-> 0, entry |-> None]

NoMerge == [segments |-> <<>>, target |-> 0, advanced |-> 0, running |-> FALSE]
NoUpdate == [step |-> "none"]

Init ==
  /\ stamper = 0
  /\ delete_queue = <<>>
  /\ channel = <<>>
  /\ client = [c \in Clients |-> NoCall]
  /\ worker = [w \in Workers |-> FreshWorker(0)]
  /\ owner = "idle"
  /\ tasks = <<>>
  /\ updating = NoUpdate
  /\ uncommitted = {} /\ committed = {}
  /\ merge = [m \in Merges |-> NoMerge]
  /\ meta = [opstamp |-> 0, segments |-> {}]
  /\ committed_opstamp = 0
  /\ next_id = 1
  /\ commits = 0
  /\ history = {}
  /\ published = {}

(* IndexWriter: the calls that share the writer.                            *)
Idle(c) == client[c] = NoCall
CanCall(c) == Idle(c) /\ owner = "idle" /\ Cardinality(history) < MaxOps

\* add_document, delete_term and run: the opstamps first, as one fetch_add.
Stamp(c, count, push, send, begun) ==
  /\ stamper' = stamper + count
  /\ client' = [client EXCEPT ![c] = [push |-> push, send |-> send, began |-> {o.n : o \in begun}]]
  /\ history' = history \cup begun
  /\ UNCHANGED <<delete_queue, channel, worker, owner, updater, committed_opstamp, commits, published>>

Op(n, opstamp, term) == [n |-> n, opstamp |-> opstamp, term |-> term]

AddDocument(c) ==
  /\ "add_document" \in Calls /\ CanCall(c)
  /\ \E t \in Terms :
       Stamp(c, 1, {}, {Op(NextOp, stamper, t)}, {Began(NextOp, "add", t, Over)})

DeleteTerm(c) ==
  /\ "delete_term" \in Calls /\ CanCall(c)
  /\ \E t \in Terms :
       Stamp(c, 1, {Op(NextOp, stamper, t)}, {}, {Began(NextOp, "delete", t, Over)})

\* run: a group of operations with contiguous opstamps, and one for the group.
Stamped(group, kind) ==
  {Op(NextOp + i - 1, stamper + i - 1, group[i].term) : i \in {j \in DOMAIN group : group[j].kind = kind}}

Run(c) ==
  /\ "run" \in Calls /\ CanCall(c)
  /\ \E group \in Groups :
       /\ Cardinality(history) + Len(group) <= MaxOps
       /\ Stamp(c, Len(group) + 1, Stamped(group, "delete"), Stamped(group, "add"),
                {Began(NextOp + i - 1, group[i].kind, group[i].term,
                       Over \cup {NextOp + j - 1 : j \in 1 .. i - 1}) : i \in DOMAIN group})

Returns(c, push, send) ==
  IF push = {} /\ send = {}
  THEN client' = [client EXCEPT ![c] = NoCall] /\ history' = Ended(client[c].began)
  ELSE client' = [client EXCEPT ![c].push = push, ![c].send = send] /\ UNCHANGED history

\* The deletes of a group are pushed one by one, in the order of the group.
PushDelete(c) ==
  /\ \E op \in client[c].push :
       /\ \A other \in client[c].push : op.opstamp <= other.opstamp
       /\ delete_queue' = Append(delete_queue, op)
       /\ Returns(c, client[c].push \ {op}, client[c].send)
  /\ UNCHANGED <<stamper, channel, worker, owner, updater, committed_opstamp, commits, published>>

SendBatch(c) ==
  /\ client[c].push = {} /\ client[c].send # {}
  /\ Len(channel) < PIPELINE_MAX_SIZE_IN_DOCS
  /\ channel' = Append(channel, client[c].send)
  /\ Returns(c, {}, {})
  /\ UNCHANGED <<stamper, delete_queue, worker, owner, updater, committed_opstamp, commits, published>>

\* delete_all_documents empties the registers from the calling thread.
DeleteAllDocuments(c) ==
  /\ "delete_all_documents" \in Calls /\ CanCall(c)
  /\ uncommitted' = {} /\ committed' = {}
  /\ stamper' = committed_opstamp
  /\ history' = history \cup {[Began(NextOp, "clear", None, Over) EXCEPT !.over = TRUE]}
  /\ UNCHANGED <<delete_queue, pipeline, owner, tasks, updating, merge, meta, next_id,
                 committed_opstamp, commits, published>>

-----------------------------------------------------------------------------
(* An indexing worker. *)
Set(w, record) == worker' = [worker EXCEPT ![w] = record]
rest == <<stamper, delete_queue, client, owner, committed_opstamp, commits, aux>>

\* A batch is in the order of its opstamps: the first document has the least.
Peek(w) ==
  /\ worker[w].pc = "peek" /\ channel # <<>>
  /\ Set(w, [worker[w] EXCEPT !.pc = "skip", !.docs = Head(channel),
                              !.first = Min({d.opstamp : d \in Head(channel)})])
  /\ channel' = Tail(channel)
  /\ UNCHANGED <<rest, updater>>

SkipDeletes(w) ==
  /\ worker[w].pc = "skip"
  /\ Set(w, [worker[w] EXCEPT !.pc = "collect", !.cursor = skip_to(@, worker[w].first)])
  /\ UNCHANGED <<channel, rest, updater>>

Collect(w) ==
  /\ worker[w].pc = "collect" /\ channel # <<>>
  /\ Set(w, [worker[w] EXCEPT !.docs = @ \cup Head(channel)])
  /\ channel' = Tail(channel)
  /\ UNCHANGED <<rest, updater>>

\* apply_deletes: up to the largest opstamp of the segment's documents.
apply_deletes(docs, cursor) ==
  LET to == stop_at(cursor, Max({d.opstamp : d \in docs}))
      gone == deleted(docs, cursor, to, TRUE)
  IN [cursor |-> to, bits |-> docs \ gone]

Finalize(w) ==
  /\ worker[w].pc = "collect"
  /\ LET applied == apply_deletes(worker[w].docs, worker[w].cursor)
     IN Set(w, [worker[w] EXCEPT !.pc = "schedule",
                  !.entry = NewEntry(next_id, worker[w].docs, applied.cursor, applied.bits)])
  /\ next_id' = next_id + 1
  /\ UNCHANGED <<channel, rest, tasks, updating, uncommitted, committed, merge, meta>>

Schedule(w) ==
  /\ worker[w].pc = "schedule"
  /\ tasks' = Append(tasks, [kind |-> "add_segment", worker |-> w, entry |-> worker[w].entry])
  /\ Set(w, [worker[w] EXCEPT !.pc = "wait", !.entry = None])
  /\ UNCHANGED <<channel, rest, updating, uncommitted, committed, merge, meta, next_id>>

\* Mutant: some clone of the old sender outlives recreate_document_channel.
SenderKept == FALSE

\* recreate_document_channel drops the only sender; the workers drain the channel.
ChannelClosed == owner = "joining" /\ channel = <<>>

Exit(w) ==
  /\ worker[w].pc = "peek" /\ ChannelClosed
  /\ Set(w, [worker[w] EXCEPT !.pc = "exit"])
  /\ UNCHANGED <<channel, rest, updater>>

-----------------------------------------------------------------------------
(* IndexWriter: the calls that need the writer alone. *)
Alone == owner = "idle" /\ \A c \in Clients : Idle(c)

\* prepare_commit: recreate_document_channel, then join the workers ...
PrepareCommit ==
  /\ OwnerCalls \cap {"commit", "commit_future"} # {}
  /\ Alone /\ commits < MaxCommits
  /\ owner' = "joining"
  /\ commits' = commits + 1
  /\ UNCHANGED <<stamper, delete_queue, pipeline, updater, committed_opstamp, aux>>

\* ... and start new ones, each with a new cursor; the commit's opstamp comes last.
JoinWorkers ==
  /\ owner = "joining" /\ \A w \in Workers : worker[w].pc = "exit"
  /\ \E cursor \in [Workers -> 0 .. QueueLen] :
       worker' = [w \in Workers |-> FreshWorker(cursor[w])]
  /\ stamper' = stamper + 1
  /\ owner' = "prepared"
  /\ UNCHANGED <<delete_queue, channel, client, updater, committed_opstamp, commits, aux>>

\* PreparedCommit::commit waits; commit_future gives the writer back at once.
ScheduleCommit ==
  /\ owner = "prepared"
  /\ tasks' = Append(tasks, [kind |-> "commit", opstamp |-> stamper - 1, history |-> history])
  /\ \E call \in OwnerCalls \cap {"commit", "commit_future"} :
       owner' = IF call = "commit" THEN "waiting" ELSE "idle"
  /\ UNCHANGED <<stamper, delete_queue, pipeline, updating, uncommitted, committed, merge, meta,
                 next_id, committed_opstamp, commits, aux>>

\* Mutant: the new writer inherits the batches of the old one.
Inherited == channel

\* The channel of a new writer; rollback drains the old one.
Drained == <<>>

\* rollback and abort: the old updater is killed, a new writer opens the last commit.
Rollback ==
  /\ "rollback" \in OwnerCalls
  /\ Alone \/ owner = "prepared"
  /\ commits < MaxCommits /\ commits' = commits + 1
  /\ stamper' = meta.opstamp /\ committed_opstamp' = meta.opstamp
  /\ delete_queue' = <<>>
  /\ channel' = Drained
  /\ worker' = [w \in Workers |-> FreshWorker(0)]
  /\ owner' = "idle"
  /\ tasks' = <<>> /\ updating' = NoUpdate
  /\ uncommitted' = {}
  /\ committed' = {[NewEntry(s.id, s.docs, 0, s.docs) EXCEPT !.del = s.del] : s \in meta.segments}
  /\ merge' = [m \in Merges |-> NoMerge]
  /\ history' = published
  /\ UNCHANGED <<client, meta, next_id, published>>

-----------------------------------------------------------------------------
(* The updater thread. *)
SegmentIds(m) == {merge[m].segments[i].id : i \in DOMAIN merge[m].segments}

\* MergeOperationInventory::segment_in_merge.
segment_in_merge == UNION {SegmentIds(m) : m \in Merges}

\* The ways to order some of the entries, as a merge policy may propose them
\* (LogMergePolicy merges a segment alone when most of it is deleted).
Candidates(entries) ==
  UNION {{s \in [1 .. Cardinality(S) -> S] : \A i, j \in DOMAIN s : s[i] = s[j] => i = j} :
           S \in {T \in SUBSET entries : T # {} /\ next_id <= MaxSegments}}
Mergeable(entries) == {e \in entries : e.id \notin segment_in_merge}

\* Mutant: the MergeOperation of a merge that ended stays in the inventory.
Leaked(over) == merge

\* The merge operations still tracked once those of over are dropped.
Tracked(over) == [m \in Merges |-> IF m \in over THEN NoMerge ELSE merge[m]]

start_merge(m, segments, target, over) ==
  merge' = [Tracked(over) EXCEPT ![m] = [segments |-> segments, target |-> target, advanced |-> 0,
                                         running |-> TRUE]]

(* consider_merge_options, with the registers as the task leaves them: no    *)
(* merge, or one of uncommitted or of committed segments. It takes an       *)
(* opstamp either way. over: the merges that this task ends.                *)
consider_merge_options(over) ==
  /\ stamper' = stamper + 1
  /\ \/ merge' = Tracked(over)
     \/ \E m \in Merges :
          /\ ~Tracked(over)[m].running
          /\ \/ \E s \in Candidates(Mergeable(uncommitted')) : start_merge(m, s, stamper, over)
             \/ \E s \in Candidates(Mergeable(committed')) : start_merge(m, s, meta'.opstamp, over)

TaskIs(kind) == updating = NoUpdate /\ tasks # <<>> /\ Head(tasks).kind = kind
outside == <<delete_queue, channel, client, next_id, committed_opstamp, commits, history>>

AddSegment ==
  /\ TaskIs("add_segment")
  /\ uncommitted' = uncommitted \cup {Head(tasks).entry}
  /\ tasks' = Tail(tasks)
  /\ worker' = [worker EXCEPT ![Head(tasks).worker].pc = "peek",
                              ![Head(tasks).worker].docs = {}]
  /\ UNCHANGED <<outside, owner, updating, committed, meta, published>>
  /\ consider_merge_options({})

\* schedule_commit: purge_deletes works on copies of the entries ...
PurgeDeletes ==
  /\ TaskIs("commit")
  /\ updating' = [step |-> "commit", task |-> Head(tasks),
                  entries |-> {advance_deletes(e, Head(tasks).opstamp) : e \in uncommitted \cup committed}]
  /\ tasks' = Tail(tasks)
  /\ UNCHANGED <<outside, stamper, worker, owner, registers, merge, meta, published>>

\* Mutant: the segments stay in the uncommitted register too.
CommitSegmentsTwice ==
  /\ updating.step = "commit"
  /\ committed' = updating.entries
  /\ updating' = [step |-> "save", opstamp |-> updating.task.opstamp,
                  history |-> updating.task.history, over |-> {}]
  /\ UNCHANGED <<outside, stamper, worker, owner, tasks, uncommitted, merge, meta, published>>

\* ... SegmentManager::commit puts them in the registers' place ...
CommitSegments ==
  /\ updating.step = "commit"
  /\ committed' = updating.entries
  /\ uncommitted' = {}
  /\ updating' = [step |-> "save", opstamp |-> updating.task.opstamp,
                  history |-> updating.task.history, over |-> {}]
  /\ UNCHANGED <<outside, stamper, worker, owner, tasks, merge, meta, published>>

\* ... and save_metas publishes what is committed now, without empty segments.
SaveMetas ==
  /\ updating.step = "save"
  /\ committed' = {e \in committed : alive_docs(e) # {}}
  /\ meta' = [opstamp |-> updating.opstamp, segments |-> {segment_meta(e) : e \in committed'}]
  /\ published' = updating.history
  /\ updating' = NoUpdate
  /\ owner' = IF updating.over = {} /\ owner = "waiting" THEN "idle" ELSE owner
  /\ UNCHANGED <<outside, worker, tasks, uncommitted>>
  /\ consider_merge_options(updating.over)

-----------------------------------------------------------------------------
(* Merging threads. *)
Merging(m) == merge[m].running /\ merge[m].advanced < Len(merge[m].segments)

\* IndexWriter::merge: segments of the last commit, in the order given, on request.
MergeSegments(m) ==
  /\ "merge" \in OwnerCalls /\ Alone /\ ~merge[m].running
  /\ \E s \in Candidates({e \in committed : e.id \in ids(meta.segments)}) :
       start_merge(m, s, meta.opstamp, {})
  /\ UNCHANGED <<outside, stamper, worker, owner, tasks, updating, registers, meta, published>>

EndMergeTask(m, entry) == [kind |-> "end_merge", merge |-> m, entry |-> entry]
Scheduled(m, entry) ==
  /\ tasks' = Append(tasks, EndMergeTask(m, entry))
  /\ merge' = [merge EXCEPT ![m].advanced = Len(merge[m].segments) + 1]

\* merge: nothing to do when no segment has a document left.
MergeEmpty(m) ==
  /\ Merging(m) /\ merge[m].advanced = 0
  /\ \A i \in DOMAIN merge[m].segments : alive_docs(merge[m].segments[i]) = {}
  /\ Scheduled(m, None)
  /\ UNCHANGED <<outside, stamper, worker, owner, updating, registers, meta, published>>

MergeAdvance(m) ==
  /\ Merging(m)
  /\ merge[m].advanced = 0 => \E i \in DOMAIN merge[m].segments : alive_docs(merge[m].segments[i]) # {}
  /\ LET k == merge[m].advanced + 1
     IN merge' = [merge EXCEPT ![m].advanced = k,
                               ![m].segments[k] = advance_deletes(@, merge[m].target)]
  /\ UNCHANGED <<outside, stamper, worker, owner, tasks, updating, registers, meta, published>>

\* Mutant: a new cursor at the end of the queue.
new_cursor(segments) == QueueLen

\* The merged segment continues from the delete cursor of the first one.
delete_cursor(segments) == segments[1].cursor

MergeWrite(m) ==
  /\ merge[m].running /\ merge[m].advanced = Len(merge[m].segments)
  /\ LET segments == merge[m].segments
         docs == UNION {alive_docs(segments[i]) : i \in DOMAIN segments}
     IN Scheduled(m, NewEntry(next_id, docs, delete_cursor(segments), docs))
  /\ next_id' = next_id + 1
  /\ UNCHANGED <<delete_queue, channel, client, committed_opstamp, commits, history, stamper, worker,
                 owner, updating, registers, meta, published>>

\* Mutant: the merged segment is registered as the merge left it.
NoCatchUp(entry) == entry

\* end_merge catches up with the commits made since the merge began.
CatchUp(entry) ==
  IF /\ entry.cursor < QueueLen
     /\ delete_queue[entry.cursor + 1].opstamp < meta.opstamp
  THEN advance_deletes(entry, meta.opstamp)
  ELSE entry

\* Mutant: the merged segments stay in the register.
AddMerged(register, m, entry) == register \cup IF entry = None THEN {} ELSE {CatchUp(entry)}

Replace(register, m, entry) ==
  {e \in register : e.id \notin SegmentIds(m)} \cup IF entry = None THEN {} ELSE {CatchUp(entry)}

EndMerge ==
  /\ TaskIs("end_merge")
  /\ tasks' = Tail(tasks)
  /\ UNCHANGED <<outside, worker, owner, meta, published>>
  /\ LET m == Head(tasks).merge
         entry == Head(tasks).entry
     IN \/ /\ SegmentIds(m) \subseteq ids(uncommitted)
           /\ uncommitted' = Replace(uncommitted, m, entry)
           /\ UNCHANGED <<committed, updating>>
           /\ consider_merge_options({m})
        \/ /\ ~ SegmentIds(m) \subseteq ids(uncommitted)
           /\ SegmentIds(m) \subseteq ids(committed)
           /\ committed' = Replace(committed, m, entry)
           /\ updating' = [step |-> "save", opstamp |-> meta.opstamp, history |-> published,
                           over |-> {m}]
           /\ UNCHANGED <<uncommitted, merge, stamper>>
        \/ /\ ~ SegmentIds(m) \subseteq ids(uncommitted)
           /\ ~ SegmentIds(m) \subseteq ids(committed)
           /\ merge' = Tracked({m})
           /\ UNCHANGED <<registers, updating, stamper>>

-----------------------------------------------------------------------------
WorkerNext(w) ==
  Peek(w) \/ SkipDeletes(w) \/ Collect(w) \/ Finalize(w) \/ Schedule(w) \/ Exit(w)
UpdaterNext == AddSegment \/ PurgeDeletes \/ CommitSegments \/ SaveMetas \/ EndMerge
MergeNext(m) == MergeEmpty(m) \/ MergeAdvance(m) \/ MergeWrite(m)
ClientNext(c) ==
  AddDocument(c) \/ DeleteTerm(c) \/ Run(c) \/ DeleteAllDocuments(c) \/ PushDelete(c) \/ SendBatch(c)
OwnerNext == PrepareCommit \/ JoinWorkers \/ ScheduleCommit \/ Rollback

Next ==
  \/ \E c \in Clients : ClientNext(c)
  \/ \E w \in Workers : WorkerNext(w)
  \/ \E m \in Merges : MergeSegments(m) \/ MergeNext(m)
  \/ OwnerNext
  \/ UpdaterNext

Spec == Init /\ [][Next]_vars

(* The threads run: a call that has begun, a worker, the updater and a      *)
(* merge go on when they can. Nobody has to begin a call.                   *)
Fairness ==
  /\ \A c \in Clients : WF_vars(PushDelete(c) \/ SendBatch(c))
  /\ \A w \in Workers : WF_vars(Exit(w) \/ Finalize(w) \/ Peek(w) \/ SkipDeletes(w) \/ Schedule(w))
  /\ \A m \in Merges : WF_vars(MergeNext(m))
  /\ WF_vars(UpdaterNext)
  /\ WF_vars(JoinWorkers \/ ScheduleCommit)

FairSpec == Spec /\ Fairness

-----------------------------------------------------------------------------
IsEntry(e) ==
  /\ e.id \in 1 .. next_id - 1
  /\ e.docs \subseteq Docs
  /\ e.del # None => e.del.alive \subseteq e.docs /\ e.del.opstamp \in Nat
  /\ e.cursor \in 0 .. QueueLen
  /\ e.alive_bitset \subseteq e.docs

\* The entries of the registers and of merges are well formed; a segment is in
\* one register only, and a cursor never points past the delete queue.
TypeOK ==
  /\ stamper \in Nat /\ committed_opstamp \in Nat /\ next_id \in Nat
  /\ delete_queue \in Seq(Docs) /\ Len(channel) <= PIPELINE_MAX_SIZE_IN_DOCS
  /\ owner \in {"idle", "joining", "prepared", "waiting"}
  /\ \A e \in uncommitted \cup committed : IsEntry(e)
  /\ ids(uncommitted) \cap ids(committed) = {}
  /\ \A m \in Merges : \A i \in DOMAIN merge[m].segments : IsEntry(merge[m].segments[i])
  /\ \A w \in Workers : worker[w].cursor \in 0 .. QueueLen

\* The comment in compute_deleted_bitset: a delete only affects documents that
\* were inserted before it, so the ones added after every delete are published;
\* so are those that only deletes after the last commit name (delete_term: a
\* deletion is visible only after commit).
DeletesOnlyEarlier == Kept(published) \subseteq Visible(meta)

\* What delete_term promises: a commit publishes no document that was added
\* before a delete of the commit, or of an earlier one, that names it.
DeletesReachEarlier == Visible(meta) \subseteq Spared(published)

\* A commit publishes exactly what happened before it: every document that no
\* delete may have caught is in meta.json's segments, and none that a later
\* delete of the same commit names (commit and delete_term, index_writer.rs).
PublishedExact == DeletesOnlyEarlier /\ DeletesReachEarlier

\* However merges, commits and rollbacks interleave, a document is never in two
\* live segments at once (SegmentManager::end_merge and commit swap whole sets).
NoDocumentTwice ==
  \A e, f \in uncommitted \cup committed : e # f => alive_docs(e) \cap alive_docs(f) = {}

\* Deletes a segment's cursor has passed are done with: no document that such a
\* delete must remove is still alive in the entry. A merge that continued from
\* too late a cursor would break it (segment_updater.rs, merge).
NoDeleteSkipped ==
  \A e \in uncommitted \cup committed :
    \A d \in alive_docs(e) \cap e.alive_bitset :
      \A o \in Dels(history) :
        (\E i \in 1 .. e.cursor : delete_queue[i].n = o.n) /\ Matches(o, d) => d.n \notin o.after

\* A merge is invisible: meta.json is rewritten with the opstamp it had and
\* another list of segments, and the same documents (SegmentUpdater::end_merge).
MergesInvisible == [][meta'.opstamp = meta.opstamp => Visible(meta') = Visible(meta)]_vars

\* A call to commit returns: the joined workers drain the pipeline, and the
\* updater reaches its task behind those already queued.
CommitReturns == owner \in {"joining", "prepared", "waiting"} ~> owner = "idle"

\* Every merge that was started is ended and its segments can be merged again.
MergeEnds == \A m \in Merges : merge[m].running ~> ~merge[m].running
=============================================================================
