---------------------------- MODULE IndexerProofs ----------------------------
(***************************************************************************)
(* Every document of a tantivy index is in one place, for any number of    *)
(* clients, workers, merges, operations, commits and rollbacks.            *)
(*                                                                         *)
(* A document goes from a client's call to the channel, to a worker, to    *)
(* the registers (Apart). A segment has one identity and one content       *)
(* wherever copies of its entry are: in the registers, in the updater's    *)
(* hands, in a merge (Idents); the identity of a segment on its way to a   *)
(* register is nowhere else (Fresh). A worker and a merge wait for the one *)
(* task they queued, and a merged segment has documents of the segments    *)
(* that it replaces (Waiting). Rollback reuses the numbers of operations   *)
(* above the published ones, so what is published must be numbered below   *)
(* (Counted, Settled).                                                     *)
(***************************************************************************)
EXTENDS Indexer, FiniteSetTheorems, WellFoundedInduction, TLAPS

DelFiles == [alive : SUBSET Docs, opstamp : Nat] \cup {None}
Entry == [id : Nat, docs : SUBSET Docs, del : DelFiles, cursor : Nat, alive_bitset : SUBSET Docs]
Segment == [id : Nat, docs : SUBSET Docs, del : DelFiles]
Record == [n : Nat, kind : {"add", "delete", "clear"}, term : Terms \cup {None}, after : SUBSET Nat,
           over : BOOLEAN]
AddTask == [kind : {"add_segment"}, worker : Workers, entry : Entry]
CommitTask == [kind : {"commit"}, opstamp : Nat, history : SUBSET Record]
MergeTask == [kind : {"end_merge"}, merge : Merges, entry : Entry \cup {None}]
Task == AddTask \cup CommitTask \cup MergeTask
Commit == [step : {"commit"}, task : CommitTask, entries : SUBSET Entry]
Save == [step : {"save"}, opstamp : Nat, history : SUBSET Record, over : SUBSET Merges]
Worker == [pc : {"peek", "skip", "collect", "schedule", "wait", "exit"}, cursor : Nat,
           docs : SUBSET Docs, first : Nat, entry : Entry \cup {None}]
Merge == [segments : Seq(Entry), target : Nat, advanced : Nat, running : BOOLEAN]
Client == [push : SUBSET Docs, send : SUBSET Docs, began : SUBSET Nat]

Shape ==
  /\ stamper \in Nat /\ committed_opstamp \in Nat /\ next_id \in Nat \ {0} /\ commits \in Nat
  /\ delete_queue \in Seq(Docs)
  /\ channel \in Seq(SUBSET Docs) /\ Len(channel) =< PIPELINE_MAX_SIZE_IN_DOCS
  /\ client \in [Clients -> Client]
  /\ worker \in [Workers -> Worker]
  /\ owner \in {"idle", "joining", "prepared", "waiting"}
  /\ tasks \in Seq(Task)
  /\ updating \in {NoUpdate} \cup Commit \cup Save
  /\ uncommitted \subseteq Entry /\ committed \subseteq Entry
  /\ merge \in [Merges -> Merge]
  /\ meta \in [opstamp : Nat, segments : SUBSET Segment]
  /\ history \subseteq Record /\ published \subseteq Record

\* A record's number is its place: fresh numbers are above the cardinality.
Numbered(h) ==
  /\ IsFiniteSet(h)
  /\ \A o \in h : o.n \in 1 .. Cardinality(h)
  /\ \A o, p \in h : o.n = p.n => o = p

\* The entries the updater purges, while it does.
Copies == IF updating.step = "commit" THEN updating.entries ELSE {}
Stored == uncommitted \cup committed \cup Copies
Carries(k) == \/ tasks[k].kind = "add_segment"
              \/ tasks[k].kind = "end_merge" /\ tasks[k].entry # None

\* Entries are well formed wherever they are.
Formed ==
  /\ \A e \in Stored : IsEntry(e)
  /\ \A m \in Merges : \A i \in DOMAIN merge[m].segments : IsEntry(merge[m].segments[i])
  /\ \A w \in Workers : /\ worker[w].cursor =< QueueLen
                        /\ worker[w].pc = "schedule" => worker[w].entry \in Entry /\ IsEntry(worker[w].entry)
  /\ \A k \in DOMAIN tasks : Carries(k) => IsEntry(tasks[k].entry)
  /\ \A s \in meta.segments : /\ s.id \in 1 .. next_id - 1
                              /\ s.del # None => s.del.alive \subseteq s.docs

Finite ==
  /\ IsFiniteSet(uncommitted) /\ IsFiniteSet(committed) /\ IsFiniteSet(Copies)
  /\ IsFiniteSet(meta.segments)

\* One entry for a segment in the registers, and one content for a segment
\* wherever it is, apart from that of the other ones.
Idents ==
  /\ \A e, f \in uncommitted : e.id = f.id => e = f
  /\ \A e, f \in committed : e.id = f.id => e = f
  /\ \A e \in uncommitted, f \in committed : e.id # f.id
  /\ \A e, f \in Copies : e.id = f.id => e = f
  /\ \A s, t \in meta.segments : /\ s.id = t.id => s = t
                                 /\ s.id # t.id => s.docs \cap t.docs = {}
  /\ \A e, f \in Stored : /\ e.id = f.id => e.docs = f.docs
                          /\ e.id # f.id => e.docs \cap f.docs = {}
  /\ \A m \in Merges : \A i \in DOMAIN merge[m].segments :
       \A e \in Stored : e.id = merge[m].segments[i].id => e.docs = merge[m].segments[i].docs

\* The identity of a segment that is still on its way is its own.
Fresh ==
  /\ \A w \in Workers : worker[w].pc = "schedule" =>
       /\ \A e \in Stored : e.id # worker[w].entry.id
       /\ \A m \in Merges : \A i \in DOMAIN merge[m].segments : merge[m].segments[i].id # worker[w].entry.id
       /\ \A v \in Workers : worker[v].pc = "schedule" /\ v # w => worker[v].entry.id # worker[w].entry.id
       /\ \A k \in DOMAIN tasks : Carries(k) => tasks[k].entry.id # worker[w].entry.id
  /\ \A k \in DOMAIN tasks : Carries(k) =>
       /\ \A e \in Stored : e.id # tasks[k].entry.id
       /\ \A m \in Merges : \A i \in DOMAIN merge[m].segments : merge[m].segments[i].id # tasks[k].entry.id
       /\ \A j \in DOMAIN tasks : Carries(j) /\ j # k => tasks[j].entry.id # tasks[k].entry.id

\* The merge of an end_merge task is done, its segment made of its segments.
Written(t) ==
  /\ merge[t.merge].running /\ merge[t.merge].advanced > Len(merge[t.merge].segments)
  /\ t.entry # None =>
       \A d \in t.entry.docs : \E i \in DOMAIN merge[t.merge].segments : d \in merge[t.merge].segments[i].docs

\* A worker waits for its one task, and a merge for its own.
Waiting ==
  /\ \A w \in Workers : /\ worker[w].pc \in {"peek", "exit"} => worker[w].docs = {}
                        /\ worker[w].pc = "schedule" => worker[w].entry.docs = worker[w].docs
  /\ \A k \in DOMAIN tasks : tasks[k].kind = "add_segment" =>
       /\ worker[tasks[k].worker].pc = "wait" /\ tasks[k].entry.docs = worker[tasks[k].worker].docs
       /\ \A j \in DOMAIN tasks : tasks[j].kind = "add_segment" /\ j # k => tasks[j].worker # tasks[k].worker
  /\ \A k \in DOMAIN tasks : tasks[k].kind = "end_merge" =>
       /\ Written(tasks[k])
       /\ \A j \in DOMAIN tasks : tasks[j].kind = "end_merge" /\ j # k => tasks[j].merge # tasks[k].merge
       /\ updating.step = "save" => tasks[k].merge \notin updating.over
  /\ \A m \in Merges : ~merge[m].running <=> merge[m].segments = <<>>
  /\ updating.step = "save" => \A m \in updating.over :
       merge[m].running /\ merge[m].advanced > Len(merge[m].segments)

\* Where documents are on their way to a segment, and that nowhere twice.
Apart ==
  /\ \A c \in Clients :
       /\ \A b \in Clients : b # c => client[b].send \cap client[c].send = {}
       /\ \A k \in DOMAIN channel : channel[k] \cap client[c].send = {}
       /\ \A w \in Workers : worker[w].docs \cap client[c].send = {}
       /\ \A e \in Stored : e.docs \cap client[c].send = {}
  /\ \A k \in DOMAIN channel :
       /\ \A j \in DOMAIN channel : j # k => channel[j] \cap channel[k] = {}
       /\ \A w \in Workers : worker[w].docs \cap channel[k] = {}
       /\ \A e \in Stored : e.docs \cap channel[k] = {}
  /\ \A w \in Workers :
       /\ \A v \in Workers : v # w => worker[v].docs \cap worker[w].docs = {}
       /\ \A e \in Stored : e.docs \cap worker[w].docs = {}

\* Documents that have a number of a history.
Below(docs, h) == \A d \in docs : d.n =< Cardinality(h)
Counted ==
  /\ Numbered(history)
  /\ \A c \in Clients : Below(client[c].send, history)
  /\ \A k \in DOMAIN channel : Below(channel[k], history)
  /\ \A w \in Workers : Below(worker[w].docs, history)
  /\ \A e \in Stored : Below(e.docs, history)

\* The same of what was committed, and of the history behind it.
Settled ==
  /\ Numbered(published)
  /\ updating.step = "commit" => Numbered(updating.task.history)
  /\ updating.step = "save" => Numbered(updating.history)
  /\ \A k \in DOMAIN tasks : tasks[k].kind = "commit" => Numbered(tasks[k].history)
  /\ \A s \in meta.segments : Below(s.docs, published)
  /\ \A e \in committed :
       IF updating.step = "save" THEN Below(e.docs, updating.history) ELSE Below(e.docs, published)
  /\ updating.step = "commit" => \A e \in Copies : Below(e.docs, updating.task.history)
  /\ \A k \in DOMAIN tasks : tasks[k].kind = "commit" =>
       /\ \A e \in Stored : Below(e.docs, tasks[k].history)
       /\ \A j \in 1 .. k - 1 : tasks[j].kind = "add_segment" => Below(tasks[j].entry.docs, tasks[k].history)

Quietly ==
  /\ owner # "idle" => \A c \in Clients : client[c] = NoCall
  /\ owner = "prepared" => stamper > 0
  /\ \A k \in DOMAIN channel : channel[k] # {}

IInv ==
  /\ Shape /\ Formed /\ Finite /\ Idents /\ Fresh /\ Waiting /\ Apart /\ Counted /\ Settled /\ Quietly

-----------------------------------------------------------------------------
(* Sequences and numbers.                                                  *)
LEMMA AppendFacts ==
  ASSUME NEW S, NEW s \in Seq(S), NEW x \in S
  PROVE  /\ Append(s, x) \in Seq(S) /\ DOMAIN Append(s, x) = 1 .. Len(s) + 1
         /\ Len(Append(s, x)) = Len(s) + 1 /\ Len(s) \in Nat /\ DOMAIN s = 1 .. Len(s)
         /\ \A i \in 1 .. Len(s) : Append(s, x)[i] = s[i]
         /\ Append(s, x)[Len(s) + 1] = x
  OBVIOUS

LEMMA TailFacts ==
  ASSUME NEW S, NEW s \in Seq(S), s # <<>>
  PROVE  /\ Tail(s) \in Seq(S) /\ DOMAIN Tail(s) = 1 .. Len(s) - 1
         /\ Len(Tail(s)) = Len(s) - 1 /\ Len(s) \in Nat /\ Len(s) > 0 /\ DOMAIN s = 1 .. Len(s)
         /\ \A i \in 1 .. Len(s) - 1 : Tail(s)[i] = s[i + 1]
         /\ Head(s) = s[1] /\ Head(s) \in S /\ 1 \in DOMAIN s
  OBVIOUS

LEMMA FiniteImage ==
  ASSUME NEW S, IsFiniteSet(S), NEW f
  PROVE  IsFiniteSet({f[x] : x \in S})
<1> DEFINE T == {f[x] : x \in S}
<1> DEFINE g == [x \in S |-> f[x]]
<1>1. g \in [S -> T] /\ \A y \in T : \E x \in S : g[x] = y
  OBVIOUS
<1> HIDE DEF g, T
<1>2. g \in Surjection(S, T)
  BY <1>1 DEF Surjection
<1>3. IsFiniteSet(T)
  BY <1>2, FS_Surjection
<1> QED BY <1>3 DEF T

LEMMA NatOrder ==
  \E R : IsWellFoundedOn(R, Nat) /\ \A x, y \in Nat : y < x => <<y, x>> \in R
<1>1. \A x, y \in Nat : y < x => <<y, x>> \in OpToRel(<, Nat)
  BY DEF OpToRel
<1>2. QED
  BY <1>1, NatLessThanWellFounded, Zenon

LEMMA NatMin ==
  ASSUME NEW T, T \subseteq Nat, T # {}
  PROVE  Min(T) \in T /\ \A y \in T : Min(T) =< y
<1>1. PICK R : IsWellFoundedOn(R, Nat) /\ \A x, y \in Nat : y < x => <<y, x>> \in R
  BY NatOrder
<1>2. PICK x \in T : \A y \in T : ~ (<<y, x>> \in R)
  BY <1>1, WFMin
<1>3. ASSUME NEW y \in T PROVE x =< y
  <2>1. ~ (y < x)
    BY <1>1, <1>2, Zenon
  <2>2. QED
    BY <2>1
<1>4. QED
  BY <1>3 DEF Min

-----------------------------------------------------------------------------
(* Cursors: where skip_to and compute_deleted_bitset stop.                 *)
LEMMA QueueFacts ==
  ASSUME Shape
  PROVE  /\ QueueLen \in Nat /\ DOMAIN delete_queue = 1 .. QueueLen
         /\ \A j \in 1 .. QueueLen : /\ delete_queue[j] \in Docs /\ delete_queue[j].opstamp \in Nat
                                     /\ delete_queue[j].n \in Nat /\ delete_queue[j].term \in Terms
<1>1. delete_queue \in Seq(Docs)
  BY DEF Shape
<1>2. QueueLen \in Nat /\ DOMAIN delete_queue = 1 .. QueueLen /\ \A j \in 1 .. QueueLen : delete_queue[j] \in Docs
  BY <1>1 DEF QueueLen
<1>3. \A d \in Docs : d.opstamp \in Nat /\ d.n \in Nat /\ d.term \in Terms
  BY DEF Docs
<1> QED BY <1>2, <1>3

LEMMA StopAt ==
  ASSUME Shape, NEW cursor \in Nat, cursor =< QueueLen, NEW target
  PROVE  /\ stop_at(cursor, target) \in Nat
         /\ cursor =< stop_at(cursor, target) /\ stop_at(cursor, target) =< QueueLen
         /\ \/ stop_at(cursor, target) = QueueLen
            \/ delete_queue[stop_at(cursor, target) + 1].opstamp > target
         /\ \A p \in cursor .. stop_at(cursor, target) - 1 :
              ~(delete_queue[p + 1].opstamp > target)
<1> DEFINE T == {p \in cursor .. QueueLen : p = QueueLen \/ delete_queue[p + 1].opstamp > target}
<1>1. QueueLen \in Nat
  BY QueueFacts
<1>2. T \subseteq Nat /\ QueueLen \in T
  BY <1>1
<1>3. Min(T) \in T /\ \A y \in T : Min(T) =< y
  <2> HIDE DEF T
  <2> QED BY <1>2, NatMin
<1>4. stop_at(cursor, target) = Min(T)
  BY DEF stop_at
<1>5. ASSUME NEW p \in cursor .. Min(T) - 1 PROVE ~(delete_queue[p + 1].opstamp > target)
  <2>1. p \notin T
    BY <1>1, <1>2, <1>3, <1>5
  <2> QED BY <1>1, <1>2, <1>3, <2>1
<1> QED BY <1>1, <1>2, <1>3, <1>4, <1>5

LEMMA SkipTo ==
  ASSUME Shape, NEW cursor \in Nat, cursor =< QueueLen, NEW target
  PROVE  /\ skip_to(cursor, target) \in Nat
         /\ cursor =< skip_to(cursor, target) /\ skip_to(cursor, target) =< QueueLen
         /\ \A p \in cursor .. skip_to(cursor, target) - 1 :
              ~(delete_queue[p + 1].opstamp >= target)
<1> DEFINE T == {p \in cursor .. QueueLen : p = QueueLen \/ delete_queue[p + 1].opstamp >= target}
<1>1. QueueLen \in Nat
  BY QueueFacts
<1>2. T \subseteq Nat /\ QueueLen \in T
  BY <1>1
<1>3. Min(T) \in T /\ \A y \in T : Min(T) =< y
  <2> HIDE DEF T
  <2> QED BY <1>2, NatMin
<1>4. skip_to(cursor, target) = Min(T)
  BY DEF skip_to
<1>5. ASSUME NEW p \in cursor .. Min(T) - 1 PROVE ~(delete_queue[p + 1].opstamp >= target)
  <2>1. p \notin T
    BY <1>1, <1>2, <1>3, <1>5
  <2> QED BY <1>1, <1>2, <1>3, <2>1
<1> QED BY <1>1, <1>2, <1>3, <1>4, <1>5

(* advance_deletes changes the deletes and the cursor of an entry, no more. *)
LEMMA Advance ==
  ASSUME Shape, NEW e \in Entry, IsEntry(e), NEW target \in Nat
  PROVE  /\ advance_deletes(e, target) \in Entry /\ IsEntry(advance_deletes(e, target))
         /\ advance_deletes(e, target).id = e.id /\ advance_deletes(e, target).docs = e.docs
<1> DEFINE to == stop_at(e.cursor, target)
<1> DEFINE alive == (e.alive_bitset \ deleted(e.docs, e.cursor, to, FALSE)) \cap alive_docs(e)
<1> DEFINE new == [alive |-> alive, opstamp |-> target]
<1> DEFINE del == IF alive = alive_docs(e) THEN e.del ELSE new
<1> DEFINE r == [e EXCEPT !.cursor = to, !.del = del]
<1>1. /\ e.cursor \in Nat /\ e.cursor =< QueueLen /\ QueueLen \in Nat
      /\ e.docs \subseteq Docs /\ e.alive_bitset \subseteq e.docs /\ e.id \in 1 .. next_id - 1
      /\ e.del # None => e.del.alive \subseteq e.docs /\ e.del.opstamp \in Nat
      /\ e.del \in DelFiles
  BY QueueFacts DEF Entry, IsEntry
<1>2. to \in Nat /\ to =< QueueLen
  BY <1>1, StopAt
<1>3. alive \subseteq e.docs
  BY <1>1
<1>4. new \in DelFiles /\ new.alive = alive /\ new.opstamp = target
  BY <1>1, <1>3 DEF DelFiles
<1>5. del \in DelFiles /\ (del # None => del.alive \subseteq e.docs /\ del.opstamp \in Nat)
  <2> HIDE DEF new, alive
  <2> QED BY <1>1, <1>3, <1>4
<1>6. advance_deletes(e, target) = r \/ advance_deletes(e, target) = e
  BY Zenon DEF advance_deletes
<1> HIDE DEF to, del
<1>7. r \in Entry /\ r.id = e.id /\ r.docs = e.docs /\ r.cursor = to /\ r.del = del /\ r.alive_bitset = e.alive_bitset
  <2>1. r = [e EXCEPT !.cursor = to, !.del = del]
    OBVIOUS
  <2> HIDE DEF r
  <2> QED BY <1>2, <1>5, <2>1 DEF Entry
<1> HIDE DEF r
<1>8. IsEntry(r)
  BY <1>1, <1>2, <1>5, <1>7 DEF IsEntry
<1> QED BY <1>6, <1>7, <1>8

LEMMA EntryKeeps ==
  ASSUME NEW e, IsEntry(e), Shape, Shape', next_id =< next_id', QueueLen =< QueueLen'
  PROVE  IsEntry(e)'
<1>1. next_id \in Nat /\ next_id' \in Nat /\ QueueLen \in Nat /\ QueueLen' \in Nat
  <2>1. next_id \in Nat /\ next_id' \in Nat /\ delete_queue \in Seq(Docs) /\ delete_queue' \in Seq(Docs)
    BY DEF Shape
  <2> QED BY <2>1 DEF QueueLen
<1>2. e.id \in 1 .. next_id' - 1 /\ e.cursor \in 0 .. QueueLen'
  BY <1>1 DEF IsEntry
<1> QED BY <1>2 DEF IsEntry

-----------------------------------------------------------------------------
(* Merges: one that goes on, ends or starts.                               *)
Stays(m, over) == merge'[m] = IF m \in over THEN NoMerge ELSE merge[m]
Starts(m, over) ==
  /\ m \in over \/ ~merge[m].running
  /\ merge'[m].running /\ merge'[m].advanced = 0 /\ merge'[m].segments # <<>>
  /\ \/ /\ merge'[m].target = stamper
        /\ \A i \in DOMAIN merge'[m].segments : merge'[m].segments[i] \in uncommitted'
     \/ /\ merge'[m].target = meta'.opstamp
        /\ \A i \in DOMAIN merge'[m].segments : merge'[m].segments[i] \in committed'
MergeStep(over) ==
  /\ merge' \in [Merges -> Merge]
  /\ \A m \in Merges : Stays(m, over) \/ Starts(m, over)

LEMMA CandidateFacts ==
  ASSUME NEW S, IsFiniteSet(S), NEW s \in Candidates(S)
  PROVE  s \in Seq(S) /\ s # <<>> /\ \A i \in DOMAIN s : s[i] \in S
<1>1. PICK T \in SUBSET S : T # {} /\ s \in [1 .. Cardinality(T) -> T]
  BY DEF Candidates
<1>2. IsFiniteSet(T) /\ Cardinality(T) \in Nat
  BY <1>1, FS_Subset, FS_CardinalityType
<1>3. Cardinality(T) # 0
  BY <1>1, <1>2, FS_EmptySet
<1> QED BY <1>1, <1>2, <1>3

LEMMA TrackedFacts ==
  ASSUME Shape, NEW over
  PROVE  /\ Tracked(over) \in [Merges -> Merge]
         /\ \A m \in Merges : Tracked(over)[m] = IF m \in over THEN NoMerge ELSE merge[m]
<1>1. NoMerge \in Merge
  BY DEF NoMerge, Merge
<1> QED BY <1>1 DEF Tracked, Shape

LEMMA StartMerge ==
  ASSUME Shape, NEW m \in Merges, NEW s \in Seq(Entry), s # <<>>, NEW target \in Nat, NEW over,
         start_merge(m, s, target, over), ~Tracked(over)[m].running,
         \/ target = stamper /\ \A i \in DOMAIN s : s[i] \in uncommitted'
         \/ target = meta'.opstamp /\ \A i \in DOMAIN s : s[i] \in committed'
  PROVE  MergeStep(over)
<1> DEFINE new == [segments |-> s, target |-> target, advanced |-> 0, running |-> TRUE]
<1>1. new \in Merge /\ new.segments = s /\ new.target = target /\ new.advanced = 0 /\ new.running
  BY DEF Merge
<1>2. merge' = [Tracked(over) EXCEPT ![m] = new]
  BY DEF start_merge
<1> HIDE DEF new
<1>3. merge' \in [Merges -> Merge]
  BY <1>1, <1>2, TrackedFacts
<1>4. \A x \in Merges : merge'[x] = IF x = m THEN new ELSE Tracked(over)[x]
  BY <1>2, TrackedFacts
<1>5. ASSUME NEW x \in Merges PROVE Stays(x, over) \/ Starts(x, over)
  <2>1. CASE x # m
    BY <2>1, <1>4, TrackedFacts DEF Stays
  <2>2. CASE x = m
    <3>1. m \in over \/ ~merge[m].running
      BY TrackedFacts
    <3> QED BY <2>2, <3>1, <1>1, <1>4 DEF Starts
  <2> QED BY <2>1, <2>2
<1> QED BY <1>3, <1>5 DEF MergeStep

LEMMA MergeOptions ==
  ASSUME Shape, NEW over, consider_merge_options(over),
         uncommitted' \subseteq Entry, committed' \subseteq Entry, meta'.opstamp \in Nat,
         IsFiniteSet(uncommitted'), IsFiniteSet(committed')
  PROVE  MergeStep(over) /\ stamper' = stamper + 1
<1>1. stamper' = stamper + 1
  BY DEF consider_merge_options
<1>2. CASE merge' = Tracked(over)
  BY <1>1, <1>2, TrackedFacts DEF MergeStep, Stays
<1>3. ASSUME NEW m \in Merges, ~Tracked(over)[m].running,
             NEW s \in Candidates(Mergeable(uncommitted')), start_merge(m, s, stamper, over)
      PROVE  MergeStep(over)
  <2> DEFINE S == Mergeable(uncommitted')
  <2>1. S \subseteq uncommitted' /\ IsFiniteSet(S)
    BY FS_Subset DEF Mergeable
  <2>2. s \in Candidates(S)
    BY <1>3
  <2> HIDE DEF S
  <2>3. s \in Seq(S) /\ s # <<>> /\ \A i \in DOMAIN s : s[i] \in S
    BY <2>1, <2>2, CandidateFacts
  <2>4. s \in Seq(Entry)
    BY <2>1, <2>3
  <2>5. stamper \in Nat
    BY DEF Shape
  <2> QED BY <1>3, <2>1, <2>3, <2>4, <2>5, StartMerge
<1>4. ASSUME NEW m \in Merges, ~Tracked(over)[m].running,
             NEW s \in Candidates(Mergeable(committed')), start_merge(m, s, meta'.opstamp, over)
      PROVE  MergeStep(over)
  <2> DEFINE S == Mergeable(committed')
  <2>1. S \subseteq committed' /\ IsFiniteSet(S)
    BY FS_Subset DEF Mergeable
  <2>2. s \in Candidates(S)
    BY <1>4
  <2> HIDE DEF S
  <2>3. s \in Seq(S) /\ s # <<>> /\ \A i \in DOMAIN s : s[i] \in S
    BY <2>1, <2>2, CandidateFacts
  <2>4. s \in Seq(Entry)
    BY <2>1, <2>3
  <2> QED BY <1>4, <2>1, <2>3, <2>4, StartMerge
<1> QED BY <1>1, <1>2, <1>3, <1>4 DEF consider_merge_options

-----------------------------------------------------------------------------
(* Numbered histories.                                                     *)
LEMMA NumberedFacts ==
  ASSUME NEW h, Numbered(h)
  PROVE  IsFiniteSet(h) /\ Cardinality(h) \in Nat /\ \A o \in h : o.n \in Nat /\ o.n =< Cardinality(h)
<1>1. IsFiniteSet(h) /\ Cardinality(h) \in Nat
  BY FS_CardinalityType DEF Numbered
<1> QED BY <1>1 DEF Numbered

LEMMA NumberedMore ==
  ASSUME NEW h, Numbered(h), NEW b, IsFiniteSet(b),
         \A o \in b : o.n \in Cardinality(h) + 1 .. Cardinality(h) + Cardinality(b),
         \A o, p \in b : o.n = p.n => o = p
  PROVE  Numbered(h \cup b) /\ Cardinality(h \cup b) = Cardinality(h) + Cardinality(b)
<1>1. IsFiniteSet(h) /\ Cardinality(h) \in Nat /\ Cardinality(b) \in Nat
  BY FS_CardinalityType DEF Numbered
<1>2. \A o \in h : o.n \in 1 .. Cardinality(h)
  BY DEF Numbered
<1>3. h \cap b = {}
  BY <1>1, <1>2
<1>4. IsFiniteSet(h \cup b) /\ Cardinality(h \cup b) = Cardinality(h) + Cardinality(b)
  BY <1>1, <1>3, FS_Union, FS_EmptySet
<1>5. \A o \in h \cup b : o.n \in 1 .. Cardinality(h) + Cardinality(b)
  BY <1>1, <1>2
<1>6. \A o, p \in h \cup b : o.n = p.n => o = p
  BY <1>1, <1>2 DEF Numbered
<1> QED BY <1>4, <1>5, <1>6 DEF Numbered

LEMMA NumberedOne ==
  ASSUME NEW h, Numbered(h), NEW o, o.n = Cardinality(h) + 1
  PROVE  Numbered(h \cup {o}) /\ Cardinality(h \cup {o}) = Cardinality(h) + 1
<1>1. IsFiniteSet({o}) /\ Cardinality({o}) = 1 /\ Cardinality(h) \in Nat
  BY FS_Singleton, NumberedFacts
<1> QED BY <1>1, NumberedMore

(* The operations of a group: one record for each place.                   *)
LEMMA NumberedGroup ==
  ASSUME NEW h, Numbered(h), NEW k \in Nat, NEW f, f \in [1 .. k -> Record],
         \A i \in 1 .. k : f[i].n = Cardinality(h) + i
  PROVE  LET b == {f[i] : i \in 1 .. k}
         IN Numbered(h \cup b) /\ Cardinality(h \cup b) = Cardinality(h) + k
<1> DEFINE b == {f[i] : i \in 1 .. k}
<1>1. Cardinality(h) \in Nat
  BY NumberedFacts
<1>2. \A i, j \in 1 .. k : f[i] = f[j] => i = j
  BY <1>1
<1>3. f \in Bijection(1 .. k, b)
  <2>1. f \in [1 .. k -> b] /\ \A o \in b : \E i \in 1 .. k : f[i] = o
    OBVIOUS
  <2> HIDE DEF b
  <2>2. f \in Injection(1 .. k, b)
    BY <1>2, <2>1 DEF Injection, IsInjective
  <2>3. f \in Surjection(1 .. k, b)
    BY <2>1 DEF Surjection
  <2> QED BY <2>2, <2>3 DEF Bijection
<1>4. IsFiniteSet(1 .. k) /\ Cardinality(1 .. k) = k
  BY FS_Interval
<1>5. IsFiniteSet(b) /\ Cardinality(b) = k
  <2> HIDE DEF b
  <2> QED BY <1>3, <1>4, FS_Bijection DEF ExistsBijection
<1>6. \A o \in b : o.n \in Cardinality(h) + 1 .. Cardinality(h) + k
  BY <1>1
<1>7. \A o, p \in b : o.n = p.n => o = p
  BY <1>1
<1> HIDE DEF b
<1>8. Numbered(h \cup b) /\ Cardinality(h \cup b) = Cardinality(h) + k
  BY <1>5, <1>6, <1>7, NumberedMore
<1> QED BY <1>8 DEF b

(* An operation that ends keeps its number.                                *)
LEMMA EndedFacts ==
  ASSUME history \subseteq Record, Numbered(history), NEW ns
  PROVE  /\ Numbered(Ended(ns)) /\ Cardinality(Ended(ns)) = Cardinality(history) /\ Ended(ns) \subseteq Record
<1> DEFINE f == [o \in history |-> IF o.n \in ns THEN [o EXCEPT !.over = TRUE] ELSE o]
<1>1. \A o \in history : f[o] \in Record /\ f[o].n = o.n
  BY DEF Record
<1>2. Ended(ns) = {f[o] : o \in history}
  BY DEF Ended
<1>3. IsFiniteSet(history) /\ Cardinality(history) \in Nat /\ (\A o \in history : o.n \in 1 .. Cardinality(history))
      /\ \A o, p \in history : o.n = p.n => o = p
  BY NumberedFacts DEF Numbered
<1>4. f \in [history -> Ended(ns)]
  BY <1>2
<1> HIDE DEF f
<1>5. \A o, p \in history : f[o] = f[p] => o = p
  BY <1>1, <1>3
<1>6. f \in Bijection(history, Ended(ns))
  <2>1. \A o \in Ended(ns) : \E p \in history : f[p] = o
    BY <1>2
  <2>2. f \in Injection(history, Ended(ns))
    BY <1>4, <1>5 DEF Injection, IsInjective
  <2>3. f \in Surjection(history, Ended(ns))
    BY <1>4, <2>1 DEF Surjection
  <2> QED BY <2>2, <2>3 DEF Bijection
<1>7. IsFiniteSet(Ended(ns)) /\ Cardinality(Ended(ns)) = Cardinality(history)
  BY <1>3, <1>6, FS_Bijection DEF ExistsBijection
<1>8. \A o \in Ended(ns) : o.n \in 1 .. Cardinality(history)
  BY <1>1, <1>2, <1>3
<1>9. \A o, p \in Ended(ns) : o.n = p.n => o = p
  BY <1>1, <1>2, <1>3
<1>10. Ended(ns) \subseteq Record
  BY <1>1, <1>2
<1> QED BY <1>7, <1>8, <1>9, <1>10 DEF Numbered
-----------------------------------------------------------------------------
(* What a step that leaves the variables of a part alone keeps.            *)
LEMMA FormedFrame ==
  ASSUME Formed, UNCHANGED <<delete_queue, worker, tasks, updating, registers, merge, meta, next_id>>
  PROVE  Formed'
  BY DEF Formed, registers, Stored, Copies, Carries, IsEntry, QueueLen

LEMMA FiniteFrame ==
  ASSUME Finite, UNCHANGED <<updating, registers, meta>>
  PROVE  Finite'
  BY DEF Finite, registers, Copies

LEMMA IdentsFrame ==
  ASSUME Idents, UNCHANGED <<updating, registers, merge, meta>>
  PROVE  Idents'
  BY DEF Idents, registers, Stored, Copies

LEMMA FreshFrame ==
  ASSUME Fresh, UNCHANGED <<worker, tasks, updating, registers, merge>>
  PROVE  Fresh'
  BY DEF Fresh, registers, Stored, Copies, Carries

LEMMA WaitingFrame ==
  ASSUME Waiting, UNCHANGED <<worker, tasks, updating, merge>>
  PROVE  Waiting'
  BY DEF Waiting, Written

LEMMA ApartFrame ==
  ASSUME Apart, UNCHANGED <<client, channel, worker, updating, registers>>
  PROVE  Apart'
  BY DEF Apart, registers, Stored, Copies

LEMMA CountedFrame ==
  ASSUME Counted, UNCHANGED <<client, channel, worker, updating, registers, history>>
  PROVE  Counted'
  BY DEF Counted, registers, Stored, Copies, Numbered, Below

LEMMA SettledFrame ==
  ASSUME Settled, UNCHANGED <<tasks, updating, registers, meta, published>>
  PROVE  Settled'
  BY DEF Settled, registers, Stored, Copies, Numbered, Below

LEMMA QuietlyFrame ==
  ASSUME Quietly, UNCHANGED <<client, channel, owner, stamper>>
  PROVE  Quietly'
  BY DEF Quietly

LEMMA BelowMore ==
  ASSUME NEW docs, NEW h, NEW g, Below(docs, h), docs \subseteq Docs,
         Cardinality(h) \in Nat, Cardinality(g) \in Nat, Cardinality(h) =< Cardinality(g)
  PROVE  Below(docs, g)
<1>1. ASSUME NEW d \in docs PROVE d.n =< Cardinality(g)
  <2>1. d.n \in Nat /\ d.n =< Cardinality(h)
    BY DEF Docs, Below
  <2> QED BY <2>1
<1> QED BY <1>1 DEF Below

(* Everywhere documents are, they are documents.                           *)
LEMMA DocsFacts ==
  ASSUME Shape
  PROVE  /\ \A c \in Clients : client[c].send \subseteq Docs /\ client[c].push \subseteq Docs
         /\ \A k \in DOMAIN channel : channel[k] \subseteq Docs
         /\ \A w \in Workers : worker[w].docs \subseteq Docs
         /\ \A e \in Stored : e.docs \subseteq Docs
<1>1. \A c \in Clients : client[c].send \subseteq Docs /\ client[c].push \subseteq Docs
  BY DEF Shape, Client
<1>2. \A k \in DOMAIN channel : channel[k] \subseteq Docs
  BY DEF Shape
<1>3. \A w \in Workers : worker[w].docs \subseteq Docs
  BY DEF Shape, Worker
<1>4. Stored \subseteq Entry
  BY DEF Shape, Stored, Copies, Commit, Save, NoUpdate
<1>5. \A e \in Stored : e.docs \subseteq Docs
  BY <1>4 DEF Entry
<1> QED BY <1>1, <1>2, <1>3, <1>5

(* A history may only grow under the documents.                            *)
LEMMA CountedGrows ==
  ASSUME Shape, Counted, UNCHANGED <<channel, worker, updating, registers>>,
         Numbered(history'), Cardinality(history) =< Cardinality(history'),
         \A c \in Clients : client'[c].send = client[c].send \/ Below(client'[c].send, history')
  PROVE  Counted'
<1>1. Cardinality(history) \in Nat /\ Cardinality(history') \in Nat
  BY NumberedFacts DEF Counted
<1>2. \A c \in Clients : Below(client[c].send, history')
  BY <1>1, BelowMore, DocsFacts DEF Counted
<1>3. \A k \in DOMAIN channel : Below(channel[k], history')
  BY <1>1, BelowMore, DocsFacts DEF Counted
<1>4. \A w \in Workers : Below(worker[w].docs, history')
  BY <1>1, BelowMore, DocsFacts DEF Counted
<1>5. \A e \in Stored : Below(e.docs, history')
  BY <1>1, BelowMore, DocsFacts DEF Counted
<1>6. Stored' = Stored
  BY DEF Stored, Copies, registers
<1> QED BY <1>2, <1>3, <1>4, <1>5, <1>6 DEF Counted

-----------------------------------------------------------------------------
(* The invariant: at the start, and what it says.                          *)
LEMMA InitIInv == Init => IInv
<1> SUFFICES ASSUME Init PROVE IInv
  OBVIOUS
<1>1. Shape
  <2>1. NoCall \in Client /\ NoMerge \in Merge /\ FreshWorker(0) \in Worker
    BY DEF NoCall, Client, NoMerge, Merge, FreshWorker, Worker
  <2> QED BY <2>1, IndexerAssumption DEF Init, Shape
<1>2. Stored = {} /\ Copies = {} /\ tasks = <<>> /\ channel = <<>> /\ updating.step = "none"
  BY DEF Init, Stored, Copies, NoUpdate
<1>3. Formed
  BY <1>2 DEF Init, Formed, FreshWorker, NoMerge, QueueLen
<1>4. Finite
  BY <1>2, FS_EmptySet DEF Init, Finite
<1>5. Idents
  BY <1>2 DEF Init, Idents, NoMerge
<1>6. Fresh
  BY <1>2 DEF Init, Fresh, FreshWorker
<1>7. Waiting
  BY <1>2 DEF Init, Waiting, FreshWorker, NoMerge
<1>8. Apart
  BY <1>2 DEF Init, Apart, FreshWorker, NoCall
<1>9. Counted /\ Settled
  <2>1. Numbered({})
    BY FS_EmptySet DEF Numbered
  <2> QED BY <1>2, <2>1 DEF Init, Counted, Settled, FreshWorker, NoCall, Below
<1>10. Quietly
  BY <1>2 DEF Init, Quietly
<1> QED BY <1>1, <1>3, <1>4, <1>5, <1>6, <1>7, <1>8, <1>9, <1>10 DEF IInv

LEMMA IInvTypeOK == IInv => TypeOK
<1> SUFFICES ASSUME IInv PROVE TypeOK
  OBVIOUS
<1>1. \A w \in Workers : worker[w].cursor \in 0 .. QueueLen
  <2>1. \A w \in Workers : worker[w].cursor \in Nat /\ worker[w].cursor =< QueueLen
    BY DEF IInv, Shape, Worker, Formed
  <2>2. QueueLen \in Nat
    BY QueueFacts DEF IInv
  <2> QED BY <2>1, <2>2
<1>2. ids(uncommitted) \cap ids(committed) = {}
  BY DEF IInv, Idents, ids
<1>3. \A e \in uncommitted \cup committed : IsEntry(e)
  BY DEF IInv, Formed, Stored
<1>4. \A m \in Merges : \A i \in DOMAIN merge[m].segments : IsEntry(merge[m].segments[i])
  BY DEF IInv, Formed
<1> QED BY <1>1, <1>2, <1>3, <1>4 DEF IInv, Shape, TypeOK

LEMMA AliveInDocs ==
  ASSUME NEW e, IsEntry(e)
  PROVE  alive_docs(e) \subseteq e.docs
  BY DEF IsEntry, alive_docs

LEMMA IInvNoDocumentTwice == IInv => NoDocumentTwice
<1> SUFFICES ASSUME IInv, NEW e \in uncommitted \cup committed, NEW f \in uncommitted \cup committed, e # f
             PROVE  alive_docs(e) \cap alive_docs(f) = {}
  BY DEF NoDocumentTwice
<1>1. e.id # f.id
  BY DEF IInv, Idents
<1>2. e.docs \cap f.docs = {}
  BY <1>1 DEF IInv, Idents, Stored
<1>3. alive_docs(e) \subseteq e.docs /\ alive_docs(f) \subseteq f.docs
  BY AliveInDocs DEF IInv, Formed, Stored
<1> QED BY <1>2, <1>3

-----------------------------------------------------------------------------
(* Clients.                                                                *)
LEMMA StampKeeps ==
  ASSUME IInv, NEW c \in Clients, CanCall(c), NEW count \in Nat, NEW push \in SUBSET Docs,
         NEW send \in SUBSET Docs, NEW begun \in SUBSET Record, Numbered(history \cup begun),
         Cardinality(history) =< Cardinality(history \cup begun),
         \A d \in send : d.n > Cardinality(history) /\ d.n =< Cardinality(history \cup begun),
         Stamp(c, count, push, send, begun)
  PROVE  IInv'
<1> USE DEF Stamp
<1>1. UNCHANGED <<delete_queue, worker, tasks, updating, registers, merge, meta, next_id, channel, owner,
                  published, committed_opstamp, commits>>
  BY DEF updater, registers
<1>2. client' \in [Clients -> Client] /\ client'[c].send = send /\ \A b \in Clients \ {c} : client'[b] = client[b]
  <2>1. [push |-> push, send |-> send, began |-> {o.n : o \in begun}] \in Client
    BY DEF Client, Record
  <2>2. client \in [Clients -> Client]
    BY DEF IInv, Shape
  <2> QED BY <2>1, <2>2
<1>3. history' = history \cup begun /\ stamper' = stamper + count
  OBVIOUS
<1> HIDE DEF Stamp
<1>4. Shape'
  BY <1>1, <1>2, <1>3 DEF IInv, Shape, registers
<1>5. Formed' /\ Finite' /\ Idents' /\ Fresh' /\ Waiting' /\ Settled'
  BY <1>1, FormedFrame, FiniteFrame, IdentsFrame, FreshFrame, WaitingFrame, SettledFrame DEF IInv
<1>6. Stored' = Stored
  BY <1>1 DEF Stored, Copies, registers
<1>7. Apart'
  <2>1. \A d \in send : \A x \in Docs : x.n =< Cardinality(history) => x # d
    <3>1. Cardinality(history) \in Nat
      BY NumberedFacts DEF IInv, Counted
    <3> QED BY <3>1 DEF Docs
  <2>2. \A docs \in SUBSET Docs : Below(docs, history) => docs \cap send = {}
    BY <2>1 DEF Below
  <2>3. /\ \A b \in Clients : client[b].send \cap send = {}
        /\ \A k \in DOMAIN channel : channel[k] \cap send = {}
        /\ \A w \in Workers : worker[w].docs \cap send = {}
        /\ \A e \in Stored : e.docs \cap send = {}
    <3>1. Shape /\ Counted
      BY DEF IInv
    <3> QED BY <3>1, <2>2, DocsFacts DEF Counted
  <2>4. Apart
    BY DEF IInv
  <2> QED BY <1>1, <1>2, <1>6, <2>3, <2>4 DEF Apart
<1>8. Counted'
  <2>1. Below(send, history')
    BY <1>3 DEF Below
  <2> QED BY <1>1, <1>2, <1>3, <2>1, CountedGrows DEF IInv
<1>9. Quietly'
  BY <1>1 DEF IInv, Quietly, CanCall
<1> QED BY <1>4, <1>5, <1>7, <1>8, <1>9 DEF IInv

LEMMA OpFacts ==
  ASSUME NEW n \in Nat, NEW opstamp \in Nat, NEW t \in Terms
  PROVE  Op(n, opstamp, t) \in Docs /\ Op(n, opstamp, t).n = n /\ Op(n, opstamp, t).opstamp = opstamp
         /\ Op(n, opstamp, t).term = t
  BY DEF Op, Docs

LEMMA BeganFacts ==
  ASSUME NEW n \in Nat, NEW kind \in {"add", "delete", "clear"}, NEW t \in Terms \cup {None}, NEW after \in SUBSET Nat
  PROVE  Began(n, kind, t, after) \in Record /\ Began(n, kind, t, after).n = n
         /\ Began(n, kind, t, after).kind = kind /\ Began(n, kind, t, after).term = t
         /\ Began(n, kind, t, after).after = after /\ ~Began(n, kind, t, after).over
  BY DEF Began, Record

LEMMA NextFacts ==
  ASSUME IInv
  PROVE  Cardinality(history) \in Nat /\ NextOp \in Nat /\ NextOp = Cardinality(history) + 1
         /\ stamper \in Nat /\ Over \in SUBSET Nat /\ Numbered(history)
<1>1. Numbered(history) /\ Cardinality(history) \in Nat /\ stamper \in Nat /\ history \subseteq Record
  BY NumberedFacts DEF IInv, Counted, Shape
<1>2. Over \in SUBSET Nat
  BY <1>1 DEF Over, Record
<1> QED BY <1>1, <1>2 DEF NextOp

LEMMA AddDocumentKeeps == ASSUME IInv, NEW c \in Clients, AddDocument(c) PROVE IInv'
<1>1. PICK t \in Terms : Stamp(c, 1, {}, {Op(NextOp, stamper, t)}, {Began(NextOp, "add", t, Over)})
  BY DEF AddDocument
<1>2. CanCall(c)
  BY DEF AddDocument
<1> DEFINE o == Began(NextOp, "add", t, Over)
<1> DEFINE d == Op(NextOp, stamper, t)
<1>3. o \in Record /\ o.n = Cardinality(history) + 1 /\ d \in Docs /\ d.n = Cardinality(history) + 1
  <2>1. NextOp \in Nat /\ NextOp = Cardinality(history) + 1 /\ stamper \in Nat /\ Over \in SUBSET Nat
    BY NextFacts
  <2>2. o \in Record /\ o.n = NextOp
    BY <2>1, BeganFacts
  <2>3. d \in Docs /\ d.n = NextOp
    BY <2>1, OpFacts
  <2> QED BY <2>1, <2>2, <2>3
<1> HIDE DEF o, d
<1>4. Numbered(history \cup {o}) /\ Cardinality(history \cup {o}) = Cardinality(history) + 1
  BY <1>3, NextFacts, NumberedOne
<1>5. Stamp(c, 1, {}, {d}, {o})
  BY <1>1 DEF o, d
<1> QED BY <1>2, <1>3, <1>4, <1>5, NextFacts, StampKeeps

LEMMA DeleteTermKeeps == ASSUME IInv, NEW c \in Clients, DeleteTerm(c) PROVE IInv'
<1>1. PICK t \in Terms : Stamp(c, 1, {Op(NextOp, stamper, t)}, {}, {Began(NextOp, "delete", t, Over)})
  BY DEF DeleteTerm
<1>2. CanCall(c)
  BY DEF DeleteTerm
<1> DEFINE o == Began(NextOp, "delete", t, Over)
<1> DEFINE d == Op(NextOp, stamper, t)
<1>3. o \in Record /\ o.n = Cardinality(history) + 1 /\ d \in Docs
  <2>1. NextOp \in Nat /\ NextOp = Cardinality(history) + 1 /\ stamper \in Nat /\ Over \in SUBSET Nat
    BY NextFacts
  <2>2. o \in Record /\ o.n = NextOp
    BY <2>1, BeganFacts
  <2>3. d \in Docs /\ d.n = NextOp
    BY <2>1, OpFacts
  <2> QED BY <2>1, <2>2, <2>3
<1> HIDE DEF o, d
<1>4. Numbered(history \cup {o}) /\ Cardinality(history \cup {o}) = Cardinality(history) + 1
  BY <1>3, NextFacts, NumberedOne
<1>5. Stamp(c, 1, {d}, {}, {o})
  BY <1>1 DEF o, d
<1> QED BY <1>2, <1>3, <1>4, <1>5, NextFacts, StampKeeps

(* run: what a group stamps.                                               *)
GroupRecord(group, i) ==
  Began(NextOp + i - 1, group[i].kind, group[i].term, Over \cup {NextOp + j - 1 : j \in 1 .. i - 1})

LEMMA RunFacts ==
  ASSUME IInv, NEW group \in Groups
  PROVE  /\ Len(group) \in Nat /\ DOMAIN group = 1 .. Len(group)
         /\ \A i \in DOMAIN group : group[i].kind \in {"add", "delete"} /\ group[i].term \in Terms
         /\ \A i \in DOMAIN group : GroupRecord(group, i) \in Record /\ GroupRecord(group, i).n = Cardinality(history) + i
                 /\ GroupRecord(group, i).kind = group[i].kind /\ GroupRecord(group, i).term = group[i].term
                 /\ GroupRecord(group, i).after = Over \cup {NextOp + j - 1 : j \in 1 .. i - 1}
                 /\ ~GroupRecord(group, i).over
         /\ \A kind : \A d \in Stamped(group, kind) :
              /\ d \in Docs
              /\ \E i \in DOMAIN group : /\ group[i].kind = kind /\ d.n = Cardinality(history) + i
                                         /\ d.opstamp = stamper + i - 1 /\ d.term = group[i].term
<1>1. group \in Seq([kind : {"add", "delete"}, term : Terms])
  BY IndexerAssumption
<1>2. Len(group) \in Nat /\ DOMAIN group = 1 .. Len(group)
      /\ \A i \in DOMAIN group : group[i].kind \in {"add", "delete"} /\ group[i].term \in Terms
  <2> DEFINE R == [kind : {"add", "delete"}, term : Terms]
  <2>1. \A x \in R : x.kind \in {"add", "delete"} /\ x.term \in Terms
    OBVIOUS
  <2>2. group \in Seq(R)
    BY <1>1
  <2> HIDE DEF R
  <2>3. Len(group) \in Nat /\ DOMAIN group = 1 .. Len(group) /\ \A i \in DOMAIN group : group[i] \in R
    BY <2>2
  <2> QED BY <2>1, <2>3
<1>3. ASSUME NEW i \in DOMAIN group
      PROVE  GroupRecord(group, i) \in Record /\ GroupRecord(group, i).n = Cardinality(history) + i
             /\ GroupRecord(group, i).kind = group[i].kind /\ GroupRecord(group, i).term = group[i].term
             /\ GroupRecord(group, i).after = Over \cup {NextOp + j - 1 : j \in 1 .. i - 1}
             /\ ~GroupRecord(group, i).over
  <2> DEFINE n == NextOp + i - 1
  <2> DEFINE before == Over \cup {NextOp + j - 1 : j \in 1 .. i - 1}
  <2>1. n \in Nat /\ n = Cardinality(history) + i /\ before \in SUBSET Nat
    BY <1>2, NextFacts
  <2>2. group[i].kind \in {"add", "delete", "clear"} /\ group[i].term \in Terms \cup {None}
    BY <1>2
  <2>3. GroupRecord(group, i) = Began(n, group[i].kind, group[i].term, before)
    BY DEF GroupRecord
  <2> HIDE DEF n, before
  <2>4. /\ GroupRecord(group, i) \in Record /\ GroupRecord(group, i).n = n
        /\ GroupRecord(group, i).kind = group[i].kind /\ GroupRecord(group, i).term = group[i].term
        /\ GroupRecord(group, i).after = before /\ ~GroupRecord(group, i).over
    BY <2>1, <2>2, <2>3, BeganFacts
  <2> QED BY <2>1, <2>4 DEF before
<1>4. ASSUME NEW kind, NEW d \in Stamped(group, kind)
      PROVE  /\ d \in Docs
             /\ \E i \in DOMAIN group : /\ group[i].kind = kind /\ d.n = Cardinality(history) + i
                                        /\ d.opstamp = stamper + i - 1 /\ d.term = group[i].term
  <2>1. PICK i \in DOMAIN group : group[i].kind = kind /\ d = Op(NextOp + i - 1, stamper + i - 1, group[i].term)
    BY DEF Stamped
  <2>2. NextOp + i - 1 \in Nat /\ stamper + i - 1 \in Nat /\ NextOp + i - 1 = Cardinality(history) + i
    BY <1>2, NextFacts
  <2> QED BY <1>2, <2>1, <2>2, OpFacts
<1> QED BY <1>2, <1>3, <1>4

LEMMA RunKeeps == ASSUME IInv, NEW c \in Clients, Run(c) PROVE IInv'
<1>1. PICK group \in Groups :
        Stamp(c, Len(group) + 1, Stamped(group, "delete"), Stamped(group, "add"),
              {GroupRecord(group, i) : i \in DOMAIN group})
  BY DEF Run, GroupRecord
<1> DEFINE k == Len(group)
<1> DEFINE f == [i \in 1 .. k |-> GroupRecord(group, i)]
<1> DEFINE begun == {GroupRecord(group, i) : i \in DOMAIN group}
<1>2. CanCall(c)
  BY DEF Run
<1>3. k \in Nat /\ DOMAIN group = 1 .. k
  BY RunFacts
<1>4. f \in [1 .. k -> Record] /\ \A i \in 1 .. k : f[i].n = Cardinality(history) + i
  BY RunFacts
<1>5. begun = {f[i] : i \in 1 .. k} /\ begun \subseteq Record
  BY <1>3, <1>4
<1> HIDE DEF f, begun
<1>6. Numbered(history \cup begun) /\ Cardinality(history \cup begun) = Cardinality(history) + k
  <2>1. Numbered(history)
    BY NextFacts
  <2> HIDE DEF k
  <2> QED BY <1>3, <1>4, <1>5, <2>1, NumberedGroup
<1>7. \A kind : \A d \in Stamped(group, kind) : d \in Docs /\ d.n > Cardinality(history) /\ d.n =< Cardinality(history) + k
  <2> SUFFICES ASSUME NEW kind, NEW d \in Stamped(group, kind)
               PROVE  d \in Docs /\ d.n > Cardinality(history) /\ d.n =< Cardinality(history) + k
    OBVIOUS
  <2>1. d \in Docs /\ \E i \in DOMAIN group : d.n = Cardinality(history) + i
    BY RunFacts
  <2>2. Cardinality(history) \in Nat
    BY NextFacts
  <2> QED BY <1>3, <2>1, <2>2
<1>8. Stamped(group, "delete") \in SUBSET Docs /\ Stamped(group, "add") \in SUBSET Docs
  BY <1>7
<1>9. Stamp(c, k + 1, Stamped(group, "delete"), Stamped(group, "add"), begun)
  BY <1>1 DEF begun
<1>10. k + 1 \in Nat /\ Cardinality(history) =< Cardinality(history \cup begun)
  BY <1>3, <1>6, NextFacts
<1> HIDE DEF k
<1>11. \A d \in Stamped(group, "add") : d.n > Cardinality(history) /\ d.n =< Cardinality(history \cup begun)
  BY <1>6, <1>7
<1> QED BY <1>2, <1>5, <1>6, <1>8, <1>9, <1>10, <1>11, StampKeeps

LEMMA ReturnsFacts ==
  ASSUME IInv, NEW c \in Clients, NEW push \in SUBSET Docs, NEW send \in SUBSET Docs, Returns(c, push, send)
  PROVE  /\ client' \in [Clients -> Client] /\ client'[c].push = push /\ client'[c].send = send
         /\ \A b \in Clients \ {c} : client'[b] = client[b]
         /\ history' \in SUBSET Record /\ Numbered(history') /\ Cardinality(history') = Cardinality(history)
<1>1. client \in [Clients -> Client] /\ history \subseteq Record /\ Numbered(history)
  BY DEF IInv, Shape, Counted
<1>2. CASE push = {} /\ send = {}
  <2>1. client' = [client EXCEPT ![c] = NoCall] /\ history' = Ended(client[c].began)
    BY <1>2 DEF Returns
  <2>2. NoCall \in Client /\ NoCall.push = {} /\ NoCall.send = {}
    BY DEF NoCall, Client
  <2> QED BY <1>1, <1>2, <2>1, <2>2, EndedFacts
<1>3. CASE ~(push = {} /\ send = {})
  <2>1. client' = [client EXCEPT ![c].push = push, ![c].send = send] /\ history' = history
    BY <1>3 DEF Returns
  <2> QED BY <1>1, <2>1 DEF Client
<1> QED BY <1>2, <1>3

LEMMA PushDeleteKeeps == ASSUME IInv, NEW c \in Clients, PushDelete(c) PROVE IInv'
<1>1. PICK op \in client[c].push :
        delete_queue' = Append(delete_queue, op) /\ Returns(c, client[c].push \ {op}, client[c].send)
  BY DEF PushDelete
<1>2. UNCHANGED <<worker, tasks, updating, registers, merge, meta, next_id, channel, owner,
                  published, committed_opstamp, commits, stamper>>
  BY DEF PushDelete, updater, registers
<1>3. op \in Docs /\ client[c].push \subseteq Docs /\ client[c].send \subseteq Docs
  BY DocsFacts DEF IInv
<1>4. /\ client' \in [Clients -> Client] /\ \A b \in Clients : client'[b].send = client[b].send
      /\ history' \in SUBSET Record /\ Numbered(history') /\ Cardinality(history') = Cardinality(history)
  BY <1>1, <1>3, ReturnsFacts
<1>5. delete_queue' \in Seq(Docs) /\ QueueLen' = QueueLen + 1 /\ QueueLen \in Nat
  BY <1>1, <1>3, AppendFacts DEF IInv, Shape, QueueLen
<1>6. Shape'
  BY <1>2, <1>4, <1>5 DEF IInv, Shape, registers
<1>7. Finite' /\ Idents' /\ Fresh' /\ Waiting' /\ Settled'
  BY <1>2, FiniteFrame, IdentsFrame, FreshFrame, WaitingFrame, SettledFrame DEF IInv
<1>8. Stored' = Stored
  BY <1>2 DEF Stored, Copies, registers
<1>9. Formed'
  <2>1. \A e : IsEntry(e) => IsEntry(e)'
    <3>1. Shape /\ next_id =< next_id' /\ QueueLen =< QueueLen'
      BY <1>2, <1>5 DEF IInv, Shape
    <3> QED BY <1>6, <3>1, EntryKeeps
  <2>2. \A w \in Workers : worker[w].cursor =< QueueLen'
    BY <1>5 DEF IInv, Formed, Shape, Worker
  <2>3. \A k : Carries(k)' <=> Carries(k)
    BY <1>2 DEF Carries
  <2> QED BY <1>2, <1>8, <2>1, <2>2, <2>3 DEF IInv, Formed
<1>10. Apart'
  BY <1>2, <1>4, <1>8 DEF IInv, Apart
<1>11. Counted'
  <2>1. Cardinality(history) =< Cardinality(history')
    BY <1>4, NextFacts
  <2> QED BY <1>2, <1>4, <2>1, CountedGrows DEF IInv
<1>12. Quietly'
  <2>1. owner = "idle"
    BY DEF IInv, Quietly, NoCall
  <2> QED BY <1>2, <2>1 DEF IInv, Quietly
<1> QED BY <1>6, <1>7, <1>9, <1>10, <1>11, <1>12 DEF IInv

LEMMA SendBatchKeeps == ASSUME IInv, NEW c \in Clients, SendBatch(c) PROVE IInv'
<1>1. /\ client[c].send # {} /\ Len(channel) < PIPELINE_MAX_SIZE_IN_DOCS
      /\ channel' = Append(channel, client[c].send) /\ Returns(c, {}, {})
  BY DEF SendBatch
<1>2. UNCHANGED <<delete_queue, worker, tasks, updating, registers, merge, meta, next_id, owner,
                  published, committed_opstamp, commits, stamper>>
  BY DEF SendBatch, updater, registers
<1>3. client[c].send \in SUBSET Docs
  BY DocsFacts DEF IInv
<1>4. /\ client' \in [Clients -> Client] /\ client'[c].send = {}
      /\ \A b \in Clients \ {c} : client'[b] = client[b]
      /\ history' \in SUBSET Record /\ Numbered(history') /\ Cardinality(history') = Cardinality(history)
  BY <1>1, ReturnsFacts
<1>5. /\ channel' \in Seq(SUBSET Docs) /\ Len(channel') = Len(channel) + 1 /\ Len(channel) \in Nat
      /\ DOMAIN channel = 1 .. Len(channel) /\ DOMAIN channel' = 1 .. Len(channel) + 1
      /\ \A k \in DOMAIN channel : channel'[k] = channel[k]
      /\ channel'[Len(channel) + 1] = client[c].send
  <2>1. channel \in Seq(SUBSET Docs)
    BY DEF IInv, Shape
  <2> QED BY <1>1, <1>3, <2>1, AppendFacts
<1>6. Shape'
  <2>1. Len(channel') =< PIPELINE_MAX_SIZE_IN_DOCS
    BY <1>1, <1>5, IndexerAssumption
  <2> QED BY <1>2, <1>4, <1>5, <2>1 DEF IInv, Shape, registers
<1>7. Formed' /\ Finite' /\ Idents' /\ Fresh' /\ Waiting' /\ Settled'
  BY <1>2, FormedFrame, FiniteFrame, IdentsFrame, FreshFrame, WaitingFrame, SettledFrame DEF IInv
<1>8. Stored' = Stored
  BY <1>2 DEF Stored, Copies, registers
<1>9. \A k \in DOMAIN channel' : (k \in DOMAIN channel /\ channel'[k] = channel[k])
                                 \/ (k = Len(channel) + 1 /\ channel'[k] = client[c].send)
  BY <1>5
<1>10. Apart'
  <2>1. Apart
    BY DEF IInv
  <2>2. \A b \in Clients : /\ client'[b].send \subseteq client[b].send
                           /\ client'[b].send \cap client[c].send = {}
    BY <1>4, <2>1 DEF Apart
  <2>3. /\ \A k \in DOMAIN channel : client[c].send \cap channel[k] = {}
        /\ \A w \in Workers : worker[w].docs \cap client[c].send = {}
        /\ \A e \in Stored : e.docs \cap client[c].send = {}
    BY <2>1 DEF Apart
  <2>4. \A a \in Clients : /\ \A b \in Clients : b # a => client'[b].send \cap client'[a].send = {}
                           /\ \A k \in DOMAIN channel' : channel'[k] \cap client'[a].send = {}
                           /\ \A w \in Workers : worker[w].docs \cap client'[a].send = {}
                           /\ \A e \in Stored : e.docs \cap client'[a].send = {}
    <3> SUFFICES ASSUME NEW a \in Clients
        PROVE    /\ \A b \in Clients : b # a => client'[b].send \cap client'[a].send = {}
                 /\ \A k \in DOMAIN channel' : channel'[k] \cap client'[a].send = {}
                 /\ \A w \in Workers : worker[w].docs \cap client'[a].send = {}
                 /\ \A e \in Stored : e.docs \cap client'[a].send = {}
      OBVIOUS
    <3>1. \A b \in Clients : b # a => client'[b].send \cap client'[a].send = {}
      BY <2>1, <2>2 DEF Apart
    <3>2. \A k \in DOMAIN channel' : channel'[k] \cap client'[a].send = {}
      BY <1>9, <2>1, <2>2 DEF Apart
    <3>3. \A w \in Workers : worker[w].docs \cap client'[a].send = {}
      BY <2>1, <2>2 DEF Apart
    <3>4. \A e \in Stored : e.docs \cap client'[a].send = {}
      BY <2>1, <2>2 DEF Apart
    <3> QED BY <3>1, <3>2, <3>3, <3>4
  <2>5. \A k \in DOMAIN channel' :
          /\ \A j \in DOMAIN channel' : j # k => channel'[j] \cap channel'[k] = {}
          /\ \A w \in Workers : worker[w].docs \cap channel'[k] = {}
          /\ \A e \in Stored : e.docs \cap channel'[k] = {}
    BY <1>9, <2>1, <2>3 DEF Apart
  <2>6. \A w \in Workers :
          /\ \A v \in Workers : v # w => worker[v].docs \cap worker[w].docs = {}
          /\ \A e \in Stored : e.docs \cap worker[w].docs = {}
    BY <2>1 DEF Apart
  <2> QED BY <1>2, <1>8, <2>4, <2>5, <2>6 DEF Apart
<1>11. Counted'
  <2>1. Counted
    BY DEF IInv
  <2>2. \A docs : Below(docs, history) => Below(docs, history')
    BY <1>4 DEF Below
  <2>3. \A b \in Clients : Below(client'[b].send, history')
    <3>1. \A b \in Clients : client'[b].send = client[b].send \/ client'[b].send = {}
      BY <1>4
    <3>2. Below({}, history')
      BY DEF Below
    <3> QED BY <2>1, <2>2, <3>1, <3>2 DEF Counted
  <2>4. \A k \in DOMAIN channel' : Below(channel'[k], history')
    BY <1>9, <2>1, <2>2 DEF Counted
  <2> QED BY <1>2, <1>4, <1>8, <2>1, <2>2, <2>3, <2>4 DEF Counted
<1>12. Quietly'
  <2>1. owner = "idle"
    BY <1>1 DEF IInv, Quietly, NoCall
  <2> QED BY <1>1, <1>2, <1>9, <2>1 DEF IInv, Quietly
<1> QED BY <1>6, <1>7, <1>10, <1>11, <1>12 DEF IInv

(* delete_all_documents: the registers become empty, entries elsewhere stay. *)
LEMMA DeleteAllKeeps == ASSUME IInv, NEW c \in Clients, DeleteAllDocuments(c) PROVE IInv'
<1>1. /\ uncommitted' = {} /\ committed' = {} /\ stamper' = committed_opstamp
      /\ history' = history \cup {[Began(NextOp, "clear", None, Over) EXCEPT !.over = TRUE]}
      /\ UNCHANGED <<delete_queue, channel, client, worker, owner, tasks, updating, merge, meta, next_id,
                     committed_opstamp, commits, published>>
  BY DEF DeleteAllDocuments, pipeline
<1> DEFINE o == [Began(NextOp, "clear", None, Over) EXCEPT !.over = TRUE]
<1>2. o \in Record /\ o.n = Cardinality(history) + 1
  <2>1. Began(NextOp, "clear", None, Over) \in Record /\ Began(NextOp, "clear", None, Over).n = Cardinality(history) + 1
    <3>1. NextOp \in Nat /\ Over \in SUBSET Nat /\ NextOp = Cardinality(history) + 1
      BY NextFacts
    <3>2. ASSUME NEW n \in Nat, NEW after \in SUBSET Nat
          PROVE  Began(n, "clear", None, after) \in Record /\ Began(n, "clear", None, after).n = n
      BY DEF Began, Record
    <3> QED BY <3>1, <3>2
  <2> QED BY <2>1 DEF Record
<1> HIDE DEF o
<1>3. Numbered(history') /\ Cardinality(history') = Cardinality(history) + 1 /\ history' \subseteq Record
  <2>1. history' = history \cup {o}
    BY <1>1 DEF o
  <2>2. Numbered(history) /\ history \subseteq Record
    BY DEF IInv, Counted, Shape
  <2> QED BY <1>2, <2>1, <2>2, NumberedOne
<1>4. Shape'
  BY <1>1, <1>3 DEF IInv, Shape
<1>5. Copies' = Copies /\ Stored' = Copies /\ Copies \subseteq Stored
  BY <1>1 DEF Copies, Stored
<1>6. \A e : IsEntry(e)' <=> IsEntry(e)
  BY <1>1 DEF IsEntry, QueueLen
<1>7. \A k : Carries(k)' <=> Carries(k)
  BY <1>1 DEF Carries
<1>8. Formed'
  BY <1>1, <1>5, <1>6, <1>7 DEF IInv, Formed, QueueLen
<1>9. Finite'
  BY <1>1, <1>5, FS_EmptySet DEF IInv, Finite
<1>10. Idents'
  BY <1>1, <1>5 DEF IInv, Idents
<1>11. Fresh'
  BY <1>1, <1>5, <1>7 DEF IInv, Fresh
<1>12. Waiting'
  BY <1>1, WaitingFrame DEF IInv
<1>13. Apart'
  BY <1>1, <1>5 DEF IInv, Apart
<1>14. Counted'
  <2>1. Shape /\ Counted /\ Cardinality(history) \in Nat /\ Cardinality(history') \in Nat
        /\ Cardinality(history) =< Cardinality(history')
    BY <1>3, NextFacts DEF IInv
  <2>2. \A b \in Clients : Below(client[b].send, history')
    BY <2>1, BelowMore, DocsFacts DEF Counted
  <2>3. \A k \in DOMAIN channel : Below(channel[k], history')
    BY <2>1, BelowMore, DocsFacts DEF Counted
  <2>4. \A w \in Workers : Below(worker[w].docs, history')
    BY <2>1, BelowMore, DocsFacts DEF Counted
  <2>5. \A e \in Stored : Below(e.docs, history')
    BY <2>1, BelowMore, DocsFacts DEF Counted
  <2> QED BY <1>1, <1>3, <1>5, <2>2, <2>3, <2>4, <2>5 DEF Counted
<1>15. Settled'
  BY <1>1, <1>5 DEF IInv, Settled
<1>16. Quietly'
  BY <1>1 DEF IInv, Quietly, DeleteAllDocuments, CanCall
<1> QED BY <1>4, <1>8, <1>9, <1>10, <1>11, <1>12, <1>13, <1>14, <1>15, <1>16 DEF IInv

-----------------------------------------------------------------------------
(* Indexing workers.                                                       *)
LEMMA WorkerMoves ==
  ASSUME IInv, NEW w \in Workers, worker' \in [Workers -> Worker],
         \A v \in Workers \ {w} : worker'[v] = worker[v],
         worker[w].pc \notin {"schedule", "wait"}, worker'[w].pc \notin {"schedule", "wait"},
         worker'[w].docs = worker[w].docs, worker'[w].cursor =< QueueLen,
         worker'[w].pc \in {"peek", "exit"} => worker[w].docs = {},
         UNCHANGED <<channel, rest, updater>>
  PROVE  IInv'
<1>1. UNCHANGED <<delete_queue, client, channel, tasks, updating, registers, merge, meta, next_id, owner,
                  history, published, committed_opstamp, commits, stamper>>
  BY DEF updater, registers, rest, aux
<1>2. Shape'
  BY <1>1 DEF IInv, Shape, registers
<1>3. Finite' /\ Idents' /\ Settled' /\ Quietly'
  BY <1>1, FiniteFrame, IdentsFrame, SettledFrame, QuietlyFrame DEF IInv
<1>4. Stored' = Stored /\ (\A k : Carries(k)' <=> Carries(k)) /\ (\A e : IsEntry(e)' <=> IsEntry(e)) /\ QueueLen' = QueueLen
  BY <1>1 DEF Stored, Copies, registers, Carries, IsEntry, QueueLen
<1>5. \A v \in Workers : worker'[v].docs = worker[v].docs
  OBVIOUS
<1>6. Formed'
  BY <1>1, <1>4 DEF IInv, Formed
<1>7. Fresh'
  BY <1>1, <1>4 DEF IInv, Fresh
<1>8. Waiting'
  <2>1. Waiting
    BY DEF IInv
  <2>2. \A k \in DOMAIN tasks : tasks[k].kind = "add_segment" => tasks[k].worker \in Workers \ {w}
    <3> SUFFICES ASSUME NEW k \in DOMAIN tasks, tasks[k].kind = "add_segment" PROVE tasks[k].worker \in Workers \ {w}
      OBVIOUS
    <3>1. tasks[k] \in Task
      BY DEF IInv, Shape
    <3>2. tasks[k].worker \in Workers
      BY <3>1 DEF Task, AddTask, CommitTask, MergeTask
    <3> QED BY <2>1, <3>2 DEF Waiting
  <2> QED BY <1>1, <2>1, <2>2 DEF Waiting, Written
<1>9. Apart'
  BY <1>1, <1>4, <1>5 DEF IInv, Apart
<1>10. Counted'
  BY <1>1, <1>4, <1>5 DEF IInv, Counted, Numbered, Below
<1> QED BY <1>2, <1>3, <1>6, <1>7, <1>8, <1>9, <1>10 DEF IInv

LEMMA SkipDeletesKeeps == ASSUME IInv, NEW w \in Workers, SkipDeletes(w) PROVE IInv'
<1> DEFINE to == skip_to(worker[w].cursor, worker[w].first)
<1>1. to \in Nat /\ to =< QueueLen
  <2>1. Shape /\ worker[w].cursor \in Nat /\ worker[w].cursor =< QueueLen
    BY DEF IInv, Shape, Worker, Formed
  <2> QED BY <2>1, SkipTo
<1>2. worker' = [worker EXCEPT ![w] = [worker[w] EXCEPT !.pc = "collect", !.cursor = to]]
  BY DEF SkipDeletes, Set
<1>3. worker[w].pc = "skip" /\ UNCHANGED <<channel, rest, updater>>
  BY DEF SkipDeletes
<1> HIDE DEF to
<1>4. worker \in [Workers -> Worker]
  BY DEF IInv, Shape
<1>5. worker' \in [Workers -> Worker] /\ (\A v \in Workers \ {w} : worker'[v] = worker[v])
      /\ worker'[w].pc = "collect" /\ worker'[w].docs = worker[w].docs /\ worker'[w].cursor = to
  BY <1>1, <1>2, <1>4 DEF Worker
<1> QED BY <1>1, <1>3, <1>5, WorkerMoves

LEMMA ExitKeeps == ASSUME IInv, NEW w \in Workers, Exit(w) PROVE IInv'
<1>1. worker' = [worker EXCEPT ![w] = [worker[w] EXCEPT !.pc = "exit"]]
  BY DEF Exit, Set
<1>2. worker[w].pc = "peek" /\ UNCHANGED <<channel, rest, updater>>
  BY DEF Exit
<1>3. worker \in [Workers -> Worker] /\ worker[w].docs = {} /\ worker[w].cursor =< QueueLen
  BY <1>2 DEF IInv, Shape, Waiting, Formed
<1>4. worker' \in [Workers -> Worker] /\ (\A v \in Workers \ {w} : worker'[v] = worker[v])
      /\ worker'[w].pc = "exit" /\ worker'[w].docs = worker[w].docs /\ worker'[w].cursor = worker[w].cursor
  BY <1>1, <1>3 DEF Worker
<1> QED BY <1>2, <1>3, <1>4, WorkerMoves

LEMMA TakesBatch ==
  ASSUME IInv, NEW w \in Workers, channel # <<>>, channel' = Tail(channel), worker' \in [Workers -> Worker],
         \A v \in Workers \ {w} : worker'[v] = worker[v],
         worker[w].pc \in {"peek", "collect"}, worker'[w].pc \in {"skip", "collect"},
         worker'[w].docs = worker[w].docs \cup Head(channel), worker'[w].cursor = worker[w].cursor,
         UNCHANGED <<rest, updater>>
  PROVE  IInv'
<1>1. UNCHANGED <<delete_queue, client, tasks, updating, registers, merge, meta, next_id, owner,
                  history, published, committed_opstamp, commits, stamper>>
  BY DEF updater, registers, rest, aux
<1>2. /\ channel' \in Seq(SUBSET Docs) /\ DOMAIN channel' = 1 .. Len(channel) - 1
      /\ Len(channel') = Len(channel) - 1 /\ Len(channel) \in Nat /\ DOMAIN channel = 1 .. Len(channel)
      /\ \A i \in 1 .. Len(channel) - 1 : channel'[i] = channel[i + 1]
      /\ Head(channel) = channel[1] /\ Head(channel) \in SUBSET Docs /\ 1 \in DOMAIN channel
  <2>1. channel \in Seq(SUBSET Docs)
    BY DEF IInv, Shape
  <2> QED BY <2>1, TailFacts
<1>3. \A i \in DOMAIN channel' : i + 1 \in DOMAIN channel /\ i + 1 # 1 /\ channel'[i] = channel[i + 1]
  BY <1>2
<1>4. Shape'
  <2>1. Len(channel') =< PIPELINE_MAX_SIZE_IN_DOCS
    BY <1>2, IndexerAssumption DEF IInv, Shape
  <2> QED BY <1>1, <1>2, <2>1 DEF IInv, Shape, registers
<1>5. Finite' /\ Idents' /\ Settled'
  BY <1>1, FiniteFrame, IdentsFrame, SettledFrame DEF IInv
<1>6. Stored' = Stored /\ (\A k : Carries(k)' <=> Carries(k)) /\ (\A e : IsEntry(e)' <=> IsEntry(e)) /\ QueueLen' = QueueLen
  BY <1>1 DEF Stored, Copies, registers, Carries, IsEntry, QueueLen
<1>7. Formed'
  BY <1>1, <1>6 DEF IInv, Formed
<1>8. Fresh'
  BY <1>1, <1>6 DEF IInv, Fresh
<1>9. Waiting'
  <2>1. Waiting
    BY DEF IInv
  <2>2. \A k \in DOMAIN tasks : tasks[k].kind = "add_segment" => tasks[k].worker \in Workers \ {w}
    <3> SUFFICES ASSUME NEW k \in DOMAIN tasks, tasks[k].kind = "add_segment" PROVE tasks[k].worker \in Workers \ {w}
      OBVIOUS
    <3>1. tasks[k] \in Task
      BY DEF IInv, Shape
    <3>2. tasks[k].worker \in Workers
      BY <3>1 DEF Task, AddTask, CommitTask, MergeTask
    <3> QED BY <2>1, <3>2 DEF Waiting
  <2> QED BY <1>1, <2>1, <2>2 DEF Waiting, Written
<1>10. Apart'
  <2>1. Apart
    BY DEF IInv
  <2>2. /\ \A b \in Clients : client[b].send \cap Head(channel) = {}
        /\ \A k \in DOMAIN channel : k # 1 => channel[k] \cap Head(channel) = {}
        /\ \A v \in Workers : worker[v].docs \cap Head(channel) = {}
        /\ \A e \in Stored : e.docs \cap Head(channel) = {}
    BY <1>2, <2>1 DEF Apart
  <2>3. \A c \in Clients :
          /\ \A b \in Clients : b # c => client[b].send \cap client[c].send = {}
          /\ \A k \in DOMAIN channel' : channel'[k] \cap client[c].send = {}
          /\ \A v \in Workers : worker'[v].docs \cap client[c].send = {}
          /\ \A e \in Stored : e.docs \cap client[c].send = {}
    BY <1>3, <2>1, <2>2 DEF Apart
  <2>4. \A k \in DOMAIN channel' :
          /\ \A j \in DOMAIN channel' : j # k => channel'[j] \cap channel'[k] = {}
          /\ \A v \in Workers : worker'[v].docs \cap channel'[k] = {}
          /\ \A e \in Stored : e.docs \cap channel'[k] = {}
    <3> SUFFICES ASSUME NEW k \in DOMAIN channel'
                 PROVE  /\ \A j \in DOMAIN channel' : j # k => channel'[j] \cap channel'[k] = {}
                        /\ \A v \in Workers : worker'[v].docs \cap channel'[k] = {}
                        /\ \A e \in Stored : e.docs \cap channel'[k] = {}
      OBVIOUS
    <3>1. \A j \in DOMAIN channel' : j # k => channel'[j] \cap channel'[k] = {}
      <4>1. \A j \in DOMAIN channel' : j # k => j + 1 # k + 1
        BY <1>2
      <4> QED BY <1>3, <2>1, <4>1 DEF Apart
    <3>2. \A v \in Workers : worker'[v].docs \cap channel'[k] = {}
      BY <1>3, <2>1, <2>2 DEF Apart
    <3>3. \A e \in Stored : e.docs \cap channel'[k] = {}
      BY <1>3, <2>1 DEF Apart
    <3> QED BY <3>1, <3>2, <3>3
  <2>5. \A x \in Workers :
          /\ \A v \in Workers : v # x => worker'[v].docs \cap worker'[x].docs = {}
          /\ \A e \in Stored : e.docs \cap worker'[x].docs = {}
    BY <2>1, <2>2 DEF Apart
  <2> QED BY <1>1, <1>6, <2>3, <2>4, <2>5 DEF Apart
<1>11. Counted'
  <2>1. Counted
    BY DEF IInv
  <2>2. \A k \in DOMAIN channel' : Below(channel'[k], history)
    BY <1>3, <2>1 DEF Counted
  <2>3. Below(Head(channel), history)
    BY <1>2, <2>1 DEF Counted
  <2>4. \A v \in Workers : Below(worker'[v].docs, history)
    BY <2>1, <2>3 DEF Counted, Below
  <2> QED BY <1>1, <1>6, <2>1, <2>2, <2>4 DEF Counted
<1>12. Quietly'
  BY <1>1, <1>3 DEF IInv, Quietly
<1> QED BY <1>4, <1>5, <1>7, <1>8, <1>9, <1>10, <1>11, <1>12 DEF IInv

LEMMA PeekKeeps == ASSUME IInv, NEW w \in Workers, Peek(w) PROVE IInv'
<1> DEFINE first == Min({d.opstamp : d \in Head(channel)})
<1>1. /\ worker[w].pc = "peek" /\ channel # <<>> /\ channel' = Tail(channel) /\ UNCHANGED <<rest, updater>>
      /\ worker' = [worker EXCEPT ![w] = [worker[w] EXCEPT !.pc = "skip", !.docs = Head(channel), !.first = first]]
  BY DEF Peek, Set
<1>2. worker \in [Workers -> Worker] /\ worker[w].docs = {} /\ channel \in Seq(SUBSET Docs)
  BY <1>1 DEF IInv, Shape, Waiting
<1>3. Head(channel) \in SUBSET Docs /\ Head(channel) # {}
  <2>1. Head(channel) \in SUBSET Docs /\ Head(channel) = channel[1] /\ 1 \in DOMAIN channel
    BY <1>1, <1>2, TailFacts
  <2> QED BY <2>1 DEF IInv, Quietly
<1>4. first \in Nat
  <2>1. {d.opstamp : d \in Head(channel)} \subseteq Nat /\ {d.opstamp : d \in Head(channel)} # {}
    BY <1>3 DEF Docs
  <2> QED BY <2>1, NatMin
<1> HIDE DEF first
<1>5. worker' \in [Workers -> Worker] /\ (\A v \in Workers \ {w} : worker'[v] = worker[v])
      /\ worker'[w].pc = "skip" /\ worker'[w].docs = worker[w].docs \cup Head(channel)
      /\ worker'[w].cursor = worker[w].cursor
  BY <1>1, <1>2, <1>3, <1>4 DEF Worker
<1> QED BY <1>1, <1>5, TakesBatch

LEMMA CollectKeeps == ASSUME IInv, NEW w \in Workers, Collect(w) PROVE IInv'
<1>1. /\ worker[w].pc = "collect" /\ channel # <<>> /\ channel' = Tail(channel) /\ UNCHANGED <<rest, updater>>
      /\ worker' = [worker EXCEPT ![w] = [worker[w] EXCEPT !.docs = @ \cup Head(channel)]]
  BY DEF Collect, Set
<1>2. worker \in [Workers -> Worker] /\ channel \in Seq(SUBSET Docs)
  BY DEF IInv, Shape
<1>3. Head(channel) \in SUBSET Docs
  BY <1>1, <1>2, TailFacts
<1>4. worker' \in [Workers -> Worker] /\ (\A v \in Workers \ {w} : worker'[v] = worker[v])
      /\ worker'[w].pc = "collect" /\ worker'[w].docs = worker[w].docs \cup Head(channel)
      /\ worker'[w].cursor = worker[w].cursor
  BY <1>1, <1>2, <1>3 DEF Worker
<1> QED BY <1>1, <1>4, TakesBatch

LEMMA NewEntryFacts ==
  ASSUME NEW id \in Nat, NEW docs \in SUBSET Docs, NEW cursor \in Nat, NEW bits \in SUBSET Docs
  PROVE  LET e == NewEntry(id, docs, cursor, bits)
         IN e \in Entry /\ e.id = id /\ e.docs = docs /\ e.del = None /\ e.cursor = cursor /\ e.alive_bitset = bits
  BY DEF NewEntry, Entry, DelFiles

LEMMA NoneNoDels == \A x \in [alive : SUBSET Docs, opstamp : Nat] : x # None
  BY IndexerAssumption

LEMMA ApplyDeletes ==
  ASSUME Shape, NEW docs \in SUBSET Docs, NEW cursor \in Nat, cursor =< QueueLen
  PROVE  LET applied == apply_deletes(docs, cursor)
         IN /\ applied.cursor \in Nat /\ cursor =< applied.cursor /\ applied.cursor =< QueueLen
            /\ applied.bits \in SUBSET docs
            /\ applied.cursor = stop_at(cursor, Max({d.opstamp : d \in docs}))
            /\ applied.bits = docs \ deleted(docs, cursor, applied.cursor, TRUE)
<1> DEFINE to == stop_at(cursor, Max({d.opstamp : d \in docs}))
<1>1. to \in Nat /\ cursor =< to /\ to =< QueueLen
  BY StopAt
<1>2. apply_deletes(docs, cursor) = [cursor |-> to, bits |-> docs \ deleted(docs, cursor, to, TRUE)]
  BY DEF apply_deletes
<1> HIDE DEF to
<1>3. apply_deletes(docs, cursor).cursor = to /\ apply_deletes(docs, cursor).bits = docs \ deleted(docs, cursor, to, TRUE)
  BY <1>2
<1> QED BY <1>1, <1>3 DEF to

LEMMA FinalizeKeeps == ASSUME IInv, NEW w \in Workers, Finalize(w) PROVE IInv'
<1> DEFINE applied == apply_deletes(worker[w].docs, worker[w].cursor)
<1>0. PICK e : e = NewEntry(next_id, worker[w].docs, applied.cursor, applied.bits)
  OBVIOUS
<1>1. /\ worker[w].pc = "collect" /\ next_id' = next_id + 1
      /\ worker' = [worker EXCEPT ![w] = [worker[w] EXCEPT !.pc = "schedule", !.entry = e]]
      /\ UNCHANGED <<channel, stamper, delete_queue, client, owner, committed_opstamp, commits, history, published,
                     tasks, updating, registers, merge, meta>>
  BY <1>0 DEF Finalize, Set, rest, aux, registers
<1>2. worker \in [Workers -> Worker] /\ next_id \in Nat \ {0} /\ Shape
  BY DEF IInv, Shape
<1>3. worker[w].docs \in SUBSET Docs /\ worker[w].cursor \in Nat /\ worker[w].cursor =< QueueLen
  BY <1>2 DEF Worker, IInv, Formed
<1>4. applied.cursor \in Nat /\ applied.cursor =< QueueLen /\ applied.bits \in SUBSET worker[w].docs
  BY <1>2, <1>3, ApplyDeletes
<1> HIDE DEF applied
<1>5. /\ e \in Entry /\ e.id = next_id /\ e.docs = worker[w].docs /\ e.del = None
      /\ e.cursor = applied.cursor /\ e.alive_bitset = applied.bits
  BY <1>0, <1>2, <1>3, <1>4, NewEntryFacts
<1>6. /\ worker' \in [Workers -> Worker] /\ \A v \in Workers \ {w} : worker'[v] = worker[v]
      /\ worker'[w].pc = "schedule" /\ worker'[w].docs = worker[w].docs
      /\ worker'[w].cursor = worker[w].cursor /\ worker'[w].entry = e
  BY <1>1, <1>2, <1>5 DEF Worker
<1>7. Shape'
  BY <1>1, <1>2, <1>6 DEF Shape, registers
<1>8. Finite' /\ Idents' /\ Settled' /\ Quietly'
  BY <1>1, FiniteFrame, IdentsFrame, SettledFrame, QuietlyFrame DEF IInv
<1>9. Stored' = Stored /\ (\A k : Carries(k)' <=> Carries(k)) /\ QueueLen' = QueueLen
  BY <1>1 DEF Stored, Copies, registers, Carries, QueueLen
<1>10. \A x : IsEntry(x) => IsEntry(x)'
  <2>1. next_id =< next_id' /\ QueueLen =< QueueLen'
    BY <1>1, <1>2, <1>9, QueueFacts
  <2> QED BY <1>2, <1>7, <2>1, EntryKeeps
<1>11. IsEntry(e)'
  <2>1. e.id \in 1 .. next_id' - 1 /\ e.cursor \in 0 .. QueueLen'
    BY <1>1, <1>2, <1>4, <1>5, <1>9, QueueFacts
  <2> QED BY <1>3, <1>4, <1>5, <2>1 DEF IsEntry
<1>12. \A x : IsEntry(x) => x.id # next_id
  BY <1>2 DEF IsEntry
<1>13. Formed'
  <2>1. Formed
    BY DEF IInv
  <2>2. \A s \in meta.segments : s.id \in 1 .. next_id' - 1
    BY <1>1, <1>2, <2>1 DEF Formed
  <2>3. \A v \in Workers : /\ worker'[v].cursor =< QueueLen'
                           /\ worker'[v].pc = "schedule" => worker'[v].entry \in Entry /\ IsEntry(worker[v].entry)'
    <3>1. IsEntry(worker[w].entry)'
      BY <1>6, <1>11 DEF IsEntry
    <3>2. \A v \in Workers \ {w} : worker[v].pc = "schedule" => IsEntry(worker[v].entry)'
      <4> SUFFICES ASSUME NEW v \in Workers \ {w}, worker[v].pc = "schedule" PROVE IsEntry(worker[v].entry)'
        OBVIOUS
      <4>1. PICK x : x = worker[v].entry
        OBVIOUS
      <4>2. IsEntry(x)'
        BY <1>10, <2>1, <4>1 DEF Formed
      <4> QED BY <1>6, <4>1, <4>2 DEF IsEntry
    <3> QED BY <1>5, <1>6, <1>9, <2>1, <3>1, <3>2 DEF Formed
  <2>4. \A x \in Stored' : IsEntry(x)'
    BY <1>9, <1>10, <2>1 DEF Formed
  <2> QED BY <1>1, <1>9, <1>10, <2>1, <2>2, <2>3, <2>4 DEF Formed
<1>14. Fresh'
  <2>1. Formed /\ Fresh
    BY DEF IInv
  <2>2. /\ \A x \in Stored : x.id # e.id
        /\ \A m \in Merges : \A i \in DOMAIN merge[m].segments : merge[m].segments[i].id # e.id
        /\ \A v \in Workers \ {w} : worker[v].pc = "schedule" => worker[v].entry.id # e.id
        /\ \A k \in DOMAIN tasks : Carries(k) => tasks[k].entry.id # e.id
    BY <1>5, <1>12, <2>1 DEF Formed
  <2> QED BY <1>1, <1>6, <1>9, <2>1, <2>2 DEF Fresh
<1>15. Waiting'
  <2>1. Waiting
    BY DEF IInv
  <2>2. \A k \in DOMAIN tasks : tasks[k].kind = "add_segment" => tasks[k].worker \in Workers \ {w}
    <3> SUFFICES ASSUME NEW k \in DOMAIN tasks, tasks[k].kind = "add_segment" PROVE tasks[k].worker \in Workers \ {w}
      OBVIOUS
    <3>1. tasks[k] \in Task
      BY DEF IInv, Shape
    <3>2. tasks[k].worker \in Workers
      BY <3>1 DEF Task, AddTask, CommitTask, MergeTask
    <3> QED BY <1>1, <2>1, <3>2 DEF Waiting
  <2> QED BY <1>1, <1>5, <1>6, <2>1, <2>2 DEF Waiting, Written
<1>16. \A v \in Workers : worker'[v].docs = worker[v].docs
  BY <1>6
<1>17. Apart'
  BY <1>1, <1>9, <1>16 DEF IInv, Apart
<1>18. Counted'
  BY <1>1, <1>9, <1>16 DEF IInv, Counted, Numbered, Below
<1> QED BY <1>7, <1>8, <1>13, <1>14, <1>15, <1>17, <1>18 DEF IInv

(* A task at the end of the queue.                                         *)
LEMMA TaskAppended ==
  ASSUME Shape, NEW t \in Task, tasks' = Append(tasks, t)
  PROVE  /\ tasks' \in Seq(Task) /\ Len(tasks) \in Nat
         /\ DOMAIN tasks = 1 .. Len(tasks) /\ DOMAIN tasks' = 1 .. Len(tasks) + 1
         /\ \A k \in DOMAIN tasks : k \in DOMAIN tasks' /\ tasks'[k] = tasks[k] /\ k # Len(tasks) + 1
         /\ Len(tasks) + 1 \in DOMAIN tasks' /\ tasks'[Len(tasks) + 1] = t
         /\ \A k \in DOMAIN tasks' : (k \in DOMAIN tasks /\ tasks'[k] = tasks[k]) \/ (k = Len(tasks) + 1 /\ tasks'[k] = t)
<1>1. tasks \in Seq(Task)
  BY DEF Shape
<1>2. /\ tasks' \in Seq(Task) /\ Len(tasks) \in Nat
      /\ DOMAIN tasks = 1 .. Len(tasks) /\ DOMAIN tasks' = 1 .. Len(tasks) + 1
      /\ \A k \in 1 .. Len(tasks) : tasks'[k] = tasks[k]
      /\ tasks'[Len(tasks) + 1] = t
  BY <1>1, AppendFacts
<1> DEFINE n == Len(tasks)
<1>3. /\ \A k \in 1 .. n : k \in 1 .. n + 1 /\ k # n + 1
      /\ n + 1 \in 1 .. n + 1
      /\ \A k \in 1 .. n + 1 : k \in 1 .. n \/ k = n + 1
  BY <1>2
<1> HIDE DEF n
<1>4. tasks' \in Seq(Task) /\ n \in Nat /\ DOMAIN tasks = 1 .. n /\ DOMAIN tasks' = 1 .. n + 1
      /\ (\A k \in 1 .. n : tasks'[k] = tasks[k]) /\ tasks'[n + 1] = t
  BY <1>2 DEF n
<1>5. /\ \A k \in DOMAIN tasks : k \in DOMAIN tasks' /\ tasks'[k] = tasks[k] /\ k # n + 1
      /\ n + 1 \in DOMAIN tasks' /\ tasks'[n + 1] = t
      /\ \A k \in DOMAIN tasks' : (k \in DOMAIN tasks /\ tasks'[k] = tasks[k]) \/ (k = n + 1 /\ tasks'[k] = t)
  <2>1. \A k \in DOMAIN tasks : k \in DOMAIN tasks' /\ tasks'[k] = tasks[k] /\ k # n + 1
    BY <1>3, <1>4, Zenon
  <2>2. n + 1 \in DOMAIN tasks' /\ tasks'[n + 1] = t
    BY <1>3, <1>4
  <2>3. \A k \in DOMAIN tasks' : (k \in DOMAIN tasks /\ tasks'[k] = tasks[k]) \/ (k = n + 1 /\ tasks'[k] = t)
    <3> SUFFICES ASSUME NEW k \in DOMAIN tasks'
                 PROVE  (k \in DOMAIN tasks /\ tasks'[k] = tasks[k]) \/ (k = n + 1 /\ tasks'[k] = t)
      OBVIOUS
    <3>1. k \in 1 .. n \/ k = n + 1
      BY <1>3, <1>4, Zenon
    <3>2. CASE k \in 1 .. n
      <4>1. k \in DOMAIN tasks
        BY <1>4, <3>2
      <4> QED BY <2>1, <4>1
    <3>3. CASE k = n + 1
      BY <2>2, <3>3
    <3> QED BY <3>1, <3>2, <3>3
  <2> QED BY <2>1, <2>2, <2>3
<1> QED BY <1>4, <1>5 DEF n

LEMMA TaskFacts ==
  ASSUME Shape
  PROVE  /\ \A k \in DOMAIN tasks : tasks[k] \in Task
         /\ \A t \in Task : /\ t.kind \in {"add_segment", "commit", "end_merge"}
                            /\ t.kind = "add_segment" => t \in AddTask /\ t.worker \in Workers /\ t.entry \in Entry
                            /\ t.kind = "commit" => t \in CommitTask /\ t.opstamp \in Nat /\ t.history \subseteq Record
                            /\ t.kind = "end_merge" => t \in MergeTask /\ t.merge \in Merges /\ t.entry \in Entry \cup {None}
<1>1. \A k \in DOMAIN tasks : tasks[k] \in Task
  BY DEF Shape
<1>2. \A t \in Task : /\ t.kind \in {"add_segment", "commit", "end_merge"}
                      /\ t.kind = "add_segment" => t \in AddTask /\ t.worker \in Workers /\ t.entry \in Entry
                      /\ t.kind = "commit" => t \in CommitTask /\ t.opstamp \in Nat /\ t.history \subseteq Record
                      /\ t.kind = "end_merge" => t \in MergeTask /\ t.merge \in Merges /\ t.entry \in Entry \cup {None}
  BY DEF Task, AddTask, CommitTask, MergeTask
<1> QED BY <1>1, <1>2

LEMMA ScheduleKeeps == ASSUME IInv, NEW w \in Workers, Schedule(w) PROVE IInv'
<1> DEFINE e == worker[w].entry
<1> DEFINE t == [kind |-> "add_segment", worker |-> w, entry |-> e]
<1>1. /\ worker[w].pc = "schedule"
      /\ worker' = [worker EXCEPT ![w] = [worker[w] EXCEPT !.pc = "wait", !.entry = None]]
      /\ tasks' = Append(tasks, t)
      /\ UNCHANGED <<channel, stamper, delete_queue, client, owner, committed_opstamp, commits, history, published,
                     updating, registers, merge, meta, next_id>>
  BY DEF Schedule, Set, rest, aux, registers
<1>2. worker \in [Workers -> Worker] /\ Shape /\ Fresh /\ Waiting /\ Formed
  BY DEF IInv, Shape
<1>3. e \in Entry /\ IsEntry(e) /\ e.docs = worker[w].docs
  BY <1>1, <1>2 DEF Worker, Formed, Waiting
<1> HIDE DEF e
<1>4. t \in Task /\ t.kind = "add_segment" /\ t.worker = w /\ t.entry = e
  BY <1>3 DEF Task, AddTask
<1> HIDE DEF t
<1> DEFINE n == Len(tasks) + 1
<1>5. /\ tasks' \in Seq(Task)
      /\ \A k \in DOMAIN tasks : k \in DOMAIN tasks' /\ tasks'[k] = tasks[k] /\ k # n
      /\ n \in DOMAIN tasks' /\ tasks'[n] = t
      /\ \A k \in DOMAIN tasks' : (k \in DOMAIN tasks /\ tasks'[k] = tasks[k]) \/ (k = n /\ tasks'[k] = t)
      /\ DOMAIN tasks' = 1 .. n /\ DOMAIN tasks = 1 .. n - 1 /\ n \in Nat
  BY <1>1, <1>2, <1>4, TaskAppended
<1> HIDE DEF n
<1>6. /\ worker' \in [Workers -> Worker] /\ \A v \in Workers \ {w} : worker'[v] = worker[v]
      /\ worker'[w].pc = "wait" /\ worker'[w].docs = worker[w].docs
      /\ worker'[w].cursor = worker[w].cursor
  BY <1>1, <1>2 DEF Worker
<1>7. Shape'
  BY <1>1, <1>2, <1>5, <1>6 DEF Shape, registers
<1>8. Finite' /\ Idents' /\ Quietly'
  BY <1>1, FiniteFrame, IdentsFrame, QuietlyFrame DEF IInv
<1>9. Stored' = Stored /\ QueueLen' = QueueLen /\ (\A x : IsEntry(x)' <=> IsEntry(x))
  BY <1>1 DEF Stored, Copies, registers, IsEntry, QueueLen
<1>10. \A k \in DOMAIN tasks' : Carries(k)' /\ k # n => k \in DOMAIN tasks /\ Carries(k) /\ tasks'[k] = tasks[k]
  BY <1>5 DEF Carries
<1>11. Formed'
  <2>1. \A k \in DOMAIN tasks' : Carries(k)' => IsEntry(tasks'[k].entry)
    BY <1>2, <1>3, <1>4, <1>5, <1>10 DEF Formed
  <2> QED BY <1>1, <1>2, <1>6, <1>9, <2>1 DEF Formed
<1>12. Fresh'
  <2>1. /\ \A x \in Stored : x.id # e.id
        /\ \A m \in Merges : \A i \in DOMAIN merge[m].segments : merge[m].segments[i].id # e.id
        /\ \A v \in Workers \ {w} : worker[v].pc = "schedule" => worker[v].entry.id # e.id
        /\ \A k \in DOMAIN tasks : Carries(k) => tasks[k].entry.id # e.id
    BY <1>1, <1>2 DEF Fresh, e
  <2>2. \A v \in Workers : worker'[v].pc = "schedule" =>
          /\ v # w /\ worker'[v] = worker[v]
          /\ \A x \in Stored : x.id # worker'[v].entry.id
          /\ \A m \in Merges : \A i \in DOMAIN merge[m].segments : merge[m].segments[i].id # worker'[v].entry.id
          /\ \A u \in Workers : worker'[u].pc = "schedule" /\ u # v => worker'[u].entry.id # worker'[v].entry.id
          /\ \A k \in DOMAIN tasks' : Carries(k)' => tasks'[k].entry.id # worker'[v].entry.id
    <3> SUFFICES ASSUME NEW v \in Workers, worker'[v].pc = "schedule"
        PROVE /\ v # w /\ worker'[v] = worker[v]
              /\ \A x \in Stored : x.id # worker'[v].entry.id
              /\ \A m \in Merges : \A i \in DOMAIN merge[m].segments : merge[m].segments[i].id # worker'[v].entry.id
              /\ \A u \in Workers : worker'[u].pc = "schedule" /\ u # v => worker'[u].entry.id # worker'[v].entry.id
              /\ \A k \in DOMAIN tasks' : Carries(k)' => tasks'[k].entry.id # worker'[v].entry.id
      OBVIOUS
    <3>1. v # w /\ worker'[v] = worker[v]
      BY <1>6
    <3>2. \A k \in DOMAIN tasks' : Carries(k)' => tasks'[k].entry.id # worker'[v].entry.id
      BY <1>2, <1>4, <1>5, <1>10, <2>1, <3>1 DEF Fresh
    <3> QED BY <1>2, <1>6, <3>1, <3>2 DEF Fresh
  <2>3. \A k \in DOMAIN tasks' : Carries(k)' =>
          /\ \A x \in Stored : x.id # tasks'[k].entry.id
          /\ \A m \in Merges : \A i \in DOMAIN merge[m].segments : merge[m].segments[i].id # tasks'[k].entry.id
          /\ \A j \in DOMAIN tasks' : Carries(j)' /\ j # k => tasks'[j].entry.id # tasks'[k].entry.id
    <3> SUFFICES ASSUME NEW k \in DOMAIN tasks', Carries(k)'
        PROVE /\ \A x \in Stored : x.id # tasks'[k].entry.id
              /\ \A m \in Merges : \A i \in DOMAIN merge[m].segments : merge[m].segments[i].id # tasks'[k].entry.id
              /\ \A j \in DOMAIN tasks' : Carries(j)' /\ j # k => tasks'[j].entry.id # tasks'[k].entry.id
      OBVIOUS
    <3>1. CASE k = n
      BY <1>4, <1>5, <1>10, <2>1, <3>1
    <3>2. CASE k # n
      <4>1. k \in DOMAIN tasks /\ Carries(k) /\ tasks'[k] = tasks[k]
        BY <1>10, <3>2
      <4>2. \A j \in DOMAIN tasks' : Carries(j)' /\ j # k => tasks'[j].entry.id # tasks[k].entry.id
        BY <1>2, <1>4, <1>5, <1>10, <2>1, <4>1 DEF Fresh
      <4> QED BY <1>2, <4>1, <4>2 DEF Fresh
    <3> QED BY <3>1, <3>2
  <2> QED BY <1>1, <1>9, <2>2, <2>3 DEF Fresh
<1>13. Waiting'
  <2>1. \A k \in DOMAIN tasks : tasks[k].kind = "add_segment" => tasks[k].worker \in Workers \ {w}
    BY <1>1, <1>2, TaskFacts DEF Waiting
  <2>2. \A v \in Workers : /\ worker'[v].pc \in {"peek", "exit"} => worker'[v].docs = {}
                           /\ worker'[v].pc = "schedule" => worker'[v].entry.docs = worker'[v].docs
    BY <1>2, <1>6 DEF Waiting
  <2>3. \A k \in DOMAIN tasks' : tasks'[k].kind = "add_segment" =>
          /\ worker'[tasks'[k].worker].pc = "wait" /\ tasks'[k].entry.docs = worker'[tasks'[k].worker].docs
          /\ \A j \in DOMAIN tasks' : tasks'[j].kind = "add_segment" /\ j # k => tasks'[j].worker # tasks'[k].worker
    BY <1>2, <1>3, <1>4, <1>5, <1>6, <2>1 DEF Waiting
  <2>4. \A k \in DOMAIN tasks' : tasks'[k].kind = "end_merge" => k \in DOMAIN tasks /\ tasks'[k] = tasks[k]
    BY <1>4, <1>5
  <2>5. \A k \in DOMAIN tasks' : tasks'[k].kind = "end_merge" =>
          /\ Written(tasks'[k])
          /\ \A j \in DOMAIN tasks' : tasks'[j].kind = "end_merge" /\ j # k => tasks'[j].merge # tasks'[k].merge
          /\ updating.step = "save" => tasks'[k].merge \notin updating.over
    BY <1>2, <2>4 DEF Waiting
  <2>6. /\ \A m \in Merges : ~merge[m].running <=> merge[m].segments = <<>>
        /\ updating.step = "save" => \A m \in updating.over :
             merge[m].running /\ merge[m].advanced > Len(merge[m].segments)
    BY <1>2, Zenon DEF Waiting
  <2>7. merge' = merge /\ updating' = updating /\ \A x : Written(x)' <=> Written(x)
    BY <1>1 DEF Written
  <2> QED BY <2>2, <2>3, <2>5, <2>6, <2>7, Zenon DEF Waiting
<1>14. \A v \in Workers : worker'[v].docs = worker[v].docs
  BY <1>6
<1>15. Apart'
  BY <1>1, <1>9, <1>14 DEF IInv, Apart
<1>16. Counted'
  BY <1>1, <1>9, <1>14 DEF IInv, Counted, Numbered, Below
<1>17. Settled'
  <2>1. Settled /\ Copies' = Copies
    BY <1>1 DEF IInv, Copies
  <2>2. \A k \in DOMAIN tasks' : tasks'[k].kind = "commit" =>
          /\ k \in DOMAIN tasks /\ tasks'[k] = tasks[k]
          /\ \A j \in 1 .. k - 1 : tasks'[j] = tasks[j]
    BY <1>4, <1>5
  <2> QED BY <1>1, <1>9, <2>1, <2>2 DEF Settled, registers
<1> QED BY <1>7, <1>8, <1>11, <1>12, <1>13, <1>15, <1>16, <1>17 DEF IInv

-----------------------------------------------------------------------------
(* The owner of the writer.                                                *)
LEMMA PrepareCommitKeeps == ASSUME IInv, PrepareCommit PROVE IInv'
<1>1. /\ owner' = "joining" /\ commits' = commits + 1 /\ \A c \in Clients : client[c] = NoCall
      /\ UNCHANGED <<stamper, delete_queue, client, channel, worker, tasks, updating, registers, merge, meta, next_id,
                     history, published, committed_opstamp>>
  BY DEF PrepareCommit, Alone, Idle, pipeline, updater, aux, registers
<1>2. Shape'
  BY <1>1 DEF IInv, Shape, registers
<1>3. Formed' /\ Finite' /\ Idents' /\ Fresh' /\ Waiting' /\ Apart' /\ Counted' /\ Settled'
  BY <1>1, FormedFrame, FiniteFrame, IdentsFrame, FreshFrame, WaitingFrame, ApartFrame, CountedFrame, SettledFrame DEF IInv
<1>4. Quietly'
  BY <1>1 DEF IInv, Quietly
<1> QED BY <1>2, <1>3, <1>4 DEF IInv

LEMMA JoinWorkersKeeps == ASSUME IInv, JoinWorkers PROVE IInv'
<1>1. PICK cursor \in [Workers -> 0 .. QueueLen] : worker' = [w \in Workers |-> FreshWorker(cursor[w])]
  BY DEF JoinWorkers
<1>2. /\ owner = "joining" /\ \A w \in Workers : worker[w].pc = "exit"
      /\ owner' = "prepared" /\ stamper' = stamper + 1
      /\ UNCHANGED <<delete_queue, channel, client, tasks, updating, registers, merge, meta, next_id,
                     history, published, committed_opstamp, commits>>
  BY DEF JoinWorkers, updater, aux, registers
<1>3. \A k \in DOMAIN tasks : tasks[k].kind # "add_segment"
  BY <1>2, TaskFacts DEF IInv, Waiting
<1>4. QueueLen \in Nat
  BY QueueFacts DEF IInv
<1>5. /\ worker' \in [Workers -> Worker]
      /\ \A w \in Workers : worker'[w].pc = "peek" /\ worker'[w].docs = {} /\ worker'[w].cursor =< QueueLen
  BY <1>1, <1>4 DEF FreshWorker, Worker
<1>6. Shape'
  BY <1>2, <1>5 DEF IInv, Shape, registers
<1>7. Finite' /\ Idents' /\ Settled'
  BY <1>2, FiniteFrame, IdentsFrame, SettledFrame DEF IInv
<1>8. Stored' = Stored /\ (\A k : Carries(k)' <=> Carries(k)) /\ (\A e : IsEntry(e)' <=> IsEntry(e)) /\ QueueLen' = QueueLen
  BY <1>2 DEF Stored, Copies, registers, Carries, IsEntry, QueueLen
<1>9. Formed'
  BY <1>2, <1>5, <1>8 DEF IInv, Formed
<1>10. Fresh'
  BY <1>2, <1>5, <1>8 DEF IInv, Fresh
<1>11. Waiting'
  BY <1>2, <1>3, <1>5 DEF IInv, Waiting, Written
<1>12. Apart'
  BY <1>2, <1>5, <1>8 DEF IInv, Apart
<1>13. Counted'
  BY <1>2, <1>5, <1>8 DEF IInv, Counted, Numbered, Below
<1>14. Quietly'
  BY <1>2 DEF IInv, Quietly, Shape
<1> QED BY <1>6, <1>7, <1>9, <1>10, <1>11, <1>12, <1>13, <1>14 DEF IInv

LEMMA ScheduleCommitKeeps == ASSUME IInv, ScheduleCommit PROVE IInv'
<1> DEFINE t == [kind |-> "commit", opstamp |-> stamper - 1, history |-> history]
<1>1. /\ owner = "prepared" /\ owner' \in {"waiting", "idle"} /\ tasks' = Append(tasks, t)
      /\ UNCHANGED <<stamper, delete_queue, channel, client, worker, updating, registers, merge, meta, next_id,
                     history, published, committed_opstamp, commits>>
  BY DEF ScheduleCommit, pipeline, aux, registers
<1>2. Shape /\ stamper \in Nat /\ history \subseteq Record /\ Waiting /\ Counted
  BY DEF IInv, Shape
<1>3. stamper - 1 \in Nat
  BY <1>1, <1>2 DEF IInv, Quietly
<1>4. t \in Task /\ t.kind = "commit" /\ t.history = history
  BY <1>2, <1>3 DEF Task, CommitTask
<1> HIDE DEF t
<1> DEFINE n == Len(tasks) + 1
<1>5. /\ tasks' \in Seq(Task)
      /\ \A k \in DOMAIN tasks : k \in DOMAIN tasks' /\ tasks'[k] = tasks[k] /\ k # n
      /\ n \in DOMAIN tasks' /\ tasks'[n] = t
      /\ \A k \in DOMAIN tasks' : (k \in DOMAIN tasks /\ tasks'[k] = tasks[k]) \/ (k = n /\ tasks'[k] = t)
      /\ DOMAIN tasks' = 1 .. n /\ DOMAIN tasks = 1 .. n - 1 /\ n \in Nat
  BY <1>1, <1>2, <1>4, TaskAppended
<1> HIDE DEF n
<1>6. Shape'
  BY <1>1, <1>2, <1>5 DEF Shape, registers
<1>7. Finite' /\ Idents' /\ Apart' /\ Counted'
  BY <1>1, FiniteFrame, IdentsFrame, ApartFrame, CountedFrame DEF IInv
<1>8. Stored' = Stored /\ QueueLen' = QueueLen /\ (\A x : IsEntry(x)' <=> IsEntry(x)) /\ (\A x : Written(x)' <=> Written(x))
  BY <1>1 DEF Stored, Copies, registers, IsEntry, QueueLen, Written
<1>9. \A k \in DOMAIN tasks' : Carries(k)' => k \in DOMAIN tasks /\ Carries(k) /\ tasks'[k] = tasks[k]
  BY <1>4, <1>5 DEF Carries
<1>10. Formed'
  BY <1>1, <1>8, <1>9 DEF IInv, Formed
<1>11. Fresh'
  BY <1>1, <1>8, <1>9 DEF IInv, Fresh
<1>12. Waiting'
  <2>1. \A k \in DOMAIN tasks' : tasks'[k].kind \in {"add_segment", "end_merge"} => k \in DOMAIN tasks /\ tasks'[k] = tasks[k]
    BY <1>4, <1>5
  <2> QED BY <1>1, <1>2, <1>8, <2>1 DEF Waiting
<1>13. Settled'
  <2>1. Settled /\ Copies' = Copies
    BY <1>1 DEF IInv, Copies
  <2>2. \A e \in Stored : Below(e.docs, history)
    BY <1>2 DEF Counted
  <2>3. \A j \in DOMAIN tasks : tasks[j].kind = "add_segment" => Below(tasks[j].entry.docs, history)
    BY <1>2, TaskFacts DEF Waiting, Counted
  <2>4. \A k \in DOMAIN tasks' : tasks'[k].kind = "commit" =>
          /\ Numbered(tasks'[k].history)
          /\ \A e \in Stored : Below(e.docs, tasks'[k].history)
          /\ \A j \in 1 .. k - 1 : tasks'[j].kind = "add_segment" => Below(tasks'[j].entry.docs, tasks'[k].history)
    <3> SUFFICES ASSUME NEW k \in DOMAIN tasks', tasks'[k].kind = "commit"
        PROVE /\ Numbered(tasks'[k].history)
              /\ \A e \in Stored : Below(e.docs, tasks'[k].history)
              /\ \A j \in 1 .. k - 1 : tasks'[j].kind = "add_segment" => Below(tasks'[j].entry.docs, tasks'[k].history)
      OBVIOUS
    <3>1. \A j \in 1 .. k - 1 : j \in DOMAIN tasks /\ tasks'[j] = tasks[j]
      BY <1>5
    <3>2. CASE k = n
      BY <1>2, <1>4, <1>5, <2>2, <2>3, <3>1, <3>2 DEF Counted
    <3>3. CASE k # n
      <4>1. k \in DOMAIN tasks /\ tasks'[k] = tasks[k]
        BY <1>5, <3>3
      <4> QED BY <2>1, <3>1, <4>1 DEF Settled
    <3> QED BY <3>2, <3>3
  <2> QED BY <1>1, <1>8, <2>1, <2>4 DEF Settled, registers
<1>14. Quietly'
  BY <1>1 DEF IInv, Quietly
<1> QED BY <1>6, <1>7, <1>10, <1>11, <1>12, <1>13, <1>14 DEF IInv

LEMMA RollbackKeeps == ASSUME IInv, Rollback PROVE IInv'
<1> DEFINE open(s) == [NewEntry(s.id, s.docs, 0, s.docs) EXCEPT !.del = s.del]
<1>1. /\ stamper' = meta.opstamp /\ committed_opstamp' = meta.opstamp /\ commits' = commits + 1
      /\ delete_queue' = <<>> /\ channel' = <<>> /\ worker' = [w \in Workers |-> FreshWorker(0)]
      /\ owner' = "idle" /\ tasks' = <<>> /\ updating' = NoUpdate
      /\ uncommitted' = {} /\ committed' = {open(s) : s \in meta.segments}
      /\ merge' = [m \in Merges |-> NoMerge] /\ history' = published
      /\ UNCHANGED <<client, meta, next_id, published>>
  BY DEF Rollback, Drained
<1>2. \A c \in Clients : client[c] = NoCall
  BY DEF Rollback, Alone, Idle, IInv, Quietly
<1>3. \A s \in meta.segments :
        /\ open(s) \in Entry /\ open(s).id = s.id /\ open(s).docs = s.docs /\ open(s).del = s.del
        /\ open(s).cursor = 0 /\ open(s).alive_bitset = s.docs
  <2> SUFFICES ASSUME NEW s \in meta.segments
               PROVE  /\ open(s) \in Entry /\ open(s).id = s.id /\ open(s).docs = s.docs /\ open(s).del = s.del
                      /\ open(s).cursor = 0 /\ open(s).alive_bitset = s.docs
    OBVIOUS
  <2>1. s.id \in Nat /\ s.docs \in SUBSET Docs /\ s.del \in DelFiles
    BY DEF IInv, Shape, Segment
  <2>2. PICK e \in Entry : /\ e = NewEntry(s.id, s.docs, 0, s.docs)
                           /\ e.id = s.id /\ e.docs = s.docs /\ e.cursor = 0 /\ e.alive_bitset = s.docs
    BY <2>1, NewEntryFacts
  <2> QED BY <2>1, <2>2 DEF Entry
<1> HIDE DEF open
<1>4. NoMerge \in Merge /\ NoMerge.segments = <<>> /\ ~NoMerge.running /\ FreshWorker(0) \in Worker /\ FreshWorker(0).pc = "peek"
      /\ FreshWorker(0).docs = {} /\ FreshWorker(0).cursor = 0
  BY DEF NoMerge, Merge, FreshWorker, Worker
<1>5. Shape'
  <2>1. meta.opstamp \in Nat /\ commits \in Nat /\ published \subseteq Record
    BY DEF IInv, Shape
  <2>2. committed' \subseteq Entry
    BY <1>1, <1>3
  <2> QED BY <1>1, <1>4, <2>1, <2>2, IndexerAssumption DEF IInv, Shape
<1>6. Copies' = {} /\ Stored' = committed' /\ updating'.step = "none" /\ QueueLen' = 0
  BY <1>1 DEF Copies, Stored, NoUpdate, QueueLen
<1>7. Formed'
  <2>1. \A e \in Stored' : IsEntry(e)'
    <3> SUFFICES ASSUME NEW s \in meta.segments, NEW e, e = open(s) PROVE IsEntry(e)'
      BY <1>1, <1>6
    <3>1. s.id \in 1 .. next_id - 1 /\ (s.del # None => s.del.alive \subseteq s.docs) /\ s.docs \subseteq Docs /\ s.del \in DelFiles
      BY DEF IInv, Formed, Shape, Segment
    <3>2. s.del # None => s.del.opstamp \in Nat
      BY <3>1 DEF DelFiles
    <3> QED BY <1>1, <1>3, <1>6, <3>1, <3>2 DEF IsEntry
  <2> QED BY <1>1, <1>4, <1>6, <2>1 DEF IInv, Formed
<1>8. Finite'
  <2>1. IsFiniteSet(meta.segments)
    BY DEF IInv, Finite
  <2> DEFINE f == [s \in meta.segments |-> open(s)]
  <2>2. IsFiniteSet({f[s] : s \in meta.segments})
    <3> HIDE DEF f
    <3> QED BY <2>1, FiniteImage
  <2>3. {f[s] : s \in meta.segments} = {open(s) : s \in meta.segments}
    OBVIOUS
  <2> HIDE DEF f
  <2> QED BY <1>1, <1>6, <2>1, <2>2, <2>3, FS_EmptySet DEF Finite
<1>9. Idents'
  <2>1. \A s, t \in meta.segments : /\ s.id = t.id => s = t
                                    /\ s.id # t.id => s.docs \cap t.docs = {}
    BY DEF IInv, Idents
  <2>2. \A e, f \in committed' : /\ e.id = f.id => e = f
                                 /\ e.id # f.id => e.docs \cap f.docs = {}
    BY <1>1, <1>3, <2>1
  <2> QED BY <1>1, <1>4, <1>6, <2>1, <2>2 DEF Idents
<1>10. Fresh'
  BY <1>1, <1>4 DEF Fresh
<1>11. Waiting'
  BY <1>1, <1>4, <1>6 DEF Waiting
<1>12. Apart'
  BY <1>1, <1>2, <1>4, <1>6 DEF Apart, NoCall
<1>13. \A e \in committed' : Below(e.docs, published)
  BY <1>1, <1>3 DEF IInv, Settled
<1>14. Counted'
  BY <1>1, <1>2, <1>4, <1>6, <1>13 DEF IInv, Counted, Settled, NoCall, Numbered, Below
<1>15. Settled'
  BY <1>1, <1>6, <1>13 DEF IInv, Settled, Numbered, Below
<1>16. Quietly'
  BY <1>1 DEF Quietly
<1> QED BY <1>5, <1>7, <1>8, <1>9, <1>10, <1>11, <1>12, <1>14, <1>15, <1>16 DEF IInv

-----------------------------------------------------------------------------
(* The updater.                                                            *)
LEMMA MergesFollow ==
  ASSUME Shape, NEW over, MergeStep(over)
  PROVE  /\ \A m \in Merges : \A i \in DOMAIN merge'[m].segments :
              \/ m \notin over /\ merge'[m] = merge[m]
              \/ merge'[m].segments[i] \in uncommitted' \cup committed'
         /\ \A m \in Merges \ over : merge[m].running => merge'[m] = merge[m]
         /\ (\A m \in Merges : ~merge[m].running <=> merge[m].segments = <<>>)
            => \A m \in Merges : ~merge'[m].running <=> merge'[m].segments = <<>>
<1>1. NoMerge.segments = <<>> /\ ~NoMerge.running
  BY DEF NoMerge
<1>2. ASSUME NEW m \in Merges
      PROVE  /\ \A i \in DOMAIN merge'[m].segments :
                  \/ m \notin over /\ merge'[m] = merge[m]
                  \/ merge'[m].segments[i] \in uncommitted' \cup committed'
             /\ m \notin over /\ merge[m].running => merge'[m] = merge[m]
             /\ (~merge[m].running <=> merge[m].segments = <<>>) => (~merge'[m].running <=> merge'[m].segments = <<>>)
  <2>1. CASE Stays(m, over)
    BY <1>1, <2>1 DEF Stays
  <2>2. CASE Starts(m, over)
    BY <2>2 DEF Starts
  <2> QED BY <2>1, <2>2 DEF MergeStep
<1> QED BY <1>2

LEMMA TaskTaken ==
  ASSUME Shape, NEW kind, TaskIs(kind), tasks' = Tail(tasks)
  PROVE  /\ tasks' \in Seq(Task) /\ 1 \in DOMAIN tasks /\ Head(tasks) = tasks[1] /\ Head(tasks) \in Task
         /\ Head(tasks).kind = kind
         /\ \A k \in DOMAIN tasks' : k + 1 \in DOMAIN tasks /\ tasks'[k] = tasks[k + 1] /\ k + 1 # 1 /\ k \in Nat
                                     /\ 1 \in 1 .. (k + 1) - 1
         /\ \A j, k \in DOMAIN tasks' : j # k => j + 1 # k + 1
         /\ \A k \in DOMAIN tasks' : \A j \in 1 .. k - 1 : j \in DOMAIN tasks' /\ j + 1 \in 1 .. (k + 1) - 1
         /\ updating = NoUpdate /\ updating.step = "none" /\ Copies = {}
<1>1. tasks \in Seq(Task) /\ tasks # <<>> /\ Head(tasks).kind = kind /\ updating = NoUpdate
  BY DEF Shape, TaskIs
<1>2. /\ tasks' \in Seq(Task) /\ DOMAIN tasks' = 1 .. Len(tasks) - 1
      /\ Len(tasks) \in Nat /\ Len(tasks) > 0 /\ DOMAIN tasks = 1 .. Len(tasks)
      /\ \A i \in 1 .. Len(tasks) - 1 : tasks'[i] = tasks[i + 1]
      /\ Head(tasks) = tasks[1] /\ Head(tasks) \in Task /\ 1 \in DOMAIN tasks
  BY <1>1, TailFacts
<1>3. \A k \in DOMAIN tasks' : k + 1 \in DOMAIN tasks /\ tasks'[k] = tasks[k + 1] /\ k + 1 # 1 /\ k \in Nat
                               /\ 1 \in 1 .. (k + 1) - 1
  BY <1>2
<1>4. \A j, k \in DOMAIN tasks' : j # k => j + 1 # k + 1
  BY <1>2
<1>5. \A k \in DOMAIN tasks' : \A j \in 1 .. k - 1 : j \in DOMAIN tasks' /\ j + 1 \in 1 .. (k + 1) - 1
  BY <1>2
<1>6. updating.step = "none" /\ Copies = {}
  BY <1>1 DEF NoUpdate, Copies
<1> QED BY <1>1, <1>2, <1>3, <1>4, <1>5, <1>6

(* What the task queue, the merges and the registers may do for the parts   *)
(* on identities to go on: tasks are taken from the front, and a segment    *)
(* that appears somewhere was already somewhere else.                       *)
Shifted(d) ==
  \A k \in DOMAIN tasks' : k \in Nat \ {0} /\ k + d \in DOMAIN tasks /\ tasks'[k] = tasks[k + d]
Known(id, d) ==
  \/ \E y \in Stored : y.id = id
  \/ \E m \in Merges : \E i \in DOMAIN merge[m].segments : merge[m].segments[i].id = id
  \/ d = 1 /\ 1 \in DOMAIN tasks /\ Carries(1) /\ id = tasks[1].entry.id

LEMMA FreshFollows ==
  ASSUME Fresh, worker' = worker, NEW d \in {0, 1}, Shifted(d),
         \A x \in Stored' : Known(x.id, d),
         \A m \in Merges : \A i \in DOMAIN merge'[m].segments : Known(merge'[m].segments[i].id, d)
  PROVE  Fresh'
<1>1. \A k \in DOMAIN tasks' : /\ k + d \in DOMAIN tasks /\ tasks'[k] = tasks[k + d]
                               /\ Carries(k)' => Carries(k + d)
                               /\ d = 1 => k + d # 1
                               /\ \A j \in DOMAIN tasks' : j # k => j + d # k + d
  BY DEF Shifted, Carries
<1>2. \A w \in Workers : worker[w].pc = "schedule" => \A id : Known(id, d) => id # worker[w].entry.id
  BY DEF Fresh, Known
<1>3. \A k \in DOMAIN tasks' : Carries(k)' => \A id : Known(id, d) => id # tasks'[k].entry.id
  <2> SUFFICES ASSUME NEW k \in DOMAIN tasks', Carries(k)', NEW id, Known(id, d) PROVE id # tasks'[k].entry.id
    OBVIOUS
  <2>1. k + d \in DOMAIN tasks /\ tasks'[k] = tasks[k + d] /\ Carries(k + d) /\ (d = 1 => k + d # 1)
    BY <1>1
  <2>2. CASE d = 1 /\ 1 \in DOMAIN tasks /\ Carries(1) /\ id = tasks[1].entry.id
    BY <2>1, <2>2 DEF Fresh
  <2>3. CASE ~(d = 1 /\ 1 \in DOMAIN tasks /\ Carries(1) /\ id = tasks[1].entry.id)
    BY <2>1, <2>3 DEF Fresh, Known
  <2> QED BY <2>2, <2>3
<1>4. \A w \in Workers : worker'[w].pc = "schedule" =>
       /\ \A e \in Stored' : e.id # worker'[w].entry.id
       /\ \A m \in Merges : \A i \in DOMAIN merge'[m].segments : merge'[m].segments[i].id # worker'[w].entry.id
       /\ \A v \in Workers : worker'[v].pc = "schedule" /\ v # w => worker'[v].entry.id # worker'[w].entry.id
       /\ \A k \in DOMAIN tasks' : Carries(k)' => tasks'[k].entry.id # worker'[w].entry.id
  BY <1>1, <1>2 DEF Fresh
<1>5. \A k \in DOMAIN tasks' : Carries(k)' =>
       /\ \A e \in Stored' : e.id # tasks'[k].entry.id
       /\ \A m \in Merges : \A i \in DOMAIN merge'[m].segments : merge'[m].segments[i].id # tasks'[k].entry.id
       /\ \A j \in DOMAIN tasks' : Carries(j)' /\ j # k => tasks'[j].entry.id # tasks'[k].entry.id
  <2> SUFFICES ASSUME NEW k \in DOMAIN tasks', Carries(k)'
      PROVE /\ \A e \in Stored' : e.id # tasks'[k].entry.id
            /\ \A m \in Merges : \A i \in DOMAIN merge'[m].segments : merge'[m].segments[i].id # tasks'[k].entry.id
            /\ \A j \in DOMAIN tasks' : Carries(j)' /\ j # k => tasks'[j].entry.id # tasks'[k].entry.id
    OBVIOUS
  <2>1. \A j \in DOMAIN tasks' : Carries(j)' /\ j # k => tasks'[j].entry.id # tasks'[k].entry.id
    BY <1>1 DEF Fresh
  <2> QED BY <1>3, <2>1
<1> QED BY <1>4, <1>5 DEF Fresh

LEMMA WaitingFollows ==
  ASSUME Waiting, Shape, worker' = worker, NEW d \in {0, 1}, Shifted(d),
         \A k \in DOMAIN tasks' : tasks'[k].kind = "end_merge" =>
           /\ merge'[tasks'[k].merge] = merge[tasks'[k].merge]
           /\ updating'.step = "save" => tasks'[k].merge \notin updating'.over,
         \A m \in Merges : ~merge'[m].running <=> merge'[m].segments = <<>>,
         updating'.step = "save" => \A m \in updating'.over :
           merge'[m].running /\ merge'[m].advanced > Len(merge'[m].segments)
  PROVE  Waiting'
<1>1. \A k \in DOMAIN tasks' : /\ k + d \in DOMAIN tasks /\ tasks'[k] = tasks[k + d]
                               /\ \A j \in DOMAIN tasks' : j # k => j + d # k + d
  BY DEF Shifted
<1>2. \A k \in DOMAIN tasks' : tasks'[k].kind = "add_segment" =>
       /\ worker'[tasks'[k].worker].pc = "wait" /\ tasks'[k].entry.docs = worker'[tasks'[k].worker].docs
       /\ \A j \in DOMAIN tasks' : tasks'[j].kind = "add_segment" /\ j # k => tasks'[j].worker # tasks'[k].worker
  BY <1>1 DEF Waiting
<1>3. \A k \in DOMAIN tasks' : tasks'[k].kind = "end_merge" =>
       /\ Written(tasks'[k])
       /\ \A j \in DOMAIN tasks' : tasks'[j].kind = "end_merge" /\ j # k => tasks'[j].merge # tasks'[k].merge
  BY <1>1 DEF Waiting
<1>4. \A k \in DOMAIN tasks' : tasks'[k].kind = "end_merge" => Written(tasks[k])'
  BY <1>3 DEF Written
<1>5. \A w \in Workers : /\ worker'[w].pc \in {"peek", "exit"} => worker'[w].docs = {}
                         /\ worker'[w].pc = "schedule" => worker'[w].entry.docs = worker'[w].docs
  BY DEF Waiting
<1> QED BY <1>2, <1>3, <1>4, <1>5 DEF Waiting

(* Documents stay where they are, or go where they were nearby.            *)
LEMMA ApartFollows ==
  ASSUME Apart, UNCHANGED <<client, channel, worker>>,
         \A x \in Stored' : \A d \in x.docs : \E y \in Stored : d \in y.docs
  PROVE  Apart'
<1>1. /\ \A c \in Clients : \A e \in Stored' : e.docs \cap client[c].send = {}
      /\ \A k \in DOMAIN channel : \A e \in Stored' : e.docs \cap channel[k] = {}
      /\ \A w \in Workers : \A e \in Stored' : e.docs \cap worker[w].docs = {}
  BY DEF Apart
<1> QED BY <1>1 DEF Apart

LEMMA CountedFollows ==
  ASSUME Counted, UNCHANGED <<client, channel, worker, history>>,
         \A x \in Stored' : \A d \in x.docs : \E y \in Stored : d \in y.docs
  PROVE  Counted'
<1>1. \A e \in Stored' : Below(e.docs, history)
  BY DEF Counted, Below
<1> QED BY <1>1 DEF Counted, Numbered, Below

LEMMA FormedFollows ==
  ASSUME Formed, Shape, UNCHANGED <<delete_queue, worker, next_id>>, NEW d \in {0, 1}, Shifted(d),
         \A x \in Stored' : IsEntry(x),
         \A m \in Merges : \A i \in DOMAIN merge'[m].segments : IsEntry(merge'[m].segments[i]),
         \A s \in meta'.segments : s.id \in 1 .. next_id - 1 /\ (s.del # None => s.del.alive \subseteq s.docs)
  PROVE  Formed'
<1>1. QueueLen' = QueueLen /\ \A x : IsEntry(x)' <=> IsEntry(x)
  BY DEF IsEntry, QueueLen
<1>2. \A k \in DOMAIN tasks' : Carries(k)' => IsEntry(tasks'[k].entry)
  BY DEF Formed, Shifted, Carries
<1> QED BY <1>1, <1>2 DEF Formed

LEMMA AddSegmentKeeps == ASSUME IInv, AddSegment PROVE IInv'
<1>0. PICK e, w : e = Head(tasks).entry /\ w = Head(tasks).worker
  OBVIOUS
<1>1. /\ TaskIs("add_segment") /\ uncommitted' = uncommitted \cup {e} /\ tasks' = Tail(tasks)
      /\ worker' = [worker EXCEPT ![w].pc = "peek", ![w].docs = {}]
      /\ UNCHANGED <<delete_queue, channel, client, next_id, committed_opstamp, commits, history,
                     owner, updating, committed, meta, published>>
      /\ consider_merge_options({})
  BY <1>0 DEF AddSegment, outside
<1>2. Shape /\ Formed /\ Finite /\ Idents /\ Fresh /\ Waiting /\ Apart /\ Counted /\ Settled /\ Quietly
  BY DEF IInv
<1>3. /\ tasks' \in Seq(Task) /\ 1 \in DOMAIN tasks /\ tasks[1] \in Task /\ tasks[1].kind = "add_segment"
      /\ tasks[1].entry = e /\ tasks[1].worker = w
      /\ \A k \in DOMAIN tasks' : k + 1 \in DOMAIN tasks /\ tasks'[k] = tasks[k + 1] /\ k + 1 # 1 /\ k \in Nat
                                  /\ 1 \in 1 .. (k + 1) - 1
      /\ \A j, k \in DOMAIN tasks' : j # k => j + 1 # k + 1
      /\ \A k \in DOMAIN tasks' : \A j \in 1 .. k - 1 : j \in DOMAIN tasks' /\ j + 1 \in 1 .. (k + 1) - 1
      /\ updating = NoUpdate /\ updating.step = "none" /\ Copies = {}
  BY <1>0, <1>1, <1>2, TaskTaken
<1>4. e \in Entry /\ w \in Workers /\ IsEntry(e) /\ worker[w].pc = "wait" /\ e.docs = worker[w].docs
  BY <1>2, <1>3, TaskFacts DEF Formed, Waiting, Carries
<1>5. worker \in [Workers -> Worker]
  BY <1>2 DEF Shape
<1>6. /\ worker' \in [Workers -> Worker] /\ \A v \in Workers \ {w} : worker'[v] = worker[v]
      /\ worker'[w].pc = "peek" /\ worker'[w].docs = {} /\ worker'[w].cursor = worker[w].cursor
  BY <1>1, <1>4, <1>5 DEF Worker
<1>7. uncommitted' \subseteq Entry /\ committed' \subseteq Entry /\ meta'.opstamp \in Nat
      /\ IsFiniteSet(uncommitted') /\ IsFiniteSet(committed')
  BY <1>1, <1>2, <1>4, FS_AddElement DEF Shape, Finite
<1>8. MergeStep({}) /\ stamper' = stamper + 1
  BY <1>1, <1>2, <1>7, MergeOptions
<1>9. Stored' = Stored \cup {e} /\ Copies' = {} /\ uncommitted' \cup committed' \subseteq Stored'
  BY <1>1, <1>3 DEF Stored, Copies
<1>10. Shape'
  BY <1>1, <1>2, <1>3, <1>6, <1>7, <1>8 DEF Shape, MergeStep
<1>11. QueueLen' = QueueLen /\ \A x : IsEntry(x)' <=> IsEntry(x)
  BY <1>1 DEF IsEntry, QueueLen
<1>12. \A k \in DOMAIN tasks' : Carries(k)' => Carries(k + 1)
  BY <1>3 DEF Carries
<1>13. \A m \in Merges : \A i \in DOMAIN merge'[m].segments :
         \/ merge'[m] = merge[m]
         \/ merge'[m].segments[i] \in Stored'
  BY <1>2, <1>8, <1>9, MergesFollow
<1>14. /\ \A m \in Merges : merge[m].running => merge'[m] = merge[m]
       /\ \A m \in Merges : ~merge'[m].running <=> merge'[m].segments = <<>>
  BY <1>2, <1>8, MergesFollow DEF Waiting
<1>15. Formed'
  <2>1. \A x \in Stored' : IsEntry(x)
    BY <1>2, <1>4, <1>9 DEF Formed
  <2>2. \A m \in Merges : \A i \in DOMAIN merge'[m].segments : IsEntry(merge'[m].segments[i])
    BY <1>2, <1>13, <2>1 DEF Formed
  <2>3. \A k \in DOMAIN tasks' : Carries(k)' => IsEntry(tasks'[k].entry)
    BY <1>2, <1>3, <1>12 DEF Formed
  <2> QED BY <1>1, <1>2, <1>6, <1>11, <2>1, <2>2, <2>3 DEF Formed
<1>16. Finite'
  BY <1>1, <1>2, <1>7, <1>9, FS_EmptySet DEF Finite
<1>17. \A x \in Stored : x.id # e.id /\ x.docs \cap e.docs = {}
  BY <1>2, <1>3, <1>4 DEF Fresh, Apart, Carries
<1>18. \A x, f \in Stored' : /\ x.id = f.id => x.docs = f.docs
                             /\ x.id # f.id => x.docs \cap f.docs = {}
  BY <1>2, <1>9, <1>17 DEF Idents
<1>19. Idents'
  <2>1. \A x, f \in uncommitted' : x.id = f.id => x = f
    BY <1>1, <1>2, <1>17 DEF Idents, Stored
  <2>2. \A x \in uncommitted', f \in committed : x.id # f.id
    BY <1>1, <1>2, <1>17 DEF Idents, Stored
  <2>3. \A m \in Merges : \A i \in DOMAIN merge[m].segments : merge[m].segments[i].id # e.id
    BY <1>2, <1>3 DEF Fresh, Carries
  <2>4. \A m \in Merges : \A i \in DOMAIN merge'[m].segments :
          \A x \in Stored' : x.id = merge'[m].segments[i].id => x.docs = merge'[m].segments[i].docs
    <3> SUFFICES ASSUME NEW m \in Merges, NEW i \in DOMAIN merge'[m].segments, NEW x \in Stored',
                        x.id = merge'[m].segments[i].id
                 PROVE  x.docs = merge'[m].segments[i].docs
      OBVIOUS
    <3>1. CASE merge'[m].segments[i] \in Stored'
      BY <1>18, <3>1
    <3>2. CASE merge'[m] = merge[m]
      BY <1>2, <1>9, <2>3, <3>2 DEF Idents
    <3> QED BY <1>13, <3>1, <3>2
  <2> QED BY <1>1, <1>2, <1>9, <1>18, <2>1, <2>2, <2>4 DEF Idents
<1>20. Fresh'
  <2>1. \A m \in Merges : \A i \in DOMAIN merge'[m].segments :
          (\E j \in DOMAIN merge[m].segments : merge'[m].segments[i] = merge[m].segments[j]) \/ merge'[m].segments[i] \in Stored'
    BY <1>13
  <2>2. \A v \in Workers : worker'[v].pc = "schedule" =>
          /\ worker'[v] = worker[v]
          /\ \A x \in Stored' : x.id # worker'[v].entry.id
    BY <1>2, <1>3, <1>6, <1>9 DEF Fresh, Carries
  <2>3. \A v \in Workers : worker'[v].pc = "schedule" =>
          /\ \A m \in Merges : \A i \in DOMAIN merge'[m].segments : merge'[m].segments[i].id # worker'[v].entry.id
          /\ \A u \in Workers : worker'[u].pc = "schedule" /\ u # v => worker'[u].entry.id # worker'[v].entry.id
          /\ \A k \in DOMAIN tasks' : Carries(k)' => tasks'[k].entry.id # worker'[v].entry.id
    <3> SUFFICES ASSUME NEW v \in Workers, worker'[v].pc = "schedule"
        PROVE /\ \A m \in Merges : \A i \in DOMAIN merge'[m].segments : merge'[m].segments[i].id # worker'[v].entry.id
              /\ \A u \in Workers : worker'[u].pc = "schedule" /\ u # v => worker'[u].entry.id # worker'[v].entry.id
              /\ \A k \in DOMAIN tasks' : Carries(k)' => tasks'[k].entry.id # worker'[v].entry.id
      OBVIOUS
    <3>1. worker'[v] = worker[v]
      BY <2>2
    <3>2. \A m \in Merges : \A i \in DOMAIN merge'[m].segments : merge'[m].segments[i].id # worker'[v].entry.id
      BY <1>2, <2>1, <2>2, <3>1 DEF Fresh
    <3>3. \A u \in Workers : worker'[u].pc = "schedule" /\ u # v => worker'[u].entry.id # worker'[v].entry.id
      BY <1>2, <2>2 DEF Fresh
    <3>4. \A k \in DOMAIN tasks' : Carries(k)' => tasks'[k].entry.id # worker'[v].entry.id
      BY <1>2, <1>3, <1>12, <3>1 DEF Fresh
    <3> QED BY <3>2, <3>3, <3>4
  <2>4. \A k \in DOMAIN tasks' : Carries(k)' =>
          /\ \A x \in Stored' : x.id # tasks'[k].entry.id
          /\ \A m \in Merges : \A i \in DOMAIN merge'[m].segments : merge'[m].segments[i].id # tasks'[k].entry.id
          /\ \A j \in DOMAIN tasks' : Carries(j)' /\ j # k => tasks'[j].entry.id # tasks'[k].entry.id
    <3> SUFFICES ASSUME NEW k \in DOMAIN tasks', Carries(k)'
        PROVE /\ \A x \in Stored' : x.id # tasks'[k].entry.id
              /\ \A m \in Merges : \A i \in DOMAIN merge'[m].segments : merge'[m].segments[i].id # tasks'[k].entry.id
              /\ \A j \in DOMAIN tasks' : Carries(j)' /\ j # k => tasks'[j].entry.id # tasks'[k].entry.id
      OBVIOUS
    <3>1. k + 1 \in DOMAIN tasks /\ tasks'[k] = tasks[k + 1] /\ Carries(k + 1) /\ k + 1 # 1
      BY <1>3, <1>12
    <3>2. \A x \in Stored' : x.id # tasks'[k].entry.id
      BY <1>2, <1>3, <1>9, <3>1 DEF Fresh, Carries
    <3>3. \A m \in Merges : \A i \in DOMAIN merge'[m].segments : merge'[m].segments[i].id # tasks'[k].entry.id
      BY <1>2, <2>1, <3>1, <3>2 DEF Fresh
    <3>4. \A j \in DOMAIN tasks' : Carries(j)' /\ j # k => tasks'[j].entry.id # tasks'[k].entry.id
      BY <1>2, <1>3, <1>12, <3>1 DEF Fresh
    <3> QED BY <3>2, <3>3, <3>4
  <2> QED BY <2>2, <2>3, <2>4 DEF Fresh
<1>21. Waiting'
  <2>1. \A v \in Workers : /\ worker'[v].pc \in {"peek", "exit"} => worker'[v].docs = {}
                           /\ worker'[v].pc = "schedule" => worker'[v].entry.docs = worker'[v].docs
    BY <1>2, <1>6 DEF Waiting
  <2>2. \A k \in DOMAIN tasks' : tasks'[k].kind = "add_segment" =>
          /\ worker'[tasks'[k].worker].pc = "wait" /\ tasks'[k].entry.docs = worker'[tasks'[k].worker].docs
          /\ \A j \in DOMAIN tasks' : tasks'[j].kind = "add_segment" /\ j # k => tasks'[j].worker # tasks'[k].worker
    <3> SUFFICES ASSUME NEW k \in DOMAIN tasks', tasks'[k].kind = "add_segment"
        PROVE /\ worker'[tasks'[k].worker].pc = "wait" /\ tasks'[k].entry.docs = worker'[tasks'[k].worker].docs
              /\ \A j \in DOMAIN tasks' : tasks'[j].kind = "add_segment" /\ j # k => tasks'[j].worker # tasks'[k].worker
      OBVIOUS
    <3>1. k + 1 \in DOMAIN tasks /\ tasks'[k] = tasks[k + 1] /\ k + 1 # 1
      BY <1>3
    <3>2. tasks[k + 1].worker \in Workers \ {w}
      BY <1>2, <1>3, <3>1, TaskFacts DEF Waiting
    <3>3. \A j \in DOMAIN tasks' : tasks'[j].kind = "add_segment" /\ j # k => tasks'[j].worker # tasks'[k].worker
      BY <1>2, <1>3, <3>1 DEF Waiting
    <3> QED BY <1>2, <1>6, <3>1, <3>2, <3>3 DEF Waiting
  <2>3. \A k \in DOMAIN tasks' : tasks'[k].kind = "end_merge" =>
          /\ tasks'[k].merge \in Merges /\ Written(tasks'[k]) /\ merge'[tasks'[k].merge] = merge[tasks'[k].merge]
          /\ \A j \in DOMAIN tasks' : tasks'[j].kind = "end_merge" /\ j # k => tasks'[j].merge # tasks'[k].merge
    <3> SUFFICES ASSUME NEW k \in DOMAIN tasks', tasks'[k].kind = "end_merge"
        PROVE /\ tasks'[k].merge \in Merges /\ Written(tasks'[k]) /\ merge'[tasks'[k].merge] = merge[tasks'[k].merge]
              /\ \A j \in DOMAIN tasks' : tasks'[j].kind = "end_merge" /\ j # k => tasks'[j].merge # tasks'[k].merge
      OBVIOUS
    <3>1. k + 1 \in DOMAIN tasks /\ tasks'[k] = tasks[k + 1] /\ k + 1 # 1
      BY <1>3
    <3>2. tasks[k + 1].merge \in Merges /\ Written(tasks[k + 1])
      BY <1>2, <3>1, TaskFacts DEF Waiting
    <3>3. \A j \in DOMAIN tasks' : tasks'[j].kind = "end_merge" /\ j # k => tasks'[j].merge # tasks'[k].merge
      BY <1>2, <1>3, <3>1 DEF Waiting
    <3>4. merge[tasks[k + 1].merge].running
      BY <3>2 DEF Written
    <3> QED BY <1>14, <3>1, <3>2, <3>3, <3>4
  <2>4. \A k \in DOMAIN tasks' : tasks'[k].kind = "end_merge" => Written(tasks[k])'
    BY <2>3 DEF Written
  <2> QED BY <1>1, <1>3, <1>14, <2>1, <2>2, <2>3, <2>4 DEF Waiting
<1>22. \A v \in Workers : worker'[v].docs \subseteq worker[v].docs /\ (v = w => worker'[v].docs = {})
  BY <1>6
<1>23. Apart'
  <2>1. /\ \A c \in Clients : client[c].send \cap e.docs = {}
        /\ \A k \in DOMAIN channel : channel[k] \cap e.docs = {}
        /\ \A v \in Workers : worker'[v].docs \cap e.docs = {}
    BY <1>2, <1>4, <1>22 DEF Apart
  <2>2. \A c \in Clients :
       /\ \A b \in Clients : b # c => client[b].send \cap client[c].send = {}
       /\ \A k \in DOMAIN channel : channel[k] \cap client[c].send = {}
       /\ \A v \in Workers : worker'[v].docs \cap client[c].send = {}
       /\ \A x \in Stored' : x.docs \cap client[c].send = {}
    BY <1>2, <1>9, <1>22, <2>1 DEF Apart
  <2>3. \A k \in DOMAIN channel :
       /\ \A j \in DOMAIN channel : j # k => channel[j] \cap channel[k] = {}
       /\ \A v \in Workers : worker'[v].docs \cap channel[k] = {}
       /\ \A x \in Stored' : x.docs \cap channel[k] = {}
    BY <1>2, <1>9, <1>22, <2>1 DEF Apart
  <2>4. \A u \in Workers :
       /\ \A v \in Workers : v # u => worker'[v].docs \cap worker'[u].docs = {}
       /\ \A x \in Stored' : x.docs \cap worker'[u].docs = {}
    BY <1>2, <1>9, <1>22, <2>1 DEF Apart
  <2> QED BY <1>1, <2>2, <2>3, <2>4 DEF Apart
<1>24. Counted'
  BY <1>1, <1>2, <1>4, <1>9, <1>22 DEF Counted, Numbered, Below
<1>25. Settled'
  <2>1. \A k \in DOMAIN tasks' : tasks'[k].kind = "commit" =>
          /\ Numbered(tasks'[k].history)
          /\ \A x \in Stored' : Below(x.docs, tasks'[k].history)
          /\ \A j \in 1 .. k - 1 : tasks'[j].kind = "add_segment" => Below(tasks'[j].entry.docs, tasks'[k].history)
    <3> SUFFICES ASSUME NEW k \in DOMAIN tasks', tasks'[k].kind = "commit"
        PROVE /\ Numbered(tasks'[k].history)
              /\ \A x \in Stored' : Below(x.docs, tasks'[k].history)
              /\ \A j \in 1 .. k - 1 : tasks'[j].kind = "add_segment" => Below(tasks'[j].entry.docs, tasks'[k].history)
      OBVIOUS
    <3>1. k + 1 \in DOMAIN tasks /\ tasks'[k] = tasks[k + 1] /\ 1 \in 1 .. (k + 1) - 1
      BY <1>3
    <3>2. Below(e.docs, tasks[k + 1].history)
      BY <1>2, <1>3, <3>1 DEF Settled
    <3>3. \A j \in 1 .. k - 1 : tasks'[j].kind = "add_segment" => Below(tasks'[j].entry.docs, tasks'[k].history)
      BY <1>2, <1>3, <3>1 DEF Settled
    <3> QED BY <1>1, <1>2, <1>9, <3>1, <3>2, <3>3 DEF Settled
  <2> QED BY <1>1, <1>2, <1>3, <1>9, <2>1 DEF Settled, Numbered, Below
<1>26. Quietly'
  BY <1>1, <1>2, <1>8 DEF Quietly, Shape
<1> QED BY <1>10, <1>15, <1>16, <1>19, <1>20, <1>21, <1>23, <1>24, <1>25, <1>26 DEF IInv

LEMMA PurgeDeletesKeeps == ASSUME IInv, PurgeDeletes PROVE IInv'
<1> DEFINE S == uncommitted \cup committed
<1> DEFINE A == {advance_deletes(e, Head(tasks).opstamp) : e \in S}
<1>1. /\ TaskIs("commit") /\ tasks' = Tail(tasks)
      /\ updating' = [step |-> "commit", task |-> Head(tasks), entries |-> A]
      /\ UNCHANGED <<delete_queue, channel, client, next_id, committed_opstamp, commits, history,
                     stamper, worker, owner, registers, merge, meta, published>>
  BY DEF PurgeDeletes, outside
<1>2. Shape /\ Formed /\ Finite /\ Idents /\ Fresh /\ Waiting /\ Apart /\ Counted /\ Settled /\ Quietly
  BY DEF IInv
<1>3. /\ tasks' \in Seq(Task) /\ 1 \in DOMAIN tasks /\ Head(tasks) = tasks[1] /\ tasks[1] \in Task /\ tasks[1].kind = "commit"
      /\ \A k \in DOMAIN tasks' : k + 1 \in DOMAIN tasks /\ tasks'[k] = tasks[k + 1] /\ k + 1 # 1 /\ k \in Nat
                                  /\ 1 \in 1 .. (k + 1) - 1
      /\ \A k \in DOMAIN tasks' : \A j \in 1 .. k - 1 : j \in DOMAIN tasks' /\ j + 1 \in 1 .. (k + 1) - 1
      /\ updating.step = "none" /\ Copies = {}
  BY <1>1, <1>2, TaskTaken
<1>4. tasks[1] \in CommitTask /\ tasks[1].opstamp \in Nat
  BY <1>2, <1>3, TaskFacts
<1>5. Stored = S /\ S \subseteq Entry /\ IsFiniteSet(S) /\ \A e \in S : IsEntry(e)
  BY <1>2, <1>3, FS_Union DEF Shape, Finite, Formed, Stored
<1>6. /\ A \subseteq Entry /\ IsFiniteSet(A) /\ \A x \in A : IsEntry(x)
      /\ \A x \in A : \E y \in S : x = advance_deletes(y, Head(tasks).opstamp) /\ x.id = y.id /\ x.docs = y.docs
  <2>1. \A y \in S : LET x == advance_deletes(y, Head(tasks).opstamp)
                     IN x \in Entry /\ IsEntry(x) /\ x.id = y.id /\ x.docs = y.docs
    <3> HIDE DEF S
    <3> QED BY <1>2, <1>3, <1>4, <1>5, Advance
  <2>2. PICK f : f = [e \in S |-> advance_deletes(e, Head(tasks).opstamp)]
    OBVIOUS
  <2>3. A = {f[e] : e \in S}
    BY <2>2
  <2>4. IsFiniteSet({f[e] : e \in S})
    <3> HIDE DEF S
    <3> QED BY <1>5, FiniteImage
  <2> QED BY <2>1, <2>3, <2>4
<1> HIDE DEF A
<1>7. updating' \in Commit /\ updating'.step = "commit" /\ updating'.task = tasks[1] /\ updating'.entries = A
  BY <1>1, <1>3, <1>4, <1>6 DEF Commit
<1>8. Copies' = A /\ Stored' = S \cup A
  BY <1>1, <1>7 DEF Copies, Stored, registers
<1>9. Shifted(1)
  BY <1>3 DEF Shifted
<1>10. \A x \in Stored' : \E y \in Stored : x.id = y.id /\ x.docs = y.docs
  BY <1>5, <1>6, <1>8
<1>11. Shape'
  BY <1>1, <1>2, <1>3, <1>7 DEF Shape, registers
<1>12. Formed'
  BY <1>1, <1>2, <1>5, <1>6, <1>8, <1>9, FormedFollows DEF Formed
<1>13. Finite'
  BY <1>1, <1>2, <1>6, <1>8 DEF Finite, registers
<1>14. Idents'
  <2>1. \A x, f \in S : x.id = f.id => x = f
    BY <1>2, Zenon DEF Idents
  <2>2. \A x, f \in A : x.id = f.id => x = f
    <3> SUFFICES ASSUME NEW x \in A, NEW f \in A, x.id = f.id PROVE x = f
      OBVIOUS
    <3>1. PICK y \in S : x = advance_deletes(y, Head(tasks).opstamp) /\ x.id = y.id
      BY <1>6
    <3>2. PICK z \in S : f = advance_deletes(z, Head(tasks).opstamp) /\ f.id = z.id
      BY <1>6
    <3>3. y = z
      BY <2>1, <3>1, <3>2
    <3> QED BY <3>1, <3>2, <3>3
  <2>3. \A x, f \in Stored' : /\ x.id = f.id => x.docs = f.docs
                              /\ x.id # f.id => x.docs \cap f.docs = {}
    BY <1>2, <1>10 DEF Idents
  <2>4. \A m \in Merges : \A i \in DOMAIN merge[m].segments :
          \A e \in Stored' : e.id = merge[m].segments[i].id => e.docs = merge[m].segments[i].docs
    BY <1>2, <1>10 DEF Idents
  <2> QED BY <1>1, <1>2, <1>8, <2>2, <2>3, <2>4 DEF Idents, registers
<1>15. Fresh'
  <2>1. \A x \in Stored' : Known(x.id, 1)
    BY <1>10 DEF Known
  <2>2. \A m \in Merges : \A i \in DOMAIN merge'[m].segments : Known(merge'[m].segments[i].id, 1)
    BY <1>1 DEF Known
  <2> QED BY <1>1, <1>2, <1>9, <2>1, <2>2, FreshFollows
<1>16. Waiting'
  BY <1>1, <1>2, <1>7, <1>9, WaitingFollows DEF Waiting
<1>17. Apart' /\ Counted'
  BY <1>1, <1>2, <1>10, ApartFollows, CountedFollows
<1>18. Settled'
  <2>1. Numbered(tasks[1].history) /\ \A e \in Stored' : Below(e.docs, tasks[1].history)
    BY <1>2, <1>3, <1>10 DEF Settled
  <2>2. \A k \in DOMAIN tasks' : tasks'[k].kind = "commit" =>
          /\ Numbered(tasks'[k].history)
          /\ \A e \in Stored' : Below(e.docs, tasks'[k].history)
          /\ \A j \in 1 .. k - 1 : tasks'[j].kind = "add_segment" => Below(tasks'[j].entry.docs, tasks'[k].history)
    <3> SUFFICES ASSUME NEW k \in DOMAIN tasks', tasks'[k].kind = "commit"
        PROVE /\ Numbered(tasks'[k].history)
              /\ \A e \in Stored' : Below(e.docs, tasks'[k].history)
              /\ \A j \in 1 .. k - 1 : tasks'[j].kind = "add_segment" => Below(tasks'[j].entry.docs, tasks'[k].history)
      OBVIOUS
    <3>1. k + 1 \in DOMAIN tasks /\ tasks'[k] = tasks[k + 1]
      BY <1>3
    <3>2. \A e \in Stored' : Below(e.docs, tasks'[k].history)
      BY <1>2, <1>10, <3>1 DEF Settled
    <3>3. \A j \in 1 .. k - 1 : tasks'[j].kind = "add_segment" => Below(tasks'[j].entry.docs, tasks'[k].history)
      BY <1>2, <1>3, <3>1 DEF Settled
    <3> QED BY <1>2, <3>1, <3>2, <3>3 DEF Settled
  <2>3. \A e \in Copies' : Below(e.docs, tasks[1].history)
    BY <1>8, <2>1
  <2> QED BY <1>1, <1>2, <1>3, <1>7, <2>1, <2>2, <2>3 DEF Settled, registers
<1>19. Quietly'
  BY <1>1, <1>2, QuietlyFrame
<1> QED BY <1>11, <1>12, <1>13, <1>14, <1>15, <1>16, <1>17, <1>18, <1>19 DEF IInv

LEMMA UpdateFacts ==
  ASSUME Shape
  PROVE  /\ updating.step \in {"none", "commit", "save"}
         /\ updating.step = "none" => updating = NoUpdate
         /\ updating.step = "commit" => /\ updating.task \in CommitTask /\ updating.task.opstamp \in Nat
                                        /\ updating.task.history \subseteq Record
                                        /\ updating.entries \subseteq Entry
         /\ updating.step = "save" => /\ updating.opstamp \in Nat /\ updating.history \subseteq Record
                                      /\ updating.over \subseteq Merges
<1>1. updating \in {NoUpdate} \cup Commit \cup Save
  BY DEF Shape
<1>2. \A t \in CommitTask : t.opstamp \in Nat /\ t.history \subseteq Record
  BY DEF CommitTask
<1> QED BY <1>1, <1>2 DEF NoUpdate, Commit, Save

LEMMA CommitSegmentsKeeps == ASSUME IInv, CommitSegments PROVE IInv'
<1>1. /\ updating.step = "commit" /\ committed' = updating.entries /\ uncommitted' = {}
      /\ updating' = [step |-> "save", opstamp |-> updating.task.opstamp, history |-> updating.task.history, over |-> {}]
      /\ UNCHANGED <<delete_queue, channel, client, next_id, committed_opstamp, commits, history,
                     stamper, worker, owner, tasks, merge, meta, published>>
  BY DEF CommitSegments, outside
<1>2. Shape /\ Formed /\ Finite /\ Idents /\ Fresh /\ Waiting /\ Apart /\ Counted /\ Settled /\ Quietly
  BY DEF IInv
<1>3. updating.task.opstamp \in Nat /\ updating.task.history \subseteq Record /\ updating.entries \subseteq Entry
  BY <1>1, <1>2, UpdateFacts
<1>4. /\ updating' \in Save /\ updating'.step = "save" /\ updating'.opstamp = updating.task.opstamp
      /\ updating'.history = updating.task.history /\ updating'.over = {}
  BY <1>1, <1>3 DEF Save
<1>5. committed' = Copies /\ Copies' = {} /\ Stored' = Copies /\ Copies \subseteq Stored
  BY <1>1, <1>4 DEF Copies, Stored
<1>6. Shape'
  BY <1>1, <1>2, <1>3, <1>4 DEF Shape
<1>7. Shifted(0)
  <2>1. tasks \in Seq(Task)
    BY <1>2 DEF Shape
  <2> QED BY <1>1, <2>1 DEF Shifted
<1>8. Formed'
  BY <1>1, <1>2, <1>5, <1>7, FormedFollows DEF Formed
<1>9. Finite'
  BY <1>1, <1>2, <1>5, FS_EmptySet DEF Finite
<1>10. Idents'
  BY <1>1, <1>2, <1>5 DEF Idents
<1>11. Fresh'
  <2>1. \A x \in Stored' : Known(x.id, 0)
    BY <1>5 DEF Known
  <2>2. \A m \in Merges : \A i \in DOMAIN merge'[m].segments : Known(merge'[m].segments[i].id, 0)
    BY <1>1 DEF Known
  <2> QED BY <1>1, <1>2, <1>7, <2>1, <2>2, FreshFollows
<1>12. Waiting'
  BY <1>1, <1>2, <1>4, <1>7, WaitingFollows DEF Waiting
<1>13. Apart' /\ Counted'
  BY <1>1, <1>2, <1>5, ApartFollows, CountedFollows
<1>14. Settled'
  BY <1>1, <1>2, <1>4, <1>5 DEF Settled
<1>15. Quietly'
  BY <1>1, <1>2, QuietlyFrame
<1> QED BY <1>6, <1>8, <1>9, <1>10, <1>11, <1>12, <1>13, <1>14, <1>15 DEF IInv

(* What consider_merge_options leaves of the parts that look at merges.     *)
LEMMA MergesKeep ==
  ASSUME Shape, Formed, Waiting, NEW over, MergeStep(over),
         \A e \in uncommitted' \cup committed' : e \in Stored' /\ IsEntry(e),
         \A x, f \in Stored' : x.id = f.id => x.docs = f.docs,
         \A m \in Merges : \A i \in DOMAIN merge[m].segments :
           \A e \in Stored' : e.id = merge[m].segments[i].id => e.docs = merge[m].segments[i].docs
  PROVE  /\ \A m \in Merges : \A i \in DOMAIN merge'[m].segments : IsEntry(merge'[m].segments[i])
         /\ \A m \in Merges : \A i \in DOMAIN merge'[m].segments :
              \A e \in Stored' : e.id = merge'[m].segments[i].id => e.docs = merge'[m].segments[i].docs
         /\ \A m \in Merges : \A i \in DOMAIN merge'[m].segments :
              \/ \E j \in DOMAIN merge[m].segments : merge'[m].segments[i] = merge[m].segments[j]
              \/ merge'[m].segments[i] \in Stored'
         /\ \A m \in Merges \ over : merge[m].running => merge'[m] = merge[m]
         /\ \A m \in Merges : ~merge'[m].running <=> merge'[m].segments = <<>>
<1>1. \A m \in Merges : \A i \in DOMAIN merge'[m].segments :
              \/ merge'[m] = merge[m]
              \/ merge'[m].segments[i] \in uncommitted' \cup committed'
  BY MergesFollow
<1>2. /\ \A m \in Merges \ over : merge[m].running => merge'[m] = merge[m]
      /\ \A m \in Merges : ~merge'[m].running <=> merge'[m].segments = <<>>
  BY MergesFollow DEF Waiting
<1>3. \A m \in Merges : \A i \in DOMAIN merge'[m].segments :
              \/ \E j \in DOMAIN merge[m].segments : merge'[m].segments[i] = merge[m].segments[j]
              \/ merge'[m].segments[i] \in Stored' /\ IsEntry(merge'[m].segments[i])
  BY <1>1
<1>4. \A m \in Merges : \A i \in DOMAIN merge'[m].segments : IsEntry(merge'[m].segments[i])
  BY <1>3 DEF Formed
<1>5. \A m \in Merges : \A i \in DOMAIN merge'[m].segments :
        \A e \in Stored' : e.id = merge'[m].segments[i].id => e.docs = merge'[m].segments[i].docs
  BY <1>3
<1> QED BY <1>2, <1>3, <1>4, <1>5

LEMMA SegmentMetaFacts ==
  ASSUME NEW e \in Entry
  PROVE  /\ segment_meta(e) \in Segment /\ segment_meta(e).id = e.id /\ segment_meta(e).docs = e.docs
         /\ segment_meta(e).del = e.del
  BY DEF segment_meta, Segment, Entry

LEMMA SaveMetasKeeps == ASSUME IInv, SaveMetas PROVE IInv'
<1>1. /\ updating.step = "save" /\ committed' = {e \in committed : alive_docs(e) # {}}
      /\ meta' = [opstamp |-> updating.opstamp, segments |-> {segment_meta(e) : e \in committed'}]
      /\ published' = updating.history /\ updating' = NoUpdate
      /\ owner' = "idle" \/ owner' = owner
      /\ UNCHANGED <<delete_queue, channel, client, next_id, committed_opstamp, commits, history,
                     worker, tasks, uncommitted>>
      /\ consider_merge_options(updating.over)
  BY DEF SaveMetas, outside
<1>2. Shape /\ Formed /\ Finite /\ Idents /\ Fresh /\ Waiting /\ Apart /\ Counted /\ Settled /\ Quietly
  BY DEF IInv
<1>3. updating.opstamp \in Nat /\ updating.history \subseteq Record /\ updating.over \subseteq Merges
  BY <1>1, <1>2, UpdateFacts
<1>4. updating'.step = "none" /\ Copies' = {} /\ Stored' = uncommitted \cup committed' /\ Stored' \subseteq Stored
      /\ Copies = {} /\ committed' \subseteq committed
  BY <1>1 DEF Copies, Stored, NoUpdate
<1>5. uncommitted' \subseteq Entry /\ committed' \subseteq Entry /\ IsFiniteSet(uncommitted') /\ IsFiniteSet(committed')
  BY <1>1, <1>2, <1>4, FS_Subset DEF Shape, Finite
<1>6. /\ meta' \in [opstamp : Nat, segments : SUBSET Segment] /\ meta'.opstamp = updating.opstamp
      /\ meta'.segments = {segment_meta(e) : e \in committed'}
  <2>1. {segment_meta(e) : e \in committed'} \subseteq Segment
    BY <1>5, SegmentMetaFacts
  <2> QED BY <1>1, <1>3, <2>1
<1>7. \A s \in meta'.segments : \E e \in committed' : /\ s = segment_meta(e) /\ s.id = e.id /\ s.docs = e.docs /\ s.del = e.del
                                                      /\ e \in Stored
  BY <1>4, <1>5, <1>6, SegmentMetaFacts DEF Stored
<1>8. MergeStep(updating.over) /\ stamper' = stamper + 1
  BY <1>1, <1>2, <1>3, <1>5, <1>6, MergeOptions
<1>9. Shape'
  <2>1. owner' \in {"idle", "joining", "prepared", "waiting"}
    BY <1>1, <1>2 DEF Shape
  <2>2. /\ stamper' \in Nat /\ committed_opstamp' \in Nat /\ next_id' \in Nat \ {0} /\ commits' \in Nat
    BY <1>1, <1>2, <1>8 DEF Shape
  <2>3. updating' \in {NoUpdate} \cup Commit \cup Save /\ history' \subseteq Record /\ published' \subseteq Record
    BY <1>1, <1>2, <1>3 DEF Shape
  <2>4. merge' \in [Merges -> Merge]
    BY <1>8 DEF MergeStep
  <2> QED BY <1>1, <1>2, <1>5, <1>6, <2>1, <2>2, <2>3, <2>4 DEF Shape
<1>10. Shifted(0)
  <2>1. tasks \in Seq(Task)
    BY <1>2 DEF Shape
  <2> QED BY <1>1, <2>1 DEF Shifted
<1>11. /\ \A e \in uncommitted' \cup committed' : e \in Stored' /\ IsEntry(e)
       /\ \A x, f \in Stored' : x.id = f.id => x.docs = f.docs
       /\ \A m \in Merges : \A i \in DOMAIN merge[m].segments :
            \A e \in Stored' : e.id = merge[m].segments[i].id => e.docs = merge[m].segments[i].docs
  BY <1>1, <1>2, <1>4 DEF Formed, Idents
<1>12. /\ \A m \in Merges : \A i \in DOMAIN merge'[m].segments : IsEntry(merge'[m].segments[i])
       /\ \A m \in Merges : \A i \in DOMAIN merge'[m].segments :
              \A e \in Stored' : e.id = merge'[m].segments[i].id => e.docs = merge'[m].segments[i].docs
       /\ \A m \in Merges : \A i \in DOMAIN merge'[m].segments :
              \/ \E j \in DOMAIN merge[m].segments : merge'[m].segments[i] = merge[m].segments[j]
              \/ merge'[m].segments[i] \in Stored'
       /\ \A m \in Merges \ updating.over : merge[m].running => merge'[m] = merge[m]
       /\ \A m \in Merges : ~merge'[m].running <=> merge'[m].segments = <<>>
  BY <1>2, <1>8, <1>11, MergesKeep
<1>13. Formed'
  <2>1. \A s \in meta'.segments : s.id \in 1 .. next_id - 1 /\ (s.del # None => s.del.alive \subseteq s.docs)
    BY <1>2, <1>7 DEF Formed, IsEntry
  <2>2. \A x \in Stored' : IsEntry(x)
    BY <1>2, <1>4 DEF Formed
  <2> QED BY <1>1, <1>2, <1>10, <1>12, <2>1, <2>2, FormedFollows
<1>14. Finite'
  <2>1. PICK f : f = [e \in committed' |-> segment_meta(e)]
    OBVIOUS
  <2>2. meta'.segments = {f[e] : e \in committed'}
    BY <1>6, <2>1
  <2>3. IsFiniteSet({f[e] : e \in committed'})
    BY <1>5, FiniteImage
  <2> QED BY <1>4, <1>5, <2>2, <2>3, FS_EmptySet DEF Finite
<1>15. Idents'
  <2>1. \A e, f \in committed' : e.id = f.id => e = f
    BY <1>2, <1>4 DEF Idents
  <2>2. \A e \in uncommitted', f \in committed' : e.id # f.id
    BY <1>1, <1>2, <1>4 DEF Idents
  <2>3. \A x, f \in Stored' : x.id # f.id => x.docs \cap f.docs = {}
    BY <1>2, <1>4 DEF Idents
  <2>4. \A s, t \in meta'.segments : /\ s.id = t.id => s = t
                                     /\ s.id # t.id => s.docs \cap t.docs = {}
    <3> SUFFICES ASSUME NEW s \in meta'.segments, NEW t \in meta'.segments
                 PROVE  (s.id = t.id => s = t) /\ (s.id # t.id => s.docs \cap t.docs = {})
      OBVIOUS
    <3>1. PICK e \in committed' : s = segment_meta(e) /\ s.id = e.id /\ s.docs = e.docs /\ e \in Stored
      BY <1>7
    <3>2. PICK f \in committed' : t = segment_meta(f) /\ t.id = f.id /\ t.docs = f.docs /\ f \in Stored
      BY <1>7
    <3>3. e.id = f.id => e = f
      BY <2>1
    <3>4. e.id # f.id => e.docs \cap f.docs = {}
      BY <1>2, <3>1, <3>2 DEF Idents
    <3> QED BY <3>1, <3>2, <3>3, <3>4
  <2>5. \A e, f \in uncommitted' : e.id = f.id => e = f
    BY <1>1, <1>2 DEF Idents
  <2> QED BY <1>4, <1>11, <1>12, <2>1, <2>2, <2>3, <2>4, <2>5 DEF Idents
<1>16. Fresh'
  <2>1. \A x \in Stored' : Known(x.id, 0)
    BY <1>4 DEF Known
  <2>2. \A m \in Merges : \A i \in DOMAIN merge'[m].segments : Known(merge'[m].segments[i].id, 0)
    BY <1>4, <1>12 DEF Known
  <2> QED BY <1>1, <1>2, <1>10, <2>1, <2>2, FreshFollows
<1>17. Waiting'
  <2>1. \A k \in DOMAIN tasks : tasks[k].kind = "end_merge" => merge'[tasks[k].merge] = merge[tasks[k].merge]
    <3> SUFFICES ASSUME NEW k \in DOMAIN tasks, tasks[k].kind = "end_merge"
                 PROVE  merge'[tasks[k].merge] = merge[tasks[k].merge]
      OBVIOUS
    <3>1. tasks[k].merge \in Merges
      BY <1>2, TaskFacts
    <3>2. Written(tasks[k]) /\ tasks[k].merge \notin updating.over
      BY <1>1, <1>2 DEF Waiting
    <3> QED BY <1>12, <3>1, <3>2 DEF Written
  <2> QED BY <1>1, <1>2, <1>4, <1>10, <1>12, <2>1, WaitingFollows
<1>18. Apart' /\ Counted'
  BY <1>1, <1>2, <1>4, ApartFollows, CountedFollows
<1>19. Settled'
  <2>1. \A e \in committed' : Below(e.docs, published')
    BY <1>1, <1>2, <1>4 DEF Settled
  <2>2. \A s \in meta'.segments : Below(s.docs, published')
    BY <1>7, <2>1
  <2> QED BY <1>1, <1>2, <1>4, <2>1, <2>2 DEF Settled
<1>20. Quietly'
  BY <1>1, <1>2, <1>8 DEF Quietly, Shape
<1> QED BY <1>9, <1>13, <1>14, <1>15, <1>16, <1>17, <1>18, <1>19, <1>20 DEF IInv

LEMMA CatchUpFacts ==
  ASSUME Shape, NEW e \in Entry, IsEntry(e)
  PROVE  CatchUp(e) \in Entry /\ IsEntry(CatchUp(e)) /\ CatchUp(e).id = e.id /\ CatchUp(e).docs = e.docs
<1>1. meta.opstamp \in Nat
  BY DEF Shape
<1>2. CatchUp(e) = e \/ CatchUp(e) = advance_deletes(e, meta.opstamp)
  BY DEF CatchUp
<1> QED BY <1>1, <1>2, Advance

(* end_merge swaps segments of one register, R, for the one made of them: T *)
(* takes the place of R beside the other register, O.                       *)
Registers(R, O) == (R = uncommitted /\ O = committed) \/ (R = committed /\ O = uncommitted)
Swapped(R, O, T) ==
  /\ T \subseteq Entry /\ IsFiniteSet(T) /\ \A x \in T \cup O : IsEntry(x)
  /\ \A x \in T : \A d \in x.docs : \E y \in R : d \in y.docs
  /\ \A x \in T \cup O : Known(x.id, 1)
  /\ \A x, f \in T \cup O : x.id = f.id => x = f
  /\ \A x, f \in T \cup O : x.id # f.id => x.docs \cap f.docs = {}
  /\ \A x \in T : \A y \in O : x.id # y.id
  /\ \A n \in Merges : \A i \in DOMAIN merge[n].segments :
       \A e \in T \cup O : e.id = merge[n].segments[i].id => e.docs = merge[n].segments[i].docs

LEMMA ReplaceFacts ==
  ASSUME IInv, NEW m \in Merges, NEW entry \in Entry \cup {None},
         1 \in DOMAIN tasks, tasks[1].kind = "end_merge", m = tasks[1].merge, entry = tasks[1].entry,
         NEW R, NEW O, Registers(R, O), SegmentIds(m) \subseteq ids(R)
  PROVE  Swapped(R, O, Replace(R, m, entry))
<1>0. PICK T, S : T = Replace(R, m, entry) /\ S = T \cup O
  OBVIOUS
<1> SUFFICES /\ T \subseteq Entry /\ IsFiniteSet(T) /\ \A x \in S : IsEntry(x)
             /\ \A x \in T : \A d \in x.docs : \E y \in R : d \in y.docs
             /\ \A x \in S : Known(x.id, 1)
             /\ \A x, f \in S : x.id = f.id => x = f
             /\ \A x, f \in S : x.id # f.id => x.docs \cap f.docs = {}
             /\ \A x \in T : \A y \in O : x.id # y.id
             /\ \A n \in Merges : \A i \in DOMAIN merge[n].segments :
                  \A e \in S : e.id = merge[n].segments[i].id => e.docs = merge[n].segments[i].docs
  BY <1>0 DEF Swapped
<1>1. Shape /\ Formed /\ Finite /\ Idents /\ Fresh /\ Waiting
  BY DEF IInv
<1>2. R \subseteq Stored /\ O \subseteq Stored /\ R \subseteq Entry /\ IsFiniteSet(R)
  BY <1>1 DEF Stored, Shape, Finite, Registers
<1> DEFINE Old == {e \in R : e.id \notin SegmentIds(m)}
<1>3. Old \subseteq R /\ IsFiniteSet(Old) /\ \A x \in Old : x.id \notin SegmentIds(m)
  BY <1>2, FS_Subset
<1>4. \A y \in O : y.id \notin SegmentIds(m) /\ \A x \in R : x.id # y.id
  BY <1>1 DEF Idents, ids, Registers
<1>5. \A x, f \in R \cup O : x.id = f.id => x = f
  BY <1>1 DEF Idents, Registers
<1>6. CASE entry = None
  <2>1. T = Old /\ S = Old \cup O
    BY <1>0, <1>6 DEF Replace
  <2> HIDE DEF Old
  <2>2. S \subseteq Stored /\ S \subseteq R \cup O /\ T \subseteq R
    BY <1>2, <1>3, <2>1
  <2>3. \A x \in S : IsEntry(x) /\ Known(x.id, 1)
    BY <1>1, <2>2 DEF Formed, Known
  <2>4. /\ \A x, f \in S : x.id # f.id => x.docs \cap f.docs = {}
        /\ \A n \in Merges : \A i \in DOMAIN merge[n].segments :
              \A e \in S : e.id = merge[n].segments[i].id => e.docs = merge[n].segments[i].docs
    BY <1>1, <2>2 DEF Idents
  <2> QED BY <1>2, <1>3, <1>4, <1>5, <2>1, <2>2, <2>3, <2>4
<1>7. CASE entry # None
  <2>1. PICK x : x = CatchUp(entry)
    OBVIOUS
  <2>2. T = Old \cup {x} /\ S = Old \cup {x} \cup O
    BY <1>0, <1>7, <2>1 DEF Replace
  <2> HIDE DEF Old
  <2>3. Carries(1) /\ entry \in Entry /\ IsEntry(entry) /\ Written(tasks[1])
    BY <1>1, <1>7 DEF Carries, Formed, Waiting
  <2>4. x \in Entry /\ IsEntry(x) /\ x.id = entry.id /\ x.docs = entry.docs
    BY <1>1, <2>1, <2>3, CatchUpFacts
  <2>5. \A d \in x.docs : \E y \in R : d \in y.docs /\ y.id \in SegmentIds(m)
    <3> SUFFICES ASSUME NEW d \in x.docs PROVE \E y \in R : d \in y.docs /\ y.id \in SegmentIds(m)
      OBVIOUS
    <3>1. PICK i \in DOMAIN merge[m].segments : d \in merge[m].segments[i].docs
      BY <1>7, <2>3, <2>4 DEF Written
    <3>2. merge[m].segments[i].id \in SegmentIds(m)
      BY DEF SegmentIds
    <3>3. PICK y \in R : y.id = merge[m].segments[i].id
      BY <3>2 DEF ids
    <3>4. y.docs = merge[m].segments[i].docs
      BY <1>1, <1>2, <3>3 DEF Idents
    <3> QED BY <3>1, <3>2, <3>3, <3>4
  <2>6. \A y \in Stored : y.id # x.id
    BY <1>1, <2>3, <2>4 DEF Fresh
  <2>7. \A y \in Old \cup O : y \in Stored /\ y.id \notin SegmentIds(m) /\ y \in R \cup O
    BY <1>2, <1>3, <1>4
  <2>8. \A y \in Old \cup O : x.docs \cap y.docs = {}
    <3> SUFFICES ASSUME NEW y \in Old \cup O, NEW d \in x.docs, d \in y.docs PROVE FALSE
      OBVIOUS
    <3>1. PICK z \in R : d \in z.docs /\ z.id \in SegmentIds(m)
      BY <2>5
    <3>2. z.id # y.id /\ z \in Stored /\ y \in Stored
      BY <1>2, <2>7, <3>1
    <3>3. z.docs \cap y.docs = {}
      BY <1>1, <3>2 DEF Idents
    <3> QED BY <3>1, <3>3
  <2>9. T \subseteq Entry /\ IsFiniteSet(T)
    BY <1>2, <1>3, <2>2, <2>4, FS_AddElement
  <2>10. \A z \in S : IsEntry(z) /\ Known(z.id, 1)
    <3>1. IsEntry(x) /\ Known(x.id, 1)
      BY <2>3, <2>4 DEF Known
    <3>2. \A z \in Old \cup O : IsEntry(z) /\ Known(z.id, 1)
      BY <1>1, <2>7 DEF Formed, Known
    <3> QED BY <2>2, <3>1, <3>2
  <2>11. \A z \in T : \A d \in z.docs : \E y \in R : d \in y.docs
    BY <1>3, <2>2, <2>5
  <2>12. \A z, f \in S : z.id = f.id => z = f
    BY <1>5, <2>2, <2>6, <2>7
  <2>13. \A z, f \in S : z.id # f.id => z.docs \cap f.docs = {}
    <3>1. \A z, f \in Old \cup O : z.id # f.id => z.docs \cap f.docs = {}
      BY <1>1, <2>7 DEF Idents
    <3> QED BY <2>2, <2>8, <3>1
  <2>14. \A z \in T : \A y \in O : z.id # y.id
    BY <1>3, <1>4, <2>2, <2>6, <2>7
  <2>15. \A n \in Merges : \A i \in DOMAIN merge[n].segments :
           \A e \in S : e.id = merge[n].segments[i].id => e.docs = merge[n].segments[i].docs
    <3>1. \A n \in Merges : \A i \in DOMAIN merge[n].segments : merge[n].segments[i].id # x.id
      BY <1>1, <2>3, <2>4 DEF Fresh
    <3> QED BY <1>1, <2>2, <2>7, <3>1 DEF Idents
  <2> QED BY <2>9, <2>10, <2>11, <2>12, <2>13, <2>14, <2>15
<1> QED BY <1>6, <1>7

LEMMA EndMergeKeeps == ASSUME IInv, EndMerge PROVE IInv'
<1>0. PICK m, entry : m = Head(tasks).merge /\ entry = Head(tasks).entry
  OBVIOUS
<1>1. /\ TaskIs("end_merge") /\ tasks' = Tail(tasks)
      /\ UNCHANGED <<delete_queue, channel, client, next_id, committed_opstamp, commits, history,
                     worker, owner, meta, published>>
  BY DEF EndMerge, outside
<1>2. Shape /\ Formed /\ Finite /\ Idents /\ Fresh /\ Waiting /\ Apart /\ Counted /\ Settled /\ Quietly
  BY DEF IInv
<1>3. /\ tasks' \in Seq(Task) /\ 1 \in DOMAIN tasks /\ Head(tasks) = tasks[1] /\ tasks[1] \in Task /\ tasks[1].kind = "end_merge"
      /\ \A k \in DOMAIN tasks' : k + 1 \in DOMAIN tasks /\ tasks'[k] = tasks[k + 1] /\ k + 1 # 1 /\ k \in Nat
                                  /\ 1 \in 1 .. (k + 1) - 1
      /\ \A k \in DOMAIN tasks' : \A j \in 1 .. k - 1 : j \in DOMAIN tasks' /\ j + 1 \in 1 .. (k + 1) - 1
      /\ updating = NoUpdate /\ updating.step = "none" /\ Copies = {}
  BY <1>1, <1>2, TaskTaken
<1>4. m \in Merges /\ entry \in Entry \cup {None} /\ m = tasks[1].merge /\ entry = tasks[1].entry /\ Written(tasks[1])
  BY <1>0, <1>2, <1>3, TaskFacts DEF Waiting
<1>5. Shifted(1)
  BY <1>3 DEF Shifted
<1>6. \A k \in DOMAIN tasks' : tasks'[k].kind = "end_merge" =>
        tasks'[k].merge \in Merges \ {m} /\ merge[tasks'[k].merge].running
  <2> SUFFICES ASSUME NEW k \in DOMAIN tasks', tasks'[k].kind = "end_merge"
               PROVE  tasks'[k].merge \in Merges \ {m} /\ merge[tasks'[k].merge].running
    OBVIOUS
  <2>1. k + 1 \in DOMAIN tasks /\ tasks'[k] = tasks[k + 1] /\ k + 1 # 1
    BY <1>3
  <2>2. tasks[k + 1].merge \in Merges /\ tasks[k + 1].merge # m /\ Written(tasks[k + 1])
    BY <1>2, <1>3, <1>4, <2>1, TaskFacts DEF Waiting
  <2> QED BY <2>1, <2>2 DEF Written
<1>7. Stored = uncommitted \cup committed
  BY <1>3 DEF Stored
<1>8. ASSUME \A x \in Stored' : \A d \in x.docs : \E y \in Stored : d \in y.docs
      PROVE  /\ Apart' /\ Counted'
             /\ \A k \in DOMAIN tasks' : tasks'[k].kind = "commit" =>
                  /\ Numbered(tasks'[k].history)
                  /\ \A x \in Stored' : Below(x.docs, tasks'[k].history)
                  /\ \A j \in 1 .. k - 1 : tasks'[j].kind = "add_segment" => Below(tasks'[j].entry.docs, tasks'[k].history)
  <2>1. Apart' /\ Counted'
    BY <1>1, <1>2, <1>8, ApartFollows, CountedFollows
  <2>2. ASSUME NEW k \in DOMAIN tasks', tasks'[k].kind = "commit"
        PROVE /\ Numbered(tasks'[k].history)
              /\ \A x \in Stored' : Below(x.docs, tasks'[k].history)
              /\ \A j \in 1 .. k - 1 : tasks'[j].kind = "add_segment" => Below(tasks'[j].entry.docs, tasks'[k].history)
    <3>1. k + 1 \in DOMAIN tasks /\ tasks'[k] = tasks[k + 1]
      BY <1>3
    <3>2. \A x \in Stored' : Below(x.docs, tasks'[k].history)
      BY <1>2, <1>8, <2>2, <3>1 DEF Settled, Below
    <3>3. \A j \in 1 .. k - 1 : tasks'[j].kind = "add_segment" => Below(tasks'[j].entry.docs, tasks'[k].history)
      BY <1>2, <1>3, <2>2, <3>1 DEF Settled
    <3> QED BY <1>2, <2>2, <3>1, <3>2, <3>3 DEF Settled
  <2> QED BY <2>1, <2>2
<1>9. CASE /\ SegmentIds(m) \subseteq ids(uncommitted)
           /\ uncommitted' = Replace(uncommitted, m, entry)
           /\ UNCHANGED <<committed, updating>>
           /\ consider_merge_options({m})
  <2>1. Copies' = {} /\ Stored' = uncommitted' \cup committed /\ updating'.step = "none"
    BY <1>3, <1>9 DEF Copies, Stored
  <2>2. /\ uncommitted' \subseteq Entry /\ IsFiniteSet(uncommitted') /\ \A x \in Stored' : IsEntry(x)
        /\ \A x \in uncommitted' : \A d \in x.docs : \E y \in uncommitted : d \in y.docs
        /\ \A x \in Stored' : Known(x.id, 1)
        /\ \A x, f \in Stored' : x.id = f.id => x = f
        /\ \A x, f \in Stored' : x.id # f.id => x.docs \cap f.docs = {}
        /\ \A x \in uncommitted' : \A y \in committed : x.id # y.id
        /\ \A n \in Merges : \A i \in DOMAIN merge[n].segments :
             \A e \in Stored' : e.id = merge[n].segments[i].id => e.docs = merge[n].segments[i].docs
    <3>1. Registers(uncommitted, committed)
      BY DEF Registers
    <3>2. Swapped(uncommitted, committed, Replace(uncommitted, m, entry))
      BY <1>3, <1>4, <1>9, <3>1, ReplaceFacts
    <3> QED BY <1>9, <2>1, <3>2 DEF Swapped
  <2>3. MergeStep({m}) /\ stamper' = stamper + 1
    BY <1>1, <1>2, <1>9, <2>2, MergeOptions DEF Shape, Finite
  <2>4. /\ \A n \in Merges : \A i \in DOMAIN merge'[n].segments : IsEntry(merge'[n].segments[i])
        /\ \A n \in Merges : \A i \in DOMAIN merge'[n].segments :
              \A e \in Stored' : e.id = merge'[n].segments[i].id => e.docs = merge'[n].segments[i].docs
        /\ \A n \in Merges : \A i \in DOMAIN merge'[n].segments :
              \/ \E j \in DOMAIN merge[n].segments : merge'[n].segments[i] = merge[n].segments[j]
              \/ merge'[n].segments[i] \in Stored'
        /\ \A n \in Merges \ {m} : merge[n].running => merge'[n] = merge[n]
        /\ \A n \in Merges : ~merge'[n].running <=> merge'[n].segments = <<>>
    <3>1. \A e \in uncommitted' \cup committed' : e \in Stored' /\ IsEntry(e)
      BY <1>9, <2>1, <2>2
    <3> QED BY <1>2, <2>2, <2>3, <3>1, MergesKeep
  <2>5. Shape'
    BY <1>1, <1>2, <1>3, <1>9, <2>2, <2>3 DEF Shape, MergeStep
  <2>6. Formed'
    BY <1>1, <1>2, <1>5, <2>2, <2>4, FormedFollows DEF Formed
  <2>7. Finite'
    BY <1>1, <1>2, <1>9, <2>1, <2>2, FS_EmptySet DEF Finite
  <2>8. Idents'
    BY <1>1, <1>2, <1>9, <2>1, <2>2, <2>4 DEF Idents
  <2>9. Fresh'
    <3>1. \A n \in Merges : \A i \in DOMAIN merge'[n].segments : Known(merge'[n].segments[i].id, 1)
      BY <2>2, <2>4 DEF Known
    <3> QED BY <1>1, <1>2, <1>5, <2>2, <3>1, FreshFollows
  <2>10. Waiting'
    BY <1>1, <1>2, <1>5, <1>6, <2>1, <2>4, WaitingFollows
  <2>11. \A x \in Stored' : \A d \in x.docs : \E y \in Stored : d \in y.docs
    BY <1>7, <2>1, <2>2
  <2>12. Apart' /\ Counted'
    BY <1>8, <2>11
  <2>13. Settled'
    BY <1>1, <1>2, <1>3, <1>8, <1>9, <2>1, <2>11 DEF Settled
  <2>14. Quietly'
    BY <1>1, <1>2, <2>3 DEF Quietly, Shape
  <2> QED BY <2>5, <2>6, <2>7, <2>8, <2>9, <2>10, <2>12, <2>13, <2>14 DEF IInv
<1>10. CASE /\ SegmentIds(m) \subseteq ids(committed)
            /\ committed' = Replace(committed, m, entry)
            /\ updating' = [step |-> "save", opstamp |-> meta.opstamp, history |-> published, over |-> {m}]
            /\ UNCHANGED <<uncommitted, merge, stamper>>
  <2>1. /\ updating' \in Save /\ updating'.step = "save" /\ updating'.history = published /\ updating'.over = {m}
    <3>1. meta.opstamp \in Nat /\ published \subseteq Record
      BY <1>2 DEF Shape
    <3> QED BY <1>4, <1>10, <3>1 DEF Save
  <2>2. Copies' = {} /\ Stored' = committed' \cup uncommitted
    BY <1>10, <2>1 DEF Copies, Stored
  <2>3. /\ committed' \subseteq Entry /\ IsFiniteSet(committed') /\ \A x \in Stored' : IsEntry(x)
        /\ \A x \in committed' : \A d \in x.docs : \E y \in committed : d \in y.docs
        /\ \A x \in Stored' : Known(x.id, 1)
        /\ \A x, f \in Stored' : x.id = f.id => x = f
        /\ \A x, f \in Stored' : x.id # f.id => x.docs \cap f.docs = {}
        /\ \A x \in committed' : \A y \in uncommitted : x.id # y.id
        /\ \A n \in Merges : \A i \in DOMAIN merge[n].segments :
             \A e \in Stored' : e.id = merge[n].segments[i].id => e.docs = merge[n].segments[i].docs
    <3>1. Registers(committed, uncommitted)
      BY DEF Registers
    <3>2. Swapped(committed, uncommitted, Replace(committed, m, entry))
      BY <1>3, <1>4, <1>10, <3>1, ReplaceFacts
    <3> QED BY <1>10, <2>2, <3>2 DEF Swapped
  <2>5. Shape'
    BY <1>1, <1>2, <1>3, <1>10, <2>1, <2>3 DEF Shape
  <2>6. Formed'
    BY <1>1, <1>2, <1>5, <1>10, <2>3, FormedFollows DEF Formed
  <2>7. Finite'
    BY <1>1, <1>2, <1>10, <2>2, <2>3, FS_EmptySet DEF Finite
  <2>8. Idents'
    BY <1>1, <1>2, <1>10, <2>2, <2>3 DEF Idents
  <2>9. Fresh'
    <3>1. \A n \in Merges : \A i \in DOMAIN merge'[n].segments : Known(merge'[n].segments[i].id, 1)
      BY <1>10 DEF Known
    <3> QED BY <1>1, <1>2, <1>5, <2>3, <3>1, FreshFollows
  <2>10. Waiting'
    <3>1. merge[m].running /\ merge[m].advanced > Len(merge[m].segments)
      BY <1>4 DEF Written
    <3>2. \A n \in Merges : ~merge[n].running <=> merge[n].segments = <<>>
      BY <1>2 DEF Waiting
    <3> QED BY <1>1, <1>2, <1>5, <1>6, <1>10, <2>1, <3>1, <3>2, WaitingFollows
  <2>11. \A x \in Stored' : \A d \in x.docs : \E y \in Stored : d \in y.docs
    BY <1>7, <2>2, <2>3
  <2>12. Apart' /\ Counted'
    BY <1>8, <2>11
  <2>13. Settled'
    <3>1. \A e \in committed' : Below(e.docs, published)
      BY <1>2, <1>3, <2>3 DEF Settled, Below
    <3> QED BY <1>1, <1>2, <1>3, <1>8, <1>10, <2>1, <2>11, <3>1 DEF Settled
  <2>14. Quietly'
    BY <1>1, <1>2, <1>10, QuietlyFrame
  <2> QED BY <2>5, <2>6, <2>7, <2>8, <2>9, <2>10, <2>12, <2>13, <2>14 DEF IInv
<1>11. CASE merge' = Tracked({m}) /\ UNCHANGED <<registers, updating, stamper>>
  <2>1. Copies' = {} /\ Stored' = Stored
    BY <1>3, <1>11 DEF Copies, Stored, registers
  <2>2. MergeStep({m})
    BY <1>2, <1>11, TrackedFacts DEF MergeStep, Stays
  <2>3. /\ \A n \in Merges : \A i \in DOMAIN merge'[n].segments : IsEntry(merge'[n].segments[i])
        /\ \A n \in Merges : \A i \in DOMAIN merge'[n].segments :
              \A e \in Stored' : e.id = merge'[n].segments[i].id => e.docs = merge'[n].segments[i].docs
        /\ \A n \in Merges : \A i \in DOMAIN merge'[n].segments :
              \/ \E j \in DOMAIN merge[n].segments : merge'[n].segments[i] = merge[n].segments[j]
              \/ merge'[n].segments[i] \in Stored'
        /\ \A n \in Merges \ {m} : merge[n].running => merge'[n] = merge[n]
        /\ \A n \in Merges : ~merge'[n].running <=> merge'[n].segments = <<>>
    <3>1. /\ \A e \in uncommitted' \cup committed' : e \in Stored' /\ IsEntry(e)
          /\ \A x, f \in Stored' : x.id = f.id => x.docs = f.docs
          /\ \A n \in Merges : \A i \in DOMAIN merge[n].segments :
               \A e \in Stored' : e.id = merge[n].segments[i].id => e.docs = merge[n].segments[i].docs
      BY <1>2, <1>7, <1>11, <2>1 DEF Formed, Idents, registers
    <3> QED BY <1>2, <2>2, <3>1, MergesKeep
  <2>4. Shape'
    BY <1>1, <1>2, <1>3, <1>11, <2>2 DEF Shape, MergeStep, registers
  <2>5. Formed'
    BY <1>1, <1>2, <1>5, <2>1, <2>3, FormedFollows DEF Formed
  <2>6. Finite'
    BY <1>1, <1>2, <1>11, FiniteFrame
  <2>7. Idents'
    BY <1>1, <1>2, <1>3, <1>11, <2>1, <2>3 DEF Idents, registers
  <2>8. Fresh'
    <3>1. \A x \in Stored' : Known(x.id, 1)
      BY <2>1 DEF Known
    <3>2. \A n \in Merges : \A i \in DOMAIN merge'[n].segments : Known(merge'[n].segments[i].id, 1)
      BY <2>1, <2>3 DEF Known
    <3> QED BY <1>1, <1>2, <1>5, <3>1, <3>2, FreshFollows
  <2>9. Waiting'
    BY <1>1, <1>2, <1>3, <1>5, <1>6, <1>11, <2>3, WaitingFollows
  <2>10. \A x \in Stored' : \A d \in x.docs : \E y \in Stored : d \in y.docs
    BY <2>1
  <2>11. Apart' /\ Counted'
    BY <1>8, <2>10
  <2>12. Settled'
    BY <1>1, <1>2, <1>3, <1>8, <1>11, <2>1, <2>10 DEF Settled, registers
  <2>13. Quietly'
    BY <1>1, <1>2, <1>11, QuietlyFrame
  <2> QED BY <2>4, <2>5, <2>6, <2>7, <2>8, <2>9, <2>11, <2>12, <2>13 DEF IInv
<1> QED BY <1>0, <1>9, <1>10, <1>11 DEF EndMerge

-----------------------------------------------------------------------------
(* Merging threads.                                                        *)
LEMMA MergeSegmentsKeeps == ASSUME IInv, NEW m \in Merges, MergeSegments(m) PROVE IInv'
<1> DEFINE C == {e \in committed : e.id \in ids(meta.segments)}
<1>1. PICK s \in Candidates(C) : start_merge(m, s, meta.opstamp, {})
  BY DEF MergeSegments
<1>2. /\ ~merge[m].running
      /\ UNCHANGED <<delete_queue, channel, client, next_id, committed_opstamp, commits, history,
                     stamper, worker, owner, tasks, updating, registers, meta, published>>
  BY DEF MergeSegments, outside
<1>3. Shape /\ Formed /\ Finite /\ Idents /\ Fresh /\ Waiting /\ Apart /\ Counted /\ Settled /\ Quietly
  BY DEF IInv
<1>4. C \subseteq committed /\ IsFiniteSet(C)
  BY <1>3, FS_Subset DEF Finite
<1> HIDE DEF C
<1>5. s \in Seq(C) /\ s # <<>> /\ \A i \in DOMAIN s : s[i] \in C
  BY <1>4, CandidateFacts
<1>6. committed \subseteq Entry /\ meta.opstamp \in Nat
  BY <1>3 DEF Shape
<1>7. s \in Seq(Entry)
  BY <1>4, <1>5, <1>6
<1>8. ~Tracked({})[m].running
  BY <1>2, <1>3, TrackedFacts
<1>9. MergeStep({})
  <2>1. meta.opstamp = meta'.opstamp /\ \A i \in DOMAIN s : s[i] \in committed'
    BY <1>2, <1>4, <1>5 DEF registers
  <2> QED BY <1>1, <1>3, <1>5, <1>6, <1>7, <1>8, <2>1, StartMerge
<1>10. Stored' = Stored /\ uncommitted' \cup committed' \subseteq Stored'
  BY <1>2 DEF Stored, Copies, registers
<1>11. /\ \A n \in Merges : \A i \in DOMAIN merge'[n].segments : IsEntry(merge'[n].segments[i])
       /\ \A n \in Merges : \A i \in DOMAIN merge'[n].segments :
             \A e \in Stored' : e.id = merge'[n].segments[i].id => e.docs = merge'[n].segments[i].docs
       /\ \A n \in Merges : \A i \in DOMAIN merge'[n].segments :
             \/ \E j \in DOMAIN merge[n].segments : merge'[n].segments[i] = merge[n].segments[j]
             \/ merge'[n].segments[i] \in Stored'
       /\ \A n \in Merges : merge[n].running => merge'[n] = merge[n]
       /\ \A n \in Merges : ~merge'[n].running <=> merge'[n].segments = <<>>
  <2>1. /\ \A e \in uncommitted' \cup committed' : e \in Stored' /\ IsEntry(e)
        /\ \A x, f \in Stored' : x.id = f.id => x.docs = f.docs
        /\ \A n \in Merges : \A i \in DOMAIN merge[n].segments :
             \A e \in Stored' : e.id = merge[n].segments[i].id => e.docs = merge[n].segments[i].docs
    BY <1>3, <1>10 DEF Formed, Idents
  <2>2. Merges \ {} = Merges
    OBVIOUS
  <2> QED BY <1>3, <1>9, <2>1, <2>2, MergesKeep
<1>12. Shifted(0)
  <2>1. tasks \in Seq(Task)
    BY <1>3 DEF Shape
  <2> QED BY <1>2, <2>1 DEF Shifted
<1>13. Shape'
  BY <1>2, <1>3, <1>9 DEF Shape, MergeStep, registers
<1>14. Formed'
  BY <1>2, <1>3, <1>10, <1>11, <1>12, FormedFollows DEF Formed
<1>15. Idents'
  BY <1>2, <1>3, <1>10, <1>11 DEF Idents, Copies, registers
<1>16. Fresh'
  <2>1. \A x \in Stored' : Known(x.id, 0)
    BY <1>10 DEF Known
  <2>2. \A n \in Merges : \A i \in DOMAIN merge'[n].segments : Known(merge'[n].segments[i].id, 0)
    BY <1>10, <1>11 DEF Known
  <2> QED BY <1>2, <1>3, <1>12, <2>1, <2>2, FreshFollows
<1>17. Waiting'
  <2>1. \A k \in DOMAIN tasks : tasks[k].kind = "end_merge" => merge'[tasks[k].merge] = merge[tasks[k].merge]
    BY <1>3, <1>11, TaskFacts DEF Waiting, Written
  <2>2. updating.step = "save" => \A n \in updating.over :
           n \in Merges /\ merge[n].running /\ merge[n].advanced > Len(merge[n].segments)
    BY <1>3, UpdateFacts DEF Waiting
  <2>3. updating'.step = "save" => \A n \in updating'.over :
           merge'[n].running /\ merge'[n].advanced > Len(merge'[n].segments)
    BY <1>2, <1>11, <2>2
  <2>4. \A k \in DOMAIN tasks' : tasks'[k].kind = "end_merge" =>
           /\ merge'[tasks'[k].merge] = merge[tasks'[k].merge]
           /\ updating'.step = "save" => tasks'[k].merge \notin updating'.over
    BY <1>2, <1>3, <2>1 DEF Waiting
  <2> QED BY <1>2, <1>3, <1>11, <1>12, <2>3, <2>4, WaitingFollows
<1>18. Finite' /\ Apart' /\ Counted' /\ Settled' /\ Quietly'
  BY <1>2, <1>3, FiniteFrame, ApartFrame, CountedFrame, SettledFrame, QuietlyFrame
<1> QED BY <1>13, <1>14, <1>15, <1>16, <1>17, <1>18 DEF IInv

LEMMA MergeFacts ==
  ASSUME Shape, NEW m \in Merges
  PROVE  /\ merge[m] \in Merge /\ merge[m].segments \in Seq(Entry) /\ merge[m].target \in Nat /\ merge[m].advanced \in Nat
         /\ Len(merge[m].segments) \in Nat /\ DOMAIN merge[m].segments = 1 .. Len(merge[m].segments)
         /\ \A i \in DOMAIN merge[m].segments : merge[m].segments[i] \in Entry
<1>1. merge[m] \in Merge
  BY DEF Shape
<1>2. merge[m].segments \in Seq(Entry) /\ merge[m].target \in Nat /\ merge[m].advanced \in Nat
  BY <1>1 DEF Merge
<1> QED BY <1>1, <1>2

LEMMA MergeAdvanceFacts ==
  ASSUME Shape, Formed, NEW m \in Merges, MergeAdvance(m)
  PROVE  LET k == merge[m].advanced + 1
         IN /\ k \in DOMAIN merge[m].segments /\ merge' \in [Merges -> Merge]
            /\ \A n \in Merges \ {m} : merge'[n] = merge[n]
            /\ merge'[m].running /\ merge[m].running /\ merge'[m].target = merge[m].target /\ merge'[m].advanced = k
            /\ Len(merge'[m].segments) = Len(merge[m].segments)
            /\ DOMAIN merge'[m].segments = DOMAIN merge[m].segments
            /\ \A i \in DOMAIN merge[m].segments :
                 merge'[m].segments[i] = IF i = k THEN advance_deletes(merge[m].segments[k], merge[m].target)
                                         ELSE merge[m].segments[i]
            /\ \A i \in DOMAIN merge[m].segments :
                 /\ IsEntry(merge'[m].segments[i]) /\ merge'[m].segments[i].id = merge[m].segments[i].id
                 /\ merge'[m].segments[i].docs = merge[m].segments[i].docs
<1> DEFINE k == merge[m].advanced + 1
<1>1. /\ merge[m] \in Merge /\ merge[m].segments \in Seq(Entry) /\ merge[m].target \in Nat /\ merge[m].advanced \in Nat
      /\ Len(merge[m].segments) \in Nat /\ DOMAIN merge[m].segments = 1 .. Len(merge[m].segments)
      /\ \A i \in DOMAIN merge[m].segments : merge[m].segments[i] \in Entry
  BY MergeFacts
<1>2. merge[m].running /\ merge[m].advanced < Len(merge[m].segments)
  BY DEF MergeAdvance, Merging
<1>3. k \in DOMAIN merge[m].segments /\ k \in Nat
  BY <1>1, <1>2
<1>4. PICK a : a = advance_deletes(merge[m].segments[k], merge[m].target)
  OBVIOUS
<1>5. a \in Entry /\ IsEntry(a) /\ a.id = merge[m].segments[k].id /\ a.docs = merge[m].segments[k].docs
  <2>1. merge[m].segments[k] \in Entry /\ IsEntry(merge[m].segments[k])
    BY <1>1, <1>3 DEF Formed
  <2> QED BY <1>1, <1>4, <2>1, Advance
<1>6. PICK s : s = [merge[m].segments EXCEPT ![k] = a]
  OBVIOUS
<1>7. s \in Seq(Entry) /\ Len(s) = Len(merge[m].segments) /\ DOMAIN s = DOMAIN merge[m].segments
      /\ \A i \in DOMAIN merge[m].segments : s[i] = IF i = k THEN a ELSE merge[m].segments[i]
  BY <1>1, <1>3, <1>5, <1>6
<1>8. merge' = [merge EXCEPT ![m].advanced = k, ![m].segments[k] = advance_deletes(@, merge[m].target)]
  BY DEF MergeAdvance
<1>9. merge \in [Merges -> Merge]
  BY DEF Shape
<1>10. merge' = [merge EXCEPT ![m] = [merge[m] EXCEPT !.advanced = k, !.segments = s]]
  BY <1>4, <1>6, <1>8, <1>9, <1>1 DEF Merge
<1> HIDE DEF k
<1>11. /\ merge' \in [Merges -> Merge] /\ \A n \in Merges \ {m} : merge'[n] = merge[n]
       /\ merge'[m].running /\ merge'[m].target = merge[m].target /\ merge'[m].advanced = k /\ merge'[m].segments = s
  BY <1>1, <1>2, <1>3, <1>7, <1>9, <1>10 DEF Merge
<1>12. \A i \in DOMAIN merge[m].segments : IsEntry(merge[m].segments[i])
  BY DEF Formed
<1>13. \A i \in DOMAIN merge[m].segments :
                 /\ IsEntry(s[i]) /\ s[i].id = merge[m].segments[i].id /\ s[i].docs = merge[m].segments[i].docs
  BY <1>5, <1>7, <1>12
<1> QED BY <1>2, <1>3, <1>4, <1>7, <1>11, <1>13 DEF k

LEMMA MergeAdvanceKeeps == ASSUME IInv, NEW m \in Merges, MergeAdvance(m) PROVE IInv'
<1>1. UNCHANGED <<delete_queue, channel, client, next_id, committed_opstamp, commits, history,
                  stamper, worker, owner, tasks, updating, registers, meta, published>>
  BY DEF MergeAdvance, outside
<1>2. Shape /\ Formed /\ Finite /\ Idents /\ Fresh /\ Waiting /\ Apart /\ Counted /\ Settled /\ Quietly
  BY DEF IInv
<1>3. /\ merge' \in [Merges -> Merge] /\ \A n \in Merges \ {m} : merge'[n] = merge[n]
      /\ merge'[m].running /\ DOMAIN merge'[m].segments = DOMAIN merge[m].segments
      /\ \A i \in DOMAIN merge[m].segments :
           /\ IsEntry(merge'[m].segments[i]) /\ merge'[m].segments[i].id = merge[m].segments[i].id
           /\ merge'[m].segments[i].docs = merge[m].segments[i].docs
  BY <1>2, MergeAdvanceFacts
<1>4. ~(merge[m].advanced > Len(merge[m].segments))
  BY <1>2, MergeFacts DEF MergeAdvance, Merging
<1>5. \A n \in Merges : \A i \in DOMAIN merge'[n].segments :
        \E j \in DOMAIN merge[n].segments : merge'[n].segments[i].id = merge[n].segments[j].id
                                            /\ merge'[n].segments[i].docs = merge[n].segments[j].docs
  BY <1>3
<1>6. Stored' = Stored /\ Copies' = Copies
  BY <1>1 DEF Stored, Copies, registers
<1>7. Shifted(0)
  <2>1. tasks \in Seq(Task)
    BY <1>2 DEF Shape
  <2> QED BY <1>1, <2>1 DEF Shifted
<1>8. Shape'
  BY <1>1, <1>2, <1>3 DEF Shape, registers
<1>9. Formed'
  <2>1. \A n \in Merges : \A i \in DOMAIN merge'[n].segments : IsEntry(merge'[n].segments[i])
    BY <1>2, <1>3 DEF Formed
  <2> QED BY <1>1, <1>2, <1>6, <1>7, <2>1, FormedFollows DEF Formed
<1>10. Idents'
  <2>1. \A n \in Merges : \A i \in DOMAIN merge'[n].segments :
          \A e \in Stored : e.id = merge'[n].segments[i].id => e.docs = merge'[n].segments[i].docs
    BY <1>2, <1>5 DEF Idents
  <2> QED BY <1>1, <1>2, <1>6, <2>1 DEF Idents, registers
<1>11. Fresh'
  <2>1. \A x \in Stored' : Known(x.id, 0)
    BY <1>6 DEF Known
  <2>2. \A n \in Merges : \A i \in DOMAIN merge'[n].segments : Known(merge'[n].segments[i].id, 0)
    BY <1>5 DEF Known
  <2> QED BY <1>1, <1>2, <1>7, <2>1, <2>2, FreshFollows
<1>12. Waiting'
  <2>1. \A k \in DOMAIN tasks : tasks[k].kind = "end_merge" => tasks[k].merge \in Merges \ {m}
    BY <1>2, <1>4, TaskFacts DEF Waiting, Written
  <2>2. updating.step = "save" => \A n \in updating.over :
           n \in Merges \ {m} /\ merge[n].running /\ merge[n].advanced > Len(merge[n].segments)
    BY <1>2, <1>4, UpdateFacts DEF Waiting
  <2>3. updating'.step = "save" => \A n \in updating'.over :
           merge'[n].running /\ merge'[n].advanced > Len(merge'[n].segments)
    BY <1>1, <1>3, <2>2
  <2>4. \A k \in DOMAIN tasks' : tasks'[k].kind = "end_merge" =>
           /\ merge'[tasks'[k].merge] = merge[tasks'[k].merge]
           /\ updating'.step = "save" => tasks'[k].merge \notin updating'.over
    BY <1>1, <1>2, <1>3, <2>1 DEF Waiting
  <2>5. \A n \in Merges : ~merge'[n].running <=> merge'[n].segments = <<>>
    <3>1. merge'[m].segments # <<>>
      BY <1>2, <1>3, MergeAdvanceFacts
    <3> QED BY <1>2, <1>3, <3>1 DEF Waiting
  <2> QED BY <1>1, <1>2, <1>7, <2>3, <2>4, <2>5, WaitingFollows
<1>13. Finite' /\ Apart' /\ Counted' /\ Settled' /\ Quietly'
  BY <1>1, <1>2, FiniteFrame, ApartFrame, CountedFrame, SettledFrame, QuietlyFrame
<1> QED BY <1>8, <1>9, <1>10, <1>11, <1>12, <1>13 DEF IInv

(* A merge that is done queues its task; entry is None when nothing is left. *)
LEMMA ScheduledKeeps ==
  ASSUME IInv, NEW m \in Merges, merge[m].running, merge[m].advanced =< Len(merge[m].segments),
         NEW entry \in Entry \cup {None}, Scheduled(m, entry),
         next_id' = next_id \/ next_id' = next_id + 1,
         entry # None => /\ next_id' = next_id + 1 /\ entry.id = next_id /\ IsEntry(entry)'
                         /\ \A d \in entry.docs : \E i \in DOMAIN merge[m].segments : d \in merge[m].segments[i].docs,
         UNCHANGED <<delete_queue, channel, client, committed_opstamp, commits, history,
                     stamper, worker, owner, updating, registers, meta, published>>
  PROVE  IInv'
<1>1. Shape /\ Formed /\ Finite /\ Idents /\ Fresh /\ Waiting /\ Apart /\ Counted /\ Settled /\ Quietly
  BY DEF IInv
<1> DEFINE t == EndMergeTask(m, entry)
<1>2. t \in Task /\ t.kind = "end_merge" /\ t.merge = m /\ t.entry = entry
  BY DEF EndMergeTask, Task, MergeTask
<1>3. tasks' = Append(tasks, t) /\ merge' = [merge EXCEPT ![m].advanced = Len(merge[m].segments) + 1]
  BY DEF Scheduled
<1> HIDE DEF t
<1> DEFINE n == Len(tasks) + 1
<1>4. /\ tasks' \in Seq(Task)
      /\ \A k \in DOMAIN tasks : k \in DOMAIN tasks' /\ tasks'[k] = tasks[k] /\ k # n
      /\ n \in DOMAIN tasks' /\ tasks'[n] = t
      /\ \A k \in DOMAIN tasks' : (k \in DOMAIN tasks /\ tasks'[k] = tasks[k]) \/ (k = n /\ tasks'[k] = t)
      /\ DOMAIN tasks' = 1 .. n /\ DOMAIN tasks = 1 .. n - 1 /\ n \in Nat
  BY <1>1, <1>2, <1>3, TaskAppended
<1> HIDE DEF n
<1>5. Len(merge[m].segments) \in Nat /\ merge[m].advanced \in Nat /\ merge \in [Merges -> Merge]
  BY <1>1, MergeFacts DEF Shape
<1>6. /\ merge' \in [Merges -> Merge] /\ \A x \in Merges \ {m} : merge'[x] = merge[x]
      /\ merge'[m].segments = merge[m].segments /\ merge'[m].running /\ merge'[m].target = merge[m].target
      /\ merge'[m].advanced = Len(merge[m].segments) + 1
  <2>1. PICK x \in Nat : x = Len(merge[m].segments) + 1
    BY <1>5
  <2>2. merge' = [merge EXCEPT ![m] = [merge[m] EXCEPT !.advanced = x]]
    BY <1>3, <2>1
  <2>3. merge[m] \in Merge
    BY <1>5
  <2>4. PICK r : r = [merge[m] EXCEPT !.advanced = x]
    OBVIOUS
  <2>5. r \in Merge /\ r.segments = merge[m].segments /\ r.target = merge[m].target /\ r.advanced = x
    BY <2>3, <2>4 DEF Merge
  <2>6. r.running
    BY <2>3, <2>4, Zenon DEF Merge
  <2> QED BY <1>5, <2>1, <2>2, <2>4, <2>5, <2>6
<1>7. \A x \in Merges : merge'[x].segments = merge[x].segments /\ (merge'[x].running <=> merge[x].running)
  BY <1>6
<1>8. next_id \in Nat \ {0} /\ QueueLen \in Nat /\ next_id =< next_id' /\ next_id' \in Nat \ {0}
  BY <1>1, QueueFacts DEF Shape
<1>9. Shape'
  BY <1>1, <1>4, <1>6, <1>8 DEF Shape, registers
<1>10. Stored' = Stored /\ Copies' = Copies /\ QueueLen' = QueueLen
  BY DEF Stored, Copies, registers, QueueLen
<1>11. \A x : IsEntry(x) => IsEntry(x)'
  BY <1>1, <1>8, <1>9, <1>10, EntryKeeps
<1>12. \A k \in DOMAIN tasks' : Carries(k)' =>
         \/ k \in DOMAIN tasks /\ Carries(k) /\ tasks'[k] = tasks[k] /\ k # n
         \/ k = n /\ entry # None /\ tasks'[k].entry = entry
  BY <1>2, <1>4 DEF Carries
<1>13. \A k \in DOMAIN tasks' : Carries(k)' => IsEntry(tasks[k].entry)'
  <2> SUFFICES ASSUME NEW k \in DOMAIN tasks', Carries(k)' PROVE IsEntry(tasks[k].entry)'
    OBVIOUS
  <2>1. PICK x : x = tasks'[k].entry
    OBVIOUS
  <2>2. IsEntry(x)'
    BY <1>1, <1>11, <1>12, <2>1 DEF Formed
  <2> QED BY <2>1, <2>2 DEF IsEntry
<1>14. Formed'
  <2>1. \A e \in Stored' : IsEntry(e)'
    BY <1>1, <1>10, <1>11 DEF Formed
  <2>2. \A x \in Merges : \A i \in DOMAIN merge'[x].segments : IsEntry(merge[x].segments[i])'
    <3> SUFFICES ASSUME NEW x \in Merges, NEW i \in DOMAIN merge[x].segments PROVE IsEntry(merge[x].segments[i])'
      BY <1>7
    <3>1. PICK e : e = merge[x].segments[i]
      OBVIOUS
    <3>2. IsEntry(e)' /\ merge'[x].segments[i] = e
      BY <1>1, <1>7, <1>11, <3>1 DEF Formed
    <3> QED BY <3>2 DEF IsEntry
  <2>3. \A w \in Workers : /\ worker'[w].cursor =< QueueLen'
                           /\ worker'[w].pc = "schedule" => worker'[w].entry \in Entry /\ IsEntry(worker[w].entry)'
    <3>1. \A w \in Workers : worker[w].pc = "schedule" => IsEntry(worker[w].entry)'
      <4> SUFFICES ASSUME NEW w \in Workers, worker[w].pc = "schedule" PROVE IsEntry(worker[w].entry)'
        OBVIOUS
      <4>1. PICK e : e = worker[w].entry
        OBVIOUS
      <4>2. IsEntry(e)' /\ worker'[w].entry = e
        BY <1>1, <1>11, <4>1 DEF Formed
      <4> QED BY <4>2 DEF IsEntry
    <3> QED BY <1>1, <1>10, <3>1 DEF Formed
  <2>4. \A s \in meta'.segments : /\ s.id \in 1 .. next_id' - 1
                                  /\ s.del # None => s.del.alive \subseteq s.docs
    BY <1>1, <1>8 DEF Formed
  <2> QED BY <1>13, <2>1, <2>2, <2>3, <2>4 DEF Formed
<1>15. Finite' /\ Apart' /\ Counted' /\ Quietly'
  BY <1>1, FiniteFrame, ApartFrame, CountedFrame, QuietlyFrame
<1>16. Idents'
  BY <1>1, <1>7, <1>10 DEF Idents, registers
<1>17. \A x : IsEntry(x) => x.id # next_id
  BY <1>8 DEF IsEntry
<1>18. Fresh'
  <2>1. entry # None =>
          /\ \A x \in Stored : x.id # entry.id
          /\ \A x \in Merges : \A i \in DOMAIN merge[x].segments : merge[x].segments[i].id # entry.id
          /\ \A v \in Workers : worker[v].pc = "schedule" => worker[v].entry.id # entry.id
          /\ \A k \in DOMAIN tasks : Carries(k) => tasks[k].entry.id # entry.id
    BY <1>1, <1>17 DEF Formed
  <2>2. \A w \in Workers : worker[w].pc = "schedule" =>
          /\ \A e \in Stored : e.id # worker[w].entry.id
          /\ \A x \in Merges : \A i \in DOMAIN merge'[x].segments : merge'[x].segments[i].id # worker[w].entry.id
          /\ \A v \in Workers : worker[v].pc = "schedule" /\ v # w => worker[v].entry.id # worker[w].entry.id
          /\ \A k \in DOMAIN tasks' : Carries(k)' => tasks'[k].entry.id # worker[w].entry.id
    BY <1>1, <1>7, <1>12, <2>1 DEF Fresh
  <2>3. \A k \in DOMAIN tasks' : Carries(k)' =>
          /\ \A e \in Stored : e.id # tasks'[k].entry.id
          /\ \A x \in Merges : \A i \in DOMAIN merge'[x].segments : merge'[x].segments[i].id # tasks'[k].entry.id
          /\ \A j \in DOMAIN tasks' : Carries(j)' /\ j # k => tasks'[j].entry.id # tasks'[k].entry.id
    BY <1>1, <1>7, <1>12, <2>1 DEF Fresh
  <2> QED BY <1>10, <2>2, <2>3 DEF Fresh
<1>19. ~(merge[m].advanced > Len(merge[m].segments))
  BY <1>5
<1>20. Waiting'
  <2>1. \A k \in DOMAIN tasks : tasks[k].kind = "end_merge" => tasks[k].merge \in Merges \ {m} /\ Written(tasks[k])
    BY <1>1, <1>19, TaskFacts DEF Waiting, Written
  <2>2. updating.step = "save" => \A x \in updating.over :
           x \in Merges \ {m} /\ merge[x].running /\ merge[x].advanced > Len(merge[x].segments)
    BY <1>1, <1>19, UpdateFacts DEF Waiting
  <2>3. updating'.step = "save" => \A x \in updating'.over :
           merge'[x].running /\ merge'[x].advanced > Len(merge'[x].segments)
    BY <1>6, <2>2
  <2>4. \A k \in DOMAIN tasks' : tasks'[k].kind = "end_merge" =>
           /\ \A j \in DOMAIN tasks' : tasks'[j].kind = "end_merge" /\ j # k => tasks'[j].merge # tasks'[k].merge
           /\ updating'.step = "save" => tasks'[k].merge \notin updating'.over
    BY <1>1, <1>2, <1>4, <2>1, <2>2 DEF Waiting
  <2>5. \A k \in DOMAIN tasks' : tasks'[k].kind = "end_merge" => Written(tasks[k])'
    <3> SUFFICES ASSUME NEW k \in DOMAIN tasks', tasks'[k].kind = "end_merge" PROVE Written(tasks[k])'
      OBVIOUS
    <3>1. CASE k = n
      <4>1. tasks'[k].merge = m /\ tasks'[k].entry = entry
        BY <1>2, <1>4, <3>1
      <4>2. merge'[m].advanced > Len(merge'[m].segments)
        BY <1>5, <1>6
      <4> QED BY <1>6, <4>1, <4>2 DEF Written
    <3>2. CASE k # n
      <4>1. k \in DOMAIN tasks /\ tasks'[k] = tasks[k]
        BY <1>4, <3>2
      <4>2. merge'[tasks[k].merge] = merge[tasks[k].merge] /\ Written(tasks[k])
        BY <1>6, <2>1, <4>1
      <4> QED BY <4>1, <4>2 DEF Written
    <3> QED BY <3>1, <3>2
  <2>6. \A x \in Merges : ~merge'[x].running <=> merge'[x].segments = <<>>
    BY <1>1, <1>7 DEF Waiting
  <2>7. \A k \in DOMAIN tasks' : tasks'[k].kind = "add_segment" => k \in DOMAIN tasks /\ tasks'[k] = tasks[k]
    BY <1>2, <1>4
  <2>8. \A k \in DOMAIN tasks' : tasks'[k].kind = "add_segment" =>
       /\ worker'[tasks'[k].worker].pc = "wait" /\ tasks'[k].entry.docs = worker'[tasks'[k].worker].docs
       /\ \A j \in DOMAIN tasks' : tasks'[j].kind = "add_segment" /\ j # k => tasks'[j].worker # tasks'[k].worker
    BY <1>1, <2>7 DEF Waiting
  <2>9. \A w \in Workers : /\ worker'[w].pc \in {"peek", "exit"} => worker'[w].docs = {}
                           /\ worker'[w].pc = "schedule" => worker'[w].entry.docs = worker'[w].docs
    BY <1>1 DEF Waiting
  <2> QED BY <2>3, <2>4, <2>5, <2>6, <2>8, <2>9 DEF Waiting
<1>21. Settled'
  <2>1. \A k \in DOMAIN tasks' : tasks'[k].kind = "commit" =>
          /\ k \in DOMAIN tasks /\ tasks'[k] = tasks[k]
          /\ \A j \in 1 .. k - 1 : tasks'[j] = tasks[j]
    BY <1>2, <1>4
  <2> QED BY <1>1, <1>10, <2>1 DEF Settled, registers
<1> QED BY <1>9, <1>14, <1>15, <1>16, <1>18, <1>20, <1>21 DEF IInv

LEMMA MergeEmptyKeeps == ASSUME IInv, NEW m \in Merges, MergeEmpty(m) PROVE IInv'
<1>1. /\ merge[m].running /\ merge[m].advanced < Len(merge[m].segments) /\ Scheduled(m, None)
      /\ UNCHANGED <<delete_queue, channel, client, next_id, committed_opstamp, commits, history,
                     stamper, worker, owner, updating, registers, meta, published>>
  BY DEF MergeEmpty, Merging, outside
<1>2. merge[m].advanced =< Len(merge[m].segments) /\ None \in Entry \cup {None}
  BY <1>1, MergeFacts DEF IInv
<1> QED BY <1>1, <1>2, ScheduledKeeps

LEMMA MergeWriteFacts ==
  ASSUME IInv, NEW m \in Merges, MergeWrite(m)
  PROVE  \E entry \in Entry :
           /\ Scheduled(m, entry) /\ next_id' = next_id + 1 /\ entry.id = next_id
           /\ entry.docs = UNION {alive_docs(merge[m].segments[i]) : i \in DOMAIN merge[m].segments}
           /\ entry.del = None /\ entry.alive_bitset = entry.docs /\ entry.cursor = merge[m].segments[1].cursor
           /\ entry.docs \subseteq Docs /\ entry.cursor \in 0 .. QueueLen
           /\ \A d \in entry.docs : \E i \in DOMAIN merge[m].segments :
                d \in merge[m].segments[i].docs /\ d \in alive_docs(merge[m].segments[i])
           /\ 1 \in DOMAIN merge[m].segments
<1> DEFINE segments == merge[m].segments
<1> DEFINE docs == UNION {alive_docs(segments[i]) : i \in DOMAIN segments}
<1> DEFINE entry == NewEntry(next_id, docs, segments[1].cursor, docs)
<1>1. Shape /\ Formed /\ Waiting
  BY DEF IInv
<1>2. /\ segments \in Seq(Entry) /\ Len(segments) \in Nat /\ DOMAIN segments = 1 .. Len(segments)
      /\ \A i \in DOMAIN segments : segments[i] \in Entry /\ IsEntry(segments[i])
  BY <1>1, MergeFacts DEF Formed
<1>3. segments # <<>>
  BY <1>1 DEF MergeWrite, Waiting
<1>4. 1 \in DOMAIN segments
  <2> HIDE DEF segments
  <2> QED BY <1>2, <1>3
<1>5. \A i \in DOMAIN segments : alive_docs(segments[i]) \subseteq segments[i].docs /\ segments[i].docs \subseteq Docs
  BY <1>2, AliveInDocs DEF IsEntry
<1>6. /\ docs \subseteq Docs
      /\ \A d \in docs : \E i \in DOMAIN segments : d \in segments[i].docs /\ d \in alive_docs(segments[i])
  <2> HIDE DEF segments
  <2> QED BY <1>5
<1>7. segments[1].cursor \in 0 .. QueueLen /\ segments[1].cursor \in Nat
  BY <1>1, <1>2, <1>4, QueueFacts DEF IsEntry
<1>8. next_id \in Nat
  BY <1>1 DEF Shape
<1>9. Scheduled(m, entry) /\ next_id' = next_id + 1
  BY DEF MergeWrite, delete_cursor
<1>10. /\ entry \in Entry /\ entry.id = next_id /\ entry.docs = docs /\ entry.del = None
       /\ entry.alive_bitset = docs /\ entry.cursor = segments[1].cursor
  <2> HIDE DEF docs, segments
  <2> QED BY <1>6, <1>7, <1>8, NewEntryFacts
<1> HIDE DEF entry
<1> QED BY <1>4, <1>6, <1>7, <1>9, <1>10

LEMMA MergeWriteKeeps == ASSUME IInv, NEW m \in Merges, MergeWrite(m) PROVE IInv'
<1>1. PICK entry \in Entry :
           /\ Scheduled(m, entry) /\ next_id' = next_id + 1 /\ entry.id = next_id
           /\ entry.del = None /\ entry.alive_bitset = entry.docs
           /\ entry.docs \subseteq Docs /\ entry.cursor \in 0 .. QueueLen
           /\ \A d \in entry.docs : \E i \in DOMAIN merge[m].segments : d \in merge[m].segments[i].docs
  BY MergeWriteFacts
<1>2. /\ merge[m].running /\ merge[m].advanced = Len(merge[m].segments)
      /\ UNCHANGED <<delete_queue, channel, client, committed_opstamp, commits, history,
                     stamper, worker, owner, updating, registers, meta, published>>
  BY DEF MergeWrite
<1>3. merge[m].advanced =< Len(merge[m].segments) /\ next_id \in Nat \ {0}
  BY <1>2, MergeFacts DEF IInv, Shape
<1>4. IsEntry(entry)'
  <2>1. entry.id \in 1 .. next_id' - 1 /\ entry.cursor \in 0 .. QueueLen'
    BY <1>1, <1>2, <1>3 DEF QueueLen
  <2> QED BY <1>1, <2>1 DEF IsEntry
<1> QED BY <1>1, <1>2, <1>3, <1>4, ScheduledKeeps

LEMMA StutterKeeps == ASSUME IInv, UNCHANGED vars PROVE IInv'
<1>1. UNCHANGED <<stamper, delete_queue, channel, client, worker, owner, tasks, updating, uncommitted,
          committed, merge, meta, committed_opstamp, next_id, commits, history, published>>
  BY DEF vars
<1>2. Shape'
  BY <1>1 DEF IInv, Shape
<1> QED BY <1>1, <1>2, FormedFrame, FiniteFrame, IdentsFrame, FreshFrame, WaitingFrame, ApartFrame,
           CountedFrame, SettledFrame, QuietlyFrame DEF IInv, registers

LEMMA NextKeeps == ASSUME IInv, [Next]_vars PROVE IInv'
<1>1. ASSUME NEW c \in Clients, ClientNext(c) PROVE IInv'
  BY <1>1, AddDocumentKeeps, DeleteTermKeeps, RunKeeps, DeleteAllKeeps, PushDeleteKeeps, SendBatchKeeps
     DEF ClientNext
<1>2. ASSUME NEW w \in Workers, WorkerNext(w) PROVE IInv'
  BY <1>2, PeekKeeps, SkipDeletesKeeps, CollectKeeps, FinalizeKeeps, ScheduleKeeps, ExitKeeps DEF WorkerNext
<1>3. ASSUME NEW m \in Merges, MergeSegments(m) \/ MergeNext(m) PROVE IInv'
  BY <1>3, MergeSegmentsKeeps, MergeEmptyKeeps, MergeAdvanceKeeps, MergeWriteKeeps DEF MergeNext
<1>4. CASE OwnerNext
  BY <1>4, PrepareCommitKeeps, JoinWorkersKeeps, ScheduleCommitKeeps, RollbackKeeps DEF OwnerNext
<1>5. CASE UpdaterNext
  BY <1>5, AddSegmentKeeps, PurgeDeletesKeeps, CommitSegmentsKeeps, SaveMetasKeeps, EndMergeKeeps DEF UpdaterNext
<1>6. CASE UNCHANGED vars
  BY <1>6, StutterKeeps
<1> QED BY <1>1, <1>2, <1>3, <1>4, <1>5, <1>6 DEF Next

\* The parts above hold together in every reachable state of the indexer, with
\* every call of index_writer.rs, task of segment_updater.rs and merge.
THEOREM IndexerInvariant == Spec => []IInv
<1>1. Init => IInv
  BY InitIInv
<1>2. IInv /\ [Next]_vars => IInv'
  BY NextKeeps
<1> QED BY <1>1, <1>2, PTL DEF Spec

\* The entries of the registers and of merges are well formed, a segment is in
\* one register only, and no cursor is past the end of the delete queue, also
\* after rollback has opened a new one (index_writer.rs, segment_updater.rs).
THEOREM IndexerTypeCorrect == Spec => []TypeOK
<1>1. IInv => TypeOK
  BY IInvTypeOK
<1> QED BY <1>1, IndexerInvariant, PTL

\* SegmentManager::commit, end_merge and remove_all_segments replace sets of
\* segments under running merges; no document is ever alive in two of them.
THEOREM DocumentInOneSegment == Spec => []NoDocumentTwice
<1>1. IInv => NoDocumentTwice
  BY IInvNoDocumentTwice
<1> QED BY <1>1, IndexerInvariant, PTL
=============================================================================
