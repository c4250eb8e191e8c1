--------------------------- MODULE ForkJoinCounts ---------------------------
(***************************************************************************)
(* The ground of the proofs about ForkJoin.tla, for any number of workers, *)
(* clients, calls, jobs and panics.                                        *)
(*                                                                         *)
(* Struct says how stacks, calls and jobs hang together. Counted says that *)
(* what is held of a call, in queues, frames and broadcasts to come, is    *)
(* what its latch still waits for, and that what is held of the pool is    *)
(* terminate_count. Each action is brought into one of a few forms (put a  *)
(* frame, push a job, take one, set a latch, return), and each form is     *)
(* shown to keep Struct and Counted. From both it follows that no frame    *)
(* goes before those who point into it: code that can name a scope of      *)
(* which nothing is held would be inside code of an earlier call that can  *)
(* name it too, and there is an earliest (EnvHeld).                        *)
(***************************************************************************)
EXTENDS ForkJoin, FiniteSetTheorems, WellFoundedInduction, TLAPS

AllKinds == JobKinds \cup CallKinds \cup {"client", "main", "terminator"}
AllPcs == UserPcs \cup WaitPcs \cup {"loop", "panicked", "set", "core", "notify", "terminate", "stop"}
JobSet == [kind : JobKinds, id : Nat, env : SUBSET Nat]
FrameSet == [kind : AllKinds, id : Nat, env : SUBSET Nat, pc : AllPcs, err : Nat,
             pend : JobSet \cup {NoJob}, todo : SUBSET Workers]
Values == Nat \cup {None}
CallSet == [owner : Threads, kind : CallKinds, set : BOOLEAN, count : Int,
            result : [Workers -> Values] \cup [{0} -> Values] \cup [{} -> Values],
            panic : Nat, seen : SUBSET Nat, out : Values]

Shape ==
  /\ stack \in [Threads -> Seq(FrameSet)]
  /\ deque \in [Workers -> Seq(JobSet)] /\ broadcasts \in [Workers -> Seq(JobSet)]
  /\ injected_jobs \in Seq(JobSet)
  /\ call \in Seq(CallSet)
  /\ terminate_count \in Int /\ terminate \in [Workers -> BOOLEAN]
  /\ started \subseteq Workers /\ stopped \subseteq started
  /\ pool \in {"building", "open", "failed", "dropped"}
  /\ clones \in [Foreign -> SUBSET Threads] /\ left \subseteq Foreign
  /\ spawns \in Nat /\ panics \in Nat

-----------------------------------------------------------------------------
\* What each kind of frame goes through.
KindPc(f) ==
  \/ f.kind = "client" /\ f.pc = "run"
  \/ f.kind = "main" /\ f.pc = "wait"
  \/ f.kind = "terminator" /\ f.pc \in {"terminate", "stop"}
  \/ f.kind = "join" /\ f.pc \in {"a", "loop", "recover", "wait_b", "inline"}
  \/ f.kind = "scope" /\ f.pc \in {"op", "panicked", "set", "core", "notify", "wait"}
  \/ f.kind \in {"install", "broadcast"} /\ f.pc = "wait"
  \/ f.kind \in StackJobs /\ f.pc \in {"run", "set", "core", "notify"}
  \/ f.kind = "scope_job" /\ f.pc \in {"run", "panicked", "set", "core", "notify"}
  \/ f.kind = "spawned" /\ f.pc \in {"run", "terminate", "stop"}

Rootless == {"client", "main", "terminator", "spawned"}

\* A job to be pushed is one of a scope in view, or is the broadcast's own.
PendOK(f) ==
  /\ f.todo # {} => f.pend # NoJob
  /\ f.pend # NoJob =>
       \/ /\ f.kind = "broadcast" /\ f.pend.kind = "broadcast_op" /\ f.pend.id = f.id /\ f.todo # {}
       \/ /\ f.pc \in UserPcs /\ f.err = 0
          /\ \/ f.pend.kind = "spawned" /\ f.pend.id = 0 /\ f.pend.env = {}
             \/ f.pend.kind = "scope_job" /\ f.pend.id \in f.env /\ f.pend.env \subseteq f.env

FrameOK(f) ==
  /\ KindPc(f) /\ PendOK(f)
  /\ f.kind \in Rootless <=> f.id = 0
  /\ f.kind \in Rootless => f.env = {}
  /\ f.id =< Len(call) /\ f.env \subseteq 1 .. Len(call)
  /\ f.err =< panics
  /\ f.pc \in {"panicked", "recover"} => f.err # 0
  /\ f.pc \notin UserPcs \cup {"panicked", "recover"} => f.err = 0

Framed == \A t \in Threads : \A i \in DOMAIN stack[t] : FrameOK(stack[t][i])

\* A frame and the one below it.
Above(t, f, g) ==
  \/ /\ f.kind \in CallKinds
     /\ g.pc \in UserPcs /\ g.pend = NoJob /\ g.id < f.id
     /\ \A o \in f.env : o \in g.env \/ (f.kind = "scope" /\ o = f.id)
  \/ f.kind \in JobKinds /\ g.pc \in WaitPcs \cup {"loop"} /\ g.pend = NoJob /\ t \in Workers
  \/ f.kind = "terminator" /\ g.kind = "client" /\ g.pend = NoJob /\ t = Main

Stacked ==
  \A t \in Threads :
    /\ stack[t] # <<>> => stack[t][1].kind = IF t \in Workers THEN "main" ELSE "client"
    /\ t \in Clients => stack[t] # <<>>
    /\ \A i \in DOMAIN stack[t] : i > 1 => Above(t, stack[t][i], stack[t][i - 1])

\* The frame of a call and its record.
IsCall(t, i, id) == stack[t][i].kind \in CallKinds /\ stack[t][i].id = id
Called ==
  /\ \A t \in Threads : \A i \in DOMAIN stack[t] : stack[t][i].kind \in CallKinds =>
       LET c == call[stack[t][i].id] IN c.owner = t /\ c.kind = stack[t][i].kind /\ c.out = None
  /\ \A t \in Threads : \A i, j \in DOMAIN stack[t] :
       stack[t][i].kind \in CallKinds /\ stack[t][j].kind \in CallKinds
         /\ stack[t][i].id = stack[t][j].id => i = j
  /\ \A id \in 1 .. Len(call) : call[id].out = None =>
       \E t \in Threads : \E i \in DOMAIN stack[t] : IsCall(t, i, id)
  /\ \A id \in 1 .. Len(call) : call[id].out # None => call[id].set \/ call[id].kind = "join"

-----------------------------------------------------------------------------
\* An environment has scopes, and what it has of the scopes around one of
\* them, the code around that one has too.
Lexical(env) ==
  /\ \A o \in env : call[o].kind = "scope"
  /\ \A t \in Threads : \A i \in DOMAIN stack[t] :
       stack[t][i].kind = "scope" /\ stack[t][i].id \in env =>
         \A o \in env : o < stack[t][i].id => o \in stack[t][i - 1].env

Rooted(id, env) ==
  \A t \in Threads : \A i \in DOMAIN stack[t] : IsCall(t, i, id) =>
    \A o \in env : o = id \/ o \in stack[t][i - 1].env

Of(kind) ==
  CASE kind = "join_b" -> "join" [] kind = "install_op" -> "install"
    [] kind = "broadcast_op" -> "broadcast" [] kind = "scope_job" -> "scope"

JobOK(j) ==
  /\ j.kind = "spawned" => j.id = 0 /\ j.env = {}
  /\ j.kind # "spawned" => j.id \in 1 .. Len(call) /\ call[j.id].kind = Of(j.kind) /\ Rooted(j.id, j.env)
  /\ j.env \subseteq 1 .. Len(call) /\ Lexical(j.env)

\* All queues as one function.
Names == {<<"deque", w>> : w \in Workers} \cup {<<"bcast", w>> : w \in Workers} \cup {<<"injected", 0>>}
Queue == [q \in Names |-> IF q[1] = "deque" THEN deque[q[2]]
                          ELSE IF q[1] = "bcast" THEN broadcasts[q[2]] ELSE injected_jobs]

Jobs ==
  /\ \A q \in Names : \A i \in DOMAIN Queue[q] :
       /\ JobOK(Queue[q][i])
       /\ q[1] = "bcast" => Queue[q][i].kind \in {"broadcast_op", "scope_job", "spawned"}
       /\ q[1] # "bcast" => Queue[q][i].kind # "broadcast_op"
  /\ \A t \in Threads : \A i \in DOMAIN stack[t] :
       /\ Lexical(stack[t][i].env)
       /\ stack[t][i].kind \in JobKinds => JobOK(stack[t][i])
       /\ stack[t][i].pend # NoJob => JobOK(stack[t][i].pend)

-----------------------------------------------------------------------------
\* A frame that holds what its call, or the pool, counts.
Token(f) ==
  \/ f.kind \in {"join_b", "install_op"} /\ f.pc \in {"run", "set", "core"}
  \/ f.kind \in {"scope", "scope_job", "broadcast_op", "spawned", "terminator"}
       /\ f.pc \in {"run", "op", "panicked", "set", "terminate"}
  \/ f.kind = "join" /\ f.pc = "inline"

\* What a frame holds: for itself, the job it has to push, and those of a
\* broadcast, which spawn_broadcast has yet to count.
Marks(f, k) ==
  {m \in {<<"self", 0>>} : Token(f) /\ k = <<"held", f.id>>}
  \cup {m \in {<<"pend", 0>>} : f.pend # NoJob /\ f.todo = {} /\ k = <<"held", f.pend.id>>}
  \cup {<<"todo", w>> : w \in {v \in f.todo :
          k = <<IF f.pend.kind = "broadcast_op" THEN "held" ELSE "owed", f.pend.id>>}}
InFrames(k) ==
  UNION {UNION {{<<t, i, m>> : m \in Marks(stack[t][i], k)} : i \in DOMAIN stack[t]} : t \in Threads}

\* The places in the queues.
At(s, k) == {i \in DOMAIN s : k = <<"held", s[i].id>>}
InQueues(k) == UNION {{<<q, i>> : i \in At(Queue[q], k)} : q \in Names}

Held(k) == Cardinality(InFrames(k)) + Cardinality(InQueues(k))
Counting == {"scope", "broadcast"}
Due(id) ==
  IF call[id].kind \in Counting THEN call[id].count
  ELSE IF call[id].set \/ call[id].out # None THEN 0 ELSE 1
Handle == IF pool \in {"building", "open"} THEN 1 ELSE 0

Finite == \A k : IsFiniteSet(InFrames(k))
\* What is held of a call is what it waits for; what is left of a broadcast
\* in a scope is counted with the jobs spawned.
Entry(id) ==
  /\ Held(<<"held", id>>) = Due(id)
  /\ call[id].kind \notin Counting => call[id].count = 1
  /\ call[id].kind \in Counting /\ call[id].set => call[id].count = 0
  /\ IF call[id].kind = "scope" THEN call[id].count + Held(<<"owed", id>>) =< 1 + spawns
                                ELSE call[id].count =< NumThreads
PoolEntry ==
  /\ terminate_count = Held(<<"held", 0>>) + Handle
  /\ terminate_count + Held(<<"owed", 0>>) =< 1 + spawns
Counted ==
  /\ \A id \in 1 .. Len(call) : Entry(id)
  /\ PoolEntry
  /\ Len(call) =< MaxCalls /\ spawns =< MaxSpawns /\ panics =< MaxPanics

\* The one that sets the latch of a scope or a broadcast.
Cored ==
  \A t \in Threads : \A i \in DOMAIN stack[t] :
    stack[t][i].pc = "core" /\ call[stack[t][i].id].kind \in Counting =>
      /\ ~call[stack[t][i].id].set /\ call[stack[t][i].id].count = 0
      /\ \A u \in Threads : \A j \in DOMAIN stack[u] :
           stack[u][j].pc = "core" /\ stack[u][j].id = stack[t][i].id => u = t

-----------------------------------------------------------------------------
\* The pool's threads, and its clients unless it is open.
Opened ==
  /\ \E k \in 0 .. NumThreads : started = 1 .. k /\ (pool = "building" => k < NumThreads)
  /\ \A w \in Workers \ started : stack[w] = <<>>
  /\ pool # "open" => \A c \in Clients :
       /\ stack[c][1].pend = NoJob
       /\ \/ Len(stack[c]) = 1
          \/ Len(stack[c]) = 2 /\ stack[c][2].kind = "terminator" /\ pool # "building"

Struct == Shape /\ Framed /\ Stacked /\ Called /\ Jobs /\ Opened
-----------------------------------------------------------------------------
(* Threads, numbers and sequences.                                           *)
LEMMA ThreadFacts ==
  /\ Workers \subseteq Nat \ {0} /\ IsFiniteSet(Workers) /\ Workers \cap Clients = {}
  /\ Threads = Workers \cup Clients /\ Main \in Clients /\ Foreign \subseteq Clients /\ Main \notin Foreign
  /\ None \notin Nat /\ NumThreads \in Nat \ {0} /\ Cardinality(Workers) = NumThreads
  /\ NumThreads \in Workers /\ Workers # {}
<1>1. NumThreads \in Nat \ {0} /\ None \notin Nat /\ (Foreign \cup {Main}) \cap (1 .. NumThreads) = {}
      /\ Main \notin Foreign
  BY ForkJoinAssumption
<1>2. 1 \in Int /\ NumThreads \in Int
  BY <1>1
<1>3. IsFiniteSet(1 .. NumThreads) /\ Cardinality(1 .. NumThreads) = IF 1 > NumThreads THEN 0 ELSE NumThreads - 1 + 1
  BY <1>2, FS_Interval
<1>4. Cardinality(1 .. NumThreads) = NumThreads
  BY <1>1, <1>3
<1> QED BY <1>1, <1>3, <1>4 DEF Workers, Threads, Clients

LEMMA NatLeast ==
  ASSUME NEW T, T \subseteq Nat, T # {}
  PROVE  \E x \in T : \A y \in T : x <= y
<1>1. \A x, y \in Nat : y < x => <<y, x>> \in OpToRel(<, Nat)
  BY DEF OpToRel
<1>2. \E R : IsWellFoundedOn(R, Nat) /\ \A x, y \in Nat : y < x => <<y, x>> \in R
  BY <1>1, NatLessThanWellFounded, Zenon
<1>3. PICK R : IsWellFoundedOn(R, Nat) /\ \A x, y \in Nat : y < x => <<y, x>> \in R
  BY <1>2
<1>4. PICK x \in T : \A y \in T : ~(<<y, x>> \in R)
  BY <1>3, WFMin
<1>5. ASSUME NEW y \in T PROVE x <= y
  <2>1. ~(y < x)
    BY <1>3, <1>4, Zenon
  <2> QED BY <2>1
<1> QED BY <1>5

LEMMA MinFacts ==
  ASSUME NEW T, T \subseteq Nat, T # {}
  PROVE  Min(T) \in T /\ \A y \in T : Min(T) <= y
  BY NatLeast DEF Min

-----------------------------------------------------------------------------
(* A step writes one frame of one thread, and takes away what is above it.   *)
Puts(t, n, f) ==
  /\ n \in 1 .. Len(stack[t]) + 1
  /\ Len(stack'[t]) = n
  /\ \A i \in 1 .. n - 1 : stack'[t][i] = stack[t][i]
  /\ stack'[t][n] = f
  /\ \A u \in Threads \ {t} : stack'[u] = stack[u]

LEMMA StackFacts ==
  ASSUME stack \in [Threads -> Seq(FrameSet)], NEW t \in Threads
  PROVE  /\ stack[t] \in Seq(FrameSet) /\ Len(stack[t]) \in Nat /\ DOMAIN stack[t] = 1 .. Len(stack[t])
         /\ stack[t] # <<>> <=> Len(stack[t]) > 0
         /\ stack[t] # <<>> => /\ Len(stack[t]) \in DOMAIN stack[t] /\ 1 \in DOMAIN stack[t]
                               /\ Top(t) = stack[t][Len(stack[t])] /\ Top(t) \in FrameSet
         /\ \A i \in DOMAIN stack[t] : stack[t][i] \in FrameSet /\ i \in Nat /\ i >= 1
<1>1. stack[t] \in Seq(FrameSet)
  OBVIOUS
<1> QED BY <1>1 DEF Top, Last

LEMMA SetTopPuts ==
  ASSUME Shape, NEW t \in Threads, stack[t] # <<>>, NEW f \in FrameSet, stack' = SetTop(t, f)
  PROVE  Puts(t, Len(stack[t]), f) /\ stack' \in [Threads -> Seq(FrameSet)]
<1>1. PICK s : s = stack[t]
  OBVIOUS
<1>2. s \in Seq(FrameSet) /\ s # <<>> /\ stack \in [Threads -> Seq(FrameSet)]
  BY <1>1 DEF Shape
<1>3. PICK r : r = [s EXCEPT ![Len(s)] = f]
  OBVIOUS
<1>4. r \in Seq(FrameSet) /\ Len(r) = Len(s) /\ r[Len(s)] = f /\ Len(s) \in Nat \ {0}
      /\ \A i \in 1 .. Len(s) - 1 : r[i] = s[i]
  BY <1>2, <1>3
<1>5. stack' = [stack EXCEPT ![t] = r]
  BY <1>1, <1>3 DEF SetTop
<1>6. stack'[t] = r /\ \A u \in Threads \ {t} : stack'[u] = stack[u]
  BY <1>2, <1>5
<1>7. stack' \in [Threads -> Seq(FrameSet)]
  BY <1>2, <1>4, <1>5
<1> QED BY <1>1, <1>4, <1>6, <1>7 DEF Puts

LEMMA PushPuts ==
  ASSUME Shape, NEW t \in Threads, NEW f \in FrameSet, stack' = PushFrame(t, f)
  PROVE  Puts(t, Len(stack[t]) + 1, f) /\ stack' \in [Threads -> Seq(FrameSet)]
<1>1. PICK s : s = stack[t]
  OBVIOUS
<1>2. s \in Seq(FrameSet) /\ stack \in [Threads -> Seq(FrameSet)]
  BY <1>1 DEF Shape
<1>3. PICK r : r = Append(s, f)
  OBVIOUS
<1>4. r \in Seq(FrameSet) /\ Len(r) = Len(s) + 1 /\ r[Len(s) + 1] = f /\ Len(s) \in Nat
      /\ \A i \in 1 .. Len(s) : r[i] = s[i]
  BY <1>2, <1>3
<1>5. stack' = [stack EXCEPT ![t] = r]
  BY <1>1, <1>3 DEF PushFrame
<1>6. stack'[t] = r /\ \A u \in Threads \ {t} : stack'[u] = stack[u]
  BY <1>2, <1>5
<1>7. stack' \in [Threads -> Seq(FrameSet)]
  BY <1>2, <1>4, <1>5
<1> QED BY <1>1, <1>4, <1>6, <1>7 DEF Puts

LEMMA PopPuts ==
  ASSUME Shape, NEW t \in Threads, Len(stack[t]) > 1, stack' = PopFrame(t)
  PROVE  Puts(t, Len(stack[t]) - 1, stack[t][Len(stack[t]) - 1]) /\ stack' \in [Threads -> Seq(FrameSet)]
<1>1. PICK s : s = stack[t]
  OBVIOUS
<1>2. s \in Seq(FrameSet) /\ stack \in [Threads -> Seq(FrameSet)] /\ Len(s) > 1
  BY <1>1 DEF Shape
<1>3. PICK r : r = SubSeq(s, 1, Len(s) - 1)
  OBVIOUS
<1>4. r \in Seq(FrameSet) /\ Len(r) = Len(s) - 1 /\ Len(s) \in Nat
      /\ \A i \in 1 .. Len(s) - 1 : r[i] = s[i]
  BY <1>2, <1>3
<1>5. stack' = [stack EXCEPT ![t] = r]
  BY <1>1, <1>3 DEF PopFrame, Front
<1>6. stack'[t] = r /\ \A u \in Threads \ {t} : stack'[u] = stack[u]
  BY <1>2, <1>5
<1>7. stack' \in [Threads -> Seq(FrameSet)]
  BY <1>2, <1>4, <1>5
<1> QED BY <1>1, <1>2, <1>4, <1>6, <1>7 DEF Puts

\* Where the frames of the next state were.
LEMMA PutsAt ==
  ASSUME stack \in [Threads -> Seq(FrameSet)], stack' \in [Threads -> Seq(FrameSet)],
         NEW t \in Threads, NEW n, NEW f, Puts(t, n, f)
  PROVE  /\ n \in Nat /\ n >= 1 /\ n =< Len(stack[t]) + 1 /\ n \in DOMAIN stack'[t] /\ stack'[t][n] = f
         /\ DOMAIN stack'[t] = 1 .. n /\ stack'[t] # <<>> /\ f \in FrameSet
         /\ n > 1 => n - 1 \in DOMAIN stack[t] /\ n - 1 \in DOMAIN stack'[t] /\ stack'[t][n - 1] = stack[t][n - 1]
         /\ \A u \in Threads : \A i \in DOMAIN stack'[u] :
              \/ u = t /\ i = n
              \/ /\ i \in DOMAIN stack[u] /\ stack'[u][i] = stack[u][i]
                 /\ u # t \/ i < n
                 /\ i > 1 => i - 1 \in DOMAIN stack[u] /\ i - 1 \in DOMAIN stack'[u]
                             /\ stack'[u][i - 1] = stack[u][i - 1]
         /\ \A u \in Threads : \A i \in DOMAIN stack[u] :
              (u # t \/ i < n) => i \in DOMAIN stack'[u] /\ stack'[u][i] = stack[u][i]
<1>1. /\ Len(stack[t]) \in Nat /\ DOMAIN stack[t] = 1 .. Len(stack[t])
      /\ Len(stack'[t]) \in Nat /\ DOMAIN stack'[t] = 1 .. Len(stack'[t])
      /\ stack'[t] \in Seq(FrameSet)
  OBVIOUS
<1>2. /\ n \in Nat /\ n >= 1 /\ n =< Len(stack[t]) + 1 /\ n \in DOMAIN stack'[t] /\ stack'[t][n] = f
      /\ DOMAIN stack'[t] = 1 .. n /\ stack'[t] # <<>> /\ f \in FrameSet
      /\ n > 1 => n - 1 \in DOMAIN stack[t] /\ n - 1 \in DOMAIN stack'[t] /\ stack'[t][n - 1] = stack[t][n - 1]
  BY <1>1 DEF Puts
<1>3. ASSUME NEW u \in Threads, NEW i \in DOMAIN stack'[u], ~(u = t /\ i = n)
      PROVE  /\ i \in DOMAIN stack[u] /\ stack'[u][i] = stack[u][i]
             /\ u # t \/ i < n
             /\ i > 1 => i - 1 \in DOMAIN stack[u] /\ i - 1 \in DOMAIN stack'[u]
                         /\ stack'[u][i - 1] = stack[u][i - 1]
  <2>1. CASE u = t
    BY <1>1, <1>2, <1>3, <2>1 DEF Puts
  <2>2. CASE u # t
    <3>1. stack'[u] = stack[u] /\ DOMAIN stack[u] = 1 .. Len(stack[u]) /\ Len(stack[u]) \in Nat
      BY <2>2 DEF Puts
    <3> QED BY <1>3, <2>2, <3>1
  <2> QED BY <2>1, <2>2
<1>4. ASSUME NEW u \in Threads, NEW i \in DOMAIN stack[u], u # t \/ i < n
      PROVE  i \in DOMAIN stack'[u] /\ stack'[u][i] = stack[u][i]
  <2>1. CASE u = t
    BY <1>1, <1>2, <1>4, <2>1 DEF Puts
  <2>2. CASE u # t
    BY <2>2 DEF Puts
  <2> QED BY <2>1, <2>2
<1> QED BY <1>2, <1>3, <1>4

-----------------------------------------------------------------------------
(* The queues as one: a step writes one of them.                             *)
QWrites(q, s) == q \in Names /\ Queue'[q] = s /\ \A p \in Names \ {q} : Queue'[p] = Queue[p]
QSame == \A p \in Names : Queue'[p] = Queue[p]
QPush(q, j) == QWrites(q, Append(Queue[q], j))

\* Taking the first job (d = 1) or the last one (d = 0).
QTake(q, j, d) ==
  /\ Queue[q] # <<>>
  /\ \/ d = 1 /\ j = Queue[q][1] /\ QWrites(q, Tail(Queue[q]))
     \/ d = 0 /\ j = Queue[q][Len(Queue[q])] /\ QWrites(q, SubSeq(Queue[q], 1, Len(Queue[q]) - 1))

LEMMA QueueAt ==
  /\ \A w \in Workers : <<"deque", w>> \in Names /\ Queue[<<"deque", w>>] = deque[w]
  /\ \A w \in Workers : <<"bcast", w>> \in Names /\ Queue[<<"bcast", w>>] = broadcasts[w]
  /\ <<"injected", 0>> \in Names /\ Queue[<<"injected", 0>>] = injected_jobs
  /\ \A p \in Names : \/ \E w \in Workers : p = <<"deque", w>>
                      \/ \E w \in Workers : p = <<"bcast", w>>
                      \/ p = <<"injected", 0>>
  BY DEF Names, Queue

LEMMA QueueAtNext ==
  /\ \A w \in Workers : Queue'[<<"deque", w>>] = deque'[w]
  /\ \A w \in Workers : Queue'[<<"bcast", w>>] = broadcasts'[w]
  /\ Queue'[<<"injected", 0>>] = injected_jobs'
  BY DEF Names, Queue

LEMMA QueueType ==
  ASSUME Shape
  PROVE  Queue \in [Names -> Seq(JobSet)]
<1>1. Queue = [q \in Names |-> Queue[q]]
  BY DEF Queue
<1>2. ASSUME NEW p \in Names PROVE Queue[p] \in Seq(JobSet)
  BY QueueAt, Zenon DEF Shape
<1> QED BY <1>1, <1>2

LEMMA QueueSame ==
  ASSUME UNCHANGED queues PROVE QSame
  BY DEF queues, QSame, Queue

LEMMA WriteDeque ==
  ASSUME Shape, NEW w \in Workers, NEW s, deque' = [deque EXCEPT ![w] = s], UNCHANGED <<broadcasts, injected_jobs>>
  PROVE  QWrites(<<"deque", w>>, s)
<1>1. deque'[w] = s /\ \A v \in Workers \ {w} : deque'[v] = deque[v]
  BY DEF Shape
<1>2. ASSUME NEW p \in Names, p # <<"deque", w>> PROVE Queue'[p] = Queue[p]
  BY <1>1, <1>2, QueueAt, QueueAtNext
<1> QED BY <1>1, <1>2, QueueAt, QueueAtNext DEF QWrites

LEMMA WriteBroadcasts ==
  ASSUME Shape, NEW w \in Workers, NEW s, broadcasts' = [broadcasts EXCEPT ![w] = s],
         UNCHANGED <<deque, injected_jobs>>
  PROVE  QWrites(<<"bcast", w>>, s)
<1>1. broadcasts'[w] = s /\ \A v \in Workers \ {w} : broadcasts'[v] = broadcasts[v]
  BY DEF Shape
<1>2. ASSUME NEW p \in Names, p # <<"bcast", w>> PROVE Queue'[p] = Queue[p]
  BY <1>1, <1>2, QueueAt, QueueAtNext
<1> QED BY <1>1, <1>2, QueueAt, QueueAtNext DEF QWrites

LEMMA WriteInjected ==
  ASSUME UNCHANGED <<deque, broadcasts>>
  PROVE  QWrites(<<"injected", 0>>, injected_jobs')
<1>2. ASSUME NEW p \in Names, p # <<"injected", 0>> PROVE Queue'[p] = Queue[p]
  BY <1>2, QueueAt, QueueAtNext
<1> QED BY <1>2, QueueAt, QueueAtNext DEF QWrites

LEMMA QPushAt ==
  ASSUME Shape, NEW q, NEW j \in JobSet, QPush(q, j)
  PROVE  /\ Queue[q] \in Seq(JobSet) /\ Len(Queue[q]) \in Nat
         /\ \A p \in Names : \A i \in DOMAIN Queue'[p] :
              \/ i \in DOMAIN Queue[p] /\ Queue'[p][i] = Queue[p][i]
              \/ p = q /\ i = Len(Queue[q]) + 1 /\ Queue'[p][i] = j
         /\ Len(Queue[q]) + 1 \in DOMAIN Queue'[q] /\ Queue'[q][Len(Queue[q]) + 1] = j
         /\ Len(Queue[q]) + 1 \notin DOMAIN Queue[q]
         /\ \A p \in Names : \A i \in DOMAIN Queue[p] : i \in DOMAIN Queue'[p] /\ Queue'[p][i] = Queue[p][i]
<1>1. q \in Names /\ Queue[q] \in Seq(JobSet)
  BY QueueType DEF QPush, QWrites
<1>2. PICK s \in Seq(JobSet) : s = Queue[q]
  BY <1>1
<1>3. PICK r : r = Append(s, j)
  OBVIOUS
<1>4. /\ DOMAIN r = 1 .. Len(s) + 1 /\ DOMAIN s = 1 .. Len(s) /\ Len(s) \in Nat
      /\ \A i \in 1 .. Len(s) : r[i] = s[i]
      /\ r[Len(s) + 1] = j
  BY <1>3
<1>5. Queue'[q] = r /\ \A p \in Names \ {q} : Queue'[p] = Queue[p]
  BY <1>2, <1>3 DEF QPush, QWrites
<1> QED BY <1>1, <1>2, <1>4, <1>5

LEMMA QTakeAt ==
  ASSUME Shape, NEW q, NEW j, NEW d, QTake(q, j, d)
  PROVE  /\ q \in Names /\ j \in JobSet /\ d \in {0, 1}
         /\ \E k \in DOMAIN Queue[q] :
              /\ Queue[q][k] = j
              /\ \A i \in DOMAIN Queue'[q] : /\ i \in Nat /\ i + d \in DOMAIN Queue[q] /\ i + d # k
                                             /\ Queue'[q][i] = Queue[q][i + d]
              /\ \A l \in DOMAIN Queue[q] : l # k => l - d \in DOMAIN Queue'[q] /\ Queue'[q][l - d] = Queue[q][l]
         /\ \A p \in Names \ {q} : Queue'[p] = Queue[p]
         /\ \A p \in Names : \A i \in DOMAIN Queue'[p] : \E l \in DOMAIN Queue[p] : Queue'[p][i] = Queue[p][l]
<1>1. q \in Names /\ Queue[q] \in Seq(JobSet) /\ Queue[q] # <<>>
  BY QueueType DEF QTake, QWrites
<1>2. PICK s \in Seq(JobSet) : s = Queue[q]
  BY <1>1
<1>3. /\ DOMAIN s = 1 .. Len(s) /\ Len(s) \in Nat /\ Len(s) > 0
  BY <1>1, <1>2
<1>4. CASE d = 1
  <2>1. PICK r : r = Tail(s)
    OBVIOUS
  <2>2. DOMAIN r = 1 .. Len(s) - 1 /\ \A i \in 1 .. Len(s) - 1 : r[i] = s[i + 1]
    BY <1>1, <1>2, <2>1
  <2>3. Queue'[q] = r /\ j = s[1] /\ \A p \in Names \ {q} : Queue'[p] = Queue[p]
    BY <1>2, <1>4, <2>1 DEF QTake, QWrites
  <2>4. /\ 1 \in DOMAIN s /\ s[1] = j
        /\ \A i \in DOMAIN r : i \in Nat /\ i + d \in DOMAIN s /\ i + d # 1 /\ r[i] = s[i + d]
        /\ \A l \in DOMAIN s : l # 1 => l - d \in DOMAIN r /\ r[l - d] = s[l]
    BY <1>3, <1>4, <2>2, <2>3
  <2>5. \A p \in Names : \A i \in DOMAIN Queue'[p] : \E l \in DOMAIN Queue[p] : Queue'[p][i] = Queue[p][l]
    BY <1>2, <2>3, <2>4
  <2>6. j \in JobSet
    BY <1>2, <2>4
  <2> QED BY <1>1, <1>2, <1>4, <2>3, <2>4, <2>5, <2>6
<1>5. CASE d = 0
  <2>1. PICK r : r = SubSeq(s, 1, Len(s) - 1)
    OBVIOUS
  <2>2. DOMAIN r = 1 .. Len(s) - 1 /\ \A i \in 1 .. Len(s) - 1 : r[i] = s[i]
    BY <1>3, <2>1
  <2>3. Queue'[q] = r /\ j = s[Len(s)] /\ \A p \in Names \ {q} : Queue'[p] = Queue[p]
    BY <1>2, <1>5, <2>1 DEF QTake, QWrites
  <2>4. /\ Len(s) \in DOMAIN s /\ s[Len(s)] = j
        /\ \A i \in DOMAIN r : i \in Nat /\ i + d \in DOMAIN s /\ i + d # Len(s) /\ r[i] = s[i + d]
        /\ \A l \in DOMAIN s : l # Len(s) => l - d \in DOMAIN r /\ r[l - d] = s[l]
    BY <1>3, <1>5, <2>2, <2>3
  <2>5. \A p \in Names : \A i \in DOMAIN Queue'[p] : \E l \in DOMAIN Queue[p] : Queue'[p][i] = Queue[p][l]
    BY <1>2, <2>3, <2>4
  <2>6. j \in JobSet
    BY <1>2, <2>4
  <2> QED BY <1>1, <1>2, <1>5, <2>3, <2>4, <2>5, <2>6
<1> QED BY <1>4, <1>5 DEF QTake

-----------------------------------------------------------------------------
(* What a written frame leaves of the structure.                             *)
Stacks == stack \in [Threads -> Seq(FrameSet)] /\ stack' \in [Threads -> Seq(FrameSet)]
Same(f, g) == f.kind = g.kind /\ f.id = g.id /\ f.env = g.env

\* No call but a new one has a new frame.
Anchor(t, n, f) ==
  \/ n \in DOMAIN stack[t] /\ Same(f, stack[t][n])
  \/ f.kind \notin CallKinds
  \/ f.id = Len(call) + 1

\* Calls keep what the structure needs of them.
CallsGrow ==
  /\ Len(call) \in Nat /\ Len(call') \in Nat /\ Len(call) =< Len(call')
  /\ \A id \in 1 .. Len(call) : call'[id].kind = call[id].kind /\ call'[id].owner = call[id].owner

LEMMA PutsElse ==
  ASSUME Stacks, NEW t \in Threads, NEW n, NEW f, Puts(t, n, f), NEW u \in Threads, NEW i \in DOMAIN stack'[u],
         ~(u = t /\ i = n)
  PROVE  /\ i \in DOMAIN stack[u] /\ stack'[u][i] = stack[u][i]
         /\ i > 1 => i - 1 \in DOMAIN stack[u] /\ i - 1 \in DOMAIN stack'[u] /\ stack'[u][i - 1] = stack[u][i - 1]
  BY PutsAt DEF Stacks

\* A frame that is not at the bottom.
LEMMA Inner ==
  ASSUME stack \in [Threads -> Seq(FrameSet)], Stacked, NEW t \in Threads, NEW i \in DOMAIN stack[t],
         stack[t][i].kind \notin {"client", "main"}
  PROVE  i \in Nat /\ i > 1 /\ i - 1 \in DOMAIN stack[t] /\ Above(t, stack[t][i], stack[t][i - 1])
<1>1. stack[t] \in Seq(FrameSet)
  OBVIOUS
<1>2. i \in Nat /\ i >= 1 /\ i =< Len(stack[t]) /\ stack[t] # <<>> /\ DOMAIN stack[t] = 1 .. Len(stack[t])
      /\ Len(stack[t]) \in Nat
  BY <1>1
<1>3. stack[t][1].kind \in {"client", "main"}
  BY <1>2 DEF Stacked
<1>4. i > 1
  BY <1>2, <1>3
<1>5. i - 1 \in DOMAIN stack[t]
  BY <1>2, <1>4
<1>6. Above(t, stack[t][i], stack[t][i - 1])
  BY <1>4 DEF Stacked
<1> QED BY <1>2, <1>4, <1>5, <1>6

LEMMA PutsFramed ==
  ASSUME Stacks, NEW t \in Threads, NEW n, NEW f, Puts(t, n, f), Framed, FrameOK(f)',
         CallsGrow, panics \in Nat, panics' \in Nat, panics =< panics'
  PROVE  Framed'
<1> SUFFICES ASSUME NEW u \in Threads, NEW i \in DOMAIN stack'[u] PROVE FrameOK(stack[u][i])'
  BY DEF Framed
<1>1. CASE u = t /\ i = n
  BY <1>1 DEF Puts
<1>2. CASE ~(u = t /\ i = n)
  <2>1. i \in DOMAIN stack[u] /\ stack'[u][i] = stack[u][i]
    BY <1>2, PutsElse
  <2>2. PICK g : g = stack[u][i]
    OBVIOUS
  <2>3. g \in FrameSet /\ FrameOK(g)
    BY <2>1, <2>2 DEF Framed, Stacks
  <2>4. FrameOK(g)'
    BY <2>3 DEF FrameOK, CallsGrow, FrameSet
  <2> QED BY <2>1, <2>2, <2>4
<1> QED BY <1>1, <1>2

LEMMA PutsStacked ==
  ASSUME Stacks, NEW t \in Threads, NEW n, NEW f, Puts(t, n, f), Stacked,
         n = 1 => f.kind = IF t \in Workers THEN "main" ELSE "client",
         n > 1 => Above(t, f, stack[t][n - 1])
  PROVE  Stacked'
<1>1. ASSUME NEW u \in Threads, stack'[u] # <<>>
      PROVE  stack'[u][1].kind = IF u \in Workers THEN "main" ELSE "client"
  <2>1. 1 \in DOMAIN stack'[u] /\ (stack[u] # <<>> <=> 1 \in DOMAIN stack[u])
    BY <1>1 DEF Stacks
  <2>2. CASE u = t /\ 1 = n
    BY <2>2 DEF Puts
  <2>3. CASE ~(u = t /\ 1 = n)
    <3>1. 1 \in DOMAIN stack[u] /\ stack'[u][1] = stack[u][1]
      BY <2>1, <2>3, PutsAt DEF Stacks
    <3> QED BY <2>1, <3>1 DEF Stacked
  <2> QED BY <2>2, <2>3
<1>2. ASSUME NEW u \in Clients PROVE stack'[u] # <<>>
  <2>1. u \in Threads
    BY ThreadFacts
  <2>2. CASE u = t
    BY <2>2, PutsAt DEF Stacks
  <2>3. CASE u # t
    BY <2>1, <2>3 DEF Puts, Stacked
  <2> QED BY <2>2, <2>3
<1>3. ASSUME NEW u \in Threads, NEW i \in DOMAIN stack'[u], i > 1
      PROVE  Above(u, stack'[u][i], stack'[u][i - 1])
  <2>1. CASE u = t /\ i = n
    BY <1>3, <2>1, PutsAt DEF Stacks
  <2>2. CASE ~(u = t /\ i = n)
    <3>1. i \in DOMAIN stack[u] /\ stack'[u][i] = stack[u][i] /\ stack'[u][i - 1] = stack[u][i - 1]
      BY <1>3, <2>2, PutsAt DEF Stacks
    <3> QED BY <1>3, <3>1 DEF Stacked
  <2> QED BY <2>1, <2>2
<1> QED BY <1>1, <1>2, <1>3 DEF Stacked, Above

LEMMA LexicalKeeps ==
  ASSUME Stacks, NEW t \in Threads, NEW n, NEW f, Puts(t, n, f), Anchor(t, n, f), Stacked,
         CallsGrow, NEW env, env \subseteq 1 .. Len(call), Lexical(env)
  PROVE  Lexical(env)'
<1>1. ASSUME NEW u \in Threads, NEW i \in DOMAIN stack'[u], stack'[u][i].kind = "scope", stack'[u][i].id \in env
      PROVE  \A o \in env : o < stack'[u][i].id => o \in stack'[u][i - 1].env
  <2>1. CASE ~(u = t /\ i = n)
    <3>1. i \in DOMAIN stack[u] /\ stack'[u][i] = stack[u][i]
      BY <2>1, PutsElse
    <3>2. i > 1
      BY <1>1, <3>1, Inner DEF Stacks
    <3>3. stack'[u][i - 1] = stack[u][i - 1]
      BY <2>1, <3>2, PutsElse
    <3> QED BY <1>1, <3>1, <3>3 DEF Lexical
  <2>2. CASE u = t /\ i = n
    <3>1. stack'[u][i] = f
      BY <2>2 DEF Puts
    <3>2. n \in DOMAIN stack[t] /\ Same(f, stack[t][n])
      BY <1>1, <3>1 DEF Anchor, CallKinds
    <3>3. stack[t][n].kind = "scope" /\ stack[t][n].id = stack'[u][i].id
      BY <1>1, <3>1, <3>2 DEF Same
    <3>4. n > 1
      BY <3>2, <3>3, Inner DEF Stacks
    <3>5. stack'[t][n - 1] = stack[t][n - 1]
      BY <3>4, PutsAt DEF Stacks
    <3> QED BY <1>1, <2>2, <3>2, <3>3, <3>5 DEF Lexical
  <2> QED BY <2>1, <2>2
<1>2. \A o \in env : call'[o].kind = "scope"
  BY DEF CallsGrow, Lexical
<1> QED BY <1>1, <1>2 DEF Lexical

LEMMA RootedKeeps ==
  ASSUME Stacks, NEW t \in Threads, NEW n, NEW f, Puts(t, n, f), Anchor(t, n, f), Stacked,
         Len(call) \in Nat, NEW id \in 1 .. Len(call), NEW env, Rooted(id, env)
  PROVE  Rooted(id, env)'
<1> SUFFICES ASSUME NEW u \in Threads, NEW i \in DOMAIN stack'[u], stack'[u][i].kind \in CallKinds,
                    stack'[u][i].id = id, NEW o \in env, o # id
             PROVE  o \in stack'[u][i - 1].env
  BY DEF Rooted, IsCall
<1>1. i \in Nat /\ i >= 1 /\ stack'[u][i] \in FrameSet
  BY DEF Stacks
<1>2. CASE ~(u = t /\ i = n)
  <2>1. i \in DOMAIN stack[u] /\ stack'[u][i] = stack[u][i]
    BY <1>2, PutsElse
  <2>2. i > 1
    BY <2>1, Inner DEF Stacks, CallKinds
  <2>3. stack'[u][i - 1] = stack[u][i - 1]
    BY <1>2, <2>2, PutsElse
  <2> QED BY <2>1, <2>3 DEF Rooted, IsCall
<1>3. CASE u = t /\ i = n
  <2>1. stack'[u][i] = f
    BY <1>3 DEF Puts
  <2>2. n \in DOMAIN stack[t] /\ Same(f, stack[t][n])
    BY <2>1 DEF Anchor
  <2>3. stack[t][n].kind \in CallKinds /\ stack[t][n].id = id
    BY <2>1, <2>2 DEF Same
  <2>4. n > 1
    BY <2>2, <2>3, Inner DEF Stacks, CallKinds
  <2>5. stack'[t][n - 1] = stack[t][n - 1]
    BY <2>4, PutsAt DEF Stacks
  <2> QED BY <1>3, <2>2, <2>3, <2>5 DEF Rooted, IsCall
<1> QED BY <1>2, <1>3

LEMMA JobKeeps ==
  ASSUME Stacks, NEW t \in Threads, NEW n, NEW f, Puts(t, n, f), Anchor(t, n, f), Stacked, CallsGrow,
         NEW j, JobOK(j)
  PROVE  JobOK(j)'
<1>1. Lexical(j.env)'
  BY LexicalKeeps DEF JobOK, CallsGrow
<1>2. j.kind # "spawned" => Rooted(j.id, j.env)'
  BY RootedKeeps DEF JobOK, CallsGrow
<1> QED BY <1>1, <1>2 DEF JobOK, CallsGrow

\* A new frame brings its environment, and a new job.
FrameJobs(f) ==
  /\ Lexical(f.env)
  /\ f.kind \in JobKinds => JobOK(f)
  /\ f.pend # NoJob => JobOK(f.pend)

LEMMA FrameJobsKeep ==
  ASSUME Stacks, NEW t \in Threads, NEW n, NEW f, Puts(t, n, f), Anchor(t, n, f), Stacked, CallsGrow,
         NEW g, g.env \subseteq 1 .. Len(call), FrameJobs(g)
  PROVE  FrameJobs(g)'
<1>1. Lexical(g.env)'
  BY LexicalKeeps DEF CallsGrow, FrameJobs
<1>2. (g.kind \in JobKinds => JobOK(g)') /\ (g.pend # NoJob => JobOK(g.pend)')
  BY JobKeeps DEF FrameJobs
<1> QED BY <1>1, <1>2 DEF FrameJobs

QueueJobs ==
  \A q \in Names : \A i \in DOMAIN Queue[q] :
    /\ JobOK(Queue[q][i])
    /\ q[1] = "bcast" => Queue[q][i].kind \in {"broadcast_op", "scope_job", "spawned"}
    /\ q[1] # "bcast" => Queue[q][i].kind # "broadcast_op"

LEMMA PutsJobs ==
  ASSUME Stacks, NEW t \in Threads, NEW n, NEW f, Puts(t, n, f), Anchor(t, n, f), Stacked, CallsGrow, Framed, Jobs,
         FrameJobs(f)', QueueJobs'
  PROVE  Jobs'
<1>1. ASSUME NEW u \in Threads, NEW i \in DOMAIN stack'[u]
      PROVE  FrameJobs(stack[u][i])'
  <2>1. CASE u = t /\ i = n
    <3>1. stack'[u][i] = f
      BY <2>1 DEF Puts
    <3> QED BY <3>1
  <2>2. CASE ~(u = t /\ i = n)
    <3>1. i \in DOMAIN stack[u] /\ stack'[u][i] = stack[u][i]
      BY <2>2, PutsElse
    <3>2. PICK g : g = stack[u][i]
      OBVIOUS
    <3>3. FrameJobs(g)
      BY <3>1, <3>2 DEF Jobs, FrameJobs
    <3>4. g.env \subseteq 1 .. Len(call)
      BY <3>1, <3>2 DEF Framed, FrameOK
    <3>5. FrameJobs(g)'
      BY <3>3, <3>4, FrameJobsKeep
    <3> QED BY <3>1, <3>2, <3>5
  <2> QED BY <2>1, <2>2
<1> QED BY <1>1 DEF Jobs, FrameJobs, QueueJobs

-----------------------------------------------------------------------------
(* Counting what is held.                                                    *)
Self(f, k) == IF Token(f) /\ k = <<"held", f.id>> THEN 1 ELSE 0
Pend(f, k) == IF f.pend # NoJob /\ f.todo = {} /\ k = <<"held", f.pend.id>> THEN 1 ELSE 0
TodoKey(f) == <<IF f.pend.kind = "broadcast_op" THEN "held" ELSE "owed", f.pend.id>>
Todo(f, k) == IF k = TodoKey(f) THEN Cardinality(f.todo) ELSE 0
Weight(f, k) == Self(f, k) + Pend(f, k) + Todo(f, k)
One(j, k) == IF k = <<"held", j.id>> THEN 1 ELSE 0

LEMMA Swap ==
  ASSUME NEW S, IsFiniteSet(S), NEW A, A \subseteq S, NEW B, IsFiniteSet(B), (S \ A) \cap B = {}
  PROVE  /\ IsFiniteSet(A) /\ IsFiniteSet((S \ A) \cup B)
         /\ Cardinality((S \ A) \cup B) = Cardinality(S) - Cardinality(A) + Cardinality(B)
         /\ Cardinality(S) \in Nat /\ Cardinality(A) \in Nat /\ Cardinality(B) \in Nat
<1>1. IsFiniteSet(A) /\ A \cap S = A /\ S \cap A = A
  BY FS_Subset
<1>2. IsFiniteSet(S \ A) /\ Cardinality(S \ A) = Cardinality(S) - Cardinality(S \cap A)
  BY FS_Difference
<1>3. PICK D : D = S \ A
  OBVIOUS
<1>4. /\ IsFiniteSet(D \cup B)
      /\ Cardinality(D \cup B) = Cardinality(D) + Cardinality(B) - Cardinality(D \cap B)
  BY <1>2, <1>3, FS_Union
<1>5. Cardinality(D \cap B) = 0
  BY <1>3, FS_EmptySet
<1>6. Cardinality(S) \in Nat /\ Cardinality(A) \in Nat /\ Cardinality(B) \in Nat /\ Cardinality(D) \in Nat
  BY <1>1, <1>2, <1>3, FS_CardinalityType
<1>7. Cardinality(D) = Cardinality(S) - Cardinality(A)
  BY <1>1, <1>2, <1>3
<1> QED BY <1>1, <1>3, <1>4, <1>5, <1>6, <1>7

LEMMA MarksWeight ==
  ASSUME NEW f \in FrameSet, NEW k
  PROVE  IsFiniteSet(Marks(f, k)) /\ Cardinality(Marks(f, k)) = Weight(f, k) /\ Weight(f, k) \in Nat
<1> DEFINE A == {m \in {<<"self", 0>>} : Token(f) /\ k = <<"held", f.id>>}
           B == {m \in {<<"pend", 0>>} : f.pend # NoJob /\ f.todo = {} /\ k = <<"held", f.pend.id>>}
           D == {v \in f.todo : k = TodoKey(f)}
           C == {<<"todo", w>> : w \in D}
<1>1. Marks(f, k) = (A \cup B) \cup C
  BY DEF Marks, TodoKey
<1>2. f.todo \in SUBSET Workers
  BY DEF FrameSet
<1>3. IsFiniteSet(f.todo) /\ Cardinality(f.todo) \in Nat
  BY <1>2, ThreadFacts, FS_Subset, FS_CardinalityType
<1>4. IsFiniteSet(A) /\ Cardinality(A) = Self(f, k) /\ Self(f, k) \in {0, 1}
  <2>1. CASE Token(f) /\ k = <<"held", f.id>>
    <3>1. A = {<<"self", 0>>} BY <2>1
    <3> QED BY <2>1, <3>1, FS_Singleton DEF Self
  <2>2. CASE ~(Token(f) /\ k = <<"held", f.id>>)
    <3>1. A = {} BY <2>2
    <3> QED BY <2>2, <3>1, FS_EmptySet DEF Self
  <2> QED BY <2>1, <2>2
<1>5. IsFiniteSet(B) /\ Cardinality(B) = Pend(f, k) /\ Pend(f, k) \in {0, 1}
  <2>1. CASE f.pend # NoJob /\ f.todo = {} /\ k = <<"held", f.pend.id>>
    <3>1. B = {<<"pend", 0>>} BY <2>1
    <3> QED BY <2>1, <3>1, FS_Singleton DEF Pend
  <2>2. CASE ~(f.pend # NoJob /\ f.todo = {} /\ k = <<"held", f.pend.id>>)
    <3>1. B = {} BY <2>2
    <3> QED BY <2>2, <3>1, FS_EmptySet DEF Pend
  <2> QED BY <2>1, <2>2
<1>6. IsFiniteSet(D) /\ Cardinality(D) = Todo(f, k)
  <2>1. CASE k = TodoKey(f)
    <3>1. D = f.todo BY <2>1
    <3> QED BY <1>3, <2>1, <3>1 DEF Todo
  <2>2. CASE k # TodoKey(f)
    <3>1. D = {} BY <2>2
    <3> QED BY <2>2, <3>1, FS_EmptySet DEF Todo
  <2> QED BY <2>1, <2>2
<1>7. IsFiniteSet(C) /\ Cardinality(C) = Todo(f, k)
  <2> HIDE DEF D
  <2>1. [w \in D |-> <<"todo", w>>] \in Bijection(D, C)
    BY DEF Bijection, Injection, Surjection, IsInjective
  <2> QED BY <1>6, <2>1, FS_Bijection DEF ExistsBijection
<1>8. A \cap B = {} /\ (A \cup B) \cap C = {}
  OBVIOUS
<1> HIDE DEF A, B, C
<1>9. IsFiniteSet(A \cup B) /\ Cardinality(A \cup B) = Cardinality(A) + Cardinality(B) - Cardinality(A \cap B)
  BY <1>4, <1>5, FS_Union
<1>10. IsFiniteSet((A \cup B) \cup C)
       /\ Cardinality((A \cup B) \cup C) = Cardinality(A \cup B) + Cardinality(C) - Cardinality((A \cup B) \cap C)
  BY <1>7, <1>9, FS_Union
<1>11. Todo(f, k) \in Nat
  BY <1>6, FS_CardinalityType
<1>12. Cardinality(A \cap B) = 0 /\ Cardinality((A \cup B) \cap C) = 0
  BY <1>8, FS_EmptySet
<1> QED BY <1>1, <1>4, <1>5, <1>7, <1>9, <1>10, <1>11, <1>12 DEF Weight

\* The marks of one frame.
Spot(t, i, M) == {<<t, i, m>> : m \in M}

LEMMA SpotCard ==
  ASSUME NEW t, NEW i, NEW M, IsFiniteSet(M)
  PROVE  IsFiniteSet(Spot(t, i, M)) /\ Cardinality(Spot(t, i, M)) = Cardinality(M)
<1>1. [m \in M |-> <<t, i, m>>] \in Bijection(M, Spot(t, i, M))
  BY DEF Spot, Bijection, Injection, Surjection, IsInjective
<1> QED BY <1>1, FS_Bijection DEF ExistsBijection

LEMMA InFramesAt ==
  ASSUME NEW k, NEW x
  PROVE  x \in InFrames(k) <=> \E t \in Threads : \E i \in DOMAIN stack[t] : x \in Spot(t, i, Marks(stack[t][i], k))
  BY DEF InFrames, Spot

LEMMA InFramesNext ==
  ASSUME NEW k, NEW x
  PROVE  x \in InFrames(k)' <=> \E t \in Threads : \E i \in DOMAIN stack'[t] : x \in Spot(t, i, Marks(stack'[t][i], k))
  BY DEF InFrames, Spot, Marks, Token

LEMMA SpotApart ==
  ASSUME NEW t, NEW i, NEW M, NEW u, NEW j, NEW N, NEW x, x \in Spot(t, i, M), x \in Spot(u, j, N)
  PROVE  t = u /\ i = j
  BY DEF Spot

\* The top frame is written.
LEMMA FramesSet ==
  ASSUME Stacks, NEW t \in Threads, NEW f, Puts(t, Len(stack[t]), f), NEW k, IsFiniteSet(InFrames(k))
  PROVE  /\ IsFiniteSet(InFrames(k)')
         /\ Cardinality(InFrames(k)') = Cardinality(InFrames(k)) - Weight(stack[t][Len(stack[t])], k) + Weight(f, k)
<1>1. PICK n : n = Len(stack[t])
  OBVIOUS
<1>2. /\ n \in DOMAIN stack[t] /\ n \in DOMAIN stack'[t] /\ stack'[t][n] = f /\ DOMAIN stack[t] = 1 .. n
      /\ DOMAIN stack'[t] = 1 .. n /\ f \in FrameSet /\ stack[t][n] \in FrameSet
      /\ \A i \in 1 .. n : i # n => stack'[t][i] = stack[t][i]
  BY <1>1 DEF Puts, Stacks
<1>3. \A u \in Threads \ {t} : stack'[u] = stack[u]
  BY DEF Puts
<1>4. PICK A : A = Spot(t, n, Marks(stack[t][n], k))
  OBVIOUS
<1>5. PICK B : B = Spot(t, n, Marks(f, k))
  OBVIOUS
<1>6. PICK S : S = InFrames(k)
  OBVIOUS
<1>7. A \subseteq S
  BY <1>2, <1>4, <1>6, InFramesAt
<1>8. \A x \in S : x \in B => x \in A
  <2>1. ASSUME NEW x \in S, x \in B PROVE x \in A
    <3>0. PICK u \in Threads : \E i \in DOMAIN stack[u] : x \in Spot(u, i, Marks(stack[u][i], k))
      BY <1>6, InFramesAt
    <3>1. PICK i \in DOMAIN stack[u] : x \in Spot(u, i, Marks(stack[u][i], k))
      BY <3>0
    <3>2. u = t /\ i = n
      BY <1>5, <2>1, <3>1, SpotApart
    <3> QED BY <1>4, <3>1, <3>2
  <2> QED BY <2>1
<1>9. ASSUME NEW x PROVE x \in InFrames(k)' <=> x \in (S \ A) \cup B
  <2>1. ASSUME x \in InFrames(k)' PROVE x \in (S \ A) \cup B
    <3>0. PICK u \in Threads : \E i \in DOMAIN stack'[u] : x \in Spot(u, i, Marks(stack'[u][i], k))
      BY <2>1, InFramesNext
    <3>1. PICK i \in DOMAIN stack'[u] : x \in Spot(u, i, Marks(stack'[u][i], k))
      BY <3>0
    <3>2. CASE u = t /\ i = n
      BY <1>2, <1>5, <3>1, <3>2
    <3>3. CASE ~(u = t /\ i = n)
      <4>1. i \in DOMAIN stack[u] /\ stack'[u][i] = stack[u][i]
        BY <1>2, <1>3, <3>3
      <4>2. x \in S
        BY <1>6, <3>1, <4>1, InFramesAt
      <4>3. x \notin A
        BY <1>4, <3>1, <3>3, SpotApart
      <4> QED BY <4>2, <4>3
    <3> QED BY <3>2, <3>3
  <2>2. ASSUME x \in B PROVE x \in InFrames(k)'
    BY <1>2, <1>5, <2>2, InFramesNext
  <2>3. ASSUME x \in S, x \notin A PROVE x \in InFrames(k)'
    <3>0. PICK u \in Threads : \E i \in DOMAIN stack[u] : x \in Spot(u, i, Marks(stack[u][i], k))
      BY <1>6, <2>3, InFramesAt
    <3>1. PICK i \in DOMAIN stack[u] : x \in Spot(u, i, Marks(stack[u][i], k))
      BY <3>0
    <3>2. ~(u = t /\ i = n)
      BY <1>4, <2>3, <3>1
    <3>3. i \in DOMAIN stack'[u] /\ stack'[u][i] = stack[u][i]
      BY <1>2, <1>3, <3>2
    <3> QED BY <3>1, <3>3, InFramesNext
  <2> QED BY <2>1, <2>2, <2>3
<1>10. InFrames(k)' = (S \ A) \cup B
  BY <1>9
<1>11. IsFiniteSet(Marks(f, k)) /\ IsFiniteSet(Marks(stack[t][n], k))
       /\ Cardinality(Marks(f, k)) = Weight(f, k) /\ Cardinality(Marks(stack[t][n], k)) = Weight(stack[t][n], k)
  BY <1>2, MarksWeight
<1>12. IsFiniteSet(B) /\ Cardinality(B) = Weight(f, k) /\ Cardinality(A) = Weight(stack[t][n], k)
  BY <1>4, <1>5, <1>11, SpotCard
<1>13. (S \ A) \cap B = {}
  BY <1>8
<1>14. IsFiniteSet((S \ A) \cup B) /\ Cardinality((S \ A) \cup B) = Cardinality(S) - Cardinality(A) + Cardinality(B)
  BY <1>6, <1>7, <1>12, <1>13, Swap
<1> QED BY <1>1, <1>6, <1>10, <1>12, <1>14

\* A frame is pushed.
LEMMA FramesPush ==
  ASSUME Stacks, NEW t \in Threads, NEW f, Puts(t, Len(stack[t]) + 1, f), NEW k, IsFiniteSet(InFrames(k))
  PROVE  /\ IsFiniteSet(InFrames(k)')
         /\ Cardinality(InFrames(k)') = Cardinality(InFrames(k)) + Weight(f, k)
<1>1. PICK n : n = Len(stack[t])
  OBVIOUS
<1>2. /\ n \in Nat /\ n + 1 \in DOMAIN stack'[t] /\ stack'[t][n + 1] = f /\ DOMAIN stack[t] = 1 .. n
      /\ DOMAIN stack'[t] = 1 .. n + 1 /\ f \in FrameSet
      /\ \A i \in 1 .. n : stack'[t][i] = stack[t][i]
  BY <1>1 DEF Puts, Stacks
<1>3. \A u \in Threads \ {t} : stack'[u] = stack[u]
  BY DEF Puts
<1>5. PICK B : B = Spot(t, n + 1, Marks(f, k))
  OBVIOUS
<1>6. PICK S : S = InFrames(k)
  OBVIOUS
<1>8. \A x \in S : x \notin B
  <2>1. ASSUME NEW x \in S, x \in B PROVE FALSE
    <3>0. PICK u \in Threads : \E i \in DOMAIN stack[u] : x \in Spot(u, i, Marks(stack[u][i], k))
      BY <1>6, InFramesAt
    <3>1. PICK i \in DOMAIN stack[u] : x \in Spot(u, i, Marks(stack[u][i], k))
      BY <3>0
    <3>2. u = t /\ i = n + 1
      BY <1>5, <2>1, <3>1, SpotApart
    <3> QED BY <1>2, <3>2
  <2> QED BY <2>1
<1>9. ASSUME NEW x PROVE x \in InFrames(k)' <=> x \in (S \ {}) \cup B
  <2>1. ASSUME x \in InFrames(k)' PROVE x \in (S \ {}) \cup B
    <3>0. PICK u \in Threads : \E i \in DOMAIN stack'[u] : x \in Spot(u, i, Marks(stack'[u][i], k))
      BY <2>1, InFramesNext
    <3>1. PICK i \in DOMAIN stack'[u] : x \in Spot(u, i, Marks(stack'[u][i], k))
      BY <3>0
    <3>2. CASE u = t /\ i = n + 1
      BY <1>2, <1>5, <3>1, <3>2
    <3>3. CASE ~(u = t /\ i = n + 1)
      <4>1. i \in DOMAIN stack[u] /\ stack'[u][i] = stack[u][i]
        BY <1>2, <1>3, <3>3
      <4> QED BY <1>6, <3>1, <4>1, InFramesAt
    <3> QED BY <3>2, <3>3
  <2>2. ASSUME x \in B PROVE x \in InFrames(k)'
    BY <1>2, <1>5, <2>2, InFramesNext
  <2>3. ASSUME x \in S PROVE x \in InFrames(k)'
    <3>0. PICK u \in Threads : \E i \in DOMAIN stack[u] : x \in Spot(u, i, Marks(stack[u][i], k))
      BY <1>6, <2>3, InFramesAt
    <3>1. PICK i \in DOMAIN stack[u] : x \in Spot(u, i, Marks(stack[u][i], k))
      BY <3>0
    <3>3. i \in DOMAIN stack'[u] /\ stack'[u][i] = stack[u][i]
      BY <1>2, <1>3
    <3> QED BY <3>1, <3>3, InFramesNext
  <2> QED BY <2>1, <2>2, <2>3
<1>10. InFrames(k)' = (S \ {}) \cup B
  BY <1>9
<1>11. IsFiniteSet(Marks(f, k)) /\ Cardinality(Marks(f, k)) = Weight(f, k)
  BY <1>2, MarksWeight
<1>12. IsFiniteSet(B) /\ Cardinality(B) = Weight(f, k)
  BY <1>5, <1>11, SpotCard
<1>13. (S \ {}) \cap B = {}
  BY <1>8
<1>14. /\ IsFiniteSet((S \ {}) \cup B) /\ Cardinality(S) \in Nat
       /\ Cardinality((S \ {}) \cup B) = Cardinality(S) - Cardinality({}) + Cardinality(B)
  BY <1>6, <1>12, <1>13, Swap
<1> QED BY <1>6, <1>10, <1>12, <1>14, FS_EmptySet

\* The top frame goes.
LEMMA FramesPop ==
  ASSUME Stacks, NEW t \in Threads, NEW f, Len(stack[t]) > 1, Puts(t, Len(stack[t]) - 1, f), NEW k, IsFiniteSet(InFrames(k)),
         Marks(f, k) = Marks(stack[t][Len(stack[t]) - 1], k)
  PROVE  /\ IsFiniteSet(InFrames(k)')
         /\ Cardinality(InFrames(k)') = Cardinality(InFrames(k)) - Weight(stack[t][Len(stack[t])], k)
<1>1. PICK n : n = Len(stack[t])
  OBVIOUS
<1>2. /\ n \in Nat /\ n > 1 /\ n \in DOMAIN stack[t] /\ DOMAIN stack[t] = 1 .. n
      /\ DOMAIN stack'[t] = 1 .. n - 1 /\ stack[t][n] \in FrameSet
      /\ \A i \in 1 .. n - 1 : Marks(stack'[t][i], k) = Marks(stack[t][i], k)
  <2>1. /\ n \in Nat /\ n > 1 /\ n \in DOMAIN stack[t] /\ DOMAIN stack[t] = 1 .. n
        /\ DOMAIN stack'[t] = 1 .. n - 1 /\ stack[t][n] \in FrameSet
        /\ stack'[t][n - 1] = f
    BY <1>1 DEF Puts, Stacks
  <2>2. \A i \in 1 .. n - 2 : stack'[t][i] = stack[t][i]
    BY <1>1, <2>1 DEF Puts
  <2>3. ASSUME NEW i \in 1 .. n - 1 PROVE Marks(stack'[t][i], k) = Marks(stack[t][i], k)
    <3>1. CASE i = n - 1
      BY <1>1, <2>1, <3>1
    <3>2. CASE i # n - 1
      BY <2>1, <2>2, <3>2
    <3> QED BY <3>1, <3>2
  <2> QED BY <2>1, <2>3
<1>3. \A u \in Threads \ {t} : stack'[u] = stack[u]
  BY DEF Puts
<1>4. PICK A : A = Spot(t, n, Marks(stack[t][n], k))
  OBVIOUS
<1>6. PICK S : S = InFrames(k)
  OBVIOUS
<1>7. A \subseteq S
  BY <1>2, <1>4, <1>6, InFramesAt
<1>9. ASSUME NEW x PROVE x \in InFrames(k)' <=> x \in (S \ A) \cup {}
  <2>1. ASSUME x \in InFrames(k)' PROVE x \in S /\ x \notin A
    <3>0. PICK u \in Threads : \E i \in DOMAIN stack'[u] : x \in Spot(u, i, Marks(stack'[u][i], k))
      BY <2>1, InFramesNext
    <3>1. PICK i \in DOMAIN stack'[u] : x \in Spot(u, i, Marks(stack'[u][i], k))
      BY <3>0
    <3>2. i \in DOMAIN stack[u] /\ Marks(stack'[u][i], k) = Marks(stack[u][i], k) /\ ~(u = t /\ i = n)
      BY <1>2, <1>3
    <3>3. x \in S
      BY <1>6, <3>1, <3>2, InFramesAt
    <3>4. x \notin A
      BY <1>4, <3>1, <3>2, SpotApart
    <3> QED BY <3>3, <3>4
  <2>3. ASSUME x \in S, x \notin A PROVE x \in InFrames(k)'
    <3>0. PICK u \in Threads : \E i \in DOMAIN stack[u] : x \in Spot(u, i, Marks(stack[u][i], k))
      BY <1>6, <2>3, InFramesAt
    <3>1. PICK i \in DOMAIN stack[u] : x \in Spot(u, i, Marks(stack[u][i], k))
      BY <3>0
    <3>2. ~(u = t /\ i = n)
      BY <1>4, <2>3, <3>1
    <3>3. i \in DOMAIN stack'[u] /\ Marks(stack'[u][i], k) = Marks(stack[u][i], k)
      BY <1>2, <1>3, <3>2
    <3> QED BY <3>1, <3>3, InFramesNext
  <2> QED BY <2>1, <2>3
<1>10. InFrames(k)' = (S \ A) \cup {}
  BY <1>9
<1>11. IsFiniteSet(Marks(stack[t][n], k)) /\ Cardinality(Marks(stack[t][n], k)) = Weight(stack[t][n], k)
  BY <1>2, MarksWeight
<1>12. Cardinality(A) = Weight(stack[t][n], k)
  BY <1>4, <1>11, SpotCard
<1>13. IsFiniteSet({}) /\ (S \ A) \cap {} = {}
  BY FS_EmptySet
<1>14. /\ IsFiniteSet((S \ A) \cup {}) /\ Cardinality(A) \in Nat /\ Cardinality(S) \in Nat
       /\ Cardinality((S \ A) \cup {}) = Cardinality(S) - Cardinality(A) + Cardinality({})
  BY <1>6, <1>7, <1>13, Swap
<1> QED BY <1>1, <1>6, <1>10, <1>12, <1>14, FS_EmptySet

-----------------------------------------------------------------------------
(* The same for the queues.                                                  *)
LEMMA InQueuesAt ==
  ASSUME NEW k, NEW x
  PROVE  x \in InQueues(k) <=> \E q \in Names : \E i \in DOMAIN Queue[q] : k = <<"held", Queue[q][i].id>> /\ x = <<q, i>>
  BY DEF InQueues, At

LEMMA InQueuesNext ==
  ASSUME NEW k, NEW x
  PROVE  x \in InQueues(k)' <=> \E q \in Names : \E i \in DOMAIN Queue'[q] : k = <<"held", Queue'[q][i].id>> /\ x = <<q, i>>
  BY DEF InQueues, At

LEMMA NamesFinite == IsFiniteSet(Names)
<1>1. [w \in Workers |-> <<"deque", w>>] \in Surjection(Workers, {<<"deque", w>> : w \in Workers})
  BY DEF Surjection
<1>2. [w \in Workers |-> <<"bcast", w>>] \in Surjection(Workers, {<<"bcast", w>> : w \in Workers})
  BY DEF Surjection
<1>3. IsFiniteSet({<<"deque", w>> : w \in Workers}) /\ IsFiniteSet({<<"bcast", w>> : w \in Workers})
  BY <1>1, <1>2, ThreadFacts, FS_Surjection
<1>4. IsFiniteSet({<<"deque", w>> : w \in Workers} \cup {<<"bcast", w>> : w \in Workers})
  BY <1>3, FS_Union
<1> QED BY <1>4, FS_AddElement DEF Names

LEMMA QueuesFinite ==
  ASSUME Shape, NEW k
  PROVE  IsFiniteSet(InQueues(k)) /\ Cardinality(InQueues(k)) \in Nat
<1> DEFINE P(q) == {<<q, i>> : i \in At(Queue[q], k)}
           U == {P(q) : q \in Names}
<1>1. [q \in Names |-> P(q)] \in Surjection(Names, U)
  BY DEF Surjection
<1>2. IsFiniteSet(U)
  BY <1>1, NamesFinite, FS_Surjection
<1>3. ASSUME NEW q \in Names PROVE IsFiniteSet(P(q))
  <2>1. Queue[q] \in Seq(JobSet)
    BY QueueType
  <2>2. At(Queue[q], k) \in SUBSET (1 .. Len(Queue[q])) /\ Len(Queue[q]) \in Int
    BY <2>1 DEF At
  <2>3. IsFiniteSet(1 .. Len(Queue[q]))
    BY <2>2, FS_Interval
  <2>4. IsFiniteSet(At(Queue[q], k))
    BY <2>2, <2>3, FS_Subset
  <2>5. [i \in At(Queue[q], k) |-> <<q, i>>] \in Surjection(At(Queue[q], k), P(q))
    BY DEF Surjection
  <2> QED BY <2>4, <2>5, FS_Surjection
<1>4. \A p \in U : IsFiniteSet(p)
  BY <1>3
<1>5. IsFiniteSet(UNION U)
  BY <1>2, <1>4, FS_UNION
<1>6. InQueues(k) = UNION U
  BY DEF InQueues
<1> QED BY <1>5, <1>6, FS_CardinalityType

LEMMA QueuesSame ==
  ASSUME QSame, NEW k PROVE Cardinality(InQueues(k)') = Cardinality(InQueues(k))
<1>1. ASSUME NEW x PROVE x \in InQueues(k)' <=> x \in InQueues(k)
  BY InQueuesAt, InQueuesNext DEF QSame
<1>2. InQueues(k)' = InQueues(k)
  BY <1>1
<1> QED BY <1>2

LEMMA QueuesPush ==
  ASSUME Shape, NEW q, NEW j \in JobSet, QPush(q, j), NEW k
  PROVE  Cardinality(InQueues(k)') = Cardinality(InQueues(k)) + One(j, k)
<1>1. q \in Names
  BY DEF QPush, QWrites
<1>2. PICK l : l = Len(Queue[q]) + 1
  OBVIOUS
<1>3. IsFiniteSet(InQueues(k)) /\ Cardinality(InQueues(k)) \in Nat
  BY QueuesFinite
<1>4. CASE k = <<"held", j.id>>
  <2>1. ASSUME NEW x PROVE x \in InQueues(k)' <=> x \in InQueues(k) \cup {<<q, l>>}
    BY <1>1, <1>2, <1>4, QPushAt, InQueuesAt, InQueuesNext
  <2>2. <<q, l>> \notin InQueues(k)
    BY <1>2, QPushAt, InQueuesAt
  <2>3. InQueues(k)' = InQueues(k) \cup {<<q, l>>}
    BY <2>1
  <2> QED BY <1>3, <1>4, <2>2, <2>3, FS_AddElement DEF One
<1>5. CASE k # <<"held", j.id>>
  <2>1. ASSUME NEW x PROVE x \in InQueues(k)' <=> x \in InQueues(k)
    BY <1>1, <1>5, QPushAt, InQueuesAt, InQueuesNext
  <2>2. InQueues(k)' = InQueues(k)
    BY <2>1
  <2> QED BY <1>3, <1>5, <2>2 DEF One
<1> QED BY <1>4, <1>5

LEMMA QueuesTake ==
  ASSUME Shape, NEW q, NEW j, NEW d, QTake(q, j, d), NEW k
  PROVE  Cardinality(InQueues(k)') = Cardinality(InQueues(k)) - One(j, k)
<1>1. q \in Names /\ d \in {0, 1} /\ \A p \in Names \ {q} : Queue'[p] = Queue[p]
  BY QTakeAt
<1>2. PICK h \in DOMAIN Queue[q] :
        /\ Queue[q][h] = j
        /\ \A i \in DOMAIN Queue'[q] : i \in Nat /\ i + d \in DOMAIN Queue[q] /\ i + d # h /\ Queue'[q][i] = Queue[q][i + d]
        /\ \A l \in DOMAIN Queue[q] : l # h => l - d \in DOMAIN Queue'[q] /\ Queue'[q][l - d] = Queue[q][l]
  BY QTakeAt
<1>3. IsFiniteSet(InQueues(k)) /\ Cardinality(InQueues(k)) \in Nat
  BY QueuesFinite
<1>4. PICK D : D = InQueues(k) \ {<<q, h>>}
  OBVIOUS
<1>5. PICK E : E = InQueues(k)'
  OBVIOUS
<1>6. <<q, h>> \in InQueues(k) <=> k = <<"held", j.id>>
  BY <1>1, <1>2, InQueuesAt
<1>7. IsFiniteSet(D) /\ Cardinality(D) = Cardinality(InQueues(k)) - One(j, k)
  <2>1. PICK S : S = InQueues(k)
    OBVIOUS
  <2>2. PICK x : x = <<q, h>>
    OBVIOUS
  <2>3. IsFiniteSet(S) /\ D = S \ {x} /\ Cardinality(S) \in Nat
    BY <1>3, <1>4, <2>1, <2>2
  <2>4. IsFiniteSet(D) /\ Cardinality(D) = IF x \in S THEN Cardinality(S) - 1 ELSE Cardinality(S)
    BY <2>3, FS_RemoveElement
  <2> QED BY <1>6, <2>1, <2>2, <2>3, <2>4 DEF One
<1>8. \A p \in Names : DOMAIN Queue[p] \subseteq Int
  <2>1. ASSUME NEW p \in Names PROVE DOMAIN Queue[p] \subseteq Int
    <3>1. Queue[p] \in Seq(JobSet)
      BY QueueType
    <3> QED BY <3>1
  <2> QED BY <2>1
<1> DEFINE Shift(x) == IF x[1] = q THEN <<x[1], x[2] - d>> ELSE x
           g == [x \in D |-> Shift(x)]
<1>9. ASSUME NEW x \in D PROVE x[1] \in Names /\ x[2] \in DOMAIN Queue[x[1]] /\ k = <<"held", Queue[x[1]][x[2]].id>>
                               /\ x = <<x[1], x[2]>> /\ (x[1] = q => x[2] # h)
  <2>1. x \in InQueues(k) /\ x # <<q, h>>
    BY <1>4
  <2>2. PICK p \in Names : \E i \in DOMAIN Queue[p] : k = <<"held", Queue[p][i].id>> /\ x = <<p, i>>
    BY <2>1, InQueuesAt
  <2>3. PICK i \in DOMAIN Queue[p] : k = <<"held", Queue[p][i].id>> /\ x = <<p, i>>
    BY <2>2
  <2> QED BY <2>1, <2>3
<1>10. ASSUME NEW x \in D PROVE Shift(x) \in E
  <2>1. CASE x[1] = q
    <3>1. x[2] - d \in DOMAIN Queue'[q] /\ Queue'[q][x[2] - d] = Queue[q][x[2]]
      BY <1>2, <1>9, <2>1
    <3>2. k = <<"held", Queue'[q][x[2] - d].id>> /\ Shift(x) = <<q, x[2] - d>>
      BY <1>9, <2>1, <3>1
    <3> QED BY <1>1, <1>5, <3>1, <3>2, InQueuesNext
  <2>2. CASE x[1] # q
    <3>1. Queue'[x[1]] = Queue[x[1]] /\ Shift(x) = x
      BY <1>1, <1>9, <2>2
    <3> HIDE DEF Shift
    <3> QED BY <1>5, <1>9, <3>1, InQueuesNext
  <2> QED BY <2>1, <2>2
<1>11. ASSUME NEW x \in D, NEW y \in D, Shift(x) = Shift(y) PROVE x = y
  <2>1. x[1] = y[1]
    BY <1>9, <1>11
  <2>2. x[2] \in Int /\ y[2] \in Int
    BY <1>8, <1>9
  <2>3. x[2] = y[2]
    BY <1>1, <1>9, <1>11, <2>1, <2>2
  <2> QED BY <1>9, <2>1, <2>3
<1>12. ASSUME NEW y \in E PROVE \E x \in D : Shift(x) = y
  <2>1. PICK p \in Names : \E i \in DOMAIN Queue'[p] : k = <<"held", Queue'[p][i].id>> /\ y = <<p, i>>
    BY <1>5, InQueuesNext
  <2>2. PICK i \in DOMAIN Queue'[p] : k = <<"held", Queue'[p][i].id>> /\ y = <<p, i>>
    BY <2>1
  <2>3. CASE p = q
    <3>1. i + d \in DOMAIN Queue[q] /\ i + d # h /\ Queue'[q][i] = Queue[q][i + d]
      BY <1>2, <2>3
    <3>2. <<q, i + d>> \in InQueues(k)
      BY <1>1, <2>2, <2>3, <3>1, InQueuesAt
    <3>3. <<q, i + d>> \in D
      BY <1>4, <3>1, <3>2
    <3>4. i \in Int
      BY <1>2, <2>3
    <3>5. Shift(<<q, i + d>>) = y
      BY <1>1, <2>2, <2>3, <3>4
    <3> QED BY <3>3, <3>5
  <2>4. CASE p # q
    <3>1. Queue'[p] = Queue[p]
      BY <1>1, <2>4
    <3>2. y \in D /\ Shift(y) = y
      BY <1>4, <2>2, <2>4, <3>1, InQueuesAt
    <3> QED BY <3>2
  <2> QED BY <2>3, <2>4
<1> HIDE DEF Shift
<1>13. g \in Bijection(D, E)
  BY <1>10, <1>11, <1>12 DEF Bijection, Injection, Surjection, IsInjective
<1> QED BY <1>5, <1>7, <1>13, FS_Bijection DEF ExistsBijection

-----------------------------------------------------------------------------
(* The structure, for the ways a stack, the queues and the calls change.     *)
CallsKeep ==
  /\ call' \in Seq(CallSet) /\ Len(call') = Len(call)
  /\ \A id \in 1 .. Len(call) :
       /\ call'[id].kind = call[id].kind /\ call'[id].owner = call[id].owner
       /\ call'[id].out = call[id].out /\ (call[id].set => call'[id].set)

LEMMA KeepGrows ==
  ASSUME Shape, CallsKeep PROVE CallsGrow
  BY DEF Shape, CallsKeep, CallsGrow

LEMMA CallSame ==
  ASSUME Shape, UNCHANGED call PROVE CallsKeep
  BY DEF Shape, CallsKeep

LEMMA CallWrites ==
  ASSUME Shape, NEW id \in 1 .. Len(call), NEW c \in CallSet, call' = [call EXCEPT ![id] = c]
  PROVE  /\ call' \in Seq(CallSet) /\ Len(call') = Len(call) /\ call'[id] = c
         /\ \A x \in 1 .. Len(call) : x # id => call'[x] = call[x]
<1>1. call \in Seq(CallSet)
  BY DEF Shape
<1> QED BY <1>1

JobsPushed(q, j) ==
  /\ QPush(q, j) /\ j \in JobSet /\ (JobOK(j) \/ JobOK(j)')
  /\ q[1] = "bcast" => j.kind \in {"broadcast_op", "scope_job", "spawned"}
  /\ q[1] # "bcast" => j.kind # "broadcast_op"
QueueStep ==
  \/ QSame
  \/ \E q, j : JobsPushed(q, j)
  \/ \E q, j, d : QTake(q, j, d)

LEMMA QueueStepJobs ==
  ASSUME Shape, Stacks, NEW t \in Threads, NEW n, NEW f, Puts(t, n, f), Anchor(t, n, f), Stacked, CallsGrow, Jobs,
         QueueStep
  PROVE  QueueJobs'
<1>0. ASSUME NEW j, JobOK(j) PROVE JobOK(j)'
  BY <1>0, JobKeeps
<1>1. QueueJobs
  BY DEF Jobs, QueueJobs
<1>2. CASE QSame
  <2>1. ASSUME NEW p \in Names, NEW i \in DOMAIN Queue'[p]
        PROVE  /\ JobOK(Queue[p][i])'
               /\ p[1] = "bcast" => Queue'[p][i].kind \in {"broadcast_op", "scope_job", "spawned"}
               /\ p[1] # "bcast" => Queue'[p][i].kind # "broadcast_op"
    <3>1. Queue'[p] = Queue[p]
      BY <1>2 DEF QSame
    <3>2. PICK j : j = Queue[p][i]
      OBVIOUS
    <3>3. JobOK(j)'
      BY <1>0, <1>1, <3>1, <3>2 DEF QueueJobs
    <3> QED BY <1>1, <3>1, <3>2, <3>3 DEF QueueJobs
  <2> QED BY <2>1 DEF QueueJobs
<1>3. ASSUME NEW q, NEW j, JobsPushed(q, j) PROVE QueueJobs'
  <2>0. JobOK(j)' /\ j \in JobSet /\ QPush(q, j)
    BY <1>0, <1>3 DEF JobsPushed
  <2>1. ASSUME NEW p \in Names, NEW i \in DOMAIN Queue'[p]
        PROVE  /\ JobOK(Queue[p][i])'
               /\ p[1] = "bcast" => Queue'[p][i].kind \in {"broadcast_op", "scope_job", "spawned"}
               /\ p[1] # "bcast" => Queue'[p][i].kind # "broadcast_op"
    <3>1. CASE i \in DOMAIN Queue[p] /\ Queue'[p][i] = Queue[p][i]
      <4>2. PICK h : h = Queue[p][i]
        OBVIOUS
      <4>3. JobOK(h)'
        BY <1>0, <1>1, <3>1, <4>2 DEF QueueJobs
      <4> QED BY <1>1, <3>1, <4>2, <4>3 DEF QueueJobs
    <3>2. CASE p = q /\ Queue'[p][i] = j
      BY <1>3, <2>0, <3>2 DEF JobsPushed
    <3> QED BY <2>0, <3>1, <3>2, QPushAt
  <2> QED BY <2>1 DEF QueueJobs
<1>4. ASSUME NEW q, NEW j, NEW d, QTake(q, j, d) PROVE QueueJobs'
  <2>1. ASSUME NEW p \in Names, NEW i \in DOMAIN Queue'[p]
        PROVE  /\ JobOK(Queue[p][i])'
               /\ p[1] = "bcast" => Queue'[p][i].kind \in {"broadcast_op", "scope_job", "spawned"}
               /\ p[1] # "bcast" => Queue'[p][i].kind # "broadcast_op"
    <3>1. PICK l \in DOMAIN Queue[p] : Queue'[p][i] = Queue[p][l]
      BY <1>4, QTakeAt
    <3>2. PICK h : h = Queue[p][l]
      OBVIOUS
    <3>3. JobOK(h)'
      BY <1>0, <1>1, <3>1, <3>2 DEF QueueJobs
    <3> QED BY <1>1, <3>1, <3>2, <3>3 DEF QueueJobs
  <2> QED BY <2>1 DEF QueueJobs
<1> QED BY <1>2, <1>3, <1>4 DEF QueueStep

\* No call's frame comes or goes.
LEMMA PutsCalled ==
  ASSUME Stacks, Called, Framed, Len(call) \in Nat, CallsKeep, NEW t \in Threads, NEW n, NEW f, Puts(t, n, f),
         \/ n \in DOMAIN stack[t] /\ Same(f, stack[t][n])
         \/ n \notin DOMAIN stack[t] /\ f.kind \notin CallKinds,
         \A i \in DOMAIN stack[t] : i > n => stack[t][i].kind \notin CallKinds
  PROVE  Called'
<1>1. ASSUME NEW u \in Threads, NEW i \in DOMAIN stack'[u], stack'[u][i].kind \in CallKinds
      PROVE  /\ i \in DOMAIN stack[u] /\ stack[u][i].kind = stack'[u][i].kind /\ stack[u][i].id = stack'[u][i].id
             /\ stack[u][i].id \in 1 .. Len(call)
  <2>1. i \in DOMAIN stack[u] /\ stack[u][i].kind = stack'[u][i].kind /\ stack[u][i].id = stack'[u][i].id
    <3>1. CASE u = t /\ i = n
      BY <1>1, <3>1 DEF Puts, Same
    <3>2. CASE ~(u = t /\ i = n)
      BY <3>2, PutsElse
    <3> QED BY <3>1, <3>2
  <2>2. FrameOK(stack[u][i]) /\ stack[u][i] \in FrameSet
    BY <2>1 DEF Framed, Stacks
  <2>3. stack[u][i].kind \notin Rootless /\ stack[u][i].id \in Nat
    BY <1>1, <2>1, <2>2 DEF CallKinds, Rootless, FrameSet
  <2> QED BY <2>1, <2>2, <2>3 DEF FrameOK
<1>2. ASSUME NEW u \in Threads, NEW i \in DOMAIN stack[u], stack[u][i].kind \in CallKinds
      PROVE  i \in DOMAIN stack'[u] /\ stack[u][i].kind = stack'[u][i].kind /\ stack[u][i].id = stack'[u][i].id
  <2>1. CASE u = t /\ i = n
    BY <2>1, PutsAt DEF Stacks, Same
  <2>2. CASE u = t /\ i > n
    BY <1>2, <2>2
  <2>3. CASE u # t \/ i < n
    BY <2>3, PutsAt DEF Stacks
  <2>4. n \in Nat /\ i \in Nat
    BY PutsAt DEF Stacks
  <2> QED BY <2>1, <2>2, <2>3, <2>4
<1>3. ASSUME NEW u \in Threads, NEW i \in DOMAIN stack'[u], stack'[u][i].kind \in CallKinds
      PROVE  LET c == call'[stack'[u][i].id] IN c.owner = u /\ c.kind = stack'[u][i].kind /\ c.out = None
  BY <1>1, <1>3 DEF Called, CallsKeep
<1>4. ASSUME NEW u \in Threads, NEW i \in DOMAIN stack'[u], NEW j \in DOMAIN stack'[u],
             stack'[u][i].kind \in CallKinds, stack'[u][j].kind \in CallKinds, stack'[u][i].id = stack'[u][j].id
      PROVE  i = j
  BY <1>1, <1>4 DEF Called
<1>5. ASSUME NEW id \in 1 .. Len(call'), call'[id].out = None
      PROVE  \E u \in Threads : \E i \in DOMAIN stack'[u] : stack'[u][i].kind \in CallKinds /\ stack'[u][i].id = id
  <2>1. id \in 1 .. Len(call) /\ call[id].out = None
    BY <1>5 DEF CallsKeep
  <2>2. PICK u \in Threads : \E i \in DOMAIN stack[u] : IsCall(u, i, id)
    BY <2>1 DEF Called
  <2> QED BY <1>2, <2>2 DEF IsCall
<1>6. ASSUME NEW id \in 1 .. Len(call'), call'[id].out # None
      PROVE  call'[id].set \/ call'[id].kind = "join"
  BY <1>6 DEF Called, CallsKeep
<1> QED BY <1>3, <1>4, <1>5, <1>6 DEF Called, IsCall

\* A client in a call, or with a job to push, has an open pool.
LEMMA ClientOpen ==
  ASSUME Shape, Stacked, Opened, NEW t \in Clients, stack[t] # <<>>, Top(t).kind # "terminator",
         Top(t).kind # "client" \/ Top(t).pend # NoJob
  PROVE  pool = "open"
<1>1. SUFFICES ASSUME pool # "open" PROVE FALSE
  OBVIOUS
<1>2. t \in Threads
  BY ThreadFacts
<1>3. Top(t) = stack[t][Len(stack[t])] /\ Len(stack[t]) \in Nat
  BY <1>2, StackFacts DEF Shape
<1>4. stack[t][1].pend = NoJob /\ (Len(stack[t]) = 1 \/ (Len(stack[t]) = 2 /\ stack[t][2].kind = "terminator"))
  BY <1>1 DEF Opened
<1>5. stack[t][1].kind = "client"
  BY <1>2, ThreadFacts DEF Stacked
<1> QED BY <1>3, <1>4, <1>5

LEMMA PutsOpened ==
  ASSUME Stacks, Opened, NEW t \in Threads, NEW n, NEW f, Puts(t, n, f), stack[t] # <<>>,
         UNCHANGED <<started, pool>>, t \in Clients => pool = "open"
  PROVE  Opened'
<1>1. \E k \in 0 .. NumThreads : started' = 1 .. k /\ (pool' = "building" => k < NumThreads)
  BY DEF Opened
<1>2. ASSUME NEW w \in Workers \ started' PROVE stack'[w] = <<>>
  <2>1. stack[w] = <<>>
    BY <1>2 DEF Opened
  <2> QED BY <2>1, ThreadFacts DEF Puts
<1>3. ASSUME pool' # "open", NEW c \in Clients PROVE stack'[c] = stack[c]
  BY <1>3, ThreadFacts DEF Puts
<1> QED BY <1>1, <1>2, <1>3 DEF Opened

LEMMA SetTopKeeps ==
  ASSUME Struct, NEW t \in Threads, stack[t] # <<>>, NEW f \in FrameSet, Same(f, Top(t)), stack' = SetTop(t, f),
         FrameOK(f)', f.pend # NoJob => JobOK(f.pend), CallsKeep, panics' \in Nat, panics =< panics', QueueStep,
         UNCHANGED <<started, pool>>, t \in Clients => pool = "open" \/ f.kind = "terminator"
  PROVE  Framed' /\ Stacked' /\ Called' /\ Jobs' /\ Opened' /\ Stacks /\ Puts(t, Len(stack[t]), f)
<1>0. Shape /\ Framed /\ Stacked /\ Called /\ Jobs /\ Opened
  BY DEF Struct
<1>1. PICK n : n = Len(stack[t])
  OBVIOUS
<1>2. Stacks /\ Puts(t, n, f)
  BY <1>0, <1>1, SetTopPuts DEF Shape, Stacks
<1>3. n \in DOMAIN stack[t] /\ Top(t) = stack[t][n] /\ n \in Nat /\ n >= 1 /\ DOMAIN stack[t] = 1 .. n
      /\ Top(t) \in FrameSet
  BY <1>0, <1>1, StackFacts DEF Shape
<1>4. CallsGrow /\ panics \in Nat /\ Len(call) \in Nat
  BY <1>0, KeepGrows DEF Shape, CallsGrow
<1>5. Framed'
  BY <1>0, <1>2, <1>4, PutsFramed
<1>6. Stacked'
  <2>1. n = 1 => f.kind = IF t \in Workers THEN "main" ELSE "client"
    BY <1>0, <1>3 DEF Stacked, Same
  <2>2. n > 1 => Above(t, Top(t), stack[t][n - 1])
    BY <1>0, <1>3 DEF Stacked
  <2>3. n > 1 => Above(t, f, stack[t][n - 1])
    BY <2>2 DEF Above, Same
  <2> QED BY <1>0, <1>2, <2>1, <2>3, PutsStacked
<1>7. Called'
  BY <1>0, <1>2, <1>3, <1>4, PutsCalled
<1>8. Jobs'
  <2>1. Anchor(t, n, f)
    BY <1>3 DEF Anchor
  <2>2. QueueJobs'
    BY <1>0, <1>2, <1>4, <2>1, QueueStepJobs
  <2>3. FrameJobs(Top(t)) /\ FrameOK(Top(t))
    BY <1>0, <1>3 DEF Jobs, FrameJobs, Framed
  <2>4. FrameJobs(f)
    BY <2>3 DEF FrameJobs, JobOK, Same
  <2>5. f.env \subseteq 1 .. Len(call)
    BY <2>3 DEF FrameOK, Same
  <2>6. FrameJobs(f)'
    BY <1>0, <1>2, <1>4, <2>1, <2>4, <2>5, FrameJobsKeep
  <2> QED BY <1>0, <1>2, <1>4, <2>1, <2>2, <2>6, PutsJobs
<1>9. Opened'
  <2>1. CASE t \in Clients => pool = "open"
    BY <1>0, <1>2, <2>1, PutsOpened
  <2>2. CASE t \in Clients /\ pool # "open"
    <3>1. f.kind = "terminator" /\ Top(t).kind = "terminator"
      BY <2>2 DEF Same
    <3>2. n = 2 /\ stack[t][2].kind = "terminator" /\ pool # "building"
      <4>1. stack[t][1].kind = "client"
        BY <1>0, <2>2, ThreadFacts DEF Stacked
      <4>2. Len(stack[t]) = 1 \/ (Len(stack[t]) = 2 /\ stack[t][2].kind = "terminator" /\ pool # "building")
        BY <1>0, <2>2 DEF Opened
      <4> QED BY <1>1, <1>3, <3>1, <4>1, <4>2
    <3>3. Len(stack'[t]) = 2 /\ stack'[t][2].kind = "terminator" /\ stack'[t][1] = stack[t][1]
      BY <1>2, <3>1, <3>2 DEF Puts
    <3>4. \A u \in Threads \ {t} : stack'[u] = stack[u]
      BY <1>2 DEF Puts
    <3>5. ASSUME NEW c \in Clients
          PROVE  /\ stack'[c][1].pend = NoJob
                 /\ \/ Len(stack'[c]) = 1
                    \/ Len(stack'[c]) = 2 /\ stack'[c][2].kind = "terminator" /\ pool' # "building"
      <4>1. CASE c = t
        BY <1>0, <2>2, <3>2, <3>3, <4>1 DEF Opened
      <4>2. CASE c # t
        BY <1>0, <2>2, <3>4, <4>2, ThreadFacts DEF Opened
      <4> QED BY <4>1, <4>2
    <3>6. \A w \in Workers : stack'[w] = stack[w]
      BY <2>2, <3>4, ThreadFacts
    <3> QED BY <1>0, <3>5, <3>6 DEF Opened
  <2> QED BY <2>1, <2>2
<1> QED BY <1>1, <1>2, <1>5, <1>6, <1>7, <1>8, <1>9

\* A job, or the terminator, has come to its end.
LEMMA PopKeeps ==
  ASSUME Struct, NEW t \in Threads, stack[t] # <<>>, Top(t).kind \in JobKinds \cup {"terminator"},
         stack' = PopFrame(t), CallsKeep, UNCHANGED <<panics, started, pool, queues>>
  PROVE  /\ Framed' /\ Stacked' /\ Called' /\ Jobs' /\ Opened' /\ Stacks
         /\ Len(stack[t]) > 1 /\ Puts(t, Len(stack[t]) - 1, stack[t][Len(stack[t]) - 1])
<1>0. Shape /\ Framed /\ Stacked /\ Called /\ Jobs /\ Opened
  BY DEF Struct
<1>1. PICK n : n = Len(stack[t])
  OBVIOUS
<1>3. n \in DOMAIN stack[t] /\ Top(t) = stack[t][n] /\ n \in Nat /\ n >= 1 /\ DOMAIN stack[t] = 1 .. n
      /\ stack[t] \in Seq(FrameSet)
  BY <1>0, <1>1, StackFacts DEF Shape
<1>4. n > 1 /\ n - 1 \in DOMAIN stack[t]
  BY <1>0, <1>3, Inner DEF Shape, JobKinds, StackJobs
<1>2. Stacks /\ Puts(t, n - 1, stack[t][n - 1])
  BY <1>0, <1>1, <1>4, PopPuts DEF Shape, Stacks
<1>5. CallsGrow /\ panics \in Nat /\ Len(call) \in Nat
  BY <1>0, KeepGrows DEF Shape, CallsGrow
<1>6. PICK f : f = stack[t][n - 1]
  OBVIOUS
<1>7. FrameOK(f) /\ f \in FrameSet /\ Puts(t, n - 1, f) /\ Anchor(t, n - 1, f) /\ FrameJobs(f)
  BY <1>0, <1>2, <1>3, <1>4, <1>6 DEF Framed, Anchor, Same, Jobs, FrameJobs
<1>8. FrameOK(f)'
  BY <1>5, <1>7 DEF FrameOK, CallsGrow, FrameSet
<1>9. Framed'
  BY <1>0, <1>2, <1>5, <1>7, <1>8, PutsFramed
<1>10. Stacked'
  <2>1. n - 1 = 1 => f.kind = IF t \in Workers THEN "main" ELSE "client"
    BY <1>0, <1>3, <1>6 DEF Stacked
  <2>2. n - 1 > 1 => Above(t, f, stack[t][(n - 1) - 1])
    BY <1>0, <1>3, <1>4, <1>6 DEF Stacked
  <2> QED BY <1>0, <1>2, <1>7, <2>1, <2>2, PutsStacked
<1>11. Called'
  <2>1. n - 1 \in DOMAIN stack[t] /\ Same(f, stack[t][n - 1])
    BY <1>4, <1>6 DEF Same
  <2>2. \A i \in DOMAIN stack[t] : i > n - 1 => stack[t][i].kind \notin CallKinds
    BY <1>3, <1>4 DEF CallKinds, JobKinds, StackJobs
  <2> QED BY <1>0, <1>2, <1>5, <1>7, <2>1, <2>2, PutsCalled
<1>12. QueueJobs'
  BY <1>0, <1>2, <1>5, <1>7, QueueSame, QueueStepJobs DEF QueueStep
<1>13. Jobs'
  <2>1. f.env \subseteq 1 .. Len(call)
    BY <1>7 DEF FrameOK
  <2>2. FrameJobs(f)'
    BY <1>0, <1>2, <1>5, <1>7, <2>1, FrameJobsKeep
  <2> QED BY <1>0, <1>2, <1>5, <1>7, <1>12, <2>2, PutsJobs
<1>14. Opened'
  <2>1. CASE t \in Clients => pool = "open"
    BY <1>0, <1>2, <2>1, PutsOpened
  <2>2. CASE t \in Clients /\ pool # "open"
    <3>1. \A u \in Threads \ {t} : stack'[u] = stack[u]
      BY <1>2 DEF Puts
    <3>2. Len(stack[t]) = 2 /\ stack[t][1].pend = NoJob
      <4>1. /\ stack[t][1].pend = NoJob
            /\ Len(stack[t]) = 1 \/ Len(stack[t]) = 2
        BY <1>0, <2>2 DEF Opened
      <4> QED BY <1>1, <1>3, <1>4, <4>1
    <3>3. Len(stack'[t]) = 1 /\ stack'[t][1] = stack[t][1]
      BY <1>1, <1>2, <3>2 DEF Puts
    <3>5. ASSUME NEW c \in Clients
          PROVE  /\ stack'[c][1].pend = NoJob
                 /\ \/ Len(stack'[c]) = 1
                    \/ Len(stack'[c]) = 2 /\ stack'[c][2].kind = "terminator" /\ pool' # "building"
      <4>1. CASE c = t
        BY <3>2, <3>3, <4>1
      <4>2. CASE c # t
        BY <1>0, <2>2, <3>1, <4>2, ThreadFacts DEF Opened
      <4> QED BY <4>1, <4>2
    <3>6. \A w \in Workers : stack'[w] = stack[w]
      BY <2>2, <3>1, ThreadFacts
    <3> QED BY <1>0, <3>5, <3>6 DEF Opened
  <2> QED BY <2>1, <2>2
<1> QED BY <1>1, <1>2, <1>4, <1>9, <1>10, <1>11, <1>13, <1>14

\* A worker takes up a job.
LEMMA ExecuteKeeps ==
  ASSUME Struct, NEW t \in Workers, stack[t] # <<>>, Top(t).pc \in WaitPcs \cup {"loop"}, Top(t).pend = NoJob,
         NEW j \in JobSet, JobOK(j), Execute(t, j), QueueStep, UNCHANGED <<call, panics, started, pool>>,
         NEW f, f = Frame(j.kind, j.id, j.env, "run")
  PROVE  /\ Framed' /\ Stacked' /\ Called' /\ Jobs' /\ Opened' /\ Stacks
         /\ Puts(t, Len(stack[t]) + 1, f) /\ f \in FrameSet
<1>0. Shape /\ Framed /\ Stacked /\ Called /\ Jobs /\ Opened
  BY DEF Struct
<1>1. PICK n : n = Len(stack[t]) + 1
  OBVIOUS
<1>2. t \in Threads /\ t \notin Clients
  BY ThreadFacts
<1>3. n - 1 \in DOMAIN stack[t] /\ Top(t) = stack[t][n - 1] /\ n \in Nat /\ n > 1 /\ DOMAIN stack[t] = 1 .. n - 1
  BY <1>0, <1>1, <1>2, StackFacts DEF Shape
<1>4. f \in FrameSet /\ f.kind = j.kind /\ f.id = j.id /\ f.env = j.env /\ f.pc = "run" /\ f.err = 0
      /\ f.pend = NoJob /\ f.todo = {} /\ j.kind \in JobKinds
  BY DEF Frame, FrameSet, JobSet, AllKinds, AllPcs, UserPcs
<1>5. Stacks /\ Puts(t, n, f)
  BY <1>0, <1>1, <1>2, <1>4, PushPuts DEF Shape, Stacks, Execute
<1>6. CallsKeep /\ CallsGrow /\ panics \in Nat /\ Len(call) \in Nat
  BY <1>0, CallSame, KeepGrows DEF Shape
<1>7. FrameOK(f)
  <2>1. KindPc(f) /\ PendOK(f)
    BY <1>4 DEF KindPc, PendOK, JobKinds
  <2>2. f.kind \in Rootless <=> f.kind = "spawned"
    BY <1>4 DEF Rootless, JobKinds, StackJobs
  <2> QED BY <1>0, <1>4, <1>6, <2>1, <2>2 DEF FrameOK, JobOK, UserPcs
<1>8. FrameOK(f)'
  BY <1>7 DEF FrameOK
<1>9. Anchor(t, n, f) /\ f.kind \notin CallKinds
  BY <1>4 DEF Anchor, CallKinds, JobKinds, StackJobs
<1>10. Framed'
  BY <1>0, <1>2, <1>5, <1>6, <1>8, PutsFramed
<1>11. Stacked'
  <2>1. Above(t, f, stack[t][n - 1])
    BY <1>3, <1>4 DEF Above
  <2> QED BY <1>0, <1>2, <1>3, <1>5, <2>1, PutsStacked
<1>12. Called'
  <2>1. n \notin DOMAIN stack[t] /\ \A i \in DOMAIN stack[t] : ~(i > n)
    BY <1>3
  <2> QED BY <1>0, <1>2, <1>5, <1>6, <1>9, <2>1, PutsCalled
<1>13. Jobs'
  <2>1. JobOK(f) /\ Lexical(f.env)
    BY <1>4 DEF JobOK
  <2>2. FrameJobs(f) /\ f.env \subseteq 1 .. Len(call)
    BY <1>4, <1>7, <2>1 DEF FrameJobs, FrameOK
  <2>3. FrameJobs(f)'
    BY <1>0, <1>2, <1>5, <1>6, <1>9, <2>2, FrameJobsKeep
  <2>4. QueueJobs'
    BY <1>0, <1>2, <1>5, <1>6, <1>9, QueueStepJobs
  <2> QED BY <1>0, <1>2, <1>5, <1>6, <1>9, <2>3, <2>4, PutsJobs
<1>14. Opened'
  BY <1>0, <1>2, <1>5, PutsOpened
<1> QED BY <1>1, <1>4, <1>5, <1>10, <1>11, <1>12, <1>13, <1>14

-----------------------------------------------------------------------------
(* A new call.                                                               *)
LEMMA NewCallFacts ==
  ASSUME NEW t \in Threads, NEW kind \in CallKinds, NEW c, c = NewCall(t, kind)
  PROVE  /\ c \in CallSet /\ c.owner = t /\ c.kind = kind /\ ~c.set /\ c.panic = 0 /\ c.seen = {} /\ c.out = None
         /\ kind = "broadcast" => c.count = NumThreads /\ c.result = [w \in Workers |-> None]
         /\ kind # "broadcast" => c.count = 1 /\ c.result = [w \in {0} |-> None]
<1>1. /\ c.owner = t /\ c.kind = kind /\ ~c.set /\ c.panic = 0 /\ c.seen = {} /\ c.out = None
      /\ kind = "broadcast" => c.count = NumThreads /\ c.result = [w \in Workers |-> None]
      /\ kind # "broadcast" => c.count = 1 /\ c.result = [w \in {0} |-> None]
  BY DEF NewCall
<1>2. c.count \in Int /\ c.result \in [Workers -> Values] \cup [{0} -> Values] \cup [{} -> Values]
  BY <1>1, ThreadFacts DEF Values
<1> QED BY <1>1, <1>2 DEF NewCall, CallSet, Values

LEMMA CallAppended ==
  ASSUME Shape, NEW c \in CallSet, call' = Append(call, c)
  PROVE  /\ call' \in Seq(CallSet) /\ Len(call) \in Nat /\ Len(call') = Len(call) + 1 /\ call'[Len(call) + 1] = c
         /\ NextId = Len(call) + 1
         /\ \A x \in 1 .. Len(call) : call'[x] = call[x]
         /\ DOMAIN call = 1 .. Len(call) /\ DOMAIN call' = 1 .. Len(call) + 1
<1>1. call \in Seq(CallSet)
  BY DEF Shape
<1> QED BY <1>1 DEF NextId

\* t begins a call, with frame f.
Begins(t, kind, f) ==
  /\ stack[t] # <<>> /\ Top(t).pc \in UserPcs /\ Top(t).pend = NoJob
  /\ kind \in CallKinds
  /\ call' = Append(call, NewCall(t, kind))
  /\ stack' = PushFrame(t, f) /\ f \in FrameSet
  /\ f.kind = kind /\ f.id = NextId
  /\ \A o \in f.env : o \in Top(t).env \/ (kind = "scope" /\ o = NextId)

LEMMA BeginsFacts ==
  ASSUME Struct, NEW t \in Threads, NEW kind, NEW f, Begins(t, kind, f)
  PROVE  /\ Stacks /\ Puts(t, Len(stack[t]) + 1, f) /\ CallsGrow /\ Len(call') = Len(call) + 1
         /\ Anchor(t, Len(stack[t]) + 1, f) /\ call' \in Seq(CallSet)
         /\ \A x \in 1 .. Len(call) : call'[x] = call[x]
         /\ call'[Len(call) + 1] = NewCall(t, kind) /\ NextId = Len(call) + 1
         /\ \A u \in Threads : \A i \in DOMAIN stack[u] : stack[u][i].id \in 0 .. Len(call)
         /\ Top(t).env \subseteq 1 .. Len(call) /\ Top(t).id =< Len(call) /\ Lexical(Top(t).env) /\ Top(t) \in FrameSet
<1>0. Shape /\ Framed /\ Stacked /\ Called /\ Jobs
  BY DEF Struct
<1>1. PICK c : c = NewCall(t, kind)
  OBVIOUS
<1>2. c \in CallSet
  BY <1>1, NewCallFacts DEF Begins
<1>3. /\ call' \in Seq(CallSet) /\ Len(call) \in Nat /\ Len(call') = Len(call) + 1 /\ call'[Len(call) + 1] = c
      /\ NextId = Len(call) + 1
      /\ \A x \in 1 .. Len(call) : call'[x] = call[x]
  BY <1>0, <1>1, <1>2, CallAppended DEF Begins
<1>4. Stacks /\ Puts(t, Len(stack[t]) + 1, f)
  BY <1>0, PushPuts DEF Begins, Shape, Stacks
<1>5. CallsGrow
  BY <1>3 DEF CallsGrow
<1>6. ASSUME NEW u \in Threads, NEW i \in DOMAIN stack[u] PROVE stack[u][i].id \in 0 .. Len(call)
  <2>1. stack[u][i] \in FrameSet /\ FrameOK(stack[u][i])
    BY <1>0 DEF Shape, Framed
  <2> QED BY <1>3, <2>1 DEF FrameOK, FrameSet
<1>7. Len(stack[t]) \in DOMAIN stack[t] /\ Top(t) = stack[t][Len(stack[t])] /\ Top(t) \in FrameSet
  BY <1>0, StackFacts DEF Begins, Shape
<1>8. Top(t).env \subseteq 1 .. Len(call) /\ Top(t).id =< Len(call) /\ Lexical(Top(t).env)
  BY <1>0, <1>7 DEF Framed, FrameOK, Jobs
<1>9. Anchor(t, Len(stack[t]) + 1, f)
  BY <1>3 DEF Anchor, Begins
<1> QED BY <1>1, <1>3, <1>4, <1>5, <1>6, <1>7, <1>8, <1>9

\* Where the new call is.
LEMMA BeginsCalled ==
  ASSUME Struct, NEW t \in Threads, NEW kind, NEW f, Begins(t, kind, f)
  PROVE  Called' /\ \A u \in Threads : \A i \in DOMAIN stack'[u] :
                      stack'[u][i].id = Len(call) + 1 => u = t /\ i = Len(stack[t]) + 1
<1>0. Shape /\ Framed /\ Called /\ Len(call) \in Nat
  BY DEF Struct, Shape
<1>1. PICK n : n = Len(stack[t]) + 1
  OBVIOUS
<1>2. /\ Stacks /\ Puts(t, n, f) /\ Len(call') = Len(call) + 1 /\ \A x \in 1 .. Len(call) : call'[x] = call[x]
      /\ call'[Len(call) + 1] = NewCall(t, kind)
      /\ \A u \in Threads : \A i \in DOMAIN stack[u] : stack[u][i].id \in 0 .. Len(call)
      /\ f.kind = kind /\ f.id = Len(call) + 1 /\ kind \in CallKinds
  BY <1>1, BeginsFacts DEF Begins
<1>3. n \in DOMAIN stack'[t] /\ stack'[t][n] = f /\ n \notin DOMAIN stack[t]
  BY <1>1, <1>2, PutsAt DEF Stacks
<1>4. PICK c : c = NewCall(t, kind)
  OBVIOUS
<1>5. c.owner = t /\ c.kind = kind /\ c.out = None
  BY <1>2, <1>4, NewCallFacts
<1>6. ASSUME NEW u \in Threads, NEW i \in DOMAIN stack'[u], ~(u = t /\ i = n)
      PROVE  i \in DOMAIN stack[u] /\ stack'[u][i] = stack[u][i]
  BY <1>2, <1>6, PutsElse
<1>7. ASSUME NEW u \in Threads, NEW i \in DOMAIN stack[u]
      PROVE  i \in DOMAIN stack'[u] /\ stack'[u][i] = stack[u][i]
  <2>1. u # t \/ i < n
    BY <1>0, <1>1, StackFacts DEF Shape
  <2> QED BY <1>2, <2>1, PutsAt DEF Stacks
<1>8. ASSUME NEW u \in Threads, NEW i \in DOMAIN stack[u], stack[u][i].kind \in CallKinds
      PROVE  stack[u][i].id \in 1 .. Len(call)
  <2>1. stack[u][i].id # 0
    BY <1>0, <1>8 DEF Framed, FrameOK, CallKinds, Rootless
  <2> QED BY <1>0, <1>2, <2>1
<1>9. ASSUME NEW u \in Threads, NEW i \in DOMAIN stack'[u], stack'[u][i].id = Len(call) + 1
      PROVE  u = t /\ i = n
  BY <1>0, <1>2, <1>6, <1>9
<1>10. ASSUME NEW u \in Threads, NEW i \in DOMAIN stack'[u], stack'[u][i].kind \in CallKinds
       PROVE  LET d == call'[stack'[u][i].id] IN d.owner = u /\ d.kind = stack'[u][i].kind /\ d.out = None
  <2>1. CASE u = t /\ i = n
    BY <1>2, <1>3, <1>4, <1>5, <2>1
  <2>2. CASE ~(u = t /\ i = n)
    BY <1>0, <1>2, <1>6, <1>8, <1>10, <2>2 DEF Called
  <2> QED BY <2>1, <2>2
<1>11. ASSUME NEW u \in Threads, NEW i \in DOMAIN stack'[u], NEW j \in DOMAIN stack'[u],
              stack'[u][i].kind \in CallKinds, stack'[u][j].kind \in CallKinds, stack'[u][i].id = stack'[u][j].id
       PROVE  i = j
  <2>1. CASE stack'[u][i].id = Len(call) + 1
    BY <1>9, <1>11, <2>1
  <2>2. CASE stack'[u][i].id # Len(call) + 1
    <3>1. i \in DOMAIN stack[u] /\ stack'[u][i] = stack[u][i] /\ j \in DOMAIN stack[u] /\ stack'[u][j] = stack[u][j]
      BY <1>2, <1>3, <1>6, <1>11, <2>2
    <3> QED BY <1>0, <1>11, <3>1 DEF Called
  <2> QED BY <2>1, <2>2
<1>12. ASSUME NEW id \in 1 .. Len(call'), call'[id].out = None
       PROVE  \E u \in Threads : \E i \in DOMAIN stack'[u] : stack'[u][i].kind \in CallKinds /\ stack'[u][i].id = id
  <2>1. CASE id = Len(call) + 1
    BY <1>2, <1>3, <2>1
  <2>2. CASE id # Len(call) + 1
    <3>1. id \in 1 .. Len(call) /\ call[id].out = None
      BY <1>0, <1>2, <1>12, <2>2
    <3>2. PICK u \in Threads : \E i \in DOMAIN stack[u] : IsCall(u, i, id)
      BY <1>0, <3>1 DEF Called
    <3> QED BY <1>7, <3>2 DEF IsCall
  <2> QED BY <2>1, <2>2
<1>13. ASSUME NEW id \in 1 .. Len(call'), call'[id].out # None
       PROVE  call'[id].set \/ call'[id].kind = "join"
  <2>1. id \in 1 .. Len(call) /\ call'[id] = call[id]
    BY <1>0, <1>2, <1>4, <1>5, <1>13
  <2> QED BY <1>0, <1>13, <2>1 DEF Called
<1> QED BY <1>1, <1>9, <1>10, <1>11, <1>12, <1>13 DEF Called, IsCall

\* The job of a new call.
LEMMA NewJobOK ==
  ASSUME Struct, NEW t \in Threads, NEW kind, NEW f, Begins(t, kind, f),
         NEW j, j.id = NextId, j.env = Top(t).env, j.kind # "spawned", Of(j.kind) = kind
  PROVE  JobOK(j)'
<1>0. Shape /\ Stacked /\ Len(call) \in Nat
  BY DEF Struct, Shape
<1>1. PICK n : n = Len(stack[t]) + 1
  OBVIOUS
<1>2. /\ Stacks /\ Puts(t, n, f) /\ Anchor(t, n, f) /\ CallsGrow /\ Len(call') = Len(call) + 1
      /\ call'[Len(call) + 1] = NewCall(t, kind) /\ NextId = Len(call) + 1
      /\ Top(t).env \subseteq 1 .. Len(call) /\ Lexical(Top(t).env)
  BY <1>1, BeginsFacts
<1>3. Lexical(j.env)'
  <2>1. PICK e : e = Top(t).env
    OBVIOUS
  <2>2. Lexical(e)'
    BY <1>0, <1>2, <2>1, LexicalKeeps
  <2> QED BY <2>1, <2>2
<1>4. n - 1 \in DOMAIN stack[t] /\ Top(t) = stack[t][n - 1] /\ n > 1 /\ n \in Nat
  BY <1>0, <1>1, StackFacts DEF Shape, Begins
<1>5. stack'[t][n - 1] = Top(t)
  BY <1>2, <1>4, PutsAt DEF Stacks
<1>6. Rooted(j.id, j.env)'
  <2>1. ASSUME NEW u \in Threads, NEW i \in DOMAIN stack'[u], stack'[u][i].id = j.id
        PROVE  stack'[u][i - 1] = Top(t)
    BY <1>1, <1>2, <1>5, <2>1, BeginsCalled
  <2> QED BY <2>1 DEF Rooted, IsCall
<1>7. PICK c : c = NewCall(t, kind)
  OBVIOUS
<1>8. c.kind = kind
  BY <1>7, NewCallFacts DEF Begins
<1> QED BY <1>0, <1>2, <1>3, <1>6, <1>7, <1>8 DEF JobOK

LEMMA BeginsKeeps ==
  ASSUME Struct, NEW t \in Threads, NEW kind, NEW f, Begins(t, kind, f), t \in Clients => pool = "open",
         FrameOK(f)', f.pend # NoJob => JobOK(f.pend)', QueueStep, UNCHANGED <<panics, started, pool>>
  PROVE  Framed' /\ Stacked' /\ Called' /\ Jobs' /\ Opened'
<1>0. Shape /\ Framed /\ Stacked /\ Called /\ Jobs /\ Opened /\ Len(call) \in Nat /\ panics \in Nat
  BY DEF Struct, Shape
<1>1. PICK n : n = Len(stack[t]) + 1
  OBVIOUS
<1>2. /\ Stacks /\ Puts(t, n, f) /\ Anchor(t, n, f) /\ CallsGrow /\ Len(call') = Len(call) + 1
      /\ NextId = Len(call) + 1 /\ Top(t).env \subseteq 1 .. Len(call) /\ Lexical(Top(t).env)
      /\ Top(t).id =< Len(call) /\ call'[Len(call) + 1] = NewCall(t, kind) /\ Top(t) \in FrameSet
  BY <1>1, BeginsFacts
<1>3. n - 1 \in DOMAIN stack[t] /\ Top(t) = stack[t][n - 1] /\ n > 1 /\ n \in Nat
  BY <1>0, <1>1, StackFacts DEF Shape, Begins
<1>4. Framed'
  BY <1>0, <1>2, PutsFramed
<1>5. Stacked'
  <2>1. Top(t).id < f.id
    BY <1>0, <1>2 DEF Begins, FrameSet
  <2>2. Above(t, f, Top(t))
    BY <2>1 DEF Above, Begins
  <2> QED BY <1>0, <1>2, <1>3, <2>2, PutsStacked
<1>6. Called'
  BY BeginsCalled
<1>7. QueueJobs'
  BY <1>0, <1>2, QueueStepJobs
<1>8. FrameJobs(f)'
  <2>1. PICK e : e = Top(t).env
    OBVIOUS
  <2>2. Lexical(e)'
    BY <1>0, <1>2, <2>1, LexicalKeeps
  <2>3. PICK c : c = NewCall(t, kind)
    OBVIOUS
  <2>4. c.kind = kind
    BY <2>3, NewCallFacts DEF Begins
  <2>5. \A o \in f.env : o \in e \/ (kind = "scope" /\ o = Len(call) + 1)
    BY <1>2, <2>1 DEF Begins
  <2>6. \A o \in f.env : call'[o].kind = "scope"
    BY <1>2, <2>2, <2>3, <2>4, <2>5 DEF Lexical
  <2>7. ASSUME NEW u \in Threads, NEW i \in DOMAIN stack'[u], stack'[u][i].kind = "scope", stack'[u][i].id \in f.env,
               NEW o \in f.env, o < stack'[u][i].id
        PROVE  o \in stack'[u][i - 1].env
    <3>1. CASE stack'[u][i].id = Len(call) + 1
      <4>1. u = t /\ i = n
        BY <1>1, <3>1, BeginsCalled
      <4>2. stack'[u][i - 1] = Top(t)
        BY <1>2, <1>3, <4>1, PutsAt DEF Stacks
      <4> QED BY <1>0, <2>1, <2>5, <2>7, <3>1, <4>2
    <3>2. CASE stack'[u][i].id # Len(call) + 1
      <4>1. stack'[u][i].id \in e
        BY <2>5, <2>7, <3>2
      <4>2. stack'[u][i].id =< Len(call) /\ stack'[u][i].id \in Nat
        BY <1>0, <1>2, <2>1, <4>1
      <4>3. o \in e
        BY <1>0, <2>5, <2>7, <4>2
      <4> QED BY <2>2, <2>7, <4>1, <4>3 DEF Lexical
    <3> QED BY <3>1, <3>2
  <2>8. Lexical(f.env)'
    BY <2>6, <2>7 DEF Lexical
  <2>9. f.kind \notin JobKinds
    BY DEF Begins, CallKinds, JobKinds, StackJobs
  <2> QED BY <2>8, <2>9 DEF FrameJobs
<1>9. Jobs'
  BY <1>0, <1>2, <1>7, <1>8, PutsJobs
<1>10. Opened'
  BY <1>0, <1>2, PutsOpened DEF Begins
<1> QED BY <1>4, <1>5, <1>6, <1>9, <1>10

-----------------------------------------------------------------------------
(* A call returns.                                                           *)
LEMMA ReturnFacts ==
  ASSUME Struct, NEW t \in Threads, stack[t] # <<>>, Top(t).kind \in CallKinds, NEW e \in Nat, Return(t, e)
  PROVE  \E f, c :
           /\ Len(stack[t]) > 1 /\ Len(stack[t]) - 1 \in DOMAIN stack[t]
           /\ Stacks /\ Puts(t, Len(stack[t]) - 1, f)
           /\ \/ f = [stack[t][Len(stack[t]) - 1] EXCEPT !.err = 0]
                   /\ stack[t][Len(stack[t]) - 1].kind = "client"
              \/ f = [stack[t][Len(stack[t]) - 1] EXCEPT !.err = e]
                   /\ stack[t][Len(stack[t]) - 1].kind # "client"
           /\ Top(t).id \in 1 .. Len(call)
           /\ call' \in Seq(CallSet) /\ Len(call') = Len(call) /\ call'[Top(t).id] = c
           /\ c.out = e /\ c.set = call[Top(t).id].set /\ c.kind = call[Top(t).id].kind
           /\ c.owner = call[Top(t).id].owner /\ c.count = call[Top(t).id].count /\ c.panic = call[Top(t).id].panic
           /\ c.seen = call[Top(t).id].seen \cup ({e} \ {0})
           /\ \A x \in 1 .. Len(call) : x # Top(t).id => call'[x] = call[x]
<1>0. Shape /\ Framed /\ Stacked /\ Called
  BY DEF Struct
<1>1. PICK s : s = stack[t]
  OBVIOUS
<1>2. s \in Seq(FrameSet) /\ stack \in [Threads -> Seq(FrameSet)] /\ Len(s) \in DOMAIN s /\ Top(t) = s[Len(s)]
      /\ Top(t) \in FrameSet
  BY <1>0, <1>1, StackFacts DEF Shape
<1>3. Len(s) > 1 /\ Len(s) - 1 \in DOMAIN s /\ Len(s) \in Nat
  BY <1>0, <1>1, <1>2, Inner DEF Shape, CallKinds
<1>4. PICK r : r = SubSeq(s, 1, Len(s) - 1)
  OBVIOUS
<1>5. r \in Seq(FrameSet) /\ Len(r) = Len(s) - 1 /\ \A i \in 1 .. Len(s) - 1 : r[i] = s[i]
  BY <1>2, <1>3, <1>4
<1>6. r = Front(stack[t]) /\ Last(r) = s[Len(s) - 1]
  BY <1>1, <1>3, <1>4, <1>5 DEF Front, Last
<1>7. PICK g : g = s[Len(s) - 1]
  OBVIOUS
<1>8. PICK f : f = [g EXCEPT !.err = IF g.kind = "client" THEN 0 ELSE e]
  OBVIOUS
<1>9. g \in FrameSet /\ f \in FrameSet
  <2>1. g \in FrameSet
    BY <1>2, <1>3, <1>7
  <2> QED BY <1>8, <2>1 DEF FrameSet
<1>10. PICK q : q = [r EXCEPT ![Len(r)] = f]
  OBVIOUS
<1>11. q \in Seq(FrameSet) /\ Len(q) = Len(s) - 1 /\ q[Len(s) - 1] = f /\ \A i \in 1 .. Len(s) - 2 : q[i] = s[i]
  BY <1>3, <1>5, <1>9, <1>10
<1>12. r[Len(r)] = g
  BY <1>3, <1>5, <1>7
<1>13. stack' = [stack EXCEPT ![t] = q]
  BY <1>6, <1>7, <1>8, <1>10, <1>12 DEF Return
<1>14. stack'[t] = q /\ (\A u \in Threads \ {t} : stack'[u] = stack[u]) /\ stack' \in [Threads -> Seq(FrameSet)]
  BY <1>2, <1>11, <1>13
<1>15. Stacks /\ Puts(t, Len(stack[t]) - 1, f)
  BY <1>1, <1>2, <1>3, <1>11, <1>14 DEF Stacks, Puts
<1>16. PICK id : id = Top(t).id
  OBVIOUS
<1>17. id \in 1 .. Len(call) /\ call \in Seq(CallSet) /\ Len(call) \in Nat
  <2>1. FrameOK(Top(t))
    BY <1>0, <1>1, <1>2 DEF Framed
  <2> QED BY <1>0, <1>2, <1>16, <2>1 DEF FrameOK, FrameSet, CallKinds, Rootless, Shape
<1>18. PICK d : d = call[id]
  OBVIOUS
<1>19. d \in CallSet
  BY <1>17, <1>18
<1>20. PICK c : c = [[[d EXCEPT !.out = e] EXCEPT !.result = <<>>] EXCEPT !.seen = d.seen \cup ({e} \ {0})]
  OBVIOUS
<1>21. /\ c \in CallSet /\ c.out = e /\ c.set = d.set /\ c.kind = d.kind /\ c.owner = d.owner /\ c.count = d.count
       /\ c.panic = d.panic /\ c.seen = d.seen \cup ({e} \ {0})
  <2>1. <<>> \in [{} -> Values]
    OBVIOUS
  <2>2. e \in Values /\ d.seen \cup ({e} \ {0}) \in SUBSET Nat
    BY <1>19 DEF CallSet, Values
  <2> QED BY <1>19, <1>20, <2>1, <2>2 DEF CallSet
<1>22. call' = [call EXCEPT ![id] = c]
  <2>1. call' = [call EXCEPT ![id].out = e, ![id].result = <<>>, ![id].seen = @ \cup ({e} \ {0})]
    BY <1>16 DEF Return
  <2> QED BY <1>17, <1>18, <1>19, <1>20, <2>1 DEF CallSet
<1>23. /\ call' \in Seq(CallSet) /\ Len(call') = Len(call) /\ call'[id] = c
       /\ \A x \in 1 .. Len(call) : x # id => call'[x] = call[x]
  BY <1>17, <1>21, <1>22
<1> QED BY <1>1, <1>3, <1>7, <1>8, <1>15, <1>16, <1>17, <1>18, <1>21, <1>23

LEMMA ReturnKeeps ==
  ASSUME Struct, NEW t \in Threads, stack[t] # <<>>, Top(t).kind \in CallKinds, NEW e \in Nat, Return(t, e),
         call[Top(t).id].set \/ Top(t).kind = "join", panics' \in Nat, panics =< panics', e =< panics',
         UNCHANGED <<queues, started, pool>>
  PROVE  Framed' /\ Stacked' /\ Called' /\ Jobs' /\ Opened'
<1>0. Shape /\ Framed /\ Stacked /\ Called /\ Jobs /\ Opened /\ Len(call) \in Nat /\ panics \in Nat
  BY DEF Struct, Shape
<1>1. PICK n : n = Len(stack[t]) - 1
  OBVIOUS
<1>2. PICK id : id = Top(t).id
  OBVIOUS
<1>3. PICK f, c :
           /\ Len(stack[t]) > 1 /\ n \in DOMAIN stack[t]
           /\ Stacks /\ Puts(t, n, f)
           /\ \/ f = [stack[t][n] EXCEPT !.err = 0] /\ stack[t][n].kind = "client"
              \/ f = [stack[t][n] EXCEPT !.err = e] /\ stack[t][n].kind # "client"
           /\ id \in 1 .. Len(call)
           /\ call' \in Seq(CallSet) /\ Len(call') = Len(call) /\ call'[id] = c
           /\ c.out = e /\ c.set = call[id].set /\ c.kind = call[id].kind
           /\ c.owner = call[id].owner
           /\ \A x \in 1 .. Len(call) : x # id => call'[x] = call[x]
  BY <1>1, <1>2, ReturnFacts
<1>4. CallsGrow
  BY <1>0, <1>3 DEF CallsGrow
<1>5. PICK g : g = stack[t][n]
  OBVIOUS
<1>6. g \in FrameSet /\ FrameOK(g) /\ FrameJobs(g)
  BY <1>0, <1>3, <1>5 DEF Shape, Framed, Jobs, FrameJobs
<1>7. Same(f, g) /\ f.pc = g.pc /\ f.pend = g.pend /\ f.todo = g.todo /\ f.err \in {0, e}
      /\ (f.err = 0 \/ f.err = e)
  BY <1>3, <1>5, <1>6 DEF Same, FrameSet
<1>8. n + 1 \in DOMAIN stack[t] /\ stack[t][n + 1] = Top(t) /\ n \in Nat /\ n >= 1 /\ Top(t) \in FrameSet
      /\ DOMAIN stack[t] = 1 .. n + 1
  <2>1. Len(stack[t]) \in Nat /\ DOMAIN stack[t] = 1 .. Len(stack[t]) /\ Top(t) = stack[t][Len(stack[t])]
        /\ Top(t) \in FrameSet
    BY <1>0, StackFacts DEF Shape
  <2> QED BY <1>1, <1>3, <2>1
<1>9. g.pc \in UserPcs /\ g.pend = NoJob
  <2>1. Above(t, Top(t), g)
    <3>1. PICK m : m = n + 1
      OBVIOUS
    <3>2. m \in DOMAIN stack[t] /\ m > 1 /\ m - 1 = n /\ stack[t][m] = Top(t)
      BY <1>8, <3>1
    <3>3. Above(t, stack[t][m], stack[t][m - 1])
      BY <1>0, <3>2 DEF Stacked
    <3> QED BY <1>5, <3>2, <3>3
  <2> QED BY <2>1 DEF Above, CallKinds, JobKinds, StackJobs
<1>10. FrameOK(f)'
  <2>1. f.kind = g.kind /\ f.id = g.id /\ f.env = g.env
    BY <1>7 DEF Same
  <2>2. KindPc(f) /\ PendOK(f)
    BY <1>6, <1>7, <1>9, <2>1 DEF FrameOK, KindPc, PendOK
  <2>3. f.pc \notin {"panicked", "recover"}
    BY <1>7, <1>9 DEF UserPcs
  <2>4. KindPc(f)' /\ PendOK(f)'
    BY <2>2 DEF KindPc, PendOK
  <2>5. f.err =< panics'
    BY <1>7
  <2> QED BY <1>3, <1>6, <1>7, <1>9, <2>1, <2>3, <2>4, <2>5 DEF FrameOK
<1>11. Framed'
  BY <1>0, <1>3, <1>4, <1>10, PutsFramed
<1>12. Stacked'
  <2>1. n = 1 => f.kind = IF t \in Workers THEN "main" ELSE "client"
    BY <1>0, <1>3, <1>5, <1>7 DEF Stacked, Same
  <2>2. n > 1 => Above(t, g, stack[t][n - 1])
    BY <1>0, <1>3, <1>5, <1>8 DEF Stacked
  <2>3. n > 1 => Above(t, f, stack[t][n - 1])
    BY <1>7, <2>2 DEF Above, Same
  <2> QED BY <1>0, <1>3, <2>1, <2>3, PutsStacked
<1>13. Anchor(t, n, f)
  BY <1>3, <1>5, <1>7 DEF Anchor
<1>14. Jobs'
  <2>1. FrameJobs(f)
    BY <1>6, <1>7, <1>9 DEF FrameJobs, JobOK, Same
  <2>2. f.env \subseteq 1 .. Len(call)
    BY <1>6, <1>7 DEF FrameOK, Same
  <2>3. FrameJobs(f)'
    BY <1>0, <1>3, <1>4, <1>13, <2>1, <2>2, FrameJobsKeep
  <2>4. QueueStep
    BY QueueSame DEF QueueStep
  <2>5. QueueJobs'
    BY <1>0, <1>3, <1>4, <1>13, <2>4, QueueStepJobs
  <2> QED BY <1>0, <1>3, <1>4, <1>13, <2>3, <2>5, PutsJobs
<1>15. t \in Clients => pool = "open"
  BY <1>0, ClientOpen DEF CallKinds
<1>16. Opened'
  BY <1>0, <1>3, <1>15, PutsOpened
<1>17. ASSUME NEW u \in Threads, NEW i \in DOMAIN stack'[u], stack'[u][i].kind \in CallKinds
       PROVE  /\ i \in DOMAIN stack[u] /\ stack[u][i].kind = stack'[u][i].kind /\ stack[u][i].id = stack'[u][i].id
              /\ stack[u][i].id \in 1 .. Len(call) /\ stack[u][i].id # id
  <2>1. i \in DOMAIN stack[u] /\ stack[u][i].kind = stack'[u][i].kind /\ stack[u][i].id = stack'[u][i].id
        /\ ~(u = t /\ i = n + 1)
    <3>1. CASE u = t /\ i = n
      BY <1>3, <1>5, <1>7, <1>8, <3>1 DEF Puts, Same
    <3>2. CASE ~(u = t /\ i = n)
      <4>1. i \in DOMAIN stack[u] /\ stack'[u][i] = stack[u][i] /\ (u # t \/ i < n)
        BY <1>3, <3>2, PutsAt DEF Stacks
      <4>2. i \in Nat
        BY <1>0, <4>1, StackFacts DEF Shape
      <4> QED BY <1>8, <4>1, <4>2
    <3> QED BY <3>1, <3>2
  <2>2. FrameOK(stack[u][i]) /\ stack[u][i] \in FrameSet
    BY <1>0, <2>1 DEF Framed, Shape
  <2>3. stack[u][i].kind \notin Rootless /\ stack[u][i].id \in Nat
    BY <1>17, <2>1, <2>2 DEF CallKinds, Rootless, FrameSet
  <2>4. stack[u][i].id # id
    <3>1. CASE u = t
      BY <1>0, <1>2, <1>8, <1>17, <2>1, <3>1 DEF Called
    <3>2. CASE u # t
      <4>1. call[stack[u][i].id].owner = u
        BY <1>0, <1>17, <2>1 DEF Called
      <4>2. call[id].owner = t
        BY <1>0, <1>2, <1>8 DEF Called
      <4> QED BY <3>2, <4>1, <4>2
    <3> QED BY <3>1, <3>2
  <2> QED BY <2>1, <2>2, <2>3, <2>4 DEF FrameOK
<1>18. ASSUME NEW u \in Threads, NEW i \in DOMAIN stack[u], stack[u][i].kind \in CallKinds, stack[u][i].id # id
       PROVE  i \in DOMAIN stack'[u] /\ stack[u][i].kind = stack'[u][i].kind /\ stack[u][i].id = stack'[u][i].id
  <2>0. i \in Nat
    BY <1>0, StackFacts DEF Shape
  <2>1. CASE u = t /\ i = n
    BY <1>3, <1>5, <1>7, <2>1, PutsAt DEF Stacks, Same
  <2>2. CASE u = t /\ i = n + 1
    BY <1>2, <1>8, <1>18, <2>2
  <2>3. CASE u # t \/ i < n
    BY <1>3, <2>3, PutsAt DEF Stacks
  <2> QED BY <1>8, <2>0, <2>1, <2>2, <2>3
<1>19. Called'
  <2>1. ASSUME NEW u \in Threads, NEW i \in DOMAIN stack'[u], stack'[u][i].kind \in CallKinds
        PROVE  LET d == call'[stack'[u][i].id] IN d.owner = u /\ d.kind = stack'[u][i].kind /\ d.out = None
    BY <1>0, <1>3, <1>17, <2>1 DEF Called
  <2>2. ASSUME NEW u \in Threads, NEW i \in DOMAIN stack'[u], NEW j \in DOMAIN stack'[u],
               stack'[u][i].kind \in CallKinds, stack'[u][j].kind \in CallKinds, stack'[u][i].id = stack'[u][j].id
        PROVE  i = j
    BY <1>0, <1>17, <2>2 DEF Called
  <2>3. ASSUME NEW x \in 1 .. Len(call'), call'[x].out = None
        PROVE  \E u \in Threads : \E i \in DOMAIN stack'[u] : stack'[u][i].kind \in CallKinds /\ stack'[u][i].id = x
    <3>1. x # id
      BY <1>3, <2>3, ThreadFacts
    <3>2. x \in 1 .. Len(call) /\ call[x].out = None
      BY <1>3, <2>3, <3>1
    <3>3. PICK u \in Threads : \E i \in DOMAIN stack[u] : IsCall(u, i, x)
      BY <1>0, <3>2 DEF Called
    <3> QED BY <1>18, <3>1, <3>3 DEF IsCall
  <2>4. ASSUME NEW x \in 1 .. Len(call'), call'[x].out # None
        PROVE  call'[x].set \/ call'[x].kind = "join"
    <3>1. CASE x = id
      <4>1. call[id].kind = Top(t).kind
        BY <1>0, <1>2, <1>8 DEF Called
      <4> QED BY <1>2, <1>3, <3>1, <4>1
    <3>2. CASE x # id
      BY <1>0, <1>3, <2>4, <3>2 DEF Called
    <3> QED BY <3>1, <3>2
  <2> QED BY <2>1, <2>2, <2>3, <2>4 DEF Called, IsCall
<1> QED BY <1>11, <1>12, <1>14, <1>16, <1>19

-----------------------------------------------------------------------------
(* The structure is kept, action by action: calls.                           *)
LEMMA RunsFacts ==
  ASSUME Struct, NEW t \in Threads, InUser(t)
  PROVE  /\ stack[t] # <<>> /\ Top(t).pc \in UserPcs /\ Top(t).pend = NoJob /\ Top(t).todo = {}
         /\ Top(t) \in FrameSet /\ FrameOK(Top(t)) /\ FrameJobs(Top(t))
         /\ Len(stack[t]) \in DOMAIN stack[t] /\ Top(t) = stack[t][Len(stack[t])]
<1>1. /\ stack[t] # <<>> /\ Top(t).pc \in UserPcs /\ Top(t).pend = NoJob
  BY DEF InUser
<1>2. Len(stack[t]) \in DOMAIN stack[t] /\ Top(t) = stack[t][Len(stack[t])] /\ Top(t) \in FrameSet
  BY <1>1, StackFacts DEF Struct, Shape
<1>3. FrameOK(Top(t)) /\ FrameJobs(Top(t))
  BY <1>2 DEF Struct, Framed, Jobs, FrameJobs
<1>4. Top(t).todo = {}
  BY <1>1, <1>3 DEF FrameOK, PendOK
<1> QED BY <1>1, <1>2, <1>3, <1>4

LEMMA NewFrameOK ==
  ASSUME Struct, NEW t \in Threads, NEW kind, NEW f, Begins(t, kind, f), f.err = 0, KindPc(f), PendOK(f),
         f.pc \in {"a", "op", "wait"}, UNCHANGED panics
  PROVE  FrameOK(f)'
<1>1. /\ Len(call') = Len(call) + 1 /\ Len(call) \in Nat /\ f.id = Len(call) + 1
      /\ Top(t).env \subseteq 1 .. Len(call)
  <2>1. Len(call) \in Nat /\ f.id = NextId
    BY DEF Begins, Struct, Shape
  <2> QED BY <2>1, BeginsFacts
<1>2. f.env \subseteq 1 .. Len(call')
  BY <1>1, BeginsFacts DEF Begins
<1>3. f.kind \notin Rootless
  BY DEF Begins, CallKinds, Rootless
<1>4. KindPc(f)' /\ PendOK(f)'
  BY DEF KindPc, PendOK
<1>5. f.err =< panics' /\ panics \in Nat
  BY DEF Struct, Shape
<1> QED BY <1>1, <1>2, <1>3, <1>4, <1>5 DEF FrameOK

LEMMA BeginsShape ==
  ASSUME Struct, NEW t \in Threads, NEW kind, NEW f, Begins(t, kind, f), UNCHANGED <<lifecycle, foreign, spawns, panics>>,
         deque' \in [Workers -> Seq(JobSet)], broadcasts' \in [Workers -> Seq(JobSet)], injected_jobs' \in Seq(JobSet)
  PROVE  Shape'
<1>1. stack' \in [Threads -> Seq(FrameSet)] /\ call' \in Seq(CallSet)
  BY BeginsFacts DEF Stacks
<1> QED BY <1>1 DEF Struct, Shape, lifecycle, foreign

LEMMA JoinForm ==
  ASSUME Struct, NEW t \in Threads, Join(t), NEW f, f = Frame("join", NextId, Top(t).env, "a"),
         NEW j, j = Job("join_b", NextId, Top(t).env)
  PROVE  Begins(t, "join", f) /\ QPush(<<"deque", t>>, j) /\ j \in JobSet
         /\ f.kind = "join" /\ f.id = NextId /\ f.pc = "a" /\ f.err = 0 /\ f.pend = NoJob /\ f.todo = {}
<1>1. /\ InUser(t) /\ t \in Workers
  BY DEF Join, Runs
<1>2. Top(t) \in FrameSet /\ stack[t] # <<>> /\ Top(t).pc \in UserPcs /\ Top(t).pend = NoJob /\ NextId \in Nat
  BY <1>1, RunsFacts DEF Struct, Shape, NextId
<1>3. Top(t).env \in SUBSET Nat
  BY <1>2 DEF FrameSet
<1>4. f \in FrameSet /\ f.kind = "join" /\ f.id = NextId /\ f.env = Top(t).env /\ f.pc = "a" /\ f.err = 0 /\ f.pend = NoJob
      /\ f.todo = {}
  BY <1>2, <1>3 DEF Frame, FrameSet, AllKinds, AllPcs, CallKinds, UserPcs
<1>5. j \in JobSet
  BY <1>2, <1>3 DEF Job, JobSet, JobKinds, StackJobs
<1>6. Begins(t, "join", f)
  BY <1>2, <1>4 DEF Begins, Join, CallKinds
<1>7. QWrites(<<"deque", t>>, Append(deque[t], j))
  BY <1>1, WriteDeque DEF Join, Struct
<1>8. QPush(<<"deque", t>>, j)
  BY <1>1, <1>7, QueueAt DEF QPush
<1> QED BY <1>4, <1>5, <1>6, <1>8

LEMMA JoinStruct ==
  ASSUME Struct, NEW t \in Threads, Join(t)
  PROVE  Struct'
<1>1. PICK f : f = Frame("join", NextId, Top(t).env, "a")
  OBVIOUS
<1>2. PICK j : j = Job("join_b", NextId, Top(t).env)
  OBVIOUS
<1>3. Begins(t, "join", f) /\ QPush(<<"deque", t>>, j) /\ j \in JobSet
      /\ f.kind = "join" /\ f.id = NextId /\ f.pc = "a" /\ f.err = 0 /\ f.pend = NoJob /\ f.todo = {}
  BY <1>1, <1>2, JoinForm
<1>4. FrameOK(f)'
  BY <1>3, NewFrameOK DEF Join, KindPc, PendOK
<1>5. j.id = NextId /\ j.env = Top(t).env /\ j.kind = "join_b"
  BY <1>2 DEF Job
<1>6. JobOK(j)'
  BY <1>3, <1>5, NewJobOK DEF Of
<1>7. QueueStep
  BY <1>3, <1>5, <1>6 DEF QueueStep, JobsPushed
<1>8. Framed' /\ Stacked' /\ Called' /\ Jobs' /\ Opened'
  <2>1. t \notin Clients /\ UNCHANGED <<panics, started, pool>>
    BY ThreadFacts DEF Join, lifecycle
  <2> QED BY <1>3, <1>4, <1>7, <2>1, BeginsKeeps
<1>9. Shape'
  <2>1. deque' = [deque EXCEPT ![t] = Append(@, j)] /\ deque \in [Workers -> Seq(JobSet)]
    BY <1>2 DEF Join, Struct, Shape
  <2>2. deque' \in [Workers -> Seq(JobSet)]
    <3>1. PICK s : s = Append(deque[t], j)
      OBVIOUS
    <3>2. s \in Seq(JobSet)
      BY <1>3, <2>1, <3>1 DEF Join
    <3> QED BY <2>1, <3>1, <3>2
  <2> QED BY <1>3, <2>2, BeginsShape DEF Join, Struct, Shape
<1> QED BY <1>8, <1>9 DEF Struct

LEMMA ScopeForm ==
  ASSUME Struct, NEW t \in Threads, Scope(t), NEW f, f = Frame("scope", NextId, Top(t).env \cup {NextId}, "op")
  PROVE  Begins(t, "scope", f) /\ QSame
         /\ f.kind = "scope" /\ f.id = NextId /\ f.pc = "op" /\ f.err = 0 /\ f.pend = NoJob /\ f.todo = {}
<1>1. InUser(t)
  BY DEF Scope, Runs, OpenTo
<1>2. Top(t) \in FrameSet /\ stack[t] # <<>> /\ Top(t).pc \in UserPcs /\ Top(t).pend = NoJob /\ NextId \in Nat
  BY <1>1, RunsFacts DEF Struct, Shape, NextId
<1>3. Top(t).env \cup {NextId} \in SUBSET Nat
  BY <1>2 DEF FrameSet
<1>4. f \in FrameSet /\ f.kind = "scope" /\ f.id = NextId /\ f.env = Top(t).env \cup {NextId} /\ f.pc = "op" /\ f.err = 0
      /\ f.pend = NoJob /\ f.todo = {}
  BY <1>2, <1>3 DEF Frame, FrameSet, AllKinds, AllPcs, CallKinds, UserPcs
<1>6. Begins(t, "scope", f)
  BY <1>2, <1>4 DEF Begins, Scope, CallKinds
<1> QED BY <1>4, <1>6, QueueSame DEF Scope

LEMMA ScopeStruct ==
  ASSUME Struct, NEW t \in Threads, Scope(t)
  PROVE  Struct'
<1>1. PICK f : f = Frame("scope", NextId, Top(t).env \cup {NextId}, "op")
  OBVIOUS
<1>3. Begins(t, "scope", f) /\ QSame
      /\ f.kind = "scope" /\ f.id = NextId /\ f.pc = "op" /\ f.err = 0 /\ f.pend = NoJob /\ f.todo = {}
  BY <1>1, ScopeForm
<1>4. FrameOK(f)'
  BY <1>3, NewFrameOK DEF Scope, KindPc, PendOK
<1>8. Framed' /\ Stacked' /\ Called' /\ Jobs' /\ Opened'
  <2>1. (t \in Clients => pool = "open") /\ UNCHANGED <<panics, started, pool>>
    BY DEF Scope, OpenTo, lifecycle
  <2> QED BY <1>3, <1>4, <2>1, BeginsKeeps DEF QueueStep
<1>9. Shape'
  BY <1>3, BeginsShape DEF Scope, Struct, Shape, queues
<1> QED BY <1>8, <1>9 DEF Struct

LEMMA InstallForm ==
  ASSUME Struct, NEW t \in Threads, Install(t), NEW f, f = Frame("install", NextId, {}, "wait"),
         NEW j, j = Job("install_op", NextId, Top(t).env)
  PROVE  Begins(t, "install", f) /\ QPush(<<"injected", 0>>, j) /\ j \in JobSet
         /\ f.kind = "install" /\ f.id = NextId /\ f.pc = "wait" /\ f.err = 0 /\ f.pend = NoJob /\ f.todo = {}
<1>1. InUser(t)
  BY DEF Install, Runs, OpenTo
<1>2. Top(t) \in FrameSet /\ stack[t] # <<>> /\ Top(t).pc \in UserPcs /\ Top(t).pend = NoJob /\ NextId \in Nat
  BY <1>1, RunsFacts DEF Struct, Shape, NextId
<1>3. Top(t).env \in SUBSET Nat
  BY <1>2 DEF FrameSet
<1>4. f \in FrameSet /\ f.kind = "install" /\ f.id = NextId /\ f.env = {} /\ f.pc = "wait" /\ f.err = 0 /\ f.pend = NoJob
      /\ f.todo = {}
  BY <1>2 DEF Frame, FrameSet, AllKinds, AllPcs, CallKinds, WaitPcs
<1>5. j \in JobSet
  BY <1>2, <1>3 DEF Job, JobSet, JobKinds, StackJobs
<1>6. Begins(t, "install", f)
  BY <1>2, <1>4 DEF Begins, Install, CallKinds
<1>7. QWrites(<<"injected", 0>>, Append(injected_jobs, j))
  BY WriteInjected DEF Install
<1>8. QPush(<<"injected", 0>>, j)
  BY <1>7, QueueAt DEF QPush
<1> QED BY <1>4, <1>5, <1>6, <1>8

LEMMA InstallStruct ==
  ASSUME Struct, NEW t \in Threads, Install(t)
  PROVE  Struct'
<1>1. PICK f : f = Frame("install", NextId, {}, "wait")
  OBVIOUS
<1>2. PICK j : j = Job("install_op", NextId, Top(t).env)
  OBVIOUS
<1>3. Begins(t, "install", f) /\ QPush(<<"injected", 0>>, j) /\ j \in JobSet
      /\ f.kind = "install" /\ f.id = NextId /\ f.pc = "wait" /\ f.err = 0 /\ f.pend = NoJob /\ f.todo = {}
  BY <1>1, <1>2, InstallForm
<1>4. FrameOK(f)'
  BY <1>3, NewFrameOK DEF Install, KindPc, PendOK
<1>5. j.id = NextId /\ j.env = Top(t).env /\ j.kind = "install_op"
  BY <1>2 DEF Job
<1>6. JobOK(j)'
  BY <1>3, <1>5, NewJobOK DEF Of
<1>7. QueueStep
  BY <1>3, <1>5, <1>6 DEF QueueStep, JobsPushed
<1>8. Framed' /\ Stacked' /\ Called' /\ Jobs' /\ Opened'
  <2>1. (t \in Clients => pool = "open") /\ UNCHANGED <<panics, started, pool>>
    BY DEF Install, OpenTo, lifecycle
  <2> QED BY <1>3, <1>4, <1>7, <2>1, BeginsKeeps
<1>9. Shape'
  <2>1. injected_jobs' = Append(injected_jobs, j) /\ injected_jobs \in Seq(JobSet)
    BY <1>2 DEF Install, Struct, Shape
  <2>2. injected_jobs' \in Seq(JobSet)
    BY <1>3, <2>1
  <2> QED BY <1>3, <2>2, BeginsShape DEF Install, Struct, Shape
<1> QED BY <1>8, <1>9 DEF Struct

BroadcastFrame(j) == [Frame("broadcast", NextId, {}, "wait") EXCEPT !.pend = j, !.todo = Workers]

LEMMA BroadcastForm ==
  ASSUME Struct, NEW t \in Threads, Broadcast(t), NEW j, j = Job("broadcast_op", NextId, Top(t).env),
         NEW f, f = BroadcastFrame(j)
  PROVE  Begins(t, "broadcast", f) /\ QSame /\ j \in JobSet
         /\ f.kind = "broadcast" /\ f.id = NextId /\ f.pc = "wait" /\ f.err = 0 /\ f.pend = j /\ f.todo = Workers
<1>1. InUser(t)
  BY DEF Broadcast, Runs, OpenTo
<1>2. Top(t) \in FrameSet /\ stack[t] # <<>> /\ Top(t).pc \in UserPcs /\ Top(t).pend = NoJob /\ NextId \in Nat
  BY <1>1, RunsFacts DEF Struct, Shape, NextId
<1>3. Top(t).env \in SUBSET Nat
  BY <1>2 DEF FrameSet
<1>5. j \in JobSet
  BY <1>2, <1>3 DEF Job, JobSet, JobKinds, StackJobs
<1>4. f \in FrameSet /\ f.kind = "broadcast" /\ f.id = NextId /\ f.env = {} /\ f.pc = "wait" /\ f.err = 0 /\ f.pend = j
      /\ f.todo = Workers
  BY <1>2, <1>5 DEF BroadcastFrame, Frame, FrameSet, AllKinds, AllPcs, CallKinds, WaitPcs
<1>6. Begins(t, "broadcast", f)
  BY <1>2, <1>4 DEF Begins, Broadcast, CallKinds, BroadcastFrame
<1> QED BY <1>4, <1>5, <1>6, QueueSame DEF Broadcast

LEMMA JobNotNone ==
  ASSUME NEW j \in JobSet PROVE j # NoJob
  BY DEF JobSet, NoJob, Job, JobKinds, StackJobs

LEMMA BroadcastStruct ==
  ASSUME Struct, NEW t \in Threads, Broadcast(t)
  PROVE  Struct'
<1>2. PICK j : j = Job("broadcast_op", NextId, Top(t).env)
  OBVIOUS
<1>1. PICK f : f = BroadcastFrame(j)
  OBVIOUS
<1>3. Begins(t, "broadcast", f) /\ QSame /\ j \in JobSet
      /\ f.kind = "broadcast" /\ f.id = NextId /\ f.pc = "wait" /\ f.err = 0 /\ f.pend = j /\ f.todo = Workers
  BY <1>1, <1>2, BroadcastForm
<1>5. j.id = NextId /\ j.env = Top(t).env /\ j.kind = "broadcast_op" /\ j # NoJob
  BY <1>2, <1>3, JobNotNone DEF Job
<1>4. FrameOK(f)'
  <2>1. KindPc(f) /\ PendOK(f)
    BY <1>3, <1>5, ThreadFacts DEF KindPc, PendOK
  <2> QED BY <1>3, <2>1, NewFrameOK DEF Broadcast
<1>6. JobOK(j)'
  BY <1>3, <1>5, NewJobOK DEF Of
<1>8. Framed' /\ Stacked' /\ Called' /\ Jobs' /\ Opened'
  <2>1. (t \in Clients => pool = "open") /\ UNCHANGED <<panics, started, pool>>
    BY DEF Broadcast, OpenTo, lifecycle
  <2> QED BY <1>3, <1>4, <1>6, <2>1, BeginsKeeps DEF QueueStep
<1>9. Shape'
  BY <1>3, BeginsShape DEF Broadcast, Struct, Shape, queues
<1> QED BY <1>8, <1>9 DEF Struct

-----------------------------------------------------------------------------
(* The structure: spawning and pushing jobs.                                 *)
LEMMA TopFacts ==
  ASSUME Struct, NEW t \in Threads, stack[t] # <<>>
  PROVE  /\ Top(t) \in FrameSet /\ FrameOK(Top(t)) /\ FrameJobs(Top(t))
         /\ Len(stack[t]) \in DOMAIN stack[t] /\ Top(t) = stack[t][Len(stack[t])]
         /\ Len(stack[t]) \in Nat /\ DOMAIN stack[t] = 1 .. Len(stack[t])
         /\ Top(t).kind \in CallKinds \cup (JobKinds \ {"spawned"}) => Top(t).id \in 1 .. Len(call)
<1>1. Len(stack[t]) \in DOMAIN stack[t] /\ Top(t) = stack[t][Len(stack[t])] /\ Top(t) \in FrameSet
      /\ Len(stack[t]) \in Nat /\ DOMAIN stack[t] = 1 .. Len(stack[t])
  BY StackFacts DEF Struct, Shape
<1>2. FrameOK(Top(t)) /\ FrameJobs(Top(t))
  BY <1>1 DEF Struct, Framed, Jobs, FrameJobs
<1>3. ASSUME Top(t).kind \in CallKinds \cup (JobKinds \ {"spawned"}) PROVE Top(t).id \in 1 .. Len(call)
  <2>1. Top(t).kind \notin Rootless /\ Top(t).id \in Nat
    BY <1>1, <1>3 DEF CallKinds, JobKinds, StackJobs, Rootless, FrameSet
  <2> QED BY <1>2, <2>1 DEF FrameOK
<1> QED BY <1>1, <1>2, <1>3

LEMMA ScopeJobOK ==
  ASSUME Struct, NEW t \in Threads, stack[t] # <<>>, NEW s \in Top(t).env,
         NEW j, j = Job("scope_job", s, {o \in Top(t).env : o =< s})
  PROVE  /\ JobOK(j) /\ j \in JobSet /\ j # NoJob /\ j.kind = "scope_job" /\ j.id = s /\ j.env \subseteq Top(t).env
         /\ s \in 1 .. Len(call) /\ call[s].kind = "scope"
<1>1. /\ j.kind = "scope_job" /\ j.id = s /\ j.env = {o \in Top(t).env : o =< s}
  BY DEF Job
<1>2. Top(t) \in FrameSet /\ FrameOK(Top(t)) /\ FrameJobs(Top(t))
  BY TopFacts
<1>3. PICK e : e = Top(t).env
  OBVIOUS
<1>4. e \subseteq 1 .. Len(call) /\ Lexical(e) /\ s \in e /\ e \subseteq Nat
  BY <1>2, <1>3 DEF FrameOK, FrameJobs, FrameSet
<1>5. j \in JobSet
  BY <1>1, <1>3, <1>4 DEF Job, JobSet, JobKinds
<1>6. call[s].kind = "scope"
  BY <1>4 DEF Lexical
<1>7. Lexical(j.env)
  BY <1>1, <1>3, <1>4 DEF Lexical
<1>8. Rooted(s, j.env)
  <2>1. ASSUME NEW u \in Threads, NEW i \in DOMAIN stack[u], IsCall(u, i, s), NEW o \in j.env, o # s
        PROVE  o \in stack[u][i - 1].env
    <3>1. stack[u][i].kind = "scope" /\ stack[u][i].id = s
      BY <1>6, <2>1 DEF Struct, Called, IsCall
    <3>2. o \in e /\ o < s
      BY <1>1, <1>3, <1>4, <2>1
    <3> QED BY <1>4, <3>1, <3>2 DEF Lexical
  <2> QED BY <2>1 DEF Rooted
<1>9. JobOK(j)
  BY <1>1, <1>3, <1>4, <1>6, <1>7, <1>8 DEF JobOK, Of
<1> QED BY <1>1, <1>4, <1>5, <1>6, <1>9, JobNotNone

LEMMA SpawnedJobOK ==
  ASSUME Struct, NEW j, j = Job("spawned", 0, {})
  PROVE  JobOK(j) /\ j \in JobSet /\ j # NoJob /\ j.kind = "spawned" /\ j.id = 0 /\ j.env = {}
<1>1. j.kind = "spawned" /\ j.id = 0 /\ j.env = {} /\ j \in JobSet
  BY DEF Job, JobSet, JobKinds
<1> QED BY <1>1, JobNotNone DEF JobOK, Lexical

\* A running frame that gets a job to push.
WithPend(g, j, T) == [g EXCEPT !.pend = j, !.todo = T]

LEMMA PendFrameOK ==
  ASSUME Struct, NEW t \in Threads, Runs(t), NEW j \in JobSet, NEW T \in SUBSET Workers, NEW f,
         f = WithPend(Top(t), j, T),
         \/ j.kind = "spawned" /\ j.id = 0 /\ j.env = {}
         \/ j.kind = "scope_job" /\ j.id \in Top(t).env /\ j.env \subseteq Top(t).env
  PROVE  /\ FrameOK(f) /\ f \in FrameSet /\ Same(f, Top(t)) /\ f.pend = j /\ f.todo = T /\ f.pc = Top(t).pc
         /\ f.err = 0 /\ stack[t] # <<>>
<1>1. Top(t) \in FrameSet /\ FrameOK(Top(t)) /\ Top(t).pc \in UserPcs /\ Top(t).err = 0 /\ stack[t] # <<>>
  BY RunsFacts DEF Runs
<1>2. PICK g : g = Top(t)
  OBVIOUS
<1>3. f \in FrameSet /\ f.kind = g.kind /\ f.id = g.id /\ f.env = g.env /\ f.pc = g.pc /\ f.err = g.err /\ f.pend = j
      /\ f.todo = T
  BY <1>1, <1>2 DEF FrameSet, WithPend
<1>4. PendOK(f)
  BY <1>1, <1>2, <1>3, JobNotNone DEF PendOK
<1>5. KindPc(f)
  BY <1>1, <1>2, <1>3 DEF FrameOK, KindPc
<1> QED BY <1>1, <1>2, <1>3, <1>4, <1>5 DEF FrameOK, Same

\* What else a step keeps.
QueuesTyped == deque' \in [Workers -> Seq(JobSet)] /\ broadcasts' \in [Workers -> Seq(JobSet)]
                 /\ injected_jobs' \in Seq(JobSet)
Calm ==
  /\ UNCHANGED <<started, stopped, pool>>
  /\ terminate_count' \in Int /\ terminate' \in [Workers -> BOOLEAN]
  /\ clones' \in [Foreign -> SUBSET Threads] /\ left' \subseteq Foreign
  /\ spawns' \in Nat /\ panics' \in Nat /\ panics =< panics'

LEMMA CalmSame ==
  ASSUME Shape, UNCHANGED <<lifecycle, foreign, panics>>, spawns' \in Nat PROVE Calm
  BY DEF Shape, Calm, lifecycle, foreign

LEMMA QueuesSameTyped ==
  ASSUME Shape, UNCHANGED queues PROVE QueuesTyped /\ QSame /\ QueueStep
  BY QueueSame DEF Shape, queues, QueuesTyped, QueueStep

LEMMA SetStruct ==
  ASSUME Struct, NEW t \in Threads, stack[t] # <<>>, NEW f \in FrameSet, Same(f, Top(t)), stack' = SetTop(t, f),
         FrameOK(f)', f.pend # NoJob => JobOK(f.pend), CallsKeep, Calm, QueueStep, QueuesTyped,
         t \in Clients => pool = "open" \/ f.kind = "terminator"
  PROVE  Struct'
<1>1. UNCHANGED <<started, pool>> /\ panics' \in Nat /\ panics =< panics'
  BY DEF Calm
<1>2. Framed' /\ Stacked' /\ Called' /\ Jobs' /\ Opened' /\ Stacks
  BY <1>1, SetTopKeeps
<1>3. stack' \in [Threads -> Seq(FrameSet)] /\ call' \in Seq(CallSet)
  BY <1>2 DEF Stacks, CallsKeep
<1>4. Shape'
  BY <1>3 DEF Struct, Shape, Calm, QueuesTyped
<1> QED BY <1>2, <1>4 DEF Struct

LEMMA PopStruct ==
  ASSUME Struct, NEW t \in Threads, stack[t] # <<>>, Top(t).kind \in JobKinds \cup {"terminator"},
         stack' = PopFrame(t), CallsKeep, Calm, UNCHANGED <<queues, panics>>
  PROVE  Struct'
<1>1. UNCHANGED <<panics, started, pool, queues>>
  BY DEF Calm
<1>2. Framed' /\ Stacked' /\ Called' /\ Jobs' /\ Opened' /\ Stacks
  BY <1>1, PopKeeps
<1>3. stack' \in [Threads -> Seq(FrameSet)] /\ call' \in Seq(CallSet)
  BY <1>2 DEF Stacks, CallsKeep
<1>4. Shape'
  BY <1>3 DEF Struct, Shape, Calm, queues
<1> QED BY <1>2, <1>4 DEF Struct

LEMMA ExecuteStruct ==
  ASSUME Struct, NEW t \in Workers, stack[t] # <<>>, Top(t).pc \in WaitPcs \cup {"loop"}, Top(t).pend = NoJob,
         NEW j \in JobSet, JobOK(j), Execute(t, j), QueueStep, QueuesTyped, Calm, UNCHANGED <<call, panics>>
  PROVE  Struct'
<1>1. UNCHANGED <<call, panics, started, pool>>
  BY DEF Calm
<1>2. Framed' /\ Stacked' /\ Called' /\ Jobs' /\ Opened' /\ Stacks
  BY <1>1, ExecuteKeeps
<1>3. stack' \in [Threads -> Seq(FrameSet)]
  BY <1>2 DEF Stacks
<1>4. Shape'
  BY <1>3 DEF Struct, Shape, Calm, QueuesTyped
<1> QED BY <1>2, <1>4 DEF Struct

LEMMA ReturnStruct ==
  ASSUME Struct, NEW t \in Threads, stack[t] # <<>>, Top(t).kind \in CallKinds, NEW e \in Nat, Return(t, e),
         call[Top(t).id].set \/ Top(t).kind = "join", Calm, e =< panics', UNCHANGED queues
  PROVE  Struct'
<1>1. UNCHANGED <<started, pool, queues>> /\ panics' \in Nat /\ panics =< panics'
  BY DEF Calm
<1>2. Framed' /\ Stacked' /\ Called' /\ Jobs' /\ Opened'
  BY <1>1, ReturnKeeps
<1>3. stack' \in [Threads -> Seq(FrameSet)] /\ call' \in Seq(CallSet)
  BY ReturnFacts DEF Stacks
<1>4. Shape'
  BY <1>3 DEF Struct, Shape, Calm, queues
<1> QED BY <1>2, <1>4 DEF Struct

LEMMA FrameOKNext ==
  ASSUME NEW f \in FrameSet, FrameOK(f), CallsGrow, panics \in Nat, panics' \in Nat, panics =< panics'
  PROVE  FrameOK(f)'
  BY DEF FrameOK, CallsGrow, FrameSet

\* One field of one call is written.
LEMMA CountWrites ==
  ASSUME Shape, NEW id \in 1 .. Len(call), NEW d \in Int, call' = [call EXCEPT ![id].count = d]
  PROVE  \E c : /\ c \in CallSet /\ call' \in Seq(CallSet) /\ Len(call') = Len(call)
                /\ call'[id] = c /\ (\A x \in 1 .. Len(call) : x # id => call'[x] = call[x])
                /\ c.count = d /\ c.kind = call[id].kind /\ c.owner = call[id].owner /\ c.set = call[id].set
                /\ c.out = call[id].out /\ c.result = call[id].result /\ c.panic = call[id].panic
                /\ c.seen = call[id].seen
                /\ CallsKeep
<1>1. call \in Seq(CallSet) /\ call[id] \in CallSet
  BY DEF Shape
<1>2. PICK c : c = [call[id] EXCEPT !.count = d]
  OBVIOUS
<1>3. /\ c \in CallSet /\ c.count = d /\ c.kind = call[id].kind /\ c.owner = call[id].owner /\ c.set = call[id].set
      /\ c.out = call[id].out /\ c.result = call[id].result /\ c.panic = call[id].panic
      /\ c.seen = call[id].seen
  BY <1>1, <1>2 DEF CallSet
<1>4. call' = [call EXCEPT ![id] = c]
  BY <1>2
<1>5. /\ call' \in Seq(CallSet) /\ Len(call') = Len(call) /\ call'[id] = c
      /\ \A x \in 1 .. Len(call) : x # id => call'[x] = call[x]
  BY <1>3, <1>4, CallWrites
<1>6. CallsKeep
  BY <1>3, <1>5 DEF CallsKeep
<1> QED BY <1>2, <1>3, <1>5, <1>6

LEMMA ScopeSpawnForm ==
  ASSUME Struct, NEW t \in Threads, Runs(t), ScopeSpawn(t)
  PROVE  \E s \in Top(t).env : \E j, f :
           /\ j = Job("scope_job", s, {o \in Top(t).env : o =< s})
           /\ f = WithPend(Top(t), j, {}) /\ stack' = SetTop(t, f)
           /\ call' = [call EXCEPT ![s].count = call[s].count + 1]
           /\ spawns' = spawns + 1 /\ spawns < MaxSpawns
<1>1. PICK s \in Top(t).env :
        /\ stack' = SetTop(t, [Top(t) EXCEPT !.pend = Job("scope_job", s, {o \in Top(t).env : o =< s})])
        /\ call' = [call EXCEPT ![s].count = @ + 1] /\ UNCHANGED queues
        /\ spawns' = spawns + 1 /\ spawns < MaxSpawns
  BY DEF ScopeSpawn
<1>2. PICK j : j = Job("scope_job", s, {o \in Top(t).env : o =< s})
  OBVIOUS
<1>3. Top(t).todo = {} /\ Top(t) \in FrameSet
  BY RunsFacts DEF Runs
<1>4. PICK g : g = Top(t)
  OBVIOUS
<1>5. [g EXCEPT !.pend = j] = WithPend(g, j, {})
  BY <1>3, <1>4 DEF FrameSet, WithPend
<1> QED BY <1>1, <1>2, <1>4, <1>5

LEMMA ScopeSpawnStruct ==
  ASSUME Struct, NEW t \in Threads, Runs(t), t \in Clients => pool = "open", ScopeSpawn(t)
  PROVE  Struct'
<1>1. PICK s \in Top(t).env : \E j, f :
           /\ j = Job("scope_job", s, {o \in Top(t).env : o =< s})
           /\ f = WithPend(Top(t), j, {}) /\ stack' = SetTop(t, f)
           /\ call' = [call EXCEPT ![s].count = call[s].count + 1]
           /\ spawns' = spawns + 1 /\ spawns < MaxSpawns
  BY ScopeSpawnForm
<1>2. PICK j, f :
           /\ j = Job("scope_job", s, {o \in Top(t).env : o =< s})
           /\ f = WithPend(Top(t), j, {}) /\ stack' = SetTop(t, f)
           /\ call' = [call EXCEPT ![s].count = call[s].count + 1]
           /\ spawns' = spawns + 1
  BY <1>1
<1>3. stack[t] # <<>> /\ Shape /\ panics \in Nat /\ spawns \in Nat
  BY RunsFacts DEF Runs, Struct, Shape
<1>4. /\ JobOK(j) /\ j \in JobSet /\ j.kind = "scope_job" /\ j.id = s /\ j.env \subseteq Top(t).env
      /\ s \in 1 .. Len(call)
  BY <1>2, <1>3, ScopeJobOK
<1>5. FrameOK(f) /\ f \in FrameSet /\ Same(f, Top(t)) /\ f.pend = j
  BY <1>2, <1>4, PendFrameOK
<1>6. call[s].count + 1 \in Int
  <2>1. call[s] \in CallSet
    BY <1>3, <1>4 DEF Shape
  <2> QED BY <2>1 DEF CallSet
<1>7. CallsKeep
  BY <1>2, <1>3, <1>4, <1>6, CountWrites
<1>9. Calm /\ UNCHANGED <<queues, panics>>
  <2>1. UNCHANGED <<lifecycle, foreign, panics, queues>> /\ spawns' \in Nat
    BY <1>2, <1>3 DEF ScopeSpawn
  <2> QED BY <1>3, <2>1, CalmSame
<1>8. FrameOK(f)'
  BY <1>3, <1>5, <1>7, <1>9, KeepGrows, FrameOKNext
<1>10. QueueStep /\ QueuesTyped
  BY <1>3, <1>9, QueuesSameTyped
<1>11. stack' = SetTop(t, f)
  BY <1>2
<1> QED BY <1>3, <1>4, <1>5, <1>7, <1>8, <1>9, <1>10, <1>11, SetStruct

LEMMA SpawnForm ==
  ASSUME Struct, NEW t \in Threads, Runs(t), Spawn(t)
  PROVE  \E j, f : j = Job("spawned", 0, {}) /\ f = WithPend(Top(t), j, {}) /\ stack' = SetTop(t, f)
<1>2. PICK j : j = Job("spawned", 0, {})
  OBVIOUS
<1>3. Top(t).todo = {} /\ Top(t) \in FrameSet
  BY RunsFacts DEF Runs
<1>4. PICK g : g = Top(t)
  OBVIOUS
<1>5. [g EXCEPT !.pend = j] = WithPend(g, j, {})
  BY <1>3, <1>4 DEF FrameSet, WithPend
<1> QED BY <1>2, <1>4, <1>5 DEF Spawn

LEMMA SpawnStruct ==
  ASSUME Struct, NEW t \in Threads, Runs(t), t \in Clients => pool = "open", Spawn(t)
  PROVE  Struct'
<1>2. PICK j, f : j = Job("spawned", 0, {}) /\ f = WithPend(Top(t), j, {}) /\ stack' = SetTop(t, f)
  BY SpawnForm
<1>3. stack[t] # <<>> /\ Shape /\ panics \in Nat
  BY RunsFacts DEF Runs, Struct, Shape
<1>4. JobOK(j) /\ j \in JobSet /\ j.kind = "spawned" /\ j.id = 0 /\ j.env = {}
  BY <1>2, SpawnedJobOK
<1>5. FrameOK(f) /\ f \in FrameSet /\ Same(f, Top(t)) /\ f.pend = j
  BY <1>2, <1>4, PendFrameOK
<1>9. Calm /\ UNCHANGED <<call, queues, panics>>
  BY <1>3 DEF Spawn, Shape, Calm, foreign
<1>7. CallsKeep
  BY <1>3, <1>9, CallSame
<1>8. FrameOK(f)'
  BY <1>3, <1>5, <1>7, <1>9, KeepGrows, FrameOKNext
<1>10. QueueStep /\ QueuesTyped
  BY <1>3, <1>9, QueuesSameTyped
<1>11. stack' = SetTop(t, f)
  BY <1>2
<1> QED BY <1>3, <1>4, <1>5, <1>7, <1>8, <1>9, <1>10, <1>11, SetStruct

LEMMA SpawnBroadcastForm ==
  ASSUME Struct, NEW t \in Threads, Runs(t), SpawnBroadcast(t)
  PROVE  \E j, f :
           /\ f = WithPend(Top(t), j, Workers) /\ stack' = SetTop(t, f)
           /\ JobOK(j) /\ j \in JobSet
           /\ \/ j.kind = "spawned" /\ j.id = 0 /\ j.env = {}
              \/ /\ j.kind = "scope_job" /\ j.id \in Top(t).env /\ j.env \subseteq Top(t).env
                 /\ call[j.id].kind = "scope" /\ j.id \in 1 .. Len(call)
<1>1. PICK j \in {Job("spawned", 0, {})} \cup
             {Job("scope_job", s, {o \in Top(t).env : o =< s}) : s \in Top(t).env} :
        stack' = SetTop(t, [Top(t) EXCEPT !.pend = j, !.todo = Workers])
  BY DEF SpawnBroadcast
<1>2. stack[t] # <<>>
  BY RunsFacts DEF Runs
<1>5. PICK f : f = WithPend(Top(t), j, Workers)
  OBVIOUS
<1>6. stack' = SetTop(t, f)
  BY <1>1, <1>5 DEF WithPend
<1>3. CASE j = Job("spawned", 0, {})
  BY <1>3, <1>5, <1>6, SpawnedJobOK
<1>4. ASSUME NEW s \in Top(t).env, j = Job("scope_job", s, {o \in Top(t).env : o =< s})
      PROVE  /\ JobOK(j) /\ j \in JobSet
             /\ j.kind = "scope_job" /\ j.id \in Top(t).env /\ j.env \subseteq Top(t).env
             /\ call[j.id].kind = "scope" /\ j.id \in 1 .. Len(call)
  BY <1>2, <1>4, ScopeJobOK
<1> QED BY <1>1, <1>3, <1>4, <1>5, <1>6

LEMMA SpawnBroadcastStruct ==
  ASSUME Struct, NEW t \in Threads, Runs(t), t \in Clients => pool = "open", SpawnBroadcast(t)
  PROVE  Struct'
<1>2. PICK j, f :
           /\ f = WithPend(Top(t), j, Workers) /\ stack' = SetTop(t, f)
           /\ JobOK(j) /\ j \in JobSet
           /\ \/ j.kind = "spawned" /\ j.id = 0 /\ j.env = {}
              \/ j.kind = "scope_job" /\ j.id \in Top(t).env /\ j.env \subseteq Top(t).env
  BY SpawnBroadcastForm
<1>3. stack[t] # <<>> /\ Shape /\ panics \in Nat /\ spawns \in Nat
  BY RunsFacts DEF Runs, Struct, Shape
<1>5. FrameOK(f) /\ f \in FrameSet /\ Same(f, Top(t)) /\ f.pend = j
  BY <1>2, PendFrameOK
<1>9. Calm /\ UNCHANGED <<call, queues, panics>>
  <2>1. UNCHANGED <<call, lifecycle, foreign, panics, queues>> /\ spawns' \in Nat
    BY <1>3, ThreadFacts DEF SpawnBroadcast
  <2> QED BY <1>3, <2>1, CalmSame
<1>7. CallsKeep
  BY <1>3, <1>9, CallSame
<1>8. FrameOK(f)'
  BY <1>3, <1>5, <1>7, <1>9, KeepGrows, FrameOKNext
<1>10. QueueStep /\ QueuesTyped
  BY <1>3, <1>9, QueuesSameTyped
<1>11. stack' = SetTop(t, f) /\ (f.pend # NoJob => JobOK(f.pend))
  BY <1>2, <1>5
<1> QED BY <1>3, <1>5, <1>7, <1>8, <1>9, <1>10, <1>11, SetStruct

\* A frame that has pushed a job.
LEMMA PushedFrameOK ==
  ASSUME NEW g \in FrameSet, FrameOK(g), NEW p, NEW T \in SUBSET Workers, NEW h, h = WithPend(g, p, T),
         \/ p = NoJob /\ T = {}
         \/ p = g.pend /\ T # {} /\ g.todo # {}
  PROVE  /\ FrameOK(h) /\ h \in FrameSet /\ Same(h, g) /\ h.pend = p /\ h.todo = T /\ h.pc = g.pc /\ h.err = g.err
         /\ h.kind = g.kind /\ h.id = g.id /\ h.env = g.env
<1>1. h \in FrameSet /\ h.kind = g.kind /\ h.id = g.id /\ h.env = g.env /\ h.pc = g.pc /\ h.err = g.err /\ h.pend = p
      /\ h.todo = T
  BY DEF FrameSet, WithPend
<1>2. PendOK(h)
  BY <1>1 DEF PendOK, FrameOK
<1>3. KindPc(h)
  BY <1>1 DEF KindPc, FrameOK
<1> QED BY <1>1, <1>2, <1>3 DEF FrameOK, Same

\* What a frame has to push.
LEMMA PendFacts ==
  ASSUME Struct, NEW t \in Threads, stack[t] # <<>>, Top(t).pend # NoJob
  PROVE  /\ Top(t).pend \in JobSet /\ JobOK(Top(t).pend) /\ (t \in Clients => pool = "open")
         /\ Top(t).todo = {} => Top(t).pend.kind \in {"scope_job", "spawned"} /\ Top(t).pc \in UserPcs
         /\ Top(t).todo # {} => Top(t).pend.kind \in {"scope_job", "spawned", "broadcast_op"}
         /\ Top(t).pend.kind = "broadcast_op" => Top(t).kind = "broadcast" /\ Top(t).pend.id = Top(t).id
         /\ Top(t).pend.kind = "spawned" => Top(t).pend.id = 0
         /\ Top(t).pend.kind = "scope_job" => /\ Top(t).pc \in UserPcs /\ Top(t).pend.id \in Top(t).env
                                              /\ Top(t).pend.id \in 1 .. Len(call) /\ call[Top(t).pend.id].kind = "scope"
<1>1. Top(t) \in FrameSet /\ FrameOK(Top(t)) /\ FrameJobs(Top(t))
  BY TopFacts
<1>2. PICK g : g = Top(t)
  OBVIOUS
<1>3. g.pend \in JobSet /\ JobOK(g.pend)
  BY <1>1, <1>2 DEF FrameSet, FrameJobs
<1>4. PendOK(g) /\ KindPc(g)
  BY <1>1, <1>2 DEF FrameOK
<1>5. g.kind # "terminator"
  BY <1>2, <1>4 DEF PendOK, KindPc, UserPcs, JobKinds, StackJobs
<1>6. t \in Clients => pool = "open"
  BY <1>2, <1>5, ClientOpen DEF Struct
<1>7. g.todo = {} => g.pend.kind \in {"scope_job", "spawned"} /\ g.pc \in UserPcs
  BY <1>2, <1>4 DEF PendOK
<1>8. /\ g.todo # {} => g.pend.kind \in {"scope_job", "spawned", "broadcast_op"}
      /\ g.pend.kind = "broadcast_op" => g.kind = "broadcast" /\ g.pend.id = g.id
      /\ g.pend.kind = "spawned" => g.pend.id = 0
      /\ g.pend.kind = "scope_job" => g.pc \in UserPcs /\ g.pend.id \in g.env
  BY <1>2, <1>4 DEF PendOK
<1>9. g.pend.kind = "scope_job" => g.pend.id \in 1 .. Len(call) /\ call[g.pend.id].kind = "scope"
  BY <1>3 DEF JobOK, Of
<1> QED BY <1>2, <1>3, <1>6, <1>7, <1>8, <1>9

LEMMA PushForm ==
  ASSUME Struct, NEW t \in Threads, Push(t)
  PROVE  \E h, q : /\ h = WithPend(Top(t), NoJob, {}) /\ stack' = SetTop(t, h)
                   /\ QPush(q, Top(t).pend) /\ QueuesTyped /\ q[1] # "bcast" /\ broadcasts' = broadcasts
<1>1. stack[t] # <<>> /\ Top(t).pend # NoJob /\ Top(t).todo = {} /\ UNCHANGED broadcasts
  BY DEF Push
<1>2. PICK g : g = Top(t)
  OBVIOUS
<1>3. g \in FrameSet /\ g.pend \in JobSet
  BY <1>1, <1>2, PendFacts, TopFacts
<1>4. [g EXCEPT !.pend = NoJob] = WithPend(g, NoJob, {})
  BY <1>1, <1>2, <1>3 DEF FrameSet, WithPend
<1>5. stack' = SetTop(t, WithPend(g, NoJob, {}))
  BY <1>2, <1>4 DEF Push
<1>6. CASE t \in Workers
  <2>1. PICK s : s = Append(deque[t], g.pend)
    OBVIOUS
  <2>2. deque' = [deque EXCEPT ![t] = s] /\ UNCHANGED <<broadcasts, injected_jobs>> /\ Shape
    BY <1>2, <1>6, <2>1 DEF Push, Struct
  <2>3. QWrites(<<"deque", t>>, s)
    BY <1>6, <2>2, WriteDeque
  <2>4. QPush(<<"deque", t>>, g.pend)
    BY <1>6, <2>1, <2>3, QueueAt DEF QPush
  <2>5. s \in Seq(JobSet)
    BY <1>3, <1>6, <2>1, <2>2 DEF Shape
  <2>6. QueuesTyped
    BY <2>2, <2>5 DEF Shape, QueuesTyped
  <2> QED BY <1>1, <1>2, <1>5, <2>4, <2>6
<1>7. CASE t \notin Workers
  <2>2. injected_jobs' = Append(injected_jobs, g.pend) /\ UNCHANGED <<broadcasts, deque>> /\ Shape
    BY <1>2, <1>7 DEF Push, Struct
  <2>3. QWrites(<<"injected", 0>>, injected_jobs')
    BY <2>2, WriteInjected
  <2>4. QPush(<<"injected", 0>>, g.pend)
    BY <2>2, <2>3, QueueAt DEF QPush
  <2>6. QueuesTyped
    BY <1>3, <2>2 DEF Shape, QueuesTyped
  <2> QED BY <1>1, <1>2, <1>5, <2>4, <2>6
<1> QED BY <1>6, <1>7

LEMMA PushStruct ==
  ASSUME Struct, NEW t \in Threads, Push(t)
  PROVE  Struct'
<1>1. PICK h, q : /\ h = WithPend(Top(t), NoJob, {}) /\ stack' = SetTop(t, h)
                   /\ QPush(q, Top(t).pend) /\ QueuesTyped /\ q[1] # "bcast"
  BY PushForm
<1>2. stack[t] # <<>> /\ Top(t).pend # NoJob /\ Top(t).todo = {} /\ Shape /\ panics \in Nat
  BY DEF Push, Struct, Shape
<1>3. Top(t) \in FrameSet /\ FrameOK(Top(t))
  BY <1>2, TopFacts
<1>4. FrameOK(h) /\ h \in FrameSet /\ Same(h, Top(t)) /\ h.pend = NoJob
  BY <1>1, <1>3, PushedFrameOK
<1>5. Top(t).pend \in JobSet /\ JobOK(Top(t).pend) /\ (t \in Clients => pool = "open")
      /\ Top(t).pend.kind \in {"scope_job", "spawned"}
  BY <1>2, PendFacts
<1>6. QueueStep
  BY <1>1, <1>5 DEF QueueStep, JobsPushed
<1>7. Calm /\ CallsKeep /\ UNCHANGED panics
  <2>1. UNCHANGED <<call, lifecycle, foreign, panics>> /\ spawns' \in Nat
    BY <1>2 DEF Push, Shape
  <2> QED BY <1>2, <2>1, CalmSame, CallSame
<1>8. FrameOK(h)'
  BY <1>2, <1>4, <1>7, KeepGrows, FrameOKNext
<1>9. stack' = SetTop(t, h) /\ QueuesTyped
  BY <1>1
<1> QED BY <1>2, <1>4, <1>5, <1>6, <1>7, <1>8, <1>9, SetStruct

LEMMA PushBroadcastForm ==
  ASSUME Struct, NEW t \in Threads, PushBroadcast(t)
  PROVE  \E h, w, p :
           /\ w \in Top(t).todo /\ w \in Workers
           /\ \/ p = NoJob /\ Top(t).todo = {w}
              \/ p = Top(t).pend /\ Top(t).todo # {w}
           /\ h = WithPend(Top(t), p, Top(t).todo \ {w}) /\ stack' = SetTop(t, h)
           /\ QPush(<<"bcast", w>>, Top(t).pend) /\ QueuesTyped
           /\ broadcasts' = [broadcasts EXCEPT ![w] = Append(@, Top(t).pend)]
           /\ stack[t] # <<>> /\ Top(t).pend # NoJob
<1>1. stack[t] # <<>> /\ Top(t).todo # {}
  BY DEF PushBroadcast
<1>2. PICK g : g = Top(t)
  OBVIOUS
<1>3. g \in FrameSet /\ FrameOK(g)
  BY <1>1, <1>2, TopFacts
<1>4. g.pend # NoJob /\ g.todo \subseteq Workers
  BY <1>1, <1>2, <1>3 DEF FrameOK, PendOK, FrameSet
<1>5. g.pend \in JobSet
  BY <1>1, <1>2, <1>4, PendFacts
<1>6. PICK w : w = Min(g.todo)
  OBVIOUS
<1>7. w \in g.todo /\ w \in Workers
  BY <1>1, <1>2, <1>4, <1>6, ThreadFacts, MinFacts
<1>8. PICK p : p = IF g.todo = {w} THEN NoJob ELSE g.pend
  OBVIOUS
<1>9. PICK h : h = WithPend(g, p, g.todo \ {w})
  OBVIOUS
<1>10. [g EXCEPT !.todo = g.todo \ {w}, !.pend = p] = h
  BY <1>3, <1>9 DEF FrameSet, WithPend
<1>11. stack' = SetTop(t, h)
  BY <1>2, <1>6, <1>8, <1>10 DEF PushBroadcast
<1>12. PICK s : s = Append(broadcasts[w], g.pend)
  OBVIOUS
<1>13. broadcasts' = [broadcasts EXCEPT ![w] = s] /\ UNCHANGED <<deque, injected_jobs>> /\ Shape
  BY <1>2, <1>6, <1>12 DEF PushBroadcast, Struct
<1>14. QWrites(<<"bcast", w>>, s)
  BY <1>7, <1>13, WriteBroadcasts
<1>15. QPush(<<"bcast", w>>, g.pend)
  BY <1>7, <1>12, <1>14, QueueAt DEF QPush
<1>16. s \in Seq(JobSet)
  BY <1>5, <1>7, <1>12, <1>13 DEF Shape
<1>17. QueuesTyped
  BY <1>13, <1>16 DEF Shape, QueuesTyped
<1> QED BY <1>1, <1>2, <1>4, <1>7, <1>8, <1>9, <1>11, <1>12, <1>13, <1>15, <1>17

LEMMA PushBroadcastStruct ==
  ASSUME Struct, NEW t \in Threads, PushBroadcast(t)
  PROVE  Struct'
<1>1. PICK h, w, p :
           /\ w \in Top(t).todo /\ w \in Workers
           /\ \/ p = NoJob /\ Top(t).todo = {w}
              \/ p = Top(t).pend /\ Top(t).todo # {w}
           /\ h = WithPend(Top(t), p, Top(t).todo \ {w}) /\ stack' = SetTop(t, h)
           /\ QPush(<<"bcast", w>>, Top(t).pend) /\ QueuesTyped
           /\ stack[t] # <<>> /\ Top(t).pend # NoJob
  BY PushBroadcastForm
<1>2. Shape /\ panics \in Nat
  BY DEF Struct, Shape
<1>3. Top(t) \in FrameSet /\ FrameOK(Top(t)) /\ Top(t).todo \subseteq Workers
  BY <1>1, TopFacts DEF FrameSet
<1>4. FrameOK(h) /\ h \in FrameSet /\ Same(h, Top(t)) /\ h.pend = p
  <2>1. \/ p = NoJob /\ Top(t).todo \ {w} = {}
        \/ p = Top(t).pend /\ Top(t).todo \ {w} # {} /\ Top(t).todo # {}
    BY <1>1
  <2> QED BY <1>1, <1>3, <2>1, PushedFrameOK
<1>5. Top(t).pend \in JobSet /\ JobOK(Top(t).pend) /\ (t \in Clients => pool = "open")
      /\ Top(t).pend.kind \in {"scope_job", "spawned", "broadcast_op"}
      /\ (Top(t).pend.kind = "scope_job" => Top(t).pend.id \in 1 .. Len(call))
  BY <1>1, PendFacts
<1>6. QueueStep
  BY <1>1, <1>5 DEF QueueStep, JobsPushed
<1>7. Calm /\ UNCHANGED panics
  BY <1>2 DEF PushBroadcast, Shape, Calm, foreign
<1>8. CallsKeep
  <2>1. CASE Top(t).pend.kind = "scope_job"
    <3>1. PICK id : id = Top(t).pend.id
      OBVIOUS
    <3>2. id \in 1 .. Len(call) /\ call' = [call EXCEPT ![id].count = call[id].count + 1]
      BY <1>5, <2>1, <3>1 DEF PushBroadcast
    <3>3. call[id] \in CallSet
      BY <1>2, <3>2 DEF Shape
    <3>4. call[id].count + 1 \in Int
      BY <3>3 DEF CallSet
    <3> QED BY <1>2, <3>2, <3>4, CountWrites
  <2>2. CASE Top(t).pend.kind # "scope_job"
    BY <1>2, <2>2, CallSame DEF PushBroadcast
  <2> QED BY <2>1, <2>2
<1>9. FrameOK(h)'
  BY <1>2, <1>4, <1>7, <1>8, KeepGrows, FrameOKNext
<1>10. stack' = SetTop(t, h) /\ QueuesTyped /\ stack[t] # <<>> /\ (h.pend # NoJob => JobOK(h.pend))
  BY <1>1, <1>4, <1>5
<1> QED BY <1>4, <1>5, <1>6, <1>7, <1>8, <1>9, <1>10, SetStruct

-----------------------------------------------------------------------------
(* The structure: how user code, and jobs, end.                              *)
WithPc(g, pc, e) == [g EXCEPT !.pc = pc, !.err = e]

LEMMA PcFrameOK ==
  ASSUME NEW g \in FrameSet, FrameOK(g), g.pend = NoJob, NEW pc \in AllPcs, NEW e \in Nat, NEW h, h = WithPc(g, pc, e),
         KindPc(h), pc \in {"panicked", "recover"} => e # 0, pc \notin UserPcs \cup {"panicked", "recover"} => e = 0,
         CallsGrow, e =< panics'
  PROVE  /\ FrameOK(h)' /\ h \in FrameSet /\ Same(h, g) /\ h.pend = NoJob /\ h.todo = {} /\ h.pc = pc /\ h.err = e
         /\ h.kind = g.kind /\ h.id = g.id /\ h.env = g.env
<1>1. h \in FrameSet /\ h.kind = g.kind /\ h.id = g.id /\ h.env = g.env /\ h.pc = pc /\ h.err = e /\ h.pend = NoJob
      /\ h.todo = g.todo
  BY DEF FrameSet, WithPc
<1>2. g.todo = {}
  BY DEF FrameOK, PendOK
<1>3. PendOK(h)' /\ KindPc(h)'
  BY <1>1, <1>2 DEF PendOK, KindPc
<1>4. g.id =< Len(call') /\ g.env \subseteq 1 .. Len(call')
  BY DEF FrameOK, CallsGrow, FrameSet
<1> QED BY <1>1, <1>2, <1>3, <1>4 DEF FrameOK, Same

LEMMA WriteKeeps ==
  ASSUME Shape, NEW id \in 1 .. Len(call), NEW c \in CallSet, call' = [call EXCEPT ![id] = c],
         c.kind = call[id].kind, c.owner = call[id].owner, c.out = call[id].out, call[id].set => c.set
  PROVE  CallsKeep
  BY CallWrites DEF CallsKeep

Ending(t, e) == InUser(t) /\ e \in Nat /\ e =< panics' /\ Calm /\ UNCHANGED queues

LEMMA EndingFacts ==
  ASSUME Struct, NEW t \in Threads, NEW e, Ending(t, e), Top(t).kind # "client"
  PROVE  /\ stack[t] # <<>> /\ Top(t) \in FrameSet /\ FrameOK(Top(t)) /\ Top(t).pend = NoJob /\ Top(t).todo = {}
         /\ KindPc(Top(t)) /\ Top(t).pc \in UserPcs
         /\ t \in Clients => pool = "open"
         /\ QueueStep /\ QueuesTyped /\ e \in Nat /\ e =< panics' /\ Calm /\ panics \in Nat /\ panics' \in Nat
         /\ Shape /\ QSame
         /\ Top(t).kind \in CallKinds \cup (JobKinds \ {"spawned"}) => Top(t).id \in 1 .. Len(call)
<1>1. InUser(t) /\ e \in Nat /\ e =< panics' /\ Calm /\ UNCHANGED queues /\ Shape /\ panics \in Nat /\ panics' \in Nat
  BY DEF Ending, Struct, Shape, Calm
<1>2. stack[t] # <<>> /\ Top(t) \in FrameSet /\ FrameOK(Top(t)) /\ Top(t).pend = NoJob /\ Top(t).todo = {}
      /\ Top(t).pc \in UserPcs
  BY <1>1, RunsFacts
<1>3. KindPc(Top(t))
  BY <1>2 DEF FrameOK
<1>4. Top(t).kind # "terminator"
  BY <1>2, <1>3 DEF KindPc, UserPcs, JobKinds, StackJobs
<1>5. t \in Clients => pool = "open"
  BY <1>2, <1>4, ClientOpen DEF Struct
<1>6. QueueStep /\ QueuesTyped /\ QSame
  BY <1>1, QueuesSameTyped
<1>7. Top(t).kind \in CallKinds \cup (JobKinds \ {"spawned"}) => Top(t).id \in 1 .. Len(call)
  BY <1>2, TopFacts
<1> QED BY <1>1, <1>2, <1>3, <1>5, <1>6, <1>7

\* The frame of t goes on to pc.
LEMMA PcStruct ==
  ASSUME Struct, NEW t \in Threads, stack[t] # <<>>, Top(t).pend = NoJob, NEW pc \in AllPcs, NEW e \in Nat, NEW h,
         h = WithPc(Top(t), pc, e), stack' = SetTop(t, h), KindPc(h),
         pc \in {"panicked", "recover"} => e # 0, pc \notin UserPcs \cup {"panicked", "recover"} => e = 0,
         e =< panics', Calm, CallsKeep, QueueStep, QueuesTyped,
         t \in Clients => pool = "open" \/ Top(t).kind = "terminator"
  PROVE  /\ Struct' /\ h \in FrameSet /\ h.pend = NoJob /\ h.todo = {} /\ h.pc = pc /\ h.err = e
         /\ h.kind = Top(t).kind /\ h.id = Top(t).id /\ h.env = Top(t).env
<1>1. PICK g : g = Top(t)
  OBVIOUS
<1>2. g \in FrameSet /\ FrameOK(g) /\ g.pend = NoJob /\ CallsGrow /\ h = WithPc(g, pc, e)
  BY <1>1, TopFacts, KeepGrows DEF Struct
<1>3. /\ FrameOK(h)' /\ h \in FrameSet /\ Same(h, g) /\ h.pend = NoJob /\ h.todo = {} /\ h.pc = pc /\ h.err = e
      /\ h.kind = g.kind /\ h.id = g.id /\ h.env = g.env
  BY <1>2, PcFrameOK
<1>4. Same(h, Top(t)) /\ (t \in Clients => pool = "open" \/ h.kind = "terminator")
  BY <1>1, <1>3
<1>5. Struct'
  BY <1>3, <1>4, SetStruct
<1> QED BY <1>1, <1>3, <1>5

Stored(res, w, e) == [res EXCEPT ![w] = e]

LEMMA StackJobEndsForm ==
  ASSUME Struct, NEW t \in Threads, NEW e, Ending(t, e), StackJobEnds(t, e)
  PROVE  \E h, id, c :
           /\ h = WithPc(Top(t), "set", 0) /\ stack' = SetTop(t, h) /\ Top(t).kind \in StackJobs /\ KindPc(h)
           /\ Top(t).pc = "run" /\ id = Top(t).id /\ id \in 1 .. Len(call)
           /\ call' \in Seq(CallSet) /\ Len(call') = Len(call) /\ call'[id] = c
           /\ \A x \in 1 .. Len(call) : x # id => call'[x] = call[x]
           /\ c.kind = call[id].kind /\ c.owner = call[id].owner /\ c.out = call[id].out /\ c.set = call[id].set
           /\ c.count = call[id].count /\ c.panic = call[id].panic
           /\ c.seen = call[id].seen \cup ({e} \ {0}) /\ c.result = Stored(call[id].result, Slot(t), e)
           /\ CallsKeep
<1>1. Top(t).kind \in StackJobs /\ Top(t).kind # "client"
  BY DEF StackJobEnds, StackJobs
<1>2. PICK g : g = Top(t)
  OBVIOUS
<1>3. PICK h : h = WithPc(g, "set", 0)
  OBVIOUS
<1>4. PICK id : id = Top(t).id
  OBVIOUS
<1>5. g \in FrameSet /\ KindPc(g) /\ g.pc \in UserPcs /\ id \in 1 .. Len(call) /\ Shape /\ e \in Nat
  BY <1>1, <1>2, <1>4, EndingFacts DEF JobKinds, StackJobs
<1>6. g.pc = "run"
  BY <1>1, <1>2, <1>5 DEF KindPc, UserPcs, StackJobs
<1>7. h.kind = g.kind /\ h.pc = "set"
  BY <1>3, <1>5 DEF FrameSet, WithPc
<1>8. KindPc(h)
  BY <1>1, <1>2, <1>7 DEF KindPc
<1>9. PICK d : d = call[id]
  OBVIOUS
<1>10. d \in CallSet
  BY <1>5, <1>9 DEF Shape
<1>11. PICK r : r = [d.result EXCEPT ![Slot(t)] = e]
  OBVIOUS
<1>12. r \in [Workers -> Values] \cup [{0} -> Values] \cup [{} -> Values]
  BY <1>5, <1>10, <1>11 DEF CallSet, Values
<1>13. PICK c : c = [[d EXCEPT !.result = r] EXCEPT !.seen = d.seen \cup ({e} \ {0})]
  OBVIOUS
<1>14. d.seen \cup ({e} \ {0}) \in SUBSET Nat
  BY <1>5, <1>10 DEF CallSet
<1>15. c \in CallSet /\ c.kind = d.kind /\ c.owner = d.owner /\ c.out = d.out /\ c.set = d.set
       /\ c.count = d.count /\ c.panic = d.panic /\ c.seen = d.seen \cup ({e} \ {0}) /\ c.result = r
  BY <1>10, <1>12, <1>13, <1>14 DEF CallSet
<1>16. call' = [call EXCEPT ![id] = c]
  <2>1. call' = [call EXCEPT ![id].result[Slot(t)] = e, ![id].seen = @ \cup ({e} \ {0})]
    BY <1>4 DEF StackJobEnds
  <2> QED BY <1>5, <1>9, <1>10, <1>11, <1>13, <2>1 DEF CallSet
<1>17. call' \in Seq(CallSet) /\ Len(call') = Len(call) /\ call'[id] = c
       /\ \A x \in 1 .. Len(call) : x # id => call'[x] = call[x]
  BY <1>5, <1>15, <1>16, CallWrites
<1>18. CallsKeep
  BY <1>5, <1>9, <1>15, <1>16, WriteKeeps
<1>19. stack' = SetTop(t, h)
  BY <1>2, <1>3 DEF StackJobEnds, WithPc
<1>20. r = Stored(call[id].result, Slot(t), e)
  BY <1>9, <1>11 DEF Stored
<1> QED BY <1>1, <1>2, <1>3, <1>4, <1>5, <1>6, <1>8, <1>9, <1>15, <1>17, <1>18, <1>19, <1>20

LEMMA StackJobEndsStruct ==
  ASSUME Struct, NEW t \in Threads, NEW e, Ending(t, e), StackJobEnds(t, e)
  PROVE  Struct'
<1>1. PICK h : h = WithPc(Top(t), "set", 0) /\ stack' = SetTop(t, h) /\ KindPc(h) /\ CallsKeep
  BY StackJobEndsForm
<1>2. Top(t).kind # "client"
  BY DEF StackJobEnds, StackJobs
<1>3. /\ stack[t] # <<>> /\ Top(t).pend = NoJob /\ (t \in Clients => pool = "open")
      /\ QueueStep /\ QueuesTyped /\ Calm /\ 0 =< panics'
  BY <1>2, EndingFacts
<1>4. "set" \in AllPcs /\ "set" \notin {"panicked", "recover"}
  BY DEF AllPcs
<1> QED BY <1>1, <1>3, <1>4, PcStruct

LEMMA ScopeClosureEndsForm ==
  ASSUME Struct, NEW t \in Threads, NEW e, Ending(t, e), ScopeClosureEnds(t, e)
  PROVE  \E h, pc, id, c :
           /\ h = WithPc(Top(t), pc, e) /\ stack' = SetTop(t, h) /\ Top(t).kind \in {"scope", "scope_job"} /\ KindPc(h)
           /\ (e = 0 /\ pc = "set") \/ (e # 0 /\ pc = "panicked")
           /\ Top(t).pc \in {"op", "run"} /\ id = Top(t).id /\ id \in 1 .. Len(call)
           /\ call' \in Seq(CallSet) /\ Len(call') = Len(call) /\ call'[id] = c
           /\ \A x \in 1 .. Len(call) : x # id => call'[x] = call[x]
           /\ c.kind = call[id].kind /\ c.owner = call[id].owner /\ c.out = call[id].out /\ c.set = call[id].set
           /\ c.count = call[id].count /\ c.panic = call[id].panic
           /\ c.seen = call[id].seen \cup ({e} \ {0}) /\ c.result = call[id].result
           /\ CallsKeep
<1>1. Top(t).kind \in {"scope", "scope_job"}
  BY DEF ScopeClosureEnds
<1>2. PICK g : g = Top(t)
  OBVIOUS
<1>20. PICK pc : pc = IF e = 0 THEN "set" ELSE "panicked"
  OBVIOUS
<1>3. PICK h : h = WithPc(g, pc, e)
  OBVIOUS
<1>4. PICK id : id = Top(t).id
  OBVIOUS
<1>5. g \in FrameSet /\ KindPc(g) /\ g.pc \in UserPcs /\ id \in 1 .. Len(call) /\ Shape /\ e \in Nat
  BY <1>1, <1>2, <1>4, EndingFacts DEF JobKinds, CallKinds
<1>6. g.pc \in {"op", "run"}
  BY <1>1, <1>2, <1>5 DEF KindPc, UserPcs, StackJobs
<1>7. h.kind = g.kind /\ h.pc = pc
  BY <1>3, <1>5 DEF FrameSet, WithPc
<1>8. KindPc(h)
  BY <1>1, <1>2, <1>7, <1>20 DEF KindPc
<1>9. PICK d : d = call[id]
  OBVIOUS
<1>10. d \in CallSet
  BY <1>5, <1>9 DEF Shape
<1>13. PICK c : c = [d EXCEPT !.seen = d.seen \cup ({e} \ {0})]
  OBVIOUS
<1>14. d.seen \cup ({e} \ {0}) \in SUBSET Nat
  BY <1>5, <1>10 DEF CallSet
<1>15. c \in CallSet /\ c.kind = d.kind /\ c.owner = d.owner /\ c.out = d.out /\ c.set = d.set
       /\ c.count = d.count /\ c.panic = d.panic /\ c.seen = d.seen \cup ({e} \ {0}) /\ c.result = d.result
  BY <1>10, <1>13, <1>14 DEF CallSet
<1>16. call' = [call EXCEPT ![id] = c]
  BY <1>4, <1>9, <1>13 DEF ScopeClosureEnds
<1>17. call' \in Seq(CallSet) /\ Len(call') = Len(call) /\ call'[id] = c
       /\ \A x \in 1 .. Len(call) : x # id => call'[x] = call[x]
  BY <1>5, <1>15, <1>16, CallWrites
<1>18. CallsKeep
  BY <1>5, <1>9, <1>15, <1>16, WriteKeeps
<1>19. stack' = SetTop(t, h)
  BY <1>2, <1>3, <1>20 DEF ScopeClosureEnds, WithPc
<1> QED BY <1>1, <1>2, <1>3, <1>4, <1>5, <1>6, <1>8, <1>9, <1>15, <1>17, <1>18, <1>19, <1>20

LEMMA ScopeClosureEndsStruct ==
  ASSUME Struct, NEW t \in Threads, NEW e, Ending(t, e), ScopeClosureEnds(t, e)
  PROVE  Struct'
<1>1. PICK h, pc : h = WithPc(Top(t), pc, e) /\ stack' = SetTop(t, h) /\ KindPc(h) /\ CallsKeep
                   /\ ((e = 0 /\ pc = "set") \/ (e # 0 /\ pc = "panicked"))
  BY ScopeClosureEndsForm
<1>2. Top(t).kind # "client"
  BY DEF ScopeClosureEnds
<1>3. /\ stack[t] # <<>> /\ Top(t).pend = NoJob /\ (t \in Clients => pool = "open")
      /\ QueueStep /\ QueuesTyped /\ Calm /\ e =< panics' /\ e \in Nat
  BY <1>2, EndingFacts
<1>4. pc \in AllPcs /\ (pc \in {"panicked", "recover"} => e # 0) /\ (pc \notin UserPcs \cup {"panicked", "recover"} => e = 0)
  BY <1>1 DEF AllPcs
<1> QED BY <1>1, <1>3, <1>4, PcStruct

LEMMA SpawnedEndsForm ==
  ASSUME Struct, NEW t \in Threads, NEW e, Ending(t, e), SpawnedEnds(t, e)
  PROVE  \E h : /\ h = WithPc(Top(t), "terminate", 0) /\ stack' = SetTop(t, h) /\ KindPc(h)
                /\ Top(t).kind = "spawned" /\ Top(t).pc = "run" /\ UNCHANGED call /\ CallsKeep
<1>1. Top(t).kind = "spawned" /\ UNCHANGED call
  BY DEF SpawnedEnds
<1>2. PICK g : g = Top(t)
  OBVIOUS
<1>3. PICK h : h = WithPc(g, "terminate", 0)
  OBVIOUS
<1>5. g \in FrameSet /\ KindPc(g) /\ g.pc \in UserPcs /\ Shape
  BY <1>1, <1>2, EndingFacts
<1>6. g.pc = "run"
  BY <1>1, <1>2, <1>5 DEF KindPc, UserPcs, StackJobs
<1>7. h.kind = g.kind /\ h.pc = "terminate"
  BY <1>3, <1>5 DEF FrameSet, WithPc
<1>8. KindPc(h)
  BY <1>1, <1>2, <1>7 DEF KindPc
<1>19. stack' = SetTop(t, h)
  BY <1>2, <1>3 DEF SpawnedEnds, WithPc
<1> QED BY <1>1, <1>2, <1>3, <1>5, <1>6, <1>8, <1>19, CallSame

LEMMA SpawnedEndsStruct ==
  ASSUME Struct, NEW t \in Threads, NEW e, Ending(t, e), SpawnedEnds(t, e)
  PROVE  Struct'
<1>1. PICK h : h = WithPc(Top(t), "terminate", 0) /\ stack' = SetTop(t, h) /\ KindPc(h) /\ CallsKeep
  BY SpawnedEndsForm
<1>2. Top(t).kind # "client"
  BY DEF SpawnedEnds
<1>3. /\ stack[t] # <<>> /\ Top(t).pend = NoJob /\ (t \in Clients => pool = "open")
      /\ QueueStep /\ QueuesTyped /\ Calm /\ 0 =< panics'
  BY <1>2, EndingFacts
<1>4. "terminate" \in AllPcs /\ "terminate" \notin {"panicked", "recover"}
  BY DEF AllPcs
<1> QED BY <1>1, <1>3, <1>4, PcStruct

LEMMA OperAEndsForm ==
  ASSUME Struct, NEW t \in Threads, NEW e, Ending(t, e), OperAEnds(t, e)
  PROVE  \E h, pc, id, c :
           /\ h = WithPc(Top(t), pc, e) /\ stack' = SetTop(t, h) /\ Top(t).kind = "join" /\ KindPc(h)
           /\ (e = 0 /\ pc = "loop") \/ (e # 0 /\ pc = "recover")
           /\ Top(t).pc = "a" /\ id = Top(t).id /\ id \in 1 .. Len(call)
           /\ call' \in Seq(CallSet) /\ Len(call') = Len(call) /\ call'[id] = c
           /\ \A x \in 1 .. Len(call) : x # id => call'[x] = call[x]
           /\ c.kind = call[id].kind /\ c.owner = call[id].owner /\ c.out = call[id].out /\ c.set = call[id].set
           /\ c.count = call[id].count /\ c.panic = e
           /\ c.seen = call[id].seen \cup ({e} \ {0}) /\ c.result = call[id].result
           /\ CallsKeep
<1>2. PICK g : g = Top(t)
  OBVIOUS
<1>20. PICK pc : pc = IF e = 0 THEN "loop" ELSE "recover"
  OBVIOUS
<1>3. PICK h : h = WithPc(g, pc, e)
  OBVIOUS
<1>4. PICK id : id = Top(t).id
  OBVIOUS
<1>0. g.kind = "join" /\ g.pc = "a"
  <2>1. KindPc(g) /\ g.pc = "a"
    BY <1>2, RunsFacts DEF Ending, OperAEnds, FrameOK
  <2> QED BY <2>1 DEF KindPc, StackJobs
<1>5. g \in FrameSet /\ KindPc(g) /\ id \in 1 .. Len(call) /\ Shape /\ e \in Nat
  BY <1>0, <1>2, <1>4, EndingFacts DEF CallKinds
<1>7. h.kind = g.kind /\ h.pc = pc
  BY <1>3, <1>5 DEF FrameSet, WithPc
<1>8. KindPc(h)
  BY <1>0, <1>7, <1>20 DEF KindPc
<1>9. PICK d : d = call[id]
  OBVIOUS
<1>10. d \in CallSet
  BY <1>5, <1>9 DEF Shape
<1>13. PICK c : c = [[d EXCEPT !.seen = d.seen \cup ({e} \ {0})] EXCEPT !.panic = e]
  OBVIOUS
<1>14. d.seen \cup ({e} \ {0}) \in SUBSET Nat
  BY <1>5, <1>10 DEF CallSet
<1>15. c \in CallSet /\ c.kind = d.kind /\ c.owner = d.owner /\ c.out = d.out /\ c.set = d.set
       /\ c.count = d.count /\ c.panic = e /\ c.seen = d.seen \cup ({e} \ {0}) /\ c.result = d.result
  BY <1>5, <1>10, <1>13, <1>14 DEF CallSet
<1>16. call' = [call EXCEPT ![id] = c]
  <2>1. call' = [call EXCEPT ![id].seen = @ \cup ({e} \ {0}), ![id].panic = e]
    BY <1>4 DEF OperAEnds
  <2> QED BY <1>5, <1>9, <1>13, <2>1 DEF Shape
<1>17. call' \in Seq(CallSet) /\ Len(call') = Len(call) /\ call'[id] = c
       /\ \A x \in 1 .. Len(call) : x # id => call'[x] = call[x]
  BY <1>5, <1>15, <1>16, CallWrites
<1>18. CallsKeep
  BY <1>5, <1>9, <1>15, <1>16, WriteKeeps
<1>19. stack' = SetTop(t, h)
  BY <1>2, <1>3, <1>20 DEF OperAEnds, WithPc
<1> QED BY <1>0, <1>2, <1>3, <1>4, <1>5, <1>8, <1>9, <1>15, <1>17, <1>18, <1>19, <1>20

LEMMA OperAEndsStruct ==
  ASSUME Struct, NEW t \in Threads, NEW e, Ending(t, e), OperAEnds(t, e)
  PROVE  Struct'
<1>1. PICK h, pc : h = WithPc(Top(t), pc, e) /\ stack' = SetTop(t, h) /\ KindPc(h) /\ CallsKeep
                   /\ ((e = 0 /\ pc = "loop") \/ (e # 0 /\ pc = "recover")) /\ Top(t).kind # "client"
  BY OperAEndsForm
<1>3. /\ stack[t] # <<>> /\ Top(t).pend = NoJob /\ (t \in Clients => pool = "open")
      /\ QueueStep /\ QueuesTyped /\ Calm /\ e =< panics' /\ e \in Nat
  BY <1>1, EndingFacts
<1>4. pc \in AllPcs /\ (pc \in {"panicked", "recover"} => e # 0) /\ (pc \notin UserPcs \cup {"panicked", "recover"} => e = 0)
  BY <1>1 DEF AllPcs, WaitPcs
<1> QED BY <1>1, <1>3, <1>4, PcStruct

LEMMA InlineEndsStruct ==
  ASSUME Struct, NEW t \in Threads, NEW e, Ending(t, e), InlineEnds(t, e)
  PROVE  Struct' /\ Top(t).kind = "join" /\ Top(t).pc = "inline" /\ stack[t] # <<>> /\ e \in Nat /\ Return(t, e)
<1>1. Return(t, e) /\ Top(t).pc = "inline" /\ e \in Nat /\ e =< panics' /\ Calm /\ UNCHANGED queues
  BY DEF InlineEnds, Ending
<1>2. stack[t] # <<>> /\ FrameOK(Top(t))
  BY RunsFacts DEF Ending
<1>3. Top(t).kind = "join"
  BY <1>1, <1>2 DEF FrameOK, KindPc, StackJobs
<1>4. Struct'
  BY <1>1, <1>2, <1>3, ReturnStruct DEF CallKinds
<1> QED BY <1>1, <1>2, <1>3, <1>4

EndPcs == {"panicked", "set", "core", "notify"}
LEMMA EndedFacts ==
  ASSUME Struct, NEW t \in Threads, stack[t] # <<>>, Top(t).pc \in EndPcs
  PROVE  /\ Top(t) \in FrameSet /\ FrameOK(Top(t)) /\ Top(t).pend = NoJob /\ Top(t).todo = {} /\ KindPc(Top(t))
         /\ Top(t).pc # "panicked" => Top(t).err = 0
         /\ Top(t).kind \in {"scope"} \cup (JobKinds \ {"spawned"}) /\ Top(t).id \in 1 .. Len(call)
         /\ t \in Clients => pool = "open"
         /\ Shape /\ panics \in Nat
         /\ call[Top(t).id] \in CallSet
         /\ call[Top(t).id].kind = IF Top(t).kind = "scope" THEN "scope" ELSE Of(Top(t).kind)
<1>1. Top(t) \in FrameSet /\ FrameOK(Top(t)) /\ FrameJobs(Top(t)) /\ Shape /\ panics \in Nat
      /\ Len(stack[t]) \in DOMAIN stack[t] /\ Top(t) = stack[t][Len(stack[t])]
  BY TopFacts DEF Struct, Shape
<1>2. KindPc(Top(t)) /\ PendOK(Top(t))
  BY <1>1 DEF FrameOK
<1>3. Top(t).kind \in {"scope"} \cup (JobKinds \ {"spawned"})
  BY <1>2 DEF KindPc, EndPcs, JobKinds, StackJobs
<1>4. Top(t).pend = NoJob /\ Top(t).todo = {}
  BY <1>2, <1>3 DEF PendOK, EndPcs, UserPcs, JobKinds, StackJobs
<1>5. Top(t).pc # "panicked" => Top(t).err = 0
  BY <1>1 DEF FrameOK, EndPcs, UserPcs
<1>6. Top(t).id \in 1 .. Len(call)
  BY <1>3, TopFacts DEF CallKinds
<1>7. t \in Clients => pool = "open"
  BY <1>3, ClientOpen DEF Struct, JobKinds, StackJobs
<1>8. call[Top(t).id] \in CallSet
  BY <1>1, <1>6 DEF Shape
<1>9. CASE Top(t).kind = "scope"
  <2>1. call[Top(t).id].kind = "scope"
    BY <1>1, <1>9 DEF Struct, Called, CallKinds
  <2> QED BY <1>1, <1>2, <1>3, <1>4, <1>5, <1>6, <1>7, <1>8, <1>9, <2>1
<1>10. CASE Top(t).kind # "scope"
  <2>1. call[Top(t).id].kind = Of(Top(t).kind)
    BY <1>1, <1>3, <1>10 DEF FrameJobs, JobOK
  <2> QED BY <1>1, <1>2, <1>3, <1>4, <1>5, <1>6, <1>7, <1>8, <1>10, <2>1
<1> QED BY <1>9, <1>10

LEMMA AfterStruct ==
  ASSUME Struct, NEW t \in Threads, stack[t] # <<>>, Top(t).pc \in EndPcs, stack' = After(t),
         CallsKeep, Calm, UNCHANGED <<queues, panics>>
  PROVE  Struct'
<1>1. /\ Top(t) \in FrameSet /\ Top(t).pend = NoJob /\ (t \in Clients => pool = "open") /\ Shape /\ panics \in Nat
      /\ Top(t).kind \in {"scope"} \cup (JobKinds \ {"spawned"}) /\ 0 =< panics'
  BY EndedFacts
<1>2. CASE Top(t).kind = "scope"
  <2>1. PICK h : h = WithPc(Top(t), "wait", 0)
    OBVIOUS
  <2>2. stack' = SetTop(t, h)
    BY <1>2, <2>1 DEF After, WithPc
  <2>3. h.kind = "scope" /\ h.pc = "wait"
    BY <1>1, <1>2, <2>1 DEF WithPc, FrameSet
  <2>4. KindPc(h)
    BY <2>3 DEF KindPc
  <2>5. "wait" \in AllPcs /\ "wait" \notin {"panicked", "recover"} /\ QueueStep /\ QueuesTyped
    BY <1>1, QueuesSameTyped DEF AllPcs, WaitPcs
  <2> QED BY <1>1, <2>1, <2>2, <2>4, <2>5, PcStruct
<1>3. CASE Top(t).kind # "scope"
  <2>1. stack' = PopFrame(t)
    BY <1>3 DEF After
  <2> QED BY <1>1, <1>3, <2>1, PopStruct
<1> QED BY <1>2, <1>3

\* The top frame goes on without a panic.
LEMMA GoesOn ==
  ASSUME Struct, NEW t \in Threads, stack[t] # <<>>, Top(t).pc \in EndPcs \ {"panicked"}, NEW pc \in {"core", "notify"},
         NEW h, h = WithPc(Top(t), pc, 0), Top(t).kind \in {"scope"} \cup (JobKinds \ {"spawned"})
  PROVE  [Top(t) EXCEPT !.pc = pc] = h /\ KindPc(h) /\ pc \in AllPcs /\ pc \notin {"panicked", "recover"}
<1>1. PICK g : g = Top(t)
  OBVIOUS
<1>2. g \in FrameSet /\ g.err = 0 /\ g.kind \in {"scope"} \cup (JobKinds \ {"spawned"})
  BY <1>1, EndedFacts
<1>3. [g EXCEPT !.pc = pc] = h /\ h.kind = g.kind /\ h.pc = pc
  BY <1>1, <1>2 DEF FrameSet, WithPc
<1>4. KindPc(h)
  BY <1>2, <1>3 DEF KindPc, JobKinds, StackJobs
<1> QED BY <1>1, <1>3, <1>4 DEF AllPcs

LEMMA JobPanickedForm ==
  ASSUME Struct, NEW t \in Threads, JobPanicked(t)
  PROVE  \E h, id, c :
           /\ h = WithPc(Top(t), "set", 0) /\ stack' = SetTop(t, h) /\ Top(t).kind \in {"scope", "scope_job"} /\ KindPc(h)
           /\ id = Top(t).id /\ id \in 1 .. Len(call)
           /\ call' \in Seq(CallSet) /\ Len(call') = Len(call) /\ call'[id] = c
           /\ \A x \in 1 .. Len(call) : x # id => call'[x] = call[x]
           /\ c.kind = call[id].kind /\ c.owner = call[id].owner /\ c.out = call[id].out /\ c.set = call[id].set
           /\ c.count = call[id].count /\ c.panic = (IF call[id].panic = 0 THEN Top(t).err ELSE call[id].panic)
           /\ c.seen = call[id].seen /\ c.result = call[id].result
           /\ CallsKeep
<1>1. stack[t] # <<>> /\ Top(t).pc = "panicked"
  BY DEF JobPanicked
<1>2. PICK g : g = Top(t)
  OBVIOUS
<1>3. PICK h : h = WithPc(g, "set", 0)
  OBVIOUS
<1>4. PICK id : id = Top(t).id
  OBVIOUS
<1>5. g \in FrameSet /\ KindPc(g) /\ id \in 1 .. Len(call) /\ Shape
  BY <1>1, <1>2, <1>4, EndedFacts DEF EndPcs
<1>6. g.kind \in {"scope", "scope_job"}
  BY <1>1, <1>2, <1>5 DEF KindPc, StackJobs
<1>7. h.kind = g.kind /\ h.pc = "set" /\ g.err \in Nat
  BY <1>3, <1>5 DEF FrameSet, WithPc
<1>8. KindPc(h)
  BY <1>6, <1>7 DEF KindPc
<1>9. PICK d : d = call[id]
  OBVIOUS
<1>10. d \in CallSet
  BY <1>5, <1>9 DEF Shape
<1>12. PICK p : p = IF d.panic = 0 THEN g.err ELSE d.panic
  OBVIOUS
<1>13. PICK c : c = [d EXCEPT !.panic = p]
  OBVIOUS
<1>14. p \in Nat
  BY <1>7, <1>10, <1>12 DEF CallSet
<1>15. c \in CallSet /\ c.kind = d.kind /\ c.owner = d.owner /\ c.out = d.out /\ c.set = d.set
       /\ c.count = d.count /\ c.panic = p /\ c.seen = d.seen /\ c.result = d.result
  BY <1>10, <1>13, <1>14 DEF CallSet
<1>16. call' = [call EXCEPT ![id] = c]
  BY <1>2, <1>4, <1>9, <1>12, <1>13 DEF JobPanicked
<1>17. call' \in Seq(CallSet) /\ Len(call') = Len(call) /\ call'[id] = c
       /\ \A x \in 1 .. Len(call) : x # id => call'[x] = call[x]
  BY <1>5, <1>15, <1>16, CallWrites
<1>18. CallsKeep
  BY <1>5, <1>9, <1>15, <1>16, WriteKeeps
<1>19. stack' = SetTop(t, h)
  BY <1>2, <1>3 DEF JobPanicked, WithPc
<1> QED BY <1>2, <1>3, <1>4, <1>5, <1>6, <1>8, <1>9, <1>12, <1>15, <1>17, <1>18, <1>19

LEMMA JobPanickedStruct ==
  ASSUME Struct, NEW t \in Threads, JobPanicked(t)
  PROVE  Struct'
<1>1. PICK h : h = WithPc(Top(t), "set", 0) /\ stack' = SetTop(t, h) /\ KindPc(h) /\ CallsKeep
  BY JobPanickedForm
<1>2. stack[t] # <<>> /\ Top(t).pc \in EndPcs /\ UNCHANGED <<queues, lifecycle, foreign, spawns, panics>>
  BY DEF JobPanicked, EndPcs
<1>3. /\ Top(t).pend = NoJob /\ (t \in Clients => pool = "open") /\ Shape /\ panics \in Nat /\ spawns \in Nat /\ 0 =< panics'
  BY <1>2, EndedFacts DEF Shape
<1>4. QueueStep /\ QueuesTyped /\ Calm
  BY <1>2, <1>3, QueuesSameTyped, CalmSame
<1>5. "set" \in AllPcs /\ "set" \notin {"panicked", "recover"}
  BY DEF AllPcs
<1> QED BY <1>1, <1>2, <1>3, <1>4, <1>5, PcStruct

LEMMA SetWrites ==
  ASSUME Shape, NEW id \in 1 .. Len(call), call' = [call EXCEPT ![id].set = TRUE]
  PROVE  \E c : /\ c \in CallSet /\ call' \in Seq(CallSet) /\ Len(call') = Len(call)
                /\ call'[id] = c /\ (\A x \in 1 .. Len(call) : x # id => call'[x] = call[x])
                /\ c.set /\ c.kind = call[id].kind /\ c.owner = call[id].owner /\ c.count = call[id].count
                /\ c.out = call[id].out /\ c.result = call[id].result /\ c.panic = call[id].panic
                /\ c.seen = call[id].seen
                /\ CallsKeep
<1>1. call \in Seq(CallSet) /\ call[id] \in CallSet
  BY DEF Shape
<1>2. PICK c : c = [call[id] EXCEPT !.set = TRUE]
  OBVIOUS
<1>3. /\ c \in CallSet /\ c.kind = call[id].kind /\ c.owner = call[id].owner /\ c.count = call[id].count
      /\ c.out = call[id].out /\ c.result = call[id].result /\ c.panic = call[id].panic
      /\ c.seen = call[id].seen
  BY <1>1, <1>2 DEF CallSet
<1>6. c.set
  BY <1>1, <1>2 DEF CallSet
<1>4. call' = [call EXCEPT ![id] = c]
  BY <1>2
<1>5. /\ call' \in Seq(CallSet) /\ Len(call') = Len(call) /\ call'[id] = c
      /\ \A x \in 1 .. Len(call) : x # id => call'[x] = call[x]
  BY <1>3, <1>4, CallWrites
<1>7. CallsKeep
  BY <1>3, <1>5, <1>6 DEF CallsKeep
<1> QED BY <1>3, <1>5, <1>6, <1>7

LEMMA SetLatchFacts ==
  ASSUME Struct, NEW t \in Threads, SetLatch(t)
  PROVE  /\ stack[t] # <<>> /\ Top(t).pc = "set" /\ Top(t).pc \in EndPcs \ {"panicked"}
         /\ Calm /\ UNCHANGED <<queues, panics>> /\ QueueStep /\ QueuesTyped /\ QSame
<1>1. stack[t] # <<>> /\ Top(t).pc = "set" /\ UNCHANGED <<queues, lifecycle, left, spawns, panics>> /\ Shape
  BY DEF SetLatch, Struct
<1>2. clones' \in [Foreign -> SUBSET Threads]
  <2>1. CASE clones' = clones
    BY <1>1, <2>1 DEF Shape
  <2>2. ASSUME NEW x \in Foreign, clones' = [clones EXCEPT ![x] = @ \cup {t}]
        PROVE  clones' \in [Foreign -> SUBSET Threads]
    BY <1>1, <2>2 DEF Shape
  <2> QED BY <2>1, <2>2 DEF SetLatch, StackJobSet, CountSet
<1>3. Calm
  BY <1>1, <1>2 DEF Calm, Shape, lifecycle
<1> QED BY <1>1, <1>3, QueuesSameTyped DEF EndPcs

LEMMA StackJobSetStruct ==
  ASSUME Struct, NEW t \in Threads, SetLatch(t), StackJobSet(t)
  PROVE  Struct'
<1>1. /\ stack[t] # <<>> /\ Top(t).pc = "set" /\ Top(t).pc \in EndPcs \ {"panicked"}
      /\ Calm /\ UNCHANGED <<queues, panics>> /\ QueueStep /\ QueuesTyped
  BY SetLatchFacts
<1>2. PICK id : id = Top(t).id
  OBVIOUS
<1>3. /\ Top(t).pend = NoJob /\ (t \in Clients => pool = "open") /\ Shape /\ panics \in Nat /\ id \in 1 .. Len(call)
      /\ Top(t).kind \in {"scope"} \cup (JobKinds \ {"spawned"}) /\ 0 =< panics'
  BY <1>1, <1>2, EndedFacts
<1>4. CASE Blocking(id)
  <2>1. call' = [call EXCEPT ![id].set = TRUE] /\ stack' = After(t)
    BY <1>2, <1>4 DEF StackJobSet
  <2>2. CallsKeep
    BY <1>3, <2>1, SetWrites
  <2> QED BY <1>1, <2>1, <2>2, AfterStruct
<1>5. CASE ~Blocking(id)
  <2>1. PICK h : h = WithPc(Top(t), "core", 0)
    OBVIOUS
  <2>2. [Top(t) EXCEPT !.pc = "core"] = h /\ KindPc(h) /\ "core" \in AllPcs /\ "core" \notin {"panicked", "recover"}
    BY <1>1, <1>3, <2>1, GoesOn
  <2>3. stack' = SetTop(t, h) /\ UNCHANGED call
    BY <1>2, <1>5, <2>2 DEF StackJobSet
  <2> QED BY <1>1, <1>3, <2>1, <2>2, <2>3, CallSame, PcStruct
<1> QED BY <1>4, <1>5

LEMMA CountSetStruct ==
  ASSUME Struct, NEW t \in Threads, SetLatch(t), CountSet(t)
  PROVE  Struct'
<1>1. /\ stack[t] # <<>> /\ Top(t).pc = "set" /\ Top(t).pc \in EndPcs \ {"panicked"}
      /\ Calm /\ UNCHANGED <<queues, panics>> /\ QueueStep /\ QueuesTyped
  BY SetLatchFacts
<1>2. PICK id : id = Top(t).id
  OBVIOUS
<1>3. /\ Top(t).pend = NoJob /\ (t \in Clients => pool = "open") /\ Shape /\ panics \in Nat /\ id \in 1 .. Len(call)
      /\ Top(t).kind \in {"scope"} \cup (JobKinds \ {"spawned"}) /\ 0 =< panics' /\ call[id] \in CallSet
  BY <1>1, <1>2, EndedFacts
<1>4. CallsKeep
  <2>1. call[id].count - 1 \in Int
    BY <1>3 DEF CallSet
  <2>2. call' = [call EXCEPT ![id].count = call[id].count - 1]
    BY <1>2 DEF CountSet
  <2> QED BY <1>3, <2>1, <2>2, CountWrites
<1>5. CASE call[id].count = 1
  <2>1. PICK h : h = WithPc(Top(t), "core", 0)
    OBVIOUS
  <2>2. [Top(t) EXCEPT !.pc = "core"] = h /\ KindPc(h) /\ "core" \in AllPcs /\ "core" \notin {"panicked", "recover"}
    BY <1>1, <1>3, <2>1, GoesOn
  <2>3. stack' = SetTop(t, h)
    BY <1>2, <1>5, <2>2 DEF CountSet
  <2> QED BY <1>1, <1>3, <1>4, <2>1, <2>2, <2>3, PcStruct
<1>6. CASE call[id].count # 1
  <2>1. stack' = After(t)
    BY <1>2, <1>6 DEF CountSet
  <2> QED BY <1>1, <1>4, <2>1, AfterStruct
<1> QED BY <1>5, <1>6

LEMMA CoreSetStruct ==
  ASSUME Struct, NEW t \in Threads, CoreSet(t)
  PROVE  Struct'
<1>1. /\ stack[t] # <<>> /\ Top(t).pc = "core" /\ Top(t).pc \in EndPcs \ {"panicked"}
      /\ UNCHANGED <<queues, lifecycle, foreign, spawns, panics>>
  BY DEF CoreSet, EndPcs
<1>2. PICK id : id = Top(t).id
  OBVIOUS
<1>3. /\ Top(t).pend = NoJob /\ (t \in Clients => pool = "open") /\ Shape /\ panics \in Nat /\ id \in 1 .. Len(call)
      /\ Top(t).kind \in {"scope"} \cup (JobKinds \ {"spawned"}) /\ 0 =< panics' /\ spawns \in Nat
  BY <1>1, <1>2, EndedFacts DEF Shape
<1>4. CallsKeep
  BY <1>2, <1>3, SetWrites DEF CoreSet
<1>5. Calm /\ QueueStep /\ QueuesTyped
  BY <1>1, <1>3, CalmSame, QueuesSameTyped
<1>6. CASE call[id].owner \in Foreign
  <2>1. PICK h : h = WithPc(Top(t), "notify", 0)
    OBVIOUS
  <2>2. [Top(t) EXCEPT !.pc = "notify"] = h /\ KindPc(h) /\ "notify" \in AllPcs /\ "notify" \notin {"panicked", "recover"}
    BY <1>1, <1>3, <2>1, GoesOn
  <2>3. stack' = SetTop(t, h)
    BY <1>2, <1>6, <2>2 DEF CoreSet
  <2> QED BY <1>1, <1>3, <1>4, <1>5, <2>1, <2>2, <2>3, PcStruct
<1>7. CASE call[id].owner \notin Foreign
  <2>1. stack' = After(t)
    BY <1>2, <1>7 DEF CoreSet
  <2> QED BY <1>1, <1>4, <1>5, <2>1, AfterStruct
<1> QED BY <1>6, <1>7

LEMMA NotifyStruct ==
  ASSUME Struct, NEW t \in Threads, Notify(t)
  PROVE  Struct'
<1>1. /\ stack[t] # <<>> /\ Top(t).pc = "notify" /\ Top(t).pc \in EndPcs /\ stack' = After(t)
      /\ UNCHANGED <<queues, call, lifecycle, left, spawns, panics>> /\ Shape
  BY DEF Notify, EndPcs, Struct
<1>2. clones' \in [Foreign -> SUBSET Threads]
  BY <1>1 DEF Notify, Shape
<1>3. Calm
  BY <1>1, <1>2 DEF Calm, Shape, lifecycle
<1> QED BY <1>1, <1>3, CallSame, AfterStruct

LEMMA StillStruct ==
  ASSUME Struct, UNCHANGED <<stack, queues, call, panics>>, Calm
  PROVE  Struct'
<1>0. Shape /\ Framed /\ Stacked /\ Called /\ Jobs /\ Opened
  BY DEF Struct
<1>1. UNCHANGED <<stack, call, panics, started, pool, deque, broadcasts, injected_jobs>>
  BY DEF Calm, queues
<1>2. Framed'
  BY <1>0, <1>1 DEF Framed, FrameOK, KindPc, PendOK
<1>3. Stacked'
  BY <1>0, <1>1 DEF Stacked, Above
<1>4. Called'
  BY <1>0, <1>1 DEF Called, IsCall
<1>5. Queue' = Queue
  BY <1>1 DEF Queue
<1>6. ASSUME NEW e PROVE Lexical(e)' <=> Lexical(e)
  BY <1>1 DEF Lexical
<1>7. ASSUME NEW i, NEW e PROVE Rooted(i, e)' <=> Rooted(i, e)
  BY <1>1 DEF Rooted, IsCall
<1>8. ASSUME NEW j PROVE JobOK(j)' <=> JobOK(j)
  BY <1>1, <1>6, <1>7 DEF JobOK
<1>9. Jobs'
  BY <1>0, <1>1, <1>5, <1>6, <1>8 DEF Jobs
<1>10. Opened'
  BY <1>0, <1>1 DEF Opened
<1>11. Shape'
  BY <1>0, <1>1 DEF Shape, Calm
<1> QED BY <1>2, <1>3, <1>4, <1>9, <1>10, <1>11 DEF Struct

\* One that ends the pool.
LEMMA EnderFacts ==
  ASSUME Struct, NEW t \in Threads, stack[t] # <<>>, Top(t).pc \in {"terminate", "stop"}
  PROVE  /\ Top(t) \in FrameSet /\ FrameOK(Top(t)) /\ Top(t).pend = NoJob /\ Top(t).todo = {} /\ Top(t).err = 0
         /\ Top(t).kind \in {"terminator", "spawned"} /\ Top(t).id = 0 /\ Shape /\ panics \in Nat
         /\ t \in Clients => pool = "open" \/ Top(t).kind = "terminator"
<1>1. Top(t) \in FrameSet /\ FrameOK(Top(t)) /\ Shape /\ panics \in Nat
  BY TopFacts DEF Struct, Shape
<1>2. KindPc(Top(t)) /\ PendOK(Top(t))
  BY <1>1 DEF FrameOK
<1>3. Top(t).kind \in {"terminator", "spawned"}
  BY <1>2 DEF KindPc, StackJobs
<1>4. Top(t).pend = NoJob /\ Top(t).todo = {} /\ Top(t).err = 0 /\ Top(t).id = 0
  BY <1>1, <1>2, <1>3 DEF PendOK, UserPcs, FrameOK, Rootless
<1>5. t \in Clients => pool = "open" \/ Top(t).kind = "terminator"
  BY <1>3, ClientOpen DEF Struct
<1> QED BY <1>1, <1>3, <1>4, <1>5

LEMMA TerminateStruct ==
  ASSUME Struct, NEW t \in Threads, Terminate(t)
  PROVE  Struct'
<1>1. /\ stack[t] # <<>> /\ Top(t).pc = "terminate" /\ terminate_count' = terminate_count - 1
      /\ UNCHANGED <<queues, call, terminate, started, stopped, pool, foreign, spawns, panics>>
  BY DEF Terminate
<1>2. /\ Top(t) \in FrameSet /\ Top(t).pend = NoJob /\ Top(t).err = 0
      /\ Top(t).kind \in {"terminator", "spawned"} /\ Shape /\ panics \in Nat /\ 0 =< panics'
      /\ (t \in Clients => pool = "open" \/ Top(t).kind = "terminator")
  BY <1>1, EnderFacts
<1>3. Calm
  BY <1>1, <1>2 DEF Calm, Shape, foreign
<1>4. CallsKeep /\ QueueStep /\ QueuesTyped
  BY <1>1, <1>2, CallSame, QueuesSameTyped
<1>5. CASE terminate_count = 1
  <2>1. PICK h : h = WithPc(Top(t), "stop", 0)
    OBVIOUS
  <2>2. PICK g : g = Top(t)
    OBVIOUS
  <2>3. [g EXCEPT !.pc = "stop"] = h /\ h.kind = g.kind /\ h.pc = "stop"
    BY <1>2, <2>1, <2>2 DEF FrameSet, WithPc
  <2>4. KindPc(h) /\ "stop" \in AllPcs /\ "stop" \notin {"panicked", "recover"}
    BY <1>2, <2>2, <2>3 DEF KindPc, AllPcs
  <2>5. stack' = SetTop(t, h)
    BY <1>5, <2>2, <2>3 DEF Terminate
  <2> QED BY <1>1, <1>2, <1>3, <1>4, <2>1, <2>4, <2>5, PcStruct
<1>6. CASE terminate_count # 1
  <2>1. stack' = PopFrame(t)
    BY <1>6 DEF Terminate
  <2> QED BY <1>1, <1>2, <1>3, <1>4, <2>1, PopStruct DEF JobKinds
<1> QED BY <1>5, <1>6

LEMMA StopWorkerStruct ==
  ASSUME Struct, NEW t \in Threads, StopWorker(t)
  PROVE  Struct'
<1>1. /\ stack[t] # <<>> /\ Top(t).pc = "stop"
      /\ UNCHANGED <<queues, call, terminate_count, started, stopped, pool, foreign, spawns, panics>>
      /\ stack' = PopFrame(t) \/ stack' = stack
  BY DEF StopWorker
<1>2. Top(t).kind \in {"terminator", "spawned"} /\ Shape /\ panics \in Nat
  BY <1>1, EnderFacts
<1>3. terminate' \in [Workers -> BOOLEAN]
  BY <1>2 DEF StopWorker, Shape
<1>4. Calm
  BY <1>1, <1>2, <1>3 DEF Calm, Shape, foreign
<1>5. CASE stack' = PopFrame(t)
  BY <1>1, <1>2, <1>4, <1>5, CallSame, PopStruct DEF JobKinds
<1>6. CASE stack' = stack
  BY <1>1, <1>4, <1>6, StillStruct
<1> QED BY <1>1, <1>5, <1>6

-----------------------------------------------------------------------------
(* The structure: waiting.                                                   *)
LEMMA TakenOK ==
  ASSUME Struct, NEW q, NEW j, NEW d, QTake(q, j, d)
  PROVE  /\ j \in JobSet /\ JobOK(j) /\ QueueStep /\ q \in Names
         /\ q[1] = "bcast" => j.kind \in {"broadcast_op", "scope_job", "spawned"}
         /\ q[1] # "bcast" => j.kind # "broadcast_op"
<1>1. q \in Names /\ j \in JobSet /\ \E k \in DOMAIN Queue[q] : Queue[q][k] = j
  BY QTakeAt DEF Struct
<1>2. PICK k \in DOMAIN Queue[q] : Queue[q][k] = j
  BY <1>1
<1> QED BY <1>1, <1>2 DEF Struct, Jobs, QueueStep

LEMMA LocalForm ==
  ASSUME Shape, NEW t \in Workers, ~NoLocal(t), PopLocal(t), UNCHANGED injected_jobs
  PROVE  \E q, d : /\ QTake(q, LocalJob(t), d) /\ QueuesTyped
                   /\ \/ q = <<"deque", t>> /\ UNCHANGED broadcasts
                      \/ q = <<"bcast", t>> /\ UNCHANGED deque /\ broadcasts[t] # <<>> /\ deque[t] = <<>>
                           /\ broadcasts' = [broadcasts EXCEPT ![t] = Tail(@)] /\ LocalJob(t) = Head(broadcasts[t])
<1>1. CASE deque[t] # <<>>
  <2>1. PICK s : s = deque[t]
    OBVIOUS
  <2>2. PICK r : r = SubSeq(s, 1, Len(s) - 1)
    OBVIOUS
  <2>3. s \in Seq(JobSet) /\ s # <<>> /\ deque \in [Workers -> Seq(JobSet)]
    BY <1>1, <2>1 DEF Shape
  <2>4. deque' = [deque EXCEPT ![t] = r] /\ UNCHANGED <<broadcasts, injected_jobs>>
    BY <1>1, <2>1, <2>2 DEF PopLocal, Front
  <2>5. r \in Seq(JobSet)
    BY <2>2, <2>3
  <2>6. LocalJob(t) = s[Len(s)]
    BY <1>1, <2>1 DEF LocalJob, Last
  <2>7. QWrites(<<"deque", t>>, r)
    BY <2>4, WriteDeque
  <2>8. Queue[<<"deque", t>>] = s
    BY <2>1, QueueAt
  <2>9. QTake(<<"deque", t>>, LocalJob(t), 0)
    BY <2>2, <2>3, <2>6, <2>7, <2>8 DEF QTake
  <2>10. QueuesTyped
    BY <2>3, <2>4, <2>5 DEF QueuesTyped, Shape
  <2> QED BY <2>4, <2>9, <2>10
<1>2. CASE deque[t] = <<>>
  <2>1. PICK s : s = broadcasts[t]
    OBVIOUS
  <2>2. PICK r : r = Tail(s)
    OBVIOUS
  <2>3. s \in Seq(JobSet) /\ s # <<>> /\ broadcasts \in [Workers -> Seq(JobSet)]
    BY <1>2, <2>1 DEF Shape, NoLocal
  <2>4. broadcasts' = [broadcasts EXCEPT ![t] = r] /\ UNCHANGED <<deque, injected_jobs>>
    BY <1>2, <2>1, <2>2 DEF PopLocal
  <2>5. r \in Seq(JobSet)
    BY <2>2, <2>3
  <2>6. LocalJob(t) = s[1] /\ LocalJob(t) = Head(s)
    BY <1>2, <2>1, <2>3 DEF LocalJob
  <2>7. QWrites(<<"bcast", t>>, r)
    BY <2>4, WriteBroadcasts
  <2>8. Queue[<<"bcast", t>>] = s
    BY <2>1, QueueAt
  <2>9. QTake(<<"bcast", t>>, LocalJob(t), 1)
    BY <2>2, <2>3, <2>6, <2>7, <2>8 DEF QTake
  <2>10. QueuesTyped
    BY <2>3, <2>4, <2>5 DEF QueuesTyped, Shape
  <2> QED BY <1>2, <2>1, <2>2, <2>3, <2>4, <2>6, <2>9, <2>10
<1> QED BY <1>1, <1>2

LEMMA StealForm ==
  ASSUME Shape, NEW t \in Workers, Steal(t)
  PROVE  \E q, j : /\ QTake(q, j, 1) /\ Execute(t, j) /\ QueuesTyped /\ q[1] = "deque" /\ UNCHANGED broadcasts
<1>1. PICK v \in Workers \ {t} :
        /\ deque[v] # <<>> /\ Execute(t, Head(deque[v])) /\ deque' = [deque EXCEPT ![v] = Tail(@)]
        /\ UNCHANGED <<broadcasts, injected_jobs>>
  BY DEF Steal
<1>2. PICK s : s = deque[v]
  OBVIOUS
<1>3. PICK r : r = Tail(s)
  OBVIOUS
<1>4. s \in Seq(JobSet) /\ s # <<>> /\ deque \in [Workers -> Seq(JobSet)]
  BY <1>1, <1>2 DEF Shape
<1>5. deque' = [deque EXCEPT ![v] = r]
  BY <1>1, <1>2, <1>3
<1>6. r \in Seq(JobSet)
  BY <1>3, <1>4
<1>7. Head(deque[v]) = s[1]
  BY <1>2, <1>4
<1>8. QWrites(<<"deque", v>>, r)
  BY <1>1, <1>5, WriteDeque
<1>9. Queue[<<"deque", v>>] = s
  BY <1>2, QueueAt
<1>10. QTake(<<"deque", v>>, Head(deque[v]), 1)
  BY <1>3, <1>4, <1>7, <1>8, <1>9 DEF QTake
<1>11. QueuesTyped
  BY <1>1, <1>4, <1>5, <1>6 DEF QueuesTyped, Shape
<1>12. <<"deque", v>>[1] = "deque"
  OBVIOUS
<1> QED BY <1>1, <1>10, <1>11, <1>12

LEMMA PopInjectedForm ==
  ASSUME Shape, NEW t \in Workers, PopInjected(t)
  PROVE  \E q, j : /\ QTake(q, j, 1) /\ Execute(t, j) /\ QueuesTyped /\ q[1] = "injected" /\ UNCHANGED broadcasts
<1>1. /\ injected_jobs # <<>> /\ Execute(t, Head(injected_jobs)) /\ injected_jobs' = Tail(injected_jobs)
      /\ UNCHANGED <<deque, broadcasts>>
  BY DEF PopInjected
<1>2. PICK s : s = injected_jobs
  OBVIOUS
<1>3. PICK r : r = Tail(s)
  OBVIOUS
<1>4. s \in Seq(JobSet) /\ s # <<>>
  BY <1>1, <1>2 DEF Shape
<1>5. injected_jobs' = r /\ r \in Seq(JobSet)
  BY <1>1, <1>2, <1>3, <1>4
<1>7. Head(injected_jobs) = s[1]
  BY <1>2, <1>4
<1>8. QWrites(<<"injected", 0>>, r)
  BY <1>1, <1>5, WriteInjected
<1>9. Queue[<<"injected", 0>>] = s
  BY <1>2, QueueAt
<1>10. QTake(<<"injected", 0>>, Head(injected_jobs), 1)
  BY <1>3, <1>4, <1>7, <1>8, <1>9 DEF QTake
<1>11. QueuesTyped
  BY <1>1, <1>5 DEF QueuesTyped, Shape
<1>12. <<"injected", 0>>[1] = "injected"
  OBVIOUS
<1> QED BY <1>1, <1>10, <1>11, <1>12

\* t executes a job that it takes from a queue: its own one of broadcasts,
\* or another.
Executes(t, q, j, d) ==
  /\ stack[t] # <<>> /\ Top(t).pc \in WaitPcs \cup {"loop"} /\ Top(t).pend = NoJob
  /\ QTake(q, j, d) /\ Execute(t, j) /\ QueuesTyped
  /\ UNCHANGED <<call, lifecycle, foreign, spawns, panics>>
  /\ \/ q[1] # "bcast" /\ UNCHANGED broadcasts
     \/ q = <<"bcast", t>> /\ broadcasts' = [broadcasts EXCEPT ![t] = Tail(@)] /\ j = Head(broadcasts[t])
          /\ broadcasts[t] # <<>>

LEMMA FindWorkForm ==
  ASSUME Struct, NEW t \in Workers, FindWork(t)
  PROVE  \E q, j, d : Executes(t, q, j, d)
<1>0. Shape
  BY DEF Struct
<1>1. /\ stack[t] # <<>> /\ Top(t).pc \in WaitPcs \cup {"loop"} /\ Top(t).pend = NoJob
      /\ UNCHANGED <<call, lifecycle, foreign, spawns, panics>>
  BY DEF FindWork
<1>2. CASE TakeLocal(t)
  <2>1. ~NoLocal(t) /\ PopLocal(t) /\ UNCHANGED injected_jobs /\ Execute(t, LocalJob(t))
    BY <1>2 DEF TakeLocal
  <2>2. PICK q, d : /\ QTake(q, LocalJob(t), d) /\ QueuesTyped
                   /\ \/ q = <<"deque", t>> /\ UNCHANGED broadcasts
                      \/ q = <<"bcast", t>> /\ broadcasts[t] # <<>>
                           /\ broadcasts' = [broadcasts EXCEPT ![t] = Tail(@)] /\ LocalJob(t) = Head(broadcasts[t])
    BY <1>0, <2>1, LocalForm
  <2>3. q = <<"deque", t>> => q[1] # "bcast"
    OBVIOUS
  <2>4. Executes(t, q, LocalJob(t), d)
    BY <1>1, <2>1, <2>2, <2>3 DEF Executes
  <2> QED BY <2>4
<1>3. CASE Steal(t)
  <2>1. PICK q, j : /\ QTake(q, j, 1) /\ Execute(t, j) /\ QueuesTyped /\ q[1] = "deque" /\ UNCHANGED broadcasts
    BY <1>0, <1>3, StealForm
  <2>2. Executes(t, q, j, 1)
    BY <1>1, <2>1 DEF Executes
  <2> QED BY <2>2
<1>4. CASE PopInjected(t)
  <2>1. PICK q, j : /\ QTake(q, j, 1) /\ Execute(t, j) /\ QueuesTyped /\ q[1] = "injected" /\ UNCHANGED broadcasts
    BY <1>0, <1>4, PopInjectedForm
  <2>2. Executes(t, q, j, 1)
    BY <1>1, <2>1 DEF Executes
  <2> QED BY <2>2
<1> QED BY <1>2, <1>3, <1>4 DEF FindWork

LEMMA ExecutesStruct ==
  ASSUME Struct, NEW t \in Workers, NEW q, NEW j, NEW d, Executes(t, q, j, d)
  PROVE  Struct'
<1>1. /\ stack[t] # <<>> /\ Top(t).pc \in WaitPcs \cup {"loop"} /\ Top(t).pend = NoJob /\ QTake(q, j, d) /\ Execute(t, j)
      /\ QueuesTyped /\ UNCHANGED <<call, lifecycle, foreign, spawns, panics>> /\ Shape
  BY DEF Executes, Struct
<1>2. j \in JobSet /\ JobOK(j) /\ QueueStep
  BY <1>1, TakenOK
<1>3. Calm
  BY <1>1, CalmSame DEF Shape
<1> QED BY <1>1, <1>2, <1>3, ExecuteStruct

\* join_context's loop ends: nothing is left, or job_b comes back.
WaitsB(t, h) ==
  /\ stack[t] # <<>> /\ Top(t).pc = "loop" /\ Top(t).kind = "join" /\ Top(t).pend = NoJob /\ Top(t).err = 0
  /\ h = WithPc(Top(t), "wait_b", 0) /\ stack' = SetTop(t, h) /\ KindPc(h)
  /\ UNCHANGED <<queues, call, lifecycle, foreign, spawns, panics>>
Inlines(t, h, q, j, d) ==
  /\ stack[t] # <<>> /\ Top(t).pc = "loop" /\ Top(t).kind = "join" /\ Top(t).pend = NoJob /\ Top(t).err = 0
  /\ h = WithPc(Top(t), "inline", 0) /\ stack' = SetTop(t, h) /\ KindPc(h)
  /\ QTake(q, j, d) /\ j.kind = "join_b" /\ j.id = Top(t).id /\ QueuesTyped /\ UNCHANGED broadcasts
  /\ UNCHANGED <<call, lifecycle, foreign, spawns, panics>>

LEMMA JoinPopForm ==
  ASSUME Struct, NEW t \in Workers, JoinPop(t)
  PROVE  \/ \E h : WaitsB(t, h)
         \/ \E h, q, j, d : Inlines(t, h, q, j, d)
         \/ \E q, j, d : Executes(t, q, j, d)
<1>0. Shape /\ t \in Threads
  BY ThreadFacts DEF Struct
<1>1. /\ stack[t] # <<>> /\ Top(t).pc = "loop"
      /\ UNCHANGED <<injected_jobs, call, lifecycle, foreign, spawns, panics>>
  BY DEF JoinPop
<1>2. Top(t) \in FrameSet /\ FrameOK(Top(t))
  BY <1>0, <1>1, TopFacts
<1>3. KindPc(Top(t)) /\ PendOK(Top(t)) /\ Top(t).err = 0
  BY <1>1, <1>2 DEF FrameOK, UserPcs
<1>4. Top(t).kind = "join"
  BY <1>1, <1>3 DEF KindPc, StackJobs
<1>5. Top(t).pend = NoJob
  BY <1>1, <1>3, <1>4 DEF PendOK, UserPcs
<1>6. PICK g : g = Top(t)
  OBVIOUS
<1>7. ASSUME NEW pc \in {"wait_b", "inline"}, NEW h, h = WithPc(g, pc, 0)
      PROVE  [g EXCEPT !.pc = pc] = h /\ KindPc(h)
  <2>1. h = [g EXCEPT !.pc = pc] /\ h.kind = "join" /\ h.pc = pc
    BY <1>2, <1>3, <1>4, <1>6, <1>7 DEF FrameSet, WithPc
  <2> QED BY <2>1 DEF KindPc
<1>8. CASE NoLocal(t) /\ stack' = SetTop(t, [Top(t) EXCEPT !.pc = "wait_b"]) /\ UNCHANGED <<deque, broadcasts>>
  <2>1. PICK h : h = WithPc(g, "wait_b", 0)
    OBVIOUS
  <2>2. [g EXCEPT !.pc = "wait_b"] = h /\ KindPc(h)
    BY <1>7, <2>1
  <2>3. stack' = SetTop(t, h)
    BY <1>6, <1>8, <2>2
  <2>4. UNCHANGED queues
    BY <1>1, <1>8 DEF queues
  <2>5. WaitsB(t, h)
    BY <1>1, <1>3, <1>4, <1>5, <1>6, <2>1, <2>2, <2>3, <2>4 DEF WaitsB
  <2> QED BY <2>5
<1>9. CASE ~NoLocal(t) /\ PopLocal(t)
  <2>1. PICK q, d : /\ QTake(q, LocalJob(t), d) /\ QueuesTyped
                   /\ \/ q = <<"deque", t>> /\ UNCHANGED broadcasts
                      \/ q = <<"bcast", t>> /\ broadcasts[t] # <<>>
                           /\ broadcasts' = [broadcasts EXCEPT ![t] = Tail(@)] /\ LocalJob(t) = Head(broadcasts[t])
    BY <1>0, <1>1, <1>9, LocalForm
  <2>2. (q = <<"deque", t>> => q[1] = "deque") /\ (q = <<"bcast", t>> => q[1] = "bcast")
    OBVIOUS
  <2>3. q[1] = "bcast" => LocalJob(t).kind \in {"broadcast_op", "scope_job", "spawned"}
    BY <2>1, TakenOK
  <2>4. CASE LocalJob(t).kind = "join_b" /\ LocalJob(t).id = Top(t).id
    <3>1. PICK h : h = WithPc(g, "inline", 0)
      OBVIOUS
    <3>2. [g EXCEPT !.pc = "inline"] = h /\ KindPc(h)
      BY <1>7, <3>1
    <3>3. stack' = SetTop(t, [Top(t) EXCEPT !.pc = "inline"])
      BY <1>9, <2>4 DEF JoinPop
    <3>4. stack' = SetTop(t, h)
      BY <1>6, <3>2, <3>3
    <3>5. UNCHANGED broadcasts
      BY <2>1, <2>2, <2>3, <2>4
    <3>6. Inlines(t, h, q, LocalJob(t), d)
      BY <1>1, <1>3, <1>4, <1>5, <1>6, <2>1, <2>4, <3>1, <3>2, <3>4, <3>5 DEF Inlines
    <3> QED BY <3>6
  <2>5. CASE ~(LocalJob(t).kind = "join_b" /\ LocalJob(t).id = Top(t).id)
    <3>1. Execute(t, LocalJob(t))
      BY <1>9, <2>5 DEF JoinPop
    <3>2. Executes(t, q, LocalJob(t), d)
      BY <1>1, <1>5, <2>1, <2>2, <3>1 DEF Executes
    <3> QED BY <3>2
  <2> QED BY <2>4, <2>5
<1> QED BY <1>8, <1>9 DEF JoinPop

LEMMA WaitsBStruct ==
  ASSUME Struct, NEW t \in Workers, NEW h, WaitsB(t, h)
  PROVE  Struct'
<1>1. /\ stack[t] # <<>> /\ Top(t).pend = NoJob /\ h = WithPc(Top(t), "wait_b", 0) /\ stack' = SetTop(t, h) /\ KindPc(h)
      /\ UNCHANGED <<queues, call, lifecycle, foreign, spawns, panics>> /\ Shape /\ t \in Threads /\ t \notin Clients
  BY ThreadFacts DEF WaitsB, Struct
<1>2. Calm /\ CallsKeep /\ QueueStep /\ QueuesTyped
  BY <1>1, CalmSame, CallSame, QueuesSameTyped DEF Shape
<1>3. "wait_b" \in AllPcs /\ "wait_b" \notin {"panicked", "recover"} /\ 0 =< panics'
  BY <1>1 DEF AllPcs, WaitPcs, Shape
<1> QED BY <1>1, <1>2, <1>3, PcStruct

LEMMA InlinesStruct ==
  ASSUME Struct, NEW t \in Workers, NEW h, NEW q, NEW j, NEW d, Inlines(t, h, q, j, d)
  PROVE  Struct'
<1>1. /\ stack[t] # <<>> /\ Top(t).pend = NoJob /\ h = WithPc(Top(t), "inline", 0) /\ stack' = SetTop(t, h) /\ KindPc(h)
      /\ UNCHANGED <<call, lifecycle, foreign, spawns, panics>> /\ Shape /\ t \in Threads /\ t \notin Clients
      /\ QTake(q, j, d) /\ QueuesTyped
  BY ThreadFacts DEF Inlines, Struct
<1>2. Calm /\ CallsKeep /\ QueueStep
  BY <1>1, CalmSame, CallSame, TakenOK DEF Shape
<1>3. "inline" \in AllPcs /\ "inline" \notin {"panicked", "recover"} /\ 0 =< panics'
  BY <1>1 DEF AllPcs, UserPcs, Shape
<1> QED BY <1>1, <1>2, <1>3, PcStruct

\* A call returns with e.
Returns(t, e) ==
  /\ stack[t] # <<>> /\ Top(t).kind \in CallKinds /\ Top(t).pc \in WaitPcs \cup {"loop"} /\ Top(t).pend = NoJob
  /\ call[Top(t).id].set /\ Return(t, e)
  /\ Top(t).pc = "recover" => e = Top(t).err
  /\ Top(t).kind = "scope" => e = call[Top(t).id].panic
  /\ Top(t).pc # "recover" /\ Top(t).kind # "scope" => e = Result(Top(t).id)
  /\ UNCHANGED <<queues, lifecycle, foreign, spawns, panics>>

LEMMA CallReturnsForm ==
  ASSUME Struct, NEW t \in Threads, CallReturns(t)
  PROVE  \E e : Returns(t, e)
<1>1. /\ stack[t] # <<>> /\ Top(t).kind \in CallKinds /\ Top(t).pc \in WaitPcs \cup {"loop"} /\ Top(t).pend = NoJob
      /\ Latched(t) /\ UNCHANGED <<queues, lifecycle, foreign, spawns, panics>>
  BY DEF CallReturns
<1>2. call[Top(t).id].set
  BY <1>1 DEF Latched, CallKinds
<1>3. PICK e : e = CASE Top(t).pc = "recover" -> Top(t).err
                     [] Top(t).kind = "scope" -> call[Top(t).id].panic
                     [] OTHER -> Result(Top(t).id)
  OBVIOUS
<1>4. Return(t, e)
  BY <1>3 DEF CallReturns
<1>5. Top(t).kind = "scope" => Top(t).pc # "recover"
  <2>1. KindPc(Top(t))
    BY <1>1, TopFacts DEF FrameOK
  <2> QED BY <2>1 DEF KindPc, StackJobs
<1>6. /\ Top(t).pc = "recover" => e = Top(t).err
      /\ Top(t).kind = "scope" => e = call[Top(t).id].panic
      /\ Top(t).pc # "recover" /\ Top(t).kind # "scope" => e = Result(Top(t).id)
  BY <1>3, <1>5
<1> QED BY <1>1, <1>2, <1>4, <1>6 DEF Returns

LEMMA ReturnsStruct ==
  ASSUME Struct, NEW t \in Threads, NEW e \in Nat, Returns(t, e), e =< panics
  PROVE  Struct'
<1>1. /\ stack[t] # <<>> /\ Top(t).kind \in CallKinds /\ call[Top(t).id].set /\ Return(t, e)
      /\ UNCHANGED <<queues, lifecycle, foreign, spawns, panics>> /\ Shape
  BY DEF Returns, Struct
<1>2. Calm
  BY <1>1, CalmSame DEF Shape
<1> QED BY <1>1, <1>2, ReturnStruct

-----------------------------------------------------------------------------
(* The structure: the pool.                                                  *)
LEMMA ExitForm ==
  ASSUME Struct, NEW w \in Workers, Exit(w)
  PROVE  /\ Len(stack[w]) = 1 /\ stack[w][1].kind = "main" /\ stack'[w] = <<>>
         /\ \A u \in Threads \ {w} : stack'[u] = stack[u]
         /\ stack' \in [Threads -> Seq(FrameSet)] /\ stack \in [Threads -> Seq(FrameSet)] /\ w \in started
<1>0. w \in Threads /\ Shape /\ Stacked /\ Opened /\ stack \in [Threads -> Seq(FrameSet)]
  BY ThreadFacts DEF Struct, Shape
<1>1. stack[w] # <<>> /\ Top(w).kind = "main" /\ stack' = PopFrame(w)
  BY DEF Exit
<1>2. PICK s : s = stack[w]
  OBVIOUS
<1>3. s \in Seq(FrameSet) /\ Len(s) \in Nat /\ Len(s) > 0 /\ Len(s) \in DOMAIN s /\ s[Len(s)].kind = "main"
  BY <1>0, <1>1, <1>2, StackFacts
<1>4. Len(s) = 1
  <2>0. Len(s) \in Nat /\ Len(s) > 0
    BY <1>3
  <2>1. ASSUME Len(s) > 1 PROVE FALSE
    <3>1. Above(w, s[Len(s)], s[Len(s) - 1])
      BY <1>0, <1>2, <1>3, <2>1 DEF Stacked
    <3> QED BY <1>3, <3>1 DEF Above, CallKinds, JobKinds, StackJobs
  <2>2. PICK n : n = Len(s)
    OBVIOUS
  <2>3. n \in Nat /\ n > 0 /\ ~(n > 1)
    BY <2>0, <2>1, <2>2
  <2>4. n = 1
    BY <2>3
  <2> QED BY <2>2, <2>4
<1>5. PICK r : r = SubSeq(s, 1, Len(s) - 1)
  OBVIOUS
<1>6. r = <<>>
  BY <1>3, <1>4, <1>5
<1>7. stack' = [stack EXCEPT ![w] = r]
  BY <1>1, <1>2, <1>5 DEF PopFrame, Front
<1>8. stack' \in [Threads -> Seq(FrameSet)]
  <2>1. r \in Seq(FrameSet)
    BY <1>6
  <2> QED BY <1>0, <1>7, <2>1
<1>9. w \in started
  BY <1>0, <1>1 DEF Opened
<1> QED BY <1>0, <1>2, <1>3, <1>4, <1>6, <1>7, <1>8, <1>9

LEMMA ExitStruct ==
  ASSUME Struct, NEW w \in Workers, Exit(w)
  PROVE  Struct'
<1>0. Shape /\ Framed /\ Stacked /\ Called /\ Jobs /\ Opened /\ w \in Threads /\ w \notin Clients
  BY ThreadFacts DEF Struct
<1>1. /\ Len(stack[w]) = 1 /\ stack[w][1].kind = "main" /\ stack'[w] = <<>>
      /\ \A u \in Threads \ {w} : stack'[u] = stack[u]
      /\ stack' \in [Threads -> Seq(FrameSet)] /\ stack \in [Threads -> Seq(FrameSet)] /\ w \in started
  BY ExitForm
<1>2. /\ UNCHANGED <<queues, call, terminate_count, terminate, started, pool, foreign, spawns, panics>>
      /\ stopped' = stopped \cup {w}
  BY DEF Exit
<1>3. ASSUME NEW u \in Threads, NEW i \in DOMAIN stack'[u]
      PROVE  u # w /\ i \in DOMAIN stack[u] /\ stack'[u] = stack[u]
  BY <1>1, <1>3
<1>4. Shape'
  BY <1>0, <1>1, <1>2 DEF Shape, queues, foreign
<1>5. Framed'
  BY <1>0, <1>1, <1>2, <1>3 DEF Framed, FrameOK, KindPc, PendOK
<1>6. Stacked'
  <2>1. SUFFICES ASSUME NEW u \in Threads
                 PROVE  /\ stack'[u] # <<>> => stack'[u][1].kind = IF u \in Workers THEN "main" ELSE "client"
                        /\ u \in Clients => stack'[u] # <<>>
                        /\ \A i \in DOMAIN stack'[u] : i > 1 => Above(u, stack'[u][i], stack'[u][i - 1])
    BY DEF Stacked, Above
  <2> QED BY <1>0, <1>1, <2>1 DEF Stacked
<1>7. Called'
  <2>1. ASSUME NEW u \in Threads, NEW i \in DOMAIN stack[u], stack[u][i].kind \in CallKinds
        PROVE  i \in DOMAIN stack'[u] /\ stack'[u][i] = stack[u][i]
    <3>1. DOMAIN stack[w] = 1 .. 1
      BY <1>0, <1>1, StackFacts
    <3>2. u # w
      BY <1>1, <2>1, <3>1 DEF CallKinds
    <3> QED BY <1>1, <2>1, <3>2
  <2> QED BY <1>0, <1>2, <1>3, <2>1 DEF Called, IsCall
<1>8. Jobs'
  <2>1. Queue' = Queue
    BY <1>2 DEF Queue, queues
  <2>2. ASSUME NEW e, Lexical(e) PROVE Lexical(e)'
    BY <1>2, <1>3, <2>2 DEF Lexical
  <2>3. ASSUME NEW i, NEW e, Rooted(i, e) PROVE Rooted(i, e)'
    BY <1>2, <1>3, <2>3 DEF Rooted, IsCall
  <2>4. ASSUME NEW j, JobOK(j) PROVE JobOK(j)'
    BY <1>2, <2>2, <2>3, <2>4 DEF JobOK
  <2> QED BY <1>0, <1>1, <1>3, <2>1, <2>2, <2>4 DEF Jobs
<1>9. Opened'
  <2>1. \A c \in Clients : stack'[c] = stack[c]
    BY <1>0, <1>1, ThreadFacts
  <2>2. \A v \in Workers \ started : stack'[v] = stack[v]
    BY <1>1, ThreadFacts
  <2> QED BY <1>0, <1>2, <2>1, <2>2 DEF Opened
<1> QED BY <1>4, <1>5, <1>6, <1>7, <1>8, <1>9 DEF Struct

\* A frame of the pool itself: of main_loop, or of the Terminator.
LEMMA RootKeeps ==
  ASSUME Struct, NEW t \in Threads, NEW kind, NEW pc, NEW f, f = Frame(kind, 0, {}, pc), stack' = PushFrame(t, f),
         \/ kind = "main" /\ pc = "wait" /\ t \in Workers /\ stack[t] = <<>>
         \/ kind = "terminator" /\ pc = "terminate" /\ t = Main /\ stack[t] # <<>> /\ Top(t).kind = "client"
              /\ Top(t).pend = NoJob,
         UNCHANGED <<queues, call, panics>>
  PROVE  /\ Framed' /\ Stacked' /\ Called' /\ Jobs' /\ Stacks /\ Puts(t, Len(stack[t]) + 1, f)
         /\ f \in FrameSet /\ f.kind = kind /\ f.pc = pc /\ f.id = 0 /\ f.pend = NoJob /\ f.todo = {}
<1>0. Shape /\ Framed /\ Stacked /\ Called /\ Jobs
  BY DEF Struct
<1>1. PICK n : n = Len(stack[t]) + 1
  OBVIOUS
<1>3. n \in Nat /\ n >= 1 /\ DOMAIN stack[t] = 1 .. n - 1 /\ (stack[t] = <<>> => n = 1)
      /\ (stack[t] # <<>> => n > 1 /\ Top(t) = stack[t][n - 1])
  BY <1>0, <1>1, StackFacts DEF Shape
<1>4. f \in FrameSet /\ f.kind = kind /\ f.id = 0 /\ f.env = {} /\ f.pc = pc /\ f.err = 0 /\ f.pend = NoJob /\ f.todo = {}
  BY DEF Frame, FrameSet, AllKinds, AllPcs, WaitPcs
<1>5. Stacks /\ Puts(t, n, f)
  BY <1>0, <1>1, <1>4, PushPuts DEF Shape, Stacks
<1>6. CallsKeep /\ CallsGrow /\ panics \in Nat /\ Len(call) \in Nat
  BY <1>0, CallSame, KeepGrows DEF Shape
<1>7. FrameOK(f)
  <2>1. KindPc(f) /\ PendOK(f)
    BY <1>4 DEF KindPc, PendOK
  <2> QED BY <1>4, <1>6, <2>1 DEF FrameOK, UserPcs, Rootless
<1>8. FrameOK(f)'
  BY <1>7 DEF FrameOK
<1>9. Anchor(t, n, f) /\ f.kind \notin CallKinds /\ f.kind \notin JobKinds
  BY <1>4 DEF Anchor, CallKinds, JobKinds, StackJobs
<1>10. Framed'
  BY <1>0, <1>5, <1>6, <1>8, PutsFramed
<1>11. Stacked'
  <2>1. n > 1 => Above(t, f, stack[t][n - 1])
    BY <1>3, <1>4 DEF Above
  <2>2. n = 1 => f.kind = IF t \in Workers THEN "main" ELSE "client"
    BY <1>3, <1>4
  <2> QED BY <1>0, <1>5, <2>1, <2>2, PutsStacked
<1>12. Called'
  <2>1. n \notin DOMAIN stack[t] /\ \A i \in DOMAIN stack[t] : ~(i > n)
    BY <1>3
  <2> QED BY <1>0, <1>5, <1>6, <1>9, <2>1, PutsCalled
<1>13. Jobs'
  <2>1. Lexical({})
    BY DEF Lexical
  <2>2. FrameJobs(f) /\ f.env \subseteq 1 .. Len(call)
    BY <1>4, <1>9, <2>1 DEF FrameJobs
  <2>3. FrameJobs(f)'
    BY <1>0, <1>5, <1>6, <1>9, <2>2, FrameJobsKeep
  <2>4. QueueStep
    BY <1>0, QueuesSameTyped
  <2>5. QueueJobs'
    BY <1>0, <1>5, <1>6, <1>9, <2>4, QueueStepJobs
  <2> QED BY <1>0, <1>5, <1>6, <1>9, <2>3, <2>5, PutsJobs
<1> QED BY <1>1, <1>4, <1>5, <1>10, <1>11, <1>12, <1>13

LEMMA SpawnThreadForm ==
  ASSUME Struct, SpawnThread
  PROVE  \E w \in Workers : \E f :
           /\ pool = "building" /\ f = Frame("main", 0, {}, "wait") /\ stack' = PushFrame(w, f) /\ stack[w] = <<>>
           /\ started' = started \cup {w} /\ w \notin started
           /\ \E k \in 0 .. NumThreads - 1 : started = 1 .. k /\ w = k + 1
           /\ pool' = IF w = NumThreads THEN "open" ELSE pool
           /\ UNCHANGED <<queues, call, terminate_count, terminate, stopped, foreign, spawns, panics>>
<1>1. PICK k \in 0 .. NumThreads : started = 1 .. k /\ k < NumThreads
  BY DEF Struct, Opened, SpawnThread
<1>2. NumThreads \in Nat /\ Workers = 1 .. NumThreads /\ k \in Nat
  BY ThreadFacts, <1>1 DEF Workers
<1>3. Cardinality(started) = k
  BY <1>1, <1>2, FS_Interval
<1>4. PICK w : w = k + 1
  OBVIOUS
<1>5. w \in Workers /\ w \notin started /\ Cardinality(started) + 1 = w /\ k \in 0 .. NumThreads - 1
  BY <1>1, <1>2, <1>3, <1>4
<1>6. stack[w] = <<>>
  BY <1>5 DEF Struct, Opened
<1>7. PICK f : f = Frame("main", 0, {}, "wait")
  OBVIOUS
<1>8. /\ pool = "building" /\ started' = started \cup {w} /\ stack' = PushFrame(w, f)
      /\ pool' = IF w = NumThreads THEN "open" ELSE pool
      /\ UNCHANGED <<queues, call, terminate_count, terminate, stopped, foreign, spawns, panics>>
  BY <1>5, <1>7 DEF SpawnThread
<1> QED BY <1>1, <1>4, <1>5, <1>6, <1>7, <1>8

LEMMA SpawnThreadStruct ==
  ASSUME Struct, SpawnThread
  PROVE  Struct'
<1>0. Shape /\ Opened /\ Workers = 1 .. NumThreads /\ NumThreads \in Nat
  BY ThreadFacts DEF Struct, Workers
<1>1. PICK w \in Workers : \E f :
           /\ pool = "building" /\ f = Frame("main", 0, {}, "wait") /\ stack' = PushFrame(w, f) /\ stack[w] = <<>>
           /\ started' = started \cup {w} /\ w \notin started
           /\ \E k \in 0 .. NumThreads - 1 : started = 1 .. k /\ w = k + 1
           /\ pool' = IF w = NumThreads THEN "open" ELSE pool
           /\ UNCHANGED <<queues, call, terminate_count, terminate, stopped, foreign, spawns, panics>>
  BY SpawnThreadForm
<1>2. PICK f :
           /\ pool = "building" /\ f = Frame("main", 0, {}, "wait") /\ stack' = PushFrame(w, f) /\ stack[w] = <<>>
           /\ started' = started \cup {w} /\ w \notin started
           /\ \E k \in 0 .. NumThreads - 1 : started = 1 .. k /\ w = k + 1
           /\ pool' = IF w = NumThreads THEN "open" ELSE pool
           /\ UNCHANGED <<queues, call, terminate_count, terminate, stopped, foreign, spawns, panics>>
  BY <1>1
<1>3. w \in Threads /\ w \notin Clients
  BY ThreadFacts
<1>4. Framed' /\ Stacked' /\ Called' /\ Jobs' /\ Stacks /\ Puts(w, Len(stack[w]) + 1, f)
  BY <1>2, <1>3, RootKeeps
<1>5. Shape'
  BY <1>0, <1>2, <1>4 DEF Shape, Stacks, queues, foreign
<1>6. Opened'
  <2>1. PICK k \in 0 .. NumThreads - 1 : started = 1 .. k /\ w = k + 1
    BY <1>2
  <2>2. started' = 1 .. w
    BY <1>2, <2>1
  <2>3. w \in 0 .. NumThreads /\ (pool' = "building" => w < NumThreads)
    BY <1>0, <1>2, <2>1
  <2>4. \A v \in Workers \ started' : stack'[v] = <<>>
    BY <1>0, <1>2, <1>4, ThreadFacts DEF Opened, Puts
  <2>5. \A c \in Clients : stack'[c] = stack[c]
    BY <1>3, <1>4, ThreadFacts DEF Puts
  <2>6. pool' # "open" => pool' = pool
    BY <1>2
  <2> QED BY <1>0, <2>2, <2>3, <2>4, <2>5, <2>6 DEF Opened
<1> QED BY <1>4, <1>5, <1>6 DEF Struct

\* The Terminator is dropped.
Ends(f) ==
  /\ f = Frame("terminator", 0, {}, "terminate") /\ stack' = PushFrame(Main, f)
  /\ pool \in {"building", "open"} /\ pool' \in {"failed", "dropped"}
  /\ \A c \in Clients : Len(stack[c]) = 1 /\ stack[c][1].pend = NoJob
  /\ UNCHANGED <<queues, call, terminate_count, terminate, started, stopped, foreign, spawns, panics>>

LEMMA SpawnThreadFailsForm ==
  ASSUME Struct, SpawnThreadFails
  PROVE  \E f : Ends(f)
<1>1. \A c \in Clients : Len(stack[c]) = 1 /\ stack[c][1].pend = NoJob
  BY DEF Struct, Opened, SpawnThreadFails
<1>2. PICK f : f = Frame("terminator", 0, {}, "terminate")
  OBVIOUS
<1>3. Ends(f)
  BY <1>1, <1>2 DEF SpawnThreadFails, Ends
<1> QED BY <1>3

LEMMA DropPoolForm ==
  ASSUME Struct, DropPool
  PROVE  \E f : Ends(f)
<1>1. \A c \in Clients : Len(stack[c]) = 1 /\ stack[c][1].pend = NoJob
  <2>1. SUFFICES ASSUME NEW c \in Clients PROVE Len(stack[c]) = 1 /\ stack[c][1].pend = NoJob
    OBVIOUS
  <2>2. Len(stack[c]) = 1 /\ stack[c] # <<>> /\ Top(c).pend = NoJob /\ c \in Threads
    BY ThreadFacts DEF DropPool, Runs, InUser
  <2> QED BY <2>2, StackFacts DEF Struct, Shape
<1>2. PICK f : f = Frame("terminator", 0, {}, "terminate")
  OBVIOUS
<1>3. Ends(f)
  BY <1>1, <1>2 DEF DropPool, Ends
<1> QED BY <1>3

LEMMA EndsStruct ==
  ASSUME Struct, NEW f, Ends(f)
  PROVE  Struct' /\ Stacks /\ Puts(Main, Len(stack[Main]) + 1, f) /\ f \in FrameSet /\ f.kind = "terminator"
         /\ f.pc = "terminate" /\ f.id = 0 /\ f.pend = NoJob /\ f.todo = {}
<1>0. Shape /\ Opened /\ Stacked /\ Main \in Clients /\ Main \in Threads /\ Main \notin Workers
  BY ThreadFacts DEF Struct
<1>1. /\ f = Frame("terminator", 0, {}, "terminate") /\ stack' = PushFrame(Main, f)
      /\ pool \in {"building", "open"} /\ pool' \in {"failed", "dropped"}
      /\ \A c \in Clients : Len(stack[c]) = 1 /\ stack[c][1].pend = NoJob
      /\ UNCHANGED <<queues, call, terminate_count, terminate, started, stopped, foreign, spawns, panics>>
  BY DEF Ends
<1>2. stack[Main] # <<>> /\ Top(Main) = stack[Main][1] /\ Top(Main).kind = "client" /\ Top(Main).pend = NoJob
  BY <1>0, <1>1, StackFacts DEF Shape, Stacked
<1>3. Framed' /\ Stacked' /\ Called' /\ Jobs' /\ Stacks /\ Puts(Main, Len(stack[Main]) + 1, f)
         /\ f \in FrameSet /\ f.kind = "terminator" /\ f.pc = "terminate" /\ f.id = 0 /\ f.pend = NoJob /\ f.todo = {}
  BY <1>0, <1>1, <1>2, RootKeeps
<1>4. Shape'
  BY <1>0, <1>1, <1>3 DEF Shape, Stacks, queues, foreign
<1>5. Opened'
  <2>1. \A v \in Workers : stack'[v] = stack[v]
    BY <1>0, <1>3, ThreadFacts DEF Puts
  <2>2. ASSUME NEW c \in Clients
        PROVE  /\ stack'[c][1].pend = NoJob
               /\ \/ Len(stack'[c]) = 1
                  \/ Len(stack'[c]) = 2 /\ stack'[c][2].kind = "terminator" /\ pool' # "building"
    <3>1. CASE c = Main
      <4>0. Len(stack[c]) = 1 /\ Len(stack[c]) + 1 = 2 /\ Puts(c, 2, f)
        <5>1. Len(stack[Main]) = 1
          BY <1>0, <1>1
        <5>2. Len(stack[Main]) + 1 = 2
          BY <5>1
        <5>3. Puts(Main, 2, f)
          BY <1>3, <5>2
        <5> QED BY <3>1, <5>1, <5>2, <5>3
      <4>1. Len(stack'[c]) = 2 /\ stack'[c][2] = f /\ stack'[c][1] = stack[c][1]
        BY <4>0 DEF Puts
      <4> QED BY <1>1, <1>3, <2>2, <4>1
    <3>2. CASE c # Main
      BY <1>1, <1>3, <2>2, <3>2, ThreadFacts DEF Puts
    <3> QED BY <3>1, <3>2
  <2> QED BY <1>0, <1>1, <2>1, <2>2 DEF Opened
<1> QED BY <1>3, <1>4, <1>5 DEF Struct

LEMMA LeaveStruct ==
  ASSUME Struct, NEW x, Leave(x)
  PROVE  Struct'
<1>1. UNCHANGED <<stack, queues, call, lifecycle, clones, spawns, panics>> /\ x \in Foreign /\ left' = left \cup {x}
  BY DEF Leave
<1>2. Calm
  BY <1>1 DEF Calm, Struct, Shape, lifecycle
<1> QED BY <1>1, <1>2, StillStruct

LEMMA StutterStruct ==
  ASSUME Struct, UNCHANGED vars
  PROVE  Struct'
<1>1. UNCHANGED <<stack, queues, call, lifecycle, foreign, spawns, panics>>
  BY DEF vars, queues, lifecycle, foreign
<1>2. Calm
  BY <1>1, CalmSame DEF Struct, Shape
<1> QED BY <1>1, <1>2, StillStruct

LEMMA InitStruct ==
  ASSUME Init
  PROVE  Struct
<1>1. /\ \A w \in Workers : stack[w] = <<>>
      /\ \A c \in Clients : stack[c] = <<Frame("client", 0, {}, "run")>>
      /\ stack \in [Threads -> Seq(FrameSet)]
  <2>1. Frame("client", 0, {}, "run") \in FrameSet
    BY DEF Frame, FrameSet, AllKinds, AllPcs, UserPcs
  <2>2. PICK f : f = Frame("client", 0, {}, "run")
    OBVIOUS
  <2>3. <<f>> \in Seq(FrameSet) /\ <<>> \in Seq(FrameSet)
    BY <2>1, <2>2
  <2>4. stack = [t \in Threads |-> IF t \in Workers THEN <<>> ELSE <<f>>]
    BY <2>2 DEF Init
  <2> QED BY <2>2, <2>3, <2>4, ThreadFacts
<1>2. PICK f : f = Frame("client", 0, {}, "run")
  OBVIOUS
<1>3. f.kind = "client" /\ f.id = 0 /\ f.env = {} /\ f.pc = "run" /\ f.err = 0 /\ f.pend = NoJob /\ f.todo = {}
  BY <1>2 DEF Frame
<1>4. ASSUME NEW t \in Threads, NEW i \in DOMAIN stack[t]
      PROVE  t \in Clients /\ t \notin Workers /\ i = 1 /\ stack[t][i] = f
  BY <1>1, <1>2, <1>4, ThreadFacts
<1>40. /\ \A c \in Clients : stack[c] # <<>> /\ stack[c][1] = f /\ Len(stack[c]) = 1
  <2>1. PICK s : s = <<f>>
    OBVIOUS
  <2>2. s # <<>> /\ s[1] = f /\ Len(s) = 1
    BY <2>1
  <2>3. \A c \in Clients : stack[c] = s
    BY <1>1, <1>2, <2>1
  <2> QED BY <2>2, <2>3
<1>5. /\ deque = [w \in Workers |-> <<>>] /\ broadcasts = [w \in Workers |-> <<>>] /\ injected_jobs = <<>>
      /\ call = <<>> /\ Len(call) = 0 /\ started = {} /\ pool = "building" /\ panics = 0
  BY DEF Init
<1>6. Shape
  <2>1. /\ terminate_count \in Int /\ terminate \in [Workers -> BOOLEAN]
        /\ started \subseteq Workers /\ stopped \subseteq started
        /\ pool \in {"building", "open", "failed", "dropped"}
        /\ clones \in [Foreign -> SUBSET Threads] /\ left \subseteq Foreign
        /\ spawns \in Nat /\ panics \in Nat
    BY DEF Init
  <2>2. /\ deque \in [Workers -> Seq(JobSet)] /\ broadcasts \in [Workers -> Seq(JobSet)]
        /\ injected_jobs \in Seq(JobSet)
        /\ call \in Seq(CallSet)
    BY <1>5
  <2> QED BY <1>1, <2>1, <2>2 DEF Shape
<1>7. FrameOK(f)
  <2>1. KindPc(f) /\ PendOK(f)
    BY <1>3 DEF KindPc, PendOK
  <2> QED BY <1>3, <1>5, <2>1 DEF FrameOK, UserPcs, Rootless
<1>8. Framed
  BY <1>4, <1>7 DEF Framed
<1>9. Stacked
  <2>1. \A c \in Clients : stack[c] # <<>> /\ stack[c][1] = f
    BY <1>40
  <2>2. \A t \in Threads : \A i \in DOMAIN stack[t] : ~(i > 1)
    BY <1>4
  <2> QED BY <1>1, <1>3, <2>1, <2>2, ThreadFacts DEF Stacked
<1>10. Called
  BY <1>3, <1>4, <1>5 DEF Called, CallKinds
<1>11. Jobs
  <2>1. \A q \in Names : Queue[q] = <<>>
    BY <1>5, QueueAt
  <2>2. Lexical({})
    BY DEF Lexical
  <2>3. \A q \in Names : DOMAIN Queue[q] = {}
    BY <2>1
  <2>4. f.kind \notin JobKinds
    BY <1>3 DEF JobKinds, StackJobs
  <2>5. \A t \in Threads : \A i \in DOMAIN stack[t] :
          Lexical(stack[t][i].env) /\ stack[t][i].kind \notin JobKinds /\ stack[t][i].pend = NoJob
    BY <1>3, <1>4, <2>2, <2>4
  <2> QED BY <2>3, <2>5 DEF Jobs
<1>12. Opened
  <2>1. started = 1 .. 0 /\ 0 \in 0 .. NumThreads /\ 0 < NumThreads
    BY <1>5, ThreadFacts
  <2>2. \A c \in Clients : Len(stack[c]) = 1 /\ stack[c][1] = f
    BY <1>40
  <2> QED BY <1>1, <1>3, <1>5, <2>1, <2>2 DEF Opened
<1> QED BY <1>6, <1>8, <1>9, <1>10, <1>11, <1>12 DEF Struct

-----------------------------------------------------------------------------
(* What is held, step by step.                                               *)
LEMMA HeldNat ==
  ASSUME Shape, Finite, NEW k
  PROVE  Held(k) \in Nat /\ Cardinality(InFrames(k)) \in Nat /\ Cardinality(InQueues(k)) \in Nat
<1>1. IsFiniteSet(InFrames(k))
  BY DEF Finite
<1> QED BY <1>1, QueuesFinite, FS_CardinalityType DEF Held

\* How many jobs of k come to the queues.
QDelta(k, d) == d \in Int /\ Cardinality(InQueues(k)') = Cardinality(InQueues(k)) + d

LEMMA QDeltaSame ==
  ASSUME Shape, QSame, NEW k PROVE QDelta(k, 0)
<1>1. Cardinality(InQueues(k)) \in Nat
  BY QueuesFinite
<1> QED BY <1>1, QueuesSame DEF QDelta

LEMMA QDeltaPush ==
  ASSUME Shape, NEW q, NEW j \in JobSet, QPush(q, j), NEW k PROVE QDelta(k, One(j, k))
<1>1. One(j, k) \in Int
  BY DEF One
<1> QED BY <1>1, QueuesPush DEF QDelta

LEMMA QDeltaTake ==
  ASSUME Shape, NEW q, NEW j, NEW d, QTake(q, j, d), NEW k PROVE QDelta(k, -One(j, k)) /\ One(j, k) \in Int
<1>1. One(j, k) \in Int
  BY DEF One
<1>2. Cardinality(InQueues(k)) \in Nat
  BY QueuesFinite
<1>3. Cardinality(InQueues(k)') = Cardinality(InQueues(k)) - One(j, k)
  BY QueuesTake
<1>4. PICK o \in Int : o = One(j, k)
  BY <1>1
<1>5. PICK c \in Int : c = Cardinality(InQueues(k))
  BY <1>2
<1>6. c - o = c + (-o) /\ -o \in Int
  OBVIOUS
<1> QED BY <1>3, <1>4, <1>5, <1>6 DEF QDelta

LEMMA HeldSet ==
  ASSUME Struct, Finite, Stacks, NEW t \in Threads, stack[t] # <<>>, NEW f \in FrameSet, Puts(t, Len(stack[t]), f), NEW k,
         NEW d, QDelta(k, d)
  PROVE  /\ IsFiniteSet(InFrames(k)') /\ Held(k)' = Held(k) - Weight(Top(t), k) + Weight(f, k) + d
         /\ Weight(Top(t), k) \in Nat /\ Weight(f, k) \in Nat /\ Held(k) \in Nat /\ d \in Int
<1>0. Shape /\ IsFiniteSet(InFrames(k))
  BY DEF Struct, Finite
<1>1. Top(t) \in FrameSet /\ Top(t) = stack[t][Len(stack[t])]
  BY TopFacts
<1>2. /\ IsFiniteSet(InFrames(k)')
      /\ Cardinality(InFrames(k)') = Cardinality(InFrames(k)) - Weight(Top(t), k) + Weight(f, k)
  BY <1>0, <1>1, FramesSet
<1>3. Weight(Top(t), k) \in Nat /\ Weight(f, k) \in Nat
  BY <1>1, MarksWeight
<1>4. Held(k) \in Nat /\ Cardinality(InFrames(k)) \in Nat /\ Cardinality(InQueues(k)) \in Nat
  BY <1>0, HeldNat
<1>5. d \in Int /\ Cardinality(InQueues(k)') = Cardinality(InQueues(k)) + d
  BY DEF QDelta
<1>6. Held(k)' = Cardinality(InFrames(k)') + Cardinality(InQueues(k)')
  BY DEF Held
<1>7. Held(k) = Cardinality(InFrames(k)) + Cardinality(InQueues(k))
  BY DEF Held
<1> HIDE DEF Held, Weight, InFrames, InQueues
<1> QED BY <1>2, <1>3, <1>4, <1>5, <1>6, <1>7

LEMMA HeldPush ==
  ASSUME Struct, Finite, Stacks, NEW t \in Threads, NEW f \in FrameSet, Puts(t, Len(stack[t]) + 1, f), NEW k,
         NEW d, QDelta(k, d)
  PROVE  /\ IsFiniteSet(InFrames(k)') /\ Held(k)' = Held(k) + Weight(f, k) + d
         /\ Weight(f, k) \in Nat /\ Held(k) \in Nat /\ d \in Int
<1>0. Shape /\ IsFiniteSet(InFrames(k))
  BY DEF Struct, Finite
<1>2. /\ IsFiniteSet(InFrames(k)')
      /\ Cardinality(InFrames(k)') = Cardinality(InFrames(k)) + Weight(f, k)
  BY <1>0, FramesPush
<1>3. Weight(f, k) \in Nat
  BY MarksWeight
<1>4. Held(k) \in Nat /\ Cardinality(InFrames(k)) \in Nat /\ Cardinality(InQueues(k)) \in Nat
  BY <1>0, HeldNat
<1>5. d \in Int /\ Cardinality(InQueues(k)') = Cardinality(InQueues(k)) + d
  BY DEF QDelta
<1>6. Held(k)' = Cardinality(InFrames(k)') + Cardinality(InQueues(k)')
  BY DEF Held
<1>7. Held(k) = Cardinality(InFrames(k)) + Cardinality(InQueues(k))
  BY DEF Held
<1> QED BY <1>2, <1>3, <1>4, <1>5, <1>6, <1>7

LEMMA HeldPop ==
  ASSUME Struct, Finite, Stacks, NEW t \in Threads, Len(stack[t]) > 1, NEW f, Puts(t, Len(stack[t]) - 1, f), NEW k,
         Marks(f, k) = Marks(stack[t][Len(stack[t]) - 1], k), QSame
  PROVE  /\ IsFiniteSet(InFrames(k)') /\ Held(k)' = Held(k) - Weight(Top(t), k)
         /\ Weight(Top(t), k) \in Nat /\ Held(k) \in Nat
<1>0. Shape /\ IsFiniteSet(InFrames(k)) /\ stack[t] # <<>>
  BY StackFacts DEF Struct, Finite, Shape
<1>1. Top(t) \in FrameSet /\ Top(t) = stack[t][Len(stack[t])]
  BY <1>0, TopFacts
<1>2. /\ IsFiniteSet(InFrames(k)')
      /\ Cardinality(InFrames(k)') = Cardinality(InFrames(k)) - Weight(Top(t), k)
  BY <1>0, <1>1, FramesPop
<1>3. Weight(Top(t), k) \in Nat
  BY <1>1, MarksWeight
<1>4. Held(k) \in Nat /\ Cardinality(InFrames(k)) \in Nat /\ Cardinality(InQueues(k)) \in Nat
  BY <1>0, HeldNat
<1>5. Cardinality(InQueues(k)') = Cardinality(InQueues(k))
  BY QueuesSame
<1>6. Held(k)' = Cardinality(InFrames(k)') + Cardinality(InQueues(k)')
  BY DEF Held
<1>7. Held(k) = Cardinality(InFrames(k)) + Cardinality(InQueues(k))
  BY DEF Held
<1> QED BY <1>2, <1>3, <1>4, <1>5, <1>6, <1>7

\* No frame and no job comes or goes.
LEMMA HeldStill ==
  ASSUME Struct, Finite, UNCHANGED stack, QSame, NEW k
  PROVE  IsFiniteSet(InFrames(k)') /\ Held(k)' = Held(k)
<1>0. Shape /\ IsFiniteSet(InFrames(k))
  BY DEF Struct, Finite
<1>1. InFrames(k)' = InFrames(k)
  BY DEF InFrames
<1>2. Cardinality(InQueues(k)') = Cardinality(InQueues(k))
  BY QueuesSame
<1> QED BY <1>0, <1>1, <1>2 DEF Held

LEMMA HeldExit ==
  ASSUME Struct, Finite, NEW w \in Workers, Exit(w), NEW k
  PROVE  IsFiniteSet(InFrames(k)') /\ Held(k)' = Held(k)
<1>0. Shape /\ IsFiniteSet(InFrames(k)) /\ Framed /\ w \in Threads
  BY ThreadFacts DEF Struct, Finite
<1>1. /\ Len(stack[w]) = 1 /\ stack[w][1].kind = "main" /\ stack'[w] = <<>>
      /\ \A u \in Threads \ {w} : stack'[u] = stack[u]
  BY ExitForm
<1>2. DOMAIN stack[w] = 1 .. 1 /\ FrameOK(stack[w][1])
  BY <1>0, <1>1, StackFacts DEF Shape, Framed
<1>3. KindPc(stack[w][1]) /\ PendOK(stack[w][1])
  BY <1>2 DEF FrameOK
<1>4. stack[w][1].pc = "wait"
  BY <1>1, <1>3 DEF KindPc, CallKinds, StackJobs
<1>5. stack[w][1].pend = NoJob /\ stack[w][1].todo = {}
  BY <1>1, <1>3, <1>4 DEF PendOK, UserPcs
<1>6. Marks(stack[w][1], k) = {}
  BY <1>1, <1>4, <1>5 DEF Marks, Token
<1>7. ASSUME NEW x PROVE x \in InFrames(k)' <=> x \in InFrames(k)
  <2>1. ASSUME x \in InFrames(k)' PROVE x \in InFrames(k)
    BY <1>1, <2>1, InFramesNext, InFramesAt
  <2>2. ASSUME x \in InFrames(k) PROVE x \in InFrames(k)'
    <3>1. PICK t \in Threads : \E i \in DOMAIN stack[t] : x \in Spot(t, i, Marks(stack[t][i], k))
      BY <2>2, InFramesAt
    <3>2. PICK i \in DOMAIN stack[t] : x \in Spot(t, i, Marks(stack[t][i], k))
      BY <3>1
    <3>3. t # w
      BY <1>2, <1>6, <3>2 DEF Spot
    <3> QED BY <1>1, <3>2, <3>3, InFramesNext
  <2> QED BY <2>1, <2>2
<1>8. InFrames(k)' = InFrames(k)
  BY <1>7
<1>9. QSame
  BY QueueSame DEF Exit
<1> QED BY <1>0, <1>8, <1>9, QueuesSame DEF Held

-----------------------------------------------------------------------------
(* What single frames hold.                                                  *)
Holds(f, id) == IF Token(f) /\ f.id = id THEN 1 ELSE 0

LEMMA PlainWeight ==
  ASSUME NEW f, f.pend = NoJob, f.todo = {}, NEW id
  PROVE  Weight(f, <<"held", id>>) = Holds(f, id) /\ Weight(f, <<"owed", id>>) = 0 /\ Holds(f, id) \in Nat
<1>1. Cardinality(f.todo) = 0
  BY FS_EmptySet
<1>2. \A k : Pend(f, k) = 0 /\ Todo(f, k) = 0
  BY <1>1 DEF Pend, Todo
<1>3. Self(f, <<"held", id>>) = Holds(f, id) /\ Self(f, <<"owed", id>>) = 0 /\ Holds(f, id) \in Nat
  BY DEF Self, Holds
<1> QED BY <1>2, <1>3 DEF Weight

\* One with a job to push, alone.
LEMMA PendWeight ==
  ASSUME NEW f, f.pend # NoJob, f.todo = {}, NEW id
  PROVE  /\ Weight(f, <<"held", id>>) = Holds(f, id) + (IF f.pend.id = id THEN 1 ELSE 0)
         /\ Weight(f, <<"owed", id>>) = 0 /\ Holds(f, id) \in Nat
<1>1. Cardinality(f.todo) = 0
  BY FS_EmptySet
<1>2. \A k : Todo(f, k) = 0
  BY <1>1 DEF Todo
<1>3. Pend(f, <<"held", id>>) = (IF f.pend.id = id THEN 1 ELSE 0) /\ Pend(f, <<"owed", id>>) = 0
  BY DEF Pend
<1>4. Self(f, <<"held", id>>) = Holds(f, id) /\ Self(f, <<"owed", id>>) = 0 /\ Holds(f, id) \in Nat
  BY DEF Self, Holds
<1> QED BY <1>2, <1>3, <1>4 DEF Weight

\* One with the jobs of a broadcast to push.
LEMMA TodoWeight ==
  ASSUME NEW f \in FrameSet, f.pend # NoJob, NEW id
  PROVE  /\ f.todo # {} /\ f.pend.kind = "broadcast_op" =>
              /\ Weight(f, <<"held", id>>) = Holds(f, id) + (IF f.pend.id = id THEN Cardinality(f.todo) ELSE 0)
              /\ Weight(f, <<"owed", id>>) = 0
         /\ f.todo # {} /\ f.pend.kind # "broadcast_op" =>
              /\ Weight(f, <<"held", id>>) = Holds(f, id)
              /\ Weight(f, <<"owed", id>>) = (IF f.pend.id = id THEN Cardinality(f.todo) ELSE 0)
         /\ Holds(f, id) \in Nat /\ Cardinality(f.todo) \in Nat
<1>1. IsFiniteSet(f.todo) /\ Cardinality(f.todo) \in Nat
  BY ThreadFacts, FS_Subset, FS_CardinalityType DEF FrameSet
<1>2. Self(f, <<"held", id>>) = Holds(f, id) /\ Self(f, <<"owed", id>>) = 0 /\ Holds(f, id) \in Nat
  BY DEF Self, Holds
<1>3. CASE f.todo # {}
  <2>1. \A k : Pend(f, k) = 0
    BY <1>3 DEF Pend
  <2>2. f.pend.kind = "broadcast_op" =>
          /\ Todo(f, <<"held", id>>) = (IF f.pend.id = id THEN Cardinality(f.todo) ELSE 0) /\ Todo(f, <<"owed", id>>) = 0
    BY DEF Todo, TodoKey
  <2>3. f.pend.kind # "broadcast_op" =>
          /\ Todo(f, <<"owed", id>>) = (IF f.pend.id = id THEN Cardinality(f.todo) ELSE 0) /\ Todo(f, <<"held", id>>) = 0
    BY DEF Todo, TodoKey
  <2>4. \A k : Weight(f, k) = Self(f, k) + Pend(f, k) + Todo(f, k)
    BY DEF Weight
  <2> QED BY <1>1, <1>2, <2>1, <2>2, <2>3, <2>4
<1> QED BY <1>1, <1>2, <1>3

LEMMA OneAt ==
  ASSUME NEW j, NEW id
  PROVE  One(j, <<"held", id>>) = (IF j.id = id THEN 1 ELSE 0) /\ One(j, <<"owed", id>>) = 0
BY DEF One

-----------------------------------------------------------------------------
(* Who holds a call.                                                         *)
LEMMA MarkHeld ==
  ASSUME Shape, Finite, NEW t \in Threads, NEW i \in DOMAIN stack[t], NEW k, Marks(stack[t][i], k) # {}
  PROVE  Held(k) \in Nat /\ Held(k) > 0
<1>1. PICK m : m \in Marks(stack[t][i], k)
  OBVIOUS
<1>2. <<t, i, m>> \in InFrames(k)
  BY <1>1, InFramesAt DEF Spot
<1>3. IsFiniteSet(InFrames(k)) /\ InFrames(k) # {}
  BY <1>2 DEF Finite
<1>4. Cardinality(InFrames(k)) \in Nat /\ Cardinality(InFrames(k)) # 0
  BY <1>3, FS_EmptySet, FS_CardinalityType
<1>5. Held(k) \in Nat /\ Cardinality(InQueues(k)) \in Nat
  BY HeldNat
<1> QED BY <1>4, <1>5 DEF Held

LEMMA TokenHeld ==
  ASSUME Shape, Finite, NEW t \in Threads, NEW i \in DOMAIN stack[t], Token(stack[t][i]), NEW id, id = stack[t][i].id
  PROVE  Held(<<"held", id>>) \in Nat /\ Held(<<"held", id>>) > 0
<1>1. <<"self", 0>> \in Marks(stack[t][i], <<"held", id>>)
  BY DEF Marks
<1> QED BY <1>1, MarkHeld

LEMMA PendHeld ==
  ASSUME Shape, Finite, NEW t \in Threads, NEW i \in DOMAIN stack[t], stack[t][i].pend # NoJob,
         stack[t][i].todo = {} \/ stack[t][i].pend.kind = "broadcast_op", NEW id, id = stack[t][i].pend.id
  PROVE  Held(<<"held", id>>) \in Nat /\ Held(<<"held", id>>) > 0
<1>1. CASE stack[t][i].todo = {}
  <2>1. <<"pend", 0>> \in Marks(stack[t][i], <<"held", id>>)
    BY <1>1 DEF Marks
  <2> QED BY <2>1, MarkHeld
<1>2. CASE stack[t][i].todo # {} /\ stack[t][i].pend.kind = "broadcast_op"
  <2>1. PICK w \in stack[t][i].todo : TRUE
    BY <1>2
  <2>2. <<"todo", w>> \in Marks(stack[t][i], <<"held", id>>)
    BY <1>2, <2>1 DEF Marks
  <2> QED BY <2>2, MarkHeld
<1> QED BY <1>1, <1>2

LEMMA QueuedHeld ==
  ASSUME Shape, Finite, NEW q \in Names, NEW i \in DOMAIN Queue[q], NEW id, id = Queue[q][i].id
  PROVE  Held(<<"held", id>>) \in Nat /\ Held(<<"held", id>>) > 0
<1>1. PICK k : k = <<"held", id>>
  OBVIOUS
<1>2. <<q, i>> \in InQueues(k)
  BY <1>1, InQueuesAt
<1>3. IsFiniteSet(InQueues(k)) /\ InQueues(k) # {}
  BY <1>2, QueuesFinite
<1>4. Cardinality(InQueues(k)) \in Nat /\ Cardinality(InQueues(k)) # 0
  BY <1>3, FS_EmptySet, FS_CardinalityType
<1>5. Held(k) \in Nat /\ Cardinality(InFrames(k)) \in Nat
  BY HeldNat
<1> QED BY <1>1, <1>4, <1>5 DEF Held

\* A call that somebody holds has its frame on the stack.
LEMMA HeldLive ==
  ASSUME Struct, Counted, NEW id \in 1 .. Len(call), Held(<<"held", id>>) > 0, Held(<<"held", id>>) \in Nat
  PROVE  /\ ~call[id].set /\ call[id].out = None
         /\ \E t \in Threads : \E i \in DOMAIN stack[t] : IsCall(t, i, id)
         /\ call[id].kind \in Counting => call[id].count > 0
<1>1. Held(<<"held", id>>) = Due(id)
  BY DEF Counted, Entry
<1>2. Due(id) > 0
  BY <1>1
<1>3. CASE call[id].kind \in Counting
  <2>1. call[id].count > 0
    BY <1>2, <1>3 DEF Due
  <2>2. ~call[id].set
    <3>1. call[id].set => call[id].count = 0
      BY <1>3 DEF Counted, Entry
    <3> QED BY <2>1, <3>1
  <2>3. call[id].out = None
    BY <1>3, <2>2 DEF Struct, Called, Counting
  <2> QED BY <2>1, <2>2, <2>3 DEF Struct, Called
<1>4. CASE call[id].kind \notin Counting
  <2>1. ~call[id].set /\ call[id].out = None
    BY <1>2, <1>4 DEF Due
  <2> QED BY <1>4, <2>1 DEF Struct, Called
<1> QED BY <1>3, <1>4

\* Where the code around a job's call sees the same scopes.
LEMMA JobDown ==
  ASSUME Struct, Counted, NEW j, JobOK(j), j.kind # "spawned", Held(<<"held", j.id>>) > 0, Held(<<"held", j.id>>) \in Nat,
         NEW s \in j.env, s # j.id
  PROVE  \E v \in Threads : \E l \in DOMAIN stack[v] :
           stack[v][l].pc \in UserPcs /\ s \in stack[v][l].env /\ stack[v][l].id < j.id
<1>1. j.id \in 1 .. Len(call) /\ Rooted(j.id, j.env)
  BY DEF JobOK
<1>2. PICK v \in Threads : \E l \in DOMAIN stack[v] : IsCall(v, l, j.id)
  BY <1>1, HeldLive
<1>3. PICK l \in DOMAIN stack[v] : IsCall(v, l, j.id)
  BY <1>2
<1>4. stack[v][l].kind \in CallKinds /\ stack[v][l].id = j.id
  BY <1>3 DEF IsCall
<1>5. s \in stack[v][l - 1].env
  BY <1>1, <1>3 DEF Rooted
<1>6. stack[v][l].kind \notin {"client", "main"} /\ stack[v][l].kind \notin JobKinds /\ stack[v][l].kind # "terminator"
  BY <1>4 DEF CallKinds, JobKinds, StackJobs
<1>7. l - 1 \in DOMAIN stack[v] /\ Above(v, stack[v][l], stack[v][l - 1])
  BY <1>6, Inner DEF Struct, Shape
<1>8. stack[v][l - 1].pc \in UserPcs /\ stack[v][l - 1].id < j.id
  BY <1>4, <1>6, <1>7 DEF Above
<1> QED BY <1>5, <1>7, <1>8

LEMMA EnvDown ==
  ASSUME Struct, Finite, Counted, NEW t \in Threads, NEW i \in DOMAIN stack[t], stack[t][i].pc \in UserPcs,
         NEW s \in stack[t][i].env, ~(Held(<<"held", s>>) > 0)
  PROVE  \E v \in Threads : \E l \in DOMAIN stack[v] :
           stack[v][l].pc \in UserPcs /\ s \in stack[v][l].env /\ stack[v][l].id < stack[t][i].id
<1>0. Shape /\ Framed /\ Stacked /\ Jobs
  BY DEF Struct
<1>1. PICK f : f = stack[t][i]
  OBVIOUS
<1>2. FrameOK(f) /\ f \in FrameSet
  BY <1>0, <1>1, StackFacts DEF Framed, Shape
<1>3. KindPc(f) /\ f.kind \notin Rootless
  BY <1>1, <1>2 DEF FrameOK
<1>4. f.kind \in AllKinds
  BY <1>2 DEF FrameSet
<1>5. CASE f.kind \in CallKinds
  <2>1. f.kind \notin {"client", "main"} /\ f.kind \notin JobKinds /\ f.kind # "terminator"
    BY <1>5 DEF CallKinds, JobKinds, StackJobs
  <2>2. i - 1 \in DOMAIN stack[t] /\ Above(t, f, stack[t][i - 1])
    BY <1>0, <1>1, <2>1, Inner DEF Shape
  <2>3. /\ stack[t][i - 1].pc \in UserPcs /\ stack[t][i - 1].id < f.id
        /\ s \in stack[t][i - 1].env \/ (f.kind = "scope" /\ s = f.id)
    BY <1>1, <2>1, <2>2 DEF Above
  <2>4. ~(f.kind = "scope" /\ s = f.id)
    <3>1. SUFFICES ASSUME f.kind = "scope" /\ s = f.id PROVE FALSE
      OBVIOUS
    <3>2. f.pc = "op"
      BY <1>1, <1>3, <3>1 DEF KindPc, UserPcs, StackJobs
    <3>3. Token(stack[t][i])
      BY <1>1, <3>1, <3>2 DEF Token
    <3>4. s = stack[t][i].id
      BY <1>1, <3>1
    <3> QED BY <1>0, <3>3, <3>4, TokenHeld
  <2> QED BY <1>1, <2>2, <2>3, <2>4
<1>6. CASE f.kind \in JobKinds
  <2>1. f.kind # "spawned" /\ f.kind \in StackJobs \cup {"scope_job"}
    BY <1>3, <1>6 DEF Rootless, JobKinds
  <2>2. f.pc = "run"
    BY <1>1, <1>3, <2>1 DEF KindPc, UserPcs, StackJobs, CallKinds
  <2>3. Token(f)
    BY <2>1, <2>2 DEF Token, StackJobs
  <2>4. Held(<<"held", f.id>>) \in Nat /\ Held(<<"held", f.id>>) > 0
    BY <1>0, <1>1, <2>3, TokenHeld
  <2>5. JobOK(f)
    BY <1>0, <1>1, <1>6 DEF Jobs
  <2>6. s # f.id
    BY <2>4
  <2> QED BY <1>1, <2>1, <2>4, <2>5, <2>6, JobDown
<1> QED BY <1>3, <1>4, <1>5, <1>6 DEF AllKinds, Rootless

\* As long as code runs that can name a scope, somebody holds it.
LEMMA EnvHeld ==
  ASSUME Struct, Finite, Counted, NEW t \in Threads, NEW i \in DOMAIN stack[t], stack[t][i].pc \in UserPcs,
         NEW s \in stack[t][i].env
  PROVE  /\ Held(<<"held", s>>) > 0 /\ Held(<<"held", s>>) \in Nat
         /\ s \in 1 .. Len(call) /\ call[s].kind = "scope"
<1>0. Shape /\ Framed /\ Jobs
  BY DEF Struct
<1>1. s \in 1 .. Len(call) /\ call[s].kind = "scope"
  <2>1. FrameOK(stack[t][i]) /\ Lexical(stack[t][i].env)
    BY <1>0 DEF Framed, Jobs
  <2> QED BY <2>1 DEF FrameOK, Lexical
<1>2. Held(<<"held", s>>) \in Nat
  BY <1>0, HeldNat
<1>3. Held(<<"held", s>>) > 0
  <2>1. SUFFICES ASSUME ~(Held(<<"held", s>>) > 0) PROVE FALSE
    OBVIOUS
  <2>2. PICK B : B = {n \in Nat : \E v \in Threads : \E l \in DOMAIN stack[v] :
                        stack[v][l].pc \in UserPcs /\ s \in stack[v][l].env /\ stack[v][l].id = n}
    OBVIOUS
  <2>3. ASSUME NEW v \in Threads, NEW l \in DOMAIN stack[v], stack[v][l].pc \in UserPcs, s \in stack[v][l].env
        PROVE  stack[v][l].id \in B
    <3>1. stack[v][l] \in FrameSet
      BY <1>0, <2>3, StackFacts DEF Shape
    <3>2. stack[v][l].id \in Nat
      BY <3>1 DEF FrameSet
    <3> QED BY <2>2, <2>3, <3>2
  <2>4. B # {} /\ B \subseteq Nat
    BY <2>2, <2>3
  <2>5. PICK n \in B : \A m \in B : n =< m
    BY <2>4, NatLeast
  <2>6. PICK v \in Threads : \E l \in DOMAIN stack[v] :
          stack[v][l].pc \in UserPcs /\ s \in stack[v][l].env /\ stack[v][l].id = n
    BY <2>2, <2>5
  <2>7. PICK l \in DOMAIN stack[v] : stack[v][l].pc \in UserPcs /\ s \in stack[v][l].env /\ stack[v][l].id = n
    BY <2>6
  <2>8. PICK u \in Threads : \E j \in DOMAIN stack[u] :
          stack[u][j].pc \in UserPcs /\ s \in stack[u][j].env /\ stack[u][j].id < n
    BY <2>1, <2>7, EnvDown
  <2>9. PICK j \in DOMAIN stack[u] : stack[u][j].pc \in UserPcs /\ s \in stack[u][j].env /\ stack[u][j].id < n
    BY <2>8
  <2>10. stack[u][j].id \in B
    BY <2>3, <2>9
  <2>11. PICK m : m = stack[u][j].id
    OBVIOUS
  <2>12. m \in B /\ m < n /\ n \in Nat /\ m \in Nat /\ n =< m
    BY <2>4, <2>5, <2>9, <2>10, <2>11
  <2> QED BY <2>12
<1> QED BY <1>1, <1>2, <1>3

LEMMA JobEnvHeld ==
  ASSUME Struct, Finite, Counted, NEW j, JobOK(j), j.kind # "spawned", Held(<<"held", j.id>>) > 0,
         Held(<<"held", j.id>>) \in Nat, NEW s \in j.env
  PROVE  Held(<<"held", s>>) > 0 /\ Held(<<"held", s>>) \in Nat /\ s \in 1 .. Len(call)
<1>1. CASE s = j.id
  BY <1>1 DEF JobOK
<1>2. CASE s # j.id
  <2>1. PICK v \in Threads : \E l \in DOMAIN stack[v] :
           stack[v][l].pc \in UserPcs /\ s \in stack[v][l].env /\ stack[v][l].id < j.id
    BY <1>2, JobDown
  <2>2. PICK l \in DOMAIN stack[v] : stack[v][l].pc \in UserPcs /\ s \in stack[v][l].env
    BY <2>1
  <2> QED BY <2>2, EnvHeld
<1> QED BY <1>1, <1>2

-----------------------------------------------------------------------------
(* Frames outlive the jobs that point into them.                             *)
LEMMA FramesAt ==
  ASSUME NEW f
  PROVE  f \in Frames <=> \E t \in Threads : \E i \in DOMAIN stack[t] : f = stack[t][i]
BY DEF Frames, ToSet

LEMMA PendingAt ==
  ASSUME NEW j \in Pending
  PROVE  /\ j # NoJob
         /\ \/ \E t \in Threads : \E i \in DOMAIN stack[t] : j = stack[t][i].pend
            \/ \E q \in Names : \E i \in DOMAIN Queue[q] : j = Queue[q][i]
<1>1. j # NoJob
  BY DEF Pending
<1>2. \/ \E f \in Frames : j = f.pend
      \/ \E i \in DOMAIN injected_jobs : j = injected_jobs[i]
      \/ \E w \in Workers : \E i \in DOMAIN deque[w] : j = deque[w][i]
      \/ \E w \in Workers : \E i \in DOMAIN broadcasts[w] : j = broadcasts[w][i]
  BY DEF Pending, ToSet
<1>3. CASE \E f \in Frames : j = f.pend
  BY <1>1, <1>3, FramesAt
<1>4. CASE \E i \in DOMAIN injected_jobs : j = injected_jobs[i]
  BY <1>1, <1>4, QueueAt
<1>5. CASE \E w \in Workers : \E i \in DOMAIN deque[w] : j = deque[w][i]
  <2>1. PICK w \in Workers : \E i \in DOMAIN deque[w] : j = deque[w][i]
    BY <1>5
  <2>2. <<"deque", w>> \in Names /\ Queue[<<"deque", w>>] = deque[w]
    BY QueueAt
  <2> QED BY <1>1, <2>1, <2>2
<1>6. CASE \E w \in Workers : \E i \in DOMAIN broadcasts[w] : j = broadcasts[w][i]
  <2>1. PICK w \in Workers : \E i \in DOMAIN broadcasts[w] : j = broadcasts[w][i]
    BY <1>6
  <2>2. <<"bcast", w>> \in Names /\ Queue[<<"bcast", w>>] = broadcasts[w]
    BY QueueAt
  <2> QED BY <1>1, <2>1, <2>2
<1> QED BY <1>2, <1>3, <1>4, <1>5, <1>6

LEMMA LiveAt ==
  ASSUME NEW id
  PROVE  id \in Live <=> \E t \in Threads : \E i \in DOMAIN stack[t] : IsCall(t, i, id)
<1>1. id \in Live <=> \E f \in Frames : f.kind \in CallKinds /\ id = f.id
  BY DEF Live
<1>2. (\E f \in Frames : f.kind \in CallKinds /\ id = f.id)
        <=> \E t \in Threads : \E i \in DOMAIN stack[t] : IsCall(t, i, id)
  BY FramesAt DEF IsCall
<1> QED BY <1>1, <1>2

LEMMA HeldUnset ==
  ASSUME Struct, Counted, NEW id \in 1 .. Len(call), Held(<<"held", id>>) > 0, Held(<<"held", id>>) \in Nat
  PROVE  id \in Unset
<1>1. ~call[id].set /\ \E t \in Threads : \E i \in DOMAIN stack[t] : IsCall(t, i, id)
  BY HeldLive
<1> QED BY <1>1, LiveAt DEF Unset

LEMMA HeldJobOutlived ==
  ASSUME Struct, Finite, Counted, NEW j, JobOK(j), j.kind = "spawned" \/ Held(<<"held", j.id>>) > 0
  PROVE  j.env \cup ({j.id} \ {0}) \subseteq Unset
<1>1. CASE j.kind = "spawned"
  BY <1>1 DEF JobOK
<1>2. CASE j.kind # "spawned"
  <2>1. Held(<<"held", j.id>>) \in Nat /\ Held(<<"held", j.id>>) > 0 /\ j.id \in 1 .. Len(call)
    BY <1>2, HeldNat DEF Struct, JobOK
  <2>2. j.id \in Unset
    BY <2>1, HeldUnset
  <2>3. ASSUME NEW s \in j.env PROVE s \in Unset
    <3>1. Held(<<"held", s>>) > 0 /\ Held(<<"held", s>>) \in Nat /\ s \in 1 .. Len(call)
      BY <1>2, <2>1, JobEnvHeld
    <3> QED BY <3>1, HeldUnset
  <2> QED BY <2>2, <2>3
<1> QED BY <1>1, <1>2

LEMMA EnvOutlived ==
  ASSUME Struct, Finite, Counted, NEW t \in Threads, NEW i \in DOMAIN stack[t], stack[t][i].pc \in UserPcs
  PROVE  stack[t][i].env \subseteq Unset
<1>1. SUFFICES ASSUME NEW s \in stack[t][i].env PROVE s \in Unset
  OBVIOUS
<1>2. Held(<<"held", s>>) > 0 /\ Held(<<"held", s>>) \in Nat /\ s \in 1 .. Len(call)
  BY EnvHeld
<1> QED BY <1>2, HeldUnset

LEMMA PendOutlived ==
  ASSUME Struct, Finite, Counted, NEW j \in Pending
  PROVE  j.env \cup ({j.id} \ {0}) \subseteq Unset
<1>0. Shape /\ Framed /\ Jobs
  BY DEF Struct
<1>1. CASE \E q \in Names : \E i \in DOMAIN Queue[q] : j = Queue[q][i]
  <2>1. PICK q \in Names : \E i \in DOMAIN Queue[q] : j = Queue[q][i]
    BY <1>1
  <2>2. PICK i \in DOMAIN Queue[q] : j = Queue[q][i]
    BY <2>1
  <2>3. JobOK(j)
    BY <1>0, <2>2 DEF Jobs
  <2>4. Held(<<"held", j.id>>) > 0
    BY <1>0, <2>2, QueuedHeld
  <2> QED BY <2>3, <2>4, HeldJobOutlived
<1>2. CASE \E t \in Threads : \E i \in DOMAIN stack[t] : j = stack[t][i].pend
  <2>1. PICK t \in Threads : \E i \in DOMAIN stack[t] : j = stack[t][i].pend
    BY <1>2
  <2>2. PICK i \in DOMAIN stack[t] : j = stack[t][i].pend
    BY <2>1
  <2>3. j # NoJob
    BY PendingAt
  <2>4. JobOK(j) /\ FrameOK(stack[t][i])
    BY <1>0, <2>2, <2>3 DEF Jobs, Framed
  <2>5. PendOK(stack[t][i])
    BY <2>4 DEF FrameOK
  <2>6. CASE stack[t][i].todo = {} \/ j.kind = "broadcast_op"
    <3>1. Held(<<"held", j.id>>) > 0
      BY <1>0, <2>2, <2>3, <2>6, PendHeld
    <3> QED BY <2>4, <3>1, HeldJobOutlived
  <2>7. CASE j.kind = "spawned"
    BY <2>4, <2>7, HeldJobOutlived
  <2>8. CASE stack[t][i].todo # {} /\ j.kind \notin {"broadcast_op", "spawned"}
    <3>1. stack[t][i].pc \in UserPcs /\ j.id \in stack[t][i].env /\ j.env \subseteq stack[t][i].env
      BY <2>2, <2>3, <2>5, <2>8 DEF PendOK
    <3>2. stack[t][i].env \subseteq Unset
      BY <3>1, EnvOutlived
    <3> QED BY <3>1, <3>2
  <2> QED BY <2>6, <2>7, <2>8
<1> QED BY <1>1, <1>2, PendingAt

LEMMA JobOutlived ==
  ASSUME Struct, Finite, Counted, Cored, NEW t \in Threads, NEW i \in DOMAIN stack[t],
         stack[t][i].kind \in JobKinds \ {"spawned"}, stack[t][i].pc # "notify"
  PROVE  stack[t][i].id \in Unset
<1>0. Shape /\ Framed /\ Jobs /\ Called
  BY DEF Struct
<1>1. PICK f : f = stack[t][i]
  OBVIOUS
<1>2. FrameOK(f) /\ JobOK(f) /\ f.kind \in JobKinds /\ f.kind # "spawned"
  BY <1>0, <1>1 DEF Framed, Jobs
<1>3. KindPc(f) /\ f.id \in 1 .. Len(call) /\ call[f.id].kind = Of(f.kind)
  BY <1>2 DEF FrameOK, JobOK
<1>4. f.pc \in {"run", "panicked", "set", "core"}
  BY <1>1, <1>2, <1>3 DEF KindPc, JobKinds, StackJobs, CallKinds
<1>5. CASE Token(f)
  <2>1. Held(<<"held", f.id>>) > 0 /\ Held(<<"held", f.id>>) \in Nat
    BY <1>0, <1>1, <1>5, TokenHeld
  <2> QED BY <1>1, <1>3, <2>1, HeldUnset
<1>6. CASE ~Token(f)
  <2>1. f.pc = "core" /\ f.kind \in {"scope_job", "broadcast_op"}
    BY <1>2, <1>3, <1>4, <1>6 DEF Token, JobKinds, StackJobs, KindPc, CallKinds
  <2>2. call[f.id].kind \in Counting
    BY <1>3, <2>1 DEF Of, Counting
  <2>3. ~call[f.id].set
    BY <1>1, <2>1, <2>2 DEF Cored
  <2>4. call[f.id].out = None
    BY <1>0, <1>3, <2>2, <2>3 DEF Called, Counting
  <2>5. \E u \in Threads : \E l \in DOMAIN stack[u] : IsCall(u, l, f.id)
    BY <1>0, <1>3, <2>4 DEF Called
  <2> QED BY <1>1, <2>3, <2>5, LiveAt DEF Unset
<1> QED BY <1>5, <1>6

LEMMA OutliveFollows ==
  ASSUME Struct, Finite, Counted, Cored
  PROVE  FramesOutliveJobs
<1>1. \A j \in Pending : j.env \cup ({j.id} \ {0}) \subseteq Unset
  BY PendOutlived
<1>2. ASSUME NEW f \in Frames
      PROVE  /\ f.pc \in UserPcs => f.env \subseteq Unset
             /\ f.kind \in JobKinds \ {"spawned"} /\ f.pc # "notify" => f.id \in Unset
  <2>1. PICK t \in Threads : \E i \in DOMAIN stack[t] : f = stack[t][i]
    BY <1>2, FramesAt
  <2>2. PICK i \in DOMAIN stack[t] : f = stack[t][i]
    BY <2>1
  <2> QED BY <2>2, EnvOutlived, JobOutlived
<1> QED BY <1>1, <1>2 DEF FramesOutliveJobs

-----------------------------------------------------------------------------
(* The counts are kept: what each way to change a stack changes.             *)
Sum(id, d) == Held(<<"held", id>>)' = Held(<<"held", id>>) + d /\ Held(<<"owed", id>>)' = Held(<<"owed", id>>)

LEMMA SetHeld ==
  ASSUME Struct, Finite, NEW t \in Threads, stack[t] # <<>>, Top(t).pend = NoJob, Top(t).todo = {},
         NEW h \in FrameSet, h.pend = NoJob, h.todo = {}, stack' = SetTop(t, h), QSame
  PROVE  /\ Finite'
         /\ \A id : Sum(id, Holds(h, id) - Holds(Top(t), id)) /\ Holds(h, id) \in Nat /\ Holds(Top(t), id) \in Nat
<1>0. Shape /\ stack \in [Threads -> Seq(FrameSet)]
  BY DEF Struct, Shape
<1>1. Stacks /\ Puts(t, Len(stack[t]), h)
  BY <1>0, SetTopPuts DEF Stacks
<1>2. ASSUME NEW k
      PROVE  /\ IsFiniteSet(InFrames(k)') /\ Held(k)' = Held(k) - Weight(Top(t), k) + Weight(h, k) + 0
             /\ Weight(Top(t), k) \in Nat /\ Weight(h, k) \in Nat /\ Held(k) \in Nat
  <2>1. QDelta(k, 0)
    BY <1>0, QDeltaSame
  <2> QED BY <1>1, <2>1, HeldSet
<1>3. Finite'
  BY <1>2 DEF Finite
<1>4. ASSUME NEW id
      PROVE  Sum(id, Holds(h, id) - Holds(Top(t), id)) /\ Holds(h, id) \in Nat /\ Holds(Top(t), id) \in Nat
  <2>1. Weight(h, <<"held", id>>) = Holds(h, id) /\ Weight(h, <<"owed", id>>) = 0 /\ Holds(h, id) \in Nat
    BY PlainWeight
  <2>2. Weight(Top(t), <<"held", id>>) = Holds(Top(t), id) /\ Weight(Top(t), <<"owed", id>>) = 0 /\ Holds(Top(t), id) \in Nat
    BY PlainWeight
  <2>3. Held(<<"held", id>>)' = Held(<<"held", id>>) + (Holds(h, id) - Holds(Top(t), id))
    BY <1>2, <2>1, <2>2
  <2>4. Held(<<"owed", id>>)' = Held(<<"owed", id>>)
    BY <1>2, <2>1, <2>2
  <2> QED BY <2>1, <2>2, <2>3, <2>4 DEF Sum
<1> QED BY <1>3, <1>4

LEMMA PopHeld ==
  ASSUME Struct, Finite, NEW t \in Threads, Len(stack[t]) > 1, Top(t).pend = NoJob, Top(t).todo = {},
         NEW f, Stacks, Puts(t, Len(stack[t]) - 1, f), QSame,
         \A k : Marks(f, k) = Marks(stack[t][Len(stack[t]) - 1], k)
  PROVE  Finite' /\ \A id : Sum(id, -Holds(Top(t), id)) /\ Holds(Top(t), id) \in Nat
<1>2. ASSUME NEW k
      PROVE  /\ IsFiniteSet(InFrames(k)') /\ Held(k)' = Held(k) - Weight(Top(t), k)
             /\ Weight(Top(t), k) \in Nat /\ Held(k) \in Nat
  BY HeldPop
<1>3. Finite'
  BY <1>2 DEF Finite
<1>4. ASSUME NEW id
      PROVE  Sum(id, -Holds(Top(t), id)) /\ Holds(Top(t), id) \in Nat
  <2>2. Weight(Top(t), <<"held", id>>) = Holds(Top(t), id) /\ Weight(Top(t), <<"owed", id>>) = 0 /\ Holds(Top(t), id) \in Nat
    BY PlainWeight
  <2>3. Held(<<"held", id>>)' = Held(<<"held", id>>) + (-Holds(Top(t), id))
    BY <1>2, <2>2
  <2>4. Held(<<"owed", id>>)' = Held(<<"owed", id>>)
    BY <1>2, <2>2
  <2> QED BY <2>2, <2>3, <2>4 DEF Sum
<1> QED BY <1>3, <1>4

\* A new frame; a job may come off a queue, or be pushed with it.
LEMMA PushHeld ==
  ASSUME Struct, Finite, Stacks, NEW t \in Threads, NEW f \in FrameSet, Puts(t, Len(stack[t]) + 1, f),
         f.pend = NoJob, f.todo = {}, QSame
  PROVE  Finite' /\ \A id : Sum(id, Holds(f, id)) /\ Holds(f, id) \in Nat
<1>0. Shape
  BY DEF Struct
<1>2. ASSUME NEW k
      PROVE  /\ IsFiniteSet(InFrames(k)') /\ Held(k)' = Held(k) + Weight(f, k) + 0
             /\ Weight(f, k) \in Nat /\ Held(k) \in Nat
  <2>1. QDelta(k, 0)
    BY <1>0, QDeltaSame
  <2> QED BY <2>1, HeldPush
<1>3. Finite'
  BY <1>2 DEF Finite
<1>4. ASSUME NEW id
      PROVE  Sum(id, Holds(f, id)) /\ Holds(f, id) \in Nat
  <2>1. Weight(f, <<"held", id>>) = Holds(f, id) /\ Weight(f, <<"owed", id>>) = 0 /\ Holds(f, id) \in Nat
    BY PlainWeight
  <2>3. Held(<<"held", id>>)' = Held(<<"held", id>>) + Holds(f, id)
    BY <1>2, <2>1
  <2>4. Held(<<"owed", id>>)' = Held(<<"owed", id>>)
    BY <1>2, <2>1
  <2> QED BY <2>1, <2>3, <2>4 DEF Sum
<1> QED BY <1>3, <1>4

LEMMA PushPushHeld ==
  ASSUME Struct, Finite, Stacks, NEW t \in Threads, NEW f \in FrameSet, Puts(t, Len(stack[t]) + 1, f),
         f.pend = NoJob, f.todo = {}, NEW q, NEW j \in JobSet, QPush(q, j)
  PROVE  Finite' /\ \A id : Sum(id, Holds(f, id) + (IF j.id = id THEN 1 ELSE 0)) /\ Holds(f, id) \in Nat
<1>0. Shape
  BY DEF Struct
<1>2. ASSUME NEW k
      PROVE  /\ IsFiniteSet(InFrames(k)') /\ Held(k)' = Held(k) + Weight(f, k) + One(j, k)
             /\ Weight(f, k) \in Nat /\ Held(k) \in Nat
  <2>1. QDelta(k, One(j, k))
    BY <1>0, QDeltaPush
  <2> QED BY <2>1, HeldPush
<1>3. Finite'
  BY <1>2 DEF Finite
<1>4. ASSUME NEW id
      PROVE  Sum(id, Holds(f, id) + (IF j.id = id THEN 1 ELSE 0)) /\ Holds(f, id) \in Nat
  <2>1. Weight(f, <<"held", id>>) = Holds(f, id) /\ Weight(f, <<"owed", id>>) = 0 /\ Holds(f, id) \in Nat
    BY PlainWeight
  <2>2. One(j, <<"held", id>>) = (IF j.id = id THEN 1 ELSE 0) /\ One(j, <<"owed", id>>) = 0
    BY OneAt
  <2>3. Held(<<"held", id>>)' = Held(<<"held", id>>) + (Holds(f, id) + (IF j.id = id THEN 1 ELSE 0))
    BY <1>2, <2>1, <2>2
  <2>4. Held(<<"owed", id>>)' = Held(<<"owed", id>>)
    BY <1>2, <2>1, <2>2
  <2> QED BY <2>1, <2>3, <2>4 DEF Sum
<1> QED BY <1>3, <1>4

LEMMA ExecuteHeld ==
  ASSUME Struct, Finite, NEW t \in Workers, NEW q, NEW j, NEW d, Executes(t, q, j, d)
  PROVE  Finite' /\ \A id : Sum(id, 0)
<1>0. Shape /\ t \in Threads
  BY ThreadFacts DEF Struct
<1>1. PICK f : f = Frame(j.kind, j.id, j.env, "run")
  OBVIOUS
<1>2. QTake(q, j, d) /\ stack' = PushFrame(t, f)
  BY <1>1 DEF Executes, Execute
<1>3. j \in JobSet
  BY <1>2, TakenOK
<1>4. f \in FrameSet /\ f.pend = NoJob /\ f.todo = {} /\ f.kind = j.kind /\ f.id = j.id /\ f.pc = "run" /\ j.kind \in JobKinds
  BY <1>1, <1>3 DEF Frame, FrameSet, JobSet, AllKinds, AllPcs, UserPcs
<1>5. Token(f)
  BY <1>4 DEF Token, JobKinds, StackJobs
<1>6. Stacks /\ Puts(t, Len(stack[t]) + 1, f)
  BY <1>0, <1>2, <1>4, PushPuts DEF Stacks, Shape
<1>7. ASSUME NEW k
      PROVE  /\ IsFiniteSet(InFrames(k)') /\ Held(k)' = Held(k) + Weight(f, k) + (-One(j, k))
             /\ Weight(f, k) \in Nat /\ Held(k) \in Nat
  <2>1. QDelta(k, -One(j, k))
    BY <1>0, <1>2, QDeltaTake
  <2> QED BY <1>0, <1>4, <1>6, <2>1, HeldPush
<1>8. Finite'
  BY <1>7 DEF Finite
<1>9. ASSUME NEW id PROVE Sum(id, 0)
  <2>1. Weight(f, <<"held", id>>) = Holds(f, id) /\ Weight(f, <<"owed", id>>) = 0
    BY <1>4, PlainWeight
  <2>2. One(j, <<"held", id>>) = (IF j.id = id THEN 1 ELSE 0) /\ One(j, <<"owed", id>>) = 0
    BY OneAt
  <2>3. Holds(f, id) = (IF j.id = id THEN 1 ELSE 0)
    BY <1>4, <1>5 DEF Holds
  <2>4. Held(<<"held", id>>)' = Held(<<"held", id>>) /\ Held(<<"owed", id>>)' = Held(<<"owed", id>>)
        /\ Held(<<"held", id>>) \in Nat
    BY <1>7, <2>1, <2>2, <2>3
  <2> QED BY <2>4 DEF Sum
<1> QED BY <1>8, <1>9

LEMMA InlineHeld ==
  ASSUME Struct, Finite, NEW t \in Workers, NEW h, NEW q, NEW j, NEW d, Inlines(t, h, q, j, d)
  PROVE  Finite' /\ \A id : Sum(id, 0)
<1>0. Shape /\ t \in Threads
  BY ThreadFacts DEF Struct
<1>1. /\ stack[t] # <<>> /\ Top(t).pc = "loop" /\ Top(t).kind = "join" /\ Top(t).pend = NoJob
      /\ h = WithPc(Top(t), "inline", 0) /\ stack' = SetTop(t, h) /\ QTake(q, j, d) /\ j.id = Top(t).id
  BY DEF Inlines
<1>2. Top(t) \in FrameSet /\ PendOK(Top(t))
  BY <1>0, <1>1, TopFacts DEF FrameOK
<1>3. h \in FrameSet /\ h.pend = NoJob /\ h.todo = Top(t).todo /\ h.kind = "join" /\ h.id = Top(t).id /\ h.pc = "inline"
  BY <1>1, <1>2 DEF WithPc, FrameSet, AllPcs, UserPcs
<1>4. Top(t).todo = {}
  BY <1>1, <1>2 DEF PendOK
<1>5. Token(h) /\ ~Token(Top(t))
  BY <1>1, <1>3 DEF Token
<1>6. Stacks /\ Puts(t, Len(stack[t]), h)
  BY <1>0, <1>1, <1>3, SetTopPuts DEF Stacks, Shape
<1>7. ASSUME NEW k
      PROVE  /\ IsFiniteSet(InFrames(k)') /\ Held(k)' = Held(k) - Weight(Top(t), k) + Weight(h, k) + (-One(j, k))
             /\ Weight(Top(t), k) \in Nat /\ Weight(h, k) \in Nat /\ Held(k) \in Nat
  <2>1. QDelta(k, -One(j, k))
    BY <1>0, <1>1, QDeltaTake
  <2> QED BY <1>0, <1>1, <1>3, <1>6, <2>1, HeldSet
<1>8. Finite'
  BY <1>7 DEF Finite
<1>9. ASSUME NEW id PROVE Sum(id, 0)
  <2>1. Weight(h, <<"held", id>>) = Holds(h, id) /\ Weight(h, <<"owed", id>>) = 0
    BY <1>3, <1>4, PlainWeight
  <2>2. Weight(Top(t), <<"held", id>>) = Holds(Top(t), id) /\ Weight(Top(t), <<"owed", id>>) = 0
    BY <1>1, <1>4, PlainWeight
  <2>3. One(j, <<"held", id>>) = (IF j.id = id THEN 1 ELSE 0) /\ One(j, <<"owed", id>>) = 0
    BY OneAt
  <2>4. Holds(h, id) = (IF j.id = id THEN 1 ELSE 0) /\ Holds(Top(t), id) = 0
    BY <1>1, <1>3, <1>5 DEF Holds
  <2>5. Held(<<"held", id>>)' = Held(<<"held", id>>) /\ Held(<<"owed", id>>)' = Held(<<"owed", id>>)
        /\ Held(<<"held", id>>) \in Nat
    BY <1>7, <2>1, <2>2, <2>3, <2>4
  <2> QED BY <2>5 DEF Sum
<1> QED BY <1>8, <1>9

LEMMA SameHolds ==
  ASSUME NEW g, NEW h, NEW p, NEW T, h = WithPend(g, p, T), g \in FrameSet, NEW id
  PROVE  Holds(h, id) = Holds(g, id) /\ Holds(h, id) \in Nat
<1>1. h.kind = g.kind /\ h.id = g.id /\ h.pc = g.pc
  BY DEF WithPend, FrameSet
<1> QED BY <1>1 DEF Holds, Token

\* A job is counted, to be pushed.
LEMMA PendSetHeld ==
  ASSUME Struct, Finite, NEW t \in Threads, stack[t] # <<>>, Top(t).pend = NoJob, Top(t).todo = {},
         NEW j \in JobSet, NEW h \in FrameSet, h = WithPend(Top(t), j, {}), stack' = SetTop(t, h), QSame
  PROVE  Finite' /\ \A id : Sum(id, IF j.id = id THEN 1 ELSE 0)
<1>0. Shape /\ Top(t) \in FrameSet /\ j # NoJob
  BY TopFacts, JobNotNone DEF Struct
<1>1. Stacks /\ Puts(t, Len(stack[t]), h)
  BY <1>0, SetTopPuts DEF Stacks, Shape
<1>2. h.pend = j /\ h.todo = {}
  BY <1>0 DEF WithPend, FrameSet
<1>3. ASSUME NEW k
      PROVE  /\ IsFiniteSet(InFrames(k)') /\ Held(k)' = Held(k) - Weight(Top(t), k) + Weight(h, k) + 0
             /\ Weight(Top(t), k) \in Nat /\ Weight(h, k) \in Nat /\ Held(k) \in Nat
  <2>1. QDelta(k, 0)
    BY <1>0, QDeltaSame
  <2> QED BY <1>1, <2>1, HeldSet
<1>4. Finite'
  BY <1>3 DEF Finite
<1>5. ASSUME NEW id PROVE Sum(id, IF j.id = id THEN 1 ELSE 0)
  <2>1. /\ Weight(h, <<"held", id>>) = Holds(h, id) + (IF j.id = id THEN 1 ELSE 0)
        /\ Weight(h, <<"owed", id>>) = 0
    BY <1>0, <1>2, PendWeight
  <2>2. Weight(Top(t), <<"held", id>>) = Holds(Top(t), id) /\ Weight(Top(t), <<"owed", id>>) = 0
    BY PlainWeight
  <2>3. Holds(h, id) = Holds(Top(t), id) /\ Holds(h, id) \in Nat
    BY <1>0, SameHolds
  <2>4. Held(<<"held", id>>)' = Held(<<"held", id>>) + (IF j.id = id THEN 1 ELSE 0)
    BY <1>3, <2>1, <2>2, <2>3
  <2>5. Held(<<"owed", id>>)' = Held(<<"owed", id>>)
    BY <1>3, <2>1, <2>2
  <2> QED BY <2>4, <2>5 DEF Sum
<1> QED BY <1>4, <1>5

\* It is pushed.
LEMMA PendPushHeld ==
  ASSUME Struct, Finite, NEW t \in Threads, stack[t] # <<>>, Top(t).pend # NoJob, Top(t).todo = {},
         NEW h \in FrameSet, h = WithPend(Top(t), NoJob, {}), stack' = SetTop(t, h),
         NEW q, NEW j \in JobSet, j = Top(t).pend, QPush(q, j)
  PROVE  Finite' /\ \A id : Sum(id, 0)
<1>0. Shape /\ Top(t) \in FrameSet
  BY TopFacts DEF Struct
<1>1. Stacks /\ Puts(t, Len(stack[t]), h)
  BY <1>0, SetTopPuts DEF Stacks, Shape
<1>2. h.pend = NoJob /\ h.todo = {}
  BY <1>0 DEF WithPend, FrameSet
<1>3. ASSUME NEW k
      PROVE  /\ IsFiniteSet(InFrames(k)') /\ Held(k)' = Held(k) - Weight(Top(t), k) + Weight(h, k) + One(j, k)
             /\ Weight(Top(t), k) \in Nat /\ Weight(h, k) \in Nat /\ Held(k) \in Nat
  <2>1. QDelta(k, One(j, k))
    BY <1>0, QDeltaPush
  <2> QED BY <1>1, <2>1, HeldSet
<1>4. Finite'
  BY <1>3 DEF Finite
<1>5. ASSUME NEW id PROVE Sum(id, 0)
  <2>1. /\ Weight(Top(t), <<"held", id>>) = Holds(Top(t), id) + (IF j.id = id THEN 1 ELSE 0)
        /\ Weight(Top(t), <<"owed", id>>) = 0
    BY PendWeight
  <2>2. Weight(h, <<"held", id>>) = Holds(h, id) /\ Weight(h, <<"owed", id>>) = 0
    BY <1>2, PlainWeight
  <2>3. Holds(h, id) = Holds(Top(t), id) /\ Holds(h, id) \in Nat
    BY <1>0, SameHolds
  <2>4. One(j, <<"held", id>>) = (IF j.id = id THEN 1 ELSE 0) /\ One(j, <<"owed", id>>) = 0
    BY OneAt
  <2>5. Held(<<"held", id>>)' = Held(<<"held", id>>) + 0
    BY <1>3, <2>1, <2>2, <2>3, <2>4
  <2>6. Held(<<"owed", id>>)' = Held(<<"owed", id>>)
    BY <1>3, <2>1, <2>2, <2>4
  <2> QED BY <2>5, <2>6 DEF Sum
<1> QED BY <1>4, <1>5

\* A broadcast is to be pushed, its jobs not counted yet.
LEMMA TodoSetHeld ==
  ASSUME Struct, Finite, NEW t \in Threads, stack[t] # <<>>, Top(t).pend = NoJob, Top(t).todo = {},
         NEW j \in JobSet, j.kind # "broadcast_op", NEW h \in FrameSet, h = WithPend(Top(t), j, Workers),
         stack' = SetTop(t, h), QSame
  PROVE  Finite' /\ \A id : /\ Held(<<"held", id>>)' = Held(<<"held", id>>)
                            /\ Held(<<"owed", id>>)' = Held(<<"owed", id>>) + (IF j.id = id THEN NumThreads ELSE 0)
                            /\ Held(<<"owed", id>>) \in Nat
<1>0. Shape /\ Top(t) \in FrameSet /\ j # NoJob
  BY TopFacts, JobNotNone DEF Struct
<1>1. Stacks /\ Puts(t, Len(stack[t]), h)
  BY <1>0, SetTopPuts DEF Stacks, Shape
<1>2. h.pend = j /\ h.todo = Workers /\ Workers # {} /\ Cardinality(Workers) = NumThreads /\ NumThreads \in Nat
  BY <1>0, ThreadFacts DEF WithPend, FrameSet
<1>3. ASSUME NEW k
      PROVE  /\ IsFiniteSet(InFrames(k)') /\ Held(k)' = Held(k) - Weight(Top(t), k) + Weight(h, k) + 0
             /\ Weight(Top(t), k) \in Nat /\ Weight(h, k) \in Nat /\ Held(k) \in Nat
  <2>1. QDelta(k, 0)
    BY <1>0, QDeltaSame
  <2> QED BY <1>1, <2>1, HeldSet
<1>4. Finite'
  BY <1>3 DEF Finite
<1>5. ASSUME NEW id
      PROVE  /\ Held(<<"held", id>>)' = Held(<<"held", id>>)
             /\ Held(<<"owed", id>>)' = Held(<<"owed", id>>) + (IF j.id = id THEN NumThreads ELSE 0)
             /\ Held(<<"owed", id>>) \in Nat
  <2>1. /\ Weight(h, <<"held", id>>) = Holds(h, id)
        /\ Weight(h, <<"owed", id>>) = (IF j.id = id THEN NumThreads ELSE 0)
    BY <1>0, <1>2, TodoWeight
  <2>2. Weight(Top(t), <<"held", id>>) = Holds(Top(t), id) /\ Weight(Top(t), <<"owed", id>>) = 0
    BY PlainWeight
  <2>3. Holds(h, id) = Holds(Top(t), id) /\ Holds(h, id) \in Nat
    BY <1>0, SameHolds
  <2>4. Held(<<"held", id>>)' = Held(<<"held", id>>)
    BY <1>3, <2>1, <2>2, <2>3
  <2>5. /\ Held(<<"owed", id>>)' = Held(<<"owed", id>>) + (IF j.id = id THEN NumThreads ELSE 0)
        /\ Held(<<"owed", id>>) \in Nat
    BY <1>2, <1>3, <2>1, <2>2
  <2> QED BY <2>4, <2>5
<1> QED BY <1>4, <1>5

\* What is left of a broadcast to push.
LEMMA LeftWeight ==
  ASSUME NEW g \in FrameSet, g.pend # NoJob, NEW w \in g.todo, NEW p, NEW h \in FrameSet,
         h = WithPend(g, p, g.todo \ {w}),
         \/ p = NoJob /\ g.todo = {w}
         \/ p = g.pend /\ g.todo # {w},
         NEW id
  PROVE  /\ g.pend.kind = "broadcast_op" =>
              /\ Weight(g, <<"held", id>>) = Weight(h, <<"held", id>>) + (IF g.pend.id = id THEN 1 ELSE 0)
              /\ Weight(g, <<"owed", id>>) = Weight(h, <<"owed", id>>)
         /\ g.pend.kind # "broadcast_op" =>
              /\ Weight(g, <<"held", id>>) = Weight(h, <<"held", id>>)
              /\ Weight(g, <<"owed", id>>) = Weight(h, <<"owed", id>>) + (IF g.pend.id = id THEN 1 ELSE 0)
<1>1. h.pend = p /\ h.todo = g.todo \ {w}
  BY DEF WithPend, FrameSet
<1>2. IsFiniteSet(g.todo)
  BY ThreadFacts, FS_Subset DEF FrameSet
<1>3. PICK n : n = Cardinality(g.todo)
  OBVIOUS
<1>4. n \in Nat /\ Cardinality(h.todo) = n - 1
  BY <1>1, <1>2, <1>3, FS_RemoveElement, FS_CardinalityType, Zenon
<1>5. Holds(h, id) = Holds(g, id) /\ Holds(h, id) \in Nat
  BY SameHolds
<1>6. /\ g.pend.kind = "broadcast_op" =>
           /\ Weight(g, <<"held", id>>) = Holds(g, id) + (IF g.pend.id = id THEN n ELSE 0)
           /\ Weight(g, <<"owed", id>>) = 0
      /\ g.pend.kind # "broadcast_op" =>
           /\ Weight(g, <<"held", id>>) = Holds(g, id)
           /\ Weight(g, <<"owed", id>>) = (IF g.pend.id = id THEN n ELSE 0)
  BY <1>3, TodoWeight
<1>7. CASE p = NoJob /\ g.todo = {w}
  <2>1. h.todo = {} /\ n = 1
    BY <1>1, <1>3, <1>7, FS_Singleton
  <2>2. Weight(h, <<"held", id>>) = Holds(h, id) /\ Weight(h, <<"owed", id>>) = 0
    BY <1>1, <1>7, <2>1, PlainWeight
  <2> QED BY <1>5, <1>6, <2>1, <2>2
<1>8. CASE p = g.pend /\ g.todo # {w}
  <2>1. h.todo # {} /\ h.pend # NoJob /\ h.pend = g.pend
    BY <1>1, <1>8
  <2>2. /\ g.pend.kind = "broadcast_op" =>
             /\ Weight(h, <<"held", id>>) = Holds(h, id) + (IF g.pend.id = id THEN n - 1 ELSE 0)
             /\ Weight(h, <<"owed", id>>) = 0
        /\ g.pend.kind # "broadcast_op" =>
             /\ Weight(h, <<"held", id>>) = Holds(h, id)
             /\ Weight(h, <<"owed", id>>) = (IF g.pend.id = id THEN n - 1 ELSE 0)
    BY <1>4, <2>1, TodoWeight
  <2> QED BY <1>4, <1>5, <1>6, <2>2
<1> QED BY <1>7, <1>8

LEMMA TodoPushHeld ==
  ASSUME Struct, Finite, NEW t \in Threads, stack[t] # <<>>, Top(t).pend # NoJob, NEW w \in Top(t).todo, NEW p,
         NEW h \in FrameSet, h = WithPend(Top(t), p, Top(t).todo \ {w}), stack' = SetTop(t, h),
         \/ p = NoJob /\ Top(t).todo = {w}
         \/ p = Top(t).pend /\ Top(t).todo # {w},
         NEW q, NEW j \in JobSet, j = Top(t).pend, QPush(q, j)
  PROVE  /\ Finite'
         /\ j.kind = "broadcast_op" => \A id : Sum(id, 0)
         /\ j.kind # "broadcast_op" => \A id :
              /\ Held(<<"held", id>>)' = Held(<<"held", id>>) + (IF j.id = id THEN 1 ELSE 0)
              /\ Held(<<"owed", id>>)' = Held(<<"owed", id>>) - (IF j.id = id THEN 1 ELSE 0)
              /\ Held(<<"owed", id>>) \in Nat
<1>0. Shape /\ Top(t) \in FrameSet
  BY TopFacts DEF Struct
<1>1. Stacks /\ Puts(t, Len(stack[t]), h)
  BY <1>0, SetTopPuts DEF Stacks, Shape
<1>3. ASSUME NEW k
      PROVE  /\ IsFiniteSet(InFrames(k)') /\ Held(k)' = Held(k) - Weight(Top(t), k) + Weight(h, k) + One(j, k)
             /\ Weight(Top(t), k) \in Nat /\ Weight(h, k) \in Nat /\ Held(k) \in Nat
  <2>1. QDelta(k, One(j, k))
    BY <1>0, QDeltaPush
  <2> QED BY <1>1, <2>1, HeldSet
<1>4. Finite'
  BY <1>3 DEF Finite
<1>5. PICK g : g = Top(t)
  OBVIOUS
<1>6. /\ g \in FrameSet /\ g.pend = j /\ g.pend # NoJob /\ w \in g.todo /\ h = WithPend(g, p, g.todo \ {w})
      /\ \/ p = NoJob /\ g.todo = {w}
         \/ p = g.pend /\ g.todo # {w}
  BY <1>0, <1>5
<1>7. ASSUME NEW id
      PROVE  /\ j.kind = "broadcast_op" => Sum(id, 0)
             /\ j.kind # "broadcast_op" =>
                  /\ Held(<<"held", id>>)' = Held(<<"held", id>>) + (IF j.id = id THEN 1 ELSE 0)
                  /\ Held(<<"owed", id>>)' = Held(<<"owed", id>>) - (IF j.id = id THEN 1 ELSE 0)
                  /\ Held(<<"owed", id>>) \in Nat
  <2>1. /\ g.pend.kind = "broadcast_op" =>
              /\ Weight(g, <<"held", id>>) = Weight(h, <<"held", id>>) + (IF g.pend.id = id THEN 1 ELSE 0)
              /\ Weight(g, <<"owed", id>>) = Weight(h, <<"owed", id>>)
        /\ g.pend.kind # "broadcast_op" =>
              /\ Weight(g, <<"held", id>>) = Weight(h, <<"held", id>>)
              /\ Weight(g, <<"owed", id>>) = Weight(h, <<"owed", id>>) + (IF g.pend.id = id THEN 1 ELSE 0)
    BY <1>6, LeftWeight
  <2>2. One(j, <<"held", id>>) = (IF j.id = id THEN 1 ELSE 0) /\ One(j, <<"owed", id>>) = 0
    BY OneAt
  <2>3. PICK o : o = IF j.id = id THEN 1 ELSE 0
    OBVIOUS
  <2>4. o \in Int
    BY <2>3
  <2>5. /\ Held(<<"held", id>>)' = Held(<<"held", id>>) - Weight(g, <<"held", id>>) + Weight(h, <<"held", id>>) + o
        /\ Weight(g, <<"held", id>>) \in Nat /\ Weight(h, <<"held", id>>) \in Nat /\ Held(<<"held", id>>) \in Nat
    BY <1>3, <1>5, <2>2, <2>3
  <2>6. /\ Held(<<"owed", id>>)' = Held(<<"owed", id>>) - Weight(g, <<"owed", id>>) + Weight(h, <<"owed", id>>) + 0
        /\ Weight(g, <<"owed", id>>) \in Nat /\ Weight(h, <<"owed", id>>) \in Nat /\ Held(<<"owed", id>>) \in Nat
    BY <1>3, <1>5, <2>2
  <2>7. CASE j.kind = "broadcast_op"
    <3>1. Weight(g, <<"held", id>>) = Weight(h, <<"held", id>>) + o /\ Weight(g, <<"owed", id>>) = Weight(h, <<"owed", id>>)
      BY <1>6, <2>1, <2>3, <2>7
    <3>2. Held(<<"held", id>>)' = Held(<<"held", id>>) + 0
      BY <2>4, <2>5, <3>1
    <3>3. Held(<<"owed", id>>)' = Held(<<"owed", id>>)
      BY <2>6, <3>1
    <3> QED BY <2>7, <3>2, <3>3 DEF Sum
  <2>8. CASE j.kind # "broadcast_op"
    <3>1. Weight(g, <<"held", id>>) = Weight(h, <<"held", id>>) /\ Weight(g, <<"owed", id>>) = Weight(h, <<"owed", id>>) + o
      BY <1>6, <2>1, <2>3, <2>8
    <3>2. Held(<<"held", id>>)' = Held(<<"held", id>>) + o
      BY <2>4, <2>5, <3>1
    <3>3. Held(<<"owed", id>>)' = Held(<<"owed", id>>) - o
      BY <2>4, <2>6, <3>1
    <3> QED BY <2>3, <2>6, <2>8, <3>2, <3>3
  <2> QED BY <2>7, <2>8
<1> QED BY <1>4, <1>7

\* A job has set its latch; a scope's own closure leaves the scope waiting.
LEMMA AfterHeld ==
  ASSUME Struct, Finite, NEW t \in Threads, stack[t] # <<>>, Top(t).pc \in EndPcs, stack' = After(t), QSame
  PROVE  Finite' /\ \A id : Sum(id, -Holds(Top(t), id)) /\ Holds(Top(t), id) \in Nat
<1>0. Shape /\ Stacked
  BY DEF Struct
<1>1. Top(t) \in FrameSet /\ Top(t).pend = NoJob /\ Top(t).todo = {} /\ Top(t).kind \in {"scope"} \cup (JobKinds \ {"spawned"})
  BY EndedFacts
<1>2. CASE Top(t).kind = "scope"
  <2>1. PICK g : g = Top(t)
    OBVIOUS
  <2>2. PICK h : h = [g EXCEPT !.pc = "wait", !.err = 0]
    OBVIOUS
  <2>3. h \in FrameSet /\ h.pend = NoJob /\ h.todo = {} /\ h.kind = "scope" /\ h.pc = "wait"
    BY <1>1, <1>2, <2>1, <2>2 DEF FrameSet, AllPcs, WaitPcs
  <2>4. stack' = SetTop(t, h)
    BY <1>2, <2>1, <2>2 DEF After
  <2>5. Finite' /\ \A id : Sum(id, Holds(h, id) - Holds(Top(t), id)) /\ Holds(Top(t), id) \in Nat
    BY <1>1, <2>3, <2>4, SetHeld
  <2>6. \A id : Holds(h, id) = 0
    BY <2>3 DEF Holds, Token
  <2>7. \A id : Holds(h, id) - Holds(Top(t), id) = -Holds(Top(t), id)
    BY <2>5, <2>6
  <2> QED BY <2>5, <2>7
<1>3. CASE Top(t).kind # "scope"
  <2>1. stack' = PopFrame(t) /\ Top(t).kind \in JobKinds /\ Top(t).kind \notin {"client", "main"}
    BY <1>1, <1>3 DEF After, JobKinds, StackJobs
  <2>2. Len(stack[t]) > 1
    <3>1. Len(stack[t]) \in DOMAIN stack[t] /\ Top(t) = stack[t][Len(stack[t])]
      BY TopFacts
    <3> QED BY <1>0, <2>1, <3>1, Inner DEF Shape
  <2>3. PICK f : f = stack[t][Len(stack[t]) - 1]
    OBVIOUS
  <2>4. Stacks /\ Puts(t, Len(stack[t]) - 1, f)
    BY <1>0, <2>1, <2>2, <2>3, PopPuts DEF Stacks, Shape
  <2>5. \A k : Marks(f, k) = Marks(stack[t][Len(stack[t]) - 1], k)
    BY <2>3
  <2> QED BY <1>1, <2>2, <2>4, <2>5, PopHeld
<1> QED BY <1>2, <1>3

-----------------------------------------------------------------------------
(* The counts are kept, action by action.                                    *)
Alike(id) ==
  /\ call'[id].kind = call[id].kind /\ call'[id].set = call[id].set /\ call'[id].count = call[id].count
  /\ call'[id].out = None <=> call[id].out = None
Limits == /\ spawns \in Nat /\ spawns' \in Nat /\ spawns =< spawns' /\ spawns' =< MaxSpawns /\ panics' =< MaxPanics

LEMMA CallFacts ==
  ASSUME Shape, NEW id \in 1 .. Len(call)
  PROVE  /\ call[id] \in CallSet /\ call[id].count \in Int /\ call[id].set \in BOOLEAN /\ call[id].owner \in Threads
         /\ call[id].kind \in CallKinds /\ call[id].panic \in Nat /\ call[id].out \in Values /\ call[id].seen \subseteq Nat
<1>1. call[id] \in CallSet
  BY DEF Shape
<1> QED BY <1>1 DEF CallSet

LEMMA EntryKeeps ==
  ASSUME Struct, Finite, Counted, NEW id \in 1 .. Len(call), Alike(id), Sum(id, 0), Limits
  PROVE  Entry(id)'
<1>1. Held(<<"held", id>>) \in Nat /\ Held(<<"owed", id>>) \in Nat
  BY HeldNat DEF Struct
<1>2. Held(<<"held", id>>)' = Held(<<"held", id>>) /\ Held(<<"owed", id>>)' = Held(<<"owed", id>>)
  BY <1>1 DEF Sum
<1>3. Due(id)' = Due(id)
  BY DEF Due, Alike
<1>4. Entry(id)
  BY DEF Counted
<1>5. call[id].count \in Int
  BY CallFacts DEF Struct
<1>6. IF call'[id].kind = "scope" THEN call'[id].count + Held(<<"owed", id>>)' =< 1 + spawns'
                                  ELSE call'[id].count =< NumThreads
  <2>1. CASE call[id].kind = "scope"
    <3>1. call[id].count + Held(<<"owed", id>>) =< 1 + spawns
      BY <1>4, <2>1 DEF Entry
    <3>2. call[id].count + Held(<<"owed", id>>) =< 1 + spawns'
      BY <1>1, <1>5, <3>1 DEF Limits
    <3> QED BY <1>2, <2>1, <3>2 DEF Alike
  <2>2. CASE call[id].kind # "scope"
    BY <1>4, <2>2 DEF Entry, Alike
  <2> QED BY <2>1, <2>2
<1>7. /\ call'[id].kind \notin Counting => call'[id].count = 1
      /\ call'[id].kind \in Counting /\ call'[id].set => call'[id].count = 0
  BY <1>4 DEF Entry, Alike
<1>8. Held(<<"held", id>>)' = Due(id)'
  BY <1>2, <1>3, <1>4 DEF Entry
<1> QED BY <1>6, <1>7, <1>8 DEF Entry

LEMMA PoolKeeps ==
  ASSUME Struct, Finite, Counted, Sum(0, 0), UNCHANGED terminate_count, Handle' = Handle, Limits
  PROVE  PoolEntry'
<1>1. Held(<<"held", 0>>) \in Nat /\ Held(<<"owed", 0>>) \in Nat
  BY HeldNat DEF Struct
<1>2. Held(<<"held", 0>>)' = Held(<<"held", 0>>) /\ Held(<<"owed", 0>>)' = Held(<<"owed", 0>>)
  BY <1>1 DEF Sum
<1>3. PoolEntry
  BY DEF Counted
<1>4. terminate_count \in Int
  BY DEF Struct, Shape
<1>5. terminate_count + Held(<<"owed", 0>>) =< 1 + spawns'
  BY <1>1, <1>3, <1>4 DEF PoolEntry, Limits
<1> QED BY <1>2, <1>3, <1>4, <1>5 DEF PoolEntry

\* Nothing is counted, or one call, or the pool.
LEMMA CountedStep ==
  ASSUME Struct, Finite, Counted, Len(call') = Len(call), Limits, NEW c0,
         \A id \in 1 .. Len(call) : id # c0 => Alike(id) /\ Sum(id, 0),
         c0 \in 1 .. Len(call) => Entry(c0)',
         PoolEntry' \/ (Sum(0, 0) /\ UNCHANGED <<terminate_count, pool>>)
  PROVE  Counted'
<1>1. ASSUME NEW id \in 1 .. Len(call) PROVE Entry(id)'
  <2>1. CASE id = c0
    BY <2>1
  <2>2. CASE id # c0
    BY <2>2, EntryKeeps
  <2> QED BY <2>1, <2>2
<1>2. PoolEntry'
  BY PoolKeeps DEF Handle
<1>3. Len(call) =< MaxCalls
  BY DEF Counted
<1> QED BY <1>1, <1>2, <1>3 DEF Counted, Limits

LEMMA CountedSame ==
  ASSUME Struct, Finite, Counted, Len(call') = Len(call), Limits, UNCHANGED <<terminate_count, pool>>,
         \A id \in 1 .. Len(call) : Alike(id), \A id : Sum(id, 0)
  PROVE  Counted'
BY CountedStep

LEMMA AlikeSame ==
  ASSUME UNCHANGED call PROVE \A id : Alike(id)
BY DEF Alike

LEMMA LimitsSame ==
  ASSUME Struct, Counted, UNCHANGED <<spawns, panics>> PROVE Limits
BY ForkJoinAssumption DEF Limits, Counted, Struct, Shape

\* The top frame goes on, and holds what it held.
LEMMA PcCounted ==
  ASSUME Struct, Finite, Counted, NEW t \in Threads, stack[t] # <<>>, Top(t).pend = NoJob, NEW pc \in AllPcs, NEW e \in Nat,
         NEW h, h = WithPc(Top(t), pc, e), stack' = SetTop(t, h), Token(h) <=> Token(Top(t)), QSame,
         Len(call') = Len(call), \A id \in 1 .. Len(call) : Alike(id), Limits, UNCHANGED <<terminate_count, pool>>
  PROVE  Finite' /\ Counted'
<1>1. Top(t) \in FrameSet /\ Top(t).todo = {}
  BY TopFacts DEF FrameOK, PendOK
<1>2. h \in FrameSet /\ h.pend = NoJob /\ h.todo = {} /\ h.id = Top(t).id
  BY <1>1 DEF WithPc, FrameSet
<1>3. Finite' /\ \A id : Sum(id, Holds(h, id) - Holds(Top(t), id)) /\ Holds(h, id) \in Nat
  BY <1>1, <1>2, SetHeld
<1>4. \A id : Holds(h, id) = Holds(Top(t), id)
  BY <1>2 DEF Holds
<1>5. \A id : Holds(h, id) - Holds(Top(t), id) = 0
  BY <1>3, <1>4
<1>6. \A id : Sum(id, 0)
  BY <1>3, <1>5
<1> QED BY <1>3, <1>6, CountedSame

\* Code of t ends with e: what it was to unwind with, or a new panic.
Ended(t, e) ==
  /\ Ending(t, e) /\ UNCHANGED <<lifecycle, foreign, spawns>>
  /\ \/ e = Top(t).err /\ UNCHANGED panics
     \/ Top(t).err = 0 /\ e = panics + 1 /\ panics' = panics + 1 /\ panics < MaxPanics

LEMMA EndedLimits ==
  ASSUME Struct, Counted, NEW t \in Threads, NEW e, Ended(t, e)
  PROVE  Limits /\ QSame /\ UNCHANGED <<terminate_count, pool, terminate, started>> /\ e \in Nat
<1>1. panics \in Nat /\ spawns \in Nat /\ MaxPanics \in Nat /\ spawns' = spawns /\ Shape
  BY ForkJoinAssumption DEF Struct, Shape, Ended
<1>2. panics' =< MaxPanics
  BY <1>1 DEF Ended, Counted
<1>3. Limits
  BY <1>1, <1>2 DEF Limits, Counted
<1>4. QSame /\ e \in Nat
  BY QueueSame DEF Ended, Ending
<1> QED BY <1>3, <1>4 DEF Ended, lifecycle

LEMMA WithPcFields ==
  ASSUME NEW g \in FrameSet, NEW pc, NEW e, NEW h, h = WithPc(g, pc, e)
  PROVE  h.kind = g.kind /\ h.id = g.id /\ h.env = g.env /\ h.pc = pc /\ h.err = e /\ h.pend = g.pend /\ h.todo = g.todo
BY DEF WithPc, FrameSet

LEMMA StackJobEndsCounted ==
  ASSUME Struct, Finite, Counted, NEW t \in Threads, NEW e, Ended(t, e), StackJobEnds(t, e)
  PROVE  Finite' /\ Counted'
<1>0. Ending(t, e) /\ Limits /\ QSame /\ UNCHANGED <<terminate_count, pool>>
  BY EndedLimits DEF Ended
<1>1. PICK h, id, c :
           /\ h = WithPc(Top(t), "set", 0) /\ stack' = SetTop(t, h) /\ Top(t).kind \in StackJobs /\ KindPc(h)
           /\ Top(t).pc = "run" /\ id = Top(t).id /\ id \in 1 .. Len(call)
           /\ call' \in Seq(CallSet) /\ Len(call') = Len(call) /\ call'[id] = c
           /\ \A x \in 1 .. Len(call) : x # id => call'[x] = call[x]
           /\ c.kind = call[id].kind /\ c.owner = call[id].owner /\ c.out = call[id].out /\ c.set = call[id].set
           /\ c.count = call[id].count /\ c.panic = call[id].panic
           /\ c.seen = call[id].seen \cup ({e} \ {0}) /\ c.result = Stored(call[id].result, Slot(t), e)
           /\ CallsKeep
  BY <1>0, StackJobEndsForm
<1>2. stack[t] # <<>> /\ Top(t) \in FrameSet /\ Top(t).pend = NoJob
  BY <1>0, RunsFacts DEF Ending
<1>3. h.kind = Top(t).kind /\ h.pc = "set" /\ "set" \in AllPcs
  BY <1>1, <1>2, WithPcFields DEF AllPcs
<1>4. Token(h) <=> Token(Top(t))
  BY <1>1, <1>3 DEF Token, StackJobs
<1>5. \A x \in 1 .. Len(call) : Alike(x)
  BY <1>1 DEF Alike
<1> QED BY <1>0, <1>1, <1>2, <1>3, <1>4, <1>5, PcCounted

LEMMA ScopeClosureEndsCounted ==
  ASSUME Struct, Finite, Counted, NEW t \in Threads, NEW e, Ended(t, e), ScopeClosureEnds(t, e)
  PROVE  Finite' /\ Counted'
<1>0. Ending(t, e) /\ Limits /\ QSame /\ UNCHANGED <<terminate_count, pool>> /\ e \in Nat
  BY EndedLimits DEF Ended
<1>1. PICK h, pc, id, c :
           /\ h = WithPc(Top(t), pc, e) /\ stack' = SetTop(t, h) /\ Top(t).kind \in {"scope", "scope_job"} /\ KindPc(h)
           /\ (e = 0 /\ pc = "set") \/ (e # 0 /\ pc = "panicked")
           /\ Top(t).pc \in {"op", "run"} /\ id = Top(t).id /\ id \in 1 .. Len(call)
           /\ call' \in Seq(CallSet) /\ Len(call') = Len(call) /\ call'[id] = c
           /\ \A x \in 1 .. Len(call) : x # id => call'[x] = call[x]
           /\ c.kind = call[id].kind /\ c.owner = call[id].owner /\ c.out = call[id].out /\ c.set = call[id].set
           /\ c.count = call[id].count
  BY <1>0, ScopeClosureEndsForm
<1>2. stack[t] # <<>> /\ Top(t) \in FrameSet /\ Top(t).pend = NoJob
  BY <1>0, RunsFacts DEF Ending
<1>3. h.kind = Top(t).kind /\ h.pc = pc /\ pc \in AllPcs /\ pc \in {"set", "panicked"}
  BY <1>1, <1>2, WithPcFields DEF AllPcs
<1>4. Token(h) <=> Token(Top(t))
  BY <1>1, <1>3 DEF Token
<1>5. \A x \in 1 .. Len(call) : Alike(x)
  BY <1>1 DEF Alike
<1> QED BY <1>0, <1>1, <1>2, <1>3, <1>4, <1>5, PcCounted

LEMMA SpawnedEndsCounted ==
  ASSUME Struct, Finite, Counted, NEW t \in Threads, NEW e, Ended(t, e), SpawnedEnds(t, e)
  PROVE  Finite' /\ Counted'
<1>0. Ending(t, e) /\ Limits /\ QSame /\ UNCHANGED <<terminate_count, pool>>
  BY EndedLimits DEF Ended
<1>1. PICK h : /\ h = WithPc(Top(t), "terminate", 0) /\ stack' = SetTop(t, h)
               /\ Top(t).kind = "spawned" /\ Top(t).pc = "run" /\ UNCHANGED call
  BY <1>0, SpawnedEndsForm
<1>2. stack[t] # <<>> /\ Top(t) \in FrameSet /\ Top(t).pend = NoJob
  BY <1>0, RunsFacts DEF Ending
<1>3. h.kind = Top(t).kind /\ h.pc = "terminate" /\ "terminate" \in AllPcs
  BY <1>1, <1>2, WithPcFields DEF AllPcs
<1>4. Token(h) <=> Token(Top(t))
  BY <1>1, <1>3 DEF Token
<1> QED BY <1>0, <1>1, <1>2, <1>3, <1>4, AlikeSame, PcCounted

LEMMA OperAEndsCounted ==
  ASSUME Struct, Finite, Counted, NEW t \in Threads, NEW e, Ended(t, e), OperAEnds(t, e)
  PROVE  Finite' /\ Counted'
<1>0. Ending(t, e) /\ Limits /\ QSame /\ UNCHANGED <<terminate_count, pool>> /\ e \in Nat
  BY EndedLimits DEF Ended
<1>1. PICK h, pc, id, c :
           /\ h = WithPc(Top(t), pc, e) /\ stack' = SetTop(t, h) /\ Top(t).kind = "join" /\ KindPc(h)
           /\ (e = 0 /\ pc = "loop") \/ (e # 0 /\ pc = "recover")
           /\ Top(t).pc = "a" /\ id = Top(t).id /\ id \in 1 .. Len(call)
           /\ call' \in Seq(CallSet) /\ Len(call') = Len(call) /\ call'[id] = c
           /\ \A x \in 1 .. Len(call) : x # id => call'[x] = call[x]
           /\ c.kind = call[id].kind /\ c.owner = call[id].owner /\ c.out = call[id].out /\ c.set = call[id].set
           /\ c.count = call[id].count
  BY <1>0, OperAEndsForm
<1>2. stack[t] # <<>> /\ Top(t) \in FrameSet /\ Top(t).pend = NoJob
  BY <1>0, RunsFacts DEF Ending
<1>3. h.kind = Top(t).kind /\ h.pc = pc /\ pc \in AllPcs /\ pc \in {"loop", "recover"}
  BY <1>1, <1>2, WithPcFields DEF AllPcs, WaitPcs
<1>4. Token(h) <=> Token(Top(t))
  BY <1>1, <1>3 DEF Token
<1>5. \A x \in 1 .. Len(call) : Alike(x)
  BY <1>1 DEF Alike
<1> QED BY <1>0, <1>1, <1>2, <1>3, <1>4, <1>5, PcCounted

LEMMA JobPanickedCounted ==
  ASSUME Struct, Finite, Counted, NEW t \in Threads, JobPanicked(t)
  PROVE  Finite' /\ Counted'
<1>0. stack[t] # <<>> /\ Top(t).pc = "panicked" /\ UNCHANGED <<queues, lifecycle, foreign, spawns, panics>>
  BY DEF JobPanicked
<1>1. PICK h, id, c :
           /\ h = WithPc(Top(t), "set", 0) /\ stack' = SetTop(t, h) /\ Top(t).kind \in {"scope", "scope_job"} /\ KindPc(h)
           /\ id = Top(t).id /\ id \in 1 .. Len(call)
           /\ call' \in Seq(CallSet) /\ Len(call') = Len(call) /\ call'[id] = c
           /\ \A x \in 1 .. Len(call) : x # id => call'[x] = call[x]
           /\ c.kind = call[id].kind /\ c.owner = call[id].owner /\ c.out = call[id].out /\ c.set = call[id].set
           /\ c.count = call[id].count
  BY JobPanickedForm
<1>2. Top(t) \in FrameSet /\ Top(t).pend = NoJob
  BY <1>0, EndedFacts DEF EndPcs
<1>3. h.kind = Top(t).kind /\ h.pc = "set" /\ "set" \in AllPcs
  BY <1>1, <1>2, WithPcFields DEF AllPcs
<1>4. Token(h) <=> Token(Top(t))
  BY <1>0, <1>1, <1>3 DEF Token
<1>5. \A x \in 1 .. Len(call) : Alike(x)
  BY <1>1 DEF Alike
<1>6. Limits /\ QSame /\ UNCHANGED <<terminate_count, pool>>
  BY <1>0, LimitsSame, QueueSame DEF lifecycle
<1> QED BY <1>0, <1>1, <1>2, <1>3, <1>4, <1>5, <1>6, PcCounted

LEMMA PushCounted ==
  ASSUME Struct, Finite, Counted, NEW t \in Threads, Push(t)
  PROVE  Finite' /\ Counted'
<1>0. /\ stack[t] # <<>> /\ Top(t).pend # NoJob /\ Top(t).todo = {}
      /\ UNCHANGED <<broadcasts, call, lifecycle, foreign, spawns, panics>>
  BY DEF Push
<1>1. PICK h, q : /\ h = WithPend(Top(t), NoJob, {}) /\ stack' = SetTop(t, h) /\ QPush(q, Top(t).pend)
  BY PushForm
<1>2. Top(t) \in FrameSet /\ Top(t).pend \in JobSet
  BY <1>0, TopFacts, PendFacts
<1>3. h \in FrameSet
  BY <1>1, <1>2 DEF WithPend, FrameSet
<1>4. Finite' /\ \A id : Sum(id, 0)
  BY <1>0, <1>1, <1>2, <1>3, PendPushHeld
<1>5. Limits /\ UNCHANGED <<terminate_count, pool>> /\ Len(call') = Len(call)
  BY <1>0, LimitsSame DEF lifecycle
<1> QED BY <1>0, <1>4, <1>5, AlikeSame, CountedSame

LEMMA NotifyCounted ==
  ASSUME Struct, Finite, Counted, NEW t \in Threads, Notify(t)
  PROVE  Finite' /\ Counted'
<1>0. /\ stack[t] # <<>> /\ Top(t).pc = "notify" /\ stack' = After(t)
      /\ UNCHANGED <<queues, call, lifecycle, left, spawns, panics>>
  BY DEF Notify
<1>1. Finite' /\ \A id : Sum(id, -Holds(Top(t), id))
  BY <1>0, QueueSame, AfterHeld DEF EndPcs
<1>2. \A id : Holds(Top(t), id) = 0
  BY <1>0 DEF Holds, Token
<1>3. \A id : -Holds(Top(t), id) = 0
  BY <1>2
<1>4. \A id : Sum(id, 0)
  BY <1>1, <1>3
<1>5. Limits /\ UNCHANGED <<terminate_count, pool>> /\ Len(call') = Len(call)
  BY <1>0, LimitsSame DEF lifecycle
<1> QED BY <1>0, <1>1, <1>4, <1>5, AlikeSame, CountedSame

\* One that ends the pool goes.
LEMMA EnderHeld ==
  ASSUME Struct, Finite, NEW t \in Threads, stack[t] # <<>>, Top(t).pc \in {"terminate", "stop"}, stack' = PopFrame(t),
         UNCHANGED <<queues, call, panics, started, pool>>
  PROVE  Finite' /\ \A id : Sum(id, -Holds(Top(t), id)) /\ Holds(Top(t), id) \in Nat
<1>1. Top(t).pend = NoJob /\ Top(t).todo = {} /\ Top(t).kind \in JobKinds \cup {"terminator"} /\ Shape
  BY EnderFacts DEF JobKinds
<1>2. PICK f : f = stack[t][Len(stack[t]) - 1]
  OBVIOUS
<1>3. CallsKeep /\ QSame
  BY <1>1, CallSame, QueueSame
<1>4. Stacks /\ Len(stack[t]) > 1 /\ Puts(t, Len(stack[t]) - 1, f)
  BY <1>1, <1>2, <1>3, PopKeeps
<1>5. \A k : Marks(f, k) = Marks(stack[t][Len(stack[t]) - 1], k)
  BY <1>2
<1> QED BY <1>1, <1>3, <1>4, <1>5, PopHeld

LEMMA StopWorkerCounted ==
  ASSUME Struct, Finite, Counted, NEW t \in Threads, StopWorker(t)
  PROVE  Finite' /\ Counted'
<1>0. /\ stack[t] # <<>> /\ Top(t).pc = "stop" /\ (stack' = PopFrame(t) \/ stack' = stack)
      /\ UNCHANGED <<queues, call, terminate_count, started, stopped, pool, foreign, spawns, panics>>
  BY DEF StopWorker
<1>1. Finite' /\ \A id : Sum(id, 0)
  <2>1. CASE stack' = PopFrame(t)
    <3>1. Finite' /\ \A id : Sum(id, -Holds(Top(t), id))
      BY <1>0, <2>1, EnderHeld
    <3>2. \A id : Holds(Top(t), id) = 0
      BY <1>0 DEF Holds, Token
    <3>3. \A id : -Holds(Top(t), id) = 0
      BY <3>2
    <3> QED BY <3>1, <3>3
  <2>2. CASE stack' = stack
    <3>1. \A k : IsFiniteSet(InFrames(k)') /\ Held(k)' = Held(k)
      BY <1>0, <2>2, QueueSame, HeldStill
    <3>2. \A k : Held(k) \in Nat
      BY HeldNat DEF Struct
    <3> QED BY <3>1, <3>2 DEF Finite, Sum
  <2> QED BY <1>0, <2>1, <2>2
<1>2. Limits /\ UNCHANGED <<terminate_count, pool>> /\ Len(call') = Len(call)
  BY <1>0, LimitsSame
<1> QED BY <1>0, <1>1, <1>2, AlikeSame, CountedSame

LEMMA StillCounted ==
  ASSUME Struct, Finite, Counted, UNCHANGED <<stack, queues, call, terminate_count, pool, spawns, panics>>
  PROVE  Finite' /\ Counted'
<1>1. \A k : IsFiniteSet(InFrames(k)') /\ Held(k)' = Held(k)
  BY QueueSame, HeldStill
<1>2. \A k : Held(k) \in Nat
  BY HeldNat DEF Struct
<1>3. Finite' /\ \A id : Sum(id, 0)
  BY <1>1, <1>2 DEF Finite, Sum
<1>4. Limits
  BY LimitsSame
<1> QED BY <1>3, <1>4, AlikeSame, CountedSame

LEMMA ExecutesCounted ==
  ASSUME Struct, Finite, Counted, NEW t \in Workers, NEW q, NEW j, NEW d, Executes(t, q, j, d)
  PROVE  Finite' /\ Counted'
<1>0. UNCHANGED <<call, lifecycle, foreign, spawns, panics>>
  BY DEF Executes
<1>1. Finite' /\ \A id : Sum(id, 0)
  BY ExecuteHeld
<1>2. Limits /\ UNCHANGED <<terminate_count, pool>> /\ Len(call') = Len(call)
  BY <1>0, LimitsSame DEF lifecycle
<1> QED BY <1>0, <1>1, <1>2, AlikeSame, CountedSame

LEMMA InlinesCounted ==
  ASSUME Struct, Finite, Counted, NEW t \in Workers, NEW h, NEW q, NEW j, NEW d, Inlines(t, h, q, j, d)
  PROVE  Finite' /\ Counted'
<1>0. UNCHANGED <<call, lifecycle, foreign, spawns, panics>>
  BY DEF Inlines
<1>1. Finite' /\ \A id : Sum(id, 0)
  BY InlineHeld
<1>2. Limits /\ UNCHANGED <<terminate_count, pool>> /\ Len(call') = Len(call)
  BY <1>0, LimitsSame DEF lifecycle
<1> QED BY <1>0, <1>1, <1>2, AlikeSame, CountedSame

LEMMA WaitsBCounted ==
  ASSUME Struct, Finite, Counted, NEW t \in Workers, NEW h, WaitsB(t, h)
  PROVE  Finite' /\ Counted'
<1>0. /\ stack[t] # <<>> /\ Top(t).pc = "loop" /\ Top(t).kind = "join" /\ Top(t).pend = NoJob
      /\ h = WithPc(Top(t), "wait_b", 0) /\ stack' = SetTop(t, h) /\ t \in Threads
      /\ UNCHANGED <<queues, call, lifecycle, foreign, spawns, panics>>
  BY ThreadFacts DEF WaitsB
<1>1. Top(t) \in FrameSet
  BY <1>0, TopFacts
<1>2. h.kind = Top(t).kind /\ h.pc = "wait_b" /\ "wait_b" \in AllPcs
  BY <1>0, <1>1, WithPcFields DEF AllPcs, WaitPcs
<1>3. Token(h) <=> Token(Top(t))
  BY <1>0, <1>2 DEF Token
<1>4. Limits /\ QSame /\ UNCHANGED <<terminate_count, pool>> /\ Len(call') = Len(call)
  BY <1>0, LimitsSame, QueueSame DEF lifecycle
<1> QED BY <1>0, <1>2, <1>3, <1>4, AlikeSame, PcCounted

LEMMA ExitCounted ==
  ASSUME Struct, Finite, Counted, NEW w \in Workers, Exit(w)
  PROVE  Finite' /\ Counted'
<1>0. UNCHANGED <<queues, call, terminate_count, terminate, started, pool, foreign, spawns, panics>>
  BY DEF Exit
<1>1. \A k : IsFiniteSet(InFrames(k)') /\ Held(k)' = Held(k)
  BY HeldExit
<1>2. \A k : Held(k) \in Nat
  BY HeldNat DEF Struct
<1>3. Finite' /\ \A id : Sum(id, 0)
  BY <1>1, <1>2 DEF Finite, Sum
<1>4. Limits
  BY <1>0, LimitsSame
<1> QED BY <1>0, <1>3, <1>4, AlikeSame, CountedSame

LEMMA SpawnThreadCounted ==
  ASSUME Struct, Finite, Counted, SpawnThread
  PROVE  Finite' /\ Counted'
<1>1. PICK w \in Workers : \E f :
           /\ pool = "building" /\ f = Frame("main", 0, {}, "wait") /\ stack' = PushFrame(w, f) /\ stack[w] = <<>>
           /\ started' = started \cup {w} /\ w \notin started
           /\ \E k \in 0 .. NumThreads - 1 : started = 1 .. k /\ w = k + 1
           /\ pool' = IF w = NumThreads THEN "open" ELSE pool
           /\ UNCHANGED <<queues, call, terminate_count, terminate, stopped, foreign, spawns, panics>>
  BY SpawnThreadForm
<1>2. PICK f :
           /\ pool = "building" /\ f = Frame("main", 0, {}, "wait") /\ stack' = PushFrame(w, f) /\ stack[w] = <<>>
           /\ pool' = IF w = NumThreads THEN "open" ELSE pool
           /\ UNCHANGED <<queues, call, terminate_count, terminate, stopped, foreign, spawns, panics>>
  BY <1>1
<1>3. w \in Threads
  BY ThreadFacts
<1>4. Stacks /\ Puts(w, Len(stack[w]) + 1, f) /\ f \in FrameSet /\ f.kind = "main" /\ f.pend = NoJob /\ f.todo = {}
  BY <1>2, <1>3, RootKeeps
<1>5. Finite' /\ \A id : Sum(id, Holds(f, id))
  BY <1>2, <1>3, <1>4, QueueSame, PushHeld
<1>6. \A id : Holds(f, id) = 0
  BY <1>4 DEF Holds, Token
<1>7. \A id : Sum(id, 0)
  BY <1>5, <1>6
<1>8. Limits /\ Len(call') = Len(call)
  BY <1>2, LimitsSame
<1>9. Handle' = Handle
  BY <1>2 DEF Handle
<1>10. PoolEntry'
  BY <1>2, <1>7, <1>8, <1>9, PoolKeeps
<1>11. \A id \in 1 .. Len(call) : id # 0 => Alike(id) /\ Sum(id, 0)
  BY <1>2, <1>7, AlikeSame
<1> QED BY <1>5, <1>8, <1>10, <1>11, CountedStep

\* A job of a scope is counted.
LEMMA CountUp ==
  ASSUME Struct, Finite, Counted, NEW id \in 1 .. Len(call), call[id].kind = "scope", ~call[id].set,
         call'[id].kind = call[id].kind, call'[id].set = call[id].set, call'[id].count = call[id].count + 1,
         Held(<<"held", id>>)' = Held(<<"held", id>>) + 1, NEW o \in Int,
         Held(<<"owed", id>>)' = Held(<<"owed", id>>) + o, Limits, o + 1 + spawns =< spawns'
  PROVE  Entry(id)'
<1>1. Held(<<"held", id>>) \in Nat /\ Held(<<"owed", id>>) \in Nat /\ call[id].count \in Int
  BY HeldNat, CallFacts DEF Struct
<1>2. Entry(id)
  BY DEF Counted
<1>3. Held(<<"held", id>>) = call[id].count
  BY <1>2 DEF Entry, Due, Counting
<1>4. Due(id)' = call'[id].count
  BY DEF Due, Counting
<1>5. Held(<<"held", id>>)' = Due(id)'
  BY <1>1, <1>3, <1>4
<1>6. call[id].count + Held(<<"owed", id>>) =< 1 + spawns
  BY <1>2 DEF Entry
<1>7. call'[id].count + Held(<<"owed", id>>)' =< 1 + spawns'
  BY <1>1, <1>6 DEF Limits
<1> QED BY <1>5, <1>7 DEF Entry, Counting

LEMMA ScopeSpawnCounted ==
  ASSUME Struct, Finite, Counted, NEW t \in Threads, Runs(t), ScopeSpawn(t)
  PROVE  Finite' /\ Counted'
<1>1. PICK s \in Top(t).env : \E j, f :
           /\ j = Job("scope_job", s, {o \in Top(t).env : o =< s})
           /\ f = WithPend(Top(t), j, {}) /\ stack' = SetTop(t, f)
           /\ call' = [call EXCEPT ![s].count = call[s].count + 1]
           /\ spawns' = spawns + 1 /\ spawns < MaxSpawns
  BY ScopeSpawnForm
<1>2. PICK j, f :
           /\ j = Job("scope_job", s, {o \in Top(t).env : o =< s})
           /\ f = WithPend(Top(t), j, {}) /\ stack' = SetTop(t, f)
           /\ call' = [call EXCEPT ![s].count = call[s].count + 1]
           /\ spawns' = spawns + 1 /\ spawns < MaxSpawns
  BY <1>1
<1>3. /\ stack[t] # <<>> /\ Top(t).pc \in UserPcs /\ Top(t).pend = NoJob /\ Top(t).todo = {}
      /\ Len(stack[t]) \in DOMAIN stack[t] /\ Top(t) = stack[t][Len(stack[t])] /\ Shape
      /\ UNCHANGED <<queues, lifecycle, foreign, panics>>
  BY RunsFacts DEF Runs, Struct, ScopeSpawn
<1>4. j \in JobSet /\ j.kind = "scope_job" /\ j.id = s /\ j.env \subseteq Top(t).env /\ s \in 1 .. Len(call)
      /\ call[s].kind = "scope"
  BY <1>2, <1>3, ScopeJobOK
<1>5. f \in FrameSet
  BY <1>2, <1>4, PendFrameOK
<1>6. Finite' /\ \A id : Sum(id, IF s = id THEN 1 ELSE 0)
  BY <1>2, <1>3, <1>4, <1>5, QueueSame, PendSetHeld
<1>7. PICK d \in Int : d = call[s].count + 1
  BY <1>3, <1>4, CallFacts
<1>16. call' = [call EXCEPT ![s].count = d]
  BY <1>2, <1>7
<1>8. PICK c : /\ c \in CallSet /\ call' \in Seq(CallSet) /\ Len(call') = Len(call)
               /\ call'[s] = c /\ (\A x \in 1 .. Len(call) : x # s => call'[x] = call[x])
               /\ c.count = d /\ c.kind = call[s].kind /\ c.owner = call[s].owner /\ c.set = call[s].set
               /\ c.out = call[s].out /\ c.result = call[s].result /\ c.panic = call[s].panic
               /\ c.seen = call[s].seen
               /\ CallsKeep
  BY <1>3, <1>4, <1>16, CountWrites
<1>9. Held(<<"held", s>>) > 0 /\ Held(<<"held", s>>) \in Nat
  BY <1>3, EnvHeld
<1>10. ~call[s].set
  BY <1>4, <1>9, HeldLive
<1>11. Limits /\ 0 + 1 + spawns =< spawns'
  BY <1>2, <1>3, ForkJoinAssumption DEF Limits, Counted, Shape
<1>12. Held(<<"held", s>>)' = Held(<<"held", s>>) + 1 /\ Held(<<"owed", s>>)' = Held(<<"owed", s>>) + 0
  <2>1. Held(<<"owed", s>>) \in Nat
    BY <1>3, HeldNat
  <2> QED BY <1>6, <2>1 DEF Sum
<1>13. Entry(s)'
  BY <1>4, <1>7, <1>8, <1>10, <1>11, <1>12, CountUp
<1>14. \A id \in 1 .. Len(call) : id # s => Alike(id) /\ Sum(id, 0)
  BY <1>6, <1>8 DEF Alike
<1>15. Sum(0, 0) /\ UNCHANGED <<terminate_count, pool>>
  <2>1. s # 0
    BY <1>4
  <2> QED BY <1>3, <1>6, <2>1 DEF lifecycle
<1> QED BY <1>6, <1>8, <1>11, <1>13, <1>14, <1>15, CountedStep

LEMMA SpawnCounted ==
  ASSUME Struct, Finite, Counted, NEW t \in Threads, Runs(t), Spawn(t)
  PROVE  Finite' /\ Counted'
<1>1. PICK j, f : j = Job("spawned", 0, {}) /\ f = WithPend(Top(t), j, {}) /\ stack' = SetTop(t, f)
  BY SpawnForm
<1>2. /\ spawns' = spawns + 1 /\ spawns < MaxSpawns /\ terminate_count' = terminate_count + 1
      /\ UNCHANGED <<queues, call, terminate, started, stopped, pool, foreign, panics>>
  BY DEF Spawn
<1>3. stack[t] # <<>> /\ Top(t).pend = NoJob /\ Top(t).todo = {} /\ Shape
  BY RunsFacts DEF Runs, Struct
<1>4. j \in JobSet /\ j.kind = "spawned" /\ j.id = 0 /\ j.env = {}
  BY <1>1, SpawnedJobOK
<1>5. f \in FrameSet
  BY <1>1, <1>4, PendFrameOK
<1>6. Finite' /\ \A id : Sum(id, IF 0 = id THEN 1 ELSE 0)
  BY <1>1, <1>2, <1>3, <1>4, <1>5, QueueSame, PendSetHeld
<1>7. Limits
  BY <1>2, <1>3, ForkJoinAssumption DEF Limits, Counted, Shape
<1>8. Held(<<"held", 0>>) \in Nat /\ Held(<<"owed", 0>>) \in Nat /\ terminate_count \in Int /\ Handle \in Nat /\ spawns \in Nat
  BY <1>3, HeldNat DEF Shape, Handle
<1>9. Held(<<"held", 0>>)' = Held(<<"held", 0>>) + 1 /\ Held(<<"owed", 0>>)' = Held(<<"owed", 0>>)
  BY <1>6 DEF Sum
<1>10. terminate_count = Held(<<"held", 0>>) + Handle /\ terminate_count + Held(<<"owed", 0>>) =< 1 + spawns
  BY DEF Counted, PoolEntry
<1>11. Handle' = Handle
  BY <1>2 DEF Handle
<1>12. terminate_count' = Held(<<"held", 0>>)' + Handle'
  BY <1>2, <1>8, <1>9, <1>10, <1>11
<1>13. terminate_count' + Held(<<"owed", 0>>)' =< 1 + spawns'
  BY <1>2, <1>8, <1>9, <1>10
<1>14. PoolEntry'
  BY <1>12, <1>13 DEF PoolEntry
<1>15. \A id \in 1 .. Len(call) : id # 0 => Alike(id) /\ Sum(id, 0)
  BY <1>2, <1>6, AlikeSame
<1>16. Len(call') = Len(call)
  BY <1>2
<1> QED BY <1>6, <1>7, <1>14, <1>15, <1>16, CountedStep

LEMMA SpawnBroadcastCounted ==
  ASSUME Struct, Finite, Counted, NEW t \in Threads, Runs(t), SpawnBroadcast(t)
  PROVE  Finite' /\ Counted'
<1>1. PICK j, f :
           /\ f = WithPend(Top(t), j, Workers) /\ stack' = SetTop(t, f)
           /\ JobOK(j) /\ j \in JobSet
           /\ \/ j.kind = "spawned" /\ j.id = 0 /\ j.env = {}
              \/ /\ j.kind = "scope_job" /\ j.id \in Top(t).env /\ j.env \subseteq Top(t).env
                 /\ call[j.id].kind = "scope" /\ j.id \in 1 .. Len(call)
  BY SpawnBroadcastForm
<1>2. /\ spawns + NumThreads =< MaxSpawns /\ spawns' = spawns + NumThreads
      /\ UNCHANGED <<queues, call, lifecycle, foreign, panics>>
  BY DEF SpawnBroadcast
<1>3. stack[t] # <<>> /\ Top(t).pend = NoJob /\ Top(t).todo = {} /\ Shape /\ NumThreads \in Nat /\ Workers \in SUBSET Workers
  BY RunsFacts, ThreadFacts DEF Runs, Struct
<1>4. f \in FrameSet
  BY <1>1, <1>3, PendFrameOK
<1>5. Finite' /\ \A id : /\ Held(<<"held", id>>)' = Held(<<"held", id>>)
                         /\ Held(<<"owed", id>>)' = Held(<<"owed", id>>) + (IF j.id = id THEN NumThreads ELSE 0)
  BY <1>1, <1>2, <1>3, <1>4, QueueSame, TodoSetHeld
<1>6. Limits /\ spawns \in Nat
  BY <1>2, <1>3, ForkJoinAssumption DEF Limits, Counted, Shape
<1>7. \A k : Held(k) \in Nat
  BY <1>3, HeldNat
<1>8. \A id : j.id # id => Sum(id, 0)
  BY <1>5, <1>7 DEF Sum
<1>9. \A id \in 1 .. Len(call) : id # j.id => Alike(id) /\ Sum(id, 0)
  BY <1>2, <1>8, AlikeSame
<1>10. UNCHANGED <<terminate_count, pool>> /\ Len(call') = Len(call)
  BY <1>2 DEF lifecycle
<1>11. CASE j.id = 0
  <2>1. terminate_count = Held(<<"held", 0>>) + Handle /\ terminate_count + Held(<<"owed", 0>>) =< 1 + spawns
    BY DEF Counted, PoolEntry
  <2>2. Held(<<"held", 0>>)' = Held(<<"held", 0>>) /\ Held(<<"owed", 0>>)' = Held(<<"owed", 0>>) + NumThreads
        /\ Held(<<"owed", 0>>) \in Nat /\ terminate_count \in Int
    BY <1>3, <1>5, <1>7, <1>11 DEF Shape
  <2>3. terminate_count' + Held(<<"owed", 0>>)' =< 1 + spawns'
    BY <1>2, <1>3, <1>6, <1>10, <2>1, <2>2
  <2>4. PoolEntry'
    BY <1>10, <2>1, <2>2, <2>3 DEF PoolEntry, Handle
  <2>5. \A id \in 1 .. Len(call) : id # 0 => Alike(id) /\ Sum(id, 0)
    BY <1>9, <1>11
  <2> QED BY <1>5, <1>6, <1>10, <2>4, <2>5, CountedStep
<1>12. CASE j.id \in 1 .. Len(call) /\ call[j.id].kind = "scope"
  <2>0. PICK s : s = j.id
    OBVIOUS
  <2>1. Entry(s) /\ call[s].count \in Int /\ s \in 1 .. Len(call) /\ s # 0 /\ call[s].kind = "scope"
    BY <1>3, <1>12, <2>0, CallFacts DEF Counted
  <2>2. Held(<<"held", s>>)' = Held(<<"held", s>>) /\ Held(<<"owed", s>>)' = Held(<<"owed", s>>) + NumThreads
        /\ Held(<<"owed", s>>) \in Nat
    BY <1>5, <1>7, <2>0
  <2>3. call[s].count + Held(<<"owed", s>>) =< 1 + spawns
    BY <2>1 DEF Entry
  <2>4. call[s].count + Held(<<"owed", s>>)' =< 1 + spawns'
    BY <1>2, <1>3, <1>6, <2>1, <2>2, <2>3
  <2>5. Due(s)' = Due(s) /\ call' = call
    BY <1>2 DEF Due
  <2>6. Held(<<"held", s>>)' = Due(s)'
    BY <2>1, <2>2, <2>5 DEF Entry
  <2>7. Entry(s)'
    BY <2>1, <2>4, <2>5, <2>6 DEF Entry, Counting
  <2>8. Sum(0, 0)
    BY <1>8, <2>0, <2>1
  <2>9. \A id \in 1 .. Len(call) : id # s => Alike(id) /\ Sum(id, 0)
    BY <1>9, <2>0
  <2> QED BY <1>5, <1>6, <1>10, <2>7, <2>8, <2>9, CountedStep
<1> QED BY <1>1, <1>11, <1>12

-----------------------------------------------------------------------------
(* What a step does to the count, or the latch, of one call.                 *)
Recounts(id, d) ==
  /\ CallsKeep /\ Len(call') = Len(call) /\ \A x \in 1 .. Len(call) : x # id => call'[x] = call[x]
  /\ call'[id].count = d /\ call'[id].set = call[id].set /\ call'[id].kind = call[id].kind
  /\ call'[id].owner = call[id].owner /\ call'[id].out = call[id].out /\ call'[id].result = call[id].result
  /\ call'[id].panic = call[id].panic /\ call'[id].seen = call[id].seen
SetsLatch(id) ==
  /\ CallsKeep /\ Len(call') = Len(call) /\ \A x \in 1 .. Len(call) : x # id => call'[x] = call[x]
  /\ call'[id].set /\ call'[id].count = call[id].count /\ call'[id].kind = call[id].kind
  /\ call'[id].owner = call[id].owner /\ call'[id].out = call[id].out /\ call'[id].result = call[id].result
  /\ call'[id].panic = call[id].panic /\ call'[id].seen = call[id].seen

LEMMA RecountsForm ==
  ASSUME Shape, NEW id \in 1 .. Len(call), NEW d \in Int, call' = [call EXCEPT ![id].count = d]
  PROVE  Recounts(id, d)
<1>1. PICK c : /\ c \in CallSet /\ call' \in Seq(CallSet) /\ Len(call') = Len(call)
               /\ call'[id] = c /\ (\A x \in 1 .. Len(call) : x # id => call'[x] = call[x])
               /\ c.count = d /\ c.kind = call[id].kind /\ c.owner = call[id].owner /\ c.set = call[id].set
               /\ c.out = call[id].out /\ c.result = call[id].result /\ c.panic = call[id].panic
               /\ c.seen = call[id].seen
               /\ CallsKeep
  BY CountWrites
<1> QED BY <1>1 DEF Recounts

LEMMA SetsLatchForm ==
  ASSUME Shape, NEW id \in 1 .. Len(call), call' = [call EXCEPT ![id].set = TRUE]
  PROVE  SetsLatch(id)
<1>1. PICK c : /\ c \in CallSet /\ call' \in Seq(CallSet) /\ Len(call') = Len(call)
                /\ call'[id] = c /\ (\A x \in 1 .. Len(call) : x # id => call'[x] = call[x])
                /\ c.set /\ c.kind = call[id].kind /\ c.owner = call[id].owner /\ c.count = call[id].count
                /\ c.out = call[id].out /\ c.result = call[id].result /\ c.panic = call[id].panic
                /\ c.seen = call[id].seen
                /\ CallsKeep
  BY SetWrites
<1> QED BY <1>1 DEF SetsLatch

\* inject_broadcast, whole.
Broadcasts(t, h, w, p) ==
  /\ stack[t] # <<>> /\ Top(t).pend # NoJob /\ w \in Top(t).todo /\ w \in Workers
  /\ \/ p = NoJob /\ Top(t).todo = {w}
     \/ p = Top(t).pend /\ Top(t).todo # {w}
  /\ h = WithPend(Top(t), p, Top(t).todo \ {w}) /\ h \in FrameSet /\ stack' = SetTop(t, h)
  /\ Top(t).pend \in JobSet /\ QPush(<<"bcast", w>>, Top(t).pend)
  /\ \/ Top(t).pend.kind = "broadcast_op" /\ Top(t).pend.id = Top(t).id /\ Top(t).kind = "broadcast"
          /\ UNCHANGED <<call, terminate_count>>
     \/ Top(t).pend.kind = "spawned" /\ Top(t).pend.id = 0
          /\ UNCHANGED call /\ terminate_count' = terminate_count + 1
     \/ Top(t).pend.kind = "scope_job" /\ Top(t).pend.id \in Top(t).env /\ Top(t).pend.id \in 1 .. Len(call)
          /\ Top(t).pc \in UserPcs /\ call[Top(t).pend.id].kind = "scope"
          /\ Recounts(Top(t).pend.id, call[Top(t).pend.id].count + 1) /\ UNCHANGED terminate_count
  /\ UNCHANGED <<terminate, started, stopped, pool, foreign, spawns, panics>>

LEMMA BroadcastsForm ==
  ASSUME Struct, NEW t \in Threads, PushBroadcast(t)
  PROVE  \E h, w, p : Broadcasts(t, h, w, p)
<1>1. PICK h, w, p :
           /\ w \in Top(t).todo /\ w \in Workers
           /\ \/ p = NoJob /\ Top(t).todo = {w}
              \/ p = Top(t).pend /\ Top(t).todo # {w}
           /\ h = WithPend(Top(t), p, Top(t).todo \ {w}) /\ stack' = SetTop(t, h)
           /\ QPush(<<"bcast", w>>, Top(t).pend) /\ QueuesTyped
           /\ stack[t] # <<>> /\ Top(t).pend # NoJob
  BY PushBroadcastForm
<1>2. Shape
  BY DEF Struct
<1>3. Top(t) \in FrameSet /\ FrameOK(Top(t)) /\ Top(t).todo \subseteq Workers
  BY <1>1, TopFacts DEF FrameSet
<1>4. h \in FrameSet
  <2>1. \/ p = NoJob /\ Top(t).todo \ {w} = {}
        \/ p = Top(t).pend /\ Top(t).todo \ {w} # {} /\ Top(t).todo # {}
    BY <1>1
  <2> QED BY <1>1, <1>3, <2>1, PushedFrameOK
<1>5. PICK j : j = Top(t).pend
  OBVIOUS
<1>6. /\ j \in JobSet /\ j.kind \in {"scope_job", "spawned", "broadcast_op"}
      /\ j.kind = "broadcast_op" => Top(t).kind = "broadcast" /\ j.id = Top(t).id
      /\ j.kind = "spawned" => j.id = 0
      /\ j.kind = "scope_job" => /\ Top(t).pc \in UserPcs /\ j.id \in Top(t).env
                                 /\ j.id \in 1 .. Len(call) /\ call[j.id].kind = "scope"
  BY <1>1, <1>5, PendFacts
<1>7. /\ UNCHANGED <<terminate, started, stopped, pool, foreign, spawns, panics>>
      /\ j.kind = "spawned" => terminate_count' = terminate_count + 1
      /\ j.kind # "spawned" => terminate_count' = terminate_count + 0
      /\ j.kind # "scope_job" => UNCHANGED call
      /\ j.kind = "scope_job" => call' = [call EXCEPT ![j.id].count = @ + 1]
  BY <1>5 DEF PushBroadcast
<1>8. j.kind # "spawned" => UNCHANGED terminate_count
  BY <1>2, <1>7 DEF Shape
<1>9. ASSUME j.kind = "scope_job" PROVE Recounts(j.id, call[j.id].count + 1)
  <2>1. PICK id : id = j.id
    OBVIOUS
  <2>2. id \in 1 .. Len(call)
    BY <1>6, <1>9, <2>1
  <2>3. PICK d \in Int : d = call[id].count + 1
    BY <1>2, <2>2, CallFacts
  <2>4. call' = [call EXCEPT ![id].count = d]
    BY <1>7, <1>9, <2>1, <2>3
  <2>5. Recounts(id, d)
    BY <1>2, <2>2, <2>4, RecountsForm
  <2> QED BY <2>1, <2>3, <2>5
<1>10. \/ j.kind = "broadcast_op" /\ j.id = Top(t).id /\ Top(t).kind = "broadcast" /\ UNCHANGED <<call, terminate_count>>
       \/ j.kind = "spawned" /\ j.id = 0 /\ UNCHANGED call /\ terminate_count' = terminate_count + 1
       \/ j.kind = "scope_job" /\ j.id \in Top(t).env /\ j.id \in 1 .. Len(call)
          /\ Top(t).pc \in UserPcs /\ call[j.id].kind = "scope"
          /\ Recounts(j.id, call[j.id].count + 1) /\ UNCHANGED terminate_count
  BY <1>6, <1>7, <1>8, <1>9
<1>11. Broadcasts(t, h, w, p)
  BY <1>1, <1>4, <1>5, <1>6, <1>7, <1>10 DEF Broadcasts
<1> QED BY <1>11

LEMMA PushBroadcastCounted ==
  ASSUME Struct, Finite, Counted, NEW t \in Threads, NEW h, NEW w, NEW p, Broadcasts(t, h, w, p)
  PROVE  Finite' /\ Counted'
<1>1. PICK j : j = Top(t).pend
  OBVIOUS
<1>2. /\ stack[t] # <<>> /\ Top(t).pend # NoJob /\ w \in Top(t).todo /\ w \in Workers
      /\ \/ p = NoJob /\ Top(t).todo = {w}
         \/ p = Top(t).pend /\ Top(t).todo # {w}
      /\ h = WithPend(Top(t), p, Top(t).todo \ {w}) /\ h \in FrameSet /\ stack' = SetTop(t, h)
      /\ j \in JobSet /\ QPush(<<"bcast", w>>, j)
      /\ UNCHANGED <<terminate, started, stopped, pool, foreign, spawns, panics>> /\ Shape
  BY <1>1 DEF Broadcasts, Struct
<1>3. \/ j.kind = "broadcast_op" /\ UNCHANGED <<call, terminate_count>>
      \/ j.kind = "spawned" /\ j.id = 0 /\ UNCHANGED call /\ terminate_count' = terminate_count + 1
      \/ j.kind = "scope_job" /\ j.id \in Top(t).env /\ j.id \in 1 .. Len(call)
          /\ Top(t).pc \in UserPcs /\ call[j.id].kind = "scope"
          /\ Recounts(j.id, call[j.id].count + 1) /\ UNCHANGED terminate_count
  BY <1>1 DEF Broadcasts
<1>4. /\ Finite'
      /\ j.kind = "broadcast_op" => \A id : Sum(id, 0)
      /\ j.kind # "broadcast_op" => \A id :
              /\ Held(<<"held", id>>)' = Held(<<"held", id>>) + (IF j.id = id THEN 1 ELSE 0)
              /\ Held(<<"owed", id>>)' = Held(<<"owed", id>>) - (IF j.id = id THEN 1 ELSE 0)
              /\ Held(<<"owed", id>>) \in Nat
  BY <1>1, <1>2, TodoPushHeld
<1>5. Limits /\ spawns' = spawns /\ spawns \in Nat
  BY <1>2, LimitsSame DEF Shape
<1>6. \A k : Held(k) \in Nat
  BY <1>2, HeldNat
<1>7. j.kind # "broadcast_op" => \A id : j.id # id => Sum(id, 0)
  BY <1>4, <1>6 DEF Sum
<1>8. CASE j.kind = "broadcast_op" /\ UNCHANGED <<call, terminate_count>>
  BY <1>2, <1>4, <1>5, <1>8, AlikeSame, CountedSame
<1>9. CASE j.kind = "spawned" /\ j.id = 0 /\ UNCHANGED call /\ terminate_count' = terminate_count + 1
  <2>1. terminate_count = Held(<<"held", 0>>) + Handle /\ terminate_count + Held(<<"owed", 0>>) =< 1 + spawns
    BY DEF Counted, PoolEntry
  <2>2. Held(<<"held", 0>>)' = Held(<<"held", 0>>) + 1 /\ Held(<<"owed", 0>>)' = Held(<<"owed", 0>>) - 1
        /\ Held(<<"owed", 0>>) \in Nat /\ Held(<<"held", 0>>) \in Nat /\ terminate_count \in Int /\ Handle \in Nat
    BY <1>2, <1>4, <1>6, <1>9 DEF Shape, Handle
  <2>3. Handle' = Handle
    BY <1>2 DEF Handle
  <2>4. terminate_count' = Held(<<"held", 0>>)' + Handle'
    BY <1>9, <2>1, <2>2, <2>3
  <2>5. terminate_count' + Held(<<"owed", 0>>)' =< 1 + spawns'
    BY <1>5, <1>9, <2>1, <2>2
  <2>6. PoolEntry'
    BY <2>4, <2>5 DEF PoolEntry
  <2>7. \A id \in 1 .. Len(call) : id # 0 => Alike(id) /\ Sum(id, 0)
    BY <1>7, <1>9, AlikeSame
  <2>8. Len(call') = Len(call)
    BY <1>9
  <2> QED BY <1>4, <1>5, <2>6, <2>7, <2>8, CountedStep
<1>10. CASE j.kind = "scope_job" /\ j.id \in Top(t).env /\ j.id \in 1 .. Len(call)
          /\ Top(t).pc \in UserPcs /\ call[j.id].kind = "scope"
          /\ Recounts(j.id, call[j.id].count + 1) /\ UNCHANGED terminate_count
  <2>0. PICK s : s = j.id
    OBVIOUS
  <2>1. s \in Top(t).env /\ s \in 1 .. Len(call) /\ s # 0 /\ call[s].kind = "scope" /\ j.kind # "broadcast_op"
    BY <1>10, <2>0
  <2>2. Held(<<"held", s>>)' = Held(<<"held", s>>) + 1 /\ Held(<<"owed", s>>)' = Held(<<"owed", s>>) - 1
    BY <1>4, <2>0, <2>1
  <2>3. PICK o \in Int : o = -1
    OBVIOUS
  <2>4. Held(<<"owed", s>>)' = Held(<<"owed", s>>) + o /\ o + 1 + spawns =< spawns'
    BY <1>5, <1>6, <2>2, <2>3
  <2>5. Top(t) = stack[t][Len(stack[t])] /\ Len(stack[t]) \in DOMAIN stack[t]
    BY <1>2, TopFacts
  <2>6. Held(<<"held", s>>) > 0 /\ Held(<<"held", s>>) \in Nat
    BY <1>10, <2>1, <2>5, EnvHeld
  <2>7. ~call[s].set
    BY <2>1, <2>6, HeldLive
  <2>8. call'[s].kind = call[s].kind /\ call'[s].set = call[s].set /\ call'[s].count = call[s].count + 1
        /\ Len(call') = Len(call) /\ \A x \in 1 .. Len(call) : x # s => call'[x] = call[x]
    BY <1>10, <2>0 DEF Recounts
  <2>9. Entry(s)'
    BY <1>5, <2>1, <2>2, <2>4, <2>7, <2>8, CountUp
  <2>10. \A id \in 1 .. Len(call) : id # s => Alike(id) /\ Sum(id, 0)
    BY <1>7, <2>0, <2>1, <2>8 DEF Alike
  <2>11. Sum(0, 0) /\ UNCHANGED <<terminate_count, pool>>
    BY <1>2, <1>7, <1>10, <2>0, <2>1
  <2> QED BY <1>4, <1>5, <2>8, <2>9, <2>10, <2>11, CountedStep
<1> QED BY <1>3, <1>8, <1>9, <1>10

-----------------------------------------------------------------------------
(* Setting a latch: a StackJob's, one that counts, and at last its core.     *)
Latches(t, id) ==
  /\ stack[t] # <<>> /\ id = Top(t).id /\ id \in 1 .. Len(call) /\ Top(t).pc \in EndPcs \ {"panicked"}
  /\ \/ Top(t).kind \in {"join_b", "install_op"} /\ Top(t).pc = "set" /\ call[id].owner = Main /\ stack' = After(t)
     \/ Top(t).pc = "core" /\ call[id].owner \notin Foreign /\ stack' = After(t)
     \/ Top(t).pc = "core" /\ call[id].owner \in Foreign /\ stack' = SetTop(t, WithPc(Top(t), "notify", 0))
  /\ call[id].kind = IF Top(t).kind = "scope" THEN "scope" ELSE Of(Top(t).kind)
  /\ SetsLatch(id)
  /\ UNCHANGED <<queues, lifecycle, foreign, spawns, panics>>
Cores(t, id, h) ==
  /\ stack[t] # <<>> /\ id = Top(t).id /\ id \in 1 .. Len(call) /\ Top(t).pc = "set"
  /\ Top(t).kind \in {"join_b", "install_op"} /\ call[id].owner # Main
  /\ call[id].kind = Of(Top(t).kind)
  /\ h = WithPc(Top(t), "core", 0) /\ stack' = SetTop(t, h)
  /\ clones' = IF call[id].owner \in Foreign THEN [clones EXCEPT ![call[id].owner] = @ \cup {t}] ELSE clones
  /\ UNCHANGED <<queues, call, lifecycle, left, spawns, panics>>
CountsDown(t, id) ==
  /\ stack[t] # <<>> /\ id = Top(t).id /\ id \in 1 .. Len(call) /\ Top(t).pc = "set"
  /\ Top(t).kind \in {"scope", "scope_job", "broadcast_op"} /\ call[id].kind \in Counting
  /\ call[id].kind = IF Top(t).kind = "scope" THEN "scope" ELSE Of(Top(t).kind)
  /\ Recounts(id, call[id].count - 1)
  /\ \/ call[id].count = 1 /\ stack' = SetTop(t, WithPc(Top(t), "core", 0))
     \/ call[id].count # 1 /\ stack' = After(t)
  /\ UNCHANGED <<queues, lifecycle, foreign, spawns, panics>>

LEMMA CoreSetForm ==
  ASSUME Struct, NEW t \in Threads, CoreSet(t)
  PROVE  \E id : Latches(t, id)
<1>1. /\ stack[t] # <<>> /\ Top(t).pc = "core" /\ Top(t).pc \in EndPcs \ {"panicked"} /\ Top(t).pc \in EndPcs
      /\ UNCHANGED <<queues, lifecycle, foreign, spawns, panics>>
  BY DEF CoreSet, EndPcs
<1>2. PICK id : id = Top(t).id
  OBVIOUS
<1>3. /\ id \in 1 .. Len(call) /\ Top(t).kind \in {"scope"} \cup (JobKinds \ {"spawned"}) /\ Shape
      /\ call[id].kind = IF Top(t).kind = "scope" THEN "scope" ELSE Of(Top(t).kind)
  BY <1>1, <1>2, EndedFacts
<1>4. SetsLatch(id)
  BY <1>2, <1>3, SetsLatchForm DEF CoreSet
<1>5. PICK h : h = WithPc(Top(t), "notify", 0)
  OBVIOUS
<1>6. [Top(t) EXCEPT !.pc = "notify"] = h
  BY <1>1, <1>3, <1>5, GoesOn
<1>7. \/ call[id].owner \notin Foreign /\ stack' = After(t)
      \/ call[id].owner \in Foreign /\ stack' = SetTop(t, h)
  BY <1>2, <1>6 DEF CoreSet
<1>8. Latches(t, id)
  BY <1>1, <1>2, <1>3, <1>4, <1>5, <1>7 DEF Latches
<1> QED BY <1>8

LEMMA StackJobSetForm ==
  ASSUME Struct, NEW t \in Threads, SetLatch(t), StackJobSet(t)
  PROVE  \E id, h : Latches(t, id) \/ Cores(t, id, h)
<1>1. /\ stack[t] # <<>> /\ Top(t).pc = "set" /\ Top(t).pc \in EndPcs \ {"panicked"} /\ Top(t).pc \in EndPcs
      /\ UNCHANGED <<queues, lifecycle, left, spawns, panics>>
  BY DEF SetLatch, EndPcs
<1>2. PICK id : id = Top(t).id
  OBVIOUS
<1>3. /\ id \in 1 .. Len(call) /\ Shape /\ Top(t).kind \in {"join_b", "install_op"}
      /\ call[id].kind = IF Top(t).kind = "scope" THEN "scope" ELSE Of(Top(t).kind)
  BY <1>1, <1>2, EndedFacts DEF StackJobSet, StackJobs
<1>4. PICK h : h = WithPc(Top(t), "core", 0)
  OBVIOUS
<1>5. [Top(t) EXCEPT !.pc = "core"] = h
  <2>1. Top(t).kind \in {"scope"} \cup (JobKinds \ {"spawned"})
    BY <1>3 DEF JobKinds, StackJobs
  <2> QED BY <1>1, <1>4, <2>1, GoesOn
<1>6. clones' = IF call[id].owner \in Foreign THEN [clones EXCEPT ![call[id].owner] = @ \cup {t}] ELSE clones
  BY <1>2 DEF StackJobSet
<1>7. CASE call[id].owner = Main
  <2>1. call' = [call EXCEPT ![id].set = TRUE] /\ stack' = After(t)
    BY <1>2, <1>7 DEF StackJobSet, Blocking
  <2>2. SetsLatch(id)
    BY <1>3, <2>1, SetsLatchForm
  <2>3. clones' = clones
    BY <1>6, <1>7, ThreadFacts
  <2>4. Latches(t, id)
    BY <1>1, <1>2, <1>3, <1>7, <2>1, <2>2, <2>3 DEF Latches, foreign
  <2> QED BY <2>4
<1>8. CASE call[id].owner # Main
  <2>1. call' = call /\ stack' = SetTop(t, h)
    BY <1>2, <1>5, <1>8 DEF StackJobSet, Blocking
  <2>2. Cores(t, id, h)
    BY <1>1, <1>2, <1>3, <1>4, <1>6, <1>8, <2>1 DEF Cores
  <2> QED BY <2>2
<1> QED BY <1>7, <1>8

LEMMA CountSetForm ==
  ASSUME Struct, NEW t \in Threads, SetLatch(t), CountSet(t)
  PROVE  \E id : CountsDown(t, id)
<1>1. /\ stack[t] # <<>> /\ Top(t).pc = "set" /\ Top(t).pc \in EndPcs \ {"panicked"} /\ Top(t).pc \in EndPcs
      /\ UNCHANGED <<queues, lifecycle, left, spawns, panics>>
  BY DEF SetLatch, EndPcs
<1>2. PICK id : id = Top(t).id
  OBVIOUS
<1>3. /\ id \in 1 .. Len(call) /\ Shape /\ Top(t).kind \in {"scope", "scope_job", "broadcast_op"}
      /\ Top(t).kind \in {"scope"} \cup (JobKinds \ {"spawned"}) /\ call[id].count \in Int
      /\ call[id].kind = IF Top(t).kind = "scope" THEN "scope" ELSE Of(Top(t).kind)
  BY <1>1, <1>2, EndedFacts, CallFacts DEF CountSet
<1>4. call[id].kind \in Counting
  BY <1>3 DEF Of, Counting
<1>5. PICK h : h = WithPc(Top(t), "core", 0)
  OBVIOUS
<1>6. [Top(t) EXCEPT !.pc = "core"] = h
  BY <1>1, <1>3, <1>5, GoesOn
<1>7. PICK d \in Int : d = call[id].count - 1
  BY <1>3
<1>8. call' = [call EXCEPT ![id].count = d]
  BY <1>2, <1>7 DEF CountSet
<1>9. Recounts(id, d)
  BY <1>3, <1>8, RecountsForm
<1>10. /\ \/ call[id].count = 1 /\ stack' = SetTop(t, h)
          \/ call[id].count # 1 /\ stack' = After(t)
       /\ UNCHANGED foreign
  BY <1>1, <1>2, <1>6 DEF CountSet, foreign
<1>11. CountsDown(t, id)
  BY <1>1, <1>2, <1>3, <1>4, <1>5, <1>7, <1>9, <1>10 DEF CountsDown
<1> QED BY <1>11

\* The frame that sets a latch goes, or goes on without what it held.
LEMMA LetsGo ==
  ASSUME Struct, Finite, NEW t \in Threads, stack[t] # <<>>, Top(t).pc \in EndPcs \ {"panicked"}, QSame, NEW pc,
         \/ stack' = After(t)
         \/ pc \in {"core", "notify"} /\ stack' = SetTop(t, WithPc(Top(t), pc, 0)) /\ (pc = "core" => call[Top(t).id].kind \in Counting)
  PROVE  Finite' /\ \A x : Sum(x, -Holds(Top(t), x)) /\ Holds(Top(t), x) \in Nat
<1>1. CASE stack' = After(t)
  BY <1>1, AfterHeld
<1>2. CASE pc \in {"core", "notify"} /\ stack' = SetTop(t, WithPc(Top(t), pc, 0))
            /\ (pc = "core" => call[Top(t).id].kind \in Counting)
  <2>1. PICK h : h = WithPc(Top(t), pc, 0)
    OBVIOUS
  <2>2. /\ Top(t) \in FrameSet /\ Top(t).pend = NoJob /\ Top(t).todo = {}
        /\ Top(t).kind \in {"scope"} \cup (JobKinds \ {"spawned"})
        /\ call[Top(t).id].kind = IF Top(t).kind = "scope" THEN "scope" ELSE Of(Top(t).kind)
    BY EndedFacts
  <2>3. h.kind = Top(t).kind /\ h.id = Top(t).id /\ h.pc = pc /\ h.pend = NoJob /\ h.todo = {}
    BY <2>1, <2>2, WithPcFields
  <2>4. h \in FrameSet
    BY <1>2, <2>1, <2>2 DEF WithPc, FrameSet, AllPcs
  <2>5. ~Token(h)
    BY <1>2, <2>2, <2>3 DEF Token, Counting, Of
  <2>6. Finite' /\ \A x : Sum(x, Holds(h, x) - Holds(Top(t), x)) /\ Holds(h, x) \in Nat /\ Holds(Top(t), x) \in Nat
    BY <1>2, <2>1, <2>2, <2>3, <2>4, SetHeld
  <2>7. \A x : Holds(h, x) = 0
    BY <2>5 DEF Holds
  <2>8. \A x : Holds(h, x) - Holds(Top(t), x) = -Holds(Top(t), x)
    BY <2>6, <2>7
  <2> QED BY <2>6, <2>8
<1> QED BY <1>1, <1>2

LEMMA LatchesCounted ==
  ASSUME Struct, Finite, Counted, Cored, NEW t \in Threads, NEW id, Latches(t, id)
  PROVE  Finite' /\ Counted'
<1>1. /\ stack[t] # <<>> /\ id = Top(t).id /\ id \in 1 .. Len(call) /\ Top(t).pc \in EndPcs \ {"panicked"}
      /\ call[id].kind = IF Top(t).kind = "scope" THEN "scope" ELSE Of(Top(t).kind)
      /\ UNCHANGED <<queues, lifecycle, foreign, spawns, panics>> /\ Shape
      /\ Top(t).pc \in {"set", "core"} /\ (Top(t).pc = "set" => Top(t).kind \in {"join_b", "install_op"})
  BY DEF Latches, Struct
<1>2. QSame
  BY <1>1, QueueSame
<1>3. \/ stack' = After(t)
      \/ stack' = SetTop(t, WithPc(Top(t), "notify", 0))
  BY DEF Latches
<1>4. Finite' /\ \A x : Sum(x, -Holds(Top(t), x)) /\ Holds(Top(t), x) \in Nat
  BY <1>1, <1>2, <1>3, LetsGo
<1>5. Len(call') = Len(call) /\ (\A x \in 1 .. Len(call) : x # id => call'[x] = call[x])
      /\ call'[id].set /\ call'[id].count = call[id].count /\ call'[id].kind = call[id].kind
      /\ call'[id].out = call[id].out
  BY DEF Latches, SetsLatch
<1>6. \A x : x # id => Sum(x, 0)
  <2>1. \A x : x # id => Holds(Top(t), x) = 0
    BY <1>1 DEF Holds
  <2>2. \A x : x # id => -Holds(Top(t), x) = 0
    BY <2>1
  <2> QED BY <1>4, <2>2
<1>7. Limits /\ UNCHANGED <<terminate_count, pool>> /\ Sum(0, 0)
  BY <1>1, <1>6, LimitsSame DEF lifecycle
<1>8. Entry(id) /\ Held(<<"held", id>>) \in Nat /\ Held(<<"owed", id>>) \in Nat /\ call[id].count \in Int /\ call[id].kind \in CallKinds
  BY <1>1, HeldNat, CallFacts DEF Counted
<1>9. Len(stack[t]) \in DOMAIN stack[t] /\ Top(t) = stack[t][Len(stack[t])]
      /\ Top(t).kind \in {"scope"} \cup (JobKinds \ {"spawned"})
  BY <1>1, TopFacts, EndedFacts
<1>10. PICK n : n = Holds(Top(t), id)
  OBVIOUS
<1>11. Held(<<"held", id>>)' = Held(<<"held", id>>) - n /\ Held(<<"owed", id>>)' = Held(<<"owed", id>>) /\ n \in Nat
  BY <1>4, <1>8, <1>10 DEF Sum
<1>12. ASSUME call[id].kind \in Counting PROVE Entry(id)'
  <2>1. Top(t).pc = "core" /\ Top(t).kind \in {"scope", "scope_job", "broadcast_op"}
    BY <1>1, <1>9, <1>12 DEF Counting, Of, JobKinds, StackJobs
  <2>2. n = 0
    BY <1>10, <2>1 DEF Holds, Token
  <2>3. call[id].count = 0
    BY <1>1, <1>9, <1>12, <2>1 DEF Cored
  <2>4. Due(id)' = call[id].count /\ Held(<<"held", id>>) = call[id].count
    BY <1>5, <1>8, <1>12 DEF Due, Entry
  <2>5. Held(<<"held", id>>)' = Due(id)'
    BY <1>8, <1>11, <2>2, <2>4
  <2>6. IF call'[id].kind = "scope" THEN call'[id].count + Held(<<"owed", id>>)' =< 1 + spawns'
                                    ELSE call'[id].count =< NumThreads
    BY <1>1, <1>5, <1>8, <1>11 DEF Entry
  <2> QED BY <1>5, <1>12, <2>3, <2>5, <2>6 DEF Entry
<1>13. ASSUME call[id].kind \notin Counting PROVE Entry(id)'
  <2>1. Top(t).kind \in {"join_b", "install_op"}
    BY <1>1, <1>9, <1>13 DEF Counting, Of, JobKinds, StackJobs
  <2>2. n = 1
    BY <1>1, <1>10, <2>1 DEF Holds, Token
  <2>3. Held(<<"held", id>>) > 0
    BY <1>1, <1>9, <2>1, TokenHeld DEF Token
  <2>4. Held(<<"held", id>>) = 1
    BY <1>8, <1>13, <2>3 DEF Entry, Due
  <2>5. Held(<<"held", id>>)' = 0
    BY <1>11, <2>2, <2>4
  <2>6. Due(id)' = 0
    BY <1>5, <1>13 DEF Due
  <2>7. call[id].kind # "scope"
    BY <1>13 DEF Counting
  <2> QED BY <1>5, <1>8, <1>13, <2>5, <2>6, <2>7 DEF Entry
<1>14. Entry(id)'
  BY <1>12, <1>13
<1>15. \A x \in 1 .. Len(call) : x # id => Alike(x) /\ Sum(x, 0)
  BY <1>5, <1>6 DEF Alike
<1> QED BY <1>4, <1>5, <1>7, <1>14, <1>15, CountedStep

LEMMA CoresCounted ==
  ASSUME Struct, Finite, Counted, NEW t \in Threads, NEW id, NEW h, Cores(t, id, h)
  PROVE  Finite' /\ Counted'
<1>1. /\ stack[t] # <<>> /\ id = Top(t).id /\ id \in 1 .. Len(call) /\ Top(t).pc = "set"
      /\ Top(t).kind \in {"join_b", "install_op"} /\ h = WithPc(Top(t), "core", 0) /\ stack' = SetTop(t, h)
      /\ UNCHANGED <<queues, call, lifecycle, left, spawns, panics>> /\ Top(t).pc \in EndPcs /\ "core" \in AllPcs
  BY DEF Cores, EndPcs, AllPcs
<1>2. Top(t).pend = NoJob /\ Top(t) \in FrameSet
  BY <1>1, EndedFacts
<1>3. h.kind = Top(t).kind /\ h.pc = "core"
  BY <1>1, <1>2, WithPcFields
<1>4. Token(h) <=> Token(Top(t))
  BY <1>1, <1>3 DEF Token
<1>5. Limits /\ QSame /\ UNCHANGED <<terminate_count, pool>> /\ Len(call') = Len(call)
  BY <1>1, LimitsSame, QueueSame DEF lifecycle
<1> QED BY <1>1, <1>2, <1>4, <1>5, AlikeSame, PcCounted

LEMMA CountsDownCounted ==
  ASSUME Struct, Finite, Counted, NEW t \in Threads, NEW id, CountsDown(t, id)
  PROVE  Finite' /\ Counted'
<1>1. /\ stack[t] # <<>> /\ id = Top(t).id /\ id \in 1 .. Len(call) /\ Top(t).pc = "set"
      /\ Top(t).kind \in {"scope", "scope_job", "broadcast_op"} /\ call[id].kind \in Counting
      /\ UNCHANGED <<queues, lifecycle, foreign, spawns, panics>> /\ Shape
      /\ Top(t).pc \in EndPcs \ {"panicked"}
      /\ (stack' = SetTop(t, WithPc(Top(t), "core", 0)) \/ stack' = After(t))
  BY DEF CountsDown, EndPcs, Struct
<1>2. QSame
  BY <1>1, QueueSame
<1>4. Finite' /\ \A x : Sum(x, -Holds(Top(t), x)) /\ Holds(Top(t), x) \in Nat
  BY <1>1, <1>2, LetsGo
<1>5. Len(call') = Len(call) /\ (\A x \in 1 .. Len(call) : x # id => call'[x] = call[x])
      /\ call'[id].set = call[id].set /\ call'[id].count = call[id].count - 1 /\ call'[id].kind = call[id].kind
  BY DEF CountsDown, Recounts
<1>6. \A x : x # id => Sum(x, 0)
  <2>1. \A x : x # id => Holds(Top(t), x) = 0
    BY <1>1 DEF Holds
  <2>2. \A x : x # id => -Holds(Top(t), x) = 0
    BY <2>1
  <2> QED BY <1>4, <2>2
<1>7. Limits /\ UNCHANGED <<terminate_count, pool>> /\ Sum(0, 0)
  BY <1>1, <1>6, LimitsSame DEF lifecycle
<1>8. Entry(id) /\ Held(<<"held", id>>) \in Nat /\ Held(<<"owed", id>>) \in Nat /\ call[id].count \in Int /\ spawns \in Nat
  BY <1>1, HeldNat, CallFacts DEF Counted, Shape
<1>9. Len(stack[t]) \in DOMAIN stack[t] /\ Top(t) = stack[t][Len(stack[t])]
  BY <1>1, TopFacts
<1>10. Token(Top(t)) /\ Holds(Top(t), id) = 1
  BY <1>1 DEF Token, Holds
<1>11. Held(<<"held", id>>)' = Held(<<"held", id>>) - 1 /\ Held(<<"owed", id>>)' = Held(<<"owed", id>>)
  BY <1>4, <1>8, <1>10 DEF Sum
<1>12. Held(<<"held", id>>) > 0
  BY <1>1, <1>9, <1>10, TokenHeld
<1>13. ~call[id].set
  BY <1>1, <1>8, <1>12, HeldLive
<1>14. Held(<<"held", id>>)' = Due(id)'
  <2>1. Held(<<"held", id>>) = call[id].count
    BY <1>1, <1>8 DEF Entry, Due
  <2>2. Due(id)' = call'[id].count
    BY <1>1, <1>5 DEF Due
  <2> QED BY <1>5, <1>8, <1>11, <2>1, <2>2
<1>15. IF call'[id].kind = "scope" THEN call'[id].count + Held(<<"owed", id>>)' =< 1 + spawns'
                                   ELSE call'[id].count =< NumThreads
  <2>1. NumThreads \in Nat /\ spawns' = spawns
    BY <1>1, ThreadFacts
  <2>2. CASE call[id].kind = "scope"
    <3>1. call[id].count + Held(<<"owed", id>>) =< 1 + spawns
      BY <1>8, <2>2 DEF Entry
    <3>2. call[id].count - 1 + Held(<<"owed", id>>) =< 1 + spawns
      BY <1>8, <3>1
    <3> QED BY <1>5, <1>11, <2>1, <2>2, <3>2
  <2>3. CASE call[id].kind # "scope"
    <3>1. call[id].count =< NumThreads
      BY <1>8, <2>3 DEF Entry
    <3> QED BY <1>5, <1>8, <2>1, <2>3, <3>1
  <2> QED BY <2>2, <2>3
<1>16. Entry(id)'
  BY <1>1, <1>5, <1>13, <1>14, <1>15 DEF Entry
<1>17. \A x \in 1 .. Len(call) : x # id => Alike(x) /\ Sum(x, 0)
  BY <1>5, <1>6 DEF Alike
<1> QED BY <1>4, <1>5, <1>7, <1>16, <1>17, CountedStep

-----------------------------------------------------------------------------
(* The pool's references.                                                    *)
Lets(t) ==
  /\ stack[t] # <<>> /\ Top(t).pc = "terminate" /\ terminate_count' = terminate_count - 1
  /\ \/ terminate_count = 1 /\ stack' = SetTop(t, WithPc(Top(t), "stop", 0))
     \/ terminate_count # 1 /\ stack' = PopFrame(t)
  /\ UNCHANGED <<queues, call, terminate, started, stopped, pool, foreign, spawns, panics>>

LEMMA TerminateForm ==
  ASSUME Struct, NEW t \in Threads, Terminate(t)
  PROVE  Lets(t)
<1>1. /\ stack[t] # <<>> /\ Top(t).pc = "terminate" /\ terminate_count' = terminate_count - 1
      /\ UNCHANGED <<queues, call, terminate, started, stopped, pool, foreign, spawns, panics>>
  BY DEF Terminate
<1>2. Top(t) \in FrameSet /\ Top(t).err = 0
  BY <1>1, EnderFacts
<1>3. PICK g : g = Top(t)
  OBVIOUS
<1>4. [g EXCEPT !.pc = "stop"] = WithPc(g, "stop", 0)
  BY <1>2, <1>3 DEF FrameSet, WithPc
<1>5. \/ terminate_count = 1 /\ stack' = SetTop(t, WithPc(Top(t), "stop", 0))
      \/ terminate_count # 1 /\ stack' = PopFrame(t)
  BY <1>3, <1>4 DEF Terminate
<1> QED BY <1>1, <1>5 DEF Lets

LEMMA LetsCounted ==
  ASSUME Struct, Finite, Counted, NEW t \in Threads, Lets(t)
  PROVE  Finite' /\ Counted'
<1>1. /\ stack[t] # <<>> /\ Top(t).pc = "terminate" /\ terminate_count' = terminate_count - 1
      /\ UNCHANGED <<queues, call, terminate, started, stopped, pool, foreign, spawns, panics>>
  BY DEF Lets
<1>2. /\ Top(t) \in FrameSet /\ Top(t).pend = NoJob /\ Top(t).todo = {} /\ Shape
      /\ Top(t).kind \in {"terminator", "spawned"} /\ Top(t).id = 0 /\ QSame
  BY <1>1, EnderFacts, QueueSame
<1>3. Finite' /\ \A x : Sum(x, -Holds(Top(t), x)) /\ Holds(Top(t), x) \in Nat
  <2>1. CASE stack' = SetTop(t, WithPc(Top(t), "stop", 0))
    <3>1. PICK h : h = WithPc(Top(t), "stop", 0)
      OBVIOUS
    <3>2. h.kind = Top(t).kind /\ h.id = Top(t).id /\ h.pc = "stop" /\ h.pend = NoJob /\ h.todo = {}
      BY <1>2, <3>1, WithPcFields
    <3>3. h \in FrameSet
      BY <1>2, <3>1 DEF WithPc, FrameSet, AllPcs
    <3>4. Finite' /\ \A x : Sum(x, Holds(h, x) - Holds(Top(t), x)) /\ Holds(h, x) \in Nat /\ Holds(Top(t), x) \in Nat
      BY <1>1, <1>2, <2>1, <3>1, <3>2, <3>3, SetHeld
    <3>5. \A x : Holds(h, x) = 0
      BY <1>2, <3>2 DEF Holds, Token
    <3>6. \A x : Holds(h, x) - Holds(Top(t), x) = -Holds(Top(t), x)
      BY <3>4, <3>5
    <3> QED BY <3>4, <3>6
  <2>2. CASE stack' = PopFrame(t)
    BY <1>1, <2>2, EnderHeld
  <2> QED BY <2>1, <2>2 DEF Lets
<1>4. \A x : x # 0 => Sum(x, 0)
  <2>1. \A x : x # 0 => Holds(Top(t), x) = 0
    BY <1>2 DEF Holds
  <2>2. \A x : x # 0 => -Holds(Top(t), x) = 0
    BY <2>1
  <2> QED BY <1>3, <2>2
<1>5. Holds(Top(t), 0) = 1
  BY <1>1, <1>2 DEF Holds, Token
<1>6. Held(<<"held", 0>>) \in Nat /\ Held(<<"owed", 0>>) \in Nat /\ terminate_count \in Int /\ Handle \in Nat /\ spawns \in Nat
  BY <1>2, HeldNat DEF Shape, Handle
<1>7. Held(<<"held", 0>>)' = Held(<<"held", 0>>) - 1 /\ Held(<<"owed", 0>>)' = Held(<<"owed", 0>>)
  BY <1>3, <1>5, <1>6 DEF Sum
<1>8. terminate_count = Held(<<"held", 0>>) + Handle /\ terminate_count + Held(<<"owed", 0>>) =< 1 + spawns
  BY DEF Counted, PoolEntry
<1>9. Handle' = Handle /\ spawns' = spawns
  BY <1>1 DEF Handle
<1>10. terminate_count' = Held(<<"held", 0>>)' + Handle'
  BY <1>1, <1>6, <1>7, <1>8, <1>9
<1>11. terminate_count' + Held(<<"owed", 0>>)' =< 1 + spawns'
  BY <1>1, <1>6, <1>7, <1>8, <1>9
<1>12. PoolEntry'
  BY <1>10, <1>11 DEF PoolEntry
<1>13. Limits /\ Len(call') = Len(call)
  BY <1>1, LimitsSame
<1>14. \A id \in 1 .. Len(call) : id # 0 => Alike(id) /\ Sum(id, 0)
  BY <1>1, <1>4, AlikeSame
<1> QED BY <1>3, <1>12, <1>13, <1>14, CountedStep

LEMMA EndsCounted ==
  ASSUME Struct, Finite, Counted, NEW f, Ends(f)
  PROVE  Finite' /\ Counted'
<1>1. /\ pool \in {"building", "open"} /\ pool' \in {"failed", "dropped"}
      /\ UNCHANGED <<queues, call, terminate_count, terminate, started, stopped, foreign, spawns, panics>>
  BY DEF Ends
<1>2. Stacks /\ Puts(Main, Len(stack[Main]) + 1, f) /\ f \in FrameSet /\ f.kind = "terminator"
      /\ f.pc = "terminate" /\ f.id = 0 /\ f.pend = NoJob /\ f.todo = {}
  BY EndsStruct
<1>3. Main \in Threads /\ QSame /\ Shape
  BY <1>1, ThreadFacts, QueueSame DEF Struct
<1>4. Finite' /\ \A id : Sum(id, Holds(f, id)) /\ Holds(f, id) \in Nat
  BY <1>2, <1>3, PushHeld
<1>5. \A id : Holds(f, id) = IF id = 0 THEN 1 ELSE 0
  BY <1>2 DEF Holds, Token
<1>6. Held(<<"held", 0>>) \in Nat /\ Held(<<"owed", 0>>) \in Nat /\ terminate_count \in Int
  BY <1>3, HeldNat DEF Shape
<1>7. Held(<<"held", 0>>)' = Held(<<"held", 0>>) + 1 /\ Held(<<"owed", 0>>)' = Held(<<"owed", 0>>)
  BY <1>4, <1>5, <1>6 DEF Sum
<1>8. Handle = 1 /\ Handle' = 0
  BY <1>1 DEF Handle
<1>9. terminate_count = Held(<<"held", 0>>) + Handle /\ terminate_count + Held(<<"owed", 0>>) =< 1 + spawns
  BY DEF Counted, PoolEntry
<1>10. PoolEntry'
  BY <1>1, <1>6, <1>7, <1>8, <1>9 DEF PoolEntry
<1>11. Limits /\ Len(call') = Len(call)
  BY <1>1, LimitsSame
<1>12. \A id \in 1 .. Len(call) : id # 0 => Alike(id) /\ Sum(id, 0)
  BY <1>1, <1>4, <1>5, AlikeSame
<1> QED BY <1>4, <1>10, <1>11, <1>12, CountedStep

-----------------------------------------------------------------------------
(* A call ends with e, and gives way to the code that made it.               *)
Gone(t, n, g, id, e) ==
  /\ stack[t] # <<>> /\ n = Len(stack[t]) - 1 /\ n \in DOMAIN stack[t] /\ Len(stack[t]) > 1
  /\ Stacks /\ Puts(t, n, g) /\ g \in FrameSet
  /\ Same(g, stack[t][n]) /\ g.pc = stack[t][n].pc /\ g.pend = NoJob /\ stack[t][n].pend = NoJob
  /\ g.todo = {} /\ stack[t][n].todo = {} /\ g.pc \in UserPcs
  /\ id = Top(t).id /\ id \in 1 .. Len(call) /\ Top(t).kind \in CallKinds /\ Top(t).pend = NoJob /\ Top(t).todo = {}
  /\ call[id].kind = Top(t).kind /\ call[id].out = None
  /\ Len(call') = Len(call) /\ \A x \in 1 .. Len(call) : x # id => call'[x] = call[x]
  /\ call'[id].out = e /\ e \in Nat /\ call'[id].set = call[id].set /\ call'[id].kind = call[id].kind
  /\ call'[id].owner = call[id].owner /\ call'[id].count = call[id].count /\ call'[id].panic = call[id].panic
  /\ call'[id].seen = call[id].seen \cup ({e} \ {0})

LEMMA GoneForm ==
  ASSUME Struct, NEW t \in Threads, stack[t] # <<>>, Top(t).kind \in CallKinds, Top(t).pend = NoJob, NEW e \in Nat, Return(t, e)
  PROVE  \E n, g, id : Gone(t, n, g, id, e)
<1>0. Shape /\ Framed /\ Stacked /\ Called
  BY DEF Struct
<1>1. PICK n : n = Len(stack[t]) - 1
  OBVIOUS
<1>2. PICK id : id = Top(t).id
  OBVIOUS
<1>3. PICK f, c :
           /\ Len(stack[t]) > 1 /\ n \in DOMAIN stack[t]
           /\ Stacks /\ Puts(t, n, f)
           /\ (f = [stack[t][n] EXCEPT !.err = 0] \/ f = [stack[t][n] EXCEPT !.err = e])
           /\ id \in 1 .. Len(call)
           /\ call' \in Seq(CallSet) /\ Len(call') = Len(call) /\ call'[id] = c
           /\ c.out = e /\ c.set = call[id].set /\ c.kind = call[id].kind
           /\ c.owner = call[id].owner /\ c.count = call[id].count /\ c.panic = call[id].panic
           /\ c.seen = call[id].seen \cup ({e} \ {0})
           /\ \A x \in 1 .. Len(call) : x # id => call'[x] = call[x]
  BY <1>1, <1>2, ReturnFacts
<1>4. PICK g : g = stack[t][n]
  OBVIOUS
<1>5. g \in FrameSet /\ FrameOK(g)
  BY <1>0, <1>3, <1>4 DEF Shape, Framed
<1>6. f \in FrameSet /\ Same(f, g) /\ f.pc = g.pc /\ f.pend = g.pend /\ f.todo = g.todo
  <2>1. Same(f, g) /\ f.pc = g.pc /\ f.pend = g.pend /\ f.todo = g.todo
    BY <1>3, <1>4, <1>5 DEF Same, FrameSet
  <2>2. f \in FrameSet
    BY <1>3, PutsAt DEF Stacks
  <2> QED BY <2>1, <2>2
<1>7. Top(t) = stack[t][Len(stack[t])] /\ Len(stack[t]) \in DOMAIN stack[t] /\ Len(stack[t]) \in Nat
      /\ FrameOK(Top(t)) /\ Top(t) \in FrameSet
  BY TopFacts
<1>8. g.pc \in UserPcs /\ g.pend = NoJob
  <2>1. Above(t, Top(t), g)
    BY <1>0, <1>1, <1>3, <1>4, <1>7 DEF Stacked
  <2> QED BY <2>1 DEF Above, CallKinds, JobKinds, StackJobs
<1>9. g.todo = {} /\ Top(t).todo = {}
  BY <1>5, <1>7, <1>8 DEF FrameOK, PendOK
<1>10. call[id].kind = Top(t).kind /\ call[id].out = None
  BY <1>0, <1>2, <1>7 DEF Called
<1>11. Gone(t, n, f, id, e)
  BY <1>1, <1>2, <1>3, <1>4, <1>6, <1>8, <1>9, <1>10 DEF Gone
<1> QED BY <1>11

LEMMA GoneHeld ==
  ASSUME Struct, Finite, NEW t \in Threads, NEW n, NEW g, NEW id, NEW e, Gone(t, n, g, id, e), UNCHANGED queues
  PROVE  Finite' /\ \A x : Sum(x, -Holds(Top(t), x)) /\ Holds(Top(t), x) \in Nat
<1>1. PICK b : b = stack[t][n]
  OBVIOUS
<1>2. /\ n = Len(stack[t]) - 1 /\ Len(stack[t]) > 1 /\ Stacks /\ Puts(t, n, g) /\ Top(t).pend = NoJob /\ Top(t).todo = {}
      /\ Same(g, b) /\ g.pc = b.pc /\ g.pend = NoJob /\ b.pend = NoJob /\ g.todo = {} /\ b.todo = {}
  BY <1>1 DEF Gone
<1>3. Token(g) <=> Token(b)
  BY <1>2 DEF Token, Same
<1>4. \A k : Marks(g, k) = Marks(b, k)
  BY <1>2, <1>3 DEF Marks, Same
<1> QED BY <1>1, <1>2, <1>4, QueueSame, PopHeld

LEMMA GoneCounted ==
  ASSUME Struct, Finite, Counted, NEW t \in Threads, NEW n, NEW g, NEW id, NEW e, Gone(t, n, g, id, e), UNCHANGED queues,
         Limits, UNCHANGED <<terminate_count, pool>>,
         \/ Top(t).kind = "join" /\ Top(t).pc = "inline"
         \/ Top(t).pc \in WaitPcs \cup {"loop"} /\ call[id].set
  PROVE  Finite' /\ Counted'
<1>1. Finite' /\ \A x : Sum(x, -Holds(Top(t), x)) /\ Holds(Top(t), x) \in Nat
  BY GoneHeld
<1>2. /\ stack[t] # <<>> /\ id = Top(t).id /\ id \in 1 .. Len(call) /\ Top(t).kind \in CallKinds /\ Shape
      /\ call[id].kind = Top(t).kind /\ call[id].out = None
      /\ Len(call') = Len(call) /\ (\A x \in 1 .. Len(call) : x # id => call'[x] = call[x])
      /\ call'[id].out = e /\ e \in Nat /\ call'[id].set = call[id].set /\ call'[id].kind = call[id].kind
      /\ call'[id].count = call[id].count
  BY DEF Gone, Struct
<1>3. \A x : x # id => Sum(x, 0)
  <2>1. \A x : x # id => Holds(Top(t), x) = 0
    BY <1>2 DEF Holds
  <2>2. \A x : x # id => -Holds(Top(t), x) = 0
    BY <2>1
  <2> QED BY <1>1, <2>2
<1>4. Entry(id) /\ Held(<<"held", id>>) \in Nat /\ Held(<<"owed", id>>) \in Nat /\ call[id].count \in Int /\ spawns \in Nat
  BY <1>2, HeldNat, CallFacts DEF Counted, Shape
<1>5. Held(<<"held", id>>)' = Held(<<"held", id>>) - Holds(Top(t), id) /\ Held(<<"owed", id>>)' = Held(<<"owed", id>>)
      /\ Holds(Top(t), id) \in Nat
  BY <1>1, <1>4 DEF Sum
<1>6. IF call'[id].kind = "scope" THEN call'[id].count + Held(<<"owed", id>>)' =< 1 + spawns'
                                  ELSE call'[id].count =< NumThreads
  <2>1. CASE call[id].kind = "scope"
    <3>1. call[id].count + Held(<<"owed", id>>) =< 1 + spawns
      BY <1>4, <2>1 DEF Entry
    <3>2. call[id].count + Held(<<"owed", id>>) =< 1 + spawns'
      BY <1>4, <3>1 DEF Limits
    <3> QED BY <1>2, <1>5, <2>1, <3>2
  <2>2. CASE call[id].kind # "scope"
    BY <1>2, <1>4, <2>2 DEF Entry
  <2> QED BY <2>1, <2>2
<1>7. Held(<<"held", id>>)' = Due(id)'
  <2>1. CASE Top(t).kind = "join" /\ Top(t).pc = "inline"
    <3>1. Token(Top(t)) /\ Holds(Top(t), id) = 1
      BY <1>2, <2>1 DEF Token, Holds
    <3>2. Top(t) = stack[t][Len(stack[t])] /\ Len(stack[t]) \in DOMAIN stack[t]
      BY <1>2, TopFacts
    <3>3. Held(<<"held", id>>) > 0
      BY <1>2, <3>1, <3>2, TokenHeld
    <3>4. Held(<<"held", id>>) = 1
      BY <1>2, <1>4, <2>1, <3>3 DEF Entry, Due, Counting
    <3>5. Due(id)' = 0
      BY <1>2, <2>1, ThreadFacts DEF Due, Counting
    <3> QED BY <1>5, <3>1, <3>4, <3>5
  <2>2. CASE Top(t).pc \in WaitPcs \cup {"loop"} /\ call[id].set
    <3>1. Holds(Top(t), id) = 0
      BY <1>2, <2>2 DEF Token, Holds, WaitPcs, CallKinds
    <3>2. Due(id)' = Due(id)
      BY <1>2, <2>2 DEF Due
    <3> QED BY <1>4, <1>5, <3>1, <3>2 DEF Entry
  <2> QED BY <2>1, <2>2
<1>8. Entry(id)'
  BY <1>2, <1>4, <1>6, <1>7 DEF Entry
<1>9. \A x \in 1 .. Len(call) : x # id => Alike(x) /\ Sum(x, 0)
  BY <1>2, <1>3 DEF Alike
<1>10. Sum(0, 0)
  BY <1>2, <1>3
<1> QED BY <1>1, <1>2, <1>8, <1>9, <1>10, CountedStep

-----------------------------------------------------------------------------
(* A new call.                                                               *)
LEMMA Fresh ==
  ASSUME Struct, NEW k, k = <<"held", Len(call) + 1>> \/ k = <<"owed", Len(call) + 1>>
  PROVE  Held(k) = 0
<1>0. Shape /\ Framed /\ Jobs /\ Len(call) \in Nat
  BY DEF Struct, Shape
<1>1. ASSUME NEW t \in Threads, NEW i \in DOMAIN stack[t] PROVE Marks(stack[t][i], k) = {}
  <2>1. PICK f : f = stack[t][i]
    OBVIOUS
  <2>2. f \in FrameSet /\ FrameOK(f) /\ (f.pend # NoJob => JobOK(f.pend))
    BY <1>0, <2>1 DEF Shape, Framed, Jobs
  <2>3. f.id # Len(call) + 1
    <3>1. f.id \in Nat /\ f.id =< Len(call)
      BY <2>2 DEF FrameSet, FrameOK
    <3> QED BY <1>0, <3>1
  <2>4. f.pend # NoJob => f.pend.id # Len(call) + 1
    BY <1>0, <2>2 DEF JobOK
  <2>5. f.pend = NoJob => f.todo = {}
    BY <2>2 DEF FrameOK, PendOK
  <2> QED BY <2>1, <2>3, <2>4, <2>5 DEF Marks
<1>2. InFrames(k) = {}
  BY <1>1 DEF InFrames
<1>3. InQueues(k) = {}
  <2>1. ASSUME NEW q \in Names, NEW i \in DOMAIN Queue[q] PROVE Queue[q][i].id # Len(call) + 1
    <3>1. JobOK(Queue[q][i])
      BY <1>0 DEF Jobs
    <3> QED BY <1>0, <3>1 DEF JobOK
  <2>2. \A x : x \notin InQueues(k)
    BY <2>1, InQueuesAt
  <2> QED BY <2>2
<1> QED BY <1>2, <1>3, FS_EmptySet DEF Held

LEMMA BeginsCounted ==
  ASSUME Struct, Finite, Counted, NEW t \in Threads, NEW kind, NEW f, Begins(t, kind, f), Len(call) < MaxCalls,
         UNCHANGED <<lifecycle, foreign, spawns, panics>>,
         \A x : Sum(x, IF x = NextId THEN (IF kind = "broadcast" THEN NumThreads ELSE 1) ELSE 0)
  PROVE  Counted'
<1>1. /\ Len(call') = Len(call) + 1 /\ (\A x \in 1 .. Len(call) : call'[x] = call[x])
      /\ call'[Len(call) + 1] = NewCall(t, kind) /\ NextId = Len(call) + 1
  BY BeginsFacts
<1>2. Limits /\ UNCHANGED <<terminate_count, pool>> /\ Shape /\ Len(call) \in Nat /\ spawns \in Nat /\ MaxCalls \in Nat
      /\ NumThreads \in Nat \ {0} /\ spawns' = spawns
  BY LimitsSame, ForkJoinAssumption DEF Struct, Shape, lifecycle
<1>3. PICK id : id = NextId
  OBVIOUS
<1>4. PICK c : c = NewCall(t, kind)
  OBVIOUS
<1>5. /\ call'[id] = c /\ c.kind = kind /\ ~c.set /\ c.out = None /\ kind \in CallKinds
      /\ c.count = IF kind = "broadcast" THEN NumThreads ELSE 1
  BY <1>1, <1>3, <1>4, NewCallFacts DEF Begins
<1>6. Held(<<"held", id>>) = 0 /\ Held(<<"owed", id>>) = 0
  BY <1>1, <1>3, Fresh
<1>7. Held(<<"held", id>>)' = c.count /\ Held(<<"owed", id>>)' = 0
  <2>1. Sum(id, c.count)
    BY <1>3, <1>5
  <2> QED BY <1>2, <1>5, <1>6, <2>1 DEF Sum
<1>8. Held(<<"held", id>>)' = Due(id)'
  BY <1>5, <1>7 DEF Due, Counting
<1>9. Entry(id)'
  <2>1. IF call'[id].kind = "scope" THEN call'[id].count + Held(<<"owed", id>>)' =< 1 + spawns'
                                    ELSE call'[id].count =< NumThreads
    BY <1>2, <1>5, <1>7
  <2> QED BY <1>5, <1>8, <2>1 DEF Entry, Counting
<1>10. ASSUME NEW x \in 1 .. Len(call) PROVE Entry(x)'
  <2>1. x # id
    BY <1>1, <1>2, <1>3
  <2> QED BY <1>1, <1>2, <1>3, <2>1, EntryKeeps DEF Alike
<1>11. PoolEntry'
  <2>1. 0 # id
    BY <1>1, <1>2, <1>3
  <2> QED BY <1>2, <1>3, <2>1, PoolKeeps DEF Handle
<1>12. \A x \in 1 .. Len(call') : Entry(x)'
  <2>1. \A x \in 1 .. Len(call') : x = id \/ x \in 1 .. Len(call)
    BY <1>1, <1>2, <1>3
  <2> QED BY <1>9, <1>10, <2>1
<1>13. Len(call') =< MaxCalls
  BY <1>1, <1>2
<1> QED BY <1>2, <1>11, <1>12, <1>13 DEF Counted, Limits

\* t makes a call, and pushes its job if it has one at once.
Makes(t, kind, f, q, j) ==
  /\ Begins(t, kind, f) /\ Len(call) < MaxCalls /\ f.err = 0 /\ f.pc \in {"a", "op", "wait"} /\ KindPc(f)
  /\ kind = "scope" => f.pc = "op"
  /\ kind \in {"join", "install"} =>
       /\ QPush(q, j) /\ j \in JobSet /\ j.id = NextId /\ Of(j.kind) = kind /\ j.kind \in {"join_b", "install_op"}
       /\ q[1] # "bcast"
  /\ kind \notin {"join", "install"} => QSame
  /\ kind # "broadcast" => f.pend = NoJob /\ f.todo = {}
  /\ kind = "broadcast" => /\ f.pend \in JobSet /\ f.pend # NoJob /\ f.pend.kind = "broadcast_op" /\ f.pend.id = NextId
                           /\ f.todo = Workers
  /\ t \in Foreign => kind \in CrossCalls
  /\ t \in Clients => pool = "open"
  /\ UNCHANGED <<broadcasts, lifecycle, foreign, spawns, panics>>

LEMMA JoinMakes ==
  ASSUME Struct, NEW t \in Threads, Join(t) PROVE \E f, q, j : Makes(t, "join", f, q, j)
<1>1. PICK f : f = Frame("join", NextId, Top(t).env, "a")
  OBVIOUS
<1>2. PICK j : j = Job("join_b", NextId, Top(t).env)
  OBVIOUS
<1>3. Begins(t, "join", f) /\ QPush(<<"deque", t>>, j) /\ j \in JobSet
      /\ f.kind = "join" /\ f.id = NextId /\ f.pc = "a" /\ f.err = 0 /\ f.pend = NoJob /\ f.todo = {}
  BY <1>1, <1>2, JoinForm
<1>4. j.id = NextId /\ j.kind = "join_b" /\ Of(j.kind) = "join"
  BY <1>2 DEF Job, Of
<1>5. t \notin Clients /\ t \notin Foreign /\ UNCHANGED <<broadcasts, lifecycle, foreign, spawns, panics>> /\ Len(call) < MaxCalls
  BY ThreadFacts DEF Join
<1>6. PICK q : q = <<"deque", t>>
  OBVIOUS
<1>7. q[1] # "bcast" /\ KindPc(f)
  BY <1>3, <1>6 DEF KindPc
<1>8. Makes(t, "join", f, q, j)
  BY <1>3, <1>4, <1>5, <1>6, <1>7 DEF Makes
<1> QED BY <1>8

LEMMA InstallMakes ==
  ASSUME Struct, NEW t \in Threads, Install(t) PROVE \E f, q, j : Makes(t, "install", f, q, j)
<1>1. PICK f : f = Frame("install", NextId, {}, "wait")
  OBVIOUS
<1>2. PICK j : j = Job("install_op", NextId, Top(t).env)
  OBVIOUS
<1>3. Begins(t, "install", f) /\ QPush(<<"injected", 0>>, j) /\ j \in JobSet
      /\ f.kind = "install" /\ f.id = NextId /\ f.pc = "wait" /\ f.err = 0 /\ f.pend = NoJob /\ f.todo = {}
  BY <1>1, <1>2, InstallForm
<1>4. j.id = NextId /\ j.kind = "install_op" /\ Of(j.kind) = "install"
  BY <1>2 DEF Job, Of
<1>5. /\ (t \in Clients => pool = "open") /\ (t \in Foreign => "install" \in CrossCalls)
      /\ UNCHANGED <<broadcasts, lifecycle, foreign, spawns, panics>> /\ Len(call) < MaxCalls
  BY DEF Install, OpenTo
<1>6. PICK q : q = <<"injected", 0>>
  OBVIOUS
<1>7. q[1] # "bcast" /\ KindPc(f)
  BY <1>3, <1>6 DEF KindPc
<1>8. Makes(t, "install", f, q, j)
  BY <1>3, <1>4, <1>5, <1>6, <1>7 DEF Makes
<1> QED BY <1>8

LEMMA ScopeMakes ==
  ASSUME Struct, NEW t \in Threads, Scope(t) PROVE \E f, q, j : Makes(t, "scope", f, q, j)
<1>1. PICK f : f = Frame("scope", NextId, Top(t).env \cup {NextId}, "op")
  OBVIOUS
<1>3. Begins(t, "scope", f) /\ QSame
      /\ f.kind = "scope" /\ f.id = NextId /\ f.pc = "op" /\ f.err = 0 /\ f.pend = NoJob /\ f.todo = {}
  BY <1>1, ScopeForm
<1>5. /\ (t \in Clients => pool = "open") /\ (t \in Foreign => "scope" \in CrossCalls)
      /\ UNCHANGED <<broadcasts, lifecycle, foreign, spawns, panics>> /\ Len(call) < MaxCalls
  BY DEF Scope, OpenTo, queues
<1>7. KindPc(f)
  BY <1>3 DEF KindPc
<1>8. \A q, j : Makes(t, "scope", f, q, j)
  BY <1>3, <1>5, <1>7 DEF Makes
<1> QED BY <1>8

LEMMA BroadcastMakes ==
  ASSUME Struct, NEW t \in Threads, Broadcast(t) PROVE \E f, q, j : Makes(t, "broadcast", f, q, j)
<1>1. PICK p : p = Job("broadcast_op", NextId, Top(t).env)
  OBVIOUS
<1>2. PICK f : f = BroadcastFrame(p)
  OBVIOUS
<1>3. Begins(t, "broadcast", f) /\ QSame /\ p \in JobSet
      /\ f.kind = "broadcast" /\ f.id = NextId /\ f.pc = "wait" /\ f.err = 0 /\ f.pend = p /\ f.todo = Workers
  BY <1>1, <1>2, BroadcastForm
<1>4. p.id = NextId /\ p.kind = "broadcast_op" /\ p # NoJob
  BY <1>1, <1>3, JobNotNone DEF Job
<1>5. /\ (t \in Clients => pool = "open") /\ (t \in Foreign => "broadcast" \in CrossCalls)
      /\ UNCHANGED <<broadcasts, lifecycle, foreign, spawns, panics>> /\ Len(call) < MaxCalls
  BY DEF Broadcast, OpenTo, queues
<1>7. KindPc(f)
  BY <1>3 DEF KindPc
<1>8. \A q, j : Makes(t, "broadcast", f, q, j)
  BY <1>3, <1>4, <1>5, <1>7 DEF Makes
<1> QED BY <1>8

LEMMA MakesCounted ==
  ASSUME Struct, Finite, Counted, NEW t \in Threads, NEW kind, NEW f, NEW q, NEW j, Makes(t, kind, f, q, j)
  PROVE  Finite' /\ Counted'
<1>1. /\ Begins(t, kind, f) /\ Len(call) < MaxCalls /\ kind \in CallKinds /\ f \in FrameSet /\ f.kind = kind /\ f.id = NextId
      /\ UNCHANGED <<lifecycle, foreign, spawns, panics>> /\ KindPc(f) /\ f.pc \in {"a", "op", "wait"} /\ Shape
  BY DEF Makes, Begins, Struct
<1>2. Stacks /\ Puts(t, Len(stack[t]) + 1, f)
  BY <1>1, BeginsFacts
<1>3. Holds(f, NextId) = (IF kind = "scope" THEN 1 ELSE 0) /\ \A x : x # NextId => Holds(f, x) = 0
  <2>1. Token(f) <=> kind = "scope"
    BY <1>1 DEF Token, CallKinds, Makes
  <2> QED BY <1>1, <2>1 DEF Holds
<1>4. ASSUME kind \in {"join", "install"} PROVE Finite' /\ \A x : Sum(x, IF x = NextId THEN 1 ELSE 0)
  <2>1. Finite' /\ \A x : Sum(x, Holds(f, x) + (IF j.id = x THEN 1 ELSE 0)) /\ Holds(f, x) \in Nat
    BY <1>1, <1>2, <1>4, PushPushHeld DEF Makes
  <2>2. \A x : Holds(f, x) = 0
    BY <1>3, <1>4
  <2>3. j.id = NextId
    BY <1>4 DEF Makes
  <2>4. \A x : Holds(f, x) + (IF j.id = x THEN 1 ELSE 0) = IF x = NextId THEN 1 ELSE 0
    BY <2>2, <2>3
  <2> QED BY <2>1, <2>4
<1>5. ASSUME kind = "scope" PROVE Finite' /\ \A x : Sum(x, IF x = NextId THEN 1 ELSE 0)
  <2>1. Finite' /\ \A x : Sum(x, Holds(f, x)) /\ Holds(f, x) \in Nat
    BY <1>1, <1>2, <1>5, PushHeld DEF Makes
  <2>2. \A x : Holds(f, x) = IF x = NextId THEN 1 ELSE 0
    BY <1>3, <1>5
  <2> QED BY <2>1, <2>2
<1>6. ASSUME kind = "broadcast" PROVE Finite' /\ \A x : Sum(x, IF x = NextId THEN NumThreads ELSE 0)
  <2>1. f.pend # NoJob /\ f.pend.kind = "broadcast_op" /\ f.pend.id = NextId /\ f.todo = Workers /\ QSame
    BY <1>6 DEF Makes
  <2>2. f.todo # {} /\ Cardinality(f.todo) = NumThreads /\ NumThreads \in Nat
    BY <2>1, ThreadFacts
  <2>3. \A x : Holds(f, x) = 0
    BY <1>3, <1>6
  <2>4. \A x : /\ Weight(f, <<"held", x>>) = Holds(f, x) + (IF f.pend.id = x THEN Cardinality(f.todo) ELSE 0)
               /\ Weight(f, <<"owed", x>>) = 0
    BY <1>1, <2>1, <2>2, TodoWeight
  <2>5. ASSUME NEW x PROVE Weight(f, <<"held", x>>) = IF x = NextId THEN NumThreads ELSE 0
    <3>1. Weight(f, <<"held", x>>) = 0 + (IF NextId = x THEN NumThreads ELSE 0)
      BY <2>1, <2>2, <2>3, <2>4
    <3> QED BY <2>2, <3>1
  <2>6. \A k : IsFiniteSet(InFrames(k)') /\ Held(k)' = Held(k) + Weight(f, k) + 0 /\ Held(k) \in Nat /\ Weight(f, k) \in Nat
    BY <1>1, <1>2, <2>1, QDeltaSame, HeldPush
  <2>7. \A k : Held(k)' = Held(k) + Weight(f, k) /\ Held(k) \in Nat
    BY <2>6
  <2>8. ASSUME NEW x PROVE Sum(x, IF x = NextId THEN NumThreads ELSE 0)
    <3>1. Held(<<"held", x>>)' = Held(<<"held", x>>) + Weight(f, <<"held", x>>)
          /\ Held(<<"owed", x>>)' = Held(<<"owed", x>>) + Weight(f, <<"owed", x>>) /\ Held(<<"owed", x>>) \in Nat
      BY <2>7
    <3>2. Held(<<"owed", x>>)' = Held(<<"owed", x>>)
      BY <2>4, <3>1
    <3> QED BY <2>5, <3>1, <3>2 DEF Sum
  <2> QED BY <2>6, <2>8 DEF Finite
<1>7. Finite' /\ \A x : Sum(x, IF x = NextId THEN (IF kind = "broadcast" THEN NumThreads ELSE 1) ELSE 0)
  BY <1>1, <1>4, <1>5, <1>6 DEF CallKinds
<1> QED BY <1>1, <1>7, BeginsCounted

LEMMA InitCounted ==
  ASSUME Init
  PROVE  Finite /\ Counted /\ Cored
<1>0. Shape /\ Len(call) = 0 /\ call = <<>> /\ spawns = 0 /\ panics = 0 /\ terminate_count = 1 /\ pool = "building"
  BY InitStruct DEF Struct, Init
<1>1. ASSUME NEW t \in Threads, NEW i \in DOMAIN stack[t]
      PROVE  stack[t][i] = Frame("client", 0, {}, "run")
  <2>1. stack[t] = <<>> \/ stack[t] = <<Frame("client", 0, {}, "run")>>
    BY DEF Init
  <2> QED BY <2>1
<1>2. PICK f : f = Frame("client", 0, {}, "run")
  OBVIOUS
<1>3. f.kind = "client" /\ f.pc = "run" /\ f.pend = NoJob /\ f.todo = {}
  BY <1>2 DEF Frame
<1>4. \A k : Marks(f, k) = {}
  BY <1>3 DEF Marks, Token
<1>5. \A k : InFrames(k) = {}
  BY <1>1, <1>2, <1>4 DEF InFrames
<1>6. \A q \in Names : DOMAIN Queue[q] = {}
  <2>1. ASSUME NEW q \in Names PROVE Queue[q] = <<>>
    <3>1. \/ \E w \in Workers : q = <<"deque", w>>
          \/ \E w \in Workers : q = <<"bcast", w>>
          \/ q = <<"injected", 0>>
      BY QueueAt
    <3> QED BY <3>1, QueueAt DEF Init
  <2> QED BY <2>1
<1>7. \A k : InQueues(k) = {}
  BY <1>6 DEF InQueues, At
<1>8. \A k : Held(k) = 0
  BY <1>5, <1>7, FS_EmptySet DEF Held
<1>9. Finite
  BY <1>5, FS_EmptySet DEF Finite
<1>10. PoolEntry
  BY <1>0, <1>8 DEF PoolEntry, Handle
<1>11. Counted
  <2>1. \A id \in 1 .. Len(call) : Entry(id)
    BY <1>0
  <2> QED BY <1>0, <1>10, <2>1, ForkJoinAssumption DEF Counted
<1>12. Cored
  BY <1>1, <1>2, <1>3 DEF Cored
<1> QED BY <1>9, <1>11, <1>12
=============================================================================
