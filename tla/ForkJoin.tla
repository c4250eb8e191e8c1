------------------------------ MODULE ForkJoin ------------------------------
(***************************************************************************)
(* rayon-core's calls that lend a stack frame to other threads: join,      *)
(* scope, in_place_scope, install and broadcast, with spawn,               *)
(* spawn_broadcast and the reference count that keeps the pool's threads   *)
(* running for them. A thread is its stack of frames; a job is a pointer   *)
(* into a frame (a StackJob, or a HeapJob or ArcJob of a scope) or owns    *)
(* all it uses (spawn). User code may panic anywhere.                      *)
(*                                                                         *)
(* How a waiting worker sleeps and is woken is module Sleep's: here it     *)
(* looks for work until its latch is set. What matters is who touches a    *)
(* latch, a job or a registry, and whether it is still there.              *)
(***************************************************************************)
EXTENDS Naturals, Sequences, SequencesExt, FiniteSets, FiniteSetsExt

CONSTANTS NumThreads,   \* worker threads of the pool
          Main,         \* the thread that builds the pool and drops it
          Foreign,      \* worker threads of other pools, each the last one of its own
          CrossCalls,   \* what a Foreign thread calls: "install", "scope", "broadcast"
          MaxCalls,     \* calls that wait for jobs (a bound)
          MaxSpawns,    \* jobs spawned, in a scope or out of one (a bound)
          MaxPanics,    \* (a bound)
          MaxEvents,    \* calls, spawned jobs and panics together (a bound)
          None

ASSUME ForkJoinAssumption ==
  /\ NumThreads \in Nat \ {0} /\ MaxCalls \in Nat /\ MaxSpawns \in Nat
  /\ MaxPanics \in Nat /\ MaxEvents \in Nat
  /\ CrossCalls \subseteq {"install", "scope", "broadcast"}
  /\ Main \notin Foreign /\ None \notin Nat
  /\ (Foreign \cup {Main}) \cap (1 .. NumThreads) = {}

Workers == 1 .. NumThreads
Clients == Foreign \cup {Main}
Threads == Workers \cup Clients

VARIABLES
  stack,            \* the frames of each thread
  deque,            \* WorkerThread::worker, its back at the end
  broadcasts,       \* Registry::broadcasts: the jobs only that worker runs
  injected_jobs,    \* Registry::injected_jobs
  call,             \* the latch, the results and the panic of each call made so far
  terminate_count,  \* Registry::terminate_count
  terminate,        \* ThreadInfo::terminate: the latch of each worker
  started, stopped, \* the workers that run main_loop, and those that have left it
  pool,             \* "building", "open", "failed" or "dropped"
  clones,           \* the threads that hold an Arc of each Foreign thread's registry
  left,             \* the Foreign threads that have ended
  spawns, panics    \* counted for the bounds; a panic's number is its payload

vars == <<stack, deque, broadcasts, injected_jobs, call, terminate_count, terminate, started, stopped, pool,
          clones, left, spawns, panics>>
queues == <<deque, broadcasts, injected_jobs>>
lifecycle == <<terminate_count, terminate, started, stopped, pool>>
foreign == <<clones, left>>

-----------------------------------------------------------------------------
(* Jobs and frames. A frame's env is the set of scopes its user code can     *)
(* name; err is what it unwinds with; pend is a job it has still to push, on *)
(* the broadcast queues of the workers in todo if there are any.             *)
Job(kind, id, env) == [kind |-> kind, id |-> id, env |-> env]
NoJob == Job("none", 0, {})
Frame(kind, id, env, pc) ==
  [kind |-> kind, id |-> id, env |-> env, pc |-> pc, err |-> 0, pend |-> NoJob, todo |-> {}]

StackJobs == {"join_b", "install_op", "broadcast_op"}
JobKinds == StackJobs \cup {"scope_job", "spawned"}
CallKinds == {"join", "scope", "install", "broadcast"}
UserPcs == {"run", "op", "a", "inline"}
WaitPcs == {"wait", "recover", "wait_b"}

(* A call has one result, a broadcast one per worker; seen and out, the      *)
(* panics of its closures and what it ended with, are auxiliary.             *)
NewCall(t, kind) ==
  [owner |-> t, kind |-> kind, set |-> FALSE,
   count |-> IF kind = "broadcast" THEN NumThreads ELSE 1,
   result |-> [w \in (IF kind = "broadcast" THEN Workers ELSE {0}) |-> None],
   panic |-> 0, seen |-> {}, out |-> None]
NextId == Len(call) + 1
Within(n) == Len(call) + spawns + panics + n =< MaxEvents

Top(t) == Last(stack[t])
(* Where t puts the result of its StackJob; into_result, for a broadcast in  *)
(* the order of the workers.                                                 *)
Slot(t) == IF Top(t).kind = "broadcast_op" THEN t ELSE 0
Result(id) ==
  LET res == call[id].result
      bad == {w \in DOMAIN res : res[w] # 0}
  IN  IF bad = {} THEN 0 ELSE res[Min(bad)]

SetTop(t, f) == [stack EXCEPT ![t][Len(stack[t])] = f]
PushFrame(t, f) == [stack EXCEPT ![t] = Append(@, f)]
PopFrame(t) == [stack EXCEPT ![t] = Front(@)]
(* A job's frame goes when it is done; a scope's own closure is one of the   *)
(* jobs it counts, and its frame then waits for the others.                  *)
After(t) == IF Top(t).kind = "scope"
              THEN SetTop(t, [Top(t) EXCEPT !.pc = "wait", !.err = 0])
              ELSE PopFrame(t)
(* A call ends with e: 0, or the payload its caller goes on unwinding with,  *)
(* which clients catch. Its results go with its frame.                       *)
Return(t, e) ==
  LET rest == Front(stack[t])
      caller == Last(rest)
  IN  /\ stack' = [stack EXCEPT ![t] =
           [rest EXCEPT ![Len(rest)].err = IF caller.kind = "client" THEN 0 ELSE e]]
      /\ call' = [call EXCEPT ![Top(t).id].out = e,
                              ![Top(t).id].result = <<>>,
                              ![Top(t).id].seen = @ \cup ({e} \ {0})]

InUser(t) == stack[t] # <<>> /\ Top(t).pc \in UserPcs /\ Top(t).pend = NoJob
Runs(t) == InUser(t) /\ Top(t).err = 0
OpenTo(t) == Runs(t) /\ (t \in Clients => pool = "open" /\ t \notin left)

Blocking(id) == call[id].owner = Main       \* LockLatch, CountLockLatch
Latched(t) == IF Top(t).kind = "main" THEN terminate[t] ELSE call[Top(t).id].set

Init ==
  /\ stack = [t \in Threads |-> IF t \in Workers THEN <<>> ELSE <<Frame("client", 0, {}, "run")>>]
  /\ deque = [w \in Workers |-> <<>>] /\ broadcasts = [w \in Workers |-> <<>>]
  /\ injected_jobs = <<>>
  /\ call = <<>>
  /\ terminate_count = 1 /\ terminate = [w \in Workers |-> FALSE]
  /\ started = {} /\ stopped = {} /\ pool = "building"
  /\ clones = [x \in Foreign |-> {}] /\ left = {}
  /\ spawns = 0 /\ panics = 0

-----------------------------------------------------------------------------
(* Registry::new: the threads are spawned one by one; when one cannot be,    *)
(* the Terminator is dropped, which terminates the ones that run.            *)
SpawnThread ==
  LET w == Cardinality(started) + 1 IN
  /\ pool = "building"
  /\ started' = started \cup {w}
  /\ stack' = PushFrame(w, Frame("main", 0, {}, "wait"))
  /\ pool' = IF w = NumThreads THEN "open" ELSE pool
  /\ UNCHANGED <<queues, call, terminate_count, terminate, stopped, foreign, spawns, panics>>

SpawnThreadFails ==
  /\ pool = "building"
  /\ pool' = "failed"
  /\ stack' = PushFrame(Main, Frame("terminator", 0, {}, "terminate"))
  /\ UNCHANGED <<queues, call, terminate_count, terminate, started, stopped, foreign, spawns, panics>>

(* ThreadPool's drop: nobody borrows the pool any more.                      *)
DropPool ==
  /\ pool = "open"
  /\ \A c \in Clients : Len(stack[c]) = 1 /\ Runs(c)
  /\ pool' = "dropped"
  /\ stack' = PushFrame(Main, Frame("terminator", 0, {}, "terminate"))
  /\ UNCHANGED <<queues, call, terminate_count, terminate, started, stopped, foreign, spawns, panics>>

-----------------------------------------------------------------------------
(* What user code calls.                                                     *)

(* join_context, up to oper_a: job_b is pushed on the worker's deque.        *)
Join(t) ==
  /\ t \in Workers /\ Runs(t)
  /\ Len(call) < MaxCalls /\ Within(1)
  /\ call' = Append(call, NewCall(t, "join"))
  /\ deque' = [deque EXCEPT ![t] = Append(@, Job("join_b", NextId, Top(t).env))]
  /\ stack' = PushFrame(t, Frame("join", NextId, Top(t).env, "a"))
  /\ UNCHANGED <<broadcasts, injected_jobs, lifecycle, foreign, spawns, panics>>

(* scope on a worker; in_place_scope of the pool elsewhere.                  *)
Scope(t) ==
  /\ OpenTo(t)
  /\ t \in Foreign => "scope" \in CrossCalls
  /\ Len(call) < MaxCalls /\ Within(1)
  /\ call' = Append(call, NewCall(t, "scope"))
  /\ stack' = PushFrame(t, Frame("scope", NextId, Top(t).env \cup {NextId}, "op"))
  /\ UNCHANGED <<queues, lifecycle, foreign, spawns, panics>>

(* ThreadPool::install from outside: in_worker_cold and in_worker_cross.     *)
Install(t) ==
  /\ t \in Clients /\ OpenTo(t)
  /\ t \in Foreign => "install" \in CrossCalls
  /\ Len(call) < MaxCalls /\ Within(1)
  /\ call' = Append(call, NewCall(t, "install"))
  /\ injected_jobs' = Append(injected_jobs, Job("install_op", NextId, Top(t).env))
  /\ stack' = PushFrame(t, Frame("install", NextId, {}, "wait"))
  /\ UNCHANGED <<deque, broadcasts, lifecycle, foreign, spawns, panics>>

(* broadcast_in: the latch counts the workers from the start.                *)
Broadcast(t) ==
  /\ OpenTo(t)
  /\ t \in Foreign => "broadcast" \in CrossCalls
  /\ Len(call) < MaxCalls /\ Within(1)
  /\ call' = Append(call, NewCall(t, "broadcast"))
  /\ stack' = PushFrame(t, [Frame("broadcast", NextId, {}, "wait") EXCEPT
                 !.pend = Job("broadcast_op", NextId, Top(t).env), !.todo = Workers])
  /\ UNCHANGED <<queues, lifecycle, foreign, spawns, panics>>

(* Mutants: a spawn that does not count its job.                             *)
ScopeSpawnUncounted(t) ==
  \E s \in Top(t).env :
    /\ spawns < MaxSpawns /\ Within(1)
    /\ spawns' = spawns + 1
    /\ stack' = SetTop(t, [Top(t) EXCEPT !.pend = Job("scope_job", s, {o \in Top(t).env : o =< s})])
    /\ UNCHANGED <<queues, call, lifecycle, foreign, panics>>
SpawnUncounted(t) ==
  /\ spawns < MaxSpawns /\ Within(1)
  /\ spawns' = spawns + 1
  /\ stack' = SetTop(t, [Top(t) EXCEPT !.pend = Job("spawned", 0, {})])
  /\ UNCHANGED <<queues, call, lifecycle, foreign, panics>>

(* Scope::spawn counts the job, then pushes it. What its body borrows lives  *)
(* as long as 'scope: of the scopes in view, s and those around it.          *)
ScopeSpawn(t) ==
  \E s \in Top(t).env :
    /\ spawns < MaxSpawns /\ Within(1)
    /\ spawns' = spawns + 1
    /\ call' = [call EXCEPT ![s].count = @ + 1]
    /\ stack' = SetTop(t, [Top(t) EXCEPT !.pend = Job("scope_job", s, {o \in Top(t).env : o =< s})])
    /\ UNCHANGED <<queues, lifecycle, foreign, panics>>

(* spawn_in: spawn_job takes a reference on the pool, then the job is pushed.*)
Spawn(t) ==
  /\ spawns < MaxSpawns /\ Within(1)
  /\ spawns' = spawns + 1
  /\ terminate_count' = terminate_count + 1
  /\ stack' = SetTop(t, [Top(t) EXCEPT !.pend = Job("spawned", 0, {})])
  /\ UNCHANGED <<queues, call, terminate, started, stopped, pool, foreign, panics>>

(* spawn_broadcast_in and Scope::spawn_broadcast.                            *)
SpawnBroadcast(t) ==
  \E job \in {Job("spawned", 0, {})} \cup
             {Job("scope_job", s, {o \in Top(t).env : o =< s}) : s \in Top(t).env} :
    /\ spawns + NumThreads =< MaxSpawns /\ Within(NumThreads)
    /\ spawns' = spawns + NumThreads
    /\ stack' = SetTop(t, [Top(t) EXCEPT !.pend = job, !.todo = Workers])
    /\ UNCHANGED <<queues, call, lifecycle, foreign, panics>>

(* inject_broadcast: its iterator counts each job as it comes to push it,    *)
(* while the workers may already run the ones before.                        *)
PushBroadcast(t) ==
  LET f == Top(t)
      w == Min(f.todo)
      last == f.todo = {w}
  IN  /\ stack[t] # <<>> /\ f.todo # {}
      /\ broadcasts' = [broadcasts EXCEPT ![w] = Append(@, f.pend)]
      /\ stack' = SetTop(t, [f EXCEPT !.todo = @ \ {w}, !.pend = IF last THEN NoJob ELSE @])
      /\ terminate_count' = terminate_count + IF f.pend.kind = "spawned" THEN 1 ELSE 0
      /\ call' = IF f.pend.kind = "scope_job" THEN [call EXCEPT ![f.pend.id].count = @ + 1] ELSE call
      /\ UNCHANGED <<deque, injected_jobs, terminate, started, stopped, pool, foreign, spawns, panics>>

(* inject_or_push.                                                           *)
Push(t) ==
  /\ stack[t] # <<>> /\ Top(t).pend # NoJob /\ Top(t).todo = {}
  /\ stack' = SetTop(t, [Top(t) EXCEPT !.pend = NoJob])
  /\ IF t \in Workers
       THEN deque' = [deque EXCEPT ![t] = Append(@, Top(t).pend)] /\ UNCHANGED injected_jobs
       ELSE injected_jobs' = Append(injected_jobs, Top(t).pend) /\ UNCHANGED deque
  /\ UNCHANGED <<broadcasts, call, lifecycle, foreign, spawns, panics>>

-----------------------------------------------------------------------------
(* How user code ends: with 0, or by unwinding with a payload e.             *)

(* StackJob::execute stores the JobResult and goes on to set the latch.      *)
StackJobEnds(t, e) ==
  /\ Top(t).kind \in StackJobs
  /\ call' = [call EXCEPT ![Top(t).id].result[Slot(t)] = e,
                          ![Top(t).id].seen = @ \cup ({e} \ {0})]
  /\ stack' = SetTop(t, [Top(t) EXCEPT !.pc = "set", !.err = 0])

(* Mutant: a panic only releases the latch.                                  *)
ScopeClosureForgets(t, e) ==
  /\ Top(t).kind \in {"scope", "scope_job"}
  /\ call' = [call EXCEPT ![Top(t).id].seen = @ \cup ({e} \ {0})]
  /\ stack' = SetTop(t, [Top(t) EXCEPT !.pc = "set", !.err = 0])

(* ScopeBase::execute_job_closure: job_panicked first, then the latch.       *)
ScopeClosureEnds(t, e) ==
  /\ Top(t).kind \in {"scope", "scope_job"}
  /\ call' = [call EXCEPT ![Top(t).id].seen = @ \cup ({e} \ {0})]
  /\ stack' = SetTop(t, [Top(t) EXCEPT !.pc = IF e = 0 THEN "set" ELSE "panicked", !.err = e])

(* Mutant: a panic keeps the job's reference on the pool.                    *)
SpawnedLeaks(t, e) ==
  /\ Top(t).kind = "spawned"
  /\ stack' = IF e = 0 THEN SetTop(t, [Top(t) EXCEPT !.pc = "terminate"]) ELSE PopFrame(t)
  /\ UNCHANGED call

(* spawn_job: catch_unwind hands a panic to the panic handler.               *)
SpawnedEnds(t, e) ==
  /\ Top(t).kind = "spawned"
  /\ stack' = SetTop(t, [Top(t) EXCEPT !.pc = "terminate", !.err = 0])
  /\ UNCHANGED call

(* Mutant: a panic of oper_a leaves job_b behind.                            *)
OperAUnwinds(t, e) ==
  /\ Top(t).pc = "a"
  /\ \/ e = 0 /\ stack' = SetTop(t, [Top(t) EXCEPT !.pc = "loop"]) /\ UNCHANGED call
     \/ e # 0 /\ Return(t, e)

(* join_context after oper_a: its panic waits for job_b too. The record of   *)
(* it in the call is auxiliary.                                              *)
OperAEnds(t, e) ==
  /\ Top(t).pc = "a"
  /\ stack' = SetTop(t, [Top(t) EXCEPT !.pc = IF e = 0 THEN "loop" ELSE "recover", !.err = e])
  /\ call' = [call EXCEPT ![Top(t).id].seen = @ \cup ({e} \ {0}), ![Top(t).id].panic = e]

(* run_inline: job_b ran on the joining worker, and unwinds through join.    *)
InlineEnds(t, e) == Top(t).pc = "inline" /\ Return(t, e)

UserEnds(t, e) ==
  \/ StackJobEnds(t, e)
  \/ ScopeClosureEnds(t, e)
  \/ SpawnedEnds(t, e)
  \/ OperAEnds(t, e)
  \/ InlineEnds(t, e)

Finish(t) == UserEnds(t, Top(t).err) /\ UNCHANGED <<queues, lifecycle, foreign, spawns, panics>>
Panic(t) ==
  /\ Top(t).err = 0 /\ panics < MaxPanics /\ Within(1)
  /\ panics' = panics + 1
  /\ UserEnds(t, panics')
  /\ UNCHANGED <<queues, lifecycle, foreign, spawns>>

UserCalls(t) ==
  \/ Join(t) \/ Scope(t) \/ Install(t) \/ Broadcast(t)
  \/ ScopeSpawn(t) \/ Spawn(t) \/ SpawnBroadcast(t)
User(t) ==
  \/ Runs(t) /\ Top(t).kind # "client" /\ UserCalls(t)
  \/ InUser(t) /\ (Finish(t) \/ Panic(t))
  \/ Push(t) \/ PushBroadcast(t)
(* What a client's own code does is not rayon's: it calls when it likes.     *)
ClientCalls(t) == OpenTo(t) /\ Top(t).kind = "client" /\ UserCalls(t)

-----------------------------------------------------------------------------
(* Ends of jobs.                                                             *)

(* ScopeBase::job_panicked keeps the first payload.                          *)
JobPanicked(t) ==
  /\ stack[t] # <<>> /\ Top(t).pc = "panicked"
  /\ call' = [call EXCEPT ![Top(t).id].panic = IF @ = 0 THEN Top(t).err ELSE @]
  /\ stack' = SetTop(t, [Top(t) EXCEPT !.pc = "set", !.err = 0])
  /\ UNCHANGED <<queues, lifecycle, foreign, spawns, panics>>

(* Mutant: the registry is not cloned.                                       *)
StackJobSetBare(t) ==
  LET id == Top(t).id IN
  /\ Top(t).kind \in StackJobs \ {"broadcast_op"}
  /\ IF Blocking(id)
       THEN /\ call' = [call EXCEPT ![id].set = TRUE]
            /\ stack' = After(t)
       ELSE stack' = SetTop(t, [Top(t) EXCEPT !.pc = "core"]) /\ UNCHANGED call
  /\ UNCHANGED clones

(* The set of a StackJob's latch: a LockLatch at once; a SpinLatch reads its *)
(* fields first, and clones the registry when it is another pool's.          *)
StackJobSet(t) ==
  LET id == Top(t).id
      x == call[id].owner
  IN  /\ Top(t).kind \in StackJobs \ {"broadcast_op"}
      /\ IF Blocking(id)
           THEN /\ call' = [call EXCEPT ![id].set = TRUE]
                /\ stack' = After(t)
           ELSE stack' = SetTop(t, [Top(t) EXCEPT !.pc = "core"]) /\ UNCHANGED call
      /\ clones' = IF x \in Foreign THEN [clones EXCEPT ![x] = @ \cup {t}] ELSE clones

(* CountLatch::set and CountLockLatch::set: the last one goes on.            *)
CountSet(t) ==
  LET id == Top(t).id IN
  /\ Top(t).kind \in {"scope", "scope_job", "broadcast_op"}
  /\ call' = [call EXCEPT ![id].count = @ - 1]
  /\ stack' = IF call[id].count = 1 THEN SetTop(t, [Top(t) EXCEPT !.pc = "core"]) ELSE After(t)
  /\ UNCHANGED clones

SetLatch(t) ==
  /\ stack[t] # <<>> /\ Top(t).pc = "set"
  /\ StackJobSet(t) \/ CountSet(t)
  /\ UNCHANGED <<queues, lifecycle, left, spawns, panics>>

(* CoreLatch::set, or the LockLatch of a CountLockLatch. From here on the    *)
(* owner may return, and its frame be gone. A worker of the pool is notified *)
(* through the registry of the setter itself, which is another worker of it. *)
CoreSet(t) ==
  LET id == Top(t).id IN
  /\ stack[t] # <<>> /\ Top(t).pc = "core"
  /\ call' = [call EXCEPT ![id].set = TRUE]
  /\ stack' = IF call[id].owner \in Foreign THEN SetTop(t, [Top(t) EXCEPT !.pc = "notify"]) ELSE After(t)
  /\ UNCHANGED <<queues, lifecycle, foreign, spawns, panics>>

(* notify_worker_latch_is_set on the registry of an owner in another pool.   *)
Notify(t) ==
  /\ stack[t] # <<>> /\ Top(t).pc = "notify"
  /\ clones' = [x \in Foreign |-> clones[x] \ {t}]
  /\ stack' = After(t)
  /\ UNCHANGED <<queues, call, lifecycle, left, spawns, panics>>

(* Registry::terminate: the last reference sets the latch of every worker,   *)
(* one after the other.                                                      *)
Terminate(t) ==
  /\ stack[t] # <<>> /\ Top(t).pc = "terminate"
  /\ terminate_count' = terminate_count - 1
  /\ stack' = IF terminate_count = 1 THEN SetTop(t, [Top(t) EXCEPT !.pc = "stop"]) ELSE PopFrame(t)
  /\ UNCHANGED <<queues, call, terminate, started, stopped, pool, foreign, spawns, panics>>

StopWorker(t) ==
  LET w == Min({v \in Workers : ~terminate[v]}) IN
  /\ stack[t] # <<>> /\ Top(t).pc = "stop"
  /\ terminate' = [terminate EXCEPT ![w] = TRUE]
  /\ stack' = IF w = NumThreads THEN PopFrame(t) ELSE stack
  /\ UNCHANGED <<queues, call, terminate_count, started, stopped, pool, foreign, spawns, panics>>

-----------------------------------------------------------------------------
(* Waiting.                                                                  *)

Execute(t, job) == stack' = PushFrame(t, Frame(job.kind, job.id, job.env, "run"))

(* take_local_job: the deque, from its back, then the broadcasts.            *)
NoLocal(t) == deque[t] = <<>> /\ broadcasts[t] = <<>>
LocalJob(t) == IF deque[t] # <<>> THEN Last(deque[t]) ELSE Head(broadcasts[t])
PopLocal(t) ==
  /\ deque' = IF deque[t] # <<>> THEN [deque EXCEPT ![t] = Front(@)] ELSE deque
  /\ broadcasts' = IF deque[t] # <<>> THEN broadcasts ELSE [broadcasts EXCEPT ![t] = Tail(@)]

(* find_work: the local jobs, then other workers', then the injected ones.   *)
TakeLocal(t) ==
  /\ ~NoLocal(t)
  /\ Execute(t, LocalJob(t)) /\ PopLocal(t)
  /\ UNCHANGED injected_jobs
Steal(t) ==
  \E v \in Workers \ {t} :
    /\ NoLocal(t) /\ deque[v] # <<>>
    /\ Execute(t, Head(deque[v]))
    /\ deque' = [deque EXCEPT ![v] = Tail(@)]
    /\ UNCHANGED <<broadcasts, injected_jobs>>
PopInjected(t) ==
  /\ NoLocal(t) /\ injected_jobs # <<>>
  /\ Execute(t, Head(injected_jobs))
  /\ injected_jobs' = Tail(injected_jobs)
  /\ UNCHANGED <<deque, broadcasts>>

(* wait_until works until its latch is set.                                  *)
FindWork(t) ==
  /\ stack[t] # <<>> /\ Top(t).pc \in WaitPcs /\ Top(t).pend = NoJob /\ ~Latched(t)
  /\ TakeLocal(t) \/ Steal(t) \/ PopInjected(t)
  /\ UNCHANGED <<call, lifecycle, foreign, spawns, panics>>

(* join_context's loop: job_b comes off the local deque and is run inline,   *)
(* another job is executed, or there is none and the worker waits.           *)
JoinPop(t) ==
  /\ stack[t] # <<>> /\ Top(t).pc = "loop" /\ ~Latched(t)
  /\ \/ /\ NoLocal(t)
        /\ stack' = SetTop(t, [Top(t) EXCEPT !.pc = "wait_b"])
        /\ UNCHANGED <<deque, broadcasts>>
     \/ /\ ~NoLocal(t) /\ PopLocal(t)
        /\ IF LocalJob(t).kind = "join_b" /\ LocalJob(t).id = Top(t).id
             THEN stack' = SetTop(t, [Top(t) EXCEPT !.pc = "inline"])
             ELSE Execute(t, LocalJob(t))
  /\ UNCHANGED <<injected_jobs, call, lifecycle, foreign, spawns, panics>>

(* The latch of a call is set. join_recover_from_panic raises oper_a's       *)
(* panic, into_result the job's, maybe_propagate_panic the scope's.          *)
CallReturns(t) ==
  LET f == Top(t) IN
  /\ stack[t] # <<>> /\ f.kind \in CallKinds
  /\ f.pc \in WaitPcs \cup {"loop"} /\ f.pend = NoJob /\ Latched(t)
  /\ Return(t, CASE f.pc = "recover" -> f.err
                 [] f.kind = "scope" -> call[f.id].panic
                 [] OTHER -> Result(f.id))
  /\ UNCHANGED <<queues, lifecycle, foreign, spawns, panics>>

(* main_loop ends.                                                           *)
Exit(w) ==
  /\ stack[w] # <<>> /\ Top(w).kind = "main" /\ Latched(w)
  /\ stack' = PopFrame(w)
  /\ stopped' = stopped \cup {w}
  /\ UNCHANGED <<queues, call, terminate_count, terminate, started, pool, foreign, spawns, panics>>

(* A Foreign thread has no more to do, its own pool having been dropped; its *)
(* registry goes with it unless somebody else holds an Arc. One that never   *)
(* called the pool may as well stay.                                         *)
Leave(x) ==
  /\ x \in Foreign \ left /\ Len(stack[x]) = 1 /\ Runs(x)
  /\ \E id \in DOMAIN call : call[id].owner = x
  /\ left' = left \cup {x}
  /\ UNCHANGED <<stack, queues, call, lifecycle, clones, spawns, panics>>

Step(t) ==
  \/ User(t)
  \/ JobPanicked(t) \/ SetLatch(t) \/ CoreSet(t) \/ Notify(t)
  \/ Terminate(t) \/ StopWorker(t)
  \/ CallReturns(t)
WorkerStep(w) == Step(w) \/ FindWork(w) \/ JoinPop(w) \/ Exit(w)

AllStopped == started \subseteq stopped
(* The pool is gone and every thread is idle: nothing is left to do.         *)
Finished ==
  /\ pool \in {"failed", "dropped"} /\ AllStopped /\ \A c \in Clients : Len(stack[c]) = 1
  /\ UNCHANGED vars

(* What threads do once they are called, and the closures given to them.     *)
ThreadSteps == (\E w \in Workers : WorkerStep(w)) \/ (\E c \in Clients : Step(c))

Next ==
  \/ SpawnThread \/ SpawnThreadFails \/ DropPool
  \/ ThreadSteps
  \/ \E c \in Clients : ClientCalls(c) \/ Leave(c)
  \/ Finished

Spec == Init /\ [][Next]_vars

-----------------------------------------------------------------------------
Frames == UNION {ToSet(stack[t]) : t \in Threads}
Pending == ({f.pend : f \in Frames} \cup ToSet(injected_jobs)
              \cup UNION {ToSet(deque[w]) \cup ToSet(broadcasts[w]) : w \in Workers}) \ {NoJob}
Live == {f.id : f \in {g \in Frames : g.kind \in CallKinds}}
(* The calls whose frame is there and whose owner has no leave to return.    *)
Unset == {id \in Live : ~call[id].set}

(* The type invariant.                                                       *)
TypeOK ==
  LET Ids == 0 .. MaxCalls
      MaxJobs == NumThreads + MaxSpawns
  IN  /\ \A f \in Frames :
           /\ f.kind \in JobKinds \cup CallKinds \cup {"client", "main", "terminator"}
           /\ f.id \in Ids /\ f.env \subseteq Ids /\ f.err \in 0 .. MaxPanics
           /\ f.pc \in UserPcs \cup WaitPcs \cup
                {"loop", "panicked", "set", "core", "notify", "terminate", "stop"}
           /\ f.todo \subseteq Workers
      /\ DOMAIN stack = Threads /\ DOMAIN deque = Workers /\ DOMAIN broadcasts = Workers
      /\ \A j \in Pending : j.kind \in JobKinds /\ j.id \in Ids /\ j.env \subseteq Ids
      /\ \A id \in 1 .. Len(call) :
           /\ call[id].owner \in Threads /\ call[id].kind \in CallKinds
           /\ call[id].set \in BOOLEAN /\ call[id].count \in 0 .. MaxJobs
           /\ call[id].panic \in 0 .. MaxPanics
      /\ terminate_count \in 0 .. MaxJobs
      /\ terminate \in [Workers -> BOOLEAN]
      /\ stopped \subseteq started /\ started \subseteq Workers
      /\ pool \in {"building", "open", "failed", "dropped"}
      /\ clones \in [Foreign -> SUBSET Threads] /\ left \subseteq Foreign
      /\ spawns \in 0 .. MaxSpawns /\ panics \in 0 .. MaxPanics

(* A frame outlives whoever points into it: as long as a job of a join, a    *)
(* scope, an install or a broadcast is queued or has not set its latch, and  *)
(* as long as code runs that can name a scope, the frame is on its owner's   *)
(* stack and its latch is not set. A panic of the owner's own closure        *)
(* changes nothing.                                                          *)
FramesOutliveJobs ==
  LET unset == Unset IN
  /\ \A j \in Pending : j.env \cup ({j.id} \ {0}) \subseteq unset
  /\ \A f \in Frames :
       /\ f.pc \in UserPcs => f.env \subseteq unset
       /\ f.kind \in JobKinds \ {"spawned"} /\ f.pc # "notify" => f.id \in unset

(* The registry a latch's owner belongs to is there when the owner is        *)
(* notified, after the latch was set and the owner may have gone.            *)
NotifiedRegistryAlive ==
  \A t \in Threads : stack[t] # <<>> /\ Top(t).pc = "notify" =>
    LET x == call[Top(t).id].owner IN x \in left => clones[x] # {}

(* A call panics if one of its closures did, with the payload of one of      *)
(* them, and a join with oper_a's if that one did; otherwise it returns.     *)
PanicsReported ==
  \A id \in 1 .. Len(call) : LET c == call[id] IN
    c.out # None => /\ IF c.seen = {} THEN c.out = 0 ELSE c.out \in c.seen
                    /\ c.kind = "join" /\ c.panic # 0 => c.out = c.panic

(* Once the first worker is told to stop, no job is queued, no closure runs  *)
(* and nobody is in a call: no worker leaves work behind, and the count of   *)
(* references is never taken up from zero.                                   *)
StopsWhenIdle ==
  (\E w \in Workers : terminate[w]) =>
    /\ Pending = {} /\ Live = {}
    /\ \A f \in Frames : f.kind \in JobKinds => f.pc \in {"stop", "notify"}

(* As long as a call has not returned, or a pool that was dropped, or could  *)
(* not start all its threads, has threads left, some thread has a step to    *)
(* take: they never all wait for each other. Each step uses up a call, a     *)
(* job or a frame, so that every call returns and every thread stops.        *)
NobodyStuck ==
  Live # {} \/ (pool \in {"failed", "dropped"} /\ ~AllStopped) => ENABLED ThreadSteps
=============================================================================
