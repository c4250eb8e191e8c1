------------------------------- MODULE Sleep -------------------------------
(***************************************************************************)
(* How the worker threads of a rayon-core registry look for work, fall     *)
(* asleep and are woken: sleep/mod.rs with the search loop and the queues  *)
(* of registry.rs and the latches of latch.rs.                             *)
(*                                                                         *)
(* Threads outside the pool (Posters) inject jobs and broadcasts and block *)
(* until they are done; one of them, Owner, drops the pool at the end.     *)
(* Workers execute jobs; a job may fork another one onto its worker's      *)
(* deque and wait for that job's latch, which runs the search loop again,  *)
(* nested (join and scope). A step is one access to shared state; what a   *)
(* thread does under a sleep state's mutex is one step when it has one     *)
(* such access, and several, with the mutex held, when it has more.        *)
(***************************************************************************)
EXTENDS Integers, Sequences, FiniteSets

CONSTANTS N,                    \* number of worker threads
          Posters,              \* threads outside the pool
          Owner,                \* the poster that owns the ThreadPool
          MaxDepth,             \* nesting of waits inside jobs (a bound)
          MaxPosts,             \* posts by each poster (a bound)
          ROUNDS_UNTIL_SLEEPY,  \* 32 in the code
          JEC_RANGE,            \* number of values of the jobs event counter
          NoJob                 \* nothing in hand

Workers == 0 .. (N - 1)
Threads == Workers \cup Posters

\* A forked job is known by the latch it sets: its owner's wait at that depth.
\* "spin" is a join's SpinLatch, "count" a scope's CountLatch.
ForkJobs == [owner : Workers, depth : 1 .. MaxDepth, kind : {"spin", "count"}]
Jobs == ForkJobs \cup Posters

ASSUME SleepAssumption ==
  /\ N \in Nat \ {0}
  /\ MaxDepth \in Nat
  /\ MaxPosts \in Nat
  /\ ROUNDS_UNTIL_SLEEPY \in Nat
  /\ JEC_RANGE \in Nat \ {0} /\ JEC_RANGE % 2 = 0
  /\ Owner \in Posters
  /\ Posters \cap Int = {}
  /\ Posters \cap ForkJobs = {}
  /\ NoJob \notin Jobs

\* JobsEventCounter::DUMMY is usize::MAX, which no counter value equals.
DUMMY == -1

VARIABLES
  counters,  \* AtomicCounters, its three fields (Counters.tla has the word)
  injected,  \* Registry::injected_jobs
  deque,     \* each worker's own deque; its owner works at the end
  bcast,     \* each worker's broadcast deque
  latch,     \* the CoreLatch of each worker's wait at each depth; 0 is terminate
  blocked,   \* WorkerSleepState::is_blocked
  idle,      \* IdleState of each worker: rounds and jobs_counter
  pc,        \* where each thread is
  depth,     \* each worker's innermost wait
  run,       \* the job each worker executes inside its wait at each depth
  hand,      \* the job find_work has returned, NoJob if the latch was set
  victims,   \* the workers a steal has yet to try
  was_empty, \* queue_was_empty of the thread's current post
  wake,      \* the thread's walk over worker_sleep_states, and what comes after it
  pending,   \* the count of the latch each poster blocks on
  left,      \* posts each poster may still make
  dropped,   \* the ThreadPool has been dropped
  term       \* how many terminate latches terminate() has set

vars == <<counters, injected, deque, bcast, latch, blocked, idle, pc, depth, run,
          hand, victims, was_empty, wake, pending, left, dropped, term>>
queues == <<injected, deque, bcast>>
control == <<depth, run, hand, victims>>
posting == <<was_empty, pending, left, dropped, term>>

-----------------------------------------------------------------------------
(* The jobs event counter: even is sleepy, odd is active. *)
is_sleepy(jec) == jec % 2 = 0
is_active(jec) == ~is_sleepy(jec)

increment_without_wrapping(c) == [c EXCEPT !.jec = @ + 1]
increment_jobs_counter(c) == [c EXCEPT !.jec = (@ + 1) % JEC_RANGE]

\* increment_jobs_event_counter_if: a compare-and-swap loop, atomic where it ends.
toggled_if_active(c) == IF is_active(c.jec) THEN increment_jobs_counter(c) ELSE c
toggled_if_sleepy(c) == IF is_sleepy(c.jec) THEN increment_jobs_counter(c) ELSE c

sleepers_counted_idle(c) == c.inactive
awake_but_idle_threads(c) == c.inactive - c.sleeping

Least(a, b) == IF a <= b THEN a ELSE b

\* sub_inactive_thread: whoever finds work has up to two sleepers woken.
threads_to_wake(c) == Least(c.sleeping, 2)

(* IdleState::wake_fully and wake_partly. *)
wake_fully == [rounds |-> 0, jobs_counter |-> DUMMY]
wake_partly == [rounds |-> ROUNDS_UNTIL_SLEEPY, jobs_counter |-> DUMMY]

(* CoreLatch::wake_up; SET stays SET. *)
wake_up_unprobed(s) == "UNSET"
wake_up(s) == IF s = "SLEEPING" THEN "UNSET" ELSE s

(* CoreLatch::set returns true if the latch's owner was sleeping on it.     *)
was_sleepy(s) == s = "SLEEPY"
was_sleeping(s) == s = "SLEEPING"

(* has_injected_job: the worker's own broadcasts, then the injector.        *)
no_broadcast(w) == FALSE
has_broadcast(w) == bcast[w] # <<>>
no_injected_job == FALSE
has_injected_job == injected # <<>>

(* The states in which a worker holds the mutex of its own sleep state. *)
Locked == {"register", "interrupted", "check_bcast", "check_inj", "unregister", "awaken"}

Goto(t, where) == pc' = [pc EXCEPT ![t] = where]

MyLatch(w) == latch[w][depth[w]]

NoWalk == [next |-> 0, last |-> 0, quota |-> 0, after |-> "none"]

(* wake_any_threads over worker_sleep_states[from .. to], waking at most    *)
(* quota threads, and then going on at after.                               *)
CallWake(t, from, to, quota, after) ==
  IF quota = 0
  THEN Goto(t, after) /\ UNCHANGED wake
  ELSE /\ Goto(t, "waking")
       /\ wake' = [wake EXCEPT ![t] = [next |-> from, last |-> to, quota |-> quota, after |-> after]]

-----------------------------------------------------------------------------
(* wake_specific_thread for the next thread of t's walk. *)
WakeThread(t) ==
  /\ pc[t] = "waking"
  /\ LET i == wake[t].next
         quota == IF blocked[i] THEN wake[t].quota - 1 ELSE wake[t].quota
     IN /\ pc[i] \notin Locked
        /\ blocked' = [blocked EXCEPT ![i] = FALSE]
        /\ counters' = IF blocked[i] THEN [counters EXCEPT !.sleeping = @ - 1] ELSE counters
        /\ \/ /\ quota = 0 \/ i = wake[t].last
              /\ wake' = [wake EXCEPT ![t] = NoWalk]
              /\ Goto(t, wake[t].after)
           \/ /\ quota # 0 /\ i # wake[t].last
              /\ wake' = [wake EXCEPT ![t].next = i + 1, ![t].quota = quota]
              /\ UNCHANGED pc
  /\ UNCHANGED <<queues, latch, idle, control, posting>>

(***************************************************************************)
(* A worker waiting for a latch: WorkerThread::wait_until.                 *)
(***************************************************************************)
WaitUntil(w) ==
  /\ pc[w] = "wait_until"
  /\ \/ /\ MyLatch(w) = "SET"
        /\ hand' = [hand EXCEPT ![w] = NoJob]
        /\ Goto(w, "proceed")
     \/ /\ MyLatch(w) # "SET"
        /\ Goto(w, "start_looking")
        /\ UNCHANGED hand
  /\ UNCHANGED <<counters, queues, latch, blocked, idle, depth, run, victims, wake, posting>>

StartLooking(w) ==
  /\ pc[w] = "start_looking"
  /\ counters' = [counters EXCEPT !.inactive = @ + 1]
  /\ idle' = [idle EXCEPT ![w] = wake_fully]
  /\ Goto(w, "probe")
  /\ UNCHANGED <<queues, latch, blocked, control, wake, posting>>

Probe(w) ==
  /\ pc[w] = "probe"
  /\ \/ /\ MyLatch(w) = "SET"
        /\ hand' = [hand EXCEPT ![w] = NoJob]
        /\ Goto(w, "work_found")
     \/ /\ MyLatch(w) # "SET"
        /\ Goto(w, "pop")
        /\ UNCHANGED hand
  /\ UNCHANGED <<counters, queues, latch, blocked, idle, depth, run, victims, wake, posting>>

(* find_work: take_local_job, from the deque and then from the broadcasts. *)
PopLocal(w) ==
  /\ pc[w] = "pop"
  /\ \/ /\ deque[w] # <<>>
        /\ hand' = [hand EXCEPT ![w] = deque[w][Len(deque[w])]]
        /\ deque' = [deque EXCEPT ![w] = SubSeq(@, 1, Len(@) - 1)]
        /\ Goto(w, "work_found")
     \/ /\ deque[w] = <<>>
        /\ Goto(w, "pop_bcast")
        /\ UNCHANGED <<hand, deque>>
  /\ UNCHANGED <<counters, injected, bcast, latch, blocked, idle, depth, run, victims, wake, posting>>

PopBroadcast(w) ==
  /\ pc[w] = "pop_bcast"
  /\ \/ /\ bcast[w] # <<>>
        /\ hand' = [hand EXCEPT ![w] = Head(bcast[w])]
        /\ bcast' = [bcast EXCEPT ![w] = Tail(@)]
        /\ Goto(w, "work_found")
        /\ UNCHANGED victims
     \/ /\ bcast[w] = <<>>
        /\ victims' = [victims EXCEPT ![w] = Workers \ {w}]
        /\ Goto(w, "steal")
        /\ UNCHANGED <<hand, bcast>>
  /\ UNCHANGED <<counters, injected, deque, latch, blocked, idle, depth, run, wake, posting>>

(* find_work: steal, from the other workers' deques, starting anywhere. *)
Steal(w) ==
  /\ pc[w] = "steal"
  /\ \/ \E v \in victims[w] :
          \/ /\ deque[v] # <<>>
             /\ hand' = [hand EXCEPT ![w] = Head(deque[v])]
             /\ deque' = [deque EXCEPT ![v] = Tail(@)]
             /\ victims' = [victims EXCEPT ![w] = {}]
             /\ Goto(w, "work_found")
          \/ /\ deque[v] = <<>>
             /\ victims' = [victims EXCEPT ![w] = @ \ {v}]
             /\ UNCHANGED <<hand, deque, pc>>
     \/ /\ victims[w] = {}
        /\ Goto(w, "pop_inj")
        /\ UNCHANGED <<hand, deque, victims>>
  /\ UNCHANGED <<counters, injected, bcast, latch, blocked, idle, depth, run, wake, posting>>

PeekInjected(w) ==
  /\ pc[w] = "pop_inj"
  /\ hand' = IF injected # <<>> THEN [hand EXCEPT ![w] = Head(injected)] ELSE hand
  /\ Goto(w, IF injected # <<>> THEN "work_found" ELSE "no_work")
  /\ UNCHANGED <<counters, queues, latch, blocked, idle, depth, run, victims, wake, posting>>

(* find_work: pop_injected_job. *)
PopInjected(w) ==
  /\ pc[w] = "pop_inj"
  /\ \/ /\ injected # <<>>
        /\ hand' = [hand EXCEPT ![w] = Head(injected)]
        /\ injected' = Tail(injected)
        /\ Goto(w, "work_found")
     \/ /\ injected = <<>>
        /\ Goto(w, "no_work")
        /\ UNCHANGED <<hand, injected>>
  /\ UNCHANGED <<counters, deque, bcast, latch, blocked, idle, depth, run, victims, wake, posting>>

-----------------------------------------------------------------------------
(***************************************************************************)
(* Sleep::no_work_found: spin, then announce, then sleep.                  *)
(***************************************************************************)
SpinRound(w) ==
  /\ pc[w] = "no_work"
  /\ idle[w].rounds < ROUNDS_UNTIL_SLEEPY
  /\ idle' = [idle EXCEPT ![w].rounds = @ + 1]
  /\ Goto(w, "probe")
  /\ UNCHANGED <<counters, queues, latch, blocked, control, wake, posting>>

AnnounceSleepy(w) ==
  /\ pc[w] = "no_work"
  /\ idle[w].rounds = ROUNDS_UNTIL_SLEEPY
  /\ counters' = toggled_if_active(counters)
  /\ idle' = [idle EXCEPT ![w] = [rounds |-> @.rounds + 1, jobs_counter |-> counters'.jec]]
  /\ Goto(w, "probe")
  /\ UNCHANGED <<queues, latch, blocked, control, wake, posting>>

(* CoreLatch::get_sleepy, the first thing Sleep::sleep does. *)
GetSleepy(w) ==
  /\ pc[w] = "no_work"
  /\ idle[w].rounds > ROUNDS_UNTIL_SLEEPY
  /\ \/ /\ MyLatch(w) = "UNSET"
        /\ latch' = [latch EXCEPT ![w][depth[w]] = "SLEEPY"]
        /\ Goto(w, "fall_asleep")
     \/ /\ MyLatch(w) # "UNSET"
        /\ Goto(w, "probe")
        /\ UNCHANGED latch
  /\ UNCHANGED <<counters, queues, blocked, idle, control, wake, posting>>

(* Locks the sleep state, then CoreLatch::fall_asleep. *)
FallAsleep(w) ==
  /\ pc[w] = "fall_asleep"
  /\ \/ /\ MyLatch(w) = "SLEEPY"
        /\ latch' = [latch EXCEPT ![w][depth[w]] = "SLEEPING"]
        /\ Goto(w, "register")
        /\ UNCHANGED idle
     \/ /\ MyLatch(w) # "SLEEPY"
        /\ idle' = [idle EXCEPT ![w] = wake_fully]
        /\ Goto(w, "probe")
        /\ UNCHANGED latch
  /\ UNCHANGED <<counters, queues, blocked, control, wake, posting>>

(* The load and compare-and-swap loop that checks the JEC and registers the *)
(* worker as sleeping (try_add_sleeping_thread).                            *)
Register(w) ==
  /\ pc[w] = "register"
  /\ \/ /\ counters.jec # idle[w].jobs_counter
        /\ Goto(w, "interrupted")
        /\ UNCHANGED counters
     \/ /\ counters.jec = idle[w].jobs_counter
        /\ counters' = [counters EXCEPT !.sleeping = @ + 1]
        /\ Goto(w, "check_bcast")
  /\ UNCHANGED <<queues, latch, blocked, idle, control, wake, posting>>

InterruptedByJob(w) ==
  /\ pc[w] = "interrupted"
  /\ idle' = [idle EXCEPT ![w] = wake_partly]
  /\ latch' = [latch EXCEPT ![w][depth[w]] = wake_up(@)]
  /\ Goto(w, "probe")
  /\ UNCHANGED <<counters, queues, blocked, control, wake, posting>>

(* The last check, has_injected_job: the own broadcasts, then the injector; *)
(* nothing found, the worker blocks and the condvar releases the mutex.     *)
LastCheckBroadcasts(w) ==
  /\ pc[w] = "check_bcast"
  /\ Goto(w, IF has_broadcast(w) THEN "unregister" ELSE "check_inj")
  /\ UNCHANGED <<counters, queues, latch, blocked, idle, control, wake, posting>>

LastCheckInjector(w) ==
  /\ pc[w] = "check_inj"
  /\ \/ /\ has_injected_job
        /\ Goto(w, "unregister")
        /\ UNCHANGED blocked
     \/ /\ ~has_injected_job
        /\ blocked' = [blocked EXCEPT ![w] = TRUE]
        /\ Goto(w, "blocked")
  /\ UNCHANGED <<counters, queues, latch, idle, control, wake, posting>>

StayRegistered(w) ==
  /\ pc[w] = "unregister"
  /\ Goto(w, "awaken")
  /\ UNCHANGED <<counters, queues, latch, blocked, idle, control, wake, posting>>

Unregister(w) ==
  /\ pc[w] = "unregister"
  /\ counters' = [counters EXCEPT !.sleeping = @ - 1]
  /\ Goto(w, "awaken")
  /\ UNCHANGED <<queues, latch, blocked, idle, control, wake, posting>>

(* The end of Sleep::sleep, after the last check or after the condvar wait. *)
Awaken(w) ==
  /\ \/ pc[w] = "awaken"
     \/ pc[w] = "blocked" /\ ~blocked[w]
  /\ idle' = [idle EXCEPT ![w] = wake_fully]
  /\ latch' = [latch EXCEPT ![w][depth[w]] = wake_up(@)]
  /\ Goto(w, "probe")
  /\ UNCHANGED <<counters, queues, blocked, control, wake, posting>>

(* Sleep::work_found: a job was found or the latch is set. *)
WorkFound(w) ==
  /\ pc[w] = "work_found"
  /\ counters' = [counters EXCEPT !.inactive = @ - 1]
  /\ CallWake(w, 0, N - 1, threads_to_wake(counters), "proceed")
  /\ idle' = [idle EXCEPT ![w] = wake_fully]
  /\ UNCHANGED <<queues, latch, blocked, control, posting>>

-----------------------------------------------------------------------------
(***************************************************************************)
(* Executing jobs.                                                         *)
(***************************************************************************)
Execute(w) ==
  /\ pc[w] = "proceed"
  /\ hand[w] # NoJob
  /\ run' = [run EXCEPT ![w][depth[w]] = hand[w]]
  /\ hand' = [hand EXCEPT ![w] = NoJob]
  /\ Goto(w, "run")
  /\ UNCHANGED <<counters, queues, latch, blocked, idle, depth, victims, wake, posting>>

(* The wait is over: main_loop ends, or the job that forked goes on. *)
Return(w) ==
  /\ pc[w] = "proceed"
  /\ hand[w] = NoJob
  /\ \/ /\ depth[w] = 0
        /\ Goto(w, "stopped")
        /\ UNCHANGED depth
     \/ /\ depth[w] > 0
        /\ depth' = [depth EXCEPT ![w] = @ - 1]
        /\ Goto(w, "finish")
  /\ UNCHANGED <<counters, queues, latch, blocked, idle, run, hand, victims, wake, posting>>

(* The job forks: WorkerThread::push of a job with a new latch of w's. *)
Fork(w) ==
  /\ pc[w] = "run"
  /\ depth[w] < MaxDepth
  /\ depth' = [depth EXCEPT ![w] = @ + 1]
  /\ latch' = [latch EXCEPT ![w][depth[w] + 1] = "UNSET"]
  /\ was_empty' = [was_empty EXCEPT ![w] = deque[w] = <<>>]
  /\ Goto(w, "push")
  /\ UNCHANGED <<counters, queues, blocked, idle, run, hand, victims, wake, pending, left, dropped, term>>

Push(w, kind) ==
  /\ pc[w] = "push"
  /\ deque' = [deque EXCEPT ![w] = Append(@, [owner |-> w, depth |-> depth[w], kind |-> kind])]
  /\ Goto(w, "new_jobs")
  /\ UNCHANGED <<counters, injected, bcast, latch, blocked, idle, control, wake, posting>>

(* The job ends, having forked or not, and sets its latch: a poster's       *)
(* LockLatch, or another wait's CoreLatch. SpinLatch::set notifies an owner *)
(* that sleeps on it; CountLatch::set_and_tickle_one always notifies.       *)
SetLockLatch(w) ==
  /\ pc[w] \in {"run", "finish"}
  /\ run[w][depth[w]] \in Posters
  /\ pending' = [pending EXCEPT ![run[w][depth[w]]] = @ - 1]
  /\ run' = [run EXCEPT ![w][depth[w]] = NoJob]
  /\ Goto(w, "start_looking")
  /\ UNCHANGED <<counters, queues, latch, blocked, idle, depth, hand, victims, was_empty, wake, left, dropped, term>>

SetCoreLatch(w) ==
  /\ pc[w] \in {"run", "finish"}
  /\ run[w][depth[w]] \in ForkJobs
  /\ LET j == run[w][depth[w]]
         notify == j.kind = "count" \/ was_sleeping(latch[j.owner][j.depth])
     IN /\ latch' = [latch EXCEPT ![j.owner][j.depth] = "SET"]
        /\ CallWake(w, j.owner, j.owner, IF notify THEN 1 ELSE 0, "start_looking")
  /\ run' = [run EXCEPT ![w][depth[w]] = NoJob]
  /\ UNCHANGED <<counters, queues, blocked, idle, depth, hand, victims, posting>>

-----------------------------------------------------------------------------
(***************************************************************************)
(* Posting work. Sleep::new_jobs is the same for both kinds of queue.      *)
(***************************************************************************)
NumToWake(c, num_jobs, queue_was_empty) ==
  IF ~queue_was_empty THEN Least(num_jobs, c.sleeping)
  ELSE IF awake_but_idle_threads(c) < num_jobs
       THEN Least(num_jobs - awake_but_idle_threads(c), c.sleeping)
       ELSE 0

NewJobs(t) ==
  /\ pc[t] = "new_jobs"
  /\ counters' = toggled_if_sleepy(counters)
  /\ CallWake(t, 0, N - 1, NumToWake(counters', 1, was_empty[t]),
              IF t \in Workers THEN "wait_until" ELSE "wait")
  /\ was_empty' = [was_empty EXCEPT ![t] = TRUE]
  /\ UNCHANGED <<queues, latch, blocked, idle, control, pending, left, dropped, term>>

(* Registry::in_worker_cold: inject one job and block on a LockLatch. *)
StartInject(p) ==
  /\ pc[p] = "ready" /\ ~dropped /\ left[p] > 0
  /\ left' = [left EXCEPT ![p] = @ - 1]
  /\ pending' = [pending EXCEPT ![p] = 1]
  /\ was_empty' = [was_empty EXCEPT ![p] = injected = <<>>]
  /\ Goto(p, "inject")
  /\ UNCHANGED <<counters, queues, latch, blocked, idle, control, wake, dropped, term>>

Inject(p) ==
  /\ pc[p] = "inject"
  /\ injected' = Append(injected, p)
  /\ Goto(p, "new_jobs")
  /\ UNCHANGED <<counters, deque, bcast, latch, blocked, idle, control, wake, posting>>

(* broadcast_in: one job per worker, then notify them all and block. The    *)
(* pushes are made under the registry's broadcasts mutex.                   *)
StartBroadcast(p) ==
  /\ pc[p] = "ready" /\ ~dropped /\ left[p] > 0
  /\ \A q \in Posters : pc[q] # "bcast_push"
  /\ left' = [left EXCEPT ![p] = @ - 1]
  /\ pending' = [pending EXCEPT ![p] = N]
  /\ wake' = [wake EXCEPT ![p].next = 0]
  /\ Goto(p, "bcast_push")
  /\ UNCHANGED <<counters, queues, latch, blocked, idle, control, was_empty, dropped, term>>

PushBroadcast(p) ==
  /\ pc[p] = "bcast_push"
  /\ LET i == wake[p].next
     IN /\ bcast' = [bcast EXCEPT ![i] = Append(@, p)]
        /\ \/ /\ i < N - 1
              /\ wake' = [wake EXCEPT ![p].next = i + 1]
              /\ UNCHANGED pc
           \/ /\ i = N - 1
              /\ CallWake(p, 0, N - 1, N, "wait")
  /\ UNCHANGED <<counters, injected, deque, latch, blocked, idle, control, posting>>

WakeSpuriously(p) ==
  /\ pc[p] = "wait"
  /\ Goto(p, "ready")
  /\ UNCHANGED <<counters, queues, latch, blocked, idle, control, wake, posting>>

(* LockLatch::wait: the poster's job, or all of its broadcast, is done. *)
LatchReleased(p) ==
  /\ pc[p] = "wait"
  /\ pending[p] = 0
  /\ Goto(p, "ready")
  /\ UNCHANGED <<counters, queues, latch, blocked, idle, control, wake, posting>>

(* Dropping the ThreadPool, which no other thread still borrows: Registry:: *)
(* terminate sets every worker's terminate latch and tickles its worker.    *)
DropPool ==
  /\ ~dropped
  /\ \A p \in Posters : pc[p] = "ready"
  /\ dropped' = TRUE
  /\ Goto(Owner, "terminate")
  /\ UNCHANGED <<counters, queues, latch, blocked, idle, control, was_empty, wake, pending, left, term>>

SetWithoutTickle ==
  /\ pc[Owner] = "terminate"
  /\ term < N
  /\ latch' = [latch EXCEPT ![term][0] = "SET"]
  /\ term' = term + 1
  /\ UNCHANGED <<counters, queues, blocked, idle, pc, control, was_empty, wake, pending, left, dropped>>

SetTerminate ==
  /\ pc[Owner] = "terminate"
  /\ term < N
  /\ latch' = [latch EXCEPT ![term][0] = "SET"]
  /\ CallWake(Owner, term, term, 1, "terminate")
  /\ term' = term + 1
  /\ UNCHANGED <<counters, queues, blocked, idle, control, was_empty, pending, left, dropped>>

(* Every worker has been told to stop and has stopped. *)
AllStopped == term = N /\ \A w \in Workers : pc[w] = "stopped"

Done ==
  /\ AllStopped
  /\ UNCHANGED vars

-----------------------------------------------------------------------------
Init ==
  /\ counters = [sleeping |-> 0, inactive |-> 0, jec |-> 0]
  /\ injected = <<>>
  /\ deque = [w \in Workers |-> <<>>]
  /\ bcast = [w \in Workers |-> <<>>]
  /\ latch = [w \in Workers |-> [d \in 0 .. MaxDepth |-> "UNSET"]]
  /\ blocked = [w \in Workers |-> FALSE]
  /\ idle = [w \in Workers |-> wake_fully]
  /\ pc = [t \in Threads |-> IF t \in Workers THEN "wait_until" ELSE "ready"]
  /\ depth = [w \in Workers |-> 0]
  /\ run = [w \in Workers |-> [d \in 0 .. MaxDepth |-> NoJob]]
  /\ hand = [w \in Workers |-> NoJob]
  /\ victims = [w \in Workers |-> {}]
  /\ was_empty = [t \in Threads |-> TRUE]
  /\ wake = [t \in Threads |-> NoWalk]
  /\ pending = [p \in Posters |-> 0]
  /\ left = [p \in Posters |-> MaxPosts]
  /\ dropped = FALSE
  /\ term = 0

Search(w) == WaitUntil(w) \/ StartLooking(w) \/ Probe(w) \/ PopLocal(w) \/ PopBroadcast(w)
             \/ Steal(w) \/ PopInjected(w) \/ WorkFound(w)
FallingAsleep(w) == SpinRound(w) \/ AnnounceSleepy(w) \/ GetSleepy(w) \/ FallAsleep(w)
                    \/ Register(w) \/ InterruptedByJob(w) \/ LastCheckBroadcasts(w)
                    \/ LastCheckInjector(w) \/ Unregister(w) \/ Awaken(w)
Working(w) == Execute(w) \/ Return(w) \/ Fork(w) \/ SetLockLatch(w)
              \/ SetCoreLatch(w) \/ \E kind \in {"spin", "count"} : Push(w, kind)

Worker(w) == Search(w) \/ FallingAsleep(w) \/ Working(w) \/ NewJobs(w) \/ WakeThread(w)

Poster(p) == StartInject(p) \/ Inject(p) \/ StartBroadcast(p) \/ PushBroadcast(p)
             \/ LatchReleased(p) \/ NewJobs(p) \/ WakeThread(p)

Next ==
  \/ \E w \in Workers : Worker(w)
  \/ \E p \in Posters : Poster(p)
  \/ DropPool
  \/ SetTerminate
  \/ Done

(* Every thread that can take a step eventually takes one; that includes a  *)
(* thread that wants a mutex others only hold for a few steps, and a job's  *)
(* code, which ends. Nobody is obliged to post or to drop the pool.         *)
Fairness ==
  /\ \A w \in Workers : WF_vars(Worker(w))
  /\ \A p \in Posters : WF_vars(Inject(p) \/ PushBroadcast(p) \/ LatchReleased(p)
                                \/ NewJobs(p) \/ WakeThread(p))
  /\ WF_vars(SetTerminate)

Spec == Init /\ [][Next]_vars

FairSpec == Spec /\ Fairness

-----------------------------------------------------------------------------
(***************************************************************************)
(* Properties.                                                             *)
(***************************************************************************)
Searching == {"probe", "pop", "pop_bcast", "steal", "pop_inj", "no_work", "fall_asleep",
              "work_found"}
WorkerPcs == Searching \cup Locked \cup
             {"wait_until", "start_looking", "blocked", "proceed", "run", "push", "new_jobs",
              "finish", "waking", "stopped"}
PosterPcs == {"ready", "inject", "new_jobs", "waking", "bcast_push", "wait", "terminate"}

LatchStates == {"UNSET", "SLEEPY", "SLEEPING", "SET"}

CounterStates == [sleeping : 0 .. N, inactive : 0 .. N, jec : 0 .. (JEC_RANGE - 1)]
IdleStates == [rounds : 0 .. (ROUNDS_UNTIL_SLEEPY + 1), jobs_counter : DUMMY .. (JEC_RANGE - 1)]

\* A walk over the sleep states and what its thread does afterwards.
Walks == [next : Workers, last : Workers, quota : 0 .. N,
          after : {"none", "proceed", "start_looking", "wait_until", "wait", "terminate"}]

(***************************************************************************)
(* The shape of the state.                                                 *)
(***************************************************************************)
TypeOK ==
  /\ counters \in CounterStates
  /\ injected \in Seq(Posters)
  /\ deque \in [Workers -> Seq(ForkJobs)]
  /\ bcast \in [Workers -> Seq(Posters)]
  /\ latch \in [Workers -> [0 .. MaxDepth -> LatchStates]]
  /\ blocked \in [Workers -> BOOLEAN]
  /\ idle \in [Workers -> IdleStates]
  /\ pc \in [Threads -> WorkerPcs \cup PosterPcs]
  /\ \A w \in Workers : pc[w] \in WorkerPcs
  /\ \A p \in Posters : pc[p] \in PosterPcs
  /\ depth \in [Workers -> 0 .. MaxDepth]
  /\ run \in [Workers -> [0 .. MaxDepth -> Jobs \cup {NoJob}]]
  /\ hand \in [Workers -> Jobs \cup {NoJob}]
  /\ victims \in [Workers -> SUBSET Workers]
  /\ was_empty \in [Threads -> BOOLEAN]
  /\ wake \in [Threads -> Walks]
  /\ pending \in [Posters -> Int]
  /\ left \in [Posters -> 0 .. MaxPosts]
  /\ dropped \in BOOLEAN
  /\ term \in 0 .. N

\* Counted in counters.sleeping: registered, and not yet unregistered or woken.
Registered == {w \in Workers : pc[w] \in {"check_bcast", "check_inj", "unregister"} \/ blocked[w]}
Inactive == {w \in Workers : pc[w] \in Searching \cup Locked \cup {"blocked"}}

(***************************************************************************)
(* The two thread counters are exact at every step of every interleaving,  *)
(* although it is the waker that takes a sleeper off the count and the     *)
(* sleeper that takes itself off when its last check finds a job. The      *)
(* debug_asserts of counters.rs (no underflow, sleeping <= inactive) and   *)
(* the use of the counts in new_jobs and work_found rest on it.            *)
(***************************************************************************)
CountersExact ==
  /\ counters.sleeping = Cardinality(Registered)
  /\ counters.inactive = Cardinality(Inactive)

\* t's walk over the sleep states will still come to w.
WillVisit(t, w) == pc[t] = "waking" /\ wake[t].next <= w /\ w <= wake[t].last

(***************************************************************************)
(* The README's deadlock argument: the pool is never wholly asleep on an   *)
(* injected job, not even when the JEC rolls over while a worker is        *)
(* sleepy, unless the thread that injected a job is still to wake someone. *)
(***************************************************************************)
InjectedNotStranded ==
  injected # <<>> /\ (\A w \in Workers : blocked[w])
    => \E p \in Posters : pc[p] = "new_jobs" \/ (\E w \in Workers : WillVisit(p, w))

(***************************************************************************)
(* "This function will ensure that there are threads available to process  *)
(* them" (new_injected_jobs): while a job is in the injector and some      *)
(* worker sleeps, a worker is searching for work, or some thread is about  *)
(* to wake a sleeper. Busy workers alone do not excuse the sleepers.       *)
(***************************************************************************)
InjectedHasTaker ==
  injected # <<>> /\ (\E w \in Workers : blocked[w])
    => \/ \E w \in Workers : pc[w] \in Searching \cup Locked \/ (pc[w] = "blocked" /\ ~blocked[w])
       \/ \E p \in Posters : pc[p] = "new_jobs"
       \/ \E t \in Threads, w \in Workers : blocked[w] /\ WillVisit(t, w)

(***************************************************************************)
(* No wake-up of a latch's owner is lost: if a worker is blocked although  *)
(* the latch it waits for is set, a thread is about to wake it             *)
(* (CoreLatch::set, SpinLatch::set, CountLatch::set_and_tickle_one against *)
(* get_sleepy, fall_asleep and wake_up).                                   *)
(***************************************************************************)
LatchWakeNotLost ==
  \A w \in Workers : blocked[w] /\ MyLatch(w) = "SET" => \E t \in Threads : WillVisit(t, w)

(***************************************************************************)
(* inject_broadcast neither fences nor touches the JEC; still no worker    *)
(* stays blocked with a job in its broadcast deque, unless the thread that *)
(* put it there is still to notify it.                                     *)
(***************************************************************************)
BroadcastNotLost ==
  \A w \in Workers : blocked[w] /\ bcast[w] # <<>> =>
     \E p \in Posters : pc[p] = "bcast_push" \/ WillVisit(p, w)

\* Where a job is: queued, in hand, or being executed.
Places(j) ==
  {<<"injected", i>> : i \in {k \in DOMAIN injected : injected[k] = j}}
  \cup (UNION {{<<"deque", w, i>> : i \in {k \in DOMAIN deque[w] : deque[w][k] = j}} : w \in Workers})
  \cup (UNION {{<<"bcast", w, i>> : i \in {k \in DOMAIN bcast[w] : bcast[w][k] = j}} : w \in Workers})
  \cup {<<"hand", w>> : w \in {v \in Workers : hand[v] = j}}
  \cup (UNION {{<<"run", w, d>> : d \in {e \in 0 .. MaxDepth : run[w][e] = j}} : w \in Workers})

\* Jobs of p's current post that it has yet to push.
NotYetPushed(p) ==
  CASE pc[p] = "inject" -> 1
    [] pc[p] = "bcast_push" -> N - wake[p].next
    [] OTHER -> 0

(***************************************************************************)
(* "Each JobRef must be executed exactly once" (job.rs): a forked job      *)
(* whose latch its owner waits for is in exactly one place until it sets   *)
(* the latch, and what a poster's latch still counts is exactly what is    *)
(* queued, in hand or running for it.                                      *)
(***************************************************************************)
JobsConserved ==
  /\ \A w \in Workers : \A d \in 1 .. depth[w] :
       Cardinality(UNION {Places([owner |-> w, depth |-> d, kind |-> k]) : k \in {"spin", "count"}})
         = IF latch[w][d] = "SET" \/ (d = depth[w] /\ pc[w] = "push") THEN 0 ELSE 1
  /\ \A p \in Posters : pending[p] = Cardinality(Places(p)) + NotYetPushed(p)

(***************************************************************************)
(* Once the pool is dropped no work is left anywhere: "When this latch     *)
(* reaches 0, it means that all work on this registry must be complete"    *)
(* (Registry::terminate_count), and main_loop's debug_assert that the      *)
(* deque of a stopping worker is empty.                                    *)
(***************************************************************************)
NoWorkAfterDrop ==
  dropped => \A j \in Jobs : Places(j) = {}

(***************************************************************************)
(* A latch that is set stays set for as long as its owner's wait lasts,    *)
(* whatever the owner does in get_sleepy, fall_asleep and wake_up.         *)
(***************************************************************************)
SetLatchStaysSet ==
  [][\A w \in Workers : \A d \in 0 .. MaxDepth :
        d <= depth[w] /\ d <= depth'[w] /\ latch[w][d] = "SET" => latch'[w][d] = "SET"]_vars

(***************************************************************************)
(* A thread that blocks on an injected job or a broadcast is released.     *)
(***************************************************************************)
PostsComplete == \A p \in Posters : pc[p] = "wait" ~> pc[p] = "ready"

(***************************************************************************)
(* A worker that waits for its fork, however deep its search nests and     *)
(* wherever the forked job went, returns from the wait.                    *)
(***************************************************************************)
ForksJoin == \A w \in Workers : \A d \in 1 .. MaxDepth : depth[w] = d ~> depth[w] = d - 1

(***************************************************************************)
(* Dropping the pool stops every worker, asleep or not.                    *)
(***************************************************************************)
PoolStops == dropped ~> AllStopped
=============================================================================
