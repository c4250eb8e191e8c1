---------------------------- MODULE SleepProofs ----------------------------
(***************************************************************************)
(* The inductive invariant of Sleep.tla and its consequences: the type     *)
(* invariant, the exactness of the two thread counts, and that no wake-up  *)
(* is lost, for every number of workers and posters.                       *)
(*                                                                         *)
(* The invariant is needed as a whole. The counts can only be bounded      *)
(* (TypeOK) once they are known to be exact; they stay exact when a walk   *)
(* wakes a worker because is_blocked is only true at the condvar           *)
(* (BlockedOK); and a walk stays inside worker_sleep_states because it     *)
(* always has someone left to visit and to wake (WalksOK).                 *)
(***************************************************************************)
EXTENDS Sleep, FiniteSetTheorems, TLAPS

RawCounters == [sleeping : Int, inactive : Int, jec : 0 .. (JEC_RANGE - 1)]

PcOK ==
  /\ pc \in [Threads -> WorkerPcs \cup PosterPcs]
  /\ \A w \in Workers : pc[w] \in WorkerPcs
  /\ \A p \in Posters : pc[p] \in PosterPcs

Latches == [Workers -> [0 .. MaxDepth -> LatchStates]]

\* TypeOK without the bounds on the two thread counts.
Shape ==
  /\ counters \in RawCounters
  /\ injected \in Seq(Posters)
  /\ deque \in [Workers -> Seq(ForkJobs)]
  /\ bcast \in [Workers -> Seq(Posters)]
  /\ latch \in Latches
  /\ blocked \in [Workers -> BOOLEAN]
  /\ idle \in [Workers -> IdleStates]
  /\ PcOK
  /\ depth \in [Workers -> 0 .. MaxDepth]
  /\ run \in [Workers -> [0 .. MaxDepth -> Jobs \cup {NoJob}]]
  /\ hand \in [Workers -> Jobs \cup {NoJob}]
  /\ victims \in [Workers -> SUBSET Workers]
  /\ was_empty \in [Threads -> BOOLEAN]
  /\ wake \in [Threads -> Walks]
  /\ pending \in [Posters -> Int]
  /\ left \in [Posters -> 0 .. MaxPosts]
  /\ dropped \in BOOLEAN
  /\ term \in 0 .. N

\* A thread on a walk has someone to visit and to wake, and knows what to do next.
WalksOK ==
  \A t \in Threads : pc[t] = "waking" =>
    /\ wake[t].next <= wake[t].last
    /\ wake[t].quota >= 1
    /\ t \in Workers => wake[t].after \in {"proceed", "start_looking", "wait_until"}
    /\ t \in Posters => wake[t].after \in {"wait", "terminate"}

\* is_blocked is only ever true while its worker waits on the condvar.
BlockedOK == \A w \in Workers : blocked[w] => pc[w] = "blocked"

\* A worker that pushes a job has opened a wait for it.
PushOK == \A w \in Workers : pc[w] = "push" => depth[w] >= 1

USE SleepAssumption

\* Workers are the integers 0 to N-1 and posters are not integers, so the two
\* kinds of thread do not overlap.
LEMMA Apart ==
  /\ Workers \in SUBSET Int
  /\ \A p \in Posters : p \notin Workers
  /\ Workers \in SUBSET Threads /\ Posters \in SUBSET Threads
  /\ 0 \in Workers /\ N - 1 \in Workers
  BY DEF Workers, Threads

\* The idle states that no_work_found and its callees build are well formed.
LEMMA IdleTypes ==
  /\ wake_fully \in IdleStates /\ wake_partly \in IdleStates
  /\ \A i \in IdleStates : i.rounds <= ROUNDS_UNTIL_SLEEPY =>
       \A j \in 0 .. (JEC_RANGE - 1) :
         /\ [i EXCEPT !.rounds = @ + 1] \in IdleStates
         /\ [rounds |-> i.rounds + 1, jobs_counter |-> j] \in IdleStates
  BY DEF wake_fully, wake_partly, IdleStates, DUMMY

\* wake_any_threads either starts a well-formed walk or, with nothing to wake,
\* goes straight on.
LEMMA WakeTypes ==
  ASSUME wake \in [Threads -> Walks], NEW t \in Threads, NEW from \in Workers, NEW to \in Workers,
         NEW quota \in 0 .. N,
         NEW after \in {"proceed", "start_looking", "wait_until", "wait", "terminate"},
         CallWake(t, from, to, quota, after)
  PROVE  /\ wake' \in [Threads -> Walks]
         /\ \/ quota = 0 /\ pc' = [pc EXCEPT ![t] = after] /\ wake' = wake
            \/ /\ quota # 0 /\ pc' = [pc EXCEPT ![t] = "waking"]
               /\ wake' = [wake EXCEPT ![t] = [next |-> from, last |-> to, quota |-> quota, after |-> after]]
<1>1. [next |-> from, last |-> to, quota |-> quota, after |-> after] \in Walks
  BY DEF Walks
<1> QED BY <1>1 DEF CallWake, Goto

\* The counter operations keep the shape of the counters and the JEC in its
\* range.
LEMMA CounterTypes ==
  /\ CounterStates \in SUBSET RawCounters
  /\ \A c \in RawCounters :
       /\ [c EXCEPT !.inactive = @ + 1] \in RawCounters
       /\ [c EXCEPT !.inactive = @ - 1] \in RawCounters
       /\ [c EXCEPT !.sleeping = @ + 1] \in RawCounters
       /\ [c EXCEPT !.sleeping = @ - 1] \in RawCounters
       /\ toggled_if_active(c) \in RawCounters
       /\ toggled_if_sleepy(c) \in RawCounters
       /\ c.jec \in 0 .. (JEC_RANGE - 1)
<1>1. CounterStates \in SUBSET RawCounters
  BY DEF CounterStates, RawCounters
<1>2. \A j \in 0 .. (JEC_RANGE - 1) : (j + 1) % JEC_RANGE \in 0 .. (JEC_RANGE - 1)
  OBVIOUS
<1> QED BY <1>1, <1>2 DEF RawCounters, toggled_if_active, toggled_if_sleepy, increment_jobs_counter

\* The type invariant implies Shape.
LEMMA TypeShape == TypeOK => Shape
  BY CounterTypes DEF TypeOK, Shape, PcOK, Latches

\* A worker that moves to a place of a worker keeps the program counters well
\* formed.
LEMMA PcWorker ==
  ASSUME PcOK, NEW w \in Workers, NEW x \in WorkerPcs, pc' = [pc EXCEPT ![w] = x]
  PROVE  PcOK'
  BY Apart DEF PcOK

\* The same for a poster.
LEMMA PcPoster ==
  ASSUME PcOK, NEW p \in Posters, NEW x \in PosterPcs, pc' = [pc EXCEPT ![p] = x]
  PROVE  PcOK'
  BY Apart DEF PcOK

\* The names of the places, listed once so that the sets can stay folded.
LEMMA PcNames ==
  /\ {"probe", "pop", "pop_bcast", "steal", "pop_inj", "no_work", "fall_asleep", "work_found",
      "register", "interrupted", "check_bcast", "check_inj", "unregister", "awaken",
      "wait_until", "start_looking", "blocked", "proceed", "run", "push", "new_jobs",
      "finish", "waking", "stopped"} \in SUBSET WorkerPcs
  /\ {"ready", "inject", "new_jobs", "waking", "bcast_push", "wait", "terminate"} \in SUBSET PosterPcs
  BY DEF WorkerPcs, PosterPcs, Searching, Locked

\* Writing one latch keeps the latches well formed.
LEMMA LatchTypes ==
  ASSUME latch \in Latches, NEW w \in Workers, NEW d \in 0 .. MaxDepth
  PROVE  /\ \A x \in LatchStates : [latch EXCEPT ![w][d] = x] \in Latches
         /\ latch[w][d] \in LatchStates
         /\ [latch EXCEPT ![w][d] = wake_up(@)] \in Latches
<1>1. latch[w][d] \in LatchStates /\ wake_up(latch[w][d]) \in LatchStates
  BY DEF Latches, LatchStates, wake_up
<1> QED BY <1>1 DEF Latches

\* The four states of a CoreLatch.
LEMMA LatchNames == {"UNSET", "SLEEPY", "SLEEPING", "SET"} \in SUBSET LatchStates
  BY DEF LatchStates

\* Taking a job off either end of a queue that is not empty.
LEMMA SeqTypes ==
  ASSUME NEW S, NEW q \in Seq(S), q # <<>>
  PROVE  /\ Head(q) \in S /\ Tail(q) \in Seq(S)
         /\ q[Len(q)] \in S /\ SubSeq(q, 1, Len(q) - 1) \in Seq(S)
  OBVIOUS

\* Forked jobs and posted jobs are jobs.
LEMMA JobTypes == ForkJobs \in SUBSET Jobs /\ Posters \in SUBSET Jobs
  BY DEF Jobs

\* The search loop keeps the shape of the state.
LEMMA SearchShape ==
  ASSUME TypeOK, Shape, NEW w \in Workers, Search(w)
  PROVE  Shape'
<1>1. CASE WaitUntil(w)
  <2>1. PcOK'
    BY <1>1, PcNames, PcWorker DEF Shape, WaitUntil, Goto
  <2> QED BY <1>1, <2>1 DEF Shape, WaitUntil, queues, control, posting, Goto
<1>2. CASE StartLooking(w)
  <2>1. PcOK'
    BY <1>2, PcNames, PcWorker DEF Shape, StartLooking, Goto
  <2> QED BY <1>2, <2>1, IdleTypes, CounterTypes DEF Shape, StartLooking, queues, control, posting, Goto
<1>3. CASE Probe(w)
  <2>1. PcOK'
    BY <1>3, PcNames, PcWorker DEF Shape, Probe, Goto
  <2> QED BY <1>3, <2>1 DEF Shape, Probe, queues, control, posting, Goto
<1>4. CASE PopLocal(w)
  <2>1. PcOK'
    BY <1>4, PcNames, PcWorker DEF Shape, PopLocal, Goto
  <2>2. deque' \in [Workers -> Seq(ForkJobs)] /\ hand' \in [Workers -> Jobs \cup {NoJob}]
    <3>1. deque[w] \in Seq(ForkJobs) BY DEF Shape
    <3>2. deque[w] # <<>> => /\ deque[w][Len(deque[w])] \in Jobs
                             /\ SubSeq(deque[w], 1, Len(deque[w]) - 1) \in Seq(ForkJobs)
      BY <3>1, SeqTypes, JobTypes
    <3>3. deque \in [Workers -> Seq(ForkJobs)] /\ hand \in [Workers -> Jobs \cup {NoJob}]
      BY DEF Shape
    <3>4. CASE deque[w] = <<>>
      BY <1>4, <3>3, <3>4 DEF PopLocal
    <3>5. CASE deque[w] # <<>>
      BY <1>4, <3>2, <3>3, <3>5 DEF PopLocal
    <3> QED BY <3>4, <3>5
  <2> QED BY <1>4, <2>1, <2>2 DEF Shape, PopLocal, queues, control, posting, Goto
<1>5. CASE PopBroadcast(w)
  <2>1. PcOK'
    BY <1>5, PcNames, PcWorker DEF Shape, PopBroadcast, Goto
  <2>2. bcast' \in [Workers -> Seq(Posters)] /\ hand' \in [Workers -> Jobs \cup {NoJob}]
    <3>1. bcast[w] \in Seq(Posters) BY DEF Shape
    <3>2. bcast[w] # <<>> => Head(bcast[w]) \in Jobs /\ Tail(bcast[w]) \in Seq(Posters)
      BY <3>1, SeqTypes, JobTypes
    <3>3. bcast \in [Workers -> Seq(Posters)] /\ hand \in [Workers -> Jobs \cup {NoJob}]
      BY DEF Shape
    <3>4. CASE bcast[w] = <<>>
      BY <1>5, <3>3, <3>4 DEF PopBroadcast
    <3>5. CASE bcast[w] # <<>>
      BY <1>5, <3>2, <3>3, <3>5 DEF PopBroadcast
    <3> QED BY <3>4, <3>5
  <2>3. victims' \in [Workers -> SUBSET Workers]
    <3>1. victims \in [Workers -> SUBSET Workers] BY DEF Shape
    <3>2. victims' = victims \/ victims' = [victims EXCEPT ![w] = Workers \ {w}]
      BY <1>5 DEF PopBroadcast
    <3> QED BY <3>1, <3>2
  <2> QED BY <1>5, <2>1, <2>2, <2>3 DEF Shape, PopBroadcast, queues, control, posting, Goto
<1>6. CASE Steal(w)
  <2>1. PcOK'
    BY <1>6, PcNames, PcWorker DEF Shape, Steal, Goto, PcOK
  <2>2. deque' \in [Workers -> Seq(ForkJobs)] /\ hand' \in [Workers -> Jobs \cup {NoJob}]
    <3>1. ASSUME NEW v \in Workers, deque[v] # <<>>
          PROVE  Head(deque[v]) \in Jobs /\ Tail(deque[v]) \in Seq(ForkJobs)
      <4>1. deque[v] \in Seq(ForkJobs) BY DEF Shape
      <4> QED BY <3>1, <4>1, SeqTypes, JobTypes
    <3>2. /\ victims[w] \in SUBSET Workers /\ deque \in [Workers -> Seq(ForkJobs)]
          /\ hand \in [Workers -> Jobs \cup {NoJob}]
      BY DEF Shape
    <3>3. \/ hand' = hand /\ deque' = deque
          \/ \E v \in victims[w] : /\ deque[v] # <<>>
                                  /\ hand' = [hand EXCEPT ![w] = Head(deque[v])]
                                  /\ deque' = [deque EXCEPT ![v] = Tail(@)]
      BY <1>6 DEF Steal
    <3>4. CASE hand' = hand /\ deque' = deque
      BY <3>2, <3>4
    <3>5. ASSUME NEW v \in victims[w], deque[v] # <<>>,
                 hand' = [hand EXCEPT ![w] = Head(deque[v])],
                 deque' = [deque EXCEPT ![v] = Tail(@)]
          PROVE  deque' \in [Workers -> Seq(ForkJobs)] /\ hand' \in [Workers -> Jobs \cup {NoJob}]
      <4>1. v \in Workers /\ Head(deque[v]) \in Jobs /\ Tail(deque[v]) \in Seq(ForkJobs)
        BY <3>1, <3>2, <3>5
      <4> QED BY <3>2, <3>5, <4>1
    <3> QED BY <3>3, <3>4, <3>5
  <2>3. victims' \in [Workers -> SUBSET Workers]
    <3>1. victims[w] \in SUBSET Workers BY DEF Shape
    <3>2. victims \in [Workers -> SUBSET Workers] BY DEF Shape
    <3>3. \/ victims' = victims \/ victims' = [victims EXCEPT ![w] = {}]
          \/ \E v \in victims[w] : victims' = [victims EXCEPT ![w] = @ \ {v}]
      BY <1>6 DEF Steal
    <3> QED BY <3>1, <3>2, <3>3
  <2> QED BY <1>6, <2>1, <2>2, <2>3 DEF Shape, Steal, queues, control, posting, Goto
<1>7. CASE PopInjected(w)
  <2>1. PcOK'
    BY <1>7, PcNames, PcWorker DEF Shape, PopInjected, Goto
  <2>2. injected' \in Seq(Posters) /\ hand' \in [Workers -> Jobs \cup {NoJob}]
    <3>1. injected # <<>> => Head(injected) \in Jobs /\ Tail(injected) \in Seq(Posters)
      BY SeqTypes, JobTypes DEF Shape
    <3>2. injected \in Seq(Posters) /\ hand \in [Workers -> Jobs \cup {NoJob}]
      BY DEF Shape
    <3> QED BY <1>7, <3>1, <3>2 DEF PopInjected
  <2> QED BY <1>7, <2>1, <2>2 DEF Shape, PopInjected, queues, control, posting, Goto
<1>8. CASE WorkFound(w)
  <2>1. threads_to_wake(counters) \in 0 .. N
    BY DEF TypeOK, CounterStates, threads_to_wake, Least
  <2>2. /\ wake' \in [Threads -> Walks]
        /\ pc' = [pc EXCEPT ![w] = "proceed"] \/ pc' = [pc EXCEPT ![w] = "waking"]
    BY <1>8, <2>1, Apart, WakeTypes DEF Shape, WorkFound
  <2>3. PcOK'
    BY <2>2, PcNames, PcWorker DEF Shape
  <2> QED BY <1>8, <2>2, <2>3, IdleTypes, CounterTypes DEF Shape, WorkFound, queues, control, posting, Goto
<1> QED BY <1>1, <1>2, <1>3, <1>4, <1>5, <1>6, <1>7, <1>8 DEF Search

\* no_work_found and sleep keep the shape of the state.
LEMMA FallingAsleepShape ==
  ASSUME TypeOK, Shape, NEW w \in Workers, FallingAsleep(w)
  PROVE  Shape'
<1>0. idle[w] \in IdleStates /\ counters \in RawCounters /\ depth[w] \in 0 .. MaxDepth /\ latch \in Latches
  BY DEF Shape
<1>1. CASE SpinRound(w)
  <2>1. PcOK'
    BY <1>1, PcNames, PcWorker DEF Shape, SpinRound, Goto
  <2>2. idle[w].rounds <= ROUNDS_UNTIL_SLEEPY /\ 0 \in 0 .. (JEC_RANGE - 1)
    BY <1>0, <1>1 DEF SpinRound, IdleStates
  <2>3. [idle[w] EXCEPT !.rounds = @ + 1] \in IdleStates
    BY <1>0, <2>2, IdleTypes
  <2> QED BY <1>1, <2>1, <2>2, <2>3 DEF Shape, SpinRound, queues, control, posting, Goto
<1>2. CASE AnnounceSleepy(w)
  <2>1. PcOK'
    BY <1>2, PcNames, PcWorker DEF Shape, AnnounceSleepy, Goto
  <2>2. counters' \in RawCounters /\ counters'.jec \in 0 .. (JEC_RANGE - 1)
    BY <1>0, <1>2, CounterTypes DEF AnnounceSleepy
  <2>3. idle[w].rounds <= ROUNDS_UNTIL_SLEEPY
    BY <1>2 DEF AnnounceSleepy
  <2>4. [rounds |-> idle[w].rounds + 1, jobs_counter |-> counters'.jec] \in IdleStates
    BY <1>0, <2>2, <2>3, IdleTypes
  <2> QED BY <1>2, <2>1, <2>2, <2>3, <2>4 DEF Shape, AnnounceSleepy, queues, control, posting, Goto
<1>3. CASE GetSleepy(w)
  <2>1. PcOK'
    BY <1>3, PcNames, PcWorker DEF Shape, GetSleepy, Goto
  <2>2. latch' \in Latches
    <3>1. latch' = latch \/ latch' = [latch EXCEPT ![w][depth[w]] = "SLEEPY"]
      BY <1>3 DEF GetSleepy
    <3>2. [latch EXCEPT ![w][depth[w]] = "SLEEPY"] \in Latches
      BY <1>0, LatchTypes, LatchNames
    <3> QED BY <1>0, <3>1, <3>2
  <2> QED BY <1>3, <2>1, <2>2 DEF Shape, GetSleepy, queues, control, posting, Goto
<1>4. CASE FallAsleep(w)
  <2>1. PcOK'
    BY <1>4, PcNames, PcWorker DEF Shape, FallAsleep, Goto
  <2>2. latch' \in Latches
    <3>1. latch' = latch \/ latch' = [latch EXCEPT ![w][depth[w]] = "SLEEPING"]
      BY <1>4 DEF FallAsleep
    <3>2. [latch EXCEPT ![w][depth[w]] = "SLEEPING"] \in Latches
      BY <1>0, LatchTypes, LatchNames
    <3> QED BY <1>0, <3>1, <3>2
  <2>3. idle' \in [Workers -> IdleStates]
    BY <1>4, IdleTypes DEF Shape, FallAsleep
  <2> QED BY <1>4, <2>1, <2>2, <2>3 DEF Shape, FallAsleep, queues, control, posting, Goto
<1>5. CASE Register(w)
  <2>1. PcOK'
    BY <1>5, PcNames, PcWorker DEF Shape, Register, Goto
  <2>2. counters' \in RawCounters
    BY <1>0, <1>5, CounterTypes DEF Register
  <2> QED BY <1>5, <2>1, <2>2 DEF Shape, Register, queues, control, posting, Goto
<1>6. CASE InterruptedByJob(w)
  <2>1. PcOK'
    BY <1>6, PcNames, PcWorker DEF Shape, InterruptedByJob, Goto
  <2>2. latch' \in Latches
    BY <1>0, <1>6, LatchTypes DEF InterruptedByJob
  <2> QED BY <1>6, <2>1, <2>2, IdleTypes DEF Shape, InterruptedByJob, queues, control, posting, Goto
<1>7. CASE LastCheckBroadcasts(w)
  <2>1. PcOK'
    BY <1>7, PcNames, PcWorker DEF Shape, LastCheckBroadcasts, Goto
  <2> QED BY <1>7, <2>1 DEF Shape, LastCheckBroadcasts, queues, control, posting, Goto
<1>8. CASE LastCheckInjector(w)
  <2>1. PcOK'
    BY <1>8, PcNames, PcWorker DEF Shape, LastCheckInjector, Goto
  <2> QED BY <1>8, <2>1 DEF Shape, LastCheckInjector, queues, control, posting, Goto
<1>9. CASE Unregister(w)
  <2>1. PcOK'
    BY <1>9, PcNames, PcWorker DEF Shape, Unregister, Goto
  <2> QED BY <1>9, <2>1, CounterTypes DEF Shape, Unregister, queues, control, posting, Goto
<1>10. CASE Awaken(w)
  <2>1. PcOK'
    BY <1>10, PcNames, PcWorker DEF Shape, Awaken, Goto
  <2>2. latch' \in Latches
    BY <1>0, <1>10, LatchTypes DEF Awaken
  <2> QED BY <1>10, <2>1, <2>2, IdleTypes DEF Shape, Awaken, queues, control, posting, Goto
<1> QED BY <1>1, <1>2, <1>3, <1>4, <1>5, <1>6, <1>7, <1>8, <1>9, <1>10 DEF FallingAsleep

\* Executing, forking and finishing jobs keeps the shape of the state.
LEMMA WorkingShape ==
  ASSUME TypeOK, Shape, PushOK, NEW w \in Workers, Working(w)
  PROVE  Shape'
<1>0. depth[w] \in 0 .. MaxDepth /\ latch \in Latches
  BY DEF Shape
<1>1. CASE Execute(w)
  <2>1. PcOK'
    BY <1>1, PcNames, PcWorker DEF Shape, Execute, Goto
  <2> QED BY <1>1, <2>1 DEF Shape, Execute, queues, control, posting, Goto
<1>2. CASE Return(w)
  <2>1. PcOK'
    BY <1>2, PcNames, PcWorker DEF Shape, Return, Goto
  <2>2. depth' \in [Workers -> 0 .. MaxDepth]
    <3>1. depth[w] > 0 => depth[w] - 1 \in 0 .. MaxDepth BY <1>0
    <3> QED BY <1>2, <3>1 DEF Shape, Return
  <2> QED BY <1>2, <2>1, <2>2 DEF Shape, Return, queues, control, posting, Goto
<1>3. CASE Fork(w)
  <2>1. PcOK'
    BY <1>3, PcNames, PcWorker DEF Shape, Fork, Goto
  <2>2. depth[w] + 1 \in 0 .. MaxDepth
    BY <1>0, <1>3 DEF Fork
  <2>3. latch' \in Latches
    BY <1>0, <1>3, <2>2, LatchTypes, LatchNames DEF Fork
  <2> QED BY <1>3, <2>1, <2>2, <2>3 DEF Shape, Fork, queues, control, posting, Goto
<1>4. CASE SetLockLatch(w)
  <2>1. PcOK'
    BY <1>4, PcNames, PcWorker DEF Shape, SetLockLatch, Goto
  <2> QED BY <1>4, <2>1 DEF Shape, SetLockLatch, queues, control, posting, Goto
<1>5. CASE SetCoreLatch(w)
  <2>1. PICK j \in ForkJobs, q \in {0, 1} :
          /\ latch' = [latch EXCEPT ![j.owner][j.depth] = "SET"]
          /\ CallWake(w, j.owner, j.owner, q, "start_looking")
    BY <1>5 DEF SetCoreLatch
  <2>2. j.owner \in Workers /\ j.depth \in 0 .. MaxDepth /\ q \in 0 .. N
    BY DEF ForkJobs
  <2>3. /\ wake' \in [Threads -> Walks]
        /\ pc' = [pc EXCEPT ![w] = "start_looking"] \/ pc' = [pc EXCEPT ![w] = "waking"]
    BY <2>1, <2>2, Apart, WakeTypes DEF Shape
  <2>4. PcOK'
    BY <2>3, PcNames, PcWorker DEF Shape
  <2>5. latch' \in Latches
    BY <1>0, <2>1, <2>2, LatchTypes, LatchNames
  <2> QED BY <1>5, <2>3, <2>4, <2>5 DEF Shape, SetCoreLatch, queues, control, posting, Goto
<1>6. ASSUME NEW kind \in {"spin", "count"}, Push(w, kind) PROVE Shape'
  <2>0. depth[w] \in 1 .. MaxDepth
    BY <1>0, <1>6 DEF PushOK, Push
  <2>1. [owner |-> w, depth |-> depth[w], kind |-> kind] \in ForkJobs
    BY <2>0 DEF ForkJobs
  <2>2. PcOK'
    BY <1>6, PcNames, PcWorker DEF Shape, Push, Goto
  <2> QED BY <1>6, <2>1, <2>2 DEF Shape, Push, queues, control, posting, Goto
<1> QED BY <1>1, <1>2, <1>3, <1>4, <1>5, <1>6 DEF Working

\* new_jobs and the steps of a wake-up walk keep the shape of the state.
LEMMA SharedShape ==
  ASSUME TypeOK, Shape, WalksOK, NEW t \in Threads, NewJobs(t) \/ WakeThread(t)
  PROVE  Shape'
<1>1. CASE NewJobs(t)
  <2>1. counters' \in RawCounters
    BY <1>1, CounterTypes DEF Shape, NewJobs
  <2>2. NumToWake(counters', 1, was_empty[t]) \in 0 .. N
    <3>1. counters'.sleeping = counters.sleeping /\ counters'.inactive = counters.inactive
      BY <1>1 DEF Shape, NewJobs, toggled_if_sleepy, increment_jobs_counter, RawCounters
    <3>2. counters.sleeping \in 0 .. N /\ counters.inactive \in 0 .. N
      BY DEF TypeOK, CounterStates
    <3> QED BY <3>1, <3>2 DEF NumToWake, Least, awake_but_idle_threads
  <2>3. /\ wake' \in [Threads -> Walks]
        /\ t \in Workers => pc' = [pc EXCEPT ![t] = "wait_until"] \/ pc' = [pc EXCEPT ![t] = "waking"]
        /\ t \notin Workers => pc' = [pc EXCEPT ![t] = "wait"] \/ pc' = [pc EXCEPT ![t] = "waking"]
    BY <1>1, <2>2, Apart, WakeTypes DEF Shape, NewJobs
  <2>4. PcOK'
    BY <2>3, PcNames, PcWorker, PcPoster DEF Shape, Threads
  <2> QED BY <1>1, <2>1, <2>3, <2>4 DEF Shape, NewJobs, queues, control, posting, Goto
<1>2. CASE WakeThread(t)
  <2>1. /\ wake[t] \in Walks /\ NoWalk \in Walks
        /\ wake[t].next \in Workers /\ wake[t].last \in Workers /\ wake[t].quota \in 0 .. N
    <3>1. wake[t] \in Walks
      BY DEF Shape
    <3> QED BY <3>1, Apart DEF Walks, NoWalk
  <2>2. /\ wake[t].next <= wake[t].last /\ wake[t].quota >= 1
        /\ t \in Workers => wake[t].after \in WorkerPcs
        /\ t \in Posters => wake[t].after \in PosterPcs
    BY <1>2, PcNames DEF WalksOK, WakeThread
  <2>3. ASSUME NEW q \in {wake[t].quota, wake[t].quota - 1}, wake[t].next # wake[t].last
        PROVE  [wake[t] EXCEPT !.next = wake[t].next + 1, !.quota = q] \in Walks
    <3>1. wake[t].next + 1 \in Workers
      BY <2>1, <2>2, <2>3 DEF Workers
    <3>2. q \in 0 .. N
      BY <2>1, <2>2
    <3> QED BY <2>1, <3>1, <3>2 DEF Walks
  <2>4. wake' \in [Threads -> Walks]
    <3>1. CASE wake' = [wake EXCEPT ![t] = NoWalk]
      BY <2>1, <3>1 DEF Shape
    <3>2. ASSUME NEW q \in {wake[t].quota, wake[t].quota - 1}, wake[t].next # wake[t].last,
                 wake' = [wake EXCEPT ![t].next = wake[t].next + 1, ![t].quota = q]
          PROVE  wake' \in [Threads -> Walks]
      <4>1. wake' = [wake EXCEPT ![t] = [wake[t] EXCEPT !.next = wake[t].next + 1, !.quota = q]]
        BY <3>2 DEF Shape
      <4> QED BY <2>3, <3>2, <4>1 DEF Shape
    <3> QED BY <1>2, <3>1, <3>2 DEF WakeThread
  <2>5. counters' \in RawCounters
    BY <1>2, CounterTypes DEF Shape, WakeThread
  <2>6. PcOK'
    <3>1. pc' = pc \/ pc' = [pc EXCEPT ![t] = wake[t].after]
      BY <1>2 DEF WakeThread, Goto
    <3> QED BY <2>2, <3>1, PcWorker, PcPoster DEF Shape, Threads, PcOK
  <2>7. blocked' \in [Workers -> BOOLEAN]
    BY <1>2, <2>1 DEF Shape, WakeThread
  <2> QED BY <1>2, <2>4, <2>5, <2>6, <2>7 DEF Shape, WakeThread, queues, control, posting, Goto
<1> QED BY <1>1, <1>2

\* Injecting and broadcasting keep the shape of the state.
LEMMA PosterShape ==
  ASSUME TypeOK, Shape, NEW p \in Posters,
         StartInject(p) \/ Inject(p) \/ StartBroadcast(p) \/ PushBroadcast(p) \/ LatchReleased(p)
  PROVE  Shape'
<1>0. p \in Threads /\ wake[p] \in Walks
  BY Apart DEF Shape
<1>1. CASE StartInject(p)
  <2>1. PcOK'
    BY <1>1, PcNames, PcPoster DEF Shape, StartInject, Goto
  <2>2. pending' \in [Posters -> Int] /\ left' \in [Posters -> 0 .. MaxPosts]
    BY <1>1 DEF Shape, StartInject
  <2> QED BY <1>1, <2>1, <2>2, Apart DEF Shape, StartInject, queues, control
<1>2. CASE Inject(p)
  <2>1. PcOK'
    BY <1>2, PcNames, PcPoster DEF Shape, Inject, Goto
  <2> QED BY <1>2, <2>1 DEF Shape, Inject, queues, control, posting, Goto
<1>3. CASE StartBroadcast(p)
  <2>1. PcOK'
    BY <1>3, PcNames, PcPoster DEF Shape, StartBroadcast, Goto
  <2>2. [wake[p] EXCEPT !.next = 0] \in Walks
    BY <1>0, Apart DEF Walks
  <2>3. wake' \in [Threads -> Walks]
    BY <1>0, <1>3, <2>2 DEF Shape, StartBroadcast
  <2>4. pending' \in [Posters -> Int] /\ left' \in [Posters -> 0 .. MaxPosts]
    BY <1>3 DEF Shape, StartBroadcast
  <2> QED BY <1>3, <2>1, <2>3, <2>4 DEF Shape, StartBroadcast, queues, control
<1>4. CASE PushBroadcast(p)
  <2>1. wake[p].next \in Workers
    BY <1>0 DEF Walks
  <2>4. bcast' \in [Workers -> Seq(Posters)]
    <3>1. bcast \in [Workers -> Seq(Posters)] /\ bcast[wake[p].next] \in Seq(Posters)
      BY <2>1 DEF Shape
    <3>2. Append(bcast[wake[p].next], p) \in Seq(Posters)
      BY <3>1
    <3>3. bcast' = [bcast EXCEPT ![wake[p].next] = Append(bcast[wake[p].next], p)]
      BY <1>4 DEF PushBroadcast
    <3> QED BY <3>1, <3>2, <3>3
  <2>2. CASE wake[p].next < N - 1
    <3>1. [wake[p] EXCEPT !.next = wake[p].next + 1] \in Walks
      <4>1. wake[p].next + 1 \in Workers
        BY <2>1, <2>2 DEF Workers
      <4> QED BY <1>0, <4>1 DEF Walks
    <3>2. wake' = [wake EXCEPT ![p].next = wake[p].next + 1] /\ pc' = pc
      BY <1>4, <2>1, <2>2 DEF PushBroadcast, Workers
    <3>3. wake' \in [Threads -> Walks] /\ PcOK'
      BY <1>0, <3>1, <3>2 DEF Shape, PcOK
    <3> QED BY <1>4, <2>4, <3>3 DEF Shape, PushBroadcast, queues, control, posting
  <2>3. CASE wake[p].next = N - 1
    <3>1. CallWake(p, 0, N - 1, N, "wait")
      BY <1>4, <2>3 DEF PushBroadcast
    <3>2. /\ wake' \in [Threads -> Walks]
          /\ pc' = [pc EXCEPT ![p] = "wait"] \/ pc' = [pc EXCEPT ![p] = "waking"]
      BY <1>0, <3>1, Apart, WakeTypes DEF Shape
    <3>3. PcOK'
      BY <3>2, PcNames, PcPoster DEF Shape
    <3> QED BY <1>4, <2>4, <3>2, <3>3 DEF Shape, PushBroadcast, queues, control, posting
  <2> QED BY <2>1, <2>2, <2>3 DEF Workers
<1>5. CASE LatchReleased(p)
  <2>1. PcOK'
    BY <1>5, PcNames, PcPoster DEF Shape, LatchReleased, Goto
  <2> QED BY <1>5, <2>1 DEF Shape, LatchReleased, queues, control, posting, Goto
<1> QED BY <1>1, <1>2, <1>3, <1>4, <1>5

\* Dropping the pool keeps the shape of the state.
LEMMA OwnerShape ==
  ASSUME TypeOK, Shape, DropPool \/ SetTerminate
  PROVE  Shape'
<1>1. CASE DropPool
  <2>1. PcOK'
    BY <1>1, PcNames, PcPoster DEF Shape, DropPool, Goto
  <2> QED BY <1>1, <2>1 DEF Shape, DropPool, queues, control, posting, Goto
<1>2. CASE SetTerminate
  <2>1. term \in Workers /\ term + 1 \in 0 .. N
    BY <1>2 DEF Shape, SetTerminate, Workers
  <2>2. wake' \in [Threads -> Walks] /\ pc' = [pc EXCEPT ![Owner] = "waking"]
    <3>1. CallWake(Owner, term, term, 1, "terminate") /\ 1 \in 0 .. N /\ Owner \in Threads
      BY <1>2, Apart DEF SetTerminate
    <3>2. wake \in [Threads -> Walks] BY DEF Shape
    <3> QED BY <2>1, <3>1, <3>2, WakeTypes
  <2>3. PcOK'
    BY <2>2, PcNames, PcPoster DEF Shape
  <2>4. latch' \in Latches
    <3>1. latch \in Latches /\ 0 \in 0 .. MaxDepth BY DEF Shape
    <3> QED BY <1>2, <2>1, <3>1, LatchTypes, LatchNames DEF SetTerminate
  <2> QED BY <1>2, <2>1, <2>2, <2>3, <2>4 DEF Shape, SetTerminate, queues, control, posting, Goto
<1> QED BY <1>1, <1>2

-----------------------------------------------------------------------------
\* The places of a worker, by what the counters say of it: it searches, it is
\* registered and makes its last check, or it is busy.
Idle == Searching \cup {"register", "interrupted", "awaken", "blocked"}
Checking == {"check_bcast", "check_inj", "unregister"}
Busy == {"wait_until", "start_looking", "proceed", "run", "push", "new_jobs", "finish", "stopped",
         "waking"}

Core == Shape /\ WalksOK /\ BlockedOK /\ PushOK /\ CountersExact
CoreRest == WalksOK /\ BlockedOK /\ PushOK /\ CountersExact

SameCounts == counters'.sleeping = counters.sleeping /\ counters'.inactive = counters.inactive
OtherWalks(t) == \A u \in Threads \ {t} : wake'[u] = wake[u]
OtherDepths(t) == \A w \in Workers \ {t} : depth'[w] = depth[w]

\* t moves inside its class and leaves the others, the counts and is_blocked alone.
Quiet(t, P) ==
  /\ pc[t] \in P \ {"waking", "new_jobs"}
  /\ pc[t] = "blocked" => ~blocked[t]
  /\ pc'[t] \in P \ {"waking", "blocked"} /\ pc' = [pc EXCEPT ![t] = pc'[t]]
  /\ pc'[t] = "push" => t \in Workers /\ depth'[t] >= 1
  /\ blocked' = blocked
  /\ SameCounts /\ OtherWalks(t) /\ OtherDepths(t)

\* t starts a walk or, with nobody to wake, goes on.
Calls(t) ==
  /\ pc'[t] \in {"waking", "proceed", "start_looking", "wait_until", "wait", "terminate"}
  /\ pc' = [pc EXCEPT ![t] = pc'[t]]
  /\ pc'[t] = "waking" =>
       /\ wake'[t].next <= wake'[t].last
       /\ wake'[t].quota >= 1
       /\ t \in Workers => wake'[t].after \in {"proceed", "start_looking", "wait_until"}
       /\ t \in Posters => wake'[t].after \in {"wait", "terminate"}
  /\ OtherWalks(t) /\ depth' = depth

\* Inactive and Registered in terms of the three classes, which are disjoint.
LEMMA Classes ==
  /\ Inactive = {w \in Workers : pc[w] \in Idle \cup Checking}
  /\ Registered = {w \in Workers : pc[w] \in Checking \/ blocked[w]}
  /\ Idle \cap Checking = {} /\ Idle \cap Busy = {} /\ Checking \cap Busy = {}
  BY DEF Inactive, Registered, Idle, Checking, Busy, Searching, Locked

\* A quiet step of a worker keeps the rest of Core: neither set the counters
\* count changes.
LEMMA QuietWorker ==
  ASSUME Core, NEW w \in Workers, NEW P \in {Idle, Checking, Busy}, Quiet(w, P)
  PROVE  CoreRest'
<1>1. PICK x \in P \ {"waking", "blocked"} : /\ pc' = [pc EXCEPT ![w] = x]
                                             /\ x = "push" => depth'[w] >= 1
  <2>1. pc'[w] \in P \ {"waking", "blocked"} BY DEF Quiet
  <2> QED BY <2>1 DEF Quiet
<1>2. pc \in [Threads -> WorkerPcs \cup PosterPcs] /\ w \in Threads
  BY Apart DEF Core, Shape, PcOK
<1>3. WalksOK'
  BY <1>1, <1>2 DEF Core, WalksOK, Quiet, OtherWalks
<1>4. BlockedOK'
  BY <1>1, <1>2, Apart DEF Core, BlockedOK, Quiet
<1>5. PushOK'
  BY <1>1, <1>2, Apart DEF Core, PushOK, Quiet, OtherDepths
<1>6. Inactive' = Inactive /\ Registered' = Registered
  <2>1. \A v \in Workers : /\ pc'[v] \in Idle \cup Checking <=> pc[v] \in Idle \cup Checking
                           /\ pc'[v] \in Checking <=> pc[v] \in Checking
    BY <1>1, <1>2, Classes, Apart DEF Quiet
  <2>2. blocked' = blocked BY DEF Quiet
  <2> QED BY <2>1, <2>2, Classes DEF Inactive, Registered, Idle, Checking, Searching, Locked
<1>7. CountersExact'
  BY <1>6 DEF Core, CountersExact, Quiet, SameCounts
<1> QED BY <1>3, <1>4, <1>5, <1>7 DEF CoreRest

\* The same for a quiet step of a poster, which the counters do not count at
\* all.
LEMMA QuietPoster ==
  ASSUME Core, NEW p \in Posters, Quiet(p, PosterPcs)
  PROVE  CoreRest'
<1>1. PICK x \in PosterPcs \ {"waking", "blocked"} : pc' = [pc EXCEPT ![p] = x]
  <2>1. pc'[p] \in PosterPcs \ {"waking", "blocked"} BY DEF Quiet
  <2> QED BY <2>1 DEF Quiet
<1>2. pc \in [Threads -> WorkerPcs \cup PosterPcs] /\ p \in Threads
  BY Apart DEF Core, Shape, PcOK
<1>3. \A v \in Workers : pc'[v] = pc[v] /\ blocked'[v] = blocked[v] /\ depth'[v] = depth[v]
  BY <1>1, <1>2, Apart DEF Quiet, OtherDepths
<1>4. WalksOK'
  BY <1>1, <1>2 DEF Core, WalksOK, Quiet, OtherWalks
<1>5. BlockedOK' /\ PushOK'
  BY <1>3 DEF Core, BlockedOK, PushOK
<1>6. CountersExact'
  <2>1. Inactive' = Inactive /\ Registered' = Registered
    BY <1>3 DEF Inactive, Registered
  <2> QED BY <2>1 DEF Core, CountersExact, Quiet, SameCounts
<1> QED BY <1>4, <1>5, <1>6 DEF CoreRest

\* Starting a walk keeps the walks well formed and touches no sleeper.
LEMMA CallsPreserves ==
  ASSUME Core, NEW t \in Threads, Calls(t), blocked' = blocked,
         pc[t] # "blocked"
  PROVE  WalksOK' /\ BlockedOK' /\ PushOK'
<1> DEFINE x == pc'[t]
<1>1. /\ pc' = [pc EXCEPT ![t] = x]
      /\ x \in {"waking", "proceed", "start_looking", "wait_until", "wait", "terminate"}
      /\ x = "waking" =>
            /\ wake'[t].next <= wake'[t].last
            /\ wake'[t].quota >= 1
            /\ t \in Workers => wake'[t].after \in {"proceed", "start_looking", "wait_until"}
            /\ t \in Posters => wake'[t].after \in {"wait", "terminate"}
  BY DEF Calls
<1>2. pc \in [Threads -> WorkerPcs \cup PosterPcs]
  BY DEF Core, Shape, PcOK
<1>3. WalksOK'
  BY <1>1, <1>2 DEF Core, WalksOK, Calls, OtherWalks
<1>4. BlockedOK'
  BY <1>1, <1>2, Apart DEF Core, BlockedOK
<1>5. PushOK'
  BY <1>1, <1>2, Apart DEF Core, PushOK, Calls
<1> QED BY <1>3, <1>4, <1>5

\* Starting a walk changes no count when the caller is busy.
LEMMA CallsCounts ==
  ASSUME Core, NEW t \in Threads, Calls(t), blocked' = blocked, SameCounts,
         t \in Workers => pc[t] \in Busy
  PROVE  CountersExact'
<1> DEFINE x == pc'[t]
<1>1. /\ pc' = [pc EXCEPT ![t] = x]
      /\ x \in {"waking", "proceed", "start_looking", "wait_until", "wait", "terminate"}
  BY DEF Calls
<1>2. pc \in [Threads -> WorkerPcs \cup PosterPcs]
  BY DEF Core, Shape, PcOK
<1>3. \A v \in Workers : /\ pc'[v] \in Idle \cup Checking <=> pc[v] \in Idle \cup Checking
                         /\ pc'[v] \in Checking <=> pc[v] \in Checking
  <2>1. x \notin Idle /\ x \notin Checking
    BY <1>1 DEF Idle, Checking, Searching
  <2> QED BY <1>1, <1>2, <2>1, Classes, Apart
<1>4. Inactive' = Inactive /\ Registered' = Registered
  BY <1>3, Classes DEF Inactive, Registered, Idle, Checking, Searching, Locked
<1> QED BY <1>4 DEF Core, CountersExact, SameCounts

\* Sets of workers are finite, and adding or removing one worker changes their
\* size by one.
LEMMA WorkerSets ==
  /\ IsFiniteSet(Workers) /\ Cardinality(Workers) = N
  /\ \A S \in SUBSET Workers :
       /\ IsFiniteSet(S) /\ Cardinality(S) \in 0 .. N
       /\ \A w \in Workers : /\ w \notin S => Cardinality(S \cup {w}) = Cardinality(S) + 1
                             /\ w \in S => Cardinality(S \ {w}) = Cardinality(S) - 1
<1>1. IsFiniteSet(Workers) /\ Cardinality(Workers) = N
  BY FS_Interval DEF Workers
<1>2. ASSUME NEW S \in SUBSET Workers
      PROVE  IsFiniteSet(S) /\ Cardinality(S) \in 0 .. N
  <2>1. IsFiniteSet(S) /\ Cardinality(S) <= N
    BY <1>1, FS_Subset
  <2>2. Cardinality(S) \in Nat
    BY <2>1, FS_CardinalityType
  <2> QED BY <2>1, <2>2
<1>3. ASSUME NEW S \in SUBSET Workers, NEW w \in Workers
      PROVE  /\ w \notin S => Cardinality(S \cup {w}) = Cardinality(S) + 1
             /\ w \in S => Cardinality(S \ {w}) = Cardinality(S) - 1
  BY <1>2, FS_AddElement, FS_RemoveElement
<1> QED BY <1>1, <1>2, <1>3

\* add_inactive_thread counts exactly the worker that starts to look.
LEMMA StartLookingCore ==
  ASSUME Core, NEW w \in Workers, StartLooking(w)
  PROVE  CoreRest'
<1>1. /\ pc \in [Threads -> WorkerPcs \cup PosterPcs] /\ w \in Threads /\ counters \in RawCounters
      /\ pc[w] = "start_looking" /\ pc' = [pc EXCEPT ![w] = "probe"]
      /\ blocked' = blocked /\ wake' = wake /\ depth' = depth
      /\ counters' = [counters EXCEPT !.inactive = @ + 1]
  BY Apart DEF Core, Shape, PcOK, StartLooking, Goto, control
<1>2. WalksOK' /\ BlockedOK' /\ PushOK'
  BY <1>1, Apart DEF Core, WalksOK, BlockedOK, PushOK
<1>3. Inactive' = Inactive \cup {w} /\ w \notin Inactive /\ Inactive \in SUBSET Workers
  BY <1>1, Apart DEF Inactive, Searching, Locked
<1>4. Registered' = Registered
  BY <1>1, Apart DEF Registered
<1>5. counters'.sleeping = counters.sleeping /\ counters'.inactive = counters.inactive + 1
  BY <1>1 DEF RawCounters
<1> QED BY <1>2, <1>3, <1>4, <1>5, WorkerSets DEF Core, CoreRest, CountersExact

\* sub_inactive_thread discounts exactly the worker that found work.
LEMMA WorkFoundCore ==
  ASSUME TypeOK, Core, NEW w \in Workers, WorkFound(w)
  PROVE  CoreRest'
<1>1. /\ pc \in [Threads -> WorkerPcs \cup PosterPcs] /\ w \in Threads /\ counters \in RawCounters
      /\ pc[w] = "work_found" /\ blocked' = blocked /\ depth' = depth
      /\ counters' = [counters EXCEPT !.inactive = @ - 1]
  BY Apart DEF Core, Shape, PcOK, WorkFound, control
<1>2. threads_to_wake(counters) \in 0 .. N
  BY DEF TypeOK, CounterStates, threads_to_wake, Least
<1>3. \/ pc' = [pc EXCEPT ![w] = "proceed"] /\ wake' = wake
      \/ /\ pc' = [pc EXCEPT ![w] = "waking"] /\ threads_to_wake(counters) >= 1
         /\ wake' = [wake EXCEPT ![w] = [next |-> 0, last |-> N - 1,
                       quota |-> threads_to_wake(counters), after |-> "proceed"]]
  <2>1. wake \in [Threads -> Walks] /\ CallWake(w, 0, N - 1, threads_to_wake(counters), "proceed")
    BY DEF Core, Shape, WorkFound
  <2> QED BY <1>1, <1>2, <2>1, Apart, WakeTypes
<1>4. Calls(w)
  <2>1. wake \in [Threads -> Walks] BY DEF Core, Shape
  <2> QED BY <1>1, <1>2, <1>3, <2>1, Apart DEF Calls, OtherWalks
<1>5. WalksOK' /\ BlockedOK' /\ PushOK'
  BY <1>1, <1>4, CallsPreserves
<1>6. Inactive' = Inactive \ {w} /\ w \in Inactive /\ Inactive \in SUBSET Workers
  BY <1>1, <1>3, Apart DEF Inactive, Searching, Locked
<1>7. Registered' = Registered
  BY <1>1, <1>3, Apart DEF Registered
<1>8. counters'.sleeping = counters.sleeping /\ counters'.inactive = counters.inactive - 1
  BY <1>1 DEF RawCounters
<1> QED BY <1>5, <1>6, <1>7, <1>8, WorkerSets DEF Core, CoreRest, CountersExact

\* try_add_sleeping_thread counts exactly the worker that registers.
LEMMA RegisterCore ==
  ASSUME Core, NEW w \in Workers, Register(w)
  PROVE  CoreRest'
<1>0. /\ pc \in [Threads -> WorkerPcs \cup PosterPcs] /\ w \in Threads /\ counters \in RawCounters
      /\ pc[w] = "register" /\ blocked' = blocked /\ wake' = wake /\ depth' = depth
  BY Apart DEF Core, Shape, PcOK, Register, control
<1>1. CASE counters' = counters /\ pc' = [pc EXCEPT ![w] = "interrupted"]
  <2>1. Quiet(w, Idle)
    BY <1>0, <1>1 DEF Quiet, Idle, SameCounts, OtherWalks, OtherDepths
  <2> QED BY <2>1, QuietWorker
<1>2. CASE counters' = [counters EXCEPT !.sleeping = @ + 1] /\ pc' = [pc EXCEPT ![w] = "check_bcast"]
  <2>1. WalksOK' /\ BlockedOK' /\ PushOK'
    BY <1>0, <1>2, Apart DEF Core, WalksOK, BlockedOK, PushOK
  <2>2. Registered' = Registered \cup {w} /\ w \notin Registered /\ Registered \in SUBSET Workers
    BY <1>0, <1>2, Apart DEF Registered, Core, BlockedOK
  <2>3. Inactive' = Inactive
    BY <1>0, <1>2, Apart DEF Inactive, Searching, Locked
  <2>4. counters'.sleeping = counters.sleeping + 1 /\ counters'.inactive = counters.inactive
    BY <1>0, <1>2 DEF RawCounters
  <2> QED BY <2>1, <2>2, <2>3, <2>4, WorkerSets DEF Core, CoreRest, CountersExact
<1> QED BY <1>1, <1>2 DEF Register, Goto

\* Blocking after the last check keeps the worker registered.
LEMMA LastCheckInjectorCore ==
  ASSUME Core, NEW w \in Workers, LastCheckInjector(w)
  PROVE  CoreRest'
<1>0. /\ pc \in [Threads -> WorkerPcs \cup PosterPcs] /\ w \in Threads /\ counters \in RawCounters
      /\ pc[w] = "check_inj" /\ counters' = counters /\ wake' = wake /\ depth' = depth
      /\ blocked \in [Workers -> BOOLEAN]
  BY Apart DEF Core, Shape, PcOK, LastCheckInjector, control
<1>1. CASE blocked' = blocked /\ pc' = [pc EXCEPT ![w] = "unregister"]
  <2>1. Quiet(w, Checking)
    BY <1>0, <1>1 DEF Quiet, Checking, SameCounts, OtherWalks, OtherDepths
  <2> QED BY <2>1, QuietWorker
<1>2. CASE blocked' = [blocked EXCEPT ![w] = TRUE] /\ pc' = [pc EXCEPT ![w] = "blocked"]
  <2>1. WalksOK' /\ BlockedOK' /\ PushOK'
    BY <1>0, <1>2, Apart DEF Core, WalksOK, BlockedOK, PushOK
  <2>2. Registered' = Registered
    BY <1>0, <1>2, Apart DEF Registered
  <2>3. Inactive' = Inactive
    BY <1>0, <1>2, Apart DEF Inactive, Searching, Locked
  <2> QED BY <1>0, <2>1, <2>2, <2>3 DEF Core, CoreRest, CountersExact
<1> QED BY <1>1, <1>2 DEF LastCheckInjector, Goto

\* A worker whose last check finds a job takes itself off the count.
LEMMA UnregisterCore ==
  ASSUME Core, NEW w \in Workers, Unregister(w)
  PROVE  CoreRest'
<1>1. /\ pc \in [Threads -> WorkerPcs \cup PosterPcs] /\ w \in Threads /\ counters \in RawCounters
      /\ pc[w] = "unregister" /\ pc' = [pc EXCEPT ![w] = "awaken"]
      /\ blocked' = blocked /\ wake' = wake /\ depth' = depth
      /\ counters' = [counters EXCEPT !.sleeping = @ - 1]
  BY Apart DEF Core, Shape, PcOK, Unregister, Goto, control
<1>2. WalksOK' /\ BlockedOK' /\ PushOK'
  BY <1>1, Apart DEF Core, WalksOK, BlockedOK, PushOK
<1>3. Registered' = Registered \ {w} /\ w \in Registered /\ Registered \in SUBSET Workers
  BY <1>1, Apart DEF Registered, Core, BlockedOK
<1>4. Inactive' = Inactive
  BY <1>1, Apart DEF Inactive, Searching, Locked
<1>5. counters'.sleeping = counters.sleeping - 1 /\ counters'.inactive = counters.inactive
  BY <1>1 DEF RawCounters
<1> QED BY <1>2, <1>3, <1>4, <1>5, WorkerSets DEF Core, CoreRest, CountersExact

\* The waker, not the sleeper, takes a woken worker off the count, once.
LEMMA WakeThreadCore ==
  ASSUME Core, NEW t \in Threads, WakeThread(t)
  PROVE  CoreRest'
<1> DEFINE i == wake[t].next
           q == IF blocked[i] THEN wake[t].quota - 1 ELSE wake[t].quota
<1>1. /\ pc \in [Threads -> WorkerPcs \cup PosterPcs] /\ counters \in RawCounters
      /\ pc[t] = "waking" /\ depth' = depth /\ blocked \in [Workers -> BOOLEAN]
      /\ blocked' = [blocked EXCEPT ![i] = FALSE] /\ pc[i] \notin Locked
      /\ counters' = IF blocked[i] THEN [counters EXCEPT !.sleeping = @ - 1] ELSE counters
  BY DEF Core, Shape, PcOK, WakeThread, control
<1>2. /\ wake[t] \in Walks /\ i \in Workers /\ wake[t].last \in Workers
      /\ wake[t].quota \in Int /\ i \in Int /\ wake[t].last \in Int
      /\ i <= wake[t].last /\ wake[t].quota >= 1
      /\ t \in Workers => wake[t].after \in {"proceed", "start_looking", "wait_until"}
      /\ t \in Posters => wake[t].after \in {"wait", "terminate"}
  <2>1. wake[t] \in Walks BY DEF Core, Shape
  <2> QED BY <1>1, <2>1, Apart DEF Walks, Core, WalksOK
<1>3. \/ pc' = [pc EXCEPT ![t] = wake[t].after] /\ wake' = [wake EXCEPT ![t] = NoWalk]
      \/ /\ pc' = pc /\ wake' = [wake EXCEPT ![t].next = i + 1, ![t].quota = q]
         /\ i # wake[t].last /\ q # 0
  BY DEF WakeThread, Goto
<1>4. wake \in [Threads -> Walks] BY DEF Core, Shape
<1>5. WalksOK'
  <2>1. CASE pc' = [pc EXCEPT ![t] = wake[t].after] /\ wake' = [wake EXCEPT ![t] = NoWalk]
    <3>1. wake[t].after # "waking"
      BY <1>2 DEF Threads
    <3> QED BY <1>1, <1>4, <2>1, <3>1 DEF Core, WalksOK
  <2>2. CASE /\ pc' = pc /\ wake' = [wake EXCEPT ![t].next = i + 1, ![t].quota = q]
             /\ i # wake[t].last /\ q # 0
    <3>1. /\ wake'[t] = [wake[t] EXCEPT !.next = i + 1, !.quota = q]
          /\ \A u \in Threads \ {t} : wake'[u] = wake[u]
      BY <1>4, <2>2
    <3>2. /\ wake'[t].next = i + 1 /\ wake'[t].quota = q /\ wake'[t].last = wake[t].last
          /\ wake'[t].after = wake[t].after
      BY <1>2, <3>1 DEF Walks
    <3>3. i + 1 <= wake[t].last /\ q >= 1
      BY <1>2, <2>2
    <3>4. ASSUME NEW u \in Threads, u # t, pc'[u] = "waking"
          PROVE  /\ wake'[u].next <= wake'[u].last /\ wake'[u].quota >= 1
                 /\ u \in Workers => wake'[u].after \in {"proceed", "start_looking", "wait_until"}
                 /\ u \in Posters => wake'[u].after \in {"wait", "terminate"}
      <4>1. wake'[u] = wake[u] /\ pc[u] = "waking" BY <2>2, <3>1, <3>4
      <4> QED BY <4>1 DEF Core, WalksOK
    <3> QED BY <1>2, <3>2, <3>3, <3>4 DEF WalksOK
  <2> QED BY <1>3, <2>1, <2>2
<1>6. ASSUME NEW v \in Workers
      PROVE  \/ pc'[v] = pc[v]
             \/ pc[v] = "waking" /\ pc'[v] \in {"proceed", "start_looking", "wait_until"}
  <2>1. v \in Threads BY Apart
  <2> QED BY <1>1, <1>2, <1>3, <2>1
<1>7. BlockedOK' /\ PushOK'
  BY <1>1, <1>2, <1>6 DEF Core, BlockedOK, PushOK
<1>8. Inactive' = Inactive
  BY <1>6 DEF Inactive, Searching, Locked
<1>9. CASE ~blocked[i]
  <2>1. Registered' = Registered
    BY <1>1, <1>2, <1>6, <1>9 DEF Registered
  <2> QED BY <1>1, <1>5, <1>7, <1>8, <1>9, <2>1 DEF Core, CoreRest, CountersExact
<1>10. CASE blocked[i]
  <2>1. Registered' = Registered \ {i} /\ i \in Registered /\ Registered \in SUBSET Workers
    BY <1>1, <1>2, <1>6, <1>10 DEF Registered, Locked
  <2>2. counters'.sleeping = counters.sleeping - 1 /\ counters'.inactive = counters.inactive
    BY <1>1, <1>10 DEF RawCounters
  <2> QED BY <1>2, <1>5, <1>7, <1>8, <2>1, <2>2, WorkerSets DEF Core, CoreRest, CountersExact
<1> QED BY <1>9, <1>10

\* The steps of a searching worker that change no count are quiet.
LEMMA IdleQuiet ==
  ASSUME Core, NEW w \in Workers,
         \/ Probe(w) \/ PopLocal(w) \/ PopBroadcast(w) \/ Steal(w) \/ PopInjected(w)
         \/ SpinRound(w) \/ AnnounceSleepy(w) \/ GetSleepy(w) \/ FallAsleep(w)
         \/ InterruptedByJob(w) \/ Awaken(w)
  PROVE  Quiet(w, Idle)
<1>0. pc \in [Threads -> WorkerPcs \cup PosterPcs] /\ w \in Threads /\ counters \in RawCounters
  BY Apart DEF Core, Shape, PcOK
<1>1. ASSUME Probe(w) PROVE Quiet(w, Idle)
  <2>1. /\ pc' = [pc EXCEPT ![w] = "work_found"] \/ pc' = [pc EXCEPT ![w] = "pop"]
        /\ pc[w] = "probe"
        /\ blocked' = blocked /\ wake' = wake /\ depth' = depth /\ SameCounts
    BY <1>0, <1>1 DEF Probe, Goto, control, SameCounts
  <2> QED BY <1>0, <2>1 DEF Quiet, Idle, OtherWalks, OtherDepths, Searching
<1>2. ASSUME PopLocal(w) PROVE Quiet(w, Idle)
  <2>1. /\ pc' = [pc EXCEPT ![w] = "work_found"] \/ pc' = [pc EXCEPT ![w] = "pop_bcast"]
        /\ pc[w] = "pop"
        /\ blocked' = blocked /\ wake' = wake /\ depth' = depth /\ SameCounts
    BY <1>0, <1>2 DEF PopLocal, Goto, control, SameCounts
  <2> QED BY <1>0, <2>1 DEF Quiet, Idle, OtherWalks, OtherDepths, Searching
<1>3. ASSUME PopBroadcast(w) PROVE Quiet(w, Idle)
  <2>1. /\ pc' = [pc EXCEPT ![w] = "work_found"] \/ pc' = [pc EXCEPT ![w] = "steal"]
        /\ pc[w] = "pop_bcast"
        /\ blocked' = blocked /\ wake' = wake /\ depth' = depth /\ SameCounts
    BY <1>0, <1>3 DEF PopBroadcast, Goto, control, SameCounts
  <2> QED BY <1>0, <2>1 DEF Quiet, Idle, OtherWalks, OtherDepths, Searching
<1>4. ASSUME Steal(w) PROVE Quiet(w, Idle)
  <2>1. /\ pc' = [pc EXCEPT ![w] = "work_found"] \/ pc' = [pc EXCEPT ![w] = "steal"] \/ pc' = [pc EXCEPT ![w] = "pop_inj"]
        /\ pc[w] = "steal"
        /\ blocked' = blocked /\ wake' = wake /\ depth' = depth /\ SameCounts
    BY <1>0, <1>4 DEF Steal, Goto, control, SameCounts
  <2> QED BY <1>0, <2>1 DEF Quiet, Idle, OtherWalks, OtherDepths, Searching
<1>5. ASSUME PopInjected(w) PROVE Quiet(w, Idle)
  <2>1. /\ pc' = [pc EXCEPT ![w] = "work_found"] \/ pc' = [pc EXCEPT ![w] = "no_work"]
        /\ pc[w] = "pop_inj"
        /\ blocked' = blocked /\ wake' = wake /\ depth' = depth /\ SameCounts
    BY <1>0, <1>5 DEF PopInjected, Goto, control, SameCounts
  <2> QED BY <1>0, <2>1 DEF Quiet, Idle, OtherWalks, OtherDepths, Searching
<1>6. ASSUME SpinRound(w) PROVE Quiet(w, Idle)
  <2>1. /\ pc' = [pc EXCEPT ![w] = "probe"]
        /\ pc[w] = "no_work"
        /\ blocked' = blocked /\ wake' = wake /\ depth' = depth /\ SameCounts
    BY <1>0, <1>6 DEF SpinRound, Goto, control, SameCounts
  <2> QED BY <1>0, <2>1 DEF Quiet, Idle, OtherWalks, OtherDepths, Searching
<1>7. ASSUME AnnounceSleepy(w) PROVE Quiet(w, Idle)
  <2>1. /\ pc' = [pc EXCEPT ![w] = "probe"]
        /\ pc[w] = "no_work"
        /\ blocked' = blocked /\ wake' = wake /\ depth' = depth /\ SameCounts
    BY <1>0, <1>7 DEF AnnounceSleepy, Goto, control, SameCounts, toggled_if_active, increment_jobs_counter, RawCounters
  <2> QED BY <1>0, <2>1 DEF Quiet, Idle, OtherWalks, OtherDepths, Searching
<1>8. ASSUME GetSleepy(w) PROVE Quiet(w, Idle)
  <2>1. /\ pc' = [pc EXCEPT ![w] = "fall_asleep"] \/ pc' = [pc EXCEPT ![w] = "probe"]
        /\ pc[w] = "no_work"
        /\ blocked' = blocked /\ wake' = wake /\ depth' = depth /\ SameCounts
    BY <1>0, <1>8 DEF GetSleepy, Goto, control, SameCounts
  <2> QED BY <1>0, <2>1 DEF Quiet, Idle, OtherWalks, OtherDepths, Searching
<1>9. ASSUME FallAsleep(w) PROVE Quiet(w, Idle)
  <2>1. /\ pc' = [pc EXCEPT ![w] = "register"] \/ pc' = [pc EXCEPT ![w] = "probe"]
        /\ pc[w] = "fall_asleep"
        /\ blocked' = blocked /\ wake' = wake /\ depth' = depth /\ SameCounts
    BY <1>0, <1>9 DEF FallAsleep, Goto, control, SameCounts
  <2> QED BY <1>0, <2>1 DEF Quiet, Idle, OtherWalks, OtherDepths, Searching
<1>10. ASSUME InterruptedByJob(w) PROVE Quiet(w, Idle)
  <2>1. /\ pc' = [pc EXCEPT ![w] = "probe"]
        /\ pc[w] = "interrupted"
        /\ blocked' = blocked /\ wake' = wake /\ depth' = depth /\ SameCounts
    BY <1>0, <1>10 DEF InterruptedByJob, Goto, control, SameCounts
  <2> QED BY <1>0, <2>1 DEF Quiet, Idle, OtherWalks, OtherDepths, Searching
<1>11. ASSUME Awaken(w) PROVE Quiet(w, Idle)
  <2>1. /\ pc' = [pc EXCEPT ![w] = "probe"]
        /\ pc[w] = "awaken" \/ (pc[w] = "blocked" /\ ~blocked[w])
        /\ blocked' = blocked /\ wake' = wake /\ depth' = depth /\ SameCounts
    BY <1>0, <1>11 DEF Awaken, Goto, control, SameCounts
  <2> QED BY <1>0, <2>1 DEF Quiet, Idle, OtherWalks, OtherDepths, Searching
<1> QED BY <1>1, <1>2, <1>3, <1>4, <1>5, <1>6, <1>7, <1>8, <1>9, <1>10, <1>11

\* Looking at the own broadcasts for the last time is quiet.
LEMMA CheckingQuiet ==
  ASSUME Core, NEW w \in Workers, LastCheckBroadcasts(w)
  PROVE  Quiet(w, Checking)
<1>0. pc \in [Threads -> WorkerPcs \cup PosterPcs] /\ w \in Threads
  BY Apart DEF Core, Shape, PcOK
<1>1. /\ pc' = [pc EXCEPT ![w] = "unregister"] \/ pc' = [pc EXCEPT ![w] = "check_inj"]
      /\ pc[w] = "check_bcast"
      /\ blocked' = blocked /\ wake' = wake /\ depth' = depth /\ SameCounts
  BY <1>0 DEF LastCheckBroadcasts, Goto, control, SameCounts
<1> QED BY <1>0, <1>1 DEF Quiet, Checking, OtherWalks, OtherDepths

\* The steps of a busy worker that wake nobody are quiet.
LEMMA BusyQuiet ==
  ASSUME Core, NEW w \in Workers,
         \/ WaitUntil(w) \/ Execute(w) \/ Return(w) \/ Fork(w) \/ SetLockLatch(w)
         \/ \E kind \in {"spin", "count"} : Push(w, kind)
  PROVE  Quiet(w, Busy)
<1>0. /\ pc \in [Threads -> WorkerPcs \cup PosterPcs] /\ w \in Threads
      /\ depth \in [Workers -> 0 .. MaxDepth]
  BY Apart DEF Core, Shape, PcOK
<1>1. ASSUME WaitUntil(w) PROVE Quiet(w, Busy)
  <2>1. /\ pc' = [pc EXCEPT ![w] = "proceed"] \/ pc' = [pc EXCEPT ![w] = "start_looking"]
        /\ pc[w] = "wait_until"
        /\ blocked' = blocked /\ wake' = wake /\ depth' = depth /\ SameCounts
    BY <1>0, <1>1 DEF WaitUntil, Goto, control, SameCounts, OtherDepths
  <2> QED BY <1>0, <2>1 DEF Quiet, Busy, OtherWalks, OtherDepths
<1>2. ASSUME Execute(w) PROVE Quiet(w, Busy)
  <2>1. /\ pc' = [pc EXCEPT ![w] = "run"]
        /\ pc[w] = "proceed"
        /\ blocked' = blocked /\ wake' = wake /\ depth' = depth /\ SameCounts
    BY <1>0, <1>2 DEF Execute, Goto, control, SameCounts, OtherDepths
  <2> QED BY <1>0, <2>1 DEF Quiet, Busy, OtherWalks, OtherDepths
<1>3. ASSUME Return(w) PROVE Quiet(w, Busy)
  <2>1. /\ pc' = [pc EXCEPT ![w] = "stopped"] \/ pc' = [pc EXCEPT ![w] = "finish"]
        /\ pc[w] = "proceed"
        /\ blocked' = blocked /\ wake' = wake /\ OtherDepths(w) /\ SameCounts
    BY <1>0, <1>3 DEF Return, Goto, control, SameCounts, OtherDepths
  <2> QED BY <1>0, <2>1 DEF Quiet, Busy, OtherWalks, OtherDepths
<1>4. ASSUME Fork(w) PROVE Quiet(w, Busy)
  <2>1. /\ pc' = [pc EXCEPT ![w] = "push"]
        /\ pc[w] = "run"
        /\ blocked' = blocked /\ wake' = wake /\ OtherDepths(w) /\ depth'[w] >= 1 /\ SameCounts
    BY <1>0, <1>4 DEF Fork, Goto, control, SameCounts, OtherDepths
  <2> QED BY <1>0, <2>1 DEF Quiet, Busy, OtherWalks, OtherDepths
<1>5. ASSUME SetLockLatch(w) PROVE Quiet(w, Busy)
  <2>1. /\ pc' = [pc EXCEPT ![w] = "start_looking"]
        /\ pc[w] \in {"run", "finish"}
        /\ blocked' = blocked /\ wake' = wake /\ depth' = depth /\ SameCounts
    BY <1>0, <1>5 DEF SetLockLatch, Goto, control, SameCounts, OtherDepths
  <2> QED BY <1>0, <2>1 DEF Quiet, Busy, OtherWalks, OtherDepths
<1>6. ASSUME NEW kind \in {"spin", "count"}, Push(w, kind) PROVE Quiet(w, Busy)
  <2>1. /\ pc' = [pc EXCEPT ![w] = "new_jobs"]
        /\ pc[w] = "push"
        /\ blocked' = blocked /\ wake' = wake /\ depth' = depth /\ SameCounts
    BY <1>0, <1>6 DEF Push, Goto, control, SameCounts
  <2> QED BY <1>0, <2>1 DEF Quiet, Busy, OtherWalks, OtherDepths
<1> QED BY <1>1, <1>2, <1>3, <1>4, <1>5, <1>6

\* The search loop keeps the rest of Core.
LEMMA SearchCore ==
  ASSUME TypeOK, Core, NEW w \in Workers, Search(w)
  PROVE  CoreRest'
  BY IdleQuiet, BusyQuiet, QuietWorker, StartLookingCore, WorkFoundCore DEF Search

\* Falling asleep keeps the rest of Core.
LEMMA FallingAsleepCore ==
  ASSUME Core, NEW w \in Workers, FallingAsleep(w)
  PROVE  CoreRest'
  BY IdleQuiet, CheckingQuiet, QuietWorker, RegisterCore, LastCheckInjectorCore, UnregisterCore
     DEF FallingAsleep

\* A busy thread that calls wake_any_threads keeps the rest of Core.
LEMMA CallWakeCore ==
  ASSUME Core, NEW t \in Threads, NEW from \in Workers, NEW to \in Workers, from <= to,
         NEW quota \in 0 .. N, NEW after,
         t \in Workers => after \in {"proceed", "start_looking", "wait_until"} /\ pc[t] \in Busy,
         t \in Posters => after \in {"wait", "terminate"} /\ pc[t] \in PosterPcs,
         CallWake(t, from, to, quota, after),
         blocked' = blocked, depth' = depth, SameCounts
  PROVE  CoreRest'
<1>1. pc \in [Threads -> WorkerPcs \cup PosterPcs] /\ wake \in [Threads -> Walks]
  BY DEF Core, Shape, PcOK
<1>2. after \in {"proceed", "start_looking", "wait_until", "wait", "terminate"}
  BY DEF Threads
<1>3. \/ quota = 0 /\ pc' = [pc EXCEPT ![t] = after] /\ wake' = wake
      \/ /\ quota # 0 /\ pc' = [pc EXCEPT ![t] = "waking"]
         /\ wake' = [wake EXCEPT ![t] = [next |-> from, last |-> to, quota |-> quota, after |-> after]]
  BY <1>1, <1>2, WakeTypes
<1>4. Calls(t)
  BY <1>1, <1>2, <1>3 DEF Calls, OtherWalks
<1>5. pc[t] # "blocked"
  BY DEF Busy, PosterPcs, Threads
<1> QED BY <1>4, <1>5, CallsPreserves, CallsCounts DEF CoreRest

\* Setting a forked job's latch keeps the rest of Core.
LEMMA SetCoreLatchCore ==
  ASSUME Core, NEW w \in Workers, SetCoreLatch(w)
  PROVE  CoreRest'
<1>1. PICK j \in ForkJobs, q \in {0, 1} : CallWake(w, j.owner, j.owner, q, "start_looking")
  BY DEF SetCoreLatch
<1>2. j.owner \in Workers /\ q \in 0 .. N /\ j.owner <= j.owner
  BY Apart DEF ForkJobs
<1>3. w \notin Posters /\ pc[w] \in Busy /\ blocked' = blocked /\ depth' = depth /\ SameCounts
  BY Apart DEF SetCoreLatch, Busy, SameCounts
<1> QED BY <1>1, <1>2, <1>3, Apart, CallWakeCore

\* A busy worker keeps the rest of Core.
LEMMA WorkingCore ==
  ASSUME Core, NEW w \in Workers, Working(w)
  PROVE  CoreRest'
  BY BusyQuiet, QuietWorker, SetCoreLatchCore DEF Working

\* new_jobs changes only the JEC, and wakes at most every worker.
LEMMA NewJobsCounts ==
  ASSUME TypeOK, NEW t \in Threads, NewJobs(t)
  PROVE  SameCounts /\ NumToWake(counters', 1, was_empty[t]) \in 0 .. N
<1>1. counters \in CounterStates BY DEF TypeOK
<1>2. SameCounts
  BY <1>1 DEF NewJobs, toggled_if_sleepy, increment_jobs_counter, CounterStates, SameCounts
<1>3. counters.sleeping \in 0 .. N /\ counters.inactive \in 0 .. N
  BY <1>1 DEF CounterStates
<1> QED BY <1>2, <1>3 DEF SameCounts, NumToWake, Least, awake_but_idle_threads

\* new_jobs keeps the rest of Core.
LEMMA NewJobsCore ==
  ASSUME TypeOK, Core, NEW t \in Threads, NewJobs(t)
  PROVE  CoreRest'
<1>1. /\ pc[t] \in Busy /\ pc[t] \in PosterPcs /\ blocked' = blocked /\ depth' = depth
      /\ CallWake(t, 0, N - 1, NumToWake(counters', 1, was_empty[t]),
                  IF t \in Workers THEN "wait_until" ELSE "wait")
  BY DEF NewJobs, Busy, PosterPcs, control
<1>2. t \in Posters => t \notin Workers
  BY Apart
<1>3. 0 \in Workers /\ N - 1 \in Workers /\ 0 <= N - 1
  BY Apart
<1> QED BY <1>1, <1>2, <1>3, NewJobsCounts, CallWakeCore

\* The steps of a poster that wake nobody are quiet.
LEMMA PosterQuiet ==
  ASSUME Core, NEW p \in Posters,
         \/ StartInject(p) \/ Inject(p) \/ StartBroadcast(p) \/ LatchReleased(p)
         \/ PushBroadcast(p) /\ wake[p].next # N - 1
         \/ DropPool /\ p = Owner
  PROVE  Quiet(p, PosterPcs)
<1>0. /\ pc \in [Threads -> WorkerPcs \cup PosterPcs] /\ p \in Threads /\ p \notin Workers
      /\ wake \in [Threads -> Walks]
  BY Apart DEF Core, Shape, PcOK
<1>1. CASE StartInject(p) \/ Inject(p) \/ LatchReleased(p)
  <2>1. /\ \/ pc' = [pc EXCEPT ![p] = "inject"] \/ pc' = [pc EXCEPT ![p] = "new_jobs"]
           \/ pc' = [pc EXCEPT ![p] = "ready"]
        /\ pc[p] \in {"ready", "inject", "wait"}
        /\ blocked' = blocked /\ wake' = wake /\ depth' = depth /\ SameCounts
    BY <1>1 DEF StartInject, Inject, LatchReleased, Goto, control, SameCounts
  <2> QED BY <1>0, <2>1 DEF Quiet, PosterPcs, OtherWalks, OtherDepths
<1>2. CASE StartBroadcast(p)
  <2>1. /\ pc' = [pc EXCEPT ![p] = "bcast_push"] /\ pc[p] = "ready"
        /\ wake' = [wake EXCEPT ![p].next = 0]
        /\ blocked' = blocked /\ depth' = depth /\ SameCounts
    BY <1>2 DEF StartBroadcast, Goto, control, SameCounts
  <2> QED BY <1>0, <2>1 DEF Quiet, PosterPcs, OtherWalks, OtherDepths
<1>3. CASE PushBroadcast(p) /\ wake[p].next # N - 1
  <2>1. /\ pc[p] = "bcast_push" /\ blocked' = blocked /\ depth' = depth /\ SameCounts
        /\ pc' = pc /\ wake' = [wake EXCEPT ![p].next = wake[p].next + 1]
    BY <1>3 DEF PushBroadcast, control, SameCounts
  <2> QED BY <1>0, <2>1 DEF Quiet, PosterPcs, OtherWalks, OtherDepths
<1>4. CASE DropPool /\ p = Owner
  <2>1. /\ pc' = [pc EXCEPT ![p] = "terminate"] /\ pc[p] = "ready"
        /\ blocked' = blocked /\ wake' = wake /\ depth' = depth /\ SameCounts
    BY <1>4 DEF DropPool, Goto, control, SameCounts
  <2> QED BY <1>0, <2>1 DEF Quiet, PosterPcs, OtherWalks, OtherDepths
<1> QED BY <1>1, <1>2, <1>3, <1>4

\* A poster keeps the rest of Core.
LEMMA PosterCore ==
  ASSUME Core, NEW p \in Posters,
         StartInject(p) \/ Inject(p) \/ StartBroadcast(p) \/ PushBroadcast(p) \/ LatchReleased(p)
  PROVE  CoreRest'
<1>1. CASE PushBroadcast(p) /\ wake[p].next = N - 1
  <2>1. /\ CallWake(p, 0, N - 1, N, "wait") /\ pc[p] \in PosterPcs
        /\ blocked' = blocked /\ depth' = depth /\ SameCounts
    BY <1>1 DEF PushBroadcast, control, SameCounts, PosterPcs
  <2>2. 0 \in Workers /\ N - 1 \in Workers /\ 0 <= N - 1 /\ N \in 0 .. N
    BY Apart
  <2>3. p \in Threads /\ p \notin Workers
    BY Apart
  <2> QED BY <2>1, <2>2, <2>3, CallWakeCore
<1>2. CASE ~(PushBroadcast(p) /\ wake[p].next = N - 1)
  BY <1>2, PosterQuiet, QuietPoster
<1> QED BY <1>1, <1>2

\* Dropping the pool keeps the rest of Core.
LEMMA OwnerCore ==
  ASSUME Core, DropPool \/ SetTerminate
  PROVE  CoreRest'
<1>1. CASE DropPool
  BY <1>1, PosterQuiet, QuietPoster
<1>2. CASE SetTerminate
  <2>1. /\ CallWake(Owner, term, term, 1, "terminate") /\ pc[Owner] \in PosterPcs
        /\ blocked' = blocked /\ depth' = depth /\ SameCounts
    BY <1>2 DEF SetTerminate, control, SameCounts, PosterPcs
  <2>2. term \in Workers /\ term <= term /\ 1 \in 0 .. N
    BY <1>2 DEF Core, Shape, SetTerminate, Workers
  <2>3. Owner \in Threads /\ Owner \notin Workers
    BY Apart
  <2> QED BY <2>1, <2>2, <2>3, CallWakeCore
<1> QED BY <1>1, <1>2

-----------------------------------------------------------------------------
IInv == TypeOK /\ Core

\* Exact counts are bounded by N, which closes the gap between Shape and the
\* type invariant.
LEMMA CoreType == Core => TypeOK
<1> SUFFICES ASSUME Core PROVE TypeOK
  OBVIOUS
<1>1. Registered \in SUBSET Workers /\ Inactive \in SUBSET Workers
  BY DEF Registered, Inactive
<1>2. counters \in CounterStates
  <2>1. counters.sleeping \in 0 .. N /\ counters.inactive \in 0 .. N
    BY <1>1, WorkerSets DEF Core, CountersExact
  <2>2. counters \in RawCounters BY DEF Core, Shape
  <2> QED BY <2>1, <2>2 DEF RawCounters, CounterStates
<1> QED BY <1>2 DEF Core, Shape, TypeOK, PcOK, Latches

\* The initial state satisfies Core.
LEMMA InitCore == Init => Core
<1> SUFFICES ASSUME Init PROVE Core
  OBVIOUS
<1>1. Shape
  <2>1. counters \in RawCounters
    BY DEF Init, RawCounters
  <2>2. injected \in Seq(Posters) /\ deque \in [Workers -> Seq(ForkJobs)] /\ bcast \in [Workers -> Seq(Posters)]
    BY DEF Init
  <2>3. latch \in Latches
    BY DEF Init, Latches, LatchStates
  <2>4. idle \in [Workers -> IdleStates]
    BY IdleTypes DEF Init
  <2>5. PcOK
    BY PcNames, Apart DEF Init, PcOK
  <2>6. wake \in [Threads -> Walks]
    <3>1. NoWalk \in Walks
      BY Apart DEF NoWalk, Walks
    <3> QED BY <3>1 DEF Init
  <2>7. /\ blocked \in [Workers -> BOOLEAN] /\ depth \in [Workers -> 0 .. MaxDepth]
        /\ run \in [Workers -> [0 .. MaxDepth -> Jobs \cup {NoJob}]]
        /\ hand \in [Workers -> Jobs \cup {NoJob}] /\ victims \in [Workers -> SUBSET Workers]
    BY DEF Init
  <2>8. /\ was_empty \in [Threads -> BOOLEAN] /\ pending \in [Posters -> Int]
        /\ left \in [Posters -> 0 .. MaxPosts]
    BY DEF Init
  <2>9. dropped \in BOOLEAN /\ term \in 0 .. N
    <3>1. dropped = FALSE /\ term = 0 BY DEF Init
    <3>2. FALSE \in BOOLEAN /\ 0 \in 0 .. N OBVIOUS
    <3> QED BY <3>1, <3>2
  <2> QED BY <2>1, <2>2, <2>3, <2>4, <2>5, <2>6, <2>7, <2>8, <2>9 DEF Shape
<1>2. \A t \in Threads : pc[t] \in {"wait_until", "ready"}
  BY DEF Init
<1>3. WalksOK /\ BlockedOK /\ PushOK
  BY <1>2, Apart DEF Init, WalksOK, BlockedOK, PushOK
<1>4. CountersExact
  <2>1. Registered = {} /\ Inactive = {}
    BY <1>2, Apart DEF Init, Registered, Inactive, Searching, Locked
  <2> QED BY <2>1, FS_EmptySet DEF Init, CountersExact
<1> QED BY <1>1, <1>3, <1>4 DEF Core

\* Every step keeps the inductive invariant.
LEMMA NextCore == IInv /\ [Next]_vars => IInv'
<1>a. Core' => TypeOK'
  BY CoreType, PTL
<1> SUFFICES ASSUME IInv, [Next]_vars PROVE Core'
  BY <1>a DEF IInv
<1>0. TypeOK /\ Core /\ Shape /\ WalksOK /\ PushOK
  BY DEF IInv, Core
<1>1. ASSUME NEW w \in Workers, Worker(w) PROVE Core'
  <2>1. w \in Threads BY Apart
  <2>2. CASE Search(w)
    BY <1>0, <2>2, SearchShape, SearchCore DEF Core, CoreRest
  <2>3. CASE FallingAsleep(w)
    BY <1>0, <2>3, FallingAsleepShape, FallingAsleepCore DEF Core, CoreRest
  <2>4. CASE Working(w)
    BY <1>0, <2>4, WorkingShape, WorkingCore DEF Core, CoreRest
  <2>5. CASE NewJobs(w)
    BY <1>0, <2>1, <2>5, SharedShape, NewJobsCore DEF Core, CoreRest
  <2>6. CASE WakeThread(w)
    BY <1>0, <2>1, <2>6, SharedShape, WakeThreadCore DEF Core, CoreRest
  <2> QED BY <1>1, <2>2, <2>3, <2>4, <2>5, <2>6 DEF Worker
<1>2. ASSUME NEW p \in Posters, Poster(p) PROVE Core'
  <2>1. p \in Threads BY Apart
  <2>2. CASE NewJobs(p)
    BY <1>0, <2>1, <2>2, SharedShape, NewJobsCore DEF Core, CoreRest
  <2>3. CASE WakeThread(p)
    BY <1>0, <2>1, <2>3, SharedShape, WakeThreadCore DEF Core, CoreRest
  <2>4. CASE StartInject(p) \/ Inject(p) \/ StartBroadcast(p) \/ PushBroadcast(p) \/ LatchReleased(p)
    BY <1>0, <2>4, PosterShape, PosterCore DEF Core, CoreRest
  <2> QED BY <1>2, <2>2, <2>3, <2>4 DEF Poster
<1>3. CASE DropPool \/ SetTerminate
  BY <1>0, <1>3, OwnerShape, OwnerCore DEF Core, CoreRest
<1>4. CASE UNCHANGED vars
  <2>1. Shape' /\ WalksOK' /\ BlockedOK' /\ PushOK'
    BY <1>0, <1>4 DEF Core, Shape, PcOK, WalksOK, BlockedOK, PushOK, vars
  <2>2. CountersExact'
    BY <1>0, <1>4 DEF Core, CountersExact, Registered, Inactive, vars
  <2> QED BY <2>1, <2>2 DEF Core
<1> QED BY <1>1, <1>2, <1>3, <1>4 DEF Next, Done

(***************************************************************************)
(* The inductive invariant of the sleep protocol holds in every reachable  *)
(* state, for any number of workers and posters, any nesting of forks and  *)
(* any range of the JEC.                                                   *)
(***************************************************************************)
THEOREM SleepInvariant == Spec => []IInv
<1>1. Init => IInv
  BY InitCore, CoreType DEF IInv
<1> QED BY <1>1, NextCore, PTL DEF Spec

(***************************************************************************)
(* Every reachable state of the sleep protocol is well formed; in          *)
(* particular the thread counts never leave 0 .. N, so the counter word    *)
(* never over- or underflows (counters.rs).                                *)
(***************************************************************************)
THEOREM TypeCorrect == Spec => []TypeOK
<1>1. IInv => TypeOK
  BY DEF IInv
<1> QED BY <1>1, SleepInvariant, PTL

(***************************************************************************)
(* The sleeping and inactive counts that new_jobs and work_found read are  *)
(* exact at every step, whichever of waker and sleeper takes a worker off  *)
(* the count.                                                              *)
(***************************************************************************)
THEOREM CountersAreExact == Spec => []CountersExact
<1>1. IInv => CountersExact
  BY DEF IInv, Core
<1> QED BY <1>1, SleepInvariant, PTL

-----------------------------------------------------------------------------
(***************************************************************************)
(* No wake-up of the sleep protocol is lost: injected jobs, latches and    *)
(* broadcasts, on top of the invariant above. LatchInv and BroadcastInv    *)
(* strengthen the two checked invariants so that they are inductive: they  *)
(* also speak of a worker that has not blocked yet but can no longer be    *)
(* stopped by what it will read, and of walks that reach it for certain.   *)
(***************************************************************************)
\* Some thread is to set w's sleep state next and can wake nobody else.
Notifies(t, w) == pc[t] = "waking" /\ wake[t].next = w /\ wake[t].last = w

LatchInv ==
  \A w \in Workers : pc[w] \in Locked \/ blocked[w] =>
    /\ MyLatch(w) \in {"SLEEPING", "SET"}
    /\ MyLatch(w) = "SET" => \E t \in Threads : Notifies(t, w)

\* t's walk will come to w with its quota not used up.
Reaches(t, w) == WillVisit(t, w) /\ wake[t].quota > wake[t].last - wake[t].next

BroadcastInv ==
  \A w \in Workers : (pc[w] = "check_inj" \/ blocked[w]) /\ bcast[w] # <<>> =>
    \E p \in Posters : pc[p] = "bcast_push" \/ Reaches(p, w)

-----------------------------------------------------------------------------
\* What a quiet step leaves alone.
LEMMA QuietFacts ==
  ASSUME Core, NEW t \in Threads, NEW P, Quiet(t, P)
  PROVE  /\ \A u \in Threads : u # t => pc'[u] = pc[u] /\ wake'[u] = wake[u]
         /\ pc[t] \in P \ {"waking", "new_jobs"} /\ pc'[t] \in P \ {"waking", "blocked"}
         /\ pc[t] = "blocked" => ~blocked[t]
         /\ blocked' = blocked
  BY DEF Core, Shape, PcOK, Quiet, OtherWalks

\* A place from which a worker still looks at the injector.
Taking(w) == pc[w] \in Searching \cup Locked \/ (pc[w] = "blocked" /\ ~blocked[w])

\* t, which neither walks nor is to call new_jobs, takes a step of its own.
Unaided(t) ==
  /\ \A u \in Threads : u # t => pc'[u] = pc[u] /\ wake'[u] = wake[u]
  /\ pc[t] \notin {"waking", "new_jobs"}
  /\ blocked' = blocked

\* A lone step loses no taker if it does not stop its own worker from
\* searching.
LEMMA TakerAlone ==
  ASSUME Core, InjectedHasTaker, NEW t \in Threads, Unaided(t),
         t \in Workers => (Taking(t) => Taking(t)'),
         injected' # <<>> => injected # <<>>
  PROVE  InjectedHasTaker'
<1> SUFFICES ASSUME injected' # <<>>, \E w \in Workers : blocked'[w]
             PROVE  \/ \E w \in Workers : Taking(w)'
                    \/ \E p \in Posters : pc'[p] = "new_jobs"
                    \/ \E u \in Threads, w \in Workers : blocked'[w] /\ WillVisit(u, w)'
  BY DEF InjectedHasTaker, Taking
<1>1. \/ \E w \in Workers : Taking(w)
      \/ \E p \in Posters : pc[p] = "new_jobs"
      \/ \E u \in Threads, w \in Workers : blocked[w] /\ WillVisit(u, w)
  BY DEF InjectedHasTaker, Taking, Unaided
<1>2. ASSUME NEW w \in Workers, Taking(w) PROVE Taking(w)'
  <2>1. CASE w # t
    BY <1>2, <2>1, Apart DEF Taking, Unaided
  <2>2. CASE w = t
    BY <1>2, <2>2
  <2> QED BY <2>1, <2>2
<1>3. ASSUME NEW p \in Posters, pc[p] = "new_jobs" PROVE pc'[p] = "new_jobs"
  BY <1>3, Apart DEF Unaided
<1>4. ASSUME NEW u \in Threads, NEW w \in Workers, blocked[w], WillVisit(u, w)
      PROVE  blocked'[w] /\ WillVisit(u, w)'
  BY <1>4 DEF WillVisit, Unaided
<1> QED BY <1>1, <1>2, <1>3, <1>4

\* A quiet step loses no taker.
LEMMA TakerQuiet ==
  ASSUME Core, InjectedHasTaker, NEW t \in Threads, NEW P, Quiet(t, P),
         t \in Workers => P \in {Idle, Checking, Busy},
         injected' # <<>> => injected # <<>>
  PROVE  InjectedHasTaker'
<1>1. Unaided(t)
  BY QuietFacts DEF Unaided
<1>2. ASSUME t \in Workers, Taking(t) PROVE Taking(t)'
  <2>1. P \in {Idle, Checking}
    BY <1>2, QuietFacts DEF Taking, Busy, Searching, Locked
  <2>2. Idle \ {"waking", "blocked"} \in SUBSET (Searching \cup Locked) /\ Checking \in SUBSET Locked
    BY DEF Idle, Checking, Searching, Locked
  <2> QED BY <2>1, <2>2, QuietFacts DEF Taking
<1> QED BY <1>1, <1>2, TakerAlone

\* A walk over all the sleep states comes to every worker.
LEMMA WholeWalk ==
  ASSUME Core, NEW t \in Threads, NEW quota, NEW after,
         wake' = [wake EXCEPT ![t] = [next |-> 0, last |-> N - 1, quota |-> quota, after |-> after]],
         pc' = [pc EXCEPT ![t] = "waking"]
  PROVE  \A w \in Workers : WillVisit(t, w)'
<1>1. wake'[t] = [next |-> 0, last |-> N - 1, quota |-> quota, after |-> after] /\ pc'[t] = "waking"
  BY DEF Core, Shape, PcOK
<1> QED BY <1>1 DEF WillVisit, Workers

\* A blocked worker is counted as sleeping.
LEMMA SleepersCounted ==
  ASSUME Core, NEW w \in Workers, blocked[w]
  PROVE  counters.sleeping >= 1 /\ counters.sleeping \in 0 .. N
<1>1. Registered \in SUBSET Workers /\ w \in Registered
  BY DEF Registered
<1>2. IsFiniteSet(Registered) /\ Cardinality(Registered) \in 0 .. N
  BY <1>1, WorkerSets
<1>3. Cardinality(Registered) # 0
  BY <1>1, <1>2, FS_EmptySet
<1> QED BY <1>2, <1>3 DEF Core, CountersExact

\* If the counters say that somebody is awake but idle, a worker really is.
LEMMA IdleCounted ==
  ASSUME Core, awake_but_idle_threads(counters) >= 1
  PROVE  \E w \in Workers : Taking(w)
<1>1. Registered \in SUBSET Workers /\ Inactive \in SUBSET Workers
  BY DEF Registered, Inactive
<1>2. /\ IsFiniteSet(Registered) /\ Cardinality(Registered) \in 0 .. N
      /\ IsFiniteSet(Inactive) /\ Cardinality(Inactive) \in 0 .. N
  BY <1>1, WorkerSets
<1>3. Cardinality(Inactive) > Cardinality(Registered)
  BY <1>2 DEF Core, CountersExact, awake_but_idle_threads
<1>4. ~(Inactive \in SUBSET Registered)
  <2>1. Inactive \in SUBSET Registered => Cardinality(Inactive) <= Cardinality(Registered)
    BY <1>2, FS_Subset
  <2> QED BY <1>2, <1>3, <2>1
<1>5. PICK w \in Inactive : w \notin Registered
  BY <1>4
<1> QED BY <1>1, <1>5 DEF Taking, Inactive, Registered

\* A worker that stops searching has a sleeper woken in its place
\* (sub_inactive_thread).
LEMMA TakerWorkFound ==
  ASSUME TypeOK, Core, NEW w \in Workers, WorkFound(w)
  PROVE  InjectedHasTaker'
<1> SUFFICES ASSUME NEW v \in Workers, blocked'[v]
             PROVE  \E u \in Threads, x \in Workers : blocked'[x] /\ WillVisit(u, x)'
  BY DEF InjectedHasTaker
<1>1. blocked' = blocked /\ w \in Threads
  BY Apart DEF WorkFound
<1>2. counters.sleeping >= 1 /\ counters.sleeping \in 0 .. N
  BY <1>1, SleepersCounted
<1>3. threads_to_wake(counters) \in 1 .. N
  BY <1>2 DEF threads_to_wake, Least
<1>4. CallWake(w, 0, N - 1, threads_to_wake(counters), "proceed")
  BY DEF WorkFound
<1>5. /\ pc' = [pc EXCEPT ![w] = "waking"]
      /\ wake' = [wake EXCEPT ![w] = [next |-> 0, last |-> N - 1,
                                      quota |-> threads_to_wake(counters), after |-> "proceed"]]
  BY <1>3, <1>4 DEF CallWake, Goto
<1>6. WillVisit(w, v)'
  BY <1>1, <1>5, WholeWalk
<1> QED BY <1>1, <1>6

\* new_jobs may only skip the wake-up when a worker really is searching.
LEMMA TakerNewJobs ==
  ASSUME TypeOK, Core, NEW t \in Threads, NewJobs(t)
  PROVE  InjectedHasTaker'
<1> SUFFICES ASSUME NEW v \in Workers, blocked'[v]
             PROVE  \/ \E x \in Workers : Taking(x)'
                    \/ \E u \in Threads, x \in Workers : blocked'[x] /\ WillVisit(u, x)'
  BY DEF InjectedHasTaker, Taking
<1>1. blocked' = blocked /\ pc[t] = "new_jobs" /\ SameCounts
  BY NewJobsCounts DEF NewJobs
<1>2. counters.sleeping >= 1 /\ counters.sleeping \in 0 .. N
  BY <1>1, SleepersCounted
<1> DEFINE q == NumToWake(counters', 1, was_empty[t])
           after == IF t \in Workers THEN "wait_until" ELSE "wait"
<1>3. CallWake(t, 0, N - 1, q, after)
  BY DEF NewJobs
<1>4. CASE q = 0
  <2>1. awake_but_idle_threads(counters) >= 1
    <3>1. awake_but_idle_threads(counters') = awake_but_idle_threads(counters)
      BY <1>1 DEF awake_but_idle_threads, SameCounts
    <3>2. awake_but_idle_threads(counters) \in Int
      BY DEF TypeOK, CounterStates, awake_but_idle_threads
    <3> QED BY <1>1, <1>2, <1>4, <3>1, <3>2 DEF NumToWake, Least, SameCounts
  <2>2. PICK x \in Workers : Taking(x)
    BY <2>1, IdleCounted
  <2>3. pc' = [pc EXCEPT ![t] = after]
    BY <1>3, <1>4 DEF CallWake, Goto
  <2>4. pc'[x] = pc[x]
    BY <1>1, <2>2, <2>3, Apart DEF Taking, Searching, Locked, Core, Shape, PcOK
  <2> QED BY <1>1, <2>2, <2>4 DEF Taking
<1>5. CASE q # 0
  <2>1. /\ pc' = [pc EXCEPT ![t] = "waking"]
        /\ wake' = [wake EXCEPT ![t] = [next |-> 0, last |-> N - 1, quota |-> q, after |-> after]]
    BY <1>3, <1>5 DEF CallWake, Goto
  <2>2. WillVisit(t, v)'
    BY <2>1, WholeWalk
  <2> QED BY <1>1, <2>2
<1> QED BY <1>4, <1>5

\* What one step of a walk does to its own thread and to the others.
LEMMA WalkFacts ==
  ASSUME Core, NEW t \in Threads, WakeThread(t)
  PROVE  /\ wake[t].next \in Workers /\ wake[t].last \in Workers
         /\ wake[t].next \in Int /\ wake[t].last \in Int /\ wake[t].quota \in Int
         /\ wake[t].next <= wake[t].last
         /\ pc[t] = "waking" /\ pc[wake[t].next] \notin Locked
         /\ blocked' = [blocked EXCEPT ![wake[t].next] = FALSE]
         /\ \A u \in Threads : u # t => pc'[u] = pc[u] /\ wake'[u] = wake[u]
         /\ \/ /\ pc'[t] = "waking" /\ wake[t].next # wake[t].last
               /\ wake'[t].next = wake[t].next + 1 /\ wake'[t].last = wake[t].last
               /\ wake'[t].quota \in Int
               /\ wake'[t].quota = IF blocked[wake[t].next] THEN wake[t].quota - 1 ELSE wake[t].quota
            \/ /\ \/ wake[t].next = wake[t].last
                  \/ (IF blocked[wake[t].next] THEN wake[t].quota - 1 ELSE wake[t].quota) = 0
               /\ pc'[t] \in {"proceed", "start_looking", "wait_until", "wait", "terminate"}
         /\ \A v \in Workers : pc[v] # "waking" => pc'[v] = pc[v]
<1> DEFINE i == wake[t].next
           q == IF blocked[i] THEN wake[t].quota - 1 ELSE wake[t].quota
<1>1. /\ pc \in [Threads -> WorkerPcs \cup PosterPcs] /\ wake \in [Threads -> Walks]
      /\ wake[t] \in Walks /\ pc[t] = "waking" /\ pc[i] \notin Locked
      /\ blocked' = [blocked EXCEPT ![i] = FALSE]
  BY DEF Core, Shape, PcOK, WakeThread
<1>2. /\ i \in Workers /\ wake[t].last \in Workers /\ i \in Int /\ wake[t].last \in Int
      /\ wake[t].quota \in Int /\ i <= wake[t].last
      /\ wake[t].after \in {"proceed", "start_looking", "wait_until", "wait", "terminate"}
  <2>1. i \in Workers /\ wake[t].last \in Workers /\ wake[t].quota \in Int
    BY <1>1 DEF Walks
  <2>2. /\ i <= wake[t].last
        /\ wake[t].after \in {"proceed", "start_looking", "wait_until", "wait", "terminate"}
    BY <1>1 DEF Core, WalksOK, Threads
  <2> QED BY <2>1, <2>2, Apart
<1>3. CASE /\ q = 0 \/ i = wake[t].last
           /\ wake' = [wake EXCEPT ![t] = NoWalk] /\ pc' = [pc EXCEPT ![t] = wake[t].after]
  <2>1. /\ pc'[t] = wake[t].after
        /\ \A u \in Threads : u # t => pc'[u] = pc[u] /\ wake'[u] = wake[u]
    BY <1>1, <1>3
  <2> QED BY <1>1, <1>2, <1>3, <2>1, Apart
<1>4. CASE /\ i # wake[t].last
           /\ wake' = [wake EXCEPT ![t].next = i + 1, ![t].quota = q] /\ pc' = pc
  <2>1. /\ wake'[t] = [wake[t] EXCEPT !.next = i + 1, !.quota = q]
        /\ \A u \in Threads : u # t => pc'[u] = pc[u] /\ wake'[u] = wake[u]
    BY <1>1, <1>4
  <2>2. wake'[t].next = i + 1 /\ wake'[t].last = wake[t].last /\ wake'[t].quota = q
    BY <1>1, <2>1 DEF Walks
  <2> QED BY <1>1, <1>2, <1>4, <2>1, <2>2, Apart
<1> QED BY <1>3, <1>4 DEF WakeThread, Goto

\* A step of a walk makes a taker of the sleeper it finds, or goes on.
LEMMA TakerWakeThread ==
  ASSUME Core, InjectedHasTaker, NEW t \in Threads, WakeThread(t)
  PROVE  InjectedHasTaker'
<1> SUFFICES ASSUME injected' # <<>>, NEW v \in Workers, blocked'[v]
             PROVE  \/ \E w \in Workers : Taking(w)'
                    \/ \E p \in Posters : pc'[p] = "new_jobs"
                    \/ \E u \in Threads, w \in Workers : blocked'[w] /\ WillVisit(u, w)'
  BY DEF InjectedHasTaker, Taking
<1> DEFINE i == wake[t].next
<1>0. blocked \in [Workers -> BOOLEAN] BY DEF Core, Shape
<1>1. CASE blocked[i]
  <2>1. i \in Workers /\ blocked'[i] = FALSE /\ pc'[i] = "blocked"
    BY <1>0, <1>1, WalkFacts DEF Core, BlockedOK
  <2> QED BY <2>1 DEF Taking
<1>2. CASE ~blocked[i]
  <2>1. blocked' = blocked /\ injected' = injected
    BY <1>0, <1>2, WalkFacts DEF WakeThread, queues
  <2>2. \/ \E w \in Workers : Taking(w)
        \/ \E p \in Posters : pc[p] = "new_jobs"
        \/ \E u \in Threads, w \in Workers : blocked[w] /\ WillVisit(u, w)
    BY <2>1 DEF InjectedHasTaker, Taking
  <2>3. ASSUME NEW w \in Workers, Taking(w) PROVE Taking(w)'
    <3>1. pc[w] # "waking"
      BY <2>3 DEF Taking, Searching, Locked
    <3>2. pc'[w] = pc[w]
      BY <3>1, WalkFacts
    <3> QED BY <2>1, <2>3, <3>2 DEF Taking
  <2>4. ASSUME NEW p \in Posters, pc[p] = "new_jobs" PROVE pc'[p] = "new_jobs"
    BY <2>4, WalkFacts, Apart
  <2>5. ASSUME NEW u \in Threads, NEW w \in Workers, blocked[w], WillVisit(u, w)
        PROVE  WillVisit(u, w)'
    <3>1. CASE u # t
      BY <2>5, <3>1, WalkFacts DEF WillVisit
    <3>2. CASE u = t
      <4>1. i <= w /\ w <= wake[t].last /\ w # i /\ w \in Int
        BY <1>2, <2>5, <3>2, Apart DEF WillVisit
      <4>2. wake[t].quota >= 1
        BY WalkFacts DEF Core, WalksOK
      <4> QED BY <1>2, <3>2, <4>1, <4>2, WalkFacts DEF WillVisit
    <3> QED BY <3>1, <3>2
  <2> QED BY <2>1, <2>2, <2>3, <2>4, <2>5
<1> QED BY <1>1, <1>2

\* The remaining steps are made alone and stop nobody from searching.
LEMMA OtherSteps ==
  ASSUME TypeOK, Core, NEW t \in Threads,
         \/ t \in Workers /\ (StartLooking(t) \/ Register(t) \/ Unregister(t) \/ SetCoreLatch(t))
         \/ t \in Posters /\ PushBroadcast(t)
         \/ t = Owner /\ SetTerminate
  PROVE  /\ Unaided(t) /\ injected' = injected
         /\ t \in Workers => pc'[t] # "blocked" /\ (Taking(t) => Taking(t)')
<1>0. /\ pc \in [Threads -> WorkerPcs \cup PosterPcs] /\ wake \in [Threads -> Walks]
      /\ counters \in RawCounters
  BY DEF Core, Shape, PcOK
<1>1. CASE t \in Workers /\ (StartLooking(t) \/ Register(t) \/ Unregister(t))
  <2>1. /\ wake' = wake /\ blocked' = blocked /\ injected' = injected
        /\ pc[t] \in {"start_looking", "register", "unregister"}
        /\ \/ pc' = [pc EXCEPT ![t] = "probe"] \/ pc' = [pc EXCEPT ![t] = "interrupted"]
           \/ pc' = [pc EXCEPT ![t] = "check_bcast"] \/ pc' = [pc EXCEPT ![t] = "awaken"]
    BY <1>1 DEF StartLooking, Register, Unregister, Goto, queues
  <2> QED BY <1>0, <2>1 DEF Unaided, Taking, Searching, Locked
<1>2. ASSUME NEW from, NEW to, NEW quota,
             NEW after \in {"start_looking", "wait", "terminate"},
             CallWake(t, from, to, quota, after)
      PROVE  \A u \in Threads : u # t => pc'[u] = pc[u] /\ wake'[u] = wake[u]
  BY <1>0, <1>2 DEF CallWake, Goto
<1>3. CASE t \in Workers /\ SetCoreLatch(t)
  <2>1. PICK j \in ForkJobs, q \in {0, 1} : CallWake(t, j.owner, j.owner, q, "start_looking")
    BY <1>3 DEF SetCoreLatch
  <2>2. blocked' = blocked /\ injected' = injected /\ pc[t] \in {"run", "finish"}
    BY <1>3 DEF SetCoreLatch, queues
  <2>3. pc'[t] \in {"waking", "start_looking"}
    BY <1>0, <2>1 DEF CallWake, Goto
  <2> QED BY <1>2, <2>1, <2>2, <2>3 DEF Unaided, Taking, Searching, Locked
<1>4. CASE t \in Posters /\ PushBroadcast(t)
  <2>1. blocked' = blocked /\ injected' = injected /\ pc[t] = "bcast_push"
    BY <1>4 DEF PushBroadcast, queues
  <2>2. \/ pc' = pc /\ wake' = [wake EXCEPT ![t].next = wake[t].next + 1]
        \/ CallWake(t, 0, N - 1, N, "wait")
    BY <1>4 DEF PushBroadcast
  <2>3. \A u \in Threads : u # t => pc'[u] = pc[u] /\ wake'[u] = wake[u]
    BY <1>0, <1>2, <2>2
  <2> QED BY <1>4, <2>1, <2>3, Apart DEF Unaided
<1>5. CASE t = Owner /\ SetTerminate
  <2>1. /\ blocked' = blocked /\ injected' = injected /\ pc[t] = "terminate"
        /\ CallWake(t, term, term, 1, "terminate")
    BY <1>5 DEF SetTerminate, queues
  <2> QED BY <1>2, <1>5, <2>1, Apart DEF Unaided
<1> QED BY <1>1, <1>3, <1>4, <1>5

\* Every step keeps InjectedHasTaker.
LEMMA TakerNext ==
  ASSUME TypeOK, Core, InjectedHasTaker, [Next]_vars
  PROVE  InjectedHasTaker'
<1>1. ASSUME NEW w \in Workers, Worker(w) PROVE InjectedHasTaker'
  <2>0. w \in Threads BY Apart
  <2>1. CASE \/ Probe(w) \/ PopLocal(w) \/ PopBroadcast(w) \/ Steal(w) \/ PopInjected(w)
             \/ SpinRound(w) \/ AnnounceSleepy(w) \/ GetSleepy(w) \/ FallAsleep(w)
             \/ InterruptedByJob(w) \/ Awaken(w)
    <3>1. Quiet(w, Idle)
      BY <2>1, IdleQuiet
    <3>2. injected' # <<>> => injected # <<>>
      BY <2>1 DEF Probe, PopLocal, PopBroadcast, Steal, PopInjected, SpinRound, AnnounceSleepy,
                  GetSleepy, FallAsleep, InterruptedByJob, Awaken, queues
    <3> QED BY <2>0, <3>1, <3>2, TakerQuiet
  <2>2. CASE LastCheckBroadcasts(w)
    <3>1. injected' = injected
      BY <2>2 DEF LastCheckBroadcasts, queues
    <3> QED BY <2>0, <2>2, <3>1, CheckingQuiet, TakerQuiet
  <2>3. CASE \/ WaitUntil(w) \/ Execute(w) \/ Return(w) \/ Fork(w) \/ SetLockLatch(w)
             \/ \E kind \in {"spin", "count"} : Push(w, kind)
    <3>1. Quiet(w, Busy)
      BY <2>3, BusyQuiet
    <3>2. injected' = injected
      BY <2>3 DEF WaitUntil, Execute, Return, Fork, SetLockLatch, Push, queues
    <3> QED BY <2>0, <3>1, <3>2, TakerQuiet
  <2>4. CASE LastCheckInjector(w)
    <3>1. CASE injected # <<>>
      <4>1. w \in Threads /\ blocked' = blocked /\ wake' = wake /\ injected' = injected
            /\ pc[w] = "check_inj" /\ pc' = [pc EXCEPT ![w] = "unregister"]
        BY <2>0, <2>4, <3>1 DEF LastCheckInjector, has_injected_job, Goto, queues
      <4>2. Unaided(w) /\ Taking(w)'
        BY <4>1 DEF Unaided, Taking, Locked, Core, Shape, PcOK
      <4> QED BY <2>0, <4>1, <4>2, TakerAlone
    <3>2. CASE injected = <<>>
      BY <2>4, <3>2 DEF LastCheckInjector, queues, InjectedHasTaker
    <3> QED BY <3>1, <3>2
  <2>5. CASE StartLooking(w) \/ Register(w) \/ Unregister(w) \/ SetCoreLatch(w)
    BY <2>0, <2>5, OtherSteps, TakerAlone
  <2>6. CASE WorkFound(w)
    BY <2>6, TakerWorkFound
  <2>7. CASE NewJobs(w)
    BY <2>0, <2>7, TakerNewJobs
  <2>8. CASE WakeThread(w)
    BY <2>0, <2>8, TakerWakeThread
  <2> QED BY <1>1, <2>1, <2>2, <2>3, <2>4, <2>5, <2>6, <2>7, <2>8
          DEF Worker, Search, FallingAsleep, Working
<1>2. ASSUME NEW p \in Posters, Poster(p) PROVE InjectedHasTaker'
  <2>0. p \in Threads /\ p \notin Workers BY Apart
  <2>1. CASE StartInject(p) \/ StartBroadcast(p) \/ LatchReleased(p)
    <3>1. Quiet(p, PosterPcs)
      BY <2>1, PosterQuiet
    <3>2. injected' = injected
      BY <2>1 DEF StartInject, StartBroadcast, LatchReleased, queues
    <3> QED BY <2>0, <3>1, <3>2, TakerQuiet
  <2>2. CASE Inject(p)
    <3>1. pc'[p] = "new_jobs"
      BY <2>0, <2>2 DEF Inject, Goto, Core, Shape, PcOK
    <3> QED BY <3>1 DEF InjectedHasTaker
  <2>3. CASE PushBroadcast(p)
    BY <2>0, <2>3, OtherSteps, TakerAlone
  <2>4. CASE NewJobs(p)
    BY <2>0, <2>4, TakerNewJobs
  <2>5. CASE WakeThread(p)
    BY <2>0, <2>5, TakerWakeThread
  <2> QED BY <1>2, <2>1, <2>2, <2>3, <2>4, <2>5 DEF Poster
<1>3. CASE DropPool
  <2>1. Quiet(Owner, PosterPcs)
    BY <1>3, PosterQuiet
  <2>2. injected' = injected /\ Owner \in Threads /\ Owner \notin Workers
    BY <1>3, Apart DEF DropPool, queues
  <2> QED BY <2>1, <2>2, TakerQuiet
<1>4. CASE SetTerminate
  <2>1. Owner \in Threads /\ Owner \notin Workers
    BY Apart
  <2> QED BY <1>4, <2>1, OtherSteps, TakerAlone
<1>5. CASE UNCHANGED vars
  BY <1>5 DEF InjectedHasTaker, WillVisit, vars
<1> QED BY <1>1, <1>2, <1>3, <1>4, <1>5 DEF Next, Done

(***************************************************************************)
(* While a job is in the injector and a worker sleeps, some worker         *)
(* searches or some thread is about to wake a sleeper: new_injected_jobs   *)
(* keeps its promise for any number of workers, although it may decide     *)
(* from the counters to wake nobody.                                       *)
(***************************************************************************)
THEOREM HasTaker == Spec => []InjectedHasTaker
<1>1. Init => InjectedHasTaker
  BY DEF Init, InjectedHasTaker
<1>2. IInv /\ InjectedHasTaker /\ [Next]_vars => InjectedHasTaker'
  BY TakerNext DEF IInv
<1> QED BY <1>1, <1>2, SleepInvariant, PTL DEF Spec

(***************************************************************************)
(* The deadlock argument of sleep/README.md: the pool is never wholly      *)
(* asleep on an injected job that nobody is about to announce, even if the *)
(* JEC has wrapped around.                                                 *)
(***************************************************************************)
THEOREM NotStranded == Spec => []InjectedNotStranded
<1>1. IInv /\ InjectedHasTaker => InjectedNotStranded
  <2> SUFFICES ASSUME IInv, InjectedHasTaker, injected # <<>>, \A w \in Workers : blocked[w]
               PROVE  \E p \in Posters : pc[p] = "new_jobs" \/ (\E w \in Workers : WillVisit(p, w))
    BY DEF InjectedNotStranded
  <2>1. \A w \in Workers : pc[w] = "blocked"
    BY DEF IInv, Core, BlockedOK
  <2>2. \E w \in Workers : blocked[w]
    BY Apart
  <2>3. \/ \E p \in Posters : pc[p] = "new_jobs"
        \/ \E t \in Threads, w \in Workers : blocked[w] /\ WillVisit(t, w)
    BY <2>1, <2>2 DEF InjectedHasTaker, Searching, Locked
  <2> QED BY <2>1, <2>3 DEF WillVisit, Threads
<1> QED BY <1>1, SleepInvariant, HasTaker, PTL

-----------------------------------------------------------------------------
\* w is on its way to block or blocked: its latch must stay SLEEPING or have it woken.
Asleep(w) == pc[w] \in Locked \/ blocked[w]

\* w has looked at its broadcasts for the last time, or is blocked.
Committed(w) == pc[w] = "check_inj" \/ blocked[w]

\* What a step of w, its wake-ups aside, may do as far as sleepers are concerned.
OwnStep(w) ==
  /\ \A u \in Threads : u # w => pc'[u] = pc[u] /\ wake'[u] = wake[u]
  /\ pc[w] # "waking"
  /\ \A v \in Workers : v # w => blocked'[v] = blocked[v] /\ depth'[v] = depth[v] /\ bcast'[v] = bcast[v]
  /\ Committed(w)' /\ bcast'[w] # <<>> => Committed(w) /\ bcast[w] # <<>>
  /\ Asleep(w)' => \/ MyLatch(w)' = "SLEEPING"
                   \/ Asleep(w) /\ MyLatch(w)' = MyLatch(w)

\* What each step of a worker does as far as sleepers are concerned.
LEMMA OwnSteps ==
  ASSUME Core, NEW w \in Workers,
         Search(w) \/ FallingAsleep(w) \/ Working(w) \/ NewJobs(w)
  PROVE  OwnStep(w) /\ (~SetCoreLatch(w) => \A v \in Workers : v # w => latch'[v] = latch[v])
<1> DEFINE G == OwnStep(w) /\ (~SetCoreLatch(w) => \A v \in Workers : v # w => latch'[v] = latch[v])
<1>0. /\ pc \in [Threads -> WorkerPcs \cup PosterPcs] /\ w \in Threads
      /\ wake \in [Threads -> Walks] /\ blocked \in [Workers -> BOOLEAN]
      /\ depth \in [Workers -> 0 .. MaxDepth]
      /\ blocked[w] => pc[w] = "blocked"
      /\ latch \in [Workers -> [0 .. MaxDepth -> LatchStates]]
      /\ DOMAIN bcast = Workers
  BY Apart DEF Core, Shape, PcOK, BlockedOK, Latches
<1>1. CASE WaitUntil(w)
  BY <1>0, <1>1 DEF WaitUntil, Goto, queues, control, OwnStep, Committed, Asleep, Locked, MyLatch
<1>2. CASE StartLooking(w)
  BY <1>0, <1>2 DEF StartLooking, Goto, queues, control, OwnStep, Committed, Asleep, Locked, MyLatch
<1>3. CASE Probe(w)
  BY <1>0, <1>3 DEF Probe, Goto, queues, control, OwnStep, Committed, Asleep, Locked, MyLatch
<1>4. CASE PopLocal(w)
  BY <1>0, <1>4 DEF PopLocal, Goto, queues, control, OwnStep, Committed, Asleep, Locked, MyLatch
<1>5. CASE PopBroadcast(w)
  BY <1>0, <1>5 DEF PopBroadcast, Goto, queues, control, OwnStep, Committed, Asleep, Locked, MyLatch
<1>6. CASE Steal(w)
  BY <1>0, <1>6 DEF Steal, Goto, queues, control, OwnStep, Committed, Asleep, Locked, MyLatch
<1>7. CASE PopInjected(w)
  BY <1>0, <1>7 DEF PopInjected, Goto, queues, control, OwnStep, Committed, Asleep, Locked, MyLatch
<1>8. CASE WorkFound(w)
  BY <1>0, <1>8 DEF WorkFound, Goto, queues, control, OwnStep, Committed, Asleep, Locked, MyLatch, CallWake
<1>9. CASE SpinRound(w)
  BY <1>0, <1>9 DEF SpinRound, Goto, queues, control, OwnStep, Committed, Asleep, Locked, MyLatch
<1>10. CASE AnnounceSleepy(w)
  BY <1>0, <1>10 DEF AnnounceSleepy, Goto, queues, control, OwnStep, Committed, Asleep, Locked, MyLatch
<1>11. CASE GetSleepy(w)
  <2>1. /\ pc' = [pc EXCEPT ![w] = "probe"] \/ pc' = [pc EXCEPT ![w] = "fall_asleep"]
        /\ pc[w] = "no_work"
        /\ blocked' = blocked /\ wake' = wake /\ bcast' = bcast /\ depth' = depth
    BY <1>0, <1>11 DEF GetSleepy, Goto, queues, control
  <2>2. \A v \in Workers : v # w => latch'[v] = latch[v]
    BY <1>0, <1>11 DEF GetSleepy
  <2>9. pc[w] # "waking" /\ ~blocked[w]
    BY <1>0, <2>1
  <2> QED BY <1>0, <2>9, <2>1, <2>2 DEF OwnStep, Committed, Asleep, Locked, MyLatch
<1>12. CASE FallAsleep(w)
  <2>1. /\ \/ pc' = [pc EXCEPT ![w] = "probe"] /\ latch' = latch
           \/ pc' = [pc EXCEPT ![w] = "register"] /\ latch' = [latch EXCEPT ![w][depth[w]] = "SLEEPING"]
        /\ pc[w] = "fall_asleep"
        /\ blocked' = blocked /\ wake' = wake /\ bcast' = bcast /\ depth' = depth
    BY <1>0, <1>12 DEF FallAsleep, Goto, queues, control
  <2>2. \A v \in Workers : v # w => latch'[v] = latch[v]
    BY <1>0, <2>1
  <2>3. pc'[w] = "probe" \/ latch'[w][depth[w]] = "SLEEPING"
    BY <1>0, <2>1
  <2>9. pc[w] # "waking" /\ ~blocked[w]
    BY <1>0, <2>1
  <2> QED BY <1>0, <2>9, <2>1, <2>2, <2>3 DEF OwnStep, Committed, Asleep, Locked, MyLatch
<1>13. CASE Register(w)
  BY <1>0, <1>13 DEF Register, Goto, queues, control, OwnStep, Committed, Asleep, Locked, MyLatch
<1>14. CASE InterruptedByJob(w)
  <2>1. /\ pc' = [pc EXCEPT ![w] = "probe"] /\ pc[w] = "interrupted"
        /\ blocked' = blocked /\ wake' = wake /\ bcast' = bcast /\ depth' = depth
    BY <1>0, <1>14 DEF InterruptedByJob, Goto, queues, control
  <2>2. \A v \in Workers : v # w => latch'[v] = latch[v]
    BY <1>0, <1>14 DEF InterruptedByJob
  <2>9. pc[w] # "waking" /\ ~blocked[w]
    BY <1>0, <2>1
  <2> QED BY <1>0, <2>9, <2>1, <2>2 DEF OwnStep, Committed, Asleep, Locked, MyLatch
<1>15. CASE LastCheckBroadcasts(w)
  BY <1>0, <1>15 DEF LastCheckBroadcasts, Goto, queues, control, OwnStep, Committed, Asleep, Locked, MyLatch, has_broadcast
<1>16. CASE LastCheckInjector(w)
  BY <1>0, <1>16 DEF LastCheckInjector, Goto, queues, control, OwnStep, Committed, Asleep, Locked, MyLatch
<1>17. CASE Unregister(w)
  BY <1>0, <1>17 DEF Unregister, Goto, queues, control, OwnStep, Committed, Asleep, Locked, MyLatch
<1>18. CASE Awaken(w)
  <2>1. /\ pc' = [pc EXCEPT ![w] = "probe"] /\ (pc[w] = "awaken" \/ (pc[w] = "blocked" /\ ~blocked[w]))
        /\ blocked' = blocked /\ wake' = wake /\ bcast' = bcast /\ depth' = depth
    BY <1>0, <1>18 DEF Awaken, Goto, queues, control
  <2>2. \A v \in Workers : v # w => latch'[v] = latch[v]
    BY <1>0, <1>18 DEF Awaken
  <2>9. pc[w] # "waking" /\ ~blocked[w]
    BY <1>0, <2>1
  <2> QED BY <1>0, <2>9, <2>1, <2>2 DEF OwnStep, Committed, Asleep, Locked, MyLatch
<1>19. CASE Execute(w)
  BY <1>0, <1>19 DEF Execute, Goto, queues, control, OwnStep, Committed, Asleep, Locked, MyLatch
<1>20. CASE Return(w)
  <2>1. /\ pc' = [pc EXCEPT ![w] = "stopped"] \/ pc' = [pc EXCEPT ![w] = "finish"]
        /\ pc[w] = "proceed" /\ latch' = latch
        /\ blocked' = blocked /\ wake' = wake /\ bcast' = bcast
    BY <1>0, <1>20 DEF Return, Goto, queues
  <2>2. \A v \in Workers : v # w => depth'[v] = depth[v]
    <3>1. depth' = depth \/ depth' = [depth EXCEPT ![w] = @ - 1]
      BY <1>20 DEF Return
    <3> QED BY <1>0, <3>1
  <2>9. pc[w] # "waking" /\ ~blocked[w]
    BY <1>0, <2>1
  <2> QED BY <1>0, <2>9, <2>1, <2>2 DEF OwnStep, Committed, Asleep, Locked, MyLatch
<1>21. CASE Fork(w)
  <2>1. /\ pc' = [pc EXCEPT ![w] = "push"] /\ pc[w] = "run"
        /\ blocked' = blocked /\ wake' = wake /\ bcast' = bcast
    BY <1>0, <1>21 DEF Fork, Goto, queues
  <2>2. \A v \in Workers : v # w => depth'[v] = depth[v] /\ latch'[v] = latch[v]
    BY <1>0, <1>21 DEF Fork
  <2>9. pc[w] # "waking" /\ ~blocked[w]
    BY <1>0, <2>1
  <2> QED BY <1>0, <2>9, <2>1, <2>2 DEF OwnStep, Committed, Asleep, Locked, MyLatch
<1>22. CASE SetLockLatch(w)
  BY <1>0, <1>22 DEF SetLockLatch, Goto, queues, control, OwnStep, Committed, Asleep, Locked, MyLatch
<1>23. CASE SetCoreLatch(w)
  <2>1. PICK j \in ForkJobs, q \in {0, 1} : CallWake(w, j.owner, j.owner, q, "start_looking")
    BY <1>23 DEF SetCoreLatch
  <2>2. /\ \A u \in Threads : u # w => pc'[u] = pc[u] /\ wake'[u] = wake[u]
        /\ pc'[w] \in {"waking", "start_looking"}
    BY <1>0, <2>1 DEF CallWake, Goto
  <2>3. /\ pc[w] \in {"run", "finish"}
        /\ blocked' = blocked /\ bcast' = bcast /\ depth' = depth
    BY <1>0, <1>23 DEF SetCoreLatch, queues
  <2>9. pc[w] # "waking" /\ ~blocked[w]
    BY <1>0, <2>3
  <2> QED BY <1>23, <2>9, <2>2, <2>3 DEF OwnStep, Committed, Asleep, Locked, MyLatch
<1>24. CASE NewJobs(w)
  BY <1>0, <1>24 DEF NewJobs, Goto, queues, control, OwnStep, Committed, Asleep, Locked, MyLatch, CallWake
<1>25. ASSUME NEW kind \in {"spin", "count"}, Push(w, kind) PROVE G
  BY <1>0, <1>25 DEF Push, Goto, queues, control, OwnStep, Committed, Asleep, Locked, MyLatch
<1> QED BY <1>1, <1>2, <1>3, <1>4, <1>5, <1>6, <1>7, <1>8, <1>9, <1>10, <1>11, <1>12, <1>13, <1>14, <1>15, <1>16, <1>17, <1>18, <1>19, <1>20, <1>21, <1>22, <1>23, <1>24, <1>25
        DEF Search, FallingAsleep, Working

\* A worker's own step keeps LatchInv, if the latches it sets notify.
LEMMA LatchOwnStep ==
  ASSUME LatchInv, NEW w \in Workers, OwnStep(w),
         \A v \in Workers : v # w => MyLatch(v)' = MyLatch(v) \/ (MyLatch(v)' = "SET" /\
             (MyLatch(v) = "SET" \/ ~Asleep(v) \/ \E t \in Threads : Notifies(t, v)'))
  PROVE  LatchInv'
<1>1. ASSUME NEW v \in Workers, NEW t \in Threads, Notifies(t, v) PROVE Notifies(t, v)'
  BY <1>1 DEF Notifies, OwnStep
<1> SUFFICES ASSUME NEW v \in Workers, Asleep(v)'
             PROVE  /\ MyLatch(v)' \in {"SLEEPING", "SET"}
                    /\ MyLatch(v)' = "SET" => \E t \in Threads : Notifies(t, v)'
  BY DEF LatchInv, Asleep
<1>2. Asleep(v) => /\ MyLatch(v) \in {"SLEEPING", "SET"}
                   /\ MyLatch(v) = "SET" => \E t \in Threads : Notifies(t, v)
  BY DEF LatchInv, Asleep
<1>3. CASE v = w
  <2>1. MyLatch(v)' = "SLEEPING" \/ (Asleep(v) /\ MyLatch(v)' = MyLatch(v))
    BY <1>3 DEF OwnStep
  <2> QED BY <1>1, <1>2, <2>1
<1>4. CASE v # w
  <2>1. Asleep(v)
    BY <1>4, Apart DEF Asleep, OwnStep
  <2> QED BY <1>1, <1>2, <1>4, <2>1
<1> QED BY <1>3, <1>4

\* Setting a latch as SetCoreLatch and SetTerminate do notifies the owner if it
\* sleeps on that latch.
LEMMA SetNotifies ==
  ASSUME Core, NEW t \in Threads, NEW v \in Workers, NEW d \in 0 .. MaxDepth, NEW q \in {0, 1},
         NEW after, latch' = [latch EXCEPT ![v][d] = "SET"], CallWake(t, v, v, q, after),
         latch[v][d] = "SLEEPING" => q = 1, depth' = depth, LatchInv,
         NEW x \in Workers
  PROVE  MyLatch(x)' = MyLatch(x) \/ (MyLatch(x)' = "SET" /\
             (MyLatch(x) = "SET" \/ ~Asleep(x) \/ \E u \in Threads : Notifies(u, x)'))
<1>1. /\ latch \in [Workers -> [0 .. MaxDepth -> LatchStates]] /\ depth[x] \in 0 .. MaxDepth
      /\ pc \in [Threads -> WorkerPcs \cup PosterPcs] /\ wake \in [Threads -> Walks]
  BY DEF Core, Shape, PcOK, Latches
<1>2. CASE x = v /\ depth[x] = d
  <2>1. MyLatch(x)' = "SET"
    BY <1>1, <1>2 DEF MyLatch
  <2>2. CASE q = 1
    <3>1. /\ pc'[t] = "waking"
          /\ wake'[t] = [next |-> v, last |-> v, quota |-> q, after |-> after]
      BY <1>1, <2>2 DEF CallWake, Goto
    <3>2. Notifies(t, x)'
      BY <1>2, <3>1 DEF Notifies
    <3> QED BY <2>1, <3>2
  <2>3. CASE q = 0
    <3>1. MyLatch(x) # "SLEEPING"
      BY <1>2, <2>3 DEF MyLatch
    <3>2. Asleep(x) => MyLatch(x) = "SET"
      BY <3>1 DEF LatchInv, Asleep
    <3> QED BY <2>1, <3>2
  <2> QED BY <2>2, <2>3
<1>3. CASE ~(x = v /\ depth[x] = d)
  BY <1>1, <1>3 DEF MyLatch
<1> QED BY <1>2, <1>3

\* A walk never passes a worker that is on its way to block, and wakes a
\* blocked one.
LEMMA LatchWakeThread ==
  ASSUME Core, LatchInv, NEW t \in Threads, WakeThread(t)
  PROVE  LatchInv'
<1> DEFINE i == wake[t].next
<1>0. /\ blocked \in [Workers -> BOOLEAN] /\ latch' = latch /\ depth' = depth
      /\ pc[i] # "blocked" => ~blocked[i]
  BY WalkFacts DEF Core, Shape, WakeThread, control, BlockedOK
<1> SUFFICES ASSUME NEW v \in Workers, Asleep(v)'
             PROVE  /\ MyLatch(v)' \in {"SLEEPING", "SET"}
                    /\ MyLatch(v)' = "SET" => \E u \in Threads : Notifies(u, v)'
  BY DEF LatchInv, Asleep
<1>1. MyLatch(v)' = MyLatch(v)
  BY <1>0 DEF MyLatch
<1>2. v # i
  <2>1. i \in Workers /\ blocked'[i] = FALSE /\ pc[i] \notin Locked
    BY <1>0, WalkFacts
  <2>2. pc'[i] \notin Locked
    <3>1. CASE pc[i] # "waking"
      BY <2>1, <3>1, WalkFacts
    <3>2. CASE pc[i] = "waking"
      BY <2>1, <3>2, WalkFacts, Apart DEF Locked
    <3> QED BY <3>1, <3>2
  <2> QED BY <2>1, <2>2 DEF Asleep
<1>3. Asleep(v)
  <2>1. blocked'[v] = blocked[v]
    BY <1>0, <1>2, WalkFacts
  <2>2. pc'[v] \in Locked => pc[v] \in Locked
    BY WalkFacts, Apart DEF Locked
  <2> QED BY <2>1, <2>2 DEF Asleep
<1>4. ASSUME NEW u \in Threads, Notifies(u, v) PROVE Notifies(u, v)'
  <2>1. u # t
    BY <1>2, <1>4 DEF Notifies
  <2> QED BY <1>4, <2>1, WalkFacts DEF Notifies
<1> QED BY <1>1, <1>3, <1>4 DEF LatchInv, Asleep

\* A step of a poster keeps LatchInv, if the latches it sets notify.
LEMMA LatchPoster ==
  ASSUME LatchInv, NEW p \in Posters,
         \A u \in Threads : u # p => pc'[u] = pc[u] /\ wake'[u] = wake[u],
         pc[p] # "waking", blocked' = blocked, depth' = depth,
         \A v \in Workers : MyLatch(v)' = MyLatch(v) \/ (MyLatch(v)' = "SET" /\
             (MyLatch(v) = "SET" \/ ~Asleep(v) \/ \E t \in Threads : Notifies(t, v)'))
  PROVE  LatchInv'
<1>1. ASSUME NEW v \in Workers, NEW t \in Threads, Notifies(t, v) PROVE Notifies(t, v)'
  BY <1>1 DEF Notifies
<1> SUFFICES ASSUME NEW v \in Workers, Asleep(v)'
             PROVE  /\ MyLatch(v)' \in {"SLEEPING", "SET"}
                    /\ MyLatch(v)' = "SET" => \E t \in Threads : Notifies(t, v)'
  BY DEF LatchInv, Asleep
<1>2. Asleep(v)
  BY Apart DEF Asleep
<1> QED BY <1>1, <1>2 DEF LatchInv, Asleep

\* Every step keeps LatchInv.
LEMMA LatchNext ==
  ASSUME TypeOK, Core, LatchInv, [Next]_vars
  PROVE  LatchInv'
<1>1. ASSUME NEW w \in Workers, Worker(w) PROVE LatchInv'
  <2>0. w \in Threads BY Apart
  <2>1. CASE WakeThread(w)
    BY <2>0, <2>1, LatchWakeThread
  <2>2. CASE (Search(w) \/ FallingAsleep(w) \/ Working(w) \/ NewJobs(w)) /\ ~SetCoreLatch(w)
    <3>1. OwnStep(w) /\ \A v \in Workers : v # w => latch'[v] = latch[v]
      BY <2>2, OwnSteps
    <3>2. \A v \in Workers : v # w => MyLatch(v)' = MyLatch(v)
      BY <3>1 DEF MyLatch, OwnStep
    <3> QED BY <3>1, <3>2, LatchOwnStep
  <2>3. CASE SetCoreLatch(w)
    <3>1. OwnStep(w)
      BY <2>3, OwnSteps DEF Working
    <3> DEFINE j == run[w][depth[w]]
               q == IF j.kind = "count" \/ was_sleeping(latch[j.owner][j.depth]) THEN 1 ELSE 0
    <3>2. /\ j \in ForkJobs /\ latch' = [latch EXCEPT ![j.owner][j.depth] = "SET"]
          /\ CallWake(w, j.owner, j.owner, q, "start_looking") /\ depth' = depth
      BY <2>3 DEF SetCoreLatch
    <3>3. j.owner \in Workers /\ j.depth \in 0 .. MaxDepth
      <4>1. j \in ForkJobs BY <3>2
      <4> HIDE DEF j
      <4> QED BY <4>1 DEF ForkJobs
    <3>4. q \in {0, 1} /\ (latch[j.owner][j.depth] = "SLEEPING" => q = 1)
      BY DEF was_sleeping
    <3>5. \A v \in Workers : MyLatch(v)' = MyLatch(v) \/ (MyLatch(v)' = "SET" /\
             (MyLatch(v) = "SET" \/ ~Asleep(v) \/ \E t \in Threads : Notifies(t, v)'))
      <4> HIDE DEF j, q
      <4> QED BY <2>0, <3>2, <3>3, <3>4, SetNotifies
    <3> QED BY <3>1, <3>5, LatchOwnStep
  <2> QED BY <1>1, <2>1, <2>2, <2>3 DEF Worker, Working
<1>2. ASSUME NEW p \in Posters, Poster(p) \/ (p = Owner /\ DropPool) PROVE LatchInv'
  <2>0. p \in Threads /\ pc \in [Threads -> WorkerPcs \cup PosterPcs] BY Apart DEF Core, Shape, PcOK
  <2>1. CASE WakeThread(p)
    BY <2>0, <2>1, LatchWakeThread
  <2>2. CASE NewJobs(p)
    <3>1. /\ pc[p] # "waking" /\ blocked' = blocked /\ depth' = depth /\ latch' = latch
          /\ CallWake(p, 0, N - 1, NumToWake(counters', 1, was_empty[p]),
                      IF p \in Workers THEN "wait_until" ELSE "wait")
      BY <2>2 DEF NewJobs, control
    <3>2. \A u \in Threads : u # p => pc'[u] = pc[u] /\ wake'[u] = wake[u]
      BY <2>0, <3>1 DEF CallWake, Goto, Core, Shape
    <3>3. \A v \in Workers : MyLatch(v)' = MyLatch(v)
      BY <3>1 DEF MyLatch
    <3> QED BY <3>1, <3>2, <3>3, LatchPoster
  <2>3. CASE \/ StartInject(p) \/ Inject(p) \/ StartBroadcast(p) \/ PushBroadcast(p) \/ LatchReleased(p)
             \/ p = Owner /\ DropPool
    <3>1. blocked' = blocked /\ depth' = depth /\ latch' = latch
      BY <2>3 DEF StartInject, Inject, StartBroadcast, PushBroadcast, LatchReleased, DropPool, control
    <3>2. Unaided(p)
      BY <2>0, <2>3, PosterQuiet, QuietFacts, OtherSteps DEF Unaided
    <3>3. \A v \in Workers : MyLatch(v)' = MyLatch(v)
      BY <3>1 DEF MyLatch
    <3> QED BY <3>1, <3>2, <3>3, LatchPoster DEF Unaided
  <2> QED BY <1>2, <2>1, <2>2, <2>3 DEF Poster
<1>3. CASE SetTerminate
  <2>1. /\ Owner \in Threads /\ term \in Workers /\ 0 \in 0 .. MaxDepth
        /\ latch' = [latch EXCEPT ![term][0] = "SET"] /\ depth' = depth
        /\ CallWake(Owner, term, term, 1, "terminate")
    BY <1>3, Apart DEF SetTerminate, control, TypeOK, Workers
  <2>2. \A v \in Workers : MyLatch(v)' = MyLatch(v) \/ (MyLatch(v)' = "SET" /\
             (MyLatch(v) = "SET" \/ ~Asleep(v) \/ \E t \in Threads : Notifies(t, v)'))
    BY <2>1, SetNotifies
  <2>3. Unaided(Owner)
    BY <1>3, <2>1, OtherSteps
  <2> QED BY <2>1, <2>2, <2>3, LatchPoster DEF Unaided
<1>4. CASE UNCHANGED vars
  BY <1>4 DEF LatchInv, Notifies, MyLatch, vars
<1> QED BY <1>1, <1>2, <1>3, <1>4 DEF Next, Done

(***************************************************************************)
(* No wake-up of a latch's owner is lost: a worker that is blocked on a    *)
(* set latch is about to be woken, in every interleaving of CoreLatch::set *)
(* with get_sleepy, fall_asleep and wake_up.                               *)
(***************************************************************************)
THEOREM LatchWakesKept == Spec => []LatchWakeNotLost
<1>1. Init => LatchInv
  BY Apart DEF Init, LatchInv, Locked
<1>2. IInv /\ LatchInv /\ [Next]_vars => LatchInv'
  BY LatchNext DEF IInv
<1>3. LatchInv => LatchWakeNotLost
  BY Apart DEF LatchInv, LatchWakeNotLost, Notifies, WillVisit
<1> QED BY <1>1, <1>2, <1>3, SleepInvariant, PTL DEF Spec

-----------------------------------------------------------------------------
\* A step of a thread that neither walks nor broadcasts loses no broadcast.
LEMMA BroadcastKept ==
  ASSUME BroadcastInv, NEW t \in Threads,
         \A u \in Threads : u # t => pc'[u] = pc[u] /\ wake'[u] = wake[u],
         pc[t] # "waking", pc[t] # "bcast_push",
         \A v \in Workers : Committed(v)' /\ bcast'[v] # <<>> => Committed(v) /\ bcast[v] # <<>>
  PROVE  BroadcastInv'
<1> SUFFICES ASSUME NEW v \in Workers, Committed(v)', bcast'[v] # <<>>
             PROVE  \E p \in Posters : pc'[p] = "bcast_push" \/ Reaches(p, v)'
  BY DEF BroadcastInv, Committed
<1>1. PICK p \in Posters : pc[p] = "bcast_push" \/ Reaches(p, v)
  BY DEF BroadcastInv, Committed
<1>2. p \in Threads /\ p # t
  BY <1>1, Apart DEF Reaches, WillVisit
<1> QED BY <1>1, <1>2 DEF Reaches, WillVisit

\* A broadcaster's walk does not run out of quota before it has come to every
\* worker.
LEMMA BroadcastWakeThread ==
  ASSUME Core, BroadcastInv, NEW t \in Threads, WakeThread(t)
  PROVE  BroadcastInv'
<1> DEFINE i == wake[t].next
<1> SUFFICES ASSUME NEW v \in Workers, Committed(v)', bcast'[v] # <<>>
             PROVE  \E p \in Posters : pc'[p] = "bcast_push" \/ Reaches(p, v)'
  BY DEF BroadcastInv, Committed
<1>0. blocked \in [Workers -> BOOLEAN] /\ bcast' = bcast
  BY DEF Core, Shape, WakeThread, queues
<1>1. v # i
  <2>1. i \in Workers /\ blocked'[i] = FALSE /\ pc[i] # "check_inj"
    BY <1>0, WalkFacts DEF Locked
  <2>2. pc'[i] # "check_inj"
    BY <2>1, WalkFacts, Apart
  <2> QED BY <2>1, <2>2 DEF Committed
<1>2. Committed(v)
  <2>1. blocked'[v] = blocked[v]
    BY <1>0, <1>1, WalkFacts
  <2>2. pc'[v] = "check_inj" => pc[v] = "check_inj"
    BY WalkFacts, Apart
  <2> QED BY <2>1, <2>2 DEF Committed
<1>3. PICK p \in Posters : pc[p] = "bcast_push" \/ Reaches(p, v)
  BY <1>0, <1>2 DEF BroadcastInv, Committed
<1>4. CASE p # t
  BY <1>3, <1>4, WalkFacts, Apart DEF Reaches, WillVisit
<1>5. CASE p = t
  <2>1. Reaches(t, v)
    BY <1>3, <1>5, WalkFacts
  <2>2. i + 1 <= v /\ v <= wake[t].last /\ v \in Int /\ wake[t].quota > wake[t].last - i
    BY <1>1, <2>1, WalkFacts, Apart DEF Reaches, WillVisit
  <2>3. /\ pc'[t] = "waking" /\ wake'[t].next = i + 1 /\ wake'[t].last = wake[t].last
        /\ wake'[t].quota \in Int /\ wake'[t].quota >= wake[t].quota - 1
    BY <2>2, WalkFacts
  <2>4. wake'[t].quota > wake'[t].last - wake'[t].next
    <3> DEFINE q == wake[t].quota
               q1 == wake'[t].quota
               l == wake[t].last
    <3>1. q \in Int /\ q1 \in Int /\ l \in Int /\ i \in Int
      BY <2>3, WalkFacts
    <3>2. q > l - i /\ q1 >= q - 1
      BY <2>2, <2>3
    <3>3. q1 > l - (i + 1)
      <4> HIDE DEF q, q1, l, i
      <4> QED BY <3>1, <3>2
    <3> QED BY <2>3, <3>3
  <2> QED BY <1>5, <2>2, <2>3, <2>4 DEF Reaches, WillVisit
<1> QED BY <1>4, <1>5

\* While the jobs are being pushed the notification is still to come.
LEMMA BroadcastPush ==
  ASSUME Core, NEW p \in Posters, PushBroadcast(p)
  PROVE  BroadcastInv'
<1>0. p \in Threads /\ pc \in [Threads -> WorkerPcs \cup PosterPcs] /\ wake \in [Threads -> Walks]
  BY Apart DEF Core, Shape, PcOK
<1>1. \/ pc' = pc /\ pc[p] = "bcast_push"
      \/ CallWake(p, 0, N - 1, N, "wait")
  BY DEF PushBroadcast
<1>2. CASE pc' = pc /\ pc[p] = "bcast_push"
  BY <1>2 DEF BroadcastInv
<1>3. CASE CallWake(p, 0, N - 1, N, "wait")
  <2>1. pc'[p] = "waking" /\ wake'[p] = [next |-> 0, last |-> N - 1, quota |-> N, after |-> "wait"]
    BY <1>0, <1>3 DEF CallWake, Goto
  <2>2. \A v \in Workers : Reaches(p, v)'
    BY <2>1 DEF Reaches, WillVisit, Workers
  <2> QED BY <2>2 DEF BroadcastInv
<1> QED BY <1>1, <1>2, <1>3

\* Every step keeps BroadcastInv.
LEMMA BroadcastNext ==
  ASSUME TypeOK, Core, BroadcastInv, [Next]_vars
  PROVE  BroadcastInv'
<1>1. ASSUME NEW w \in Workers, Worker(w) PROVE BroadcastInv'
  <2>0. w \in Threads /\ pc[w] # "bcast_push"
    BY Apart DEF Core, Shape, PcOK, WorkerPcs, Searching, Locked
  <2>1. CASE WakeThread(w)
    BY <2>0, <2>1, BroadcastWakeThread
  <2>2. CASE Search(w) \/ FallingAsleep(w) \/ Working(w) \/ NewJobs(w)
    <3>1. OwnStep(w)
      BY <2>2, OwnSteps
    <3>2. \A v \in Workers : Committed(v)' /\ bcast'[v] # <<>> => Committed(v) /\ bcast[v] # <<>>
      BY <3>1, Apart DEF OwnStep, Committed
    <3> QED BY <2>0, <3>1, <3>2, BroadcastKept DEF OwnStep
  <2> QED BY <1>1, <2>1, <2>2 DEF Worker
<1>2. ASSUME NEW p \in Posters, \/ Poster(p) \/ (p = Owner /\ DropPool) \/ (p = Owner /\ SetTerminate)
      PROVE  BroadcastInv'
  <2>0. p \in Threads /\ p \notin Workers /\ pc \in [Threads -> WorkerPcs \cup PosterPcs]
    BY Apart DEF Core, Shape, PcOK
  <2>1. CASE WakeThread(p)
    BY <2>0, <2>1, BroadcastWakeThread
  <2>2. CASE PushBroadcast(p)
    BY <2>2, BroadcastPush
  <2>3. CASE NewJobs(p)
    <3>1. /\ pc[p] = "new_jobs" /\ blocked' = blocked /\ bcast' = bcast
          /\ CallWake(p, 0, N - 1, NumToWake(counters', 1, was_empty[p]),
                      IF p \in Workers THEN "wait_until" ELSE "wait")
      BY <2>3 DEF NewJobs, queues
    <3>2. \A u \in Threads : u # p => pc'[u] = pc[u] /\ wake'[u] = wake[u]
      BY <2>0, <3>1 DEF CallWake, Goto, Core, Shape
    <3>3. \A v \in Workers : Committed(v)' /\ bcast'[v] # <<>> => Committed(v) /\ bcast[v] # <<>>
      BY <2>0, <3>1, <3>2, Apart DEF Committed
    <3> QED BY <2>0, <3>1, <3>2, <3>3, BroadcastKept
  <2>4. CASE \/ StartInject(p) \/ Inject(p) \/ StartBroadcast(p) \/ LatchReleased(p)
             \/ p = Owner /\ (DropPool \/ SetTerminate)
    <3>1. Unaided(p)
      BY <2>0, <2>4, PosterQuiet, QuietFacts, OtherSteps DEF Unaided
    <3>2. bcast' = bcast
      BY <2>4 DEF StartInject, Inject, StartBroadcast, LatchReleased, DropPool, SetTerminate, queues
    <3>3. pc[p] # "bcast_push"
      BY <2>4 DEF StartInject, Inject, StartBroadcast, LatchReleased, DropPool, SetTerminate
    <3>4. \A v \in Workers : Committed(v)' /\ bcast'[v] # <<>> => Committed(v) /\ bcast[v] # <<>>
      BY <2>0, <3>1, <3>2, Apart DEF Committed, Unaided
    <3> QED BY <2>0, <3>1, <3>3, <3>4, BroadcastKept DEF Unaided
  <2> QED BY <1>2, <2>1, <2>2, <2>3, <2>4 DEF Poster
<1>3. CASE UNCHANGED vars
  BY <1>3 DEF BroadcastInv, Reaches, WillVisit, vars
<1> QED BY <1>1, <1>2, <1>3 DEF Next, Done

(***************************************************************************)
(* No broadcast job is left in the deque of a blocked worker that nobody   *)
(* is about to notify, although inject_broadcast uses neither a fence nor  *)
(* the JEC.                                                                *)
(***************************************************************************)
THEOREM BroadcastsKept == Spec => []BroadcastNotLost
<1>1. Init => BroadcastInv
  BY DEF Init, BroadcastInv
<1>2. IInv /\ BroadcastInv /\ [Next]_vars => BroadcastInv'
  BY BroadcastNext DEF IInv
<1>3. BroadcastInv => BroadcastNotLost
  BY DEF BroadcastInv, BroadcastNotLost, Reaches
<1> QED BY <1>1, <1>2, <1>3, SleepInvariant, PTL DEF Spec

-----------------------------------------------------------------------------
(***************************************************************************)
(* A latch that is set stays set while its owner waits for it (CoreLatch). *)
(***************************************************************************)
THEOREM LatchesStaySet == Spec => SetLatchStaysSet
<1> DEFINE Stays == \A w \in Workers : \A d \in 0 .. MaxDepth :
             d <= depth[w] /\ d <= depth'[w] /\ latch[w][d] = "SET" => latch'[w][d] = "SET"
<1>1. ASSUME IInv, [Next]_vars PROVE Stays
  <2>0. latch \in [Workers -> [0 .. MaxDepth -> LatchStates]] /\ depth \in [Workers -> 0 .. MaxDepth]
    BY <1>1 DEF IInv, Core, Shape, Latches
  <2>1. ASSUME NEW v \in Workers, NEW e \in 0 .. MaxDepth, latch' = [latch EXCEPT ![v][e] = "SET"]
        PROVE  Stays
    BY <2>0, <2>1
  <2>2. CASE latch' = latch
    BY <2>2
  <2>3. ASSUME NEW w \in Workers, GetSleepy(w) \/ FallAsleep(w) PROVE Stays
    <3>1. \/ latch' = latch
          \/ latch[w][depth[w]] # "SET" /\ \E x : latch' = [latch EXCEPT ![w][depth[w]] = x]
      BY <2>3 DEF GetSleepy, FallAsleep, MyLatch
    <3>2. ASSUME NEW x, latch[w][depth[w]] # "SET", latch' = [latch EXCEPT ![w][depth[w]] = x]
          PROVE  Stays
      BY <2>0, <3>2
    <3> QED BY <2>2, <3>1, <3>2
  <2>4. ASSUME NEW w \in Workers, InterruptedByJob(w) \/ Awaken(w) PROVE Stays
    <3>1. latch' = [latch EXCEPT ![w][depth[w]] = wake_up(@)]
      BY <2>4 DEF InterruptedByJob, Awaken
    <3> QED BY <2>0, <3>1 DEF wake_up
  <2>5. ASSUME NEW w \in Workers, Fork(w) PROVE Stays
    <3>1. latch' = [latch EXCEPT ![w][depth[w] + 1] = "UNSET"]
      BY <2>5 DEF Fork
    <3> QED BY <2>0, <3>1
  <2>6. ASSUME NEW w \in Workers, SetCoreLatch(w) PROVE Stays
    <3>1. PICK j \in ForkJobs : latch' = [latch EXCEPT ![j.owner][j.depth] = "SET"]
      BY <2>6 DEF SetCoreLatch
    <3>2. j.owner \in Workers /\ j.depth \in 0 .. MaxDepth
      BY DEF ForkJobs
    <3> QED BY <2>1, <3>1, <3>2
  <2>7. CASE SetTerminate
    <3>1. term \in Workers /\ 0 \in 0 .. MaxDepth /\ latch' = [latch EXCEPT ![term][0] = "SET"]
      BY <1>1, <2>7 DEF SetTerminate, IInv, TypeOK, Workers
    <3> QED BY <2>1, <3>1
  <2>8. ASSUME NEW w \in Workers, Worker(w) PROVE Stays
    <3>1. CASE WaitUntil(w) \/ StartLooking(w) \/ Probe(w) \/ PopLocal(w) \/ PopBroadcast(w)
               \/ Steal(w) \/ PopInjected(w) \/ WorkFound(w)
      BY <2>2, <3>1 DEF WaitUntil, StartLooking, Probe, PopLocal, PopBroadcast, Steal, PopInjected, WorkFound
    <3>2. CASE SpinRound(w) \/ AnnounceSleepy(w) \/ Register(w) \/ LastCheckBroadcasts(w)
               \/ LastCheckInjector(w) \/ Unregister(w)
      BY <2>2, <3>2 DEF SpinRound, AnnounceSleepy, Register, LastCheckBroadcasts, LastCheckInjector, Unregister
    <3>3. CASE \/ Execute(w) \/ Return(w) \/ SetLockLatch(w) \/ NewJobs(w) \/ WakeThread(w)
               \/ \E kind \in {"spin", "count"} : Push(w, kind)
      BY <2>2, <3>3 DEF Execute, Return, SetLockLatch, Push, NewJobs, WakeThread
    <3> QED BY <2>3, <2>4, <2>5, <2>6, <2>8, <3>1, <3>2, <3>3 DEF Worker, Search, FallingAsleep, Working
  <2>9. ASSUME NEW p \in Posters, Poster(p) \/ DropPool PROVE Stays
    BY <2>2, <2>9 DEF Poster, StartInject, Inject, StartBroadcast, PushBroadcast, LatchReleased,
                      NewJobs, WakeThread, DropPool
  <2>10. CASE UNCHANGED vars
    BY <2>2, <2>10 DEF vars
  <2> QED BY <1>1, <2>7, <2>8, <2>9, <2>10 DEF Next, Done
<1>2. IInv /\ [Next]_vars => [Stays]_vars
  BY <1>1
<1> QED BY <1>2, SleepInvariant, PTL DEF Spec, SetLatchStaysSet
=============================================================================
