------------------------------ MODULE Counters ------------------------------
(***************************************************************************)
(* The packed word of rayon-core's sleep counters (sleep/counters.rs).     *)
(* One AtomicUsize holds, from the least significant bits: the number of   *)
(* sleeping threads, the number of inactive threads, and the jobs event    *)
(* counter (JEC). Threads update it with fetch_add, fetch_sub and          *)
(* compare_exchange of the whole word, so a field that borrows from or     *)
(* carries into its neighbour corrupts the other two.                      *)
(***************************************************************************)
EXTENDS Naturals, FiniteSets

CONSTANTS Threads,        \* the worker threads sharing the word
          THREADS_RANGE,  \* 1 << THREADS_BITS, the values of a thread counter
          JEC_RANGE       \* the values of the JEC, the remaining high bits

ASSUME RangeAssumption ==
  /\ THREADS_RANGE \in Nat \ {0}
  /\ JEC_RANGE \in Nat \ {0}
  /\ JEC_RANGE % 2 = 0

THREADS_MAX == THREADS_RANGE - 1

\* Sleep::new asserts n_threads <= THREADS_MAX.
ASSUME ThreadsAssumption == IsFiniteSet(Threads) /\ Cardinality(Threads) <= THREADS_MAX

VARIABLES word,    \* AtomicCounters::value
          thread   \* what each thread last told the counters it is

vars == <<word, thread>>

ONE_SLEEPING == 1
ONE_INACTIVE == THREADS_RANGE
ONE_JEC == THREADS_RANGE * THREADS_RANGE
WORD_RANGE == ONE_JEC * JEC_RANGE

\* Wrapping usize arithmetic: fetch_add, fetch_sub and wrapping_add.
WrappingAdd(x, y) == (x + y) % WORD_RANGE
WrappingSub(x, y) == (x + (WORD_RANGE - y)) % WORD_RANGE

sleeping_threads(w) == w % THREADS_RANGE
inactive_threads(w) == (w \div ONE_INACTIVE) % THREADS_RANGE
jobs_counter(w) == w \div ONE_JEC

is_sleepy(jec) == jec % 2 = 0
is_active(jec) == ~is_sleepy(jec)

increment_unwrapped(w) == w + ONE_JEC
increment_shifted(w) == WrappingAdd(w, 2 * ONE_JEC)
increment_jobs_counter(w) == WrappingAdd(w, ONE_JEC)

-----------------------------------------------------------------------------
(***************************************************************************)
(* The atomic operations, as the threads in each state call them. A loop   *)
(* of load and compare_exchange changes the word only in its last round,   *)
(* when the word is still the loaded one: it is one step.                  *)
(***************************************************************************)
Init ==
  /\ word = 0
  /\ thread = [t \in Threads |-> "active"]

add_inactive_thread(t) ==
  /\ thread[t] = "active"
  /\ word' = WrappingAdd(word, ONE_INACTIVE)
  /\ thread' = [thread EXCEPT ![t] = "idle"]

sub_inactive_thread(t) ==
  /\ thread[t] = "idle"
  /\ word' = WrappingSub(word, ONE_INACTIVE)
  /\ thread' = [thread EXCEPT ![t] = "active"]

\* The compare_exchange that succeeds; `+=` on the loaded word does not wrap.
try_add_sleeping_thread(t) ==
  /\ thread[t] = "idle"
  /\ word' = word + ONE_SLEEPING
  /\ thread' = [thread EXCEPT ![t] = "asleep"]

sub_sleeping_twice(t) ==
  /\ thread[t] = "asleep"
  /\ word' = WrappingSub(word, 2 * ONE_SLEEPING)
  /\ thread' = [thread EXCEPT ![t] = "idle"]

\* Called by whoever wakes t, or by t when it finds an injected job.
sub_sleeping_thread(t) ==
  /\ thread[t] = "asleep"
  /\ word' = WrappingSub(word, ONE_SLEEPING)
  /\ thread' = [thread EXCEPT ![t] = "idle"]

\* announce_sleepy: an idle thread toggles the JEC from active to sleepy.
announce_sleepy(t) ==
  /\ thread[t] = "idle"
  /\ is_active(jobs_counter(word))
  /\ word' = increment_jobs_counter(word)
  /\ UNCHANGED thread

\* new_jobs: whoever posts work toggles the JEC from sleepy to active.
new_jobs ==
  /\ is_sleepy(jobs_counter(word))
  /\ word' = increment_jobs_counter(word)
  /\ UNCHANGED thread

Next ==
  \/ \E t \in Threads :
        \/ add_inactive_thread(t)
        \/ sub_inactive_thread(t)
        \/ try_add_sleeping_thread(t)
        \/ sub_sleeping_thread(t)
        \/ announce_sleepy(t)
  \/ new_jobs

Spec == Init /\ [][Next]_vars

-----------------------------------------------------------------------------
Asleep == {t \in Threads : thread[t] = "asleep"}
Inactive == {t \in Threads : thread[t] \in {"idle", "asleep"}}

(***************************************************************************)
(* The word is a usize.                                                    *)
(***************************************************************************)
TypeOK ==
  /\ word \in 0 .. (WORD_RANGE - 1)
  /\ thread \in [Threads -> {"active", "idle", "asleep"}]

(***************************************************************************)
(* Whatever the threads do, up to THREADS_MAX of them at once, the two     *)
(* low fields of the word are exactly the number of sleeping and of        *)
(* inactive threads: no addition carries out of a field and no             *)
(* subtraction borrows from the next one. The debug_asserts of             *)
(* sub_inactive_thread, sub_sleeping_thread, try_add_sleeping_thread and   *)
(* awake_but_idle_threads follow.                                          *)
(***************************************************************************)
FieldsExact ==
  /\ sleeping_threads(word) = Cardinality(Asleep)
  /\ inactive_threads(word) = Cardinality(Inactive)

(***************************************************************************)
(* Thread bookkeeping never disturbs the JEC, and posting work or getting  *)
(* sleepy never disturbs the thread counters, not even when the JEC wraps  *)
(* from its last value to zero (counters.rs, increment_jobs_counter: "it   *)
(* doesn't overflow into the other counters, just wraps itself").          *)
(***************************************************************************)
FieldsIsolated ==
  [][ /\ thread' # thread => jobs_counter(word') = jobs_counter(word)
      /\ thread' = thread =>
           /\ jobs_counter(word') = (jobs_counter(word) + 1) % JEC_RANGE
           /\ sleeping_threads(word') = sleeping_threads(word)
           /\ inactive_threads(word') = inactive_threads(word)
    ]_vars
=============================================================================
