--------------------------- MODULE CountersProofs ---------------------------
(***************************************************************************)
(* Proofs about the packed word of Counters: for any number of threads up  *)
(* to THREADS_MAX and any widths of the fields, the fields never disturb   *)
(* one another.                                                            *)
(***************************************************************************)
EXTENDS Counters, FiniteSetTheorems, TLAPS

\* The word that holds s sleeping threads, i inactive threads and the JEC j.
Pack(s, i, j) == s + ONE_INACTIVE * i + ONE_JEC * j

(***************************************************************************)
(* Quotient and remainder of a number in mixed radix: what the masks and   *)
(* shifts of counters.rs compute.                                          *)
(***************************************************************************)
LEMMA DivMod ==
  ASSUME NEW R \in Nat \ {0}, NEW q \in Nat, NEW r \in 0 .. (R - 1)
  PROVE  /\ (r + R * q) % R = r
         /\ (r + R * q) \div R = q
  BY SMTT(30)

(***************************************************************************)
(* The packed counts fill less than the JEC's unit, and with the JEC less  *)
(* than the word: the fields do not overlap.                               *)
(***************************************************************************)
LEMMA Products ==
  ASSUME NEW R \in Nat \ {0}, NEW J \in Nat \ {0}, NEW s \in 0 .. (R - 1),
         NEW i \in 0 .. (R - 1), NEW j \in 0 .. (J - 1)
  PROVE  /\ R * R \in Nat \ {0}
         /\ (R * R) * J \in Nat \ {0}
         /\ s + R * i \in 0 .. (R * R - 1)
         /\ i + R * j \in Nat
         /\ s + R * i + (R * R) * j = s + R * (i + R * j)
         /\ s + R * i + (R * R) * j \in 0 .. ((R * R) * J - 1)
<1>1. R * R \in Nat \ {0}
  BY SMTT(30)
<1>2. (R * R) * J \in Nat \ {0}
  BY <1>1, SMTT(30)
<1>3. s + R * i \in 0 .. (R * R - 1)
  <2>1. R * i <= R * (R - 1) /\ R * i \in Nat
    BY SMTT(30)
  <2>2. R * (R - 1) = R * R - R
    BY SMTT(30)
  <2> QED BY <1>1, <2>1, <2>2
<1>4. R * j \in Nat /\ R * (R * j) = (R * R) * j /\ R * (i + R * j) = R * i + R * (R * j)
  BY SMTT(30)
<1>5. (R * R) * j \in Nat /\ (R * R) * j <= (R * R) * (J - 1)
  BY <1>1, SMTT(30)
<1>6. (R * R) * (J - 1) = (R * R) * J - R * R
  BY <1>1, SMTT(30)
<1>7. s + R * i + (R * R) * j \in 0 .. ((R * R) * J - 1)
  BY <1>1, <1>2, <1>3, <1>5, <1>6
<1>8. i + R * j \in Nat
  BY <1>4
<1>9. s + R * i + (R * R) * j = s + R * (i + R * j)
  <2>1. R * i \in Nat BY SMTT(30)
  <2> QED BY <1>4, <2>1
<1> QED BY <1>1, <1>2, <1>3, <1>7, <1>8, <1>9

(***************************************************************************)
(* Reading a field of a packed word gives back what was packed, and the    *)
(* packed word is a usize.                                                 *)
(***************************************************************************)
LEMMA Unpack ==
  ASSUME NEW s \in 0 .. THREADS_MAX, NEW i \in 0 .. THREADS_MAX,
         NEW j \in 0 .. (JEC_RANGE - 1)
  PROVE  /\ Pack(s, i, j) \in 0 .. (WORD_RANGE - 1)
         /\ sleeping_threads(Pack(s, i, j)) = s
         /\ inactive_threads(Pack(s, i, j)) = i
         /\ jobs_counter(Pack(s, i, j)) = j
<1> DEFINE R == THREADS_RANGE
<1>0. /\ R \in Nat \ {0} /\ JEC_RANGE \in Nat \ {0}
      /\ s \in 0 .. (R - 1) /\ i \in 0 .. (R - 1)
  BY RangeAssumption DEF THREADS_MAX
<1> HIDE DEF R
<1>1. /\ R * R \in Nat \ {0}
      /\ s + R * i \in 0 .. (R * R - 1)
      /\ i + R * j \in Nat
      /\ s + R * i + (R * R) * j = s + R * (i + R * j)
      /\ s + R * i + (R * R) * j \in 0 .. ((R * R) * JEC_RANGE - 1)
  BY <1>0, Products
<1>2. /\ (s + R * (i + R * j)) % R = s
      /\ (s + R * (i + R * j)) \div R = i + R * j
  BY <1>0, <1>1, DivMod
<1>3. (i + R * j) % R = i
  BY <1>0, DivMod
<1>4. ((s + R * i) + (R * R) * j) \div (R * R) = j
  BY <1>0, <1>1, DivMod
<1>5. Pack(s, i, j) = s + R * i + (R * R) * j
  BY DEF Pack, ONE_INACTIVE, ONE_JEC, R
<1> QED
  BY <1>1, <1>2, <1>3, <1>4, <1>5
     DEF R, WORD_RANGE, ONE_INACTIVE, ONE_JEC, sleeping_threads, inactive_threads, jobs_counter

(***************************************************************************)
(* What the atomic operations do to a packed word.                         *)
(***************************************************************************)
LEMMA WordArithmetic ==
  ASSUME NEW s \in 0 .. THREADS_MAX, NEW i \in 0 .. THREADS_MAX,
         NEW j \in 0 .. (JEC_RANGE - 1)
  PROVE  /\ i + 1 <= THREADS_MAX => WrappingAdd(Pack(s, i, j), ONE_INACTIVE) = Pack(s, i + 1, j)
         /\ i > 0 => WrappingSub(Pack(s, i, j), ONE_INACTIVE) = Pack(s, i - 1, j)
         /\ Pack(s, i, j) + ONE_SLEEPING = Pack(s + 1, i, j)
         /\ s > 0 => WrappingSub(Pack(s, i, j), ONE_SLEEPING) = Pack(s - 1, i, j)
         /\ increment_jobs_counter(Pack(s, i, j)) = Pack(s, i, (j + 1) % JEC_RANGE)
<1> DEFINE W == WORD_RANGE
           p == Pack(s, i, j)
<1>1. /\ THREADS_RANGE \in Nat \ {0} /\ JEC_RANGE \in Nat \ {0}
      /\ THREADS_MAX \in Nat /\ ONE_INACTIVE \in Nat \ {0} /\ ONE_INACTIVE = THREADS_RANGE
  BY RangeAssumption DEF THREADS_MAX, ONE_INACTIVE
<1>2. ONE_JEC \in Nat \ {0} /\ W \in Nat \ {0}
  <2>1. 0 \in 0 .. (THREADS_RANGE - 1) /\ 0 \in 0 .. (JEC_RANGE - 1)
    BY <1>1
  <2> QED BY <1>1, <2>1, Products DEF ONE_JEC, WORD_RANGE
<1>3. ONE_INACTIVE * i \in Nat /\ ONE_JEC * j \in Nat
  BY <1>1, <1>2, SMTT(30)
<1>4. p \in 0 .. (W - 1)
  BY Unpack
<1>5. ASSUME NEW x \in Nat, x < W PROVE x % W = x /\ (x + W) % W = x
  <2>1. x = x + W * 0 /\ x + W = x + W * 1
    BY <1>2, <1>5
  <2>2. x \in 0 .. (W - 1)
    BY <1>2, <1>5
  <2>3. (x + W * 0) % W = x /\ (x + W * 1) % W = x
    <3> HIDE DEF W
    <3> QED BY <1>2, <2>2, DivMod
  <2> QED BY <2>1, <2>3
<1> HIDE DEF W
<1>6. i + 1 <= THREADS_MAX => WrappingAdd(p, ONE_INACTIVE) = Pack(s, i + 1, j)
  <2> SUFFICES ASSUME i + 1 <= THREADS_MAX PROVE WrappingAdd(p, ONE_INACTIVE) = Pack(s, i + 1, j)
    OBVIOUS
  <2>1. Pack(s, i + 1, j) \in 0 .. (W - 1)
    <3>1. i + 1 \in 0 .. THREADS_MAX BY <1>1
    <3> QED BY <3>1, Unpack DEF W
  <2>2. ONE_INACTIVE * (i + 1) = ONE_INACTIVE * i + ONE_INACTIVE
    BY <1>1, SMTT(30)
  <2>3. Pack(s, i + 1, j) = p + ONE_INACTIVE
    BY <1>1, <1>3, <2>2 DEF Pack
  <2> QED BY <1>2, <1>5, <2>1, <2>3 DEF WrappingAdd, W
<1>7. i > 0 => WrappingSub(p, ONE_INACTIVE) = Pack(s, i - 1, j)
  <2> SUFFICES ASSUME i > 0 PROVE WrappingSub(p, ONE_INACTIVE) = Pack(s, i - 1, j)
    OBVIOUS
  <2>1. Pack(s, i - 1, j) \in 0 .. (W - 1)
    <3>1. i - 1 \in 0 .. THREADS_MAX BY <1>1
    <3> QED BY <3>1, Unpack DEF W
  <2>2. ONE_INACTIVE * (i - 1) = ONE_INACTIVE * i - ONE_INACTIVE
    BY <1>1, SMTT(30)
  <2>3. Pack(s, i - 1, j) + W = p + (W - ONE_INACTIVE)
    BY <1>1, <1>2, <1>3, <2>2 DEF Pack
  <2> QED BY <1>2, <1>5, <2>1, <2>3 DEF WrappingSub, W
<1>8. p + ONE_SLEEPING = Pack(s + 1, i, j)
  BY <1>1, <1>3 DEF Pack, ONE_SLEEPING
<1>9. s > 0 => WrappingSub(p, ONE_SLEEPING) = Pack(s - 1, i, j)
  <2> SUFFICES ASSUME s > 0 PROVE WrappingSub(p, ONE_SLEEPING) = Pack(s - 1, i, j)
    OBVIOUS
  <2>1. Pack(s - 1, i, j) \in 0 .. (W - 1)
    <3>1. s - 1 \in 0 .. THREADS_MAX BY <1>1
    <3> QED BY <3>1, Unpack DEF W
  <2>2. Pack(s - 1, i, j) + W = p + (W - ONE_SLEEPING)
    BY <1>1, <1>2, <1>3 DEF Pack, ONE_SLEEPING
  <2> QED BY <1>2, <1>5, <2>1, <2>2 DEF WrappingSub, W
<1>10. increment_jobs_counter(p) = Pack(s, i, (j + 1) % JEC_RANGE)
  <2>1. CASE j + 1 < JEC_RANGE
    <3>1. j + 1 \in 0 .. (JEC_RANGE - 1) /\ (j + 1) % JEC_RANGE = j + 1
      BY <1>1, <2>1
    <3>2. Pack(s, i, j + 1) \in 0 .. (W - 1)
      BY <3>1, Unpack DEF W
    <3>3. ONE_JEC * (j + 1) = ONE_JEC * j + ONE_JEC
      BY <1>2, SMTT(30)
    <3>4. Pack(s, i, j + 1) = p + ONE_JEC
      BY <1>1, <1>2, <1>3, <3>3 DEF Pack
    <3> QED BY <1>2, <1>5, <3>1, <3>2, <3>4 DEF increment_jobs_counter, WrappingAdd, W
  <2>2. CASE j + 1 = JEC_RANGE
    <3>1. (j + 1) % JEC_RANGE = 0 /\ 0 \in 0 .. (JEC_RANGE - 1)
      BY <1>1, <2>2
    <3>2. Pack(s, i, 0) \in 0 .. (W - 1)
      BY <3>1, Unpack DEF W
    <3>3. ONE_JEC * j + ONE_JEC = W
      <4>1. ONE_JEC * j + ONE_JEC = ONE_JEC * (j + 1)
        BY <1>2, SMTT(30)
      <4> QED BY <2>2, <4>1 DEF W, WORD_RANGE
    <3>4. Pack(s, i, 0) + W = p + ONE_JEC
      BY <1>1, <1>2, <1>3, <3>3 DEF Pack
    <3> QED BY <1>2, <1>5, <3>1, <3>2, <3>4 DEF increment_jobs_counter, WrappingAdd, W
  <2> QED BY <1>1, <2>1, <2>2
<1> QED BY <1>6, <1>7, <1>8, <1>9, <1>10

-----------------------------------------------------------------------------
(***************************************************************************)
(* The inductive invariant: the word packs the two counts and some JEC.    *)
(* FieldsExact alone is not inductive, because it says nothing of the bits *)
(* above the two counts.                                                   *)
(***************************************************************************)
Packed ==
  /\ thread \in [Threads -> {"active", "idle", "asleep"}]
  /\ \E j \in 0 .. (JEC_RANGE - 1) : word = Pack(Cardinality(Asleep), Cardinality(Inactive), j)

(***************************************************************************)
(* Sleep::new's assertion that there are at most THREADS_MAX threads keeps *)
(* both counts in range of their fields.                                   *)
(***************************************************************************)
LEMMA Counts ==
  ASSUME thread \in [Threads -> {"active", "idle", "asleep"}]
  PROVE  /\ IsFiniteSet(Asleep) /\ Cardinality(Asleep) \in 0 .. THREADS_MAX
         /\ IsFiniteSet(Inactive) /\ Cardinality(Inactive) \in 0 .. THREADS_MAX
         /\ Cardinality(Asleep) <= Cardinality(Inactive)
         /\ \A t \in Asleep : Cardinality(Asleep) > 0
         /\ \A t \in Inactive : Cardinality(Inactive) > 0
         /\ \A t \in Threads \ Asleep : Cardinality(Asleep) < THREADS_MAX
         /\ \A t \in Threads \ Inactive : Cardinality(Inactive) < THREADS_MAX
<1>1. Asleep \in SUBSET Threads /\ Inactive \in SUBSET Threads /\ Asleep \in SUBSET Inactive
  BY DEF Asleep, Inactive
<1>2. /\ IsFiniteSet(Threads) /\ Cardinality(Threads) \in Nat
      /\ Cardinality(Threads) <= THREADS_MAX /\ THREADS_MAX \in Int
  BY ThreadsAssumption, RangeAssumption, FS_CardinalityType DEF THREADS_MAX
<1>3. ASSUME NEW S \in SUBSET Threads
      PROVE  /\ IsFiniteSet(S) /\ Cardinality(S) \in 0 .. THREADS_MAX
             /\ \A t \in S : Cardinality(S) > 0
             /\ \A t \in Threads \ S : Cardinality(S) < THREADS_MAX
  <2>1. IsFiniteSet(S) /\ Cardinality(S) <= Cardinality(Threads)
        /\ (Cardinality(Threads) = Cardinality(S) => Threads = S)
    BY <1>2, FS_Subset
  <2>2. Cardinality(S) \in Nat
    BY <2>1, FS_CardinalityType
  <2>3. Cardinality(S) = 0 => S = {}
    BY <2>1, FS_EmptySet
  <2> QED BY <1>2, <2>1, <2>2, <2>3
<1>4. Cardinality(Asleep) <= Cardinality(Inactive)
  BY <1>1, <1>3, FS_Subset
<1> QED BY <1>1, <1>3, <1>4

(***************************************************************************)
(* A step packs the new counts, and leaves the JEC alone or increments it. *)
(***************************************************************************)
LEMMA PackedStep ==
  ASSUME NEW j \in 0 .. (JEC_RANGE - 1), Packed, Next,
         word = Pack(Cardinality(Asleep), Cardinality(Inactive), j)
  PROVE  /\ thread' \in [Threads -> {"active", "idle", "asleep"}]
         /\ \/ /\ thread' # thread
               /\ word' = Pack(Cardinality(Asleep'), Cardinality(Inactive'), j)
            \/ /\ thread' = thread
               /\ word' = Pack(Cardinality(Asleep), Cardinality(Inactive), (j + 1) % JEC_RANGE)
<1> DEFINE s == Cardinality(Asleep)
           i == Cardinality(Inactive)
<1>1. /\ IsFiniteSet(Asleep) /\ s \in 0 .. THREADS_MAX
      /\ IsFiniteSet(Inactive) /\ i \in 0 .. THREADS_MAX
      /\ \A t \in Asleep : s > 0
      /\ \A t \in Inactive : i > 0
      /\ \A t \in Threads \ Inactive : i < THREADS_MAX
  BY Counts DEF Packed
<1>2. THREADS_MAX \in Int
  BY RangeAssumption DEF THREADS_MAX
<1>3. ASSUME NEW t \in Threads, add_inactive_thread(t)
      PROVE  thread' # thread /\ word' = Pack(Cardinality(Asleep'), Cardinality(Inactive'), j)
  <2>1. Asleep' = Asleep /\ Inactive' = Inactive \cup {t} /\ t \notin Inactive /\ thread' # thread
    BY <1>3 DEF add_inactive_thread, Asleep, Inactive, Packed
  <2>2. Cardinality(Inactive') = i + 1
    BY <1>1, <2>1, FS_AddElement
  <2>3. i + 1 <= THREADS_MAX
    BY <1>1, <1>2, <2>1
  <2> QED BY <1>1, <1>3, <2>1, <2>2, <2>3, WordArithmetic DEF add_inactive_thread
<1>4. ASSUME NEW t \in Threads, sub_inactive_thread(t)
      PROVE  thread' # thread /\ word' = Pack(Cardinality(Asleep'), Cardinality(Inactive'), j)
  <2>1. Asleep' = Asleep /\ Inactive' = Inactive \ {t} /\ t \in Inactive /\ thread' # thread
    BY <1>4 DEF sub_inactive_thread, Asleep, Inactive, Packed
  <2>2. Cardinality(Inactive') = i - 1
    BY <1>1, <2>1, FS_RemoveElement
  <2> QED BY <1>1, <1>4, <2>1, <2>2, WordArithmetic DEF sub_inactive_thread
<1>5. ASSUME NEW t \in Threads, try_add_sleeping_thread(t)
      PROVE  thread' # thread /\ word' = Pack(Cardinality(Asleep'), Cardinality(Inactive'), j)
  <2>1. Asleep' = Asleep \cup {t} /\ Inactive' = Inactive /\ t \notin Asleep /\ thread' # thread
    BY <1>5 DEF try_add_sleeping_thread, Asleep, Inactive, Packed
  <2>2. Cardinality(Asleep') = s + 1
    BY <1>1, <2>1, FS_AddElement
  <2> QED BY <1>1, <1>5, <2>1, <2>2, WordArithmetic DEF try_add_sleeping_thread
<1>6. ASSUME NEW t \in Threads, sub_sleeping_thread(t)
      PROVE  thread' # thread /\ word' = Pack(Cardinality(Asleep'), Cardinality(Inactive'), j)
  <2>1. Asleep' = Asleep \ {t} /\ Inactive' = Inactive /\ t \in Asleep /\ thread' # thread
    BY <1>6 DEF sub_sleeping_thread, Asleep, Inactive, Packed
  <2>2. Cardinality(Asleep') = s - 1
    BY <1>1, <2>1, FS_RemoveElement
  <2> QED BY <1>1, <1>6, <2>1, <2>2, WordArithmetic DEF sub_sleeping_thread
<1>7. ASSUME new_jobs \/ \E t \in Threads : announce_sleepy(t)
      PROVE  thread' = thread /\ word' = Pack(s, i, (j + 1) % JEC_RANGE)
  BY <1>1, <1>7, WordArithmetic DEF new_jobs, announce_sleepy
<1>8. thread' \in [Threads -> {"active", "idle", "asleep"}]
  BY DEF Packed, Next, add_inactive_thread, sub_inactive_thread, try_add_sleeping_thread,
         sub_sleeping_thread, announce_sleepy, new_jobs
<1> QED BY <1>3, <1>4, <1>5, <1>6, <1>7, <1>8 DEF Next

(***************************************************************************)
(* AtomicCounters::new packs three zeroes.                                 *)
(***************************************************************************)
LEMMA PackedInit == Init => Packed
<1> SUFFICES ASSUME Init PROVE Packed
  OBVIOUS
<1>1. Asleep = {} /\ Inactive = {}
  BY DEF Init, Asleep, Inactive
<1>2. word = Pack(0, 0, 0)
  <2>1. ONE_INACTIVE * 0 = 0 /\ ONE_JEC * 0 = 0
    <3>1. THREADS_RANGE * THREADS_RANGE \in Int
      BY RangeAssumption, SMTT(30)
    <3> QED BY <3>1, RangeAssumption DEF ONE_INACTIVE, ONE_JEC
  <2> QED BY <2>1 DEF Init, Pack
<1>3. 0 \in 0 .. (JEC_RANGE - 1)
  BY RangeAssumption
<1> QED BY <1>1, <1>2, <1>3, FS_EmptySet DEF Init, Packed

(***************************************************************************)
(* Every atomic operation of counters.rs keeps the word packed.            *)
(***************************************************************************)
LEMMA PackedNext == Packed /\ [Next]_vars => Packed'
<1> SUFFICES ASSUME Packed, [Next]_vars PROVE Packed'
  OBVIOUS
<1>1. PICK j \in 0 .. (JEC_RANGE - 1) : word = Pack(Cardinality(Asleep), Cardinality(Inactive), j)
  BY DEF Packed
<1>2. CASE Next
  <2>1. (j + 1) % JEC_RANGE \in 0 .. (JEC_RANGE - 1)
    BY RangeAssumption
  <2>2. thread' = thread => Asleep' = Asleep /\ Inactive' = Inactive
    BY DEF Asleep, Inactive
  <2> QED BY <1>1, <1>2, <2>1, <2>2, PackedStep DEF Packed
<1>3. CASE UNCHANGED vars
  BY <1>3 DEF Packed, vars, Asleep, Inactive
<1> QED BY <1>2, <1>3

(***************************************************************************)
(* Spec keeps the word packed: no addition ever carries out of a field and *)
(* no subtraction borrows from one (AtomicCounters, counters.rs).          *)
(***************************************************************************)
THEOREM PackedInvariant == Spec => []Packed
  BY PackedInit, PackedNext, PTL DEF Spec

(***************************************************************************)
(* A packed word is a usize with exact fields.                             *)
(***************************************************************************)
LEMMA PackedFields ==
  ASSUME Packed
  PROVE  TypeOK /\ FieldsExact
<1>1. PICK j \in 0 .. (JEC_RANGE - 1) : word = Pack(Cardinality(Asleep), Cardinality(Inactive), j)
  BY DEF Packed
<1> QED BY <1>1, Counts, Unpack DEF Packed, TypeOK, FieldsExact

(***************************************************************************)
(* The word always is a usize, of any width: the unchecked += of           *)
(* try_add_sleeping_thread never overflows.                                *)
(***************************************************************************)
THEOREM TypeCorrect == Spec => []TypeOK
  BY PackedInvariant, PackedFields, PTL

(***************************************************************************)
(* The sleeping and inactive fields are exact for any set of at most       *)
(* THREADS_MAX threads: the debug_asserts of counters.rs hold.             *)
(***************************************************************************)
THEOREM FieldsAreExact == Spec => []FieldsExact
  BY PackedInvariant, PackedFields, PTL

(***************************************************************************)
(* Thread bookkeeping leaves the JEC alone and the JEC, rollover included, *)
(* leaves the thread counts alone (increment_jobs_counter's comment).      *)
(***************************************************************************)
THEOREM FieldsAreIsolated == Spec => FieldsIsolated
<1> DEFINE Isolated ==
      /\ thread' # thread => jobs_counter(word') = jobs_counter(word)
      /\ thread' = thread =>
           /\ jobs_counter(word') = (jobs_counter(word) + 1) % JEC_RANGE
           /\ sleeping_threads(word') = sleeping_threads(word)
           /\ inactive_threads(word') = inactive_threads(word)
<1> DEFINE InRange == /\ Cardinality(Asleep) \in 0 .. THREADS_MAX
                      /\ Cardinality(Inactive) \in 0 .. THREADS_MAX
<1>1. Packed => InRange
  BY Counts DEF Packed
<1>2. Packed /\ InRange /\ InRange' /\ [Next]_vars => [Isolated]_vars
  <2> SUFFICES ASSUME Packed, InRange, InRange', Next PROVE Isolated
    OBVIOUS
  <2>1. PICK j \in 0 .. (JEC_RANGE - 1) : word = Pack(Cardinality(Asleep), Cardinality(Inactive), j)
    BY DEF Packed
  <2>2. (j + 1) % JEC_RANGE \in 0 .. (JEC_RANGE - 1)
    BY RangeAssumption
  <2> QED BY <2>1, <2>2, PackedStep, Unpack
<1> HIDE DEF InRange
<1> QED BY <1>1, <1>2, PackedInvariant, PTL DEF Spec, FieldsIsolated
=============================================================================
