----------------------------- MODULE JobProofs -----------------------------
(***************************************************************************)
(* No job of Sleep.tla is lost or executed twice, and dropping the pool    *)
(* leaves none behind, for every number of workers and posters and every   *)
(* depth of nesting.                                                       *)
(*                                                                         *)
(* The proof counts. Held(C) is how many queue positions, hands and        *)
(* executions hold a job of C; HeldPlaces ties it to Places, and each      *)
(* operation on a queue moves one job from one summand to another. JInv    *)
(* says what the count is: one for a wait whose latch is not set, and for  *)
(* a poster what its latch still counts. It stays true because a hand is   *)
(* empty when a job is taken (HandOK), a wait's slot in run is free when   *)
(* a job is started (RunOK), and a wait is only left once its latch is set *)
(* (HandOK again). That forked jobs end before the posted ones they come   *)
(* from needs the order in which they were forked (Ranked).                *)
(***************************************************************************)
EXTENDS SleepProofs

USE SleepAssumption

\* The positions of a queue that hold a job of C.
At(q, C) == {k \in DOMAIN q : q[k] \in C}

\* Those positions of each worker's queue, tagged.
Row(tag, I) == {<<tag, i>> : i \in I}
Part(tag, w, I) == {<<tag, w, i>> : i \in I}
Each(tag, f, C) == UNION {Part(tag, w, At(f[w], C)) : w \in Workers}

\* 1 for a job of C.
One(j, C) == IF j \in C THEN 1 ELSE 0

\* The size of the union of two disjoint finite sets.
LEMMA DisjointUnion ==
  ASSUME NEW S, IsFiniteSet(S), NEW T, IsFiniteSet(T), S \cap T = {}
  PROVE  IsFiniteSet(S \cup T) /\ Cardinality(S \cup T) = Cardinality(S) + Cardinality(T)
<1>1. /\ IsFiniteSet(S \cup T)
      /\ Cardinality(S \cup T) = Cardinality(S) + Cardinality(T) - Cardinality(S \cap T)
  BY FS_Union
<1>2. Cardinality(S \cap T) = 0 /\ Cardinality(S) \in Nat /\ Cardinality(T) \in Nat
  BY FS_EmptySet, FS_CardinalityType
<1> QED BY <1>1, <1>2

\* Tagging positions does not change how many there are.
LEMMA Tagged ==
  ASSUME NEW I, IsFiniteSet(I), NEW tag, NEW w
  PROVE  /\ IsFiniteSet(Row(tag, I)) /\ Cardinality(Row(tag, I)) = Cardinality(I)
         /\ IsFiniteSet(Part(tag, w, I)) /\ Cardinality(Part(tag, w, I)) = Cardinality(I)
<1>1. [i \in I |-> <<tag, i>>] \in Bijection(I, Row(tag, I))
  BY DEF Row, Bijection, Injection, Surjection, IsInjective
<1>2. [i \in I |-> <<tag, w, i>>] \in Bijection(I, Part(tag, w, I))
  BY DEF Part, Bijection, Injection, Surjection, IsInjective
<1> QED BY <1>1, <1>2, FS_Bijection DEF ExistsBijection

\* Taking a job off the front of a queue shifts the others.
LEMMA AtTail ==
  ASSUME NEW T, NEW q \in Seq(T), q # <<>>, NEW C
  PROVE  /\ IsFiniteSet(At(q, C)) /\ IsFiniteSet(At(Tail(q), C))
         /\ Cardinality(At(Tail(q), C)) = Cardinality(At(q, C) \ {1})
<1>1. IsFiniteSet(At(q, C))
  <2>1. At(q, C) \in SUBSET (1 .. Len(q)) BY DEF At
  <2>2. IsFiniteSet(1 .. Len(q)) BY FS_Interval
  <2> QED BY <2>1, <2>2, FS_Subset
<1>2. IsFiniteSet(At(q, C) \ {1})
  BY <1>1, FS_RemoveElement
<1>3. [k \in At(q, C) \ {1} |-> k - 1] \in Bijection(At(q, C) \ {1}, At(Tail(q), C))
  <2> DEFINE f == [k \in At(q, C) \ {1} |-> k - 1]
  <2>0. /\ Len(q) \in Nat \ {0} /\ DOMAIN q = 1 .. Len(q) /\ DOMAIN Tail(q) = 1 .. (Len(q) - 1)
        /\ \A k \in 1 .. (Len(q) - 1) : Tail(q)[k] = q[k + 1]
    OBVIOUS
  <2>1. \A k \in At(q, C) \ {1} : k - 1 \in At(Tail(q), C)
    BY <2>0 DEF At
  <2>2. \A j, k \in At(q, C) \ {1} : j - 1 = k - 1 => j = k
    BY <2>0 DEF At
  <2>3. \A k \in At(Tail(q), C) : k + 1 \in At(q, C) \ {1} /\ (k + 1) - 1 = k
    BY <2>0 DEF At
  <2>4. f \in [At(q, C) \ {1} -> At(Tail(q), C)]
    BY <2>1
  <2>5. f \in Injection(At(q, C) \ {1}, At(Tail(q), C))
    BY <2>2, <2>4 DEF Injection, IsInjective
  <2>6. f \in Surjection(At(q, C) \ {1}, At(Tail(q), C))
    BY <2>3, <2>4 DEF Surjection
  <2> QED BY <2>5, <2>6 DEF Bijection
<1> QED BY <1>1, <1>2, <1>3, FS_Bijection DEF ExistsBijection


\* The positions of a queue are finitely many, and what the operations on a
\* queue do to their number.
LEMMA AtQueue ==
  ASSUME NEW T, NEW q \in Seq(T), NEW C
  PROVE  /\ IsFiniteSet(At(q, C))
         /\ \A x \in T : Cardinality(At(Append(q, x), C)) = Cardinality(At(q, C)) + One(x, C)
         /\ q # <<>> =>
              /\ Cardinality(At(Tail(q), C)) = Cardinality(At(q, C)) - One(Head(q), C)
              /\ Cardinality(At(SubSeq(q, 1, Len(q) - 1), C)) = Cardinality(At(q, C)) - One(q[Len(q)], C)
<1>1. IsFiniteSet(At(q, C))
  <2>1. At(q, C) \in SUBSET (1 .. Len(q)) BY DEF At
  <2>2. IsFiniteSet(1 .. Len(q)) BY FS_Interval
  <2> QED BY <2>1, <2>2, FS_Subset
<1>2. Cardinality(At(q, C)) \in Nat
  BY <1>1, FS_CardinalityType
<1>3. ASSUME NEW x \in T
      PROVE  Cardinality(At(Append(q, x), C)) = Cardinality(At(q, C)) + One(x, C)
  <2>1. /\ DOMAIN q = 1 .. Len(q) /\ DOMAIN Append(q, x) = 1 .. (Len(q) + 1) /\ Len(q) \in Nat
        /\ \A k \in 1 .. Len(q) : Append(q, x)[k] = q[k]
        /\ Append(q, x)[Len(q) + 1] = x
    OBVIOUS
  <2>2. CASE x \in C
    <3>1. At(Append(q, x), C) = At(q, C) \cup {Len(q) + 1} BY <2>1, <2>2 DEF At
    <3>2. Len(q) + 1 \notin At(q, C) BY <2>1 DEF At
    <3> QED BY <1>1, <2>2, <3>1, <3>2, FS_AddElement DEF One
  <2>3. CASE x \notin C
    <3>1. At(Append(q, x), C) = At(q, C) BY <2>1, <2>3 DEF At
    <3> QED BY <1>2, <2>3, <3>1 DEF One
  <2> QED BY <2>2, <2>3
<1>4. ASSUME q # <<>>
      PROVE  Cardinality(At(Tail(q), C)) = Cardinality(At(q, C)) - One(Head(q), C)
  <2>1. Cardinality(At(Tail(q), C)) = Cardinality(At(q, C) \ {1})
    BY <1>4, AtTail
  <2>2. 1 \in At(q, C) <=> Head(q) \in C
    BY <1>4 DEF At
  <2>3. Cardinality(At(q, C) \ {1}) = Cardinality(At(q, C)) - One(Head(q), C)
    <3>1. Cardinality(At(q, C) \ {1})
            = IF 1 \in At(q, C) THEN Cardinality(At(q, C)) - 1 ELSE Cardinality(At(q, C))
      BY <1>1, FS_RemoveElement
    <3> QED BY <1>2, <2>2, <3>1 DEF One
  <2> QED BY <2>1, <2>3
<1>5. ASSUME q # <<>>
      PROVE  Cardinality(At(SubSeq(q, 1, Len(q) - 1), C)) = Cardinality(At(q, C)) - One(q[Len(q)], C)
  <2>1. /\ DOMAIN q = 1 .. Len(q) /\ Len(q) \in Nat \ {0}
        /\ DOMAIN SubSeq(q, 1, Len(q) - 1) = 1 .. (Len(q) - 1)
        /\ \A k \in 1 .. (Len(q) - 1) : SubSeq(q, 1, Len(q) - 1)[k] = q[k]
    BY <1>5
  <2>2. At(SubSeq(q, 1, Len(q) - 1), C) = At(q, C) \ {Len(q)}
    BY <2>1 DEF At
  <2>3. Len(q) \in At(q, C) <=> q[Len(q)] \in C
    BY <2>1 DEF At
  <2>4. Cardinality(At(q, C) \ {Len(q)})
          = IF Len(q) \in At(q, C) THEN Cardinality(At(q, C)) - 1 ELSE Cardinality(At(q, C))
    BY <1>1, FS_RemoveElement
  <2>5. Cardinality(At(SubSeq(q, 1, Len(q) - 1), C)) = Cardinality(At(q, C) \ {Len(q)})
    BY <2>2
  <2> HIDE DEF At
  <2> QED BY <1>2, <2>3, <2>4, <2>5 DEF One
<1> QED BY <1>1, <1>3, <1>4, <1>5

\* The same for a function on a finite set, such as hand and run[w].
LEMMA AtFunction ==
  ASSUME NEW D, IsFiniteSet(D), NEW f, DOMAIN f = D, NEW C
  PROVE  IsFiniteSet(At(f, C)) /\ Cardinality(At(f, C)) \in Nat
<1>1. At(f, C) \in SUBSET D
  BY DEF At
<1> QED BY <1>1, FS_Subset, FS_CardinalityType

\* Writing one of its values.
LEMMA AtChange ==
  ASSUME NEW D, IsFiniteSet(D), NEW f, NEW g, NEW C, DOMAIN f = D, DOMAIN g = D,
         NEW k \in D, \A l \in D \ {k} : g[l] = f[l]
  PROVE  Cardinality(At(g, C)) = Cardinality(At(f, C)) + One(g[k], C) - One(f[k], C)
<1>1. IsFiniteSet(At(f, C)) /\ Cardinality(At(f, C)) \in Nat
  BY AtFunction
<1>2. k \in At(f, C) <=> f[k] \in C
  BY DEF At
<1>3. CASE g[k] \in C
  <2>1. At(g, C) = At(f, C) \cup {k}
    BY <1>3 DEF At
  <2>2. Cardinality(At(f, C) \cup {k})
          = IF k \in At(f, C) THEN Cardinality(At(f, C)) ELSE Cardinality(At(f, C)) + 1
    BY <1>1, FS_AddElement
  <2>3. One(g[k], C) = 1 /\ One(f[k], C) = IF k \in At(f, C) THEN 1 ELSE 0
    BY <1>2, <1>3 DEF One
  <2> QED BY <1>1, <2>1, <2>2, <2>3
<1>4. CASE g[k] \notin C
  <2>1. At(g, C) = At(f, C) \ {k}
    BY <1>4 DEF At
  <2>2. Cardinality(At(f, C) \ {k})
          = IF k \in At(f, C) THEN Cardinality(At(f, C)) - 1 ELSE Cardinality(At(f, C))
    BY <1>1, FS_RemoveElement
  <2>3. One(g[k], C) = 0 /\ One(f[k], C) = IF k \in At(f, C) THEN 1 ELSE 0
    BY <1>2, <1>4 DEF One
  <2> QED BY <1>1, <2>1, <2>2, <2>3
<1> QED BY <1>3, <1>4

\* The elements of Each.
LEMMA InEach ==
  ASSUME NEW tag, NEW f, NEW C, NEW x
  PROVE  x \in Each(tag, f, C) <=> \E w \in Workers : \E i \in At(f[w], C) : x = <<tag, w, i>>
  BY DEF Each, Part

\* Each is finite when every worker's part is.
LEMMA EachFinite ==
  ASSUME NEW tag, NEW f, NEW C, \A w \in Workers : IsFiniteSet(At(f[w], C))
  PROVE  IsFiniteSet(Each(tag, f, C))
<1> DEFINE U == {Part(tag, w, At(f[w], C)) : w \in Workers}
<1>1. [w \in Workers |-> Part(tag, w, At(f[w], C))] \in Surjection(Workers, U)
  BY DEF Surjection
<1>2. IsFiniteSet(U)
  BY <1>1, WorkerSets, FS_Surjection
<1>3. \A p \in U : IsFiniteSet(p)
  BY Tagged
<1>4. IsFiniteSet(UNION U)
  BY <1>2, <1>3, FS_UNION
<1> QED BY <1>4 DEF Each

\* It grows with one worker's part.
LEMMA EachChange ==
  ASSUME NEW tag, NEW f, NEW g, NEW C, \A w \in Workers : IsFiniteSet(At(f[w], C)),
         NEW v \in Workers, IsFiniteSet(At(g[v], C)), \A w \in Workers \ {v} : g[w] = f[w]
  PROVE  Cardinality(Each(tag, g, C))
           = Cardinality(Each(tag, f, C)) - Cardinality(At(f[v], C)) + Cardinality(At(g[v], C))
<1> DEFINE S == Each(tag, f, C)
           P == Part(tag, v, At(f[v], C))
           Q == Part(tag, v, At(g[v], C))
<1>1. /\ IsFiniteSet(P) /\ Cardinality(P) = Cardinality(At(f[v], C))
      /\ IsFiniteSet(Q) /\ Cardinality(Q) = Cardinality(At(g[v], C))
  BY Tagged
<1>2. S \cap P = P
  BY InEach DEF Part
<1>3. (S \ P) \cap Q = {}
  BY InEach DEF Part
<1>4. Each(tag, g, C) = (S \ P) \cup Q
  <2>1. ASSUME NEW x PROVE x \in Each(tag, g, C) <=> x \in (S \ P) \cup Q
    BY InEach DEF Part
  <2> QED BY <2>1
<1> HIDE DEF P, Q
<1>5. IsFiniteSet(S)
  BY EachFinite
<1> HIDE DEF S
<1>6. IsFiniteSet(S \ P) /\ Cardinality(S \ P) = Cardinality(S) - Cardinality(P)
  BY <1>2, <1>5, FS_Difference
<1>7. Cardinality((S \ P) \cup Q) = Cardinality(S \ P) + Cardinality(Q)
  BY <1>1, <1>3, <1>6, DisjointUnion
<1> QED BY <1>1, <1>4, <1>6, <1>7 DEF S

\* How many places hold a job of C.
Held(C) ==
  Cardinality(At(injected, C)) + Cardinality(Each("deque", deque, C))
  + Cardinality(Each("bcast", bcast, C)) + Cardinality(At(hand, C)) + Cardinality(Each("run", run, C))

PlacesIn(C) == UNION {Places(j) : j \in C}

\* The parts of the state that hold jobs, as Shape has them.
Holders ==
  /\ injected \in Seq(Posters)
  /\ deque \in [Workers -> Seq(ForkJobs)]
  /\ bcast \in [Workers -> Seq(Posters)]
  /\ hand \in [Workers -> Jobs \cup {NoJob}]
  /\ run \in [Workers -> [0 .. MaxDepth -> Jobs \cup {NoJob}]]

\* Each part of the state holds finitely many jobs.
LEMMA PartsFinite ==
  ASSUME Holders, NEW C
  PROVE  /\ IsFiniteSet(At(injected, C)) /\ IsFiniteSet(At(hand, C))
         /\ \A w \in Workers : /\ IsFiniteSet(At(deque[w], C)) /\ IsFiniteSet(At(bcast[w], C))
                               /\ IsFiniteSet(At(run[w], C))
         /\ IsFiniteSet(Each("deque", deque, C)) /\ IsFiniteSet(Each("bcast", bcast, C))
         /\ IsFiniteSet(Each("run", run, C))
         /\ Cardinality(At(injected, C)) \in Nat /\ Cardinality(At(hand, C)) \in Nat
         /\ Cardinality(Each("deque", deque, C)) \in Nat /\ Cardinality(Each("bcast", bcast, C)) \in Nat
         /\ Cardinality(Each("run", run, C)) \in Nat
         /\ \A w \in Workers : /\ Cardinality(At(deque[w], C)) \in Nat /\ Cardinality(At(bcast[w], C)) \in Nat
                               /\ Cardinality(At(run[w], C)) \in Nat
<1>1. IsFiniteSet(At(injected, C))
  BY AtQueue DEF Holders
<1>2. IsFiniteSet(At(hand, C))
  <2>1. DOMAIN hand = Workers BY DEF Holders
  <2> QED BY <2>1, WorkerSets, AtFunction
<1>3. ASSUME NEW w \in Workers
      PROVE  IsFiniteSet(At(deque[w], C)) /\ IsFiniteSet(At(bcast[w], C)) /\ IsFiniteSet(At(run[w], C))
  <2>1. deque[w] \in Seq(ForkJobs) /\ bcast[w] \in Seq(Posters) /\ DOMAIN run[w] = 0 .. MaxDepth
    BY DEF Holders
  <2>2. IsFiniteSet(0 .. MaxDepth)
    <3>1. 0 \in Int /\ MaxDepth \in Int OBVIOUS
    <3> QED BY <3>1, FS_Interval
  <2> QED BY <2>1, <2>2, AtQueue, AtFunction
<1>4. /\ IsFiniteSet(Each("deque", deque, C)) /\ IsFiniteSet(Each("bcast", bcast, C))
      /\ IsFiniteSet(Each("run", run, C))
  BY <1>3, EachFinite
<1> QED BY <1>1, <1>2, <1>3, <1>4, FS_CardinalityType

\* Held counts the places of Sleep.tla.
LEMMA HeldPlaces ==
  ASSUME Holders, NEW C
  PROVE  IsFiniteSet(PlacesIn(C)) /\ Cardinality(PlacesIn(C)) = Held(C) /\ Held(C) \in Nat
<1> DEFINE A == Row("injected", At(injected, C))
           B == Each("deque", deque, C)
           D == Each("bcast", bcast, C)
           H == Row("hand", At(hand, C))
           R == Each("run", run, C)
<1>1. PlacesIn(C) = A \cup B \cup D \cup H \cup R
  <2>1. ASSUME NEW x PROVE x \in PlacesIn(C) <=> x \in A \/ x \in B \/ x \in D \/ x \in H \/ x \in R
    <3> DEFINE PA(j) == {<<"injected", i>> : i \in {k \in DOMAIN injected : injected[k] = j}}
               PB(j) == UNION {{<<"deque", w, i>> : i \in {k \in DOMAIN deque[w] : deque[w][k] = j}} : w \in Workers}
               PD(j) == UNION {{<<"bcast", w, i>> : i \in {k \in DOMAIN bcast[w] : bcast[w][k] = j}} : w \in Workers}
               PH(j) == {<<"hand", w>> : w \in {v \in Workers : hand[v] = j}}
               PR(j) == UNION {{<<"run", w, d>> : d \in {e \in 0 .. MaxDepth : run[w][e] = j}} : w \in Workers}
    <3>1. x \in A <=> \E j \in C : x \in PA(j)
      BY DEF Row, At
    <3>2. x \in B <=> \E j \in C : x \in PB(j)
      BY InEach DEF At
    <3>3. x \in D <=> \E j \in C : x \in PD(j)
      BY InEach DEF At
    <3>4. x \in H <=> \E j \in C : x \in PH(j)
      <4>1. DOMAIN hand = Workers BY DEF Holders
      <4> QED BY <4>1 DEF Row, At
    <3>5. x \in R <=> \E j \in C : x \in PR(j)
      <4>1. \A w \in Workers : DOMAIN run[w] = 0 .. MaxDepth BY DEF Holders
      <4>2. \A w \in Workers : \A d : d \in At(run[w], C) <=> d \in 0 .. MaxDepth /\ run[w][d] \in C
        BY <4>1 DEF At
      <4>3. x \in R <=> \E w \in Workers : \E d \in At(run[w], C) : x = <<"run", w, d>>
        BY InEach
      <4>4. \A j : x \in PR(j) <=> \E w \in Workers : \E d \in 0 .. MaxDepth : run[w][d] = j /\ x = <<"run", w, d>>
        OBVIOUS
      <4> HIDE DEF R, PR
      <4> QED BY <4>2, <4>3, <4>4
    <3>6. x \in PlacesIn(C) <=> \E j \in C : x \in Places(j)
      BY DEF PlacesIn
    <3>7. ASSUME NEW j PROVE Places(j) = PA(j) \cup PB(j) \cup PD(j) \cup PH(j) \cup PR(j)
      BY Zenon DEF Places
    <3> HIDE DEF A, B, D, H, R, PA, PB, PD, PH, PR
    <3> QED BY <3>1, <3>2, <3>3, <3>4, <3>5, <3>6, <3>7
  <2> HIDE DEF A, B, D, H, R
  <2> QED BY <2>1
<1>2. /\ IsFiniteSet(A) /\ Cardinality(A) = Cardinality(At(injected, C))
      /\ IsFiniteSet(H) /\ Cardinality(H) = Cardinality(At(hand, C))
      /\ IsFiniteSet(B) /\ IsFiniteSet(D) /\ IsFiniteSet(R)
  BY PartsFinite, Tagged
<1>3. \A x : /\ x \in A => x[1] = "injected"
             /\ x \in B => x[1] = "deque"
             /\ x \in D => x[1] = "bcast"
             /\ x \in H => x[1] = "hand"
             /\ x \in R => x[1] = "run"
  <2>1. \A x : (x \in A => x[1] = "injected") /\ (x \in H => x[1] = "hand")
    BY DEF Row
  <2>2. \A x : (x \in B => x[1] = "deque") /\ (x \in D => x[1] = "bcast") /\ (x \in R => x[1] = "run")
    BY InEach
  <2> QED BY <2>1, <2>2
<1> HIDE DEF A, B, D, H, R
<1>4. /\ A \cap B = {} /\ (A \cup B) \cap D = {} /\ (A \cup B \cup D) \cap H = {}
      /\ (A \cup B \cup D \cup H) \cap R = {}
  BY <1>3
<1>5. /\ Cardinality(A) \in Nat /\ Cardinality(B) \in Nat /\ Cardinality(D) \in Nat
      /\ Cardinality(H) \in Nat /\ Cardinality(R) \in Nat /\ Cardinality({}) = 0
  BY <1>2, FS_CardinalityType, FS_EmptySet
<1>6. IsFiniteSet(A \cup B) /\ Cardinality(A \cup B) = Cardinality(A) + Cardinality(B)
  BY <1>2, <1>4, DisjointUnion
<1>7. /\ IsFiniteSet(A \cup B \cup D)
      /\ Cardinality(A \cup B \cup D) = Cardinality(A) + Cardinality(B) + Cardinality(D)
  <2>1. IsFiniteSet(A \cup B) /\ IsFiniteSet(D) /\ (A \cup B) \cap D = {}
    BY <1>2, <1>4, <1>6
  <2>2. /\ IsFiniteSet((A \cup B) \cup D)
        /\ Cardinality((A \cup B) \cup D) = Cardinality(A \cup B) + Cardinality(D)
    BY <2>1, DisjointUnion
  <2> QED BY <1>6, <2>2
<1>8. /\ IsFiniteSet(A \cup B \cup D \cup H)
      /\ Cardinality(A \cup B \cup D \cup H) = Cardinality(A) + Cardinality(B) + Cardinality(D) + Cardinality(H)
  BY <1>2, <1>4, <1>7, DisjointUnion
<1>9. /\ IsFiniteSet(A \cup B \cup D \cup H \cup R)
      /\ Cardinality(A \cup B \cup D \cup H \cup R)
           = Cardinality(A) + Cardinality(B) + Cardinality(D) + Cardinality(H) + Cardinality(R)
  BY <1>2, <1>4, <1>8, DisjointUnion
<1>10. Held(C) = Cardinality(A) + Cardinality(B) + Cardinality(D) + Cardinality(H) + Cardinality(R)
  BY <1>2 DEF Held, B, D, R
<1> QED BY <1>1, <1>5, <1>9, <1>10

-----------------------------------------------------------------------------
(***************************************************************************)
(* What the steps do to the number of places that hold a job of C.         *)
(***************************************************************************)
\* g is f with x at k.
Writes(f, g, k, x) == DOMAIN g = DOMAIN f /\ g[k] = x /\ \A l \in DOMAIN f \ {k} : g[l] = f[l]

\* EXCEPT writes.
LEMMA ExceptWrites ==
  ASSUME NEW f, NEW k \in DOMAIN f, NEW x
  PROVE  Writes(f, [f EXCEPT ![k] = x], k, x)
  BY DEF Writes

\* Writing the hand of a worker.
LEMMA HandCount ==
  ASSUME Holders, NEW C, NEW w \in Workers, NEW j, Writes(hand, hand', w, j)
  PROVE  Cardinality(At(hand', C)) = Cardinality(At(hand, C)) + One(j, C) - One(hand[w], C)
<1>1. /\ DOMAIN hand = Workers /\ DOMAIN hand' = Workers /\ hand'[w] = j
      /\ \A v \in Workers \ {w} : hand'[v] = hand[v]
  BY DEF Holders, Writes
<1>2. Cardinality(At(hand', C)) = Cardinality(At(hand, C)) + One(hand'[w], C) - One(hand[w], C)
  <2>1. IsFiniteSet(Workers) BY WorkerSets
  <2> QED BY <1>1, <2>1, AtChange
<1> QED BY <1>1, <1>2

\* Writing the deque of a worker.
LEMMA DequeCount ==
  ASSUME Holders, NEW C, NEW w \in Workers, NEW q \in Seq(ForkJobs), Writes(deque, deque', w, q)
  PROVE  Cardinality(Each("deque", deque', C))
           = Cardinality(Each("deque", deque, C)) - Cardinality(At(deque[w], C)) + Cardinality(At(q, C))
<1>1. /\ \A u \in Workers \ {w} : deque'[u] = deque[u]
      /\ deque'[w] = q
  BY DEF Holders, Writes
<1>2. IsFiniteSet(At(deque'[w], C))
  BY <1>1, AtQueue
<1>3. \A u \in Workers : IsFiniteSet(At(deque[u], C))
  BY PartsFinite
<1>4. Cardinality(Each("deque", deque', C))
        = Cardinality(Each("deque", deque, C)) - Cardinality(At(deque[w], C)) + Cardinality(At(deque'[w], C))
  BY <1>1, <1>2, <1>3, EachChange
<1> QED BY <1>1, <1>4

\* Writing the broadcasts of a worker.
LEMMA BcastCount ==
  ASSUME Holders, NEW C, NEW w \in Workers, NEW q \in Seq(Posters), Writes(bcast, bcast', w, q)
  PROVE  Cardinality(Each("bcast", bcast', C))
           = Cardinality(Each("bcast", bcast, C)) - Cardinality(At(bcast[w], C)) + Cardinality(At(q, C))
<1>1. /\ \A u \in Workers \ {w} : bcast'[u] = bcast[u]
      /\ bcast'[w] = q
  BY DEF Holders, Writes
<1>2. IsFiniteSet(At(bcast'[w], C))
  BY <1>1, AtQueue
<1>3. \A u \in Workers : IsFiniteSet(At(bcast[u], C))
  BY PartsFinite
<1>4. Cardinality(Each("bcast", bcast', C))
        = Cardinality(Each("bcast", bcast, C)) - Cardinality(At(bcast[w], C)) + Cardinality(At(bcast'[w], C))
  BY <1>1, <1>2, <1>3, EachChange
<1> QED BY <1>1, <1>4

\* Writing one entry of run.
LEMMA RunCount ==
  ASSUME Holders, NEW C, NEW w \in Workers, NEW d \in 0 .. MaxDepth, NEW j, NEW r,
         Writes(run[w], r, d, j), Writes(run, run', w, r)
  PROVE  Cardinality(Each("run", run', C))
           = Cardinality(Each("run", run, C)) + One(j, C) - One(run[w][d], C)
<1>1. /\ DOMAIN run[w] = 0 .. MaxDepth /\ DOMAIN r = 0 .. MaxDepth /\ r[d] = j
      /\ \A e \in (0 .. MaxDepth) \ {d} : r[e] = run[w][e]
      /\ \A u \in Workers \ {w} : run'[u] = run[u]
      /\ run'[w] = r
  BY DEF Holders, Writes
<1>2. IsFiniteSet(0 .. MaxDepth)
  <2>1. 0 \in Int /\ MaxDepth \in Int OBVIOUS
  <2> QED BY <2>1, FS_Interval
<1>3. Cardinality(At(r, C)) = Cardinality(At(run[w], C)) + One(r[d], C) - One(run[w][d], C)
  BY <1>1, <1>2, AtChange
<1>4. IsFiniteSet(At(r, C))
  BY <1>1, <1>2, AtFunction
<1>5. \A u \in Workers : IsFiniteSet(At(run[u], C))
  BY PartsFinite
<1>6. Cardinality(Each("run", run', C))
        = Cardinality(Each("run", run, C)) - Cardinality(At(run[w], C)) + Cardinality(At(run'[w], C))
  BY <1>1, <1>4, <1>5, EachChange
<1>7. One(j, C) \in Int /\ One(run[w][d], C) \in Int
  BY DEF One
<1> QED BY <1>1, <1>3, <1>6, <1>7, PartsFinite, SMTT(40)

\* A worker with an empty hand takes the job at the front of the injector.
LEMMA TakeInjected ==
  ASSUME Holders, NEW C, NoJob \notin C, NEW w \in Workers, hand[w] = NoJob, injected # <<>>,
         Writes(hand, hand', w, Head(injected)), injected' = Tail(injected),
         UNCHANGED <<deque, bcast, run>>
  PROVE  Held(C)' = Held(C)
<1>1. injected \in Seq(Posters)
  BY DEF Holders
<1>2. Cardinality(At(hand', C)) = Cardinality(At(hand, C)) + One(Head(injected), C) - One(NoJob, C)
  BY HandCount
<1>3. Cardinality(At(injected', C)) = Cardinality(At(injected, C)) - One(Head(injected), C)
  BY <1>1, AtQueue
<1>4. One(NoJob, C) = 0 /\ One(Head(injected), C) \in Int
  BY DEF One
<1> QED BY <1>2, <1>3, <1>4, PartsFinite DEF Held

\* A worker with an empty hand takes a job off either end of a deque.
LEMMA TakeDeque ==
  ASSUME Holders, NEW C, NoJob \notin C, NEW w \in Workers, hand[w] = NoJob,
         NEW v \in Workers, deque[v] # <<>>, NEW j, NEW q,
         \/ j = Head(deque[v]) /\ q = Tail(deque[v])
         \/ j = deque[v][Len(deque[v])] /\ q = SubSeq(deque[v], 1, Len(deque[v]) - 1),
         Writes(deque, deque', v, q), Writes(hand, hand', w, j), UNCHANGED <<injected, bcast, run>>
  PROVE  Held(C)' = Held(C)
<1>1. deque[v] \in Seq(ForkJobs)
  BY DEF Holders
<1>2. Cardinality(At(hand', C)) = Cardinality(At(hand, C)) + One(j, C) - One(NoJob, C)
  BY HandCount
<1>3. Cardinality(At(q, C)) = Cardinality(At(deque[v], C)) - One(j, C)
  BY <1>1, AtQueue
<1>4. q \in Seq(ForkJobs)
  <2>1. Tail(deque[v]) \in Seq(ForkJobs) /\ SubSeq(deque[v], 1, Len(deque[v]) - 1) \in Seq(ForkJobs)
    BY <1>1, SeqTypes
  <2> QED BY <2>1
<1>5. Cardinality(Each("deque", deque', C))
        = Cardinality(Each("deque", deque, C)) - Cardinality(At(deque[v], C)) + Cardinality(At(q, C))
  BY <1>4, DequeCount
<1>6. One(NoJob, C) = 0 /\ One(j, C) \in Int
  BY DEF One
<1>7. /\ Cardinality(At(hand, C)) \in Nat /\ Cardinality(Each("deque", deque, C)) \in Nat
      /\ Cardinality(At(injected, C)) \in Nat /\ Cardinality(At(deque[v], C)) \in Nat
      /\ Cardinality(Each("bcast", bcast, C)) \in Nat /\ Cardinality(Each("run", run, C)) \in Nat
  BY PartsFinite
<1>8. Held(C)' = Cardinality(At(injected, C)) + Cardinality(Each("deque", deque', C))
                 + Cardinality(Each("bcast", bcast, C)) + Cardinality(At(hand', C))
                 + Cardinality(Each("run", run, C))
  BY DEF Held
<1>9. Cardinality(Each("deque", deque', C)) + Cardinality(At(hand', C))
        = Cardinality(Each("deque", deque, C)) + Cardinality(At(hand, C))
  BY <1>2, <1>3, <1>5, <1>6, <1>7, SMTT(40)
<1>10. Cardinality(Each("deque", deque', C)) \in Int /\ Cardinality(At(hand', C)) \in Int
  <2>1. Cardinality(At(hand', C)) \in Int BY <1>2, <1>6, <1>7
  <2>2. Cardinality(At(q, C)) \in Int BY <1>3, <1>6, <1>7
  <2>3. Cardinality(Each("deque", deque', C)) \in Int BY <1>5, <1>7, <2>2
  <2> QED BY <2>1, <2>3
<1>11. Held(C) = Cardinality(At(injected, C)) + Cardinality(Each("deque", deque, C))
                 + Cardinality(Each("bcast", bcast, C)) + Cardinality(At(hand, C))
                 + Cardinality(Each("run", run, C))
  BY DEF Held
<1> DEFINE a == Cardinality(At(injected, C))
           b == Cardinality(Each("bcast", bcast, C))
           c == Cardinality(Each("run", run, C))
           x == Cardinality(Each("deque", deque', C))
           y == Cardinality(At(hand', C))
           m == Cardinality(Each("deque", deque, C))
           n == Cardinality(At(hand, C))
<1>12. a \in Int /\ b \in Int /\ c \in Int /\ x \in Int /\ y \in Int /\ m \in Int /\ n \in Int
  BY <1>7, <1>10
<1>13. x + y = m + n /\ Held(C)' = a + x + b + y + c /\ Held(C) = a + m + b + n + c
  BY <1>8, <1>9, <1>11
<1> HIDE DEF a, b, c, x, y, m, n
<1> QED BY <1>12, <1>13

\* A worker with an empty hand takes the first of its broadcasts.
LEMMA TakeBroadcast ==
  ASSUME Holders, NEW C, NoJob \notin C, NEW w \in Workers, hand[w] = NoJob, bcast[w] # <<>>,
         Writes(hand, hand', w, Head(bcast[w])), Writes(bcast, bcast', w, Tail(bcast[w])),
         UNCHANGED <<injected, deque, run>>
  PROVE  Held(C)' = Held(C)
<1>1. bcast[w] \in Seq(Posters) /\ Tail(bcast[w]) \in Seq(Posters)
  BY SeqTypes DEF Holders
<1>2. Cardinality(At(hand', C)) = Cardinality(At(hand, C)) + One(Head(bcast[w]), C) - One(NoJob, C)
  BY HandCount
<1>3. Cardinality(At(Tail(bcast[w]), C)) = Cardinality(At(bcast[w], C)) - One(Head(bcast[w]), C)
  BY <1>1, AtQueue
<1>4. Cardinality(Each("bcast", bcast', C))
        = Cardinality(Each("bcast", bcast, C)) - Cardinality(At(bcast[w], C)) + Cardinality(At(Tail(bcast[w]), C))
  BY <1>1, BcastCount
<1>5. One(NoJob, C) = 0 /\ One(Head(bcast[w]), C) \in Int
  BY DEF One
<1>6. /\ Cardinality(At(hand, C)) \in Nat /\ Cardinality(Each("deque", deque, C)) \in Nat
      /\ Cardinality(At(injected, C)) \in Nat /\ Cardinality(At(bcast[w], C)) \in Nat
      /\ Cardinality(Each("bcast", bcast, C)) \in Nat /\ Cardinality(Each("run", run, C)) \in Nat
  BY PartsFinite
<1>7. Held(C)' = Cardinality(At(injected, C)) + Cardinality(Each("deque", deque, C))
                 + Cardinality(Each("bcast", bcast', C)) + Cardinality(At(hand', C))
                 + Cardinality(Each("run", run, C))
  BY DEF Held
<1>8. Cardinality(Each("bcast", bcast', C)) + Cardinality(At(hand', C))
        = Cardinality(Each("bcast", bcast, C)) + Cardinality(At(hand, C))
  BY <1>2, <1>3, <1>4, <1>5, <1>6, SMTT(40)
<1>9. Cardinality(Each("bcast", bcast', C)) \in Int /\ Cardinality(At(hand', C)) \in Int
  <2>1. Cardinality(At(hand', C)) \in Int BY <1>2, <1>5, <1>6
  <2>2. Cardinality(At(Tail(bcast[w]), C)) \in Int BY <1>3, <1>5, <1>6
  <2>3. Cardinality(Each("bcast", bcast', C)) \in Int BY <1>4, <1>6, <2>2
  <2> QED BY <2>1, <2>3
<1>10. Held(C) = Cardinality(At(injected, C)) + Cardinality(Each("deque", deque, C))
                 + Cardinality(Each("bcast", bcast, C)) + Cardinality(At(hand, C))
                 + Cardinality(Each("run", run, C))
  BY DEF Held
<1> DEFINE a == Cardinality(At(injected, C))
           b == Cardinality(Each("deque", deque, C))
           c == Cardinality(Each("run", run, C))
           x == Cardinality(Each("bcast", bcast', C))
           y == Cardinality(At(hand', C))
           m == Cardinality(Each("bcast", bcast, C))
           n == Cardinality(At(hand, C))
<1>11. a \in Int /\ b \in Int /\ c \in Int /\ x \in Int /\ y \in Int /\ m \in Int /\ n \in Int
  BY <1>6, <1>9
<1>12. x + y = m + n /\ Held(C)' = a + b + x + y + c /\ Held(C) = a + b + m + n + c
  BY <1>7, <1>8, <1>10
<1> HIDE DEF a, b, c, x, y, m, n
<1> QED BY <1>11, <1>12

\* The worker executes the job in its hand.
LEMMA StartRun ==
  ASSUME Holders, NEW C, NoJob \notin C, NEW w \in Workers, NEW d \in 0 .. MaxDepth, run[w][d] = NoJob,
         NEW r, Writes(run[w], r, d, hand[w]), Writes(run, run', w, r), Writes(hand, hand', w, NoJob),
         UNCHANGED <<injected, deque, bcast>>
  PROVE  Held(C)' = Held(C)
<1>1. Cardinality(At(hand', C)) = Cardinality(At(hand, C)) + One(NoJob, C) - One(hand[w], C)
  BY HandCount
<1>2. Cardinality(Each("run", run', C)) = Cardinality(Each("run", run, C)) + One(hand[w], C) - One(NoJob, C)
  BY RunCount
<1>3. One(NoJob, C) = 0 /\ One(hand[w], C) \in Int
  BY DEF One
<1> QED BY <1>1, <1>2, <1>3, PartsFinite DEF Held

\* A job ends.
LEMMA EndRun ==
  ASSUME Holders, NEW C, NoJob \notin C, NEW w \in Workers, NEW d \in 0 .. MaxDepth,
         NEW r, Writes(run[w], r, d, NoJob), Writes(run, run', w, r),
         UNCHANGED <<injected, deque, bcast, hand>>
  PROVE  Held(C)' = Held(C) - One(run[w][d], C)
<1>1. Cardinality(Each("run", run', C)) = Cardinality(Each("run", run, C)) + One(NoJob, C) - One(run[w][d], C)
  BY RunCount
<1>2. One(NoJob, C) = 0 /\ One(run[w][d], C) \in Int
  BY DEF One
<1> QED BY <1>1, <1>2, PartsFinite DEF Held

\* A worker pushes a job onto its deque.
LEMMA PushDeque ==
  ASSUME Holders, NEW C, NEW w \in Workers, NEW j \in ForkJobs,
         Writes(deque, deque', w, Append(deque[w], j)), UNCHANGED <<injected, bcast, hand, run>>
  PROVE  Held(C)' = Held(C) + One(j, C)
<1>1. deque[w] \in Seq(ForkJobs) /\ Append(deque[w], j) \in Seq(ForkJobs)
  BY DEF Holders
<1>2. Cardinality(At(Append(deque[w], j), C)) = Cardinality(At(deque[w], C)) + One(j, C)
  BY <1>1, AtQueue
<1>3. Cardinality(Each("deque", deque', C))
        = Cardinality(Each("deque", deque, C)) - Cardinality(At(deque[w], C))
          + Cardinality(At(Append(deque[w], j), C))
  BY <1>1, DequeCount
<1>4. One(j, C) \in Int
  BY DEF One
<1> QED BY <1>2, <1>3, <1>4, PartsFinite DEF Held

\* A poster pushes a job onto a broadcast deque.
LEMMA PushBcast ==
  ASSUME Holders, NEW C, NEW w \in Workers, NEW p \in Posters,
         Writes(bcast, bcast', w, Append(bcast[w], p)), UNCHANGED <<injected, deque, hand, run>>
  PROVE  Held(C)' = Held(C) + One(p, C)
<1>1. bcast[w] \in Seq(Posters) /\ Append(bcast[w], p) \in Seq(Posters)
  BY DEF Holders
<1>2. Cardinality(At(Append(bcast[w], p), C)) = Cardinality(At(bcast[w], C)) + One(p, C)
  BY <1>1, AtQueue
<1>3. Cardinality(Each("bcast", bcast', C))
        = Cardinality(Each("bcast", bcast, C)) - Cardinality(At(bcast[w], C))
          + Cardinality(At(Append(bcast[w], p), C))
  BY <1>1, BcastCount
<1>4. One(p, C) \in Int
  BY DEF One
<1> QED BY <1>2, <1>3, <1>4, PartsFinite DEF Held

\* A poster injects a job.
LEMMA PushInjected ==
  ASSUME Holders, NEW C, NEW p \in Posters,
         injected' = Append(injected, p), UNCHANGED <<deque, bcast, hand, run>>
  PROVE  Held(C)' = Held(C) + One(p, C)
<1>1. Cardinality(At(injected', C)) = Cardinality(At(injected, C)) + One(p, C)
  BY AtQueue DEF Holders
<1>2. One(p, C) \in Int
  BY DEF One
<1> QED BY <1>1, <1>2, PartsFinite DEF Held

-----------------------------------------------------------------------------
(***************************************************************************)
(* The invariant.                                                          *)
(***************************************************************************)
\* The forked jobs that set the latch of w's wait at depth d.
Slot(w, d) == {j \in ForkJobs : j.owner = w /\ j.depth = d}

\* w waits at depth d for a job that it has pushed and that has not ended.
Live(w, d) == d <= depth[w] /\ latch[w][d] # "SET" /\ ~(d = depth[w] /\ pc[w] = "push")

\* w has left the search loop, with a job in hand or with its latch set.
Proceeding(w) == pc[w] \in {"work_found", "proceed"} \/ (pc[w] = "waking" /\ wake[w].after = "proceed")

HandOK ==
  \A w \in Workers : /\ ~Proceeding(w) => hand[w] = NoJob
                     /\ Proceeding(w) /\ hand[w] = NoJob => MyLatch(w) = "SET"

\* A worker executes a job inside each wait but the innermost one, and there
\* too while it does not search.
RunOK ==
  \A w \in Workers : \A d \in 0 .. MaxDepth :
    run[w][d] # NoJob <=> d < depth[w] \/ (d = depth[w] /\ pc[w] \in {"run", "finish"})

ForksCounted == \A w \in Workers : \A d \in 1 .. MaxDepth : Held(Slot(w, d)) = IF Live(w, d) THEN 1 ELSE 0

PushUnset == \A w \in Workers : pc[w] = "push" => MyLatch(w) # "SET"

PostsCounted == \A p \in Posters : pending[p] = Held({p}) + NotYetPushed(p)

ReadyDone == \A p \in Posters : pc[p] = "ready" => pending[p] = 0

\* After the drop the owner is in terminate() and the others have nothing pending.
AtEnd(p) == pc[p] \in {"ready", "terminate"} \/ (pc[p] = "waking" /\ wake[p].after = "terminate")
DroppedOK == dropped => \A p \in Posters : pending[p] = 0 /\ AtEnd(p)

\* The job that w executes around its wait at depth d is older than that wait:
\* following the forks back from a job one comes to a posted job.
RankedBy(rank) ==
  \A w \in Workers : \A d \in 1 .. depth[w] :
    run[w][d - 1] \in ForkJobs => rank[run[w][d - 1].owner][run[w][d - 1].depth] < rank[w][d]
Ranked == \E rank \in [Workers -> [1 .. MaxDepth -> Nat]] : RankedBy(rank)

JInv == /\ HandOK /\ RunOK /\ ForksCounted /\ PushUnset
        /\ PostsCounted /\ ReadyDone /\ DroppedOK /\ Ranked

\* NoJob is in no set of jobs that is counted, and the sets are disjoint.
LEMMA SlotFacts ==
  /\ \A w, d : NoJob \notin Slot(w, d)
  /\ \A p \in Posters : NoJob \notin {p}
  /\ \A w, d : \A p \in Posters : One(p, Slot(w, d)) = 0
  /\ \A j \in ForkJobs : \A p \in Posters : One(j, {p}) = 0
  /\ \A j \in ForkJobs : \A w, d : One(j, Slot(w, d)) = IF j.owner = w /\ j.depth = d THEN 1 ELSE 0
  /\ \A p, q \in Posters : One(p, {q}) = IF p = q THEN 1 ELSE 0
<1>1. \A p \in Posters : p \notin ForkJobs /\ p # NoJob
  BY DEF Jobs
<1>2. NoJob \notin ForkJobs
  BY DEF Jobs
<1> QED BY <1>1, <1>2 DEF Slot, One

\* Shape has the holders of jobs.
LEMMA CoreHolders == Core => Holders
  BY DEF Core, Shape, Holders

\* What is still to be pushed is never negative.
LEMMA NotYetNat ==
  ASSUME Core, NEW p \in Posters
  PROVE  NotYetPushed(p) \in Nat
<1>1. wake[p].next \in 0 .. (N - 1)
  BY Apart DEF Core, Shape, Walks, Workers
<1> QED BY <1>1 DEF NotYetPushed

\* A step that creates no job, ends none and moves at most one.
Steady(t) ==
  /\ \A C : NoJob \notin C => Held(C)' = Held(C)
  /\ run' = run /\ depth' = depth /\ pending' = pending /\ dropped' = dropped
  /\ \A u \in Threads \ {t} : pc'[u] = pc[u] /\ wake'[u] = wake[u]
  /\ \A v \in Workers \ {t} : hand'[v] = hand[v]
  /\ \A v \in Workers : \A d \in 0 .. MaxDepth : latch[v][d] = "SET" => latch'[v][d] = "SET"
  /\ \A v \in Workers : \A d \in 1 .. MaxDepth : latch'[v][d] = "SET" => latch[v][d] = "SET"

\* Such a step of a worker inside wait_until.
LEMMA WorkerSteady ==
  ASSUME Core, JInv, NEW w \in Workers, Steady(w),
         pc[w] \notin {"run", "finish", "push"}, pc'[w] \notin {"run", "finish", "push"},
         ~Proceeding(w)' => hand'[w] = NoJob,
         Proceeding(w)' /\ hand'[w] = NoJob => MyLatch(w)' = "SET"
  PROVE  JInv'
<1>0. /\ depth \in [Workers -> 0 .. MaxDepth] /\ \A v \in Workers : depth[v] \in 0 .. MaxDepth
      /\ \A v \in Workers : v \in Threads /\ \A p \in Posters : p \in Threads /\ p # w
  BY Apart DEF Core, Shape
<1>1. HandOK'
  <2>1. ASSUME NEW v \in Workers, v # w
        PROVE  /\ ~Proceeding(v)' => hand'[v] = NoJob
               /\ Proceeding(v)' /\ hand'[v] = NoJob => MyLatch(v)' = "SET"
    <3>1. /\ pc'[v] = pc[v] /\ wake'[v] = wake[v] /\ hand'[v] = hand[v] /\ depth'[v] = depth[v]
          /\ latch[v][depth[v]] = "SET" => latch'[v][depth[v]] = "SET"
      BY <1>0, <2>1 DEF Steady
    <3> QED BY <2>1, <3>1 DEF JInv, HandOK, Proceeding, MyLatch
  <2> QED BY <2>1 DEF HandOK
<1>2. RunOK'
  <2>1. ASSUME NEW v \in Workers
        PROVE  /\ run'[v] = run[v] /\ depth'[v] = depth[v]
               /\ pc'[v] \in {"run", "finish"} <=> pc[v] \in {"run", "finish"}
    BY <1>0 DEF Steady
  <2> QED BY <2>1 DEF JInv, RunOK
<1>3. ForksCounted'
  <2>1. ASSUME NEW v \in Workers, NEW d \in 1 .. MaxDepth
        PROVE  Held(Slot(v, d))' = Held(Slot(v, d)) /\ (Live(v, d)' <=> Live(v, d))
    <3>1. Held(Slot(v, d))' = Held(Slot(v, d))
      BY SlotFacts DEF Steady
    <3>2. depth'[v] = depth[v] /\ (latch'[v][d] = "SET" <=> latch[v][d] = "SET")
      BY DEF Steady
    <3>3. pc'[v] = "push" <=> pc[v] = "push"
      BY <1>0 DEF Steady
    <3> QED BY <3>1, <3>2, <3>3 DEF Live
  <2> QED BY <2>1 DEF JInv, ForksCounted
<1>4. PushUnset'
  <2>1. ASSUME NEW v \in Workers, pc'[v] = "push" PROVE MyLatch(v)' # "SET"
    <3>1. pc[v] = "push" /\ depth[v] \in 1 .. MaxDepth /\ depth'[v] = depth[v]
      BY <1>0, <2>1 DEF Steady, Core, PushOK
    <3> QED BY <3>1 DEF Steady, MyLatch, JInv, PushUnset
  <2> QED BY <2>1 DEF PushUnset
<1>5. PostsCounted' /\ ReadyDone' /\ DroppedOK'
  <2>1. ASSUME NEW p \in Posters
        PROVE  Held({p})' = Held({p}) /\ pc'[p] = pc[p] /\ wake'[p] = wake[p] /\ pending'[p] = pending[p]
    BY <1>0, SlotFacts DEF Steady
  <2>2. dropped' = dropped BY DEF Steady
  <2>3. ASSUME NEW p \in Posters
        PROVE  NotYetPushed(p)' = NotYetPushed(p) /\ (AtEnd(p)' <=> AtEnd(p))
    BY <2>1 DEF NotYetPushed, AtEnd
  <2>4. PostsCounted'
    BY <2>1, <2>3 DEF JInv, PostsCounted
  <2>5. ReadyDone'
    BY <2>1 DEF JInv, ReadyDone
  <2>6. DroppedOK'
    BY <2>1, <2>2, <2>3 DEF JInv, DroppedOK
  <2> QED BY <2>4, <2>5, <2>6
<1>6. Ranked'
  BY DEF Steady, JInv, Ranked, RankedBy
<1> QED BY <1>1, <1>2, <1>3, <1>4, <1>5, <1>6 DEF JInv

\* Such a step of a poster.
LEMMA PosterSteady ==
  ASSUME Core, JInv, NEW p \in Posters, Steady(p), hand' = hand,
         pc[p] \notin {"inject", "bcast_push"}, pc'[p] \notin {"inject", "bcast_push"},
         pc'[p] = "ready" => pending[p] = 0,
         dropped => AtEnd(p)'
  PROVE  JInv'
<1>0. /\ \A v \in Workers : depth[v] \in 0 .. MaxDepth
      /\ \A v \in Workers : v \in Threads /\ v # p
      /\ \A q \in Posters : q \in Threads
  BY Apart DEF Core, Shape
<1>1. ASSUME NEW v \in Workers
      PROVE  /\ pc'[v] = pc[v] /\ wake'[v] = wake[v] /\ hand'[v] = hand[v] /\ depth'[v] = depth[v]
             /\ run'[v] = run[v]
             /\ latch[v][depth[v]] = "SET" => latch'[v][depth[v]] = "SET"
  BY <1>0 DEF Steady
<1>2. HandOK' /\ RunOK'
  BY <1>1 DEF JInv, HandOK, RunOK, Proceeding, MyLatch
<1>3. ForksCounted'
  <2>1. ASSUME NEW v \in Workers, NEW d \in 1 .. MaxDepth
        PROVE  Held(Slot(v, d))' = Held(Slot(v, d)) /\ (Live(v, d)' <=> Live(v, d))
    <3>1. Held(Slot(v, d))' = Held(Slot(v, d))
      BY SlotFacts DEF Steady
    <3>2. latch'[v][d] = "SET" <=> latch[v][d] = "SET"
      BY DEF Steady
    <3> QED BY <1>1, <3>1, <3>2 DEF Live
  <2> QED BY <2>1 DEF JInv, ForksCounted
<1>4. PushUnset'
  <2>1. ASSUME NEW v \in Workers, pc'[v] = "push" PROVE MyLatch(v)' # "SET"
    <3>1. pc[v] = "push" /\ depth[v] \in 1 .. MaxDepth /\ depth'[v] = depth[v]
      BY <1>0, <1>1, <2>1 DEF Core, PushOK
    <3> QED BY <3>1 DEF Steady, MyLatch, JInv, PushUnset
  <2> QED BY <2>1 DEF PushUnset
<1>5. PostsCounted' /\ ReadyDone' /\ DroppedOK'
  <2>1. ASSUME NEW q \in Posters
        PROVE  Held({q})' = Held({q}) /\ pending'[q] = pending[q]
    BY SlotFacts DEF Steady
  <2>2. ASSUME NEW q \in Posters, q # p PROVE pc'[q] = pc[q] /\ wake'[q] = wake[q]
    BY <1>0, <2>2 DEF Steady
  <2>3. ASSUME NEW q \in Posters PROVE NotYetPushed(q)' = NotYetPushed(q)
    <3>1. CASE q = p
      BY <3>1 DEF NotYetPushed
    <3>2. CASE q # p
      BY <2>2, <3>2 DEF NotYetPushed
    <3> QED BY <3>1, <3>2
  <2>4. PostsCounted'
    BY <2>1, <2>3 DEF JInv, PostsCounted
  <2>5. ReadyDone'
    BY <2>1, <2>2 DEF JInv, ReadyDone
  <2>6. DroppedOK'
    <3>1. dropped' = dropped BY DEF Steady
    <3>2. ASSUME dropped, NEW q \in Posters PROVE pending'[q] = 0 /\ AtEnd(q)'
      <4>1. CASE q = p
        BY <2>1, <3>2, <4>1 DEF JInv, DroppedOK
      <4>2. CASE q # p
        BY <2>1, <2>2, <3>2, <4>2 DEF JInv, DroppedOK, AtEnd
      <4> QED BY <4>1, <4>2
    <3> QED BY <3>1, <3>2 DEF DroppedOK
  <2> QED BY <2>4, <2>5, <2>6
<1>6. Ranked'
  BY DEF Steady, JInv, Ranked, RankedBy
<1> QED BY <1>2, <1>3, <1>4, <1>5, <1>6 DEF JInv

-----------------------------------------------------------------------------
(***************************************************************************)
(* The steps that neither create nor end a job.                            *)
(***************************************************************************)
\* The places of a worker with no job of its own and nothing in hand.
Plain == WorkerPcs \ {"run", "finish", "push", "waking", "work_found", "proceed"}

SameSet == \A v \in Workers : \A d \in 0 .. MaxDepth : latch'[v][d] = "SET" <=> latch[v][d] = "SET"
SameJobs == UNCHANGED <<injected, deque, bcast, hand, run, depth, pending, dropped>>

\* A worker's program counter moves.
LEMMA MovePc ==
  ASSUME Core, NEW t \in Threads, NEW x, pc' = [pc EXCEPT ![t] = x]
  PROVE  pc'[t] = x /\ \A u \in Threads \ {t} : pc'[u] = pc[u]
<1>1. pc \in [Threads -> WorkerPcs \cup PosterPcs]
  BY DEF Core, Shape, PcOK
<1> QED BY <1>1

\* Writing a latch without setting or resetting it.
LEMMA LatchSame ==
  ASSUME Core, NEW w \in Workers, NEW y,
         \/ latch' = latch
         \/ /\ latch' = [latch EXCEPT ![w][depth[w]] = y]
            /\ y = "SET" <=> latch[w][depth[w]] = "SET"
  PROVE  SameSet
<1>1. latch \in Latches /\ depth[w] \in 0 .. MaxDepth
  BY DEF Core, Shape
<1>2. CASE latch' = latch
  BY <1>2 DEF SameSet
<1>3. CASE latch' = [latch EXCEPT ![w][depth[w]] = y] /\ (y = "SET" <=> latch[w][depth[w]] = "SET")
  BY <1>1, <1>3 DEF SameSet, Latches
<1> QED BY <1>2, <1>3

\* A step inside the search that moves no job.
LEMMA PlainStep ==
  ASSUME Core, JInv, NEW w \in Workers, pc[w] \in Plain, NEW x \in Plain, pc' = [pc EXCEPT ![w] = x],
         SameJobs, wake' = wake, SameSet
  PROVE  JInv'
<1>1. w \in Threads
  BY Apart
<1>2. pc'[w] = x /\ \A u \in Threads \ {w} : pc'[u] = pc[u]
  BY <1>1, MovePc
<1>3. Steady(w)
  <2>1. \A C : Held(C)' = Held(C)
    BY DEF SameJobs, Held
  <2> QED BY <1>2, <2>1 DEF Steady, SameJobs, SameSet
<1>4. ~Proceeding(w) /\ ~Proceeding(w)'
  BY <1>2 DEF Proceeding, Plain
<1>5. hand'[w] = NoJob
  BY <1>4 DEF JInv, HandOK, SameJobs
<1> QED BY <1>2, <1>3, <1>4, <1>5, WorkerSteady DEF Plain

\* The names that are plain.
LEMMA PlainNames ==
  {"probe", "pop", "pop_bcast", "steal", "pop_inj", "no_work", "fall_asleep", "register", "interrupted",
   "check_bcast", "check_inj", "unregister", "awaken", "wait_until", "start_looking", "blocked",
   "new_jobs", "stopped"} \in SUBSET Plain
  BY PcNames DEF Plain

\* no_work_found and sleep.
LEMMA FallingAsleepJobs ==
  ASSUME Core, JInv, NEW w \in Workers, FallingAsleep(w)
  PROVE  JInv'
<1>1. CASE SpinRound(w) \/ AnnounceSleepy(w)
  <2>1. pc[w] \in Plain /\ pc' = [pc EXCEPT ![w] = "probe"] /\ SameJobs /\ wake' = wake /\ latch' = latch
    BY <1>1, PlainNames DEF SpinRound, AnnounceSleepy, Goto, queues, control, posting, SameJobs
  <2>2. SameSet BY <2>1 DEF SameSet
  <2> QED BY <2>1, <2>2, PlainStep, PlainNames
<1>2. CASE GetSleepy(w)
  <2>1. /\ pc[w] \in Plain /\ SameJobs /\ wake' = wake
        /\ \/ pc' = [pc EXCEPT ![w] = "probe"] /\ latch' = latch
           \/ /\ pc' = [pc EXCEPT ![w] = "fall_asleep"] /\ latch[w][depth[w]] = "UNSET"
              /\ latch' = [latch EXCEPT ![w][depth[w]] = "SLEEPY"]
    BY <1>2, PlainNames DEF GetSleepy, MyLatch, Goto, queues, control, posting, SameJobs
  <2>2. SameSet BY <2>1, LatchSame
  <2> QED BY <2>1, <2>2, PlainStep, PlainNames
<1>3. CASE FallAsleep(w)
  <2>1. /\ pc[w] \in Plain /\ SameJobs /\ wake' = wake
        /\ \/ pc' = [pc EXCEPT ![w] = "probe"] /\ latch' = latch
           \/ /\ pc' = [pc EXCEPT ![w] = "register"] /\ latch[w][depth[w]] = "SLEEPY"
              /\ latch' = [latch EXCEPT ![w][depth[w]] = "SLEEPING"]
    BY <1>3, PlainNames DEF FallAsleep, MyLatch, Goto, queues, control, posting, SameJobs
  <2>2. SameSet BY <2>1, LatchSame
  <2> QED BY <2>1, <2>2, PlainStep, PlainNames
<1>4. CASE Register(w)
  <2>1. /\ pc[w] \in Plain /\ SameJobs /\ wake' = wake /\ latch' = latch
        /\ pc' = [pc EXCEPT ![w] = "interrupted"] \/ pc' = [pc EXCEPT ![w] = "check_bcast"]
    BY <1>4, PlainNames DEF Register, Goto, queues, control, posting, SameJobs
  <2>2. SameSet BY <2>1 DEF SameSet
  <2> QED BY <2>1, <2>2, PlainStep, PlainNames
<1>5. CASE InterruptedByJob(w) \/ Awaken(w)
  <2>1. /\ pc[w] \in Plain /\ SameJobs /\ wake' = wake /\ pc' = [pc EXCEPT ![w] = "probe"]
        /\ latch' = [latch EXCEPT ![w][depth[w]] = wake_up(latch[w][depth[w]])]
    BY <1>5, PlainNames DEF InterruptedByJob, Awaken, Goto, queues, control, posting, SameJobs
  <2>2. wake_up(latch[w][depth[w]]) = "SET" <=> latch[w][depth[w]] = "SET"
    BY DEF wake_up
  <2>3. SameSet BY <2>1, <2>2, LatchSame
  <2> QED BY <2>1, <2>3, PlainStep, PlainNames
<1>6. CASE LastCheckBroadcasts(w) \/ LastCheckInjector(w) \/ Unregister(w)
  <2>1. /\ pc[w] \in Plain /\ SameJobs /\ wake' = wake /\ latch' = latch
        /\ \/ pc' = [pc EXCEPT ![w] = "unregister"] \/ pc' = [pc EXCEPT ![w] = "check_inj"]
           \/ pc' = [pc EXCEPT ![w] = "blocked"] \/ pc' = [pc EXCEPT ![w] = "awaken"]
    BY <1>6, PlainNames DEF LastCheckBroadcasts, LastCheckInjector, Unregister, Goto, queues, control,
                            posting, SameJobs
  <2>2. SameSet BY <2>1 DEF SameSet
  <2> QED BY <2>1, <2>2, PlainStep, PlainNames
<1> QED BY <1>1, <1>2, <1>3, <1>4, <1>5, <1>6 DEF FallingAsleep

\* A worker that leaves the search with its latch set has nothing in hand.
LEMMA LatchSetStep ==
  ASSUME Core, JInv, NEW w \in Workers, pc[w] \in {"wait_until", "probe"}, MyLatch(w) = "SET",
         NEW x \in {"proceed", "work_found"}, pc' = [pc EXCEPT ![w] = x],
         hand' = [hand EXCEPT ![w] = NoJob],
         UNCHANGED <<injected, deque, bcast, run, depth, pending, dropped, wake, latch>>
  PROVE  JInv'
<1>1. w \in Threads /\ hand \in [Workers -> Jobs \cup {NoJob}]
  BY Apart DEF Core, Shape
<1>2. hand[w] = NoJob
  BY DEF JInv, HandOK, Proceeding
<1>3. hand' = hand
  BY <1>1, <1>2
<1>4. pc'[w] = x /\ \A u \in Threads \ {w} : pc'[u] = pc[u]
  BY <1>1, MovePc
<1>5. Steady(w)
  <2>1. \A C : Held(C)' = Held(C)
    BY <1>3 DEF Held
  <2> QED BY <1>3, <1>4, <2>1 DEF Steady
<1>6. MyLatch(w)' = "SET"
  BY DEF MyLatch
<1>7. hand'[w] = NoJob
  BY <1>2, <1>3
<1> QED BY <1>4, <1>5, <1>6, <1>7, WorkerSteady

\* A worker takes a job from a queue.
LEMMA TakeStep ==
  ASSUME Core, JInv, NEW w \in Workers, pc[w] \in {"pop", "pop_bcast", "steal", "pop_inj"},
         NEW j \in Jobs, pc' = [pc EXCEPT ![w] = "work_found"], hand' = [hand EXCEPT ![w] = j],
         \A C : NoJob \notin C => Held(C)' = Held(C),
         UNCHANGED <<run, depth, pending, dropped, wake, latch>>
  PROVE  JInv'
<1>1. w \in Threads /\ hand \in [Workers -> Jobs \cup {NoJob}]
  BY Apart DEF Core, Shape
<1>2. hand'[w] = j /\ \A v \in Workers \ {w} : hand'[v] = hand[v]
  BY <1>1
<1>3. pc'[w] = "work_found" /\ \A u \in Threads \ {w} : pc'[u] = pc[u]
  BY <1>1, MovePc
<1>4. Steady(w)
  BY <1>2, <1>3 DEF Steady
<1>5. hand'[w] # NoJob /\ Proceeding(w)'
  BY <1>2, <1>3 DEF Proceeding
<1> QED BY <1>3, <1>4, <1>5, WorkerSteady

\* Calling wake_any_threads moves its caller only.
LEMMA CallWakeMoves ==
  ASSUME Core, NEW t \in Threads, NEW from, NEW to, NEW quota, NEW after,
         CallWake(t, from, to, quota, after)
  PROVE  /\ \A u \in Threads \ {t} : pc'[u] = pc[u] /\ wake'[u] = wake[u]
         /\ \/ quota = 0 /\ pc'[t] = after /\ wake'[t] = wake[t]
            \/ quota # 0 /\ pc'[t] = "waking" /\ wake'[t].after = after
<1>1. pc \in [Threads -> WorkerPcs \cup PosterPcs] /\ wake \in [Threads -> Walks]
  BY DEF Core, Shape, PcOK
<1>2. CASE quota = 0
  <2>1. pc' = [pc EXCEPT ![t] = after] /\ wake' = wake
    BY <1>2 DEF CallWake, Goto
  <2> QED BY <1>1, <1>2, <2>1
<1>3. CASE quota # 0
  <2>1. /\ pc' = [pc EXCEPT ![t] = "waking"]
        /\ wake' = [wake EXCEPT ![t] = [next |-> from, last |-> to, quota |-> quota, after |-> after]]
    BY <1>3 DEF CallWake, Goto
  <2>2. wake'[t] = [next |-> from, last |-> to, quota |-> quota, after |-> after]
    BY <1>1, <2>1
  <2> QED BY <1>1, <1>3, <2>1, <2>2
<1> QED BY <1>2, <1>3

\* The search loop.
LEMMA SearchJobs ==
  ASSUME TypeOK, Core, JInv, NEW w \in Workers, Search(w)
  PROVE  JInv'
<1>0. /\ Holders /\ w \in Threads /\ w \in DOMAIN hand /\ w \in DOMAIN deque /\ w \in DOMAIN bcast
      /\ deque[w] \in Seq(ForkJobs) /\ bcast[w] \in Seq(Posters) /\ injected \in Seq(Posters)
      /\ DOMAIN deque = Workers /\ victims[w] \in SUBSET Workers
  BY CoreHolders, Apart DEF Core, Shape
<1>h. ~Proceeding(w) => hand[w] = NoJob
  BY DEF JInv, HandOK
<1>1. CASE WaitUntil(w)
  <2>1. CASE MyLatch(w) = "SET"
    BY <1>1, <2>1, LatchSetStep DEF WaitUntil, Goto, queues, posting
  <2>2. CASE MyLatch(w) # "SET"
    <3>1. /\ pc[w] \in Plain /\ SameJobs /\ wake' = wake /\ latch' = latch
          /\ pc' = [pc EXCEPT ![w] = "start_looking"]
      BY <1>1, <2>2, PlainNames DEF WaitUntil, Goto, queues, posting, SameJobs
    <3>2. SameSet BY <3>1 DEF SameSet
    <3> QED BY <3>1, <3>2, PlainStep, PlainNames
  <2> QED BY <2>1, <2>2
<1>2. CASE StartLooking(w)
  <2>1. /\ pc[w] \in Plain /\ SameJobs /\ wake' = wake /\ latch' = latch
        /\ pc' = [pc EXCEPT ![w] = "probe"]
    BY <1>2, PlainNames DEF StartLooking, Goto, queues, control, posting, SameJobs
  <2>2. SameSet BY <2>1 DEF SameSet
  <2> QED BY <2>1, <2>2, PlainStep, PlainNames
<1>3. CASE Probe(w)
  <2>1. CASE MyLatch(w) = "SET"
    BY <1>3, <2>1, LatchSetStep DEF Probe, Goto, queues, posting
  <2>2. CASE MyLatch(w) # "SET"
    <3>1. /\ pc[w] \in Plain /\ SameJobs /\ wake' = wake /\ latch' = latch
          /\ pc' = [pc EXCEPT ![w] = "pop"]
      BY <1>3, <2>2, PlainNames DEF Probe, Goto, queues, posting, SameJobs
    <3>2. SameSet BY <3>1 DEF SameSet
    <3> QED BY <3>1, <3>2, PlainStep, PlainNames
  <2> QED BY <2>1, <2>2
<1>4. CASE PopLocal(w)
  <2>1. CASE deque[w] = <<>>
    <3>1. /\ pc[w] \in Plain /\ SameJobs /\ wake' = wake /\ latch' = latch
          /\ pc' = [pc EXCEPT ![w] = "pop_bcast"]
      BY <1>4, <2>1, PlainNames DEF PopLocal, Goto, queues, posting, SameJobs
    <3>2. SameSet BY <3>1 DEF SameSet
    <3> QED BY <3>1, <3>2, PlainStep, PlainNames
  <2>2. CASE deque[w] # <<>>
    <3> DEFINE j == deque[w][Len(deque[w])]
               q == SubSeq(deque[w], 1, Len(deque[w]) - 1)
    <3>1. /\ pc[w] = "pop" /\ hand' = [hand EXCEPT ![w] = j] /\ deque' = [deque EXCEPT ![w] = q]
          /\ pc' = [pc EXCEPT ![w] = "work_found"]
          /\ UNCHANGED <<injected, bcast, run, depth, pending, dropped, wake, latch>>
      BY <1>4, <2>2 DEF PopLocal, Goto, queues, posting
    <3>2. j \in Jobs
      BY <1>0, <2>2, SeqTypes, JobTypes
    <3>3. Writes(deque, deque', w, q) /\ Writes(hand, hand', w, j)
      BY <1>0, <3>1, ExceptWrites
    <3>4. hand[w] = NoJob
      BY <1>h, <3>1 DEF Proceeding
    <3>5. ASSUME NEW C, NoJob \notin C PROVE Held(C)' = Held(C)
      BY <1>0, <2>2, <3>1, <3>3, <3>4, <3>5, TakeDeque
    <3> HIDE DEF j, q
    <3> QED BY <3>1, <3>2, <3>5, TakeStep
  <2> QED BY <2>1, <2>2
<1>5. CASE PopBroadcast(w)
  <2>1. CASE bcast[w] = <<>>
    <3>1. /\ pc[w] \in Plain /\ SameJobs /\ wake' = wake /\ latch' = latch
          /\ pc' = [pc EXCEPT ![w] = "steal"]
      BY <1>5, <2>1, PlainNames DEF PopBroadcast, Goto, queues, posting, SameJobs
    <3>2. SameSet BY <3>1 DEF SameSet
    <3> QED BY <3>1, <3>2, PlainStep, PlainNames
  <2>2. CASE bcast[w] # <<>>
    <3> DEFINE j == Head(bcast[w])
    <3>1. /\ pc[w] = "pop_bcast" /\ hand' = [hand EXCEPT ![w] = j]
          /\ bcast' = [bcast EXCEPT ![w] = Tail(bcast[w])]
          /\ pc' = [pc EXCEPT ![w] = "work_found"]
          /\ UNCHANGED <<injected, deque, run, depth, pending, dropped, wake, latch>>
      BY <1>5, <2>2 DEF PopBroadcast, Goto, queues, posting
    <3>2. j \in Jobs
      BY <1>0, <2>2, SeqTypes, JobTypes
    <3>3. Writes(bcast, bcast', w, Tail(bcast[w])) /\ Writes(hand, hand', w, j)
      BY <1>0, <3>1, ExceptWrites
    <3>4. hand[w] = NoJob
      BY <1>h, <3>1 DEF Proceeding
    <3>5. ASSUME NEW C, NoJob \notin C PROVE Held(C)' = Held(C)
      BY <1>0, <2>2, <3>1, <3>3, <3>4, <3>5, TakeBroadcast
    <3> HIDE DEF j
    <3> QED BY <3>1, <3>2, <3>5, TakeStep
  <2> QED BY <2>1, <2>2
<1>6. CASE Steal(w)
  <2>1. CASE victims[w] = {} /\ pc' = [pc EXCEPT ![w] = "pop_inj"] /\ UNCHANGED <<hand, deque>>
    <3>1. pc[w] \in Plain /\ SameJobs /\ wake' = wake /\ latch' = latch
      BY <1>6, <2>1, PlainNames DEF Steal, queues, posting, SameJobs
    <3>2. SameSet BY <3>1 DEF SameSet
    <3> QED BY <2>1, <3>1, <3>2, PlainStep, PlainNames
  <2>2. CASE UNCHANGED <<hand, deque, pc>>
    <3>1. pc[w] = "steal" /\ pc[w] \in Plain /\ SameJobs /\ wake' = wake /\ latch' = latch
      BY <1>6, <2>2, PlainNames DEF Steal, queues, posting, SameJobs
    <3>2. SameSet BY <3>1 DEF SameSet
    <3>3. pc' = [pc EXCEPT ![w] = "steal"]
      <4>1. pc \in [Threads -> WorkerPcs \cup PosterPcs] BY DEF Core, Shape, PcOK
      <4> QED BY <1>0, <2>2, <3>1, <4>1
    <3> QED BY <3>1, <3>2, <3>3, PlainStep, PlainNames
  <2>3. ASSUME NEW v \in victims[w], deque[v] # <<>>,
               hand' = [hand EXCEPT ![w] = Head(deque[v])], deque' = [deque EXCEPT ![v] = Tail(deque[v])],
               pc' = [pc EXCEPT ![w] = "work_found"]
        PROVE  JInv'
    <3> DEFINE j == Head(deque[v])
    <3>1. /\ pc[w] = "steal" /\ UNCHANGED <<injected, bcast, run, depth, pending, dropped, wake, latch>>
          /\ v \in Workers /\ deque[v] \in Seq(ForkJobs)
      BY <1>0, <1>6 DEF Steal, queues, posting, Holders
    <3>2. j \in Jobs
      BY <2>3, <3>1, SeqTypes, JobTypes
    <3>3. Writes(deque, deque', v, Tail(deque[v])) /\ Writes(hand, hand', w, j)
      BY <1>0, <2>3, <3>1, ExceptWrites
    <3>4. hand[w] = NoJob
      BY <1>h, <3>1 DEF Proceeding
    <3>5. ASSUME NEW C, NoJob \notin C PROVE Held(C)' = Held(C)
      BY <1>0, <2>3, <3>1, <3>3, <3>4, <3>5, TakeDeque
    <3> QED BY <2>3, <3>1, <3>2, <3>5, TakeStep
  <2> QED BY <1>6, <2>1, <2>2, <2>3 DEF Steal, Goto
<1>7. CASE PopInjected(w)
  <2>1. CASE injected = <<>>
    <3>1. /\ pc[w] \in Plain /\ SameJobs /\ wake' = wake /\ latch' = latch
          /\ pc' = [pc EXCEPT ![w] = "no_work"]
      BY <1>7, <2>1, PlainNames DEF PopInjected, Goto, queues, posting, SameJobs
    <3>2. SameSet BY <3>1 DEF SameSet
    <3> QED BY <3>1, <3>2, PlainStep, PlainNames
  <2>2. CASE injected # <<>>
    <3> DEFINE j == Head(injected)
    <3>1. /\ pc[w] = "pop_inj" /\ hand' = [hand EXCEPT ![w] = j] /\ injected' = Tail(injected)
          /\ pc' = [pc EXCEPT ![w] = "work_found"]
          /\ UNCHANGED <<deque, bcast, run, depth, pending, dropped, wake, latch>>
      BY <1>7, <2>2 DEF PopInjected, Goto, queues, posting
    <3>2. j \in Jobs
      BY <1>0, <2>2, SeqTypes, JobTypes
    <3>3. Writes(hand, hand', w, j)
      BY <1>0, <3>1, ExceptWrites
    <3>4. hand[w] = NoJob
      BY <1>h, <3>1 DEF Proceeding
    <3>5. ASSUME NEW C, NoJob \notin C PROVE Held(C)' = Held(C)
      BY <1>0, <2>2, <3>1, <3>3, <3>4, <3>5, TakeInjected
    <3> HIDE DEF j
    <3> QED BY <3>1, <3>2, <3>5, TakeStep
  <2> QED BY <2>1, <2>2
<1>8. CASE WorkFound(w)
  <2>1. CallWake(w, 0, N - 1, threads_to_wake(counters), "proceed")
    BY <1>8 DEF WorkFound
  <2>3. pc[w] = "work_found" /\ SameJobs /\ latch' = latch
    BY <1>8 DEF WorkFound, queues, control, posting, SameJobs
  <2>5. /\ pc'[w] \in {"proceed", "waking"} /\ (pc'[w] = "waking" => wake'[w].after = "proceed")
        /\ \A u \in Threads \ {w} : pc'[u] = pc[u] /\ wake'[u] = wake[u]
    BY <1>0, <2>1, CallWakeMoves
  <2>6. Steady(w)
    <3>1. \A C : Held(C)' = Held(C) BY <2>3 DEF SameJobs, Held
    <3> QED BY <2>3, <2>5, <3>1 DEF Steady, SameJobs
  <2>7. Proceeding(w) /\ Proceeding(w)'
    BY <2>3, <2>5 DEF Proceeding
  <2>8. hand'[w] = NoJob => MyLatch(w)' = "SET"
    BY <2>3, <2>7 DEF JInv, HandOK, SameJobs, MyLatch
  <2> QED BY <2>3, <2>5, <2>6, <2>7, <2>8, WorkerSteady
<1> QED BY <1>1, <1>2, <1>3, <1>4, <1>5, <1>6, <1>7, <1>8 DEF Search

\* A step of a walk moves its thread along the walk or to what comes after it.
LEMMA WakeThreadMoves ==
  ASSUME Core, NEW t \in Threads, WakeThread(t)
  PROVE  /\ pc[t] = "waking" /\ SameJobs /\ latch' = latch
         /\ \A u \in Threads \ {t} : pc'[u] = pc[u] /\ wake'[u] = wake[u]
         /\ \/ pc'[t] = wake[t].after
            \/ pc'[t] = "waking" /\ wake'[t].after = wake[t].after
<1>1. pc \in [Threads -> WorkerPcs \cup PosterPcs] /\ wake \in [Threads -> Walks]
  BY DEF Core, Shape, PcOK
<1>2. pc[t] = "waking" /\ SameJobs /\ latch' = latch
  BY DEF WakeThread, queues, control, posting, SameJobs
<1>3. CASE wake' = [wake EXCEPT ![t] = NoWalk] /\ Goto(t, wake[t].after)
  BY <1>1, <1>2, <1>3 DEF Goto
<1>4. ASSUME NEW i, NEW q, wake' = [wake EXCEPT ![t].next = i + 1, ![t].quota = q], UNCHANGED pc
      PROVE  /\ pc'[t] = "waking" /\ wake'[t].after = wake[t].after
             /\ \A u \in Threads \ {t} : pc'[u] = pc[u] /\ wake'[u] = wake[u]
  BY <1>1, <1>2, <1>4 DEF Walks
<1> QED BY <1>2, <1>3, <1>4 DEF WakeThread

\* A step that moves t only, and no job.
LEMMA MovesOnly ==
  ASSUME NEW t, SameJobs, latch' = latch, \A u \in Threads \ {t} : pc'[u] = pc[u] /\ wake'[u] = wake[u]
  PROVE  Steady(t)
<1>1. \A C : Held(C)' = Held(C)
  BY DEF SameJobs, Held
<1> QED BY <1>1 DEF Steady, SameJobs

\* A worker wakes others, after a push or with work in hand.
LEMMA WorkerWakes ==
  ASSUME Core, JInv, NEW w \in Workers, NewJobs(w) \/ WakeThread(w)
  PROVE  JInv'
<1>0. w \in Threads
  BY Apart
<1>1. CASE NewJobs(w)
  <2>1. /\ pc[w] = "new_jobs" /\ SameJobs /\ latch' = latch
        /\ CallWake(w, 0, N - 1, NumToWake(counters', 1, was_empty[w]), "wait_until")
    BY <1>1 DEF NewJobs, queues, control, SameJobs
  <2>2. /\ \A u \in Threads \ {w} : pc'[u] = pc[u] /\ wake'[u] = wake[u]
        /\ pc'[w] \in {"wait_until", "waking"} /\ (pc'[w] = "waking" => wake'[w].after = "wait_until")
    BY <1>0, <2>1, CallWakeMoves
  <2>3. Steady(w)
    BY <2>1, <2>2, MovesOnly
  <2>4. ~Proceeding(w) /\ ~Proceeding(w)'
    BY <2>1, <2>2 DEF Proceeding
  <2>5. hand'[w] = NoJob
    BY <2>1, <2>4 DEF SameJobs, JInv, HandOK
  <2> QED BY <2>1, <2>2, <2>3, <2>4, <2>5, WorkerSteady
<1>2. CASE WakeThread(w)
  <2>1. /\ pc[w] = "waking" /\ SameJobs /\ latch' = latch
        /\ \A u \in Threads \ {w} : pc'[u] = pc[u] /\ wake'[u] = wake[u]
        /\ \/ pc'[w] = wake[w].after
           \/ pc'[w] = "waking" /\ wake'[w].after = wake[w].after
    BY <1>0, <1>2, WakeThreadMoves
  <2>2. wake[w].after \in {"proceed", "start_looking", "wait_until"}
    BY <1>0, <2>1 DEF Core, WalksOK
  <2>3. Steady(w)
    BY <2>1, MovesOnly
  <2>4. Proceeding(w)' <=> Proceeding(w)
    BY <2>1, <2>2 DEF Proceeding
  <2>5. hand'[w] = hand[w] /\ MyLatch(w)' = MyLatch(w)
    BY <2>1 DEF SameJobs, MyLatch
  <2>6. /\ ~Proceeding(w)' => hand'[w] = NoJob
        /\ Proceeding(w)' /\ hand'[w] = NoJob => MyLatch(w)' = "SET"
    BY <2>4, <2>5 DEF JInv, HandOK
  <2> QED BY <2>1, <2>2, <2>3, <2>6, WorkerSteady
<1> QED BY <1>1, <1>2

\* A poster wakes workers, or its post is done.
LEMMA PosterWakes ==
  ASSUME Core, JInv, NEW p \in Posters, NewJobs(p) \/ WakeThread(p) \/ LatchReleased(p)
  PROVE  JInv'
<1>0. p \in Threads /\ p \notin Workers
  BY Apart
<1>d. dropped => AtEnd(p)
  BY DEF JInv, DroppedOK
<1>1. CASE NewJobs(p)
  <2>1. /\ pc[p] = "new_jobs" /\ SameJobs /\ latch' = latch
        /\ CallWake(p, 0, N - 1, NumToWake(counters', 1, was_empty[p]), "wait")
    BY <1>0, <1>1 DEF NewJobs, queues, control, SameJobs
  <2>2. /\ \A u \in Threads \ {p} : pc'[u] = pc[u] /\ wake'[u] = wake[u]
        /\ pc'[p] \in {"wait", "waking"}
    BY <1>0, <2>1, CallWakeMoves
  <2>3. Steady(p)
    BY <2>1, <2>2, MovesOnly
  <2>4. ~dropped
    BY <1>d, <2>1 DEF AtEnd
  <2> QED BY <2>1, <2>2, <2>3, <2>4, PosterSteady DEF SameJobs
<1>2. CASE WakeThread(p)
  <2>1. /\ pc[p] = "waking" /\ SameJobs /\ latch' = latch
        /\ \A u \in Threads \ {p} : pc'[u] = pc[u] /\ wake'[u] = wake[u]
        /\ \/ pc'[p] = wake[p].after
           \/ pc'[p] = "waking" /\ wake'[p].after = wake[p].after
    BY <1>0, <1>2, WakeThreadMoves
  <2>2. wake[p].after \in {"wait", "terminate"}
    BY <1>0, <2>1 DEF Core, WalksOK
  <2>3. Steady(p)
    BY <2>1, MovesOnly
  <2>4. dropped => AtEnd(p)'
    BY <1>d, <2>1, <2>2 DEF AtEnd
  <2> QED BY <2>1, <2>2, <2>3, <2>4, PosterSteady DEF SameJobs
<1>3. CASE LatchReleased(p)
  <2>1. /\ pc[p] = "wait" /\ pending[p] = 0 /\ SameJobs /\ latch' = latch /\ wake' = wake
        /\ pc' = [pc EXCEPT ![p] = "ready"]
    BY <1>3 DEF LatchReleased, Goto, queues, control, posting, SameJobs
  <2>2. pc'[p] = "ready" /\ \A u \in Threads \ {p} : pc'[u] = pc[u] /\ wake'[u] = wake[u]
    BY <1>0, <2>1, MovePc
  <2>3. Steady(p)
    BY <2>1, <2>2, MovesOnly
  <2>4. ~dropped
    BY <1>d, <2>1 DEF AtEnd
  <2> QED BY <2>1, <2>2, <2>3, <2>4, PosterSteady DEF SameJobs
<1> QED BY <1>1, <1>2, <1>3

\* terminate() sets a terminate latch, which is of no forked job.
LEMMA SetTerminateJobs ==
  ASSUME Core, JInv, SetTerminate
  PROVE  JInv'
<1>0. Owner \in Posters /\ Owner \in Threads /\ latch \in Latches
  BY Apart DEF Core, Shape
<1>1. /\ pc[Owner] = "terminate" /\ SameJobs /\ CallWake(Owner, term, term, 1, "terminate")
      /\ latch' = [latch EXCEPT ![term][0] = "SET"] /\ term \in Workers
  BY DEF SetTerminate, queues, control, SameJobs, Core, Shape, Workers
<1>2. /\ \A u \in Threads \ {Owner} : pc'[u] = pc[u] /\ wake'[u] = wake[u]
      /\ pc'[Owner] = "waking" /\ wake'[Owner].after = "terminate"
  BY <1>0, <1>1, CallWakeMoves
<1>3. Steady(Owner)
  <2>1. \A C : Held(C)' = Held(C)
    BY <1>1 DEF SameJobs, Held
  <2>2. \A v \in Workers : \A d \in 0 .. MaxDepth :
          latch'[v][d] = IF v = term /\ d = 0 THEN "SET" ELSE latch[v][d]
    BY <1>0, <1>1 DEF Latches
  <2> QED BY <1>1, <1>2, <2>1, <2>2 DEF Steady, SameJobs
<1> QED BY <1>0, <1>1, <1>2, <1>3, PosterSteady DEF SameJobs, AtEnd

\* The pool is dropped when no poster uses it, so nothing is pending.
LEMMA DropPoolJobs ==
  ASSUME Core, JInv, DropPool
  PROVE  JInv'
<1>0. Owner \in Posters /\ Owner \in Threads /\ \A v \in Workers : v \in Threads /\ v # Owner
  BY Apart
<1>1. /\ \A p \in Posters : pc[p] = "ready"
      /\ pc' = [pc EXCEPT ![Owner] = "terminate"]
      /\ UNCHANGED <<injected, deque, bcast, hand, run, depth, latch, wake, pending>>
  BY DEF DropPool, Goto, queues, control
<1>2. pc'[Owner] = "terminate" /\ \A u \in Threads \ {Owner} : pc'[u] = pc[u]
  BY <1>0, <1>1, MovePc
<1>3. /\ \A C : Held(C)' = Held(C)
      /\ \A v \in Workers : pc'[v] = pc[v]
  BY <1>0, <1>1, <1>2 DEF Held
<1>4. HandOK' /\ RunOK' /\ PushUnset'
  BY <1>1, <1>3 DEF JInv, HandOK, RunOK, PushUnset, Proceeding, MyLatch
<1>5. ForksCounted'
  <2>1. \A v \in Workers : \A d : Live(v, d)' <=> Live(v, d)
    BY <1>1, <1>3 DEF Live
  <2> QED BY <1>3, <2>1 DEF JInv, ForksCounted
<1>6. ASSUME NEW p \in Posters
      PROVE  /\ pending'[p] = 0 /\ pc'[p] \in {"ready", "terminate"}
             /\ NotYetPushed(p) = 0 /\ NotYetPushed(p)' = 0
  <2>1. pending'[p] = 0 /\ pc[p] = "ready" /\ p \in Threads
    BY <1>1, Apart DEF JInv, ReadyDone
  <2>2. pc'[p] \in {"ready", "terminate"}
    BY <1>2, <2>1
  <2> QED BY <2>1, <2>2 DEF NotYetPushed
<1>7. PostsCounted'
  BY <1>1, <1>3, <1>6 DEF JInv, PostsCounted
<1>8. ReadyDone' /\ DroppedOK'
  BY <1>6 DEF ReadyDone, DroppedOK, AtEnd
<1>9. Ranked'
  BY <1>1 DEF JInv, Ranked, RankedBy
<1> QED BY <1>4, <1>5, <1>7, <1>8, <1>9 DEF JInv

-----------------------------------------------------------------------------
(***************************************************************************)
(* The steps in which a worker starts, forks or ends a job.                *)
(***************************************************************************)
\* A job that a worker executes is held.
LEMMA HeldRun ==
  ASSUME Core, NEW C, NEW w \in Workers, NEW d \in 0 .. MaxDepth, run[w][d] \in C
  PROVE  Held(C) \in Nat /\ Held(C) >= 1
<1>1. Holders
  BY CoreHolders
<1>2. IsFiniteSet(PlacesIn(C)) /\ Cardinality(PlacesIn(C)) = Held(C) /\ Held(C) \in Nat
  BY <1>1, HeldPlaces
<1>3. <<"run", w, d>> \in Places(run[w][d])
  BY DEF Places
<1>4. PlacesIn(C) # {}
  BY <1>3 DEF PlacesIn
<1>5. Held(C) # 0
  BY <1>2, <1>4, FS_EmptySet
<1> QED BY <1>2, <1>5

\* No thread but w moves.
Alone(w) ==
  /\ \A u \in Threads \ {w} : pc'[u] = pc[u] /\ wake'[u] = wake[u]
  /\ \A v \in Workers \ {w} : hand'[v] = hand[v] /\ run'[v] = run[v] /\ depth'[v] = depth[v]
  /\ dropped' = dropped

\* What is left to show of such a step.
LEMMA AloneStep ==
  ASSUME Core, JInv, NEW w \in Workers, Alone(w),
         \A v \in Workers \ {w} : /\ latch[v][depth[v]] = "SET" => latch'[v][depth[v]] = "SET"
                                  /\ pc[v] = "push" => latch'[v][depth[v]] # "SET",
         ~Proceeding(w)' /\ hand'[w] = NoJob,
         \A d \in 0 .. MaxDepth :
           run'[w][d] # NoJob <=> d < depth'[w] \/ (d = depth'[w] /\ pc'[w] \in {"run", "finish"}),
         pc'[w] = "push" => latch'[w][depth'[w]] # "SET",
         ForksCounted',
         \A p \in Posters : /\ pending'[p] = Held({p})' + NotYetPushed(p)
                            /\ pc[p] = "ready" \/ dropped => pending'[p] = 0,
         Ranked'
  PROVE  JInv'
<1>0. \A v \in Workers : v \in Threads /\ \A p \in Posters : p \in Threads /\ p # w
  BY Apart
<1>1. ASSUME NEW v \in Workers, v # w
      PROVE  /\ pc'[v] = pc[v] /\ wake'[v] = wake[v] /\ hand'[v] = hand[v] /\ run'[v] = run[v]
             /\ depth'[v] = depth[v]
  BY <1>0, <1>1 DEF Alone
<1>2. HandOK'
  <2>1. ASSUME NEW v \in Workers, v # w
        PROVE  /\ ~Proceeding(v)' => hand'[v] = NoJob
               /\ Proceeding(v)' /\ hand'[v] = NoJob => MyLatch(v)' = "SET"
    BY <1>1, <2>1 DEF JInv, HandOK, Proceeding, MyLatch
  <2> QED BY <2>1 DEF HandOK
<1>3. RunOK'
  BY <1>1 DEF JInv, RunOK
<1>4. PushUnset'
  BY <1>1 DEF PushUnset, MyLatch
<1>5. \A p \in Posters : pc'[p] = pc[p] /\ wake'[p] = wake[p]
  BY <1>0 DEF Alone
<1>6. \A p \in Posters : NotYetPushed(p)' = NotYetPushed(p)
  BY <1>5 DEF NotYetPushed
<1>7. PostsCounted'
  BY <1>6 DEF PostsCounted
<1>8. ReadyDone'
  BY <1>5 DEF ReadyDone
<1>9. DroppedOK'
  <2>1. \A p \in Posters : AtEnd(p)' <=> AtEnd(p)
    BY <1>5 DEF AtEnd
  <2>2. dropped' = dropped BY DEF Alone
  <2> QED BY <2>1, <2>2 DEF JInv, DroppedOK
<1> QED BY <1>2, <1>3, <1>4, <1>7, <1>8, <1>9 DEF JInv

\* Jobs that no wait is inside of do not matter to the ranks.
LEMMA RankedSame ==
  ASSUME Core, JInv, NEW w \in Workers, Alone(w), depth'[w] \in 0 .. depth[w],
         \A d \in 0 .. MaxDepth : d < depth'[w] => run'[w][d] = run[w][d]
  PROVE  Ranked'
<1>1. PICK rank \in [Workers -> [1 .. MaxDepth -> Nat]] : RankedBy(rank)
  BY DEF JInv, Ranked
<1>2. \A v \in Workers : depth[v] \in 0 .. MaxDepth
  BY DEF Core, Shape
<1>3. ASSUME NEW v \in Workers, NEW d \in 1 .. depth'[v]
      PROVE  d \in 1 .. depth[v] /\ run'[v][d - 1] = run[v][d - 1]
  <2>1. CASE v = w
    BY <1>2, <2>1, SMTT(40)
  <2>2. CASE v # w
    BY <2>2 DEF Alone
  <2> QED BY <2>1, <2>2
<1>4. RankedBy(rank)'
  BY <1>1, <1>3 DEF RankedBy
<1> QED BY <1>4 DEF Ranked

\* The posts are counted when no poster's job starts or ends.
LEMMA PostsSame ==
  ASSUME JInv, pending' = pending, \A p \in Posters : Held({p})' = Held({p})
  PROVE  \A p \in Posters : /\ pending'[p] = Held({p})' + NotYetPushed(p)
                            /\ pc[p] = "ready" \/ dropped => pending'[p] = 0
  BY DEF JInv, PostsCounted, ReadyDone, DroppedOK

\* w's wait at its present depth now executes j.
RunGets(w, j) == run' = [run EXCEPT ![w][depth[w]] = j]

\* It changes that entry of run alone.
LEMMA RunWrites ==
  ASSUME Core, NEW w \in Workers, NEW j, RunGets(w, j)
  PROVE  /\ \A v \in Workers \ {w} : run'[v] = run[v]
         /\ \A d \in 0 .. MaxDepth : run'[w][d] = IF d = depth[w] THEN j ELSE run[w][d]
         /\ Writes(run[w], run'[w], depth[w], j) /\ Writes(run, run', w, run'[w])
<1>1. run \in [Workers -> [0 .. MaxDepth -> Jobs \cup {NoJob}]] /\ depth[w] \in 0 .. MaxDepth
  BY DEF Core, Shape
<1>2. /\ DOMAIN run' = Workers /\ \A v \in Workers \ {w} : run'[v] = run[v]
      /\ run'[w] = [run[w] EXCEPT ![depth[w]] = j]
  BY <1>1 DEF RunGets
<1>3. /\ DOMAIN run'[w] = 0 .. MaxDepth
      /\ \A d \in 0 .. MaxDepth : run'[w][d] = IF d = depth[w] THEN j ELSE run[w][d]
  BY <1>1, <1>2
<1> QED BY <1>1, <1>2, <1>3 DEF Writes

\* Executing the job in hand.
LEMMA ExecuteJobs ==
  ASSUME Core, JInv, NEW w \in Workers, Execute(w)
  PROVE  JInv'
<1>0. /\ Holders /\ w \in Threads /\ depth[w] \in 0 .. MaxDepth
      /\ hand \in [Workers -> Jobs \cup {NoJob}] /\ w \in DOMAIN hand
  BY CoreHolders, Apart DEF Core, Shape
<1>1. /\ pc[w] = "proceed" /\ hand[w] # NoJob /\ run' = [run EXCEPT ![w][depth[w]] = hand[w]]
      /\ hand' = [hand EXCEPT ![w] = NoJob] /\ pc' = [pc EXCEPT ![w] = "run"]
      /\ UNCHANGED <<injected, deque, bcast, latch, depth, wake, pending, dropped>>
  BY DEF Execute, Goto, queues, posting
<1>2. pc'[w] = "run" /\ \A u \in Threads \ {w} : pc'[u] = pc[u]
  BY <1>0, <1>1, MovePc
<1>3. hand'[w] = NoJob /\ (\A v \in Workers \ {w} : hand'[v] = hand[v]) /\ Writes(hand, hand', w, NoJob)
  BY <1>0, <1>1, ExceptWrites
<1>4. /\ \A v \in Workers \ {w} : run'[v] = run[v]
      /\ \A d \in 0 .. MaxDepth : run'[w][d] = IF d = depth[w] THEN hand[w] ELSE run[w][d]
      /\ Writes(run[w], run'[w], depth[w], hand[w]) /\ Writes(run, run', w, run'[w])
  <2>1. RunGets(w, hand[w]) BY <1>1 DEF RunGets
  <2> QED BY <2>1, RunWrites
<1>5. run[w][depth[w]] = NoJob
  BY <1>0, <1>1 DEF JInv, RunOK
<1>6. ASSUME NEW C, NoJob \notin C PROVE Held(C)' = Held(C)
  BY <1>0, <1>1, <1>3, <1>4, <1>5, <1>6, StartRun
<1>7. Alone(w)
  BY <1>1, <1>2, <1>3, <1>4 DEF Alone
<1>8. ForksCounted'
  <2>1. ASSUME NEW v \in Workers, NEW d \in 1 .. MaxDepth
        PROVE  Held(Slot(v, d))' = Held(Slot(v, d)) /\ (Live(v, d)' <=> Live(v, d))
    <3>1. Held(Slot(v, d))' = Held(Slot(v, d))
      BY <1>6, SlotFacts
    <3>2. pc'[v] = "push" <=> pc[v] = "push"
      BY <1>1, <1>2, Apart
    <3> QED BY <1>1, <3>1, <3>2 DEF Live
  <2> QED BY <2>1 DEF JInv, ForksCounted
<1>9. \A d \in 0 .. MaxDepth :
        run'[w][d] # NoJob <=> d < depth'[w] \/ (d = depth'[w] /\ pc'[w] \in {"run", "finish"})
  BY <1>0, <1>1, <1>2, <1>4 DEF JInv, RunOK
<1>10. Ranked'
  BY <1>0, <1>1, <1>4, <1>7, RankedSame
<1>11. \A p \in Posters : /\ pending'[p] = Held({p})' + NotYetPushed(p)
                          /\ pc[p] = "ready" \/ dropped => pending'[p] = 0
  BY <1>1, <1>6, SlotFacts, PostsSame
<1>12. ~Proceeding(w)' /\ pc'[w] # "push"
  BY <1>2 DEF Proceeding
<1>13. \A v \in Workers \ {w} : /\ latch[v][depth[v]] = "SET" => latch'[v][depth[v]] = "SET"
                                /\ pc[v] = "push" => latch'[v][depth[v]] # "SET"
  BY <1>1 DEF JInv, PushUnset, MyLatch
<1> QED BY <1>3, <1>7, <1>8, <1>9, <1>10, <1>11, <1>12, <1>13, AloneStep

\* Returning from a wait: the latch is set, so its job has ended.
LEMMA ReturnJobs ==
  ASSUME Core, JInv, NEW w \in Workers, Return(w)
  PROVE  JInv'
<1>0. w \in Threads /\ depth \in [Workers -> 0 .. MaxDepth] /\ depth[w] \in 0 .. MaxDepth
  BY Apart DEF Core, Shape
<1>1. /\ pc[w] = "proceed" /\ hand[w] = NoJob
      /\ UNCHANGED <<injected, deque, bcast, hand, run, latch, wake, pending, dropped>>
  BY DEF Return, Goto, queues, posting
<1>2. MyLatch(w) = "SET"
  BY <1>1 DEF JInv, HandOK, Proceeding
<1>3. CASE depth[w] = 0
  <2>1. pc' = [pc EXCEPT ![w] = "stopped"] /\ depth' = depth
    BY <1>0, <1>3 DEF Return, Goto
  <2>2. pc'[w] = "stopped" /\ \A u \in Threads \ {w} : pc'[u] = pc[u]
    BY <1>0, <2>1, MovePc
  <2>3. SameJobs /\ latch' = latch /\ \A u \in Threads \ {w} : pc'[u] = pc[u] /\ wake'[u] = wake[u]
    BY <1>1, <2>1, <2>2 DEF SameJobs
  <2>4. Steady(w)
    BY <2>3, MovesOnly
  <2>5. ~Proceeding(w)' /\ hand'[w] = NoJob
    BY <1>1, <2>2 DEF Proceeding
  <2> QED BY <1>1, <2>2, <2>4, <2>5, WorkerSteady
<1>4. CASE depth[w] > 0
  <2>1. pc' = [pc EXCEPT ![w] = "finish"] /\ depth' = [depth EXCEPT ![w] = depth[w] - 1]
    BY <1>0, <1>4 DEF Return, Goto
  <2>2. pc'[w] = "finish" /\ \A u \in Threads \ {w} : pc'[u] = pc[u]
    BY <1>0, <2>1, MovePc
  <2>3. /\ depth'[w] = depth[w] - 1 /\ depth'[w] \in 0 .. depth[w]
        /\ \A v \in Workers \ {w} : depth'[v] = depth[v]
    BY <1>0, <1>4, <2>1
  <2>4. Alone(w)
    BY <1>1, <2>2, <2>3 DEF Alone
  <2>5. \A C : Held(C)' = Held(C)
    BY <1>1 DEF Held
  <2>6. ForksCounted'
    <3>1. ASSUME NEW v \in Workers, NEW d \in 1 .. MaxDepth
          PROVE  Live(v, d)' <=> Live(v, d)
      <4>1. CASE v = w
        <5>1. latch[w][depth[w]] = "SET" BY <1>2 DEF MyLatch
        <5>2. d <= depth[w] - 1 \/ d = depth[w] <=> d <= depth[w] BY <1>0
        <5>3. pc[w] # "push" /\ pc'[w] # "push" BY <1>1, <2>2
        <5> QED BY <1>1, <2>3, <4>1, <5>1, <5>2, <5>3 DEF Live
      <4>2. CASE v # w
        <5>1. pc'[v] = pc[v] /\ depth'[v] = depth[v]
          BY <2>2, <2>3, <4>2, Apart
        <5> QED BY <1>1, <5>1 DEF Live
      <4> QED BY <4>1, <4>2
    <3> QED BY <2>5, <3>1 DEF JInv, ForksCounted
  <2>7. \A d \in 0 .. MaxDepth :
          run'[w][d] # NoJob <=> d < depth'[w] \/ (d = depth'[w] /\ pc'[w] \in {"run", "finish"})
    <3>1. \A d \in 0 .. MaxDepth : run[w][d] # NoJob <=> d < depth[w]
      BY <1>1 DEF JInv, RunOK
    <3> QED BY <1>0, <1>1, <2>2, <2>3, <3>1
  <2>8. Ranked'
    BY <1>1, <2>3, <2>4, RankedSame
  <2>9. \A p \in Posters : /\ pending'[p] = Held({p})' + NotYetPushed(p)
                           /\ pc[p] = "ready" \/ dropped => pending'[p] = 0
    BY <1>1, <2>5, PostsSame
  <2>10. ~Proceeding(w)' /\ hand'[w] = NoJob /\ pc'[w] # "push"
    BY <1>1, <2>2 DEF Proceeding
  <2>11. \A v \in Workers \ {w} : /\ latch[v][depth[v]] = "SET" => latch'[v][depth[v]] = "SET"
                                  /\ pc[v] = "push" => latch'[v][depth[v]] # "SET"
    BY <1>1 DEF JInv, PushUnset, MyLatch
  <2> QED BY <2>4, <2>6, <2>7, <2>8, <2>9, <2>10, <2>11, AloneStep
<1> QED BY <1>0, <1>3, <1>4

\* A job forks: w opens a wait for a job that it has yet to push.
LEMMA ForkJobsCounted ==
  ASSUME Core, JInv, NEW w \in Workers, Fork(w)
  PROVE  JInv'
<1>0. /\ w \in Threads /\ depth \in [Workers -> 0 .. MaxDepth] /\ latch \in Latches
      /\ depth[w] \in 0 .. MaxDepth /\ \A v \in Workers : depth[v] \in 0 .. MaxDepth
      /\ run \in [Workers -> [0 .. MaxDepth -> Jobs \cup {NoJob}]]
  BY Apart DEF Core, Shape
<1>e. PICK e \in 1 .. MaxDepth : e = depth[w] + 1
  <2>1. depth[w] + 1 \in 1 .. MaxDepth
    BY <1>0 DEF Fork
  <2> QED BY <2>1
<1>1. /\ pc[w] = "run" /\ depth[w] < MaxDepth /\ depth' = [depth EXCEPT ![w] = e]
      /\ latch' = [latch EXCEPT ![w][e] = "UNSET"] /\ pc' = [pc EXCEPT ![w] = "push"]
      /\ UNCHANGED <<injected, deque, bcast, hand, run, wake, pending, dropped>>
  BY <1>e DEF Fork, Goto, queues
<1>2. pc'[w] = "push" /\ \A u \in Threads \ {w} : pc'[u] = pc[u]
  BY <1>0, <1>1, MovePc
<1>3. /\ e \in 1 .. MaxDepth /\ depth'[w] = e /\ \A v \in Workers \ {w} : depth'[v] = depth[v]
      /\ \A v \in Workers : \A d \in 0 .. MaxDepth :
           latch'[v][d] = IF v = w /\ d = e THEN "UNSET" ELSE latch[v][d]
  BY <1>0, <1>e, <1>1 DEF Latches
<1>4. Alone(w)
  BY <1>1, <1>2, <1>3 DEF Alone
<1>5. \A C : Held(C)' = Held(C)
  BY <1>1 DEF Held
<1>6. ~Live(w, e) /\ ~Live(w, e)'
  BY <1>0, <1>e, <1>2, <1>3 DEF Live
<1>7. ForksCounted'
  <2>1. ASSUME NEW v \in Workers, NEW d \in 1 .. MaxDepth, ~(v = w /\ d = e)
        PROVE  Live(v, d)' <=> Live(v, d)
    <3>1. latch'[v][d] = latch[v][d]
      BY <1>3, <2>1
    <3>2. CASE v = w
      <4>1. d <= depth[w] <=> d <= e BY <1>0, <1>e, <2>1, <3>2
      <4>2. pc[w] # "push" BY <1>1
      <4> QED BY <1>3, <2>1, <3>1, <3>2, <4>1, <4>2 DEF Live
    <3>3. CASE v # w
      <4>1. pc'[v] = pc[v] /\ depth'[v] = depth[v]
        BY <1>2, <1>3, <3>3, Apart
      <4> QED BY <3>1, <4>1 DEF Live
    <3> QED BY <3>2, <3>3
  <2>2. ASSUME NEW v \in Workers, NEW d \in 1 .. MaxDepth
        PROVE  Live(v, d)' <=> Live(v, d)
    BY <1>6, <2>1
  <2> QED BY <1>5, <2>2 DEF JInv, ForksCounted
<1>8. \A d \in 0 .. MaxDepth :
        run'[w][d] # NoJob <=> d < depth'[w] \/ (d = depth'[w] /\ pc'[w] \in {"run", "finish"})
  <2>1. \A d \in 0 .. MaxDepth : run[w][d] # NoJob <=> d < depth[w] \/ d = depth[w]
    BY <1>1 DEF JInv, RunOK
  <2> QED BY <1>0, <1>e, <1>1, <1>2, <1>3, <2>1
<1>9. Ranked'
  <2>1. PICK rank \in [Workers -> [1 .. MaxDepth -> Nat]] : RankedBy(rank)
    BY DEF JInv, Ranked
  <2> DEFINE j == run[w][depth[w]]
  <2>2. \A i \in ForkJobs : i.owner \in Workers /\ i.depth \in 1 .. MaxDepth
    BY DEF ForkJobs
  <2>3. PICK x \in Nat : j \in ForkJobs => x = rank[j.owner][j.depth] + 1
    <3>1. CASE j \in ForkJobs
      <4>1. rank[j.owner][j.depth] \in Nat BY <2>1, <2>2, <3>1
      <4>2. rank[j.owner][j.depth] + 1 \in Nat BY <4>1
      <4> WITNESS rank[j.owner][j.depth] + 1 \in Nat
      <4> QED OBVIOUS
    <3>2. CASE j \notin ForkJobs
      BY <3>2
    <3> QED BY <3>1, <3>2
  <2>4. PICK new \in [Workers -> [1 .. MaxDepth -> Nat]] :
          \A v \in Workers : \A d \in 1 .. MaxDepth : new[v][d] = IF v = w /\ d = e THEN x ELSE rank[v][d]
    <3>1. [v \in Workers |-> [d \in 1 .. MaxDepth |-> IF v = w /\ d = e THEN x ELSE rank[v][d]]]
            \in [Workers -> [1 .. MaxDepth -> Nat]]
      BY <2>1, <2>3
    <3> QED BY <3>1
  <2>5. Held(Slot(w, e)) = 0
    BY <1>3, <1>6 DEF JInv, ForksCounted
  <2>6. ASSUME NEW v \in Workers, NEW d \in 0 .. MaxDepth, run[v][d] \in ForkJobs
        PROVE  ~(run[v][d].owner = w /\ run[v][d].depth = e)
    <3>1. run[v][d] \notin Slot(w, e)
      BY <2>5, HeldRun
    <3> QED BY <2>6, <3>1 DEF Slot
  <2>7. ASSUME NEW v \in Workers, NEW d \in 1 .. depth'[v], run[v][d - 1] \in ForkJobs
        PROVE  new[run[v][d - 1].owner][run[v][d - 1].depth] < new[v][d]
    <3> DEFINE i == run[v][d - 1]
    <3>1. d \in 1 .. MaxDepth /\ d - 1 \in 0 .. MaxDepth /\ i \in ForkJobs
      <4>1. depth'[v] \in 0 .. MaxDepth
        <5>1. CASE v = w BY <1>e, <1>3, <5>1
        <5>2. CASE v # w BY <1>0, <1>3, <5>2
        <5> QED BY <5>1, <5>2
      <4> QED BY <2>7, <4>1
    <3>2. new[i.owner][i.depth] = rank[i.owner][i.depth] /\ rank[i.owner][i.depth] \in Nat
      <4>1. ~(i.owner = w /\ i.depth = e) BY <2>6, <3>1
      <4>2. i.owner \in Workers /\ i.depth \in 1 .. MaxDepth BY <2>2, <3>1
      <4> HIDE DEF i
      <4> QED BY <2>1, <2>4, <4>1, <4>2
    <3>3. CASE v = w /\ d = e
      <4>0. i = j
        BY <1>0, <1>e, <3>3
      <4>1. new[v][d] = x
        BY <2>4, <3>1, <3>3
      <4>2. x = rank[i.owner][i.depth] + 1
        BY <2>3, <3>1, <4>0
      <4> HIDE DEF i
      <4>3. new[i.owner][i.depth] < new[v][d]
        BY <3>2, <4>1, <4>2
      <4> QED BY <4>3 DEF i
    <3>4. CASE ~(v = w /\ d = e)
      <4>1. d \in 1 .. depth[v]
        <5>1. CASE v = w
          <6>1. d \in 1 .. e /\ d # e BY <1>3, <2>7, <3>4, <5>1
          <6> QED BY <1>0, <1>e, <5>1, <6>1
        <5>2. CASE v # w BY <1>3, <2>7, <5>2
        <5> QED BY <5>1, <5>2
      <4>2. new[v][d] = rank[v][d]
        BY <2>4, <3>1, <3>4
      <4>3. rank[i.owner][i.depth] < rank[v][d]
        BY <2>1, <3>1, <4>1 DEF RankedBy
      <4> HIDE DEF i
      <4>4. new[i.owner][i.depth] < new[v][d]
        BY <3>2, <4>2, <4>3
      <4> QED BY <4>4 DEF i
    <3> QED BY <3>3, <3>4
  <2>8. RankedBy(new)'
    <3>1. run' = run BY <1>1
    <3> QED BY <2>7, <3>1 DEF RankedBy
  <2> QED BY <2>4, <2>8 DEF Ranked
<1>10. \A p \in Posters : /\ pending'[p] = Held({p})' + NotYetPushed(p)
                          /\ pc[p] = "ready" \/ dropped => pending'[p] = 0
  BY <1>1, <1>5, PostsSame
<1>11. ~Proceeding(w)' /\ hand'[w] = NoJob
  BY <1>1, <1>2 DEF JInv, HandOK, Proceeding
<1>12. \A v \in Workers \ {w} : latch'[v][depth[v]] = latch[v][depth[v]]
  BY <1>0, <1>3
<1>13. \A v \in Workers \ {w} : pc[v] = "push" => latch[v][depth[v]] # "SET"
  BY DEF JInv, PushUnset, MyLatch
<1>14. latch'[w][depth'[w]] # "SET"
  BY <1>3
<1> QED BY <1>4, <1>7, <1>8, <1>9, <1>10, <1>11, <1>12, <1>13, <1>14, AloneStep

\* The forked job is pushed onto its worker's deque.
LEMMA PushJobs ==
  ASSUME Core, JInv, NEW w \in Workers, NEW kind \in {"spin", "count"}, Push(w, kind)
  PROVE  JInv'
<1>0. /\ Holders /\ w \in Threads /\ w \in DOMAIN deque /\ depth[w] \in 0 .. MaxDepth
  BY CoreHolders, Apart DEF Core, Shape
<1>e. PICK e \in 1 .. MaxDepth : e = depth[w]
  BY <1>0 DEF Push, Core, PushOK
<1>j. PICK j \in ForkJobs : j = [owner |-> w, depth |-> depth[w], kind |-> kind]
  BY <1>e DEF ForkJobs
<1>1. /\ pc[w] = "push" /\ deque' = [deque EXCEPT ![w] = Append(deque[w], j)]
      /\ pc' = [pc EXCEPT ![w] = "new_jobs"]
      /\ UNCHANGED <<injected, bcast, hand, run, depth, latch, wake, pending, dropped>>
  BY <1>j DEF Push, Goto, control, posting
<1>2. pc'[w] = "new_jobs" /\ \A u \in Threads \ {w} : pc'[u] = pc[u]
  BY <1>0, <1>1, MovePc
<1>3. Writes(deque, deque', w, Append(deque[w], j))
  BY <1>0, <1>1, ExceptWrites
<1>4. \A C : Held(C)' = Held(C) + One(j, C)
  BY <1>0, <1>1, <1>3, PushDeque
<1>5. Alone(w)
  BY <1>1, <1>2 DEF Alone
<1>6. ~Live(w, e) /\ Live(w, e)'
  <2>1. latch[w][e] # "SET"
    BY <1>1, <1>e DEF JInv, PushUnset, MyLatch
  <2>2. ~Live(w, e)
    BY <1>1, <1>e DEF Live
  <2>3. Live(w, e)'
    BY <1>1, <1>2, <1>e, <2>1 DEF Live
  <2> QED BY <2>2, <2>3
<1>7. ForksCounted'
  <2>1. ASSUME NEW v \in Workers, NEW d \in 1 .. MaxDepth
        PROVE  Held(Slot(v, d))' = IF Live(v, d)' THEN 1 ELSE 0
    <3>1. Held(Slot(v, d)) = IF Live(v, d) THEN 1 ELSE 0
      BY DEF JInv, ForksCounted
    <3>2. Held(Slot(v, d))' = Held(Slot(v, d)) + IF v = w /\ d = e THEN 1 ELSE 0
      <4>1. j.owner = w /\ j.depth = e BY <1>e, <1>j
      <4>2. One(j, Slot(v, d)) = IF v = w /\ d = e THEN 1 ELSE 0
        BY <4>1, SlotFacts
      <4> QED BY <1>4, <4>2
    <3>3. CASE v = w /\ d = e
      BY <1>6, <3>1, <3>2, <3>3
    <3>4. CASE v = w /\ d # e
      <4>1. Live(v, d)' <=> Live(v, d)
        BY <1>1, <1>2, <1>e, <3>4 DEF Live
      <4> QED BY <3>1, <3>2, <3>4, <4>1
    <3>5. CASE v # w
      <4>1. pc'[v] = pc[v]
        BY <1>2, <3>5, Apart
      <4>2. Live(v, d)' <=> Live(v, d)
        BY <1>1, <4>1 DEF Live
      <4> QED BY <3>1, <3>2, <3>5, <4>2
    <3> QED BY <3>3, <3>4, <3>5
  <2> QED BY <2>1 DEF ForksCounted
<1>8. \A d \in 0 .. MaxDepth :
        run'[w][d] # NoJob <=> d < depth'[w] \/ (d = depth'[w] /\ pc'[w] \in {"run", "finish"})
  BY <1>1, <1>2 DEF JInv, RunOK
<1>9. Ranked'
  BY <1>0, <1>1, <1>5, RankedSame
<1>10. \A p \in Posters : /\ pending'[p] = Held({p})' + NotYetPushed(p)
                          /\ pc[p] = "ready" \/ dropped => pending'[p] = 0
  <2>1. \A p \in Posters : Held({p})' = Held({p})
    <3>1. ASSUME NEW p \in Posters PROVE Held({p})' = Held({p})
      <4>1. Held({p}) \in Nat BY <1>0, HeldPlaces
      <4>2. One(j, {p}) = 0 BY SlotFacts
      <4> QED BY <1>4, <4>1, <4>2
    <3> QED BY <3>1
  <2> QED BY <1>1, <2>1, PostsSame
<1>11. ~Proceeding(w)' /\ hand'[w] = NoJob /\ pc'[w] # "push"
  BY <1>1, <1>2 DEF JInv, HandOK, Proceeding
<1>12. \A v \in Workers \ {w} : /\ latch[v][depth[v]] = "SET" => latch'[v][depth[v]] = "SET"
                                /\ pc[v] = "push" => latch'[v][depth[v]] # "SET"
  BY <1>1 DEF JInv, PushUnset, MyLatch
<1> QED BY <1>5, <1>7, <1>8, <1>9, <1>10, <1>11, <1>12, AloneStep

\* A posted job ends and takes one off what its poster waits for.
LEMMA SetLockLatchJobs ==
  ASSUME Core, JInv, NEW w \in Workers, SetLockLatch(w)
  PROVE  JInv'
<1>0. /\ Holders /\ w \in Threads /\ depth[w] \in 0 .. MaxDepth /\ pending \in [Posters -> Int]
  BY CoreHolders, Apart DEF Core, Shape
<1>p. PICK p \in Posters : p = run[w][depth[w]]
  BY DEF SetLockLatch
<1>1. /\ pc[w] \in {"run", "finish"} /\ run' = [run EXCEPT ![w][depth[w]] = NoJob]
      /\ pc' = [pc EXCEPT ![w] = "start_looking"] /\ pending' = [pending EXCEPT ![p] = @ - 1]
      /\ UNCHANGED <<injected, deque, bcast, hand, depth, latch, wake, dropped>>
  BY <1>p DEF SetLockLatch, Goto, queues
<1>2. pc'[w] = "start_looking" /\ \A u \in Threads \ {w} : pc'[u] = pc[u]
  BY <1>0, <1>1, MovePc
<1>3. /\ \A v \in Workers \ {w} : run'[v] = run[v]
      /\ \A d \in 0 .. MaxDepth : run'[w][d] = IF d = depth[w] THEN NoJob ELSE run[w][d]
      /\ Writes(run[w], run'[w], depth[w], NoJob) /\ Writes(run, run', w, run'[w])
  <2>1. RunGets(w, NoJob) BY <1>1 DEF RunGets
  <2> QED BY <2>1, RunWrites
<1>4. ASSUME NEW C, NoJob \notin C PROVE Held(C)' = Held(C) - One(p, C)
  <2>1. Held(C)' = Held(C) - One(run[w][depth[w]], C)
    BY <1>0, <1>1, <1>3, <1>4, EndRun
  <2> QED BY <1>p, <2>1
<1>5. Alone(w)
  BY <1>1, <1>2, <1>3 DEF Alone
<1>6. ForksCounted'
  <2>1. ASSUME NEW v \in Workers, NEW d \in 1 .. MaxDepth
        PROVE  Held(Slot(v, d))' = Held(Slot(v, d)) /\ (Live(v, d)' <=> Live(v, d))
    <3>1. Held(Slot(v, d))' = Held(Slot(v, d))
      <4>1. Held(Slot(v, d)) \in Nat BY <1>0, HeldPlaces
      <4>2. One(p, Slot(v, d)) = 0 /\ NoJob \notin Slot(v, d) BY SlotFacts
      <4> QED BY <1>4, <4>1, <4>2
    <3>2. pc'[v] = "push" <=> pc[v] = "push"
      BY <1>1, <1>2, Apart
    <3> QED BY <1>1, <3>1, <3>2 DEF Live
  <2> QED BY <2>1 DEF JInv, ForksCounted
<1>7. \A d \in 0 .. MaxDepth :
        run'[w][d] # NoJob <=> d < depth'[w] \/ (d = depth'[w] /\ pc'[w] \in {"run", "finish"})
  <2>1. \A d \in 0 .. MaxDepth : run[w][d] # NoJob <=> d < depth[w] \/ d = depth[w]
    BY <1>1 DEF JInv, RunOK
  <2> QED BY <1>0, <1>1, <1>2, <1>3, <2>1
<1>8. Ranked'
  BY <1>0, <1>1, <1>3, <1>5, RankedSame
<1>9. ASSUME NEW q \in Posters
      PROVE  /\ pending'[q] = Held({q})' + NotYetPushed(q)
             /\ pc[q] = "ready" \/ dropped => pending'[q] = 0
  <2>1. /\ pending[q] = Held({q}) + NotYetPushed(q)
        /\ pc[q] = "ready" \/ dropped => pending[q] = 0
    BY DEF JInv, PostsCounted, ReadyDone, DroppedOK
  <2>2. Held({q}) \in Nat /\ NotYetPushed(q) \in Nat
    BY <1>0, HeldPlaces, NotYetNat
  <2>3. Held({q})' = Held({q}) - IF p = q THEN 1 ELSE 0
    <3>1. NoJob \notin {q} /\ One(p, {q}) = IF p = q THEN 1 ELSE 0
      BY SlotFacts
    <3> QED BY <1>4, <3>1
  <2>4. pending'[q] = pending[q] - IF p = q THEN 1 ELSE 0
    BY <1>0, <1>1, <2>1, <2>2
  <2>5. CASE p = q
    <3>1. run[w][depth[w]] \in {q} BY <1>p, <2>5
    <3>2. Held({q}) >= 1
      BY <1>0, <3>1, HeldRun
    <3>3. pending[q] # 0
      BY <2>1, <2>2, <3>2
    <3> QED BY <2>1, <2>2, <2>3, <2>4, <2>5, <3>3
  <2>6. CASE p # q
    BY <2>1, <2>2, <2>3, <2>4, <2>6
  <2> QED BY <2>5, <2>6
<1>10. ~Proceeding(w)' /\ hand'[w] = NoJob /\ pc'[w] # "push"
  BY <1>1, <1>2 DEF JInv, HandOK, Proceeding
<1>11. \A v \in Workers \ {w} : /\ latch[v][depth[v]] = "SET" => latch'[v][depth[v]] = "SET"
                                /\ pc[v] = "push" => latch'[v][depth[v]] # "SET"
  BY <1>1 DEF JInv, PushUnset, MyLatch
<1> QED BY <1>5, <1>6, <1>7, <1>8, <1>9, <1>10, <1>11, AloneStep

\* A forked job ends and sets the latch of its owner's wait.
LEMMA SetCoreLatchJobs ==
  ASSUME Core, JInv, NEW w \in Workers, SetCoreLatch(w)
  PROVE  JInv'
<1>0. /\ Holders /\ w \in Threads /\ depth[w] \in 0 .. MaxDepth /\ latch \in Latches
      /\ \A v \in Workers : depth[v] \in 0 .. MaxDepth
  BY CoreHolders, Apart DEF Core, Shape
<1>j. PICK j \in ForkJobs : j = run[w][depth[w]]
  BY DEF SetCoreLatch
<1>o. PICK o \in Workers : o = j.owner
  BY DEF ForkJobs
<1>e. PICK e \in 1 .. MaxDepth : e = j.depth
  BY DEF ForkJobs
<1>1. /\ pc[w] \in {"run", "finish"} /\ run' = [run EXCEPT ![w][depth[w]] = NoJob]
      /\ latch' = [latch EXCEPT ![o][e] = "SET"]
      /\ \E quota : CallWake(w, o, o, quota, "start_looking")
      /\ UNCHANGED <<injected, deque, bcast, hand, depth, pending, dropped>>
  BY <1>j, <1>o, <1>e DEF SetCoreLatch, queues, posting
<1>2. /\ \A u \in Threads \ {w} : pc'[u] = pc[u] /\ wake'[u] = wake[u]
      /\ pc'[w] \in {"start_looking", "waking"} /\ (pc'[w] = "waking" => wake'[w].after = "start_looking")
  BY <1>0, <1>1, CallWakeMoves
<1>3. /\ \A v \in Workers \ {w} : run'[v] = run[v]
      /\ \A d \in 0 .. MaxDepth : run'[w][d] = IF d = depth[w] THEN NoJob ELSE run[w][d]
      /\ Writes(run[w], run'[w], depth[w], NoJob) /\ Writes(run, run', w, run'[w])
  <2>1. RunGets(w, NoJob) BY <1>1 DEF RunGets
  <2> QED BY <2>1, RunWrites
<1>4. ASSUME NEW C, NoJob \notin C PROVE Held(C)' = Held(C) - One(j, C)
  <2>1. Held(C)' = Held(C) - One(run[w][depth[w]], C)
    BY <1>0, <1>1, <1>3, <1>4, EndRun
  <2> QED BY <1>j, <2>1
<1>5. Alone(w)
  BY <1>1, <1>2, <1>3 DEF Alone
<1>l. \A v \in Workers : \A d \in 0 .. MaxDepth :
        latch'[v][d] = IF v = o /\ d = e THEN "SET" ELSE latch[v][d]
  BY <1>0, <1>1 DEF Latches
<1>6. Held(Slot(o, e)) = 1 /\ Live(o, e) /\ ~Live(o, e)'
  <2>1. run[w][depth[w]] \in Slot(o, e)
    BY <1>j, <1>o, <1>e DEF Slot
  <2>2. Held(Slot(o, e)) >= 1
    BY <1>0, <2>1, HeldRun
  <2>3. Held(Slot(o, e)) = IF Live(o, e) THEN 1 ELSE 0
    BY DEF JInv, ForksCounted
  <2>4. ~Live(o, e)'
    BY <1>l DEF Live
  <2> QED BY <2>2, <2>3, <2>4
<1>7. ForksCounted'
  <2>1. ASSUME NEW v \in Workers, NEW d \in 1 .. MaxDepth
        PROVE  Held(Slot(v, d))' = IF Live(v, d)' THEN 1 ELSE 0
    <3>1. Held(Slot(v, d)) = IF Live(v, d) THEN 1 ELSE 0
      BY DEF JInv, ForksCounted
    <3>2. Held(Slot(v, d))' = Held(Slot(v, d)) - IF v = o /\ d = e THEN 1 ELSE 0
      <4>1. One(j, Slot(v, d)) = IF v = o /\ d = e THEN 1 ELSE 0
        BY <1>o, <1>e, SlotFacts
      <4>2. NoJob \notin Slot(v, d) BY SlotFacts
      <4> QED BY <1>4, <4>1, <4>2
    <3>3. CASE v = o /\ d = e
      BY <1>6, <3>1, <3>2, <3>3
    <3>4. CASE ~(v = o /\ d = e)
      <4>1. latch'[v][d] = latch[v][d] /\ depth'[v] = depth[v]
        BY <1>1, <1>l, <3>4
      <4>2. pc'[v] = "push" <=> pc[v] = "push"
        BY <1>1, <1>2, Apart
      <4>3. Live(v, d)' <=> Live(v, d)
        BY <4>1, <4>2 DEF Live
      <4> QED BY <3>1, <3>2, <3>4, <4>3
    <3> QED BY <3>3, <3>4
  <2> QED BY <2>1 DEF ForksCounted
<1>8. \A d \in 0 .. MaxDepth :
        run'[w][d] # NoJob <=> d < depth'[w] \/ (d = depth'[w] /\ pc'[w] \in {"run", "finish"})
  <2>1. \A d \in 0 .. MaxDepth : run[w][d] # NoJob <=> d < depth[w] \/ d = depth[w]
    BY <1>1 DEF JInv, RunOK
  <2> QED BY <1>0, <1>1, <1>2, <1>3, <2>1
<1>9. Ranked'
  BY <1>0, <1>1, <1>3, <1>5, RankedSame
<1>10. \A p \in Posters : /\ pending'[p] = Held({p})' + NotYetPushed(p)
                          /\ pc[p] = "ready" \/ dropped => pending'[p] = 0
  <2>1. \A p \in Posters : Held({p})' = Held({p})
    <3>1. ASSUME NEW p \in Posters PROVE Held({p})' = Held({p})
      <4>1. Held({p}) \in Nat BY <1>0, HeldPlaces
      <4>2. One(j, {p}) = 0 /\ NoJob \notin {p} BY SlotFacts
      <4> QED BY <1>4, <4>1, <4>2
    <3> QED BY <3>1
  <2> QED BY <1>1, <2>1, PostsSame
<1>11. ~Proceeding(w)' /\ hand'[w] = NoJob /\ pc'[w] # "push"
  BY <1>1, <1>2 DEF JInv, HandOK, Proceeding
<1>12. ASSUME NEW v \in Workers
       PROVE  /\ latch[v][depth[v]] = "SET" => latch'[v][depth[v]] = "SET"
              /\ pc[v] = "push" => latch'[v][depth[v]] # "SET"
  <2>1. latch[v][depth[v]] = "SET" => latch'[v][depth[v]] = "SET"
    BY <1>0, <1>l
  <2>2. ASSUME pc[v] = "push" PROVE latch'[v][depth[v]] # "SET"
    <3>1. ~(v = o /\ depth[v] = e)
      BY <1>6, <2>2 DEF Live
    <3>2. latch'[v][depth[v]] = latch[v][depth[v]]
      BY <1>0, <1>l, <3>1
    <3> QED BY <2>2, <3>2 DEF JInv, PushUnset, MyLatch
  <2> QED BY <2>1, <2>2
<1> QED BY <1>5, <1>7, <1>8, <1>9, <1>10, <1>11, <1>12, AloneStep

-----------------------------------------------------------------------------
(***************************************************************************)
(* The steps in which a poster creates jobs.                               *)
(***************************************************************************)
\* A step of a poster that counts one more of its own jobs as pushed or due.
LEMMA PostStep ==
  ASSUME Core, JInv, NEW p \in Posters, UNCHANGED <<hand, run, depth, latch, dropped>>, ~dropped,
         \A u \in Threads \ {p} : pc'[u] = pc[u] /\ wake'[u] = wake[u], pc'[p] # "ready",
         \A v \in Workers : \A d \in 1 .. MaxDepth : Held(Slot(v, d))' = Held(Slot(v, d)),
         \A q \in Posters \ {p} : Held({q})' = Held({q}) /\ pending'[q] = pending[q],
         pending'[p] = Held({p})' + NotYetPushed(p)'
  PROVE  JInv'
<1>0. /\ \A v \in Workers : v \in Threads /\ v # p
      /\ \A q \in Posters : q \in Threads
  BY Apart
<1>1. \A v \in Workers : pc'[v] = pc[v] /\ wake'[v] = wake[v]
  BY <1>0
<1>2. HandOK' /\ RunOK' /\ PushUnset'
  BY <1>1 DEF JInv, HandOK, RunOK, PushUnset, Proceeding, MyLatch
<1>3. ForksCounted'
  <2>1. \A v \in Workers : \A d : Live(v, d)' <=> Live(v, d)
    BY <1>1 DEF Live
  <2> QED BY <2>1 DEF JInv, ForksCounted
<1>4. \A q \in Posters \ {p} : NotYetPushed(q)' = NotYetPushed(q) /\ pc'[q] = pc[q]
  BY <1>0 DEF NotYetPushed
<1>5. PostsCounted'
  BY <1>4 DEF JInv, PostsCounted
<1>6. ReadyDone'
  BY <1>4 DEF JInv, ReadyDone
<1>7. DroppedOK'
  BY DEF DroppedOK
<1>8. Ranked'
  BY DEF JInv, Ranked, RankedBy
<1> QED BY <1>2, <1>3, <1>5, <1>6, <1>7, <1>8 DEF JInv

\* One more job of p is held and none of anyone else's.
LEMMA OneMore ==
  ASSUME Core, NEW p \in Posters, \A C : Held(C)' = Held(C) + One(p, C)
  PROVE  /\ \A v \in Workers : \A d \in 1 .. MaxDepth : Held(Slot(v, d))' = Held(Slot(v, d))
         /\ \A q \in Posters \ {p} : Held({q})' = Held({q})
         /\ Held({p})' = Held({p}) + 1 /\ Held({p}) \in Nat
<1>1. \A C : Held(C) \in Nat
  BY CoreHolders, HeldPlaces
<1>2. ASSUME NEW v \in Workers, NEW d \in 1 .. MaxDepth PROVE Held(Slot(v, d))' = Held(Slot(v, d))
  <2>1. One(p, Slot(v, d)) = 0 BY SlotFacts
  <2> QED BY <1>1, <2>1
<1>3. ASSUME NEW q \in Posters, q # p PROVE Held({q})' = Held({q})
  <2>1. One(p, {q}) = 0 BY <1>3, SlotFacts
  <2> QED BY <1>1, <2>1
<1>4. One(p, {p}) = 1
  BY SlotFacts
<1> QED BY <1>1, <1>2, <1>3, <1>4

\* Starting a post.
LEMMA StartPostJobs ==
  ASSUME Core, JInv, NEW p \in Posters, StartInject(p) \/ StartBroadcast(p)
  PROVE  JInv'
<1>0. /\ Holders /\ p \in Threads /\ wake \in [Threads -> Walks] /\ pending \in [Posters -> Int]
  BY CoreHolders, Apart DEF Core, Shape
<1>1. /\ pc[p] = "ready" /\ ~dropped
      /\ UNCHANGED <<injected, deque, bcast, hand, run, depth, latch, dropped>>
  BY DEF StartInject, StartBroadcast, queues, control
<1>2. \A C : Held(C)' = Held(C)
  BY <1>1 DEF Held
<1>3. Held({p}) = 0
  <2>1. pending[p] = 0 /\ pending[p] = Held({p}) + NotYetPushed(p)
    BY <1>1 DEF JInv, ReadyDone, PostsCounted
  <2>2. Held({p}) \in Nat /\ NotYetPushed(p) \in Nat
    BY <1>0, HeldPlaces, NotYetNat
  <2> QED BY <2>1, <2>2
<1>4. CASE StartInject(p)
  <2>1. /\ pc' = [pc EXCEPT ![p] = "inject"] /\ wake' = wake /\ pending' = [pending EXCEPT ![p] = 1]
    BY <1>4 DEF StartInject, Goto
  <2>2. pc'[p] = "inject" /\ \A u \in Threads \ {p} : pc'[u] = pc[u]
    BY <1>0, <2>1, MovePc
  <2>3. NotYetPushed(p)' = 1
    BY <2>2 DEF NotYetPushed
  <2>4. pending'[p] = 1 /\ \A q \in Posters \ {p} : pending'[q] = pending[q]
    BY <1>0, <2>1
  <2>5. pending'[p] = Held({p})' + NotYetPushed(p)'
    BY <1>2, <1>3, <2>3, <2>4
  <2> QED BY <1>1, <1>2, <2>1, <2>2, <2>4, <2>5, PostStep
<1>5. CASE StartBroadcast(p)
  <2>1. /\ pc' = [pc EXCEPT ![p] = "bcast_push"] /\ wake' = [wake EXCEPT ![p].next = 0]
        /\ pending' = [pending EXCEPT ![p] = N]
    BY <1>5 DEF StartBroadcast, Goto
  <2>2. pc'[p] = "bcast_push" /\ \A u \in Threads \ {p} : pc'[u] = pc[u]
    BY <1>0, <2>1, MovePc
  <2>3. wake'[p].next = 0 /\ \A u \in Threads \ {p} : wake'[u] = wake[u]
    BY <1>0, <2>1 DEF Walks
  <2>4. NotYetPushed(p)' = N
    BY <2>2, <2>3 DEF NotYetPushed
  <2>5. pending'[p] = N /\ \A q \in Posters \ {p} : pending'[q] = pending[q]
    BY <1>0, <2>1
  <2>6. pending'[p] = Held({p})' + NotYetPushed(p)'
    BY <1>2, <1>3, <2>4, <2>5
  <2> QED BY <1>1, <1>2, <2>2, <2>3, <2>5, <2>6, PostStep
<1> QED BY <1>4, <1>5

\* Pushing a posted job.
LEMMA PostJobs ==
  ASSUME Core, JInv, NEW p \in Posters, Inject(p) \/ PushBroadcast(p)
  PROVE  JInv'
<1>0. /\ Holders /\ p \in Threads /\ wake \in [Threads -> Walks] /\ pending \in [Posters -> Int]
      /\ wake[p].next \in Workers
  BY CoreHolders, Apart DEF Core, Shape, Walks
<1>1. /\ pc[p] \in {"inject", "bcast_push"}
      /\ UNCHANGED <<deque, hand, run, depth, latch, pending, dropped>>
  BY DEF Inject, PushBroadcast, control, posting
<1>2. ~dropped
  BY <1>1 DEF JInv, DroppedOK, AtEnd
<1>3. pending[p] = Held({p}) + NotYetPushed(p)
  BY DEF JInv, PostsCounted
<1>4. CASE Inject(p)
  <2>1. /\ pc[p] = "inject" /\ pc' = [pc EXCEPT ![p] = "new_jobs"] /\ wake' = wake
        /\ injected' = Append(injected, p) /\ bcast' = bcast
    BY <1>4 DEF Inject, Goto
  <2>2. pc'[p] = "new_jobs" /\ \A u \in Threads \ {p} : pc'[u] = pc[u]
    BY <1>0, <2>1, MovePc
  <2>3. NotYetPushed(p) = 1 /\ NotYetPushed(p)' = 0
    BY <2>1, <2>2 DEF NotYetPushed
  <2>4. \A C : Held(C)' = Held(C) + One(p, C)
    BY <1>0, <1>1, <2>1, PushInjected
  <2>5. /\ \A v \in Workers : \A d \in 1 .. MaxDepth : Held(Slot(v, d))' = Held(Slot(v, d))
        /\ \A q \in Posters \ {p} : Held({q})' = Held({q})
        /\ Held({p})' = Held({p}) + 1 /\ Held({p}) \in Nat
    BY <2>4, OneMore
  <2>6. pending'[p] = Held({p})' + NotYetPushed(p)'
    BY <1>1, <1>3, <2>3, <2>5
  <2> QED BY <1>1, <1>2, <2>1, <2>2, <2>5, <2>6, PostStep
<1>5. CASE PushBroadcast(p)
  <2>i. PICK i \in Workers : i = wake[p].next
    BY <1>0
  <2>1. /\ pc[p] = "bcast_push" /\ bcast' = [bcast EXCEPT ![i] = Append(bcast[i], p)] /\ injected' = injected
        /\ \/ i < N - 1 /\ wake' = [wake EXCEPT ![p].next = i + 1] /\ UNCHANGED pc
           \/ i = N - 1 /\ CallWake(p, 0, N - 1, N, "wait")
    BY <1>5, <2>i DEF PushBroadcast
  <2>2. i \in Int /\ i <= N - 1 /\ i >= 0
    BY DEF Workers
  <2>3. Writes(bcast, bcast', i, Append(bcast[i], p))
    <3>1. i \in DOMAIN bcast BY <1>0 DEF Holders
    <3> QED BY <2>1, <3>1, ExceptWrites
  <2>4. \A C : Held(C)' = Held(C) + One(p, C)
    BY <1>0, <1>1, <2>1, <2>3, PushBcast
  <2>5. /\ \A v \in Workers : \A d \in 1 .. MaxDepth : Held(Slot(v, d))' = Held(Slot(v, d))
        /\ \A q \in Posters \ {p} : Held({q})' = Held({q})
        /\ Held({p})' = Held({p}) + 1 /\ Held({p}) \in Nat
    BY <2>4, OneMore
  <2>6. NotYetPushed(p) = N - i
    BY <2>1, <2>i DEF NotYetPushed
  <2>7. /\ \A u \in Threads \ {p} : pc'[u] = pc[u] /\ wake'[u] = wake[u]
        /\ pc'[p] # "ready" /\ NotYetPushed(p)' = N - (i + 1)
    <3>1. CASE i < N - 1 /\ wake' = [wake EXCEPT ![p].next = i + 1] /\ UNCHANGED pc
      <4>1. wake'[p].next = i + 1 /\ \A u \in Threads \ {p} : wake'[u] = wake[u]
        BY <1>0, <3>1 DEF Walks
      <4> QED BY <2>1, <3>1, <4>1 DEF NotYetPushed
    <3>2. CASE i = N - 1 /\ CallWake(p, 0, N - 1, N, "wait")
      <4>1. pc'[p] = "waking" /\ \A u \in Threads \ {p} : pc'[u] = pc[u] /\ wake'[u] = wake[u]
        BY <1>0, <3>2, CallWakeMoves
      <4>2. NotYetPushed(p)' = 0
        BY <4>1 DEF NotYetPushed
      <4> QED BY <3>2, <4>1, <4>2
    <3> QED BY <2>1, <3>1, <3>2
  <2>8. pending'[p] = Held({p})' + NotYetPushed(p)'
    BY <1>1, <1>3, <2>2, <2>5, <2>6, <2>7
  <2> QED BY <1>1, <1>2, <2>5, <2>7, <2>8, PostStep
<1> QED BY <1>4, <1>5

-----------------------------------------------------------------------------
(***************************************************************************)
(* The invariant of the whole system and what it says of the jobs.         *)
(***************************************************************************)
\* Nothing is held, in hand or running at the start.
LEMMA InitJInv == Init => JInv
<1> SUFFICES ASSUME Init PROVE JInv
  OBVIOUS
<1>0. /\ \A v \in Workers : /\ pc[v] = "wait_until" /\ depth[v] = 0 /\ hand[v] = NoJob
                            /\ \A d \in 0 .. MaxDepth : run[v][d] = NoJob
      /\ \A p \in Posters : pc[p] = "ready" /\ pending[p] = 0
      /\ dropped = FALSE
  BY Apart DEF Init
<1>1. ASSUME NEW C, NoJob \notin C PROVE Held(C) = 0
  <2>1. At(injected, C) = {} /\ At(hand, C) = {}
    BY <1>1 DEF Init, At
  <2>2. \A v \in Workers : At(deque[v], C) = {} /\ At(bcast[v], C) = {} /\ At(run[v], C) = {}
    BY <1>1 DEF Init, At
  <2>3. Each("deque", deque, C) = {} /\ Each("bcast", bcast, C) = {} /\ Each("run", run, C) = {}
    BY <2>2, InEach
  <2>4. Cardinality({}) = 0
    BY FS_EmptySet
  <2>5. /\ Cardinality(At(injected, C)) = 0 /\ Cardinality(At(hand, C)) = 0
        /\ Cardinality(Each("deque", deque, C)) = 0 /\ Cardinality(Each("bcast", bcast, C)) = 0
        /\ Cardinality(Each("run", run, C)) = 0
    BY <2>1, <2>3, <2>4
  <2> QED BY <2>5 DEF Held
<1>2. HandOK /\ RunOK /\ PushUnset
  BY <1>0 DEF HandOK, RunOK, PushUnset, Proceeding
<1>3. ForksCounted
  <2>1. ASSUME NEW v \in Workers, NEW d \in 1 .. MaxDepth PROVE ~Live(v, d) /\ Held(Slot(v, d)) = 0
    BY <1>0, <1>1, SlotFacts DEF Live
  <2> QED BY <2>1 DEF ForksCounted
<1>4. PostsCounted
  <2>1. ASSUME NEW p \in Posters PROVE Held({p}) = 0 /\ NotYetPushed(p) = 0
    BY <1>0, <1>1, SlotFacts DEF NotYetPushed
  <2> QED BY <1>0, <2>1 DEF PostsCounted
<1>5. ReadyDone /\ DroppedOK
  BY <1>0 DEF ReadyDone, DroppedOK
<1>6. Ranked
  <2>1. [v \in Workers |-> [d \in 1 .. MaxDepth |-> 0]] \in [Workers -> [1 .. MaxDepth -> Nat]]
    OBVIOUS
  <2>2. RankedBy([v \in Workers |-> [d \in 1 .. MaxDepth |-> 0]])
    BY <1>0 DEF RankedBy
  <2> QED BY <2>1, <2>2 DEF Ranked
<1> QED BY <1>2, <1>3, <1>4, <1>5, <1>6 DEF JInv

\* Every step keeps the jobs counted.
LEMMA NextJInv == IInv /\ JInv /\ [Next]_vars => JInv'
<1> SUFFICES ASSUME IInv, JInv, [Next]_vars PROVE JInv'
  OBVIOUS
<1>0. TypeOK /\ Core
  BY DEF IInv
<1>1. ASSUME NEW w \in Workers, Worker(w) PROVE JInv'
  <2>1. CASE Search(w)
    BY <1>0, <2>1, SearchJobs
  <2>2. CASE FallingAsleep(w)
    BY <1>0, <2>2, FallingAsleepJobs
  <2>3. CASE Working(w)
    BY <1>0, <2>3, ExecuteJobs, ReturnJobs, ForkJobsCounted, SetLockLatchJobs, SetCoreLatchJobs, PushJobs
    DEF Working
  <2>4. CASE NewJobs(w) \/ WakeThread(w)
    BY <1>0, <2>4, WorkerWakes
  <2> QED BY <1>1, <2>1, <2>2, <2>3, <2>4 DEF Worker
<1>2. ASSUME NEW p \in Posters, Poster(p) PROVE JInv'
  BY <1>0, <1>2, StartPostJobs, PostJobs, PosterWakes DEF Poster
<1>3. CASE DropPool \/ SetTerminate
  BY <1>0, <1>3, DropPoolJobs, SetTerminateJobs
<1>4. CASE UNCHANGED vars
  <2>1. SameJobs /\ UNCHANGED <<pc, latch, wake>>
    BY <1>4 DEF vars, SameJobs
  <2>4. \A C : Held(C)' = Held(C)
    BY <2>1 DEF SameJobs, Held
  <2>5. HandOK' /\ RunOK' /\ PushUnset'
    BY <2>1 DEF SameJobs, JInv, HandOK, RunOK, PushUnset, Proceeding, MyLatch
  <2>6. \A v, d : Live(v, d)' <=> Live(v, d)
    BY <2>1 DEF SameJobs, Live
  <2>7. ForksCounted'
    BY <2>4, <2>6 DEF JInv, ForksCounted
  <2>8. \A p : NotYetPushed(p)' = NotYetPushed(p)
    BY <2>1 DEF NotYetPushed
  <2>9. PostsCounted' /\ ReadyDone' /\ DroppedOK'
    BY <2>1, <2>4, <2>8 DEF SameJobs, JInv, PostsCounted, ReadyDone, DroppedOK, AtEnd
  <2>10. Ranked'
    BY <2>1 DEF SameJobs, JInv, Ranked, RankedBy
  <2> QED BY <2>5, <2>7, <2>9, <2>10 DEF JInv
<1> QED BY <1>1, <1>2, <1>3, <1>4 DEF Next, Done

\* The forked jobs of a wait are counted by the places of Sleep.tla.
LEMMA ForkPlaces ==
  ASSUME NEW w \in Workers, NEW d \in 1 .. MaxDepth
  PROVE  UNION {Places([owner |-> w, depth |-> d, kind |-> k]) : k \in {"spin", "count"}}
           = PlacesIn(Slot(w, d))
<1>1. \A j : j \in Slot(w, d) <=> \E k \in {"spin", "count"} : j = [owner |-> w, depth |-> d, kind |-> k]
  BY DEF Slot, ForkJobs
<1> QED BY <1>1 DEF PlacesIn

\* The invariant implies that every job is where it should be, once.
LEMMA ConservedByJInv == Core /\ JInv => JobsConserved
<1> SUFFICES ASSUME Core, JInv PROVE JobsConserved
  OBVIOUS
<1>0. Holders /\ \A w \in Workers : depth[w] \in 0 .. MaxDepth
  BY CoreHolders DEF Core, Shape
<1>1. ASSUME NEW w \in Workers, NEW d \in 1 .. depth[w]
      PROVE  Cardinality(UNION {Places([owner |-> w, depth |-> d, kind |-> k]) : k \in {"spin", "count"}})
               = IF latch[w][d] = "SET" \/ (d = depth[w] /\ pc[w] = "push") THEN 0 ELSE 1
  <2>1. d \in 1 .. MaxDepth /\ d <= depth[w]
    BY <1>0
  <2>2. Cardinality(PlacesIn(Slot(w, d))) = Held(Slot(w, d))
    BY <1>0, HeldPlaces
  <2>3. Held(Slot(w, d)) = IF Live(w, d) THEN 1 ELSE 0
    BY <2>1 DEF JInv, ForksCounted
  <2>4. Live(w, d) <=> ~(latch[w][d] = "SET" \/ (d = depth[w] /\ pc[w] = "push"))
    BY <2>1 DEF Live
  <2>5. UNION {Places([owner |-> w, depth |-> d, kind |-> k]) : k \in {"spin", "count"}}
          = PlacesIn(Slot(w, d))
    BY <2>1, ForkPlaces
  <2> QED BY <2>2, <2>3, <2>4, <2>5
<1>2. ASSUME NEW p \in Posters
      PROVE  pending[p] = Cardinality(Places(p)) + NotYetPushed(p)
  <2>1. PlacesIn({p}) = Places(p)
    BY DEF PlacesIn
  <2>2. Cardinality(PlacesIn({p})) = Held({p})
    BY <1>0, HeldPlaces
  <2> QED BY <2>1, <2>2 DEF JInv, PostsCounted
<1> QED BY <1>1, <1>2 DEF JobsConserved

\* Every set of natural numbers that is not empty has a least element.
LEMMA NatLeast ==
  ASSUME NEW T, T \subseteq Nat, T # {}
  PROVE  \E x \in T : \A y \in T : x <= y
<1>1. \A x, y \in Nat : y < x => <<y, x>> \in OpToRel(<, Nat)
  BY DEF OpToRel
<1>2. \E R : IsWellFoundedOn(R, Nat) /\ \A x, y \in Nat : y < x => <<y, x>> \in R
  BY <1>1, NatLessThanWellFounded, Zenon
<1>3. PICK R : IsWellFoundedOn(R, Nat) /\ \A x, y \in Nat : y < x => <<y, x>> \in R
  BY <1>2
<1>4. PICK x \in T : \A y \in T : ~(<<y, x>> \in R)
  BY <1>3, WFMin
<1>5. ASSUME NEW y \in T PROVE x <= y
  <2>1. ~(y < x)
    BY <1>3, <1>4, Zenon
  <2> QED BY <2>1
<1> QED BY <1>5

\* With nothing posted left no forked job is left either: the oldest one would
\* have been forked by a posted job.
LEMMA NoneLeftByJInv == Core /\ JInv => NoWorkAfterDrop
<1> SUFFICES ASSUME Core, JInv, dropped, NEW j \in Jobs PROVE Places(j) = {}
  BY DEF NoWorkAfterDrop
<1>0. /\ Holders /\ run \in [Workers -> [0 .. MaxDepth -> Jobs \cup {NoJob}]]
      /\ \A w \in Workers : depth[w] \in 0 .. MaxDepth
  BY CoreHolders DEF Core, Shape
<1>1. ASSUME NEW p \in Posters PROVE Held({p}) = 0
  <2>1. pending[p] = 0 /\ pending[p] = Held({p}) + NotYetPushed(p)
    BY DEF JInv, DroppedOK, PostsCounted
  <2>2. Held({p}) \in Nat /\ NotYetPushed(p) \in Nat
    BY <1>0, HeldPlaces, NotYetNat
  <2> QED BY <2>1, <2>2
<1>2. ASSUME NEW C, j \in C, Held(C) = 0 PROVE Places(j) = {}
  <2>1. PlacesIn(C) = {}
    BY <1>0, <1>2, HeldPlaces, FS_EmptySet
  <2> QED BY <1>2, <2>1 DEF PlacesIn
<1>3. \A w \in Workers : \A d \in 1 .. MaxDepth : ~Live(w, d)
  <2> SUFFICES ASSUME NEW w \in Workers, NEW d \in 1 .. MaxDepth, Live(w, d) PROVE FALSE
    OBVIOUS
  <2>1. PICK rank \in [Workers -> [1 .. MaxDepth -> Nat]] : RankedBy(rank)
    BY DEF JInv, Ranked
  <2> DEFINE T == {n \in Nat : \E v \in Workers : \E e \in 1 .. MaxDepth : Live(v, e) /\ rank[v][e] = n}
  <2>2. rank[w][d] \in T
    BY <2>1
  <2>3. PICK n \in T : \A m \in T : n <= m
    <3>1. T \subseteq Nat /\ T # {} BY <2>2
    <3> HIDE DEF T
    <3> QED BY <3>1, NatLeast
  <2>4. PICK v \in Workers, e \in 1 .. MaxDepth : Live(v, e) /\ rank[v][e] = n
    OBVIOUS
  <2>5. e \in 1 .. depth[v] /\ e - 1 \in 0 .. MaxDepth /\ e - 1 < depth[v]
    BY <1>0, <2>4 DEF Live
  <2>6. run[v][e - 1] # NoJob /\ run[v][e - 1] \in Jobs
    <3>1. run[v][e - 1] # NoJob BY <2>5 DEF JInv, RunOK
    <3>2. run[v] \in [0 .. MaxDepth -> Jobs \cup {NoJob}] BY <1>0
    <3>3. \A k \in 0 .. MaxDepth : run[v][k] \in Jobs \cup {NoJob} BY <3>2
    <3> QED BY <2>5, <3>1, <3>3
  <2>7. run[v][e - 1] \notin Posters
    <3> SUFFICES ASSUME NEW p \in Posters, run[v][e - 1] = p PROVE FALSE
      OBVIOUS
    <3>1. run[v][e - 1] \in {p} OBVIOUS
    <3>2. Held({p}) >= 1
      BY <2>5, <3>1, HeldRun
    <3>3. Held({p}) = 0 BY <1>1
    <3> QED BY <3>2, <3>3
  <2>8. run[v][e - 1] \in ForkJobs
    BY <2>6, <2>7 DEF Jobs
  <2>9. PICK o \in Workers, g \in 1 .. MaxDepth : o = run[v][e - 1].owner /\ g = run[v][e - 1].depth
    BY <2>8 DEF ForkJobs
  <2>10. rank[o][g] < n
    BY <2>1, <2>4, <2>5, <2>8, <2>9 DEF RankedBy
  <2>11. Live(o, g)
    <3>1. run[v][e - 1] \in Slot(o, g) BY <2>8, <2>9 DEF Slot
    <3>2. Held(Slot(o, g)) >= 1 BY <2>5, <3>1, HeldRun
    <3>3. Held(Slot(o, g)) = IF Live(o, g) THEN 1 ELSE 0 BY DEF JInv, ForksCounted
    <3> QED BY <3>2, <3>3
  <2>12. PICK r \in Nat : r = rank[o][g]
    BY <2>1
  <2>13. r \in T
    BY <2>11, <2>12
  <2>14. n \in Nat /\ r < n
    BY <2>10, <2>12
  <2>15. n <= r
    BY <2>3, <2>13
  <2> QED BY ONLY r \in Nat, <2>14, <2>15
<1>4. CASE j \in Posters
  <2>1. j \in {j} /\ Held({j}) = 0 BY <1>1, <1>4
  <2> QED BY <1>2, <2>1
<1>5. CASE j \in ForkJobs
  <2>1. PICK o \in Workers, e \in 1 .. MaxDepth : j \in Slot(o, e)
    BY <1>5 DEF Slot, ForkJobs
  <2>2. Held(Slot(o, e)) = 0
    BY <1>3 DEF JInv, ForksCounted
  <2> QED BY <1>2, <2>1, <2>2
<1> QED BY <1>4, <1>5 DEF Jobs

(***************************************************************************)
(* The counting invariant holds in every reachable state of the sleep      *)
(* protocol, together with the one of SleepProofs.                         *)
(***************************************************************************)
THEOREM JobsInvariant == Spec => [](Core /\ JInv)
<1>1. IInv => Core
  BY DEF IInv
<1> QED BY <1>1, SleepInvariant, InitJInv, NextJInv, PTL DEF Spec

(***************************************************************************)
(* "Each JobRef must be executed exactly once" (job.rs): through pops,     *)
(* steals, broadcasts and nested waits no job is lost and none is in two   *)
(* places, and a latch is set by the end of the one job it was made for.   *)
(***************************************************************************)
THEOREM EachJobOnce == Spec => []JobsConserved
  BY JobsInvariant, ConservedByJInv, PTL

(***************************************************************************)
(* When the ThreadPool is dropped no job is queued, in hand or running, so *)
(* main_loop's debug_assert that a stopping worker's deque is empty holds. *)
(***************************************************************************)
THEOREM NothingLeftAfterDrop == Spec => []NoWorkAfterDrop
  BY JobsInvariant, NoneLeftByJInv, PTL
=============================================================================
