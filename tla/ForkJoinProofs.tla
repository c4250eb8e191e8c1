--------------------------- MODULE ForkJoinProofs ---------------------------
(***************************************************************************)
(* The inductive invariant of ForkJoin.tla and its theorems, on top of     *)
(* ForkJoinCounts: frames outlive the jobs that point into them, panics    *)
(* are reported, a pool stops only when it is idle, and the registry a     *)
(* latch notifies is alive.                                                *)
(*                                                                         *)
(* Results ties what a call stores to who has yet to store it; Shared      *)
(* gives every worker one share of a broadcast; Cloned gives the registry  *)
(* to whoever sets a latch across pools. These three and Cored are kept    *)
(* together, since a latch is set by the one who has stored the result.    *)
(* Pooled, kept on top of them, lets the workers be stopped only at count  *)
(* 0, when nothing is left that could start or wait (ShutQuiet).           *)
(***************************************************************************)
EXTENDS ForkJoinCounts

\* Panics and results.
Resulted(c) ==
  /\ c.kind = "broadcast" => c.result \in [Workers -> Values]
  /\ c.kind # "broadcast" => c.result \in [{0} -> Values]
  /\ \A w \in DOMAIN c.result : c.result[w] = None \/ c.result[w] =< panics
  /\ c.set /\ c.kind # "scope" => \A w \in DOMAIN c.result : c.result[w] # None
  /\ c.seen # {} /\ c.kind # "scope" => c.panic # 0 \/ \E w \in DOMAIN c.result : c.result[w] \notin {0, None}
  /\ c.kind \in {"install", "broadcast"} => c.panic = 0

Reported(c) ==
  /\ IF c.seen = {} THEN c.out = 0 ELSE c.out \in c.seen
  /\ c.kind = "join" /\ c.panic # 0 => c.out = c.panic

CallRes(id) ==
  /\ IF call[id].out = None THEN Resulted(call[id]) ELSE Reported(call[id])
  /\ call[id].panic =< panics /\ 0 \notin call[id].seen
Witnessed(id) ==
  call[id].kind = "scope" /\ call[id].seen # {} /\ call[id].panic = 0 /\ call[id].out = None =>
    \E t \in Threads : \E i \in DOMAIN stack[t] : stack[t][i].id = id /\ stack[t][i].pc = "panicked"
FrameRes(f) ==
  /\ f.kind = "join" => call[f.id].panic = IF f.pc = "recover" THEN f.err ELSE 0
  /\ f.kind \in {"join_b", "install_op"} /\ f.pc = "run" => call[f.id].result[0] = None
  /\ f.kind \in {"join_b", "install_op"} /\ f.pc \in {"set", "core"} => call[f.id].result[0] # None
  /\ f.kind = "join" /\ f.pc = "inline" => call[f.id].result[0] = None
QueueRes ==
  \A q \in Names : \A i \in DOMAIN Queue[q] :
    Queue[q][i].kind \in {"join_b", "install_op"} => call[Queue[q][i].id].result[0] = None
Results ==
  /\ \A id \in 1 .. Len(call) : CallRes(id) /\ Witnessed(id)
  /\ \A t \in Threads : \A i \in DOMAIN stack[t] : FrameRes(stack[t][i])
  /\ QueueRes

\* A worker has its share of a broadcast once: to come, in its queue, or on
\* its stack; after that it has a result.
ToCome(w, id) == \E t \in Threads : \E i \in DOMAIN stack[t] :
  stack[t][i].kind = "broadcast" /\ stack[t][i].id = id /\ w \in stack[t][i].todo
InQueue(w, id, i) == i \in DOMAIN broadcasts[w] /\ broadcasts[w][i].kind = "broadcast_op" /\ broadcasts[w][i].id = id
OnStack(w, id, i) == i \in DOMAIN stack[w] /\ stack[w][i].kind = "broadcast_op" /\ stack[w][i].id = id
                       /\ stack[w][i].pc = "run"
SharedAt(w, id) ==
  /\ call[id].result[w] = None <=>
       ToCome(w, id) \/ (\E i \in DOMAIN broadcasts[w] : InQueue(w, id, i))
         \/ (\E i \in DOMAIN stack[w] : OnStack(w, id, i))
  /\ \A i, j \in DOMAIN broadcasts[w] : InQueue(w, id, i) /\ InQueue(w, id, j) => i = j
  /\ \A i, j \in DOMAIN stack[w] : OnStack(w, id, i) /\ OnStack(w, id, j) => i = j
  /\ \A i \in DOMAIN broadcasts[w] : InQueue(w, id, i) =>
       ~ToCome(w, id) /\ \A j \in DOMAIN stack[w] : ~OnStack(w, id, j)
  /\ \A j \in DOMAIN stack[w] : OnStack(w, id, j) => ~ToCome(w, id)
Shared ==
  \A id \in 1 .. Len(call) : call[id].kind = "broadcast" /\ call[id].out = None =>
    \A w \in Workers : SharedAt(w, id)

\* The workers are stopped once the pool's last reference is gone.
Stopping ==
  \/ \E w \in Workers : terminate[w]
  \/ \E t \in Threads : \E i \in DOMAIN stack[t] : stack[t][i].pc = "stop"
Pooled == Stopping => terminate_count = 0

\* Whoever sets the latch of a thread of another pool holds its registry.
Cloned ==
  CrossCalls \subseteq {"install"} =>
    /\ \A id \in 1 .. Len(call) : call[id].owner \in Foreign => call[id].kind = "install"
    /\ \A t \in Threads : \A i \in DOMAIN stack[t] :
         stack[t][i].pc \in {"core", "notify"} /\ call[stack[t][i].id].owner \in Foreign =>
           t \in clones[call[stack[t][i].id].owner]

-----------------------------------------------------------------------------
(* The setter of a latch that counts is the only one.                        *)
LEMMA Below ==
  ASSUME Struct, NEW t \in Threads, NEW i \in DOMAIN stack[t], i # Len(stack[t])
  PROVE  stack[t][i].pc \in UserPcs \cup WaitPcs \cup {"loop"} /\ stack[t][i].pend = NoJob /\ stack[t][i].todo = {}
<1>1. stack[t] \in Seq(FrameSet) /\ Len(stack[t]) \in Nat /\ DOMAIN stack[t] = 1 .. Len(stack[t])
  BY StackFacts DEF Struct, Shape
<1>2. PICK j : j = i + 1
  OBVIOUS
<1>3. j \in DOMAIN stack[t] /\ j > 1 /\ j - 1 = i
  BY <1>1, <1>2
<1>4. Above(t, stack[t][j], stack[t][j - 1])
  BY <1>3 DEF Struct, Stacked
<1>5. PICK g : g = stack[t][i]
  OBVIOUS
<1>6. FrameOK(g)
  BY <1>5 DEF Struct, Framed
<1>7. g.pend = NoJob /\ g.pc \in UserPcs \cup WaitPcs \cup {"loop"}
  <2>1. Above(t, stack[t][j], g)
    BY <1>3, <1>4, <1>5
  <2>2. g.kind = "client" => g.pc \in UserPcs
    BY <1>6 DEF FrameOK, KindPc, StackJobs, UserPcs
  <2> QED BY <2>1, <2>2 DEF Above
<1> QED BY <1>5, <1>6, <1>7 DEF FrameOK, PendOK

\* Who is about to set a latch is the top of its stack.
LEMMA EndOnTop ==
  ASSUME Struct, NEW t \in Threads, NEW i \in DOMAIN stack[t], stack[t][i].pc \in EndPcs \cup {"terminate", "stop"}
  PROVE  i = Len(stack[t]) /\ stack[t] # <<>> /\ stack[t][i] = Top(t)
<1>1. i = Len(stack[t])
  BY Below DEF EndPcs, UserPcs, WaitPcs
<1>2. stack[t] # <<>>
  OBVIOUS
<1> QED BY <1>1, <1>2, TopFacts

CoreKept ==
  \A id \in 1 .. Len(call) :
    /\ call'[id].kind = call[id].kind
    /\ call[id].count = 0 /\ ~call[id].set => call'[id].count = 0 /\ ~call'[id].set

LEMMA CoredStep ==
  ASSUME Struct, Cored, Stacks, NEW t \in Threads, NEW n, NEW f, Puts(t, n, f), CoreKept,
         f.pc # "core" \/ call'[f.id].kind \notin Counting
  PROVE  Cored'
<1>1. ASSUME NEW u \in Threads, NEW i \in DOMAIN stack'[u], stack'[u][i].pc = "core",
             call'[stack'[u][i].id].kind \in Counting
      PROVE  /\ ~call'[stack'[u][i].id].set /\ call'[stack'[u][i].id].count = 0
             /\ \A v \in Threads : \A j \in DOMAIN stack'[v] :
                  stack'[v][j].pc = "core" /\ stack'[v][j].id = stack'[u][i].id => v = u
  <2>1. ASSUME NEW v \in Threads, NEW j \in DOMAIN stack'[v], stack'[v][j].pc = "core",
               stack'[v][j].id = stack'[u][i].id
        PROVE  j \in DOMAIN stack[v] /\ stack'[v][j] = stack[v][j]
    <3>1. ~(v = t /\ j = n)
      <4>1. stack'[t][n] = f
        BY DEF Puts
      <4> QED BY <1>1, <2>1, <4>1
    <3> QED BY <3>1, PutsElse
  <2>2. i \in DOMAIN stack[u] /\ stack'[u][i] = stack[u][i]
    BY <1>1, <2>1
  <2>3. PICK id : id = stack[u][i].id
    OBVIOUS
  <2>4. id \in 1 .. Len(call)
    <3>1. stack[u][i].pc \in EndPcs \cup {"terminate", "stop"} /\ stack[u][i].pc \in EndPcs
      BY <1>1, <2>2 DEF EndPcs
    <3>2. stack[u] # <<>> /\ stack[u][i] = Top(u)
      BY <2>2, <3>1, EndOnTop
    <3> QED BY <2>3, <3>1, <3>2, EndedFacts
  <2>5. call[id].kind \in Counting
    BY <1>1, <2>2, <2>3, <2>4 DEF CoreKept
  <2>6. /\ ~call[id].set /\ call[id].count = 0
        /\ \A v \in Threads : \A j \in DOMAIN stack[v] : stack[v][j].pc = "core" /\ stack[v][j].id = id => v = u
    BY <1>1, <2>2, <2>3, <2>5 DEF Cored
  <2>7. ~call'[id].set /\ call'[id].count = 0
    BY <2>4, <2>6 DEF CoreKept
  <2> QED BY <2>1, <2>2, <2>3, <2>6, <2>7
<1> QED BY <1>1 DEF Cored

LEMMA AlikeKept ==
  ASSUME \A id \in 1 .. Len(call) : Alike(id)
  PROVE  CoreKept
BY DEF Alike, CoreKept

LEMMA CoredFewer ==
  ASSUME Cored, UNCHANGED call,
         \A u \in Threads : \A i \in DOMAIN stack'[u] : stack'[u][i].pc = "core" =>
           i \in DOMAIN stack[u] /\ stack'[u][i] = stack[u][i]
  PROVE  Cored'
BY DEF Cored

(* Which frame a step writes.                                                *)
LEMMA SetPuts ==
  ASSUME Struct, NEW t \in Threads, stack[t] # <<>>, NEW h \in FrameSet, stack' = SetTop(t, h)
  PROVE  Stacks /\ Puts(t, Len(stack[t]), h) /\ Len(stack[t]) \in DOMAIN stack[t] /\ stack[t][Len(stack[t])] = Top(t)
<1>1. Shape /\ stack \in [Threads -> Seq(FrameSet)]
  BY DEF Struct, Shape
<1> QED BY <1>1, SetTopPuts, TopFacts DEF Stacks

LEMMA WithPcPuts ==
  ASSUME Struct, NEW t \in Threads, stack[t] # <<>>, NEW pc \in AllPcs, NEW e \in Nat, NEW h, h = WithPc(Top(t), pc, e),
         stack' = SetTop(t, h)
  PROVE  /\ Stacks /\ Puts(t, Len(stack[t]), h) /\ Len(stack[t]) \in DOMAIN stack[t] /\ stack[t][Len(stack[t])] = Top(t)
         /\ h.kind = Top(t).kind /\ h.id = Top(t).id /\ h.env = Top(t).env /\ h.pc = pc /\ h.err = e
         /\ h.pend = Top(t).pend /\ h.todo = Top(t).todo /\ h \in FrameSet
<1>1. Top(t) \in FrameSet
  BY TopFacts
<1>2. h \in FrameSet
  BY <1>1 DEF WithPc, FrameSet
<1> QED BY <1>1, <1>2, SetPuts, WithPcFields

LEMMA WithPendPuts ==
  ASSUME Struct, NEW t \in Threads, stack[t] # <<>>, NEW p, NEW T, NEW h \in FrameSet, h = WithPend(Top(t), p, T),
         stack' = SetTop(t, h)
  PROVE  /\ Stacks /\ Puts(t, Len(stack[t]), h) /\ Len(stack[t]) \in DOMAIN stack[t] /\ stack[t][Len(stack[t])] = Top(t)
         /\ h.kind = Top(t).kind /\ h.id = Top(t).id /\ h.env = Top(t).env /\ h.pc = Top(t).pc /\ h.err = Top(t).err
         /\ h.pend = p /\ h.todo = T
<1>1. Top(t) \in FrameSet
  BY TopFacts
<1>2. /\ h.kind = Top(t).kind /\ h.id = Top(t).id /\ h.env = Top(t).env /\ h.pc = Top(t).pc /\ h.err = Top(t).err
      /\ h.pend = p /\ h.todo = T
  BY <1>1 DEF WithPend, FrameSet
<1> QED BY <1>2, SetPuts

LEMMA PoppedPuts ==
  ASSUME Struct, NEW t \in Threads, stack[t] # <<>>, Top(t).kind \in JobKinds \cup {"terminator"}, stack' = PopFrame(t)
  PROVE  \E n, f : /\ n = Len(stack[t]) - 1 /\ Stacks /\ Puts(t, n, f) /\ n \in DOMAIN stack[t] /\ f = stack[t][n]
                   /\ f.pc \in UserPcs \cup WaitPcs \cup {"loop"} /\ f.pend = NoJob /\ f.todo = {}
<1>1. /\ Top(t) = stack[t][Len(stack[t])] /\ Len(stack[t]) \in DOMAIN stack[t] /\ Len(stack[t]) \in Nat
      /\ DOMAIN stack[t] = 1 .. Len(stack[t]) /\ Shape /\ Stacked /\ stack \in [Threads -> Seq(FrameSet)]
  BY TopFacts DEF Struct, Shape
<1>2. PICK m : m = Len(stack[t])
  OBVIOUS
<1>3. m > 1 /\ m - 1 \in DOMAIN stack[t] /\ m \in Nat
  BY <1>1, <1>2, Inner DEF JobKinds, StackJobs
<1>4. Len(stack[t]) > 1
  BY <1>2, <1>3
<1>5. PICK n : n = Len(stack[t]) - 1
  OBVIOUS
<1>6. PICK f : f = stack[t][n]
  OBVIOUS
<1>7. Stacks /\ Puts(t, n, f)
  BY <1>1, <1>4, <1>5, <1>6, PopPuts DEF Stacks
<1>8. n \in DOMAIN stack[t] /\ n # Len(stack[t])
  BY <1>2, <1>3, <1>5
<1>9. f.pc \in UserPcs \cup WaitPcs \cup {"loop"} /\ f.pend = NoJob /\ f.todo = {}
  BY <1>6, <1>8, Below
<1> QED BY <1>5, <1>6, <1>7, <1>8, <1>9

\* A job has set its latch, or a scope's own closure.
Leaves(t, n, f) ==
  /\ Stacks /\ Puts(t, n, f) /\ n \in DOMAIN stack[t] /\ f \in FrameSet /\ Same(f, stack[t][n]) /\ f.todo = {} /\ f.pend = NoJob
  /\ f.pc \in UserPcs \cup WaitPcs \cup {"loop"}
  /\ \/ n = Len(stack[t]) /\ Top(t).kind = "scope" /\ f.pc = "wait" /\ f.kind = "scope"
     \/ n = Len(stack[t]) - 1 /\ f = stack[t][n] /\ Top(t).kind \in JobKinds

LEMMA AfterPuts ==
  ASSUME Struct, NEW t \in Threads, stack[t] # <<>>, Top(t).pc \in EndPcs, stack' = After(t)
  PROVE  \E n, f : Leaves(t, n, f)
<1>1. Top(t) \in FrameSet /\ Top(t).kind \in {"scope"} \cup (JobKinds \ {"spawned"}) /\ Top(t).pend = NoJob /\ Top(t).todo = {}
  BY EndedFacts
<1>2. CASE Top(t).kind = "scope"
  <2>1. PICK h : h = WithPc(Top(t), "wait", 0)
    OBVIOUS
  <2>2. stack' = SetTop(t, h) /\ "wait" \in AllPcs /\ 0 \in Nat
    BY <1>2, <2>1 DEF After, WithPc, AllPcs, WaitPcs
  <2>3. /\ Stacks /\ Puts(t, Len(stack[t]), h) /\ Len(stack[t]) \in DOMAIN stack[t] /\ stack[t][Len(stack[t])] = Top(t)
        /\ h.kind = Top(t).kind /\ h.id = Top(t).id /\ h.env = Top(t).env /\ h.pc = "wait"
        /\ h.pend = Top(t).pend /\ h.todo = Top(t).todo /\ h \in FrameSet
    BY <2>1, <2>2, WithPcPuts
  <2>4. PICK n : n = Len(stack[t])
    OBVIOUS
  <2>5. Leaves(t, n, h)
    BY <1>1, <1>2, <2>3, <2>4 DEF Leaves, Same, WaitPcs
  <2> QED BY <2>5
<1>3. CASE Top(t).kind # "scope"
  <2>1. stack' = PopFrame(t) /\ Top(t).kind \in JobKinds
    BY <1>1, <1>3 DEF After
  <2>2. PICK n, f : /\ n = Len(stack[t]) - 1 /\ Stacks /\ Puts(t, n, f) /\ n \in DOMAIN stack[t] /\ f = stack[t][n]
                    /\ f.pc \in UserPcs \cup WaitPcs \cup {"loop"} /\ f.pend = NoJob /\ f.todo = {}
    BY <2>1, PoppedPuts
  <2>3. f \in FrameSet
    BY <2>2 DEF Stacks
  <2>4. Leaves(t, n, f)
    BY <2>1, <2>2, <2>3 DEF Leaves, Same
  <2> QED BY <2>4
<1> QED BY <1>2, <1>3

LEMMA ExecutePuts ==
  ASSUME Struct, NEW t \in Workers, NEW q, NEW j, NEW d, Executes(t, q, j, d)
  PROVE  \E f : /\ Stacks /\ Puts(t, Len(stack[t]) + 1, f) /\ f \in FrameSet /\ f.kind = j.kind /\ f.id = j.id
                /\ f.pc = "run" /\ f.err = 0 /\ f.pend = NoJob /\ f.todo = {} /\ j \in JobSet /\ JobOK(j)
<1>1. /\ stack[t] # <<>> /\ Top(t).pc \in WaitPcs \cup {"loop"} /\ Top(t).pend = NoJob
      /\ QTake(q, j, d) /\ Execute(t, j) /\ UNCHANGED <<call, panics, started, pool>>
  BY DEF Executes, lifecycle
<1>2. j \in JobSet /\ JobOK(j) /\ QueueStep
  BY <1>1, TakenOK
<1>3. PICK f : f = Frame(j.kind, j.id, j.env, "run")
  OBVIOUS
<1>4. Stacks /\ Puts(t, Len(stack[t]) + 1, f) /\ f \in FrameSet
  BY <1>1, <1>2, <1>3, ExecuteKeeps
<1>5. f.kind = j.kind /\ f.id = j.id /\ f.pc = "run" /\ f.err = 0 /\ f.pend = NoJob /\ f.todo = {}
  BY <1>3 DEF Frame
<1> QED BY <1>2, <1>4, <1>5

-----------------------------------------------------------------------------
(* Steps that leave the results, the latches and the shares of the           *)
(* broadcasts alone.                                                         *)
Plain(id) ==
  /\ call'[id].kind = call[id].kind /\ call'[id].owner = call[id].owner
  /\ call'[id].result = call[id].result /\ call'[id].panic = call[id].panic
  /\ call'[id].seen = call[id].seen /\ call'[id].out = call[id].out
Records(id) == Plain(id) /\ call'[id].set = call[id].set
Carrier(g) == (g.kind = "broadcast" /\ g.todo # {}) \/ (g.kind = "broadcast_op" /\ g.pc = "run")
Carries(t, n, f) ==
  \/ /\ n \in DOMAIN stack[t] /\ f.kind = stack[t][n].kind /\ f.id = stack[t][n].id /\ f.pc = stack[t][n].pc
     /\ f.kind = "broadcast" => f.todo = stack[t][n].todo
     /\ \A i \in DOMAIN stack[t] : i > n => ~Carrier(stack[t][i])
  \/ ~Carrier(f) /\ \A i \in DOMAIN stack[t] : i >= n => ~Carrier(stack[t][i])
QMild ==
  \/ QSame
  \/ \E q, j : QPush(q, j) /\ j \in JobSet /\ j.kind \in {"scope_job", "spawned"}
  \/ \E q, j, d : QTake(q, j, d) /\ j.kind # "broadcast_op"
Soft(t, n, f) ==
  /\ Stacks /\ Puts(t, n, f)
  /\ Len(call') = Len(call) /\ \A id \in 1 .. Len(call) : Records(id)
  /\ CoreKept
  /\ panics \in Nat /\ panics' \in Nat /\ panics =< panics'
  /\ stack[t] = <<>> \/ n > Len(stack[t]) \/ Top(t).pc # "panicked"
  /\ Carries(t, n, f) /\ FrameRes(f)' /\ QMild
Mild(t, n, f) == Soft(t, n, f) /\ f.pc \notin {"core", "notify", "panicked"}

LEMMA ResultedKeeps ==
  ASSUME Shape, NEW id \in 1 .. Len(call), Records(id), CallRes(id), panics \in Nat, panics' \in Nat, panics =< panics'
  PROVE  CallRes(id)'
<1>0. call[id] \in CallSet
  BY DEF Shape
<1>1. call[id].panic \in Nat /\ \A w \in DOMAIN call[id].result : call[id].result[w] \in Values
  BY <1>0 DEF CallSet
<1>2. call[id].panic =< panics /\ 0 \notin call[id].seen
  BY DEF CallRes
<1>3. call'[id].panic =< panics' /\ 0 \notin call'[id].seen
  BY <1>1, <1>2 DEF Records, Plain
<1>4. CASE call[id].out = None
  <2>1. Resulted(call[id])
    BY <1>4 DEF CallRes
  <2>2. \A w \in DOMAIN call[id].result : call[id].result[w] = None \/ call[id].result[w] =< panics'
    <3>1. SUFFICES ASSUME NEW w \in DOMAIN call[id].result, call[id].result[w] # None
                   PROVE  call[id].result[w] =< panics'
      OBVIOUS
    <3>2. call[id].result[w] \in Nat /\ call[id].result[w] =< panics
      BY <1>1, <2>1, <3>1 DEF Resulted, Values
    <3> QED BY <3>2
  <2>3. Resulted(call[id])'
    BY <2>1, <2>2, Zenon DEF Resulted, Records, Plain
  <2> QED BY <1>3, <1>4, <2>3 DEF CallRes, Records, Plain
<1>5. CASE call[id].out # None
  <2>1. Reported(call[id])
    BY <1>5 DEF CallRes
  <2>2. Reported(call[id])'
    BY <2>1 DEF Reported, Records, Plain
  <2> QED BY <1>3, <1>5, <2>2 DEF CallRes, Records, Plain
<1> QED BY <1>4, <1>5

LEMMA WitnessedKeeps ==
  ASSUME Struct, NEW id \in 1 .. Len(call), Plain(id), Witnessed(id), Stacks, NEW t \in Threads, NEW n, NEW f, Puts(t, n, f),
         stack[t] = <<>> \/ n > Len(stack[t]) \/ Top(t).pc # "panicked" \/ Top(t).id # id
  PROVE  Witnessed(id)'
<1>1. SUFFICES ASSUME call'[id].kind = "scope" /\ call'[id].seen # {} /\ call'[id].panic = 0 /\ call'[id].out = None
               PROVE  \E u \in Threads : \E i \in DOMAIN stack'[u] : stack'[u][i].id = id /\ stack'[u][i].pc = "panicked"
  BY DEF Witnessed
<1>2. \E u \in Threads : \E i \in DOMAIN stack[u] : stack[u][i].id = id /\ stack[u][i].pc = "panicked"
  BY <1>1 DEF Witnessed, Plain
<1>3. PICK u \in Threads : \E i \in DOMAIN stack[u] : stack[u][i].id = id /\ stack[u][i].pc = "panicked"
  BY <1>2
<1>4. PICK i \in DOMAIN stack[u] : stack[u][i].id = id /\ stack[u][i].pc = "panicked"
  BY <1>3
<1>5. i = Len(stack[u]) /\ stack[u] # <<>> /\ stack[u][i] = Top(u)
  BY <1>4, EndOnTop DEF EndPcs
<1>6. u # t \/ i < n
  <2>1. SUFFICES ASSUME u = t PROVE i < n
    OBVIOUS
  <2>2. n > Len(stack[t])
    BY <2>1, <1>4, <1>5
  <2> QED BY <2>1, <2>2, <1>5
<1>7. i \in DOMAIN stack'[u] /\ stack'[u][i] = stack[u][i]
  BY <1>6, PutsAt DEF Stacks
<1> QED BY <1>4, <1>7

LEMMA FrameKeeps ==
  ASSUME NEW g, FrameRes(g), NEW h, h.kind = g.kind, h.id = g.id, h.pc = g.pc, h.err = g.err,
         g.kind \in {"join", "join_b", "install_op"} => Plain(g.id)
  PROVE  FrameRes(h)'
<1>1. CASE g.kind \in {"join", "join_b", "install_op"}
  <2>1. call'[g.id].panic = call[g.id].panic /\ call'[g.id].result = call[g.id].result
    BY <1>1 DEF Plain
  <2> QED BY <2>1 DEF FrameRes
<1>2. CASE g.kind \notin {"join", "join_b", "install_op"}
  BY <1>2 DEF FrameRes
<1> QED BY <1>1, <1>2

LEMMA FrameFree ==
  ASSUME NEW h, h.kind \notin {"join", "join_b", "install_op"} PROVE FrameRes(h)'
  BY DEF FrameRes

LEMMA QueueKeeps ==
  ASSUME Struct, QueueRes, QMild,
         \A q \in Names : \A i \in DOMAIN Queue[q] : Queue[q][i].kind \in {"join_b", "install_op"} =>
           call'[Queue[q][i].id].result[0] = call[Queue[q][i].id].result[0]
  PROVE  QueueRes'
<1> DEFINE P == \A q \in Names : \A i \in DOMAIN Queue'[q] : Queue'[q][i].kind \in {"join_b", "install_op"} =>
                  \E l \in DOMAIN Queue[q] : Queue'[q][i] = Queue[q][l]
<1>0. Shape
  BY DEF Struct
<1>1. P
  <2>1. CASE QSame
    BY <2>1, Zenon DEF QSame
  <2>2. ASSUME NEW q, NEW j, QPush(q, j), j \in JobSet, j.kind \in {"scope_job", "spawned"} PROVE P
    BY <2>2, <1>0, QPushAt
  <2>3. ASSUME NEW q, NEW j, NEW d, QTake(q, j, d) PROVE P
    BY <2>3, <1>0, QTakeAt
  <2> QED BY <2>1, <2>2, <2>3 DEF QMild
<1>2. SUFFICES ASSUME NEW q \in Names, NEW i \in DOMAIN Queue'[q], Queue'[q][i].kind \in {"join_b", "install_op"}
               PROVE  call'[Queue'[q][i].id].result[0] = None
  BY DEF QueueRes
<1>3. PICK l \in DOMAIN Queue[q] : Queue'[q][i] = Queue[q][l]
  BY <1>1, <1>2
<1> QED BY <1>2, <1>3 DEF QueueRes

LEMMA QueueIds ==
  ASSUME Struct, NEW q \in Names, NEW i \in DOMAIN Queue[q], Queue[q][i].kind # "spawned"
  PROVE  Queue[q][i].id \in 1 .. Len(call) /\ call[Queue[q][i].id].kind = Of(Queue[q][i].kind)
  BY DEF Struct, Jobs, JobOK

LEMMA FrameIds ==
  ASSUME Struct, NEW t \in Threads, NEW i \in DOMAIN stack[t]
  PROVE  /\ stack[t][i].kind \notin Rootless => stack[t][i].id \in 1 .. Len(call)
         /\ stack[t][i].kind \in CallKinds => call[stack[t][i].id].kind = stack[t][i].kind
         /\ stack[t][i].kind \in JobKinds \ {"spawned"} => call[stack[t][i].id].kind = Of(stack[t][i].kind)
         /\ stack[t][i] \in FrameSet /\ FrameOK(stack[t][i])
<1>1. stack[t][i] \in FrameSet /\ FrameOK(stack[t][i]) /\ call \in Seq(CallSet)
  BY StackFacts DEF Struct, Shape, Framed
<1>2. stack[t][i].id \in Nat /\ Len(call) \in Nat
  BY <1>1 DEF FrameSet
<1>3. stack[t][i].kind \notin Rootless => stack[t][i].id # 0 /\ stack[t][i].id =< Len(call)
  BY <1>1 DEF FrameOK
<1>4. stack[t][i].kind \in CallKinds => call[stack[t][i].id].kind = stack[t][i].kind
  BY DEF Struct, Called
<1>5. stack[t][i].kind \in JobKinds \ {"spawned"} => call[stack[t][i].id].kind = Of(stack[t][i].kind)
  BY DEF Struct, Jobs, JobOK
<1> QED BY <1>1, <1>2, <1>3, <1>4, <1>5

\* A step that changes one call's record.
LEMMA ResultsStep ==
  ASSUME Struct, Results, Stacks, NEW t \in Threads, NEW n, NEW f, Puts(t, n, f), NEW s,
         \A id \in 1 .. Len(call') : id # s => id \in 1 .. Len(call) /\ Records(id),
         s \in 1 .. Len(call') => CallRes(s)' /\ Witnessed(s)',
         FrameRes(f)', QueueRes', panics \in Nat, panics' \in Nat, panics =< panics', Len(call) =< Len(call'),
         \A u \in Threads : \A i \in DOMAIN stack[u] : \A g :
           g = stack[u][i] /\ (u # t \/ i < n) /\ g.id = s => FrameRes(g)',
         stack[t] = <<>> \/ n > Len(stack[t]) \/ Top(t).pc # "panicked" \/ Top(t).id = s
  PROVE  Results'
<1>0. Shape /\ Len(call) \in Nat
  BY DEF Struct, Shape
<1>1. ASSUME NEW id \in 1 .. Len(call') PROVE CallRes(id)' /\ Witnessed(id)'
  <2>1. CASE id = s
    BY <2>1
  <2>2. CASE id # s
    <3>1. id \in 1 .. Len(call) /\ Records(id) /\ CallRes(id) /\ Witnessed(id)
      BY <2>2 DEF Results
    <3>2. CallRes(id)'
      BY <3>1, <1>0, ResultedKeeps
    <3>3. Witnessed(id)'
      BY <3>1, <2>2, WitnessedKeeps DEF Records
    <3> QED BY <3>2, <3>3
  <2> QED BY <2>1, <2>2
<1>2. ASSUME NEW u \in Threads, NEW i \in DOMAIN stack'[u] PROVE FrameRes(stack[u][i])'
  <2>1. CASE u = t /\ i = n
    <3>1. stack'[u][i] = f
      BY <2>1, PutsAt DEF Stacks
    <3> QED BY <3>1
  <2>2. CASE ~(u = t /\ i = n)
    <3>0. n \in Nat /\ DOMAIN stack'[t] = 1 .. n
      BY PutsAt DEF Stacks
    <3>1. i \in DOMAIN stack[u] /\ stack'[u][i] = stack[u][i] /\ (u # t \/ i < n)
      BY <2>2, <3>0, PutsElse
    <3>2. PICK g : g = stack[u][i]
      OBVIOUS
    <3>3. FrameRes(g)
      BY <3>1, <3>2 DEF Results
    <3>4. CASE g.id = s
      BY <3>1, <3>2, <3>4
    <3>5. CASE g.id # s
      <4>1. g.kind \in {"join", "join_b", "install_op"} => g.id \in 1 .. Len(call)
        BY <3>1, <3>2, FrameIds DEF Rootless
      <4>2. g.kind \in {"join", "join_b", "install_op"} => Plain(g.id)
        BY <4>1, <3>5, <1>0 DEF Records
      <4>3. FrameRes(g)'
        BY <3>3, <4>2, FrameKeeps
      <4> QED BY <3>1, <3>2, <4>3
    <3> QED BY <3>4, <3>5
  <2> QED BY <2>1, <2>2
<1> QED BY <1>1, <1>2 DEF Results

LEMMA SoftResults ==
  ASSUME Struct, Results, NEW t \in Threads, NEW n, NEW f, Soft(t, n, f)
  PROVE  Results'
<1>0. Len(call) \in Nat
  BY DEF Struct, Shape
<1>1. QueueRes'
  <2>1. ASSUME NEW q \in Names, NEW i \in DOMAIN Queue[q], Queue[q][i].kind \in {"join_b", "install_op"}
        PROVE  call'[Queue[q][i].id].result[0] = call[Queue[q][i].id].result[0]
    <3>1. Queue[q][i].id \in 1 .. Len(call)
      BY <2>1, QueueIds
    <3> QED BY <3>1 DEF Mild, Soft, Records, Plain
  <2> QED BY <2>1, QueueKeeps DEF Mild, Soft, Results
<1>2. PICK s : s = 0
  OBVIOUS
<1>3. \A id \in 1 .. Len(call') : id # s => id \in 1 .. Len(call) /\ Records(id)
  BY DEF Mild, Soft
<1>4. s \notin 1 .. Len(call')
  BY <1>2
<1>5. ASSUME NEW u \in Threads, NEW i \in DOMAIN stack[u], NEW g, g = stack[u][i], g.id = s PROVE FrameRes(g)'
  <2>1. g.kind \in Rootless
    BY <1>5, <1>2, FrameIds
  <2> QED BY <2>1, FrameFree DEF Rootless
<1>6. Len(call) =< Len(call')
  BY <1>0 DEF Mild, Soft
<1>7. /\ Stacks /\ Puts(t, n, f) /\ FrameRes(f)' /\ panics \in Nat /\ panics' \in Nat /\ panics =< panics'
      /\ stack[t] = <<>> \/ n > Len(stack[t]) \/ Top(t).pc # "panicked"
  BY DEF Mild, Soft
<1> QED BY <1>1, <1>3, <1>4, <1>5, <1>6, <1>7, ResultsStep

LEMMA MildCored ==
  ASSUME Struct, Cored, NEW t \in Threads, NEW n, NEW f, Mild(t, n, f)
  PROVE  Cored'
  BY CoredStep DEF Mild, Soft

\* The shares of the broadcasts.
Shifts(w, id, d) ==
  /\ d \in {0, 1}
  /\ \A i \in DOMAIN broadcasts'[w] : InQueue(w, id, i)' => i \in Nat /\ InQueue(w, id, i + d)
  /\ \A i \in DOMAIN broadcasts[w] : InQueue(w, id, i) => i \in Nat /\ InQueue(w, id, i - d)'
StaysOn(w, id) ==
  /\ ToCome(w, id)' <=> ToCome(w, id)
  /\ \A i : OnStack(w, id, i)' <=> OnStack(w, id, i)

LEMMA SharedKeeps ==
  ASSUME NEW w \in Workers, NEW id, SharedAt(w, id), call'[id].result[w] = call[id].result[w], StaysOn(w, id),
         NEW d, Shifts(w, id, d)
  PROVE  SharedAt(w, id)'
<1>1. (\E i \in DOMAIN broadcasts'[w] : InQueue(w, id, i)') <=> (\E i \in DOMAIN broadcasts[w] : InQueue(w, id, i))
  BY DEF Shifts, InQueue
<1>2. (\E i \in DOMAIN stack'[w] : OnStack(w, id, i)') <=> (\E i \in DOMAIN stack[w] : OnStack(w, id, i))
  BY DEF StaysOn, OnStack
<1>3. call'[id].result[w] = None <=>
       ToCome(w, id)' \/ (\E i \in DOMAIN broadcasts'[w] : InQueue(w, id, i)')
         \/ (\E i \in DOMAIN stack'[w] : OnStack(w, id, i)')
  BY <1>1, <1>2 DEF SharedAt, StaysOn
<1>4. \A i, j \in DOMAIN broadcasts'[w] : InQueue(w, id, i)' /\ InQueue(w, id, j)' => i = j
  <2>1. SUFFICES ASSUME NEW i \in DOMAIN broadcasts'[w], NEW j \in DOMAIN broadcasts'[w],
                        InQueue(w, id, i)', InQueue(w, id, j)' PROVE i = j
    OBVIOUS
  <2>2. InQueue(w, id, i + d) /\ InQueue(w, id, j + d) /\ i \in Nat /\ j \in Nat /\ d \in {0, 1}
    BY <2>1 DEF Shifts
  <2>3. i + d = j + d
    BY <2>2 DEF SharedAt, InQueue
  <2> QED BY <2>2, <2>3
<1>5. \A i, j \in DOMAIN stack'[w] : OnStack(w, id, i)' /\ OnStack(w, id, j)' => i = j
  BY DEF SharedAt, StaysOn, OnStack
<1>6. ASSUME NEW i \in DOMAIN broadcasts'[w], InQueue(w, id, i)'
      PROVE  ~ToCome(w, id)' /\ \A j \in DOMAIN stack'[w] : ~OnStack(w, id, j)'
  <2>1. InQueue(w, id, i + d)
    BY <1>6 DEF Shifts
  <2>2. ~ToCome(w, id) /\ \A j \in DOMAIN stack[w] : ~OnStack(w, id, j)
    BY <2>1 DEF SharedAt, InQueue
  <2> QED BY <2>2 DEF StaysOn, OnStack
<1>7. \A j \in DOMAIN stack'[w] : OnStack(w, id, j)' => ~ToCome(w, id)'
  BY DEF SharedAt, StaysOn, OnStack
<1> QED BY <1>3, <1>4, <1>5, <1>6, <1>7 DEF SharedAt

LEMMA CarriesStays ==
  ASSUME Stacks, NEW t \in Threads, NEW n, NEW f, Puts(t, n, f), Carries(t, n, f), NEW w \in Workers, NEW id
  PROVE  StaysOn(w, id)
<1>0. w \in Threads
  BY DEF Threads
<1>1. /\ n \in Nat /\ n \in DOMAIN stack'[t] /\ stack'[t][n] = f /\ DOMAIN stack'[t] = 1 .. n
      /\ DOMAIN stack[t] = 1 .. Len(stack[t]) /\ Len(stack[t]) \in Nat
  BY PutsAt, StackFacts DEF Stacks
<1>2. \A u \in Threads : \A i \in DOMAIN stack[u] :
        (u # t \/ i < n) => i \in DOMAIN stack'[u] /\ stack'[u][i] = stack[u][i]
  BY PutsAt DEF Stacks
<1>3. \A u \in Threads : \A i \in DOMAIN stack'[u] :
        ~(u = t /\ i = n) => i \in DOMAIN stack[u] /\ stack'[u][i] = stack[u][i]
  BY PutsElse
<1>4. ASSUME NEW i \in DOMAIN stack[t], Carrier(stack[t][i]), ~(i < n)
      PROVE  i = n /\ f.kind = stack[t][n].kind /\ f.id = stack[t][n].id /\ f.pc = stack[t][n].pc
             /\ (f.kind = "broadcast" => f.todo = stack[t][n].todo)
  BY <1>1, <1>4 DEF Carries
<1>5. ASSUME Carrier(f)
      PROVE  /\ n \in DOMAIN stack[t]
             /\ f.kind = stack[t][n].kind /\ f.id = stack[t][n].id /\ f.pc = stack[t][n].pc
             /\ (f.kind = "broadcast" => f.todo = stack[t][n].todo)
  BY <1>5 DEF Carries
<1>6. ASSUME ToCome(w, id)' PROVE ToCome(w, id)
  <2>1. PICK u \in Threads : \E i \in DOMAIN stack'[u] :
          stack'[u][i].kind = "broadcast" /\ stack'[u][i].id = id /\ w \in stack'[u][i].todo
    BY <1>6 DEF ToCome
  <2>2. PICK i \in DOMAIN stack'[u] :
          stack'[u][i].kind = "broadcast" /\ stack'[u][i].id = id /\ w \in stack'[u][i].todo
    BY <2>1
  <2>3. CASE u = t /\ i = n
    <3>1. Carrier(f) /\ f.kind = "broadcast" /\ f.id = id /\ w \in f.todo
      BY <2>2, <2>3, <1>1 DEF Carrier
    <3> QED BY <3>1, <1>5 DEF ToCome
  <2>4. CASE ~(u = t /\ i = n)
    BY <2>2, <2>4, <1>3 DEF ToCome
  <2> QED BY <2>3, <2>4
<1>7. ASSUME ToCome(w, id) PROVE ToCome(w, id)'
  <2>1. PICK u \in Threads : \E i \in DOMAIN stack[u] :
          stack[u][i].kind = "broadcast" /\ stack[u][i].id = id /\ w \in stack[u][i].todo
    BY <1>7 DEF ToCome
  <2>2. PICK i \in DOMAIN stack[u] :
          stack[u][i].kind = "broadcast" /\ stack[u][i].id = id /\ w \in stack[u][i].todo
    BY <2>1
  <2>3. CASE u = t /\ ~(i < n)
    <3>1. Carrier(stack[t][i])
      BY <2>2, <2>3 DEF Carrier
    <3>2. f.kind = "broadcast" /\ f.id = id /\ w \in f.todo
      BY <3>1, <2>2, <2>3, <1>4
    <3> QED BY <3>2, <1>1 DEF ToCome
  <2>4. CASE u # t \/ i < n
    BY <2>2, <2>4, <1>2 DEF ToCome
  <2> QED BY <2>3, <2>4
<1>8. ASSUME NEW i, OnStack(w, id, i)' PROVE OnStack(w, id, i)
  <2>1. CASE w = t /\ i = n
    <3>1. Carrier(f) /\ f.kind = "broadcast_op" /\ f.id = id /\ f.pc = "run"
      BY <1>8, <2>1, <1>1 DEF Carrier, OnStack
    <3> QED BY <3>1, <2>1, <1>5 DEF OnStack
  <2>2. CASE ~(w = t /\ i = n)
    BY <1>8, <2>2, <1>0, <1>3 DEF OnStack
  <2> QED BY <2>1, <2>2
<1>9. ASSUME NEW i, OnStack(w, id, i) PROVE OnStack(w, id, i)'
  <2>1. CASE w = t /\ ~(i < n)
    <3>1. Carrier(stack[t][i]) /\ i \in DOMAIN stack[t]
      BY <1>9, <2>1 DEF Carrier, OnStack
    <3>2. i = n /\ f.kind = "broadcast_op" /\ f.id = id /\ f.pc = "run"
      BY <3>1, <1>9, <2>1, <1>4 DEF OnStack
    <3> QED BY <3>2, <2>1, <1>1 DEF OnStack
  <2>2. CASE w # t \/ i < n
    BY <1>9, <2>2, <1>0, <1>2 DEF OnStack
  <2> QED BY <2>1, <2>2
<1> QED BY <1>6, <1>7, <1>8, <1>9 DEF StaysOn

LEMMA MildShifts ==
  ASSUME Struct, QMild, NEW w \in Workers, NEW id
  PROVE  \E d : Shifts(w, id, d)
<1>0. Shape /\ <<"bcast", w>> \in Names /\ Queue[<<"bcast", w>>] = broadcasts[w] /\ Queue'[<<"bcast", w>>] = broadcasts'[w]
  BY QueueAt, QueueAtNext DEF Struct
<1>1. PICK p : p = <<"bcast", w>>
  OBVIOUS
<1>2. p \in Names /\ Queue[p] = broadcasts[w] /\ Queue'[p] = broadcasts'[w]
  BY <1>0, <1>1
<1>3. broadcasts[w] \in Seq(JobSet)
  BY <1>0 DEF Shape
<1>4. \A i \in DOMAIN broadcasts[w] : i \in Nat
  BY <1>3
<1>5. ASSUME broadcasts'[w] = broadcasts[w] PROVE Shifts(w, id, 0)
  BY <1>4, <1>5 DEF Shifts, InQueue
<1>6. CASE QSame
  BY <1>6, <1>5, <1>2 DEF QSame
<1>7. ASSUME NEW q, NEW j, QPush(q, j), j \in JobSet, j.kind \in {"scope_job", "spawned"} PROVE \E d : Shifts(w, id, d)
  <2>1. \A i \in DOMAIN Queue'[p] : \/ i \in DOMAIN Queue[p] /\ Queue'[p][i] = Queue[p][i]
                                    \/ Queue'[p][i] = j
    BY <1>7, <1>0, <1>2, QPushAt
  <2>2. \A i \in DOMAIN Queue[p] : i \in DOMAIN Queue'[p] /\ Queue'[p][i] = Queue[p][i]
    BY <1>7, <1>0, <1>2, QPushAt
  <2>3. Shifts(w, id, 0)
    BY <2>1, <2>2, <1>2, <1>4, <1>7 DEF Shifts, InQueue
  <2> QED BY <2>3
<1>8. ASSUME NEW q, NEW j, NEW d, QTake(q, j, d), j.kind # "broadcast_op" PROVE \E e : Shifts(w, id, e)
  <2>1. CASE p # q
    <3>1. Queue'[p] = Queue[p]
      BY <2>1, <1>8, <1>0, <1>2, QTakeAt
    <3> QED BY <3>1, <1>2, <1>5
  <2>2. CASE p = q
    <3>1. d \in {0, 1} /\ \E k \in DOMAIN Queue[p] :
              /\ Queue[p][k] = j
              /\ \A i \in DOMAIN Queue'[p] : /\ i \in Nat /\ i + d \in DOMAIN Queue[p] /\ i + d # k
                                             /\ Queue'[p][i] = Queue[p][i + d]
              /\ \A l \in DOMAIN Queue[p] : l # k => l - d \in DOMAIN Queue'[p] /\ Queue'[p][l - d] = Queue[p][l]
      BY <2>2, <1>8, <1>0, QTakeAt
    <3>2. Shifts(w, id, d)
      BY <3>1, <1>2, <1>4, <1>8 DEF Shifts, InQueue
    <3> QED BY <3>2
  <2> QED BY <2>1, <2>2
<1> QED BY <1>6, <1>7, <1>8 DEF QMild

LEMMA SharedStep ==
  ASSUME Struct, Shared, Stacks, NEW t \in Threads, NEW n, NEW f, Puts(t, n, f), Carries(t, n, f), QMild,
         Len(call') = Len(call),
         \A id \in 1 .. Len(call) :
           /\ call'[id].kind = call[id].kind
           /\ call[id].kind = "broadcast" /\ call'[id].out = None =>
                call[id].out = None /\ call'[id].result = call[id].result
  PROVE  Shared'
<1>1. SUFFICES ASSUME NEW id \in 1 .. Len(call'), call'[id].kind = "broadcast", call'[id].out = None, NEW w \in Workers
               PROVE  SharedAt(w, id)'
  BY DEF Shared
<1>2. SharedAt(w, id) /\ call'[id].result[w] = call[id].result[w]
  <2>0. id \in 1 .. Len(call)
    BY <1>1
  <2>1. id \in 1 .. Len(call) /\ call[id].kind = "broadcast"
    BY <1>1, <2>0
  <2>2. call[id].out = None /\ call'[id].result = call[id].result
    BY <1>1, <2>1
  <2> QED BY <2>1, <2>2 DEF Shared
<1>3. StaysOn(w, id)
  BY CarriesStays
<1>4. PICK d : Shifts(w, id, d)
  BY MildShifts
<1> QED BY <1>2, <1>3, <1>4, SharedKeeps

LEMMA SoftShared ==
  ASSUME Struct, Shared, NEW t \in Threads, NEW n, NEW f, Soft(t, n, f)
  PROVE  Shared'
<1>1. /\ Stacks /\ Puts(t, n, f) /\ Carries(t, n, f) /\ QMild /\ Len(call') = Len(call)
      /\ \A id \in 1 .. Len(call) : Records(id)
  BY DEF Soft
<1>2. \A id \in 1 .. Len(call) :
           /\ call'[id].kind = call[id].kind
           /\ call[id].kind = "broadcast" /\ call'[id].out = None =>
                call[id].out = None /\ call'[id].result = call[id].result
  BY <1>1 DEF Records, Plain
<1> QED BY <1>1, <1>2, SharedStep

LEMMA ClonedStep ==
  ASSUME Struct, Cloned, Stacks, NEW t \in Threads, NEW n, NEW f, Puts(t, n, f),
         \A u \in Threads : \A o \in Foreign : u \in clones[o] /\ (u # t \/ n > Len(stack[t])) => u \in clones'[o],
         \A id \in 1 .. Len(call) : call'[id].kind = call[id].kind /\ call'[id].owner = call[id].owner,
         \A id \in 1 .. Len(call') : id \notin 1 .. Len(call) =>
           (CrossCalls \subseteq {"install"} /\ call'[id].owner \in Foreign => call'[id].kind = "install"),
         f.pc \in {"core", "notify"} /\ call'[f.id].owner \in Foreign /\ CrossCalls \subseteq {"install"} =>
           t \in clones'[call'[f.id].owner]
  PROVE  Cloned'
<1>1. SUFFICES ASSUME CrossCalls \subseteq {"install"}
      PROVE /\ \A id \in 1 .. Len(call') : call'[id].owner \in Foreign => call'[id].kind = "install"
            /\ \A u \in Threads : \A i \in DOMAIN stack'[u] :
                 stack'[u][i].pc \in {"core", "notify"} /\ call'[stack'[u][i].id].owner \in Foreign =>
                   u \in clones'[call'[stack'[u][i].id].owner]
  BY DEF Cloned
<1>2. \A id \in 1 .. Len(call') : call'[id].owner \in Foreign => call'[id].kind = "install"
  BY <1>1 DEF Cloned
<1>3. ASSUME NEW u \in Threads, NEW i \in DOMAIN stack'[u], stack'[u][i].pc \in {"core", "notify"},
             call'[stack'[u][i].id].owner \in Foreign
      PROVE  u \in clones'[call'[stack'[u][i].id].owner]
  <2>1. CASE u = t /\ i = n
    <3>1. stack'[u][i] = f
      BY <2>1, PutsAt DEF Stacks
    <3> QED BY <3>1, <2>1, <1>1, <1>3
  <2>2. CASE ~(u = t /\ i = n)
    <3>0. n \in Nat /\ DOMAIN stack'[t] = 1 .. n
      BY PutsAt DEF Stacks
    <3>1. i \in DOMAIN stack[u] /\ stack'[u][i] = stack[u][i] /\ (u # t \/ i < n)
      <4>1. i \in DOMAIN stack[u] /\ stack'[u][i] = stack[u][i]
        BY <2>2, PutsElse
      <4>2. u = t => i \in 1 .. n /\ i # n
        BY <2>2, <3>0
      <4> QED BY <4>1, <4>2, <3>0
    <3>2. i = Len(stack[u]) /\ stack[u][i] = Top(u)
      BY <3>1, <1>3, EndOnTop DEF EndPcs
    <3>3. PICK id : id = stack[u][i].id
      OBVIOUS
    <3>4. FrameOK(stack[u][i]) /\ stack[u][i].pc \in {"core", "notify"}
      BY <3>1, <1>3, FrameIds
    <3>5. stack[u][i].kind \notin Rootless
      BY <3>4 DEF FrameOK, KindPc, Rootless, StackJobs
    <3>6. id \in 1 .. Len(call)
      BY <3>1, <3>3, <3>5, FrameIds
    <3>7. call'[id].owner = call[id].owner /\ call[id].owner \in Foreign /\ u \in clones[call[id].owner]
      BY <1>1, <1>3, <3>1, <3>3, <3>4, <3>6 DEF Cloned
    <3>8. u # t \/ n > Len(stack[t])
      BY <3>1, <3>2
    <3> QED BY <3>8, <3>7, <3>1, <3>3
  <2> QED BY <2>1, <2>2
<1> QED BY <1>2, <1>3

LEMMA MildCloned ==
  ASSUME Struct, Cloned, NEW t \in Threads, NEW n, NEW f, Mild(t, n, f), UNCHANGED clones
  PROVE  Cloned'
<1>1. Stacks /\ Puts(t, n, f) /\ Len(call') = Len(call) /\ f.pc \notin {"core", "notify"}
  BY DEF Mild, Soft
<1>2. \A id \in 1 .. Len(call) : call'[id].kind = call[id].kind /\ call'[id].owner = call[id].owner
  BY DEF Mild, Soft, Records, Plain
<1> QED BY <1>1, <1>2, ClonedStep

Rest == Cored /\ Results /\ Shared /\ Cloned
LEMMA MildRest ==
  ASSUME Struct, Rest, NEW t \in Threads, NEW n, NEW f, Mild(t, n, f), UNCHANGED clones
  PROVE  Rest'
  BY MildCored, SoftResults, SoftShared, MildCloned DEF Rest, Mild

LEMMA CallSameMild ==
  ASSUME UNCHANGED call
  PROVE  /\ \A id : Records(id)
         /\ CoreKept /\ Len(call') = Len(call)
  BY DEF Records, Plain, CoreKept

LEMMA PendMild ==
  ASSUME Struct, Results, NEW t \in Threads, stack[t] # <<>>, NEW p, NEW T, NEW h \in FrameSet, h = WithPend(Top(t), p, T),
         stack' = SetTop(t, h), Top(t).pc \in UserPcs, Len(call') = Len(call), \A id \in 1 .. Len(call) : Records(id),
         CoreKept, UNCHANGED panics, QMild
  PROVE  Mild(t, Len(stack[t]), h)
<1>1. /\ Stacks /\ Puts(t, Len(stack[t]), h) /\ Len(stack[t]) \in DOMAIN stack[t] /\ stack[t][Len(stack[t])] = Top(t)
      /\ h.kind = Top(t).kind /\ h.id = Top(t).id /\ h.pc = Top(t).pc /\ h.err = Top(t).err
  BY WithPendPuts
<1>2. FrameRes(Top(t)) /\ FrameOK(Top(t))
  BY <1>1, FrameIds DEF Results
<1>3. Top(t).kind \notin Rootless => Top(t).id \in 1 .. Len(call)
  BY <1>1, FrameIds
<1>4. Top(t).kind # "broadcast"
  BY <1>2 DEF FrameOK, KindPc, UserPcs, StackJobs
<1>5. PICK g : g = Top(t)
  OBVIOUS
<1>6. FrameRes(h)'
  <2>1. FrameRes(g) /\ h.kind = g.kind /\ h.id = g.id /\ h.pc = g.pc /\ h.err = g.err
    BY <1>1, <1>2, <1>5
  <2>2. g.kind \in {"join", "join_b", "install_op"} => Plain(g.id)
    BY <1>3, <1>5 DEF Rootless, Records
  <2> QED BY <2>1, <2>2, FrameKeeps
<1>7. \A i \in DOMAIN stack[t] : ~(i > Len(stack[t]))
  BY StackFacts DEF Stacks, Struct, Shape
<1>8. Carries(t, Len(stack[t]), h)
  BY <1>1, <1>4, <1>7 DEF Carries
<1>9. panics \in Nat /\ panics' \in Nat /\ panics =< panics'
  BY DEF Struct, Shape
<1>10. h.pc \notin {"core", "notify", "panicked"} /\ Top(t).pc # "panicked"
  BY <1>1 DEF UserPcs
<1> QED BY <1>1, <1>6, <1>8, <1>9, <1>10 DEF Mild, Soft

LEMMA PcMild ==
  ASSUME Struct, NEW t \in Threads, stack[t] # <<>>, NEW pc \in AllPcs, NEW e \in Nat, NEW h, h = WithPc(Top(t), pc, e),
         stack' = SetTop(t, h), pc \notin {"core", "notify", "panicked"}, Top(t).pc # "panicked",
         Top(t).kind \notin {"broadcast", "broadcast_op"}, FrameRes(h)', Len(call') = Len(call),
         \A id \in 1 .. Len(call) : Records(id), CoreKept, panics' \in Nat, panics =< panics', QMild
  PROVE  Mild(t, Len(stack[t]), h)
<1>1. /\ Stacks /\ Puts(t, Len(stack[t]), h) /\ stack[t][Len(stack[t])] = Top(t)
      /\ h.kind = Top(t).kind /\ h.pc = pc
  BY WithPcPuts
<1>2. \A i \in DOMAIN stack[t] : i >= Len(stack[t]) => stack[t][i] = Top(t)
  BY <1>1, StackFacts DEF Stacks
<1>3. Carries(t, Len(stack[t]), h)
  BY <1>1, <1>2 DEF Carries, Carrier
<1>4. panics \in Nat
  BY DEF Struct, Shape
<1> QED BY <1>1, <1>3, <1>4 DEF Mild, Soft

LEMMA DropMild ==
  ASSUME Struct, Results, NEW t \in Threads, stack[t] # <<>>, NEW n, NEW f, Stacks, Puts(t, n, f),
         n = Len(stack[t]) - 1, n \in DOMAIN stack[t], f = stack[t][n], ~Carrier(Top(t)), Top(t).pc # "panicked",
         Len(call') = Len(call), \A id \in 1 .. Len(call) : Records(id), CoreKept, UNCHANGED panics, QMild
  PROVE  Mild(t, n, f)
<1>1. FrameRes(f) /\ (f.kind \notin Rootless => f.id \in 1 .. Len(call))
  BY FrameIds DEF Results
<1>2. FrameRes(f)'
  <2>1. f.kind \in {"join", "join_b", "install_op"} => Plain(f.id)
    BY <1>1 DEF Rootless, Records
  <2> QED BY <1>1, <2>1, FrameKeeps
<1>3. Len(stack[t]) \in Nat /\ DOMAIN stack[t] = 1 .. Len(stack[t]) /\ Top(t) = stack[t][Len(stack[t])]
  BY StackFacts DEF Stacks
<1>4. n # Len(stack[t])
  BY <1>3
<1>5. f.pc \in UserPcs \cup WaitPcs \cup {"loop"}
  BY <1>4, Below
<1>6. \A i \in DOMAIN stack[t] : i > n => i = Len(stack[t])
  BY <1>3
<1>7. \A i \in DOMAIN stack[t] : i > n => ~Carrier(stack[t][i])
  BY <1>3, <1>6
<1>8. Carries(t, n, f)
  BY <1>7 DEF Carries
<1>9. panics \in Nat /\ panics' \in Nat /\ panics =< panics'
  BY DEF Struct, Shape
<1>10. f.pc \notin {"core", "notify", "panicked"}
  BY <1>5 DEF UserPcs, WaitPcs
<1> QED BY <1>2, <1>8, <1>9, <1>10 DEF Mild, Soft

LEMMA LeavesMild ==
  ASSUME Struct, Results, NEW t \in Threads, stack[t] # <<>>, NEW n, NEW f, Leaves(t, n, f), Top(t).pc \in EndPcs \ {"panicked"},
         Len(call') = Len(call), \A id \in 1 .. Len(call) : Records(id), CoreKept, UNCHANGED panics, QMild
  PROVE  Mild(t, n, f)
<1>1. CASE n = Len(stack[t]) /\ Top(t).kind = "scope" /\ f.pc = "wait" /\ f.kind = "scope"
  <2>1. \A i \in DOMAIN stack[t] : i >= n => stack[t][i] = Top(t)
    BY <1>1, StackFacts DEF Leaves, Stacks
  <2>2. Carries(t, n, f)
    BY <2>1, <1>1 DEF Carries, Carrier
  <2>3. FrameRes(f)'
    BY <1>1, FrameFree
  <2>4. panics \in Nat /\ panics' \in Nat /\ panics =< panics'
    BY DEF Struct, Shape
  <2> QED BY <1>1, <2>2, <2>3, <2>4 DEF Mild, Soft, Leaves
<1>2. CASE n = Len(stack[t]) - 1 /\ f = stack[t][n] /\ Top(t).kind \in JobKinds
  <2>1. ~Carrier(Top(t))
    BY <1>2 DEF Carrier, EndPcs, JobKinds, StackJobs
  <2> QED BY <1>2, <2>1, DropMild DEF Leaves
<1> QED BY <1>1, <1>2 DEF Leaves

LEMMA ExecutesMild ==
  ASSUME Struct, Results, NEW t \in Workers, NEW q, NEW j, NEW d, Executes(t, q, j, d), j.kind # "broadcast_op"
  PROVE  \E n, f : Mild(t, n, f)
<1>0. t \in Threads /\ Shape /\ panics \in Nat
  BY DEF Threads, Struct, Shape
<1>1. PICK f : /\ Stacks /\ Puts(t, Len(stack[t]) + 1, f) /\ f \in FrameSet /\ f.kind = j.kind /\ f.id = j.id
               /\ f.pc = "run" /\ f.err = 0 /\ f.pend = NoJob /\ f.todo = {} /\ j \in JobSet /\ JobOK(j)
  BY ExecutePuts
<1>2. QTake(q, j, d) /\ UNCHANGED <<call, panics>>
  BY DEF Executes
<1>3. q \in Names /\ \E k \in DOMAIN Queue[q] : Queue[q][k] = j
  BY <1>0, <1>2, QTakeAt
<1>4. j.kind \in {"join_b", "install_op"} => call[j.id].result[0] = None
  BY <1>3 DEF Results, QueueRes
<1>5. FrameRes(f)'
  <2>1. f.kind # "join"
    BY <1>1 DEF JobSet, JobKinds, StackJobs
  <2> QED BY <2>1, <1>1, <1>2, <1>4 DEF FrameRes
<1>6. QMild
  BY <1>2 DEF QMild
<1>7. (\A id : Records(id)) /\ CoreKept /\ Len(call') = Len(call)
  BY <1>2, CallSameMild
<1>8. \A i \in DOMAIN stack[t] : ~(i >= Len(stack[t]) + 1)
  BY <1>0, <1>1, StackFacts DEF Stacks
<1>9. ~Carrier(f)
  BY <1>1 DEF Carrier, JobSet, JobKinds, StackJobs
<1>10. Carries(t, Len(stack[t]) + 1, f)
  BY <1>8, <1>9 DEF Carries
<1>11. Len(stack[t]) + 1 > Len(stack[t]) /\ panics' \in Nat /\ panics =< panics'
  BY <1>0, <1>1, <1>2, StackFacts DEF Stacks
<1>12. Mild(t, Len(stack[t]) + 1, f)
  BY <1>0, <1>1, <1>5, <1>6, <1>7, <1>10, <1>11 DEF Mild, Soft
<1> QED BY <1>12

LEMMA InlinesMild ==
  ASSUME Struct, Results, NEW t \in Workers, NEW h, NEW q, NEW j, NEW d, Inlines(t, h, q, j, d)
  PROVE  Mild(t, Len(stack[t]), h)
<1>0. t \in Threads /\ Shape /\ panics \in Nat
  BY DEF Threads, Struct, Shape
<1>1. /\ stack[t] # <<>> /\ Top(t).pc = "loop" /\ Top(t).kind = "join" /\ h = WithPc(Top(t), "inline", 0)
      /\ stack' = SetTop(t, h) /\ QTake(q, j, d) /\ j.kind = "join_b" /\ j.id = Top(t).id /\ UNCHANGED <<call, panics>>
  BY DEF Inlines
<1>2. q \in Names /\ \E k \in DOMAIN Queue[q] : Queue[q][k] = j
  BY <1>0, <1>1, QTakeAt
<1>3. call[Top(t).id].result[0] = None
  BY <1>1, <1>2 DEF Results, QueueRes
<1>4. FrameRes(Top(t)) /\ Top(t) \in FrameSet
  BY <1>0, <1>1, TopFacts DEF Results
<1>5. call[Top(t).id].panic = 0
  BY <1>1, <1>4 DEF FrameRes
<1>6. h.kind = "join" /\ h.id = Top(t).id /\ h.pc = "inline" /\ h.err = 0
  BY <1>1, <1>4, WithPcFields
<1>7. FrameRes(h)'
  BY <1>1, <1>3, <1>5, <1>6 DEF FrameRes
<1>8. QMild
  BY <1>1 DEF QMild
<1>9. (\A id : Records(id)) /\ CoreKept /\ Len(call') = Len(call)
  BY <1>1, CallSameMild
<1>10. "inline" \in AllPcs /\ 0 \in Nat /\ panics' \in Nat /\ panics =< panics'
  BY <1>0, <1>1 DEF AllPcs, UserPcs
<1> QED BY <1>0, <1>1, <1>7, <1>8, <1>9, <1>10, PcMild

LEMMA WaitsBMild ==
  ASSUME Struct, Results, NEW t \in Workers, NEW h, WaitsB(t, h)
  PROVE  Mild(t, Len(stack[t]), h)
<1>0. t \in Threads /\ Shape /\ panics \in Nat
  BY DEF Threads, Struct, Shape
<1>1. /\ stack[t] # <<>> /\ Top(t).pc = "loop" /\ Top(t).kind = "join" /\ h = WithPc(Top(t), "wait_b", 0)
      /\ stack' = SetTop(t, h) /\ UNCHANGED <<queues, call, panics>>
  BY DEF WaitsB
<1>4. FrameRes(Top(t)) /\ Top(t) \in FrameSet
  BY <1>0, <1>1, TopFacts DEF Results
<1>5. call[Top(t).id].panic = 0
  BY <1>1, <1>4 DEF FrameRes
<1>6. h.kind = "join" /\ h.id = Top(t).id /\ h.pc = "wait_b" /\ h.err = 0
  BY <1>1, <1>4, WithPcFields
<1>7. FrameRes(h)'
  BY <1>1, <1>5, <1>6 DEF FrameRes
<1>8. QMild
  BY <1>1, QueueSame DEF QMild
<1>9. (\A id : Records(id)) /\ CoreKept /\ Len(call') = Len(call)
  BY <1>1, CallSameMild
<1>10. "wait_b" \in AllPcs /\ 0 \in Nat /\ panics' \in Nat /\ panics =< panics'
  BY <1>0, <1>1 DEF AllPcs, WaitPcs
<1> QED BY <1>0, <1>1, <1>7, <1>8, <1>9, <1>10, PcMild

LEMMA RecountsMild ==
  ASSUME NEW id \in 1 .. Len(call), NEW d, Recounts(id, d), call[id].count # 0
  PROVE  Len(call') = Len(call) /\ (\A x \in 1 .. Len(call) : Records(x)) /\ CoreKept
<1>1. Len(call') = Len(call)
  BY DEF Recounts
<1>2. ASSUME NEW x \in 1 .. Len(call)
      PROVE  Records(x) /\ call'[x].kind = call[x].kind /\ (call[x].count = 0 /\ ~call[x].set => call'[x].count = 0 /\ ~call'[x].set)
  <2>1. CASE x = id
    BY <2>1 DEF Recounts, Records, Plain
  <2>2. CASE x # id
    BY <2>2 DEF Recounts, Records, Plain
  <2> QED BY <2>1, <2>2
<1> QED BY <1>1, <1>2 DEF CoreKept

LEMMA ScopeSpawnRest ==
  ASSUME Struct, Finite, Counted, Rest, NEW t \in Threads, Runs(t), ScopeSpawn(t)
  PROVE  Rest'
<1>1. PICK s \in Top(t).env : \E j, f :
           /\ j = Job("scope_job", s, {o \in Top(t).env : o =< s})
           /\ f = WithPend(Top(t), j, {}) /\ stack' = SetTop(t, f)
           /\ call' = [call EXCEPT ![s].count = call[s].count + 1]
           /\ spawns' = spawns + 1 /\ spawns < MaxSpawns
  BY ScopeSpawnForm
<1>2. PICK j, f :
           /\ j = Job("scope_job", s, {o \in Top(t).env : o =< s})
           /\ f = WithPend(Top(t), j, {}) /\ stack' = SetTop(t, f)
           /\ call' = [call EXCEPT ![s].count = call[s].count + 1]
           /\ spawns' = spawns + 1 /\ spawns < MaxSpawns
  BY <1>1
<1>3. /\ stack[t] # <<>> /\ Top(t).pc \in UserPcs /\ Top(t).pend = NoJob /\ Top(t).todo = {}
      /\ Len(stack[t]) \in DOMAIN stack[t] /\ Top(t) = stack[t][Len(stack[t])] /\ Shape
      /\ UNCHANGED <<queues, lifecycle, foreign, panics>>
  BY RunsFacts DEF Runs, Struct, ScopeSpawn
<1>4. j \in JobSet /\ j.kind = "scope_job" /\ j.id = s /\ j.env \subseteq Top(t).env /\ s \in 1 .. Len(call)
      /\ call[s].kind = "scope"
  BY <1>2, <1>3, ScopeJobOK
<1>5. f \in FrameSet
  BY <1>2, <1>4, PendFrameOK
<1>6. PICK d \in Int : d = call[s].count + 1
  BY <1>3, <1>4, CallFacts
<1>7. call' = [call EXCEPT ![s].count = d]
  BY <1>2, <1>6
<1>8. Recounts(s, d)
  BY <1>3, <1>4, <1>7, RecountsForm
<1>9. Held(<<"held", s>>) > 0 /\ Held(<<"held", s>>) \in Nat
  BY <1>3, EnvHeld
<1>10. call[s].count # 0
  <2>1. call[s].count > 0 /\ call[s].count \in Int
    BY <1>3, <1>4, <1>9, HeldLive, CallFacts DEF Counting
  <2> QED BY <2>1
<1>11. Len(call') = Len(call) /\ (\A x \in 1 .. Len(call) : Records(x)) /\ CoreKept
  BY <1>4, <1>8, <1>10, RecountsMild
<1>12. QMild /\ UNCHANGED clones
  BY <1>3, QueueSame DEF QMild, foreign
<1>13. Results
  BY DEF Rest
<1>14. Mild(t, Len(stack[t]), f)
  BY <1>2, <1>3, <1>5, <1>11, <1>12, <1>13, PendMild
<1> QED BY <1>12, <1>14, MildRest

LEMMA SpawnRest ==
  ASSUME Struct, Rest, NEW t \in Threads, Runs(t), Spawn(t)
  PROVE  Rest'
<1>1. PICK j, f : j = Job("spawned", 0, {}) /\ f = WithPend(Top(t), j, {}) /\ stack' = SetTop(t, f)
  BY SpawnForm
<1>2. UNCHANGED <<queues, call, foreign, panics>>
  BY DEF Spawn
<1>3. stack[t] # <<>> /\ Top(t).pc \in UserPcs /\ Results
  BY RunsFacts DEF Runs, Rest
<1>4. j \in JobSet /\ j.kind = "spawned" /\ j.id = 0 /\ j.env = {}
  BY <1>1, SpawnedJobOK
<1>5. f \in FrameSet
  BY <1>1, <1>4, PendFrameOK
<1>6. QMild /\ UNCHANGED <<clones, panics>>
  BY <1>2, QueueSame DEF QMild, foreign
<1>7. Len(call') = Len(call) /\ (\A x \in 1 .. Len(call) : Records(x)) /\ CoreKept
  BY <1>2, CallSameMild
<1>8. Mild(t, Len(stack[t]), f)
  BY <1>1, <1>3, <1>5, <1>6, <1>7, PendMild
<1> QED BY <1>6, <1>8, MildRest

LEMMA SpawnBroadcastRest ==
  ASSUME Struct, Rest, NEW t \in Threads, Runs(t), SpawnBroadcast(t)
  PROVE  Rest'
<1>1. PICK j, f :
           /\ f = WithPend(Top(t), j, Workers) /\ stack' = SetTop(t, f)
           /\ JobOK(j) /\ j \in JobSet
           /\ \/ j.kind = "spawned" /\ j.id = 0 /\ j.env = {}
              \/ /\ j.kind = "scope_job" /\ j.id \in Top(t).env /\ j.env \subseteq Top(t).env
                 /\ call[j.id].kind = "scope" /\ j.id \in 1 .. Len(call)
  BY SpawnBroadcastForm
<1>2. UNCHANGED <<queues, call, foreign, panics>>
  BY DEF SpawnBroadcast
<1>3. stack[t] # <<>> /\ Top(t).pc \in UserPcs /\ Results /\ Workers \in SUBSET Workers
  BY RunsFacts DEF Runs, Rest
<1>5. f \in FrameSet
  BY <1>1, <1>3, PendFrameOK
<1>6. QMild /\ UNCHANGED <<clones, panics>>
  BY <1>2, QueueSame DEF QMild, foreign
<1>7. Len(call') = Len(call) /\ (\A x \in 1 .. Len(call) : Records(x)) /\ CoreKept
  BY <1>2, CallSameMild
<1>8. Mild(t, Len(stack[t]), f)
  BY <1>1, <1>3, <1>5, <1>6, <1>7, PendMild
<1> QED BY <1>6, <1>8, MildRest

LEMMA PushRest ==
  ASSUME Struct, Rest, NEW t \in Threads, Push(t)
  PROVE  Rest'
<1>0. /\ stack[t] # <<>> /\ Top(t).pend # NoJob /\ Top(t).todo = {}
      /\ UNCHANGED <<broadcasts, call, lifecycle, foreign, spawns, panics>>
  BY DEF Push
<1>1. PICK h, q : /\ h = WithPend(Top(t), NoJob, {}) /\ stack' = SetTop(t, h) /\ QPush(q, Top(t).pend)
  BY PushForm
<1>2. Top(t) \in FrameSet /\ Top(t).pend \in JobSet /\ Top(t).pend.kind \in {"scope_job", "spawned"} /\ Top(t).pc \in UserPcs
  BY <1>0, TopFacts, PendFacts
<1>3. h \in FrameSet
  BY <1>1, <1>2 DEF WithPend, FrameSet
<1>4. QMild /\ UNCHANGED <<clones, panics>> /\ Results
  BY <1>0, <1>1, <1>2 DEF QMild, foreign, Rest
<1>5. Len(call') = Len(call) /\ (\A x \in 1 .. Len(call) : Records(x)) /\ CoreKept
  BY <1>0, CallSameMild
<1>6. Mild(t, Len(stack[t]), h)
  BY <1>0, <1>1, <1>2, <1>3, <1>4, <1>5, PendMild
<1> QED BY <1>4, <1>6, MildRest

LEMMA BroadcastsJobRest ==
  ASSUME Struct, Finite, Counted, Rest, NEW t \in Threads, NEW h, NEW w, NEW p, Broadcasts(t, h, w, p),
         Top(t).pend.kind # "broadcast_op"
  PROVE  Rest'
<1>1. /\ stack[t] # <<>> /\ Top(t).pend # NoJob /\ w \in Top(t).todo
      /\ h = WithPend(Top(t), p, Top(t).todo \ {w}) /\ h \in FrameSet /\ stack' = SetTop(t, h)
      /\ Top(t).pend \in JobSet /\ QPush(<<"bcast", w>>, Top(t).pend)
      /\ UNCHANGED <<foreign, panics>>
  BY DEF Broadcasts
<1>2. Top(t).pend.kind \in {"scope_job", "spawned"} /\ QMild /\ UNCHANGED <<clones, panics>> /\ Results
  BY <1>1 DEF Broadcasts, QMild, foreign, Rest
<1>3. Len(stack[t]) \in DOMAIN stack[t] /\ Top(t) = stack[t][Len(stack[t])] /\ Shape /\ FrameOK(Top(t))
  BY <1>1, TopFacts DEF Struct
<1>4. Top(t).pc \in UserPcs
  BY <1>1, <1>3 DEF FrameOK, PendOK
<1>5. Len(call') = Len(call) /\ (\A x \in 1 .. Len(call) : Records(x)) /\ CoreKept
  <2>1. CASE Top(t).pend.kind = "spawned"
    <3>1. UNCHANGED call
      BY <2>1 DEF Broadcasts
    <3> QED BY <3>1, CallSameMild
  <2>2. CASE Top(t).pend.kind = "scope_job"
    <3>1. PICK s : s = Top(t).pend.id
      OBVIOUS
    <3>2. s \in Top(t).env /\ s \in 1 .. Len(call) /\ call[s].kind = "scope" /\ Recounts(s, call[s].count + 1)
      BY <2>2, <3>1 DEF Broadcasts
    <3>3. Held(<<"held", s>>) > 0 /\ Held(<<"held", s>>) \in Nat
      BY <1>3, <1>4, <3>2, EnvHeld
    <3>4. call[s].count # 0
      <4>1. call[s].count > 0 /\ call[s].count \in Int
        BY <1>3, <3>2, <3>3, HeldLive, CallFacts DEF Counting
      <4> QED BY <4>1
    <3> QED BY <3>2, <3>4, RecountsMild
  <2> QED BY <1>2, <2>1, <2>2
<1>6. Mild(t, Len(stack[t]), h)
  BY <1>1, <1>2, <1>4, <1>5, PendMild
<1> QED BY <1>2, <1>6, MildRest

LEMMA EndedPanics ==
  ASSUME Struct, NEW t \in Threads, NEW e, Ended(t, e)
  PROVE  /\ panics \in Nat /\ panics' \in Nat /\ panics =< panics' /\ e \in Nat /\ e =< panics'
         /\ UNCHANGED clones /\ QSame /\ Ending(t, e)
<1>1. Ending(t, e) /\ UNCHANGED foreign
  BY DEF Ended
<1>2. e \in Nat /\ e =< panics' /\ Calm /\ UNCHANGED queues
  BY <1>1 DEF Ending
<1>3. panics \in Nat /\ panics' \in Nat /\ panics =< panics'
  BY <1>2 DEF Calm, Struct, Shape
<1> QED BY <1>1, <1>2, <1>3, QueueSame DEF foreign

LEMMA SpawnedEndsRest ==
  ASSUME Struct, Rest, NEW t \in Threads, NEW e, Ended(t, e), SpawnedEnds(t, e)
  PROVE  Rest'
<1>1. panics' \in Nat /\ panics =< panics' /\ UNCHANGED clones /\ QSame /\ Ending(t, e)
  BY EndedPanics
<1>2. PICK h : /\ h = WithPc(Top(t), "terminate", 0) /\ stack' = SetTop(t, h) /\ KindPc(h)
               /\ Top(t).kind = "spawned" /\ Top(t).pc = "run" /\ UNCHANGED call /\ CallsKeep
  BY <1>1, SpawnedEndsForm
<1>3. stack[t] # <<>> /\ Top(t) \in FrameSet
  BY <1>1, <1>2, EndingFacts
<1>4. Len(call') = Len(call) /\ (\A x \in 1 .. Len(call) : Records(x)) /\ CoreKept
  BY <1>2, CallSameMild
<1>5. FrameRes(h)'
  BY <1>2, <1>3, WithPcFields, FrameFree
<1>6. "terminate" \in AllPcs /\ 0 \in Nat /\ QMild
  BY <1>1 DEF AllPcs, QMild
<1>7. Mild(t, Len(stack[t]), h)
  BY <1>1, <1>2, <1>3, <1>4, <1>5, <1>6, PcMild
<1> QED BY <1>1, <1>7, MildRest

LEMMA NotifyRest ==
  ASSUME Struct, Rest, NEW t \in Threads, Notify(t)
  PROVE  Rest'
<1>0. /\ stack[t] # <<>> /\ Top(t).pc = "notify" /\ stack' = After(t)
      /\ clones' = [x \in Foreign |-> clones[x] \ {t}]
      /\ UNCHANGED <<queues, call, panics>>
  BY DEF Notify
<1>1. PICK n, f : Leaves(t, n, f)
  BY <1>0, AfterPuts DEF EndPcs
<1>2. Len(call') = Len(call) /\ (\A x \in 1 .. Len(call) : Records(x)) /\ CoreKept
  BY <1>0, CallSameMild
<1>3. QMild /\ Results /\ Cored /\ Shared /\ Cloned
  BY <1>0, QueueSame DEF QMild, Rest
<1>4. Mild(t, n, f)
  BY <1>0, <1>1, <1>2, <1>3, LeavesMild DEF EndPcs
<1>5. Results' /\ Cored' /\ Shared'
  BY <1>3, <1>4, MildCored, SoftResults, SoftShared DEF Mild
<1>6. Cloned'
  <2>1. n =< Len(stack[t]) /\ Stacks /\ Puts(t, n, f)
    <3>1. n \in DOMAIN stack[t] /\ Stacks /\ Puts(t, n, f)
      BY <1>1 DEF Leaves
    <3> QED BY <3>1, StackFacts DEF Stacks
  <2>2. Len(stack[t]) \in Nat /\ n \in Nat
    BY <2>1, StackFacts, PutsAt DEF Stacks
  <2>3. ~(n > Len(stack[t]))
    BY <2>1, <2>2
  <2>4. \A u \in Threads : \A o \in Foreign : u \in clones[o] /\ (u # t \/ n > Len(stack[t])) => u \in clones'[o]
    BY <1>0, <2>3
  <2>5. f.pc \notin {"core", "notify"}
    BY <1>4 DEF Mild, Soft
  <2>6. \A id \in 1 .. Len(call) : call'[id].kind = call[id].kind /\ call'[id].owner = call[id].owner
    BY <1>0
  <2>7. \A id \in 1 .. Len(call') : id \notin 1 .. Len(call) =>
           (CrossCalls \subseteq {"install"} /\ call'[id].owner \in Foreign => call'[id].kind = "install")
    BY <1>0
  <2> QED BY <1>3, <2>1, <2>4, <2>5, <2>6, <2>7, ClonedStep
<1> QED BY <1>5, <1>6 DEF Rest

LEMMA StillRest ==
  ASSUME Struct, Rest, UNCHANGED <<stack, queues, call, panics, clones>>
  PROVE  Rest'
<1>1. Cored'
  BY DEF Rest, Cored
<1>2. Cloned'
  BY DEF Rest, Cloned
<1>3. Queue' = Queue
  BY DEF queues, Queue
<1>4. Results'
  BY <1>3 DEF Rest, Results, CallRes, Witnessed, Resulted, Reported, FrameRes, QueueRes
<1>5. broadcasts' = broadcasts
  BY DEF queues
<1>6. Shared'
  BY <1>5 DEF Rest, Shared, SharedAt, ToCome, InQueue, OnStack
<1> QED BY <1>1, <1>2, <1>4, <1>6 DEF Rest

LEMMA PopEnderRest ==
  ASSUME Struct, Rest, NEW t \in Threads, stack[t] # <<>>, Top(t).pc \in {"terminate", "stop"}, stack' = PopFrame(t),
         UNCHANGED <<queues, call, panics, clones>>
  PROVE  Rest'
<1>1. Top(t).kind \in {"terminator", "spawned"}
  BY EnderFacts
<1>2. PICK n, f : /\ n = Len(stack[t]) - 1 /\ Stacks /\ Puts(t, n, f) /\ n \in DOMAIN stack[t] /\ f = stack[t][n]
                  /\ f.pc \in UserPcs \cup WaitPcs \cup {"loop"} /\ f.pend = NoJob /\ f.todo = {}
  BY <1>1, PoppedPuts DEF JobKinds
<1>3. Len(call') = Len(call) /\ (\A x \in 1 .. Len(call) : Records(x)) /\ CoreKept
  BY CallSameMild
<1>4. QMild /\ Results
  BY QueueSame DEF QMild, Rest
<1>5. ~Carrier(Top(t)) /\ Top(t).pc # "panicked"
  BY <1>1 DEF Carrier
<1>6. Mild(t, n, f)
  BY <1>2, <1>3, <1>4, <1>5, DropMild
<1> QED BY <1>6, MildRest

LEMMA LetsRest ==
  ASSUME Struct, Rest, NEW t \in Threads, Lets(t)
  PROVE  Rest'
<1>0. stack[t] # <<>> /\ Top(t).pc = "terminate" /\ UNCHANGED <<queues, call, panics, foreign>>
  BY DEF Lets
<1>1. UNCHANGED clones /\ QMild /\ panics \in Nat
  BY <1>0, QueueSame DEF foreign, QMild, Struct, Shape
<1>2. CASE stack' = PopFrame(t)
  BY <1>0, <1>1, <1>2, PopEnderRest
<1>3. CASE stack' = SetTop(t, WithPc(Top(t), "stop", 0))
  <2>1. PICK h : h = WithPc(Top(t), "stop", 0)
    OBVIOUS
  <2>2. Top(t) \in FrameSet /\ Top(t).kind \in {"terminator", "spawned"}
    BY <1>0, EnderFacts
  <2>3. FrameRes(h)'
    BY <2>1, <2>2, WithPcFields, FrameFree
  <2>4. Len(call') = Len(call) /\ (\A x \in 1 .. Len(call) : Records(x)) /\ CoreKept
    BY <1>0, CallSameMild
  <2>5. "stop" \in AllPcs /\ 0 \in Nat /\ stack' = SetTop(t, h) /\ panics' \in Nat /\ panics =< panics'
    BY <1>0, <1>1, <1>3, <2>1 DEF AllPcs
  <2>6. Mild(t, Len(stack[t]), h)
    BY <1>0, <1>1, <2>1, <2>2, <2>3, <2>4, <2>5, PcMild
  <2> QED BY <1>1, <2>6, MildRest
<1> QED BY <1>2, <1>3 DEF Lets

LEMMA StopWorkerRest ==
  ASSUME Struct, Rest, NEW t \in Threads, StopWorker(t)
  PROVE  Rest'
<1>0. /\ stack[t] # <<>> /\ Top(t).pc = "stop" /\ (stack' = PopFrame(t) \/ stack' = stack)
      /\ UNCHANGED <<queues, call, foreign, panics>>
  BY DEF StopWorker
<1>1. UNCHANGED clones
  BY <1>0 DEF foreign
<1>2. CASE stack' = PopFrame(t)
  BY <1>0, <1>1, <1>2, PopEnderRest
<1>3. CASE stack' = stack
  BY <1>0, <1>1, <1>3, StillRest
<1> QED BY <1>0, <1>2, <1>3

LEMMA RootRest ==
  ASSUME Struct, Rest, NEW t \in Threads, NEW f, Stacks, Puts(t, Len(stack[t]) + 1, f), f.kind \in {"main", "terminator"},
         f.pc \in {"wait", "terminate"}, UNCHANGED <<queues, call, panics, clones>>
  PROVE  Rest'
<1>1. Len(call') = Len(call) /\ (\A x \in 1 .. Len(call) : Records(x)) /\ CoreKept
  BY CallSameMild
<1>2. QMild /\ panics \in Nat
  BY QueueSame DEF QMild, Struct, Shape
<1>3. Len(stack[t]) \in Nat /\ DOMAIN stack[t] = 1 .. Len(stack[t])
  BY StackFacts DEF Stacks
<1>4. Len(stack[t]) + 1 > Len(stack[t]) /\ \A i \in DOMAIN stack[t] : ~(i >= Len(stack[t]) + 1)
  BY <1>3
<1>5. Carries(t, Len(stack[t]) + 1, f)
  BY <1>4 DEF Carries, Carrier
<1>6. FrameRes(f)'
  BY FrameFree
<1>7. panics' \in Nat /\ panics =< panics'
  BY <1>2
<1>8. Mild(t, Len(stack[t]) + 1, f)
  BY <1>1, <1>2, <1>4, <1>5, <1>6, <1>7 DEF Mild, Soft
<1> QED BY <1>8, MildRest

LEMMA SpawnThreadRest ==
  ASSUME Struct, Rest, SpawnThread
  PROVE  Rest'
<1>1. PICK w \in Workers : \E f :
           /\ pool = "building" /\ f = Frame("main", 0, {}, "wait") /\ stack' = PushFrame(w, f) /\ stack[w] = <<>>
           /\ started' = started \cup {w} /\ w \notin started
           /\ \E k \in 0 .. NumThreads - 1 : started = 1 .. k /\ w = k + 1
           /\ pool' = IF w = NumThreads THEN "open" ELSE pool
           /\ UNCHANGED <<queues, call, terminate_count, terminate, stopped, foreign, spawns, panics>>
  BY SpawnThreadForm
<1>2. PICK f : f = Frame("main", 0, {}, "wait") /\ stack' = PushFrame(w, f) /\ stack[w] = <<>>
               /\ UNCHANGED <<queues, call, foreign, panics>>
  BY <1>1
<1>3. w \in Threads
  BY DEF Threads
<1>4. Stacks /\ Puts(w, Len(stack[w]) + 1, f) /\ f.kind = "main" /\ f.pc = "wait"
  BY <1>2, <1>3, RootKeeps
<1>5. UNCHANGED clones
  BY <1>2 DEF foreign
<1> QED BY <1>2, <1>3, <1>4, <1>5, RootRest

LEMMA EndsRest ==
  ASSUME Struct, Rest, NEW f, Ends(f)
  PROVE  Rest'
<1>1. Stacks /\ Puts(Main, Len(stack[Main]) + 1, f) /\ f.kind = "terminator" /\ f.pc = "terminate" /\ Main \in Threads
  BY EndsStruct, ThreadFacts
<1>2. UNCHANGED <<queues, call, panics, clones>>
  BY DEF Ends, foreign
<1> QED BY <1>1, <1>2, RootRest

LEMMA ExitRest ==
  ASSUME Struct, Rest, NEW w \in Workers, Exit(w)
  PROVE  Rest'
<1>0. UNCHANGED <<queues, call, foreign, panics>> /\ w \in Threads
  BY DEF Exit, Threads
<1>1. /\ Len(stack[w]) = 1 /\ stack[w][1].kind = "main" /\ stack'[w] = <<>>
      /\ \A u \in Threads \ {w} : stack'[u] = stack[u]
      /\ stack \in [Threads -> Seq(FrameSet)]
  BY ExitForm
<1>2. \A u \in Threads : \A i \in DOMAIN stack'[u] : u # w /\ i \in DOMAIN stack[u] /\ stack'[u][i] = stack[u][i]
  BY <1>1
<1>3. DOMAIN stack[w] = {1} /\ stack[w][1].pc = "wait"
  <2>1. DOMAIN stack[w] = 1 .. 1
    BY <1>0, <1>1, StackFacts
  <2>2. FrameOK(stack[w][1])
    BY <1>0, <2>1, FrameIds
  <2> QED BY <1>1, <2>1, <2>2 DEF FrameOK, KindPc, StackJobs
<1>4. \A u \in Threads : \A i \in DOMAIN stack[u] :
        stack[u][i].kind # "main" \/ stack[u][i].pc # "wait" => i \in DOMAIN stack'[u] /\ stack'[u][i] = stack[u][i]
  BY <1>1, <1>3
<1>5. Cored'
  BY <1>0, <1>2, CoredFewer DEF Rest
<1>6. Cloned'
  BY <1>0, <1>2 DEF Rest, Cloned, foreign
<1>7. Results'
  <2>1. ASSUME NEW id \in 1 .. Len(call) PROVE CallRes(id)' /\ Witnessed(id)'
    <3>1. CallRes(id)'
      BY <1>0 DEF Rest, Results, CallRes, Resulted, Reported
    <3>2. Witnessed(id)
      BY DEF Rest, Results
    <3>3. Witnessed(id)'
      BY <3>2, <1>0, <1>4 DEF Witnessed
    <3> QED BY <3>1, <3>3
  <2>2. ASSUME NEW u \in Threads, NEW i \in DOMAIN stack'[u] PROVE FrameRes(stack[u][i])'
    <3>1. FrameRes(stack[u][i]) /\ stack'[u][i] = stack[u][i]
      BY <1>2 DEF Rest, Results
    <3> QED BY <3>1, <1>0 DEF FrameRes
  <2>3. Queue' = Queue
    BY <1>0 DEF queues, Queue
  <2>4. QueueRes'
    BY <2>3, <1>0 DEF Rest, Results, QueueRes
  <2> QED BY <2>1, <2>2, <2>4, <1>0 DEF Results
<1>8. Shared'
  <2>1. SUFFICES ASSUME NEW id \in 1 .. Len(call), call[id].kind = "broadcast", call[id].out = None, NEW v \in Workers
                 PROVE  SharedAt(v, id)'
    BY <1>0 DEF Shared
  <2>2. SharedAt(v, id) /\ call'[id].result[v] = call[id].result[v] /\ v \in Threads
    BY <2>1, <1>0 DEF Rest, Shared, Threads
  <2>3. ToCome(v, id)' <=> ToCome(v, id)
    BY <1>2, <1>4 DEF ToCome
  <2>4. \A i : OnStack(v, id, i)' <=> OnStack(v, id, i)
    BY <1>2, <1>4, <2>2 DEF OnStack
  <2>5. broadcasts' = broadcasts /\ broadcasts[v] \in Seq(JobSet)
    BY <1>0 DEF queues, Struct, Shape
  <2>6. Shifts(v, id, 0)
    BY <2>5 DEF Shifts, InQueue
  <2> QED BY <2>2, <2>3, <2>4, <2>6, SharedKeeps DEF StaysOn
<1> QED BY <1>5, <1>6, <1>7, <1>8 DEF Rest

-----------------------------------------------------------------------------
(* Steps that go on to set a latch, or set it.                               *)
LEMMA AtTop ==
  ASSUME Struct, NEW t \in Threads, stack[t] # <<>>
  PROVE  /\ Len(stack[t]) \in Nat /\ Len(stack[t]) \in DOMAIN stack[t] /\ stack[t][Len(stack[t])] = Top(t)
         /\ \A i \in DOMAIN stack[t] : i >= Len(stack[t]) => i = Len(stack[t])
         /\ \A i \in DOMAIN stack[t] : ~(i > Len(stack[t]))
  BY StackFacts DEF Struct, Shape

LEMMA CountsDownHeld ==
  ASSUME Struct, Finite, Counted, NEW t \in Threads, NEW id, CountsDown(t, id)
  PROVE  call[id].count # 0 /\ ~call[id].set /\ call[id].out = None /\ call[id].count \in Int
<1>1. /\ stack[t] # <<>> /\ id = Top(t).id /\ id \in 1 .. Len(call) /\ Top(t).pc = "set"
      /\ Top(t).kind \in {"scope", "scope_job", "broadcast_op"} /\ call[id].kind \in Counting
  BY DEF CountsDown
<1>2. Len(stack[t]) \in DOMAIN stack[t] /\ stack[t][Len(stack[t])] = Top(t) /\ Shape
  BY <1>1, AtTop DEF Struct
<1>3. Token(Top(t))
  BY <1>1 DEF Token
<1>4. Held(<<"held", id>>) \in Nat /\ Held(<<"held", id>>) > 0
  BY <1>1, <1>2, <1>3, TokenHeld
<1>5. call[id].count > 0 /\ ~call[id].set /\ call[id].out = None
  BY <1>1, <1>4, HeldLive
<1>6. call[id].count \in Int
  BY <1>1, <1>2, CallFacts
<1> QED BY <1>5, <1>6

LEMMA EndSoft ==
  ASSUME Struct, NEW t \in Threads, stack[t] # <<>>, Top(t).pc \in EndPcs \ {"panicked"}, NEW pc \in AllPcs, NEW h,
         h = WithPc(Top(t), pc, 0), pc \in {"core", "notify"}, stack' = SetTop(t, h), FrameRes(h)', QSame, UNCHANGED panics,
         Len(call') = Len(call), \A id \in 1 .. Len(call) : Records(id), CoreKept
  PROVE  Soft(t, Len(stack[t]), h)
<1>1. /\ Stacks /\ Puts(t, Len(stack[t]), h) /\ h.kind = Top(t).kind /\ h.pc = pc /\ h.id = Top(t).id
  BY WithPcPuts
<1>2. Top(t).kind \in {"scope"} \cup (JobKinds \ {"spawned"}) /\ panics \in Nat
  BY EndedFacts
<1>3. \A i \in DOMAIN stack[t] : i >= Len(stack[t]) => stack[t][i] = Top(t)
  BY AtTop
<1>4. ~Carrier(Top(t)) /\ ~Carrier(h)
  BY <1>1, <1>2 DEF Carrier, EndPcs, JobKinds, StackJobs
<1>5. Carries(t, Len(stack[t]), h)
  BY <1>3, <1>4 DEF Carries
<1>6. QMild /\ panics' \in Nat /\ panics =< panics'
  BY <1>2 DEF QMild
<1> QED BY <1>1, <1>2, <1>5, <1>6 DEF Soft, EndPcs

LEMMA CountsDownRest ==
  ASSUME Struct, Finite, Counted, Rest, NEW t \in Threads, NEW id, CountsDown(t, id)
  PROVE  Rest'
<1>1. /\ stack[t] # <<>> /\ id = Top(t).id /\ id \in 1 .. Len(call) /\ Top(t).pc = "set"
      /\ Top(t).kind \in {"scope", "scope_job", "broadcast_op"} /\ call[id].kind \in Counting
      /\ Recounts(id, call[id].count - 1) /\ UNCHANGED <<queues, foreign, panics>>
  BY DEF CountsDown
<1>2. call[id].count # 0 /\ ~call[id].set /\ call[id].out = None /\ call[id].count \in Int
  BY CountsDownHeld
<1>3. Len(call') = Len(call) /\ (\A x \in 1 .. Len(call) : Records(x)) /\ CoreKept
  BY <1>1, <1>2, RecountsMild
<1>4. QSame /\ QMild /\ UNCHANGED clones /\ Cored /\ Results /\ Shared /\ Cloned /\ Shape
  BY <1>1, QueueSame DEF QMild, foreign, Rest, Struct
<1>5. CASE stack' = After(t)
  <2>1. PICK n, f : Leaves(t, n, f)
    BY <1>1, <1>5, AfterPuts DEF EndPcs
  <2>2. Mild(t, n, f)
    BY <1>1, <1>3, <1>4, <2>1, LeavesMild DEF EndPcs
  <2> QED BY <1>4, <2>2, MildRest
<1>6. CASE call[id].count = 1 /\ stack' = SetTop(t, WithPc(Top(t), "core", 0))
  <2>1. PICK h : h = WithPc(Top(t), "core", 0)
    OBVIOUS
  <2>2. "core" \in AllPcs /\ 0 \in Nat /\ stack' = SetTop(t, h)
    BY <1>6, <2>1 DEF AllPcs
  <2>3. /\ Stacks /\ Puts(t, Len(stack[t]), h) /\ h.kind = Top(t).kind /\ h.id = id /\ h.pc = "core"
    BY <1>1, <2>1, <2>2, WithPcPuts
  <2>4. FrameRes(h)'
    BY <1>1, <2>3, FrameFree
  <2>5. Soft(t, Len(stack[t]), h)
    BY <1>1, <1>3, <1>4, <2>1, <2>2, <2>4, EndSoft DEF EndPcs
  <2>6. Results' /\ Shared'
    BY <1>4, <2>5, SoftResults, SoftShared
  <2>7. call'[id].count = 0 /\ ~call'[id].set /\ call'[id].kind = call[id].kind /\ call'[id].owner = call[id].owner
    BY <1>1, <1>2, <1>6 DEF Recounts
  <2>8. \A u \in Threads : \A i \in DOMAIN stack[u] : stack[u][i].pc = "core" => stack[u][i].id # id
    BY <1>1, <1>2, <1>4 DEF Cored
  <2>9. Cored'
    <3>1. ASSUME NEW u \in Threads, NEW i \in DOMAIN stack'[u], stack'[u][i].pc = "core", ~(u = t /\ i = Len(stack[t]))
          PROVE  i \in DOMAIN stack[u] /\ stack'[u][i] = stack[u][i] /\ stack'[u][i].id # id
      <4>1. i \in DOMAIN stack[u] /\ stack'[u][i] = stack[u][i]
        BY <2>3, <3>1, PutsElse
      <4> QED BY <4>1, <3>1, <2>8
    <3>2. stack'[t][Len(stack[t])] = h
      BY <2>3 DEF Puts
    <3>3. ASSUME NEW u \in Threads, NEW i \in DOMAIN stack'[u], stack'[u][i].pc = "core",
                 call'[stack'[u][i].id].kind \in Counting
          PROVE  /\ ~call'[stack'[u][i].id].set /\ call'[stack'[u][i].id].count = 0
                 /\ \A v \in Threads : \A j \in DOMAIN stack'[v] :
                      stack'[v][j].pc = "core" /\ stack'[v][j].id = stack'[u][i].id => v = u
      <4>1. CASE u = t /\ i = Len(stack[t])
        <5>1. stack'[u][i].id = id
          BY <4>1, <3>2, <2>3
        <5>2. \A v \in Threads : \A j \in DOMAIN stack'[v] : stack'[v][j].pc = "core" /\ stack'[v][j].id = id => v = t
          BY <3>1
        <5> QED BY <4>1, <5>1, <5>2, <2>7
      <4>2. CASE ~(u = t /\ i = Len(stack[t]))
        <5>1. i \in DOMAIN stack[u] /\ stack'[u][i] = stack[u][i] /\ stack[u][i].id # id /\ stack[u][i].pc = "core"
          BY <3>1, <3>3, <4>2
        <5>2. PICK x : x = stack[u][i].id
          OBVIOUS
        <5>3. FrameOK(stack[u][i])
          BY <5>1, FrameIds
        <5>4. stack[u][i].kind \notin Rootless
          BY <5>1, <5>3 DEF FrameOK, KindPc, Rootless, StackJobs
        <5>5. x \in 1 .. Len(call)
          BY <5>1, <5>2, <5>4, FrameIds
        <5>6. call'[x].kind = call[x].kind
          BY <5>5, <1>3 DEF CoreKept
        <5>7. call[x].count = 0 /\ ~call[x].set
          BY <1>4, <3>3, <5>1, <5>2, <5>6 DEF Cored
        <5>8. call'[x].count = 0 /\ ~call'[x].set
          BY <5>5, <5>7, <1>3 DEF CoreKept
        <5>9. ASSUME NEW v \in Threads, NEW j \in DOMAIN stack'[v], stack'[v][j].pc = "core", stack'[v][j].id = x
              PROVE  v = u
          <6>1. ~(v = t /\ j = Len(stack[t]))
            BY <5>9, <5>1, <5>2, <3>2, <2>3
          <6>2. j \in DOMAIN stack[v] /\ stack'[v][j] = stack[v][j]
            BY <5>9, <6>1, <3>1
          <6> QED BY <1>4, <3>3, <5>1, <5>2, <5>6, <5>9, <6>2 DEF Cored
        <5> QED BY <5>1, <5>2, <5>8, <5>9
      <4> QED BY <4>1, <4>2
    <3> QED BY <3>3 DEF Cored
  <2>10. Cloned'
    <3>1. CrossCalls \subseteq {"install"} => call'[id].owner \notin Foreign
      BY <1>1, <1>4, <2>7 DEF Cloned, Counting
    <3>2. \A x \in 1 .. Len(call) : call'[x].kind = call[x].kind /\ call'[x].owner = call[x].owner
      BY <1>3 DEF Records, Plain
    <3> QED BY <1>3, <1>4, <2>3, <3>1, <3>2, ClonedStep
  <2> QED BY <2>6, <2>9, <2>10 DEF Rest
<1> QED BY <1>5, <1>6 DEF CountsDown

LEMMA CoresRest ==
  ASSUME Struct, Rest, NEW t \in Threads, NEW id, NEW h, Cores(t, id, h)
  PROVE  Rest'
<1>1. /\ stack[t] # <<>> /\ id = Top(t).id /\ id \in 1 .. Len(call) /\ Top(t).pc = "set"
      /\ Top(t).kind \in {"join_b", "install_op"} /\ call[id].kind = Of(Top(t).kind)
      /\ h = WithPc(Top(t), "core", 0) /\ stack' = SetTop(t, h)
      /\ clones' = IF call[id].owner \in Foreign THEN [clones EXCEPT ![call[id].owner] = @ \cup {t}] ELSE clones
      /\ UNCHANGED <<queues, call, panics>>
  BY DEF Cores
<1>2. Len(call') = Len(call) /\ (\A x \in 1 .. Len(call) : Records(x)) /\ CoreKept
  BY <1>1, CallSameMild
<1>3. QSame /\ Cored /\ Results /\ Shared /\ Cloned /\ clones \in [Foreign -> SUBSET Threads]
  BY <1>1, QueueSame DEF Rest, Struct, Shape
<1>4. "core" \in AllPcs /\ 0 \in Nat
  BY DEF AllPcs
<1>5. /\ Stacks /\ Puts(t, Len(stack[t]), h) /\ h.kind = Top(t).kind /\ h.id = id /\ h.pc = "core"
  BY <1>1, <1>4, WithPcPuts
<1>6. FrameRes(Top(t))
  BY <1>1, <1>3, AtTop DEF Results
<1>7. call[id].result[0] # None
  BY <1>1, <1>6 DEF FrameRes
<1>8. FrameRes(h)'
  BY <1>1, <1>5, <1>7 DEF FrameRes
<1>9. Soft(t, Len(stack[t]), h)
  BY <1>1, <1>2, <1>3, <1>4, <1>8, EndSoft DEF EndPcs
<1>10. Results' /\ Shared'
  BY <1>3, <1>9, SoftResults, SoftShared
<1>11. call'[h.id].kind \notin Counting
  BY <1>1, <1>5 DEF Counting, Of
<1>12. Cored'
  BY <1>2, <1>3, <1>5, <1>11, CoredStep
<1>13. \A u \in Threads : \A o \in Foreign : u \in clones[o] /\ (u # t \/ Len(stack[t]) > Len(stack[t])) => u \in clones'[o]
  BY <1>1, <1>3
<1>14. call'[h.id].owner \in Foreign => t \in clones'[call'[h.id].owner]
  BY <1>1, <1>3, <1>5
<1>15. \A x \in 1 .. Len(call) : call'[x].kind = call[x].kind /\ call'[x].owner = call[x].owner
  BY <1>1
<1>16. Cloned'
  BY <1>2, <1>3, <1>5, <1>13, <1>14, <1>15, ClonedStep
<1> QED BY <1>10, <1>12, <1>16 DEF Rest

CoresBut(t, n, s) ==
  /\ \A id \in 1 .. Len(call) : id # s =>
       /\ call'[id].kind = call[id].kind
       /\ call[id].count = 0 /\ ~call[id].set => call'[id].count = 0 /\ ~call'[id].set
  /\ \A u \in Threads : \A i \in DOMAIN stack[u] :
       (u # t \/ i < n) /\ stack[u][i].pc = "core" => stack[u][i].id # s
LEMMA CoredElse ==
  ASSUME Struct, Cored, Stacks, NEW t \in Threads, NEW n, NEW f, Puts(t, n, f), NEW s, CoresBut(t, n, s), f.pc # "core"
  PROVE  Cored'
<1>1. ASSUME NEW u \in Threads, NEW i \in DOMAIN stack'[u], stack'[u][i].pc = "core"
      PROVE  i \in DOMAIN stack[u] /\ stack'[u][i] = stack[u][i] /\ stack[u][i].id # s
             /\ stack[u][i].id \in 1 .. Len(call)
  <2>1. n \in Nat /\ DOMAIN stack'[t] = 1 .. n /\ stack'[t][n] = f
    BY PutsAt DEF Stacks
  <2>2. ~(u = t /\ i = n)
    BY <1>1, <2>1
  <2>3. i \in DOMAIN stack[u] /\ stack'[u][i] = stack[u][i]
    BY <2>2, PutsElse
  <2>4. u # t \/ i < n
    BY <2>1, <2>2
  <2>5. stack[u][i].id # s
    BY <1>1, <2>3, <2>4 DEF CoresBut
  <2>6. FrameOK(stack[u][i])
    BY <2>3, FrameIds
  <2>7. stack[u][i].kind \notin Rootless
    BY <1>1, <2>3, <2>6 DEF FrameOK, KindPc, Rootless, StackJobs
  <2> QED BY <2>3, <2>5, <2>7, FrameIds
<1>2. SUFFICES ASSUME NEW u \in Threads, NEW i \in DOMAIN stack'[u], stack'[u][i].pc = "core",
                 call'[stack'[u][i].id].kind \in Counting
          PROVE  /\ ~call'[stack'[u][i].id].set /\ call'[stack'[u][i].id].count = 0
                 /\ \A v \in Threads : \A j \in DOMAIN stack'[v] :
                      stack'[v][j].pc = "core" /\ stack'[v][j].id = stack'[u][i].id => v = u
  BY DEF Cored
<1>3. PICK x : x = stack[u][i].id
  OBVIOUS
<1>4. i \in DOMAIN stack[u] /\ stack'[u][i] = stack[u][i] /\ x # s /\ x \in 1 .. Len(call) /\ stack[u][i].pc = "core"
  BY <1>1, <1>2, <1>3
<1>5. call'[x].kind = call[x].kind /\ (call[x].count = 0 /\ ~call[x].set => call'[x].count = 0 /\ ~call'[x].set)
  BY <1>4 DEF CoresBut
<1>6. call[x].count = 0 /\ ~call[x].set
  BY <1>2, <1>3, <1>4, <1>5 DEF Cored
<1>7. ASSUME NEW v \in Threads, NEW j \in DOMAIN stack'[v], stack'[v][j].pc = "core", stack'[v][j].id = x
      PROVE  v = u
  <2>1. j \in DOMAIN stack[v] /\ stack'[v][j] = stack[v][j]
    BY <1>1, <1>7
  <2> QED BY <2>1, <1>2, <1>3, <1>4, <1>5, <1>7 DEF Cored
<1> QED BY <1>3, <1>4, <1>5, <1>6, <1>7

LEMMA SetsPlain ==
  ASSUME NEW id \in 1 .. Len(call), SetsLatch(id)
  PROVE  Len(call') = Len(call) /\ (\A x \in 1 .. Len(call) : Plain(x)) /\ \A x \in 1 .. Len(call) : x # id => call'[x] = call[x]
<1>1. ASSUME NEW x \in 1 .. Len(call) PROVE Plain(x)
  <2>1. CASE x = id
    BY <2>1 DEF SetsLatch, Plain
  <2>2. CASE x # id
    BY <2>2 DEF SetsLatch, Plain
  <2> QED BY <2>1, <2>2
<1> QED BY <1>1 DEF SetsLatch

LEMMA LatchFrame ==
  ASSUME Struct, Results, NEW t \in Threads, NEW id, Latches(t, id)
  PROVE  \E n, f : /\ Stacks /\ Puts(t, n, f) /\ n \in DOMAIN stack[t] /\ f.pc # "core" /\ FrameRes(f)' /\ Carries(t, n, f)
                   /\ f.pc = "notify" => f.id = id /\ Top(t).pc = "core"
<1>1. /\ stack[t] # <<>> /\ id = Top(t).id /\ id \in 1 .. Len(call) /\ Top(t).pc \in EndPcs \ {"panicked"} /\ SetsLatch(id)
      /\ \/ stack' = After(t)
         \/ Top(t).pc = "core" /\ stack' = SetTop(t, WithPc(Top(t), "notify", 0))
  BY DEF Latches
<1>2. Len(call') = Len(call) /\ \A x \in 1 .. Len(call) : Plain(x)
  BY <1>1, SetsPlain
<1>3. Top(t).kind \in {"scope"} \cup (JobKinds \ {"spawned"}) /\ Top(t).pc # "run"
  BY <1>1, EndedFacts DEF EndPcs
<1>4. ~Carrier(Top(t))
  BY <1>3 DEF Carrier, JobKinds, StackJobs
<1>5. /\ Len(stack[t]) \in Nat /\ Len(stack[t]) \in DOMAIN stack[t] /\ stack[t][Len(stack[t])] = Top(t)
      /\ \A i \in DOMAIN stack[t] : i >= Len(stack[t]) => i = Len(stack[t])
      /\ DOMAIN stack[t] = 1 .. Len(stack[t])
  BY <1>1, AtTop, StackFacts DEF Struct, Shape
<1>6. CASE stack' = After(t)
  <2>1. PICK n, f : Leaves(t, n, f)
    BY <1>1, <1>6, AfterPuts
  <2>2. Stacks /\ Puts(t, n, f) /\ n \in DOMAIN stack[t] /\ f.pc \notin {"core", "notify"}
    BY <2>1 DEF Leaves, UserPcs, WaitPcs
  <2>3. FrameRes(f)' /\ Carries(t, n, f)
    <3>1. CASE n = Len(stack[t]) /\ Top(t).kind = "scope" /\ f.pc = "wait" /\ f.kind = "scope"
      <4>1. FrameRes(f)'
        BY <3>1, FrameFree
      <4>2. \A i \in DOMAIN stack[t] : i >= n => ~Carrier(stack[t][i])
        BY <3>1, <1>4, <1>5
      <4> QED BY <3>1, <4>1, <4>2 DEF Carries, Carrier
    <3>2. CASE n = Len(stack[t]) - 1 /\ f = stack[t][n] /\ Top(t).kind \in JobKinds
      <4>1. FrameRes(f) /\ (f.kind \notin Rootless => f.id \in 1 .. Len(call))
        BY <2>2, <3>2, FrameIds DEF Results
      <4>2. f.kind \in {"join", "join_b", "install_op"} => Plain(f.id)
        BY <4>1, <1>2 DEF Rootless
      <4>3. FrameRes(f)'
        BY <4>1, <4>2, FrameKeeps
      <4>4. \A i \in DOMAIN stack[t] : i > n => i = Len(stack[t])
        BY <3>2, <1>5
      <4>5. \A i \in DOMAIN stack[t] : i > n => ~Carrier(stack[t][i])
        BY <4>4, <1>4, <1>5
      <4> QED BY <2>2, <3>2, <4>3, <4>5 DEF Carries
    <3> QED BY <2>1, <3>1, <3>2 DEF Leaves
  <2> QED BY <2>2, <2>3
<1>7. CASE Top(t).pc = "core" /\ stack' = SetTop(t, WithPc(Top(t), "notify", 0))
  <2>1. PICK h : h = WithPc(Top(t), "notify", 0)
    OBVIOUS
  <2>2. "notify" \in AllPcs /\ 0 \in Nat /\ stack' = SetTop(t, h)
    BY <1>7, <2>1 DEF AllPcs
  <2>3. Stacks /\ Puts(t, Len(stack[t]), h) /\ h.kind = Top(t).kind /\ h.id = id /\ h.pc = "notify"
    BY <1>1, <2>1, <2>2, WithPcPuts
  <2>4. FrameRes(h)'
    <3>1. h.kind # "join"
      BY <2>3, <1>3 DEF JobKinds, StackJobs
    <3> QED BY <2>3, <3>1 DEF FrameRes
  <2>5. \A i \in DOMAIN stack[t] : i >= Len(stack[t]) => ~Carrier(stack[t][i])
    BY <1>4, <1>5
  <2>6. ~Carrier(h)
    BY <2>3, <1>3 DEF Carrier, JobKinds, StackJobs
  <2>7. Carries(t, Len(stack[t]), h)
    BY <2>5, <2>6 DEF Carries
  <2> QED BY <1>5, <1>7, <2>3, <2>4, <2>7
<1> QED BY <1>1, <1>6, <1>7

LEMMA ShareHeld ==
  ASSUME Struct, Finite, NEW id, NEW w \in Workers,
         \/ ToCome(w, id)
         \/ \E i \in DOMAIN broadcasts[w] : InQueue(w, id, i)
         \/ \E i \in DOMAIN stack[w] : OnStack(w, id, i)
  PROVE  Held(<<"held", id>>) \in Nat /\ Held(<<"held", id>>) > 0
<1>0. Shape /\ w \in Threads
  BY DEF Struct, Threads
<1>1. CASE ToCome(w, id)
  <2>1. PICK t \in Threads : \E i \in DOMAIN stack[t] :
          stack[t][i].kind = "broadcast" /\ stack[t][i].id = id /\ w \in stack[t][i].todo
    BY <1>1 DEF ToCome
  <2>2. PICK i \in DOMAIN stack[t] :
          stack[t][i].kind = "broadcast" /\ stack[t][i].id = id /\ w \in stack[t][i].todo
    BY <2>1
  <2>3. FrameOK(stack[t][i])
    BY FrameIds
  <2>4. stack[t][i].pc \notin UserPcs
    BY <2>2, <2>3 DEF FrameOK, KindPc, UserPcs, StackJobs
  <2>5. stack[t][i].pend # NoJob /\ stack[t][i].pend.kind = "broadcast_op" /\ stack[t][i].pend.id = id
    BY <2>2, <2>3, <2>4 DEF FrameOK, PendOK
  <2> QED BY <1>0, <2>5, PendHeld
<1>2. CASE \E i \in DOMAIN broadcasts[w] : InQueue(w, id, i)
  <2>1. PICK i \in DOMAIN broadcasts[w] : InQueue(w, id, i)
    BY <1>2
  <2>2. <<"bcast", w>> \in Names /\ Queue[<<"bcast", w>>] = broadcasts[w]
    BY QueueAt
  <2>3. PICK q \in Names : Queue[q] = broadcasts[w]
    BY <2>2
  <2>4. i \in DOMAIN Queue[q] /\ id = Queue[q][i].id
    BY <2>1, <2>3 DEF InQueue
  <2> QED BY <1>0, <2>4, QueuedHeld
<1>3. CASE \E i \in DOMAIN stack[w] : OnStack(w, id, i)
  <2>1. PICK i \in DOMAIN stack[w] : OnStack(w, id, i)
    BY <1>3
  <2>2. Token(stack[w][i]) /\ stack[w][i].id = id
    BY <2>1 DEF OnStack, Token
  <2> QED BY <1>0, <2>2, TokenHeld
<1> QED BY <1>1, <1>2, <1>3

LEMMA LatchesRest ==
  ASSUME Struct, Finite, Counted, Rest, NEW t \in Threads, NEW id, Latches(t, id)
  PROVE  Rest'
<1>1. /\ stack[t] # <<>> /\ id = Top(t).id /\ id \in 1 .. Len(call) /\ Top(t).pc \in EndPcs \ {"panicked"} /\ SetsLatch(id)
      /\ \/ Top(t).kind \in {"join_b", "install_op"} /\ Top(t).pc = "set"
         \/ Top(t).pc = "core"
      /\ call[id].kind = (IF Top(t).kind = "scope" THEN "scope" ELSE Of(Top(t).kind))
      /\ UNCHANGED <<queues, foreign, panics>>
  BY DEF Latches
<1>2. Cored /\ Results /\ Shared /\ Cloned /\ QSame /\ QMild /\ UNCHANGED clones /\ panics \in Nat /\ Shape /\ Len(call) \in Nat
  BY <1>1, QueueSame DEF Rest, QMild, foreign, Struct, Shape
<1>3. /\ Len(call') = Len(call) /\ (\A x \in 1 .. Len(call) : Plain(x)) /\ \A x \in 1 .. Len(call) : x # id => call'[x] = call[x]
  BY <1>1, SetsPlain
<1>4. PICK n, f : /\ Stacks /\ Puts(t, n, f) /\ n \in DOMAIN stack[t] /\ f.pc # "core" /\ FrameRes(f)' /\ Carries(t, n, f)
                  /\ f.pc = "notify" => f.id = id /\ Top(t).pc = "core"
  BY <1>2, LatchFrame
<1>5. /\ Top(t).kind \in {"scope"} \cup (JobKinds \ {"spawned"}) /\ Top(t).pc # "panicked"
      /\ Len(stack[t]) \in DOMAIN stack[t] /\ stack[t][Len(stack[t])] = Top(t) /\ Len(stack[t]) \in Nat
      /\ n \in Nat /\ n =< Len(stack[t])
  <2>1. DOMAIN stack[t] = 1 .. Len(stack[t])
    BY <1>4, StackFacts DEF Stacks
  <2> QED BY <1>1, <1>4, <2>1, AtTop, EndedFacts
<1>6. call'[id].set /\ call'[id].count = call[id].count
  BY <1>1 DEF SetsLatch
<1>7. Entry(id)
  BY <1>1 DEF Counted
<1>8. call[id].kind \in Counting => Top(t).pc = "core" /\ call[id].count = 0 /\ ~call[id].set
  <2>1. SUFFICES ASSUME call[id].kind \in Counting
                 PROVE  Top(t).pc = "core" /\ call[id].count = 0 /\ ~call[id].set
    OBVIOUS
  <2>2. Top(t).kind \notin {"join_b", "install_op"}
    BY <2>1, <1>1 DEF Counting, Of
  <2>3. Top(t).pc = "core"
    BY <2>2, <1>1
  <2> QED BY <1>1, <1>2, <1>5, <2>1, <2>3 DEF Cored
<1>9. Cored'
  <2>1. \A x \in 1 .. Len(call) : x # id =>
           /\ call'[x].kind = call[x].kind
           /\ call[x].count = 0 /\ ~call[x].set => call'[x].count = 0 /\ ~call'[x].set
    BY <1>3
  <2>2. CASE call[id].kind \in Counting
    <3>1. ASSUME NEW u \in Threads, NEW i \in DOMAIN stack[u], u # t \/ i < n, stack[u][i].pc = "core", stack[u][i].id = id
          PROVE  FALSE
      <4>1. u = t
        BY <1>1, <1>2, <1>5, <1>8, <2>2, <3>1 DEF Cored
      <4>2. i = Len(stack[u])
        BY <3>1, EndOnTop DEF EndPcs
      <4> QED BY <3>1, <4>1, <4>2, <1>5
    <3>2. \A u \in Threads : \A i \in DOMAIN stack[u] :
            (u # t \/ i < n) /\ stack[u][i].pc = "core" => stack[u][i].id # id
      BY <3>1
    <3>3. Cored /\ Stacks /\ Puts(t, n, f) /\ f.pc # "core"
      BY <1>2, <1>4
    <3>4. CoresBut(t, n, id)
      BY <2>1, <3>2 DEF CoresBut
    <3> QED BY <3>3, <3>4, CoredElse
  <2>3. CASE call[id].kind \notin Counting
    <3>1. call[id].count = 1
      BY <1>7, <2>3 DEF Entry
    <3>2. CoreKept
      BY <1>3, <3>1 DEF CoreKept, Plain
    <3> QED BY <1>2, <1>4, <3>2, CoredStep
  <2> QED BY <2>2, <2>3
<1>10. Shared'
  <2>1. \A x \in 1 .. Len(call) :
           /\ call'[x].kind = call[x].kind
           /\ call[x].kind = "broadcast" /\ call'[x].out = None =>
                call[x].out = None /\ call'[x].result = call[x].result
    BY <1>3 DEF Plain
  <2> QED BY <1>2, <1>3, <1>4, <2>1, SharedStep
<1>11. Cloned'
  <2>1. \A x \in 1 .. Len(call) : call'[x].kind = call[x].kind /\ call'[x].owner = call[x].owner
    BY <1>3 DEF Plain
  <2>2. f.pc \in {"core", "notify"} /\ call'[f.id].owner \in Foreign /\ CrossCalls \subseteq {"install"} =>
          t \in clones'[call'[f.id].owner]
    BY <1>1, <1>2, <1>4, <1>5, <2>1 DEF Cloned
  <2> QED BY <1>2, <1>3, <1>4, <2>1, <2>2, ClonedStep
<1>12. CallRes(id)'
  <2>1. CallRes(id) /\ Plain(id) /\ call[id] \in CallSet
    BY <1>1, <1>2, <1>3 DEF Results, Shape
  <2>2. CASE call[id].out # None
    BY <2>1, <2>2, <1>1 DEF CallRes, Plain, Reported
  <2>3. CASE call[id].out = None
    <3>1. Resulted(call[id])
      BY <2>1, <2>3 DEF CallRes
    <3>2. call[id].kind # "scope" => \A w \in DOMAIN call[id].result : call[id].result[w] # None
      <4>1. CASE Top(t).kind \in {"join_b", "install_op"}
        <5>1. FrameRes(Top(t))
          BY <1>2, <1>5 DEF Results
        <5>2. call[id].result[0] # None
          BY <1>1, <4>1, <5>1 DEF FrameRes
        <5>3. call[id].kind # "broadcast"
          BY <1>1, <4>1 DEF Of
        <5>4. DOMAIN call[id].result = {0}
          BY <3>1, <5>3 DEF Resulted
        <5> QED BY <5>2, <5>4
      <4>2. CASE Top(t).kind = "broadcast_op"
        <5>1. call[id].kind = "broadcast"
          BY <1>1, <4>2 DEF Of
        <5>2. call[id].count = 0
          BY <1>8, <5>1 DEF Counting
        <5>3. Held(<<"held", id>>) = 0
          BY <1>7, <5>1, <5>2 DEF Entry, Due, Counting
        <5>4. DOMAIN call[id].result = Workers
          BY <3>1, <5>1 DEF Resulted
        <5>5. ASSUME NEW w \in Workers PROVE call[id].result[w] # None
          <6>1. SharedAt(w, id)
            BY <1>1, <1>2, <2>3, <5>1 DEF Shared
          <6>2. ~( \/ ToCome(w, id)
                   \/ \E i \in DOMAIN broadcasts[w] : InQueue(w, id, i)
                   \/ \E i \in DOMAIN stack[w] : OnStack(w, id, i))
            BY <5>3, ShareHeld
          <6> QED BY <6>1, <6>2 DEF SharedAt
        <5> QED BY <5>4, <5>5
      <4>3. CASE Top(t).kind \in {"scope", "scope_job"}
        BY <1>1, <4>3 DEF Of
      <4> QED BY <1>5, <4>1, <4>2, <4>3 DEF JobKinds, StackJobs
    <3>3. Resulted(call[id])'
      BY <1>1, <2>1, <3>1, <3>2 DEF Resulted, Plain
    <3> QED BY <1>1, <2>1, <2>3, <3>3 DEF CallRes, Plain
  <2> QED BY <2>2, <2>3
<1>13. Witnessed(id)'
  <2>1. Witnessed(id) /\ Plain(id)
    BY <1>1, <1>2, <1>3 DEF Results
  <2> QED BY <1>1, <1>4, <1>5, <2>1, WitnessedKeeps
<1>14. QueueRes'
  <2>1. ASSUME NEW q \in Names, NEW i \in DOMAIN Queue[q], Queue[q][i].kind \in {"join_b", "install_op"}
        PROVE  call'[Queue[q][i].id].result[0] = call[Queue[q][i].id].result[0]
    <3>1. Queue[q][i].id \in 1 .. Len(call)
      BY <2>1, QueueIds
    <3> QED BY <3>1, <1>3 DEF Plain
  <2> QED BY <1>2, <2>1, QueueKeeps DEF Results
<1>15. Results'
  <2>1. ASSUME NEW u \in Threads, NEW i \in DOMAIN stack[u], NEW g, g = stack[u][i], g.id = id PROVE FrameRes(g)'
    <3>1. FrameRes(g)
      BY <1>2, <2>1 DEF Results
    <3>2. Plain(g.id)
      BY <1>1, <1>3, <2>1
    <3> QED BY <3>1, <3>2, FrameKeeps
  <2>2. \A x \in 1 .. Len(call') : x # id => x \in 1 .. Len(call) /\ Records(x)
    BY <1>3 DEF Records, Plain
  <2>3. panics' \in Nat /\ panics =< panics' /\ Len(call) =< Len(call')
    BY <1>1, <1>2, <1>3
  <2> QED BY <1>1, <1>2, <1>4, <1>12, <1>13, <1>14, <2>1, <2>2, <2>3, ResultsStep
<1> QED BY <1>9, <1>10, <1>11, <1>15 DEF Rest

-----------------------------------------------------------------------------
(* Ends of closures.                                                         *)
Edits(t, h, pc, e, id) ==
  /\ stack[t] # <<>> /\ id \in 1 .. Len(call) /\ h = WithPc(Top(t), pc, e) /\ stack' = SetTop(t, h)
  /\ pc \in AllPcs \ {"core", "notify"} /\ e \in Nat /\ QSame /\ UNCHANGED clones
  /\ panics \in Nat /\ panics' \in Nat /\ panics =< panics'
  /\ Len(call') = Len(call) /\ \A x \in 1 .. Len(call) : x # id => call'[x] = call[x]
  /\ call'[id].kind = call[id].kind /\ call'[id].owner = call[id].owner /\ call'[id].out = call[id].out
  /\ call'[id].set = call[id].set /\ call'[id].count = call[id].count

LEMMA EditsFacts ==
  ASSUME Struct, NEW t \in Threads, NEW h, NEW pc, NEW e, NEW id, Edits(t, h, pc, e, id)
  PROVE  /\ Stacks /\ Puts(t, Len(stack[t]), h) /\ Len(stack[t]) \in DOMAIN stack[t] /\ stack[t][Len(stack[t])] = Top(t)
         /\ h.kind = Top(t).kind /\ h.id = Top(t).id /\ h.pc = pc /\ h.err = e /\ h.todo = Top(t).todo
         /\ CoreKept
         /\ \A x \in 1 .. Len(call) : call'[x].kind = call[x].kind /\ call'[x].owner = call[x].owner
         /\ \A x \in 1 .. Len(call') : x # id => x \in 1 .. Len(call) /\ Records(x)
         /\ Len(call) \in Nat /\ Len(stack[t]) \in Nat /\ Top(t) \in FrameSet /\ FrameOK(Top(t))
         /\ \A i \in DOMAIN stack[t] : i >= Len(stack[t]) => stack[t][i] = Top(t)
<1>0. /\ stack[t] # <<>> /\ id \in 1 .. Len(call) /\ h = WithPc(Top(t), pc, e) /\ stack' = SetTop(t, h)
      /\ pc \in AllPcs /\ e \in Nat
  BY DEF Edits
<1>1. /\ Stacks /\ Puts(t, Len(stack[t]), h) /\ Len(stack[t]) \in DOMAIN stack[t] /\ stack[t][Len(stack[t])] = Top(t)
      /\ h.kind = Top(t).kind /\ h.id = Top(t).id /\ h.pc = pc /\ h.err = e /\ h.todo = Top(t).todo
  BY <1>0, WithPcPuts
<1>2. ASSUME NEW x \in 1 .. Len(call)
      PROVE  call'[x].kind = call[x].kind /\ call'[x].owner = call[x].owner /\ call'[x].set = call[x].set
             /\ call'[x].count = call[x].count
  <2>1. CASE x = id
    BY <2>1 DEF Edits
  <2>2. CASE x # id
    BY <2>2 DEF Edits
  <2> QED BY <2>1, <2>2
<1>3. CoreKept
  BY <1>2 DEF CoreKept
<1>4. \A x \in 1 .. Len(call') : x # id => x \in 1 .. Len(call) /\ Records(x)
  BY DEF Edits, Records, Plain
<1>5. Len(call) \in Nat
  BY DEF Struct, Shape
<1> QED BY <1>0, <1>1, <1>2, <1>3, <1>4, <1>5, AtTop, TopFacts

LEMMA EditsKeep ==
  ASSUME Struct, Rest, NEW t \in Threads, NEW h, NEW pc, NEW e, NEW id, Edits(t, h, pc, e, id)
  PROVE  Cored' /\ Cloned'
<1>1. /\ Stacks /\ Puts(t, Len(stack[t]), h) /\ h.pc = pc /\ CoreKept
      /\ \A x \in 1 .. Len(call) : call'[x].kind = call[x].kind /\ call'[x].owner = call[x].owner
  BY EditsFacts
<1>2. pc \notin {"core", "notify"} /\ UNCHANGED clones /\ Len(call') = Len(call)
  BY DEF Edits
<1>3. Cored /\ Cloned
  BY DEF Rest
<1>4. Cored'
  BY <1>1, <1>2, <1>3, CoredStep
<1>5. Cloned'
  BY <1>1, <1>2, <1>3, ClonedStep
<1> QED BY <1>4, <1>5

LEMMA EditsShared ==
  ASSUME Struct, Rest, NEW t \in Threads, NEW h, NEW pc, NEW e, NEW id, Edits(t, h, pc, e, id), call[id].kind # "broadcast",
         Top(t).kind \notin {"broadcast", "broadcast_op"}
  PROVE  Shared'
<1>1. /\ Stacks /\ Puts(t, Len(stack[t]), h) /\ h.kind = Top(t).kind
      /\ \A i \in DOMAIN stack[t] : i >= Len(stack[t]) => stack[t][i] = Top(t)
  BY EditsFacts
<1>2. Carries(t, Len(stack[t]), h)
  BY <1>1 DEF Carries, Carrier
<1>3. QMild /\ Shared /\ Len(call') = Len(call)
  BY DEF Edits, QMild, Rest
<1>4. ASSUME NEW x \in 1 .. Len(call)
      PROVE  /\ call'[x].kind = call[x].kind
             /\ call[x].kind = "broadcast" /\ call'[x].out = None =>
                  call[x].out = None /\ call'[x].result = call[x].result
  <2>1. CASE x = id
    BY <2>1 DEF Edits
  <2>2. CASE x # id
    BY <2>2 DEF Edits
  <2> QED BY <2>1, <2>2
<1> QED BY <1>1, <1>2, <1>3, <1>4, SharedStep

LEMMA EditsCall ==
  ASSUME Struct, Results, NEW t \in Threads, NEW h, NEW pc, NEW e, NEW id, Edits(t, h, pc, e, id), call[id].out = None,
         call'[id].result = call[id].result, call'[id].panic \in Nat, call'[id].panic =< panics', 0 \notin call'[id].seen,
         call'[id].seen # {} /\ call[id].kind # "scope" =>
           call'[id].panic # 0 \/ \E w \in DOMAIN call[id].result : call[id].result[w] \notin {0, None},
         call[id].kind \in {"install", "broadcast"} => call'[id].panic = 0
  PROVE  CallRes(id)'
<1>1. id \in 1 .. Len(call) /\ call'[id].kind = call[id].kind /\ call'[id].out = None /\ call'[id].set = call[id].set
      /\ panics \in Nat /\ panics' \in Nat /\ panics =< panics'
  BY DEF Edits
<1>2. CallRes(id) /\ call[id] \in CallSet
  BY <1>1 DEF Results, Struct, Shape
<1>3. \A w \in DOMAIN call[id].result : call[id].result[w] \in Values
  BY <1>2 DEF CallSet
<1>4. Resulted(call[id])
  BY <1>2 DEF CallRes
<1>5. \A w \in DOMAIN call[id].result : call[id].result[w] = None \/ call[id].result[w] =< panics'
  <2>1. SUFFICES ASSUME NEW w \in DOMAIN call[id].result, call[id].result[w] # None
                 PROVE  call[id].result[w] =< panics'
    OBVIOUS
  <2>2. call[id].result[w] \in Nat /\ call[id].result[w] =< panics
    BY <1>3, <1>4, <2>1 DEF Resulted, Values
  <2> QED BY <1>1, <2>2
<1>6. Resulted(call[id])'
  BY <1>1, <1>4, <1>5 DEF Resulted
<1> QED BY <1>1, <1>6 DEF CallRes

LEMMA EditsQueue ==
  ASSUME Struct, Results, NEW t \in Threads, NEW h, NEW pc, NEW e, NEW id, Edits(t, h, pc, e, id),
         call'[id].result = call[id].result
  PROVE  QueueRes'
<1>1. QMild /\ Len(call') = Len(call)
  BY DEF Edits, QMild
<1>2. ASSUME NEW q \in Names, NEW i \in DOMAIN Queue[q], Queue[q][i].kind \in {"join_b", "install_op"}
      PROVE  call'[Queue[q][i].id].result[0] = call[Queue[q][i].id].result[0]
  <2>1. Queue[q][i].id \in 1 .. Len(call)
    BY <1>2, QueueIds
  <2>2. CASE Queue[q][i].id = id
    BY <2>2
  <2>3. CASE Queue[q][i].id # id
    BY <2>1, <2>3 DEF Edits
  <2> QED BY <2>2, <2>3
<1> QED BY <1>1, <1>2, QueueKeeps DEF Results

LEMMA JobPanickedRest ==
  ASSUME Struct, Finite, Counted, Rest, NEW t \in Threads, JobPanicked(t)
  PROVE  Rest'
<1>0. stack[t] # <<>> /\ Top(t).pc = "panicked" /\ UNCHANGED <<queues, foreign, panics>>
  BY DEF JobPanicked
<1>1. PICK h, id, c :
           /\ h = WithPc(Top(t), "set", 0) /\ stack' = SetTop(t, h) /\ Top(t).kind \in {"scope", "scope_job"} /\ KindPc(h)
           /\ id = Top(t).id /\ id \in 1 .. Len(call)
           /\ call' \in Seq(CallSet) /\ Len(call') = Len(call) /\ call'[id] = c
           /\ \A x \in 1 .. Len(call) : x # id => call'[x] = call[x]
           /\ c.kind = call[id].kind /\ c.owner = call[id].owner /\ c.out = call[id].out /\ c.set = call[id].set
           /\ c.count = call[id].count /\ c.panic = (IF call[id].panic = 0 THEN Top(t).err ELSE call[id].panic)
           /\ c.seen = call[id].seen /\ c.result = call[id].result
           /\ CallsKeep
  BY JobPanickedForm
<1>2. QSame /\ UNCHANGED clones /\ panics \in Nat /\ Results /\ Shape
  BY <1>0, QueueSame DEF foreign, Struct, Shape, Rest
<1>3. Edits(t, h, "set", 0, id)
  BY <1>0, <1>1, <1>2 DEF Edits, AllPcs
<1>4. /\ Stacks /\ Puts(t, Len(stack[t]), h) /\ Len(stack[t]) \in DOMAIN stack[t] /\ stack[t][Len(stack[t])] = Top(t)
      /\ h.kind = Top(t).kind /\ \A x \in 1 .. Len(call') : x # id => x \in 1 .. Len(call) /\ Records(x)
  BY <1>3, EditsFacts
<1>5. call[id].kind = "scope"
  BY <1>0, <1>1, EndedFacts DEF EndPcs, Of
<1>6. Cored' /\ Cloned'
  BY <1>3, EditsKeep
<1>7. Shared'
  BY <1>1, <1>3, <1>5, EditsShared
<1>8. call[id].out = None
  <2>1. Token(stack[t][Len(stack[t])]) /\ id = stack[t][Len(stack[t])].id
    BY <1>0, <1>1, <1>4 DEF Token
  <2>2. Held(<<"held", id>>) \in Nat /\ Held(<<"held", id>>) > 0
    BY <1>2, <1>4, <2>1, TokenHeld
  <2> QED BY <1>1, <2>2, HeldLive
<1>9. call'[id].panic \in Nat /\ call'[id].panic =< panics' /\ call'[id].panic # 0 /\ 0 \notin call'[id].seen
  <2>1. CallRes(id) /\ call[id].panic \in Nat
    BY <1>1, <1>2, CallFacts DEF Results
  <2>2. call[id].panic =< panics /\ 0 \notin call[id].seen
    BY <2>1 DEF CallRes
  <2>3. Top(t).err \in Nat /\ Top(t).err # 0 /\ Top(t).err =< panics
    BY <1>0, <1>3, EditsFacts DEF FrameOK, FrameSet
  <2> QED BY <1>0, <1>1, <2>1, <2>2, <2>3
<1>10. CallRes(id)'
  BY <1>1, <1>2, <1>3, <1>5, <1>8, <1>9, EditsCall
<1>11. Witnessed(id)'
  BY <1>9 DEF Witnessed
<1>12. QueueRes'
  BY <1>1, <1>2, <1>3, EditsQueue
<1>13. FrameRes(h)'
  BY <1>1, <1>4, FrameFree
<1>14. ASSUME NEW u \in Threads, NEW i \in DOMAIN stack[u], NEW g, g = stack[u][i], g.id = id PROVE FrameRes(g)'
  <2>1. g.kind \notin {"join", "join_b", "install_op"}
    BY <1>5, <1>14, FrameIds DEF CallKinds, JobKinds, StackJobs, Of
  <2> QED BY <2>1, FrameFree
<1>15. panics' \in Nat /\ panics =< panics' /\ Len(call) =< Len(call')
  BY <1>0, <1>2, <1>3, EditsFacts DEF Edits
<1>16. Results'
  BY <1>1, <1>2, <1>4, <1>10, <1>11, <1>12, <1>13, <1>14, <1>15, ResultsStep
<1> QED BY <1>6, <1>7, <1>16 DEF Rest

LEMMA ScopeClosureEndsRest ==
  ASSUME Struct, Finite, Counted, Rest, NEW t \in Threads, NEW e, Ended(t, e), ScopeClosureEnds(t, e)
  PROVE  Rest'
<1>0. /\ panics \in Nat /\ panics' \in Nat /\ panics =< panics' /\ e \in Nat /\ e =< panics'
      /\ UNCHANGED clones /\ QSame /\ Ending(t, e)
  BY EndedPanics
<1>1. PICK h, pc, id, c :
           /\ h = WithPc(Top(t), pc, e) /\ stack' = SetTop(t, h) /\ Top(t).kind \in {"scope", "scope_job"} /\ KindPc(h)
           /\ (e = 0 /\ pc = "set") \/ (e # 0 /\ pc = "panicked")
           /\ Top(t).pc \in {"op", "run"} /\ id = Top(t).id /\ id \in 1 .. Len(call)
           /\ call' \in Seq(CallSet) /\ Len(call') = Len(call) /\ call'[id] = c
           /\ \A x \in 1 .. Len(call) : x # id => call'[x] = call[x]
           /\ c.kind = call[id].kind /\ c.owner = call[id].owner /\ c.out = call[id].out /\ c.set = call[id].set
           /\ c.count = call[id].count /\ c.panic = call[id].panic
           /\ c.seen = call[id].seen \cup ({e} \ {0}) /\ c.result = call[id].result
           /\ CallsKeep
  BY <1>0, ScopeClosureEndsForm
<1>2. Results /\ Shape /\ stack[t] # <<>>
  BY <1>0, RunsFacts DEF Rest, Struct, Ending
<1>3. Edits(t, h, pc, e, id)
  BY <1>0, <1>1, <1>2 DEF Edits, AllPcs
<1>4. /\ Stacks /\ Puts(t, Len(stack[t]), h) /\ Len(stack[t]) \in DOMAIN stack[t] /\ stack[t][Len(stack[t])] = Top(t)
      /\ h.kind = Top(t).kind /\ h.id = Top(t).id /\ h.pc = pc
      /\ \A x \in 1 .. Len(call') : x # id => x \in 1 .. Len(call) /\ Records(x)
  BY <1>3, EditsFacts
<1>5. call[id].kind = "scope"
  <2>1. CASE Top(t).kind = "scope"
    BY <1>1, <1>4, <2>1, FrameIds DEF CallKinds
  <2>2. CASE Top(t).kind = "scope_job"
    BY <1>1, <1>4, <2>2, FrameIds DEF JobKinds, Of
  <2> QED BY <1>1, <2>1, <2>2
<1>6. Cored' /\ Cloned'
  BY <1>3, EditsKeep
<1>7. Shared'
  BY <1>1, <1>3, <1>5, EditsShared
<1>8. call[id].out = None
  <2>1. Token(stack[t][Len(stack[t])]) /\ id = stack[t][Len(stack[t])].id
    BY <1>1, <1>4 DEF Token
  <2>2. Held(<<"held", id>>) \in Nat /\ Held(<<"held", id>>) > 0
    BY <1>2, <1>4, <2>1, TokenHeld
  <2> QED BY <1>1, <2>2, HeldLive
<1>9. call'[id].panic \in Nat /\ call'[id].panic =< panics' /\ 0 \notin call'[id].seen
  <2>1. CallRes(id) /\ call[id].panic \in Nat
    BY <1>1, <1>2, CallFacts DEF Results
  <2>2. call[id].panic =< panics /\ 0 \notin call[id].seen
    BY <2>1 DEF CallRes
  <2> QED BY <1>0, <1>1, <2>1, <2>2
<1>10. CallRes(id)'
  BY <1>1, <1>2, <1>3, <1>5, <1>8, <1>9, EditsCall
<1>11. Witnessed(id)'
  <2>1. CASE e = 0
    <3>1. Plain(id)
      BY <1>1, <2>1 DEF Plain
    <3>2. Witnessed(id) /\ Top(t).pc # "panicked"
      BY <1>1, <1>2 DEF Results
    <3> QED BY <1>1, <1>4, <3>1, <3>2, WitnessedKeeps
  <2>2. CASE e # 0
    <3>1. h.pc = "panicked" /\ h.id = id /\ Len(stack[t]) \in DOMAIN stack'[t] /\ stack'[t][Len(stack[t])] = h
      BY <1>1, <1>4, <2>2, PutsAt DEF Stacks
    <3> QED BY <3>1 DEF Witnessed
  <2> QED BY <2>1, <2>2
<1>12. QueueRes'
  BY <1>1, <1>2, <1>3, EditsQueue
<1>13. FrameRes(h)'
  BY <1>1, <1>4, FrameFree
<1>14. ASSUME NEW u \in Threads, NEW i \in DOMAIN stack[u], NEW g, g = stack[u][i], g.id = id PROVE FrameRes(g)'
  <2>1. g.kind \notin {"join", "join_b", "install_op"}
    BY <1>5, <1>14, FrameIds DEF CallKinds, JobKinds, StackJobs, Of
  <2> QED BY <2>1, FrameFree
<1>15. panics' \in Nat /\ panics =< panics' /\ Len(call) =< Len(call')
  BY <1>0, <1>3, EditsFacts DEF Edits
<1>16. Top(t).pc # "panicked"
  BY <1>1
<1>17. Results'
  BY <1>0, <1>2, <1>4, <1>10, <1>11, <1>12, <1>13, <1>14, <1>15, <1>16, ResultsStep
<1> QED BY <1>6, <1>7, <1>17 DEF Rest

LEMMA OperAEndsRest ==
  ASSUME Struct, Rest, NEW t \in Threads, NEW e, Ended(t, e), OperAEnds(t, e)
  PROVE  Rest'
<1>0. /\ panics \in Nat /\ panics' \in Nat /\ panics =< panics' /\ e \in Nat /\ e =< panics'
      /\ UNCHANGED clones /\ QSame /\ Ending(t, e)
  BY EndedPanics
<1>1. PICK h, pc, id, c :
           /\ h = WithPc(Top(t), pc, e) /\ stack' = SetTop(t, h) /\ Top(t).kind = "join" /\ KindPc(h)
           /\ (e = 0 /\ pc = "loop") \/ (e # 0 /\ pc = "recover")
           /\ Top(t).pc = "a" /\ id = Top(t).id /\ id \in 1 .. Len(call)
           /\ call' \in Seq(CallSet) /\ Len(call') = Len(call) /\ call'[id] = c
           /\ \A x \in 1 .. Len(call) : x # id => call'[x] = call[x]
           /\ c.kind = call[id].kind /\ c.owner = call[id].owner /\ c.out = call[id].out /\ c.set = call[id].set
           /\ c.count = call[id].count /\ c.panic = e
           /\ c.seen = call[id].seen \cup ({e} \ {0}) /\ c.result = call[id].result
           /\ CallsKeep
  BY <1>0, OperAEndsForm
<1>2. Results /\ Shape /\ stack[t] # <<>>
  BY <1>0, RunsFacts DEF Rest, Struct, Ending
<1>3. Edits(t, h, pc, e, id)
  BY <1>0, <1>1, <1>2 DEF Edits, AllPcs, WaitPcs
<1>4. /\ Stacks /\ Puts(t, Len(stack[t]), h) /\ Len(stack[t]) \in DOMAIN stack[t] /\ stack[t][Len(stack[t])] = Top(t)
      /\ h.kind = Top(t).kind /\ h.id = Top(t).id /\ h.pc = pc /\ h.err = e
      /\ \A x \in 1 .. Len(call') : x # id => x \in 1 .. Len(call) /\ Records(x)
  BY <1>3, EditsFacts
<1>5. call[id].kind = "join" /\ call[id].out = None /\ call[id].owner = t
  BY <1>1, <1>4 DEF Struct, Called, CallKinds
<1>6. Cored' /\ Cloned'
  BY <1>3, EditsKeep
<1>7. Shared'
  BY <1>1, <1>3, <1>5, EditsShared
<1>8. call[id].panic = 0
  <2>1. FrameRes(stack[t][Len(stack[t])])
    BY <1>2, <1>4 DEF Results
  <2> QED BY <1>1, <1>4, <2>1 DEF FrameRes
<1>9. call'[id].panic \in Nat /\ call'[id].panic =< panics' /\ 0 \notin call'[id].seen
  <2>1. CallRes(id)
    BY <1>1, <1>2 DEF Results
  <2>2. 0 \notin call[id].seen
    BY <2>1 DEF CallRes
  <2> QED BY <1>0, <1>1, <2>2
<1>10. CallRes(id)'
  <2>1. ASSUME call'[id].seen # {}, ~(call'[id].panic # 0)
        PROVE  \E w \in DOMAIN call[id].result : call[id].result[w] \notin {0, None}
    <3>1. call[id].seen # {}
      BY <1>1, <2>1
    <3>2. CallRes(id)
      BY <1>1, <1>2 DEF Results
    <3>3. Resulted(call[id])
      BY <1>5, <3>2 DEF CallRes
    <3> QED BY <1>5, <1>8, <3>1, <3>3 DEF Resulted
  <2> QED BY <1>1, <1>2, <1>3, <1>5, <1>9, <2>1, EditsCall
<1>11. Witnessed(id)'
  BY <1>1, <1>5 DEF Witnessed
<1>12. QueueRes'
  BY <1>1, <1>2, <1>3, EditsQueue
<1>13. FrameRes(h)'
  BY <1>1, <1>4 DEF FrameRes
<1>14. ASSUME NEW u \in Threads, NEW i \in DOMAIN stack[u], NEW g, g = stack[u][i], u # t \/ i < Len(stack[t]), g.id = id
       PROVE  FrameRes(g)'
  <2>1. FrameRes(g)
    BY <1>2, <1>14 DEF Results
  <2>2. g.kind # "join"
    <3>1. SUFFICES ASSUME g.kind = "join" PROVE FALSE
      OBVIOUS
    <3>2. call[id].owner = u
      BY <1>14, <3>1 DEF Struct, Called, CallKinds
    <3>3. u = t
      BY <1>5, <3>2
    <3>4. i = Len(stack[t])
      BY <1>1, <1>4, <1>14, <3>1, <3>3 DEF Struct, Called, CallKinds
    <3>5. Len(stack[t]) \in Nat
      BY <1>2, AtTop
    <3> QED BY <1>14, <3>3, <3>4, <3>5
  <2>3. call'[g.id].result = call[g.id].result
    BY <1>1, <1>14
  <2> QED BY <2>1, <2>2, <2>3 DEF FrameRes
<1>15. panics' \in Nat /\ panics =< panics' /\ Len(call) =< Len(call')
  BY <1>0, <1>3, EditsFacts DEF Edits
<1>16. Top(t).pc # "panicked"
  BY <1>1
<1>17. Results'
  BY <1>0, <1>2, <1>4, <1>10, <1>11, <1>12, <1>13, <1>14, <1>15, <1>16, ResultsStep
<1> QED BY <1>6, <1>7, <1>17 DEF Rest

-----------------------------------------------------------------------------
(* The job of a join or of an install is in one place.                       *)
LEMMA TwoInSet ==
  ASSUME NEW S, IsFiniteSet(S), NEW a \in S, NEW b \in S, a # b
  PROVE  Cardinality(S) \in Nat /\ Cardinality(S) > 1
<1>1. IsFiniteSet(S \ {a}) /\ Cardinality(S \ {a}) = Cardinality(S) - 1 /\ S \ {a} # {}
  BY FS_RemoveElement
<1>2. Cardinality(S \ {a}) \in Nat /\ Cardinality(S \ {a}) # 0 /\ Cardinality(S) \in Nat
  BY <1>1, FS_EmptySet, FS_CardinalityType
<1> QED BY <1>1, <1>2

LEMMA SoleDue ==
  ASSUME Struct, Finite, Counted, NEW id \in 1 .. Len(call), call[id].kind \notin Counting
  PROVE  Held(<<"held", id>>) \in Nat /\ Held(<<"held", id>>) =< 1
<1>1. Entry(id)
  BY DEF Counted
<1>2. Held(<<"held", id>>) = Due(id)
  BY <1>1 DEF Entry
<1>3. Due(id) \in {0, 1}
  BY DEF Due
<1> QED BY <1>2, <1>3

LEMMA SoleFrame ==
  ASSUME Struct, Finite, Counted, NEW t \in Threads, NEW i \in DOMAIN stack[t], Token(stack[t][i]), NEW id \in 1 .. Len(call),
         id = stack[t][i].id, call[id].kind \notin Counting, NEW u \in Threads, NEW j \in DOMAIN stack[u], stack[u][j].id = id,
         Token(stack[u][j])
  PROVE  u = t /\ j = i
<1>1. SUFFICES ASSUME ~(u = t /\ j = i) PROVE FALSE
  OBVIOUS
<1>2. PICK k : k = <<"held", id>>
  OBVIOUS
<1>3. <<"self", 0>> \in Marks(stack[t][i], k) /\ <<"self", 0>> \in Marks(stack[u][j], k)
  BY <1>2 DEF Marks
<1>4. <<t, i, <<"self", 0>>>> \in InFrames(k) /\ <<u, j, <<"self", 0>>>> \in InFrames(k)
  BY <1>3, InFramesAt DEF Spot
<1>5. IsFiniteSet(InFrames(k)) /\ <<t, i, <<"self", 0>>>> # <<u, j, <<"self", 0>>>>
  BY <1>1 DEF Finite
<1>6. Cardinality(InFrames(k)) \in Nat /\ Cardinality(InFrames(k)) > 1
  BY <1>4, <1>5, TwoInSet
<1>7. Cardinality(InQueues(k)) \in Nat
  BY HeldNat DEF Struct
<1>8. Held(k) \in Nat /\ Held(k) =< 1
  BY <1>2, SoleDue
<1> QED BY <1>6, <1>7, <1>8 DEF Held

LEMMA SoleQueue ==
  ASSUME Struct, Finite, Counted, NEW t \in Threads, NEW i \in DOMAIN stack[t], Token(stack[t][i]), NEW id \in 1 .. Len(call),
         id = stack[t][i].id, call[id].kind \notin Counting, NEW q \in Names, NEW j \in DOMAIN Queue[q]
  PROVE  Queue[q][j].id # id
<1>1. SUFFICES ASSUME Queue[q][j].id = id PROVE FALSE
  OBVIOUS
<1>2. PICK k : k = <<"held", id>>
  OBVIOUS
<1>3. <<"self", 0>> \in Marks(stack[t][i], k)
  BY <1>2 DEF Marks
<1>4. <<t, i, <<"self", 0>>>> \in InFrames(k) /\ <<q, j>> \in InQueues(k)
  BY <1>1, <1>2, <1>3, InFramesAt, InQueuesAt DEF Spot
<1>5. IsFiniteSet(InFrames(k)) /\ IsFiniteSet(InQueues(k)) /\ InFrames(k) # {} /\ InQueues(k) # {}
  BY <1>4, QueuesFinite DEF Finite, Struct
<1>6. /\ Cardinality(InFrames(k)) \in Nat /\ Cardinality(InFrames(k)) # 0
      /\ Cardinality(InQueues(k)) \in Nat /\ Cardinality(InQueues(k)) # 0
  BY <1>5, FS_EmptySet, FS_CardinalityType
<1>8. Held(k) \in Nat /\ Held(k) =< 1
  BY <1>2, SoleDue
<1> QED BY <1>6, <1>8 DEF Held

Stores(t, h, id, e) ==
  /\ Edits(t, h, "set", 0, id) /\ Top(t).kind \in StackJobs /\ Top(t).pc = "run" /\ id = Top(t).id /\ t \in Workers
  /\ call[id].kind = Of(Top(t).kind) /\ call[id].out = None /\ ~call[id].set /\ call[id].result[Slot(t)] = None
  /\ call'[id].result = Stored(call[id].result, Slot(t), e) /\ call'[id].panic = call[id].panic
  /\ call'[id].seen = call[id].seen \cup ({e} \ {0}) /\ e \in Nat /\ e =< panics'
  /\ Token(Top(t))

LEMMA StoresForm ==
  ASSUME Struct, Finite, Counted, Rest, NEW t \in Threads, NEW e, Ended(t, e), StackJobEnds(t, e)
  PROVE  \E h, id : Stores(t, h, id, e)
<1>0. /\ panics \in Nat /\ panics' \in Nat /\ panics =< panics' /\ e \in Nat /\ e =< panics'
      /\ UNCHANGED clones /\ QSame /\ Ending(t, e)
  BY EndedPanics
<1>1. PICK h, id, c :
           /\ h = WithPc(Top(t), "set", 0) /\ stack' = SetTop(t, h) /\ Top(t).kind \in StackJobs /\ KindPc(h)
           /\ Top(t).pc = "run" /\ id = Top(t).id /\ id \in 1 .. Len(call)
           /\ call' \in Seq(CallSet) /\ Len(call') = Len(call) /\ call'[id] = c
           /\ \A x \in 1 .. Len(call) : x # id => call'[x] = call[x]
           /\ c.kind = call[id].kind /\ c.owner = call[id].owner /\ c.out = call[id].out /\ c.set = call[id].set
           /\ c.count = call[id].count /\ c.panic = call[id].panic
           /\ c.seen = call[id].seen \cup ({e} \ {0}) /\ c.result = Stored(call[id].result, Slot(t), e)
           /\ CallsKeep
  BY <1>0, StackJobEndsForm
<1>2. Results /\ Shared /\ Shape /\ Stacked /\ stack \in [Threads -> Seq(FrameSet)] /\ stack[t] # <<>>
  BY <1>0, RunsFacts DEF Rest, Struct, Shape, Ending
<1>3. Edits(t, h, "set", 0, id)
  BY <1>0, <1>1, <1>2 DEF Edits, AllPcs
<1>4. Len(stack[t]) \in DOMAIN stack[t] /\ stack[t][Len(stack[t])] = Top(t)
  BY <1>3, EditsFacts
<1>5. t \in Workers
  <2>1. Above(t, stack[t][Len(stack[t])], stack[t][Len(stack[t]) - 1])
    BY <1>1, <1>2, <1>4, Inner DEF StackJobs
  <2> QED BY <1>1, <1>4, <2>1 DEF Above, StackJobs, CallKinds
<1>6. call[id].kind = Of(Top(t).kind)
  BY <1>1, <1>4, FrameIds DEF StackJobs, JobKinds
<1>7. Token(Top(t))
  BY <1>1 DEF Token, StackJobs
<1>8. call[id].out = None /\ ~call[id].set
  <2>2. Held(<<"held", id>>) \in Nat /\ Held(<<"held", id>>) > 0
    BY <1>1, <1>2, <1>4, <1>7, TokenHeld
  <2> QED BY <1>1, <2>2, HeldLive
<1>9. call[id].result[Slot(t)] = None
  <2>1. CASE Top(t).kind = "broadcast_op"
    <3>1. call[id].kind = "broadcast"
      BY <1>6, <2>1 DEF Of
    <3>2. SharedAt(t, id)
      BY <1>1, <1>2, <1>5, <1>8, <3>1 DEF Shared
    <3>3. OnStack(t, id, Len(stack[t]))
      BY <1>1, <1>4, <2>1 DEF OnStack
    <3>4. call[id].result[t] = None
      BY <1>4, <3>2, <3>3 DEF SharedAt
    <3> QED BY <2>1, <3>4 DEF Slot
  <2>2. CASE Top(t).kind # "broadcast_op"
    <3>1. FrameRes(stack[t][Len(stack[t])])
      BY <1>2, <1>4 DEF Results
    <3> QED BY <1>1, <1>4, <2>2, <3>1 DEF FrameRes, Slot, StackJobs
  <2> QED BY <2>1, <2>2
<1> QED BY <1>0, <1>1, <1>3, <1>5, <1>6, <1>7, <1>8, <1>9 DEF Stores

LEMMA StoresCall ==
  ASSUME Struct, Results, NEW t \in Threads, NEW h, NEW id, NEW e, Stores(t, h, id, e)
  PROVE  CallRes(id)' /\ Witnessed(id)'
<1>1. id \in 1 .. Len(call) /\ call'[id].kind = call[id].kind /\ call'[id].out = None /\ call'[id].set = call[id].set
      /\ panics \in Nat /\ panics' \in Nat /\ panics =< panics' /\ ~call[id].set
  BY DEF Edits, Stores
<1>2. CallRes(id) /\ call[id] \in CallSet
  BY <1>1 DEF Results, Struct, Shape
<1>3. \A w \in DOMAIN call[id].result : call[id].result[w] \in Values
  BY <1>2 DEF CallSet
<1>4. Resulted(call[id]) /\ call[id].panic =< panics /\ 0 \notin call[id].seen /\ call[id].panic \in Nat
  BY <1>1, <1>2, CallFacts DEF CallRes, Struct, Stores
<1>5. PICK res : res = call[id].result
  OBVIOUS
<1>6. PICK s : s = Slot(t)
  OBVIOUS
<1>7. /\ call[id].kind # "scope" /\ s \in DOMAIN res /\ res[s] = None /\ res \in [DOMAIN res -> Values]
      /\ call[id].kind = "broadcast" => res \in [Workers -> Values]
      /\ call[id].kind # "broadcast" => res \in [{0} -> Values]
  BY <1>3, <1>4, <1>5, <1>6 DEF Stores, Resulted, Slot, Of, StackJobs
<1>8. PICK new : new = call'[id].result
  OBVIOUS
<1>9. /\ new = [res EXCEPT ![s] = e] /\ e \in Nat /\ e =< panics' /\ call'[id].seen = call[id].seen \cup ({e} \ {0})
      /\ call'[id].panic = call[id].panic
  BY <1>5, <1>6, <1>8 DEF Stores, Stored
<1>10. DOMAIN new = DOMAIN res /\ new[s] = e /\ \A w \in DOMAIN res : w # s => new[w] = res[w]
  BY <1>7, <1>9
<1>11. \A w \in DOMAIN new : new[w] = None \/ new[w] =< panics'
  <2>1. SUFFICES ASSUME NEW w \in DOMAIN res, new[w] # None PROVE new[w] =< panics'
    BY <1>10
  <2>2. CASE w = s
    BY <1>9, <1>10, <2>2
  <2>3. CASE w # s
    <3>1. res[w] # None /\ new[w] = res[w]
      BY <1>10, <2>1, <2>3
    <3>2. res[w] \in Nat /\ res[w] =< panics
      BY <1>3, <1>4, <1>5, <3>1 DEF Resulted, Values
    <3> QED BY <1>1, <3>1, <3>2
  <2> QED BY <2>2, <2>3
<1>12. call'[id].seen # {} => call'[id].panic # 0 \/ \E w \in DOMAIN new : new[w] \notin {0, None}
  <2>1. CASE e # 0
    <3>1. s \in DOMAIN new /\ new[s] = e /\ e # None
      BY <1>7, <1>9, <1>10, ThreadFacts
    <3> QED BY <2>1, <3>1
  <2>2. CASE e = 0
    <3>1. SUFFICES ASSUME call[id].seen # {}, call[id].panic = 0 PROVE \E w \in DOMAIN new : new[w] \notin {0, None}
      BY <1>9, <2>2
    <3>2. PICK w \in DOMAIN res : res[w] \notin {0, None}
      BY <1>4, <1>5, <1>7, <3>1 DEF Resulted
    <3>3. w # s
      BY <1>7, <3>2
    <3> QED BY <1>10, <3>2, <3>3
  <2> QED BY <2>1, <2>2
<1>13. /\ call[id].kind = "broadcast" => new \in [Workers -> Values]
       /\ call[id].kind # "broadcast" => new \in [{0} -> Values]
  BY <1>7, <1>9 DEF Values
<1>14. call[id].kind \in {"install", "broadcast"} => call'[id].panic = 0
  BY <1>4, <1>9 DEF Resulted
<1>15. Resulted(call[id])'
  BY <1>1, <1>7, <1>8, <1>11, <1>12, <1>13, <1>14 DEF Resulted
<1>16. CallRes(id)'
  BY <1>1, <1>4, <1>9, <1>15 DEF CallRes
<1>17. Witnessed(id)'
  BY <1>1, <1>7 DEF Witnessed
<1> QED BY <1>16, <1>17

LEMMA ToComeSame ==
  ASSUME Stacks, NEW t \in Threads, NEW n, NEW f, Puts(t, n, f), f.kind # "broadcast",
         \A i \in DOMAIN stack[t] : i >= n => stack[t][i].kind # "broadcast", NEW w, NEW id
  PROVE  ToCome(w, id)' <=> ToCome(w, id)
<1>1. n \in Nat
  BY PutsAt DEF Stacks
<1>2. ASSUME ToCome(w, id)' PROVE ToCome(w, id)
  <2>1. PICK u \in Threads : \E i \in DOMAIN stack'[u] :
          stack'[u][i].kind = "broadcast" /\ stack'[u][i].id = id /\ w \in stack'[u][i].todo
    BY <1>2 DEF ToCome
  <2>2. PICK i \in DOMAIN stack'[u] : stack'[u][i].kind = "broadcast" /\ stack'[u][i].id = id /\ w \in stack'[u][i].todo
    BY <2>1
  <2>3. ~(u = t /\ i = n)
    BY <2>2 DEF Puts
  <2>4. i \in DOMAIN stack[u] /\ stack'[u][i] = stack[u][i]
    BY <2>3, PutsElse
  <2> QED BY <2>2, <2>4 DEF ToCome
<1>3. ASSUME ToCome(w, id) PROVE ToCome(w, id)'
  <2>1. PICK u \in Threads : \E i \in DOMAIN stack[u] :
          stack[u][i].kind = "broadcast" /\ stack[u][i].id = id /\ w \in stack[u][i].todo
    BY <1>3 DEF ToCome
  <2>2. PICK i \in DOMAIN stack[u] : stack[u][i].kind = "broadcast" /\ stack[u][i].id = id /\ w \in stack[u][i].todo
    BY <2>1
  <2>3. i \in Nat
    BY StackFacts DEF Stacks
  <2>4. u # t \/ i < n
    BY <1>1, <2>2, <2>3
  <2>5. i \in DOMAIN stack'[u] /\ stack'[u][i] = stack[u][i]
    BY <2>4, PutsAt DEF Stacks
  <2> QED BY <2>2, <2>5 DEF ToCome
<1> QED BY <1>2, <1>3

LEMMA StoresShared ==
  ASSUME Struct, Rest, NEW t \in Threads, NEW h, NEW id, NEW e, Stores(t, h, id, e)
  PROVE  Shared'
<1>0. Edits(t, h, "set", 0, id) /\ Shared /\ Results
  BY DEF Stores, Rest
<1>1. /\ Stacks /\ Puts(t, Len(stack[t]), h) /\ Len(stack[t]) \in DOMAIN stack[t] /\ stack[t][Len(stack[t])] = Top(t)
      /\ h.kind = Top(t).kind /\ h.id = Top(t).id /\ h.pc = "set"
      /\ \A i \in DOMAIN stack[t] : i >= Len(stack[t]) => stack[t][i] = Top(t)
      /\ \A x \in 1 .. Len(call') : x # id => x \in 1 .. Len(call) /\ Records(x)
      /\ Len(stack[t]) \in Nat
  BY <1>0, EditsFacts
<1>2. /\ Len(call') = Len(call) /\ id \in 1 .. Len(call) /\ QSame /\ call'[id].kind = call[id].kind
      /\ Top(t).kind \in StackJobs /\ Top(t).pc = "run" /\ id = Top(t).id /\ t \in Workers
      /\ call[id].kind = Of(Top(t).kind) /\ call[id].out = None /\ call'[id].result = Stored(call[id].result, Slot(t), e)
      /\ call'[id].out = None /\ e \in Nat
  BY DEF Stores, Edits
<1>3. ASSUME NEW w, NEW x PROVE ToCome(w, x)' <=> ToCome(w, x)
  <2>1. h.kind # "broadcast" /\ \A i \in DOMAIN stack[t] : i >= Len(stack[t]) => stack[t][i].kind # "broadcast"
    BY <1>1, <1>2 DEF StackJobs
  <2> QED BY <1>1, <2>1, ToComeSame
<1>4. ASSUME NEW w \in Workers, NEW x, ~(w = t /\ x = id), NEW i PROVE OnStack(w, x, i)' <=> OnStack(w, x, i)
  <2>1. CASE w # t
    <3>1. w \in Threads \ {t}
      BY <2>1, ThreadFacts
    <3>2. stack'[w] = stack[w]
      BY <1>1, <3>1 DEF Puts
    <3> QED BY <3>2 DEF OnStack
  <2>2. CASE w = t
    <3>1. x # id
      BY <1>4, <2>2
    <3>2. DOMAIN stack'[t] = DOMAIN stack[t] /\ (\A l \in DOMAIN stack[t] : l # Len(stack[t]) => stack'[t][l] = stack[t][l])
          /\ stack'[t][Len(stack[t])] = h
      <4>1. DOMAIN stack[t] = 1 .. Len(stack[t]) /\ DOMAIN stack'[t] = 1 .. Len(stack[t]) /\ stack'[t][Len(stack[t])] = h
        BY <1>1, PutsAt, StackFacts DEF Stacks
      <4>2. ASSUME NEW l \in DOMAIN stack[t], l # Len(stack[t]) PROVE stack'[t][l] = stack[t][l]
        BY <1>1, <4>1, <4>2, PutsElse
      <4> QED BY <4>1, <4>2
    <3>3. CASE i = Len(stack[t])
      BY <1>1, <1>2, <2>2, <3>1, <3>2, <3>3 DEF OnStack
    <3>4. CASE i # Len(stack[t])
      BY <2>2, <3>2, <3>4 DEF OnStack
    <3> QED BY <3>3, <3>4
  <2> QED BY <2>1, <2>2
<1>5. ASSUME NEW x \in 1 .. Len(call'), call'[x].kind = "broadcast", call'[x].out = None, NEW w \in Workers, ~(w = t /\ x = id)
      PROVE  SharedAt(w, x)'
  <2>1. x \in 1 .. Len(call) /\ call[x].kind = "broadcast" /\ call[x].out = None
    <3>1. CASE x = id
      BY <1>2, <1>5, <3>1
    <3>2. CASE x # id
      BY <1>1, <1>5, <3>2 DEF Records, Plain
    <3> QED BY <3>1, <3>2
  <2>2. SharedAt(w, x)
    BY <1>0, <2>1 DEF Shared
  <2>3. call'[x].result[w] = call[x].result[w]
    <3>1. CASE x = id
      <4>1. Top(t).kind = "broadcast_op"
        BY <1>2, <2>1, <3>1 DEF StackJobs, Of
      <4>2. Slot(t) = t /\ w # t
        BY <1>5, <3>1, <4>1 DEF Slot
      <4>3. CallRes(id)
        BY <1>0, <1>2 DEF Results
      <4>4. call[id].result \in [Workers -> Values]
        BY <1>2, <2>1, <3>1, <4>3 DEF CallRes, Resulted
      <4> QED BY <1>2, <3>1, <4>2, <4>4 DEF Stored
    <3>2. CASE x # id
      BY <1>1, <1>5, <3>2 DEF Records, Plain
    <3> QED BY <3>1, <3>2
  <2>4. StaysOn(w, x)
    BY <1>3, <1>4, <1>5 DEF StaysOn
  <2>5. PICK d : Shifts(w, x, d)
    BY <1>2, MildShifts DEF QMild
  <2> QED BY <2>2, <2>3, <2>4, <2>5, SharedKeeps
<1>6. ASSUME call'[id].kind = "broadcast" PROVE SharedAt(t, id)'
  <2>1. Top(t).kind = "broadcast_op" /\ call[id].kind = "broadcast"
    BY <1>2, <1>6 DEF StackJobs, Of
  <2>2. SharedAt(t, id)
    BY <1>0, <1>2, <2>1 DEF Shared
  <2>3. OnStack(t, id, Len(stack[t]))
    BY <1>1, <1>2, <2>1 DEF OnStack
  <2>4. ~ToCome(t, id) /\ (\A i \in DOMAIN broadcasts[t] : ~InQueue(t, id, i))
        /\ \A i \in DOMAIN stack[t] : OnStack(t, id, i) => i = Len(stack[t])
    BY <1>1, <2>2, <2>3 DEF SharedAt
  <2>5. ~ToCome(t, id)'
    BY <1>3, <2>4
  <2>6. broadcasts'[t] = broadcasts[t]
    BY <1>2, QueueAt, QueueAtNext DEF QSame
  <2>7. \A i : ~InQueue(t, id, i)'
    BY <2>4, <2>6 DEF InQueue
  <2>8. ASSUME NEW i, OnStack(t, id, i)' PROVE FALSE
    <3>1. i \in DOMAIN stack'[t] /\ stack'[t][i].kind = "broadcast_op" /\ stack'[t][i].id = id /\ stack'[t][i].pc = "run"
      BY <2>8 DEF OnStack
    <3>2. i # Len(stack[t])
      BY <1>1, <3>1 DEF Puts
    <3>3. i \in DOMAIN stack[t] /\ stack'[t][i] = stack[t][i]
      BY <1>1, <3>1, <3>2, PutsElse
    <3>4. OnStack(t, id, i)
      BY <3>1, <3>3 DEF OnStack
    <3> QED BY <2>4, <3>2, <3>3, <3>4
  <2>9. call'[id].result[t] # None
    <3>1. CallRes(id) /\ Slot(t) = t
      BY <1>0, <1>2, <2>1 DEF Results, Slot
    <3>2. call[id].result \in [Workers -> Values]
      BY <1>2, <2>1, <3>1 DEF CallRes, Resulted
    <3>3. call'[id].result[t] = e
      BY <1>2, <3>1, <3>2 DEF Stored
    <3> QED BY <1>2, <3>3, ThreadFacts
  <2> QED BY <2>5, <2>7, <2>8, <2>9 DEF SharedAt
<1> QED BY <1>2, <1>5, <1>6 DEF Shared

LEMMA StoresResults ==
  ASSUME Struct, Finite, Counted, Results, NEW t \in Threads, NEW h, NEW id, NEW e, Stores(t, h, id, e)
  PROVE  Results'
<1>0. Edits(t, h, "set", 0, id)
  BY DEF Stores
<1>1. /\ Stacks /\ Puts(t, Len(stack[t]), h) /\ Len(stack[t]) \in DOMAIN stack[t] /\ stack[t][Len(stack[t])] = Top(t)
      /\ h.kind = Top(t).kind /\ h.id = Top(t).id /\ h.pc = "set"
      /\ \A x \in 1 .. Len(call') : x # id => x \in 1 .. Len(call) /\ Records(x)
      /\ Len(stack[t]) \in Nat
  BY <1>0, EditsFacts
<1>2. /\ Len(call') = Len(call) /\ id \in 1 .. Len(call) /\ QSame /\ call'[id].kind = call[id].kind
      /\ Top(t).kind \in StackJobs /\ Top(t).pc = "run" /\ id = Top(t).id
      /\ call[id].kind = Of(Top(t).kind) /\ call'[id].result = Stored(call[id].result, Slot(t), e)
      /\ e \in Nat /\ Token(Top(t)) /\ call'[id].panic = call[id].panic /\ call[id].out = None
      /\ \A x \in 1 .. Len(call) : x # id => call'[x] = call[x]
  BY DEF Stores, Edits
<1>3. CallRes(id)' /\ Witnessed(id)'
  BY StoresCall
<1>4. FrameRes(h)'
  <2>1. CASE Top(t).kind = "broadcast_op"
    BY <1>1, <2>1, FrameFree
  <2>2. CASE Top(t).kind \in {"join_b", "install_op"}
    <3>1. CallRes(id) /\ Slot(t) = 0 /\ call[id].kind # "broadcast"
      BY <1>2, <2>2 DEF Results, Slot, Of
    <3>2. call[id].result \in [{0} -> Values]
      BY <1>2, <3>1 DEF CallRes, Resulted
    <3>3. call'[id].result[0] = e /\ e # None
      BY <1>2, <3>1, <3>2, ThreadFacts DEF Stored
    <3> QED BY <1>1, <1>2, <2>2, <3>3 DEF FrameRes
  <2> QED BY <1>2, <2>1, <2>2 DEF StackJobs
<1>5. ASSUME NEW u \in Threads, NEW i \in DOMAIN stack[u], NEW g, g = stack[u][i], u # t \/ i < Len(stack[t]), g.id = id
      PROVE  FrameRes(g)'
  <2>1. FrameRes(g)
    BY <1>5 DEF Results
  <2>2. ~(u = t /\ i = Len(stack[t]))
    BY <1>1, <1>5
  <2>3. ASSUME g.kind \in {"join", "join_b", "install_op"} PROVE ~Token(g)
    <3>1. call[id].kind \notin Counting
      BY <1>2, <1>5, <2>3, FrameIds DEF Counting, CallKinds, JobKinds, StackJobs, Of
    <3> QED BY <1>1, <1>2, <1>5, <2>2, <3>1, SoleFrame
  <2>4. CASE g.kind = "join"
    BY <1>2, <1>5, <2>1, <2>3, <2>4 DEF FrameRes, Token
  <2>5. CASE g.kind \in {"join_b", "install_op"}
    BY <2>3, <2>5 DEF FrameRes, Token
  <2>6. CASE g.kind \notin {"join", "join_b", "install_op"}
    BY <2>6, FrameFree
  <2> QED BY <2>4, <2>5, <2>6
<1>6. QueueRes'
  <2>1. ASSUME NEW q \in Names, NEW i \in DOMAIN Queue[q], Queue[q][i].kind \in {"join_b", "install_op"}
        PROVE  call'[Queue[q][i].id].result[0] = call[Queue[q][i].id].result[0]
    <3>1. Queue[q][i].id \in 1 .. Len(call) /\ call[Queue[q][i].id].kind = Of(Queue[q][i].kind)
      BY <2>1, QueueIds
    <3>2. Queue[q][i].id # id
      <4>1. SUFFICES ASSUME Queue[q][i].id = id PROVE FALSE
        OBVIOUS
      <4>2. call[id].kind \notin Counting
        BY <2>1, <3>1, <4>1 DEF Of, Counting
      <4> QED BY <1>1, <1>2, <4>1, <4>2, SoleQueue
    <3> QED BY <1>2, <3>1, <3>2
  <2> QED BY <1>2, <2>1, QueueKeeps DEF Results, QMild
<1>7. panics \in Nat /\ panics' \in Nat /\ panics =< panics' /\ Len(call) =< Len(call')
  BY <1>0, EditsFacts DEF Edits
<1>8. Top(t).pc # "panicked"
  BY <1>2
<1> QED BY <1>1, <1>3, <1>4, <1>5, <1>6, <1>7, <1>8, ResultsStep

LEMMA StackJobEndsRest ==
  ASSUME Struct, Finite, Counted, Rest, NEW t \in Threads, NEW e, Ended(t, e), StackJobEnds(t, e)
  PROVE  Rest'
<1>1. PICK h, id : Stores(t, h, id, e)
  BY StoresForm
<1>2. Cored' /\ Cloned'
  BY <1>1, EditsKeep DEF Stores
<1>3. Shared'
  BY <1>1, StoresShared
<1>4. Results'
  BY <1>1, StoresResults DEF Rest
<1> QED BY <1>2, <1>3, <1>4 DEF Rest

-----------------------------------------------------------------------------
(* A call is made.                                                           *)
LEMMA StaysOther ==
  ASSUME Stacks, NEW t \in Threads, NEW n, NEW f, Puts(t, n, f), NEW x, f.id # x,
         \A i \in DOMAIN stack[t] : i >= n => stack[t][i].id # x, NEW w \in Workers
  PROVE  StaysOn(w, x)
<1>1. n \in Nat /\ w \in Threads
  BY PutsAt, ThreadFacts DEF Stacks
<1>2. ASSUME NEW u \in Threads, NEW i \in DOMAIN stack'[u], stack'[u][i].id = x
      PROVE  i \in DOMAIN stack[u] /\ stack'[u][i] = stack[u][i]
  <2>1. ~(u = t /\ i = n)
    BY <1>2 DEF Puts
  <2> QED BY <2>1, PutsElse
<1>3. ASSUME NEW u \in Threads, NEW i \in DOMAIN stack[u], stack[u][i].id = x
      PROVE  i \in DOMAIN stack'[u] /\ stack'[u][i] = stack[u][i]
  <2>1. i \in Nat
    BY StackFacts DEF Stacks
  <2>2. u # t \/ i < n
    BY <1>1, <1>3, <2>1
  <2> QED BY <2>2, PutsAt DEF Stacks
<1>4. ToCome(w, x)' <=> ToCome(w, x)
  BY <1>2, <1>3 DEF ToCome
<1>5. ASSUME NEW i PROVE OnStack(w, x, i)' <=> OnStack(w, x, i)
  BY <1>1, <1>2, <1>3 DEF OnStack
<1> QED BY <1>4, <1>5 DEF StaysOn

LEMMA MakesFacts ==
  ASSUME Struct, NEW t \in Threads, NEW kind, NEW f, NEW q, NEW j, Makes(t, kind, f, q, j)
  PROVE  /\ Stacks /\ Puts(t, Len(stack[t]) + 1, f) /\ Len(call') = Len(call) + 1 /\ Len(call) \in Nat
         /\ \A x \in 1 .. Len(call) : call'[x] = call[x]
         /\ \E c : /\ call'[Len(call) + 1] = c /\ c.owner = t /\ c.kind = kind /\ ~c.set /\ c.panic = 0 /\ c.seen = {}
                   /\ c.out = None
                   /\ kind = "broadcast" => c.result = [w \in Workers |-> None]
                   /\ kind # "broadcast" => c.result = [w \in {0} |-> None]
         /\ \A u \in Threads : \A i \in DOMAIN stack[u] : stack[u][i].id \in 0 .. Len(call)
         /\ \A u \in Threads : \A i \in DOMAIN stack'[u] :
              stack'[u][i].id = Len(call) + 1 => u = t /\ i = Len(stack[t]) + 1
         /\ f.kind = kind /\ f.id = Len(call) + 1 /\ Len(stack[t]) \in Nat /\ kind \in CallKinds
         /\ \A p \in Names : \A i \in DOMAIN Queue[p] : Queue[p][i].id \in 0 .. Len(call)
<1>1. Begins(t, kind, f) /\ kind \in CallKinds
  BY DEF Makes, Begins
<1>2. /\ Stacks /\ Puts(t, Len(stack[t]) + 1, f) /\ Len(call') = Len(call) + 1
      /\ \A x \in 1 .. Len(call) : call'[x] = call[x]
      /\ call'[Len(call) + 1] = NewCall(t, kind) /\ NextId = Len(call) + 1
      /\ \A u \in Threads : \A i \in DOMAIN stack[u] : stack[u][i].id \in 0 .. Len(call)
  BY <1>1, BeginsFacts
<1>3. \A u \in Threads : \A i \in DOMAIN stack'[u] : stack'[u][i].id = Len(call) + 1 => u = t /\ i = Len(stack[t]) + 1
  BY <1>1, BeginsCalled
<1>4. Len(call) \in Nat /\ Len(stack[t]) \in Nat
  BY StackFacts DEF Struct, Shape
<1>5. f.kind = kind /\ f.id = Len(call) + 1
  BY <1>1, <1>2 DEF Begins
<1>6. PICK c : c = NewCall(t, kind)
  OBVIOUS
<1>7. /\ c.owner = t /\ c.kind = kind /\ ~c.set /\ c.panic = 0 /\ c.seen = {} /\ c.out = None
      /\ kind = "broadcast" => c.result = [w \in Workers |-> None]
      /\ kind # "broadcast" => c.result = [w \in {0} |-> None]
  BY <1>1, <1>6, NewCallFacts
<1>8. ASSUME NEW p \in Names, NEW i \in DOMAIN Queue[p] PROVE Queue[p][i].id \in 0 .. Len(call)
  <2>1. JobOK(Queue[p][i])
    BY DEF Struct, Jobs
  <2> QED BY <1>4, <2>1 DEF JobOK
<1> QED BY <1>1, <1>2, <1>3, <1>4, <1>5, <1>6, <1>7, <1>8

LEMMA MakesResults ==
  ASSUME Struct, Results, NEW t \in Threads, NEW kind, NEW f, NEW q, NEW j, Makes(t, kind, f, q, j)
  PROVE  Results'
<1>1. /\ Stacks /\ Puts(t, Len(stack[t]) + 1, f) /\ Len(call') = Len(call) + 1 /\ Len(call) \in Nat
      /\ \A x \in 1 .. Len(call) : call'[x] = call[x]
      /\ \A u \in Threads : \A i \in DOMAIN stack[u] : stack[u][i].id \in 0 .. Len(call)
      /\ f.kind = kind /\ f.id = Len(call) + 1 /\ Len(stack[t]) \in Nat /\ kind \in CallKinds
      /\ \A p \in Names : \A i \in DOMAIN Queue[p] : Queue[p][i].id \in 0 .. Len(call)
  BY MakesFacts
<1>2. PICK s : s = Len(call) + 1
  OBVIOUS
<1>3. PICK c : /\ call'[s] = c /\ c.owner = t /\ c.kind = kind /\ ~c.set /\ c.panic = 0 /\ c.seen = {}
               /\ c.out = None
               /\ kind = "broadcast" => c.result = [w \in Workers |-> None]
               /\ kind # "broadcast" => c.result = [w \in {0} |-> None]
  BY <1>2, MakesFacts
<1>4. panics \in Nat /\ panics' = panics /\ Shape
  BY DEF Struct, Shape, Makes
<1>5. CallRes(s)'
  <2>1. \A w \in DOMAIN c.result : c.result[w] = None
    BY <1>3
  <2>2. /\ c.kind = "broadcast" => c.result \in [Workers -> Values]
        /\ c.kind # "broadcast" => c.result \in [{0} -> Values]
    BY <1>3 DEF Values
  <2>3. Resulted(call[s])'
    BY <1>3, <2>1, <2>2 DEF Resulted
  <2> QED BY <1>3, <1>4, <2>3 DEF CallRes
<1>6. Witnessed(s)'
  BY <1>3 DEF Witnessed
<1>7. FrameRes(f)'
  <2>1. CASE kind = "join"
    <3>1. f.pc = "a"
      BY <1>1, <2>1 DEF Makes, KindPc, CallKinds, StackJobs
    <3> QED BY <1>1, <1>2, <1>3, <3>1 DEF FrameRes
  <2>2. CASE kind # "join"
    <3>1. f.kind \notin {"join", "join_b", "install_op"}
      BY <1>1, <2>2 DEF CallKinds
    <3> QED BY <3>1, FrameFree
  <2> QED BY <2>1, <2>2
<1>8. QueueRes'
  <2>1. ASSUME NEW p \in Names, NEW i \in DOMAIN Queue[p], Queue[p][i].kind \in {"join_b", "install_op"}
        PROVE  call'[Queue[p][i].id].result[0] = None
    <3>1. call[Queue[p][i].id].result[0] = None
      BY <2>1 DEF Results, QueueRes
    <3>2. Queue[p][i].id \in 1 .. Len(call)
      BY <2>1, QueueIds
    <3> QED BY <1>1, <3>1, <3>2
  <2>2. CASE kind \in {"join", "install"}
    <3>1. QPush(q, j) /\ j \in JobSet /\ j.id = NextId
      BY <2>2 DEF Makes
    <3>2. call'[j.id].result[0] = None
      BY <1>2, <1>3, <2>2, <3>1 DEF NextId
    <3>3. SUFFICES ASSUME NEW p \in Names, NEW i \in DOMAIN Queue'[p], Queue'[p][i].kind \in {"join_b", "install_op"}
                   PROVE  call'[Queue'[p][i].id].result[0] = None
      BY DEF QueueRes
    <3>4. \/ i \in DOMAIN Queue[p] /\ Queue'[p][i] = Queue[p][i]
          \/ Queue'[p][i] = j
      BY <1>4, <3>1, QPushAt
    <3> QED BY <2>1, <3>2, <3>3, <3>4
  <2>3. CASE kind \notin {"join", "install"}
    <3>1. QSame
      BY <2>3 DEF Makes
    <3> QED BY <2>1, <3>1 DEF QSame, QueueRes
  <2> QED BY <2>2, <2>3
<1>9. \A x \in 1 .. Len(call') : x # s => x \in 1 .. Len(call) /\ Records(x)
  BY <1>1, <1>2 DEF Records, Plain
<1>10. \A u \in Threads : \A i \in DOMAIN stack[u] : stack[u][i].id # s
  BY <1>1, <1>2
<1>11. Len(call) =< Len(call') /\ Len(stack[t]) + 1 > Len(stack[t])
  BY <1>1
<1> QED BY <1>1, <1>4, <1>5, <1>6, <1>7, <1>8, <1>9, <1>10, <1>11, ResultsStep

LEMMA MakesShared ==
  ASSUME Struct, Shared, NEW t \in Threads, NEW kind, NEW f, NEW q, NEW j, Makes(t, kind, f, q, j)
  PROVE  Shared'
<1>1. /\ Stacks /\ Puts(t, Len(stack[t]) + 1, f) /\ Len(call') = Len(call) + 1 /\ Len(call) \in Nat
      /\ \A x \in 1 .. Len(call) : call'[x] = call[x]
      /\ \A u \in Threads : \A i \in DOMAIN stack'[u] :
           stack'[u][i].id = Len(call) + 1 => u = t /\ i = Len(stack[t]) + 1
      /\ f.kind = kind /\ f.id = Len(call) + 1 /\ Len(stack[t]) \in Nat
      /\ \A p \in Names : \A i \in DOMAIN Queue[p] : Queue[p][i].id \in 0 .. Len(call)
  BY MakesFacts
<1>2. PICK s : s = Len(call) + 1
  OBVIOUS
<1>3. PICK c : /\ call'[s] = c /\ c.owner = t /\ c.kind = kind /\ ~c.set /\ c.panic = 0 /\ c.seen = {}
               /\ c.out = None
               /\ kind = "broadcast" => c.result = [w \in Workers |-> None]
               /\ kind # "broadcast" => c.result = [w \in {0} |-> None]
  BY <1>2, MakesFacts
<1>4. broadcasts' = broadcasts
  BY DEF Makes
<1>5. broadcasts \in [Workers -> Seq(JobSet)]
  BY DEF Struct, Shape
<1>6. ASSUME NEW x \in 1 .. Len(call), call'[x].kind = "broadcast", call'[x].out = None, NEW w \in Workers
      PROVE  SharedAt(w, x)'
  <2>1. call'[x] = call[x] /\ f.id # x
    BY <1>1
  <2>2. SharedAt(w, x)
    BY <1>6, <2>1 DEF Shared
  <2>3. \A i \in DOMAIN stack[t] : ~(i >= Len(stack[t]) + 1)
    BY <1>1, StackFacts DEF Stacks
  <2>4. StaysOn(w, x)
    BY <1>1, <2>1, <2>3, StaysOther
  <2>5. \A i \in DOMAIN broadcasts[w] : i \in Nat
    BY <1>5
  <2>6. Shifts(w, x, 0)
    BY <1>4, <2>5 DEF Shifts, InQueue
  <2> QED BY <2>1, <2>2, <2>4, <2>6, SharedKeeps
<1>7. ASSUME kind = "broadcast", NEW w \in Workers PROVE SharedAt(w, s)'
  <2>1. call'[s].result[w] = None
    BY <1>3, <1>7
  <2>2. Len(stack[t]) + 1 \in DOMAIN stack'[t] /\ stack'[t][Len(stack[t]) + 1] = f /\ w \in f.todo
    BY <1>1, <1>7, PutsAt DEF Stacks, Makes
  <2>3. ToCome(w, s)'
    BY <1>1, <1>2, <1>7, <2>2 DEF ToCome
  <2>4. ASSUME NEW i, InQueue(w, s, i)' PROVE FALSE
    <3>1. i \in DOMAIN Queue[<<"bcast", w>>] /\ Queue[<<"bcast", w>>][i].id = s /\ <<"bcast", w>> \in Names
      BY <1>4, <2>4, QueueAt DEF InQueue
    <3> QED BY <1>1, <1>2, <3>1
  <2>5. ASSUME NEW i, OnStack(w, s, i)' PROVE FALSE
    <3>1. w \in Threads /\ i \in DOMAIN stack'[w] /\ stack'[w][i].id = s /\ stack'[w][i].kind = "broadcast_op"
      BY <2>5, ThreadFacts DEF OnStack
    <3>2. w = t /\ i = Len(stack[t]) + 1
      BY <1>1, <1>2, <3>1
    <3> QED BY <1>1, <1>7, <2>2, <3>1, <3>2
  <2> QED BY <2>1, <2>3, <2>4, <2>5 DEF SharedAt
<1>8. ASSUME NEW x \in 1 .. Len(call'), x \notin 1 .. Len(call) PROVE x = s
  BY <1>1, <1>2, <1>8
<1> QED BY <1>3, <1>6, <1>7, <1>8 DEF Shared

LEMMA MakesRest ==
  ASSUME Struct, Rest, NEW t \in Threads, NEW kind, NEW f, NEW q, NEW j, Makes(t, kind, f, q, j)
  PROVE  Rest'
<1>1. /\ Stacks /\ Puts(t, Len(stack[t]) + 1, f) /\ Len(call') = Len(call) + 1 /\ Len(call) \in Nat
      /\ \A x \in 1 .. Len(call) : call'[x] = call[x]
  BY MakesFacts
<1>2. Results' /\ Shared'
  BY MakesResults, MakesShared DEF Rest
<1>3. f.pc \notin {"core", "notify"} /\ UNCHANGED clones
  BY DEF Makes, foreign
<1>4. CoreKept
  BY <1>1 DEF CoreKept
<1>5. Cored'
  BY <1>1, <1>3, <1>4, CoredStep DEF Rest
<1>6. ASSUME NEW x \in 1 .. Len(call'), x \notin 1 .. Len(call), CrossCalls \subseteq {"install"}, call'[x].owner \in Foreign
      PROVE  call'[x].kind = "install"
  <2>1. x = Len(call) + 1
    BY <1>1, <1>6
  <2>2. call'[Len(call) + 1].owner = t /\ call'[Len(call) + 1].kind = kind
    BY MakesFacts
  <2>3. t \in Foreign => kind \in CrossCalls
    BY DEF Makes
  <2> QED BY <1>6, <2>1, <2>2, <2>3
<1>7. Cloned'
  BY <1>1, <1>3, <1>6, ClonedStep DEF Rest
<1> QED BY <1>2, <1>5, <1>7 DEF Rest

-----------------------------------------------------------------------------
(* A broadcast's jobs come to the queues, and to the stacks.                 *)
LEMMA OnStackSame ==
  ASSUME Stacks, NEW t \in Threads, NEW n, NEW f, Puts(t, n, f), f.kind # "broadcast_op",
         \A i \in DOMAIN stack[t] : i >= n => stack[t][i].kind # "broadcast_op", NEW w \in Workers, NEW id, NEW i
  PROVE  OnStack(w, id, i)' <=> OnStack(w, id, i)
<1>1. n \in Nat /\ w \in Threads
  BY PutsAt, ThreadFacts DEF Stacks
<1>2. ASSUME i \in DOMAIN stack'[w], stack'[w][i].kind = "broadcast_op"
      PROVE  i \in DOMAIN stack[w] /\ stack'[w][i] = stack[w][i]
  <2>1. ~(w = t /\ i = n)
    BY <1>2 DEF Puts
  <2> QED BY <1>1, <1>2, <2>1, PutsElse
<1>3. ASSUME i \in DOMAIN stack[w], stack[w][i].kind = "broadcast_op"
      PROVE  i \in DOMAIN stack'[w] /\ stack'[w][i] = stack[w][i]
  <2>1. i \in Nat
    BY <1>1, <1>3, StackFacts DEF Stacks
  <2>2. w # t \/ i < n
    BY <1>1, <1>3, <2>1
  <2> QED BY <1>1, <1>3, <2>2, PutsAt DEF Stacks
<1> QED BY <1>2, <1>3 DEF OnStack

Shares(t, h, w, id) ==
  /\ stack[t] # <<>> /\ Stacks /\ Puts(t, Len(stack[t]), h) /\ Len(stack[t]) \in DOMAIN stack[t]
  /\ stack[t][Len(stack[t])] = Top(t) /\ h.kind = "broadcast" /\ Top(t).kind = "broadcast" /\ h.id = id /\ Top(t).id = id
  /\ id \in 1 .. Len(call) /\ call[id].kind = "broadcast" /\ call[id].out = None /\ call[id].owner = t
  /\ w \in Workers /\ w \in Top(t).todo /\ h.todo = Top(t).todo \ {w} /\ h.pc = "wait"
  /\ Top(t).pend \in JobSet /\ Top(t).pend.kind = "broadcast_op" /\ Top(t).pend.id = id
  /\ QPush(<<"bcast", w>>, Top(t).pend) /\ UNCHANGED <<call, clones, panics>>
  /\ \A i \in DOMAIN stack[t] : i >= Len(stack[t]) => stack[t][i] = Top(t)

LEMMA SharesForm ==
  ASSUME Struct, NEW t \in Threads, NEW h, NEW w, NEW p, Broadcasts(t, h, w, p), Top(t).pend.kind = "broadcast_op"
  PROVE  Shares(t, h, w, Top(t).id)
<1>1. /\ stack[t] # <<>> /\ h \in FrameSet /\ h = WithPend(Top(t), p, Top(t).todo \ {w}) /\ stack' = SetTop(t, h)
      /\ w \in Workers /\ w \in Top(t).todo
      /\ Top(t).kind = "broadcast" /\ Top(t).pend \in JobSet /\ Top(t).pend.id = Top(t).id
      /\ QPush(<<"bcast", w>>, Top(t).pend) /\ UNCHANGED <<call, clones, panics>>
  BY DEF Broadcasts, foreign
<1>2. /\ Stacks /\ Puts(t, Len(stack[t]), h) /\ Len(stack[t]) \in DOMAIN stack[t] /\ stack[t][Len(stack[t])] = Top(t)
      /\ h.kind = Top(t).kind /\ h.id = Top(t).id /\ h.pc = Top(t).pc /\ h.todo = Top(t).todo \ {w}
  <2>1. Top(t) \in FrameSet
    BY <1>1, TopFacts
  <2>2. h.kind = Top(t).kind /\ h.id = Top(t).id /\ h.pc = Top(t).pc /\ h.todo = Top(t).todo \ {w}
    BY <1>1, <2>1 DEF WithPend, FrameSet
  <2> QED BY <1>1, <2>2, SetPuts
<1>3. Top(t).id \in 1 .. Len(call) /\ FrameOK(Top(t))
  BY <1>1, TopFacts DEF CallKinds
<1>4. call[Top(t).id].kind = "broadcast" /\ call[Top(t).id].out = None /\ call[Top(t).id].owner = t
  BY <1>1, <1>2 DEF Struct, Called, CallKinds
<1>5. Top(t).pc = "wait"
  BY <1>1, <1>3 DEF FrameOK, KindPc, StackJobs
<1>6. \A i \in DOMAIN stack[t] : i >= Len(stack[t]) => stack[t][i] = Top(t)
  BY <1>1, <1>2, AtTop
<1> QED BY <1>1, <1>2, <1>3, <1>4, <1>5, <1>6 DEF Shares

LEMMA SharesShared ==
  ASSUME Struct, Shared, NEW t \in Threads, NEW h, NEW w, NEW id, Shares(t, h, w, id)
  PROVE  Shared'
<1>1. /\ Stacks /\ Puts(t, Len(stack[t]), h) /\ Len(stack[t]) \in DOMAIN stack[t]
      /\ stack[t][Len(stack[t])] = Top(t) /\ h.kind = "broadcast" /\ Top(t).kind = "broadcast" /\ h.id = id /\ Top(t).id = id
      /\ id \in 1 .. Len(call) /\ call[id].kind = "broadcast" /\ call[id].out = None /\ call[id].owner = t
      /\ w \in Workers /\ w \in Top(t).todo /\ h.todo = Top(t).todo \ {w} /\ UNCHANGED call
      /\ \A i \in DOMAIN stack[t] : i >= Len(stack[t]) => stack[t][i] = Top(t)
  BY DEF Shares
<1>2. PICK j \in JobSet : j = Top(t).pend
  BY DEF Shares
<1>3. j.kind = "broadcast_op" /\ j.id = id /\ QPush(<<"bcast", w>>, j) /\ Shape
  BY <1>2 DEF Shares, Struct
<1>4. /\ \A v \in Workers : v # w => broadcasts'[v] = broadcasts[v]
      /\ broadcasts'[w] = Append(broadcasts[w], j)
  <2>1. Queue'[<<"bcast", w>>] = Append(Queue[<<"bcast", w>>], j)
        /\ \A p \in Names \ {<<"bcast", w>>} : Queue'[p] = Queue[p]
    BY <1>3 DEF QPush, QWrites
  <2>2. ASSUME NEW v \in Workers, v # w PROVE broadcasts'[v] = broadcasts[v]
    <3>1. <<"bcast", v>> \in Names \ {<<"bcast", w>>}
      BY <2>2, QueueAt
    <3> QED BY <2>1, <3>1, QueueAt, QueueAtNext
  <2> QED BY <1>1, <2>1, <2>2, QueueAt, QueueAtNext
<1>5. PICK n : n = Len(broadcasts[w])
  OBVIOUS
<1>6. /\ n \in Nat /\ DOMAIN broadcasts[w] = 1 .. n /\ DOMAIN broadcasts'[w] = 1 .. n + 1 /\ broadcasts'[w][n + 1] = j
      /\ \A i \in 1 .. n : broadcasts'[w][i] = broadcasts[w][i]
  <2>1. broadcasts[w] \in Seq(JobSet)
    BY <1>1, <1>3 DEF Shape
  <2> QED BY <1>4, <1>5, <2>1
<1>7. \A v \in Workers : \A i \in DOMAIN broadcasts[v] : i \in Nat
  BY <1>3 DEF Shape
<1>8. ASSUME NEW v \in Workers, NEW x, v # w \/ x # id PROVE Shifts(v, x, 0)
  <2>1. CASE v # w
    <3>1. broadcasts'[v] = broadcasts[v]
      BY <1>4, <2>1
    <3> QED BY <1>7, <3>1 DEF Shifts, InQueue
  <2>2. CASE v = w /\ x # id
    <3>1. ASSUME NEW i, InQueue(w, x, i)' PROVE i \in Nat /\ InQueue(w, x, i + 0)
      <4>1. i \in 1 .. n + 1 /\ broadcasts'[w][i].id = x /\ broadcasts'[w][i].kind = "broadcast_op"
        BY <1>6, <3>1 DEF InQueue
      <4>2. i # n + 1
        BY <1>3, <1>6, <2>2, <4>1
      <4>3. i \in 1 .. n /\ i + 0 = i
        BY <1>6, <4>1, <4>2
      <4> QED BY <1>6, <4>1, <4>3 DEF InQueue
    <3>2. ASSUME NEW i, InQueue(w, x, i) PROVE i \in Nat /\ InQueue(w, x, i - 0)'
      <4>1. i \in 1 .. n /\ broadcasts[w][i].id = x /\ broadcasts[w][i].kind = "broadcast_op"
        BY <1>6, <3>2 DEF InQueue
      <4>2. i \in 1 .. n + 1 /\ i - 0 = i
        BY <1>6, <4>1
      <4> QED BY <1>6, <4>1, <4>2 DEF InQueue
    <3> QED BY <2>2, <3>1, <3>2 DEF Shifts
  <2> QED BY <1>8, <2>1, <2>2
<1>9. ASSUME NEW v \in Workers, NEW x, NEW i PROVE OnStack(v, x, i)' <=> OnStack(v, x, i)
  <2>1. \A l \in DOMAIN stack[t] : l >= Len(stack[t]) => stack[t][l].kind # "broadcast_op"
    BY <1>1
  <2> QED BY <1>1, <2>1, OnStackSame
<1>10. Len(stack[t]) \in DOMAIN stack'[t] /\ stack'[t][Len(stack[t])] = h
  BY <1>1, PutsAt DEF Stacks
<1>11. ASSUME NEW v, v # w PROVE ToCome(v, id)' <=> ToCome(v, id)
  <2>1. ASSUME ToCome(v, id)' PROVE ToCome(v, id)
    <3>1. PICK u \in Threads : \E i \in DOMAIN stack'[u] :
            stack'[u][i].kind = "broadcast" /\ stack'[u][i].id = id /\ v \in stack'[u][i].todo
      BY <2>1 DEF ToCome
    <3>2. PICK i \in DOMAIN stack'[u] : stack'[u][i].kind = "broadcast" /\ stack'[u][i].id = id /\ v \in stack'[u][i].todo
      BY <3>1
    <3>3. CASE u = t /\ i = Len(stack[t])
      BY <1>1, <1>10, <3>2, <3>3 DEF ToCome
    <3>4. CASE ~(u = t /\ i = Len(stack[t]))
      <4>1. i \in DOMAIN stack[u] /\ stack'[u][i] = stack[u][i]
        BY <1>1, <3>4, PutsElse
      <4> QED BY <3>2, <4>1 DEF ToCome
    <3> QED BY <3>3, <3>4
  <2>2. ASSUME ToCome(v, id) PROVE ToCome(v, id)'
    <3>1. PICK u \in Threads : \E i \in DOMAIN stack[u] :
            stack[u][i].kind = "broadcast" /\ stack[u][i].id = id /\ v \in stack[u][i].todo
      BY <2>2 DEF ToCome
    <3>2. PICK i \in DOMAIN stack[u] : stack[u][i].kind = "broadcast" /\ stack[u][i].id = id /\ v \in stack[u][i].todo
      BY <3>1
    <3>3. u = t /\ i = Len(stack[t])
      BY <1>1, <3>2 DEF Struct, Called, CallKinds
    <3>4. v \in h.todo
      BY <1>1, <1>11, <3>2, <3>3
    <3> QED BY <1>1, <1>10, <3>4 DEF ToCome
  <2> QED BY <2>1, <2>2
<1>12. ASSUME NEW x \in 1 .. Len(call), call[x].kind = "broadcast", call[x].out = None, NEW v \in Workers, v # w \/ x # id
       PROVE  SharedAt(v, x)'
  <2>1. SharedAt(v, x)
    BY <1>12 DEF Shared
  <2>2. StaysOn(v, x)
    <3>1. CASE x # id
      <4>1. h.id # x /\ \A i \in DOMAIN stack[t] : i >= Len(stack[t]) => stack[t][i].id # x
        BY <1>1, <3>1
      <4> QED BY <1>1, <4>1, StaysOther
    <3>2. CASE x = id
      BY <1>9, <1>11, <1>12, <3>2 DEF StaysOn
    <3> QED BY <3>1, <3>2
  <2>3. Shifts(v, x, 0) /\ call'[x].result[v] = call[x].result[v]
    BY <1>1, <1>8, <1>12
  <2> QED BY <2>1, <2>2, <2>3, SharedKeeps
<1>13. SharedAt(w, id)'
  <2>1. SharedAt(w, id)
    BY <1>1 DEF Shared
  <2>2. ToCome(w, id)
    BY <1>1 DEF ToCome
  <2>3. call[id].result[w] = None /\ (\A i \in DOMAIN broadcasts[w] : ~InQueue(w, id, i))
        /\ \A i \in DOMAIN stack[w] : ~OnStack(w, id, i)
    BY <2>1, <2>2 DEF SharedAt
  <2>4. ASSUME NEW i, OnStack(w, id, i)' PROVE FALSE
    <3>1. OnStack(w, id, i)
      BY <1>1, <1>9, <2>4
    <3>2. i \in DOMAIN stack[w]
      BY <3>1 DEF OnStack
    <3> QED BY <2>3, <3>1, <3>2
  <2>5. ASSUME NEW i, InQueue(w, id, i)' PROVE i = n + 1
    <3>1. i \in 1 .. n + 1 /\ broadcasts'[w][i].id = id /\ broadcasts'[w][i].kind = "broadcast_op"
      BY <1>6, <2>5 DEF InQueue
    <3>2. ASSUME i \in 1 .. n PROVE FALSE
      BY <1>6, <2>3, <3>1, <3>2 DEF InQueue
    <3> QED BY <1>6, <3>1, <3>2
  <2>6. InQueue(w, id, n + 1)' /\ n + 1 \in DOMAIN broadcasts'[w]
    <3>1. n + 1 \in 1 .. n + 1
      BY <1>6
    <3> QED BY <1>3, <1>6, <3>1 DEF InQueue
  <2>7. ~ToCome(w, id)'
    <3>1. SUFFICES ASSUME ToCome(w, id)' PROVE FALSE
      OBVIOUS
    <3>2. PICK u \in Threads : \E i \in DOMAIN stack'[u] :
            stack'[u][i].kind = "broadcast" /\ stack'[u][i].id = id /\ w \in stack'[u][i].todo
      BY <3>1 DEF ToCome
    <3>3. PICK i \in DOMAIN stack'[u] : stack'[u][i].kind = "broadcast" /\ stack'[u][i].id = id /\ w \in stack'[u][i].todo
      BY <3>2
    <3>4. CASE u = t /\ i = Len(stack[t])
      BY <1>1, <1>10, <3>3, <3>4
    <3>5. CASE ~(u = t /\ i = Len(stack[t]))
      <4>1. i \in DOMAIN stack[u] /\ stack'[u][i] = stack[u][i]
        BY <1>1, <3>5, PutsElse
      <4>2. stack[u][i].kind = "broadcast" /\ stack[u][i].id = id
        BY <3>3, <4>1
      <4>3. u = t /\ i = Len(stack[t])
        BY <1>1, <4>1, <4>2 DEF Struct, Called, CallKinds
      <4> QED BY <3>5, <4>3
    <3> QED BY <3>4, <3>5
  <2>8. call'[id].result[w] = None
    BY <1>1, <2>3
  <2> QED BY <2>4, <2>5, <2>6, <2>7, <2>8 DEF SharedAt
<1> QED BY <1>1, <1>12, <1>13 DEF Shared

LEMMA SharesRest ==
  ASSUME Struct, Rest, NEW t \in Threads, NEW h, NEW w, NEW id, Shares(t, h, w, id)
  PROVE  Rest'
<1>1. /\ Stacks /\ Puts(t, Len(stack[t]), h) /\ h.kind = "broadcast" /\ h.pc = "wait"
      /\ UNCHANGED <<call, clones, panics>> /\ Top(t).kind = "broadcast" /\ stack[t] # <<>>
  BY DEF Shares
<1>2. Cored /\ Results /\ Shared /\ Cloned /\ Shape /\ panics \in Nat
  BY DEF Rest, Struct, Shape
<1>3. CoreKept /\ \A x : Records(x)
  BY <1>1, CallSameMild
<1>4. Cored'
  BY <1>1, <1>2, <1>3, CoredStep
<1>5. Cloned'
  BY <1>1, <1>2, ClonedStep
<1>6. Shared'
  BY <1>2, SharesShared
<1>7. QueueRes'
  <2>1. PICK j \in JobSet : j = Top(t).pend
    BY DEF Shares
  <2>2. QPush(<<"bcast", w>>, j) /\ j.kind = "broadcast_op"
    BY <2>1 DEF Shares
  <2>3. SUFFICES ASSUME NEW p \in Names, NEW i \in DOMAIN Queue'[p], Queue'[p][i].kind \in {"join_b", "install_op"}
                 PROVE  call'[Queue'[p][i].id].result[0] = None
    BY DEF QueueRes
  <2>4. \/ i \in DOMAIN Queue[p] /\ Queue'[p][i] = Queue[p][i]
        \/ Queue'[p][i] = j
    BY <1>2, <2>2, QPushAt
  <2> QED BY <1>1, <1>2, <2>2, <2>3, <2>4 DEF Results, QueueRes
<1>8. FrameRes(h)'
  BY <1>1, FrameFree
<1>9. Top(t).pc # "panicked"
  BY <1>1, TopFacts DEF FrameOK, KindPc, StackJobs
<1>10. PICK s : s = Len(call) + 1
  OBVIOUS
<1>11. Len(call) \in Nat /\ Len(call') = Len(call) /\ s \notin 1 .. Len(call') /\ panics' \in Nat /\ panics =< panics'
       /\ Len(call) =< Len(call')
  BY <1>1, <1>2, <1>10 DEF Shape
<1>12. \A x \in 1 .. Len(call') : x # s => x \in 1 .. Len(call) /\ Records(x)
  BY <1>3, <1>11
<1>13. ASSUME NEW u \in Threads, NEW i \in DOMAIN stack[u] PROVE stack[u][i].id # s
  <2>1. stack[u][i] \in FrameSet /\ FrameOK(stack[u][i])
    BY FrameIds
  <2>2. stack[u][i].id \in Nat /\ stack[u][i].id =< Len(call)
    BY <2>1 DEF FrameSet, FrameOK
  <2> QED BY <1>10, <1>11, <2>2
<1>14. Results'
  BY <1>1, <1>2, <1>7, <1>8, <1>9, <1>11, <1>12, <1>13, ResultsStep
<1> QED BY <1>4, <1>5, <1>6, <1>14 DEF Rest

LEMMA BroadcastsRest ==
  ASSUME Struct, Finite, Counted, Rest, NEW t \in Threads, NEW h, NEW w, NEW p, Broadcasts(t, h, w, p)
  PROVE  Rest'
<1>1. CASE Top(t).pend.kind = "broadcast_op"
  BY <1>1, SharesForm, SharesRest
<1>2. CASE Top(t).pend.kind # "broadcast_op"
  BY <1>2, BroadcastsJobRest
<1> QED BY <1>1, <1>2

LEMMA ExecutesShared ==
  ASSUME Struct, Shared, NEW t \in Workers, NEW q, NEW j, NEW d, Executes(t, q, j, d), j.kind = "broadcast_op",
         NEW f, Stacks, Puts(t, Len(stack[t]) + 1, f), f.kind = j.kind, f.id = j.id, f.pc = "run"
  PROVE  Shared'
<1>1. t \in Threads /\ Len(stack[t]) \in Nat /\ \A i \in DOMAIN stack[t] : ~(i >= Len(stack[t]) + 1)
  BY ThreadFacts, StackFacts DEF Stacks
<1>2. UNCHANGED call /\ QTake(q, j, d)
  BY DEF Executes
<1>3. broadcasts' = [broadcasts EXCEPT ![t] = Tail(broadcasts[t])] /\ j = Head(broadcasts[t]) /\ broadcasts[t] # <<>>
  <2>1. q[1] = "bcast"
    BY <1>2, TakenOK
  <2> QED BY <2>1 DEF Executes
<1>4. broadcasts \in [Workers -> Seq(JobSet)]
  BY DEF Struct, Shape
<1>5. \A v \in Workers : v # t => broadcasts'[v] = broadcasts[v]
  BY <1>3, <1>4
<1>6. PICK s : s = broadcasts[t]
  OBVIOUS
<1>7. s \in Seq(JobSet) /\ s # <<>> /\ broadcasts'[t] = Tail(s) /\ j = Head(s)
  BY <1>3, <1>4, <1>6
<1>8. PICK n : n = Len(s)
  OBVIOUS
<1>9. n \in Nat /\ n >= 1 /\ DOMAIN s = 1 .. n /\ DOMAIN Tail(s) = 1 .. n - 1 /\ j = s[1]
      /\ \A i \in 1 .. n - 1 : Tail(s)[i] = s[i + 1]
  BY <1>7, <1>8
<1>10. ASSUME NEW x, NEW i, InQueue(t, x, i)' PROVE i \in Nat /\ i >= 1 /\ InQueue(t, x, i + 1)
  <2>1. i \in 1 .. n - 1 /\ Tail(s)[i].kind = "broadcast_op" /\ Tail(s)[i].id = x
    BY <1>7, <1>9, <1>10 DEF InQueue
  <2>2. i + 1 \in 1 .. n /\ i \in Nat /\ i >= 1
    BY <1>9, <2>1
  <2> QED BY <1>6, <1>9, <2>1, <2>2 DEF InQueue
<1>11. ASSUME NEW x, NEW i, InQueue(t, x, i), i # 1 PROVE i \in Nat /\ InQueue(t, x, i - 1)'
  <2>1. i \in 1 .. n /\ s[i].kind = "broadcast_op" /\ s[i].id = x
    BY <1>6, <1>9, <1>11 DEF InQueue
  <2>2. i \in Nat /\ i - 1 \in 1 .. n - 1 /\ (i - 1) + 1 = i
    BY <1>9, <1>11, <2>1
  <2>3. Tail(s)[i - 1] = s[i]
    BY <1>9, <2>2
  <2> QED BY <1>7, <1>9, <2>1, <2>2, <2>3 DEF InQueue
<1>12. \A v \in Workers : \A i \in DOMAIN broadcasts[v] : i \in Nat
  BY <1>4
<1>13. ASSUME NEW v \in Workers, v # t, NEW x PROVE Shifts(v, x, 0)
  <2>1. broadcasts'[v] = broadcasts[v]
    BY <1>5, <1>13
  <2> QED BY <1>12, <2>1 DEF Shifts, InQueue
<1>14. ASSUME NEW x, x # j.id PROVE Shifts(t, x, 1)
  <2>1. ASSUME NEW i, InQueue(t, x, i) PROVE i # 1
    BY <1>6, <1>9, <1>14, <2>1 DEF InQueue
  <2> QED BY <1>10, <1>11, <2>1 DEF Shifts
<1>15. ASSUME NEW v, NEW x PROVE ToCome(v, x)' <=> ToCome(v, x)
  <2>1. f.kind # "broadcast"
    OBVIOUS
  <2> QED BY <1>1, <2>1, ToComeSame
<1>16. ASSUME NEW v \in Workers, v # t, NEW x PROVE StaysOn(v, x)
  <2>1. v \in Threads \ {t}
    BY <1>16, ThreadFacts
  <2>2. stack'[v] = stack[v]
    BY <2>1 DEF Puts
  <2>3. \A i : OnStack(v, x, i)' <=> OnStack(v, x, i)
    BY <2>2 DEF OnStack
  <2> QED BY <1>15, <2>3 DEF StaysOn
<1>17. ASSUME NEW x, x # j.id PROVE StaysOn(t, x)
  BY <1>1, <1>17, StaysOther
<1>18. ASSUME NEW x \in 1 .. Len(call), call[x].kind = "broadcast", call[x].out = None, NEW v \in Workers, v # t \/ x # j.id
       PROVE  SharedAt(v, x)'
  <2>1. SharedAt(v, x)
    BY <1>18 DEF Shared
  <2>2. StaysOn(v, x)
    BY <1>16, <1>17, <1>18
  <2>3. PICK k : Shifts(v, x, k)
    BY <1>13, <1>14, <1>18
  <2>4. call'[x].result[v] = call[x].result[v]
    BY <1>2
  <2> QED BY <2>1, <2>2, <2>3, <2>4, SharedKeeps
<1>19. ASSUME NEW x \in 1 .. Len(call), call[x].kind = "broadcast", call[x].out = None, x = j.id PROVE SharedAt(t, x)'
  <2>1. SharedAt(t, x)
    BY <1>19 DEF Shared
  <2>2. InQueue(t, x, 1) /\ 1 \in DOMAIN broadcasts[t]
    <3>1. 1 \in 1 .. n
      BY <1>9
    <3> QED BY <1>6, <1>9, <1>19, <3>1 DEF InQueue
  <2>3. /\ call[x].result[t] = None /\ ~ToCome(t, x) /\ \A i \in DOMAIN stack[t] : ~OnStack(t, x, i)
        /\ \A i \in DOMAIN broadcasts[t] : InQueue(t, x, i) => i = 1
    BY <2>1, <2>2 DEF SharedAt
  <2>4. ASSUME NEW i, InQueue(t, x, i)' PROVE FALSE
    <3>1. i \in Nat /\ i >= 1 /\ InQueue(t, x, i + 1)
      BY <1>10, <2>4
    <3>2. i + 1 \in DOMAIN broadcasts[t]
      BY <3>1 DEF InQueue
    <3>3. i + 1 = 1
      BY <2>3, <3>1, <3>2
    <3> QED BY <3>1, <3>3
  <2>0. PICK m : m = Len(stack[t]) + 1
    OBVIOUS
  <2>5. m \in DOMAIN stack'[t] /\ stack'[t][m] = f
    BY <1>1, <2>0, PutsAt DEF Stacks
  <2>6. OnStack(t, x, m)'
    BY <1>19, <2>5 DEF OnStack
  <2>7. ASSUME NEW i, OnStack(t, x, i)' PROVE i = m
    <3>1. SUFFICES ASSUME i # m PROVE FALSE
      OBVIOUS
    <3>2. i \in DOMAIN stack'[t]
      BY <2>7 DEF OnStack
    <3>3. i \in DOMAIN stack[t] /\ stack'[t][i] = stack[t][i]
      BY <1>1, <2>0, <3>1, <3>2, PutsElse
    <3>4. OnStack(t, x, i)
      BY <2>7, <3>3 DEF OnStack
    <3> QED BY <2>3, <3>3, <3>4
  <2>8. ~ToCome(t, x)' /\ call'[x].result[t] = None
    BY <1>2, <1>15, <2>3
  <2> QED BY <2>4, <2>5, <2>6, <2>7, <2>8 DEF SharedAt
<1> QED BY <1>2, <1>18, <1>19 DEF Shared

LEMMA ExecutesRest ==
  ASSUME Struct, Rest, NEW t \in Workers, NEW q, NEW j, NEW d, Executes(t, q, j, d)
  PROVE  Rest'
<1>0. /\ UNCHANGED <<call, clones, panics>> /\ QTake(q, j, d) /\ t \in Threads /\ stack[t] # <<>>
      /\ Top(t).pc \in WaitPcs \cup {"loop"}
  BY ThreadFacts DEF Executes, foreign
<1>1. CASE j.kind # "broadcast_op"
  <2>1. PICK n, f : Mild(t, n, f)
    BY <1>1, ExecutesMild DEF Rest
  <2> QED BY <1>0, <2>1, MildRest
<1>2. CASE j.kind = "broadcast_op"
  <2>1. PICK f : /\ Stacks /\ Puts(t, Len(stack[t]) + 1, f) /\ f \in FrameSet /\ f.kind = j.kind /\ f.id = j.id
                 /\ f.pc = "run" /\ f.err = 0 /\ f.pend = NoJob /\ f.todo = {} /\ j \in JobSet /\ JobOK(j)
    BY ExecutePuts
  <2>2. Cored /\ Results /\ Shared /\ Cloned /\ Shape /\ panics \in Nat
    BY DEF Rest, Struct, Shape
  <2>3. CoreKept /\ \A x : Records(x)
    BY <1>0, CallSameMild
  <2>4. Cored'
    BY <1>0, <2>1, <2>2, <2>3, CoredStep
  <2>5. Cloned'
    BY <1>0, <2>1, <2>2, ClonedStep
  <2>6. Shared'
    BY <1>2, <2>1, <2>2, ExecutesShared
  <2>7. QueueRes'
    <3>1. SUFFICES ASSUME NEW p \in Names, NEW i \in DOMAIN Queue'[p], Queue'[p][i].kind \in {"join_b", "install_op"}
                   PROVE  call'[Queue'[p][i].id].result[0] = None
      BY DEF QueueRes
    <3>2. \E l \in DOMAIN Queue[p] : Queue'[p][i] = Queue[p][l]
      BY <1>0, <2>2, QTakeAt
    <3> QED BY <1>0, <2>2, <3>1, <3>2 DEF Results, QueueRes
  <2>8. FrameRes(f)'
    BY <1>2, <2>1, FrameFree
  <2>9. Top(t).pc # "panicked"
    BY <1>0 DEF WaitPcs
  <2>10. PICK s : s = Len(call) + 1
    OBVIOUS
  <2>11. Len(call) \in Nat /\ Len(call') = Len(call) /\ s \notin 1 .. Len(call') /\ panics' \in Nat /\ panics =< panics'
         /\ Len(call) =< Len(call')
    BY <1>0, <2>2, <2>10 DEF Shape
  <2>12. \A x \in 1 .. Len(call') : x # s => x \in 1 .. Len(call) /\ Records(x)
    BY <2>3, <2>11
  <2>13. ASSUME NEW u \in Threads, NEW i \in DOMAIN stack[u] PROVE stack[u][i].id # s
    <3>1. stack[u][i] \in FrameSet /\ FrameOK(stack[u][i])
      BY FrameIds
    <3>2. stack[u][i].id \in Nat /\ stack[u][i].id =< Len(call)
      BY <3>1 DEF FrameSet, FrameOK
    <3> QED BY <2>10, <2>11, <3>2
  <2>14. Results'
    BY <1>0, <2>1, <2>2, <2>7, <2>8, <2>9, <2>11, <2>12, <2>13, ResultsStep
  <2> QED BY <2>4, <2>5, <2>6, <2>14 DEF Rest
<1> QED BY <1>1, <1>2

LEMMA InlinesRest ==
  ASSUME Struct, Rest, NEW t \in Workers, NEW h, NEW q, NEW j, NEW d, Inlines(t, h, q, j, d)
  PROVE  Rest'
<1>1. UNCHANGED clones /\ t \in Threads
  BY ThreadFacts DEF Inlines, foreign
<1> QED BY <1>1, InlinesMild, MildRest DEF Rest

LEMMA WaitsBRest ==
  ASSUME Struct, Rest, NEW t \in Workers, NEW h, WaitsB(t, h)
  PROVE  Rest'
<1>1. UNCHANGED clones /\ t \in Threads
  BY ThreadFacts DEF WaitsB, foreign
<1> QED BY <1>1, WaitsBMild, MildRest DEF Rest

-----------------------------------------------------------------------------
(* A call returns.                                                           *)
Alone(t, id) ==
  /\ \A u \in Threads : \A i \in DOMAIN stack[u] :
       stack[u][i].id = id /\ Token(stack[u][i]) => u = t /\ i = Len(stack[t])
  /\ \A q \in Names : \A i \in DOMAIN Queue[q] : Queue[q][i].id # id

LEMMA AloneSet ==
  ASSUME Struct, Finite, Counted, NEW t \in Threads, NEW id \in 1 .. Len(call), call[id].set
  PROVE  Alone(t, id) /\ \A u \in Threads : \A i \in DOMAIN stack[u] : stack[u][i].id = id => ~Token(stack[u][i])
<1>1. Shape
  BY DEF Struct
<1>2. ASSUME NEW u \in Threads, NEW i \in DOMAIN stack[u], stack[u][i].id = id, Token(stack[u][i]) PROVE FALSE
  <2>1. Held(<<"held", id>>) \in Nat /\ Held(<<"held", id>>) > 0
    BY <1>1, <1>2, TokenHeld
  <2> QED BY <2>1, HeldLive
<1>3. ASSUME NEW q \in Names, NEW i \in DOMAIN Queue[q], Queue[q][i].id = id PROVE FALSE
  <2>1. Held(<<"held", id>>) \in Nat /\ Held(<<"held", id>>) > 0
    BY <1>1, <1>3, QueuedHeld
  <2> QED BY <2>1, HeldLive
<1> QED BY <1>2, <1>3 DEF Alone

LEMMA AloneInline ==
  ASSUME Struct, Finite, Counted, NEW t \in Threads, stack[t] # <<>>, Top(t).kind = "join", Top(t).pc = "inline"
  PROVE  Alone(t, Top(t).id)
<1>1. Len(stack[t]) \in DOMAIN stack[t] /\ stack[t][Len(stack[t])] = Top(t) /\ Top(t).id \in 1 .. Len(call)
  BY TopFacts DEF CallKinds
<1>2. call[Top(t).id].kind = "join" /\ Token(Top(t))
  BY <1>1, FrameIds DEF CallKinds, Token
<1>3. call[Top(t).id].kind \notin Counting
  BY <1>2 DEF Counting
<1>4. PICK id : id = Top(t).id
  OBVIOUS
<1>5. ASSUME NEW u \in Threads, NEW i \in DOMAIN stack[u], stack[u][i].id = id, Token(stack[u][i])
      PROVE  u = t /\ i = Len(stack[t])
  BY <1>1, <1>2, <1>3, <1>4, <1>5, SoleFrame
<1>6. ASSUME NEW q \in Names, NEW i \in DOMAIN Queue[q] PROVE Queue[q][i].id # id
  BY <1>1, <1>2, <1>3, <1>4, SoleQueue
<1> QED BY <1>4, <1>5, <1>6 DEF Alone

LEMMA GoneRest ==
  ASSUME Struct, Rest, NEW t \in Threads, NEW n, NEW g, NEW id, NEW e, Gone(t, n, g, id, e), QSame, UNCHANGED clones,
         panics \in Nat, panics' \in Nat, panics =< panics', Alone(t, id), Reported(call[id])', 0 \notin call'[id].seen
  PROVE  Rest'
<1>1. /\ stack[t] # <<>> /\ n = Len(stack[t]) - 1 /\ n \in DOMAIN stack[t]
      /\ Stacks /\ Puts(t, n, g) /\ Same(g, stack[t][n]) /\ g.pc = stack[t][n].pc
      /\ g.todo = {} /\ stack[t][n].todo = {} /\ g.pc \in UserPcs
      /\ id = Top(t).id /\ id \in 1 .. Len(call) /\ Top(t).kind \in CallKinds /\ Top(t).todo = {}
      /\ Len(call') = Len(call)
  BY DEF Gone
<1>2. /\ \A x \in 1 .. Len(call) : x # id => call'[x] = call[x]
      /\ call'[id].out = e /\ e \in Nat /\ call'[id].set = call[id].set /\ call'[id].kind = call[id].kind
      /\ call'[id].owner = call[id].owner /\ call'[id].count = call[id].count /\ call'[id].panic = call[id].panic
  BY DEF Gone
<1>3. /\ Len(stack[t]) \in Nat /\ Len(stack[t]) \in DOMAIN stack[t] /\ stack[t][Len(stack[t])] = Top(t)
      /\ DOMAIN stack[t] = 1 .. Len(stack[t]) /\ Len(call) \in Nat
  BY <1>1, TopFacts DEF Struct, Shape
<1>4. ASSUME NEW x \in 1 .. Len(call)
      PROVE  call'[x].kind = call[x].kind /\ call'[x].owner = call[x].owner /\ call'[x].set = call[x].set
             /\ call'[x].count = call[x].count
  <2>1. CASE x = id
    BY <1>2, <2>1
  <2>2. CASE x # id
    BY <1>2, <2>2
  <2> QED BY <2>1, <2>2
<1>5. Cored /\ Results /\ Shared /\ Cloned
  BY DEF Rest
<1>6. Cored'
  <2>1. CoreKept
    BY <1>4 DEF CoreKept
  <2>2. g.pc # "core"
    BY <1>1 DEF UserPcs
  <2> QED BY <1>1, <1>5, <2>1, <2>2, CoredStep
<1>7. Cloned'
  <2>1. g.pc \notin {"core", "notify"}
    BY <1>1 DEF UserPcs
  <2> QED BY <1>1, <1>4, <1>5, <2>1, ClonedStep
<1>8. e # None
  BY <1>2, ThreadFacts
<1>9. Shared'
  <2>1. ASSUME NEW i \in DOMAIN stack[t], i > n PROVE ~Carrier(stack[t][i])
    <3>1. i = Len(stack[t])
      BY <1>1, <1>3, <2>1
    <3>2. stack[t][i] = Top(t)
      BY <1>3, <3>1
    <3> QED BY <1>1, <3>2 DEF Carrier, CallKinds
  <2>2. Carries(t, n, g)
    BY <1>1, <2>1 DEF Carries, Same
  <2>3. ASSUME NEW x \in 1 .. Len(call), call[x].kind = "broadcast", call'[x].out = None
        PROVE  call[x].out = None /\ call'[x].result = call[x].result
    BY <1>2, <1>8, <2>3
  <2> QED BY <1>1, <1>4, <1>5, <2>2, <2>3, SharedStep DEF QMild
<1>10. CallRes(id)' /\ Witnessed(id)'
  <2>1. CallRes(id) /\ call[id].panic \in Nat
    BY <1>1, <1>5, CallFacts DEF Results, Struct
  <2>2. call[id].panic =< panics
    BY <2>1 DEF CallRes
  <2>3. call'[id].panic =< panics'
    BY <1>2, <2>1, <2>2
  <2> QED BY <1>2, <1>8, <2>3 DEF CallRes, Witnessed
<1>11. QueueRes'
  <2>1. ASSUME NEW q \in Names, NEW i \in DOMAIN Queue[q], Queue[q][i].kind \in {"join_b", "install_op"}
        PROVE  call'[Queue[q][i].id].result[0] = call[Queue[q][i].id].result[0]
    <3>1. Queue[q][i].id \in 1 .. Len(call) /\ Queue[q][i].id # id
      BY <2>1, QueueIds DEF Alone
    <3> QED BY <1>2, <3>1
  <2> QED BY <1>5, <2>1, QueueKeeps DEF Results, QMild
<1>12. FrameRes(g)'
  <2>1. FrameRes(stack[t][n]) /\ g.kind = stack[t][n].kind /\ g.id = stack[t][n].id
    BY <1>1, <1>5 DEF Results, Same
  <2>2. g.id # id
    <3>1. Above(t, stack[t][Len(stack[t])], stack[t][Len(stack[t]) - 1])
      BY <1>1, <1>3, Inner DEF Struct, Shape, CallKinds
    <3>2. Above(t, Top(t), stack[t][n])
      BY <1>1, <1>3, <3>1
    <3>3. stack[t][n].id < Top(t).id
      BY <1>1, <3>2 DEF Above, CallKinds, JobKinds, StackJobs
    <3>4. Top(t).id \in Nat /\ stack[t][n].id \in Nat
      BY <1>1, <1>3, FrameIds DEF FrameSet
    <3> QED BY <1>1, <2>1, <3>3, <3>4
  <2>3. ASSUME g.kind \in {"join", "join_b", "install_op"} PROVE call'[g.id] = call[g.id]
    <3>1. stack[t][n].kind \notin Rootless
      BY <2>1, <2>3 DEF Rootless
    <3>2. g.id \in 1 .. Len(call)
      BY <1>1, <2>1, <3>1, FrameIds
    <3> QED BY <1>2, <2>2, <3>2
  <2>4. CASE g.kind = "join"
    BY <1>1, <2>1, <2>3, <2>4 DEF FrameRes, UserPcs
  <2>5. CASE g.kind \in {"join_b", "install_op"}
    BY <1>1, <2>1, <2>3, <2>5 DEF FrameRes
  <2>6. CASE g.kind \notin {"join", "join_b", "install_op"}
    BY <2>6, FrameFree
  <2> QED BY <2>4, <2>5, <2>6
<1>13. ASSUME NEW u \in Threads, NEW i \in DOMAIN stack[u], NEW f, f = stack[u][i], u # t \/ i < n, f.id = id
       PROVE  FrameRes(f)'
  <2>1. ~(u = t /\ i = Len(stack[t]))
    BY <1>1, <1>3, <1>13
  <2>2. ~Token(f)
    BY <1>13, <2>1 DEF Alone
  <2>3. f.kind # "join"
    <3>1. SUFFICES ASSUME f.kind = "join" PROVE FALSE
      OBVIOUS
    <3>2. call[id].owner = u /\ call[id].owner = t
      BY <1>1, <1>3, <1>13, <3>1 DEF Struct, Called, CallKinds
    <3>3. f.kind \in CallKinds
      BY <3>1 DEF CallKinds
    <3>4. i = Len(stack[t])
      BY <1>1, <1>3, <1>13, <3>2, <3>3 DEF Struct, Called
    <3> QED BY <2>1, <3>2, <3>4
  <2> QED BY <2>2, <2>3 DEF FrameRes, Token
<1>14. \A x \in 1 .. Len(call') : x # id => x \in 1 .. Len(call) /\ Records(x)
  BY <1>1, <1>2 DEF Records, Plain
<1>15. Results'
  BY <1>1, <1>3, <1>5, <1>10, <1>11, <1>12, <1>13, <1>14, ResultsStep
<1> QED BY <1>6, <1>7, <1>9, <1>15 DEF Rest

LEMMA GoneReported ==
  ASSUME Struct, Results, NEW t \in Threads, NEW n, NEW g, NEW id, NEW e, Gone(t, n, g, id, e),
         e = 0 => call[id].seen = {}, call[id].kind = "join" /\ call[id].panic # 0 => e = call[id].panic
  PROVE  Reported(call[id])' /\ 0 \notin call'[id].seen
<1>1. /\ id \in 1 .. Len(call) /\ call'[id].out = e /\ call'[id].kind = call[id].kind /\ call'[id].panic = call[id].panic
      /\ call'[id].seen = call[id].seen \cup ({e} \ {0})
  BY DEF Gone
<1>2. 0 \notin call[id].seen
  BY <1>1 DEF Results, CallRes
<1>3. IF call'[id].seen = {} THEN call'[id].out = 0 ELSE call'[id].out \in call'[id].seen
  <2>1. CASE e = 0
    BY <1>1, <2>1
  <2>2. CASE e # 0
    BY <1>1, <2>2
  <2> QED BY <2>1, <2>2
<1> QED BY <1>1, <1>2, <1>3 DEF Reported

LEMMA InlineEndsRest ==
  ASSUME Struct, Finite, Counted, Rest, NEW t \in Threads, NEW e, Ended(t, e), InlineEnds(t, e)
  PROVE  Rest'
<1>0. /\ panics \in Nat /\ panics' \in Nat /\ panics =< panics' /\ e \in Nat /\ e =< panics'
      /\ UNCHANGED clones /\ QSame /\ Ending(t, e) /\ Results
  BY EndedPanics DEF Rest
<1>1. Top(t).kind = "join" /\ Top(t).pc = "inline" /\ stack[t] # <<>> /\ Return(t, e)
  BY <1>0, InlineEndsStruct
<1>2. Top(t).kind \in CallKinds /\ Top(t).pend = NoJob
  BY <1>0, <1>1 DEF CallKinds, Ending, InUser
<1>3. PICK n, g, id : Gone(t, n, g, id, e)
  BY <1>0, <1>1, <1>2, GoneForm
<1>4. id = Top(t).id /\ id \in 1 .. Len(call) /\ call[id].kind = "join" /\ call[id].out = None
  BY <1>1, <1>3 DEF Gone
<1>5. Alone(t, id)
  BY <1>1, <1>4, AloneInline
<1>6. call[id].panic = 0 /\ call[id].result[0] = None
  <2>1. FrameRes(Top(t))
    BY <1>0, <1>1, TopFacts DEF Results
  <2> QED BY <1>1, <1>4, <2>1 DEF FrameRes
<1>7. call[id].seen = {}
  <2>1. CallRes(id)
    BY <1>0, <1>4 DEF Results
  <2>2. Resulted(call[id])
    BY <1>4, <2>1 DEF CallRes
  <2>3. call[id].result \in [{0} -> Values]
    BY <1>4, <2>2 DEF Resulted
  <2> QED BY <1>4, <1>6, <2>2, <2>3 DEF Resulted
<1>8. Reported(call[id])' /\ 0 \notin call'[id].seen
  BY <1>0, <1>3, <1>6, <1>7, GoneReported
<1> QED BY <1>0, <1>3, <1>5, <1>8, GoneRest

LEMMA ReturnsValue ==
  ASSUME Struct, Finite, Counted, Results, NEW t \in Threads, NEW e, Returns(t, e), NEW id, id = Top(t).id
  PROVE  /\ e \in Nat /\ e =< panics
         /\ e = 0 => call[id].seen = {}
         /\ call[id].kind = "join" /\ call[id].panic # 0 => e = call[id].panic
<1>1. /\ stack[t] # <<>> /\ Top(t).kind \in CallKinds /\ call[id].set
      /\ Top(t).pc \in WaitPcs \cup {"loop"}
      /\ Top(t).pc = "recover" => e = Top(t).err
      /\ Top(t).kind = "scope" => e = call[id].panic
      /\ Top(t).pc # "recover" /\ Top(t).kind # "scope" => e = Result(id)
  BY DEF Returns
<1>2. /\ id \in 1 .. Len(call) /\ Top(t) \in FrameSet /\ FrameOK(Top(t))
      /\ Len(stack[t]) \in DOMAIN stack[t] /\ Top(t) = stack[t][Len(stack[t])]
  BY <1>1, TopFacts
<1>3. call[id].kind = Top(t).kind /\ call[id].out = None
  BY <1>1, <1>2 DEF Struct, Called
<1>4. CallRes(id) /\ FrameRes(Top(t)) /\ Witnessed(id)
  BY <1>2 DEF Results
<1>5. Resulted(call[id]) /\ call[id].panic =< panics /\ call[id].panic \in Nat
  BY <1>2, <1>3, <1>4, CallFacts DEF CallRes, Struct
<1>6. CASE Top(t).pc = "recover"
  <2>1. Top(t).kind = "join" /\ Top(t).err # 0 /\ Top(t).err =< panics /\ Top(t).err \in Nat
    BY <1>2, <1>6 DEF FrameOK, KindPc, FrameSet, StackJobs
  <2>2. call[id].panic = Top(t).err
    BY <1>4, <1>6, <2>1 DEF FrameRes
  <2> QED BY <1>1, <1>6, <2>1, <2>2
<1>7. CASE Top(t).kind = "scope"
  <2>1. ASSUME e = 0 PROVE call[id].seen = {}
    <3>1. SUFFICES ASSUME call[id].seen # {} PROVE FALSE
      OBVIOUS
    <3>2. \E u \in Threads : \E i \in DOMAIN stack[u] : stack[u][i].id = id /\ stack[u][i].pc = "panicked"
      BY <1>1, <1>3, <1>4, <1>7, <2>1, <3>1 DEF Witnessed
    <3>3. PICK u \in Threads : \E i \in DOMAIN stack[u] : stack[u][i].id = id /\ stack[u][i].pc = "panicked"
      BY <3>2
    <3>4. PICK i \in DOMAIN stack[u] : stack[u][i].id = id /\ stack[u][i].pc = "panicked"
      BY <3>3
    <3>5. FrameOK(stack[u][i])
      BY FrameIds
    <3>6. Token(stack[u][i])
      BY <3>4, <3>5 DEF FrameOK, KindPc, Token, StackJobs, UserPcs, WaitPcs
    <3> QED BY <1>1, <1>2, <3>4, <3>6, AloneSet
  <2> QED BY <1>1, <1>3, <1>5, <1>7, <2>1
<1>8. CASE Top(t).pc # "recover" /\ Top(t).kind # "scope"
  <2>1. PICK res : res = call[id].result
    OBVIOUS
  <2>2. PICK bad : bad = {w \in DOMAIN res : res[w] # 0}
    OBVIOUS
  <2>3. e = IF bad = {} THEN 0 ELSE res[Min(bad)]
    BY <1>1, <1>8, <2>1, <2>2 DEF Result
  <2>4. call[id].panic = 0
    <3>1. CASE Top(t).kind = "join"
      BY <1>2, <1>4, <1>8, <3>1 DEF FrameRes
    <3>2. CASE Top(t).kind # "join"
      BY <1>1, <1>3, <1>5, <1>8, <3>2 DEF Resulted, CallKinds
    <3> QED BY <3>1, <3>2
  <2>5. /\ res \in [Workers -> Values] \/ res \in [{0} -> Values]
        /\ \A w \in DOMAIN res : res[w] # None
        /\ \A w \in DOMAIN res : res[w] = None \/ res[w] =< panics
    BY <1>1, <1>3, <1>5, <1>8, <2>1 DEF Resulted
  <2>6. DOMAIN res \subseteq Nat /\ \A w \in DOMAIN res : res[w] \in Nat /\ res[w] =< panics
    <3>1. (DOMAIN res = Workers \/ DOMAIN res = {0}) /\ \A w \in DOMAIN res : res[w] \in Values
      BY <2>5
    <3>2. Workers \subseteq Nat
      BY DEF Workers
    <3>3. DOMAIN res \subseteq Nat
      <4>1. \A w \in DOMAIN res : w \in Workers \/ w = 0
        BY <3>1
      <4>2. 0 \in Nat
        OBVIOUS
      <4>3. \A w \in DOMAIN res : w \in Nat
        BY ONLY <3>2, <4>1, <4>2, Zenon
      <4> QED BY ONLY <4>3, Zenon
    <3>4. \A w \in DOMAIN res : res[w] \in Nat
      BY <2>5, <3>1 DEF Values
    <3> QED BY <2>5, <3>3, <3>4
  <2>7. CASE bad = {}
    <3>1. e = 0 /\ \A w \in DOMAIN res : res[w] = 0
      BY <2>2, <2>3, <2>7
    <3>2. call[id].seen = {}
      BY <1>3, <1>5, <1>8, <2>1, <2>4, <3>1 DEF Resulted
    <3>3. panics \in Nat
      BY DEF Struct, Shape
    <3> QED BY <2>4, <3>1, <3>2, <3>3
  <2>8. CASE bad # {}
    <3>1. Min(bad) \in bad
      BY <2>2, <2>6, <2>8, MinFacts
    <3>2. e = res[Min(bad)] /\ e # 0 /\ Min(bad) \in DOMAIN res
      BY <2>2, <2>3, <2>8, <3>1
    <3> QED BY <2>4, <2>6, <3>2
  <2> QED BY <2>7, <2>8
<1> QED BY <1>6, <1>7, <1>8

LEMMA ReturnsRest ==
  ASSUME Struct, Finite, Counted, Rest, NEW t \in Threads, NEW e, Returns(t, e)
  PROVE  Rest'
<1>1. /\ stack[t] # <<>> /\ Top(t).kind \in CallKinds /\ Top(t).pend = NoJob /\ Return(t, e) /\ call[Top(t).id].set
      /\ UNCHANGED <<queues, clones, panics>> /\ Results
  BY DEF Returns, foreign, Rest
<1>2. PICK i : i = Top(t).id
  OBVIOUS
<1>3. /\ e \in Nat /\ e =< panics
      /\ e = 0 => call[i].seen = {}
      /\ call[i].kind = "join" /\ call[i].panic # 0 => e = call[i].panic
  <2> HIDE DEF Returns
  <2> QED BY ONLY Struct, Finite, Counted, <1>1, <1>2, Returns(t, e), t \in Threads, ReturnsValue
<1>4. PICK n, g, id : Gone(t, n, g, id, e)
  BY <1>1, <1>3, GoneForm
<1>5. id = i /\ id \in 1 .. Len(call) /\ call[id].set
  BY <1>1, <1>2, <1>4 DEF Gone
<1>6. Alone(t, id)
  BY <1>5, AloneSet
<1>7. Reported(call[id])' /\ 0 \notin call'[id].seen
  BY <1>1, <1>3, <1>4, <1>5, GoneReported
<1>8. QSame /\ panics \in Nat /\ panics' \in Nat /\ panics =< panics' /\ UNCHANGED clones
  BY <1>1, QueueSame DEF Struct, Shape
<1> QED BY <1>4, <1>6, <1>7, <1>8, GoneRest

-----------------------------------------------------------------------------
(* The whole invariant but for the pool's last reference.                    *)
Core == Struct /\ Finite /\ Counted /\ Rest

LEMMA InitCore ==
  ASSUME Init
  PROVE  Core
<1>1. Struct /\ Finite /\ Counted /\ Cored
  BY InitStruct, InitCounted
<1>2. call = <<>> /\ Len(call) = 0
  BY DEF Init
<1>3. ASSUME NEW t \in Threads, NEW i \in DOMAIN stack[t]
      PROVE  stack[t][i].kind = "client" /\ stack[t][i].pc = "run"
  <2>1. stack[t] = <<>> \/ stack[t] = <<Frame("client", 0, {}, "run")>>
    BY DEF Init
  <2>2. stack[t][i] = Frame("client", 0, {}, "run")
    BY <2>1
  <2> QED BY <2>2 DEF Frame
<1>4. \A q \in Names : DOMAIN Queue[q] = {}
  <2>1. ASSUME NEW q \in Names PROVE Queue[q] = <<>>
    <3>1. \/ \E w \in Workers : q = <<"deque", w>>
          \/ \E w \in Workers : q = <<"bcast", w>>
          \/ q = <<"injected", 0>>
      BY QueueAt
    <3> QED BY <3>1, QueueAt DEF Init
  <2> QED BY <2>1
<1>5. Results
  <2>1. \A id \in 1 .. Len(call) : CallRes(id) /\ Witnessed(id)
    BY <1>2
  <2>2. \A t \in Threads : \A i \in DOMAIN stack[t] : FrameRes(stack[t][i])
    BY <1>3 DEF FrameRes
  <2>3. QueueRes
    BY <1>4 DEF QueueRes
  <2> QED BY <2>1, <2>2, <2>3 DEF Results
<1>6. Shared
  BY <1>2 DEF Shared
<1>7. Cloned
  BY <1>2, <1>3 DEF Cloned
<1> QED BY <1>1, <1>5, <1>6, <1>7 DEF Core, Rest

\* What user code calls.
LEMMA MakesCore ==
  ASSUME Core, Struct', NEW t \in Threads, NEW kind, \E f, q, j : Makes(t, kind, f, q, j)
  PROVE  Core'
<1>1. Struct /\ Finite /\ Counted /\ Rest
  BY DEF Core
<1>2. PICK f, q, j : Makes(t, kind, f, q, j)
  OBVIOUS
<1>3. Finite' /\ Counted'
  BY <1>1, <1>2, MakesCounted
<1>4. Rest'
  BY <1>1, <1>2, MakesRest
<1> QED BY <1>3, <1>4 DEF Core

LEMMA UserCallsCore ==
  ASSUME Core, NEW t \in Threads, Runs(t), UserCalls(t), t \in Clients => pool = "open"
  PROVE  Core'
<1>1. Struct /\ Finite /\ Counted /\ Rest
  BY DEF Core
<1>2. CASE Join(t)
  BY <1>1, <1>2, JoinStruct, JoinMakes, MakesCore
<1>3. CASE Scope(t)
  BY <1>1, <1>3, ScopeStruct, ScopeMakes, MakesCore
<1>4. CASE Install(t)
  BY <1>1, <1>4, InstallStruct, InstallMakes, MakesCore
<1>5. CASE Broadcast(t)
  BY <1>1, <1>5, BroadcastStruct, BroadcastMakes, MakesCore
<1>6. CASE ScopeSpawn(t)
  BY <1>1, <1>6, ScopeSpawnStruct, ScopeSpawnCounted, ScopeSpawnRest DEF Core
<1>7. CASE Spawn(t)
  BY <1>1, <1>7, SpawnStruct, SpawnCounted, SpawnRest DEF Core
<1>8. CASE SpawnBroadcast(t)
  BY <1>1, <1>8, SpawnBroadcastStruct, SpawnBroadcastCounted, SpawnBroadcastRest DEF Core
<1> QED BY <1>2, <1>3, <1>4, <1>5, <1>6, <1>7, <1>8 DEF UserCalls

LEMMA UserEndsCore ==
  ASSUME Core, NEW t \in Threads, NEW e, Ended(t, e), UserEnds(t, e)
  PROVE  Core'
<1>1. Struct /\ Finite /\ Counted /\ Rest
  BY DEF Core
<1>2. Ending(t, e)
  BY DEF Ended
<1>3. CASE StackJobEnds(t, e)
  BY <1>1, <1>2, <1>3, StackJobEndsStruct, StackJobEndsCounted, StackJobEndsRest DEF Core
<1>4. CASE ScopeClosureEnds(t, e)
  BY <1>1, <1>2, <1>4, ScopeClosureEndsStruct, ScopeClosureEndsCounted, ScopeClosureEndsRest DEF Core
<1>5. CASE SpawnedEnds(t, e)
  BY <1>1, <1>2, <1>5, SpawnedEndsStruct, SpawnedEndsCounted, SpawnedEndsRest DEF Core
<1>6. CASE OperAEnds(t, e)
  BY <1>1, <1>2, <1>6, OperAEndsStruct, OperAEndsCounted, OperAEndsRest DEF Core
<1>7. CASE InlineEnds(t, e)
  <2>1. Struct' /\ Top(t).kind = "join" /\ Top(t).pc = "inline" /\ stack[t] # <<>> /\ e \in Nat /\ Return(t, e)
    BY <1>1, <1>2, <1>7, InlineEndsStruct
  <2>2. Limits /\ QSame /\ UNCHANGED <<terminate_count, pool>>
    BY <1>1, EndedLimits
  <2>3. UNCHANGED queues /\ Top(t).pend = NoJob
    BY <1>2 DEF Ending, InUser
  <2>4. Top(t).kind \in CallKinds
    BY <2>1 DEF CallKinds
  <2>5. PICK n, g, id : Gone(t, n, g, id, e)
    BY <1>1, <2>1, <2>3, <2>4, GoneForm
  <2>6. Finite' /\ Counted'
    BY <1>1, <2>1, <2>2, <2>3, <2>5, GoneCounted
  <2>7. Rest'
    BY <1>1, <1>7, InlineEndsRest
  <2> QED BY <2>1, <2>6, <2>7 DEF Core
<1> QED BY <1>3, <1>4, <1>5, <1>6, <1>7 DEF UserEnds

LEMMA FinishForm ==
  ASSUME Core, NEW t \in Threads, InUser(t), Finish(t)
  PROVE  \E e : Ended(t, e) /\ UserEnds(t, e)
<1>1. Struct /\ Shape
  BY DEF Core, Struct
<1>2. UserEnds(t, Top(t).err) /\ UNCHANGED <<queues, lifecycle, foreign, spawns, panics>>
  BY DEF Finish
<1>3. PICK e : e = Top(t).err
  OBVIOUS
<1>4. e \in Nat /\ e =< panics
  BY <1>1, <1>3, RunsFacts DEF FrameOK, FrameSet
<1>5. Calm
  BY <1>1, <1>2 DEF Calm, Shape, lifecycle, foreign
<1>6. UNCHANGED queues /\ UNCHANGED <<lifecycle, foreign, spawns>> /\ UNCHANGED panics
  BY <1>2
<1>7. e =< panics'
  BY <1>4, <1>6
<1>8. Ending(t, e)
  BY <1>4, <1>5, <1>6, <1>7 DEF Ending
<1>9. Ended(t, e)
  BY <1>3, <1>6, <1>8 DEF Ended
<1>10. UserEnds(t, e)
  BY <1>2, <1>3
<1> QED BY <1>9, <1>10

LEMMA PanicForm ==
  ASSUME Core, NEW t \in Threads, InUser(t), Panic(t)
  PROVE  \E e : Ended(t, e) /\ UserEnds(t, e)
<1>1. Struct /\ Shape /\ panics \in Nat
  BY DEF Core, Struct, Shape
<1>2. /\ Top(t).err = 0 /\ panics < MaxPanics /\ panics' = panics + 1 /\ UserEnds(t, panics')
      /\ UNCHANGED <<queues, lifecycle, foreign, spawns>>
  BY DEF Panic
<1>3. PICK e : e = panics + 1
  OBVIOUS
<1>4. e \in Nat /\ e =< panics' /\ panics' \in Nat /\ panics =< panics' /\ e = panics'
  BY <1>1, <1>2, <1>3
<1>5. Calm
  BY <1>1, <1>2, <1>4 DEF Calm, Shape, lifecycle, foreign
<1>6. UNCHANGED queues /\ UNCHANGED <<lifecycle, foreign, spawns>>
  BY <1>2
<1>8. Ending(t, e)
  BY <1>4, <1>5, <1>6 DEF Ending
<1>9. Ended(t, e)
  BY <1>2, <1>3, <1>6, <1>8 DEF Ended
<1>10. UserEnds(t, e)
  BY <1>2, <1>4
<1> QED BY <1>9, <1>10

\* A client that is in a call has the pool open.
LEMMA UserOpen ==
  ASSUME Core, NEW t \in Threads, Runs(t), Top(t).kind # "client"
  PROVE  t \in Clients => pool = "open"
<1>1. Struct /\ Shape /\ Stacked /\ Opened /\ stack[t] # <<>> /\ Top(t).pc \in UserPcs
  BY DEF Core, Struct, Runs, InUser
<1>2. FrameOK(Top(t))
  BY <1>1, TopFacts
<1>3. Top(t).kind # "terminator"
  BY <1>1, <1>2 DEF FrameOK, KindPc, UserPcs, StackJobs
<1> QED BY <1>1, <1>3, ClientOpen

LEMMA UserCore ==
  ASSUME Core, NEW t \in Threads, User(t)
  PROVE  Core'
<1>1. Struct /\ Finite /\ Counted /\ Rest
  BY DEF Core
<1>2. CASE Runs(t) /\ Top(t).kind # "client" /\ UserCalls(t)
  BY <1>2, UserOpen, UserCallsCore
<1>3. CASE InUser(t) /\ (Finish(t) \/ Panic(t))
  BY <1>3, FinishForm, PanicForm, UserEndsCore
<1>4. CASE Push(t)
  BY <1>1, <1>4, PushStruct, PushCounted, PushRest DEF Core
<1>5. CASE PushBroadcast(t)
  <2>1. Struct'
    BY <1>1, <1>5, PushBroadcastStruct
  <2>2. PICK h, w, p : Broadcasts(t, h, w, p)
    BY <1>1, <1>5, BroadcastsForm
  <2>3. Finite' /\ Counted'
    BY <1>1, <2>2, PushBroadcastCounted
  <2>4. Rest'
    BY <1>1, <2>2, BroadcastsRest
  <2> QED BY <2>1, <2>3, <2>4 DEF Core
<1> QED BY <1>2, <1>3, <1>4, <1>5 DEF User

LEMMA ClientCallsCore ==
  ASSUME Core, NEW t \in Clients, ClientCalls(t)
  PROVE  Core'
<1>1. Runs(t) /\ UserCalls(t) /\ pool = "open"
  BY DEF ClientCalls, OpenTo
<1>2. t \in Threads
  BY DEF Threads
<1> QED BY <1>1, <1>2, UserCallsCore

LEMMA LatchesCore ==
  ASSUME Core, Struct', NEW t \in Threads, NEW id, Latches(t, id)
  PROVE  Core'
<1>1. Struct /\ Finite /\ Counted /\ Rest /\ Cored
  BY DEF Core, Rest
<1>2. Finite' /\ Counted'
  BY <1>1, LatchesCounted
<1>3. Rest'
  BY <1>1, LatchesRest
<1> QED BY <1>2, <1>3 DEF Core

LEMMA SetLatchCore ==
  ASSUME Core, NEW t \in Threads, SetLatch(t)
  PROVE  Core'
<1>1. Struct /\ Finite /\ Counted /\ Rest
  BY DEF Core
<1>2. CASE StackJobSet(t)
  <2>1. Struct'
    BY <1>1, <1>2, StackJobSetStruct
  <2>2. PICK id, h : Latches(t, id) \/ Cores(t, id, h)
    BY <1>1, <1>2, StackJobSetForm
  <2>3. CASE Latches(t, id)
    BY <2>1, <2>3, LatchesCore
  <2>4. CASE Cores(t, id, h)
    <3>1. Finite' /\ Counted'
      BY <1>1, <2>4, CoresCounted
    <3>2. Rest'
      BY <1>1, <2>4, CoresRest
    <3> QED BY <2>1, <3>1, <3>2 DEF Core
  <2> QED BY <2>2, <2>3, <2>4
<1>3. CASE CountSet(t)
  <2>1. Struct'
    BY <1>1, <1>3, CountSetStruct
  <2>2. PICK id : CountsDown(t, id)
    BY <1>1, <1>3, CountSetForm
  <2>3. Finite' /\ Counted'
    BY <1>1, <2>2, CountsDownCounted
  <2>4. Rest'
    BY <1>1, <2>2, CountsDownRest
  <2> QED BY <2>1, <2>3, <2>4 DEF Core
<1> QED BY <1>2, <1>3 DEF SetLatch

LEMMA CallReturnsCore ==
  ASSUME Core, NEW t \in Threads, CallReturns(t)
  PROVE  Core'
<1>1. Struct /\ Finite /\ Counted /\ Rest /\ Results
  BY DEF Core, Rest
<1>2. PICK e : Returns(t, e)
  BY <1>1, CallReturnsForm
<1>3. PICK i : i = Top(t).id
  OBVIOUS
<1>4. e \in Nat /\ e =< panics
  BY <1>1, <1>2, <1>3, ReturnsValue
<1>5. Struct'
  BY <1>1, <1>2, <1>4, ReturnsStruct
<1>6. Rest'
  BY <1>1, <1>2, ReturnsRest
<1>7. /\ stack[t] # <<>> /\ Top(t).kind \in CallKinds /\ Top(t).pc \in WaitPcs \cup {"loop"} /\ Top(t).pend = NoJob
      /\ call[Top(t).id].set /\ Return(t, e) /\ UNCHANGED queues
      /\ UNCHANGED <<terminate_count, pool>> /\ UNCHANGED <<spawns, panics>>
  BY <1>2 DEF Returns, lifecycle
<1>8. PICK n, g, id : Gone(t, n, g, id, e)
  BY <1>1, <1>4, <1>7, GoneForm
<1>9. call[id].set
  BY <1>7, <1>8 DEF Gone
<1>10. Limits
  BY <1>1, <1>7, LimitsSame
<1>11. Finite' /\ Counted'
  BY <1>1, <1>7, <1>8, <1>9, <1>10, GoneCounted
<1> QED BY <1>5, <1>6, <1>11 DEF Core

LEMMA StepCore ==
  ASSUME Core, NEW t \in Threads, Step(t)
  PROVE  Core'
<1>1. Struct /\ Finite /\ Counted /\ Rest
  BY DEF Core
<1>2. CASE User(t)
  BY <1>2, UserCore
<1>3. CASE JobPanicked(t)
  BY <1>1, <1>3, JobPanickedStruct, JobPanickedCounted, JobPanickedRest DEF Core
<1>4. CASE SetLatch(t)
  BY <1>4, SetLatchCore
<1>5. CASE CoreSet(t)
  <2>1. Struct'
    BY <1>1, <1>5, CoreSetStruct
  <2>2. PICK id : Latches(t, id)
    BY <1>1, <1>5, CoreSetForm
  <2> QED BY <2>1, <2>2, LatchesCore
<1>6. CASE Notify(t)
  BY <1>1, <1>6, NotifyStruct, NotifyCounted, NotifyRest DEF Core
<1>7. CASE Terminate(t)
  <2>1. Struct' /\ Lets(t)
    BY <1>1, <1>7, TerminateStruct, TerminateForm
  <2> QED BY <1>1, <2>1, LetsCounted, LetsRest DEF Core
<1>8. CASE StopWorker(t)
  BY <1>1, <1>8, StopWorkerStruct, StopWorkerCounted, StopWorkerRest DEF Core
<1>9. CASE CallReturns(t)
  BY <1>9, CallReturnsCore
<1> QED BY <1>2, <1>3, <1>4, <1>5, <1>6, <1>7, <1>8, <1>9 DEF Step

LEMMA ExecutesCore ==
  ASSUME Core, NEW t \in Workers, NEW q, NEW j, NEW d, Executes(t, q, j, d)
  PROVE  Core'
<1>1. Struct /\ Finite /\ Counted /\ Rest
  BY DEF Core
<1>2. Struct'
  BY <1>1, ExecutesStruct
<1>3. Finite' /\ Counted'
  BY <1>1, ExecutesCounted
<1>4. Rest'
  BY <1>1, ExecutesRest
<1> QED BY <1>2, <1>3, <1>4 DEF Core

LEMMA WorkerStepCore ==
  ASSUME Core, NEW w \in Workers, WorkerStep(w)
  PROVE  Core'
<1>0. Struct /\ Finite /\ Counted /\ Rest /\ w \in Threads
  BY DEF Core, Threads
<1>1. CASE Step(w)
  BY <1>0, <1>1, StepCore
<1>2. CASE FindWork(w)
  <2>1. PICK q, j, d : Executes(w, q, j, d)
    BY <1>0, <1>2, FindWorkForm
  <2> QED BY <2>1, ExecutesCore
<1>3. CASE JoinPop(w)
  <2>0. \/ \E h : WaitsB(w, h)
        \/ \E h, q, j, d : Inlines(w, h, q, j, d)
        \/ \E q, j, d : Executes(w, q, j, d)
    BY <1>0, <1>3, JoinPopForm
  <2>1. CASE \E h : WaitsB(w, h)
    <3>1. PICK h : WaitsB(w, h)
      BY <2>1
    <3>2. Struct'
      BY <1>0, <3>1, WaitsBStruct
    <3>3. Finite' /\ Counted'
      BY <1>0, <3>1, WaitsBCounted
    <3>4. Rest'
      BY <1>0, <3>1, WaitsBRest
    <3> QED BY <3>2, <3>3, <3>4 DEF Core
  <2>2. CASE \E h, q, j, d : Inlines(w, h, q, j, d)
    <3>1. PICK h, q, j, d : Inlines(w, h, q, j, d)
      BY <2>2
    <3>2. Struct'
      BY <1>0, <3>1, InlinesStruct
    <3>3. Finite' /\ Counted'
      BY <1>0, <3>1, InlinesCounted
    <3>4. Rest'
      BY <1>0, <3>1, InlinesRest
    <3> QED BY <3>2, <3>3, <3>4 DEF Core
  <2>3. CASE \E q, j, d : Executes(w, q, j, d)
    BY <2>3, ExecutesCore
  <2> QED BY <2>0, <2>1, <2>2, <2>3
<1>4. CASE Exit(w)
  BY <1>0, <1>4, ExitStruct, ExitCounted, ExitRest DEF Core
<1> QED BY <1>1, <1>2, <1>3, <1>4 DEF WorkerStep

LEMMA EndsCore ==
  ASSUME Core, NEW f, Ends(f)
  PROVE  Core'
<1>1. Struct /\ Finite /\ Counted /\ Rest
  BY DEF Core
<1>2. Struct'
  BY <1>1, EndsStruct
<1>3. Finite' /\ Counted'
  BY <1>1, EndsCounted
<1>4. Rest'
  BY <1>1, EndsRest
<1> QED BY <1>2, <1>3, <1>4 DEF Core

LEMMA NextCore ==
  ASSUME Core, [Next]_vars
  PROVE  Core'
<1>1. Struct /\ Finite /\ Counted /\ Rest
  BY DEF Core
<1>2. CASE SpawnThread
  BY <1>1, <1>2, SpawnThreadStruct, SpawnThreadCounted, SpawnThreadRest DEF Core
<1>3. CASE SpawnThreadFails
  BY <1>1, <1>3, SpawnThreadFailsForm, EndsCore
<1>4. CASE DropPool
  BY <1>1, <1>4, DropPoolForm, EndsCore
<1>5. CASE ThreadSteps
  <2>1. ASSUME NEW w \in Workers, WorkerStep(w) PROVE Core'
    BY <2>1, WorkerStepCore
  <2>2. ASSUME NEW c \in Clients, Step(c) PROVE Core'
    <3>1. c \in Threads
      BY DEF Threads
    <3> QED BY <2>2, <3>1, StepCore
  <2> QED BY <1>5, <2>1, <2>2 DEF ThreadSteps
<1>6. ASSUME NEW c \in Clients, ClientCalls(c) PROVE Core'
  BY <1>6, ClientCallsCore
<1>7. ASSUME NEW c \in Clients, Leave(c) PROVE Core'
  <2>1. Struct'
    BY <1>1, <1>7, LeaveStruct
  <2>2. UNCHANGED <<stack, queues, call, terminate_count, pool, spawns, panics>>
        /\ UNCHANGED <<stack, queues, call, panics, clones>>
    BY <1>7 DEF Leave, lifecycle
  <2> QED BY <1>1, <2>1, <2>2, StillCounted, StillRest DEF Core
<1>8. CASE UNCHANGED vars
  <2>1. Struct'
    BY <1>1, <1>8, StutterStruct
  <2>2. UNCHANGED <<stack, queues, call, terminate_count, pool, spawns, panics>>
        /\ UNCHANGED <<stack, queues, call, panics, clones>>
    BY <1>8 DEF vars, queues
  <2> QED BY <1>1, <2>1, <2>2, StillCounted, StillRest DEF Core
<1>9. CASE Finished
  BY <1>8, <1>9 DEF Finished
<1> QED BY <1>2, <1>3, <1>4, <1>5, <1>6, <1>7, <1>8, <1>9 DEF Next

-----------------------------------------------------------------------------
(* What follows from it.                                                     *)
LEMMA CountBounds ==
  ASSUME Core, NEW id \in 1 .. Len(call)
  PROVE  call[id].count \in 0 .. NumThreads + MaxSpawns
<1>1. Struct /\ Shape /\ Finite /\ Counted
  BY DEF Core, Struct
<1>2. /\ NumThreads \in Nat \ {0} /\ MaxSpawns \in Nat /\ spawns \in Nat /\ spawns =< MaxSpawns
      /\ call[id].count \in Int
  BY <1>1, CallFacts, ForkJoinAssumption DEF Shape, Counted
<1>3. Held(<<"held", id>>) \in Nat /\ Held(<<"owed", id>>) \in Nat
  BY <1>1, HeldNat
<1>4. Entry(id)
  BY <1>1 DEF Counted
<1>5. call[id].count >= 0
  BY <1>2, <1>3, <1>4 DEF Entry, Due
<1>6. call[id].count =< NumThreads + MaxSpawns
  BY <1>2, <1>3, <1>4 DEF Entry
<1> QED BY <1>2, <1>5, <1>6

LEMMA FrameTypes ==
  ASSUME Core, NEW t \in Threads, NEW i \in DOMAIN stack[t], NEW f, f = stack[t][i]
  PROVE  /\ f.kind \in JobKinds \cup CallKinds \cup {"client", "main", "terminator"}
         /\ f.id \in 0 .. MaxCalls /\ f.env \subseteq 0 .. MaxCalls /\ f.err \in 0 .. MaxPanics
         /\ f.pc \in UserPcs \cup WaitPcs \cup {"loop", "panicked", "set", "core", "notify", "terminate", "stop"}
         /\ f.todo \subseteq Workers
<1>1. Struct /\ Shape /\ Counted
  BY DEF Core, Struct
<1>2. f \in FrameSet
  BY <1>1 DEF Shape
<1>3. FrameOK(f)
  BY <1>1 DEF Struct, Framed
<1>4. /\ Len(call) \in Nat /\ Len(call) =< MaxCalls /\ MaxCalls \in Nat
      /\ panics \in Nat /\ panics =< MaxPanics /\ MaxPanics \in Nat
  BY <1>1, ForkJoinAssumption DEF Shape, Counted
<1>5. f.id \in Nat /\ f.id =< Len(call) /\ f.err \in Nat /\ f.err =< panics /\ f.env \subseteq 1 .. Len(call)
  BY <1>2, <1>3 DEF FrameOK, FrameSet
<1>6. f.id \in 0 .. MaxCalls /\ f.err \in 0 .. MaxPanics
  BY <1>4, <1>5
<1>7. f.env \subseteq 0 .. MaxCalls
  <2>1. \A o \in 1 .. Len(call) : o \in 0 .. MaxCalls
    BY <1>4
  <2> QED BY <1>5, <2>1
<1>8. f.kind \in AllKinds /\ f.pc \in AllPcs /\ f.todo \subseteq Workers
  BY <1>2 DEF FrameSet
<1> QED BY <1>6, <1>7, <1>8 DEF AllKinds, AllPcs

LEMMA PendingTypes ==
  ASSUME Core, NEW j \in Pending
  PROVE  j.kind \in JobKinds /\ j.id \in 0 .. MaxCalls /\ j.env \subseteq 0 .. MaxCalls
<1>1. Struct /\ Shape /\ Counted
  BY DEF Core, Struct
<1>2. j \in JobSet /\ JobOK(j)
  <2>1. CASE \E t \in Threads : \E i \in DOMAIN stack[t] : j = stack[t][i].pend
    <3>1. PICK t \in Threads : \E i \in DOMAIN stack[t] : j = stack[t][i].pend
      BY <2>1
    <3>2. PICK i \in DOMAIN stack[t] : j = stack[t][i].pend
      BY <3>1
    <3>3. stack[t][i] \in FrameSet
      BY <1>1 DEF Shape
    <3>4. j # NoJob
      BY PendingAt
    <3>5. JobOK(j)
      BY <1>1, <3>2, <3>4 DEF Struct, Jobs
    <3> QED BY <3>2, <3>3, <3>4, <3>5 DEF FrameSet
  <2>2. CASE \E q \in Names : \E i \in DOMAIN Queue[q] : j = Queue[q][i]
    <3>1. PICK q \in Names : \E i \in DOMAIN Queue[q] : j = Queue[q][i]
      BY <2>2
    <3>2. PICK i \in DOMAIN Queue[q] : j = Queue[q][i]
      BY <3>1
    <3>3. Queue[q] \in Seq(JobSet)
      BY <1>1, QueueType
    <3>4. JobOK(Queue[q][i])
      BY <1>1 DEF Struct, Jobs
    <3> QED BY <3>2, <3>3, <3>4
  <2> QED BY <2>1, <2>2, PendingAt
<1>3. Len(call) \in Nat /\ Len(call) =< MaxCalls /\ MaxCalls \in Nat
  BY <1>1, ForkJoinAssumption DEF Shape, Counted
<1>4. j.kind \in JobKinds
  BY <1>2 DEF JobSet
<1>5. j.id = 0 \/ j.id \in 1 .. Len(call)
  BY <1>2 DEF JobOK
<1>6. j.id \in 0 .. MaxCalls
  BY <1>3, <1>5
<1>7. j.env \subseteq 1 .. Len(call)
  BY <1>2 DEF JobOK
<1>8. \A o \in 1 .. Len(call) : o \in 0 .. MaxCalls
  BY <1>3
<1> QED BY <1>4, <1>6, <1>7, <1>8

LEMMA CoreTypes ==
  ASSUME Core
  PROVE  TypeOK
<1>1. Struct /\ Shape /\ Finite /\ Counted /\ Results
  BY DEF Core, Struct, Rest
<1>2. NumThreads \in Nat \ {0} /\ MaxSpawns \in Nat /\ MaxPanics \in Nat
  BY ForkJoinAssumption
<1>3. spawns \in 0 .. MaxSpawns /\ panics \in 0 .. MaxPanics
  BY <1>1, <1>2 DEF Shape, Counted
<1>4. terminate_count \in 0 .. NumThreads + MaxSpawns
  <2>1. Held(<<"held", 0>>) \in Nat /\ Held(<<"owed", 0>>) \in Nat
    BY <1>1, HeldNat
  <2>2. PoolEntry
    BY <1>1 DEF Counted
  <2>3. spawns \in Nat /\ spawns =< MaxSpawns
    BY <1>2, <1>3
  <2> QED BY <1>2, <2>1, <2>2, <2>3 DEF PoolEntry, Handle
<1>5. ASSUME NEW id \in 1 .. Len(call)
      PROVE  /\ call[id].owner \in Threads /\ call[id].kind \in CallKinds
             /\ call[id].set \in BOOLEAN /\ call[id].count \in 0 .. NumThreads + MaxSpawns
             /\ call[id].panic \in 0 .. MaxPanics
  <2>1. CallRes(id)
    BY <1>1 DEF Results
  <2>2. call[id].panic \in Nat /\ call[id].panic =< panics /\ panics \in Nat /\ panics =< MaxPanics
    BY <1>1, <2>1, CallFacts DEF CallRes, Shape, Counted
  <2>3. call[id].panic \in 0 .. MaxPanics
    BY <1>2, <2>2
  <2> QED BY <1>1, <2>3, CallFacts, CountBounds
<1>6. ASSUME NEW f \in Frames
      PROVE  /\ f.kind \in JobKinds \cup CallKinds \cup {"client", "main", "terminator"}
             /\ f.id \in 0 .. MaxCalls /\ f.env \subseteq 0 .. MaxCalls /\ f.err \in 0 .. MaxPanics
             /\ f.pc \in UserPcs \cup WaitPcs \cup {"loop", "panicked", "set", "core", "notify", "terminate", "stop"}
             /\ f.todo \subseteq Workers
  <2>1. PICK t \in Threads : \E i \in DOMAIN stack[t] : f = stack[t][i]
    BY FramesAt
  <2>2. PICK i \in DOMAIN stack[t] : f = stack[t][i]
    BY <2>1
  <2> QED BY <2>2, FrameTypes
<1>7. ASSUME NEW j \in Pending
      PROVE  j.kind \in JobKinds /\ j.id \in 0 .. MaxCalls /\ j.env \subseteq 0 .. MaxCalls
  BY PendingTypes
<1>8. DOMAIN stack = Threads /\ DOMAIN deque = Workers /\ DOMAIN broadcasts = Workers
  BY <1>1 DEF Shape
<1>9. /\ terminate \in [Workers -> BOOLEAN] /\ stopped \subseteq started /\ started \subseteq Workers
      /\ pool \in {"building", "open", "failed", "dropped"}
      /\ clones \in [Foreign -> SUBSET Threads] /\ left \subseteq Foreign
  BY <1>1 DEF Shape
<1> QED BY <1>3, <1>4, <1>5, <1>6, <1>7, <1>8, <1>9 DEF TypeOK

LEMMA ReportedFollows ==
  ASSUME Core
  PROVE  PanicsReported
<1>1. ASSUME NEW id \in 1 .. Len(call), call[id].out # None
      PROVE  Reported(call[id])
  <2>1. CallRes(id)
    BY DEF Core, Rest, Results
  <2> QED BY <1>1, <2>1 DEF CallRes
<1> QED BY <1>1 DEF PanicsReported, Reported

LEMMA AliveFollows ==
  ASSUME Core, CrossCalls \subseteq {"install"}
  PROVE  NotifiedRegistryAlive
<1>1. Struct /\ Shape /\ Cloned
  BY DEF Core, Rest, Struct
<1>2. ASSUME NEW t \in Threads, stack[t] # <<>>, Top(t).pc = "notify", call[Top(t).id].owner \in left
      PROVE  clones[call[Top(t).id].owner] # {}
  <2>1. Len(stack[t]) \in DOMAIN stack[t] /\ Top(t) = stack[t][Len(stack[t])]
    BY <1>1, <1>2, TopFacts
  <2>2. call[Top(t).id].owner \in Foreign
    BY <1>1, <1>2 DEF Shape
  <2>3. t \in clones[call[Top(t).id].owner]
    BY <1>1, <1>2, <2>1, <2>2 DEF Cloned
  <2> QED BY <2>3
<1> QED BY <1>2 DEF NotifiedRegistryAlive

-----------------------------------------------------------------------------
(* With the last reference gone there is nothing to do.                      *)
Shut == Core /\ terminate_count = 0

LEMMA ShutFacts ==
  ASSUME Shut
  PROVE  /\ Struct /\ Shape /\ Finite /\ Counted /\ Rest
         /\ Held(<<"held", 0>>) = 0 /\ pool \notin {"building", "open"}
<1>1. Struct /\ Shape /\ Finite /\ Counted /\ Rest /\ terminate_count = 0
  BY DEF Shut, Core, Struct
<1>2. Held(<<"held", 0>>) \in Nat
  BY <1>1, HeldNat
<1>3. terminate_count = Held(<<"held", 0>>) + Handle
  BY <1>1 DEF Counted, PoolEntry
<1>4. Held(<<"held", 0>>) = 0 /\ Handle = 0
  BY <1>1, <1>2, <1>3 DEF Handle
<1>5. pool \notin {"building", "open"}
  BY <1>4 DEF Handle
<1> QED BY <1>1, <1>4, <1>5

\* A client's own frame is at the bottom, with nothing to push and at most
\* the Terminator above it.
LEMMA ShutClient ==
  ASSUME Shut, NEW t \in Threads, NEW i \in DOMAIN stack[t], stack[t][i].kind = "client"
  PROVE  /\ i = 1 /\ stack[t][i].pend = NoJob /\ t \in Clients
         /\ 2 \in DOMAIN stack[t] => stack[t][2].kind = "terminator"
<1>1. Shape /\ Stacked /\ Opened /\ pool # "open"
  BY ShutFacts DEF Struct
<1>2. DOMAIN stack[t] = 1 .. Len(stack[t]) /\ Len(stack[t]) \in Nat /\ i \in Nat /\ i >= 1 /\ stack[t] # <<>>
  BY <1>1, StackFacts DEF Shape
<1>3. i = 1
  <2>1. ASSUME i > 1 PROVE FALSE
    <3>1. Above(t, stack[t][i], stack[t][i - 1])
      BY <1>1, <2>1 DEF Stacked
    <3> QED BY <3>1 DEF Above, CallKinds, JobKinds, StackJobs
  <2> QED BY <1>2, <2>1
<1>4. t \in Clients
  BY <1>1, <1>2, <1>3 DEF Stacked, Threads
<1>5. stack[t][1].pend = NoJob /\ (Len(stack[t]) = 1 \/ stack[t][2].kind = "terminator")
  BY <1>1, <1>4 DEF Opened
<1> QED BY <1>2, <1>3, <1>4, <1>5

LEMMA CallDown ==
  ASSUME Shut, NEW t \in Threads, NEW i \in DOMAIN stack[t], stack[t][i].kind \in CallKinds
  PROVE  \E v \in Threads : \E l \in DOMAIN stack[v] :
           stack[v][l].pc \in UserPcs /\ stack[v][l].kind # "client" /\ stack[v][l].id < stack[t][i].id
<1>1. Shape /\ Stacked
  BY ShutFacts DEF Struct
<1>2. DOMAIN stack[t] = 1 .. Len(stack[t]) /\ Len(stack[t]) \in Nat /\ i \in Nat /\ i >= 1 /\ stack[t] # <<>>
  BY <1>1, StackFacts DEF Shape
<1>3. i > 1
  <2>1. i # 1
    BY <1>1, <1>2 DEF Stacked, CallKinds
  <2> QED BY <1>2, <2>1
<1>4. PICK l : l = i - 1
  OBVIOUS
<1>5. l \in DOMAIN stack[t]
  BY <1>2, <1>3, <1>4
<1>6. Above(t, stack[t][i], stack[t][l])
  BY <1>1, <1>3, <1>4 DEF Stacked
<1>7. stack[t][l].pc \in UserPcs /\ stack[t][l].id < stack[t][i].id
  BY <1>6 DEF Above, CallKinds, JobKinds, StackJobs
<1>8. stack[t][l].kind # "client"
  <2>1. SUFFICES ASSUME stack[t][l].kind = "client" PROVE FALSE
    OBVIOUS
  <2>2. l = 1 /\ (2 \in DOMAIN stack[t] => stack[t][2].kind = "terminator")
    BY <1>5, <2>1, ShutClient
  <2>3. i = 2
    BY <1>2, <1>4, <2>2
  <2> QED BY <2>2, <2>3 DEF CallKinds
<1> QED BY <1>5, <1>7, <1>8

LEMMA HeldDown ==
  ASSUME Shut, NEW id \in 1 .. Len(call), Held(<<"held", id>>) > 0
  PROVE  \E v \in Threads : \E l \in DOMAIN stack[v] :
           stack[v][l].pc \in UserPcs /\ stack[v][l].kind # "client" /\ stack[v][l].id < id
<1>1. Struct /\ Shape /\ Finite /\ Counted
  BY ShutFacts
<1>2. Held(<<"held", id>>) \in Nat
  BY <1>1, HeldNat
<1>3. PICK t \in Threads : \E i \in DOMAIN stack[t] : IsCall(t, i, id)
  BY <1>1, <1>2, HeldLive
<1>4. PICK i \in DOMAIN stack[t] : IsCall(t, i, id)
  BY <1>3
<1> QED BY <1>4, CallDown DEF IsCall

LEMMA UserDown ==
  ASSUME Shut, NEW t \in Threads, NEW i \in DOMAIN stack[t], stack[t][i].pc \in UserPcs, stack[t][i].kind # "client"
  PROVE  \E v \in Threads : \E l \in DOMAIN stack[v] :
           stack[v][l].pc \in UserPcs /\ stack[v][l].kind # "client" /\ stack[v][l].id < stack[t][i].id
<1>1. Struct /\ Shape /\ Framed /\ Jobs /\ Finite /\ Counted /\ Held(<<"held", 0>>) = 0
  BY ShutFacts DEF Struct
<1>2. PICK g : g = stack[t][i]
  OBVIOUS
<1>3. FrameOK(g) /\ (g.kind \in JobKinds => JobOK(g))
  BY <1>1, <1>2 DEF Framed, Jobs
<1>4. g.kind \in CallKinds \/ (g.kind \in JobKinds /\ g.pc = "run")
  BY <1>2, <1>3 DEF FrameOK, KindPc, UserPcs, CallKinds, JobKinds, StackJobs
<1>5. CASE g.kind \in CallKinds
  BY <1>2, <1>5, CallDown
<1>6. CASE g.kind \in JobKinds /\ g.pc = "run"
  <2>1. Token(g)
    BY <1>6 DEF Token, JobKinds, StackJobs
  <2>2. PICK id : id = g.id
    OBVIOUS
  <2>3. Held(<<"held", id>>) \in Nat /\ Held(<<"held", id>>) > 0
    BY <1>1, <1>2, <2>1, <2>2, TokenHeld
  <2>4. id # 0
    BY <1>1, <2>3
  <2>5. id \in 1 .. Len(call)
    BY <1>3, <1>6, <2>2, <2>4 DEF JobOK
  <2> QED BY <1>2, <2>2, <2>3, <2>5, HeldDown
<1> QED BY <1>4, <1>5, <1>6

LEMMA ShutQuiet ==
  ASSUME Shut, NEW t \in Threads, NEW i \in DOMAIN stack[t], stack[t][i].pc \in UserPcs, stack[t][i].kind # "client"
  PROVE  FALSE
<1>1. Shape
  BY ShutFacts
<1>2. PICK B : B = {n \in Nat : \E v \in Threads : \E l \in DOMAIN stack[v] :
                      stack[v][l].pc \in UserPcs /\ stack[v][l].kind # "client" /\ stack[v][l].id = n}
  OBVIOUS
<1>3. ASSUME NEW v \in Threads, NEW l \in DOMAIN stack[v], stack[v][l].pc \in UserPcs, stack[v][l].kind # "client"
      PROVE  stack[v][l].id \in B
  <2>1. stack[v][l] \in FrameSet
    BY <1>1, <1>3, StackFacts DEF Shape
  <2>2. stack[v][l].id \in Nat
    BY <2>1 DEF FrameSet
  <2> QED BY <1>2, <1>3, <2>2
<1>4. B # {} /\ B \subseteq Nat
  BY <1>2, <1>3
<1>5. PICK n \in B : \A m \in B : n =< m
  BY <1>4, NatLeast
<1>6. PICK v \in Threads : \E l \in DOMAIN stack[v] :
        stack[v][l].pc \in UserPcs /\ stack[v][l].kind # "client" /\ stack[v][l].id = n
  BY <1>2, <1>5
<1>7. PICK l \in DOMAIN stack[v] : stack[v][l].pc \in UserPcs /\ stack[v][l].kind # "client" /\ stack[v][l].id = n
  BY <1>6
<1>8. PICK u \in Threads : \E j \in DOMAIN stack[u] :
        stack[u][j].pc \in UserPcs /\ stack[u][j].kind # "client" /\ stack[u][j].id < n
  BY <1>7, UserDown
<1>9. PICK j \in DOMAIN stack[u] : stack[u][j].pc \in UserPcs /\ stack[u][j].kind # "client" /\ stack[u][j].id < n
  BY <1>8
<1>10. PICK m : m = stack[u][j].id
  OBVIOUS
<1>11. m \in B /\ m < n /\ n \in Nat /\ m \in Nat /\ n =< m
  BY <1>3, <1>4, <1>5, <1>9, <1>10
<1> QED BY <1>11

LEMMA ShutLive ==
  ASSUME Shut
  PROVE  Live = {}
<1>1. SUFFICES ASSUME NEW id \in Live PROVE FALSE
  OBVIOUS
<1>2. PICK t \in Threads : \E i \in DOMAIN stack[t] : IsCall(t, i, id)
  BY LiveAt
<1>3. PICK i \in DOMAIN stack[t] : IsCall(t, i, id)
  BY <1>2
<1>4. stack[t][i].kind \in CallKinds
  BY <1>3 DEF IsCall
<1>5. \E v \in Threads : \E l \in DOMAIN stack[v] : stack[v][l].pc \in UserPcs /\ stack[v][l].kind # "client"
  BY <1>4, CallDown
<1> QED BY <1>5, ShutQuiet

LEMMA ShutPend ==
  ASSUME Shut, NEW t \in Threads, NEW i \in DOMAIN stack[t]
  PROVE  stack[t][i].pend = NoJob
<1>1. SUFFICES ASSUME stack[t][i].pend # NoJob PROVE FALSE
  OBVIOUS
<1>2. PICK g : g = stack[t][i]
  OBVIOUS
<1>3. FrameOK(g)
  BY <1>2, ShutFacts DEF Struct, Framed
<1>4. g.kind = "broadcast" \/ g.pc \in UserPcs
  BY <1>1, <1>2, <1>3 DEF FrameOK, PendOK
<1>5. CASE g.kind = "broadcast"
  <2>1. stack[t][i].kind \in CallKinds
    BY <1>2, <1>5 DEF CallKinds
  <2>2. \E v \in Threads : \E l \in DOMAIN stack[v] : stack[v][l].pc \in UserPcs /\ stack[v][l].kind # "client"
    BY <2>1, CallDown
  <2> QED BY <2>2, ShutQuiet
<1>6. CASE g.pc \in UserPcs
  <2>1. stack[t][i].kind = "client"
    BY <1>2, <1>6, ShutQuiet
  <2> QED BY <1>1, <2>1, ShutClient
<1> QED BY <1>4, <1>5, <1>6

LEMMA ShutPending ==
  ASSUME Shut
  PROVE  Pending = {}
<1>1. SUFFICES ASSUME NEW j \in Pending PROVE FALSE
  OBVIOUS
<1>2. Struct /\ Shape /\ Finite /\ Counted /\ Held(<<"held", 0>>) = 0
  BY ShutFacts
<1>3. CASE \E t \in Threads : \E i \in DOMAIN stack[t] : j = stack[t][i].pend
  BY <1>3, PendingAt, ShutPend
<1>4. CASE \E q \in Names : \E i \in DOMAIN Queue[q] : j = Queue[q][i]
  <2>1. PICK q \in Names : \E i \in DOMAIN Queue[q] : j = Queue[q][i]
    BY <1>4
  <2>2. PICK i \in DOMAIN Queue[q] : j = Queue[q][i]
    BY <2>1
  <2>3. JobOK(j)
    BY <1>2, <2>2 DEF Struct, Jobs
  <2>4. PICK id : id = j.id
    OBVIOUS
  <2>5. Held(<<"held", id>>) \in Nat /\ Held(<<"held", id>>) > 0
    BY <1>2, <2>2, <2>4, QueuedHeld
  <2>6. id # 0
    BY <1>2, <2>5
  <2>7. id \in 1 .. Len(call)
    BY <2>3, <2>4, <2>6 DEF JobOK
  <2>8. \E v \in Threads : \E l \in DOMAIN stack[v] : stack[v][l].pc \in UserPcs /\ stack[v][l].kind # "client"
    BY <2>5, <2>7, HeldDown
  <2> QED BY <2>8, ShutQuiet
<1> QED BY <1>3, <1>4, PendingAt

LEMMA IdleFollows ==
  ASSUME Core, Pooled
  PROVE  StopsWhenIdle
<1>1. SUFFICES ASSUME \E w \in Workers : terminate[w]
               PROVE  /\ Pending = {} /\ Live = {}
                      /\ \A f \in Frames : f.kind \in JobKinds => f.pc \in {"stop", "notify"}
  BY DEF StopsWhenIdle
<1>2. Shut
  BY <1>1 DEF Pooled, Stopping, Shut
<1>3. Struct /\ Shape /\ Finite /\ Counted /\ Cored /\ Held(<<"held", 0>>) = 0
  BY <1>2, ShutFacts DEF Rest
<1>4. Pending = {} /\ Live = {}
  BY <1>2, ShutPending, ShutLive
<1>5. ASSUME NEW f \in Frames, f.kind \in JobKinds, f.pc \notin {"stop", "notify"} PROVE FALSE
  <2>1. PICK t \in Threads : \E i \in DOMAIN stack[t] : f = stack[t][i]
    BY FramesAt
  <2>2. PICK i \in DOMAIN stack[t] : f = stack[t][i]
    BY <2>1
  <2>3. CASE f.kind # "spawned"
    <3>1. stack[t][i].id \in Unset
      BY <1>3, <1>5, <2>2, <2>3, JobOutlived
    <3> QED BY <1>4, <3>1 DEF Unset
  <2>4. CASE f.kind = "spawned"
    <3>1. FrameOK(f)
      BY <1>3, <2>2 DEF Struct, Framed
    <3>2. f.pc \in {"run", "terminate"} /\ f.id = 0
      BY <1>5, <2>4, <3>1 DEF FrameOK, KindPc, StackJobs, Rootless
    <3>3. Token(f)
      BY <2>4, <3>2 DEF Token
    <3>4. PICK id : id = 0
      OBVIOUS
    <3>5. Held(<<"held", id>>) > 0 /\ Held(<<"held", id>>) \in Nat
      BY <1>3, <2>2, <3>2, <3>3, <3>4, TokenHeld
    <3> QED BY <1>3, <3>4, <3>5
  <2> QED BY <2>3, <2>4
<1> QED BY <1>4, <1>5

-----------------------------------------------------------------------------
(* Nobody stops the workers but who let the last reference go.               *)
StopsFrom ==
  \A u \in Threads : \A i \in DOMAIN stack'[u] : stack'[u][i].pc = "stop" =>
    \E v \in Threads : \E j \in DOMAIN stack[v] : stack[v][j].pc = "stop"

LEMMA PooledKeeps ==
  ASSUME Pooled, StopsFrom, UNCHANGED terminate, terminate_count = 0 => terminate_count' = 0
  PROVE  Pooled'
<1>1. Stopping' => Stopping
  BY DEF Stopping, StopsFrom
<1> QED BY <1>1 DEF Pooled

LEMMA StopsPuts ==
  ASSUME Stacks, NEW t \in Threads, NEW n, NEW f, Puts(t, n, f),
         f.pc # "stop" \/ (n \in DOMAIN stack[t] /\ f.pc = stack[t][n].pc)
  PROVE  StopsFrom
<1>1. ASSUME NEW u \in Threads, NEW i \in DOMAIN stack'[u], stack'[u][i].pc = "stop"
      PROVE  \E v \in Threads : \E j \in DOMAIN stack[v] : stack[v][j].pc = "stop"
  <2>1. (u = t /\ i = n /\ stack'[u][i] = f) \/ (i \in DOMAIN stack[u] /\ stack'[u][i] = stack[u][i])
    <3>1. stack'[t][n] = f
      BY DEF Puts
    <3>2. CASE ~(u = t /\ i = n)
      BY <3>2, PutsElse
    <3> QED BY <3>1, <3>2
  <2> QED BY <1>1, <2>1
<1> QED BY <1>1 DEF StopsFrom

LEMMA StopsSet ==
  ASSUME Struct, NEW t \in Threads, stack[t] # <<>>, NEW h, stack' = SetTop(t, h), h.pc # "stop" \/ h.pc = Top(t).pc
  PROVE  StopsFrom
<1>1. stack \in [Threads -> Seq(FrameSet)] /\ Len(stack[t]) \in DOMAIN stack[t] /\ Top(t) = stack[t][Len(stack[t])]
  BY TopFacts DEF Struct, Shape
<1>2. ASSUME NEW u \in Threads, NEW i \in DOMAIN stack'[u], stack'[u][i].pc = "stop"
      PROVE  \E v \in Threads : \E j \in DOMAIN stack[v] : stack[v][j].pc = "stop"
  <2>1. CASE u = t /\ i = Len(stack[t])
    <3>1. stack'[u][i] = h
      BY <1>1, <2>1 DEF SetTop
    <3> QED BY <1>1, <1>2, <3>1
  <2>2. CASE ~(u = t /\ i = Len(stack[t]))
    <3>1. i \in DOMAIN stack[u] /\ stack'[u][i] = stack[u][i]
      BY <1>1, <2>2 DEF SetTop
    <3> QED BY <1>2, <3>1
  <2> QED BY <2>1, <2>2
<1> QED BY <1>2 DEF StopsFrom

LEMMA StopsPc ==
  ASSUME Struct, NEW t \in Threads, stack[t] # <<>>, NEW pc, NEW e, stack' = SetTop(t, WithPc(Top(t), pc, e)), pc # "stop"
  PROVE  StopsFrom
<1>1. PICK h : h = WithPc(Top(t), pc, e)
  OBVIOUS
<1>2. h.pc = pc
  BY <1>1, TopFacts, WithPcFields
<1> QED BY <1>1, <1>2, StopsSet

LEMMA StopsPend ==
  ASSUME Struct, NEW t \in Threads, stack[t] # <<>>, NEW j, NEW T, NEW h, h = WithPend(Top(t), j, T), stack' = SetTop(t, h)
  PROVE  StopsFrom
<1>1. h.pc = Top(t).pc
  <2>1. Top(t) \in FrameSet
    BY TopFacts
  <2> QED BY <2>1 DEF WithPend, FrameSet
<1> QED BY <1>1, StopsSet

LEMMA StopsAfter ==
  ASSUME Struct, NEW t \in Threads, stack[t] # <<>>, Top(t).pc \in EndPcs, stack' = After(t)
  PROVE  StopsFrom
<1>1. PICK n, f : Leaves(t, n, f)
  BY AfterPuts
<1>2. Stacks /\ Puts(t, n, f) /\ f.pc # "stop"
  BY <1>1 DEF Leaves, UserPcs, WaitPcs
<1> QED BY <1>2, StopsPuts

LEMMA StopsGone ==
  ASSUME Struct, NEW t \in Threads, NEW n, NEW g, NEW id, NEW e, Gone(t, n, g, id, e)
  PROVE  StopsFrom
<1>1. Stacks /\ Puts(t, n, g) /\ g.pc # "stop"
  BY DEF Gone, UserPcs
<1> QED BY <1>1, StopsPuts

LEMMA StopsPush ==
  ASSUME Struct, NEW t \in Threads, NEW f \in FrameSet, stack' = PushFrame(t, f), f.pc # "stop"
  PROVE  StopsFrom
<1>1. Shape
  BY DEF Struct
<1>2. Stacks /\ Puts(t, Len(stack[t]) + 1, f)
  BY <1>1, PushPuts DEF Stacks, Shape
<1> QED BY <1>2, StopsPuts

LEMMA StopsPop ==
  ASSUME Struct, NEW t \in Threads, stack[t] # <<>>, stack' = PopFrame(t)
  PROVE  StopsFrom
<1>1. stack \in [Threads -> Seq(FrameSet)] /\ stack[t] \in Seq(FrameSet) /\ Len(stack[t]) > 0
  BY StackFacts DEF Struct, Shape
<1>2. ASSUME NEW u \in Threads, NEW i \in DOMAIN stack'[u]
      PROVE  i \in DOMAIN stack[u] /\ stack'[u][i] = stack[u][i]
  <2>1. CASE u # t
    BY <1>1, <2>1 DEF PopFrame
  <2>2. CASE u = t
    <3>1. stack'[t] = Front(stack[t])
      BY <1>1 DEF PopFrame
    <3> QED BY <1>1, <2>2, <3>1 DEF Front
  <2> QED BY <2>1, <2>2
<1> QED BY <1>2 DEF StopsFrom

LEMMA ShutTop ==
  ASSUME Shut, NEW t \in Threads, stack[t] # <<>>
  PROVE  /\ Top(t).pend = NoJob /\ Top(t).pc # "terminate"
         /\ ~(Runs(t) /\ (t \in Clients => pool = "open"))
<1>1. Struct /\ Shape /\ Finite /\ Counted /\ Held(<<"held", 0>>) = 0 /\ pool # "open"
  BY ShutFacts
<1>2. Len(stack[t]) \in DOMAIN stack[t] /\ Top(t) = stack[t][Len(stack[t])]
  BY <1>1, TopFacts
<1>3. Top(t).pend = NoJob
  BY <1>2, ShutPend
<1>4. ASSUME Top(t).pc = "terminate" PROVE FALSE
  <2>1. Top(t).kind \in {"terminator", "spawned"} /\ Top(t).id = 0
    BY <1>1, <1>4, EnderFacts
  <2>2. Token(Top(t))
    BY <1>4, <2>1 DEF Token
  <2>3. PICK id : id = 0
    OBVIOUS
  <2>4. Held(<<"held", id>>) > 0 /\ Held(<<"held", id>>) \in Nat
    BY <1>1, <1>2, <2>1, <2>2, <2>3, TokenHeld
  <2> QED BY <1>1, <2>3, <2>4
<1>5. ASSUME Runs(t), t \in Clients => pool = "open" PROVE FALSE
  <2>1. Top(t).pc \in UserPcs
    BY <1>5 DEF Runs, InUser
  <2>2. Top(t).kind = "client"
    BY <1>2, <2>1, ShutQuiet
  <2>3. t \in Clients
    BY <1>2, <2>2, ShutClient
  <2> QED BY <1>1, <1>5, <2>3
<1> QED BY <1>3, <1>4, <1>5

LEMMA QuietPooled ==
  ASSUME Pooled, StopsFrom, UNCHANGED <<terminate, terminate_count>>
  PROVE  Pooled'
  BY PooledKeeps

LEMMA MakesPooled ==
  ASSUME Core, Pooled, NEW t \in Threads, NEW kind, \E f, q, j : Makes(t, kind, f, q, j)
  PROVE  Pooled'
<1>1. Struct
  BY DEF Core
<1>2. PICK f, q, j : Makes(t, kind, f, q, j)
  OBVIOUS
<1>3. /\ stack' = PushFrame(t, f) /\ f \in FrameSet /\ f.pc \in {"a", "op", "wait"}
      /\ UNCHANGED <<terminate, terminate_count>>
  BY <1>2 DEF Makes, Begins, lifecycle
<1>4. StopsFrom
  BY <1>1, <1>3, StopsPush
<1> QED BY <1>3, <1>4, QuietPooled

LEMMA UserCallsPooled ==
  ASSUME Core, Pooled, NEW t \in Threads, Runs(t), UserCalls(t), t \in Clients => pool = "open"
  PROVE  Pooled'
<1>1. Struct /\ stack[t] # <<>>
  BY DEF Core, Runs, InUser
<1>2. CASE Join(t)
  BY <1>1, <1>2, JoinMakes, MakesPooled
<1>3. CASE Scope(t)
  BY <1>1, <1>3, ScopeMakes, MakesPooled
<1>4. CASE Install(t)
  BY <1>1, <1>4, InstallMakes, MakesPooled
<1>5. CASE Broadcast(t)
  BY <1>1, <1>5, BroadcastMakes, MakesPooled
<1>6. CASE ScopeSpawn(t)
  <2>1. UNCHANGED <<terminate, terminate_count>>
    BY <1>6 DEF ScopeSpawn, lifecycle
  <2>2. PICK s \in Top(t).env : \E j, f :
           /\ j = Job("scope_job", s, {o \in Top(t).env : o =< s})
           /\ f = WithPend(Top(t), j, {}) /\ stack' = SetTop(t, f)
           /\ call' = [call EXCEPT ![s].count = call[s].count + 1]
           /\ spawns' = spawns + 1 /\ spawns < MaxSpawns
    BY <1>1, <1>6, ScopeSpawnForm
  <2>3. PICK j, f : f = WithPend(Top(t), j, {}) /\ stack' = SetTop(t, f)
    BY <2>2
  <2>4. StopsFrom
    BY <1>1, <2>3, StopsPend
  <2> QED BY <2>1, <2>4, QuietPooled
<1>7. CASE Spawn(t)
  <2>1. UNCHANGED terminate
    BY <1>7 DEF Spawn
  <2>2. PICK j, f : f = WithPend(Top(t), j, {}) /\ stack' = SetTop(t, f)
    BY <1>1, <1>7, SpawnForm
  <2>3. StopsFrom
    BY <1>1, <2>2, StopsPend
  <2>4. terminate_count # 0
    BY <1>1, ShutTop DEF Shut
  <2> QED BY <2>1, <2>3, <2>4, PooledKeeps
<1>8. CASE SpawnBroadcast(t)
  <2>1. UNCHANGED <<terminate, terminate_count>>
    BY <1>8 DEF SpawnBroadcast, lifecycle
  <2>2. PICK j, f : f = WithPend(Top(t), j, Workers) /\ stack' = SetTop(t, f)
    BY <1>1, <1>8, SpawnBroadcastForm
  <2>3. StopsFrom
    BY <1>1, <2>2, StopsPend
  <2> QED BY <2>1, <2>3, QuietPooled
<1> QED BY <1>2, <1>3, <1>4, <1>5, <1>6, <1>7, <1>8 DEF UserCalls

LEMMA UserEndsPooled ==
  ASSUME Core, Pooled, NEW t \in Threads, NEW e, Ended(t, e), UserEnds(t, e)
  PROVE  Pooled'
<1>1. Struct /\ Counted
  BY DEF Core
<1>2. Ending(t, e) /\ stack[t] # <<>> /\ Top(t).pend = NoJob
  BY DEF Ended, Ending, InUser
<1>3. UNCHANGED <<terminate, terminate_count>> /\ e \in Nat
  BY <1>1, EndedLimits
<1>4. StopsFrom
  <2>1. CASE StackJobEnds(t, e)
    <3>1. stack' = SetTop(t, WithPc(Top(t), "set", 0))
      BY <1>1, <1>2, <2>1, StackJobEndsForm
    <3> QED BY <1>1, <1>2, <3>1, StopsPc
  <2>2. CASE ScopeClosureEnds(t, e)
    <3>1. \E pc \in {"set", "panicked"} : stack' = SetTop(t, WithPc(Top(t), pc, e))
      BY <1>1, <1>2, <2>2, ScopeClosureEndsForm
    <3> QED BY <1>1, <1>2, <3>1, StopsPc
  <2>3. CASE SpawnedEnds(t, e)
    <3>1. stack' = SetTop(t, WithPc(Top(t), "terminate", 0))
      BY <1>1, <1>2, <2>3, SpawnedEndsForm
    <3> QED BY <1>1, <1>2, <3>1, StopsPc
  <2>4. CASE OperAEnds(t, e)
    <3>1. \E pc \in {"loop", "recover"} : stack' = SetTop(t, WithPc(Top(t), pc, e))
      BY <1>1, <1>2, <2>4, OperAEndsForm
    <3> QED BY <1>1, <1>2, <3>1, StopsPc
  <2>5. CASE InlineEnds(t, e)
    <3>1. Top(t).kind = "join" /\ Return(t, e)
      BY <1>1, <1>2, <2>5, InlineEndsStruct
    <3>2. Top(t).kind \in CallKinds
      BY <3>1 DEF CallKinds
    <3>3. \E n, g, id : Gone(t, n, g, id, e)
      BY <1>1, <1>2, <1>3, <3>1, <3>2, GoneForm
    <3> QED BY <1>1, <3>3, StopsGone
  <2> QED BY <2>1, <2>2, <2>3, <2>4, <2>5 DEF UserEnds
<1> QED BY <1>3, <1>4, QuietPooled

LEMMA UserPooled ==
  ASSUME Core, Pooled, NEW t \in Threads, User(t)
  PROVE  Pooled'
<1>1. Struct
  BY DEF Core
<1>2. CASE Runs(t) /\ Top(t).kind # "client" /\ UserCalls(t)
  BY <1>2, UserOpen, UserCallsPooled
<1>3. CASE InUser(t) /\ (Finish(t) \/ Panic(t))
  BY <1>3, FinishForm, PanicForm, UserEndsPooled
<1>4. CASE Push(t)
  <2>1. UNCHANGED <<terminate, terminate_count>> /\ stack[t] # <<>>
    BY <1>4 DEF Push, lifecycle
  <2>2. PICK h : h = WithPend(Top(t), NoJob, {}) /\ stack' = SetTop(t, h)
    BY <1>1, <1>4, PushForm
  <2>3. StopsFrom
    BY <1>1, <2>1, <2>2, StopsPend
  <2> QED BY <2>1, <2>3, QuietPooled
<1>5. CASE PushBroadcast(t)
  <2>1. PICK h, w, p : Broadcasts(t, h, w, p)
    BY <1>1, <1>5, BroadcastsForm
  <2>2. /\ stack[t] # <<>> /\ Top(t).pend # NoJob /\ h = WithPend(Top(t), p, Top(t).todo \ {w})
        /\ stack' = SetTop(t, h) /\ UNCHANGED terminate
    BY <2>1 DEF Broadcasts
  <2>3. StopsFrom
    BY <1>1, <2>2, StopsPend
  <2>4. terminate_count # 0
    BY <2>2, ShutTop DEF Shut
  <2> QED BY <2>2, <2>3, <2>4, PooledKeeps
<1> QED BY <1>2, <1>3, <1>4, <1>5 DEF User

LEMMA LatchesPooled ==
  ASSUME Core, Pooled, NEW t \in Threads, NEW id, Latches(t, id)
  PROVE  Pooled'
<1>1. Struct
  BY DEF Core
<1>2. /\ stack[t] # <<>> /\ Top(t).pc \in EndPcs
      /\ stack' = After(t) \/ stack' = SetTop(t, WithPc(Top(t), "notify", 0))
      /\ UNCHANGED <<terminate, terminate_count>>
  BY DEF Latches, lifecycle
<1>3. StopsFrom
  BY <1>1, <1>2, StopsAfter, StopsPc
<1> QED BY <1>2, <1>3, QuietPooled

LEMMA SetLatchPooled ==
  ASSUME Core, Pooled, NEW t \in Threads, SetLatch(t)
  PROVE  Pooled'
<1>1. Struct
  BY DEF Core
<1>2. CASE StackJobSet(t)
  <2>1. PICK id, h : Latches(t, id) \/ Cores(t, id, h)
    BY <1>1, <1>2, StackJobSetForm
  <2>2. CASE Cores(t, id, h)
    <3>1. stack[t] # <<>> /\ stack' = SetTop(t, WithPc(Top(t), "core", 0)) /\ UNCHANGED <<terminate, terminate_count>>
      BY <2>2 DEF Cores, lifecycle
    <3>2. StopsFrom
      BY <1>1, <3>1, StopsPc
    <3> QED BY <3>1, <3>2, QuietPooled
  <2> QED BY <2>1, <2>2, LatchesPooled
<1>3. CASE CountSet(t)
  <2>1. PICK id : CountsDown(t, id)
    BY <1>1, <1>3, CountSetForm
  <2>2. /\ stack[t] # <<>> /\ Top(t).pc \in EndPcs
        /\ stack' = After(t) \/ stack' = SetTop(t, WithPc(Top(t), "core", 0))
        /\ UNCHANGED <<terminate, terminate_count>>
    BY <2>1 DEF CountsDown, lifecycle, EndPcs
  <2>3. StopsFrom
    BY <1>1, <2>2, StopsAfter, StopsPc
  <2> QED BY <2>2, <2>3, QuietPooled
<1> QED BY <1>2, <1>3 DEF SetLatch

LEMMA TerminatePooled ==
  ASSUME Core, Pooled, NEW t \in Threads, Terminate(t)
  PROVE  Pooled'
<1>1. Struct /\ terminate_count \in Int
  BY DEF Core, Struct, Shape
<1>2. Lets(t)
  BY <1>1, TerminateForm
<1>3. stack[t] # <<>> /\ Top(t).pc = "terminate" /\ terminate_count' = terminate_count - 1 /\ UNCHANGED terminate
  BY <1>2 DEF Lets
<1>4. terminate_count # 0
  BY <1>3, ShutTop DEF Shut
<1>5. CASE terminate_count = 1
  BY <1>3, <1>5 DEF Pooled
<1>6. CASE terminate_count # 1
  <2>1. stack' = PopFrame(t)
    BY <1>2, <1>6 DEF Lets
  <2>2. StopsFrom
    BY <1>1, <1>3, <2>1, StopsPop
  <2> QED BY <1>3, <1>4, <2>2, PooledKeeps
<1> QED BY <1>5, <1>6

LEMMA StepPooled ==
  ASSUME Core, Pooled, NEW t \in Threads, Step(t)
  PROVE  Pooled'
<1>1. Struct /\ Finite /\ Counted /\ Rest /\ Results
  BY DEF Core, Rest
<1>2. CASE User(t)
  BY <1>2, UserPooled
<1>3. CASE JobPanicked(t)
  <2>1. stack[t] # <<>> /\ UNCHANGED <<terminate, terminate_count>>
    BY <1>3 DEF JobPanicked, lifecycle
  <2>2. stack' = SetTop(t, WithPc(Top(t), "set", 0))
    BY <1>1, <1>3, JobPanickedForm
  <2>3. StopsFrom
    BY <1>1, <2>1, <2>2, StopsPc
  <2> QED BY <2>1, <2>3, QuietPooled
<1>4. CASE SetLatch(t)
  BY <1>4, SetLatchPooled
<1>5. CASE CoreSet(t)
  BY <1>1, <1>5, CoreSetForm, LatchesPooled
<1>6. CASE Notify(t)
  <2>1. stack[t] # <<>> /\ Top(t).pc \in EndPcs /\ stack' = After(t) /\ UNCHANGED <<terminate, terminate_count>>
    BY <1>6 DEF Notify, lifecycle, EndPcs
  <2>2. StopsFrom
    BY <1>1, <2>1, StopsAfter
  <2> QED BY <2>1, <2>2, QuietPooled
<1>7. CASE Terminate(t)
  BY <1>7, TerminatePooled
<1>8. CASE StopWorker(t)
  <2>1. stack[t] # <<>> /\ Top(t).pc = "stop" /\ UNCHANGED terminate_count
    BY <1>8 DEF StopWorker
  <2>2. Stopping
    BY <1>1, <2>1, TopFacts DEF Stopping
  <2> QED BY <2>1, <2>2 DEF Pooled
<1>9. CASE CallReturns(t)
  <2>1. PICK e : Returns(t, e)
    BY <1>1, <1>9, CallReturnsForm
  <2>2. PICK i : i = Top(t).id
    OBVIOUS
  <2>3. e \in Nat
    BY <1>1, <2>1, <2>2, ReturnsValue
  <2>4. /\ stack[t] # <<>> /\ Top(t).kind \in CallKinds /\ Top(t).pend = NoJob /\ Return(t, e)
        /\ UNCHANGED <<terminate, terminate_count>>
    BY <2>1 DEF Returns, lifecycle
  <2>5. \E n, g, id : Gone(t, n, g, id, e)
    BY <1>1, <2>3, <2>4, GoneForm
  <2>6. StopsFrom
    BY <1>1, <2>5, StopsGone
  <2> QED BY <2>4, <2>6, QuietPooled
<1> QED BY <1>2, <1>3, <1>4, <1>5, <1>6, <1>7, <1>8, <1>9 DEF Step

LEMMA ExecutesPooled ==
  ASSUME Core, Pooled, NEW t \in Workers, NEW q, NEW j, NEW d, Executes(t, q, j, d)
  PROVE  Pooled'
<1>1. Struct /\ t \in Threads
  BY DEF Core, Threads
<1>2. UNCHANGED <<terminate, terminate_count>>
  BY DEF Executes, lifecycle
<1>3. PICK f : Stacks /\ Puts(t, Len(stack[t]) + 1, f) /\ f.pc = "run"
  BY <1>1, ExecutePuts
<1>4. StopsFrom
  BY <1>1, <1>3, StopsPuts
<1> QED BY <1>2, <1>4, QuietPooled

LEMMA WorkerStepPooled ==
  ASSUME Core, Pooled, NEW w \in Workers, WorkerStep(w)
  PROVE  Pooled'
<1>0. Struct /\ w \in Threads
  BY DEF Core, Threads
<1>1. CASE Step(w)
  BY <1>0, <1>1, StepPooled
<1>2. CASE FindWork(w)
  <2>1. PICK q, j, d : Executes(w, q, j, d)
    BY <1>0, <1>2, FindWorkForm
  <2> QED BY <2>1, ExecutesPooled
<1>3. CASE JoinPop(w)
  <2>0. \/ \E h : WaitsB(w, h)
        \/ \E h, q, j, d : Inlines(w, h, q, j, d)
        \/ \E q, j, d : Executes(w, q, j, d)
    BY <1>0, <1>3, JoinPopForm
  <2>1. CASE \E q, j, d : Executes(w, q, j, d)
    BY <2>1, ExecutesPooled
  <2>2. CASE (\E h : WaitsB(w, h)) \/ (\E h, q, j, d : Inlines(w, h, q, j, d))
    <3>1. /\ stack[w] # <<>> /\ UNCHANGED <<terminate, terminate_count>>
          /\ \E pc \in {"wait_b", "inline"} : stack' = SetTop(w, WithPc(Top(w), pc, 0))
      BY <2>2 DEF WaitsB, Inlines, lifecycle
    <3>2. StopsFrom
      BY <1>0, <3>1, StopsPc
    <3> QED BY <3>1, <3>2, QuietPooled
  <2> QED BY <2>0, <2>1, <2>2
<1>4. CASE Exit(w)
  <2>1. stack[w] # <<>> /\ stack' = PopFrame(w) /\ UNCHANGED <<terminate, terminate_count>>
    BY <1>4 DEF Exit
  <2>2. StopsFrom
    BY <1>0, <2>1, StopsPop
  <2> QED BY <2>1, <2>2, QuietPooled
<1> QED BY <1>1, <1>2, <1>3, <1>4 DEF WorkerStep

LEMMA EndsPooled ==
  ASSUME Core, Pooled, NEW f, Ends(f)
  PROVE  Pooled'
<1>1. Struct /\ Main \in Threads
  BY ThreadFacts DEF Core
<1>2. Stacks /\ Puts(Main, Len(stack[Main]) + 1, f) /\ f.pc = "terminate"
  BY <1>1, EndsStruct
<1>3. UNCHANGED <<terminate, terminate_count>>
  BY DEF Ends
<1>4. StopsFrom
  BY <1>1, <1>2, StopsPuts
<1> QED BY <1>3, <1>4, QuietPooled

LEMMA NextPooled ==
  ASSUME Core, Pooled, [Next]_vars
  PROVE  Pooled'
<1>1. Struct
  BY DEF Core
<1>2. CASE SpawnThread
  <2>1. PICK w \in Workers : \E f :
            /\ pool = "building" /\ f = Frame("main", 0, {}, "wait") /\ stack' = PushFrame(w, f) /\ stack[w] = <<>>
            /\ started' = started \cup {w} /\ w \notin started
            /\ \E k \in 0 .. NumThreads - 1 : started = 1 .. k /\ w = k + 1
            /\ pool' = IF w = NumThreads THEN "open" ELSE pool
            /\ UNCHANGED <<queues, call, terminate_count, terminate, stopped, foreign, spawns, panics>>
    BY <1>1, <1>2, SpawnThreadForm
  <2>2. PICK f : /\ f = Frame("main", 0, {}, "wait") /\ stack' = PushFrame(w, f) /\ stack[w] = <<>>
                 /\ UNCHANGED <<terminate, terminate_count>> /\ UNCHANGED <<queues, call, panics>>
    BY <2>1
  <2>3. w \in Threads
    BY DEF Threads
  <2>4. Stacks /\ Puts(w, Len(stack[w]) + 1, f) /\ f.pc = "wait"
    BY <1>1, <2>2, <2>3, RootKeeps
  <2>5. StopsFrom
    BY <2>3, <2>4, StopsPuts
  <2> QED BY <2>2, <2>5, QuietPooled
<1>3. CASE SpawnThreadFails
  BY <1>1, <1>3, SpawnThreadFailsForm, EndsPooled
<1>4. CASE DropPool
  BY <1>1, <1>4, DropPoolForm, EndsPooled
<1>5. CASE ThreadSteps
  <2>1. ASSUME NEW w \in Workers, WorkerStep(w) PROVE Pooled'
    BY <2>1, WorkerStepPooled
  <2>2. ASSUME NEW c \in Clients, Step(c) PROVE Pooled'
    <3>1. c \in Threads
      BY DEF Threads
    <3> QED BY <2>2, <3>1, StepPooled
  <2> QED BY <1>5, <2>1, <2>2 DEF ThreadSteps
<1>6. ASSUME NEW c \in Clients, ClientCalls(c) PROVE Pooled'
  <2>1. Runs(c) /\ UserCalls(c) /\ pool = "open" /\ c \in Threads
    BY <1>6 DEF ClientCalls, OpenTo, Threads
  <2> QED BY <2>1, UserCallsPooled
<1>7. CASE UNCHANGED <<stack, terminate, terminate_count>>
  <2>1. StopsFrom
    BY <1>7 DEF StopsFrom
  <2> QED BY <1>7, <2>1, QuietPooled
<1>8. ASSUME NEW c \in Clients, Leave(c) PROVE Pooled'
  BY <1>7, <1>8 DEF Leave, lifecycle
<1>9. CASE Finished \/ UNCHANGED vars
  BY <1>7, <1>9 DEF Finished, vars
<1> QED BY <1>2, <1>3, <1>4, <1>5, <1>6, <1>8, <1>9 DEF Next

-----------------------------------------------------------------------------
(* The inductive invariant: who holds what of a call and of the pool (Core), *)
(* and that the workers are told to stop only when nobody holds anything.    *)
IInv == Core /\ Pooled

LEMMA InitIInv ==
  ASSUME Init
  PROVE  IInv
<1>1. Core
  BY InitCore
<1>2. \A w \in Workers : ~terminate[w]
  BY DEF Init
<1>3. ASSUME NEW t \in Threads, NEW i \in DOMAIN stack[t] PROVE stack[t][i].pc = "run"
  <2>1. stack[t] = <<>> \/ stack[t] = <<Frame("client", 0, {}, "run")>>
    BY DEF Init
  <2>2. stack[t][i] = Frame("client", 0, {}, "run")
    BY <2>1
  <2> QED BY <2>2 DEF Frame
<1>4. ~Stopping
  BY <1>2, <1>3 DEF Stopping
<1> QED BY <1>1, <1>4 DEF IInv, Pooled

\* Every reachable state of the fork-join calls satisfies the inductive
\* invariant: it holds of the pool being built and every action keeps it.
THEOREM ForkJoinInvariant == Spec => []IInv
<1>1. Init => IInv
  BY InitIInv
<1>2. IInv /\ [Next]_vars => IInv'
  BY NextCore, NextPooled DEF IInv
<1> QED BY <1>1, <1>2, PTL DEF Spec

\* The type invariant, with the bounds on the latches' counters and on the
\* pool's reference count: neither goes below zero, nor above one per worker
\* and one per job spawned.
THEOREM ForkJoinTypeCorrect == Spec => []TypeOK
<1>1. IInv => TypeOK
  BY CoreTypes DEF IInv
<1> QED BY <1>1, ForkJoinInvariant, PTL

\* join, scope, install and broadcast never return, nor unwind, while a job
\* that points into their frame is queued or has not set its latch, or while
\* code runs that can name their scope.
THEOREM FramesOutlive == Spec => []FramesOutliveJobs
<1>1. IInv => FramesOutliveJobs
  BY OutliveFollows DEF IInv, Core, Rest
<1> QED BY <1>1, ForkJoinInvariant, PTL

\* A panic of a closure of a call is what the call ends with, and a call none
\* of whose closures panicked returns; a join reports oper_a's panic first.
THEOREM PanicsAreReported == Spec => []PanicsReported
<1>1. IInv => PanicsReported
  BY ReportedFollows DEF IInv
<1> QED BY <1>1, ForkJoinInvariant, PTL

\* Registry::terminate sets no worker's latch while a job is queued, a closure
\* runs or somebody is in a call.
THEOREM StopsOnlyIdle == Spec => []StopsWhenIdle
<1>1. IInv => StopsWhenIdle
  BY IdleFollows DEF IInv
<1> QED BY <1>1, ForkJoinInvariant, PTL

\* As long as other pools' threads only install, the cross clone of SpinLatch
\* keeps the registry that is notified. (With a CountLatch there is no clone,
\* and TLC shows the registry gone.)
THEOREM InstallRegistryAlive ==
  ASSUME CrossCalls \subseteq {"install"}
  PROVE  Spec => []NotifiedRegistryAlive
<1>1. IInv => NotifiedRegistryAlive
  BY AliveFollows DEF IInv
<1> QED BY <1>1, ForkJoinInvariant, PTL
=============================================================================
