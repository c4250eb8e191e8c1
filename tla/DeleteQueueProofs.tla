-------------------------- MODULE DeleteQueueProofs --------------------------
(***************************************************************************)
(* The delete queue implements the log of DeleteLog, for any number of     *)
(* cursors and operations.                                                 *)
(*                                                                         *)
(* The invariant says that the blocks of the list in use lie in a row at   *)
(* the end of blocks: each is linked to the one after it, or somebody who  *)
(* has its lock is about to link it. The operations are numbered through,  *)
(* from block to block and on into the pending vector.                     *)
(***************************************************************************)
EXTENDS DeleteQueue, WellFoundedInduction, TLAPS

USE QueueAssumption

Block == [operations : Seq(Nat), next : Nat, base : Nat]

Shape ==
  /\ writer \in Seq(Nat) /\ blocks \in Seq(Block)
  /\ last_block = Len(blocks)
  /\ cursor \in [Cursors -> [block : Nat, pos : Nat]]
  /\ pc \in [Cursors -> {"idle", "last_slow", "next", "slow", "close"}]
  /\ call \in [Cursors -> {"none", "cursor", "get", "advance"}]
  /\ flushed \in [Cursors -> Nat]
  /\ got \in [Cursors -> 0 .. MaxOps]
  /\ pushed \in 0 .. MaxOps

\* The operations are numbered in the order in which they were pushed.
Numbered ==
  /\ Len(writer) =< pushed
  /\ \A i \in 1 .. Len(writer) : writer[i] = Flushed + i
  /\ \A b \in BlockIds : \A i \in 1 .. Len(ops(b)) : ops(b)[i] = blocks[b].base + i
  /\ \A b \in BlockIds : b = Len(blocks) => blocks[b].base + Len(ops(b)) = Flushed
  /\ \A b \in BlockIds : b # Len(blocks) => blocks[b].base + Len(ops(b)) = blocks[b + 1].base
  /\ \A b \in BlockIds : blocks[b].base + Len(ops(b)) =< Flushed

\* A block is linked to the one flushed after it.
Linked ==
  \A b \in BlockIds : blocks[b].next # NoBlock =>
    b + 1 \in BlockIds /\ blocks[b].next = b + 1 /\ ops(b + 1) # <<>>

\* A cursor is in a block, and at its end when it loads the next one.
Placed ==
  \A c \in Cursors :
    /\ Exists(c) => cursor[c].block \in BlockIds /\ cursor[c].pos =< Len(ops(cursor[c].block))
    /\ pc[c] \in {"next", "slow", "close"} =>
         /\ Exists(c) /\ call[c] \in {"get", "advance"}
         /\ cursor[c].pos = Len(ops(cursor[c].block))
    /\ pc[c] = "last_slow" => ~Exists(c)

\* The holder of a block's lock is alone and has flushed the block after it.
Closing ==
  \A c \in Cursors :
    /\ pc[c] # "close" => flushed[c] = NoBlock
    /\ pc[c] = "close" =>
         LET b == cursor[c].block
         IN /\ flushed[c] = b + 1 /\ b + 1 \in BlockIds /\ ops(b + 1) # <<>>
            /\ blocks[b].next = NoBlock
            /\ \A d \in Cursors : pc[d] = "close" /\ cursor[d].block = b => d = c

\* From the block of a cursor on, the list has no gap.
Connected ==
  \A c \in Cursors : Exists(c) =>
    \A b \in BlockIds : cursor[c].block =< b /\ b < Len(blocks) =>
      blocks[b].next = b + 1 \/ NextLocked(b)

IInv == Shape /\ Numbered /\ Linked /\ Placed /\ Closing /\ Connected

-----------------------------------------------------------------------------
(* Sequences.                                                              *)
LEMMA AppendFacts ==
  ASSUME NEW S, NEW s \in Seq(S), NEW x \in S
  PROVE  /\ Append(s, x) \in Seq(S)
         /\ Len(Append(s, x)) = Len(s) + 1 /\ Len(s) \in Nat
         /\ \A i \in 1 .. Len(s) : Append(s, x)[i] = s[i]
         /\ Append(s, x)[Len(s) + 1] = x
  OBVIOUS

(* Every set of natural numbers that is not empty has a least element.     *)
LEMMA NatOrder ==
  \E R : IsWellFoundedOn(R, Nat) /\ \A x, y \in Nat : y < x => <<y, x>> \in R
<1>1. \A x, y \in Nat : y < x => <<y, x>> \in OpToRel(<, Nat)
  BY DEF OpToRel
<1>2. QED
  BY <1>1, NatLessThanWellFounded, Zenon

LEMMA NatMin ==
  ASSUME NEW T, T \subseteq Nat, T # {}
  PROVE  \E x \in T : \A y \in T : x =< y
<1>1. PICK R : IsWellFoundedOn(R, Nat) /\ \A x, y \in Nat : y < x => <<y, x>> \in R
  BY NatOrder
<1>2. PICK x \in T : \A y \in T : ~ (<<y, x>> \in R)
  BY <1>1, WFMin
<1>3. ASSUME NEW y \in T PROVE x =< y
  <2>1. ~ (y < x)
    BY <1>1, <1>2, Zenon
  <2>2. QED
    BY <2>1
<1>4. QED
  BY <1>3

-----------------------------------------------------------------------------
(* What the invariant says of single blocks.                               *)
LEMMA BlockFacts ==
  ASSUME Shape
  PROVE  /\ Len(blocks) \in Nat /\ DOMAIN blocks = BlockIds
         /\ \A b \in BlockIds : /\ b \in Nat /\ b > 0 /\ blocks[b] \in Block
                                /\ ops(b) \in Seq(Nat) /\ Len(ops(b)) \in Nat
                                /\ blocks[b].next \in Nat /\ blocks[b].base \in Nat
         /\ Len(writer) \in Nat
<1>1. Len(blocks) \in Nat /\ DOMAIN blocks = BlockIds /\ Len(writer) \in Nat
  BY DEF Shape, BlockIds
<1>2. \A b \in BlockIds : b \in Nat /\ b > 0 /\ blocks[b] \in Block
  BY <1>1 DEF Shape, BlockIds
<1>3. \A b \in BlockIds : ops(b) \in Seq(Nat) /\ blocks[b].next \in Nat /\ blocks[b].base \in Nat
  BY <1>2 DEF Block, ops
<1>4. \A b \in BlockIds : Len(ops(b)) \in Nat
  BY <1>3
<1>5. QED
  BY <1>1, <1>2, <1>3, <1>4

\* An open block that somebody holds is the last one (OneOpenBlock).
LEMMA OpenIsLast ==
  ASSUME IInv, NEW c \in Cursors, Exists(c), blocks[cursor[c].block].next = NoBlock,
         ~NextLocked(cursor[c].block)
  PROVE  cursor[c].block = Len(blocks)
<1>1. Shape /\ Placed /\ Connected
  BY DEF IInv
<1>2. cursor[c].block \in BlockIds
  BY <1>1 DEF Placed
<1>3. cursor[c].block \in Nat /\ Len(blocks) \in Nat /\ cursor[c].block =< Len(blocks)
  BY <1>1, <1>2, BlockFacts DEF BlockIds
<1>4. blocks[cursor[c].block].next # cursor[c].block + 1
  BY <1>3 DEF NoBlock
<1>5. QED
  BY <1>1, <1>2, <1>3, <1>4 DEF Connected

(* As long as there is a cursor, the queue's weak reference to its last    *)
(* block can be upgraded: from the last block held, links lead to it.      *)
LEMMA LastUpgradable ==
  ASSUME IInv, NEW c \in Cursors, Exists(c)
  PROVE  Upgradable(last_block)
<1> DEFINE n == Len(blocks)
           H == {h \in BlockIds : \E d \in Cursors :
                   Exists(d) /\ (h = cursor[d].block \/ (pc[d] = "close" /\ h = flushed[d]))}
           T == {n - h : h \in H}
<1>1. Shape /\ Placed /\ Closing /\ Connected
  BY DEF IInv
<1>2. n \in Nat /\ \A b \in BlockIds : b \in Nat /\ b > 0 /\ b =< n
  BY <1>1, BlockFacts DEF BlockIds
<1>3. cursor[c].block \in H
  <2>1. cursor[c].block \in BlockIds
    BY <1>1 DEF Placed
  <2>2. QED
    BY <2>1
<1>4. H \subseteq Held
  <2> SUFFICES ASSUME NEW h \in H, NEW d \in Cursors, Exists(d),
                      h = cursor[d].block \/ (pc[d] = "close" /\ h = flushed[d])
               PROVE  h \in Held
    OBVIOUS
  <2>1. h # NoBlock
    BY <1>2 DEF NoBlock
  <2>2. QED
    BY <2>1 DEF Held
<1>5. PICK h \in H : \A g \in H : g =< h
  <2>1. T \subseteq Nat /\ T # {}
    BY <1>2, <1>3
  <2>2. PICK k \in T : \A j \in T : k =< j
    BY <2>1, NatMin
  <2>3. PICK h \in H : k = n - h
    OBVIOUS
  <2>4. ASSUME NEW g \in H PROVE g =< h
    <3>1. n - g \in T
      OBVIOUS
    <3>2. n - h =< n - g
      BY <2>2, <2>3, <3>1
    <3>3. QED
      BY <1>2, <3>2
  <2>5. QED
    BY <2>4
<1>6. ASSUME NEW b \in BlockIds, h =< b, b < n
      PROVE  blocks[b].next = b + 1
  <2>1. PICK d \in Cursors : Exists(d) /\ (h = cursor[d].block \/ (pc[d] = "close" /\ h = flushed[d]))
    OBVIOUS
  <2>2. cursor[d].block \in Nat /\ cursor[d].block =< h
    BY <1>1, <1>2, <2>1 DEF Placed, Closing
  <2>3. blocks[b].next = b + 1 \/ NextLocked(b)
    BY <1>1, <1>2, <1>6, <2>1, <2>2 DEF Connected
  <2>4. ASSUME NextLocked(b) PROVE FALSE
    <3>1. PICK e \in Cursors : pc[e] = "close" /\ cursor[e].block = b
      BY <2>4 DEF NextLocked
    <3>2. Exists(e) /\ flushed[e] = b + 1 /\ b + 1 \in BlockIds
      BY <1>1, <3>1 DEF Placed, Closing
    <3>3. b + 1 \in H
      BY <3>1, <3>2
    <3>4. QED
      BY <1>2, <1>5, <1>6, <3>3
  <2>5. QED
    BY <2>3, <2>4
<1>7. Reaches(h, n)
  <2> SUFFICES ASSUME NEW S \in SUBSET BlockIds, h \in S, n \notin S,
                      \A x \in S : blocks[x].next # NoBlock => blocks[x].next \in S
               PROVE  FALSE
    BY DEF Reaches
  <2> DEFINE U == {x \in BlockIds : h =< x /\ x \notin S}
  <2>1. U \subseteq Nat /\ n \in U
    BY <1>2, BlockFacts, <1>1 DEF BlockIds
  <2>2. PICK x \in U : \A y \in U : x =< y
    BY <2>1, NatMin
  <2>3. x - 1 \in BlockIds /\ h =< x - 1 /\ x - 1 < n
    BY <1>2, <2>2 DEF BlockIds
  <2>4. x - 1 \in S
    BY <1>2, <2>2, <2>3
  <2>5. blocks[x - 1].next = x
    BY <1>2, <1>6, <2>3
  <2>6. x \in S
    BY <1>2, <2>4, <2>5 DEF NoBlock
  <2>7. QED
    BY <2>6, <2>2
<1>8. last_block = n /\ last_block # NoBlock
  BY <1>1, <1>2, <1>3 DEF Shape, NoBlock
<1>9. QED
  BY <1>4, <1>7, <1>8 DEF Upgradable

-----------------------------------------------------------------------------
(* Steps that only move a cursor. k is where c goes, p and w are its new pc *)
(* and call.                                                               *)
Moves(c, k, p, w) ==
  /\ UNCHANGED <<writer, last_block, blocks, pushed, flushed>>
  /\ cursor' = [cursor EXCEPT ![c] = k]
  /\ pc' = [pc EXCEPT ![c] = p]
  /\ call' = [call EXCEPT ![c] = w]

\* Where a cursor may go.
Place(k) ==
  /\ k \in [block : Nat, pos : Nat]
  /\ k.block # NoBlock =>
       /\ k.block \in BlockIds /\ k.pos =< Len(ops(k.block))
       /\ \A b \in BlockIds : k.block =< b /\ b < Len(blocks) => blocks[b].next = b + 1 \/ NextLocked(b)

LEMMA MoveStep ==
  ASSUME IInv, NEW c \in Cursors, NEW k, NEW p, NEW w, Moves(c, k, p, w), Place(k),
         pc[c] # "close",
         \/ p = "idle" /\ w \in {"none", "cursor", "get", "advance"}
         \/ p = "last_slow" /\ w = "cursor" /\ k.block = NoBlock
         \/ /\ p \in {"next", "slow"} /\ w \in {"get", "advance"} /\ k.block # NoBlock
            /\ k.pos = Len(ops(k.block)),
         got' \in [Cursors -> 0 .. MaxOps]
  PROVE  IInv'
<1>1. Shape /\ Numbered /\ Linked /\ Placed /\ Closing /\ Connected
  BY DEF IInv
<1>2. Shape'
  BY <1>1 DEF Shape, Moves, Place
<1>3. /\ cursor'[c] = k /\ pc'[c] = p /\ call'[c] = w
      /\ \A d \in Cursors : d # c => cursor'[d] = cursor[d] /\ pc'[d] = pc[d] /\ call'[d] = call[d]
      /\ \A b : ops(b)' = ops(b)
      /\ BlockIds' = BlockIds /\ blocks' = blocks /\ flushed' = flushed /\ Flushed' = Flushed
      /\ writer' = writer /\ pushed' = pushed
  BY <1>1 DEF Shape, Moves, ops, BlockIds, Flushed
<1>4. Numbered' /\ Linked'
  BY <1>1, <1>3 DEF Numbered, Linked
<1>5. \A b : NextLocked(b)' <=> NextLocked(b)
  BY <1>3 DEF NextLocked
<1>6. Placed'
  <2> SUFFICES ASSUME NEW d \in Cursors
               PROVE  /\ Exists(d)' => cursor'[d].block \in BlockIds /\ cursor'[d].pos =< Len(ops(cursor'[d].block))
                      /\ pc'[d] \in {"next", "slow", "close"} =>
                           /\ Exists(d)' /\ call'[d] \in {"get", "advance"}
                           /\ cursor'[d].pos = Len(ops(cursor'[d].block))
                      /\ pc'[d] = "last_slow" => ~Exists(d)'
    BY <1>3 DEF Placed, ops
  <2>1. CASE d = c
    BY <1>3, <2>1 DEF Exists, Place
  <2>2. CASE d # c
    BY <1>1, <1>3, <2>2 DEF Exists, Placed
  <2>3. QED
    BY <2>1, <2>2
<1>7. Closing'
  BY <1>1, <1>3 DEF Closing, ops
<1>8. Connected'
  <2> SUFFICES ASSUME NEW d \in Cursors, Exists(d)', NEW b \in BlockIds, cursor'[d].block =< b, b < Len(blocks)
               PROVE  blocks[b].next = b + 1 \/ NextLocked(b)
    BY <1>3, <1>5 DEF Connected
  <2>1. CASE d = c
    BY <1>3, <2>1 DEF Exists, Place
  <2>2. CASE d # c
    BY <1>1, <1>3, <2>2 DEF Exists, Connected
  <2>3. QED
    BY <2>1, <2>2
<1>9. QED
  BY <1>2, <1>4, <1>6, <1>7, <1>8 DEF IInv

-----------------------------------------------------------------------------
(* The refinement mapping: the position in the log of a cursor's place k.   *)
LogPos(k) == IF k.block # NoBlock THEN blocks[k.block].base + k.pos ELSE Nowhere
Pos == [c \in Cursors |-> LogPos(cursor[c])]

Simulates == [Log!Next]_(Log!logVars)

\* What a step of the log, or none, is in terms of Pos.
LEMMA LogStep ==
  ASSUME \/ pushed' = pushed + 1 /\ Pos' = Pos /\ got' = got
         \/ \E c \in Cursors : /\ Pos[c] = Nowhere
                               /\ \E p \in 0 .. pushed : Pos' = [Pos EXCEPT ![c] = p]
                               /\ pushed' = pushed /\ got' = got
         \/ \E c, d \in Cursors : /\ Pos[c] # Nowhere /\ Pos[d] = Nowhere
                                  /\ Pos' = [Pos EXCEPT ![d] = Pos[c]]
                                  /\ pushed' = pushed /\ got' = got
         \/ \E c \in Cursors : /\ Pos[c] # Nowhere
                               /\ Pos' = [Pos EXCEPT ![c] = Nowhere]
                               /\ got' = [got EXCEPT ![c] = Nothing] /\ pushed' = pushed
         \/ \E c \in Cursors :
               /\ Pos[c] # Nowhere /\ pushed' = pushed /\ Pos' = Pos
               /\ got' = [got EXCEPT ![c] = IF Pos[c] < pushed THEN Pos[c] + 1 ELSE Nothing]
         \/ \E c \in Cursors : /\ Pos[c] # Nowhere /\ Pos[c] < pushed
                               /\ Pos' = [Pos EXCEPT ![c] = Pos[c] + 1]
                               /\ pushed' = pushed /\ got' = got
         \/ pushed' = pushed /\ Pos' = Pos /\ got' = got
  PROVE  Simulates
<1>1. Pos = [c \in Cursors |-> IF Exists(c) THEN blocks[cursor[c].block].base + cursor[c].pos ELSE Nowhere]
  BY DEF Pos, LogPos, Exists
<1>2. Pos' = [c \in Cursors |-> IF Exists(c) THEN blocks[cursor[c].block].base + cursor[c].pos ELSE Nowhere]'
  BY DEF Pos, LogPos, Exists
<1>3. QED
  BY <1>1, <1>2 DEF Simulates, Log!Next, Log!logVars, Log!Push, Log!Create, Log!Clone, Log!Drop, Log!Get,
                    Log!Advance, Log!Nothing, Nothing

LEMMA MovePos ==
  ASSUME Shape, NEW c \in Cursors, NEW k, NEW p, NEW w, Moves(c, k, p, w)
  PROVE  Pos' = [Pos EXCEPT ![c] = LogPos(k)]
  BY DEF Shape, Moves, Pos, LogPos

LEMMA PosIs ==
  ASSUME IInv, NEW c \in Cursors
  PROVE  /\ Pos[c] = LogPos(cursor[c])
         /\ Pos[c] = Nowhere <=> ~Exists(c)
         /\ Exists(c) => Pos[c] \in 0 .. pushed
<1>1. Shape /\ Numbered /\ Placed
  BY DEF IInv
<1>2. Pos[c] = LogPos(cursor[c])
  BY DEF Pos
<1>3. ASSUME Exists(c) PROVE Pos[c] \in 0 .. pushed
  <2>1. cursor[c].block \in BlockIds /\ cursor[c].pos =< Len(ops(cursor[c].block)) /\ cursor[c].pos \in Nat
    BY <1>1, <1>3 DEF Placed, Shape
  <2>2. /\ blocks[cursor[c].block].base \in Nat /\ Len(ops(cursor[c].block)) \in Nat
        /\ blocks[cursor[c].block].base + Len(ops(cursor[c].block)) =< Flushed
    BY <1>1, <2>1, BlockFacts DEF Numbered
  <2>3. Flushed =< pushed /\ pushed \in Nat /\ Flushed \in Int
    BY <1>1, BlockFacts DEF Flushed, Shape
  <2>4. QED
    BY <1>2, <1>3, <2>1, <2>2, <2>3 DEF LogPos, Exists
<1>4. QED
  BY <1>2, <1>3 DEF LogPos, Exists

\* Where a cursor is, it may stay.
LEMMA OwnPlace ==
  ASSUME IInv, NEW c \in Cursors
  PROVE  Place(cursor[c]) /\ [cursor EXCEPT ![c] = cursor[c]] = cursor
  BY DEF IInv, Shape, Placed, Connected, Place, Exists

\* DeleteQueue::cursor puts a cursor at the end of the last block.
LEMMA EndPlace ==
  ASSUME IInv, last_block # NoBlock
  PROVE  LET k == [block |-> last_block, pos |-> Len(ops(last_block))]
         IN Place(k) /\ LogPos(k) \in 0 .. pushed
<1>1. Shape /\ Numbered
  BY DEF IInv
<1>2. last_block \in BlockIds /\ last_block = Len(blocks)
  BY <1>1, BlockFacts DEF Shape, BlockIds, NoBlock
<1>3. blocks[last_block].base \in Nat /\ Len(ops(last_block)) \in Nat
  BY <1>1, <1>2, BlockFacts
<1>4. blocks[last_block].base + Len(ops(last_block)) \in 0 .. pushed
  BY <1>1, <1>2, <1>3, BlockFacts DEF Numbered, Flushed, Shape
<1>5. \A b \in BlockIds : ~ (last_block =< b /\ b < Len(blocks))
  BY <1>1, <1>2, BlockFacts
<1>6. QED
  BY <1>2, <1>3, <1>4, <1>5 DEF Place, LogPos, BlockIds

LEMMA CursorStep ==
  ASSUME IInv, NEW c \in Cursors, Cursor(c)
  PROVE  IInv' /\ Simulates
<1>1. Shape /\ Pos[c] = Nowhere /\ pc[c] # "close" /\ cursor[c].block = NoBlock
  BY PosIs DEF IInv, Cursor, Exists
<1>2. CASE Upgradable(last_block)
  <2> DEFINE k == [block |-> last_block, pos |-> Len(ops(last_block))]
  <2>1. Moves(c, k, "idle", "none") /\ got' = got
    BY <1>2 DEF Cursor, AtEndOf, Goto, Moves
  <2>2. Place(k) /\ LogPos(k) \in 0 .. pushed
    BY <1>2, EndPlace DEF Upgradable
  <2> HIDE DEF k
  <2>3. IInv'
    BY <1>1, <2>1, <2>2, MoveStep DEF Shape
  <2>4. Pos' = [Pos EXCEPT ![c] = LogPos(k)] /\ pushed' = pushed
    BY <1>1, <2>1, MovePos DEF Moves
  <2>5. QED
    BY <1>1, <2>1, <2>2, <2>3, <2>4, LogStep
<1>3. CASE ~Upgradable(last_block)
  <2>1. Moves(c, cursor[c], "last_slow", "cursor") /\ got' = got
    BY <1>3, OwnPlace DEF Cursor, Goto, Moves
  <2>2. IInv'
    BY <1>1, <2>1, OwnPlace, MoveStep DEF Shape
  <2>3. Pos' = Pos /\ pushed' = pushed
    BY <2>1, OwnPlace DEF Pos, LogPos, Moves
  <2>4. QED
    BY <2>1, <2>2, <2>3, LogStep
<1>4. QED
  BY <1>2, <1>3

LEMMA CloneStep ==
  ASSUME IInv, NEW c \in Cursors, NEW d \in Cursors, CloneCursor(c, d)
  PROVE  IInv' /\ Simulates
<1>1. Shape
  BY DEF IInv
<1>2. Moves(d, cursor[c], "idle", call[d]) /\ got' = got /\ pc[d] # "close"
  BY <1>1 DEF CloneCursor, Moves, Shape
<1>3. IInv'
  BY <1>1, <1>2, OwnPlace, MoveStep DEF Shape
<1>4. Pos' = [Pos EXCEPT ![d] = Pos[c]] /\ pushed' = pushed
  <2>1. Pos' = [Pos EXCEPT ![d] = LogPos(cursor[c])]
    BY <1>1, <1>2, MovePos
  <2>2. QED
    BY <1>2, <2>1, PosIs DEF Moves
<1>5. Pos[c] # Nowhere /\ Pos[d] = Nowhere
  BY PosIs DEF CloneCursor
<1>6. QED
  BY <1>2, <1>3, <1>4, <1>5, LogStep

LEMMA DropStep ==
  ASSUME IInv, NEW c \in Cursors, DropCursor(c)
  PROVE  IInv' /\ Simulates
<1>1. Shape
  BY DEF IInv
<1>2. Moves(c, NoCursor, "idle", call[c]) /\ pc[c] # "close"
  BY <1>1 DEF DropCursor, Moves, Shape
<1>3. got' = [got EXCEPT ![c] = Nothing] /\ got' \in [Cursors -> 0 .. MaxOps]
  BY <1>1 DEF DropCursor, Nothing, Shape
<1>4. Place(NoCursor) /\ LogPos(NoCursor) = Nowhere
  BY DEF Place, NoCursor, LogPos, NoBlock
<1>5. IInv'
  BY <1>1, <1>2, <1>3, <1>4, MoveStep DEF Shape
<1>6. Pos' = [Pos EXCEPT ![c] = Nowhere] /\ pushed' = pushed /\ Pos[c] # Nowhere
  <2>1. Pos' = [Pos EXCEPT ![c] = LogPos(NoCursor)]
    BY <1>1, <1>2, MovePos
  <2>2. QED
    BY <1>2, <1>4, <2>1, PosIs DEF Moves, DropCursor
<1>7. QED
  BY <1>3, <1>5, <1>6, LogStep

(* get and advance return: c is before operation p + 1 of block b, which is *)
(* the next one of the log.                                                *)
LEMMA ReturnStep ==
  ASSUME IInv, NEW c \in Cursors, Exists(c), pc[c] # "close",
         NEW what \in {"get", "advance"}, NEW b \in BlockIds, NEW p \in Nat, p < Len(ops(b)),
         UNCHANGED <<writer, last_block, blocks, flushed, pushed>>,
         Return(c, what, b, p),
         Place([block |-> b, pos |-> p]), LogPos([block |-> b, pos |-> p]) = Pos[c]
  PROVE  IInv' /\ Simulates
<1> DEFINE q == IF what = "advance" THEN p + 1 ELSE p
           k == [block |-> b, pos |-> q]
<1>1. Shape /\ Numbered
  BY DEF IInv
<1>2. /\ Len(ops(b)) \in Nat /\ b \in Nat /\ b # NoBlock /\ blocks[b].base \in Nat
      /\ blocks[b].base + Len(ops(b)) =< Flushed
      /\ Flushed =< pushed /\ pushed \in Nat /\ pushed =< MaxOps /\ Flushed \in Int
  <2>1. Len(ops(b)) \in Nat /\ b \in Nat /\ b # NoBlock /\ blocks[b].base \in Nat
    BY <1>1, BlockFacts DEF NoBlock
  <2>2. Flushed =< pushed /\ pushed \in Nat /\ pushed =< MaxOps /\ Flushed \in Int
    BY <1>1, BlockFacts DEF Flushed, Shape
  <2>3. QED
    BY <1>1, <2>1, <2>2 DEF Numbered
<1>3. Pos[c] = blocks[b].base + p /\ Pos[c] \in Nat /\ Pos[c] < pushed /\ Pos[c] # Nowhere
  BY <1>2 DEF LogPos
<1>4. ops(b)[p + 1] = Pos[c] + 1
  <2>1. p + 1 \in 1 .. Len(ops(b))
    BY <1>2
  <2>2. ops(b)[p + 1] = blocks[b].base + (p + 1)
    BY <1>1, <2>1 DEF Numbered
  <2>3. blocks[b].base + (p + 1) = Pos[c] + 1
    BY <1>2, <1>3
  <2>4. QED
    BY <2>2, <2>3
<1>5. Moves(c, k, "idle", "none")
  BY DEF Moves, Return, Goto
<1>6. Place(k)
  BY <1>2 DEF Place
<1>7. got' = IF what = "get" THEN [got EXCEPT ![c] = Pos[c] + 1] ELSE got
  BY <1>4 DEF Return
<1>8. got' \in [Cursors -> 0 .. MaxOps]
  <2>1. Pos[c] + 1 \in 0 .. MaxOps
    BY <1>2, <1>3, SMTT(30)
  <2>2. QED
    BY <1>1, <1>7, <2>1 DEF Shape
<1>9. LogPos(k) = IF what = "advance" THEN Pos[c] + 1 ELSE Pos[c]
  <2>1. LogPos(k) = blocks[b].base + q
    BY <1>2 DEF LogPos
  <2>2. blocks[b].base + q = IF what = "advance" THEN Pos[c] + 1 ELSE Pos[c]
    BY <1>2, <1>3
  <2>3. QED
    BY <2>1, <2>2
<1> HIDE DEF k
<1>10. IInv'
  BY <1>5, <1>6, <1>8, MoveStep
<1>11. Pos' = [Pos EXCEPT ![c] = LogPos(k)]
  BY <1>1, <1>5, MovePos
<1>12. [Pos EXCEPT ![c] = Pos[c]] = Pos
  BY DEF Pos
<1>13. CASE what = "get"
  BY <1>3, <1>7, <1>9, <1>10, <1>11, <1>12, <1>13, LogStep
<1>14. CASE what = "advance"
  BY <1>3, <1>7, <1>9, <1>10, <1>11, <1>14, LogStep
<1>15. QED
  BY <1>13, <1>14

\* A cursor at the end of its block goes over to the block it is linked to.
LEMMA NextPlace ==
  ASSUME IInv, NEW c \in Cursors, Exists(c), cursor[c].pos = Len(ops(cursor[c].block)),
         blocks[cursor[c].block].next # NoBlock
  PROVE  LET b == blocks[cursor[c].block].next
         IN /\ b \in BlockIds /\ 0 < Len(ops(b))
            /\ Place([block |-> b, pos |-> 0]) /\ LogPos([block |-> b, pos |-> 0]) = Pos[c]
<1> DEFINE a == cursor[c].block
           b == blocks[a].next
<1>1. Shape /\ Numbered /\ Linked /\ Placed /\ Connected
  BY DEF IInv
<1>2. a \in BlockIds /\ b = a + 1 /\ b \in BlockIds /\ ops(b) # <<>>
  BY <1>1 DEF Placed, Linked
<1>3. a \in Nat /\ b \in Nat /\ a # Len(blocks) /\ b # NoBlock
  BY <1>1, <1>2, BlockFacts DEF BlockIds, NoBlock
<1>4. ops(b) \in Seq(Nat) /\ Len(ops(b)) \in Nat /\ blocks[b].base \in Nat
  BY <1>1, <1>2, BlockFacts
<1>5. 0 < Len(ops(b))
  BY <1>2, <1>4
<1>6. blocks[b].base = blocks[a].base + Len(ops(a))
  BY <1>1, <1>2, <1>3 DEF Numbered
<1>7. Pos[c] = blocks[a].base + cursor[c].pos
  BY PosIs DEF LogPos, Exists
<1>8. Place([block |-> b, pos |-> 0])
  <2> SUFFICES ASSUME NEW x \in BlockIds, b =< x, x < Len(blocks)
               PROVE  blocks[x].next = x + 1 \/ NextLocked(x)
    BY <1>2, <1>3, <1>4 DEF Place
  <2>1. a =< x
    BY <1>1, <1>2, <1>3, BlockFacts
  <2>2. QED
    BY <1>1, <2>1 DEF Connected
<1>9. LogPos([block |-> b, pos |-> 0]) = Pos[c]
  BY <1>3, <1>4, <1>6, <1>7 DEF LogPos
<1>10. QED
  BY <1>2, <1>5, <1>8, <1>9

LEMMA ReadStep ==
  ASSUME IInv, NEW c \in Cursors, Read(c)
  PROVE  IInv' /\ Simulates
<1>1. Shape /\ Placed
  BY DEF IInv
<1>2. /\ Exists(c) /\ pc[c] # "close" /\ cursor[c].block \in BlockIds
      /\ cursor[c].pos \in Nat /\ cursor[c].pos =< Len(ops(cursor[c].block))
      /\ cursor[c] = [block |-> cursor[c].block, pos |-> cursor[c].pos]
      /\ Len(ops(cursor[c].block)) \in Nat
  BY <1>1, BlockFacts DEF Read, Placed, Shape
<1>3. PICK what \in {"get", "advance"} :
        IF MustLoad(c)
        THEN Goto(c, "next", what) /\ UNCHANGED <<cursor, got>>
        ELSE Return(c, what, cursor[c].block, cursor[c].pos)
  BY DEF Read
<1>4. UNCHANGED <<writer, last_block, blocks, flushed, pushed>>
  BY DEF Read
<1>5. CASE MustLoad(c)
  <2>1. Moves(c, cursor[c], "next", what) /\ got' = got /\ cursor' = cursor
    BY <1>3, <1>4, <1>5, OwnPlace DEF Goto, Moves
  <2>2. cursor[c].pos = Len(ops(cursor[c].block))
    BY <1>2, <1>5 DEF MustLoad
  <2>3. IInv'
    BY <1>1, <1>2, <2>1, <2>2, OwnPlace, MoveStep DEF Shape, Exists
  <2>4. Pos' = Pos
    BY <1>4, <2>1 DEF Pos, LogPos
  <2>5. QED
    BY <1>4, <2>1, <2>3, <2>4, LogStep
<1>6. CASE ~MustLoad(c)
  <2>1. cursor[c].pos < Len(ops(cursor[c].block))
    BY <1>2, <1>6 DEF MustLoad
  <2>2. QED
    BY <1>2, <1>3, <1>4, <1>6, <2>1, OwnPlace, PosIs, ReturnStep
<1>7. QED
  BY <1>5, <1>6

\* What a thread that loads the next block starts from.
LEMMA Loading ==
  ASSUME IInv, NEW c \in Cursors, pc[c] \in {"next", "slow", "close"}
  PROVE  /\ Exists(c) /\ call[c] \in {"get", "advance"} /\ cursor[c].block \in BlockIds
         /\ cursor[c].pos = Len(ops(cursor[c].block))
  BY DEF IInv, Placed

LEMMA NextFastStep ==
  ASSUME IInv, NEW c \in Cursors, NextFast(c)
  PROVE  IInv' /\ Simulates
<1>1. /\ Exists(c) /\ call[c] \in {"get", "advance"} /\ pc[c] # "close"
      /\ cursor[c].pos = Len(ops(cursor[c].block))
  BY Loading DEF NextFast
<1>2. UNCHANGED <<writer, last_block, blocks, flushed, pushed>>
  BY DEF NextFast
<1>3. CASE blocks[cursor[c].block].next # NoBlock
  BY <1>1, <1>2, <1>3, NextPlace, ReturnStep DEF NextFast
<1>4. CASE blocks[cursor[c].block].next = NoBlock
  <2>1. Moves(c, cursor[c], "slow", call[c]) /\ got' = got /\ cursor' = cursor
    BY <1>2, <1>4, OwnPlace DEF NextFast, Goto, Moves
  <2>2. IInv'
    BY <1>1, <2>1, OwnPlace, MoveStep DEF IInv, Shape, Exists
  <2>3. Pos' = Pos
    BY <1>2, <2>1 DEF Pos, LogPos
  <2>4. QED
    BY <1>2, <2>1, <2>2, <2>3, LogStep
<1>5. QED
  BY <1>3, <1>4

-----------------------------------------------------------------------------
(* Steps that make a block, with the pending operations or with none.      *)
Grows(x) ==
  /\ blocks' = Append(blocks, NewBlock(x))
  /\ last_block' = Len(blocks) + 1
  /\ pushed' = pushed
  /\ (x = <<>> /\ writer' = writer) \/ (x = writer /\ writer' = <<>>)

LEMMA GrowFacts ==
  ASSUME Shape, Numbered, NEW x, Grows(x)
  PROVE  /\ blocks' \in Seq(Block) /\ writer' \in Seq(Nat)
         /\ Len(blocks') = Len(blocks) + 1 /\ Len(blocks) \in Nat
         /\ \A b \in BlockIds : blocks'[b] = blocks[b] /\ ops(b)' = ops(b) /\ b \in BlockIds'
         /\ Len(blocks) + 1 \in BlockIds'
         /\ \A b \in BlockIds' : b \in BlockIds \/ b = Len(blocks) + 1
         /\ blocks'[Len(blocks) + 1] = [operations |-> x, next |-> NoBlock, base |-> Flushed]
         /\ \A b : b = Len(blocks) + 1 => ops(b)' = x
         /\ x \in Seq(Nat) /\ Len(x) \in Nat
         /\ Flushed \in Nat /\ Flushed' = Flushed + Len(x)
<1>1. x \in Seq(Nat) /\ writer \in Seq(Nat) /\ writer' \in Seq(Nat) /\ Len(x) \in Nat
  <2>1. writer \in Seq(Nat) /\ <<>> \in Seq(Nat)
    BY DEF Shape
  <2>2. x \in Seq(Nat) /\ writer' \in Seq(Nat)
    BY <2>1 DEF Grows
  <2>3. QED
    BY <2>1, <2>2
<1>2. Len(writer) \in Nat /\ pushed \in Nat /\ Len(writer) =< pushed
  BY DEF Shape, Numbered
<1>3. Flushed \in Nat
  BY <1>2 DEF Flushed
<1>4. NewBlock(x) = [operations |-> x, next |-> NoBlock, base |-> Flushed] /\ NewBlock(x) \in Block
  BY <1>1, <1>3 DEF NewBlock, Block, NoBlock
<1>5. /\ blocks' \in Seq(Block) /\ Len(blocks') = Len(blocks) + 1 /\ Len(blocks) \in Nat
      /\ \A b \in 1 .. Len(blocks) : blocks'[b] = blocks[b]
      /\ blocks'[Len(blocks) + 1] = NewBlock(x)
  BY <1>4, AppendFacts DEF Shape, Grows
<1>6. BlockIds = 1 .. Len(blocks) /\ BlockIds' = 1 .. Len(blocks) + 1
  BY <1>5 DEF BlockIds
<1>7. \A b : ops(b)' = blocks'[b].operations
  BY DEF ops
<1>8. \A b : b = Len(blocks) + 1 => ops(b)' = x
  BY <1>4, <1>5, <1>7
<1>9. Flushed' = Flushed + Len(x)
  <2>1. CASE x = <<>> /\ writer' = writer
    BY <1>2, <2>1 DEF Flushed, Grows
  <2>2. CASE x = writer /\ writer' = <<>>
    BY <1>2, <2>2 DEF Flushed, Grows
  <2>3. QED
    BY <2>1, <2>2 DEF Grows
<1>10. \A b \in BlockIds : ops(b)' = ops(b)
  BY <1>5, <1>6, <1>7 DEF ops
<1>11. /\ \A b \in BlockIds : b \in BlockIds' /\ blocks'[b] = blocks[b]
       /\ Len(blocks) + 1 \in BlockIds'
       /\ \A b \in BlockIds' : b \in BlockIds \/ b = Len(blocks) + 1
  BY <1>5, <1>6
<1>12. blocks'[Len(blocks) + 1] = [operations |-> x, next |-> NoBlock, base |-> Flushed]
  BY <1>4, <1>5
<1>13. QED
  BY <1>1, <1>3, <1>5, <1>8, <1>9, <1>10, <1>11, <1>12, Zenon

LEMMA GrowNumbers ==
  ASSUME Shape, Numbered, Linked, NEW x, Grows(x)
  PROVE  Numbered' /\ Linked'
<1> DEFINE n == Len(blocks)
<1>1. /\ Len(blocks') = n + 1 /\ n \in Nat
      /\ \A b \in BlockIds : blocks'[b] = blocks[b] /\ ops(b)' = ops(b) /\ b \in BlockIds'
      /\ \A b \in BlockIds' : b \in BlockIds \/ b = n + 1
      /\ blocks'[n + 1] = [operations |-> x, next |-> NoBlock, base |-> Flushed]
      /\ \A b : b = n + 1 => ops(b)' = x
      /\ x \in Seq(Nat) /\ Len(x) \in Nat
      /\ Flushed \in Nat /\ Flushed' = Flushed + Len(x)
  BY GrowFacts
<1>2. /\ Len(writer) \in Nat
      /\ \A b \in BlockIds : b \in Nat /\ b > 0 /\ b =< n /\ blocks[b].base \in Nat /\ Len(ops(b)) \in Nat
  <2>1. \A b \in BlockIds : b =< n
    BY <1>1 DEF BlockIds
  <2>2. QED
    BY <2>1, BlockFacts
<1>3. \A i \in 1 .. Len(x) : x[i] = Flushed + i
  BY <1>1 DEF Grows, Numbered
<1>4. Len(writer') =< pushed' /\ \A i \in 1 .. Len(writer') : writer'[i] = Flushed' + i
  <2>1. CASE x = <<>> /\ writer' = writer
    BY <1>1, <1>2, <2>1 DEF Grows, Numbered
  <2>2. CASE x = writer /\ writer' = <<>>
    BY <1>2, <2>2 DEF Grows, Numbered, Shape
  <2>3. QED
    BY <2>1, <2>2 DEF Grows
<1>5. ASSUME NEW b \in BlockIds'
      PROVE  /\ \A i \in 1 .. Len(ops(b)') : ops(b)'[i] = blocks'[b].base + i
             /\ b = Len(blocks') => blocks'[b].base + Len(ops(b)') = Flushed'
             /\ b # Len(blocks') => blocks'[b].base + Len(ops(b)') = blocks'[b + 1].base
             /\ blocks'[b].base + Len(ops(b)') =< Flushed'
  <2>1. CASE b = n + 1
    BY <1>1, <1>2, <1>3, <2>1
  <2>2. CASE b \in BlockIds
    <3>1. blocks'[b] = blocks[b] /\ ops(b)' = ops(b) /\ b # Len(blocks')
      BY <1>1, <1>2, <2>2
    <3>2. /\ \A i \in 1 .. Len(ops(b)) : ops(b)[i] = blocks[b].base + i
          /\ blocks[b].base + Len(ops(b)) =< Flushed
      BY <2>2 DEF Numbered
    <3>3. blocks'[b].base + Len(ops(b)') = blocks'[b + 1].base
      <4>1. CASE b = n
        BY <1>1, <2>2, <3>1, <4>1 DEF Numbered
      <4>2. CASE b # n
        <5>1. b + 1 \in BlockIds
          BY <1>1, <1>2, <2>2, <4>2 DEF BlockIds
        <5>2. QED
          BY <1>1, <2>2, <3>1, <4>2, <5>1 DEF Numbered
      <4>3. QED
        BY <4>1, <4>2
    <3>4. QED
      BY <1>1, <1>2, <2>2, <3>1, <3>2, <3>3
  <2>3. QED
    BY <1>1, <2>1, <2>2
<1>6. Numbered'
  BY <1>4, <1>5 DEF Numbered
<1>7. Linked'
  BY <1>1 DEF Linked
<1>8. QED
  BY <1>6, <1>7

LEMMA LastSlowStep ==
  ASSUME IInv, NEW c \in Cursors, LastSlow(c)
  PROVE  IInv' /\ Simulates
<1>1. Shape /\ Numbered /\ Linked /\ Placed /\ Closing /\ Connected
  BY DEF IInv
<1>2. ~Exists(c) /\ Pos[c] = Nowhere /\ pc[c] # "close"
  BY <1>1, PosIs DEF LastSlow, Placed
<1>3. CASE Upgradable(last_block)
  <2> DEFINE k == [block |-> last_block, pos |-> Len(ops(last_block))]
  <2>1. Moves(c, k, "idle", "none") /\ got' = got
    BY <1>3 DEF LastSlow, AtEndOf, Goto, Moves
  <2>2. Place(k) /\ LogPos(k) \in 0 .. pushed
    BY <1>3, EndPlace DEF Upgradable
  <2> HIDE DEF k
  <2>3. IInv'
    BY <1>1, <1>2, <2>1, <2>2, MoveStep DEF Shape
  <2>4. Pos' = [Pos EXCEPT ![c] = LogPos(k)] /\ pushed' = pushed
    BY <1>1, <2>1, MovePos DEF Moves
  <2>5. QED
    BY <1>2, <2>1, <2>2, <2>3, <2>4, LogStep
<1>4. CASE ~Upgradable(last_block)
  <2> DEFINE n == Len(blocks)
  <2>1. \A d \in Cursors : ~Exists(d) /\ pc[d] \notin {"next", "slow", "close"} /\ flushed[d] = NoBlock
    BY <1>1, <1>4, LastUpgradable DEF Placed, Closing
  <2>2. /\ Grows(<<>>) /\ pushed' = pushed /\ got' = got /\ flushed' = flushed
        /\ cursor' = [cursor EXCEPT ![c] = [block |-> n + 1, pos |-> 0]]
        /\ pc' = [pc EXCEPT ![c] = "idle"] /\ call' = [call EXCEPT ![c] = "none"]
    BY <1>4 DEF LastSlow, Grows, Goto
  <2>3. /\ blocks' \in Seq(Block) /\ writer' \in Seq(Nat) /\ n \in Nat /\ Len(blocks') = n + 1
        /\ n + 1 \in BlockIds' /\ \A b \in BlockIds' : b \in BlockIds \/ b = n + 1
        /\ blocks'[n + 1] = [operations |-> <<>>, next |-> NoBlock, base |-> Flushed]
        /\ \A b : b = n + 1 => ops(b)' = <<>>
        /\ Flushed \in Nat
    BY <1>1, <2>2, GrowFacts
  <2>4. /\ cursor'[c] = [block |-> n + 1, pos |-> 0] /\ pc'[c] = "idle"
        /\ \A d \in Cursors : d # c => cursor'[d] = cursor[d] /\ pc'[d] = pc[d]
    BY <1>1, <2>2 DEF Shape
  <2>5. Shape'
    BY <1>1, <2>2, <2>3 DEF Shape, Grows
  <2>6. Numbered' /\ Linked'
    BY <1>1, <2>2, GrowNumbers
  <2>7. Exists(c)' /\ \A d \in Cursors : d # c => ~Exists(d)'
    <3>1. cursor'[c].block = n + 1 /\ n + 1 # NoBlock
      BY <2>3, <2>4 DEF NoBlock
    <3>2. \A d \in Cursors : d # c => cursor'[d].block = NoBlock
      BY <2>1, <2>4 DEF Exists
    <3>3. QED
      BY <3>1, <3>2 DEF Exists
  <2>8. Placed'
    BY <2>1, <2>3, <2>4, <2>7 DEF Placed
  <2>9. Closing'
    BY <2>1, <2>2, <2>4 DEF Closing
  <2>10. Connected'
    BY <2>3, <2>4, <2>7 DEF Connected, BlockIds
  <2>11. Pos' = [Pos EXCEPT ![c] = Flushed]
    <3>1. ASSUME NEW d \in Cursors PROVE Pos'[d] = [Pos EXCEPT ![c] = Flushed][d]
      <4>1. CASE d = c
        BY <2>3, <2>4, <4>1 DEF Pos, LogPos, NoBlock
      <4>2. CASE d # c
        BY <2>1, <2>4, <4>2 DEF Pos, LogPos, Exists
      <4>3. QED
        BY <4>1, <4>2
    <3>2. QED
      BY <3>1 DEF Pos
  <2>12. Flushed \in 0 .. pushed
    BY <1>1, <2>3, BlockFacts DEF Flushed, Shape
  <2>13. QED
    BY <1>2, <2>2, <2>5, <2>6, <2>8, <2>9, <2>10, <2>11, <2>12, LogStep DEF IInv
<1>5. QED
  BY <1>3, <1>4

LEMMA PushStep ==
  ASSUME IInv, Push
  PROVE  IInv' /\ Simulates
<1>1. Shape /\ Numbered /\ Linked /\ Placed /\ Closing /\ Connected
  BY DEF IInv
<1>2. /\ pushed < MaxOps /\ pushed' = pushed + 1 /\ writer' = Append(writer, pushed + 1)
      /\ UNCHANGED <<last_block, blocks, cursor, pc, call, flushed, got>>
  BY DEF Push
<1>3. pushed \in Nat /\ Len(writer) \in Nat
  BY <1>1, BlockFacts DEF Shape
<1>4. /\ writer' \in Seq(Nat) /\ Len(writer') = Len(writer) + 1
      /\ \A i \in 1 .. Len(writer) : writer'[i] = writer[i]
      /\ writer'[Len(writer) + 1] = pushed + 1
  BY <1>1, <1>2, <1>3, AppendFacts DEF Shape
<1>5. Shape'
  BY <1>1, <1>2, <1>3, <1>4 DEF Shape
<1>6. Flushed' = Flushed /\ Flushed \in Int /\ pushed = Flushed + Len(writer)
  BY <1>2, <1>3, <1>4 DEF Flushed
<1>7. Numbered'
  <2>1. Len(writer') =< pushed' /\ \A i \in 1 .. Len(writer') : writer'[i] = Flushed' + i
    BY <1>1, <1>2, <1>3, <1>4, <1>6 DEF Numbered
  <2>2. BlockIds' = BlockIds /\ blocks' = blocks /\ \A b : ops(b)' = ops(b)
    BY <1>2 DEF BlockIds, ops
  <2>3. QED
    BY <1>1, <1>6, <2>1, <2>2 DEF Numbered
<1>8. Linked' /\ Placed' /\ Closing' /\ Connected'
  BY <1>1, <1>2 DEF Linked, Placed, Closing, Connected, BlockIds, ops, Exists, NextLocked
<1>9. Pos' = Pos
  BY <1>2 DEF Pos, LogPos
<1>10. QED
  BY <1>2, <1>5, <1>7, <1>8, <1>9, LogStep DEF IInv

(* next_block under the write lock, with something to flush.                *)
LEMMA FlushStep ==
  ASSUME IInv, NEW c \in Cursors, pc[c] = "slow", ~NextLocked(cursor[c].block),
         ~ClosedMeanwhile(c), Flush(c), Goto(c, "close", call[c]), UNCHANGED <<cursor, got, pushed>>
  PROVE  IInv' /\ Simulates
<1> DEFINE n == Len(blocks)
<1>1. Shape /\ Numbered /\ Linked /\ Placed /\ Closing /\ Connected
  BY DEF IInv
<1>2. Exists(c) /\ call[c] \in {"get", "advance"} /\ cursor[c].pos = Len(ops(cursor[c].block))
  BY Loading
<1>3. cursor[c].block = n /\ blocks[n].next = NoBlock /\ n \in BlockIds
  BY <1>1, <1>2, OpenIsLast, Loading DEF ClosedMeanwhile
<1>4. Grows(writer) /\ writer # <<>>
  BY DEF Grows, Flush
<1>5. /\ blocks' \in Seq(Block) /\ writer' \in Seq(Nat) /\ n \in Nat /\ Len(blocks') = n + 1
      /\ n + 1 \in BlockIds' /\ \A b \in BlockIds' : b \in BlockIds \/ b = n + 1
      /\ \A b \in BlockIds : blocks'[b] = blocks[b] /\ ops(b)' = ops(b) /\ b \in BlockIds'
      /\ \A b : b = n + 1 => ops(b)' = writer
  BY <1>1, <1>4, GrowFacts
<1>6. /\ pc'[c] = "close" /\ flushed'[c] = n + 1 /\ call' = call /\ cursor' = cursor
      /\ \A d \in Cursors : d # c => pc'[d] = pc[d] /\ flushed'[d] = flushed[d]
  BY <1>1 DEF Shape, Flush, Goto
<1>7. Shape'
  BY <1>1, <1>4, <1>5, <1>6, SMTT(30) DEF Shape, Flush, Goto, Grows
<1>8. Numbered' /\ Linked'
  BY <1>1, <1>4, GrowNumbers
<1>9. Placed'
  <2> SUFFICES ASSUME NEW d \in Cursors
               PROVE  /\ Exists(d)' => /\ cursor'[d].block \in BlockIds'
                                       /\ cursor'[d].pos =< Len(ops(cursor[d].block)')
                      /\ pc'[d] \in {"next", "slow", "close"} =>
                           /\ Exists(d)' /\ call'[d] \in {"get", "advance"}
                           /\ cursor'[d].pos = Len(ops(cursor[d].block)')
                      /\ pc'[d] = "last_slow" => ~Exists(d)'
    BY <1>6 DEF Placed, ops
  <2>1. Exists(d)' = Exists(d) /\ cursor'[d] = cursor[d]
    BY <1>6 DEF Exists
  <2>2. Exists(d) => cursor[d].block \in BlockIds
    BY <1>1 DEF Placed
  <2>3. Exists(d) => ops(cursor[d].block)' = ops(cursor[d].block)
    BY <1>5, <1>6, <2>2 DEF ops
  <2>4. CASE d = c
    BY <1>2, <1>3, <1>5, <1>6, <2>1, <2>2, <2>3, <2>4, <1>1 DEF Placed
  <2>5. CASE d # c
    BY <1>1, <1>5, <1>6, <2>1, <2>2, <2>3, <2>5 DEF Placed
  <2>6. QED
    BY <2>4, <2>5
<1>10. Closing'
  <2> SUFFICES ASSUME NEW d \in Cursors
               PROVE  /\ pc'[d] # "close" => flushed'[d] = NoBlock
                      /\ pc'[d] = "close" =>
                           LET b == cursor[d].block
                           IN /\ flushed'[d] = b + 1 /\ b + 1 \in BlockIds' /\ ops(b + 1)' # <<>>
                              /\ blocks'[b].next = NoBlock
                              /\ \A e \in Cursors : pc'[e] = "close" /\ cursor[e].block = b => e = d
    BY <1>6 DEF Closing, ops
  <2>1. CASE d = c
    <3>1. \A e \in Cursors : pc'[e] = "close" /\ cursor[e].block = n => e = c
      BY <1>3, <1>6 DEF NextLocked
    <3>2. ops(cursor[c].block + 1)' # <<>>
      BY <1>3, <1>4, <1>5, <1>6 DEF ops
    <3>3. QED
      BY <1>3, <1>5, <1>6, <2>1, <3>1, <3>2
  <2>2. CASE d # c /\ pc[d] = "close"
    <3> DEFINE b == cursor[d].block
    <3>1. /\ flushed[d] = b + 1 /\ b + 1 \in BlockIds /\ ops(b + 1) # <<>> /\ blocks[b].next = NoBlock
          /\ \A e \in Cursors : pc[e] = "close" /\ cursor[e].block = b => e = d
      BY <1>1, <2>2 DEF Closing
    <3>2. b \in BlockIds
      BY <2>2, Loading
    <3>3. ops(b + 1)' = ops(b + 1)
      BY <1>5, <1>6, <3>1 DEF ops
    <3>4. cursor[c].block # b
      BY <2>2 DEF NextLocked
    <3>5. QED
      BY <1>5, <1>6, <2>2, <3>1, <3>2, <3>3, <3>4
  <2>3. CASE d # c /\ pc[d] # "close"
    BY <1>1, <1>6, <2>3 DEF Closing
  <2>4. QED
    BY <2>1, <2>2, <2>3
<1>11. Connected'
  <2> SUFFICES ASSUME NEW d \in Cursors, Exists(d), NEW b \in BlockIds', cursor[d].block =< b, b < n + 1
               PROVE  blocks'[b].next = b + 1 \/ NextLocked(b)'
    BY <1>5, <1>6 DEF Connected, Exists
  <2>1. b \in BlockIds
    BY <1>5
  <2>2. NextLocked(b) => NextLocked(b)'
    BY <1>6 DEF NextLocked
  <2>3. CASE b = n
    BY <1>3, <1>6, <2>3 DEF NextLocked
  <2>4. CASE b < n
    BY <1>1, <1>5, <2>1, <2>2, <2>4 DEF Connected
  <2>5. QED
    BY <1>1, <1>5, <2>1, <2>3, <2>4, BlockFacts
<1>12. Pos' = Pos
  <2>1. ASSUME NEW d \in Cursors, Exists(d) PROVE blocks'[cursor[d].block] = blocks[cursor[d].block]
    BY <1>1, <1>5, <2>1 DEF Placed
  <2>2. QED
    BY <1>6, <2>1 DEF Pos, LogPos, Exists
<1>13. QED
  BY <1>7, <1>8, <1>9, <1>10, <1>11, <1>12, LogStep DEF IInv

LEMMA NextSlowStep ==
  ASSUME IInv, NEW c \in Cursors, NextSlow(c)
  PROVE  IInv' /\ Simulates
<1>1. /\ Exists(c) /\ call[c] \in {"get", "advance"} /\ pc[c] # "close" /\ pc[c] = "slow"
      /\ cursor[c].pos = Len(ops(cursor[c].block)) /\ ~NextLocked(cursor[c].block)
      /\ pushed' = pushed
  BY Loading DEF NextSlow
<1>2. CASE ClosedMeanwhile(c)
  <2>1. /\ Return(c, call[c], blocks[cursor[c].block].next, 0)
        /\ UNCHANGED <<writer, last_block, blocks, flushed>>
    BY <1>2 DEF NextSlow
  <2>2. QED
    BY <1>1, <1>2, <2>1, NextPlace, ReturnStep DEF ClosedMeanwhile
<1>3. CASE ~ClosedMeanwhile(c) /\ writer # <<>>
  BY <1>1, <1>3, FlushStep DEF NextSlow, ReachedEnd
<1>4. CASE ~ClosedMeanwhile(c) /\ writer = <<>>
  <2>1. ReachedEnd(c) /\ cursor' = cursor
    BY <1>4 DEF NextSlow, Flush
  <2>2. Shape /\ Numbered
    BY DEF IInv
  <2>3. Moves(c, cursor[c], "idle", "none") /\ UNCHANGED blocks
    BY <1>1, <2>1, OwnPlace DEF ReachedEnd, Goto, Moves
  <2>4. got' = IF call[c] = "get" THEN [got EXCEPT ![c] = Nothing] ELSE got
    BY <2>1 DEF ReachedEnd
  <2>5. IInv'
    BY <1>1, <2>2, <2>3, <2>4, OwnPlace, MoveStep DEF Shape, Nothing
  <2>6. cursor[c].block = Len(blocks) /\ Len(blocks) \in BlockIds
    BY <1>1, <1>4, OpenIsLast, Loading DEF ClosedMeanwhile
  <2>7. Flushed = pushed /\ blocks[Len(blocks)].base + Len(ops(Len(blocks))) = Flushed
    BY <1>4, <2>2, <2>6 DEF Numbered, Flushed, Shape
  <2>8. Pos[c] = pushed /\ Pos[c] # Nowhere /\ pushed \in Nat
    BY <1>1, <2>2, <2>6, <2>7, PosIs DEF LogPos, Exists, Shape
  <2>9. Pos' = Pos
    BY <2>1, <2>3 DEF Pos, LogPos
  <2>10. CASE call[c] = "get"
    <3>1. ~ (Pos[c] < pushed)
      BY <2>8
    <3>2. got' = [got EXCEPT ![c] = Nothing]
      BY <2>4, <2>10
    <3>3. got' = [got EXCEPT ![c] = IF Pos[c] < pushed THEN Pos[c] + 1 ELSE Nothing]
      BY <3>1, <3>2
    <3>4. QED
      BY <1>1, <2>5, <2>8, <2>9, <3>3, LogStep
  <2>11. CASE call[c] # "get"
    BY <1>1, <2>4, <2>5, <2>9, <2>11, LogStep
  <2>12. QED
    BY <2>10, <2>11
<1>5. QED
  BY <1>2, <1>3, <1>4

LEMMA LinkFacts ==
  ASSUME Shape, NEW a \in BlockIds, NEW f \in Nat, blocks' = [blocks EXCEPT ![a].next = f]
  PROVE  /\ blocks' \in Seq(Block) /\ Len(blocks') = Len(blocks) /\ BlockIds' = BlockIds
         /\ \A b \in BlockIds : ops(b)' = ops(b) /\ blocks'[b].base = blocks[b].base
         /\ blocks'[a].next = f
         /\ \A b \in BlockIds : b # a => blocks'[b].next = blocks[b].next
<1>1. blocks \in Seq(Block) /\ Len(blocks) \in Nat /\ BlockIds = 1 .. Len(blocks)
  BY BlockFacts DEF Shape, BlockIds
<1>2. blocks[a] \in Block
  BY BlockFacts
<1>3. [blocks[a] EXCEPT !.next = f] \in Block
  BY <1>2 DEF Block
<1>4. blocks' = [blocks EXCEPT ![a] = [blocks[a] EXCEPT !.next = f]]
  OBVIOUS
<1>5. blocks' \in Seq(Block) /\ Len(blocks') = Len(blocks)
  BY <1>1, <1>3, <1>4
<1>6. BlockIds' = BlockIds
  BY <1>5 DEF BlockIds
<1>7. blocks'[a] = [blocks[a] EXCEPT !.next = f] /\ \A b \in BlockIds : b # a => blocks'[b] = blocks[b]
  BY <1>1, <1>4
<1>8. QED
  BY <1>2, <1>5, <1>6, <1>7, SMTT(30) DEF ops, Block

LEMMA CloseStep ==
  ASSUME IInv, NEW c \in Cursors, CloseBlock(c)
  PROVE  IInv' /\ Simulates
<1> DEFINE a == cursor[c].block
           f == flushed[c]
           q == IF call[c] = "advance" THEN 1 ELSE 0
<1>1. Shape /\ Numbered /\ Linked /\ Placed /\ Closing /\ Connected
  BY DEF IInv
<1>2. /\ pc[c] = "close" /\ Exists(c) /\ call[c] \in {"get", "advance"} /\ a \in BlockIds
      /\ cursor[c].pos = Len(ops(a))
  BY Loading DEF CloseBlock
<1>3. /\ f = a + 1 /\ f \in BlockIds /\ ops(f) # <<>>
      /\ blocks[a].next = NoBlock
      /\ \A d \in Cursors : pc[d] = "close" /\ cursor[d].block = a => d = c
  BY <1>1, <1>2 DEF Closing
<1>4. /\ a \in Nat /\ f \in Nat /\ a > 0 /\ a # Len(blocks) /\ ops(f) \in Seq(Nat) /\ Len(ops(f)) \in Nat
      /\ f # NoBlock /\ blocks[f].base \in Nat
  BY <1>1, <1>2, <1>3, BlockFacts DEF BlockIds, NoBlock
<1>5. 0 < Len(ops(f))
  BY <1>3, <1>4
<1>6. blocks' = [blocks EXCEPT ![a].next = f]
  BY DEF CloseBlock
<1>7. /\ blocks' \in Seq(Block) /\ Len(blocks') = Len(blocks) /\ BlockIds' = BlockIds
      /\ \A b \in BlockIds : ops(b)' = ops(b) /\ blocks'[b].base = blocks[b].base
      /\ blocks'[a].next = f
      /\ \A b \in BlockIds : b # a => blocks'[b].next = blocks[b].next
  BY <1>1, <1>2, <1>4, <1>6, LinkFacts
<1>8. /\ UNCHANGED <<writer, last_block, pushed>>
      /\ flushed' = [flushed EXCEPT ![c] = NoBlock]
      /\ cursor' = [cursor EXCEPT ![c] = [block |-> f, pos |-> q]]
      /\ pc' = [pc EXCEPT ![c] = "idle"] /\ call' = [call EXCEPT ![c] = "none"]
      /\ got' = IF call[c] = "get" THEN [got EXCEPT ![c] = ops(f)[1]] ELSE got
  BY DEF CloseBlock, Return, Goto
<1>9. /\ cursor'[c] = [block |-> f, pos |-> q] /\ pc'[c] = "idle" /\ flushed'[c] = NoBlock
      /\ \A d \in Cursors : d # c =>
            cursor'[d] = cursor[d] /\ pc'[d] = pc[d] /\ flushed'[d] = flushed[d] /\ call'[d] = call[d]
  BY <1>1, <1>8 DEF Shape
<1>10. /\ blocks[f].base = blocks[a].base + Len(ops(a)) /\ blocks[f].base + Len(ops(f)) =< Flushed
       /\ ops(f)[1] = blocks[f].base + 1 /\ Flushed' = Flushed /\ Flushed \in Int
       /\ Flushed =< pushed /\ pushed \in Nat /\ pushed =< MaxOps
  <2>1. Flushed' = Flushed /\ Flushed \in Int /\ Flushed =< pushed /\ pushed \in Nat /\ pushed =< MaxOps
    BY <1>1, <1>8, BlockFacts DEF Flushed, Shape
  <2>2. blocks[f].base = blocks[a].base + Len(ops(a))
    BY <1>1, <1>2, <1>3, <1>4 DEF Numbered
  <2>3. blocks[f].base + Len(ops(f)) =< Flushed
    BY <1>1, <1>3 DEF Numbered
  <2>4. 1 \in 1 .. Len(ops(f))
    BY <1>4, <1>5
  <2>5. ops(f)[1] = blocks[f].base + 1
    BY <1>1, <1>3, <2>4 DEF Numbered
  <2>6. QED
    BY <2>1, <2>2, <2>3, <2>5
<1>11. Pos[c] = blocks[f].base /\ Pos[c] \in Nat /\ Pos[c] < pushed /\ Pos[c] # Nowhere
  BY <1>2, <1>4, <1>5, <1>10, PosIs DEF LogPos, Exists
<1>12. Shape'
  <2>1. ops(f)[1] \in 0 .. MaxOps
    BY <1>4, <1>5, <1>10
  <2>2. [block |-> f, pos |-> q] \in [block : Nat, pos : Nat]
    BY <1>4
  <2>3. QED
    BY <1>1, <1>7, <1>8, <2>1, <2>2 DEF Shape, NoBlock
<1>13. Numbered'
  <2>1. \A b \in BlockIds : b # Len(blocks) => b + 1 \in BlockIds
    <3>1. Len(blocks) \in Nat
      BY <1>1, BlockFacts
    <3>2. QED
      BY <3>1 DEF BlockIds
  <2>2. Len(writer') =< pushed' /\ \A i \in 1 .. Len(writer') : writer'[i] = Flushed' + i
    BY <1>1, <1>8, <1>10 DEF Numbered
  <2>3. ASSUME NEW b \in BlockIds
        PROVE  /\ \A i \in 1 .. Len(ops(b)) : ops(b)[i] = blocks'[b].base + i
               /\ b = Len(blocks) => blocks'[b].base + Len(ops(b)) = Flushed
               /\ b # Len(blocks) => blocks'[b].base + Len(ops(b)) = blocks'[b + 1].base
               /\ blocks'[b].base + Len(ops(b)) =< Flushed
    BY <1>1, <1>7, <2>1 DEF Numbered
  <2>4. QED
    BY <1>7, <1>10, <2>2, <2>3 DEF Numbered
<1>14. Linked'
  <2> SUFFICES ASSUME NEW b \in BlockIds, blocks'[b].next # NoBlock
               PROVE  b + 1 \in BlockIds /\ blocks'[b].next = b + 1 /\ ops(b + 1)' # <<>>
    BY <1>7 DEF Linked
  <2>1. b + 1 \in BlockIds /\ blocks'[b].next = b + 1 /\ ops(b + 1) # <<>>
    BY <1>1, <1>3, <1>7 DEF Linked
  <2>2. QED
    BY <1>7, <2>1
<1>15. Placed'
  <2> SUFFICES ASSUME NEW d \in Cursors
               PROVE  /\ Exists(d)' => /\ cursor'[d].block \in BlockIds
                                       /\ cursor'[d].pos =< Len(ops(cursor[d].block)')
                      /\ pc'[d] \in {"next", "slow", "close"} =>
                           /\ Exists(d)' /\ call'[d] \in {"get", "advance"}
                           /\ cursor'[d].pos = Len(ops(cursor[d].block)')
                      /\ pc'[d] = "last_slow" => ~Exists(d)'
    BY <1>7 DEF Placed, ops
  <2>1. CASE d = c
    <3>1. Len(ops(cursor[c].block)') = Len(ops(f))
      BY <1>3, <1>7, <1>9 DEF ops
    <3>2. QED
      BY <1>3, <1>5, <1>4, <1>9, <2>1, <3>1
  <2>2. CASE d # c
    <3>1. cursor'[d] = cursor[d] /\ Exists(d)' = Exists(d)
      BY <1>9, <2>2 DEF Exists
    <3>2. Exists(d) => ops(cursor[d].block)' = ops(cursor[d].block)
      BY <1>1, <1>7, <3>1 DEF Placed, ops
    <3>3. QED
      BY <1>1, <1>9, <2>2, <3>1, <3>2 DEF Placed
  <2>3. QED
    BY <2>1, <2>2
<1>16. Closing'
  <2> SUFFICES ASSUME NEW d \in Cursors
               PROVE  /\ pc'[d] # "close" => flushed'[d] = NoBlock
                      /\ pc'[d] = "close" =>
                           LET b == cursor'[d].block
                           IN /\ flushed'[d] = b + 1 /\ b + 1 \in BlockIds /\ blocks'[b + 1].operations # <<>>
                              /\ blocks'[b].next = NoBlock
                              /\ \A e \in Cursors : pc'[e] = "close" /\ cursor'[e].block = b => e = d
    BY <1>7 DEF Closing, ops
  <2>1. CASE d = c
    BY <1>9, <2>1
  <2>2. CASE d # c /\ pc[d] # "close"
    BY <1>1, <1>9, <2>2 DEF Closing
  <2>3. CASE d # c /\ pc[d] = "close"
    <3> DEFINE b == cursor[d].block
    <3>1. /\ flushed[d] = b + 1 /\ b + 1 \in BlockIds /\ ops(b + 1) # <<>> /\ blocks[b].next = NoBlock
          /\ \A e \in Cursors : pc[e] = "close" /\ cursor[e].block = b => e = d
      BY <1>1, <2>3 DEF Closing
    <3>2. b \in BlockIds /\ b # a
      BY <1>2, <2>3, <1>3, Loading
    <3>3. blocks'[b + 1].operations = ops(b + 1)
      <4>1. \A x \in BlockIds : blocks'[x].operations = ops(x)
        BY <1>7 DEF ops
      <4>2. QED
        BY <3>1, <4>1
    <3>4. cursor'[d] = cursor[d] /\ pc'[d] = "close" /\ flushed'[d] = flushed[d]
      BY <1>9, <2>3
    <3>5. \A e \in Cursors : pc'[e] = "close" => pc[e] = "close" /\ cursor'[e] = cursor[e]
      BY <1>9
    <3>6. QED
      BY <1>7, <3>1, <3>2, <3>3, <3>4, <3>5
  <2>4. QED
    BY <2>1, <2>2, <2>3
<1>17. Connected'
  <2> SUFFICES ASSUME NEW d \in Cursors, Exists(d)', NEW b \in BlockIds, cursor'[d].block =< b, b < Len(blocks)
               PROVE  blocks'[b].next = b + 1 \/ NextLocked(b)'
    BY <1>7 DEF Connected
  <2>1. CASE b = a
    BY <1>3, <1>7, <2>1
  <2>2. CASE b # a
    <3>1. NextLocked(b) => NextLocked(b)'
      BY <1>9, <2>2 DEF NextLocked
    <3>2. blocks[b].next = b + 1 \/ NextLocked(b)
      <4>1. CASE d = c
        <5>1. a =< b
          BY <1>1, <1>3, <1>4, <1>9, <4>1, BlockFacts
        <5>2. QED
          BY <1>1, <1>2, <5>1 DEF Connected
      <4>2. CASE d # c
        BY <1>1, <1>9, <4>2 DEF Connected, Exists
      <4>3. QED
        BY <4>1, <4>2
    <3>3. QED
      BY <1>7, <2>2, <3>1, <3>2
  <2>3. QED
    BY <2>1, <2>2
<1>18. Pos' = [Pos EXCEPT ![c] = Pos[c] + q]
  <2>1. ASSUME NEW d \in Cursors PROVE Pos'[d] = [Pos EXCEPT ![c] = Pos[c] + q][d]
    <3>1. CASE d = c
      BY <1>3, <1>4, <1>7, <1>9, <1>11, <3>1, SMTT(30) DEF Pos, LogPos
    <3>2. CASE d # c
      <4>1. cursor'[d] = cursor[d] /\ (Exists(d) => cursor[d].block \in BlockIds)
        BY <1>1, <1>9, <3>2 DEF Placed
      <4>2. Exists(d) => blocks'[cursor[d].block].base = blocks[cursor[d].block].base
        BY <1>7, <4>1
      <4>3. QED
        BY <3>2, <4>1, <4>2 DEF Pos, LogPos, Exists
    <3>3. QED
      BY <3>1, <3>2
  <2>2. QED
    BY <2>1 DEF Pos
<1>19. [Pos EXCEPT ![c] = Pos[c]] = Pos
  BY DEF Pos
<1>20. CASE call[c] = "get"
  <2>1. Pos' = Pos /\ got' = [got EXCEPT ![c] = Pos[c] + 1]
    BY <1>8, <1>10, <1>11, <1>18, <1>19, <1>20
  <2>2. QED
    BY <1>8, <1>11, <1>12, <1>13, <1>14, <1>15, <1>16, <1>17, <2>1, LogStep DEF IInv
<1>21. CASE call[c] = "advance"
  <2>1. Pos' = [Pos EXCEPT ![c] = Pos[c] + 1] /\ got' = got
    BY <1>8, <1>18, <1>21
  <2>2. QED
    BY <1>8, <1>11, <1>12, <1>13, <1>14, <1>15, <1>16, <1>17, <2>1, LogStep DEF IInv
<1>22. QED
  BY <1>2, <1>20, <1>21

-----------------------------------------------------------------------------
LEMMA SeqWithin ==
  ASSUME NEW S, NEW s \in Seq(Nat), \A i \in 1 .. Len(s) : s[i] \in S
  PROVE  s \in Seq(S)
<1>1. Len(s) \in Nat /\ s \in [1 .. Len(s) -> S]
  OBVIOUS
<1>2. QED
  BY <1>1

LEMMA InitIInv == Init => IInv
  BY DEF Init, IInv, Shape, Numbered, Linked, Placed, Closing, Connected, BlockIds, Exists, NoCursor, NoBlock,
         Nothing, Flushed

LEMMA NextIInv ==
  ASSUME IInv, [Next]_vars
  PROVE  IInv' /\ Simulates
<1>1. CASE Push
  BY <1>1, PushStep
<1>2. ASSUME NEW c \in Cursors,
             Cursor(c) \/ LastSlow(c) \/ DropCursor(c) \/ Read(c) \/ NextFast(c) \/ NextSlow(c) \/ CloseBlock(c)
      PROVE  IInv' /\ Simulates
  BY <1>2, CursorStep, LastSlowStep, DropStep, ReadStep, NextFastStep, NextSlowStep, CloseStep
<1>3. ASSUME NEW c \in Cursors, NEW d \in Cursors, CloneCursor(c, d)
      PROVE  IInv' /\ Simulates
  BY <1>3, CloneStep
<1>4. CASE UNCHANGED vars
  <2>1. IInv'
    BY <1>4 DEF vars, IInv, Shape, Numbered, Linked, Placed, Closing, Connected, BlockIds, Exists, Flushed, ops,
                NextLocked
  <2>2. Pos' = Pos /\ pushed' = pushed /\ got' = got
    BY <1>4 DEF vars, Pos, LogPos
  <2>3. QED
    BY <2>1, <2>2, LogStep
<1>5. QED
  BY <1>1, <1>2, <1>3, <1>4 DEF Next

(* The invariant of the delete queue: its list in use has no gap and its   *)
(* operations are numbered through.                                        *)
THEOREM QueueInvariant == Spec => []IInv
<1>1. IInv /\ [Next]_vars => IInv'
  BY NextIInv
<1>2. QED
  BY InitIInv, <1>1, PTL DEF Spec

(* Type correctness of the delete queue.                                   *)
THEOREM QueueTypes == Spec => []TypeOK
<1>1. IInv => TypeOK
  <2> SUFFICES ASSUME IInv PROVE TypeOK
    OBVIOUS
  <2>1. Shape /\ Numbered /\ Linked /\ Placed /\ Closing
    BY DEF IInv
  <2>2. pushed \in Nat /\ pushed =< MaxOps /\ Flushed \in Int /\ Flushed =< pushed
    BY <2>1, BlockFacts DEF Shape, Flushed
  <2>3. writer \in Seq(1 .. MaxOps)
    <3>1. \A i \in 1 .. Len(writer) : writer[i] \in 1 .. MaxOps
      BY <2>1, <2>2, BlockFacts DEF Numbered, Flushed
    <3>2. QED
      BY <2>1, <3>1, SeqWithin DEF Shape
  <2>4. ASSUME NEW b \in BlockIds
        PROVE  ops(b) \in Seq(1 .. MaxOps) /\ blocks[b].next \in 0 .. Len(blocks) /\ blocks[b].base \in 0 .. MaxOps
    <3>1. /\ ops(b) \in Seq(Nat) /\ Len(ops(b)) \in Nat /\ blocks[b].base \in Nat /\ blocks[b].next \in Nat
          /\ Len(blocks) \in Nat /\ b \in Nat
      BY <2>1, BlockFacts
    <3>2. blocks[b].base + Len(ops(b)) =< Flushed
      BY <2>1 DEF Numbered
    <3>3. ASSUME NEW i \in 1 .. Len(ops(b)) PROVE ops(b)[i] \in 1 .. MaxOps
      <4>1. ops(b)[i] = blocks[b].base + i
        BY <2>1 DEF Numbered
      <4>2. MaxOps \in Nat /\ blocks[b].base + i =< MaxOps
        BY <2>2, <3>1, <3>2, QueueAssumption, SMTT(30)
      <4>3. QED
        BY <3>1, <4>1, <4>2, SMTT(30)
    <3>4. ops(b) \in Seq(1 .. MaxOps)
      BY <3>1, <3>3, SeqWithin
    <3>5. blocks[b].next \in 0 .. Len(blocks)
      BY <2>1, <3>1 DEF Linked, NoBlock, BlockIds
    <3>6. QED
      BY <2>2, <3>1, <3>2, <3>4, <3>5
  <2>5. ASSUME NEW c \in Cursors
        PROVE  /\ cursor[c].block \in 0 .. Len(blocks)
               /\ Exists(c) => cursor[c].pos \in 0 .. Len(ops(cursor[c].block))
               /\ flushed[c] \in 0 .. Len(blocks)
               /\ got[c] \in 0 .. MaxOps
    <3>1. Len(blocks) \in Nat
      BY <2>1, BlockFacts
    <3>2. cursor[c].block \in 0 .. Len(blocks)
      BY <2>1, <3>1 DEF Placed, Exists, NoBlock, BlockIds
    <3>3. ASSUME Exists(c) PROVE cursor[c].pos \in 0 .. Len(ops(cursor[c].block))
      <4>1. cursor[c].block \in BlockIds /\ cursor[c].pos =< Len(ops(cursor[c].block)) /\ cursor[c].pos \in Nat
        BY <2>1, <3>3 DEF Placed, Shape
      <4>2. Len(ops(cursor[c].block)) \in Nat
        BY <2>1, <4>1, BlockFacts
      <4>3. QED
        BY <4>1, <4>2
    <3>4. flushed[c] \in 0 .. Len(blocks)
      BY <2>1, <3>1 DEF Closing, NoBlock, BlockIds
    <3>5. QED
      BY <2>1, <3>2, <3>3, <3>4 DEF Shape
  <2>6. last_block \in 0 .. Len(blocks)
    BY <2>1, BlockFacts DEF Shape
  <2>7. QED
    BY <2>1, <2>3, <2>4, <2>5, <2>6 DEF TypeOK, Shape
<1>2. QED
  BY QueueInvariant, <1>1, PTL

(* The list never forks: of the blocks in use one at most is open.         *)
THEOREM ListNeverForks == Spec => []OneOpenBlock
<1>1. IInv => OneOpenBlock
  <2> SUFFICES ASSUME IInv, NEW b \in Held, blocks[b].next = NoBlock, ~NextLocked(b)
               PROVE  b = last_block
    BY DEF OneOpenBlock
  <2>1. Shape /\ Placed /\ Closing /\ Connected
    BY DEF IInv
  <2>2. ASSUME NEW c \in Cursors, Exists(c), cursor[c].block = b
        PROVE  b = last_block
    BY <2>1, <2>2, OpenIsLast DEF Shape
  <2>3. ASSUME NEW c \in Cursors, flushed[c] # NoBlock, flushed[c] = b
        PROVE  b = last_block
    <3>1. pc[c] = "close" /\ Exists(c) /\ b = cursor[c].block + 1 /\ b \in BlockIds /\ cursor[c].block \in BlockIds
      BY <2>1, <2>3, Loading DEF Closing
    <3>2. b \in Nat /\ cursor[c].block =< b /\ b =< Len(blocks) /\ Len(blocks) \in Nat /\ blocks[b].next # b + 1
      BY <2>1, <3>1, BlockFacts DEF BlockIds, NoBlock
    <3>3. ~ (b < Len(blocks))
      BY <2>1, <3>1, <3>2 DEF Connected
    <3>4. QED
      BY <2>1, <3>2, <3>3 DEF Shape
  <2>4. QED
    BY <2>2, <2>3 DEF Held
<1>2. QED
  BY QueueInvariant, <1>1, PTL

(* The delete queue implements the log: its blocks, weak references and    *)
(* double-checked locking never show through.                              *)
THEOREM QueueRefinesLog == Spec => ImplementsDeleteLog
<1>1. Init => Log!Init
  BY DEF Init, Log!Init, Log!Nothing, Nothing, Exists, NoCursor, NoBlock
<1>2. IInv /\ [Next]_vars => [Log!Next]_(Log!logVars)
  BY NextIInv DEF Simulates
<1>3. QED
  BY QueueInvariant, <1>1, <1>2, PTL DEF Spec, ImplementsDeleteLog, Log!Spec
=============================================================================
