----------------------------- MODULE DeleteQueue -----------------------------
(***************************************************************************)
(* tantivy's delete queue (indexer/delete_queue.rs): pending operations in *)
(* a vector, flushed into read-only blocks that form a linked list; the    *)
(* queue holds its last block only weakly, cursors hold theirs strongly.   *)
(*                                                                         *)
(* Each cursor belongs to a thread of its own. A step is what a thread     *)
(* does under one acquisition of a lock: the queue's RwLock, or the        *)
(* RwLock of a block's NextBlock, which is held for writing from the flush *)
(* (step NextSlow) to the link (step CloseBlock).                          *)
(***************************************************************************)
EXTENDS Naturals, Sequences, FiniteSets

CONSTANTS Cursors, Nowhere,
          MaxOps,     \* operations pushed (a bound)
          MaxLists    \* lists of blocks started (a bound)

ASSUME QueueAssumption ==
  /\ Nowhere \notin Nat
  /\ MaxOps \in Nat
  /\ MaxLists \in Nat

VARIABLES
  writer,      \* InnerDeleteQueue::writer
  last_block,  \* InnerDeleteQueue::last_block, NoBlock for Weak::new()
  blocks,      \* every Block made so far: operations, next, and base (below)
  cursor,      \* each DeleteCursor: its block, NoBlock if it does not exist, and pos
  pc,          \* where each cursor's thread is
  call,        \* what it is doing there: get, advance or cursor
  flushed,     \* the block its flush returned, while it holds it
  pushed,      \* history: the number of pushes
  got          \* what its last get returned

\* A block's base is history: how many operations were flushed before it.
vars == <<writer, last_block, blocks, cursor, pc, call, flushed, pushed, got>>

NoBlock == 0
Nothing == 0
NoCursor == [block |-> NoBlock, pos |-> 0]
BlockIds == 1 .. Len(blocks)
Exists(c) == cursor[c].block # NoBlock

ops(b) == blocks[b].operations

(* Closed links lead from b to d: d is in every set with b that they do not *)
(* leave.                                                                  *)
Reaches(b, d) ==
  \A S \in SUBSET BlockIds :
    b \in S /\ (\A x \in S : blocks[x].next # NoBlock => blocks[x].next \in S) => d \in S

Held == {cursor[c].block : c \in {d \in Cursors : Exists(d)}}
          \cup {flushed[c] : c \in {d \in Cursors : flushed[d] # NoBlock}}

(* Weak::upgrade succeeds while somebody holds the block or one before it. *)
Upgradable(b) == b # NoBlock /\ \E h \in Held : Reaches(h, b)

(* Somebody holds the write lock of b's NextBlock. *)
NextLocked(b) == \E c \in Cursors : pc[c] = "close" /\ cursor[c].block = b

Flushed == pushed - Len(writer)

NewBlock(operations) == [operations |-> operations, next |-> NoBlock, base |-> Flushed]

\* The bound: empty blocks, made or about to be.
ListsStarted == Cardinality({b \in BlockIds : ops(b) = <<>>})
                  + Cardinality({c \in Cursors : pc[c] = "last_slow"})

-----------------------------------------------------------------------------
Init ==
  /\ writer = <<>>
  /\ last_block = NoBlock
  /\ blocks = <<>>
  /\ cursor = [c \in Cursors |-> NoCursor]
  /\ pc = [c \in Cursors |-> "idle"]
  /\ call = [c \in Cursors |-> "none"]
  /\ flushed = [c \in Cursors |-> NoBlock]
  /\ pushed = 0
  /\ got = [c \in Cursors |-> Nothing]

Push ==
  /\ pushed < MaxOps
  /\ pushed' = pushed + 1
  /\ writer' = Append(writer, pushed + 1)
  /\ UNCHANGED <<last_block, blocks, cursor, pc, call, flushed, got>>

Goto(c, where, what) ==
  /\ pc' = [pc EXCEPT ![c] = where]
  /\ call' = [call EXCEPT ![c] = what]

PastEndOf(c, b) ==
  /\ cursor' = [cursor EXCEPT ![c] = [block |-> b, pos |-> Len(ops(b)) + 1]]
  /\ Goto(c, "idle", "none")

\* DeleteQueue::cursor: after the operations of the last block.
AtEndOf(c, b) ==
  /\ cursor' = [cursor EXCEPT ![c] = [block |-> b, pos |-> Len(ops(b))]]
  /\ Goto(c, "idle", "none")

(* get_last_block under the read lock. *)
Cursor(c) ==
  /\ ~Exists(c) /\ pc[c] = "idle"
  /\ IF Upgradable(last_block)
     THEN AtEndOf(c, last_block)
     ELSE /\ ListsStarted < MaxLists
          /\ Goto(c, "last_slow", "cursor")
          /\ UNCHANGED cursor
  /\ UNCHANGED <<writer, last_block, blocks, flushed, pushed, got>>

(* get_last_block under the write lock: somebody may have been faster. *)
LastSlow(c) ==
  /\ pc[c] = "last_slow"
  /\ IF Upgradable(last_block)
     THEN AtEndOf(c, last_block) /\ UNCHANGED <<blocks, last_block>>
     ELSE /\ blocks' = Append(blocks, NewBlock(<<>>))
          /\ last_block' = Len(blocks) + 1
          /\ cursor' = [cursor EXCEPT ![c] = [block |-> Len(blocks) + 1, pos |-> 0]]
          /\ Goto(c, "idle", "none")
  /\ UNCHANGED <<writer, flushed, pushed, got>>

CloneCursor(c, d) ==
  /\ Exists(c) /\ pc[c] = "idle"
  /\ ~Exists(d) /\ pc[d] = "idle"
  /\ cursor' = [cursor EXCEPT ![d] = cursor[c]]
  /\ UNCHANGED <<writer, last_block, blocks, pc, call, flushed, pushed, got>>

DropCursor(c) ==
  /\ Exists(c) /\ pc[c] = "idle"
  /\ cursor' = [cursor EXCEPT ![c] = NoCursor]
  /\ got' = [got EXCEPT ![c] = Nothing]
  /\ UNCHANGED <<writer, last_block, blocks, pc, call, flushed, pushed>>

-----------------------------------------------------------------------------
(* get and advance return at once inside a block, or load the next one.    *)
MustLoad(c) == cursor[c].pos >= Len(ops(cursor[c].block))

\* The end of get or advance, with the cursor at pos p of block b.
Return(c, what, b, p) ==
  /\ cursor' = [cursor EXCEPT ![c] = [block |-> b, pos |-> IF what = "advance" THEN p + 1 ELSE p]]
  /\ got' = IF what = "get" THEN [got EXCEPT ![c] = ops(b)[p + 1]] ELSE got
  /\ Goto(c, "idle", "none")

Read(c) ==
  /\ Exists(c) /\ pc[c] = "idle"
  /\ \E what \in {"get", "advance"} :
       IF MustLoad(c)
       THEN Goto(c, "next", what) /\ UNCHANGED <<cursor, got>>
       ELSE Return(c, what, cursor[c].block, cursor[c].pos)
  /\ UNCHANGED <<writer, last_block, blocks, flushed, pushed>>

(* next_block under the read lock. *)
NextFast(c) ==
  LET b == cursor[c].block
  IN /\ pc[c] = "next"
     /\ ~NextLocked(b)
     /\ IF blocks[b].next # NoBlock
        THEN Return(c, call[c], blocks[b].next, 0)
        ELSE Goto(c, "slow", call[c]) /\ UNCHANGED <<cursor, got>>
     /\ UNCHANGED <<writer, last_block, blocks, flushed, pushed>>

FlushWithoutTake(c) ==
  /\ writer # <<>>
  /\ blocks' = Append(blocks, NewBlock(writer))
  /\ last_block' = Len(blocks) + 1
  /\ flushed' = [flushed EXCEPT ![c] = Len(blocks) + 1]
  /\ writer' = writer

\* DeleteQueue::flush of a pending vector that is not empty, under both locks.
Flush(c) ==
  /\ writer # <<>>
  /\ blocks' = Append(blocks, NewBlock(writer))
  /\ last_block' = Len(blocks) + 1
  /\ flushed' = [flushed EXCEPT ![c] = Len(blocks) + 1]
  /\ writer' = <<>>

\* flush returned None: so does get; advance returns false.
ReachedEnd(c) ==
  /\ writer = <<>>
  /\ got' = IF call[c] = "get" THEN [got EXCEPT ![c] = Nothing] ELSE got
  /\ Goto(c, "idle", "none")
  /\ UNCHANGED <<writer, last_block, blocks, flushed>>

(* next_block under the write lock: another cursor may have closed the block. *)
NeverClosedMeanwhile(c) == FALSE
ClosedMeanwhile(c) == blocks[cursor[c].block].next # NoBlock

NextSlow(c) ==
  /\ pc[c] = "slow"
  /\ ~NextLocked(cursor[c].block)
  /\ \/ /\ ClosedMeanwhile(c)
        /\ Return(c, call[c], blocks[cursor[c].block].next, 0)
        /\ UNCHANGED <<writer, last_block, blocks, flushed>>
     \/ /\ ~ClosedMeanwhile(c)
        /\ Flush(c)
        /\ Goto(c, "close", call[c])
        /\ UNCHANGED <<cursor, got>>
     \/ /\ ~ClosedMeanwhile(c)
        /\ ReachedEnd(c)
        /\ UNCHANGED cursor
  /\ UNCHANGED pushed

CloseBlock(c) ==
  /\ pc[c] = "close"
  /\ blocks' = [blocks EXCEPT ![cursor[c].block].next = flushed[c]]
  /\ flushed' = [flushed EXCEPT ![c] = NoBlock]
  /\ Return(c, call[c], flushed[c], 0)
  /\ UNCHANGED <<writer, last_block, pushed>>

Next ==
  \/ Push
  \/ \E c \in Cursors :
       \/ Cursor(c) \/ LastSlow(c) \/ DropCursor(c)
       \/ Read(c) \/ NextFast(c) \/ NextSlow(c) \/ CloseBlock(c)
  \/ \E c, d \in Cursors : CloneCursor(c, d)

Spec == Init /\ [][Next]_vars

-----------------------------------------------------------------------------
(* The delete queue implements the log: blocks, weak references and double- *)
(* checked locking never show through. A cursor that loads the next block   *)
(* neither skips nor repeats an operation, and get returns None only when   *)
(* there is none (DeleteCursor, delete_queue.rs:163).                       *)
Log == INSTANCE DeleteLog WITH
         pos <- [c \in Cursors |-> IF Exists(c)
                                   THEN blocks[cursor[c].block].base + cursor[c].pos
                                   ELSE Nowhere]

ImplementsDeleteLog == Log!Spec

TypeOK ==
  /\ writer \in Seq(1 .. MaxOps)
  /\ last_block \in 0 .. Len(blocks)
  /\ \A b \in BlockIds : /\ ops(b) \in Seq(1 .. MaxOps)
                         /\ blocks[b].next \in 0 .. Len(blocks)
                         /\ blocks[b].base \in 0 .. MaxOps
  /\ \A c \in Cursors : /\ cursor[c].block \in 0 .. Len(blocks)
                        /\ Exists(c) => cursor[c].pos \in 0 .. Len(ops(cursor[c].block))
                        /\ flushed[c] \in 0 .. Len(blocks)
                        /\ got[c] \in 0 .. MaxOps
  /\ pc \in [Cursors -> {"idle", "last_slow", "next", "slow", "close"}]
  /\ pushed \in 0 .. MaxOps

(* The list never forks: of the blocks that cursors hold, one at most is    *)
(* still open to a flush, apart from those that a flush is about to close   *)
(* (NextBlock::next_block, delete_queue.rs:126). Two open blocks would      *)
(* share out the later deletes between their cursors.                       *)
OneOpenBlock ==
  LET open == {b \in Held : blocks[b].next = NoBlock /\ ~NextLocked(b)}
  IN \A b \in open : b = last_block
=============================================================================
