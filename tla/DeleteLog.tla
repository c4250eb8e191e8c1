------------------------------ MODULE DeleteLog ------------------------------
(***************************************************************************)
(* What tantivy's delete queue promises its users: one log of delete       *)
(* operations, in the order they were pushed, that every cursor reads from *)
(* its own position on without missing or repeating any.                   *)
(*                                                                         *)
(* An operation is its number in the order of the pushes.                  *)
(***************************************************************************)
EXTENDS Naturals

CONSTANTS Cursors,  \* the cursors that may exist at a time
          Nowhere   \* the position of a cursor that does not exist

VARIABLES pushed,   \* how many operations have been pushed
          pos,      \* how many operations lie before each cursor
          got       \* what the last get of each cursor returned, 0 for None

logVars == <<pushed, pos, got>>

Nothing == 0

Init ==
  /\ pushed = 0
  /\ pos = [c \in Cursors |-> Nowhere]
  /\ got = [c \in Cursors |-> Nothing]

Push ==
  /\ pushed' = pushed + 1
  /\ UNCHANGED <<pos, got>>

\* A new cursor sees all later operations, and perhaps some of the past ones.
Create(c) ==
  /\ pos[c] = Nowhere
  /\ \E p \in 0 .. pushed : pos' = [pos EXCEPT ![c] = p]
  /\ UNCHANGED <<pushed, got>>

Clone(c, d) ==
  /\ pos[c] # Nowhere /\ pos[d] = Nowhere
  /\ pos' = [pos EXCEPT ![d] = pos[c]]
  /\ UNCHANGED <<pushed, got>>

Drop(c) ==
  /\ pos[c] # Nowhere
  /\ pos' = [pos EXCEPT ![c] = Nowhere]
  /\ got' = [got EXCEPT ![c] = Nothing]
  /\ UNCHANGED pushed

\* None only when every operation pushed so far lies before the cursor.
Get(c) ==
  /\ pos[c] # Nowhere
  /\ got' = [got EXCEPT ![c] = IF pos[c] < pushed THEN pos[c] + 1 ELSE Nothing]
  /\ UNCHANGED <<pushed, pos>>

Advance(c) ==
  /\ pos[c] # Nowhere /\ pos[c] < pushed
  /\ pos' = [pos EXCEPT ![c] = @ + 1]
  /\ UNCHANGED <<pushed, got>>

Next ==
  \/ Push
  \/ \E c \in Cursors : Create(c) \/ Drop(c) \/ Get(c) \/ Advance(c)
  \/ \E c, d \in Cursors : Clone(c, d)

Spec == Init /\ [][Next]_logVars
=============================================================================
