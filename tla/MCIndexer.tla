----------------------------- MODULE MCIndexer -----------------------------
(* Instances of Indexer for TLC. *)
EXTENDS Indexer, TLC

Add(term) == [kind |-> "add", term |-> term]
Delete(term) == [kind |-> "delete", term |-> term]

\* Replacing a document; a document of each of two terms.
Updates == {<<Delete(t), Add(t)>> : t \in Terms}
Pairs == {<<Add(t), Add(u)>> : t \in Terms, u \in Terms} \ {<<Add(t), Add(t)>> : t \in Terms}

\* A document added and deleted again in one group.
Replacements == {<<Add(t), Delete(t)>> : t \in Terms}

\* For each other term u than some term t: a group that adds both and deletes t,
\* a document of u, and a delete of u.
Steps ==
  LET t == CHOOSE t \in Terms : TRUE
  IN UNION {{<<Add(t), Add(u), Delete(t)>>, <<Add(u)>>, <<Delete(u)>>} : u \in Terms \ {t}}

Symmetric ==
  Permutations(Clients) \cup Permutations(Workers) \cup Permutations(Merges) \cup Permutations(Terms)
=============================================================================
