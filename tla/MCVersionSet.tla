---------------------------- MODULE MCVersionSet -----------------------------
(* Small instances of VersionSet for TLC. *)
EXTENDS VersionSet

Put(k) == [key |-> k, del |-> FALSE]
Delete(k) == [key |-> k, del |-> TRUE]

\* every order of three writes of two keys, the greater of which is also deleted
ShortScripts == [1..3 -> {Put(1), Put(2), Delete(2)}]

\* key 2 put and deleted again, with writes in between and afterwards: what a
\* deletion marker needs to end up next to the entry it hides
DeletionScripts ==
  {s \in [1..4 -> {Put(1), Put(2), Delete(2)}] : s[1] = Put(2) /\ s[3] = Delete(2)}

\* two entries of key 1 and of key 3, and key 2 in the gap between them
GapScript == <<Put(1), Put(1), Put(3), Put(3), Put(2)>>

LevelsScripts == ShortScripts \union DeletionScripts \union {GapScript}

\* every order of two writes of key 1, two of key 3 and one of key 2
GapScripts ==
  {s \in [1..5 -> {Put(1), Put(2), Put(3)}] :
     Cardinality({i \in 1..5 : s[i] = Put(1)}) = 2 /\ Cardinality({i \in 1..5 : s[i] = Put(2)}) = 1}

WholeRange == {<<0, MaxKey + 1>>}
=============================================================================
