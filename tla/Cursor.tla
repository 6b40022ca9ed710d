------------------------------- MODULE Cursor -------------------------------
(***************************************************************************)
(* What leveldb's iterators promise (include/leveldb/iterator.h, and the   *)
(* comments of db_iter.cc and merger.cc), whatever they are made of: a     *)
(* cursor over ordered items, of which some may come while it is in use (a *)
(* memtable is read while it is written) and some may become unreadable.   *)
(* Those it may show or skip; the ones that are known it may not.          *)
(***************************************************************************)
EXTENDS Integers

CONSTANTS Targets, None

VARIABLES
  items,  \* what there is
  known,  \* what was there from the beginning and can be read
  at,     \* the item the cursor is at, or None: key() and Valid()
  last    \* the last call

vars == <<items, known, at, last>>

\* the first (last) of S, of which only those of K need be there
Lowest(S, K) ==
  {y \in S : \A z \in S \cap K : y <= z} \cup (IF S \cap K = {} THEN {None} ELSE {})
Highest(S, K) ==
  {y \in S : \A z \in S \cap K : y >= z} \cup (IF S \cap K = {} THEN {None} ELSE {})

Init ==
  /\ known = items
  /\ at = None
  /\ last = <<>>

Moves(call, S) ==
  /\ last' = call
  /\ at' \in S
  /\ known' \subseteq known
  /\ UNCHANGED items

SeekToFirst == Moves(<<"SeekToFirst">>, Lowest(items, known'))
SeekToLast == Moves(<<"SeekToLast">>, Highest(items, known'))
Seek(t) == Moves(<<"Seek", t>>, Lowest({x \in items : x >= t}, known'))
Forward == at # None /\ Moves(<<"Next">>, Lowest({x \in items : x > at}, known'))
Backward == at # None /\ Moves(<<"Prev">>, Highest({x \in items : x < at}, known'))

Arrive ==
  /\ items \subseteq items'
  /\ UNCHANGED <<known, at, last>>

Next ==
  \/ SeekToFirst \/ SeekToLast \/ Forward \/ Backward \/ Arrive
  \/ \E t \in Targets : Seek(t)

Spec == Init /\ [][Next]_vars
=============================================================================
