------------------------------- MODULE DBIter -------------------------------
(***************************************************************************)
(* leveldb's DBIter (db/db_iter.cc): the iterator an application gets.  It *)
(* moves a merging iterator over the entries of the memtables and the      *)
(* tables, all versions of all keys, and shows the ones a snapshot sees.   *)
(*                                                                         *)
(* A call takes one step per move of the merging iterator (each turn of    *)
(* the loops of FindNextUserEntry, FindPrevUserEntry and Prev), between    *)
(* which other threads write to the memtable.                              *)
(*                                                                         *)
(* An entry is named by its sequence number; its internal key is an        *)
(* integer in the order of InternalKeyComparator: by user key, and then    *)
(* the newest first.                                                       *)
(***************************************************************************)
EXTENDS Integers, FiniteSets, FiniteSetsExt

CONSTANTS
  N,         \* how many iterators are merged; the first is the memtable's
  Users,     \* user keys: integers
  MaxSeq,    \* bound: the last sequence number
  Snapshot,  \* sequence_
  None

ASSUME SnapshotAssumption == MaxSeq \in Nat /\ Snapshot \in 0..MaxSeq /\ Users \subseteq Nat

Sequences == 1..MaxSeq
Types == {"value", "deletion", "corrupt"}

VARIABLES
  user, type,  \* of each entry, or None: it was not written
  content, pos, current, merging, known, last, over,  \* the merging iterator's
  direction,   \* direction_
  valid,       \* valid_
  saved,       \* saved_key_, or None
  savedValue,  \* saved_value_: the entry it comes from
  skipping, valueType,  \* locals of the loops
  pc,          \* "idle", or the loop the call is in
  call,        \* the call under way, or the last one
  before       \* (history) what the iterator showed before it, and the call that had led there

written == <<user, type>>
merger == <<content, pos, current, merging, known, last, over>>
vars == <<written, merger, direction, valid, saved, savedValue, skipping, valueType, pc, call, before>>

Internal(u, q) == u * (MaxSeq + 1) + (MaxSeq - q)
UserOf(e) == e \div (MaxSeq + 1)
SeqOf(e) == MaxSeq - (e % (MaxSeq + 1))

\* those of entries, and those a Seek looks for (of an empty database: 0)
InternalKeys == {Internal(u, q) : u \in Users, q \in 0..MaxSeq}

M == INSTANCE MergingIterator WITH
       Keys <- InternalKeys, Live <- {1}, direction <- merging

ASSUME MergerAssumption == M!MergeAssumption

Entries == {q \in Sequences : user[q] # None}

\* Where an entry is: what the memtable holds is newer than the rest, and a newer
\* entry of a key is never in an older place
Places(home) ==
  \A a, b \in Entries :
    /\ a < b /\ home[a] = 1 => home[b] = 1
    /\ a < b /\ user[a] = user[b] => home[b] <= home[a]

Init ==
  /\ user \in [Sequences -> Users \cup {None}]
  /\ Entries = 1..Cardinality(Entries)
  /\ type \in [Sequences -> Types] /\ \A q \in Sequences \ Entries : type[q] = "value"
  /\ \E home \in [Entries -> 1..N] :
       /\ Places(home) /\ \A q \in Entries : home[q] = 1 => type[q] # "corrupt"
       /\ content = [i \in 1..N |-> {Internal(user[q], q) : q \in {p \in Entries : home[p] = i}}]
  /\ pos = [i \in 1..N |-> None] /\ current = None /\ merging = "forward"
  /\ known = M!All /\ last = <<>> /\ over = None
  /\ direction = "forward" /\ valid = FALSE /\ saved = None /\ savedValue = None
  /\ skipping = FALSE /\ valueType = "deletion"
  /\ pc = "idle" /\ call = <<>> /\ before = <<None, <<>>>>

User == UserOf(M!Key)
Seq == SeqOf(M!Key)

\* ParseKey succeeds, and the snapshot sees the entry
Readable == type[Seq] # "corrupt" /\ Seq <= Snapshot

\* key() and value(), as the internal key of what they show
Shown ==
  IF ~valid THEN None
  ELSE IF direction = "forward" THEN M!Key ELSE Internal(saved, savedValue)

Begins(c) == pc = "idle" /\ call' = c /\ before' = <<Shown, call>>

EndsInvalid ==
  /\ pc' = "idle" /\ valid' = FALSE /\ saved' = None /\ savedValue' = None
  /\ UNCHANGED <<skipping, valueType>>

\* FindNextUserEntry begins, unless there is nothing to look at
Forward(skip) ==
  \/ /\ current' # None
     /\ pc' = "forward" /\ skipping' = skip
     /\ UNCHANGED <<valid, savedValue, valueType>>
  \/ /\ current' = None /\ EndsInvalid

Step ==
  /\ valid /\ Begins(<<"Next">>)
  /\ direction' = "forward"
  /\ \/ /\ direction = "reverse"
        /\ IF M!Valid THEN M!Forward ELSE M!SeekToFirst
        /\ Forward(TRUE) /\ (current' # None => UNCHANGED saved)
     \/ /\ direction = "forward"
        /\ saved' = User /\ pc' = "forward" /\ skipping' = TRUE
        /\ UNCHANGED <<merger, valid, savedValue, valueType>>
  /\ UNCHANGED written

Seek(t) ==
  /\ Begins(<<"Seek", Internal(t, Snapshot)>>)
  /\ direction' = "forward"
  /\ M!Seek(Internal(t, Snapshot))
  /\ Forward(FALSE) /\ (current' # None => UNCHANGED saved)
  /\ UNCHANGED written

SeekToFirst ==
  /\ Begins(<<"SeekToFirst">>)
  /\ direction' = "forward"
  /\ M!SeekToFirst
  /\ Forward(FALSE) /\ (current' # None => UNCHANGED saved)
  /\ UNCHANGED written

Yields ==
  /\ pc = "forward" /\ Readable /\ type[Seq] = "value" /\ ~(skipping /\ User <= saved)
  /\ pc' = "idle" /\ valid' = TRUE /\ saved' = None
  /\ UNCHANGED <<written, merger, direction, savedValue, skipping, valueType, call, before>>

\* a turn of the loop of FindNextUserEntry: the entry is hidden, or hides others
Passes ==
  LET deletes == Readable /\ type[Seq] = "deletion"
  IN /\ pc = "forward"
     /\ ~(Readable /\ type[Seq] = "value" /\ ~(skipping /\ User <= saved))
     /\ M!Forward
     /\ IF current' = None THEN EndsInvalid
        ELSE /\ skipping' = (skipping \/ deletes)
             /\ saved' = IF deletes THEN User ELSE saved
             /\ UNCHANGED <<pc, valid, savedValue, valueType>>
     /\ UNCHANGED <<written, direction, call, before>>

\* FindPrevUserEntry ends with what the loop left: t, and u's entry q
BackwardEnds(t, u, q) ==
  /\ valueType' = t /\ valid' = (t # "deletion") /\ pc' = "idle"
  /\ saved' = u /\ savedValue' = q
  /\ direction' = IF t = "deletion" THEN "forward" ELSE "reverse"
  /\ UNCHANGED skipping

Backward ==
  \/ /\ current' # None
     /\ pc' = "backward" /\ direction' = "reverse" /\ valueType' = "deletion"
     /\ UNCHANGED <<valid, saved, savedValue, skipping>>
  \/ /\ current' = None /\ BackwardEnds("deletion", None, None)

SeekToLast ==
  /\ Begins(<<"SeekToLast">>)
  /\ M!SeekToLast /\ Backward
  /\ UNCHANGED written

\* switching the direction, it has to pass all entries of the key that is shown
Prev ==
  /\ valid /\ Begins(<<"Prev">>)
  /\ UNCHANGED <<written, merger>>
  /\ \/ /\ direction = "forward"
        /\ saved' = User /\ pc' = "scan"
        /\ UNCHANGED <<direction, valid, savedValue, skipping, valueType>>
     \/ /\ direction = "reverse" /\ Backward

\* a turn of the loop of Prev
Scan ==
  /\ pc = "scan"
  /\ M!Backward
  /\ IF current' = None THEN EndsInvalid /\ UNCHANGED direction
     ELSE IF UserOf(pos'[current']) < saved THEN Backward
     ELSE UNCHANGED <<direction, valid, saved, savedValue, skipping, valueType, pc>>
  /\ UNCHANGED <<written, call, before>>

FoundBefore == valueType # "deletion" /\ Readable /\ User < saved

Stops ==
  /\ pc = "backward" /\ FoundBefore
  /\ BackwardEnds(valueType, saved, savedValue)
  /\ UNCHANGED <<written, merger, call, before>>

\* mutant: an older value stays when a newer deletion is met
CollectsOverDeletions ==
  LET t == IF Readable /\ type[Seq] = "value" THEN "value" ELSE valueType
      u == IF Readable /\ type[Seq] = "value" THEN User ELSE saved
      q == IF Readable /\ type[Seq] = "value" THEN Seq ELSE savedValue
  IN /\ pc = "backward" /\ ~FoundBefore
     /\ M!Backward
     /\ IF current' = None THEN BackwardEnds(t, u, q)
        ELSE /\ valueType' = t /\ saved' = u /\ savedValue' = q
             /\ UNCHANGED <<direction, valid, skipping, pc>>
     /\ UNCHANGED <<written, call, before>>

\* a turn of the loop of FindPrevUserEntry: a newer entry replaces an older one
Collects ==
  LET t == IF Readable THEN type[Seq] ELSE valueType
      u == IF ~Readable THEN saved ELSE IF type[Seq] = "deletion" THEN None ELSE User
      q == IF ~Readable THEN savedValue ELSE IF type[Seq] = "deletion" THEN None ELSE Seq
  IN /\ pc = "backward" /\ ~FoundBefore
     /\ M!Backward
     /\ IF current' = None THEN BackwardEnds(t, u, q)
        ELSE /\ valueType' = t /\ saved' = u /\ savedValue' = q
             /\ UNCHANGED <<direction, valid, skipping, pc>>
     /\ UNCHANGED <<written, call, before>>

\* a write goes to the memtable; its number is above those of all snapshots
Written(u, t, q) ==
  /\ q > Snapshot /\ \A p \in Entries : p < q
  /\ user' = [user EXCEPT ![q] = u] /\ type' = [type EXCEPT ![q] = t]
  /\ UNCHANGED <<direction, valid, saved, savedValue, skipping, valueType, pc, call, before>>

Write(u, t, q) == Written(u, t, q) /\ M!Insert(1, Internal(u, q))

\* a turn of the loop of Prev during which the entry is written: the merging
\* iterator is now at it, after the key, and the loop goes on
ScanOvershoots(u, t, q) ==
  pc = "scan" /\ u >= saved /\ Written(u, t, q) /\ M!Overshoot(1, Internal(u, q))

Next ==
  \/ Step \/ Prev \/ SeekToFirst \/ SeekToLast \/ \E t \in Users : Seek(t)
  \/ Yields \/ Passes \/ Scan \/ Stops \/ Collects
  \/ \E u \in Users, t \in {"value", "deletion"}, q \in Sequences :
       Write(u, t, q) \/ ScanOvershoots(u, t, q)

Spec == Init /\ [][Next]_vars

----------------------------------------------------------------------------
(* Properties                                                              *)

\* As it is used here the merging iterator is a cursor over the entries of all its
\* children, whatever the order of the calls: none is passed over or met twice when
\* the direction changes, while one of the children is written to.
MergerIsACursor == []M!TypeOK /\ M!ImplementsCursor

\* what the snapshot sees: the newest entry of each key, unless it is a deletion
Newest(u) == {q \in Entries : user[q] = u /\ q <= Snapshot /\ type[q] # "corrupt"}
Visible ==
  {Internal(u, Max(Newest(u))) :
     u \in {v \in Users : Newest(v) # {} /\ type[Max(Newest(v))] = "value"}}

C == INSTANCE Cursor WITH
       items <- Visible, known <- Visible, Targets <- {Internal(u, Snapshot) : u \in Users},
       at <- IF pc = "idle" THEN Shown ELSE before[1],
       last <- IF pc = "idle" THEN call ELSE before[2]

\* An application walks over the keys of its snapshot with the value each has
\* there, in either direction, wherever it turns: deletions, overwritten values
\* and what is written meanwhile never show.
ImplementsCursor == C!Spec
=============================================================================
