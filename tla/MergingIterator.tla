--------------------------- MODULE MergingIterator ---------------------------
(***************************************************************************)
(* leveldb's MergingIterator (table/merger.cc) over iterators of the       *)
(* memtables and the tables.  Each child is positioned on its own; when    *)
(* the direction changes the others have to be brought to the other side   *)
(* of the key.  A call is one step: what is written during it is as if     *)
(* written before or after the one call of the child that could see it,    *)
(* but for the child that Prev moves twice (Overshoot).                    *)
(***************************************************************************)
EXTENDS Integers, FiniteSets, FiniteSetsExt

CONSTANTS
  N,      \* how many children
  Live,   \* those that are memtables still written to
  Keys,   \* internal keys, in their order: integers
  None

\* at least two children (NewMergingIterator), and keys of which any have a first
\* and a last
MergeAssumption ==
  /\ N \in Nat /\ N >= 2 /\ Live \subseteq 1..N
  /\ Keys \subseteq Int /\ None \notin Int
  /\ \A S \in (SUBSET Keys) \ {{}} :
       (\E x \in S : \A y \in S : x <= y) /\ (\E x \in S : \A y \in S : x >= y)

VARIABLES
  content,    \* the keys of each child
  pos,        \* where each child is (IteratorWrapper::key_), or None
  current,    \* current_: a child, or None
  direction,  \* direction_
  known,      \* (history) the keys there were when the iterator was made
  last,       \* (history) the last call
  over        \* (history) the key it was at when a Prev went past it, or None

vars == <<content, pos, current, direction, known, last, over>>

All == UNION {content[i] : i \in 1..N}
Lowest(S) == IF S = {} THEN None ELSE Min(S)
Highest(S) == IF S = {} THEN None ELSE Max(S)

\* what the children do
ChildSeek(i, t) == Lowest({x \in content[i] : x >= t})
ChildNext(i) == Lowest({x \in content[i] : x > pos[i]})
ChildPrev(i) == Highest({x \in content[i] : x < pos[i]})

\* an internal key is in one place only
Init ==
  /\ content \in [1..N -> SUBSET Keys]
  /\ \A i, j \in 1..N : i # j => content[i] \cap content[j] = {}
  /\ pos = [i \in 1..N |-> None] /\ current = None /\ direction = "forward"
  /\ known = All /\ last = <<>> /\ over = None

FindSmallest(p) ==
  IF \A i \in 1..N : p[i] = None THEN None
  ELSE CHOOSE i \in 1..N : p[i] # None /\ \A j \in 1..N : p[j] # None => p[i] <= p[j]

FindLargest(p) ==
  IF \A i \in 1..N : p[i] = None THEN None
  ELSE CHOOSE i \in 1..N : p[i] # None /\ \A j \in 1..N : p[j] # None => p[i] >= p[j]

Moves(p, d) ==
  /\ pos' = p
  /\ current' = IF d = "forward" THEN FindSmallest(p) ELSE FindLargest(p)
  /\ direction' = d
  /\ UNCHANGED known

Positions(p, d) == Moves(p, d) /\ over' = None /\ UNCHANGED content

SeekToFirst == last' = <<"SeekToFirst">> /\ Positions([i \in 1..N |-> Lowest(content[i])], "forward")
SeekToLast == last' = <<"SeekToLast">> /\ Positions([i \in 1..N |-> Highest(content[i])], "reverse")
Seek(t) == last' = <<"Seek", t>> /\ Positions([i \in 1..N |-> ChildSeek(i, t)], "forward")

Valid == current # None
Key == pos[current]

\* mutant: the others are not moved when the direction changes
NotMoved(i) == pos[i]

\* where another child is brought, to be after or before the key
BroughtAfter(i) ==
  IF direction = "forward" THEN pos[i] ELSE Lowest({x \in content[i] : x > Key})
BroughtBefore(i) ==
  IF direction = "reverse" THEN pos[i]
  ELSE IF ChildSeek(i, Key) = None THEN Highest(content[i])
  ELSE Highest({x \in content[i] : x < ChildSeek(i, Key)})

Forward ==
  /\ Valid
  /\ last' = <<"Next">>
  /\ Positions([i \in 1..N |-> IF i = current THEN ChildNext(i) ELSE BroughtAfter(i)], "forward")

\* of keys that were met on the wrong side the next one may be another
Backward ==
  LET p == [i \in 1..N |-> IF i = current THEN ChildPrev(i) ELSE BroughtBefore(i)]
  IN /\ Valid
     /\ Moves(p, "reverse")
     /\ UNCHANGED content
     /\ IF over # None /\ current' # None /\ p[current'] > over
        THEN UNCHANGED <<over, last>>
        ELSE over' = None /\ last' = <<"Prev">>

\* Prev moves a child to the first entry after the key, and then one back or, if
\* there is none, to its last: x, written in between, is where it ends up, after
\* the key.
Overshoot(i, x) ==
  /\ Valid /\ direction = "forward" /\ i # current
  /\ x \notin All /\ x > Key /\ ~ \E y \in content[i] : Key < y /\ y < x
  /\ content' = [content EXCEPT ![i] = @ \cup {x}]
  /\ over' = Key
  /\ Moves([j \in 1..N |-> IF j = i THEN x ELSE IF j = current THEN ChildPrev(j) ELSE BroughtBefore(j)], "reverse")
  /\ UNCHANGED last

\* a write goes to the memtable while the iterator is in use
Insert(i, x) ==
  /\ x \notin All
  /\ content' = [content EXCEPT ![i] = @ \cup {x}]
  /\ UNCHANGED <<pos, current, direction, known, last, over>>

Next ==
  \/ SeekToFirst \/ SeekToLast \/ Forward \/ Backward
  \/ \E t \in Keys : Seek(t)
  \/ \E i \in Live, x \in Keys : Insert(i, x) \/ Overshoot(i, x)

Spec == Init /\ [][Next]_vars

----------------------------------------------------------------------------
(* Properties                                                              *)

TypeOK ==
  /\ content \in [1..N -> SUBSET Keys] /\ known \subseteq All
  /\ pos \in [1..N -> Keys \cup {None}] /\ current \in 1..N \cup {None}
  /\ direction \in {"forward", "reverse"}
  /\ Valid => pos[current] # None

C == INSTANCE Cursor WITH
       items <- All, Targets <- Keys,
       at <- IF ~Valid THEN None ELSE IF over # None THEN over ELSE Key

\* Whatever the order of the calls, the merged iterator is a cursor over the keys
\* of all its children: none is skipped or shown twice when the direction changes
\* (MergingIterator::Next and Prev), if nobody turns back at a key that was met on
\* the wrong side.
ImplementsCursor == C!Spec
=============================================================================
