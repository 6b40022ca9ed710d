---------------------------- MODULE DBIterProofs ----------------------------
(***************************************************************************)
(* DBIter and the merging iterator it moves, for any number of children,   *)
(* any keys, any snapshot and any writes in between: the merging iterator  *)
(* stays a cursor over all entries, and what is shown is a cursor over     *)
(* what the snapshot sees.                                                 *)
(***************************************************************************)
EXTENDS DBIter, TLAPS

(* What is proved of the merging iterator alone.                           *)
MP == INSTANCE MergingIteratorProofs WITH
        Keys <- InternalKeys, Live <- {1}, direction <- merging

(* M and MP are the same iterator.                                         *)
LEMMA SameMerger ==
  /\ M!MergeAssumption => MP!MergeAssumption
  /\ M!Init => MP!Init
  /\ M!SeekToFirst => MP!SeekToFirst
  /\ M!SeekToLast => MP!SeekToLast
  /\ M!Forward => MP!Forward
  /\ M!Backward => MP!Backward
  /\ MP!TypeOK => M!TypeOK
<1> USE DEF M!Lowest, MP!Lowest, M!Highest, MP!Highest, M!Min, MP!Min, M!Max, MP!Max,
     M!Positions, MP!Positions, M!Moves, MP!Moves, M!All, MP!All,
     M!FindSmallest, MP!FindSmallest, M!FindLargest, MP!FindLargest,
     M!ChildNext, MP!ChildNext, M!ChildPrev, MP!ChildPrev, M!ChildSeek, MP!ChildSeek,
     M!BroughtAfter, MP!BroughtAfter, M!BroughtBefore, MP!BroughtBefore,
     M!Valid, MP!Valid, M!Key, MP!Key
<1>1. M!MergeAssumption => MP!MergeAssumption
  BY PTL DEF M!MergeAssumption, MP!MergeAssumption
<1>2. M!Init => MP!Init
  BY PTL DEF M!Init, MP!Init
<1>3. M!SeekToFirst => MP!SeekToFirst
  BY PTL DEF M!SeekToFirst, MP!SeekToFirst
<1>4. M!SeekToLast => MP!SeekToLast
  BY PTL DEF M!SeekToLast, MP!SeekToLast
<1>5. M!Forward => MP!Forward
  BY PTL DEF M!Forward, MP!Forward
<1>6. M!Backward => MP!Backward
  BY PTL DEF M!Backward, MP!Backward
<1>7. MP!TypeOK => M!TypeOK
  BY PTL DEF M!TypeOK, MP!TypeOK
<1> QED
  BY <1>1, <1>2, <1>3, <1>4, <1>5, <1>6, <1>7

LEMMA SameCursor ==
  /\ MP!C!Init => M!C!Init
  /\ [MP!C!Next]_(MP!C!vars) => [M!C!Next]_(M!C!vars)
  BY PTL DEF M!C!Init, MP!C!Init, M!C!Next, MP!C!Next, M!C!vars, MP!C!vars,
     M!C!SeekToFirst, MP!C!SeekToFirst, M!C!SeekToLast, MP!C!SeekToLast,
     M!C!Seek, MP!C!Seek, M!C!Forward, MP!C!Forward, M!C!Backward, MP!C!Backward,
     M!C!Arrive, MP!C!Arrive, M!C!Moves, MP!C!Moves,
     M!C!Lowest, MP!C!Lowest, M!C!Highest, MP!C!Highest, M!All, MP!All,
     M!Valid, MP!Valid, M!Key, MP!Key

LEMMA SameSeek ==
  ASSUME NEW t, M!Seek(t)
  PROVE  MP!Seek(t)
  BY PTL DEF M!Seek, MP!Seek, M!ChildSeek, MP!ChildSeek, M!Lowest, MP!Lowest,
     M!Positions, MP!Positions, M!Moves, MP!Moves, M!Min, MP!Min,
     M!FindSmallest, MP!FindSmallest, M!FindLargest, MP!FindLargest

LEMMA SameWrites ==
  ASSUME NEW x
  PROVE  /\ M!Insert(1, x) => MP!Insert(1, x)
         /\ M!Overshoot(1, x) => MP!Overshoot(1, x)
  BY PTL DEF M!Insert, MP!Insert, M!Overshoot, MP!Overshoot, M!All, MP!All,
     M!Moves, MP!Moves, M!ChildPrev, MP!ChildPrev, M!ChildSeek, MP!ChildSeek,
     M!BroughtBefore, MP!BroughtBefore, M!Lowest, MP!Lowest, M!Highest, MP!Highest,
     M!FindSmallest, MP!FindSmallest, M!FindLargest, MP!FindLargest,
     M!Valid, MP!Valid, M!Key, MP!Key, M!Min, MP!Min, M!Max, MP!Max

(* The same user key, or a later one.                                      *)
LEMMA UserIsMonotone ==
  ASSUME NEW e \in Int, NEW f \in Int, e <= f
  PROVE  UserOf(e) \in Int /\ UserOf(f) \in Int /\ UserOf(e) <= UserOf(f)
<1>1. ASSUME NEW d \in Nat \ {0}
      PROVE  e \div d \in Int /\ f \div d \in Int /\ e \div d <= f \div d
  OBVIOUS
<1>2. MaxSeq + 1 \in Nat \ {0}
  BY SnapshotAssumption
<1> QED
  BY <1>1, <1>2 DEF UserOf

(* An entry has a key of its own.                                          *)
LEMMA InternalIsInjective ==
  ASSUME NEW u \in Users, NEW v \in Users, NEW p \in Sequences, NEW q \in Sequences,
         Internal(u, p) = Internal(v, q)
  PROVE  p = q
<1> DEFINE d == MaxSeq + 1
           r == MaxSeq - p
           s == MaxSeq - q
<1>1. /\ d \in Nat /\ r \in Nat /\ s \in Nat /\ r < d /\ s < d /\ u \in Nat /\ v \in Nat
      /\ p \in Int /\ q \in Int /\ MaxSeq \in Nat
  BY SnapshotAssumption DEF Sequences
<1>2. u * d + r = v * d + s
  BY DEF Internal
<1> HIDE DEF d, r, s
<1>3. ASSUME NEW a \in Nat, NEW b \in Nat, a < b
      PROVE  a * d + d <= b * d
  <2>1. b = a + 1 + (b - a - 1) /\ b - a - 1 \in Nat
    BY <1>3
  <2>2. ASSUME NEW c \in Nat PROVE (a + 1 + c) * d = a * d + d + c * d /\ c * d >= 0
    BY <1>1
  <2>3. b * d = a * d + d + (b - a - 1) * d /\ (b - a - 1) * d >= 0
    BY <2>1, <2>2
  <2> QED
    BY <1>1, <2>3
<1>4. ~(u < v) /\ ~(v < u)
  <2>1. u * d \in Int /\ v * d \in Int
    BY <1>1
  <2>2. u < v => u * d + d <= v * d
    BY <1>1, <1>3
  <2>3. v < u => v * d + d <= u * d
    BY <1>1, <1>3
  <2> QED
    BY <1>1, <1>2, <2>1, <2>2, <2>3
<1>5. u = v
  BY <1>1, <1>4
<1>6. r = s
  <2>1. u * d \in Int
    BY <1>1
  <2> QED
    BY <1>1, <1>2, <1>5, <2>1
<1> QED
  BY <1>1, <1>6 DEF r, s

-----------------------------------------------------------------------------
(***************************************************************************)
(* While the merging iterator is at a key that a Prev met on the wrong     *)
(* side, the loop of Prev goes on: it is past the key the iterator shows,  *)
(* which ends the loop only when the merging iterator is before it.        *)
(***************************************************************************)
ScanInv ==
  /\ pc = "scan" /\ MP!Valid => saved \in Int /\ saved <= UserOf(MP!Key)
  /\ over # None => pc = "scan" /\ saved <= UserOf(over)

IterInv == MP!MergeInv /\ ScanInv

LEMMA MergerValues ==
  ASSUME MP!MergeInv
  PROVE  /\ None \notin Int
         /\ MP!Valid => MP!Key \in Int
         /\ over # None => over \in Int /\ MP!Valid /\ MP!Key > over /\ merging = "reverse"
         /\ MP!MergeTypes /\ MP!MergeAssumption
<1>1. MP!MergeAssumption
  BY SameMerger, MergerAssumption
<1>2. MP!MergeTypes /\ MP!Sided
  BY DEF MP!MergeInv
<1>3. /\ None \notin Int /\ (MP!Valid => MP!Key \in Int)
      /\ \A x \in MP!All : x \in Int
  BY <1>1, <1>2, MP!KeysAreIntegers
<1>4. over # None => over \in Int
  BY <1>2, <1>3 DEF MP!MergeTypes
<1>5. over # None => MP!Valid /\ MP!Key > over /\ merging = "reverse"
  BY <1>2 DEF MP!Sided, MP!Beyond, MP!MergeTypes
<1> QED
  BY <1>1, <1>2, <1>3, <1>4, <1>5

(* The steps that begin or go on elsewhere than in the loop of Prev.       *)
LEMMA Elsewhere ==
  ASSUME IterInv, over = None, MP!Next, over' = None, pc' # "scan"
  PROVE  IterInv' /\ [MP!C!Next]_(MP!C!vars)
  BY MergerValues, MP!MergeStep DEF IterInv, ScanInv

LEMMA Idles ==
  ASSUME IterInv, UNCHANGED merger, over = None \/ UNCHANGED <<pc, saved>>,
         pc' = "scan" => pc = "scan" /\ saved' = saved
  PROVE  IterInv' /\ [MP!C!Next]_(MP!C!vars)
<1>1. UNCHANGED MP!vars
  BY DEF merger, MP!vars
<1>2. MP!MergeInv' /\ UNCHANGED MP!C!vars
  BY <1>1, MP!MergeIdles DEF IterInv
<1>3. MP!Valid' = MP!Valid /\ MP!Key' = MP!Key /\ over' = over
  BY DEF merger, MP!Valid, MP!Key
<1> QED
  BY <1>2, <1>3 DEF IterInv, ScanInv

LEMMA ScanStep ==
  ASSUME IterInv, Scan
  PROVE  IterInv' /\ [MP!C!Next]_(MP!C!vars)
<1>1. pc = "scan" /\ MP!Backward /\ MP!MergeInv /\ MP!Valid
  BY SameMerger DEF Scan, IterInv, MP!Backward
<1>2. over # None => ~MP!Forward
  BY <1>1 DEF MP!Backward, MP!Forward, MP!Moves, MP!Positions
<1>3. MP!MergeInv' /\ [MP!C!Next]_(MP!C!vars)
  BY <1>1, <1>2, MergerValues, MP!MergeStep DEF MP!Next
<1>4. saved \in Int /\ (over # None => saved <= UserOf(over)) /\ (over' # None => over' = over)
  BY <1>1 DEF IterInv, ScanInv, MP!Backward
<1>5. /\ None \notin Int /\ (over # None => over \in Int)
      /\ (MP!Valid' => MP!Key' \in Int)
      /\ (over' # None => over' \in Int /\ MP!Valid' /\ MP!Key' > over')
  <2>1. MP!MergeInv' => (/\ MP!Valid => MP!Key \in Int
                         /\ over # None => over \in Int /\ MP!Valid /\ MP!Key > over)'
    BY MergerValues, PTL
  <2> QED
    BY <1>1, <1>3, <2>1, MergerValues
<1>6. CASE current' = None
  <2>1. pc' = "idle" /\ ~MP!Valid'
    BY <1>6 DEF Scan, EndsInvalid, MP!Valid
  <2> QED
    BY <1>3, <1>5, <2>1 DEF IterInv, ScanInv
<1>7. CASE current' # None /\ UserOf(pos'[current']) < saved
  <2>1. MP!Valid' /\ MP!Key' = pos'[current'] /\ pc' = "backward"
    BY <1>7 DEF Scan, Backward, MP!Valid, MP!Key
  <2>2. over' = None
    <3> SUFFICES ASSUME over' # None PROVE FALSE
      OBVIOUS
    <3>1. /\ over' = over /\ over \in Int /\ MP!Key' \in Int /\ over <= MP!Key'
          /\ saved <= UserOf(over)
      BY <1>4, <1>5, <2>1
    <3>2. UserOf(over) \in Int /\ UserOf(MP!Key') \in Int /\ UserOf(over) <= UserOf(MP!Key')
      BY <3>1, UserIsMonotone
    <3> QED
      BY <1>4, <1>7, <2>1, <3>1, <3>2
  <2> QED
    BY <1>3, <2>1, <2>2 DEF IterInv, ScanInv
<1>8. CASE current' # None /\ ~(UserOf(pos'[current']) < saved)
  <2>1. MP!Valid' /\ MP!Key' = pos'[current'] /\ UNCHANGED <<pc, saved>>
    BY <1>8 DEF Scan, MP!Valid, MP!Key
  <2>2. UserOf(MP!Key') \in Int
    BY <1>5, <2>1, UserIsMonotone
  <2>3. saved <= UserOf(MP!Key')
    BY <1>4, <1>8, <2>1, <2>2
  <2> QED
    BY <1>1, <1>3, <1>4, <2>1, <2>3 DEF IterInv, ScanInv
<1> QED
  BY <1>6, <1>7, <1>8

(* A write, during any step or in a turn of the loop of Prev.              *)
LEMMA WriteStep ==
  ASSUME IterInv, NEW u \in Users, NEW t, NEW q \in Sequences,
         Write(u, t, q) \/ ScanOvershoots(u, t, q)
  PROVE  IterInv' /\ [MP!C!Next]_(MP!C!vars)
<1> DEFINE x == Internal(u, q)
<1>1. x \in InternalKeys
  BY SnapshotAssumption DEF InternalKeys, Sequences
<1>2. UNCHANGED <<pc, saved>>
  BY DEF Write, ScanOvershoots, Written
<1>3. CASE Write(u, t, q)
  <2>1. MP!Insert(1, x)
    BY <1>3, SameWrites DEF Write
  <2>2. UNCHANGED <<pos, current, merging, over>>
    BY <2>1 DEF MP!Insert
  <2>3. over # None => ~MP!Forward
    BY <2>2, MergerValues DEF IterInv, MP!Forward, MP!Positions, MP!Moves
  <2>4. MP!Next
    BY <1>1, <2>1 DEF MP!Next
  <2>5. MP!MergeInv' /\ [MP!C!Next]_(MP!C!vars)
    BY <2>3, <2>4, MergerValues, MP!MergeStep DEF IterInv
  <2>6. MP!Valid' = MP!Valid /\ MP!Key' = MP!Key
    BY <2>2 DEF MP!Valid, MP!Key
  <2> QED
    BY <1>2, <2>2, <2>5, <2>6 DEF IterInv, ScanInv
<1>4. CASE ScanOvershoots(u, t, q)
  <2>1. MP!Overshoot(1, x) /\ pc = "scan"
    BY <1>4, SameWrites DEF ScanOvershoots
  <2>2. MP!Valid /\ merging = "forward" /\ over' = MP!Key
    BY <2>1 DEF MP!Overshoot
  <2>3. /\ over = None /\ MP!Key \in Int /\ MP!MergeAssumption /\ None \notin Int
        /\ saved \in Int /\ saved <= UserOf(MP!Key)
    BY <2>1, <2>2, MergerValues DEF IterInv, ScanInv
  <2>4. MP!Next
    BY <1>1, <2>1 DEF MP!Next
  <2>5. MP!MergeInv' /\ [MP!C!Next]_(MP!C!vars)
    BY <2>3, <2>4, MP!MergeStep DEF IterInv
  <2>6. MP!MergeInv' => (over # None => over \in Int /\ MP!Valid /\ MP!Key > over
                          /\ MP!Key \in Int)'
    BY MergerValues, PTL
  <2>7. over' # None /\ MP!Key' \in Int /\ over' <= MP!Key'
    BY <2>2, <2>3, <2>5, <2>6
  <2>8. UserOf(over') \in Int /\ UserOf(MP!Key') \in Int /\ UserOf(over') <= UserOf(MP!Key')
    BY <2>2, <2>3, <2>7, UserIsMonotone
  <2>9. saved <= UserOf(over') /\ saved <= UserOf(MP!Key')
    BY <2>2, <2>3, <2>8
  <2> QED
    BY <1>2, <2>1, <2>3, <2>5, <2>9 DEF IterInv, ScanInv
<1> QED
  BY <1>3, <1>4

LEMMA IterStep ==
  ASSUME IterInv, [Next]_vars
  PROVE  IterInv' /\ [MP!C!Next]_(MP!C!vars)
<1>1. pc # "scan" => over = None
  BY DEF IterInv, ScanInv
<1>2. CASE Step
  <2>1. pc = "idle" /\ pc' # "scan"
    BY <1>2 DEF Step, Begins, Forward, EndsInvalid
  <2>2. CASE UNCHANGED merger
    BY <1>1, <2>1, <2>2, Idles
  <2>3. CASE M!Forward \/ M!SeekToFirst
    <3>1. MP!Forward \/ MP!SeekToFirst
      BY <2>3, SameMerger
    <3>2. MP!Next /\ over' = None
      BY <3>1 DEF MP!Next, MP!Forward, MP!SeekToFirst, MP!Positions
    <3> QED
      BY <1>1, <2>1, <3>2, Elsewhere
  <2> QED
    BY <1>2, <2>2, <2>3 DEF Step
<1>3. ASSUME NEW t \in Users, Seek(t)
      PROVE  IterInv' /\ [MP!C!Next]_(MP!C!vars)
  <2>1. pc = "idle" /\ pc' # "scan"
    BY <1>3 DEF Seek, Begins, Forward, EndsInvalid
  <2>2. MP!Seek(Internal(t, Snapshot))
    BY <1>3, SameSeek DEF Seek
  <2>3. Internal(t, Snapshot) \in InternalKeys
    BY SnapshotAssumption DEF InternalKeys
  <2>4. MP!Next /\ over' = None
    BY <2>2, <2>3 DEF MP!Next, MP!Seek, MP!Positions
  <2> QED
    BY <1>1, <2>1, <2>4, Elsewhere
<1>4. CASE SeekToFirst
  <2>1. pc = "idle" /\ pc' # "scan"
    BY <1>4 DEF SeekToFirst, Begins, Forward, EndsInvalid
  <2>2. MP!SeekToFirst
    BY <1>4, SameMerger DEF SeekToFirst
  <2>3. MP!Next /\ over' = None
    BY <2>2 DEF MP!Next, MP!SeekToFirst, MP!Positions
  <2> QED
    BY <1>1, <2>1, <2>3, Elsewhere
<1>5. CASE SeekToLast
  <2>1. pc = "idle" /\ pc' # "scan"
    BY <1>5 DEF SeekToLast, Begins, Backward, BackwardEnds
  <2>2. MP!SeekToLast
    BY <1>5, SameMerger DEF SeekToLast
  <2>3. MP!Next /\ over' = None
    BY <2>2 DEF MP!Next, MP!SeekToLast, MP!Positions
  <2> QED
    BY <1>1, <2>1, <2>3, Elsewhere
<1>6. CASE Passes
  <2>1. pc = "forward" /\ pc' # "scan"
    BY <1>6 DEF Passes, EndsInvalid
  <2>2. MP!Forward
    BY <1>6, SameMerger DEF Passes
  <2>3. MP!Next /\ over' = None
    BY <2>2 DEF MP!Next, MP!Forward, MP!Positions
  <2> QED
    BY <1>1, <2>1, <2>3, Elsewhere
<1>7. CASE Collects
  <2>1. pc = "backward" /\ pc' # "scan"
    BY <1>7 DEF Collects, BackwardEnds
  <2>2. MP!Backward /\ over = None
    BY <1>1, <1>7, <2>1, SameMerger DEF Collects
  <2>3. MP!Next /\ over' = None
    BY <2>2 DEF MP!Next, MP!Backward
  <2> QED
    BY <2>1, <2>2, <2>3, Elsewhere
<1>8. CASE Yields \/ Stops \/ UNCHANGED vars
  BY <1>1, <1>8, Idles DEF Yields, Stops, vars, BackwardEnds
<1>9. CASE Prev
  <2>1. pc = "idle" /\ UNCHANGED merger
    BY <1>9 DEF Prev, Begins
  <2>2. CASE pc' # "scan"
    BY <1>1, <2>1, <2>2, Idles
  <2>3. CASE pc' = "scan"
    <3>1. saved' = User
      BY <1>9, <2>3 DEF Prev, Backward, BackwardEnds
    <3>2. MP!Valid' = MP!Valid /\ MP!Key' = MP!Key /\ over' = over /\ M!Key = MP!Key
      BY <2>1 DEF merger, MP!Valid, MP!Key, M!Key
    <3>3. MP!Valid => UserOf(MP!Key) \in Int /\ saved' = UserOf(MP!Key)
      BY <3>1, <3>2, MergerValues, UserIsMonotone DEF IterInv, User
    <3>4. UNCHANGED MP!vars
      BY <2>1 DEF merger, MP!vars
    <3>5. MP!MergeInv' /\ UNCHANGED MP!C!vars
      BY <3>4, MP!MergeIdles DEF IterInv
    <3> QED
      BY <1>1, <2>1, <3>2, <3>3, <3>5 DEF IterInv, ScanInv
  <2> QED
    BY <2>2, <2>3
<1>10. CASE Scan
  BY <1>10, ScanStep
<1>11. ASSUME NEW u \in Users, NEW t, NEW q \in Sequences,
              Write(u, t, q) \/ ScanOvershoots(u, t, q)
       PROVE  IterInv' /\ [MP!C!Next]_(MP!C!vars)
  BY <1>11, WriteStep
<1> QED
  BY <1>2, <1>3, <1>4, <1>5, <1>6, <1>7, <1>8, <1>9, <1>10, <1>11 DEF Next

LEMMA IterStarts ==
  ASSUME Init
  PROVE  IterInv /\ MP!C!Init
<1>1. MP!Init
  <2>1. PICK home \in [Entries -> 1..N] :
          content = [i \in 1..N |-> {Internal(user[q], q) : q \in {p \in Entries : home[p] = i}}]
    BY DEF Init
  <2>2. \A q \in Entries : q \in Sequences /\ user[q] \in Users
    BY DEF Init, Entries
  <2>3. \A q \in Entries : Internal(user[q], q) \in InternalKeys
    BY <2>2, SnapshotAssumption DEF InternalKeys, Sequences
  <2>4. content \in [1..N -> SUBSET InternalKeys]
    BY <2>1, <2>3
  <2>5. ASSUME NEW i \in 1..N, NEW j \in 1..N, NEW x \in content[i] \cap content[j]
        PROVE  i = j
    <3>1. PICK p \in Entries : home[p] = i /\ x = Internal(user[p], p)
      BY <2>1
    <3>2. PICK q \in Entries : home[q] = j /\ x = Internal(user[q], q)
      BY <2>1
    <3>3. p = q
      BY <2>2, <3>1, <3>2, InternalIsInjective
    <3> QED
      BY <3>1, <3>2, <3>3
  <2>6. M!Init
    BY <2>4, <2>5 DEF Init, M!Init
  <2> QED
    BY <2>6, SameMerger
<1>2. MP!MergeInv /\ MP!C!Init
  BY <1>1, SameMerger, MergerAssumption, MP!MergeStarts
<1> QED
  BY <1>2 DEF Init, IterInv, ScanInv

(* As DBIter uses it the merging iterator is a cursor over all entries:    *)
(* none is skipped or met twice when the direction changes, while one of   *)
(* its children is written to.                                             *)
THEOREM MergerIsACursorHere == Spec => MergerIsACursor
<1>1. Init => IterInv /\ MP!C!Init
  BY IterStarts
<1>2. IterInv /\ [Next]_vars => IterInv' /\ [MP!C!Next]_(MP!C!vars)
  BY IterStep
<1>3. IterInv => M!TypeOK
  BY SameMerger, MP!MergeTypesAre DEF IterInv
<1> QED
  BY <1>1, <1>2, <1>3, SameCursor, PTL
  DEF Spec, MergerIsACursor, M!ImplementsCursor, M!C!Spec
-----------------------------------------------------------------------------
(***************************************************************************)
(* What the snapshot reads never changes: what is written is newer.        *)
(***************************************************************************)
Readables == {q \in Entries : q <= Snapshot /\ type[q] # "corrupt"}
Old == {Internal(user[q], q) : q \in Readables}
ValueAt(x) == type[SeqOf(x)] = "value"

ContentInv ==
  /\ user \in [Sequences -> Users \cup {None}] /\ type \in [Sequences -> Types]
  /\ \A x \in M!All : \E q \in Entries : x = Internal(user[q], q)
  /\ Old \subseteq known

(* What the call under way has to show.                                    *)
Right(r) ==
  \/ call = <<"SeekToFirst">> /\ r \in C!Lowest(Visible, Visible)
  \/ call = <<"SeekToLast">> /\ r \in C!Highest(Visible, Visible)
  \/ \E t \in Users : /\ call = <<"Seek", Internal(t, Snapshot)>>
                      /\ r \in C!Lowest({x \in Visible : x >= Internal(t, Snapshot)}, Visible)
  \/ /\ call = <<"Next">> /\ before[1] # None
     /\ r \in C!Lowest({x \in Visible : x > before[1]}, Visible)
  \/ /\ call = <<"Prev">> /\ before[1] # None
     /\ r \in C!Highest({x \in Visible : x < before[1]}, Visible)

(* The entry that FindPrevUserEntry holds ready.                           *)
Saved == Internal(saved, savedValue)
SavedEntry ==
  /\ savedValue \in Readables /\ saved = user[savedValue] /\ type[savedValue] = "value"

(* The merging iterator, or the key it went past.                          *)
At == IF over # None THEN over ELSE M!Key

(* Between two calls: the entry that is shown is one of the snapshot's; in *)
(* reverse, the merging iterator is at the last readable one of the keys   *)
(* before it.                                                              *)
IdleInv ==
  valid =>
    \/ direction = "forward" /\ M!Valid /\ M!Key \in Visible
    \/ /\ direction = "reverse" /\ SavedEntry /\ Saved \in Visible
       /\ M!Valid => UserOf(M!Key) < saved
       /\ \A y \in Old : UserOf(y) < saved => M!Valid /\ y <= M!Key

(* In FindNextUserEntry.                                                   *)
ForwardInv ==
  /\ M!Valid /\ direction = "forward"
  /\ skipping => saved \in Int /\ \A y \in Old : y >= M!Key => UserOf(y) >= saved
  /\ \A y \in Old : y < M!Key /\ UserOf(y) = UserOf(M!Key) => skipping /\ UserOf(y) <= saved
  /\ \A r \in C!Lowest({x \in Visible : x >= M!Key /\ (skipping => UserOf(x) > saved)}, Visible) :
       Right(r)

(* In FindPrevUserEntry.                                                   *)
BackwardInv ==
  /\ M!Valid /\ direction = "reverse" /\ valueType \in {"value", "deletion"}
  /\ valueType = "value" =>
       /\ SavedEntry /\ M!Key < Saved /\ \A y \in Old : y > M!Key => y >= Saved
       /\ \A r \in C!Highest({x \in Visible : x <= Saved}, Visible) : Right(r)
  /\ valueType = "deletion" =>
       \A r \in C!Highest({x \in Visible : x <= M!Key}, Visible) : Right(r)

(* In the loop of Prev.                                                    *)
TurnInv ==
  /\ M!Valid /\ saved \in Int /\ UserOf(At) >= saved
  /\ \A r \in C!Highest({x \in Visible : UserOf(x) < saved}, Visible) : Right(r)

CallInv ==
  /\ pc \in {"idle", "forward", "backward", "scan"}
  /\ pc = "idle" => IdleInv
  /\ pc = "forward" => ForwardInv
  /\ pc = "backward" => BackwardInv
  /\ pc = "scan" => TurnInv

SnapshotInv == ContentInv /\ CallInv

(* The parts of an internal key.                                           *)
LEMMA InternalParts ==
  ASSUME NEW u \in Users, NEW q \in 0..MaxSeq
  PROVE  Internal(u, q) \in Int /\ UserOf(Internal(u, q)) = u /\ SeqOf(Internal(u, q)) = q
<1>1. ASSUME NEW a \in Nat, NEW d \in Nat, NEW r \in Nat, r < d
      PROVE  a * d + r \in Int /\ (a * d + r) \div d = a /\ (a * d + r) % d = r
  <2>1. ASSUME NEW e \in Int
        PROVE  /\ e \div d \in Int /\ e % d \in Int
               /\ e = (e \div d) * d + (e % d) /\ 0 <= e % d /\ e % d < d
    BY <1>1
  <2>2. ASSUME NEW b \in Int, NEW c \in Int, b < c
        PROVE  b * d + d <= c * d /\ b * d \in Int /\ c * d \in Int
    <3>1. c = b + 1 + (c - b - 1) /\ c - b - 1 \in Nat
      BY <2>2
    <3>2. ASSUME NEW k \in Nat PROVE (b + 1 + k) * d = b * d + d + k * d /\ k * d >= 0
      BY <1>1
    <3>3. c * d = b * d + d + (c - b - 1) * d /\ (c - b - 1) * d >= 0
      BY <3>1, <3>2
    <3>4. b * d \in Int /\ c * d \in Int /\ (c - b - 1) * d \in Int
      OBVIOUS
    <3> QED
      BY <3>3, <3>4
  <2>3. PICK e \in Int : e = a * d + r
    OBVIOUS
  <2>4. PICK b \in Int, s \in Int : /\ b = e \div d /\ s = e % d
                                    /\ e = b * d + s /\ 0 <= s /\ s < d
    BY <2>1
  <2>5. a * d \in Int /\ b * d \in Int
    OBVIOUS
  <2>6. ~(a < b) /\ ~(b < a)
    <3>1. a < b => a * d + d <= b * d
      BY <2>2
    <3>2. b < a => b * d + d <= a * d
      BY <2>2
    <3> QED
      BY <1>1, <2>3, <2>4, <2>5, <3>1, <3>2
  <2>7. a = b
    BY <2>6
  <2>8. r = s
    BY <2>3, <2>4, <2>5, <2>7
  <2> QED
    BY <2>3, <2>4, <2>7, <2>8
<1>2. u \in Nat /\ MaxSeq + 1 \in Nat /\ MaxSeq - q \in Nat /\ MaxSeq - q < MaxSeq + 1
  BY SnapshotAssumption
<1>3. /\ Internal(u, q) \in Int /\ Internal(u, q) \div (MaxSeq + 1) = u
      /\ Internal(u, q) % (MaxSeq + 1) = MaxSeq - q
  BY <1>1, <1>2 DEF Internal
<1>4. UserOf(Internal(u, q)) = u
  BY <1>3 DEF UserOf
<1>5. SeqOf(Internal(u, q)) = q
  BY <1>3, SnapshotAssumption DEF SeqOf
<1> QED
  BY <1>3, <1>4, <1>5

LEMMA InternalOrder ==
  ASSUME NEW u \in Users, NEW p \in 0..MaxSeq, NEW q \in 0..MaxSeq
  PROVE  Internal(u, p) <= Internal(u, q) <=> q <= p
<1>1. u * (MaxSeq + 1) \in Int /\ MaxSeq \in Nat
  BY SnapshotAssumption
<1> QED
  BY <1>1 DEF Internal

LEMMA EntriesAre ==
  ASSUME ContentInv
  PROVE  /\ \A q \in Entries : q \in Sequences /\ q \in 0..MaxSeq /\ user[q] \in Users
         /\ \A q \in Entries : /\ Internal(user[q], q) \in Int
                               /\ UserOf(Internal(user[q], q)) = user[q]
                               /\ SeqOf(Internal(user[q], q)) = q
<1>1. \A q \in Entries : q \in Sequences /\ q \in 0..MaxSeq /\ user[q] \in Users
  BY SnapshotAssumption DEF Entries, Sequences, ContentInv
<1> QED
  BY <1>1, InternalParts

LEMMA OldAre ==
  ASSUME ContentInv, NEW x \in Old
  PROVE  /\ x \in Int /\ UserOf(x) \in Users /\ UserOf(x) \in Int /\ SeqOf(x) \in Readables
         /\ user[SeqOf(x)] = UserOf(x) /\ x = Internal(UserOf(x), SeqOf(x)) /\ x \in known
<1>1. PICK q \in Readables : x = Internal(user[q], q)
  BY DEF Old
<1>2. q \in Entries /\ user[q] \in Users /\ Users \subseteq Nat
  BY EntriesAre, SnapshotAssumption DEF Readables
<1>3. x \in Int /\ UserOf(x) = user[q] /\ SeqOf(x) = q
  BY <1>1, <1>2, EntriesAre
<1>4. x \in known
  BY DEF ContentInv
<1>5. x = Internal(UserOf(x), SeqOf(x))
  BY <1>1, <1>3, Zenon
<1>6. UserOf(x) \in Users
  BY <1>2, <1>3, Zenon
<1>8. UserOf(x) \in Int
  <2>1. \A u \in Users : u \in Int
    BY SnapshotAssumption
  <2> QED
    BY <1>6, <2>1
<1>7. SeqOf(x) \in Readables /\ user[SeqOf(x)] = UserOf(x)
  BY <1>3, Zenon
<1> QED
  BY <1>3, <1>4, <1>5, <1>6, <1>7, <1>8

LEMMA NewestAre ==
  ASSUME ContentInv, NEW u, Newest(u) # {}
  PROVE  /\ Max(Newest(u)) \in Newest(u)
         /\ \A q \in Newest(u) : q <= Max(Newest(u))
<1> DEFINE S == {Internal(u, q) : q \in Newest(u)}
<1>1. \A q \in Newest(u) : q \in Entries /\ q \in 0..MaxSeq /\ user[q] = u /\ u \in Users
  BY EntriesAre DEF Newest
<1>2. u \in Users
  BY <1>1
<1>3. S \in (SUBSET InternalKeys) \ {{}}
  BY <1>1 DEF InternalKeys
<1>4. \E x \in S : \A y \in S : x <= y
  BY <1>3, MergerAssumption DEF M!MergeAssumption
<1>5. PICK m \in Newest(u) : \A y \in S : Internal(u, m) <= y
  BY <1>4
<1>6. \A q \in Newest(u) : m >= q
  <2> SUFFICES ASSUME NEW q \in Newest(u) PROVE m >= q
    OBVIOUS
  <2>1. Internal(u, m) <= Internal(u, q)
    BY <1>5
  <2>2. q <= m
    BY <1>1, <1>2, <2>1, InternalOrder
  <2> QED
    BY <1>1, <2>2
<1>7. Max(Newest(u)) \in Newest(u) /\ \A q \in Newest(u) : Max(Newest(u)) >= q
  BY <1>6 DEF Max
<1> QED
  BY <1>1, <1>7

(* What is visible: the first readable entry of a key, if it is a value.   *)
LEMMA VisibleAre ==
  ASSUME ContentInv
  PROVE  \A x : x \in Visible <=> /\ x \in Old /\ ValueAt(x)
                                  /\ \A y \in Old : UserOf(y) = UserOf(x) => x <= y
<1>1. ASSUME NEW x \in Visible
      PROVE  x \in Old /\ ValueAt(x) /\ \A y \in Old : UserOf(y) = UserOf(x) => x <= y
  <2>1. PICK u \in Users : /\ Newest(u) # {} /\ type[Max(Newest(u))] = "value"
                           /\ x = Internal(u, Max(Newest(u)))
    BY DEF Visible
  <2>2. PICK m : m = Max(Newest(u))
    OBVIOUS
  <2>3. m \in Newest(u) /\ \A q \in Newest(u) : q <= m
    BY <2>1, <2>2, NewestAre
  <2>4. m \in Readables /\ m \in Entries /\ user[m] = u
    BY <2>3 DEF Newest, Readables
  <2>5. x \in Old
    BY <2>1, <2>2, <2>4 DEF Old
  <2>6. SeqOf(x) = m /\ UserOf(x) = u /\ m \in 0..MaxSeq
    BY <2>1, <2>2, <2>4, EntriesAre
  <2>7. ASSUME NEW y \in Old, UserOf(y) = UserOf(x) PROVE x <= y
    <3>1. /\ SeqOf(y) \in Readables /\ user[SeqOf(y)] = u /\ y = Internal(u, SeqOf(y))
      BY <2>6, <2>7, OldAre
    <3>2. SeqOf(y) \in Newest(u) /\ SeqOf(y) \in 0..MaxSeq
      BY <3>1, EntriesAre DEF Newest, Readables
    <3>3. SeqOf(y) <= m
      BY <2>3, <3>2
    <3> QED
      BY <2>1, <2>2, <2>6, <3>1, <3>2, <3>3, InternalOrder
  <2> QED
    BY <2>1, <2>2, <2>5, <2>6, <2>7 DEF ValueAt
<1>2. ASSUME NEW x \in Old, ValueAt(x), \A y \in Old : UserOf(y) = UserOf(x) => x <= y
      PROVE  x \in Visible
  <2>1. PICK u \in Users : u = UserOf(x)
    BY OldAre
  <2>2. PICK q \in Readables : q = SeqOf(x)
    BY OldAre
  <2>3. x = Internal(u, q) /\ user[q] = u /\ q \in Entries /\ q \in 0..MaxSeq
    BY <2>1, <2>2, OldAre, EntriesAre DEF Readables
  <2>4. q \in Newest(u)
    BY <2>2, <2>3 DEF Newest, Readables
  <2>5. PICK m : m = Max(Newest(u))
    OBVIOUS
  <2>6. m \in Newest(u) /\ q <= m
    BY <2>4, <2>5, NewestAre
  <2>7. m \in Readables /\ user[m] = u /\ m \in 0..MaxSeq /\ m \in Entries
    BY <2>6, EntriesAre DEF Newest, Readables
  <2>8. Internal(u, m) \in Old /\ UserOf(Internal(u, m)) = u
    BY <2>7, EntriesAre DEF Old
  <2>9. x <= Internal(u, m)
    BY <1>2, <2>1, <2>8
  <2>10. m <= q
    BY <2>3, <2>7, <2>9, InternalOrder
  <2>11. m = q
    BY <2>3, <2>6, <2>7, <2>10
  <2>12. type[m] = "value" /\ Newest(u) # {}
    BY <1>2, <2>2, <2>4, <2>11 DEF ValueAt
  <2> QED
    BY <2>3, <2>5, <2>11, <2>12 DEF Visible
<1> QED
  BY <1>1, <1>2

-----------------------------------------------------------------------------
(***************************************************************************)
(* What a move of the merging iterator finds, of what the snapshot reads.  *)
(***************************************************************************)
KeyIs ==
  M!Valid => /\ M!Key \in Int /\ UserOf(M!Key) \in Users /\ UserOf(M!Key) \in Int
             /\ M!Key = Internal(UserOf(M!Key), SeqOf(M!Key)) /\ SeqOf(M!Key) \in Entries
             /\ user[SeqOf(M!Key)] = UserOf(M!Key)
             /\ (Readable <=> M!Key \in Old)

LEMMA KeysAre ==
  ASSUME IterInv, ContentInv
  PROVE  KeyIs /\ (M!Valid <=> MP!Valid) /\ M!Key = MP!Key
<1>1. (M!Valid <=> MP!Valid) /\ M!Key = MP!Key
  BY DEF M!Valid, MP!Valid, M!Key, MP!Key
<1>2. ASSUME M!Valid PROVE M!Key \in M!All
  <2>1. MP!Valid /\ MP!MergeTypes /\ MP!Sided /\ current \in 1..N /\ pos[current] # None
    BY <1>1, <1>2 DEF IterInv, MP!MergeInv, MP!MergeTypes, MP!Valid
  <2>2. pos[current] \in content[current]
    BY <2>1 DEF MP!Sided, MP!After, MP!Before, MP!Beyond, MP!MergeTypes, MP!Key
  <2> QED
    BY <2>1, <2>2 DEF M!All, M!Key
<1>3. ASSUME M!Valid PROVE KeyIs
  <2>1. PICK q \in Entries : M!Key = Internal(user[q], q)
    BY <1>2, <1>3 DEF ContentInv
  <2>2. /\ M!Key \in Int /\ UserOf(M!Key) = user[q] /\ SeqOf(M!Key) = q
        /\ user[q] \in Users
    BY <2>1, EntriesAre
  <2>3. \A u \in Users : u \in Int
    BY SnapshotAssumption
  <2>4. M!Key = Internal(UserOf(M!Key), SeqOf(M!Key)) /\ UserOf(M!Key) \in Users
    BY <2>1, <2>2, Zenon
  <2>5. UserOf(M!Key) \in Int
    BY <2>3, <2>4
  <2>6. Readable <=> q \in Readables
    <3>1. type[q] # "corrupt" /\ q <= Snapshot <=> q \in Readables
      BY DEF Readables
    <3> QED
      BY <2>2, <3>1, Zenon DEF Readable, Seq
  <2>7. q \in Readables => M!Key \in Old
    BY <2>1 DEF Old
  <2>8. M!Key \in Old => q \in Readables
    BY <2>2, OldAre
  <2>9. SeqOf(M!Key) \in Entries /\ user[SeqOf(M!Key)] = UserOf(M!Key)
    BY <2>2, Zenon
  <2> QED
    BY <2>2, <2>4, <2>5, <2>6, <2>7, <2>8, <2>9 DEF KeyIs
<1> QED
  BY <1>1, <1>3 DEF KeyIs

(* The merging iterator is now at the first key it knows above those of L, *)
(* or there is none.                                                       *)
Above(S) ==
  /\ current' = None => S = {}
  /\ current' # None => M!Key' \in Int /\ \A y \in S : y >= M!Key'
Below(S) ==
  /\ current' = None => S = {}
  /\ current' # None => M!Key' \in Int /\ \A y \in S : y <= M!Key'

LEMMA KeysAfterwards ==
  ASSUME IterInv'
  PROVE  /\ None \notin Int /\ M!Key' = MP!Key' /\ (MP!Valid' <=> current' # None)
         /\ current' # None => M!Key' \in Int
<1>1. (MP!MergeInv => None \notin Int /\ (MP!Valid => MP!Key \in Int))'
  BY MergerValues, PTL
<1>2. M!Key' = MP!Key' /\ (MP!Valid' <=> current' # None)
  BY DEF M!Key, MP!Key, MP!Valid
<1> QED
  BY <1>1, <1>2 DEF IterInv

LEMMA KnownAre ==
  ASSUME IterInv, ContentInv
  PROVE  None \notin MP!All /\ \A x \in Old : x \in known /\ x \in MP!All /\ x \in Int
<1>1. MP!MergeTypes /\ MP!MergeAssumption
  BY MergerValues DEF IterInv
<1>2. None \notin MP!All
  BY <1>1, MP!KeysAreIntegers
<1> QED
  BY <1>1, <1>2, OldAre DEF MP!MergeTypes

LEMMA MovesForward ==
  ASSUME IterInv, IterInv', ContentInv, over = None, M!Forward
  PROVE  /\ M!Valid /\ Above({x \in Old : x > M!Key}) /\ over' = None /\ known' = known
         /\ current' # None => M!Key' > M!Key
<1>1. MP!Forward /\ MP!MergeInv /\ MP!MergeAssumption
  BY SameMerger, MergerValues DEF IterInv
<1>2. MP!C!Forward
  BY <1>1, MP!GoesForward
<1>3. over' = None /\ known' = known /\ MP!Valid
  BY <1>1 DEF MP!Forward, MP!Positions, MP!Moves
<1>4. M!Key = MP!Key /\ M!Valid
  BY <1>3, KeysAre
<1>5. (IF current' = None THEN None ELSE M!Key')
         \in MP!C!Lowest({x \in MP!All : x > M!Key}, known)
  BY <1>2, <1>3, <1>4, KeysAfterwards DEF MP!C!Forward, MP!C!Moves
<1>6. None \notin MP!All /\ \A x \in Old : x \in known /\ x \in MP!All
  BY KnownAre
<1>7. current' = None => {x \in Old : x > M!Key} = {}
  BY <1>5, <1>6, KeysAfterwards DEF MP!C!Lowest
<1>8. current' # None => M!Key' \in Int /\ M!Key' # None
  BY KeysAfterwards
<1>9. current' # None => M!Key' > M!Key /\ \A y \in {x \in Old : x > M!Key} : y >= M!Key'
  BY <1>5, <1>6, <1>8, OldAre DEF MP!C!Lowest
<1> QED
  BY <1>3, <1>4, <1>7, <1>8, <1>9 DEF Above

LEMMA MovesToFirst ==
  ASSUME IterInv, IterInv', ContentInv, M!SeekToFirst
  PROVE  Above(Old) /\ over' = None /\ known' = known
<1>1. MP!SeekToFirst /\ MP!MergeInv /\ MP!MergeAssumption
  BY SameMerger, MergerValues DEF IterInv
<1>2. MP!C!SeekToFirst
  BY <1>1, MP!SeeksToFirst
<1>3. over' = None /\ known' = known
  BY <1>1 DEF MP!SeekToFirst, MP!Positions, MP!Moves
<1>4. (IF current' = None THEN None ELSE M!Key') \in MP!C!Lowest(MP!All, known)
  BY <1>2, <1>3, KeysAfterwards DEF MP!C!SeekToFirst, MP!C!Moves
<1>5. None \notin MP!All /\ \A x \in Old : x \in known /\ x \in MP!All
  BY KnownAre
<1>6. current' = None => Old = {}
  BY <1>4, <1>5, KeysAfterwards DEF MP!C!Lowest
<1>7. current' # None => M!Key' \in Int /\ M!Key' # None
  BY KeysAfterwards
<1>8. current' # None => \A y \in Old : y >= M!Key'
  BY <1>4, <1>5, <1>7, OldAre DEF MP!C!Lowest
<1> QED
  BY <1>3, <1>6, <1>7, <1>8 DEF Above

LEMMA MovesToLast ==
  ASSUME IterInv, IterInv', ContentInv, M!SeekToLast
  PROVE  Below(Old) /\ over' = None /\ known' = known
<1>1. MP!SeekToLast /\ MP!MergeInv /\ MP!MergeAssumption
  BY SameMerger, MergerValues DEF IterInv
<1>2. MP!C!SeekToLast
  BY <1>1, MP!SeeksToLast
<1>3. over' = None /\ known' = known
  BY <1>1 DEF MP!SeekToLast, MP!Positions, MP!Moves
<1>4. (IF current' = None THEN None ELSE M!Key') \in MP!C!Highest(MP!All, known)
  BY <1>2, <1>3, KeysAfterwards DEF MP!C!SeekToLast, MP!C!Moves
<1>5. None \notin MP!All /\ \A x \in Old : x \in known /\ x \in MP!All
  BY KnownAre
<1>6. current' = None => Old = {}
  BY <1>4, <1>5, KeysAfterwards DEF MP!C!Highest
<1>7. current' # None => M!Key' \in Int /\ M!Key' # None
  BY KeysAfterwards
<1>8. current' # None => \A y \in Old : y <= M!Key'
  BY <1>4, <1>5, <1>7, OldAre DEF MP!C!Highest
<1> QED
  BY <1>3, <1>6, <1>7, <1>8 DEF Below

LEMMA MovesTo ==
  ASSUME IterInv, IterInv', ContentInv, NEW t \in InternalKeys, t \in Int, M!Seek(t)
  PROVE  /\ Above({x \in Old : x >= t}) /\ over' = None /\ known' = known
         /\ current' # None => M!Key' >= t
<1>1. MP!Seek(t) /\ MP!MergeInv /\ MP!MergeAssumption
  BY SameSeek, MergerValues DEF IterInv
<1>2. MP!C!Seek(t)
  BY <1>1, MP!Seeks
<1>3. over' = None /\ known' = known
  BY <1>1 DEF MP!Seek, MP!Positions, MP!Moves
<1>4. (IF current' = None THEN None ELSE M!Key')
         \in MP!C!Lowest({x \in MP!All : x >= t}, known)
  BY <1>2, <1>3, KeysAfterwards DEF MP!C!Seek, MP!C!Moves
<1>5. None \notin MP!All /\ \A x \in Old : x \in known /\ x \in MP!All
  BY KnownAre
<1>6. current' = None => {x \in Old : x >= t} = {}
  BY <1>4, <1>5, KeysAfterwards DEF MP!C!Lowest
<1>7. current' # None => M!Key' \in Int /\ M!Key' # None
  BY KeysAfterwards
<1>8. current' # None => M!Key' >= t /\ \A y \in {x \in Old : x >= t} : y >= M!Key'
  BY <1>4, <1>5, <1>7, OldAre DEF MP!C!Lowest
<1> QED
  BY <1>3, <1>6, <1>7, <1>8 DEF Above

(* A Prev from a key it went past may still be past it.                    *)
LEMMA MovesBackward ==
  ASSUME IterInv, IterInv', ContentInv, M!Backward
  PROVE  /\ M!Valid /\ At \in Int /\ (over = None => At = M!Key)
         /\ known' = known
         /\ \/ over # None /\ over' = over /\ current' # None /\ At' = At
            \/ over' = None /\ Below({x \in Old : x < At}) /\ (current' # None => M!Key' < At)
<1>1. MP!Backward /\ MP!MergeInv /\ MP!MergeAssumption
  BY SameMerger, MergerValues DEF IterInv
<1>2. known' = known /\ MP!Valid
  BY <1>1 DEF MP!Backward, MP!Moves
<1>3. M!Key = MP!Key /\ M!Valid /\ At \in Int
  BY <1>1, <1>2, KeysAre, MergerValues DEF At
<1>4. None \notin MP!All /\ \A x \in Old : x \in known /\ x \in MP!All
  BY KnownAre
<1>5. CASE over # None /\ over' # None
  <2>1. over' = over /\ current' # None
    BY <1>1, <1>5 DEF MP!Backward
  <2> QED
    BY <1>2, <1>3, <1>5, <2>1 DEF At
<1>6. CASE over' = None
  <2>1. MP!C!Backward
    <3>1. CASE over = None
      BY <1>1, <3>1, MP!GoesBackward
    <3>2. CASE over # None
      <4>1. MP!C!Backward \/ UNCHANGED MP!C!vars
        BY <1>1, <3>2, MP!ComesBack
      <4>2. ASSUME UNCHANGED MP!C!vars PROVE FALSE
        <5>1. (IF ~MP!Valid THEN None ELSE IF over # None THEN over ELSE MP!Key)'
                = (IF ~MP!Valid THEN None ELSE IF over # None THEN over ELSE MP!Key)
          BY <4>2 DEF MP!C!vars
        <5>2. current' # None /\ M!Key' = over /\ over # None
          BY <1>2, <1>6, <3>2, <5>1, KeysAfterwards
        <5>3. /\ MP!Beyond /\ MP!MergeTypes /\ merging = "reverse" /\ current \in 1..N
              /\ MP!MergeTypes'
          BY <1>1, <1>2, <3>2, MergerValues DEF MP!MergeInv, MP!Sided, IterInv, MP!MergeTypes, MP!Valid
        <5>4. current' \in 1..N /\ pos'[current'] = over
          BY <5>2, <5>3 DEF M!Key, MP!MergeTypes
        <5>5. pos'[current'] = IF current' = current THEN MP!ChildPrev(current')
                               ELSE pos[current']
          BY <1>1, <5>3, <5>4 DEF MP!Backward, MP!Moves, MP!BroughtBefore
        <5>6. ASSUME current' # current PROVE FALSE
          <6>1. pos[current'] < over /\ pos[current'] = over /\ over \in Int
            BY <3>2, <5>3, <5>4, <5>5, <5>6, <1>1, MergerValues DEF MP!Beyond
          <6> QED
            BY <6>1
        <5>7. ASSUME current' = current PROVE FALSE
          <6>1. {x \in content[current] : x < pos[current]} \in SUBSET InternalKeys
            BY <5>3 DEF MP!MergeTypes
          <6>2. MP!ChildPrev(current) = None \/ MP!ChildPrev(current) \in content[current]
            BY <1>1, <6>1, MP!HighestIs DEF MP!ChildPrev
          <6> QED
            BY <3>2, <5>3, <5>4, <5>5, <5>7, <6>2 DEF MP!Beyond
        <5> QED
          BY <5>6, <5>7
      <4> QED
        BY <4>1, <4>2
    <3> QED
      BY <3>1, <3>2
  <2>2. (IF current' = None THEN None ELSE M!Key')
           \in MP!C!Highest({x \in MP!All : x < At}, known)
    BY <1>2, <1>3, <1>6, <2>1, KeysAfterwards DEF MP!C!Backward, MP!C!Moves, At
  <2>3. current' = None => {x \in Old : x < At} = {}
    BY <1>4, <2>2, KeysAfterwards DEF MP!C!Highest
  <2>4. current' # None => M!Key' \in Int /\ M!Key' # None
    BY KeysAfterwards
  <2>5. current' # None => M!Key' < At /\ \A y \in {x \in Old : x < At} : y <= M!Key'
    BY <1>3, <1>4, <2>2, <2>4, OldAre DEF MP!C!Highest
  <2> QED
    BY <1>2, <1>3, <1>6, <2>3, <2>4, <2>5 DEF Below, At
<1>7. over = None => over' = None
  BY <1>1 DEF MP!Backward
<1> QED
  BY <1>5, <1>6, <1>7

-----------------------------------------------------------------------------
(* What is read stays what it is.                                          *)
SameReads ==
  /\ Readables' = Readables /\ Old' = Old /\ Visible' = Visible
  /\ \A q \in Readables : user'[q] = user[q] /\ type'[q] = type[q]

LEMMA Unwritten ==
  ASSUME UNCHANGED written
  PROVE  SameReads
<1>1. user' = user /\ type' = type
  BY DEF written
<1>2. Entries' = Entries /\ Readables' = Readables
  BY <1>1 DEF Entries, Readables
<1>3. Old' = Old
  BY <1>1, <1>2 DEF Old
<1>4. Visible' = Visible
  BY <1>1, <1>2 DEF Visible, Newest
<1> QED
  BY <1>1, <1>2, <1>3, <1>4 DEF SameReads

LEMMA ContentStays ==
  ASSUME ContentInv, UNCHANGED <<written, content, known>>
  PROVE  ContentInv'
<1>1. user' = user /\ type' = type /\ content' = content /\ known' = known
  BY DEF written
<1>2. Entries' = Entries /\ M!All' = M!All
  BY <1>1 DEF Entries, M!All
<1>3. Old' = Old
  BY <1>1, <1>2 DEF Old, Readables
<1> QED
  BY <1>1, <1>2, <1>3 DEF ContentInv

LEMMA WritesAreNewer ==
  ASSUME IterInv, ContentInv, NEW u \in Users, NEW t \in {"value", "deletion"},
         NEW q \in Sequences, Written(u, t, q), known' = known,
         \A x \in M!All' : x \in M!All \/ x = Internal(u, q)
  PROVE  SameReads /\ ContentInv'
<1>1. /\ q > Snapshot /\ \A p \in Entries : p < q
      /\ user' = [user EXCEPT ![q] = u] /\ type' = [type EXCEPT ![q] = t]
  BY DEF Written
<1>2. /\ user \in [Sequences -> Users \cup {None}] /\ type \in [Sequences -> Types]
      /\ Snapshot \in Int /\ Users \subseteq Nat /\ None \notin Int /\ Sequences \subseteq Int
  BY SnapshotAssumption, MergerValues DEF ContentInv, Sequences, IterInv
<1>3. /\ user' \in [Sequences -> Users \cup {None}] /\ type' \in [Sequences -> Types]
      /\ user'[q] = u /\ u # None
      /\ \A p \in Sequences : p # q => user'[p] = user[p] /\ type'[p] = type[p]
  BY <1>1, <1>2 DEF Types
<1>4. Entries' = Entries \cup {q}
  BY <1>3 DEF Entries
<1>5. \A p \in Entries : p \in Sequences /\ p # q /\ user'[p] = user[p] /\ type'[p] = type[p]
  <2>1. \A p \in Entries : p \in Sequences /\ p < q /\ p \in Int /\ q \in Int
    BY <1>1, <1>2 DEF Entries
  <2> QED
    BY <1>3, <2>1
<1>6. ~(q <= Snapshot)
  BY <1>1, <1>2
<1>7. Readables' = Readables
  BY <1>4, <1>5, <1>6 DEF Readables
<1>8. \A p \in Readables : user'[p] = user[p] /\ type'[p] = type[p]
  BY <1>5 DEF Readables
<1>9. Old' = Old
  BY <1>7, <1>8 DEF Old
<1>10. ASSUME NEW v PROVE Newest(v)' = Newest(v)
  BY <1>4, <1>5, <1>6 DEF Newest
<1>11. Visible' = Visible
  <2>1. \A v \in Users : Newest(v) # {} => type'[Max(Newest(v))] = type[Max(Newest(v))]
    <3> SUFFICES ASSUME NEW v \in Users, Newest(v) # {}
                 PROVE  type'[Max(Newest(v))] = type[Max(Newest(v))]
      OBVIOUS
    <3>1. Max(Newest(v)) \in Newest(v)
      BY NewestAre
    <3>2. Max(Newest(v)) \in Entries
      BY <3>1 DEF Newest
    <3> QED
      BY <1>5, <3>2
  <2>2. {v \in Users : Newest(v)' # {} /\ type'[Max(Newest(v)')] = "value"}
          = {v \in Users : Newest(v) # {} /\ type[Max(Newest(v))] = "value"}
    BY <1>10, <2>1
  <2>3. Visible' = {Internal(v, Max(Newest(v)')) :
                      v \in {w \in Users : Newest(w)' # {} /\ type'[Max(Newest(w)')] = "value"}}
    BY DEF Visible
  <2> QED
    BY <1>10, <2>2, <2>3 DEF Visible
<1>12. ASSUME NEW x \in M!All' PROVE \E p \in Entries' : x = Internal(user'[p], p)
  <2>1. CASE x = Internal(u, q)
    BY <1>3, <1>4, <2>1
  <2>2. CASE x \in M!All
    <3>1. PICK p \in Entries : x = Internal(user[p], p)
      BY <2>2 DEF ContentInv
    <3> QED
      BY <1>4, <1>5, <3>1
  <2> QED
    BY <2>1, <2>2
<1>13. Old' \subseteq known'
  BY <1>9 DEF ContentInv
<1> QED
  BY <1>3, <1>7, <1>8, <1>9, <1>11, <1>12, <1>13 DEF SameReads, ContentInv

(* The invariant while nothing moves.                                      *)
LEMMA CallStays ==
  ASSUME CallInv, SameReads,
         UNCHANGED <<current, pos, over, direction, valid, saved, savedValue, skipping,
                     valueType, pc, call, before>>
  PROVE  CallInv' /\ Shown' = Shown
<1>1. M!Key' = M!Key /\ (M!Valid' <=> M!Valid) /\ At' = At /\ Shown' = Shown /\ Saved' = Saved
  BY DEF M!Key, M!Valid, At, Shown, Saved
<1>2. SavedEntry => SavedEntry'
  BY DEF SavedEntry, SameReads
<1>3. ASSUME NEW r PROVE Right(r)' <=> Right(r)
  BY DEF Right, SameReads
<1>4. IdleInv => IdleInv'
  BY <1>1, <1>2 DEF IdleInv, SameReads
<1>5. ForwardInv => ForwardInv'
  BY <1>1, <1>3 DEF ForwardInv, SameReads
<1>6. BackwardInv => BackwardInv'
  BY <1>1, <1>2, <1>3 DEF BackwardInv, SameReads
<1>7. TurnInv => TurnInv'
  BY <1>1, <1>3 DEF TurnInv, SameReads
<1> QED
  BY <1>1, <1>4, <1>5, <1>6, <1>7 DEF CallInv

-----------------------------------------------------------------------------
(***************************************************************************)
(* The calls.  A turn of a loop leaves what is sought unchanged, until it  *)
(* is found or there is nothing left to look at.                           *)
(***************************************************************************)
LEMMA UsersRise ==
  \A e, f \in Int : UserOf(e) \in Int /\ UserOf(f) \in Int /\ (e <= f => UserOf(e) <= UserOf(f))
  BY UserIsMonotone

LEMMA RightStays ==
  ASSUME SameReads, UNCHANGED <<call, before>>, NEW r
  PROVE  Right(r)' <=> Right(r)
  BY DEF Right, SameReads

LEMMA Begun ==
  ASSUME SameReads, pc = "idle", before' = <<Shown, call>>, pc' # "idle"
  PROVE  UNCHANGED C!vars
  BY DEF C!vars, SameReads

LEMMA GoesOn ==
  ASSUME SameReads, pc # "idle", pc' # "idle", UNCHANGED <<call, before>>
  PROVE  UNCHANGED C!vars
  BY DEF C!vars, SameReads

LEMMA Ended ==
  ASSUME SameReads, pc' = "idle", Right(Shown)',
         \/ pc = "idle" /\ before' = <<Shown, call>>
         \/ pc # "idle" /\ UNCHANGED <<call, before>>
  PROVE  C!Next
<1> DEFINE at == IF pc = "idle" THEN Shown ELSE before[1]
<1>1. at = before'[1] /\ Visible' = Visible
  BY DEF SameReads
<1>8. \/ call' = <<"SeekToFirst">> /\ Shown' \in C!Lowest(Visible', Visible')
      \/ call' = <<"SeekToLast">> /\ Shown' \in C!Highest(Visible', Visible')
      \/ \E t \in Users : /\ call' = <<"Seek", Internal(t, Snapshot)>>
                          /\ Shown' \in C!Lowest({x \in Visible' : x >= Internal(t, Snapshot)}, Visible')
      \/ /\ call' = <<"Next">> /\ before'[1] # None
         /\ Shown' \in C!Lowest({x \in Visible' : x > before'[1]}, Visible')
      \/ /\ call' = <<"Prev">> /\ before'[1] # None
         /\ Shown' \in C!Highest({x \in Visible' : x < before'[1]}, Visible')
  BY DEF Right
<1>2. \/ call' = <<"SeekToFirst">> /\ Shown' \in C!Lowest(Visible, Visible)
      \/ call' = <<"SeekToLast">> /\ Shown' \in C!Highest(Visible, Visible)
      \/ \E t \in Users : /\ call' = <<"Seek", Internal(t, Snapshot)>>
                          /\ Shown' \in C!Lowest({x \in Visible : x >= Internal(t, Snapshot)}, Visible)
      \/ /\ call' = <<"Next">> /\ at # None
         /\ Shown' \in C!Lowest({x \in Visible : x > at}, Visible)
      \/ /\ call' = <<"Prev">> /\ at # None
         /\ Shown' \in C!Highest({x \in Visible : x < at}, Visible)
  BY <1>1, <1>8, Zenon
<1>3. CASE call' = <<"SeekToFirst">> /\ Shown' \in C!Lowest(Visible, Visible)
  BY <1>1, <1>3 DEF C!Next, C!SeekToFirst, C!Moves
<1>4. CASE call' = <<"SeekToLast">> /\ Shown' \in C!Highest(Visible, Visible)
  BY <1>1, <1>4 DEF C!Next, C!SeekToLast, C!Moves
<1>5. CASE \E t \in Users :
             /\ call' = <<"Seek", Internal(t, Snapshot)>>
             /\ Shown' \in C!Lowest({x \in Visible : x >= Internal(t, Snapshot)}, Visible)
  BY <1>1, <1>5 DEF C!Next, C!Seek, C!Moves
<1>6. CASE /\ call' = <<"Next">> /\ at # None
           /\ Shown' \in C!Lowest({x \in Visible : x > at}, Visible)
  BY <1>1, <1>6 DEF C!Next, C!Forward, C!Moves
<1>7. CASE /\ call' = <<"Prev">> /\ at # None
           /\ Shown' \in C!Highest({x \in Visible : x < at}, Visible)
  BY <1>1, <1>7 DEF C!Next, C!Backward, C!Moves
<1> QED
  BY <1>2, <1>3, <1>4, <1>5, <1>6, <1>7

(* Nothing is left: the iterator is not valid.                             *)
LEMMA EndsWithNothing ==
  ASSUME SameReads, pc' = "idle", valid' = FALSE, Right(None)',
         \/ pc = "idle" /\ before' = <<Shown, call>>
         \/ pc # "idle" /\ UNCHANGED <<call, before>>
  PROVE  CallInv' /\ C!Next
<1>1. Shown' = None
  BY DEF Shown
<1>2. Right(Shown)'
  BY <1>1 DEF Right
<1>3. C!Next
  BY <1>2, Ended
<1> QED
  BY <1>3 DEF CallInv, IdleInv

LEMMA PassStep ==
  ASSUME IterInv, IterInv', SnapshotInv, Passes
  PROVE  CallInv' /\ [C!Next]_(C!vars)
<1> DEFINE k == M!Key
           deletes == Readable /\ type[Seq] = "deletion"
           skip == skipping \/ deletes
           key == IF deletes THEN User ELSE saved
           S == {x \in Visible : x >= k /\ (skipping => UserOf(x) > saved)}
           T == {x \in Visible : x > k /\ (skip => UserOf(x) > key)}
<1>1. /\ pc = "forward" /\ M!Forward /\ ForwardInv /\ ContentInv /\ SameReads
      /\ ~(Readable /\ type[Seq] = "value" /\ ~(skipping /\ User <= saved))
      /\ UNCHANGED <<direction, call, before>>
  BY Unwritten DEF Passes, SnapshotInv, CallInv
<1>2. over = None
  BY <1>1 DEF IterInv, ScanInv
<1>3. /\ M!Valid /\ Above({x \in Old : x > k}) /\ over' = None
      /\ current' # None => M!Key' > k
  BY <1>1, <1>2, MovesForward
<1>4. /\ k \in Int /\ UserOf(k) \in Int /\ User = UserOf(k) /\ Seq = SeqOf(k)
      /\ (Readable <=> k \in Old)
  BY <1>1, <1>3, KeysAre DEF KeyIs, User, Seq
<1>5. \A x \in Old : x \in Int /\ UserOf(x) \in Int
  BY <1>1, OldAre
<1>6. \A x \in Visible : x \in Old /\ \A y \in Old : UserOf(y) = UserOf(x) => x <= y
  BY <1>1, VisibleAre
<1>7. k \in Visible => skipping /\ UserOf(k) <= saved
  BY <1>1, <1>4, VisibleAre DEF ValueAt
<1>8. skipping => saved \in Int /\ \A y \in Old : y >= k => UserOf(y) >= saved
  BY <1>1 DEF ForwardInv
<1>9. ASSUME NEW x \in Visible PROVE x \in S <=> x \in T
  <2>1. x \in Int /\ UserOf(x) \in Int /\ x \in Old
    BY <1>5, <1>6
  <2>2. x >= k /\ x # k => x > k
    BY <1>4, <2>1
  <2>3. x \in S => x # k
    BY <1>4, <1>7, <1>8
  <2>4. deletes /\ x > k => UserOf(x) > UserOf(k)
    <3> SUFFICES ASSUME deletes, x > k PROVE UserOf(x) > UserOf(k)
      OBVIOUS
    <3>1. UserOf(k) <= UserOf(x)
      BY <1>4, <2>1, UsersRise
    <3>2. UserOf(k) # UserOf(x)
      BY <1>4, <1>6, <2>1
    <3> QED
      BY <1>4, <2>1, <3>1, <3>2
  <2>5. deletes /\ skipping => saved \in Int /\ UserOf(k) >= saved
    BY <1>4, <1>8
  <2> QED
    BY <1>4, <2>1, <2>2, <2>3, <2>4, <2>5
<1>10. S = T
  BY <1>9
<1>11. \A r \in C!Lowest(S, Visible) : Right(r)'
  BY <1>1, RightStays DEF ForwardInv
<1>12. CASE current' = None
  <2>1. S = {}
    BY <1>3, <1>6, <1>10, <1>12 DEF Above
  <2>2. Right(None)'
    BY <1>11, <2>1 DEF C!Lowest
  <2>3. pc' = "idle" /\ valid' = FALSE
    BY <1>12 DEF Passes, EndsInvalid
  <2> QED
    BY <1>1, <2>2, <2>3, EndsWithNothing
<1>13. CASE current' # None
  <2> DEFINE j == M!Key'
  <2>1. /\ j \in Int /\ j > k /\ \A y \in Old : y > k => y >= j
    BY <1>3, <1>13 DEF Above
  <2>2. /\ skipping' = skip /\ saved' = key /\ pc' = "forward"
    BY <1>1, <1>13 DEF Passes
  <2>3. T = {x \in Visible' : x >= M!Key' /\ (skipping' => UserOf(x) > saved')}
    <3>1. Visible' = Visible
      BY <1>1 DEF SameReads
    <3>2. \A x \in Visible : x > k <=> x >= j
      BY <1>4, <1>5, <1>6, <2>1
    <3> QED
      BY <2>2, <3>1, <3>2
  <2>4. Old' = Old
    BY <1>1 DEF SameReads
  <2>5. skip => key \in Int /\ \A y \in Old : y >= j => UserOf(y) >= key
    <3>1. ASSUME deletes PROVE key \in Int /\ \A y \in Old : y >= j => UserOf(y) >= key
      <4>1. \A y \in Old : y >= j => k <= y
        BY <1>4, <1>5, <2>1
      <4> QED
        BY <1>4, <1>5, <3>1, <4>1, UsersRise
    <3>2. ASSUME ~deletes, skipping
          PROVE  key \in Int /\ \A y \in Old : y >= j => UserOf(y) >= key
      <4>1. \A y \in Old : y >= j => y >= k
        BY <1>4, <1>5, <2>1
      <4> QED
        BY <1>8, <3>2, <4>1
    <3> QED
      BY <3>1, <3>2
  <2>6. ASSUME NEW y \in Old, y < j, UserOf(y) = UserOf(j)
        PROVE  skip /\ UserOf(y) <= key
    <3>1. y \in Int /\ y <= k /\ UserOf(y) \in Int
      BY <1>4, <1>5, <2>1, <2>6
    <3>2. UserOf(y) <= UserOf(k) /\ UserOf(k) <= UserOf(j) /\ UserOf(j) \in Int
      <4>1. k <= j
        BY <1>4, <2>1
      <4> QED
        BY <1>4, <2>1, <3>1, <4>1, UsersRise
    <3>3. UserOf(y) = UserOf(k)
      BY <1>4, <2>6, <3>1, <3>2
    <3>4. CASE y = k
      <4>1. deletes \/ (skipping /\ UserOf(k) <= saved)
        <5>1. Readable /\ type[Seq] \in {"value", "deletion"}
          <6>1. k \in Old
            BY <3>4
          <6>2. SeqOf(k) \in Readables
            BY <1>1, <6>1, OldAre
          <6>3. SeqOf(k) \in Sequences /\ type[SeqOf(k)] # "corrupt"
            BY <6>2 DEF Readables, Entries
          <6>4. type[SeqOf(k)] \in {"value", "deletion"}
            BY <1>1, <6>3 DEF ContentInv, Types
          <6> QED
            BY <1>4, <6>1, <6>4
        <5> QED
          BY <1>1, <1>4, <5>1
      <4> QED
        BY <1>4, <3>4, <4>1
    <3>5. CASE y < k
      <4>1. skipping /\ UserOf(y) <= saved
        BY <1>1, <3>3, <3>5 DEF ForwardInv
      <4> QED
        BY <1>4, <3>3, <4>1
    <3> QED
      BY <1>4, <3>1, <3>4, <3>5
  <2>7. M!Valid' /\ direction' = "forward"
    BY <1>1, <1>13 DEF ForwardInv, M!Valid
  <2>8. ForwardInv'
    <3>1. Visible' = Visible
      BY <1>1 DEF SameReads
    <3>2. \A r \in C!Lowest({x \in Visible' : x >= M!Key' /\ (skipping' => UserOf(x) > saved')},
                            Visible') : Right(r)'
      BY <1>10, <1>11, <2>3, <3>1
    <3> QED
      BY <2>2, <2>4, <2>5, <2>6, <2>7, <3>2 DEF ForwardInv
  <2>9. UNCHANGED C!vars
    BY <1>1, <2>2, GoesOn
  <2> QED
    BY <2>2, <2>8, <2>9 DEF CallInv
<1> QED
  BY <1>12, <1>13

LEMMA YieldStep ==
  ASSUME IterInv, IterInv', SnapshotInv, Yields
  PROVE  CallInv' /\ [C!Next]_(C!vars)
<1> DEFINE k == M!Key
           S == {x \in Visible : x >= k /\ (skipping => UserOf(x) > saved)}
<1>1. /\ pc = "forward" /\ ForwardInv /\ ContentInv /\ SameReads /\ Readable
      /\ type[Seq] = "value" /\ ~(skipping /\ User <= saved)
      /\ UNCHANGED <<direction, call, before, merger>> /\ pc' = "idle" /\ valid' = TRUE
  BY Unwritten DEF Yields, SnapshotInv, CallInv
<1>2. /\ M!Valid /\ direction = "forward" /\ (skipping => saved \in Int)
      /\ \A y \in Old : y < k /\ UserOf(y) = UserOf(k) => skipping /\ UserOf(y) <= saved
      /\ \A r \in C!Lowest(S, Visible) : Right(r)
  BY <1>1 DEF ForwardInv
<1>3. /\ k \in Int /\ UserOf(k) \in Int /\ User = UserOf(k) /\ Seq = SeqOf(k) /\ k \in Old
  BY <1>1, <1>2, KeysAre DEF KeyIs, User, Seq
<1>4. \A y \in Old : UserOf(y) = UserOf(k) => k <= y
  <2>1. \A y \in Old : y \in Int
    BY <1>1, OldAre
  <2> QED
    BY <1>1, <1>2, <1>3, <2>1
<1>5. k \in Visible
  BY <1>1, <1>3, <1>4, VisibleAre DEF ValueAt
<1>6. k \in C!Lowest(S, Visible)
  <2>1. k \in S
    BY <1>1, <1>2, <1>3, <1>5
  <2> QED
    BY <2>1 DEF C!Lowest
<1>7. M!Key' = k /\ M!Valid'
  BY <1>1, <1>2 DEF M!Key, M!Valid, merger
<1>8. Shown' = k
  BY <1>1, <1>2, <1>7 DEF Shown
<1>9. Right(Shown)'
  <2>1. PICK r : r = k
    OBVIOUS
  <2>2. Right(r)'
    BY <1>1, <1>2, <1>6, <2>1, RightStays
  <2>3. Shown' = r
    BY <1>8, <2>1
  <2> QED
    BY <2>2, <2>3, Zenon DEF Right
<1>10. C!Next
  BY <1>1, <1>9, Ended
<1>11. IdleInv'
  BY <1>1, <1>2, <1>5, <1>7 DEF IdleInv, SameReads
<1> QED
  BY <1>1, <1>10, <1>11 DEF CallInv

(* A call that starts afresh, from the first of S.                         *)
LEMMA StartsForward ==
  ASSUME ContentInv, SameReads, NEW S \in SUBSET Old, Above(S), Forward(FALSE),
         direction' = "forward", pc = "idle", before' = <<Shown, call>>,
         current' # None => /\ \A y \in Old : y >= M!Key' => y \in S
                            /\ \A y \in Old : y < M!Key' => UserOf(y) # UserOf(M!Key'),
         \A r \in C!Lowest({x \in Visible : x \in S}, Visible) : Right(r)'
  PROVE  CallInv' /\ [C!Next]_(C!vars)
<1>1. \A x \in Visible : x \in Old
  BY VisibleAre
<1>2. CASE current' = None
  <2>1. {x \in Visible : x \in S} = {}
    BY <1>2 DEF Above
  <2>2. None \in C!Lowest({x \in Visible : x \in S}, Visible)
    BY <2>1 DEF C!Lowest
  <2>3. Right(None)'
    BY <2>2
  <2>4. pc' = "idle" /\ valid' = FALSE
    BY <1>2 DEF Forward, EndsInvalid
  <2> QED
    BY <2>3, <2>4, EndsWithNothing
<1>3. CASE current' # None
  <2>1. pc' = "forward" /\ skipping' = FALSE /\ M!Valid'
    BY <1>3 DEF Forward, M!Valid
  <2>2. Old' = Old /\ Visible' = Visible
    BY DEF SameReads
  <2>3. {x \in Visible' : x >= M!Key' /\ (skipping' => UserOf(x) > saved')}
          = {x \in Visible : x \in S}
    BY <1>1, <1>3, <2>1, <2>2 DEF Above
  <2>4. \A r \in C!Lowest({x \in Visible' : x >= M!Key' /\ (skipping' => UserOf(x) > saved')},
                          Visible') : Right(r)'
    BY <2>2, <2>3
  <2>5. ForwardInv'
    BY <1>3, <2>1, <2>2, <2>4 DEF ForwardInv
  <2>6. UNCHANGED C!vars
    BY <2>1, Begun
  <2> QED
    BY <2>1, <2>5, <2>6 DEF CallInv
<1> QED
  BY <1>2, <1>3

LEMMA FirstStep ==
  ASSUME IterInv, IterInv', SnapshotInv, SeekToFirst
  PROVE  CallInv' /\ [C!Next]_(C!vars)
<1>1. /\ ContentInv /\ SameReads /\ M!SeekToFirst /\ Forward(FALSE) /\ direction' = "forward"
      /\ pc = "idle" /\ call' = <<"SeekToFirst">> /\ before' = <<Shown, call>>
  BY Unwritten DEF SeekToFirst, Begins, SnapshotInv
<1>2. Above(Old)
  BY <1>1, MovesToFirst
<1>3. {x \in Visible : x \in Old} = Visible
  BY <1>1, VisibleAre
<1>4. \A r \in C!Lowest({x \in Visible : x \in Old}, Visible) : Right(r)'
  BY <1>1, <1>3 DEF Right, SameReads
<1>5. current' # None => \A y \in Old : ~(y < M!Key')
  BY <1>1, <1>2, OldAre DEF Above
<1> QED
  BY <1>1, <1>2, <1>4, <1>5, StartsForward

LEMMA SeekStep ==
  ASSUME IterInv, IterInv', SnapshotInv, NEW t \in Users, Seek(t)
  PROVE  CallInv' /\ [C!Next]_(C!vars)
<1> DEFINE g == Internal(t, Snapshot)
           S == {x \in Old : x >= g}
<1>1. /\ ContentInv /\ SameReads /\ M!Seek(g) /\ Forward(FALSE) /\ direction' = "forward"
      /\ pc = "idle" /\ call' = <<"Seek", g>> /\ before' = <<Shown, call>>
  BY Unwritten DEF Seek, Begins, SnapshotInv
<1>2. Snapshot \in 0..MaxSeq /\ g \in InternalKeys
  BY SnapshotAssumption DEF InternalKeys
<1>3. g \in Int /\ UserOf(g) = t /\ t \in Int
  BY <1>2, InternalParts, SnapshotAssumption
<1>4. Above(S) /\ (current' # None => M!Key' >= g)
  BY <1>1, <1>2, <1>3, MovesTo
<1>5. \A x \in Visible : x \in Old
  BY <1>1, VisibleAre
<1>6. {x \in Visible : x \in S} = {x \in Visible : x >= g}
  BY <1>5
<1>7. \A r \in C!Lowest({x \in Visible : x \in S}, Visible) : Right(r)'
  <2>1. \A r \in C!Lowest({x \in Visible' : x >= g}, Visible') : Right(r)'
    BY <1>1 DEF Right
  <2> QED
    BY <1>1, <1>6, <2>1 DEF SameReads
<1>8. ASSUME current' # None
      PROVE  /\ \A y \in Old : y >= M!Key' => y \in S
             /\ \A y \in Old : y < M!Key' => UserOf(y) # UserOf(M!Key')
  <2>1. M!Key' \in Int /\ M!Key' >= g /\ \A y \in S : y >= M!Key'
    BY <1>4, <1>8 DEF Above
  <2>2. \A y \in Old : y \in Int
    BY <1>1, OldAre
  <2>3. ASSUME NEW y \in Old, y < M!Key', UserOf(y) = UserOf(M!Key') PROVE FALSE
    <3>1. y \in Int /\ ~(y >= g) /\ y <= g
      BY <1>3, <2>1, <2>2, <2>3
    <3>2. UserOf(y) \in Int /\ UserOf(y) <= t /\ t <= UserOf(M!Key')
      BY <1>3, <2>1, <3>1, UsersRise
    <3>3. UserOf(y) = t
      BY <1>3, <2>3, <3>2
    <3>4. y = Internal(t, SeqOf(y)) /\ SeqOf(y) \in Readables
      BY <1>1, <3>3, OldAre
    <3>5. SeqOf(y) \in 0..MaxSeq /\ SeqOf(y) <= Snapshot
      BY <1>1, <3>4, EntriesAre DEF Readables
    <3>6. g <= y
      BY <1>2, <3>4, <3>5, InternalOrder
    <3> QED
      BY <1>3, <3>1, <3>6
  <2> QED
    BY <1>3, <2>1, <2>2, <2>3
<1> QED
  BY <1>1, <1>4, <1>7, <1>8, StartsForward

(* Next, from the entry the merging iterator is at.                        *)
LEMMA StepOn ==
  ASSUME IterInv, IterInv', SnapshotInv, Step, direction = "forward"
  PROVE  CallInv' /\ [C!Next]_(C!vars)
<1> DEFINE k == M!Key
<1>1. /\ ContentInv /\ SameReads /\ IdleInv /\ valid /\ pc = "idle" /\ pc' = "forward"
      /\ call' = <<"Next">> /\ before' = <<Shown, call>> /\ UNCHANGED merger
      /\ direction' = "forward" /\ saved' = User /\ skipping' = TRUE
  BY Unwritten DEF Step, Begins, SnapshotInv, CallInv
<1>2. M!Valid /\ k \in Visible /\ Shown = k
  BY <1>1 DEF IdleInv, Shown
<1>3. M!Valid' /\ M!Key' = k
  BY <1>1, <1>2 DEF M!Valid, M!Key, merger
<1>4. k \in Int /\ UserOf(k) \in Int /\ User = UserOf(k) /\ k # None
  BY <1>1, <1>2, KeysAre, MergerValues DEF KeyIs, User, IterInv
<1>5. \A x \in Old : x \in Int /\ UserOf(x) \in Int
  BY <1>1, OldAre
<1>6. \A x \in Visible : x \in Old /\ \A y \in Old : UserOf(y) = UserOf(x) => x <= y
  BY <1>1, VisibleAre
<1>7. \A y \in Old : y >= k => UserOf(y) >= UserOf(k)
  BY <1>4, <1>5, UsersRise
<1>8. \A x \in Visible : x > k <=> x >= k /\ UserOf(x) > UserOf(k)
  <2> SUFFICES ASSUME NEW x \in Visible PROVE x > k <=> x >= k /\ UserOf(x) > UserOf(k)
    OBVIOUS
  <2>1. x \in Int /\ UserOf(x) \in Int /\ (x >= k => UserOf(x) >= UserOf(k))
    BY <1>5, <1>6, <1>7
  <2>2. UserOf(x) = UserOf(k) => x <= k
    BY <1>2, <1>6
  <2> QED
    BY <1>4, <2>1, <2>2
<1>9. \A r \in C!Lowest({x \in Visible : x > k}, Visible) : Right(r)'
  <2>1. before'[1] = k
    BY <1>1, <1>2
  <2>2. \A r \in C!Lowest({x \in Visible' : x > before'[1]}, Visible') : Right(r)'
    BY <1>1, <1>4, <2>1 DEF Right
  <2> QED
    BY <1>1, <2>1, <2>2 DEF SameReads
<1>10. ForwardInv'
  <2>1. Old' = Old /\ Visible' = Visible
    BY <1>1 DEF SameReads
  <2>2. {x \in Visible' : x >= M!Key' /\ (skipping' => UserOf(x) > saved')}
          = {x \in Visible : x > k}
    BY <1>1, <1>3, <1>4, <1>8, <2>1
  <2>3. \A r \in C!Lowest({x \in Visible' : x >= M!Key' /\ (skipping' => UserOf(x) > saved')},
                          Visible') : Right(r)'
    BY <1>9, <2>1, <2>2
  <2> QED
    BY <1>1, <1>3, <1>4, <1>7, <2>1, <2>3 DEF ForwardInv
<1> QED
  BY <1>1, <1>10, Begun DEF CallInv

(* Next, turning: the merging iterator is before all entries of the key    *)
(* that is shown.                                                          *)
LEMMA StepTurns ==
  ASSUME IterInv, IterInv', SnapshotInv, Step, direction = "reverse"
  PROVE  CallInv' /\ [C!Next]_(C!vars)
<1> DEFINE S == IF M!Valid THEN {x \in Old : x > M!Key} ELSE Old
<1>1. /\ ContentInv /\ SameReads /\ IdleInv /\ valid /\ pc = "idle"
      /\ call' = <<"Next">> /\ before' = <<Shown, call>> /\ Forward(TRUE)
      /\ (IF M!Valid THEN M!Forward ELSE M!SeekToFirst)
      /\ direction' = "forward" /\ (current' # None => UNCHANGED saved)
  BY Unwritten DEF Step, Begins, SnapshotInv, CallInv
<1>2. /\ SavedEntry /\ Saved \in Visible /\ (M!Valid => UserOf(M!Key) < saved)
      /\ \A y \in Old : UserOf(y) < saved => M!Valid /\ y <= M!Key
      /\ Shown = Saved
  BY <1>1 DEF IdleInv, Shown, Saved
<1>3. over = None
  BY <1>1 DEF IterInv, ScanInv
<1>4. Above(S) /\ (M!Valid /\ current' # None => M!Key' > M!Key)
  BY <1>1, <1>3, MovesForward, MovesToFirst
<1>5. \A x \in Old : x \in Int /\ UserOf(x) \in Int
  BY <1>1, OldAre
<1>6. \A x \in Visible : x \in Old /\ \A y \in Old : UserOf(y) = UserOf(x) => x <= y
  BY <1>1, VisibleAre
<1>7. Saved \in Int /\ UserOf(Saved) = saved /\ saved \in Int
  <2>1. savedValue \in Entries /\ saved = user[savedValue]
    BY <1>2 DEF SavedEntry, Readables
  <2>2. UserOf(Saved) = saved
    BY <1>1, <2>1, EntriesAre DEF Saved
  <2>3. Saved \in Int /\ UserOf(Saved) \in Int
    BY <1>2, <1>5, <1>6
  <2> QED
    BY <2>2, <2>3
<1>8. M!Valid => M!Key \in Int /\ UserOf(M!Key) \in Int
  BY <1>1, KeysAre DEF KeyIs
<1>9. \A y \in Old : UserOf(y) >= saved => y \in S
  <2> SUFFICES ASSUME NEW y \in Old, UserOf(y) >= saved, M!Valid PROVE y > M!Key
    OBVIOUS
  <2>1. y <= M!Key => UserOf(y) <= UserOf(M!Key)
    BY <1>5, <1>8, UsersRise
  <2> QED
    BY <1>2, <1>5, <1>7, <1>8, <2>1
<1>10. \A y \in S : UserOf(y) >= saved
  BY <1>2, <1>5, <1>7, <1>8
<1>11. \A x \in Visible : x > Saved <=> UserOf(x) > saved
  <2> SUFFICES ASSUME NEW x \in Visible PROVE x > Saved <=> UserOf(x) > saved
    OBVIOUS
  <2>1. x \in Int /\ UserOf(x) \in Int /\ Saved \in Old
    BY <1>2, <1>5, <1>6
  <2>2. (x <= Saved => UserOf(x) <= saved) /\ (Saved <= x => saved <= UserOf(x))
    BY <1>7, <2>1, UsersRise
  <2>3. UserOf(x) = saved => x <= Saved
    BY <1>6, <1>7, <2>1
  <2> QED
    BY <1>7, <2>1, <2>2, <2>3
<1>12. \A r \in C!Lowest({x \in Visible : x > Saved}, Visible) : Right(r)'
  <2>1. before'[1] = Saved /\ Saved # None
    BY <1>1, <1>2, <1>7, MergerValues DEF IterInv
  <2>2. \A r \in C!Lowest({x \in Visible' : x > before'[1]}, Visible') : Right(r)'
    BY <1>1, <2>1 DEF Right
  <2> QED
    BY <1>1, <2>1, <2>2 DEF SameReads
<1>13. CASE current' = None
  <2>1. {x \in Visible : x > Saved} = {}
    BY <1>4, <1>5, <1>6, <1>7, <1>9, <1>11, <1>13 DEF Above
  <2>2. None \in C!Lowest({x \in Visible : x > Saved}, Visible)
    BY <2>1 DEF C!Lowest
  <2>3. Right(None)'
    BY <1>12, <2>2
  <2>4. pc' = "idle" /\ valid' = FALSE
    BY <1>1, <1>13 DEF Forward, EndsInvalid
  <2> QED
    BY <1>1, <2>3, <2>4, EndsWithNothing
<1>14. CASE current' # None
  <2> DEFINE j == M!Key'
  <2>1. pc' = "forward" /\ skipping' = TRUE /\ saved' = saved /\ M!Valid'
    BY <1>1, <1>14 DEF Forward, M!Valid
  <2>2. /\ j \in Int /\ UserOf(j) \in Int /\ \A y \in S : y >= j
    BY <1>4, <1>14, UsersRise DEF Above
  <2>3. \A y \in Old : y >= j => y \in S
    BY <1>4, <1>5, <1>8, <1>14, <2>2
  <2>4. \A y \in Old : y >= j => UserOf(y) >= saved
    BY <1>10, <2>3
  <2>5. \A y \in Old : y < j => UserOf(y) <= saved
    BY <1>5, <1>7, <1>9, <2>2
  <2>6. Old' = Old /\ Visible' = Visible
    BY <1>1 DEF SameReads
  <2>7. \A x \in Visible : x > Saved <=> x >= j /\ UserOf(x) > saved
    BY <1>5, <1>6, <1>7, <1>9, <1>11, <2>2
  <2>8. {x \in Visible' : x >= M!Key' /\ (skipping' => UserOf(x) > saved')}
          = {x \in Visible : x > Saved}
    BY <2>1, <2>6, <2>7
  <2>9. \A r \in C!Lowest({x \in Visible' : x >= M!Key' /\ (skipping' => UserOf(x) > saved')},
                          Visible') : Right(r)'
    BY <1>12, <2>6, <2>8
  <2>10. ForwardInv'
    BY <1>1, <1>7, <2>1, <2>4, <2>5, <2>6, <2>9 DEF ForwardInv
  <2> QED
    BY <1>1, <2>1, <2>10, Begun DEF CallInv
<1> QED
  BY <1>13, <1>14

-----------------------------------------------------------------------------
(* A value that is held ready.                                             *)
LEMMA HeldIs ==
  ASSUME ContentInv, NEW q \in Readables, NEW u, u = user[q], type[q] = "value"
  PROVE  /\ Internal(u, q) \in Old /\ Internal(u, q) \in Int /\ u \in Int
         /\ UserOf(Internal(u, q)) = u /\ ValueAt(Internal(u, q))
<1>1. Internal(u, q) \in Old
  BY DEF Old
<1>2. q \in Entries
  BY DEF Readables
<1>3. UserOf(Internal(u, q)) = u /\ SeqOf(Internal(u, q)) = q
  BY <1>2, EntriesAre, Zenon
<1>4. Internal(u, q) \in Int /\ UserOf(Internal(u, q)) \in Int
  BY <1>1, OldAre
<1>5. u \in Int
  BY <1>3, <1>4
<1>6. ValueAt(Internal(u, q))
  BY <1>3, Zenon DEF ValueAt
<1> QED
  BY <1>1, <1>3, <1>4, <1>5, <1>6

LEMMA SavedIs ==
  ASSUME ContentInv, SameReads, SavedEntry'
  PROVE  /\ Saved' \in Old /\ Saved' \in Int /\ saved' \in Int
         /\ UserOf(Saved') = saved' /\ ValueAt(Saved')
<1>1. PICK q, u : q = savedValue' /\ u = saved'
  OBVIOUS
<1>2. q \in Readables /\ u = user[q] /\ type[q] = "value"
  BY <1>1 DEF SavedEntry, SameReads
<1>3. /\ Internal(u, q) \in Old /\ Internal(u, q) \in Int /\ u \in Int
      /\ UserOf(Internal(u, q)) = u /\ ValueAt(Internal(u, q))
  BY <1>2, HeldIs
<1>4. Saved' = Internal(u, q)
  BY <1>1 DEF Saved
<1> QED
  BY <1>1, <1>3, <1>4, Zenon DEF ValueAt

(* The value held ready is shown.                                          *)
LEMMA ShowsSaved ==
  ASSUME ContentInv, SameReads, pc # "idle", UNCHANGED <<call, before>>,
         pc' = "idle", valid' = TRUE, direction' = "reverse", SavedEntry',
         \A y \in Old : UserOf(y) = saved' => Saved' <= y,
         M!Valid' => UserOf(M!Key') < saved',
         \A y \in Old : UserOf(y) < saved' => M!Valid' /\ y <= M!Key',
         \A r \in C!Highest({x \in Visible : x <= Saved'}, Visible) : Right(r)'
  PROVE  CallInv' /\ [C!Next]_(C!vars)
<1>1. /\ Saved' \in Old /\ Saved' \in Int /\ saved' \in Int
      /\ UserOf(Saved') = saved' /\ ValueAt(Saved')
  BY SavedIs
<1>2. PICK r : r = Saved'
  OBVIOUS
<1>3. r \in Visible
  BY <1>1, <1>2, VisibleAre
<1>4. r \in C!Highest({x \in Visible : x <= Saved'}, Visible)
  BY <1>1, <1>2, <1>3 DEF C!Highest
<1>5. Right(r)'
  BY <1>4
<1>6. Shown' = r
  BY <1>2 DEF Shown, Saved
<1>7. Right(Shown)'
  BY <1>5, <1>6, Zenon DEF Right
<1>8. C!Next
  BY <1>7, Ended
<1>9. IdleInv'
  BY <1>2, <1>3 DEF IdleInv, SameReads
<1> QED
  BY <1>8, <1>9 DEF CallInv

(* FindPrevUserEntry begins, with what is in S before it.                  *)
LEMMA StartsBackward ==
  ASSUME ContentInv, SameReads, NEW S \in SUBSET Old, Backward,
         current' = None => S = {},
         current' # None => \A y \in Old : y <= M!Key' <=> y \in S,
         \/ pc = "idle" /\ before' = <<Shown, call>>
         \/ pc # "idle" /\ UNCHANGED <<call, before>>,
         \A r \in C!Highest({x \in Visible : x \in S}, Visible) : Right(r)'
  PROVE  CallInv' /\ [C!Next]_(C!vars)
<1>1. CASE current' = None
  <2>1. {x \in Visible : x \in S} = {}
    BY <1>1
  <2>2. None \in C!Highest({x \in Visible : x \in S}, Visible)
    BY <2>1 DEF C!Highest
  <2>3. Right(None)'
    BY <2>2
  <2>4. pc' = "idle" /\ valid' = FALSE
    BY <1>1 DEF Backward, BackwardEnds
  <2> QED
    BY <2>3, <2>4, EndsWithNothing
<1>2. CASE current' # None
  <2>1. pc' = "backward" /\ direction' = "reverse" /\ valueType' = "deletion" /\ M!Valid'
    BY <1>2 DEF Backward, M!Valid
  <2>2. {x \in Visible' : x <= M!Key'} = {x \in Visible : x \in S}
    BY <1>2, VisibleAre DEF SameReads
  <2>3. \A r \in C!Highest({x \in Visible' : x <= M!Key'}, Visible') : Right(r)'
    BY <2>2 DEF SameReads
  <2>4. BackwardInv'
    BY <2>1, <2>3 DEF BackwardInv
  <2>5. UNCHANGED C!vars
    BY <2>1, Begun, GoesOn
  <2> QED
    BY <2>1, <2>4, <2>5 DEF CallInv
<1> QED
  BY <1>1, <1>2

LEMMA LastStep ==
  ASSUME IterInv, IterInv', SnapshotInv, SeekToLast
  PROVE  CallInv' /\ [C!Next]_(C!vars)
<1>1. /\ ContentInv /\ SameReads /\ M!SeekToLast /\ Backward
      /\ pc = "idle" /\ call' = <<"SeekToLast">> /\ before' = <<Shown, call>>
  BY Unwritten DEF SeekToLast, Begins, SnapshotInv
<1>2. Below(Old)
  BY <1>1, MovesToLast
<1>3. {x \in Visible : x \in Old} = Visible
  BY <1>1, VisibleAre
<1>4. \A r \in C!Highest({x \in Visible : x \in Old}, Visible) : Right(r)'
  BY <1>1, <1>3 DEF Right, SameReads
<1> QED
  BY <1>1, <1>2, <1>4, StartsBackward DEF Below

(* Prev: what is sought is before all entries of the key that is shown.    *)
LEMMA PrevSeeks ==
  ASSUME IterInv, ContentInv, SameReads, Shown \in Visible,
         call' = <<"Prev">>, before' = <<Shown, call>>
  PROVE  \A r \in C!Highest({x \in Visible : UserOf(x) < UserOf(Shown)}, Visible) : Right(r)'
<1>1. Shown # None /\ Shown \in Int /\ UserOf(Shown) \in Int /\ Shown \in Old
  BY VisibleAre, OldAre, MergerValues DEF IterInv
<1>2. \A x \in Visible : x < Shown <=> UserOf(x) < UserOf(Shown)
  <2> SUFFICES ASSUME NEW x \in Visible PROVE x < Shown <=> UserOf(x) < UserOf(Shown)
    OBVIOUS
  <2>1. x \in Old /\ x \in Int /\ UserOf(x) \in Int
    BY VisibleAre, OldAre
  <2>2. (x <= Shown => UserOf(x) <= UserOf(Shown)) /\ (Shown <= x => UserOf(Shown) <= UserOf(x))
    BY <1>1, <2>1, UsersRise
  <2>3. UserOf(x) = UserOf(Shown) => Shown <= x
    BY <2>1, VisibleAre
  <2> QED
    BY <1>1, <2>1, <2>2, <2>3
<1>3. \A r \in C!Highest({x \in Visible' : x < before'[1]}, Visible') : Right(r)'
  BY <1>1 DEF Right
<1>4. {x \in Visible' : x < before'[1]} = {x \in Visible : UserOf(x) < UserOf(Shown)}
  BY <1>2 DEF SameReads
<1> QED
  BY <1>3, <1>4 DEF SameReads

LEMMA PrevStep ==
  ASSUME IterInv, IterInv', SnapshotInv, Prev
  PROVE  CallInv' /\ [C!Next]_(C!vars)
<1>1. /\ ContentInv /\ SameReads /\ IdleInv /\ valid /\ pc = "idle" /\ UNCHANGED merger
      /\ call' = <<"Prev">> /\ before' = <<Shown, call>>
  BY Unwritten DEF Prev, Begins, SnapshotInv, CallInv
<1>2. M!Key' = M!Key /\ (M!Valid' <=> M!Valid) /\ current' = current /\ over' = over
  BY <1>1 DEF merger, M!Key, M!Valid
<1>3. over = None
  BY <1>1 DEF IterInv, ScanInv
<1>4. M!Valid => /\ M!Key \in Int /\ UserOf(M!Key) \in Int /\ User = UserOf(M!Key)
  BY <1>1, KeysAre DEF KeyIs, User
<1>5. CASE direction = "forward"
  <2>1. M!Valid /\ Shown = M!Key /\ Shown \in Visible
    BY <1>1, <1>5 DEF IdleInv, Shown
  <2>2. saved' = UserOf(Shown) /\ pc' = "scan"
    BY <1>4, <1>5, <2>1 DEF Prev
  <2>3. \A r \in C!Highest({x \in Visible' : UserOf(x) < saved'}, Visible') : Right(r)'
    BY <1>1, <2>1, <2>2, PrevSeeks DEF SameReads
  <2>4. At' = M!Key
    BY <1>2, <1>3 DEF At
  <2>5. TurnInv'
    BY <1>2, <1>4, <2>1, <2>2, <2>3, <2>4 DEF TurnInv
  <2> QED
    BY <1>1, <2>2, <2>5, Begun DEF CallInv
<1>6. CASE direction = "reverse"
  <2> DEFINE S == {x \in Old : UserOf(x) < saved}
  <2>1. /\ SavedEntry /\ Shown = Saved /\ Shown \in Visible /\ Backward
        /\ M!Valid => UserOf(M!Key) < saved
        /\ \A y \in Old : UserOf(y) < saved => M!Valid /\ y <= M!Key
    BY <1>1, <1>6 DEF IdleInv, Shown, Saved, Prev
  <2>2. saved \in Int /\ UserOf(Shown) = saved
    <3>1. PICK q, u : q = savedValue /\ u = saved
      OBVIOUS
    <3>2. q \in Readables /\ u = user[q] /\ type[q] = "value" /\ Shown = Internal(u, q)
      BY <2>1, <3>1 DEF SavedEntry, Saved
    <3>3. u \in Int /\ UserOf(Internal(u, q)) = u
      BY <1>1, <3>2, HeldIs
    <3> QED
      BY <3>1, <3>2, <3>3, Zenon
  <2>3. \A r \in C!Highest({x \in Visible : UserOf(x) < saved}, Visible) : Right(r)'
    BY <1>1, <2>1, <2>2, PrevSeeks
  <2>4. {x \in Visible : UserOf(x) < saved} = {x \in Visible : x \in S}
    BY <1>1, VisibleAre
  <2>5. current' = None => S = {}
    BY <1>2, <2>1 DEF M!Valid
  <2>6. ASSUME current' # None, NEW y \in Old PROVE y <= M!Key' <=> y \in S
    <3>1. y \in Int /\ UserOf(y) \in Int /\ M!Valid
      BY <1>1, <1>2, <2>6, OldAre DEF M!Valid
    <3>2. y <= M!Key => UserOf(y) <= UserOf(M!Key)
      BY <1>4, <3>1, UsersRise
    <3> QED
      BY <1>2, <1>4, <2>1, <2>2, <3>1, <3>2
  <2> QED
    BY <1>1, <2>1, <2>3, <2>4, <2>5, <2>6, StartsBackward
<1> QED
  BY <1>5, <1>6 DEF Prev

(* The loop of Prev.                                                       *)
LEMMA TurnStep ==
  ASSUME IterInv, IterInv', SnapshotInv, Scan
  PROVE  CallInv' /\ [C!Next]_(C!vars)
<1> DEFINE S == {x \in Old : UserOf(x) < saved}
<1>1. /\ ContentInv /\ SameReads /\ TurnInv /\ pc = "scan" /\ M!Backward
      /\ UNCHANGED <<call, before>>
  BY Unwritten DEF Scan, SnapshotInv, CallInv
<1>2. /\ At \in Int
      /\ \/ over # None /\ over' = over /\ current' # None /\ At' = At
         \/ over' = None /\ Below({x \in Old : x < At}) /\ (current' # None => M!Key' < At)
  BY <1>1, MovesBackward
<1>3. saved \in Int /\ UserOf(At) \in Int /\ UserOf(At) >= saved
  BY <1>1, <1>2, UsersRise DEF TurnInv
<1>4. \A x \in Old : x \in Int /\ UserOf(x) \in Int /\ (UserOf(x) < saved => x < At)
  <2> SUFFICES ASSUME NEW x \in Old
               PROVE  x \in Int /\ UserOf(x) \in Int /\ (UserOf(x) < saved => x < At)
    OBVIOUS
  <2>1. x \in Int /\ UserOf(x) \in Int
    BY <1>1, OldAre
  <2>2. At <= x => UserOf(At) <= UserOf(x)
    BY <1>2, <2>1, UsersRise
  <2> QED
    BY <1>2, <1>3, <2>1, <2>2
<1>5. \A r \in C!Highest({x \in Visible : UserOf(x) < saved}, Visible) : Right(r)'
  BY <1>1, RightStays DEF TurnInv
<1>6. {x \in Visible : UserOf(x) < saved} = {x \in Visible : x \in S}
  BY <1>1, VisibleAre
<1>7. CASE current' = None
  <2>1. {x \in Visible : UserOf(x) < saved} = {}
    BY <1>2, <1>4, <1>6, <1>7 DEF Below
  <2>2. None \in C!Highest({x \in Visible : UserOf(x) < saved}, Visible)
    BY <2>1 DEF C!Highest
  <2>3. Right(None)'
    BY <1>5, <2>2
  <2>4. pc' = "idle" /\ valid' = FALSE
    BY <1>7 DEF Scan, EndsInvalid
  <2> QED
    BY <1>1, <2>3, <2>4, EndsWithNothing
<1>8. CASE current' # None /\ UserOf(M!Key') < saved
  <2>1. Backward
    BY <1>8 DEF Scan, M!Key
  <2>2. pc' # "scan"
    BY <1>8, <2>1 DEF Backward
  <2>3. over' = None
    BY <2>2 DEF IterInv, ScanInv
  <2>4. M!Key' \in Int /\ \A y \in Old : y < At => y <= M!Key'
    BY <1>2, <1>8, <2>3 DEF Below
  <2>5. ASSUME NEW y \in Old PROVE y <= M!Key' <=> y \in S
    <3>1. y <= M!Key' => UserOf(y) <= UserOf(M!Key') /\ UserOf(M!Key') \in Int
      BY <1>4, <2>4, UsersRise
    <3> QED
      BY <1>3, <1>4, <1>8, <2>4, <3>1
  <2> QED
    BY <1>1, <1>5, <1>6, <1>8, <2>1, <2>5, StartsBackward
<1>9. CASE current' # None /\ ~(UserOf(M!Key') < saved)
  <2>1. UNCHANGED <<saved, pc>>
    BY <1>9 DEF Scan, M!Key
  <2>2. UserOf(At') >= saved
    <3>1. CASE over' # None
      BY <1>2, <1>3, <3>1
    <3>2. CASE over' = None
      <4>1. At' = M!Key'
        BY <3>2 DEF At
      <4>2. M!Key' \in Int /\ UserOf(M!Key') \in Int
        BY <1>2, <1>9, <3>2, UsersRise DEF Below
      <4> QED
        BY <1>3, <1>9, <4>1, <4>2
    <3> QED
      BY <3>1, <3>2
  <2>3. \A r \in C!Highest({x \in Visible' : UserOf(x) < saved'}, Visible') : Right(r)'
    BY <1>1, <1>5, <2>1 DEF SameReads
  <2>4. TurnInv'
    BY <1>3, <1>9, <2>1, <2>2, <2>3 DEF TurnInv, M!Valid
  <2>5. UNCHANGED C!vars
    BY <1>1, <2>1, GoesOn
  <2> QED
    BY <1>1, <2>1, <2>4, <2>5 DEF CallInv
<1> QED
  BY <1>7, <1>8, <1>9

(* FindPrevUserEntry meets a key before the one whose value it holds.      *)
LEMMA StopStep ==
  ASSUME IterInv, IterInv', SnapshotInv, Stops
  PROVE  CallInv' /\ [C!Next]_(C!vars)
<1> DEFINE k == M!Key
<1>1. /\ ContentInv /\ SameReads /\ BackwardInv /\ pc = "backward" /\ FoundBefore
      /\ BackwardEnds(valueType, saved, savedValue) /\ UNCHANGED <<merger, call, before>>
  BY Unwritten DEF Stops, SnapshotInv, CallInv
<1>2. valueType = "value" /\ Readable /\ User < saved /\ M!Valid
  BY <1>1 DEF FoundBefore, BackwardInv
<1>3. /\ SavedEntry /\ \A y \in Old : y > k => y >= Saved
      /\ \A r \in C!Highest({x \in Visible : x <= Saved}, Visible) : Right(r)
  BY <1>1, <1>2 DEF BackwardInv
<1>4. k \in Int /\ UserOf(k) \in Int /\ UserOf(k) < saved
  BY <1>1, <1>2, KeysAre DEF KeyIs, User
<1>5. pc' = "idle" /\ valid' = TRUE /\ direction' = "reverse" /\ UNCHANGED <<saved, savedValue>>
  BY <1>1, <1>2 DEF BackwardEnds
<1>6. M!Key' = k /\ M!Valid' /\ Saved' = Saved
  BY <1>1, <1>2, <1>5 DEF M!Key, M!Valid, merger, Saved
<1>7. SavedEntry'
  BY <1>1, <1>3, <1>5 DEF SavedEntry, SameReads
<1>8. Saved' \in Int /\ saved' \in Int /\ UserOf(Saved') = saved'
  BY <1>1, <1>7, SavedIs
<1>9. \A y \in Old : y \in Int /\ UserOf(y) \in Int
  BY <1>1, OldAre
<1>10. \A y \in Old : y <= k => UserOf(y) < saved
  <2> SUFFICES ASSUME NEW y \in Old, y <= k PROVE UserOf(y) < saved
    OBVIOUS
  <2>1. UserOf(y) <= UserOf(k)
    BY <1>4, <1>9, UsersRise
  <2> QED
    BY <1>4, <1>5, <1>8, <1>9, <2>1
<1>11. \A y \in Old : y >= Saved => UserOf(y) >= saved
  <2> SUFFICES ASSUME NEW y \in Old, y >= Saved PROVE UserOf(y) >= saved
    OBVIOUS
  <2>1. UserOf(Saved) <= UserOf(y)
    BY <1>6, <1>8, <1>9, UsersRise
  <2> QED
    BY <1>5, <1>6, <1>8, <2>1
<1>12. \A y \in Old : UserOf(y) = saved' => Saved' <= y
  BY <1>3, <1>4, <1>5, <1>6, <1>8, <1>9, <1>10
<1>13. \A y \in Old : UserOf(y) < saved' => M!Valid' /\ y <= M!Key'
  BY <1>3, <1>4, <1>5, <1>6, <1>8, <1>9, <1>11
<1>14. \A r \in C!Highest({x \in Visible : x <= Saved'}, Visible) : Right(r)'
  BY <1>1, <1>3, <1>6, RightStays
<1>15. M!Valid' => UserOf(M!Key') < saved'
  BY <1>4, <1>5, <1>6
<1> QED
  BY <1>1, <1>5, <1>7, <1>12, <1>13, <1>14, <1>15, ShowsSaved

(* What a turn of the loop of FindPrevUserEntry holds ready: the entry it  *)
(* was at, if that is a value, or what it held.                            *)
LEMMA Collected ==
  ASSUME IterInv, SnapshotInv, Collects
  PROVE  /\ valueType' \in {"value", "deletion"}
         /\ valueType' = "value" =>
              /\ SavedEntry' /\ M!Key <= Saved' /\ \A y \in Old : y >= M!Key => y >= Saved'
              /\ \A r \in C!Highest({x \in Visible : x <= Saved'}, Visible) : Right(r)'
         /\ valueType' = "deletion" =>
              \A r \in C!Highest({x \in Visible : x < M!Key}, Visible) : Right(r)'
<1> DEFINE k == M!Key
           R == IF valueType = "value" THEN {x \in Visible : x <= Saved}
                                       ELSE {x \in Visible : x <= k}
<1>1. /\ ContentInv /\ SameReads /\ BackwardInv /\ ~FoundBefore /\ M!Valid
      /\ UNCHANGED <<call, before>>
  BY Unwritten DEF Collects, SnapshotInv, CallInv, BackwardInv
<1>2. /\ valueType' = IF Readable THEN type[Seq] ELSE valueType
      /\ saved' = IF ~Readable THEN saved ELSE IF type[Seq] = "deletion" THEN None ELSE User
      /\ savedValue' = IF ~Readable THEN savedValue
                       ELSE IF type[Seq] = "deletion" THEN None ELSE Seq
  BY DEF Collects, BackwardEnds
<1>3. /\ k \in Int /\ UserOf(k) \in Int /\ User = UserOf(k) /\ Seq = SeqOf(k)
      /\ k = Internal(UserOf(k), SeqOf(k)) /\ (Readable <=> k \in Old)
  BY <1>1, KeysAre DEF KeyIs, User, Seq
<1>4. \A r \in C!Highest(R, Visible) : Right(r)'
  BY <1>1, RightStays DEF BackwardInv
<1>5. \A x \in Old : x \in Int /\ UserOf(x) \in Int
  BY <1>1, OldAre
<1>6. valueType = "value" =>
        /\ SavedEntry /\ k < Saved /\ (\A y \in Old : y > k => y >= Saved)
        /\ Saved \in Int /\ saved \in Int /\ UserOf(Saved) = saved
  <2> SUFFICES ASSUME valueType = "value"
               PROVE  /\ SavedEntry /\ k < Saved /\ \A y \in Old : y > k => y >= Saved
                      /\ Saved \in Int /\ saved \in Int /\ UserOf(Saved) = saved
    OBVIOUS
  <2>1. SavedEntry /\ k < Saved /\ \A y \in Old : y > k => y >= Saved
    BY <1>1 DEF BackwardInv
  <2>2. PICK q, u : q = savedValue /\ u = saved
    OBVIOUS
  <2>3. q \in Readables /\ u = user[q] /\ type[q] = "value" /\ Saved = Internal(u, q)
    BY <2>1, <2>2 DEF SavedEntry, Saved
  <2>4. Internal(u, q) \in Int /\ u \in Int /\ UserOf(Internal(u, q)) = u
    BY <1>1, <2>3, HeldIs
  <2>5. Saved \in Int /\ saved \in Int /\ UserOf(Saved) = saved
    BY <2>2, <2>3, <2>4, Zenon
  <2> QED
    BY <2>1, <2>5
<1>7. Readable => R = {x \in Visible : x <= k}
  <2> SUFFICES ASSUME Readable, valueType = "value", NEW x \in Visible
               PROVE  x <= Saved <=> x <= k
    OBVIOUS
  <2>1. x \in Old /\ x \in Int /\ k \in Old /\ \A y \in Old : UserOf(y) = UserOf(x) => x <= y
    BY <1>1, <1>3, <1>5, VisibleAre
  <2>2. UserOf(k) >= saved /\ UserOf(k) <= saved
    <3>1. UserOf(k) <= UserOf(Saved)
      BY <1>3, <1>6, UsersRise
    <3> QED
      BY <1>1, <1>3, <1>6, <3>1 DEF FoundBefore
  <2>3. x # Saved
    <3>1. UserOf(k) = UserOf(Saved)
      BY <1>3, <1>6, <2>2
    <3>2. k < Saved
      BY <1>6
    <3> QED
      BY <1>3, <1>6, <2>1, <3>1, <3>2
  <2> QED
    BY <1>3, <1>6, <2>1, <2>3
<1>8. CASE ~Readable
  <2>1. valueType' = valueType /\ saved' = saved /\ savedValue' = savedValue /\ k \notin Old
    BY <1>2, <1>3, <1>8
  <2>2. valueType \in {"value", "deletion"}
    BY <1>1 DEF BackwardInv
  <2>3. ASSUME valueType' = "value"
        PROVE  /\ SavedEntry' /\ k <= Saved' /\ \A y \in Old : y >= k => y >= Saved'
               /\ \A r \in C!Highest({x \in Visible : x <= Saved'}, Visible) : Right(r)'
    <3>1. Saved' = Saved /\ R = {x \in Visible : x <= Saved}
      BY <2>1, <2>3 DEF Saved
    <3>2. SavedEntry'
      BY <1>1, <1>6, <2>1, <2>3 DEF SavedEntry, SameReads
    <3>3. \A y \in Old : y >= k => y > k
      BY <1>3, <1>5, <2>1
    <3> QED
      BY <1>3, <1>4, <1>6, <2>1, <2>3, <3>1, <3>2, <3>3
  <2>4. ASSUME valueType' = "deletion"
        PROVE  \A r \in C!Highest({x \in Visible : x < k}, Visible) : Right(r)'
    <3>1. \A x \in Visible : x <= k <=> x < k
      BY <1>1, <1>3, <1>5, <2>1, VisibleAre
    <3>2. R = {x \in Visible : x < k}
      BY <2>1, <2>4, <3>1
    <3> QED
      BY <1>4, <3>2
  <2> QED
    BY <2>1, <2>2, <2>3, <2>4
<1>9. CASE Readable
  <2>1. /\ k \in Old /\ SeqOf(k) \in Readables /\ user[SeqOf(k)] = UserOf(k)
        /\ valueType' = type[SeqOf(k)]
    BY <1>1, <1>2, <1>3, <1>9, OldAre
  <2>2. type[SeqOf(k)] \in {"value", "deletion"}
    BY <1>1, <2>1 DEF Readables, Entries, ContentInv, Types
  <2>3. ASSUME valueType' = "value"
        PROVE  /\ SavedEntry' /\ k <= Saved' /\ \A y \in Old : y >= k => y >= Saved'
               /\ \A r \in C!Highest({x \in Visible : x <= Saved'}, Visible) : Right(r)'
    <3>1. saved' = UserOf(k) /\ savedValue' = SeqOf(k)
      BY <1>2, <1>3, <1>9, <2>1, <2>3
    <3>2. Saved' = k
      BY <1>3, <3>1, Zenon DEF Saved
    <3>3. SavedEntry'
      BY <1>1, <2>1, <2>3, <3>1 DEF SavedEntry, SameReads
    <3>4. R = {x \in Visible : x <= Saved'}
      BY <1>7, <1>9, <3>2
    <3>5. \A r \in C!Highest({x \in Visible : x <= Saved'}, Visible) : Right(r)'
      BY <1>4, <3>4
    <3> QED
      BY <1>3, <3>2, <3>3, <3>5
  <2>4. ASSUME valueType' = "deletion"
        PROVE  \A r \in C!Highest({x \in Visible : x < k}, Visible) : Right(r)'
    <3>1. k \notin Visible
      BY <1>1, <2>1, <2>4, VisibleAre DEF ValueAt
    <3>2. \A x \in Visible : x <= k <=> x < k
      BY <1>1, <1>3, <1>5, <3>1, VisibleAre
    <3> QED
      BY <1>4, <1>7, <1>9, <3>2
  <2> QED
    BY <2>1, <2>2, <2>3, <2>4
<1> QED
  BY <1>8, <1>9

LEMMA CollectStep ==
  ASSUME IterInv, IterInv', SnapshotInv, Collects
  PROVE  CallInv' /\ [C!Next]_(C!vars)
<1> DEFINE k == M!Key
<1>1. /\ ContentInv /\ SameReads /\ BackwardInv /\ M!Backward /\ pc = "backward"
      /\ UNCHANGED <<call, before>>
  BY Unwritten DEF Collects, SnapshotInv, CallInv
<1>2. over = None
  BY <1>1 DEF IterInv, ScanInv
<1>3. /\ At = k /\ k \in Int /\ Below({x \in Old : x < k})
      /\ current' # None => M!Key' < k
  BY <1>1, <1>2, MovesBackward
<1>4. /\ valueType' \in {"value", "deletion"}
      /\ valueType' = "value" =>
           /\ SavedEntry' /\ k <= Saved' /\ \A y \in Old : y >= k => y >= Saved'
           /\ \A r \in C!Highest({x \in Visible : x <= Saved'}, Visible) : Right(r)'
      /\ valueType' = "deletion" =>
           \A r \in C!Highest({x \in Visible : x < k}, Visible) : Right(r)'
  BY Collected
<1>5. valueType' = "value" => Saved' \in Int /\ saved' \in Int /\ UserOf(Saved') = saved'
  BY <1>1, <1>4, SavedIs
<1>6. \A y \in Old : y \in Int /\ UserOf(y) \in Int
  BY <1>1, OldAre
<1>7. \A x \in Visible : x \in Old
  BY <1>1, VisibleAre
<1>8. CASE current' = None
  <2>1. \A y \in Old : ~(y < k) /\ y >= k
    BY <1>3, <1>6, <1>8 DEF Below
  <2>2. pc' = "idle" /\ valid' = (valueType' # "deletion")
        /\ direction' = IF valueType' = "deletion" THEN "forward" ELSE "reverse"
    BY <1>8 DEF Collects, BackwardEnds
  <2>3. CASE valueType' = "deletion"
    <3>1. {x \in Visible : x < k} = {}
      BY <1>7, <2>1
    <3>2. Right(None)'
      BY <1>4, <2>3, <3>1 DEF C!Highest
    <3> QED
      BY <1>1, <2>2, <2>3, <3>2, EndsWithNothing
  <2>4. CASE valueType' = "value"
    <3>1. \A y \in Old : y >= Saved' /\ UserOf(y) >= saved'
      <4> SUFFICES ASSUME NEW y \in Old PROVE y >= Saved' /\ UserOf(y) >= saved'
        OBVIOUS
      <4>1. Saved' <= y
        BY <1>4, <1>5, <1>6, <2>1, <2>4
      <4>2. UserOf(Saved') <= UserOf(y)
        BY <1>5, <1>6, <2>4, <4>1, UsersRise
      <4> QED
        BY <1>5, <1>6, <2>4, <4>1, <4>2
    <3>2. /\ \A y \in Old : UserOf(y) = saved' => Saved' <= y
          /\ \A y \in Old : UserOf(y) < saved' => M!Valid' /\ y <= M!Key'
      BY <1>5, <1>6, <2>4, <3>1
    <3>3. ~M!Valid'
      BY <1>8 DEF M!Valid
    <3> QED
      BY <1>1, <1>4, <2>2, <2>4, <3>2, <3>3, ShowsSaved
  <2> QED
    BY <1>4, <2>3, <2>4
<1>9. CASE current' # None
  <2>1. UNCHANGED <<direction, pc>>
    BY <1>9 DEF Collects
  <2>2. M!Key' \in Int /\ M!Key' < k /\ \A y \in Old : y < k => y <= M!Key'
    BY <1>3, <1>9 DEF Below
  <2>3. M!Valid' /\ direction' = "reverse" /\ pc' = "backward"
    BY <1>1, <1>9, <2>1 DEF M!Valid, BackwardInv
  <2>4. Visible' = Visible /\ Old' = Old
    BY <1>1 DEF SameReads
  <2>5. valueType' = "value" => M!Key' < Saved' /\ \A y \in Old : y > M!Key' => y >= Saved'
    BY <1>3, <1>4, <1>5, <1>6, <2>2
  <2>6. {x \in Visible : x <= M!Key'} = {x \in Visible : x < k}
    BY <1>3, <1>6, <1>7, <2>2
  <2>7. BackwardInv'
    BY <1>4, <2>3, <2>4, <2>5, <2>6 DEF BackwardInv
  <2>8. UNCHANGED C!vars
    BY <1>1, <2>3, GoesOn
  <2> QED
    BY <2>3, <2>7, <2>8 DEF CallInv
<1> QED
  BY <1>8, <1>9

(* A write while a call is under way, or between two.                      *)
LEMMA SnapshotWrite ==
  ASSUME IterInv, IterInv', SnapshotInv, NEW u \in Users, NEW t \in {"value", "deletion"},
         NEW q \in Sequences, Write(u, t, q) \/ ScanOvershoots(u, t, q)
  PROVE  SnapshotInv' /\ [C!Next]_(C!vars)
<1> DEFINE x == Internal(u, q)
<1>1. /\ ContentInv /\ CallInv /\ Written(u, t, q)
      /\ UNCHANGED <<direction, valid, saved, savedValue, skipping, valueType, pc, call, before>>
  BY DEF SnapshotInv, Write, ScanOvershoots, Written
<1>2. known' = known /\ content' = [content EXCEPT ![1] = @ \cup {x}]
  BY DEF Write, ScanOvershoots, M!Insert, M!Overshoot, M!Moves
<1>3. \A y \in M!All' : y \in M!All \/ y = x
  <2>1. content \in [1..N -> SUBSET InternalKeys]
    BY MergerValues DEF IterInv, MP!MergeTypes
  <2> QED
    BY <1>2, <2>1 DEF M!All
<1>4. SameReads /\ ContentInv'
  BY <1>1, <1>2, <1>3, WritesAreNewer
<1>5. CASE Write(u, t, q)
  <2>1. UNCHANGED <<current, pos, over>>
    BY <1>5 DEF Write, M!Insert
  <2>2. CallInv' /\ Shown' = Shown
    BY <1>1, <1>4, <2>1, CallStays
  <2>3. UNCHANGED C!vars
    BY <1>1, <1>4, <2>2 DEF C!vars, SameReads
  <2> QED
    BY <1>4, <2>2, <2>3 DEF SnapshotInv
<1>6. CASE ScanOvershoots(u, t, q)
  <2>1. pc = "scan" /\ M!Overshoot(1, x) /\ TurnInv
    BY <1>1, <1>6 DEF ScanOvershoots, CallInv
  <2>2. over = None
    <3>1. MP!Overshoot(1, x)
      BY <2>1, SameWrites
    <3> QED
      BY <3>1, MergerValues DEF IterInv, MP!Overshoot
  <2>3. At = M!Key /\ M!Key \in Int
    BY <1>1, <2>1, <2>2, KeysAre DEF At, KeyIs, TurnInv
  <2>4. over' = M!Key /\ over' # None
    BY <2>1, <2>3, MergerValues DEF M!Overshoot, IterInv
  <2>5. At' = At
    BY <2>3, <2>4 DEF At
  <2>6. M!Valid'
    <3>1. MP!Valid'
      <4>1. (MP!MergeInv /\ over # None => MP!Valid)'
        BY MergerValues, PTL
      <4> QED
        BY <2>4, <4>1 DEF IterInv
    <3> QED
      BY <3>1 DEF M!Valid, MP!Valid
  <2>7. \A r \in C!Highest({y \in Visible : UserOf(y) < saved}, Visible) : Right(r)'
    BY <1>1, <1>4, <2>1, RightStays DEF TurnInv
  <2>8. TurnInv'
    BY <1>1, <1>4, <2>1, <2>5, <2>6, <2>7 DEF TurnInv, SameReads
  <2>9. UNCHANGED C!vars
    BY <1>1, <1>4, <2>1, GoesOn
  <2> QED
    BY <1>1, <1>4, <2>1, <2>8, <2>9 DEF SnapshotInv, CallInv
<1> QED
  BY <1>5, <1>6

LEMMA SnapshotStep ==
  ASSUME IterInv, IterInv', SnapshotInv, [Next]_vars
  PROVE  SnapshotInv' /\ [C!Next]_(C!vars)
<1>1. ASSUME UNCHANGED <<written, content, known>>, CallInv' /\ [C!Next]_(C!vars)
      PROVE  SnapshotInv' /\ [C!Next]_(C!vars)
  BY <1>1, ContentStays DEF SnapshotInv
<1> USE DEF M!Positions, M!Moves
<1>2. CASE SeekToFirst
  BY <1>1, <1>2, FirstStep DEF SeekToFirst, M!SeekToFirst
<1>3. CASE SeekToLast
  BY <1>1, <1>3, LastStep DEF SeekToLast, M!SeekToLast
<1>4. ASSUME NEW t \in Users, Seek(t) PROVE SnapshotInv' /\ [C!Next]_(C!vars)
  BY <1>1, <1>4, SeekStep DEF Seek, M!Seek
<1>5. CASE Step
  <2>1. UNCHANGED <<written, content, known>>
    BY <1>5 DEF Step, M!Forward, M!SeekToFirst, merger
  <2>2. direction = "forward" \/ direction = "reverse"
    BY <1>5 DEF Step
  <2> QED
    BY <1>1, <1>5, <2>1, <2>2, StepOn, StepTurns
<1>6. CASE Prev
  BY <1>1, <1>6, PrevStep DEF Prev, merger
<1>7. CASE Yields
  BY <1>1, <1>7, YieldStep DEF Yields, merger
<1>8. CASE Passes
  BY <1>1, <1>8, PassStep DEF Passes, M!Forward
<1>9. CASE Scan
  BY <1>1, <1>9, TurnStep DEF Scan, M!Backward
<1>10. CASE Stops
  BY <1>1, <1>10, StopStep DEF Stops, merger
<1>11. CASE Collects
  BY <1>1, <1>11, CollectStep DEF Collects, M!Backward
<1>12. ASSUME NEW u \in Users, NEW t \in {"value", "deletion"}, NEW q \in Sequences,
              Write(u, t, q) \/ ScanOvershoots(u, t, q)
       PROVE  SnapshotInv' /\ [C!Next]_(C!vars)
  BY <1>12, SnapshotWrite
<1>13. CASE UNCHANGED vars
  <2>1. /\ UNCHANGED <<written, content, known>>
        /\ UNCHANGED <<current, pos, over, direction, valid, saved, savedValue, skipping,
                       valueType, pc, call, before>>
    BY <1>13 DEF vars, merger
  <2>2. SameReads /\ CallInv' /\ Shown' = Shown
    BY <2>1, Unwritten, CallStays DEF SnapshotInv
  <2>3. UNCHANGED C!vars
    BY <2>1, <2>2 DEF C!vars, SameReads
  <2> QED
    BY <1>1, <2>1, <2>2, <2>3
<1> QED
  BY <1>2, <1>3, <1>4, <1>5, <1>6, <1>7, <1>8, <1>9, <1>10, <1>11, <1>12, <1>13 DEF Next

LEMMA SnapshotStarts ==
  ASSUME Init
  PROVE  SnapshotInv /\ C!Init
<1>1. PICK home \in [Entries -> 1..N] :
        content = [i \in 1..N |-> {Internal(user[q], q) : q \in {p \in Entries : home[p] = i}}]
  BY DEF Init
<1>2. \A x \in M!All : \E q \in Entries : x = Internal(user[q], q)
  BY <1>1 DEF M!All
<1>3. \A q \in Entries : Internal(user[q], q) \in M!All
  BY <1>1 DEF M!All
<1>4. Old \subseteq known
  BY <1>3 DEF Old, Readables, Init
<1>5. ContentInv
  BY <1>2, <1>4 DEF Init, ContentInv
<1>6. CallInv
  BY DEF Init, CallInv, IdleInv
<1>7. C!Init
  BY DEF Init, C!Init, Shown
<1> QED
  BY <1>5, <1>6, <1>7 DEF SnapshotInv

(* An application walks over the keys of its snapshot with the value each  *)
(* has there, in either direction, wherever it turns (DBIter::Next, Prev   *)
(* and the Seeks): deletions, overwritten values and what is written       *)
(* meanwhile never show.                                                   *)
THEOREM ShowsTheSnapshot == Spec => ImplementsCursor
<1>1. Init => IterInv /\ SnapshotInv /\ C!Init
  BY IterStarts, SnapshotStarts
<1>2. IterInv /\ SnapshotInv /\ [Next]_vars => IterInv' /\ SnapshotInv' /\ [C!Next]_(C!vars)
  BY IterStep, SnapshotStep
<1> QED
  BY <1>1, <1>2, PTL DEF Spec, ImplementsCursor, C!Spec
=============================================================================
