----------------------- MODULE MergingIteratorProofs -----------------------
(***************************************************************************)
(* The merging iterator is a cursor over the keys of all its children, for *)
(* any number of children, any keys and any writes in between, as long as  *)
(* nobody turns back at a key that was met on the wrong side.              *)
(***************************************************************************)
EXTENDS MergingIterator, TLAPS

-----------------------------------------------------------------------------
(***************************************************************************)
(* The first and the last of a set of keys.                                *)
(***************************************************************************)
LEMMA LowestIs ==
  ASSUME MergeAssumption, NEW S \in SUBSET Keys
  PROVE  /\ Lowest(S) = None <=> S = {}
         /\ Lowest(S) # None => Lowest(S) \in S
         /\ \A x \in S : Lowest(S) # None /\ Lowest(S) \in Int /\ x \in Int /\ Lowest(S) <= x
<1>1. CASE S = {}
  BY <1>1 DEF Lowest
<1>2. CASE S # {}
  <2>1. S \in (SUBSET Keys) \ {{}}
    BY <1>2
  <2>2. \E x \in S : \A y \in S : x <= y
    BY <2>1 DEF MergeAssumption
  <2>3. Min(S) \in S /\ \A y \in S : Min(S) <= y
    BY <2>2 DEF Min
  <2>4. Lowest(S) = Min(S)
    BY <1>2 DEF Lowest
  <2> QED
    BY <1>2, <2>3, <2>4 DEF MergeAssumption
<1> QED
  BY <1>1, <1>2

LEMMA HighestIs ==
  ASSUME MergeAssumption, NEW S \in SUBSET Keys
  PROVE  /\ Highest(S) = None <=> S = {}
         /\ Highest(S) # None => Highest(S) \in S
         /\ \A x \in S : Highest(S) # None /\ Highest(S) \in Int /\ x \in Int /\ x <= Highest(S)
<1>1. CASE S = {}
  BY <1>1 DEF Highest
<1>2. CASE S # {}
  <2>1. S \in (SUBSET Keys) \ {{}}
    BY <1>2
  <2>2. \E x \in S : \A y \in S : x >= y
    BY <2>1 DEF MergeAssumption
  <2>3. Max(S) \in S /\ \A y \in S : Max(S) >= y
    BY <2>2 DEF Max
  <2>4. Highest(S) = Max(S)
    BY <1>2 DEF Highest
  <2> QED
    BY <1>2, <2>3, <2>4 DEF MergeAssumption
<1> QED
  BY <1>1, <1>2

(* The child that current_ becomes.                                        *)
LEMMA SmallestIs ==
  ASSUME MergeAssumption, NEW p \in [1..N -> Keys \cup {None}]
  PROVE  \/ FindSmallest(p) = None /\ \A i \in 1..N : p[i] = None
         \/ /\ FindSmallest(p) \in 1..N /\ p[FindSmallest(p)] # None
            /\ \A j \in 1..N : p[j] # None => p[FindSmallest(p)] <= p[j]
<1>1. CASE \A i \in 1..N : p[i] = None
  BY <1>1 DEF FindSmallest
<1>2. CASE ~ \A i \in 1..N : p[i] = None
  <2> DEFINE S == {x \in Keys : \E i \in 1..N : p[i] = x /\ p[i] # None}
  <2>1. S \in (SUBSET Keys) \ {{}}
    BY <1>2
  <2>2. \E x \in S : \A y \in S : x <= y
    BY <2>1 DEF MergeAssumption
  <2>3. \E i \in 1..N : p[i] # None /\ \A j \in 1..N : p[j] # None => p[i] <= p[j]
    BY <2>2
  <2> QED
    BY <1>2, <2>3 DEF FindSmallest
<1> QED
  BY <1>1, <1>2

LEMMA LargestIs ==
  ASSUME MergeAssumption, NEW p \in [1..N -> Keys \cup {None}]
  PROVE  \/ FindLargest(p) = None /\ \A i \in 1..N : p[i] = None
         \/ /\ FindLargest(p) \in 1..N /\ p[FindLargest(p)] # None
            /\ \A j \in 1..N : p[j] # None => p[FindLargest(p)] >= p[j]
<1>1. CASE \A i \in 1..N : p[i] = None
  BY <1>1 DEF FindLargest
<1>2. CASE ~ \A i \in 1..N : p[i] = None
  <2> DEFINE S == {x \in Keys : \E i \in 1..N : p[i] = x /\ p[i] # None}
  <2>1. S \in (SUBSET Keys) \ {{}}
    BY <1>2
  <2>2. \E x \in S : \A y \in S : x >= y
    BY <2>1 DEF MergeAssumption
  <2>3. \E i \in 1..N : p[i] # None /\ \A j \in 1..N : p[j] # None => p[i] >= p[j]
    BY <2>2
  <2> QED
    BY <1>2, <2>3 DEF FindLargest
<1> QED
  BY <1>1, <1>2

-----------------------------------------------------------------------------
(***************************************************************************)
(* Where the children are.  Those on one side of the key have passed over  *)
(* no known key between it and them.                                       *)
(***************************************************************************)
MergeTypes ==
  /\ content \in [1..N -> SUBSET Keys] /\ known \subseteq All
  /\ pos \in [1..N -> Keys \cup {None}] /\ current \in 1..N \cup {None}
  /\ direction \in {"forward", "reverse"}
  /\ Valid => pos[current] # None
  /\ over \in All \cup {None}
  /\ \A i, j \in 1..N : i # j => content[i] \cap content[j] = {}

After ==
  /\ \A i \in 1..N : pos[i] # None => pos[i] \in content[i] /\ pos[i] >= Key
  /\ \A i \in 1..N : \A z \in content[i] \cap known :
       z >= Key => pos[i] # None /\ pos[i] <= z

Before ==
  /\ \A i \in 1..N : pos[i] # None => pos[i] \in content[i] /\ pos[i] <= Key
  /\ \A i \in 1..N : \A z \in content[i] \cap known :
       z <= Key => pos[i] # None /\ pos[i] >= z

(* A Prev went past over: one child is after it, the others before.        *)
Beyond ==
  /\ Key > over /\ Key \in content[current] /\ over \notin content[current]
  /\ \A i \in 1..N \ {current} : pos[i] # None => pos[i] \in content[i] /\ pos[i] < over
  /\ \A i \in 1..N : \A z \in content[i] \cap known :
       z < over => pos[i] # None /\ pos[i] >= z

Sided ==
  /\ Valid /\ direction = "forward" => After /\ over = None
  /\ Valid /\ direction = "reverse" /\ over = None => Before
  /\ over # None => Valid /\ Beyond

MergeInv == MergeTypes /\ Sided

LEMMA MergeTypesAre == MergeInv => TypeOK
  BY DEF MergeInv, MergeTypes, TypeOK

-----------------------------------------------------------------------------
(***************************************************************************)
(* A call that brings every child to its first key of S, of which it may   *)
(* have passed over such as are not known, ends at the first key of S.     *)
(***************************************************************************)
LEMMA LandsForward ==
  ASSUME MergeAssumption, MergeTypes, NEW S \in SUBSET All,
         \A x \in S, y \in All : y >= x => y \in S,
         NEW p \in [1..N -> Keys \cup {None}],
         \A i \in 1..N : p[i] # None => p[i] \in content[i] \cap S,
         \A i \in 1..N : \A z \in content[i] \cap known \cap S : p[i] # None /\ p[i] <= z,
         Positions(p, "forward")
  PROVE  /\ MergeInv'
         /\ (IF ~Valid THEN None ELSE IF over # None THEN over ELSE Key)'
              \in C!Lowest(S, known)
         /\ All' = All /\ known' = known
<1>1. /\ pos' = p /\ current' = FindSmallest(p) /\ direction' = "forward"
      /\ UNCHANGED <<known, content>> /\ over' = None
  BY DEF Positions, Moves
<1>2. All' = All
  BY <1>1 DEF All
<1>3. All \subseteq Keys /\ Keys \subseteq Int /\ None \notin Int
  BY DEF MergeTypes, All, MergeAssumption
<1>4. MergeTypes'
  BY <1>1, <1>2, SmallestIs DEF MergeTypes, Valid, MergeAssumption
<1>5. CASE \A i \in 1..N : p[i] = None
  <2>1. current' = None
    BY <1>1, <1>5, SmallestIs
  <2>2. S \cap known = {}
    BY <1>5 DEF All
  <2> QED
    BY <1>1, <1>2, <1>4, <2>1, <2>2 DEF MergeInv, Sided, Valid, C!Lowest
<1>6. CASE ~ \A i \in 1..N : p[i] = None
  <2> DEFINE c == FindSmallest(p)
  <2>1. /\ c \in 1..N /\ p[c] # None /\ p[c] \in S /\ p[c] \in Int /\ c # None
        /\ \A j \in 1..N : p[j] # None => p[c] <= p[j]
    <3>1. /\ c \in 1..N /\ p[c] # None
          /\ \A j \in 1..N : p[j] # None => p[c] <= p[j]
      BY <1>6, SmallestIs
    <3>2. p[c] \in S /\ p[c] \in Int
      BY <1>3, <3>1
    <3> QED
      BY <1>3, <3>1, <3>2 DEF MergeAssumption
  <2>2. Valid' /\ Key' = p[c]
    BY <1>1, <2>1 DEF Valid, Key
  <2>3. \A i \in 1..N : \A z \in content[i] \cap known :
          z >= p[c] => p[i] # None /\ p[i] <= z
    BY <2>1 DEF All
  <2>4. Sided'
    BY <1>1, <2>1, <2>2, <2>3 DEF Sided, After
  <2>5. \A z \in S \cap known : p[c] <= z
    <3> SUFFICES ASSUME NEW z \in S \cap known PROVE p[c] <= z
      OBVIOUS
    <3>1. PICK i \in 1..N : z \in content[i]
      BY DEF All
    <3>2. p[i] # None /\ p[i] <= z /\ p[c] <= p[i] /\ p[i] \in Int /\ z \in Int
      BY <1>3, <2>1, <3>1
    <3> QED
      BY <2>1, <3>2
  <2>6. p[c] \in C!Lowest(S, known)
    BY <2>1, <2>5 DEF C!Lowest
  <2> QED
    BY <1>1, <1>2, <1>4, <2>2, <2>4, <2>6 DEF MergeInv
<1> QED
  BY <1>5, <1>6

LEMMA LandsBackward ==
  ASSUME MergeAssumption, MergeTypes, NEW S \in SUBSET All,
         \A x \in S, y \in All : y <= x => y \in S,
         NEW p \in [1..N -> Keys \cup {None}],
         \A i \in 1..N : p[i] # None => p[i] \in content[i] \cap S,
         \A i \in 1..N : \A z \in content[i] \cap known \cap S : p[i] # None /\ p[i] >= z,
         Positions(p, "reverse")
  PROVE  /\ MergeInv'
         /\ (IF ~Valid THEN None ELSE IF over # None THEN over ELSE Key)'
              \in C!Highest(S, known)
         /\ All' = All /\ known' = known
<1>1. /\ pos' = p /\ current' = FindLargest(p) /\ direction' = "reverse"
      /\ UNCHANGED <<known, content>> /\ over' = None
  BY DEF Positions, Moves
<1>2. All' = All
  BY <1>1 DEF All
<1>3. All \subseteq Keys /\ Keys \subseteq Int /\ None \notin Int
  BY DEF MergeTypes, All, MergeAssumption
<1>4. MergeTypes'
  BY <1>1, <1>2, LargestIs DEF MergeTypes, Valid, MergeAssumption
<1>5. CASE \A i \in 1..N : p[i] = None
  <2>1. current' = None
    BY <1>1, <1>5, LargestIs
  <2>2. S \cap known = {}
    BY <1>5 DEF All
  <2> QED
    BY <1>1, <1>2, <1>4, <2>1, <2>2 DEF MergeInv, Sided, Valid, C!Highest
<1>6. CASE ~ \A i \in 1..N : p[i] = None
  <2> DEFINE c == FindLargest(p)
  <2>1. /\ c \in 1..N /\ p[c] # None /\ p[c] \in S /\ p[c] \in Int /\ c # None
        /\ \A j \in 1..N : p[j] # None => p[c] >= p[j]
    <3>1. /\ c \in 1..N /\ p[c] # None
          /\ \A j \in 1..N : p[j] # None => p[c] >= p[j]
      BY <1>6, LargestIs
    <3>2. p[c] \in S /\ p[c] \in Int
      BY <1>3, <3>1
    <3> QED
      BY <1>3, <3>1, <3>2 DEF MergeAssumption
  <2>2. Valid' /\ Key' = p[c]
    BY <1>1, <2>1 DEF Valid, Key
  <2>3. \A i \in 1..N : \A z \in content[i] \cap known :
          z <= p[c] => p[i] # None /\ p[i] >= z
    BY <2>1 DEF All
  <2>4. Sided'
    BY <1>1, <2>1, <2>2, <2>3 DEF Sided, Before
  <2>5. \A z \in S \cap known : p[c] >= z
    <3> SUFFICES ASSUME NEW z \in S \cap known PROVE p[c] >= z
      OBVIOUS
    <3>1. PICK i \in 1..N : z \in content[i]
      BY DEF All
    <3>2. p[i] # None /\ p[i] >= z /\ p[c] >= p[i] /\ p[i] \in Int /\ z \in Int
      BY <1>3, <2>1, <3>1
    <3> QED
      BY <2>1, <3>2
  <2>6. p[c] \in C!Highest(S, known)
    BY <2>1, <2>5 DEF C!Highest
  <2> QED
    BY <1>1, <1>2, <1>4, <2>2, <2>4, <2>6 DEF MergeInv
<1> QED
  BY <1>5, <1>6

-----------------------------------------------------------------------------
(***************************************************************************)
(* The calls, one by one: each is a step of the cursor, or none.           *)
(***************************************************************************)
LEMMA KeysAreIntegers ==
  ASSUME MergeAssumption, MergeTypes
  PROVE  /\ Keys \subseteq Int /\ None \notin Int /\ N \in Nat /\ All \subseteq Keys
         /\ \A i \in 1..N : content[i] \subseteq Keys /\ content[i] \subseteq All
         /\ Valid => /\ current \in 1..N /\ Key = pos[current]
                     /\ Key \in Keys /\ Key \in Int
<1>1. /\ Keys \subseteq Int /\ None \notin Int /\ N \in Nat
      /\ \A i \in 1..N : content[i] \subseteq Keys
  BY DEF MergeTypes, MergeAssumption
<1>2. All \subseteq Keys /\ \A i \in 1..N : content[i] \subseteq All
  BY <1>1 DEF All
<1>3. Valid => /\ current \in 1..N /\ Key = pos[current]
               /\ Key \in Keys /\ Key \in Int
  BY <1>1 DEF MergeTypes, Valid, Key
<1> QED
  BY <1>1, <1>2, <1>3

LEMMA SeeksToFirst ==
  ASSUME MergeAssumption, MergeInv, SeekToFirst
  PROVE  MergeInv' /\ C!SeekToFirst
<1> DEFINE p == [i \in 1..N |-> Lowest(content[i])]
<1>1. MergeTypes /\ Positions(p, "forward") /\ last' = <<"SeekToFirst">>
  BY DEF MergeInv, SeekToFirst
<1>2. p \in [1..N -> Keys \cup {None}]
  BY <1>1, KeysAreIntegers, LowestIs
<1>3. /\ \A i \in 1..N : p[i] # None => p[i] \in content[i] \cap All
      /\ \A i \in 1..N : \A z \in content[i] \cap known \cap All : p[i] # None /\ p[i] <= z
  BY <1>1, KeysAreIntegers, LowestIs
<1> HIDE DEF p
<1>4. /\ MergeInv' /\ All' = All /\ known' = known
      /\ (IF ~Valid THEN None ELSE IF over # None THEN over ELSE Key)' \in C!Lowest(All, known)
  BY <1>1, <1>2, <1>3, LandsForward
<1> QED
  BY <1>1, <1>4 DEF C!SeekToFirst, C!Moves

LEMMA SeeksToLast ==
  ASSUME MergeAssumption, MergeInv, SeekToLast
  PROVE  MergeInv' /\ C!SeekToLast
<1> DEFINE p == [i \in 1..N |-> Highest(content[i])]
<1>1. MergeTypes /\ Positions(p, "reverse") /\ last' = <<"SeekToLast">>
  BY DEF MergeInv, SeekToLast
<1>2. p \in [1..N -> Keys \cup {None}]
  BY <1>1, KeysAreIntegers, HighestIs
<1>3. /\ \A i \in 1..N : p[i] # None => p[i] \in content[i] \cap All
      /\ \A i \in 1..N : \A z \in content[i] \cap known \cap All : p[i] # None /\ p[i] >= z
  BY <1>1, KeysAreIntegers, HighestIs
<1> HIDE DEF p
<1>4. /\ MergeInv' /\ All' = All /\ known' = known
      /\ (IF ~Valid THEN None ELSE IF over # None THEN over ELSE Key)' \in C!Highest(All, known)
  BY <1>1, <1>2, <1>3, LandsBackward
<1> QED
  BY <1>1, <1>4 DEF C!SeekToLast, C!Moves

LEMMA Seeks ==
  ASSUME MergeAssumption, MergeInv, NEW t \in Keys, Seek(t)
  PROVE  MergeInv' /\ C!Seek(t)
<1> DEFINE p == [i \in 1..N |-> ChildSeek(i, t)]
           S == {x \in All : x >= t}
<1>1. MergeTypes /\ Positions(p, "forward") /\ last' = <<"Seek", t>>
  BY DEF MergeInv, Seek
<1>2. ASSUME NEW i \in 1..N
      PROVE  /\ ChildSeek(i, t) \in Keys \cup {None}
             /\ ChildSeek(i, t) # None => ChildSeek(i, t) \in content[i] \cap S
             /\ \A z \in content[i] \cap known \cap S :
                  ChildSeek(i, t) # None /\ ChildSeek(i, t) <= z
  <2>1. {x \in content[i] : x >= t} \in SUBSET Keys /\ content[i] \subseteq All
    BY <1>1, KeysAreIntegers
  <2> QED
    BY <2>1, LowestIs DEF ChildSeek
<1>3. p \in [1..N -> Keys \cup {None}]
  BY <1>2
<1>4. /\ \A i \in 1..N : p[i] # None => p[i] \in content[i] \cap S
      /\ \A i \in 1..N : \A z \in content[i] \cap known \cap S : p[i] # None /\ p[i] <= z
  BY <1>2
<1>5. S \in SUBSET All /\ \A x \in S, y \in All : y >= x => y \in S
  BY <1>1, KeysAreIntegers
<1> HIDE DEF p
<1>6. /\ MergeInv' /\ All' = All /\ known' = known
      /\ (IF ~Valid THEN None ELSE IF over # None THEN over ELSE Key)' \in C!Lowest(S, known)
  BY <1>1, <1>3, <1>4, <1>5, LandsForward
<1> QED
  BY <1>1, <1>6 DEF C!Seek, C!Moves

LEMMA GoesForward ==
  ASSUME MergeAssumption, MergeInv, over = None, Forward
  PROVE  MergeInv' /\ C!Forward
<1> DEFINE p == [i \in 1..N |-> IF i = current THEN ChildNext(i) ELSE BroughtAfter(i)]
           S == {x \in All : x > Key}
<1>1. MergeTypes /\ Positions(p, "forward") /\ last' = <<"Next">> /\ Valid
  BY DEF MergeInv, Forward
<1>2. /\ Keys \subseteq Int /\ None \notin Int /\ All \subseteq Keys
      /\ \A i \in 1..N : content[i] \subseteq Keys /\ content[i] \subseteq All
      /\ current \in 1..N /\ Key = pos[current] /\ Key \in Int /\ Key # None
  BY <1>1, KeysAreIntegers
<1>3. ASSUME NEW i \in 1..N
      PROVE  LET l == Lowest({x \in content[i] : x > Key})
             IN  /\ l \in Keys \cup {None}
                 /\ l # None => l \in content[i] \cap S
                 /\ \A z \in content[i] \cap known \cap S : l # None /\ l <= z
  <2>1. {x \in content[i] : x > Key} \in SUBSET Keys
    BY <1>2
  <2> QED
    BY <1>2, <2>1, LowestIs
<1>4. ASSUME NEW i \in 1..N, i # current, direction = "forward"
      PROVE  /\ pos[i] \in Keys \cup {None}
             /\ pos[i] # None => pos[i] \in content[i] \cap S
             /\ \A z \in content[i] \cap known \cap S : pos[i] # None /\ pos[i] <= z
  <2>1. After
    BY <1>1, <1>4 DEF MergeInv, Sided
  <2>2. Key \in content[current] /\ content[i] \cap content[current] = {}
    BY <1>1, <1>2, <1>4, <2>1 DEF After, MergeTypes
  <2>3. pos[i] # None => pos[i] \in content[i] /\ pos[i] >= Key /\ pos[i] \in Int
    BY <1>2, <2>1 DEF After
  <2>4. pos[i] # None => pos[i] > Key
    BY <1>2, <2>2, <2>3
  <2> QED
    BY <1>1, <1>2, <2>1, <2>3, <2>4 DEF After, MergeTypes
<1>5. ASSUME NEW i \in 1..N
      PROVE  /\ p[i] \in Keys \cup {None}
             /\ p[i] # None => p[i] \in content[i] \cap S
             /\ \A z \in content[i] \cap known \cap S : p[i] # None /\ p[i] <= z
  <2>1. CASE i = current
    BY <1>2, <1>3, <2>1 DEF ChildNext
  <2>2. CASE i # current /\ direction = "forward"
    BY <1>4, <2>2 DEF BroughtAfter
  <2>3. CASE i # current /\ direction # "forward"
    BY <1>3, <2>3 DEF BroughtAfter
  <2> QED
    BY <2>1, <2>2, <2>3
<1>6. S \in SUBSET All /\ \A x \in S, y \in All : y >= x => y \in S
  BY <1>2
<1>7. p \in [1..N -> Keys \cup {None}]
  <2>1. \A i \in 1..N : p[i] \in Keys \cup {None}
    BY <1>5
  <2> QED
    BY <2>1
<1> HIDE DEF p
<1>8. /\ MergeInv' /\ All' = All /\ known' = known
      /\ (IF ~Valid THEN None ELSE IF over # None THEN over ELSE Key)' \in C!Lowest(S, known)
  BY <1>1, <1>5, <1>6, <1>7, LandsForward
<1>9. (IF ~Valid THEN None ELSE IF over # None THEN over ELSE Key) = Key
  BY <1>1
<1> QED
  BY <1>1, <1>2, <1>8, <1>9 DEF C!Forward, C!Moves

LEMMA BroughtBack ==
  ASSUME MergeAssumption, MergeInv, Valid, direction = "forward", NEW i \in 1..N
  PROVE  /\ BroughtBefore(i) = Highest({x \in content[i] : x < Key})
         /\ {x \in content[i] : x < Key} \in SUBSET Keys
<1>1. /\ Keys \subseteq Int /\ None \notin Int
      /\ content[i] \subseteq Keys /\ Key \in Int
  BY KeysAreIntegers DEF MergeInv
<1> DEFINE T == {x \in content[i] : x >= Key}
           t == ChildSeek(i, Key)
<1>2. T \in SUBSET Keys /\ t = Lowest(T)
  BY <1>1 DEF ChildSeek
<1>3. CASE t = None
  <2>1. T = {}
    BY <1>2, <1>3, LowestIs
  <2>2. {x \in content[i] : x < Key} = content[i]
    <3>1. \A x \in content[i] : x \in Int /\ ~(x >= Key)
      BY <1>1, <2>1
    <3> QED
      BY <1>1, <3>1
  <2> QED
    BY <1>1, <1>3, <2>2 DEF BroughtBefore
<1>4. CASE t # None
  <2>1. t \in T /\ \A x \in T : x \in Int /\ t \in Int /\ t <= x
    BY <1>2, <1>4, LowestIs
  <2>2. {x \in content[i] : x < Key} = {x \in content[i] : x < t}
    BY <1>1, <2>1
  <2> QED
    BY <1>1, <1>4, <2>2 DEF BroughtBefore
<1> QED
  BY <1>3, <1>4

Previous(i) == IF i = current THEN ChildPrev(i) ELSE BroughtBefore(i)

LEMMA GoesBackward ==
  ASSUME MergeAssumption, MergeInv, over = None, Backward
  PROVE  MergeInv' /\ C!Backward
<1> DEFINE p == [i \in 1..N |-> Previous(i)]
           S == {x \in All : x < Key}
<1>1. MergeTypes /\ Positions(p, "reverse") /\ last' = <<"Prev">> /\ Valid
  BY DEF MergeInv, Backward, Positions, Previous
<1>2. /\ Keys \subseteq Int /\ None \notin Int /\ All \subseteq Keys
      /\ \A i \in 1..N : content[i] \subseteq Keys /\ content[i] \subseteq All
      /\ current \in 1..N /\ Key = pos[current] /\ Key \in Int /\ Key # None
  BY <1>1, KeysAreIntegers
<1>3. ASSUME NEW i \in 1..N
      PROVE  LET h == Highest({x \in content[i] : x < Key})
             IN  /\ h \in Keys \cup {None}
                 /\ h # None => h \in content[i] \cap S
                 /\ \A z \in content[i] \cap known \cap S : h # None /\ h >= z
  <2>1. {x \in content[i] : x < Key} \in SUBSET Keys
    BY <1>2
  <2> QED
    BY <1>2, <2>1, HighestIs
<1>4. ASSUME NEW i \in 1..N, i # current, direction = "reverse"
      PROVE  /\ pos[i] \in Keys \cup {None}
             /\ pos[i] # None => pos[i] \in content[i] \cap S
             /\ \A z \in content[i] \cap known \cap S : pos[i] # None /\ pos[i] >= z
  <2>1. Before
    BY <1>1, <1>4 DEF MergeInv, Sided
  <2>2. Key \in content[current] /\ content[i] \cap content[current] = {}
    BY <1>1, <1>2, <1>4, <2>1 DEF Before, MergeTypes
  <2>3. pos[i] # None => pos[i] \in content[i] /\ pos[i] <= Key /\ pos[i] \in Int
    BY <1>2, <2>1 DEF Before
  <2>4. pos[i] # None => pos[i] < Key
    BY <1>2, <2>2, <2>3
  <2> QED
    BY <1>1, <1>2, <2>1, <2>3, <2>4 DEF Before, MergeTypes
<1>5. ASSUME NEW i \in 1..N
      PROVE  /\ p[i] \in Keys \cup {None}
             /\ p[i] # None => p[i] \in content[i] \cap S
             /\ \A z \in content[i] \cap known \cap S : p[i] # None /\ p[i] >= z
  <2>1. CASE i = current
    BY <1>2, <1>3, <2>1 DEF ChildPrev, Previous
  <2>2. CASE i # current /\ direction = "reverse"
    BY <1>4, <2>2 DEF BroughtBefore, Previous
  <2>3. CASE i # current /\ direction = "forward"
    BY <1>1, <1>3, <2>3, BroughtBack DEF Previous
  <2> QED
    BY <1>1, <2>1, <2>2, <2>3 DEF MergeTypes
<1>6. S \in SUBSET All /\ \A x \in S, y \in All : y <= x => y \in S
  BY <1>2
<1>7. p \in [1..N -> Keys \cup {None}]
  <2>1. \A i \in 1..N : p[i] \in Keys \cup {None}
    BY <1>5
  <2> QED
    BY <2>1
<1> HIDE DEF p
<1>8. /\ MergeInv' /\ All' = All /\ known' = known
      /\ (IF ~Valid THEN None ELSE IF over # None THEN over ELSE Key)' \in C!Highest(S, known)
  BY <1>1, <1>5, <1>6, <1>7, LandsBackward
<1>9. (IF ~Valid THEN None ELSE IF over # None THEN over ELSE Key) = Key
  BY <1>1
<1> QED
  BY <1>1, <1>2, <1>8, <1>9 DEF C!Backward, C!Moves

(* The loop of a Prev that went past a key: the child that is beyond it    *)
(* comes back, entry by entry.                                             *)
LEMMA ComesBack ==
  ASSUME MergeAssumption, MergeInv, over # None, Backward
  PROVE  MergeInv' /\ (C!Backward \/ UNCHANGED C!vars)
<1> DEFINE p == [i \in 1..N |-> Previous(i)]
           S == {x \in All : x < over}
<1>1. /\ MergeTypes /\ Valid /\ Beyond /\ direction = "reverse" /\ over \in All
      /\ Moves(p, "reverse") /\ UNCHANGED content
      /\ IF current' # None /\ p[current'] > over
         THEN UNCHANGED <<over, last>> ELSE over' = None /\ last' = <<"Prev">>
  BY DEF MergeInv, MergeTypes, Sided, Backward, Previous
<1>2. /\ Keys \subseteq Int /\ None \notin Int /\ All \subseteq Keys
      /\ \A i \in 1..N : content[i] \subseteq Keys /\ content[i] \subseteq All
      /\ current \in 1..N /\ Key = pos[current] /\ Key \in Int /\ over \in Int
  BY <1>1, KeysAreIntegers
<1> DEFINE h == Highest({x \in content[current] : x < Key})
<1>3. p[current] = h /\ \A i \in 1..N \ {current} : p[i] = pos[i]
  BY <1>1, <1>2 DEF Previous, ChildPrev, BroughtBefore
<1>4. /\ h \in Keys \cup {None}
      /\ h # None => h \in content[current] /\ h \in Int /\ h # over
      /\ \A z \in content[current] \cap known : z < over => h # None /\ h >= z
  <2>1. {x \in content[current] : x < Key} \in SUBSET Keys
    BY <1>2
  <2>2. over \notin content[current] /\ Key > over
    BY <1>1 DEF Beyond
  <2>3. \A z \in content[current] : z \in Int /\ (z < over => z < Key)
    <3>1. content[current] \subseteq Int
      BY <1>2
    <3> QED
      BY <1>2, <2>2, <3>1
  <2> QED
    BY <1>2, <2>1, <2>2, <2>3, HighestIs
<1>5. p \in [1..N -> Keys \cup {None}]
  BY <1>1, <1>3, <1>4 DEF MergeTypes, Previous
<1>6. ASSUME NEW i \in 1..N \ {current}
      PROVE  /\ p[i] # None => p[i] \in content[i] /\ p[i] < over
             /\ \A z \in content[i] \cap known : z < over => p[i] # None /\ p[i] >= z
  BY <1>1, <1>3 DEF Beyond
<1> HIDE DEF p, h
<1>7. CASE h # None /\ h > over
  <2>1. current' = FindLargest(p) /\ pos' = p /\ UNCHANGED <<content, known>>
    BY <1>1 DEF Moves
  <2>2. current' = current
    <3>1. /\ current' \in 1..N /\ p[current'] # None /\ p[current'] >= p[current]
      BY <1>2, <1>3, <1>5, <1>7, <2>1, LargestIs
    <3>2. ASSUME current' # current PROVE FALSE
      <4>1. p[current'] \in Int /\ p[current'] < over
        BY <1>2, <1>6, <3>1, <3>2
      <4> QED
        BY <1>2, <1>3, <1>4, <1>7, <3>1, <4>1
    <3> QED
      BY <3>2
  <2>3. Key' = h /\ Valid' /\ UNCHANGED <<over, last>> /\ direction' = "reverse"
    BY <1>1, <1>2, <1>3, <1>7, <2>1, <2>2 DEF Key, Valid, Moves
  <2>4. All' = All
    BY <2>1 DEF All
  <2>5. MergeTypes'
    BY <1>1, <1>2, <1>3, <1>5, <1>7, <2>1, <2>2, <2>3, <2>4 DEF MergeTypes
  <2>6. Beyond'
    BY <1>1, <1>3, <1>4, <1>6, <1>7, <2>1, <2>2, <2>3 DEF Beyond
  <2>7. UNCHANGED C!vars
    BY <1>1, <2>1, <2>3, <2>4 DEF C!vars
  <2> QED
    BY <2>3, <2>5, <2>6, <2>7 DEF MergeInv, Sided
<1>8. CASE ~(h # None /\ h > over)
  <2>1. \A i \in 1..N : p[i] # None => p[i] \in content[i] \cap S
    BY <1>2, <1>3, <1>4, <1>6, <1>8
  <2>2. \A i \in 1..N : \A z \in content[i] \cap known \cap S : p[i] # None /\ p[i] >= z
    BY <1>3, <1>4, <1>6
  <2>3. over' = None /\ last' = <<"Prev">>
    <3>1. current' = FindLargest(p)
      BY <1>1 DEF Moves
    <3>2. current' # None => p[current'] \in Int /\ ~(p[current'] > over)
      <4> HAVE current' # None
      <4>1. current' \in 1..N /\ p[current'] # None
        BY <1>5, <3>1, LargestIs
      <4>2. p[current'] \in S
        BY <2>1, <4>1
      <4>3. p[current'] \in Int /\ p[current'] < over
        BY <1>2, <4>2
      <4> HIDE DEF S
      <4> QED
        BY <1>2, <4>3
    <3> QED
      BY <1>1, <3>2
  <2>4. Positions(p, "reverse")
    BY <1>1, <2>3 DEF Positions
  <2>5. S \in SUBSET All /\ \A x \in S, y \in All : y <= x => y \in S
    BY <1>2
  <2>6. /\ MergeInv' /\ All' = All /\ known' = known
        /\ (IF ~Valid THEN None ELSE IF over # None THEN over ELSE Key)' \in C!Highest(S, known)
    BY <1>1, <1>5, <2>1, <2>2, <2>4, <2>5, LandsBackward
  <2>7. (IF ~Valid THEN None ELSE IF over # None THEN over ELSE Key) = over
    BY <1>1
  <2> QED
    BY <1>2, <2>3, <2>6, <2>7 DEF C!Backward, C!Moves
<1> QED
  BY <1>7, <1>8

(* The turn of a Prev during which a key is written where it comes back to. *)
LEMMA GoesBeyond ==
  ASSUME MergeAssumption, MergeInv, NEW i \in Live, NEW x \in Keys, Overshoot(i, x)
  PROVE  MergeInv' /\ C!Arrive
<1> DEFINE p == [j \in 1..N |-> IF j = i THEN x ELSE IF j = current THEN ChildPrev(j)
                                ELSE BroughtBefore(j)]
<1>1. /\ MergeTypes /\ Valid /\ direction = "forward" /\ After /\ over = None /\ i # current
      /\ x \notin All /\ x > Key /\ ~ \E y \in content[i] : Key < y /\ y < x
      /\ content' = [content EXCEPT ![i] = @ \cup {x}]
      /\ over' = Key /\ Moves(p, "reverse") /\ last' = last
  BY DEF MergeInv, Sided, Overshoot
<1>2. /\ Keys \subseteq Int /\ None \notin Int /\ All \subseteq Keys /\ i \in 1..N
      /\ \A j \in 1..N : content[j] \subseteq Keys /\ content[j] \subseteq All
      /\ current \in 1..N /\ Key = pos[current] /\ Key \in Int /\ Key # None
      /\ Key \in content[current] /\ x \in Int
  BY <1>1, KeysAreIntegers DEF MergeAssumption, After
<1>3. /\ content' \in [1..N -> SUBSET Keys]
      /\ \A j \in 1..N : content'[j] = content[j] \cup (IF j = i THEN {x} ELSE {})
  BY <1>1, <1>2 DEF MergeTypes
<1>4. All' = All \cup {x}
  BY <1>2, <1>3 DEF All
<1>5. \A j, k \in 1..N : j # k => content'[j] \cap content'[k] = {}
  BY <1>1, <1>2, <1>3 DEF MergeTypes
<1>6. ASSUME NEW j \in 1..N, j # i
      PROVE  /\ p[j] \in Keys \cup {None}
             /\ p[j] # None => p[j] \in content[j] /\ p[j] < Key /\ p[j] \in Int
             /\ \A z \in content[j] \cap known : z < Key => p[j] # None /\ p[j] >= z
  <2>1. /\ p[j] = Highest({y \in content[j] : y < Key})
        /\ {y \in content[j] : y < Key} \in SUBSET Keys
    BY <1>1, <1>2, <1>6, BroughtBack DEF ChildPrev
  <2>2. \A z \in {y \in content[j] : y < Key} : z \in content[j] /\ z < Key /\ z \in Int
    BY <1>2
  <2>3. \A z \in content[j] \cap known : z < Key => z \in {y \in content[j] : y < Key}
    OBVIOUS
  <2> DEFINE T == {y \in content[j] : y < Key}
  <2> HIDE DEF p, T
  <2>4. /\ p[j] # None => p[j] \in T
        /\ \A z \in T : p[j] # None /\ z <= p[j] /\ p[j] \in Int /\ z \in Int
    BY <2>1, HighestIs DEF T
  <2> QED
    BY <1>2, <2>2, <2>3, <2>4 DEF T
<1>7. p \in [1..N -> Keys \cup {None}] /\ p[i] = x
  BY <1>1, <1>2, <1>6
<1> HIDE DEF p
<1>8. current' = FindLargest(p) /\ pos' = p /\ known' = known /\ direction' = "reverse"
  BY <1>1 DEF Moves
<1>9. current' = i
  <2>1. current' \in 1..N /\ p[current'] # None /\ p[current'] >= p[i]
    BY <1>2, <1>7, <1>8, LargestIs
  <2>2. ASSUME current' # i PROVE FALSE
    <3>1. p[current'] \in Int /\ p[current'] < Key
      BY <1>6, <2>1, <2>2
    <3> QED
      BY <1>1, <1>2, <1>7, <2>1, <3>1
  <2> QED
    BY <2>2
<1>10. Key' = x /\ Valid'
  BY <1>2, <1>7, <1>8, <1>9 DEF Key, Valid
<1>11. MergeTypes'
  BY <1>1, <1>2, <1>3, <1>4, <1>5, <1>7, <1>8, <1>9, <1>10 DEF MergeTypes
<1>12. Beyond'
  <2>1. Key' > over' /\ Key' \in content'[i] /\ over' \notin content'[i]
    BY <1>1, <1>2, <1>3, <1>10 DEF MergeTypes
  <2>2. \A j \in 1..N \ {i} : p[j] # None => p[j] \in content'[j] /\ p[j] < over'
    BY <1>1, <1>3, <1>6
  <2>3. \A j \in 1..N : \A z \in content'[j] \cap known :
          z < over' => p[j] # None /\ p[j] >= z
    <3> SUFFICES ASSUME NEW j \in 1..N, NEW z \in content'[j] \cap known, z < over'
                 PROVE  p[j] # None /\ p[j] >= z
      OBVIOUS
    <3>1. z # x /\ z \in content[j]
      BY <1>1, <1>3 DEF MergeTypes
    <3>2. CASE j = i
      <4>1. z \in Int /\ z < Key
        BY <1>1, <1>2, <3>1
      <4> QED
        BY <1>1, <1>2, <1>7, <3>2, <4>1
    <3>3. CASE j # i
      BY <1>1, <1>6, <3>1, <3>3
    <3> QED
      BY <3>2, <3>3
  <2> QED
    BY <1>8, <1>9, <2>1, <2>2, <2>3 DEF Beyond
<1>13. C!Arrive
  BY <1>1, <1>2, <1>4, <1>8, <1>10 DEF C!Arrive
<1> QED
  BY <1>1, <1>2, <1>8, <1>10, <1>11, <1>12, <1>13 DEF MergeInv, Sided

LEMMA Inserts ==
  ASSUME MergeAssumption, MergeInv, NEW i \in Live, NEW x \in Keys, Insert(i, x)
  PROVE  MergeInv' /\ C!Arrive
<1>1. /\ MergeTypes /\ x \notin All /\ content' = [content EXCEPT ![i] = @ \cup {x}]
      /\ UNCHANGED <<pos, current, direction, known, last, over>>
  BY DEF MergeInv, Insert
<1>2. /\ i \in 1..N /\ None \notin Int
      /\ \A j \in 1..N : content[j] \subseteq Keys /\ content[j] \subseteq All
      /\ Valid => current \in 1..N
  BY <1>1, KeysAreIntegers DEF MergeAssumption
<1>3. /\ content' \in [1..N -> SUBSET Keys]
      /\ \A j \in 1..N : content'[j] = content[j] \cup (IF j = i THEN {x} ELSE {})
  BY <1>1, <1>2 DEF MergeTypes
<1>4. All' = All \cup {x}
  BY <1>2, <1>3 DEF All
<1>5. \A j, k \in 1..N : j # k => content'[j] \cap content'[k] = {}
  BY <1>1, <1>2, <1>3 DEF MergeTypes
<1>6. Valid' = Valid /\ Key' = Key
  BY <1>1 DEF Valid, Key
<1>7. MergeTypes'
  BY <1>1, <1>3, <1>4, <1>5, <1>6 DEF MergeTypes
<1>8. \A j \in 1..N : content[j] \subseteq content'[j]
                     /\ content'[j] \cap known = content[j] \cap known
  BY <1>1, <1>3 DEF MergeTypes
<1>9. /\ After => After'
      /\ Before => Before'
  BY <1>1, <1>6, <1>8 DEF After, Before
<1>10. over # None /\ Valid /\ Beyond => Beyond'
  BY <1>1, <1>2, <1>3, <1>6, <1>8 DEF Beyond, MergeTypes
<1>11. Sided'
  BY <1>1, <1>6, <1>9, <1>10 DEF MergeInv, Sided
<1> QED
  BY <1>1, <1>4, <1>6, <1>7, <1>11 DEF MergeInv, C!Arrive

LEMMA MergeIdles ==
  ASSUME MergeInv, UNCHANGED vars
  PROVE  MergeInv' /\ UNCHANGED C!vars
<1>1. UNCHANGED <<All, Valid, Key>>
  BY DEF vars, All, Valid, Key
<1>2. MergeInv'
  BY <1>1 DEF vars, MergeInv, MergeTypes, Sided, After, Before, Beyond
<1>3. UNCHANGED C!vars
  BY <1>1 DEF vars, C!vars
<1> QED
  BY <1>2, <1>3

(* Every step, when none turns back beyond a key.                          *)
LEMMA MergeStep ==
  ASSUME MergeAssumption, MergeInv, Next, over # None => ~Forward
  PROVE  MergeInv' /\ [C!Next]_(C!vars)
<1>1. CASE SeekToFirst
  BY <1>1, SeeksToFirst DEF C!Next
<1>2. CASE SeekToLast
  BY <1>2, SeeksToLast DEF C!Next
<1>3. CASE Forward
  BY <1>3, GoesForward DEF C!Next
<1>4. CASE Backward
  BY <1>4, GoesBackward, ComesBack DEF C!Next
<1>5. ASSUME NEW t \in Keys, Seek(t)
      PROVE  MergeInv' /\ [C!Next]_(C!vars)
  BY <1>5, Seeks DEF C!Next
<1>6. ASSUME NEW i \in Live, NEW x \in Keys, Insert(i, x) \/ Overshoot(i, x)
      PROVE  MergeInv' /\ [C!Next]_(C!vars)
  BY <1>6, Inserts, GoesBeyond DEF C!Next
<1> QED
  BY <1>1, <1>2, <1>3, <1>4, <1>5, <1>6 DEF Next

LEMMA MergeStarts ==
  ASSUME MergeAssumption, Init
  PROVE  MergeInv /\ C!Init
<1>1. pos = [i \in 1..N |-> None] /\ current = None /\ over = None /\ known = All
  BY DEF Init
<1>2. MergeInv
  BY <1>1 DEF Init, MergeInv, MergeTypes, Sided, Valid
<1>3. C!Init
  BY <1>1 DEF Init, C!Init, Valid
<1> QED
  BY <1>2, <1>3

(* As long as none turns back there.                                       *)
SteadySpec == Init /\ [][Next /\ (over # None => ~Forward)]_vars

(* The merging iterator is a cursor over the keys of all its children:     *)
(* none is skipped or shown twice wherever its user turns.                 *)
THEOREM MergerImplementsCursor ==
  ASSUME MergeAssumption
  PROVE  SteadySpec => []TypeOK /\ ImplementsCursor
<1>1. Init => MergeInv /\ C!Init
  BY MergeStarts
<1>2. MergeInv /\ [Next /\ (over # None => ~Forward)]_vars
        => MergeInv' /\ [C!Next]_(C!vars)
  <2> SUFFICES ASSUME MergeInv, [Next /\ (over # None => ~Forward)]_vars
               PROVE  MergeInv' /\ [C!Next]_(C!vars)
    OBVIOUS
  <2>1. CASE UNCHANGED vars
    BY <2>1, MergeIdles
  <2>2. CASE Next /\ (over # None => ~Forward)
    BY <2>2, MergeStep
  <2> QED
    BY <2>1, <2>2
<1>3. MergeInv => TypeOK
  BY MergeTypesAre
<1> QED
  BY <1>1, <1>2, <1>3, PTL DEF SteadySpec, ImplementsCursor, C!Spec
=============================================================================
