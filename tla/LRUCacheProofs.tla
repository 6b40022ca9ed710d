--------------------------- MODULE LRUCacheProofs ---------------------------
(***************************************************************************)
(* Theorems about LRUCache, for any number of keys, clients and entries,   *)
(* any charges and any capacity: its reference counts are right, so that   *)
(* no table is deleted under a client and none is left open for ever; its  *)
(* lists, its table and its usage agree; and what an insertion evicts are  *)
(* the oldest idle entries, no more of them than it has to.                *)
(***************************************************************************)
EXTENDS LRUCache, FiniteSetTheorems, SequenceTheorems, TLAPS

NoneTwice(s) == \A i, j \in DOMAIN s : s[i] = s[j] => i = j

Types ==
  /\ table \in [Keys -> Handles \cup {None}]
  /\ key \in [Handles -> Keys \cup {None}]
  /\ refs \in [Handles -> Nat]
  /\ inCache \subseteq made /\ made \subseteq Handles /\ freed \subseteq made
  /\ holder \in [Clients -> Handles \cup {None}]
  /\ opening \in [Clients -> Keys \cup {None}]
  /\ \A c \in Clients : opening[c] = None \/ holder[c] = None

(* What keeps the idle list from naming an entry that has left the cache.  *)
IdleList ==
  /\ lru \in Seq(Handles)
  /\ NoneTwice(lru)
  /\ Elements(lru) \subseteq {h \in inCache : refs[h] = 1}

TableFinds ==
  \A k \in Keys : table[k] # None => table[k] \in inCache /\ key[table[k]] = k

(* The inductive invariant: the counts, what is deleted, and where the     *)
(* cache's own references can be found.                                    *)
Owned == Types /\ IdleList /\ TableFinds /\ RefsAreCounted /\ DeletedWhenUnused

-----------------------------------------------------------------------------

(* Unlinking an entry leaves the others, in their order.                   *)
LEMMA Unlink ==
  ASSUME NEW s \in Seq(Handles), NoneTwice(s), NEW e
  PROVE  /\ Without(s, e) \in Seq(Handles)
         /\ NoneTwice(Without(s, e))
         /\ Elements(Without(s, e)) = Elements(s) \ {e}
<1>1. CASE e \notin Elements(s)
  BY <1>1 DEF Without
<1>2. CASE e \in Elements(s)
  <2>1. PICK p \in DOMAIN s : s[p] = e /\ p = CHOOSE i \in DOMAIN s : s[i] = e
    BY <1>2 DEF Elements
  <2> DEFINE t == [i \in 1..Len(s) - 1 |-> s[IF i < p THEN i ELSE i + 1]]
  <2>2. Without(s, e) = t
    BY <1>2, <2>1 DEF Without
  <2>3. DOMAIN s = 1..Len(s) /\ Len(s) \in Nat /\ Len(s) > 0 /\ \A i \in 1..Len(s) : s[i] \in Handles
    BY <2>1
  <2>4. t \in Seq(Handles) /\ DOMAIN t = 1..Len(s) - 1
    <3>1. \A i \in 1..Len(s) - 1 : t[i] \in Handles
      BY <2>1, <2>3
    <3> QED
      BY <3>1, <2>3, IsASeq
  <2>5. NoneTwice(t)
    BY <2>1, <2>3, <2>4 DEF NoneTwice
  <2>6. ASSUME NEW x \in Elements(t) PROVE x \in Elements(s) \ {e}
    <3>1. PICK i \in 1..Len(s) - 1 : x = t[i]
      BY <2>4, <2>6 DEF Elements
    <3>2. CASE i < p
      <4>1. i \in DOMAIN s /\ i # p
        <5>1. i \in 1..Len(s) /\ p \in 1..Len(s)
          BY <2>3
        <5> QED
          BY <5>1, <3>2, <2>3
      <4>2. x = s[i]
        BY <3>1, <3>2
      <4> QED
        BY <4>1, <4>2, <2>1 DEF Elements, NoneTwice
    <3>3. CASE ~(i < p)
      <4>1. i + 1 \in DOMAIN s /\ i + 1 # p
        <5>1. i + 1 \in 1..Len(s) /\ p \in 1..Len(s)
          BY <2>3
        <5> QED
          BY <5>1, <3>3, <2>3
      <4>2. x = s[i + 1]
        BY <3>1, <3>3
      <4> QED
        BY <4>1, <4>2, <2>1 DEF Elements, NoneTwice
    <3> QED
      BY <3>2, <3>3
  <2>7. ASSUME NEW x \in Elements(s) \ {e} PROVE x \in Elements(t)
    <3>1. PICK i \in 1..Len(s) : x = s[i]
      BY <2>3, <2>7 DEF Elements
    <3>2. CASE i < p
      <4>1. i \in 1..Len(s) - 1 /\ t[i] = x
        BY <3>1, <3>2, <2>1, <2>3
      <4> QED
        BY <4>1, <2>4 DEF Elements
    <3>3. CASE i > p
      <4>1. i - 1 \in 1..Len(s) - 1 /\ t[i - 1] = x
        BY <3>1, <3>3, <2>1, <2>3
      <4> QED
        BY <4>1, <2>4 DEF Elements
    <3>4. i # p
      BY <3>1, <2>1
    <3> QED
      BY <3>2, <3>3, <3>4, <2>1, <2>3
  <2> QED
    BY <2>2, <2>4, <2>5, <2>6, <2>7
<1> QED
  BY <1>1, <1>2

(* Taking the oldest entries off leaves the others.                        *)
LEMMA TakeOff ==
  ASSUME NEW s \in Seq(Handles), NoneTwice(s), NEW m \in 0..Len(s),
         NEW t, t = Beyond(s, m)
  PROVE  /\ t \in Seq(Handles)
         /\ NoneTwice(t)
         /\ Elements(t) = Elements(s) \ {s[i] : i \in 1..m}
<1>1. Len(s) \in Nat /\ DOMAIN s = 1..Len(s)
  OBVIOUS
<1>2. /\ t \in Seq(Handles) /\ Len(t) = Len(s) - m
      /\ \A i \in 1..Len(s) - m : t[i] = s[m + i]
  <2>1. Len(s) - m \in Nat /\ \A i \in 1..Len(s) - m : s[m + i] \in Handles
    BY <1>1
  <2> QED
    BY <2>1 DEF Beyond
<1>3. DOMAIN t = 1..Len(s) - m
  BY <1>2
<1>4. NoneTwice(t)
  <2> SUFFICES ASSUME NEW i \in 1..Len(s) - m, NEW j \in 1..Len(s) - m, t[i] = t[j]
               PROVE  i = j
    BY <1>3 DEF NoneTwice
  <2>1. m + i \in DOMAIN s /\ m + j \in DOMAIN s /\ s[m + i] = s[m + j]
    BY <1>1, <1>2
  <2>2. m + i = m + j
    BY <2>1 DEF NoneTwice
  <2> QED
    BY <2>2, <1>1
<1>5. ASSUME NEW x \in Elements(t) PROVE x \in Elements(s) \ {s[i] : i \in 1..m}
  <2>1. PICK j \in 1..Len(s) - m : x = t[j]
    BY <1>3, <1>5 DEF Elements
  <2>2. m + j \in DOMAIN s /\ x = s[m + j]
    BY <1>1, <1>2, <2>1
  <2>3. ASSUME NEW i \in 1..m, x = s[i] PROVE FALSE
    <3>1. i \in DOMAIN s
      BY <1>1
    <3>2. i = m + j
      BY <3>1, <2>2, <2>3 DEF NoneTwice
    <3> QED
      BY <3>2, <1>1
  <2> QED
    BY <2>2, <2>3 DEF Elements
<1>6. ASSUME NEW x \in Elements(s), x \notin {s[i] : i \in 1..m} PROVE x \in Elements(t)
  <2>1. PICK j \in 1..Len(s) : x = s[j]
    BY <1>1 DEF Elements
  <2>2. j \notin 1..m
    BY <2>1, <1>6
  <2>3. j - m \in 1..Len(s) - m /\ m + (j - m) = j
    BY <2>2, <1>1
  <2>4. t[j - m] = s[m + (j - m)]
    BY <2>3, <1>2
  <2> QED
    BY <2>1, <2>3, <2>4, <1>3 DEF Elements
<1> QED
  BY <1>2, <1>4, <1>5, <1>6

LEMMA HoldersAreFinite ==
  ASSUME NEW h \in Handles
  PROVE  /\ IsFiniteSet(Holders(h)) /\ Cardinality(Holders(h)) \in Nat
         /\ Cardinality(Holders(h)) = 0 <=> Holders(h) = {}
<1>1. IsFiniteSet(Holders(h))
  BY FiniteAssumption, FS_Subset DEF Holders
<1> QED
  BY <1>1, FS_CardinalityType, FS_EmptySet

(* What the counts say of an entry.                                        *)
LEMMA CountsTell ==
  ASSUME Owned, NEW h \in Handles
  PROVE  /\ h \notin made => refs[h] = 0 /\ Holders(h) = {}
         /\ h \in inCache => refs[h] >= 1
         /\ h \in inCache /\ refs[h] = 1 => Holders(h) = {}
         /\ h \in inCache /\ refs[h] # 1 => Holders(h) # {}
<1>1. h \notin made => Holders(h) = {}
  BY NoneAssumption DEF Owned, DeletedWhenUnused, Holders
<1> QED
  BY <1>1, HoldersAreFinite DEF Owned, RefsAreCounted, Types

LEMMA InitOwned == Init => Owned
<1> SUFFICES ASSUME Init PROVE Owned
  OBVIOUS
<1>1. Types
  BY DEF Init, Types
<1>2. IdleList
  BY DEF Init, IdleList, NoneTwice, Elements
<1>3. TableFinds
  BY DEF Init, TableFinds
<1>4. \A h \in Handles : Holders(h) = {}
  BY NoneAssumption DEF Init, Holders
<1>5. RefsAreCounted
  BY <1>4, FS_EmptySet DEF Init, RefsAreCounted
<1>6. DeletedWhenUnused
  BY DEF Init, DeletedWhenUnused
<1> QED
  BY <1>1, <1>2, <1>3, <1>5, <1>6 DEF Owned

-----------------------------------------------------------------------------
(* How the holders of the entries change.                                  *)

LEMMA Takes ==
  ASSUME Types, NEW c \in Clients, holder[c] = None, NEW h \in Handles,
         holder' = [holder EXCEPT ![c] = h]
  PROVE  \A g \in Handles :
           /\ Holders(g)' = IF g = h THEN Holders(g) \cup {c} ELSE Holders(g)
           /\ Cardinality(Holders(g)') = Cardinality(Holders(g)) + (IF g = h THEN 1 ELSE 0)
<1> SUFFICES ASSUME NEW g \in Handles
             PROVE  /\ Holders(g)' = IF g = h THEN Holders(g) \cup {c} ELSE Holders(g)
                    /\ Cardinality(Holders(g)') = Cardinality(Holders(g)) + (IF g = h THEN 1 ELSE 0)
  OBVIOUS
<1>1. c \notin Holders(g)
  BY NoneAssumption DEF Holders
<1>2. Holders(g)' = IF g = h THEN Holders(g) \cup {c} ELSE Holders(g)
  BY NoneAssumption DEF Holders, Types
<1>3. CASE g = h
  BY <1>1, <1>2, <1>3, HoldersAreFinite, FS_AddElement
<1>4. CASE g # h
  BY <1>2, <1>4, HoldersAreFinite
<1> QED
  BY <1>2, <1>3, <1>4

LEMMA Gives ==
  ASSUME Types, NEW c \in Clients, holder[c] # None,
         holder' = [holder EXCEPT ![c] = None]
  PROVE  \A g \in Handles :
           /\ Holders(g)' = IF g = holder[c] THEN Holders(g) \ {c} ELSE Holders(g)
           /\ Cardinality(Holders(g)') = Cardinality(Holders(g)) - (IF g = holder[c] THEN 1 ELSE 0)
<1> SUFFICES ASSUME NEW g \in Handles
             PROVE  /\ Holders(g)' = IF g = holder[c] THEN Holders(g) \ {c} ELSE Holders(g)
                    /\ Cardinality(Holders(g)') = Cardinality(Holders(g)) - (IF g = holder[c] THEN 1 ELSE 0)
  OBVIOUS
<1>1. Holders(g)' = IF g = holder[c] THEN Holders(g) \ {c} ELSE Holders(g)
  BY NoneAssumption DEF Holders, Types
<1>2. CASE g = holder[c]
  <2>1. c \in Holders(g)
    BY <1>2 DEF Holders
  <2> QED
    BY <1>1, <1>2, <2>1, HoldersAreFinite, FS_RemoveElement
<1>3. CASE g # holder[c]
  BY <1>1, <1>3, HoldersAreFinite
<1> QED
  BY <1>1, <1>2, <1>3

LEMMA Stays ==
  ASSUME UNCHANGED holder
  PROVE  \A g \in Handles : Holders(g)' = Holders(g)
BY DEF Holders

-----------------------------------------------------------------------------
(* One lemma for each operation.                                           *)

LEMMA LookupOwned ==
  ASSUME Owned, NEW c \in Clients, NEW k \in Keys, Lookup(c, k)
  PROVE  Owned'
<1> DEFINE h == table[k]
<1>1. h \in inCache /\ h \in Handles /\ h \in made \ freed
  BY DEF Owned, TableFinds, Types, Lookup, DeletedWhenUnused
<1>2. \A g \in Handles :
        /\ Holders(g)' = IF g = h THEN Holders(g) \cup {c} ELSE Holders(g)
        /\ Cardinality(Holders(g)') = Cardinality(Holders(g)) + (IF g = h THEN 1 ELSE 0)
  BY <1>1, Takes DEF Lookup, Idle, Owned
<1>3. Types'
  BY <1>1 DEF Owned, Types, Lookup, Idle
<1>4. IdleList'
  <2>1. /\ lru' \in Seq(Handles) /\ NoneTwice(lru')
        /\ Elements(lru') = Elements(lru) \ {h}
    BY Unlink DEF Owned, IdleList, Lookup
  <2>2. \A g \in Handles \ {h} : refs'[g] = refs[g]
    BY DEF Owned, Types, Lookup
  <2> QED
    BY <2>1, <2>2 DEF Owned, Types, IdleList, Lookup
<1>5. TableFinds'
  BY DEF Owned, TableFinds, Lookup
<1>6. RefsAreCounted'
  <2> SUFFICES ASSUME NEW g \in Handles
               PROVE  refs'[g] = Cardinality(Holders(g)') + (IF g \in inCache' THEN 1 ELSE 0)
    BY DEF RefsAreCounted
  <2>1. refs'[g] = refs[g] + (IF g = h THEN 1 ELSE 0)
    BY DEF Owned, Types, Lookup
  <2>2. refs[g] = Cardinality(Holders(g)) + (IF g \in inCache THEN 1 ELSE 0) /\ inCache' = inCache
    BY DEF Owned, RefsAreCounted, Lookup
  <2> QED
    BY <2>1, <2>2, <1>2, HoldersAreFinite
<1>7. DeletedWhenUnused'
  BY <1>1, <1>2 DEF Owned, Types, DeletedWhenUnused, Lookup
<1> QED
  BY <1>3, <1>4, <1>5, <1>6, <1>7 DEF Owned

LEMMA OpeningOwned ==
  ASSUME Owned, NEW c \in Clients, NEW k \in Keys, Miss(c, k) \/ OpenFails(c)
  PROVE  Owned'
<1>1. /\ UNCHANGED <<table, key, refs, inCache, lru, made, freed, holder>>
      /\ opening' \in [Clients -> Keys \cup {None}]
      /\ \A d \in Clients : opening'[d] = None \/ holder[d] = None
  BY DEF Idle, Miss, OpenFails, entries, cache, Owned, Types
<1>2. Types' /\ IdleList' /\ TableFinds'
  BY <1>1 DEF Owned, Types, IdleList, TableFinds
<1>3. RefsAreCounted' /\ DeletedWhenUnused'
  BY <1>1, Stays DEF Owned, Types, RefsAreCounted, DeletedWhenUnused
<1> QED
  BY <1>2, <1>3 DEF Owned

LEMMA ReleaseOwned ==
  ASSUME Owned, NEW c \in Clients, Release(c)
  PROVE  Owned'
<1>0. PICK h \in Handles : h = holder[c]
  BY DEF Owned, Types, Release
<1>1. h \in Handles /\ h \in made \ freed /\ c \in Holders(h) /\ h = holder[c] /\ h # None
  BY <1>0 DEF Owned, Types, Release, DeletedWhenUnused, Holders
<1>2. \A g \in Handles :
        /\ Holders(g)' = IF g = h THEN Holders(g) \ {c} ELSE Holders(g)
        /\ Cardinality(Holders(g)') = Cardinality(Holders(g)) - (IF g = h THEN 1 ELSE 0)
  BY <1>1, Gives DEF Release, Owned
<1>3. /\ refs[h] >= 1 /\ (h \in inCache => refs[h] >= 2)
      /\ refs[h] = Cardinality(Holders(h)) + (IF h \in inCache THEN 1 ELSE 0)
      /\ Cardinality(Holders(h)) \in Nat
  BY <1>1, HoldersAreFinite DEF Owned, RefsAreCounted
<1>4. Types'
  <2>1. refs' \in [Handles -> Nat]
    BY <1>1, <1>3 DEF Owned, Types, Release
  <2>2. freed' \subseteq made
    BY <1>1 DEF Owned, Types, Release, Deallocated
  <2> QED
    BY <2>1, <2>2 DEF Owned, Types, Release
<1>5. IdleList'
  <2>1. h \notin Elements(lru)
    BY <1>3 DEF Owned, IdleList
  <2>2. \A g \in Handles \ {h} : refs'[g] = refs[g]
    BY <1>1 DEF Owned, Types, Release
  <2>3. CASE h \in inCache /\ refs[h] = 2
    <3>1. /\ lru' = Append(lru, h) /\ lru \in Seq(Handles) /\ refs'[h] = 1 /\ inCache' = inCache
      BY <1>1, <2>3 DEF Owned, Types, IdleList, Release
    <3>2. /\ lru' \in Seq(Handles) /\ DOMAIN lru' = 1..Len(lru) + 1 /\ DOMAIN lru = 1..Len(lru)
          /\ Len(lru) \in Nat /\ lru'[Len(lru) + 1] = h
          /\ \A i \in 1..Len(lru) : lru'[i] = lru[i]
      BY <1>1, <3>1
    <3>3. Elements(lru') = Elements(lru) \cup {h}
      BY <3>2 DEF Elements
    <3>4. NoneTwice(lru')
      BY <2>1, <3>2 DEF NoneTwice, Elements, Owned, IdleList
    <3> QED
      BY <1>1, <2>1, <2>2, <2>3, <3>1, <3>2, <3>3, <3>4 DEF Owned, Types, IdleList
  <2>4. CASE ~(h \in inCache /\ refs[h] = 2)
    <3>1. lru' = lru /\ inCache' = inCache
      BY <1>1, <2>4 DEF Release
    <3> QED
      BY <2>1, <2>2, <3>1 DEF Owned, Types, IdleList
  <2> QED
    BY <2>3, <2>4
<1>6. TableFinds'
  BY DEF Owned, TableFinds, Release
<1>7. RefsAreCounted'
  <2> SUFFICES ASSUME NEW g \in Handles
               PROVE  refs'[g] = Cardinality(Holders(g)') + (IF g \in inCache' THEN 1 ELSE 0)
    BY DEF RefsAreCounted
  <2>1. refs'[g] = refs[g] - (IF g = h THEN 1 ELSE 0)
    BY <1>1 DEF Owned, Types, Release
  <2>2. refs[g] = Cardinality(Holders(g)) + (IF g \in inCache THEN 1 ELSE 0) /\ inCache' = inCache
    BY DEF Owned, RefsAreCounted, Release
  <2> QED
    BY <2>1, <2>2, <1>2, HoldersAreFinite
<1>8. DeletedWhenUnused'
  <2>1. CASE refs[h] = 1
    <3>1. h \notin inCache /\ Cardinality(Holders(h)) = 1
      BY <1>3, <2>1
    <3>2. Holders(h)' = Holders(h) \ {c} /\ Cardinality(Holders(h)') = 0
      <4>1. /\ Holders(h)' = Holders(h) \ {c}
            /\ Cardinality(Holders(h)') = Cardinality(Holders(h)) - 1
        BY <1>1, <1>2
      <4> QED
        BY <4>1, <3>1
    <3>3. Holders(h)' = {}
      <4>1. IsFiniteSet(Holders(h))
        BY <1>1, HoldersAreFinite
      <4>2. IsFiniteSet(Holders(h) \ {c})
        BY <4>1, FS_Subset
      <4> QED
        BY <3>2, <4>2, FS_EmptySet
    <3>4. freed' = freed \cup {h}
      BY <1>1, <2>1 DEF Release, Deallocated
    <3>5. \A d \in Clients : holder'[d] # h
      BY <3>3 DEF Holders
    <3>6. \A d \in Clients : holder'[d] # None => holder'[d] = holder[d]
      BY NoneAssumption DEF Owned, Types, Release
    <3>7. \A g \in Handles \ {h} : Holders(g)' = Holders(g)
      BY <1>2
    <3> QED
      BY <3>1, <3>4, <3>5, <3>6, <3>7 DEF Owned, Types, DeletedWhenUnused, Release
  <2>2. CASE refs[h] # 1
    <3>1. freed' = freed
      BY <1>1, <2>2 DEF Release, Deallocated
    <3>2. h \in inCache \/ Cardinality(Holders(h)') # 0
      <4>1. Cardinality(Holders(h)') = Cardinality(Holders(h)) - 1
        BY <1>1, <1>2
      <4>2. h \notin inCache => Cardinality(Holders(h)) = refs[h] /\ refs[h] # 1
        BY <1>3, <2>2
      <4>3. Cardinality(Holders(h)) # 1 => Cardinality(Holders(h)) - 1 # 0
        BY <1>3
      <4> QED
        BY <4>1, <4>2, <4>3
    <3>3. h \in inCache \/ Holders(h)' # {}
      BY <3>2, FS_EmptySet
    <3>4. \A d \in Clients : holder'[d] # None => holder'[d] = holder[d]
      BY NoneAssumption DEF Owned, Types, Release
    <3>5. \A g \in Handles \ {h} : Holders(g)' = Holders(g)
      BY <1>2
    <3>6. made' = made /\ inCache' = inCache /\ h \in Handles
      BY <1>1 DEF Release
    <3>7. \A d \in Clients : holder'[d] # None => holder'[d] \in made' \ freed'
      BY <3>1, <3>4, <3>6 DEF Owned, DeletedWhenUnused
    <3>8. inCache' \cap freed' = {}
      BY <3>1, <3>6 DEF Owned, DeletedWhenUnused
    <3>9. \A g \in made' \ freed' : g \in inCache' \/ Holders(g)' # {}
      BY <3>1, <3>3, <3>5, <3>6 DEF Owned, Types, DeletedWhenUnused
    <3> QED
      BY <3>7, <3>8, <3>9 DEF DeletedWhenUnused
  <2> QED
    BY <2>1, <2>2
<1> QED
  BY <1>4, <1>5, <1>6, <1>7, <1>8 DEF Owned

(* Entries that leave the cache: those that nobody else holds are deleted. *)
LEMMA Leaving ==
  ASSUME Owned, NEW G \in SUBSET inCache
  PROVE  /\ G \subseteq Handles /\ \A g \in G : refs[g] >= 1
         /\ Deallocated(G) = {g \in G : Holders(g) = {}}
         /\ \A d \in Clients : holder[d] \notin Deallocated(G)
         /\ freed \cup Deallocated(G) \subseteq made
<1>1. inCache \subseteq Handles /\ inCache \subseteq made /\ freed \subseteq made
  BY DEF Owned, Types
<1>2. \A g \in G : refs[g] >= 1 /\ (refs[g] = 1 <=> Holders(g) = {})
  BY <1>1, CountsTell
<1>3. Deallocated(G) = {g \in G : Holders(g) = {}}
  BY <1>2 DEF Deallocated
<1>4. \A d \in Clients : holder[d] \notin Deallocated(G)
  BY <1>3 DEF Holders
<1> QED
  BY <1>1, <1>2, <1>3, <1>4

LEMMA EraseOwned ==
  ASSUME Owned, NEW k \in Keys, Erase(k)
  PROVE  Owned'
<1> DEFINE h == table[k]
<1>1. h \in inCache /\ h \in Handles
  BY DEF Owned, TableFinds, Types, Erase
<1>2. /\ refs[h] >= 1
      /\ Deallocated({h}) = {g \in {h} : Holders(g) = {}}
      /\ \A d \in Clients : holder[d] \notin Deallocated({h})
      /\ freed \cup Deallocated({h}) \subseteq made
  <2>1. {h} \in SUBSET inCache
    BY <1>1
  <2> QED
    BY <2>1, Leaving
<1>3. /\ refs' = [refs EXCEPT ![h] = @ - 1] /\ freed' = freed \cup Deallocated({h})
      /\ inCache' = inCache \ {h} /\ lru' = Without(lru, h)
      /\ UNCHANGED <<key, made, holder, opening>>
      /\ table' = [table EXCEPT ![k] = None]
  BY DEF Erase
<1>4. Types'
  <2>1. refs' \in [Handles -> Nat]
    BY <1>1, <1>2, <1>3 DEF Owned, Types
  <2> QED
    BY <2>1, <1>2, <1>3 DEF Owned, Types
<1>5. IdleList'
  <2>1. /\ lru' \in Seq(Handles) /\ NoneTwice(lru')
        /\ Elements(lru') = Elements(lru) \ {h}
    BY <1>3, Unlink DEF Owned, IdleList
  <2>2. \A g \in Handles \ {h} : refs'[g] = refs[g]
    BY <1>3 DEF Owned, Types
  <2> QED
    BY <1>3, <2>1, <2>2 DEF Owned, Types, IdleList
<1>6. TableFinds'
  BY <1>3 DEF Owned, Types, TableFinds
<1>7. RefsAreCounted'
  <2> SUFFICES ASSUME NEW g \in Handles
               PROVE  refs'[g] = Cardinality(Holders(g)') + (IF g \in inCache' THEN 1 ELSE 0)
    BY DEF RefsAreCounted
  <2>1. refs'[g] = refs[g] - (IF g = h THEN 1 ELSE 0)
    BY <1>3 DEF Owned, Types
  <2>2. refs[g] = Cardinality(Holders(g)) + (IF g \in inCache THEN 1 ELSE 0)
    BY DEF Owned, RefsAreCounted
  <2>3. Holders(g)' = Holders(g)
    BY <1>3, Stays
  <2>4. g \in inCache' <=> g \in inCache /\ g # h
    BY <1>3
  <2> QED
    BY <2>1, <2>2, <2>3, <2>4, <1>1, HoldersAreFinite
<1>8. DeletedWhenUnused'
  <2>1. \A g \in Handles : Holders(g)' = Holders(g)
    BY <1>3, Stays
  <2>2. \A d \in Clients : holder'[d] # None => holder'[d] \in made' \ freed'
    BY <1>2, <1>3 DEF Owned, DeletedWhenUnused
  <2>3. inCache' \cap freed' = {}
    BY <1>3 DEF Owned, DeletedWhenUnused, Deallocated
  <2>4. \A g \in made' \ freed' : g \in inCache' \/ Holders(g)' # {}
    BY <1>2, <1>3, <2>1 DEF Owned, Types, DeletedWhenUnused
  <2> QED
    BY <2>2, <2>3, <2>4 DEF DeletedWhenUnused
<1> QED
  BY <1>4, <1>5, <1>6, <1>7, <1>8 DEF Owned

LEMMA PruneOwned ==
  ASSUME Owned, Prune
  PROVE  Owned'
<1> DEFINE gone == Elements(lru)
<1>1. gone \in SUBSET inCache
  BY DEF Owned, IdleList
<1>2. /\ gone \subseteq Handles /\ \A g \in gone : refs[g] >= 1
      /\ Deallocated(gone) = {g \in gone : Holders(g) = {}}
      /\ \A d \in Clients : holder[d] \notin Deallocated(gone)
      /\ freed \cup Deallocated(gone) \subseteq made
  BY <1>1, Leaving
<1>3. /\ refs' = [h \in Handles |-> IF h \in gone THEN refs[h] - 1 ELSE refs[h]]
      /\ freed' = freed \cup Deallocated(gone)
      /\ inCache' = inCache \ gone /\ lru' = <<>>
      /\ table' = [k \in Keys |-> IF table[k] \in gone THEN None ELSE table[k]]
      /\ UNCHANGED <<key, made, holder, opening>>
  BY DEF Prune
<1> HIDE DEF gone
<1>4. Types'
  <2>1. refs' \in [Handles -> Nat]
    BY <1>2, <1>3 DEF Owned, Types
  <2> QED
    BY <2>1, <1>2, <1>3 DEF Owned, Types
<1>5. IdleList'
  BY <1>3 DEF IdleList, NoneTwice, Elements
<1>6. TableFinds'
  BY <1>3 DEF Owned, Types, TableFinds
<1>7. RefsAreCounted'
  <2> SUFFICES ASSUME NEW g \in Handles
               PROVE  refs'[g] = Cardinality(Holders(g)') + (IF g \in inCache' THEN 1 ELSE 0)
    BY DEF RefsAreCounted
  <2>1. refs'[g] = refs[g] - (IF g \in gone THEN 1 ELSE 0)
    BY <1>3 DEF Owned, Types
  <2>2. refs[g] = Cardinality(Holders(g)) + (IF g \in inCache THEN 1 ELSE 0)
    BY DEF Owned, RefsAreCounted
  <2>3. Holders(g)' = Holders(g)
    BY <1>3, Stays
  <2>4. g \in inCache' <=> g \in inCache /\ g \notin gone
    BY <1>3
  <2> QED
    BY <2>1, <2>2, <2>3, <2>4, <1>1, HoldersAreFinite
<1>8. DeletedWhenUnused'
  <2>1. \A g \in Handles : Holders(g)' = Holders(g)
    BY <1>3, Stays
  <2>2. \A d \in Clients : holder'[d] # None => holder'[d] \in made' \ freed'
    BY <1>2, <1>3 DEF Owned, DeletedWhenUnused
  <2>3. inCache' \cap freed' = {}
    BY <1>3 DEF Owned, DeletedWhenUnused, Deallocated
  <2>4. \A g \in made' \ freed' : g \in inCache' \/ Holders(g)' # {}
    BY <1>2, <1>3, <2>1 DEF Owned, Types, DeletedWhenUnused
  <2> QED
    BY <2>2, <2>3, <2>4 DEF DeletedWhenUnused
<1> QED
  BY <1>4, <1>5, <1>6, <1>7, <1>8 DEF Owned

(* An entry that the cache does not keep belongs to its client alone.      *)
LEMMA InsertUncachedOwned ==
  ASSUME Owned, NEW c \in Clients, NEW h \in Handles, NEW n \in Charges, InsertUncached(c, h, n)
  PROVE  Owned'
<1>1. /\ h \notin made /\ made' = made \cup {h} /\ refs' = [refs EXCEPT ![h] = 1]
      /\ key' = [key EXCEPT ![h] = opening[c]] /\ opening[c] \in Keys
      /\ holder' = [holder EXCEPT ![c] = h] /\ opening' = [opening EXCEPT ![c] = None]
      /\ UNCHANGED <<freed, table, inCache, lru>>
  BY DEF InsertUncached, cache, Owned, Types
<1>2. holder[c] = None /\ h \notin inCache /\ h \notin freed /\ h # None
  BY <1>1, NoneAssumption DEF Owned, Types
<1>3. \A g \in Handles :
        /\ Holders(g)' = IF g = h THEN Holders(g) \cup {c} ELSE Holders(g)
        /\ Cardinality(Holders(g)') = Cardinality(Holders(g)) + (IF g = h THEN 1 ELSE 0)
  BY <1>1, <1>2, Takes DEF Owned
<1>4. Types'
  BY <1>1 DEF Owned, Types
<1>5. \A g \in Handles \ {h} : refs'[g] = refs[g] /\ key'[g] = key[g]
  BY <1>1 DEF Owned, Types
<1>6. IdleList'
  BY <1>1, <1>2, <1>5 DEF Owned, Types, IdleList
<1>7. TableFinds'
  BY <1>1, <1>2, <1>5 DEF Owned, Types, TableFinds
<1>8. RefsAreCounted'
  <2> SUFFICES ASSUME NEW g \in Handles
               PROVE  refs'[g] = Cardinality(Holders(g)') + (IF g \in inCache' THEN 1 ELSE 0)
    BY DEF RefsAreCounted
  <2>1. refs[g] = Cardinality(Holders(g)) + (IF g \in inCache THEN 1 ELSE 0)
    BY DEF Owned, RefsAreCounted
  <2>2. refs'[g] = IF g = h THEN 1 ELSE refs[g]
    BY <1>1 DEF Owned, Types
  <2>3. refs[h] = 0 /\ inCache' = inCache
    BY <1>1, CountsTell
  <2> QED
    BY <2>1, <2>2, <2>3, <1>2, <1>3, HoldersAreFinite
<1>9. DeletedWhenUnused'
  <2>1. \A d \in Clients : holder'[d] # None => holder'[d] \in made' \ freed'
    BY <1>1, <1>2 DEF Owned, Types, DeletedWhenUnused
  <2>2. inCache' \cap freed' = {}
    BY <1>1 DEF Owned, DeletedWhenUnused
  <2>3. \A g \in made' \ freed' : g \in inCache' \/ Holders(g)' # {}
    BY <1>1, <1>3 DEF Owned, Types, DeletedWhenUnused
  <2> QED
    BY <2>1, <2>2, <2>3 DEF DeletedWhenUnused
<1> QED
  BY <1>4, <1>6, <1>7, <1>8, <1>9 DEF Owned

(* The new entry has two references; the one it replaces and the evicted   *)
(* ones lose the cache's.                                                  *)
LEMMA InsertOwned ==
  ASSUME Owned, NEW c \in Clients, NEW h \in Handles, NEW n \in Charges, Insert(c, h, n)
  PROVE  Owned'
<1> DEFINE k == opening[c]
<1>1. k \in Keys
  BY DEF Insert, Owned, Types
<1> DEFINE replaced == {table[k]} \ {None}
           rest == Without(lru, table[k])
<1>2. PICK m \in 0..Len(rest) :
        LET evicted == {rest[i] : i \in 1..m}
            gone == replaced \cup evicted
        IN /\ refs' = [g \in Handles |-> IF g = h THEN 2 ELSE IF g \in gone THEN refs[g] - 1 ELSE refs[g]]
           /\ freed' = freed \cup Deallocated(gone)
           /\ inCache' = (inCache \ gone) \cup {h}
           /\ lru' = Beyond(rest, m)
           /\ table' = [j \in Keys |-> IF j = k THEN h ELSE IF table[j] \in evicted THEN None ELSE table[j]]
  BY Zenon DEF Insert
<1> DEFINE evicted == {rest[i] : i \in 1..m}
           gone == replaced \cup evicted
<1>3. /\ h \notin made /\ made' = made \cup {h} /\ key' = [key EXCEPT ![h] = k]
      /\ holder' = [holder EXCEPT ![c] = h] /\ opening' = [opening EXCEPT ![c] = None]
      /\ opening[c] # None
  BY <1>1 DEF Insert
<1>4. holder[c] = None /\ h \notin inCache /\ h \notin freed /\ h # None
  BY <1>3, NoneAssumption DEF Owned, Types
<1>5. \A g \in Handles :
        /\ Holders(g)' = IF g = h THEN Holders(g) \cup {c} ELSE Holders(g)
        /\ Cardinality(Holders(g)') = Cardinality(Holders(g)) + (IF g = h THEN 1 ELSE 0)
  BY <1>3, <1>4, Takes DEF Owned
<1>6. /\ rest \in Seq(Handles) /\ NoneTwice(rest)
      /\ Elements(rest) = Elements(lru) \ {table[k]}
  BY Unlink DEF Owned, IdleList
<1>7. /\ lru' \in Seq(Handles) /\ NoneTwice(lru')
      /\ Elements(lru') = Elements(rest) \ evicted
  <2>1. lru' = Beyond(rest, m)
    BY <1>2
  <2> HIDE DEF rest
  <2> QED
    BY <1>6, <2>1, TakeOff
<1>8. gone \in SUBSET inCache
  <2>1. replaced \subseteq inCache
    BY <1>1 DEF Owned, TableFinds
  <2>2. evicted \subseteq Elements(rest)
    <3> HIDE DEF rest
    <3>1. DOMAIN rest = 1..Len(rest) /\ Len(rest) \in Nat
      BY <1>6
    <3> QED
      BY <3>1 DEF Elements
  <2> QED
    BY <2>1, <2>2, <1>6 DEF Owned, IdleList
<1>9. /\ refs' = [g \in Handles |-> IF g = h THEN 2 ELSE IF g \in gone THEN refs[g] - 1 ELSE refs[g]]
      /\ freed' = freed \cup Deallocated(gone)
      /\ inCache' = (inCache \ gone) \cup {h}
      /\ table' = [j \in Keys |-> IF j = k THEN h ELSE IF table[j] \in evicted THEN None ELSE table[j]]
  BY <1>2
<1>10. /\ gone \subseteq Handles /\ \A g \in gone : refs[g] >= 1
       /\ Deallocated(gone) = {g \in gone : Holders(g) = {}}
       /\ \A d \in Clients : holder[d] \notin Deallocated(gone)
       /\ freed \cup Deallocated(gone) \subseteq made
  BY <1>8, Leaving
<1>11. h \notin gone /\ evicted \subseteq gone /\ (table[k] # None => table[k] \in gone)
  BY <1>4, <1>8
<1>12. Elements(lru') \cap gone = {} /\ Elements(lru') \subseteq Elements(lru)
  <2>1. table[k] \notin Elements(lru') /\ Elements(lru') \cap evicted = {}
    BY <1>6, <1>7
  <2> QED
    BY <2>1, <1>6, <1>7
<1> HIDE DEF k, rest, replaced, evicted, gone
<1>13. Types'
  <2>1. refs' \in [Handles -> Nat]
    BY <1>9, <1>10 DEF Owned, Types
  <2>2. table' \in [Keys -> Handles \cup {None}]
    BY <1>9 DEF Owned, Types
  <2>3. inCache' \subseteq made' /\ made' \subseteq Handles /\ freed' \subseteq made'
    BY <1>3, <1>9, <1>10 DEF Owned, Types
  <2> QED
    BY <1>1, <1>3, <2>1, <2>2, <2>3 DEF Owned, Types
<1>14. IdleList'
  <2>1. \A g \in Elements(lru') : g # h /\ g \in inCache' /\ refs'[g] = 1
    BY <1>4, <1>9, <1>12 DEF Owned, Types, IdleList
  <2> QED
    BY <1>7, <2>1 DEF IdleList
<1>15. TableFinds'
  <2> SUFFICES ASSUME NEW j \in Keys, table'[j] # None
               PROVE  table'[j] \in inCache' /\ key'[table'[j]] = j
    BY DEF TableFinds
  <2>1. CASE j = k
    BY <1>3, <1>9, <2>1 DEF Owned, Types
  <2>2. CASE j # k
    <3>1. table'[j] = table[j] /\ table[j] \notin evicted
      BY <1>9, <2>2
    <3>2. table[j] \in inCache /\ key[table[j]] = j /\ table[j] # h
      BY <1>4, <3>1 DEF Owned, TableFinds
    <3>3. table[j] \notin replaced
      BY <1>1, <2>2, <3>2 DEF Owned, TableFinds, replaced
    <3>4. table[j] \in inCache'
      BY <1>9, <3>1, <3>2, <3>3 DEF gone
    <3> QED
      BY <1>3, <3>1, <3>2, <3>4 DEF Owned, Types
  <2> QED
    BY <2>1, <2>2
<1>16. RefsAreCounted'
  <2> SUFFICES ASSUME NEW g \in Handles
               PROVE  refs'[g] = Cardinality(Holders(g)') + (IF g \in inCache' THEN 1 ELSE 0)
    BY DEF RefsAreCounted
  <2>1. refs[g] = Cardinality(Holders(g)) + (IF g \in inCache THEN 1 ELSE 0)
    BY DEF Owned, RefsAreCounted
  <2>2. Cardinality(Holders(g)') = Cardinality(Holders(g)) + (IF g = h THEN 1 ELSE 0)
    BY <1>5
  <2>3. CASE g = h
    <3>1. refs'[h] = 2 /\ h \in inCache' /\ refs[h] = 0
      BY <1>3, <1>9, CountsTell
    <3> QED
      BY <2>1, <2>2, <2>3, <3>1, <1>4, HoldersAreFinite
  <2>4. CASE g \in gone
    <3>1. g # h /\ refs'[g] = refs[g] - 1 /\ g \in inCache /\ g \notin inCache'
      BY <1>8, <1>9, <1>11, <2>4
    <3> QED
      BY <2>1, <2>2, <3>1, HoldersAreFinite
  <2>5. CASE g # h /\ g \notin gone
    <3>1. refs'[g] = refs[g] /\ (g \in inCache <=> g \in inCache')
      BY <1>9, <2>5
    <3> QED
      BY <2>1, <2>2, <2>5, <3>1, HoldersAreFinite
  <2> QED
    BY <2>3, <2>4, <2>5
<1>17. DeletedWhenUnused'
  <2>1. h \notin freed'
    BY <1>3, <1>9, <1>10
  <2>2. \A d \in Clients : holder'[d] # None => holder'[d] \in made' \ freed'
    <3> SUFFICES ASSUME NEW d \in Clients, holder'[d] # None
                 PROVE  holder'[d] \in made' \ freed'
      OBVIOUS
    <3>1. CASE d = c
      BY <1>3, <2>1, <3>1 DEF Owned, Types
    <3>2. CASE d # c
      <4>1. holder'[d] = holder[d] /\ holder[d] \in made \ freed
        BY <1>3, <3>2 DEF Owned, Types, DeletedWhenUnused
      <4> QED
        BY <1>3, <1>9, <1>10, <4>1
    <3> QED
      BY <3>1, <3>2
  <2>3. inCache' \cap freed' = {}
    <3>1. inCache \cap freed = {} /\ Deallocated(gone) \subseteq gone
      BY <1>10 DEF Owned, DeletedWhenUnused
    <3> QED
      BY <3>1, <2>1, <1>9
  <2>4. \A g \in made' \ freed' : g \in inCache' \/ Holders(g)' # {}
    <3> SUFFICES ASSUME NEW g \in made' \ freed', g \notin inCache'
                 PROVE  Holders(g)' # {}
      OBVIOUS
    <3>1. g # h /\ g \in Handles /\ g \in made \ freed /\ g \notin Deallocated(gone)
      BY <1>3, <1>9 DEF Owned, Types
    <3>2. Holders(g)' = Holders(g)
      BY <1>5, <3>1
    <3>3. CASE g \in gone
      BY <1>10, <3>1, <3>2, <3>3
    <3>4. CASE g \notin gone
      <4>1. g \notin inCache
        BY <1>9, <3>4
      <4> QED
        BY <3>1, <3>2, <4>1 DEF Owned, DeletedWhenUnused
    <3> QED
      BY <3>3, <3>4
  <2> QED
    BY <2>2, <2>3, <2>4 DEF DeletedWhenUnused
<1> QED
  BY <1>13, <1>14, <1>15, <1>16, <1>17 DEF Owned

-----------------------------------------------------------------------------

(* Every reachable state satisfies the inductive invariant.                *)
THEOREM AlwaysOwned == Spec => []Owned
<1>1. Owned /\ [Next]_vars => Owned'
  <2> SUFFICES ASSUME Owned, [Next]_vars PROVE Owned'
    OBVIOUS
  <2>1. ASSUME NEW c \in Clients, NEW k \in Keys, Lookup(c, k) PROVE Owned'
    BY <2>1, LookupOwned
  <2>2. ASSUME NEW c \in Clients, NEW k \in Keys, Miss(c, k) PROVE Owned'
    BY <2>2, OpeningOwned
  <2>3. ASSUME NEW c \in Clients, OpenFails(c) PROVE Owned'
    <3>1. \E k \in Keys : k = opening[c]
      BY <2>3 DEF OpenFails, Owned, Types
    <3> QED
      BY <2>3, <3>1, OpeningOwned
  <2>4. ASSUME NEW c \in Clients, Release(c) PROVE Owned'
    BY <2>4, ReleaseOwned
  <2>5. ASSUME NEW c \in Clients, NEW h \in Handles, NEW n \in Charges,
               Insert(c, h, n) \/ InsertUncached(c, h, n)
        PROVE  Owned'
    BY <2>5, InsertOwned, InsertUncachedOwned
  <2>6. ASSUME NEW k \in Keys, Erase(k) PROVE Owned'
    BY <2>6, EraseOwned
  <2>7. CASE Prune
    BY <2>7, PruneOwned
  <2>8. CASE UNCHANGED vars
    <3>1. UNCHANGED <<table, key, refs, inCache, lru, made, freed, holder, opening>>
      BY <2>8 DEF vars, entries, cache
    <3>2. Types' /\ IdleList' /\ TableFinds'
      BY <3>1 DEF Owned, Types, IdleList, TableFinds
    <3>3. RefsAreCounted' /\ DeletedWhenUnused'
      BY <3>1, Stays DEF Owned, Types, RefsAreCounted, DeletedWhenUnused
    <3> QED
      BY <3>2, <3>3 DEF Owned
  <2> QED
    BY <2>1, <2>2, <2>3, <2>4, <2>5, <2>6, <2>7, <2>8 DEF Next
<1> QED
  BY InitOwned, <1>1, PTL DEF Spec

(* The references of a table are those of the clients that use it and the  *)
(* cache's own: Ref and Unref (util/cache.cc) lose and invent none.        *)
THEOREM ReferencesCounted == Spec => []RefsAreCounted
<1>1. Owned => RefsAreCounted
  BY DEF Owned
<1> QED
  BY AlwaysOwned, <1>1, PTL

(* No table is deleted while a client uses it or a key finds it, and none  *)
(* that nobody refers to is left open, whatever is erased or evicted.      *)
THEOREM NeverDeletedInUse == Spec => []DeletedWhenUnused
<1>1. Owned => DeletedWhenUnused
  BY DEF Owned
<1> QED
  BY AlwaysOwned, <1>1, PTL

-----------------------------------------------------------------------------
(* The usage and the lists.                                                *)

(* ChargeOf counts these: each entry of H as often as f says.              *)
Units(f, H) == UNION {{h} \X (1..f[h]) : h \in H}

LEMMA FinitelyManyUnits ==
  ASSUME NEW f, NEW H, IsFiniteSet(H), \A h \in H : f[h] \in Nat
  PROVE  IsFiniteSet(Units(f, H)) /\ Cardinality(Units(f, H)) \in Nat
<1> DEFINE part == [h \in H |-> {h} \X (1..f[h])]
           parts == {{h} \X (1..f[h]) : h \in H}
<1>1. part \in Surjection(H, parts)
  BY DEF Surjection
<1>2. IsFiniteSet(parts)
  BY <1>1, FS_Surjection
<1>3. \A P \in parts : IsFiniteSet(P)
  <2> SUFFICES ASSUME NEW h \in H PROVE IsFiniteSet({h} \X (1..f[h]))
    OBVIOUS
  <2>1. f[h] \in Int /\ 1 \in Int
    OBVIOUS
  <2>2. IsFiniteSet(1..f[h])
    BY <2>1, FS_Interval
  <2>3. IsFiniteSet({h})
    BY FS_Singleton
  <2> QED
    BY <2>2, <2>3, FS_Product
<1>4. IsFiniteSet(UNION parts)
  BY <1>2, <1>3, FS_UNION
<1> QED
  BY <1>4, FS_CardinalityType DEF Units

LEMMA UnitsOfOne ==
  ASSUME NEW f, NEW h, f[h] \in Nat
  PROVE  Cardinality(Units(f, {h})) = f[h]
<1>1. IsFiniteSet(1..f[h]) /\ Cardinality(1..f[h]) = f[h]
  BY FS_Interval
<1>2. IsFiniteSet({h}) /\ Cardinality({h}) = 1
  BY FS_Singleton
<1>3. Cardinality({h} \X (1..f[h])) = 1 * f[h]
  BY <1>1, <1>2, FS_Product
<1>5. 1 * f[h] = f[h]
  OBVIOUS
<1>4. Units(f, {h}) = {h} \X (1..f[h])
  BY DEF Units
<1> QED
  BY <1>3, <1>4, <1>5, Zenon

LEMMA UnitsAddUp ==
  ASSUME NEW f, NEW G, NEW H, IsFiniteSet(G), IsFiniteSet(H), G \cap H = {},
         \A h \in G \cup H : f[h] \in Nat
  PROVE  Cardinality(Units(f, G \cup H)) = Cardinality(Units(f, G)) + Cardinality(Units(f, H))
<1>1. IsFiniteSet(Units(f, G)) /\ IsFiniteSet(Units(f, H))
  BY FinitelyManyUnits
<1>2. Units(f, G \cup H) = Units(f, G) \cup Units(f, H)
  BY DEF Units
<1>3. Units(f, G) \cap Units(f, H) = {}
  BY DEF Units
<1>4. Cardinality(Units(f, G)) \in Nat /\ Cardinality(Units(f, H)) \in Nat
  BY <1>1, FS_CardinalityType
<1>5. Cardinality(Units(f, G) \cup Units(f, H))
        = Cardinality(Units(f, G)) + Cardinality(Units(f, H)) - Cardinality(Units(f, G) \cap Units(f, H))
  BY <1>1, FS_Union
<1>6. Cardinality(Units(f, G) \cap Units(f, H)) = 0
  BY <1>3, FS_EmptySet
<1>7. Cardinality(Units(f, G) \cup Units(f, H)) = Cardinality(Units(f, G)) + Cardinality(Units(f, H))
  BY <1>4, <1>5, <1>6
<1> QED
  BY <1>2, <1>7, Zenon

LEMMA UnitsWithout ==
  ASSUME NEW f, NEW H, NEW G, G \subseteq H, IsFiniteSet(H), \A h \in H : f[h] \in Nat
  PROVE  /\ Cardinality(Units(f, H \ G)) = Cardinality(Units(f, H)) - Cardinality(Units(f, G))
         /\ IsFiniteSet(G) /\ IsFiniteSet(H \ G)
         /\ Cardinality(Units(f, H \ G)) \in Nat /\ Cardinality(Units(f, G)) \in Nat
<1>1. IsFiniteSet(G) /\ IsFiniteSet(H \ G) /\ G \cup (H \ G) = H /\ G \cap (H \ G) = {}
  BY FS_Subset
<1>2. Cardinality(Units(f, G \cup (H \ G))) = Cardinality(Units(f, G)) + Cardinality(Units(f, H \ G))
  BY <1>1, UnitsAddUp
<1>3. Cardinality(Units(f, H \ G)) \in Nat /\ Cardinality(Units(f, G)) \in Nat
  BY <1>1, FinitelyManyUnits
<1>4. Cardinality(Units(f, H)) = Cardinality(Units(f, G)) + Cardinality(Units(f, H \ G))
  BY <1>1, <1>2, Zenon
<1>5. Cardinality(Units(f, H \ G)) = Cardinality(Units(f, H)) - Cardinality(Units(f, G))
  BY <1>3, <1>4
<1> QED
  BY <1>1, <1>3, <1>5

LEMMA UnitsAgree ==
  ASSUME NEW f, NEW g, NEW H, \A h \in H : f[h] = g[h]
  PROVE  Units(f, H) = Units(g, H)
BY DEF Units


(* What `Owned' leaves open: the usage, the other half of what the lists   *)
(* hold, and that the table knows every entry of the cache.                *)
Usage ==
  /\ capacity \in Capacities /\ charge \in [Handles -> Nat]
  /\ IsFiniteSet(inCache) /\ usage = ChargeOf(inCache)

Lists ==
  /\ \A h \in inCache : refs[h] = 1 => h \in Elements(lru)
  /\ inUse = {h \in inCache : refs[h] >= 2}

TableKnows == \A h \in inCache : key[h] \in Keys /\ table[key[h]] = h

Kept == Usage /\ Lists /\ TableKnows

LEMMA ChargesAreUnits ==
  /\ \A H : ChargeOf(H) = Cardinality(Units(charge, H))
  /\ ChargeOf(inCache)' = Cardinality(Units(charge', inCache'))
BY DEF ChargeOf, Units

(* The usage when entries leave.                                           *)
LEMMA UsageWithout ==
  ASSUME Owned, Usage, NEW G \in SUBSET inCache, UNCHANGED <<capacity, charge>>,
         inCache' = inCache \ G, usage' = usage - ChargeOf(G)
  PROVE  Usage'
<1>1. inCache \subseteq Handles /\ IsFiniteSet(inCache) /\ usage = Cardinality(Units(charge, inCache))
  BY ChargesAreUnits DEF Owned, Types, Usage
<1>2. \A h \in inCache : charge[h] \in Nat
  BY <1>1 DEF Usage
<1>3. /\ Cardinality(Units(charge, inCache \ G)) = Cardinality(Units(charge, inCache)) - Cardinality(Units(charge, G))
      /\ IsFiniteSet(inCache \ G)
  BY <1>1, <1>2, UnitsWithout
<1>4. usage' = usage - Cardinality(Units(charge, G)) /\ IsFiniteSet(inCache')
  BY <1>3, ChargesAreUnits
<1>5. usage' = Cardinality(Units(charge, inCache \ G))
  BY <1>1, <1>3, <1>4
<1>6. usage' = Cardinality(Units(charge', inCache'))
  BY <1>5
<1> QED
  BY <1>4, <1>6, ChargesAreUnits DEF Usage

LEMMA InitKept == Init => Kept
<1> SUFFICES ASSUME Init PROVE Kept
  OBVIOUS
<1>1. Units(charge, {}) = {}
  BY DEF Units
<1>2. ChargeOf({}) = 0
  BY <1>1, ChargesAreUnits, FS_EmptySet
<1>3. Usage
  BY <1>2, FS_EmptySet DEF Init, Usage
<1> QED
  BY <1>3 DEF Init, Kept, Lists, TableKnows

LEMMA LookupKept ==
  ASSUME Owned, Kept, NEW c \in Clients, NEW k \in Keys, Lookup(c, k)
  PROVE  Kept'
<1> DEFINE h == table[k]
<1>1. h \in inCache /\ h \in Handles
  BY DEF Owned, TableFinds, Types, Lookup
<1>2. refs[h] >= 1 /\ refs \in [Handles -> Nat]
  BY <1>1, CountsTell DEF Owned, Types
<1>3. /\ refs' = [refs EXCEPT ![h] = @ + 1] /\ lru' = Without(lru, h) /\ inUse' = inUse \cup {h}
      /\ UNCHANGED <<capacity, key, charge, table, inCache, usage>>
  BY DEF Lookup
<1>4. Usage' /\ TableKnows'
  BY <1>3 DEF Kept, Usage, TableKnows, ChargeOf
<1>5. Elements(lru') = Elements(lru) \ {h}
  BY <1>3, Unlink DEF Owned, IdleList
<1>6. refs'[h] >= 2 /\ refs'[h] # 1 /\ \A g \in inCache \ {h} : refs'[g] = refs[g]
  BY <1>1, <1>2, <1>3 DEF Owned, Types
<1> HIDE DEF h
<1>7. Lists'
  BY <1>1, <1>3, <1>5, <1>6 DEF Kept, Lists
<1> QED
  BY <1>4, <1>7 DEF Kept

LEMMA ReleaseKept ==
  ASSUME Owned, Kept, NEW c \in Clients, Release(c)
  PROVE  Kept'
<1>0. PICK h \in Handles : h = holder[c]
  BY DEF Owned, Types, Release
<1>1. /\ UNCHANGED <<capacity, key, charge, table, inCache, usage>>
      /\ refs' = [refs EXCEPT ![h] = @ - 1] /\ refs \in [Handles -> Nat]
      /\ inCache \subseteq Handles /\ c \in Holders(h)
  BY <1>0 DEF Owned, Types, Release, Holders
<1>2. Usage' /\ TableKnows'
  BY <1>1 DEF Kept, Usage, TableKnows, ChargeOf
<1>3. h \in inCache => refs[h] >= 2
  BY <1>0, <1>1, CountsTell DEF Owned, Types
<1>4. \A g \in inCache \ {h} : refs'[g] = refs[g]
  BY <1>1
<1>5. CASE h \in inCache /\ refs[h] = 2
  <2>1. lru' = Append(lru, h) /\ inUse' = inUse \ {h} /\ refs'[h] = 1
    BY <1>0, <1>1, <1>5 DEF Release
  <2>2. /\ DOMAIN lru' = 1..Len(lru) + 1 /\ DOMAIN lru = 1..Len(lru)
        /\ Len(lru) \in Nat /\ lru'[Len(lru) + 1] = h
        /\ \A i \in 1..Len(lru) : lru'[i] = lru[i]
    BY <2>1 DEF Owned, IdleList
  <2>3. Elements(lru') = Elements(lru) \cup {h}
    BY <2>2 DEF Elements
  <2>4. Lists'
    BY <1>1, <1>4, <1>5, <2>1, <2>3 DEF Kept, Lists
  <2> QED
    BY <1>2, <2>4 DEF Kept
<1>6. CASE ~(h \in inCache /\ refs[h] = 2)
  <2>1. lru' = lru /\ inUse' = inUse
    BY <1>0, <1>6 DEF Release
  <2>2. h \in inCache => refs'[h] >= 2 /\ refs'[h] # 1 /\ refs[h] # 1
    BY <1>1, <1>3, <1>6
  <2>3. Lists'
    BY <1>1, <1>3, <1>4, <2>1, <2>2 DEF Kept, Lists
  <2> QED
    BY <1>2, <2>3 DEF Kept
<1> QED
  BY <1>5, <1>6

LEMMA EraseKept ==
  ASSUME Owned, Kept, NEW k \in Keys, Erase(k)
  PROVE  Kept'
<1> DEFINE h == table[k]
<1>1. h \in inCache /\ h \in Handles /\ inCache \subseteq Handles
  BY DEF Owned, TableFinds, Types, Erase
<1>2. /\ refs' = [refs EXCEPT ![h] = @ - 1]
      /\ inCache' = inCache \ {h} /\ inUse' = inUse \ {h} /\ lru' = Without(lru, h)
      /\ usage' = usage - charge[h]
      /\ UNCHANGED <<capacity, key, charge>>
      /\ table' = [table EXCEPT ![k] = None]
  BY DEF Erase
<1>3. Usage'
  <2>1. ChargeOf({h}) = charge[h]
    <3>1. charge[h] \in Nat
      BY <1>1 DEF Kept, Usage
    <3> QED
      BY <3>1, UnitsOfOne, ChargesAreUnits
  <2> QED
    BY <1>1, <1>2, <2>1, UsageWithout DEF Kept
<1>4. Elements(lru') = Elements(lru) \ {h}
  BY <1>2, Unlink DEF Owned, IdleList
<1>5. \A g \in inCache \ {h} : refs'[g] = refs[g]
  BY <1>1, <1>2 DEF Owned, Types
<1>6. Lists'
  <2> HIDE DEF h
  <2> QED
    BY <1>1, <1>2, <1>4, <1>5 DEF Kept, Lists
<1>7. TableKnows'
  <2> SUFFICES ASSUME NEW g \in inCache \ {h}
               PROVE  key[g] \in Keys /\ table'[key[g]] = g
    BY <1>2 DEF TableKnows
  <2>1. key[g] \in Keys /\ table[key[g]] = g
    BY DEF Kept, TableKnows
  <2> QED
    BY <1>2, <2>1 DEF Owned, Types
<1> QED
  BY <1>3, <1>6, <1>7 DEF Kept

LEMMA PruneKept ==
  ASSUME Owned, Kept, Prune
  PROVE  Kept'
<1> DEFINE gone == Elements(lru)
<1>1. gone \in SUBSET inCache /\ inCache \subseteq Handles /\ \A g \in gone : refs[g] = 1
  BY DEF Owned, Types, IdleList
<1>2. /\ refs' = [h \in Handles |-> IF h \in gone THEN refs[h] - 1 ELSE refs[h]]
      /\ inCache' = inCache \ gone /\ usage' = usage - ChargeOf(gone)
      /\ table' = [k \in Keys |-> IF table[k] \in gone THEN None ELSE table[k]]
      /\ UNCHANGED <<capacity, key, charge, inUse>>
  BY DEF Prune
<1>3. \A g \in inCache : g \in gone <=> refs[g] = 1
  BY <1>1 DEF Kept, Lists
<1> HIDE DEF gone
<1>4. Usage'
  BY <1>1, <1>2, UsageWithout DEF Kept
<1>5. \A g \in inCache \ gone : refs'[g] = refs[g] /\ refs[g] # 1
  BY <1>1, <1>2, <1>3
<1>6. Lists'
  BY <1>1, <1>2, <1>5 DEF Kept, Lists
<1>7. TableKnows'
  <2> SUFFICES ASSUME NEW g \in inCache \ gone
               PROVE  key[g] \in Keys /\ table'[key[g]] = g
    BY <1>2 DEF TableKnows
  <2>1. key[g] \in Keys /\ table[key[g]] = g
    BY DEF Kept, TableKnows
  <2> QED
    BY <1>2, <2>1
<1> QED
  BY <1>4, <1>6, <1>7 DEF Kept

LEMMA InsertUncachedKept ==
  ASSUME Owned, Kept, NEW c \in Clients, NEW h \in Handles, NEW n \in Charges, InsertUncached(c, h, n)
  PROVE  Kept'
<1>1. /\ h \notin made /\ charge' = [charge EXCEPT ![h] = n] /\ refs' = [refs EXCEPT ![h] = 1]
      /\ key' = [key EXCEPT ![h] = opening[c]]
      /\ UNCHANGED <<capacity, table, inCache, lru, inUse, usage>>
  BY DEF InsertUncached, cache
<1>2. h \notin inCache /\ inCache \subseteq Handles /\ n \in Nat
  BY <1>1, ChargeAssumption DEF Owned, Types
<1>3. \A g \in inCache : charge'[g] = charge[g] /\ refs'[g] = refs[g] /\ key'[g] = key[g]
  BY <1>1, <1>2 DEF Owned, Types, Kept, Usage
<1>4. Usage'
  <2>1. Units(charge', inCache) = Units(charge, inCache)
    BY <1>3, UnitsAgree
  <2>2. usage' = Cardinality(Units(charge', inCache'))
    BY <1>1, <2>1, ChargesAreUnits DEF Kept, Usage
  <2> QED
    BY <1>1, <1>2, <2>2, ChargesAreUnits DEF Kept, Usage
<1>5. Lists' /\ TableKnows'
  BY <1>1, <1>3 DEF Kept, Lists, TableKnows
<1> QED
  BY <1>4, <1>5 DEF Kept


(* The idle list without the entry that an insertion of k replaces, its    *)
(* first m entries, and what leaves when these are evicted.                *)
Replaced(k) == {table[k]} \ {None}
Rest(k) == Without(lru, table[k])
First(k, m) == {Rest(k)[i] : i \in 1..m}
Gone(k, m) == Replaced(k) \cup First(k, m)

(* What an insertion does, in these terms.                                 *)
Inserting(c, h, n, k, m) ==
  /\ k = opening[c] /\ h \notin made /\ made' = made \cup {h}
  /\ m \in 0..Len(Rest(k))
  /\ Evicts(Rest(k), usage + n - ChargeOf(Replaced(k)), m)
  /\ key' = [key EXCEPT ![h] = k] /\ charge' = [charge EXCEPT ![h] = n]
  /\ refs' = [g \in Handles |-> IF g = h THEN 2 ELSE IF g \in Gone(k, m) THEN refs[g] - 1 ELSE refs[g]]
  /\ inCache' = (inCache \ Gone(k, m)) \cup {h}
  /\ inUse' = (inUse \ Gone(k, m)) \cup {h}
  /\ lru' = Beyond(Rest(k), m)
  /\ table' = [j \in Keys |-> IF j = k THEN h ELSE IF table[j] \in First(k, m) THEN None ELSE table[j]]
  /\ usage' = usage + n - ChargeOf(Gone(k, m))
  /\ UNCHANGED capacity

LEMMA InsertIs ==
  ASSUME Owned, NEW c \in Clients, NEW h \in Handles, NEW n \in Charges, Insert(c, h, n)
  PROVE  \E k \in Keys : \E m \in 0..Len(Rest(k)) : Inserting(c, h, n, k, m)
<1>1. opening[c] \in Keys
  BY DEF Insert, Owned, Types
<1> DEFINE k == opening[c]
<1>2. PICK m \in 0..Len(Rest(k)) :
        /\ Evicts(Rest(k), usage + n - ChargeOf(Replaced(k)), m)
        /\ refs' = [g \in Handles |-> IF g = h THEN 2 ELSE IF g \in Gone(k, m) THEN refs[g] - 1 ELSE refs[g]]
        /\ inCache' = (inCache \ Gone(k, m)) \cup {h}
        /\ inUse' = (inUse \ Gone(k, m)) \cup {h}
        /\ lru' = Beyond(Rest(k), m)
        /\ table' = [j \in Keys |-> IF j = k THEN h ELSE IF table[j] \in First(k, m) THEN None ELSE table[j]]
        /\ usage' = usage + n - ChargeOf(Gone(k, m))
  BY Zenon DEF Insert, Gone, First, Rest, Replaced
<1>3. /\ h \notin made /\ made' = made \cup {h} /\ UNCHANGED capacity
      /\ key' = [key EXCEPT ![h] = k] /\ charge' = [charge EXCEPT ![h] = n]
  BY DEF Insert
<1>4. Inserting(c, h, n, k, m)
  BY <1>2, <1>3 DEF Inserting
<1> QED
  BY <1>1, <1>2, <1>4

(* The two parts of what leaves.                                           *)
LEMMA WhatGoes ==
  ASSUME Owned, NEW k \in Keys, NEW m \in 0..Len(Rest(k))
  PROVE  /\ Rest(k) \in Seq(Handles) /\ NoneTwice(Rest(k))
         /\ Elements(Rest(k)) = Elements(lru) \ {table[k]}
         /\ Gone(k, m) \subseteq inCache /\ Replaced(k) \cap First(k, m) = {}
         /\ First(k, m) \subseteq Elements(Rest(k))
<1>1. /\ Rest(k) \in Seq(Handles) /\ NoneTwice(Rest(k))
      /\ Elements(Rest(k)) = Elements(lru) \ {table[k]}
  BY Unlink DEF Owned, IdleList, Rest
<1>2. Replaced(k) \subseteq inCache
  BY DEF Owned, TableFinds, Replaced
<1>3. First(k, m) \subseteq Elements(Rest(k))
  <2>1. DOMAIN Rest(k) = 1..Len(Rest(k)) /\ Len(Rest(k)) \in Nat
    BY <1>1
  <2> QED
    BY <2>1 DEF Elements, First
<1>4. Elements(lru) \subseteq inCache
  BY DEF Owned, IdleList
<1> QED
  BY <1>1, <1>2, <1>3, <1>4 DEF Gone, Replaced

LEMMA InsertKept ==
  ASSUME Owned, Kept, NEW c \in Clients, NEW h \in Handles, NEW n \in Charges, Insert(c, h, n)
  PROVE  Kept'
<1>1. PICK k \in Keys : \E m \in 0..Len(Rest(k)) : Inserting(c, h, n, k, m)
  BY InsertIs
<1>2. PICK m \in 0..Len(Rest(k)) : Inserting(c, h, n, k, m)
  BY <1>1
<1> DEFINE gone == Gone(k, m)
           kept == inCache \ gone
<1>3. /\ inCache' = kept \cup {h} /\ inUse' = (inUse \ gone) \cup {h}
      /\ key' = [key EXCEPT ![h] = k] /\ charge' = [charge EXCEPT ![h] = n]
      /\ refs' = [g \in Handles |-> IF g = h THEN 2 ELSE IF g \in gone THEN refs[g] - 1 ELSE refs[g]]
      /\ lru' = Beyond(Rest(k), m)
      /\ table' = [j \in Keys |-> IF j = k THEN h ELSE IF table[j] \in First(k, m) THEN None ELSE table[j]]
      /\ usage' = usage + n - ChargeOf(gone) /\ UNCHANGED capacity /\ h \notin made
  BY <1>2 DEF Inserting
<1>4. /\ gone \subseteq inCache /\ h \notin inCache /\ inCache \subseteq Handles /\ n \in Nat
  BY <1>3, WhatGoes, ChargeAssumption DEF Owned, Types
<1>5. /\ Rest(k) \in Seq(Handles) /\ NoneTwice(Rest(k))
      /\ Elements(Rest(k)) = Elements(lru) \ {table[k]}
  BY WhatGoes
<1>6. Elements(lru') = Elements(Rest(k)) \ First(k, m)
  BY <1>3, <1>5, TakeOff DEF First
<1>7. \A g \in kept : charge'[g] = charge[g] /\ key'[g] = key[g] /\ refs'[g] = refs[g] /\ charge[g] \in Nat
  BY <1>3, <1>4 DEF Owned, Types, Kept, Usage
<1>8. Usage'
  <2>1. IsFiniteSet(inCache) /\ usage = Cardinality(Units(charge, inCache)) /\ \A g \in inCache : charge[g] \in Nat
    BY <1>4, ChargesAreUnits DEF Kept, Usage
  <2>2. /\ Cardinality(Units(charge, kept)) = Cardinality(Units(charge, inCache)) - Cardinality(Units(charge, gone))
        /\ IsFiniteSet(kept) /\ Cardinality(Units(charge, kept)) \in Nat /\ Cardinality(Units(charge, gone)) \in Nat
    <3> HIDE DEF gone
    <3> QED
      BY <1>4, <2>1, UnitsWithout
  <2>3. Units(charge', kept) = Units(charge, kept)
    <3> HIDE DEF kept
    <3> QED
      BY <1>7, UnitsAgree
  <2>4. charge'[h] = n /\ charge' \in [Handles -> Nat] /\ h \notin kept
    BY <1>3, <1>4 DEF Kept, Usage
  <2>5. Cardinality(Units(charge', {h})) = n
    BY <1>4, <2>4, UnitsOfOne
  <2>6. Cardinality(Units(charge', kept \cup {h})) = Cardinality(Units(charge', kept)) + Cardinality(Units(charge', {h}))
    <3>1. IsFiniteSet({h}) /\ kept \cap {h} = {} /\ \A g \in kept \cup {h} : charge'[g] \in Nat
      BY <1>4, <1>7, <2>4, FS_Singleton
    <3> HIDE DEF kept
    <3> QED
      BY <2>2, <3>1, UnitsAddUp
  <2>7. IsFiniteSet(kept \cup {h})
    <3> HIDE DEF kept
    <3> QED
      BY <2>2, FS_AddElement
  <2>8. usage' = usage + n - Cardinality(Units(charge, gone))
    BY <1>3, ChargesAreUnits
  <2> HIDE DEF kept, gone
  <2>9. usage' = Cardinality(Units(charge', kept)) + Cardinality(Units(charge', {h}))
    <3>1. Cardinality(Units(charge', kept)) = Cardinality(Units(charge, kept))
      BY <2>3
    <3>2. usage = Cardinality(Units(charge, inCache)) /\ Cardinality(Units(charge, inCache)) \in Int
      BY <2>1, FinitelyManyUnits
    <3> QED
      BY <3>1, <3>2, <1>4, <2>2, <2>5, <2>8
  <2>10. usage' = ChargeOf(inCache)'
    BY <1>3, <2>6, <2>9, ChargesAreUnits
  <2> QED
    BY <1>3, <2>4, <2>7, <2>10 DEF Kept, Usage
<1>9. Lists'
  <2>1. refs'[h] = 2
    BY <1>3
  <2>2. \A g \in kept : g \in Elements(lru) => g \in Elements(lru')
    <3>1. \A g \in kept : g \in Elements(lru) => g \in Handles /\ g # table[k]
      BY <1>4, NoneAssumption DEF Gone, Replaced
    <3>2. \A g \in kept : g \notin First(k, m)
      BY DEF Gone
    <3> QED
      BY <1>5, <1>6, <3>1, <3>2
  <2>3. inUse \ gone = {g \in kept : refs[g] >= 2}
    BY DEF Kept, Lists
  <2> HIDE DEF kept, gone
  <2>4. \A g \in inCache' : refs'[g] = 1 => g \in Elements(lru')
    <3>1. kept \subseteq inCache
      BY DEF kept
    <3> QED
      BY <1>3, <1>7, <2>1, <2>2, <3>1 DEF Kept, Lists
  <2>5. inUse' = {g \in inCache' : refs'[g] >= 2}
    BY <1>3, <1>7, <2>1, <2>3
  <2> QED
    BY <2>4, <2>5 DEF Lists
<1>10. TableKnows'
  <2> SUFFICES ASSUME NEW g \in kept \cup {h}
               PROVE  key'[g] \in Keys /\ table'[key'[g]] = g
    BY <1>3 DEF TableKnows
  <2>1. CASE g = h
    BY <1>3, <2>1 DEF Owned, Types
  <2>2. CASE g \in kept
    <3>1. key'[g] = key[g] /\ key[g] \in Keys /\ table[key[g]] = g
      BY <1>7, <2>2 DEF Kept, TableKnows
    <3>2. g \notin Replaced(k) /\ g \notin First(k, m) /\ g # None
      BY <1>4, <2>2, NoneAssumption DEF Gone
    <3>3. key[g] # k
      BY <3>1, <3>2 DEF Replaced
    <3> QED
      BY <1>3, <3>1, <3>2, <3>3
  <2> QED
    BY <2>1, <2>2
<1> QED
  BY <1>8, <1>9, <1>10 DEF Kept

(* Every reachable state satisfies the rest of the invariant, too.         *)
THEOREM AlwaysKept == Spec => []Kept
<1>1. Owned /\ Kept /\ [Next]_vars => Kept'
  <2> SUFFICES ASSUME Owned, Kept, [Next]_vars PROVE Kept'
    OBVIOUS
  <2>1. ASSUME NEW c \in Clients, NEW k \in Keys, Lookup(c, k) PROVE Kept'
    BY <2>1, LookupKept
  <2>2. ASSUME NEW c \in Clients, NEW k \in Keys, Miss(c, k) PROVE Kept'
    BY <2>2 DEF Miss, entries, cache, Kept, Usage, Lists, TableKnows, ChargeOf
  <2>3. ASSUME NEW c \in Clients, OpenFails(c) PROVE Kept'
    BY <2>3 DEF OpenFails, entries, cache, Kept, Usage, Lists, TableKnows, ChargeOf
  <2>4. ASSUME NEW c \in Clients, Release(c) PROVE Kept'
    BY <2>4, ReleaseKept
  <2>5. ASSUME NEW c \in Clients, NEW h \in Handles, NEW n \in Charges,
               Insert(c, h, n) \/ InsertUncached(c, h, n)
        PROVE  Kept'
    BY <2>5, InsertKept, InsertUncachedKept
  <2>6. ASSUME NEW k \in Keys, Erase(k) PROVE Kept'
    BY <2>6, EraseKept
  <2>7. CASE Prune
    BY <2>7, PruneKept
  <2>8. CASE UNCHANGED vars
    BY <2>8 DEF vars, entries, cache, Kept, Usage, Lists, TableKnows, ChargeOf
  <2> QED
    BY <2>1, <2>2, <2>3, <2>4, <2>5, <2>6, <2>7, <2>8 DEF Next
<1> QED
  BY InitKept, AlwaysOwned, <1>1, PTL DEF Spec

(* The assertions of util/cache.cc: an entry of the cache is on the one    *)
(* list that tells whether clients hold it, the table finds it under its   *)
(* key and nothing else, and the usage is what the entries charge.         *)
THEOREM CacheConsistent == Spec => []CacheIsConsistent
<1>1. Owned /\ Kept => CacheIsConsistent
  <2> SUFFICES ASSUME Owned, Kept PROVE CacheIsConsistent
    OBVIOUS
  <2>1. usage \in Nat
    <3>1. \A h \in inCache : charge[h] \in Nat
      BY DEF Owned, Types, Kept, Usage
    <3> QED
      BY <3>1, FinitelyManyUnits, ChargesAreUnits DEF Kept, Usage
  <2>2. TypeOK
    BY <2>1 DEF Owned, Types, IdleList, Kept, Usage, Lists, TypeOK
  <2>3. Elements(lru) = {h \in inCache : refs[h] = 1}
    BY DEF Owned, IdleList, Kept, Lists
  <2> QED
    BY <2>2, <2>3 DEF Owned, IdleList, NoneTwice, TableFinds, Kept, Usage, Lists, TableKnows, CacheIsConsistent
<1> QED
  BY AlwaysOwned, AlwaysKept, <1>1, PTL


-----------------------------------------------------------------------------
(* Which entries an insertion evicts.                                      *)

(* The order of a list, as far as t keeps it.                              *)
InOrder(t, s) ==
  \A i, j \in DOMAIN t : i < j => \E p, q \in DOMAIN s : p < q /\ s[p] = t[i] /\ s[q] = t[j]

(* Unlinking keeps the order.                                              *)
LEMMA UnlinkInOrder ==
  ASSUME NEW s \in Seq(Handles), NEW e
  PROVE  InOrder(Without(s, e), s)
<1>0. Len(s) \in Nat /\ DOMAIN s = 1..Len(s)
  OBVIOUS
<1>1. CASE e \notin Elements(s)
  BY <1>0, <1>1 DEF Without, InOrder
<1>2. CASE e \in Elements(s)
  <2>1. PICK p \in 1..Len(s) : s[p] = e /\ p = CHOOSE i \in DOMAIN s : s[i] = e
    BY <1>0, <1>2 DEF Elements
  <2> DEFINE t == [i \in 1..Len(s) - 1 |-> s[IF i < p THEN i ELSE i + 1]]
             at(i) == IF i < p THEN i ELSE i + 1
  <2>2. Without(s, e) = t
    BY <1>2, <2>1 DEF Without
  <2>3. ASSUME NEW i \in 1..Len(s) - 1, NEW j \in 1..Len(s) - 1, i < j
        PROVE  \E a, b \in DOMAIN s : a < b /\ s[a] = t[i] /\ s[b] = t[j]
    <3>1. at(i) \in 1..Len(s) /\ at(j) \in 1..Len(s) /\ at(i) < at(j)
      BY <1>0, <2>1, <2>3
    <3>2. t[i] = s[at(i)] /\ t[j] = s[at(j)]
      OBVIOUS
    <3> HIDE DEF at, t
    <3> QED
      BY <1>0, <3>1, <3>2
  <2>4. DOMAIN t = 1..Len(s) - 1
    OBVIOUS
  <2> HIDE DEF t
  <2> QED
    BY <2>2, <2>3, <2>4 DEF InOrder
<1> QED
  BY <1>1, <1>2

(* In a list without repetitions, what keeps the order can be compared.    *)
LEMMA OrderIsKept ==
  ASSUME NEW s \in Seq(Handles), NoneTwice(s), NEW t, InOrder(t, s),
         NEW i \in DOMAIN t, NEW j \in DOMAIN t, i < j,
         NEW p \in DOMAIN s, s[p] = t[i], NEW q \in DOMAIN s, s[q] = t[j]
  PROVE  p < q
<1>1. PICK a \in DOMAIN s, b \in DOMAIN s : a < b /\ s[a] = t[i] /\ s[b] = t[j]
  BY DEF InOrder
<1>2. a = p /\ b = q
  BY <1>1 DEF NoneTwice
<1> QED
  BY <1>1, <1>2

(* The charge of what is evicted grows by that of the last one.            *)
LEMMA LastCharge ==
  ASSUME Owned, Kept, NEW k \in Keys, NEW m \in 1..Len(Rest(k))
  PROVE  /\ ChargeOf(First(k, m)) = ChargeOf(First(k, m - 1)) + charge[Rest(k)[m]]
         /\ ChargeOf(First(k, m - 1)) \in Nat /\ charge[Rest(k)[m]] \in Nat
<1>1. m \in 0..Len(Rest(k)) /\ m - 1 \in 0..Len(Rest(k)) /\ DOMAIN Rest(k) = 1..Len(Rest(k))
  BY WhatGoes
<1>2. /\ Rest(k) \in Seq(Handles) /\ NoneTwice(Rest(k))
      /\ First(k, m) \subseteq inCache
  BY <1>1, WhatGoes DEF Owned, IdleList
<1> DEFINE h == Rest(k)[m]
<1>3. First(k, m) = First(k, m - 1) \cup {h} /\ h \notin First(k, m - 1)
  BY <1>1, <1>2 DEF First, NoneTwice
<1>4. IsFiniteSet(inCache) /\ \A g \in inCache : charge[g] \in Nat
  BY DEF Kept, Usage, Owned, Types
<1> HIDE DEF h
<1>5. IsFiniteSet(First(k, m - 1)) /\ IsFiniteSet({h})
  BY <1>2, <1>3, <1>4, FS_Subset, FS_Singleton
<1>6. First(k, m - 1) \cap {h} = {} /\ \A g \in First(k, m - 1) \cup {h} : charge[g] \in Nat
  BY <1>2, <1>3, <1>4
<1>7. Cardinality(Units(charge, First(k, m - 1) \cup {h}))
        = Cardinality(Units(charge, First(k, m - 1))) + Cardinality(Units(charge, {h}))
  BY <1>5, <1>6, UnitsAddUp
<1>8. Cardinality(Units(charge, {h})) = charge[h] /\ charge[h] \in Nat
  BY <1>6, UnitsOfOne
<1>9. Cardinality(Units(charge, First(k, m - 1))) \in Nat
  BY <1>5, <1>6, FinitelyManyUnits
<1> QED
  BY <1>3, <1>7, <1>8, <1>9, ChargesAreUnits DEF h

(* The usage after an insertion, as its loop computes it.                  *)
LEMMA UsageAfter ==
  ASSUME Owned, Kept, NEW c \in Clients, NEW h \in Handles, NEW n \in Nat,
         NEW k \in Keys, NEW m \in 0..Len(Rest(k)), Inserting(c, h, n, k, m)
  PROVE  /\ usage' = (usage + n - ChargeOf(Replaced(k))) - ChargeOf(First(k, m))
         /\ usage + n - ChargeOf(Replaced(k)) \in Int
<1>1. Gone(k, m) \subseteq inCache /\ Replaced(k) \cap First(k, m) = {}
  BY WhatGoes
<1>2. IsFiniteSet(inCache) /\ \A g \in inCache : charge[g] \in Nat
  BY DEF Kept, Usage, Owned, Types
<1>3. Replaced(k) \subseteq inCache /\ First(k, m) \subseteq inCache /\ Gone(k, m) = Replaced(k) \cup First(k, m)
  BY <1>1 DEF Gone
<1>4. IsFiniteSet(Replaced(k)) /\ IsFiniteSet(First(k, m))
  BY <1>2, <1>3, FS_Subset
<1>5. \A g \in Replaced(k) \cup First(k, m) : charge[g] \in Nat
  BY <1>2, <1>3
<1>6. Cardinality(Units(charge, Replaced(k) \cup First(k, m)))
        = Cardinality(Units(charge, Replaced(k))) + Cardinality(Units(charge, First(k, m)))
  BY <1>1, <1>4, <1>5, UnitsAddUp
<1>7. Cardinality(Units(charge, Replaced(k))) \in Nat /\ Cardinality(Units(charge, First(k, m))) \in Nat
  BY <1>4, <1>5, FinitelyManyUnits
<1>8. usage' = usage + n - ChargeOf(Gone(k, m))
  BY DEF Inserting
<1>9. usage \in Nat
  BY <1>2, FinitelyManyUnits, ChargesAreUnits DEF Kept, Usage
<1>10. ChargeOf(Gone(k, m)) = ChargeOf(Replaced(k)) + ChargeOf(First(k, m))
  BY <1>3, <1>6, ChargesAreUnits
<1>11. ChargeOf(Replaced(k)) \in Nat /\ ChargeOf(First(k, m)) \in Nat
  BY <1>7, ChargesAreUnits
<1> QED
  BY <1>8, <1>9, <1>10, <1>11

(* What EvictsTheOldest says of a step that makes an entry.                *)
EvictionOf(replaced, left, evicted) ==
  /\ left \subseteq Elements(lru) \ replaced
  /\ InOrder(lru', lru)
  /\ \A i \in evicted : \A j \in DOMAIN lru : lru[j] \in left => i < j
  /\ \A i \in evicted : (\A j \in evicted : j <= i) => usage' + charge[lru[i]] > capacity
  /\ usage' > capacity => left = {}

LEMMA InsertEvicts ==
  ASSUME Owned, Kept, NEW c \in Clients, NEW h \in Handles, NEW n \in Charges, Insert(c, h, n),
         NEW replaced, replaced = {g \in Elements(lru) : \E x \in made' \ made : key[g] = key'[x]},
         NEW left, left = Elements(lru'),
         NEW evicted, evicted = {i \in DOMAIN lru : lru[i] \notin replaced \cup left}
  PROVE  EvictionOf(replaced, left, evicted)
<1>1. PICK k \in Keys : \E m \in 0..Len(Rest(k)) : Inserting(c, h, n, k, m)
  BY InsertIs
<1>2. PICK m \in 0..Len(Rest(k)) : Inserting(c, h, n, k, m)
  BY <1>1
<1> DEFINE rest == Rest(k)
<1>3. /\ rest \in Seq(Handles) /\ NoneTwice(rest)
      /\ Elements(rest) = Elements(lru) \ {table[k]}
      /\ lru \in Seq(Handles) /\ NoneTwice(lru) /\ Elements(lru) \subseteq inCache
  BY WhatGoes DEF Owned, IdleList
<1>4. /\ lru' = Beyond(rest, m) /\ made' \ made = {h} /\ key'[h] = k
      /\ Evicts(rest, usage + n - ChargeOf(Replaced(k)), m)
  BY <1>2 DEF Inserting, Owned, Types
<1>5. left = Elements(rest) \ First(k, m)
  BY <1>3, <1>4, TakeOff DEF First
<1>6. \A g \in Elements(lru) : g \in replaced <=> g = table[k]
  <2> SUFFICES ASSUME NEW g \in Elements(lru) PROVE g \in replaced <=> g = table[k]
    OBVIOUS
  <2>1. g \in replaced <=> key[g] = k
    BY <1>4
  <2>2. g \in inCache /\ g # None
    BY <1>3, NoneAssumption DEF Owned, Types
  <2>3. key[g] = k => g = table[k]
    BY <2>2 DEF Kept, TableKnows
  <2>4. g = table[k] => key[g] = k
    BY <2>2 DEF Owned, TableFinds
  <2> QED
    BY <2>1, <2>3, <2>4
<1>7. left \subseteq Elements(lru) \ replaced
  BY <1>3, <1>5, <1>6
<1>8. \A i \in evicted : i \in DOMAIN lru /\ lru[i] \in First(k, m)
  <2> SUFFICES ASSUME NEW i \in evicted PROVE i \in DOMAIN lru /\ lru[i] \in First(k, m)
    OBVIOUS
  <2>1. i \in DOMAIN lru /\ lru[i] \in Elements(lru) /\ lru[i] \notin replaced /\ lru[i] \notin left
    BY DEF Elements
  <2>2. lru[i] \in Elements(rest)
    BY <1>3, <1>6, <2>1
  <2> QED
    BY <1>5, <2>1, <2>2
<1>9. /\ Len(rest) \in Nat /\ DOMAIN rest = 1..Len(rest)
      /\ DOMAIN lru = 1..Len(lru) /\ Len(lru) \in Nat
  BY <1>3
<1>10. InOrder(rest, lru)
  BY <1>3, UnlinkInOrder DEF Rest
<1> HIDE DEF rest
<1>11. InOrder(lru', lru)
  <2>1. DOMAIN lru' = 1..Len(rest) - m /\ \A i \in 1..Len(rest) - m : lru'[i] = rest[m + i]
    BY <1>4, <1>9 DEF Beyond
  <2> SUFFICES ASSUME NEW i \in 1..Len(rest) - m, NEW j \in 1..Len(rest) - m, i < j
               PROVE  \E p, q \in DOMAIN lru : p < q /\ lru[p] = lru'[i] /\ lru[q] = lru'[j]
    BY <2>1 DEF InOrder
  <2>2. m + i \in DOMAIN rest /\ m + j \in DOMAIN rest /\ m + i < m + j
    BY <1>9
  <2>3. PICK p \in DOMAIN lru, q \in DOMAIN lru : p < q /\ lru[p] = rest[m + i] /\ lru[q] = rest[m + j]
    BY <1>10, <2>2 DEF InOrder
  <2> QED
    BY <2>1, <2>3
<1>12. \A g \in First(k, m) : \E a \in 1..m : a \in DOMAIN rest /\ g = rest[a]
  BY <1>9 DEF First, rest
<1>13. \A i \in evicted : \A j \in DOMAIN lru : lru[j] \in left => i < j
  <2> SUFFICES ASSUME NEW i \in evicted, NEW j \in DOMAIN lru, lru[j] \in left PROVE i < j
    OBVIOUS
  <2>1. PICK a \in 1..m : a \in DOMAIN rest /\ lru[i] = rest[a]
    BY <1>8, <1>12
  <2>2. PICK b \in DOMAIN rest : lru[j] = rest[b]
    BY <1>5 DEF Elements, rest
  <2>3. b \notin 1..m
    BY <1>5, <2>2 DEF First, rest
  <2>4. a < b
    BY <1>9, <2>1, <2>2, <2>3
  <2> QED
    BY <1>3, <1>8, <1>10, <2>1, <2>2, <2>4, OrderIsKept
<1>14. n \in Nat /\ capacity \in Nat
  BY ChargeAssumption DEF Kept, Usage
<1> DEFINE u == usage + n - ChargeOf(Replaced(k))
<1>15. usage' = u - ChargeOf(First(k, m)) /\ u \in Int
  BY <1>2, <1>14, UsageAfter
<1>16. /\ \A x \in 0..m - 1 : u - ChargeOf(First(k, x)) > capacity
       /\ m = Len(rest) \/ usage' <= capacity
  BY <1>4, <1>15 DEF Evicts, First, rest
<1> HIDE DEF u
<1>17. \A i \in evicted : (\A j \in evicted : j <= i) => usage' + charge[lru[i]] > capacity
  <2> SUFFICES ASSUME NEW i \in evicted, \A j \in evicted : j <= i
               PROVE  usage' + charge[lru[i]] > capacity
    OBVIOUS
  <2>1. PICK a \in 1..m : a \in DOMAIN rest /\ lru[i] = rest[a]
    BY <1>8, <1>12
  <2>2. m \in 1..Len(Rest(k)) /\ m \in DOMAIN rest /\ m - 1 \in 0..m - 1
    BY <1>9, <2>1 DEF rest
  <2>3. rest[m] \in Elements(rest) /\ rest[m] \in First(k, m)
    BY <2>2 DEF Elements, First, rest
  <2>4. rest[m] \in Elements(lru) /\ rest[m] \notin replaced /\ rest[m] \notin left
    BY <1>3, <1>5, <1>6, <2>3 DEF rest
  <2>5. PICK q \in DOMAIN lru : lru[q] = rest[m]
    BY <2>4 DEF Elements
  <2>6. q \in evicted
    BY <2>4, <2>5
  <2>7. ~(a < m)
    <3>1. ASSUME a < m PROVE i < q
      BY <1>3, <1>8, <1>10, <2>1, <2>2, <2>5, <3>1, OrderIsKept
    <3>2. q <= i /\ i \in Int /\ q \in Int
      BY <1>8, <1>9, <2>6
    <3> QED
      BY <3>1, <3>2
  <2>8. lru[i] = rest[m]
    BY <2>1, <2>2, <2>7, <1>9
  <2>9. /\ ChargeOf(First(k, m)) = ChargeOf(First(k, m - 1)) + charge[Rest(k)[m]]
        /\ ChargeOf(First(k, m - 1)) \in Nat /\ charge[Rest(k)[m]] \in Nat
    BY <2>2, LastCharge
  <2>10. u - ChargeOf(First(k, m - 1)) > capacity
    BY <1>16, <2>2
  <2>11. charge[lru[i]] = charge[Rest(k)[m]]
    BY <2>8 DEF rest
  <2> QED
    BY <1>14, <1>15, <2>9, <2>10, <2>11
<1>18. ASSUME usage' > capacity PROVE left = {}
  <2>1. usage' \in Int
    <3>1. ChargeOf(First(k, m)) \in Nat
      <4>1. First(k, m) \subseteq inCache
        BY WhatGoes DEF Gone
      <4>2. IsFiniteSet(First(k, m)) /\ \A g \in First(k, m) : charge[g] \in Nat
        BY <4>1, FS_Subset DEF Kept, Usage, Owned, Types
      <4> QED
        BY <4>2, FinitelyManyUnits, ChargesAreUnits
    <3> QED
      BY <3>1, <1>15
  <2>2. m = Len(rest)
    BY <1>14, <1>16, <1>18, <2>1
  <2> QED
    BY <1>5, <1>9, <2>2 DEF Elements, First, rest
<1> QED
  BY <1>7, <1>11, <1>13, <1>17, <1>18 DEF EvictionOf

(* The loop of Insert (util/cache.cc:293) evicts from the old end of the   *)
(* idle list, stops as soon as the usage is within the capacity, and stops *)
(* above it only when nothing idle is left; the rest stays in its order.   *)
THEOREM OldestAreEvicted == Spec => EvictsTheOldest
<1> DEFINE Eviction ==
      made' # made /\ capacity > 0 =>
        LET replaced == {h \in Elements(lru) : \E g \in made' \ made : key[h] = key'[g]}
            left == Elements(lru')
            evicted == {i \in DOMAIN lru : lru[i] \notin replaced \cup left}
        IN /\ left \subseteq Elements(lru) \ replaced
           /\ \A i, j \in DOMAIN lru' :
                i < j => \E p, q \in DOMAIN lru : p < q /\ lru[p] = lru'[i] /\ lru[q] = lru'[j]
           /\ \A i \in evicted : \A j \in DOMAIN lru : lru[j] \in left => i < j
           /\ \A i \in evicted : (\A j \in evicted : j <= i) => usage' + charge[lru[i]] > capacity
           /\ usage' > capacity => left = {}
<1>1. Owned /\ Kept /\ [Next]_vars => [Eviction]_vars
  <2> SUFFICES ASSUME Owned, Kept, Next, made' # made, capacity > 0 PROVE Eviction
    BY Zenon
  <2>1. PICK c \in Clients, h \in Handles, n \in Charges : Insert(c, h, n)
    <3>1. ASSUME NEW c \in Clients, NEW k \in Keys PROVE ~Lookup(c, k) /\ ~Miss(c, k)
      BY DEF Lookup, Miss, entries
    <3>2. ASSUME NEW c \in Clients PROVE ~OpenFails(c) /\ ~Release(c)
      BY DEF OpenFails, Release, entries
    <3>3. ASSUME NEW k \in Keys PROVE ~Erase(k)
      BY DEF Erase
    <3>4. ~Prune
      BY DEF Prune
    <3>5. ASSUME NEW c \in Clients, NEW h \in Handles, NEW n \in Charges PROVE ~InsertUncached(c, h, n)
      <4>1. capacity # 0
        OBVIOUS
      <4> QED
        BY <4>1 DEF InsertUncached
    <3> QED
      BY <3>1, <3>2, <3>3, <3>4, <3>5 DEF Next
  <2> DEFINE replaced == {g \in Elements(lru) : \E x \in made' \ made : key[g] = key'[x]}
             left == Elements(lru')
             evicted == {i \in DOMAIN lru : lru[i] \notin replaced \cup left}
  <2>2. EvictionOf(replaced, left, evicted)
    <3>1. PICK r, l, e : r = replaced /\ l = left /\ e = evicted
      OBVIOUS
    <3> HIDE DEF replaced, left, evicted
    <3> QED
      BY <2>1, InsertEvicts DEF replaced, left, evicted
  <2> QED
    BY <2>2 DEF EvictionOf, InOrder
<1>2. Spec => [][Eviction]_vars
  <2> HIDE DEF Eviction
  <2> QED
    BY AlwaysOwned, AlwaysKept, <1>1, PTL DEF Spec
<1> QED
  BY <1>2, PTL DEF EvictsTheOldest

=============================================================================
