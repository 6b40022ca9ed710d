------------------------------ MODULE LRUCache ------------------------------
(***************************************************************************)
(* One shard of leveldb's cache (util/cache.cc) under the threads that use *)
(* it to share open tables (db/table_cache.cc).  Every operation of the    *)
(* cache holds its mutex, so it is one step; a client that misses opens    *)
(* the table between two of them, and others may do the same meanwhile.    *)
(*                                                                         *)
(* A handle is an LRUHandle; a client is a Get or an iterator, that holds  *)
(* at most one.  The hash table (HandleTable) is a function of the key.    *)
(***************************************************************************)
EXTENDS Integers, Sequences, FiniteSets

CONSTANTS
  Keys, Clients,
  Handles,   \* bound: the entries that can be allocated
  None,
  Charges,   \* what an entry may charge
  Capacities \* capacities a shard may be given

ASSUME NoneAssumption == None \notin Keys \cup Handles
ASSUME ChargeAssumption == Charges \subseteq Nat /\ Capacities \subseteq Nat
ASSUME FiniteAssumption == IsFiniteSet(Clients)

VARIABLES
  capacity, \* capacity_
  table,    \* table_: the handle of each key, or None
  key, charge, refs,  \* fields of the handles
  inCache,  \* the handles whose in_cache is set
  lru,      \* lru_: the entries only the cache refers to, the oldest first
  inUse,    \* in_use_: the entries of the cache that clients hold
  usage,    \* usage_
  made,     \* the handles that were allocated
  freed,    \* those whose deleter was called
  holder,   \* the handle each client holds, or None
  opening   \* the key each client is opening the table of, or None

entries == <<key, charge, refs, made, freed>>
cache == <<table, inCache, lru, inUse, usage>>
vars == <<capacity, entries, cache, holder, opening>>

Elements(s) == {s[i] : i \in DOMAIN s}

\* LRU_Remove
Without(s, e) ==
  IF e \notin Elements(s) THEN s
  ELSE LET p == CHOOSE i \in DOMAIN s : s[i] = e
       IN [i \in 1..Len(s) - 1 |-> s[IF i < p THEN i ELSE i + 1]]

\* without the first m
Beyond(s, m) == [i \in 1..Len(s) - m |-> s[m + i]]

\* what the entries of H charge together, counted unit by unit
ChargeOf(H) == Cardinality(UNION {{h} \X (1..charge[h]) : h \in H})

\* the entries Unref deallocates when one reference to each of H goes
Deallocated(H) == {h \in H : refs[h] = 1}

Init ==
  /\ capacity \in Capacities  \* SetCapacity
  /\ table = [k \in Keys |-> None]
  /\ key = [h \in Handles |-> None]
  /\ charge = [h \in Handles |-> 0] /\ refs = [h \in Handles |-> 0]
  /\ inCache = {} /\ lru = <<>> /\ inUse = {} /\ usage = 0
  /\ made = {} /\ freed = {}
  /\ holder = [c \in Clients |-> None] /\ opening = [c \in Clients |-> None]

Idle(c) == holder[c] = None /\ opening[c] = None

\* mutant: Ref leaves an idle entry where it may be evicted
LookupInPlace(c, k) ==
  /\ Idle(c) /\ table[k] # None
  /\ refs' = [refs EXCEPT ![table[k]] = @ + 1]
  /\ holder' = [holder EXCEPT ![c] = table[k]]
  /\ UNCHANGED <<capacity, key, charge, made, freed, cache, opening>>

\* FindTable finds an open table; Ref
Lookup(c, k) ==
  /\ Idle(c) /\ table[k] # None
  /\ refs' = [refs EXCEPT ![table[k]] = @ + 1]
  /\ lru' = Without(lru, table[k])
  /\ inUse' = inUse \cup {table[k]}
  /\ holder' = [holder EXCEPT ![c] = table[k]]
  /\ UNCHANGED <<capacity, key, charge, made, freed, table, inCache, usage, opening>>

Miss(c, k) ==
  /\ Idle(c) /\ table[k] = None
  /\ opening' = [opening EXCEPT ![c] = k]
  /\ UNCHANGED <<capacity, entries, cache, holder>>

\* the file cannot be opened; no entry is made
OpenFails(c) ==
  /\ opening[c] # None
  /\ opening' = [opening EXCEPT ![c] = None]
  /\ UNCHANGED <<capacity, entries, cache, holder>>

\* mutant: the loop goes on while the usage is not below the capacity
EvictsOneMore(s, u, n) ==
  /\ \A m \in 0..n - 1 : u - ChargeOf({s[i] : i \in 1..m}) >= capacity
  /\ n = Len(s) \/ u - ChargeOf({s[i] : i \in 1..n}) < capacity

\* the loop of Insert evicts the first n entries of s, when the usage is u
Evicts(s, u, n) ==
  /\ \A m \in 0..n - 1 : u - ChargeOf({s[i] : i \in 1..m}) > capacity
  /\ n = Len(s) \/ u - ChargeOf({s[i] : i \in 1..n}) <= capacity

\* Insert with a charge of n.  What leaves the cache (FinishErase): the entry of
\* the same key, and then the evicted ones
Insert(c, h, n) ==
  LET k == opening[c]
      replaced == {table[k]} \ {None}
      rest == Without(lru, table[k])
  IN /\ k # None /\ h \notin made /\ capacity > 0
     /\ made' = made \cup {h}
     /\ key' = [key EXCEPT ![h] = k]
     /\ charge' = [charge EXCEPT ![h] = n]
     /\ \E m \in 0..Len(rest) :
          LET evicted == {rest[i] : i \in 1..m}
              gone == replaced \cup evicted
          IN /\ Evicts(rest, usage + n - ChargeOf(replaced), m)
             /\ refs' = [g \in Handles |-> IF g = h THEN 2 ELSE IF g \in gone THEN refs[g] - 1 ELSE refs[g]]
             /\ freed' = freed \cup Deallocated(gone)
             /\ inCache' = (inCache \ gone) \cup {h}
             /\ inUse' = (inUse \ gone) \cup {h}
             /\ lru' = Beyond(rest, m)
             /\ table' = [j \in Keys |-> IF j = k THEN h ELSE IF table[j] \in evicted THEN None ELSE table[j]]
             /\ usage' = usage + n - ChargeOf(gone)
     /\ holder' = [holder EXCEPT ![c] = h]
     /\ opening' = [opening EXCEPT ![c] = None]
     /\ UNCHANGED capacity

\* Insert with caching turned off
InsertUncached(c, h, n) ==
  /\ opening[c] # None /\ h \notin made /\ capacity = 0
  /\ made' = made \cup {h}
  /\ key' = [key EXCEPT ![h] = opening[c]]
  /\ charge' = [charge EXCEPT ![h] = n]
  /\ refs' = [refs EXCEPT ![h] = 1]
  /\ holder' = [holder EXCEPT ![c] = h]
  /\ opening' = [opening EXCEPT ![c] = None]
  /\ UNCHANGED <<capacity, freed, cache>>

\* Unref, by a client
Release(c) ==
  LET h == holder[c]
  IN /\ h # None
     /\ refs' = [refs EXCEPT ![h] = @ - 1]
     /\ freed' = freed \cup Deallocated({h})
     /\ IF h \in inCache /\ refs[h] = 2
        THEN lru' = Append(lru, h) /\ inUse' = inUse \ {h}
        ELSE UNCHANGED <<lru, inUse>>
     /\ holder' = [holder EXCEPT ![c] = None]
     /\ UNCHANGED <<capacity, key, charge, made, table, inCache, usage, opening>>

\* mutant: an entry that is in use leaves the cache with its reference
EraseKeepsReference(k) ==
  LET h == table[k]
  IN /\ h # None
     /\ table' = [table EXCEPT ![k] = None]
     /\ inCache' = inCache \ {h} /\ inUse' = inUse \ {h} /\ lru' = Without(lru, h)
     /\ usage' = usage - charge[h]
     /\ UNCHANGED <<capacity, entries, holder, opening>>

\* Erase (Evict of the table cache): clients go on using what they hold
Erase(k) ==
  LET h == table[k]
  IN /\ h # None
     /\ table' = [table EXCEPT ![k] = None]
     /\ refs' = [refs EXCEPT ![h] = @ - 1]
     /\ freed' = freed \cup Deallocated({h})
     /\ inCache' = inCache \ {h} /\ inUse' = inUse \ {h} /\ lru' = Without(lru, h)
     /\ usage' = usage - charge[h]
     /\ UNCHANGED <<capacity, key, charge, made, holder, opening>>

\* mutant: the charges stay
PruneKeepsUsage ==
  LET gone == Elements(lru)
  IN /\ gone # {}
     /\ table' = [k \in Keys |-> IF table[k] \in gone THEN None ELSE table[k]]
     /\ refs' = [h \in Handles |-> IF h \in gone THEN refs[h] - 1 ELSE refs[h]]
     /\ freed' = freed \cup Deallocated(gone)
     /\ inCache' = inCache \ gone /\ lru' = <<>>
     /\ UNCHANGED <<capacity, key, charge, made, inUse, usage, holder, opening>>

Prune ==
  LET gone == Elements(lru)
  IN /\ gone # {}
     /\ table' = [k \in Keys |-> IF table[k] \in gone THEN None ELSE table[k]]
     /\ refs' = [h \in Handles |-> IF h \in gone THEN refs[h] - 1 ELSE refs[h]]
     /\ freed' = freed \cup Deallocated(gone)
     /\ inCache' = inCache \ gone /\ lru' = <<>>
     /\ usage' = usage - ChargeOf(gone)
     /\ UNCHANGED <<capacity, key, charge, made, inUse, holder, opening>>

Next ==
  \/ \E c \in Clients, k \in Keys : Lookup(c, k) \/ Miss(c, k)
  \/ \E c \in Clients : OpenFails(c) \/ Release(c)
  \/ \E c \in Clients, h \in Handles, n \in Charges : Insert(c, h, n) \/ InsertUncached(c, h, n)
  \/ \E k \in Keys : Erase(k)
  \/ Prune

Spec == Init /\ [][Next]_vars

----------------------------------------------------------------------------
(* Properties                                                              *)

TypeOK ==
  /\ capacity \in Capacities
  /\ table \in [Keys -> Handles \cup {None}]
  /\ key \in [Handles -> Keys \cup {None}] /\ charge \in [Handles -> Nat] /\ refs \in [Handles -> Nat]
  /\ inCache \subseteq made /\ lru \in Seq(Handles) /\ inUse \subseteq Handles
  /\ usage \in Nat
  /\ made \subseteq Handles /\ freed \subseteq made
  /\ holder \in [Clients -> Handles \cup {None}]
  /\ opening \in [Clients -> Keys \cup {None}]

Holders(h) == {c \in Clients : holder[c] = h}

\* A handle's references are the clients that hold it and the cache.
RefsAreCounted ==
  \A h \in Handles : refs[h] = Cardinality(Holders(h)) + (IF h \in inCache THEN 1 ELSE 0)

\* An entry is deleted when nobody refers to it, and not before: no client holds
\* and no key finds a deleted table, and none is left open that nobody can reach.
DeletedWhenUnused ==
  /\ \A c \in Clients : holder[c] # None => holder[c] \in made \ freed
  /\ inCache \cap freed = {}
  /\ \A h \in made \ freed : h \in inCache \/ Holders(h) # {}

\* The assertions of the file: the entries of the cache are on the list that
\* tells whether clients hold them, once, the table finds each by its key, and
\* the usage is what they charge; the references are those of the clients and of
\* the cache.
CacheIsConsistent ==
  /\ TypeOK /\ RefsAreCounted
  /\ usage = ChargeOf(inCache)
  /\ Elements(lru) = {h \in inCache : refs[h] = 1}
  /\ \A i, j \in DOMAIN lru : lru[i] = lru[j] => i = j
  /\ inUse = {h \in inCache : refs[h] >= 2}
  /\ \A h \in inCache : table[key[h]] = h
  /\ \A k \in Keys : table[k] # None => table[k] \in inCache /\ key[table[k]] = k

\* An insertion evicts the entries that have been idle for the longest time, no
\* more of them than it takes, and keeps within the capacity unless all that is
\* left is in use.
EvictsTheOldest ==
  [][made' # made /\ capacity > 0 =>
       LET replaced == {h \in Elements(lru) : \E g \in made' \ made : key[h] = key'[g]}
           left == Elements(lru')
           evicted == {i \in DOMAIN lru : lru[i] \notin replaced \cup left}
       IN /\ left \subseteq Elements(lru) \ replaced
          /\ \A i, j \in DOMAIN lru' :
               i < j => \E p, q \in DOMAIN lru : p < q /\ lru[p] = lru'[i] /\ lru[q] = lru'[j]
          /\ \A i \in evicted : \A j \in DOMAIN lru : lru[j] \in left => i < j
          /\ \A i \in evicted : (\A j \in evicted : j <= i) => usage' + charge[lru[i]] > capacity
          /\ usage' > capacity => left = {}]_vars
=============================================================================
