---------------------------- MODULE KVStoreProofs ----------------------------
(***************************************************************************)
(* DBImpl implements KVStore, for every number of threads, keys, failures  *)
(* and deaths of the process: whatever the writers' queue, the memtable    *)
(* switches, the flushes, the compactions and the recoveries do, a client  *)
(* sees a store whose batches take effect at one instant.  The argument:   *)
(*   - entries that are As New as others show every reader the same store; *)
(*   - View, an invariant beside the five of DBImplProofs, relates what    *)
(*     the memtables, the log, the tables and the MANIFEST hold;           *)
(*   - with them, every step of DBImpl is a step of KVStore or leaves it   *)
(*     alone: one lemma per action, <action>View.                          *)
(***************************************************************************)
EXTENDS DBImplProofs

-----------------------------------------------------------------------------
(* What a reader sees of a set of entries.                                 *)

(* A key without an entry has no value.                                    *)
LEMMA NothingSeen ==
  ASSUME NEW E, NEW k, NEW s, \A e \in E : ~(e.key = k /\ e.seq <= s)
  PROVE  Lookup(E, k, s) = None
<1>1. {e \in E : e.key = k /\ e.seq <= s} = {}
  OBVIOUS
<1> QED
  BY <1>1 DEF Lookup

(* Otherwise it has that of the newest.                                    *)
LEMMA NewestSeen ==
  ASSUME NEW A, Good(A), NEW E, E \subseteq A, NEW k, NEW s,
         NEW x \in E, x.key = k, x.seq <= s,
         \A e \in E : e.key = k /\ e.seq <= s => e.seq <= x.seq
  PROVE  Lookup(E, k, s) = x.val
<1> DEFINE seen == {e \in E : e.key = k /\ e.seq <= s}
           y == CHOOSE e \in seen : \A f \in seen : f.seq <= e.seq
<1>1. x \in seen /\ \A f \in seen : f.seq <= x.seq
  OBVIOUS
<1>2. y \in seen /\ \A f \in seen : f.seq <= y.seq
  BY <1>1
<1>3. x.seq <= y.seq /\ y.seq <= x.seq /\ x \in A /\ y \in A
  BY <1>1, <1>2
<1>4. x.seq \in Nat /\ y.seq \in Nat
  BY <1>3 DEF Good, Entry
<1>5. x.seq = y.seq
  BY <1>3, <1>4
<1>6. x = y
  BY <1>3, <1>5 DEF Good
<1>7. seen # {}
  BY <1>1
<1> HIDE DEF seen
<1>8. Lookup(E, k, s) = IF seen = {} THEN None ELSE y.val
  BY DEF Lookup, seen
<1> QED
  BY <1>6, <1>7, <1>8

(* There is a newest one if there is any.                                  *)
IsNewest(x, E, k, s) ==
  x \in E /\ x.key = k /\ x.seq <= s /\ \A f \in E : f.key = k /\ f.seq <= s => f.seq <= x.seq
LEMMA NewestThere ==
  ASSUME NEW A, Good(A), NEW E, E \subseteq A, NEW k, NEW s, \E e \in E : e.key = k /\ e.seq <= s
  PROVE  \E x : IsNewest(x, E, k, s)
<1> DEFINE S == {f.seq : f \in {g \in E : g.key = k /\ g.seq <= s}}
<1>1. PICK b \in Nat : \A f \in A : f.seq <= b
  BY DEF Good
<1>2. \A f \in E : f.seq \in Nat /\ f.seq <= b
  BY <1>1 DEF Good, Entry
<1>3. S \in SUBSET Nat /\ S # {} /\ \A n \in S : n <= b
  BY <1>2
<1>4. Max(S) \in S /\ \A n \in S : n <= Max(S)
  BY <1>3, Greatest
<1>5. PICK x \in E : x.key = k /\ x.seq <= s /\ x.seq = Max(S)
  BY <1>4
<1>6. \A f \in E : f.key = k /\ f.seq <= s => f.seq \in S
  OBVIOUS
<1> HIDE DEF S
<1>7. IsNewest(x, E, k, s)
  BY <1>4, <1>5, <1>6 DEF IsNewest
<1> QED
  BY <1>7

(* The entries of E up to s are as new as those of F up to t.              *)
AsNewFor(k, E, s, F, t) ==
  \A f \in F : f.key = k /\ f.seq <= t => \E e \in E : e.key = k /\ f.seq <= e.seq /\ e.seq <= s
AsNew(E, s, F, t) ==
  \A f \in F : f.seq <= t => \E e \in E : e.key = f.key /\ f.seq <= e.seq /\ e.seq <= s

(* Of two sets that are as new as each other, a reader sees the same.      *)
LEMMA SameValue ==
  ASSUME NEW A, Good(A), NEW E, E \subseteq A, NEW F, F \subseteq A, NEW s, NEW t, NEW k,
         AsNewFor(k, E, s, F, t), AsNewFor(k, F, t, E, s)
  PROVE  Lookup(E, k, s) = Lookup(F, k, t)
<1>1. CASE \A e \in E : ~(e.key = k /\ e.seq <= s)
  <2>1. \A f \in F : ~(f.key = k /\ f.seq <= t)
    BY <1>1 DEF AsNewFor
  <2> QED
    BY <1>1, <2>1, NothingSeen
<1>2. ASSUME NEW e \in E, e.key = k, e.seq <= s
      PROVE  Lookup(E, k, s) = Lookup(F, k, t)
  <2>0. PICK x : IsNewest(x, E, k, s)
    BY <1>2, NewestThere
  <2>1. /\ x \in E /\ x.key = k /\ x.seq <= s
        /\ \A g \in E : g.key = k /\ g.seq <= s => g.seq <= x.seq
    BY <2>0 DEF IsNewest
  <2>2. PICK y \in F : y.key = k /\ x.seq <= y.seq /\ y.seq <= t
    BY <2>1 DEF AsNewFor
  <2>3. PICK z \in E : z.key = k /\ y.seq <= z.seq /\ z.seq <= s
    BY <2>2 DEF AsNewFor
  <2>4. x.seq \in Nat /\ y.seq \in Nat /\ z.seq \in Nat /\ x \in A /\ y \in A
    BY <2>1, <2>2, <2>3 DEF Good, Entry
  <2>5. x.seq = y.seq
    BY <2>1, <2>2, <2>3, <2>4
  <2>6. x = y
    BY <2>4, <2>5 DEF Good
  <2>7. ASSUME NEW f \in F, f.key = k, f.seq <= t
        PROVE  f.seq <= y.seq
    <3>1. PICK g \in E : g.key = k /\ f.seq <= g.seq /\ g.seq <= s
      BY <2>7 DEF AsNewFor
    <3>2. f.seq \in Nat /\ g.seq \in Nat
      BY <2>7, <3>1 DEF Good, Entry
    <3> QED
      BY <2>1, <2>4, <2>5, <3>1, <3>2
  <2>8. Lookup(E, k, s) = x.val
    BY <2>1, NewestSeen
  <2>9. Lookup(F, k, t) = y.val
    BY <2>2, <2>7, NewestSeen
  <2> QED
    BY <2>6, <2>8, <2>9
<1> QED
  BY <1>1, <1>2

LEMMA SameView ==
  ASSUME NEW A, Good(A), NEW E, E \subseteq A, NEW F, F \subseteq A, NEW s, NEW t,
         AsNew(E, s, F, t), AsNew(F, t, E, s)
  PROVE  Visible(E, s) = Visible(F, t)
<1>1. ASSUME NEW k PROVE Lookup(E, k, s) = Lookup(F, k, t)
  <2>1. AsNewFor(k, E, s, F, t) /\ AsNewFor(k, F, t, E, s)
    BY DEF AsNew, AsNewFor
  <2> QED
    BY <2>1, SameValue
<1> QED
  BY <1>1 DEF Visible

NewestOf(S) == CHOOSE e \in S : \A f \in S : f.seq <= e.seq

(* A reader does not see what is newer.                                    *)
LEMMA NewerUnseen ==
  ASSUME NEW E, NEW F, NEW s, \A e \in E \union F : e.seq <= s => e \in E /\ e \in F
  PROVE  Visible(E, s) = Visible(F, s)
<1>1. ASSUME NEW k PROVE Lookup(E, k, s) = Lookup(F, k, s)
  <2> DEFINE one == {e \in E : e.key = k /\ e.seq <= s}
             two == {e \in F : e.key = k /\ e.seq <= s}
  <2>1. one = two
    OBVIOUS
  <2>2. /\ Lookup(E, k, s) = IF one = {} THEN None ELSE NewestOf(one).val
        /\ Lookup(F, k, s) = IF two = {} THEN None ELSE NewestOf(two).val
    BY DEF Lookup, NewestOf
  <2> HIDE DEF one, two
  <2> QED
    BY <2>1, <2>2
<1> QED
  BY <1>1 DEF Visible

-----------------------------------------------------------------------------
(* What a batch of writes does to what a reader sees.                      *)

(* A later entry is of a later call.                                       *)
InOrder(X) == \A e, f \in X : e.seq <= f.seq => e.val <= f.val
(* The entries X are the updates of the calls W.                           *)
Wrote(X, W) ==
  \A k \in Keys, i \in Nat :
    (\E e \in X : e.key = k /\ e.val = i) <=> (\E w \in W : k \in w.keys /\ w.id = i)

LEMMA MaxIs ==
  ASSUME NEW S \in SUBSET Nat, NEW v \in S, \A n \in S : n <= v
  PROVE  Max(S) = v
<1>1. Max(S) \in S /\ \A n \in S : n <= Max(S)
  BY Greatest
<1>2. Max(S) <= v /\ v <= Max(S) /\ Max(S) \in Nat /\ v \in Nat
  BY <1>1
<1> QED
  BY <1>2

(* The entries F show the calls W over what E showed.                      *)
LEMMA Committed ==
  ASSUME NEW A, Good(A), NEW E, E \subseteq A, NEW X, X \subseteq A, NEW F, F \subseteq A,
         NEW s, NEW t, NEW W, \A w \in W : w.id \in Nat, InOrder(X), Wrote(X, W),
         \A x \in X : x.seq <= t /\ \A e \in E : e.seq <= s => e.seq < x.seq,
         AsNew(F, t, E, s), AsNew(F, t, X, t),
         \A f \in F : f.seq <= t =>
           \/ \E x \in X : x.key = f.key /\ f.seq <= x.seq
           \/ \E e \in E : e.key = f.key /\ f.seq <= e.seq /\ e.seq <= s
  PROVE  Visible(F, t) = KV!Apply(Visible(E, s), W)
<1> DEFINE ids(k) == {w.id : w \in {x \in W : k \in x.keys}}
<1>1. ASSUME NEW k \in Keys, \A x \in X : x.key # k
      PROVE  ids(k) = {} /\ Lookup(F, k, t) = Lookup(E, k, s)
  <2>1. ids(k) = {}
    BY <1>1 DEF Wrote
  <2>2. AsNewFor(k, E, s, F, t)
    BY <1>1 DEF AsNewFor
  <2>3. AsNewFor(k, F, t, E, s)
    BY DEF AsNew, AsNewFor
  <2> QED
    BY <2>1, <2>2, <2>3, SameValue
<1>2. ASSUME NEW k \in Keys, NEW x0 \in X, x0.key = k
      PROVE  ids(k) # {} /\ Lookup(F, k, t) = Max(ids(k))
  <2>1. PICK x : IsNewest(x, X, k, t)
    <3>1. \E e \in X : e.key = k /\ e.seq <= t
      BY <1>2
    <3> QED
      BY <3>1, NewestThere
  <2>2. /\ x \in X /\ x.key = k /\ x.seq <= t
        /\ \A g \in X : g.key = k => g.seq <= x.seq
    BY <2>1 DEF IsNewest
  <2>3. ASSUME NEW f \in F, f.key = k, f.seq <= t
        PROVE  f.seq <= x.seq
    <3>1. CASE \E y \in X : y.key = f.key /\ f.seq <= y.seq
      <4>1. PICK y \in X : y.key = f.key /\ f.seq <= y.seq
        BY <3>1
      <4>2. y.seq <= x.seq /\ y \in A /\ x \in A /\ f \in A
        BY <2>2, <2>3, <4>1
      <4>3. y.seq \in Nat /\ x.seq \in Nat /\ f.seq \in Nat
        BY <4>2 DEF Good, Entry
      <4> QED
        BY <4>1, <4>2, <4>3
    <3>2. CASE \E e \in E : e.key = f.key /\ f.seq <= e.seq /\ e.seq <= s
      <4>1. PICK y \in E : y.key = f.key /\ f.seq <= y.seq /\ y.seq <= s
        BY <3>2
      <4>2. y.seq < x.seq /\ y \in A /\ x \in A /\ f \in A
        BY <2>2, <2>3, <4>1
      <4>3. y.seq \in Nat /\ x.seq \in Nat /\ f.seq \in Nat
        BY <4>2 DEF Good, Entry
      <4> QED
        BY <4>1, <4>2, <4>3
    <3> QED
      BY <2>3, <3>1, <3>2
  <2>4. PICK y \in F : y.key = k /\ x.seq <= y.seq /\ y.seq <= t
    BY <2>2 DEF AsNew
  <2>5. y.seq <= x.seq /\ x \in A /\ y \in A
    BY <2>2, <2>3, <2>4
  <2>6. x.seq \in Nat /\ y.seq \in Nat
    BY <2>5 DEF Good, Entry
  <2>7. x.seq = y.seq
    BY <2>4, <2>5, <2>6
  <2>8. x = y
    BY <2>5, <2>7 DEF Good
  <2>9. Lookup(F, k, t) = x.val
    <3>1. x \in F /\ x.key = k /\ x.seq <= t
      BY <2>2, <2>4, <2>8
    <3>2. \A f \in F : f.key = k /\ f.seq <= t => f.seq <= x.seq
      BY <2>3
    <3>3. Good(A) /\ F \subseteq A
      OBVIOUS
    <3> HIDE DEF ids
    <3> QED
      BY ONLY <3>1, <3>2, <3>3, NewestSeen
  <2>10. x.val \in Nat /\ \A e \in X : e.val \in Nat /\ e.seq \in Nat
    BY <2>2 DEF Good, Entry
  <2>11. x.val \in ids(k)
    BY <2>2, <2>10 DEF Wrote
  <2>12. ASSUME NEW n \in ids(k)
         PROVE  n \in Nat /\ n <= x.val
    <3>1. PICK w \in W : k \in w.keys /\ w.id = n
      BY <2>12
    <3>2. n \in Nat
      BY <3>1
    <3>3. PICK e \in X : e.key = k /\ e.val = n
      BY <3>1, <3>2 DEF Wrote
    <3>4. e.val <= x.val
      BY <2>2, <3>3 DEF InOrder
    <3> QED
      BY <3>2, <3>3, <3>4
  <2>13. Max(ids(k)) = x.val
    <3> HIDE DEF ids
    <3>1. ids(k) \in SUBSET Nat
      BY <2>12
    <3> QED
      BY <2>11, <2>12, <3>1, MaxIs
  <2> QED
    BY <2>9, <2>11, <2>13
<1>3. ASSUME NEW k \in Keys
      PROVE  Lookup(F, k, t) = IF ids(k) = {} THEN Lookup(E, k, s) ELSE Max(ids(k))
  <2> HIDE DEF ids
  <2> QED
    BY <1>1, <1>2
<1>4. KV!Apply(Visible(E, s), W) =
        [k \in Keys |-> IF ids(k) = {} THEN Visible(E, s)[k] ELSE Max(ids(k))]
  <2>1. \A S : KV!Max(S) = Max(S)
    BY DEF KV!Max, Max
  <2>2. KV!Apply(Visible(E, s), W) =
        [k \in Keys |-> IF ids(k) = {} THEN Visible(E, s)[k] ELSE KV!Max(ids(k))]
    BY DEF KV!Apply
  <2> HIDE DEF ids
  <2> QED
    BY <2>1, <2>2
<1>5. \A k \in Keys : Visible(E, s)[k] = Lookup(E, k, s)
  BY DEF Visible
<1> HIDE DEF ids
<1>6. Visible(F, t) = [k \in Keys |-> Lookup(F, k, t)]
  BY DEF Visible
<1> QED
  BY <1>3, <1>4, <1>5, <1>6

(* A compaction keeps what a reader sees who is not older than its oldest. *)
LEMMA CompactedAsNew ==
  ASSUME NEW A, Good(A), NEW E, E \subseteq A, NEW oldest \in Nat, NEW s \in Nat, oldest <= s
  PROVE  AsNew(Compacted(E, oldest), s, E, s)
<1> SUFFICES ASSUME NEW f \in E, f.seq <= s
             PROVE  \E e \in Compacted(E, oldest) : e.key = f.key /\ f.seq <= e.seq /\ e.seq <= s
  BY DEF AsNew
<1>1. PICK x : IsNewest(x, E, f.key, s)
  <2>1. \E e \in E : e.key = f.key /\ e.seq <= s
    OBVIOUS
  <2> QED
    BY <2>1, NewestThere
<1>2. /\ x \in E /\ x.key = f.key /\ x.seq <= s
      /\ \A g \in E : g.key = f.key /\ g.seq <= s => g.seq <= x.seq
  BY <1>1 DEF IsNewest
<1>3. ASSUME NEW g \in E, g.key = x.key, g.seq > x.seq, g.seq <= oldest
      PROVE  FALSE
  <2>1. g.seq \in Nat /\ x.seq \in Nat
    BY <1>2 DEF Good, Entry
  <2>2. g.seq <= s
    BY <1>3, <2>1
  <2> QED
    BY <1>2, <1>3, <2>1, <2>2
<1>4. x \in Compacted(E, oldest)
  BY <1>2, <1>3 DEF Compacted
<1> QED
  BY <1>2, <1>4

-----------------------------------------------------------------------------
(* The steps of KVStore.                                                   *)

Waiting == {x \in Writers : op[x] # None}
CallOf(w) == [id |-> op[w].id, keys |-> ToSet(op[w].batch)]
CallsNow == {CallOf(w) : w \in Waiting}
WritesOf(X) == {[id |-> i, keys |-> {e.key : e \in {f \in X : f.val = i}}] : i \in {e.val : e \in X}}
SnapsNow == [r \in Readers |-> IF snaps[r] = None THEN None ELSE Visible(Newest, snaps[r])]
Reads(r) == MemEntries(gets[r].mem) \union MemEntries(gets[r].imm) \union EntriesOf(gets[r].version)
GetsNow == [r \in Readers |-> IF gets[r] = None THEN None ELSE Visible(Reads(r), gets[r].seq)]
LimboNow == WritesOf(FailedInLog)

LEMMA StoreSame ==
  ASSUME UNCHANGED <<StoreNow, CallsNow, LimboNow, SnapsNow, GetsNow>>
  PROVE  UNCHANGED KV!vars
BY DEF KV!vars, CallsNow, LimboNow, SnapsNow, GetsNow, CallOf, WritesOf, Reads, Waiting

LEMMA StoreCalls ==
  ASSUME UNCHANGED <<StoreNow, LimboNow, SnapsNow, GetsNow>>,
         NEW id \in 1..MaxWrites, NEW ks \in SUBSET Keys, \A c \in CallsNow \union LimboNow : c.id < id,
         CallsNow' = CallsNow \union {[id |-> id, keys |-> ks]}
  PROVE  KV!Next
<1>1. KV!Call
  BY DEF KV!Call, CallsNow, LimboNow, SnapsNow, GetsNow, CallOf, WritesOf, Reads, Waiting
<1> QED
  BY <1>1 DEF KV!Next

LEMMA StoreCommits ==
  ASSUME UNCHANGED <<LimboNow, SnapsNow, GetsNow>>,
         NEW W \in SUBSET CallsNow, W # {}, \A w \in W, c \in CallsNow \ W : w.id < c.id,
         StoreNow' = KV!Apply(StoreNow, W), CallsNow' = CallsNow \ W
  PROVE  KV!Next
<1>1. KV!Commit
  BY DEF KV!Commit, CallsNow, LimboNow, SnapsNow, GetsNow, CallOf, WritesOf, Reads, Waiting
<1> QED
  BY <1>1 DEF KV!Next

LEMMA StoreFails ==
  ASSUME UNCHANGED <<StoreNow, SnapsNow, GetsNow>>,
         NEW W \in SUBSET CallsNow, W # {}, NEW T \in SUBSET W,
         CallsNow' = CallsNow \ W, LimboNow' = LimboNow \union T
  PROVE  KV!Next
<1>1. KV!Fail
  BY DEF KV!Fail, CallsNow, LimboNow, SnapsNow, GetsNow, CallOf, WritesOf, Reads, Waiting
<1> QED
  BY <1>1 DEF KV!Next

LEMMA StoreCrashes ==
  ASSUME NEW W \in SUBSET (CallsNow \union LimboNow), StoreNow' = KV!Apply(StoreNow, W),
         CallsNow' = {}, LimboNow' = {},
         SnapsNow' = [r \in Readers |-> None], GetsNow' = [r \in Readers |-> None]
  PROVE  KV!Next
<1>1. KV!Crash
  BY DEF KV!Crash, CallsNow, LimboNow, SnapsNow, GetsNow, CallOf, WritesOf, Reads, Waiting
<1> QED
  BY <1>1 DEF KV!Next

LEMMA StoreReads ==
  ASSUME UNCHANGED <<StoreNow, CallsNow, LimboNow>>, NEW r \in Readers,
         \/ UNCHANGED GetsNow /\ SnapsNow[r] = None /\ SnapsNow' = [SnapsNow EXCEPT ![r] = StoreNow]
         \/ UNCHANGED GetsNow /\ SnapsNow' = [SnapsNow EXCEPT ![r] = None]
         \/ /\ UNCHANGED SnapsNow /\ GetsNow[r] = None
            /\ GetsNow' = [GetsNow EXCEPT ![r] = IF SnapsNow[r] = None THEN StoreNow ELSE SnapsNow[r]]
         \/ UNCHANGED SnapsNow /\ GetsNow' = [GetsNow EXCEPT ![r] = None]
  PROVE  KV!Next
<1>1. CASE UNCHANGED GetsNow /\ SnapsNow[r] = None /\ SnapsNow' = [SnapsNow EXCEPT ![r] = StoreNow]
  <2>1. KV!TakeSnapshot(r)
    BY <1>1 DEF KV!TakeSnapshot, CallsNow, LimboNow, SnapsNow, GetsNow, CallOf, WritesOf, Reads, Waiting
  <2> QED
    BY <2>1 DEF KV!Next
<1>2. CASE UNCHANGED GetsNow /\ SnapsNow' = [SnapsNow EXCEPT ![r] = None]
  <2>1. KV!ReleaseSnapshot(r)
    BY <1>2 DEF KV!ReleaseSnapshot, CallsNow, LimboNow, SnapsNow, GetsNow, CallOf, WritesOf, Reads, Waiting
  <2> QED
    BY <2>1 DEF KV!Next
<1>3. CASE /\ UNCHANGED SnapsNow /\ GetsNow[r] = None
           /\ GetsNow' = [GetsNow EXCEPT ![r] = IF SnapsNow[r] = None THEN StoreNow ELSE SnapsNow[r]]
  <2>1. KV!BeginGet(r)
    BY <1>3 DEF KV!BeginGet, CallsNow, LimboNow, SnapsNow, GetsNow, CallOf, WritesOf, Reads, Waiting
  <2> QED
    BY <2>1 DEF KV!Next
<1>4. CASE UNCHANGED SnapsNow /\ GetsNow' = [GetsNow EXCEPT ![r] = None]
  <2>1. KV!EndGet(r)
    BY <1>4 DEF KV!EndGet, CallsNow, LimboNow, SnapsNow, GetsNow, CallOf, WritesOf, Reads, Waiting
  <2> QED
    BY <2>1 DEF KV!Next
<1> QED
  BY <1>1, <1>2, <1>3, <1>4

-----------------------------------------------------------------------------
(* The sixth invariant: what readers and the store of KVStore see.         *)

(* The calls have the ids of their order in the queue.                     *)
QueueIds ==
  /\ \A w \in Writers : op[w] # None => op[w].id <= spent.writes
  /\ \A i, j \in 1..Len(writers) : i < j => op[writers[i]].id < op[writers[j]].id
(* A group holds the updates of its members' calls, and inserts those that *)
(* are in the log.                                                         *)
CallsOf(q) == {CallOf(w) : w \in ToSet(q)}
Inserted == IF group = None THEN {} ELSE {group.entries[i] : i \in 1..group.inserted}
Logged ==
  group # None /\ (group.step \in {"sync", "insert", "syncError"} \/ (group.step = "end" /\ group.ok = TRUE))
GroupView ==
  group # None =>
    /\ InOrder(InFlight) /\ Wrote(InFlight, CallsOf(group.members))
    /\ group.ok = FALSE => group.inserted = 0
    /\ group.step = "end" /\ group.ok = TRUE => group.inserted = Len(group.entries)
(* What the log has and the memtable has not, when no group is under way:  *)
(* the updates of a group whose sync failed.                               *)
Bad == RecordsOf(mem) \ (memtable[mem] \union InFlight)
LogView ==
  /\ logNumber = (IF imm = 0 THEN mem ELSE imm)
  /\ \A n \in DOMAIN logs : n >= logNumber => n \in {imm, mem}
  /\ imm # 0 => imm \in DOMAIN logs /\ RecordsOf(imm) = memtable[imm]
  /\ Inserted \subseteq memtable[mem]
  /\ \A e \in memtable[mem] : e.seq <= lastSeq \/ e \in Inserted
  /\ memtable[mem] \subseteq RecordsOf(mem)
  /\ Logged => InFlight \subseteq RecordsOf(mem)
  /\ group # None /\ ~Logged => \A e \in RecordsOf(mem) : e.seq <= lastSeq
BadView ==
  Bad # {} =>
    /\ bgError = TRUE /\ group = None /\ InOrder(Bad)
    /\ \A e \in Bad : e.seq <= lastSeq /\ e.val <= spent.writes /\ \A f \in Newest : f.seq < e.seq
(* What readers refer to, the current compaction keeps.                    *)
ReadersView ==
  /\ \A r \in Readers : snaps[r] # None =>
       snaps[r] \in Nat /\ snaps[r] <= lastSeq /\ (merge # None => merge.oldest <= snaps[r])
  /\ merge # None => merge.oldest \in Nat /\ merge.oldest <= lastSeq
  /\ \A r \in Readers : gets[r] # None =>
       /\ gets[r].seq \in Nat /\ gets[r].seq <= lastSeq
       /\ Below(Files(gets[r].version), nextFile) /\ Below({gets[r].mem, gets[r].imm}, nextFile)
       /\ flush # None => flush.number \notin Files(gets[r].version)
       /\ merge # None /\ merge.step # "open" => merge.number \notin Files(gets[r].version)
(* What the MANIFEST m says is as new as what the current version has and, *)
(* when it makes its log obsolete, as imm; and nothing else.               *)
Says(m) ==
  /\ Covers(Content(tables, Files(m.version)), Content(tables, Files(version)))
  /\ imm # 0 /\ m.log > imm => Covers(Content(tables, Files(m.version)), memtable[imm])
  /\ Covers(Content(tables, Files(version)) \union MemEntries(imm), Content(tables, Files(m.version)))
TablesView ==
  /\ Says(manifest)
  /\ flush # None /\ flush.step = "apply" => Content(tables, flush.edit.add0) = MemEntries(imm)
  /\ merge # None => Files(merge.input) \subseteq Files(version)
  /\ merge # None /\ merge.step = "apply" =>
       Content(tables, {merge.number}) = Compacted(Content(tables, Files(merge.input)), merge.oldest)
(* A recovery adds nothing.                                                *)
ReplayView ==
  /\ Replays => Content(tables, flush.made) \union flush.entries \subseteq OnDisk
  /\ Recovers => Content(tables, flush.edit.add0) \subseteq OnDisk
Closed == (\A w \in Writers : op[w] = None) /\ \A r \in Readers : snaps[r] = None
View ==
  /\ QueueIds /\ DOMAIN snaps = Readers /\ ReplayView
  /\ phase = "open" => GroupView /\ LogView /\ BadView /\ ReadersView /\ TablesView
  /\ phase # "open" => Closed

-----------------------------------------------------------------------------
(* What is in the logs, the memtables and the tables.                      *)

RecsOf(l) == UNION ToSet(l.recs)

LEMMA RecordsIn ==
  ASSUME NEW l, LogFile(l)
  PROVE  /\ \A i \in 1..Len(l.recs) : l.recs[i] \subseteq RecsOf(l)
         /\ \A e \in RecsOf(l) : \E i \in 1..Len(l.recs) : e \in l.recs[i]
         /\ \A E : RecsIn(l, E) => RecsOf(l) \subseteq E
<1>1. l.recs \in Seq(SUBSET Entry)
  BY DEF LogFile
<1>2. ToSet(l.recs) = {l.recs[i] : i \in 1..Len(l.recs)}
  BY <1>1 DEF ToSet
<1> QED
  BY <1>2 DEF RecsOf, RecsIn

LEMMA RecordsAppended ==
  ASSUME NEW l, LogFile(l), NEW x, x \subseteq Entry, NEW k, LogFile(k),
         Len(k.recs) = Len(l.recs) + 1, k.recs[Len(l.recs) + 1] = x,
         \A i \in 1..Len(l.recs) : k.recs[i] = l.recs[i]
  PROVE  RecsOf(k) = RecsOf(l) \union x
<1>1. Len(l.recs) \in Nat
  BY DEF LogFile
<1>2. \A i \in 1..Len(l.recs) : i \in 1..Len(k.recs)
  BY <1>1
<1>3. \A i \in 1..Len(k.recs) : i \in 1..Len(l.recs) \/ i = Len(l.recs) + 1
  BY <1>1
<1>4. Len(l.recs) + 1 \in 1..Len(k.recs)
  BY <1>1
<1>5. RecsOf(l) \subseteq RecsOf(k)
  BY <1>2, RecordsIn
<1>6. x \subseteq RecsOf(k)
  BY <1>4, RecordsIn
<1>7. RecsOf(k) \subseteq RecsOf(l) \union x
  BY <1>3, RecordsIn
<1> QED
  BY <1>5, <1>6, <1>7

LEMMA EntriesAre ==
  ASSUME NEW v
  PROVE  EntriesOf(v) = Content(tables, Files(v))
BY DEF EntriesOf, Content

(* Where things are while the database is open.                            *)
LEMMA Opened ==
  ASSUME Sound, Places, phase = "open"
  PROVE  /\ mem \in Nat /\ mem # 0 /\ mem \in DOMAIN logs /\ mem \in DOMAIN memtable /\ mem < nextFile
         /\ imm \in Nat /\ imm < mem /\ (imm # 0 => imm \in DOMAIN memtable)
         /\ nextFile \in Nat /\ logNumber \in Nat /\ manifest.log \in Nat
         /\ logNumber <= manifest.log /\ manifest.log <= mem
         /\ DOMAIN logs \subseteq Nat /\ mem \in LogsToReplay
         /\ \A n \in DOMAIN logs : LogFile(logs[n])
         /\ ~Replays /\ ~Recovers
         /\ Newest = memtable[mem] \union MemEntries(imm) \union Content(tables, Files(version))
<1>1. /\ mem \in Nat /\ mem # 0 /\ mem \in DOMAIN logs /\ mem < nextFile
      /\ imm \in Nat /\ imm < mem
  BY DEF Places, Memtables
<1>2. mem \in DOMAIN memtable /\ (imm # 0 => imm \in DOMAIN memtable)
  BY <1>1, ReferencedTo DEF Places, Memtables
<1>3. /\ logNumber \in Nat /\ manifest.log \in Nat
      /\ logNumber <= manifest.log /\ manifest.log <= mem
      /\ \A n \in DOMAIN logs : LogFile(logs[n])
  BY DEF Places, Logs
<1>4. nextFile \in Nat /\ DOMAIN logs \subseteq Nat
  BY DEF Sound, Numbers
<1>5. mem \in LogsToReplay
  BY <1>1, <1>3 DEF LogsToReplay
<1>6. ~Replays /\ ~Recovers
  BY DEF Replays, Recovers
<1>7. Newest = memtable[mem] \union MemEntries(imm) \union Content(tables, Files(version))
  <2>1. MemEntries(mem) = memtable[mem]
    BY <1>1 DEF MemEntries
  <2> QED
    BY <2>1, EntriesAre DEF Newest
<1> QED
  BY <1>1, <1>2, <1>3, <1>4, <1>5, <1>6, <1>7

(* What a reopening would add to what is in memory is what a failed sync   *)
(* left in the log.                                                        *)
LEMMA FailedIs == Inv /\ View /\ phase = "open" => FailedInLog = Bad
<1> SUFFICES ASSUME Inv, View, phase = "open" PROVE FailedInLog = Bad
  OBVIOUS
<1>1. Sound /\ Places /\ LogView /\ BadView
  BY DEF Inv, View
<1>2. PICK A : Good(A) /\ PoolOf(A)
  BY DEF Inv, Pool
<1>3. memtable[mem] \subseteq Newest /\ (imm # 0 => memtable[imm] \subseteq Newest)
  BY <1>1, Opened DEF MemEntries
<1>4. ASSUME NEW n \in LogsToReplay, n # mem
      PROVE  RecordsOf(n) \subseteq Newest
  <2>1. n \in DOMAIN logs /\ n >= manifest.log /\ n \in Nat
    BY <1>1, Opened DEF LogsToReplay
  <2>2. n >= logNumber
    BY <1>1, <2>1, Opened
  <2>3. n = imm
    BY <1>1, <1>4, <2>1, <2>2 DEF LogView
  <2>4. imm # 0
    BY <1>1, <2>2, <2>3, Opened DEF LogView
  <2> QED
    BY <1>1, <1>3, <2>3, <2>4 DEF LogView
<1>5. RecsIn(logs[mem], A) /\ LogFile(logs[mem])
  BY <1>1, <1>2, Opened DEF PoolOf, Low
<1>6. \A e \in RecordsOf(mem) : e.seq \in Nat
  BY <1>2, <1>5, RecordsAre DEF Good, Entry
<1>7. \A e \in Bad : e \notin Newest
  BY <1>1, <1>6 DEF BadView, Bad
<1>8. mem \in LogsToReplay
  BY <1>1, Opened
<1>9. FailedInLog = {e \in UNION {RecordsOf(n) : n \in LogsToReplay} : e \notin Newest \union InFlight}
  BY DEF FailedInLog
<1>10. ASSUME NEW e \in Bad PROVE e \in FailedInLog
  BY <1>7, <1>8, <1>9, <1>10 DEF Bad
<1>11. ASSUME NEW e \in FailedInLog PROVE e \in Bad
  BY <1>3, <1>4, <1>9, <1>11 DEF Bad
<1> QED
  BY <1>10, <1>11

LEMMA FailedIsThen == Inv' /\ View' /\ phase' = "open" => FailedInLog' = Bad'
<1>1. (Inv /\ View /\ phase = "open" => FailedInLog = Bad)'
  BY FailedIs, PTL
<1> QED
  BY <1>1

-----------------------------------------------------------------------------
(* The updates of a group.                                                 *)

LEMMA Joined ==
  ASSUME NEW R, NEW p \in Seq(R), NEW q \in Seq(R)
  PROVE  /\ p \o q \in Seq(R) /\ Len(p \o q) = Len(p) + Len(q) /\ Len(p) \in Nat /\ Len(q) \in Nat
         /\ \A a \in 1..Len(p) : (p \o q)[a] = p[a]
         /\ \A b \in 1..Len(p) + Len(q) : b \notin 1..Len(p) => b - Len(p) \in 1..Len(q) /\ (p \o q)[b] = q[b - Len(p)]
         /\ ToSet(p \o q) = ToSet(p) \union ToSet(q)
<1>1. /\ p \o q \in Seq(R) /\ Len(p \o q) = Len(p) + Len(q) /\ Len(p) \in Nat /\ Len(q) \in Nat
      /\ DOMAIN p = 1..Len(p) /\ DOMAIN q = 1..Len(q) /\ DOMAIN (p \o q) = 1..Len(p) + Len(q)
  BY ConcatProperties
<1>2. \A i \in 1..Len(p) + Len(q) : (p \o q)[i] = IF i <= Len(p) THEN p[i] ELSE q[i - Len(p)]
  BY ConcatProperties
<1>3. \A a \in 1..Len(p) : a \in 1..Len(p) + Len(q) /\ (p \o q)[a] = p[a]
  BY <1>1, <1>2
<1>4. \A b \in 1..Len(p) + Len(q) : b \notin 1..Len(p) => b - Len(p) \in 1..Len(q) /\ (p \o q)[b] = q[b - Len(p)]
  BY <1>1, <1>2
<1>5. \A b \in 1..Len(q) : Len(p) + b \in 1..Len(p) + Len(q) /\ (p \o q)[Len(p) + b] = q[b]
  <2> SUFFICES ASSUME NEW b \in 1..Len(q)
               PROVE  Len(p) + b \in 1..Len(p) + Len(q) /\ (p \o q)[Len(p) + b] = q[b]
    OBVIOUS
  <2>1. Len(p) + b \in 1..Len(p) + Len(q) /\ ~(Len(p) + b <= Len(p)) /\ (Len(p) + b) - Len(p) = b
    BY <1>1
  <2> QED
    BY <1>2, <2>1
<1>6. ASSUME NEW x \in ToSet(p \o q) PROVE x \in ToSet(p) \union ToSet(q)
  <2>1. PICK i \in 1..Len(p) + Len(q) : x = (p \o q)[i]
    BY <1>1, <1>6 DEF ToSet
  <2> QED
    BY <1>1, <1>3, <1>4, <2>1 DEF ToSet
<1>7. ASSUME NEW x \in ToSet(p) \union ToSet(q) PROVE x \in ToSet(p \o q)
  BY <1>1, <1>3, <1>5, <1>7 DEF ToSet
<1>8. ToSet(p \o q) = ToSet(p) \union ToSet(q)
  BY <1>6, <1>7
<1> QED
  BY <1>1, <1>3, <1>4, <1>8

(* Parts of increasing value, one after the other.                         *)
Ascending(q) == \A a, b \in 1..Len(q) : a <= b => q[a].val <= q[b].val
UpTo(s, i) == UNION {ToSet(s[j]) : j \in 1..i}
LEMMA FlattenedInOrder ==
  ASSUME NEW R, NEW s \in Seq(Seq(R)), Len(s) >= 1,
         NEW id, \A i \in 1..Len(s) : id[i] \in Nat /\ \A r \in ToSet(s[i]) : r.val = id[i],
         \A i, j \in 1..Len(s) : i < j => id[i] < id[j]
  PROVE  ToSet(FlattenSeq(s)) = UpTo(s, Len(s)) /\ Ascending(FlattenSeq(s))
<1> DEFINE N == Len(s)
           F(f) == [i \in 1..N |-> IF i = 1 THEN s[i] ELSE f[i - 1] \o s[i]]
           h == CHOOSE f : f = F(f)
<1>1. N \in Nat /\ N # 0 /\ \A i \in 1..N : s[i] \in Seq(R)
  OBVIOUS
<1>2. \E f : f = F(f)
  <2>3. N <= Len(s) /\ N \in Nat
    OBVIOUS
  <2>1. PICK g \in [1..N -> Seq(R)] : Flattens(g, s, N)
    <3> HIDE DEF N
    <3> QED
      BY <2>3, SomethingFlattens
  <2>2. g = F(g)
    BY <2>1 DEF Flattens
  <2> QED
    BY <2>2
<1>3. h = F(h)
  <2> HIDE DEF F
  <2> QED
    BY <1>2
<1>4. FlattenSeq(s) = h[N]
  BY <1>1 DEF FlattenSeq
<1> HIDE DEF h
<1>5. Flattens(h, s, N)
  BY <1>3 DEF Flattens
<1> HIDE DEF N
<1> DEFINE Fine(i) == h[i] \in Seq(R) /\ ToSet(h[i]) = UpTo(s, i) /\ Ascending(h[i])
           Wrong == {k \in 1..N : ~Fine(k)}
<1>6. CASE Wrong = {}
  <2>1. N \in 1..N
    BY <1>1
  <2>2. Fine(N)
    BY <2>1, <1>6
  <2> QED
    BY <2>2, <1>4 DEF N
<1>7. CASE Wrong # {}
  <2>1. PICK m \in Wrong : \A k \in Wrong : m <= k
    <3>1. Wrong \in SUBSET Nat
      BY <1>1
    <3> HIDE DEF Wrong
    <3> QED
      BY <1>7, <3>1, LeastNumber
  <2>2. m \in 1..N /\ ~Fine(m)
    OBVIOUS
  <2>3. s[m] \in Seq(R) /\ id[m] \in Nat /\ \A r \in ToSet(s[m]) : r.val = id[m]
    BY <1>1, <2>2 DEF N
  <2>4. \A a \in 1..Len(s[m]) : s[m][a] \in ToSet(s[m])
    BY <2>3 DEF ToSet
  <2>5. Ascending(s[m])
    <3>1. \A a \in 1..Len(s[m]) : s[m][a].val = id[m]
      BY <2>3, <2>4
    <3> HIDE DEF Fine, Wrong
    <3> QED
      BY <2>3, <3>1 DEF Ascending
  <2>6. CASE m = 1
    <3>1. h[m] = s[m]
      BY <1>5, <2>2, <2>6 DEF Flattens
    <3>2. UpTo(s, m) = ToSet(s[m])
      BY <2>6 DEF UpTo
    <3> QED
      BY <2>2, <2>3, <2>5, <3>1, <3>2
  <2>7. CASE m # 1
    <3>1. m - 1 \in 1..N /\ ~(m <= m - 1)
      BY <1>1, <2>2, <2>7
    <3>6. m - 1 \notin Wrong
      <4> HIDE DEF Wrong
      <4> QED
        BY <2>1, <3>1
    <3>2. Fine(m - 1)
      BY <3>1, <3>6
    <3> DEFINE p == h[m - 1]
               q == s[m]
    <3>3. h[m] = p \o q
      BY <1>5, <2>2, <2>7 DEF Flattens
    <3>4. p \in Seq(R) /\ q \in Seq(R) /\ ToSet(p) = UpTo(s, m - 1) /\ Ascending(p)
      BY <2>3, <3>2
    <3> HIDE DEF Fine, Wrong
    <3>5. ToSet(p \o q) = UpTo(s, m)
      <4>1. UpTo(s, m) = UpTo(s, m - 1) \union ToSet(s[m])
        <5>1. 1..m = 1..m - 1 \union {m}
          BY <1>1, <2>2
        <5> QED
          BY <5>1 DEF UpTo
      <4> QED
        BY <3>4, <4>1, Joined
    <3>7. \A a \in 1..Len(p) : p[a].val \in Nat /\ p[a].val < id[m]
      <4> SUFFICES ASSUME NEW a \in 1..Len(p) PROVE p[a].val \in Nat /\ p[a].val < id[m]
        OBVIOUS
      <4>1. p[a] \in ToSet(p)
        BY <3>4 DEF ToSet
      <4>2. PICK j \in 1..m - 1 : p[a] \in ToSet(s[j])
        BY <3>4, <4>1 DEF UpTo
      <4>3. j \in 1..N /\ j < m
        BY <1>1, <2>2, <4>2
      <4>4. p[a].val = id[j] /\ id[j] \in Nat /\ id[j] < id[m]
        BY <2>2, <4>2, <4>3 DEF N
      <4> QED
        BY <4>4
    <3>8. Ascending(p \o q)
      <4> SUFFICES ASSUME NEW a \in 1..Len(p \o q), NEW b \in 1..Len(p \o q), a <= b
                   PROVE  (p \o q)[a].val <= (p \o q)[b].val
        BY DEF Ascending
      <4> HIDE DEF p, q
      <4>1. a \in 1..Len(p) + Len(q) /\ b \in 1..Len(p) + Len(q) /\ Len(p) \in Nat /\ Len(q) \in Nat
        BY <3>4, Joined
      <4>2. CASE b \in 1..Len(p)
        <5>1. a \in 1..Len(p)
          BY <4>1, <4>2
        <5>2. (p \o q)[a] = p[a] /\ (p \o q)[b] = p[b]
          BY <3>4, <4>2, <5>1, Joined
        <5> QED
          BY <3>4, <4>2, <5>1, <5>2 DEF Ascending
      <4>3. CASE b \notin 1..Len(p)
        <5>1. b - Len(p) \in 1..Len(q) /\ (p \o q)[b] = q[b - Len(p)]
          BY <3>4, <4>1, <4>3, Joined
        <5>2. q[b - Len(p)].val = id[m]
          BY <2>3, <2>4, <5>1 DEF q
        <5>3. CASE a \in 1..Len(p)
          <6>1. (p \o q)[a] = p[a]
            BY <3>4, <5>3, Joined
          <6> QED
            BY <2>3, <3>7, <5>1, <5>2, <5>3, <6>1
        <5>4. CASE a \notin 1..Len(p)
          <6>1. a - Len(p) \in 1..Len(q) /\ (p \o q)[a] = q[a - Len(p)]
            BY <3>4, <4>1, <5>4, Joined
          <6>2. q[a - Len(p)].val = id[m]
            BY <2>3, <2>4, <6>1 DEF q
          <6> QED
            BY <2>3, <5>1, <5>2, <6>1, <6>2
        <5> QED
          BY <5>3, <5>4
      <4> QED
        BY <4>2, <4>3
    <3>9. p \o q \in Seq(R)
      BY <3>4, Joined
    <3>10. Fine(m)
      <4> HIDE DEF p, q
      <4> QED
        BY <3>3, <3>5, <3>8, <3>9 DEF Fine
    <3> QED
      BY <2>2, <3>10
  <2> QED
    BY <2>6, <2>7
<1> QED
  BY <1>6, <1>7

(* What a group writes are the updates of its members' calls, in order.    *)
LEMMA NumberedUpdates ==
  ASSUME Calls, QueueIds, lastSeq \in Nat, NEW k \in 1..Len(writers), op[writers[1]].batch # <<>>
  PROVE  LET X == ToSet(Numbered(SubSeq(writers, 1, k), lastSeq))
         IN InOrder(X) /\ Wrote(X, CallsOf(SubSeq(writers, 1, k)))
<1> DEFINE q == SubSeq(writers, 1, k)
           part(i) == [j \in DOMAIN op[q[i]].batch |-> [key |-> op[q[i]].batch[j], val |-> op[q[i]].id]]
           parts == [i \in DOMAIN q |-> part(i)]
           R == [key : Keys, val : Nat]
           updates == FlattenSeq(parts)
           es == [i \in DOMAIN updates |-> [key |-> updates[i].key, seq |-> lastSeq + i, val |-> updates[i].val]]
           id == [i \in 1..k |-> op[q[i]].id]
<1>1. /\ writers \in Seq(Writers) /\ q \in Seq(Writers) /\ DOMAIN q = 1..k /\ Len(q) = k /\ k \in Nat /\ k >= 1
      /\ \A i \in 1..k : q[i] = writers[i] /\ i \in 1..Len(writers) /\ writers[i] \in ToSet(writers)
  BY DEF Calls, ToSet
<1>2. \A i \in 1..k : op[q[i]].batch \in Seq(Keys) /\ op[q[i]].id \in Nat
  <2> SUFFICES ASSUME NEW i \in 1..k
               PROVE op[writers[i]].batch \in Seq(Keys) /\ op[writers[i]].id \in Nat
    BY <1>1
  <2>1. Call(op[writers[i]])
    BY <1>1 DEF Calls
  <2> QED
    BY <2>1, BatchIsSequence, BoundsAssumption DEF Call
<1>3. \A i, j \in 1..k : i < j => id[i] < id[j]
  <2> SUFFICES ASSUME NEW i \in 1..k, NEW j \in 1..k, i < j PROVE id[i] < id[j]
    OBVIOUS
  <2>1. id[i] = op[writers[i]].id /\ id[j] = op[writers[j]].id
    BY <1>1
  <2>2. op[writers[i]].id < op[writers[j]].id
    BY <1>1 DEF QueueIds
  <2> QED
    BY <2>1, <2>2
<1>4. Numbered(SubSeq(writers, 1, k), lastSeq) = es
  BY DEF Numbered
<1> HIDE DEF q
<1>5. \A i \in 1..k : /\ part(i) \in Seq(R) /\ \A r \in ToSet(part(i)) : r.val = op[q[i]].id
                      /\ ToSet(part(i)) = {[key |-> x, val |-> op[q[i]].id] : x \in ToSet(op[q[i]].batch)}
  <2> SUFFICES ASSUME NEW i \in 1..k
               PROVE  /\ part(i) \in Seq(R) /\ \A r \in ToSet(part(i)) : r.val = op[q[i]].id
                      /\ ToSet(part(i)) = {[key |-> x, val |-> op[q[i]].id] : x \in ToSet(op[q[i]].batch)}
    OBVIOUS
  <2>1. DOMAIN op[q[i]].batch = 1..Len(op[q[i]].batch) /\ Len(op[q[i]].batch) \in Nat
    BY <1>2
  <2>2. \A j \in DOMAIN op[q[i]].batch : part(i)[j] \in R
    BY <1>2, <2>1
  <2>3. part(i) \in [1..Len(op[q[i]].batch) -> R]
    BY <2>1, <2>2
  <2>4. DOMAIN part(i) = DOMAIN op[q[i]].batch
    OBVIOUS
  <2>5. ToSet(part(i)) = {part(i)[j] : j \in DOMAIN op[q[i]].batch}
    BY <2>4 DEF ToSet
  <2>6. \A j \in DOMAIN op[q[i]].batch : part(i)[j] = [key |-> op[q[i]].batch[j], val |-> op[q[i]].id]
    OBVIOUS
  <2>7. ToSet(op[q[i]].batch) = {op[q[i]].batch[j] : j \in DOMAIN op[q[i]].batch}
    BY DEF ToSet
  <2> HIDE DEF part, R
  <2>8. part(i) \in Seq(R)
    BY <2>1, <2>3
  <2>9. ToSet(part(i)) = {[key |-> x, val |-> op[q[i]].id] : x \in ToSet(op[q[i]].batch)}
    <3>1. \A r \in ToSet(part(i)) : \E x \in ToSet(op[q[i]].batch) : r = [key |-> x, val |-> op[q[i]].id]
      BY <2>5, <2>6, <2>7
    <3>2. \A x \in ToSet(op[q[i]].batch) : [key |-> x, val |-> op[q[i]].id] \in ToSet(part(i))
      <4> SUFFICES ASSUME NEW j \in DOMAIN op[q[i]].batch
                   PROVE  [key |-> op[q[i]].batch[j], val |-> op[q[i]].id] \in ToSet(part(i))
        BY <2>7
      <4> QED
        BY <2>5, <2>6
    <3> QED
      BY <3>1, <3>2
  <2> QED
    BY <2>8, <2>9
<1>6. parts \in Seq(Seq(R)) /\ Len(parts) = k /\ \A i \in 1..k : parts[i] = part(i)
  <2> HIDE DEF part, R
  <2>1. DOMAIN parts = 1..k /\ \A i \in 1..k : parts[i] = part(i)
    BY <1>1
  <2>2. parts = [i \in 1..k |-> part(i)]
    BY <1>1
  <2>3. \A i \in 1..k : part(i) \in Seq(R)
    BY <1>5
  <2>4. k \in Nat
    BY <1>1
  <2> HIDE DEF parts
  <2>5. parts \in [1..k -> Seq(R)]
    BY <2>2, <2>3
  <2>6. parts \in Seq(Seq(R)) /\ Len(parts) = k
    BY <2>1, <2>4, <2>5, SeqDef, LenProperties
  <2> QED
    BY <2>1, <2>6
<1>7. updates \in Seq(R)
  <2> HIDE DEF parts, R
  <2> QED
    BY <1>1, <1>6, Flattened
<1>8. ToSet(updates) = UpTo(parts, k) /\ Ascending(updates)
  <2>1. \A i \in 1..k : id[i] \in Nat /\ \A r \in ToSet(parts[i]) : r.val = id[i]
    <3> HIDE DEF part, parts
    <3> QED
      BY <1>2, <1>5, <1>6
  <2> HIDE DEF parts, R, id, part
  <2> QED
    BY <1>1, <1>3, <1>6, <2>1, FlattenedInOrder
<1>9. \A r : r \in ToSet(updates) <=> \E i \in 1..k : \E x \in ToSet(op[q[i]].batch) : r = [key |-> x, val |-> op[q[i]].id]
  <2> HIDE DEF parts, R, id, part, updates
  <2>1. \A r : r \in ToSet(updates) <=> \E i \in 1..k : r \in ToSet(parts[i])
    BY <1>8 DEF UpTo
  <2> QED
    BY <1>5, <1>6, <2>1
<1> HIDE DEF parts, part, R, id
<1>10. Len(updates) \in Nat /\ DOMAIN updates = 1..Len(updates) /\ \A i \in 1..Len(updates) : updates[i] \in [key : Keys, val : Nat]
  <2> HIDE DEF updates
  <2>1. Len(updates) \in Nat /\ DOMAIN updates = 1..Len(updates) /\ \A i \in 1..Len(updates) : updates[i] \in R
    BY <1>7
  <2> QED
    BY <2>1 DEF R
<1> HIDE DEF updates
<1>11. /\ DOMAIN es = 1..Len(updates)
       /\ \A i \in 1..Len(updates) : es[i].key = updates[i].key /\ es[i].val = updates[i].val /\ es[i].seq = lastSeq + i
  BY <1>10
<1> HIDE DEF es
<1>12. ToSet(es) = {es[i] : i \in 1..Len(updates)}
  BY <1>11 DEF ToSet
<1>13. InOrder(ToSet(es))
  <2> SUFFICES ASSUME NEW i \in 1..Len(updates), NEW j \in 1..Len(updates), es[i].seq <= es[j].seq
               PROVE  es[i].val <= es[j].val
    BY <1>12 DEF InOrder
  <2>1. i <= j
    BY <1>10, <1>11
  <2>2. updates[i].val <= updates[j].val
    BY <1>8, <2>1 DEF Ascending
  <2> QED
    BY <1>11, <2>2
<1>14. CallsOf(q) = {CallOf(q[i]) : i \in 1..k}
  <2>1. ToSet(q) = {q[i] : i \in 1..k}
    BY <1>1 DEF ToSet
  <2> QED
    BY <2>1 DEF CallsOf
<1>15. ToSet(updates) = {updates[i] : i \in 1..Len(updates)}
  BY <1>10 DEF ToSet
<1>16. ASSUME NEW x \in Keys, NEW n \in Nat
       PROVE  (\E e \in ToSet(es) : e.key = x /\ e.val = n)
                <=> (\E w \in CallsOf(q) : x \in w.keys /\ w.id = n)
  <2>1. (\E e \in ToSet(es) : e.key = x /\ e.val = n) <=> \E r \in ToSet(updates) : r.key = x /\ r.val = n
    <3>1. ASSUME NEW i \in 1..Len(updates)
          PROVE  es[i].key = x /\ es[i].val = n <=> updates[i].key = x /\ updates[i].val = n
      BY <1>11
    <3>2. (\E e \in ToSet(es) : e.key = x /\ e.val = n) <=> \E i \in 1..Len(updates) : es[i].key = x /\ es[i].val = n
      BY <1>12
    <3>3. (\E r \in ToSet(updates) : r.key = x /\ r.val = n) <=> \E i \in 1..Len(updates) : updates[i].key = x /\ updates[i].val = n
      BY <1>15
    <3> QED
      BY <3>1, <3>2, <3>3
  <2>2. (\E r \in ToSet(updates) : r.key = x /\ r.val = n)
          <=> \E i \in 1..k : x \in ToSet(op[q[i]].batch) /\ n = op[q[i]].id
    <3>1. ASSUME NEW r \in ToSet(updates), r.key = x, r.val = n
          PROVE  \E i \in 1..k : x \in ToSet(op[q[i]].batch) /\ n = op[q[i]].id
      <4>1. PICK i \in 1..k : \E y \in ToSet(op[q[i]].batch) : r = [key |-> y, val |-> op[q[i]].id]
        BY <1>9, <3>1
      <4>2. PICK y \in ToSet(op[q[i]].batch) : r = [key |-> y, val |-> op[q[i]].id]
        BY <4>1
      <4>3. y = x /\ n = op[q[i]].id
        BY <3>1, <4>2
      <4> QED
        BY <4>2, <4>3
    <3>2. ASSUME NEW i \in 1..k, x \in ToSet(op[q[i]].batch), n = op[q[i]].id
          PROVE  \E r \in ToSet(updates) : r.key = x /\ r.val = n
      <4>1. [key |-> x, val |-> op[q[i]].id] \in ToSet(updates)
        BY <1>9, <3>2
      <4> QED
        BY <3>2, <4>1
    <3> QED
      BY <3>1, <3>2
  <2>3. (\E w \in CallsOf(q) : x \in w.keys /\ w.id = n)
          <=> \E i \in 1..k : x \in ToSet(op[q[i]].batch) /\ n = op[q[i]].id
    <3>1. \A i \in 1..k : CallOf(q[i]).keys = ToSet(op[q[i]].batch) /\ CallOf(q[i]).id = op[q[i]].id
      BY DEF CallOf
    <3> QED
      BY <1>14, <3>1
  <2> QED
    BY <2>1, <2>2, <2>3
<1>17. Wrote(ToSet(es), CallsOf(q))
  BY <1>16 DEF Wrote
<1> QED
  BY <1>4, <1>13, <1>17 DEF q

-----------------------------------------------------------------------------
(* The queue.                                                              *)

(* The calls in the queue have ids and keys.                               *)
LEMMA CallsAre ==
  ASSUME Calls
  PROVE  /\ \A w \in Waiting : op[w].id \in Nat /\ op[w].id \in 1..MaxWrites /\ op[w].batch \in Seq(Keys)
         /\ \A c \in CallsNow : c.id \in Nat /\ c.id \in 1..MaxWrites
         /\ \A i \in 1..Len(writers) : writers[i] \in Waiting
         /\ \A w \in Waiting : \E i \in 1..Len(writers) : w = writers[i]
         /\ Len(writers) \in Nat
<1>1. ASSUME NEW w \in Waiting
      PROVE  op[w].id \in Nat /\ op[w].id \in 1..MaxWrites /\ op[w].batch \in Seq(Keys)
  <2>1. Call(op[w])
    BY <1>1 DEF Calls, Waiting
  <2> QED
    BY <2>1, BatchIsSequence, BoundsAssumption DEF Call
<1>2. writers \in Seq(Writers) /\ ToSet(writers) = Waiting
  BY DEF Calls, Waiting
<1>3. ToSet(writers) = {writers[i] : i \in 1..Len(writers)} /\ Len(writers) \in Nat
  BY <1>2 DEF ToSet
<1>4. \A c \in CallsNow : c.id \in Nat /\ c.id \in 1..MaxWrites
  BY <1>1 DEF CallsNow, CallOf
<1> QED
  BY <1>1, <1>2, <1>3, <1>4

(* Two calls with one id are one.                                          *)
LEMMA IdsAreUnique ==
  ASSUME Calls, QueueIds, NEW v \in Waiting, NEW w \in Waiting, op[v].id = op[w].id
  PROVE  v = w
<1>1. PICK i \in 1..Len(writers) : v = writers[i]
  BY CallsAre
<1>2. PICK j \in 1..Len(writers) : w = writers[j]
  BY CallsAre
<1>3. op[v].id \in Nat /\ op[w].id \in Nat
  BY CallsAre
<1>4. ~(i < j) /\ ~(j < i)
  BY <1>1, <1>2, <1>3 DEF QueueIds
<1> QED
  BY <1>1, <1>2, <1>4

(* The front of the queue is answered.                                     *)
LEMMA AnsweredIds ==
  ASSUME Calls, QueueIds, NEW k \in 1..Len(writers), Answer(SubSeq(writers, 1, k)), spent'.writes = spent.writes
  PROVE  LET W == CallsOf(SubSeq(writers, 1, k))
         IN /\ QueueIds' /\ W \subseteq CallsNow /\ W # {} /\ CallsNow' = CallsNow \ W
            /\ \A w \in W, c \in CallsNow \ W : w.id < c.id
<1> DEFINE q == SubSeq(writers, 1, k)
           N == Len(writers)
           W == CallsOf(q)
<1>1. /\ writers \in Seq(Writers) /\ N \in Nat /\ k \in Nat /\ 1 <= k /\ k <= N
      /\ DOMAIN writers = 1..N
  BY DEF Calls
<1>2. Len(q) = k /\ DOMAIN q = 1..k /\ \A i \in 1..k : q[i] = writers[i]
  BY <1>1
<1>3. op' = [w \in Writers |-> IF w \in ToSet(q) THEN None ELSE op[w]]
  BY DEF Answer
<1>4. writers' = SubSeq(writers, k + 1, N)
  BY <1>2 DEF Answer
<1> HIDE DEF q, N
<1>5. Len(writers') = N - k /\ \A i \in 1..N - k : writers'[i] = writers[k + i]
  <2>1. \A i \in k + 1..N : writers[i] \in Writers
    BY <1>1
  <2> QED
    BY <1>1, <1>4, <2>1
<1>6. ToSet(q) = {writers[i] : i \in 1..k}
  BY <1>2 DEF ToSet
<1>7. \A i \in 1..N : writers[i] \in Waiting /\ writers[i] \in Writers
  BY CallsAre DEF N, Waiting
<1>8. \A i \in 1..N : writers[i] \in ToSet(q) => i <= k
  <2> SUFFICES ASSUME NEW i \in 1..N, NEW j \in 1..k, writers[i] = writers[j] PROVE i <= k
    BY <1>6
  <2>1. i = j
    BY <1>1 DEF Calls, IsInjective
  <2> QED
    BY <1>1, <2>1
<1>9. \A i \in 1..N - k : op'[writers'[i]] = op[writers[k + i]] /\ k + i \in 1..N
  <2> SUFFICES ASSUME NEW i \in 1..N - k PROVE op'[writers'[i]] = op[writers[k + i]] /\ k + i \in 1..N
    OBVIOUS
  <2>1. k + i \in 1..N /\ ~(k + i <= k)
    BY <1>1
  <2>2. writers[k + i] \notin ToSet(q) /\ writers[k + i] \in Writers
    BY <1>7, <1>8, <2>1
  <2> QED
    BY <1>3, <1>5, <2>1, <2>2
<1>10. QueueIds'
  <2>1. \A w \in Writers : op'[w] # None => op'[w] = op[w]
    BY <1>3
  <2>2. \A w \in Writers : op'[w] # None => op'[w].id <= spent'.writes
    BY <2>1 DEF QueueIds
  <2>3. ASSUME NEW i \in 1..N - k, NEW j \in 1..N - k, i < j
        PROVE  op'[writers'[i]].id < op'[writers'[j]].id
    <3>1. k + i \in 1..N /\ k + j \in 1..N /\ k + i < k + j
      BY <1>1, <2>3
    <3>2. op[writers[k + i]].id < op[writers[k + j]].id
      BY <3>1 DEF QueueIds, N
    <3> QED
      BY <1>9, <3>2
  <2> QED
    BY <1>5, <2>2, <2>3 DEF QueueIds
<1>11. W = {CallOf(writers[i]) : i \in 1..k}
  BY <1>6 DEF CallsOf
<1>12. CallsNow = {CallOf(writers[i]) : i \in 1..N}
  BY CallsAre DEF CallsNow, N
<1>13. \A i \in 1..k : i \in 1..N
  BY <1>1
<1>14. \A i, j \in 1..N : CallOf(writers[i]) = CallOf(writers[j]) => i = j
  <2> SUFFICES ASSUME NEW i \in 1..N, NEW j \in 1..N, CallOf(writers[i]) = CallOf(writers[j]) PROVE i = j
    OBVIOUS
  <2>1. op[writers[i]].id = op[writers[j]].id
    BY DEF CallOf
  <2>2. writers[i] = writers[j]
    BY <1>7, <2>1, IdsAreUnique
  <2> QED
    BY <1>1, <2>2 DEF Calls, IsInjective
<1>15. W \subseteq CallsNow /\ W # {}
  <2>1. 1 \in 1..k
    BY <1>1
  <2> HIDE DEF W
  <2> QED
    BY <1>11, <1>12, <1>13, <2>1
<1>16. \A c \in CallsNow \ W : \E i \in 1..N : c = CallOf(writers[i]) /\ ~(i <= k)
  <2> HIDE DEF W
  <2> QED
    BY <1>1, <1>11, <1>12
<1>17. ASSUME NEW w \in W, NEW c \in CallsNow \ W
       PROVE  w.id < c.id
  <2> HIDE DEF W
  <2>1. PICK i \in 1..k : w = CallOf(writers[i])
    BY <1>11, <1>17
  <2>2. PICK j \in 1..N : c = CallOf(writers[j]) /\ ~(j <= k)
    BY <1>16, <1>17
  <2>3. i \in 1..N /\ i < j
    BY <1>1, <2>2
  <2>4. op[writers[i]].id < op[writers[j]].id
    BY <2>3 DEF QueueIds, N
  <2> QED
    BY <2>1, <2>2, <2>4 DEF CallOf
<1>18. CallsNow' = CallsNow \ W
  <2>1. Waiting' = {x \in Waiting : x \notin ToSet(q)}
    BY <1>3 DEF Waiting
  <2>2. \A x \in Waiting' : CallOf(x)' = CallOf(x)
    BY <1>3, <2>1 DEF CallOf, Waiting
  <2>3. CallsNow' = {CallOf(x) : x \in {y \in Waiting : y \notin ToSet(q)}}
    BY <2>1, <2>2 DEF CallsNow
  <2>4. ASSUME NEW c \in CallsNow' PROVE c \in CallsNow \ W
    <3>1. PICK x \in Waiting : x \notin ToSet(q) /\ c = CallOf(x)
      BY <2>3, <2>4
    <3>2. PICK i \in 1..N : x = writers[i]
      BY CallsAre DEF N
    <3>3. i \notin 1..k
      BY <1>6, <3>1, <3>2
    <3>4. c \notin W
      <4> HIDE DEF W
      <4> QED
        BY <1>11, <1>13, <1>14, <3>1, <3>2, <3>3
    <3> QED
      BY <3>1, <3>4 DEF CallsNow
  <2>5. ASSUME NEW c \in CallsNow \ W PROVE c \in CallsNow'
    <3>1. PICK i \in 1..N : c = CallOf(writers[i]) /\ ~(i <= k)
      BY <1>16, <2>5
    <3>2. writers[i] \in Waiting /\ writers[i] \notin ToSet(q)
      BY <1>7, <1>8, <3>1
    <3> QED
      BY <2>3, <3>1, <3>2
  <2> HIDE DEF W
  <2> QED
    BY <2>4, <2>5
<1> HIDE DEF W
<1> QED
  BY <1>10, <1>15, <1>17, <1>18 DEF W, q

-----------------------------------------------------------------------------
(* Clients and the front of the queue.                                     *)

LEMMA SameData ==
  ASSUME UNCHANGED <<memtable, mem, imm, lastSeq, version, snaps, gets, phase, logs, tables, manifest>>
  PROVE  UNCHANGED <<Newest, StoreNow, SnapsNow, GetsNow, OnDisk>>
<1>1. Newest' = Newest
  BY DEF Newest, MemEntries, EntriesOf
<1>2. OnDisk' = OnDisk
  BY DEF OnDisk, EntriesOf, RecordsOf, LogsToReplay
<1>3. StoreNow' = StoreNow
  BY <1>1, <1>2 DEF StoreNow
<1>4. SnapsNow' = SnapsNow
  BY <1>1 DEF SnapsNow
<1>5. GetsNow' = GetsNow
  BY DEF GetsNow, Reads, MemEntries, EntriesOf
<1> QED
  BY <1>1, <1>2, <1>3, <1>4, <1>5

LEMMA SameTables ==
  ASSUME TablesView, UNCHANGED <<imm, version, flush, merge, tables, manifest>>,
         imm # 0 => memtable'[imm] = memtable[imm]
  PROVE  TablesView'
BY DEF TablesView, Says, MemEntries

LEMMA QueueSteps ==
  ASSUME Inv, View, phase = "open",
         UNCHANGED <<memtable, mem, imm, lastSeq, nextFile, version, logNumber, flush, merge, bgError,
                     snaps, gets, phase, logs, tables, manifest>>,
         QueueIds', spent.writes \in Nat, spent'.writes \in Nat, spent.writes <= spent'.writes,
         \/ group' = group
         \/ group = None /\ bgError = FALSE /\ group' # None /\ group'.step = "log" /\ group'.inserted = 0,
         GroupView'
  PROVE  View' /\ UNCHANGED <<StoreNow, FailedInLog, SnapsNow, GetsNow>>
<1>1. /\ Sound /\ Places /\ DOMAIN snaps = Readers
      /\ LogView /\ BadView /\ ReadersView /\ TablesView
  BY DEF Inv, View
<1>2. UNCHANGED <<Newest, StoreNow, SnapsNow, GetsNow, OnDisk>>
  BY SameData
<1>3. RecordsOf(mem)' = RecordsOf(mem) /\ (imm # 0 => RecordsOf(imm)' = RecordsOf(imm))
      /\ LogsToReplay' = LogsToReplay
  BY DEF RecordsOf, LogsToReplay
<1>4. FailedInLog = Bad
  BY FailedIs
<1>5. Bad' = Bad /\ FailedInLog' = FailedInLog
  <2>1. CASE group' = group
    <3>1. InFlight' = InFlight
      BY <2>1 DEF InFlight
    <3> QED
      BY <1>2, <1>3, <3>1 DEF Bad, FailedInLog, RecordsOf
  <2>2. CASE group = None /\ bgError = FALSE
    <3>1. Bad = {} /\ FailedInLog = {} /\ InFlight = {}
      BY <1>1, <1>4, <2>2 DEF BadView, InFlight
    <3>2. Bad' \subseteq Bad
      BY <1>3, <3>1 DEF Bad
    <3>3. FailedInLog' \subseteq FailedInLog
      BY <1>2, <1>3, <3>1 DEF FailedInLog, RecordsOf
    <3> QED
      BY <3>1, <3>2, <3>3
  <2> QED
    BY <2>1, <2>2
<1>6. LogView'
  <2>1. CASE group' = group
    <3>1. InFlight' = InFlight /\ Inserted' = Inserted /\ Logged' = Logged
      BY <2>1 DEF InFlight, Inserted, Logged
    <3> QED
      BY <1>1, <1>3, <2>1, <3>1 DEF LogView
  <2>2. CASE group = None /\ bgError = FALSE /\ group' # None /\ group'.step = "log" /\ group'.inserted = 0
    <3>1. Bad = {} /\ InFlight = {} /\ Inserted = {} /\ ~Logged
      BY <1>1, <2>2 DEF BadView, InFlight, Inserted, Logged
    <3>2. Inserted' = {} /\ ~Logged'
      BY <2>2 DEF Inserted, Logged
    <3>3. \A e \in memtable[mem] : e.seq <= lastSeq
      BY <1>1, <3>1 DEF LogView
    <3>4. RecordsOf(mem) \subseteq memtable[mem]
      BY <3>1 DEF Bad
    <3> QED
      BY <1>1, <1>3, <3>2, <3>3, <3>4 DEF LogView
  <2> QED
    BY <2>1, <2>2
<1>7. BadView'
  <2> SUFFICES ASSUME Bad # {} PROVE BadView'
    BY <1>5 DEF BadView
  <2>1. /\ bgError = TRUE /\ group = None /\ InOrder(Bad)
        /\ \A e \in Bad : e.seq <= lastSeq /\ e.val <= spent.writes /\ \A f \in Newest : f.seq < e.seq
    BY <1>1 DEF BadView
  <2>2. group' = None
    BY <2>1
  <2>3. PICK A : Good(A) /\ PoolOf(A)
    BY DEF Inv, Pool
  <2>4. \A e \in Bad : e.val \in Nat
    <3>1. RecsIn(logs[mem], A) /\ LogFile(logs[mem])
      BY <1>1, <2>3, Opened DEF PoolOf, Low
    <3> QED
      BY <2>3, <3>1, RecordsAre DEF Good, Entry, Bad
  <2>5. \A e \in Bad : e.val <= spent'.writes
    BY <2>1, <2>4
  <2>6. InOrder(Bad)'
    BY <1>5, <2>1 DEF InOrder
  <2> QED
    BY <1>2, <1>5, <2>1, <2>2, <2>5, <2>6 DEF BadView
<1>8. ReadersView'
  BY <1>1 DEF ReadersView
<1>9. TablesView'
  BY <1>1, SameTables
<1>10. ReplayView'
  BY DEF ReplayView, Replays, Recovers
<1> QED
  BY <1>1, <1>2, <1>5, <1>6, <1>7, <1>8, <1>9, <1>10 DEF View

(* A call of Write.                                                        *)
LEMMA EnqueueView ==
  ASSUME Inv, View, NEW w \in Writers, Enqueue(w)
  PROVE  View' /\ KV!Next
<1>1. PICK b \in Batches \union {<<>>}, sync \in BOOLEAN :
        op' = [op EXCEPT ![w] = [id |-> spent.writes + 1, batch |-> b, sync |-> sync]]
  BY DEF Enqueue
<1>2. Calls /\ Group /\ QueueIds /\ GroupView /\ phase = "open" /\ op[w] = None
  BY DEF Inv, Queue, View, Enqueue
<1> DEFINE c == [id |-> spent.writes + 1, batch |-> b, sync |-> sync]
<1>3. spent.writes \in Nat /\ spent.writes + 1 \in 1..MaxWrites /\ b \in Seq(Keys)
  BY <1>2, BatchIsSequence, BoundsAssumption DEF Calls, Bounds, Enqueue
<1>4. spent'.writes = spent.writes + 1
  <2>1. spent' = [spent EXCEPT !["writes"] = @ + 1]
    BY DEF Enqueue, Spend
  <2> QED
    BY <1>2, <2>1 DEF Calls, Bounds
<1>5. \A x \in Writers : op'[x] = IF x = w THEN c ELSE op[x]
  BY <1>1, <1>2 DEF Calls
<1>6. c # None
  <2>1. c \in [id : Nat, batch : Seq(Keys), sync : BOOLEAN]
    BY <1>3
  <2> QED
    BY <2>1, NoneAssumption
<1>7. c.id = spent.writes + 1 /\ c.batch = b
  OBVIOUS
<1> HIDE DEF c
<1>8. writers \in Seq(Writers) /\ w \notin ToSet(writers) /\ writers' = Append(writers, w)
  BY <1>2 DEF Calls, Enqueue
<1>9. /\ Len(writers') = Len(writers) + 1 /\ Len(writers) \in Nat
      /\ writers'[Len(writers) + 1] = w /\ \A i \in 1..Len(writers) : writers'[i] = writers[i]
  BY <1>8
<1>10. \A i \in 1..Len(writers) : writers[i] \in Writers /\ writers[i] # w
  BY <1>8 DEF ToSet
<1>11. \A v \in Waiting : v # w /\ op[v].id \in Nat /\ op[v].id <= spent.writes
  BY <1>2, CallsAre DEF Waiting, QueueIds
<1>12. QueueIds'
  <2>1. \A x \in Writers : op'[x] # None => op'[x].id <= spent'.writes
    <3> SUFFICES ASSUME NEW x \in Writers, op'[x] # None PROVE op'[x].id <= spent'.writes
      OBVIOUS
    <3>1. CASE x = w
      BY <1>3, <1>4, <1>5, <1>7, <3>1
    <3>2. CASE x # w
      <4>1. x \in Waiting /\ op'[x] = op[x]
        BY <1>5, <3>2 DEF Waiting
      <4> QED
        BY <1>3, <1>4, <1>11, <4>1
    <3> QED
      BY <3>1, <3>2
  <2>2. ASSUME NEW i \in 1..Len(writers'), NEW j \in 1..Len(writers'), i < j
        PROVE  op'[writers'[i]].id < op'[writers'[j]].id
    <3>1. i \in 1..Len(writers) /\ writers'[i] = writers[i] /\ op'[writers[i]] = op[writers[i]]
      BY <1>5, <1>9, <1>10, <2>2
    <3>2. CASE j \in 1..Len(writers)
      BY <1>2, <1>5, <1>9, <1>10, <2>2, <3>1, <3>2 DEF QueueIds
    <3>3. CASE j = Len(writers) + 1
      <4>1. op'[writers'[j]].id = spent.writes + 1
        BY <1>5, <1>7, <1>9, <3>3
      <4>2. writers[i] \in Waiting
        BY <1>2, <3>1, CallsAre
      <4> QED
        BY <1>3, <1>11, <3>1, <4>1, <4>2
    <3> QED
      BY <1>9, <2>2, <3>2, <3>3
  <2> QED
    BY <2>1, <2>2 DEF QueueIds
<1>13. \A v \in Waiting : CallOf(v)' = CallOf(v)
  BY <1>5, <1>11 DEF CallOf, Waiting
<1>14. GroupView'
  <2>1. group' = group
    BY DEF Enqueue
  <2> SUFFICES ASSUME group # None PROVE GroupView'
    BY <2>1 DEF GroupView
  <2>2. PICK k \in 1..Len(writers) : group.members = SubSeq(writers, 1, k)
    BY <1>2 DEF Group, Members
  <2>3. ToSet(group.members) \subseteq Waiting
    <3>1. \A i \in 1..k : SubSeq(writers, 1, k)[i] = writers[i] /\ i \in 1..Len(writers)
      BY <1>8
    <3>2. Len(SubSeq(writers, 1, k)) = k /\ DOMAIN SubSeq(writers, 1, k) = 1..k
      BY <1>8
    <3>3. ToSet(SubSeq(writers, 1, k)) \subseteq Waiting
      BY <1>2, <3>1, <3>2, CallsAre DEF ToSet
    <3> QED
      BY <2>2, <3>3
  <2>4. CallsOf(group.members)' = CallsOf(group.members)
    BY <1>13, <2>1, <2>3 DEF CallsOf
  <2>5. InFlight' = InFlight
    BY <2>1 DEF InFlight
  <2>6. InOrder(InFlight)' /\ Wrote(InFlight, CallsOf(group.members))'
    <3>1. InOrder(InFlight) /\ Wrote(InFlight, CallsOf(group.members))
      BY <1>2 DEF GroupView
    <3> QED
      BY <2>4, <2>5, <3>1 DEF InOrder, Wrote
  <2> QED
    BY <1>2, <2>1, <2>6 DEF GroupView
<1>15. View' /\ UNCHANGED <<StoreNow, FailedInLog, SnapsNow, GetsNow>>
  BY <1>2, <1>3, <1>4, <1>12, <1>14, QueueSteps DEF Enqueue, disk
<1> DEFINE id == spent.writes + 1
           ks == ToSet(b)
<1>16. ks \in SUBSET Keys
  BY <1>3 DEF ToSet
<1>17. CallsNow' = CallsNow \union {[id |-> id, keys |-> ks]}
  <2>1. Waiting' = Waiting \union {w}
    BY <1>5, <1>6, <1>11 DEF Waiting
  <2>2. CallOf(w)' = [id |-> id, keys |-> ks]
    BY <1>5, <1>7 DEF CallOf
  <2> QED
    BY <1>13, <2>1, <2>2 DEF CallsNow
<1>18. \A d \in CallsNow : d.id < id
  BY <1>3, <1>11 DEF CallsNow, CallOf
<1>19. \A d \in LimboNow : d.id < id
  <2>1. FailedInLog = Bad /\ Sound /\ Places /\ BadView
    BY <1>2, FailedIs DEF Inv, View
  <2>2. PICK A : Good(A) /\ PoolOf(A)
    BY DEF Inv, Pool
  <2>3. RecsIn(logs[mem], A) /\ LogFile(logs[mem])
    BY <1>2, <2>1, <2>2, Opened DEF PoolOf, Low
  <2>4. \A e \in Bad : e.val \in Nat
    BY <2>2, <2>3, RecordsAre DEF Good, Entry, Bad
  <2>5. \A e \in FailedInLog : e.val \in Nat /\ e.val <= spent.writes
    BY <2>1, <2>4 DEF BadView
  <2>6. \A e \in FailedInLog : e.val < id
    BY <1>3, <2>5
  <2> QED
    BY <2>6 DEF LimboNow, WritesOf
<1>20. LimboNow' = LimboNow
  BY <1>15 DEF LimboNow, WritesOf
<1> HIDE DEF id, ks
<1>21. id \in 1..MaxWrites
  BY <1>3 DEF id
<1>22. KV!Next
  <2>1. \A d \in CallsNow \union LimboNow : d.id < id
    BY <1>18, <1>19
  <2> QED
    BY <1>15, <1>16, <1>17, <1>20, <1>21, <2>1, StoreCalls
<1> QED
  BY <1>15, <1>22

LEMMA FrontIs ==
  ASSUME Calls, writers # <<>>
  PROVE  SubSeq(writers, 1, 1) = <<Head(writers)>> /\ 1 \in 1..Len(writers) /\ Head(writers) = writers[1]
<1>1. writers \in Seq(Writers) /\ Len(writers) \in Nat /\ Len(writers) >= 1
  BY DEF Calls
<1>2. SubSeq(writers, 1, 1) = [i \in 1..1 |-> writers[i]]
  BY <1>1
<1>3. <<Head(writers)>> = [i \in 1..1 |-> writers[1]] /\ Head(writers) = writers[1]
  BY <1>1
<1>4. [i \in 1..1 |-> writers[i]] = [i \in 1..1 |-> writers[1]]
  OBVIOUS
<1>5. SubSeq(writers, 1, 1) = <<Head(writers)>>
  BY <1>2, <1>3, <1>4
<1>6. 1 \in 1..Len(writers)
  BY <1>1
<1> QED
  BY <1>3, <1>5, <1>6

(* The front of the queue is answered without a write.                     *)
LEMMA FrontFails ==
  ASSUME Calls, QueueIds, writers # <<>>, Answer(<<Head(writers)>>), spent'.writes = spent.writes,
         UNCHANGED <<StoreNow, FailedInLog, SnapsNow, GetsNow>>
  PROVE  KV!Next
<1>1. Answer(SubSeq(writers, 1, 1)) /\ 1 \in 1..Len(writers)
  BY FrontIs
<1>2. PICK W : W \subseteq CallsNow /\ W # {} /\ CallsNow' = CallsNow \ W
  BY <1>1, AnsweredIds
<1>3. LimboNow' = LimboNow \union {}
  BY DEF LimboNow, WritesOf
<1>4. W \in SUBSET CallsNow /\ {} \in SUBSET W
  BY <1>2
<1> QED
  BY <1>2, <1>3, <1>4, StoreFails

LEMMA FrontAnsweredView ==
  ASSUME Inv, View, FrontReady, Answer(<<Head(writers)>>), Spent,
         UNCHANGED <<group, memtable, mem, imm, lastSeq, nextFile, version, logNumber, flush, merge, bgError,
                     snaps, gets, phase, logs, tables, manifest>>
  PROVE  View' /\ KV!Next
<1>1. Calls /\ QueueIds /\ GroupView /\ phase = "open" /\ writers # <<>> /\ group = None
  BY DEF Inv, Queue, View, FrontReady
<1>2. Answer(SubSeq(writers, 1, 1)) /\ 1 \in 1..Len(writers) /\ spent'.writes = spent.writes
  BY <1>1, FrontIs DEF Spent
<1>3. QueueIds'
  BY <1>1, <1>2, AnsweredIds
<1>4. GroupView'
  BY <1>1 DEF GroupView
<1>5. spent.writes \in Nat
  BY DEF Spent, Bounds
<1>6. View' /\ UNCHANGED <<StoreNow, FailedInLog, SnapsNow, GetsNow>>
  BY <1>1, <1>2, <1>3, <1>4, <1>5, QueueSteps
<1> QED
  BY <1>1, <1>2, <1>6, FrontFails

LEMMA YieldErrorView ==
  ASSUME Inv, View, YieldError
  PROVE  View' /\ KV!Next
<1>1. Calls
  BY DEF Inv, Queue
<1> QED
  BY <1>1, FrontAnsweredView DEF YieldError, disk, Spent, Calls

LEMMA NoNewLogView ==
  ASSUME Inv, View, NoNewLog
  PROVE  View' /\ KV!Next
<1>1. Spent
  BY Spending DEF NoNewLog, Inv, Queue
<1> QED
  BY <1>1, FrontAnsweredView DEF NoNewLog, disk

(* The front of the queue leads a group: what it will write.               *)
LEMMA LeadView ==
  ASSUME Sound, Queue, QueueIds, lastSeq \in Nat, FrontReady, Lead, op[Head(writers)].batch # <<>>, UNCHANGED spent
  PROVE  /\ UNCHANGED <<op, writers>> /\ QueueIds' /\ GroupView'
         /\ group' # None /\ group'.step = "log" /\ group'.inserted = 0
<1>1. Calls /\ writers # <<>> /\ Head(writers) = writers[1] /\ UNCHANGED <<op, writers>>
  BY FrontIs DEF Queue, FrontReady, Lead
<1>2. group' = [step |-> "log", members |-> BuildBatchGroup,
                entries |-> Numbered(BuildBatchGroup, lastSeq), inserted |-> 0, ok |-> TRUE]
  BY DEF Lead
<1>3. PICK k \in 1..Len(writers) : BuildBatchGroup = SubSeq(writers, 1, k)
  BY <1>1, GroupIsPrefix
<1> DEFINE q == SubSeq(writers, 1, k)
           es == Numbered(q, lastSeq)
<1>4. InOrder(ToSet(es)) /\ Wrote(ToSet(es), CallsOf(q))
  BY <1>1, <1>3, NumberedUpdates
<1>5. NewEntries(es)
  BY <1>1, <1>3, NumberedEntries
<1>6. q \in Seq(Writers)
  BY <1>1 DEF Calls
<1> HIDE DEF es, q
<1>7. group' = [step |-> "log", members |-> q, entries |-> es, inserted |-> 0, ok |-> TRUE]
  BY <1>2, <1>3 DEF es, q
<1>8. group' \in [step : {"log", "sync", "insert", "end", "syncError"}, members : Seq(Writers),
                  entries : Seq([key : Keys, seq : Nat, val : Nat]), inserted : Nat, ok : BOOLEAN]
  BY <1>5, <1>6, <1>7 DEF NewEntries, Entry
<1>9. group' # None
  BY <1>8, NoneAssumption
<1>10. InFlight' = ToSet(es)
  BY <1>7, <1>9 DEF InFlight
<1>11. CallsOf(group.members)' = CallsOf(q)
  BY <1>1, <1>7 DEF CallsOf, CallOf
<1>12. InOrder(InFlight)' /\ Wrote(InFlight, CallsOf(group.members))'
  BY <1>4, <1>10, <1>11 DEF InOrder, Wrote
<1>13. QueueIds'
  BY <1>1 DEF QueueIds
<1>14. GroupView'
  BY <1>7, <1>12 DEF GroupView
<1> QED
  BY <1>1, <1>7, <1>9, <1>13, <1>14

LEMMA WriteInPlaceView ==
  ASSUME Inv, View, WriteInPlace
  PROVE  View' /\ (KV!Next \/ UNCHANGED KV!vars)
<1>1. Sound /\ Queue /\ Calls /\ QueueIds /\ FrontReady /\ Lead /\ phase = "open" /\ group = None /\ bgError = FALSE
  BY DEF Inv, Queue, View, FrontReady, WriteInPlace, Sound, Stages
<1>2. CASE op[Head(writers)].batch = <<>>
  BY <1>1, <1>2, FrontAnsweredView DEF WriteInPlace, Lead, disk, Spent, Calls
<1>3. CASE op[Head(writers)].batch # <<>>
  <2>1. lastSeq \in Nat
    BY DEF Inv, Pool, PoolOf
  <2>2. /\ UNCHANGED <<op, writers>> /\ QueueIds' /\ GroupView'
        /\ group' # None /\ group'.step = "log" /\ group'.inserted = 0
    BY <1>1, <1>3, <2>1, LeadView DEF WriteInPlace
  <2>3. spent.writes \in Nat /\ spent' = spent
    BY <1>1 DEF Calls, Bounds, WriteInPlace
  <2>6. spent'.writes \in Nat /\ spent.writes <= spent'.writes
    BY <2>3
  <2>7. UNCHANGED <<memtable, mem, imm, lastSeq, nextFile, version, logNumber, flush, merge, bgError,
                    snaps, gets, phase, logs, tables, manifest>>
    BY DEF WriteInPlace, disk
  <2>8. group = None /\ bgError = FALSE /\ group' # None /\ group'.step = "log" /\ group'.inserted = 0
    BY <1>1, <2>2
  <2>4. View' /\ UNCHANGED <<StoreNow, FailedInLog, SnapsNow, GetsNow>>
    BY <1>1, <2>2, <2>3, <2>6, <2>7, <2>8, QueueSteps
  <2>5. CallsNow' = CallsNow /\ LimboNow' = LimboNow
    BY <2>2, <2>4 DEF CallsNow, CallOf, Waiting, LimboNow, WritesOf
  <2> QED
    BY <2>4, <2>5, StoreSame
<1> QED
  BY <1>2, <1>3


-----------------------------------------------------------------------------
(* The group.                                                              *)

(* While a group is under way nothing in the log is left of a failed sync, *)
(* and nobody sees what the group writes.                                  *)
LEMMA WhileGrouped ==
  ASSUME Inv, View, group # None
  PROVE  /\ Bad = {} /\ phase = "open" /\ group \in Groups /\ lastSeq \in Nat
         /\ \A e \in InFlight : e.seq \in Nat /\ lastSeq < e.seq /\ e.seq <= lastSeq + Len(group.entries)
         /\ InOrder(InFlight) /\ Wrote(InFlight, CallsOf(group.members))
         /\ InFlight = ToSet(group.entries) /\ Len(group.entries) \in Nat
         /\ \A i \in 1..Len(group.entries) : group.entries[i] \in InFlight
         /\ \E k \in 1..Len(writers) : group.members = SubSeq(writers, 1, k)
<1>1. Sound /\ Queue /\ Places /\ Group
  BY DEF Inv, Queue
<1>2. phase = "open"
  BY <1>1, WhileWriting
<1>3. Bad = {} /\ InOrder(InFlight) /\ Wrote(InFlight, CallsOf(group.members))
  BY <1>2 DEF View, BadView, GroupView
<1>4. lastSeq \in Nat
  BY DEF Inv, Pool, PoolOf
<1>5. group \in Groups /\ \E k \in 1..Len(writers) : group.members = SubSeq(writers, 1, k)
  BY <1>1 DEF Group, Members
<1>6. /\ InFlight = ToSet(group.entries) /\ Len(group.entries) \in Nat
      /\ \A i \in 1..Len(group.entries) : group.entries[i] \in InFlight
      /\ \A e \in InFlight : \E i \in 1..Len(group.entries) : e = group.entries[i] /\ e.seq = lastSeq + i
  BY <1>1, EntriesInFlight
<1>7. \A e \in InFlight : e.seq \in Nat /\ lastSeq < e.seq /\ e.seq <= lastSeq + Len(group.entries)
  BY <1>4, <1>6
<1> QED
  BY <1>2, <1>3, <1>4, <1>5, <1>6, <1>7

(* What a set of entries shows up to the last sequence number, when only   *)
(* entries in flight are added.                                            *)
LEMMA InFlightUnseen ==
  ASSUME Inv, View, group # None, NEW E, NEW F, E \subseteq F, F \subseteq E \union InFlight,
         NEW s \in Nat, s <= lastSeq
  PROVE  Visible(F, s) = Visible(E, s)
<1>1. \A e \in F : e.seq <= s => e \in E
  <2> SUFFICES ASSUME NEW e \in InFlight PROVE ~(e.seq <= s)
    OBVIOUS
  <2>1. e.seq \in Nat /\ lastSeq < e.seq /\ lastSeq \in Nat
    BY WhileGrouped
  <2> QED
    BY <2>1
<1> QED
  BY <1>1, NewerUnseen

(* The group goes on: the log may get its record, the memtable an entry.   *)
LEMMA GroupSteps ==
  ASSUME Inv, View, Inv', group # None, group' # None,
         group'.members = group.members, group'.entries = group.entries,
         UNCHANGED <<op, writers, mem, imm, lastSeq, nextFile, version, logNumber, flush, merge, bgError,
                     snaps, gets, phase, tables, manifest>>,
         spent'.writes = spent.writes,
         group'.ok = FALSE => group'.inserted = 0,
         group'.step = "end" /\ group'.ok = TRUE => group'.inserted = Len(group.entries),
         DOMAIN logs' = DOMAIN logs, \A n \in DOMAIN logs : n # mem => logs'[n] = logs[n],
         RecordsOf(mem) \subseteq RecsOf(logs'[mem]), RecsOf(logs'[mem]) \subseteq RecordsOf(mem) \union InFlight,
         Logged' => InFlight \subseteq RecsOf(logs'[mem]),
         ~Logged' => ~Logged /\ RecsOf(logs'[mem]) = RecordsOf(mem),
         DOMAIN memtable' = DOMAIN memtable, \A i \in DOMAIN memtable : i # mem => memtable'[i] = memtable[i],
         memtable[mem] \subseteq memtable'[mem], memtable'[mem] \subseteq memtable[mem] \union Inserted',
         Inserted \subseteq Inserted', Inserted' \subseteq memtable'[mem] \intersect InFlight,
         Inserted' # {} => Logged'
  PROVE  View' /\ UNCHANGED KV!vars
<1>1. /\ Sound /\ Queue /\ Places /\ QueueIds /\ DOMAIN snaps = Readers /\ phase = "open"
      /\ GroupView /\ LogView /\ BadView /\ ReadersView /\ TablesView /\ Bad = {}
  BY WhileGrouped DEF Inv, View
<1>2. InFlight' = InFlight
  BY DEF InFlight
<1>3. /\ mem \in Nat /\ mem # 0 /\ imm \in Nat /\ imm # mem /\ mem \in DOMAIN memtable
      /\ (imm # 0 => imm \in DOMAIN memtable) /\ logNumber \in Nat
  BY <1>1, Opened
<1>4. RecordsOf(mem)' = RecsOf(logs'[mem])
  BY DEF RecordsOf, RecsOf
<1>5. GroupView'
  <2>1. CallsOf(group.members)' = CallsOf(group.members)
    BY DEF CallsOf, CallOf
  <2>2. InOrder(InFlight)' /\ Wrote(InFlight, CallsOf(group.members))'
    BY <1>2, <2>1, WhileGrouped DEF InOrder, Wrote
  <2> QED
    BY <2>2 DEF GroupView
<1>6. LogView'
  <2>1. imm # 0 => imm \in DOMAIN logs' /\ RecordsOf(imm)' = memtable'[imm]
    BY <1>1, <1>3 DEF LogView, RecordsOf
  <2>2. \A e \in memtable'[mem] : e.seq <= lastSeq \/ e \in Inserted'
    BY <1>1 DEF LogView
  <2>3. memtable'[mem] \subseteq RecsOf(logs'[mem])
    BY <1>1 DEF LogView
  <2>4. ~Logged' => \A e \in RecsOf(logs'[mem]) : e.seq <= lastSeq
    BY <1>1 DEF LogView
  <2>5. logNumber = (IF imm = 0 THEN mem ELSE imm) /\ \A n \in DOMAIN logs : n >= logNumber => n \in {imm, mem}
    BY <1>1 DEF LogView
  <2> QED
    BY <1>2, <1>4, <2>1, <2>2, <2>3, <2>4, <2>5 DEF LogView
<1>7. Bad' = {}
  BY <1>1, <1>2, <1>4 DEF Bad
<1>8. BadView' /\ ReadersView' /\ QueueIds' /\ ReplayView' /\ DOMAIN snaps' = Readers /\ phase' = "open"
  BY <1>1, <1>7 DEF BadView, ReadersView, QueueIds, ReplayView, Replays, Recovers
<1>9. TablesView'
  BY <1>1, <1>3, SameTables
<1>10. View'
  BY <1>5, <1>6, <1>8, <1>9 DEF View
<1>11. FailedInLog = {} /\ FailedInLog' = {}
  BY <1>1, <1>7, <1>8, <1>10, FailedIs, FailedIsThen
<1>12. Inserted' \subseteq InFlight
  OBVIOUS
<1>13. \A i \in DOMAIN memtable \union {0} :
         MemEntries(i) \subseteq MemEntries(i)' /\ MemEntries(i)' \subseteq MemEntries(i) \union InFlight
  <2> SUFFICES ASSUME NEW i \in DOMAIN memtable \union {0}
               PROVE  MemEntries(i) \subseteq MemEntries(i)' /\ MemEntries(i)' \subseteq MemEntries(i) \union InFlight
    OBVIOUS
  <2>1. CASE i = 0
    BY <2>1 DEF MemEntries
  <2>2. CASE i # 0 /\ i # mem
    BY <2>2 DEF MemEntries
  <2>3. CASE i = mem /\ i # 0
    BY <1>12, <2>3 DEF MemEntries
  <2> QED
    BY <2>1, <2>2, <2>3
<1>14. Newest \subseteq Newest' /\ Newest' \subseteq Newest \union InFlight
  <2>1. EntriesOf(version)' = EntriesOf(version)
    BY DEF EntriesOf
  <2>3. MemEntries(mem) \subseteq MemEntries(mem)' /\ MemEntries(mem)' \subseteq MemEntries(mem) \union InFlight
    BY <1>3, <1>13 DEF MemEntries
  <2>4. MemEntries(imm) \subseteq MemEntries(imm)' /\ MemEntries(imm)' \subseteq MemEntries(imm) \union InFlight
    BY <1>3, <1>13 DEF MemEntries
  <2> QED
    BY <2>1, <2>3, <2>4 DEF Newest
<1>15. \A s \in Nat : s <= lastSeq => Visible(Newest', s) = Visible(Newest, s)
  BY <1>14, InFlightUnseen
<1>16. StoreNow' = StoreNow /\ SnapsNow' = SnapsNow
  <2>1. StoreNow' = StoreNow
    BY <1>1, <1>15, WhileGrouped DEF StoreNow
  <2>2. \A r \in Readers : snaps[r] # None => Visible(Newest', snaps[r]) = Visible(Newest, snaps[r])
    BY <1>1, <1>15 DEF ReadersView
  <2> QED
    BY <2>1, <2>2 DEF SnapsNow
<1>17. GetsNow' = GetsNow
  <2>1. ASSUME NEW r \in Readers, gets[r] # None
        PROVE  Visible(Reads(r)', gets[r].seq) = Visible(Reads(r), gets[r].seq)
    <3>1. gets[r].mem \in DOMAIN memtable \union {0} /\ gets[r].imm \in DOMAIN memtable \union {0}
      <4>1. r \in Reading(gets) /\ DOMAIN memtable = Referenced(mem, imm, gets)
        BY <1>1, <2>1 DEF Reading, Places, Memtables
      <4> QED
        BY <4>1, ReferencedTo
    <3>2. EntriesOf(gets[r].version)' = EntriesOf(gets[r].version)
      BY DEF EntriesOf
    <3>3. MemEntries(gets[r].mem) \subseteq MemEntries(gets[r].mem)'
          /\ MemEntries(gets[r].mem)' \subseteq MemEntries(gets[r].mem) \union InFlight
      BY <1>13, <3>1 DEF MemEntries
    <3>4. MemEntries(gets[r].imm) \subseteq MemEntries(gets[r].imm)'
          /\ MemEntries(gets[r].imm)' \subseteq MemEntries(gets[r].imm) \union InFlight
      BY <1>13, <3>1 DEF MemEntries
    <3>5. Reads(r) \subseteq Reads(r)' /\ Reads(r)' \subseteq Reads(r) \union InFlight
      BY <3>2, <3>3, <3>4 DEF Reads
    <3>6. gets[r].seq \in Nat /\ gets[r].seq <= lastSeq
      BY <1>1, <2>1 DEF ReadersView
    <3> QED
      BY <3>5, <3>6, InFlightUnseen
  <2> QED
    BY <2>1 DEF GetsNow
<1>18. CallsNow' = CallsNow /\ LimboNow' = LimboNow
  BY <1>11 DEF CallsNow, CallOf, Waiting, LimboNow, WritesOf
<1> QED
  BY <1>10, <1>16, <1>17, <1>18, StoreSame

LEMMA AddRecordView ==
  ASSUME Inv, View, Inv', AddRecord
  PROVE  View' /\ UNCHANGED KV!vars
<1>1. Sound /\ Queue /\ Places /\ LogView /\ group # None /\ group.step = "log" /\ phase = "open"
      /\ InFlight \subseteq Entry
  BY WhileGrouped, EntriesInFlight DEF Inv, View, AddRecord
<1>2. /\ UNCHANGED <<op, writers, memtable, mem, imm, lastSeq, nextFile, version, logNumber, flush, merge, bgError,
                     snaps, gets, phase, tables, manifest>>
      /\ spent'.writes = spent.writes
  BY <1>1, Spending DEF AddRecord, Queue, Spent
<1>3. mem \in DOMAIN logs /\ LogFile(logs[mem])
  BY <1>1, Opened
<1>4. ~Logged /\ Inserted = {} /\ memtable[mem] \subseteq RecordsOf(mem)
  BY <1>1, AddRecordQueue DEF Logged, Inserted, LogView
<1>5. RecordsOf(mem) = RecsOf(logs[mem])
  BY DEF RecordsOf, RecsOf
<1>6. CASE /\ Goes(IF Leader.sync THEN "sync" ELSE "insert", 0, TRUE)
           /\ logs' = [logs EXCEPT ![mem].recs = Append(@, ToSet(group.entries))]
  <2>1. /\ group' # None /\ group'.members = group.members /\ group'.entries = group.entries
        /\ group'.step \in {"sync", "insert"} /\ group'.inserted = 0 /\ group'.ok = TRUE
    BY <1>6 DEF Goes
  <2>2. DOMAIN logs' = DOMAIN logs /\ \A n \in DOMAIN logs : LogFile(logs'[n]) /\ (n # mem => logs'[n] = logs[n])
    BY <1>1, <1>3, <1>6, AddRecordLogs
  <2>3. /\ Len(logs'[mem].recs) = Len(logs[mem].recs) + 1
        /\ logs'[mem].recs[Len(logs[mem].recs) + 1] = InFlight
        /\ \A i \in 1..Len(logs[mem].recs) : logs'[mem].recs[i] = logs[mem].recs[i]
    BY <1>1, <1>3, <1>6, AddRecordLogs
  <2>4. RecsOf(logs'[mem]) = RecsOf(logs[mem]) \union InFlight
    <3> DEFINE l == logs[mem]
               k == logs'[mem]
    <3>1. LogFile(l) /\ LogFile(k) /\ InFlight \subseteq Entry
      BY <1>1, <1>3, <2>2
    <3>2. Len(k.recs) = Len(l.recs) + 1 /\ k.recs[Len(l.recs) + 1] = InFlight
          /\ \A i \in 1..Len(l.recs) : k.recs[i] = l.recs[i]
      BY <2>3
    <3> HIDE DEF l, k
    <3>3. RecsOf(k) = RecsOf(l) \union InFlight
      BY <3>1, <3>2, RecordsAppended
    <3> QED
      BY <3>3 DEF l, k
  <2>5. Logged' /\ Inserted' = {}
    BY <2>1 DEF Logged, Inserted
  <2> QED
    BY <1>1, <1>2, <1>4, <1>5, <2>1, <2>2, <2>4, <2>5, GroupSteps
<1>7. CASE Goes("end", 0, FALSE) /\ UNCHANGED logs
  <2>1. /\ group' # None /\ group'.members = group.members /\ group'.entries = group.entries
        /\ group'.step = "end" /\ group'.inserted = 0 /\ group'.ok = FALSE
    BY <1>7 DEF Goes
  <2>2. ~Logged' /\ Inserted' = {}
    BY <2>1 DEF Logged, Inserted
  <2> QED
    BY <1>1, <1>2, <1>4, <1>5, <1>7, <2>1, <2>2, GroupSteps
<1> QED
  BY <1>1, <1>6, <1>7, AddRecordQueue

LEMMA SyncLogView ==
  ASSUME Inv, View, Inv', SyncLog
  PROVE  View' /\ UNCHANGED KV!vars
<1>1. Sound /\ Queue /\ Places /\ LogView /\ group # None /\ group.step = "sync" /\ phase = "open"
  BY WhileGrouped DEF Inv, View, SyncLog
<1>2. /\ UNCHANGED <<op, writers, memtable, mem, imm, lastSeq, nextFile, version, logNumber, flush, merge, bgError,
                     snaps, gets, phase, tables, manifest>>
      /\ spent'.writes = spent.writes
  BY <1>1, Spending DEF SyncLog, Queue, Spent
<1>3. mem \in DOMAIN logs
  BY <1>1, Opened
<1>4. Logged /\ Inserted = {} /\ InFlight \subseteq RecordsOf(mem)
  BY <1>1, SyncLogQueue DEF Logged, Inserted, LogView
<1>5. RecordsOf(mem) = RecsOf(logs[mem])
  BY DEF RecordsOf, RecsOf
<1>6. /\ group' # None /\ group'.members = group.members /\ group'.entries = group.entries
      /\ group'.step \in {"insert", "syncError"} /\ group'.inserted = 0
  BY <1>1, SyncLogQueue DEF Goes
<1>7. Logged' /\ Inserted' = {}
  BY <1>6 DEF Logged, Inserted
<1>8. /\ DOMAIN logs' = DOMAIN logs /\ \A n \in DOMAIN logs : n # mem => logs'[n] = logs[n]
      /\ logs'[mem].recs = logs[mem].recs
  BY <1>1, <1>3, SyncLogQueue, SyncLogLogs
<1>9. RecsOf(logs'[mem]) = RecsOf(logs[mem])
  BY <1>8 DEF RecsOf
<1> QED
  BY <1>1, <1>2, <1>4, <1>5, <1>6, <1>7, <1>8, <1>9, GroupSteps

LEMMA InsertView ==
  ASSUME Inv, View, Inv', InsertIntoMem
  PROVE  View' /\ UNCHANGED KV!vars
<1>1. Sound /\ Queue /\ Places /\ LogView /\ group # None /\ group.step = "insert" /\ phase = "open"
  BY WhileGrouped DEF Inv, View, InsertIntoMem
<1>2. /\ UNCHANGED <<op, writers, mem, imm, lastSeq, nextFile, version, logNumber, flush, merge, bgError,
                     snaps, gets, phase, tables, manifest, logs, spent>>
  BY DEF InsertIntoMem, disk
<1>3. mem \in DOMAIN memtable
  BY <1>1, Opened
<1> DEFINE n == group.inserted + 1
           e == group.entries[n]
<1>4. /\ group.inserted \in Nat /\ n \in 1..Len(group.entries)
      /\ Goes(IF n = Len(group.entries) THEN "end" ELSE "insert", n, TRUE)
      /\ memtable' = [memtable EXCEPT ![mem] = @ \union {e}]
  BY <1>1, InsertQueue
<1>5. e \in InFlight /\ Len(group.entries) \in Nat /\ \A i \in 1..Len(group.entries) : group.entries[i] \in InFlight
  BY <1>1, <1>4, WhileGrouped
<1>6. Logged /\ InFlight \subseteq RecordsOf(mem) /\ Inserted \subseteq memtable[mem]
      /\ memtable[mem] \subseteq RecordsOf(mem)
  BY <1>1 DEF Logged, LogView
<1>7. RecordsOf(mem) = RecsOf(logs[mem])
  BY DEF RecordsOf, RecsOf
<1>8. /\ group' # None /\ group'.members = group.members /\ group'.entries = group.entries
      /\ group'.step = (IF n = Len(group.entries) THEN "end" ELSE "insert") /\ group'.inserted = n /\ group'.ok = TRUE
  BY <1>4 DEF Goes
<1>9. Logged'
  BY <1>8 DEF Logged
<1>10. Inserted = {group.entries[i] : i \in 1..group.inserted} /\ Inserted' = {group.entries[i] : i \in 1..n}
  BY <1>1, <1>8 DEF Inserted
<1>11. Inserted' = Inserted \union {e}
  <2>1. 1..n = 1..group.inserted \union {n}
    BY <1>4
  <2> QED
    BY <1>10, <2>1
<1>12. Inserted' \subseteq InFlight
  <2>1. 1..n \subseteq 1..Len(group.entries)
    BY <1>4, <1>5
  <2> QED
    BY <1>5, <1>10, <2>1
<1> HIDE DEF e, n
<1>13. /\ DOMAIN memtable' = DOMAIN memtable /\ \A i \in DOMAIN memtable : i # mem => memtable'[i] = memtable[i]
       /\ memtable'[mem] = memtable[mem] \union {e}
  BY <1>3, <1>4
<1>14. group'.step = "end" => group'.inserted = Len(group.entries)
  BY <1>8
<1> QED
  BY <1>1, <1>2, <1>5, <1>6, <1>7, <1>8, <1>9, <1>11, <1>12, <1>13, <1>14, GroupSteps

(* The updates of a group whose sync failed, by their calls.               *)
LEMMA LimboIsOfCalls ==
  ASSUME Inv, View, group # None
  PROVE  WritesOf(InFlight) \subseteq CallsOf(group.members)
<1>1. Calls /\ QueueIds /\ Wrote(InFlight, CallsOf(group.members)) /\ InFlight \subseteq Entry
  BY WhileGrouped, EntriesInFlight DEF Inv, Queue, View
<1>2. PICK k \in 1..Len(writers) : group.members = SubSeq(writers, 1, k)
  BY WhileGrouped
<1>3. CallsOf(group.members) \subseteq CallsNow
  <2>1. \A i \in 1..k : SubSeq(writers, 1, k)[i] = writers[i] /\ i \in 1..Len(writers)
    BY <1>1 DEF Calls
  <2>2. Len(SubSeq(writers, 1, k)) = k /\ DOMAIN SubSeq(writers, 1, k) = 1..k
    BY <1>1 DEF Calls
  <2>3. ToSet(SubSeq(writers, 1, k)) \subseteq Waiting
    BY <1>1, <2>1, <2>2, CallsAre DEF ToSet
  <2> QED
    BY <1>2, <2>3 DEF CallsOf, CallsNow
<1> SUFFICES ASSUME NEW e \in InFlight
             PROVE  [id |-> e.val, keys |-> {f.key : f \in {g \in InFlight : g.val = e.val}}] \in CallsOf(group.members)
  BY DEF WritesOf
<1>4. e.key \in Keys /\ e.val \in Nat
  BY <1>1 DEF Entry
<1>5. PICK w \in CallsOf(group.members) : e.key \in w.keys /\ w.id = e.val
  BY <1>1, <1>4 DEF Wrote
<1>6. ASSUME NEW v \in CallsOf(group.members), v.id = w.id
      PROVE  v = w
  <2>1. PICK x \in Waiting, y \in Waiting : v = CallOf(x) /\ w = CallOf(y)
    BY <1>3, <1>5, <1>6 DEF CallsNow
  <2>2. op[x].id = op[y].id
    BY <1>6, <2>1 DEF CallOf
  <2> QED
    BY <1>1, <2>1, <2>2, IdsAreUnique
<1>7. PICK y \in Waiting : w = CallOf(y)
  BY <1>3, <1>5 DEF CallsNow
<1>8. w.keys \subseteq Keys
  BY <1>1, <1>7, CallsAre DEF CallOf, ToSet
<1> DEFINE ks == {f.key : f \in {g \in InFlight : g.val = e.val}}
<1>9. \A x \in ks : x \in w.keys
  <2> SUFFICES ASSUME NEW f \in InFlight, f.val = e.val PROVE f.key \in w.keys
    OBVIOUS
  <2>1. f.key \in Keys
    BY <1>1 DEF Entry
  <2>2. PICK v \in CallsOf(group.members) : f.key \in v.keys /\ v.id = e.val
    BY <1>1, <1>4, <2>1 DEF Wrote
  <2> QED
    BY <1>5, <1>6, <2>2
<1>10. ASSUME NEW x \in w.keys PROVE x \in ks
  <2>1. \E f \in InFlight : f.key = x /\ f.val = e.val
    BY <1>1, <1>4, <1>5, <1>8 DEF Wrote
  <2> QED
    BY <2>1
<1>11. ks = w.keys
  BY <1>9, <1>10
<1>12. w = [id |-> w.id, keys |-> w.keys]
  BY <1>7 DEF CallOf
<1> HIDE DEF ks
<1>13. w = [id |-> e.val, keys |-> ks]
  BY <1>5, <1>11, <1>12
<1> QED
  BY <1>5, <1>13 DEF ks

(* The group ends: all of it is in the memtable, or nothing.               *)
LEMMA GroupEnds ==
  ASSUME Inv, View, FinishWrite
  PROVE  /\ phase = "open" /\ lastSeq' \in Nat /\ lastSeq <= lastSeq' /\ group' = None
         /\ \A e \in memtable[mem] : e.seq <= lastSeq'
         /\ \/ /\ group.ok = TRUE /\ group.step = "end" /\ Inserted = InFlight /\ InFlight \subseteq memtable[mem]
               /\ RecordsOf(mem) \subseteq memtable[mem] /\ bgError' = bgError
            \/ /\ group.step = "end" /\ \A e \in Newest : e.seq <= lastSeq
               /\ RecordsOf(mem) \subseteq memtable[mem] /\ bgError' = bgError
            \/ /\ group.step = "syncError" /\ \A e \in Newest : e.seq <= lastSeq
               /\ InFlight \subseteq RecordsOf(mem) /\ RecordsOf(mem) \ memtable[mem] = InFlight /\ bgError' = TRUE
<1>1. /\ group # None /\ group' = None /\ lastSeq' = lastSeq + Len(group.entries)
      /\ bgError' = (bgError \/ group.step = "syncError") /\ group.step \in {"end", "syncError"}
  BY DEF FinishWrite
<1>2. /\ Sound /\ Queue /\ Places /\ LogView /\ GroupView /\ Bad = {} /\ phase = "open" /\ group \in Groups
      /\ lastSeq \in Nat /\ Len(group.entries) \in Nat
  BY <1>1, WhileGrouped DEF Inv, View
<1>3. \A e \in InFlight : e.seq \in Nat /\ lastSeq < e.seq /\ e.seq <= lastSeq'
  BY <1>1, WhileGrouped
<1>4. PICK A : Good(A) /\ PoolOf(A)
  BY DEF Inv, Pool
<1>5. OpenPool(A) /\ \A e \in A : e.seq \in Nat
  BY <1>2, <1>4 DEF PoolOf, Good, Entry
<1>6. lastSeq' \in Nat /\ lastSeq <= lastSeq'
  BY <1>1, <1>2
<1>7. memtable[mem] \subseteq A /\ RecordsOf(mem) \subseteq memtable[mem] \union InFlight
  BY <1>2, <1>5 DEF OpenPool, Bad
<1>8. InFlight = {group.entries[i] : i \in 1..Len(group.entries)}
  BY <1>1, <1>2, EntriesInFlight DEF ToSet, Groups
<1>9. Inserted \subseteq InFlight /\ (group.inserted = 0 => Inserted = {})
  <2>1. group.inserted = 0 => Inserted = {}
    BY DEF Inserted
  <2>2. CASE group.ok = TRUE /\ group.step = "end"
    BY <1>1, <1>2, <1>8, <2>2 DEF GroupView, Inserted
  <2>3. CASE group.ok = FALSE
    BY <1>1, <1>2, <2>1, <2>3 DEF GroupView
  <2>4. group.ok \in BOOLEAN /\ (group.step = "syncError" => group.ok = FALSE)
    BY <1>1, <1>2 DEF Groups, Queue, Group, Progress
  <2> QED
    BY <1>1, <2>1, <2>2, <2>3, <2>4
<1>10. \A e \in memtable[mem] : e.seq <= lastSeq'
  <2> SUFFICES ASSUME NEW e \in memtable[mem] PROVE e.seq <= lastSeq'
    OBVIOUS
  <2>1. e.seq \in Nat /\ (e.seq <= lastSeq \/ e \in InFlight)
    BY <1>2, <1>5, <1>7, <1>9 DEF LogView
  <2> QED
    BY <1>2, <1>3, <1>6, <2>1
<1>11. CASE group.ok = TRUE /\ group.step = "end"
  <2>1. Inserted = InFlight
    BY <1>1, <1>2, <1>8, <1>11 DEF GroupView, Inserted
  <2>2. InFlight \subseteq memtable[mem]
    BY <1>2, <2>1 DEF LogView
  <2>3. bgError' = bgError
    BY <1>1, <1>2, <1>11 DEF Sound, Stages
  <2> QED
    BY <1>1, <1>2, <1>6, <1>7, <1>10, <1>11, <2>1, <2>2, <2>3
<1>12. ASSUME group.ok = FALSE PROVE Inserted = {} /\ \A e \in Newest : e.seq <= lastSeq
  <2>1. Inserted = {}
    BY <1>1, <1>2, <1>9, <1>12 DEF GroupView
  <2>2. \A e \in memtable[mem] : e.seq <= lastSeq
    BY <1>2, <2>1 DEF LogView
  <2>3. \A e \in Content(tables, Files(version)) : e.seq <= lastSeq
    BY <1>5 DEF OpenPool, Upto
  <2>4. \A e \in MemEntries(imm) : e.seq <= lastSeq
    BY <1>5 DEF OpenPool, Upto, MemEntries
  <2> QED
    BY <1>2, <2>1, <2>2, <2>3, <2>4, Opened
<1>13. CASE group.ok = FALSE /\ group.step = "end"
  <2>1. \A e \in RecordsOf(mem) : e.seq <= lastSeq
    BY <1>1, <1>2, <1>13 DEF LogView, Logged
  <2>2. RecordsOf(mem) \subseteq memtable[mem]
    <3> SUFFICES ASSUME NEW e \in RecordsOf(mem), e \in InFlight PROVE FALSE
      BY <1>7
    <3> QED
      BY <1>2, <1>3, <2>1
  <2>3. bgError' = bgError
    BY <1>1, <1>2, <1>13 DEF Sound, Stages
  <2> QED
    BY <1>1, <1>2, <1>6, <1>10, <1>12, <1>13, <2>2, <2>3
<1>14. CASE group.step = "syncError"
  <2>1. group.ok = FALSE
    BY <1>1, <1>2, <1>14 DEF Queue, Group, Progress
  <2>2. InFlight \subseteq RecordsOf(mem)
    BY <1>1, <1>2, <1>14 DEF LogView, Logged
  <2>3. \A e \in memtable[mem] : e.seq <= lastSeq
    BY <1>2, <1>12, <2>1, Opened
  <2>4. \A e \in InFlight : e \notin memtable[mem]
    BY <1>2, <1>3, <2>3
  <2>5. RecordsOf(mem) \ memtable[mem] = InFlight
    BY <1>7, <2>2, <2>4
  <2>6. bgError' = TRUE
    BY <1>1, <1>14
  <2> QED
    BY <1>1, <1>2, <1>6, <1>10, <1>12, <1>14, <2>1, <2>2, <2>5, <2>6
<1>15. group.ok \in BOOLEAN
  BY <1>2 DEF Groups
<1> QED
  BY <1>1, <1>11, <1>13, <1>14, <1>15

LEMMA FinishWriteView ==
  ASSUME Inv, View, Inv', FinishWrite
  PROVE  View' /\ KV!Next
<1>1. /\ group # None /\ group' = None /\ Answer(group.members) /\ spent' = spent
      /\ UNCHANGED <<memtable, mem, imm, nextFile, version, logNumber, flush, merge, snaps, gets, phase,
                     logs, tables, manifest>>
  BY DEF FinishWrite, disk
<1>2. /\ Sound /\ Queue /\ Calls /\ Places /\ LogView /\ ReadersView /\ TablesView /\ ReplayView /\ QueueIds
      /\ DOMAIN snaps = Readers /\ Bad = {} /\ phase = "open" /\ lastSeq \in Nat
      /\ InOrder(InFlight) /\ Wrote(InFlight, CallsOf(group.members))
  BY <1>1, WhileGrouped DEF Inv, View, Queue
<1>3. PICK k \in 1..Len(writers) : group.members = SubSeq(writers, 1, k)
  BY <1>1, WhileGrouped
<1> DEFINE W == CallsOf(SubSeq(writers, 1, k))
<1>4. W = CallsOf(group.members)
  BY <1>3
<1>5. /\ QueueIds' /\ W \subseteq CallsNow /\ W # {} /\ CallsNow' = CallsNow \ W
      /\ \A w \in W, c \in CallsNow \ W : w.id < c.id
  BY <1>1, <1>2, <1>3, AnsweredIds
<1>6. /\ lastSeq' \in Nat /\ lastSeq <= lastSeq' /\ \A e \in memtable[mem] : e.seq <= lastSeq'
  BY GroupEnds
<1> HIDE DEF W
<1>7. RecordsOf(mem)' = RecordsOf(mem) /\ (imm # 0 => RecordsOf(imm)' = RecordsOf(imm)) /\ Newest' = Newest
  BY <1>1 DEF RecordsOf, Newest, MemEntries, EntriesOf
<1>8. InFlight' = {} /\ Inserted' = {} /\ ~Logged'
  BY <1>1 DEF InFlight, Inserted, Logged
<1>9. Bad' = RecordsOf(mem) \ memtable[mem]
  BY <1>1, <1>7, <1>8 DEF Bad
<1>10. LogView'
  BY <1>1, <1>2, <1>6, <1>7, <1>8 DEF LogView
<1>11. GroupView' /\ TablesView' /\ ReplayView'
  BY <1>1, <1>2, SameTables DEF GroupView, ReplayView, Replays, Recovers
<1>12. ReadersView'
  <2>1. \A n \in Nat : n <= lastSeq => n <= lastSeq'
    BY <1>2, <1>6
  <2> QED
    BY <1>1, <1>2, <2>1 DEF ReadersView
<1>13. BadView'
  <2> SUFFICES ASSUME Bad' # {} PROVE BadView'
    BY DEF BadView
  <2>1. /\ \A e \in Newest : e.seq <= lastSeq
        /\ Bad' = InFlight /\ bgError' = TRUE
    BY <1>9, GroupEnds
  <2>2. PICK A : Good(A) /\ PoolOf(A)
    BY DEF Inv, Pool
  <2>3. Newest \subseteq A
    <3>1. OpenPool(A)
      BY <1>2, <2>2 DEF PoolOf
    <3>2. memtable[mem] \subseteq A /\ MemEntries(imm) \subseteq A /\ Content(tables, Files(version)) \subseteq A
      BY <3>1 DEF OpenPool, Upto, MemEntries
    <3> QED
      BY <1>2, <3>2, Opened
  <2>4. ASSUME NEW e \in InFlight
        PROVE  e.seq <= lastSeq' /\ e.val <= spent'.writes /\ \A f \in Newest' : f.seq < e.seq
    <3>1. e.seq \in Nat /\ lastSeq < e.seq
      BY <1>1, WhileGrouped
    <3>2. e.seq <= lastSeq'
      BY <1>1, WhileGrouped DEF FinishWrite
    <3>3. e \in Entry
      BY <1>1, <1>2, EntriesInFlight
    <3>4. PICK w \in W : w.id = e.val
      BY <1>2, <1>4, <3>3 DEF Wrote, Entry
    <3>5. PICK x \in Waiting : w = CallOf(x)
      BY <1>5, <3>4 DEF CallsNow
    <3>6. w.id <= spent.writes
      BY <1>2, <3>5 DEF CallOf, QueueIds, Waiting
    <3>7. \A f \in Newest : f.seq < e.seq
      <4> SUFFICES ASSUME NEW f \in Newest PROVE f.seq < e.seq
        OBVIOUS
      <4>1. f.seq \in Nat /\ f.seq <= lastSeq
        BY <2>1, <2>2, <2>3 DEF Good, Entry
      <4> QED
        BY <1>2, <3>1, <4>1
    <3> QED
      BY <1>1, <1>7, <3>2, <3>4, <3>6, <3>7
  <2>5. InOrder(Bad)'
    BY <1>2, <2>1 DEF InOrder
  <2> QED
    BY <1>1, <2>1, <2>4, <2>5 DEF BadView
<1>14. View'
  BY <1>1, <1>2, <1>5, <1>10, <1>11, <1>12, <1>13 DEF View
<1>15. FailedInLog = {} /\ FailedInLog' = Bad'
  BY <1>1, <1>2, <1>14, FailedIs, FailedIsThen
<1>16. SnapsNow' = SnapsNow /\ GetsNow' = GetsNow
  BY <1>1, <1>7 DEF SnapsNow, GetsNow, Reads, MemEntries, EntriesOf
<1>17. StoreNow = Visible(Newest, lastSeq) /\ StoreNow' = Visible(Newest, lastSeq')
  BY <1>1, <1>2, <1>7 DEF StoreNow
<1>18. PICK A : Good(A) /\ PoolOf(A)
  BY DEF Inv, Pool
<1>19. /\ Newest \subseteq A /\ InFlight \subseteq A /\ \A e \in A : e.seq \in Nat /\ (e.seq <= lastSeq \/ e \in InFlight)
  <2>1. OpenPool(A)
    BY <1>2, <1>18 DEF PoolOf
  <2>2. memtable[mem] \subseteq A /\ MemEntries(imm) \subseteq A /\ Content(tables, Files(version)) \subseteq A
    BY <2>1 DEF OpenPool, Upto, MemEntries
  <2> QED
    BY <1>2, <1>18, <2>1, <2>2, Opened DEF OpenPool, Good, Entry
<1>20. LimboNow = {}
  BY <1>15 DEF LimboNow, WritesOf
<1>21. CASE InFlight \subseteq memtable[mem] /\ RecordsOf(mem) \subseteq memtable[mem]
  <2>1. LimboNow' = {}
    BY <1>9, <1>15, <1>21 DEF LimboNow, WritesOf
  <2>2. \A w \in W : w.id \in Nat
    BY <1>2, <1>5, CallsAre
  <2>3. \A x \in InFlight : x.seq <= lastSeq' /\ \A e \in Newest : e.seq <= lastSeq => e.seq < x.seq
    <3> SUFFICES ASSUME NEW x \in InFlight
                 PROVE  x.seq <= lastSeq' /\ \A e \in Newest : e.seq <= lastSeq => e.seq < x.seq
      OBVIOUS
    <3>1. x.seq \in Nat /\ lastSeq < x.seq
      BY <1>1, WhileGrouped
    <3>2. x.seq <= lastSeq'
      BY <1>1, WhileGrouped DEF FinishWrite
    <3> QED
      BY <1>2, <1>19, <3>1, <3>2
  <2>4. InFlight \subseteq Newest
    BY <1>2, <1>21, Opened
  <2>5. AsNew(Newest, lastSeq', Newest, lastSeq) /\ AsNew(Newest, lastSeq', InFlight, lastSeq')
    <3>1. \A e \in Newest : e.seq <= e.seq /\ (e.seq <= lastSeq => e.seq <= lastSeq')
      BY <1>2, <1>6, <1>19
    <3> QED
      BY <2>4, <3>1 DEF AsNew
  <2>6. \A f \in Newest : f.seq <= lastSeq' =>
           \/ \E x \in InFlight : x.key = f.key /\ f.seq <= x.seq
           \/ \E e \in Newest : e.key = f.key /\ f.seq <= e.seq /\ e.seq <= lastSeq
    <3> SUFFICES ASSUME NEW f \in Newest
                 PROVE  \/ \E x \in InFlight : x.key = f.key /\ f.seq <= x.seq
                        \/ \E e \in Newest : e.key = f.key /\ f.seq <= e.seq /\ e.seq <= lastSeq
      OBVIOUS
    <3>1. f.seq \in Nat /\ (f.seq <= lastSeq \/ f \in InFlight) /\ f.seq <= f.seq
      BY <1>19
    <3> QED
      BY <3>1
  <2>7. InOrder(InFlight) /\ Wrote(InFlight, W)
    BY <1>2, <1>4
  <2>8. Visible(Newest, lastSeq') = KV!Apply(Visible(Newest, lastSeq), W)
    BY <1>18, <1>19, <2>2, <2>3, <2>5, <2>6, <2>7, Committed
  <2>9. W \in SUBSET CallsNow
    BY <1>5
  <2>10. KV!Next
    BY <1>5, <1>16, <1>17, <1>20, <2>1, <2>8, <2>9, StoreCommits
  <2> QED
    BY <1>14, <2>10
<1>22. ASSUME \A e \in Newest : e.seq <= lastSeq
       PROVE  StoreNow' = StoreNow
  <2>1. \A e \in Newest : e.seq <= e.seq /\ e.seq <= lastSeq /\ e.seq <= lastSeq'
    BY <1>2, <1>6, <1>19, <1>22
  <2>2. AsNew(Newest, lastSeq', Newest, lastSeq) /\ AsNew(Newest, lastSeq, Newest, lastSeq')
    BY <2>1 DEF AsNew
  <2> QED
    BY <1>17, <1>18, <1>19, <2>2, SameView
<1>23. CASE RecordsOf(mem) \subseteq memtable[mem] /\ \A e \in Newest : e.seq <= lastSeq
  <2>1. LimboNow' = LimboNow \union {}
    BY <1>9, <1>15, <1>20, <1>23 DEF LimboNow, WritesOf
  <2>2. W \in SUBSET CallsNow /\ {} \in SUBSET W
    BY <1>5
  <2>3. KV!Next
    BY <1>5, <1>16, <1>22, <1>23, <2>1, <2>2, StoreFails
  <2> QED
    BY <1>14, <2>3
<1>24. CASE RecordsOf(mem) \ memtable[mem] = InFlight /\ \A e \in Newest : e.seq <= lastSeq
  <2>1. LimboNow' = WritesOf(InFlight)
    BY <1>9, <1>15, <1>24 DEF LimboNow, WritesOf
  <2>2. WritesOf(InFlight) \in SUBSET W
    BY <1>1, <1>4, LimboIsOfCalls
  <2>3. LimboNow' = LimboNow \union WritesOf(InFlight)
    BY <1>20, <2>1
  <2>4. W \in SUBSET CallsNow
    BY <1>5
  <2>5. KV!Next
    BY <1>5, <1>16, <1>22, <1>24, <2>2, <2>3, <2>4, StoreFails
  <2> QED
    BY <1>14, <2>5
<1> QED
  BY <1>21, <1>23, <1>24, GroupEnds

-----------------------------------------------------------------------------
(* A switch of memtables.                                                  *)

(* The readers go on to see what they saw, from the memtables and the      *)
(* tables they refer to.                                                   *)
LEMMA SameReads ==
  ASSUME Inv, View, phase = "open", gets' = gets,
         \A r \in Readers : gets[r] # None =>
           /\ MemEntries(gets[r].mem)' = MemEntries(gets[r].mem) /\ MemEntries(gets[r].imm)' = MemEntries(gets[r].imm)
           /\ Content(tables', Files(gets[r].version)) = Content(tables, Files(gets[r].version))
  PROVE  GetsNow' = GetsNow
<1>1. \A r \in Readers : gets[r] # None => Reads(r)' = Reads(r)
  BY DEF Reads, EntriesOf, Content
<1> QED
  BY <1>1 DEF GetsNow

(* The memtables a reader refers to.                                       *)
LEMMA ReadersMemtables ==
  ASSUME Places, NEW r \in Readers, gets[r] # None
  PROVE  /\ gets[r].mem \in DOMAIN memtable \union {0} /\ gets[r].imm \in DOMAIN memtable \union {0}
         /\ DOMAIN memtable = Referenced(mem, imm, gets)
<1>1. r \in Reading(gets) /\ DOMAIN memtable = Referenced(mem, imm, gets)
  BY DEF Reading, Places, Memtables
<1> QED
  BY <1>1, ReferencedTo

LEMMA SwitchMemTableView ==
  ASSUME Inv, View, Inv', SwitchMemTable
  PROVE  View' /\ (KV!Next \/ UNCHANGED KV!vars)
<1>1. /\ FrontReady /\ Lead /\ imm = 0 /\ imm' = mem /\ mem' = nextFile /\ nextFile' = nextFile + 1
      /\ logs' = With(logs, nextFile, NewLog) /\ memtable' = With(memtable, nextFile, {})
      /\ phase = "open" /\ group = None /\ writers # <<>>
      /\ UNCHANGED <<lastSeq, version, logNumber, flush, merge, bgError, snaps, gets, phase, tables, manifest, spent>>
  BY DEF SwitchMemTable, MaySwitch, FrontReady
<1>2. /\ Sound /\ Queue /\ Calls /\ Places /\ QueueIds /\ GroupView /\ LogView /\ BadView /\ ReadersView /\ TablesView
      /\ ReplayView /\ DOMAIN snaps = Readers /\ bgError = FALSE /\ Bad = {}
  BY <1>1 DEF Inv, View, Queue, SwitchMemTable, Sound, Stages, BadView
<1>3. /\ mem \in Nat /\ mem # 0 /\ mem \in DOMAIN logs /\ mem \in DOMAIN memtable /\ mem < nextFile
      /\ nextFile \in Nat /\ manifest.log \in Nat /\ manifest.log <= mem /\ DOMAIN logs \subseteq Nat
      /\ flush = None
  BY <1>1, <1>2, Opened DEF Places, Memtables
<1>4. /\ DOMAIN logs' = DOMAIN logs \union {nextFile} /\ logs'[nextFile] = NewLog
      /\ \A n \in DOMAIN logs : n # nextFile => logs'[n] = logs[n]
      /\ DOMAIN memtable' = DOMAIN memtable \union {nextFile} /\ memtable'[nextFile] = {}
      /\ \A n \in DOMAIN memtable : n # nextFile => memtable'[n] = memtable[n]
  BY <1>1 DEF With
<1>5. nextFile # 0 /\ mem # nextFile /\ memtable'[mem] = memtable[mem] /\ logs'[mem] = logs[mem]
  BY <1>3, <1>4
<1>6. InFlight = {} /\ Inserted = {}
  BY <1>1 DEF InFlight, Inserted
<1>7. RecordsOf(mem) = memtable[mem] /\ \A e \in memtable[mem] : e.seq <= lastSeq
  BY <1>2, <1>6 DEF Bad, LogView
<1>8. RecordsOf(mem)' = {}
  <2>1. logs'[mem'].recs = <<>>
    BY <1>1, <1>4 DEF NewLog
  <2>2. ToSet(<<>>) = {}
    BY DEF ToSet
  <2> QED
    BY <2>1, <2>2 DEF RecordsOf
<1>9. RecordsOf(imm)' = memtable'[mem]
  BY <1>1, <1>5, <1>7 DEF RecordsOf
<1>10. Bad' = {}
  BY <1>8 DEF Bad
<1>11. BadView' /\ ReplayView' /\ DOMAIN snaps' = Readers
  BY <1>1, <1>2, <1>10 DEF BadView, ReplayView, Replays, Recovers
<1>12. ReadersView'
  <2>1. \A S : Below(S, nextFile) => Below(S, nextFile')
    BY <1>1, <1>3 DEF Below
  <2> QED
    BY <1>1, <1>2, <2>1 DEF ReadersView
<1>13. TablesView'
  <2>1. MemEntries(imm) = {} /\ MemEntries(imm)' = memtable[mem]
    BY <1>1, <1>3, <1>5 DEF MemEntries
  <2>2. Says(manifest)
    BY <1>2 DEF TablesView
  <2>3. ~(manifest'.log > imm')
    BY <1>1, <1>3
  <2>4. Covers(Content(tables, Files(version)), Content(tables, Files(manifest.version)))
    BY <2>1, <2>2 DEF Says
  <2>5. Covers(Content(tables, Files(version)) \union memtable[mem], Content(tables, Files(manifest.version)))
    BY <2>4, CoversLess
  <2>6. Says(manifest)'
    BY <1>1, <2>1, <2>2, <2>3, <2>5 DEF Says, Files
  <2> QED
    BY <1>1, <1>2, <1>3, <2>6 DEF TablesView, Files
<1>14. ASSUME group' = None \/ (group'.step = "log" /\ group'.inserted = 0)
       PROVE  LogView'
  <2>1. logNumber = mem /\ \A n \in DOMAIN logs : n >= logNumber => n = mem
    <3>1. \A n \in DOMAIN logs : n >= logNumber => n \in {imm, mem}
      BY <1>2 DEF LogView
    <3>2. logNumber = mem
      BY <1>1, <1>2 DEF LogView
    <3>3. \A n \in DOMAIN logs : n >= logNumber => n # 0
      BY <1>3, <3>2
    <3> QED
      BY <1>1, <3>1, <3>2, <3>3
  <2>2. ~Logged' /\ Inserted' = {}
    BY <1>14 DEF Logged, Inserted
  <2>3. logNumber' = (IF imm' = 0 THEN mem' ELSE imm')
    BY <1>1, <1>3, <2>1
  <2>4. \A n \in DOMAIN logs' : n >= logNumber' => n \in {imm', mem'}
    BY <1>1, <1>4, <2>1
  <2>5. imm' \in DOMAIN logs' /\ RecordsOf(imm)' = memtable'[imm']
    BY <1>1, <1>3, <1>4, <1>9
  <2>6. memtable'[mem'] = {} /\ RecordsOf(mem)' = {}
    BY <1>1, <1>4, <1>8
  <2> QED
    BY <2>2, <2>3, <2>4, <2>5, <2>6 DEF LogView
<1>15. Newest' = Newest
  <2>1. MemEntries(mem) = memtable[mem] /\ MemEntries(imm) = {} /\ MemEntries(mem)' = {} /\ MemEntries(imm)' = memtable[mem]
    BY <1>1, <1>3, <1>4, <1>5 DEF MemEntries
  <2>2. EntriesOf(version)' = EntriesOf(version)
    BY <1>1 DEF EntriesOf
  <2> QED
    BY <2>1, <2>2 DEF Newest
<1>16. StoreNow' = StoreNow /\ SnapsNow' = SnapsNow
  BY <1>1, <1>15 DEF StoreNow, SnapsNow
<1>17. GetsNow' = GetsNow
  <2>1. ASSUME NEW r \in Readers, gets[r] # None
        PROVE  /\ MemEntries(gets[r].mem)' = MemEntries(gets[r].mem) /\ MemEntries(gets[r].imm)' = MemEntries(gets[r].imm)
               /\ Content(tables', Files(gets[r].version)) = Content(tables, Files(gets[r].version))
    <3>1. gets[r].mem \in DOMAIN memtable \union {0} /\ gets[r].imm \in DOMAIN memtable \union {0}
      BY <1>2, <2>1, ReadersMemtables
    <3>2. gets[r].mem # nextFile /\ gets[r].imm # nextFile
      BY <1>2, <1>3, <2>1 DEF ReadersView, Below
    <3> QED
      BY <1>1, <1>4, <3>1, <3>2 DEF MemEntries
  <2> QED
    BY <1>1, <2>1, SameReads
<1>18. FailedInLog = {}
  BY <1>1, <1>2, FailedIs
<1>19. CASE op[Head(writers)].batch = <<>>
  <2>1. group' = None /\ Answer(<<Head(writers)>>)
    BY <1>1, <1>19 DEF Lead
  <2>2. LogView' /\ GroupView'
    BY <1>14, <2>1 DEF GroupView
  <2>3. Answer(SubSeq(writers, 1, 1)) /\ 1 \in 1..Len(writers)
    BY <1>1, <1>2, <2>1, FrontIs
  <2>4. QueueIds'
    BY <1>1, <1>2, <2>3, AnsweredIds
  <2>5. View'
    BY <1>1, <1>11, <1>12, <1>13, <2>2, <2>4 DEF View
  <2>6. FailedInLog' = FailedInLog
    BY <1>1, <1>10, <1>18, <2>5, FailedIsThen
  <2>7. KV!Next
    BY <1>1, <1>2, <1>16, <1>17, <2>1, <2>6, FrontFails
  <2> QED
    BY <2>5, <2>7
<1>20. CASE op[Head(writers)].batch # <<>>
  <2>1. lastSeq \in Nat
    BY DEF Inv, Pool, PoolOf
  <2>2. /\ UNCHANGED <<op, writers>> /\ QueueIds' /\ GroupView'
        /\ group' # None /\ group'.step = "log" /\ group'.inserted = 0
    BY <1>1, <1>2, <1>20, <2>1, LeadView
  <2>3. LogView'
    BY <1>14, <2>2
  <2>4. View'
    BY <1>1, <1>11, <1>12, <1>13, <2>2, <2>3 DEF View
  <2>5. FailedInLog' = FailedInLog
    BY <1>1, <1>10, <1>18, <2>4, FailedIsThen
  <2>6. CallsNow' = CallsNow /\ LimboNow' = LimboNow
    BY <2>2, <2>5 DEF CallsNow, CallOf, Waiting, LimboNow, WritesOf
  <2> QED
    BY <1>16, <1>17, <2>4, <2>6, StoreSame
<1> QED
  BY <1>19, <1>20

-----------------------------------------------------------------------------
(* The background thread.                                                  *)

(* The background thread does nothing that a reader or the log of the      *)
(* group could tell.                                                       *)
LEMMA BackgroundSteps ==
  ASSUME Inv, View, Inv', phase = "open",
         UNCHANGED <<op, writers, group, mem, lastSeq, snaps, gets, phase>>, spent'.writes = spent.writes,
         bgError = TRUE => bgError' = TRUE,
         memtable'[mem] = memtable[mem], logs'[mem] = logs[mem],
         logNumber' = (IF imm' = 0 THEN mem ELSE imm'),
         \A n \in DOMAIN logs' : n >= logNumber' => n \in {imm', mem},
         imm' # 0 => imm' = imm /\ imm \in DOMAIN logs' /\ logs'[imm] = logs[imm] /\ memtable'[imm] = memtable[imm],
         Newest' \subseteq Newest,
         \A s \in Nat : s <= lastSeq /\ (merge # None => merge.oldest <= s) => Visible(Newest', s) = Visible(Newest, s),
         \A r \in Readers : gets[r] # None =>
           /\ MemEntries(gets[r].mem)' = MemEntries(gets[r].mem) /\ MemEntries(gets[r].imm)' = MemEntries(gets[r].imm)
           /\ Content(tables', Files(gets[r].version)) = Content(tables, Files(gets[r].version)),
         ReadersView', TablesView'
  PROVE  View' /\ UNCHANGED KV!vars
<1>1. /\ Sound /\ Queue /\ Places /\ QueueIds /\ GroupView /\ LogView /\ BadView /\ ReadersView
      /\ ReplayView /\ DOMAIN snaps = Readers /\ lastSeq \in Nat
  BY DEF Inv, View, Pool, PoolOf
<1>2. InFlight' = InFlight /\ Inserted' = Inserted /\ Logged' = Logged /\ RecordsOf(mem)' = RecordsOf(mem)
  BY DEF InFlight, Inserted, Logged, RecordsOf
<1>3. Bad' = Bad
  BY <1>2 DEF Bad
<1>4. QueueIds' /\ GroupView' /\ ReplayView' /\ DOMAIN snaps' = Readers
  <2>1. \A w : CallOf(w)' = CallOf(w)
    BY DEF CallOf
  <2>2. CallsOf(group.members)' = CallsOf(group.members)
    BY <2>1 DEF CallsOf
  <2>3. GroupView'
    BY <1>1, <1>2, <2>2 DEF GroupView, InOrder, Wrote
  <2> QED
    BY <1>1, <2>3 DEF QueueIds, ReplayView, Replays, Recovers
<1>5. LogView'
  <2>1. imm' # 0 => imm' \in DOMAIN logs' /\ RecordsOf(imm)' = memtable'[imm']
    BY <1>1 DEF LogView, RecordsOf
  <2> QED
    BY <1>1, <1>2, <2>1 DEF LogView
<1>6. BadView'
  <2>1. InOrder(Bad)' <=> InOrder(Bad)
    BY <1>3 DEF InOrder
  <2> QED
    BY <1>1, <1>3, <2>1 DEF BadView
<1>7. View'
  BY <1>4, <1>5, <1>6 DEF View
<1>8. FailedInLog' = FailedInLog
  BY <1>3, <1>7, FailedIs, FailedIsThen
<1>9. StoreNow' = StoreNow
  <2>1. merge # None => merge.oldest <= lastSeq
    BY <1>1 DEF ReadersView
  <2>2. lastSeq <= lastSeq
    BY <1>1
  <2> QED
    BY <1>1, <2>1, <2>2 DEF StoreNow
<1>10. SnapsNow' = SnapsNow
  <2>1. \A r \in Readers : snaps[r] # None => Visible(Newest', snaps[r]) = Visible(Newest, snaps[r])
    BY <1>1 DEF ReadersView
  <2> QED
    BY <2>1 DEF SnapsNow
<1>11. GetsNow' = GetsNow
  BY SameReads
<1>12. CallsNow' = CallsNow /\ LimboNow' = LimboNow
  BY <1>8 DEF CallsNow, CallOf, Waiting, LimboNow, WritesOf
<1> QED
  BY <1>7, <1>9, <1>10, <1>11, <1>12, StoreSame

(* A flush or a compaction goes on: no table that somebody reads changes.  *)
Read == InUse \union UNION {Files(gets[r].version) : r \in Reading(gets)}
LEMMA OutputSteps ==
  ASSUME Inv, View, Inv', phase = "open",
         UNCHANGED <<op, writers, group, memtable, mem, imm, lastSeq, version, logNumber, snaps, gets, phase, logs,
                     manifest>>,
         spent'.writes = spent.writes, bgError = TRUE => bgError' = TRUE,
         \A n \in Read : (n \in DOMAIN tables' <=> n \in DOMAIN tables) /\ (n \in DOMAIN tables => tables'[n] = tables[n]),
         ReadersView',
         flush' # None /\ flush'.step = "apply" => Content(tables', flush'.edit.add0) = MemEntries(imm),
         merge' # None => Files(merge'.input) \subseteq Files(version),
         merge' # None /\ merge'.step = "apply" =>
           Content(tables', {merge'.number}) = Compacted(Content(tables', Files(merge'.input)), merge'.oldest)
  PROVE  View' /\ UNCHANGED KV!vars
<1>1. Sound /\ Places /\ LogView /\ TablesView
  BY DEF Inv, View
<1>2. ASSUME NEW S, S \subseteq Read PROVE Content(tables', S) = Content(tables, S)
  <2>1. \A n \in S : (n \in DOMAIN tables' <=> n \in DOMAIN tables) /\ (n \in DOMAIN tables => tables'[n] = tables[n])
    BY <1>2
  <2>2. Content(tables', S) \subseteq Content(tables, S)
    BY <2>1, ContentStays
  <2>3. Content(tables, S) \subseteq Content(tables', S)
    BY <2>1, ContentKept
  <2> QED
    BY <2>2, <2>3
<1>3. Content(tables', Files(version)) = Content(tables, Files(version))
      /\ Content(tables', Files(manifest.version)) = Content(tables, Files(manifest.version))
  BY <1>2 DEF Read, InUse
<1>4. \A r \in Readers : gets[r] # None =>
        Content(tables', Files(gets[r].version)) = Content(tables, Files(gets[r].version))
  <2>1. \A r \in Readers : gets[r] # None => Files(gets[r].version) \subseteq Read
    BY DEF Read, Reading
  <2> QED
    BY <1>2, <2>1
<1>5. MemEntries(imm)' = MemEntries(imm) /\ MemEntries(mem)' = MemEntries(mem)
      /\ \A r \in Readers : MemEntries(gets[r].mem)' = MemEntries(gets[r].mem)
                            /\ MemEntries(gets[r].imm)' = MemEntries(gets[r].imm)
  BY DEF MemEntries
<1>6. TablesView'
  <2>1. Says(manifest)'
    BY <1>1, <1>3, <1>5 DEF TablesView, Says, Files
  <2> QED
    BY <1>5, <2>1 DEF TablesView, Files
<1>7. Newest' = Newest
  <2>1. EntriesOf(version)' = EntriesOf(version)
    BY <1>3 DEF EntriesOf, Content
  <2> QED
    BY <1>5, <2>1 DEF Newest
<1> HIDE DEF Read
<1>8. /\ logNumber' = (IF imm' = 0 THEN mem ELSE imm')
      /\ \A n \in DOMAIN logs' : n >= logNumber' => n \in {imm', mem}
      /\ imm' # 0 => imm' = imm /\ imm \in DOMAIN logs' /\ logs'[imm] = logs[imm] /\ memtable'[imm] = memtable[imm]
      /\ memtable'[mem] = memtable[mem] /\ logs'[mem] = logs[mem]
  BY <1>1 DEF LogView
<1> QED
  BY <1>4, <1>5, <1>6, <1>7, <1>8, BackgroundSteps

(* The readers keep their tables from the outputs that are being written.  *)
LEMMA ReadersGoOn ==
  ASSUME ReadersView, UNCHANGED <<lastSeq, snaps, gets>>,
         nextFile \in Nat, nextFile' \in Nat, nextFile <= nextFile',
         merge' # None => merge # None /\ merge'.oldest = merge.oldest,
         flush' # None => (flush # None /\ flush'.number = flush.number) \/ flush'.number = nextFile,
         merge' # None /\ merge'.step # "open" =>
           (merge.step # "open" /\ merge'.number = merge.number) \/ merge'.number = nextFile
  PROVE  ReadersView'
<1>1. \A S : Below(S, nextFile) => Below(S, nextFile') /\ nextFile \notin S
  BY DEF Below
<1>2. \A r \in Readers : gets[r] # None =>
        /\ flush' # None => flush'.number \notin Files(gets[r].version)
        /\ merge' # None /\ merge'.step # "open" => merge'.number \notin Files(gets[r].version)
  BY <1>1 DEF ReadersView
<1> QED
  BY <1>1, <1>2 DEF ReadersView, Files

LEMMA StartFlushView ==
  ASSUME Inv, View, Inv', StartFlush
  PROVE  View' /\ UNCHANGED KV!vars
<1>1. /\ phase = "open" /\ flush = None /\ nextFile' = nextFile + 1
      /\ flush' = [step |-> "build", number |-> nextFile, edit |-> None]
      /\ UNCHANGED <<op, writers, group, memtable, mem, imm, lastSeq, version, logNumber, merge, bgError,
                     snaps, gets, phase, logs, tables, manifest, spent>>
  BY DEF StartFlush, disk
<1>2. Sound /\ ReadersView /\ TablesView /\ nextFile \in Nat
  BY <1>1 DEF Inv, View, Sound, Numbers
<1>3. flush'.step = "build" /\ flush'.number = nextFile
  BY <1>1
<1>4. ReadersView'
  <2>1. nextFile' \in Nat /\ nextFile <= nextFile'
    BY <1>1, <1>2
  <2> QED
    BY <1>1, <1>2, <1>3, <2>1, ReadersGoOn
<1> QED
  BY <1>1, <1>2, <1>3, <1>4, OutputSteps DEF TablesView

LEMMA BuildTableView ==
  ASSUME Inv, View, Inv', BuildTable
  PROVE  View' /\ UNCHANGED KV!vars
<1> DEFINE new == IF memtable[imm] = {} THEN {} ELSE {flush.number}
           e == Edit(new, {}, {}, mem)
<1>1. /\ flush # None /\ flush.step = "build" /\ Sound /\ Places /\ Calls /\ ReadersView /\ TablesView /\ nextFile \in Nat
      /\ UNCHANGED <<op, writers, group, memtable, mem, imm, lastSeq, nextFile, version, logNumber,
                     merge, snaps, gets, phase, logs, manifest>>
  BY DEF BuildTable, Inv, View, Sound, Stages, Flushing, Queue, Numbers
<1>2. phase = "open" /\ FlushFields(flush)
  BY <1>1 DEF Sound, Stages, Flushing
<1>3. /\ imm # 0 /\ flush.number \notin InUse
      /\ merge # None => merge.step # "apply"
  BY <1>1, <1>2 DEF Places, Memtables, FileNumbers, FilesOfEdits, Sound, MergeSound
<1>4. MemEntries(imm) = memtable[imm]
  BY <1>3 DEF MemEntries
<1>5. flush.number \notin Read
  BY <1>1, <1>2, <1>3 DEF Read, ReadersView, Reading
<1>6. spent'.writes = spent.writes
  BY <1>1, Spending DEF BuildTable, Spent
<1>7. e.add0 = new
  BY DEF Edit
<1>8. \/ flush' = None /\ tables' = tables /\ bgError' = TRUE
      \/ /\ tables' = IF memtable[imm] = {} THEN tables ELSE With(tables, flush.number, memtable[imm])
         /\ flush' = [flush EXCEPT !.step = "apply", !.edit = e]
         /\ bgError' = bgError
  BY DEF BuildTable
<1>9. \A n \in Read : (n \in DOMAIN tables' <=> n \in DOMAIN tables) /\ (n \in DOMAIN tables => tables'[n] = tables[n])
  <2>1. CASE tables' = tables
    BY <2>1
  <2>2. CASE tables' = With(tables, flush.number, memtable[imm])
    BY <1>5, <2>2 DEF With
  <2> QED
    BY <1>8, <2>1, <2>2
<1>10. CASE flush' = None /\ bgError' = TRUE
  <2>1. ReadersView'
    BY <1>1, <1>2, <1>10, ReadersGoOn
  <2> QED
    BY <1>1, <1>2, <1>3, <1>6, <1>9, <1>10, <2>1, OutputSteps DEF TablesView
<1>11. CASE /\ tables' = IF memtable[imm] = {} THEN tables ELSE With(tables, flush.number, memtable[imm])
            /\ flush' = [flush EXCEPT !.step = "apply", !.edit = e]
            /\ bgError' = bgError
  <2>1. flush'.edit = e /\ flush'.number = flush.number
    BY <1>2, <1>11 DEF FlushFields
  <2>2. Content(tables', new) = memtable[imm]
    <3>1. CASE memtable[imm] = {}
      BY <3>1, ContentOfNone
    <3>2. CASE memtable[imm] # {}
      <4>1. PICK n, x : n = flush.number /\ x = memtable[imm]
        OBVIOUS
      <4>2. Content(With(tables, n, x), {n}) = x
        BY ContentOfNew
      <4> QED
        BY <1>11, <3>2, <4>1, <4>2
    <3> QED
      BY <3>1, <3>2
  <2> HIDE DEF new, e
  <2>3. Content(tables', flush'.edit.add0) = MemEntries(imm)
    BY <1>4, <1>7, <2>1, <2>2
  <2>4. ReadersView'
    BY <1>1, <1>2, <2>1, ReadersGoOn
  <2> QED
    BY <1>1, <1>2, <1>3, <1>6, <1>9, <1>11, <2>3, <2>4, OutputSteps DEF TablesView
<1> QED
  BY <1>8, <1>10, <1>11

LEMMA OpenCompactionOutputFileView ==
  ASSUME Inv, View, Inv', OpenCompactionOutputFile
  PROVE  View' /\ UNCHANGED KV!vars
<1>1. /\ merge # None /\ merge.step = "open" /\ flush = None /\ flush' = None
      /\ merge' = [merge EXCEPT !.step = "write", !.number = nextFile]
      /\ tables' = With(tables, nextFile, {}) /\ nextFile' = nextFile + 1
      /\ UNCHANGED <<op, writers, group, memtable, mem, imm, lastSeq, version, logNumber, bgError, snaps, gets,
                     phase, logs, manifest, spent>>
  BY DEF OpenCompactionOutputFile
<1>2. /\ phase = "open" /\ DOMAIN merge = {"step", "input", "number", "edit", "oldest"}
      /\ Sound /\ Places /\ ReadersView /\ TablesView /\ nextFile \in Nat
  BY <1>1 DEF Inv, View, Sound, Stages, MergeSound, Numbers
<1>3. merge'.step = "write" /\ merge'.number = nextFile /\ merge'.input = merge.input /\ merge'.oldest = merge.oldest
  BY <1>1, <1>2
<1>4. nextFile \notin Read
  BY <1>2 DEF Places, FileNumbers, Below, Read, ReadersView, Reading
<1>5. \A n \in Read : (n \in DOMAIN tables' <=> n \in DOMAIN tables) /\ (n \in DOMAIN tables => tables'[n] = tables[n])
  BY <1>1, <1>4 DEF With
<1>6. ReadersView'
  <2>1. nextFile' \in Nat /\ nextFile <= nextFile'
    BY <1>1, <1>2
  <2> QED
    BY <1>1, <1>2, <1>3, <2>1, ReadersGoOn
<1>7. Files(merge'.input) \subseteq Files(version)
  BY <1>1, <1>2, <1>3 DEF TablesView
<1> QED
  BY <1>1, <1>2, <1>3, <1>5, <1>6, <1>7, OutputSteps

LEMMA FinishMergeView ==
  ASSUME Inv, View, Inv', FinishMerge
  PROVE  View' /\ UNCHANGED KV!vars
<1> DEFINE e == Edit({}, {merge.number}, Files(merge.input), logNumber)
           out == Compacted(EntriesOf(merge.input), merge.oldest)
<1>1. /\ merge # None /\ merge.step = "write" /\ flush = None /\ flush' = None /\ Sound /\ Places /\ Calls
      /\ ReadersView /\ TablesView /\ nextFile \in Nat
      /\ UNCHANGED <<op, writers, group, memtable, mem, imm, lastSeq, nextFile, version, logNumber, snaps, gets,
                     phase, logs, manifest>>
  BY DEF FinishMerge, Inv, View, Sound, Stages, Queue, Numbers
<1>2. /\ phase = "open" /\ DOMAIN merge = {"step", "input", "number", "edit", "oldest"}
      /\ merge.number \in DOMAIN tables
  BY <1>1 DEF Sound, Stages, MergeSound
<1>3. merge.number \notin Read
  <2>1. merge.number \notin InUse
    BY <1>1 DEF Places, FileNumbers, FilesOfEdits
  <2> QED
    BY <1>1, <1>2, <2>1 DEF Read, ReadersView, Reading
<1>4. spent'.writes = spent.writes
  BY <1>1, Spending DEF FinishMerge, Spent
<1>5. \/ merge' = None /\ tables' = tables /\ bgError' = TRUE
      \/ /\ tables' = [n \in DOMAIN tables |-> IF n # merge.number THEN tables[n] ELSE out]
         /\ merge' = [merge EXCEPT !.step = "apply", !.edit = e]
         /\ bgError' = bgError
  BY DEF FinishMerge
<1>6. \A n \in Read : (n \in DOMAIN tables' <=> n \in DOMAIN tables) /\ (n \in DOMAIN tables => tables'[n] = tables[n])
  <2> HIDE DEF out
  <2>1. CASE tables' = tables
    BY <2>1
  <2>2. CASE tables' = [n \in DOMAIN tables |-> IF n # merge.number THEN tables[n] ELSE out]
    BY <1>3, <2>2
  <2> QED
    BY <1>5, <2>1, <2>2
<1>7. CASE merge' = None /\ tables' = tables /\ bgError' = TRUE
  <2>1. ReadersView'
    BY <1>1, <1>2, <1>7, ReadersGoOn
  <2> QED
    BY <1>1, <1>2, <1>4, <1>6, <1>7, <2>1, OutputSteps
<1>8. CASE /\ tables' = [n \in DOMAIN tables |-> IF n # merge.number THEN tables[n] ELSE out]
           /\ merge' = [merge EXCEPT !.step = "apply", !.edit = e]
           /\ bgError' = bgError
  <2>1. merge'.input = merge.input /\ merge'.number = merge.number /\ merge'.oldest = merge.oldest /\ merge'.step = "apply"
    BY <1>2, <1>8
  <2>2. out = Compacted(Content(tables, Files(merge.input)), merge.oldest)
    BY DEF EntriesOf, Content
  <2> HIDE DEF e, out
  <2>3. Content(tables', {merge.number}) = out
    <3>1. merge.number \in DOMAIN tables' /\ tables'[merge.number] = out
      BY <1>2, <1>8
    <3> QED
      BY <3>1 DEF Content
  <2>4. Content(tables', Files(merge.input)) = Content(tables, Files(merge.input))
    <3>1. Files(merge.input) \subseteq Read
      BY <1>1 DEF InUse, Read
    <3>2. \A n \in Files(merge.input) : (n \in DOMAIN tables' <=> n \in DOMAIN tables) /\ (n \in DOMAIN tables => tables'[n] = tables[n])
      BY <1>6, <3>1
    <3>3. Content(tables', Files(merge.input)) \subseteq Content(tables, Files(merge.input))
      BY <3>2, ContentStays
    <3>4. Content(tables, Files(merge.input)) \subseteq Content(tables', Files(merge.input))
      BY <3>2, ContentKept
    <3> QED
      BY <3>3, <3>4
  <2>5. Content(tables', {merge'.number}) = Compacted(Content(tables', Files(merge'.input)), merge'.oldest)
    BY <2>1, <2>2, <2>3, <2>4
  <2>6. ReadersView'
    BY <1>1, <1>2, <2>1, ReadersGoOn
  <2>7. Files(merge'.input) \subseteq Files(version)
    BY <1>1, <2>1 DEF TablesView
  <2> QED
    BY <1>1, <1>2, <1>4, <1>6, <1>8, <2>5, <2>6, <2>7, OutputSteps
<1> QED
  BY <1>5, <1>7, <1>8

LEMMA IdleCallView ==
  ASSUME Inv, View, Inv', IdleCall
  PROVE  View' /\ UNCHANGED KV!vars
<1>1. /\ phase = "open"
      /\ UNCHANGED <<op, writers, group, memtable, mem, imm, lastSeq, nextFile, version, logNumber,
                     flush, merge, bgError, snaps, gets, phase, logs, tables, manifest, spent>>
  BY DEF IdleCall, disk
<1>2. ReadersView /\ TablesView
  BY <1>1 DEF View
<1>3. ReadersView'
  BY <1>1, <1>2 DEF ReadersView
<1> QED
  BY <1>1, <1>2, <1>3, OutputSteps DEF TablesView

(* The least of a set of numbers.                                          *)
LEMMA Least ==
  ASSUME NEW S \in SUBSET Nat, S # {}
  PROVE  Min(S) \in S /\ \A n \in S : Min(S) <= n
<1>1. \E m \in S : \A n \in S : m <= n
  BY LeastNumber
<1> QED
  BY <1>1 DEF Min

LEMMA StartMergeView ==
  ASSUME Inv, View, Inv', StartMerge
  PROVE  View' /\ UNCHANGED KV!vars
<1> DEFINE S == {lastSeq} \union {snaps[r] : r \in {x \in Readers : snaps[x] # None}}
<1>1. /\ phase = "open" /\ flush = None /\ flush' = None
      /\ merge' = [step |-> "open", input |-> version, number |-> 0, edit |-> None, oldest |-> Min(S)]
      /\ UNCHANGED <<op, writers, group, memtable, mem, imm, lastSeq, nextFile, version, logNumber, bgError,
                     snaps, gets, phase, logs, tables, manifest, spent>>
  BY DEF StartMerge, Busy, disk
<1>2. ReadersView /\ TablesView /\ lastSeq \in Nat
  BY <1>1 DEF Inv, View, Pool, PoolOf
<1>3. S \in SUBSET Nat /\ S # {}
  BY <1>2 DEF ReadersView
<1>4. Min(S) \in S /\ \A n \in S : Min(S) <= n
  <2> HIDE DEF S
  <2> QED
    BY <1>3, Least
<1>5. Min(S) \in Nat /\ Min(S) <= lastSeq /\ \A r \in Readers : snaps[r] # None => Min(S) <= snaps[r]
  BY <1>3, <1>4
<1> HIDE DEF S
<1>6. merge' # None => merge'.oldest = Min(S) /\ merge'.step = "open" /\ merge'.input = version
  BY <1>1
<1>7. ReadersView'
  BY <1>1, <1>2, <1>5, <1>6 DEF ReadersView
<1> QED
  BY <1>1, <1>2, <1>6, <1>7, OutputSteps

(* Whatever the write of the MANIFEST's record has come to, it says what   *)
(* is stored.                                                              *)
Written(m) ==
  \/ m = manifest
  \/ flush # None /\ flush.step = "apply" /\ m = Recorded(manifest, flush.edit)
  \/ merge # None /\ merge.step = "apply" /\ m = Recorded(manifest, merge.edit)
LEMMA DeadSays ==
  ASSUME Inv, View, phase = "open", NEW m, Written(m)
  PROVE  Says(m) /\ m.log \in Nat /\ logNumber <= m.log /\ m.log <= mem
<1>1. /\ Sound /\ Places /\ LogView /\ TablesView /\ Says(manifest)
  BY DEF Inv, View, TablesView
<1>2. PICK A : Good(A) /\ PoolOf(A)
  BY DEF Inv, Pool
<1>3. /\ OpenPool(A) /\ A \subseteq Entry
      /\ Content(tables, Files(version)) \subseteq Entry /\ Content(tables, Files(manifest.version)) \subseteq Entry
  BY <1>2 DEF PoolOf, OpenPool, Good, Upto
<1>4. mem \in Nat /\ mem # 0 /\ imm \in Nat /\ imm < mem /\ logNumber \in Nat /\ manifest.log \in Nat
      /\ logNumber <= manifest.log /\ manifest.log <= mem
  BY <1>1, Opened
<1>5. PICK M, V, I : /\ M = Content(tables, Files(manifest.version)) /\ V = Content(tables, Files(version))
                     /\ I = MemEntries(imm)
  OBVIOUS
<1>6. Covers(M, V) /\ Covers(V \union I, M)
  BY <1>1, <1>5 DEF Says
<1>7. I \subseteq Entry /\ (imm # 0 => memtable[imm] = I)
  BY <1>3, <1>5 DEF OpenPool, Upto, MemEntries
<1>8. CASE m = manifest
  BY <1>1, <1>4, <1>8
<1>9. CASE flush # None /\ flush.step = "apply" /\ m = Recorded(manifest, flush.edit)
  <2>1. PICK e : e = flush.edit
    OBVIOUS
  <2>2. e.del = {} /\ e.addDeep = {} /\ e.log = mem
    BY <1>1, <1>2, <1>9, <2>1, FlushEdit
  <2>3. Content(tables, e.add0) = I
    BY <1>1, <1>5, <1>9, <2>1 DEF TablesView
  <2>4. m.log = mem /\ m.version = Applied(manifest.version, e)
    BY <1>9, <2>1, <2>2 DEF Recorded
  <2>5. Content(tables, Files(m.version)) = M \union I
    BY <1>5, <2>2, <2>3, <2>4, FlushApplied
  <2>6. Covers(M \union I, V) /\ Covers(M \union I, I) /\ Covers(V \union I, M \union I)
    <3>1. Covers(I, I)
      BY <1>7, CoversItself
    <3>2. Covers(M \union I, I) /\ Covers(V \union I, I)
      BY <3>1, CoversLess
    <3> QED
      BY <1>6, <3>2, CoversLess, CoversBoth
  <2>7. Says(m)
    BY <1>5, <1>7, <2>5, <2>6 DEF Says
  <2> QED
    BY <1>4, <2>4, <2>7
<1>10. CASE merge # None /\ merge.step = "apply" /\ m = Recorded(manifest, merge.edit)
  <2>1. PICK e, n, F : e = merge.edit /\ n = merge.number /\ F = Files(merge.input)
    OBVIOUS
  <2>2. e.del = F /\ e.add0 = {} /\ e.addDeep = {n} /\ e.log = logNumber
    BY <1>1, <1>2, <1>10, <2>1, MergeEdit
  <2>3. PICK N, P : N = Content(tables, {n}) /\ P = Content(tables, F)
    OBVIOUS
  <2>4. N = Compacted(P, merge.oldest) /\ F \subseteq Files(version)
    BY <1>1, <1>10, <2>1, <2>3 DEF TablesView
  <2>5. P \subseteq V
    BY <1>5, <2>1, <2>3, <2>4 DEF Content
  <2>6. N \subseteq V /\ N \subseteq Entry
    BY <1>3, <1>5, <2>4, <2>5 DEF Compacted
  <2>7. Covers(N, P)
    <3>1. lastSeq \in Nat /\ P \subseteq Entry /\ \A f \in P : f.seq <= lastSeq
      BY <1>2, <1>3, <1>5, <2>5 DEF PoolOf, OpenPool, Upto
    <3> QED
      BY <2>4, <3>1, CompactedCovers
  <2>8. m.log = logNumber /\ m.version = Applied(manifest.version, e)
    BY <1>10, <2>1, <2>2 DEF Recorded
  <2>9. PICK W : W = Content(tables, Files(m.version))
    OBVIOUS
  <2>10. Covers(W, M) /\ W \subseteq M \union N
    BY <1>3, <1>5, <2>2, <2>3, <2>7, <2>8, <2>9, MergeApplied
  <2>11. Covers(W, V)
    BY <1>6, <2>10, CoversChain
  <2>12. Covers(V \union I, W)
    <3>1. Covers(N, N)
      BY <2>6, CoversItself
    <3>2. Covers(V \union I, N)
      BY <2>6, <3>1, CoversLess
    <3>3. Covers(V \union I, M \union N)
      BY <1>6, <3>2, CoversBoth
    <3> QED
      BY <2>10, <3>3, CoversLess
  <2>13. imm # 0 => ~(m.log > imm)
    BY <1>1, <1>4, <2>8 DEF LogView
  <2>14. Says(m)
    BY <1>5, <2>9, <2>11, <2>12, <2>13 DEF Says
  <2> QED
    BY <1>4, <2>8, <2>14
<1> QED
  BY <1>8, <1>9, <1>10 DEF Written

(* A MANIFEST record that fails may be there or not.                       *)
LEMMA FailedRecordView ==
  ASSUME Inv, View, Inv', phase = "open", Written(manifest'), spent'.writes = spent.writes, bgError' = TRUE,
         UNCHANGED <<op, writers, group, memtable, mem, imm, lastSeq, nextFile, version, logNumber, snaps, gets, phase,
                     logs, tables>>,
         flush' = None, merge' = None \/ (merge' = merge /\ merge.step # "apply")
  PROVE  View' /\ UNCHANGED KV!vars
<1>1. Sound /\ Places /\ LogView /\ ReadersView /\ TablesView /\ nextFile \in Nat
  BY DEF Inv, View, Sound, Numbers
<1>2. MemEntries(imm)' = MemEntries(imm) /\ Newest' = Newest
      /\ \A r \in Readers : MemEntries(gets[r].mem)' = MemEntries(gets[r].mem)
                            /\ MemEntries(gets[r].imm)' = MemEntries(gets[r].imm)
  BY DEF MemEntries, Newest, EntriesOf
<1>3. ReadersView'
  BY <1>1, ReadersGoOn
<1>4. TablesView'
  <2>1. Says(manifest')
    BY DeadSays
  <2>2. Says(manifest)'
    BY <1>2, <2>1 DEF Says, Files
  <2> QED
    BY <1>1, <2>2 DEF TablesView, Files
<1>5. /\ logNumber' = (IF imm' = 0 THEN mem ELSE imm')
      /\ \A n \in DOMAIN logs' : n >= logNumber' => n \in {imm', mem}
      /\ imm' # 0 => imm' = imm /\ imm \in DOMAIN logs' /\ logs'[imm] = logs[imm] /\ memtable'[imm] = memtable[imm]
      /\ memtable'[mem] = memtable[mem] /\ logs'[mem] = logs[mem]
  BY <1>1 DEF LogView
<1> QED
  BY <1>2, <1>3, <1>4, <1>5, BackgroundSteps

LEMMA FailFlushView ==
  ASSUME Inv, View, Inv', FailFlush
  PROVE  View' /\ UNCHANGED KV!vars
<1>1. /\ flush # None /\ flush.step = "apply" /\ flush' = None /\ bgError' = TRUE /\ Sound /\ Calls
      /\ manifest' \in {manifest, Recorded(manifest, flush.edit)}
      /\ UNCHANGED <<op, writers, group, memtable, mem, imm, lastSeq, nextFile, version, logNumber, merge, snaps, gets,
                     phase, logs, tables>>
  BY DEF FailFlush, Inv, Queue
<1>2. phase = "open" /\ (merge # None => merge.step # "apply")
  BY <1>1 DEF Sound, Stages, Flushing, MergeSound
<1>3. Written(manifest')
  BY <1>1 DEF Written
<1>4. merge' = None \/ (merge' = merge /\ merge.step # "apply")
  BY <1>1, <1>2
<1>5. spent'.writes = spent.writes
  BY <1>1, Spending DEF FailFlush, Spent
<1> QED
  BY <1>1, <1>2, <1>3, <1>4, <1>5, FailedRecordView

LEMMA FailMergeView ==
  ASSUME Inv, View, Inv', FailMerge
  PROVE  View' /\ UNCHANGED KV!vars
<1>1. /\ merge # None /\ merge.step = "apply" /\ merge' = None /\ bgError' = TRUE /\ Sound /\ Calls
      /\ manifest' \in {manifest, Recorded(manifest, merge.edit)}
      /\ UNCHANGED <<op, writers, group, memtable, mem, imm, lastSeq, nextFile, version, logNumber, flush, snaps, gets,
                     phase, logs, tables>>
  BY DEF FailMerge, Inv, Queue
<1>2. phase = "open" /\ flush' = None
  BY <1>1 DEF Sound, Stages, MergeSound
<1>3. Written(manifest')
  BY <1>1 DEF Written
<1>4. spent'.writes = spent.writes
  BY <1>1, Spending DEF FailMerge, Spent
<1> QED
  BY <1>1, <1>2, <1>3, <1>4, FailedRecordView

(* The tables of the version a flush or a compaction leads to stay, and    *)
(* the MANIFEST names what it does unless it failed before.                *)
LEMMA InstalledTables ==
  ASSUME Inv, phase = "open", NEW e, NEW held, NEW outputs, NEW ln, Applied(version, e) \in held,
         \A r \in Readers : gets[r] # None => gets[r].version \in held,
         merge # None /\ merge.step # "apply" => merge.input \in held,
         version' = Applied(version, e), manifest' = Recorded(manifest, e),
         IF bgError THEN UNCHANGED <<tables, logs>> ELSE DeleteObsoleteFiles(held, outputs, ln)
  PROVE  /\ Content(tables', Files(version')) = Content(tables, Files(version'))
         /\ Content(tables', Files(manifest'.version)) = Content(tables, Files(manifest'.version))
         /\ \A r \in Readers : gets[r] # None =>
              Content(tables', Files(gets[r].version)) = Content(tables, Files(gets[r].version))
         /\ merge # None /\ merge.step # "apply" =>
              Content(tables', Files(merge.input)) = Content(tables, Files(merge.input))
         /\ \A n \in DOMAIN logs : n >= ln => n \in DOMAIN logs' /\ logs'[n] = logs[n]
         /\ \A n \in DOMAIN logs' : n \in DOMAIN logs
<1>1. Sound /\ bgError \in BOOLEAN
  BY DEF Inv, Sound, Stages
<1>2. CASE bgError = TRUE
  BY <1>2
<1>3. CASE bgError = FALSE
  <2>1. version = manifest.version
    BY <1>1, <1>3 DEF Sound, Stages
  <2>2. DeleteObsoleteFiles(held, outputs, ln)
    BY <1>3
  <2>3. \A v \in held : Content(tables', Files(v)) = Content(tables, Files(v))
    BY <2>2, NothingTaken
  <2>4. manifest'.version = version' /\ version' \in held
    BY <2>1 DEF Recorded
  <2>5. \A n \in DOMAIN logs : n >= ln => n \in DOMAIN logs' /\ logs'[n] = logs[n]
    BY <2>2, <2>4, NothingTaken
  <2>6. \A n \in DOMAIN logs' : n \in DOMAIN logs
    BY <2>2, DeletionKeeps
  <2> QED
    BY <2>3, <2>4, <2>5, <2>6
<1> QED
  BY <1>1, <1>2, <1>3

(* The memtables that are referred to without m are those a reader has.    *)
LEMMA KeptMemtables ==
  ASSUME Sound, Places, phase = "open", NEW i, i \in {0, imm},
         memtable' = [n \in Referenced(mem, i, gets) |-> memtable[n]]
  PROVE  /\ memtable'[mem] = memtable[mem] /\ (i # 0 => memtable'[i] = memtable[i])
         /\ \A r \in Readers : gets[r] # None =>
              \A n \in {gets[r].mem, gets[r].imm} : n # 0 => memtable'[n] = memtable[n]
<1>1. mem # 0
  BY Opened
<1>2. mem \in Referenced(mem, i, gets) /\ (i # 0 => i \in Referenced(mem, i, gets))
  BY <1>1, ReferencedTo
<1>3. ASSUME NEW r \in Readers, gets[r] # None, NEW n \in {gets[r].mem, gets[r].imm}, n # 0
      PROVE  n \in Referenced(mem, i, gets)
  <2>1. r \in Reading(gets)
    BY <1>3 DEF Reading
  <2> QED
    BY <1>3, <2>1, ReferencedTo
<1> QED
  BY <1>2, <1>3

LEMMA InstallFlushView ==
  ASSUME Inv, View, Inv', InstallFlush
  PROVE  View' /\ UNCHANGED KV!vars
<1>1. /\ flush # None /\ flush.step = "apply" /\ flush' = None /\ imm' = 0 /\ logNumber' = flush.edit.log
      /\ manifest' = Recorded(manifest, flush.edit) /\ version' = Applied(version, flush.edit)
      /\ memtable' = [i \in Referenced(mem, 0, gets) |-> memtable[i]]
      /\ IF bgError THEN UNCHANGED <<tables, logs>>
         ELSE DeleteObsoleteFiles(HeldVersions(Applied(version, flush.edit), merge), pending, flush.edit.log)
      /\ UNCHANGED <<op, writers, group, mem, lastSeq, nextFile, merge, bgError, snaps, gets, phase, spent>>
  BY DEF InstallFlush
<1>2. /\ Sound /\ Places /\ LogView /\ ReadersView /\ TablesView /\ Says(manifest)
      /\ phase = "open" /\ nextFile \in Nat
  BY <1>1 DEF Inv, View, Sound, Stages, Flushing, TablesView, Numbers
<1>3. PICK A : Good(A) /\ PoolOf(A)
  BY DEF Inv, Pool
<1>4. PICK e : e = flush.edit
  OBVIOUS
<1>5. /\ e.del = {} /\ e.addDeep = {} /\ e.log = mem /\ (merge # None => merge.step # "apply")
      /\ mem \in Nat /\ mem # 0 /\ mem \in DOMAIN logs
  BY <1>1, <1>2, <1>3, <1>4, FlushEdit
<1>6. /\ imm \in Nat /\ imm < mem /\ logNumber \in Nat /\ logNumber <= mem /\ DOMAIN logs \subseteq Nat
  <2>1. logNumber <= manifest.log /\ manifest.log <= mem /\ logNumber \in Nat /\ manifest.log \in Nat
    BY <1>2, Opened
  <2> QED
    BY <1>2, <1>5, <2>1, Opened
<1>7. /\ Content(tables', Files(version')) = Content(tables, Files(version'))
      /\ Content(tables', Files(manifest'.version)) = Content(tables, Files(manifest'.version))
      /\ \A r \in Readers : gets[r] # None =>
           Content(tables', Files(gets[r].version)) = Content(tables, Files(gets[r].version))
      /\ \A n \in DOMAIN logs : n >= mem => n \in DOMAIN logs' /\ logs'[n] = logs[n]
      /\ \A n \in DOMAIN logs' : n \in DOMAIN logs
  <2>1. PICK held : held = HeldVersions(Applied(version, e), merge)
    OBVIOUS
  <2>2. /\ Applied(version, e) \in held
        /\ \A r \in Readers : gets[r] # None => gets[r].version \in held
        /\ merge # None /\ merge.step # "apply" => merge.input \in held
    BY <2>1 DEF HeldVersions, Reading
  <2>3. IF bgError THEN UNCHANGED <<tables, logs>> ELSE DeleteObsoleteFiles(held, pending, mem)
    BY <1>1, <1>4, <1>5, <2>1
  <2> QED
    BY <1>1, <1>2, <1>4, <2>2, <2>3, InstalledTables
<1>8. PICK M, V, I : /\ M = Content(tables, Files(manifest.version)) /\ V = Content(tables, Files(version))
                     /\ I = MemEntries(imm)
  OBVIOUS
<1>9. Content(tables, e.add0) = I /\ Covers(M, V) /\ Covers(V \union I, M)
  BY <1>1, <1>2, <1>4, <1>8 DEF TablesView, Says
<1>10. manifest'.version = Applied(manifest.version, e) /\ manifest'.log = mem /\ version' = Applied(version, e)
  BY <1>1, <1>4, <1>5 DEF Recorded
<1>11. Content(tables, Files(version')) = V \union I /\ Content(tables, Files(manifest'.version)) = M \union I
  BY <1>5, <1>8, <1>9, <1>10, FlushApplied
<1>12. I \subseteq Entry
  BY <1>2, <1>3, <1>8 DEF PoolOf, OpenPool, Good, Upto, MemEntries
<1>13. /\ memtable'[mem] = memtable[mem]
       /\ \A r \in Readers : gets[r] # None =>
            \A n \in {gets[r].mem, gets[r].imm} : n # 0 => memtable'[n] = memtable[n]
  BY <1>1, <1>2, KeptMemtables
<1>14. MemEntries(imm)' = {} /\ MemEntries(mem)' = MemEntries(mem)
  BY <1>1, <1>13 DEF MemEntries
<1>15. Newest' = Newest
  <2>1. EntriesOf(version)' = V \union I /\ EntriesOf(version) = V
    BY <1>7, <1>8, <1>11 DEF EntriesOf, Content
  <2> QED
    BY <1>8, <1>14, <2>1 DEF Newest
<1>16. ReadersView'
  BY <1>1, <1>2, ReadersGoOn
<1>17. TablesView'
  <2>1. Covers(I, I)
    BY <1>12, CoversItself
  <2>2. Covers(M \union I, I) /\ Covers(V \union I, I) /\ Covers(M \union I, V)
    BY <1>9, <2>1, CoversLess
  <2>3. Covers(M \union I, V \union I) /\ Covers(V \union I, M \union I)
    BY <1>9, <2>2, CoversBoth
  <2>4. Covers(Content(tables', Files(manifest'.version)), Content(tables', Files(version')))
        /\ Covers(Content(tables', Files(version')) \union {}, Content(tables', Files(manifest'.version)))
    BY <1>7, <1>11, <2>3
  <2>5. Says(manifest)'
    BY <1>1, <1>14, <2>4 DEF Says, Files
  <2>6. merge # None => Files(merge.input) \subseteq Files(version')
    <3>1. Files(version) \subseteq Files(version')
      BY <1>5, <1>10 DEF Applied, Files
    <3> QED
      BY <1>2, <3>1 DEF TablesView
  <2> QED
    BY <1>1, <1>5, <2>5, <2>6 DEF TablesView, Files
<1>18. \A n \in DOMAIN logs' : n >= logNumber' => n \in {imm', mem}
  <2>1. \A n \in DOMAIN logs : n >= logNumber => n \in {imm, mem}
    BY <1>2 DEF LogView
  <2>2. ASSUME NEW n \in DOMAIN logs', n >= logNumber' PROVE n = mem
    <3>1. n \in DOMAIN logs /\ n \in Nat /\ n >= mem
      BY <1>1, <1>4, <1>5, <1>6, <1>7, <2>2
    <3> QED
      BY <1>5, <1>6, <2>1, <3>1
  <2> QED
    BY <2>2
<1>19. logNumber' = (IF imm' = 0 THEN mem ELSE imm') /\ logs'[mem] = logs[mem]
  BY <1>1, <1>4, <1>5, <1>7
<1>20. \A r \in Readers : gets[r] # None =>
         /\ MemEntries(gets[r].mem)' = MemEntries(gets[r].mem) /\ MemEntries(gets[r].imm)' = MemEntries(gets[r].imm)
  BY <1>1, <1>13 DEF MemEntries
<1> QED
  BY <1>1, <1>2, <1>7, <1>13, <1>15, <1>16, <1>17, <1>18, <1>19, <1>20, BackgroundSteps

(* What a compaction leaves shows the same to all that are not older than  *)
(* its oldest reader.                                                      *)
IsMerge(A, v, e, n, oldest) ==
  /\ e.del \subseteq Files(v) /\ e.add0 = {} /\ e.addDeep = {n} /\ oldest \in Nat
  /\ Content(tables, Files(v)) \subseteq A
  /\ Content(tables, {n}) = Compacted(Content(tables, e.del), oldest)
LEMMA MergedAsNew ==
  ASSUME NEW A, Good(A), NEW v, NEW e, NEW n, NEW oldest, IsMerge(A, v, e, n, oldest),
         NEW R, R \subseteq A, NEW s \in Nat, oldest <= s
  PROVE  Visible(R \union Content(tables, Files(Applied(v, e))), s) = Visible(R \union Content(tables, Files(v)), s)
<1>0. PICK F : F = e.del
  OBVIOUS
<1>1. PICK V, Z, N, P : /\ V = Content(tables, Files(v)) /\ Z = Content(tables, Files(Applied(v, e)))
                        /\ N = Content(tables, {n}) /\ P = Content(tables, F)
  OBVIOUS
<1>2. Files(Applied(v, e)) = (Files(v) \ F) \union {n} /\ F \subseteq Files(v)
  BY <1>0 DEF Applied, Files, IsMerge
<1>3. P \subseteq V /\ V \subseteq A
  BY <1>1, <1>2 DEF Content, IsMerge
<1>4. N \subseteq P /\ N = Compacted(P, oldest) /\ oldest \in Nat
  BY <1>0, <1>1 DEF Compacted, IsMerge
<1>5. Z \subseteq V /\ N \subseteq Z
  <2>1. Z \subseteq V \union N /\ N \subseteq Z
    BY <1>1, <1>2 DEF Content
  <2> QED
    BY <1>3, <1>4, <2>1
<1>6. V \subseteq Z \union P
  BY <1>1, <1>2 DEF Content
<1>7. AsNew(N, s, P, s)
  BY <1>3, <1>4, CompactedAsNew
<1>8. R \union V \subseteq A /\ R \union Z \subseteq A
  BY <1>3, <1>5
<1>9. \A f \in R \union V : f.seq <= f.seq
  BY <1>8 DEF Good, Entry
<1>10. AsNew(R \union V, s, R \union Z, s)
  BY <1>5, <1>9 DEF AsNew
<1>11. AsNew(R \union Z, s, R \union V, s)
  <2> SUFFICES ASSUME NEW f \in R \union V, f.seq <= s
               PROVE  \E g \in R \union Z : g.key = f.key /\ f.seq <= g.seq /\ g.seq <= s
    BY DEF AsNew
  <2>1. CASE f \in R \union Z
    BY <1>9, <2>1
  <2>2. CASE f \in P
    <3>1. PICK g \in N : g.key = f.key /\ f.seq <= g.seq /\ g.seq <= s
      BY <1>7, <2>2 DEF AsNew
    <3> QED
      BY <1>5, <3>1
  <2> QED
    BY <1>6, <2>1, <2>2
<1>12. Visible(R \union Z, s) = Visible(R \union V, s)
  BY <1>8, <1>10, <1>11, SameView
<1> QED
  BY <1>1, <1>12

LEMMA InstallMergeView ==
  ASSUME Inv, View, Inv', InstallMerge
  PROVE  View' /\ UNCHANGED KV!vars
<1>1. /\ merge # None /\ merge.step = "apply" /\ merge' = None
      /\ manifest' = Recorded(manifest, merge.edit) /\ version' = Applied(version, merge.edit)
      /\ IF bgError THEN UNCHANGED <<tables, logs>>
         ELSE DeleteObsoleteFiles(HeldVersions(Applied(version, merge.edit), None), pending \ {merge.number}, logNumber)
      /\ UNCHANGED <<op, writers, group, memtable, mem, imm, lastSeq, nextFile, logNumber, flush, bgError, snaps, gets,
                     phase, spent>>
  BY DEF InstallMerge
<1>2. PICK A : Good(A) /\ PoolOf(A)
  BY DEF Inv, Pool
<1>3. PICK e, n, F : e = merge.edit /\ n = merge.number /\ F = Files(merge.input)
  OBVIOUS
<1>4. /\ Sound /\ Places /\ LogView /\ ReadersView /\ TablesView /\ phase = "open" /\ flush = None /\ nextFile \in Nat
      /\ e.del = F /\ e.add0 = {} /\ e.addDeep = {n} /\ e.log = logNumber
  <2>1. Sound /\ Places /\ nextFile \in Nat
    BY DEF Inv, Sound, Numbers
  <2>2. phase = "open"
    BY <1>1, <1>2, <2>1, MergeEdit
  <2> QED
    BY <1>1, <1>2, <1>3, <2>1, <2>2, MergeEdit DEF View
<1>5. /\ imm \in Nat /\ imm < mem /\ mem \in Nat /\ logNumber = (IF imm = 0 THEN mem ELSE imm)
      /\ mem \in DOMAIN logs /\ \A k \in DOMAIN logs : k >= logNumber => k \in {imm, mem}
      /\ (imm # 0 => imm \in DOMAIN logs)
  BY <1>4, Opened DEF LogView
<1>6. /\ Content(tables', Files(version')) = Content(tables, Files(version'))
      /\ Content(tables', Files(manifest'.version)) = Content(tables, Files(manifest'.version))
      /\ \A r \in Readers : gets[r] # None =>
           Content(tables', Files(gets[r].version)) = Content(tables, Files(gets[r].version))
      /\ \A k \in DOMAIN logs : k >= logNumber => k \in DOMAIN logs' /\ logs'[k] = logs[k]
      /\ \A k \in DOMAIN logs' : k \in DOMAIN logs
  <2>1. PICK held, out : held = HeldVersions(Applied(version, e), None) /\ out = pending \ {merge.number}
    OBVIOUS
  <2>2. Applied(version, e) \in held /\ \A r \in Readers : gets[r] # None => gets[r].version \in held
    BY <2>1 DEF HeldVersions, Reading
  <2>3. IF bgError THEN UNCHANGED <<tables, logs>> ELSE DeleteObsoleteFiles(held, out, logNumber)
    BY <1>1, <1>3, <2>1
  <2> QED
    BY <1>1, <1>3, <1>4, <2>2, <2>3, InstalledTables
<1>7. PICK M, V, I, R : /\ M = Content(tables, Files(manifest.version)) /\ V = Content(tables, Files(version))
                        /\ I = MemEntries(imm) /\ R = memtable[mem] \union I
  OBVIOUS
<1>8. PICK W, Z : W = Content(tables, Files(manifest'.version)) /\ Z = Content(tables, Files(version'))
  OBVIOUS
<1>9. R \subseteq A /\ V \subseteq A /\ I \subseteq Entry /\ A \subseteq Entry
  BY <1>2, <1>4, <1>7 DEF PoolOf, OpenPool, Good, Upto, MemEntries
<1>10. PICK N, P : N = Content(tables, {n}) /\ P = Content(tables, F)
  OBVIOUS
<1>11. /\ N = Compacted(P, merge.oldest) /\ F \subseteq Files(version)
       /\ merge.oldest \in Nat /\ merge.oldest <= lastSeq /\ lastSeq \in Nat
  BY <1>1, <1>2, <1>3, <1>4, <1>10 DEF TablesView, ReadersView, PoolOf
<1>12. version' = Applied(version, e) /\ manifest'.log = logNumber
  BY <1>1, <1>3, <1>4 DEF Recorded
<1>13. Newest = R \union V /\ Newest' = R \union Z
  <2>1. Newest = memtable[mem] \union MemEntries(imm) \union Content(tables, Files(version))
    BY <1>4, Opened
  <2>2. MemEntries(mem)' = memtable[mem] /\ MemEntries(imm)' = I
    BY <1>1, <1>5, <1>7 DEF MemEntries
  <2>3. EntriesOf(version)' = Z
    BY <1>6, <1>8 DEF EntriesOf, Content
  <2> QED
    BY <1>7, <2>1, <2>2, <2>3 DEF Newest
<1>14. \A s \in Nat : merge.oldest <= s => Visible(Newest', s) = Visible(Newest, s)
  <2>1. ASSUME NEW s \in Nat, merge.oldest <= s
        PROVE  Visible(R \union Content(tables, Files(Applied(version, e))), s) = Visible(R \union Content(tables, Files(version)), s)
    <3>1. IsMerge(A, version, e, n, merge.oldest)
      BY <1>4, <1>7, <1>9, <1>10, <1>11 DEF IsMerge
    <3> QED
      BY <1>2, <1>9, <2>1, <3>1, MergedAsNew
  <2> QED
    BY <1>7, <1>8, <1>12, <1>13, <2>1
<1>15. Covers(Z, V) /\ Z \subseteq V
  <2>1. P \subseteq V
    BY <1>7, <1>10, <1>11 DEF Content
  <2>2. Covers(N, P)
    <3>1. P \subseteq Entry /\ \A f \in P : f.seq <= lastSeq
      BY <1>2, <1>4, <1>7, <1>9, <2>1 DEF PoolOf, OpenPool, Upto
    <3> QED
      BY <1>11, <3>1, CompactedCovers
  <2>3. N \subseteq V
    BY <1>11, <2>1 DEF Compacted
  <2>4. Content(tables, Files(version)) \subseteq Entry
    BY <1>7, <1>9
  <2>5. Covers(Content(tables, {n}), Content(tables, F))
    BY <1>10, <2>2
  <2>6. /\ Covers(Content(tables, Files(Applied(version, e))), Content(tables, Files(version)))
        /\ Content(tables, Files(Applied(version, e))) \subseteq Content(tables, Files(version)) \union Content(tables, {n})
    BY <1>4, <2>4, <2>5, MergeApplied
  <2> QED
    BY <1>7, <1>8, <1>10, <1>12, <2>3, <2>6
<1>16. Says(manifest')
  <2>1. Written(manifest')
    BY <1>1 DEF Written
  <2> QED
    BY <1>4, <2>1, DeadSays
<1>17. TablesView'
  <2>1. Covers(W, V) /\ Covers(V \union I, W)
    BY <1>7, <1>8, <1>16 DEF Says
  <2>2. Covers(W, Z)
    BY <1>15, <2>1, CoversLess
  <2>3. Covers(Z \union I, W)
    <3>1. Covers(I, I)
      BY <1>9, CoversItself
    <3>2. Covers(Z \union I, V) /\ Covers(Z \union I, I)
      BY <1>15, <3>1, CoversLess
    <3> QED
      BY <2>1, <3>2, CoversBoth, CoversChain
  <2>4. ~(imm # 0 /\ manifest'.log > imm)
    BY <1>5, <1>12
  <2>5. MemEntries(imm)' = I
    BY <1>1, <1>7 DEF MemEntries
  <2>6. /\ Covers(Content(tables', Files(manifest'.version)), Content(tables', Files(version')))
        /\ Covers(Content(tables', Files(version')) \union I, Content(tables', Files(manifest'.version)))
    BY <1>6, <1>8, <2>2, <2>3
  <2>7. Says(manifest)'
    BY <1>1, <2>4, <2>5, <2>6 DEF Says, Files
  <2> QED
    BY <1>1, <1>4, <2>7 DEF TablesView, Files
<1>18. ReadersView'
  BY <1>1, <1>4, ReadersGoOn
<1>19. /\ logNumber' = (IF imm' = 0 THEN mem ELSE imm')
       /\ \A k \in DOMAIN logs' : k >= logNumber' => k \in {imm', mem}
       /\ imm' # 0 => imm' = imm /\ imm \in DOMAIN logs' /\ logs'[imm] = logs[imm] /\ memtable'[imm] = memtable[imm]
       /\ memtable'[mem] = memtable[mem] /\ logs'[mem] = logs[mem]
  BY <1>1, <1>5, <1>6
<1>20. \A r \in Readers : gets[r] # None =>
         /\ MemEntries(gets[r].mem)' = MemEntries(gets[r].mem) /\ MemEntries(gets[r].imm)' = MemEntries(gets[r].imm)
  BY <1>1 DEF MemEntries
<1>21. Newest' \subseteq Newest
  BY <1>13, <1>15
<1> QED
  BY <1>1, <1>4, <1>6, <1>14, <1>17, <1>18, <1>19, <1>20, <1>21, BackgroundSteps

-----------------------------------------------------------------------------
(* Readers.                                                                *)

(* A store is not None.                                                    *)
LEMMA StoreShown ==
  ASSUME NEW A, Good(A), NEW E, E \subseteq A, NEW s
  PROVE  Visible(E, s) # None
<1>1. ASSUME NEW k \in Keys PROVE Lookup(E, k, s) \in Nat \union {None}
  <2>1. CASE \A e \in E : ~(e.key = k /\ e.seq <= s)
    BY <2>1, NothingSeen
  <2>2. CASE \E e \in E : e.key = k /\ e.seq <= s
    <3>1. PICK x : IsNewest(x, E, k, s)
      BY <2>2, NewestThere
    <3>2. /\ x \in E /\ x.key = k /\ x.seq <= s
          /\ \A e \in E : e.key = k /\ e.seq <= s => e.seq <= x.seq
      BY <3>1 DEF IsNewest
    <3>3. Lookup(E, k, s) = x.val
      BY <3>2, NewestSeen
    <3>4. x.val \in Nat
      BY <3>2 DEF Good, Entry
    <3> QED
      BY <3>3, <3>4
  <2> QED
    BY <2>1, <2>2
<1>2. Visible(E, s) \in [Keys -> Nat \union {None}]
  BY <1>1 DEF Visible
<1> QED
  BY <1>2, NoneAssumption

LEMMA NewestIsGood ==
  ASSUME Inv, phase = "open", NEW A, PoolOf(A), Good(A)
  PROVE  Newest \subseteq A
<1>1. Sound /\ Places
  BY DEF Inv
<1> QED
  BY <1>1, Opened DEF PoolOf, OpenPool, Upto, MemEntries

(* A reader comes or goes.                                                 *)
LEMMA ReaderSteps ==
  ASSUME Inv, View, Inv', phase = "open",
         UNCHANGED <<op, writers, group, mem, imm, lastSeq, nextFile, version, logNumber, flush, merge, bgError, phase,
                     logs, tables, manifest, spent>>,
         memtable'[mem] = memtable[mem], imm # 0 => memtable'[imm] = memtable[imm],
         DOMAIN snaps' = Readers, ReadersView'
  PROVE  View' /\ Newest' = Newest /\ UNCHANGED <<StoreNow, CallsNow, LimboNow>>
<1>1. /\ Sound /\ Places /\ QueueIds /\ GroupView /\ LogView /\ BadView /\ TablesView /\ ReplayView
  BY DEF Inv, View
<1>2. InFlight' = InFlight /\ Inserted' = Inserted /\ Logged' = Logged /\ RecordsOf(mem)' = RecordsOf(mem)
  BY DEF InFlight, Inserted, Logged, RecordsOf
<1>3. Bad' = Bad
  BY <1>2 DEF Bad
<1>4. MemEntries(mem)' = MemEntries(mem) /\ MemEntries(imm)' = MemEntries(imm)
  BY DEF MemEntries
<1>5. Newest' = Newest /\ StoreNow' = StoreNow
  <2>1. EntriesOf(version)' = EntriesOf(version)
    BY DEF EntriesOf
  <2>2. Newest' = Newest
    BY <1>4, <2>1 DEF Newest
  <2> QED
    BY <2>2 DEF StoreNow
<1>6. QueueIds' /\ ReplayView'
  BY <1>1 DEF QueueIds, ReplayView, Replays, Recovers
<1>7. GroupView'
  <2>1. \A w : CallOf(w)' = CallOf(w)
    BY DEF CallOf
  <2>2. CallsOf(group.members)' = CallsOf(group.members)
    BY <2>1 DEF CallsOf
  <2> QED
    BY <1>1, <1>2, <2>2 DEF GroupView, InOrder, Wrote
<1>8. LogView'
  <2>1. RecordsOf(imm)' = RecordsOf(imm)
    BY DEF RecordsOf
  <2> QED
    BY <1>1, <1>2, <2>1 DEF LogView
<1>9. BadView'
  <2>1. InOrder(Bad)' <=> InOrder(Bad)
    BY <1>3 DEF InOrder
  <2> QED
    BY <1>1, <1>3, <1>5, <2>1 DEF BadView
<1>10. TablesView'
  BY <1>1, SameTables
<1>11. View'
  BY <1>6, <1>7, <1>8, <1>9, <1>10 DEF View
<1>12. FailedInLog' = FailedInLog
  BY <1>3, <1>11, FailedIs, FailedIsThen
<1>13. CallsNow' = CallsNow /\ LimboNow' = LimboNow
  BY <1>12 DEF CallsNow, CallOf, Waiting, LimboNow, WritesOf
<1> QED
  BY <1>5, <1>11, <1>13

LEMMA GetSnapshotView ==
  ASSUME Inv, View, Inv', NEW r \in Readers, GetSnapshot(r)
  PROVE  View' /\ (KV!Next \/ UNCHANGED KV!vars)
<1>1. /\ phase = "open" /\ snaps[r] = None /\ snaps' = [snaps EXCEPT ![r] = lastSeq]
      /\ UNCHANGED <<op, writers, group, memtable, mem, imm, lastSeq, nextFile, version, logNumber, flush, merge,
                     bgError, gets, phase, logs, tables, manifest, spent>>
  BY DEF GetSnapshot, disk
<1>2. ReadersView /\ DOMAIN snaps = Readers /\ lastSeq \in Nat
  BY <1>1 DEF Inv, View, Pool, PoolOf
<1>3. DOMAIN snaps' = Readers /\ snaps'[r] = lastSeq /\ \A x \in Readers : x # r => snaps'[x] = snaps[x]
  BY <1>1, <1>2
<1>4. ReadersView'
  <2>1. lastSeq <= lastSeq
    BY <1>2
  <2> QED
    BY <1>1, <1>2, <1>3, <2>1 DEF ReadersView
<1>5. View' /\ Newest' = Newest /\ UNCHANGED <<StoreNow, CallsNow, LimboNow>>
  BY <1>1, <1>3, <1>4, ReaderSteps
<1>6. GetsNow' = GetsNow
  BY <1>1 DEF GetsNow, Reads, MemEntries, EntriesOf
<1>7. CASE lastSeq = None
  <2>1. SnapsNow' = SnapsNow
    BY <1>1, <1>3, <1>5, <1>7 DEF SnapsNow
  <2> QED
    BY <1>5, <1>6, <2>1, StoreSame
<1>8. CASE lastSeq # None
  <2>1. SnapsNow[r] = None
    BY <1>1 DEF SnapsNow
  <2>2. SnapsNow' = [SnapsNow EXCEPT ![r] = StoreNow]
    BY <1>1, <1>3, <1>5, <1>8 DEF SnapsNow, StoreNow
  <2> QED
    BY <1>5, <1>6, <2>1, <2>2, StoreReads
<1> QED
  BY <1>7, <1>8

LEMMA ReleaseSnapshotView ==
  ASSUME Inv, View, Inv', NEW r \in Readers, ReleaseSnapshot(r)
  PROVE  View' /\ (KV!Next \/ UNCHANGED KV!vars)
<1>1. /\ snaps[r] # None /\ snaps' = [snaps EXCEPT ![r] = None]
      /\ UNCHANGED <<op, writers, group, memtable, mem, imm, lastSeq, nextFile, version, logNumber, flush, merge,
                     bgError, gets, phase, logs, tables, manifest, spent>>
  BY DEF ReleaseSnapshot, disk
<1>2. phase = "open"
  BY <1>1 DEF View, Closed
<1>3. ReadersView /\ DOMAIN snaps = Readers
  BY <1>2 DEF View
<1>4. DOMAIN snaps' = Readers /\ snaps'[r] = None /\ \A x \in Readers : x # r => snaps'[x] = snaps[x]
  BY <1>1, <1>3
<1>5. ReadersView'
  BY <1>1, <1>3, <1>4 DEF ReadersView
<1>6. View' /\ Newest' = Newest /\ UNCHANGED <<StoreNow, CallsNow, LimboNow>>
  BY <1>1, <1>2, <1>4, <1>5, ReaderSteps
<1>7. GetsNow' = GetsNow
  BY <1>1 DEF GetsNow, Reads, MemEntries, EntriesOf
<1>8. SnapsNow' = [SnapsNow EXCEPT ![r] = None]
  BY <1>4, <1>6 DEF SnapsNow
<1> QED
  BY <1>6, <1>7, <1>8, StoreReads

LEMMA BeginGetView ==
  ASSUME Inv, View, Inv', NEW r \in Readers, BeginGet(r)
  PROVE  View' /\ (KV!Next \/ UNCHANGED KV!vars)
<1> DEFINE s == IF snaps[r] = None THEN lastSeq ELSE snaps[r]
<1>1. /\ phase = "open" /\ gets[r] = None
      /\ gets' = [gets EXCEPT ![r] = [seq |-> s, mem |-> mem, imm |-> imm, version |-> version]]
      /\ UNCHANGED <<op, writers, group, memtable, mem, imm, lastSeq, nextFile, version, logNumber, flush, merge,
                     bgError, snaps, phase, logs, tables, manifest, spent>>
  BY DEF BeginGet, disk
<1>2. Sound /\ Places /\ ReadersView /\ DOMAIN snaps = Readers /\ DOMAIN gets = Readers /\ lastSeq \in Nat
  BY <1>1 DEF Inv, View, Pool, PoolOf, Sound, Stages
<1>3. s \in Nat /\ s <= lastSeq
  BY <1>2 DEF ReadersView
<1>4. /\ gets'[r].seq = s /\ gets'[r].mem = mem /\ gets'[r].imm = imm /\ gets'[r].version = version
      /\ \A x \in Readers : x # r => gets'[x] = gets[x]
  BY <1>1, <1>2
<1>5. mem \in Nat /\ imm \in Nat /\ imm < mem /\ mem < nextFile /\ nextFile \in Nat
  BY <1>1, <1>2, Opened
<1>6. /\ Below(Files(version), nextFile) /\ Below({mem, imm}, nextFile)
      /\ flush # None => flush.number \notin Files(version)
      /\ merge # None /\ merge.step # "open" => merge.number \notin Files(version)
  BY <1>1, <1>2, <1>5 DEF Places, FileNumbers, FilesOfEdits, Below, InUse
<1> HIDE DEF s
<1>7. ReadersView'
  <2>1. ASSUME NEW x \in Readers, gets'[x] # None
        PROVE  /\ gets'[x].seq \in Nat /\ gets'[x].seq <= lastSeq
               /\ Below(Files(gets'[x].version), nextFile) /\ Below({gets'[x].mem, gets'[x].imm}, nextFile)
               /\ flush # None => flush.number \notin Files(gets'[x].version)
               /\ merge # None /\ merge.step # "open" => merge.number \notin Files(gets'[x].version)
    <3>1. CASE x = r
      BY <1>3, <1>4, <1>6, <3>1
    <3>2. CASE x # r
      BY <1>2, <1>4, <2>1, <3>2 DEF ReadersView
    <3> QED
      BY <3>1, <3>2
  <2> QED
    BY <1>1, <1>2, <2>1 DEF ReadersView, Files
<1>8. View' /\ Newest' = Newest /\ UNCHANGED <<StoreNow, CallsNow, LimboNow>>
  BY <1>1, <1>2, <1>7, ReaderSteps
<1>9. SnapsNow' = SnapsNow
  BY <1>1, <1>8 DEF SnapsNow
<1>10. Reads(r)' = Newest /\ \A x \in Readers : x # r => Reads(x)' = Reads(x)
  BY <1>1, <1>4 DEF Reads, Newest, MemEntries, EntriesOf
<1>11. GetsNow[r] = None
  BY <1>1 DEF GetsNow
<1>12. (IF SnapsNow[r] = None THEN StoreNow ELSE SnapsNow[r]) = Visible(Newest, s)
  <2>1. PICK A : Good(A) /\ PoolOf(A)
    BY DEF Inv, Pool
  <2>2. Visible(Newest, snaps[r]) # None
    BY <1>1, <2>1, NewestIsGood, StoreShown
  <2> QED
    BY <1>1, <2>2 DEF SnapsNow, StoreNow, s
<1>13. CASE gets'[r] = None
  <2>1. GetsNow' = GetsNow
    BY <1>1, <1>4, <1>10, <1>13 DEF GetsNow
  <2> QED
    BY <1>8, <1>9, <2>1, StoreSame
<1>14. CASE gets'[r] # None
  <2>1. PICK f : f = Visible(Newest, s)
    OBVIOUS
  <2>2. ASSUME NEW x \in Readers PROVE GetsNow'[x] = IF x = r THEN f ELSE GetsNow[x]
    BY <1>4, <1>10, <1>14, <2>1 DEF GetsNow
  <2>3. GetsNow' = [GetsNow EXCEPT ![r] = f]
    <3>1. GetsNow = [x \in Readers |-> GetsNow[x]] /\ GetsNow' = [x \in Readers |-> GetsNow'[x]]
      BY DEF GetsNow
    <3> QED
      BY <2>2, <3>1
  <2>4. GetsNow' = [GetsNow EXCEPT ![r] = IF SnapsNow[r] = None THEN StoreNow ELSE SnapsNow[r]]
    BY <1>12, <2>1, <2>3
  <2> QED
    BY <1>8, <1>9, <1>11, <2>4, StoreReads
<1> QED
  BY <1>13, <1>14

LEMMA EndGetView ==
  ASSUME Inv, View, Inv', NEW r \in Readers, EndGet(r)
  PROVE  View' /\ (KV!Next \/ UNCHANGED KV!vars)
<1>1. /\ gets[r] # None /\ gets' = [gets EXCEPT ![r] = None]
      /\ memtable' = [i \in Referenced(mem, imm, gets') |-> memtable[i]]
      /\ UNCHANGED <<op, writers, group, mem, imm, lastSeq, nextFile, version, logNumber, flush, merge,
                     bgError, snaps, phase, logs, tables, manifest, spent>>
  BY DEF EndGet, disk
<1>2. phase = "open" /\ Sound /\ Places /\ ReadersView /\ DOMAIN snaps = Readers /\ DOMAIN gets = Readers
  BY <1>1 DEF Inv, View, Sound, Stages
<1>3. gets'[r] = None /\ \A x \in Readers : x # r => gets'[x] = gets[x]
  BY <1>1, <1>2
<1>4. mem # 0
  BY <1>2, Opened
<1>5. mem \in Referenced(mem, imm, gets') /\ (imm # 0 => imm \in Referenced(mem, imm, gets'))
  BY <1>4, ReferencedTo
<1>6. ASSUME NEW x \in Readers, gets'[x] # None
      PROVE  /\ gets'[x].mem # 0 => gets'[x].mem \in Referenced(mem, imm, gets')
             /\ gets'[x].imm # 0 => gets'[x].imm \in Referenced(mem, imm, gets')
  <2>1. x \in Reading(gets')
    BY <1>6 DEF Reading
  <2> QED
    BY <2>1, ReferencedTo
<1>7. ReadersView'
  BY <1>1, <1>2, <1>3 DEF ReadersView, Files
<1>8. memtable'[mem] = memtable[mem] /\ (imm # 0 => memtable'[imm] = memtable[imm])
  BY <1>1, <1>5
<1>9. View' /\ Newest' = Newest /\ UNCHANGED <<StoreNow, CallsNow, LimboNow>>
  BY <1>1, <1>2, <1>7, <1>8, ReaderSteps
<1>10. SnapsNow' = SnapsNow
  BY <1>1, <1>9 DEF SnapsNow
<1>11. \A x \in Readers : gets'[x] # None => Reads(x)' = Reads(x)
  <2>1. ASSUME NEW x \in Readers, gets'[x] # None
        PROVE  Reads(x)' = Reads(x)
    <3>1. gets'[x] = gets[x]
      BY <1>3, <2>1
    <3>2. MemEntries(gets[x].mem)' = MemEntries(gets[x].mem) /\ MemEntries(gets[x].imm)' = MemEntries(gets[x].imm)
      <4>1. gets'[x].mem # 0 => memtable'[gets'[x].mem] = memtable[gets'[x].mem]
        BY <1>1, <1>6, <2>1
      <4>2. gets'[x].imm # 0 => memtable'[gets'[x].imm] = memtable[gets'[x].imm]
        BY <1>1, <1>6, <2>1
      <4> QED
        BY <3>1, <4>1, <4>2 DEF MemEntries
    <3>3. EntriesOf(gets[x].version)' = EntriesOf(gets[x].version)
      BY <1>1, <3>1 DEF EntriesOf, Files
    <3> QED
      BY <3>2, <3>3 DEF Reads
  <2> QED
    BY <2>1
<1>12. GetsNow' = [GetsNow EXCEPT ![r] = None]
  BY <1>3, <1>11 DEF GetsNow
<1> QED
  BY <1>9, <1>10, <1>12, StoreReads

-----------------------------------------------------------------------------
(* A death of the process.                                                 *)

(* Nothing waits, and no reader is there.                                  *)
ClosedStore ==
  /\ CallsNow = {} /\ LimboNow = {} /\ StoreNow = Visible(OnDisk, MaxSeq(OnDisk))
  /\ SnapsNow = [r \in Readers |-> None] /\ GetsNow = [r \in Readers |-> None]
LEMMA ClosedNow == Inv /\ View /\ phase # "open" => ClosedStore
<1> SUFFICES ASSUME Inv, View, phase # "open" PROVE ClosedStore
  OBVIOUS
<1>1. (\A w \in Writers : op[w] = None) /\ (\A r \in Readers : snaps[r] = None) /\ \A r \in Readers : gets[r] = None
  BY DEF View, Closed, Inv, Sound, Stages
<1>2. FailedInLog = {}
  BY DEF FailedInLog
<1> QED
  BY <1>1, <1>2 DEF ClosedStore, CallsNow, Waiting, LimboNow, WritesOf, StoreNow, SnapsNow, GetsNow

LEMMA ClosedThen ==
  ASSUME Inv', View', phase' # "open"
  PROVE  /\ CallsNow' = {} /\ LimboNow' = {} /\ StoreNow' = Visible(OnDisk', MaxSeq(OnDisk'))
         /\ SnapsNow' = [r \in Readers |-> None] /\ GetsNow' = [r \in Readers |-> None]
<1>1. (Inv /\ View /\ phase # "open" => ClosedStore)'
  BY ClosedNow, PTL
<1>2. ClosedStore'
  BY <1>1
<1>3. Visible(OnDisk, MaxSeq(OnDisk))' = Visible(OnDisk', MaxSeq(OnDisk'))
  BY DEF Visible, Lookup, MaxSeq
<1> QED
  BY <1>2, <1>3 DEF ClosedStore

LEMMA ForgottenView ==
  ASSUME Forget
  PROVE  View'
<1>1. /\ op' = [w \in Writers |-> None] /\ writers' = <<>> /\ phase' = "down"
      /\ snaps' = [r \in Readers |-> None]
  BY DEF Forget
<1>2. QueueIds'
  BY <1>1 DEF QueueIds
<1> QED
  BY <1>1, <1>2 DEF View, ReplayView, Replays, Recovers, Closed

(* No entry has a greater sequence number than the greatest.               *)
LEMMA MaxSeqIs ==
  ASSUME NEW A, Good(A), NEW E, E \subseteq A
  PROVE  MaxSeq(E) \in Nat /\ \A e \in E : e.seq <= MaxSeq(E)
<1> DEFINE S == {e.seq : e \in E} \union {0}
<1>1. PICK b \in Nat : \A e \in A : e.seq <= b
  BY DEF Good
<1>2. \A e \in E : e.seq \in Nat
  BY DEF Good, Entry
<1>3. S \in SUBSET Nat /\ S # {} /\ (\A n \in S : n <= b) /\ \A e \in E : e.seq \in S
  BY <1>1, <1>2
<1> HIDE DEF S
<1>4. Max(S) \in S /\ \A n \in S : n <= Max(S)
  BY <1>1, <1>3, Greatest
<1>5. MaxSeq(E) = Max(S)
  BY DEF MaxSeq, S
<1> QED
  BY <1>3, <1>4, <1>5

(* A later reader sees no more than the greatest sequence number.          *)
LEMMA AllSeen ==
  ASSUME NEW A, Good(A), NEW E, E \subseteq A, NEW s, \A e \in E : e.seq <= s
  PROVE  Visible(E, s) = Visible(E, MaxSeq(E))
<1>1. \A e \in E : e.seq <= MaxSeq(E) /\ e.seq <= e.seq
  BY MaxSeqIs DEF Good, Entry
<1>2. AsNew(E, s, E, MaxSeq(E)) /\ AsNew(E, MaxSeq(E), E, s)
  BY <1>1 DEF AsNew
<1> QED
  BY <1>2, SameView

(* The writes that entries are the updates of.                             *)
LEMMA WritesAre ==
  ASSUME NEW X, X \subseteq Entry
  PROVE  Wrote(X, WritesOf(X)) /\ \A w \in WritesOf(X) : w.id \in Nat
<1>1. \A e \in X : e.val \in Nat
  BY DEF Entry
<1>2. ASSUME NEW k \in Keys, NEW i \in Nat, NEW e \in X, e.key = k, e.val = i
      PROVE  \E w \in WritesOf(X) : k \in w.keys /\ w.id = i
  <2>1. PICK w : w = [id |-> i, keys |-> {f.key : f \in {g \in X : g.val = i}}]
    OBVIOUS
  <2>2. w \in WritesOf(X)
    BY <1>2, <2>1 DEF WritesOf
  <2>3. e.key \in w.keys
    BY <1>2, <2>1
  <2> QED
    BY <1>2, <2>1, <2>2, <2>3
<1>3. ASSUME NEW k \in Keys, NEW i \in Nat, NEW w \in WritesOf(X), k \in w.keys, w.id = i
      PROVE  \E e \in X : e.key = k /\ e.val = i
  <2>1. PICK j : w = [id |-> j, keys |-> {f.key : f \in {g \in X : g.val = j}}]
    BY DEF WritesOf
  <2>2. j = i /\ k \in {f.key : f \in {g \in X : g.val = j}}
    BY <1>3, <2>1
  <2> QED
    BY <2>2
<1>4. \A w \in WritesOf(X) : w.id \in Nat
  BY <1>1 DEF WritesOf
<1> QED
  BY <1>2, <1>3, <1>4 DEF Wrote

(* What the next process will find: the tables the MANIFEST m names, and   *)
(* the logs of imm and mem.                                                *)
Left0(m) == IF imm # 0 /\ m.log <= imm THEN memtable[imm] ELSE {}
LEMMA DeadDisk ==
  ASSUME Inv, View, phase = "open", NEW m, Written(m), manifest' = m, tables' = tables,
         DOMAIN logs' = DOMAIN logs, \A n \in DOMAIN logs : n # mem => logs'[n] = logs[n]
  PROVE  OnDisk' = Content(tables, Files(m.version)) \union Left0(m) \union RecsOf(logs'[mem])
<1>1. Sound /\ Places /\ LogView
  BY DEF Inv, View
<1>2. m.log \in Nat /\ logNumber <= m.log /\ m.log <= mem
  BY DeadSays
<1>3. /\ mem \in Nat /\ mem # 0 /\ imm \in Nat /\ imm < mem /\ DOMAIN logs \subseteq Nat /\ logNumber \in Nat
      /\ mem \in DOMAIN logs
  BY <1>1, Opened
<1>4. LogsToReplay' = {n \in DOMAIN logs : n >= m.log}
  BY DEF LogsToReplay
<1>5. \A n \in LogsToReplay' : n = mem \/ (n = imm /\ imm # 0 /\ m.log <= imm)
  <2>1. \A n \in DOMAIN logs : n >= logNumber => n \in {imm, mem}
    BY <1>1 DEF LogView
  <2>2. imm = 0 => logNumber = mem
    BY <1>1 DEF LogView
  <2> QED
    BY <1>2, <1>3, <1>4, <2>1, <2>2
<1>6. mem \in LogsToReplay' /\ (imm # 0 /\ m.log <= imm => imm \in LogsToReplay')
  BY <1>1, <1>2, <1>3, <1>4 DEF LogView
<1>7. imm # 0 => RecsOf(logs'[imm]) = memtable[imm]
  BY <1>1, <1>3 DEF LogView, RecordsOf, RecsOf
<1>8. OnDisk' = EntriesOf(manifest.version)' \union UNION {RecsOf(logs'[n]) : n \in LogsToReplay'}
  BY DEF OnDisk, RecordsOf, RecsOf
<1>9. EntriesOf(manifest.version)' = Content(tables, Files(m.version))
  BY DEF EntriesOf, Content, Files
<1>10. UNION {RecsOf(logs'[n]) : n \in LogsToReplay'} = Left0(m) \union RecsOf(logs'[mem])
  <2>1. CASE imm # 0 /\ m.log <= imm
    <3>1. LogsToReplay' = {imm, mem} /\ Left0(m) = RecsOf(logs'[imm])
      BY <1>5, <1>6, <1>7, <2>1 DEF Left0
    <3> QED
      BY <3>1
  <2>2. CASE ~(imm # 0 /\ m.log <= imm)
    <3>1. LogsToReplay' = {mem} /\ Left0(m) = {}
      BY <1>5, <1>6, <2>2 DEF Left0
    <3> QED
      BY <3>1
  <2> QED
    BY <2>1, <2>2
<1> QED
  BY <1>8, <1>9, <1>10

(* What is on the disk shows the store with the calls W, when the log has  *)
(* what the memtable has and their updates X.                              *)
LEMMA DiskShows ==
  ASSUME Inv, View, phase = "open", NEW A, Good(A), PoolOf(A), NEW m, Written(m),
         Content(tables, Files(m.version)) \subseteq A,
         NEW L, L \subseteq A, NEW X, X \subseteq L, memtable[mem] \subseteq L, L \subseteq memtable[mem] \union X,
         \A e \in memtable[mem] : e.seq <= lastSeq \/ e \in X,
         \A x \in X, e \in Newest : e.seq <= lastSeq => e.seq < x.seq,
         InOrder(X), NEW W, Wrote(X, W), \A w \in W : w.id \in Nat,
         NEW D, D = Content(tables, Files(m.version)) \union Left0(m) \union L
  PROVE  Visible(D, MaxSeq(D)) = KV!Apply(StoreNow, W)
<1>1. Sound /\ Places /\ Newest \subseteq A /\ A \subseteq Entry
  BY NewestIsGood DEF Inv, Good
<1>2. PICK C, V, I : /\ C = Content(tables, Files(m.version)) /\ V = Content(tables, Files(version))
                     /\ I = MemEntries(imm)
  OBVIOUS
<1>3. Newest = memtable[mem] \union I \union V
  BY <1>1, <1>2, Opened
<1>4. Covers(C, V) /\ Covers(V \union I, C) /\ (imm # 0 /\ m.log > imm => Covers(C, I))
  BY <1>2, DeadSays DEF Says, MemEntries
<1>5. \A e \in V \union I : e \in Newest /\ e.seq <= lastSeq
  BY <1>2, <1>3 DEF PoolOf, OpenPool, Upto, MemEntries
<1>6. Left0(m) \subseteq I /\ (Left0(m) = I \/ Covers(C, I))
  <2>1. imm \in Nat /\ m.log \in Nat
    BY <1>1, Opened, DeadSays
  <2>2. CASE imm = 0
    BY <1>2, <2>2 DEF Left0, MemEntries
  <2>3. CASE imm # 0 /\ m.log <= imm
    BY <1>2, <2>3 DEF Left0, MemEntries
  <2>4. CASE imm # 0 /\ m.log > imm
    BY <1>4, <2>1, <2>4 DEF Left0
  <2> QED
    BY <2>1, <2>2, <2>3, <2>4
<1>7. D = C \union Left0(m) \union L /\ D \subseteq A
  BY <1>1, <1>2, <1>3, <1>6
<1>8. \A e \in D : e.seq <= MaxSeq(D) /\ e.seq \in Nat
  BY <1>1, <1>7, MaxSeqIs DEF Entry
<1>9. \A e \in A : e.seq <= e.seq
  BY <1>1 DEF Entry
<1> DEFINE t == MaxSeq(D)
<1> HIDE DEF t
<1>10. \A x \in X : x.seq <= t /\ \A e \in Newest : e.seq <= lastSeq => e.seq < x.seq
  BY <1>7, <1>8 DEF t
<1>11. AsNew(D, t, X, t)
  BY <1>7, <1>8, <1>9 DEF AsNew, t
<1>12. AsNew(D, t, Newest, lastSeq)
  <2> SUFFICES ASSUME NEW f \in Newest
               PROVE  \E e \in D : e.key = f.key /\ f.seq <= e.seq /\ e.seq <= t
    BY DEF AsNew
  <2>1. CASE f \in D
    BY <1>7, <1>8, <1>9, <2>1 DEF t
  <2>2. ASSUME NEW Y, Covers(C, Y), f \in Y
        PROVE  \E e \in D : e.key = f.key /\ f.seq <= e.seq /\ e.seq <= t
    <3>1. PICK e \in C : e.key = f.key /\ e.seq \in Nat /\ e.seq >= f.seq
      BY <2>2 DEF Covers, Over
    <3>2. f.seq \in Nat /\ e \in D
      BY <1>1, <1>7 DEF Entry
    <3> QED
      BY <1>8, <3>1, <3>2 DEF t
  <2> QED
    BY <1>3, <1>4, <1>6, <1>7, <2>1, <2>2
<1>13. ASSUME NEW f \in D
       PROVE  \/ \E x \in X : x.key = f.key /\ f.seq <= x.seq
              \/ \E e \in Newest : e.key = f.key /\ f.seq <= e.seq /\ e.seq <= lastSeq
  <2>1. CASE f \in X
    BY <1>7, <1>9, <2>1
  <2>2. CASE f \in memtable[mem] /\ f.seq <= lastSeq
    BY <1>1, <1>3, <1>9, <2>2
  <2>3. CASE f \in I
    BY <1>1, <1>3, <1>5, <1>9, <2>3
  <2>4. CASE f \in C
    <3>1. PICK e \in V \union I : e.key = f.key /\ e.seq \in Nat /\ e.seq >= f.seq
      BY <1>4, <2>4 DEF Covers, Over
    <3> QED
      BY <1>5, <1>8, <3>1
  <2> QED
    BY <1>6, <1>7, <2>1, <2>2, <2>3, <2>4
<1>14. Visible(D, t) = KV!Apply(Visible(Newest, lastSeq), W)
  BY <1>1, <1>7, <1>10, <1>11, <1>12, <1>13, Committed
<1> QED
  BY <1>14 DEF StoreNow, t

(* What may be in the log of mem after a death: the writes X of its last   *)
(* group, of a group whose sync failed, or none.                           *)
LogLeft(L) ==
  \/ L = RecordsOf(mem)
  \/ group # None /\ group.step = "log" /\ L = RecordsOf(mem) \union InFlight
LEMMA LogLeftHas ==
  ASSUME Inv, View, phase = "open", NEW A, Good(A), PoolOf(A), NEW L, LogLeft(L)
  PROVE  \E X, W :
           /\ W \in SUBSET (CallsNow \union LimboNow) /\ Wrote(X, W) /\ (\A w \in W : w.id \in Nat) /\ InOrder(X)
           /\ L \subseteq A /\ X \subseteq L /\ memtable[mem] \subseteq L /\ L \subseteq memtable[mem] \union X
           /\ \A e \in memtable[mem] : e.seq <= lastSeq \/ e \in X
           /\ \A x \in X, e \in Newest : e.seq <= lastSeq => e.seq < x.seq
<1>1. Sound /\ Queue /\ Calls /\ Places /\ LogView /\ BadView /\ QueueIds /\ A \subseteq Entry
  BY DEF Inv, View, Queue, Good
<1>2. InFlight \subseteq A /\ \A e \in A : e.seq <= lastSeq \/ e \in InFlight
  BY DEF PoolOf, OpenPool
<1>3. RecordsOf(mem) \subseteq A
  <2>1. /\ mem \in DOMAIN logs /\ logNumber \in Nat /\ mem \in Nat /\ logNumber <= mem
        /\ LogFile(logs[mem])
    <3>1. logNumber <= manifest.log /\ manifest.log <= mem /\ logNumber \in Nat /\ manifest.log \in Nat
      BY <1>1, Opened
    <3> QED
      BY <1>1, <3>1, Opened
  <2>2. Low = logNumber
    BY DEF Low
  <2>3. RecsIn(logs[mem], A)
    BY <2>1, <2>2 DEF PoolOf
  <2> QED
    BY <2>1, <2>3, RecordsAre
<1>4. memtable[mem] \subseteq RecordsOf(mem) /\ memtable[mem] \subseteq A /\ Newest \subseteq A
  BY <1>1, <1>3, NewestIsGood DEF LogView
<1>5. \A e \in A : e.seq \in Nat
  BY <1>1 DEF Entry
<1>6. CASE group # None
  <2>1. /\ Bad = {} /\ InOrder(InFlight) /\ Wrote(InFlight, CallsOf(group.members)) /\ lastSeq \in Nat
        /\ \A e \in InFlight : e.seq \in Nat /\ lastSeq < e.seq
        /\ \E k \in 1..Len(writers) : group.members = SubSeq(writers, 1, k)
    BY <1>6, WhileGrouped
  <2>2. CallsOf(group.members) \subseteq CallsNow
    <3>1. PICK k \in 1..Len(writers) : group.members = SubSeq(writers, 1, k)
      BY <2>1
    <3>2. ToSet(group.members) \subseteq ToSet(writers)
      <4>1. PICK q, p : q = writers /\ p = SubSeq(writers, 1, k)
        OBVIOUS
      <4>2. q \in Seq(Writers) /\ Len(q) \in Nat /\ k \in Nat /\ 1 <= k /\ k <= Len(q) /\ DOMAIN q = 1..Len(q)
        BY <1>1, <4>1 DEF Calls
      <4>3. Len(p) = k /\ DOMAIN p = 1..k /\ \A i \in 1..k : p[i] = q[i]
        BY <4>1, <4>2
      <4>4. ToSet(p) = {p[i] : i \in 1..k} /\ ToSet(q) = {q[i] : i \in 1..Len(q)} /\ 1..k \subseteq 1..Len(q)
        BY <4>2, <4>3 DEF ToSet
      <4>5. ToSet(p) \subseteq ToSet(q)
        BY <4>3, <4>4
      <4> QED
        BY <3>1, <4>1, <4>5
    <3>3. ToSet(writers) = Waiting
      BY <1>1 DEF Calls, Waiting
    <3> QED
      BY <3>2, <3>3 DEF CallsOf, CallsNow
  <2>3. \A w \in CallsOf(group.members) : w.id \in Nat
    BY <1>1, <2>2, CallsAre
  <2>4. RecordsOf(mem) \subseteq memtable[mem] \union InFlight
    BY <2>1 DEF Bad
  <2>5. \A x \in InFlight, e \in Newest : e.seq <= lastSeq => e.seq < x.seq
    BY <1>4, <1>5, <2>1
  <2>6. CASE Logged \/ L = RecordsOf(mem) \union InFlight
    <3>1. InFlight \subseteq L /\ L = RecordsOf(mem) \union InFlight
      BY <1>1, <2>6 DEF LogView, LogLeft
    <3>2. /\ L \subseteq A /\ memtable[mem] \subseteq L /\ L \subseteq memtable[mem] \union InFlight
          /\ \A e \in memtable[mem] : e.seq <= lastSeq \/ e \in InFlight
      BY <1>2, <1>3, <1>4, <2>4, <3>1
    <3>3. PICK X, W : X = InFlight /\ W = CallsOf(group.members)
      OBVIOUS
    <3> QED
      BY <2>1, <2>2, <2>3, <2>5, <3>1, <3>2, <3>3
  <2>7. CASE ~Logged /\ L = RecordsOf(mem)
    <3>1. \A e \in RecordsOf(mem) : e.seq <= lastSeq
      BY <1>1, <1>6, <2>7 DEF LogView
    <3>2. \A e \in RecordsOf(mem) : e \notin InFlight
      BY <1>3, <1>5, <2>1, <3>1
    <3>3. L \subseteq A /\ memtable[mem] \subseteq L /\ L \subseteq memtable[mem] \union {}
          /\ \A e \in memtable[mem] : e.seq <= lastSeq
      BY <1>3, <1>4, <2>4, <2>7, <3>1, <3>2
    <3>4. InOrder({}) /\ Wrote({}, {})
      BY DEF InOrder, Wrote
    <3>5. PICK X, W : X = {} /\ W = {}
      OBVIOUS
    <3> QED
      BY <3>3, <3>4, <3>5
  <2> QED
    BY <2>6, <2>7 DEF LogLeft
<1>7. CASE group = None
  <2>1. InFlight = {} /\ L = RecordsOf(mem) /\ Bad = RecordsOf(mem) \ memtable[mem]
    BY <1>7 DEF InFlight, LogLeft, Bad
  <2>2. Bad \subseteq Entry /\ Bad \subseteq A
    BY <1>1, <1>3, <2>1
  <2>3. Wrote(Bad, WritesOf(Bad)) /\ \A w \in WritesOf(Bad) : w.id \in Nat
    BY <2>2, WritesAre
  <2>4. WritesOf(Bad) = LimboNow
    BY FailedIs DEF LimboNow
  <2>5. InOrder(Bad) /\ \A x \in Bad, e \in Newest : e.seq < x.seq
    <3>1. CASE Bad = {}
      BY <3>1 DEF InOrder
    <3>2. CASE Bad # {}
      BY <1>1, <3>2 DEF BadView
    <3> QED
      BY <3>1, <3>2
  <2>6. /\ L \subseteq A /\ Bad \subseteq L /\ memtable[mem] \subseteq L /\ L \subseteq memtable[mem] \union Bad
        /\ \A e \in memtable[mem] : e.seq <= lastSeq
    BY <1>2, <1>3, <1>4, <2>1
  <2>7. PICK X, W : X = Bad /\ W = WritesOf(Bad)
    OBVIOUS
  <2> QED
    BY <2>3, <2>4, <2>5, <2>6, <2>7
<1> QED
  BY <1>6, <1>7

(* A recovery that has read all logs leaves the disk as it would be read.  *)
LEMMA RecoveredDisk ==
  ASSUME Inv, View, Recovers
  PROVE  /\ Content(tables, Files(Recorded(manifest, flush.edit).version)) = OnDisk
         /\ Recorded(manifest, flush.edit).log = mem
         /\ \A n \in DOMAIN logs : n >= mem => n = mem
         /\ mem \in DOMAIN logs /\ logs[mem] = NewLog /\ RecsOf(logs[mem]) = {}
         /\ \E A : Good(A) /\ OnDisk \subseteq Upto(A, lastSeq) /\ memtable[mem] = {}
<1>1. PICK A : Good(A) /\ PoolOf(A)
  BY DEF Inv, Pool
<1>2. /\ Sound /\ Places /\ phase = "opening" /\ RecoverPool(A) /\ Content(tables, flush.edit.add0) \subseteq OnDisk
      /\ A \subseteq Entry
  BY <1>1 DEF Inv, View, ReplayView, Recovers, PoolOf, Good
<1>3. PICK e, M, N : e = flush.edit /\ M = Content(tables, Files(manifest.version)) /\ N = Content(tables, e.add0)
  OBVIOUS
<1>4. /\ e.del = {} /\ e.addDeep = {} /\ e.log = mem /\ logs[mem] = NewLog /\ mem \in DOMAIN logs
      /\ mem \in Nat /\ manifest.log \in Nat /\ manifest.log <= mem /\ (\A n \in LogsToReplay : n <= mem)
      /\ DOMAIN logs \subseteq Nat
  BY <1>2, <1>3 DEF Recovers, Places, Logs, Memtables, FileNumbers, Sound, FlushSound, Flushing, Numbers
<1>5. Content(tables, Files(Recorded(manifest, e).version)) = M \union N /\ Recorded(manifest, e).log = mem
  BY <1>3, <1>4, FlushApplied DEF Recorded
<1>6. OnDisk = M \union UNION {RecordsOf(n) : n \in LogsToReplay}
  BY <1>3, EntriesAre DEF OnDisk
<1>7. \A n \in LogsToReplay : RecordsOf(n) \subseteq N
  <2>1. ASSUME NEW n \in LogsToReplay PROVE RecordsOf(n) \subseteq N
    <3>1. LogFile(logs[n]) /\ RecsIn(logs[n], N)
      BY <1>2, <1>3, <2>1 DEF Places, Logs, RecoverPool, LogsToReplay
    <3> QED
      BY <3>1, RecordsAre
  <2> QED
    BY <2>1
<1>8. OnDisk = M \union N
  BY <1>2, <1>3, <1>6, <1>7
<1>9. \A n \in DOMAIN logs : n >= mem => n = mem
  BY <1>4 DEF LogsToReplay
<1>10. RecsOf(logs[mem]) = {}
  <2>1. ToSet(<<>>) = {}
    BY DEF ToSet
  <2> QED
    BY <1>4, <2>1 DEF RecsOf, NewLog
<1>11. M \union N \subseteq Upto(A, lastSeq) /\ memtable[mem] = {}
  <2>1. manifest.seq \in Nat /\ lastSeq \in Nat /\ manifest.seq <= lastSeq /\ M \subseteq Upto(A, manifest.seq)
    BY <1>1, <1>2, <1>3 DEF PoolOf
  <2>2. N \subseteq Upto(A, lastSeq) /\ memtable[mem] = {}
    BY <1>2, <1>3 DEF RecoverPool
  <2> QED
    BY <1>2, <2>1, <2>2, UptoMore
<1> QED
  BY <1>1, <1>3, <1>4, <1>5, <1>8, <1>9, <1>10, <1>11

(* A step of a process that is not open, which the store cannot tell.      *)
LEMMA ClosedSteps ==
  ASSUME Inv, View, phase # "open", Inv', View', phase' # "open", OnDisk' = OnDisk
  PROVE  UNCHANGED KV!vars
<1>1. ClosedStore
  BY ClosedNow
<1> QED
  BY <1>1, ClosedThen, StoreSame DEF ClosedStore

LEMMA ProcessDiesOpenView ==
  ASSUME Inv, View, Inv', View', ProcessDies, phase = "open"
  PROVE  KV!Next
<1>1. /\ Forget /\ phase' = "down" /\ manifest' \in ManifestAfterDeath /\ tables' = tables
      /\ logs' \in {logs} \union
           (IF group # None /\ group.step = "log"
            THEN {[logs EXCEPT ![mem].recs = Append(@, ToSet(group.entries))]} ELSE {})
  BY DEF ProcessDies, Forget
<1>2. Sound /\ Queue /\ Places
  BY DEF Inv
<1>3. PICK A : Good(A) /\ PoolOf(A)
  BY DEF Inv, Pool
<1>4. PICK m : m = manifest'
  OBVIOUS
<1>5. Written(m)
  BY <1>1, <1>2, <1>4, DeadManifest DEF Written, Recovers
<1>6. Content(tables, Files(m.version)) \subseteq A
  <2>1. PoolOf(A)'
    BY <1>2, <1>3, ProcessDiesPool
  <2> QED
    BY <1>1, <1>4, <2>1 DEF PoolOf, Upto, Files
<1>7. PICK L : L = RecsOf(logs'[mem])
  OBVIOUS
<1>8. /\ LogLeft(L) /\ DOMAIN logs' = DOMAIN logs /\ \A n \in DOMAIN logs : n # mem => logs'[n] = logs[n]
  <2>1. CASE logs' = logs
    BY <1>7, <2>1 DEF LogLeft, RecordsOf, RecsOf
  <2>2. CASE group # None /\ group.step = "log" /\ logs' = [logs EXCEPT ![mem].recs = Append(@, ToSet(group.entries))]
    <3>1. PICK l, k : l = logs[mem] /\ k = logs'[mem]
      OBVIOUS
    <3>2. /\ DOMAIN logs' = DOMAIN logs /\ (\A n \in DOMAIN logs : n # mem => logs'[n] = logs[n])
          /\ LogFile(l) /\ LogFile(k) /\ InFlight \subseteq Entry
          /\ Len(k.recs) = Len(l.recs) + 1 /\ k.recs[Len(l.recs) + 1] = InFlight
          /\ \A i \in 1..Len(l.recs) : k.recs[i] = l.recs[i]
      <4>1. mem \in DOMAIN logs /\ LogFile(logs[mem])
        BY <1>2, Opened
      <4> QED
        BY <1>2, <2>2, <3>1, <4>1, AddRecordLogs, EntriesInFlight
    <3>3. RecsOf(k) = RecsOf(l) \union InFlight
      BY <3>2, RecordsAppended
    <3> QED
      BY <1>7, <2>2, <3>1, <3>2, <3>3 DEF LogLeft, RecordsOf, RecsOf
  <2> QED
    BY <1>1, <2>1, <2>2
<1>9. PICK D : D = OnDisk'
  OBVIOUS
<1>10. D = Content(tables, Files(m.version)) \union Left0(m) \union L
  BY <1>1, <1>4, <1>5, <1>7, <1>8, <1>9, DeadDisk
<1>11. PICK X, W :
         /\ W \in SUBSET (CallsNow \union LimboNow) /\ Wrote(X, W) /\ (\A w \in W : w.id \in Nat) /\ InOrder(X)
         /\ L \subseteq A /\ X \subseteq L /\ memtable[mem] \subseteq L /\ L \subseteq memtable[mem] \union X
         /\ \A e \in memtable[mem] : e.seq <= lastSeq \/ e \in X
         /\ \A x \in X, e \in Newest : e.seq <= lastSeq => e.seq < x.seq
  BY <1>3, <1>8, LogLeftHas
<1>12. Visible(D, MaxSeq(D)) = KV!Apply(StoreNow, W)
  BY <1>3, <1>5, <1>6, <1>10, <1>11, DiskShows
<1> QED
  BY <1>1, <1>9, <1>11, <1>12, ClosedThen, StoreCrashes

LEMMA ProcessDiesView ==
  ASSUME Inv, View, Inv', ProcessDies
  PROVE  View' /\ (KV!Next \/ UNCHANGED KV!vars)
<1>1. Forget /\ phase' = "down" /\ manifest' \in ManifestAfterDeath /\ tables' = tables
  BY DEF ProcessDies, Forget
<1>2. View'
  BY <1>1, ForgottenView
<1>3. CASE phase = "open"
  BY <1>2, <1>3, ProcessDiesOpenView
<1>4. CASE phase # "open"
  <2>1. Sound /\ Places /\ phase = "opening" /\ group = None /\ merge = None
    BY <1>4 DEF Inv, Sound, Stages, ProcessDies
  <2>2. logs' = logs
    BY <2>1 DEF ProcessDies
  <2>3. CASE manifest' = manifest
    <3>1. OnDisk' = OnDisk
      BY <1>1, <2>2, <2>3 DEF OnDisk, EntriesOf, LogsToReplay, RecordsOf
    <3> QED
      BY <1>1, <1>2, <1>4, <3>1, ClosedSteps
  <2>4. CASE Recovers /\ manifest' = Recorded(manifest, flush.edit)
    <3>1. PICK m : m = manifest'
      OBVIOUS
    <3>2. /\ Content(tables, Files(m.version)) = OnDisk /\ m.log = mem
          /\ \A n \in DOMAIN logs : n >= mem => n = mem
          /\ mem \in DOMAIN logs /\ RecsOf(logs[mem]) = {} /\ mem \in Nat
      BY <2>1, <2>4, <3>1, RecoveredDisk DEF Places, Memtables
    <3>3. LogsToReplay' = {mem}
      BY <2>2, <3>1, <3>2 DEF LogsToReplay
    <3>4. UNION {RecordsOf(n) : n \in LogsToReplay}' = {}
      BY <2>2, <3>2, <3>3 DEF RecordsOf, RecsOf
    <3>5. OnDisk' = OnDisk
      BY <1>1, <3>1, <3>2, <3>4 DEF OnDisk, EntriesOf, Content, Files
    <3> QED
      BY <1>1, <1>2, <1>4, <3>5, ClosedSteps
  <2> QED
    BY <1>1, <2>1, <2>3, <2>4, DeadManifest
<1> QED
  BY <1>3, <1>4

-----------------------------------------------------------------------------
(* Recoveries.                                                             *)

LEMMA ClosedView ==
  ASSUME View, phase # "open", phase' # "open", UNCHANGED <<op, writers, snaps, spent>>, ReplayView'
  PROVE  View'
<1>1. QueueIds /\ DOMAIN snaps = Readers /\ Closed
  BY DEF View
<1>2. QueueIds' /\ DOMAIN snaps' = Readers /\ Closed'
  BY <1>1 DEF QueueIds, Closed
<1> QED
  BY <1>2 DEF View

LEMMA StartRecoveryView ==
  ASSUME Inv, View, Inv', StartRecovery
  PROVE  View' /\ UNCHANGED KV!vars
<1>1. /\ phase = "down" /\ phase' = "opening" /\ flush'.step = "replay" /\ flush'.made = {} /\ flush'.entries = {}
      /\ UNCHANGED <<op, writers, snaps, spent, logs, tables, manifest>>
  BY DEF StartRecovery, disk
<1>2. OnDisk' = OnDisk
  BY <1>1 DEF OnDisk, EntriesOf, LogsToReplay, RecordsOf
<1>3. ReplayView'
  BY <1>1 DEF ReplayView, Replays, Recovers, Content
<1>4. View'
  BY <1>1, <1>3, ClosedView
<1> QED
  BY <1>1, <1>2, <1>4, ClosedSteps

(* A replay adds a table of what it has read, or none.                     *)
LEMMA TableReplayedView ==
  ASSUME Inv, View, Inv', Replays, flush'.step = "replay",
         UNCHANGED <<op, writers, snaps, spent, phase, logs, manifest>>,
         NEW E, E \subseteq OnDisk,
         \/ tables' = With(tables, nextFile, E) /\ flush'.entries = {} /\ flush'.made = flush.made \union {nextFile}
         \/ tables' = tables /\ flush'.entries = E /\ flush'.made = flush.made
  PROVE  View' /\ UNCHANGED KV!vars
<1>1. phase = "opening" /\ Sound /\ Places
  BY DEF Replays, Inv
<1>2. nextFile \notin Files(manifest.version) /\ nextFile \notin flush.made
  <2>1. /\ Below(Files(manifest.version), manifest.next) /\ manifest.next <= nextFile /\ Below(flush.made, nextFile)
        /\ manifest.next \in Nat /\ nextFile \in Nat
    BY <1>1 DEF Places, FileNumbers, Sound, Numbers
  <2> QED
    BY <2>1 DEF Below
<1>3. OnDisk' = OnDisk
  <2>1. Content(tables', Files(manifest.version)) = Content(tables, Files(manifest.version))
    BY <1>2, ContentOfOld
  <2>2. EntriesOf(manifest.version)' = EntriesOf(manifest.version)
    BY <2>1 DEF EntriesOf, Content, Files
  <2> QED
    BY <2>2 DEF OnDisk, LogsToReplay, RecordsOf
<1>4. Content(tables, flush.made) \subseteq OnDisk
  BY DEF View, ReplayView
<1>5. Content(tables', flush'.made) \union flush'.entries \subseteq OnDisk
  <2>1. CASE tables' = With(tables, nextFile, E) /\ flush'.entries = {} /\ flush'.made = flush.made \union {nextFile}
    <3>1. PICK t, n, S : t = tables' /\ n = nextFile /\ S = flush.made
      OBVIOUS
    <3>2. Content(t, S) = Content(tables, S) /\ Content(t, {n}) = E
      BY <1>2, <2>1, <3>1, ContentOfOld, ContentOfNew
    <3>3. Content(t, S \union {n}) \subseteq Content(t, S) \union Content(t, {n})
      BY ContentOfMore
    <3> QED
      BY <1>4, <2>1, <3>1, <3>2, <3>3
  <2>2. CASE tables' = tables /\ flush'.entries = E /\ flush'.made = flush.made
    BY <1>4, <2>2
  <2> QED
    BY <2>1, <2>2
<1>6. ReplayView'
  BY <1>1, <1>3, <1>5 DEF ReplayView, Replays, Recovers
<1>7. View'
  BY <1>1, <1>6, ClosedView
<1> QED
  BY <1>1, <1>3, <1>7, ClosedSteps

LEMMA ReplayRecordView ==
  ASSUME Inv, View, Inv', NEW n \in DOMAIN logs, ReplayRecord(n)
  PROVE  View' /\ UNCHANGED KV!vars
<1>1. Sound /\ Places /\ UNCHANGED snaps
  BY DEF Inv, ReplayRecord, Replaying
<1> DEFINE record == logs[n].recs[flush.read + 1]
           E == flush.entries \union record
<1>2. /\ Replays /\ flush'.step = "replay" /\ n \in flush.left
      /\ UNCHANGED <<op, writers, spent, phase, logs, manifest>>
      /\ flush.read + 1 \in 1..Len(logs[n].recs)
      /\ \/ tables' = With(tables, nextFile, E) /\ flush'.entries = {} /\ flush'.made = flush.made \union {nextFile}
         \/ tables' = tables /\ flush'.entries = E /\ flush'.made = flush.made
  BY <1>1, ReplayRecordIs
<1>3. record \subseteq OnDisk
  <2>1. n \in LogsToReplay /\ LogFile(logs[n])
    BY <1>1, <1>2 DEF Places, Logs
  <2>2. record \subseteq RecordsOf(n)
    BY <1>2, <2>1, RecordsIn DEF RecsOf, RecordsOf
  <2> QED
    BY <2>1, <2>2 DEF OnDisk
<1>4. flush.entries \subseteq OnDisk
  BY <1>2 DEF View, ReplayView
<1>5. E \subseteq OnDisk
  BY <1>3, <1>4
<1> HIDE DEF E
<1> QED
  BY <1>1, <1>2, <1>5, TableReplayedView

LEMMA FinishReplayView ==
  ASSUME Inv, View, Inv', NEW n \in DOMAIN logs, FinishReplay(n)
  PROVE  View' /\ UNCHANGED KV!vars
<1>1. Sound /\ Places /\ UNCHANGED snaps
  BY DEF Inv, FinishReplay, Replaying
<1>2. /\ Replays /\ flush'.step = "replay" /\ flush'.entries = {}
      /\ UNCHANGED <<op, writers, spent, phase, logs, manifest>>
      /\ \/ tables' = With(tables, nextFile, flush.entries) /\ flush'.made = flush.made \union {nextFile}
         \/ tables' = tables /\ flush.entries = {} /\ flush'.made = flush.made
  BY <1>1, FinishReplayIs
<1>3. flush.entries \subseteq OnDisk
  BY <1>2 DEF View, ReplayView
<1> QED
  BY <1>1, <1>2, <1>3, TableReplayedView

LEMMA OpenNewLogView ==
  ASSUME Inv, View, Inv', OpenNewLog
  PROVE  View' /\ UNCHANGED KV!vars
<1>1. /\ Replays /\ flush.left = {} /\ phase = "opening" /\ phase' = "opening"
      /\ logs' = With(logs, nextFile, NewLog)
      /\ flush'.step = "recover" /\ flush'.edit.add0 = flush.made
      /\ UNCHANGED <<op, writers, snaps, spent, tables, manifest>>
  BY DEF OpenNewLog, Replays
<1>2. Sound /\ Places /\ nextFile \in Nat /\ manifest.log \in Nat
  BY DEF Inv, Sound, Numbers, Places, Logs
<1>3. nextFile \notin LogsToReplay
  BY <1>1, <1>2 DEF Places, Logs, Below
<1>4. /\ LogsToReplay' \subseteq LogsToReplay \union {nextFile} /\ LogsToReplay \subseteq LogsToReplay'
      /\ (\A n \in LogsToReplay : logs'[n] = logs[n]) /\ logs'[nextFile] = NewLog
  BY <1>1, <1>3 DEF LogsToReplay, With
<1>5. RecsOf(NewLog) = {}
  <2>1. ToSet(<<>>) = {}
    BY DEF ToSet
  <2> QED
    BY <2>1 DEF RecsOf, NewLog
<1>6. UNION {RecsOf(logs'[n]) : n \in LogsToReplay'} = UNION {RecsOf(logs[n]) : n \in LogsToReplay}
  BY <1>4, <1>5
<1>7. OnDisk' = OnDisk
  <2>1. OnDisk = EntriesOf(manifest.version) \union UNION {RecsOf(logs[n]) : n \in LogsToReplay}
    BY DEF OnDisk, RecordsOf, RecsOf
  <2>2. OnDisk' = EntriesOf(manifest.version)' \union UNION {RecsOf(logs'[n]) : n \in LogsToReplay'}
    BY DEF OnDisk, RecordsOf, RecsOf
  <2>3. EntriesOf(manifest.version)' = EntriesOf(manifest.version)
    BY <1>1 DEF EntriesOf
  <2> QED
    BY <1>6, <2>1, <2>2, <2>3
<1>8. ReplayView'
  <2>1. Content(tables, flush.made) \subseteq OnDisk
    BY <1>1 DEF View, ReplayView
  <2> QED
    BY <1>1, <1>7, <2>1 DEF ReplayView, Replays, Recovers
<1>9. View'
  BY <1>1, <1>8, ClosedView
<1> QED
  BY <1>1, <1>7, <1>9, ClosedSteps

LEMMA FinishOpenView ==
  ASSUME Inv, View, Inv', FinishOpen
  PROVE  View' /\ UNCHANGED KV!vars
<1>1. /\ Recovers /\ phase = "opening" /\ phase' = "open" /\ flush' = None /\ logNumber' = flush.edit.log
      /\ manifest' = Recorded(manifest, flush.edit) /\ version' = Applied(version, flush.edit)
      /\ DeleteObsoleteFiles({version'}, {}, flush.edit.log)
      /\ UNCHANGED <<op, writers, group, memtable, mem, imm, lastSeq, merge, bgError, snaps, gets, spent>>
  BY DEF FinishOpen, Recovers
<1>2. /\ Sound /\ Places /\ version = manifest.version /\ merge = None /\ group = None /\ imm = 0 /\ mem \in Nat /\ mem # 0
      /\ (\A r \in Readers : gets[r] = None)
      /\ Closed /\ QueueIds /\ DOMAIN snaps = Readers
  BY <1>1 DEF Inv, View, Sound, Stages, Places, Memtables
<1>3. /\ Content(tables, Files(Recorded(manifest, flush.edit).version)) = OnDisk
      /\ Recorded(manifest, flush.edit).log = mem
      /\ \A n \in DOMAIN logs : n >= mem => n = mem
      /\ mem \in DOMAIN logs /\ logs[mem] = NewLog /\ RecsOf(logs[mem]) = {}
  BY <1>1, RecoveredDisk
<1>4. PICK A : Good(A) /\ OnDisk \subseteq Upto(A, lastSeq) /\ memtable[mem] = {}
  BY <1>1, RecoveredDisk
<1>5. flush.edit.log = mem /\ manifest'.version = version'
  BY <1>1, <1>2, <1>3 DEF Recorded
<1>6. /\ Content(tables', Files(version')) = Content(tables, Files(version'))
      /\ mem \in DOMAIN logs' /\ logs'[mem] = logs[mem] /\ DOMAIN logs' \subseteq DOMAIN logs
  <2>1. PICK v, held : v = version' /\ held = {v}
    OBVIOUS
  <2>2. v \in held /\ DeleteObsoleteFiles(held, {}, mem)
    BY <1>1, <1>5, <2>1
  <2>3. /\ Content(tables', Files(v)) = Content(tables, Files(v))
        /\ \A n \in DOMAIN logs : n >= mem => n \in DOMAIN logs' /\ logs'[n] = logs[n]
    BY <2>2, NothingTaken
  <2>4. DOMAIN logs' \subseteq DOMAIN logs
    BY <2>2, DeletionKeeps
  <2> QED
    BY <1>2, <1>3, <2>1, <2>3, <2>4
<1>7. Content(tables', Files(version')) = OnDisk
  BY <1>1, <1>3, <1>5, <1>6
<1>8. Newest' = OnDisk
  <2>1. EntriesOf(version)' = OnDisk
    BY <1>7 DEF EntriesOf, Content
  <2>2. MemEntries(mem)' = {} /\ MemEntries(imm)' = {}
    BY <1>1, <1>2, <1>4 DEF MemEntries
  <2> QED
    BY <2>1, <2>2 DEF Newest
<1>9. InFlight' = {} /\ Inserted' = {} /\ ~Logged' /\ RecordsOf(mem)' = {}
  BY <1>1, <1>2, <1>3, <1>6 DEF InFlight, Inserted, Logged, RecordsOf, RecsOf
<1>10. Bad' = {}
  BY <1>9 DEF Bad
<1>11. LogView'
  BY <1>1, <1>2, <1>3, <1>4, <1>5, <1>6, <1>9 DEF LogView
<1>12. ReadersView'
  BY <1>1, <1>2 DEF ReadersView, Closed
<1>13. TablesView'
  <2>1. Covers(OnDisk, OnDisk)
    BY <1>4, CoversItself DEF Good, Upto
  <2>2. MemEntries(imm)' = {}
    BY <1>1, <1>2 DEF MemEntries
  <2>3. Covers(OnDisk \union {}, OnDisk)
    BY <2>1
  <2>4. Says(manifest)'
    BY <1>1, <1>2, <1>5, <1>7, <2>1, <2>2, <2>3 DEF Says, Files
  <2> QED
    BY <1>1, <1>2, <2>4 DEF TablesView
<1>14. View'
  <2>1. QueueIds' /\ DOMAIN snaps' = Readers
    BY <1>1, <1>2 DEF QueueIds
  <2>2. ReplayView' /\ BadView' /\ GroupView'
    BY <1>1, <1>2, <1>10 DEF ReplayView, Replays, Recovers, BadView, GroupView
  <2> QED
    BY <1>1, <1>11, <1>12, <1>13, <2>1, <2>2 DEF View
<1>15. StoreNow' = Visible(OnDisk, MaxSeq(OnDisk))
  <2>1. OnDisk \subseteq A /\ \A e \in OnDisk : e.seq <= lastSeq
    BY <1>4 DEF Upto
  <2>2. Visible(OnDisk, lastSeq) = Visible(OnDisk, MaxSeq(OnDisk))
    BY <1>4, <2>1, AllSeen
  <2> QED
    BY <1>1, <1>8, <2>2 DEF StoreNow
<1>16. CallsNow' = {} /\ LimboNow' = {}
  <2>1. FailedInLog' = {}
    BY <1>1, <1>10, <1>14, FailedIsThen
  <2> QED
    BY <1>1, <1>2, <2>1 DEF CallsNow, Waiting, Closed, LimboNow, WritesOf
<1>17. SnapsNow' = [r \in Readers |-> None] /\ GetsNow' = [r \in Readers |-> None]
  BY <1>1, <1>2 DEF SnapsNow, GetsNow, Closed
<1>18. ClosedStore
  BY <1>1, ClosedNow
<1> QED
  BY <1>14, <1>15, <1>16, <1>17, <1>18, StoreSame DEF ClosedStore

-----------------------------------------------------------------------------
(* Every step.                                                             *)

LEMMA InitView == Init => View /\ KV!Init
<1> SUFFICES ASSUME Init PROVE View /\ KV!Init
  OBVIOUS
<1>1. /\ op = [w \in Writers |-> None] /\ writers = <<>> /\ group = None /\ phase = "open" /\ flush = None /\ merge = None
      /\ mem = 3 /\ imm = 0 /\ lastSeq = 0 /\ logNumber = 3 /\ memtable = [n \in {3} |-> {}] /\ tables = <<>>
      /\ snaps = [r \in Readers |-> None] /\ gets = [r \in Readers |-> None]
      /\ DOMAIN logs = {3} /\ logs[3] = NewLog
      /\ manifest = [version |-> version, log |-> 3, next |-> 4, seq |-> 0]
  BY DEF Init
<1>2. RecordsOf(mem) = {} /\ memtable[mem] = {} /\ MemEntries(imm) = {} /\ InFlight = {} /\ Inserted = {} /\ ~Logged
  <2>1. ToSet(<<>>) = {}
    BY DEF ToSet
  <2> QED
    BY <1>1, <2>1 DEF RecordsOf, NewLog, MemEntries, InFlight, Inserted, Logged
<1>3. \A S : Content(tables, S) = {}
  <2>1. DOMAIN tables = {}
    BY <1>1
  <2> QED
    BY <2>1 DEF Content
<1>4. Bad = {}
  BY <1>2 DEF Bad
<1>5. QueueIds /\ DOMAIN snaps = Readers /\ ReplayView
  BY <1>1 DEF QueueIds, ReplayView, Replays, Recovers
<1>6. GroupView /\ BadView /\ ReadersView
  BY <1>1, <1>4 DEF GroupView, BadView, ReadersView
<1>7. LogView
  BY <1>1, <1>2 DEF LogView
<1>8. TablesView
  BY <1>1, <1>2, <1>3 DEF TablesView, Says, Covers
<1>9. View
  BY <1>1, <1>5, <1>6, <1>7, <1>8 DEF View
<1>10. Newest = {}
  <2>1. EntriesOf(version) = {} /\ MemEntries(mem) = {}
    BY <1>1, <1>2, <1>3, EntriesAre DEF MemEntries
  <2> QED
    BY <1>2, <2>1 DEF Newest
<1>11. StoreNow = [k \in Keys |-> None]
  <2>1. \A k \in Keys : Lookup({}, k, 0) = None
    BY NothingSeen
  <2> QED
    BY <1>1, <1>10, <2>1 DEF StoreNow, Visible
<1>12. FailedInLog = {}
  BY <1>1, <1>4, <1>9, InitInv, FailedIs
<1>13. CallsNow = {} /\ LimboNow = {}
  BY <1>1, <1>12 DEF CallsNow, Waiting, LimboNow, WritesOf
<1>14. SnapsNow = [r \in Readers |-> None] /\ GetsNow = [r \in Readers |-> None]
  BY <1>1 DEF SnapsNow, GetsNow
<1>15. KV!Init
  BY <1>11, <1>13, <1>14 DEF KV!Init, CallsNow, LimboNow, SnapsNow, GetsNow, CallOf, WritesOf, Reads, Waiting
<1> QED
  BY <1>9, <1>15

LEMMA UntouchedView ==
  ASSUME Inv, View, UNCHANGED vars
  PROVE  View' /\ UNCHANGED KV!vars
<1>1. /\ UNCHANGED <<op, writers, group, memtable, mem, imm, lastSeq, nextFile, version, logNumber, flush, merge>>
      /\ UNCHANGED <<bgError, snaps, gets, phase, logs, tables, manifest, spent>>
  BY DEF vars, memory, disk
<1>2. Newest' = Newest /\ OnDisk' = OnDisk /\ StoreNow' = StoreNow /\ SnapsNow' = SnapsNow /\ GetsNow' = GetsNow
  BY <1>1, SameData
<1>3. CallsNow' = CallsNow /\ FailedInLog' = FailedInLog /\ LimboNow' = LimboNow
  <2>1. FailedInLog' = FailedInLog
    BY <1>1, <1>2 DEF FailedInLog, InFlight, LogsToReplay, RecordsOf
  <2> QED
    BY <1>1, <2>1 DEF CallsNow, CallOf, Waiting, LimboNow, WritesOf
<1>4. View'
  <2>1. QueueIds' <=> QueueIds
    BY <1>1 DEF QueueIds
  <2>2. ReplayView' <=> ReplayView
    BY <1>1, <1>2 DEF ReplayView, Replays, Recovers
  <2>3. CASE phase = "open"
    <3>1. ReadersView'
      BY <1>1, <2>3 DEF View, ReadersView
    <3>2. memtable'[mem] = memtable[mem] /\ (imm # 0 => memtable'[imm] = memtable[imm]) /\ DOMAIN snaps' = Readers
      BY <1>1 DEF View
    <3>3. Inv'
      BY StepInv
    <3> QED
      BY <1>1, <2>3, <3>1, <3>2, <3>3, ReaderSteps
  <2>4. CASE phase # "open"
    BY <1>1, <2>2, <2>4, ClosedView DEF View
  <2> QED
    BY <2>3, <2>4
<1> QED
  BY <1>2, <1>3, <1>4, StoreSame

LEMMA StepView ==
  ASSUME Inv, View, Inv', [Next]_vars, [~MachineDies]_vars
  PROVE  View' /\ [KV!Next]_(KV!vars)
<1>1. CASE UNCHANGED vars
  BY <1>1, UntouchedView
<1>2. CASE ClientStep
  BY <1>2, EnqueueView, GetSnapshotView, ReleaseSnapshotView, BeginGetView DEF ClientStep
<1>3. CASE WriterStep
  BY <1>3, YieldErrorView, WriteInPlaceView, SwitchMemTableView, NoNewLogView, AddRecordView, SyncLogView,
     InsertView, FinishWriteView DEF WriterStep
<1>4. CASE BackgroundStep
  BY <1>4, StartFlushView, BuildTableView, InstallFlushView, FailFlushView, StartMergeView,
     OpenCompactionOutputFileView, FinishMergeView, InstallMergeView, FailMergeView, IdleCallView DEF BackgroundStep
<1>5. CASE OpenStep
  BY <1>5, StartRecoveryView, OpenNewLogView, FinishOpenView, ReplayRecordView, FinishReplayView DEF OpenStep
<1>6. CASE \E r \in Readers : EndGet(r)
  BY <1>6, EndGetView
<1>7. CASE ProcessDies
  BY <1>7, ProcessDiesView
<1> QED
  BY <1>1, <1>2, <1>3, <1>4, <1>5, <1>6, <1>7 DEF Next

(* As long as the machine does not die, the database is the store db.h     *)
(* describes, whatever the group commits, the memtable switches, the       *)
(* flushes, the compactions, the failures and the deaths of the process    *)
(* do: a batch takes effect at one instant, in the order of the calls, a   *)
(* Get and a snapshot see one instant, and a death loses no answered write *)
(* and applies one it interrupted as a whole or not at all (DBImpl::Write, *)
(* Get, GetSnapshot, CompactMemTable, DoCompactionWork, Recover).          *)
THEOREM IsTheStore == Spec /\ [][~MachineDies]_vars => ImplementsKVStore
<1>1. Init => Inv /\ View /\ KV!Init
  BY InitInv, InitView
<1>2. Inv /\ View /\ [Next]_vars /\ [~MachineDies]_vars => (Inv /\ View)' /\ [KV!Next]_(KV!vars)
  <2> SUFFICES ASSUME Inv, View, [Next]_vars, [~MachineDies]_vars
               PROVE  Inv' /\ View' /\ [KV!Next]_(KV!vars)
    OBVIOUS
  <2>1. Inv'
    BY StepInv
  <2> QED
    BY <2>1, StepView
<1> QED
  BY <1>1, <1>2, PTL DEF Spec, ImplementsKVStore, KV!Spec

=============================================================================
