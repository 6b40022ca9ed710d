------------------------------- MODULE KVStore -------------------------------
(***************************************************************************)
(* What a LevelDB database promises the process that opened it, with no    *)
(* word of logs, memtables, tables or threads (include/leveldb/db.h and    *)
(* options.h): Write applies a whole batch at one instant between its call *)
(* and its answer, or fails; a snapshot or a Get sees the store as it was  *)
(* at one instant; and a crash of the process loses no answered write,     *)
(* while each write it interrupts is applied as a whole or not at all.     *)
(* Writes that wait together take effect in the order of their calls.      *)
(***************************************************************************)
EXTENDS Naturals, FiniteSetsExt

CONSTANTS Keys, Readers, Ids, None

VARIABLES
  store,   \* the value of each key; None when it has none
  calls,   \* the writes called and not answered: [id, keys]
  limbo,   \* writes answered with an error, which a crash may yet apply
  snaps,   \* the store each snapshot shows, or None
  gets     \* the store each unfinished Get reads from, or None

vars == <<store, calls, limbo, snaps, gets>>

\* the writes of W in the order of their ids; a value is the id of the write it is from
Apply(s, W) ==
  [k \in Keys |-> LET ids == {w.id : w \in {x \in W : k \in x.keys}}
                  IN IF ids = {} THEN s[k] ELSE Max(ids)]

Init ==
  /\ store = [k \in Keys |-> None]
  /\ calls = {} /\ limbo = {}
  /\ snaps = [r \in Readers |-> None]
  /\ gets = [r \in Readers |-> None]

\* the ids go up from call to call
Call ==
  /\ \E id \in Ids, ks \in SUBSET Keys :
       /\ \A c \in calls \union limbo : c.id < id
       /\ calls' = calls \union {[id |-> id, keys |-> ks]}
  /\ UNCHANGED <<store, limbo, snaps, gets>>

\* the oldest calls take effect together and are answered
Commit ==
  /\ \E W \in SUBSET calls : /\ W # {} /\ \A w \in W, c \in calls \ W : w.id < c.id
                             /\ store' = Apply(store, W)
                             /\ calls' = calls \ W
  /\ UNCHANGED <<limbo, snaps, gets>>

Fail ==
  /\ \E S \in SUBSET calls : \E T \in SUBSET S :
       /\ S # {}
       /\ calls' = calls \ S
       /\ limbo' = limbo \union T
  /\ UNCHANGED <<store, snaps, gets>>

TakeSnapshot(r) ==
  /\ snaps[r] = None /\ snaps' = [snaps EXCEPT ![r] = store]
  /\ UNCHANGED <<store, calls, limbo, gets>>

ReleaseSnapshot(r) ==
  /\ snaps' = [snaps EXCEPT ![r] = None]
  /\ UNCHANGED <<store, calls, limbo, gets>>

BeginGet(r) ==
  /\ gets[r] = None
  /\ gets' = [gets EXCEPT ![r] = IF snaps[r] = None THEN store ELSE snaps[r]]
  /\ UNCHANGED <<store, calls, limbo, snaps>>

EndGet(r) ==
  /\ gets' = [gets EXCEPT ![r] = None]
  /\ UNCHANGED <<store, calls, limbo, snaps>>

Crash ==
  /\ \E W \in SUBSET (calls \union limbo) : store' = Apply(store, W)
  /\ calls' = {} /\ limbo' = {}
  /\ snaps' = [r \in Readers |-> None]
  /\ gets' = [r \in Readers |-> None]

Next ==
  \/ Call \/ Commit \/ Fail \/ Crash
  \/ \E r \in Readers : TakeSnapshot(r) \/ ReleaseSnapshot(r) \/ BeginGet(r) \/ EndGet(r)

Spec == Init /\ [][Next]_vars
==============================================================================
