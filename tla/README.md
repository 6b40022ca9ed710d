# ThermoCheck in TLA+

This directory holds TLA+ models of ThermoCheck, an iOS app that charts temperature and
humidity readings, and of the libraries vendored with it that have a protocol of their own,
together with TLC configurations and TLAPS proofs. Paths are relative to the repository;
the app's sources are under `ThermoCheck/ThermoCheck/`, the pods it is linked with under
`ThermoCheck/Pods/`.

1. The system. 2. Modules of the app. 3. Modules of leveldb. 4. Runs. 5. Bounds, fairness
and deadlock. 6. Proofs. 7. Not modelled. 8. What could follow.

## 1. The system

| component | state | operations | interacts with |
|---|---|---|---|
| Chart screen (`controllers/ChartViewController.swift`) | `entryPoints`, `shouldHideData`, `chartView.data` | clear, open the sheet, sign out, observe `.childAdded` | DatabaseFB, SQLCommands, HUD, Authentication |
| Add-point sheet (`controllers/AddNewPointViewController.swift`) | selected temperature and humidity, being presented or not | save, dismiss, pick a value | EntryPoint.save, SQLCommands, HUD |
| Remote store (`database/DatabaseFB.swift`) | none of its own | `EntryPoint.save`, `removeAll` | Realtime Database client |
| Realtime Database client (`Pods/FirebaseDatabase`) | pending writes, server cache, listens, outstanding puts, connection | set, observe, acknowledge, revert, disconnect, restore | server; calls back on the main queue |
| Local store (`database/SQLCommands.swift`, `DatabaseSQL.swift`) | the table `entryPoint` in a file | create, insert, select, delete | - |
| HUD (`utils/PKHUD.swift`, `Pods/PKHUD`) | content, hidden or shown, one hide timer, a fade | show, flash, delayed hide | swallows every touch of the window |
| Authentication (`utils/Authentication.swift`) | the signed-in user (Firebase, Facebook token) | login, register, sign out, `fetchCurrentUser`, `getCurrentuserID` | Firebase Auth, Facebook SDK, Router |
| Router (`utils/Router.swift`, `extensions/UIViewController+extensions.swift`) | the stack of presented controllers | `toMain`, `toLogin`, `toRegister`, each two main-queue hops before `present` | every screen |
| Login, Register, Splash screens | their fields, the login button's `isEnabled` | sign-in attempts, the splash animation's end | Authentication, HUD, Router |
| Models (`models/EntryPoint.swift`) | immutable | `dict`, `init?(dict:)` | - |
| leveldb (`Pods/leveldb-library`): database (`db/db_impl.cc`) | writers' queue, memtables, current version, log, background state | Write, Get, snapshots, flush, compaction, Open | the four parts below, threads, the file system |
| leveldb: levels (`db/version_set.cc`, `version_edit.cc`) | files of each level, MANIFEST, compaction pointers | install an edit, pick a compaction, recover | database, tables |
| leveldb: log files (`db/log_writer.cc`, `log_reader.cc`) | offset in the block; buffer of the reader | AddRecord, ReadRecord | the file system |
| leveldb: cache (`util/cache.cc`, `db/table_cache.cc`) | hash table, two lists, references, usage | Lookup, Insert, Release, Erase, Prune | readers and iterators |
| leveldb: iterators (`table/merger.cc`, `db/db_iter.cc`) | children's positions, direction, saved key and value | Seek, Next, Prev, to either end | memtables and tables |

*The app* runs on the main thread, one handler at a time. Concurrency comes from four
directions: the database client's own serial queue, whose events and completion blocks are
enqueued on the main queue; the network and the server; timers and animations; and the
user, whose touches are bound to a control at touch-down, possibly before a HUD or a sheet
covers it. Failures are refused writes, lost connections with requests or answers in
flight, process deaths, and SQL errors, which the code prints and ignores.

*leveldb* is the engine FirebaseDatabase links for its disk persistence (`FLevelDBStorageEngine`).
The app never switches persistence on, so that its own behaviour does not depend on it; it
is modelled because it is the largest part of the repository with an implementation, not
only headers, and the part with the hardest protocol. Several client threads and one
background thread share one mutex and give it up around file operations; the process or
the machine may die at any time.

What makes each part correct:

- the database client: a write is sent in order, resent after a lost connection, answered
  once; its cache follows the server under pending writes; a confirmed clear or save stays
  confirmed;
- the chart: shows what the client holds, each point once; when it shows more there is a
  reason;
- the local table: only confirmed saves, once each; the same points as the server once
  nothing is under way, except after failures that the code does not repair;
- the HUD: is a lock while an operation runs, and goes away afterwards;
- sessions: the chart observes the signed-in user's points, no screen is presented twice,
  no path is built from an empty user id unless for a stated reason;
- leveldb: a batch takes effect at one instant, answered writes survive the process and
  synced ones the machine, reads see one instant, no needed file is deleted, `Get` finds
  the newest entry wherever compactions put it, a log gives back the records that were
  added, a table is closed when nobody uses it, an iterator walks over its snapshot.

`PROJECT.json` lists every hazard with its line and the properties aimed at it.

## 2. Modules of the app

| module | models |
|---|---|
| `RealtimeDatabase` | the database client, the wire, the server and the user's other devices |
| `Hud` | the HUD's state and operations, as operators on a record |
| `EntryPoints` | chart screen, sheet, remote and local store, HUD and user, composed with `RealtimeDatabase` (`EXTENDS`) |
| `Session` | authentication, router, and the screens as far as the user matters, with `Hud` |
| `MCRealtimeDatabase`, `MCEntryPoints`, `MCSession` | model values and symmetry sets for TLC |
| `EntryPointsProofs` (also of `RealtimeDatabase`), `SessionProofs` | theorems and proofs |

### RealtimeDatabase

| variable | in the code |
|---|---|
| `calls` | blocks on `FIRDatabaseQuery.sharedQueue` (`FIRDatabaseReference.setValueInternal`, `observeChildEventWithHandle`) |
| `pending` | `FWriteTree.allWrites`, which for this app are also `FPersistentConnection.outstandingPuts` |
| `listen` | the observer's view and its `FOutstandingQuery`: absent, sent without an answer, answered |
| `serverCache` | the view's server cache |
| `connection` | `connectionState`: disconnected or connecting, authenticating, connected |
| `toServer`, `toClient` | the socket |
| `mainQ` | blocks dispatched to the main queue by `FEventRaiser` and `FChildEventRegistration` |
| `server`, `watching` | the node stored, and whether this connection listens (external) |
| `taken`, `outcome`, `covers` | history: issued writes, the status given to each completion block, the points issued before each clear |

An element of `Points` stands for one `childByAutoId` key, an element of `Clears` for one
`removeValue` of the user's node; both are issued once. `Overlay` is what
`FWriteTree.calculateCompleteEventCache` computes for such writes. After every change of the
caches, `Raise` enqueues a `childAdded` block for each child that appeared, then the
completion block, as `FEventGenerator`, `FRepo.callOnComplete` and `FEventRaiser` do. The
order of the events of one step is the order of the keys, which the model leaves open.

The client is signed in, so a new connection authenticates before `restoreState` sends the
listen and the outstanding puts. `connected` in the code already holds while it
authenticates: a listen issued then goes out at once, and again with the restored state. A
refused token closes the connection, which is `Disconnect`.

`onListenRevoked` (`FPersistentConnection.m:689-694`), a listen that the server takes back after
it granted it, is left out.

What is assumed of the server, from the way the client relies on it: it handles the
requests of a connection in order, pushes the data a write changes before it answers the
write, and does not read what an old socket held when it was lost. It may accept or refuse
any listen and any write. `sendPut:` would hold an acknowledgement back while a listen is
unanswered; with those assumptions and one observer that never happens, which
`NoDeferredAnswer` checks rather than assumes.

### Hud

`Show` is `HUD.show`: it does not cancel `hideTimer`, and does not stop a fade whose
completion will hide whatever is shown by then. `Flash` restarts the only timer. The flash
delays (1 s and 2 s) are longer than the fade (0.8 s), which orders a timer started during
a fade after it (`MayExpire`). A controller presented after the HUD was added is above it
(`covered`).

### EntryPoints

| variable | in the code |
|---|---|
| `entryPoints`, `shouldHideData`, `drawn` | the two properties of the chart controller and its `chartView.data` |
| `sheet` | the presentation of the sheet: none, up, dismissal animation |
| `savers` | saves whose completion block still finds its `weak self` |
| `touches` | the controls that hold a touch, at most `Fingers` |
| `hud`, `rows` | the shared HUD, the rows of the table |

Each action is a whole handler: `ClearPointsTapped` shows the HUD, empties the list, hides
the data, redraws, issues the removal and empties the table; `EntryPointAdded` appends,
unhides and redraws; `EntryPointSaved` inserts the row, flashes and dismisses;
`SaveUnheeded` is the same block when the save was refused or the sheet is gone;
`ClearAnswered` flashes an error if there was one, and then success in any case. A touch
is accepted only where neither the HUD nor the sheet is in the way (`Touch`), and its
handler runs later.

Simplifications: one signed-in user with one chart, as after a launch; entries that
`EntryPoint.init?(dict:)` rejects do not occur (the app writes none); deleting from a table
that was not created yet is deleting from an empty one; touches inside a sheet that is
being dismissed are cancelled.

### Session

| variable | in the code |
|---|---|
| `screens` | the presented controllers, from the splash screen up; a chart with the user it observes |
| `disabled` | the login screens whose button's `isEnabled` is false |
| `sheet`, `touches`, `hud` | as in `EntryPoints`; the sheet is that of the chart on top |
| `mainQ` | blocks on the main queue, with the screen that queued them and how often they queue themselves again (`hops`) |
| `requests` | what Firebase was asked and has not answered (external) |
| `dialog`, `token` | the Facebook dialog and `AccessToken.current` (external) |
| `account` | `Auth.auth().currentUser` |
| `crashed` | what the app trapped on |
| `stranded` | history: the sheet made UIKit ignore a login screen for the chart under it |
| `unheard` | history: a save was refused, or answered when its sheet was gone |

Only the sheet that adds a point is ever dismissed by this code: `Router` presents every other
screen on the one that asked. UIKit ignores `present` on a controller that presents already,
which is what keeps the two routes of `fetchCurrentUser` and `signOut`
(`Authentication.swift:72`) from stacking two login screens; `PresentedOnce` rests on it. The
same rule works against the app when log-out and add are held together: log-out queues the
login screen, the sheet is presented first, and the login screen is ignored. What is left is a
chart with its sheet, nobody signed in and nothing under way, and after the sheet is dismissed a
chart for nobody until the user logs out again (`stranded`).

`EmptyIdExplained` lists the ways to an empty user id, on which `child("")` traps
(`FValidation.m:80-82`): a Facebook token that outlived a sign-in Firebase did not grant, which
lets the splash screen go on to the chart; a control of the chart, or of its sheet, used between
the log-out and the login screen; and a chart or sheet that is stranded. `ChartShowsAccount`
excepts stranded charts with nobody signed in, and sign-ins that overlapped: nothing disables
the Facebook button while a password login is under way. `ProgressEnds` excepts a save that
was refused, whose block hides nothing, and one whose sheet was gone, whose block finds no
`self`. Of a clear and a save `Session` keeps who asked and how it is answered; requests of the
same kind from the same screen count as one.

## 3. Modules of leveldb

| module | models |
|---|---|
| `KVStore` | abstract: what a database promises the process that opened it |
| `DBImpl` (`MCDBImpl`) | group commit, memtables, log, flush, compaction, obsolete files, errors, death and recovery; implements `KVStore` |
| `VersionSet` (`MCVersionSet`) | the levels: where flushes go, which compaction is picked, what it writes and drops, seeks, `CompactRange`, the MANIFEST |
| `LogFile` | writer and reader of a log over bytes |
| `LRUCache` (`MCLRUCache`) | one shard of the cache under the clients of the table cache |
| `Cursor` | abstract: an iterator over a set that may grow |
| `MergingIterator` | the merger of the iterators of memtables and tables; implements `Cursor` |
| `DBIter` | the iterator of the application over a `MergingIterator`; implements `Cursor` over the keys of its snapshot |
| `DBImplProofs`, `KVStoreProofs`, `LogFileProofs`, `LRUCacheProofs`, `MergingIteratorProofs`, `DBIterProofs` | theorems and proofs |

### DBImpl and KVStore

A step is what a thread does between two points where `mutex_` is free. A memtable is named
by the number of its log; an entry is a `[key, seq, val]`, where `val` is the id of the
write. `group` is the group commit whose leader works without the mutex (log, sync,
insert one update at a time); `flush` and `merge` are the background work, a flush
possibly nested in a compaction as in `DoCompactionWork`; `manifest` is what a recovery
would read. A recovery is taken in steps, one for each record of a log, for the end of each
log, the new log and the new MANIFEST, and the process or the machine may die between any
two; what it is doing is in `flush`.

`ImplementsKVStore` maps the detailed state to a store: while the database is open, what
a reader of the newest memtables and version sees; while it is down, what a recovery would
find. A commit of a group is one `Commit`, of the oldest calls, whose batches take effect in
the order of the calls (`Apply`); a failed write whose record reached the log is in `limbo`,
which only a crash may apply, and then before nothing that was answered. `KVStore` says
nothing of the death of the machine, which may take answered writes that were not synced.

A failed append leaves no bytes here; what a torn one does to the file is `LogFile`'s
subject. Levels above 0 are one, `deep`. The orderly close (`shutting_down_`) leaves the
same files as a death at that point and is not a separate action; the 1 ms delay of
`MakeRoomForWrite` only costs time. Creating, renaming and removing files is taken to be
durable. After a power loss an older log may have lost a tail that a newer, synced one
follows: nothing is promised of writes that were not synced.

### VersionSet

A sequence number stands for its internal key, and a file is as large as it has entries,
so that the byte thresholds are counts. `merge` is the `Compaction` in progress: it keeps
the version it was picked from while flushes change the current one. `logged` is what
`VersionSet::Builder` gathers from the MANIFEST. `manual` is a call of `CompactRange`, one at a
time; while its memtable is flushed and between its rounds `manual_compaction_` is null
(`posted` is false), and automatic compactions run. `harmed` is a history of the two cases in
which this code goes wrong (section 4): the user keys that an overlap in a level may have hurt,
which are all, and those whose deletion was dropped although a boundary file stayed behind.

### LogFile

A byte is `<<f, i>>`, byte `i` of physical record `f`; a checksum is taken to tell any other
bytes from a whole physical record. The writer moves `block_offset_` on also when its
`write()` failed, so that it is out of step with the file from then on: later records, even
synced ones, can be unreadable, and the reader may report a corruption. `RecordsSurvive` and
`CutOffIsNoCorruption` are therefore stated for logs without a failed write, while
`OnlyRecords` holds in any case. (`DBImpl` sets `bg_error_` when a sync fails, but not when an
append does.) A read of the file that fails (`log_reader.cc:197-201`) is left out.

### LRUCache

Every operation holds the mutex of its shard. Clients open tables between `Lookup` and
`Insert`, and two may open the same one: the second insertion replaces an entry the first
still uses. Capacity 0 is a cache that is turned off.

### Cursor, MergingIterator and DBIter

A call of the merging iterator is one step, but for one case: `Prev` that changes the
direction moves another child to the first entry after the key and then back, in two calls.
A write to the memtable between them leaves that child after the key, so that `Prev` moves
forwards (`Overshoot`). `MergingIterator` alone is a cursor only if nobody turns back at such a
key; the history `over` says so. `DBIter` never does: an entry written meanwhile is newer than
the snapshot, and the scan loop of its `Prev` goes on past it (`ScanOvershoots`). `DBIter`'s
calls take one step per move of the merger, with writes in between. The keys a `Seek` may look
for (`InternalKeys`) include those of sequence number 0, which no entry has: a snapshot taken
before the first write looks for them.

## 4. Runs

| run | instance | checks |
|---|---|---|
| `database` | 2 own points, 1 own clear, 1 point and 1 clear of another device, refusals, 1 lost connection or 1 death | the safety of the client |
| `chart` | 1 point and 1 clear here, 1 and 1 elsewhere, 2 fingers, failing SQL, refusals, 1 lost connection or 1 death | the chart and the table |
| `one_finger` | 2 points, 1 clear, 1 finger, SQL that works, 1 loss, 1 death, fairness | the HUD as a lock, the two stores, liveness |
| `readme_claim` | 1 point, refusals | refutes `ChartedPointIsSaved` |
| `session` | 2 users, 2 fingers, 4 taps (on the sheet too), 1 further launch, fairness | the account, the screens, the progress HUD |
| `db_crash` | 2 writers, 1 reader with a snapshot, 1 key, 3 writes, 1 death of the process | refinement of `KVStore` |
| `db_power_loss` | 2 writers, 1 key, 3 writes, 1 failed file operation, 1 death of the process, 1 power loss, fairness | the tables that are needed, the sequence numbers, durability of synced writes; every write is answered |
| `levels` | 3 puts or deletions of 2 keys, 4 writes around a deletion, 5 writes of 3 keys; 4 levels, files of 2 entries; any 2 of snapshot, seek, `CompactRange`, restart | `Get`, the order of the levels, the MANIFEST |
| `levels_gap` | 5 writes of 3 keys in every order, a `CompactRange` | refutes `LevelsDisjoint` |
| `log` | blocks of 6 bytes, headers of 2, records of 0, 1, 4 and 9, 3 records, 1 failed write | writer and reader of a log |
| `cache` | 3 keys, 3 clients, 4 handles, charges 1 and 2, capacities 0 and 3 | references, lists, eviction |
| `iterators` | a memtable and a table, 2 user keys, 4 sequence numbers, a snapshot at 3 | refinement of `Cursor`, twice |

What they show.

- *The client.* `CacheTracksServer`: the cache plus the pushes in flight is what the server
  stores, whenever it is listened to. `NothingForgotten`: on a restored connection the
  pending writes are exactly the answers and the requests in flight, in order. `HeardOnce`
  and `AnsweredOnce`: a write sent twice is answered once. `ConfirmedClearIsFinal` and
  `ConfirmedSaveIsStored`: resending does not move a save to the other side of a clear.
  `SettledViewIsServer`: at rest the observer sees what is stored.
- *The chart.* `ChartMissesNothing`: what the client holds is drawn, or its event is queued,
  or the chart's own clear has not reached the client yet. `ChartRepeatsNothing`: a point is
  raised once, unless a clear was refused: its points are then raised again into a list that
  may have been refilled. `StalePointsExplained` lists all the reasons for which a point can
  be on the chart and not in the client. `StoredIsCharted` (liveness, with one finger): a stored
  point reaches the chart.
- *The table.* `RowsAreConfirmed` holds whatever happens; `RowsFollowClears` and
  `StoresAgree` hold because the HUD serialises the operations of one finger. With two
  fingers a save can be answered after a clear was tapped, and they fail: they are stated
  for one finger only, and this is why.
- *The HUD.* `HudSerialises`: with one finger, one operation at a time, behind a HUD that
  nothing is about to hide. `HudEnds`: it goes away, except after a refused save.
  `ProgressEnds` says it of sign-ins, registrations, clears and saves under changing accounts.
- *Sessions.* See section 2.
- *leveldb.* `ImplementsKVStore` and `SyncedWritesAreDurable` are what `db.h` and `options.h`
  promise. `NeededTablesExist`: no table in use or in the MANIFEST is deleted, over nested
  flushes, failures, deaths and replays; `DiskIsSound`: no sequence number is used twice.
  `WritesAreAnswered`: no writer waits for work that nobody schedules, also after a background
  error. `NewerFirst` and `GetIsCorrect`: flushes, compactions, moves and dropped deletions never
  bring an old value back, unless the key is `harmed`; `VersionIsSound`: the MANIFEST describes the
  current version.
  `OnlyRecords`, `RecordsSurvive`, `CutOffIsNoCorruption`: a torn tail is dropped silently,
  and nothing else is. `DeletedWhenUnused`, `CacheIsConsistent`, `EvictsTheOldest`: the
  cache under clients that race. `MergerIsACursor`, `ImplementsCursor`: an iterator skips
  and repeats nothing, wherever it turns and whatever is written meanwhile.

Two disagreements.

- The README says: "You add the point to the chart and it will be saved." When the server
  refuses the save, the point stays on the chart, unsaved: the completion block prints the
  error and returns, and the chart observes only added children. The progress HUD stays
  too, so that the app must be killed (`Frozen`).
- `version_set.cc:747-749` asserts that the files of a level above 0 do not overlap. A manual
  compaction takes the files of a range even if there is a gap between them, and its output
  spans the gap; a memtable flushed meanwhile whose keys lie in the gap overlaps no file of
  the version and may go to the very level the output goes to. `levels_gap` shows it with
  keys 1 and 3 under compaction from level 1 to 2 and key 2 flushed to level 2. From then on
  `FindFile` may look for any key in the wrong file; `levels` reaches this too, and what it shows
  it shows for databases where it has not happened. Section 6 says what else a gap breaks.

A defect that contradicts no comment of the code. The comment of `AddBoundaryInputs`
(`version_set.cc:1364-1374`) says what goes wrong if the file that goes on with the last user key
of an input is left out of a compaction, and `SetupOtherInputs` adds such files to the inputs of
`level` (1407, 1422), but not to those of `level + 1` (1410, 1432). Say level 2 has the files
A = {1@2, 2@3 deletion} and B = {2@1}, which a snapshot once kept apart, and level 1 has {1@4}. A
compaction of level 1 takes {1@4} and A; the deletion 2@3 hides nothing in the levels below and is
dropped; and B's 2@1, which it hid, is found again. `levels` has these writes, and violates
`GetIsCorrect` if `Uncovered` is left out of `Harm`.

## 5. Bounds, fairness and deadlock

*Bounds.* The app: two points and one clear of this device are needed for order, a point on
either side of a clear, or two saves whose order matters; the other device adds one of each.
One loss gives every resending from every state of the wire; one death every restart. More of
each repeats the same situations from states already reached, since the client keeps nothing of
an old connection but `pending`, and nothing of an old process but the table; in
`database` and `chart` a behaviour has one or the other (`OneFault`). Two fingers are the least for
which handlers run while the HUD is up. In `session`, four taps reach a registration or two
overlapping sign-ins, the chart, and a log-out.

leveldb: two writers make a group and a queue behind it; three writes are a switch of the
memtable with one write on either side and one that finds `imm_` busy; with the level-0
trigger at one, each flush can start a compaction. In `db_crash` a memtable is full after
one write. In `db_power_loss` a memtable takes two writes, so that a log has several records,
some synced; the two deaths there also fall into recoveries. `db_crash` has one key, so that what
is atomic in a batch of several is left to the theorem `IsTheStore`. In `levels`, four levels give
every pair of neighbouring levels something to merge and one level below for a deletion to
hide; with files of two entries three or four writes give files that meet inside a user key,
and five of three keys a file that spans a gap. Which writes these are is fixed in
`MCVersionSet` (`LevelsScripts`): every order of three, every one of four with a deletion third,
and the one that leaves a gap; `levels_gap` takes every order of the latter. Blocks of 6 with
headers of 2 and records of 0, 1, 4 and 9 leave 0, 1, 2 and more bytes at the end of a
block, make records of one, two and three fragments, and an empty first fragment. The cache
has one handle more than clients and room for less than all. The iterators have, for one
of two keys, versions in the memtable and the table on both sides of the snapshot.

Points, threads, handles, clients and keys are interchangeable where symmetry is used; runs
with a liveness property use none.

*Fairness* is weak, of what queues, run loops, threads and peers do without a condition of the
code: the client's queue, reconnecting (`tryScheduleReconnect` retries for ever), reading
the socket, the server's answers, the main queue, timers, animations, Firebase's answers; in
`DBImpl` each thread that holds or can take the mutex, the background thread, and Open. Nothing
is asked of the user, of other devices, of threads that have not called, or of failures.
Losses are bounded, so that weak fairness is enough for an answer to arrive in the end.

*Deadlock* is not checked where the user or the clients may stop and the bounds end every
behaviour. It is checked in `cache` and `iterators`, where some call is always possible.

## 6. Proofs

The theorems hold for every value of the constants (how many points, keys, threads, clients,
fingers, failures and deaths), under the assumptions named in the modules: the constants have
their types, `Points` is finite and disjoint from `Clears`; in `LRUCache` the clients are finitely many and
`None` is no key or handle; in `DBImpl` the bounds are numbers, and `None` is no call of Write, no
group commit and no store.

`EntryPointsProofs`, of the database client

- `TypeCorrect`: `Spec => []TypeOK`, one step for each action.
- `WaitingOnce`: `Spec => []WritesWaitOnce`. The invariant relates the places of a write: it
  is not inductive for `calls` or `pending` alone, since a write moves from one to the other,
  and a write that is answered must be in neither. The lemmas on `Tail`, `Append` and
  `RemoveAt` say which elements a queue gains and loses. No run checks it: the theorems
  that rest on it are checked instead.
- `AnswersAreFinal`: `Spec => AnsweredOnce`: a pending write has no outcome.
- `BlocksAreHeardOnce`: `Spec => []HeardOnce`. `RaisedBlocks` describes what a step leaves on
  the main queue: the old blocks at their old places, one new block for each child that
  appeared, and the completion block last; `AnswersMove` sums up what a step does to the
  waiting answers.
- `CacheFollowsServer`: `Spec => []CacheTracksServer`. `Brings` says what the wire will make of
  the cache, without the maximum in `LastData`: each lemma on it is about one message sent or
  read. The invariant needs in addition that the observer's call is the first of all calls and
  that before it ran nobody listens (`NotYetObserved`): else its listen would start from an
  empty cache with the server already pushing.
- `NothingIsForgotten`, `NothingIsDeferred`: `Spec => []NothingForgotten` and
  `[]NoDeferredAnswer`, from `WireOrder`: the round trip of answers and requests carries the
  pending writes in their order, once a connection is restored (`InStep`), and no listen is
  behind the answer of a put. An answer sent takes the place of its request, so that the trip
  stays what it is (`SameTrip`).
- `ClearsAreFinal`, `SavesAreStored`: `Spec => []ConfirmedClearIsFinal` and
  `[]ConfirmedSaveIsStored`. What is promised of a confirmed write must already hold while the
  confirmation is on its way (`Accepted`), for then the client may lose it and send the write
  again: `ClearHolds` and `SaveHolds` say it of the server, the cache, and the data in front of
  and behind the confirmation on the wire (`Purged`, `FreeWhenConfirmed`). That the second
  sending changes nothing follows from the order of the writes that wait (`LineOrder`): a clear
  covers those in front of it and none behind it, and what was issued after a clear that still
  waits is still waiting itself.
- `SettledViewIsRight`: `Spec => []SettledViewIsServer`: with nothing in flight nothing is
  pending (`NothingIsForgotten`), so that the view is the cache and the cache the server's.

`EntryPointsProofs`, of the chart and the sheet. `EntryPoints` extends the client, and each of its
steps is one of the client or leaves it alone (`UsesTheDatabase`, a lemma), so that the theorems
above hold in the app.

- `AppTypeCorrect`: the types.
- `RowsAreAlwaysConfirmed`: `AppSpec => []RowsAreConfirmed`. `RowsInv` adds that an answer
  still waiting is not for a point that has its row; it needs `HeardOnce` (the answer taken
  was the only one) and `WritesWaitOnce` (a write that is answered had no outcome, hence no
  row).
- `NothingIsMissed`: `AppSpec => []ChartMissesNothing`. Inductive with the types: a point enters
  the view in the same step as its block enters the main queue (`RaisesSet`); the chart drops
  one only in the handler that also issues a clear; and what is drawn is the list.
- `TheHudIsALock`: `AppSpec => []HudSerialises`, for `Fingers = 1`. `HudInv` adds that no touch
  survives the arrival of the HUD (the one touch is the one whose handler shows it), that the
  sheet does not cover it, and that an answer block on the main queue is the last of its
  operation (`AnswerIsTheEnd`): only then may the block take the HUD away.
- `ClearsEmptyTheTable`, `TheStoresAgree`: `[]RowsFollowClears` and `[]StoresAgree`, for
  `Fingers = 1` and statements that do not fail. `FollowInv` adds that no save still under way
  was cleared; it holds because of the lock. `StoresInv` says where a confirmed save of this
  installation is meanwhile: still to be heard of behind its sheet, in the table, or covered
  by a later clear. Without the first hypothesis an answer can insert a row after the clear,
  without the second a row can outlive it.
- `StalePointsAreExplained`, `NothingIsRepeated`: `AppSpec => []StalePointsExplained` and
  `[]ChartRepeatsNothing`. Both are about what the client did not forget *and will not*: they
  need the whole future of a point, as far as it is decided. The client's cache, the pushes on
  the wire and the server's store are its `Stages`. `Chronicle` says of each point that it
  comes and goes at most once along them (`Convex`); that it is not lost unless it is excused
  (`Steady`); that, once the chart showed it and its put is answered, it does not come back
  (`Fading`); and that the answer to its own put will find it there (`Answers`). What was not
  issued, or not handed to the client, is `Nowhere`. Before the chart observes, nothing is
  pushed (`Silent`), and the confirmation of a clear finds the cache empty (`Emptied`), so that
  taking the clear off the pending writes uncovers nothing. A step drops, adds or replaces
  stages at the ends and keeps their order (`Thins`), which gives one lemma for reading, one
  for sending, one for storing and one for losing the connection. The points that were shown
  are a parameter of `Chronicle`: `ChartInv` says that the points of the chart are among them
  or still held.

`SessionProofs`

- `NeverTwice`: `Spec => []PresentedOnce`. Every block and every request in flight was called by
  a screen that has the control for it (`SessionInv`), and each screen presents only others.
- `EmptyIdIsExplained`: `Spec => []EmptyIdExplained`. `IdInv` adds to each block that will enter
  the chart the account or token it goes by (`Granted`), and to a chart without an account that
  the login screen is on its way or was ignored for its sheet (`LogsOut`).
- `ChartIsOfTheAccount`: `Spec => []ChartShowsAccount`. While no two sign-ins overlap, what is
  under way is one sign-in (`OneSignIn`), and none under a chart (`ChartInv`); a sheet, and what
  it asked, is only on a chart (`SheetInv`).

`DBImplProofs`. Five invariants, each inductive with the help of those before it, and for each
one lemma for every kind of step.

- `TablesAreKept`: `Spec => []NeededTablesExist`. The property is not inductive: what a flush,
  a compaction or a recovery is about to name must exist as well, and be spared meanwhile.
  `Sound` adds that the file numbers being written are below the next one (`Numbers`: a nested
  flush does not get the number of the compaction's output), what may be under way in each
  phase and that the MANIFEST says what the current version is until an error (`Stages`:
  afterwards nothing is deleted), and that the tables of the edit a flush or a compaction will
  write exist, those of a compaction as pending outputs (`FlushSound`, `MergeSound`).
- `DiskSound`: `Spec => []DiskIsSound`. `Queue` says that a group is a prefix of the queue whose
  entries are numbered from the last sequence on: `FlattenSeq`, a fold, is unrolled for one
  fixed batch list by a function that exists for every length (`SomethingFlattens`, from
  `LeastNumber`, which the library's well-founded induction gives without an operator
  parameter). `Places` orders the numbers of logs, memtables and tables: which logs a recovery
  reads, that a table number is new when it is given to a file, also after the MANIFEST's
  next number was lost in a crash. `Pool` is the heart: there is one set of entries, with one
  for each sequence number and none beyond the last sequence but those in flight, of which
  everything is a part that a reader, a compaction or a recovery can still read (`PoolOf`). A
  log that no recovery reads is not in it: it may hold a number that was given again. During a
  replay what was read so far is in the tables made (`ReplayPool`); what a power loss took of
  the logs leaves the pool when the database is open again (`FinishOpenPool`).
- `SyncedWritesKept`: `Spec => []SyncedWritesAreDurable`. `Dur` says for each place a promise moves
  through what covers it (`Covers`: an entry of the key that is as new): the synced part of
  the log of the current memtable, then the memtable that is flushed, then the table of the
  flush before the MANIFEST names it, then that of a compaction, which covers what it read
  since it keeps the newest entry of each key (`CompactedCovers`). What the log has and the
  memtable has not is what the leader has still to insert (`Left`), until an error; and since
  a writer that syncs never joins a leader that does not (`LeaderIsFirst`), what it is promised
  was synced. The MANIFEST covers the version in memory even after an error, when they are no
  longer the same.

`KVStoreProofs`

- `IsTheStore`: `Spec /\ [][~MachineDies]_vars => ImplementsKVStore`, the refinement of `KVStore` by
  `DBImpl` for any number of threads, readers, keys, failed file operations and deaths of the
  process. The hypothesis is the code's own condition, a machine that does not die; `db_crash`
  meets it with `MaxPowerLosses = 0`. There is a lemma for each action (`<action>View`), which
  shows that the step is one of `KVStore` or leaves the store alone, and that it preserves a
  sixth invariant, `View`. The first five say what is not lost and what is a part of one pool of
  entries; a refinement needs equalities: what is seen, and by whom.
  - `QueueIds`, `GroupView`: the queue is in the order of the calls, and a group's entries are its
    members' updates, so that inserting the last of them is the `Commit` of the oldest calls.
    Until then none is at or below `lastSeq`: the inserted part of a group is invisible.
    `NumberedUpdates` and `Committed` say what the entries of a group, which a fold concatenates,
    make of the store.
  - `LogView`, `BadView`: the memtables hold what the logs hold, but for the group under way and
    a group whose sync failed. The latter leaves the database in error, so that nothing newer
    is ever written: `limbo` is these entries (`FailedIs`), and a recovery that finds them applies
    them in order.
  - `ReadersView`: what a snapshot or an unfinished Get refers to is not below `oldest` of the
    compaction under way, and a table being written is in nobody's version. With
    `CompactedAsNew`, a compaction replaces tables by what is as new for every reader there is or
    will be (`AsNew`, `SameView`).
  - `TablesView`: what the MANIFEST says is as new as the version and the memtable that is
    being flushed, and no newer (`Says`), also after an error. So what a recovery would find
    (`DiskShows`) is the store, before and after every step of a flush or a compaction.
  - `ReplayView`, `Closed`: a recovery adds nothing to what is on the disk, at whichever step it
    dies, and nobody is in a call meanwhile. At the end of the recovery what it replayed and the
    new logs show the same store (`FinishOpenView`).

`LRUCacheProofs`

- `ReferencesCounted`: `Spec => []RefsAreCounted`: the count of an entry is the number of
  handles clients hold, and one for the cache.
- `NeverDeletedInUse`: `Spec => []DeletedWhenUnused`: the deleter runs when and only when
  nobody refers to the entry. Both follow from `Owned`, which adds that the idle list holds
  each idle entry once and that the table finds only entries of the cache: a reference
  given up twice, or one nobody can give up, would start there.
- `CacheConsistent`: `Spec => []CacheIsConsistent`. `Kept` adds the other half of what the lists
  hold, that the table knows every entry of the cache, and that the usage is the sum of their
  charges. The sum is stated as the size of a set of units (`ChargeOf`), which the theorems on
  cardinality can add to and take from.
- `OldestAreEvicted`: `Spec => EvictsTheOldest`, of an insertion at any capacity. The idle list
  that remains is a tail of the one there was without the replaced entry, in its order; and
  the usage before the last eviction was above the capacity (`UsageAfter`, `LastCharge`).

`MergingIteratorProofs` and `DBIterProofs`

- `MergerImplementsCursor`: `SteadySpec => C!Spec`, the refinement of `Cursor` for any number of
  children and keys, where `SteadySpec` is `Spec` without turning forwards at a key the
  merger went past. `Sided` says where the children are: moving forwards, each at its
  first known entry that is not before the current key (`After`); backwards, at its last one
  that is not after it (`Before`); and after an overshoot one child is beyond and the others
  before (`Beyond`).
- `MergerIsACursorHere`: `Spec => MergerIsACursor` of `DBIter`: its calls are steps of
  `SteadySpec`. `ScanInv` says that where the merger went past a key, the loop of `Prev` is
  running and the key is not before the one it saved, so that the loop moves on backwards
  before anyone can turn.
- `ShowsTheSnapshot`: `Spec => ImplementsCursor`, the refinement of `Cursor` by `DBIter` for any
  content, snapshot and writes. The steps of a call are stutters but the one that ends it, so
  the invariant carries what the call has to show (`Right`): in each loop, whatever the loop
  would show from here is right. `ForwardInv`: the readable entries that are behind are of keys
  that are passed (`skipping`), so what is sought is the first visible one from here, of a key after
  `saved` if it skips. `BackwardInv`: nothing readable is between the merging iterator and the value held
  ready, so what is sought is the last visible one up to it. `TurnInv`: the loop of `Prev` is
  still at or past the key that was shown, or went past it (`At`). `IdleInv`: between calls
  the entry that is shown is visible, and in reverse the merging iterator is at the last
  readable entry of the keys before it. `ContentInv`: what is written is newer than the
  snapshot, so that what it reads (`Old`) never changes; the merging iterator knows all of it.

`LogFileProofs`. One invariant, `LogInv`, for every size of block, header and record.

- `OnlyRecordsTheorem`: `Spec => []OnlyRecords`. `Layout` says what holds of the bytes of the file
  whatever has failed: a byte of a fragment comes with those before it, the fragments come in
  their order, and one that goes on with a record comes after the whole of the one before it
  (since AddRecord gives up after a failed write). `Numbered` says the same of the fragments and
  their types. From both: a fragment that is whole and goes on with a record is the one after
  that which ends less than a header before it (`NoGap`, `GoesOn`). So what the reader puts
  together is a `Run`, and a run that begins and ends is all of its record (`WholeRecord`).
- `RecordsSurviveTheorem`: `Spec => []RecordsSurvive`. While no write has failed the file is
  `Aligned`: no fragment leaves its block, what is no fragment is a trailer too short for a
  header, and nothing is missing. The reader then stands at the end of a fragment or at a
  boundary (`InPlace`): where there is room for a header there is one, and its fragment is in the
  buffer or cut off by the end of the file (`AtHeader`); where there is none, nothing ends
  (`NothingSkipped`). `Outcomes` says which records are whole in the file (`Kept`), up to what
  is durable if they are synced; a death of the machine leaves those bytes (`LayoutCut`).
- `CutOffTheorem`: `Spec => []CutOffIsNoCorruption`: the same facts say that the reader has
  nothing to report: `BadRecord` cannot happen (`HeaderFound`), and a fragment goes on with a
  record if and only if there is one to go on with (`Gets`).

Only model-checked:

- liveness and everything with `ENABLED`, which are beyond the prover;
- `VersionIsSound`, `NewerFirst` and `GetIsCorrect` of `VersionSet`. They rest on what the
  binary search of `FindFile` and the loop of `DoCompactionWork` compute, which are recursive
  functions and folds over files and entries, and the last two do not hold of the code without
  exception. Where two files of a level overlap (`levels_gap`), `FindFile` may pass over the one
  that has a key, so that `Get` does not see it, and so that a memtable with the key is flushed
  below it: with three keys, five writes and two restarts, key 2 is in level 2, keys 1 and 3 are
  replayed to level 0, and key 2 is flushed to level 1 while 1 and 3 are compacted into it; then
  key 3 goes to level 2, below its old entry. And a boundary file left behind uncovers what a
  deletion hid (section 4). `harmed` excepts the keys these two have hurt, and nothing else;
- what a recursive definition computes for every input. The induction theorems of the library
  take an operator as a parameter and cannot be used; where a proof needs a few facts about
  a fold, a least counterexample (`LeastNumber`) gives them: `FlattenSeq` in `DBImplProofs` and
  `KVStoreProofs`.

No module that is proved about uses a `RECURSIVE` operator.

## 7. Not modelled

The app: the pickers and their defaults, the layout, formatting and colours of the charts,
`dict` and `init?(dict:)` (inverse on what the app writes), validation of text, storyboards.
Of the database client: queries, transactions, `onDisconnect`, merges and disk persistence,
which the app does not use.

leveldb: the formats of tables, blocks and filters, the skip list (its memory ordering is
below the level of these models), two-level iterators, the environment but for what
survives in files, `repair.cc`, `c.cc`, benchmarks and tests. nanopb is a sequential codec.
The other pods are here as headers for the most part, and third-party: they appear through
what the app asks of them. Most of the repository's C, C++ and Objective-C lines are such
headers and codecs, and the models cover a small share of them.

Hazards that no property covers, since nothing but the line itself would be restated: the loops
over `0...count-1` and `% entryPoints.count` trap on an empty list (`ChartViewController.swift:138`,
`:188`), which every handler that empties the list hides before it returns; a refused clear
leaves the table empty (`:37`), and a death between a confirmation and its row leaves the row
out (`AddNewPointViewController.swift:51`), which `StoresAgree` excepts; after a
refused clear the error is flashed and at once replaced by success
(`ChartViewController.swift:34`); a removal that is sent again erases what another device
saved since (`DatabaseFB.swift:16`; `StalePointsExplained` and the client's properties allow for
it); `temperatureSelected` starts at -20, below the picker's least value
(`AddNewPointViewController.swift:25`); the table belongs to the installation, not to the
user (`SQLCommands.swift:13`); `deinit` removes the observers of `users` and not those of the
user's node (`ChartViewController.swift:58`); an error of the Facebook dialog leaves the token
nil, on which `loginWithFacebook` traps (`LoginViewController.swift:20`; `Session` has the trap as
`crashed = "noToken"`).

## 8. What could follow

A composition of `Session` and `EntryPoints` for several users on one device; `DBImpl` with
the levels of `VersionSet` in place of `deep`, and with `LogFile`'s torn records; a `VersionSet`
whose compactions leave no gap and take the boundary files of both levels, for which its safety
properties would need no exception.
