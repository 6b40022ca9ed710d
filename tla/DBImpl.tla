------------------------------- MODULE DBImpl --------------------------------
(***************************************************************************)
(* The write path, the flushes and the recovery of leveldb::DBImpl         *)
(* (db/db_impl.cc): client threads in Write, threads that read, and the    *)
(* one background thread.  One action is what a thread does between two    *)
(* points where mutex_ is free, so it models the whole of that code.       *)
(*                                                                         *)
(* A memtable has the number of the log its writes go to.  An entry is a   *)
(* [key, seq, val]; a log record and a table are sets of entries; val is   *)
(* the id of the write.  Levels above 0 are one, "deep": how files are     *)
(* chosen and cut there is VersionSet's business.  How a record is laid    *)
(* out in the bytes of a log is LogFile's.                                 *)
(***************************************************************************)
EXTENDS Naturals, Sequences, FiniteSets, SequencesExt, FiniteSetsExt

CONSTANTS
  Keys, Writers, Readers, None,
  MemLimit,      \* entries a memtable may hold when a write begins: write_buffer_size
  MaxGroup,      \* entries in one group commit: max_size of BuildBatchGroup
  L0Trigger,     \* kL0_CompactionTrigger
  L0Stop,        \* kL0_StopWritesTrigger
  MaxWrites,     \* bound: calls of Write
  MaxFaults,     \* bound: failed file operations
  MaxCrashes,    \* bound: deaths of the process
  MaxPowerLosses \* bound: deaths of the machine

ASSUME NoneAssumption ==
  /\ None \notin [id : Nat, batch : Seq(Keys), sync : BOOLEAN]
  /\ None \notin [step : {"log", "sync", "insert", "end", "syncError"}, members : Seq(Writers),
                   entries : Seq([key : Keys, seq : Nat, val : Nat]), inserted : Nat, ok : BOOLEAN]
  /\ None \notin [Keys -> Nat \union {None}]
ASSUME BoundsAssumption ==
  /\ {MemLimit, MaxGroup, L0Trigger, MaxWrites, MaxFaults, MaxCrashes, MaxPowerLosses} \subseteq Nat
  /\ L0Trigger >= 1 /\ MaxGroup >= 1
  /\ L0Stop \in Nat /\ L0Stop >= L0Trigger

VARIABLES
  op,         \* the call of Write each thread is in, or None
  writers,    \* writers_
  group,      \* the group commit its leader is logging, or None
  memtable,   \* the memtables something refers to, by number
  mem, imm,   \* mem_ (its number is logfile_number_) and imm_; 0 is nullptr
  lastSeq,    \* versions_->LastSequence()
  nextFile,   \* versions_->next_file_number_
  version,    \* versions_->current(): [l0, deep], sets of table numbers
  logNumber,  \* versions_->LogNumber()
  pending,    \* pending_outputs_
  scheduled,  \* background_compaction_scheduled_
  flush,      \* the CompactMemTable in progress, or None
  merge,      \* the compaction in progress, or None
  bgError,    \* whether bg_error_ is set
  snaps,      \* the sequence number of each reader's snapshot, or None
  gets,       \* what each reader's Get refers to, or None
  phase,      \* "open", "down" (no process) or "opening"
  logs,       \* disk: the log files, each [recs, synced]
  tables,     \* disk: the table files
  manifest,   \* disk: what the MANIFEST named by CURRENT says
  promised,   \* history: entries of answered sync writes
  spent       \* how much of each bound is used

memory == <<op, writers, group, memtable, mem, imm, lastSeq, nextFile, version,
            logNumber, pending, scheduled, flush, merge, bgError, snaps, gets, phase>>
disk == <<logs, tables, manifest>>
vars == <<memory, disk, promised, spent>>

----------------------------------------------------------------------------
(* Data                                                                    *)

Batches == {SetToSeq(S) : S \in {T \in SUBSET Keys : IsFiniteSet(T) /\ T # {}}}

Files(v) == v.l0 \union v.deep

\* a table that is not there has nothing to read
EntriesOf(v) == UNION {tables[n] : n \in Files(v) \intersect DOMAIN tables}

\* the value of k among entries E for a reader at sequence s
Lookup(E, k, s) ==
  LET seen == {e \in E : e.key = k /\ e.seq <= s}
  IN IF seen = {} THEN None
     ELSE (CHOOSE e \in seen : \A f \in seen : f.seq <= e.seq).val

Visible(E, s) == [k \in Keys |-> Lookup(E, k, s)]

MemEntries(i) == IF i = 0 THEN {} ELSE memtable[i]

Newest == MemEntries(mem) \union MemEntries(imm) \union EntriesOf(version)

MaxSeq(E) == Max({e.seq : e \in E} \union {0})

\* a new file n in f
With(f, n, x) == [m \in DOMAIN f \union {n} |-> IF m = n THEN x ELSE f[m]]
NewLog == [recs |-> <<>>, synced |-> 0]

\* the updates of the batches of q, numbered from s+1 on
Numbered(q, s) ==
  LET updates == FlattenSeq([i \in DOMAIN q |->
                   [j \in DOMAIN op[q[i]].batch |-> [key |-> op[q[i]].batch[j], val |-> op[q[i]].id]]])
  IN [i \in DOMAIN updates |-> [key |-> updates[i].key, seq |-> s + i, val |-> updates[i].val]]

\* mutant: what only an older reader needs goes too
CompactedForNewest(E, oldest) == {e \in E : ~ \E f \in E : f.key = e.key /\ f.seq > e.seq}

\* what is left of entries that are merged: no entry hidden by a newer one
\* that the oldest reader already sees
Compacted(E, oldest) ==
  {e \in E : ~ \E f \in E : f.key = e.key /\ f.seq > e.seq /\ f.seq <= oldest}

\* the versions and the memtables that v, the compaction m and the readers of g refer to
Reading(g) == {r \in Readers : g[r] # None}

HeldVersions(v, m) ==
  {v} \union {gets[r].version : r \in Reading(gets)}
      \union (IF m = None THEN {} ELSE {m.input})

Referenced(m, i, g) ==
  ({m, i} \union UNION {{g[r].mem, g[r].imm} : r \in Reading(g)}) \ {0}

----------------------------------------------------------------------------
(* MANIFEST edits                                                          *)

Edit(add0, addDeep, del, log) ==
  [add0 |-> add0, addDeep |-> addDeep, del |-> del,
   log |-> log, next |-> nextFile, seq |-> lastSeq]

Applied(v, e) == [l0 |-> (v.l0 \ e.del) \union e.add0,
                  deep |-> (v.deep \ e.del) \union e.addDeep]

Recorded(m, e) == [version |-> Applied(m.version, e),
                   log |-> e.log, next |-> e.next, seq |-> e.seq]

\* mutant: pending_outputs_ is forgotten
DeleteUnnamedFiles(held, outputs, ln) ==
  LET live == UNION {Files(v) : v \in held}
  IN /\ tables' = [n \in DOMAIN tables \intersect live |-> tables[n]]
     /\ logs' = [n \in {m \in DOMAIN logs : m >= ln} |-> logs[n]]

\* keep what is live once v is current and ln the oldest log needed
DeleteObsoleteFiles(held, outputs, ln) ==
  LET live == (UNION {Files(v) : v \in held}) \union outputs
  IN /\ tables' = [n \in DOMAIN tables \intersect live |-> tables[n]]
     /\ logs' = [n \in {m \in DOMAIN logs : m >= ln} |-> logs[n]]

\* MaybeScheduleCompaction, for the imm_, version and error of the next state
WorkWaits(i, v) == i # 0 \/ Cardinality(v.l0) >= L0Trigger

Spend(what) == spent' = [spent EXCEPT ![what] = @ + 1]
MayFail == spent.faults < MaxFaults

----------------------------------------------------------------------------
(* Write                                                                   *)

\* a thread calls Write; an empty batch is the nullptr of TEST_CompactMemTable
Enqueue(w) ==
  /\ phase = "open" /\ op[w] = None /\ spent.writes < MaxWrites
  /\ \E b \in Batches \union {<<>>}, sync \in BOOLEAN :
       /\ b = <<>> => ~sync
       /\ op' = [op EXCEPT ![w] = [id |-> spent.writes + 1, batch |-> b, sync |-> sync]]
  /\ writers' = Append(writers, w)
  /\ Spend("writes")
  /\ UNCHANGED <<group, memtable, mem, imm, lastSeq, nextFile, version, logNumber, pending,
                 scheduled, flush, merge, bgError, snaps, gets, phase, disk, promised>>

\* mutant: a sync write may join the group of a leader that does not sync
GroupFitsAnySync(n) ==
  n = 1 \/ FoldLeft(LAMBDA t, w : t + Len(op[w].batch), 0, SubSeq(writers, 1, n)) <= MaxGroup

\* the writers the front one may take with it: BuildBatchGroup
GroupFits(n) ==
  LET q == SubSeq(writers, 1, n)
      size == FoldLeft(LAMBDA t, w : t + Len(op[w].batch), 0, q)
  IN /\ size <= MaxGroup \/ n = 1
     /\ \A i \in 2..n : op[q[i]].sync => op[q[1]].sync

BuildBatchGroup == SubSeq(writers, 1, CHOOSE n \in 1..Len(writers) :
  /\ \A m \in 1..n : GroupFits(m)
  /\ n < Len(writers) => ~GroupFits(n + 1))

\* the threads of q get their answer and leave the queue
Answer(q) ==
  /\ op' = [w \in Writers |-> IF w \in ToSet(q) THEN None ELSE op[w]]
  /\ writers' = SubSeq(writers, Len(q) + 1, Len(writers))

RoomInMem == Cardinality(memtable[mem]) <= MemLimit

\* MakeRoomForWrite has to switch memtables first, and may
MustSwitch == op[Head(writers)].batch = <<>> \/ ~RoomInMem
MaySwitch == imm = 0 /\ Cardinality(version.l0) < L0Stop

\* MakeRoomForWrite found room, or made it: what Write does before it unlocks
Lead ==
  IF op[Head(writers)].batch = <<>>
  THEN Answer(<<Head(writers)>>) /\ UNCHANGED group
  ELSE /\ group' = [step |-> "log", members |-> BuildBatchGroup,
                    entries |-> Numbered(BuildBatchGroup, lastSeq), inserted |-> 0, ok |-> TRUE]
       /\ UNCHANGED <<op, writers>>

FrontReady == phase = "open" /\ writers # <<>> /\ group = None

\* mutant: who waits for room does not look at bg_error_ again
YieldErrorWithRoom ==
  /\ FrontReady /\ bgError /\ (~MustSwitch \/ MaySwitch)
  /\ Answer(<<Head(writers)>>)
  /\ UNCHANGED <<group, memtable, mem, imm, lastSeq, nextFile, version, logNumber, pending,
                 scheduled, flush, merge, bgError, snaps, gets, phase, disk, promised, spent>>

YieldError ==
  /\ FrontReady /\ bgError
  /\ Answer(<<Head(writers)>>)
  /\ UNCHANGED <<group, memtable, mem, imm, lastSeq, nextFile, version, logNumber, pending,
                 scheduled, flush, merge, bgError, snaps, gets, phase, disk, promised, spent>>

WriteInPlace ==
  /\ FrontReady /\ ~bgError /\ ~MustSwitch
  /\ Lead
  /\ UNCHANGED <<memtable, mem, imm, lastSeq, nextFile, version, logNumber, pending, scheduled,
                 flush, merge, bgError, snaps, gets, phase, disk, promised, spent>>

SwitchMemTable ==
  /\ FrontReady /\ ~bgError /\ MustSwitch /\ MaySwitch
  /\ logs' = With(logs, nextFile, NewLog)
  /\ memtable' = With(memtable, nextFile, {})
  /\ imm' = mem
  /\ mem' = nextFile
  /\ nextFile' = nextFile + 1
  /\ scheduled' = TRUE
  /\ Lead
  /\ UNCHANGED <<lastSeq, version, logNumber, pending, flush, merge, bgError, snaps, gets, phase,
                 tables, manifest, promised, spent>>

\* the new log file cannot be created: the number is given back
NoNewLog ==
  /\ FrontReady /\ ~bgError /\ MustSwitch /\ MaySwitch /\ MayFail
  /\ Answer(<<Head(writers)>>)
  /\ Spend("faults")
  /\ UNCHANGED <<group, memtable, mem, imm, lastSeq, nextFile, version, logNumber, pending,
                 scheduled, flush, merge, bgError, snaps, gets, phase, disk, promised>>

Leader == op[Head(group.members)]

\* log_->AddRecord, without the mutex; a failed one leaves nothing in the file
AddRecord ==
  /\ group # None /\ group.step = "log"
  /\ \/ /\ logs' = [logs EXCEPT ![mem].recs = Append(@, ToSet(group.entries))]
        /\ group' = [group EXCEPT !.step = IF Leader.sync THEN "sync" ELSE "insert"]
        /\ UNCHANGED spent
     \/ /\ MayFail /\ Spend("faults")
        /\ group' = [group EXCEPT !.step = "end", !.ok = FALSE]
        /\ UNCHANGED logs
  /\ UNCHANGED <<op, writers, memtable, mem, imm, lastSeq, nextFile, version, logNumber, pending,
                 scheduled, flush, merge, bgError, snaps, gets, phase, tables, manifest, promised>>

SyncLog ==
  /\ group # None /\ group.step = "sync"
  /\ \/ /\ logs' = [logs EXCEPT ![mem].synced = Len(logs[mem].recs)]
        /\ group' = [group EXCEPT !.step = "insert"]
        /\ UNCHANGED spent
     \/ /\ MayFail /\ Spend("faults")
        /\ group' = [group EXCEPT !.step = "syncError", !.ok = FALSE]
        /\ UNCHANGED logs
  /\ UNCHANGED <<op, writers, memtable, mem, imm, lastSeq, nextFile, version, logNumber, pending,
                 scheduled, flush, merge, bgError, snaps, gets, phase, tables, manifest, promised>>

\* InsertInto(mem_), one update at a time and without the mutex
InsertIntoMem ==
  /\ group # None /\ group.step = "insert"
  /\ LET n == group.inserted + 1 IN
       /\ memtable' = [memtable EXCEPT ![mem] = @ \union {group.entries[n]}]
       /\ group' = [group EXCEPT !.inserted = n,
                                 !.step = IF n = Len(group.entries) THEN "end" ELSE "insert"]
  /\ UNCHANGED <<op, writers, mem, imm, lastSeq, nextFile, version, logNumber, pending, scheduled,
                 flush, merge, bgError, snaps, gets, phase, disk, promised, spent>>

\* the leader has the mutex again: the sequence moves on even after an error
FinishWrite ==
  /\ group # None /\ group.step \in {"end", "syncError"}
  /\ bgError' = (bgError \/ group.step = "syncError")
  /\ lastSeq' = lastSeq + Len(group.entries)
  /\ Answer(group.members)
  /\ group' = None
  /\ promised' = promised \union
       {e \in ToSet(group.entries) : group.ok /\ \E w \in ToSet(group.members) :
                                       op[w].sync /\ op[w].id = e.val}
  /\ UNCHANGED <<memtable, mem, imm, nextFile, version, logNumber, pending, scheduled, flush,
                 merge, snaps, gets, phase, disk, spent>>

----------------------------------------------------------------------------
(* The background thread                                                   *)

Busy == flush # None \/ merge # None

\* the end of BackgroundCall, for the imm_, version and error of the next state
EndCall(i, v, err) == scheduled' = (~err /\ WorkWaits(i, v))

\* CompactMemTable and the start of WriteLevel0Table, up to the unlock
StartFlush ==
  /\ phase = "open" /\ scheduled /\ imm # 0 /\ flush = None
  /\ \/ merge = None /\ ~bgError
     \/ merge # None /\ merge.step \in {"open", "write"}
  /\ flush' = [step |-> "build", number |-> nextFile, edit |-> None]
  /\ pending' = pending \union {nextFile}
  /\ nextFile' = nextFile + 1
  /\ UNCHANGED <<op, writers, group, memtable, mem, imm, lastSeq, version, logNumber, scheduled,
                 merge, bgError, snaps, gets, phase, disk, promised, spent>>

\* BuildTable, then the edit LogAndApply will write; an empty table is no file
BuildTable ==
  /\ flush # None /\ flush.step = "build"
  /\ pending' = pending \ {flush.number}
  /\ \/ /\ tables' = IF memtable[imm] = {} THEN tables ELSE With(tables, flush.number, memtable[imm])
        /\ flush' = [flush EXCEPT !.step = "apply",
             !.edit = Edit(IF memtable[imm] = {} THEN {} ELSE {flush.number}, {}, {}, mem)]
        /\ UNCHANGED <<bgError, scheduled, spent>>
     \/ /\ MayFail /\ Spend("faults")
        /\ flush' = None
        /\ bgError' = TRUE
        /\ IF merge = None THEN EndCall(imm, version, TRUE) ELSE UNCHANGED scheduled
        /\ UNCHANGED tables
  /\ UNCHANGED <<op, writers, group, memtable, mem, imm, lastSeq, nextFile, version, logNumber,
                 merge, snaps, gets, phase, logs, manifest, promised>>

\* the MANIFEST record is written and synced: the new version is installed
InstallFlush ==
  /\ flush # None /\ flush.step = "apply"
  /\ LET v == Applied(version, flush.edit) IN
       /\ manifest' = Recorded(manifest, flush.edit)
       /\ version' = v
       /\ logNumber' = flush.edit.log
       /\ imm' = 0
       /\ memtable' = [i \in Referenced(mem, 0, gets) |-> memtable[i]]
       /\ IF bgError THEN UNCHANGED <<tables, logs>>
          ELSE DeleteObsoleteFiles(HeldVersions(v, merge), pending, flush.edit.log)
       /\ IF merge = None THEN EndCall(0, v, bgError) ELSE UNCHANGED scheduled
  /\ flush' = None
  /\ UNCHANGED <<op, writers, group, mem, lastSeq, nextFile, pending, merge, bgError, snaps, gets,
                 phase, promised, spent>>

\* the write or the sync of the MANIFEST record fails: it may be there or not
FailFlush ==
  /\ flush # None /\ flush.step = "apply" /\ MayFail
  /\ manifest' \in {manifest, Recorded(manifest, flush.edit)}
  /\ flush' = None
  /\ bgError' = TRUE
  /\ IF merge = None THEN EndCall(imm, version, TRUE) ELSE UNCHANGED scheduled
  /\ Spend("faults")
  /\ UNCHANGED <<op, writers, group, memtable, mem, imm, lastSeq, nextFile, version, logNumber,
                 pending, merge, snaps, gets, phase, logs, tables, promised>>

\* BackgroundCompaction with no imm_: DoCompactionWork up to its unlock
StartMerge ==
  /\ phase = "open" /\ scheduled /\ ~Busy /\ ~bgError /\ imm = 0
  /\ Cardinality(version.l0) >= L0Trigger
  /\ merge' = [step |-> "open", input |-> version, number |-> 0, edit |-> None,
               oldest |-> Min({lastSeq} \union {snaps[r] : r \in {x \in Readers : snaps[x] # None}})]
  /\ UNCHANGED <<op, writers, group, memtable, mem, imm, lastSeq, nextFile, version, logNumber,
                 pending, scheduled, flush, bgError, snaps, gets, phase, disk, promised, spent>>

OpenCompactionOutputFile ==
  /\ merge # None /\ merge.step = "open" /\ flush = None
  /\ merge' = [merge EXCEPT !.step = "write", !.number = nextFile]
  /\ pending' = pending \union {nextFile}
  /\ tables' = With(tables, nextFile, {})
  /\ nextFile' = nextFile + 1
  /\ UNCHANGED <<op, writers, group, memtable, mem, imm, lastSeq, version, logNumber, scheduled,
                 flush, bgError, snaps, gets, phase, logs, manifest, promised, spent>>

\* the output is complete, in the file if nobody deleted it meanwhile;
\* InstallCompactionResults makes its edit
FinishMerge ==
  /\ merge # None /\ merge.step = "write" /\ flush = None
  /\ \/ /\ tables' = [n \in DOMAIN tables |-> IF n # merge.number THEN tables[n]
                        ELSE Compacted(EntriesOf(merge.input), merge.oldest)]
        /\ merge' = [merge EXCEPT !.step = "apply",
                       !.edit = Edit({}, {merge.number}, Files(merge.input), logNumber)]
        /\ UNCHANGED <<bgError, pending, scheduled, spent>>
     \/ /\ MayFail /\ Spend("faults")
        /\ merge' = None
        /\ bgError' = TRUE
        /\ pending' = pending \ {merge.number}
        /\ EndCall(imm, version, TRUE)
        /\ UNCHANGED tables
  /\ UNCHANGED <<op, writers, group, memtable, mem, imm, lastSeq, nextFile, version, logNumber,
                 flush, snaps, gets, phase, logs, manifest, promised>>

InstallMerge ==
  /\ merge # None /\ merge.step = "apply"
  /\ LET v == Applied(version, merge.edit) IN
       /\ manifest' = Recorded(manifest, merge.edit)
       /\ version' = v
       /\ IF bgError THEN UNCHANGED <<tables, logs>>
          ELSE DeleteObsoleteFiles(HeldVersions(v, None), pending \ {merge.number}, logNumber)
       /\ EndCall(imm, v, bgError)
  /\ pending' = pending \ {merge.number}
  /\ merge' = None
  /\ UNCHANGED <<op, writers, group, memtable, mem, imm, lastSeq, nextFile, logNumber, flush,
                 bgError, snaps, gets, phase, promised, spent>>

FailMerge ==
  /\ merge # None /\ merge.step = "apply" /\ MayFail
  /\ manifest' \in {manifest, Recorded(manifest, merge.edit)}
  /\ merge' = None
  /\ pending' = pending \ {merge.number}
  /\ bgError' = TRUE
  /\ EndCall(imm, version, TRUE)
  /\ Spend("faults")
  /\ UNCHANGED <<op, writers, group, memtable, mem, imm, lastSeq, nextFile, version, logNumber,
                 flush, snaps, gets, phase, logs, tables, promised>>

\* a call that was scheduled before an error finds it and does nothing
IdleCall ==
  /\ phase = "open" /\ scheduled /\ ~Busy /\ bgError
  /\ EndCall(imm, version, bgError)
  /\ UNCHANGED <<op, writers, group, memtable, mem, imm, lastSeq, nextFile, version, logNumber,
                 pending, flush, merge, bgError, snaps, gets, phase, disk, promised, spent>>

----------------------------------------------------------------------------
(* Readers                                                                 *)

GetSnapshot(r) ==
  /\ phase = "open" /\ snaps[r] = None
  /\ snaps' = [snaps EXCEPT ![r] = lastSeq]
  /\ UNCHANGED <<op, writers, group, memtable, mem, imm, lastSeq, nextFile, version, logNumber,
                 pending, scheduled, flush, merge, bgError, gets, phase, disk, promised, spent>>

ReleaseSnapshot(r) ==
  /\ snaps[r] # None /\ gets[r] = None
  /\ snaps' = [snaps EXCEPT ![r] = None]
  /\ UNCHANGED <<op, writers, group, memtable, mem, imm, lastSeq, nextFile, version, logNumber,
                 pending, scheduled, flush, merge, bgError, gets, phase, disk, promised, spent>>

\* Get up to its unlock: references to mem_, imm_ and the version
BeginGet(r) ==
  /\ phase = "open" /\ gets[r] = None
  /\ gets' = [gets EXCEPT ![r] = [seq |-> IF snaps[r] = None THEN lastSeq ELSE snaps[r],
                                  mem |-> mem, imm |-> imm, version |-> version]]
  /\ UNCHANGED <<op, writers, group, memtable, mem, imm, lastSeq, nextFile, version, logNumber,
                 pending, scheduled, flush, merge, bgError, snaps, phase, disk, promised, spent>>

\* Get has read and gives its references back
EndGet(r) ==
  /\ gets[r] # None
  /\ gets' = [gets EXCEPT ![r] = None]
  /\ memtable' = [i \in Referenced(mem, imm, gets') |-> memtable[i]]
  /\ UNCHANGED <<op, writers, group, mem, imm, lastSeq, nextFile, version, logNumber, pending,
                 scheduled, flush, merge, bgError, snaps, phase, disk, promised, spent>>

----------------------------------------------------------------------------
(* Deaths and DB::Open                                                     *)

\* everything in memory is gone; memory of the next process is set by Open
Forget ==
  /\ op' = [w \in Writers |-> None] /\ writers' = <<>> /\ group' = None
  /\ memtable' = <<>> /\ mem' = 0 /\ imm' = 0
  /\ lastSeq' = 0 /\ nextFile' = 0 /\ logNumber' = 0
  /\ version' = [l0 |-> {}, deep |-> {}] /\ pending' = {}
  /\ scheduled' = FALSE /\ flush' = None /\ merge' = None /\ bgError' = FALSE
  /\ snaps' = [r \in Readers |-> None] /\ gets' = [r \in Readers |-> None]
  /\ phase' = "down"

\* LogAndApply may be anywhere in the write of its MANIFEST record
ManifestAfterDeath ==
  {manifest} \union {Recorded(manifest, x.edit) : x \in {y \in {flush, merge} : y # None /\ y.edit # None}}

\* the process dies: what it gave to write() is in the files, a record it was
\* giving may be or not
ProcessDies ==
  /\ phase # "down" /\ spent.crashes < MaxCrashes
  /\ Spend("crashes")
  /\ Forget
  /\ logs' \in {logs} \union
       (IF group # None /\ group.step = "log"
        THEN {[logs EXCEPT ![mem].recs = Append(@, ToSet(group.entries))]} ELSE {})
  /\ manifest' \in ManifestAfterDeath
  /\ UNCHANGED <<tables, promised>>

\* the machine dies: of each log a prefix is left that has all that was synced
MachineDies ==
  /\ phase # "down" /\ spent.losses < MaxPowerLosses
  /\ Spend("losses")
  /\ Forget
  /\ \E left \in [DOMAIN logs -> 0..Max({Len(logs[n].recs) : n \in DOMAIN logs} \union {0})] :
       /\ \A n \in DOMAIN logs : left[n] \in logs[n].synced..Len(logs[n].recs)
       /\ logs' = [n \in DOMAIN logs |-> [recs |-> SubSeq(logs[n].recs, 1, left[n]), synced |-> left[n]]]
  /\ manifest' \in ManifestAfterDeath
  /\ UNCHANGED <<tables, promised>>

LogsToReplay == {n \in DOMAIN logs : n >= manifest.log}

\* DBImpl::Recover up to its loop over the logs: VersionSet::Recover gives the
\* new MANIFEST the recorded next number
StartRecovery ==
  /\ phase = "down"
  /\ phase' = "opening"
  /\ version' = manifest.version /\ logNumber' = manifest.log
  /\ lastSeq' = manifest.seq /\ nextFile' = manifest.next + 1
  /\ flush' = [step |-> "replay", left |-> LogsToReplay, read |-> 0, entries |-> {}, made |-> {},
               edit |-> None]
  /\ UNCHANGED <<op, writers, group, memtable, mem, imm, pending, scheduled, merge, bgError, snaps,
                 gets, disk, promised, spent>>

\* the log that is replayed, the oldest of those left
Replaying(n) ==
  /\ phase = "opening" /\ flush.step = "replay"
  /\ n \in flush.left /\ \A m \in flush.left : n <= m
  /\ UNCHANGED <<op, writers, group, memtable, mem, imm, version, logNumber, pending, scheduled, merge,
                 bgError, snaps, gets, phase, logs, manifest, promised, spent>>

\* WriteLevel0Table of the entries read so far
WriteLevel0Table(E) == tables' = With(tables, nextFile, E)

\* mutant: the sequence goes on from the MANIFEST's
RecordedSequence(record) == lastSeq

\* max_sequence
ReplayedSequence(record) == Max({lastSeq, MaxSeq(record)})

\* RecoverLogFile reads a record, and writes a table when there is enough for one
ReplayRecord(n) ==
  /\ Replaying(n) /\ flush.read < Len(logs[n].recs)
  /\ LET record == logs[n].recs[flush.read + 1]
         entries == flush.entries \union record
         full == Cardinality(entries) > MemLimit
     IN /\ lastSeq' = ReplayedSequence(record)
        /\ nextFile' = IF full THEN nextFile + 1 ELSE nextFile
        /\ IF full THEN WriteLevel0Table(entries) ELSE UNCHANGED tables
        /\ flush' = [flush EXCEPT !.read = @ + 1,
                                  !.entries = IF full THEN {} ELSE entries,
                                  !.made = IF full THEN @ \union {nextFile} ELSE @]

\* the end of RecoverLogFile, and MarkFileNumberUsed
FinishReplay(n) ==
  /\ Replaying(n) /\ flush.read = Len(logs[n].recs)
  /\ LET next == IF flush.entries = {} THEN nextFile ELSE nextFile + 1 IN
       /\ nextFile' = IF next <= n THEN n + 1 ELSE next
       /\ IF flush.entries = {} THEN UNCHANGED tables ELSE WriteLevel0Table(flush.entries)
       /\ flush' = [flush EXCEPT !.left = @ \ {n}, !.read = 0, !.entries = {},
                     !.made = IF flush.entries = {} THEN @ ELSE @ \union {nextFile}]
  /\ UNCHANGED lastSeq

\* the new log of DB::Open
OpenNewLog ==
  /\ phase = "opening" /\ flush.step = "replay" /\ flush.left = {}
  /\ mem' = nextFile
  /\ memtable' = [n \in {nextFile} |-> {}]
  /\ logs' = With(logs, nextFile, NewLog)
  /\ nextFile' = nextFile + 1
  /\ flush' = [step |-> "recover", number |-> 0,
               edit |-> [add0 |-> flush.made, addDeep |-> {}, del |-> {},
                         log |-> nextFile, next |-> nextFile + 1, seq |-> lastSeq]]
  /\ UNCHANGED <<op, writers, group, imm, lastSeq, version, logNumber, pending, scheduled, merge,
                 bgError, snaps, gets, phase, tables, manifest, promised, spent>>

\* a new MANIFEST holds the version and the edit, and CURRENT names it
FinishOpen ==
  /\ phase = "opening" /\ flush.step = "recover"
  /\ LET v == Applied(version, flush.edit) IN
       /\ manifest' = Recorded(manifest, flush.edit)
       /\ version' = v
       /\ DeleteObsoleteFiles({v}, {}, flush.edit.log)
       /\ EndCall(0, v, FALSE)
  /\ logNumber' = flush.edit.log
  /\ flush' = None
  /\ phase' = "open"
  /\ UNCHANGED <<op, writers, group, memtable, mem, imm, lastSeq, nextFile, pending, merge,
                 bgError, snaps, gets, promised, spent>>

----------------------------------------------------------------------------

\* NewDB and a first DB::Open
Init ==
  /\ op = [w \in Writers |-> None] /\ writers = <<>> /\ group = None
  /\ memtable = [n \in {3} |-> {}] /\ mem = 3 /\ imm = 0
  /\ lastSeq = 0 /\ nextFile = 4 /\ logNumber = 3
  /\ version = [l0 |-> {}, deep |-> {}] /\ pending = {}
  /\ scheduled = FALSE /\ flush = None /\ merge = None /\ bgError = FALSE
  /\ snaps = [r \in Readers |-> None] /\ gets = [r \in Readers |-> None]
  /\ phase = "open"
  /\ logs = [n \in {3} |-> NewLog]
  /\ tables = <<>>
  /\ manifest = [version |-> [l0 |-> {}, deep |-> {}], log |-> 3, next |-> 4, seq |-> 0]
  /\ promised = {}
  /\ spent = [writes |-> 0, faults |-> 0, crashes |-> 0, losses |-> 0]

ClientStep ==
  \/ \E w \in Writers : Enqueue(w)
  \/ \E r \in Readers : GetSnapshot(r) \/ ReleaseSnapshot(r) \/ BeginGet(r)

WriterStep ==
  \/ YieldError \/ WriteInPlace \/ SwitchMemTable \/ NoNewLog
  \/ AddRecord \/ SyncLog \/ InsertIntoMem \/ FinishWrite

BackgroundStep ==
  \/ StartFlush \/ BuildTable \/ InstallFlush \/ FailFlush
  \/ StartMerge \/ OpenCompactionOutputFile \/ FinishMerge \/ InstallMerge \/ FailMerge
  \/ IdleCall

OpenStep ==
  \/ StartRecovery \/ OpenNewLog \/ FinishOpen
  \/ \E n \in DOMAIN logs : ReplayRecord(n) \/ FinishReplay(n)

Next ==
  \/ ClientStep \/ WriterStep \/ BackgroundStep \/ OpenStep
  \/ \E r \in Readers : EndGet(r)
  \/ ProcessDies \/ MachineDies

\* each thread that may run does, in the end
Fairness == WF_vars(WriterStep) /\ WF_vars(BackgroundStep) /\ WF_vars(OpenStep)

Spec == Init /\ [][Next]_vars /\ Fairness

----------------------------------------------------------------------------
(* Properties                                                              *)

TypeOK ==
  /\ \A w \in Writers : op[w] # None =>
       /\ op[w].id \in 1..MaxWrites /\ op[w].batch \in Batches \union {<<>>} /\ op[w].sync \in BOOLEAN
  /\ writers \in Seq(Writers) /\ IsInjective(writers)
  /\ ToSet(writers) = {w \in Writers : op[w] # None}
  /\ mem \in Nat /\ imm \in Nat /\ DOMAIN memtable = Referenced(mem, imm, gets)
  /\ lastSeq \in Nat /\ nextFile \in Nat /\ logNumber \in Nat
  /\ scheduled \in BOOLEAN /\ bgError \in BOOLEAN
  /\ phase \in {"open", "down", "opening"}
  /\ \A n \in DOMAIN logs : logs[n].synced \in 0..Len(logs[n].recs)

\* what a replay of the disk would find: recovery reads the tables the MANIFEST
\* names and the logs it does not make obsolete
RecordsOf(n) == UNION ToSet(logs[n].recs)
OnDisk == EntriesOf(manifest.version) \union UNION {RecordsOf(n) : n \in LogsToReplay}

StoreNow == IF phase = "open" THEN Visible(Newest, lastSeq) ELSE Visible(OnDisk, MaxSeq(OnDisk))

InFlight == IF group = None THEN {} ELSE ToSet(group.entries)

FailedInLog ==
  IF phase # "open" THEN {}
  ELSE {e \in UNION {RecordsOf(n) : n \in LogsToReplay} : e \notin Newest \union InFlight}

KV == INSTANCE KVStore WITH
  Ids <- 1..MaxWrites,
  store <- StoreNow,
  calls <- {[id |-> op[w].id, keys |-> ToSet(op[w].batch)] : w \in {x \in Writers : op[x] # None}},
  limbo <- {[id |-> i, keys |-> {e.key : e \in {f \in FailedInLog : f.val = i}}] :
              i \in {e.val : e \in FailedInLog}},
  snaps <- [r \in Readers |-> IF snaps[r] = None THEN None ELSE Visible(Newest, snaps[r])],
  gets <- [r \in Readers |-> IF gets[r] = None THEN None ELSE
             Visible(MemEntries(gets[r].mem) \union MemEntries(gets[r].imm)
                     \union EntriesOf(gets[r].version), gets[r].seq)]

\* The database is the store db.h describes: whatever the group commits, the
\* memtable switches, the flushes, the compactions and the deaths of the process
\* do, a batch takes effect at one instant, a Get and a snapshot see one
\* instant, and no answered write is lost (DBImpl::Write, Get, Recover).
ImplementsKVStore == KV!Spec

\* What a synced write that was answered wrote is on the disk, in a table the
\* MANIFEST names or in the synced part of a log that will be replayed, unless
\* a newer write of the key is: no power loss can take it (WriteOptions::sync).
SyncedWritesAreDurable ==
  LET durable == EntriesOf(manifest.version) \union
        UNION {UNION ToSet(SubSeq(logs[n].recs, 1, logs[n].synced)) : n \in LogsToReplay}
  IN \A e \in promised : \E f \in durable : f.key = e.key /\ f.seq >= e.seq

\* One sequence number never names two updates, in memory or on the disk: after
\* a failed write, a crash or a replay the numbers go on after the last one used.
SequencesAreUnique ==
  LET all == OnDisk \union InFlight \union (IF phase = "open" THEN Newest ELSE {})
  IN \A e, f \in all : e.seq = f.seq => e = f

\* DeleteObsoleteFiles never deletes a table that the current version, a reader's
\* version, the running compaction or the MANIFEST still names.
NeededTablesExist ==
  \A v \in HeldVersions(version, merge) \union {manifest.version} : Files(v) \subseteq DOMAIN tables

\* What readers and the next recovery rest on stays sound across failures, deaths
\* of the process and replays (DeleteObsoleteFiles, RecoverLogFile).
DiskIsSound == TypeOK /\ SequencesAreUnique

\* Every call of Write is answered, whatever fails; or the process dies.
WritesAreAnswered == \A w \in Writers : op[w] # None ~> op[w] = None
==============================================================================
