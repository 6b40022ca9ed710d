---------------------------- MODULE DBImplProofs -----------------------------
(***************************************************************************)
(* What is proved of DBImpl for every number of threads, keys, failures    *)
(* and deaths: the tables somebody needs are never deleted, what readers   *)
(* and the next recovery rest on is sound, and no synced write that was    *)
(* answered is lost.  Five invariants, each with the help of those before: *)
(* Sound (files), Queue (writers), Places (logs and file numbers), Pool    *)
(* (entries) and Dur (what is durable).                                    *)
(***************************************************************************)
EXTENDS DBImpl, FiniteSetTheorems, SequenceTheorems, TLAPS

-----------------------------------------------------------------------------
(* The inductive invariant.                                                *)

Kept(v) == Files(v) \subseteq DOMAIN tables

(* File numbers are handed out in order: those of the outputs that are     *)
(* being written are below the next one.                                   *)
Numbers ==
  /\ nextFile \in Nat /\ manifest.next \in Nat
  /\ DOMAIN logs \subseteq Nat
  /\ pending \subseteq {n \in Nat : n < nextFile}

FlushFields(f) ==
  IF f.step = "replay" THEN DOMAIN f = {"step", "left", "read", "entries", "made", "edit"}
  ELSE DOMAIN f = {"step", "number", "edit"}

Flushing == flush # None \/ phase = "opening"

(* What may be under way in each phase; until an error the MANIFEST says   *)
(* what the current version is.                                            *)
Stages ==
  /\ phase \in {"open", "opening", "down"} /\ bgError \in BOOLEAN
  /\ phase # "open" => group = None /\ merge = None /\ pending = {} /\ bgError = FALSE
  /\ phase # "open" => \A r \in Readers : gets[r] = None
  /\ phase = "down" => flush = None
  /\ phase = "opening" => flush.step \in {"replay", "recover"}
  /\ phase = "open" /\ flush # None => flush.step \in {"build", "apply"}
  /\ phase # "down" /\ bgError = FALSE => version = manifest.version
  /\ DOMAIN gets = Readers
  /\ Flushing => FlushFields(flush)

(* What a version names is there, whoever holds it.                        *)
Held ==
  /\ Kept(version) /\ Kept(manifest.version)
  /\ \A r \in Readers : gets[r] # None => Kept(gets[r].version)
  /\ merge # None => Kept(merge.input)

(* What the edit of a flush or of a recovery will add is there.            *)
FlushSound ==
  Flushing =>
    /\ flush.step \in {"apply", "recover"} =>
         /\ flush.edit.add0 \subseteq DOMAIN tables /\ flush.edit.addDeep = {}
         /\ flush.edit.next \in Nat
    /\ flush.step = "replay" => flush.made \subseteq DOMAIN tables /\ flush.left \subseteq Nat
    /\ flush.step \in {"replay", "build"} => flush.edit = None

(* So is the output of a compaction, which a flush that is nested in it    *)
(* finds among the pending outputs.                                        *)
MergeSound ==
  merge # None =>
    /\ DOMAIN merge = {"step", "input", "number", "edit", "oldest"}
    /\ merge.step \in {"open", "write", "apply"}
    /\ merge.step # "apply" => merge.edit = None
    /\ merge.step # "open" =>
         /\ merge.number \in pending /\ merge.number \in DOMAIN tables
         /\ flush # None /\ flush.step = "build" => flush.number # merge.number
    /\ merge.step = "apply" =>
         /\ flush = None
         /\ merge.edit.add0 = {} /\ merge.edit.addDeep = {merge.number}
         /\ merge.edit.next \in Nat

Sound == Numbers /\ Stages /\ Held /\ FlushSound /\ MergeSound

-----------------------------------------------------------------------------
(* Edits and deletions.                                                    *)

(* A version after an edit names what it named or what the edit adds       *)
(* (VersionEdit, Builder::SaveTo).                                         *)
LEMMA AppliedFiles ==
  ASSUME NEW v, NEW e
  PROVE  Files(Applied(v, e)) \subseteq Files(v) \union e.add0 \union e.addDeep
BY DEF Files, Applied

(* What DeleteObsoleteFiles leaves.                                        *)
LEMMA DeletionKeeps ==
  ASSUME NEW held, NEW outputs, NEW ln,
         DeleteObsoleteFiles(held, outputs, ln)
  PROVE  /\ DOMAIN logs' \subseteq DOMAIN logs
         /\ outputs \intersect DOMAIN tables \subseteq DOMAIN tables'
         /\ \A v \in held : Kept(v) => Files(v) \subseteq DOMAIN tables'
BY DEF DeleteObsoleteFiles, Kept

(* A table or a log that is created joins those that are there.            *)
LEMMA Created ==
  ASSUME NEW f, NEW n, NEW x
  PROVE  DOMAIN With(f, n, x) = DOMAIN f \union {n}
BY DEF With

-----------------------------------------------------------------------------
(* One lemma for each kind of step.                                        *)

Rest == <<nextFile, version, pending, flush, merge, gets, phase, tables, manifest>>

(* Clients and the writers' queue, which neither make nor delete files;    *)
(* the leader of a group may report an error (RecordBackgroundError).      *)
LEMMA WritersSound ==
  ASSUME Sound, UNCHANGED Rest, DOMAIN logs' \subseteq Nat,
         bgError' = bgError \/ (phase = "open" /\ bgError' = TRUE),
         phase # "open" => group' = None
  PROVE  Sound'
<1>1. Numbers'
  BY DEF Sound, Numbers, Rest
<1>2. Stages'
  BY DEF Sound, Stages, Rest, FlushFields, Flushing
<1>3. Held'
  BY DEF Sound, Held, Kept, Files, Rest
<1>4. FlushSound'
  BY DEF Sound, FlushSound, Rest, Flushing
<1>5. MergeSound'
  BY DEF Sound, MergeSound, Rest
<1> QED
  BY <1>1, <1>2, <1>3, <1>4, <1>5 DEF Sound

(* MakeRoomForWrite opens a new log.                                       *)
LEMMA SwitchMemTableSound ==
  ASSUME Sound, SwitchMemTable
  PROVE  Sound'
<1> USE DEF SwitchMemTable
<1>1. Numbers'
  BY DEF Sound, Numbers, With
<1>2. Stages'
  BY DEF Sound, Stages, FrontReady, FlushFields, Flushing
<1>3. Held'
  BY DEF Sound, Held, Kept, Files
<1>4. FlushSound'
  BY DEF Sound, FlushSound, Flushing
<1>5. MergeSound'
  BY DEF Sound, MergeSound
<1> QED
  BY <1>1, <1>2, <1>3, <1>4, <1>5 DEF Sound

(* A flush begins: it takes a new number.                                  *)
LEMMA StartFlushSound ==
  ASSUME Sound, StartFlush
  PROVE  Sound'
<1> USE DEF StartFlush
<1>1. Numbers'
  BY DEF Sound, Numbers, disk
<1>2. Stages'
  BY DEF Sound, Stages, FlushFields, disk, Flushing
<1>3. Held'
  BY DEF Sound, Held, Kept, Files, disk
<1>4. FlushSound'
  BY DEF Sound, FlushSound, Flushing
<1>5. MergeSound'
  BY DEF Sound, MergeSound, Numbers, disk
<1> QED
  BY <1>1, <1>2, <1>3, <1>4, <1>5 DEF Sound

(* Its table is written, and is no longer among the pending outputs.       *)
LEMMA BuildTableSound ==
  ASSUME Sound, BuildTable
  PROVE  Sound'
<1> USE DEF BuildTable
<1>0. DOMAIN tables \subseteq DOMAIN tables'
  BY DEF With
<1>1. Numbers'
  BY DEF Sound, Numbers
<1>2. Stages'
  BY DEF Sound, Stages, FlushFields, EndCall, WorkWaits, Flushing
<1>3. Held'
  BY <1>0 DEF Sound, Held, Kept, Files
<1>4. FlushSound'
  <2> DEFINE new == IF memtable[imm] = {} THEN {} ELSE {flush.number}
  <2> SUFFICES ASSUME Flushing' PROVE FlushSound'
    BY DEF FlushSound, Flushing
  <2>0. flush' # None
    BY DEF Sound, Stages, Flushing
  <2>1. flush' = [flush EXCEPT !.step = "apply", !.edit = Edit(new, {}, {}, mem)]
    BY <2>0
  <2>2. new \subseteq DOMAIN tables'
    BY <2>0 DEF With
  <2>3. flush'.step = "apply" /\ flush'.edit = Edit(new, {}, {}, mem)
    BY <2>1 DEF Sound, Stages, FlushFields, Flushing
  <2>4. /\ Edit(new, {}, {}, mem).add0 = new /\ Edit(new, {}, {}, mem).addDeep = {}
        /\ Edit(new, {}, {}, mem).next \in Nat
    BY DEF Edit, Sound, Numbers
  <2> QED
    BY <2>2, <2>3, <2>4 DEF FlushSound, Flushing
<1>5. MergeSound'
  BY <1>0 DEF Sound, MergeSound, Stages, FlushFields, Flushing
<1> QED
  BY <1>1, <1>2, <1>3, <1>4, <1>5 DEF Sound

(* The edit is in the MANIFEST: what it added is in both versions, and     *)
(* what is deleted nobody holds.                                           *)
LEMMA InstallFlushSound ==
  ASSUME Sound, InstallFlush
  PROVE  Sound'
<1> USE DEF InstallFlush
<1> DEFINE v == Applied(version, flush.edit)
<1>1. phase = "open"
  BY DEF Sound, Stages, Flushing
<1>2. merge # None => merge.step # "apply"
  BY DEF Sound, MergeSound
<1>3. Kept(v) /\ Kept(Applied(manifest.version, flush.edit))
  BY AppliedFiles DEF Sound, Held, FlushSound, Kept, Flushing
<1>4. version' = v /\ manifest'.version = Applied(manifest.version, flush.edit)
  BY DEF Recorded
<1>5. bgError = FALSE => manifest'.version = v
  BY <1>1, <1>4 DEF Sound, Stages, Flushing
<1>6. \/ bgError = TRUE /\ UNCHANGED <<tables, logs>>
      \/ bgError = FALSE /\ DeleteObsoleteFiles(HeldVersions(v, merge), pending, flush.edit.log)
  BY DEF Sound, Stages, Flushing
<1>7. DOMAIN logs' \subseteq DOMAIN logs
  BY <1>6, DeletionKeeps
<1>8. pending \intersect DOMAIN tables \subseteq DOMAIN tables'
  BY <1>6, DeletionKeeps
<1>9. \A w \in HeldVersions(v, merge) : Kept(w) => Files(w) \subseteq DOMAIN tables'
  BY <1>6, DeletionKeeps DEF Kept
<1>10. Numbers'
  BY <1>7 DEF Sound, Numbers, FlushSound, Recorded, Flushing
<1>11. Stages'
  BY <1>1, <1>4, <1>5 DEF Sound, Stages, Flushing
<1>12. Held'
  <2>1. Kept(version)'
    BY <1>3, <1>4, <1>9 DEF HeldVersions, Kept, Files
  <2>2. Kept(manifest.version)'
    <3>1. CASE bgError = TRUE
      BY <1>3, <1>4, <1>6, <3>1 DEF Kept, Files
    <3>2. CASE bgError = FALSE
      BY <1>4, <1>5, <2>1, <3>2 DEF Kept, Files
    <3> QED
      BY <1>6, <3>1, <3>2
  <2>3. \A r \in Readers : gets'[r] # None => Kept(gets[r].version)'
    BY <1>9 DEF HeldVersions, Reading, Sound, Held, Kept, Files
  <2>4. merge' # None => Kept(merge.input)'
    BY <1>9 DEF HeldVersions, Sound, Held, Kept, Files
  <2> QED
    BY <2>1, <2>2, <2>3, <2>4 DEF Held, Kept, Files
<1>13. FlushSound'
  BY <1>1 DEF FlushSound, Flushing
<1>14. MergeSound'
  BY <1>2, <1>8 DEF Sound, MergeSound
<1> QED
  BY <1>10, <1>11, <1>12, <1>13, <1>14 DEF Sound

(* A failed MANIFEST record may be there or not; nothing is deleted from   *)
(* then on.                                                                *)
LEMMA FailFlushSound ==
  ASSUME Sound, FailFlush
  PROVE  Sound'
<1> USE DEF FailFlush
<1>1. phase = "open" /\ (merge # None => merge.step # "apply")
  BY DEF Sound, Stages, MergeSound, Flushing
<1>2. Kept(Applied(manifest.version, flush.edit))
  BY AppliedFiles DEF Sound, Held, FlushSound, Kept, Flushing
<1>3. Numbers'
  BY DEF Sound, Numbers, FlushSound, Recorded, Flushing
<1>4. Stages'
  BY <1>1 DEF Sound, Stages, Flushing
<1>5. Held'
  <2>1. Kept(manifest.version)'
    BY <1>2 DEF Sound, Held, Kept, Files, Recorded
  <2> QED
    BY <2>1 DEF Sound, Held, Kept, Files
<1>6. FlushSound'
  BY <1>1 DEF FlushSound, Flushing
<1>7. MergeSound'
  BY <1>1 DEF Sound, MergeSound
<1> QED
  BY <1>3, <1>4, <1>5, <1>6, <1>7 DEF Sound

(* A compaction holds the version it was picked from.                      *)
LEMMA StartMergeSound ==
  ASSUME Sound, StartMerge
  PROVE  Sound'
<1> USE DEF StartMerge, disk
<1>1. Numbers'
  BY DEF Sound, Numbers
<1>2. Stages'
  BY DEF Sound, Stages, FlushFields, Flushing
<1>3. Held'
  BY DEF Sound, Held, Kept, Files
<1>4. FlushSound'
  BY DEF Sound, FlushSound, Flushing
<1>5. MergeSound'
  BY DEF MergeSound
<1> QED
  BY <1>1, <1>2, <1>3, <1>4, <1>5 DEF Sound

(* Its output is among the pending outputs as soon as it is a file.        *)
LEMMA OpenCompactionOutputFileSound ==
  ASSUME Sound, OpenCompactionOutputFile
  PROVE  Sound'
<1> USE DEF OpenCompactionOutputFile
<1>1. phase = "open"
  BY DEF Sound, Stages, Flushing
<1>2. DOMAIN tables' = DOMAIN tables \union {nextFile}
  BY DEF With
<1>3. /\ merge'.step = "write" /\ merge'.number = nextFile
      /\ merge'.input = merge.input /\ merge'.edit = merge.edit
      /\ DOMAIN merge' = DOMAIN merge
  BY DEF Sound, MergeSound
<1>4. Numbers'
  BY DEF Sound, Numbers
<1>5. Stages'
  BY <1>1 DEF Sound, Stages, Flushing
<1>6. Held'
  BY <1>2, <1>3 DEF Sound, Held, Kept, Files
<1>7. FlushSound'
  BY <1>1 DEF FlushSound, Flushing
<1>8. MergeSound'
  BY <1>2, <1>3 DEF Sound, MergeSound
<1> QED
  BY <1>4, <1>5, <1>6, <1>7, <1>8 DEF Sound

LEMMA FinishMergeSound ==
  ASSUME Sound, FinishMerge
  PROVE  Sound'
<1> USE DEF FinishMerge
<1>1. phase = "open"
  BY DEF Sound, Stages, Flushing
<1>2. DOMAIN tables' = DOMAIN tables /\ pending' \subseteq pending
  OBVIOUS
<1>3. ASSUME merge' # None
      PROVE  /\ merge'.step = "apply" /\ merge'.number = merge.number /\ merge'.input = merge.input
             /\ merge'.edit = Edit({}, {merge.number}, Files(merge.input), logNumber)
             /\ DOMAIN merge' = DOMAIN merge /\ pending' = pending
  BY <1>3 DEF Sound, MergeSound
<1>4. Numbers'
  BY <1>2 DEF Sound, Numbers
<1>5. Stages'
  BY <1>1 DEF Sound, Stages, Flushing
<1>6. Held'
  BY <1>2, <1>3 DEF Sound, Held, Kept, Files
<1>7. FlushSound'
  BY <1>1 DEF FlushSound, Flushing
<1>8. MergeSound'
  BY <1>2, <1>3 DEF Sound, MergeSound, Edit, Numbers
<1> QED
  BY <1>4, <1>5, <1>6, <1>7, <1>8 DEF Sound

(* The output is in the current version, and the inputs go unless readers  *)
(* hold them.                                                              *)
LEMMA InstallMergeSound ==
  ASSUME Sound, InstallMerge
  PROVE  Sound'
<1> USE DEF InstallMerge
<1> DEFINE v == Applied(version, merge.edit)
<1>1. phase = "open" /\ flush = None
  BY DEF Sound, Stages, MergeSound, Flushing
<1>2. Kept(v) /\ Kept(Applied(manifest.version, merge.edit))
  BY AppliedFiles DEF Sound, Held, MergeSound, Kept
<1>3. version' = v /\ manifest'.version = Applied(manifest.version, merge.edit)
  BY DEF Recorded
<1>4. bgError = FALSE => manifest'.version = v
  BY <1>1, <1>3 DEF Sound, Stages, Flushing
<1>5. \/ bgError = TRUE /\ UNCHANGED <<tables, logs>>
      \/ bgError = FALSE /\ DeleteObsoleteFiles(HeldVersions(v, None), pending \ {merge.number}, logNumber)
  BY DEF Sound, Stages, Flushing
<1>6. DOMAIN logs' \subseteq DOMAIN logs
  BY <1>5, DeletionKeeps
<1>7. \A w \in HeldVersions(v, None) : Kept(w) => Files(w) \subseteq DOMAIN tables'
  BY <1>5, DeletionKeeps DEF Kept
<1>8. Numbers'
  BY <1>6 DEF Sound, Numbers, MergeSound, Recorded
<1>9. Stages'
  BY <1>1, <1>3, <1>4 DEF Sound, Stages, Flushing
<1>10. Held'
  <2>1. Kept(version)'
    BY <1>2, <1>3, <1>7 DEF HeldVersions, Kept, Files
  <2>2. Kept(manifest.version)'
    <3>1. CASE bgError = TRUE
      BY <1>2, <1>3, <1>5, <3>1 DEF Kept, Files
    <3>2. CASE bgError = FALSE
      BY <1>3, <1>4, <2>1, <3>2 DEF Kept, Files
    <3> QED
      BY <1>5, <3>1, <3>2
  <2>3. \A r \in Readers : gets'[r] # None => Kept(gets[r].version)'
    BY <1>7 DEF HeldVersions, Reading, Sound, Held, Kept, Files
  <2> QED
    BY <2>1, <2>2, <2>3 DEF Held, Kept, Files
<1>11. FlushSound' /\ MergeSound'
  BY <1>1 DEF FlushSound, MergeSound, Flushing
<1> QED
  BY <1>8, <1>9, <1>10, <1>11 DEF Sound

LEMMA FailMergeSound ==
  ASSUME Sound, FailMerge
  PROVE  Sound'
<1> USE DEF FailMerge
<1>1. phase = "open" /\ flush = None
  BY DEF Sound, Stages, MergeSound, Flushing
<1>2. Kept(Applied(manifest.version, merge.edit))
  BY AppliedFiles DEF Sound, Held, MergeSound, Kept
<1>3. Numbers'
  <2>1. manifest'.next \in Nat
    BY DEF Sound, Numbers, MergeSound, Recorded
  <2>2. pending' \subseteq pending
    OBVIOUS
  <2> QED
    BY <2>1, <2>2 DEF Sound, Numbers
<1>4. Stages'
  BY <1>1 DEF Sound, Stages, Flushing
<1>5. Held'
  <2>1. Kept(manifest.version)'
    BY <1>2 DEF Sound, Held, Kept, Files, Recorded
  <2> QED
    BY <2>1 DEF Sound, Held, Kept, Files
<1>6. FlushSound' /\ MergeSound'
  BY <1>1 DEF FlushSound, MergeSound, Flushing
<1> QED
  BY <1>3, <1>4, <1>5, <1>6 DEF Sound

-----------------------------------------------------------------------------
(* Readers, deaths and recoveries.                                         *)

(* A reader takes a reference to the current version (Version::Ref).       *)
LEMMA BeginGetSound ==
  ASSUME Sound, NEW r \in Readers, BeginGet(r)
  PROVE  Sound'
<1> USE DEF BeginGet, disk
<1>1. Numbers'
  BY DEF Sound, Numbers
<1>2. Stages'
  BY DEF Sound, Stages, FlushFields, Flushing
<1>3. \A x \in Readers : gets'[x] # None => Kept(gets'[x].version)
  BY DEF Sound, Stages, Held, Flushing
<1>4. Held'
  BY <1>3 DEF Sound, Held, Kept, Files
<1>5. FlushSound' /\ MergeSound'
  BY DEF Sound, FlushSound, MergeSound, Flushing
<1> QED
  BY <1>1, <1>2, <1>4, <1>5 DEF Sound

LEMMA EndGetSound ==
  ASSUME Sound, NEW r \in Readers, EndGet(r)
  PROVE  Sound'
<1> USE DEF EndGet, disk
<1>1. Numbers'
  BY DEF Sound, Numbers
<1>2. DOMAIN gets' = Readers /\ \A x \in Readers : gets'[x] # None => gets'[x] = gets[x]
  BY DEF Sound, Stages, Flushing
<1>3. Stages'
  BY <1>2 DEF Sound, Stages, FlushFields, Flushing
<1>4. Held'
  BY <1>2 DEF Sound, Held, Kept, Files
<1>5. FlushSound' /\ MergeSound'
  BY DEF Sound, FlushSound, MergeSound, Flushing
<1> QED
  BY <1>1, <1>3, <1>4, <1>5 DEF Sound

(* Whatever was left of the MANIFEST's last record, what it names is there. *)
LEMMA DeathSound ==
  ASSUME Sound, Forget, manifest' \in ManifestAfterDeath, UNCHANGED tables,
         DOMAIN logs' = DOMAIN logs
  PROVE  Sound'
<1> USE DEF Forget
<1>1. manifest'.next \in Nat /\ Kept(manifest'.version)
  <2>1. CASE manifest' = manifest
    BY <2>1 DEF Sound, Numbers, Held
  <2>2. CASE flush # None /\ flush.edit # None /\ manifest' = Recorded(manifest, flush.edit)
    <3>1. flush.step \in {"apply", "recover"}
      BY <2>2 DEF Sound, Stages, FlushSound, Flushing
    <3>2. manifest'.next = flush.edit.next /\ manifest'.version = Applied(manifest.version, flush.edit)
      BY <2>2 DEF Recorded
    <3> QED
      BY <2>2, <3>1, <3>2, AppliedFiles DEF Sound, FlushSound, Held, Kept, Flushing
  <2>3. CASE merge # None /\ merge.edit # None /\ manifest' = Recorded(manifest, merge.edit)
    <3>1. merge.step = "apply"
      BY <2>3 DEF Sound, MergeSound
    <3>2. manifest'.next = merge.edit.next /\ manifest'.version = Applied(manifest.version, merge.edit)
      BY <2>3 DEF Recorded
    <3> QED
      BY <2>3, <3>1, <3>2, AppliedFiles DEF Sound, MergeSound, Held, Kept
  <2> QED
    BY <2>1, <2>2, <2>3 DEF ManifestAfterDeath
<1>2. Numbers'
  BY <1>1 DEF Sound, Numbers
<1>3. Stages'
  BY DEF Stages, Flushing
<1>4. Held'
  BY <1>1 DEF Held, Kept, Files
<1>5. FlushSound' /\ MergeSound'
  BY DEF FlushSound, MergeSound, Flushing
<1> QED
  BY <1>2, <1>3, <1>4, <1>5 DEF Sound

(* DBImpl::Recover begins with the MANIFEST's version as the current one.  *)
LEMMA StartRecoverySound ==
  ASSUME Sound, StartRecovery
  PROVE  Sound'
<1> USE DEF StartRecovery, disk
<1>1. Numbers'
  BY DEF Sound, Numbers, Stages
<1>2. Stages'
  BY DEF Sound, Stages, FlushFields, Flushing
<1>3. Held'
  BY DEF Sound, Stages, Held, Kept, Files, Flushing
<1>4. FlushSound'
  BY DEF Sound, FlushSound, Numbers, LogsToReplay, Flushing
<1>5. MergeSound'
  BY DEF Sound, Stages, MergeSound, Flushing
<1> QED
  BY <1>1, <1>2, <1>3, <1>4, <1>5 DEF Sound

(* A replay only adds tables, and its edit will name those it added        *)
(* (RecoverLogFile, WriteLevel0Table).                                     *)
LEMMA ReplaySound ==
  ASSUME Sound, phase = "opening", flush.step = "replay",
         UNCHANGED <<group, version, merge, bgError, gets, phase, logs, manifest, pending>>,
         nextFile' \in Nat, nextFile' >= nextFile,
         DOMAIN tables \subseteq DOMAIN tables',
         DOMAIN flush' = DOMAIN flush,
         flush'.step = "replay", flush'.edit = flush.edit,
         flush'.left \subseteq flush.left, flush'.made \subseteq DOMAIN tables'
  PROVE  Sound'
<1>1. Numbers'
  BY DEF Sound, Numbers
<1>2. Stages'
  BY DEF Sound, Stages, FlushFields, Flushing
<1>3. Held'
  BY DEF Sound, Held, Kept, Files
<1>4. FlushSound'
  BY DEF Sound, FlushSound, Flushing
<1>5. MergeSound'
  BY DEF Sound, Stages, MergeSound, Flushing
<1> QED
  BY <1>1, <1>2, <1>3, <1>4, <1>5 DEF Sound

LEMMA ReplayRecordSound ==
  ASSUME Sound, NEW n \in DOMAIN logs, ReplayRecord(n)
  PROVE  Sound'
<1> USE DEF ReplayRecord, Replaying
<1> DEFINE entries == flush.entries \union logs[n].recs[flush.read + 1]
           full == Cardinality(entries) > MemLimit
<1>1. FlushFields(flush) /\ flush.made \subseteq DOMAIN tables
  BY DEF Sound, Stages, FlushSound, Flushing
<1>2. nextFile' = IF full THEN nextFile + 1 ELSE nextFile
  OBVIOUS
<1>3. nextFile' \in Nat /\ nextFile' >= nextFile
  BY <1>2 DEF Sound, Numbers
<1>4. DOMAIN tables' = IF full THEN DOMAIN tables \union {nextFile} ELSE DOMAIN tables
  BY DEF WriteLevel0Table, With
<1>5. flush' = [flush EXCEPT !.read = @ + 1,
                             !.entries = IF full THEN {} ELSE entries,
                             !.made = IF full THEN @ \union {nextFile} ELSE @]
  OBVIOUS
<1>6. /\ DOMAIN flush' = DOMAIN flush /\ flush'.step = "replay" /\ flush'.edit = flush.edit
      /\ flush'.left = flush.left /\ flush'.made = IF full THEN flush.made \union {nextFile} ELSE flush.made
  BY <1>1, <1>5 DEF FlushFields
<1> QED
  BY <1>1, <1>3, <1>4, <1>6, ReplaySound

LEMMA FinishReplaySound ==
  ASSUME Sound, NEW n \in DOMAIN logs, FinishReplay(n)
  PROVE  Sound'
<1> USE DEF FinishReplay, Replaying
<1> DEFINE some == flush.entries # {}
           next == IF flush.entries = {} THEN nextFile ELSE nextFile + 1
<1>1. FlushFields(flush) /\ flush.made \subseteq DOMAIN tables
  BY DEF Sound, Stages, FlushSound, Flushing
<1>2. nextFile' = IF next <= n THEN n + 1 ELSE next
  OBVIOUS
<1>3. nextFile' \in Nat /\ nextFile' >= nextFile
  BY <1>2 DEF Sound, Numbers
<1>4. DOMAIN tables' = IF some THEN DOMAIN tables \union {nextFile} ELSE DOMAIN tables
  BY DEF WriteLevel0Table, With
<1>5. flush' = [flush EXCEPT !.left = @ \ {n}, !.read = 0, !.entries = {},
                  !.made = IF flush.entries = {} THEN @ ELSE @ \union {nextFile}]
  OBVIOUS
<1>6. /\ DOMAIN flush' = DOMAIN flush /\ flush'.step = "replay" /\ flush'.edit = flush.edit
      /\ flush'.left = flush.left \ {n}
      /\ flush'.made = IF some THEN flush.made \union {nextFile} ELSE flush.made
  BY <1>1, <1>5 DEF FlushFields
<1> QED
  BY <1>1, <1>3, <1>4, <1>6, ReplaySound

(* The new log gets a number of its own.                                   *)
LEMMA OpenNewLogSound ==
  ASSUME Sound, OpenNewLog
  PROVE  Sound'
<1> USE DEF OpenNewLog
<1>1. flush.made \subseteq DOMAIN tables
  BY DEF Sound, Stages, FlushSound, Flushing
<1>2. Numbers'
  BY DEF Sound, Numbers, With
<1>3. Stages'
  BY DEF Sound, Stages, FlushFields, Flushing
<1>4. Held'
  BY DEF Sound, Held, Kept, Files
<1>5. FlushSound'
  BY <1>1 DEF Sound, FlushSound, Numbers, Flushing
<1>6. MergeSound'
  BY DEF Sound, Stages, MergeSound, Flushing
<1> QED
  BY <1>2, <1>3, <1>4, <1>5, <1>6 DEF Sound

(* The recovery's edit is in the MANIFEST before anything is deleted.      *)
LEMMA FinishOpenSound ==
  ASSUME Sound, FinishOpen
  PROVE  Sound'
<1> USE DEF FinishOpen
<1> DEFINE v == Applied(version, flush.edit)
<1>1. merge = None /\ bgError = FALSE /\ group = None /\ version = manifest.version
  BY DEF Sound, Stages, Flushing
<1>2. Kept(v)
  BY <1>1, AppliedFiles DEF Sound, Held, FlushSound, Kept, Flushing
<1>3. version' = v /\ manifest'.version = v /\ manifest'.next = flush.edit.next
  BY <1>1 DEF Recorded
<1>4. DOMAIN logs' \subseteq DOMAIN logs /\ Files(v) \subseteq DOMAIN tables'
  BY <1>2, DeletionKeeps DEF Kept
<1>5. Numbers'
  BY <1>1, <1>3, <1>4 DEF Sound, Numbers, FlushSound, Flushing
<1>6. Stages'
  BY <1>1, <1>3 DEF Sound, Stages, Flushing
<1>7. Held'
  BY <1>1, <1>3, <1>4 DEF Sound, Stages, Held, Kept, Files, Flushing
<1>8. FlushSound' /\ MergeSound'
  BY <1>1 DEF FlushSound, MergeSound, Flushing
<1> QED
  BY <1>5, <1>6, <1>7, <1>8 DEF Sound

-----------------------------------------------------------------------------
(* The theorem.                                                            *)

LEMMA InitSound == Init => Sound
<1> SUFFICES ASSUME Init PROVE Sound
  OBVIOUS
<1> USE DEF Init
<1>1. DOMAIN logs = {3}
  OBVIOUS
<1>2. Numbers
  BY <1>1 DEF Numbers
<1>3. Stages
  BY DEF Stages, Flushing
<1>4. Held
  <2>1. Files(version) = {} /\ Files(manifest.version) = {}
    BY DEF Files
  <2> QED
    BY <2>1 DEF Held, Kept
<1>5. FlushSound /\ MergeSound
  BY DEF FlushSound, MergeSound, Flushing
<1> QED
  BY <1>2, <1>3, <1>4, <1>5 DEF Sound

LEMMA StepSound == Sound /\ [Next]_vars => Sound'
<1> SUFFICES ASSUME Sound, [Next]_vars PROVE Sound'
  OBVIOUS
<1> USE DEF Rest, disk
<1>0. /\ DOMAIN logs \subseteq Nat
      /\ phase # "open" => group = None
  BY DEF Sound, Numbers, Stages, Flushing
<1>1. CASE ClientStep
  <2>1. ASSUME NEW w \in Writers, Enqueue(w) PROVE Sound'
    BY <1>0, <2>1, WritersSound DEF Enqueue
  <2>2. ASSUME NEW r \in Readers, GetSnapshot(r) \/ ReleaseSnapshot(r) PROVE Sound'
    BY <1>0, <2>2, WritersSound DEF GetSnapshot, ReleaseSnapshot
  <2>3. ASSUME NEW r \in Readers, BeginGet(r) PROVE Sound'
    BY <2>3, BeginGetSound
  <2> QED
    BY <1>1, <2>1, <2>2, <2>3 DEF ClientStep
<1>2. CASE WriterStep
  <2>1. CASE YieldError
    BY <1>0, <2>1, WritersSound DEF YieldError
  <2>2. CASE WriteInPlace
    BY <1>0, <2>2, WritersSound DEF WriteInPlace, FrontReady
  <2>3. CASE SwitchMemTable
    BY <2>3, SwitchMemTableSound
  <2>4. CASE NoNewLog
    BY <1>0, <2>4, WritersSound DEF NoNewLog
  <2>5. CASE AddRecord
    <3>1. DOMAIN logs' = DOMAIN logs
      BY <2>5 DEF AddRecord
    <3> QED
      BY <1>0, <2>5, <3>1, WritersSound DEF AddRecord
  <2>6. CASE SyncLog
    <3>1. DOMAIN logs' = DOMAIN logs
      BY <2>6 DEF SyncLog
    <3> QED
      BY <1>0, <2>6, <3>1, WritersSound DEF SyncLog
  <2>7. CASE InsertIntoMem
    BY <1>0, <2>7, WritersSound DEF InsertIntoMem
  <2>8. CASE FinishWrite
    <3>1. bgError' = bgError \/ (phase = "open" /\ bgError' = TRUE)
      BY <1>0, <2>8 DEF FinishWrite, Sound, Stages
    <3> QED
      BY <1>0, <2>8, <3>1, WritersSound DEF FinishWrite
  <2> QED
    BY <1>2, <2>1, <2>2, <2>3, <2>4, <2>5, <2>6, <2>7, <2>8 DEF WriterStep
<1>3. CASE BackgroundStep
  <2>1. CASE IdleCall
    BY <1>0, <2>1, WritersSound DEF IdleCall
  <2> QED
    BY <1>3, <2>1, StartFlushSound, BuildTableSound, InstallFlushSound, FailFlushSound,
       StartMergeSound, OpenCompactionOutputFileSound, FinishMergeSound, InstallMergeSound,
       FailMergeSound DEF BackgroundStep
<1>4. CASE OpenStep
  BY <1>4, StartRecoverySound, OpenNewLogSound, FinishOpenSound, ReplayRecordSound,
     FinishReplaySound DEF OpenStep
<1>5. CASE ProcessDies
  <2>1. DOMAIN logs' = DOMAIN logs
    BY <1>5 DEF ProcessDies
  <2> QED
    BY <1>5, <2>1, DeathSound DEF ProcessDies
<1>6. CASE MachineDies
  <2>1. DOMAIN logs' = DOMAIN logs
    BY <1>6 DEF MachineDies
  <2> QED
    BY <1>6, <2>1, DeathSound DEF MachineDies
<1>7. CASE UNCHANGED vars
  BY <1>0, <1>7, WritersSound DEF vars, memory
<1> QED
  BY <1>1, <1>2, <1>3, <1>4, <1>5, <1>6, <1>7, EndGetSound DEF Next

(* No table that the current version, a reader's version, the running      *)
(* compaction or the MANIFEST names is ever deleted, whatever fails and    *)
(* whoever dies (DBImpl::DeleteObsoleteFiles, VersionSet::AddLiveFiles,    *)
(* pending_outputs_).                                                      *)
THEOREM TablesAreKept == Spec => []NeededTablesExist
<1>1. Sound => NeededTablesExist
  BY DEF Sound, Held, NeededTablesExist, HeldVersions, Reading, Kept
<1> QED
  BY <1>1, InitSound, StepSound, PTL DEF Spec

-----------------------------------------------------------------------------
(* Numbers, and the sequence of a batch's keys.                            *)

(* A set of natural numbers has a least one.                               *)
LEMMA LeastNumber ==
  ASSUME NEW S \in SUBSET Nat, S # {}
  PROVE  \E m \in S : \A n \in S : m <= n
<1>1. IsWellFoundedOn(OpToRel(<, Nat), Nat)
  BY NatLessThanWellFounded
<1>2. PICK m \in S : \A n \in S : ~(<<n, m>> \in OpToRel(<, Nat))
  BY <1>1, WFMin
<1>3. \A n \in S : ~(n < m)
  <2> SUFFICES ASSUME NEW n \in S, n < m PROVE FALSE
    OBVIOUS
  <2>1. <<n, m>> \in {ss \in Nat \X Nat : ss[1] < ss[2]}
    OBVIOUS
  <2> QED
    BY <1>2, <2>1 DEF OpToRel
<1> QED
  BY <1>3

(* A bounded one has a greatest, which Max finds.                          *)
LEMMA Greatest ==
  ASSUME NEW S \in SUBSET Nat, S # {}, NEW b \in Nat, \A n \in S : n <= b
  PROVE  Max(S) \in S /\ \A n \in S : n <= Max(S)
<1> DEFINE U == {u \in Nat : \A n \in S : n <= u}
<1>1. PICK u \in U : \A x \in U : u <= x
  <2>1. b \in U /\ U \in SUBSET Nat
    OBVIOUS
  <2> HIDE DEF U
  <2> QED
    BY <2>1, LeastNumber
<1>2. u \in S
  <2> SUFFICES ASSUME u \notin S PROVE FALSE
    OBVIOUS
  <2>1. \A n \in S : n <= u - 1
    OBVIOUS
  <2>2. u - 1 \in Nat
    <3>1. PICK n \in S : TRUE
      OBVIOUS
    <3>2. n \in Nat /\ n <= u - 1 /\ u \in Nat
      BY <2>1
    <3> QED
      BY <3>2
  <2>3. u - 1 \in U
    BY <2>1, <2>2
  <2> QED
    BY <1>1, <2>3
<1>3. \A n \in S : u >= n
  BY <1>1
<1>4. \E x \in S : \A y \in S : x >= y
  BY <1>2, <1>3
<1>5. Max(S) \in S /\ \A y \in S : Max(S) >= y
  BY <1>4 DEF Max
<1> QED
  BY <1>5

(* The sequence of a batch's keys.                                         *)
LEMMA SetAsSequence ==
  ASSUME NEW S, IsFiniteSet(S), S # {}
  PROVE  SetToSeq(S) \in Seq(S) /\ Len(SetToSeq(S)) >= 1
<1>1. Cardinality(S) \in Nat /\ Cardinality(S) # 0
  BY FS_CardinalityType, FS_EmptySet
<1>2. PICK f : f \in Bijection(1..Cardinality(S), S)
  BY FS_CardinalityType DEF ExistsBijection
<1>3. f \in [1..Cardinality(S) -> S] /\ IsInjective(f)
  BY <1>2 DEF Bijection, Injection, IsInjective
<1>4. SetToSeq(S) \in [1..Cardinality(S) -> S]
  BY <1>3 DEF SetToSeq
<1> QED
  BY <1>1, <1>4

(* What one element after the other adds to a sequence, up to the k-th.    *)
Flattens(g, s, k) ==
  \A i \in 1..k : g[i] = IF i = 1 THEN s[i] ELSE g[i - 1] \o s[i]

(* There is such a flattening.                                             *)
LEMMA SomethingFlattens ==
  ASSUME NEW R, NEW s \in Seq(Seq(R)), NEW N \in Nat, N <= Len(s)
  PROVE  \E g \in [1..N -> Seq(R)] : Flattens(g, s, N)
<1> DEFINE Bad == {k \in Nat : k <= Len(s) /\ ~ \E g \in [1..k -> Seq(R)] : Flattens(g, s, k)}
<1>1. CASE Bad = {}
  BY <1>1
<1>2. CASE Bad # {}
  <2>1. PICK m \in Bad : \A k \in Bad : m <= k
    <3>1. Bad \in SUBSET Nat
      OBVIOUS
    <3> HIDE DEF Bad
    <3> QED
      BY <1>2, <3>1, LeastNumber
  <2>2. m \in Nat /\ m <= Len(s) /\ ~ \E g \in [1..m -> Seq(R)] : Flattens(g, s, m)
    OBVIOUS
  <2>3. m # 0
    <3> SUFFICES ASSUME m = 0 PROVE FALSE
      OBVIOUS
    <3>1. [i \in 1..0 |-> <<>>] \in [1..m -> Seq(R)] /\ Flattens([i \in 1..0 |-> <<>>], s, m)
      BY DEF Flattens
    <3> QED
      BY <2>2, <3>1
  <2>4. m - 1 \in Nat /\ m - 1 <= Len(s) /\ ~(m <= m - 1)
    BY <2>2, <2>3
  <2>9. m - 1 \notin Bad
    <3> HIDE DEF Bad
    <3> QED
      BY <2>1, <2>4
  <2>5. PICK g \in [1..m - 1 -> Seq(R)] : Flattens(g, s, m - 1)
    BY <2>4, <2>9
  <2> HIDE DEF Bad
  <2>6. s[m] \in Seq(R) /\ \A i \in 1..m : s[i] \in Seq(R)
    BY <2>2, <2>3
  <2> DEFINE h == [i \in 1..m |-> IF i < m THEN g[i] ELSE IF m = 1 THEN s[m] ELSE g[m - 1] \o s[m]]
  <2>7. h \in [1..m -> Seq(R)]
    <3>1. m # 1 => g[m - 1] \in Seq(R)
      BY <2>2, <2>3
    <3>2. m # 1 => g[m - 1] \o s[m] \in Seq(R)
      BY <2>6, <3>1, ConcatProperties
    <3>3. \A i \in 1..m : i < m => g[i] \in Seq(R)
      BY <2>2
    <3> QED
      BY <2>6, <3>2, <3>3
  <2>8. Flattens(h, s, m)
    <3> SUFFICES ASSUME NEW i \in 1..m
                 PROVE  h[i] = IF i = 1 THEN s[i] ELSE h[i - 1] \o s[i]
      BY DEF Flattens
    <3>1. CASE i = m
      <4>1. h[i] = IF m = 1 THEN s[m] ELSE g[m - 1] \o s[m]
        BY <3>1
      <4>2. m # 1 => h[m - 1] = g[m - 1]
        BY <2>2, <2>3
      <4> QED
        BY <3>1, <4>1, <4>2
    <3>2. CASE i # m
      <4>1. i \in 1..m - 1 /\ i < m /\ h[i] = g[i]
        BY <2>2, <3>2
      <4>2. i # 1 => h[i - 1] = g[i - 1]
        BY <2>2, <4>1
      <4> QED
        BY <2>5, <4>1, <4>2 DEF Flattens
    <3> QED
      BY <3>1, <3>2
  <2> QED
    BY <2>2, <2>7, <2>8
<1> QED
  BY <1>1, <1>2

(* Flattening gives a sequence at least as long as the first part.         *)
LEMMA Flattened ==
  ASSUME NEW R, NEW s \in Seq(Seq(R)), Len(s) >= 1
  PROVE  FlattenSeq(s) \in Seq(R) /\ Len(FlattenSeq(s)) >= Len(s[1])
<1> DEFINE N == Len(s)
           F(f) == [i \in 1..N |-> IF i = 1 THEN s[i] ELSE f[i - 1] \o s[i]]
           h == CHOOSE f : f = F(f)
<1>1. N \in Nat /\ N # 0 /\ \A i \in 1..N : s[i] \in Seq(R)
  OBVIOUS
<1>2. \E f : f = F(f)
  <2>3. N <= Len(s) /\ N \in Nat
    OBVIOUS
  <2>1. PICK g \in [1..N -> Seq(R)] : Flattens(g, s, N)
    <3> HIDE DEF N
    <3> QED
      BY <2>3, SomethingFlattens
  <2>2. g = F(g)
    BY <2>1 DEF Flattens
  <2> QED
    BY <2>2
<1>3. h = F(h)
  <2> HIDE DEF F
  <2> QED
    BY <1>2
<1>4. FlattenSeq(s) = h[N]
  BY <1>1 DEF FlattenSeq
<1> HIDE DEF h
<1>5. Flattens(h, s, N)
  BY <1>3 DEF Flattens
<1> HIDE DEF N
<1> DEFINE Good(i) == h[i] \in Seq(R) /\ Len(h[i]) >= Len(s[1])
           Bad == {k \in 1..N : ~Good(k)}
<1>6. CASE Bad = {}
  <2>1. N \in 1..N
    BY <1>1
  <2>2. Good(N)
    BY <2>1, <1>6
  <2> QED
    BY <2>2, <1>4
<1>7. CASE Bad # {}
  <2>1. PICK m \in Bad : \A k \in Bad : m <= k
    <3>1. Bad \in SUBSET Nat
      BY <1>1
    <3> HIDE DEF Bad
    <3> QED
      BY <1>7, <3>1, LeastNumber
  <2>2. m \in 1..N /\ ~Good(m)
    OBVIOUS
  <2>3. 1 \in 1..N /\ s[1] \in Seq(R) /\ s[m] \in Seq(R)
    BY <1>1, <2>2
  <2>4. CASE m = 1
    BY <1>5, <2>2, <2>3, <2>4 DEF Flattens
  <2>5. CASE m # 1
    <3>1. m - 1 \in 1..N /\ ~(m <= m - 1)
      BY <1>1, <2>2, <2>5
    <3>6. m - 1 \notin Bad
      <4> HIDE DEF Bad
      <4> QED
        BY <2>1, <3>1
    <3>2. Good(m - 1)
      BY <3>1, <3>6
    <3>3. h[m] = h[m - 1] \o s[m]
      BY <1>5, <2>2, <2>5 DEF Flattens
    <3>4. h[m] \in Seq(R) /\ Len(h[m]) = Len(h[m - 1]) + Len(s[m])
      BY <2>3, <3>2, <3>3, ConcatProperties
    <3>5. Len(s[m]) \in Nat /\ Len(s[1]) \in Nat /\ Len(h[m - 1]) \in Nat
      BY <2>3, <3>2
    <3>7. Len(h[m - 1]) >= Len(s[1])
      BY <3>2
    <3>8. Len(h[m]) >= Len(s[1])
      <4>1. ASSUME NEW x \in Nat, NEW y \in Nat, NEW z \in Nat, y >= z PROVE y + x >= z
        BY <4>1
      <4>2. Len(h[m - 1]) + Len(s[m]) >= Len(s[1])
        BY <3>5, <3>7, <4>1
      <4> QED
        BY <3>4, <4>2
    <3>9. Good(m)
      BY <3>4, <3>8
    <3> QED
      BY <2>2, <3>9
  <2> QED
    BY <2>4, <2>5
<1> QED
  BY <1>6, <1>7

-----------------------------------------------------------------------------
(* The second invariant: the calls of Write, the queue and the group       *)
(* commit.                                                                 *)

(* The calls of Write, the queue and what they have used of their bound.   *)
Bounds == {"writes", "faults", "crashes", "losses"}

Call(c) == c.id \in 1..MaxWrites /\ c.batch \in Batches \union {<<>>} /\ c.sync \in BOOLEAN

Calls ==
  /\ spent \in [Bounds -> Nat] /\ spent.writes <= MaxWrites
  /\ DOMAIN op = Writers /\ \A w \in Writers : op[w] # None => Call(op[w])
  /\ writers \in Seq(Writers) /\ IsInjective(writers)
  /\ ToSet(writers) = {w \in Writers : op[w] # None}

(* A group is a prefix of the queue, and no member of a group whose leader *)
(* does not sync asked for it; its entries are numbered from lastSeq on.   *)
Entry == [key : Keys, seq : Nat, val : Nat]

Groups == [step : {"log", "sync", "insert", "end", "syncError"}, members : Seq(Writers),
           entries : Seq(Entry), inserted : Nat, ok : BOOLEAN]

Members ==
  \E k \in 1..Len(writers) :
    /\ group.members = SubSeq(writers, 1, k)
    /\ \A i \in 1..k : op[writers[i]].sync => op[writers[1]].sync

NewEntries(es) ==
  /\ es \in Seq(Entry) /\ Len(es) >= 1
  /\ \A i \in 1..Len(es) : es[i].seq = lastSeq + i

Progress ==
  /\ group.step \in {"log", "sync", "insert"} => group.ok = TRUE /\ group.inserted < Len(group.entries)
  /\ group.step \in {"log", "sync"} => group.inserted = 0
  /\ group.step = "syncError" => group.ok = FALSE

Group == group # None => group \in Groups /\ Members /\ NewEntries(group.entries) /\ Progress

Queue == Calls /\ Group

-----------------------------------------------------------------------------

(* The batches are sequences of keys.                                      *)
LEMMA BatchIsSequence ==
  ASSUME NEW b \in Batches \union {<<>>}
  PROVE  b \in Seq(Keys) /\ (b # <<>> => Len(b) >= 1)
<1>1. CASE b = <<>>
  BY <1>1
<1>2. CASE b \in Batches
  <2>1. PICK S \in SUBSET Keys : IsFiniteSet(S) /\ S # {} /\ b = SetToSeq(S)
    BY <1>2 DEF Batches
  <2>2. b \in Seq(S) /\ Len(b) >= 1
    BY <2>1, SetAsSequence
  <2>3. Seq(S) \subseteq Seq(Keys)
    BY <2>1, SeqMonotonic
  <2> QED
    BY <2>2, <2>3
<1> QED
  BY <1>1, <1>2

(* The front of the queue always fits, so there is a longest group.        *)
LEMMA GroupIsPrefix ==
  ASSUME Calls, writers # <<>>
  PROVE  \E k \in 1..Len(writers) :
           /\ BuildBatchGroup = SubSeq(writers, 1, k)
           /\ \A i \in 1..k : op[writers[i]].sync => op[writers[1]].sync
<1> DEFINE N == Len(writers)
           Fit(n) == \A m \in 1..n : GroupFits(m)
           Unfit == {n \in 1..N : ~GroupFits(n)}
           Best(n) == Fit(n) /\ (n < N => ~GroupFits(n + 1))
<1>1. N \in Nat /\ N >= 1
  BY DEF Calls
<1> HIDE DEF N
<1>2. GroupFits(1)
  <2>1. \A i \in 2..1 : FALSE
    OBVIOUS
  <2> QED
    BY <2>1, Zenon DEF GroupFits
<1>3. \E n \in 1..N : Best(n)
  <2>1. CASE Unfit = {}
    <3>1. Best(N)
      BY <1>1, <2>1
    <3> QED
      BY <1>1, <3>1
  <2>2. CASE Unfit # {}
    <3>1. Unfit \in SUBSET Nat
      BY <1>1
    <3>2. PICK u \in Unfit : \A n \in Unfit : u <= n
      <4> HIDE DEF Unfit
      <4> QED
        BY <2>2, <3>1, LeastNumber
    <3>3. u \in 1..N /\ ~GroupFits(u)
      OBVIOUS
    <3>4. u # 1
      BY <1>2, <3>3
    <3>5. u - 1 \in 1..N /\ u - 1 + 1 = u
      BY <1>1, <3>3, <3>4
    <3>6. ASSUME NEW m \in 1..u - 1 PROVE GroupFits(m)
      <4>1. m \in 1..N /\ ~(u <= m)
        BY <1>1, <3>3
      <4>2. m \notin Unfit
        <5> HIDE DEF Unfit
        <5> QED
          BY <3>2, <4>1
      <4> QED
        BY <4>1, <4>2
    <3>7. Best(u - 1)
      BY <3>3, <3>5, <3>6
    <3> QED
      BY <3>5, <3>7
  <2> QED
    BY <2>1, <2>2
<1> DEFINE k == CHOOSE n \in 1..N : Best(n)
<1>4. k \in 1..N /\ Best(k)
  <2> HIDE DEF Best
  <2> QED
    BY <1>3
<1>5. BuildBatchGroup = SubSeq(writers, 1, k)
  BY DEF BuildBatchGroup, N
<1> HIDE DEF k
<1>6. GroupFits(k)
  BY <1>1, <1>4
<1>7. \A i \in 1..k : op[writers[i]].sync => op[writers[1]].sync
  <2>1. writers \in Seq(Writers) /\ k \in 1..Len(writers)
    BY <1>4 DEF Calls, N
  <2>2. \A i \in 1..k : SubSeq(writers, 1, k)[i] = writers[i]
    BY <2>1
  <2>3. \A i \in 2..k : op[SubSeq(writers, 1, k)[i]].sync => op[SubSeq(writers, 1, k)[1]].sync
    BY <1>6 DEF GroupFits
  <2>4. \A i \in 2..k : op[writers[i]].sync => op[writers[1]].sync
    BY <1>1, <1>4, <2>2, <2>3
  <2>5. \A i \in 1..k : i = 1 \/ i \in 2..k
    BY <1>1, <1>4
  <2> QED
    BY <2>4, <2>5
<1> QED
  BY <1>4, <1>5, <1>7 DEF N

(* The entries a group writes.                                             *)
LEMMA NumberedEntries ==
  ASSUME Calls, lastSeq \in Nat, NEW k \in 1..Len(writers), op[writers[1]].batch # <<>>
  PROVE  NewEntries(Numbered(SubSeq(writers, 1, k), lastSeq))
<1> DEFINE q == SubSeq(writers, 1, k)
           part(i) == [j \in DOMAIN op[q[i]].batch |-> [key |-> op[q[i]].batch[j], val |-> op[q[i]].id]]
           parts == [i \in DOMAIN q |-> part(i)]
           R == [key : Keys, val : Nat]
           updates == FlattenSeq(parts)
<1>1. /\ writers \in Seq(Writers) /\ q \in Seq(Writers) /\ DOMAIN q = 1..k /\ Len(q) = k /\ k \in Nat /\ k >= 1
      /\ \A i \in 1..k : q[i] = writers[i] /\ writers[i] \in ToSet(writers)
  BY DEF Calls, ToSet
<1>2. \A i \in 1..k : op[q[i]].batch \in Seq(Keys) /\ (op[q[i]].batch # <<>> => Len(op[q[i]].batch) >= 1)
  <2> SUFFICES ASSUME NEW i \in 1..k
               PROVE op[writers[i]].batch \in Seq(Keys) /\ (op[writers[i]].batch # <<>> => Len(op[writers[i]].batch) >= 1)
    BY <1>1
  <2>1. Call(op[writers[i]])
    BY <1>1 DEF Calls
  <2> QED
    BY <2>1, BatchIsSequence DEF Call
<1> HIDE DEF q
<1>3. \A i \in 1..k : part(i) \in Seq(R) /\ Len(part(i)) = Len(op[q[i]].batch)
  <2> SUFFICES ASSUME NEW i \in 1..k PROVE part(i) \in Seq(R) /\ Len(part(i)) = Len(op[q[i]].batch)
    OBVIOUS
  <2>1. DOMAIN op[q[i]].batch = 1..Len(op[q[i]].batch) /\ Len(op[q[i]].batch) \in Nat
    BY <1>2
  <2>4. op[q[i]].id \in Nat
    <3>1. Call(op[writers[i]])
      BY <1>1 DEF Calls
    <3> QED
      BY <1>1, <3>1, BoundsAssumption DEF Call
  <2>2. \A j \in DOMAIN op[q[i]].batch : part(i)[j] \in R
    BY <1>2, <2>1, <2>4
  <2>3. part(i) \in [1..Len(op[q[i]].batch) -> R]
    BY <2>1, <2>2
  <2> HIDE DEF part, R
  <2> QED
    BY <2>1, <2>3
<1>4. parts \in Seq(Seq(R)) /\ Len(parts) = k /\ parts[1] = part(1)
  <2> HIDE DEF part, R
  <2> QED
    BY <1>1, <1>3
<1>5. updates \in Seq(R) /\ Len(updates) >= Len(parts[1])
  <2> HIDE DEF parts, R
  <2> QED
    BY <1>1, <1>4, Flattened
<1>6. Len(parts[1]) >= 1
  <2>1. 1 \in 1..k /\ op[q[1]].batch # <<>>
    BY <1>1
  <2> HIDE DEF part
  <2> QED
    BY <1>2, <1>3, <1>4, <2>1
<1> DEFINE es == [i \in DOMAIN updates |-> [key |-> updates[i].key, seq |-> lastSeq + i, val |-> updates[i].val]]
<1>7. Numbered(SubSeq(writers, 1, k), lastSeq) = es
  BY DEF Numbered, q
<1> HIDE DEF updates, parts, R
<1>8. Len(updates) \in Nat /\ Len(updates) >= 1 /\ DOMAIN updates = 1..Len(updates)
  <2>1. Len(updates) \in Nat /\ DOMAIN updates = 1..Len(updates)
    BY <1>5
  <2>2. Len(parts[1]) \in Nat
    <3>1. 1 \in 1..k
      BY <1>1
    <3> QED
      BY <1>2, <1>3, <1>4, <3>1
  <2> QED
    BY <2>1, <2>2, <1>5, <1>6
<1>9. es \in Seq(Entry) /\ Len(es) = Len(updates)
  <2>1. \A i \in 1..Len(updates) : es[i] \in Entry
    <3> SUFFICES ASSUME NEW i \in 1..Len(updates) PROVE es[i] \in Entry
      OBVIOUS
    <3>1. updates[i] \in [key : Keys, val : Nat]
      <4>1. updates[i] \in R
        BY <1>5, <1>8
      <4> QED
        BY <4>1 DEF R
    <3>2. i \in DOMAIN updates /\ lastSeq + i \in Nat
      BY <1>8
    <3>3. es[i] = [key |-> updates[i].key, seq |-> lastSeq + i, val |-> updates[i].val]
      BY <3>2
    <3> QED
      BY <3>1, <3>2, <3>3 DEF Entry
  <2>2. DOMAIN es = 1..Len(updates) /\ es = [i \in 1..Len(updates) |-> es[i]]
    BY <1>8
  <2> HIDE DEF es
  <2>3. es \in [1..Len(updates) -> Entry]
    BY <2>1, <2>2
  <2> QED
    BY <1>8, <2>3
<1>10. \A i \in 1..Len(es) : es[i].seq = lastSeq + i
  BY <1>8, <1>9
<1> HIDE DEF es
<1> QED
  BY <1>7, <1>8, <1>9, <1>10 DEF NewEntries

(* What a step may spend besides calls of Write.                           *)
Spent ==
  /\ spent \in [Bounds -> Nat] /\ spent' \in [Bounds -> Nat]
  /\ spent'.writes = spent.writes

(* A fault or a death spends nothing that is for writes.                   *)
LEMMA Spending ==
  ASSUME Calls, NEW x \in {"faults", "crashes", "losses"}, Spend(x) \/ UNCHANGED spent
  PROVE  Spent
BY DEF Calls, Spend, Spent, Bounds

(* A call joins the queue (Write, writers_.push_back).                     *)
LEMMA EnqueueQueue ==
  ASSUME Queue, NEW w \in Writers, Enqueue(w)
  PROVE  Queue'
<1> USE DEF Enqueue, Queue
<1>1. PICK c : /\ op' = [op EXCEPT ![w] = c] /\ Call(c)
               /\ c \in [id : Nat, batch : Seq(Keys), sync : BOOLEAN]
  <2>1. PICK b \in Batches \union {<<>>}, sync \in BOOLEAN :
          op' = [op EXCEPT ![w] = [id |-> spent.writes + 1, batch |-> b, sync |-> sync]]
    OBVIOUS
  <2>2. b \in Seq(Keys)
    BY BatchIsSequence
  <2>3. spent.writes \in Nat /\ spent.writes + 1 \in 1..MaxWrites /\ spent.writes + 1 \in Nat
    BY BoundsAssumption DEF Calls, Bounds
  <2> DEFINE d == [id |-> spent.writes + 1, batch |-> b, sync |-> sync]
  <2>4. Call(d) /\ d \in [id : Nat, batch : Seq(Keys), sync : BOOLEAN]
    BY <2>2, <2>3 DEF Call
  <2>5. op' = [op EXCEPT ![w] = d]
    BY <2>1
  <2> HIDE DEF d
  <2> QED
    BY <2>4, <2>5
<1>2. c # None
  BY <1>1, NoneAssumption
<1>3. writers \in Seq(Writers) /\ w \notin ToSet(writers) /\ writers' = Append(writers, w)
  BY DEF Calls
<1>4. /\ writers' \in Seq(Writers) /\ Len(writers') = Len(writers) + 1 /\ Len(writers) \in Nat
      /\ writers'[Len(writers) + 1] = w /\ \A i \in 1..Len(writers) : writers'[i] = writers[i]
  BY <1>3
<1>5. \A i \in 1..Len(writers) : writers[i] \in Writers /\ writers[i] # w
  BY <1>3 DEF ToSet
<1>6. \A x \in Writers : op'[x] = IF x = w THEN c ELSE op[x]
  BY <1>1 DEF Calls
<1>7. DOMAIN op' = Writers /\ \A x \in Writers : op'[x] # None => Call(op'[x])
  BY <1>1, <1>6 DEF Calls
<1>8. spent' \in [Bounds -> Nat] /\ spent'.writes <= MaxWrites
  <2>1. spent' = [spent EXCEPT !["writes"] = spent.writes + 1]
    BY DEF Spend
  <2>2. spent.writes \in Nat /\ spent.writes < MaxWrites /\ MaxWrites \in Nat
    BY BoundsAssumption DEF Calls, Bounds
  <2> QED
    BY <2>1, <2>2 DEF Calls, Bounds
<1>9. IsInjective(writers')
  <2> SUFFICES ASSUME NEW i \in 1..Len(writers) + 1, NEW j \in 1..Len(writers) + 1, writers'[i] = writers'[j]
               PROVE  i = j
    BY <1>4 DEF IsInjective
  <2>1. CASE i \in 1..Len(writers) /\ j \in 1..Len(writers)
    <3>1. writers[i] = writers[j] /\ i \in DOMAIN writers /\ j \in DOMAIN writers
      BY <1>3, <1>4, <2>1
    <3> QED
      BY <3>1 DEF Calls, IsInjective
  <2>2. CASE i = Len(writers) + 1 \/ j = Len(writers) + 1
    BY <1>4, <1>5, <2>2
  <2> QED
    BY <1>4, <2>1, <2>2
<1>10. ToSet(writers') = {x \in Writers : op'[x] # None}
  <2>1. ToSet(writers') = ToSet(writers) \union {w}
    <3>1. DOMAIN writers = 1..Len(writers) /\ DOMAIN writers' = 1..Len(writers) + 1
      BY <1>3, <1>4
    <3>2. 1..Len(writers) + 1 = 1..Len(writers) \union {Len(writers) + 1}
      BY <1>4
    <3> QED
      BY <1>4, <3>1, <3>2 DEF ToSet
  <2>2. ToSet(writers) = {x \in Writers : op[x] # None}
    BY DEF Calls
  <2>3. \A x \in Writers : op'[x] # None <=> (op[x] # None \/ x = w)
    BY <1>2, <1>6
  <2> QED
    BY <2>1, <2>2, <2>3
<1>11. Calls'
  BY <1>4, <1>7, <1>8, <1>9, <1>10 DEF Calls
<1>12. Group'
  <2> SUFFICES ASSUME group # None PROVE Group'
    BY DEF Group
  <2>1. group' = group /\ lastSeq' = lastSeq
    OBVIOUS
  <2>2. Members'
    <3>1. PICK k \in 1..Len(writers) :
            /\ group.members = SubSeq(writers, 1, k)
            /\ \A i \in 1..k : op[writers[i]].sync => op[writers[1]].sync
      BY DEF Group, Members
    <3>2. SubSeq(writers', 1, k) = SubSeq(writers, 1, k)
      BY <1>3, <1>4
    <3>3. \A i \in 1..k : writers'[i] = writers[i] /\ op'[writers[i]] = op[writers[i]]
      BY <1>4, <1>5, <1>6
    <3>4. k \in 1..Len(writers') /\ 1 \in 1..k
      BY <1>4
    <3> QED
      BY <2>1, <3>1, <3>2, <3>3, <3>4 DEF Members
  <2> QED
    BY <2>1, <2>2 DEF Group, NewEntries, Progress
<1> QED
  BY <1>11, <1>12

(* The front of the queue is answered and leaves it.                       *)
LEMMA AnswerCalls ==
  ASSUME Calls, NEW k \in 1..Len(writers), Answer(SubSeq(writers, 1, k)), Spent
  PROVE  Calls'
<1> DEFINE q == SubSeq(writers, 1, k)
           N == Len(writers)
<1>1. /\ writers \in Seq(Writers) /\ N \in Nat /\ k \in Nat /\ 1 <= k /\ k <= N
      /\ DOMAIN writers = 1..N
  BY DEF Calls
<1>2. Len(q) = k /\ DOMAIN q = 1..k /\ \A i \in 1..k : q[i] = writers[i]
  BY <1>1
<1>3. op' = [w \in Writers |-> IF w \in ToSet(q) THEN None ELSE op[w]]
  BY DEF Answer
<1>4. writers' = SubSeq(writers, k + 1, N)
  BY <1>2 DEF Answer
<1> HIDE DEF q, N
<1>5. /\ writers' \in Seq(Writers) /\ Len(writers') = N - k
      /\ \A i \in 1..N - k : writers'[i] = writers[k + i]
  <2>1. \A i \in k + 1..N : writers[i] \in Writers
    BY <1>1
  <2> QED
    BY <1>1, <1>4, <2>1
<1>6. IsInjective(writers')
  <2> SUFFICES ASSUME NEW i \in 1..N - k, NEW j \in 1..N - k, writers'[i] = writers'[j]
               PROVE  i = j
    BY <1>5 DEF IsInjective
  <2>1. writers[k + i] = writers[k + j] /\ k + i \in 1..N /\ k + j \in 1..N
    BY <1>1, <1>5
  <2>2. k + i = k + j
    BY <1>1, <2>1 DEF Calls, IsInjective
  <2> QED
    BY <1>1, <2>2
<1>7. ToSet(writers') = ToSet(writers) \ ToSet(q)
  <2>1. ASSUME NEW x \in ToSet(writers') PROVE x \in ToSet(writers) \ ToSet(q)
    <3>1. PICK i \in 1..N - k : x = writers[k + i]
      BY <1>5, <2>1 DEF ToSet
    <3>2. k + i \in 1..N /\ \A j \in 1..k : j \in 1..N /\ j # k + i
      BY <1>1
    <3>3. \A j \in 1..k : writers[j] # x
      BY <1>1, <3>1, <3>2 DEF Calls, IsInjective
    <3> QED
      BY <1>1, <1>2, <3>1, <3>2, <3>3 DEF ToSet
  <2>2. ASSUME NEW x \in ToSet(writers) \ ToSet(q) PROVE x \in ToSet(writers')
    <3>1. PICK i \in 1..N : x = writers[i]
      BY <1>1 DEF ToSet
    <3>2. i \notin 1..k
      BY <1>2, <3>1 DEF ToSet
    <3>3. i - k \in 1..N - k /\ k + (i - k) = i
      BY <1>1, <3>2
    <3>4. DOMAIN writers' = 1..N - k
      BY <1>5
    <3> QED
      BY <1>5, <3>1, <3>3, <3>4 DEF ToSet
  <2> QED
    BY <2>1, <2>2
<1>8. ToSet(writers') = {w \in Writers : op'[w] # None}
  <2>1. ToSet(writers) = {w \in Writers : op[w] # None}
    BY DEF Calls
  <2> QED
    BY <1>3, <1>7, <2>1
<1>9. DOMAIN op' = Writers /\ \A w \in Writers : op'[w] # None => Call(op'[w])
  BY <1>3 DEF Calls
<1> QED
  BY <1>5, <1>6, <1>8, <1>9 DEF Calls, Spent

(* The front of the queue is answered.                                     *)
LEMMA FrontAnswered ==
  ASSUME Calls, writers # <<>>, Answer(<<Head(writers)>>), Spent
  PROVE  Calls'
<1>1. writers \in Seq(Writers) /\ Len(writers) \in Nat /\ Len(writers) >= 1
  BY DEF Calls
<1>2. SubSeq(writers, 1, 1) = <<Head(writers)>>
  <2>1. SubSeq(writers, 1, 1) = [i \in 1..1 |-> writers[i]]
    BY <1>1
  <2>2. <<Head(writers)>> = [i \in 1..1 |-> writers[1]]
    BY <1>1
  <2>3. \A i \in 1..1 : writers[i] = writers[1]
    OBVIOUS
  <2> QED
    BY <2>1, <2>2, <2>3
<1>3. 1 \in 1..Len(writers)
  BY <1>1
<1> QED
  BY <1>2, <1>3, AnswerCalls

(* The front of the queue leads a group.                                   *)
LEMMA LeadQueue ==
  ASSUME Queue, lastSeq \in Nat, FrontReady, Lead, UNCHANGED <<lastSeq, spent>>
  PROVE  Queue'
<1> USE DEF Queue, FrontReady, Lead
<1>1. writers \in Seq(Writers) /\ writers # <<>> /\ Head(writers) = writers[1]
  BY DEF Calls
<1>2. CASE op[Head(writers)].batch = <<>>
  BY <1>2, FrontAnswered DEF Group, Spent, Calls
<1>3. CASE op[Head(writers)].batch # <<>>
  <2>1. UNCHANGED <<op, writers>>
    BY <1>3
  <2>2. group' = [step |-> "log", members |-> BuildBatchGroup,
                  entries |-> Numbered(BuildBatchGroup, lastSeq), inserted |-> 0, ok |-> TRUE]
    BY <1>3
  <2>3. PICK k \in 1..Len(writers) :
           /\ BuildBatchGroup = SubSeq(writers, 1, k)
           /\ \A i \in 1..k : op[writers[i]].sync => op[writers[1]].sync
    BY <1>1, GroupIsPrefix
  <2> DEFINE es == Numbered(BuildBatchGroup, lastSeq)
  <2>4. NewEntries(es)
    BY <1>1, <1>3, <2>3, NumberedEntries
  <2>5. SubSeq(writers, 1, k) \in Seq(Writers)
    BY <1>1
  <2> HIDE DEF es
  <2>6. group' = [step |-> "log", members |-> SubSeq(writers, 1, k), entries |-> es, inserted |-> 0, ok |-> TRUE]
    BY <2>2, <2>3 DEF es
  <2>7. group' \in Groups
    <3>1. es \in Seq(Entry)
      BY <2>4 DEF NewEntries
    <3> QED
      BY <2>5, <2>6, <3>1 DEF Groups
  <2>8. Members'
    BY <2>1, <2>3, <2>6 DEF Members
  <2>9. NewEntries(group.entries)'
    BY <2>4, <2>6 DEF NewEntries
  <2>10. Progress'
    <3>1. Len(es) \in Nat /\ Len(es) >= 1
      BY <2>4 DEF NewEntries
    <3> QED
      BY <2>6, <3>1 DEF Progress
  <2>11. Calls'
    BY <2>1 DEF Calls
  <2> QED
    BY <2>7, <2>8, <2>9, <2>10, <2>11 DEF Group
<1> QED
  BY <1>2, <1>3

(* The group goes on.                                                      *)
LEMMA GroupGoesOn ==
  ASSUME Queue, group # None, UNCHANGED <<op, writers, lastSeq>>, Spent,
         NEW st \in {"log", "sync", "insert", "end", "syncError"}, NEW n \in Nat, NEW ok \in BOOLEAN,
         group' = [group EXCEPT !.step = st, !.inserted = n, !.ok = ok],
         st \in {"log", "sync", "insert"} => ok = TRUE /\ n < Len(group.entries),
         st \in {"log", "sync"} => n = 0,
         st = "syncError" => ok = FALSE
  PROVE  /\ Queue' /\ group' # None
         /\ group'.members = group.members /\ group'.entries = group.entries
         /\ group'.step = st /\ group'.inserted = n /\ group'.ok = ok
<1>1. group \in Groups /\ Members /\ NewEntries(group.entries)
  BY DEF Queue, Group
<1>2. /\ group' \in Groups /\ group'.members = group.members /\ group'.entries = group.entries
      /\ group'.step = st /\ group'.inserted = n /\ group'.ok = ok
  BY <1>1 DEF Groups
<1>3. group' # None
  BY <1>2, NoneAssumption DEF Groups, Entry
<1>4. Group'
  BY <1>1, <1>2 DEF Group, Members, NewEntries, Progress
<1>5. Calls'
  BY DEF Queue, Calls, Spent
<1> QED
  BY <1>2, <1>3, <1>4, <1>5 DEF Queue

(* The updates of a group, each as one of its step, its progress and its   *)
(* result.                                                                 *)
LEMMA Updates ==
  ASSUME NEW g \in Groups, NEW st, NEW n, NEW ok
  PROVE  /\ [g EXCEPT !.step = st] = [g EXCEPT !.step = st, !.inserted = g.inserted, !.ok = g.ok]
         /\ [g EXCEPT !.step = st, !.ok = ok] = [g EXCEPT !.step = st, !.inserted = g.inserted, !.ok = ok]
         /\ [g EXCEPT !.inserted = n, !.step = st] = [g EXCEPT !.step = st, !.inserted = n, !.ok = g.ok]
BY DEF Groups

(* Where the group is after a step of its leader.                          *)
Goes(st, n, ok) ==
  /\ group' # None /\ group'.members = group.members /\ group'.entries = group.entries
  /\ group'.step = st /\ group'.inserted = n /\ group'.ok = ok

LEMMA AddRecordQueue ==
  ASSUME Queue, AddRecord
  PROVE  /\ Queue' /\ group.ok = TRUE /\ group.inserted = 0
         /\ \/ /\ Goes(IF Leader.sync THEN "sync" ELSE "insert", 0, TRUE)
               /\ logs' = [logs EXCEPT ![mem].recs = Append(@, ToSet(group.entries))]
            \/ Goes("end", 0, FALSE) /\ UNCHANGED logs
<1>0. group # None /\ UNCHANGED <<op, writers, lastSeq>>
  BY DEF AddRecord
<1> USE DEF AddRecord
<1>1. group \in Groups /\ group.step = "log" /\ group.inserted = 0 /\ group.ok = TRUE /\ group.inserted < Len(group.entries)
  BY DEF Queue, Group, Progress
<1>2. CASE logs' = [logs EXCEPT ![mem].recs = Append(@, ToSet(group.entries))]
          /\ group' = [group EXCEPT !.step = IF Leader.sync THEN "sync" ELSE "insert"]
          /\ UNCHANGED spent
  <2> DEFINE st == IF Leader.sync THEN "sync" ELSE "insert"
  <2>1. st \in {"log", "sync", "insert", "end", "syncError"} /\ st # "syncError"
    OBVIOUS
  <2> HIDE DEF st
  <2>2. group' = [group EXCEPT !.step = st]
    BY <1>2 DEF st
  <2>3. group' = [group EXCEPT !.step = st, !.inserted = 0, !.ok = TRUE]
    BY <1>1, <2>2, Updates
  <2>4. Spent
    BY <1>2 DEF Spent, Queue, Calls
  <2>6. 0 < Len(group.entries) /\ TRUE \in BOOLEAN /\ 0 \in Nat
    BY <1>1
  <2>5. Queue' /\ Goes(st, 0, TRUE)
    <3> HIDE DEF AddRecord
    <3> QED
      BY <1>0, <2>1, <2>3, <2>4, <2>6, GroupGoesOn, Zenon DEF Goes
  <2> QED
    BY <1>1, <1>2, <2>5 DEF st
<1>3. CASE MayFail /\ Spend("faults") /\ group' = [group EXCEPT !.step = "end", !.ok = FALSE] /\ UNCHANGED logs
  <2>1. group' = [group EXCEPT !.step = "end", !.inserted = 0, !.ok = FALSE]
    BY <1>1, <1>3, Updates
  <2>2. Spent
    BY <1>3, Spending DEF Queue
  <2>3. FALSE \in BOOLEAN /\ 0 \in Nat /\ "end" \notin {"log", "sync", "insert", "syncError"}
    OBVIOUS
  <2>4. Queue' /\ Goes("end", 0, FALSE)
    <3> HIDE DEF AddRecord
    <3> QED
      BY <1>0, <2>1, <2>2, <2>3, GroupGoesOn, Zenon DEF Goes
  <2> QED
    BY <1>1, <1>3, <2>4
<1> QED
  BY <1>2, <1>3

LEMMA SyncLogQueue ==
  ASSUME Queue, SyncLog
  PROVE  /\ Queue' /\ group.ok = TRUE /\ group.inserted = 0
         /\ \/ /\ Goes("insert", 0, TRUE)
               /\ logs' = [logs EXCEPT ![mem].synced = Len(logs[mem].recs)]
            \/ Goes("syncError", 0, FALSE) /\ UNCHANGED logs
<1>0. group # None /\ UNCHANGED <<op, writers, lastSeq>>
  BY DEF SyncLog
<1> USE DEF SyncLog
<1>1. group \in Groups /\ group.step = "sync" /\ group.inserted = 0 /\ group.ok = TRUE /\ group.inserted < Len(group.entries)
  BY DEF Queue, Group, Progress
<1>2. CASE logs' = [logs EXCEPT ![mem].synced = Len(logs[mem].recs)]
          /\ group' = [group EXCEPT !.step = "insert"] /\ UNCHANGED spent
  <2>1. group' = [group EXCEPT !.step = "insert", !.inserted = 0, !.ok = TRUE]
    BY <1>1, <1>2, Updates
  <2>2. Spent
    BY <1>2 DEF Spent, Queue, Calls
  <2>4. 0 < Len(group.entries) /\ TRUE \in BOOLEAN /\ 0 \in Nat /\ "insert" \notin {"log", "sync", "syncError"}
    BY <1>1
  <2>3. Queue' /\ Goes("insert", 0, TRUE)
    <3> HIDE DEF SyncLog
    <3> QED
      BY <1>0, <2>1, <2>2, <2>4, GroupGoesOn, Zenon DEF Goes
  <2> QED
    BY <1>1, <1>2, <2>3
<1>3. CASE MayFail /\ Spend("faults") /\ group' = [group EXCEPT !.step = "syncError", !.ok = FALSE] /\ UNCHANGED logs
  <2>1. group' = [group EXCEPT !.step = "syncError", !.inserted = 0, !.ok = FALSE]
    BY <1>1, <1>3, Updates
  <2>2. Spent
    BY <1>3, Spending DEF Queue
  <2>4. FALSE \in BOOLEAN /\ 0 \in Nat /\ "syncError" \notin {"log", "sync", "insert"}
    OBVIOUS
  <2>3. Queue' /\ Goes("syncError", 0, FALSE)
    <3> HIDE DEF SyncLog
    <3> QED
      BY <1>0, <2>1, <2>2, <2>4, GroupGoesOn, Zenon DEF Goes
  <2> QED
    BY <1>1, <1>3, <2>3
<1> QED
  BY <1>2, <1>3

LEMMA InsertQueue ==
  ASSUME Queue, InsertIntoMem
  PROVE  /\ Queue' /\ group.inserted \in Nat /\ group.inserted + 1 \in 1..Len(group.entries)
         /\ group.ok = TRUE
         /\ Goes(IF group.inserted + 1 = Len(group.entries) THEN "end" ELSE "insert",
                 group.inserted + 1, TRUE)
         /\ memtable' = [memtable EXCEPT ![mem] = @ \union {group.entries[group.inserted + 1]}]
<1> USE DEF InsertIntoMem
<1>1. /\ group \in Groups /\ group.step = "insert" /\ group.inserted \in Nat /\ group.ok = TRUE
      /\ group.inserted < Len(group.entries) /\ Len(group.entries) \in Nat
  BY DEF Queue, Group, Progress, Groups
<1> DEFINE n == group.inserted + 1
           st == IF n = Len(group.entries) THEN "end" ELSE "insert"
<1>2. /\ st \in {"log", "sync", "insert", "end", "syncError"} /\ n \in Nat /\ n \in 1..Len(group.entries)
      /\ st # "syncError" /\ st \notin {"log", "sync"} /\ (st = "insert" => n < Len(group.entries))
  BY <1>1
<1>3. group' = [group EXCEPT !.inserted = n, !.step = st]
  OBVIOUS
<1>5. Spent
  BY DEF Spent, Queue, Calls
<1> HIDE DEF n, st
<1>4. group' = [group EXCEPT !.step = st, !.inserted = n, !.ok = TRUE]
  BY <1>1, <1>3, Updates
<1>6. Queue' /\ Goes(st, n, TRUE)
  BY <1>1, <1>2, <1>4, <1>5, GroupGoesOn DEF Goes
<1> QED
  BY <1>1, <1>2, <1>6 DEF n, st

LEMMA FinishWriteQueue ==
  ASSUME Queue, FinishWrite
  PROVE  Queue'
<1> USE DEF FinishWrite
<1>1. PICK k \in 1..Len(writers) : group.members = SubSeq(writers, 1, k)
  BY DEF Queue, Group, Members
<1>2. Spent
  BY DEF Spent, Queue, Calls
<1>3. Calls'
  BY <1>1, <1>2, AnswerCalls DEF Queue
<1> QED
  BY <1>3 DEF Queue, Group

LEMMA ForgetQueue ==
  ASSUME Queue, Forget, Spent
  PROVE  Queue'
<1>1. /\ DOMAIN op' = Writers /\ \A w \in Writers : op'[w] = None
      /\ writers' = <<>> /\ group' = None
  BY DEF Forget
<1>2. ToSet(writers') = {w \in Writers : op'[w] # None} /\ IsInjective(writers')
  BY <1>1 DEF ToSet, IsInjective
<1> QED
  BY <1>1, <1>2 DEF Queue, Calls, Group, Spent

LEMMA UntouchedQueue ==
  ASSUME Queue, UNCHANGED <<op, writers, group>>, Spent, group = None \/ UNCHANGED lastSeq
  PROVE  Queue'
BY DEF Queue, Calls, Group, Spent, Members, NewEntries, Progress

-----------------------------------------------------------------------------
(* The third invariant: memtables, logs and file numbers.                  *)

(* What is kept where: the memtables, the logs and the file numbers.       *)
Below(S, n) == \A m \in S : m \in Nat /\ m < n

Replays == phase = "opening" /\ flush.step = "replay"
Recovers == phase = "opening" /\ flush.step = "recover"

Memtables ==
  /\ mem \in Nat /\ imm \in Nat /\ DOMAIN memtable = Referenced(mem, imm, gets)
  /\ phase # "open" => imm = 0
  /\ phase = "down" \/ Replays => mem = 0
  /\ phase = "open" \/ Recovers => mem \in DOMAIN logs /\ 0 < mem /\ mem < nextFile /\ imm < mem
  /\ phase = "open" /\ flush # None => imm # 0

LogFile(l) == l \in [recs : Seq(SUBSET Entry), synced : Nat] /\ l.synced <= Len(l.recs)

(* Which logs a recovery would read, and which it has read.                *)
Logs ==
  /\ \A n \in DOMAIN logs : LogFile(logs[n])
  /\ logNumber \in Nat /\ manifest.log \in Nat /\ manifest.log < manifest.next
  /\ phase = "open" =>
       /\ Below(DOMAIN logs, nextFile)
       /\ logNumber <= manifest.log /\ manifest.log <= mem
       /\ bgError = FALSE => logNumber = manifest.log
  /\ phase = "opening" => logNumber = manifest.log
  /\ Replays =>
       /\ flush.left \subseteq LogsToReplay /\ Below(LogsToReplay \ flush.left, nextFile)
       /\ flush.read \in Nat
       /\ flush.left = {} => flush.entries = {}
  /\ Recovers =>
       /\ flush.edit.log = mem /\ logs[mem] = NewLog
       /\ manifest.log <= mem /\ \A n \in LogsToReplay : n <= mem

InUse == Files(version) \union Files(manifest.version) \union (IF merge = None THEN {} ELSE Files(merge.input))

(* The numbers of the tables in use are below the next one, those the      *)
(* MANIFEST names are below the one it records, and the outputs that are   *)
(* being written are not in use.                                           *)
FilesOfEdits ==
  /\ phase = "open" /\ flush # None =>
       /\ Below({flush.number}, nextFile) /\ flush.number \notin InUse
       /\ merge # None /\ merge.step # "open" => flush.number # merge.number
       /\ flush.step = "apply" =>
            /\ flush.edit.add0 \subseteq {flush.number} /\ flush.edit.del = {}
            /\ flush.edit.log = mem /\ mem < flush.edit.next /\ flush.number < flush.edit.next
            /\ manifest.next <= flush.edit.next /\ flush.edit.next <= nextFile
  /\ merge # None /\ merge.step # "open" =>
       Below({merge.number}, nextFile) /\ merge.number \notin InUse
  /\ merge # None /\ merge.step = "apply" =>
       /\ merge.edit.del = Files(merge.input) /\ merge.edit.log = logNumber
       /\ merge.number < merge.edit.next /\ logNumber < merge.edit.next
       /\ manifest.next <= merge.edit.next /\ merge.edit.next <= nextFile

FileNumbers ==
  /\ Below(Files(manifest.version), manifest.next)
  /\ phase # "down" => manifest.next <= nextFile /\ Below(InUse, nextFile)
  /\ Replays => Below(flush.made, nextFile)
  /\ Recovers =>
       /\ flush.edit.next = nextFile /\ Below(flush.edit.add0, nextFile) /\ flush.edit.del = {}
  /\ FilesOfEdits

Places == Memtables /\ Logs /\ FileNumbers

-----------------------------------------------------------------------------

LEMMA UntouchedPlaces ==
  ASSUME Places,
         UNCHANGED <<memtable, mem, imm, nextFile, version, logNumber, flush, merge, gets, phase, logs, manifest>>,
         bgError' = FALSE => bgError = FALSE
  PROVE  Places'
<1>1. Memtables'
  BY DEF Places, Memtables, Referenced, Reading, Replays, Recovers
<1>2. Logs'
  BY DEF Places, Logs, LogFile, LogsToReplay, Replays, Recovers, Below
<1>3. FileNumbers'
  BY DEF Places, FileNumbers, FilesOfEdits, InUse, Files, Replays, Recovers, Below
<1> QED
  BY <1>1, <1>2, <1>3 DEF Places

(* The log is written to, or a memtable.                                   *)
LEMMA WrittenPlaces ==
  ASSUME Places, phase = "open", DOMAIN logs' = DOMAIN logs, DOMAIN memtable' = DOMAIN memtable,
         \A n \in DOMAIN logs : LogFile(logs'[n]),
         UNCHANGED <<mem, imm, nextFile, version, logNumber, flush, merge, gets, phase, manifest, bgError>>
  PROVE  Places'
<1>1. Memtables'
  BY DEF Places, Memtables, Referenced, Reading, Replays, Recovers
<1>2. Logs'
  BY DEF Places, Logs, LogFile, Replays, Recovers, Below
<1>3. FileNumbers'
  BY DEF Places, FileNumbers, FilesOfEdits, InUse, Files, Replays, Recovers, Below
<1> QED
  BY <1>1, <1>2, <1>3 DEF Places

(* The readers change what memtables are referred to.                      *)
LEMMA ReadersPlaces ==
  ASSUME Places, DOMAIN memtable' = Referenced(mem, imm, gets)',
         UNCHANGED <<mem, imm, nextFile, version, logNumber, flush, merge, phase, logs, manifest, bgError>>
  PROVE  Places'
<1>1. Memtables'
  BY DEF Places, Memtables, Replays, Recovers
<1>2. Logs'
  BY DEF Places, Logs, LogFile, LogsToReplay, Replays, Recovers, Below
<1>3. FileNumbers'
  BY DEF Places, FileNumbers, FilesOfEdits, InUse, Files, Replays, Recovers, Below
<1> QED
  BY <1>1, <1>2, <1>3 DEF Places

(* Of the memtables that are referred to, those of the current state.      *)
LEMMA ReferencedTo ==
  ASSUME NEW g, NEW m, NEW i, NEW y
  PROVE  y \in Referenced(m, i, g) <=>
           y # 0 /\ (y \in {m, i} \/ \E x \in Reading(g) : y \in {g[x].mem, g[x].imm})
BY DEF Referenced

LEMMA BeginGetPlaces ==
  ASSUME Sound, Places, NEW r \in Readers, BeginGet(r)
  PROVE  Places'
<1> USE DEF BeginGet
<1>1. DOMAIN gets = Readers
  BY DEF Sound, Stages
<1>2. Referenced(mem, imm, gets') = Referenced(mem, imm, gets)
  <2> DEFINE g == [seq |-> IF snaps[r] = None THEN lastSeq ELSE snaps[r],
                   mem |-> mem, imm |-> imm, version |-> version]
  <2>1. gets' = [gets EXCEPT ![r] = g] /\ g.mem = mem /\ g.imm = imm
    OBVIOUS
  <2> HIDE DEF g
  <2>2. \A x \in Readers : gets'[x] = IF x = r THEN g ELSE gets[x]
    BY <1>1, <2>1
  <2>3. \A x \in Reading(gets) : x \in Reading(gets') /\ gets'[x] = gets[x]
    BY <2>2 DEF Reading
  <2>4. \A x \in Reading(gets') : x = r \/ (x \in Reading(gets) /\ gets'[x] = gets[x])
    BY <2>2 DEF Reading
  <2>5. gets'[r].mem = mem /\ gets'[r].imm = imm
    BY <2>1, <2>2
  <2>6. \A y : (\E x \in Reading(gets') : y \in {gets'[x].mem, gets'[x].imm}) =>
               y \in {mem, imm} \/ \E x \in Reading(gets) : y \in {gets[x].mem, gets[x].imm}
    BY <2>4, <2>5
  <2>7. \A y : (\E x \in Reading(gets) : y \in {gets[x].mem, gets[x].imm}) =>
               \E x \in Reading(gets') : y \in {gets'[x].mem, gets'[x].imm}
    BY <2>3
  <2>8. ASSUME NEW y PROVE y \in Referenced(mem, imm, gets') <=> y \in Referenced(mem, imm, gets)
    <3>1. y \in Referenced(mem, imm, gets) <=>
            y # 0 /\ (y \in {mem, imm} \/ \E x \in Reading(gets) : y \in {gets[x].mem, gets[x].imm})
      BY ReferencedTo
    <3>2. y \in Referenced(mem, imm, gets') <=>
            y # 0 /\ (y \in {mem, imm} \/ \E x \in Reading(gets') : y \in {gets'[x].mem, gets'[x].imm})
      BY DEF Referenced
    <3> QED
      BY <2>6, <2>7, <3>1, <3>2, Zenon
  <2> QED
    BY <2>8
<1>3. DOMAIN memtable' = Referenced(mem, imm, gets)'
  BY <1>2 DEF Places, Memtables
<1> QED
  BY <1>3, ReadersPlaces DEF disk

LEMMA EndGetPlaces ==
  ASSUME Places, NEW r \in Readers, EndGet(r)
  PROVE  Places'
<1>1. DOMAIN memtable' = Referenced(mem, imm, gets)'
  BY DEF EndGet
<1> QED
  BY <1>1, ReadersPlaces DEF EndGet, disk

(* MakeRoomForWrite.                                                       *)
LEMMA SwitchMemTablePlaces ==
  ASSUME Sound, Places, SwitchMemTable
  PROVE  Places'
<1> USE DEF SwitchMemTable
<1>1. phase = "open" /\ imm = 0 /\ bgError = FALSE /\ flush = None /\ nextFile \in Nat /\ mem \in Nat
  BY DEF FrontReady, MaySwitch, Sound, Stages, Numbers, Places, Memtables
<1>2. mem' = nextFile /\ imm' = mem /\ nextFile' = nextFile + 1 /\ 0 < mem /\ mem < nextFile
  BY <1>1 DEF Places, Memtables
<1>3. DOMAIN logs' = DOMAIN logs \union {nextFile} /\ \A n \in DOMAIN logs' : logs'[n] = IF n = nextFile THEN NewLog ELSE logs[n]
  BY DEF With
<1>4. LogFile(NewLog)
  BY DEF LogFile, NewLog
<1>5. Memtables'
  <2>1. DOMAIN memtable' = Referenced(nextFile, mem, gets)
    <3>1. DOMAIN memtable' = Referenced(mem, 0, gets) \union {nextFile}
      BY <1>1 DEF Places, Memtables, With
    <3> QED
      BY <1>1, <1>2, <3>1 DEF Referenced
  <2>2. Referenced(mem', imm', gets') = Referenced(nextFile, mem, gets)
    BY <1>2
  <2> QED
    BY <1>1, <1>2, <1>3, <2>1, <2>2 DEF Places, Memtables, Replays, Recovers
<1>6. Logs'
  <2>1. Below(DOMAIN logs, nextFile)
    BY <1>1 DEF Places, Logs
  <2>2. Below(DOMAIN logs', nextFile')
    BY <1>1, <1>2, <1>3, <2>1 DEF Below
  <2> QED
    BY <1>1, <1>2, <1>3, <1>4, <2>2 DEF Places, Logs, Replays, Recovers
<1>7. FileNumbers'
  <2>1. Below(InUse, nextFile')
    BY <1>1, <1>2 DEF Places, FileNumbers, Below
  <2>2. InUse' = InUse
    BY DEF InUse, Files
  <2>3. manifest.next <= nextFile' /\ manifest.next \in Nat
    BY <1>1, <1>2 DEF Places, FileNumbers, Sound, Numbers
  <2>4. FilesOfEdits'
    BY <1>1, <1>2, <2>2, <2>3 DEF Places, FileNumbers, FilesOfEdits, Below, Sound, MergeSound
  <2>5. Below(Files(manifest.version), manifest.next)'
    BY DEF Places, FileNumbers, Below, Files
  <2> QED
    BY <1>1, <2>1, <2>2, <2>3, <2>4, <2>5 DEF FileNumbers, Replays, Recovers
<1> QED
  BY <1>5, <1>6, <1>7 DEF Places

(* The background thread.                                                  *)
LEMMA StartFlushPlaces ==
  ASSUME Sound, Places, StartFlush
  PROVE  Places'
<1> USE DEF StartFlush
<1>1. /\ phase = "open" /\ imm # 0 /\ nextFile \in Nat /\ nextFile' = nextFile + 1 /\ manifest.next \in Nat
      /\ UNCHANGED <<memtable, mem, imm, version, logNumber, merge, bgError, gets, phase, logs, manifest>>
  BY DEF disk, Sound, Numbers
<1>2. flush' = [step |-> "build", number |-> nextFile, edit |-> None]
  OBVIOUS
<1>3. flush'.step = "build" /\ flush'.number = nextFile
  BY <1>2
<1> HIDE DEF StartFlush
<1>4. Memtables'
  BY <1>1 DEF Places, Memtables, Referenced, Reading, Replays, Recovers
<1>5. Logs'
  BY <1>1 DEF Places, Logs, LogFile, Replays, Recovers, Below
<1>6. Below(InUse, nextFile) /\ InUse' = InUse
  BY <1>1 DEF Places, FileNumbers, InUse, Files
<1>7. nextFile \notin InUse /\ Below(InUse, nextFile')
  BY <1>1, <1>6 DEF Below
<1>8. FilesOfEdits'
  <2>1. merge # None /\ merge.step # "open" => Below({merge.number}, nextFile) /\ merge.number \notin InUse
    BY DEF Places, FileNumbers, FilesOfEdits
  <2>2. merge # None /\ merge.step # "open" => merge.number # nextFile /\ Below({merge.number}, nextFile')
    BY <1>1, <2>1 DEF Below
  <2>3. Below({nextFile}, nextFile')
    BY <1>1 DEF Below
  <2>4. merge # None /\ merge.step = "apply" =>
          /\ merge.edit.next \in Nat /\ merge.edit.next <= nextFile
    BY DEF Places, FileNumbers, FilesOfEdits, Sound, MergeSound
  <2>5. merge # None /\ merge.step = "apply" => merge.edit.next <= nextFile'
    BY <1>1, <2>4
  <2> QED
    BY <1>1, <1>3, <1>6, <1>7, <2>1, <2>2, <2>3, <2>5 DEF Places, FileNumbers, FilesOfEdits
<1>9. FileNumbers'
  <2>1. Below(Files(manifest.version), manifest.next)' /\ manifest.next <= nextFile'
    BY <1>1 DEF Places, FileNumbers, Below, Files
  <2> QED
    BY <1>1, <1>6, <1>7, <1>8, <2>1 DEF FileNumbers, Replays, Recovers
<1> QED
  BY <1>4, <1>5, <1>9 DEF Places

LEMMA BuildTablePlaces ==
  ASSUME Sound, Places, BuildTable
  PROVE  Places'
<1> USE DEF BuildTable
<1>1. /\ phase = "open" /\ nextFile \in Nat /\ flush # None
      /\ UNCHANGED <<memtable, mem, imm, nextFile, version, logNumber, merge, gets, phase, logs, manifest>>
      /\ bgError' = FALSE => bgError = FALSE
  BY DEF Sound, Stages, Numbers, Flushing
<1> DEFINE new == IF memtable[imm] = {} THEN {} ELSE {flush.number}
           e == Edit(new, {}, {}, mem)
<1>2. \/ flush' = None
      \/ flush'.step = "apply" /\ flush'.number = flush.number /\ flush'.edit = e
  BY DEF Sound, Stages, FlushFields, Flushing
<1>3. e.add0 \subseteq {flush.number} /\ e.del = {} /\ e.log = mem /\ e.next = nextFile
  BY DEF Edit
<1> HIDE DEF BuildTable, e
<1>4. Memtables'
  BY <1>1 DEF Places, Memtables, Referenced, Reading, Replays, Recovers
<1>5. Logs'
  BY <1>1 DEF Places, Logs, LogFile, Replays, Recovers, Below
<1>6. InUse' = InUse
  BY <1>1 DEF InUse, Files
<1>7. FilesOfEdits'
  <2>1. mem < nextFile /\ manifest.next <= nextFile /\ nextFile <= nextFile
    BY <1>1 DEF Places, Memtables, FileNumbers
  <2>2. flush.number < nextFile
    BY <1>1 DEF Places, FileNumbers, FilesOfEdits, Below
  <2>3. CASE flush' = None
    BY <1>1, <1>6, <2>3 DEF Places, FileNumbers, FilesOfEdits, Files
  <2>4. CASE flush'.step = "apply" /\ flush'.number = flush.number /\ flush'.edit = e
    BY <1>1, <1>3, <1>6, <2>1, <2>2, <2>4 DEF Places, FileNumbers, FilesOfEdits, Files
  <2> QED
    BY <1>2, <2>3, <2>4
<1>8. FileNumbers'
  BY <1>1, <1>6, <1>7 DEF Places, FileNumbers, Below, Files, Replays, Recovers
<1> QED
  BY <1>4, <1>5, <1>8 DEF Places

(* The edit of a flush is recorded, and may be installed.                  *)
LEMMA FlushRecorded ==
  ASSUME Sound, Places, phase = "open", flush # None, flush.step = "apply"
  PROVE  LET m == Recorded(manifest, flush.edit)
             v == Applied(version, flush.edit)
         IN /\ Files(m.version) \subseteq Files(manifest.version) \union {flush.number}
            /\ Files(v) \subseteq Files(version) \union {flush.number}
            /\ Below(Files(m.version), m.next) /\ m.next \in Nat /\ m.next <= nextFile
            /\ m.log = mem /\ mem \in Nat /\ mem < m.next /\ logNumber <= mem
            /\ merge # None => merge.step # "apply"
            /\ merge # None /\ merge.step # "open" => flush.number # merge.number
            /\ Below({flush.number}, nextFile)
<1> DEFINE m == Recorded(manifest, flush.edit)
           v == Applied(version, flush.edit)
<1>1. /\ flush.edit.add0 \subseteq {flush.number} /\ flush.edit.del = {} /\ flush.edit.addDeep = {}
      /\ flush.edit.log = mem /\ mem < flush.edit.next /\ flush.number < flush.edit.next
      /\ manifest.next <= flush.edit.next /\ flush.edit.next <= nextFile /\ flush.edit.next \in Nat
      /\ manifest.next \in Nat /\ Below({flush.number}, nextFile) /\ mem \in Nat
      /\ Below(Files(manifest.version), manifest.next)
  BY DEF Places, Memtables, FileNumbers, FilesOfEdits, Sound, FlushSound, Flushing, Numbers
<1>2. m.version = Applied(manifest.version, flush.edit) /\ m.next = flush.edit.next /\ m.log = flush.edit.log
  BY DEF Recorded
<1>3. /\ Files(m.version) \subseteq Files(manifest.version) \union {flush.number}
      /\ Files(v) \subseteq Files(version) \union {flush.number}
  BY <1>1, <1>2, AppliedFiles
<1>4. Below(Files(m.version), m.next)
  BY <1>1, <1>2, <1>3 DEF Below
<1>5. logNumber <= mem /\ (merge # None => merge.step # "apply")
  BY DEF Places, Logs, Sound, MergeSound, Memtables
<1>6. merge # None /\ merge.step # "open" => flush.number # merge.number
  BY DEF Places, FileNumbers, FilesOfEdits
<1> QED
  BY <1>1, <1>2, <1>3, <1>4, <1>5, <1>6

LEMMA FailFlushPlaces ==
  ASSUME Sound, Places, FailFlush
  PROVE  Places'
<1> DEFINE m == Recorded(manifest, flush.edit)
<1>1. /\ phase = "open" /\ flush' = None /\ bgError' = TRUE /\ manifest' \in {manifest, m}
      /\ UNCHANGED <<memtable, mem, imm, nextFile, version, logNumber, merge, gets, phase, logs>>
  BY DEF FailFlush, Sound, Stages, Flushing
<1>2. CASE manifest' = manifest
  <2>1. Memtables'
    BY <1>1 DEF Places, Memtables, Referenced, Reading, Replays, Recovers
  <2>2. Logs'
    BY <1>1, <1>2 DEF Places, Logs, LogFile, Replays, Recovers, Below
  <2>3. FileNumbers'
    BY <1>1, <1>2 DEF Places, FileNumbers, FilesOfEdits, Below, InUse, Files, Replays, Recovers
  <2> QED
    BY <2>1, <2>2, <2>3 DEF Places
<1>3. CASE manifest' = m
  <2>1. /\ Files(m.version) \subseteq Files(manifest.version) \union {flush.number}
        /\ Below(Files(m.version), m.next) /\ m.next \in Nat /\ m.next <= nextFile
        /\ m.log = mem /\ mem \in Nat /\ mem < m.next /\ logNumber <= mem
        /\ merge # None => merge.step # "apply"
        /\ merge # None /\ merge.step # "open" => flush.number # merge.number
        /\ Below({flush.number}, nextFile)
    BY <1>1, FlushRecorded DEF FailFlush
  <2> HIDE DEF m
  <2>2. Memtables'
    BY <1>1 DEF Places, Memtables, Referenced, Reading, Replays, Recovers
  <2>3. Logs'
    BY <1>1, <1>3, <2>1 DEF Places, Logs, LogFile, Replays, Recovers, Below
  <2>4. InUse' \subseteq InUse \union {flush.number}
    BY <1>1, <1>3, <2>1 DEF InUse, Files
  <2>5. Below(InUse', nextFile)
    BY <1>1, <2>1, <2>4 DEF Places, FileNumbers, Below
  <2>6. FilesOfEdits'
    BY <1>1, <2>1, <2>4 DEF Places, FileNumbers, FilesOfEdits, Below
  <2> QED
    BY <1>1, <1>3, <2>1, <2>2, <2>3, <2>5, <2>6 DEF Places, FileNumbers, Replays, Recovers, Below, Files
<1> QED
  BY <1>1, <1>2, <1>3

LEMMA InstallFlushPlaces ==
  ASSUME Sound, Places, InstallFlush
  PROVE  Places'
<1> DEFINE m == Recorded(manifest, flush.edit)
           v == Applied(version, flush.edit)
<1>1. /\ phase = "open" /\ flush' = None /\ manifest' = m /\ version' = v
      /\ imm' = 0 /\ memtable' = [i \in Referenced(mem, 0, gets) |-> memtable[i]]
      /\ logNumber' = flush.edit.log /\ logNumber' = mem
      /\ UNCHANGED <<mem, nextFile, merge, bgError, gets, phase>>
  BY DEF InstallFlush, Sound, Stages, Flushing, Places, FileNumbers, FilesOfEdits
<1>2. /\ Files(m.version) \subseteq Files(manifest.version) \union {flush.number}
      /\ Files(v) \subseteq Files(version) \union {flush.number}
      /\ Below(Files(m.version), m.next) /\ m.next \in Nat /\ m.next <= nextFile
      /\ m.log = mem /\ mem \in Nat /\ mem < m.next /\ logNumber <= mem
      /\ merge # None => merge.step # "apply"
      /\ merge # None /\ merge.step # "open" => flush.number # merge.number
      /\ Below({flush.number}, nextFile)
  BY <1>1, FlushRecorded DEF InstallFlush
<1>3. \/ UNCHANGED logs
      \/ logs' = [n \in {k \in DOMAIN logs : k >= mem} |-> logs[n]]
  BY <1>1 DEF InstallFlush, DeleteObsoleteFiles
<1> HIDE DEF m, v
<1>4. 0 < mem /\ mem < nextFile /\ mem \in DOMAIN logs /\ mem \in DOMAIN logs'
  BY <1>1, <1>2, <1>3 DEF Places, Memtables
<1>5. Memtables'
  BY <1>1, <1>2, <1>4 DEF Memtables, Replays, Recovers
<1>6. Logs'
  <2>1. DOMAIN logs' \subseteq DOMAIN logs /\ \A n \in DOMAIN logs' : logs'[n] = logs[n]
    BY <1>3
  <2>2. Below(DOMAIN logs', nextFile) /\ \A n \in DOMAIN logs' : LogFile(logs'[n])
    BY <1>1, <2>1 DEF Places, Logs, Below
  <2> QED
    BY <1>1, <1>2, <2>2 DEF Logs, Replays, Recovers
<1>7. InUse' \subseteq InUse \union {flush.number}
  BY <1>1, <1>2 DEF InUse, Files
<1>8. Below(InUse', nextFile)
  BY <1>1, <1>2, <1>7 DEF Places, FileNumbers, Below
<1>9. FilesOfEdits'
  BY <1>1, <1>2, <1>7 DEF Places, FileNumbers, FilesOfEdits, Below
<1> QED
  BY <1>1, <1>2, <1>5, <1>6, <1>8, <1>9 DEF Places, FileNumbers, Replays, Recovers, Below, Files

LEMMA StartMergePlaces ==
  ASSUME Sound, Places, StartMerge
  PROVE  Places'
<1> USE DEF StartMerge
<1>1. /\ phase = "open" /\ flush = None /\ merge'.step = "open" /\ merge'.input = version
      /\ UNCHANGED <<memtable, mem, imm, nextFile, version, logNumber, flush, bgError, gets, phase, logs, manifest>>
  BY DEF disk, Busy
<1> HIDE DEF StartMerge
<1>2. Memtables'
  BY <1>1 DEF Places, Memtables, Referenced, Reading, Replays, Recovers
<1>3. Logs'
  BY <1>1 DEF Places, Logs, LogFile, Replays, Recovers, Below
<1>4. InUse' \subseteq InUse
  BY <1>1 DEF InUse, Files
<1>5. FileNumbers'
  BY <1>1, <1>4 DEF Places, FileNumbers, FilesOfEdits, Below, Files, Replays, Recovers
<1> QED
  BY <1>2, <1>3, <1>5 DEF Places

LEMMA OpenCompactionOutputFilePlaces ==
  ASSUME Sound, Places, OpenCompactionOutputFile
  PROVE  Places'
<1> USE DEF OpenCompactionOutputFile
<1>1. /\ phase = "open" /\ flush = None /\ nextFile \in Nat /\ nextFile' = nextFile + 1
      /\ merge'.step = "write" /\ merge'.number = nextFile /\ merge'.input = merge.input
      /\ UNCHANGED <<memtable, mem, imm, version, logNumber, flush, bgError, gets, phase, logs, manifest>>
      /\ manifest.next \in Nat /\ merge # None
  BY DEF Sound, Stages, Numbers, MergeSound, Flushing
<1> HIDE DEF OpenCompactionOutputFile
<1>2. Memtables'
  BY <1>1 DEF Places, Memtables, Referenced, Reading, Replays, Recovers
<1>3. Logs'
  BY <1>1 DEF Places, Logs, LogFile, Replays, Recovers, Below
<1>4. InUse' \subseteq InUse
  BY <1>1 DEF InUse, Files
<1>5. Below(InUse, nextFile) /\ nextFile \notin InUse
  BY <1>1 DEF Places, FileNumbers, Below
<1>6. Below(InUse', nextFile') /\ Below({nextFile}, nextFile')
  BY <1>1, <1>4, <1>5 DEF Below
<1>7. FilesOfEdits'
  BY <1>1, <1>4, <1>5, <1>6 DEF FilesOfEdits
<1>8. Below(Files(manifest.version), manifest.next)' /\ manifest.next <= nextFile'
  BY <1>1 DEF Places, FileNumbers, Below, Files
<1>9. FileNumbers'
  BY <1>1, <1>6, <1>7, <1>8 DEF FileNumbers, Replays, Recovers
<1> QED
  BY <1>2, <1>3, <1>9 DEF Places

LEMMA FinishMergePlaces ==
  ASSUME Sound, Places, FinishMerge
  PROVE  Places'
<1> USE DEF FinishMerge
<1> DEFINE e == Edit({}, {merge.number}, Files(merge.input), logNumber)
<1>1. /\ phase = "open" /\ flush = None /\ merge # None /\ merge.step = "write"
      /\ UNCHANGED <<memtable, mem, imm, nextFile, version, logNumber, flush, gets, phase, logs, manifest>>
      /\ bgError' = FALSE => bgError = FALSE
  BY DEF Sound, Stages, Flushing
<1>2. \/ merge' = None
      \/ merge'.step = "apply" /\ merge'.number = merge.number /\ merge'.input = merge.input /\ merge'.edit = e
  BY DEF Sound, MergeSound
<1>3. e.del = Files(merge.input) /\ e.log = logNumber /\ e.next = nextFile
  BY DEF Edit
<1> HIDE DEF FinishMerge, e
<1>4. Memtables'
  BY <1>1 DEF Places, Memtables, Referenced, Reading, Replays, Recovers
<1>5. Logs'
  BY <1>1 DEF Places, Logs, LogFile, Replays, Recovers, Below
<1>6. InUse' \subseteq InUse
  BY <1>1, <1>2 DEF InUse, Files
<1>7. Below({merge.number}, nextFile) /\ merge.number \notin InUse
  BY <1>1 DEF Places, FileNumbers, FilesOfEdits
<1>8. FilesOfEdits'
  <2>1. CASE merge' = None
    BY <1>1, <2>1 DEF FilesOfEdits
  <2>2. CASE merge'.step = "apply" /\ merge'.number = merge.number /\ merge'.input = merge.input /\ merge'.edit = e
    <3>1. /\ logNumber \in Nat /\ mem < nextFile /\ logNumber < nextFile /\ merge.number < nextFile
          /\ manifest.next <= nextFile /\ nextFile <= nextFile
      BY <1>1, <1>7 DEF Below, Places, Logs, Memtables, FileNumbers, Sound, Numbers
    <3>2. Files(merge'.input) = Files(merge.input)
      BY <2>2
    <3> QED
      BY <1>1, <1>3, <1>6, <1>7, <2>2, <3>1, <3>2 DEF FilesOfEdits
  <2> QED
    BY <1>2, <2>1, <2>2
<1>9. FileNumbers'
  BY <1>1, <1>6, <1>8 DEF Places, FileNumbers, Below, Files, Replays, Recovers
<1> QED
  BY <1>4, <1>5, <1>9 DEF Places

(* The MANIFEST and the version a compaction leads to.                     *)
LEMMA MergeRecorded ==
  ASSUME Sound, Places, merge # None, merge.step = "apply"
  PROVE  LET m == Recorded(manifest, merge.edit)
             v == Applied(version, merge.edit)
         IN /\ Files(m.version) \subseteq Files(manifest.version) \union {merge.number}
            /\ Files(v) \subseteq Files(version) \union {merge.number}
            /\ Below(Files(m.version), m.next) /\ m.next \in Nat /\ m.next <= nextFile
            /\ m.log = logNumber /\ logNumber < m.next
            /\ flush = None /\ phase = "open" /\ logNumber <= mem
            /\ Below({merge.number}, nextFile)
<1> DEFINE m == Recorded(manifest, merge.edit)
           v == Applied(version, merge.edit)
<1>1. /\ merge.edit.del = Files(merge.input) /\ merge.edit.log = logNumber
      /\ merge.number < merge.edit.next /\ logNumber < merge.edit.next
      /\ manifest.next <= merge.edit.next /\ merge.edit.next <= nextFile
      /\ Below({merge.number}, nextFile)
  BY DEF Places, FileNumbers, FilesOfEdits
<1>2. /\ flush = None /\ merge.edit.add0 = {} /\ merge.edit.addDeep = {merge.number}
      /\ merge.edit.next \in Nat /\ phase = "open" /\ manifest.next \in Nat /\ nextFile \in Nat
  BY DEF Sound, MergeSound, Stages, Numbers
<1>3. m.version = Applied(manifest.version, merge.edit) /\ m.next = merge.edit.next /\ m.log = logNumber
  BY <1>1 DEF Recorded
<1>4. /\ Files(m.version) \subseteq Files(manifest.version) \union {merge.number}
      /\ Files(v) \subseteq Files(version) \union {merge.number}
  BY <1>2, <1>3, AppliedFiles
<1>5. Below(Files(m.version), m.next)
  BY <1>1, <1>2, <1>3, <1>4 DEF Below, Places, FileNumbers
<1>6. logNumber <= mem
  BY <1>2 DEF Places, Logs, Memtables
<1> HIDE DEF m, v
<1> QED
  BY <1>1, <1>2, <1>3, <1>4, <1>5, <1>6 DEF m, v

LEMMA FailMergePlaces ==
  ASSUME Sound, Places, FailMerge
  PROVE  Places'
<1> DEFINE m == Recorded(manifest, merge.edit)
<1>1. /\ merge # None /\ merge.step = "apply" /\ merge' = None /\ bgError' = TRUE /\ manifest' \in {manifest, m}
      /\ UNCHANGED <<memtable, mem, imm, nextFile, version, logNumber, flush, gets, phase, logs>>
  BY DEF FailMerge
<1>2. /\ Files(m.version) \subseteq Files(manifest.version) \union {merge.number}
      /\ Below(Files(m.version), m.next) /\ m.next \in Nat /\ m.next <= nextFile
      /\ m.log = logNumber /\ logNumber < m.next
      /\ flush = None /\ phase = "open" /\ logNumber <= mem
      /\ Below({merge.number}, nextFile)
  BY <1>1, MergeRecorded
<1> HIDE DEF m
<1>3. Memtables'
  BY <1>1, <1>2 DEF Places, Memtables, Referenced, Reading, Replays, Recovers
<1>4. Logs'
  BY <1>1, <1>2 DEF Places, Logs, LogFile, Replays, Recovers, Below
<1>5. InUse' \subseteq InUse \union {merge.number}
  BY <1>1, <1>2 DEF InUse, Files
<1>6. Below(InUse', nextFile)
  BY <1>1, <1>2, <1>5 DEF Places, FileNumbers, Below
<1>7. FilesOfEdits'
  BY <1>1, <1>2 DEF FilesOfEdits
<1> QED
  BY <1>1, <1>2, <1>3, <1>4, <1>6, <1>7 DEF Places, FileNumbers, Replays, Recovers, Below, Files

LEMMA InstallMergePlaces ==
  ASSUME Sound, Places, InstallMerge
  PROVE  Places'
<1> DEFINE m == Recorded(manifest, merge.edit)
           v == Applied(version, merge.edit)
<1>1. /\ merge # None /\ merge.step = "apply" /\ merge' = None /\ manifest' = m /\ version' = v
      /\ UNCHANGED <<memtable, mem, imm, nextFile, logNumber, flush, bgError, gets, phase>>
  BY DEF InstallMerge
<1>2. /\ Files(m.version) \subseteq Files(manifest.version) \union {merge.number}
      /\ Files(v) \subseteq Files(version) \union {merge.number}
      /\ Below(Files(m.version), m.next) /\ m.next \in Nat /\ m.next <= nextFile
      /\ m.log = logNumber /\ logNumber < m.next
      /\ flush = None /\ phase = "open" /\ logNumber <= mem
      /\ Below({merge.number}, nextFile)
  BY <1>1, MergeRecorded
<1>3. \/ UNCHANGED logs
      \/ logs' = [n \in {k \in DOMAIN logs : k >= logNumber} |-> logs[n]]
  BY DEF InstallMerge, DeleteObsoleteFiles
<1> HIDE DEF m, v
<1>4. /\ DOMAIN logs' \subseteq DOMAIN logs /\ \A n \in DOMAIN logs' : logs'[n] = logs[n]
      /\ mem \in DOMAIN logs'
  BY <1>2, <1>3 DEF Places, Memtables
<1>5. Memtables'
  BY <1>1, <1>2, <1>4 DEF Places, Memtables, Referenced, Reading, Replays, Recovers
<1>6. Logs'
  BY <1>1, <1>2, <1>4 DEF Places, Logs, Replays, Recovers, Below
<1>7. InUse' \subseteq InUse \union {merge.number}
  BY <1>1, <1>2 DEF InUse, Files
<1>8. Below(InUse', nextFile)
  BY <1>1, <1>2, <1>7 DEF Places, FileNumbers, Below
<1>9. FilesOfEdits'
  BY <1>1, <1>2 DEF FilesOfEdits
<1> QED
  BY <1>1, <1>2, <1>5, <1>6, <1>8, <1>9 DEF Places, FileNumbers, Replays, Recovers, Below, Files

-----------------------------------------------------------------------------
(* Deaths and recoveries.                                                  *)

(* The MANIFEST a recovery leads to.                                       *)
LEMMA RecoveryRecorded ==
  ASSUME Sound, Places, Recovers
  PROVE  LET m == Recorded(manifest, flush.edit)
         IN /\ Files(m.version) \subseteq Files(manifest.version) \union flush.edit.add0
            /\ Below(Files(m.version), m.next) /\ m.next \in Nat /\ m.next = nextFile
            /\ m.log = mem /\ mem \in Nat /\ mem < m.next
            /\ merge = None /\ version = manifest.version /\ bgError = FALSE
<1> DEFINE m == Recorded(manifest, flush.edit)
<1>1. /\ flush.edit.del = {} /\ flush.edit.addDeep = {} /\ flush.edit.next = nextFile
      /\ flush.edit.log = mem /\ mem < nextFile /\ mem \in Nat
      /\ Below(flush.edit.add0, nextFile) /\ manifest.next <= nextFile
      /\ Below(Files(manifest.version), manifest.next)
  BY DEF Places, Memtables, Logs, FileNumbers, Recovers, Sound, FlushSound, Flushing
<1>2. manifest.next \in Nat /\ nextFile \in Nat /\ merge = None /\ version = manifest.version /\ bgError = FALSE
  BY DEF Sound, Numbers, Stages, Recovers
<1>3. m.version = Applied(manifest.version, flush.edit) /\ m.next = nextFile /\ m.log = mem
  BY <1>1 DEF Recorded
<1>4. Files(m.version) \subseteq Files(manifest.version) \union flush.edit.add0
  BY <1>1, <1>3, AppliedFiles
<1>5. Below(Files(m.version), m.next)
  BY <1>1, <1>2, <1>3, <1>4 DEF Below
<1> QED
  BY <1>1, <1>2, <1>3, <1>4, <1>5

(* What a death may leave of the MANIFEST.                                 *)
LEMMA DeadManifest ==
  ASSUME Sound, NEW m \in ManifestAfterDeath
  PROVE  \/ m = manifest
         \/ phase = "open" /\ flush # None /\ flush.step = "apply" /\ m = Recorded(manifest, flush.edit)
         \/ Recovers /\ m = Recorded(manifest, flush.edit)
         \/ merge # None /\ merge.step = "apply" /\ m = Recorded(manifest, merge.edit)
<1>1. CASE m = manifest
  BY <1>1
<1>2. CASE flush # None /\ flush.edit # None /\ m = Recorded(manifest, flush.edit)
  BY <1>2 DEF Sound, Stages, FlushSound, Flushing, Recovers
<1>3. CASE merge # None /\ merge.edit # None /\ m = Recorded(manifest, merge.edit)
  BY <1>3 DEF Sound, MergeSound
<1> QED
  BY <1>1, <1>2, <1>3 DEF ManifestAfterDeath

LEMMA DeathPlaces ==
  ASSUME Sound, Places, Forget, manifest' \in ManifestAfterDeath,
         DOMAIN logs' = DOMAIN logs, \A n \in DOMAIN logs : LogFile(logs'[n])
  PROVE  Places'
<1>1. /\ memtable' = <<>> /\ mem' = 0 /\ imm' = 0 /\ nextFile' = 0 /\ logNumber' = 0
      /\ version' = [l0 |-> {}, deep |-> {}] /\ flush' = None /\ merge' = None
      /\ gets' = [r \in Readers |-> None] /\ phase' = "down"
  BY DEF Forget
<1>2. /\ Below(Files(manifest'.version), manifest'.next) /\ manifest'.log \in Nat
      /\ manifest'.log < manifest'.next
  <2>1. CASE manifest' = manifest
    BY <2>1 DEF Places, FileNumbers, Logs
  <2>2. CASE phase = "open" /\ flush # None /\ flush.step = "apply" /\ manifest' = Recorded(manifest, flush.edit)
    BY <2>2, FlushRecorded
  <2>3. CASE Recovers /\ manifest' = Recorded(manifest, flush.edit)
    BY <2>3, RecoveryRecorded
  <2>4. CASE merge # None /\ merge.step = "apply" /\ manifest' = Recorded(manifest, merge.edit)
    BY <2>4, MergeRecorded DEF Places, Logs
  <2> QED
    BY <2>1, <2>2, <2>3, <2>4, DeadManifest
<1>3. Memtables'
  <2>1. Reading(gets') = {}
    BY <1>1 DEF Reading
  <2>2. Referenced(0, 0, gets') = {}
    BY <2>1 DEF Referenced
  <2> QED
    BY <1>1, <2>2 DEF Memtables, Replays, Recovers
<1>4. Logs'
  BY <1>1, <1>2 DEF Logs, Replays, Recovers
<1>5. FileNumbers'
  BY <1>1, <1>2 DEF FileNumbers, FilesOfEdits, Below, Files, Replays, Recovers
<1> QED
  BY <1>3, <1>4, <1>5 DEF Places

LEMMA StartRecoveryPlaces ==
  ASSUME Sound, Places, StartRecovery
  PROVE  Places'
<1> USE DEF StartRecovery
<1>1. /\ phase = "down" /\ phase' = "opening" /\ version' = manifest.version /\ logNumber' = manifest.log
      /\ nextFile' = manifest.next + 1
      /\ UNCHANGED <<memtable, mem, imm, merge, bgError, gets, logs, manifest>>
      /\ merge = None /\ bgError = FALSE /\ manifest.next \in Nat
  BY DEF disk, Sound, Stages, Numbers
<1>2. /\ flush'.step = "replay" /\ flush'.left = LogsToReplay /\ flush'.read = 0
      /\ flush'.entries = {} /\ flush'.made = {}
  OBVIOUS
<1> HIDE DEF StartRecovery
<1>3. Memtables'
  BY <1>1, <1>2 DEF Places, Memtables, Referenced, Reading, Replays, Recovers
<1>4. Logs'
  <2>1. LogsToReplay' = LogsToReplay
    BY <1>1 DEF LogsToReplay
  <2> QED
    BY <1>1, <1>2, <2>1 DEF Places, Logs, LogFile, Replays, Recovers, Below
<1>5. InUse' = Files(manifest.version)
  BY <1>1 DEF InUse, Files
<1>6. FileNumbers'
  BY <1>1, <1>2, <1>5 DEF Places, FileNumbers, FilesOfEdits, Below, Files, Replays, Recovers
<1> QED
  BY <1>3, <1>4, <1>6 DEF Places

(* A replay goes on (RecoverLogFile).                                      *)
LEMMA ReplayPlaces ==
  ASSUME Sound, Places, Replays, flush'.step = "replay",
         UNCHANGED <<memtable, mem, imm, version, logNumber, merge, bgError, gets, phase, logs, manifest>>,
         nextFile' \in Nat, nextFile' >= nextFile,
         flush'.left \subseteq flush.left, Below(flush.left \ flush'.left, nextFile'),
         flush'.read \in Nat, flush'.left = {} => flush'.entries = {},
         Below(flush'.made, nextFile')
  PROVE  Places'
<1>1. Replays' /\ ~Recovers' /\ phase = "opening" /\ phase' = "opening" /\ merge = None /\ nextFile \in Nat /\ manifest.next \in Nat
  BY DEF Replays, Recovers, Sound, Stages, Numbers
<1>2. Memtables'
  BY <1>1 DEF Places, Memtables, Referenced, Reading
<1>3. LogsToReplay' = LogsToReplay
  BY DEF LogsToReplay
<1>4. Below(LogsToReplay \ flush'.left, nextFile')
  <2>1. Below(LogsToReplay \ flush.left, nextFile)
    BY DEF Places, Logs
  <2> QED
    BY <1>1, <2>1 DEF Below
<1>5. flush'.left \subseteq LogsToReplay
  BY DEF Places, Logs
<1>6. Logs'
  <2>1. \A n \in DOMAIN logs' : LogFile(logs'[n])
    BY DEF Places, Logs
  <2> QED
    BY <1>1, <1>3, <1>4, <1>5, <2>1 DEF Places, Logs
<1>7. Below(InUse', nextFile')
  <2>1. InUse' = InUse
    BY DEF InUse, Files
  <2> QED
    BY <1>1, <2>1 DEF Places, FileNumbers, Below
<1>8. FileNumbers'
  BY <1>1, <1>7 DEF Places, FileNumbers, FilesOfEdits, Below, Files
<1> QED
  BY <1>2, <1>6, <1>8 DEF Places

(* What the steps of a replay do.                                          *)
LEMMA ReplayRecordIs ==
  ASSUME Sound, Places, NEW n \in DOMAIN logs, ReplayRecord(n)
  PROVE  LET record == logs[n].recs[flush.read + 1]
             entries == flush.entries \union record
         IN /\ Replays /\ flush'.step = "replay" /\ n \in flush.left /\ \A m \in flush.left : n <= m
            /\ UNCHANGED <<memtable, mem, imm, version, logNumber, merge, bgError, gets, phase, logs, manifest,
                           op, writers, group, promised, spent>>
            /\ flush.read \in Nat /\ flush.read + 1 \in 1..Len(logs[n].recs)
            /\ lastSeq' = ReplayedSequence(record)
            /\ flush'.read = flush.read + 1 /\ flush'.left = flush.left
            /\ \/ /\ nextFile' = nextFile + 1 /\ tables' = With(tables, nextFile, entries)
                  /\ flush'.entries = {} /\ flush'.made = flush.made \union {nextFile}
               \/ /\ nextFile' = nextFile /\ tables' = tables
                  /\ flush'.entries = entries /\ flush'.made = flush.made
<1> USE DEF ReplayRecord, Replaying
<1> DEFINE record == logs[n].recs[flush.read + 1]
           entries == flush.entries \union record
           full == Cardinality(entries) > MemLimit
<1>1. Replays /\ FlushFields(flush) /\ flush.read \in Nat /\ LogFile(logs[n])
  BY DEF Replays, Sound, Stages, Flushing, Places, Logs
<1>2. DOMAIN flush = {"step", "left", "read", "entries", "made", "edit"}
  BY <1>1 DEF FlushFields, Replays
<1>3. flush' = [flush EXCEPT !.read = @ + 1,
                             !.entries = IF full THEN {} ELSE entries,
                             !.made = IF full THEN @ \union {nextFile} ELSE @]
  OBVIOUS
<1>4. /\ flush'.read = flush.read + 1 /\ flush'.left = flush.left /\ flush'.step = "replay"
      /\ flush'.entries = (IF full THEN {} ELSE entries)
      /\ flush'.made = IF full THEN flush.made \union {nextFile} ELSE flush.made
  BY <1>2, <1>3
<1>5. flush.read + 1 \in 1..Len(logs[n].recs)
  <2>1. Len(logs[n].recs) \in Nat /\ flush.read < Len(logs[n].recs)
    BY <1>1 DEF LogFile
  <2> QED
    BY <1>1, <2>1
<1>6. /\ nextFile' = IF full THEN nextFile + 1 ELSE nextFile
      /\ IF full THEN tables' = With(tables, nextFile, entries) ELSE UNCHANGED tables
      /\ lastSeq' = ReplayedSequence(record)
  BY DEF WriteLevel0Table
<1>7. /\ n \in flush.left /\ \A m \in flush.left : n <= m
      /\ UNCHANGED <<memtable, mem, imm, version, logNumber, merge, bgError, gets, phase, logs, manifest,
                     op, writers, group, promised, spent>>
  OBVIOUS
<1> HIDE DEF ReplayRecord, Replaying
<1> QED
  BY <1>1, <1>4, <1>5, <1>6, <1>7

(* What FinishReplay does.                                                 *)
LEMMA FinishReplayIs ==
  ASSUME Sound, Places, NEW n \in DOMAIN logs, FinishReplay(n)
  PROVE  /\ Replays /\ flush'.step = "replay" /\ n \in flush.left /\ \A m \in flush.left : n <= m
         /\ UNCHANGED <<memtable, mem, imm, version, logNumber, merge, bgError, gets, phase, logs, manifest,
                        op, writers, group, promised, spent, lastSeq>>
         /\ flush.read = Len(logs[n].recs)
         /\ flush'.read = 0 /\ flush'.left = flush.left \ {n} /\ flush'.entries = {}
         /\ nextFile' \in Nat /\ n < nextFile' /\ nextFile' >= nextFile
         /\ \/ /\ nextFile' >= nextFile + 1 /\ tables' = With(tables, nextFile, flush.entries)
               /\ flush'.made = flush.made \union {nextFile}
            \/ tables' = tables /\ flush.entries = {} /\ flush'.made = flush.made
<1> USE DEF FinishReplay, Replaying
<1> DEFINE next == IF flush.entries = {} THEN nextFile ELSE nextFile + 1
<1>1. Replays /\ FlushFields(flush) /\ flush.read \in Nat /\ LogFile(logs[n]) /\ n \in Nat /\ nextFile \in Nat
  BY DEF Replays, Sound, Stages, Flushing, Places, Logs, Numbers
<1>2. DOMAIN flush = {"step", "left", "read", "entries", "made", "edit"}
  BY <1>1 DEF FlushFields, Replays
<1>3. flush' = [flush EXCEPT !.left = @ \ {n}, !.read = 0, !.entries = {},
                     !.made = IF flush.entries = {} THEN @ ELSE @ \union {nextFile}]
  OBVIOUS
<1>4. /\ flush'.read = 0 /\ flush'.left = flush.left \ {n} /\ flush'.step = "replay" /\ flush'.entries = {}
      /\ flush'.made = IF flush.entries = {} THEN flush.made ELSE flush.made \union {nextFile}
  BY <1>2, <1>3
<1>5. /\ nextFile' = IF next <= n THEN n + 1 ELSE next
      /\ IF flush.entries = {} THEN UNCHANGED tables ELSE tables' = With(tables, nextFile, flush.entries)
      /\ flush.read = Len(logs[n].recs)
  BY DEF WriteLevel0Table
<1>6. nextFile' \in Nat /\ n < nextFile' /\ nextFile' >= nextFile /\ (flush.entries # {} => nextFile' >= nextFile + 1)
  BY <1>1, <1>5
<1>7. /\ n \in flush.left /\ \A m \in flush.left : n <= m
      /\ UNCHANGED <<memtable, mem, imm, version, logNumber, merge, bgError, gets, phase, logs, manifest,
                     op, writers, group, promised, spent, lastSeq>>
  OBVIOUS
<1> HIDE DEF FinishReplay, Replaying
<1> QED
  BY <1>1, <1>4, <1>5, <1>6, <1>7

LEMMA ReplayRecordPlaces ==
  ASSUME Sound, Places, NEW n \in DOMAIN logs, ReplayRecord(n)
  PROVE  Places'
<1>1. /\ Replays /\ flush'.step = "replay" /\ n \in flush.left
      /\ UNCHANGED <<memtable, mem, imm, version, logNumber, merge, bgError, gets, phase, logs, manifest>>
      /\ flush.read \in Nat /\ flush'.read = flush.read + 1 /\ flush'.left = flush.left
      /\ \/ nextFile' = nextFile + 1 /\ flush'.made = flush.made \union {nextFile}
         \/ nextFile' = nextFile /\ flush'.made = flush.made
  BY ReplayRecordIs
<1>2. nextFile \in Nat /\ Below(flush.made, nextFile)
  BY <1>1 DEF Sound, Numbers, Places, FileNumbers
<1>3. nextFile' \in Nat /\ nextFile' >= nextFile /\ Below(flush'.made, nextFile')
  BY <1>1, <1>2 DEF Below
<1>4. Below(flush.left \ flush'.left, nextFile') /\ flush'.left \subseteq flush.left /\ flush'.left # {} /\ flush'.read \in Nat
  BY <1>1 DEF Below
<1> QED
  BY <1>1, <1>3, <1>4, ReplayPlaces

LEMMA FinishReplayPlaces ==
  ASSUME Sound, Places, NEW n \in DOMAIN logs, FinishReplay(n)
  PROVE  Places'
<1>1. /\ Replays /\ flush'.step = "replay" /\ n \in flush.left
      /\ UNCHANGED <<memtable, mem, imm, version, logNumber, merge, bgError, gets, phase, logs, manifest>>
      /\ flush'.read = 0 /\ flush'.left = flush.left \ {n} /\ flush'.entries = {}
      /\ nextFile' \in Nat /\ n < nextFile' /\ nextFile' >= nextFile
      /\ \/ nextFile' >= nextFile + 1 /\ flush'.made = flush.made \union {nextFile}
         \/ flush'.made = flush.made
  BY FinishReplayIs
<1>2. nextFile \in Nat /\ Below(flush.made, nextFile) /\ n \in Nat
  BY <1>1 DEF Sound, Numbers, Places, FileNumbers
<1>3. Below(flush'.made, nextFile')
  BY <1>1, <1>2 DEF Below
<1>4. Below(flush.left \ flush'.left, nextFile') /\ flush'.left \subseteq flush.left
  BY <1>1, <1>2 DEF Below
<1> QED
  BY <1>1, <1>3, <1>4, ReplayPlaces

LEMMA OpenNewLogPlaces ==
  ASSUME Sound, Places, OpenNewLog
  PROVE  Places'
<1> USE DEF OpenNewLog
<1>1. /\ Replays /\ phase' = "opening" /\ flush.left = {} /\ mem' = nextFile /\ nextFile' = nextFile + 1
      /\ memtable' = [n \in {nextFile} |-> {}] /\ imm = 0
      /\ UNCHANGED <<imm, version, logNumber, merge, bgError, gets, manifest>>
      /\ nextFile \in Nat /\ merge = None /\ bgError = FALSE /\ manifest.next \in Nat
      /\ \A r \in Readers : gets[r] = None
  BY DEF Replays, Sound, Stages, Numbers, Places, Memtables
<1>2. /\ flush'.step = "recover" /\ flush'.edit.log = nextFile /\ flush'.edit.next = nextFile + 1
      /\ flush'.edit.add0 = flush.made /\ flush'.edit.del = {}
  OBVIOUS
<1>3. DOMAIN logs' = DOMAIN logs \union {nextFile} /\ \A n \in DOMAIN logs' : logs'[n] = IF n = nextFile THEN NewLog ELSE logs[n]
  BY DEF With
<1> HIDE DEF OpenNewLog
<1>4. LogFile(NewLog)
  BY DEF LogFile, NewLog
<1>5. Recovers' /\ ~Replays' /\ phase' # "open"
  BY <1>1, <1>2 DEF Replays, Recovers
<1>6. manifest.log \in Nat /\ manifest.log < manifest.next /\ manifest.next <= nextFile
  BY <1>1 DEF Places, Logs, FileNumbers, Replays
<1>7. Memtables'
  <2>1. Reading(gets') = {}
    BY <1>1 DEF Reading
  <2>2. Referenced(nextFile, 0, gets') = {nextFile}
    BY <1>1, <1>6, <2>1 DEF Referenced
  <2>3. DOMAIN memtable' = {nextFile}
    BY <1>1
  <2> QED
    BY <1>1, <1>3, <1>5, <1>6, <2>2, <2>3 DEF Memtables
<1>8. Logs'
  <2>1. Below(LogsToReplay, nextFile)
    BY <1>1 DEF Places, Logs
  <2>2. \A n \in LogsToReplay' : n <= nextFile
    BY <1>1, <1>3, <2>1 DEF LogsToReplay, Below
  <2>3. \A n \in DOMAIN logs' : LogFile(logs'[n])
    BY <1>3, <1>4 DEF Places, Logs
  <2>4. logNumber \in Nat /\ logNumber = manifest.log
    BY <1>1 DEF Places, Logs, Replays
  <2> QED
    BY <1>1, <1>2, <1>3, <1>5, <1>6, <2>2, <2>3, <2>4 DEF Logs
<1>9. FileNumbers'
  <2>1. Below(flush.made, nextFile) /\ Below(InUse, nextFile) /\ Below(Files(manifest.version), manifest.next)
    BY <1>1 DEF Places, FileNumbers, Replays
  <2>2. InUse' = InUse
    BY <1>1 DEF InUse, Files
  <2>3. Below(flush.made, nextFile') /\ Below(InUse', nextFile') /\ manifest.next <= nextFile'
    BY <1>1, <1>6, <2>1, <2>2 DEF Below
  <2>4. Below(Files(manifest.version), manifest.next)'
    BY <1>1, <2>1 DEF Below, Files
  <2>5. FilesOfEdits'
    BY <1>1, <1>5 DEF FilesOfEdits
  <2> QED
    BY <1>1, <1>2, <1>5, <2>3, <2>4, <2>5 DEF FileNumbers
<1> QED
  BY <1>7, <1>8, <1>9 DEF Places

LEMMA FinishOpenPlaces ==
  ASSUME Sound, Places, FinishOpen
  PROVE  Places'
<1> DEFINE m == Recorded(manifest, flush.edit)
           v == Applied(version, flush.edit)
<1>1. /\ Recovers /\ phase' = "open" /\ flush' = None /\ manifest' = m /\ version' = v
      /\ logNumber' = mem /\ UNCHANGED <<memtable, mem, imm, nextFile, merge, bgError, gets>>
      /\ logs' = [n \in {k \in DOMAIN logs : k >= mem} |-> logs[n]]
  BY DEF FinishOpen, DeleteObsoleteFiles, Recovers, Places, Logs
<1>2. /\ Below(Files(m.version), m.next) /\ m.next \in Nat /\ m.next = nextFile
      /\ m.log = mem /\ mem \in Nat /\ mem < m.next
      /\ merge = None /\ version = manifest.version /\ bgError = FALSE
  BY <1>1, RecoveryRecorded
<1>3. v = m.version
  BY <1>2 DEF Recorded
<1> HIDE DEF m, v
<1>4. mem \in DOMAIN logs /\ 0 < mem /\ imm = 0 /\ manifest.log <= mem /\ \A n \in LogsToReplay : n <= mem
  BY <1>1 DEF Places, Memtables, Logs, Recovers
<1>5. DOMAIN logs' \subseteq DOMAIN logs /\ (\A n \in DOMAIN logs' : logs'[n] = logs[n] /\ n >= mem) /\ mem \in DOMAIN logs'
  BY <1>1, <1>2, <1>4
<1>6. Below(DOMAIN logs', nextFile)
  <2>1. manifest.log \in Nat /\ DOMAIN logs \subseteq Nat
    BY DEF Places, Logs, Sound, Numbers
  <2>2. \A n \in DOMAIN logs' : n \in LogsToReplay
    BY <1>2, <1>4, <1>5, <2>1 DEF LogsToReplay
  <2> QED
    BY <1>2, <1>4, <1>5, <2>1, <2>2 DEF Below
<1>7. Memtables'
  BY <1>1, <1>2, <1>4, <1>5 DEF Places, Memtables, Referenced, Reading, Replays, Recovers
<1>8. Logs'
  BY <1>1, <1>2, <1>4, <1>5, <1>6 DEF Places, Logs, Replays, Recovers
<1>9. FileNumbers'
  <2>1. InUse' = Files(m.version)
    BY <1>1, <1>2, <1>3 DEF InUse, Files
  <2> QED
    BY <1>1, <1>2, <2>1 DEF FileNumbers, FilesOfEdits, Replays, Recovers, Below, Files
<1> QED
  BY <1>7, <1>8, <1>9 DEF Places

LEMMA InitPlaces == Init => Places
<1> SUFFICES ASSUME Init PROVE Places
  OBVIOUS
<1> USE DEF Init
<1>1. Files(version) = {} /\ Files(manifest.version) = {} /\ InUse = {}
  BY DEF InUse, Files
<1>2. Memtables
  <2>1. Reading(gets) = {}
    BY DEF Reading
  <2>2. Referenced(3, 0, gets) = {3}
    BY <2>1 DEF Referenced
  <2> QED
    BY <2>2 DEF Memtables, Replays, Recovers
<1>3. Logs
  <2>1. LogFile(NewLog)
    BY DEF LogFile, NewLog
  <2> QED
    BY <2>1 DEF Logs, Replays, Recovers, Below
<1>4. FileNumbers
  BY <1>1 DEF FileNumbers, FilesOfEdits, Replays, Recovers, Below
<1> QED
  BY <1>2, <1>3, <1>4 DEF Places

-----------------------------------------------------------------------------
(* The fourth invariant: every entry there is, is one of a pool in which   *)
(* sequence numbers are unique.                                            *)

(* What the tables of S hold.                                              *)
Content(t, S) == UNION {t[n] : n \in S \intersect DOMAIN t}

(* Of tables that are still there, nothing new is in them.                 *)
LEMMA ContentStays ==
  ASSUME NEW t, NEW u, NEW S, \A n \in S : n \in DOMAIN u => n \in DOMAIN t /\ u[n] = t[n]
  PROVE  Content(u, S) \subseteq Content(t, S)
BY DEF Content

(* Of tables that are all still there, everything is.                      *)
LEMMA ContentKept ==
  ASSUME NEW t, NEW u, NEW S, \A n \in S : n \in DOMAIN t => n \in DOMAIN u /\ u[n] = t[n]
  PROVE  Content(t, S) \subseteq Content(u, S)
BY DEF Content

(* What is in some of the tables of two sets is in those of one of them.   *)
LEMMA ContentOfMore ==
  ASSUME NEW t, NEW S, NEW T, NEW U, U \subseteq S \union T
  PROVE  Content(t, U) \subseteq Content(t, S) \union Content(t, T)
BY DEF Content

(* No table holds nothing.                                                 *)
LEMMA ContentOfNone ==
  ASSUME NEW t
  PROVE  Content(t, {}) = {}
BY DEF Content

(* A new table changes no other.                                           *)
LEMMA ContentOfOld ==
  ASSUME NEW t, NEW n, NEW x, NEW S, n \notin S
  PROVE  Content(With(t, n, x), S) = Content(t, S)
<1> DEFINE u == With(t, n, x)
<1>1. DOMAIN u = DOMAIN t \union {n} /\ \A k \in DOMAIN t : k # n => u[k] = t[k]
  BY DEF With
<1> HIDE DEF u
<1>2. Content(u, S) \subseteq Content(t, S)
  BY <1>1, ContentStays
<1>3. Content(t, S) \subseteq Content(u, S)
  BY <1>1, ContentKept
<1> QED
  BY <1>2, <1>3 DEF u

(* It has what was written to it.                                          *)
LEMMA ContentOfNew ==
  ASSUME NEW t, NEW n, NEW x
  PROVE  Content(With(t, n, x), {n}) = x
BY DEF Content, With

(* A deletion adds nothing, and takes nothing from the live tables.        *)
LEMMA ContentRestricted ==
  ASSUME NEW t, NEW live, NEW S
  PROVE  LET u == [n \in DOMAIN t \intersect live |-> t[n]]
         IN /\ Content(u, S) \subseteq Content(t, S)
            /\ S \subseteq live => Content(u, S) = Content(t, S)
<1> DEFINE u == [n \in DOMAIN t \intersect live |-> t[n]]
<1>1. DOMAIN u = DOMAIN t \intersect live /\ \A n \in DOMAIN u : u[n] = t[n]
  OBVIOUS
<1> HIDE DEF u
<1>2. Content(u, S) \subseteq Content(t, S)
  BY <1>1, ContentStays
<1>3. S \subseteq live => Content(t, S) \subseteq Content(u, S)
  BY <1>1, ContentKept
<1> QED
  BY <1>2, <1>3 DEF u

-----------------------------------------------------------------------------
(* The entries in use: one for each sequence number.                       *)
Good(A) ==
  /\ A \subseteq Entry
  /\ \A e, f \in A : e.seq = f.seq => e = f
  /\ \E b \in Nat : \A e \in A : e.seq <= b

Upto(A, s) == {e \in A : e.seq <= s}

RecsIn(l, E) == \A i \in 1..Len(l.recs) : l.recs[i] \subseteq E

(* The oldest log whose records may still be read.                         *)
Low == IF phase = "down" THEN manifest.log ELSE logNumber

OpenPool(A) ==
  /\ InFlight \subseteq A /\ \A e \in A : e.seq <= lastSeq \/ e \in InFlight
  /\ memtable[mem] \subseteq A /\ (imm # 0 => memtable[imm] \subseteq Upto(A, lastSeq))
  /\ Content(tables, Files(version)) \subseteq Upto(A, lastSeq)
  /\ merge # None => Content(tables, Files(merge.input)) \subseteq Upto(A, lastSeq)
  /\ flush # None /\ flush.step = "apply" =>
       /\ flush.edit.seq \in Nat /\ manifest.seq <= flush.edit.seq /\ flush.edit.seq <= lastSeq
       /\ Content(tables, flush.edit.add0) \subseteq Upto(A, flush.edit.seq)
  /\ merge # None /\ merge.step = "apply" =>
       /\ merge.edit.seq \in Nat /\ manifest.seq <= merge.edit.seq /\ merge.edit.seq <= lastSeq
       /\ Content(tables, {merge.number}) \subseteq Upto(A, merge.edit.seq)

(* What a replay has read so far is in the tables it made, or about to be. *)
Replayed(n, i) == n \in flush.left => i <= flush.read /\ \A m \in flush.left : n <= m

ReplayPool(A) ==
  LET done == Content(tables, flush.made) \union flush.entries
  IN /\ done \subseteq Upto(A, lastSeq)
     /\ \A n \in LogsToReplay : \A i \in 1..Len(logs[n].recs) : Replayed(n, i) => logs[n].recs[i] \subseteq done

RecoverPool(A) ==
  /\ flush.edit.seq = lastSeq /\ memtable[mem] = {}
  /\ Content(tables, flush.edit.add0) \subseteq Upto(A, lastSeq)
  /\ \A n \in LogsToReplay : RecsIn(logs[n], Content(tables, flush.edit.add0))

PoolOf(A) ==
  /\ lastSeq \in Nat /\ manifest.seq \in Nat /\ (phase # "down" => manifest.seq <= lastSeq)
  /\ \A n \in DOMAIN logs : n >= Low => RecsIn(logs[n], A)
  /\ Content(tables, Files(manifest.version)) \subseteq Upto(A, manifest.seq)
  /\ phase = "open" => OpenPool(A)
  /\ Replays => ReplayPool(A)
  /\ Recovers => RecoverPool(A)

-----------------------------------------------------------------------------

(* A later sequence number is as late for all.                             *)
LEMMA UptoMore ==
  ASSUME NEW A, A \subseteq Entry, NEW s \in Nat, NEW t \in Nat, s <= t
  PROVE  Upto(A, s) \subseteq Upto(A, t) /\ Upto(A, s) \subseteq A
<1>1. \A e \in A : e.seq \in Nat
  BY DEF Entry
<1> QED
  BY <1>1 DEF Upto

(* Of more entries, more are early.                                        *)
LEMMA UptoBoth ==
  ASSUME NEW A, NEW B, A \subseteq B, NEW s
  PROVE  Upto(A, s) \subseteq Upto(B, s)
BY DEF Upto

(* Nothing that matters changes.                                           *)
LEMMA UntouchedPool ==
  ASSUME NEW A, PoolOf(A),
         UNCHANGED <<memtable, mem, imm, lastSeq, version, logNumber, merge, phase, logs, tables, manifest>>,
         flush' = flush \/ (phase = "open" /\ flush'.step = "build"), InFlight' = InFlight
  PROVE  PoolOf(A)'
<1>1. Low' = Low
  BY DEF Low
<1>2. \A n \in DOMAIN logs' : n >= Low' => RecsIn(logs'[n], A)
  BY <1>1 DEF PoolOf
<1>3. Content(tables', Files(manifest'.version)) \subseteq Upto(A, manifest'.seq)
  BY DEF PoolOf
<1>4. ASSUME phase' = "open" PROVE OpenPool(A)'
  <2>1. OpenPool(A)
    BY <1>4 DEF PoolOf
  <2> QED
    BY <2>1 DEF OpenPool, Files
<1>5. phase # "open" => flush' = flush
  OBVIOUS
<1>6. ASSUME Replays' PROVE ReplayPool(A)'
  <2>1. Replays /\ phase # "open"
    BY <1>5, <1>6 DEF Replays
  <2> QED
    BY <1>5, <2>1 DEF PoolOf, ReplayPool, LogsToReplay, Replayed
<1>7. ASSUME Recovers' PROVE RecoverPool(A)'
  <2>1. Recovers /\ phase # "open"
    BY <1>5, <1>7 DEF Recovers
  <2> QED
    BY <1>5, <2>1 DEF PoolOf, RecoverPool, LogsToReplay
<1> QED
  BY <1>2, <1>3, <1>4, <1>6, <1>7 DEF PoolOf

(* Records of the logs.                                                    *)
LEMMA Appended ==
  ASSUME NEW l, LogFile(l), NEW x, x \subseteq Entry, NEW k, k = [recs |-> Append(l.recs, x), synced |-> l.synced]
  PROVE  /\ LogFile(k) /\ k.synced = l.synced
         /\ Len(l.recs) \in Nat /\ Len(k.recs) = Len(l.recs) + 1 /\ k.recs[Len(l.recs) + 1] = x
         /\ \A i \in 1..Len(l.recs) : k.recs[i] = l.recs[i]
<1>1. l.recs \in Seq(SUBSET Entry) /\ l.synced \in Nat /\ l.synced <= Len(l.recs) /\ l = [recs |-> l.recs, synced |-> l.synced]
  BY DEF LogFile
<1>3. /\ Append(l.recs, x) \in Seq(SUBSET Entry) /\ Len(Append(l.recs, x)) = Len(l.recs) + 1 /\ Len(l.recs) \in Nat
      /\ Append(l.recs, x)[Len(l.recs) + 1] = x
      /\ \A i \in 1..Len(l.recs) : Append(l.recs, x)[i] = l.recs[i]
  BY <1>1, AppendProperties
<1>4. k.recs = Append(l.recs, x) /\ k.synced = l.synced
  OBVIOUS
<1> QED
  BY <1>1, <1>3, <1>4 DEF LogFile

(* A log of which a prefix is left.                                        *)
LEMMA CutOff ==
  ASSUME NEW l, LogFile(l), NEW n \in l.synced..Len(l.recs),
         NEW k, k = [recs |-> SubSeq(l.recs, 1, n), synced |-> n]
  PROVE  /\ LogFile(k) /\ k.synced = n /\ Len(k.recs) = n /\ l.synced <= n /\ n <= Len(l.recs)
         /\ l.synced \in Nat /\ n \in Nat /\ Len(l.recs) \in Nat
         /\ \A i \in 1..n : k.recs[i] = l.recs[i]
<1>1. l.recs \in Seq(SUBSET Entry) /\ l.synced \in Nat /\ l.synced <= Len(l.recs) /\ Len(l.recs) \in Nat
  BY DEF LogFile
<1>2. n \in Nat /\ l.synced <= n /\ n <= Len(l.recs)
  BY <1>1
<1>3. /\ SubSeq(l.recs, 1, n) \in Seq(SUBSET Entry) /\ Len(SubSeq(l.recs, 1, n)) = n
      /\ \A i \in 1..n : SubSeq(l.recs, 1, n)[i] = l.recs[i]
  BY <1>1, <1>2
<1>4. k.recs = SubSeq(l.recs, 1, n) /\ k.synced = n
  OBVIOUS
<1> QED
  BY <1>1, <1>2, <1>3, <1>4 DEF LogFile

(* The entries in flight are those of the group, numbered from the last    *)
(* sequence on.                                                            *)
LEMMA EntriesInFlight ==
  ASSUME Queue, group # None
  PROVE  /\ InFlight \subseteq Entry /\ InFlight = ToSet(group.entries)
         /\ \A e \in InFlight : \E i \in 1..Len(group.entries) : e = group.entries[i] /\ e.seq = lastSeq + i
         /\ \A i \in 1..Len(group.entries) : group.entries[i] \in InFlight
         /\ Len(group.entries) \in Nat
<1>1. NewEntries(group.entries)
  BY DEF Queue, Group
<1>2. group.entries \in Seq(Entry) /\ DOMAIN group.entries = 1..Len(group.entries)
  BY <1>1 DEF NewEntries
<1>3. InFlight = ToSet(group.entries)
  BY DEF InFlight
<1> QED
  BY <1>1, <1>2, <1>3 DEF NewEntries, ToSet

(* A record that is added holds the group.                                 *)
LEMMA AddRecordLogs ==
  ASSUME Queue, Places, group # None, mem \in DOMAIN logs,
         logs' = [logs EXCEPT ![mem].recs = Append(@, ToSet(group.entries))]
  PROVE  /\ DOMAIN logs' = DOMAIN logs /\ \A n \in DOMAIN logs : LogFile(logs'[n]) /\ (n # mem => logs'[n] = logs[n])
         /\ logs'[mem].synced = logs[mem].synced
         /\ Len(logs[mem].recs) \in Nat /\ Len(logs'[mem].recs) = Len(logs[mem].recs) + 1
         /\ logs'[mem].recs[Len(logs[mem].recs) + 1] = InFlight
         /\ \A i \in 1..Len(logs[mem].recs) : logs'[mem].recs[i] = logs[mem].recs[i]
<1>1. InFlight \in SUBSET Entry /\ InFlight = ToSet(group.entries)
  BY EntriesInFlight
<1>2. \A n \in DOMAIN logs : LogFile(logs[n])
  BY DEF Places, Logs
<1> DEFINE k == [logs[mem] EXCEPT !.recs = Append(@, InFlight)]
<1>3. logs' = [logs EXCEPT ![mem] = k]
  BY <1>1
<1>4. /\ LogFile(k) /\ k.synced = logs[mem].synced
      /\ Len(logs[mem].recs) \in Nat /\ Len(k.recs) = Len(logs[mem].recs) + 1 /\ k.recs[Len(logs[mem].recs) + 1] = InFlight
      /\ \A i \in 1..Len(logs[mem].recs) : k.recs[i] = logs[mem].recs[i]
  <2>1. LogFile(logs[mem]) /\ InFlight \in SUBSET Entry
    BY <1>1, <1>2
  <2>2. logs[mem] = [recs |-> logs[mem].recs, synced |-> logs[mem].synced]
    BY <2>1 DEF LogFile
  <2>3. k = [recs |-> Append(logs[mem].recs, InFlight), synced |-> logs[mem].synced]
    BY <2>2
  <2> HIDE DEF k
  <2>4. LogFile(k) /\ k.synced = logs[mem].synced /\ Len(logs[mem].recs) \in Nat
    BY <2>1, <2>3, Appended
  <2>5. Len(k.recs) = Len(logs[mem].recs) + 1 /\ k.recs[Len(logs[mem].recs) + 1] = InFlight
    BY <2>1, <2>3, Appended
  <2>6. \A i \in 1..Len(logs[mem].recs) : k.recs[i] = logs[mem].recs[i]
    BY <2>1, <2>3, Appended
  <2> QED
    BY <2>4, <2>5, <2>6
<1> HIDE DEF k
<1>5. DOMAIN logs' = DOMAIN logs /\ logs'[mem] = k /\ \A n \in DOMAIN logs : n # mem => logs'[n] = logs[n]
  BY <1>3
<1> QED
  BY <1>2, <1>4, <1>5

(* A log that is synced.                                                   *)
LEMMA SyncLogLogs ==
  ASSUME Places, mem \in DOMAIN logs, logs' = [logs EXCEPT ![mem].synced = Len(logs[mem].recs)]
  PROVE  /\ DOMAIN logs' = DOMAIN logs /\ \A n \in DOMAIN logs : LogFile(logs'[n]) /\ logs'[n].recs = logs[n].recs
         /\ \A n \in DOMAIN logs : n # mem => logs'[n] = logs[n]
         /\ logs'[mem].synced = Len(logs[mem].recs)
<1>1. \A n \in DOMAIN logs : LogFile(logs[n])
  BY DEF Places, Logs
<1> DEFINE k == [logs[mem] EXCEPT !.synced = Len(logs[mem].recs)]
<1>2. logs' = [logs EXCEPT ![mem] = k]
  OBVIOUS
<1>3. k.recs = logs[mem].recs /\ k.synced = Len(logs[mem].recs) /\ LogFile(k)
  <2>1. /\ logs[mem].recs \in Seq(SUBSET Entry) /\ Len(logs[mem].recs) \in Nat
        /\ logs[mem] = [recs |-> logs[mem].recs, synced |-> logs[mem].synced]
    BY <1>1 DEF LogFile
  <2>2. k = [recs |-> logs[mem].recs, synced |-> Len(logs[mem].recs)]
    BY <2>1
  <2> QED
    BY <2>1, <2>2 DEF LogFile
<1> HIDE DEF k
<1>4. DOMAIN logs' = DOMAIN logs /\ logs'[mem] = k /\ \A n \in DOMAIN logs : n # mem => logs'[n] = logs[n]
  BY <1>2
<1> QED
  BY <1>1, <1>3, <1>4

LEMMA AddRecordPlaces ==
  ASSUME Sound, Queue, Places, AddRecord
  PROVE  Places'
<1>1. /\ group # None /\ phase = "open"
      /\ UNCHANGED <<memtable, mem, imm, nextFile, version, logNumber, flush, merge, gets, phase, manifest, bgError>>
  BY DEF AddRecord, Sound, Stages
<1>2. mem \in DOMAIN logs /\ \A n \in DOMAIN logs : LogFile(logs[n])
  BY <1>1 DEF Places, Memtables, Logs
<1>3. UNCHANGED logs \/ logs' = [logs EXCEPT ![mem].recs = Append(@, ToSet(group.entries))]
  BY DEF AddRecord
<1>4. DOMAIN logs' = DOMAIN logs /\ \A n \in DOMAIN logs : LogFile(logs'[n])
  BY <1>1, <1>2, <1>3, AddRecordLogs
<1> QED
  BY <1>1, <1>4, WrittenPlaces

LEMMA SyncLogPlaces ==
  ASSUME Sound, Places, SyncLog
  PROVE  Places'
<1>1. /\ group # None /\ phase = "open"
      /\ UNCHANGED <<memtable, mem, imm, nextFile, version, logNumber, flush, merge, gets, phase, manifest, bgError>>
  BY DEF SyncLog, Sound, Stages
<1>2. mem \in DOMAIN logs /\ \A n \in DOMAIN logs : LogFile(logs[n])
  BY <1>1 DEF Places, Memtables, Logs
<1>3. UNCHANGED logs \/ logs' = [logs EXCEPT ![mem].synced = Len(logs[mem].recs)]
  BY DEF SyncLog
<1>4. DOMAIN logs' = DOMAIN logs /\ \A n \in DOMAIN logs : LogFile(logs'[n])
  BY <1>1, <1>2, <1>3, SyncLogLogs
<1> QED
  BY <1>1, <1>4, WrittenPlaces

LEMMA InsertPlaces ==
  ASSUME Sound, Places, InsertIntoMem
  PROVE  Places'
<1>1. /\ phase = "open" /\ DOMAIN memtable' = DOMAIN memtable
      /\ UNCHANGED <<mem, imm, nextFile, version, logNumber, flush, merge, gets, phase, logs, manifest, bgError>>
  BY DEF InsertIntoMem, Sound, Stages, disk
<1>2. \A n \in DOMAIN logs : LogFile(logs'[n])
  BY <1>1 DEF Places, Logs
<1> QED
  BY <1>1, <1>2, WrittenPlaces

(* The writers.                                                            *)
LEMMA WhileWriting ==
  ASSUME Sound, Queue, Places, group # None
  PROVE  /\ phase = "open" /\ ~Replays /\ ~Recovers /\ Low = logNumber /\ logNumber <= mem
         /\ mem \in DOMAIN logs /\ mem \in Nat /\ mem # 0 /\ imm # mem /\ mem \in DOMAIN memtable
         /\ (imm # 0 => imm \in DOMAIN memtable) /\ logNumber \in Nat
<1>1. phase = "open"
  BY DEF Sound, Stages
<1>2. mem \in Nat /\ imm \in Nat /\ 0 < mem /\ imm < mem /\ DOMAIN memtable = Referenced(mem, imm, gets) /\ mem \in DOMAIN logs
  BY <1>1 DEF Places, Memtables
<1>3. logNumber \in Nat /\ manifest.log \in Nat /\ logNumber <= manifest.log /\ manifest.log <= mem
  BY <1>1 DEF Places, Logs
<1> QED
  BY <1>1, <1>2, <1>3 DEF Low, Replays, Recovers, Referenced

LEMMA AddRecordPool ==
  ASSUME Sound, Queue, Places, AddRecord, NEW A, PoolOf(A)
  PROVE  PoolOf(A)'
<1>1. /\ group # None /\ UNCHANGED <<memtable, mem, imm, lastSeq, version, logNumber, flush, merge, phase,
                                     tables, manifest>>
  BY DEF AddRecord
<1>2. /\ phase = "open" /\ ~Replays /\ ~Recovers /\ Low = logNumber /\ mem \in DOMAIN logs
  BY <1>1, WhileWriting
<1>3. group' # None /\ group'.entries = group.entries
  BY AddRecordQueue DEF Goes
<1>4. InFlight' = InFlight
  BY <1>1, <1>3 DEF InFlight
<1>5. CASE UNCHANGED logs
  BY <1>1, <1>4, <1>5, UntouchedPool
<1>6. CASE logs' = [logs EXCEPT ![mem].recs = Append(@, ToSet(group.entries))]
  <2>1. /\ DOMAIN logs' = DOMAIN logs /\ \A n \in DOMAIN logs : n # mem => logs'[n] = logs[n]
        /\ Len(logs[mem].recs) \in Nat /\ Len(logs'[mem].recs) = Len(logs[mem].recs) + 1
        /\ logs'[mem].recs[Len(logs[mem].recs) + 1] = InFlight
        /\ \A i \in 1..Len(logs[mem].recs) : logs'[mem].recs[i] = logs[mem].recs[i]
    BY <1>1, <1>2, <1>6, AddRecordLogs
  <2>2. OpenPool(A)
    BY <1>2 DEF PoolOf
  <2>3. OpenPool(A)'
    BY <1>1, <1>4, <2>2 DEF OpenPool, Files
  <2>4. InFlight \subseteq A
    BY <2>2 DEF OpenPool
  <2>5. mem >= logNumber => RecsIn(logs'[mem], A)
    <3> SUFFICES ASSUME mem >= logNumber, NEW i \in 1..Len(logs[mem].recs) + 1
                 PROVE  logs'[mem].recs[i] \subseteq A
      BY <2>1 DEF RecsIn
    <3>1. i = Len(logs[mem].recs) + 1 \/ i \in 1..Len(logs[mem].recs)
      BY <2>1
    <3>2. RecsIn(logs[mem], A)
      BY <1>2 DEF PoolOf
    <3> QED
      BY <2>1, <2>4, <3>1, <3>2 DEF RecsIn
  <2>6. Low' = logNumber
    BY <1>1, <1>2 DEF Low
  <2>7. \A n \in DOMAIN logs' : n >= Low' => RecsIn(logs'[n], A)
    <3>1. \A n \in DOMAIN logs : n >= logNumber => RecsIn(logs[n], A)
      BY <1>2 DEF PoolOf
    <3> QED
      BY <2>1, <2>5, <2>6, <3>1
  <2> QED
    BY <1>1, <1>2, <2>3, <2>7 DEF PoolOf, Replays, Recovers
<1> QED
  BY <1>5, <1>6 DEF AddRecord

LEMMA SyncLogPool ==
  ASSUME Sound, Queue, Places, SyncLog, NEW A, PoolOf(A)
  PROVE  PoolOf(A)'
<1>1. /\ group # None /\ UNCHANGED <<memtable, mem, imm, lastSeq, version, logNumber, flush, merge, phase,
                                     tables, manifest>>
  BY DEF SyncLog
<1>2. /\ phase = "open" /\ ~Replays /\ ~Recovers /\ Low = logNumber /\ mem \in DOMAIN logs
  BY <1>1, WhileWriting
<1>3. group' # None /\ group'.entries = group.entries
  BY SyncLogQueue DEF Goes
<1>4. InFlight' = InFlight
  BY <1>1, <1>3 DEF InFlight
<1>5. CASE UNCHANGED logs
  BY <1>1, <1>4, <1>5, UntouchedPool
<1>6. CASE logs' = [logs EXCEPT ![mem].synced = Len(logs[mem].recs)]
  <2>1. DOMAIN logs' = DOMAIN logs /\ \A n \in DOMAIN logs : logs'[n].recs = logs[n].recs
    BY <1>2, <1>6, SyncLogLogs
  <2>2. OpenPool(A)
    BY <1>2 DEF PoolOf
  <2>3. OpenPool(A)'
    BY <1>1, <1>4, <2>2 DEF OpenPool, Files
  <2>6. Low' = logNumber
    BY <1>1, <1>2 DEF Low
  <2>7. \A n \in DOMAIN logs' : n >= Low' => RecsIn(logs'[n], A)
    <3>1. \A n \in DOMAIN logs : n >= logNumber => RecsIn(logs[n], A)
      BY <1>2 DEF PoolOf
    <3> QED
      BY <2>1, <2>6, <3>1 DEF RecsIn
  <2> QED
    BY <1>1, <1>2, <2>3, <2>7 DEF PoolOf, Replays, Recovers
<1> QED
  BY <1>5, <1>6 DEF SyncLog

LEMMA InsertPool ==
  ASSUME Sound, Queue, Places, InsertIntoMem, NEW A, PoolOf(A)
  PROVE  PoolOf(A)'
<1>1. /\ group # None /\ UNCHANGED <<mem, imm, lastSeq, version, logNumber, flush, merge, phase, logs, tables,
                                     manifest>>
  BY DEF InsertIntoMem, disk
<1>2. /\ phase = "open" /\ ~Replays /\ ~Recovers /\ Low = logNumber /\ imm # mem /\ mem \in DOMAIN memtable
  BY <1>1, WhileWriting
<1>3. /\ group' # None /\ group'.entries = group.entries /\ group.inserted + 1 \in 1..Len(group.entries)
      /\ memtable' = [memtable EXCEPT ![mem] = @ \union {group.entries[group.inserted + 1]}]
  BY InsertQueue DEF Goes
<1>4. InFlight' = InFlight
  BY <1>1, <1>3 DEF InFlight
<1>5. OpenPool(A)
  BY <1>2 DEF PoolOf
<1>6. group.entries[group.inserted + 1] \in InFlight
  BY <1>1, <1>3, EntriesInFlight
<1>7. memtable'[mem] \subseteq A /\ memtable'[imm] = memtable[imm]
  BY <1>2, <1>3, <1>5, <1>6 DEF OpenPool
<1>8. OpenPool(A)'
  BY <1>1, <1>4, <1>5, <1>7 DEF OpenPool, Files
<1>9. Low' = Low
  BY <1>1 DEF Low
<1>10. \A n \in DOMAIN logs' : n >= Low' => RecsIn(logs'[n], A)
  BY <1>1, <1>9 DEF PoolOf
<1> QED
  BY <1>1, <1>2, <1>8, <1>10 DEF PoolOf, Replays, Recovers

(* The sequence moves on past the group's entries.                         *)
LEMMA FinishWritePool ==
  ASSUME Sound, Queue, Places, FinishWrite, NEW A, Good(A), PoolOf(A)
  PROVE  PoolOf(A)'
<1>1. /\ group # None /\ group' = None /\ lastSeq' = lastSeq + Len(group.entries)
      /\ UNCHANGED <<memtable, mem, imm, version, logNumber, flush, merge, phase, logs, tables, manifest>>
  BY DEF FinishWrite, disk
<1>2. /\ phase = "open" /\ ~Replays /\ ~Recovers /\ Low = logNumber
  BY <1>1, WhileWriting
<1>3. /\ \A e \in InFlight : \E i \in 1..Len(group.entries) : e.seq = lastSeq + i
      /\ Len(group.entries) \in Nat
  BY <1>1, EntriesInFlight
<1>4. OpenPool(A) /\ lastSeq \in Nat /\ manifest.seq \in Nat /\ manifest.seq <= lastSeq
  BY <1>2 DEF PoolOf
<1>5. lastSeq' \in Nat /\ lastSeq <= lastSeq' /\ manifest.seq <= lastSeq'
  BY <1>1, <1>3, <1>4
<1>6. A \subseteq Entry /\ \A e \in A : e.seq \in Nat
  BY DEF Good, Entry
<1>7. \A e \in A : e.seq <= lastSeq'
  <2>1. \A e \in A : e.seq <= lastSeq \/ e \in InFlight
    BY <1>4 DEF OpenPool
  <2>2. \A e \in InFlight : e.seq <= lastSeq'
    BY <1>1, <1>3, <1>4
  <2> QED
    BY <1>4, <1>5, <1>6, <2>1, <2>2
<1>8. InFlight' = {}
  BY <1>1 DEF InFlight
<1>9. Upto(A, lastSeq) \subseteq Upto(A, lastSeq')
  BY <1>4, <1>5, <1>6, UptoMore
<1>10. OpenPool(A)'
  <2>1. InFlight' \subseteq A /\ \A e \in A : e.seq <= lastSeq' \/ e \in InFlight'
    BY <1>7, <1>8
  <2>2. memtable'[mem'] \subseteq A /\ (imm' # 0 => memtable'[imm'] \subseteq Upto(A, lastSeq'))
    BY <1>1, <1>4, <1>9 DEF OpenPool
  <2>3. Content(tables', Files(version')) \subseteq Upto(A, lastSeq')
    BY <1>1, <1>4, <1>9 DEF OpenPool
  <2>4. merge' # None => Content(tables', Files(merge'.input)) \subseteq Upto(A, lastSeq')
    BY <1>1, <1>4, <1>9 DEF OpenPool
  <2>5. flush' # None /\ flush'.step = "apply" =>
       /\ flush'.edit.seq \in Nat /\ manifest'.seq <= flush'.edit.seq /\ flush'.edit.seq <= lastSeq'
       /\ Content(tables', flush'.edit.add0) \subseteq Upto(A, flush'.edit.seq)
    BY <1>1, <1>4, <1>5 DEF OpenPool
  <2>6. ASSUME merge' # None, merge'.step = "apply"
        PROVE  /\ merge'.edit.seq \in Nat /\ manifest'.seq <= merge'.edit.seq /\ merge'.edit.seq <= lastSeq'
               /\ Content(tables', {merge'.number}) \subseteq Upto(A, merge'.edit.seq)
    <3>1. merge' = merge /\ tables' = tables /\ manifest' = manifest
      BY <1>1
    <3>2. merge # None /\ merge.step = "apply"
      BY <2>6, <3>1
    <3>3. /\ merge.edit.seq \in Nat /\ manifest.seq <= merge.edit.seq /\ merge.edit.seq <= lastSeq
          /\ Content(tables, {merge.number}) \subseteq Upto(A, merge.edit.seq)
      BY <1>4, <3>2 DEF OpenPool
    <3>4. merge.edit.seq <= lastSeq'
      BY <1>4, <1>5, <3>3
    <3> QED
      BY <3>1, <3>3, <3>4, Zenon
  <2> QED
    BY <2>1, <2>2, <2>3, <2>4, <2>5, <2>6 DEF OpenPool, Files
<1>11. Low' = Low
  BY <1>1 DEF Low
<1>12. \A n \in DOMAIN logs' : n >= Low' => RecsIn(logs'[n], A)
  BY <1>1, <1>11 DEF PoolOf
<1>13. Content(tables', Files(manifest'.version)) \subseteq Upto(A, manifest'.seq)
  BY <1>1 DEF PoolOf
<1> QED
  BY <1>1, <1>2, <1>4, <1>5, <1>10, <1>12, <1>13 DEF PoolOf, Replays, Recovers

(* Entries that are numbered from s on are new to those up to s.           *)
LEMMA NumberedAreNew ==
  ASSUME NEW A, Good(A), NEW s \in Nat, \A e \in A : e.seq <= s,
         NEW es \in Seq(Entry), \A i \in 1..Len(es) : es[i].seq = s + i
  PROVE  Good(A \union ToSet(es))
<1> DEFINE N == ToSet(es)
           B == A \union N
<1>1. Len(es) \in Nat /\ DOMAIN es = 1..Len(es) /\ \A i \in 1..Len(es) : es[i] \in Entry
  OBVIOUS
<1>2. N = {es[i] : i \in 1..Len(es)}
  BY <1>1 DEF ToSet
<1>3. /\ N \subseteq Entry
      /\ \A e \in N : \E i \in 1..Len(es) : e = es[i] /\ e.seq = s + i
  BY <1>1, <1>2
<1> HIDE DEF N
<1>4. B \subseteq Entry
  BY <1>3 DEF Good
<1>5. \A e \in Entry : e.seq \in Nat
  BY DEF Entry
<1>6. ASSUME NEW e \in B, NEW f \in B, e.seq = f.seq PROVE e = f
  <2>1. CASE e \in A /\ f \in A
    BY <1>6, <2>1 DEF Good
  <2>2. CASE e \in N /\ f \in N
    <3>1. PICK i \in 1..Len(es) : e = es[i] /\ e.seq = s + i
      BY <1>3, <2>2
    <3>2. PICK j \in 1..Len(es) : f = es[j] /\ f.seq = s + j
      BY <1>3, <2>2
    <3>3. i = j
      BY <1>1, <1>6, <3>1, <3>2
    <3> QED
      BY <3>1, <3>2, <3>3
  <2>3. CASE e \in A /\ f \in N
    <3>1. PICK j \in 1..Len(es) : f = es[j] /\ f.seq = s + j
      BY <1>3, <2>3
    <3>2. f.seq > s /\ e.seq <= s
      BY <1>1, <2>3, <3>1
    <3> QED
      BY <1>4, <1>5, <1>6, <3>2
  <2>4. CASE e \in N /\ f \in A
    <3>1. PICK j \in 1..Len(es) : e = es[j] /\ e.seq = s + j
      BY <1>3, <2>4
    <3>2. e.seq > s /\ f.seq <= s
      BY <1>1, <2>4, <3>1
    <3> QED
      BY <1>4, <1>5, <1>6, <3>2
  <2> QED
    BY <2>1, <2>2, <2>3, <2>4
<1>7. \E b \in Nat : \A e \in B : e.seq <= b
  <2>1. s + Len(es) \in Nat
    BY <1>1
  <2>2. ASSUME NEW e \in B PROVE e.seq <= s + Len(es)
    <3>1. CASE e \in A
      BY <1>1, <1>4, <1>5, <3>1
    <3>2. CASE e \in N
      BY <1>1, <1>3, <3>2
    <3> QED
      BY <3>1, <3>2
  <2> QED
    BY <2>1, <2>2
<1> QED
  BY <1>4, <1>6, <1>7 DEF Good, N

(* The front of the queue becomes a leader, or is a nullptr batch.         *)
LEMMA LeadPool ==
  ASSUME Sound, Queue, Places, FrontReady, Lead,
         UNCHANGED <<lastSeq, spent, version, logNumber, flush, merge, phase, tables, manifest>>,
         NEW A, Good(A), PoolOf(A),
         memtable'[mem'] \subseteq A, imm' # 0 => memtable'[imm'] \subseteq A,
         \A n \in DOMAIN logs' : n >= logNumber => RecsIn(logs'[n], A)
  PROVE  \E B : Good(B) /\ PoolOf(B)'
<1>1. phase = "open" /\ group = None /\ InFlight = {} /\ ~Replays /\ ~Recovers
  BY DEF FrontReady, InFlight, Replays, Recovers
<1>2. lastSeq \in Nat /\ manifest.seq \in Nat /\ manifest.seq <= lastSeq /\ OpenPool(A)
  BY <1>1 DEF PoolOf
<1>3. Queue'
  BY <1>2, LeadQueue
<1>4. \A e \in A : e.seq <= lastSeq
  BY <1>1, <1>2 DEF OpenPool
<1>5. PICK B : Good(B) /\ A \subseteq B /\ InFlight' \subseteq B /\ B \subseteq A \union InFlight'
  <2>1. CASE group' = None
    BY <2>1 DEF InFlight
  <2>2. CASE group' # None
    <3>1. /\ group'.entries \in Seq(Entry)
          /\ \A i \in 1..Len(group'.entries) : group'.entries[i].seq = lastSeq + i
      BY <1>3, <2>2 DEF Queue, Group, NewEntries
    <3>2. Good(A \union ToSet(group'.entries))
      BY <1>2, <1>4, <3>1, NumberedAreNew
    <3>3. InFlight' = ToSet(group'.entries)
      BY <2>2 DEF InFlight
    <3> QED
      BY <3>2, <3>3
  <2> QED
    BY <2>1, <2>2
<1>6. \A s : Upto(A, s) \subseteq Upto(B, s)
  BY <1>5, UptoBoth
<1>7. A \subseteq Upto(B, lastSeq)
  BY <1>4, <1>5 DEF Upto
<1>8. OpenPool(B)'
  <2>1. /\ InFlight' \subseteq B
        /\ \A e \in B : e.seq <= lastSeq' \/ e \in InFlight'
    BY <1>4, <1>5
  <2>2. memtable'[mem'] \subseteq B /\ (imm' # 0 => memtable'[imm'] \subseteq Upto(B, lastSeq'))
    BY <1>5, <1>7
  <2>3. /\ Content(tables', Files(version')) \subseteq Upto(B, lastSeq')
        /\ merge' # None => Content(tables', Files(merge'.input)) \subseteq Upto(B, lastSeq')
    BY <1>2, <1>6 DEF OpenPool
  <2>4. ASSUME flush' # None, flush'.step = "apply"
        PROVE  /\ flush'.edit.seq \in Nat /\ manifest'.seq <= flush'.edit.seq /\ flush'.edit.seq <= lastSeq'
               /\ Content(tables', flush'.edit.add0) \subseteq Upto(B, flush'.edit.seq)
    BY <1>2, <1>6, <2>4 DEF OpenPool
  <2>5. ASSUME merge' # None, merge'.step = "apply"
        PROVE  /\ merge'.edit.seq \in Nat /\ manifest'.seq <= merge'.edit.seq /\ merge'.edit.seq <= lastSeq'
               /\ Content(tables', {merge'.number}) \subseteq Upto(B, merge'.edit.seq)
    <3>1. Content(tables, {merge.number}) \subseteq Upto(A, merge.edit.seq)
      BY <1>2, <2>5 DEF OpenPool
    <3>2. Content(tables, {merge.number}) \subseteq Upto(B, merge.edit.seq)
      BY <1>6, <3>1
    <3>3. merge.edit.seq \in Nat /\ manifest.seq <= merge.edit.seq /\ merge.edit.seq <= lastSeq
      BY <1>2, <2>5 DEF OpenPool
    <3> QED
      BY <3>2, <3>3
  <2> QED
    BY <2>1, <2>2, <2>3, <2>4, <2>5 DEF OpenPool, Files
<1>9. Low' = logNumber
  BY <1>1 DEF Low
<1>10. \A n \in DOMAIN logs' : n >= Low' => RecsIn(logs'[n], B)
  BY <1>5, <1>9 DEF RecsIn
<1>11. Content(tables', Files(manifest'.version)) \subseteq Upto(B, manifest'.seq)
  BY <1>6 DEF PoolOf
<1>12. PoolOf(B)'
  BY <1>1, <1>2, <1>8, <1>10, <1>11 DEF PoolOf, Replays, Recovers
<1> QED
  BY <1>5, <1>12

LEMMA WriteInPlacePool ==
  ASSUME Sound, Queue, Places, WriteInPlace, NEW A, Good(A), PoolOf(A)
  PROVE  \E B : Good(B) /\ PoolOf(B)'
<1>1. /\ FrontReady /\ Lead
      /\ UNCHANGED <<memtable, mem, imm, lastSeq, spent, version, logNumber, flush, merge, phase, logs, tables,
                     manifest>>
  BY DEF WriteInPlace, disk
<1>2. OpenPool(A) /\ Low = logNumber
  BY <1>1 DEF FrontReady, PoolOf, Low
<1>3. memtable'[mem'] \subseteq A /\ (imm' # 0 => memtable'[imm'] \subseteq A)
  BY <1>1, <1>2 DEF OpenPool, Upto
<1>4. \A n \in DOMAIN logs' : n >= logNumber => RecsIn(logs'[n], A)
  BY <1>1, <1>2 DEF PoolOf
<1> QED
  BY <1>1, <1>3, <1>4, LeadPool

LEMMA SwitchMemTablePool ==
  ASSUME Sound, Queue, Places, SwitchMemTable, NEW A, Good(A), PoolOf(A)
  PROVE  \E B : Good(B) /\ PoolOf(B)'
<1>1. /\ FrontReady /\ Lead /\ imm' = mem /\ mem' = nextFile
      /\ logs' = With(logs, nextFile, NewLog) /\ memtable' = With(memtable, nextFile, {})
      /\ UNCHANGED <<lastSeq, spent, version, logNumber, flush, merge, phase, tables, manifest>>
  BY DEF SwitchMemTable
<1>2. OpenPool(A) /\ Low = logNumber /\ phase = "open"
  BY <1>1 DEF FrontReady, PoolOf, Low
<1>3. mem \in DOMAIN memtable /\ mem # nextFile
  BY <1>2 DEF Places, Memtables, Referenced
<1>4. memtable'[nextFile] = {} /\ memtable'[mem] = memtable[mem]
  BY <1>1, <1>3 DEF With
<1>5. memtable'[mem'] \subseteq A /\ (imm' # 0 => memtable'[imm'] \subseteq A)
  BY <1>1, <1>2, <1>4 DEF OpenPool
<1>6. \A n \in DOMAIN logs' : n >= logNumber => RecsIn(logs'[n], A)
  <2> SUFFICES ASSUME NEW n \in DOMAIN logs', n >= logNumber PROVE RecsIn(logs'[n], A)
    OBVIOUS
  <2>1. CASE n = nextFile
    <3>1. logs'[n].recs = <<>>
      BY <1>1, <2>1 DEF With, NewLog
    <3> QED
      BY <3>1 DEF RecsIn
  <2>2. CASE n # nextFile
    <3>1. n \in DOMAIN logs /\ logs'[n] = logs[n]
      BY <1>1, <2>2 DEF With
    <3> QED
      BY <1>2, <3>1 DEF PoolOf
  <2> QED
    BY <2>1, <2>2
<1> QED
  BY <1>1, <1>5, <1>6, LeadPool

LEMMA EndGetPool ==
  ASSUME Sound, Places, NEW r \in Readers, EndGet(r), NEW A, PoolOf(A)
  PROVE  PoolOf(A)'
<1>1. /\ gets[r] # None /\ memtable' = [i \in Referenced(mem, imm, gets') |-> memtable[i]]
      /\ UNCHANGED <<group, mem, imm, lastSeq, version, logNumber, flush, merge, phase, logs, tables, manifest>>
  BY DEF EndGet, disk
<1>2. phase = "open" /\ ~Replays /\ ~Recovers
  BY <1>1 DEF Sound, Stages, Replays, Recovers
<1>3. mem # 0
  BY <1>2 DEF Places, Memtables
<1>4. mem \in DOMAIN memtable' /\ (imm # 0 => imm \in DOMAIN memtable')
  BY <1>1, <1>3, ReferencedTo
<1>5. memtable'[mem] = memtable[mem] /\ (imm # 0 => memtable'[imm] = memtable[imm])
  BY <1>1, <1>4
<1>6. InFlight' = InFlight /\ Low' = Low
  BY <1>1 DEF InFlight, Low
<1>7. OpenPool(A)'
  <2>1. OpenPool(A)
    BY <1>2 DEF PoolOf
  <2> QED
    BY <1>1, <1>5, <1>6, <2>1 DEF OpenPool, Files
<1> QED
  BY <1>1, <1>2, <1>6, <1>7 DEF PoolOf, Replays, Recovers

(* The background thread.  What an edit adds is not newer than the edit.   *)
LEMMA EditContent ==
  ASSUME NEW A, A \subseteq Entry, NEW t, NEW m, NEW e, NEW v, NEW b \in Nat,
         m.seq \in Nat, e.seq \in Nat, m.seq <= e.seq, e.seq <= b,
         Content(t, Files(m.version)) \subseteq Upto(A, m.seq),
         Content(t, Files(v)) \subseteq Upto(A, b),
         Content(t, e.add0 \union e.addDeep) \subseteq Upto(A, e.seq)
  PROVE  /\ Content(t, Files(Recorded(m, e).version)) \subseteq Upto(A, Recorded(m, e).seq)
         /\ Content(t, Files(Applied(v, e))) \subseteq Upto(A, b)
         /\ Recorded(m, e).seq = e.seq
<1> DEFINE added == e.add0 \union e.addDeep
<1>1. Recorded(m, e).seq = e.seq /\ Recorded(m, e).version = Applied(m.version, e)
  BY DEF Recorded
<1>2. Upto(A, m.seq) \subseteq Upto(A, e.seq) /\ Upto(A, e.seq) \subseteq Upto(A, b)
  BY UptoMore
<1>3. Content(t, Files(Applied(m.version, e))) \subseteq Content(t, Files(m.version)) \union Content(t, added)
  <2>1. Files(Applied(m.version, e)) \subseteq Files(m.version) \union added
    BY AppliedFiles
  <2> HIDE DEF added
  <2> QED
    BY <2>1, ContentOfMore
<1>4. Content(t, Files(Applied(v, e))) \subseteq Content(t, Files(v)) \union Content(t, added)
  <2>1. Files(Applied(v, e)) \subseteq Files(v) \union added
    BY AppliedFiles
  <2> HIDE DEF added
  <2> QED
    BY <2>1, ContentOfMore
<1> QED
  BY <1>1, <1>2, <1>3, <1>4

(* A flush or a compaction ends, and what it made obsolete may be deleted. *)
LEMMA InstalledPool ==
  ASSUME Places, NEW A, PoolOf(A), phase = "open", phase' = "open",
         UNCHANGED <<group, mem, lastSeq>>, memtable'[mem] = memtable[mem],
         imm' = 0 \/ (imm' = imm /\ memtable'[imm] = memtable[imm]),
         \A n \in DOMAIN logs' : n \in DOMAIN logs /\ logs'[n] = logs[n],
         logNumber' \in Nat, logNumber <= logNumber',
         \A n \in DOMAIN tables' : n \in DOMAIN tables /\ tables'[n] = tables[n],
         manifest'.seq \in Nat, manifest'.seq <= lastSeq,
         Content(tables, Files(manifest'.version)) \subseteq Upto(A, manifest'.seq),
         Content(tables, Files(version')) \subseteq Upto(A, lastSeq),
         flush' = None, merge' = None \/ (merge' = merge /\ merge.step # "apply")
  PROVE  PoolOf(A)'
<1>1. ~Replays' /\ ~Recovers'
  BY DEF Replays, Recovers
<1>2. lastSeq \in Nat /\ OpenPool(A) /\ logNumber \in Nat /\ DOMAIN logs \subseteq Nat
  BY DEF PoolOf, Places, Logs, Below
<1>3. Low = logNumber /\ Low' = logNumber'
  BY DEF Low
<1>4. \A n \in DOMAIN logs' : n >= Low' => RecsIn(logs'[n], A)
  <2> SUFFICES ASSUME NEW n \in DOMAIN logs', n >= logNumber' PROVE RecsIn(logs'[n], A)
    BY <1>3
  <2>1. n \in DOMAIN logs /\ n >= logNumber
    BY <1>2
  <2> QED
    BY <1>3, <2>1 DEF PoolOf
<1>5. \A S : Content(tables', S) \subseteq Content(tables, S)
  BY ContentStays
<1>6. InFlight' = InFlight
  BY DEF InFlight
<1>7. OpenPool(A)'
  <2>1. memtable'[mem'] \subseteq A /\ (imm' # 0 => memtable'[imm'] \subseteq Upto(A, lastSeq'))
    BY <1>2 DEF OpenPool
  <2>2. Content(tables', Files(version')) \subseteq Upto(A, lastSeq')
    BY <1>5
  <2>3. merge' # None => Content(tables', Files(merge'.input)) \subseteq Upto(A, lastSeq')
    BY <1>2, <1>5 DEF OpenPool
  <2>4. InFlight' \subseteq A /\ \A e \in A : e.seq <= lastSeq' \/ e \in InFlight'
    BY <1>2, <1>6 DEF OpenPool
  <2> QED
    BY <2>1, <2>2, <2>3, <2>4 DEF OpenPool, Files
<1>8. Content(tables', Files(manifest'.version)) \subseteq Upto(A, manifest'.seq)
  BY <1>5
<1> QED
  BY <1>1, <1>2, <1>4, <1>7, <1>8 DEF PoolOf

(* What the MANIFEST and the version of a flush hold is not newer than     *)
(* they say.                                                               *)
LEMMA FlushContent ==
  ASSUME Sound, NEW A, Good(A), PoolOf(A), phase = "open", flush # None, flush.step = "apply"
  PROVE  LET m == Recorded(manifest, flush.edit)
         IN /\ m.seq \in Nat /\ m.seq <= lastSeq
            /\ Content(tables, Files(m.version)) \subseteq Upto(A, m.seq)
            /\ Content(tables, Files(Applied(version, flush.edit))) \subseteq Upto(A, lastSeq)
<1>1. lastSeq \in Nat /\ manifest.seq \in Nat /\ OpenPool(A) /\ A \subseteq Entry
  BY DEF PoolOf, Good
<1>2. /\ flush.edit.seq \in Nat /\ manifest.seq <= flush.edit.seq /\ flush.edit.seq <= lastSeq
      /\ Content(tables, flush.edit.add0) \subseteq Upto(A, flush.edit.seq)
  BY <1>1 DEF OpenPool
<1>3. flush.edit.add0 \union flush.edit.addDeep = flush.edit.add0
  BY DEF Sound, FlushSound, Flushing
<1>4. /\ Content(tables, Files(manifest.version)) \subseteq Upto(A, manifest.seq)
      /\ Content(tables, Files(version)) \subseteq Upto(A, lastSeq)
  BY <1>1 DEF PoolOf, OpenPool
<1> QED
  BY <1>1, <1>2, <1>3, <1>4, EditContent

(* So it is for those of a compaction.                                     *)
LEMMA MergeContent ==
  ASSUME Sound, NEW A, Good(A), PoolOf(A), phase = "open", merge # None, merge.step = "apply"
  PROVE  LET m == Recorded(manifest, merge.edit)
         IN /\ m.seq \in Nat /\ m.seq <= lastSeq
            /\ Content(tables, Files(m.version)) \subseteq Upto(A, m.seq)
            /\ Content(tables, Files(Applied(version, merge.edit))) \subseteq Upto(A, lastSeq)
<1>1. lastSeq \in Nat /\ manifest.seq \in Nat /\ OpenPool(A) /\ A \subseteq Entry
  BY DEF PoolOf, Good
<1>2. /\ merge.edit.seq \in Nat /\ manifest.seq <= merge.edit.seq /\ merge.edit.seq <= lastSeq
      /\ Content(tables, {merge.number}) \subseteq Upto(A, merge.edit.seq)
  BY <1>1 DEF OpenPool
<1>3. merge.edit.add0 \union merge.edit.addDeep = {merge.number}
  BY DEF Sound, MergeSound
<1>4. /\ Content(tables, Files(manifest.version)) \subseteq Upto(A, manifest.seq)
      /\ Content(tables, Files(version)) \subseteq Upto(A, lastSeq)
  BY <1>1 DEF PoolOf, OpenPool
<1>5. Content(tables, merge.edit.add0 \union merge.edit.addDeep) \subseteq Upto(A, merge.edit.seq)
  BY <1>2, <1>3, Zenon
<1>6. merge.edit.seq \in Nat /\ manifest.seq <= merge.edit.seq /\ merge.edit.seq <= lastSeq
  BY <1>2
<1> DEFINE e == merge.edit
<1>7. /\ e.seq \in Nat /\ manifest.seq <= e.seq /\ e.seq <= lastSeq
      /\ Content(tables, e.add0 \union e.addDeep) \subseteq Upto(A, e.seq)
  BY <1>5, <1>6, Zenon
<1> HIDE DEF e
<1>8. /\ Content(tables, Files(Recorded(manifest, e).version)) \subseteq Upto(A, Recorded(manifest, e).seq)
      /\ Content(tables, Files(Applied(version, e))) \subseteq Upto(A, lastSeq)
      /\ Recorded(manifest, e).seq = e.seq
  BY <1>1, <1>4, <1>7, EditContent
<1> QED
  BY <1>6, <1>8, Zenon DEF e

LEMMA FailFlushPool ==
  ASSUME Sound, Places, FailFlush, NEW A, Good(A), PoolOf(A)
  PROVE  PoolOf(A)'
<1> DEFINE m == Recorded(manifest, flush.edit)
<1>1. /\ flush # None /\ flush.step = "apply" /\ flush' = None /\ manifest' \in {manifest, m}
      /\ UNCHANGED <<group, memtable, mem, imm, lastSeq, version, logNumber, merge, phase, logs, tables>>
  BY DEF FailFlush
<1>2. phase = "open" /\ (merge # None => merge.step # "apply")
  BY <1>1 DEF Sound, Stages, MergeSound, Flushing
<1>3. /\ m.seq \in Nat /\ m.seq <= lastSeq /\ Content(tables, Files(m.version)) \subseteq Upto(A, m.seq)
  BY <1>1, <1>2, FlushContent
<1> HIDE DEF m
<1>4. /\ manifest'.seq \in Nat /\ manifest'.seq <= lastSeq
      /\ Content(tables, Files(manifest'.version)) \subseteq Upto(A, manifest'.seq)
  BY <1>1, <1>2, <1>3 DEF PoolOf
<1>5. Content(tables, Files(version')) \subseteq Upto(A, lastSeq)
  BY <1>1, <1>2 DEF PoolOf, OpenPool
<1>6. logNumber' \in Nat /\ logNumber <= logNumber'
  BY <1>1 DEF Places, Logs
<1> QED
  BY <1>1, <1>2, <1>4, <1>5, <1>6, InstalledPool

LEMMA InstallFlushPool ==
  ASSUME Sound, Places, InstallFlush, NEW A, Good(A), PoolOf(A)
  PROVE  PoolOf(A)'
<1> DEFINE m == Recorded(manifest, flush.edit)
           v == Applied(version, flush.edit)
<1>1. /\ flush # None /\ flush.step = "apply" /\ flush' = None /\ manifest' = m /\ version' = v
      /\ imm' = 0 /\ memtable' = [i \in Referenced(mem, 0, gets) |-> memtable[i]]
      /\ logNumber' = flush.edit.log
      /\ UNCHANGED <<group, mem, lastSeq, merge, phase>>
  BY DEF InstallFlush
<1>2. phase = "open" /\ (merge # None => merge.step # "apply")
  BY <1>1 DEF Sound, Stages, MergeSound, Flushing
<1>3. /\ m.seq \in Nat /\ m.seq <= lastSeq /\ Content(tables, Files(m.version)) \subseteq Upto(A, m.seq)
      /\ Content(tables, Files(v)) \subseteq Upto(A, lastSeq)
  BY <1>1, <1>2, FlushContent
<1>4. /\ \A n \in DOMAIN logs' : n \in DOMAIN logs /\ logs'[n] = logs[n]
      /\ \A n \in DOMAIN tables' : n \in DOMAIN tables /\ tables'[n] = tables[n]
  BY DEF InstallFlush, DeleteObsoleteFiles
<1>5. logNumber' \in Nat /\ logNumber <= logNumber'
  BY <1>1, <1>2, FlushRecorded DEF Recorded
<1> HIDE DEF m, v
<1>6. mem # 0 /\ mem \in Referenced(mem, 0, gets)
  BY <1>2, ReferencedTo DEF Places, Memtables
<1>7. memtable'[mem] = memtable[mem]
  BY <1>1, <1>6
<1> QED
  BY <1>1, <1>2, <1>3, <1>4, <1>5, <1>7, InstalledPool

LEMMA FailMergePool ==
  ASSUME Sound, Places, FailMerge, NEW A, Good(A), PoolOf(A)
  PROVE  PoolOf(A)'
<1> DEFINE m == Recorded(manifest, merge.edit)
<1>1. /\ merge # None /\ merge.step = "apply" /\ merge' = None /\ manifest' \in {manifest, m}
      /\ UNCHANGED <<group, memtable, mem, imm, lastSeq, version, logNumber, flush, phase, logs, tables>>
  BY DEF FailMerge
<1>2. phase = "open" /\ flush = None
  BY <1>1, MergeRecorded
<1>3. /\ m.seq \in Nat /\ m.seq <= lastSeq /\ Content(tables, Files(m.version)) \subseteq Upto(A, m.seq)
  BY <1>1, <1>2, MergeContent
<1> HIDE DEF m
<1>4. /\ manifest'.seq \in Nat /\ manifest'.seq <= lastSeq
      /\ Content(tables, Files(manifest'.version)) \subseteq Upto(A, manifest'.seq)
  BY <1>1, <1>2, <1>3 DEF PoolOf
<1>5. Content(tables, Files(version')) \subseteq Upto(A, lastSeq)
  BY <1>1, <1>2 DEF PoolOf, OpenPool
<1>6. logNumber' \in Nat /\ logNumber <= logNumber'
  BY <1>1 DEF Places, Logs
<1> QED
  BY <1>1, <1>2, <1>4, <1>5, <1>6, InstalledPool

LEMMA InstallMergePool ==
  ASSUME Sound, Places, InstallMerge, NEW A, Good(A), PoolOf(A)
  PROVE  PoolOf(A)'
<1> DEFINE m == Recorded(manifest, merge.edit)
           v == Applied(version, merge.edit)
<1>1. /\ merge # None /\ merge.step = "apply" /\ merge' = None /\ manifest' = m /\ version' = v
      /\ UNCHANGED <<group, memtable, mem, imm, lastSeq, logNumber, flush, phase>>
  BY DEF InstallMerge
<1>2. phase = "open" /\ flush = None
  BY <1>1, MergeRecorded
<1>3. /\ m.seq \in Nat /\ m.seq <= lastSeq /\ Content(tables, Files(m.version)) \subseteq Upto(A, m.seq)
      /\ Content(tables, Files(v)) \subseteq Upto(A, lastSeq)
  BY <1>1, <1>2, MergeContent
<1>4. /\ \A n \in DOMAIN logs' : n \in DOMAIN logs /\ logs'[n] = logs[n]
      /\ \A n \in DOMAIN tables' : n \in DOMAIN tables /\ tables'[n] = tables[n]
  BY DEF InstallMerge, DeleteObsoleteFiles
<1>5. logNumber' \in Nat /\ logNumber <= logNumber'
  BY <1>1 DEF Places, Logs
<1> HIDE DEF m, v
<1> QED
  BY <1>1, <1>2, <1>3, <1>4, <1>5, InstalledPool

(* A flush or a compaction goes on: a table that no version names is made. *)
LEMMA OutputPool ==
  ASSUME NEW A, PoolOf(A), phase = "open",
         UNCHANGED <<group, memtable, mem, imm, lastSeq, version, logNumber, phase, logs, manifest>>,
         \A n \in InUse : (n \in DOMAIN tables' <=> n \in DOMAIN tables) /\ (n \in DOMAIN tables => tables'[n] = tables[n]),
         merge' # None => (merge # None /\ merge'.input = merge.input) \/ merge'.input = version,
         flush' # None /\ flush'.step = "apply" =>
           /\ flush'.edit.seq \in Nat /\ manifest.seq <= flush'.edit.seq /\ flush'.edit.seq <= lastSeq
           /\ Content(tables', flush'.edit.add0) \subseteq Upto(A, flush'.edit.seq),
         merge' # None /\ merge'.step = "apply" =>
           /\ merge'.edit.seq \in Nat /\ manifest.seq <= merge'.edit.seq /\ merge'.edit.seq <= lastSeq
           /\ Content(tables', {merge'.number}) \subseteq Upto(A, merge'.edit.seq)
  PROVE  PoolOf(A)'
<1>1. ~Replays' /\ ~Recovers' /\ Low' = Low /\ InFlight' = InFlight
  BY DEF Replays, Recovers, Low, InFlight
<1>2. OpenPool(A)
  BY DEF PoolOf
<1>3. \A S : S \subseteq InUse => Content(tables', S) \subseteq Content(tables, S)
  BY ContentStays
<1>4. Files(version) \subseteq InUse /\ Files(manifest.version) \subseteq InUse
  BY DEF InUse
<1>5. Content(tables', Files(version')) \subseteq Upto(A, lastSeq')
  BY <1>2, <1>3, <1>4 DEF OpenPool
<1>6. Content(tables', Files(manifest'.version)) \subseteq Upto(A, manifest'.seq)
  BY <1>3, <1>4 DEF PoolOf
<1>7. ASSUME merge' # None PROVE Content(tables', Files(merge'.input)) \subseteq Upto(A, lastSeq')
  <2>1. CASE merge'.input = version
    BY <1>5, <2>1
  <2>2. CASE merge # None /\ merge'.input = merge.input
    <3>1. Files(merge.input) \subseteq InUse
      BY <2>2 DEF InUse
    <3>2. Content(tables, Files(merge.input)) \subseteq Upto(A, lastSeq)
      BY <1>2, <2>2 DEF OpenPool
    <3>3. Content(tables', Files(merge.input)) \subseteq Upto(A, lastSeq)
      BY <1>3, <3>1, <3>2
    <3> QED
      BY <2>2, <3>3
  <2> QED
    BY <1>7, <2>1, <2>2
<1>8. OpenPool(A)'
  <2>1. InFlight' \subseteq A /\ \A e \in A : e.seq <= lastSeq' \/ e \in InFlight'
    BY <1>1, <1>2 DEF OpenPool
  <2>2. memtable'[mem'] \subseteq A /\ (imm' # 0 => memtable'[imm'] \subseteq Upto(A, lastSeq'))
    BY <1>2 DEF OpenPool
  <2> QED
    BY <1>5, <1>7, <2>1, <2>2 DEF OpenPool, Files
<1> QED
  BY <1>1, <1>6, <1>8 DEF PoolOf

LEMMA BuildTablePool ==
  ASSUME Sound, Places, BuildTable, NEW A, Good(A), PoolOf(A)
  PROVE  PoolOf(A)'
<1> DEFINE new == IF memtable[imm] = {} THEN {} ELSE {flush.number}
           e == Edit(new, {}, {}, mem)
<1>1. /\ flush # None /\ flush.step = "build"
      /\ UNCHANGED <<group, memtable, mem, imm, lastSeq, version, logNumber, merge, phase, logs, manifest>>
  BY DEF BuildTable
<1>2. phase = "open" /\ FlushFields(flush)
  BY <1>1 DEF Sound, Stages, Flushing
<1>3. /\ imm # 0 /\ flush.number \notin InUse
      /\ merge # None => merge.step # "apply"
  BY <1>1, <1>2 DEF Places, Memtables, FileNumbers, FilesOfEdits, Sound, MergeSound
<1>4. lastSeq \in Nat /\ manifest.seq \in Nat /\ manifest.seq <= lastSeq /\ memtable[imm] \subseteq Upto(A, lastSeq)
  BY <1>2, <1>3 DEF PoolOf, OpenPool
<1>5. e.seq = lastSeq /\ e.add0 = new
  BY DEF Edit
<1>6. CASE flush' = None /\ tables' = tables
  <2>1. \A n \in InUse : (n \in DOMAIN tables' <=> n \in DOMAIN tables) /\ (n \in DOMAIN tables => tables'[n] = tables[n])
    BY <1>6
  <2> QED
    BY <1>1, <1>2, <1>3, <1>6, <2>1, OutputPool
<1>7. CASE /\ tables' = IF memtable[imm] = {} THEN tables ELSE With(tables, flush.number, memtable[imm])
           /\ flush' = [flush EXCEPT !.step = "apply", !.edit = e]
  <2>1. flush'.edit = e
    BY <1>1, <1>2, <1>7 DEF FlushFields
  <2>2. Content(tables', new) \subseteq Upto(A, lastSeq)
    <3>1. CASE memtable[imm] = {}
      BY <3>1, ContentOfNone
    <3>2. CASE memtable[imm] # {}
      <4>1. PICK n, x : n = flush.number /\ x = memtable[imm]
        OBVIOUS
      <4>2. Content(With(tables, n, x), {n}) = x
        BY ContentOfNew
      <4> QED
        BY <1>4, <1>7, <3>2, <4>1, <4>2
    <3> QED
      BY <3>1, <3>2
  <2> HIDE DEF new, e
  <2>3. /\ flush'.edit.seq \in Nat /\ manifest.seq <= flush'.edit.seq /\ flush'.edit.seq <= lastSeq
        /\ Content(tables', flush'.edit.add0) \subseteq Upto(A, flush'.edit.seq)
    BY <1>4, <1>5, <2>1, <2>2
  <2>4. \A n \in InUse : (n \in DOMAIN tables' <=> n \in DOMAIN tables) /\ (n \in DOMAIN tables => tables'[n] = tables[n])
    <3>1. CASE tables' = tables
      BY <3>1
    <3>2. CASE tables' = With(tables, flush.number, memtable[imm])
      BY <1>3, <3>2 DEF With
    <3> QED
      BY <1>7, <3>1, <3>2
  <2> QED
    BY <1>1, <1>2, <1>3, <2>3, <2>4, OutputPool
<1> QED
  BY <1>6, <1>7 DEF BuildTable

LEMMA StartMergePool ==
  ASSUME Sound, Places, StartMerge, NEW A, PoolOf(A)
  PROVE  PoolOf(A)'
<1>1. /\ phase = "open" /\ flush = None /\ merge'.input = version /\ merge'.step = "open"
      /\ UNCHANGED <<group, memtable, mem, imm, lastSeq, version, logNumber, flush, phase, logs, tables, manifest>>
  BY DEF StartMerge, Busy, disk
<1> QED
  BY <1>1, OutputPool

LEMMA OpenCompactionOutputFilePool ==
  ASSUME Sound, Places, OpenCompactionOutputFile, NEW A, PoolOf(A)
  PROVE  PoolOf(A)'
<1>1. /\ merge # None /\ merge.step = "open" /\ flush = None /\ flush' = None
      /\ merge' = [merge EXCEPT !.step = "write", !.number = nextFile]
      /\ tables' = With(tables, nextFile, {})
      /\ UNCHANGED <<group, memtable, mem, imm, lastSeq, version, logNumber, phase, logs, manifest>>
  BY DEF OpenCompactionOutputFile
<1>2. phase = "open" /\ DOMAIN merge = {"step", "input", "number", "edit", "oldest"}
  BY <1>1 DEF Sound, Stages, MergeSound
<1>3. merge'.input = merge.input /\ merge'.step = "write"
  BY <1>1, <1>2
<1>4. nextFile \notin InUse
  BY <1>2 DEF Places, FileNumbers, Below
<1>5. \A n \in InUse : (n \in DOMAIN tables' <=> n \in DOMAIN tables) /\ (n \in DOMAIN tables => tables'[n] = tables[n])
  BY <1>1, <1>4 DEF With
<1> QED
  BY <1>1, <1>2, <1>3, <1>5, OutputPool

LEMMA FinishMergePool ==
  ASSUME Sound, Places, FinishMerge, NEW A, Good(A), PoolOf(A)
  PROVE  PoolOf(A)'
<1> DEFINE e == Edit({}, {merge.number}, Files(merge.input), logNumber)
           out == Compacted(EntriesOf(merge.input), merge.oldest)
<1>1. /\ merge # None /\ merge.step = "write" /\ flush = None /\ flush' = None
      /\ UNCHANGED <<group, memtable, mem, imm, lastSeq, version, logNumber, phase, logs, manifest>>
  BY DEF FinishMerge
<1>2. phase = "open" /\ DOMAIN merge = {"step", "input", "number", "edit", "oldest"}
  BY <1>1 DEF Sound, Stages, MergeSound
<1>3. merge.number \notin InUse
  BY <1>1 DEF Places, FileNumbers, FilesOfEdits
<1>4. /\ lastSeq \in Nat /\ manifest.seq \in Nat /\ manifest.seq <= lastSeq
      /\ Content(tables, Files(merge.input)) \subseteq Upto(A, lastSeq)
  BY <1>1, <1>2 DEF PoolOf, OpenPool
<1>5. out \subseteq Upto(A, lastSeq)
  BY <1>4 DEF Compacted, EntriesOf, Content
<1>6. e.seq = lastSeq
  BY DEF Edit
<1>7. CASE merge' = None /\ tables' = tables
  BY <1>1, <1>2, <1>7, OutputPool
<1>8. CASE /\ tables' = [n \in DOMAIN tables |-> IF n # merge.number THEN tables[n] ELSE out]
           /\ merge' = [merge EXCEPT !.step = "apply", !.edit = e]
  <2>1. merge'.edit = e /\ merge'.input = merge.input /\ merge'.number = merge.number
    BY <1>2, <1>8
  <2> HIDE DEF e, out
  <2>2. \A n \in InUse : (n \in DOMAIN tables' <=> n \in DOMAIN tables) /\ (n \in DOMAIN tables => tables'[n] = tables[n])
    BY <1>3, <1>8
  <2>3. Content(tables', {merge.number}) \subseteq Upto(A, lastSeq)
    <3> SUFFICES ASSUME merge.number \in DOMAIN tables' PROVE tables'[merge.number] \subseteq Upto(A, lastSeq)
      BY DEF Content
    <3> QED
      BY <1>5, <1>8
  <2>4. /\ merge'.edit.seq \in Nat /\ manifest.seq <= merge'.edit.seq /\ merge'.edit.seq <= lastSeq
        /\ Content(tables', {merge'.number}) \subseteq Upto(A, merge'.edit.seq)
    BY <1>4, <1>6, <2>1, <2>3
  <2> QED
    BY <1>1, <1>2, <2>1, <2>2, <2>4, OutputPool
<1> QED
  BY <1>7, <1>8 DEF FinishMerge

(* Deaths and recoveries.                                                  *)
LEMMA RecoverContent ==
  ASSUME Sound, NEW A, Good(A), PoolOf(A), Recovers
  PROVE  LET m == Recorded(manifest, flush.edit)
         IN m.seq = lastSeq /\ Content(tables, Files(m.version)) \subseteq Upto(A, m.seq)
<1>1. lastSeq \in Nat /\ manifest.seq \in Nat /\ manifest.seq <= lastSeq /\ RecoverPool(A) /\ A \subseteq Entry
  BY DEF PoolOf, Good, Recovers
<1>2. flush.edit.seq = lastSeq /\ Content(tables, flush.edit.add0) \subseteq Upto(A, lastSeq)
  BY <1>1 DEF RecoverPool
<1>3. flush.edit.add0 \union flush.edit.addDeep = flush.edit.add0
  BY DEF Sound, FlushSound, Flushing, Recovers
<1> DEFINE e == flush.edit
<1>4. /\ e.seq = lastSeq /\ Content(tables, e.add0 \union e.addDeep) \subseteq Upto(A, e.seq)
  BY <1>2, <1>3, Zenon
<1> HIDE DEF e
<1>5. Content(tables, Files(manifest.version)) \subseteq Upto(A, manifest.seq)
  BY DEF PoolOf
<1>6. Content(tables, Files(manifest.version)) \subseteq Upto(A, lastSeq)
  BY <1>1, <1>5, UptoMore
<1>7. e.seq \in Nat /\ manifest.seq <= e.seq /\ e.seq <= lastSeq
  BY <1>1, <1>4
<1>8. /\ Content(tables, Files(Recorded(manifest, e).version)) \subseteq Upto(A, Recorded(manifest, e).seq)
      /\ Content(tables, Files(Applied(manifest.version, e))) \subseteq Upto(A, lastSeq)
      /\ Recorded(manifest, e).seq = e.seq
  BY <1>1, <1>4, <1>5, <1>6, <1>7, EditContent
<1> QED
  BY <1>4, <1>8, Zenon DEF e

LEMMA DeathPool ==
  ASSUME Sound, Places, Forget, manifest' \in ManifestAfterDeath, UNCHANGED tables,
         NEW A, Good(A), PoolOf(A),
         \A n \in DOMAIN logs' : n >= Low => RecsIn(logs'[n], A), DOMAIN logs' = DOMAIN logs
  PROVE  PoolOf(A)'
<1>1. /\ group' = None /\ lastSeq' = 0 /\ phase' = "down"
      /\ phase # "down" => manifest.seq <= lastSeq
      /\ manifest.seq \in Nat /\ lastSeq \in Nat
  BY DEF Forget, PoolOf
<1>2. /\ manifest'.seq \in Nat /\ Content(tables, Files(manifest'.version)) \subseteq Upto(A, manifest'.seq)
      /\ manifest'.log \in Nat /\ Low <= manifest'.log
  <2>1. CASE manifest' = manifest
    BY <2>1 DEF PoolOf, Places, Logs, Low, Sound, Stages
  <2>2. CASE phase = "open" /\ flush # None /\ flush.step = "apply" /\ manifest' = Recorded(manifest, flush.edit)
    <3>1. /\ manifest'.seq \in Nat /\ Content(tables, Files(manifest'.version)) \subseteq Upto(A, manifest'.seq)
      BY <2>2, FlushContent
    <3>2. manifest'.log = mem /\ mem \in Nat /\ logNumber <= mem
      BY <2>2, FlushRecorded
    <3> QED
      BY <2>2, <3>1, <3>2 DEF Low
  <2>3. CASE Recovers /\ manifest' = Recorded(manifest, flush.edit)
    <3>1. /\ flush.edit.seq = lastSeq /\ Content(tables, flush.edit.add0) \subseteq Upto(A, lastSeq)
          /\ Content(tables, Files(manifest.version)) \subseteq Upto(A, manifest.seq) /\ manifest.seq <= lastSeq
      BY <1>1, <2>3 DEF PoolOf, RecoverPool, Recovers
    <3>2. flush.edit.add0 \union flush.edit.addDeep = flush.edit.add0
      BY <2>3 DEF Sound, FlushSound, Flushing, Recovers
    <3>3. Content(tables, Files(manifest.version)) \subseteq Upto(A, lastSeq)
      BY <1>1, <3>1, UptoMore DEF Good
    <3>4. /\ Content(tables, Files(manifest'.version)) \subseteq Upto(A, manifest'.seq) /\ manifest'.seq = lastSeq
      BY <1>1, <2>3, RecoverContent
    <3>5. manifest'.log = mem /\ mem \in Nat /\ logNumber = manifest.log /\ manifest.log <= mem
      BY <2>3, RecoveryRecorded DEF Places, Logs, Recovers
    <3> QED
      BY <1>1, <2>3, <3>4, <3>5 DEF Low, Recovers
  <2>4. CASE merge # None /\ merge.step = "apply" /\ manifest' = Recorded(manifest, merge.edit)
    <3>1. manifest'.log = logNumber /\ phase = "open" /\ logNumber \in Nat
      BY <2>4, MergeRecorded DEF Places, Logs
    <3>2. /\ manifest'.seq \in Nat /\ Content(tables, Files(manifest'.version)) \subseteq Upto(A, manifest'.seq)
      BY <2>4, <3>1, MergeContent
    <3> QED
      BY <3>1, <3>2 DEF Low
  <2> QED
    BY <2>1, <2>2, <2>3, <2>4, DeadManifest
<1>3. \A n \in DOMAIN logs' : n >= Low' => RecsIn(logs'[n], A)
  <2>1. Low' = manifest'.log
    BY <1>1 DEF Low
  <2>2. DOMAIN logs \subseteq Nat /\ Low \in Nat
    BY DEF Sound, Numbers, Places, Logs, Low
  <2> QED
    BY <1>2, <2>1, <2>2
<1>4. ~Replays' /\ ~Recovers' /\ phase' # "open" /\ phase' = "down"
  BY <1>1 DEF Replays, Recovers
<1> QED
  BY <1>1, <1>2, <1>3, <1>4 DEF PoolOf

LEMMA ProcessDiesPool ==
  ASSUME Sound, Queue, Places, ProcessDies, NEW A, Good(A), PoolOf(A)
  PROVE  PoolOf(A)'
<1>1. /\ Forget /\ manifest' \in ManifestAfterDeath /\ UNCHANGED tables
  BY DEF ProcessDies
<1>2. \A n \in DOMAIN logs : n >= Low => RecsIn(logs[n], A)
  BY DEF PoolOf
<1>3. CASE logs' = logs
  BY <1>1, <1>2, <1>3, DeathPool
<1>4. CASE group # None /\ logs' = [logs EXCEPT ![mem].recs = Append(@, ToSet(group.entries))]
  <2>1. phase = "open" /\ Low = logNumber /\ mem \in DOMAIN logs
    BY <1>4, WhileWriting
  <2>2. /\ DOMAIN logs' = DOMAIN logs /\ \A n \in DOMAIN logs : n # mem => logs'[n] = logs[n]
        /\ Len(logs[mem].recs) \in Nat /\ Len(logs'[mem].recs) = Len(logs[mem].recs) + 1
        /\ logs'[mem].recs[Len(logs[mem].recs) + 1] = InFlight
        /\ \A i \in 1..Len(logs[mem].recs) : logs'[mem].recs[i] = logs[mem].recs[i]
    BY <1>4, <2>1, AddRecordLogs
  <2>3. InFlight \subseteq A
    BY <2>1 DEF PoolOf, OpenPool
  <2>4. mem >= Low => RecsIn(logs'[mem], A)
    <3> SUFFICES ASSUME mem >= Low, NEW i \in 1..Len(logs[mem].recs) + 1
                 PROVE  logs'[mem].recs[i] \subseteq A
      BY <2>2 DEF RecsIn
    <3>1. i = Len(logs[mem].recs) + 1 \/ i \in 1..Len(logs[mem].recs)
      BY <2>2
    <3>2. RecsIn(logs[mem], A)
      BY <1>2, <2>1
    <3> QED
      BY <2>2, <2>3, <3>1, <3>2 DEF RecsIn
  <2>5. \A n \in DOMAIN logs' : n >= Low => RecsIn(logs'[n], A)
    BY <1>2, <2>2, <2>4
  <2> QED
    BY <1>1, <2>2, <2>5, DeathPool
<1> QED
  BY <1>3, <1>4 DEF ProcessDies

(* Of each log a prefix is left with all that was synced.                  *)
LEMMA MachineDiesLogs ==
  ASSUME Places, MachineDies
  PROVE  /\ DOMAIN logs' = DOMAIN logs
         /\ \A n \in DOMAIN logs :
              /\ LogFile(logs'[n]) /\ Len(logs'[n].recs) = logs'[n].synced
              /\ logs[n].synced <= Len(logs'[n].recs) /\ Len(logs'[n].recs) <= Len(logs[n].recs)
              /\ \A i \in 1..Len(logs'[n].recs) : logs'[n].recs[i] = logs[n].recs[i]
<1>1. PICK left : /\ \A n \in DOMAIN logs : left[n] \in logs[n].synced..Len(logs[n].recs)
                  /\ logs' = [n \in DOMAIN logs |-> [recs |-> SubSeq(logs[n].recs, 1, left[n]), synced |-> left[n]]]
  BY DEF MachineDies
<1>2. DOMAIN logs' = DOMAIN logs
  BY <1>1
<1>3. ASSUME NEW n \in DOMAIN logs
      PROVE  /\ LogFile(logs'[n]) /\ Len(logs'[n].recs) = logs'[n].synced
             /\ logs[n].synced <= Len(logs'[n].recs) /\ Len(logs'[n].recs) <= Len(logs[n].recs)
             /\ \A i \in 1..Len(logs'[n].recs) : logs'[n].recs[i] = logs[n].recs[i]
  <2>1. PICK l, k, m : l = logs[n] /\ k = logs'[n] /\ m = left[n]
    OBVIOUS
  <2>2. LogFile(l) /\ m \in l.synced..Len(l.recs) /\ k = [recs |-> SubSeq(l.recs, 1, m), synced |-> m]
    BY <1>1, <2>1 DEF Places, Logs
  <2>3. /\ LogFile(k) /\ k.synced = m /\ Len(k.recs) = m /\ l.synced <= m /\ m <= Len(l.recs)
        /\ \A i \in 1..m : k.recs[i] = l.recs[i]
    BY <2>2, CutOff
  <2> QED
    BY <2>1, <2>3, Zenon
<1> QED
  BY <1>2, <1>3

LEMMA MachineDiesPool ==
  ASSUME Sound, Places, MachineDies, NEW A, Good(A), PoolOf(A)
  PROVE  PoolOf(A)'
<1>1. /\ Forget /\ manifest' \in ManifestAfterDeath /\ UNCHANGED tables
  BY DEF MachineDies
<1>2. /\ DOMAIN logs' = DOMAIN logs
      /\ \A n \in DOMAIN logs : /\ Len(logs'[n].recs) <= Len(logs[n].recs)
                                /\ \A i \in 1..Len(logs'[n].recs) : logs'[n].recs[i] = logs[n].recs[i]
      /\ \A n \in DOMAIN logs : Len(logs'[n].recs) \in Nat /\ Len(logs[n].recs) \in Nat
  <2>1. \A l : LogFile(l) => Len(l.recs) \in Nat
    BY DEF LogFile
  <2> QED
    BY <2>1, MachineDiesLogs DEF Places, Logs
<1>3. ASSUME NEW n \in DOMAIN logs', n >= Low PROVE RecsIn(logs'[n], A)
  <2>1. RecsIn(logs[n], A)
    BY <1>2, <1>3 DEF PoolOf
  <2>2. \A i \in 1..Len(logs'[n].recs) : i \in 1..Len(logs[n].recs)
    BY <1>2, <1>3
  <2> QED
    BY <1>2, <1>3, <2>1, <2>2 DEF RecsIn
<1> QED
  BY <1>1, <1>2, <1>3, DeathPool

LEMMA StartRecoveryPool ==
  ASSUME Sound, StartRecovery, NEW A, PoolOf(A)
  PROVE  PoolOf(A)'
<1>1. /\ phase = "down" /\ phase' = "opening" /\ logNumber' = manifest.log /\ lastSeq' = manifest.seq
      /\ flush'.step = "replay" /\ flush'.left = LogsToReplay /\ flush'.read = 0
      /\ flush'.entries = {} /\ flush'.made = {}
      /\ UNCHANGED <<logs, tables, manifest>>
  BY DEF StartRecovery, disk
<1>2. Low' = manifest.log /\ Low = manifest.log /\ manifest.seq \in Nat
  BY <1>1 DEF Low, PoolOf
<1>3. Replays' /\ ~Recovers'
  BY <1>1 DEF Replays, Recovers
<1>4. ReplayPool(A)'
  <2>1. Content(tables', flush'.made) \union flush'.entries = {}
    BY <1>1, ContentOfNone
  <2>2. LogsToReplay' = LogsToReplay
    BY <1>1 DEF LogsToReplay
  <2>3. \A n \in LogsToReplay' : \A i \in 1..Len(logs'[n].recs) : ~Replayed(n, i)'
    BY <1>1, <2>2 DEF Replayed
  <2> QED
    BY <2>1, <2>3 DEF ReplayPool
<1>5. \A n \in DOMAIN logs' : n >= Low' => RecsIn(logs'[n], A)
  BY <1>1, <1>2 DEF PoolOf
<1>6. Content(tables', Files(manifest'.version)) \subseteq Upto(A, manifest'.seq)
  BY <1>1 DEF PoolOf
<1> QED
  BY <1>1, <1>2, <1>3, <1>4, <1>5, <1>6 DEF PoolOf

(* The sequence goes on after the last one of the record.                  *)
LEMMA ReplayedSequenceIs ==
  ASSUME lastSeq \in Nat, NEW A, Good(A), NEW record, record \subseteq A
  PROVE  /\ ReplayedSequence(record) \in Nat /\ lastSeq <= ReplayedSequence(record)
         /\ \A e \in record : e.seq <= ReplayedSequence(record)
<1>1. PICK b \in Nat : \A e \in A : e.seq <= b
  BY DEF Good
<1>2. \A e \in record : e.seq \in Nat
  BY DEF Good, Entry
<1> DEFINE S == {e.seq : e \in record} \union {0}
           m == Max(S)
<1>3. m \in Nat /\ \A e \in record : e.seq <= m
  <2>1. S \in SUBSET Nat /\ S # {} /\ \A n \in S : n <= b
    BY <1>1, <1>2
  <2>2. \A e \in record : e.seq \in S
    OBVIOUS
  <2> HIDE DEF S
  <2>3. m \in S /\ \A n \in S : n <= m
    BY <1>1, <2>1, Greatest
  <2> QED
    BY <2>1, <2>2, <2>3
<1>4. MaxSeq(record) = m
  BY DEF MaxSeq
<1> HIDE DEF m
<1> DEFINE T == {lastSeq, m}
           x == Max(T)
<1>5. x \in Nat /\ lastSeq <= x /\ m <= x
  <2>1. PICK c \in Nat : lastSeq <= c /\ m <= c
    <3>1. lastSeq + m \in Nat /\ lastSeq <= lastSeq + m /\ m <= lastSeq + m
      BY <1>3
    <3> QED
      BY <3>1
  <2>2. T \in SUBSET Nat /\ T # {} /\ lastSeq \in T /\ m \in T /\ \A n \in T : n <= c
    BY <1>3, <2>1
  <2> HIDE DEF T
  <2> QED
    BY <2>1, <2>2, Greatest
<1>6. ReplayedSequence(record) = x
  BY <1>4 DEF ReplayedSequence
<1> HIDE DEF x
<1> QED
  BY <1>2, <1>3, <1>5, <1>6

LEMMA ReplayRecordPool ==
  ASSUME Sound, Places, NEW n \in DOMAIN logs, ReplayRecord(n), NEW A, Good(A), PoolOf(A)
  PROVE  PoolOf(A)'
<1> DEFINE record == logs[n].recs[flush.read + 1]
           entries == flush.entries \union record
           done == Content(tables, flush.made) \union flush.entries
<1>1. /\ Replays /\ flush'.step = "replay" /\ n \in flush.left /\ \A m \in flush.left : n <= m
      /\ UNCHANGED <<memtable, mem, imm, version, logNumber, merge, bgError, gets, phase, logs, manifest, group>>
      /\ flush.read \in Nat /\ flush.read + 1 \in 1..Len(logs[n].recs)
      /\ lastSeq' = ReplayedSequence(record)
      /\ flush'.read = flush.read + 1 /\ flush'.left = flush.left
  BY ReplayRecordIs
<1>2. \/ /\ tables' = With(tables, nextFile, entries)
         /\ flush'.entries = {} /\ flush'.made = flush.made \union {nextFile}
      \/ tables' = tables /\ flush'.entries = entries /\ flush'.made = flush.made
  BY ReplayRecordIs
<1>3. /\ phase = "opening" /\ Low = manifest.log /\ Low' = manifest.log /\ LogsToReplay' = LogsToReplay
      /\ Below(flush.made, nextFile) /\ Below(Files(manifest.version), nextFile)
      /\ flush.left \subseteq LogsToReplay
  BY <1>1 DEF Replays, Low, Places, Logs, FileNumbers, InUse, Below, LogsToReplay
<1>4. /\ lastSeq \in Nat /\ manifest.seq \in Nat /\ manifest.seq <= lastSeq /\ done \subseteq Upto(A, lastSeq)
      /\ \A m \in LogsToReplay : \A i \in 1..Len(logs[m].recs) : Replayed(m, i) => logs[m].recs[i] \subseteq done
  BY <1>1, <1>3 DEF PoolOf, ReplayPool
<1>5. record \subseteq A
  <2>1. n \in DOMAIN logs /\ n >= Low
    BY <1>1, <1>3 DEF LogsToReplay
  <2> QED
    BY <1>1, <2>1 DEF PoolOf, RecsIn
<1> HIDE DEF record
<1>6. lastSeq' \in Nat /\ lastSeq <= lastSeq' /\ \A e \in record : e.seq <= lastSeq'
  BY <1>1, <1>4, <1>5, ReplayedSequenceIs
<1>7. done \union record \subseteq Upto(A, lastSeq')
  <2>1. Upto(A, lastSeq) \subseteq Upto(A, lastSeq')
    BY <1>4, <1>6, UptoMore DEF Good
  <2>2. record \subseteq Upto(A, lastSeq')
    BY <1>5, <1>6 DEF Upto
  <2> QED
    BY <1>4, <2>1, <2>2
<1>8. Content(tables', flush'.made) \union flush'.entries = done \union record
  <2>1. CASE tables' = tables /\ flush'.entries = entries /\ flush'.made = flush.made
    BY <2>1
  <2>2. CASE /\ tables' = With(tables, nextFile, entries)
             /\ flush'.entries = {} /\ flush'.made = flush.made \union {nextFile}
    <3>1. nextFile \notin flush.made
      BY <1>3 DEF Below
    <3>2. PICK t, k, x, S : t = tables /\ k = nextFile /\ x = entries /\ S = flush.made
      OBVIOUS
    <3>6. k \notin S
      BY <3>1, <3>2
    <3>3. Content(With(t, k, x), S) = Content(t, S) /\ Content(With(t, k, x), {k}) = x
      BY <3>6, ContentOfOld, ContentOfNew
    <3>4. \A u : Content(u, S \union {k}) = Content(u, S) \union Content(u, {k})
      BY DEF Content
    <3>5. Content(tables', flush'.made) = Content(t, S) \union x
      BY <2>2, <3>2, <3>3, <3>4, Zenon
    <3> QED
      BY <2>2, <3>2, <3>5
  <2> QED
    BY <1>2, <2>1, <2>2
<1> DEFINE now == done \union record
<1>9. ReplayPool(A)'
  <2>1. ASSUME NEW m \in LogsToReplay', NEW i \in 1..Len(logs'[m].recs), Replayed(m, i)'
        PROVE  logs'[m].recs[i] \subseteq now
    <3>1. m \in LogsToReplay /\ i \in 1..Len(logs[m].recs) /\ logs'[m] = logs[m]
      BY <1>1, <1>3, <2>1
    <3>2. m \in flush.left => i <= flush.read + 1 /\ \A k \in flush.left : m <= k
      BY <1>1, <2>1 DEF Replayed
    <3>3. CASE Replayed(m, i)
      BY <1>4, <3>1, <3>3
    <3>4. CASE ~Replayed(m, i)
      <4>1. m \in flush.left /\ i <= flush.read + 1 /\ ~(i <= flush.read) /\ \A k \in flush.left : m <= k
        BY <3>2, <3>4 DEF Replayed
      <4>2. i = flush.read + 1
        BY <1>1, <3>1, <4>1
      <4>3. m = n
        <5>1. m \in Nat /\ n \in Nat
          BY <1>1, <3>1 DEF Sound, Numbers, LogsToReplay
        <5> QED
          BY <1>1, <4>1, <5>1
      <4> QED
        BY <3>1, <4>2, <4>3 DEF record
    <3> QED
      BY <3>3, <3>4
  <2> QED
    BY <1>7, <1>8, <2>1 DEF ReplayPool
<1>10. Content(tables', Files(manifest'.version)) \subseteq Upto(A, manifest'.seq)
  <2>1. CASE tables' = tables
    BY <1>1, <2>1 DEF PoolOf
  <2>2. CASE tables' = With(tables, nextFile, entries)
    <3>1. nextFile \notin Files(manifest.version)
      BY <1>3 DEF Below
    <3>2. PICK t, k, x, S : t = tables /\ k = nextFile /\ x = entries /\ S = Files(manifest.version)
      OBVIOUS
    <3>6. k \notin S
      BY <3>1, <3>2
    <3>3. Content(With(t, k, x), S) = Content(t, S)
      BY <3>6, ContentOfOld
    <3>4. Content(tables, Files(manifest.version)) \subseteq Upto(A, manifest.seq)
      BY DEF PoolOf
    <3> QED
      BY <1>1, <2>2, <3>2, <3>3, <3>4, Zenon
  <2> QED
    BY <1>2, <2>1, <2>2
<1>11. \A m \in DOMAIN logs' : m >= Low' => RecsIn(logs'[m], A)
  BY <1>1, <1>3 DEF PoolOf
<1>12. ~Recovers' /\ phase' # "open" /\ manifest'.seq \in Nat /\ manifest'.seq <= lastSeq'
  BY <1>1, <1>3, <1>4, <1>6 DEF Recovers
<1> QED
  BY <1>6, <1>9, <1>10, <1>11, <1>12 DEF PoolOf

LEMMA FinishReplayPool ==
  ASSUME Sound, Places, NEW n \in DOMAIN logs, FinishReplay(n), NEW A, Good(A), PoolOf(A)
  PROVE  PoolOf(A)'
<1> DEFINE done == Content(tables, flush.made) \union flush.entries
<1>1. /\ Replays /\ flush'.step = "replay" /\ n \in flush.left /\ \A m \in flush.left : n <= m
      /\ UNCHANGED <<memtable, mem, imm, version, logNumber, merge, bgError, gets, phase, logs, manifest,
                     group, lastSeq>>
      /\ flush.read = Len(logs[n].recs)
      /\ flush'.read = 0 /\ flush'.left = flush.left \ {n} /\ flush'.entries = {}
  BY FinishReplayIs
<1>2. \/ tables' = With(tables, nextFile, flush.entries) /\ flush'.made = flush.made \union {nextFile}
      \/ tables' = tables /\ flush.entries = {} /\ flush'.made = flush.made
  BY FinishReplayIs
<1>3. /\ phase = "opening" /\ Low = manifest.log /\ Low' = manifest.log /\ LogsToReplay' = LogsToReplay
      /\ Below(flush.made, nextFile) /\ Below(Files(manifest.version), nextFile)
  BY <1>1 DEF Replays, Low, Places, Logs, FileNumbers, InUse, Below, LogsToReplay
<1>4. /\ lastSeq \in Nat /\ manifest.seq \in Nat /\ manifest.seq <= lastSeq /\ done \subseteq Upto(A, lastSeq)
      /\ \A m \in LogsToReplay : \A i \in 1..Len(logs[m].recs) : Replayed(m, i) => logs[m].recs[i] \subseteq done
  BY <1>1, <1>3 DEF PoolOf, ReplayPool
<1>5. Content(tables', flush'.made) \union flush'.entries = done
  <2>1. CASE tables' = tables /\ flush.entries = {} /\ flush'.made = flush.made
    BY <1>1, <2>1
  <2>2. CASE tables' = With(tables, nextFile, flush.entries) /\ flush'.made = flush.made \union {nextFile}
    <3>1. nextFile \notin flush.made
      BY <1>3 DEF Below
    <3>2. PICK t, k, x, S : t = tables /\ k = nextFile /\ x = flush.entries /\ S = flush.made
      OBVIOUS
    <3>6. k \notin S
      BY <3>1, <3>2
    <3>3. Content(With(t, k, x), S) = Content(t, S) /\ Content(With(t, k, x), {k}) = x
      BY <3>6, ContentOfOld, ContentOfNew
    <3>4. \A u : Content(u, S \union {k}) = Content(u, S) \union Content(u, {k})
      BY DEF Content
    <3>5. Content(tables', flush'.made) = Content(t, S) \union x
      BY <2>2, <3>2, <3>3, <3>4, Zenon
    <3> QED
      BY <1>1, <3>2, <3>5
  <2> QED
    BY <1>2, <2>1, <2>2
<1>6. ReplayPool(A)'
  <2>1. ASSUME NEW m \in LogsToReplay', NEW i \in 1..Len(logs'[m].recs), Replayed(m, i)'
        PROVE  logs'[m].recs[i] \subseteq done
    <3>1. m \in LogsToReplay /\ i \in 1..Len(logs[m].recs) /\ logs'[m] = logs[m]
      BY <1>1, <1>3, <2>1
    <3>2. m \in flush.left \ {n} => i <= 0
      BY <1>1, <2>1 DEF Replayed
    <3>3. m \notin flush.left \ {n}
      BY <3>1, <3>2
    <3>4. Replayed(m, i)
      BY <1>1, <3>1, <3>3 DEF Replayed
    <3> QED
      BY <1>4, <3>1, <3>4
  <2> QED
    BY <1>1, <1>4, <1>5, <2>1 DEF ReplayPool
<1>10. Content(tables', Files(manifest'.version)) \subseteq Upto(A, manifest'.seq)
  <2>1. CASE tables' = tables
    BY <1>1, <2>1 DEF PoolOf
  <2>2. CASE tables' = With(tables, nextFile, flush.entries)
    <3>1. nextFile \notin Files(manifest.version)
      BY <1>3 DEF Below
    <3>2. PICK t, k, x, S : t = tables /\ k = nextFile /\ x = flush.entries /\ S = Files(manifest.version)
      OBVIOUS
    <3>6. k \notin S
      BY <3>1, <3>2
    <3>3. Content(With(t, k, x), S) = Content(t, S)
      BY <3>6, ContentOfOld
    <3>4. Content(tables, Files(manifest.version)) \subseteq Upto(A, manifest.seq)
      BY DEF PoolOf
    <3> QED
      BY <1>1, <2>2, <3>2, <3>3, <3>4, Zenon
  <2> QED
    BY <1>2, <2>1, <2>2
<1>11. \A m \in DOMAIN logs' : m >= Low' => RecsIn(logs'[m], A)
  BY <1>1, <1>3 DEF PoolOf
<1>12. ~Recovers' /\ phase' # "open" /\ manifest'.seq \in Nat /\ manifest'.seq <= lastSeq' /\ lastSeq' \in Nat
  BY <1>1, <1>3, <1>4 DEF Recovers
<1> QED
  BY <1>6, <1>10, <1>11, <1>12 DEF PoolOf

LEMMA OpenNewLogPool ==
  ASSUME Sound, Places, OpenNewLog, NEW A, Good(A), PoolOf(A)
  PROVE  PoolOf(A)'
<1>1. /\ Replays /\ flush.left = {} /\ mem' = nextFile /\ memtable' = [n \in {nextFile} |-> {}]
      /\ logs' = With(logs, nextFile, NewLog)
      /\ flush'.step = "recover" /\ flush'.edit.seq = lastSeq /\ flush'.edit.add0 = flush.made
      /\ UNCHANGED <<lastSeq, version, logNumber, phase, tables, manifest>>
  BY DEF OpenNewLog, Replays
<1>2. phase = "opening" /\ Low = manifest.log /\ Low' = manifest.log /\ flush.entries = {}
  BY <1>1 DEF Replays, Low, Places, Logs
<1>3. /\ lastSeq \in Nat /\ manifest.seq \in Nat /\ manifest.seq <= lastSeq
      /\ Content(tables, flush.made) \subseteq Upto(A, lastSeq)
      /\ \A m \in LogsToReplay : \A i \in 1..Len(logs[m].recs) : logs[m].recs[i] \subseteq Content(tables, flush.made)
  BY <1>1, <1>2 DEF PoolOf, ReplayPool, Replayed
<1>4. /\ DOMAIN logs' = DOMAIN logs \union {nextFile} /\ logs'[nextFile].recs = <<>>
      /\ \A m \in DOMAIN logs : m # nextFile => logs'[m] = logs[m]
  BY <1>1 DEF With, NewLog
<1>5. ASSUME NEW m \in LogsToReplay' PROVE RecsIn(logs'[m], Content(tables, flush.made))
  <2>1. CASE m = nextFile
    BY <1>4, <2>1 DEF RecsIn
  <2>2. CASE m # nextFile
    <3>1. m \in LogsToReplay /\ logs'[m] = logs[m]
      BY <1>1, <1>4, <1>5, <2>2 DEF LogsToReplay
    <3> QED
      BY <1>3, <3>1 DEF RecsIn
  <2> QED
    BY <2>1, <2>2
<1>6. RecoverPool(A)'
  <2>1. memtable'[mem'] = {}
    BY <1>1
  <2> QED
    BY <1>1, <1>3, <1>5, <2>1 DEF RecoverPool
<1>7. \A m \in DOMAIN logs' : m >= Low' => RecsIn(logs'[m], A)
  <2> SUFFICES ASSUME NEW m \in DOMAIN logs', m >= Low' PROVE RecsIn(logs'[m], A)
    OBVIOUS
  <2>1. CASE m = nextFile
    BY <1>4, <2>1 DEF RecsIn
  <2>2. CASE m # nextFile
    BY <1>2, <1>4, <2>2 DEF PoolOf
  <2> QED
    BY <2>1, <2>2
<1>8. ~Replays' /\ phase' # "open" /\ manifest'.seq \in Nat /\ manifest'.seq <= lastSeq' /\ lastSeq' \in Nat
  BY <1>1, <1>2, <1>3 DEF Replays
<1>9. Content(tables', Files(manifest'.version)) \subseteq Upto(A, manifest'.seq)
  BY <1>1 DEF PoolOf
<1> QED
  BY <1>6, <1>7, <1>8, <1>9 DEF PoolOf

(* What only an obsolete log has left the entries in use.                  *)
LEMMA FinishOpenPool ==
  ASSUME Sound, Places, FinishOpen, NEW A, Good(A), PoolOf(A)
  PROVE  \E B : Good(B) /\ PoolOf(B)'
<1> DEFINE m == Recorded(manifest, flush.edit)
           v == Applied(version, flush.edit)
<1>0. PICK B : B = Upto(A, lastSeq)
  OBVIOUS
<1>1. /\ Recovers /\ phase' = "open" /\ flush' = None /\ manifest' = m /\ version' = v /\ logNumber' = flush.edit.log
      /\ UNCHANGED <<group, memtable, mem, imm, lastSeq, merge>>
      /\ DeleteObsoleteFiles({v}, {}, flush.edit.log)
  BY DEF FinishOpen, Recovers
<1>2. /\ group = None /\ merge = None /\ imm = 0 /\ version = manifest.version
      /\ flush.edit.log = mem /\ logs[mem] = NewLog /\ mem \in Nat
      /\ manifest.log \in Nat /\ manifest.log <= mem /\ \A n \in LogsToReplay : n <= mem
      /\ DOMAIN logs \subseteq Nat
  BY <1>1 DEF Sound, Stages, Numbers, Places, Memtables, Logs, Recovers
<1>3. /\ lastSeq \in Nat /\ memtable[mem] = {} /\ Content(tables, flush.edit.add0) \subseteq B
  BY <1>0, <1>1 DEF PoolOf, RecoverPool, Recovers
<1>4. m.seq = lastSeq /\ Content(tables, Files(m.version)) \subseteq B
  BY <1>0, <1>1, RecoverContent
<1>5. m.version = v
  BY <1>2 DEF Recorded
<1>6. Good(B) /\ Upto(B, lastSeq) = B
  BY <1>0 DEF Good, Upto
<1>7. /\ \A n \in DOMAIN logs' : n \in DOMAIN logs /\ n >= mem /\ logs'[n] = logs[n]
      /\ \A n \in DOMAIN tables' : n \in DOMAIN tables /\ tables'[n] = tables[n]
  BY <1>1, <1>2 DEF DeleteObsoleteFiles
<1> HIDE DEF m, v
<1>8. \A S : Content(tables', S) \subseteq Content(tables, S)
  BY <1>7, ContentStays
<1>9. \A n \in DOMAIN logs' : RecsIn(logs'[n], B)
  <2> SUFFICES ASSUME NEW n \in DOMAIN logs' PROVE RecsIn(logs'[n], B)
    OBVIOUS
  <2>1. n \in DOMAIN logs /\ n >= mem /\ n \in Nat
    BY <1>2, <1>7
  <2>2. n \in LogsToReplay
    BY <1>2, <2>1 DEF LogsToReplay
  <2>3. n = mem
    BY <1>2, <2>1, <2>2
  <2>4. logs'[n].recs = <<>>
    BY <1>2, <1>7, <2>3 DEF NewLog
  <2> QED
    BY <2>4 DEF RecsIn
<1>10. ~Replays' /\ ~Recovers' /\ InFlight' = {}
  BY <1>1, <1>2 DEF Replays, Recovers, InFlight
<1>11. Content(tables', Files(version')) \subseteq B
  BY <1>1, <1>4, <1>5, <1>8
<1>12. \A e \in B : e.seq <= lastSeq
  BY <1>0 DEF Upto
<1>13. OpenPool(B)'
  BY <1>1, <1>2, <1>3, <1>6, <1>10, <1>11, <1>12 DEF OpenPool, Files
<1>14. Content(tables', Files(manifest'.version)) \subseteq Upto(B, manifest'.seq)
  BY <1>1, <1>4, <1>6, <1>8
<1>15. manifest'.seq \in Nat /\ manifest'.seq <= lastSeq' /\ lastSeq' \in Nat
  BY <1>1, <1>3, <1>4
<1>16. PoolOf(B)'
  BY <1>1, <1>9, <1>10, <1>13, <1>14, <1>15 DEF PoolOf
<1> QED
  BY <1>6, <1>16

LEMMA InitPool == Init => \E A : Good(A) /\ PoolOf(A)
<1> SUFFICES ASSUME Init PROVE Good({}) /\ PoolOf({})
  OBVIOUS
<1>1. Good({})
  <2>1. 0 \in Nat
    OBVIOUS
  <2> QED
    BY <2>1 DEF Good
<1>2. /\ phase = "open" /\ group = None /\ mem = 3 /\ imm = 0 /\ memtable[3] = {} /\ lastSeq = 0 /\ flush = None /\ merge = None
      /\ DOMAIN logs = {3} /\ logs[3].recs = <<>> /\ tables = <<>> /\ manifest.seq = 0
  BY DEF Init, NewLog
<1>3. \A S : Content(tables, S) = {}
  <2>1. DOMAIN tables = {}
    BY <1>2
  <2> QED
    BY <2>1 DEF Content
<1>4. InFlight = {}
  BY <1>2 DEF InFlight
<1>5. OpenPool({})
  BY <1>2, <1>3, <1>4 DEF OpenPool, Upto
<1>6. \A n \in DOMAIN logs : RecsIn(logs[n], {})
  BY <1>2 DEF RecsIn
<1>7. PoolOf({})
  BY <1>2, <1>3, <1>5, <1>6 DEF PoolOf, Replays, Recovers
<1> QED
  BY <1>1, <1>7

-----------------------------------------------------------------------------
(* Every step.                                                             *)
Pool == \E A : Good(A) /\ PoolOf(A)

LEMMA StepPool ==
  ASSUME Sound, Queue, Places, Pool, [Next]_vars
  PROVE  Pool'
<1> PICK A : Good(A) /\ PoolOf(A)
  BY DEF Pool
<1>1. SUFFICES \E B : Good(B) /\ PoolOf(B)'
  BY DEF Pool, Good
<1>2. ASSUME PoolOf(A)' PROVE \E B : Good(B) /\ PoolOf(B)'
  BY <1>2
<1>3. ASSUME UNCHANGED <<group, memtable, mem, imm, lastSeq, version, logNumber, merge, phase, logs, tables, manifest>>,
             flush' = flush \/ (phase = "open" /\ flush'.step = "build")
      PROVE  PoolOf(A)'
  <2>1. InFlight' = InFlight
    BY <1>3 DEF InFlight
  <2> QED
    BY <1>3, <2>1, UntouchedPool
<1>4. CASE ClientStep
  BY <1>2, <1>3, <1>4 DEF ClientStep, Enqueue, GetSnapshot, ReleaseSnapshot, BeginGet, disk
<1>5. CASE WriterStep
  <2>1. CASE YieldError \/ NoNewLog
    BY <1>2, <1>3, <2>1 DEF YieldError, NoNewLog, disk
  <2> QED
    BY <1>2, <1>5, <2>1, WriteInPlacePool, SwitchMemTablePool, AddRecordPool, SyncLogPool, InsertPool,
       FinishWritePool DEF WriterStep
<1>6. CASE BackgroundStep
  <2>1. CASE StartFlush
    BY <1>2, <1>3, <2>1 DEF StartFlush, disk
  <2>2. CASE IdleCall
    BY <1>2, <1>3, <2>2 DEF IdleCall, disk
  <2> QED
    BY <1>2, <1>6, <2>1, <2>2, BuildTablePool, InstallFlushPool, FailFlushPool, StartMergePool,
       OpenCompactionOutputFilePool, FinishMergePool, InstallMergePool, FailMergePool DEF BackgroundStep
<1>7. CASE OpenStep
  BY <1>2, <1>7, StartRecoveryPool, OpenNewLogPool, FinishOpenPool, ReplayRecordPool, FinishReplayPool
  DEF OpenStep
<1>8. CASE \E r \in Readers : EndGet(r)
  BY <1>2, <1>8, EndGetPool
<1>9. CASE ProcessDies \/ MachineDies
  BY <1>2, <1>9, ProcessDiesPool, MachineDiesPool
<1>10. CASE UNCHANGED vars
  BY <1>2, <1>3, <1>10 DEF vars, memory, disk
<1> QED
  BY <1>4, <1>5, <1>6, <1>7, <1>8, <1>9, <1>10 DEF Next

-----------------------------------------------------------------------------
(* The four invariants together.                                           *)

LEMMA StepQueue ==
  ASSUME Sound, Queue, lastSeq \in Nat, [Next]_vars
  PROVE  Queue'
<1>1. Calls /\ spent \in [Bounds -> Nat]
  BY DEF Queue, Calls
<1>2. UNCHANGED spent => Spent
  BY <1>1, Spending
<1>3. Spend("faults") => Spent
  BY <1>1, Spending
<1>4. CASE ClientStep
  <2>1. ASSUME NEW w \in Writers, Enqueue(w) PROVE Queue'
    BY <2>1, EnqueueQueue
  <2>2. ASSUME NEW r \in Readers, GetSnapshot(r) \/ ReleaseSnapshot(r) \/ BeginGet(r) PROVE Queue'
    BY <1>2, <2>2, UntouchedQueue DEF GetSnapshot, ReleaseSnapshot, BeginGet
  <2> QED
    BY <1>4, <2>1, <2>2 DEF ClientStep
<1>5. CASE WriterStep
  <2>1. CASE YieldError \/ NoNewLog
    <3>1. /\ writers # <<>> /\ group = None /\ group' = None /\ Answer(<<Head(writers)>>) /\ Spent
      BY <1>2, <1>3, <2>1 DEF YieldError, NoNewLog, FrontReady
    <3>2. Calls'
      BY <1>1, <3>1, FrontAnswered
    <3> QED
      BY <3>1, <3>2 DEF Queue, Group
  <2>2. CASE WriteInPlace
    BY <2>2, LeadQueue DEF WriteInPlace
  <2>3. CASE SwitchMemTable
    BY <2>3, LeadQueue DEF SwitchMemTable
  <2> QED
    BY <1>5, <2>1, <2>2, <2>3, AddRecordQueue, SyncLogQueue, InsertQueue, FinishWriteQueue DEF WriterStep
<1>6. CASE BackgroundStep
  <2>1. UNCHANGED <<op, writers, group, lastSeq>>
    BY <1>6 DEF BackgroundStep, StartFlush, BuildTable, InstallFlush, FailFlush, StartMerge,
       OpenCompactionOutputFile, FinishMerge, InstallMerge, FailMerge, IdleCall
  <2>2. UNCHANGED spent \/ Spend("faults")
    BY <1>6 DEF BackgroundStep, StartFlush, BuildTable, InstallFlush, FailFlush, StartMerge,
       OpenCompactionOutputFile, FinishMerge, InstallMerge, FailMerge, IdleCall
  <2> QED
    BY <1>2, <1>3, <2>1, <2>2, UntouchedQueue
<1>7. CASE OpenStep
  <2>1. phase # "open" /\ UNCHANGED <<op, writers, group, spent>>
    BY <1>7 DEF OpenStep, StartRecovery, OpenNewLog, FinishOpen, ReplayRecord, FinishReplay, Replaying, disk
  <2>2. group = None
    BY <2>1 DEF Sound, Stages
  <2> QED
    BY <1>2, <2>1, <2>2, UntouchedQueue
<1>8. CASE \E r \in Readers : EndGet(r)
  BY <1>2, <1>8, UntouchedQueue DEF EndGet
<1>9. CASE ProcessDies \/ MachineDies
  <2>1. Forget /\ (Spend("crashes") \/ Spend("losses"))
    BY <1>9 DEF ProcessDies, MachineDies
  <2>2. Spent
    BY <1>1, <2>1, Spending
  <2> QED
    BY <2>1, <2>2, ForgetQueue
<1>10. CASE UNCHANGED vars
  BY <1>2, <1>10, UntouchedQueue DEF vars, memory
<1> QED
  BY <1>4, <1>5, <1>6, <1>7, <1>8, <1>9, <1>10 DEF Next

LEMMA StepPlaces ==
  ASSUME Sound, Queue, Places, [Next]_vars
  PROVE  Places'
<1> USE DEF disk
<1>1. ASSUME UNCHANGED <<memtable, mem, imm, nextFile, version, logNumber, flush, merge, gets, phase, logs, manifest>>,
             bgError' = FALSE => bgError = FALSE
      PROVE  Places'
  BY <1>1, UntouchedPlaces
<1>4. CASE ClientStep
  <2>1. ASSUME NEW r \in Readers, BeginGet(r) PROVE Places'
    BY <2>1, BeginGetPlaces
  <2>2. ASSUME NEW r \in Readers, GetSnapshot(r) \/ ReleaseSnapshot(r) PROVE Places'
    BY <1>1, <2>2 DEF GetSnapshot, ReleaseSnapshot
  <2>3. ASSUME NEW w \in Writers, Enqueue(w) PROVE Places'
    BY <1>1, <2>3 DEF Enqueue
  <2> QED
    BY <1>4, <2>1, <2>2, <2>3 DEF ClientStep
<1>5. CASE WriterStep
  <2>1. CASE YieldError \/ NoNewLog \/ WriteInPlace
    BY <1>1, <2>1 DEF YieldError, NoNewLog, WriteInPlace
  <2>2. CASE FinishWrite
    <3>1. bgError \in BOOLEAN
      BY DEF Sound, Stages
    <3> QED
      BY <1>1, <2>2, <3>1 DEF FinishWrite
  <2> QED
    BY <1>5, <2>1, <2>2, SwitchMemTablePlaces, AddRecordPlaces, SyncLogPlaces, InsertPlaces DEF WriterStep
<1>6. CASE BackgroundStep
  <2>1. CASE IdleCall
    BY <1>1, <2>1 DEF IdleCall
  <2> QED
    BY <1>6, <2>1, StartFlushPlaces, BuildTablePlaces, InstallFlushPlaces, FailFlushPlaces, StartMergePlaces,
       OpenCompactionOutputFilePlaces, FinishMergePlaces, InstallMergePlaces, FailMergePlaces DEF BackgroundStep
<1>7. CASE OpenStep
  BY <1>7, StartRecoveryPlaces, OpenNewLogPlaces, FinishOpenPlaces, ReplayRecordPlaces, FinishReplayPlaces
  DEF OpenStep
<1>8. CASE \E r \in Readers : EndGet(r)
  BY <1>8, EndGetPlaces
<1>9. CASE ProcessDies
  <2>1. /\ Forget /\ manifest' \in ManifestAfterDeath
        /\ \/ logs' = logs
           \/ group # None /\ logs' = [logs EXCEPT ![mem].recs = Append(@, ToSet(group.entries))]
    BY <1>9 DEF ProcessDies
  <2>2. DOMAIN logs' = DOMAIN logs /\ \A n \in DOMAIN logs : LogFile(logs'[n])
    <3>1. CASE logs' = logs
      BY <3>1 DEF Places, Logs
    <3>2. CASE group # None /\ logs' = [logs EXCEPT ![mem].recs = Append(@, ToSet(group.entries))]
      <4>1. mem \in DOMAIN logs
        BY <3>2, WhileWriting
      <4> QED
        BY <3>2, <4>1, AddRecordLogs
    <3> QED
      BY <2>1, <3>1, <3>2
  <2> QED
    BY <2>1, <2>2, DeathPlaces
<1>10. CASE MachineDies
  <2>1. /\ Forget /\ manifest' \in ManifestAfterDeath
    BY <1>10 DEF MachineDies
  <2>2. DOMAIN logs' = DOMAIN logs /\ \A n \in DOMAIN logs : LogFile(logs'[n])
    BY <1>10, MachineDiesLogs
  <2> QED
    BY <2>1, <2>2, DeathPlaces
<1>11. CASE UNCHANGED vars
  BY <1>1, <1>11 DEF vars, memory
<1> QED
  BY <1>4, <1>5, <1>6, <1>7, <1>8, <1>9, <1>10, <1>11 DEF Next

LEMMA InitQueue == Init => Queue
<1> SUFFICES ASSUME Init PROVE Queue
  OBVIOUS
<1>1. /\ DOMAIN op = Writers /\ \A w \in Writers : op[w] = None
      /\ writers = <<>> /\ group = None
      /\ spent = [writes |-> 0, faults |-> 0, crashes |-> 0, losses |-> 0]
  BY DEF Init
<1>2. ToSet(writers) = {w \in Writers : op[w] # None} /\ IsInjective(writers)
  BY <1>1 DEF ToSet, IsInjective
<1>3. spent \in [Bounds -> Nat] /\ spent.writes <= MaxWrites
  BY <1>1, BoundsAssumption DEF Bounds
<1> QED
  BY <1>1, <1>2, <1>3 DEF Queue, Calls, Group

(* A call of the background thread is scheduled or not.                    *)
LEMMA StepScheduled ==
  ASSUME scheduled \in BOOLEAN, [Next]_vars
  PROVE  scheduled' \in BOOLEAN
<1>1. scheduled' = scheduled \/ scheduled' \in BOOLEAN
  <2>1. CASE ClientStep \/ WriterStep \/ \E r \in Readers : EndGet(r)
    BY <2>1 DEF ClientStep, Enqueue, GetSnapshot, ReleaseSnapshot, BeginGet, EndGet, WriterStep, YieldError,
       WriteInPlace, SwitchMemTable, NoNewLog, AddRecord, SyncLog, InsertIntoMem, FinishWrite
  <2>2. CASE BackgroundStep
    <3>1. \A i, v, err : EndCall(i, v, err) => scheduled' \in BOOLEAN
      BY DEF EndCall
    <3>2. CASE StartFlush \/ StartMerge \/ OpenCompactionOutputFile
      BY <3>2 DEF StartFlush, StartMerge, OpenCompactionOutputFile
    <3>3. CASE BuildTable \/ InstallFlush \/ FailFlush
      BY <3>1, <3>3 DEF BuildTable, InstallFlush, FailFlush
    <3>4. CASE FinishMerge \/ InstallMerge \/ FailMerge \/ IdleCall
      BY <3>1, <3>4 DEF FinishMerge, InstallMerge, FailMerge, IdleCall
    <3> QED
      BY <2>2, <3>2, <3>3, <3>4 DEF BackgroundStep
  <2>3. CASE OpenStep
    BY <2>3 DEF OpenStep, StartRecovery, OpenNewLog, FinishOpen, ReplayRecord, FinishReplay, Replaying, EndCall
  <2>4. CASE ProcessDies \/ MachineDies
    BY <2>4 DEF ProcessDies, MachineDies, Forget
  <2>5. CASE UNCHANGED vars
    BY <2>5 DEF vars, memory
  <2> QED
    BY <2>1, <2>2, <2>3, <2>4, <2>5 DEF Next
<1> QED
  BY <1>1

Inv == Sound /\ Queue /\ Places /\ Pool /\ scheduled \in BOOLEAN

(* The invariants hold at first, and after each step.                      *)
LEMMA InitInv == Init => Inv
<1>1. Init => scheduled \in BOOLEAN
  BY DEF Init
<1> QED
  BY <1>1, InitSound, InitQueue, InitPlaces, InitPool DEF Inv, Pool

LEMMA StepInv == Inv /\ [Next]_vars => Inv'
<1> SUFFICES ASSUME Inv, [Next]_vars PROVE Inv'
  OBVIOUS
<1>1. lastSeq \in Nat
  BY DEF Inv, Pool, PoolOf
<1> QED
  BY <1>1, StepSound, StepQueue, StepPlaces, StepPool, StepScheduled DEF Inv

(* They give the types,                                                    *)
LEMMA TypesAreOK == Inv => TypeOK
<1> SUFFICES ASSUME Inv PROVE TypeOK
  OBVIOUS
<1>1. ASSUME NEW n \in DOMAIN logs PROVE logs[n].synced \in 0..Len(logs[n].recs)
  <2>1. LogFile(logs[n])
    BY DEF Inv, Places, Logs
  <2>2. \A l : LogFile(l) => l.synced \in 0..Len(l.recs)
    BY DEF LogFile
  <2> QED
    BY <2>1, <2>2
<1>2. lastSeq \in Nat
  BY DEF Inv, Pool, PoolOf
<1>3. /\ nextFile \in Nat /\ phase \in {"open", "down", "opening"} /\ bgError \in BOOLEAN /\ scheduled \in BOOLEAN
  BY DEF Inv, Sound, Numbers, Stages
<1>4. mem \in Nat /\ imm \in Nat /\ DOMAIN memtable = Referenced(mem, imm, gets) /\ logNumber \in Nat
  BY DEF Inv, Places, Memtables, Logs
<1>5. /\ \A w \in Writers : op[w] # None => Call(op[w])
      /\ writers \in Seq(Writers) /\ IsInjective(writers)
      /\ ToSet(writers) = {w \in Writers : op[w] # None}
  BY DEF Inv, Queue, Calls
<1> QED
  BY <1>1, <1>2, <1>3, <1>4, <1>5 DEF TypeOK, Call

(* The records of a log by their places.                                   *)
LEMMA RecordsAre ==
  ASSUME NEW n, LogFile(logs[n]), NEW E, RecsIn(logs[n], E)
  PROVE  RecordsOf(n) \subseteq E
<1>1. PICK q : q = logs[n].recs
  OBVIOUS
<1>2. q \in Seq(SUBSET Entry)
  BY <1>1 DEF LogFile
<1>3. DOMAIN q = 1..Len(q)
  BY <1>2
<1>4. \A i \in 1..Len(q) : q[i] \subseteq E
  BY <1>1 DEF RecsIn
<1>5. RecordsOf(n) = UNION {q[i] : i \in DOMAIN q}
  BY <1>1 DEF RecordsOf, ToSet
<1> QED
  BY <1>3, <1>4, <1>5

(* and that no two entries have one sequence number: all are of the pool.  *)
LEMMA NumbersAreUnique == Inv => SequencesAreUnique
<1> SUFFICES ASSUME Inv PROVE SequencesAreUnique
  OBVIOUS
<1>1. PICK A : Good(A) /\ PoolOf(A)
  BY DEF Inv, Pool
<1>2. lastSeq \in Nat /\ manifest.seq \in Nat /\ \A s : Upto(A, s) \subseteq A
  BY <1>1 DEF PoolOf, Upto
<1>3. \A v : EntriesOf(v) = Content(tables, Files(v))
  BY DEF EntriesOf, Content
<1>4. EntriesOf(manifest.version) \subseteq A
  BY <1>1, <1>2, <1>3 DEF PoolOf
<1>5. ASSUME NEW n \in LogsToReplay PROVE RecordsOf(n) \subseteq A
  <2>1. n \in DOMAIN logs /\ n >= manifest.log
    BY DEF LogsToReplay
  <2>2. Low \in Nat /\ Low <= manifest.log /\ manifest.log \in Nat /\ n \in Nat
    BY <2>1 DEF Inv, Sound, Numbers, Stages, Places, Logs, Low
  <2>3. RecsIn(logs[n], A) /\ LogFile(logs[n])
    BY <1>1, <2>1, <2>2 DEF PoolOf, Inv, Places, Logs
  <2> QED
    BY <2>3, RecordsAre
<1>6. OnDisk \subseteq A
  BY <1>4, <1>5 DEF OnDisk
<1>7. InFlight \subseteq A
  <2>1. phase # "open" => group = None
    BY DEF Inv, Sound, Stages
  <2> QED
    BY <1>1, <2>1 DEF PoolOf, OpenPool, InFlight
<1>8. ASSUME phase = "open" PROVE Newest \subseteq A
  <2>1. OpenPool(A)
    BY <1>1, <1>8 DEF PoolOf
  <2>2. MemEntries(mem) \subseteq A /\ MemEntries(imm) \subseteq A
    BY <1>2, <2>1 DEF OpenPool, MemEntries
  <2>3. EntriesOf(version) \subseteq A
    BY <1>2, <1>3, <2>1 DEF OpenPool
  <2> QED
    BY <2>2, <2>3 DEF Newest
<1>9. \A e, f \in A : e.seq = f.seq => e = f
  BY <1>1 DEF Good
<1>10. OnDisk \union InFlight \union (IF phase = "open" THEN Newest ELSE {}) \subseteq A
  BY <1>6, <1>7, <1>8
<1> QED
  BY <1>9, <1>10 DEF SequencesAreUnique

THEOREM DiskSound == Spec => []DiskIsSound
<1>1. Inv => DiskIsSound
  BY TypesAreOK, NumbersAreUnique DEF DiskIsSound
<1> QED
  BY <1>1, InitInv, StepInv, PTL DEF Spec

-----------------------------------------------------------------------------
(* The fifth invariant: what is promised to the writers that sync is       *)
(* durable.                                                                *)

(* An entry is kept by one of its key that is as new.                      *)
Over(X, e) == \E f \in X : f.key = e.key /\ f.seq \in Nat /\ f.seq >= e.seq

Covers(X, Y) == \A e \in Y : e.seq \in Nat /\ Over(X, e)

(* More cover less,                                                        *)
LEMMA CoversLess ==
  ASSUME NEW X, NEW Y, NEW W, NEW Z, Covers(X, Y), Z \subseteq Y, X \subseteq W
  PROVE  Covers(W, Z)
BY DEF Covers, Over

(* both, if each,                                                          *)
LEMMA CoversBoth ==
  ASSUME NEW X, NEW Y, NEW Z, Covers(X, Y), Covers(X, Z)
  PROVE  Covers(X, Y \union Z)
BY DEF Covers

(* themselves,                                                             *)
LEMMA CoversItself ==
  ASSUME NEW X, X \subseteq Entry
  PROVE  Covers(X, X)
BY DEF Covers, Over, Entry

(* and what those they cover do.                                           *)
LEMMA CoversChain ==
  ASSUME NEW X, NEW Y, NEW Z, Covers(X, Y), Covers(Y, Z)
  PROVE  Covers(X, Z)
<1> SUFFICES ASSUME NEW e \in Z PROVE e.seq \in Nat /\ Over(X, e)
  BY DEF Covers
<1>1. PICK f \in Y : f.key = e.key /\ f.seq \in Nat /\ f.seq >= e.seq
  BY DEF Covers, Over
<1>2. PICK g \in X : g.key = f.key /\ g.seq \in Nat /\ g.seq >= f.seq
  BY DEF Covers, Over
<1>3. e.seq \in Nat
  BY DEF Covers
<1>4. g.seq >= e.seq
  BY <1>1, <1>2, <1>3
<1> QED
  BY <1>1, <1>2, <1>3, <1>4 DEF Over

(* What keeps each part of what is kept by its parts.                      *)
LEMMA CoversParts ==
  ASSUME NEW X, NEW S, NEW P, NEW W, Covers(X \union S, P), Covers(W, X), S \subseteq W
  PROVE  Covers(W, P)
<1> SUFFICES ASSUME NEW e \in P PROVE e.seq \in Nat /\ Over(W, e)
  BY DEF Covers
<1>1. PICK f \in X \union S : f.key = e.key /\ f.seq \in Nat /\ f.seq >= e.seq
  BY DEF Covers, Over
<1>2. e.seq \in Nat
  BY DEF Covers
<1>3. CASE f \in S
  BY <1>1, <1>2, <1>3 DEF Over
<1>4. CASE f \in X
  <2>1. PICK g \in W : g.key = f.key /\ g.seq \in Nat /\ g.seq >= f.seq
    BY <1>4 DEF Covers, Over
  <2>2. g.seq >= e.seq
    BY <1>1, <1>2, <2>1
  <2> QED
    BY <1>1, <1>2, <2>1, <2>2 DEF Over
<1> QED
  BY <1>1, <1>3, <1>4

(* A compaction keeps the newest entry of each key.                        *)
LEMMA CompactedCovers ==
  ASSUME NEW E, E \subseteq Entry, NEW b \in Nat, \A e \in E : e.seq <= b, NEW oldest
  PROVE  Covers(Compacted(E, oldest), E)
<1> SUFFICES ASSUME NEW e \in E PROVE e.seq \in Nat /\ Over(Compacted(E, oldest), e)
  BY DEF Covers
<1>1. \A f \in E : f.seq \in Nat
  BY DEF Entry
<1> DEFINE S == {f.seq : f \in {g \in E : g.key = e.key}}
<1>2. S \in SUBSET Nat /\ e.seq \in S /\ \A n \in S : n <= b
  BY <1>1
<1>3. \A n \in S : \E f \in E : f.key = e.key /\ f.seq = n
  OBVIOUS
<1>4. \A f \in E : f.key = e.key => f.seq \in S
  OBVIOUS
<1> HIDE DEF S
<1>5. Max(S) \in S /\ \A n \in S : n <= Max(S)
  BY <1>2, Greatest
<1>6. PICK m : m = Max(S)
  OBVIOUS
<1>7. PICK f \in E : f.key = e.key /\ f.seq = m
  BY <1>3, <1>5, <1>6
<1>8. ~ \E g \in E : g.key = f.key /\ g.seq > f.seq /\ g.seq <= oldest
  <2> SUFFICES ASSUME NEW g \in E, g.key = f.key, g.seq > f.seq PROVE FALSE
    OBVIOUS
  <2>1. g.seq \in S /\ g.seq \in Nat /\ m \in Nat
    BY <1>1, <1>2, <1>4, <1>5, <1>6, <1>7
  <2>2. g.seq <= m
    BY <1>5, <1>6, <2>1
  <2> QED
    BY <1>7, <2>1, <2>2
<1>9. f \in Compacted(E, oldest)
  BY <1>7, <1>8 DEF Compacted
<1>10. f.seq >= e.seq
  BY <1>1, <1>2, <1>5, <1>6, <1>7
<1> QED
  BY <1>1, <1>7, <1>9, <1>10 DEF Over

-----------------------------------------------------------------------------
(* The synced part of a log, and what a recovery finds of those it reads.  *)
SyncedOf(l) == UNION {l.recs[i] : i \in 1..l.synced}

Replayable(l, low) == UNION {SyncedOf(l[n]) : n \in {k \in DOMAIN l : k >= low}}

(* A log that keeps its synced records.                                    *)
LEMMA SyncedStays ==
  ASSUME NEW l, NEW k, l.synced \in Nat, k.synced \in Nat, l.synced <= k.synced,
         \A i \in 1..l.synced : k.recs[i] = l.recs[i]
  PROVE  SyncedOf(l) \subseteq SyncedOf(k)
<1> SUFFICES ASSUME NEW i \in 1..l.synced, NEW e \in l.recs[i] PROVE e \in SyncedOf(k)
  BY DEF SyncedOf
<1>1. i \in 1..k.synced /\ e \in k.recs[i]
  OBVIOUS
<1> QED
  BY <1>1 DEF SyncedOf

(* Logs that keep theirs, and are as old as the oldest needed.             *)
LEMMA ReplayableStays ==
  ASSUME NEW l, NEW k, NEW low, NEW high,
         \A n \in DOMAIN l : n >= low => n \in DOMAIN k /\ n >= high /\ SyncedOf(l[n]) \subseteq SyncedOf(k[n])
  PROVE  Replayable(l, low) \subseteq Replayable(k, high)
<1> SUFFICES ASSUME NEW n \in DOMAIN l, n >= low, NEW e \in SyncedOf(l[n]) PROVE e \in Replayable(k, high)
  BY DEF Replayable
<1> QED
  BY DEF Replayable

-----------------------------------------------------------------------------
(* The writes that were synced and answered are kept: on the disk, and     *)
(* once the MANIFEST makes the log of imm obsolete, without that log.      *)
DurableNow == Content(tables, Files(manifest.version)) \union Replayable(logs, manifest.log)

(* The entries that are in the log but not in the memtable yet.            *)
Left ==
  IF group # None /\ group.step \in {"sync", "insert"}
  THEN {group.entries[i] : i \in group.inserted + 1..Len(group.entries)} ELSE {}

GroupDur ==
  /\ group # None /\ group.step = "sync" =>
       /\ Len(logs[mem].recs) >= 1 /\ logs[mem].recs[Len(logs[mem].recs)] = InFlight
  /\ group # None /\ group.step \in {"insert", "end"} /\ group.ok = TRUE /\ op[group.members[1]].sync =>
       InFlight \subseteq SyncedOf(logs[mem])
  /\ bgError = FALSE /\ (group # None => group.step # "syncError") =>
       RecsIn(logs[mem], memtable[mem] \union Left)

StoreDur ==
  /\ Covers(Content(tables, Files(version)) \union (MemEntries(imm) \union SyncedOf(logs[mem])), promised)
  /\ Covers(Content(tables, Files(manifest.version)), Content(tables, Files(version)))
  /\ flush # None /\ flush.step = "apply" => MemEntries(imm) \subseteq Content(tables, flush.edit.add0)
  /\ merge # None /\ merge.step = "apply" =>
       Covers(Content(tables, {merge.number}), Content(tables, Files(merge.input)))

Dur ==
  /\ Covers(DurableNow, promised)
  /\ phase = "open" => StoreDur /\ GroupDur

(* The group and the log it writes to stay as they are.                    *)
LEMMA GroupDurKept ==
  ASSUME GroupDur, UNCHANGED <<group, mem>>, logs'[mem] = logs[mem], memtable'[mem] = memtable[mem],
         bgError' = FALSE => bgError = FALSE,
         group # None => op'[group.members[1]] = op[group.members[1]]
  PROVE  GroupDur'
<1>1. InFlight' = InFlight /\ Left' = Left
  BY DEF InFlight, Left
<1>2. group' # None /\ group'.step = "sync" =>
        Len(logs'[mem'].recs) >= 1 /\ logs'[mem'].recs[Len(logs'[mem'].recs)] = InFlight'
  BY <1>1 DEF GroupDur
<1>3. group' # None /\ group'.step \in {"insert", "end"} /\ group'.ok = TRUE /\ op'[group'.members[1]].sync =>
        InFlight' \subseteq SyncedOf(logs'[mem'])
  BY <1>1 DEF GroupDur
<1>4. bgError' = FALSE /\ (group' # None => group'.step # "syncError") =>
        RecsIn(logs'[mem'], memtable'[mem'] \union Left')
  BY <1>1 DEF GroupDur
<1> QED
  BY <1>2, <1>3, <1>4 DEF GroupDur, SyncedOf, RecsIn

(* Nobody writes, or a leader is about to.                                 *)
LEMMA GroupDurLead ==
  ASSUME GroupDur, group = None, group' = None \/ group'.step = "log",
         bgError' = FALSE => bgError = FALSE,
         (mem' = mem /\ logs'[mem] = logs[mem] /\ memtable'[mem] = memtable[mem]) \/ logs'[mem'].recs = <<>>
  PROVE  GroupDur'
<1>1. Left = {} /\ Left' = {}
  BY DEF Left
<1>2. bgError' = FALSE => RecsIn(logs'[mem'], memtable'[mem'] \union Left')
  <2>1. CASE mem' = mem /\ logs'[mem] = logs[mem] /\ memtable'[mem] = memtable[mem]
    BY <1>1, <2>1 DEF GroupDur
  <2>2. CASE logs'[mem'].recs = <<>>
    BY <2>2 DEF RecsIn
  <2> QED
    BY <2>1, <2>2
<1> QED
  BY <1>2 DEF GroupDur, RecsIn

(* The current version, the memtables and the tables in use stay as they   *)
(* are.                                                                    *)
LEMMA StoreDurKept ==
  ASSUME StoreDur, UNCHANGED <<version, manifest, promised>>,
         MemEntries(imm)' = MemEntries(imm), SyncedOf(logs[mem]) \subseteq SyncedOf(logs'[mem']),
         Content(tables', Files(version)) = Content(tables, Files(version)),
         Content(tables', Files(manifest.version)) = Content(tables, Files(manifest.version)),
         flush' # None /\ flush'.step = "apply" => MemEntries(imm) \subseteq Content(tables', flush'.edit.add0),
         merge' # None /\ merge'.step = "apply" =>
           Covers(Content(tables', {merge'.number}), Content(tables', Files(merge'.input)))
  PROVE  StoreDur'
<1>1. Covers(Content(tables', Files(version)) \union (MemEntries(imm) \union SyncedOf(logs'[mem'])), promised)
  <2>1. Covers(Content(tables, Files(version)) \union (MemEntries(imm) \union SyncedOf(logs[mem])), promised)
    BY DEF StoreDur
  <2>2. Content(tables, Files(version)) \union (MemEntries(imm) \union SyncedOf(logs[mem])) \subseteq
        Content(tables', Files(version)) \union (MemEntries(imm) \union SyncedOf(logs'[mem']))
    OBVIOUS
  <2> QED
    BY <2>1, <2>2, CoversLess
<1>2. Covers(Content(tables', Files(manifest.version)), Content(tables', Files(version)))
  BY DEF StoreDur
<1> QED
  BY <1>1, <1>2 DEF StoreDur, Files, SyncedOf

(* The MANIFEST says what it said.                                         *)
LEMMA DurableKept ==
  ASSUME Covers(DurableNow, promised), UNCHANGED <<manifest, promised>>,
         Content(tables, Files(manifest.version)) \subseteq Content(tables', Files(manifest.version)),
         Replayable(logs, manifest.log) \subseteq Replayable(logs', manifest.log)
  PROVE  Covers(DurableNow', promised')
<1>1. DurableNow \subseteq DurableNow'
  BY DEF DurableNow, Files, Replayable, SyncedOf
<1> QED
  BY <1>1, CoversLess

(* Clients, readers and the front of the queue.                            *)
LEMMA UntouchedDur ==
  ASSUME Dur, UNCHANGED <<imm, mem, version, manifest, tables, logs, promised, flush, merge, phase>>,
         phase = "open" =>
           /\ memtable'[mem] = memtable[mem] /\ MemEntries(imm)' = MemEntries(imm)
           /\ bgError' = FALSE => bgError = FALSE
           /\ \/ group = None /\ (group' = None \/ group'.step = "log")
              \/ group' = group /\ (group # None => op'[group.members[1]] = op[group.members[1]])
  PROVE  Dur'
<1>1. Covers(DurableNow', promised')
  BY DurableKept DEF Dur
<1>2. ASSUME phase = "open" PROVE StoreDur' /\ GroupDur'
  <2>1. StoreDur /\ GroupDur
    BY <1>2 DEF Dur
  <2>2. StoreDur'
    <3>1. flush # None /\ flush.step = "apply" => MemEntries(imm) \subseteq Content(tables, flush.edit.add0)
      BY <2>1 DEF StoreDur
    <3>2. merge # None /\ merge.step = "apply" =>
            Covers(Content(tables, {merge.number}), Content(tables, Files(merge.input)))
      BY <2>1 DEF StoreDur
    <3> QED
      BY <1>2, <2>1, <3>1, <3>2, StoreDurKept
  <2>3. GroupDur'
    <3>1. CASE group = None /\ (group' = None \/ group'.step = "log")
      BY <1>2, <2>1, <3>1, GroupDurLead
    <3>2. CASE group' = group /\ (group # None => op'[group.members[1]] = op[group.members[1]])
      BY <1>2, <2>1, <3>2, GroupDurKept
    <3> QED
      BY <1>2, <3>1, <3>2
  <2> QED
    BY <2>2, <2>3
<1> QED
  BY <1>1, <1>2 DEF Dur

(* The synced part of a log is a part of it.                               *)
LEMMA LogIs ==
  ASSUME NEW l, LogFile(l)
  PROVE  l.synced \in Nat /\ Len(l.recs) \in Nat /\ l.synced <= Len(l.recs)
BY DEF LogFile

(* What is read of a log covers its synced part.                           *)
LEMMA SyncedIn ==
  ASSUME NEW l, LogFile(l), NEW E, RecsIn(l, E)
  PROVE  SyncedOf(l) \subseteq E
<1>1. \A i \in 1..l.synced : i \in 1..Len(l.recs)
  BY LogIs
<1> QED
  BY <1>1 DEF SyncedOf, RecsIn

LEMMA SwitchMemTableDur ==
  ASSUME Sound, Places, Dur, SwitchMemTable
  PROVE  Dur'
<1>1. /\ phase = "open" /\ group = None /\ bgError # TRUE /\ imm = 0 /\ imm' = mem /\ mem' = nextFile
      /\ logs' = With(logs, nextFile, NewLog) /\ memtable' = With(memtable, nextFile, {})
      /\ group' = None \/ group'.step = "log"
      /\ UNCHANGED <<version, manifest, promised, tables, flush, merge, bgError, phase>>
  <2>1. group' = None \/ group'.step = "log"
    BY DEF SwitchMemTable, FrontReady, Lead
  <2> QED
    BY <2>1 DEF SwitchMemTable, FrontReady, MaySwitch
<1>2. bgError = FALSE
  BY <1>1 DEF Sound, Stages
<1>3. /\ mem \in DOMAIN logs /\ mem # nextFile /\ mem # 0 /\ mem \in DOMAIN memtable /\ flush = None
      /\ nextFile \notin DOMAIN logs /\ LogFile(logs[mem])
  BY <1>1 DEF Places, Memtables, Logs, Below, Referenced
<1>4. /\ logs'[nextFile].recs = <<>> /\ \A n \in DOMAIN logs : n \in DOMAIN logs' /\ logs'[n] = logs[n]
      /\ memtable'[mem] = memtable[mem]
  BY <1>1, <1>3 DEF With, NewLog
<1>5. StoreDur /\ GroupDur /\ Covers(DurableNow, promised)
  BY <1>1 DEF Dur
<1>6. GroupDur'
  BY <1>1, <1>4, <1>5, GroupDurLead
<1>7. SyncedOf(logs[mem]) \subseteq memtable[mem]
  <2>1. Left = {}
    BY <1>1 DEF Left
  <2>2. RecsIn(logs[mem], memtable[mem])
    BY <1>1, <1>2, <1>5, <2>1 DEF GroupDur
  <2> QED
    BY <1>3, <2>2, SyncedIn
<1>8. Covers(Content(tables, Files(version)) \union (MemEntries(imm)' \union SyncedOf(logs'[mem'])), promised)
  <2>1. MemEntries(imm) = {} /\ MemEntries(imm)' = memtable[mem]
    BY <1>1, <1>3, <1>4 DEF MemEntries
  <2>2. Covers(Content(tables, Files(version)) \union (MemEntries(imm) \union SyncedOf(logs[mem])), promised)
    BY <1>5 DEF StoreDur
  <2>3. Content(tables, Files(version)) \union (MemEntries(imm) \union SyncedOf(logs[mem])) \subseteq
        Content(tables, Files(version)) \union (MemEntries(imm)' \union SyncedOf(logs'[mem']))
    BY <1>7, <2>1
  <2> QED
    BY <2>2, <2>3, CoversLess
<1>9. StoreDur'
  <2>1. merge # None /\ merge.step = "apply" =>
            Covers(Content(tables, {merge.number}), Content(tables, Files(merge.input)))
    BY <1>5 DEF StoreDur
  <2>2. Covers(Content(tables, Files(manifest.version)), Content(tables, Files(version)))
    BY <1>5 DEF StoreDur
  <2> QED
    BY <1>1, <1>3, <1>8, <2>1, <2>2 DEF StoreDur, Files, SyncedOf
<1>10. Covers(DurableNow', promised')
  <2>1. Replayable(logs, manifest.log) \subseteq Replayable(logs', manifest.log)
    BY <1>4, ReplayableStays
  <2> QED
    BY <1>1, <1>5, <2>1, DurableKept
<1> QED
  BY <1>6, <1>9, <1>10 DEF Dur

(* The log grows or more of it is synced.                                  *)
LEMMA LoggedDur ==
  ASSUME Places, StoreDur, Covers(DurableNow, promised), mem \in DOMAIN logs,
         UNCHANGED <<mem, imm, memtable, version, manifest, promised, tables, flush, merge>>,
         DOMAIN logs' = DOMAIN logs, \A n \in DOMAIN logs : SyncedOf(logs[n]) \subseteq SyncedOf(logs'[n])
  PROVE  StoreDur' /\ Covers(DurableNow', promised')
<1>1. Replayable(logs, manifest.log) \subseteq Replayable(logs', manifest.log)
  BY ReplayableStays
<1>2. Covers(DurableNow', promised')
  BY <1>1, DurableKept
<1>3. MemEntries(imm)' = MemEntries(imm)
  BY DEF MemEntries
<1>4. flush # None /\ flush.step = "apply" => MemEntries(imm) \subseteq Content(tables, flush.edit.add0)
  BY DEF StoreDur
<1>5. merge # None /\ merge.step = "apply" =>
        Covers(Content(tables, {merge.number}), Content(tables, Files(merge.input)))
  BY DEF StoreDur
<1>6. StoreDur'
  BY <1>3, <1>4, <1>5, StoreDurKept
<1> QED
  BY <1>2, <1>6

(* The leader is the first of its group, and syncs if any of them asked    *)
(* for it.                                                                 *)
LEMMA LeaderIsFirst ==
  ASSUME Queue, group # None
  PROVE  /\ Leader = op[group.members[1]]
         /\ \A w \in ToSet(group.members) : op[w].sync => op[group.members[1]].sync
<1>1. PICK k \in 1..Len(writers) :
        /\ group.members = SubSeq(writers, 1, k)
        /\ \A i \in 1..k : op[writers[i]].sync => op[writers[1]].sync
  BY DEF Queue, Group, Members
<1>2. writers \in Seq(Writers)
  BY DEF Queue, Calls
<1>3. PICK q : q = SubSeq(writers, 1, k)
  OBVIOUS
<1>4. q \in Seq(Writers) /\ Len(q) = k /\ k >= 1 /\ \A i \in 1..k : q[i] = writers[i]
  BY <1>2, <1>3
<1>5. Head(q) = q[1] /\ q[1] = writers[1]
  BY <1>4
<1>6. \A w \in ToSet(q) : \E i \in 1..k : w = writers[i]
  BY <1>4 DEF ToSet
<1> QED
  BY <1>1, <1>3, <1>5, <1>6 DEF Leader

LEMMA AddRecordDur ==
  ASSUME Sound, Queue, Places, Dur, AddRecord
  PROVE  Dur'
<1>1. /\ group # None /\ group.step = "log"
      /\ UNCHANGED <<op, memtable, mem, imm, lastSeq, version, logNumber, flush, merge, phase, tables,
                     manifest, promised, bgError>>
  BY DEF AddRecord
<1>2. /\ phase = "open" /\ mem \in DOMAIN logs /\ LogFile(logs[mem])
  BY <1>1, WhileWriting DEF Places, Logs
<1>3. StoreDur /\ GroupDur /\ Covers(DurableNow, promised)
  BY <1>2 DEF Dur
<1>4. /\ Len(logs[mem].recs) \in Nat /\ logs[mem].synced \in Nat /\ logs[mem].synced <= Len(logs[mem].recs)
  BY <1>2, LogIs
<1>5. Left = {} /\ group.inserted = 0 /\ Leader = op[group.members[1]] /\ InFlight = ToSet(group.entries)
  BY <1>1, LeaderIsFirst, AddRecordQueue, EntriesInFlight DEF Left
<1>6. \/ /\ Goes(IF Leader.sync THEN "sync" ELSE "insert", 0, TRUE)
         /\ logs' = [logs EXCEPT ![mem].recs = Append(@, ToSet(group.entries))]
      \/ Goes("end", 0, FALSE) /\ UNCHANGED logs
  BY AddRecordQueue
<1>7. InFlight' = InFlight
  BY <1>5, <1>6 DEF Goes, InFlight
<1>8. CASE Goes("end", 0, FALSE) /\ UNCHANGED logs
  <2>1. StoreDur' /\ Covers(DurableNow', promised')
    BY <1>1, <1>2, <1>3, <1>8, LoggedDur
  <2>2. GroupDur'
    <3>1. group' # None /\ group'.step = "end" /\ group'.ok = FALSE /\ Left' = {}
      BY <1>8 DEF Goes, Left
    <3>2. bgError = FALSE => RecsIn(logs[mem], memtable[mem])
      BY <1>1, <1>3, <1>5 DEF GroupDur
    <3> QED
      BY <1>1, <1>8, <3>1, <3>2 DEF GroupDur, RecsIn
  <2> QED
    BY <2>1, <2>2 DEF Dur
<1>9. CASE /\ Goes(IF Leader.sync THEN "sync" ELSE "insert", 0, TRUE)
           /\ logs' = [logs EXCEPT ![mem].recs = Append(@, ToSet(group.entries))]
  <2>1. /\ DOMAIN logs' = DOMAIN logs /\ \A n \in DOMAIN logs : n # mem => logs'[n] = logs[n]
        /\ logs'[mem].synced = logs[mem].synced
        /\ Len(logs'[mem].recs) = Len(logs[mem].recs) + 1
        /\ logs'[mem].recs[Len(logs[mem].recs) + 1] = InFlight
        /\ \A i \in 1..Len(logs[mem].recs) : logs'[mem].recs[i] = logs[mem].recs[i]
    BY <1>1, <1>2, <1>9, AddRecordLogs
  <2>2. SyncedOf(logs[mem]) \subseteq SyncedOf(logs'[mem])
    BY <1>4, <2>1, SyncedStays
  <2>3. StoreDur' /\ Covers(DurableNow', promised')
    BY <1>1, <1>2, <1>3, <2>1, <2>2, LoggedDur
  <2>4. /\ group' # None /\ group'.step = IF Leader.sync THEN "sync" ELSE "insert"
        /\ group'.members = group.members /\ group'.entries = group.entries /\ group'.inserted = 0
    BY <1>9 DEF Goes
  <2>5. Left' = InFlight
    <3>1. group.entries \in Seq(Entry)
      BY <1>1 DEF Queue, Group, NewEntries
    <3>2. Left' = {group.entries[i] : i \in 0 + 1..Len(group.entries)}
      BY <2>4 DEF Left
    <3>3. ToSet(group.entries) = {group.entries[i] : i \in 1..Len(group.entries)}
      BY <3>1 DEF ToSet
    <3> QED
      BY <1>5, <3>2, <3>3
  <2>6. bgError' = FALSE => RecsIn(logs'[mem], memtable[mem] \union Left')
    <3> SUFFICES ASSUME bgError = FALSE, NEW i \in 1..Len(logs[mem].recs) + 1
                 PROVE  logs'[mem].recs[i] \subseteq memtable[mem] \union InFlight
      BY <1>1, <2>1, <2>5 DEF RecsIn
    <3>1. RecsIn(logs[mem], memtable[mem])
      BY <1>1, <1>3, <1>5 DEF GroupDur
    <3>2. i \in 1..Len(logs[mem].recs) \/ i = Len(logs[mem].recs) + 1
      BY <1>4
    <3> QED
      BY <2>1, <3>1, <3>2 DEF RecsIn
  <2>7. group'.step = "sync" => /\ Len(logs'[mem'].recs) >= 1
                                /\ logs'[mem'].recs[Len(logs'[mem'].recs)] = InFlight'
    BY <1>1, <1>4, <1>7, <2>1
  <2>8. group'.step \in {"insert", "end"} => ~op'[group'.members[1]].sync
    BY <1>1, <1>5, <2>4
  <2>9. GroupDur'
    BY <1>1, <2>6, <2>7, <2>8 DEF GroupDur
  <2> QED
    BY <2>3, <2>9 DEF Dur
<1> QED
  BY <1>6, <1>8, <1>9

LEMMA SyncLogDur ==
  ASSUME Sound, Queue, Places, Dur, SyncLog
  PROVE  Dur'
<1>1. /\ group # None /\ group.step = "sync"
      /\ UNCHANGED <<op, memtable, mem, imm, lastSeq, version, logNumber, flush, merge, phase, tables,
                     manifest, promised, bgError>>
  BY DEF SyncLog
<1>2. phase = "open" /\ mem \in DOMAIN logs
  BY <1>1, WhileWriting
<1>3. StoreDur /\ GroupDur /\ Covers(DurableNow, promised)
  BY <1>2 DEF Dur
<1>4. group.inserted = 0
  BY SyncLogQueue
<1>5. \/ /\ Goes("insert", 0, TRUE)
         /\ logs' = [logs EXCEPT ![mem].synced = Len(logs[mem].recs)]
      \/ Goes("syncError", 0, FALSE) /\ UNCHANGED logs
  BY SyncLogQueue
<1>6. InFlight' = InFlight
  BY <1>1, <1>5 DEF Goes, InFlight
<1>7. CASE Goes("syncError", 0, FALSE) /\ UNCHANGED logs
  <2>1. StoreDur' /\ Covers(DurableNow', promised')
    BY <1>1, <1>2, <1>3, <1>7, LoggedDur
  <2>2. GroupDur'
    <3>1. group' # None /\ group'.step = "syncError"
      BY <1>7 DEF Goes
    <3> QED
      BY <3>1 DEF GroupDur
  <2> QED
    BY <2>1, <2>2 DEF Dur
<1>8. CASE /\ Goes("insert", 0, TRUE)
           /\ logs' = [logs EXCEPT ![mem].synced = Len(logs[mem].recs)]
  <2>1. /\ DOMAIN logs' = DOMAIN logs /\ \A n \in DOMAIN logs : logs'[n].recs = logs[n].recs
        /\ \A n \in DOMAIN logs : n # mem => logs'[n] = logs[n]
        /\ logs'[mem].synced = Len(logs[mem].recs)
    BY <1>2, <1>8, SyncLogLogs
  <2>2. Len(logs[mem].recs) \in Nat /\ logs[mem].synced \in Nat /\ logs[mem].synced <= Len(logs[mem].recs)
    BY <1>2, LogIs DEF Places, Logs
  <2>3. SyncedOf(logs[mem]) \subseteq SyncedOf(logs'[mem])
    BY <1>2, <2>1, <2>2, SyncedStays
  <2>4. StoreDur' /\ Covers(DurableNow', promised')
    BY <1>1, <1>2, <1>3, <2>1, <2>3, LoggedDur
  <2>5. /\ group' # None /\ group'.step = "insert" /\ group'.inserted = 0 /\ group'.entries = group.entries
    BY <1>8 DEF Goes
  <2>6. Left' = Left
    BY <1>1, <1>4, <2>5 DEF Left
  <2>7. InFlight' \subseteq SyncedOf(logs'[mem'])
    <3>1. Len(logs[mem].recs) >= 1 /\ logs[mem].recs[Len(logs[mem].recs)] = InFlight
      BY <1>1, <1>3 DEF GroupDur
    <3>2. Len(logs[mem].recs) \in 1..logs'[mem].synced /\ logs'[mem].recs[Len(logs[mem].recs)] = InFlight
      BY <1>2, <2>1, <2>2, <3>1
    <3>3. InFlight \subseteq SyncedOf(logs'[mem])
      BY <3>2 DEF SyncedOf
    <3> QED
      BY <1>1, <1>6, <3>3
  <2>8. bgError' = FALSE => RecsIn(logs'[mem'], memtable'[mem'] \union Left')
    <3>1. bgError = FALSE => RecsIn(logs[mem], memtable[mem] \union Left)
      BY <1>1, <1>3 DEF GroupDur
    <3> QED
      BY <1>1, <1>2, <2>1, <2>6, <3>1 DEF RecsIn
  <2>9. GroupDur'
    BY <2>5, <2>7, <2>8 DEF GroupDur, SyncedOf, RecsIn
  <2> QED
    BY <2>4, <2>9 DEF Dur
<1> QED
  BY <1>5, <1>7, <1>8

LEMMA InsertDur ==
  ASSUME Sound, Queue, Places, Dur, InsertIntoMem
  PROVE  Dur'
<1> DEFINE n == group.inserted + 1
<1>1. /\ group # None /\ group.step = "insert"
      /\ UNCHANGED <<op, mem, imm, lastSeq, version, logNumber, flush, merge, phase, logs, tables, manifest,
                     promised, bgError>>
  BY DEF InsertIntoMem, disk
<1>2. phase = "open" /\ mem \in DOMAIN logs /\ mem \in DOMAIN memtable /\ imm # mem /\ (imm # 0 => imm \in DOMAIN memtable)
  BY <1>1, WhileWriting
<1>3. StoreDur /\ GroupDur /\ Covers(DurableNow, promised)
  BY <1>2 DEF Dur
<1>4. /\ group.inserted \in Nat /\ n \in 1..Len(group.entries) /\ group.ok = TRUE
      /\ Goes(IF n = Len(group.entries) THEN "end" ELSE "insert", n, TRUE)
      /\ memtable' = [memtable EXCEPT ![mem] = @ \union {group.entries[n]}]
  BY InsertQueue
<1>5. memtable'[mem] = memtable[mem] \union {group.entries[n]} /\ (imm # 0 => memtable'[imm] = memtable[imm])
  BY <1>2, <1>4
<1>6. /\ group' # None /\ group'.members = group.members /\ group'.entries = group.entries
      /\ group'.step = (IF n = Len(group.entries) THEN "end" ELSE "insert") /\ group'.inserted = n /\ group'.ok = TRUE
  BY <1>4 DEF Goes
<1>7. InFlight' = InFlight
  BY <1>1, <1>6 DEF InFlight
<1>8. MemEntries(imm)' = MemEntries(imm)
  BY <1>1, <1>5 DEF MemEntries
<1>9. StoreDur'
  <2>1. flush # None /\ flush.step = "apply" => MemEntries(imm) \subseteq Content(tables, flush.edit.add0)
    BY <1>3 DEF StoreDur
  <2>2. merge # None /\ merge.step = "apply" =>
          Covers(Content(tables, {merge.number}), Content(tables, Files(merge.input)))
    BY <1>3 DEF StoreDur
  <2> QED
    BY <1>1, <1>3, <1>8, <2>1, <2>2, StoreDurKept
<1>10. Covers(DurableNow', promised')
  BY <1>1, <1>3, DurableKept
<1>11. Left \subseteq {group.entries[n]} \union Left'
  <2>1. Len(group.entries) \in Nat
    BY <1>4, <1>1, EntriesInFlight
  <2>2. Left = {group.entries[i] : i \in n..Len(group.entries)}
    BY <1>1 DEF Left
  <2>3. CASE n = Len(group.entries)
    BY <1>4, <2>1, <2>2, <2>3
  <2>4. CASE n # Len(group.entries)
    <3>1. Left' = {group.entries[i] : i \in n + 1..Len(group.entries)}
      BY <1>6, <2>4 DEF Left
    <3>2. \A i \in n..Len(group.entries) : i = n \/ i \in n + 1..Len(group.entries)
      BY <1>4, <2>1
    <3> QED
      BY <2>2, <3>1, <3>2
  <2> QED
    BY <2>3, <2>4
<1>12. bgError = FALSE => RecsIn(logs[mem], memtable'[mem] \union Left')
  <2>1. bgError = FALSE => RecsIn(logs[mem], memtable[mem] \union Left)
    BY <1>1, <1>3 DEF GroupDur
  <2>2. memtable[mem] \union Left \subseteq memtable'[mem] \union Left'
    BY <1>5, <1>11
  <2> QED
    BY <2>1, <2>2 DEF RecsIn
<1>13. op[group.members[1]].sync => InFlight \subseteq SyncedOf(logs[mem])
  BY <1>1, <1>3, <1>4 DEF GroupDur
<1>14. GroupDur'
  <2>1. group'.step # "sync"
    BY <1>6
  <2> QED
    BY <1>1, <1>6, <1>7, <1>12, <1>13, <2>1 DEF GroupDur
<1> QED
  BY <1>9, <1>10, <1>14 DEF Dur

(* What is promised to a writer that synced is in the synced part of the   *)
(* log it was written to.                                                  *)
LEMMA FinishWriteDur ==
  ASSUME Sound, Queue, Places, Dur, FinishWrite
  PROVE  Dur'
<1> DEFINE N == {e \in ToSet(group.entries) : group.ok /\ \E w \in ToSet(group.members) :
                                       op[w].sync /\ op[w].id = e.val}
<1>1. /\ group # None /\ group.step \in {"end", "syncError"} /\ group' = None
      /\ bgError' = (bgError \/ group.step = "syncError")
      /\ promised' = promised \union N
      /\ UNCHANGED <<memtable, mem, imm, version, logNumber, flush, merge, phase, logs, tables, manifest>>
  BY DEF FinishWrite, disk
<1>2. phase = "open" /\ mem \in DOMAIN logs /\ manifest.log <= mem
  BY <1>1, WhileWriting DEF Places, Logs
<1>3. StoreDur /\ GroupDur /\ Covers(DurableNow, promised)
  BY <1>2 DEF Dur
<1>4. N \subseteq SyncedOf(logs[mem]) /\ N \subseteq Entry
  <2>1. InFlight = ToSet(group.entries) /\ InFlight \subseteq Entry
    BY <1>1, EntriesInFlight
  <2>2. ASSUME NEW e \in N PROVE e \in SyncedOf(logs[mem])
    <3>1. group.ok /\ op[group.members[1]].sync
      BY <1>1, LeaderIsFirst
    <3>2. group.ok = TRUE
      BY <1>1, <3>1 DEF Queue, Group, Groups
    <3>3. group.step = "end"
      BY <1>1, <3>2 DEF Queue, Group, Progress
    <3>4. InFlight \subseteq SyncedOf(logs[mem])
      BY <1>1, <1>3, <3>1, <3>2, <3>3 DEF GroupDur
    <3> QED
      BY <2>1, <3>4
  <2> QED
    BY <2>1, <2>2
<1>5. Covers(N, N)
  BY <1>4, CoversItself
<1> HIDE DEF N
<1>6. Covers(DurableNow', promised')
  <2>1. SyncedOf(logs[mem]) \subseteq DurableNow
    BY <1>2 DEF DurableNow, Replayable
  <2>2. N \subseteq DurableNow
    BY <1>4, <2>1
  <2>3. Covers(DurableNow, N)
    BY <1>5, <2>2, CoversLess
  <2>4. Covers(DurableNow, promised \union N)
    BY <1>3, <2>3, CoversBoth
  <2>5. DurableNow' = DurableNow
    BY <1>1 DEF DurableNow, Files, Replayable, SyncedOf
  <2> QED
    BY <1>1, <2>4, <2>5
<1>7. StoreDur'
  <2> DEFINE X == Content(tables, Files(version)) \union (MemEntries(imm) \union SyncedOf(logs[mem]))
  <2>1. Covers(X, promised)
    BY <1>3 DEF StoreDur
  <2>2. N \subseteq X
    BY <1>4
  <2> HIDE DEF X
  <2>3. Covers(X, N)
    BY <1>5, <2>2, CoversLess
  <2>4. Covers(X, promised')
    BY <1>1, <2>1, <2>3, CoversBoth
  <2>5. X' = X
    BY <1>1 DEF X, MemEntries, SyncedOf, Files
  <2>6. Covers(X', promised')
    BY <2>4, <2>5
  <2>7. MemEntries(imm)' = MemEntries(imm)
    BY <1>1 DEF MemEntries
  <2> QED
    BY <1>1, <1>3, <2>6, <2>7 DEF StoreDur, X, Files
<1>8. GroupDur'
  <2>1. bgError' = FALSE => bgError = FALSE /\ group.step = "end"
    BY <1>1 DEF Sound, Stages
  <2>2. group.step = "end" => Left = {}
    BY DEF Left
  <2>3. Left' = {}
    BY <1>1 DEF Left
  <2>4. bgError' = FALSE => RecsIn(logs[mem], memtable[mem] \union {})
    BY <1>1, <1>3, <2>1, <2>2 DEF GroupDur
  <2> QED
    BY <1>1, <2>3, <2>4 DEF GroupDur, RecsIn
<1> QED
  BY <1>6, <1>7, <1>8 DEF Dur

(* A flush or a compaction goes on: no table in use changes.               *)
LEMMA OutputDur ==
  ASSUME Dur, phase = "open",
         UNCHANGED <<op, group, memtable, mem, imm, version, phase, logs, manifest, promised>>,
         \A n \in InUse : (n \in DOMAIN tables' <=> n \in DOMAIN tables) /\ (n \in DOMAIN tables => tables'[n] = tables[n]),
         bgError' = FALSE => bgError = FALSE,
         flush' # None /\ flush'.step = "apply" => MemEntries(imm) \subseteq Content(tables', flush'.edit.add0),
         merge' # None /\ merge'.step = "apply" =>
           Covers(Content(tables', {merge'.number}), Content(tables', Files(merge'.input)))
  PROVE  Dur'
<1>1. StoreDur /\ GroupDur /\ Covers(DurableNow, promised)
  BY DEF Dur
<1>2. ASSUME NEW S, S \subseteq InUse PROVE Content(tables', S) = Content(tables, S)
  <2>1. \A n \in S : (n \in DOMAIN tables' <=> n \in DOMAIN tables) /\ (n \in DOMAIN tables => tables'[n] = tables[n])
    BY <1>2
  <2>2. Content(tables', S) \subseteq Content(tables, S)
    BY <2>1, ContentStays
  <2>3. Content(tables, S) \subseteq Content(tables', S)
    BY <2>1, ContentKept
  <2> QED
    BY <2>2, <2>3
<1>3. /\ Content(tables', Files(version)) = Content(tables, Files(version))
      /\ Content(tables', Files(manifest.version)) = Content(tables, Files(manifest.version))
  BY <1>2 DEF InUse
<1>4. MemEntries(imm)' = MemEntries(imm)
  BY DEF MemEntries
<1>5. StoreDur'
  BY <1>1, <1>3, <1>4, StoreDurKept
<1>6. Covers(DurableNow', promised')
  BY <1>1, <1>3, DurableKept
<1>7. GroupDur'
  BY <1>1, GroupDurKept
<1> QED
  BY <1>5, <1>6, <1>7 DEF Dur

LEMMA StartFlushDur ==
  ASSUME Sound, Dur, StartFlush
  PROVE  Dur'
<1>1. /\ phase = "open" /\ flush'.step = "build" /\ (merge # None => merge.step \in {"open", "write"})
      /\ UNCHANGED <<op, group, memtable, mem, imm, version, merge, bgError, phase, logs, tables, manifest, promised>>
  BY DEF StartFlush, disk
<1> QED
  BY <1>1, OutputDur

LEMMA StartMergeDur ==
  ASSUME Sound, Dur, StartMerge
  PROVE  Dur'
<1>1. /\ phase = "open" /\ flush' = None /\ merge'.step = "open"
      /\ UNCHANGED <<op, group, memtable, mem, imm, version, bgError, phase, logs, tables, manifest, promised>>
  BY DEF StartMerge, Busy, disk
<1> QED
  BY <1>1, OutputDur

LEMMA OpenCompactionOutputFileDur ==
  ASSUME Sound, Places, Dur, OpenCompactionOutputFile
  PROVE  Dur'
<1>1. /\ merge # None /\ merge.step = "open" /\ flush' = None
      /\ merge' = [merge EXCEPT !.step = "write", !.number = nextFile]
      /\ tables' = With(tables, nextFile, {})
      /\ UNCHANGED <<op, group, memtable, mem, imm, version, bgError, phase, logs, manifest, promised>>
  BY DEF OpenCompactionOutputFile
<1>2. phase = "open" /\ DOMAIN merge = {"step", "input", "number", "edit", "oldest"}
  BY <1>1 DEF Sound, Stages, MergeSound
<1>3. merge'.step = "write"
  BY <1>1, <1>2
<1>4. nextFile \notin InUse
  BY <1>2 DEF Places, FileNumbers, Below
<1>5. \A n \in InUse : (n \in DOMAIN tables' <=> n \in DOMAIN tables) /\ (n \in DOMAIN tables => tables'[n] = tables[n])
  BY <1>1, <1>4 DEF With
<1> QED
  BY <1>1, <1>2, <1>3, <1>5, OutputDur

(* The table that BuildTable writes has what the memtable has.             *)
LEMMA BuildTableDur ==
  ASSUME Sound, Places, Dur, BuildTable
  PROVE  Dur'
<1> DEFINE new == IF memtable[imm] = {} THEN {} ELSE {flush.number}
           e == Edit(new, {}, {}, mem)
<1>1. /\ flush # None /\ flush.step = "build"
      /\ UNCHANGED <<op, group, memtable, mem, imm, version, merge, phase, logs, manifest, promised>>
  BY DEF BuildTable
<1>2. phase = "open" /\ FlushFields(flush)
  BY <1>1 DEF Sound, Stages, Flushing
<1>3. /\ imm # 0 /\ flush.number \notin InUse
      /\ merge # None => merge.step # "apply"
  BY <1>1, <1>2 DEF Places, Memtables, FileNumbers, FilesOfEdits, Sound, MergeSound
<1>4. MemEntries(imm) = memtable[imm]
  BY <1>3 DEF MemEntries
<1>5. e.add0 = new
  BY DEF Edit
<1>6. CASE flush' = None /\ tables' = tables /\ bgError' = TRUE
  <2>1. \A n \in InUse : (n \in DOMAIN tables' <=> n \in DOMAIN tables) /\ (n \in DOMAIN tables => tables'[n] = tables[n])
    BY <1>6
  <2> QED
    BY <1>1, <1>2, <1>3, <1>6, <2>1, OutputDur
<1>7. CASE /\ tables' = IF memtable[imm] = {} THEN tables ELSE With(tables, flush.number, memtable[imm])
           /\ flush' = [flush EXCEPT !.step = "apply", !.edit = e]
           /\ bgError' = bgError
  <2>1. flush'.edit = e
    BY <1>1, <1>2, <1>7 DEF FlushFields
  <2>2. memtable[imm] \subseteq Content(tables', new)
    <3>1. CASE memtable[imm] = {}
      BY <3>1
    <3>2. CASE memtable[imm] # {}
      <4>1. PICK n, x : n = flush.number /\ x = memtable[imm]
        OBVIOUS
      <4>2. Content(With(tables, n, x), {n}) = x
        BY ContentOfNew
      <4> QED
        BY <1>7, <3>2, <4>1, <4>2
    <3> QED
      BY <3>1, <3>2
  <2> HIDE DEF new, e
  <2>3. MemEntries(imm) \subseteq Content(tables', flush'.edit.add0)
    BY <1>4, <1>5, <2>1, <2>2
  <2>4. \A n \in InUse : (n \in DOMAIN tables' <=> n \in DOMAIN tables) /\ (n \in DOMAIN tables => tables'[n] = tables[n])
    <3>1. CASE tables' = tables
      BY <3>1
    <3>2. CASE tables' = With(tables, flush.number, memtable[imm])
      BY <1>3, <3>2 DEF With
    <3> QED
      BY <1>7, <3>1, <3>2
  <2> QED
    BY <1>1, <1>2, <1>3, <1>7, <2>3, <2>4, OutputDur
<1> QED
  BY <1>6, <1>7 DEF BuildTable

(* What a compaction leaves covers what it read.                           *)
LEMMA FinishMergeDur ==
  ASSUME Sound, Places, Dur, FinishMerge, NEW A, Good(A), PoolOf(A)
  PROVE  Dur'
<1> DEFINE e == Edit({}, {merge.number}, Files(merge.input), logNumber)
           out == Compacted(EntriesOf(merge.input), merge.oldest)
<1>1. /\ merge # None /\ merge.step = "write" /\ flush' = None
      /\ UNCHANGED <<op, group, memtable, mem, imm, version, phase, logs, manifest, promised>>
  BY DEF FinishMerge
<1>2. /\ phase = "open" /\ DOMAIN merge = {"step", "input", "number", "edit", "oldest"}
      /\ merge.number \in DOMAIN tables
  BY <1>1 DEF Sound, Stages, MergeSound
<1>3. merge.number \notin InUse
  BY <1>1 DEF Places, FileNumbers, FilesOfEdits
<1>4. CASE merge' = None /\ tables' = tables /\ bgError' = TRUE
  <2>1. \A n \in InUse : (n \in DOMAIN tables' <=> n \in DOMAIN tables) /\ (n \in DOMAIN tables => tables'[n] = tables[n])
    BY <1>4
  <2> QED
    BY <1>1, <1>2, <1>4, <2>1, OutputDur
<1>5. CASE /\ tables' = [n \in DOMAIN tables |-> IF n # merge.number THEN tables[n] ELSE out]
           /\ merge' = [merge EXCEPT !.step = "apply", !.edit = e]
           /\ bgError' = bgError
  <2>1. merge'.input = merge.input /\ merge'.number = merge.number
    BY <1>2, <1>5
  <2>2. Covers(out, Content(tables, Files(merge.input)))
    <3>1. lastSeq \in Nat /\ Content(tables, Files(merge.input)) \subseteq Upto(A, lastSeq) /\ A \subseteq Entry
      BY <1>1, <1>2 DEF PoolOf, OpenPool, Good
    <3>2. EntriesOf(merge.input) = Content(tables, Files(merge.input))
      BY DEF EntriesOf, Content
    <3>3. PICK E : E = EntriesOf(merge.input)
      OBVIOUS
    <3>4. E \subseteq Entry /\ \A f \in E : f.seq <= lastSeq
      BY <3>1, <3>2, <3>3 DEF Upto
    <3>5. Covers(Compacted(E, merge.oldest), E)
      BY <3>1, <3>4, CompactedCovers
    <3> QED
      BY <3>2, <3>3, <3>5
  <2> HIDE DEF e, out
  <2>3. \A n \in InUse : (n \in DOMAIN tables' <=> n \in DOMAIN tables) /\ (n \in DOMAIN tables => tables'[n] = tables[n])
    BY <1>3, <1>5
  <2>4. Content(tables', {merge.number}) = out
    <3>1. merge.number \in DOMAIN tables' /\ tables'[merge.number] = out
      BY <1>2, <1>5
    <3> QED
      BY <3>1 DEF Content
  <2>5. Content(tables', Files(merge.input)) \subseteq Content(tables, Files(merge.input))
    <3>1. Files(merge.input) \subseteq InUse
      BY <1>1 DEF InUse
    <3>2. \A n \in Files(merge.input) : n \in DOMAIN tables' => n \in DOMAIN tables /\ tables'[n] = tables[n]
      BY <2>3, <3>1
    <3> QED
      BY <3>2, ContentStays
  <2>6. Covers(Content(tables', {merge'.number}), Content(tables', Files(merge'.input)))
    <3>1. Covers(out, Content(tables', Files(merge.input)))
      BY <2>2, <2>5, CoversLess
    <3> QED
      BY <2>1, <2>4, <3>1
  <2> QED
    BY <1>1, <1>2, <1>5, <2>3, <2>6, OutputDur
<1> QED
  BY <1>4, <1>5 DEF FinishMerge

(* What a version holds once a flush or a compaction is in it.             *)
LEMMA FlushApplied ==
  ASSUME NEW t, NEW v, NEW e, e.del = {}, e.addDeep = {}
  PROVE  Content(t, Files(Applied(v, e))) = Content(t, Files(v)) \union Content(t, e.add0)
<1>1. Files(Applied(v, e)) = Files(v) \union e.add0
  BY DEF Files, Applied
<1> QED
  BY <1>1 DEF Content

(* A compaction in a version: what it read is covered by what it wrote.    *)
LEMMA MergeApplied ==
  ASSUME NEW t, NEW v, NEW e, NEW n, NEW F, e.del = F, e.add0 = {}, e.addDeep = {n},
         Covers(Content(t, {n}), Content(t, F)), Content(t, Files(v)) \subseteq Entry
  PROVE  /\ Covers(Content(t, Files(Applied(v, e))), Content(t, Files(v)))
         /\ Content(t, {n}) \subseteq Content(t, Files(Applied(v, e)))
         /\ Content(t, Files(Applied(v, e))) \subseteq Content(t, Files(v)) \union Content(t, {n})
<1>1. Files(Applied(v, e)) = (Files(v) \ F) \union {n}
  BY DEF Files, Applied
<1>2. PICK S, T : S = Files(v) /\ T = Files(Applied(v, e))
  OBVIOUS
<1>3. T = (S \ F) \union {n}
  BY <1>1, <1>2
<1>4. Content(t, {n}) \subseteq Content(t, T) /\ Content(t, S \ F) \subseteq Content(t, T)
  BY <1>3 DEF Content
<1>5. Content(t, T) \subseteq Content(t, S) \union Content(t, {n})
  BY <1>3 DEF Content
<1>6. Content(t, S) \subseteq Content(t, S \ F) \union Content(t, F)
  BY ContentOfMore
<1>7. Covers(Content(t, T), Content(t, S \ F))
  <2>1. Content(t, S \ F) \subseteq Entry
    BY <1>2 DEF Content
  <2>2. Covers(Content(t, S \ F), Content(t, S \ F))
    BY <2>1, CoversItself
  <2> QED
    BY <1>4, <2>2, CoversLess
<1>8. Covers(Content(t, T), Content(t, F))
  BY <1>4, CoversLess
<1>9. Covers(Content(t, T), Content(t, S \ F) \union Content(t, F))
  BY <1>7, <1>8, CoversBoth
<1>10. Covers(Content(t, T), Content(t, S))
  BY <1>6, <1>9, CoversLess
<1> QED
  BY <1>2, <1>4, <1>5, <1>10

(* DeleteObsoleteFiles takes nothing from the current version, the         *)
(* MANIFEST or the logs from ln on.                                        *)
LEMMA NothingTaken ==
  ASSUME NEW held, NEW outputs, NEW ln, NEW v, v \in held,
         DeleteObsoleteFiles(held, outputs, ln) \/ UNCHANGED <<tables, logs>>
  PROVE  /\ Content(tables', Files(v)) = Content(tables, Files(v))
         /\ \A n \in DOMAIN logs : n >= ln => n \in DOMAIN logs' /\ logs'[n] = logs[n]
<1>1. CASE DeleteObsoleteFiles(held, outputs, ln)
  <2>1. PICK S : S = Files(v)
    OBVIOUS
  <2>2. tables' = [n \in DOMAIN tables \intersect ((UNION {Files(x) : x \in held}) \union outputs) |-> tables[n]]
    BY <1>1, Zenon DEF DeleteObsoleteFiles
  <2>3. S \subseteq UNION {Files(x) : x \in held}
    BY <2>1
  <2>4. PICK t, u : t = tables /\ u = tables'
    OBVIOUS
  <2>6. Content(u, S) = Content(t, S)
    <3>1. DOMAIN u = DOMAIN t \intersect ((UNION {Files(x) : x \in held}) \union outputs) /\ \A n \in DOMAIN u : u[n] = t[n]
      BY <2>2, <2>4
    <3>2. \A n \in S : n \in DOMAIN t => n \in DOMAIN u
      BY <2>3, <3>1
    <3>3. Content(u, S) \subseteq Content(t, S)
      BY <3>1, ContentStays
    <3>4. Content(t, S) \subseteq Content(u, S)
      BY <3>1, <3>2, ContentKept
    <3> QED
      BY <3>3, <3>4
  <2>5. \A n \in DOMAIN logs : n >= ln => n \in DOMAIN logs' /\ logs'[n] = logs[n]
    BY <1>1 DEF DeleteObsoleteFiles
  <2> QED
    BY <2>1, <2>4, <2>5, <2>6
<1>2. CASE UNCHANGED <<tables, logs>>
  BY <1>2
<1> QED
  BY <1>1, <1>2

LEMMA InstalledDur ==
  ASSUME StoreDur, GroupDur, UNCHANGED <<op, group, mem, promised>>,
         memtable'[mem] = memtable[mem], logs'[mem] = logs[mem], bgError' = FALSE => bgError = FALSE,
         Covers(Content(tables', Files(version')) \union (MemEntries(imm)' \union SyncedOf(logs[mem])), promised),
         Covers(Content(tables', Files(manifest'.version)), Content(tables', Files(version'))),
         Covers(DurableNow', promised),
         flush' = None, merge' = None \/ merge'.step # "apply"
  PROVE  Dur'
<1>1. GroupDur'
  BY GroupDurKept
<1>2. StoreDur'
  BY DEF StoreDur, Files, SyncedOf
<1>3. Covers(DurableNow', promised')
  OBVIOUS
<1> QED
  BY <1>1, <1>2, <1>3 DEF Dur

(* The promised entries when the MANIFEST says more of what is in memory.  *)
LEMMA DurableFromStore ==
  ASSUME NEW X, Covers(X \union SyncedOf(logs[mem]), promised),
         Covers(Content(tables', Files(manifest'.version)), X),
         mem \in DOMAIN logs', mem >= manifest'.log, SyncedOf(logs[mem]) \subseteq SyncedOf(logs'[mem])
  PROVE  Covers(DurableNow', promised)
<1>1. SyncedOf(logs[mem]) \subseteq Replayable(logs', manifest'.log)
  BY DEF Replayable
<1>2. PICK W : W = DurableNow'
  OBVIOUS
<1>3. W = Content(tables', Files(manifest'.version)) \union Replayable(logs', manifest'.log)
  BY <1>2 DEF DurableNow, Files, Replayable, SyncedOf
<1>4. Covers(W, X) /\ SyncedOf(logs[mem]) \subseteq W
  BY <1>1, <1>3, CoversLess
<1> QED
  BY <1>2, <1>4, CoversParts

(* The edit of a flush.                                                    *)
LEMMA FlushEdit ==
  ASSUME Sound, Places, phase = "open", flush # None, flush.step = "apply", NEW A, Good(A), PoolOf(A)
  PROVE  /\ flush.edit.del = {} /\ flush.edit.addDeep = {} /\ flush.edit.log = mem
         /\ Content(tables, flush.edit.add0) \subseteq Entry
         /\ (merge # None => merge.step # "apply")
         /\ mem \in Nat /\ mem # 0 /\ mem \in DOMAIN logs
<1>1. flush.edit.del = {} /\ flush.edit.log = mem
  BY DEF Places, FileNumbers, FilesOfEdits
<1>2. flush.edit.addDeep = {} /\ (merge # None => merge.step # "apply")
  BY DEF Sound, FlushSound, MergeSound, Flushing
<1>3. Content(tables, flush.edit.add0) \subseteq Entry
  BY DEF PoolOf, OpenPool, Good, Upto
<1>4. mem \in Nat /\ mem # 0 /\ mem \in DOMAIN logs
  BY DEF Places, Memtables
<1> QED
  BY <1>1, <1>2, <1>3, <1>4

LEMMA FailFlushDur ==
  ASSUME Sound, Places, Dur, FailFlush, NEW A, Good(A), PoolOf(A)
  PROVE  Dur'
<1>1. /\ flush # None /\ flush.step = "apply" /\ flush' = None /\ bgError' = TRUE
      /\ manifest' \in {manifest, Recorded(manifest, flush.edit)}
      /\ UNCHANGED <<op, group, memtable, mem, imm, version, merge, phase, logs, tables, promised>>
  BY DEF FailFlush
<1>2. phase = "open"
  BY <1>1 DEF Sound, Stages, Flushing
<1>3. StoreDur /\ GroupDur /\ Covers(DurableNow, promised)
  BY <1>2 DEF Dur
<1>4. PICK e : e = flush.edit
  OBVIOUS
<1>5. /\ e.del = {} /\ e.addDeep = {} /\ e.log = mem /\ Content(tables, e.add0) \subseteq Entry
      /\ (merge # None => merge.step # "apply")
      /\ mem \in Nat /\ mem # 0 /\ mem \in DOMAIN logs
  BY <1>1, <1>2, <1>4, FlushEdit
<1>6. PICK M, V, I : /\ M = Content(tables, Files(manifest.version)) /\ V = Content(tables, Files(version))
                     /\ I = MemEntries(imm)
  OBVIOUS
<1>7. Covers(V \union (I \union SyncedOf(logs[mem])), promised) /\ Covers(M, V) /\ I \subseteq Content(tables, e.add0)
  BY <1>1, <1>3, <1>4, <1>6 DEF StoreDur
<1>8. MemEntries(imm)' = I
  BY <1>1, <1>6 DEF MemEntries
<1>9. CASE manifest' = manifest
  <2>1. Covers(DurableNow', promised')
    BY <1>1, <1>3, <1>9, DurableKept
  <2>2. Covers(Content(tables', Files(version')) \union (MemEntries(imm)' \union SyncedOf(logs[mem])), promised)
    BY <1>1, <1>6, <1>7, <1>8
  <2>3. Covers(Content(tables', Files(manifest'.version)), Content(tables', Files(version')))
    BY <1>1, <1>6, <1>7, <1>9
  <2> QED
    BY <1>1, <1>2, <1>3, <1>5, <2>1, <2>2, <2>3, InstalledDur
<1>10. CASE manifest' = Recorded(manifest, e)
  <2>1. manifest'.version = Applied(manifest.version, e) /\ manifest'.log = mem
    BY <1>5, <1>10 DEF Recorded
  <2>2. Content(tables, Files(manifest'.version)) = M \union Content(tables, e.add0)
    BY <1>5, <1>6, <2>1, FlushApplied
  <2>3. PICK W : W = Content(tables, Files(manifest'.version))
    OBVIOUS
  <2>4. Covers(W, V)
    BY <1>7, <2>2, <2>3, CoversLess
  <2>5. Covers(W, I)
    <3>1. I \subseteq Entry /\ I \subseteq W
      BY <1>5, <1>7, <2>2, <2>3
    <3> QED
      BY <3>1, CoversItself, CoversLess
  <2>6. Covers(W, V \union I)
    BY <2>4, <2>5, CoversBoth
  <2>7. V \union (I \union SyncedOf(logs[mem])) = (V \union I) \union SyncedOf(logs[mem])
    OBVIOUS
  <2>8. Covers(DurableNow', promised)
    <3>1. Covers((V \union I) \union SyncedOf(logs[mem]), promised)
      BY <1>7, <2>7
    <3>2. Covers(Content(tables', Files(manifest'.version)), V \union I)
      BY <1>1, <2>3, <2>6
    <3> QED
      BY <1>1, <1>5, <2>1, <3>1, <3>2, DurableFromStore
  <2>9. Covers(Content(tables', Files(version')) \union (MemEntries(imm)' \union SyncedOf(logs[mem])), promised)
    BY <1>1, <1>6, <1>7, <1>8
  <2>10. Covers(Content(tables', Files(manifest'.version)), Content(tables', Files(version')))
    BY <1>1, <1>6, <2>3, <2>4
  <2> QED
    BY <1>1, <1>2, <1>3, <1>5, <2>8, <2>9, <2>10, InstalledDur
<1> QED
  BY <1>1, <1>4, <1>9, <1>10

LEMMA InstallFlushDur ==
  ASSUME Sound, Places, Dur, InstallFlush, NEW A, Good(A), PoolOf(A)
  PROVE  Dur'
<1>1. /\ flush # None /\ flush.step = "apply" /\ flush' = None
      /\ manifest' = Recorded(manifest, flush.edit) /\ version' = Applied(version, flush.edit)
      /\ imm' = 0 /\ memtable' = [i \in Referenced(mem, 0, gets) |-> memtable[i]]
      /\ IF bgError THEN UNCHANGED <<tables, logs>>
         ELSE DeleteObsoleteFiles(HeldVersions(Applied(version, flush.edit), merge), pending, flush.edit.log)
      /\ UNCHANGED <<op, group, mem, merge, bgError, phase, promised>>
  BY DEF InstallFlush
<1>2. phase = "open"
  BY <1>1 DEF Sound, Stages, Flushing
<1>3. StoreDur /\ GroupDur /\ Covers(DurableNow, promised)
  BY <1>2 DEF Dur
<1>4. PICK e : e = flush.edit
  OBVIOUS
<1>5. /\ e.del = {} /\ e.addDeep = {} /\ e.log = mem /\ Content(tables, e.add0) \subseteq Entry
      /\ (merge # None => merge.step # "apply")
      /\ mem \in Nat /\ mem # 0 /\ mem \in DOMAIN logs
  BY <1>1, <1>2, <1>4, FlushEdit
<1>6. PICK M, V, I : /\ M = Content(tables, Files(manifest.version)) /\ V = Content(tables, Files(version))
                     /\ I = MemEntries(imm)
  OBVIOUS
<1>7. Covers(V \union (I \union SyncedOf(logs[mem])), promised) /\ Covers(M, V) /\ I \subseteq Content(tables, e.add0)
  BY <1>1, <1>3, <1>4, <1>6 DEF StoreDur
<1>8. manifest'.version = Applied(manifest.version, e) /\ manifest'.log = mem /\ version' = Applied(version, e)
  BY <1>1, <1>4, <1>5 DEF Recorded
<1>9. /\ Content(tables', Files(version')) = Content(tables, Files(version'))
      /\ Content(tables', Files(manifest'.version)) = Content(tables, Files(manifest'.version))
      /\ logs'[mem] = logs[mem] /\ mem \in DOMAIN logs'
  <2>1. CASE bgError = TRUE
    BY <1>1, <1>5, <2>1
  <2>2. CASE bgError = FALSE
    <3>1. version = manifest.version
      BY <1>2, <2>2 DEF Sound, Stages
    <3>2. PICK v, held : v = version' /\ held = HeldVersions(v, merge)
      OBVIOUS
    <3>3. v \in held /\ DeleteObsoleteFiles(held, pending, mem)
      BY <1>1, <1>4, <1>5, <1>8, <2>2, <3>2 DEF HeldVersions
    <3>4. /\ Content(tables', Files(v)) = Content(tables, Files(v))
          /\ \A n \in DOMAIN logs : n >= mem => n \in DOMAIN logs' /\ logs'[n] = logs[n]
      BY <3>3, NothingTaken
    <3>5. manifest'.version = v
      BY <1>8, <3>1, <3>2
    <3> QED
      BY <1>5, <3>2, <3>4, <3>5
  <2> QED
    BY <2>1, <2>2 DEF Sound, Stages
<1>10. PICK W, Z : W = Content(tables, Files(manifest'.version)) /\ Z = Content(tables, Files(version'))
  OBVIOUS
<1>11. W = M \union Content(tables, e.add0) /\ Z = V \union Content(tables, e.add0)
  BY <1>5, <1>6, <1>8, <1>10, FlushApplied
<1>12. Covers(W, Z)
  <2>1. Covers(W, V)
    BY <1>7, <1>11, CoversLess
  <2>2. Covers(W, Content(tables, e.add0))
    <3>1. Content(tables, e.add0) \subseteq W
      BY <1>11
    <3> QED
      BY <1>5, <3>1, CoversItself, CoversLess
  <2> QED
    BY <1>11, <2>1, <2>2, CoversBoth
<1>13. Covers(Z \union SyncedOf(logs[mem]), promised)
  <2>1. V \union (I \union SyncedOf(logs[mem])) \subseteq Z \union SyncedOf(logs[mem])
    BY <1>7, <1>11
  <2> QED
    BY <1>7, <2>1, CoversLess
<1>14. Covers(DurableNow', promised)
  BY <1>5, <1>8, <1>9, <1>10, <1>12, <1>13, DurableFromStore
<1>15. Covers(Content(tables', Files(version')) \union (MemEntries(imm)' \union SyncedOf(logs[mem])), promised)
  <2>1. MemEntries(imm)' = {}
    BY <1>1 DEF MemEntries
  <2> QED
    BY <1>9, <1>10, <1>13, <2>1
<1>16. Covers(Content(tables', Files(manifest'.version)), Content(tables', Files(version')))
  BY <1>9, <1>10, <1>12
<1>17. memtable'[mem] = memtable[mem]
  <2>1. mem \in Referenced(mem, 0, gets)
    BY <1>2, <1>5, ReferencedTo DEF Places, Memtables
  <2> QED
    BY <1>1, <2>1
<1> QED
  BY <1>1, <1>2, <1>3, <1>5, <1>9, <1>14, <1>15, <1>16, <1>17, InstalledDur

(* The promised entries when the MANIFEST says the same in other tables.   *)
LEMMA DurableFromManifest ==
  ASSUME Covers(DurableNow, promised),
         Covers(Content(tables', Files(manifest'.version)), Content(tables, Files(manifest.version))),
         Replayable(logs, manifest.log) \subseteq Replayable(logs', manifest'.log)
  PROVE  Covers(DurableNow', promised)
<1>1. PICK M, R, W : /\ M = Content(tables, Files(manifest.version)) /\ R = Replayable(logs, manifest.log)
                     /\ W = DurableNow'
  OBVIOUS
<1>2. W = Content(tables', Files(manifest'.version)) \union Replayable(logs', manifest'.log)
  BY <1>1 DEF DurableNow, Files, Replayable, SyncedOf
<1>3. Covers(W, M) /\ R \subseteq W
  BY <1>1, <1>2, CoversLess
<1>4. Covers(M \union R, promised)
  BY <1>1 DEF DurableNow
<1> QED
  BY <1>1, <1>3, <1>4, CoversParts

(* The edit of a compaction.                                               *)
LEMMA MergeEdit ==
  ASSUME Sound, Places, merge # None, merge.step = "apply", NEW A, Good(A), PoolOf(A)
  PROVE  /\ phase = "open" /\ flush = None
         /\ merge.edit.del = Files(merge.input) /\ merge.edit.add0 = {} /\ merge.edit.addDeep = {merge.number}
         /\ merge.edit.log = logNumber
         /\ Content(tables, {merge.number}) \subseteq Entry
         /\ Content(tables, Files(version)) \subseteq Entry /\ Content(tables, Files(manifest.version)) \subseteq Entry
         /\ logNumber \in Nat /\ logNumber <= manifest.log /\ manifest.log \in Nat /\ manifest.log <= mem
         /\ mem \in Nat /\ mem \in DOMAIN logs /\ DOMAIN logs \subseteq Nat
<1>1. phase = "open" /\ flush = None
  BY MergeRecorded
<1>2. merge.edit.del = Files(merge.input) /\ merge.edit.log = logNumber
  BY DEF Places, FileNumbers, FilesOfEdits
<1>3. merge.edit.add0 = {} /\ merge.edit.addDeep = {merge.number}
  BY DEF Sound, MergeSound
<1>4. \A s : Upto(A, s) \subseteq Entry
  BY DEF Good, Upto
<1>5. /\ Content(tables, {merge.number}) \subseteq Entry
      /\ Content(tables, Files(version)) \subseteq Entry /\ Content(tables, Files(manifest.version)) \subseteq Entry
  BY <1>1, <1>4 DEF PoolOf, OpenPool
<1>6. /\ logNumber \in Nat /\ logNumber <= manifest.log /\ manifest.log \in Nat /\ manifest.log <= mem
      /\ mem \in Nat /\ mem \in DOMAIN logs
  BY <1>1 DEF Places, Logs, Memtables
<1>7. DOMAIN logs \subseteq Nat
  BY DEF Sound, Numbers
<1> QED
  BY <1>1, <1>2, <1>3, <1>5, <1>6, <1>7

LEMMA FailMergeDur ==
  ASSUME Sound, Places, Dur, FailMerge, NEW A, Good(A), PoolOf(A)
  PROVE  Dur'
<1>1. /\ merge # None /\ merge.step = "apply" /\ merge' = None /\ bgError' = TRUE
      /\ manifest' \in {manifest, Recorded(manifest, merge.edit)}
      /\ UNCHANGED <<op, group, memtable, mem, imm, version, flush, phase, logs, tables, promised>>
  BY DEF FailMerge
<1>2. PICK e, n, F : e = merge.edit /\ n = merge.number /\ F = Files(merge.input)
  OBVIOUS
<1>3. phase = "open" /\ flush = None
  BY <1>1, MergeEdit
<1>4. /\ e.del = F /\ e.add0 = {} /\ e.addDeep = {n} /\ e.log = logNumber
      /\ logNumber \in Nat /\ logNumber <= manifest.log /\ manifest.log \in Nat /\ DOMAIN logs \subseteq Nat
  BY <1>1, <1>2, MergeEdit
<1>5. PICK M, V, I : /\ M = Content(tables, Files(manifest.version)) /\ V = Content(tables, Files(version))
                     /\ I = MemEntries(imm)
  OBVIOUS
<1>6. M \subseteq Entry /\ V \subseteq Entry
  BY <1>1, <1>5, MergeEdit
<1>7. StoreDur /\ GroupDur /\ Covers(DurableNow, promised)
  BY <1>3 DEF Dur
<1>8. Covers(V \union (I \union SyncedOf(logs[mem])), promised) /\ Covers(M, V) /\ Covers(Content(tables, {n}), Content(tables, F))
  BY <1>1, <1>2, <1>5, <1>7 DEF StoreDur
<1>9. MemEntries(imm)' = I
  BY <1>1, <1>5 DEF MemEntries
<1>10. Covers(Content(tables', Files(version')) \union (MemEntries(imm)' \union SyncedOf(logs[mem])), promised)
  BY <1>1, <1>5, <1>8, <1>9
<1>11. Covers(Content(tables', Files(manifest'.version)), M) /\ Replayable(logs, manifest.log) \subseteq Replayable(logs', manifest'.log)
  <2>1. CASE manifest' = manifest
    <3>1. Covers(M, M)
      BY <1>6, CoversItself
    <3> QED
      BY <1>1, <1>5, <2>1, <3>1
  <2>2. CASE manifest' = Recorded(manifest, e)
    <3>1. manifest'.version = Applied(manifest.version, e) /\ manifest'.log = logNumber
      BY <1>4, <2>2 DEF Recorded
    <3>2. PICK v : v = manifest.version
      OBVIOUS
    <3>3. Covers(Content(tables, Files(Applied(v, e))), Content(tables, Files(v)))
      BY <1>4, <1>5, <1>6, <1>8, <3>2, MergeApplied
    <3>4. \A k \in DOMAIN logs : k >= manifest.log => k \in DOMAIN logs /\ k >= logNumber /\ SyncedOf(logs[k]) \subseteq SyncedOf(logs[k])
      BY <1>4
    <3>5. Replayable(logs, manifest.log) \subseteq Replayable(logs, logNumber)
      BY <3>4, ReplayableStays
    <3> QED
      BY <1>1, <1>5, <3>1, <3>2, <3>3, <3>5
  <2> QED
    BY <1>1, <1>2, <2>1, <2>2
<1>12. Covers(DurableNow', promised)
  BY <1>5, <1>7, <1>11, DurableFromManifest
<1>13. Covers(Content(tables', Files(manifest'.version)), Content(tables', Files(version')))
  BY <1>1, <1>5, <1>8, <1>11, CoversChain
<1> QED
  BY <1>1, <1>3, <1>7, <1>10, <1>12, <1>13, InstalledDur

LEMMA InstallMergeDur ==
  ASSUME Sound, Places, Dur, InstallMerge, NEW A, Good(A), PoolOf(A)
  PROVE  Dur'
<1>1. /\ merge # None /\ merge.step = "apply" /\ merge' = None
      /\ manifest' = Recorded(manifest, merge.edit) /\ version' = Applied(version, merge.edit)
      /\ IF bgError THEN UNCHANGED <<tables, logs>>
         ELSE DeleteObsoleteFiles(HeldVersions(Applied(version, merge.edit), None), pending \ {merge.number}, logNumber)
      /\ UNCHANGED <<op, group, memtable, mem, imm, flush, bgError, phase, promised>>
  BY DEF InstallMerge
<1>2. PICK e, n, F : e = merge.edit /\ n = merge.number /\ F = Files(merge.input)
  OBVIOUS
<1>3. phase = "open" /\ flush = None
  BY <1>1, MergeEdit
<1>4. /\ e.del = F /\ e.add0 = {} /\ e.addDeep = {n} /\ e.log = logNumber
      /\ logNumber \in Nat /\ logNumber <= manifest.log /\ manifest.log \in Nat /\ manifest.log <= mem /\ mem \in Nat
      /\ mem \in DOMAIN logs /\ DOMAIN logs \subseteq Nat
  BY <1>1, <1>2, MergeEdit
<1>5. PICK M, V, I : /\ M = Content(tables, Files(manifest.version)) /\ V = Content(tables, Files(version))
                     /\ I = MemEntries(imm)
  OBVIOUS
<1>6. M \subseteq Entry /\ V \subseteq Entry /\ Content(tables, {n}) \subseteq Entry
  BY <1>1, <1>2, <1>5, MergeEdit
<1>7. StoreDur /\ GroupDur /\ Covers(DurableNow, promised)
  BY <1>3 DEF Dur
<1>8. Covers(V \union (I \union SyncedOf(logs[mem])), promised) /\ Covers(M, V) /\ Covers(Content(tables, {n}), Content(tables, F))
  BY <1>1, <1>2, <1>5, <1>7 DEF StoreDur
<1>9. MemEntries(imm)' = I
  BY <1>1, <1>5 DEF MemEntries
<1>10. manifest'.version = Applied(manifest.version, e) /\ manifest'.log = logNumber /\ version' = Applied(version, e)
  BY <1>1, <1>2, <1>4 DEF Recorded
<1>11. /\ Content(tables', Files(version')) = Content(tables, Files(version'))
       /\ Content(tables', Files(manifest'.version)) = Content(tables, Files(manifest'.version))
       /\ \A k \in DOMAIN logs : k >= logNumber => k \in DOMAIN logs' /\ logs'[k] = logs[k]
  <2>1. CASE bgError = TRUE
    BY <1>1, <2>1
  <2>2. CASE bgError = FALSE
    <3>1. version = manifest.version
      BY <1>3, <2>2 DEF Sound, Stages
    <3>2. PICK v, held : v = version' /\ held = HeldVersions(v, None)
      OBVIOUS
    <3>3. v \in held /\ DeleteObsoleteFiles(held, pending \ {merge.number}, logNumber)
      BY <1>1, <1>2, <1>10, <2>2, <3>2 DEF HeldVersions
    <3>4. /\ Content(tables', Files(v)) = Content(tables, Files(v))
          /\ \A k \in DOMAIN logs : k >= logNumber => k \in DOMAIN logs' /\ logs'[k] = logs[k]
      BY <3>3, NothingTaken
    <3>5. manifest'.version = v
      BY <1>10, <3>1, <3>2
    <3> QED
      BY <3>2, <3>4, <3>5
  <2> QED
    BY <2>1, <2>2 DEF Sound, Stages
<1>12. PICK W, Z : W = Content(tables, Files(manifest'.version)) /\ Z = Content(tables, Files(version'))
  OBVIOUS
<1>13. Covers(W, M) /\ Content(tables, {n}) \subseteq W
  <2>1. PICK v : v = manifest.version
    OBVIOUS
  <2>2. /\ Covers(Content(tables, Files(Applied(v, e))), Content(tables, Files(v)))
        /\ Content(tables, {n}) \subseteq Content(tables, Files(Applied(v, e)))
    BY <1>4, <1>5, <1>6, <1>8, <2>1, MergeApplied
  <2> QED
    BY <1>5, <1>10, <1>12, <2>1, <2>2
<1>14. Covers(Z, V) /\ Z \subseteq V \union Content(tables, {n})
  <2>1. PICK v : v = version
    OBVIOUS
  <2>2. /\ Covers(Content(tables, Files(Applied(v, e))), Content(tables, Files(v)))
        /\ Content(tables, Files(Applied(v, e))) \subseteq Content(tables, Files(v)) \union Content(tables, {n})
    BY <1>4, <1>5, <1>6, <1>8, <2>1, MergeApplied
  <2> QED
    BY <1>5, <1>10, <1>12, <2>1, <2>2
<1>15. Covers(W, Z)
  <2>1. Covers(W, V)
    BY <1>8, <1>13, CoversChain
  <2>2. Covers(W, Content(tables, {n}))
    BY <1>6, <1>13, CoversItself, CoversLess
  <2>3. Covers(W, V \union Content(tables, {n}))
    BY <2>1, <2>2, CoversBoth
  <2> QED
    BY <1>14, <2>3, CoversLess
<1>16. Covers(DurableNow', promised)
  <2>1. Replayable(logs, manifest.log) \subseteq Replayable(logs', manifest'.log)
    <3>1. \A k \in DOMAIN logs : k >= manifest.log =>
            k \in DOMAIN logs' /\ k >= logNumber /\ SyncedOf(logs[k]) \subseteq SyncedOf(logs'[k])
      BY <1>4, <1>11
    <3>2. Replayable(logs, manifest.log) \subseteq Replayable(logs', logNumber)
      BY <3>1, ReplayableStays
    <3> QED
      BY <1>10, <3>2
  <2>2. Covers(Content(tables', Files(manifest'.version)), Content(tables, Files(manifest.version)))
    BY <1>5, <1>11, <1>12, <1>13
  <2> QED
    BY <1>7, <2>1, <2>2, DurableFromManifest
<1>17. Covers(Content(tables', Files(version')) \union (MemEntries(imm)' \union SyncedOf(logs[mem])), promised)
  <2>1. Covers(Z \union (I \union SyncedOf(logs[mem])), promised)
    <3>1. PICK S, Y : S = I \union SyncedOf(logs[mem]) /\ Y = Z \union S
      OBVIOUS
    <3>2. Covers(V \union S, promised) /\ Covers(Y, V) /\ S \subseteq Y
      BY <1>8, <1>14, <3>1, CoversLess
    <3>3. Covers(Y, promised)
      BY <3>2, CoversParts
    <3> QED
      BY <3>1, <3>3
  <2> QED
    BY <1>9, <1>11, <1>12, <2>1
<1>18. Covers(Content(tables', Files(manifest'.version)), Content(tables', Files(version')))
  BY <1>11, <1>12, <1>15
<1>19. logs'[mem] = logs[mem] /\ memtable'[mem] = memtable[mem] /\ flush' = None
  BY <1>1, <1>3, <1>4, <1>11
<1>20. bgError' = FALSE => bgError = FALSE
  BY <1>1
<1> QED
  BY <1>1, <1>7, <1>16, <1>17, <1>18, <1>19, <1>20, InstalledDur

(* A recovery has read all that is promised in the logs.                   *)
LEMMA RecoverDurable ==
  ASSUME Sound, Places, Recovers, NEW A, Good(A), PoolOf(A)
  PROVE  /\ DurableNow \subseteq Content(tables, Files(Recorded(manifest, flush.edit).version))
         /\ Content(tables, Files(Recorded(manifest, flush.edit).version)) \subseteq Entry
<1>1. PICK e, v : e = flush.edit /\ v = manifest.version
  OBVIOUS
<1>2. e.del = {} /\ e.addDeep = {}
  BY <1>1 DEF Recovers, Places, FileNumbers, Sound, FlushSound, Flushing
<1>3. Content(tables, Files(Applied(v, e))) = Content(tables, Files(v)) \union Content(tables, e.add0)
  BY <1>2, FlushApplied
<1>4. Recorded(manifest, e).version = Applied(v, e)
  BY <1>1 DEF Recorded
<1>5. RecoverPool(A) /\ A \subseteq Entry
  BY DEF PoolOf, Good
<1>6. Replayable(logs, manifest.log) \subseteq Content(tables, e.add0)
  <2> SUFFICES ASSUME NEW n \in DOMAIN logs, n >= manifest.log PROVE SyncedOf(logs[n]) \subseteq Content(tables, e.add0)
    BY DEF Replayable
  <2>1. n \in LogsToReplay
    BY DEF LogsToReplay
  <2>2. RecsIn(logs[n], Content(tables, e.add0))
    BY <1>1, <1>5, <2>1 DEF RecoverPool
  <2>3. LogFile(logs[n])
    BY DEF Places, Logs
  <2> QED
    BY <2>2, <2>3, SyncedIn
<1>7. Content(tables, Files(v)) \subseteq Entry /\ Content(tables, e.add0) \subseteq Entry
  BY <1>1, <1>5 DEF PoolOf, RecoverPool, Upto
<1>8. DurableNow = Content(tables, Files(v)) \union Replayable(logs, manifest.log)
  BY <1>1 DEF DurableNow
<1> QED
  BY <1>1, <1>3, <1>4, <1>6, <1>7, <1>8

(* A death: what a log had synced stays, and the MANIFEST may have the     *)
(* record that was being written.                                          *)
LEMMA DeathDur ==
  ASSUME Sound, Places, Dur, Forget, manifest' \in ManifestAfterDeath, UNCHANGED <<tables, promised>>,
         DOMAIN logs' = DOMAIN logs, \A n \in DOMAIN logs : SyncedOf(logs[n]) \subseteq SyncedOf(logs'[n]),
         NEW A, Good(A), PoolOf(A)
  PROVE  Dur'
<1>1. phase' = "down"
  BY DEF Forget
<1>2. Covers(DurableNow, promised)
  BY DEF Dur
<1>3. CASE manifest' = manifest
  <2>1. Replayable(logs, manifest.log) \subseteq Replayable(logs', manifest.log)
    BY ReplayableStays
  <2> QED
    BY <1>1, <1>2, <1>3, <2>1, DurableKept DEF Dur
<1>4. CASE phase = "open" /\ flush # None /\ flush.step = "apply" /\ manifest' = Recorded(manifest, flush.edit)
  <2>1. PICK e, v : e = flush.edit /\ v = manifest.version
    OBVIOUS
  <2>2. /\ e.del = {} /\ e.addDeep = {} /\ e.log = mem /\ Content(tables, e.add0) \subseteq Entry
        /\ mem \in Nat /\ mem \in DOMAIN logs
    BY <1>4, <2>1, FlushEdit
  <2>3. PICK M, V, I : /\ M = Content(tables, Files(v)) /\ V = Content(tables, Files(version))
                       /\ I = MemEntries(imm)
    OBVIOUS
  <2>4. Covers(V \union (I \union SyncedOf(logs[mem])), promised) /\ Covers(M, V) /\ I \subseteq Content(tables, e.add0)
    BY <1>4, <2>1, <2>3 DEF Dur, StoreDur
  <2>5. manifest'.version = Applied(v, e) /\ manifest'.log = mem
    BY <1>4, <2>1, <2>2 DEF Recorded
  <2>6. PICK W : W = Content(tables, Files(Applied(v, e)))
    OBVIOUS
  <2>7. W = M \union Content(tables, e.add0)
    BY <2>2, <2>3, <2>6, FlushApplied
  <2>8. Covers(W, V)
    BY <2>4, <2>7, CoversLess
  <2>9. I \subseteq Entry /\ I \subseteq W
    BY <2>2, <2>4, <2>7
  <2>10. Covers(W, I)
    BY <2>9, CoversItself, CoversLess
  <2>11. Covers(W, V \union I)
    BY <2>8, <2>10, CoversBoth
  <2>12. Covers((V \union I) \union SyncedOf(logs[mem]), promised)
    <3>1. V \union (I \union SyncedOf(logs[mem])) = (V \union I) \union SyncedOf(logs[mem])
      OBVIOUS
    <3> QED
      BY <2>4, <3>1
  <2>13. Covers(Content(tables', Files(manifest'.version)), V \union I)
    BY <2>5, <2>6, <2>11
  <2>14. Covers(DurableNow', promised)
    BY <2>2, <2>5, <2>12, <2>13, DurableFromStore
  <2> QED
    BY <1>1, <2>14 DEF Dur
<1>5. CASE Recovers /\ manifest' = Recorded(manifest, flush.edit)
  <2>1. DurableNow \subseteq Content(tables, Files(manifest'.version))
    BY <1>5, RecoverDurable
  <2>2. DurableNow' = Content(tables', Files(manifest'.version)) \union Replayable(logs', manifest'.log)
    BY DEF DurableNow, Files, Replayable, SyncedOf
  <2>3. DurableNow \subseteq DurableNow'
    BY <2>1, <2>2
  <2>4. Covers(DurableNow', promised)
    BY <1>2, <2>3, CoversLess
  <2> QED
    BY <1>1, <2>4 DEF Dur
<1>6. CASE merge # None /\ merge.step = "apply" /\ manifest' = Recorded(manifest, merge.edit)
  <2>1. PICK e, n, F, v : e = merge.edit /\ n = merge.number /\ F = Files(merge.input) /\ v = manifest.version
    OBVIOUS
  <2>2. phase = "open" /\ Content(tables, Files(v)) \subseteq Entry
    BY <1>6, <2>1, MergeEdit
  <2>3. /\ e.del = F /\ e.add0 = {} /\ e.addDeep = {n} /\ e.log = logNumber
        /\ logNumber \in Nat /\ logNumber <= manifest.log /\ manifest.log \in Nat /\ DOMAIN logs \subseteq Nat
    BY <1>6, <2>1, MergeEdit
  <2>4. Covers(Content(tables, {n}), Content(tables, F))
    BY <1>6, <2>1, <2>2 DEF Dur, StoreDur
  <2>5. Covers(Content(tables, Files(Applied(v, e))), Content(tables, Files(v)))
    BY <2>2, <2>3, <2>4, MergeApplied
  <2>6. manifest'.version = Applied(v, e) /\ manifest'.log = logNumber
    BY <1>6, <2>1, <2>3 DEF Recorded
  <2>7. \A k \in DOMAIN logs : k >= manifest.log => k \in DOMAIN logs' /\ k >= logNumber /\ SyncedOf(logs[k]) \subseteq SyncedOf(logs'[k])
    BY <2>3
  <2>8. Replayable(logs, manifest.log) \subseteq Replayable(logs', logNumber)
    BY <2>7, ReplayableStays
  <2>9. Covers(DurableNow', promised)
    BY <1>2, <2>1, <2>5, <2>6, <2>8, DurableFromManifest
  <2> QED
    BY <1>1, <2>9 DEF Dur
<1> QED
  BY <1>3, <1>4, <1>5, <1>6, DeadManifest

LEMMA ProcessDiesDur ==
  ASSUME Sound, Queue, Places, Dur, ProcessDies, NEW A, Good(A), PoolOf(A)
  PROVE  Dur'
<1>1. Forget /\ manifest' \in ManifestAfterDeath /\ UNCHANGED <<tables, promised>>
  BY DEF ProcessDies
<1>2. DOMAIN logs' = DOMAIN logs /\ \A n \in DOMAIN logs : SyncedOf(logs[n]) \subseteq SyncedOf(logs'[n])
  <2>1. CASE logs' = logs
    BY <2>1
  <2>2. CASE group # None /\ logs' = [logs EXCEPT ![mem].recs = Append(@, ToSet(group.entries))]
    <3>1. mem \in DOMAIN logs
      BY <2>2, WhileWriting
    <3>2. /\ DOMAIN logs' = DOMAIN logs /\ \A n \in DOMAIN logs : n # mem => logs'[n] = logs[n]
          /\ logs'[mem].synced = logs[mem].synced
          /\ \A i \in 1..Len(logs[mem].recs) : logs'[mem].recs[i] = logs[mem].recs[i]
      BY <2>2, <3>1, AddRecordLogs
    <3>3. logs[mem].synced \in Nat /\ Len(logs[mem].recs) \in Nat /\ logs[mem].synced <= Len(logs[mem].recs)
      BY <3>1, LogIs DEF Places, Logs
    <3>4. SyncedOf(logs[mem]) \subseteq SyncedOf(logs'[mem])
      BY <3>2, <3>3, SyncedStays
    <3> QED
      BY <3>2, <3>4
  <2> QED
    BY <2>1, <2>2 DEF ProcessDies
<1> QED
  BY <1>1, <1>2, DeathDur

LEMMA MachineDiesDur ==
  ASSUME Sound, Places, Dur, MachineDies, NEW A, Good(A), PoolOf(A)
  PROVE  Dur'
<1>1. Forget /\ manifest' \in ManifestAfterDeath /\ UNCHANGED <<tables, promised>>
  BY DEF MachineDies
<1>2. DOMAIN logs' = DOMAIN logs /\ \A n \in DOMAIN logs : SyncedOf(logs[n]) \subseteq SyncedOf(logs'[n])
  <2>1. DOMAIN logs' = DOMAIN logs
    BY MachineDiesLogs
  <2>2. ASSUME NEW n \in DOMAIN logs PROVE SyncedOf(logs[n]) \subseteq SyncedOf(logs'[n])
    <3>1. /\ LogFile(logs'[n]) /\ Len(logs'[n].recs) = logs'[n].synced
          /\ logs[n].synced <= Len(logs'[n].recs)
          /\ \A i \in 1..Len(logs'[n].recs) : logs'[n].recs[i] = logs[n].recs[i]
      BY MachineDiesLogs
    <3>2. logs[n].synced \in Nat
      BY LogIs DEF Places, Logs
    <3>3. logs'[n].synced \in Nat
      BY <3>1, LogIs
    <3> QED
      BY <3>1, <3>2, <3>3, SyncedStays
  <2> QED
    BY <2>1, <2>2
<1> QED
  BY <1>1, <1>2, DeathDur

LEMMA StartRecoveryDur ==
  ASSUME Dur, StartRecovery
  PROVE  Dur'
<1>1. phase' = "opening" /\ UNCHANGED <<logs, tables, manifest, promised>>
  BY DEF StartRecovery, disk
<1>2. Covers(DurableNow, promised)
  BY DEF Dur
<1> QED
  BY <1>1, <1>2, DurableKept DEF Dur

(* The tables a replay makes are new.                                      *)
LEMMA ReplayDur ==
  ASSUME Places, Dur, phase = "opening", UNCHANGED <<phase, logs, manifest, promised>>,
         NEW x, tables' = tables \/ tables' = With(tables, nextFile, x)
  PROVE  Dur'
<1>1. nextFile \notin Files(manifest.version)
  BY DEF Places, FileNumbers, Below, InUse
<1>2. Content(tables', Files(manifest.version)) = Content(tables, Files(manifest.version))
  <2>1. PICK S, n, t : S = Files(manifest.version) /\ n = nextFile /\ t = tables
    OBVIOUS
  <2>2. Content(With(t, n, x), S) = Content(t, S)
    BY <1>1, <2>1, ContentOfOld
  <2> QED
    BY <2>1, <2>2
<1>3. Covers(DurableNow, promised)
  BY DEF Dur
<1>4. Covers(DurableNow', promised')
  BY <1>2, <1>3, DurableKept
<1> QED
  BY <1>4 DEF Dur

LEMMA OpenNewLogDur ==
  ASSUME Places, Dur, OpenNewLog
  PROVE  Dur'
<1>1. /\ Replays /\ flush.left = {} /\ phase' # "open" /\ logs' = With(logs, nextFile, NewLog)
      /\ UNCHANGED <<tables, manifest, promised>>
  BY DEF OpenNewLog, Replays
<1>2. \A n \in LogsToReplay : n # nextFile
  BY <1>1 DEF Places, Logs, Below
<1>3. \A n \in DOMAIN logs : n >= manifest.log => n \in DOMAIN logs' /\ logs'[n] = logs[n]
  BY <1>1, <1>2 DEF LogsToReplay, With
<1>4. Replayable(logs, manifest.log) \subseteq Replayable(logs', manifest.log)
  BY <1>3, ReplayableStays
<1>5. Covers(DurableNow, promised)
  BY DEF Dur
<1> QED
  BY <1>1, <1>4, <1>5, DurableKept DEF Dur

(* The database is open once what the logs held is in the tables.          *)
LEMMA FinishOpenDur ==
  ASSUME Sound, Places, Dur, FinishOpen, NEW A, Good(A), PoolOf(A)
  PROVE  Dur'
<1>1. /\ Recovers /\ phase' = "open" /\ flush' = None /\ manifest' = Recorded(manifest, flush.edit)
      /\ version' = Applied(version, flush.edit)
      /\ DeleteObsoleteFiles({Applied(version, flush.edit)}, {}, flush.edit.log)
      /\ UNCHANGED <<group, memtable, mem, imm, merge, bgError, promised>>
  BY DEF FinishOpen, Recovers
<1>2. /\ group = None /\ merge = None /\ version = manifest.version
      /\ flush.edit.log = mem /\ logs[mem] = NewLog /\ mem \in Nat /\ mem \in DOMAIN logs
  BY <1>1 DEF Sound, Stages, Places, Memtables, Logs, Recovers
<1>3. PICK v, held : v = Applied(version, flush.edit) /\ held = {v}
  OBVIOUS
<1>4. v \in held /\ DeleteObsoleteFiles(held, {}, mem)
  BY <1>1, <1>2, <1>3
<1>5. /\ Content(tables', Files(v)) = Content(tables, Files(v))
      /\ \A n \in DOMAIN logs : n >= mem => n \in DOMAIN logs' /\ logs'[n] = logs[n]
  BY <1>4, NothingTaken
<1>6. version' = v /\ manifest'.version = v
  BY <1>1, <1>2, <1>3 DEF Recorded
<1>7. DurableNow \subseteq Content(tables, Files(v)) /\ Content(tables, Files(v)) \subseteq Entry
  BY <1>1, <1>6, RecoverDurable
<1>8. PICK W : W = Content(tables, Files(v))
  OBVIOUS
<1>9. Covers(W, promised)
  <2>1. Covers(DurableNow, promised)
    BY DEF Dur
  <2> QED
    BY <1>7, <1>8, <2>1, CoversLess
<1>10. Content(tables', Files(version')) = W /\ Content(tables', Files(manifest'.version)) = W
  BY <1>5, <1>6, <1>8
<1>11. Covers(DurableNow', promised')
  <2>1. DurableNow' = Content(tables', Files(manifest'.version)) \union Replayable(logs', manifest'.log)
    BY DEF DurableNow, Files, Replayable, SyncedOf
  <2>2. W \subseteq DurableNow'
    BY <1>10, <2>1
  <2>3. Covers(DurableNow', promised)
    BY <1>9, <2>2, CoversLess
  <2> QED
    BY <1>1, <2>3
<1>12. StoreDur'
  <2>1. Covers(Content(tables', Files(version')) \union (MemEntries(imm)' \union SyncedOf(logs'[mem'])), promised)
    <3>1. W \subseteq Content(tables', Files(version')) \union (MemEntries(imm)' \union SyncedOf(logs'[mem']))
      BY <1>10
    <3> QED
      BY <1>9, <3>1, CoversLess
  <2>2. Covers(Content(tables', Files(manifest'.version)), Content(tables', Files(version')))
    BY <1>7, <1>8, <1>10, CoversItself
  <2> QED
    BY <1>1, <1>2, <2>1, <2>2 DEF StoreDur, Files, SyncedOf
<1>13. GroupDur'
  <2>1. logs'[mem'].recs = <<>>
    BY <1>1, <1>2, <1>5 DEF NewLog
  <2> QED
    BY <1>1, <1>2, <2>1 DEF GroupDur, RecsIn
<1> QED
  BY <1>11, <1>12, <1>13 DEF Dur

-----------------------------------------------------------------------------
(* Every step.                                                             *)
LEMMA FrontWrites ==
  ASSUME Queue, group # None, NEW w \in Writers, op[w] = None
  PROVE  group.members[1] # w
<1>1. PICK k \in 1..Len(writers) : group.members = SubSeq(writers, 1, k)
  BY DEF Queue, Group, Members
<1>2. writers \in Seq(Writers) /\ ToSet(writers) = {x \in Writers : op[x] # None}
  BY DEF Queue, Calls
<1>3. SubSeq(writers, 1, k)[1] = writers[1] /\ 1 \in DOMAIN writers
  BY <1>2
<1>4. writers[1] \in ToSet(writers)
  BY <1>3 DEF ToSet
<1> QED
  BY <1>1, <1>2, <1>3, <1>4

LEMMA EndGetDur ==
  ASSUME Sound, Places, Dur, NEW r \in Readers, EndGet(r)
  PROVE  Dur'
<1>1. /\ memtable' = [i \in Referenced(mem, imm, gets') |-> memtable[i]]
      /\ UNCHANGED <<op, group, mem, imm, version, flush, merge, bgError, phase, logs, tables, manifest, promised>>
  BY DEF EndGet, disk
<1>2. ASSUME phase = "open"
      PROVE  memtable'[mem] = memtable[mem] /\ MemEntries(imm)' = MemEntries(imm)
  <2>1. mem \in Nat /\ imm \in Nat /\ 0 < mem
    BY <1>2 DEF Places, Memtables
  <2>2. mem \in Referenced(mem, imm, gets') /\ (imm # 0 => imm \in Referenced(mem, imm, gets'))
    BY <2>1 DEF Referenced
  <2>3. memtable'[mem] = memtable[mem] /\ (imm # 0 => memtable'[imm] = memtable[imm])
    BY <1>1, <2>2
  <2>4. MemEntries(imm)' = MemEntries(imm)
    BY <1>1, <2>3 DEF MemEntries
  <2> QED
    BY <2>3, <2>4
<1> QED
  BY <1>1, <1>2, UntouchedDur

LEMMA StepDur ==
  ASSUME Inv, Dur, [Next]_vars
  PROVE  Dur'
<1> USE DEF disk
<1>1. Sound /\ Queue /\ Places
  BY DEF Inv
<1>2. PICK A : Good(A) /\ PoolOf(A)
  BY DEF Inv, Pool
<1>3. CASE ClientStep
  <2>1. ASSUME NEW w \in Writers, Enqueue(w) PROVE Dur'
    <3>1. op[w] = None /\ (\A x \in Writers : x # w => op'[x] = op[x])
      BY <1>1, <2>1 DEF Enqueue, Queue, Calls
    <3>2. group # None => group.members[1] \in Writers /\ group.members[1] # w
      <4>1. ASSUME group # None PROVE group.members[1] \in Writers
        <5>1. PICK k \in 1..Len(writers) : group.members = SubSeq(writers, 1, k)
          BY <1>1, <4>1 DEF Queue, Group, Members
        <5>2. writers \in Seq(Writers)
          BY <1>1 DEF Queue, Calls
        <5> QED
          BY <5>1, <5>2
      <4> QED
        BY <1>1, <3>1, <4>1, FrontWrites
    <3>3. MemEntries(imm)' = MemEntries(imm)
      BY <2>1 DEF Enqueue, MemEntries
    <3>4. UNCHANGED <<imm, mem, version, manifest, tables, logs, promised, flush, merge, phase, memtable,
                      group, bgError>>
      BY <2>1 DEF Enqueue
    <3> QED
      BY <3>1, <3>2, <3>3, <3>4, UntouchedDur
  <2>2. ASSUME NEW r \in Readers, GetSnapshot(r) \/ ReleaseSnapshot(r) \/ BeginGet(r) PROVE Dur'
    <3>1. UNCHANGED <<op, imm, mem, version, manifest, tables, logs, promised, flush, merge, phase, memtable,
                      group, bgError>>
      BY <2>2 DEF GetSnapshot, ReleaseSnapshot, BeginGet
    <3>2. MemEntries(imm)' = MemEntries(imm)
      BY <3>1 DEF MemEntries
    <3> QED
      BY <3>1, <3>2, UntouchedDur
  <2> QED
    BY <1>3, <2>1, <2>2 DEF ClientStep
<1>4. CASE WriterStep
  <2>1. CASE YieldError \/ NoNewLog \/ WriteInPlace
    <3>1. /\ group = None /\ (group' = None \/ group'.step = "log")
          /\ UNCHANGED <<imm, mem, version, manifest, tables, logs, promised, flush, merge, phase, memtable, bgError>>
      BY <2>1 DEF YieldError, NoNewLog, WriteInPlace, FrontReady, Lead
    <3>2. MemEntries(imm)' = MemEntries(imm)
      BY <3>1 DEF MemEntries
    <3> QED
      BY <3>1, <3>2, UntouchedDur
  <2> QED
    BY <1>1, <1>4, <2>1, SwitchMemTableDur, AddRecordDur, SyncLogDur, InsertDur, FinishWriteDur DEF WriterStep
<1>5. CASE BackgroundStep
  <2>1. CASE IdleCall
    <3>1. UNCHANGED <<op, imm, mem, version, manifest, tables, logs, promised, flush, merge, phase, memtable,
                      group, bgError>>
      BY <2>1 DEF IdleCall
    <3>2. MemEntries(imm)' = MemEntries(imm)
      BY <3>1 DEF MemEntries
    <3> QED
      BY <3>1, <3>2, UntouchedDur
  <2> QED
    BY <1>1, <1>2, <1>5, <2>1, StartFlushDur, BuildTableDur, InstallFlushDur, FailFlushDur, StartMergeDur,
       OpenCompactionOutputFileDur, FinishMergeDur, InstallMergeDur, FailMergeDur DEF BackgroundStep
<1>6. CASE OpenStep
  <2>1. ASSUME NEW n \in DOMAIN logs, ReplayRecord(n) \/ FinishReplay(n) PROVE Dur'
    <3>1. phase = "opening" /\ UNCHANGED <<phase, logs, manifest, promised>>
      BY <2>1 DEF ReplayRecord, FinishReplay, Replaying
    <3>2. \E x : tables' = tables \/ tables' = With(tables, nextFile, x)
      BY <1>1, <2>1, ReplayRecordIs, FinishReplayIs
    <3>3. PICK x : tables' = tables \/ tables' = With(tables, nextFile, x)
      BY <3>2
    <3> QED
      BY <1>1, <3>1, <3>3, ReplayDur
  <2> QED
    BY <1>1, <1>2, <1>6, <2>1, StartRecoveryDur, OpenNewLogDur, FinishOpenDur DEF OpenStep
<1>7. CASE \E r \in Readers : EndGet(r)
  BY <1>1, <1>7, EndGetDur
<1>8. CASE ProcessDies
  BY <1>1, <1>2, <1>8, ProcessDiesDur
<1>9. CASE MachineDies
  BY <1>1, <1>2, <1>9, MachineDiesDur
<1>10. CASE UNCHANGED vars
  <2>1. UNCHANGED <<op, imm, mem, version, manifest, tables, logs, promised, flush, merge, phase, memtable,
                    group, bgError>>
    BY <1>10 DEF vars, memory
  <2>2. MemEntries(imm)' = MemEntries(imm)
    BY <2>1 DEF MemEntries
  <2> QED
    BY <2>1, <2>2, UntouchedDur
<1> QED
  BY <1>3, <1>4, <1>5, <1>6, <1>7, <1>8, <1>9, <1>10 DEF Next

LEMMA InitDur == Init => Dur
<1> SUFFICES ASSUME Init PROVE Dur
  OBVIOUS
<1>1. /\ promised = {} /\ group = None /\ flush = None /\ merge = None /\ tables = <<>> /\ mem = 3
      /\ logs = [n \in {3} |-> NewLog]
  BY DEF Init
<1>2. \A X : Covers(X, {})
  BY DEF Covers
<1>3. \A S : Content(tables, S) = {}
  <2>1. DOMAIN tables = {}
    BY <1>1
  <2> QED
    BY <2>1 DEF Content
<1>4. StoreDur
  BY <1>1, <1>2, <1>3 DEF StoreDur
<1>5. GroupDur
  BY <1>1 DEF GroupDur, RecsIn, NewLog
<1> QED
  BY <1>1, <1>2, <1>4, <1>5 DEF Dur

(* What a recovery would find is what the property calls durable.          *)
LEMMA DurableIs ==
  ASSUME Places, Dur
  PROVE  SyncedWritesAreDurable
<1> DEFINE durable == EntriesOf(manifest.version) \union
             UNION {UNION ToSet(SubSeq(logs[n].recs, 1, logs[n].synced)) : n \in LogsToReplay}
<1>1. DurableNow \subseteq durable
  <2>1. EntriesOf(manifest.version) = Content(tables, Files(manifest.version))
    BY DEF EntriesOf, Content
  <2>2. ASSUME NEW l, LogFile(l) PROVE SyncedOf(l) \subseteq UNION ToSet(SubSeq(l.recs, 1, l.synced))
    <3>1. PICK q, s : q = l.recs /\ s = l.synced
      OBVIOUS
    <3>2. q \in Seq(SUBSET Entry) /\ s \in Nat /\ s <= Len(q)
      BY <2>2, <3>1 DEF LogFile
    <3>3. PICK p : p = SubSeq(q, 1, s)
      OBVIOUS
    <3>4. DOMAIN p = 1..s /\ \A i \in 1..s : p[i] = q[i]
      BY <3>2, <3>3
    <3>5. ToSet(p) = {p[i] : i \in 1..s}
      BY <3>4 DEF ToSet
    <3>6. SyncedOf(l) = UNION {q[i] : i \in 1..s}
      BY <3>1 DEF SyncedOf
    <3>7. SyncedOf(l) \subseteq UNION ToSet(p)
      BY <3>4, <3>5, <3>6
    <3> QED
      BY <3>1, <3>3, <3>7
  <2>3. ASSUME NEW n \in DOMAIN logs, n >= manifest.log, NEW e \in SyncedOf(logs[n]) PROVE e \in durable
    <3>1. n \in LogsToReplay
      BY <2>3 DEF LogsToReplay
    <3>2. LogFile(logs[n])
      BY DEF Places, Logs
    <3>3. e \in UNION ToSet(SubSeq(logs[n].recs, 1, logs[n].synced))
      BY <2>2, <3>2
    <3> QED
      BY <3>1, <3>3
  <2> QED
    BY <2>1, <2>3 DEF DurableNow, Replayable
<1>2. Covers(DurableNow, promised)
  BY DEF Dur
<1> HIDE DEF durable
<1>3. \A e \in promised : \E f \in durable : f.key = e.key /\ f.seq >= e.seq
  BY <1>1, <1>2 DEF Covers, Over
<1> QED
  BY <1>3 DEF SyncedWritesAreDurable, durable

(* What a synced write that was answered wrote is on the disk, in a table  *)
(* the MANIFEST names or in the synced part of a log that will be replayed, *)
(* unless a newer write of its key is: whatever fails and whoever dies,    *)
(* the process or the machine (WriteOptions::sync, DBImpl::Write,          *)
(* DBImpl::Recover, VersionSet::LogAndApply).                              *)
THEOREM SyncedWritesKept == Spec => []SyncedWritesAreDurable
<1>1. Init => Inv /\ Dur
  BY InitInv, InitDur
<1>2. (Inv /\ Dur) /\ [Next]_vars => (Inv /\ Dur)'
  BY StepInv, StepDur
<1>3. Inv /\ Dur => SyncedWritesAreDurable
  BY DurableIs DEF Inv
<1> QED
  BY <1>1, <1>2, <1>3, PTL DEF Spec

=============================================================================
