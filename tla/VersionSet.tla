----------------------------- MODULE VersionSet ------------------------------
(***************************************************************************)
(* The levels of leveldb (db/version_set.cc): where flushes put their      *)
(* tables, which tables a compaction takes and writes, and how Get finds a *)
(* key among them, with the compactions of db/db_impl.cc that run while    *)
(* the memtable is flushed under them.                                     *)
(*                                                                         *)
(* A sequence number stands for its internal key: hist says which user key *)
(* it wrote or deleted.  A file is [number, entries], entries a set of     *)
(* sequence numbers, and is as large as it has entries.  User keys are     *)
(* 1..MaxKey; 0 and MaxKey+1 are the null bounds of a range.               *)
(***************************************************************************)
EXTENDS Naturals, Sequences, FiniteSets, SequencesExt, FiniteSetsExt

CONSTANTS
  None,
  MaxKey,             \* user keys are 1..MaxKey
  NumLevels,          \* config::kNumLevels
  MaxMemCompactLevel, \* config::kMaxMemCompactLevel
  L0Trigger,          \* config::kL0_CompactionTrigger
  MaxFileSize,        \* options.max_file_size
  LevelBytes,         \* MaxBytesForLevel, the same for every level
  MaxOverlap,         \* MaxGrandParentOverlapBytes
  ExpandedLimit,      \* ExpandedCompactionByteSizeLimit
  Scripts,            \* the sequences of writes, [key, del], that clients may make
  ManualRanges,       \* the <<begin, end>> CompactRange is called with
  MaxEvents           \* bound: snapshots taken, files whose allowed seeks run out, calls
                      \* of CompactRange and restarts, all together

ASSUME SizesAssumption ==
  /\ {NumLevels, MaxMemCompactLevel, L0Trigger, MaxFileSize, LevelBytes} \subseteq Nat \ {0}
  /\ MaxMemCompactLevel < NumLevels - 1

VARIABLES
  hist,      \* the writes so far: [key, del]
  mem,       \* what the memtables hold
  version,   \* current_: the files of each level
  pointer,   \* compact_pointer_: the last key compacted of each level, or 0
  seek,      \* file_to_compact_ with its level, or None
  merge,     \* the Compaction in progress, or None
  manual,    \* the CompactRange in progress, or None
  snaps,     \* the sequence numbers of the live snapshots
  nextFile,  \* next_file_number_
  logged,    \* what a replay of the MANIFEST gathers: VersionSet::Builder
  spent,     \* how much of MaxEvents is used
  harmed     \* history: the user keys that an overlap in a level, or a boundary file
             \* that a merge left behind, may have hurt

vars == <<hist, mem, version, pointer, seek, merge, manual, snaps, nextFile, logged, spent, harmed>>

Levels == 0..NumLevels - 1
MaxSequence == Max({Len(s) : s \in Scripts}) + 1

----------------------------------------------------------------------------
(* Internal keys, files and ranges                                         *)

KeyOf(x) == hist[x].key

\* InternalKeyComparator: user keys ascending, then sequence numbers descending
Before(x, y) == KeyOf(x) < KeyOf(y) \/ (KeyOf(x) = KeyOf(y) /\ x > y)

\* x comes before the internal key of k at sequence number s
Precedes(x, k, s) == KeyOf(x) < k \/ (KeyOf(x) = k /\ x > s)

Smallest(f) == CHOOSE x \in f.entries : \A y \in f.entries \ {x} : Before(x, y)
Largest(f) == CHOOSE x \in f.entries : \A y \in f.entries \ {x} : Before(y, x)
Lo(f) == KeyOf(Smallest(f))
Hi(f) == KeyOf(Largest(f))
Covers(f, k) == Lo(f) <= k /\ k <= Hi(f)

\* the order of files_[level]: BySmallestKey
InOrder(fs) == SetToSortSeq(fs, LAMBDA f, g :
  Before(Smallest(f), Smallest(g)) \/ (Smallest(f) = Smallest(g) /\ f.number < g.number))

TotalFileSize(fs) == FoldSet(LAMBDA f, n : n + Cardinality(f.entries), 0, fs)

LastOf(fs) == CHOOSE x \in {Largest(f) : f \in fs} : \A f \in fs : ~Before(x, Largest(f))
LowKey(fs) == Min({Lo(f) : f \in fs})
HighKey(fs) == Max({Hi(f) : f \in fs})

\* the index of the first file whose largest key is not before <<k, s>>
FindFile(fs, k, s) ==
  LET find[left \in 0..Len(fs), right \in 0..Len(fs)] ==
        IF left >= right THEN right
        ELSE LET mid == (left + right) \div 2
             IN IF Precedes(Largest(fs[mid + 1]), k, s) THEN find[mid + 1, right]
                ELSE find[left, mid]
  IN find[0, Len(fs)]

OverlapInLevel(v, level, lo, hi) ==
  IF level = 0 THEN \E f \in v[0] : lo <= Hi(f) /\ Lo(f) <= hi
  ELSE LET fs == InOrder(v[level])
           i == FindFile(fs, lo, MaxSequence)
       IN i < Len(fs) /\ Lo(fs[i + 1]) <= hi

Overlapping(fs, lo, hi) == {f \in fs : lo <= Hi(f) /\ Lo(f) <= hi}

\* the files of a level that overlap a range of user keys; in level 0 the range
\* grows with the files found
GetOverlappingInputs(v, level, lo, hi) ==
  LET range[n \in Nat] ==
        IF n = 0 THEN <<lo, hi>>
        ELSE LET r == range[n - 1]
                 found == Overlapping(v[0], r[1], r[2])
             IN <<Min({r[1]} \union {Lo(f) : f \in found}), Max({r[2]} \union {Hi(f) : f \in found})>>
      widest == range[Cardinality(v[0])]
  IN IF level > 0 THEN Overlapping(v[level], lo, hi)
     ELSE Overlapping(v[0], widest[1], widest[2])

----------------------------------------------------------------------------
(* Version::Get                                                            *)

\* the files of a level in which <<k, s>> is looked for, in order
FilesToRead(v, level, k, s) ==
  IF level = 0
  THEN SetToSortSeq({f \in v[0] : Covers(f, k)}, LAMBDA f, g : f.number > g.number)
  ELSE LET fs == InOrder(v[level])
           i == FindFile(fs, k, s)
       IN IF i < Len(fs) /\ Lo(fs[i + 1]) <= k THEN <<fs[i + 1]>> ELSE <<>>

AllToRead(v, k, s) == FlattenSeq([i \in 1..NumLevels |-> FilesToRead(v, i - 1, k, s)])

Hits(entries, k, s) == {x \in entries : KeyOf(x) = k /\ x <= s}

\* the sequence number of the newest entry of k at s that Get comes upon, or 0
Get(k, s) ==
  LET reads == <<mem>> \o [i \in DOMAIN AllToRead(version, k, s) |-> AllToRead(version, k, s)[i].entries]
      found == {i \in DOMAIN reads : Hits(reads[i], k, s) # {}}
  IN IF found = {} THEN 0 ELSE Max(Hits(reads[Min(found)], k, s))

----------------------------------------------------------------------------
(* VersionEdit and VersionSet::Builder                                     *)

EditOf(dels, adds) == [del |-> dels, add |-> adds]

\* mutant: files are deleted by number, whatever their level
GatheredByNumber(b, e, ptr) ==
  [added |-> b.added \union e.add,
   deleted |-> b.deleted \union {<<l, d[2]>> : l \in Levels, d \in e.del}, pointer |-> ptr]

\* Builder::Apply: the edit joins what was gathered before
Gathered(b, e, ptr) ==
  [added |-> b.added \union e.add,
   deleted |-> (b.deleted \union e.del) \ {<<a[1], a[2].number>> : a \in e.add},
   pointer |-> ptr]

\* Builder::SaveTo, over no files
Saved(b) == [l \in Levels |-> {a[2] : a \in {x \in b.added : x[1] = l /\ <<l, x[2].number>> \notin b.deleted}}]

Applied(v, e) ==
  [l \in Levels |-> {f \in v[l] : <<l, f.number>> \notin e.del} \union {a[2] : a \in {x \in e.add : x[1] = l}}]

\* LogAndApply: the record is in the MANIFEST and the new version is current
LogAndApply(e, ptr) ==
  /\ version' = Applied(version, e)
  /\ logged' = Gathered(logged, e, ptr)
  /\ seek' = None

NewManifest(v, ptr) ==
  [added |-> UNION {{<<l, f>> : f \in v[l]} : l \in Levels}, deleted |-> {}, pointer |-> ptr]

----------------------------------------------------------------------------
(* Choosing a compaction                                                   *)

\* <<size, limit>> of a level
Score(v, level) ==
  IF level = 0 THEN <<Cardinality(v[0]), L0Trigger>> ELSE <<TotalFileSize(v[level]), LevelBytes>>

Exceeds(a, b) == a[1] * b[2] > b[1] * a[2]

\* Finalize: the first of the levels with the greatest score
CompactionLevel(v) ==
  CHOOSE l \in 0..NumLevels - 2 :
    /\ \A m \in 0..NumLevels - 2 : ~Exceeds(Score(v, m), Score(v, l))
    /\ \A m \in 0..l - 1 : Exceeds(Score(v, l), Score(v, m))

TooLarge(v) == Score(v, CompactionLevel(v))[1] >= Score(v, CompactionLevel(v))[2]

\* mutant: files that start inside a user key of the inputs are left behind
AddNoInputs(fs, inputs) == inputs

\* the inputs, and the files of the level that go on with their last user key
AddBoundaryInputs(fs, inputs) ==
  LET grown[n \in Nat] ==
        IF n = 0 THEN inputs
        ELSE LET last == LastOf(grown[n - 1])
                 boundary == {f \in fs : Before(last, Smallest(f)) /\ Lo(f) = KeyOf(last)}
             IN IF boundary = {} THEN grown[n - 1]
                ELSE grown[n - 1] \union {Head(InOrder(boundary))}
  IN IF inputs = {} THEN {} ELSE grown[Cardinality(fs)]

SetupOtherInputs(v, level, chosen) ==
  LET first == AddBoundaryInputs(v[level], chosen)
      second == GetOverlappingInputs(v, level + 1, LowKey(first), HighKey(first))
      all == first \union second
      more == AddBoundaryInputs(v[level],
                GetOverlappingInputs(v, level, LowKey(all), HighKey(all)))
      expands ==
        /\ second # {} /\ Cardinality(more) > Cardinality(first)
        /\ TotalFileSize(second) + TotalFileSize(more) < ExpandedLimit
        /\ Cardinality(GetOverlappingInputs(v, level + 1, LowKey(more), HighKey(more)))
             = Cardinality(second)
      inputs == IF expands THEN more ELSE first
      whole == inputs \union second
  IN [level |-> level, inputs |-> inputs, next |-> second, base |-> v,
      grandparents |-> IF level + 2 < NumLevels
                       THEN GetOverlappingInputs(v, level + 2, LowKey(whole), HighKey(whole)) ELSE {},
      snapshot |-> Min(snaps \union {Len(hist)})]

\* the files one of which a size compaction starts from
FilesAfter(fs, p) ==
  LET after == {f \in fs : p = 0 \/ Before(p, Largest(f))}
  IN IF after = {} THEN fs ELSE after

\* the level and the first file of PickCompaction, or none
Picked(v) ==
  IF TooLarge(v)
  THEN LET l == CompactionLevel(v) IN
       {<<l, f>> : f \in {g \in FilesAfter(v[l], pointer[l]) :
                            g = Head(InOrder(FilesAfter(v[l], pointer[l])))}}
  ELSE IF seek # None THEN {<<seek.level, seek.file>>} ELSE {}

\* the inputs of PickCompaction that go with the level and the file
WithOthers(v, level, file) ==
  SetupOtherInputs(v, level, IF level > 0 THEN {file} ELSE GetOverlappingInputs(v, 0, Lo(file), Hi(file)))

\* PickCompaction: one compaction or none
PickCompaction(v) == {WithOthers(v, p[1], p[2]) : p \in Picked(v)}

IsTrivialMove(c) ==
  Cardinality(c.inputs) = 1 /\ c.next = {} /\ TotalFileSize(c.grandparents) <= MaxOverlap

MoveEdit(c) ==
  EditOf({<<c.level, f.number>> : f \in c.inputs}, {<<c.level + 1, f>> : f \in c.inputs})

----------------------------------------------------------------------------
(* DoCompactionWork                                                        *)

IsBaseLevelForKey(c, k) == \A l \in c.level + 2..NumLevels - 1 : \A f \in c.base[l] : ~Covers(f, k)

InputEntries(c) == UNION {f.entries : f \in c.inputs \union c.next}

Dropped(c) == {x \in InputEntries(c) :
  \/ \E y \in InputEntries(c) : KeyOf(y) = KeyOf(x) /\ y > x /\ y <= c.snapshot
  \/ hist[x].del /\ x <= c.snapshot /\ IsBaseLevelForKey(c, KeyOf(x))}

\* ShouldStopBefore: the grandparents that end before x
Passed(c, x) == {g \in c.grandparents : Before(Largest(g), x)}

\* one turn of the loop: what is written, the open file, the grandparents behind
\* it and how much of them the open file overlaps
Emit(c, acc, x) ==
  LET overlap == acc.overlap + IF acc.seen THEN TotalFileSize(Passed(c, x) \ acc.passed) ELSE 0
      stop == overlap > MaxOverlap
      before == IF stop /\ acc.open # {} THEN [done |-> Append(acc.done, acc.open), open |-> {}]
                ELSE [done |-> acc.done, open |-> acc.open]
      with == IF x \in Dropped(c) THEN before.open ELSE before.open \union {x}
      full == x \notin Dropped(c) /\ Cardinality(with) >= MaxFileSize
  IN [done |-> IF full THEN Append(before.done, with) ELSE before.done,
      open |-> IF full THEN {} ELSE with,
      passed |-> Passed(c, x), seen |-> TRUE, overlap |-> IF stop THEN 0 ELSE overlap]

\* the entries of the output files
Outputs(c) ==
  LET end == FoldLeft(LAMBDA acc, x : Emit(c, acc, x),
               [done |-> <<>>, open |-> {}, passed |-> {}, seen |-> FALSE, overlap |-> 0],
               SetToSortSeq(InputEntries(c), Before))
  IN IF end.open = {} THEN end.done ELSE Append(end.done, end.open)

----------------------------------------------------------------------------
(* Actions                                                                 *)

\* a level above 0 has two files that overlap
HasOverlap(v) == \E l \in Levels \ {0} : \E f, g \in v[l] :
  f # g /\ ~Before(Largest(f), Smallest(g)) /\ ~Before(Largest(g), Smallest(f))

\* the deletions a merge dropped though a file it left behind in the level of its
\* output goes on with the last user key of one of its inputs there
Uncovered(c) ==
  {k \in 1..MaxKey :
     /\ \E x \in Dropped(c) : KeyOf(x) = k /\ hist[x].del
     /\ \E g \in c.next : \E f \in c.base[c.level + 1] \ c.next :
          Before(Largest(g), Smallest(f)) /\ Hi(g) = k /\ Lo(f) = k}

\* history: what the new version does to Get
Harm(keys) == harmed' = IF HasOverlap(version') THEN 1..MaxKey ELSE harmed \union keys

Spend == spent < MaxEvents /\ spent' = spent + 1

Write(w) ==
  /\ hist' = Append(hist, w)
  /\ mem' = mem \union {Len(hist) + 1}
  /\ UNCHANGED <<version, pointer, seek, merge, manual, snaps, nextFile, logged, spent, harmed>>

GetSnapshot ==
  /\ Len(hist) > 0
  /\ snaps' = snaps \union {Len(hist)}
  /\ Spend
  /\ UNCHANGED <<hist, mem, version, pointer, seek, merge, manual, nextFile, logged, harmed>>

ReleaseSnapshot(s) ==
  /\ snaps' = snaps \ {s}
  /\ UNCHANGED <<hist, mem, version, pointer, seek, merge, manual, nextFile, logged, spent, harmed>>

\* a read of <<k, s>> that takes more than one file uses up the seeks of the first
UpdateStats(k, s) ==
  /\ seek = None
  /\ LET reads == AllToRead(version, k, s) IN
       /\ Len(reads) >= 2
       /\ seek' = [file |-> Head(reads),
                   level |-> CHOOSE l \in Levels : Head(reads) \in version[l]]
  /\ Spend
  /\ UNCHANGED <<hist, mem, version, pointer, merge, manual, snaps, nextFile, logged, harmed>>

\* mutant: a memtable that overlaps level 0 is put below it
PickLevelUnderLevel0(v, lo, hi) ==
  Min({l \in 0..MaxMemCompactLevel - 1 : OverlapInLevel(v, l + 1, lo, hi)} \union {MaxMemCompactLevel})

PickLevelForMemTableOutput(v, lo, hi) ==
  LET stops(l) == \/ OverlapInLevel(v, l + 1, lo, hi)
                  \/ /\ l + 2 < NumLevels
                     /\ TotalFileSize(GetOverlappingInputs(v, l + 2, lo, hi)) > MaxOverlap
  IN IF OverlapInLevel(v, 0, lo, hi) THEN 0
     ELSE Min({l \in 0..MaxMemCompactLevel - 1 : stops(l)} \union {MaxMemCompactLevel})

\* the memtable is full, or CompactRange wants it out of the way: CompactMemTable,
\* also in the middle of a compaction
CompactMemTable ==
  /\ mem # {}
  /\ LET f == [number |-> nextFile, entries |-> mem]
         level == PickLevelForMemTableOutput(version, Lo(f), Hi(f))
     IN LogAndApply(EditOf({}, {<<level, f>>}), logged.pointer)
  /\ Harm({})
  /\ nextFile' = nextFile + 1
  /\ mem' = {}
  /\ manual' = IF manual = None THEN None ELSE [manual EXCEPT !.forced = FALSE]
  /\ UNCHANGED <<hist, pointer, merge, snaps, spent>>

Begin(c) ==
  /\ pointer' = [pointer EXCEPT ![c.level] = LastOf(c.inputs)]
  /\ merge' = c
  /\ UNCHANGED <<version, logged, seek, harmed>>

\* manual_compaction_ is set
Posted == manual # None /\ manual.posted

\* BackgroundCompaction while manual_compaction_ is null: also while CompactRange
\* waits for the memtable, and between its rounds
StartCompaction ==
  /\ merge = None /\ ~Posted
  /\ \E c \in PickCompaction(version) :
       IF IsTrivialMove(c)
       THEN /\ pointer' = [pointer EXCEPT ![c.level] = LastOf(c.inputs)]
            /\ LogAndApply(MoveEdit(c), [logged.pointer EXCEPT ![c.level] = LastOf(c.inputs)])
            /\ Harm({})
            /\ UNCHANGED merge
       ELSE Begin(c)
  /\ UNCHANGED <<hist, mem, manual, snaps, nextFile, spent>>

\* InstallCompactionResults, on the version of then
FinishCompaction ==
  /\ merge # None
  /\ LET out == Outputs(merge)
         dels(l, fs) == {<<l, f.number>> : f \in fs}
     IN /\ LogAndApply(EditOf(dels(merge.level, merge.inputs) \union dels(merge.level + 1, merge.next),
              {<<merge.level + 1, [number |-> nextFile + i - 1, entries |-> out[i]]>> : i \in DOMAIN out}),
              [logged.pointer EXCEPT ![merge.level] = LastOf(merge.inputs)])
        /\ nextFile' = nextFile + Len(out)
  /\ Harm(Uncovered(merge))
  /\ merge' = None
  /\ manual' = IF manual = None \/ ~manual.running THEN manual
               ELSE [manual EXCEPT !.running = FALSE, !.posted = FALSE,
                                   !.begin = Hi(Last(InOrder(merge.inputs)))]
  /\ UNCHANGED <<hist, mem, pointer, snaps, spent>>

\* DB::CompactRange: down to the last level with files in the range
CompactRange(lo, hi) ==
  /\ manual = None
  /\ manual' = [level |-> 0, from |-> lo, begin |-> lo, end |-> hi, forced |-> mem # {},
                posted |-> FALSE, running |-> FALSE,
                last |-> Max({1} \union {l \in 1..NumLevels - 1 : OverlapInLevel(version, l, lo, hi)})]
  /\ Spend
  /\ UNCHANGED <<hist, mem, version, pointer, seek, merge, snaps, nextFile, logged, harmed>>

\* TEST_CompactRange finds manual_compaction_ null, the memtable being out of the
\* way, and sets it; an automatic compaction may be running
PostManual ==
  /\ manual # None /\ ~manual.forced /\ ~manual.posted
  /\ manual' = [manual EXCEPT !.posted = TRUE]
  /\ UNCHANGED <<hist, mem, version, pointer, seek, merge, snaps, nextFile, logged, spent, harmed>>

\* not more than one file's worth at once, but all of level 0
ManualInputs ==
  LET found == GetOverlappingInputs(version, manual.level, manual.begin, manual.end)
      fs == InOrder(found)
      enough == {n \in DOMAIN fs : TotalFileSize(ToSet(SubSeq(fs, 1, n))) >= MaxFileSize}
  IN IF manual.level = 0 \/ enough = {} THEN found ELSE ToSet(SubSeq(fs, 1, Min(enough)))

\* BackgroundCompaction with a manual one: a round of TEST_CompactRange
StartManualCompaction ==
  /\ merge = None /\ Posted
  /\ IF ManualInputs # {}
     THEN /\ Begin(SetupOtherInputs(version, manual.level, ManualInputs))
          /\ manual' = [manual EXCEPT !.running = TRUE]
     ELSE /\ manual' = IF manual.level + 1 = manual.last THEN None
                       ELSE [manual EXCEPT !.level = @ + 1, !.begin = manual.from, !.posted = FALSE]
          /\ UNCHANGED <<version, pointer, logged, seek, merge, harmed>>
  /\ UNCHANGED <<hist, mem, snaps, nextFile, spent>>

\* the process ends and the database is opened again: the version is what the
\* MANIFEST adds up to, and the log's entries go to level 0
Reopen ==
  /\ LET replayed == IF mem = {} THEN {} ELSE {<<0, [number |-> nextFile, entries |-> mem]>>}
         v == Applied(Saved(logged), EditOf({}, replayed))
     IN /\ version' = v
        /\ logged' = NewManifest(v, logged.pointer)
  /\ pointer' = logged.pointer
  /\ nextFile' = nextFile + 1
  /\ mem' = {} /\ snaps' = {} /\ seek' = None /\ merge' = None /\ manual' = None
  /\ Spend
  /\ UNCHANGED <<hist, harmed>>

Init ==
  /\ hist = <<>> /\ mem = {} /\ snaps = {} /\ harmed = {}
  /\ version = [l \in Levels |-> {}]
  /\ pointer = [l \in Levels |-> 0]
  /\ seek = None /\ merge = None /\ manual = None
  /\ nextFile = 1
  /\ logged = NewManifest([l \in Levels |-> {}], [l \in Levels |-> 0])
  /\ spent = 0

Background == StartCompaction \/ FinishCompaction \/ StartManualCompaction

Written == {s[Len(hist) + 1] : s \in {t \in Scripts : IsStrictPrefix(hist, t)}}

Next ==
  \/ \E w \in Written : Write(w)
  \/ GetSnapshot \/ \E s \in snaps : ReleaseSnapshot(s)
  \/ \E k \in 1..MaxKey, s \in 1..Len(hist) : UpdateStats(k, s)
  \/ \E r \in ManualRanges : CompactRange(r[1], r[2]) \/ PostManual
  \/ CompactMemTable \/ Background \/ Reopen

Spec == Init /\ [][Next]_vars

----------------------------------------------------------------------------
(* Properties                                                              *)

AllFiles(v) == UNION {v[l] : l \in Levels}

TypeOK ==
  /\ hist \in Seq([key : 1..MaxKey, del : BOOLEAN])
  /\ mem \subseteq DOMAIN hist
  /\ \A l \in Levels : \A f \in version[l] : f.number < nextFile /\ f.entries # {} /\ f.entries \subseteq DOMAIN hist
  /\ \A l \in Levels : pointer[l] \in 0..Len(hist)
  /\ snaps \subseteq DOMAIN hist
  /\ seek # None => seek.file \in version[seek.level] /\ seek.level + 1 < NumLevels
  /\ harmed \subseteq 1..MaxKey

\* The files of a level above 0 are disjoint and in order, as the assertion of
\* Builder::MaybeAddFile wants and as the binary search of FindFile needs.
LevelsDisjoint == ~HasOverlap(version)

\* Get finds for every key what the last write of the key left, at the present
\* and at every live snapshot, wherever flushes and compactions have put it: unless
\* a level has had overlapping files, or the key's deletion was dropped while a
\* boundary file with older entries stayed behind.
GetIsCorrect ==
  \A k \in (1..MaxKey) \ harmed, s \in snaps \union {Len(hist)} :
    LET found == Get(k, s)
        last == Max(Hits(DOMAIN hist, k, s) \union {0})
        deleted(x) == x = 0 \/ hist[x].del
    IN IF deleted(last) THEN deleted(found) ELSE found = last

\* Entries never hop across levels: of one user key, a smaller level holds the
\* newer entries, and so does the newer of two level-0 files, unless a level has
\* had overlapping files.  Version::Get stops at the first hit because of this.
NewerFirst ==
  /\ \A l, m \in Levels : l < m => \A f \in version[l], g \in version[m] :
       \A x \in f.entries, y \in g.entries :
         KeyOf(x) = KeyOf(y) /\ KeyOf(x) \notin harmed => x > y
  /\ \A f, g \in version[0] : f.number > g.number =>
       \A x \in f.entries, y \in g.entries :
         KeyOf(x) = KeyOf(y) /\ KeyOf(x) \notin harmed => x > y

\* The records of the MANIFEST add up to the current version, also after files
\* moved and were replaced: opening the database again finds the same files.
ManifestIsCurrent == Saved(logged) = version

\* What a restart rests on: the version is well formed, and the one the MANIFEST
\* describes.
VersionIsSound == TypeOK /\ ManifestIsCurrent

==============================================================================
