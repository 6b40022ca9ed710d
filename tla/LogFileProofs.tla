---------------------------- MODULE LogFileProofs ----------------------------
(***************************************************************************)
(* Theorems about LogFile, for every size of block, header and record, any *)
(* number of records and failed writes and a death at any byte: the reader *)
(* returns only whole records that were added, in their order, and, while  *)
(* no write has failed, all of those that had to survive, with nothing     *)
(* reported as a corruption.                                               *)
(***************************************************************************)
EXTENDS LogFile, Integers, SequenceTheorems, TLAPS

Types == {"full", "first", "middle", "last"}
Piece == [rec : Nat, type : Types, length : Nat]

Size(e, f) == HeaderSize + e[f].length
Begins(e, f) == e[f].type \in {"full", "first"}
Ends(e, f) == e[f].type \in {"full", "last"}

(* The byte at p is the Nth(b, p)-th of fragment Of(b, p), or of a trailer *)
(* if that is 0.                                                           *)
Of(b, p) == b[p][1]
Nth(b, p) == b[p][2]

(* Position p of b holds the last byte of fragment f: f is whole there.    *)
EndsAt(b, e, f, p) == p \in 1..Len(b) /\ Of(b, p) = f /\ Nth(b, p) = Size(e, f)

(* The fragments of a record follow each other, from one that begins it to *)
(* one that ends it; a record may stop before its end, not before another. *)
Numbered(e) ==
  /\ \A f, g \in 1..Len(e) :
       f < g => /\ e[f].rec <= e[g].rec
                /\ Begins(e, g) \/ Ends(e, f) => e[f].rec < e[g].rec
  /\ \A g \in 1..Len(e) : ~Begins(e, g) =>
       /\ g > 1 /\ e[g - 1].rec = e[g].rec /\ ~Ends(e, g - 1)

(* Where the bytes of the fragments are: a byte comes with those before it *)
(* in its fragment, the fragments come in their order, and one that goes   *)
(* on with a record comes after the whole of the fragment before it.       *)
Layout(b, e) ==
  /\ \A p \in 1..Len(b) :
       IF Of(b, p) = 0 THEN Nth(b, p) = 0
       ELSE Of(b, p) \in 1..Len(e) /\ Nth(b, p) \in 1..Size(e, Of(b, p)) /\ Nth(b, p) <= p
  /\ \A p \in 1..Len(b) : Of(b, p) # 0 =>
       \A k \in 1..Nth(b, p) : /\ Of(b, p - Nth(b, p) + k) = Of(b, p)
                               /\ Nth(b, p - Nth(b, p) + k) = k
  /\ \A p, q \in 1..Len(b) : p < q /\ Of(b, p) # 0 /\ Of(b, q) # 0 =>
       \/ Of(b, p) < Of(b, q)
       \/ Of(b, p) = Of(b, q) /\ Nth(b, q) - Nth(b, p) = q - p
  /\ \A q \in 1..Len(b) : Of(b, q) # 0 /\ ~Begins(e, Of(b, q)) =>
       \E p \in 1..Len(b) : p < q /\ EndsAt(b, e, Of(b, q) - 1, p)

(* What holds besides while no write() has failed: no fragment leaves its  *)
(* block, a trailer is too short for a header, and nothing is missing.     *)
Boundaries == {k * BlockSize : k \in Nat}

Aligned(b, e) ==
  /\ \A p \in 1..Len(b) : Of(b, p) # 0 =>
       /\ \E c \in Boundaries : /\ c <= p - Nth(b, p)
                                /\ p - Nth(b, p) + Size(e, Of(b, p)) <= c + BlockSize
       /\ \A q \in p..Len(b) : Nth(b, p) + (q - p) <= Size(e, Of(b, p)) =>
            Of(b, q) = Of(b, p) /\ Nth(b, q) = Nth(b, p) + (q - p)
  /\ \A p \in 1..Len(b) : Of(b, p) = 0 =>
       \E c \in Boundaries : p <= c /\ c < p + HeaderSize - 1
  /\ \A q \in 1..Len(b) : Of(b, q) > 1 =>
       \E p \in 1..Len(b) : p < q /\ EndsAt(b, e, Of(b, q) - 1, p)
  /\ \A g \in 1..Len(e) : g > 1 /\ Begins(e, g) => Ends(e, g - 1)

-----------------------------------------------------------------------------
(* The inductive invariant, in parts.                                      *)

Status == {"adding", "added", "failed", "synced"}

Typed ==
  /\ file \in Seq(Nat \X Nat) /\ durable \in 0..Len(file)
  /\ emitted \in Seq(Piece) /\ offset \in 0..BlockSize
  /\ \/ adding = <<>>
     \/ /\ adding = <<[left |-> adding[1].left, begin |-> adding[1].begin]>>
        /\ adding[1].left \in Nat /\ adding[1].begin \in BOOLEAN
        /\ records # <<>>
  /\ records \in Seq(Status) /\ failures \in Nat
  /\ phase \in {"writing", "reading", "read"}
  /\ buffer \in [from : Nat, to : Nat] /\ buffer.from <= buffer.to /\ buffer.to <= Len(file)
  /\ eof \in BOOLEAN /\ reported \in BOOLEAN
  /\ scratch \in Seq(Nat) /\ out \in Seq(Seq(Nat))

(* The record being added, and where its last fragment is.                 *)
InProgress ==
  /\ \A f \in 1..Len(emitted) : emitted[f].rec \in 1..Len(records)
  /\ phase = "writing" /\ adding # <<>> =>
       /\ records[Len(records)] = "adding"
       /\ adding[1].begin => \A f \in 1..Len(emitted) : emitted[f].rec < Len(records)
       /\ ~adding[1].begin =>
            /\ emitted # <<>> /\ emitted[Len(emitted)].rec = Len(records)
            /\ ~Ends(emitted, Len(emitted))
            /\ EndsAt(file, emitted, Len(emitted), Len(file))

(* A record is whole in the file when AddRecord has said so, until the     *)
(* machine dies, and even then if a Sync has followed; one AddRecord said  *)
(* was not written is not.                                                 *)
Kept(r, n) ==
  \E f \in 1..Len(emitted), p \in 1..n :
    emitted[f].rec = r /\ Ends(emitted, f) /\ EndsAt(file, emitted, f, p)

Outcomes ==
  /\ phase = "writing" => died = "nothing"
  /\ \A f \in 1..Len(emitted) :
       Ends(emitted, f) /\ records[emitted[f].rec] = "failed" =>
         \A p \in 1..Len(file) : ~EndsAt(file, emitted, f, p)
  /\ \A r \in 1..Len(records) :
       /\ records[r] = "synced" => Kept(r, durable)
       /\ records[r] = "added" /\ died # "machine" => Kept(r, Len(file))

(* While nothing has failed the writer knows where it is in its block.     *)
WriterInPlace ==
  failures = 0 =>
    /\ Aligned(file, emitted)
    /\ phase = "writing" =>
         /\ Len(file) - offset \in Boundaries
         /\ emitted = <<>> => file = <<>>
         /\ emitted # <<>> => EndsAt(file, emitted, Len(emitted), Len(file))
         /\ emitted # <<>> /\ (adding = <<>> \/ adding[1].begin) => Ends(emitted, Len(emitted))

Writing == Typed /\ Numbered(emitted) /\ Layout(file, emitted) /\ InProgress /\ Outcomes

(* A run of fragments of one record from its first on.                     *)
Run(e, s) ==
  /\ s # <<>> /\ Begins(e, s[1])
  /\ \A k \in 1..Len(s) :
       /\ s[k] \in 1..Len(e) /\ s[k] = s[1] + k - 1 /\ e[s[k]].rec = e[s[1]].rec
       /\ k > 1 => ~Begins(e, s[k])

Before(b, e, f, n) == \E p \in 1..n : EndsAt(b, e, f, p)

(* What the reader has returned and what it is putting together.           *)
Returns ==
  /\ \A i \in 1..Len(out) :
       /\ Run(emitted, out[i]) /\ Ends(emitted, Last(out[i]))
       /\ Before(file, emitted, Last(out[i]), buffer.from)
  /\ \A i, j \in 1..Len(out) : i < j => Last(out[i]) < out[j][1]

PuttingTogether ==
  scratch # <<>> =>
    /\ Run(emitted, scratch) /\ ~Ends(emitted, Last(scratch))
    /\ \A i \in 1..Len(out) : Last(out[i]) < scratch[1]
    /\ \E p \in 1..buffer.from :
         /\ EndsAt(file, emitted, Last(scratch), p)
         /\ buffer.from < p + HeaderSize
         /\ buffer.from # p => eof \/ buffer.to - buffer.from >= HeaderSize

NotBegun ==
  phase = "writing" =>
    /\ buffer = [from |-> 0, to |-> 0] /\ ~eof
    /\ scratch = <<>> /\ out = <<>> /\ ~reported

Reading == NotBegun /\ Returns /\ PuttingTogether

(* While nothing has failed the reader stands where a fragment starts or   *)
(* where a trailer does, and has missed nothing.                           *)
InPlace(b, e, n) == n \in Boundaries \/ \E f \in 1..Len(e) : EndsAt(b, e, f, n)

ReaderInPlace ==
  failures = 0 =>
    /\ ~reported
    /\ phase = "read" => buffer.from = Len(file)
    /\ phase = "reading" =>
         /\ InPlace(file, emitted, buffer.from)
         /\ IF eof THEN buffer.to = Len(file) ELSE buffer.to \in Boundaries
         /\ buffer.to > 0 => \E c \in Boundaries : c <= buffer.from /\ buffer.to <= c + BlockSize
         /\ \A f \in 1..Len(emitted) :
              Before(file, emitted, f, buffer.from) /\ ~Ends(emitted, f) =>
                \/ scratch # <<>> /\ Last(scratch) = f
                \/ f + 1 \in 1..Len(emitted) /\ Before(file, emitted, f + 1, buffer.from)
    /\ \A f \in 1..Len(emitted) :
         Before(file, emitted, f, buffer.from) /\ Ends(emitted, f) =>
           \E i \in 1..Len(out) : Last(out[i]) = f

LogInv == Writing /\ WriterInPlace /\ Reading /\ ReaderInPlace

-----------------------------------------------------------------------------
(***************************************************************************)
(* Pieces, and the file as it grows and is cut off.                        *)
(***************************************************************************)

(* The constants are numbers, and a block has room for a header.           *)
LEMMA Constants ==
  /\ BlockSize \in Nat /\ HeaderSize \in Nat /\ HeaderSize > 0 /\ HeaderSize < BlockSize
  /\ Sizes \subseteq Nat
BY SizesAssumption

(* Every fragment has a header, so that its size is never zero.            *)
LEMMA PieceSize ==
  ASSUME NEW e \in Seq(Piece), NEW f \in 1..Len(e)
  PROVE  /\ e[f] \in Piece /\ e[f].length \in Nat /\ e[f].rec \in Nat
         /\ Size(e, f) \in Nat /\ Size(e, f) >= HeaderSize /\ Size(e, f) > 0
<1>1. e[f] \in Piece
  OBVIOUS
<1>2. e[f].length \in Nat /\ e[f].rec \in Nat
  BY <1>1 DEF Piece
<1> QED
  BY <1>1, <1>2, Constants DEF Size

(* b goes on with a trailer up to d and then with bytes of m.              *)
Extended(b, b2, m, d) ==
  /\ d \in Nat /\ Len(b) <= d /\ Len(b) <= Len(b2)
  /\ \A p \in 1..Len(b) : Of(b2, p) = Of(b, p) /\ Nth(b2, p) = Nth(b, p)
  /\ \A p \in 1..Len(b2) : p > Len(b) =>
       IF p <= d THEN Of(b2, p) = 0 /\ Nth(b2, p) = 0 ELSE Of(b2, p) = m /\ Nth(b2, p) = p - d

(* Appending a fragment leaves the others as they are.                     *)
LEMMA Appended ==
  ASSUME NEW e \in Seq(Piece), NEW r \in Piece
  PROVE  LET e2 == Append(e, r) IN
         /\ e2 \in Seq(Piece) /\ Len(e2) = Len(e) + 1 /\ Len(e) \in Nat
         /\ Len(e2) = Len(e) + 1
         /\ e2[Len(e) + 1] = r
         /\ \A f \in 1..Len(e) : /\ f \in 1..Len(e2) /\ f # Len(e) + 1
                                 /\ e2[f] = e[f] /\ Size(e2, f) = Size(e, f)
                                 /\ Begins(e2, f) <=> Begins(e, f)
                                 /\ Ends(e2, f) <=> Ends(e, f)
         /\ Size(e2, Len(e) + 1) = HeaderSize + r.length
<1> DEFINE e2 == Append(e, r)
<1>1. /\ e2 \in Seq(Piece) /\ Len(e2) = Len(e) + 1 /\ Len(e) \in Nat
      /\ Len(e2) = Len(e) + 1
      /\ e2[Len(e) + 1] = r
      /\ \A f \in 1..Len(e) : f \in 1..Len(e2) /\ f # Len(e) + 1 /\ e2[f] = e[f]
  OBVIOUS
<1> HIDE DEF e2
<1>2. \A f \in 1..Len(e) : /\ Size(e2, f) = Size(e, f)
                           /\ Begins(e2, f) <=> Begins(e, f)
                           /\ Ends(e2, f) <=> Ends(e, f)
  BY <1>1 DEF Size, Begins, Ends
<1>3. Size(e2, Len(e) + 1) = HeaderSize + r.length
  BY <1>1 DEF Size
<1> QED
  BY <1>1, <1>2, <1>3 DEF e2

(* The numbering of the fragments goes on.                                 *)
LEMMA NumberedOn ==
  ASSUME NEW e \in Seq(Piece), NEW r \in Piece, Numbered(e),
         \A f \in 1..Len(e) : e[f].rec <= r.rec,
         r.type \in {"full", "first"} => \A f \in 1..Len(e) : e[f].rec < r.rec,
         r.type \notin {"full", "first"} =>
           e # <<>> /\ e[Len(e)].rec = r.rec /\ ~Ends(e, Len(e)),
         \A f \in 1..Len(e) : e[f].rec = r.rec => ~Ends(e, f)
  PROVE  Numbered(Append(e, r))
<1> DEFINE e2 == Append(e, r)
           m == Len(e) + 1
<1>1. /\ e2 \in Seq(Piece) /\ Len(e2) = m /\ Len(e) \in Nat
      /\ e2[m] = r
      /\ \A f \in 1..Len(e) : /\ f \in 1..Len(e2) /\ f # m
                              /\ e2[f] = e[f] 
                              /\ Begins(e2, f) <=> Begins(e, f)
                              /\ Ends(e2, f) <=> Ends(e, f)
  BY Appended
<1>2. \A f \in 1..Len(e) : e[f].rec \in Nat
  BY PieceSize
<1>3. r.rec \in Nat
  BY DEF Piece
<1>4. Begins(e2, m) <=> r.type \in {"full", "first"}
  BY <1>1 DEF Begins
<1> HIDE DEF e2
<1>5. ASSUME NEW f \in 1..Len(e2), NEW g \in 1..Len(e2), f < g
      PROVE  /\ e2[f].rec <= e2[g].rec
             /\ Begins(e2, g) \/ Ends(e2, f) => e2[f].rec < e2[g].rec
  <2>1. CASE g = m
    <3>1. f \in 1..Len(e)
      BY <1>1, <1>5, <2>1
    <3>2. Ends(e, f) => e[f].rec < r.rec
      BY <1>2, <1>3, <3>1
    <3> QED
      BY <1>1, <1>2, <1>3, <1>4, <2>1, <3>1, <3>2
  <2>2. CASE g # m
    <3>1. f \in 1..Len(e) /\ g \in 1..Len(e)
      BY <1>1, <1>5, <2>2
    <3> QED
      BY <1>1, <1>5, <3>1 DEF Numbered
  <2> QED
    BY <2>1, <2>2
<1>6. ASSUME NEW g \in 1..Len(e2), ~Begins(e2, g)
      PROVE  g > 1 /\ e2[g - 1].rec = e2[g].rec /\ ~Ends(e2, g - 1)
  <2>1. CASE g = m
    <3>1. e # <<>> /\ e[Len(e)].rec = r.rec /\ ~Ends(e, Len(e))
      BY <1>4, <1>6, <2>1
    <3>2. Len(e) \in 1..Len(e) /\ m - 1 = Len(e) /\ m > 1
      BY <1>1, <3>1
    <3> QED
      BY <1>1, <2>1, <3>1, <3>2
  <2>2. CASE g # m
    <3>1. g \in 1..Len(e)
      BY <1>1, <1>6, <2>2
    <3>2. g > 1 /\ e[g - 1].rec = e[g].rec /\ ~Ends(e, g - 1)
      BY <1>1, <1>6, <3>1 DEF Numbered
    <3>3. g - 1 \in 1..Len(e)
      BY <1>1, <3>1, <3>2
    <3> QED
      BY <1>1, <3>1, <3>2, <3>3
  <2> QED
    BY <2>1, <2>2
<1> QED
  BY <1>5, <1>6 DEF Numbered, e2

(* A write that goes through, or that is cut off, keeps the layout.        *)
LEMMA LayoutGrows ==
  ASSUME NEW b \in Seq(Nat \X Nat), NEW b2 \in Seq(Nat \X Nat),
         NEW e \in Seq(Piece), NEW r \in Piece, NEW d, Numbered(e), Layout(b, e),
         Extended(b, b2, Len(e) + 1, d), Len(b2) <= d + HeaderSize + r.length,
         r.type \notin {"full", "first"} => e # <<>> /\ EndsAt(b, e, Len(e), Len(b))
  PROVE  Layout(b2, Append(e, r))
<1> DEFINE e2 == Append(e, r)
           m == Len(e) + 1
<1>1. /\ e2 \in Seq(Piece) /\ Len(e2) = m /\ Len(e) \in Nat
      /\ e2[m] = r
      /\ \A f \in 1..Len(e) : /\ f \in 1..Len(e2) /\ f # m
                              /\ e2[f] = e[f] /\ Size(e2, f) = Size(e, f)
                              /\ Begins(e2, f) <=> Begins(e, f)
                              /\ Ends(e2, f) <=> Ends(e, f)
      /\ Size(e2, m) = HeaderSize + r.length
  BY Appended
<1>2. Begins(e2, m) <=> r.type \in {"full", "first"}
  BY <1>1 DEF Begins
<1>0. m = Len(e) + 1 /\ m \in Nat
  BY <1>1
<1> HIDE DEF e2, m
<1>3. /\ Len(b) \in Nat /\ Len(b2) \in Nat /\ d \in Nat /\ Len(b) <= d /\ Len(b) <= Len(b2)
      /\ r.length \in Nat /\ HeaderSize \in Nat
  BY Constants DEF Extended, Piece
<1>4. \A p \in 1..Len(b) : Of(b2, p) = Of(b, p) /\ Nth(b2, p) = Nth(b, p)
  BY DEF Extended
<1>5. \A p \in 1..Len(b2) : p > Len(b) =>
        IF p <= d THEN Of(b2, p) = 0 /\ Nth(b2, p) = 0 ELSE Of(b2, p) = m /\ Nth(b2, p) = p - d
  BY <1>0 DEF Extended
<1>8. \A f \in 1..Len(e) : Size(e, f) \in Nat
  BY PieceSize
(* A byte that is no trailer is of an earlier fragment, in b, or of m.     *)
<1>9. \A p \in 1..Len(b2) : Of(b2, p) # 0 =>
        \/ p \in 1..Len(b) /\ Of(b, p) \in 1..Len(e)
        \/ p > Len(b) /\ p > d /\ Of(b2, p) = m /\ Nth(b2, p) = p - d
  <2> TAKE p \in 1..Len(b2)
  <2>1. CASE p \in 1..Len(b)
    BY <1>4, <2>1 DEF Layout
  <2>2. CASE p \notin 1..Len(b)
    <3>1. p > Len(b) /\ (p <= d \/ p > d)
      BY <1>3, <2>2
    <3> QED
      BY <1>3, <1>5, <3>1
  <2> QED
    BY <2>1, <2>2
<1>16. PICK w \in Nat : w = HeaderSize + r.length
  BY <1>3
<1>17. Len(b2) <= d + w
  BY <1>3, <1>16
<1>10. ASSUME NEW p \in 1..Len(b2)
       PROVE  IF Of(b2, p) = 0 THEN Nth(b2, p) = 0
              ELSE Of(b2, p) \in 1..Len(e2) /\ Nth(b2, p) \in 1..Size(e2, Of(b2, p)) /\ Nth(b2, p) <= p
  <2>1. CASE p \in 1..Len(b)
    BY <1>1, <1>4, <2>1 DEF Layout
  <2>2. CASE p \notin 1..Len(b)
    <3>1. p > Len(b)
      BY <1>3, <2>2
    <3>2. CASE p <= d
      BY <1>5, <3>1, <3>2
    <3>3. CASE p > d
      <4>1. Of(b2, p) = m /\ Nth(b2, p) = p - d
        BY <1>3, <1>5, <3>1, <3>3
      <4>2. p - d \in 1..w /\ p - d <= p
        BY <1>3, <1>17, <3>3
      <4> QED
        BY <1>0, <1>1, <1>16, <4>1, <4>2
    <3> QED
      BY <1>3, <3>2, <3>3
  <2> QED
    BY <2>1, <2>2
<1>11. ASSUME NEW p \in 1..Len(b2), Of(b2, p) # 0, NEW k \in 1..Nth(b2, p)
       PROVE  Of(b2, p - Nth(b2, p) + k) = Of(b2, p) /\ Nth(b2, p - Nth(b2, p) + k) = k
  <2>1. CASE p \in 1..Len(b) /\ Of(b, p) \in 1..Len(e)
    <3>1. /\ Nth(b, p) <= p /\ Nth(b, p) \in Nat /\ k \in 1..Nth(b, p)
          /\ Of(b, p - Nth(b, p) + k) = Of(b, p) /\ Nth(b, p - Nth(b, p) + k) = k
      BY <1>4, <1>8, <1>11, <2>1 DEF Layout
    <3>2. p - Nth(b, p) + k \in 1..Len(b)
      <4>1. PICK n \in Nat : n = Nth(b, p)
        BY <3>1
      <4>2. n <= p /\ k <= n /\ k \in Nat /\ k >= 1 /\ p \in Nat /\ p <= Len(b)
        BY <1>3, <2>1, <3>1, <4>1
      <4>3. \A l, x, y, z \in Nat : x <= l /\ y <= x /\ z >= 1 /\ z <= y => x - y + z \in 1..l
        OBVIOUS
      <4>4. p - n + k \in 1..Len(b)
        BY <1>3, <4>2, <4>3
      <4> QED
        BY <4>1, <4>4
    <3> QED
      BY <1>4, <2>1, <3>1, <3>2
  <2>2. CASE p > Len(b) /\ p > d /\ Of(b2, p) = m /\ Nth(b2, p) = p - d
    <3>1. k \in 1..p - d
      BY <2>2
    <3>2. p - (p - d) + k = d + k /\ d + k \in 1..Len(b2) /\ d + k > d /\ d + k > Len(b) /\ d + k - d = k
      BY <1>3, <2>2, <3>1
    <3>3. Of(b2, d + k) = m /\ Nth(b2, d + k) = k
      BY <1>3, <1>5, <3>2
    <3> QED
      BY <2>2, <3>2, <3>3
  <2> QED
    BY <1>9, <1>11, <2>1, <2>2
<1>12. ASSUME NEW p \in 1..Len(b2), NEW q \in 1..Len(b2), p < q, Of(b2, p) # 0, Of(b2, q) # 0
       PROVE  \/ Of(b2, p) < Of(b2, q)
              \/ Of(b2, p) = Of(b2, q) /\ Nth(b2, q) - Nth(b2, p) = q - p
  <2>1. CASE q \in 1..Len(b)
    <3>1. p \in 1..Len(b)
      BY <1>3, <1>12, <2>1
    <3> QED
      BY <1>4, <1>12, <2>1, <3>1 DEF Layout
  <2>2. CASE q > d /\ Of(b2, q) = m /\ Nth(b2, q) = q - d
    <3>1. CASE p \in 1..Len(b) /\ Of(b, p) \in 1..Len(e)
      BY <1>0, <1>1, <1>4, <2>2, <3>1
    <3>2. CASE p > d /\ Of(b2, p) = m /\ Nth(b2, p) = p - d
      BY <1>3, <2>2, <3>2
    <3> QED
      BY <1>9, <1>12, <3>1, <3>2
  <2> QED
    BY <1>9, <1>12, <2>1, <2>2
<1>13. ASSUME NEW q \in 1..Len(b2), Of(b2, q) # 0, ~Begins(e2, Of(b2, q))
       PROVE  \E p \in 1..Len(b2) : p < q /\ EndsAt(b2, e2, Of(b2, q) - 1, p)
  <2>1. CASE q \in 1..Len(b) /\ Of(b, q) \in 1..Len(e)
    <3>1. Of(b2, q) = Of(b, q) /\ ~Begins(e, Of(b, q)) /\ Of(b, q) # 0
      BY <1>1, <1>4, <1>13, <2>1
    <3>2. PICK p \in 1..Len(b) : p < q /\ EndsAt(b, e, Of(b, q) - 1, p)
      BY <2>1, <3>1 DEF Layout
    <3>3. Of(b, q) > 1
      BY <2>1, <3>1 DEF Numbered
    <3>4. Of(b, q) - 1 \in 1..Len(e)
      <4>1. PICK f \in 1..Len(e) : f = Of(b, q)
        BY <2>1
      <4>2. f > 1 /\ Len(e) \in Nat
        BY <1>1, <3>3, <4>1
      <4>3. f - 1 \in 1..Len(e)
        BY <4>2
      <4> QED
        BY <4>1, <4>3
    <3>5. EndsAt(b2, e2, Of(b, q) - 1, p)
      <4>1. PICK f \in 1..Len(e) : f = Of(b, q) - 1
        BY <3>4
      <4>2. EndsAt(b2, e2, f, p)
        BY <1>1, <1>3, <1>4, <3>2, <4>1 DEF EndsAt
      <4> QED
        BY <4>1, <4>2
    <3> QED
      BY <1>3, <3>1, <3>2, <3>5
  <2>2. CASE q > Len(b) /\ q > d /\ Of(b2, q) = m
    <3>1. Of(b2, q) - 1 = Len(e)
      BY <1>0, <1>1, <2>2
    <3>2. e # <<>> /\ EndsAt(b, e, Len(e), Len(b))
      BY <1>2, <1>13, <2>2
    <3>3. Len(e) \in 1..Len(e) /\ Len(b) \in 1..Len(b) /\ Len(b) \in 1..Len(b2)
      BY <1>1, <1>3, <3>2 DEF EndsAt
    <3>5. EndsAt(b2, e2, Len(e), Len(b))
      BY <1>1, <1>3, <1>4, <3>2, <3>3 DEF EndsAt
    <3> QED
      BY <2>2, <3>1, <3>3, <3>5
  <2> QED
    BY <1>9, <1>13, <2>1, <2>2
<1>14. Layout(b2, e2)
  BY <1>10, <1>11, <1>12, <1>13 DEF Layout
<1> QED
  BY <1>14 DEF e2

(* Losing the end of the file keeps the layout, and the alignment.         *)
Prefix(b2, b) ==
  /\ Len(b2) <= Len(b)
  /\ \A p \in 1..Len(b2) : Of(b2, p) = Of(b, p) /\ Nth(b2, p) = Nth(b, p)

(* What is left of a file that was cut off has the same ends of fragments. *)
LEMMA EndsAtPrefix ==
  ASSUME NEW b \in Seq(Nat \X Nat), NEW b2 \in Seq(Nat \X Nat), NEW e \in Seq(Piece), Prefix(b2, b),
         NEW f, NEW p \in 1..Len(b2)
  PROVE  p \in 1..Len(b) /\ (EndsAt(b2, e, f, p) <=> EndsAt(b, e, f, p))
<1>1. Len(b) \in Nat /\ Len(b2) \in Nat
  OBVIOUS
<1> QED
  BY <1>1 DEF Prefix, EndsAt

(* A file that loses its end keeps its layout.                             *)
LEMMA LayoutCut ==
  ASSUME NEW b \in Seq(Nat \X Nat), NEW b2 \in Seq(Nat \X Nat), NEW e \in Seq(Piece),
         Layout(b, e), Prefix(b2, b)
  PROVE  Layout(b2, e)
<1>1. Len(b) \in Nat /\ Len(b2) \in Nat /\ Len(b2) <= Len(b)
  BY DEF Prefix
<1>2. \A p \in 1..Len(b2) : p \in 1..Len(b) /\ Of(b2, p) = Of(b, p) /\ Nth(b2, p) = Nth(b, p)
  BY <1>1 DEF Prefix
<1>3. ASSUME NEW p \in 1..Len(b2)
      PROVE  IF Of(b2, p) = 0 THEN Nth(b2, p) = 0
             ELSE Of(b2, p) \in 1..Len(e) /\ Nth(b2, p) \in 1..Size(e, Of(b2, p)) /\ Nth(b2, p) <= p
  BY <1>2, <1>3 DEF Layout
<1>4. ASSUME NEW p \in 1..Len(b2), Of(b2, p) # 0, NEW k \in 1..Nth(b2, p)
      PROVE  Of(b2, p - Nth(b2, p) + k) = Of(b2, p) /\ Nth(b2, p - Nth(b2, p) + k) = k
  <2>1. Of(b2, p) \in 1..Len(e) /\ Nth(b2, p) \in 1..Size(e, Of(b2, p)) /\ Nth(b2, p) <= p
    BY <1>3, <1>4
  <2>2. PICK n \in Nat : n = Nth(b2, p)
    BY <2>1, PieceSize
  <2>3. n <= p /\ k <= n /\ k \in Nat /\ k >= 1 /\ p \in Nat /\ p <= Len(b2)
    BY <1>1, <2>1, <2>2
  <2>4. \A l, x, y, z \in Nat : x <= l /\ y <= x /\ z >= 1 /\ z <= y => x - y + z \in 1..l
    OBVIOUS
  <2>5. p - n + k \in 1..Len(b2)
    BY <1>1, <2>3, <2>4
  <2>6. Of(b, p) # 0 /\ n = Nth(b, p) /\ p \in 1..Len(b)
    BY <1>2, <1>4, <2>2
  <2>7. Of(b, p - n + k) = Of(b, p) /\ Nth(b, p - n + k) = k
    BY <2>2, <2>6 DEF Layout
  <2> QED
    BY <1>2, <2>2, <2>5, <2>7
<1>5. ASSUME NEW p \in 1..Len(b2), NEW q \in 1..Len(b2), p < q, Of(b2, p) # 0, Of(b2, q) # 0
      PROVE  \/ Of(b2, p) < Of(b2, q)
             \/ Of(b2, p) = Of(b2, q) /\ Nth(b2, q) - Nth(b2, p) = q - p
  BY <1>2, <1>5 DEF Layout
<1>6. ASSUME NEW q \in 1..Len(b2), Of(b2, q) # 0, ~Begins(e, Of(b2, q))
      PROVE  \E p \in 1..Len(b2) : p < q /\ EndsAt(b2, e, Of(b2, q) - 1, p)
  <2>1. PICK p \in 1..Len(b) : p < q /\ EndsAt(b, e, Of(b, q) - 1, p)
    BY <1>2, <1>6 DEF Layout
  <2>2. p \in 1..Len(b2)
    BY <1>1, <2>1
  <2> QED
    BY <1>2, <2>1, <2>2, EndsAtPrefix
<1> QED
  BY <1>3, <1>4, <1>5, <1>6 DEF Layout

(* It keeps its alignment as well.                                         *)
LEMMA AlignedCut ==
  ASSUME NEW b \in Seq(Nat \X Nat), NEW b2 \in Seq(Nat \X Nat), NEW e \in Seq(Piece),
         Aligned(b, e), Prefix(b2, b)
  PROVE  Aligned(b2, e)
<1>1. Len(b) \in Nat /\ Len(b2) \in Nat /\ Len(b2) <= Len(b)
  BY DEF Prefix
<1>2. \A p \in 1..Len(b2) : p \in 1..Len(b) /\ Of(b2, p) = Of(b, p) /\ Nth(b2, p) = Nth(b, p)
  BY <1>1 DEF Prefix
<1>3. ASSUME NEW p \in 1..Len(b2), Of(b2, p) # 0
      PROVE  \E c \in Boundaries : /\ c <= p - Nth(b2, p)
                                   /\ p - Nth(b2, p) + Size(e, Of(b2, p)) <= c + BlockSize
  BY <1>2, <1>3 DEF Aligned
<1>4. ASSUME NEW p \in 1..Len(b2), Of(b2, p) # 0, NEW q \in p..Len(b2),
             Nth(b2, p) + (q - p) <= Size(e, Of(b2, p))
      PROVE  Of(b2, q) = Of(b2, p) /\ Nth(b2, q) = Nth(b2, p) + (q - p)
  <2>1. q \in 1..Len(b2) /\ q \in p..Len(b)
    BY <1>1
  <2> QED
    BY <1>2, <1>4, <2>1 DEF Aligned
<1>5. ASSUME NEW p \in 1..Len(b2), Of(b2, p) = 0
      PROVE  \E c \in Boundaries : p <= c /\ c < p + HeaderSize - 1
  BY <1>2, <1>5 DEF Aligned
<1>6. ASSUME NEW q \in 1..Len(b2), Of(b2, q) > 1
      PROVE  \E p \in 1..Len(b2) : p < q /\ EndsAt(b2, e, Of(b2, q) - 1, p)
  <2>1. PICK p \in 1..Len(b) : p < q /\ EndsAt(b, e, Of(b, q) - 1, p)
    BY <1>2, <1>6 DEF Aligned
  <2>2. p \in 1..Len(b2)
    BY <1>1, <2>1
  <2> QED
    BY <1>2, <2>1, <2>2, EndsAtPrefix
<1>7. \A g \in 1..Len(e) : g > 1 /\ Begins(e, g) => Ends(e, g - 1)
  BY DEF Aligned
<1> QED
  BY <1>3, <1>4, <1>5, <1>6, <1>7 DEF Aligned

(* A write, or a part of one, keeps the alignment if it starts where it    *)
(* should: behind the last fragment, or behind a trailer up to the end of  *)
(* the block, and within what is left of that block.                       *)
LEMMA AlignedGrows ==
  ASSUME NEW b \in Seq(Nat \X Nat), NEW b2 \in Seq(Nat \X Nat),
         NEW e \in Seq(Piece), NEW r \in Piece, NEW d \in Nat, NEW w \in Nat,
         NEW c \in Nat, c \in Boundaries, w = HeaderSize + r.length,
         Layout(b, e), Aligned(b, e),
         Extended(b, b2, Len(e) + 1, d), Len(b2) <= d + w,
         e = <<>> => b = <<>>,
         e # <<>> => EndsAt(b, e, Len(e), Len(b)),
         r.type \in {"full", "first"} /\ e # <<>> => Ends(e, Len(e)),
         d # Len(b) => d \in Boundaries /\ d < Len(b) + HeaderSize,
         c <= d, d + w <= c + BlockSize
  PROVE  Aligned(b2, Append(e, r))
<1> DEFINE e2 == Append(e, r)
           m == Len(e) + 1
<1>1. /\ e2 \in Seq(Piece) /\ Len(e2) = m /\ Len(e) \in Nat
      /\ e2[m] = r
      /\ \A f \in 1..Len(e) : /\ f \in 1..Len(e2) /\ f # m
                              /\ e2[f] = e[f] /\ Size(e2, f) = Size(e, f)
                              /\ Begins(e2, f) <=> Begins(e, f)
                              /\ Ends(e2, f) <=> Ends(e, f)
      /\ Size(e2, m) = HeaderSize + r.length
  BY Appended
<1>2. Begins(e2, m) <=> r.type \in {"full", "first"}
  BY <1>1 DEF Begins
<1>0. m = Len(e) + 1 /\ m \in Nat
  BY <1>1
<1> HIDE DEF e2, m
<1>3. /\ Len(b) \in Nat /\ Len(b2) \in Nat /\ d \in Nat /\ Len(b) <= d /\ Len(b) <= Len(b2)
      /\ HeaderSize \in Nat /\ BlockSize \in Nat
  BY Constants DEF Extended
<1>4. \A p \in 1..Len(b) : Of(b2, p) = Of(b, p) /\ Nth(b2, p) = Nth(b, p)
  BY DEF Extended
<1>5. \A p \in 1..Len(b2) : p > Len(b) =>
        IF p <= d THEN Of(b2, p) = 0 /\ Nth(b2, p) = 0 ELSE Of(b2, p) = m /\ Nth(b2, p) = p - d
  BY <1>0 DEF Extended
<1>8. \A f \in 1..Len(e) : Size(e, f) \in Nat
  BY PieceSize
<1>9. \A p \in 1..Len(b2) : Of(b2, p) # 0 =>
        \/ p \in 1..Len(b) /\ Of(b, p) \in 1..Len(e) /\ Nth(b, p) \in Nat
        \/ p > Len(b) /\ p > d /\ Of(b2, p) = m /\ Nth(b2, p) = p - d
  <2> TAKE p \in 1..Len(b2)
  <2>1. CASE p \in 1..Len(b)
    BY <1>4, <1>8, <2>1 DEF Layout
  <2>2. CASE p \notin 1..Len(b)
    <3>1. p > Len(b) /\ (p <= d \/ p > d)
      BY <1>3, <2>2
    <3> QED
      BY <1>3, <1>5, <3>1
  <2> QED
    BY <2>1, <2>2
<1>11. Len(b2) <= d + w /\ c <= d /\ d + w <= c + BlockSize /\ Size(e2, m) = w
  BY <1>1
<1>12. ASSUME NEW p \in 1..Len(b2), Of(b2, p) # 0
       PROVE  \E x \in Boundaries : /\ x <= p - Nth(b2, p)
                                    /\ p - Nth(b2, p) + Size(e2, Of(b2, p)) <= x + BlockSize
  <2>1. CASE p \in 1..Len(b) /\ Of(b, p) \in 1..Len(e)
    BY <1>1, <1>4, <1>12, <2>1 DEF Aligned
  <2>2. CASE p > d /\ Of(b2, p) = m /\ Nth(b2, p) = p - d
    <3>1. p - (p - d) = d
      BY <1>3
    <3> QED
      BY <1>11, <2>2, <3>1
  <2> QED
    BY <1>9, <1>12, <2>1, <2>2
<1>13. ASSUME NEW p \in 1..Len(b2), Of(b2, p) # 0, NEW q \in p..Len(b2),
              Nth(b2, p) + (q - p) <= Size(e2, Of(b2, p))
       PROVE  Of(b2, q) = Of(b2, p) /\ Nth(b2, q) = Nth(b2, p) + (q - p)
  <2>0. q \in 1..Len(b2)
    BY <1>3
  <2>1. CASE p \in 1..Len(b) /\ Of(b, p) \in 1..Len(e) /\ Nth(b, p) \in Nat
    <3>1. PICK n \in Nat : n = Nth(b, p)
      BY <2>1
    <3>2. PICK f \in 1..Len(e) : f = Of(b, p)
      BY <2>1
    <3>3. PICK z \in Nat : z = Size(e, f)
      BY <1>8
    <3>4. Of(b2, p) = f /\ Nth(b2, p) = n /\ Size(e2, f) = z /\ n + (q - p) <= z
      BY <1>1, <1>4, <1>13, <2>1, <3>1, <3>2, <3>3
    <3>5. f # 0
      OBVIOUS
    <3>6. \A x \in p..Len(b) : n + (x - p) <= z => Of(b, x) = f /\ Nth(b, x) = n + (x - p)
      BY <2>1, <3>1, <3>2, <3>3, <3>5 DEF Aligned
    <3>7. CASE q <= Len(b)
      <4>1. q \in p..Len(b) /\ q \in 1..Len(b)
        BY <1>3, <2>0, <3>7
      <4> QED
        BY <1>4, <3>4, <3>6, <4>1
    <3>8. CASE q > Len(b)
      <4>1. Len(b) \in p..Len(b) /\ n + (Len(b) - p) <= z /\ n + (Len(b) - p) < n + (q - p)
        <5>1. \A l, x, y, i, j \in Nat : x <= l /\ l < y /\ i + (y - x) <= j =>
                 l \in x..l /\ i + (l - x) <= j /\ i + (l - x) < i + (y - x)
          OBVIOUS
        <5>2. p \in Nat /\ q \in Nat /\ p <= Len(b) /\ Len(b) < q
          BY <1>3, <2>0, <2>1, <3>8
        <5>3. n + (q - p) <= z
          BY <3>4
        <5> QED
          BY <1>3, <5>1, <5>2, <5>3
      <4>2. Of(b, Len(b)) = f /\ Nth(b, Len(b)) = n + (Len(b) - p)
        BY <3>6, <4>1
      <4>3. e # <<>>
        BY <1>1
      <4>4. Of(b, Len(b)) = Len(e) /\ Nth(b, Len(b)) = Size(e, Len(e))
        BY <4>3 DEF EndsAt
      <4>5. n + (Len(b) - p) = z
        BY <3>3, <4>2, <4>4
      <4> QED
        BY <1>3, <2>0, <2>1, <3>4, <4>1, <4>5
    <3> QED
      BY <1>3, <2>0, <3>7, <3>8
  <2>2. CASE p > Len(b) /\ p > d /\ Of(b2, p) = m /\ Nth(b2, p) = p - d
    <3>1. q > Len(b) /\ ~(q <= d) /\ q - d = (p - d) + (q - p)
      <4>1. p \in Nat /\ q \in Nat /\ p <= q /\ p > d /\ p > Len(b)
        BY <1>3, <2>0, <2>2
      <4>2. \A x, y, i, j \in Nat : x <= y /\ x > i /\ x > j =>
               y > i /\ ~(y <= j) /\ y - j = (x - j) + (y - x)
        OBVIOUS
      <4>3. d \in Nat /\ Len(b) \in Nat
        BY <1>3
      <4> QED
        BY <4>1, <4>2, <4>3
    <3>2. Of(b2, q) = m /\ Nth(b2, q) = q - d
      BY <1>5, <2>0, <3>1
    <3> QED
      BY <2>2, <3>1, <3>2
  <2> QED
    BY <1>9, <1>13, <2>1, <2>2
<1>14. ASSUME NEW p \in 1..Len(b2), Of(b2, p) = 0
       PROVE  \E x \in Boundaries : p <= x /\ x < p + HeaderSize - 1
  <2>1. CASE p \in 1..Len(b)
    BY <1>4, <1>14, <2>1 DEF Aligned
  <2>2. CASE p \notin 1..Len(b)
    <3>1. p > Len(b)
      BY <1>3, <2>2
    <3>2. p <= d
      <4>1. p \in Nat /\ m # 0
        BY <1>0, <1>1, <1>3
      <4>2. CASE ~(p <= d)
        <5>1. Of(b2, p) = m
          BY <1>5, <3>1, <4>2
        <5> QED
          BY <1>14, <4>1, <5>1
      <4> QED
        BY <4>2
    <3>3. d # Len(b)
      BY <1>3, <3>1, <3>2
    <3>4. d \in Boundaries /\ d < Len(b) + HeaderSize
      BY <3>3
    <3>5. d < p + HeaderSize - 1
      BY <1>3, <3>1, <3>4
    <3> QED
      BY <3>2, <3>4, <3>5
  <2> QED
    BY <2>1, <2>2
<1>15. ASSUME NEW q \in 1..Len(b2), Of(b2, q) > 1
       PROVE  \E p \in 1..Len(b2) : p < q /\ EndsAt(b2, e2, Of(b2, q) - 1, p)
  <2>0. Of(b2, q) # 0
    BY <1>15
  <2>1. CASE q \in 1..Len(b) /\ Of(b, q) \in 1..Len(e)
    <3>1. Of(b2, q) = Of(b, q) /\ Of(b, q) > 1
      BY <1>4, <1>15, <2>1
    <3>2. PICK p \in 1..Len(b) : p < q /\ EndsAt(b, e, Of(b, q) - 1, p)
      BY <2>1, <3>1 DEF Aligned
    <3>3. PICK f \in 1..Len(e) : f = Of(b, q)
      BY <2>1
    <3>4. f > 1 /\ Len(e) \in Nat
      BY <1>1, <3>1, <3>3
    <3>5. f - 1 \in 1..Len(e)
      BY <3>4
    <3>6. EndsAt(b, e, f - 1, p)
      BY <3>2, <3>3
    <3>7. EndsAt(b2, e2, f - 1, p)
      <4>1. PICK g \in 1..Len(e) : g = f - 1
        BY <3>5
      <4>2. Of(b, p) = g /\ Nth(b, p) = Size(e, g)
        BY <3>6, <4>1 DEF EndsAt
      <4>3. p \in 1..Len(b2)
        BY <1>3
      <4>4. EndsAt(b2, e2, g, p)
        BY <1>1, <1>4, <4>2, <4>3 DEF EndsAt
      <4> QED
        BY <4>1, <4>4
    <3> QED
      BY <1>3, <3>1, <3>2, <3>3, <3>7
  <2>2. CASE q > Len(b) /\ Of(b2, q) = m
    <3>1. Of(b2, q) - 1 = Len(e) /\ Len(e) > 0
      BY <1>0, <1>1, <1>15, <2>2
    <3>2. e # <<>> /\ EndsAt(b, e, Len(e), Len(b))
      BY <3>1
    <3>3. Len(e) \in 1..Len(e) /\ Len(b) \in 1..Len(b) /\ Len(b) \in 1..Len(b2)
      BY <1>1, <1>3, <3>2 DEF EndsAt
    <3>5. EndsAt(b2, e2, Len(e), Len(b))
      BY <1>1, <1>3, <1>4, <3>2, <3>3 DEF EndsAt
    <3> QED
      BY <2>2, <3>1, <3>3, <3>5
  <2> QED
    BY <1>9, <2>0, <2>1, <2>2
<1>16. ASSUME NEW g \in 1..Len(e2), g > 1, Begins(e2, g)
       PROVE  Ends(e2, g - 1)
  <2>1. CASE g = m
    <3>1. e # <<>> /\ g - 1 = Len(e) /\ Len(e) \in 1..Len(e)
      BY <1>0, <1>1, <1>16, <2>1
    <3>2. Ends(e, Len(e))
      BY <1>2, <1>16, <2>1, <3>1
    <3> QED
      BY <1>1, <3>1, <3>2
  <2>2. CASE g # m
    <3>1. g \in 1..Len(e) /\ g - 1 \in 1..Len(e)
      <4>1. g \in Nat /\ g > 1 /\ g <= Len(e) + 1 /\ g # Len(e) + 1 /\ Len(e) \in Nat
        BY <1>0, <1>1, <1>16, <2>2
      <4> QED
        BY <4>1
    <3> QED
      BY <1>1, <1>16, <3>1 DEF Aligned
  <2> QED
    BY <2>1, <2>2
<1>17. Aligned(b2, e2)
  BY <1>12, <1>13, <1>14, <1>15, <1>16 DEF Aligned
<1> QED
  BY <1>17 DEF e2

(* Boundaries are whole blocks apart.                                      *)
LEMMA Blocks ==
  /\ 0 \in Boundaries
  /\ \A c \in Boundaries : c \in Nat /\ c + BlockSize \in Boundaries
  /\ \A c, x \in Boundaries : c < x => c + BlockSize <= x
<1>0. BlockSize \in Nat /\ BlockSize > 0
  BY Constants
<1>1. \A k, l \in Nat : k < l => k * BlockSize + BlockSize <= l * BlockSize
  <2> TAKE k, l \in Nat
  <2> HAVE k < l
  <2>1. PICK j \in Nat : l = k + 1 + j
    <3>1. l - k - 1 \in Nat /\ l = k + 1 + (l - k - 1)
      OBVIOUS
    <3> QED
      BY <3>1
  <2>2. l * BlockSize = k * BlockSize + BlockSize + j * BlockSize
    BY <1>0, <2>1
  <2>3. j * BlockSize \in Nat /\ k * BlockSize \in Nat
    BY <1>0
  <2> QED
    BY <1>0, <2>2, <2>3
<1>2. 0 \in Boundaries
  <2>1. 0 = 0 * BlockSize
    BY <1>0
  <2> QED
    BY <2>1 DEF Boundaries
<1>3. ASSUME NEW c \in Boundaries
      PROVE  c \in Nat /\ c + BlockSize \in Boundaries
  <2>1. PICK k \in Nat : c = k * BlockSize
    BY DEF Boundaries
  <2>2. c + BlockSize = (k + 1) * BlockSize /\ k + 1 \in Nat /\ c \in Nat
    BY <1>0, <2>1
  <2> QED
    BY <2>2 DEF Boundaries
<1>4. ASSUME NEW c \in Boundaries, NEW x \in Boundaries, c < x
      PROVE  c + BlockSize <= x
  <2>1. PICK k \in Nat : c = k * BlockSize
    BY DEF Boundaries
  <2>2. PICK l \in Nat : x = l * BlockSize
    BY DEF Boundaries
  <2>3. CASE k < l
    BY <1>1, <2>1, <2>2, <2>3
  <2>4. CASE l < k
    <3>1. l * BlockSize + BlockSize <= k * BlockSize
      BY <1>1, <2>4
    <3>2. x + BlockSize <= c /\ x \in Nat /\ c \in Nat
      BY <1>3, <2>1, <2>2, <3>1
    <3> QED
      BY <1>0, <1>4, <3>2
  <2>5. CASE k = l
    BY <1>3, <1>4, <2>1, <2>2, <2>5
  <2> QED
    BY <2>3, <2>4, <2>5
<1> QED
  BY <1>2, <1>3, <1>4

Pend(m, t, w) == [i \in 1..t |-> <<0, 0>>] \o BytesOf(m, w)

(* n bytes of a trailer of t bytes and of a physical record of w, behind b. *)
WrittenTo(b, b2, m, t, w, n) ==
  /\ b \in Seq(Nat \X Nat) /\ m \in Nat /\ t \in Nat /\ w \in Nat
  /\ n \in Nat /\ n <= t + w
  /\ b2 = b \o SubSeq(Pend(m, t, w), 1, n)

(* A write, whole or cut off after n bytes, extends the file with what it  *)
(* wrote of the trailer and the fragment.                                  *)
LEMMA Writes ==
  ASSUME NEW b, NEW b2, NEW m, NEW t, NEW w, NEW n, WrittenTo(b, b2, m, t, w, n)
  PROVE  /\ Len(Pend(m, t, w)) = t + w
         /\ SubSeq(Pend(m, t, w), 1, t + w) = Pend(m, t, w)
         /\ b2 \in Seq(Nat \X Nat)
         /\ Len(b2) = Len(b) + n
         /\ Extended(b, b2, m, Len(b) + t)
<1>12. /\ b \in Seq(Nat \X Nat) /\ m \in Nat /\ t \in Nat /\ w \in Nat
       /\ n \in Nat /\ n <= t + w /\ n \in 0..t + w
  BY DEF WrittenTo
<1> DEFINE z == [i \in 1..t |-> <<0, 0>>]
           y == BytesOf(m, w)
           pend == z \o y
           s == SubSeq(pend, 1, n)
<1>1. z \in Seq(Nat \X Nat) /\ Len(z) = t /\ \A i \in 1..t : z[i] = <<0, 0>>
  BY <1>12
<1>2. y \in Seq(Nat \X Nat) /\ Len(y) = w /\ \A i \in 1..w : y[i] = <<m, i>>
  BY <1>12 DEF BytesOf
<1>10. pend = Pend(m, t, w)
  BY DEF Pend
<1> HIDE DEF z, y
<1>3. /\ pend \in Seq(Nat \X Nat) /\ Len(pend) = t + w
      /\ \A i \in 1..t : pend[i] = <<0, 0>>
      /\ \A i \in 1..w : pend[t + i] = <<m, i>>
  <2>1. /\ Len(pend) = t + w /\ pend \in Seq(Nat \X Nat)
        /\ \A i \in 1..t + w : pend[i] = IF i <= t THEN z[i] ELSE y[i - t]
    BY <1>1, <1>2, <1>12, ConcatProperties
  <2>2. ASSUME NEW i \in 1..t PROVE pend[i] = <<0, 0>>
    <3>1. i \in 1..t + w /\ i <= t
      BY <1>12
    <3>2. pend[i] = z[i]
      BY <2>1, <3>1
    <3> QED
      BY <1>1, <3>2
  <2>3. ASSUME NEW i \in 1..w PROVE pend[t + i] = <<m, i>>
    <3>1. t + i \in 1..t + w /\ ~(t + i <= t) /\ t + i - t = i
      BY <1>12
    <3>2. pend[t + i] = y[i]
      <4>1. PICK j \in 1..t + w : j = t + i
        BY <3>1
      <4>2. pend[j] = y[j - t] /\ j - t = i
        <5>1. ~(j <= t) /\ j - t = i
          BY <1>12, <3>1, <4>1
        <5>2. pend[j] = IF j <= t THEN z[j] ELSE y[j - t]
          BY <2>1
        <5> QED
          BY <5>1, <5>2
      <4> QED
        BY <4>1, <4>2
    <3> QED
      BY <1>2, <3>2
  <2> QED
    BY <2>1, <2>2, <2>3
<1> HIDE DEF pend
<1>4. SubSeq(pend, 1, t + w) = pend
  BY <1>3, SubSeqFull
<1>5. s \in Seq(Nat \X Nat) /\ Len(s) = n /\ \A i \in 1..n : s[i] = pend[i]
  BY <1>3, <1>12
<1>11. b2 = b \o s
  BY <1>10 DEF WrittenTo
<1> HIDE DEF s
<1>6. /\ b2 \in Seq(Nat \X Nat) /\ Len(b2) = Len(b) + n /\ Len(b) \in Nat
      /\ \A p \in 1..Len(b) : b2[p] = b[p]
      /\ \A i \in 1..n : b2[Len(b) + i] = s[i]
  <2>1. /\ b \o s \in Seq(Nat \X Nat) /\ Len(b \o s) = Len(b) + n /\ Len(b) \in Nat
        /\ \A p \in 1..Len(b) : (b \o s)[p] = b[p]
        /\ \A i \in 1..n : (b \o s)[Len(b) + i] = s[i]
    <3>1. /\ b \o s \in Seq(Nat \X Nat) /\ Len(b \o s) = Len(b) + n /\ Len(b) \in Nat
          /\ \A i \in 1..Len(b) + n : (b \o s)[i] = IF i <= Len(b) THEN b[i] ELSE s[i - Len(b)]
      <4>1. b \in Seq(Nat \X Nat) /\ s \in Seq(Nat \X Nat) /\ Len(s) = n
        BY <1>5, <1>12
      <4>2. \A i \in 1..Len(b) + Len(s) : (b \o s)[i] = IF i <= Len(b) THEN b[i] ELSE s[i - Len(b)]
        BY <4>1, ConcatProperties
      <4>3. b \o s \in Seq(Nat \X Nat) /\ Len(b) \in Nat
        BY <4>1
      <4>4. Len(b \o s) = Len(b) + Len(s)
        BY <4>1, ConcatProperties
      <4> QED
        BY <4>1, <4>2, <4>3, <4>4
    <3>2. ASSUME NEW p \in 1..Len(b) PROVE (b \o s)[p] = b[p]
      <4>1. p \in 1..Len(b) + n /\ p <= Len(b)
        BY <1>12, <3>1
      <4> QED
        BY <3>1, <4>1
    <3>3. ASSUME NEW i \in 1..n PROVE (b \o s)[Len(b) + i] = s[i]
      <4>1. PICK j \in 1..Len(b) + n : j = Len(b) + i
        <5>1. n \in Nat /\ Len(b) \in Nat
          BY <1>12, <3>1
        <5>2. Len(b) + i \in 1..Len(b) + n
          BY <5>1
        <5> QED
          BY <5>2
      <4>2. ~(j <= Len(b)) /\ j - Len(b) = i
        BY <1>12, <3>1, <4>1
      <4>3. (b \o s)[j] = s[j - Len(b)]
        BY <3>1, <4>2
      <4> QED
        BY <4>1, <4>2, <4>3
    <3> QED
      BY <3>1, <3>2, <3>3
  <2> QED
    BY <1>11, <2>1
<1>7. \A p \in 1..Len(b) : Of(b2, p) = Of(b, p) /\ Nth(b2, p) = Nth(b, p)
  BY <1>6 DEF Of, Nth
<1>8. ASSUME NEW p \in 1..Len(b2), p > Len(b)
      PROVE  IF p <= Len(b) + t THEN Of(b2, p) = 0 /\ Nth(b2, p) = 0
             ELSE Of(b2, p) = m /\ Nth(b2, p) = p - (Len(b) + t)
  <2>1. PICK i \in 1..n : p = Len(b) + i
    <3>1. p - Len(b) \in 1..n /\ p = Len(b) + (p - Len(b))
      BY <1>6, <1>8, <1>12
    <3> QED
      BY <3>1
  <2>2. b2[p] = pend[i] /\ i \in Nat /\ p = Len(b) + i
    <3>1. b2[Len(b) + i] = s[i] /\ s[i] = pend[i]
      BY <1>5, <1>6
    <3> QED
      BY <2>1, <3>1
  <2>3. CASE i <= t
    <3>1. i \in 1..t /\ p <= Len(b) + t
      BY <1>6, <1>12, <2>1, <2>3
    <3>2. b2[p] = <<0, 0>>
      BY <1>3, <2>2, <3>1
    <3> QED
      BY <3>1, <3>2 DEF Of, Nth
  <2>4. CASE i > t
    <3>1. PICK j \in 1..w : i = t + j
      <4>1. i - t \in 1..w /\ i = t + (i - t)
        BY <1>12, <2>4
      <4> QED
        BY <4>1
    <3>2. b2[p] = <<m, j>>
      BY <1>3, <2>2, <3>1
    <3>3. ~(p <= Len(b) + t) /\ p - (Len(b) + t) = j
      BY <1>6, <1>12, <2>2, <3>1
    <3> QED
      BY <3>2, <3>3 DEF Of, Nth
  <2> QED
    BY <1>12, <2>3, <2>4
<1>9. Extended(b, b2, m, Len(b) + t)
  <2>1. Len(b) + t \in Nat /\ Len(b) <= Len(b) + t /\ Len(b) <= Len(b2)
    BY <1>6, <1>12
  <2> QED
    BY <1>7, <1>8, <2>1 DEF Extended
<1> QED
  BY <1>3, <1>4, <1>6, <1>9, <1>10

-----------------------------------------------------------------------------
(* A turn of the writer's loop.                                            *)

Trailer == IF NeedsTrailer THEN Leftover ELSE 0

(* What a turn of the loop of AddRecord emits fits into the block, and its *)
(* type says whether it begins and whether it ends the record.             *)
LEMMA Turn ==
  ASSUME Typed, adding # <<>>
  PROVE  /\ FragmentStart \in Nat /\ FragmentLength \in Nat /\ adding[1].left \in Nat
         /\ FragmentLength <= adding[1].left
         /\ FragmentStart + HeaderSize + FragmentLength <= BlockSize
         /\ Trailer \in Nat /\ Trailer < HeaderSize
         /\ \/ FragmentStart = 0 /\ offset + Trailer = BlockSize
            \/ FragmentStart = offset /\ Trailer = 0
         /\ Fragment \in Piece /\ Fragment.rec = Len(records) /\ Fragment.length = FragmentLength
         /\ Fragment.type \in {"full", "first"} <=> adding[1].begin
         /\ Fragment.type \in {"full", "last"} <=> adding[1].left = FragmentLength
         /\ Len(records) \in 1..Len(records)
<1>1. /\ offset \in 0..BlockSize /\ adding[1].left \in Nat /\ adding[1].begin \in BOOLEAN
      /\ records \in Seq(Status) /\ records # <<>>
      /\ BlockSize \in Nat /\ HeaderSize \in Nat /\ HeaderSize > 0 /\ HeaderSize < BlockSize
  BY Constants DEF Typed
<1>2. Leftover \in Nat /\ Leftover = BlockSize - offset
  BY <1>1 DEF Leftover
<1>3. /\ FragmentStart \in Nat /\ FragmentStart + HeaderSize <= BlockSize
      /\ Trailer \in Nat /\ Trailer < HeaderSize
      /\ \/ FragmentStart = 0 /\ offset + Trailer = BlockSize
         \/ FragmentStart = offset /\ Trailer = 0
  <2>1. CASE NeedsTrailer
    <3>1. FragmentStart = 0 /\ Trailer = Leftover /\ Leftover < HeaderSize
      BY <2>1 DEF FragmentStart, NeedsTrailer, Trailer
    <3> QED
      BY <1>1, <1>2, <3>1
  <2>2. CASE ~NeedsTrailer
    <3>1. FragmentStart = offset /\ Trailer = 0 /\ ~(Leftover < HeaderSize)
      BY <2>2 DEF FragmentStart, NeedsTrailer, Trailer
    <3> QED
      BY <1>1, <1>2, <3>1
  <2> QED
    BY <2>1, <2>2
<1>4. FragmentLength = IF adding[1].left < BlockSize - FragmentStart - HeaderSize
                       THEN adding[1].left ELSE BlockSize - FragmentStart - HeaderSize
  BY DEF FragmentLength
<1>5. /\ FragmentLength \in Nat /\ FragmentLength <= adding[1].left
      /\ FragmentStart + HeaderSize + FragmentLength <= BlockSize
  BY <1>1, <1>3, <1>4
<1>6. /\ FragmentType \in Types
      /\ FragmentType \in {"full", "first"} <=> adding[1].begin
      /\ FragmentType \in {"full", "last"} <=> adding[1].left = FragmentLength
  BY <1>1 DEF FragmentType, Types
<1>7. Len(records) \in Nat /\ Len(records) \in 1..Len(records)
  BY <1>1
<1>8. Fragment \in Piece /\ Fragment.rec = Len(records) /\ Fragment.length = FragmentLength
      /\ Fragment.type = FragmentType
  BY <1>5, <1>6, <1>7 DEF Fragment, Piece
<1> QED
  BY <1>1, <1>3, <1>5, <1>6, <1>7, <1>8

-----------------------------------------------------------------------------
(***************************************************************************)
(* The writer, and the two deaths.                                         *)
(***************************************************************************)

(* What a write makes of the fragments: those that were whole still are,   *)
(* at the same place, and the new one is if all its bytes were written.    *)
Grown(b, b2, e, e2, r, d, w) ==
  /\ b \in Seq(Nat \X Nat) /\ b2 \in Seq(Nat \X Nat) /\ e \in Seq(Piece) /\ r \in Piece
  /\ e2 = Append(e, r) /\ d \in Nat /\ w \in Nat /\ w = HeaderSize + r.length
  /\ Layout(b, e) /\ Extended(b, b2, Len(e) + 1, d) /\ Len(b2) <= d + w

(* The ends of the fragments that were there stay where they are; the new  *)
(* one ends if and only if its last byte was written.                      *)
LEMMA EndsGrow ==
  ASSUME NEW b, NEW b2, NEW e, NEW e2, NEW r, NEW d, NEW w, Grown(b, b2, e, e2, r, d, w)
  PROVE  /\ Len(b2) \in Nat
         /\ \A f \in 1..Len(e), p \in 1..Len(b) : EndsAt(b, e, f, p) <=> EndsAt(b2, e2, f, p)
         /\ \A f \in 1..Len(e), p \in 1..Len(b2) : EndsAt(b2, e2, f, p) => p \in 1..Len(b)
         /\ Len(b2) = d + w => EndsAt(b2, e2, Len(e) + 1, Len(b2))
         /\ Len(b2) < d + w => \A p \in 1..Len(b2) : ~EndsAt(b2, e2, Len(e) + 1, p)
<1> DEFINE m == Len(e) + 1
<1> USE DEF Grown
<1>1. /\ e2 \in Seq(Piece) /\ Len(e2) = m /\ Len(e) \in Nat
      /\ \A f \in 1..Len(e) : f \in 1..Len(e2) /\ f # m /\ Size(e2, f) = Size(e, f)
      /\ Size(e2, m) = w
  BY Appended
<1>0. m = Len(e) + 1 /\ m \in Nat /\ m # 0
  BY <1>1
<1> HIDE DEF m
<1>3. /\ Len(b) \in Nat /\ Len(b2) \in Nat /\ d \in Nat /\ Len(b) <= d /\ Len(b) <= Len(b2)
      /\ w > 0 /\ w \in Nat /\ Len(b2) <= d + w
  BY Constants DEF Extended, Piece
<1>4. \A p \in 1..Len(b) : Of(b2, p) = Of(b, p) /\ Nth(b2, p) = Nth(b, p) /\ p \in 1..Len(b2)
  BY <1>3 DEF Extended
<1>5. \A p \in 1..Len(b2) : p > Len(b) =>
        IF p <= d THEN Of(b2, p) = 0 /\ Nth(b2, p) = 0 ELSE Of(b2, p) = m /\ Nth(b2, p) = p - d
  BY <1>0 DEF Extended
<1>10. Layout(b, e)
  OBVIOUS
<1> HIDE DEF Grown
<1>6. ASSUME NEW f \in 1..Len(e), NEW p \in 1..Len(b)
      PROVE  EndsAt(b, e, f, p) <=> EndsAt(b2, e2, f, p)
  BY <1>1, <1>4 DEF EndsAt
<1>7. ASSUME NEW f \in 1..Len(e), NEW p \in 1..Len(b2), EndsAt(b2, e2, f, p)
      PROVE  p \in 1..Len(b)
  <2>1. f # m /\ f # 0 /\ Of(b2, p) = f
    BY <1>1, <1>7 DEF EndsAt
  <2>2. ~(p > Len(b))
    BY <1>5, <2>1
  <2> QED
    BY <1>3, <2>2
<1>8. ASSUME Len(b2) = d + w PROVE EndsAt(b2, e2, m, Len(b2))
  <2>1. /\ Len(b2) \in 1..Len(b2) /\ Len(b2) > Len(b) /\ ~(Len(b2) <= d) /\ Len(b2) - d = w
    BY <1>3, <1>8
  <2> QED
    BY <1>1, <1>5, <2>1 DEF EndsAt
<1>9. ASSUME Len(b2) < d + w, NEW p \in 1..Len(b2) PROVE ~EndsAt(b2, e2, m, p)
  <2>1. CASE p \in 1..Len(b)
    <3>1. Of(b, p) # m
      BY <1>0, <1>1, <1>10, <2>1 DEF Layout
    <3> QED
      BY <1>4, <2>1, <3>1 DEF EndsAt
  <2>2. CASE p > Len(b)
    <3>1. CASE p <= d
      BY <1>0, <1>5, <2>2, <3>1 DEF EndsAt
    <3>2. CASE ~(p <= d)
      <4>1. Nth(b2, p) = p - d /\ p - d # w
        BY <1>3, <1>5, <1>9, <2>2, <3>2
      <4> QED
        BY <1>1, <4>1 DEF EndsAt
    <3> QED
      BY <3>1, <3>2
  <2> QED
    BY <1>3, <2>1, <2>2
<1> QED
  BY <1>0, <1>3, <1>6, <1>7, <1>8, <1>9

(* The write of a turn, whole (n = Len(Pending)) or cut off.               *)
TurnWrites(n) ==
  /\ file' = file \o SubSeq(Pending, 1, n)
  /\ emitted' = Append(emitted, Fragment)

(* Pending is the trailer and then the bytes of the new fragment.          *)
LEMMA PendingShape ==
  ASSUME Typed, adding # <<>>
  PROVE  /\ Pending = Pend(Len(emitted) + 1, Trailer, HeaderSize + FragmentLength)
         /\ Len(Pending) = Trailer + (HeaderSize + FragmentLength) /\ Len(Pending) \in Nat
         /\ SubSeq(Pending, 1, Len(Pending)) = Pending
<1>1. FragmentLength \in Nat /\ Trailer \in Nat /\ HeaderSize \in Nat
  BY Constants, Turn
<1>2. PICK m, t, w, pend : /\ m = Len(emitted) + 1 /\ t = Trailer /\ w = HeaderSize + FragmentLength
                           /\ pend = Pending
  OBVIOUS
<1>3. m \in Nat /\ t \in Nat /\ w \in Nat
  BY <1>1, <1>2 DEF Typed
<1>4. pend = Pend(m, t, w)
  <2>1. CASE NeedsTrailer
    BY <1>2, <2>1 DEF Pending, Trailer, Pend
  <2>2. CASE ~NeedsTrailer
    <3>1. t = 0 /\ [i \in 1..t |-> <<0, 0>>] = <<>>
      BY <1>2, <2>2 DEF Trailer
    <3> QED
      BY <1>2, <2>2, <3>1 DEF Pending, Pend
  <2> QED
    BY <2>1, <2>2
<1>5. Len(pend) = t + w /\ SubSeq(pend, 1, t + w) = pend
  <2>1. PICK b \in Seq(Nat \X Nat) : b = <<>>
    <3>1. <<>> \in Seq(Nat \X Nat)
      OBVIOUS
    <3> QED
      BY <3>1
  <2>2. PICK z : z = b \o SubSeq(Pend(m, t, w), 1, 0)
    OBVIOUS
  <2>3. WrittenTo(b, z, m, t, w, 0)
    BY <1>3, <2>1, <2>2 DEF WrittenTo
  <2> QED
    BY <1>4, <2>3, Writes
<1>6. Len(pend) \in Nat /\ SubSeq(pend, 1, Len(pend)) = pend
  BY <1>3, <1>5
<1> QED
  BY <1>2, <1>4, <1>5, <1>6

(* A turn of AddRecord, whole or cut off anywhere, keeps the numbering,    *)
(* the layout, the alignment and the ends there were.                      *)
LEMMA TurnKeeps ==
  ASSUME Writing, WriterInPlace, phase = "writing", adding # <<>>,
         NEW n \in 0..Len(Pending), TurnWrites(n)
  PROVE  /\ Len(Pending) = Trailer + HeaderSize + FragmentLength
         /\ file' \in Seq(Nat \X Nat) /\ Len(file') = Len(file) + n
         /\ SubSeq(Pending, 1, Len(Pending)) = Pending
         /\ emitted' \in Seq(Piece) /\ Len(emitted') = Len(emitted) + 1
         /\ emitted'[Len(emitted) + 1] = Fragment
         /\ \A f \in 1..Len(emitted) : emitted'[f] = emitted[f]
         /\ Numbered(emitted') /\ Layout(file', emitted')
         /\ failures = 0 => Aligned(file', emitted')
         /\ \A f \in 1..Len(emitted), p \in 1..Len(file) :
              EndsAt(file, emitted, f, p) <=> EndsAt(file', emitted', f, p)
         /\ \A f \in 1..Len(emitted), p \in 1..Len(file') :
              EndsAt(file', emitted', f, p) => p \in 1..Len(file)
         /\ n = Len(Pending) => EndsAt(file', emitted', Len(emitted) + 1, Len(file'))
         /\ n < Len(Pending) => \A p \in 1..Len(file') : ~EndsAt(file', emitted', Len(emitted) + 1, p)
         /\ \A f \in 1..Len(emitted) : emitted[f].rec = Len(records) => ~Ends(emitted, f)
<1>1. /\ file \in Seq(Nat \X Nat) /\ emitted \in Seq(Piece) /\ records \in Seq(Status)
      /\ Typed /\ offset \in Nat
      /\ Numbered(emitted) /\ Layout(file, emitted) /\ InProgress
  BY Constants DEF Writing, Typed
<1>2. /\ FragmentStart \in Nat /\ FragmentLength \in Nat
      /\ FragmentStart + HeaderSize + FragmentLength <= BlockSize
      /\ Trailer \in Nat /\ Trailer < HeaderSize
      /\ \/ FragmentStart = 0 /\ offset + Trailer = BlockSize
         \/ FragmentStart = offset /\ Trailer = 0
      /\ Fragment \in Piece /\ Fragment.rec = Len(records) /\ Fragment.length = FragmentLength
      /\ Fragment.type \in {"full", "first"} <=> adding[1].begin
  BY <1>1, Turn
<1>3. HeaderSize \in Nat /\ HeaderSize > 0 /\ BlockSize \in Nat
  BY Constants
<1>4. PICK b, e, b2, e2, r, t, w, d :
        /\ b = file /\ e = emitted /\ b2 = file' /\ e2 = emitted' /\ r = Fragment
        /\ t = Trailer /\ w = HeaderSize + FragmentLength /\ d = Len(file) + Trailer
  OBVIOUS
<1>5. /\ b \in Seq(Nat \X Nat) /\ e \in Seq(Piece) /\ r \in Piece /\ t \in Nat /\ w \in Nat
      /\ d = Len(b) + t /\ Len(b) \in Nat /\ Len(e) \in Nat /\ d \in Nat /\ w > 0
      /\ w = HeaderSize + r.length
  BY <1>1, <1>2, <1>3, <1>4
<1>7. PICK m \in Nat : m = Len(e) + 1
  BY <1>5
<1>9. PICK pend : pend = Pending
  OBVIOUS
<1>30. pend = Pend(m, t, w)
  BY <1>1, <1>4, <1>7, <1>9, PendingShape
<1>31. Len(pend) = t + w /\ SubSeq(pend, 1, Len(pend)) = pend
  BY <1>1, <1>4, <1>9, PendingShape
<1>8. PICK k \in Nat : k = n /\ k <= t + w
  BY <1>5, <1>9, <1>31
<1>11. /\ b2 \in Seq(Nat \X Nat) /\ Len(b2) = Len(b) + k
       /\ Extended(b, b2, Len(e) + 1, d)
  <2>1. b2 = b \o SubSeq(pend, 1, k)
    BY <1>4, <1>8, <1>9 DEF TurnWrites
  <2>2. WrittenTo(b, b2, m, t, w, k)
    BY <1>5, <1>8, <1>30, <2>1 DEF WrittenTo
  <2>3. /\ b2 \in Seq(Nat \X Nat) /\ Len(b2) = Len(b) + k
        /\ Extended(b, b2, m, Len(b) + t)
    BY <2>2, Writes
  <2> QED
    BY <1>5, <1>7, <2>3
<1>12. e2 = Append(e, r)
  BY <1>4 DEF TurnWrites
<1>13. Len(b2) <= d + w /\ (Len(b2) = d + w <=> k = t + w) /\ (Len(b2) < d + w <=> k < t + w)
  <2>1. k \in Nat /\ k <= t + w
    BY <1>8
  <2>2. Len(b2) = Len(b) + k /\ d = Len(b) + t /\ Len(b) \in Nat
    BY <1>5, <1>11
  <2>3. \A x, y, i, j \in Nat : i <= x + y =>
          /\ j + i <= (j + x) + y
          /\ j + i = (j + x) + y <=> i = x + y
          /\ j + i < (j + x) + y <=> i < x + y
    OBVIOUS
  <2>4. t \in Nat /\ w \in Nat
    BY <1>5
  <2> QED
    BY <2>1, <2>2, <2>3, <2>4
<1>14. Numbered(e) /\ Layout(b, e)
  BY <1>1, <1>4
<1>15. /\ \A f \in 1..Len(e) : e[f].rec \in Nat /\ e[f].rec <= r.rec
       /\ r.type \in {"full", "first"} => \A f \in 1..Len(e) : e[f].rec < r.rec
       /\ r.type \notin {"full", "first"} =>
            /\ e # <<>> /\ e[Len(e)].rec = r.rec /\ ~Ends(e, Len(e))
            /\ EndsAt(b, e, Len(e), Len(b))
  <2>1. \A f \in 1..Len(emitted) : emitted[f].rec \in 1..Len(records)
    BY <1>1 DEF InProgress
  <2>2. Len(records) \in Nat
    BY <1>1
  <2>3. \A f \in 1..Len(emitted) : emitted[f].rec \in Nat /\ emitted[f].rec <= Len(records)
    BY <2>1, <2>2
  <2>4. /\ adding[1].begin => \A f \in 1..Len(emitted) : emitted[f].rec < Len(records)
        /\ ~adding[1].begin =>
            /\ emitted # <<>> /\ emitted[Len(emitted)].rec = Len(records)
            /\ ~Ends(emitted, Len(emitted))
            /\ EndsAt(file, emitted, Len(emitted), Len(file))
    BY <1>1 DEF InProgress
  <2> QED
    BY <1>2, <1>4, <2>3, <2>4
<1>16. \A f \in 1..Len(e) : e[f].rec = r.rec => ~Ends(e, f)
  <2> SUFFICES ASSUME NEW f \in 1..Len(e), e[f].rec = r.rec, Ends(e, f) PROVE FALSE
    OBVIOUS
  <2>1. r.type \notin {"full", "first"}
    BY <1>15
  <2>2. e # <<>> /\ e[Len(e)].rec = r.rec /\ ~Ends(e, Len(e))
    BY <1>15, <2>1
  <2>3. f # Len(e) /\ Len(e) \in 1..Len(e)
    BY <1>5, <2>2
  <2>4. f < Len(e)
    BY <1>5, <2>3
  <2>5. e[f].rec < e[Len(e)].rec
    BY <1>14, <2>3, <2>4 DEF Numbered
  <2> QED
    BY <1>15, <2>2, <2>5
<1>17. Numbered(e2)
  BY <1>5, <1>12, <1>14, <1>15, <1>16, NumberedOn
<1>18. Layout(b2, e2)
  <2>1. Len(b2) <= d + HeaderSize + r.length
    <3>1. r.length \in Nat
      BY <1>5 DEF Piece
    <3> QED
      <4>1. PICK y \in Nat : y = r.length
        BY <3>1
      <4>2. w = HeaderSize + y /\ Len(b2) <= d + w
        BY <1>5, <1>13, <4>1
      <4>3. Len(b2) \in Nat /\ d \in Nat
        BY <1>5, <1>11
      <4>4. Len(b2) <= d + HeaderSize + y
        BY <1>3, <4>2, <4>3
      <4> QED
        BY <4>1, <4>4
  <2> QED
    BY <1>5, <1>11, <1>12, <1>14, <1>15, <2>1, LayoutGrows
<1>19. /\ e2 \in Seq(Piece) /\ Len(e2) = Len(e) + 1 /\ e2[Len(e) + 1] = r
       /\ \A f \in 1..Len(e) : e2[f] = e[f]
  BY <1>5, <1>12, Appended
<1>20. /\ \A f \in 1..Len(e), p \in 1..Len(b) : EndsAt(b, e, f, p) <=> EndsAt(b2, e2, f, p)
       /\ \A f \in 1..Len(e), p \in 1..Len(b2) : EndsAt(b2, e2, f, p) => p \in 1..Len(b)
       /\ Len(b2) = d + w => EndsAt(b2, e2, Len(e) + 1, Len(b2))
       /\ Len(b2) < d + w => \A p \in 1..Len(b2) : ~EndsAt(b2, e2, Len(e) + 1, p)
  <2>1. Grown(b, b2, e, e2, r, d, w)
    BY <1>5, <1>11, <1>12, <1>13, <1>14 DEF Grown
  <2> QED
    BY <2>1, EndsGrow
<1>21. ASSUME failures = 0 PROVE Aligned(b2, e2)
  <2>1. /\ Aligned(b, e) /\ Len(b) - offset \in Boundaries
        /\ e = <<>> => b = <<>>
        /\ e # <<>> => EndsAt(b, e, Len(e), Len(b))
        /\ r.type \in {"full", "first"} /\ e # <<>> => Ends(e, Len(e))
    BY <1>2, <1>4, <1>21 DEF WriterInPlace
  <2>2. PICK o \in Nat : o = offset
    BY <1>1
  <2>3. PICK l \in Nat : l = FragmentLength
    BY <1>2
  <2>4. PICK a : a = Len(b) - o /\ a \in Boundaries
    BY <2>1, <2>2
  <2>5. a \in Nat /\ a + BlockSize \in Boundaries /\ a + BlockSize \in Nat
    BY <1>3, <2>4, Blocks
  <2>6. \E c \in Nat : /\ c \in Boundaries /\ c <= d /\ d + w <= c + BlockSize
                       /\ d # Len(b) => d \in Boundaries /\ d < Len(b) + HeaderSize
    <3>1. CASE FragmentStart = 0 /\ offset + Trailer = BlockSize
      <4>1. o + t = BlockSize /\ HeaderSize + l <= BlockSize /\ w = HeaderSize + l /\ t < HeaderSize
        BY <1>2, <1>3, <1>4, <2>2, <2>3, <3>1
      <4>2. d = a + BlockSize
        <5>1. \A i, j, x \in Nat : i + j = BlockSize => x + j = (x - i) + BlockSize
          BY <1>3
        <5> QED
          BY <1>5, <2>2, <2>4, <4>1, <5>1
      <4>3. d <= d /\ d + w <= d + BlockSize /\ d < Len(b) + HeaderSize
        BY <1>3, <1>5, <4>1
      <4> QED
        BY <1>5, <2>5, <4>2, <4>3
    <3>2. CASE FragmentStart = offset /\ Trailer = 0
      <4>1. o + HeaderSize + l <= BlockSize /\ w = HeaderSize + l /\ t = 0
        BY <1>2, <1>3, <1>4, <2>2, <2>3, <3>2
      <4>2. d = Len(b) /\ a <= d /\ d + w <= a + BlockSize
        BY <1>3, <1>5, <2>2, <2>4, <2>5, <4>1
      <4> QED
        BY <2>4, <2>5, <4>2
    <3> QED
      BY <1>2, <3>1, <3>2
  <2> QED
    BY <1>5, <1>11, <1>12, <1>13, <1>14, <2>1, <2>6, AlignedGrows
<1>22. t + w = Trailer + HeaderSize + FragmentLength
  BY <1>2, <1>3, <1>4
<1>23. Len(Pending) = t + w /\ SubSeq(Pending, 1, Len(Pending)) = Pending
  BY <1>9, <1>31
<1>24. b = file /\ e = emitted /\ b2 = file' /\ e2 = emitted' /\ r = Fragment /\ k = n
  BY <1>4, <1>8
<1>25. /\ file' \in Seq(Nat \X Nat) /\ Len(file') = Len(file) + n
       /\ emitted' \in Seq(Piece) /\ Len(emitted') = Len(emitted) + 1
       /\ emitted'[Len(emitted) + 1] = Fragment
       /\ \A f \in 1..Len(emitted) : emitted'[f] = emitted[f]
  BY <1>11, <1>19, <1>24
<1>26. Numbered(emitted') /\ Layout(file', emitted') /\ (failures = 0 => Aligned(file', emitted'))
  BY <1>17, <1>18, <1>21, <1>24
<1>27. /\ \A f \in 1..Len(emitted), p \in 1..Len(file) :
              EndsAt(file, emitted, f, p) <=> EndsAt(file', emitted', f, p)
       /\ \A f \in 1..Len(emitted), p \in 1..Len(file') :
              EndsAt(file', emitted', f, p) => p \in 1..Len(file)
  BY <1>20, <1>24
<1>28. /\ n = Len(Pending) => EndsAt(file', emitted', Len(emitted) + 1, Len(file'))
       /\ n < Len(Pending) => \A p \in 1..Len(file') : ~EndsAt(file', emitted', Len(emitted) + 1, p)
  BY <1>13, <1>20, <1>23, <1>24
<1>29. \A f \in 1..Len(emitted) : emitted[f].rec = Len(records) => ~Ends(emitted, f)
  BY <1>2, <1>16, <1>24
<1> QED
  BY <1>22, <1>23, <1>25, <1>26, <1>27, <1>28, <1>29

(* What is whole in the file stays so.                                     *)
LEMMA KeptOn ==
  ASSUME Writing, WriterInPlace, phase = "writing", adding # <<>>,
         NEW n \in 0..Len(Pending), TurnWrites(n),
         NEW r, NEW k, Kept(r, k)
  PROVE  \E f \in 1..Len(emitted'), p \in 1..k :
           emitted'[f].rec = r /\ Ends(emitted', f) /\ EndsAt(file', emitted', f, p)
<1>1. PICK f \in 1..Len(emitted), p \in 1..k :
        emitted[f].rec = r /\ Ends(emitted, f) /\ EndsAt(file, emitted, f, p)
  BY DEF Kept
<1>2. /\ Len(emitted') = Len(emitted) + 1 /\ emitted'[f] = emitted[f]
      /\ p \in 1..Len(file) => (EndsAt(file, emitted, f, p) <=> EndsAt(file', emitted', f, p))
  BY TurnKeeps
<1>3. p \in 1..Len(file) /\ Len(emitted) \in Nat
  BY <1>1 DEF EndsAt, Writing, Typed
<1>4. f \in 1..Len(emitted') /\ Ends(emitted', f)
  BY <1>1, <1>2, <1>3 DEF Ends
<1> QED
  BY <1>1, <1>2, <1>3, <1>4

(* The invariant of the writer, from its parts.                            *)
WriterInv == Writing /\ WriterInPlace

(* AddRecord starts on a record and keeps the invariant of the writer.     *)
LEMMA AddRecordStep ==
  ASSUME WriterInv, NEW size \in Sizes, AddRecord(size)
  PROVE  WriterInv'
<1> USE DEF AddRecord, writer, reader
<1>1. Typed'
  <2>1. size \in Nat
    BY Constants
  <2>2. adding'[1].left = size /\ adding'[1].begin = TRUE
        /\ adding' = <<[left |-> adding'[1].left, begin |-> adding'[1].begin]>>
    OBVIOUS
  <2>3. records' \in Seq(Status) /\ records' # <<>>
    <3>1. records \in Seq(Status) /\ "adding" \in Status
      BY DEF WriterInv, Writing, Typed, Status
    <3> QED
      BY <3>1
  <2> QED
    BY <2>1, <2>2, <2>3 DEF WriterInv, Writing, Typed
<1>2. Numbered(emitted') /\ Layout(file', emitted')
  BY DEF WriterInv, Writing
<1>3. /\ records \in Seq(Status) /\ Len(records) \in Nat /\ Len(records') = Len(records) + 1
      /\ records'[Len(records')] = "adding"
      /\ \A r \in 1..Len(records) : r \in 1..Len(records') /\ records'[r] = records[r]
  BY DEF WriterInv, Writing, Typed
<1>4. \A f \in 1..Len(emitted) : emitted[f].rec \in 1..Len(records)
  BY DEF WriterInv, Writing, InProgress
<1>5. InProgress'
  <2>1. \A f \in 1..Len(emitted) : emitted[f].rec \in 1..Len(records') /\ emitted[f].rec < Len(records')
    BY <1>3, <1>4
  <2>2. emitted' = emitted /\ adding'[1].begin
    OBVIOUS
  <2> QED
    BY <1>3, <2>1, <2>2 DEF InProgress
<1>6. Outcomes'
  <2>1. emitted' = emitted /\ file' = file /\ durable' = durable /\ died' = died
    OBVIOUS
  <2>2. ASSUME NEW f \in 1..Len(emitted), Ends(emitted, f), records'[emitted[f].rec] = "failed"
        PROVE  \A p \in 1..Len(file) : ~EndsAt(file, emitted, f, p)
    BY <1>3, <1>4, <2>2 DEF WriterInv, Writing, Outcomes
  <2>3. ASSUME NEW r \in 1..Len(records')
        PROVE  /\ records'[r] = "synced" => Kept(r, durable)
               /\ records'[r] = "added" /\ died # "machine" => Kept(r, Len(file))
    <3>1. CASE r \in 1..Len(records)
      BY <1>3, <3>1 DEF WriterInv, Writing, Outcomes
    <3>2. CASE r = Len(records')
      BY <1>3, <3>2
    <3> QED
      BY <1>3, <3>1, <3>2
  <2>4. \A r \in 1..Len(records') :
          /\ records'[r] = "synced" => Kept(r, durable)'
          /\ records'[r] = "added" /\ died' # "machine" => Kept(r, Len(file))'
    BY <2>1, <2>3 DEF Kept
  <2>5. phase' = "writing" => died' = "nothing"
    BY DEF WriterInv, Writing, Outcomes
  <2> QED
    BY <2>1, <2>2, <2>4, <2>5 DEF Outcomes
<1>7. WriterInPlace'
  <2>1. /\ file' = file /\ emitted' = emitted /\ offset' = offset /\ phase' = phase
        /\ failures' = failures /\ adding = <<>> /\ phase = "writing"
    OBVIOUS
  <2> QED
    BY <2>1 DEF WriterInv, WriterInPlace
<1> QED
  BY <1>1, <1>2, <1>5, <1>6, <1>7 DEF WriterInv, Writing

(* Sync keeps it: what was added is whole before what is now durable.      *)
LEMMA SyncStep ==
  ASSUME WriterInv, Sync
  PROVE  WriterInv'
<1> USE DEF Sync, reader
<1>1. /\ records \in Seq(Status) /\ Len(records) \in Nat /\ Len(records') = Len(records)
      /\ records' \in Seq(Status)
      /\ \A r \in 1..Len(records) : records'[r] = IF records[r] = "added" THEN "synced" ELSE records[r]
  <2>1. records \in Seq(Status) /\ DOMAIN records = 1..Len(records) /\ Len(records) \in Nat
    BY DEF WriterInv, Writing, Typed
  <2>2. records' = [r \in 1..Len(records) |-> IF records[r] = "added" THEN "synced" ELSE records[r]]
    BY <2>1
  <2>3. \A r \in 1..Len(records) : (IF records[r] = "added" THEN "synced" ELSE records[r]) \in Status
    BY <2>1 DEF Status
  <2>4. records' \in [1..Len(records) -> Status]
    BY <2>2, <2>3
  <2>5. records' \in Seq(Status) /\ Len(records') = Len(records)
    BY <2>1, <2>4
  <2> QED
    BY <2>1, <2>2, <2>5
<1>2. /\ file' = file /\ emitted' = emitted /\ offset' = offset /\ phase' = phase
      /\ failures' = failures /\ adding = <<>> /\ adding' = <<>> /\ durable' = Len(file) /\ died' = died
  OBVIOUS
<1>3. Typed'
  <2>1. Len(file) \in 0..Len(file) /\ Len(file) \in Nat
    BY DEF WriterInv, Writing, Typed
  <2> QED
    BY <1>1, <1>2, <2>1 DEF WriterInv, Writing, Typed
<1>4. Numbered(emitted') /\ Layout(file', emitted')
  BY <1>2 DEF WriterInv, Writing
<1>5. InProgress'
  BY <1>1, <1>2 DEF WriterInv, Writing, InProgress
<1>6. Outcomes'
  <2>1. \A f \in 1..Len(emitted) : emitted[f].rec \in 1..Len(records)
    BY DEF WriterInv, Writing, InProgress
  <2>2. ASSUME NEW f \in 1..Len(emitted), Ends(emitted, f), records'[emitted[f].rec] = "failed"
        PROVE  \A p \in 1..Len(file) : ~EndsAt(file, emitted, f, p)
    <3>1. records[emitted[f].rec] = "failed"
      BY <1>1, <2>1, <2>2
    <3> QED
      BY <2>2, <3>1 DEF WriterInv, Writing, Outcomes
  <2>3. ASSUME NEW r \in 1..Len(records), records'[r] \in {"synced", "added"}
        PROVE  Kept(r, Len(file))
    <3>1. CASE records[r] = "synced"
      <4>1. Kept(r, durable) /\ durable \in 0..Len(file) /\ Len(file) \in Nat
        BY <3>1 DEF WriterInv, Writing, Outcomes, Typed
      <4>2. 1..durable \subseteq 1..Len(file)
        BY <4>1
      <4> QED
        BY <4>1, <4>2 DEF Kept
    <3>2. CASE records[r] = "added"
      <4>1. died # "machine"
        BY DEF WriterInv, Writing, Outcomes
      <4> QED
        BY <3>2, <4>1 DEF WriterInv, Writing, Outcomes
    <3> QED
      BY <1>1, <2>3, <3>1, <3>2
  <2> QED
    <3>1. \A r \in 1..Len(records') :
            /\ records'[r] = "synced" => Kept(r, durable)'
            /\ records'[r] = "added" /\ died' # "machine" => Kept(r, Len(file))'
      <4> SUFFICES ASSUME NEW r \in 1..Len(records')
                   PROVE  /\ records'[r] = "synced" => Kept(r, durable)'
                          /\ records'[r] = "added" /\ died' # "machine" => Kept(r, Len(file))'
        OBVIOUS
      <4>1. r \in 1..Len(records)
        BY <1>1
      <4>2. records'[r] \in {"synced", "added"} => Kept(r, Len(file))
        BY <2>3, <4>1
      <4>3. Kept(r, Len(file)) => Kept(r, durable)' /\ Kept(r, Len(file))'
        BY <1>2 DEF Kept
      <4> QED
        BY <4>2, <4>3
    <3>2. phase' = "writing" => died' = "nothing"
      BY DEF WriterInv, Writing, Outcomes
    <3> QED
      BY <1>1, <1>2, <2>2, <3>1, <3>2 DEF Outcomes
<1>7. WriterInPlace'
  BY <1>2 DEF WriterInv, WriterInPlace
<1> QED
  BY <1>3, <1>4, <1>5, <1>6, <1>7 DEF WriterInv, Writing

(* The three ways a turn of the loop can go: the record is done, there is  *)
(* more of it, or the write has failed.                                    *)
LEMMA EmitCases ==
  ASSUME Typed, EmitPhysicalRecord
  PROVE  \E n \in 0..Len(Pending) :
           /\ TurnWrites(n)
           /\ \/ /\ n = Len(Pending) /\ adding[1].left = FragmentLength
                 /\ adding' = <<>> /\ records' = [records EXCEPT ![Len(records)] = "added"]
                 /\ failures' = failures
              \/ /\ n = Len(Pending) /\ adding[1].left # FragmentLength
                 /\ adding' = <<[left |-> adding[1].left - FragmentLength, begin |-> FALSE]>>
                 /\ records' = records /\ failures' = failures
              \/ /\ n < Len(Pending) /\ failures' = failures + 1
                 /\ adding' = <<>> /\ records' = [records EXCEPT ![Len(records)] = "failed"]
<1>1. adding # <<>> /\ emitted' = Append(emitted, Fragment)
  BY DEF EmitPhysicalRecord
<1>2. SubSeq(Pending, 1, Len(Pending)) = Pending /\ Len(Pending) \in Nat
  BY <1>1, PendingShape
<1>3. \/ /\ file' = file \o Pending
         /\ IF adding[1].left = FragmentLength
            THEN adding' = <<>> /\ records' = [records EXCEPT ![Len(records)] = "added"]
            ELSE /\ adding' = <<[left |-> adding[1].left - FragmentLength, begin |-> FALSE]>>
                 /\ UNCHANGED records
         /\ UNCHANGED failures
      \/ /\ failures' = failures + 1
         /\ \E n \in 0..Len(Pending) - 1 : file' = file \o SubSeq(Pending, 1, n)
         /\ adding' = <<>>
         /\ records' = [records EXCEPT ![Len(records)] = "failed"]
  BY DEF EmitPhysicalRecord
<1>4. ASSUME file' = file \o Pending,
             IF adding[1].left = FragmentLength
             THEN adding' = <<>> /\ records' = [records EXCEPT ![Len(records)] = "added"]
             ELSE /\ adding' = <<[left |-> adding[1].left - FragmentLength, begin |-> FALSE]>>
                  /\ UNCHANGED records,
             UNCHANGED failures
      PROVE \E n \in 0..Len(Pending) :
           /\ TurnWrites(n)
           /\ \/ /\ n = Len(Pending) /\ adding[1].left = FragmentLength
                 /\ adding' = <<>> /\ records' = [records EXCEPT ![Len(records)] = "added"]
                 /\ failures' = failures
              \/ /\ n = Len(Pending) /\ adding[1].left # FragmentLength
                 /\ adding' = <<[left |-> adding[1].left - FragmentLength, begin |-> FALSE]>>
                 /\ records' = records /\ failures' = failures
  <2>1. Len(Pending) \in 0..Len(Pending)
    BY <1>2
  <2>2. TurnWrites(Len(Pending))
    BY <1>1, <1>2, <1>4 DEF TurnWrites
  <2> QED
    BY <1>4, <2>1, <2>2
<1>5. ASSUME failures' = failures + 1,
             NEW n \in 0..Len(Pending) - 1, file' = file \o SubSeq(Pending, 1, n),
             adding' = <<>>, records' = [records EXCEPT ![Len(records)] = "failed"]
      PROVE \E k \in 0..Len(Pending) :
           /\ TurnWrites(k)
           /\ k < Len(Pending) /\ failures' = failures + 1
           /\ adding' = <<>> /\ records' = [records EXCEPT ![Len(records)] = "failed"]
  <2>1. n \in 0..Len(Pending) /\ n < Len(Pending)
    BY <1>2
  <2>2. TurnWrites(n)
    BY <1>1, <1>5 DEF TurnWrites
  <2> QED
    BY <1>5, <2>1, <2>2
<1> QED
  BY <1>3, <1>4, <1>5

(* What a turn does to the outcomes: what was whole still is, and of the   *)
(* record at hand only the new fragment can be its end.                    *)
LEMMA TurnOutcomes ==
  ASSUME WriterInv, phase = "writing", adding # <<>>,
         NEW n \in 0..Len(Pending), TurnWrites(n),
         records' \in Seq(Status), Len(records') = Len(records),
         \A r \in 1..Len(records) : r # Len(records) => records'[r] = records[r],
         \/ records'[Len(records)] = "adding"
         \/ /\ records'[Len(records)] = "added" /\ n = Len(Pending)
            /\ adding[1].left = FragmentLength
         \/ records'[Len(records)] = "failed" /\ n < Len(Pending),
         durable' = durable,
         died' \in {"nothing", "process"}, phase' = "writing" => died' = "nothing"
  PROVE  Outcomes'
<1>1. Writing /\ WriterInPlace /\ Typed /\ Outcomes /\ InProgress
  BY DEF WriterInv, Writing
<1>2. /\ file' \in Seq(Nat \X Nat) /\ Len(file') = Len(file) + n
      /\ emitted' \in Seq(Piece) /\ Len(emitted') = Len(emitted) + 1
      /\ emitted'[Len(emitted) + 1] = Fragment
      /\ \A f \in 1..Len(emitted) : emitted'[f] = emitted[f]
      /\ \A f \in 1..Len(emitted), p \in 1..Len(file) :
              EndsAt(file, emitted, f, p) <=> EndsAt(file', emitted', f, p)
      /\ \A f \in 1..Len(emitted), p \in 1..Len(file') :
              EndsAt(file', emitted', f, p) => p \in 1..Len(file)
      /\ n = Len(Pending) => EndsAt(file', emitted', Len(emitted) + 1, Len(file'))
      /\ n < Len(Pending) => \A p \in 1..Len(file') : ~EndsAt(file', emitted', Len(emitted) + 1, p)
      /\ \A f \in 1..Len(emitted) : emitted[f].rec = Len(records) => ~Ends(emitted, f)
  BY <1>1, TurnKeeps
<1>3. /\ Fragment.rec = Len(records)
      /\ Fragment.type \in {"full", "last"} <=> adding[1].left = FragmentLength
      /\ Len(records) \in 1..Len(records)
  BY <1>1, Turn
<1>4. Len(emitted) \in Nat /\ Len(file) \in Nat /\ Len(file') \in Nat /\ Len(records) \in Nat
      /\ n \in Nat /\ durable \in 0..Len(file)
  BY <1>1, <1>2, PendingShape DEF Typed
<1>5. \A f \in 1..Len(emitted) : f \in 1..Len(emitted') /\ (Ends(emitted', f) <=> Ends(emitted, f))
                                 /\ emitted[f].rec \in 1..Len(records)
  BY <1>1, <1>2, <1>4 DEF Ends, InProgress
<1>6. ASSUME NEW f \in 1..Len(emitted'), Ends(emitted', f), records'[emitted'[f].rec] = "failed",
             NEW p \in 1..Len(file'), EndsAt(file', emitted', f, p)
      PROVE  FALSE
  <2>1. CASE f = Len(emitted) + 1
    BY <1>2, <1>3, <1>6, <2>1
  <2>2. CASE f \in 1..Len(emitted)
    <3>1. p \in 1..Len(file) /\ EndsAt(file, emitted, f, p) /\ Ends(emitted, f)
      BY <1>2, <1>5, <1>6, <2>2
    <3>2. emitted[f].rec # Len(records)
      BY <1>2, <2>2, <3>1
    <3>3. records[emitted[f].rec] = "failed"
      BY <1>2, <1>5, <1>6, <2>2, <3>2
    <3> QED
      BY <1>1, <2>2, <3>1, <3>3 DEF Outcomes
  <2> QED
    BY <1>2, <1>4, <2>1, <2>2
<1>7. ASSUME NEW r \in 1..Len(records), records'[r] \in {"synced", "added"}
      PROVE  /\ records'[r] = "synced" => Kept(r, durable)'
             /\ records'[r] = "added" => Kept(r, Len(file))'
  <2>1. CASE r = Len(records)
    <3>1. n = Len(Pending) /\ records'[r] = "added" /\ adding[1].left = FragmentLength
      BY <1>7, <2>1
    <3>2. EndsAt(file', emitted', Len(emitted) + 1, Len(file'))
      BY <1>2, <3>1
    <3>3. emitted'[Len(emitted) + 1].rec = r /\ Ends(emitted', Len(emitted) + 1)
      BY <1>2, <1>3, <2>1, <3>1 DEF Ends
    <3>4. Len(emitted) + 1 \in 1..Len(emitted') /\ Len(file') \in 1..Len(file')
      BY <1>2, <1>4, <3>2 DEF EndsAt
    <3>5. Kept(r, Len(file))'
      BY <3>2, <3>3, <3>4 DEF Kept
    <3> QED
      BY <3>1, <3>5
  <2>2. CASE r # Len(records)
    <3>1. records[r] = records'[r] /\ died = "nothing"
      BY <1>1, <2>2 DEF Outcomes
    <3>2. CASE records'[r] = "synced"
      <4>1. Kept(r, durable)
        BY <1>1, <3>1, <3>2 DEF Outcomes
      <4>2. \E f \in 1..Len(emitted'), p \in 1..durable :
              emitted'[f].rec = r /\ Ends(emitted', f) /\ EndsAt(file', emitted', f, p)
        BY <1>1, <4>1, KeptOn
      <4>3. Kept(r, durable)'
        BY <4>2 DEF Kept
      <4> QED
        BY <3>2, <4>3
    <3>3. CASE records'[r] = "added"
      <4>1. Kept(r, Len(file))
        BY <1>1, <3>1, <3>3 DEF Outcomes
      <4>2. \E f \in 1..Len(emitted'), p \in 1..Len(file) :
              emitted'[f].rec = r /\ Ends(emitted', f) /\ EndsAt(file', emitted', f, p)
        BY <1>1, <4>1, KeptOn
      <4>3. 1..Len(file) \subseteq 1..Len(file')
        BY <1>2, <1>4
      <4>4. Kept(r, Len(file))'
        BY <4>2, <4>3 DEF Kept
      <4> QED
        BY <3>3, <4>4
    <3> QED
      BY <1>7, <3>2, <3>3
  <2> QED
    BY <2>1, <2>2
<1>8. \A f \in 1..Len(emitted') : Ends(emitted', f) /\ records'[emitted'[f].rec] = "failed" =>
         \A p \in 1..Len(file') : ~EndsAt(file', emitted', f, p)
  BY <1>6
<1>9. \A r \in 1..Len(records') :
       /\ records'[r] = "synced" => Kept(r, durable)'
       /\ records'[r] = "added" /\ died' # "machine" => Kept(r, Len(file))'
  BY <1>7
<1> QED
  BY <1>8, <1>9 DEF Outcomes

(* EmitPhysicalRecord keeps the invariant of the writer.                   *)
LEMMA EmitStep ==
  ASSUME WriterInv, EmitPhysicalRecord
  PROVE  WriterInv'
<1>0. /\ phase = "writing" /\ adding # <<>>
      /\ offset' = FragmentStart + HeaderSize + FragmentLength
      /\ durable' = durable /\ phase' = phase /\ died' = died /\ buffer' = buffer /\ eof' = eof
      /\ scratch' = scratch /\ out' = out /\ reported' = reported
  BY DEF EmitPhysicalRecord, reader
<1>1. Writing /\ WriterInPlace /\ Typed /\ Outcomes /\ InProgress
  BY DEF WriterInv, Writing
<1>2. PICK n \in 0..Len(Pending) :
        /\ TurnWrites(n)
        /\ \/ /\ n = Len(Pending) /\ adding[1].left = FragmentLength
              /\ adding' = <<>> /\ records' = [records EXCEPT ![Len(records)] = "added"]
              /\ failures' = failures
           \/ /\ n = Len(Pending) /\ adding[1].left # FragmentLength
              /\ adding' = <<[left |-> adding[1].left - FragmentLength, begin |-> FALSE]>>
              /\ records' = records /\ failures' = failures
           \/ /\ n < Len(Pending) /\ failures' = failures + 1
              /\ adding' = <<>> /\ records' = [records EXCEPT ![Len(records)] = "failed"]
  BY <1>1, EmitCases
<1>3. /\ Len(Pending) = Trailer + HeaderSize + FragmentLength
      /\ file' \in Seq(Nat \X Nat) /\ Len(file') = Len(file) + n
      /\ emitted' \in Seq(Piece) /\ Len(emitted') = Len(emitted) + 1
      /\ emitted'[Len(emitted) + 1] = Fragment
      /\ \A f \in 1..Len(emitted) : emitted'[f] = emitted[f]
      /\ Numbered(emitted') /\ Layout(file', emitted')
      /\ failures = 0 => Aligned(file', emitted')
      /\ n = Len(Pending) => EndsAt(file', emitted', Len(emitted) + 1, Len(file'))
  BY <1>0, <1>1, <1>2, TurnKeeps
<1>4. /\ FragmentStart \in Nat /\ FragmentLength \in Nat /\ adding[1].left \in Nat
      /\ FragmentLength <= adding[1].left
      /\ FragmentStart + HeaderSize + FragmentLength <= BlockSize
      /\ Trailer \in Nat
      /\ \/ FragmentStart = 0 /\ offset + Trailer = BlockSize
         \/ FragmentStart = offset /\ Trailer = 0
      /\ Fragment.rec = Len(records)
      /\ Fragment.type \in {"full", "last"} <=> adding[1].left = FragmentLength
      /\ Len(records) \in 1..Len(records)
  BY <1>0, <1>1, Turn
<1>5. /\ Len(emitted) \in Nat /\ Len(file) \in Nat /\ Len(file') \in Nat /\ Len(records) \in Nat
      /\ n \in Nat /\ durable \in 0..Len(file) /\ offset \in Nat
      /\ HeaderSize \in Nat /\ BlockSize \in Nat /\ HeaderSize > 0
      /\ records \in Seq(Status) /\ failures \in Nat
  BY <1>0, <1>1, <1>3, PendingShape, Constants DEF Typed
<1>6. /\ records' \in Seq(Status) /\ Len(records') = Len(records)
      /\ \A r \in 1..Len(records) : r # Len(records) => records'[r] = records[r]
      /\ \/ records'[Len(records)] = "adding" /\ records' = records /\ adding' # <<>>
         \/ /\ records'[Len(records)] = "added" /\ n = Len(Pending)
            /\ adding[1].left = FragmentLength
         \/ records'[Len(records)] = "failed" /\ n < Len(Pending)
  <2>1. records[Len(records)] = "adding"
    BY <1>0, <1>1 DEF InProgress
  <2>2. "added" \in Status /\ "failed" \in Status
    BY DEF Status
  <2>3. CASE records' = records /\ adding' # <<>>
    BY <1>5, <2>1, <2>3
  <2>4. CASE records' = [records EXCEPT ![Len(records)] = "added"]
              /\ n = Len(Pending) /\ adding[1].left = FragmentLength
    BY <1>4, <1>5, <2>2, <2>4
  <2>5. CASE records' = [records EXCEPT ![Len(records)] = "failed"] /\ n < Len(Pending)
    BY <1>4, <1>5, <2>2, <2>5
  <2>6. adding' = <<[left |-> adding[1].left - FragmentLength, begin |-> FALSE]>> => adding' # <<>>
    OBVIOUS
  <2> QED
    BY <1>2, <2>3, <2>4, <2>5, <2>6
<1>7. Outcomes'
  <2>1. died = "nothing"
    BY <1>0, <1>1 DEF Outcomes
  <2> QED
    BY <1>0, <1>2, <1>6, <2>1, TurnOutcomes
<1>8. offset' \in 0..BlockSize
  BY <1>0, <1>4, <1>5
<1>9. Typed'
  <2>1. /\ durable' \in 0..Len(file') /\ buffer' \in [from : Nat, to : Nat]
        /\ buffer'.from <= buffer'.to /\ buffer'.to <= Len(file')
    <3>1. durable' = durable /\ buffer' = buffer
      BY <1>0
    <3>2. buffer \in [from : Nat, to : Nat] /\ buffer.from <= buffer.to /\ buffer.to <= Len(file)
      BY <1>1 DEF Typed
    <3>3. buffer.to \in Nat
      BY <3>2
    <3> QED
      BY <1>3, <1>5, <3>1, <3>2, <3>3
  <2>2. failures' \in Nat
    BY <1>2, <1>5
  <2>3. records' # <<>> 
    BY <1>4, <1>5, <1>6
  <2>4. \/ adding' = <<>>
        \/ /\ adding' = <<[left |-> adding'[1].left, begin |-> adding'[1].begin]>>
           /\ adding'[1].left \in Nat /\ adding'[1].begin \in BOOLEAN
    <3>1. CASE adding' = <<[left |-> adding[1].left - FragmentLength, begin |-> FALSE]>>
      <4>1. adding'[1].left = adding[1].left - FragmentLength /\ adding'[1].begin = FALSE
        BY <3>1
      <4>2. adding[1].left - FragmentLength \in Nat
        BY <1>4
      <4> QED
        BY <3>1, <4>1, <4>2
    <3> QED
      BY <1>2, <3>1
  <2> QED
    BY <1>0, <1>1, <1>3, <1>6, <1>8, <2>1, <2>2, <2>3, <2>4 DEF Typed
<1>10. InProgress'
  <2>1. ASSUME NEW f \in 1..Len(emitted') PROVE emitted'[f].rec \in 1..Len(records')
    <3>1. CASE f \in 1..Len(emitted)
      BY <1>1, <1>3, <1>6, <3>1 DEF InProgress
    <3>2. CASE f = Len(emitted) + 1
      BY <1>3, <1>4, <1>6, <3>2
    <3> QED
      BY <1>3, <1>5, <3>1, <3>2
  <2>2. ASSUME adding' # <<>>
        PROVE  /\ records'[Len(records')] = "adding" /\ ~adding'[1].begin
               /\ emitted' # <<>> /\ emitted'[Len(emitted')].rec = Len(records')
               /\ ~Ends(emitted', Len(emitted'))
               /\ EndsAt(file', emitted', Len(emitted'), Len(file'))
    <3>1. /\ n = Len(Pending) /\ adding[1].left # FragmentLength
          /\ adding' = <<[left |-> adding[1].left - FragmentLength, begin |-> FALSE]>>
          /\ records' = records
      BY <1>2, <2>2
    <3>2. records[Len(records)] = "adding"
      BY <1>0, <1>1 DEF InProgress
    <3>3. ~adding'[1].begin
      BY <3>1
    <3>4. emitted' # <<>> /\ emitted'[Len(emitted')] = Fragment
      BY <1>3, <1>5
    <3>5. ~Ends(emitted', Len(emitted'))
      BY <1>4, <3>1, <3>4 DEF Ends
    <3> QED
      BY <1>3, <1>4, <3>1, <3>2, <3>3, <3>4, <3>5
  <2> QED
    BY <2>1, <2>2 DEF InProgress
<1>11. WriterInPlace'
  <2> SUFFICES ASSUME failures' = 0
               PROVE  /\ Aligned(file', emitted')
                      /\ Len(file') - offset' \in Boundaries
                      /\ emitted' = <<>> => file' = <<>>
                      /\ emitted' # <<>> => EndsAt(file', emitted', Len(emitted'), Len(file'))
                      /\ emitted' # <<>> /\ (adding' = <<>> \/ adding'[1].begin) =>
                           Ends(emitted', Len(emitted'))
    BY DEF WriterInPlace
  <2>1. failures = 0 /\ n = Len(Pending)
    BY <1>2, <1>5
  <2>2. emitted' # <<>> /\ emitted'[Len(emitted')] = Fragment
    BY <1>3, <1>5
  <2>3. adding' = <<>> \/ adding'[1].begin => Ends(emitted', Len(emitted'))
    <3>1. CASE adding[1].left = FragmentLength
      BY <1>4, <2>2, <3>1 DEF Ends
    <3>2. CASE adding' = <<[left |-> adding[1].left - FragmentLength, begin |-> FALSE]>>
      <4>1. adding' # <<>> /\ ~adding'[1].begin
        BY <3>2
      <4> QED
        BY <4>1
    <3> QED
      BY <1>2, <2>1, <3>1, <3>2
  <2>4. Len(file) - offset \in Boundaries
    BY <1>0, <1>1, <2>1 DEF WriterInPlace
  <2>5. Len(file') - offset' \in Boundaries
    <3>1. PICK x, o, s, t, h, l \in Nat :
            /\ x = Len(file) /\ o = offset /\ s = FragmentStart /\ t = Trailer /\ h = HeaderSize
            /\ l = FragmentLength
      BY <1>4, <1>5
    <3>2. x - o \in Boundaries /\ x - o \in Nat /\ (x - o) + BlockSize \in Boundaries
      BY <2>4, <3>1, Blocks
    <3>3. Len(file') = x + (t + h + l) /\ offset' = s + h + l
      BY <1>0, <1>3, <2>1, <3>1
    <3>4. Len(file') - offset' = (x + t) - s
      BY <3>3
    <3>5. CASE s = 0 /\ o + t = BlockSize
      <4>1. (x + t) - s = (x - o) + BlockSize
        BY <1>5, <3>5
      <4> QED
        BY <3>2, <3>4, <4>1
    <3>6. CASE s = o /\ t = 0
      <4>1. (x + t) - s = x - o
        BY <3>6
      <4> QED
        BY <3>2, <3>4, <4>1
    <3> QED
      BY <1>4, <3>1, <3>5, <3>6
  <2> QED
    BY <1>3, <2>1, <2>2, <2>3, <2>5
<1> QED
  BY <1>3, <1>7, <1>9, <1>10, <1>11 DEF WriterInv, Writing

(* So does a death of the process, at whichever byte of a write.           *)
LEMMA ProcessDiesStep ==
  ASSUME WriterInv, ProcessDies
  PROVE  WriterInv'
<1>0. /\ phase = "writing" /\ phase' = "reading" /\ died' = "process"
      /\ durable' = durable /\ offset' = offset /\ adding' = adding /\ records' = records
      /\ failures' = failures /\ buffer' = buffer /\ eof' = eof
      /\ scratch' = scratch /\ out' = out /\ reported' = reported
  BY DEF ProcessDies, reader
<1>1. Writing /\ WriterInPlace /\ Typed /\ Outcomes /\ InProgress
  BY DEF WriterInv, Writing
<1>2. Len(file) \in Nat /\ durable \in 0..Len(file) /\ Len(emitted) \in Nat
      /\ buffer \in [from : Nat, to : Nat] /\ buffer.from <= buffer.to /\ buffer.to <= Len(file)
      /\ buffer.to \in Nat /\ records \in Seq(Status) /\ Len(records) \in Nat
  BY <1>1 DEF Typed
<1>3. CASE adding = <<>>
  <2>1. file' = file /\ emitted' = emitted
    BY <1>3 DEF ProcessDies
  <2>2. Typed'
    BY <1>0, <1>1, <2>1 DEF Typed
  <2>3. InProgress'
    BY <1>0, <1>1, <2>1 DEF InProgress
  <2>4. died # "machine" /\ died' # "machine"
    BY <1>0, <1>1 DEF Outcomes
  <2>5. \A r \in 1..Len(records) :
          /\ records[r] = "synced" => Kept(r, durable)'
          /\ records[r] = "added" => Kept(r, Len(file))'
    BY <1>0, <1>1, <2>1, <2>4 DEF Outcomes, Kept
  <2>6. Outcomes'
    BY <1>0, <1>1, <2>1, <2>5 DEF Outcomes
  <2>7. WriterInPlace'
    BY <1>0, <1>1, <2>1 DEF WriterInPlace
  <2>8. Numbered(emitted') /\ Layout(file', emitted')
    BY <1>1, <2>1 DEF Writing
  <2> QED
    BY <2>2, <2>3, <2>6, <2>7, <2>8 DEF WriterInv, Writing
<1>4. CASE adding # <<>>
  <2>1. PICK n \in 0..Len(Pending) : TurnWrites(n)
    BY <1>4 DEF ProcessDies, TurnWrites
  <2>2. /\ file' \in Seq(Nat \X Nat) /\ Len(file') = Len(file) + n
        /\ emitted' \in Seq(Piece) /\ Len(emitted') = Len(emitted) + 1
        /\ emitted'[Len(emitted) + 1] = Fragment
        /\ \A f \in 1..Len(emitted) : emitted'[f] = emitted[f]
        /\ Numbered(emitted') /\ Layout(file', emitted')
        /\ failures = 0 => Aligned(file', emitted')
    BY <1>0, <1>1, <1>4, <2>1, TurnKeeps
  <2>3. Fragment.rec = Len(records) /\ Len(records) \in 1..Len(records)
    BY <1>1, <1>4, Turn
  <2>4. n \in Nat /\ Len(file') \in Nat
    BY <1>1, <1>2, <1>4, <2>2, PendingShape
  <2>5. Typed'
    <3>1. durable' \in 0..Len(file') /\ buffer'.to <= Len(file')
      BY <1>0, <1>2, <2>2, <2>4
    <3> QED
      BY <1>0, <1>1, <2>2, <3>1 DEF Typed
  <2>6. InProgress'
    <3>1. ASSUME NEW f \in 1..Len(emitted') PROVE emitted'[f].rec \in 1..Len(records')
      <4>1. CASE f \in 1..Len(emitted)
        BY <1>0, <1>1, <2>2, <4>1 DEF InProgress
      <4>2. CASE f = Len(emitted) + 1
        BY <1>0, <2>2, <2>3, <4>2
      <4> QED
        BY <1>2, <2>2, <4>1, <4>2
    <3> QED
      BY <1>0, <3>1 DEF InProgress
  <2>7. Outcomes'
    <3>1. records[Len(records)] = "adding"
      BY <1>0, <1>1, <1>4 DEF InProgress
    <3> QED
      BY <1>0, <1>2, <1>4, <2>1, <3>1, TurnOutcomes
  <2>8. WriterInPlace'
    BY <1>0, <2>2 DEF WriterInPlace
  <2> QED
    BY <2>2, <2>5, <2>6, <2>7, <2>8 DEF WriterInv, Writing
<1> QED
  BY <1>3, <1>4

(* So does a death of the machine: what is synced is before what is lost.  *)
LEMMA MachineDiesStep ==
  ASSUME WriterInv, MachineDies, NotBegun
  PROVE  WriterInv'
<1>0. /\ phase = "writing" /\ phase' = "reading" /\ died' = "machine" /\ emitted' = emitted
      /\ durable' = durable /\ offset' = offset /\ adding' = adding /\ records' = records
      /\ failures' = failures /\ buffer' = buffer /\ eof' = eof
      /\ scratch' = scratch /\ out' = out /\ reported' = reported
  BY DEF MachineDies, reader
<1>1. Writing /\ WriterInPlace /\ Typed /\ Outcomes /\ InProgress
      /\ Numbered(emitted) /\ Layout(file, emitted)
  BY DEF WriterInv, Writing
<1>2. /\ file \in Seq(Nat \X Nat) /\ emitted \in Seq(Piece)
      /\ Len(file) \in Nat /\ durable \in 0..Len(file) /\ Len(emitted) \in Nat
      /\ buffer = [from |-> 0, to |-> 0]
  BY <1>0, <1>1 DEF Typed, NotBegun
<1>3. PICK n \in durable..Len(file) : file' = SubSeq(file, 1, n)
  BY DEF MachineDies
<1>4. PICK b, b2, e, k : b = file /\ b2 = file' /\ e = emitted /\ k = n
  OBVIOUS
<1>5. /\ b \in Seq(Nat \X Nat) /\ e \in Seq(Piece) /\ Len(b) \in Nat
      /\ k \in Nat /\ k <= Len(b) /\ durable <= k /\ b2 = SubSeq(b, 1, k)
  BY <1>2, <1>3, <1>4
<1>6. /\ b2 \in Seq(Nat \X Nat) /\ Len(b2) = k
      /\ \A p \in 1..k : b2[p] = b[p]
  BY <1>5
<1>7. Prefix(b2, b)
  BY <1>5, <1>6 DEF Prefix, Of, Nth
<1>8. Layout(b2, e)
  BY <1>1, <1>4, <1>5, <1>6, <1>7, LayoutCut
<1>9. Aligned(b, e) => Aligned(b2, e)
  BY <1>5, <1>6, <1>7, AlignedCut
<1>10. \A f, p \in 1..k : EndsAt(b2, e, f, p) <=> EndsAt(b, e, f, p)
  BY <1>5, <1>6, <1>7, EndsAtPrefix
<1>11. Typed'
  <2>1. durable' \in 0..Len(file') /\ buffer'.to <= Len(file') /\ file' \in Seq(Nat \X Nat)
    BY <1>0, <1>2, <1>4, <1>5, <1>6
  <2> QED
    BY <1>0, <1>1, <2>1 DEF Typed
<1>12. InProgress'
  BY <1>0, <1>1 DEF InProgress
<1>13. Outcomes'
  <2>1. ASSUME NEW f \in 1..Len(emitted), Ends(emitted, f), records[emitted[f].rec] = "failed",
               NEW p \in 1..Len(file'), EndsAt(file', emitted, f, p)
        PROVE  FALSE
    <3>1. p \in 1..k /\ p \in 1..Len(file)
      BY <1>2, <1>4, <1>5, <1>6
    <3>2. PICK g : g = f
      OBVIOUS
    <3>3. EndsAt(b2, e, g, p)
      BY <1>4, <2>1, <3>2
    <3>4. EndsAt(b, e, g, p)
      BY <1>5, <1>6, <1>7, <3>1, <3>3, EndsAtPrefix
    <3> QED
      BY <1>1, <1>4, <2>1, <3>1, <3>2, <3>4 DEF Outcomes
  <2>2. ASSUME NEW r \in 1..Len(records), records[r] = "synced"
        PROVE  Kept(r, durable)'
    <3>1. PICK f \in 1..Len(emitted), p \in 1..durable :
            emitted[f].rec = r /\ Ends(emitted, f) /\ EndsAt(file, emitted, f, p)
      BY <1>1, <2>2 DEF Outcomes, Kept
    <3>2. p \in 1..k
      BY <1>2, <1>5
    <3>3. EndsAt(b, e, f, p)
      BY <1>4, <3>1
    <3>4. EndsAt(b2, e, f, p)
      BY <1>5, <1>6, <1>7, <3>2, <3>3, EndsAtPrefix
    <3>5. EndsAt(file', emitted', f, p) /\ emitted' = emitted /\ durable' = durable
      BY <1>0, <1>4, <3>4
    <3> QED
      BY <3>1, <3>5 DEF Kept
  <2> QED
    BY <1>0, <2>1, <2>2 DEF Outcomes
<1>14. WriterInPlace'
  BY <1>0, <1>1, <1>4, <1>9 DEF WriterInPlace
<1>15. Numbered(emitted') /\ Layout(file', emitted')
  BY <1>0, <1>1, <1>4, <1>8
<1> QED
  BY <1>11, <1>12, <1>13, <1>14, <1>15 DEF WriterInv, Writing

(* Reading leaves what was written alone.                                  *)
LEMMA ReadFrame ==
  ASSUME WriterInv, Typed', UNCHANGED <<writer, died>>, phase # "writing", phase' # "writing"
  PROVE  WriterInv'
<1>0. /\ file' = file /\ durable' = durable /\ emitted' = emitted /\ offset' = offset
      /\ adding' = adding /\ records' = records /\ failures' = failures /\ died' = died
  BY DEF writer
<1>1. Writing /\ WriterInPlace /\ Outcomes /\ InProgress /\ Numbered(emitted) /\ Layout(file, emitted)
  BY DEF WriterInv, Writing
<1>2. InProgress'
  BY <1>0, <1>1 DEF InProgress
<1>3. \A r \in 1..Len(records) :
          /\ records[r] = "synced" => Kept(r, durable)'
          /\ records[r] = "added" /\ died # "machine" => Kept(r, Len(file))'
  BY <1>0, <1>1 DEF Outcomes, Kept
<1>4. Outcomes'
  BY <1>0, <1>1, <1>3 DEF Outcomes
<1>5. WriterInPlace'
  BY <1>0, <1>1 DEF WriterInPlace
<1> QED
  BY <1>0, <1>1, <1>2, <1>4, <1>5 DEF WriterInv, Writing

-----------------------------------------------------------------------------
(***************************************************************************)
(* The reader: what lies where it stands.                                  *)
(***************************************************************************)

(* Behind the end of a fragment there is room for no other before the next *)
(* header: those that end up to there come no later.                       *)
LEMMA NoGap ==
  ASSUME NEW b \in Seq(Nat \X Nat), NEW e \in Seq(Piece), Layout(b, e),
         NEW l \in 1..Len(e), NEW g \in 1..Len(e), NEW n \in Nat,
         NEW p \in 1..n, NEW q \in 1..n, EndsAt(b, e, l, p), EndsAt(b, e, g, q),
         n < p + HeaderSize
  PROVE  g <= l
<1> SUFFICES ASSUME g > l PROVE FALSE
  OBVIOUS
<1>1. HeaderSize \in Nat /\ Size(e, g) \in Nat /\ Size(e, g) >= HeaderSize /\ Size(e, g) > 0
  BY Constants, PieceSize
<1>2. /\ p \in 1..Len(b) /\ q \in 1..Len(b) /\ Of(b, p) = l /\ Of(b, q) = g
      /\ Nth(b, q) = Size(e, g) /\ l # 0 /\ g # 0 /\ Len(b) \in Nat
  BY DEF EndsAt
<1>3. ASSUME NEW x \in 1..Len(b), x <= p, Of(b, x) = g PROVE FALSE
  <2>1. CASE x = p
    BY <1>2, <1>3, <2>1
  <2>2. CASE x < p
    <3>1. \/ Of(b, x) < Of(b, p)
          \/ Of(b, x) = Of(b, p) /\ Nth(b, p) - Nth(b, x) = p - x
      BY <1>2, <1>3, <2>2 DEF Layout
    <3> QED
      BY <1>2, <1>3, <3>1
  <2> QED
    BY <1>2, <1>3, <2>1, <2>2
<1>4. Size(e, g) <= q
  BY <1>2 DEF Layout
<1>5. PICK x \in 1..Len(b) : x = q - Size(e, g) + 1
  BY <1>1, <1>2, <1>4
<1>6. Of(b, x) = g
  <2>1. 1 \in 1..Nth(b, q)
    BY <1>1, <1>2
  <2>2. Of(b, q - Nth(b, q) + 1) = Of(b, q)
    BY <1>2, <2>1 DEF Layout
  <2> QED
    BY <1>2, <1>5, <2>2
<1>7. x > p
  BY <1>2, <1>3, <1>6
<1>8. q \in Nat /\ q <= n /\ p \in Nat
  OBVIOUS
<1>9. \A i, j, k, s, h \in Nat : j <= k /\ s >= h /\ j - s + 1 > i => ~(k < i + h)
  OBVIOUS
<1>10. q - Size(e, g) + 1 > p
  BY <1>5, <1>7
<1> QED
  BY <1>1, <1>8, <1>9, <1>10

(* Where fragment f is whole, from n on, it ends; and it comes after all   *)
(* that end up to n.                                                       *)
WholeAt(b, e, f, n) ==
  /\ f \in 1..Len(e) /\ n \in Nat /\ n + Size(e, f) <= Len(b)
  /\ \A k \in 1..Size(e, f) : Of(b, n + k) = f /\ Nth(b, n + k) = k

(* A fragment that is whole from n on ends, after all that end up to n,    *)
(* and nothing else ends with it.                                          *)
LEMMA WholeEnds ==
  ASSUME NEW b \in Seq(Nat \X Nat), NEW e \in Seq(Piece), Layout(b, e), NEW f \in 1..Len(e), NEW n \in Nat, WholeAt(b, e, f, n)
  PROVE  /\ EndsAt(b, e, f, n + Size(e, f))
         /\ \A g \in 1..Len(e) : Before(b, e, g, n) => g < f
         /\ \A g \in 1..Len(e) : Before(b, e, g, n + Size(e, f)) => g = f \/ Before(b, e, g, n)
<1>1. /\ f \in 1..Len(e) /\ n \in Nat /\ n + Size(e, f) <= Len(b) /\ Len(b) \in Nat
      /\ Size(e, f) \in Nat /\ Size(e, f) > 0
      /\ \A k \in 1..Size(e, f) : Of(b, n + k) = f /\ Nth(b, n + k) = k
  BY PieceSize DEF WholeAt
<1>2. EndsAt(b, e, f, n + Size(e, f))
  BY <1>1 DEF EndsAt
<1>3. ASSUME NEW g \in 1..Len(e), Before(b, e, g, n) PROVE g < f
  <2>1. PICK p \in 1..n : EndsAt(b, e, g, p)
    BY <1>3 DEF Before
  <2>2. p \in 1..Len(b) /\ Of(b, p) = g /\ Nth(b, p) = Size(e, g) /\ g # 0 /\ p < n + 1
    BY <1>1, <2>1 DEF EndsAt
  <2>3. n + 1 \in 1..Len(b) /\ Of(b, n + 1) = f /\ Nth(b, n + 1) = 1 /\ f # 0
    <3>1. 1 \in 1..Size(e, f) /\ n + 1 <= n + Size(e, f)
      BY <1>1
    <3>2. n + 1 \in 1..Len(b)
      BY <1>1, <3>1
    <3> QED
      BY <1>1, <3>1, <3>2
  <2>4. PICK x \in 1..Len(b) : x = n + 1
    BY <2>3
  <2>5. Of(b, x) = f /\ Nth(b, x) = 1 /\ Of(b, p) # 0 /\ Of(b, x) # 0 /\ p < x
    BY <2>2, <2>3, <2>4
  <2>6. \/ Of(b, p) < Of(b, x)
        \/ Of(b, p) = Of(b, x) /\ Nth(b, x) - Nth(b, p) = x - p
    BY <2>2, <2>5 DEF Layout
  <2>7. PICK s \in Nat : s = Size(e, g) /\ s > 0
    BY PieceSize
  <2>8. g < f \/ 1 - s = x - p
    BY <2>2, <2>5, <2>6, <2>7
  <2>9. ~(1 - s = x - p)
    BY <2>5, <2>7
  <2> QED
    BY <2>8, <2>9
<1>4. ASSUME NEW g \in 1..Len(e), NEW p \in 1..n + Size(e, f), EndsAt(b, e, g, p), p \notin 1..n
      PROVE  g = f
  <2>1. p - n \in 1..Size(e, f) /\ n + (p - n) = p
    BY <1>1, <1>4
  <2> QED
    BY <1>1, <1>4, <2>1 DEF EndsAt
<1>5. ASSUME NEW g \in 1..Len(e), Before(b, e, g, n + Size(e, f)) PROVE g = f \/ Before(b, e, g, n)
  BY <1>4, <1>5 DEF Before
<1> QED
  BY <1>2, <1>3, <1>5

(* A fragment that does not begin a record is the one after that which     *)
(* ends before it, if there is no header in between.                       *)
LEMMA GoesOn ==
  ASSUME NEW b \in Seq(Nat \X Nat), NEW e \in Seq(Piece), Layout(b, e), Numbered(e),
         NEW f \in 1..Len(e), NEW n \in Nat, WholeAt(b, e, f, n),
         NEW l \in 1..Len(e), NEW p \in 1..n, EndsAt(b, e, l, p), n < p + HeaderSize,
         ~Begins(e, f) \/ Aligned(b, e)
  PROVE  f = l + 1 
<1>1. /\ f \in 1..Len(e) /\ n \in Nat /\ n + Size(e, f) <= Len(b) /\ Len(b) \in Nat
      /\ Size(e, f) \in Nat /\ Size(e, f) > 0 /\ Len(e) \in Nat
      /\ \A k \in 1..Size(e, f) : Of(b, n + k) = f /\ Nth(b, n + k) = k
  <2>1. /\ f \in 1..Len(e) /\ n \in Nat /\ n + Size(e, f) <= Len(b)
        /\ \A k \in 1..Size(e, f) : Of(b, n + k) = f /\ Nth(b, n + k) = k
    BY DEF WholeAt
  <2>2. Size(e, f) \in Nat /\ Size(e, f) > 0
    BY <2>1, PieceSize
  <2> QED
    BY <2>1, <2>2
<1>2. n + 1 \in 1..Len(b) /\ Of(b, n + 1) = f /\ f # 0
  <2>0. PICK s \in Nat : s = Size(e, f)
    BY <1>1
  <2>3. s > 0 /\ n + s <= Len(b) /\ n \in Nat /\ Len(b) \in Nat
    BY <1>1, <2>0
  <2>4. \A x, y, z \in Nat : y > 0 /\ x + y <= z => x + 1 \in 1..z /\ 1 \in 1..y
    OBVIOUS
  <2>2. n + 1 \in 1..Len(b) /\ 1 \in 1..s
    BY <2>3, <2>4
  <2>1. 1 \in 1..Size(e, f)
    BY <2>0, <2>2
  <2> QED
    BY <1>1, <2>1, <2>2
<1>3. Before(b, e, l, n)
  BY DEF Before
<1>4. l < f
  BY <1>3, WholeEnds
<1>5. f > 1
  BY <1>1, <1>4
<1>6. PICK q \in 1..Len(b) : q < n + 1 /\ EndsAt(b, e, f - 1, q)
  <2>1. CASE ~Begins(e, f)
    BY <1>2, <2>1 DEF Layout
  <2>2. CASE Aligned(b, e)
    BY <1>2, <1>5, <2>2 DEF Aligned
  <2> QED
    BY <2>1, <2>2
<1>7. f - 1 \in 1..Len(e) /\ q \in 1..n
  BY <1>1, <1>5, <1>6
<1>8. f - 1 <= l
  BY <1>1, <1>6, <1>7, NoGap
<1> QED
  BY <1>1, <1>4, <1>8

(* In place, nothing reaches from one side of n to the other.              *)
LEMMA StartsHere ==
  ASSUME NEW b \in Seq(Nat \X Nat), NEW e \in Seq(Piece), Layout(b, e), Aligned(b, e),
         NEW n \in Nat, InPlace(b, e, n), NEW p \in 1..Len(b), p > n, Of(b, p) # 0
  PROVE  p - Nth(b, p) >= n
<1>1. /\ Of(b, p) \in 1..Len(e) /\ Nth(b, p) \in 1..Size(e, Of(b, p)) /\ Nth(b, p) <= p
      /\ Size(e, Of(b, p)) \in Nat /\ Len(b) \in Nat
  BY PieceSize DEF Layout
<1>2. PICK g, i, s \in Nat : g = Of(b, p) /\ i = Nth(b, p) /\ s = Size(e, Of(b, p))
  BY <1>1
<1>3. i \in 1..s /\ i <= p /\ g # 0 /\ p <= Len(b)
  BY <1>1, <1>2
<1> SUFFICES ASSUME p - i < n PROVE FALSE
  BY <1>2, <1>3
<1>4. CASE n \in Boundaries
  <2>1. PICK c \in Boundaries : c <= p - i /\ (p - i) + s <= c + BlockSize
    BY <1>2 DEF Aligned
  <2>2. c \in Nat /\ BlockSize \in Nat /\ (c < n => c + BlockSize <= n)
    BY <1>4, Blocks, Constants
  <2>3. c < n
    BY <1>3, <2>1, <2>2
  <2>4. p <= c + BlockSize
    <3>1. \A x, y, z, w \in Nat : y <= z /\ (x - y) + z <= w => x <= w
      OBVIOUS
    <3> QED
      BY <1>3, <2>1, <2>2, <3>1
  <2> QED
    BY <2>2, <2>3, <2>4
<1>5. CASE \E f \in 1..Len(e) : EndsAt(b, e, f, n)
  <2>1. PICK f \in 1..Len(e) : EndsAt(b, e, f, n)
    BY <1>5
  <2>2. PICK k \in Nat : k = n - (p - i)
    BY <1>3
  <2>3. k \in 1..i /\ p - i + k = n /\ k < i
    BY <1>3, <2>2
  <2>4. Of(b, n) = g /\ Nth(b, n) = k
    BY <1>2, <2>3 DEF Layout
  <2>5. f = g /\ k = s
    BY <1>2, <2>1, <2>4 DEF EndsAt
  <2> QED
    BY <1>3, <2>3, <2>5
<1> QED
  BY <1>4, <1>5 DEF InPlace

(* Where there is no room for a header nothing ends.                       *)
LEMMA NothingSkipped ==
  ASSUME NEW b \in Seq(Nat \X Nat), NEW e \in Seq(Piece), Layout(b, e), Aligned(b, e),
         NEW n \in Nat, InPlace(b, e, n), NEW m \in Nat, m < n + HeaderSize,
         NEW f \in 1..Len(e), Before(b, e, f, m)
  PROVE  Before(b, e, f, n)
<1>1. PICK p \in 1..m : EndsAt(b, e, f, p)
  BY DEF Before
<1>2. p \in 1..Len(b) /\ Of(b, p) = f /\ Nth(b, p) = Size(e, f) /\ f # 0
  BY <1>1 DEF EndsAt
<1>3. PICK s \in Nat : s = Size(e, f) /\ s >= HeaderSize
  BY PieceSize
<1>4. p > n => p - s >= n
  BY <1>2, <1>3, StartsHere
<1>5. HeaderSize \in Nat /\ HeaderSize > 0
  BY Constants
<1>6. ~(p > n)
  <2>1. \A i, j, k, h, t \in Nat : i <= k /\ k < j + h /\ t >= h => ~(i - t >= j)
    OBVIOUS
  <2>2. p \in Nat /\ p <= m
    OBVIOUS
  <2> QED
    BY <1>3, <1>4, <1>5, <2>1, <2>2
<1>7. p \in 1..n
  BY <1>6
<1> QED
  BY <1>1, <1>7 DEF Before

(* Where there is room for a header there is one, and what follows is of   *)
(* its fragment; the block has all of it.                                  *)
LEMMA AtHeader ==
  ASSUME NEW b \in Seq(Nat \X Nat), NEW e \in Seq(Piece), Layout(b, e), Aligned(b, e),
         NEW n \in Nat, InPlace(b, e, n), NEW to \in Nat, n + HeaderSize <= to, to <= Len(b),
         \E c \in Boundaries : c <= n /\ to <= c + BlockSize
  PROVE  \E g \in 1..Len(e) :
           /\ \A k \in 1..Size(e, g) : n + k <= Len(b) => Of(b, n + k) = g /\ Nth(b, n + k) = k
           /\ to \in Boundaries => n + Size(e, g) <= to
<1>1. HeaderSize \in Nat /\ HeaderSize > 0 /\ BlockSize \in Nat /\ Len(b) \in Nat
  BY Constants
<1>2. PICK c \in Boundaries : c \in Nat /\ c <= n /\ to <= c + BlockSize
  BY Blocks
<1>3. PICK p \in 1..Len(b) : p = n + 1
  BY <1>1
<1>4. Of(b, p) # 0
  <2> SUFFICES ASSUME Of(b, p) = 0 PROVE FALSE
    OBVIOUS
  <2>1. PICK d \in Boundaries : d \in Nat /\ p <= d /\ d < p + HeaderSize - 1
    BY Blocks DEF Aligned
  <2>2. c < d => c + BlockSize <= d
    BY Blocks
  <2>3. c < d
    BY <1>2, <1>3, <2>1
  <2>4. d < to
    <3>1. \A x, y, h, z \in Nat : y < (x + 1) + h - 1 /\ x + h <= z => y < z
      OBVIOUS
    <3> QED
      BY <1>1, <1>3, <2>1, <3>1
  <2>5. \A x, y, z, w \in Nat : y < z /\ z <= x + w => ~(x + w <= y)
    OBVIOUS
  <2> QED
    BY <1>1, <1>2, <2>1, <2>2, <2>3, <2>4, <2>5
<1>5. PICK g \in 1..Len(e) : g = Of(b, p)
  BY <1>4 DEF Layout
<1>6. PICK s \in Nat : s = Size(e, g)
  BY PieceSize
<1>7. Nth(b, p) = 1
  <2>1. Nth(b, p) \in 1..s
    BY <1>4, <1>5, <1>6 DEF Layout
  <2>2. p - Nth(b, p) >= n
    BY <1>3, <1>4, StartsHere
  <2> QED
    BY <1>3, <2>1, <2>2
<1>8. ASSUME NEW k \in 1..s, n + k <= Len(b) PROVE Of(b, n + k) = g /\ Nth(b, n + k) = k
  <2>1. PICK q \in p..Len(b) : q = n + k
    BY <1>1, <1>3, <1>8
  <2>2. 1 + (q - p) = k /\ k <= s
    BY <1>3, <2>1
  <2>3. Nth(b, p) + (q - p) <= Size(e, Of(b, p)) =>
            Of(b, q) = Of(b, p) /\ Nth(b, q) = Nth(b, p) + (q - p)
    BY <1>4 DEF Aligned
  <2> QED
    BY <1>5, <1>6, <1>7, <2>1, <2>2, <2>3
<1>9. ASSUME to \in Boundaries PROVE n + s <= to
  <2>1. PICK d \in Boundaries : /\ d <= p - Nth(b, p)
                                /\ p - Nth(b, p) + Size(e, Of(b, p)) <= d + BlockSize
    BY <1>4 DEF Aligned
  <2>2. d \in Nat /\ (d < to => d + BlockSize <= to)
    BY <1>9, Blocks
  <2>3. d <= n /\ n + s <= d + BlockSize
    BY <1>3, <1>5, <1>6, <1>7, <2>1, <2>2
  <2>4. d < to
    BY <1>1, <2>2, <2>3
  <2> QED
    BY <1>1, <2>2, <2>3, <2>4
<1> QED
  BY <1>6, <1>8, <1>9

(* Runs: of one fragment, and with one more.                               *)
LEMMA RunStarts ==
  ASSUME NEW e \in Seq(Piece), NEW g \in 1..Len(e), Begins(e, g)
  PROVE  Run(e, <<g>>) /\ Last(<<g>>) = g /\ <<g>>[1] = g /\ <<g>> \in Seq(Nat)
<1>1. <<g>> # <<>> /\ Len(<<g>>) = 1 /\ <<g>>[1] = g /\ <<g>> \in Seq(Nat)
  OBVIOUS
<1>2. g \in Nat
  OBVIOUS
<1>3. Last(<<g>>) = g
  BY <1>1 DEF Last
<1>4. ASSUME NEW k \in 1..Len(<<g>>)
      PROVE  /\ <<g>>[k] \in 1..Len(e) /\ <<g>>[k] = <<g>>[1] + k - 1
             /\ e[<<g>>[k]].rec = e[<<g>>[1]].rec
             /\ k > 1 => ~Begins(e, <<g>>[k])
  <2>1. k = 1
    BY <1>1
  <2> QED
    BY <1>1, <1>2, <2>1
<1> QED
  BY <1>1, <1>3, <1>4 DEF Run

(* A run goes on with the next fragment of its record.                     *)
LEMMA RunGoesOn ==
  ASSUME NEW e \in Seq(Piece), Numbered(e), NEW s \in Seq(Nat), Run(e, s),
         NEW g \in 1..Len(e), g = Last(s) + 1, ~Begins(e, g)
  PROVE  /\ Run(e, Append(s, g)) /\ Last(Append(s, g)) = g /\ Append(s, g)[1] = s[1]
         /\ Append(s, g) \in Seq(Nat)
<1>1. PICK t : t = Append(s, g)
  OBVIOUS
<1>2. /\ t \in Seq(Nat) /\ Len(t) = Len(s) + 1 /\ Len(s) \in Nat /\ t[Len(s) + 1] = g
      /\ \A k \in 1..Len(s) : t[k] = s[k]
  BY <1>1
<1>3. s # <<>> /\ Len(s) \in 1..Len(s)
  BY <1>2 DEF Run
<1>4. Last(s) = s[Len(s)] /\ t[1] = s[1] /\ t # <<>> /\ Last(t) = g
  BY <1>2, <1>3 DEF Last
<1>5. /\ Begins(e, s[1]) /\ s[1] \in Nat
      /\ \A k \in 1..Len(s) :
           /\ s[k] \in 1..Len(e) /\ s[k] = s[1] + k - 1 /\ e[s[k]].rec = e[s[1]].rec
           /\ k > 1 => ~Begins(e, s[k])
  BY <1>2, <1>3 DEF Run
<1>6. g = s[1] + (Len(s) + 1) - 1 /\ e[g].rec = e[s[1]].rec
  <2>1. s[Len(s)] = s[1] + Len(s) - 1 /\ e[s[Len(s)]].rec = e[s[1]].rec
    BY <1>3, <1>5
  <2>2. e[g - 1].rec = e[g].rec
    BY DEF Numbered
  <2>3. s[Len(s)] \in Nat /\ g - 1 = s[Len(s)] /\ g = s[Len(s)] + 1
    BY <1>3, <1>4, <1>5
  <2> QED
    BY <1>2, <1>5, <2>1, <2>2, <2>3
<1>7. ASSUME NEW k \in 1..Len(t)
      PROVE  /\ t[k] \in 1..Len(e) /\ t[k] = t[1] + k - 1 /\ e[t[k]].rec = e[t[1]].rec
             /\ k > 1 => ~Begins(e, t[k])
  <2>1. CASE k \in 1..Len(s)
    BY <1>2, <1>4, <1>5, <2>1
  <2>2. CASE k = Len(s) + 1
    BY <1>2, <1>4, <1>6, <2>2
  <2> QED
    BY <1>2, <2>1, <2>2
<1>8. Run(e, t)
  BY <1>4, <1>5, <1>7 DEF Run
<1> QED
  BY <1>1, <1>2, <1>4, <1>8

(* What the reader compares: the bytes of a fragment, from n on.           *)
BytesAre(b, n, s, g) ==
  /\ b \in Seq(Nat \X Nat) /\ n \in Nat /\ s \in Nat /\ g \in Nat /\ n + s <= Len(b)
  /\ \A k \in 1..s : Of(b, n + k) = g /\ Nth(b, n + k) = k

Cut(b, n, s) == SubSeq(b, n + 1, n + s)

(* The comparison of the bytes says just that.                             *)
LEMMA SubBytes ==
  ASSUME NEW b \in Seq(Nat \X Nat), NEW n \in Nat, NEW s \in Nat, n + s <= Len(b), NEW g \in Nat
  PROVE  /\ Cut(b, n, s) = BytesOf(g, s) =>
              \A k \in 1..s : Of(b, n + k) = g /\ Nth(b, n + k) = k
         /\ BytesAre(b, n, s, g) => Cut(b, n, s) = BytesOf(g, s)
<1>1. PICK x : x = SubSeq(b, n + 1, n + s)
  OBVIOUS
<1>2. PICK y : y = BytesOf(g, s)
  OBVIOUS
<1>3. Len(b) \in Nat /\ \A k \in 1..s : n + k \in 1..Len(b)
  OBVIOUS
<1>4. x \in Seq(Nat \X Nat) /\ Len(x) = s /\ \A k \in 1..s : x[k] = b[n + k]
  <2>1. n + 1 \in Nat /\ n + s \in Nat /\ n + 1 >= 1
    OBVIOUS
  <2>2. x \in Seq(Nat \X Nat)
    BY <1>1, <2>1
  <2>3. Len(x) = s
    BY <1>1, <2>1
  <2>4. ASSUME NEW k \in 1..s PROVE x[k] = b[n + k]
    BY <1>1, <2>1
  <2> QED
    BY <2>2, <2>3, <2>4
<1>5. y = [i \in 1..s |-> <<g, i>>]
  BY <1>2 DEF BytesOf
<1>6. DOMAIN x = 1..s /\ x = [k \in 1..s |-> x[k]]
  BY <1>4
<1>7. ASSUME x = y, NEW k \in 1..s PROVE Of(b, n + k) = g /\ Nth(b, n + k) = k
  <2>1. b[n + k] = <<g, k>>
    BY <1>4, <1>5, <1>7
  <2> QED
    BY <2>1 DEF Of, Nth
<1>8. ASSUME \A k \in 1..s : Of(b, n + k) = g /\ Nth(b, n + k) = k
      PROVE  x = y
  <2>1. ASSUME NEW k \in 1..s PROVE x[k] = y[k]
    <3>1. b[n + k] \in Nat \X Nat
      BY <1>3
    <3>2. b[n + k] = <<b[n + k][1], b[n + k][2]>>
      <4>1. PICK z : z = b[n + k] /\ z \in Nat \X Nat
        BY <3>1
      <4>2. z = <<z[1], z[2]>>
        BY <4>1
      <4> QED
        BY <4>1, <4>2
    <3>3. b[n + k][1] = g /\ b[n + k][2] = k
      BY <1>8 DEF Of, Nth
    <3>4. b[n + k] = <<g, k>>
      BY <3>2, <3>3
    <3> QED
      BY <1>4, <1>5, <3>4
  <2> QED
    BY <1>5, <1>6, <2>1
<1>9. BytesAre(b, n, s, g) => x = y
  BY <1>8 DEF BytesAre
<1> QED
  BY <1>1, <1>2, <1>7, <1>9 DEF Cut

(* Bytes that are those of a fragment match.                               *)
LEMMA Matches ==
  ASSUME NEW b, NEW n, NEW s, NEW g, BytesAre(b, n, s, g)
  PROVE  Cut(b, n, s) = BytesOf(g, s)
<1>1. b \in Seq(Nat \X Nat) /\ n \in Nat /\ s \in Nat /\ g \in Nat /\ n + s <= Len(b)
  BY DEF BytesAre
<1> QED
  BY <1>1, SubBytes

(* A fragment that is returned is whole from where the reader stands.      *)
LEMMA Returning ==
  ASSUME WriterInv, NEW type, Returned(type)
  PROVE  \E g \in 1..Len(emitted) :
           /\ g = HeaderAt /\ emitted[g].type = type
           /\ WholeAt(file, emitted, g, buffer.from)
           /\ buffer.from + Size(emitted, g) <= buffer.to
           /\ buffer' = [from |-> buffer.from + Size(emitted, g), to |-> buffer.to]
<1>1. /\ file \in Seq(Nat \X Nat) /\ emitted \in Seq(Piece) /\ Layout(file, emitted)
      /\ buffer \in [from : Nat, to : Nat] /\ buffer.to <= Len(file) /\ Len(file) \in Nat
      /\ HeaderSize \in Nat /\ HeaderSize > 0
  BY Constants DEF WriterInv, Writing, Typed
<1>2. /\ InBuffer >= HeaderSize /\ HeaderAt # 0 /\ PhysicalSize <= InBuffer /\ ChecksumFits
      /\ emitted[HeaderAt].type = type
      /\ buffer' = [buffer EXCEPT !.from = @ + PhysicalSize]
  BY DEF Returned, Complete
<1>3. PICK b, e : b = file /\ e = emitted
  OBVIOUS
<1>4. PICK n, to \in Nat : n = buffer.from /\ to = buffer.to
  BY <1>1
<1>5. PICK g : g = HeaderAt
  OBVIOUS
<1>6. to - n >= HeaderSize /\ to <= Len(b) /\ b \in Seq(Nat \X Nat) /\ e \in Seq(Piece) /\ Len(b) \in Nat
      /\ Layout(b, e)
  BY <1>1, <1>2, <1>3, <1>4 DEF InBuffer
<1>7. n + 1 \in 1..Len(b)
  BY <1>1, <1>6
<1>8. g = Of(b, n + 1) /\ g # 0
  BY <1>2, <1>3, <1>4, <1>5 DEF HeaderAt, Of
<1>9. g \in 1..Len(e)
  BY <1>6, <1>7, <1>8 DEF Layout
<1>10. PICK s \in Nat : s = Size(e, g)
  BY <1>6, <1>9, PieceSize
<1>11. PhysicalSize = s
  BY <1>3, <1>5, <1>10 DEF PhysicalSize, Size
<1>12. s <= to - n /\ n + s <= to /\ n + s <= Len(b)
  <2>1. s <= to - n
    BY <1>2, <1>4, <1>11 DEF InBuffer
  <2> QED
    BY <1>6, <2>1
<1>13. SubSeq(b, n + 1, n + s) = BytesOf(g, s)
  BY <1>2, <1>3, <1>4, <1>5, <1>11 DEF ChecksumFits
<1>14. g \in Nat
  BY <1>9
<1>15. \A k \in 1..s : Of(b, n + k) = g /\ Nth(b, n + k) = k
  <2>1. Cut(b, n, s) = BytesOf(g, s)
    BY <1>13 DEF Cut
  <2> QED
    BY <1>6, <1>12, <1>14, <2>1, SubBytes
<1>16. WholeAt(b, e, g, n)
  BY <1>9, <1>10, <1>12, <1>15 DEF WholeAt
<1>17. buffer' = [from |-> n + s, to |-> to]
  BY <1>1, <1>2, <1>4, <1>11
<1> QED
  BY <1>2, <1>3, <1>4, <1>5, <1>9, <1>10, <1>12, <1>16, <1>17

(* While nothing has failed there is a fragment where there is room for a  *)
(* header, and it is right as far as it goes.                              *)
LEMMA HeaderFound ==
  ASSUME LogInv, failures = 0, phase = "reading", InBuffer >= HeaderSize
  PROVE  \E g \in 1..Len(emitted) :
           /\ HeaderAt = g /\ PhysicalSize = Size(emitted, g)
           /\ \A k \in 1..Size(emitted, g) : buffer.from + k <= Len(file) =>
                Of(file, buffer.from + k) = g /\ Nth(file, buffer.from + k) = k
           /\ Complete => ChecksumFits
           /\ ~eof => Complete
<1>1. /\ file \in Seq(Nat \X Nat) /\ emitted \in Seq(Piece) /\ Layout(file, emitted)
      /\ buffer \in [from : Nat, to : Nat] /\ buffer.to <= Len(file) /\ Len(file) \in Nat
      /\ HeaderSize \in Nat /\ HeaderSize > 0
      /\ Aligned(file, emitted) /\ InPlace(file, emitted, buffer.from)
      /\ ~eof => buffer.to \in Boundaries
      /\ buffer.to > 0 => \E c \in Boundaries : c <= buffer.from /\ buffer.to <= c + BlockSize
  BY Constants DEF LogInv, Writing, Typed, WriterInPlace, ReaderInPlace
<1>3. PICK b, e : b = file /\ e = emitted
  OBVIOUS
<1>4. PICK n, to \in Nat : n = buffer.from /\ to = buffer.to
  BY <1>1
<1>6. /\ to - n >= HeaderSize /\ to <= Len(b) /\ b \in Seq(Nat \X Nat) /\ e \in Seq(Piece) /\ Len(b) \in Nat
      /\ Layout(b, e) /\ Aligned(b, e) /\ InPlace(b, e, n)
  BY <1>1, <1>3, <1>4 DEF InBuffer
<1>7. n + 1 \in 1..Len(b) /\ n + HeaderSize <= to /\ to > 0
  BY <1>1, <1>6
<1>8. \E c \in Boundaries : c <= n /\ to <= c + BlockSize
  BY <1>1, <1>4, <1>7
<1>9. PICK g \in 1..Len(e) :
           /\ \A k \in 1..Size(e, g) : n + k <= Len(b) => Of(b, n + k) = g /\ Nth(b, n + k) = k
           /\ to \in Boundaries => n + Size(e, g) <= to
  BY <1>6, <1>7, <1>8, AtHeader
<1>10. PICK s \in Nat : s = Size(e, g) /\ s >= HeaderSize
  BY <1>6, PieceSize
<1>11. \A k \in 1..s : n + k <= Len(b) => Of(b, n + k) = g /\ Nth(b, n + k) = k
  BY <1>9, <1>10
<1>12. g \in Nat /\ g # 0
  BY <1>6
<1>13. Of(b, n + 1) = g
  <2>1. 1 \in 1..s /\ n + 1 <= Len(b)
    BY <1>1, <1>7, <1>10
  <2> QED
    BY <1>11, <2>1
<1>14. \A k \in 1..HeaderSize : Of(b, n + k) = g /\ Nth(b, n + k) = k
  <2>1. ASSUME NEW k \in 1..HeaderSize PROVE k \in 1..s /\ n + k <= Len(b)
    <3>1. \A h, l \in Nat : k \in 1..h /\ h <= s /\ n + h <= to /\ to <= l
                             => k \in 1..s /\ n + k <= l
      OBVIOUS
    <3>2. HeaderSize \in Nat /\ HeaderSize <= s /\ n + HeaderSize <= to
      BY <1>1, <1>7, <1>10
    <3>3. to <= Len(b) /\ Len(b) \in Nat
      BY <1>6
    <3> QED
      BY <3>1, <3>2, <3>3
  <2> QED
    BY <1>11, <2>1
<1>15. n + HeaderSize <= Len(b)
  BY <1>1, <1>6, <1>7
<1>16. SubSeq(b, n + 1, n + HeaderSize) = BytesOf(g, HeaderSize)
  <2>1. HeaderSize \in Nat /\ g \in Nat /\ n \in Nat /\ b \in Seq(Nat \X Nat)
    BY <1>1, <1>6, <1>12
  <2>2. BytesAre(b, n, HeaderSize, g)
    BY <1>14, <1>15, <2>1 DEF BytesAre
  <2> QED
    BY <2>2, Matches, Zenon DEF Cut
<1>17. HeaderAt = g
  BY <1>3, <1>4, <1>12, <1>13, <1>16 DEF HeaderAt, Of
<1>18. PhysicalSize = s
  BY <1>3, <1>10, <1>17 DEF PhysicalSize, Size
<1>19. ASSUME Complete PROVE ChecksumFits
  <2>1. s <= to - n
    BY <1>4, <1>18, <1>19 DEF Complete, InBuffer
  <2>2. n + s <= Len(b)
    BY <1>6, <2>1
  <2>3. \A k \in 1..s : n + k <= Len(b)
    BY <1>6, <2>2
  <2>4. SubSeq(b, n + 1, n + s) = BytesOf(g, s)
    <3>1. s \in Nat /\ g \in Nat /\ n \in Nat /\ b \in Seq(Nat \X Nat)
      BY <1>6, <1>12
    <3>2. \A k \in 1..s : Of(b, n + k) = g /\ Nth(b, n + k) = k
      BY <1>11, <2>3
    <3>3. BytesAre(b, n, s, g)
      BY <2>2, <3>1, <3>2 DEF BytesAre
    <3> QED
      BY <3>3, Matches, Zenon DEF Cut
  <2> QED
    BY <1>3, <1>4, <1>17, <1>18, <2>4 DEF ChecksumFits
<1>20. ASSUME ~eof PROVE Complete
  <2>1. n + s <= to
    BY <1>1, <1>4, <1>9, <1>10, <1>20
  <2>2. s <= to - n
    BY <2>1
  <2> QED
    BY <1>4, <1>12, <1>17, <1>18, <2>2 DEF Complete, InBuffer
<1>21. /\ \A k \in 1..Size(emitted, g) : buffer.from + k <= Len(file) =>
                Of(file, buffer.from + k) = g /\ Nth(file, buffer.from + k) = k
       /\ PhysicalSize = Size(emitted, g) /\ g \in 1..Len(emitted)
  BY <1>3, <1>4, <1>10, <1>11, <1>18
<1> QED
  BY <1>17, <1>19, <1>20, <1>21

-----------------------------------------------------------------------------
(***************************************************************************)
(* The reader: its steps.                                                  *)
(***************************************************************************)

(* What ends up to m ends up to any n behind it.                           *)
LEMMA BeforeOn ==
  ASSUME NEW b, NEW e, NEW f, NEW m \in Nat, NEW n \in Nat, m <= n, Before(b, e, f, m)
  PROVE  Before(b, e, f, n)
<1>1. 1..m \subseteq 1..n
  OBVIOUS
<1> QED
  BY <1>1 DEF Before

(* What a step of the reader has to show.                                  *)
LEMMA ReadStep ==
  ASSUME LogInv, phase = "reading", UNCHANGED <<writer, died>>,
         phase' \in {"reading", "read"},
         buffer' \in [from : Nat, to : Nat], buffer'.from <= buffer'.to, buffer'.to <= Len(file),
         eof' \in BOOLEAN, reported' \in BOOLEAN, scratch' \in Seq(Nat), out' \in Seq(Seq(Nat)),
         Returns', PuttingTogether', ReaderInPlace'
  PROVE  LogInv'
<1>1. Typed'
  BY DEF LogInv, Writing, Typed, writer
<1>2. WriterInv'
  <2>1. WriterInv /\ phase # "writing" /\ phase' # "writing"
    BY DEF LogInv, WriterInv
  <2> QED
    BY <1>1, <2>1, ReadFrame
<1>3. NotBegun'
  BY DEF NotBegun
<1> QED
  BY <1>2, <1>3 DEF LogInv, WriterInv, Reading

(* While out stays as it is, it only matters that the reader goes forward. *)
LEMMA ReturnsOn ==
  ASSUME LogInv, UNCHANGED writer, out' = out,
         buffer.from \in Nat, buffer'.from \in Nat, buffer.from <= buffer'.from
  PROVE  Returns'
<1>1. /\ file' = file /\ emitted' = emitted
      /\ \A i \in 1..Len(out) :
           /\ Run(emitted, out[i]) /\ Ends(emitted, Last(out[i]))
           /\ Before(file, emitted, Last(out[i]), buffer.from)
      /\ \A i, j \in 1..Len(out) : i < j => Last(out[i]) < out[j][1]
  BY DEF LogInv, Reading, Returns, writer
<1>2. \A i \in 1..Len(out) : Before(file, emitted, Last(out[i]), buffer'.from)
  <2>1. PICK m, n \in Nat : m = buffer.from /\ n = buffer'.from /\ m <= n
    OBVIOUS
  <2>2. \A i \in 1..Len(out) : Before(file, emitted, Last(out[i]), m)
    BY <1>1, <2>1
  <2>3. \A i \in 1..Len(out) : Before(file, emitted, Last(out[i]), n)
    BY <2>1, <2>2, BeforeOn
  <2> QED
    BY <2>1, <2>3
<1> QED
  BY <1>1, <1>2 DEF Returns

(* A run lies in the fragments, in their order.                            *)
LEMMA RunTyped ==
  ASSUME NEW e \in Seq(Piece), NEW s \in Seq(Nat), Run(e, s)
  PROVE  Last(s) \in 1..Len(e) /\ s[1] \in 1..Len(e) /\ s # <<>>
         /\ e[Last(s)].rec = e[s[1]].rec /\ Last(s) = s[1] + Len(s) - 1
<1>1. s # <<>> /\ Len(s) \in Nat
  BY DEF Run
<1>2. Len(s) \in 1..Len(s) /\ 1 \in 1..Len(s)
  BY <1>1
<1> QED
  BY <1>1, <1>2 DEF Run, Last

(* What is returned and where it leaves the reader.                        *)
LEMMA Gets ==
  ASSUME LogInv, NEW type, Returned(type)
  PROVE  \E g \in 1..Len(emitted) :
           /\ g = HeaderAt /\ emitted[g].type = type
           /\ buffer' \in [from : Nat, to : Nat] /\ buffer.from <= buffer'.from
           /\ buffer'.from <= buffer'.to /\ buffer'.to = buffer.to
           /\ EndsAt(file, emitted, g, buffer'.from)
           /\ \A f \in 1..Len(emitted) : Before(file, emitted, f, buffer.from) => f < g
           /\ \A f \in 1..Len(emitted) : Before(file, emitted, f, buffer'.from) =>
                f = g \/ Before(file, emitted, f, buffer.from)
           /\ \A i \in 1..Len(out) : Last(out[i]) < g
           /\ scratch # <<>> /\ ~Begins(emitted, g) => g = Last(scratch) + 1
           /\ failures = 0 => (scratch = <<>> <=> Begins(emitted, g))
<1>1. /\ file \in Seq(Nat \X Nat) /\ emitted \in Seq(Piece) /\ Layout(file, emitted)
      /\ Numbered(emitted) /\ (failures = 0 => Aligned(file, emitted))
      /\ buffer \in [from : Nat, to : Nat] /\ buffer.to <= Len(file) /\ Len(file) \in Nat
      /\ scratch \in Seq(Nat) /\ out \in Seq(Seq(Nat))
      /\ HeaderSize \in Nat /\ HeaderSize > 0 /\ WriterInv
  BY Constants DEF LogInv, WriterInv, Writing, Typed, WriterInPlace
<1>2. PICK g \in 1..Len(emitted) :
           /\ g = HeaderAt /\ emitted[g].type = type
           /\ WholeAt(file, emitted, g, buffer.from)
           /\ buffer.from + Size(emitted, g) <= buffer.to
           /\ buffer' = [from |-> buffer.from + Size(emitted, g), to |-> buffer.to]
  BY <1>1, Returning
<1>3. PICK b, e : b = file /\ e = emitted
  OBVIOUS
<1>4. PICK n, to \in Nat : n = buffer.from /\ to = buffer.to
  BY <1>1
<1>5. PICK s \in Nat : s = Size(e, g) /\ s > 0
  BY <1>1, <1>3, PieceSize
<1>6. /\ b \in Seq(Nat \X Nat) /\ e \in Seq(Piece) /\ Layout(b, e) /\ Numbered(e) /\ g \in 1..Len(e)
      /\ WholeAt(b, e, g, n)
  BY <1>1, <1>2, <1>3, <1>4
<1>7. /\ EndsAt(b, e, g, n + s)
      /\ \A f \in 1..Len(e) : Before(b, e, f, n) => f < g
      /\ \A f \in 1..Len(e) : Before(b, e, f, n + s) => f = g \/ Before(b, e, f, n)
  BY <1>5, <1>6, WholeEnds
<1>8. buffer' = [from |-> n + s, to |-> to] /\ n + s <= to /\ n + s \in Nat /\ n <= n + s
  BY <1>2, <1>3, <1>4, <1>5
<1>9. /\ buffer' \in [from : Nat, to : Nat] /\ buffer.from <= buffer'.from
      /\ buffer'.from <= buffer'.to /\ buffer'.to = buffer.to
      /\ buffer'.from = n + s
  BY <1>4, <1>8
<1>10. \A i \in 1..Len(out) : Last(out[i]) < g
  <2> TAKE i \in 1..Len(out)
  <2>1. Run(emitted, out[i]) /\ Before(file, emitted, Last(out[i]), buffer.from) /\ out[i] \in Seq(Nat)
    BY <1>1 DEF LogInv, Reading, Returns
  <2>2. PICK l \in 1..Len(emitted) : l = Last(out[i])
    BY <1>1, <2>1, RunTyped
  <2> QED
    BY <1>3, <1>4, <1>7, <2>1, <2>2
<1>11. ASSUME scratch # <<>>, ~Begins(e, g) \/ Aligned(b, e)
       PROVE  g = Last(scratch) + 1 /\ ~Ends(e, Last(scratch)) /\ Last(scratch) \in 1..Len(e)
  <2>1. /\ Run(emitted, scratch) /\ ~Ends(emitted, Last(scratch))
        /\ \E p \in 1..buffer.from :
             /\ EndsAt(file, emitted, Last(scratch), p)
             /\ buffer.from < p + HeaderSize
    BY <1>11 DEF LogInv, Reading, PuttingTogether
  <2>2. PICK l \in 1..Len(e) : l = Last(scratch)
    BY <1>1, <1>3, <2>1, RunTyped
  <2>3. PICK p \in 1..n : EndsAt(b, e, l, p) /\ n < p + HeaderSize
    BY <1>3, <1>4, <2>1, <2>2
  <2>4. g = l + 1
    BY <1>6, <1>11, <2>3, GoesOn
  <2> QED
    BY <1>3, <2>1, <2>2, <2>4
<1>12. ASSUME failures = 0, scratch # <<>> PROVE ~Begins(e, g)
  <2>1. Aligned(b, e)
    BY <1>1, <1>3, <1>12
  <2>2. PICK l \in 1..Len(e) : g = l + 1 /\ ~Ends(e, l)
    BY <1>11, <1>12, <2>1
  <2>3. g > 1 /\ g - 1 = l
    BY <2>2
  <2>4. Begins(e, g) => Ends(e, g - 1)
    BY <1>6, <2>1, <2>3 DEF Aligned
  <2> QED
    BY <2>2, <2>3, <2>4
<1>13. ASSUME failures = 0, ~Begins(e, g) PROVE scratch # <<>>
  <2>1. g > 1 /\ ~Ends(e, g - 1)
    BY <1>6, <1>13 DEF Numbered
  <2>2. PICK h \in 1..Len(e) : h = g - 1
    BY <1>6, <2>1
  <2>3. Of(b, n + 1) = g /\ n + 1 \in 1..Len(b)
    <3>1. n + s <= Len(b) /\ \A k \in 1..s : Of(b, n + k) = g
      BY <1>5, <1>6 DEF WholeAt
    <3>2. 1 \in 1..s
      BY <1>5
    <3>3. \A x, y, z \in Nat : y > 0 /\ x + y <= z => x + 1 \in 1..z
      OBVIOUS
    <3>4. Len(b) \in Nat
      BY <1>6
    <3> QED
      BY <1>5, <3>1, <3>2, <3>3, <3>4
  <2>4. g # 0
    BY <1>6
  <2>5. PICK p \in 1..Len(b) : p < n + 1 /\ EndsAt(b, e, h, p)
    BY <1>6, <1>13, <2>2, <2>3, <2>4 DEF Layout
  <2>6. Before(b, e, h, n)
    <3>1. p \in 1..n
      BY <2>5
    <3> QED
      BY <2>5, <3>1 DEF Before
  <2>7. /\ phase = "reading"
        /\ \A f \in 1..Len(emitted) :
              Before(file, emitted, f, buffer.from) /\ ~Ends(emitted, f) =>
                \/ scratch # <<>> /\ Last(scratch) = f
                \/ f + 1 \in 1..Len(emitted) /\ Before(file, emitted, f + 1, buffer.from)
    BY <1>13 DEF Returned, LogInv, ReaderInPlace
  <2>8. scratch # <<>> \/ Before(b, e, h + 1, n)
    BY <1>3, <1>4, <2>1, <2>2, <2>6, <2>7
  <2>9. h + 1 = g
    BY <2>2
  <2>10. ~Before(b, e, g, n)
    BY <1>6, <1>7
  <2> QED
    BY <2>8, <2>9, <2>10
<1>14. /\ EndsAt(file, emitted, g, buffer'.from)
       /\ \A f \in 1..Len(emitted) : Before(file, emitted, f, buffer.from) => f < g
       /\ \A f \in 1..Len(emitted) : Before(file, emitted, f, buffer'.from) =>
                f = g \/ Before(file, emitted, f, buffer.from)
  BY <1>3, <1>4, <1>7, <1>9
<1>15. /\ scratch # <<>> /\ ~Begins(emitted, g) => g = Last(scratch) + 1
       /\ failures = 0 => (scratch = <<>> <=> Begins(emitted, g))
  BY <1>3, <1>11, <1>12, <1>13
<1> QED
  BY <1>2, <1>9, <1>10, <1>14, <1>15

(* What the reader has before it, in one place.                            *)
LEMMA ReaderFacts ==
  ASSUME LogInv
  PROVE  /\ file \in Seq(Nat \X Nat) /\ emitted \in Seq(Piece) /\ Len(file) \in Nat
         /\ Layout(file, emitted) /\ (failures = 0 => Aligned(file, emitted))
         /\ buffer \in [from : Nat, to : Nat] /\ buffer.from \in Nat /\ buffer.to \in Nat
         /\ buffer.from <= buffer.to /\ buffer.to <= Len(file)
         /\ eof \in BOOLEAN /\ reported \in BOOLEAN
         /\ scratch \in Seq(Nat) /\ out \in Seq(Seq(Nat))
         /\ HeaderSize \in Nat /\ HeaderSize > 0 /\ BlockSize \in Nat /\ HeaderSize < BlockSize
BY Constants DEF LogInv, Writing, Typed, WriterInPlace

(* ReadBlock, which passes over what is left of the block, misses no       *)
(* fragment and keeps the invariant.                                       *)
LEMMA ReadBlockStep ==
  ASSUME LogInv, ReadBlock
  PROVE  LogInv'
<1>1. /\ phase = "reading" /\ InBuffer < HeaderSize /\ ~eof
      /\ UNCHANGED <<writer, phase, died, scratch, out, reported>>
      /\ phase' = phase /\ scratch' = scratch /\ out' = out /\ reported' = reported
      /\ file' = file /\ emitted' = emitted /\ failures' = failures
  BY DEF ReadBlock, writer
<1>2. PICK to \in Nat :
        /\ to = IF buffer.to + BlockSize <= Len(file) THEN buffer.to + BlockSize ELSE Len(file)
        /\ buffer' = [from |-> buffer.to, to |-> to] /\ eof' = (to - buffer.to < BlockSize)
  BY ReaderFacts DEF ReadBlock
<1>3. PICK n, m, len \in Nat : n = buffer.from /\ m = buffer.to /\ len = Len(file)
  BY ReaderFacts
<1>4. /\ n <= m /\ m <= len /\ m - n < HeaderSize /\ m < n + HeaderSize
      /\ HeaderSize \in Nat /\ BlockSize \in Nat /\ HeaderSize < BlockSize /\ HeaderSize > 0
  BY <1>1, <1>3, ReaderFacts DEF InBuffer
<1>5. /\ m <= to /\ to <= len /\ to <= m + BlockSize
      /\ eof' \in BOOLEAN /\ (eof' => to = len) /\ (~eof' => to = m + BlockSize)
  <2>1. to = IF m + BlockSize <= len THEN m + BlockSize ELSE len
    BY <1>2, <1>3
  <2>2. eof' = (to - m < BlockSize)
    BY <1>2, <1>3
  <2>3. m <= to /\ to <= len /\ to <= m + BlockSize
    BY <1>4, <2>1
  <2>4. (to - m < BlockSize => to = len) /\ (~(to - m < BlockSize) => to = m + BlockSize)
    BY <1>4, <2>1
  <2>6. eof' \in BOOLEAN
    BY <2>2
  <2>5. eof' \in BOOLEAN /\ (eof' <=> to - m < BlockSize)
    BY <2>2, <2>6
  <2> QED
    BY <2>3, <2>4, <2>5
<1>6. buffer' \in [from : Nat, to : Nat] /\ buffer'.from = m /\ buffer'.to = to
  BY <1>2, <1>3
<1>7. Returns'
  BY <1>1, <1>3, <1>4, <1>6, ReturnsOn
<1>8. PuttingTogether'
  <2> SUFFICES ASSUME scratch # <<>> PROVE PuttingTogether'
    BY <1>1 DEF PuttingTogether
  <2>1. /\ Run(emitted, scratch) /\ ~Ends(emitted, Last(scratch))
        /\ \A i \in 1..Len(out) : Last(out[i]) < scratch[1]
        /\ \E p \in 1..buffer.from :
             /\ EndsAt(file, emitted, Last(scratch), p)
             /\ buffer.from < p + HeaderSize
             /\ buffer.from # p => eof \/ buffer.to - buffer.from >= HeaderSize
    BY DEF LogInv, Reading, PuttingTogether
  <2>2. PICK p \in 1..n : EndsAt(file, emitted, Last(scratch), p) /\ n = p
    BY <1>1, <1>3, <1>4, <2>1
  <2>3. p \in 1..m /\ m < p + HeaderSize /\ (m # p => eof' \/ to - m >= HeaderSize)
    BY <1>4, <1>5, <2>2
  <2> QED
    BY <1>1, <1>6, <2>1, <2>2, <2>3 DEF PuttingTogether
<1>9. ReaderInPlace'
  <2> SUFFICES ASSUME failures = 0 PROVE ReaderInPlace'
    BY <1>1 DEF ReaderInPlace
  <2>1. /\ ~reported /\ InPlace(file, emitted, n) /\ m \in Boundaries
        /\ \A f \in 1..Len(emitted) :
              Before(file, emitted, f, n) /\ ~Ends(emitted, f) =>
                \/ scratch # <<>> /\ Last(scratch) = f
                \/ f + 1 \in 1..Len(emitted) /\ Before(file, emitted, f + 1, n)
        /\ \A f \in 1..Len(emitted) :
             Before(file, emitted, f, n) /\ Ends(emitted, f) => \E i \in 1..Len(out) : Last(out[i]) = f
    BY <1>1, <1>3 DEF LogInv, ReaderInPlace
  <2>2. \A f \in 1..Len(emitted) : Before(file, emitted, f, m) => Before(file, emitted, f, n)
    <3>1. PICK b, e : b = file /\ e = emitted
      OBVIOUS
    <3>2. b \in Seq(Nat \X Nat) /\ e \in Seq(Piece) /\ Layout(b, e) /\ Aligned(b, e) /\ InPlace(b, e, n)
      BY <2>1, <3>1, ReaderFacts
    <3>3. \A f \in 1..Len(e) : Before(b, e, f, m) => Before(b, e, f, n)
      BY <1>4, <3>2, NothingSkipped
    <3> QED
      BY <3>1, <3>3
  <2>3. \A f \in 1..Len(emitted) : Before(file, emitted, f, n) => Before(file, emitted, f, m)
    BY <1>4, BeforeOn
  <2>4. InPlace(file, emitted, m)
    BY <2>1 DEF InPlace
  <2>5. IF eof' THEN to = Len(file) ELSE to \in Boundaries
    BY <1>3, <1>5, <2>1, Blocks
  <2>6. \A f \in 1..Len(emitted) :
              Before(file, emitted, f, m) /\ ~Ends(emitted, f) =>
                \/ scratch # <<>> /\ Last(scratch) = f
                \/ f + 1 \in 1..Len(emitted) /\ Before(file, emitted, f + 1, m)
    BY <2>1, <2>2, <2>3
  <2>7. \A f \in 1..Len(emitted) :
             Before(file, emitted, f, m) /\ Ends(emitted, f) => \E i \in 1..Len(out) : Last(out[i]) = f
    BY <2>1, <2>2
  <2>8. \E c \in Boundaries : c <= m /\ to <= c + BlockSize
    BY <1>4, <1>5, <2>1
  <2> QED
    BY <1>1, <1>6, <2>1, <2>4, <2>5, <2>6, <2>7, <2>8 DEF ReaderInPlace
<1>10. /\ UNCHANGED <<writer, died>> /\ phase' \in {"reading", "read"}
       /\ buffer'.from <= buffer'.to /\ buffer'.to <= Len(file)
       /\ reported' \in BOOLEAN /\ scratch' \in Seq(Nat) /\ out' \in Seq(Seq(Nat))
  BY <1>1, <1>3, <1>5, <1>6, ReaderFacts
<1> QED
  BY <1>1, <1>5, <1>6, <1>7, <1>8, <1>9, <1>10, ReadStep

(* EndOfFile leaves behind nothing that is whole.                          *)
LEMMA EndOfFileStep ==
  ASSUME LogInv, EndOfFile
  PROVE  LogInv'
<1>1. /\ phase = "reading" /\ eof /\ phase' = "read"
      /\ InBuffer >= HeaderSize => ~Complete
  BY DEF EndOfFile
<1>2. /\ buffer' = [buffer EXCEPT !.from = buffer.to] /\ scratch' = <<>>
      /\ UNCHANGED <<writer, died>> /\ eof' = eof /\ out' = out /\ reported' = reported
      /\ file' = file /\ emitted' = emitted /\ failures' = failures
  BY DEF EndOfFile, writer
<1>3. PICK n, m, len \in Nat : n = buffer.from /\ m = buffer.to /\ len = Len(file)
  BY ReaderFacts
<1>4. n <= m /\ m <= len
  BY <1>3, ReaderFacts
<1>5. buffer' \in [from : Nat, to : Nat] /\ buffer'.from = m /\ buffer'.to = m
  BY <1>2, <1>3, ReaderFacts
<1>6. Returns'
  BY <1>2, <1>3, <1>4, <1>5, ReturnsOn
<1>7. PuttingTogether'
  BY <1>2 DEF PuttingTogether
<1>8. ReaderInPlace'
  <2> SUFFICES ASSUME failures = 0 PROVE ReaderInPlace'
    BY <1>2 DEF ReaderInPlace
  <2>1. /\ ~reported /\ InPlace(file, emitted, n) /\ m = Len(file)
        /\ \A f \in 1..Len(emitted) :
             Before(file, emitted, f, n) /\ Ends(emitted, f) => \E i \in 1..Len(out) : Last(out[i]) = f
    BY <1>1, <1>3 DEF LogInv, ReaderInPlace
  <2>2. PICK b, e : b = file /\ e = emitted
    OBVIOUS
  <2>3. /\ b \in Seq(Nat \X Nat) /\ e \in Seq(Piece) /\ Layout(b, e) /\ Aligned(b, e)
        /\ InPlace(b, e, n) /\ m = Len(b)
    BY <2>1, <2>2, ReaderFacts
  <2>4. \A f \in 1..Len(e) : Before(b, e, f, m) => Before(b, e, f, n)
    <3>1. CASE InBuffer < HeaderSize
      <4>1. m < n + HeaderSize
        BY <1>3, <1>4, <3>1, ReaderFacts DEF InBuffer
      <4> QED
        BY <2>3, <4>1, NothingSkipped
    <3>2. CASE InBuffer >= HeaderSize
      <4>1. PICK g \in 1..Len(emitted) :
           /\ HeaderAt = g /\ PhysicalSize = Size(emitted, g)
           /\ \A k \in 1..Size(emitted, g) : buffer.from + k <= Len(file) =>
                Of(file, buffer.from + k) = g /\ Nth(file, buffer.from + k) = k
        BY <1>1, <3>2, HeaderFound
      <4>2. PICK s \in Nat : s = Size(e, g)
        BY <2>2, <2>3, <4>1, PieceSize
      <4>3. \A k \in 1..s : n + k <= m => Of(b, n + k) = g /\ Nth(b, n + k) = k
        BY <1>3, <2>2, <2>3, <4>1, <4>2
      <4>4. s > m - n
        <5>1. g # 0 /\ ~(PhysicalSize <= InBuffer)
          BY <1>1, <3>2, <4>1 DEF Complete
        <5> QED
          BY <1>3, <1>4, <2>2, <4>1, <4>2, <5>1 DEF InBuffer
      <4>5. ASSUME NEW f \in 1..Len(e), NEW p \in 1..m, EndsAt(b, e, f, p), p > n PROVE FALSE
        <5>1. PICK k \in 1..s : p = n + k /\ k < s
          <6>1. p - n \in 1..s /\ p = n + (p - n) /\ p - n < s
            BY <1>4, <4>4, <4>5
          <6> QED
            BY <6>1
        <5>2. Of(b, p) = g /\ Nth(b, p) = k
          BY <4>3, <5>1
        <5>3. f = g /\ k = s
          BY <4>2, <4>5, <5>2 DEF EndsAt
        <5> QED
          BY <5>1, <5>3
      <4>6. ASSUME NEW f \in 1..Len(e), Before(b, e, f, m) PROVE Before(b, e, f, n)
        <5>1. PICK p \in 1..m : EndsAt(b, e, f, p)
          BY <4>6 DEF Before
        <5>2. p \in 1..n
          BY <4>5, <5>1
        <5> QED
          BY <5>1, <5>2 DEF Before
      <4> QED
        BY <4>6
    <3>3. InBuffer < HeaderSize \/ InBuffer >= HeaderSize
      BY <1>3, ReaderFacts DEF InBuffer
    <3> QED
      BY <3>1, <3>2, <3>3
  <2>5. \A f \in 1..Len(emitted) :
             Before(file, emitted, f, m) /\ Ends(emitted, f) => \E i \in 1..Len(out) : Last(out[i]) = f
    BY <2>1, <2>2, <2>4
  <2> QED
    BY <1>1, <1>2, <1>5, <2>1, <2>5 DEF ReaderInPlace
<1>9. /\ buffer'.from <= buffer'.to /\ buffer'.to <= Len(file) /\ eof' \in BOOLEAN
      /\ reported' \in BOOLEAN /\ scratch' \in Seq(Nat) /\ out' \in Seq(Seq(Nat))
  BY <1>2, <1>3, <1>4, <1>5, ReaderFacts
<1> QED
  BY <1>1, <1>2, <1>5, <1>6, <1>7, <1>8, <1>9, ReadStep

(* BadRecord does not happen unless a write has failed.                    *)
LEMMA BadRecordStep ==
  ASSUME LogInv, BadRecord
  PROVE  LogInv'
<1>1. /\ phase = "reading" /\ InBuffer >= HeaderSize /\ (Complete => ~ChecksumFits)
      /\ (HeaderAt # 0 /\ ~Complete => ~eof)
  BY DEF BadRecord
<1>2. /\ buffer' = [buffer EXCEPT !.from = buffer.to] /\ scratch' = <<>>
      /\ UNCHANGED <<writer, died>> /\ phase' = phase /\ eof' = eof /\ out' = out
      /\ file' = file /\ emitted' = emitted /\ failures' = failures
  BY DEF BadRecord, writer
<1>3. reported' \in BOOLEAN
  BY ReaderFacts DEF BadRecord
<1>4. PICK n, m, len \in Nat : n = buffer.from /\ m = buffer.to /\ len = Len(file)
  BY ReaderFacts
<1>5. n <= m /\ m <= len
  BY <1>4, ReaderFacts
<1>6. buffer' \in [from : Nat, to : Nat] /\ buffer'.from = m /\ buffer'.to = m
  BY <1>2, <1>4, ReaderFacts
<1>7. Returns'
  BY <1>2, <1>4, <1>5, <1>6, ReturnsOn
<1>8. PuttingTogether'
  BY <1>2 DEF PuttingTogether
<1>9. ReaderInPlace'
  <2>1. failures # 0
    <3> SUFFICES ASSUME failures = 0 PROVE FALSE
      OBVIOUS
    <3>1. PICK g \in 1..Len(emitted) :
           /\ HeaderAt = g /\ (Complete => ChecksumFits) /\ (~eof => Complete)
      BY <1>1, HeaderFound
    <3>2. g # 0
      OBVIOUS
    <3> QED
      BY <1>1, <3>1, <3>2
  <2> QED
    BY <1>2, <2>1 DEF ReaderInPlace
<1>10. /\ buffer'.from <= buffer'.to /\ buffer'.to <= Len(file) /\ eof' \in BOOLEAN
       /\ scratch' \in Seq(Nat) /\ out' \in Seq(Seq(Nat)) /\ phase' \in {"reading", "read"}
  BY <1>1, <1>2, <1>4, <1>5, <1>6, ReaderFacts
<1> QED
  BY <1>1, <1>2, <1>3, <1>6, <1>7, <1>8, <1>9, <1>10, ReadStep

(* One more run is returned.                                               *)
LEMMA ReturnsMore ==
  ASSUME LogInv, UNCHANGED writer, NEW s \in Seq(Nat), out' = Append(out, s),
         buffer.from \in Nat, buffer'.from \in Nat, buffer.from <= buffer'.from,
         Run(emitted, s), Ends(emitted, Last(s)), Before(file, emitted, Last(s), buffer'.from),
         \A i \in 1..Len(out) : Last(out[i]) < s[1]
  PROVE  Returns' /\ out' \in Seq(Seq(Nat))
<1>1. /\ file' = file /\ emitted' = emitted /\ out \in Seq(Seq(Nat)) /\ Len(out) \in Nat
      /\ \A i \in 1..Len(out) :
           /\ Run(emitted, out[i]) /\ Ends(emitted, Last(out[i]))
           /\ Before(file, emitted, Last(out[i]), buffer.from)
      /\ \A i, j \in 1..Len(out) : i < j => Last(out[i]) < out[j][1]
  BY ReaderFacts DEF LogInv, Reading, Returns, writer
<1>2. /\ out' \in Seq(Seq(Nat)) /\ Len(out') = Len(out) + 1 /\ out'[Len(out) + 1] = s
      /\ \A i \in 1..Len(out) : out'[i] = out[i]
  BY <1>1
<1>3. \A i \in 1..Len(out) : Before(file, emitted, Last(out[i]), buffer'.from)
  <2>1. PICK m, n \in Nat : m = buffer.from /\ n = buffer'.from /\ m <= n
    OBVIOUS
  <2>2. \A i \in 1..Len(out) : Before(file, emitted, Last(out[i]), m)
    BY <1>1, <2>1
  <2>3. \A i \in 1..Len(out) : Before(file, emitted, Last(out[i]), n)
    BY <2>1, <2>2, BeforeOn
  <2> QED
    BY <2>1, <2>3
<1>4. ASSUME NEW i \in 1..Len(out')
      PROVE  /\ Run(emitted, out'[i]) /\ Ends(emitted, Last(out'[i]))
             /\ Before(file, emitted, Last(out'[i]), buffer'.from)
  <2>1. CASE i \in 1..Len(out)
    BY <1>1, <1>2, <1>3, <2>1
  <2>2. CASE i = Len(out) + 1
    BY <1>2, <2>2
  <2> QED
    BY <1>1, <1>2, <2>1, <2>2
<1>5. ASSUME NEW i \in 1..Len(out'), NEW j \in 1..Len(out'), i < j
      PROVE  Last(out'[i]) < out'[j][1]
  <2>1. i \in 1..Len(out)
    BY <1>1, <1>2, <1>5
  <2>2. CASE j \in 1..Len(out)
    BY <1>1, <1>2, <1>5, <2>1, <2>2
  <2>3. CASE j = Len(out) + 1
    BY <1>2, <2>1, <2>3
  <2> QED
    BY <1>1, <1>2, <2>2, <2>3
<1> QED
  BY <1>1, <1>2, <1>4, <1>5 DEF Returns

(* Behind what it has returned the reader is in place, if what it does     *)
(* with that fragment misses nothing.                                      *)
LEMMA Stands ==
  ASSUME LogInv, NEW type, Returned(type), NEW g \in 1..Len(emitted),
         buffer' \in [from : Nat, to : Nat], buffer.from <= buffer'.from, buffer'.to = buffer.to,
         EndsAt(file, emitted, g, buffer'.from),
         \A f \in 1..Len(emitted) : Before(file, emitted, f, buffer'.from) =>
                f = g \/ Before(file, emitted, f, buffer.from),
         failures = 0 =>
           /\ ~reported'
           /\ \A f \in 1..Len(emitted) :
                (f = g \/ Before(file, emitted, f, buffer.from)) /\ ~Ends(emitted, f) =>
                  \/ scratch' # <<>> /\ Last(scratch') = f
                  \/ f + 1 \in 1..Len(emitted) /\
                     (f + 1 = g \/ Before(file, emitted, f + 1, buffer.from))
           /\ \A f \in 1..Len(emitted) :
                (f = g \/ Before(file, emitted, f, buffer.from)) /\ Ends(emitted, f) =>
                  \E i \in 1..Len(out') : Last(out'[i]) = f
  PROVE  ReaderInPlace'
<1>1. /\ file' = file /\ emitted' = emitted /\ failures' = failures /\ phase' = phase /\ eof' = eof
      /\ phase = "reading"
  BY DEF Returned, writer
<1> SUFFICES ASSUME failures = 0 PROVE ReaderInPlace'
  BY <1>1 DEF ReaderInPlace
<1>2. /\ IF eof THEN buffer.to = Len(file) ELSE buffer.to \in Boundaries
      /\ buffer.to > 0 => \E c \in Boundaries : c <= buffer.from /\ buffer.to <= c + BlockSize
  BY <1>1 DEF LogInv, ReaderInPlace
<1>3. PICK n, m \in Nat : n = buffer.from /\ m = buffer'.from /\ n <= m
  BY ReaderFacts
<1>4. InPlace(file, emitted, m)
  BY <1>3 DEF InPlace
<1>5. buffer.to > 0 => \E c \in Boundaries : c <= m /\ buffer.to <= c + BlockSize
  <2> SUFFICES ASSUME buffer.to > 0 PROVE \E c \in Boundaries : c <= m /\ buffer.to <= c + BlockSize
    OBVIOUS
  <2>1. PICK c \in Boundaries : c <= n /\ buffer.to <= c + BlockSize
    BY <1>2, <1>3
  <2>2. c \in Nat
    BY Blocks
  <2>3. c <= m
    BY <1>3, <2>1, <2>2
  <2> QED
    BY <2>1, <2>3
<1>6. \A f \in 1..Len(emitted) : f = g \/ Before(file, emitted, f, n) => Before(file, emitted, f, m)
  <2>1. m \in 1..m
    BY <1>3 DEF EndsAt
  <2>2. Before(file, emitted, g, m)
    BY <1>3, <2>1 DEF Before
  <2> QED
    BY <1>3, <2>2, BeforeOn
<1>7. ASSUME NEW f \in 1..Len(emitted), Before(file, emitted, f, m), ~Ends(emitted, f)
      PROVE  \/ scratch' # <<>> /\ Last(scratch') = f
             \/ f + 1 \in 1..Len(emitted) /\ Before(file, emitted, f + 1, m)
  BY <1>3, <1>6, <1>7
<1>8. ASSUME NEW f \in 1..Len(emitted), Before(file, emitted, f, m), Ends(emitted, f)
      PROVE  \E i \in 1..Len(out') : Last(out'[i]) = f
  BY <1>3, <1>8
<1> QED
  BY <1>1, <1>2, <1>3, <1>4, <1>5, <1>7, <1>8 DEF ReaderInPlace

(* FullRecord returns a record that comes after those returned before; the *)
(* fragments it drops are there only if a write has failed.                *)
LEMMA FullRecordStep ==
  ASSUME LogInv, FullRecord
  PROVE  LogInv'
<1>1. /\ Returned("full") /\ reported' = (reported \/ LeavesPartial)
      /\ out' = Append(out, <<HeaderAt>>) /\ scratch' = <<>>
  BY DEF FullRecord
<1>2. phase = "reading" /\ phase' = phase /\ eof' = eof /\ UNCHANGED <<writer, died>> /\ UNCHANGED writer
  BY <1>1 DEF Returned
<1>3. PICK g \in 1..Len(emitted) :
           /\ g = HeaderAt /\ emitted[g].type = "full"
           /\ buffer' \in [from : Nat, to : Nat] /\ buffer.from <= buffer'.from
           /\ buffer'.from <= buffer'.to /\ buffer'.to = buffer.to
           /\ EndsAt(file, emitted, g, buffer'.from)
           /\ \A f \in 1..Len(emitted) : Before(file, emitted, f, buffer.from) => f < g
           /\ \A f \in 1..Len(emitted) : Before(file, emitted, f, buffer'.from) =>
                f = g \/ Before(file, emitted, f, buffer.from)
           /\ \A i \in 1..Len(out) : Last(out[i]) < g
           /\ failures = 0 => (scratch = <<>> <=> Begins(emitted, g))
  BY <1>1, Gets
<1>4. Begins(emitted, g) /\ Ends(emitted, g)
  BY <1>3 DEF Begins, Ends
<1>5. PICK s \in Seq(Nat) : s = <<g>> /\ Run(emitted, s) /\ Last(s) = g /\ s[1] = g
  BY <1>4, RunStarts, ReaderFacts
<1>6. Before(file, emitted, g, buffer'.from)
  <2>1. buffer'.from \in 1..buffer'.from
    BY <1>3 DEF EndsAt
  <2> QED
    BY <1>3, <2>1 DEF Before
<1>7. Returns' /\ out' \in Seq(Seq(Nat))
  <2>1. out' = Append(out, s)
    BY <1>1, <1>3, <1>5
  <2>2. buffer.from \in Nat /\ buffer'.from \in Nat
    BY <1>3, ReaderFacts
  <2> QED
    BY <1>2, <1>3, <1>4, <1>5, <1>6, <2>1, <2>2, ReturnsMore
<1>8. PuttingTogether'
  BY <1>1 DEF PuttingTogether
<1>9. reported' \in BOOLEAN /\ scratch' \in Seq(Nat) /\ buffer'.to <= Len(file) /\ eof' \in BOOLEAN
  BY <1>1, <1>2, <1>3, ReaderFacts
<1>10. /\ Len(out') = Len(out) + 1 /\ Len(out) \in Nat /\ out'[Len(out) + 1] = s
       /\ \A i \in 1..Len(out) : i \in 1..Len(out') /\ out'[i] = out[i]
  <2>1. out \in Seq(Seq(Nat)) /\ out' = Append(out, s)
    BY <1>1, <1>3, <1>5, ReaderFacts
  <2> QED
    BY <2>1
<1>11. ASSUME failures = 0
       PROVE /\ ~reported'
             /\ \A f \in 1..Len(emitted) :
                (f = g \/ Before(file, emitted, f, buffer.from)) /\ ~Ends(emitted, f) =>
                  \/ scratch' # <<>> /\ Last(scratch') = f
                  \/ f + 1 \in 1..Len(emitted) /\
                     (f + 1 = g \/ Before(file, emitted, f + 1, buffer.from))
             /\ \A f \in 1..Len(emitted) :
                (f = g \/ Before(file, emitted, f, buffer.from)) /\ Ends(emitted, f) =>
                  \E i \in 1..Len(out') : Last(out'[i]) = f
  <2>1. /\ scratch = <<>> /\ ~reported
        /\ \A f \in 1..Len(emitted) :
              Before(file, emitted, f, buffer.from) /\ ~Ends(emitted, f) =>
                \/ scratch # <<>> /\ Last(scratch) = f
                \/ f + 1 \in 1..Len(emitted) /\ Before(file, emitted, f + 1, buffer.from)
        /\ \A f \in 1..Len(emitted) :
             Before(file, emitted, f, buffer.from) /\ Ends(emitted, f) =>
               \E i \in 1..Len(out) : Last(out[i]) = f
    BY <1>2, <1>3, <1>4, <1>11 DEF LogInv, ReaderInPlace
  <2>2. ~LeavesPartial
    BY <2>1 DEF LeavesPartial
  <2>3. Len(out) + 1 \in 1..Len(out') /\ Last(out'[Len(out) + 1]) = g
    BY <1>5, <1>10
  <2>4. ASSUME NEW f \in 1..Len(emitted), f = g \/ Before(file, emitted, f, buffer.from), Ends(emitted, f)
        PROVE  \E i \in 1..Len(out') : Last(out'[i]) = f
    BY <1>10, <2>1, <2>3, <2>4
  <2> QED
    BY <1>1, <1>4, <2>1, <2>2, <2>4
<1>12. ReaderInPlace'
  BY <1>1, <1>3, <1>11, Stands
<1> QED
  BY <1>2, <1>3, <1>7, <1>8, <1>9, <1>12, ReadStep

(* FirstFragment starts to put a record together.                          *)
LEMMA FirstFragmentStep ==
  ASSUME LogInv, FirstFragment
  PROVE  LogInv'
<1>1. /\ Returned("first") /\ reported' = (reported \/ LeavesPartial)
      /\ out' = out /\ scratch' = <<HeaderAt>>
  BY DEF FirstFragment
<1>2. /\ phase = "reading" /\ phase' = phase /\ eof' = eof /\ UNCHANGED <<writer, died>>
      /\ UNCHANGED writer /\ file' = file /\ emitted' = emitted
  BY <1>1 DEF Returned, writer
<1>3. PICK g \in 1..Len(emitted) :
           /\ g = HeaderAt /\ emitted[g].type = "first"
           /\ buffer' \in [from : Nat, to : Nat] /\ buffer.from <= buffer'.from
           /\ buffer'.from <= buffer'.to /\ buffer'.to = buffer.to
           /\ EndsAt(file, emitted, g, buffer'.from)
           /\ \A f \in 1..Len(emitted) : Before(file, emitted, f, buffer'.from) =>
                f = g \/ Before(file, emitted, f, buffer.from)
           /\ \A i \in 1..Len(out) : Last(out[i]) < g
           /\ failures = 0 => (scratch = <<>> <=> Begins(emitted, g))
  BY <1>1, Gets
<1>4. Begins(emitted, g) /\ ~Ends(emitted, g)
  BY <1>3 DEF Begins, Ends
<1>5. scratch' \in Seq(Nat) /\ Run(emitted, scratch') /\ Last(scratch') = g /\ scratch'[1] = g
      /\ scratch' # <<>>
  BY <1>1, <1>3, <1>4, RunStarts, ReaderFacts
<1>6. buffer'.from \in 1..buffer'.from /\ buffer'.from \in Nat /\ buffer'.from < buffer'.from + HeaderSize
  <2>1. buffer'.from \in 1..Len(file) /\ HeaderSize \in Nat /\ HeaderSize > 0
    BY <1>3, ReaderFacts DEF EndsAt
  <2>2. PICK m \in Nat : m = buffer'.from /\ m > 0
    BY <2>1
  <2> QED
    BY <2>1, <2>2
<1>7. Returns'
  BY <1>1, <1>2, <1>3, <1>6, ReaderFacts, ReturnsOn
<1>8. PuttingTogether'
  BY <1>1, <1>2, <1>3, <1>4, <1>5, <1>6 DEF PuttingTogether
<1>9. reported' \in BOOLEAN /\ out' \in Seq(Seq(Nat)) /\ buffer'.to <= Len(file) /\ eof' \in BOOLEAN
  BY <1>1, <1>2, <1>3, ReaderFacts
<1>11. ASSUME failures = 0
       PROVE /\ ~reported'
             /\ \A f \in 1..Len(emitted) :
                (f = g \/ Before(file, emitted, f, buffer.from)) /\ ~Ends(emitted, f) =>
                  \/ scratch' # <<>> /\ Last(scratch') = f
                  \/ f + 1 \in 1..Len(emitted) /\
                     (f + 1 = g \/ Before(file, emitted, f + 1, buffer.from))
             /\ \A f \in 1..Len(emitted) :
                (f = g \/ Before(file, emitted, f, buffer.from)) /\ Ends(emitted, f) =>
                  \E i \in 1..Len(out') : Last(out'[i]) = f
  <2>1. /\ scratch = <<>> /\ ~reported
        /\ \A f \in 1..Len(emitted) :
              Before(file, emitted, f, buffer.from) /\ ~Ends(emitted, f) =>
                \/ scratch # <<>> /\ Last(scratch) = f
                \/ f + 1 \in 1..Len(emitted) /\ Before(file, emitted, f + 1, buffer.from)
        /\ \A f \in 1..Len(emitted) :
             Before(file, emitted, f, buffer.from) /\ Ends(emitted, f) =>
               \E i \in 1..Len(out) : Last(out[i]) = f
    BY <1>2, <1>3, <1>4, <1>11 DEF LogInv, ReaderInPlace
  <2>2. ~LeavesPartial
    BY <2>1 DEF LeavesPartial
  <2> QED
    BY <1>1, <1>4, <1>5, <2>1, <2>2
<1>12. ReaderInPlace'
  BY <1>1, <1>3, <1>11, Stands
<1> QED
  BY <1>2, <1>3, <1>5, <1>7, <1>8, <1>9, <1>12, ReadStep

(* MiddleFragment goes on with the record whose fragment was the last one. *)
LEMMA MiddleFragmentStep ==
  ASSUME LogInv, MiddleFragment
  PROVE  LogInv'
<1>1. /\ Returned("middle") /\ out' = out
      /\ scratch = <<>> => reported' = TRUE /\ scratch' = scratch
      /\ scratch # <<>> => scratch' = Append(scratch, HeaderAt) /\ reported' = reported
  BY DEF MiddleFragment
<1>2. /\ phase = "reading" /\ phase' = phase /\ eof' = eof /\ UNCHANGED <<writer, died>>
      /\ UNCHANGED writer /\ file' = file /\ emitted' = emitted
  BY <1>1 DEF Returned, writer
<1>3. PICK g \in 1..Len(emitted) :
           /\ g = HeaderAt /\ emitted[g].type = "middle"
           /\ buffer' \in [from : Nat, to : Nat] /\ buffer.from <= buffer'.from
           /\ buffer'.from <= buffer'.to /\ buffer'.to = buffer.to
           /\ EndsAt(file, emitted, g, buffer'.from)
           /\ \A f \in 1..Len(emitted) : Before(file, emitted, f, buffer'.from) =>
                f = g \/ Before(file, emitted, f, buffer.from)
           /\ scratch # <<>> /\ ~Begins(emitted, g) => g = Last(scratch) + 1
           /\ failures = 0 => (scratch = <<>> <=> Begins(emitted, g))
  BY <1>1, Gets
<1>4. ~Begins(emitted, g) /\ ~Ends(emitted, g)
  BY <1>3 DEF Begins, Ends
<1>5. ASSUME scratch # <<>>
      PROVE  /\ scratch' \in Seq(Nat) /\ Run(emitted, scratch') /\ Last(scratch') = g
             /\ scratch'[1] = scratch[1] /\ scratch' # <<>> /\ g = Last(scratch) + 1
             /\ \A i \in 1..Len(out) : Last(out[i]) < scratch[1]
  <2>1. Run(emitted, scratch) /\ \A i \in 1..Len(out) : Last(out[i]) < scratch[1]
    BY <1>5 DEF LogInv, Reading, PuttingTogether
  <2>2. Numbered(emitted)
    BY DEF LogInv, Writing
  <2>3. PICK e, s, t : e = emitted /\ s = scratch /\ t = scratch'
    OBVIOUS
  <2>4. /\ e \in Seq(Piece) /\ Numbered(e) /\ s \in Seq(Nat) /\ Run(e, s) /\ g \in 1..Len(e)
        /\ g = Last(s) + 1 /\ ~Begins(e, g) /\ t = Append(s, g)
    BY <1>1, <1>3, <1>4, <1>5, <2>1, <2>2, <2>3, ReaderFacts
  <2>5. Run(e, t) /\ Last(t) = g /\ t[1] = s[1] /\ t \in Seq(Nat)
    BY <2>4, RunGoesOn
  <2>6. t # <<>>
    BY <2>4
  <2> QED
    BY <2>1, <2>3, <2>4, <2>5, <2>6
<1>6. buffer'.from \in 1..buffer'.from /\ buffer'.from \in Nat /\ buffer'.from < buffer'.from + HeaderSize
  <2>1. buffer'.from \in 1..Len(file) /\ HeaderSize \in Nat /\ HeaderSize > 0
    BY <1>3, ReaderFacts DEF EndsAt
  <2>2. PICK m \in Nat : m = buffer'.from /\ m > 0
    BY <2>1
  <2> QED
    BY <2>1, <2>2
<1>7. Returns'
  BY <1>1, <1>2, <1>3, <1>6, ReaderFacts, ReturnsOn
<1>8. PuttingTogether'
  <2>1. CASE scratch = <<>>
    BY <1>1, <2>1 DEF PuttingTogether
  <2>2. CASE scratch # <<>>
    BY <1>1, <1>2, <1>3, <1>4, <1>5, <1>6, <2>2 DEF PuttingTogether
  <2> QED
    BY <2>1, <2>2
<1>9. /\ reported' \in BOOLEAN /\ out' \in Seq(Seq(Nat)) /\ buffer'.to <= Len(file)
      /\ eof' \in BOOLEAN /\ scratch' \in Seq(Nat)
  BY <1>1, <1>2, <1>3, <1>5, ReaderFacts
<1>11. ASSUME failures = 0
       PROVE /\ ~reported'
             /\ \A f \in 1..Len(emitted) :
                (f = g \/ Before(file, emitted, f, buffer.from)) /\ ~Ends(emitted, f) =>
                  \/ scratch' # <<>> /\ Last(scratch') = f
                  \/ f + 1 \in 1..Len(emitted) /\
                     (f + 1 = g \/ Before(file, emitted, f + 1, buffer.from))
             /\ \A f \in 1..Len(emitted) :
                (f = g \/ Before(file, emitted, f, buffer.from)) /\ Ends(emitted, f) =>
                  \E i \in 1..Len(out') : Last(out'[i]) = f
  <2>1. /\ scratch # <<>> /\ ~reported
        /\ \A f \in 1..Len(emitted) :
              Before(file, emitted, f, buffer.from) /\ ~Ends(emitted, f) =>
                \/ scratch # <<>> /\ Last(scratch) = f
                \/ f + 1 \in 1..Len(emitted) /\ Before(file, emitted, f + 1, buffer.from)
        /\ \A f \in 1..Len(emitted) :
             Before(file, emitted, f, buffer.from) /\ Ends(emitted, f) =>
               \E i \in 1..Len(out) : Last(out[i]) = f
    BY <1>2, <1>3, <1>4, <1>11 DEF LogInv, ReaderInPlace
  <2> QED
    BY <1>1, <1>4, <1>5, <2>1
<1>12. ReaderInPlace'
  BY <1>1, <1>3, <1>11, Stands
<1> QED
  BY <1>2, <1>3, <1>7, <1>8, <1>9, <1>12, ReadStep

(* LastFragment returns the record that is whole with it.                  *)
LEMMA LastFragmentStep ==
  ASSUME LogInv, LastFragment
  PROVE  LogInv'
<1>1. /\ Returned("last") /\ scratch' = <<>>
      /\ scratch = <<>> => reported' = TRUE /\ out' = out
      /\ scratch # <<>> => out' = Append(out, Append(scratch, HeaderAt)) /\ reported' = reported
  BY DEF LastFragment
<1>2. /\ phase = "reading" /\ phase' = phase /\ eof' = eof /\ UNCHANGED <<writer, died>>
      /\ UNCHANGED writer /\ file' = file /\ emitted' = emitted
  BY <1>1 DEF Returned, writer
<1>3. PICK g \in 1..Len(emitted) :
           /\ g = HeaderAt /\ emitted[g].type = "last"
           /\ buffer' \in [from : Nat, to : Nat] /\ buffer.from <= buffer'.from
           /\ buffer'.from <= buffer'.to /\ buffer'.to = buffer.to
           /\ EndsAt(file, emitted, g, buffer'.from)
           /\ \A f \in 1..Len(emitted) : Before(file, emitted, f, buffer'.from) =>
                f = g \/ Before(file, emitted, f, buffer.from)
           /\ scratch # <<>> /\ ~Begins(emitted, g) => g = Last(scratch) + 1
           /\ failures = 0 => (scratch = <<>> <=> Begins(emitted, g))
  BY <1>1, Gets
<1>4. ~Begins(emitted, g) /\ Ends(emitted, g)
  BY <1>3 DEF Begins, Ends
<1>5. buffer.from \in Nat /\ buffer'.from \in Nat
  BY <1>3, ReaderFacts
<1>6. Before(file, emitted, g, buffer'.from)
  <2>1. buffer'.from \in 1..buffer'.from
    BY <1>3 DEF EndsAt
  <2> QED
    BY <1>3, <2>1 DEF Before
<1>7. ASSUME scratch # <<>>
      PROVE  /\ Returns' /\ out' \in Seq(Seq(Nat))
             /\ \E i \in 1..Len(out') : Last(out'[i]) = g
             /\ \A i \in 1..Len(out) : i \in 1..Len(out') /\ out'[i] = out[i]
             /\ g = Last(scratch) + 1
  <2>1. Run(emitted, scratch) /\ \A i \in 1..Len(out) : Last(out[i]) < scratch[1]
    BY <1>7 DEF LogInv, Reading, PuttingTogether
  <2>2. Numbered(emitted)
    BY DEF LogInv, Writing
  <2>3. PICK e, s, t : e = emitted /\ s = scratch /\ t = Append(scratch, g)
    OBVIOUS
  <2>4. /\ e \in Seq(Piece) /\ Numbered(e) /\ s \in Seq(Nat) /\ Run(e, s) /\ g \in 1..Len(e)
        /\ g = Last(s) + 1 /\ ~Begins(e, g) /\ t = Append(s, g)
    BY <1>1, <1>3, <1>4, <1>7, <2>1, <2>2, <2>3, ReaderFacts
  <2>5. Run(e, t) /\ Last(t) = g /\ t[1] = s[1] /\ t \in Seq(Nat)
    BY <2>4, RunGoesOn
  <2>6. out' = Append(out, t)
    BY <1>1, <1>3, <1>7, <2>3
  <2>7. Run(emitted, t) /\ Ends(emitted, Last(t)) /\ Before(file, emitted, Last(t), buffer'.from)
        /\ \A i \in 1..Len(out) : Last(out[i]) < t[1]
    BY <1>4, <1>6, <2>1, <2>3, <2>5
  <2>8. Returns' /\ out' \in Seq(Seq(Nat))
    BY <1>2, <1>3, <1>5, <2>5, <2>6, <2>7, ReturnsMore
  <2>9. /\ Len(out') = Len(out) + 1 /\ Len(out) \in Nat /\ out'[Len(out) + 1] = t
        /\ \A i \in 1..Len(out) : i \in 1..Len(out') /\ out'[i] = out[i]
    <3>1. out \in Seq(Seq(Nat))
      BY ReaderFacts
    <3> QED
      BY <2>5, <2>6, <3>1
  <2>10. Len(out) + 1 \in 1..Len(out')
    BY <2>9
  <2> QED
    BY <2>3, <2>4, <2>5, <2>8, <2>9, <2>10
<1>8. Returns' /\ out' \in Seq(Seq(Nat))
  <2>1. CASE scratch = <<>>
    BY <1>1, <1>2, <1>3, <1>5, <2>1, ReaderFacts, ReturnsOn
  <2> QED
    BY <1>7, <2>1
<1>9. PuttingTogether'
  BY <1>1 DEF PuttingTogether
<1>10. reported' \in BOOLEAN /\ buffer'.to <= Len(file) /\ eof' \in BOOLEAN /\ scratch' \in Seq(Nat)
  <2>1. scratch' \in Seq(Nat)
    BY <1>1
  <2>2. reported' \in BOOLEAN
    BY <1>1, ReaderFacts
  <2> QED
    BY <1>2, <1>3, <2>1, <2>2, ReaderFacts
<1>11. ASSUME failures = 0
       PROVE /\ ~reported'
             /\ \A f \in 1..Len(emitted) :
                (f = g \/ Before(file, emitted, f, buffer.from)) /\ ~Ends(emitted, f) =>
                  \/ scratch' # <<>> /\ Last(scratch') = f
                  \/ f + 1 \in 1..Len(emitted) /\
                     (f + 1 = g \/ Before(file, emitted, f + 1, buffer.from))
             /\ \A f \in 1..Len(emitted) :
                (f = g \/ Before(file, emitted, f, buffer.from)) /\ Ends(emitted, f) =>
                  \E i \in 1..Len(out') : Last(out'[i]) = f
  <2>1. /\ scratch # <<>> /\ ~reported
        /\ \A f \in 1..Len(emitted) :
              Before(file, emitted, f, buffer.from) /\ ~Ends(emitted, f) =>
                \/ scratch # <<>> /\ Last(scratch) = f
                \/ f + 1 \in 1..Len(emitted) /\ Before(file, emitted, f + 1, buffer.from)
        /\ \A f \in 1..Len(emitted) :
             Before(file, emitted, f, buffer.from) /\ Ends(emitted, f) =>
               \E i \in 1..Len(out) : Last(out[i]) = f
    BY <1>2, <1>3, <1>4, <1>11 DEF LogInv, ReaderInPlace
  <2>2. ASSUME NEW f \in 1..Len(emitted), f = g \/ Before(file, emitted, f, buffer.from), Ends(emitted, f)
        PROVE  \E i \in 1..Len(out') : Last(out'[i]) = f
    BY <1>7, <2>1, <2>2
  <2>3. ASSUME NEW f \in 1..Len(emitted), f = g \/ Before(file, emitted, f, buffer.from), ~Ends(emitted, f)
        PROVE  f + 1 \in 1..Len(emitted) /\ (f + 1 = g \/ Before(file, emitted, f + 1, buffer.from))
    <3>1. f # g
      BY <1>4, <2>3
    <3>2. \/ Last(scratch) = f
          \/ f + 1 \in 1..Len(emitted) /\ Before(file, emitted, f + 1, buffer.from)
      BY <2>1, <2>3, <3>1
    <3> QED
      BY <1>7, <2>1, <3>2
  <2> QED
    BY <1>1, <2>1, <2>2, <2>3
<1>12. ReaderInPlace'
  BY <1>1, <1>3, <1>11, Stands
<1> QED
  BY <1>2, <1>3, <1>8, <1>9, <1>10, <1>12, ReadStep

-----------------------------------------------------------------------------
(***************************************************************************)
(* The invariant and what follows from it.                                 *)
(***************************************************************************)

(* While the writer is at work, and when it stops, nothing has been read.  *)
LEMMA NotYetRead ==
  ASSUME LogInv, phase = "writing", UNCHANGED reader, phase' \in {"writing", "reading"},
         WriterInv'
  PROVE  LogInv'
<1>1. /\ buffer' = [from |-> 0, to |-> 0] /\ ~eof' /\ scratch' = <<>> /\ out' = <<>> /\ ~reported'
  BY DEF LogInv, Reading, NotBegun, reader
<1>2. buffer'.from = 0 /\ buffer'.to = 0
  BY <1>1
<1>3. \A f : ~Before(file', emitted', f, 0)
  BY DEF Before
<1>4. Reading'
  BY <1>1 DEF Reading, NotBegun, Returns, PuttingTogether
<1>5. InPlace(file', emitted', 0)
  BY Blocks DEF InPlace
<1>6. ReaderInPlace'
  <2>1. 0 \in Boundaries
    BY Blocks
  <2> QED
    BY <1>1, <1>2, <1>3, <1>5, <2>1 DEF ReaderInPlace
<1> QED
  BY <1>4, <1>6 DEF LogInv, WriterInv

(* LogInv holds of an empty file.                                          *)
LEMMA InitInv ==
  ASSUME Init
  PROVE  LogInv
<1> USE DEF Init
<1>1. /\ file = <<>> /\ Len(file) = 0 /\ emitted = <<>> /\ Len(emitted) = 0 /\ Len(records) = 0
      /\ file \in Seq(Nat \X Nat) /\ emitted \in Seq(Piece) /\ records \in Seq(Status)
      /\ scratch \in Seq(Nat) /\ out \in Seq(Seq(Nat)) /\ Len(out) = 0
  OBVIOUS
<1>2. buffer \in [from : Nat, to : Nat] /\ buffer.from = 0 /\ buffer.to = 0 /\ BlockSize \in Nat
  BY Constants
<1>3. Typed
  <2>1. durable \in 0..Len(file) /\ offset \in 0..BlockSize /\ failures \in Nat
    BY <1>1, <1>2
  <2>2. buffer.from <= buffer.to /\ buffer.to <= Len(file)
    BY <1>1, <1>2
  <2>3. adding = <<>> /\ phase \in {"writing", "reading", "read"} /\ eof \in BOOLEAN /\ reported \in BOOLEAN
    OBVIOUS
  <2> QED
    BY <1>1, <1>2, <2>1, <2>2, <2>3 DEF Typed
<1>4. Numbered(emitted) /\ Layout(file, emitted) /\ Aligned(file, emitted)
  BY <1>1 DEF Numbered, Layout, Aligned
<1>5. InProgress /\ Outcomes
  BY <1>1 DEF InProgress, Outcomes
<1>6. Len(file) - offset = 0 /\ 0 \in Boundaries
  BY <1>1, Blocks
<1>7. WriterInPlace
  BY <1>1, <1>4, <1>6 DEF WriterInPlace
<1>8. Reading
  BY <1>1 DEF Reading, NotBegun, Returns, PuttingTogether
<1>9. ReaderInPlace
  BY <1>1, <1>2 DEF ReaderInPlace
<1> QED
  BY <1>3, <1>4, <1>5, <1>7, <1>8, <1>9 DEF LogInv, Writing

(* Every step of writer, deaths and reader keeps LogInv.                   *)
LEMMA NextInv ==
  ASSUME LogInv, [Next]_vars
  PROVE  LogInv'
<1>1. WriterInv /\ (phase = "writing" => NotBegun)
  BY DEF LogInv, WriterInv, Reading
<1>2. ASSUME NEW size \in Sizes, AddRecord(size) PROVE LogInv'
  <2>1. phase = "writing" /\ phase' = phase /\ UNCHANGED reader
    BY <1>2 DEF AddRecord
  <2> QED
    BY <1>1, <1>2, <2>1, AddRecordStep, NotYetRead
<1>3. CASE EmitPhysicalRecord
  <2>1. phase = "writing" /\ phase' = phase /\ UNCHANGED reader
    BY <1>3 DEF EmitPhysicalRecord
  <2> QED
    BY <1>1, <1>3, <2>1, EmitStep, NotYetRead
<1>4. CASE Sync
  <2>1. phase = "writing" /\ phase' = phase /\ UNCHANGED reader
    BY <1>4 DEF Sync
  <2> QED
    BY <1>1, <1>4, <2>1, SyncStep, NotYetRead
<1>5. CASE ProcessDies
  <2>1. phase = "writing" /\ phase' = "reading" /\ UNCHANGED reader
    BY <1>5 DEF ProcessDies
  <2> QED
    BY <1>1, <1>5, <2>1, ProcessDiesStep, NotYetRead
<1>6. CASE MachineDies
  <2>1. phase = "writing" /\ phase' = "reading" /\ UNCHANGED reader
    BY <1>6 DEF MachineDies
  <2> QED
    BY <1>1, <1>6, <2>1, MachineDiesStep, NotYetRead
<1>7. CASE Read
  BY <1>7, ReadBlockStep, EndOfFileStep, BadRecordStep, FullRecordStep, FirstFragmentStep,
     MiddleFragmentStep, LastFragmentStep DEF Read
<1>8. CASE UNCHANGED vars
  BY <1>8 DEF vars, writer, reader, LogInv, Writing, Typed, InProgress, Outcomes, Kept,
     WriterInPlace, Reading, NotBegun, Returns, PuttingTogether, ReaderInPlace
<1> QED
  BY <1>2, <1>3, <1>4, <1>5, <1>6, <1>7, <1>8 DEF Next

(* LogInv is inductive.                                                    *)
THEOREM LogInvariant == Spec => []LogInv
<1>1. Init => LogInv
  BY InitInv
<1>2. LogInv /\ [Next]_vars => LogInv'
  BY NextInv
<1> QED
  BY <1>1, <1>2, PTL DEF Spec

(* The fragments of a run that begins and ends a record are all of it.     *)
LEMMA WholeRecord ==
  ASSUME NEW e \in Seq(Piece), Numbered(e), NEW s \in Seq(Nat), Run(e, s), Ends(e, Last(s))
  PROVE  /\ ToSet(s) = {f \in 1..Len(e) : e[f].rec = e[s[1]].rec}
         /\ \A j, k \in 1..Len(s) : j < k => s[j] < s[k]
<1>1. /\ Last(s) \in 1..Len(e) /\ s[1] \in 1..Len(e) /\ s # <<>>
      /\ e[Last(s)].rec = e[s[1]].rec /\ Last(s) = s[1] + Len(s) - 1 /\ Len(s) \in Nat
  BY RunTyped
<1>2. /\ Begins(e, s[1])
      /\ \A k \in 1..Len(s) :
           s[k] \in 1..Len(e) /\ s[k] = s[1] + k - 1 /\ e[s[k]].rec = e[s[1]].rec
  BY DEF Run
<1>3. \A f \in 1..Len(e) : e[f].rec \in Nat
  BY PieceSize
<1>4. PICK a, z \in 1..Len(e) : a = s[1] /\ z = Last(s)
  BY <1>1
<1>5. ASSUME NEW f \in 1..Len(e), e[f].rec = e[a].rec PROVE f \in ToSet(s)
  <2>1. ~(f < a)
    BY <1>2, <1>3, <1>4, <1>5 DEF Numbered
  <2>2. ~(z < f)
    BY <1>1, <1>3, <1>4, <1>5 DEF Numbered
  <2>3. PICK k \in 1..Len(s) : k = f - a + 1
    BY <1>1, <1>4, <2>1, <2>2
  <2>4. s[k] = f
    BY <1>2, <1>4, <2>3
  <2> QED
    BY <2>4 DEF ToSet
<1>6. ASSUME NEW f \in ToSet(s) PROVE f \in 1..Len(e) /\ e[f].rec = e[a].rec
  <2>1. PICK k \in 1..Len(s) : f = s[k]
    BY <1>6 DEF ToSet
  <2> QED
    BY <1>2, <1>4, <2>1
<1>7. ASSUME NEW j \in 1..Len(s), NEW k \in 1..Len(s), j < k PROVE s[j] < s[k]
  <2>1. s[j] = a + j - 1 /\ s[k] = a + k - 1
    BY <1>2, <1>4
  <2>2. a + j - 1 < a + k - 1
    BY <1>1, <1>7
  <2> QED
    BY <2>1, <2>2
<1> QED
  BY <1>4, <1>5, <1>6, <1>7

(* OnlyRecords follows from LogInv: what is returned is a run that begins  *)
(* and ends its record.                                                    *)
LEMMA OnlyRecordsHold ==
  ASSUME LogInv
  PROVE  OnlyRecords
<1>1. Typed /\ Numbered(emitted) /\ Layout(file, emitted) /\ Outcomes /\ Returns /\ PuttingTogether
  BY DEF LogInv, Writing, Reading
<1>2. /\ file \in Seq(Nat \X Nat) /\ emitted \in Seq(Piece) /\ scratch \in Seq(Nat)
      /\ out \in Seq(Seq(Nat)) /\ Len(file) \in Nat
      /\ buffer.from \in Nat /\ buffer.to \in Nat
      /\ buffer.from <= buffer.to /\ buffer.to <= Len(file)
  BY ReaderFacts
<1>3. TypeOK
  <2>1. ASSUME NEW p \in DOMAIN file PROVE file[p] = <<0, 0>> \/ file[p][1] \in DOMAIN emitted
    <3>1. p \in 1..Len(file) /\ file[p] \in Nat \X Nat
      BY <1>2
    <3>2. CASE Of(file, p) = 0
      <4>1. file[p][1] = 0 /\ file[p][2] = 0
        BY <1>1, <3>1, <3>2 DEF Layout, Of, Nth
      <4>2. PICK x : x = file[p] /\ x \in Nat \X Nat
        BY <3>1
      <4>3. x = <<x[1], x[2]>>
        BY <4>2
      <4> QED
        BY <4>1, <4>2, <4>3
    <3>3. CASE Of(file, p) # 0
      <4>1. Of(file, p) \in 1..Len(emitted)
        BY <1>1, <3>1, <3>3 DEF Layout
      <4> QED
        BY <1>2, <4>1 DEF Of
    <3> QED
      BY <3>2, <3>3
  <2>2. ToSet(scratch) \subseteq DOMAIN emitted
    <3>1. CASE scratch = <<>>
      BY <3>1 DEF ToSet
    <3>2. CASE scratch # <<>>
      <4>1. Run(emitted, scratch)
        BY <1>1, <3>2 DEF PuttingTogether
      <4>2. \A k \in 1..Len(scratch) : scratch[k] \in 1..Len(emitted)
        BY <4>1 DEF Run
      <4>3. DOMAIN scratch = 1..Len(scratch) /\ DOMAIN emitted = 1..Len(emitted)
        BY <1>2
      <4>4. ToSet(scratch) = {scratch[k] : k \in 1..Len(scratch)}
        BY <4>3 DEF ToSet
      <4> QED
        BY <4>2, <4>3, <4>4
    <3> QED
      BY <3>1, <3>2
  <2>3. adding # <<>> => records # <<>>
    BY <1>1 DEF Typed
  <2>4. durable \in 0..Len(file) /\ offset \in 0..BlockSize
    BY <1>1 DEF Typed
  <2> QED
    BY <1>2, <2>1, <2>2, <2>3, <2>4 DEF TypeOK
<1>4. ASSUME NEW i \in 1..Len(out)
      PROVE  /\ out[i] \in Seq(Nat) /\ Run(emitted, out[i]) /\ Ends(emitted, Last(out[i]))
             /\ Before(file, emitted, Last(out[i]), buffer.from)
             /\ Last(out[i]) \in 1..Len(emitted) /\ out[i][1] \in 1..Len(emitted)
             /\ RecordOf(out[i]) = emitted[out[i][1]].rec
             /\ RecordOf(out[i]) = emitted[Last(out[i])].rec
  <2>1. /\ out[i] \in Seq(Nat) /\ Run(emitted, out[i]) /\ Ends(emitted, Last(out[i]))
        /\ Before(file, emitted, Last(out[i]), buffer.from)
    BY <1>1, <1>2 DEF Returns
  <2>2. PICK e, s : e = emitted /\ s = out[i]
    OBVIOUS
  <2>3. /\ Last(s) \in 1..Len(e) /\ s[1] \in 1..Len(e) /\ s # <<>> /\ e[Last(s)].rec = e[s[1]].rec
    BY <1>2, <2>1, <2>2, RunTyped
  <2>4. Head(s) = s[1]
    BY <2>1, <2>2, <2>3
  <2> QED
    BY <2>1, <2>2, <2>3, <2>4 DEF RecordOf
<1>5. ASSUME NEW i \in 1..Len(out)
      PROVE  /\ ToSet(out[i]) = FragmentsOf(RecordOf(out[i]))
             /\ \A j, k \in DOMAIN out[i] : j < k => out[i][j] < out[i][k]
  <2>1. PICK e, s : e = emitted /\ s = out[i]
    OBVIOUS
  <2>2. /\ e \in Seq(Piece) /\ Numbered(e) /\ s \in Seq(Nat) /\ Run(e, s) /\ Ends(e, Last(s))
    BY <1>1, <1>2, <1>4, <2>1
  <2>3. /\ ToSet(s) = {f \in 1..Len(e) : e[f].rec = e[s[1]].rec}
        /\ \A j, k \in 1..Len(s) : j < k => s[j] < s[k]
    BY <2>2, WholeRecord
  <2>4. DOMAIN s = 1..Len(s) /\ DOMAIN e = 1..Len(e)
    BY <2>2
  <2> QED
    BY <1>4, <2>1, <2>3, <2>4 DEF FragmentsOf
<1>6. ASSUME NEW i \in 1..Len(out)
      PROVE  /\ emitted[Last(out[i])].type \in {"full", "last"}
             /\ records[RecordOf(out[i])] # "failed"
  <2>1. PICK p \in 1..buffer.from : EndsAt(file, emitted, Last(out[i]), p)
    BY <1>4 DEF Before
  <2>2. p \in 1..Len(file)
    BY <1>2
  <2> QED
    BY <1>1, <1>4, <2>1, <2>2 DEF Outcomes, Ends
<1>7. ASSUME NEW i \in 1..Len(out), NEW j \in 1..Len(out), i < j
      PROVE  RecordOf(out[i]) < RecordOf(out[j])
  <2>1. Last(out[i]) < out[j][1] /\ Begins(emitted, out[j][1])
    BY <1>1, <1>4, <1>7 DEF Returns, Run
  <2>2. PICK f, g \in 1..Len(emitted) : f = Last(out[i]) /\ g = out[j][1]
    BY <1>4
  <2>3. emitted[f].rec < emitted[g].rec
    BY <1>1, <2>1, <2>2 DEF Numbered
  <2> QED
    BY <1>4, <2>2, <2>3
<1>8. DOMAIN out = 1..Len(out)
  BY <1>2
<1> QED
  BY <1>3, <1>5, <1>6, <1>7, <1>8 DEF OnlyRecords

(* RecordsSurvive follows: a record that has to be there is whole in the   *)
(* file, and the reader, at its end, has returned each that is.            *)
LEMMA RecordsSurviveHold ==
  ASSUME LogInv
  PROVE  RecordsSurvive
<1> SUFFICES ASSUME phase = "read", failures = 0,
                    NEW r \in Having(IF died = "process" THEN {"added", "synced"} ELSE {"synced"})
             PROVE  r \in Survivors
  BY DEF RecordsSurvive
<1>1. /\ records \in Seq(Status) /\ durable \in 0..Len(file) /\ Outcomes /\ Returns
      /\ emitted \in Seq(Piece) /\ Len(file) \in Nat /\ out \in Seq(Seq(Nat))
  BY ReaderFacts DEF LogInv, Writing, Reading, Typed
<1>2. r \in 1..Len(records) /\ (records[r] = "synced" \/ (records[r] = "added" /\ died # "machine"))
  BY <1>1 DEF Having
<1>3. Kept(r, Len(file))
  <2>1. CASE records[r] = "synced"
    <3>1. Kept(r, durable)
      BY <1>1, <1>2, <2>1 DEF Outcomes
    <3>2. 1..durable \subseteq 1..Len(file)
      BY <1>1
    <3> QED
      BY <3>1, <3>2 DEF Kept
  <2>2. CASE records[r] = "added" /\ died # "machine"
    BY <1>1, <1>2, <2>2 DEF Outcomes
  <2> QED
    BY <1>2, <2>1, <2>2
<1>4. PICK f \in 1..Len(emitted), p \in 1..Len(file) :
        emitted[f].rec = r /\ Ends(emitted, f) /\ EndsAt(file, emitted, f, p)
  BY <1>3 DEF Kept
<1>5. /\ buffer.from = Len(file)
      /\ Before(file, emitted, f, buffer.from) /\ Ends(emitted, f) =>
           \E i \in 1..Len(out) : Last(out[i]) = f
  BY DEF LogInv, ReaderInPlace
<1>6. PICK i \in 1..Len(out) : Last(out[i]) = f
  BY <1>4, <1>5 DEF Before
<1>7. RecordOf(out[i]) = r
  <2>1. Run(emitted, out[i]) /\ out[i] \in Seq(Nat)
    BY <1>1 DEF Returns
  <2>2. PICK e, s : e = emitted /\ s = out[i]
    OBVIOUS
  <2>3. s # <<>> /\ e[Last(s)].rec = e[s[1]].rec
    BY <1>1, <2>1, <2>2, RunTyped
  <2>4. Head(s) = s[1]
    BY <2>1, <2>2, <2>3
  <2> QED
    BY <1>4, <1>6, <2>2, <2>3, <2>4 DEF RecordOf
<1>8. i \in DOMAIN out
  BY <1>1
<1> QED
  BY <1>7, <1>8 DEF Survivors

(* The reader returns only records that were added, whole, once and in     *)
(* their order, and none that AddRecord said was not written.              *)
THEOREM OnlyRecordsTheorem == Spec => []OnlyRecords
<1>1. LogInv => OnlyRecords
  BY OnlyRecordsHold
<1> QED
  BY <1>1, LogInvariant, PTL

(* Without a failed write no record that AddRecord has added is lost by a  *)
(* death of the process, and none that a Sync followed by one of the       *)
(* machine.                                                                *)
THEOREM RecordsSurviveTheorem == Spec => []RecordsSurvive
<1>1. LogInv => RecordsSurvive
  BY RecordsSurviveHold
<1> QED
  BY <1>1, LogInvariant, PTL

(* Without a failed write nothing is reported as a corruption.             *)
THEOREM CutOffTheorem == Spec => []CutOffIsNoCorruption
<1>1. LogInv => CutOffIsNoCorruption
  BY DEF LogInv, ReaderInPlace, CutOffIsNoCorruption
<1> QED
  BY <1>1, LogInvariant, PTL
=============================================================================
