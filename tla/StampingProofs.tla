--------------------------- MODULE StampingProofs ---------------------------
(***************************************************************************)
(* What module Stamping promises of the stamps, for every number of        *)
(* commands, stamps files, records, alterations and answers: the time a    *)
(* record is covered by is one by which its lines were there, and a        *)
(* checkpoint is stamped once.                                             *)
(***************************************************************************)
EXTENDS Stamping, TrailChainProofs, SequenceTheorems

(* A line of one chained record that can be one of the trail.              *)
RecordLine(l) ==
    \E p \in Piece :
        l = << p >> /\ p.len = Body /\ p.kind = "record" /\ p.trail # NoTrail /\ ~ p.over

Plain(b) ==
    b \in Bytes /\ TailOf(b) = << >> /\ \A k \in 1 .. LineCount(b) : RecordLine(b[k])

Mark == [seq : Nat, trail : Trails, digest : Digests]

-----------------------------------------------------------------------------
(* Trails that are only appended to and altered.                           *)

LEMMA RecordLineFacts ==
    ASSUME NEW l, RecordLine(l)
    PROVE  /\ l \in Line /\ DOMAIN l = {1} /\ l[1] \in Piece /\ l = << l[1] >>
           /\ ~ Oversized(l) /\ ChainedLine(l) /\ ~ DiscontinuityKind(l)
  <1>1. PICK p \in Piece : /\ l = << p >> /\ p.len = Body /\ p.kind = "record"
                           /\ p.trail # NoTrail /\ ~ p.over
    BY DEF RecordLine
  <1>2. Len(l) = 1 /\ l[1] = p /\ DOMAIN l = {1}
    BY <1>1, OnePiece
  <1>3. l \in Line
    BY <1>1 DEF Line
  <1>4. ~ Oversized(l) /\ ChainedLine(l) /\ ~ DiscontinuityKind(l)
    BY <1>1, <1>2 DEF Oversized, ChainedLine, WholeRecord, DiscontinuityKind
  <1> QED BY <1>1, <1>2, <1>3, <1>4

LEMMA PlainRecords ==
    ASSUME NEW b, Plain(b)
    PROVE  /\ LineCount(b) \in Nat /\ DOMAIN b = 1 .. LineCount(b) + 1
           /\ \A k \in 1 .. LineCount(b) :
                 /\ b[k] \in Line /\ DOMAIN b[k] = {1} /\ b[k][1] \in Piece
                 /\ ChainedLine(b[k]) /\ ~ Damaged(b, k)
           /\ ChainedRecords(b) = 1 .. LineCount(b)
  <1>1. b \in Seq(Line) /\ b # << >>
    BY DEF Plain, Bytes
  <1>2. LineCount(b) \in Nat /\ DOMAIN b = 1 .. LineCount(b) + 1
    BY <1>1 DEF LineCount
  <1>3. ASSUME NEW k \in 1 .. LineCount(b)
        PROVE  /\ b[k] \in Line /\ DOMAIN b[k] = {1} /\ b[k][1] \in Piece
               /\ ~ Oversized(b[k]) /\ ChainedLine(b[k]) /\ ~ DiscontinuityKind(b[k])
    BY RecordLineFacts DEF Plain
  <1>4. ASSUME NEW k \in 1 .. LineCount(b) PROVE ~ Damaged(b, k)
    <2> SUFFICES ASSUME k < LineCount(b) PROVE ~ DiscontinuityKind(b[k + 1])
      BY DEF Damaged, Excuses, IsDiscontinuity
    <2>1. k + 1 \in 1 .. LineCount(b)
      BY <1>2
    <2> QED BY <1>3, <2>1
  <1>5. ChainedRecords(b) = 1 .. LineCount(b)
    BY <1>3, <1>4 DEF ChainedRecords
  <1> QED BY <1>2, <1>3, <1>4, <1>5

LEMMA PlainPieces ==
    ASSUME NEW b, Plain(b)
    PROVE  \A p : p \in PiecesIn(b) <=> \E k \in 1 .. LineCount(b) : p = b[k][1]
  <1>1. /\ LineCount(b) \in Nat /\ DOMAIN b = 1 .. LineCount(b) + 1
        /\ \A k \in 1 .. LineCount(b) : DOMAIN b[k] = {1}
    BY PlainRecords
  <1>2. b[LineCount(b) + 1] = << >>
    <2>1. LineCount(b) + 1 = Len(b)
      BY <1>1 DEF Plain, Bytes, LineCount
    <2> QED BY <2>1 DEF Plain, TailOf
  <1> SUFFICES ASSUME NEW p PROVE p \in PiecesIn(b) <=> \E k \in 1 .. LineCount(b) : p = b[k][1]
    OBVIOUS
  <1>3. ASSUME p \in PiecesIn(b) PROVE \E k \in 1 .. LineCount(b) : p = b[k][1]
    <2>1. PICK n \in DOMAIN b : p \in {b[n][j] : j \in DOMAIN b[n]}
      BY <1>3, Zenon DEF PiecesIn
    <2>2. PICK j \in DOMAIN b[n] : p = b[n][j]
      BY <2>1
    <2>3. n # LineCount(b) + 1
      BY <1>2, <2>2
    <2>4. n \in 1 .. LineCount(b)
      BY <1>1, <2>3
    <2> QED BY <1>1, <2>2, <2>4
  <1>4. ASSUME NEW k \in 1 .. LineCount(b), p = b[k][1] PROVE p \in PiecesIn(b)
    <2>1. k \in DOMAIN b /\ 1 \in DOMAIN b[k]
      BY <1>1
    <2>2. p \in {b[k][j] : j \in DOMAIN b[k]}
      BY <1>4, <2>1
    <2> QED BY <2>1, <2>2, Zenon DEF PiecesIn
  <1> QED BY <1>3, <1>4

(* What a checkpoint that holds against a plain trail says.                *)
LEMMA PlainHolds ==
    ASSUME NEW b, Plain(b), NEW c
    PROVE  c.seq \in Nat \ {0} =>
              (HoldCheckpoint(b, c) = "none"
                 <=> /\ c.seq <= LineCount(b)
                     /\ b[c.seq][1].trail = c.trail /\ LineDigest(b[c.seq]) = c.digest)
  <1>1. LineCount(b) \in Nat /\ ChainedRecords(b) = 1 .. LineCount(b)
    BY PlainRecords
  <1> SUFFICES ASSUME c.seq \in Nat \ {0}
               PROVE  HoldCheckpoint(b, c) = "none"
                        <=> /\ c.seq <= LineCount(b)
                            /\ b[c.seq][1].trail = c.trail /\ LineDigest(b[c.seq]) = c.digest
    OBVIOUS
  <1>2. c.seq > LineCount(b) <=> ~ (c.seq <= LineCount(b))
    BY <1>1
  <1>3. c.seq <= LineCount(b) => c.seq \in ChainedRecords(b)
    BY <1>1
  <1> QED BY <1>2, <1>3 DEF HoldCheckpoint

(* Empty is plain, and a beginning of a plain trail.                       *)
LEMMA PlainUpTo ==
    ASSUME NEW b, Plain(b), NEW n \in 0 .. LineCount(b)
    PROVE  /\ Plain(UpTo(b, n)) /\ LineCount(UpTo(b, n)) = n
           /\ \A k \in 1 .. n : UpTo(b, n)[k] = b[k]
  <1>1. b \in Bytes /\ n \in Nat /\ 1 .. n \subseteq 1 .. LineCount(b)
    BY PlainRecords DEF Plain
  <1>2. /\ UpTo(b, n) \in Bytes /\ LineCount(UpTo(b, n)) = n /\ TailOf(UpTo(b, n)) = << >>
        /\ \A k \in 1 .. n : UpTo(b, n)[k] = b[k]
    BY <1>1, UpToType
  <1> QED BY <1>1, <1>2 DEF Plain

LEMMA PlainEmpty == Plain(Empty) /\ LineCount(Empty) = 0
  <1>1. Len(Empty) = 1 /\ Empty[1] = << >>
    BY DEF Empty
  <1> QED BY <1>1, EmptyType DEF Plain, LineCount, TailOf

(* A record appended: one line more, a record of its own name.             *)
OneMore(b, w, i) == ChainedLines(b, << Unchained(w, i, 1, FALSE) >>, TRUE, w)

LEMMA PlainGrows ==
    ASSUME NEW b, Plain(b), NEW w \in Author, NEW i \in Nat,
           NEW lines, lines = OneMore(b, w, i), lines.err = "none",
           NEW grown, grown = Concat(b, lines.data)
    PROVE  /\ Plain(grown) /\ LineCount(grown) = LineCount(b) + 1
           /\ \A k \in 1 .. LineCount(b) : grown[k] = b[k]
           /\ grown[LineCount(grown)][1].i = i
  <1> DEFINE r == Unchained(w, i, 1, FALSE)
             head == ReadHead(b, w)
             n == LineCount(b)
  <1>1. b \in Bytes /\ TailOf(b) = << >> /\ n \in Nat /\ n = Len(b) - 1 /\ Len(b) \in Nat
    BY PlainRecords DEF Plain, LineCount, Bytes
  <1>2. r \in Piece /\ r.len = Body /\ r.kind = "record" /\ ~ r.over /\ r.i = i
    BY EmptyType, BodyAssumption DEF Unchained, Piece, Kinds, Trails
  <1>3. head.trail \in Author /\ head.seq \in Nat /\ head.prev \in Digests
    BY <1>1, ReadHeadType
  <1>4. lines.data = EncodeLines(ChainAfter(<< r >>, head))
    BY DEF ChainedLines, Refuse, Give, OneMore
  <1> HIDE DEF r, head
  <1>5. PICK p \in Piece :
          /\ ChainAfter(<< r >>, head) = << p >>
          /\ p.trail = head.trail /\ p.w = r.w /\ p.i = r.i /\ p.len = r.len
          /\ p.kind = r.kind /\ p.over = r.over
    BY <1>2, <1>3, OneAfter
  <1> DEFINE d == EncodeLines(<< p >>)
             c == Concat(b, d)
  <1>6. lines.data = d
    BY <1>4, <1>5
  <1>7. d \in Bytes /\ Len(d) = 2 /\ d[1] = << p >> /\ d[2] = << >>
    <2>1. << p >> \in Seq(Piece) /\ Len(<< p >>) = 1 /\ << p >>[1] = p
      BY OnePiece
    <2>2. 1 \in 1 .. Len(<< p >>) /\ Len(<< p >>) + 1 = 2
      BY <2>1
    <2> QED BY <2>1, <2>2, EncodeLinesType
  <1> HIDE DEF d
  <1>8. /\ c \in Bytes /\ Len(c) = n + 2
        /\ \A k \in 1 .. n : c[k] = b[k]
    <2>1. /\ c \in Bytes /\ Len(c) = Len(b) + Len(d) - 1
          /\ \A k \in 1 .. Len(b) - 1 : c[k] = b[k]
      BY <1>1, <1>7, ConcatType
    <2>2. Len(b) + Len(d) - 1 = n + 2 /\ Len(b) - 1 = n
      BY <1>1, <1>7
    <2> QED BY <2>1, <2>2, Zenon
  <1>9. c[n + 1] = << p >> /\ c[n + 2] = << >>
    <2>1. 1 \in 1 .. Len(d) /\ 2 \in 1 .. Len(d)
      BY <1>7
    <2>2. c[n + 1] = d[1] /\ c[n + 2] = d[2]
      BY <1>1, <1>7, <2>1, ConcatLines
    <2> QED BY <1>7, <2>2
  <1> HIDE DEF c
  <1>10. LineCount(c) = n + 1 /\ TailOf(c) = << >>
    BY <1>1, <1>8, <1>9 DEF LineCount, TailOf
  <1>11. RecordLine(c[n + 1])
    <2>1. p.len = Body /\ p.kind = "record" /\ ~ p.over /\ p.trail # NoTrail
      BY <1>2, <1>3, <1>5, AuthorAssumption
    <2> QED BY <1>9, <2>1 DEF RecordLine
  <1>12. \A k \in 1 .. n + 1 : RecordLine(c[k])
    <2>1. \A k \in 1 .. n + 1 : k \in 1 .. n \/ k = n + 1
      BY <1>1
    <2>2. \A k \in 1 .. n : RecordLine(b[k])
      BY DEF Plain
    <2> QED BY <1>8, <1>11, <2>1, <2>2
  <1>13. c[n + 1][1].i = i
    BY <1>2, <1>5, <1>9
  <1> QED BY <1>6, <1>8, <1>10, <1>12, <1>13 DEF Plain, c

(* A record put in the place of one, with its links.                       *)
Other(b, k, w, i) ==
    [Unchained(w, i, 1, FALSE) EXCEPT
        !.trail = b[k][1].trail, !.seq = b[k][1].seq, !.prev = b[k][1].prev]

Put(b, k, other) == [b EXCEPT ![k] = << other >>]

LEMMA PlainAltered ==
    ASSUME NEW b, Plain(b), NEW k \in 1 .. LineCount(b), NEW w \in Author, NEW i \in Nat,
           NEW other, other = Other(b, k, w, i),
           NEW c, c = Put(b, k, other)
    PROVE  /\ Plain(c) /\ LineCount(c) = LineCount(b) /\ other.i = i /\ c[k] = << other >>
           /\ \A j \in 1 .. LineCount(b) : j # k => c[j] = b[j]
  <1>1. b \in Seq(Line) /\ b # << >> /\ LineCount(b) \in Nat /\ DOMAIN b = 1 .. LineCount(b) + 1
    BY PlainRecords DEF Plain, Bytes
  <1>2. b[k][1] \in Piece /\ b[k][1].trail # NoTrail
    <2>1. ChainedLine(b[k]) /\ b[k][1] \in Piece
      BY PlainRecords
    <2> QED BY <2>1 DEF ChainedLine
  <1>3. other \in Piece /\ other.len = Body /\ other.kind = "record" /\ ~ other.over
        /\ other.trail # NoTrail /\ other.i = i
    <2>1. b[k][1].trail \in Trails /\ b[k][1].seq \in Nat /\ b[k][1].prev \in Digests
      BY <1>2 DEF Piece
    <2> DEFINE u == Unchained(w, i, 1, FALSE)
    <2>2. u \in Piece /\ u.len = Body /\ u.kind = "record" /\ ~ u.over /\ u.i = i
      BY EmptyType, BodyAssumption DEF Unchained, Piece, Kinds, Trails
    <2> HIDE DEF u
    <2>3. other = [u EXCEPT !.trail = b[k][1].trail, !.seq = b[k][1].seq, !.prev = b[k][1].prev]
      BY DEF u, Other
    <2> QED BY <1>2, <2>1, <2>2, <2>3 DEF Piece
  <1>4. RecordLine(<< other >>) /\ << other >> \in Line
    <2>1. RecordLine(<< other >>)
      BY <1>3 DEF RecordLine
    <2> QED BY <2>1, RecordLineFacts
  <1>b. c = [b EXCEPT ![k] = << other >>]
    BY DEF Put
  <1>5. /\ c \in Seq(Line) /\ Len(c) = Len(b) /\ c[k] = << other >>
        /\ \A j \in DOMAIN b : j # k => c[j] = b[j]
    <2>1. k \in DOMAIN b
      BY <1>1
    <2> HIDE DEF LineCount
    <2> QED BY <1>1, <1>4, <1>b, <2>1
  <1>6. c # << >> /\ LineCount(c) = LineCount(b)
    BY <1>1, <1>5 DEF LineCount
  <1>7. TailOf(c) = << >>
    <2>1. Len(b) \in Nat /\ LineCount(b) = Len(b) - 1
      BY <1>1 DEF LineCount
    <2>2. Len(b) \in DOMAIN b /\ Len(b) # k
      <3>1. LineCount(b) + 1 \in DOMAIN b /\ LineCount(b) + 1 # k
        BY <1>1
      <3>2. Len(b) = LineCount(b) + 1
        BY <2>1
      <3> QED BY <3>1, <3>2
    <2> QED BY <1>5, <2>2 DEF Plain, TailOf
  <1>8. ASSUME NEW j \in 1 .. LineCount(b) PROVE RecordLine(c[j])
    <2>1. j \in DOMAIN b
      BY <1>1
    <2>2. RecordLine(b[j])
      BY DEF Plain
    <2> QED BY <1>4, <1>5, <2>1, <2>2
  <1>9. \A j \in 1 .. LineCount(b) : j # k => c[j] = b[j]
    BY <1>1, <1>5
  <1> QED BY <1>3, <1>5, <1>6, <1>7, <1>8, <1>9 DEF Plain, Bytes
-----------------------------------------------------------------------------
(* A checkpoint of a plain trail, and another plain trail it holds against.*)

LEMMA PlainHead ==
    ASSUME NEW b, Plain(b), LineCount(b) > 0
    PROVE  /\ HeadOf(b) \in Mark /\ HeadOf(b).seq = LineCount(b)
           /\ HeadOf(b).trail = b[LineCount(b)][1].trail
           /\ HeadOf(b).digest = LineDigest(b[LineCount(b)])
  <1> DEFINE n == LineCount(b)
  <1>1. /\ n \in Nat /\ n \in 1 .. n /\ ChainedRecords(b) = 1 .. n
        /\ b[n] \in Line /\ b[n][1] \in Piece
    BY PlainRecords
  <1> HIDE DEF n
  <1>2. Max(1 .. n) = n
    <2>1. 1 .. n \subseteq 0 .. n /\ n \in 1 .. n /\ \A y \in 1 .. n : y <= n
      BY <1>1
    <2> QED BY <1>1, <2>1, MaxIs
  <1>3. HeadOf(b) = CheckpointOf(b, n)
    BY <1>1, <1>2 DEF HeadOf
  <1>4. b[n][1].trail \in Trails /\ LineDigest(b[n]) \in Digests
    BY <1>1, LineDigestType DEF Piece
  <1> QED BY <1>1, <1>3, <1>4 DEF CheckpointOf, Mark, n

LEMMA PlainClean ==
    ASSUME NEW b, Plain(b), CleanHead(b) # None
    PROVE  LineCount(b) > 0 /\ TrailFindings(b) = {} /\ CleanHead(b) = HeadOf(b)
  <1>1. LineCount(b) \in Nat /\ ChainedRecords(b) = 1 .. LineCount(b)
    BY PlainRecords
  <1>2. TrailFindings(b) = {} /\ CleanHead(b) = HeadOf(b) /\ ChainedRecords(b) # {}
    BY DEF CleanHead, HeadOf
  <1> QED BY <1>1, <1>2

(* No finding at or before a line settles the lines up to it.              *)
LEMMA ClearSettles ==
    ASSUME NEW b, NEW n, LineCount(b) \in Nat, n \in 0 .. LineCount(b),
           Clear(TrailFindings(b), n)
    PROVE  Settled(b, n)
  <1> SUFFICES ASSUME NEW i \in 1 .. n, NEW f \in Findings(b, i) PROVE FALSE
    BY DEF Settled
  <1>1. i \in 1 .. LineCount(b) /\ i <= n /\ n \in Int /\ i \in Int
    OBVIOUS
  <1>2. <<f, i>> \in {<<g, i>> : g \in Findings(b, i)}
    OBVIOUS
  <1> DEFINE Of(j) == {<<g, j>> : g \in Findings(b, j)}
  <1>3. <<f, i>> \in TrailFindings(b)
    <2>1. <<f, i>> \in Of(i) /\ Of(i) \in {Of(j) : j \in 1 .. LineCount(b)}
      BY <1>1, <1>2
    <2>2. <<f, i>> \in UNION {Of(j) : j \in 1 .. LineCount(b)}
      BY <2>1, Zenon
    <2> QED BY <2>2, Zenon DEF TrailFindings
  <1>4. <<f, i>>[2] > n
    BY <1>3, Zenon DEF Clear
  <1> QED BY <1>1, <1>4

(* The head of one trail without a finding that holds against another with *)
(* none up to it: they have the same lines.                                *)
LEMMA HeadHolds ==
    ASSUME NEW d, Plain(d), LineCount(d) > 0, TrailFindings(d) = {},
           NEW b, Plain(b), SameNames(d, b),
           HoldCheckpoint(b, HeadOf(d)) = "none",
           Clear(TrailFindings(b), HeadOf(d).seq)
    PROVE  /\ HeadOf(d).seq = LineCount(d) /\ LineCount(d) <= LineCount(b)
           /\ \A k \in 1 .. LineCount(d) : d[k] = b[k]
  <1> DEFINE n == LineCount(d)
  <1>1. /\ n \in Nat /\ n \in 1 .. n /\ n > 0 /\ LineCount(b) \in Nat
        /\ d \in Bytes /\ b \in Bytes
        /\ DOMAIN d = 1 .. n + 1 /\ DOMAIN b = 1 .. LineCount(b) + 1
    BY PlainRecords DEF Plain
  <1>2. HeadOf(d).seq = n /\ HeadOf(d).digest = LineDigest(d[n])
    BY PlainHead
  <1>3. n <= LineCount(b) /\ LineDigest(b[n]) = LineDigest(d[n])
    BY <1>1, <1>2, PlainHolds
  <1>4. n \in 1 .. LineCount(b) /\ n \in DOMAIN d /\ n \in DOMAIN b
    BY <1>1, <1>3
  <1>5. Ident(d[n]) = Ident(b[n])
    <2>1. LineDigest(b[n])[1] = Ident(b[n]) /\ LineDigest(d[n])[1] = Ident(d[n])
      BY DEF LineDigest
    <2> QED BY <1>3, <2>1
  <1>6. d[n] = b[n]
    BY <1>1, <1>4, <1>5, SameIdentSameLine
  <1>7. /\ ChainedLine(d[n]) /\ ~ Damaged(d, n) /\ ~ Damaged(b, n)
    BY <1>1, <1>4, PlainRecords
  <1>8. Settled(b, n)
    BY <1>1, <1>2, <1>4, ClearSettles
  <1>9. Settled(d, n)
    <2>1. Clear(TrailFindings(d), n)
      BY DEF Clear
    <2>2. n \in 0 .. LineCount(d) /\ LineCount(d) \in Nat
      BY <1>1
    <2> HIDE DEF n
    <2> QED BY <2>1, <2>2, ClearSettles
  <1>10. MeetAt(d, b, n)
    BY <1>1, <1>3, <1>6, <1>7, <1>8, <1>9 DEF MeetAt
  <1>11. \A k \in 1 .. n : d[k] = b[k]
    BY <1>1, <1>10, SameRecordSameLines
  <1> QED BY <1>2, <1>3, <1>11

-----------------------------------------------------------------------------
(* The invariant.                                                          *)

(* What the trail was: records of one name are one record, in all of it.   *)
TrailsStood ==
    /\ names \in Nat /\ clock \in Nat
    /\ \E e \in stood : e.b = trail
    /\ \A e \in stood :
          /\ Plain(e.b) /\ e.at \in Nat /\ e.at <= clock
          /\ \A k \in 1 .. LineCount(e.b) : e.b[k][1].i <= names
    /\ \A d, e \in stood : SameNames(d.b, e.b)

(* The checkpoint of a trail that stood without a finding by a time.       *)
Backed(c, by) ==
    \E e \in stood : /\ e.at <= by /\ LineCount(e.b) > 0
                     /\ TrailFindings(e.b) = {} /\ c = HeadOf(e.b)

StampLine == [checkpoint : Mark \cup {None}, by : Nat, trusted : BOOLEAN, fresh : BOOLEAN]

(* Every stamp kept is of a trail that stood by its time.                  *)
StampsBacked ==
    /\ stamps \in [StampsFile -> Seq(StampLine)]
    /\ \A f \in StampsFile : \A k \in DOMAIN stamps[f] :
          /\ stamps[f][k].fresh = TRUE
          /\ stamps[f][k].trusted = TRUE => Backed(stamps[f][k].checkpoint, stamps[f][k].by)

(* No two lines of a file are for one checkpoint, the last one that lacks  *)
(* its newline among them.                                                 *)
StampsDiffer ==
    \A f \in StampsFile : \A j, k \in DOMAIN stamps[f] :
        j # k /\ stamps[f][j].checkpoint # None
            => stamps[f][j].checkpoint # stamps[f][k].checkpoint

(* What a command has in hand at each of its steps.                        *)
Progress == [pc : {"start", "look", "hold", "ask", "lock", "check", "append"},
             checkpoint : Mark \cup {None}, id : Nat, size : Nat,
             held : StampsFile \cup {None}, floor : Nat, by : Nat, raced : BOOLEAN]

Hand(x) ==
    /\ x.pc # "start" => x.checkpoint \in Mark /\ Backed(x.checkpoint, clock)
    /\ x.pc \in {"ask", "lock", "check", "append"} => x.held \in StampsFile
    /\ x.pc \in {"lock", "check", "append"} => Backed(x.checkpoint, x.by)
    /\ x.pc = "append" => x.raced = TRUE \/ HoldCheckpoint(trail, x.checkpoint) = "none"

Hands == stamper \in [Stamper -> Progress] /\ \A s \in Stamper : Hand(stamper[s])

Files == named \in StampsFile \cup {None} /\ torn \in [StampsFile -> BOOLEAN]

StampingInv ==
    /\ TrailsStood /\ trailId \in Nat
    /\ StampsBacked /\ StampsDiffer /\ Files /\ Hands

LEMMA WaitingHand == Waiting \in Progress /\ Hand(Waiting) /\ Hand(Waiting)'
  <1>1. Waiting \in Progress /\ Waiting.pc = "start"
    BY DEF Waiting, Progress
  <1> QED BY <1>1 DEF Hand

LEMMA InitStamping == Init => StampingInv
  <1> SUFFICES ASSUME Init PROVE StampingInv
    OBVIOUS
  <1>1. TrailsStood
    <2>1. trail = Empty /\ names = 0 /\ clock = 1 /\ stood = {[b |-> Empty, at |-> 1]}
      BY DEF Init, FileInit
    <2>2. Plain(Empty) /\ LineCount(Empty) = 0
      BY PlainEmpty
    <2>3. SameNames(Empty, Empty)
      BY <2>2, PlainPieces DEF SameNames
    <2> QED BY <2>1, <2>2, <2>3 DEF TrailsStood
  <1>2. StampsBacked /\ StampsDiffer
    <2>1. stamps = [f \in StampsFile |-> << >>] /\ << >> \in Seq(StampLine) /\ DOMAIN << >> = {}
      BY DEF Init
    <2> QED BY <2>1 DEF StampsBacked, StampsDiffer
  <1>3. Hands
    BY WaitingHand DEF Init, Hands
  <1> QED BY <1>1, <1>2, <1>3 DEF Init, StampingInv, Files

-----------------------------------------------------------------------------
(* The trail's steps.                                                      *)

(* A trail of lines that stood, and at most one line of a new name.        *)
LEMMA TrailStands ==
    ASSUME TrailsStood, Stands, clock' = clock, Plain(trail'), NEW m \in Nat,
           names' = names \/ names' = names + 1,
           \A k \in 1 .. LineCount(trail') :
              \/ k # m /\ \E j \in 1 .. LineCount(trail) : trail'[k] = trail[j]
              \/ k = m /\ names' = names + 1 /\ trail'[k][1].i = names'
    PROVE  TrailsStood'
  <1> DEFINE Was(p) == \E j \in 1 .. LineCount(trail) : p = trail[j][1]
             New(k, p) == k = m /\ names' = names + 1 /\ p.i = names'
             now == [b |-> trail', at |-> clock]
  <1>1. names \in Nat /\ clock \in Nat /\ names' \in Nat /\ names <= names' /\ clock' \in Nat
    BY DEF TrailsStood
  <1>2. PICK e \in stood : e.b = trail
    BY DEF TrailsStood
  <1>3. stood' = stood \cup {now} /\ now.b = trail' /\ now.at = clock
    BY DEF Stands
  <1>4. \A d \in stood : Plain(d.b) /\ d.at \in Nat /\ d.at <= clock
                         /\ \A k \in 1 .. LineCount(d.b) : d.b[k][1].i <= names
    BY DEF TrailsStood
  <1>5. \A d \in stood : \A p \in PiecesIn(d.b) : p.i <= names /\ p.i \in Nat
    <2> SUFFICES ASSUME NEW d \in stood, NEW p \in PiecesIn(d.b)
                 PROVE  p.i <= names /\ p.i \in Nat
      OBVIOUS
    <2>1. PICK k \in 1 .. LineCount(d.b) : p = d.b[k][1]
      BY <1>4, PlainPieces
    <2>2. d.b[k][1] \in Piece
      BY <1>4, PlainRecords
    <2> QED BY <1>4, <2>1, <2>2 DEF Piece
  <1>6. \A p : Was(p) => p \in PiecesIn(e.b)
    BY <1>2, <1>4, PlainPieces
  <1>7. \A p \in PiecesIn(trail') :
            Was(p) \/ \E k \in 1 .. LineCount(trail') : New(k, p) /\ p = trail'[k][1]
    <2> SUFFICES ASSUME NEW p \in PiecesIn(trail')
                 PROVE  Was(p) \/ \E k \in 1 .. LineCount(trail') : New(k, p) /\ p = trail'[k][1]
      OBVIOUS
    <2>1. PICK k \in 1 .. LineCount(trail') : p = trail'[k][1]
      BY PlainPieces
    <2> QED BY <2>1
  <1>8. \A d \in stood : \A q \in PiecesIn(d.b) : \A k, p : New(k, p) => Name(p) # Name(q)
    <2> SUFFICES ASSUME NEW d \in stood, NEW q \in PiecesIn(d.b), NEW k, NEW p, New(k, p)
                 PROVE  Name(p) # Name(q)
      OBVIOUS
    <2>1. p.i # q.i
      BY <1>1, <1>5
    <2> QED BY <2>1 DEF Name
  <1>9. \A d \in stood : SameNames(trail', d.b) /\ SameNames(d.b, trail')
    <2> SUFFICES ASSUME NEW d \in stood, NEW p \in PiecesIn(trail'), NEW q \in PiecesIn(d.b),
                        Name(p) = Name(q)
                 PROVE  p = q
      BY DEF SameNames
    <2>1. Was(p)
      BY <1>7, <1>8
    <2>2. SameNames(e.b, d.b)
      BY DEF TrailsStood
    <2> QED BY <1>6, <2>1, <2>2 DEF SameNames
  <1>10. SameNames(trail', trail')
    <2> SUFFICES ASSUME NEW p \in PiecesIn(trail'), NEW q \in PiecesIn(trail'), Name(p) = Name(q)
                 PROVE  p = q
      BY DEF SameNames
    <2>1. CASE Was(p) /\ Was(q)
      <3>1. SameNames(e.b, e.b)
        BY DEF TrailsStood
      <3> QED BY <1>6, <2>1, <3>1 DEF SameNames
    <2>2. CASE Was(p) /\ ~ Was(q)
      BY <1>6, <1>7, <1>8, <2>2
    <2>3. CASE ~ Was(p) /\ Was(q)
      BY <1>6, <1>7, <1>8, <2>3
    <2>4. CASE ~ Was(p) /\ ~ Was(q)
      BY <1>7, <2>4
    <2> QED BY <2>1, <2>2, <2>3, <2>4
  <1>11. \A k \in 1 .. LineCount(trail') : trail'[k][1].i <= names'
    <2> SUFFICES ASSUME NEW k \in 1 .. LineCount(trail') PROVE trail'[k][1].i <= names'
      OBVIOUS
    <2>1. CASE \E j \in 1 .. LineCount(trail) : trail'[k] = trail[j]
      <3>1. PICK j \in 1 .. LineCount(trail) : trail'[k] = trail[j]
        BY <2>1
      <3>2. trail[j][1].i <= names /\ trail[j][1] \in Piece
        BY <1>2, <1>4, PlainRecords
      <3>3. trail[j][1].i \in Nat
        BY <3>2 DEF Piece
      <3> QED BY <1>1, <3>1, <3>2, <3>3
    <2>2. CASE trail'[k][1].i = names'
      BY <1>1, <2>2
    <2> QED BY <2>1, <2>2
  <1>12. ASSUME NEW d \in stood'
         PROVE  /\ Plain(d.b) /\ d.at \in Nat /\ d.at <= clock'
                /\ \A k \in 1 .. LineCount(d.b) : d.b[k][1].i <= names'
    <2>1. CASE d = now
      BY <1>1, <1>3, <1>11, <2>1
    <2>2. CASE d \in stood
      <3>1. \A k \in 1 .. LineCount(d.b) : d.b[k][1] \in Piece /\ d.b[k][1].i <= names
        BY <1>4, <2>2, PlainRecords
      <3>2. \A k \in 1 .. LineCount(d.b) : d.b[k][1].i \in Nat
        BY <3>1 DEF Piece
      <3>3. \A k \in 1 .. LineCount(d.b) : d.b[k][1].i <= names'
        BY <1>1, <3>1, <3>2
      <3> QED BY <1>1, <1>4, <2>2, <3>3
    <2> QED BY <1>3, <2>1, <2>2
  <1>13. \A c, d \in stood' : SameNames(c.b, d.b)
    <2>1. \A c, d \in stood : SameNames(c.b, d.b)
      BY DEF TrailsStood
    <2> HIDE DEF now
    <2> QED BY <1>3, <1>9, <1>10, <2>1
  <1>14. \E d \in stood' : d.b = trail'
    BY <1>3
  <1> QED BY <1>1, <1>12, <1>13, <1>14 DEF TrailsStood
(* What a step of the trail leaves of the rest, when no checkpoint a       *)
(* command has checked is lost to it.                                      *)
LEMMA RestStands ==
    ASSUME StampingInv, TrailsStood', Stands, clock' = clock, UNCHANGED kept,
           trailId' \in Nat,
           stamper' \in [Stamper -> Progress],
           \A s \in Stamper :
              /\ stamper'[s].pc = stamper[s].pc
              /\ stamper'[s].checkpoint = stamper[s].checkpoint
              /\ stamper'[s].held = stamper[s].held /\ stamper'[s].by = stamper[s].by
              /\ stamper[s].pc = "append" =>
                    \/ stamper'[s].raced = TRUE
                    \/ /\ stamper'[s].raced = stamper[s].raced
                       /\ HoldCheckpoint(trail, stamper[s].checkpoint) = "none"
                            => HoldCheckpoint(trail', stamper[s].checkpoint) = "none"
    PROVE  StampingInv'
  <1>1. \A c, by : Backed(c, by) => Backed(c, by)'
    BY DEF Stands, Backed
  <1>2. StampsBacked' /\ StampsDiffer' /\ Files'
    BY <1>1 DEF StampingInv, StampsBacked, StampsDiffer, Files, kept
  <1>3. ASSUME NEW s \in Stamper PROVE Hand(stamper[s])'
    <2>1. Hand(stamper[s])
      BY DEF StampingInv, Hands
    <2>2. stamper'[s].pc # "start" =>
            stamper'[s].checkpoint \in Mark /\ Backed(stamper[s].checkpoint, clock)'
      BY <1>1, <2>1 DEF Hand
    <2>3. stamper'[s].pc \in {"ask", "lock", "check", "append"} => stamper'[s].held \in StampsFile
      BY <2>1 DEF Hand
    <2>4. stamper'[s].pc \in {"lock", "check", "append"} =>
            Backed(stamper[s].checkpoint, stamper[s].by)'
      BY <1>1, <2>1 DEF Hand
    <2>5. stamper'[s].pc = "append" =>
            stamper'[s].raced = TRUE
              \/ HoldCheckpoint(trail', stamper'[s].checkpoint) = "none"
      BY <2>1 DEF Hand
    <2> QED BY <2>2, <2>3, <2>4, <2>5 DEF Hand
  <1> QED BY <1>2, <1>3 DEF StampingInv, Hands

LEMMA PlainNow == ASSUME StampingInv PROVE Plain(trail) /\ names \in Nat
  BY DEF StampingInv, TrailsStood

LEMMA AppendRecordStands ==
    ASSUME StampingInv, AppendRecord
    PROVE  StampingInv'
  <1> DEFINE n == LineCount(trail)
  <1>1. Plain(trail) /\ names \in Nat /\ names + 1 \in Nat /\ n \in Nat /\ Writing \in Author
    BY PlainNow, PlainRecords, AuthorsAssumption
  <1>2. /\ Appended.err = "none" /\ trail' = Concat(trail, Appended.data)
        /\ names' = names + 1 /\ Stands /\ clock' = clock /\ trailId' = trailId
        /\ UNCHANGED kept /\ stamper' = stamper
    BY DEF AppendRecord, Grow
  <1>3. Appended = OneMore(trail, Writing, names + 1)
    BY DEF Appended, Fresh, OneMore
  <1>4. /\ Plain(trail') /\ LineCount(trail') = n + 1
        /\ \A k \in 1 .. n : trail'[k] = trail[k]
        /\ trail'[LineCount(trail')][1].i = names + 1
    <2>1. Appended.err = "none"
      BY <1>2
    <2> QED BY ONLY <1>1, <1>2, <1>3, <2>1, PlainGrows
  <1>5. TrailsStood'
    <2>1. \A k \in 1 .. LineCount(trail') :
              \/ k # n + 1 /\ \E j \in 1 .. LineCount(trail) : trail'[k] = trail[j]
              \/ k = n + 1 /\ names' = names + 1 /\ trail'[k][1].i = names'
      <3> SUFFICES ASSUME NEW k \in 1 .. n + 1, k # n + 1
                   PROVE  k \in 1 .. n
        BY <1>2, <1>4
      <3> QED BY <1>1
    <2>2. TrailsStood /\ n + 1 \in Nat
      BY <1>1 DEF StampingInv
    <2> HIDE DEF n
    <2> QED BY <1>2, <1>4, <2>1, <2>2, TrailStands
  <1>6. ASSUME NEW c \in Mark, c.seq # 0, HoldCheckpoint(trail, c) = "none"
        PROVE  HoldCheckpoint(trail', c) = "none"
    <2>1. c.seq \in Nat \ {0}
      BY <1>6 DEF Mark
    <2>2. /\ c.seq <= n /\ trail[c.seq][1].trail = c.trail
          /\ LineDigest(trail[c.seq]) = c.digest
      BY <1>1, <1>6, <2>1, PlainHolds
    <2>3. c.seq \in 1 .. n /\ c.seq <= LineCount(trail')
      BY <1>1, <1>4, <2>1, <2>2
    <2>4. trail'[c.seq] = trail[c.seq]
      BY <1>4, <2>3
    <2> QED BY <1>4, <2>1, <2>2, <2>3, <2>4, PlainHolds
  <1>7. ASSUME NEW s \in Stamper, stamper[s].pc = "append",
               HoldCheckpoint(trail, stamper[s].checkpoint) = "none"
        PROVE  HoldCheckpoint(trail', stamper[s].checkpoint) = "none"
    <2>1. stamper[s].checkpoint \in Mark /\ Backed(stamper[s].checkpoint, clock)
      BY <1>7 DEF StampingInv, Hands, Hand
    <2>2. PICK e \in stood : LineCount(e.b) > 0 /\ stamper[s].checkpoint = HeadOf(e.b)
      BY <2>1 DEF Backed
    <2>3. Plain(e.b)
      BY DEF StampingInv, TrailsStood
    <2>4. HeadOf(e.b).seq = LineCount(e.b) /\ LineCount(e.b) \in Nat
      BY <2>2, <2>3, PlainHead, PlainRecords
    <2>5. stamper[s].checkpoint.seq # 0
      BY <2>2, <2>4
    <2> QED BY <1>6, <1>7, <2>1, <2>5
  <1>8. stamper' \in [Stamper -> Progress] /\ trailId' \in Nat
    BY <1>2 DEF StampingInv, Hands
  <1> QED BY <1>2, <1>5, <1>7, <1>8, RestStands

LEMMA OvertakenStands ==
    ASSUME StampingInv, TrailsStood', Stands, clock' = clock, UNCHANGED kept,
           trailId' \in Nat, Overtakes
    PROVE  StampingInv'
  <1>1. stamper \in [Stamper -> Progress]
    BY DEF StampingInv, Hands
  <1>2. ASSUME NEW s \in Stamper
        PROVE  /\ stamper'[s] = [stamper[s] EXCEPT !.raced = @ \/ stamper[s].pc = "append"]
               /\ stamper[s] \in Progress
    BY <1>1 DEF Overtakes
  <1>3. ASSUME NEW s \in Stamper
        PROVE  /\ stamper'[s] \in Progress
               /\ stamper'[s].pc = stamper[s].pc
               /\ stamper'[s].checkpoint = stamper[s].checkpoint
               /\ stamper'[s].held = stamper[s].held /\ stamper'[s].by = stamper[s].by
               /\ stamper[s].pc = "append" => stamper'[s].raced = TRUE
    <2> DEFINE x == stamper[s]
               r == x.raced \/ x.pc = "append"
    <2>1. x \in Progress /\ r \in BOOLEAN /\ stamper'[s] = [x EXCEPT !.raced = r]
      BY <1>2
    <2>2. x.pc = "append" => r = TRUE
      OBVIOUS
    <2> HIDE DEF x, r
    <2>3. /\ stamper'[s] \in Progress
          /\ stamper'[s].pc = x.pc /\ stamper'[s].checkpoint = x.checkpoint
          /\ stamper'[s].held = x.held /\ stamper'[s].by = x.by
          /\ stamper'[s].raced = r
      BY <2>1 DEF Progress
    <2> QED BY <2>2, <2>3 DEF x
  <1>4. stamper' \in [Stamper -> Progress]
    BY <1>3 DEF Overtakes
  <1> QED BY <1>3, <1>4, RestStands

LEMMA OtherStands ==
    ASSUME StampingInv, Stands, clock' = clock, names' = names + 1, Altering \in Author,
           NEW k \in 1 .. LineCount(trail),
           trail' = Put(trail, k, Other(trail, k, Altering, names + 1))
    PROVE  TrailsStood'
  <1>1. Plain(trail) /\ names + 1 \in Nat /\ TrailsStood
    BY PlainNow DEF StampingInv
  <1>2. PICK other : other = Other(trail, k, Altering, names + 1)
    OBVIOUS
  <1>3. trail' = Put(trail, k, other)
    BY <1>2
  <1>4. /\ Plain(trail') /\ LineCount(trail') = LineCount(trail)
        /\ other.i = names + 1 /\ trail'[k] = << other >>
        /\ \A j \in 1 .. LineCount(trail) : j # k => trail'[j] = trail[j]
    <2>1. PICK i, c, b : i = names + 1 /\ c = trail' /\ b = trail
      OBVIOUS
    <2>2. /\ Plain(b) /\ k \in 1 .. LineCount(b) /\ i \in Nat
          /\ other = Other(b, k, Altering, i) /\ c = Put(b, k, other)
      BY <1>1, <1>2, <1>3, <2>1
    <2>3. /\ Plain(c) /\ LineCount(c) = LineCount(b) /\ other.i = i /\ c[k] = << other >>
          /\ \A j \in 1 .. LineCount(b) : j # k => c[j] = b[j]
      BY ONLY <2>2, Altering \in Author, PlainAltered
    <2> QED BY <2>1, <2>3
  <1>5. trail'[k][1].i = names'
    BY <1>4, OnePiece
  <1>6. \A j \in 1 .. LineCount(trail') :
            \/ j # k /\ \E m \in 1 .. LineCount(trail) : trail'[j] = trail[m]
            \/ j = k /\ names' = names + 1 /\ trail'[j][1].i = names'
    BY <1>4, <1>5
  <1>7. k \in Nat
    BY PlainRecords, <1>1
  <1> QED BY <1>1, <1>4, <1>6, <1>7, TrailStands

LEMMA AlterTrailStands ==
    ASSUME StampingInv, AlterTrail
    PROVE  StampingInv'
  <1> DEFINE n == LineCount(trail)
  <1>1. /\ Plain(trail) /\ names \in Nat /\ names + 1 \in Nat /\ n \in Nat
        /\ Altering \in Author /\ TrailsStood /\ trailId \in Nat
    BY PlainNow, PlainRecords, AuthorsAssumption DEF StampingInv
  <1>2. /\ Stands /\ clock' = clock /\ trailId' = trailId /\ UNCHANGED kept /\ Overtakes
    BY DEF AlterTrail
  <1>3. CASE (\E k \in 0 .. n : trail' = UpTo(trail, k)) /\ names' = names
    <2>1. PICK k \in 0 .. n : trail' = UpTo(trail, k)
      BY <1>3
    <2>2. Plain(trail') /\ LineCount(trail') = k /\ \A j \in 1 .. k : trail'[j] = trail[j]
      BY <1>1, <2>1, PlainUpTo
    <2>3. \A j \in 1 .. LineCount(trail') :
             j # 0 /\ \E m \in 1 .. LineCount(trail) : trail'[j] = trail[m]
      BY <1>1, <2>2
    <2>4. TrailsStood'
      BY <1>1, <1>2, <1>3, <2>2, <2>3, TrailStands
    <2> QED BY <1>1, <1>2, <2>4, OvertakenStands
  <1>4. ASSUME NEW k \in 1 .. n,
               names' = names + 1,
               trail' = [trail EXCEPT ![k] =
                            << [Fresh(Altering) EXCEPT
                                  !.trail = trail[k][1].trail, !.seq = trail[k][1].seq,
                                  !.prev = trail[k][1].prev] >>]
        PROVE  StampingInv'
    <2>1. k \in 1 .. LineCount(trail) /\ trail' = Put(trail, k, Other(trail, k, Altering, names + 1))
      BY <1>4 DEF Fresh, Other, Put
    <2>2. TrailsStood'
      BY <1>1, <1>2, <1>4, <2>1, OtherStands
    <2> QED BY <1>1, <1>2, <2>2, OvertakenStands
  <1> QED BY <1>3, <1>4 DEF AlterTrail, Alter

LEMMA MoveTrailStands ==
    ASSUME StampingInv, MoveTrail
    PROVE  StampingInv'
  <1>1. /\ trail' = Empty /\ names' = names /\ Stands /\ clock' = clock
        /\ trailId' = trailId + 1 /\ UNCHANGED kept /\ Overtakes
    BY DEF MoveTrail
  <1>2. Plain(trail') /\ LineCount(trail') = 0
    BY <1>1, PlainEmpty
  <1>3. \A k \in 1 .. LineCount(trail') :
            k # 0 /\ \E j \in 1 .. LineCount(trail) : trail'[k] = trail[j]
    BY <1>2
  <1>4. TrailsStood /\ trailId' \in Nat
    BY <1>1 DEF StampingInv
  <1>5. TrailsStood'
    BY <1>1, <1>2, <1>3, <1>4, TrailStands
  <1> QED BY <1>1, <1>4, <1>5, OvertakenStands
-----------------------------------------------------------------------------
(* The commands' steps.                                                    *)

LEMMA BackedMark ==
    ASSUME StampingInv, NEW c, NEW by, Backed(c, by)
    PROVE  c \in Mark /\ c.seq \in Nat \ {0}
  <1>1. PICK e \in stood : LineCount(e.b) > 0 /\ c = HeadOf(e.b)
    BY DEF Backed
  <1>2. Plain(e.b)
    BY DEF StampingInv, TrailsStood
  <1>3. HeadOf(e.b) \in Mark /\ HeadOf(e.b).seq = LineCount(e.b) /\ LineCount(e.b) \in Nat
    BY <1>1, <1>2, PlainHead, PlainRecords
  <1> QED BY <1>1, <1>3

(* Time passes over what was backed.                                       *)
LEMMA TimePasses ==
    ASSUME StampingInv, UNCHANGED <<trail, names, stood>>,
           clock' = clock \/ clock' = clock + 1
    PROVE  /\ TrailsStood' /\ clock \in Nat /\ clock' \in Nat /\ clock <= clock'
           /\ \A c, by : Backed(c, by) => Backed(c, by)'
           /\ \A c : Backed(c, clock) => Backed(c, clock)'
  <1>1. /\ TrailsStood /\ clock \in Nat /\ clock' \in Nat /\ clock <= clock'
        /\ \A e \in stood : e.at \in Nat
    BY DEF StampingInv, TrailsStood
  <1>2. TrailsStood'
    <2>1. \A e \in stood : e.at <= clock'
      <3>1. \A e \in stood : e.at <= clock
        BY <1>1 DEF TrailsStood
      <3> QED BY <1>1, <3>1
    <2> QED BY <1>1, <2>1 DEF TrailsStood
  <1>3. \A c, by : Backed(c, by) => Backed(c, by)'
    BY DEF Backed
  <1>4. ASSUME NEW c, Backed(c, clock) PROVE Backed(c, clock)'
    <2>1. PICK e \in stood : /\ e.at <= clock /\ LineCount(e.b) > 0
                             /\ TrailFindings(e.b) = {} /\ c = HeadOf(e.b)
      BY <1>4 DEF Backed
    <2>2. e.at <= clock'
      BY <1>1, <2>1
    <2> QED BY <2>1, <2>2 DEF Backed
  <1> QED BY <1>1, <1>2, <1>3, <1>4

(* One command's progress, the trail being left alone.                     *)
LEMMA HandMoves ==
    ASSUME StampingInv, UNCHANGED <<trail, names, stood>>,
           clock' = clock \/ clock' = clock + 1,
           NEW s \in Stamper, NEW x \in Progress, Hand(x)', Moves(s, x)
    PROVE  Hands'
  <1>1. /\ \A c, by : Backed(c, by) => Backed(c, by)'
        /\ \A c : Backed(c, clock) => Backed(c, clock)'
    BY TimePasses
  <1>2. stamper \in [Stamper -> Progress] /\ \A t \in Stamper : Hand(stamper[t])
    BY DEF StampingInv, Hands
  <1>3. /\ stamper' \in [Stamper -> Progress] /\ stamper'[s] = x
        /\ \A t \in Stamper : t # s => stamper'[t] = stamper[t]
    BY <1>2 DEF Moves
  <1>4. ASSUME NEW y, Hand(y) PROVE Hand(y)'
    BY <1>1, <1>4 DEF Hand
  <1>5. ASSUME NEW t \in Stamper PROVE Hand(stamper[t])'
    <2>1. CASE t = s
      BY <1>3, <2>1 DEF Hand
    <2>2. CASE t # s
      BY <1>2, <1>3, <1>4, <2>2 DEF Hand
    <2> QED BY <2>1, <2>2
  <1> QED BY <1>3, <1>5 DEF Hands

(* A command's step that leaves the stamps files as they are.              *)
LEMMA StepStands ==
    ASSUME StampingInv, UNCHANGED <<trail, names, stood, trailId, stamps, torn>>,
           clock' = clock \/ clock' = clock + 1,
           named' \in StampsFile \cup {None}, Hands'
    PROVE  StampingInv'
  <1>1. TrailsStood' /\ \A c, by : Backed(c, by) => Backed(c, by)'
    BY TimePasses
  <1> QED BY <1>1 DEF StampingInv, StampsBacked, StampsDiffer, Files

LEMMA MoveStampsStands == ASSUME StampingInv, MoveStamps PROVE StampingInv'
  <1>1. /\ UNCHANGED <<trail, names, stood, trailId, stamps, torn, clock, stamper>>
        /\ named' \in StampsFile \cup {None}
    BY DEF MoveStamps
  <1>2. Hands'
    BY <1>1 DEF StampingInv, Hands, Hand, Backed
  <1> QED BY <1>1, <1>2, StepStands

LEMMA CutStampsStands == ASSUME StampingInv, CutStamps PROVE StampingInv'
  <1>1. /\ UNCHANGED <<trail, names, stood, trailId, clock, named, stamper>>
        /\ torn' = [torn EXCEPT ![named] = FALSE]
    BY DEF CutStamps
  <1>2. /\ TrailsStood /\ trailId \in Nat /\ StampsBacked /\ StampsDiffer /\ Files /\ Hands
        /\ stamps \in [StampsFile -> Seq(StampLine)]
    BY DEF StampingInv, StampsBacked
  <1>3. named \in StampsFile
    BY <1>2 DEF CutStamps, Files
  <1>4. PICK k \in 0 .. Len(stamps[named]) - 1 :
            stamps' = [stamps EXCEPT ![named] = SubSeq(stamps[named], 1, k)]
    BY DEF CutStamps
  <1>5. ASSUME NEW f \in StampsFile
        PROVE  /\ stamps'[f] \in Seq(StampLine) /\ DOMAIN stamps'[f] \subseteq DOMAIN stamps[f]
               /\ \A j \in DOMAIN stamps'[f] : stamps'[f][j] = stamps[f][j]
    <2>1. stamps[f] \in Seq(StampLine)
      BY <1>2
    <2>2. CASE f # named
      BY <1>2, <1>4, <2>1, <2>2
    <2>3. CASE f = named
      <3> DEFINE q == stamps[f]
      <3>1. q \in Seq(StampLine) /\ k \in 0 .. Len(q) - 1 /\ stamps'[f] = SubSeq(q, 1, k)
        BY <1>2, <1>4, <2>1, <2>3
      <3> HIDE DEF q
      <3>2. /\ SubSeq(q, 1, k) \in Seq(StampLine)
            /\ DOMAIN SubSeq(q, 1, k) = 1 .. k /\ DOMAIN q = 1 .. Len(q)
            /\ \A j \in 1 .. k : SubSeq(q, 1, k)[j] = q[j]
        BY <3>1
      <3>3. 1 .. k \subseteq 1 .. Len(q)
        BY <3>1
      <3> QED BY <3>1, <3>2, <3>3 DEF q
    <2> QED BY <2>2, <2>3
  <1>6. stamps' \in [StampsFile -> Seq(StampLine)]
    <2>1. DOMAIN stamps' = StampsFile /\ stamps' = [f \in StampsFile |-> stamps'[f]]
      BY <1>2, <1>4
    <2> QED BY <1>5, <2>1
  <1>7. StampsBacked'
    <2>1. \A c, by : Backed(c, by) => Backed(c, by)'
      BY <1>1 DEF Backed
    <2> SUFFICES ASSUME NEW f \in StampsFile, NEW j \in DOMAIN stamps'[f]
                 PROVE  /\ stamps'[f][j].fresh = TRUE
                        /\ stamps'[f][j].trusted = TRUE =>
                              Backed(stamps[f][j].checkpoint, stamps[f][j].by)'
      BY <1>5, <1>6 DEF StampsBacked, Backed
    <2>2. j \in DOMAIN stamps[f] /\ stamps'[f][j] = stamps[f][j]
      BY <1>5
    <2>3. /\ stamps[f][j].fresh = TRUE
          /\ stamps[f][j].trusted = TRUE => Backed(stamps[f][j].checkpoint, stamps[f][j].by)
      BY <1>2, <2>2 DEF StampsBacked
    <2>4. stamps'[f][j].trusted = TRUE => Backed(stamps'[f][j].checkpoint, stamps'[f][j].by)
      BY <2>2, <2>3
    <2> QED BY <1>1, <2>2, <2>3, <2>4 DEF Backed
  <1>8. StampsDiffer'
    <2> SUFFICES ASSUME NEW f \in StampsFile, NEW j \in DOMAIN stamps'[f],
                        NEW m \in DOMAIN stamps'[f], j # m, stamps'[f][j].checkpoint # None
                 PROVE  stamps'[f][j].checkpoint # stamps'[f][m].checkpoint
      BY DEF StampsDiffer
    <2>1. /\ j \in DOMAIN stamps[f] /\ m \in DOMAIN stamps[f]
          /\ stamps'[f][j] = stamps[f][j] /\ stamps'[f][m] = stamps[f][m]
      BY <1>5
    <2> QED BY <1>2, <2>1 DEF StampsDiffer
  <1>9. Files'
    BY <1>1, <1>2, <1>3 DEF Files
  <1>10. TrailsStood' /\ Hands'
    BY <1>1, <1>2 DEF TrailsStood, Hands, Hand, Backed
  <1> QED BY <1>1, <1>2, <1>7, <1>8, <1>9, <1>10 DEF StampingInv
(* The trail opened: its head is of a trail that stands now.               *)
LEMMA OpenTrailStands ==
    ASSUME StampingInv, NEW s \in Stamper, OpenTrail(s)
    PROVE  StampingInv'
  <1>1. /\ UNCHANGED <<trail, names, stood, trailId, stamps, torn, clock, named>>
        /\ CleanHead(trail) # None
        /\ Moves(s, [Waiting EXCEPT !.pc = "look", !.checkpoint = CleanHead(trail),
                                    !.id = trailId, !.size = LineCount(trail)])
    BY DEF OpenTrail, file, kept
  <1>2. Plain(trail) /\ LineCount(trail) \in Nat /\ trailId \in Nat /\ clock \in Nat
    BY PlainNow, PlainRecords DEF StampingInv, TrailsStood
  <1>3. LineCount(trail) > 0 /\ TrailFindings(trail) = {} /\ CleanHead(trail) = HeadOf(trail)
        /\ HeadOf(trail) \in Mark
    BY <1>1, <1>2, PlainClean, PlainHead
  <1>4. Backed(CleanHead(trail), clock)
    <2>1. PICK e \in stood : e.b = trail
      BY DEF StampingInv, TrailsStood
    <2>2. e.at <= clock
      BY DEF StampingInv, TrailsStood
    <2> QED BY <1>3, <2>1, <2>2 DEF Backed
  <1>5. PICK x : /\ x = [Waiting EXCEPT !.pc = "look", !.checkpoint = CleanHead(trail),
                                        !.id = trailId, !.size = LineCount(trail)]
                 /\ Moves(s, x)
    BY <1>1
  <1>6. /\ x \in Progress /\ x.pc = "look" /\ x.checkpoint = CleanHead(trail)
    <2>1. Waiting \in Progress /\ CleanHead(trail) \in Mark
      BY <1>3, WaitingHand
    <2> QED BY <1>2, <1>5, <2>1 DEF Progress
  <1>7. Hand(x)'
    BY <1>1, <1>3, <1>4, <1>6 DEF Hand, Backed
  <1>8. Hands'
    BY <1>1, <1>5, <1>6, <1>7, HandMoves
  <1>9. named' \in StampsFile \cup {None}
    BY <1>1 DEF StampingInv, Files
  <1> QED BY <1>1, <1>8, <1>9, StepStands

(* A command that waits again.                                             *)
LEMMA WaitStands ==
    ASSUME StampingInv, UNCHANGED <<trail, names, stood, trailId, stamps, torn, clock>>,
           named' \in StampsFile \cup {None}, NEW s \in Stamper, Moves(s, Waiting)
    PROVE  StampingInv'
  <1>1. Hands'
    BY WaitingHand, HandMoves
  <1> QED BY <1>1, StepStands

LEMMA LookStands ==
    ASSUME StampingInv, NEW s \in Stamper, Look(s)
    PROVE  StampingInv'
  <1>1. /\ UNCHANGED <<trail, names, stood, trailId, stamps, torn, clock, named>>
        /\ stamper[s].pc = "look"
        /\ Moves(s, Waiting) \/ Moves(s, [stamper[s] EXCEPT !.pc = "hold"])
    BY DEF Look, file, kept
  <1>2. stamper[s] \in Progress /\ Hand(stamper[s]) /\ named' \in StampsFile \cup {None}
    BY <1>1 DEF StampingInv, Hands, Files
  <1>3. CASE Moves(s, [stamper[s] EXCEPT !.pc = "hold"])
    <2>1. PICK y : y = stamper[s]
      OBVIOUS
    <2>2. PICK x : x = [y EXCEPT !.pc = "hold"]
      OBVIOUS
    <2>3. x \in Progress /\ x.pc = "hold" /\ x.checkpoint = y.checkpoint
      BY <1>2, <2>1, <2>2 DEF Progress
    <2>4. Hand(x)'
      BY <1>1, <1>2, <2>1, <2>3 DEF Hand, Backed
    <2>5. Moves(s, x)
      BY <1>3, <2>1, <2>2
    <2>6. Hands'
      BY <1>1, <2>3, <2>4, <2>5, HandMoves
    <2> QED BY <1>1, <1>2, <2>6, StepStands
  <1>4. CASE Moves(s, Waiting)
    BY <1>1, <1>2, <1>4, WaitStands
  <1> QED BY <1>1, <1>3, <1>4

LEMMA HoldStands ==
    ASSUME StampingInv, NEW s \in Stamper, Hold(s)
    PROVE  StampingInv'
  <1>1. /\ UNCHANGED <<trail, names, stood, trailId, stamps, torn, clock>>
        /\ stamper[s].pc = "hold"
    BY DEF Hold, file
  <1>2. PICK f \in StampsFile :
          /\ named' = f
          /\ \/ Moves(s, Waiting)
             \/ Moves(s, [stamper[s] EXCEPT !.pc = "ask", !.held = f, !.floor = Len(stamps[f])])
    BY DEF Hold
  <1>3. stamper[s] \in Progress /\ Hand(stamper[s]) /\ named' \in StampsFile \cup {None}
        /\ Len(stamps[f]) \in Nat
    BY <1>2 DEF StampingInv, Hands, StampsBacked
  <1>4. CASE Moves(s, [stamper[s] EXCEPT !.pc = "ask", !.held = f, !.floor = Len(stamps[f])])
    <2>1. PICK y : y = stamper[s]
      OBVIOUS
    <2>2. PICK x : x = [y EXCEPT !.pc = "ask", !.held = f, !.floor = Len(stamps[f])]
      OBVIOUS
    <2>3. x \in Progress /\ x.pc = "ask" /\ x.checkpoint = y.checkpoint /\ x.held = f
      BY <1>3, <2>1, <2>2 DEF Progress
    <2>4. Hand(x)'
      BY <1>1, <1>3, <2>1, <2>3 DEF Hand, Backed
    <2>5. Moves(s, x)
      BY <1>4, <2>1, <2>2
    <2>6. Hands'
      BY <1>1, <2>3, <2>4, <2>5, HandMoves
    <2> QED BY <1>1, <1>3, <2>6, StepStands
  <1>5. CASE Moves(s, Waiting)
    BY <1>1, <1>3, <1>5, WaitStands
  <1> QED BY <1>2, <1>4, <1>5

(* The time the authority answers with is not before what it stamps stood. *)
LEMMA AskStands ==
    ASSUME StampingInv, NEW s \in Stamper, Ask(s)
    PROVE  StampingInv'
  <1>1. /\ UNCHANGED <<trail, names, stood, trailId, stamps, torn, named>>
        /\ stamper[s].pc = "ask"
        /\ \/ clock' = clock + 1 /\ Moves(s, [stamper[s] EXCEPT !.pc = "lock", !.by = clock])
           \/ clock' = clock /\ Moves(s, Waiting)
    BY DEF Ask, file, kept
  <1>2. stamper[s] \in Progress /\ Hand(stamper[s]) /\ named' \in StampsFile \cup {None}
        /\ clock \in Nat
    BY <1>1 DEF StampingInv, Hands, Files, TrailsStood
  <1>3. CASE clock' = clock + 1 /\ Moves(s, [stamper[s] EXCEPT !.pc = "lock", !.by = clock])
    <2>1. PICK y : y = stamper[s]
      OBVIOUS
    <2>2. PICK x : x = [y EXCEPT !.pc = "lock", !.by = clock]
      OBVIOUS
    <2>3. x \in Progress /\ x.pc = "lock" /\ x.checkpoint = y.checkpoint /\ x.held = y.held
          /\ x.by = clock
      BY <1>2, <2>1, <2>2 DEF Progress
    <2>4. y.checkpoint \in Mark /\ Backed(y.checkpoint, clock) /\ y.held \in StampsFile
      BY <1>1, <1>2, <2>1 DEF Hand
    <2>5. Backed(y.checkpoint, x.by)' /\ Backed(y.checkpoint, clock)'
      <3>1. /\ \A c, by : Backed(c, by) => Backed(c, by)'
            /\ \A c : Backed(c, clock) => Backed(c, clock)'
        BY <1>1, <1>3, TimePasses
      <3>2. Backed(y.checkpoint, x.by)
        BY <2>3, <2>4
      <3> QED BY <2>4, <3>1, <3>2
    <2>6. Hand(x)'
      BY <2>3, <2>4, <2>5 DEF Hand
    <2>7. Moves(s, x)
      BY <1>3, <2>1, <2>2
    <2>8. Hands'
      BY <1>1, <1>3, <2>3, <2>6, <2>7, HandMoves
    <2> QED BY <1>1, <1>2, <1>3, <2>8, StepStands
  <1>4. CASE clock' = clock /\ Moves(s, Waiting)
    BY <1>1, <1>2, <1>4, WaitStands
  <1> QED BY <1>1, <1>3, <1>4

LEMMA LockStands ==
    ASSUME StampingInv, NEW s \in Stamper, Lock(s)
    PROVE  StampingInv'
  <1>1. /\ UNCHANGED <<trail, names, stood, trailId, stamps, torn, named, clock>>
        /\ stamper[s].pc = "lock" /\ Moves(s, [stamper[s] EXCEPT !.pc = "check"])
    BY DEF Lock, file
  <1>2. stamper[s] \in Progress /\ Hand(stamper[s]) /\ named' \in StampsFile \cup {None}
    BY <1>1 DEF StampingInv, Hands, Files
  <1>3. PICK y : y = stamper[s]
    OBVIOUS
  <1>4. PICK x : x = [y EXCEPT !.pc = "check"]
    OBVIOUS
  <1>5. x \in Progress /\ x.pc = "check" /\ x.checkpoint = y.checkpoint /\ x.held = y.held
        /\ x.by = y.by
    BY <1>2, <1>3, <1>4 DEF Progress
  <1>6. Hand(x)'
    BY <1>1, <1>2, <1>3, <1>5 DEF Hand, Backed
  <1>7. Moves(s, x)
    BY <1>1, <1>3, <1>4
  <1>8. Hands'
    BY <1>1, <1>5, <1>6, <1>7, HandMoves
  <1> QED BY <1>1, <1>2, <1>8, StepStands

(* The checkpoint is of a record the trail holds.                          *)
LEMMA CheckStands ==
    ASSUME StampingInv, NEW s \in Stamper, Check(s)
    PROVE  StampingInv'
  <1>1. /\ UNCHANGED <<trail, names, stood, trailId, stamps, torn, named, clock>>
        /\ stamper[s].pc = "check"
        /\ \/ StillTheStampedTrail(s) /\ Moves(s, [stamper[s] EXCEPT !.pc = "append"])
           \/ Moves(s, Waiting)
    BY DEF Check, file
  <1>2. stamper[s] \in Progress /\ Hand(stamper[s]) /\ named' \in StampsFile \cup {None}
    BY <1>1 DEF StampingInv, Hands, Files
  <1>3. CASE StillTheStampedTrail(s) /\ Moves(s, [stamper[s] EXCEPT !.pc = "append"])
    <2>1. PICK y : y = stamper[s]
      OBVIOUS
    <2>2. PICK x : x = [y EXCEPT !.pc = "append"]
      OBVIOUS
    <2>3. x \in Progress /\ x.pc = "append" /\ x.checkpoint = y.checkpoint /\ x.held = y.held
          /\ x.by = y.by
      BY <1>2, <2>1, <2>2 DEF Progress
    <2>4. y.size \in Nat /\ LineCount(trail) >= y.size
          /\ HoldCheckpoint(UpTo(trail, y.size), y.checkpoint) = "none"
      BY <1>2, <1>3, <2>1 DEF StillTheStampedTrail, Progress
    <2>5. HoldCheckpoint(trail, y.checkpoint) = "none"
      <3> DEFINE c == y.checkpoint
                 u == UpTo(trail, y.size)
      <3>1. Plain(trail) /\ LineCount(trail) \in Nat /\ y.size \in 0 .. LineCount(trail)
        BY <2>4, PlainNow, PlainRecords
      <3>2. /\ Plain(u) /\ LineCount(u) = y.size
            /\ \A k \in 1 .. y.size : u[k] = trail[k]
        BY <3>1, PlainUpTo
      <3>3. c.seq \in Nat \ {0}
        <4>1. Backed(c, clock)
          BY <1>1, <1>2, <2>1 DEF Hand
        <4> HIDE DEF c
        <4> QED BY <4>1, BackedMark
      <3> HIDE DEF c, u
      <3>4. c.seq <= y.size /\ u[c.seq][1].trail = c.trail /\ LineDigest(u[c.seq]) = c.digest
        <4>1. HoldCheckpoint(u, c) = "none"
          BY <2>4 DEF c, u
        <4> QED BY <3>2, <3>3, <4>1, PlainHolds
      <3>5. c.seq \in 1 .. y.size /\ c.seq <= LineCount(trail)
        BY <2>4, <3>1, <3>3, <3>4
      <3>6. trail[c.seq][1].trail = c.trail /\ LineDigest(trail[c.seq]) = c.digest
        BY <3>2, <3>4, <3>5
      <3>7. HoldCheckpoint(trail, c) = "none"
        BY <3>1, <3>3, <3>5, <3>6, PlainHolds
      <3> QED BY <3>7 DEF c
    <2>6. Hand(x)'
      BY <1>1, <1>2, <2>1, <2>3, <2>5 DEF Hand, Backed
    <2>7. Moves(s, x)
      BY <1>3, <2>1, <2>2
    <2>8. Hands'
      BY <1>1, <2>3, <2>6, <2>7, HandMoves
    <2> QED BY <1>1, <1>2, <2>8, StepStands
  <1>4. CASE Moves(s, Waiting)
    BY <1>1, <1>2, <1>4, WaitStands
  <1> QED BY <1>1, <1>3, <1>4
(* A stamp kept: of a checkpoint that is in no complete line of the file.  *)
LEMMA RecordStampStands ==
    ASSUME StampingInv, NEW s \in Stamper, RecordStamp(s)
    PROVE  StampingInv'
  <1>1. /\ UNCHANGED <<trail, names, stood, trailId, named, clock>>
        /\ stamper[s].pc = "append" /\ Moves(s, Waiting)
    BY DEF RecordStamp, file
  <1>2. /\ stamper[s] \in Progress /\ Hand(stamper[s]) /\ named' \in StampsFile \cup {None}
        /\ StampsBacked /\ StampsDiffer /\ stamps \in [StampsFile -> Seq(StampLine)]
        /\ torn \in [StampsFile -> BOOLEAN]
    BY <1>1 DEF StampingInv, Hands, Files, StampsBacked
  <1>3. CASE UNCHANGED <<stamps, torn>>
    BY <1>1, <1>2, <1>3, WaitStands
  <1>4. CASE ~ UNCHANGED <<stamps, torn>>
    <2>1. PICK f : f = stamper[s].held
      OBVIOUS
    <2>2. PICK c : c = stamper[s].checkpoint
      OBVIOUS
    <2>3. PICK fresh : fresh = (stamper[s].raced \/ HoldCheckpoint(trail, c) = "none")
      OBVIOUS
    <2>4. PICK line : line = [checkpoint |-> c, by |-> stamper[s].by, trusted |-> TRUE,
                              fresh |-> fresh]
      OBVIOUS
    <2>5. PICK q : q = stamps[f]
      OBVIOUS
    <2>6. PICK before : before = IF torn[f] THEN [q EXCEPT ![Len(q)] = Junk] ELSE q
      OBVIOUS
    <2>7. /\ ~ RefusesAppend(s)
          /\ stamps' = [stamps EXCEPT ![f] = Append(before, line)]
          /\ \E cut \in BOOLEAN : torn' = [torn EXCEPT ![f] = cut]
      BY <1>4, <2>1, <2>2, <2>3, <2>4, <2>5, <2>6 DEF RecordStamp
    <2>8. /\ f \in StampsFile /\ c \in Mark /\ Backed(c, stamper[s].by)
          /\ stamper[s].by \in Nat /\ fresh = TRUE /\ q \in Seq(StampLine)
      <3>1. stamper[s].raced \in BOOLEAN /\ stamper[s].by \in Nat
        BY <1>2 DEF Progress
      <3> QED BY <1>1, <1>2, <2>1, <2>2, <2>3, <2>5, <3>1 DEF Hand
    <2>9. line \in StampLine /\ line.checkpoint = c /\ line.by = stamper[s].by
          /\ line.trusted = TRUE /\ line.fresh = TRUE
      BY <2>4, <2>8 DEF StampLine
    <2>10. Junk \in StampLine /\ Junk.checkpoint = None /\ Junk.trusted = FALSE
           /\ Junk.fresh = TRUE
      BY DEF Junk, StampLine
    <2>11. /\ before \in Seq(StampLine) /\ Len(before) = Len(q) /\ Len(q) \in Nat
           /\ DOMAIN q = 1 .. Len(q)
           /\ \A j \in 1 .. Len(q) :
                 before[j] = IF torn[f] /\ j = Len(q) THEN Junk ELSE q[j]
      <3>1. Len(q) \in Nat /\ DOMAIN q = 1 .. Len(q)
        BY <2>8
      <3>2. CASE torn[f] /\ Len(q) \in 1 .. Len(q)
        <4>1. before = [q EXCEPT ![Len(q)] = Junk]
          BY <2>6, <3>2
        <4> QED BY <2>8, <2>10, <3>1, <3>2, <4>1, ExceptSeq
      <3>3. CASE torn[f] /\ Len(q) \notin 1 .. Len(q)
        <4>1. before = [q EXCEPT ![Len(q)] = Junk] /\ q = << >>
          BY <2>6, <2>8, <3>1, <3>3
        <4>2. before = q
          BY <4>1
        <4> QED BY <2>8, <3>1, <3>3, <4>2
      <3>4. CASE ~ torn[f]
        BY <2>6, <2>8, <3>1, <3>4
      <3> QED BY <3>2, <3>3, <3>4
    <2>12. PICK after : after = Append(before, line)
      OBVIOUS
    <2>13. /\ after \in Seq(StampLine) /\ DOMAIN after = 1 .. Len(q) + 1
           /\ after[Len(q) + 1] = line
           /\ \A j \in 1 .. Len(q) : after[j] = before[j]
      BY <2>9, <2>11, <2>12
    <2>14. /\ stamps'[f] = after /\ stamps' \in [StampsFile -> Seq(StampLine)]
           /\ \A g \in StampsFile : g # f => stamps'[g] = stamps[g]
      BY <1>2, <2>7, <2>8, <2>12, <2>13
    <2>15. \A j \in 1 .. Len(q) : after[j] = q[j] \/ after[j] = Junk
      BY <2>11, <2>13
    <2>16. \A j \in 1 .. Len(q) : after[j] = Junk \/ after[j].checkpoint # c
      <3> SUFFICES ASSUME NEW j \in 1 .. Len(q), after[j] # Junk
                   PROVE  after[j].checkpoint # c
        OBVIOUS
      <3>1. ~ (torn[f] /\ j = Len(q)) /\ after[j] = q[j]
        BY <2>11, <2>13
      <3>2. q[j] \in Lines(f)
        BY <2>5, <2>11, <3>1 DEF Lines
      <3>3. ~ HoldsStamp(f, c)
        BY <2>1, <2>2, <2>7 DEF RefusesAppend
      <3> QED BY <3>1, <3>2, <3>3 DEF HoldsStamp
    <2>17. StampsBacked'
      <3>1. \A x, by : Backed(x, by) => Backed(x, by)'
        BY <1>1 DEF Backed
      <3>2. ASSUME NEW g \in StampsFile, NEW j \in DOMAIN stamps'[g]
            PROVE  /\ stamps'[g][j].fresh = TRUE
                   /\ stamps'[g][j].trusted = TRUE =>
                         Backed(stamps'[g][j].checkpoint, stamps'[g][j].by)
        <4>1. CASE g = f /\ j = Len(q) + 1
          BY <2>8, <2>9, <2>13, <2>14, <4>1
        <4>2. CASE g = f /\ j # Len(q) + 1
          <5>1. j \in 1 .. Len(q) /\ stamps'[g][j] = after[j]
            BY <2>11, <2>13, <2>14, <4>2
          <5>2. CASE after[j] = q[j]
            BY <1>2, <2>5, <2>8, <2>11, <4>2, <5>1, <5>2 DEF StampsBacked
          <5>3. CASE after[j] = Junk
            BY <2>10, <5>1, <5>3
          <5> QED BY <2>15, <5>1, <5>2, <5>3
        <4>3. CASE g # f
          BY <1>2, <2>14, <4>3 DEF StampsBacked
        <4> QED BY <4>1, <4>2, <4>3
      <3> QED BY <1>1, <2>14, <3>2 DEF StampsBacked, Backed
    <2>18. StampsDiffer'
      <3> SUFFICES ASSUME NEW g \in StampsFile, NEW j \in DOMAIN stamps'[g],
                          NEW m \in DOMAIN stamps'[g], j # m, stamps'[g][j].checkpoint # None
                   PROVE  stamps'[g][j].checkpoint # stamps'[g][m].checkpoint
        BY DEF StampsDiffer
      <3>1. CASE g # f
        BY <1>2, <2>14, <3>1 DEF StampsDiffer
      <3>2. CASE g = f
        <4>1. /\ j \in 1 .. Len(q) + 1 /\ m \in 1 .. Len(q) + 1
              /\ after[j].checkpoint # None /\ stamps'[g] = after
          BY <2>13, <2>14, <3>2
        <4>2. j \in 1 .. Len(q) \/ j = Len(q) + 1
          BY <2>11, <4>1
        <4>3. m \in 1 .. Len(q) \/ m = Len(q) + 1
          BY <2>11, <4>1
        <4>4. after[j].checkpoint # after[m].checkpoint
          <5>1. CASE j = Len(q) + 1
            BY <2>9, <2>10, <2>13, <2>16, <4>1, <4>3, <5>1
          <5>2. CASE j \in 1 .. Len(q) /\ m = Len(q) + 1
            BY <2>9, <2>10, <2>13, <2>16, <4>1, <5>2
          <5>3. CASE j \in 1 .. Len(q) /\ m \in 1 .. Len(q)
            <6>1. after[j] = q[j]
              BY <2>10, <2>15, <4>1, <5>3
            <6>2. CASE after[m] = Junk
              BY <2>10, <4>1, <6>2
            <6>3. CASE after[m] = q[m]
              <7>1. j \in DOMAIN stamps[f] /\ m \in DOMAIN stamps[f]
                BY <2>5, <2>11, <5>3
              <7> QED BY <1>2, <2>5, <2>8, <4>1, <6>1, <6>3, <7>1 DEF StampsDiffer
            <6> QED BY <2>15, <5>3, <6>2, <6>3
          <5> QED BY <4>2, <4>3, <5>1, <5>2, <5>3
        <4> QED BY <4>1, <4>4
      <3> QED BY <3>1, <3>2
    <2>19. Files'
      BY <1>2, <2>7, <2>8 DEF Files
    <2>20. TrailsStood' /\ Hands'
      BY <1>1, WaitingHand, HandMoves, TimePasses
    <2> QED BY <1>1, <2>17, <2>18, <2>19, <2>20 DEF StampingInv
  <1> QED BY <1>3, <1>4

-----------------------------------------------------------------------------
(* The properties.                                                         *)

THEOREM StampingStands == Spec => []StampingInv
  <1>1. Init => StampingInv
    BY InitStamping
  <1>2. StampingInv /\ [Next]_vars => StampingInv'
    <2> SUFFICES ASSUME StampingInv, [Next]_vars PROVE StampingInv'
      OBVIOUS
    <2>1. CASE AppendRecord
      BY <2>1, AppendRecordStands
    <2>2. CASE AlterTrail
      BY <2>2, AlterTrailStands
    <2>3. CASE MoveTrail
      BY <2>3, MoveTrailStands
    <2>4. CASE MoveStamps
      BY <2>4, MoveStampsStands
    <2>5. CASE CutStamps
      BY <2>5, CutStampsStands
    <2>6. ASSUME NEW s \in Stamper, OpenTrail(s) PROVE StampingInv'
      BY <2>6, OpenTrailStands
    <2>7. ASSUME NEW s \in Stamper, Look(s) PROVE StampingInv'
      BY <2>7, LookStands
    <2>8. ASSUME NEW s \in Stamper, Hold(s) PROVE StampingInv'
      BY <2>8, HoldStands
    <2>9. ASSUME NEW s \in Stamper, Ask(s) PROVE StampingInv'
      BY <2>9, AskStands
    <2>10. ASSUME NEW s \in Stamper, Lock(s) PROVE StampingInv'
      BY <2>10, LockStands
    <2>11. ASSUME NEW s \in Stamper, Check(s) PROVE StampingInv'
      BY <2>11, CheckStands
    <2>12. ASSUME NEW s \in Stamper, RecordStamp(s) PROVE StampingInv'
      BY <2>12, RecordStampStands
    <2>13. CASE UNCHANGED vars
      <3>1. UNCHANGED <<trail, names, stood, trailId, clock, stamper>> /\ UNCHANGED kept
        BY <2>13 DEF vars, file
      <3>2. TrailsStood' /\ Hands'
        BY <3>1 DEF StampingInv, TrailsStood, Hands, Hand, Backed
      <3>3. StampsBacked' /\ StampsDiffer' /\ Files' /\ trailId' \in Nat
        BY <3>1 DEF StampingInv, StampsBacked, StampsDiffer, Files, Backed, kept
      <3> QED BY <3>2, <3>3 DEF StampingInv
    <2> QED BY <2>1, <2>2, <2>3, <2>4, <2>5, <2>6, <2>7, <2>8, <2>9, <2>10, <2>11, <2>12,
               <2>13 DEF Next
  <1> QED BY <1>1, <1>2, PTL DEF Spec

(* A line that lends its time to a record: the lines up to the record were *)
(* the trail's by then.                                                    *)
LEMMA LentIsTrue ==
    ASSUME StampingInv, NEW f \in StampsFile, NEW s \in Lends(trail, Lines(f))
    PROVE  /\ s.by \in Nat /\ s.checkpoint.seq \in 0 .. LineCount(trail)
           /\ \A n \in 1 .. s.checkpoint.seq :
                 \E e \in stood : /\ e.at <= s.by /\ LineCount(e.b) >= n
                                  /\ UpTo(e.b, n) = UpTo(trail, n)
  <1>1. /\ s \in Lines(f) /\ s.trusted /\ HoldCheckpoint(trail, s.checkpoint) = "none"
        /\ Clear(TrailFindings(trail), s.checkpoint.seq)
    BY DEF Lends, Clear
  <1>2. PICK k \in DOMAIN stamps[f] : s = stamps[f][k]
    BY <1>1 DEF Lines
  <1>3. s \in StampLine /\ (s.trusted = TRUE => Backed(s.checkpoint, s.by))
    <2>1. stamps[f] \in Seq(StampLine)
      BY DEF StampingInv, StampsBacked
    <2>2. stamps[f][k] \in StampLine
      BY <1>2, <2>1
    <2> QED BY <1>2, <2>2 DEF StampingInv, StampsBacked
  <1>4. Backed(s.checkpoint, s.by) /\ s.by \in Nat
    <2>1. s.trusted \in BOOLEAN /\ s.by \in Nat
      BY <1>3 DEF StampLine
    <2> QED BY <1>1, <1>3, <2>1
  <1>5. PICK e \in stood : /\ e.at <= s.by /\ LineCount(e.b) > 0
                           /\ TrailFindings(e.b) = {} /\ s.checkpoint = HeadOf(e.b)
    BY <1>4 DEF Backed
  <1>6. Plain(e.b) /\ Plain(trail) /\ SameNames(e.b, trail)
    BY DEF StampingInv, TrailsStood
  <1>7. /\ s.checkpoint.seq = LineCount(e.b) /\ LineCount(e.b) <= LineCount(trail)
        /\ \A k1 \in 1 .. LineCount(e.b) : e.b[k1] = trail[k1]
    BY <1>1, <1>5, <1>6, HeadHolds
  <1>8. LineCount(e.b) \in Nat /\ LineCount(trail) \in Nat
    BY <1>6, PlainRecords
  <1>9. ASSUME NEW n \in 1 .. s.checkpoint.seq
        PROVE  LineCount(e.b) >= n /\ UpTo(e.b, n) = UpTo(trail, n)
    <2>1. n \in Nat /\ n <= LineCount(e.b)
      BY <1>7, <1>8
    <2>2. \A m \in 1 .. n : e.b[m] = trail[m]
      BY <1>7, <1>8, <2>1
    <2> QED BY <1>8, <2>1, <2>2, UpToAgree
  <1>10. s.checkpoint.seq \in 0 .. LineCount(trail)
    BY <1>7, <1>8
  <1> QED BY <1>4, <1>5, <1>9, <1>10

(* The time a record is covered by is one by which its lines stood, and a  *)
(* token is kept only for a record the trail holds then.                   *)
THEOREM TimesAreTrue == Spec => []StampsTrue
  <1>1. StampingInv => StampsTrue
    <2> SUFFICES ASSUME StampingInv PROVE StampsTrue
      OBVIOUS
    <2>1. ASSUME NEW f \in StampsFile, NEW line \in Lines(f) PROVE line.fresh
      <3>1. PICK k \in DOMAIN stamps[f] : line = stamps[f][k]
        BY <2>1 DEF Lines
      <3> QED BY <3>1 DEF StampingInv, StampsBacked
    <2>2. ASSUME NEW f \in StampsFile, NEW n \in 1 .. StampedThrough(trail, Lines(f))
          PROVE  \E e \in stood : /\ e.at <= CoveredBy(trail, Lines(f), n)
                                  /\ LineCount(e.b) >= n /\ UpTo(e.b, n) = UpTo(trail, n)
      <3> DEFINE L == Lends(trail, Lines(f))
                 reached == {0} \cup {s.checkpoint.seq : s \in L}
                 lent == {s.by : s \in {t \in L : t.checkpoint.seq >= n}}
      <3>1. LineCount(trail) \in Nat
        BY PlainNow, PlainRecords
      <3>2. \A s \in L : s.by \in Nat /\ s.checkpoint.seq \in 0 .. LineCount(trail)
        BY LentIsTrue
      <3>3. n \in 1 .. Max(reached)
        BY DEF StampedThrough
      <3>4. CoveredBy(trail, Lines(f), n) = Min(lent)
        BY DEF CoveredBy
      <3> HIDE DEF L
      <3>5. reached \subseteq 0 .. LineCount(trail) /\ reached # {}
        BY <3>1, <3>2
      <3>6. Max(reached) \in reached
        <4> HIDE DEF reached
        <4> QED BY <3>1, <3>5, MaxOf
      <3>7. PICK s \in L : s.checkpoint.seq >= n
        <4>1. Max(reached) # 0
          <5>1. Max(reached) \in 0 .. LineCount(trail)
            BY <3>5, <3>6
          <5> QED BY <3>3, <5>1
        <4>2. PICK s \in L : Max(reached) = s.checkpoint.seq
          <5> DEFINE m == Max(reached)
          <5>1. m \in reached /\ m # 0
            BY <3>6, <4>1
          <5> HIDE DEF m
          <5>2. \E s \in L : m = s.checkpoint.seq
            BY <5>1
          <5> QED BY <5>2 DEF m
        <4>3. s.checkpoint.seq \in 0 .. LineCount(trail) /\ n \in 1 .. s.checkpoint.seq
          BY <3>2, <3>3, <4>2
        <4> QED BY <3>1, <4>3
      <3>8. lent \subseteq Nat /\ lent # {}
        BY <3>2, <3>7
      <3>9. Min(lent) \in lent
        <4> HIDE DEF lent
        <4> QED BY <3>8, MinOf
      <3>10. PICK t \in L : t.checkpoint.seq >= n /\ t.by = Min(lent)
        <4> DEFINE m == Min(lent)
        <4>1. m \in lent
          BY <3>9
        <4> HIDE DEF m
        <4>2. \E t \in L : t.checkpoint.seq >= n /\ t.by = m
          BY <4>1
        <4> QED BY <4>2 DEF m
      <3>11. n \in 1 .. t.checkpoint.seq
        <4>1. t.checkpoint.seq \in 0 .. LineCount(trail) /\ n \in Int /\ n >= 1
          BY <3>2, <3>3
        <4> QED BY <3>1, <3>10, <4>1
      <3>12. t \in Lends(trail, Lines(f))
        BY DEF L
      <3>13. PICK e \in stood : /\ e.at <= t.by /\ LineCount(e.b) >= n
                                /\ UpTo(e.b, n) = UpTo(trail, n)
        BY <3>11, <3>12, LentIsTrue
      <3> QED BY <3>4, <3>10, <3>13
    <2> QED BY <2>1, <2>2 DEF StampsTrue
  <1> QED BY <1>1, StampingStands, PTL

(* A stamps file holds one stamp of a checkpoint, whatever was cut short,  *)
(* cut off or asked for twice.                                             *)
THEOREM StampedOnce == Spec => []OneStampEach
  <1>1. StampingInv => OneStampEach
    BY DEF StampingInv, StampsDiffer, OneStampEach
  <1> QED BY <1>1, StampingStands, PTL
=============================================================================
