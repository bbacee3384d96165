-------------------------- MODULE WitnessingProofs --------------------------
(***************************************************************************)
(* What a verification says is witnessed or countersigned, for every       *)
(* number of readers, statements, records and alterations: the lines it    *)
(* vouches for are those of the trail the checkpoint was given for.  And   *)
(* what the continuation file holds is what a whole reading ends with.     *)
(***************************************************************************)
EXTENDS Witnessing, TrailChainProofs, FiniteSetTheorems

-----------------------------------------------------------------------------
(* Files of lines of one record, and one record more.                      *)

(* No line is a record behind another's unfinished one.                    *)
Single(b) ==
    /\ b \in Bytes /\ Len(TailOf(b)) <= 1
    /\ \A k \in 1 .. LineCount(b) : Len(b[k]) = 1

(* Every line of a file is empty, another's, or one record.                *)
Holds(c, b, q) ==
    \A k \in DOMAIN c : \/ c[k] = << >> \/ c[k] = << q >>
                        \/ \E j \in DOMAIN b : c[k] = b[j]

(* One file goes on from another, with this line next if with any.         *)
GoesOn(c, b, line) ==
    /\ LineCount(c) \in Nat /\ LineCount(b) <= LineCount(c)
    /\ \A k \in 1 .. LineCount(b) : c[k] = b[k]
    /\ LineCount(c) > LineCount(b) => c[LineCount(b) + 1] = line

LEMMA HoldsPieces ==
    ASSUME NEW c, NEW b, NEW q, Holds(c, b, q)
    PROVE  \A p \in PiecesIn(c) : p = q \/ p \in PiecesIn(b)
  <1> SUFFICES ASSUME NEW p \in PiecesIn(c) PROVE p = q \/ p \in PiecesIn(b)
    OBVIOUS
  <1>1. PICK k \in DOMAIN c : p \in {c[k][n] : n \in DOMAIN c[k]}
    BY Zenon DEF PiecesIn
  <1>2. PICK n \in DOMAIN c[k] : p = c[k][n]
    BY <1>1
  <1>3. CASE c[k] = << >>
    BY <1>2, <1>3
  <1>4. CASE c[k] = << q >>
    <2>1. DOMAIN << q >> = {1} /\ << q >>[1] = q
      BY OnePiece
    <2> QED BY <1>2, <1>4, <2>1
  <1>5. CASE \E j \in DOMAIN b : c[k] = b[j]
    <2>1. PICK j \in DOMAIN b : c[k] = b[j]
      BY <1>5
    <2> DEFINE Of(i) == {b[i][m] : m \in DOMAIN b[i]}
    <2>2. p \in Of(j) /\ Of(j) \in {Of(i) : i \in DOMAIN b}
      BY <1>2, <2>1
    <2>3. p \in UNION {Of(i) : i \in DOMAIN b}
      BY <2>2, Zenon
    <2> QED BY <2>3, Zenon DEF PiecesIn
  <1>6. c[k] = << >> \/ c[k] = << q >> \/ \E j \in DOMAIN b : c[k] = b[j]
    BY DEF Holds
  <1> QED BY <1>3, <1>4, <1>5, <1>6

LEMMA SingleFacts ==
    ASSUME NEW b, Single(b)
    PROVE  /\ b \in Bytes /\ LineCount(b) \in Nat /\ Len(b) = LineCount(b) + 1
           /\ DOMAIN b = 1 .. LineCount(b) + 1 /\ TailOf(b) = b[LineCount(b) + 1]
           /\ TailOf(b) \in Line
           /\ \A k \in 1 .. LineCount(b) :
                 b[k] \in Line /\ DOMAIN b[k] = {1} /\ b[k][1] \in Piece
  <1>1. b \in Seq(Line) /\ b # << >>
    BY DEF Single, Bytes
  <1>2. /\ LineCount(b) \in Nat /\ Len(b) = LineCount(b) + 1
        /\ DOMAIN b = 1 .. LineCount(b) + 1
    BY <1>1 DEF LineCount
  <1>3. TailOf(b) = b[LineCount(b) + 1] /\ TailOf(b) \in Line
    BY <1>1, <1>2 DEF TailOf
  <1>4. ASSUME NEW k \in 1 .. LineCount(b)
        PROVE  b[k] \in Line /\ DOMAIN b[k] = {1} /\ b[k][1] \in Piece
    <2>1. k \in DOMAIN b
      BY <1>2
    <2>2. b[k] \in Seq(Piece) /\ Len(b[k]) = 1
      BY <1>1, <2>1 DEF Single, Line
    <2> QED BY <2>2 DEF Line
  <1> QED BY <1>1, <1>2, <1>3, <1>4 DEF Single

LEMMA SingleEmpty == Single(Empty) /\ LineCount(Empty) = 0
  <1>1. Len(Empty) = 1 /\ Empty[1] = << >> /\ Len(<< >>) = 0
    BY DEF Empty
  <1> QED BY <1>1, EmptyType DEF Single, LineCount, TailOf

LEMMA SingleUpTo ==
    ASSUME NEW b, Single(b), NEW n \in 0 .. LineCount(b), NEW q
    PROVE  Single(UpTo(b, n)) /\ Holds(UpTo(b, n), b, q)
  <1>1. b \in Bytes /\ LineCount(b) \in Nat /\ DOMAIN b = 1 .. LineCount(b) + 1
    BY SingleFacts
  <1>2. /\ UpTo(b, n) \in Bytes /\ LineCount(UpTo(b, n)) = n /\ TailOf(UpTo(b, n)) = << >>
        /\ \A k \in 1 .. n : UpTo(b, n)[k] = b[k]
    BY <1>1, UpToType
  <1>3. Single(UpTo(b, n))
    <2>1. Len(<< >>) = 0 /\ 1 .. n \subseteq 1 .. LineCount(b)
      BY <1>1
    <2> QED BY <1>2, <2>1 DEF Single
  <1>4. DOMAIN UpTo(b, n) = 1 .. n + 1 /\ UpTo(b, n)[n + 1] = << >>
    BY <1>1 DEF UpTo
  <1>5. Holds(UpTo(b, n), b, q)
    <2> SUFFICES ASSUME NEW k \in 1 .. n + 1, k # n + 1
                 PROVE  \E j \in DOMAIN b : UpTo(b, n)[k] = b[j]
      BY <1>4 DEF Holds
    <2>1. k \in 1 .. n /\ k \in DOMAIN b
      BY <1>1
    <2> QED BY <1>2, <2>1
  <1> QED BY <1>3, <1>5

(* A record in the place of one.                                           *)
LEMMA SinglePut ==
    ASSUME NEW b, Single(b), NEW k \in 1 .. LineCount(b), NEW q \in Piece,
           NEW c, c = [b EXCEPT ![k] = << q >>]
    PROVE  Single(c) /\ Holds(c, b, q)
  <1>1. /\ b \in Seq(Line) /\ b # << >> /\ LineCount(b) \in Nat /\ Len(b) = LineCount(b) + 1
        /\ DOMAIN b = 1 .. LineCount(b) + 1 /\ TailOf(b) = b[LineCount(b) + 1]
    BY SingleFacts DEF Bytes
  <1>2. << q >> \in Line /\ Len(<< q >>) = 1
    BY OnePiece DEF Line
  <1>3. k \in DOMAIN b
    BY <1>1
  <1>4. /\ c \in Seq(Line) /\ Len(c) = Len(b) /\ DOMAIN c = DOMAIN b /\ c[k] = << q >>
        /\ \A j \in DOMAIN b : j # k => c[j] = b[j]
    <2> HIDE DEF LineCount
    <2> QED BY <1>1, <1>2, <1>3
  <1>5. c \in Bytes /\ LineCount(c) = LineCount(b)
    <2>1. Len(c) # 0
      BY <1>1, <1>4
    <2>2. c # << >>
      BY <2>1
    <2> QED BY <1>4, <2>2 DEF Bytes, LineCount
  <1>6. TailOf(c) = TailOf(b)
    <2>1. LineCount(b) + 1 \in DOMAIN b /\ LineCount(b) + 1 # k
      BY <1>1
    <2> QED BY <1>1, <1>4, <2>1 DEF TailOf
  <1>7. \A j \in 1 .. LineCount(c) : Len(c[j]) = 1
    BY <1>1, <1>2, <1>4, <1>5 DEF Single
  <1>8. Holds(c, b, q)
    BY <1>4 DEF Holds
  <1> QED BY <1>5, <1>6, <1>7, <1>8 DEF Single

(* One record behind a whole line, with its newline and without it.        *)
LEMMA SingleAppend ==
    ASSUME NEW b, Single(b), TailOf(b) = << >>, NEW q \in Piece,
           NEW d, d \in {<< << q >>, << >> >>, << << q >> >>},
           NEW c, c = Concat(b, d)
    PROVE  Single(c) /\ Holds(c, b, q) /\ GoesOn(c, b, << q >>)
  <1> DEFINE n == LineCount(b)
  <1>1. /\ b \in Bytes /\ n \in Nat /\ Len(b) = n + 1 /\ DOMAIN b = 1 .. n + 1
        /\ \A k \in 1 .. n : Len(b[k]) = 1
    BY SingleFacts DEF Single
  <1>2. << q >> \in Line /\ Len(<< q >>) = 1
    BY OnePiece DEF Line
  <1>3. d \in Bytes /\ Len(d) \in {1, 2} /\ d[1] = << q >> /\ (Len(d) = 2 => d[2] = << >>)
    <2>1. CASE d = << << q >>, << >> >>
      <3>1. d \in Seq(Line) /\ Len(d) = 2 /\ d[1] = << q >> /\ d[2] = << >>
        BY <1>2, <2>1 DEF Line
      <3> QED BY <3>1 DEF Bytes
    <2>2. CASE d = << << q >> >>
      <3>1. d \in Seq(Line) /\ Len(d) = 1 /\ d[1] = << q >>
        BY <1>2, <2>2
      <3> QED BY <3>1 DEF Bytes
    <2> QED BY <2>1, <2>2
  <1> HIDE DEF n
  <1>4. /\ c \in Bytes /\ Len(c) = n + Len(d)
        /\ \A k \in 1 .. n : c[k] = b[k]
    <2>1. /\ c \in Bytes /\ Len(c) = Len(b) + Len(d) - 1
          /\ \A k \in 1 .. Len(b) - 1 : c[k] = b[k]
      BY <1>1, <1>3, ConcatType
    <2>2. Len(b) + Len(d) - 1 = n + Len(d) /\ Len(b) - 1 = n
      BY <1>1, <1>3
    <2> QED BY <2>1, <2>2, Zenon
  <1>5. c[n + 1] = << q >> /\ (Len(d) = 2 => c[n + 2] = << >>)
    <2>1. 1 \in 1 .. Len(d) /\ (Len(d) = 2 => 2 \in 1 .. Len(d))
      BY <1>3
    <2>2. \A i \in 1 .. Len(d) : c[n + i] = d[i]
      BY <1>1, <1>3, ConcatLines DEF n
    <2> QED BY <1>3, <2>1, <2>2
  <1>6. DOMAIN c = 1 .. n + Len(d) /\ LineCount(c) = n + Len(d) - 1
    BY <1>1, <1>3, <1>4 DEF LineCount, Bytes
  <1>7. \A k \in DOMAIN c : k \in 1 .. n \/ k = n + 1 \/ (Len(d) = 2 /\ k = n + 2)
    <2>1. CASE Len(d) = 2
      <3>1. \A k \in 1 .. n + 2 : k \in 1 .. n \/ k = n + 1 \/ k = n + 2
        BY <1>1
      <3> QED BY <1>6, <2>1, <3>1
    <2>2. CASE Len(d) = 1
      <3>1. \A k \in 1 .. n + 1 : k \in 1 .. n \/ k = n + 1
        BY <1>1
      <3> QED BY <1>6, <2>2, <3>1
    <2> QED BY <1>3, <2>1, <2>2
  <1>8. Holds(c, b, q)
    <2>1. \A k \in 1 .. n : k \in DOMAIN b
      BY <1>1
    <2> QED BY <1>4, <1>5, <1>7, <2>1 DEF Holds
  <1>9. Single(c)
    <2>1. CASE Len(d) = 2
      <3>1. LineCount(c) = n + 1 /\ TailOf(c) = << >>
        BY <1>1, <1>4, <1>5, <1>6, <2>1 DEF TailOf
      <3>2. \A k \in 1 .. n + 1 : k \in 1 .. n \/ k = n + 1
        BY <1>1
      <3>3. \A k \in 1 .. n + 1 : Len(c[k]) = 1
        BY <1>1, <1>2, <1>4, <1>5, <3>2
      <3>4. Len(<< >>) = 0
        OBVIOUS
      <3> QED BY <1>4, <3>1, <3>3, <3>4 DEF Single
    <2>2. CASE Len(d) = 1
      <3>1. LineCount(c) = n /\ TailOf(c) = << q >>
        BY <1>1, <1>4, <1>5, <1>6, <2>2 DEF TailOf
      <3>2. \A k \in 1 .. n : Len(c[k]) = 1
        BY <1>1, <1>4
      <3> QED BY <1>2, <1>4, <3>1, <3>2 DEF Single
    <2> QED BY <1>3, <2>1, <2>2
  <1>10. GoesOn(c, b, << q >>)
    <2>1. LineCount(c) \in Nat /\ n <= LineCount(c)
      BY <1>1, <1>3, <1>6
    <2> QED BY <1>4, <1>5, <2>1 DEF GoesOn, n
  <1> QED BY <1>8, <1>9, <1>10

(* The end of an unfinished line, and one record behind it.                *)
LEMMA SingleMend ==
    ASSUME NEW b, Single(b), TailOf(b) # << >>, NEW q \in Piece,
           NEW d, d = << << >>, << q >>, << >> >>,
           NEW c, c = Concat(b, d)
    PROVE  Single(c) /\ Holds(c, b, q) /\ GoesOn(c, b, TailOf(b))
  <1> DEFINE n == LineCount(b)
  <1>1. /\ b \in Bytes /\ n \in Nat /\ Len(b) = n + 1 /\ DOMAIN b = 1 .. n + 1
        /\ \A k \in 1 .. n : Len(b[k]) = 1
        /\ TailOf(b) = b[n + 1] /\ TailOf(b) \in Seq(Piece) /\ Len(TailOf(b)) <= 1
    BY SingleFacts DEF Single, Line
  <1>2. << q >> \in Line /\ Len(<< q >>) = 1
    BY OnePiece DEF Line
  <1>3. /\ d \in Bytes /\ Len(d) = 3 /\ d[1] = << >> /\ d[2] = << q >> /\ d[3] = << >>
    <2>1. d \in Seq(Line) /\ Len(d) = 3 /\ d[1] = << >> /\ d[2] = << q >> /\ d[3] = << >>
      BY <1>2 DEF Line
    <2> QED BY <2>1 DEF Bytes
  <1> HIDE DEF n
  <1>4. /\ c \in Bytes /\ Len(c) = n + 3
        /\ \A k \in 1 .. n : c[k] = b[k]
        /\ c[n + 1] = TailOf(b) /\ c[n + 2] = << q >> /\ c[n + 3] = << >>
    <2>1. /\ c \in Bytes /\ Len(c) = Len(b) + Len(d) - 1
          /\ \A k \in 1 .. Len(b) - 1 : c[k] = b[k]
          /\ c[Len(b)] = b[Len(b)] \o d[1]
          /\ \A k \in 2 .. Len(d) : c[Len(b) + k - 1] = d[k]
      <3>1. b \in Bytes /\ d \in Bytes
        BY <1>1, <1>3
      <3> QED BY ONLY <3>1, c = Concat(b, d), ConcatType
    <2>2. Len(b) + Len(d) - 1 = n + 3 /\ Len(b) - 1 = n /\ Len(b) = n + 1
      BY <1>1, <1>3
    <2>3. b[Len(b)] \o d[1] = TailOf(b)
      BY <1>1, <1>3
    <2>4. c[Len(b) + 2 - 1] = d[2] /\ c[Len(b) + 3 - 1] = d[3]
      <3>1. 2 \in 2 .. Len(d) /\ 3 \in 2 .. Len(d)
        BY <1>3
      <3> QED BY <2>1, <3>1
    <2>5. Len(b) + 2 - 1 = n + 2 /\ Len(b) + 3 - 1 = n + 3
      BY <1>1
    <2> QED BY <1>3, <2>1, <2>2, <2>3, <2>4, <2>5
  <1>5. DOMAIN c = 1 .. n + 3 /\ LineCount(c) = n + 2 /\ TailOf(c) = << >>
    BY <1>1, <1>4 DEF LineCount, Bytes, TailOf
  <1>6. \A k \in 1 .. n + 3 : k \in 1 .. n \/ k = n + 1 \/ k = n + 2 \/ k = n + 3
    BY <1>1
  <1>7. Holds(c, b, q)
    <2>1. n + 1 \in DOMAIN b /\ \A k \in 1 .. n : k \in DOMAIN b
      BY <1>1
    <2> QED BY <1>1, <1>4, <1>5, <1>6, <2>1 DEF Holds
  <1>8. Single(c)
    <2>1. Len(TailOf(b)) = 1 /\ Len(<< >>) = 0
      BY <1>1
    <2>2. \A k \in 1 .. n + 2 : k \in 1 .. n \/ k = n + 1 \/ k = n + 2
      BY <1>1
    <2>3. \A k \in 1 .. n + 2 : Len(c[k]) = 1
      BY <1>1, <1>2, <1>4, <2>1, <2>2
    <2> QED BY <1>4, <1>5, <2>1, <2>3 DEF Single
  <1>9. GoesOn(c, b, TailOf(b))
    <2>1. LineCount(c) \in Nat /\ n <= LineCount(c)
      BY <1>1, <1>5
    <2> QED BY <1>4, <2>1 DEF GoesOn, n
  <1> QED BY <1>7, <1>8, <1>9

-----------------------------------------------------------------------------
(* The invariant.                                                          *)

(* Records of one name are one record, here and in a trail that was.       *)
NamedBy(b) ==
    SameNames(b, trail) /\ \A p \in PiecesIn(b) : p.i \in Nat /\ p.i <= names

TrailStood == names \in Nat /\ Single(trail) /\ NamedBy(trail)

(* What was given is a chained record of a trail without a finding, and    *)
(* the lines up to it.                                                     *)
GivenFrom(s, b) ==
    /\ b \in Bytes /\ TrailFindings(b) = {} /\ NamedBy(b)
    /\ s.checkpoint.seq \in ChainedRecords(b)
    /\ s.checkpoint.digest = LineDigest(b[s.checkpoint.seq])
    /\ s.lines = UpTo(b, s.checkpoint.seq)

WitnessingInv == TrailStood /\ \A s \in stood : \E b : GivenFrom(s, b)

LEMMA InitWitnessing == Init => WitnessingInv
  <1> SUFFICES ASSUME Init PROVE WitnessingInv
    OBVIOUS
  <1>1. trail = Empty /\ names = 0 /\ stood = {}
    BY DEF Init, FileInit
  <1>2. Single(Empty)
    BY SingleEmpty
  <1>3. PiecesIn(Empty) = {}
    BY DEF PiecesIn, Empty
  <1> QED BY <1>1, <1>2, <1>3 DEF WitnessingInv, TrailStood, NamedBy, SameNames

(* A trail whose lines are those of the one before it and one new record.  *)
LEMMA FileStands ==
    ASSUME WitnessingInv, UNCHANGED stood, NEW q, Single(trail'),
           \/ names' = names + 1 /\ Holds(trail', trail, q) /\ q.i = names'
           \/ names' = names /\ \A x : Holds(trail', trail, x)
    PROVE  WitnessingInv'
  <1>1. names \in Nat /\ names' \in Nat /\ names <= names' /\ TrailStood
    BY DEF WitnessingInv, TrailStood
  <1>2. \A p \in PiecesIn(trail') :
            \/ p \in PiecesIn(trail)
            \/ p = q /\ p.i = names' /\ names' = names + 1
    <2>1. CASE names' = names + 1 /\ Holds(trail', trail, q) /\ q.i = names'
      BY <2>1, HoldsPieces
    <2>2. CASE \A x : Holds(trail', trail, x)
      <3> SUFFICES ASSUME NEW p \in PiecesIn(trail') PROVE p \in PiecesIn(trail)
        OBVIOUS
      <3>1. PICK x : x # p
        <4>1. {p} # {}
          OBVIOUS
        <4> QED BY <4>1
      <3> QED BY <2>2, <3>1, HoldsPieces
    <2> QED BY <2>1, <2>2
  <1>3. ASSUME NEW b, NamedBy(b) PROVE NamedBy(b)'
    <2>1. SameNames(b, trail')
      <3> SUFFICES ASSUME NEW p \in PiecesIn(b), NEW r \in PiecesIn(trail'), Name(p) = Name(r)
                   PROVE  p = r
        BY DEF SameNames
      <3>1. p.i \in Nat /\ p.i <= names /\ p.i = r.i
        BY <1>3 DEF NamedBy, Name
      <3>2. r \in PiecesIn(trail)
        BY <1>1, <1>2, <3>1
      <3> QED BY <1>3, <3>2 DEF NamedBy, SameNames
    <2>2. \A p \in PiecesIn(b) : p.i \in Nat /\ p.i <= names'
      BY <1>1, <1>3 DEF NamedBy
    <2> QED BY <2>1, <2>2 DEF NamedBy
  <1>4. NamedBy(trail)'
    <2>1. SameNames(trail', trail')
      <3> SUFFICES ASSUME NEW p \in PiecesIn(trail'), NEW r \in PiecesIn(trail'),
                          Name(p) = Name(r)
                   PROVE  p = r
        BY DEF SameNames
      <3>1. NamedBy(trail) /\ SameNames(trail, trail')
        BY <1>1, <1>3 DEF TrailStood, NamedBy
      <3>2. p.i = r.i
        BY DEF Name
      <3>3. CASE p \in PiecesIn(trail)
        <4>1. r \in PiecesIn(trail)
          BY <1>1, <1>2, <3>1, <3>2, <3>3 DEF NamedBy
        <4> QED BY <3>1, <3>3, <4>1 DEF NamedBy, SameNames
      <3>4. CASE r \in PiecesIn(trail)
        <4>1. p \in PiecesIn(trail)
          BY <1>1, <1>2, <3>1, <3>2, <3>4 DEF NamedBy
        <4> QED BY <3>1, <3>4, <4>1 DEF NamedBy, SameNames
      <3>5. CASE p \notin PiecesIn(trail) /\ r \notin PiecesIn(trail)
        BY <1>2, <3>5
      <3> QED BY <3>3, <3>4, <3>5
    <2>2. \A p \in PiecesIn(trail') : p.i \in Nat /\ p.i <= names'
      <3>1. NamedBy(trail)
        BY <1>1 DEF TrailStood
      <3> QED BY <1>1, <1>2, <3>1 DEF NamedBy
    <2> QED BY <2>1, <2>2 DEF NamedBy
  <1>5. TrailStood'
    BY <1>1, <1>4 DEF TrailStood
  <1>6. \A s \in stood : \E b : GivenFrom(s, b)'
    BY <1>3 DEF WitnessingInv, GivenFrom
  <1> QED BY <1>5, <1>6 DEF WitnessingInv
-----------------------------------------------------------------------------
(* The trail's steps.                                                      *)

(* What an append writes: one record of the next name.                     *)
LEMMA AppendedRecord ==
    ASSUME WitnessingInv, Appended.err = "none"
    PROVE  /\ TailOf(trail) = << >>
           /\ \E q \in Piece : /\ q.i = names + 1 /\ q.kind = "record"
                              /\ q.trail = ReadHead(trail, Writing).trail
                              /\ Appended.data = << << q >>, << >> >>
  <1> DEFINE r == Unchained(Writing, names + 1, 1, FALSE)
             head == ReadHead(trail, Writing)
  <1>1. Single(trail) /\ names + 1 \in Nat /\ trail \in Bytes /\ Writing \in Author
    BY AuthorsAssumption DEF WitnessingInv, TrailStood, Single
  <1>2. HeadRefusal(trail) = "none" /\ Appended.data = EncodeLines(ChainAfter(<< r >>, head))
    BY DEF Appended, Fresh, ChainedLines, Refuse, Give
  <1>3. TailOf(trail) = << >>
    <2>1. trail = Empty \/ TailOf(trail) = << >>
      BY <1>2 DEF HeadRefusal
    <2>2. TailOf(Empty) = << >>
      BY DEF TailOf, Empty
    <2> QED BY <2>1, <2>2
  <1>4. r \in Piece /\ r.i = names + 1 /\ r.kind = "record"
    BY <1>1, EmptyType, BodyAssumption DEF Unchained, Piece, Kinds, Trails
  <1>5. head.trail \in Author /\ head.seq \in Nat /\ head.prev \in Digests
    BY <1>1, ReadHeadType
  <1> HIDE DEF r, head
  <1>6. PICK p \in Piece : /\ ChainAfter(<< r >>, head) = << p >>
                           /\ p.i = r.i /\ p.kind = r.kind /\ p.trail = head.trail
    BY <1>4, <1>5, OneAfter
  <1>7. EncodeLines(<< p >>) = << << p >>, << >> >>
    <2>1. << p >> \in Seq(Piece) /\ Len(<< p >>) = 1 /\ << p >>[1] = p
      BY <1>6, OnePiece
    <2>2. EncodeLines(<< p >>) = [n \in 1 .. 2 |-> IF n <= 1 THEN << << p >>[n] >> ELSE << >>]
      BY <2>1 DEF EncodeLines
    <2>3. \A n \in 1 .. 2 : n = 1 \/ n = 2
      OBVIOUS
    <2> QED BY <2>1, <2>2, <2>3
  <1> QED BY <1>2, <1>3, <1>4, <1>6, <1>7 DEF head

LEMMA AppendRecordStands == WitnessingInv /\ AppendRecord => WitnessingInv'
  <1> SUFFICES ASSUME WitnessingInv, AppendRecord PROVE WitnessingInv'
    OBVIOUS
  <1>1. /\ Appended.err = "none" /\ trail' = Concat(trail, Appended.data)
        /\ names' = names + 1 /\ stood' = stood
    BY DEF AppendRecord, Grow, Unattested
  <1>2. PICK q \in Piece : q.i = names + 1 /\ Appended.data = << << q >>, << >> >>
    BY <1>1, AppendedRecord
  <1>3. Single(trail) /\ TailOf(trail) = << >>
    BY <1>1, AppendedRecord DEF WitnessingInv, TrailStood
  <1>4. Single(trail') /\ Holds(trail', trail, q)
    BY <1>1, <1>2, <1>3, SingleAppend
  <1> QED BY <1>1, <1>2, <1>4, FileStands

LEMMA TearRecordStands == WitnessingInv /\ TearRecord => WitnessingInv'
  <1> SUFFICES ASSUME WitnessingInv, TearRecord PROVE WitnessingInv'
    OBVIOUS
  <1>1. /\ Appended.err = "none" /\ trail' = Concat(trail, << Appended.data[1] >>)
        /\ names' = names + 1 /\ stood' = stood
    BY DEF TearRecord, Tear, Unattested
  <1>2. PICK q \in Piece : q.i = names + 1 /\ Appended.data = << << q >>, << >> >>
    BY <1>1, AppendedRecord
  <1>3. Single(trail) /\ TailOf(trail) = << >>
    BY <1>1, AppendedRecord DEF WitnessingInv, TrailStood
  <1>4. trail' = Concat(trail, << << q >> >>)
    BY <1>1, <1>2
  <1>5. Single(trail') /\ Holds(trail', trail, q)
    BY <1>3, <1>4, SingleAppend
  <1> QED BY <1>1, <1>2, <1>5, FileStands

(* What a repair writes: the end of the line and one record.               *)
LEMMA MendedRecord ==
    ASSUME WitnessingInv, RepairTrail
    PROVE  /\ Single(trail) /\ TailOf(trail) # << >>
           /\ names' = names + 1 /\ stood' = stood
           /\ \E q \in Piece : /\ q.i = names + 1
                              /\ q.trail = ReadHead(UpTo(trail, LineCount(trail)), Writing).trail
                              /\ trail' = Concat(trail, << << >>, << q >>, << >> >>)
  <1> DEFINE lines == RepairLines(trail, Writing, TRUE, FALSE, Empty)
  <1>1. /\ lines.err = "none" /\ trail' = Concat(trail, [lines.data EXCEPT ![2][1].i = names + 1])
        /\ names' = names + 1 /\ stood' = stood
    BY DEF RepairTrail, Mend, Unattested
  <1>2. Single(trail) /\ trail \in Bytes /\ Writing \in Author /\ names + 1 \in Nat
    BY AuthorsAssumption DEF WitnessingInv, TrailStood, Single
  <1>3. PICK D : D = Discontinuity(Writing, trail)
    OBVIOUS
  <1>4. TailOf(trail) # << >> /\ lines.data = << << >>, << D >>, << >> >>
    BY <1>1, <1>3 DEF RepairLines, Refuse, Give
  <1>5. D \in Piece
    BY <1>2, <1>3, DiscontinuityType
  <1>6. PICK q : q = [D EXCEPT !.i = names + 1]
    OBVIOUS
  <1>7. q \in Piece /\ q.i = names + 1
        /\ q.trail = ReadHead(UpTo(trail, LineCount(trail)), Writing).trail
    <2>1. q \in Piece /\ q.i = names + 1 /\ q.trail = D.trail
      BY <1>2, <1>5, <1>6 DEF Piece
    <2>2. D.trail = ReadHead(UpTo(trail, LineCount(trail)), Writing).trail
      BY <1>3 DEF Discontinuity
    <2> QED BY <2>1, <2>2
  <1>8. [lines.data EXCEPT ![2][1].i = names + 1] = << << >>, << q >>, << >> >>
    <2>1. PICK t : t = lines.data
      OBVIOUS
    <2> HIDE DEF lines
    <2>2. t = << << >>, << D >>, << >> >> /\ t[2] = << D >> /\ t[2][1] = D
      <3>1. t = << << >>, << D >>, << >> >>
        BY <1>4, <2>1
      <3>2. t[2] = << D >>
        BY <3>1
      <3> QED BY <3>1, <3>2, OnePiece
    <2>3. [t EXCEPT ![2][1].i = names + 1]
            = [t EXCEPT ![2] = [t[2] EXCEPT ![1] = [t[2][1] EXCEPT !.i = names + 1]]]
      OBVIOUS
    <2>4. [t[2] EXCEPT ![1] = q] = << q >>
      BY <2>2
    <2>5. [t EXCEPT ![2] = << q >>] = << << >>, << q >>, << >> >>
      BY <2>2
    <2>6. [t[2][1] EXCEPT !.i = names + 1] = q
      BY <1>6, <2>2
    <2> QED BY <2>1, <2>3, <2>4, <2>5, <2>6
  <1> HIDE DEF lines
  <1> QED BY <1>1, <1>2, <1>4, <1>7, <1>8

LEMMA RepairTrailStands == WitnessingInv /\ RepairTrail => WitnessingInv'
  <1> SUFFICES ASSUME WitnessingInv, RepairTrail PROVE WitnessingInv'
    OBVIOUS
  <1>1. /\ Single(trail) /\ TailOf(trail) # << >>
        /\ names' = names + 1 /\ stood' = stood
    BY MendedRecord
  <1>2. PICK q \in Piece : /\ q.i = names + 1
                          /\ trail' = Concat(trail, << << >>, << q >>, << >> >>)
    BY MendedRecord
  <1>3. Single(trail') /\ Holds(trail', trail, q)
    BY <1>1, <1>2, SingleMend
  <1> QED BY <1>1, <1>2, <1>3, FileStands

LEMMA AlterTrailStands == WitnessingInv /\ AlterTrail => WitnessingInv'
  <1> SUFFICES ASSUME WitnessingInv, AlterTrail PROVE WitnessingInv'
    OBVIOUS
  <1>1. /\ Single(trail) /\ names + 1 \in Nat /\ Altering \in Author /\ stood' = stood
    BY AuthorsAssumption DEF WitnessingInv, TrailStood, AlterTrail, Unattested
  <1>2. CASE (\E k \in 0 .. LineCount(trail) : trail' = UpTo(trail, k)) /\ names' = names
    <2>1. PICK k \in 0 .. LineCount(trail) : trail' = UpTo(trail, k)
      BY <1>2
    <2>2. Single(trail') /\ \A x : Holds(trail', trail, x)
      BY <1>1, <2>1, SingleUpTo
    <2> QED BY <1>1, <1>2, <2>2, FileStands
  <1>3. ASSUME NEW k \in 1 .. LineCount(trail), names' = names + 1,
               trail' = [trail EXCEPT ![k] =
                            << [Fresh(Altering) EXCEPT
                                  !.trail = trail[k][1].trail, !.seq = trail[k][1].seq,
                                  !.prev = trail[k][1].prev] >>]
        PROVE  WitnessingInv'
    <2>1. PICK u : u = Fresh(Altering)
      OBVIOUS
    <2>2. u \in Piece /\ u.i = names + 1
      BY <1>1, <2>1, EmptyType, BodyAssumption DEF Fresh, Unchained, Piece, Kinds, Trails
    <2>3. PICK q : q = [u EXCEPT !.trail = trail[k][1].trail, !.seq = trail[k][1].seq,
                                 !.prev = trail[k][1].prev]
      OBVIOUS
    <2>4. q \in Piece /\ q.i = names + 1
      <3>1. trail[k][1] \in Piece
        BY <1>1, SingleFacts
      <3>2. trail[k][1].trail \in Trails /\ trail[k][1].seq \in Nat /\ trail[k][1].prev \in Digests
        BY <3>1 DEF Piece
      <3> QED BY <2>2, <2>3, <3>2 DEF Piece
    <2>5. trail' = [trail EXCEPT ![k] = << q >>]
      BY <1>3, <2>1, <2>3
    <2>6. Single(trail') /\ Holds(trail', trail, q)
      BY <1>1, <2>4, <2>5, SinglePut
    <2> QED BY <1>1, <1>3, <2>4, <2>6, FileStands
  <1> QED BY <1>2, <1>3 DEF AlterTrail, Alter

(* What is given is of the trail as it is now.                             *)
LEMMA DeliverStands == WitnessingInv /\ Deliver => WitnessingInv'
  <1> SUFFICES ASSUME WitnessingInv, Deliver PROVE WitnessingInv'
    OBVIOUS
  <1>1. /\ trail' = trail /\ names' = names /\ CleanHead(trail) # None
        /\ stood' = stood \cup
              Given({CheckpointOf(trail, i) : i \in Listed(trail, after, Page)})
    BY DEF Deliver, file
  <1>2. TrailFindings(trail) = {} /\ NamedBy(trail) /\ trail \in Bytes
    BY <1>1 DEF CleanHead, WitnessingInv, TrailStood, Single
  <1>3. ASSUME NEW s \in Given({CheckpointOf(trail, i) : i \in Listed(trail, after, Page)})
        PROVE  GivenFrom(s, trail)
    <2>1. PICK i \in Listed(trail, after, Page) :
            s = [checkpoint |-> CheckpointOf(trail, i),
                 lines |-> UpTo(trail, CheckpointOf(trail, i).seq)]
      BY <1>3 DEF Given
    <2>2. i \in ChainedRecords(trail)
      BY DEF Listed
    <2>3. /\ CheckpointOf(trail, i).seq = i
          /\ CheckpointOf(trail, i).digest = LineDigest(trail[i])
      BY DEF CheckpointOf
    <2> QED BY <1>2, <2>1, <2>2, <2>3 DEF GivenFrom
  <1>4. \A s \in stood' : \E b : GivenFrom(s, b)
    BY <1>1, <1>3 DEF WitnessingInv
  <1>5. \A s, b : GivenFrom(s, b) => GivenFrom(s, b)'
    BY <1>1 DEF GivenFrom, NamedBy
  <1>6. TrailStood'
    BY <1>1 DEF WitnessingInv, TrailStood, NamedBy
  <1> QED BY <1>4, <1>5, <1>6 DEF WitnessingInv

THEOREM WitnessingStands == Spec => []WitnessingInv
  <1>1. Init => WitnessingInv
    BY InitWitnessing
  <1>2. WitnessingInv /\ [Next]_vars => WitnessingInv'
    <2> SUFFICES ASSUME WitnessingInv, [Next]_vars PROVE WitnessingInv'
      OBVIOUS
    <2>1. CASE AppendRecord
      BY <2>1, AppendRecordStands
    <2>2. CASE TearRecord
      BY <2>2, TearRecordStands
    <2>3. CASE RepairTrail
      BY <2>3, RepairTrailStands
    <2>4. CASE AlterTrail
      BY <2>4, AlterTrailStands
    <2>5. CASE Deliver
      BY <2>5, DeliverStands
    <2>6. CASE UNCHANGED <<trail, names, stood>>
      BY <2>6 DEF WitnessingInv, TrailStood, NamedBy, GivenFrom
    <2>7. CASE Submit \/ Retire
      BY <2>6, <2>7 DEF Submit, Retire, file
    <2>8. ASSUME NEW r \in Reader,
                 ReadContinuation(r) \/ OpenAndVerify(r) \/ StillAsChecked(r) \/ Rename(r)
          PROVE  UNCHANGED <<trail, names, stood>>
      BY <2>8 DEF ReadContinuation, OpenAndVerify, StillAsChecked, Rename, Moves, file
    <2>9. CASE UNCHANGED vars
      BY <2>6, <2>9 DEF vars, file
    <2> QED BY <2>1, <2>2, <2>3, <2>4, <2>5, <2>6, <2>7, <2>8, <2>9 DEF Next
  <1> QED BY <1>1, <1>2, PTL DEF Spec
-----------------------------------------------------------------------------
(* What holds of the trail, in checkpoints.                                *)

(* No finding at or before a line settles the lines up to it.              *)
LEMMA ClearSettles ==
    ASSUME NEW b, NEW n, LineCount(b) \in Nat, n \in 0 .. LineCount(b),
           Clear(TrailFindings(b), n)
    PROVE  Settled(b, n)
  <1> SUFFICES ASSUME NEW i \in 1 .. n, NEW f \in Findings(b, i) PROVE FALSE
    BY DEF Settled
  <1>1. i \in 1 .. LineCount(b) /\ i <= n /\ n \in Int /\ i \in Int
    OBVIOUS
  <1> DEFINE Of(j) == {<<g, j>> : g \in Findings(b, j)}
  <1>2. <<f, i>> \in Of(i) /\ Of(i) \in {Of(j) : j \in 1 .. LineCount(b)}
    BY <1>1
  <1>3. <<f, i>> \in UNION {Of(j) : j \in 1 .. LineCount(b)}
    BY <1>2, Zenon
  <1>4. <<f, i>> \in TrailFindings(b)
    BY <1>3, Zenon DEF TrailFindings
  <1>5. <<f, i>>[2] > n
    BY <1>4, Zenon DEF Clear
  <1> QED BY <1>1, <1>5

LEMMA HoldsAt ==
    ASSUME NEW b, NEW c, HoldCheckpoint(b, c) = "none"
    PROVE  /\ c.seq \in ChainedRecords(b) /\ c.seq \in 1 .. LineCount(b)
           /\ LineDigest(b[c.seq]) = c.digest
  <1>1. c.seq \in ChainedRecords(b) /\ LineDigest(b[c.seq]) = c.digest
    BY DEF HoldCheckpoint
  <1> QED BY <1>1 DEF ChainedRecords

(* A checkpoint that holds, with no finding at or before its record: the   *)
(* trail's lines up to it are those of the trail it was given for.         *)
LEMMA HeldIsSame ==
    ASSUME WitnessingInv, NEW s \in stood,
           HoldCheckpoint(trail, s.checkpoint) = "none",
           Clear(TrailFindings(trail), s.checkpoint.seq)
    PROVE  s.lines = UpTo(trail, s.checkpoint.seq)
  <1>1. PICK b : GivenFrom(s, b)
    BY DEF WitnessingInv
  <1>2. PICK n : n = s.checkpoint.seq
    OBVIOUS
  <1>3. /\ b \in Bytes /\ trail \in Bytes /\ SameNames(b, trail)
        /\ LineCount(b) \in Nat /\ DOMAIN b = 1 .. LineCount(b) + 1
        /\ LineCount(trail) \in Nat /\ DOMAIN trail = 1 .. LineCount(trail) + 1
    <2>1. b \in Bytes /\ Single(trail) /\ SameNames(b, trail)
      BY <1>1 DEF WitnessingInv, TrailStood, GivenFrom, NamedBy
    <2>2. LineCount(b) \in Nat /\ DOMAIN b = 1 .. LineCount(b) + 1
      BY <2>1 DEF Bytes, LineCount
    <2> QED BY <2>1, <2>2, SingleFacts
  <1>4. /\ n \in 1 .. LineCount(b) /\ ChainedLine(b[n]) /\ ~ Damaged(b, n)
        /\ s.checkpoint.digest = LineDigest(b[n])
    BY <1>1, <1>2 DEF GivenFrom, ChainedRecords
  <1>5. /\ n \in 1 .. LineCount(trail) /\ ~ Damaged(trail, n)
        /\ LineDigest(trail[n]) = s.checkpoint.digest
    BY <1>2, HoldsAt DEF ChainedRecords
  <1>6. n \in Nat /\ n <= LineCount(trail) /\ n <= LineCount(b)
        /\ n \in DOMAIN b /\ n \in DOMAIN trail
    BY <1>3, <1>4, <1>5
  <1>7. b[n] = trail[n]
    <2>1. LineDigest(trail[n])[1] = Ident(trail[n]) /\ LineDigest(b[n])[1] = Ident(b[n])
      BY DEF LineDigest
    <2>2. Ident(b[n]) = Ident(trail[n])
      BY <1>4, <1>5, <2>1
    <2> QED BY <1>3, <1>6, <2>2, SameIdentSameLine
  <1>8. Settled(trail, n)
    <2>1. n \in 0 .. LineCount(trail)
      BY <1>3, <1>5
    <2> QED BY <1>2, <1>3, <2>1, ClearSettles
  <1>9. Settled(b, n)
    <2>1. Clear(TrailFindings(b), n)
      BY <1>1 DEF Clear, GivenFrom
    <2>2. n \in 0 .. LineCount(b)
      BY <1>3, <1>4
    <2> QED BY <1>3, <2>1, <2>2, ClearSettles
  <1>10. MeetAt(b, trail, n)
    BY <1>4, <1>5, <1>6, <1>7, <1>8, <1>9 DEF MeetAt
  <1>11. \A k \in 1 .. n : b[k] = trail[k]
    BY <1>3, <1>10, SameRecordSameLines
  <1>12. UpTo(b, n) = UpTo(trail, n)
    BY <1>3, <1>6, <1>11, UpToAgree
  <1> QED BY <1>1, <1>2, <1>12 DEF GivenFrom

(* The checkpoint a report reaches, if it reaches one.                     *)
LEMMA ReachIs ==
    ASSUME NEW b, LineCount(b) \in Nat, NEW cs, NEW found, TrailFindings(b) \subseteq found,
           NEW n, n = Reach(Matched(b, cs), found)
    PROVE  /\ n \in 0 .. LineCount(b)
           /\ n > 0 => \E c \in cs : /\ c.seq = n /\ HoldCheckpoint(b, c) = "none"
                                     /\ Clear(TrailFindings(b), n)
  <1> DEFINE S == {0} \cup {c.seq : c \in {d \in Matched(b, cs) : Clear(found, d.seq)}}
  <1>1. \A x \in S : \/ x = 0
                     \/ \E c \in cs : /\ c.seq = x /\ HoldCheckpoint(b, c) = "none"
                                      /\ Clear(TrailFindings(b), x)
    BY DEF Matched, Clear
  <1>2. S \subseteq 0 .. LineCount(b) /\ S # {}
    <2>1. \A c \in cs : HoldCheckpoint(b, c) = "none" => c.seq \in 1 .. LineCount(b)
      BY HoldsAt
    <2> HIDE DEF S
    <2>2. \A x \in S : x \in 0 .. LineCount(b)
      BY <1>1, <2>1
    <2>3. S # {}
      BY DEF S
    <2> QED BY <2>2, <2>3
  <1>3. n = Max(S)
    BY DEF Reach
  <1> HIDE DEF S
  <1>4. Max(S) \in S
    BY <1>2, MaxOf
  <1>5. n \in S /\ n \in 0 .. LineCount(b)
    BY <1>2, <1>3, <1>4
  <1>6. n > 0 => n # 0
    BY <1>5
  <1> QED BY <1>1, <1>5, <1>6

LEMMA SameLines ==
    ASSUME WitnessingInv, NEW c, HoldCheckpoint(trail, c) = "none",
           Clear(TrailFindings(trail), c.seq)
    PROVE  \A lines \in LinesAt(c) : lines = UpTo(trail, c.seq)
  <1> SUFFICES ASSUME NEW lines \in LinesAt(c) PROVE lines = UpTo(trail, c.seq)
    OBVIOUS
  <1>1. PICK s \in stood : s.checkpoint = c /\ lines = s.lines
    BY DEF LinesAt
  <1> QED BY <1>1, HeldIsSame

(* What one report says, of any checkpoints and any statements.            *)
LEMMA ReportsAreSound == ASSUME WitnessingInv, NEW some, NEW in PROVE Sound(some, in)
  <1> DEFINE stated == Stated(trail, in)
             found == Found(trail, some, in)
  <1>1. PICK far : far = Reach(Matched(trail, some), found)
    OBVIOUS
  <1>2. PICK near : near = Countersigned(trail, some, in)
    OBVIOUS
  <1>3. PICK through : through = Through(trail, some, in)
    OBVIOUS
  <1>4. LineCount(trail) \in Nat
    BY SingleFacts DEF WitnessingInv, TrailStood
  <1>5. TrailFindings(trail) \subseteq found
    BY DEF Found
  <1> DEFINE Reached(n) ==
        \E c \in some \cup stated :
            /\ c.seq = n /\ HoldCheckpoint(trail, c) = "none"
            /\ Clear(TrailFindings(trail), n)
  <1>6. far \in 0 .. LineCount(trail) /\ (far > 0 => Reached(far))
    <2> HIDE DEF found, stated
    <2> QED BY <1>1, <1>4, <1>5, ReachIs
  <1>7. near \in 0 .. LineCount(trail) /\ (near > 0 => Reached(near))
    <2>1. near = 0 \/ near = Reach(Matched(trail, stated), found)
      BY <1>2 DEF Countersigned
    <2>2. CASE near = 0
      BY <1>4, <2>2
    <2>3. CASE near = Reach(Matched(trail, stated), found)
      <3> HIDE DEF found, stated
      <3> QED BY <1>4, <1>5, <2>3, ReachIs
    <2> QED BY <2>1, <2>2, <2>3
  <1>8. through \in {far, near}
    <2>1. through = Max({far, near})
      BY <1>1, <1>2, <1>3 DEF Through
    <2>2. {far, near} \subseteq 0 .. LineCount(trail) /\ {far, near} # {}
      BY <1>6, <1>7
    <2> QED BY <1>4, <2>1, <2>2, MaxOf
  <1>9. through > 0 => \E c \in some \cup stated :
                          c.seq = through /\ \A lines \in LinesAt(c) : lines = UpTo(trail, c.seq)
    <2> SUFFICES ASSUME through > 0
                 PROVE  \E c \in some \cup stated :
                          c.seq = through /\ \A lines \in LinesAt(c) : lines = UpTo(trail, c.seq)
      OBVIOUS
    <2>1. Reached(through)
      <3> HIDE DEF Reached
      <3> QED BY <1>6, <1>7, <1>8
    <2>2. PICK c \in some \cup stated :
              /\ c.seq = through /\ HoldCheckpoint(trail, c) = "none"
              /\ Clear(TrailFindings(trail), through)
      BY <2>1
    <2>3. \A lines \in LinesAt(c) : lines = UpTo(trail, c.seq)
      BY <2>2, SameLines
    <2> QED BY <2>2, <2>3
  <1>10. ASSUME NoFinding(trail, some, in, 0, 0), NEW c \in some \cup stated
         PROVE  \A lines \in LinesAt(c) : lines = UpTo(trail, c.seq)
    <2>1. TrailFindings(trail) = {} /\ HeldFindings(trail, some \cup stated) = {}
      BY <1>10 DEF NoFinding, Found
    <2>2. HoldCheckpoint(trail, c) = "none"
      <3> SUFFICES ASSUME HoldCheckpoint(trail, c) # "none" PROVE FALSE
        OBVIOUS
      <3>1. <<HoldCheckpoint(trail, c), c.seq>> \in HeldFindings(trail, some \cup stated)
        BY DEF HeldFindings
      <3> QED BY <2>1, <3>1
    <2>3. Clear(TrailFindings(trail), c.seq)
      BY <2>1 DEF Clear
    <2> QED BY <2>2, <2>3, SameLines
  <1> HIDE DEF found, stated, Reached
  <1> QED BY <1>3, <1>9, <1>10 DEF Sound, stated

(* What a report says is witnessed or countersigned is so, for every       *)
(* checkpoint held and every statement a reader may be given: the lines    *)
(* it vouches for are those the trail had when the checkpoint was given,   *)
(* however the trail was cut or altered since.                             *)
THEOREM ReportsStand == Spec => []AttestedLines
  <1>1. WitnessingInv => AttestedLines
    BY ReportsAreSound DEF AttestedLines
  <1> QED BY <1>1, WitnessingStands, PTL
-----------------------------------------------------------------------------
(* What the deliverer received.                                            *)

(* Going on with a line that excuses none before it leaves the records     *)
(* settled before, and their checkpoints.                                  *)
LEMMA RecordsStay ==
    ASSUME NEW b, LineCount(b) \in Nat, NEW line, ~ DiscontinuityKind(line),
           NEW c, GoesOn(c, b, line)
    PROVE  \A i \in 1 .. LineCount(b) :
               /\ i \in ChainedRecords(c) <=> i \in ChainedRecords(b)
               /\ CheckpointOf(c, i) = CheckpointOf(b, i)
  <1> DEFINE n == LineCount(b)
             m == LineCount(c)
  <1>1. /\ n \in Nat /\ m \in Nat /\ n <= m /\ \A k \in 1 .. n : c[k] = b[k]
        /\ m > n => c[n + 1] = line
    BY DEF GoesOn
  <1> SUFFICES ASSUME NEW i \in 1 .. n
               PROVE  /\ i \in ChainedRecords(c) <=> i \in ChainedRecords(b)
                      /\ CheckpointOf(c, i) = CheckpointOf(b, i)
    OBVIOUS
  <1>2. c[i] = b[i] /\ i \in 1 .. m
    BY <1>1
  <1>3. Damaged(c, i) <=> Damaged(b, i)
    <2>1. CASE i < n
      <3>1. i < m /\ i + 1 \in 1 .. n /\ (i + 1) - 1 = i
        BY <1>1, <2>1
      <3>2. c[i + 1] = b[i + 1] /\ c[(i + 1) - 1] = b[(i + 1) - 1]
        BY <1>1, <1>2, <3>1
      <3>3. Excuses(c, i + 1) <=> Excuses(b, i + 1)
        BY <3>2 DEF Excuses, IsDiscontinuity
      <3> QED BY <2>1, <3>1, <3>3 DEF Damaged
    <2>2. CASE ~ (i < n)
      <3>1. i = n
        BY <1>1, <2>2
      <3>2. m > n => ~ Excuses(c, n + 1)
        BY <1>1 DEF Excuses, IsDiscontinuity
      <3> QED BY <1>1, <2>2, <3>1, <3>2 DEF Damaged
    <2> QED BY <2>1, <2>2
  <1>4. i \in ChainedRecords(c) <=> i \in ChainedRecords(b)
    BY <1>2, <1>3 DEF ChainedRecords
  <1> QED BY <1>2, <1>4 DEF CheckpointOf

DeliveredInv ==
    /\ changes \in Nat
    /\ changes = 0 => after \in 0 .. LineCount(trail) /\ EveryRecordDelivered

(* The trail goes on.                                                      *)
LEMMA DeliveredStays ==
    ASSUME WitnessingInv, DeliveredInv, UNCHANGED <<held, after, changes>>,
           NEW line, ~ DiscontinuityKind(line), GoesOn(trail', trail, line)
    PROVE  DeliveredInv'
  <1> SUFFICES ASSUME changes = 0 PROVE after \in 0 .. LineCount(trail') /\ EveryRecordDelivered'
    BY DEF DeliveredInv
  <1>1. LineCount(trail) \in Nat
    BY SingleFacts DEF WitnessingInv, TrailStood
  <1>2. LineCount(trail') \in Nat /\ LineCount(trail) <= LineCount(trail')
    BY DEF GoesOn
  <1>3. PICK n : n = LineCount(trail)
    OBVIOUS
  <1>4. \A i \in 1 .. n : /\ i \in ChainedRecords(trail') <=> i \in ChainedRecords(trail)
                          /\ CheckpointOf(trail', i) = CheckpointOf(trail, i)
    BY <1>1, <1>3, RecordsStay
  <1>5. /\ after \in 0 .. n
        /\ held = {CheckpointOf(trail, i) : i \in {j \in ChainedRecords(trail) : j <= after}}
    BY <1>3 DEF DeliveredInv, EveryRecordDelivered
  <1>6. \A j : /\ j \in ChainedRecords(trail) => j \in 1 .. LineCount(trail)
               /\ j \in ChainedRecords(trail') => j \in 1 .. LineCount(trail')
    BY DEF ChainedRecords
  <1>7. \A j : (j \in ChainedRecords(trail) \/ j \in ChainedRecords(trail')) /\ j <= after => j \in 1 .. n
    BY <1>1, <1>2, <1>3, <1>5, <1>6
  <1>8. held = {CheckpointOf(trail', i) : i \in {j \in ChainedRecords(trail') : j <= after}}
    BY <1>4, <1>5, <1>7
  <1> QED BY <1>1, <1>2, <1>3, <1>5, <1>8 DEF EveryRecordDelivered

(* A page is the next records, as many as it takes: none before its last   *)
(* is left out.                                                            *)
LEMMA PageIsWhole ==
    ASSUME NEW b, LineCount(b) \in Nat, NEW a \in Nat, NEW limit \in Nat,
           NEW page, page = Listed(b, a, limit), page # {}
    PROVE  /\ Max(page) \in 1 .. LineCount(b)
           /\ {j \in ChainedRecords(b) : j <= Max(page)}
                 = {j \in ChainedRecords(b) : j <= a} \cup page
  <1>1. page \subseteq ChainedRecords(b) /\ ChainedRecords(b) \subseteq 1 .. LineCount(b)
    BY DEF Listed, ChainedRecords
  <1>2. page \subseteq 0 .. LineCount(b)
    BY <1>1
  <1>3. PICK top : top = Max(page)
    OBVIOUS
  <1>4. top \in page /\ \A y \in page : y <= top
    BY <1>2, <1>3, MaxOf
  <1>5. top \in 1 .. LineCount(b) /\ top > a
    BY <1>1, <1>4 DEF Listed
  <1> DEFINE Earlier(i) == {j \in ChainedRecords(b) : j > a /\ j < i}
  <1>6. ASSUME NEW i \in ChainedRecords(b), i > a, i <= top PROVE i \in page
    <2>1. Earlier(i) \subseteq Earlier(top)
      BY <1>1, <1>5, <1>6
    <2>2. IsFiniteSet(Earlier(top)) /\ Earlier(top) \subseteq 1 .. LineCount(b)
      <3>1. IsFiniteSet(1 .. LineCount(b))
        BY FS_Interval
      <3>2. Earlier(top) \subseteq 1 .. LineCount(b)
        BY <1>1
      <3> HIDE DEF Earlier
      <3> QED BY <3>1, <3>2, FS_Subset
    <2>3. /\ Cardinality(Earlier(i)) <= Cardinality(Earlier(top))
          /\ Cardinality(Earlier(i)) \in Nat /\ Cardinality(Earlier(top)) \in Nat
      <3> HIDE DEF Earlier
      <3> QED BY <2>1, <2>2, FS_Subset, FS_CardinalityType
    <2>4. Cardinality(Earlier(top)) < limit
      BY <1>4 DEF Listed
    <2>5. Cardinality(Earlier(i)) < limit
      <3> HIDE DEF Earlier
      <3> QED BY <2>3, <2>4
    <2> QED BY <1>6, <2>5 DEF Listed
  <1>7. \A j \in ChainedRecords(b) : j <= top <=> j <= a \/ j \in page
    <2> SUFFICES ASSUME NEW j \in ChainedRecords(b) PROVE j <= top <=> j <= a \/ j \in page
      OBVIOUS
    <2>1. j \in Int /\ top \in Int /\ a \in Int
      BY <1>1, <1>5
    <2>2. j <= a => j <= top
      BY <1>5, <2>1
    <2>3. j <= a \/ j > a
      BY <2>1
    <2> QED BY <1>4, <1>6, <2>2, <2>3
  <1> QED BY <1>1, <1>3, <1>5, <1>7

LEMMA DeliverDelivers ==
    ASSUME WitnessingInv, DeliveredInv, Deliver
    PROVE  DeliveredInv'
  <1>1. PICK page : page = Listed(trail, after, Page)
    OBVIOUS
  <1>2. /\ UNCHANGED <<trail, changes>> /\ page # {} /\ after' = Max(page)
        /\ held' = held \cup {CheckpointOf(trail, i) : i \in page}
    BY <1>1 DEF Deliver, file
  <1> SUFFICES ASSUME changes = 0 PROVE after' \in 0 .. LineCount(trail) /\ EveryRecordDelivered'
    BY <1>2 DEF DeliveredInv
  <1>3. LineCount(trail) \in Nat
    BY SingleFacts DEF WitnessingInv, TrailStood
  <1>4. /\ after \in Nat
        /\ held = {CheckpointOf(trail, i) : i \in {j \in ChainedRecords(trail) : j <= after}}
    BY <1>3 DEF DeliveredInv, EveryRecordDelivered
  <1>5. /\ after' \in 1 .. LineCount(trail)
        /\ {j \in ChainedRecords(trail) : j <= after'}
              = {j \in ChainedRecords(trail) : j <= after} \cup page
    BY <1>1, <1>2, <1>3, <1>4, PageIsWhole, PageAssumption
  <1>6. held' = {CheckpointOf(trail, i) : i \in {j \in ChainedRecords(trail) : j <= after'}}
    BY <1>2, <1>4, <1>5
  <1>7. EveryRecordDelivered'
    BY <1>2, <1>6 DEF EveryRecordDelivered
  <1> QED BY <1>3, <1>5, <1>7

LEMMA InitDelivered == Init => DeliveredInv
  <1> SUFFICES ASSUME Init PROVE DeliveredInv
    OBVIOUS
  <1>1. trail = Empty /\ changes = 0 /\ held = {} /\ after = 0
    BY DEF Init, FileInit
  <1>2. LineCount(Empty) = 0
    BY SingleEmpty
  <1>3. ChainedRecords(Empty) = {}
    BY <1>2 DEF ChainedRecords
  <1> QED BY <1>1, <1>2, <1>3 DEF DeliveredInv, EveryRecordDelivered

(* The next line of an append is a record, and of a repair the one that    *)
(* was unfinished, which no discontinuity is: a repair refuses that.       *)
LEMMA TrailDelivered ==
    ASSUME WitnessingInv, DeliveredInv, AppendRecord \/ TearRecord \/ RepairTrail
    PROVE  DeliveredInv'
  <1>1. UNCHANGED <<held, after, changes>>
    BY DEF AppendRecord, TearRecord, RepairTrail, Grow, Tear, Mend, Unattested
  <1>2. CASE AppendRecord \/ TearRecord
    <2>1. /\ Appended.err = "none"
          /\ \/ trail' = Concat(trail, Appended.data)
             \/ trail' = Concat(trail, << Appended.data[1] >>)
      BY <1>2 DEF AppendRecord, TearRecord, Grow, Tear
    <2>2. PICK q \in Piece : /\ q.i = names + 1 /\ q.kind = "record"
                             /\ Appended.data = << << q >>, << >> >>
      BY <2>1, AppendedRecord
    <2>3. Single(trail) /\ TailOf(trail) = << >>
      BY <2>1, AppendedRecord DEF WitnessingInv, TrailStood
    <2>4. \/ trail' = Concat(trail, << << q >>, << >> >>)
          \/ trail' = Concat(trail, << << q >> >>)
      BY <2>1, <2>2
    <2>5. GoesOn(trail', trail, << q >>)
      BY <2>3, <2>4, SingleAppend
    <2>6. ~ DiscontinuityKind(<< q >>)
      BY <2>2, OnePiece DEF DiscontinuityKind
    <2> QED BY <1>1, <2>5, <2>6, DeliveredStays
  <1>3. CASE RepairTrail
    <2>1. PICK q \in Piece : trail' = Concat(trail, << << >>, << q >>, << >> >>)
      BY <1>3, MendedRecord
    <2>2. Single(trail) /\ TailOf(trail) # << >> /\ ~ DiscontinuityKind(TailOf(trail))
      BY <1>3 DEF WitnessingInv, TrailStood, RepairTrail, Mend, RepairLines, Refuse
    <2>3. GoesOn(trail', trail, TailOf(trail))
      BY <2>1, <2>2, SingleMend
    <2> QED BY <1>1, <2>2, <2>3, DeliveredStays
  <1> QED BY <1>2, <1>3

LEMMA DeliveredStep == WitnessingInv /\ DeliveredInv /\ [Next]_vars => DeliveredInv'
  <1> SUFFICES ASSUME WitnessingInv, DeliveredInv, [Next]_vars PROVE DeliveredInv'
    OBVIOUS
  <1>1. CASE AppendRecord \/ TearRecord \/ RepairTrail
    BY <1>1, TrailDelivered
  <1>2. CASE AlterTrail
    <2>1. changes \in Nat /\ changes' = changes + 1
      BY <1>2 DEF DeliveredInv, AlterTrail, Alter
    <2>2. changes' \in Nat /\ changes' # 0
      BY <2>1
    <2> QED BY <2>2 DEF DeliveredInv
  <1>3. CASE Deliver
    BY <1>3, DeliverDelivers
  <1>4. CASE UNCHANGED <<trail, changes, held, after>>
    BY <1>4 DEF DeliveredInv, EveryRecordDelivered
  <1>5. CASE Submit \/ Retire
    BY <1>4, <1>5 DEF Submit, Retire, file
  <1>6. ASSUME NEW r \in Reader,
               ReadContinuation(r) \/ OpenAndVerify(r) \/ StillAsChecked(r) \/ Rename(r)
        PROVE  UNCHANGED <<trail, changes, held, after>>
    BY <1>6 DEF ReadContinuation, OpenAndVerify, StillAsChecked, Rename, Moves, file
  <1>7. CASE UNCHANGED vars
    BY <1>4, <1>7 DEF vars, file
  <1> QED BY <1>1, <1>2, <1>3, <1>4, <1>5, <1>6, <1>7 DEF Next

(* While a trail was only appended to and repaired, no record's checkpoint *)
(* is missed or given twice, whatever the pages were and whatever was torn *)
(* and repaired between them.                                              *)
THEOREM CheckpointsDelivered == Spec => []EveryRecordDelivered
  <1>1. Init => DeliveredInv
    BY InitDelivered
  <1>2. WitnessingInv /\ DeliveredInv /\ [Next]_vars => DeliveredInv'
    BY DeliveredStep
  <1>3. DeliveredInv => EveryRecordDelivered
    BY DEF DeliveredInv, EveryRecordDelivered
  <1> QED BY <1>1, <1>2, <1>3, WitnessingStands, PTL DEF Spec
-----------------------------------------------------------------------------
(* A witness's statements, each behind the one it names.                   *)

StatementKinds == {"checkpoint", "conflict", "retirement"}

(* Each statement stands one above the one it follows.                     *)
Stacked(S) ==
    \A t \in S : /\ t.index \in Nat
                 /\ t.prev = NoStatement => t.index = 0
                 /\ t.prev # NoStatement => t.prev \in S /\ t.index = t.prev.index + 1

(* The statements of S from one back to its first.                         *)
ChainIn(S, s) == {t \in S : \A C \in SUBSET S : s \in C /\ GoesBack(C) => t \in C}

LEMMA ChainLeast ==
    ASSUME NEW S, NEW s, NEW C, C \subseteq S, s \in C, GoesBack(C)
    PROVE  ChainIn(S, s) \subseteq C
  BY DEF ChainIn

LEMMA ChainClosed ==
    ASSUME NEW S, Stacked(S), NEW s \in S
    PROVE  ChainIn(S, s) \subseteq S /\ s \in ChainIn(S, s) /\ GoesBack(ChainIn(S, s))
  <1>1. ChainIn(S, s) \subseteq S /\ s \in ChainIn(S, s)
    BY DEF ChainIn
  <1>2. ASSUME NEW t \in ChainIn(S, s), t.prev # NoStatement PROVE t.prev \in ChainIn(S, s)
    <2>1. t.prev \in S
      BY <1>1, <1>2 DEF Stacked
    <2>2. ASSUME NEW C \in SUBSET S, s \in C, GoesBack(C) PROVE t.prev \in C
      <3>1. t \in C
        BY <2>2 DEF ChainIn
      <3> QED BY <1>2, <2>2, <3>1 DEF GoesBack
    <2> QED BY <2>1, <2>2 DEF ChainIn
  <1> QED BY <1>1, <1>2 DEF GoesBack

(* Nothing of a chain is at or above its last but that.                    *)
LEMMA ChainTop ==
    ASSUME NEW S, Stacked(S), NEW s \in S, NEW t \in ChainIn(S, s)
    PROVE  t \in S /\ t.index \in Nat /\ (t = s \/ t.index < s.index)
  <1> DEFINE C == {u \in S : u = s \/ u.index < s.index}
  <1>1. C \subseteq S /\ s \in C
    OBVIOUS
  <1>2. ASSUME NEW u \in C, u.prev # NoStatement PROVE u.prev \in C
    <2>1. u.prev \in S /\ u.index = u.prev.index + 1 /\ u.prev.index \in Nat /\ s.index \in Nat
      BY <1>2 DEF Stacked
    <2>2. u = s \/ u.index < s.index
      OBVIOUS
    <2>3. u.prev.index < s.index
      BY <2>1, <2>2
    <2> QED BY <2>1, <2>3
  <1>3. GoesBack(C)
    BY <1>2 DEF GoesBack
  <1>4. t \in C
    <2> HIDE DEF C
    <2> QED BY <1>1, <1>3, ChainLeast
  <1> QED BY <1>4 DEF Stacked

(* Whatever of a chain is not its last is followed in it.                  *)
LEMMA ChainFollowed ==
    ASSUME NEW S, Stacked(S), NEW s \in S, NEW u \in ChainIn(S, s), u # s
    PROVE  \E v \in ChainIn(S, s) : v.prev = u /\ v.prev # NoStatement
  <1> SUFFICES ASSUME \A v \in ChainIn(S, s) : ~ (v.prev = u /\ v.prev # NoStatement) PROVE FALSE
    OBVIOUS
  <1>1. ChainIn(S, s) \subseteq S /\ s \in ChainIn(S, s) /\ GoesBack(ChainIn(S, s))
    BY ChainClosed
  <1>2. PICK C : C = ChainIn(S, s) \ {u}
    OBVIOUS
  <1>3. GoesBack(C)
    BY <1>1, <1>2 DEF GoesBack
  <1>4. C \subseteq S /\ s \in C
    BY <1>1, <1>2
  <1> QED BY <1>2, <1>3, <1>4, ChainLeast

(* A chain has one statement at an index.                                  *)
LEMMA ChainOne ==
    ASSUME NEW S, Stacked(S), NEW s \in S,
           NEW t \in ChainIn(S, s), NEW u \in ChainIn(S, s), t.index = u.index
    PROVE  t = u
  <1> DEFINE Chained == ChainIn(S, s)
             C == {x \in Chained : \A y \in Chained : y.index = x.index => y = x}
  <1>1. Chained \subseteq S /\ s \in Chained /\ GoesBack(Chained)
    BY ChainClosed
  <1>2. s \in C
    <2>1. \A y \in Chained : y = s \/ y.index < s.index
      BY ChainTop
    <2>2. s.index \in Nat /\ \A y \in Chained : y.index \in Nat
      BY <1>1 DEF Stacked
    <2> HIDE DEF Chained
    <2> QED BY <1>1, <2>1, <2>2
  <1>3. ASSUME NEW x \in C, x.prev # NoStatement PROVE x.prev \in C
    <2>1. x \in Chained /\ x.prev \in Chained
      BY <1>1, <1>3 DEF GoesBack
    <2>2. x.index \in Nat /\ x.index = x.prev.index + 1 /\ x.prev.index \in Nat /\ s.index \in Nat
      BY <1>1, <1>3, <2>1 DEF Stacked
    <2>3. ASSUME NEW y \in Chained, y.index = x.prev.index PROVE y = x.prev
      <3>1. x = s \/ x.index < s.index
        BY <2>1, ChainTop
      <3>2. y # s
        BY <2>2, <2>3, <3>1
      <3>3. PICK v \in Chained : v.prev = y /\ v.prev # NoStatement
        BY <3>2, ChainFollowed
      <3>4. v.index = y.index + 1
        BY <1>1, <3>3 DEF Stacked
      <3>5. v.index = x.index
        BY <2>2, <2>3, <3>4
      <3>6. v = x
        <4> HIDE DEF Chained
        <4> QED BY <3>5, <3>3
      <3> QED BY <3>3, <3>6
    <2> HIDE DEF Chained
    <2> QED BY <2>1, <2>3
  <1>4. GoesBack(C)
    BY <1>3 DEF GoesBack
  <1>5. C \subseteq S
    BY <1>1
  <1>6. Chained \subseteq C
    <2> HIDE DEF C
    <2> QED BY <1>2, <1>4, <1>5, ChainLeast
  <1>7. t \in Chained /\ u \in Chained
    OBVIOUS
  <1> HIDE DEF Chained
  <1> QED BY <1>6, <1>7

(* A chain misses no index.                                                *)
LEMMA ChainWhole ==
    ASSUME NEW S, Stacked(S), NEW s \in S
    PROVE  \A i \in 0 .. s.index : \E t \in ChainIn(S, s) : t.index = i
  <1> DEFINE missing == {j \in Nat : j <= s.index /\ \A t \in ChainIn(S, s) : t.index # s.index - j}
  <1>1. ChainIn(S, s) \subseteq S /\ s \in ChainIn(S, s) /\ GoesBack(ChainIn(S, s)) /\ s.index \in Nat
    BY ChainClosed DEF Stacked
  <1>2. missing = {}
    <2> SUFFICES ASSUME missing # {} PROVE FALSE
      OBVIOUS
    <2>1. PICK j \in missing : \A k \in missing : j <= k
      <3>1. missing \subseteq Nat
        OBVIOUS
      <3> HIDE DEF missing
      <3> QED BY <3>1, MinOf
    <2>2. j # 0
      <3> SUFFICES ASSUME j = 0 PROVE FALSE
        OBVIOUS
      <3>1. s.index = s.index - j
        BY <1>1
      <3> QED BY <1>1, <3>1
    <2>3. j - 1 \in Nat /\ j - 1 <= s.index /\ ~ (j <= j - 1)
      BY <1>1, <2>2
    <2>4. j - 1 \notin missing
      <3> HIDE DEF missing
      <3> QED BY <2>1, <2>3
    <2>5. PICK t \in ChainIn(S, s) : t.index = s.index - (j - 1)
      BY <2>3, <2>4
    <2>6. t.index # 0
      BY <1>1, <2>3, <2>5
    <2>7. t.prev # NoStatement /\ t.prev \in ChainIn(S, s) /\ t.index = t.prev.index + 1
          /\ t.prev.index \in Nat
      BY <1>1, <2>6 DEF Stacked, GoesBack
    <2>8. t.prev.index = s.index - j
      BY <1>1, <2>5, <2>7
    <2> QED BY <2>7, <2>8
  <1>3. ASSUME NEW i \in 0 .. s.index PROVE \E t \in ChainIn(S, s) : t.index = i
    <2>1. s.index - i \in Nat /\ s.index - i <= s.index /\ s.index - (s.index - i) = i
      BY <1>1
    <2>2. s.index - i \notin missing
      BY <1>2
    <2> QED BY <2>1, <2>2
  <1> QED BY <1>3

LEMMA ChainWithin ==
    ASSUME NEW S, Stacked(S), NEW s \in S, NEW t \in ChainIn(S, s)
    PROVE  ChainIn(S, t) \subseteq ChainIn(S, s)
  <1>1. ChainIn(S, s) \subseteq S /\ GoesBack(ChainIn(S, s))
    BY ChainClosed
  <1> QED BY <1>1, ChainLeast

(* What follows a chain's last has that chain and itself.                  *)
LEMMA ChainStep ==
    ASSUME NEW S, Stacked(S), NEW s \in S, s.prev # NoStatement
    PROVE  ChainIn(S, s) = {s} \cup ChainIn(S, s.prev)
  <1>1. s.prev \in S
    BY DEF Stacked
  <1>2. PICK p \in S : p = s.prev
    BY <1>1
  <1>3. ChainIn(S, p) \subseteq S /\ p \in ChainIn(S, p) /\ GoesBack(ChainIn(S, p))
    BY ChainClosed
  <1>4. s \in ChainIn(S, s) /\ p \in ChainIn(S, s)
    BY <1>2, ChainClosed DEF GoesBack
  <1>5. ChainIn(S, p) \subseteq ChainIn(S, s)
    BY <1>4, ChainWithin
  <1>6. PICK C : C = {s} \cup ChainIn(S, p)
    OBVIOUS
  <1>7. C \subseteq S /\ s \in C /\ GoesBack(C)
    BY <1>2, <1>3, <1>6 DEF GoesBack
  <1>8. ChainIn(S, s) \subseteq C
    BY <1>7, ChainLeast
  <1> QED BY <1>2, <1>4, <1>5, <1>6, <1>8

(* A statement's chain stays as it is when others are signed.              *)
LEMMA ChainStays ==
    ASSUME NEW S, Stacked(S), NEW s \in S, NEW T, S \subseteq T
    PROVE  ChainIn(T, s) = ChainIn(S, s)
  <1>1. ChainIn(S, s) \subseteq T /\ s \in ChainIn(S, s) /\ GoesBack(ChainIn(S, s))
    BY ChainClosed
  <1>2. ChainIn(T, s) \subseteq ChainIn(S, s)
    BY <1>1, ChainLeast
  <1>3. ASSUME NEW t \in ChainIn(S, s) PROVE t \in ChainIn(T, s)
    <2>1. t \in T
      BY <1>1
    <2>2. ASSUME NEW C \in SUBSET T, s \in C, GoesBack(C) PROVE t \in C
      <3>1. PICK D : D = C \cap S
        OBVIOUS
      <3>2. D \subseteq S /\ s \in D /\ GoesBack(D)
        BY <2>2, <3>1 DEF GoesBack, Stacked
      <3> QED BY <3>1, <3>2, ChainLeast
    <2> QED BY <2>1, <2>2 DEF ChainIn
  <1> QED BY <1>2, <1>3

(* The latest checkpoint statement of a chain.                             *)
LatestIn(S, s, t) ==
    /\ t \in ChainIn(S, s) /\ t.kind = "checkpoint"
    /\ \A u \in ChainIn(S, s) : u.kind = "checkpoint" => u.index <= t.index

LEMMA LatestOne ==
    ASSUME NEW S, Stacked(S), NEW s \in S, NEW t, NEW u, LatestIn(S, s, t), LatestIn(S, s, u)
    PROVE  t = u
  <1>1. /\ t \in ChainIn(S, s) /\ u \in ChainIn(S, s)
        /\ t.index <= u.index /\ u.index <= t.index
    BY DEF LatestIn
  <1>2. t.index \in Nat /\ u.index \in Nat
    BY <1>1, ChainTop
  <1>3. t.index = u.index
    BY <1>1, <1>2
  <1> QED BY <1>1, <1>3, ChainOne

(* What a whole reading of a chain ends with.                              *)
Whole(S, c) ==
    /\ c.last \in S /\ LatestIn(S, c.last, c.latest)
    /\ \A t \in ChainIn(S, c.last) : t.key \in TrustedKeys

LEMMA WholeStays ==
    ASSUME NEW S, Stacked(S), NEW T, S \subseteq T, NEW c, Whole(S, c)
    PROVE  Whole(T, c)
  <1>1. c.last \in S
    BY DEF Whole
  <1>2. ChainIn(T, c.last) = ChainIn(S, c.last)
    BY <1>1, ChainStays
  <1> QED BY <1>1, <1>2 DEF Whole, LatestIn

(* Some statement of a bounded set is above the others.                    *)
LEMMA Highest ==
    ASSUME NEW S, S # {}, NEW n \in Nat, \A t \in S : t.index \in Nat /\ t.index <= n
    PROVE  \E s \in S : \A t \in S : t.index <= s.index
  <1> DEFINE N == {t.index : t \in S}
  <1>1. N \subseteq 0 .. n /\ N # {}
    OBVIOUS
  <1>2. PICK m \in N : \A k \in N : k <= m
    <2> HIDE DEF N
    <2> QED BY <1>1, MaxOf
  <1> QED BY <1>2

(* What the statements of a set are, whoever reads them.                   *)
SignedWell(S) ==
    /\ Stacked(S) /\ \E n \in Nat : \A s \in S : s.index <= n
    /\ \A s \in S : s.kind \in StatementKinds

LEMMA NotStatements ==
    ASSUME NEW S, SignedWell(S)
    PROVE  NoStatement \notin S /\ Garbled \notin S
  <1>1. NoStatement.kind = "none" /\ Garbled.kind = "garbled"
    BY DEF NoStatement, Garbled
  <1>2. \A s \in S : s.kind # "none" /\ s.kind # "garbled"
    BY DEF SignedWell, StatementKinds
  <1> QED BY <1>1, <1>2

(* What a reading is given: statements signed, and what a whole reading    *)
(* ended with if it continues one.                                         *)
Readable(S, in) ==
    /\ in.lines \subseteq S \cup {Garbled} /\ in.head \in S \cup {NoStatement}
    /\ in.resume = NoContinuation \/ Whole(S, in.resume)

(* A reading with no finding.                                              *)
LEMMA CleanReading ==
    ASSUME NEW S, SignedWell(S), NEW in, Readable(S, in), NEW trail0,
           ReadFindings(in, trail0) = {}
    PROVE  /\ ~ ChainBroken(in, trail0)
           /\ Walked(in, trail0) \subseteq S
           /\ \A s \in Walked(in, trail0) : s.key \in TrustedKeys /\ s.index >= StartIndex(in)
           /\ \A s, t \in Walked(in, trail0) : s.index = t.index => s = t
  <1>1. StatementFindings(in, trail0) = {}
    BY DEF ReadFindings
  <1>2. ~ ChainBroken(in, trail0)
    BY <1>1 DEF ReadFindings
  <1>3. Garbled \notin Supplied(in) /\ ~ Equivocates(in, trail0)
    BY <1>1 DEF StatementFindings
  <1>4. StatementSet(in) \subseteq S
    <2>1. in.resume = NoContinuation =>
            in.resume.last = NoStatement /\ in.resume.latest = NoStatement
      BY DEF NoContinuation
    <2>2. in.resume # NoContinuation => in.resume.last \in S /\ in.resume.latest \in S
      BY DEF Readable, Whole, LatestIn, ChainIn
    <2> QED BY <2>1, <2>2 DEF StatementSet, Supplied, Readable
  <1>5. Walked(in, trail0) \subseteq Passing(in, trail0)
        /\ \A s \in Walked(in, trail0) : s.index >= StartIndex(in)
    BY DEF Walked
  <1>6. Passing(in, trail0) \subseteq S /\ \A s \in Passing(in, trail0) : s.key \in TrustedKeys
    BY <1>4 DEF Passing
  <1>7. \A s, t \in Passing(in, trail0) : s.index = t.index => s = t
    BY <1>3 DEF Equivocates
  <1> QED BY <1>2, <1>5, <1>6, <1>7

(* Each statement walked follows one that is walked, or the continuation's *)
(* last.                                                                   *)
LEMMA WalkFollows ==
    ASSUME NEW S, SignedWell(S), NEW in, NEW walked, walked \subseteq S,
           NEW s \in walked, ~ StatementBroken(in, walked, s)
    PROVE  s.prev \in walked \/ s.prev = Before(in)
  <1> DEFINE before == {t \in walked : t.index < s.index}
             Top(t) == \A u \in before : u.index <= t.index
  <1>1. s.prev = IF before = {} THEN Before(in) ELSE CHOOSE t \in before : Top(t)
    BY DEF StatementBroken
  <1>2. CASE before = {}
    BY <1>1, <1>2
  <1>3. CASE before # {}
    <2>1. PICK n \in Nat : \A t \in S : t.index <= n
      BY DEF SignedWell
    <2>2. \A t \in before : t.index \in Nat /\ t.index <= n
      BY <2>1 DEF SignedWell, Stacked
    <2>3. \E t \in before : Top(t)
      <3> HIDE DEF before
      <3> QED BY <1>3, <2>2, Highest
    <2>4. (CHOOSE t \in before : Top(t)) \in before
      <3> HIDE DEF before, Top
      <3> QED BY <2>3
    <2> QED BY <1>1, <1>3, <2>4
  <1> QED BY <1>2, <1>3

(* The last statement of a walk, and the latest checkpoint statement.      *)
LEMMA WalkEnds ==
    ASSUME NEW S, SignedWell(S), NEW in, NEW trail0, NEW walked, walked = Walked(in, trail0),
           walked \subseteq S, walked # {}, NEW last, last = LastRead(in, trail0)
    PROVE  last \in walked /\ \A t \in walked : t.index <= last.index
  <1> DEFINE Top(t) == \A u \in walked : u.index <= t.index
  <1>1. PICK n \in Nat : \A t \in S : t.index <= n
    BY DEF SignedWell
  <1>2. \A t \in walked : t.index \in Nat /\ t.index <= n
    BY <1>1 DEF SignedWell, Stacked
  <1>3. \E t \in walked : Top(t)
    BY <1>2, Highest
  <1>4. last = CHOOSE t \in walked : Top(t)
    BY DEF LastRead
  <1>5. last \in walked /\ Top(last)
    <2> HIDE DEF Top
    <2> QED BY <1>3, <1>4
  <1> QED BY <1>5

LEMMA WalkLatest ==
    ASSUME NEW S, SignedWell(S), NEW in, NEW walked, walked \subseteq S, NEW index \in Nat,
           NEW earlier, earlier = {t \in walked : t.kind = "checkpoint" /\ t.index < index},
           NEW latest, latest = LatestBefore(in, walked, index)
    PROVE  /\ earlier = {} => latest = in.resume.latest
           /\ earlier # {} => latest \in earlier /\ \A t \in earlier : t.index <= latest.index
  <1> DEFINE Top(t) == \A u \in earlier : u.index <= t.index
  <1>1. latest = IF earlier # {} THEN CHOOSE t \in earlier : Top(t) ELSE in.resume.latest
    BY DEF LatestBefore
  <1>2. CASE earlier # {}
    <2>1. \A t \in earlier : t.index \in Nat /\ t.index <= index
      BY DEF SignedWell, Stacked
    <2>2. \E t \in earlier : Top(t)
      BY <1>2, <2>1, Highest
    <2>3. latest \in earlier /\ Top(latest)
      <3> HIDE DEF Top
      <3> QED BY <1>1, <1>2, <2>2
    <2> QED BY <1>2, <2>3
  <1> QED BY <1>1, <1>2

(* What a reading with no finding ends with is what a whole reading of its *)
(* chain would have.                                                       *)
LEMMA ReadingWhole ==
    ASSUME NEW S, SignedWell(S), NEW in, Readable(S, in), NEW trail0,
           ReadFindings(in, trail0) = {},
           NEW c, c.last = LastRead(in, trail0), c.latest = LatestRead(in, trail0)
    PROVE  Whole(S, c)
  <1> DEFINE old == in.resume.last
             OldChain == IF in.resume = NoContinuation THEN {} ELSE ChainIn(S, old)
  <1>1. PICK walked : walked = Walked(in, trail0)
    OBVIOUS
  <1>2. PICK last : last = LastRead(in, trail0)
    OBVIOUS
  <1>3. /\ ~ ChainBroken(in, trail0) /\ walked \subseteq S
        /\ \A s \in walked : s.key \in TrustedKeys /\ s.index >= old.index + 1
        /\ \A s, t \in walked : s.index = t.index => s = t
    BY <1>1, CleanReading DEF StartIndex
  <1>4. /\ in.resume = NoContinuation => walked # {}
        /\ \A s \in walked : ~ StatementBroken(in, walked, s)
    BY <1>1, <1>3 DEF ChainBroken
  <1>5. Stacked(S) /\ NoStatement \notin S
    BY NotStatements DEF SignedWell
  <1>6. in.resume # NoContinuation =>
            /\ old \in S /\ LatestIn(S, old, in.resume.latest)
            /\ \A t \in OldChain : t.key \in TrustedKeys
    BY DEF Readable, Whole
  <1>7. in.resume = NoContinuation => old = NoStatement /\ in.resume.latest = NoStatement
    BY DEF NoContinuation
  <1>8. /\ OldChain \subseteq S /\ GoesBack(OldChain)
        /\ in.resume # NoContinuation => old \in OldChain
        /\ \A t \in OldChain : t.index \in Nat /\ (t = old \/ t.index < old.index)
    <2>1. CASE in.resume = NoContinuation
      BY <2>1 DEF GoesBack
    <2>2. CASE in.resume # NoContinuation
      BY <1>5, <1>6, <2>2, ChainClosed, ChainTop
    <2> QED BY <2>1, <2>2
  <1>9. old.index \in Int /\ \A s \in S : s.index \in Nat
    <2>1. NoStatement.index = -1
      BY DEF NoStatement
    <2> QED BY <1>5, <1>6, <1>7, <2>1 DEF Stacked
  <1>10. \A t \in OldChain : t.index <= old.index
    BY <1>8, <1>9
  <1>11. PICK C : C = walked \cup OldChain
    OBVIOUS
  <1>12. C \subseteq S /\ GoesBack(C) /\ \A t \in C : t.key \in TrustedKeys
    <2>1. \A s \in walked : s.prev \in walked \/ s.prev = old
      BY <1>3, <1>4, WalkFollows DEF Before
    <2>2. \A s \in walked : s.prev # NoStatement => s.prev \in C
      BY <1>7, <1>8, <1>11, <2>1
    <2>3. \A s \in OldChain : s.prev # NoStatement => s.prev \in C
      BY <1>8, <1>11 DEF GoesBack
    <2>4. OldChain # {} => in.resume # NoContinuation
      OBVIOUS
    <2> HIDE DEF OldChain
    <2> QED BY <1>3, <1>6, <1>8, <1>11, <2>2, <2>3, <2>4 DEF GoesBack
  <1>13. CASE walked = {}
    <2>1. in.resume # NoContinuation
      BY <1>4, <1>13
    <2>2. last = old
      BY <1>1, <1>2, <1>13 DEF LastRead, Before
    <2>3. LatestRead(in, trail0) = in.resume.latest
      BY <1>1, <1>13 DEF LatestRead, LatestBefore
    <2> QED BY <1>2, <1>6, <2>1, <2>2, <2>3 DEF Whole
  <1>14. CASE walked # {}
    <2>1. last \in walked /\ \A t \in walked : t.index <= last.index
      BY <1>1, <1>2, <1>3, <1>14, WalkEnds
    <2>2. last \in S /\ last.index \in Nat /\ last.index >= old.index + 1
      BY <1>3, <1>9, <2>1
    <2>3. ChainIn(S, last) \subseteq C
      BY <1>11, <1>12, <2>1, ChainLeast
    <2>4. ASSUME NEW t \in walked PROVE t \in ChainIn(S, last)
      <3>1. t.index \in 0 .. last.index /\ t.index >= old.index + 1
        BY <1>3, <1>9, <2>1
      <3>2. PICK u \in ChainIn(S, last) : u.index = t.index
        BY <1>5, <2>2, <3>1, ChainWhole
      <3>3. u \notin OldChain
        <4> HIDE DEF OldChain
        <4> QED BY <1>9, <1>10, <3>1, <3>2
      <3>4. u \in walked
        <4> HIDE DEF OldChain
        <4> QED BY <1>11, <2>3, <3>2, <3>3
      <3> QED BY <1>3, <3>2, <3>4
    <2>5. OldChain \subseteq ChainIn(S, last)
      <3>1. CASE in.resume = NoContinuation
        BY <3>1
      <3>2. CASE in.resume # NoContinuation
        <4>1. old \in S /\ old.index \in 0 .. last.index
          BY <1>6, <1>9, <2>2, <3>2
        <4>2. PICK u \in ChainIn(S, last) : u.index = old.index
          BY <1>5, <2>2, <4>1, ChainWhole
        <4>3. u \notin walked
          BY <1>3, <1>9, <4>2
        <4>4. u \in OldChain
          <5> HIDE DEF OldChain
          <5> QED BY <1>11, <2>3, <4>2, <4>3
        <4>5. u = old
          <5> HIDE DEF OldChain
          <5> QED BY <1>8, <1>9, <4>2, <4>4
        <4> QED BY <1>5, <2>2, <3>2, <4>2, <4>5, ChainWithin
      <3> QED BY <3>1, <3>2
    <2>6. PICK latest : latest = LatestRead(in, trail0)
      OBVIOUS
    <2>7. PICK earlier : earlier = {t \in walked : t.kind = "checkpoint" /\ t.index < last.index + 1}
      OBVIOUS
    <2>8. /\ earlier = {} => latest = in.resume.latest
          /\ earlier # {} => latest \in earlier /\ \A t \in earlier : t.index <= latest.index
      <3>1. last.index + 1 \in Nat /\ latest = LatestBefore(in, walked, last.index + 1)
        BY <1>1, <1>2, <2>2, <2>6 DEF LatestRead
      <3>2. PICK n \in Nat : n = last.index + 1
        BY <3>1
      <3>3. /\ earlier = {t \in walked : t.kind = "checkpoint" /\ t.index < n}
            /\ latest = LatestBefore(in, walked, n)
        BY <2>7, <3>1, <3>2
      <3>4. walked \subseteq S /\ SignedWell(S)
        BY <1>3
      <3> HIDE DEF OldChain
      <3> QED BY ONLY <3>2, <3>3, <3>4, WalkLatest
    <2>9. \A t \in walked : t.kind = "checkpoint" => t \in earlier
      BY <1>3, <1>9, <2>1, <2>2, <2>7
    <2>10. LatestIn(S, last, latest)
      <3>1. CASE earlier # {}
        <4>1. latest \in walked /\ latest.kind = "checkpoint" /\ latest.index >= old.index + 1
          BY <1>3, <2>7, <2>8, <3>1
        <4>2. ASSUME NEW u \in ChainIn(S, last), u.kind = "checkpoint"
              PROVE  u.index <= latest.index
          <5>1. u \in walked \/ u \in OldChain
            BY <1>11, <2>3
          <5>2. u \in walked => u.index <= latest.index
            BY <2>8, <2>9, <3>1, <4>2
          <5>3. latest.index \in Nat
            BY <1>3, <1>9, <4>1
          <5>4. u \in OldChain => u.index <= latest.index
            <6> HIDE DEF OldChain
            <6> QED BY <1>8, <1>9, <1>10, <4>1, <5>3
          <5> QED BY <5>1, <5>2, <5>4
        <4> QED BY <2>4, <4>1, <4>2 DEF LatestIn
      <3>2. CASE earlier = {}
        <4>1. last.kind # "checkpoint"
          BY <2>1, <2>9, <3>2
        <4>2. {t \in walked : t.kind = "checkpoint" /\ t.index < last.index} = {}
          BY <2>9, <3>2
        <4>3. LatestBefore(in, walked, last.index) = in.resume.latest
          BY <4>2 DEF LatestBefore
        <4>4. in.resume.latest # NoStatement
          BY <1>4, <2>1, <4>1, <4>3 DEF StatementBroken
        <4>5. in.resume # NoContinuation
          BY <1>7, <4>4
        <4>6. latest \in OldChain /\ latest.kind = "checkpoint"
              /\ \A u \in OldChain : u.kind = "checkpoint" => u.index <= latest.index
          BY <1>6, <2>8, <3>2, <4>5 DEF LatestIn
        <4>7. \A u \in ChainIn(S, last) : u.kind = "checkpoint" => u \in OldChain
          <5> HIDE DEF OldChain
          <5> QED BY <1>11, <2>3, <2>9, <3>2
        <4> HIDE DEF OldChain
        <4> QED BY <2>5, <4>6, <4>7 DEF LatestIn
      <3> QED BY <3>1, <3>2
    <2>11. \A t \in ChainIn(S, last) : t.key \in TrustedKeys
      BY <1>12, <2>3
    <2> QED BY <1>2, <2>2, <2>6, <2>10, <2>11 DEF Whole
  <1> QED BY <1>13, <1>14

-----------------------------------------------------------------------------
(* The trail has one identity, whoever finds it, until it is altered.      *)
OneTrail(b) == \A k \in DOMAIN b : ChainedLine(b[k]) => b[k][1].trail = Writing

LEMMA HeadTrail ==
    ASSUME NEW b \in Bytes, OneTrail(b)
    PROVE  ReadHead(b, Writing).trail = Writing
  <1> DEFINE n == LineCount(b)
             last == {k \in 1 .. n : /\ ChainedLine(b[k])
                                     /\ \A m \in k + 1 .. n : ~ ChainedLine(b[m])}
  <1>1. n \in Nat /\ 1 .. n \subseteq DOMAIN b
    BY DEF Bytes, LineCount
  <1>2. CASE n > 0 /\ ChainedLine(b[n])
    <2>1. n \in DOMAIN b
      BY <1>1, <1>2
    <2> QED BY <1>2, <2>1 DEF ReadHead, OneTrail
  <1>3. CASE ~ (n > 0 /\ ChainedLine(b[n]))
    <2>1. LastTrail(b) = NoTrail \/ LastTrail(b) = Writing
      <3>1. CASE last = {}
        BY <3>1 DEF LastTrail
      <3>2. CASE last # {}
        <4>1. PICK k \in last : k = CHOOSE i \in last : TRUE
          BY <3>2
        <4>2. k \in DOMAIN b /\ ChainedLine(b[k])
          BY <1>1, <4>1
        <4>3. LastTrail(b) = b[k][1].trail
          BY <3>2, <4>1 DEF LastTrail
        <4> QED BY <4>2, <4>3 DEF OneTrail
      <3> QED BY <3>1, <3>2
    <2> QED BY <1>3, <2>1 DEF ReadHead
  <1> QED BY <1>2, <1>3

LEMMA OneTrailHolds ==
    ASSUME NEW b, OneTrail(b), NEW q, q.trail = Writing, NEW c, Holds(c, b, q)
    PROVE  OneTrail(c)
  <1> SUFFICES ASSUME NEW k \in DOMAIN c, ChainedLine(c[k]) PROVE c[k][1].trail = Writing
    BY DEF OneTrail
  <1>1. c[k] # << >>
    <2>1. Len(c[k]) = 1
      BY DEF ChainedLine, WholeRecord
    <2>2. Len(<< >>) = 0
      OBVIOUS
    <2> QED BY <2>1, <2>2
  <1>2. CASE c[k] = << q >>
    BY <1>2, OnePiece
  <1>3. CASE \E j \in DOMAIN b : c[k] = b[j]
    BY <1>3 DEF OneTrail
  <1> QED BY <1>1, <1>2, <1>3 DEF Holds

LEMMA TrailOne ==
    ASSUME WitnessingInv, OneTrail(trail), AppendRecord \/ TearRecord \/ RepairTrail
    PROVE  OneTrail(trail')
  <1>1. Single(trail) /\ trail \in Bytes
    BY DEF WitnessingInv, TrailStood, Single
  <1>2. CASE AppendRecord \/ TearRecord
    <2>1. /\ Appended.err = "none"
          /\ \/ trail' = Concat(trail, Appended.data)
             \/ trail' = Concat(trail, << Appended.data[1] >>)
      BY <1>2 DEF AppendRecord, TearRecord, Grow, Tear
    <2>2. PICK q \in Piece : /\ q.trail = ReadHead(trail, Writing).trail
                             /\ Appended.data = << << q >>, << >> >>
      BY <2>1, AppendedRecord
    <2>3. TailOf(trail) = << >>
      BY <2>1, AppendedRecord
    <2>4. \/ trail' = Concat(trail, << << q >>, << >> >>)
          \/ trail' = Concat(trail, << << q >> >>)
      BY <2>1, <2>2
    <2>5. Holds(trail', trail, q)
      BY <1>1, <2>3, <2>4, SingleAppend
    <2>6. q.trail = Writing
      BY <1>1, <2>2, HeadTrail
    <2> QED BY <2>5, <2>6, OneTrailHolds
  <1>3. CASE RepairTrail
    <2>1. PICK before : before = UpTo(trail, LineCount(trail))
      OBVIOUS
    <2>2. PICK q \in Piece : /\ q.trail = ReadHead(before, Writing).trail
                             /\ trail' = Concat(trail, << << >>, << q >>, << >> >>)
      BY <1>3, <2>1, MendedRecord
    <2>3. TailOf(trail) # << >>
      BY <1>3, MendedRecord
    <2>4. Holds(trail', trail, q)
      BY <1>1, <2>2, <2>3, SingleMend
    <2>5. LineCount(trail) \in 0 .. LineCount(trail)
      BY <1>1 DEF Bytes, LineCount
    <2>6. before \in Bytes /\ \A x : Holds(before, trail, x)
      BY <1>1, <2>1, <2>5, SingleUpTo DEF Single
    <2>7. PICK x : x = [trail |-> Writing]
      OBVIOUS
    <2>8. OneTrail(before)
      BY <2>6, <2>7, OneTrailHolds
    <2>9. q.trail = Writing
      BY <2>2, <2>6, <2>8, HeadTrail
    <2> QED BY <2>4, <2>9, OneTrailHolds
  <1> QED BY <1>2, <1>3

-----------------------------------------------------------------------------
(* Where a statement may stand: after none, or after the one it names with *)
(* the sequence its kind asks for.                                         *)
Placed(S, s) ==
    /\ s.prev = NoStatement => s.kind = "checkpoint"
    /\ s.prev # NoStatement =>
         /\ s.prev.kind # "retirement"
         /\ \A t : LatestIn(S, s.prev, t) =>
               /\ s.kind = "checkpoint" => s.checkpoint.seq > t.checkpoint.seq
               /\ s.kind = "conflict" => s.checkpoint.seq <= t.checkpoint.seq
               /\ s.kind = "retirement" => s.checkpoint = t.checkpoint

SignedStands(S) == SignedWell(S) /\ \A s \in S : Placed(S, s)

LEMMA PlacedStays ==
    ASSUME NEW S, Stacked(S), NEW s, s.prev \in S \cup {NoStatement}, Placed(S, s),
           NEW T, S \subseteq T
    PROVE  Placed(T, s)
  <1>1. CASE s.prev = NoStatement
    BY <1>1 DEF Placed
  <1>2. CASE s.prev # NoStatement
    <2>1. PICK p \in S : p = s.prev
      BY <1>2
    <2>2. ChainIn(T, p) = ChainIn(S, p)
      BY ChainStays
    <2>3. \A t : LatestIn(T, p, t) => LatestIn(S, p, t)
      BY <2>2 DEF LatestIn
    <2> QED BY <1>2, <2>1, <2>3 DEF Placed
  <1> QED BY <1>1, <1>2

(* One statement more.                                                     *)
LEMMA SignedMore ==
    ASSUME NEW S, SignedStands(S), NEW n, n.kind \in StatementKinds, Placed(S, n),
           \/ n.prev = NoStatement /\ n.index = 0
           \/ n.prev # NoStatement /\ n.prev \in S /\ n.index = n.prev.index + 1,
           NEW T, T = S \cup {n}
    PROVE  SignedStands(T)
  <1>1. Stacked(S) /\ \A s \in S : s.kind \in StatementKinds /\ Placed(S, s)
    BY DEF SignedStands, SignedWell
  <1>2. PICK m \in Nat : \A s \in S : s.index <= m
    BY DEF SignedStands, SignedWell
  <1>3. n.index \in Nat /\ n.index <= m + 1
    BY <1>1, <1>2 DEF Stacked
  <1>4. Stacked(T)
    BY <1>1, <1>3 DEF Stacked
  <1>5. \E k \in Nat : \A s \in T : s.index <= k
    <2>1. PICK k \in Nat : k = m + 1
      BY <1>2
    <2>2. \A s \in S : s.index <= k
      BY <1>1, <1>2, <2>1 DEF Stacked
    <2> QED BY <1>3, <2>1, <2>2
  <1>6. ASSUME NEW s \in T PROVE s.prev \in S \cup {NoStatement} /\ Placed(S, s)
    BY <1>1 DEF Stacked
  <1>7. \A s \in T : Placed(T, s)
    <2> SUFFICES ASSUME NEW s \in T PROVE Placed(T, s)
      OBVIOUS
    <2> QED BY <1>1, <1>6, PlacedStays
  <1> QED BY <1>1, <1>4, <1>5, <1>7 DEF SignedStands, SignedWell

(* A chain begins with a checkpoint statement, so one of them is latest.   *)
LEMMA LatestThere ==
    ASSUME NEW S, SignedStands(S), NEW s \in S
    PROVE  \E t : LatestIn(S, s, t)
  <1>1. Stacked(S) /\ \A t \in S : Placed(S, t)
    BY DEF SignedStands, SignedWell
  <1>2. s.index \in Nat
    BY <1>1 DEF Stacked
  <1>3. PICK first \in ChainIn(S, s) : first.index = 0
    BY <1>1, <1>2, ChainWhole
  <1>4. first \in S
    BY <1>1, ChainTop
  <1>5. first.prev = NoStatement
    <2>1. first.prev # NoStatement => first.prev.index \in Nat /\ first.prev.index + 1 = 0
      BY <1>1, <1>3, <1>4 DEF Stacked
    <2> QED BY <2>1
  <1>6. first.kind = "checkpoint"
    BY <1>1, <1>4, <1>5 DEF Placed
  <1>7. PICK m \in Nat : \A t \in S : t.index <= m
    BY DEF SignedStands, SignedWell
  <1>8. PICK C : C = {t \in ChainIn(S, s) : t.kind = "checkpoint"}
    OBVIOUS
  <1>9. C # {} /\ \A t \in C : t.index \in Nat /\ t.index <= m
    BY <1>1, <1>3, <1>6, <1>7, <1>8, ChainTop
  <1>10. PICK t \in C : \A u \in C : u.index <= t.index
    BY <1>9, Highest
  <1> QED BY <1>8, <1>10 DEF LatestIn

LEMMA LatestTrue ==
    ASSUME SignedStands(signed), NEW s \in signed
    PROVE  LatestIn(signed, s, Latest(s))
  <1> DEFINE Top(t) == /\ t.kind = "checkpoint"
                       /\ \A u \in Chain(s) : u.kind = "checkpoint" => u.index <= t.index
  <1>1. Chain(s) = ChainIn(signed, s)
    BY DEF Chain, ChainIn
  <1>2. PICK t : LatestIn(signed, s, t)
    BY LatestThere
  <1>3. t \in Chain(s) /\ Top(t)
    BY <1>1, <1>2 DEF LatestIn
  <1>4. Latest(s) = CHOOSE u \in Chain(s) : Top(u)
    BY DEF Latest
  <1>5. Latest(s) \in Chain(s) /\ Top(Latest(s))
    <2> HIDE DEF Top
    <2> QED BY <1>3, <1>4
  <1> QED BY <1>1, <1>5 DEF LatestIn

-----------------------------------------------------------------------------
(* What the continuation file may hold.                                    *)
Continuations(S) ==
    {NoContinuation} \cup {c \in [last : S, latest : S] : Whole(S, c)}

LEMMA ContinuationsStay ==
    ASSUME NEW S, Stacked(S), NEW T, S \subseteq T
    PROVE  Continuations(S) \subseteq Continuations(T)
  <1> SUFFICES ASSUME NEW c \in Continuations(S), c # NoContinuation PROVE c \in Continuations(T)
    BY DEF Continuations
  <1>1. c \in [last : S, latest : S] /\ Whole(S, c)
    BY DEF Continuations
  <1>2. Whole(T, c)
    BY <1>1, WholeStays
  <1>3. c \in [last : T, latest : T]
    BY <1>1
  <1> QED BY <1>2, <1>3 DEF Continuations

Places == {"start", "open", "save", "rename"}

Progress == [pc : Places, resume : Continuations(signed), next : Continuations(signed),
             same : BOOLEAN]

SavedInv ==
    /\ SignedStands(signed) /\ \A s \in signed : s.checkpoint \in held
    /\ saved \in Continuations(signed) /\ reader \in [Reader -> Progress]
    /\ changes = 0 => OneTrail(trail)

(* A verification saves nothing or what a whole reading ends with.         *)
LEMMA VerifiedWhole ==
    ASSUME SignedStands(signed), NEW resume \in Continuations(signed),
           NEW in \in Inputs(resume), NEW next, next = Continuation(trail, {}, in, 0, 0)
    PROVE  next \in Continuations(signed)
  <1> SUFFICES ASSUME next # NoContinuation PROVE next \in Continuations(signed)
    BY DEF Continuations
  <1>1. NoFinding(trail, {}, {in}, 0, 0)
    BY DEF Continuation
  <1>2. next = [last |-> LastRead(in, Trail(trail)), latest |-> LatestRead(in, Trail(trail))]
    BY <1>1 DEF Continuation
  <1>3. ReadFindings(in, Trail(trail)) = {}
    BY <1>1 DEF NoFinding, Reads
  <1>4. Readable(signed, in)
    <2>1. /\ in.lines \in (SUBSET signed) \cup {{Garbled}} /\ in.head \in signed \cup {NoStatement}
          /\ in.resume \in {NoContinuation, resume}
      BY DEF Inputs
    <2>2. resume = NoContinuation \/ Whole(signed, resume)
      BY DEF Continuations
    <2> QED BY <2>1, <2>2 DEF Readable
  <1>5. PICK trail0 : trail0 = Trail(trail)
    OBVIOUS
  <1>6. next.last = LastRead(in, trail0) /\ next.latest = LatestRead(in, trail0)
    BY <1>2, <1>5
  <1>7. SignedWell(signed)
    BY DEF SignedStands
  <1>8. Whole(signed, next)
    BY <1>3, <1>4, <1>5, <1>6, <1>7, ReadingWhole
  <1>9. next.last \in signed /\ next.latest \in signed
    BY <1>8 DEF Whole, LatestIn, ChainIn
  <1>10. next \in [last : signed, latest : signed]
    BY <1>2, <1>9
  <1> QED BY <1>8, <1>10 DEF Continuations

-----------------------------------------------------------------------------
(* The steps.                                                              *)

LEMMA WaitingProgress ==
    ASSUME NEW C, NEW P, P = [pc : Places, resume : C, next : C, same : BOOLEAN],
           NoContinuation \in C
    PROVE  /\ Waiting \in P
           /\ \A c \in C : /\ [Waiting EXCEPT !.pc = "open", !.resume = c] \in P
                           /\ [Waiting EXCEPT !.pc = "save", !.next = c] \in P
           /\ \A p \in P : /\ [p EXCEPT !.pc = "rename"] \in P
                           /\ [p EXCEPT !.same = FALSE] \in P
  <1>1. PICK none \in C : none = NoContinuation
    OBVIOUS
  <1>2. PICK w : w = Waiting
    OBVIOUS
  <1>3. w = [pc |-> "start", resume |-> none, next |-> none, same |-> TRUE]
    BY <1>1, <1>2 DEF Waiting
  <1>4. {"start", "open", "save", "rename"} = Places
    BY DEF Places
  <1>5. w \in P
    BY <1>3, <1>4
  <1>6. \A p \in P : /\ [p EXCEPT !.pc = "rename"] \in P
                     /\ [p EXCEPT !.same = FALSE] \in P
    BY <1>4
  <1>7. \A c \in C : /\ [w EXCEPT !.pc = "open", !.resume = c] \in P
                     /\ [w EXCEPT !.pc = "save", !.next = c] \in P
    BY <1>4, <1>5
  <1> QED BY <1>2, <1>5, <1>6, <1>7

LEMMA ProgressFacts ==
    /\ Waiting \in Progress
    /\ \A c \in Continuations(signed) :
          /\ [Waiting EXCEPT !.pc = "open", !.resume = c] \in Progress
          /\ [Waiting EXCEPT !.pc = "save", !.next = c] \in Progress
    /\ \A p \in Progress : /\ [p EXCEPT !.pc = "rename"] \in Progress
                           /\ [p EXCEPT !.same = FALSE] \in Progress
  <1>1. PICK C : C = Continuations(signed)
    OBVIOUS
  <1>2. PICK P : P = Progress
    OBVIOUS
  <1>3. P = [pc : Places, resume : C, next : C, same : BOOLEAN] /\ NoContinuation \in C
    BY <1>1, <1>2 DEF Progress, Continuations
  <1> QED BY <1>1, <1>2, <1>3, WaitingProgress

LEMMA InitSaved == Init => SavedInv
  <1> SUFFICES ASSUME Init PROVE SavedInv
    OBVIOUS
  <1>1. signed = {} /\ saved = NoContinuation /\ reader = [r \in Reader |-> Waiting]
        /\ trail = Empty
    BY DEF Init, FileInit
  <1>2. SignedStands({})
    BY DEF SignedStands, SignedWell, Stacked
  <1>3. Waiting \in Progress
    BY ProgressFacts
  <1>4. OneTrail(Empty)
    <2>1. \A k \in DOMAIN Empty : Empty[k] = << >>
      BY DEF Empty
    <2>2. ~ ChainedLine(<< >>)
      BY DEF ChainedLine, WholeRecord
    <2> QED BY <2>1, <2>2 DEF OneTrail
  <1> QED BY <1>1, <1>2, <1>3, <1>4 DEF SavedInv, Continuations

LEMMA SignSaves ==
    ASSUME SavedInv, NEW kind \in StatementKinds, NEW prev \in signed \cup {NoStatement},
           NEW c \in held, Sign(kind, prev, c), UNCHANGED <<file, held, saved, reader>>,
           prev = NoStatement => kind = "checkpoint",
           prev # NoStatement =>
             /\ prev.kind # "retirement"
             /\ kind = "checkpoint" => c.seq > Latest(prev).checkpoint.seq
             /\ kind = "conflict" => c.seq <= Latest(prev).checkpoint.seq
             /\ kind = "retirement" => c = Latest(prev).checkpoint
    PROVE  SavedInv'
  <1>1. PICK key : signed' = signed \cup {[kind |-> kind, index |-> prev.index + 1,
                                           prev |-> prev, key |-> key, checkpoint |-> c]}
    BY DEF Sign
  <1>2. PICK n : n = [kind |-> kind, index |-> prev.index + 1, prev |-> prev,
                      key |-> key, checkpoint |-> c]
    OBVIOUS
  <1>3. /\ n.kind = kind /\ n.index = prev.index + 1 /\ n.prev = prev /\ n.checkpoint = c
        /\ signed' = signed \cup {n}
    BY <1>1, <1>2
  <1>4. SignedStands(signed) /\ Stacked(signed) /\ SignedWell(signed)
    BY DEF SavedInv, SignedStands, SignedWell
  <1>5. NoStatement \notin signed
    BY <1>4, NotStatements
  <1>6. \/ n.prev = NoStatement /\ n.index = 0
        \/ n.prev # NoStatement /\ n.prev \in signed /\ n.index = n.prev.index + 1
    <2>1. NoStatement.index + 1 = 0
      BY DEF NoStatement
    <2> QED BY <1>3, <1>5, <2>1
  <1>7. Placed(signed, n)
    <2>1. CASE prev = NoStatement
      BY <1>3, <2>1 DEF Placed
    <2>2. CASE prev # NoStatement
      <3>1. prev \in signed
        BY <2>2
      <3>2. LatestIn(signed, prev, Latest(prev))
        BY <1>4, <3>1, LatestTrue
      <3>3. \A t : LatestIn(signed, prev, t) => t = Latest(prev)
        <4>1. PICK u : u = Latest(prev)
          OBVIOUS
        <4>2. \A t : LatestIn(signed, prev, t) => t = u
          BY <1>4, <3>1, <3>2, <4>1, LatestOne
        <4> QED BY <4>1, <4>2
      <3> QED BY <1>3, <2>2, <3>3 DEF Placed
    <2> QED BY <2>1, <2>2
  <1>8. SignedStands(signed')
    <2>1. PICK T : T = signed'
      OBVIOUS
    <2>2. SignedStands(T)
      BY <1>3, <1>4, <1>6, <1>7, <2>1, SignedMore
    <2> QED BY <2>1, <2>2
  <1>9. Continuations(signed) \subseteq Continuations(signed')
    <2>1. PICK T : T = signed'
      OBVIOUS
    <2>2. Continuations(signed) \subseteq Continuations(T)
      BY <1>3, <1>4, <2>1, ContinuationsStay
    <2> QED BY <2>1, <2>2
  <1>10. saved' \in Continuations(signed') /\ reader' \in [Reader -> Progress']
    <2>1. Progress \subseteq Progress'
      BY <1>9 DEF Progress
    <2>2. reader \in [Reader -> Progress] /\ saved \in Continuations(signed)
      BY DEF SavedInv
    <2> QED BY <1>9, <2>1, <2>2
  <1>11. \A s \in signed' : s.checkpoint \in held'
    BY <1>3 DEF SavedInv
  <1>12. (changes = 0 => OneTrail(trail))'
    BY DEF SavedInv, OneTrail, file
  <1> QED BY <1>8, <1>10, <1>11, <1>12 DEF SavedInv

LEMMA StatementSaves == SavedInv /\ (Submit \/ Retire) => SavedInv'
  <1> SUFFICES ASSUME SavedInv, Submit \/ Retire PROVE SavedInv'
    OBVIOUS
  <1>1. UNCHANGED <<file, held, saved, reader>>
    BY DEF Submit, Retire
  <1>2. StatementKinds = {"checkpoint", "conflict", "retirement"}
    BY DEF StatementKinds
  <1>3. SignedStands(signed) /\ \A s \in signed : s.checkpoint \in held
    BY DEF SavedInv
  <1>4. NoStatement \notin signed
    BY <1>3, NotStatements DEF SignedStands
  <1>5. CASE Submit
    <2>1. PICK c \in held :
            \/ Sign("checkpoint", NoStatement, c)
            \/ \E s \in signed :
                 /\ s.kind # "retirement"
                 /\ \/ c.seq > Latest(s).checkpoint.seq /\ Sign("checkpoint", s, c)
                    \/ c.seq <= Latest(s).checkpoint.seq /\ Sign("conflict", s, c)
      BY <1>5 DEF Submit
    <2>2. CASE Sign("checkpoint", NoStatement, c)
      BY <1>1, <1>2, <2>2, SignSaves
    <2>3. ASSUME NEW s \in signed, s.kind # "retirement", c.seq > Latest(s).checkpoint.seq,
                 Sign("checkpoint", s, c)
          PROVE  SavedInv'
      BY <1>1, <1>2, <1>4, <2>3, SignSaves
    <2>4. ASSUME NEW s \in signed, s.kind # "retirement", c.seq <= Latest(s).checkpoint.seq,
                 Sign("conflict", s, c)
          PROVE  SavedInv'
      BY <1>1, <1>2, <1>4, <2>4, SignSaves
    <2> QED BY <2>1, <2>2, <2>3, <2>4
  <1>6. CASE Retire
    <2>1. PICK s \in signed : /\ s.kind # "retirement"
                              /\ Sign("retirement", s, Latest(s).checkpoint)
      BY <1>6 DEF Retire
    <2>2. PICK c : c = Latest(s).checkpoint
      OBVIOUS
    <2>3. c \in held
      <3>1. LatestIn(signed, s, Latest(s))
        BY <1>3, LatestTrue
      <3> QED BY <1>3, <2>2, <3>1 DEF LatestIn, ChainIn
    <2> QED BY <1>1, <1>2, <1>4, <2>1, <2>2, <2>3, SignSaves
  <1> QED BY <1>5, <1>6

LEMMA ReaderSaves ==
    ASSUME SavedInv, NEW r \in Reader,
           ReadContinuation(r) \/ OpenAndVerify(r) \/ StillAsChecked(r) \/ Rename(r)
    PROVE  SavedInv'
  <1>1. /\ SignedStands(signed) /\ saved \in Continuations(signed)
        /\ reader \in [Reader -> Progress] /\ reader[r] \in Progress
    BY DEF SavedInv
  <1>2. UNCHANGED <<file, held, signed>>
    BY DEF ReadContinuation, OpenAndVerify, StillAsChecked, Rename, Moves
  <1>3. Waiting \in Progress
    BY ProgressFacts
  <1>4. SUFFICES ASSUME TRUE
                 PROVE  saved' \in Continuations(signed) /\ reader' \in [Reader -> Progress]
    BY <1>2 DEF SavedInv, OneTrail, file, Progress
  <1>5. ASSUME NEW state \in Progress, Moves(r, state)
        PROVE  saved' \in Continuations(signed) /\ reader' \in [Reader -> Progress]
    BY <1>1, <1>5 DEF Moves
  <1>6. CASE ReadContinuation(r)
    <2>1. PICK resume \in {NoContinuation, saved} :
            Moves(r, [Waiting EXCEPT !.pc = "open", !.resume = resume])
      BY <1>6 DEF ReadContinuation
    <2>2. resume \in Continuations(signed)
      BY <1>1 DEF Continuations
    <2>3. [Waiting EXCEPT !.pc = "open", !.resume = resume] \in Progress
      BY ProgressFacts, <2>2
    <2> QED BY <1>5, <2>1, <2>3
  <1>7. CASE OpenAndVerify(r)
    <2>1. PICK in \in Inputs(reader[r].resume) :
            LET next == Continuation(trail, {}, in, 0, 0)
            IN  Moves(r, IF next = NoContinuation THEN Waiting
                         ELSE [Waiting EXCEPT !.pc = "save", !.next = next])
      BY <1>7 DEF OpenAndVerify
    <2>2. PICK next : next = Continuation(trail, {}, in, 0, 0)
      OBVIOUS
    <2>3. PICK resume : resume = reader[r].resume
      OBVIOUS
    <2>4. resume \in Continuations(signed) /\ in \in Inputs(resume)
      BY <1>1, <2>3 DEF Progress
    <2>5. next \in Continuations(signed)
      BY <1>1, <2>2, <2>4, VerifiedWhole
    <2>6. [Waiting EXCEPT !.pc = "save", !.next = next] \in Progress
      BY ProgressFacts, <2>5
    <2> QED BY <1>3, <1>5, <2>1, <2>2, <2>6
  <1>8. CASE StillAsChecked(r)
    <2>1. [reader[r] EXCEPT !.pc = "rename"] \in Progress
      BY <1>1, ProgressFacts
    <2> QED BY <1>3, <1>5, <1>8, <2>1 DEF StillAsChecked
  <1>9. CASE Rename(r)
    <2>1. saved' = reader[r].next /\ reader' =
            [q \in Reader |-> IF q = r THEN Waiting
                              ELSE IF reader[q].pc = "save" THEN [reader[q] EXCEPT !.same = FALSE]
                              ELSE reader[q]]
      BY <1>9 DEF Rename
    <2>2. saved' \in Continuations(signed)
      BY <1>1, <2>1 DEF Progress
    <2>3. \A q \in Reader : reader[q] \in Progress /\ [reader[q] EXCEPT !.same = FALSE] \in Progress
      BY <1>1, ProgressFacts
    <2> QED BY <1>3, <2>1, <2>2, <2>3
  <1> QED BY <1>6, <1>7, <1>8, <1>9

LEMMA FileSaves ==
    ASSUME WitnessingInv, DeliveredInv, SavedInv,
           AppendRecord \/ TearRecord \/ RepairTrail \/ AlterTrail \/ Deliver
    PROVE  SavedInv'
  <1>1. UNCHANGED <<signed, saved, reader>> /\ held \subseteq held'
    BY DEF AppendRecord, TearRecord, RepairTrail, AlterTrail, Unattested, Deliver
  <1>2. (changes = 0 => OneTrail(trail))'
    <2>1. CASE AppendRecord \/ TearRecord \/ RepairTrail
      <3>1. changes' = changes
        BY <2>1 DEF AppendRecord, TearRecord, RepairTrail, Grow, Tear, Mend
      <3>2. OneTrail(trail) => OneTrail(trail')
        BY <2>1, TrailOne
      <3> QED BY <3>1, <3>2 DEF SavedInv, OneTrail
    <2>2. CASE AlterTrail
      <3>1. changes \in Nat /\ changes' = changes + 1
        BY <2>2 DEF DeliveredInv, AlterTrail, Alter
      <3> QED BY <3>1
    <2>3. CASE Deliver
      BY <2>3 DEF Deliver, file, SavedInv, OneTrail
    <2> QED BY <2>1, <2>2, <2>3
  <1> QED BY <1>1, <1>2 DEF SavedInv, Progress

-----------------------------------------------------------------------------
(* The next statement can be read.                                         *)

(* The two a continuation holds belong together, and the statement after   *)
(* its last has a sequence its latest checkpoint allows.                   *)
LEMMA NextFits ==
    ASSUME NEW S, SignedStands(S), NEW c, Whole(S, c), NEW s \in S, s.prev = c.last,
           \A t \in S : t.checkpoint.seq \in Nat
    PROVE  /\ c.last \in S /\ c.latest \in S /\ s.prev # NoStatement
           /\ c.last.kind # "retirement" /\ ~ ContinuationBroken(c.last, c.latest)
           /\ c.latest.index <= c.last.index /\ (c.latest.index = c.last.index => c.latest = c.last)
           /\ s.index = c.last.index + 1 /\ s.index \in Nat /\ c.last.index \in Nat
           /\ c.latest.index \in Nat
           /\ s.kind = "checkpoint" => ~ (s.checkpoint.seq <= c.latest.checkpoint.seq)
           /\ s.kind = "conflict" => ~ (s.checkpoint.seq > c.latest.checkpoint.seq)
           /\ s.kind = "retirement" => s.checkpoint = c.latest.checkpoint
  <1>1. Stacked(S) /\ (\A t \in S : Placed(S, t)) /\ NoStatement \notin S /\ Garbled \notin S
    BY NotStatements DEF SignedStands, SignedWell
  <1>2. PICK last : last = c.last
    OBVIOUS
  <1>3. PICK latest : latest = c.latest
    OBVIOUS
  <1>4. last \in S /\ LatestIn(S, last, latest)
    BY <1>2, <1>3 DEF Whole
  <1>5. latest \in ChainIn(S, last) /\ latest.kind = "checkpoint"
        /\ \A u \in ChainIn(S, last) : u.kind = "checkpoint" => u.index <= latest.index
    BY <1>4 DEF LatestIn
  <1>6. latest \in S /\ latest.index \in Nat /\ (latest = last \/ latest.index < last.index)
    BY <1>1, <1>4, <1>5, ChainTop
  <1>7. last \in ChainIn(S, last) /\ last.index \in Nat
    BY <1>1, <1>4, ChainClosed DEF Stacked
  <1>8. s.prev = last /\ s.prev # NoStatement
    BY <1>1, <1>2, <1>4
  <1>9. /\ s.index = last.index + 1 /\ s.index \in Nat
        /\ last.kind # "retirement"
        /\ s.kind = "checkpoint" => s.checkpoint.seq > latest.checkpoint.seq
        /\ s.kind = "conflict" => s.checkpoint.seq <= latest.checkpoint.seq
        /\ s.kind = "retirement" => s.checkpoint = latest.checkpoint
    BY <1>1, <1>4, <1>8 DEF Placed, Stacked
  <1>10. last.kind = "checkpoint" => latest = last
    BY <1>5, <1>6, <1>7
  <1>11. last.kind = "conflict" => last.checkpoint.seq <= latest.checkpoint.seq
    <2> SUFFICES ASSUME last.kind = "conflict" PROVE last.checkpoint.seq <= latest.checkpoint.seq
      OBVIOUS
    <2>1. Placed(S, last) /\ last.prev # NoStatement /\ latest # last
      BY <1>1, <1>4, <1>5 DEF Placed
    <2>2. ChainIn(S, last) = {last} \cup ChainIn(S, last.prev)
      BY <1>1, <1>4, <2>1, ChainStep
    <2>3. LatestIn(S, last.prev, latest)
      BY <1>5, <2>1, <2>2 DEF LatestIn
    <2> QED BY <2>1, <2>3 DEF Placed
  <1>12. last.checkpoint.seq \in Nat /\ latest.checkpoint.seq \in Nat /\ s.checkpoint.seq \in Nat
    BY <1>4, <1>6
  <1>13. ~ ContinuationBroken(last, latest)
    <2>1. ~ (latest.index > last.index)
      BY <1>6, <1>7
    <2>2. last.kind = "conflict" => ~ (last.checkpoint.seq > latest.checkpoint.seq)
      BY <1>11, <1>12
    <2> QED BY <1>5, <1>9, <1>10, <2>1, <2>2 DEF ContinuationBroken
  <1>14. latest.index <= last.index /\ (latest.index = last.index => latest = last)
    BY <1>6, <1>7
  <1>15. /\ s.kind = "checkpoint" => ~ (s.checkpoint.seq <= latest.checkpoint.seq)
         /\ s.kind = "conflict" => ~ (s.checkpoint.seq > latest.checkpoint.seq)
    BY <1>9, <1>12
  <1> QED BY <1>2, <1>3, <1>4, <1>6, <1>7, <1>8, <1>9, <1>13, <1>14, <1>15

(* Read alone after a continuation, it has no finding.                     *)
LEMMA NextReads ==
    ASSUME NEW S, SignedStands(S), NEW c, Whole(S, c), c # NoContinuation,
           NEW s \in S, s.prev = c.last, s.key \in TrustedKeys,
           \A t \in S : t.checkpoint.seq \in Nat, NEW trail0,
           \A t \in S : t.checkpoint.trail = trail0,
           NEW in, in = [lines |-> {s}, head |-> NoStatement, resume |-> c]
    PROVE  /\ ~ PrepareRefuses(in) /\ ReadFindings(in, trail0) = {}
           /\ Passing(in, trail0) \subseteq S /\ Walked(in, trail0) = {s}
  <1> DEFINE last == c.last
             latest == c.latest
  <1>1. in.lines = {s} /\ in.head = NoStatement /\ in.resume = c
    OBVIOUS
  <1>2. /\ last \in S /\ latest \in S /\ s.prev # NoStatement
        /\ last.kind # "retirement" /\ ~ ContinuationBroken(last, latest)
        /\ latest.index <= last.index /\ (latest.index = last.index => latest = last)
        /\ s.index = last.index + 1 /\ s.index \in Nat /\ last.index \in Nat
        /\ latest.index \in Nat
        /\ s.kind = "checkpoint" => ~ (s.checkpoint.seq <= latest.checkpoint.seq)
        /\ s.kind = "conflict" => ~ (s.checkpoint.seq > latest.checkpoint.seq)
        /\ s.kind = "retirement" => s.checkpoint = latest.checkpoint
    BY NextFits
  <1>3. NoStatement \notin S /\ Garbled \notin S
    BY NotStatements DEF SignedStands
  <1>4. last.key \in TrustedKeys /\ latest.key \in TrustedKeys
    <2>1. last \in ChainIn(S, last) /\ latest \in ChainIn(S, last)
      BY <1>2, ChainClosed DEF SignedStands, SignedWell, Whole, LatestIn
    <2> QED BY <2>1 DEF Whole
  <1>5. PICK p \in S : p = last
    BY <1>2
  <1>6. PICK q \in S : q = latest
    BY <1>2
  <1> HIDE DEF last, latest
  <1>7. in.resume.last = p /\ in.resume.latest = q /\ in.resume # NoContinuation
    BY <1>1, <1>5, <1>6 DEF last, latest
  <1>8. /\ p.kind # "retirement" /\ ~ ContinuationBroken(p, q)
        /\ q.index <= p.index /\ (q.index = p.index => q = p)
        /\ s.index = p.index + 1 /\ s.index \in Nat /\ p.index \in Nat /\ q.index \in Nat
        /\ s.prev = p /\ p.key \in TrustedKeys /\ q.key \in TrustedKeys
    BY <1>2, <1>4, <1>5, <1>6 DEF last
  <1>9. ~ PrepareRefuses(in)
    <2>1. Cardinality({s}) = 1
      BY FS_Singleton
    <2>2. ~ (2 + 1 + 0 > StatementBound)
      BY BoundAssumption
    <2>3. \A t \in {s} : ~ (t.index <= p.index)
      BY <1>8
    <2> QED BY <1>1, <1>7, <2>1, <2>2, <2>3 DEF PrepareRefuses
  <1>10. Supplied(in) = {s, NoStatement, p, q} /\ StatementSet(in) = {s, p, q}
    <2>1. Supplied(in) = {s, NoStatement, p, q}
      BY <1>1, <1>7 DEF Supplied
    <2> QED BY <1>3, <2>1 DEF StatementSet
  <1>11. Passing(in, trail0) = {s, p, q}
    BY <1>8, <1>10 DEF Passing
  <1>12. StatementFindings(in, trail0) = {}
    <2>1. Garbled \notin Supplied(in)
      <3>1. Garbled.kind # NoStatement.kind
        BY DEF Garbled, NoStatement
      <3>2. Garbled # NoStatement
        BY <3>1
      <3> QED BY <1>3, <1>10, <3>2
    <2>2. ~ Equivocates(in, trail0)
      <3>1. s.index # p.index /\ s.index # q.index
        BY <1>8
      <3>2. \A t, u \in {s, p, q} : t.index = u.index => t = u
        BY <1>8, <3>1
      <3> QED BY <1>11, <3>2 DEF Equivocates
    <2>3. \A t \in StatementSet(in) : t.key \in TrustedKeys /\ t.checkpoint.trail = trail0
      BY <1>8, <1>10
    <2> QED BY <2>1, <2>2, <2>3 DEF StatementFindings
  <1>13. ~ HeadBehind(in) /\ ~ HeadUnreached(in, trail0)
    BY <1>1 DEF HeadBehind, HeadUnreached
  <1>14. StartIndex(in) = s.index /\ Before(in) = p
    BY <1>7, <1>8 DEF StartIndex, Before
  <1>15. Walked(in, trail0) = {s}
    <2>1. \A t \in {s, p, q} : t.index >= s.index <=> t = s
      BY <1>8
    <2> QED BY <1>3, <1>1, <1>11, <1>13, <1>14, <2>1 DEF Walked
  <1>16. ~ StatementBroken(in, {s}, s)
    <2>1. {t \in {s} : t.index < s.index} = {} /\ {t \in {s} : t.kind = "checkpoint" /\ t.index < s.index} = {}
          /\ ~ \E t \in {s} : t.index > s.index
      BY <1>8
    <2>2. LatestBefore(in, {s}, s.index) = q
      BY <1>7, <2>1 DEF LatestBefore
    <2>3. s.index = StartIndex(in) + Cardinality({})
      BY <1>8, <1>14, FS_EmptySet
    <2>4. q # NoStatement
      BY <1>3
    <2>5. /\ s.kind = "checkpoint" => ~ (s.checkpoint.seq <= q.checkpoint.seq)
          /\ s.kind = "conflict" => ~ (s.checkpoint.seq > q.checkpoint.seq)
          /\ s.kind = "retirement" => s.checkpoint = q.checkpoint
      BY <1>2, <1>6
    <2> QED BY <1>8, <1>14, <2>1, <2>2, <2>3, <2>4, <2>5 DEF StatementBroken
  <1>17. ~ ChainBroken(in, trail0)
    BY <1>7, <1>8, <1>15, <1>16 DEF ChainBroken
  <1>18. ReadFindings(in, trail0) = {}
    BY <1>12, <1>13, <1>17 DEF ReadFindings
  <1> QED BY <1>9, <1>11, <1>15, <1>18

LEMMA NextContinues ==
    ASSUME WitnessingInv, DeliveredInv, SavedInv, saved # NoContinuation,
           changes = 0, TrailFindings(trail) = {},
           NEW s \in signed, s.prev = saved.last, s.key \in TrustedKeys
    PROVE  Continues(saved, s)
  <1>1. PICK in : in = [lines |-> {s}, head |-> NoStatement, resume |-> saved]
    OBVIOUS
  <1>2. SignedStands(signed) /\ Whole(signed, saved) /\ OneTrail(trail)
        /\ \A t \in signed : t.checkpoint \in held
    BY DEF SavedInv, Continuations
  <1>3. LineCount(trail) \in Nat /\ trail \in Bytes
    BY SingleFacts DEF WitnessingInv, TrailStood, Single
  <1>4. \A c \in held : \E i \in ChainedRecords(trail) : c = CheckpointOf(trail, i)
    BY DEF DeliveredInv, EveryRecordDelivered
  <1>5. ASSUME NEW i \in ChainedRecords(trail)
        PROVE  /\ CheckpointOf(trail, i).seq = i /\ i \in Nat
               /\ CheckpointOf(trail, i).trail = Writing
               /\ HoldCheckpoint(trail, CheckpointOf(trail, i)) = "none"
    <2>1. i \in 1 .. LineCount(trail) /\ ChainedLine(trail[i])
      BY DEF ChainedRecords
    <2>2. i \in Nat /\ i \in DOMAIN trail /\ ~ (i > LineCount(trail))
      BY <1>3, <2>1 DEF Bytes, LineCount
    <2>3. trail[i][1].trail = Writing
      BY <1>2, <2>1, <2>2 DEF OneTrail
    <2>4. PICK c : c = CheckpointOf(trail, i)
      OBVIOUS
    <2>5. c.seq = i /\ c.trail = trail[i][1].trail /\ c.digest = LineDigest(trail[i])
      BY <2>4 DEF CheckpointOf
    <2>6. HoldCheckpoint(trail, c) = "none"
      BY <2>2, <2>5 DEF HoldCheckpoint
    <2> QED BY <2>2, <2>3, <2>4, <2>5, <2>6
  <1>6. \A c \in held : c.seq \in Nat /\ c.trail = Writing /\ HoldCheckpoint(trail, c) = "none"
    BY <1>4, <1>5
  <1>7. Trail(trail) = Writing
    <2>1. ChainedRecords(trail) # {} /\ ChainedRecords(trail) \subseteq 0 .. LineCount(trail)
      <3>1. s.checkpoint \in held
        BY <1>2
      <3> QED BY <1>3, <1>4, <3>1 DEF ChainedRecords
    <2>2. Max(ChainedRecords(trail)) \in ChainedRecords(trail)
      BY <1>3, <2>1, MaxOf
    <2> QED BY <1>5, <2>1, <2>2 DEF Trail, HeadOf
  <1>8. \A t \in signed : t.checkpoint.seq \in Nat /\ t.checkpoint.trail = Writing
    BY <1>2, <1>6
  <1>9. /\ ~ PrepareRefuses(in) /\ ReadFindings(in, Writing) = {}
        /\ Passing(in, Writing) \subseteq signed /\ Walked(in, Writing) = {s}
    BY <1>1, <1>2, <1>8, NextReads
  <1>10. Reads(trail, {in}) = {}
    BY <1>7, <1>9 DEF Reads
  <1>11. Found(trail, held, {in}) = {}
    <2>1. Stated(trail, {in}) \subseteq held
      BY <1>2, <1>7, <1>9 DEF Stated, Verified
    <2>2. HeldFindings(trail, held \cup Stated(trail, {in})) = {}
      BY <1>6, <2>1 DEF HeldFindings
    <2> QED BY <2>2 DEF Found
  <1>12. NoFinding(trail, held, {in}, 0, 0)
    BY <1>10, <1>11 DEF NoFinding
  <1>13. LastRead(in, Writing) = s
    <2>1. PICK walked : walked = Walked(in, Writing)
      OBVIOUS
    <2>2. PICK last : last = LastRead(in, Writing)
      OBVIOUS
    <2>3. last \in walked
      BY <1>2, <1>9, <2>1, <2>2, WalkEnds DEF SignedStands
    <2> QED BY <1>9, <2>1, <2>2, <2>3
  <1>14. Continuation(trail, held, in, 0, 0).last = s
    BY <1>7, <1>12, <1>13 DEF Continuation
  <1> QED BY <1>1, <1>9, <1>14 DEF Continues

(* What the continuation file holds, at any moment and whoever saved over  *)
(* whom, is what one whole reading of one chain of the witness's           *)
(* statements would have ended with; and each next statement of that chain *)
(* can be read on its own, and saved after.                                *)
THEOREM SavedStands == Spec => []SavedReadsWhole
  <1>1. Init => DeliveredInv /\ SavedInv
    BY InitDelivered, InitSaved
  <1>2. WitnessingInv /\ DeliveredInv /\ SavedInv /\ [Next]_vars => SavedInv'
    <2> SUFFICES ASSUME WitnessingInv, DeliveredInv, SavedInv, [Next]_vars PROVE SavedInv'
      OBVIOUS
    <2>1. CASE AppendRecord \/ TearRecord \/ RepairTrail \/ AlterTrail \/ Deliver
      BY <2>1, FileSaves
    <2>2. CASE Submit \/ Retire
      BY <2>2, StatementSaves
    <2>3. ASSUME NEW r \in Reader,
                 ReadContinuation(r) \/ OpenAndVerify(r) \/ StillAsChecked(r) \/ Rename(r)
          PROVE  SavedInv'
      BY <2>3, ReaderSaves
    <2>4. CASE UNCHANGED vars
      BY <2>4 DEF vars, file, SavedInv, Progress, OneTrail
    <2> QED BY <2>1, <2>2, <2>3, <2>4 DEF Next
  <1>3. WitnessingInv /\ DeliveredInv /\ SavedInv => SavedReadsWhole
    <2> SUFFICES ASSUME WitnessingInv, DeliveredInv, SavedInv, saved # NoContinuation
                 PROVE  /\ WholeChain(saved)
                        /\ changes = 0 /\ TrailFindings(trail) = {} =>
                             \A s \in signed : s.prev = saved.last /\ s.key \in TrustedKeys
                                 => Continues(saved, s)
      BY DEF SavedReadsWhole
    <2>1. Stacked(signed) /\ Whole(signed, saved) /\ saved.last \in signed
      BY DEF SavedInv, SignedStands, SignedWell, Continuations, Whole
    <2>2. Chain(saved.last) = ChainIn(signed, saved.last)
      BY DEF Chain, ChainIn
    <2>3. PICK last \in signed : last = saved.last
      BY <2>1
    <2>4. {s.index : s \in ChainIn(signed, last)} = 0 .. last.index
      <3>1. \A t \in ChainIn(signed, last) :
               t \in signed /\ t.index \in Nat /\ (t = last \/ t.index < last.index)
        BY <2>1, ChainTop
      <3>2. last.index \in Nat
        BY <2>1 DEF Stacked
      <3>3. \A i \in 0 .. last.index : \E t \in ChainIn(signed, last) : t.index = i
        BY <2>1, ChainWhole
      <3> QED BY <3>1, <3>2, <3>3
    <2>5. WholeChain(saved)
      BY <2>1, <2>2, <2>3, <2>4 DEF WholeChain, Whole, LatestIn
    <2> QED BY <2>5, NextContinues
  <1>4. WitnessingInv /\ DeliveredInv /\ [Next]_vars => DeliveredInv'
    BY DeliveredStep
  <1> QED BY <1>1, <1>2, <1>3, <1>4, WitnessingStands, PTL DEF Spec
=============================================================================
