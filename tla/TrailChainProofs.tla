-------------------------- MODULE TrailChainProofs --------------------------
(* Facts about the bytes of a trail and the operators of its chain, for    *)
(* every author set and every record length.                               *)
EXTENDS TrailChain, FiniteSetsExt, WellFoundedInduction, TLAPS

(* The least and the greatest of some numbers.                             *)

LEMMA MinOf ==
    ASSUME NEW S, S \subseteq Nat, S # {}
    PROVE  Min(S) \in S /\ \A y \in S : Min(S) <= y
  <1>1. \E x \in S : \A y \in S : ~ (<<y, x>> \in OpToRel(<, Nat))
    BY WFMin, NatLessThanWellFounded
  <1>2. \E x \in S : \A y \in S : ~ (y < x)
    BY <1>1 DEF OpToRel
  <1>3. \A x, y \in Nat : ~ (y < x) <=> x <= y
    OBVIOUS
  <1>4. \E x \in S : \A y \in S : x <= y
    BY <1>2, <1>3
  <1> QED BY <1>4 DEF Min

LEMMA MaxOf ==
    ASSUME NEW n \in Nat, NEW S, S \subseteq 0 .. n, S # {}
    PROVE  Max(S) \in S /\ \A y \in S : y <= Max(S)
  <1> DEFINE bounds == {u \in Nat : \A y \in S : y <= u}
  <1>1. bounds # {}
    <2>1. n \in bounds
      OBVIOUS
    <2> QED BY <2>1
  <1>2. Min(bounds) \in bounds /\ \A u \in bounds : Min(bounds) <= u
    BY <1>1, MinOf
  <1> DEFINE u == Min(bounds)
  <1>3. u \in Nat /\ \A y \in S : y <= u
    BY <1>2
  <1>4. u \in S
    <2> SUFFICES ASSUME u \notin S PROVE FALSE
      OBVIOUS
    <2>1. u # 0
      <3>1. PICK y \in S : TRUE
        OBVIOUS
      <3>2. y \in 0 .. n /\ y <= u
        BY <1>3
      <3> QED BY <1>3, <3>2
    <2>2. u - 1 \in Nat /\ \A y \in S : y <= u - 1
      BY <1>3, <2>1
    <2>3. u <= u - 1
      BY <1>2, <2>2
    <2> QED BY <1>3, <2>3
  <1> HIDE DEF u
  <1> QED BY <1>3, <1>4 DEF Max

LEMMA MaxIs ==
    ASSUME NEW n \in Nat, NEW S, S \subseteq 0 .. n, NEW x \in S, \A y \in S : y <= x
    PROVE  Max(S) = x
  <1>1. Max(S) \in S /\ \A y \in S : y <= Max(S)
    BY MaxOf
  <1>2. \A y, z \in Int : y <= z /\ z <= y => y = z
    OBVIOUS
  <1>3. \A y \in S : y \in Int
    OBVIOUS
  <1>4. x \in Int /\ Max(S) \in Int
    BY <1>1, <1>3
  <1>5. x <= Max(S) /\ Max(S) <= x
    BY <1>1
  <1> QED BY <1>2, <1>4, <1>5

LEMMA MinIs ==
    ASSUME NEW S, S \subseteq Nat, NEW x \in S, \A y \in S : x <= y
    PROVE  Min(S) = x
  <1>1. Min(S) \in S /\ \A y \in S : Min(S) <= y
    BY MinOf
  <1>2. \A y, z \in Int : y <= z /\ z <= y => y = z
    OBVIOUS
  <1>3. \A y \in S : y \in Int
    OBVIOUS
  <1>4. x \in Int /\ Min(S) \in Int
    BY <1>1, <1>3
  <1>5. x <= Min(S) /\ Min(S) <= x
    BY <1>1
  <1> QED BY <1>2, <1>4, <1>5

(* A function on 1 .. n is a sequence of length n.                         *)
LEMMA SeqOfFun ==
    ASSUME NEW S, NEW n \in Nat, NEW f \in [1 .. n -> S]
    PROVE  f \in Seq(S) /\ Len(f) = n /\ DOMAIN f = 1 .. n
OBVIOUS

(* Names of pieces, and the digests made of them, are digests.             *)
LEMMA IdentType ==
    ASSUME NEW line \in Line
    PROVE  Ident(line) \in Seq(Atom)
  <1>1. \A k \in 1 .. Len(line) : Name(line[k]) \in Atom
    <2> SUFFICES ASSUME NEW k \in 1 .. Len(line) PROVE Name(line[k]) \in Atom
      OBVIOUS
    <2>1. line[k] \in Piece
      BY DEF Line
    <2>2. line[k].w \in Author /\ line[k].i \in Nat /\ line[k].len \in 1 .. Body
      BY <2>1 DEF Piece
    <2> QED BY <2>2 DEF Name, Atom
  <1>2. Ident(line) \in [1 .. Len(line) -> Atom]
    BY <1>1 DEF Ident, Line
  <1> QED BY <1>2, SeqOfFun DEF Line

LEMMA LineDigestType ==
    ASSUME NEW line \in Line
    PROVE  LineDigest(line) \in Digests
  BY IdentType DEF LineDigest, Digests

LEMMA DigestType ==
    ASSUME NEW b \in Bytes
    PROVE  Digest(b) \in Digests
  <1>1. b \in Seq(Line)
    BY DEF Bytes
  <1>2. \A n \in 1 .. Len(b) : Ident(b[n]) \in Seq(Atom)
    BY <1>1, IdentType
  <1>3. Digest(b) \in [1 .. Len(b) -> Seq(Atom)]
    BY <1>1, <1>2 DEF Digest
  <1> QED BY <1>1, <1>3, SeqOfFun DEF Digests

(* The empty file, and a file's complete lines.                            *)
LEMMA EmptyType == Empty \in Bytes /\ Empty \in Digests
  BY DEF Empty, Bytes, Line, Digests

LEMMA UpToType ==
    ASSUME NEW b \in Bytes, NEW n \in 0 .. LineCount(b)
    PROVE  /\ UpTo(b, n) \in Bytes
           /\ LineCount(UpTo(b, n)) = n
           /\ TailOf(UpTo(b, n)) = << >>
           /\ \A k \in 1 .. n : UpTo(b, n)[k] = b[k]
  <1>1. b \in Seq(Line) /\ n \in Nat /\ n + 1 <= Len(b)
    BY DEF Bytes, LineCount
  <1>2. << >> \in Line
    BY DEF Line
  <1>3. UpTo(b, n) \in [1 .. n + 1 -> Line]
    BY <1>1, <1>2 DEF UpTo
  <1>4. UpTo(b, n) \in Seq(Line) /\ Len(UpTo(b, n)) = n + 1
    BY <1>1, <1>3, SeqOfFun
  <1> QED BY <1>1, <1>4 DEF Bytes, LineCount, TailOf, UpTo

(* An append leaves the complete lines as they were, whatever they are of. *)
LEMMA ConcatAny ==
    ASSUME NEW P, NEW b \in Seq(Seq(P)), NEW d \in Seq(Seq(P)), b # << >>, d # << >>
    PROVE  /\ Concat(b, d) \in Seq(Seq(P)) /\ Concat(b, d) # << >>
           /\ Len(Concat(b, d)) = Len(b) + Len(d) - 1
           /\ \A n \in 1 .. Len(b) - 1 : Concat(b, d)[n] = b[n]
           /\ Concat(b, d)[Len(b)] = b[Len(b)] \o d[1]
           /\ \A n \in 2 .. Len(d) : Concat(b, d)[Len(b) + n - 1] = d[n]
  <1>1. Len(b) \in Nat \ {0} /\ Len(d) \in Nat \ {0}
    OBVIOUS
  <1>2. b[Len(b)] \o d[1] \in Seq(P)
    BY <1>1
  <1>3. Concat(b, d) \in [1 .. Len(b) + Len(d) - 1 -> Seq(P)]
    BY <1>1, <1>2 DEF Concat
  <1>4. Concat(b, d) \in Seq(Seq(P)) /\ Len(Concat(b, d)) = Len(b) + Len(d) - 1
    <2>1. Len(b) + Len(d) - 1 \in Nat
      BY <1>1
    <2> QED BY <1>3, <2>1, SeqOfFun, Zenon
  <1>5. Concat(b, d) # << >>
    BY <1>1, <1>4
  <1>6. \A n \in 1 .. Len(b) - 1 : Concat(b, d)[n] = b[n]
    BY <1>1 DEF Concat
  <1>7. Concat(b, d)[Len(b)] = b[Len(b)] \o d[1]
    <2>1. Len(b) \in 1 .. Len(b) + Len(d) - 1 /\ ~ (Len(b) < Len(b))
      BY <1>1
    <2>2. ASSUME NEW n, n = Len(b)
          PROVE  Concat(b, d)[n] = b[n] \o d[1]
      BY <2>1, <2>2, Zenon DEF Concat
    <2> QED BY <2>2
  <1>8. \A n \in 2 .. Len(d) : Concat(b, d)[Len(b) + n - 1] = d[n]
    BY <1>1 DEF Concat
  <1> QED BY <1>4, <1>5, <1>6, <1>7, <1>8

LEMMA ConcatType ==
    ASSUME NEW b \in Bytes, NEW d \in Bytes
    PROVE  /\ Concat(b, d) \in Bytes
           /\ Len(Concat(b, d)) = Len(b) + Len(d) - 1
           /\ \A n \in 1 .. Len(b) - 1 : Concat(b, d)[n] = b[n]
           /\ Concat(b, d)[Len(b)] = b[Len(b)] \o d[1]
           /\ \A n \in 2 .. Len(d) : Concat(b, d)[Len(b) + n - 1] = d[n]
  <1>1. /\ b \in Seq(Seq(Piece)) /\ b # << >>
        /\ d \in Seq(Seq(Piece)) /\ d # << >>
    BY DEF Bytes, Line
  <1> QED BY <1>1, ConcatAny DEF Bytes, Line

(* A beginning of a line is a line, of any pieces that can be cut.         *)
Cuttable(P) == \A p \in P : \A j \in 1 .. p.len : [p EXCEPT !.len = j] \in P

LEMMA CutsAny ==
    ASSUME NEW P, Cuttable(P), NEW line \in Seq(P), NEW t \in Cuts(line)
    PROVE  /\ t \in Seq(P)
           /\ \/ t = << >>
              \/ \E k \in DOMAIN line : \E j \in 1 .. line[k].len :
                    t = CutLine(line, k, j) /\ Len(t) = k
  <1>1. CASE t = << >>
    BY <1>1
  <1>2. CASE t # << >>
    <2>1. PICK k \in DOMAIN line : \E j \in 1 .. line[k].len : t = CutLine(line, k, j)
      BY <1>2, Zenon DEF Cuts
    <2>2. PICK j \in 1 .. line[k].len : t = CutLine(line, k, j)
      BY <2>1
    <2>3. k \in Nat /\ k \in 1 .. Len(line) /\ \A m \in 1 .. k : line[m] \in P
      OBVIOUS
    <2>4. [line[k] EXCEPT !.len = j] \in P
      BY <2>3 DEF Cuttable
    <2>5. t \in [1 .. k -> P]
      BY <2>2, <2>3, <2>4 DEF CutLine
    <2> QED BY <2>2, <2>3, <2>5, SeqOfFun
  <1> QED BY <1>1, <1>2

LEMMA PieceCuttable == Cuttable(Piece)
  <1> SUFFICES ASSUME NEW p \in Piece, NEW j \in 1 .. p.len
               PROVE  [p EXCEPT !.len = j] \in Piece
    BY DEF Cuttable
  <1>1. p.len \in 1 .. Body /\ j \in 1 .. Body
    BY BodyAssumption DEF Piece
  <1> QED BY <1>1 DEF Piece

LEMMA CutsType ==
    ASSUME NEW line \in Line, NEW t \in Cuts(line)
    PROVE  /\ t \in Line
           /\ \/ t = << >>
              \/ \E k \in DOMAIN line : \E j \in 1 .. line[k].len :
                    t = CutLine(line, k, j) /\ Len(t) = k
  BY PieceCuttable, CutsAny DEF Line

LEMMA BeginningsAny ==
    ASSUME NEW P, Cuttable(P), NEW b \in Seq(Seq(P)), b # << >>, NEW c \in Beginnings(b)
    PROVE  /\ c \in Seq(Seq(P)) /\ c # << >>
           /\ Len(c) \in 1 .. Len(b)
           /\ \A m \in 1 .. Len(c) - 1 : c[m] = b[m]
           /\ c[Len(c)] \in Cuts(b[Len(c)])
  <1>1. Len(b) \in Nat \ {0}
    OBVIOUS
  <1>2. PICK n \in DOMAIN b : \E t \in Cuts(b[n]) :
            c = [m \in 1 .. n |-> IF m < n THEN b[m] ELSE t]
    BY Zenon DEF Beginnings
  <1>3. PICK t \in Cuts(b[n]) : c = [m \in 1 .. n |-> IF m < n THEN b[m] ELSE t]
    BY <1>2
  <1>4. n \in 1 .. Len(b) /\ n \in Nat /\ b[n] \in Seq(P)
    BY <1>1
  <1>5. t \in Seq(P)
    BY <1>4, CutsAny
  <1>6. c \in [1 .. n -> Seq(P)]
    BY <1>1, <1>3, <1>4, <1>5
  <1>7. c \in Seq(Seq(P)) /\ Len(c) = n
    BY <1>4, <1>6, SeqOfFun
  <1>8. c # << >>
    BY <1>4, <1>7
  <1>9. c[n] = t
    BY <1>3, <1>4
  <1>10. \A m \in 1 .. n - 1 : c[m] = b[m]
    BY <1>3, <1>4
  <1> QED BY <1>4, <1>7, <1>8, <1>9, <1>10, <1>3

(* A beginning of a file has the file's lines but for its last, which is a *)
(* beginning of the file's line there.                                     *)
LEMMA BeginningsType ==
    ASSUME NEW b \in Bytes, NEW c \in Beginnings(b)
    PROVE  /\ c \in Bytes
           /\ Len(c) \in 1 .. Len(b)
           /\ \A m \in 1 .. Len(c) - 1 : c[m] = b[m]
           /\ c[Len(c)] \in Cuts(b[Len(c)])
  <1>1. b \in Seq(Seq(Piece)) /\ b # << >>
    BY DEF Bytes, Line
  <1> QED BY <1>1, PieceCuttable, BeginningsAny DEF Bytes, Line

(* A beginning of a line of one piece that is a whole record is that line. *)
LEMMA CutWhole ==
    ASSUME NEW line \in Line, Len(line) <= 1, NEW t \in Cuts(line)
    PROVE  /\ Len(t) <= 1
           /\ WholeRecord(t) => t = line
           /\ Oversized(t) => Oversized(line)
  <1>0. \A k \in DOMAIN line : k = 1 /\ Len(line) = 1 /\ line[1] \in Piece
    <2>1. Len(line) \in Nat /\ DOMAIN line = 1 .. Len(line)
      BY DEF Line
    <2>2. \A k \in 1 .. Len(line) : line[k] \in Piece
      BY DEF Line
    <2> QED BY <2>1, <2>2
  <1>1. CASE t = << >>
    BY <1>1 DEF WholeRecord, Oversized
  <1>2. CASE t # << >>
    <2>1. PICK k \in DOMAIN line : \E j \in 1 .. line[k].len :
              t = CutLine(line, k, j) /\ Len(t) = k
      BY <1>2, CutsType
    <2>2. PICK j \in 1 .. line[k].len : t = CutLine(line, k, j)
      BY <2>1
    <2>3. k = 1 /\ Len(line) = 1 /\ line[1] \in Piece /\ t \in Line
      <3>1. k = 1 /\ Len(line) = 1 /\ line[1] \in Piece
        BY <1>0, Zenon
      <3>2. t \in Line
        BY CutsType
      <3> QED BY <3>1, <3>2
    <2>4. line[1].len \in 1 .. Body
      BY <2>3 DEF Piece
    <2>5. Len(t) = 1 /\ t[1] = [line[1] EXCEPT !.len = j]
      BY <2>1, <2>2, <2>3 DEF CutLine
    <2>6. t[1].len = j /\ t[1].over = line[1].over
      BY <2>3, <2>5 DEF Piece
    <2>7. t[1].len = Body => line[1].len = Body /\ t[1] = line[1]
      BY <2>2, <2>3, <2>4, <2>5, <2>6, BodyAssumption DEF Piece
    <2>8. t[1] = line[1] => t = line
      BY <2>3, <2>5 DEF Line
    <2>9. WholeRecord(t) => t = line
      BY <2>7, <2>8 DEF WholeRecord
    <2>10. DOMAIN t = {1} /\ DOMAIN line = {1}
      BY <2>3, <2>5 DEF Line
    <2>11. Oversized(t) => Oversized(line)
      BY <2>6, <2>7, <2>10 DEF Oversized
    <2> QED BY <2>5, <2>9, <2>11
  <1> QED BY <1>1, <1>2

-----------------------------------------------------------------------------
(* Types of what the writer composes.                                      *)

LEMMA LastTrailType ==
    ASSUME NEW b \in Bytes
    PROVE  LastTrail(b) \in Trails
  <1> DEFINE last == {k \in 1 .. LineCount(b) :
                    /\ ChainedLine(b[k])
                    /\ \A m \in k + 1 .. LineCount(b) : ~ ChainedLine(b[m])}
  <1>1. CASE last = {}
    BY <1>1 DEF LastTrail, Trails
  <1>2. CASE last # {}
    <2>1. PICK k \in last : k = CHOOSE i \in last : TRUE
      BY <1>2
    <2>2. k \in 1 .. LineCount(b) /\ ChainedLine(b[k])
      BY <2>1
    <2>3. b[k] \in Line /\ Len(b[k]) = 1
      BY <2>2 DEF Bytes, LineCount, ChainedLine, WholeRecord
    <2>4. b[k][1] \in Piece
      BY <2>3 DEF Line
    <2>5. b[k][1].trail \in Trails
      BY <2>4 DEF Piece
    <2>6. LastTrail(b) = b[k][1].trail
      BY <1>2, <2>1 DEF LastTrail
    <2> QED BY <2>5, <2>6
  <1> QED BY <1>1, <1>2

(* The head a writer reads is a trail of its own, a number and a digest.   *)
LEMMA ReadHeadType ==
    ASSUME NEW b \in Bytes, NEW fresh \in Author
    PROVE  /\ ReadHead(b, fresh).trail \in Author
           /\ ReadHead(b, fresh).seq \in Nat
           /\ ReadHead(b, fresh).prev \in Digests
  <1> DEFINE n == LineCount(b)
  <1>1. n \in Nat /\ b \in Seq(Line)
    BY DEF Bytes, LineCount
  <1>2. CASE n > 0 /\ ChainedLine(b[n])
    <2>1. b[n] \in Line /\ Len(b[n]) = 1 /\ b[n][1].trail # NoTrail
      BY <1>1, <1>2 DEF LineCount, ChainedLine, WholeRecord
    <2>2. b[n][1] \in Piece
      BY <2>1 DEF Line
    <2>3. b[n][1].trail \in Author /\ b[n][1].seq \in Nat
      BY <2>1, <2>2 DEF Piece, Trails
    <2>4. LineDigest(b[n]) \in Digests
      BY <2>1, LineDigestType
    <2> QED BY <1>2, <2>3, <2>4 DEF ReadHead
  <1>3. CASE ~ (n > 0 /\ ChainedLine(b[n]))
    <2>1. Digest(b) \in Digests /\ LastTrail(b) \in Trails
      BY DigestType, LastTrailType
    <2> QED BY <1>1, <1>3, <2>1 DEF ReadHead, Trails
  <1> QED BY <1>2, <1>3

(* One line per record, all of them ended.                                 *)
LEMMA EncodeLinesType ==
    ASSUME NEW recs \in Seq(Piece)
    PROVE  /\ EncodeLines(recs) \in Bytes
           /\ Len(EncodeLines(recs)) = Len(recs) + 1
           /\ \A n \in 1 .. Len(recs) : EncodeLines(recs)[n] = << recs[n] >>
           /\ EncodeLines(recs)[Len(recs) + 1] = << >>
  <1>1. Len(recs) \in Nat /\ \A n \in 1 .. Len(recs) : << recs[n] >> \in Line
    BY DEF Line
  <1>2. << >> \in Line
    BY DEF Line
  <1>3. EncodeLines(recs) \in [1 .. Len(recs) + 1 -> Line]
    BY <1>1, <1>2 DEF EncodeLines
  <1>4. EncodeLines(recs) \in Seq(Line) /\ Len(EncodeLines(recs)) = Len(recs) + 1
    BY <1>1, <1>3, SeqOfFun
  <1>5. EncodeLines(recs) \in Bytes
    BY <1>1, <1>4 DEF Bytes
  <1>6. \A n \in 1 .. Len(recs) : EncodeLines(recs)[n] = << recs[n] >>
    BY <1>1 DEF EncodeLines
  <1>7. EncodeLines(recs)[Len(recs) + 1] = << >>
    BY <1>1 DEF EncodeLines
  <1> QED BY <1>4, <1>5, <1>6, <1>7

LEMMA BatchType ==
    ASSUME NEW w \in Author, NEW size \in Nat, NEW big \in BOOLEAN
    PROVE  /\ Batch(w, size, big) \in Seq(Piece)
           /\ Len(Batch(w, size, big)) = size
           /\ \A i \in 1 .. size : Batch(w, size, big)[i] = Unchained(w, i, size, big)
  <1>1. \A i \in 1 .. size : Unchained(w, i, size, big) \in Piece
    BY EmptyType, BodyAssumption DEF Unchained, Piece, Kinds, Trails
  <1>2. Batch(w, size, big) \in [1 .. size -> Piece]
    BY <1>1 DEF Batch
  <1>3. Batch(w, size, big) \in Seq(Piece) /\ Len(Batch(w, size, big)) = size
    BY <1>2, SeqOfFun
  <1> QED BY <1>3 DEF Batch

-----------------------------------------------------------------------------
(* WellLinked.                                                             *)

LEMMA UpToAgree ==
    ASSUME NEW b, NEW c, NEW n \in Nat, \A m \in 1 .. n : b[m] = c[m]
    PROVE  UpTo(b, n) = UpTo(c, n)
  BY DEF UpTo

(* A link is a matter of the lines up to it.                               *)
LEMMA LinkedAgree ==
    ASSUME NEW b, NEW c, NEW n \in Nat \ {0},
           \A m \in 1 .. n : b[m] = c[m],
           Linked(b, n)
    PROVE  Linked(c, n)
  <1> SUFFICES ASSUME ChainedLine(c[n]) PROVE Linked(c, n)
    BY DEF Linked
  <1>1. b[n] = c[n] /\ ChainedLine(b[n])
    OBVIOUS
  <1>2. CASE c[n][1].kind = "discontinuity"
    <2>1. n > 1 /\ n - 2 \in Nat
      BY <1>1, <1>2 DEF Linked
    <2>2. UpTo(b, n - 2) = UpTo(c, n - 2) /\ b[n - 1] = c[n - 1]
      BY <2>1, UpToAgree
    <2> QED BY <1>1, <1>2, <2>1, <2>2 DEF Linked
  <1>3. CASE c[n][1].kind # "discontinuity"
    <2>1. UpTo(b, n - 1) = UpTo(c, n - 1)
      BY UpToAgree
    <2> QED BY <1>1, <1>3, <2>1 DEF Linked
  <1> QED BY <1>2, <1>3

(* Every beginning of a well linked file is well linked: a cut of a line   *)
(* is a whole record only when nothing was cut.                            *)
LEMMA BeginningLinked ==
    ASSUME NEW b \in Bytes, WellLinked(b), NEW c \in Beginnings(b)
    PROVE  WellLinked(c)
  <1>1. /\ c \in Bytes /\ Len(c) \in 1 .. Len(b)
        /\ \A m \in 1 .. Len(c) - 1 : c[m] = b[m]
        /\ c[Len(c)] \in Cuts(b[Len(c)])
    BY BeginningsType
  <1>2. DOMAIN c = 1 .. Len(c) /\ DOMAIN b = 1 .. Len(b) /\ Len(b) \in Nat
    BY <1>1 DEF Bytes
  <1>3. ASSUME NEW n \in 1 .. Len(c) - 1
        PROVE  /\ Len(c[n]) <= 1 /\ ~ Oversized(c[n])
               /\ DiscontinuityKind(c[n]) => ChainedLine(c[n])
               /\ Linked(c, n)
    <2>1. n \in DOMAIN b /\ n \in Nat \ {0} /\ c[n] = b[n]
      BY <1>1, <1>2
    <2>2. \A m \in 1 .. n : b[m] = c[m]
      BY <1>1
    <2>3. Linked(b, n)
      BY <2>1 DEF WellLinked
    <2>4. Linked(c, n)
      BY <2>1, <2>2, <2>3, LinkedAgree
    <2> QED BY <2>1, <2>4 DEF WellLinked
  <1>4. /\ Len(c[Len(c)]) <= 1 /\ ~ Oversized(c[Len(c)])
        /\ DiscontinuityKind(c[Len(c)]) => ChainedLine(c[Len(c)])
        /\ Linked(c, Len(c))
    <2> DEFINE n == Len(c)
    <2>1. n \in DOMAIN b /\ n \in Nat \ {0} /\ b[n] \in Line
      BY <1>1, <1>2 DEF Bytes
    <2>2. Len(b[n]) <= 1 /\ ~ Oversized(b[n]) /\ Linked(b, n)
      BY <2>1 DEF WellLinked
    <2>3. /\ Len(c[n]) <= 1 /\ ~ Oversized(c[n])
          /\ WholeRecord(c[n]) => c[n] = b[n]
      BY <1>1, <2>1, <2>2, CutWhole
    <2>4. CASE WholeRecord(c[n])
      <3>1. \A m \in 1 .. n : b[m] = c[m]
        BY <1>1, <2>3, <2>4
      <3>2. Linked(c, n)
        BY <2>1, <2>2, <3>1, LinkedAgree
      <3> QED BY <2>1, <2>3, <2>4, <3>2 DEF WellLinked
    <2>5. CASE ~ WholeRecord(c[n])
      BY <2>3, <2>5 DEF DiscontinuityKind, ChainedLine, Linked
    <2> QED BY <2>4, <2>5
  <1> QED BY <1>1, <1>2, <1>3, <1>4 DEF WellLinked

(* The verifier finds nothing in a well linked file.                       *)
LEMMA LinkedVerifies ==
    ASSUME NEW b \in Bytes, WellLinked(b)
    PROVE  Verifies(b)
  <1> SUFFICES ASSUME NEW i \in 1 .. LineCount(b) PROVE LineFindings(b, i) = {}
    BY DEF Verifies, Findings
  <1>1. i \in DOMAIN b /\ (i > 1 => i - 1 \in DOMAIN b)
    BY DEF LineCount, Bytes
  <1>2. ~ Oversized(b[i]) /\ Linked(b, i)
    BY <1>1 DEF WellLinked
  <1>3. CASE ~ ChainedLine(b[i])
    BY <1>2, <1>3 DEF LineFindings, IsDiscontinuity, Excuses
  <1>4. CASE ChainedLine(b[i]) /\ b[i][1].kind # "discontinuity"
    <2>1. ~ IsDiscontinuity(b, i) /\ ~ Excuses(b, i)
      BY <1>4 DEF IsDiscontinuity, Excuses, DiscontinuityKind
    <2>2. Expected(b, i) = HeadAfter(UpTo(b, i - 1))
      BY <2>1 DEF Expected, HeadBefore
    <2> QED BY <1>2, <1>4, <2>1, <2>2 DEF LineFindings, Linked
  <1>5. CASE ChainedLine(b[i]) /\ b[i][1].kind = "discontinuity"
    <2>1. /\ i > 1 /\ b[i][1].dline = i - 1
          /\ b[i][1].ddig = LineDigest(b[i - 1])
          /\ ~ DiscontinuityKind(b[i - 1])
      BY <1>2, <1>5 DEF Linked
    <2>2. ~ Oversized(b[i - 1])
      BY <1>1, <2>1 DEF WellLinked
    <2>3. IsDiscontinuity(b, i) /\ Excuses(b, i)
      BY <1>2, <1>5, <2>1, <2>2
      DEF IsDiscontinuity, Excuses, DiscontinuityKind, ChainedLine
    <2>4. Expected(b, i) = HeadAfter(UpTo(b, i - 2))
      <3>1. (i - 1) - 1 = i - 2
        OBVIOUS
      <3> QED BY <2>3, <3>1 DEF Expected, HeadBefore
    <2> QED BY <1>2, <1>5, <2>1, <2>3, <2>4 DEF LineFindings, Linked
  <1> QED BY <1>3, <1>4, <1>5

-----------------------------------------------------------------------------
(* The writer's reading of a file's end agrees with the verifier's reading *)
(* of all of it.                                                           *)

LEMMA UpToWhole ==
    ASSUME NEW b \in Bytes, TailOf(b) = << >>
    PROVE  UpTo(b, LineCount(b)) = b
  <1>1. b \in Seq(Line) /\ Len(b) \in Nat \ {0} /\ DOMAIN b = 1 .. Len(b)
    BY DEF Bytes
  <1>2. (Len(b) - 1) + 1 = Len(b)
    BY <1>1
  <1>3. UpTo(b, LineCount(b)) = [k \in 1 .. Len(b) |-> b[k]]
    BY <1>1, <1>2 DEF UpTo, LineCount, TailOf
  <1> QED BY <1>1, <1>3

LEMMA HeadAgrees ==
    ASSUME NEW b \in Bytes, WellLinked(b), NEW fresh \in Author
    PROVE  /\ ReadHead(b, fresh).seq = LineCount(b)
           /\ ReadHead(b, fresh).prev = HeadAfter(b).prev
           /\ HeadAfter(b).trail # NoTrail =>
                  ReadHead(b, fresh).trail = HeadAfter(b).trail
  <1> DEFINE n == LineCount(b)
  <1>1. n \in Nat /\ (n > 0 => n \in DOMAIN b)
    BY DEF LineCount, Bytes
  <1>2. n > 0 => ~ Oversized(b[n]) /\ Linked(b, n)
    BY <1>1 DEF WellLinked
  <1>3. CASE n > 0 /\ ChainedLine(b[n])
    <2>1. b[n][1].seq = n
      BY <1>2, <1>3 DEF Linked
    <2> QED BY <1>2, <1>3, <2>1 DEF ReadHead, HeadAfter
  <1>4. CASE ~ (n > 0 /\ ChainedLine(b[n]))
    BY <1>2, <1>4 DEF ReadHead, HeadAfter
  <1> QED BY <1>3, <1>4

(* A chained record is a record of the batch but for its chain members.    *)
LEMMA ChainAfterType ==
    ASSUME NEW recs \in Seq(Piece), NEW head,
           head.trail \in Author, head.seq \in Nat, head.prev \in Digests
    PROVE  /\ ChainAfter(recs, head) \in Seq(Piece)
           /\ Len(ChainAfter(recs, head)) = Len(recs)
           /\ \A i \in 1 .. Len(recs) :
                LET p == ChainAfter(recs, head)[i] IN
                /\ p.trail = head.trail /\ p.seq = head.seq + i
                /\ p.prev = IF i = 1 THEN head.prev
                                     ELSE LineDigest(<< recs[i - 1] >>)
                /\ p.w = recs[i].w /\ p.i = recs[i].i /\ p.len = recs[i].len
                /\ p.kind = recs[i].kind /\ p.over = recs[i].over
  <1> DEFINE Prev(i) == IF i = 1 THEN head.prev ELSE LineDigest(<< recs[i - 1] >>)
             P(i) == [recs[i] EXCEPT !.trail = head.trail, !.seq = head.seq + i,
                                     !.prev = Prev(i)]
  <1>1. ASSUME NEW i \in 1 .. Len(recs)
        PROVE  Prev(i) \in Digests
    <2>1. i # 1 => << recs[i - 1] >> \in Line
      BY DEF Line
    <2> QED BY <2>1, LineDigestType
  <1>2. ASSUME NEW i \in 1 .. Len(recs)
        PROVE  /\ P(i) \in Piece
               /\ P(i).trail = head.trail /\ P(i).seq = head.seq + i
               /\ P(i).prev = Prev(i)
               /\ P(i).w = recs[i].w /\ P(i).i = recs[i].i
               /\ P(i).len = recs[i].len
               /\ P(i).kind = recs[i].kind /\ P(i).over = recs[i].over
    <2>1. Prev(i) \in Digests /\ recs[i] \in Piece
      BY <1>1
    <2>2. head.seq + i \in Nat
      OBVIOUS
    <2> HIDE DEF Prev
    <2> QED BY <2>1, <2>2 DEF Piece, Trails
  <1>3. ChainAfter(recs, head) = [i \in 1 .. Len(recs) |-> P(i)]
    BY DEF ChainAfter
  <1>n. Len(recs) \in Nat
    OBVIOUS
  <1>p. \A i \in 1 .. Len(recs) : P(i) \in Piece
    BY <1>2
  <1> HIDE DEF P, Prev
  <1>4. ChainAfter(recs, head) \in [1 .. Len(recs) -> Piece]
    BY <1>3, <1>p
  <1>5. /\ ChainAfter(recs, head) \in Seq(Piece)
        /\ Len(ChainAfter(recs, head)) = Len(recs)
    BY <1>n, <1>4, SeqOfFun
  <1>6. \A i \in 1 .. Len(recs) : ChainAfter(recs, head)[i] = P(i)
    BY <1>3
  <1> QED BY <1>2, <1>5, <1>6 DEF Prev

(* The lines of a file that is appended to at the end of a complete line.  *)
LEMMA ConcatLines ==
    ASSUME NEW b \in Bytes, NEW d \in Bytes, TailOf(b) = << >>
    PROVE  \A i \in 1 .. Len(d) : Concat(b, d)[LineCount(b) + i] = d[i]
  <1>1. b \in Seq(Line) /\ d \in Seq(Line) /\ Len(b) \in Nat \ {0} /\ Len(d) \in Nat \ {0}
    BY DEF Bytes
  <1> SUFFICES ASSUME NEW i \in 1 .. Len(d) PROVE Concat(b, d)[LineCount(b) + i] = d[i]
    OBVIOUS
  <1>2. CASE i = 1
    <2>1. LineCount(b) + i = Len(b)
      BY <1>1, <1>2 DEF LineCount
    <2>2. Concat(b, d)[Len(b)] = b[Len(b)] \o d[1]
      BY ConcatType
    <2>3. d[1] \in Line /\ b[Len(b)] = << >>
      BY <1>1 DEF TailOf
    <2>4. b[Len(b)] \o d[1] = d[1]
      BY <2>3 DEF Line
    <2> QED BY <1>2, <2>1, <2>2, <2>4
  <1>3. CASE i # 1
    <2>1. i \in 2 .. Len(d) /\ LineCount(b) + i = Len(b) + i - 1
      BY <1>1, <1>3 DEF LineCount
    <2>2. \A n \in 2 .. Len(d) : Concat(b, d)[Len(b) + n - 1] = d[n]
      BY ConcatType
    <2> QED BY <2>1, <2>2
  <1> QED BY <1>2, <1>3

(* The lines that were there stay linked.                                  *)
LEMMA ConcatKeeps ==
    ASSUME NEW b \in Bytes, NEW d \in Bytes, WellLinked(b),
           NEW n \in 1 .. LineCount(b)
    PROVE  LET c == Concat(b, d) IN
           /\ Len(c[n]) <= 1 /\ ~ Oversized(c[n])
           /\ DiscontinuityKind(c[n]) => ChainedLine(c[n])
           /\ Linked(c, n)
  <1>1. b \in Seq(Line) /\ Len(b) \in Nat \ {0} /\ DOMAIN b = 1 .. Len(b)
    BY DEF Bytes
  <1>2. n \in Nat \ {0} /\ n \in DOMAIN b /\ n \in 1 .. Len(b) - 1
    BY <1>1 DEF LineCount
  <1>3. \A m \in 1 .. Len(b) - 1 : Concat(b, d)[m] = b[m]
    BY ConcatType
  <1>4. \A m \in 1 .. n : b[m] = Concat(b, d)[m]
    BY <1>1, <1>2, <1>3
  <1>5. Linked(b, n)
    BY <1>2 DEF WellLinked
  <1>6. Linked(Concat(b, d), n)
    BY <1>2, <1>4, <1>5, LinkedAgree
  <1>7. Concat(b, d)[n] = b[n]
    BY <1>2, <1>3
  <1> QED BY <1>2, <1>6, <1>7 DEF WellLinked

(* Bytes that end at a newline: nothing is unfinished, and links hold.     *)
LEMMA EmptyLineLinked ==
    ASSUME NEW c, NEW n, c[n] = << >>
    PROVE  /\ Len(c[n]) <= 1 /\ ~ Oversized(c[n])
           /\ DiscontinuityKind(c[n]) => ChainedLine(c[n])
           /\ Linked(c, n)
  <1>1. Len(c[n]) = 0 /\ DOMAIN c[n] = {}
    OBVIOUS
  <1> QED BY <1>1 DEF Oversized, DiscontinuityKind, ChainedLine, WholeRecord, Linked

LEMMA OnePiece ==
    ASSUME NEW p
    PROVE  Len(<< p >>) = 1 /\ << p >>[1] = p /\ DOMAIN << p >> = {1}
OBVIOUS

(* One record chained.                                                     *)
LEMMA OneAfter ==
    ASSUME NEW r \in Piece, NEW head,
           head.trail \in Author, head.seq \in Nat, head.prev \in Digests
    PROVE  \E p \in Piece :
              /\ ChainAfter(<< r >>, head) = << p >>
              /\ p.trail = head.trail /\ p.w = r.w /\ p.i = r.i /\ p.len = r.len
              /\ p.kind = r.kind /\ p.over = r.over
  <1> DEFINE p == [r EXCEPT !.trail = head.trail, !.seq = head.seq + 1, !.prev = head.prev]
  <1>a. head.seq + 1 \in Nat /\ head.trail \in Trails
    BY DEF Trails
  <1>1. p \in Piece
    BY <1>a DEF Piece
  <1>2. /\ p.trail = head.trail /\ p.w = r.w /\ p.i = r.i /\ p.len = r.len
        /\ p.kind = r.kind /\ p.over = r.over
    BY DEF Piece
  <1>3. ChainAfter(<< r >>, head) = [i \in 1 .. 1 |-> p]
    <2>1. Len(<< r >>) = 1 /\ << r >>[1] = r
      BY OnePiece
    <2>2. \A i \in 1 .. 1 : i = 1
      OBVIOUS
    <2>3. ChainAfter(<< r >>, head) =
            [i \in 1 .. 1 |->
                [<< r >>[i] EXCEPT !.trail = head.trail, !.seq = head.seq + i,
                    !.prev = IF i = 1 THEN head.prev ELSE LineDigest(<< << r >>[i - 1] >>)]]
      BY <2>1 DEF ChainAfter
    <2> QED BY <2>1, <2>2, <2>3
  <1> HIDE DEF p
  <1>4. [i \in 1 .. 1 |-> p] = << p >>
    OBVIOUS
  <1> QED BY <1>1, <1>2, <1>3, <1>4

(* A batch chained after the head its writer read leaves the file linked.  *)
LEMMA AppendLinked ==
    ASSUME NEW b \in Bytes, WellLinked(b), TailOf(b) = << >>, NEW w \in Author,
           NEW recs \in Seq(Piece),
           \A i \in 1 .. Len(recs) :
               /\ recs[i].len = Body /\ ~ recs[i].over
               /\ recs[i].kind # "discontinuity"
    PROVE  WellLinked(Concat(b, EncodeLines(ChainAfter(recs, ReadHead(b, w)))))
  <1> DEFINE head == ReadHead(b, w)
             ps == ChainAfter(recs, head)
             d == EncodeLines(ps)
             c == Concat(b, d)
             L == LineCount(b)
  <1>1. b \in Seq(Line) /\ Len(b) \in Nat \ {0} /\ L \in Nat /\ Len(b) = L + 1
    BY DEF Bytes, LineCount
  <1>2. head.trail \in Author /\ head.seq \in Nat /\ head.prev \in Digests
    BY ReadHeadType
  <1>3. /\ head.seq = L /\ head.prev = HeadAfter(b).prev
        /\ HeadAfter(b).trail # NoTrail => head.trail = HeadAfter(b).trail
    BY HeadAgrees
  <1> HIDE DEF head
  <1>4. /\ ps \in Seq(Piece) /\ Len(ps) = Len(recs) /\ Len(recs) \in Nat
        /\ \A i \in 1 .. Len(recs) :
                /\ ps[i].trail = head.trail /\ ps[i].seq = head.seq + i
                /\ ps[i].prev = IF i = 1 THEN head.prev
                                         ELSE LineDigest(<< recs[i - 1] >>)
                /\ ps[i].w = recs[i].w /\ ps[i].i = recs[i].i /\ ps[i].len = recs[i].len
                /\ ps[i].kind = recs[i].kind /\ ps[i].over = recs[i].over
    BY <1>2, ChainAfterType
  <1> HIDE DEF ps
  <1>5. /\ d \in Bytes /\ Len(d) = Len(recs) + 1
        /\ \A i \in 1 .. Len(recs) : d[i] = << ps[i] >>
        /\ d[Len(recs) + 1] = << >>
    BY <1>4, EncodeLinesType
  <1> HIDE DEF d
  <1>6. /\ c \in Bytes /\ Len(c) = L + Len(recs) + 1
        /\ \A n \in 1 .. L : c[n] = b[n]
    <2>1. /\ c \in Bytes /\ Len(c) = Len(b) + Len(d) - 1
          /\ \A n \in 1 .. Len(b) - 1 : c[n] = b[n]
      BY <1>5, ConcatType
    <2>2. Len(b) + Len(d) - 1 = L + Len(recs) + 1 /\ Len(b) - 1 = L
      BY <1>1, <1>4, <1>5
    <2> QED BY <2>1, <2>2, Zenon
  <1>7. \A i \in 1 .. Len(recs) : c[L + i] = << ps[i] >>
    BY <1>4, <1>5, ConcatLines
  <1>8. c[L + Len(recs) + 1] = << >>
    <2>1. Len(recs) + 1 \in 1 .. Len(d) /\ L + (Len(recs) + 1) = L + Len(recs) + 1
      BY <1>1, <1>4, <1>5
    <2> QED BY <1>5, <2>1, ConcatLines
  <1>9. \A n \in 1 .. L : /\ Len(c[n]) <= 1 /\ ~ Oversized(c[n])
                          /\ DiscontinuityKind(c[n]) => ChainedLine(c[n])
                          /\ Linked(c, n)
    BY <1>5, ConcatKeeps
  <1> HIDE DEF c
  <1>10. ASSUME NEW i \in 1 .. Len(recs)
         PROVE  /\ Len(c[L + i]) = 1 /\ c[L + i][1] = ps[i]
                /\ ~ Oversized(c[L + i])
                /\ ~ DiscontinuityKind(c[L + i]) /\ ChainedLine(c[L + i])
    <2>0. c[L + i] = << ps[i] >>
      BY <1>7
    <2>1. Len(c[L + i]) = 1 /\ c[L + i][1] = ps[i] /\ DOMAIN c[L + i] = {1}
      BY <2>0, OnePiece, Zenon
    <2>a. recs[i].len = Body /\ ~ recs[i].over /\ recs[i].kind # "discontinuity"
      OBVIOUS
    <2>b. /\ ps[i].len = recs[i].len /\ ps[i].kind = recs[i].kind
          /\ ps[i].trail = head.trail
      BY <1>4
    <2>c. ps[i].over = recs[i].over
      BY <1>4
    <2>2. ps[i].len = Body /\ ~ ps[i].over /\ ps[i].kind # "discontinuity" /\ ps[i].trail # NoTrail
      BY <1>2, <2>a, <2>b, <2>c, AuthorAssumption, Zenon
    <2> QED BY <2>1, <2>2 DEF Oversized, DiscontinuityKind, ChainedLine, WholeRecord
  <1>11. ASSUME NEW i \in 1 .. Len(recs)
         PROVE  Linked(c, L + i)
    <2> DEFINE u == UpTo(c, (L + i) - 1)
    <2>1. /\ Len(c[L + i]) = 1 /\ c[L + i][1] = ps[i]
          /\ ps[i].seq = L + i /\ ps[i].kind # "discontinuity"
          /\ ps[i].trail = head.trail
      BY <1>3, <1>4, <1>10
    <2>2. CASE i = 1
      <3>1. (L + i) - 1 = L
        BY <1>1, <2>2
      <3>2. UpTo(c, L) = UpTo(b, L)
        BY <1>1, <1>6, UpToAgree
      <3>3. u = b
        BY <3>1, <3>2, UpToWhole
      <3>4. ps[i].prev = head.prev
        BY <1>4, <2>2
      <3> QED BY <1>3, <2>1, <3>3, <3>4 DEF Linked
    <2>3. CASE i # 1
      <3>1. i - 1 \in 1 .. Len(recs) /\ (L + i) - 1 = L + (i - 1) /\ (L + i) - 1 \in 1 .. LineCount(c)
        BY <1>1, <1>4, <1>6, <2>3 DEF LineCount
      <3>2. LineCount(u) = L + (i - 1) /\ u[L + (i - 1)] = c[L + (i - 1)]
        BY <1>6, <3>1, UpToType
      <3>3. /\ c[L + (i - 1)] = << ps[i - 1] >> /\ ~ Oversized(c[L + (i - 1)])
            /\ ChainedLine(c[L + (i - 1)]) /\ c[L + (i - 1)][1] = ps[i - 1]
        BY <1>7, <1>10, <3>1
      <3>4. L + (i - 1) > 0
        BY <1>1, <3>1
      <3>5. /\ HeadAfter(u).trail = ps[i - 1].trail
            /\ HeadAfter(u).prev = LineDigest(<< ps[i - 1] >>)
        <4> HIDE DEF u
        <4> QED BY <3>2, <3>3, <3>4 DEF HeadAfter
      <3>6. Ident(<< ps[i - 1] >>) = Ident(<< recs[i - 1] >>)
        <4>1. Name(ps[i - 1]) = Name(recs[i - 1])
          BY <1>4, <3>1 DEF Name
        <4> QED BY <4>1 DEF Ident
      <3>7. HeadAfter(u).prev = ps[i].prev /\ HeadAfter(u).trail = ps[i].trail
        BY <1>4, <2>3, <3>1, <3>5, <3>6 DEF LineDigest
      <3> QED BY <2>1, <3>7 DEF Linked
    <2> QED BY <2>2, <2>3
  <1>12. ASSUME NEW n \in DOMAIN c
         PROVE  /\ Len(c[n]) <= 1 /\ ~ Oversized(c[n])
                /\ DiscontinuityKind(c[n]) => ChainedLine(c[n])
                /\ Linked(c, n)
    <2>1. n \in 1 .. L + Len(recs) + 1
      BY <1>1, <1>4, <1>6 DEF Bytes
    <2>2. CASE n \in 1 .. L
      BY <1>9, <2>2
    <2>3. CASE n = L + Len(recs) + 1
      BY <1>8, <2>3, EmptyLineLinked
    <2>4. CASE n \in L + 1 .. L + Len(recs)
      <3>1. n - L \in 1 .. Len(recs) /\ L + (n - L) = n
        BY <1>1, <1>4, <2>4
      <3>2. PICK i \in 1 .. Len(recs) : L + i = n
        BY <3>1, Zenon
      <3>3. /\ Len(c[L + i]) = 1 /\ ~ Oversized(c[L + i])
            /\ ~ DiscontinuityKind(c[L + i]) /\ Linked(c, L + i)
        BY <1>10, <1>11
      <3>4. Len(c[n]) = 1 /\ ~ Oversized(c[n]) /\ ~ DiscontinuityKind(c[n]) /\ Linked(c, n)
        BY <3>2, <3>3, Zenon
      <3> QED BY <3>4
    <2> QED BY <1>1, <1>4, <2>1, <2>2, <2>3, <2>4
  <1>13. WellLinked(c)
    BY <1>12 DEF WellLinked
  <1> QED BY <1>13 DEF c, d, ps, head

(* A file without its unfinished line is a beginning of it.                *)
LEMMA UpToBeginning ==
    ASSUME NEW b \in Bytes, NEW n \in 0 .. LineCount(b)
    PROVE  UpTo(b, n) \in Beginnings(b)
  <1>1. b \in Seq(Line) /\ DOMAIN b = 1 .. Len(b) /\ Len(b) \in Nat \ {0}
    BY DEF Bytes
  <1>2. n + 1 \in DOMAIN b /\ n \in Nat
    BY <1>1 DEF LineCount
  <1>3. << >> \in Cuts(b[n + 1])
    BY DEF Cuts
  <1>4. UpTo(b, n) = [m \in 1 .. n + 1 |-> IF m < n + 1 THEN b[m] ELSE << >>]
    BY <1>2 DEF UpTo
  <1> DEFINE S(k) == {[m \in 1 .. k |-> IF m < k THEN b[m] ELSE t] : t \in Cuts(b[k])}
  <1>5. UpTo(b, n) \in S(n + 1)
    BY <1>3, <1>4, Zenon
  <1>6. Beginnings(b) = UNION {S(k) : k \in DOMAIN b}
    BY DEF Beginnings
  <1> HIDE DEF S
  <1> QED BY <1>2, <1>5, <1>6, Zenon

(* What a repair writes: a piece, and the line it is written as.           *)
LEMMA DiscontinuityType ==
    ASSUME NEW b \in Bytes, NEW w \in Author
    PROVE  /\ Discontinuity(w, b) \in Piece
           /\ << << >>, << Discontinuity(w, b) >>, << >> >> \in Bytes
  <1> DEFINE before == UpTo(b, LineCount(b))
             head == ReadHead(before, w)
             D == Discontinuity(w, b)
  <1>1. b \in Seq(Line) /\ Len(b) \in Nat \ {0} /\ LineCount(b) \in 0 .. LineCount(b)
    BY DEF Bytes, LineCount
  <1>2. before \in Bytes
    BY <1>1, UpToType
  <1>3. head.trail \in Author /\ head.seq \in Nat /\ head.prev \in Digests
    BY <1>2, ReadHeadType
  <1>4. LineDigest(TailOf(b)) \in Digests
    <2>1. TailOf(b) \in Line
      BY <1>1 DEF TailOf
    <2> QED BY <2>1, LineDigestType
  <1>5. D = [w |-> w, i |-> 1, len |-> Body, kind |-> "discontinuity",
             trail |-> head.trail, seq |-> head.seq + 2, prev |-> head.prev,
             dline |-> head.seq + 1, ddig |-> LineDigest(TailOf(b)), over |-> FALSE]
    BY DEF Discontinuity
  <1> HIDE DEF head, D
  <1>6. D \in Piece
    BY <1>3, <1>4, <1>5, BodyAssumption DEF Piece, Kinds, Trails
  <1>7. << << >>, << D >>, << >> >> \in Seq(Line)
    BY <1>6 DEF Line
  <1>8. << << >>, << D >>, << >> >> \in Bytes
    BY <1>7 DEF Bytes
  <1> QED BY <1>6, <1>8 DEF D

(* A repair of an end it does not refuse leaves the file linked.           *)
LEMMA RepairLinked ==
    ASSUME NEW b \in Bytes, WellLinked(b), NEW w \in Author,
           ~ DiscontinuityKind(TailOf(b))
    PROVE  WellLinked(Concat(b, << << >>, << Discontinuity(w, b) >>, << >> >>))
  <1> DEFINE L == Len(b)
             before == UpTo(b, LineCount(b))
             head == ReadHead(before, w)
             D == Discontinuity(w, b)
             d == << << >>, << D >>, << >> >>
             c == Concat(b, d)
  <1>1. b \in Seq(Line) /\ L \in Nat \ {0} /\ LineCount(b) \in 0 .. LineCount(b)
        /\ LineCount(b) = L - 1 /\ DOMAIN b = 1 .. L
    BY DEF Bytes, LineCount
  <1>2. before \in Bytes /\ LineCount(before) = L - 1 /\ WellLinked(before)
    <2>1. before \in Beginnings(b)
      BY <1>1, UpToBeginning
    <2> QED BY <1>1, <2>1, UpToType, BeginningLinked
  <1>3. /\ head.seq = L - 1 /\ head.prev = HeadAfter(before).prev
        /\ HeadAfter(before).trail # NoTrail => head.trail = HeadAfter(before).trail
    BY <1>2, HeadAgrees
  <1>4. head.trail \in Author
    BY <1>2, ReadHeadType
  <1>5. /\ D.len = Body /\ D.kind = "discontinuity" /\ D.trail = head.trail
        /\ D.seq = head.seq + 2 /\ D.prev = head.prev
        /\ D.dline = head.seq + 1 /\ D.ddig = LineDigest(TailOf(b)) /\ D.over = FALSE
    BY DEF Discontinuity
  <1> HIDE DEF head
  <1>6. D \in Piece /\ d \in Bytes /\ Len(d) = 3
    BY DiscontinuityType
  <1>7. d[1] = << >> /\ d[2] = << D >> /\ d[3] = << >>
    OBVIOUS
  <1> HIDE DEF D, d
  <1>8. /\ c \in Bytes /\ Len(c) = L + 2
        /\ \A n \in 1 .. L - 1 : c[n] = b[n]
        /\ c[L] = b[L] \o << >>
        /\ c[L + 1] = << D >> /\ c[L + 2] = << >>
    <2>1. /\ c \in Bytes /\ Len(c) = L + Len(d) - 1
          /\ \A n \in 1 .. L - 1 : c[n] = b[n]
          /\ c[L] = b[L] \o d[1]
          /\ \A n \in 2 .. Len(d) : c[L + n - 1] = d[n]
      BY <1>6, ConcatType
    <2>2. 2 \in 2 .. Len(d) /\ 3 \in 2 .. Len(d) /\ L + 2 - 1 = L + 1 /\ L + 3 - 1 = L + 2
      BY <1>1, <1>6
    <2>3. c[L + 2 - 1] = d[2] /\ c[L + 3 - 1] = d[3]
      BY <2>1, <2>2
    <2> HIDE DEF L, c
    <2>4. c[L + 1] = d[2] /\ c[L + 2] = d[3]
      BY <2>2, <2>3
    <2> QED BY <1>6, <1>7, <2>1, <2>2, <2>4
  <1>9. c[L] = b[L]
    <2>1. b[L] \in Line
      BY <1>1
    <2> QED BY <1>8, <2>1 DEF Line
  <1>10. \A n \in 1 .. L - 1 : /\ Len(c[n]) <= 1 /\ ~ Oversized(c[n])
                               /\ DiscontinuityKind(c[n]) => ChainedLine(c[n])
                               /\ Linked(c, n)
    BY <1>1, <1>6, ConcatKeeps
  <1> HIDE DEF c
  <1>11. /\ Len(c[L]) <= 1 /\ ~ Oversized(c[L])
         /\ DiscontinuityKind(c[L]) => ChainedLine(c[L])
         /\ Linked(c, L)
    <2>1. L \in DOMAIN b /\ \A m \in 1 .. L : b[m] = c[m]
      BY <1>1, <1>8, <1>9
    <2>2. Linked(b, L) /\ Len(b[L]) <= 1 /\ ~ Oversized(b[L])
          /\ (DiscontinuityKind(b[L]) => ChainedLine(b[L]))
      BY <2>1 DEF WellLinked
    <2>3. Linked(c, L)
      BY <1>1, <2>1, <2>2, LinkedAgree
    <2> QED BY <1>9, <2>2, <2>3
  <1>12. /\ Len(c[L + 1]) = 1 /\ c[L + 1][1] = D /\ ~ Oversized(c[L + 1])
         /\ ChainedLine(c[L + 1])
    <2>1. Len(c[L + 1]) = 1 /\ c[L + 1][1] = D /\ DOMAIN c[L + 1] = {1}
      BY <1>8, OnePiece
    <2>2. D.len = Body /\ D.trail # NoTrail /\ ~ D.over
      BY <1>4, <1>5, AuthorAssumption
    <2> QED BY <2>1, <2>2 DEF Oversized, ChainedLine, WholeRecord
  <1>13. Linked(c, L + 1)
    <2>1. (L + 1) - 2 = L - 1 /\ (L + 1) - 1 = L /\ L + 1 > 1 /\ L - 1 \in Nat
      BY <1>1
    <2>2. UpTo(c, L - 1) = before
      BY <1>1, <1>8, <2>1, UpToAgree
    <2>3. UpTo(c, (L + 1) - 2) = before
      BY <2>1, <2>2
    <2>4. D.seq = L + 1 /\ D.dline = (L + 1) - 1
      BY <1>1, <1>3, <1>5
    <2>5. c[(L + 1) - 1] = TailOf(b)
      BY <1>9, <2>1 DEF TailOf
    <2> HIDE DEF L, before
    <2> QED BY <1>3, <1>5, <1>12, <2>1, <2>3, <2>4, <2>5 DEF Linked
  <1>14. ASSUME NEW n \in DOMAIN c
         PROVE  /\ Len(c[n]) <= 1 /\ ~ Oversized(c[n])
                /\ DiscontinuityKind(c[n]) => ChainedLine(c[n])
                /\ Linked(c, n)
    <2>1. n \in 1 .. L + 2
      BY <1>1, <1>8 DEF Bytes
    <2>2. CASE n \in 1 .. L - 1
      BY <1>10, <2>2
    <2>3. CASE n = L
      BY <1>11, <2>3
    <2>4. CASE n = L + 1
      <3> HIDE DEF L
      <3>1. Len(c[n]) = 1 /\ ~ Oversized(c[n]) /\ ChainedLine(c[n]) /\ Linked(c, n)
        BY <1>12, <1>13, <2>4, Zenon
      <3> QED BY <3>1
    <2>5. CASE n = L + 2
      BY <1>8, <2>5, EmptyLineLinked
    <2> QED BY <1>1, <2>1, <2>2, <2>3, <2>4, <2>5
  <1>15. WellLinked(c)
    BY <1>14 DEF WellLinked
  <1> QED BY <1>15 DEF c, d, D

(* A rotation appends nothing.                                             *)
LEMMA ConcatEmpty ==
    ASSUME NEW b \in Bytes
    PROVE  Concat(b, Empty) = b
  <1>1. b \in Seq(Line) /\ Len(b) \in Nat \ {0} /\ DOMAIN b = 1 .. Len(b)
    BY DEF Bytes
  <1>2. Len(Empty) = 1 /\ Empty[1] = << >> /\ Len(b) + 1 - 1 = Len(b)
    BY <1>1 DEF Empty
  <1>3. \A n \in 1 .. Len(b) : b[n] \in Line
    BY <1>1
  <1>4. \A n \in 1 .. Len(b) : b[n] \o << >> = b[n]
    BY <1>3 DEF Line
  <1>5. Concat(b, Empty) = [n \in 1 .. Len(b) |-> b[n]]
    BY <1>1, <1>2, <1>4 DEF Concat
  <1> QED BY <1>1, <1>5
-----------------------------------------------------------------------------
(* What a digest in the hands of someone else says: a record that is the   *)
(* same in two trails, with nothing found up to it in either, has the same *)
(* lines before it in both.                                                *)

PiecesIn(b) == UNION {{b[n][k] : k \in DOMAIN b[n]} : n \in DOMAIN b}

(* Records of the same name are the same record.                           *)
SameNames(b, c) == \A p \in PiecesIn(b), q \in PiecesIn(c) : Name(p) = Name(q) => p = q

(* Lines whose bytes have one digest are one line.                         *)
LEMMA SameIdentSameLine ==
    ASSUME NEW b \in Bytes, NEW c \in Bytes, SameNames(b, c),
           NEW n \in DOMAIN b, NEW m \in DOMAIN c, Ident(b[n]) = Ident(c[m])
    PROVE  b[n] = c[m]
  <1>1. b[n] \in Seq(Piece) /\ c[m] \in Seq(Piece)
    BY DEF Bytes, Line
  <1>2. DOMAIN b[n] = DOMAIN c[m]
    <2>1. DOMAIN Ident(b[n]) = DOMAIN b[n] /\ DOMAIN Ident(c[m]) = DOMAIN c[m]
      BY DEF Ident
    <2> QED BY <2>1
  <1>3. ASSUME NEW k \in DOMAIN b[n] PROVE b[n][k] = c[m][k]
    <2>1. Ident(b[n])[k] = Name(b[n][k]) /\ Ident(c[m])[k] = Name(c[m][k])
      BY <1>2, <1>3 DEF Ident
    <2>2. b[n][k] \in PiecesIn(b) /\ c[m][k] \in PiecesIn(c)
      BY <1>2, <1>3 DEF PiecesIn
    <2> QED BY <2>1, <2>2 DEF SameNames
  <1>4. Len(b[n]) = Len(c[m])
    BY <1>1, <1>2
  <1> QED BY <1>1, <1>2, <1>3, <1>4

(* What stands before a record that two files hold to the same digest is   *)
(* the same chained line, or all of it is the same.                        *)
LEMMA SameHeadSameLines ==
    ASSUME NEW b \in Bytes, NEW c \in Bytes, SameNames(b, c),
           NEW n \in 0 .. LineCount(b), n <= LineCount(c),
           n > 0 => ~ Oversized(b[n]) /\ ~ Oversized(c[n]),
           HeadAfter(UpTo(b, n)).prev = HeadAfter(UpTo(c, n)).prev
    PROVE  \/ \A k \in 1 .. n : b[k] = c[k]
           \/ n > 0 /\ ChainedLine(b[n]) /\ b[n] = c[n]
  <1>1. n \in Nat /\ n \in 0 .. LineCount(c) /\ 1 .. n \subseteq DOMAIN b /\ 1 .. n \subseteq DOMAIN c
    BY DEF Bytes, LineCount
  <1>2. /\ UpTo(b, n) \in Bytes /\ LineCount(UpTo(b, n)) = n
        /\ \A k \in 1 .. n : UpTo(b, n)[k] = b[k]
    BY UpToType
  <1>3. /\ UpTo(c, n) \in Bytes /\ LineCount(UpTo(c, n)) = n
        /\ \A k \in 1 .. n : UpTo(c, n)[k] = c[k]
    BY <1>1, UpToType
  <1>4. CASE n = 0
    BY <1>4
  <1> SUFFICES ASSUME n > 0 PROVE \/ \A k \in 1 .. n : b[k] = c[k]
                                  \/ ChainedLine(b[n]) /\ b[n] = c[n]
    BY <1>1, <1>4
  <1>5. n \in 1 .. n /\ n \in DOMAIN b /\ n \in DOMAIN c
    BY <1>1
  <1>6. HeadAfter(UpTo(b, n)).prev = IF ChainedLine(b[n]) THEN LineDigest(b[n]) ELSE Digest(UpTo(b, n))
    BY <1>2, <1>5 DEF HeadAfter
  <1>7. HeadAfter(UpTo(c, n)).prev = IF ChainedLine(c[n]) THEN LineDigest(c[n]) ELSE Digest(UpTo(c, n))
    BY <1>3, <1>5 DEF HeadAfter
  <1>8. /\ DOMAIN Digest(UpTo(b, n)) = 1 .. n + 1 /\ DOMAIN Digest(UpTo(c, n)) = 1 .. n + 1
        /\ DOMAIN LineDigest(b[n]) = 1 .. 1 /\ DOMAIN LineDigest(c[n]) = 1 .. 1
        /\ n + 1 \in 1 .. n + 1 /\ n + 1 \notin 1 .. 1
    <2>1. DOMAIN UpTo(b, n) = 1 .. n + 1 /\ DOMAIN UpTo(c, n) = 1 .. n + 1
      BY DEF UpTo
    <2>2. n + 1 \in 1 .. n + 1 /\ n + 1 \notin 1 .. 1
      BY <1>1
    <2> QED BY <2>1, <2>2 DEF Digest, LineDigest
  <1>9. CASE ChainedLine(b[n]) /\ ChainedLine(c[n])
    <2>1. LineDigest(b[n]) = LineDigest(c[n])
      BY <1>6, <1>7, <1>9
    <2>2. Ident(b[n]) = Ident(c[n])
      <3>1. LineDigest(b[n])[1] = Ident(b[n]) /\ LineDigest(c[n])[1] = Ident(c[n])
        BY DEF LineDigest
      <3> QED BY <2>1, <3>1
    <2> QED BY <1>5, <1>9, <2>2, SameIdentSameLine
  <1>10. CASE ~ ChainedLine(b[n]) /\ ~ ChainedLine(c[n])
    <2>1. Digest(UpTo(b, n)) = Digest(UpTo(c, n))
      BY <1>6, <1>7, <1>10
    <2>2. ASSUME NEW k \in 1 .. n PROVE b[k] = c[k]
      <3>1. k \in DOMAIN UpTo(b, n) /\ k \in DOMAIN UpTo(c, n)
        BY <1>1 DEF UpTo
      <3>2. Ident(UpTo(b, n)[k]) = Ident(UpTo(c, n)[k])
        BY <2>1, <3>1 DEF Digest
      <3>3. k \in DOMAIN b /\ k \in DOMAIN c
        BY <1>1
      <3> QED BY <1>2, <1>3, <3>2, <3>3, SameIdentSameLine
    <2> QED BY <2>2
  <1>11. CASE ~ (ChainedLine(b[n]) <=> ChainedLine(c[n]))
    <2>1. HeadAfter(UpTo(b, n)).prev # HeadAfter(UpTo(c, n)).prev
      BY <1>6, <1>7, <1>8, <1>11
    <2> QED BY <2>1
  <1> QED BY <1>9, <1>10, <1>11

Settled(b, n) == \A i \in 1 .. n : Findings(b, i) = {}

(* A chained record at one line of both files, neither of which has a      *)
(* finding up to it.                                                       *)
MeetAt(b, c, n) ==
    /\ n \in 1 .. LineCount(b) /\ n <= LineCount(c)
    /\ ChainedLine(b[n]) /\ b[n] = c[n]
    /\ ~ Damaged(b, n) /\ ~ Damaged(c, n)
    /\ Settled(b, n) /\ Settled(c, n)

(* What a settled chained record says of what is before it.                *)
LEMMA SettledRecord ==
    ASSUME NEW b \in Bytes, NEW n \in 1 .. LineCount(b), ChainedLine(b[n]),
           ~ Damaged(b, n), Settled(b, n)
    PROVE  LET over == b[n][1].kind = "discontinuity"
               m == IF over THEN n - 2 ELSE n - 1
           IN  /\ m \in 0 .. LineCount(b)
               /\ m > 0 => ~ Oversized(b[m])
               /\ b[n][1].prev = HeadAfter(UpTo(b, m)).prev
               /\ over => b[n][1].ddig = LineDigest(b[n - 1])
               /\ m > 0 /\ ChainedLine(b[m]) => ~ Damaged(b, m)
  <1>1. n \in Nat /\ n \in 1 .. n /\ LineCount(b) \in Nat
    BY DEF LineCount, Bytes
  <1>2. LineFindings(b, n) = {}
    BY <1>1 DEF Settled, Findings
  <1>3. ~ Oversized(b[n]) /\ (IsDiscontinuity(b, n) => Excuses(b, n))
    BY <1>2 DEF LineFindings
  <1>4. DiscontinuityKind(b[n]) <=> b[n][1].kind = "discontinuity"
    BY DEF DiscontinuityKind, ChainedLine
  <1>5. Excuses(b, n) <=> b[n][1].kind = "discontinuity"
    BY <1>3, <1>4 DEF Excuses, IsDiscontinuity
  <1>6. b[n][1].ddig = LineDigest(b[n - 1]) \/ ~ Excuses(b, n)
    BY <1>2 DEF LineFindings
  <1>7. Expected(b, n).known => b[n][1].prev = Expected(b, n).prev
    BY <1>2, <1>3 DEF LineFindings
  (* No line before it is too long but one it or another excuses, and      *)
  (* those are not.                                                        *)
  <1>8. ASSUME NEW i \in 1 .. n PROVE ~ Oversized(b[i])
    <2>1. CASE Damaged(b, i)
      <3>1. ~ Oversized(b[(i + 1) - 1]) /\ (i + 1) - 1 = i
        BY <2>1 DEF Damaged, Excuses
      <3> QED BY <3>1
    <2>2. CASE ~ Damaged(b, i)
      <3>1. LineFindings(b, i) = {}
        BY <2>2 DEF Settled, Findings
      <3> QED BY <3>1 DEF LineFindings
    <2> QED BY <2>1, <2>2
  <1>9. ASSUME NEW m \in 0 .. n - 1 PROVE HeadAfter(UpTo(b, m)).known
    <2>1. m \in 0 .. LineCount(b) /\ (m > 0 => m \in 1 .. n)
      BY <1>1
    <2>2. LineCount(UpTo(b, m)) = m /\ \A k \in 1 .. m : UpTo(b, m)[k] = b[k]
      BY <2>1, UpToType
    <2>3. m > 0 => UpTo(b, m)[m] = b[m]
      BY <2>1, <2>2
    <2> QED BY <1>8, <2>1, <2>2, <2>3 DEF HeadAfter
  <1>10. CASE b[n][1].kind = "discontinuity"
    <2>1. Excuses(b, n) /\ n > 1 /\ ~ DiscontinuityKind(b[n - 1])
      BY <1>5, <1>10 DEF Excuses
    <2>2. n - 2 \in 0 .. n - 1 /\ n - 2 \in 0 .. LineCount(b) /\ (n - 2 > 0 => n - 2 \in 1 .. n)
      BY <1>1, <2>1
    <2>3. Expected(b, n) = HeadAfter(UpTo(b, n - 2))
      <3>1. (n - 1) - 1 = n - 2
        BY <1>1
      <3> QED BY <2>1, <3>1 DEF Expected, HeadBefore
    <2>4. b[n][1].prev = HeadAfter(UpTo(b, n - 2)).prev
      BY <1>7, <1>9, <2>2, <2>3
    <2>5. ~ Damaged(b, n - 2)
      <3>1. (n - 2) + 1 = n - 1
        BY <1>1
      <3> QED BY <2>1, <3>1 DEF Damaged, Excuses, IsDiscontinuity
    <2> QED BY <1>6, <1>8, <1>10, <2>1, <2>2, <2>4, <2>5
  <1>11. CASE b[n][1].kind # "discontinuity"
    <2>1. n - 1 \in 0 .. n - 1 /\ n - 1 \in 0 .. LineCount(b) /\ (n - 1 > 0 => n - 1 \in 1 .. n)
      BY <1>1
    <2>2. Expected(b, n) = HeadAfter(UpTo(b, n - 1))
      BY <1>5, <1>11 DEF Expected, HeadBefore
    <2>3. b[n][1].prev = HeadAfter(UpTo(b, n - 1)).prev
      BY <1>7, <1>9, <2>1, <2>2
    <2>4. ~ Damaged(b, n - 1)
      <3>1. (n - 1) + 1 = n
        BY <1>1
      <3> QED BY <1>5, <1>11, <3>1 DEF Damaged
    <2> QED BY <1>8, <1>11, <2>1, <2>3, <2>4
  <1> QED BY <1>10, <1>11

(* From where two files meet, they are the same down to where they meet    *)
(* before, or down to their first line.                                    *)
LEMMA MeetBefore ==
    ASSUME NEW b \in Bytes, NEW c \in Bytes, SameNames(b, c), NEW n, MeetAt(b, c, n)
    PROVE  \E m \in 0 .. n - 1 :
              /\ \A k \in m + 1 .. n : b[k] = c[k]
              /\ (\A k \in 1 .. m : b[k] = c[k]) \/ MeetAt(b, c, m)
  <1>1. n \in 1 .. LineCount(b) /\ n \in 1 .. LineCount(c) /\ n \in Nat /\ ChainedLine(b[n])
        /\ ChainedLine(c[n]) /\ b[n] = c[n]
    BY DEF MeetAt, LineCount, Bytes
  <1> DEFINE over == b[n][1].kind = "discontinuity"
             m == IF over THEN n - 2 ELSE n - 1
  <1>2. /\ m \in 0 .. LineCount(b)
        /\ m > 0 => ~ Oversized(b[m])
        /\ b[n][1].prev = HeadAfter(UpTo(b, m)).prev
        /\ over => b[n][1].ddig = LineDigest(b[n - 1])
        /\ m > 0 /\ ChainedLine(b[m]) => ~ Damaged(b, m)
    BY <1>1, SettledRecord DEF MeetAt
  <1>3. /\ m \in 0 .. LineCount(c)
        /\ m > 0 => ~ Oversized(c[m])
        /\ b[n][1].prev = HeadAfter(UpTo(c, m)).prev
        /\ over => b[n][1].ddig = LineDigest(c[n - 1])
        /\ m > 0 /\ ChainedLine(c[m]) => ~ Damaged(c, m)
    BY <1>1, SettledRecord DEF MeetAt
  <1>4. m \in 0 .. n - 1
    BY <1>1, <1>2
  <1>5. \A k \in m + 1 .. n : b[k] = c[k]
    <2> SUFFICES ASSUME NEW k \in m + 1 .. n PROVE b[k] = c[k]
      OBVIOUS
    <2>1. CASE k = n
      BY <1>1, <2>1
    <2>2. CASE k # n
      <3>1. over /\ k = n - 1 /\ n > 1
        BY <1>1, <1>2, <2>2
      <3>2. Ident(b[n - 1]) = Ident(c[n - 1])
        <4>1. LineDigest(b[n - 1]) = LineDigest(c[n - 1])
          BY <1>2, <1>3, <3>1
        <4>2. LineDigest(b[n - 1])[1] = Ident(b[n - 1]) /\ LineDigest(c[n - 1])[1] = Ident(c[n - 1])
          BY DEF LineDigest
        <4> QED BY <4>1, <4>2
      <3>3. n - 1 \in DOMAIN b /\ n - 1 \in DOMAIN c
        BY <1>1, <3>1 DEF LineCount, Bytes
      <3> QED BY <3>1, <3>2, <3>3, SameIdentSameLine
    <2> QED BY <2>1, <2>2
  <1>6. m \in Nat /\ m <= LineCount(c)
    BY <1>2, <1>3
  <1>7. \/ \A k \in 1 .. m : b[k] = c[k]
        \/ m > 0 /\ ChainedLine(b[m]) /\ b[m] = c[m]
    <2>1. HeadAfter(UpTo(b, m)).prev = HeadAfter(UpTo(c, m)).prev
      BY <1>2, <1>3
    <2>2. m > 0 => ~ Oversized(b[m]) /\ ~ Oversized(c[m])
      BY <1>2, <1>3
    <2> HIDE DEF m
    <2> QED BY <1>2, <1>6, <2>1, <2>2, SameHeadSameLines
  <1>8. m > 0 /\ ChainedLine(b[m]) /\ b[m] = c[m] => MeetAt(b, c, m)
    <2>1. Settled(b, m) /\ Settled(c, m)
      <3>1. 1 .. m \subseteq 1 .. n
        BY <1>1, <1>4
      <3> QED BY <3>1 DEF MeetAt, Settled
    <2>2. m > 0 => m \in 1 .. LineCount(b)
      BY <1>2, <1>6
    <2> QED BY <1>2, <1>3, <1>6, <2>1, <2>2 DEF MeetAt
  <1> HIDE DEF m
  <1> QED BY <1>4, <1>5, <1>7, <1>8

(* So a chained record that two files share, with nothing found up to it   *)
(* in either, has the same lines before it in both.                        *)
LEMMA SameRecordSameLines ==
    ASSUME NEW b \in Bytes, NEW c \in Bytes, SameNames(b, c), NEW n, MeetAt(b, c, n)
    PROVE  \A k \in 1 .. n : b[k] = c[k]
  <1> DEFINE astray == {m \in Nat : MeetAt(b, c, m) /\ ~ \A k \in 1 .. m : b[k] = c[k]}
  <1>1. n \in Nat
    BY DEF MeetAt, LineCount, Bytes
  <1>2. SUFFICES ASSUME astray # {} PROVE FALSE
    BY <1>1
  <1>3. \E x \in astray : \A y \in astray : ~ (<<y, x>> \in OpToRel(<, Nat))
    <2>1. astray \subseteq Nat
      OBVIOUS
    <2> HIDE DEF astray
    <2> QED BY <1>2, <2>1, WFMin, NatLessThanWellFounded
  <1>4. PICK x \in astray : \A y \in astray : ~ (<<y, x>> \in OpToRel(<, Nat))
    BY <1>3
  <1>5. \A y \in astray : ~ (y < x)
    BY <1>4 DEF OpToRel
  <1>6. PICK m \in 0 .. x - 1 : /\ \A k \in m + 1 .. x : b[k] = c[k]
                               /\ \/ \A k \in 1 .. m : b[k] = c[k]
                                  \/ MeetAt(b, c, m)
    BY MeetBefore
  <1>7. m \in Nat /\ m < x /\ x \in Nat
    OBVIOUS
  <1>8. \A k \in 1 .. m : b[k] = c[k]
    BY <1>5, <1>6, <1>7
  <1>9. \A k \in 1 .. x : k \in 1 .. m \/ k \in m + 1 .. x
    BY <1>7
  <1>10. ASSUME NEW k \in 1 .. x PROVE b[k] = c[k]
    <2>1. CASE k \in 1 .. m
      BY <1>8, <2>1
    <2>2. CASE k \in m + 1 .. x
      BY <1>6, <2>2
    <2> QED BY <1>9, <2>1, <2>2
  <1> QED BY <1>10
=============================================================================
