----------------------------- MODULE TrailBytes -----------------------------
(***************************************************************************)
(* The bytes of an audit trail (internal/audit), as far as the writer, the *)
(* repair and the verifier tell them apart.                                *)
(*                                                                         *)
(* A file is held as its bytes split at every newline: a non-empty         *)
(* sequence of lines, the last of which is what follows the last newline.  *)
(* The empty file is <<<<>>>>, a file of one complete line l is <<l, <<>>>>*)
(* and <<l>> is the same line with no newline yet.  A line is the sequence *)
(* of the pieces written into it: one whole record in the ordinary case,   *)
(* the first len of a record's Body parts where a write was cut short, and *)
(* several pieces where one write landed behind another's unfinished line. *)
(*                                                                         *)
(* A record's bytes are a value of their own: the run id and the clock     *)
(* make two records differ, so the author and the index of a record in its *)
(* author's batch name its bytes.  A digest is the split bytes with every  *)
(* piece reduced to that name, which is injective, as SHA-256 is taken to  *)
(* be.                                                                     *)
(***************************************************************************)
EXTENDS Integers, Sequences

CONSTANTS
    Author,     \* who writes records: the writers, and whoever came before
    Body,       \* parts of a record's JSON text a cut write can tell apart
    NoTrail     \* the "trail" of a record that carries no chain members

ASSUME BodyAssumption == Body \in Nat \ {0}
ASSUME AuthorAssumption == NoTrail \notin Author

(* newTrail mints a random identity: the author that minted it names it.   *)
Trails == Author \cup {NoTrail}

Atom == Author \X Nat \X (1 .. Body)

Digests == Seq(Seq(Atom))

Kinds == {"record", "graph-composite", "discontinuity"}

(* One record's JSON text, or the first len parts of it.  The chain        *)
(* members (trail, seq, prev) and the discontinuity member (dline, ddig)   *)
(* are read only from a whole one.                                         *)
Piece == [w : Author, i : Nat, len : 1 .. Body, kind : Kinds,
          trail : Trails, seq : Nat, prev : Digests,
          dline : Nat, ddig : Digests, over : BOOLEAN]

Line == Seq(Piece)

Bytes == {b \in Seq(Line) : b # <<>>}

Empty == << << >> >>

-----------------------------------------------------------------------------

Name(p) == <<p.w, p.i, p.len>>

Ident(line) == [k \in DOMAIN line |-> Name(line[k])]

(* Digest: of any bytes, here a whole file or the part of it before a line.*)
Digest(b) == [n \in DOMAIN b |-> Ident(b[n])]

(* The digest of one line's bytes, without the newline that ends it.       *)
LineDigest(line) == << Ident(line) >>

(* What follows the last newline: empty after a complete write.            *)
TailOf(b) == b[Len(b)]

(* The complete lines, and how many there are.                             *)
LineCount(b) == Len(b) - 1

(* The bytes up to and including the newline of complete line n.           *)
UpTo(b, n) == [k \in 1 .. n + 1 |-> IF k <= n THEN b[k] ELSE << >>]

(* An O_APPEND write: the first bytes written continue the unfinished line.*)
Concat(b, data) ==
    [n \in 1 .. Len(b) + Len(data) - 1 |->
        IF n < Len(b) THEN b[n]
        ELSE IF n = Len(b) THEN b[n] \o data[1]
        ELSE data[n - Len(b) + 1]]

-----------------------------------------------------------------------------

(* The first k - 1 pieces of a line and the first j parts of its k-th.     *)
CutLine(line, k, j) ==
    [m \in 1 .. k |-> IF m < k THEN line[m] ELSE [line[k] EXCEPT !.len = j]]

(* Every beginning of a line, the empty one and all of it included.        *)
Cuts(line) ==
    {<< >>} \cup UNION {{CutLine(line, k, j) : j \in 1 .. line[k].len}
                            : k \in DOMAIN line}

(* Every beginning of a file: n complete lines and a part of the next.     *)
Beginnings(b) ==
    UNION {{[m \in 1 .. n |-> IF m < n THEN b[m] ELSE t] : t \in Cuts(b[n])}
                : n \in DOMAIN b}

(* The contents a file of which lo is safe and hi was written can be found *)
(* with after the rest was lost.                                           *)
Between(lo, hi) == {b \in Beginnings(hi) : lo \in Beginnings(b)}

-----------------------------------------------------------------------------

(* One JSON text: a line of exactly one record, all of it.                 *)
WholeRecord(line) == Len(line) = 1 /\ line[1].len = Body

(* A line longer than maxLineBytes.  Only all of such a record is.         *)
Oversized(line) == \E k \in DOMAIN line : line[k].over /\ line[k].len = Body

(* chainedLine / readLink: one JSON object with the three chain members.   *)
ChainedLine(line) == WholeRecord(line) /\ line[1].trail # NoTrail

(* A JSON object whose kind is discontinuity, whatever else it holds.      *)
DiscontinuityKind(line) == WholeRecord(line) /\ line[1].kind = "discontinuity"
=============================================================================
