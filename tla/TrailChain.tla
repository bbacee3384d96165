----------------------------- MODULE TrailChain -----------------------------
(***************************************************************************)
(* The chain of an audit trail as pure operators: what a chaining writer   *)
(* reads before it appends (readHead), what it then writes (chainedLines), *)
(* what a repair writes (discontinuityAfter), and what the verifier finds  *)
(* in the result (Verify).  The writer reads only the end of the file and  *)
(* the verifier reads all of it: they agree because both follow the rule   *)
(* of headBefore, which is what the properties of TrailWriter are about.   *)
(***************************************************************************)
EXTENDS TrailBytes

(* The identity of the last chained line of a file, or NoTrail.            *)
LastTrail(b) ==
    LET last == {k \in 1 .. LineCount(b) :
                    /\ ChainedLine(b[k])
                    /\ \A m \in k + 1 .. LineCount(b) : ~ ChainedLine(b[m])}
    IN  IF last = {} THEN NoTrail ELSE b[CHOOSE k \in last : TRUE][1].trail

-----------------------------------------------------------------------------
(* The writer.                                                             *)

(* Mutant: an unfinished last line is not looked for.                      *)
HeadRefusalMissingTail(b) ==
    IF LineCount(b) > 0 /\ Oversized(b[LineCount(b)]) THEN "oversized-line"
    ELSE "none"

(* Mutant: the last line is read however long it is.                       *)
HeadRefusalUnbounded(b) ==
    IF b # Empty /\ TailOf(b) # << >> THEN "incomplete-last-line" ELSE "none"

(* Why readHead refuses, or "none".  lastLine reads the last line; the     *)
(* whole file is read, and every line held to the bound, only when that    *)
(* line is not chained.                                                    *)
HeadRefusal(b) ==
    LET n == LineCount(b) IN
    IF b = Empty THEN "none"
    ELSE IF TailOf(b) # << >> THEN "incomplete-last-line"
    ELSE IF \/ Oversized(b[n])
            \/ ~ ChainedLine(b[n]) /\ \E k \in 1 .. n : Oversized(b[k])
    THEN "oversized-line"
    ELSE "none"

(* What the next chained record follows, for a file readHead accepts: the  *)
(* last line when it is chained, by the sequence it states, and otherwise  *)
(* the whole file, by its line count.  fresh is the identity newTrail      *)
(* would mint.                                                             *)
ReadHead(b, fresh) ==
    LET n == LineCount(b) IN
    IF n > 0 /\ ChainedLine(b[n])
    THEN [trail |-> b[n][1].trail, seq |-> b[n][1].seq,
          prev |-> LineDigest(b[n])]
    ELSE [trail |-> IF LastTrail(b) = NoTrail THEN fresh ELSE LastTrail(b),
          seq |-> n, prev |-> Digest(b)]

(* A record of w's batch before it is chained: an evaluation's record, or  *)
(* a graph run's node records and, last of the batch, its composite.       *)
Unchained(w, i, size, big) ==
    [w |-> w, i |-> i, len |-> Body,
     kind |-> IF size > 1 /\ i = size THEN "graph-composite" ELSE "record",
     trail |-> NoTrail, seq |-> 0, prev |-> Empty,
     dline |-> 0, ddig |-> Empty, over |-> big]

(* encodeLines: one line per record, each ended by its newline.            *)
EncodeLines(recs) ==
    [n \in 1 .. Len(recs) + 1 |->
        IF n <= Len(recs) THEN << recs[n] >> ELSE << >>]

(* Mutant: the composite is encoded first.                                 *)
BatchReversed(w, size, big) ==
    [i \in 1 .. size |-> Unchained(w, size + 1 - i, size, big)]

Batch(w, size, big) == [i \in 1 .. size |-> Unchained(w, i, size, big)]

(* chainedLines with the lock held: consecutive sequences after the head,  *)
(* each record linked to the bytes of the one before it.                   *)
ChainAfter(recs, head) ==
    [i \in 1 .. Len(recs) |->
        [recs[i] EXCEPT
            !.trail = head.trail,
            !.seq = head.seq + i,
            !.prev = IF i = 1 THEN head.prev
                              ELSE LineDigest(<< recs[i - 1] >>)]]

(* The answer of a compose function: the bytes to append, or a refusal.    *)
Refuse(why) == [err |-> why, data |-> Empty]
Give(data) == [err |-> "none", data |-> data]

ChainedLines(b, recs, locked, fresh) ==
    LET big == \E i \in DOMAIN recs : recs[i].over IN
    IF ~ locked
    THEN IF big THEN Refuse("record-too-large") ELSE Give(EncodeLines(recs))
    ELSE IF HeadRefusal(b) # "none" THEN Refuse(HeadRefusal(b))
    ELSE IF big THEN Refuse("record-too-large")
    ELSE Give(EncodeLines(ChainAfter(recs, ReadHead(b, fresh))))

-----------------------------------------------------------------------------
(* The repair.                                                             *)

(* The discontinuity record for a file whose last line is incomplete: it   *)
(* names that line and follows what a record in its place would have.      *)
Discontinuity(w, b) ==
    LET before == ReadHead(UpTo(b, LineCount(b)), w)
    IN  [w |-> w, i |-> 1, len |-> Body, kind |-> "discontinuity",
         trail |-> before.trail, seq |-> before.seq + 2, prev |-> before.prev,
         dline |-> before.seq + 1, ddig |-> LineDigest(TailOf(b)),
         over |-> FALSE]

(* Mutant: the confirmation is not compared.                               *)
RepairLinesUnconfirmed(b, w, locked, bound, shown) ==
    IF ~ locked THEN Refuse("repair-needs-lock")
    ELSE IF TailOf(b) = << >> THEN Refuse("nothing-to-repair")
    ELSE IF DiscontinuityKind(TailOf(b)) THEN Refuse("repair-discontinuity")
    ELSE Give(<< << >>, << Discontinuity(w, b) >>, << >> >>)

(* repairLines: bound is whether the repair is bound to the bytes someone  *)
(* was shown, and shown is their digest.  The newline that ends the damage *)
(* and the record go in one write.                                         *)
RepairLines(b, w, locked, bound, shown) ==
    LET before == UpTo(b, LineCount(b)) IN
    IF ~ locked THEN Refuse("repair-needs-lock")
    ELSE IF TailOf(b) = << >>
    THEN Refuse(IF bound THEN "tail-changed" ELSE "nothing-to-repair")
    ELSE IF Oversized(TailOf(b)) THEN Refuse("oversized-line")
    ELSE IF bound /\ LineDigest(TailOf(b)) # shown THEN Refuse("tail-changed")
    ELSE IF DiscontinuityKind(TailOf(b)) THEN Refuse("repair-discontinuity")
    ELSE IF HeadRefusal(before) # "none" THEN Refuse(HeadRefusal(before))
    ELSE Give(<< << >>, << Discontinuity(w, b) >>, << >> >>)

(* trailHead, which a rotation of the signing key follows: the identity    *)
(* of the last chained line and the number of the last line.               *)
TrailHead(b) ==
    LET n == LineCount(b) IN
    IF n > 0 /\ ChainedLine(b[n])
    THEN [trail |-> b[n][1].trail, at |-> b[n][1].seq]
    ELSE [trail |-> LastTrail(b), at |-> n]

(* Rotate's compose: nothing is appended to the trail.                     *)
RotateLines(b, locked) ==
    IF ~ locked THEN Refuse("repair-needs-lock")
    ELSE IF b = Empty THEN Refuse("rotation-no-trail")
    ELSE IF HeadRefusal(b) # "none" THEN Refuse(HeadRefusal(b))
    ELSE IF TrailHead(b).trail = NoTrail THEN Refuse("rotation-no-trail")
    ELSE Give(Empty)

-----------------------------------------------------------------------------
(* The verifier.                                                           *)

(* headBefore: what a record after the complete lines b would follow, and  *)
(* whether that can be told.  A trail of NoTrail holds the record to none. *)
HeadAfter(b) ==
    LET n == LineCount(b) IN
    IF n > 0 /\ Oversized(b[n])
    THEN [known |-> FALSE, trail |-> NoTrail, prev |-> Empty]
    ELSE IF n > 0 /\ ChainedLine(b[n])
    THEN [known |-> TRUE, trail |-> b[n][1].trail, prev |-> LineDigest(b[n])]
    ELSE [known |-> TRUE, trail |-> LastTrail(b), prev |-> Digest(b)]

HeadBefore(b, i) == HeadAfter(UpTo(b, i - 1))

(* Line i is a chained discontinuity that may excuse the line before it:   *)
(* it names that line, which is neither oversized nor a discontinuity.     *)
IsDiscontinuity(b, i) ==
    ~ Oversized(b[i]) /\ ChainedLine(b[i]) /\ DiscontinuityKind(b[i])

Excuses(b, i) ==
    /\ IsDiscontinuity(b, i)
    /\ i > 1 /\ b[i][1].dline = i - 1
    /\ ~ Oversized(b[i - 1]) /\ ~ DiscontinuityKind(b[i - 1])

(* The line a discontinuity names: its own findings are withdrawn.         *)
Damaged(b, i) == i < LineCount(b) /\ Excuses(b, i + 1)

(* What line i's links are held to: a discontinuity that excuses its line  *)
(* stands in that line's place.                                            *)
Expected(b, i) == IF Excuses(b, i) THEN HeadBefore(b, i - 1) ELSE HeadBefore(b, i)

(* check and checkDiscontinuity: every finding of complete line i.         *)
LineFindings(b, i) ==
    LET held == ~ Oversized(b[i]) /\ ChainedLine(b[i])
        p == b[i][1]
        expect == Expected(b, i)
    IN  {f \in {"line-too-long"} : Oversized(b[i])}
   \cup {f \in {"discontinuity-malformed"} :
            IsDiscontinuity(b, i) /\ ~ Excuses(b, i)}
   \cup {f \in {"discontinuity-mismatch"} :
            Excuses(b, i) /\ p.ddig # LineDigest(b[i - 1])}
   \cup {f \in {"sequence-mismatch"} : held /\ p.seq # i}
   \cup {f \in {"previous-mismatch"} :
            held /\ expect.known /\ p.prev # expect.prev}
   \cup {f \in {"trail-mismatch"} :
            /\ held /\ expect.known
            /\ expect.trail # NoTrail /\ p.trail # expect.trail}

(* The findings Verify reports about complete line i once it is settled.   *)
Findings(b, i) == IF Damaged(b, i) THEN {} ELSE LineFindings(b, i)

(* No finding but, perhaps, an incomplete last line.                       *)
Verifies(b) == \A i \in 1 .. LineCount(b) : Findings(b, i) = {}

-----------------------------------------------------------------------------
(* What makes a file verify however it came to end.  Unlike Verifies, it   *)
(* holds of every beginning of a file it holds of, and it holds of the     *)
(* unfinished last line too, which a repair may yet make a line.           *)

(* Line n, if it is chained, is linked by its own rule.                    *)
Linked(b, n) ==
    ChainedLine(b[n]) =>
        LET p == b[n][1]
            over == p.kind = "discontinuity"
            head == HeadAfter(UpTo(b, IF over THEN n - 2 ELSE n - 1))
        IN  /\ p.seq = n
            /\ p.prev = head.prev
            /\ head.trail # NoTrail => p.trail = head.trail
            /\ over => /\ n > 1 /\ p.dline = n - 1
                       /\ p.ddig = LineDigest(b[n - 1])
                       /\ ~ DiscontinuityKind(b[n - 1])

WellLinked(b) ==
    \A n \in DOMAIN b :
        /\ Len(b[n]) <= 1 /\ ~ Oversized(b[n])
        /\ DiscontinuityKind(b[n]) => ChainedLine(b[n])
        /\ Linked(b, n)
=============================================================================
