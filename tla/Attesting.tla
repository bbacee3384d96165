----------------------------- MODULE Attesting -----------------------------
(***************************************************************************)
(* What a verification makes of the things kept outside the trail: the     *)
(* checkpoints a holder kept (checkHeld), a witness's signed statements    *)
(* (WitnessInput.read) and time-stamping authorities' stamps               *)
(* (stampChecker), on top of TrailChain's findings of the trail itself.    *)
(*                                                                         *)
(* A checkpoint's digest is the line's, a statement's signature stands for *)
(* the statement, and a statement's key either verifies it or is not one   *)
(* the reader supplied.  Wording, counts and the lag between a record's    *)
(* time and its stamp are left out.                                        *)
(***************************************************************************)
EXTENDS TrailChain, FiniteSetsExt

CONSTANTS
    None,           \* nothing there, nothing supplied
    TrustedKeys,    \* the witness keys a reader supplies
    StatementBound  \* the most statements one reading takes

(* The checkpoint of a chained line.                                       *)
CheckpointOf(b, i) ==
    [seq |-> i, trail |-> b[i][1].trail, digest |-> LineDigest(b[i])]

(* The lines settled as chained records.                                   *)
ChainedRecords(b) ==
    {i \in 1 .. LineCount(b) : ~ Oversized(b[i]) /\ ChainedLine(b[i]) /\ ~ Damaged(b, i)}

(* The checkpoint of the last chained record.                              *)
HeadOf(b) ==
    IF ChainedRecords(b) = {} THEN None ELSE CheckpointOf(b, Max(ChainedRecords(b)))

(* Findings are pairs of a name and the line they are at.                  *)
TrailFindings(b) ==
    UNION {{<<f, i>> : f \in Findings(b, i)} : i \in 1 .. LineCount(b)}
      \cup (IF TailOf(b) = << >> THEN {}
            ELSE { <<"incomplete-last-line", LineCount(b) + 1>> })

(* No check failed at or before a line.                                    *)
Clear(found, seq) == \A f \in found : f[2] > seq

(* Mutant: a listing gives the latest records.                             *)
ListedLatest(b, after, limit) ==
    {i \in ChainedRecords(b) :
        i > after /\ Cardinality({j \in ChainedRecords(b) : j > i}) < limit}

(* The chained records a listing after a sequence gives, and whether more  *)
(* follow.                                                                 *)
Listed(b, after, limit) ==
    {i \in ChainedRecords(b) :
        i > after /\ Cardinality({j \in ChainedRecords(b) : j > after /\ j < i}) < limit}

More(b, after, limit) == {i \in ChainedRecords(b) : i > after} # Listed(b, after, limit)

-----------------------------------------------------------------------------
(* Held checkpoints.                                                       *)

(* Mutant: a checkpoint is matched by its record's place alone.            *)
HoldCheckpointByPlace(b, c) ==
    IF c.seq > LineCount(b) THEN "checkpoint-beyond-trail"
    ELSE IF c.seq \notin ChainedRecords(b) THEN "checkpoint-not-chained"
    ELSE IF b[c.seq][1].trail # c.trail THEN "checkpoint-trail-mismatch"
    ELSE "none"

HoldCheckpoint(b, c) ==
    IF c.seq > LineCount(b) THEN "checkpoint-beyond-trail"
    ELSE IF c.seq \notin ChainedRecords(b) THEN "checkpoint-not-chained"
    ELSE IF b[c.seq][1].trail # c.trail THEN "checkpoint-trail-mismatch"
    ELSE IF LineDigest(b[c.seq]) # c.digest THEN "checkpoint-record-mismatch"
    ELSE "none"

HeldFindings(b, checkpoints) ==
    {<<HoldCheckpoint(b, c), c.seq>> :
        c \in {d \in checkpoints : HoldCheckpoint(b, d) # "none"}}

Matched(b, checkpoints) == {c \in checkpoints : HoldCheckpoint(b, c) = "none"}

(* The highest sequence of matched checkpoints no finding is at or before. *)
Reach(matched, found) ==
    Max({0} \cup {c.seq : c \in {d \in matched : Clear(found, d.seq)}})

-----------------------------------------------------------------------------
(* A witness's statements: [kind, index, prev, key, checkpoint].  A        *)
(* reading is given lines, a head and a continuation [last, latest], each  *)
(* as it parses.                                                           *)

NoStatement == [kind |-> "none", index |-> -1, prev |-> None, key |-> None, checkpoint |-> None]

NoContinuation == [last |-> NoStatement, latest |-> NoStatement]

(* A line, a head or either statement of a continuation that is not of its *)
(* form.                                                                   *)
Garbled == [NoStatement EXCEPT !.kind = "garbled"]

(* PrepareWitness: the bound, the continuation's two counted first, and no *)
(* statement at or below the continuation's last.                          *)
PrepareRefuses(in) ==
    LET two == IF in.resume = NoContinuation THEN 0 ELSE 2
        one == IF in.head = NoStatement THEN 0 ELSE 1
    IN  \/ two + Cardinality(in.lines) + one > StatementBound
        \/ \E s \in in.lines \ {Garbled} : s.index <= in.resume.last.index

(* The set that is checked: of every file, each statement once.            *)
Supplied(in) == in.lines \cup {in.head, in.resume.last, in.resume.latest}
StatementSet(in) == Supplied(in) \ {NoStatement, Garbled}

Passing(in, trail) ==
    {s \in StatementSet(in) : s.key \in TrustedKeys /\ s.checkpoint.trail = trail}

(* Two that pass at one index, both signed.                                *)
Equivocates(in, trail) ==
    \E s, t \in Passing(in, trail) : s # t /\ s.index = t.index

StatementFindings(in, trail) ==
    {f \in {"witness-malformed"} : Garbled \in Supplied(in)}
      \cup {f \in {"witness-signature-invalid"} :
              \E s \in StatementSet(in) : s.key \notin TrustedKeys}
      \cup {f \in {"witness-trail-mismatch"} :
              \E s \in StatementSet(in) : s.key \in TrustedKeys /\ s.checkpoint.trail # trail}
      \cup {f \in {"witness-equivocation"} : Equivocates(in, trail)}

(* A continuation whose two statements do not belong together.             *)
ContinuationBroken(last, latest) ==
    \/ latest.kind # "checkpoint" \/ latest.index > last.index
    \/ last.kind = "checkpoint" /\ latest # last
    \/ last.kind = "conflict" /\ last.checkpoint.seq > latest.checkpoint.seq
    \/ last.kind = "retirement" /\ last.checkpoint # latest.checkpoint

(* Where the walk begins, and after which statement.                       *)
StartIndex(in) == in.resume.last.index + 1
Before(in) == in.resume.last

(* A head below the continuation, and one the statements do not reach.     *)
HeadBehind(in) == in.head # NoStatement /\ in.head.index < in.resume.last.index

HeadUnreached(in, trail) ==
    /\ in.head # NoStatement /\ ~ HeadBehind(in)
    /\ in.head.index > 1 + Max({StartIndex(in) - 1}
                                \cup {s.index : s \in Passing(in, trail) \ {in.head}})

(* The statements walked.                                                  *)
Walked(in, trail) ==
    {s \in Passing(in, trail) :
        s.index >= StartIndex(in) /\ ~ (s = in.head /\ HeadUnreached(in, trail))}

(* The latest checkpoint statement of a walk before an index.              *)
LatestBefore(in, walked, index) ==
    LET earlier == {s \in walked : s.kind = "checkpoint" /\ s.index < index}
    IN  IF earlier # {} THEN CHOOSE s \in earlier : \A t \in earlier : t.index <= s.index
        ELSE in.resume.latest

(* Mutant: an index may be missing.                                        *)
StatementBrokenGaps(in, walked, s) ==
    LET latest == LatestBefore(in, walked, s.index)
    IN  \/ s.kind = "checkpoint" /\ latest # NoStatement /\ s.checkpoint.seq <= latest.checkpoint.seq
        \/ s.kind # "checkpoint" /\ latest = NoStatement
        \/ s.kind = "conflict" /\ latest # NoStatement /\ s.checkpoint.seq > latest.checkpoint.seq

(* One statement of a walk: in its place, after the one before it, with a  *)
(* sequence its kind allows.                                               *)
StatementBroken(in, walked, s) ==
    LET latest == LatestBefore(in, walked, s.index)
        before == {t \in walked : t.index < s.index}
        prev == IF before = {} THEN Before(in)
                ELSE CHOOSE t \in before : \A u \in before : u.index <= t.index
    IN  \/ s.index # StartIndex(in) + Cardinality(before)
        \/ s.prev # prev
        \/ s.kind = "checkpoint" /\ latest # NoStatement /\ s.checkpoint.seq <= latest.checkpoint.seq
        \/ s.kind # "checkpoint" /\ latest = NoStatement
        \/ s.kind = "conflict" /\ latest # NoStatement /\ s.checkpoint.seq > latest.checkpoint.seq
        \/ s.kind = "retirement" /\ latest # NoStatement /\ s.checkpoint # latest.checkpoint
        \/ s.kind = "retirement" /\ \E t \in walked : t.index > s.index

ChainBroken(in, trail) ==
    LET walked == Walked(in, trail)
    IN  \/ in.resume # NoContinuation /\ ContinuationBroken(in.resume.last, in.resume.latest)
        \/ in.resume = NoContinuation /\ walked = {}
        \/ in.resume.last.kind = "retirement" /\ walked # {}
        \/ \E s \in walked : StatementBroken(in, walked, s)

(* read: a set in which a statement failed is not walked.                  *)
ReadFindings(in, trail) ==
    LET first == StatementFindings(in, trail)
    IN  IF first # {} THEN first
        ELSE {f \in {"witness-chain-broken"} : ChainBroken(in, trail)}
               \cup {f \in {"witness-head-unreached"} : HeadUnreached(in, trail)}
               \cup {f \in {"witness-head-behind"} : HeadBehind(in)}

(* Every checkpoint statement that verified, credited or not.              *)
Verified(in, trail) == {s \in Passing(in, trail) : s.kind = "checkpoint"}

(* What a clean reading ends with.                                         *)
LastRead(in, trail) ==
    LET walked == Walked(in, trail)
    IN  IF walked = {} THEN Before(in)
        ELSE CHOOSE s \in walked : \A t \in walked : t.index <= s.index

LatestRead(in, trail) ==
    LatestBefore(in, Walked(in, trail), LastRead(in, trail).index + 1)

-----------------------------------------------------------------------------
(* The report of checkpoints and statements: held is a set of checkpoints  *)
(* and readings has what was read of a witness's statements, if anything.  *)

Trail(b) == IF ChainedRecords(b) = {} THEN NoTrail ELSE HeadOf(b).trail

Reads(b, readings) == UNION {ReadFindings(in, Trail(b)) : in \in readings}

(* The checkpoints statements verified, which are held to the trail with   *)
(* the others, and those a reading with no finding credits.                *)
Stated(b, readings) ==
    {s.checkpoint : s \in UNION {Verified(in, Trail(b)) : in \in readings}}

Found(b, held, readings) == TrailFindings(b) \cup HeldFindings(b, held \cup Stated(b, readings))

(* countersigned_through, and witnessed_through.                           *)
Countersigned(b, held, readings) ==
    IF Reads(b, readings) # {} THEN 0
    ELSE Reach(Matched(b, Stated(b, readings)), Found(b, held, readings))

Through(b, held, readings) ==
    Max({Reach(Matched(b, held), Found(b, held, readings)), Countersigned(b, held, readings)})

(* A report with no finding: what it was told to require is reached too.   *)
NoFinding(b, held, readings, require, requireSigned) ==
    /\ Reads(b, readings) = {} /\ Found(b, held, readings) = {}
    /\ require > 0 => Through(b, held, readings) >= require
    /\ requireSigned > 0 => Countersigned(b, held, readings) >= requireSigned

(* What is saved for the next reading: nothing, unless nothing was found.  *)
Continuation(b, held, in, require, requireSigned) ==
    IF NoFinding(b, held, {in}, require, requireSigned)
    THEN [last |-> LastRead(in, Trail(b)), latest |-> LatestRead(in, Trail(b))]
    ELSE NoContinuation

-----------------------------------------------------------------------------
(* Stamps: [checkpoint, by, trusted], the time a token says the checkpoint *)
(* existed by and whether it verifies under the reader's roots.            *)

StampMismatches(b, stamps) ==
    {<<"stamp-checkpoint-mismatch", s.checkpoint.seq>> :
        s \in {t \in stamps : t.trusted /\ HoldCheckpoint(b, t.checkpoint) # "none"}}

(* Mutant: a finding before a stamp's record does not stop it.             *)
LendsPast(b, stamps) ==
    {s \in stamps : s.trusted /\ HoldCheckpoint(b, s.checkpoint) = "none"}

(* The stamps that lend their time to the records up to their checkpoint.  *)
Lends(b, stamps) ==
    LET found == TrailFindings(b) \cup StampMismatches(b, stamps)
    IN  {s \in stamps : /\ s.trusted /\ HoldCheckpoint(b, s.checkpoint) = "none"
                        /\ Clear(found, s.checkpoint.seq)}

(* coverage: how far the stamps reach, and the time the record at a        *)
(* sequence is covered by.                                                 *)
StampedThrough(b, stamps) == Max({0} \cup {s.checkpoint.seq : s \in Lends(b, stamps)})

CoveredBy(b, stamps, seq) ==
    Min({s.by : s \in {t \in Lends(b, stamps) : t.checkpoint.seq >= seq}})
=============================================================================
