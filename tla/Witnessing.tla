----------------------------- MODULE Witnessing -----------------------------
(***************************************************************************)
(* `audit checkpoint` and `audit verify` beside a trail that is appended   *)
(* to, torn, repaired, cut and altered: a deliverer pages checkpoints to a *)
(* holder, a witness signs those submitted to it, and readers verify the   *)
(* trail against both, in steps that each continue from what an earlier    *)
(* reading saved.  The readers share one continuation file and nothing     *)
(* serialises them.                                                        *)
(*                                                                         *)
(* The witness is external: another party's service, known only by the     *)
(* statements a reading accepts.  It may sign a second statement after     *)
(* any it has signed.  How the trail is appended to is TrailWriter's.      *)
(***************************************************************************)
EXTENDS AlteredTrail, TLC

CONSTANTS
    Reader,         \* the verifications
    WitnessKeys,    \* the keys the witness signs with
    Page,           \* the most checkpoints one listing gives
    MaxSigned       \* bound: statements signed

ASSUME PageAssumption == Page \in Nat

(* A continuation's two and one more can be read.                          *)
ASSUME BoundAssumption == StatementBound \in Nat /\ StatementBound >= 3

VARIABLES
    stood,      \* what the trail was when each checkpoint was given
    held,       \* the checkpoints the holder kept
    after,      \* the last sequence the deliverer received
    signed,     \* the statements the witness signed
    saved,      \* the continuation file
    reader      \* each verification's progress

vars == <<file, stood, held, after, signed, saved, reader>>

Waiting == [pc |-> "start", resume |-> NoContinuation, next |-> NoContinuation, same |-> TRUE]

Init ==
    /\ FileInit
    /\ stood = {} /\ held = {} /\ after = 0
    /\ signed = {}
    /\ saved = NoContinuation
    /\ reader = [r \in Reader |-> Waiting]

-----------------------------------------------------------------------------
Unattested == UNCHANGED <<stood, held, after, signed, saved, reader>>

AppendRecord == Grow /\ Unattested
TearRecord == Tear /\ Unattested
RepairTrail == Mend /\ Unattested
AlterTrail == Alter /\ Unattested

-----------------------------------------------------------------------------
(* `audit checkpoint`: a trail with a finding is given none.               *)

Given(cs) == {[checkpoint |-> c, lines |-> UpTo(trail, c.seq)] : c \in cs}

(* With --since: the deliverer asks after the last sequence it received.   *)
Deliver ==
    /\ CleanHead(trail) # None
    /\ LET page == Listed(trail, after, Page)
           cs == {CheckpointOf(trail, i) : i \in page}
       IN  /\ page # {}
           /\ held' = held \cup cs
           /\ after' = Max(page)
           /\ stood' = stood \cup Given(cs)
    /\ UNCHANGED <<file, signed, saved, reader>>

(* External: the witness signs a checkpoint it was handed, late or out of  *)
(* order, after any statement it signed.  One that is not above the latest *)
(* is a conflict.                                                          *)
GoesBack(C) == \A t \in C : t.prev # NoStatement => t.prev \in C

(* The statements from one back to its first.                              *)
Chain(s) == {t \in signed : \A C \in SUBSET signed : s \in C /\ GoesBack(C) => t \in C}

Latest(s) ==
    CHOOSE t \in Chain(s) :
        /\ t.kind = "checkpoint"
        /\ \A u \in Chain(s) : u.kind = "checkpoint" => u.index <= t.index

Sign(kind, prev, checkpoint) ==
    \E key \in IF prev # NoStatement /\ \A s \in signed : s.key \in TrustedKeys
               THEN WitnessKeys ELSE TrustedKeys :
        signed' = signed \cup
            {[kind |-> kind, index |-> prev.index + 1, prev |-> prev,
              key |-> key, checkpoint |-> checkpoint]}

Submit ==
    /\ Cardinality(signed) < MaxSigned
    /\ \E c \in held :
         \/ Sign("checkpoint", NoStatement, c)
         \/ \E s \in signed :
              /\ s.kind # "retirement"
              /\ LET top == Latest(s).checkpoint
                 IN  \/ c.seq > top.seq /\ Sign("checkpoint", s, c)
                     \/ c.seq <= top.seq /\ c # top /\ Sign("conflict", s, c)
    /\ signed' # signed
    /\ UNCHANGED <<file, stood, held, after, saved, reader>>

Retire ==
    /\ Cardinality(signed) < MaxSigned
    /\ \E s \in signed :
         s.kind # "retirement" /\ Sign("retirement", s, Latest(s).checkpoint)
    /\ signed' # signed
    /\ UNCHANGED <<file, stood, held, after, saved, reader>>

-----------------------------------------------------------------------------
(* `audit verify` with a witness's statements.                             *)

Moves(r, state) ==
    /\ reader' = [reader EXCEPT ![r] = state]
    /\ UNCHANGED <<file, stood, held, after, signed, saved>>

(* What a reading can be given.                                            *)
Inputs(resume) ==
    {in \in [lines : (SUBSET signed) \cup {{Garbled}}, head : signed \cup {NoStatement},
             resume : {NoContinuation, resume}] : ~ PrepareRefuses(in)}

(* readWitnessOptions: the continuation is read before the trail is        *)
(* opened.                                                                 *)
ReadContinuation(r) ==
    /\ reader[r].pc = "start"
    /\ \E resume \in {NoContinuation, saved} :
         Moves(r, [Waiting EXCEPT !.pc = "open", !.resume = resume])

(* openTrailFiles gives the bytes of a moment between two writes;          *)
(* checkContinuationTarget remembers which file a continuation is to       *)
(* replace; and the trail is verified, against any of the statements there *)
(* are.  One with a finding saves nothing.                                 *)
OpenAndVerify(r) ==
    /\ reader[r].pc = "open"
    /\ LET resuming == {in \in Inputs(reader[r].resume) : in.resume = reader[r].resume}
       IN  \E next \in {Continuation(trail, {}, in, 0, 0) : in \in resuming} :
             Moves(r, IF next = NoContinuation THEN Waiting
                      ELSE [Waiting EXCEPT !.pc = "save", !.next = next])

(* stillAsChecked: nothing is saved over a file that is not the one        *)
(* checked.                                                                *)
StillAsChecked(r) ==
    /\ reader[r].pc = "save"
    /\ Moves(r, IF reader[r].same THEN [reader[r] EXCEPT !.pc = "rename"] ELSE Waiting)

(* The rename is a call of its own; the file it puts in place is not the   *)
(* one any other reading checked.                                          *)
Rename(r) ==
    /\ reader[r].pc = "rename"
    /\ saved' = reader[r].next
    /\ reader' = [q \in Reader |->
                    IF q = r THEN Waiting
                    ELSE IF reader[q].pc = "save" THEN [reader[q] EXCEPT !.same = FALSE]
                    ELSE reader[q]]
    /\ UNCHANGED <<file, stood, held, after, signed>>

Next ==
    \/ AppendRecord \/ TearRecord \/ RepairTrail \/ AlterTrail \/ Deliver \/ Submit \/ Retire
    \/ \E r \in Reader : \/ ReadContinuation(r) \/ OpenAndVerify(r)
                         \/ StillAsChecked(r) \/ Rename(r)

Spec == Init /\ [][Next]_vars

-----------------------------------------------------------------------------
(* Properties.                                                             *)

(* The trail a checkpoint was given for.                                   *)
LinesAt(c) == {s.lines : s \in {t \in stood : t.checkpoint = c}}

(* What a report establishes is so, given the held checkpoints or any of   *)
(* the statements: the lines up to the sequence it says are witnessed or   *)
(* countersigned are the ones that were there when that checkpoint was     *)
(* listed, whatever was cut or altered since; and a report with no finding *)
(* agrees with every checkpoint supplied.                                  *)
Sound(some, readings) ==
    LET given == some \cup Stated(trail, readings)
        through == Through(trail, some, readings)
        same(c) == \A lines \in LinesAt(c) : lines = UpTo(trail, c.seq)
    IN  /\ through > 0 => \E c \in given : c.seq = through /\ same(c)
        /\ NoFinding(trail, some, readings, 0, 0) => \A c \in given : same(c)

AttestedLines ==
    (\A r \in Reader : reader[r] = Waiting) =>
        /\ Sound(held, {})
        /\ \A in \in Inputs(saved) : Sound({}, {in})

(* A record's checkpoint reaches the holder exactly once, in pages, and    *)
(* none is missed: while the trail was only appended to and repaired, the  *)
(* holder has the checkpoint of every chained record up to the last        *)
(* sequence the deliverer received.                                        *)
EveryRecordDelivered ==
    changes = 0 =>
        held = {CheckpointOf(trail, i) : i \in {j \in ChainedRecords(trail) : j <= after}}

(* "A longer chain is read in steps": the continuation file always holds   *)
(* what one whole reading of one chain would, though two readers save over *)
(* one another: every statement from the first to its last was signed by a *)
(* key supplied, and its checkpoint statement is the latest of them.  And  *)
(* no step is the last: the statement after it can be read on its own, and *)
(* the reading saves a continuation that ends with it, while the trail was *)
(* only appended to and has no finding.                                    *)
WholeChain(continuation) ==
    LET chain == Chain(continuation.last)
    IN  /\ {s.index : s \in chain} = 0 .. continuation.last.index
        /\ \A s \in chain : s.key \in TrustedKeys
        /\ continuation.latest \in chain /\ continuation.latest.kind = "checkpoint"
        /\ \A s \in chain : s.kind = "checkpoint" => s.index <= continuation.latest.index

Continues(continuation, s) ==
    LET in == [lines |-> {s}, head |-> NoStatement, resume |-> continuation]
    IN  /\ ~ PrepareRefuses(in)
        /\ Continuation(trail, held, in, 0, 0).last = s

SavedReadsWhole ==
    saved # NoContinuation =>
        /\ WholeChain(saved)
        /\ changes = 0 /\ TrailFindings(trail) = {} =>
               \A s \in signed : s.prev = saved.last /\ s.key \in TrustedKeys => Continues(saved, s)
=============================================================================
