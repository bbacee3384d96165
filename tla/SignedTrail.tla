---------------------------- MODULE SignedTrail ----------------------------
(***************************************************************************)
(* The signature sidecar beside the trail (internal/audit sign.go): after  *)
(* its bytes are written and synced, and before it gives the lock back, a  *)
(* writer that holds a key signs each chained line it appended, and Rotate *)
(* hands the signing over to another key.  The sidecar has no lock of its  *)
(* own: the trail's lock orders it.  A signature that cannot be written    *)
(* leaves its record unsigned and the append reported written.             *)
(*                                                                         *)
(* The trail is not moved aside here (the operator who does moves its      *)
(* sidecar with it while nothing runs), so one sidecar stands beside one   *)
(* trail.  A missing sidecar and an empty one answer alike.                *)
(***************************************************************************)
EXTENDS TrailWriter, FiniteSetsExt

CONSTANTS
    NoKey,      \* a writer that was given no key
    Key,        \* each writer's signing key
    NextKey     \* the key a rotation hands over to

VARIABLES
    side,       \* the sidecar's bytes, split at its newlines as a trail's are
    sideDur,    \* the part of them a power loss cannot take back
    spc,        \* the next step of a writer that is signing
    sdata       \* the bytes it appends to the sidecar

sideVars == <<side, sideDur, spc, sdata>>
allVars == <<vars, sideVars>>

ASSUME KeyAssumption ==
    \A w \in Writer : Op[w] = "rotate" => Key[w] # NoKey /\ NextKey[w] # Key[w]

-----------------------------------------------------------------------------
(* The sidecar's lines.                                                    *)

(* SignRecordLine: binds the trail, the sequence and the digest of a line. *)
SignatureLine(w, line) ==
    << [len |-> Body, kind |-> "signature", key |-> Key[w],
        trail |-> line[1].trail, seq |-> line[1].seq,
        rec |-> LineDigest(line), next |-> NoKey] >>

(* RotationLine: after the trail's last line.                              *)
RotationLine(w, b) ==
    << [len |-> Body, kind |-> "rotation", key |-> Key[w],
        trail |-> TrailHead(b).trail, seq |-> TrailHead(b).at,
        rec |-> Empty, next |-> NextKey[w]] >>

(* tornLineEnd: one byte no JSON text ends with, before the newline.       *)
TornLineEnd ==
    << [len |-> 1, kind |-> "torn-line-end", key |-> NoKey, trail |-> NoTrail,
        seq |-> 0, rec |-> Empty, next |-> NoKey] >>

(* parseSidecarLine, of a line a newline ends.                             *)
Readable(line) ==
    /\ Len(line) = 1 /\ line[1].len = Body
    /\ line[1].kind \in {"signature", "rotation"} /\ line[1].seq >= 1

(* The readable lines, by their place in the sidecar: what the writer and  *)
(* the verifier read.                                                      *)
Items(sc) == {n \in 1 .. LineCount(sc) : Readable(sc[n])}

(* Mutant: a rotation is read as a line of the key that wrote it.          *)
KeyInForceUnrotated(sc, key) ==
    Items(sc) # {} => sc[Max(Items(sc))][1].key = key

(* keyInForce: the last readable line decides.                             *)
KeyInForce(sc, key) ==
    Items(sc) # {} =>
        LET last == sc[Max(Items(sc))][1]
        IN  (IF last.kind = "rotation" THEN last.next ELSE last.key) = key

(* The chained lines of some bytes, by their place, and the k-th of them.  *)
ChainedAt(b) == {n \in DOMAIN b : ChainedLine(b[n])}

Nth(places, k) ==
    CHOOSE n \in places : Cardinality({m \in places : m <= n}) = k

(* signLines and Rotate: what goes into the sidecar.                       *)
LinesToSign(w) ==
    IF Op[w] = "rotate" THEN << RotationLine(w, file[at[w]]) >>
    ELSE [k \in 1 .. Cardinality(ChainedAt(data[w])) |->
             SignatureLine(w, data[w][Nth(ChainedAt(data[w]), k)])]

(* appendSidecar: a torn last line is ended first, and stays unreadable.   *)
SidecarBytes(w) ==
    (IF TailOf(side) # << >> THEN << TornLineEnd >> ELSE << >>)
        \o LinesToSign(w) \o << << >> >>

-----------------------------------------------------------------------------

SignedInit ==
    /\ Init
    /\ side = Empty /\ sideDur = Empty
    /\ spc = [w \in Writer |-> "idle"]
    /\ sdata = [w \in Writer |-> Empty]

Signs(w) == Key[w] # NoKey /\ Locked(w)

(* Mutant: a failure to sign fails the append.                             *)
EndSigningFailing(w, why) ==
    /\ pc[w] = "then" /\ Goto(w, "unlock")
    /\ err' = [err EXCEPT ![w] = why]
    /\ spc' = [spc EXCEPT ![w] = "idle"]
    /\ sdata' = [sdata EXCEPT ![w] = Empty]
    /\ UNCHANGED <<disk, holder, at, tries, data, shown, env>>

(* The signing step ends, and the writer goes on to unlock.  Only a        *)
(* rotation reports its failure.                                           *)
EndSigning(w, why) ==
    /\ pc[w] = "then" /\ Goto(w, "unlock")
    /\ err' = IF Op[w] = "rotate" THEN [err EXCEPT ![w] = why] ELSE err
    /\ spc' = [spc EXCEPT ![w] = "idle"]
    /\ sdata' = [sdata EXCEPT ![w] = Empty]
    /\ UNCHANGED <<disk, holder, at, tries, data, shown, env>>

(* signThen of a writer without a key, or without the lock.                *)
SignNothing(w) ==
    /\ ~ Signs(w) /\ Op[w] # "rotate"
    /\ Then(w)
    /\ UNCHANGED sideVars

(* The sidecar is opened and its end read for the key in force.            *)
ReadSidecar(w) ==
    /\ pc[w] = "then" /\ spc[w] = "idle" /\ Signs(w)
    /\ KeyInForce(side, Key[w])
    /\ sdata' = [sdata EXCEPT ![w] = SidecarBytes(w)]
    /\ spc' = [spc EXCEPT ![w] = "write"]
    /\ UNCHANGED <<vars, side, sideDur>>

KeyRefused(w) ==
    /\ spc[w] = "idle" /\ Signs(w)
    /\ ~ KeyInForce(side, Key[w])
    /\ EndSigning(w, "key-not-in-force")
    /\ UNCHANGED <<side, sideDur>>

(* AppendSynced, and the ways it fails.                                    *)
WriteSidecar(w) ==
    /\ pc[w] = "then" /\ spc[w] = "write"
    /\ side' = Concat(side, sdata[w])
    /\ spc' = [spc EXCEPT ![w] = "sync"]
    /\ UNCHANGED <<vars, sideDur, sdata>>

WriteSidecarShort(w) ==
    /\ spc[w] = "write"
    /\ LET whole == Concat(side, sdata[w])
       IN  \E sc \in Between(side, whole) \ {whole} : side' = sc
    /\ EndSigning(w, "io")
    /\ UNCHANGED sideDur

(* Mutant: the sidecar is not synced.                                      *)
SyncSidecarSkipped(w) ==
    /\ spc[w] = "sync"
    /\ EndSigning(w, "none")
    /\ UNCHANGED <<side, sideDur>>

SyncSidecar(w) ==
    /\ spc[w] = "sync"
    /\ sideDur' = side
    /\ EndSigning(w, "none")
    /\ UNCHANGED side

SidecarError(w) ==
    /\ pc[w] = "then" /\ Signs(w)
    /\ EndSigning(w, "io")
    /\ UNCHANGED <<side, sideDur>>

SignStep(w) ==
    \/ SignNothing(w) \/ ReadSidecar(w) \/ KeyRefused(w)
    \/ WriteSidecar(w) \/ WriteSidecarShort(w) \/ SyncSidecar(w)
    \/ SidecarError(w)

(* A crash leaves what was written; a power loss may take back an end of   *)
(* the sidecar as it may of the trail, and all of it with the directory.   *)
SignedCrash(w) ==
    /\ Crash(w)
    /\ spc' = [spc EXCEPT ![w] = "idle"]
    /\ sdata' = [sdata EXCEPT ![w] = Empty]
    /\ UNCHANGED <<side, sideDur>>

SignedPowerLoss ==
    /\ PowerLoss
    /\ \E sc \in Between(sideDur, side) : side' = IF dir'.made THEN sc ELSE Empty
    /\ sideDur' = side'
    /\ spc' = [w \in Writer |-> "idle"]
    /\ sdata' = [w \in Writer |-> Empty]

SignedNext ==
    \/ \E w \in Writer :
        \/ Step(w) /\ UNCHANGED sideVars
        \/ ShowDamage(w) /\ UNCHANGED sideVars
        \/ SignStep(w)
        \/ SignedCrash(w)
    \/ SignedPowerLoss

SignedSpec == SignedInit /\ [][SignedNext]_allVars

(* The trail under signing writers is the trail of TrailWriter: signing is *)
(* what its Then step stands for, and changes nothing else of it.          *)
TrailSpec == Init /\ [][Next]_vars

-----------------------------------------------------------------------------
(* The verifier's reading of a sidecar sc beside a trail b, given the key  *)
(* the sidecar begins with.                                                *)

(* A line's place among the trail's lines.                                 *)
Place(item) == IF item.kind = "rotation" THEN 2 * item.seq + 1 ELSE 2 * item.seq

(* Item n is behind an item read before it.                                *)
OutOfOrder(sc, n) ==
    \E m \in Items(sc) :
        /\ m < n
        /\ \/ Place(sc[n][1]) < Place(sc[m][1])
           \/ sc[n][1].kind = "signature" /\ Place(sc[n][1]) = Place(sc[m][1])

(* checkRecord and checkRotation, but for the key: the item's line is      *)
(* there, chained, not damaged, of its trail and of its digest; a rotation *)
(* is of the trail's last chained line up to its own.                      *)
NamesRecord(b, item) ==
    /\ item.seq <= LineCount(b)
    /\ ChainedLine(b[item.seq]) /\ ~ Damaged(b, item.seq)
    /\ b[item.seq][1].trail = item.trail
    /\ LineDigest(b[item.seq]) = item.rec

NamesTrail(b, item) ==
    /\ item.seq <= LineCount(b)
    /\ \E k \in 1 .. item.seq :
        /\ ChainedLine(b[k]) /\ ~ Damaged(b, k)
        /\ \A m \in k + 1 .. item.seq : ~ ChainedLine(b[m]) \/ Damaged(b, m)
        /\ b[k][1].trail = item.trail

(* The key in force before item n: the last rotation's before it, or the   *)
(* one the sidecar begins with.                                            *)
KeyBefore(sc, n) ==
    LET turns == {m \in Items(sc) : m < n /\ sc[m][1].kind = "rotation"}
    IN  IF turns = {} THEN sc[Min(Items(sc))][1].key ELSE sc[Max(turns)][1].next

SidecarFindings(b, sc) ==
    {n \in Items(sc) :
        \/ OutOfOrder(sc, n)
        \/ sc[n][1].key # KeyBefore(sc, n)
        \/ sc[n][1].kind = "signature" /\ ~ NamesRecord(b, sc[n][1])
        \/ sc[n][1].kind = "rotation" /\ ~ NamesTrail(b, sc[n][1])}

-----------------------------------------------------------------------------
(* Properties.                                                             *)

(* The sidecar never says more than the trail holds: whatever was cut      *)
(* short, crashed, rotated or lost in a power failure, the verifier finds  *)
(* nothing wrong with any of its lines.  Each signature names a record     *)
(* that is in the trail, with its bytes; the lines are in the trail's      *)
(* order; and after a rotation only the next key signs.                    *)
SidecarVerifies ==
    \A f \in Files : f = dir.trail => SidecarFindings(file[f], side) = {}

(* A rotation that was reported done stays done: its line is readable in   *)
(* the sidecar, so the old key signs nothing more.                         *)
RotationKept ==
    \A w \in Writer :
        Op[w] = "rotate" /\ pc[w] = "end" /\ err[w] = "none" =>
            \E n \in Items(side) :
                LET item == side[n][1] IN
                item.kind = "rotation" /\ item.key = Key[w] /\ item.next = NextKey[w]
=============================================================================
