---------------------------- MODULE TrailProofs ----------------------------
(* What holds of the audit trail's writers for every set of writers and    *)
(* inodes, every batch size, every number of crashes, moves and losses.    *)
EXTENDS TrailWriter, TrailChainProofs

(* What compose answers.                                                   *)
LEMMA ComposedType ==
    ASSUME TypeOK, NEW w \in Writer, NEW b \in Bytes
    PROVE  /\ Composed(w, b).data \in Bytes
           /\ Composed(w, b).err \in Errors
           /\ Composed(w, b) = [err |-> Composed(w, b).err,
                                data |-> Composed(w, b).data]
  <1> DEFINE recs == Batch(w, Size[w], Big[w])
  <1>1. w \in Author /\ Size[w] \in Nat /\ Big[w] \in BOOLEAN
    BY WriterAssumption
  <1>2. recs \in Seq(Piece)
    BY <1>1, BatchType
  <1>3. EncodeLines(recs) \in Bytes
    BY <1>2, EncodeLinesType
  <1>4. EncodeLines(ChainAfter(recs, ReadHead(b, w))) \in Bytes
    <2>1. /\ ReadHead(b, w).trail \in Author /\ ReadHead(b, w).seq \in Nat
          /\ ReadHead(b, w).prev \in Digests
      BY <1>1, ReadHeadType
    <2>2. ChainAfter(recs, ReadHead(b, w)) \in Seq(Piece)
      BY <1>2, <2>1, ChainAfterType
    <2> QED BY <2>2, EncodeLinesType
  <1> HIDE DEF recs
  <1>5. << << >>, << Discontinuity(w, b) >>, << >> >> \in Bytes
    BY <1>1, DiscontinuityType
  <1>6. \A c : HeadRefusal(c) \in Errors
    BY DEF HeadRefusal, Errors, Refusals
  <1>7. Empty \in Bytes
    BY EmptyType
  <1> DEFINE Ok(r) == /\ r.data \in Bytes /\ r.err \in Errors
                      /\ r = [err |-> r.err, data |-> r.data]
  <1>8. \A why \in Errors : Ok(Refuse(why))
    BY <1>7 DEF Refuse
  <1>9. \A d \in Bytes : Ok(Give(d))
    BY DEF Give, Errors
  <1>10. /\ "record-too-large" \in Errors /\ "repair-needs-lock" \in Errors
         /\ "nothing-to-repair" \in Errors /\ "tail-changed" \in Errors
         /\ "oversized-line" \in Errors /\ "repair-discontinuity" \in Errors
         /\ "rotation-no-trail" \in Errors
    BY DEF Errors, Refusals
  <1> HIDE DEF Ok
  <1>11. \A l \in BOOLEAN : Ok(ChainedLines(b, recs, l, w))
    BY <1>3, <1>4, <1>6, <1>8, <1>9, <1>10 DEF ChainedLines
  <1>12. \A l \in BOOLEAN : Ok(RotateLines(b, l))
    BY <1>6, <1>7, <1>8, <1>9, <1>10 DEF RotateLines
  <1>13. \A l \in BOOLEAN, k \in BOOLEAN : Ok(RepairLines(b, w, l, k, shown[w]))
    BY <1>5, <1>6, <1>8, <1>9, <1>10 DEF RepairLines
  <1>14. Locked(w) \in BOOLEAN
    BY DEF Locked
  <1>15. Ok(Composed(w, b))
    BY <1>11, <1>12, <1>13, <1>14 DEF Composed, recs
  <1> QED BY <1>15 DEF Ok

(* Contents a file can be left with are contents.                          *)
LEMMA BetweenType ==
    ASSUME NEW lo, NEW hi \in Bytes, NEW b \in Between(lo, hi)
    PROVE  b \in Beginnings(hi) /\ b \in Bytes
  <1>1. b \in Beginnings(hi)
    BY DEF Between
  <1> QED BY <1>1, BeginningsType


(* A power loss leaves of every file a beginning of it.                    *)
LEMMA LossFiles ==
    ASSUME TypeOK, PowerLoss
    PROVE  /\ file' \in [Files -> Bytes]
           /\ \A f \in Files : file'[f] = file[f] \/ file'[f] \in Beginnings(file[f])
  <1> DEFINE dirty == {f \in Files : file[f] # durable[f]}
             left == UNION {Between(durable[f], file[f]) : f \in dirty}
  <1>1. PICK found \in [dirty -> left] :
            /\ \A f \in dirty : found[f] \in Between(durable[f], file[f])
            /\ file' = [f \in Files |-> IF f \in dirty THEN found[f] ELSE file[f]]
    BY Zenon DEF PowerLoss
  <1>2. ASSUME NEW f \in dirty
        PROVE  found[f] \in Beginnings(file[f]) /\ found[f] \in Bytes
    <2>1. file[f] \in Bytes
      BY DEF TypeOK
    <2>2. found[f] \in Between(durable[f], file[f])
      BY <1>1
    <2> QED BY <2>1, <2>2, BetweenType
  <1> HIDE DEF left
  <1> QED BY <1>1, <1>2 DEF TypeOK

-----------------------------------------------------------------------------
(* Type correctness.                                                       *)

LEMMA LegacyLines ==
    /\ LegacyTrail \in Bytes /\ Len(LegacyTrail) = Legacy + 1 /\ Legacy \in Nat
    /\ \A n \in 1 .. Legacy : LegacyTrail[n] = << Unchained(Old, n, 1, FALSE) >>
    /\ LegacyTrail[Legacy + 1] = << >>
  <1> DEFINE recs == [i \in 1 .. Legacy |-> Unchained(Old, i, 1, FALSE)]
  <1>1. Old \in Author /\ Legacy \in Nat
    BY WriterAssumption
  <1>2. \A i \in 1 .. Legacy : Unchained(Old, i, 1, FALSE) \in Piece
    BY <1>1, EmptyType, BodyAssumption DEF Unchained, Piece, Kinds, Trails
  <1>3. recs \in [1 .. Legacy -> Piece]
    BY <1>2
  <1>4. recs \in Seq(Piece) /\ Len(recs) = Legacy
    BY <1>1, <1>3, SeqOfFun
  <1>5. /\ LegacyTrail \in Bytes /\ Len(LegacyTrail) = Legacy + 1
        /\ \A n \in 1 .. Legacy : LegacyTrail[n] = << recs[n] >>
        /\ LegacyTrail[Legacy + 1] = << >>
    BY <1>4, EncodeLinesType DEF LegacyTrail
  <1> QED BY <1>1, <1>5

LEMMA LegacyTrailType ==
    /\ LegacyTrail \in Bytes
    /\ WellLinked(LegacyTrail)
  <1> DEFINE p(n) == Unchained(Old, n, 1, FALSE)
  <1>5. /\ LegacyTrail \in Bytes /\ Len(LegacyTrail) = Legacy + 1 /\ Legacy \in Nat
        /\ \A n \in 1 .. Legacy : LegacyTrail[n] = << p(n) >>
        /\ LegacyTrail[Legacy + 1] = << >>
    BY LegacyLines
  <1>6. ASSUME NEW n \in DOMAIN LegacyTrail
        PROVE  /\ Len(LegacyTrail[n]) <= 1 /\ ~ Oversized(LegacyTrail[n])
               /\ DiscontinuityKind(LegacyTrail[n]) => ChainedLine(LegacyTrail[n])
               /\ Linked(LegacyTrail, n)
    <2>1. n \in 1 .. Legacy + 1
      BY <1>5 DEF Bytes
    <2>2. CASE n = Legacy + 1
      BY <1>5, <2>2, EmptyLineLinked
    <2>3. CASE n \in 1 .. Legacy
      <3>1. LegacyTrail[n] = << p(n) >>
        BY <1>5, <2>3
      <3>2. Len(LegacyTrail[n]) = 1 /\ LegacyTrail[n][1] = p(n) /\ DOMAIN LegacyTrail[n] = {1}
        BY <3>1, OnePiece, Zenon
      <3>3. p(n).trail = NoTrail /\ p(n).kind = "record" /\ p(n).over = FALSE
        BY DEF Unchained
      <3> HIDE DEF p
      <3> QED BY <3>2, <3>3
          DEF Oversized, DiscontinuityKind, ChainedLine, WholeRecord, Linked
    <2> QED BY <1>5, <2>1, <2>2, <2>3
  <1> QED BY <1>5, <1>6 DEF WellLinked

LEMMA EmptyLinked == WellLinked(Empty)
  <1>1. DOMAIN Empty = {1} /\ Empty[1] = << >>
    BY DEF Empty
  <1> QED BY <1>1, EmptyLineLinked DEF WellLinked

LEMMA NoDirType == NoDir \in Dirs
  <1>1. {} \in SUBSET Files /\ FALSE \in BOOLEAN
    OBVIOUS
  <1> QED BY <1>1 DEF NoDir, Dirs

LEMMA TypeInit == Init => TypeOK
  <1> SUFFICES ASSUME Init PROVE TypeOK
    OBVIOUS
  <1>1. dir \in Dirs
    <2>1. CASE DirMade
      <3>1. PICK f \in Files \cup {NoFile} :
                dir = [made |-> TRUE, trail |-> f, aside |-> {}]
        BY <2>1 DEF Init
      <3> QED BY <3>1 DEF Dirs
    <2>2. CASE ~ DirMade
      BY <2>2, NoDirType DEF Init
    <2> QED BY <2>1, <2>2
  <1>2. file \in [Files -> Bytes]
    BY LegacyTrailType, EmptyType DEF Init
  <1> QED BY <1>1, <1>2, EmptyType, WriterAssumption
      DEF Init, TypeOK, Steps, OpenSteps, Errors

(* Failing keeps the types: the call has a reason and goes to its end.     *)
LEMMA FailType ==
    ASSUME TypeOK, NEW w \in Writer, NEW why \in Errors, Fail(w, why)
    PROVE  /\ err' \in [Writer -> Errors] /\ pc' \in [Writer -> Steps]
           /\ pc' = [pc EXCEPT ![w] = pc'[w]]
           /\ pc'[w] \in {"unlock", "end"}
           /\ pc'[w] = "unlock" => at[w] \in Files
  BY DEF TypeOK, Fail, Goto, Locked, Steps, OpenSteps

LEMMA TypeStep == TypeOK /\ [Next]_vars => TypeOK'
  <1> SUFFICES ASSUME TypeOK, [Next]_vars PROVE TypeOK'
    OBVIOUS
  <1>1. ASSUME NEW w \in Writer, BeginAppend(w) PROVE TypeOK'
    <2>1. dir' \in Dirs
      BY <1>1 DEF BeginAppend, TypeOK, Dirs
    <2> QED BY <1>1, <2>1 DEF BeginAppend, TypeOK, Goto, call, env, Steps, OpenSteps
  <1>2. ASSUME NEW w \in Writer, ShowDamage(w) PROVE TypeOK'
    <2>1. LineDigest(TailOf(file[dir.trail])) \in Digests
      <3>1. dir.trail \in Files
        BY <1>2 DEF ShowDamage, TypeOK, Dirs
      <3>2. file[dir.trail] \in Bytes
        BY <3>1 DEF TypeOK
      <3>3. TailOf(file[dir.trail]) \in Line
        BY <3>2 DEF TailOf, Bytes
      <3> QED BY <3>3, LineDigestType
    <2> QED BY <1>2, <2>1 DEF ShowDamage, TypeOK, Goto, disk, env, Steps, OpenSteps
  <1>3. ASSUME NEW w \in Writer, BeginRepair(w) PROVE TypeOK'
    <2>1. CASE pc' = [pc EXCEPT ![w] = "open"] /\ err' = err
      BY <1>3, <2>1 DEF BeginRepair, TypeOK, disk, env, Steps, OpenSteps
    <2>2. CASE \E why \in Errors : Fail(w, why)
      <3>1. /\ err' \in [Writer -> Errors] /\ pc' \in [Writer -> Steps]
            /\ pc' = [pc EXCEPT ![w] = pc'[w]]
            /\ pc'[w] \in {"unlock", "end"}
            /\ pc'[w] = "unlock" => at[w] \in Files
        BY <2>2, FailType
      <3>2. pc[w] # "end"
        BY <1>3 DEF BeginRepair
      <3> QED BY <1>3, <3>1, <3>2 DEF BeginRepair, TypeOK, disk, env, Steps, OpenSteps
    <2> QED BY <1>3, <2>1, <2>2 DEF BeginRepair, Goto, Errors, Refusals
  <1>4. ASSUME NEW w \in Writer, OpenExisting(w) PROVE TypeOK'
    <2>1. dir.trail \in Files
      BY <1>4 DEF OpenExisting, TypeOK, Dirs
    <2> QED BY <1>4, <2>1 DEF OpenExisting, TypeOK, Goto, disk, env, Steps, OpenSteps
  <1>5. ASSUME NEW w \in Writer, OpenCreating(w) PROVE TypeOK'
    <2>1. PICK f \in Unused :
            /\ dir' = [dir EXCEPT !.trail = f]
            /\ file' = [file EXCEPT ![f] = Empty]
            /\ durable' = [durable EXCEPT ![f] = Empty]
            /\ at' = [at EXCEPT ![w] = f]
      BY <1>5 DEF OpenCreating
    <2>2. f \in Files
      BY DEF Unused
    <2>3. dir' \in Dirs
      BY <2>1, <2>2 DEF TypeOK, Dirs
    <2> QED BY <1>5, <2>1, <2>2, <2>3, EmptyType
        DEF OpenCreating, TypeOK, Goto, env, Steps, OpenSteps
  <1>6. ASSUME NEW w \in Writer, OpenAbsent(w) PROVE TypeOK'
    <2>1. \E why \in Errors : Fail(w, why)
      BY <1>6 DEF OpenAbsent, Errors, Refusals
    <2>2. /\ err' \in [Writer -> Errors] /\ pc' \in [Writer -> Steps]
          /\ pc' = [pc EXCEPT ![w] = pc'[w]]
          /\ pc'[w] \in {"unlock", "end"}
          /\ pc'[w] = "unlock" => at[w] \in Files
      BY <2>1, FailType
    <2> QED BY <1>6, <2>2 DEF OpenAbsent, TypeOK, disk, env, Steps, OpenSteps
  <1>7. ASSUME NEW w \in Writer, Check(w) PROVE TypeOK'
    <2>1. CASE Fail(w, "io") /\ data' = data
      <3>1. /\ err' \in [Writer -> Errors] /\ pc' \in [Writer -> Steps]
            /\ pc' = [pc EXCEPT ![w] = pc'[w]]
            /\ pc'[w] \in {"unlock", "end"}
            /\ pc'[w] = "unlock" => at[w] \in Files
        BY <2>1, FailType DEF Errors
      <3> QED BY <1>7, <2>1, <3>1 DEF Check, TypeOK, disk, env, Steps, OpenSteps
    <2>2. CASE /\ pc' = [pc EXCEPT ![w] = IF Chain[w] THEN "lock" ELSE "write"]
               /\ err' = err
               /\ data' = IF Chain[w] THEN data
                          ELSE [data EXCEPT ![w] = EncodeLines(Batch(w, Size[w], Big[w]))]
      <3>1. EncodeLines(Batch(w, Size[w], Big[w])) \in Bytes
        BY BatchType, EncodeLinesType, WriterAssumption
      <3>2. data' \in [Writer -> Bytes]
        BY <2>2, <3>1 DEF TypeOK
      <3> QED BY <1>7, <2>2, <3>2 DEF Check, TypeOK, disk, env, Steps, OpenSteps
    <2> QED BY <1>7, <2>1, <2>2 DEF Check, Goto
  <1>8. ASSUME NEW w \in Writer, Lock(w) PROVE TypeOK'
    BY <1>8 DEF Lock, TypeOK, Goto, disk, call, env, Steps, OpenSteps
  <1>9. ASSUME NEW w \in Writer, NoLock(w) PROVE TypeOK'
    BY <1>9 DEF NoLock, TypeOK, Goto, disk, call, env, Steps, OpenSteps
  <1>10. ASSUME NEW w \in Writer, Recheck(w) PROVE TypeOK'
    BY <1>10 DEF Recheck, TypeOK, Goto, disk, call, env, Steps, OpenSteps
  <1>11. ASSUME NEW w \in Writer, Reopen(w) PROVE TypeOK'
    <2>1. holder' \in [Files -> Writer \cup {NoWriter}]
      BY <1>11 DEF Reopen, Released, TypeOK
    <2>2. tries[w] \in 0 .. OpenAttempts /\ tries[w] < OpenAttempts /\ OpenAttempts \in Nat
      BY <1>11, WriterAssumption DEF Reopen, TypeOK
    <2>3. tries' \in [Writer -> 0 .. OpenAttempts]
      BY <1>11, <2>2 DEF Reopen, TypeOK
    <2>4. /\ pc' = [pc EXCEPT ![w] = pc'[w]] /\ pc'[w] \in {"open", "end"}
          /\ err' \in [Writer -> Errors]
          /\ pc'[w] # "end" => tries'[w] # OpenAttempts
      BY <1>11, <2>2 DEF Reopen, TypeOK, Goto, Errors
    <2>5. pc' \in [Writer -> Steps]
      BY <2>4 DEF TypeOK, Steps
    <2>6. \A v \in Writer : pc'[v] # "end" => tries'[v] < OpenAttempts
      BY <1>11, <2>2, <2>3, <2>4 DEF Reopen, TypeOK
    <2>7. /\ at' \in [Writer -> Files \cup {NoFile}]
          /\ \A v \in Writer : pc'[v] \in OpenSteps => at'[v] \in Files
      BY <1>11, <2>4 DEF Reopen, TypeOK, OpenSteps
    <2> QED BY <1>11, <2>1, <2>3, <2>4, <2>5, <2>6, <2>7 DEF Reopen, TypeOK, disk, env
  <1>12. ASSUME NEW w \in Writer, Compose(w) PROVE TypeOK'
    <2> DEFINE answer == Composed(w, file[at[w]])
    <2>1. at[w] \in Files /\ file[at[w]] \in Bytes
      BY <1>12 DEF Compose, TypeOK, OpenSteps
    <2>2. answer.data \in Bytes /\ answer.err \in Errors
      BY <2>1, ComposedType
    <2> HIDE DEF answer
    <2>3. CASE Fail(w, answer.err) /\ data' = data
      <3>1. /\ err' \in [Writer -> Errors] /\ pc' \in [Writer -> Steps]
            /\ pc' = [pc EXCEPT ![w] = pc'[w]]
            /\ pc'[w] \in {"unlock", "end"}
            /\ pc'[w] = "unlock" => at[w] \in Files
        BY <2>2, <2>3, FailType
      <3> QED BY <1>12, <2>3, <3>1 DEF Compose, TypeOK, disk, env, Steps, OpenSteps
    <2>4. CASE /\ data' = [data EXCEPT ![w] = answer.data]
               /\ pc' = [pc EXCEPT ![w] = "write"] /\ err' = err
      BY <1>12, <2>1, <2>2, <2>4 DEF Compose, TypeOK, disk, env, Steps, OpenSteps
    <2> QED BY <1>12, <2>3, <2>4 DEF Compose, Goto, answer
  <1>13. ASSUME NEW w \in Writer, Write(w) PROVE TypeOK'
    <2>1. at[w] \in Files /\ file[at[w]] \in Bytes /\ data[w] \in Bytes
      BY <1>13 DEF Write, TypeOK, OpenSteps
    <2>2. Concat(file[at[w]], data[w]) \in Bytes
      BY <2>1, ConcatType
    <2> QED BY <1>13, <2>1, <2>2 DEF Write, TypeOK, Goto, call, env, Steps, OpenSteps
  <1>14. ASSUME NEW w \in Writer, WriteShort(w) PROVE TypeOK'
    <2>1. at[w] \in Files /\ file[at[w]] \in Bytes /\ data[w] \in Bytes
      BY <1>14 DEF WriteShort, TypeOK, OpenSteps
    <2>2. PICK b \in Between(file[at[w]], Concat(file[at[w]], data[w])) :
              file' = [file EXCEPT ![at[w]] = b]
      BY <1>14, Zenon DEF WriteShort
    <2>3. b \in Bytes
      BY <2>1, <2>2, ConcatType, BetweenType
    <2>4. file' \in [Files -> Bytes]
      BY <2>2, <2>3 DEF TypeOK
    <2>5. /\ err' \in [Writer -> Errors] /\ pc' \in [Writer -> Steps]
          /\ pc' = [pc EXCEPT ![w] = pc'[w]]
          /\ pc'[w] \in {"unlock", "end"}
          /\ pc'[w] = "unlock" => at[w] \in Files
      BY <1>14, FailType DEF WriteShort, Errors
    <2> QED BY <1>14, <2>4, <2>5 DEF WriteShort, TypeOK, env, Steps, OpenSteps
  <1>15. ASSUME NEW w \in Writer, Sync(w) PROVE TypeOK'
    BY <1>15 DEF Sync, TypeOK, Goto, call, env, Steps, OpenSteps
  <1>16. ASSUME NEW w \in Writer, SyncEntry(w) PROVE TypeOK'
    <2>1. durDir' \in Dirs
      BY <1>16 DEF SyncEntry, TypeOK, Dirs
    <2> QED BY <1>16, <2>1 DEF SyncEntry, TypeOK, Goto, call, env, Steps, OpenSteps
  <1>17. ASSUME NEW w \in Writer, Then(w) PROVE TypeOK'
    <2>1. err' \in [Writer -> Errors]
      BY <1>17 DEF Then, TypeOK, Errors
    <2> QED BY <1>17, <2>1 DEF Then, TypeOK, Goto, disk, env, Steps, OpenSteps
  <1>18. ASSUME NEW w \in Writer, Unlock(w) PROVE TypeOK'
    <2>1. holder' \in [Files -> Writer \cup {NoWriter}]
      BY <1>18 DEF Unlock, Released, TypeOK
    <2> QED BY <1>18, <2>1, EmptyType, WriterAssumption
        DEF Unlock, TypeOK, Goto, Forget, disk, env, Steps, OpenSteps, Errors
  <1>19. ASSUME NEW w \in Writer, IOError(w) PROVE TypeOK'
    <2>1. /\ err' \in [Writer -> Errors] /\ pc' \in [Writer -> Steps]
          /\ pc' = [pc EXCEPT ![w] = pc'[w]]
          /\ pc'[w] \in {"unlock", "end"}
          /\ pc'[w] = "unlock" => at[w] \in Files
      BY <1>19, FailType DEF IOError, Errors
    <2> QED BY <1>19, <2>1 DEF IOError, TypeOK, disk, env, Steps, OpenSteps
  <1>20. ASSUME NEW w \in Writer, Crash(w) PROVE TypeOK'
    <2>1. holder' \in [Files -> Writer \cup {NoWriter}]
      BY <1>20 DEF Crash, Released, TypeOK
    <2> QED BY <1>20, <2>1, EmptyType, WriterAssumption
        DEF Crash, TypeOK, Goto, Forget, disk, env, Steps, OpenSteps
  <1>21. ASSUME MoveAside PROVE TypeOK'
    <2>1. dir.trail \in Files
      BY <1>21 DEF MoveAside, TypeOK, Dirs
    <2>2. dir' \in Dirs
      BY <1>21, <2>1 DEF MoveAside, TypeOK, Dirs
    <2>3. moves' \in 0 .. MaxMoves
      BY <1>21, WriterAssumption DEF MoveAside, TypeOK
    <2> QED BY <1>21, <2>2, <2>3 DEF MoveAside, TypeOK, call
  <1>22. ASSUME PowerLoss PROVE TypeOK'
    <2>1. file' \in [Files -> Bytes]
      BY <1>22, LossFiles
    <2>2. dir' \in Dirs /\ durDir' \in Dirs
      <3>1. dir' \in DirsAfterLoss /\ durDir' = dir'
        BY <1>22, Zenon DEF PowerLoss
      <3>2. DirsAfterLoss \subseteq Dirs
        BY NoDirType DEF DirsAfterLoss, TypeOK
      <3> QED BY <3>1, <3>2
    <2>3. losses' \in 0 .. MaxLosses
      BY <1>22, WriterAssumption DEF PowerLoss, TypeOK
    <2>4. /\ pc' \in [Writer -> Steps]
          /\ \A w \in Writer : pc'[w] \notin OpenSteps
      BY <1>22 DEF PowerLoss, TypeOK, Running, Steps, OpenSteps
    <2>5. /\ at' \in [Writer -> Files \cup {NoFile}]
          /\ data' \in [Writer -> Bytes]
          /\ err' \in [Writer -> Errors] /\ shown' \in [Writer -> Digests]
      BY <1>22, EmptyType DEF PowerLoss, Forget, TypeOK
    <2>6. /\ tries' \in [Writer -> 0 .. OpenAttempts]
          /\ \A w \in Writer : pc'[w] # "end" => tries'[w] < OpenAttempts
      BY <1>22, WriterAssumption DEF PowerLoss, Forget, TypeOK, Running
    <2>7. holder' \in [Files -> Writer \cup {NoWriter}] /\ durable' = file' /\ moves' = moves
      BY <1>22 DEF PowerLoss
    <2> QED BY <2>1, <2>2, <2>3, <2>4, <2>5, <2>6, <2>7 DEF TypeOK
  <1>23. CASE UNCHANGED vars
    BY <1>23 DEF vars, TypeOK
  <1> QED BY <1>1, <1>2, <1>3, <1>4, <1>5, <1>6, <1>7, <1>8, <1>9, <1>10, <1>11,
             <1>12, <1>13, <1>14, <1>15, <1>16, <1>17, <1>18, <1>19, <1>20,
             <1>21, <1>22, <1>23
      DEF Next, Step, Progress

(* Every variable holds a value of its kind in every reachable state of    *)
(* every instance: what compose answers, what a write or a loss leaves     *)
(* behind and how often a changed name is opened again included.           *)
THEOREM TypeCorrect == Spec => []TypeOK
  BY TypeInit, TypeStep, PTL DEF Spec

-----------------------------------------------------------------------------
(* The trail verifies.                                                     *)

(* What a locked compose answers keeps a linked file linked.               *)
LEMMA ComposedLinked ==
    ASSUME TypeOK, NEW w \in Writer, NEW b \in Bytes, WellLinked(b), Locked(w),
           Composed(w, b).err = "none"
    PROVE  WellLinked(Concat(b, Composed(w, b).data))
  <1> DEFINE recs == Batch(w, Size[w], Big[w])
  <1>1. w \in Author /\ Size[w] \in Nat /\ Big[w] \in BOOLEAN
    BY WriterAssumption
  <1>2. CASE Op[w] = "append"
    <2>1. Composed(w, b) = ChainedLines(b, recs, TRUE, w)
      BY <1>2 DEF Composed
    <2>2. /\ HeadRefusal(b) = "none" /\ ~ \E i \in DOMAIN recs : recs[i].over
          /\ Composed(w, b).data = EncodeLines(ChainAfter(recs, ReadHead(b, w)))
      BY <2>1 DEF ChainedLines, Refuse, Give
    <2>3. /\ recs \in Seq(Piece) /\ Len(recs) = Size[w]
          /\ \A i \in 1 .. Size[w] : recs[i] = Unchained(w, i, Size[w], Big[w])
      BY <1>1, BatchType
    <2> HIDE DEF recs
    <2>4. \A i \in 1 .. Len(recs) :
              /\ recs[i].len = Body /\ ~ recs[i].over
              /\ recs[i].kind # "discontinuity"
      <3> SUFFICES ASSUME NEW i \in 1 .. Len(recs)
                   PROVE  /\ recs[i].len = Body /\ ~ recs[i].over
                          /\ recs[i].kind # "discontinuity"
        OBVIOUS
      <3>1. i \in DOMAIN recs
        BY <2>3
      <3>2. ~ recs[i].over
        BY <2>2, <3>1
      <3>3. recs[i] = Unchained(w, i, Size[w], Big[w])
        BY <2>3
      <3> QED BY <3>2, <3>3 DEF Unchained
    <2>5. TailOf(b) = << >>
      <3>1. CASE b = Empty
        BY <3>1 DEF TailOf, Empty
      <3>2. CASE b # Empty
        BY <2>2, <3>2 DEF HeadRefusal
      <3> QED BY <3>1, <3>2
    <2> QED BY <1>1, <2>2, <2>3, <2>4, <2>5, AppendLinked
  <1>3. CASE Op[w] = "rotate"
    <2>1. Composed(w, b) = RotateLines(b, TRUE)
      BY <1>3 DEF Composed
    <2>2. Composed(w, b).data = Empty
      BY <2>1 DEF RotateLines, Refuse, Give
    <2> QED BY <2>2, ConcatEmpty
  <1>4. CASE Op[w] \in {"repair", "bound"}
    <2>1. \E k \in BOOLEAN : Composed(w, b) = RepairLines(b, w, TRUE, k, shown[w])
      BY <1>4 DEF Composed
    <2>2. /\ ~ DiscontinuityKind(TailOf(b))
          /\ Composed(w, b).data = << << >>, << Discontinuity(w, b) >>, << >> >>
      BY <2>1 DEF RepairLines, Refuse, Give
    <2> QED BY <1>1, <2>2, RepairLinked
  <1> QED BY <1>2, <1>3, <1>4, WriterAssumption

(* What a step leaves alone of the writers it is not a step of.            *)
Kept(v) ==
    /\ pc'[v] = pc[v] /\ at'[v] = at[v] /\ data'[v] = data[v]
    /\ shown'[v] = shown[v]
    /\ holder'[at[v]] = holder[at[v]] /\ file'[at[v]] = file[at[v]]

LEMMA ComposedFrame ==
    ASSUME NEW v \in Writer, Kept(v)
    PROVE  Composed(v, file[at[v]])' = Composed(v, file[at[v]])
  <1>1. (Locked(v))' = Locked(v)
    BY DEF Kept, Locked
  <1> QED BY <1>1 DEF Kept, Composed

(* The invariant after a step, from what the step did to each writer past  *)
(* its lock and to each file.                                              *)
LEMMA InvariantFrame ==
    ASSUME ChainInvariant,
           \A f \in Files : WellLinked(file'[f]),
           \A v \in Writer : pc'[v] \in LockSteps =>
               \/ Kept(v)
               \/ /\ holder'[at'[v]] = v
                  /\ pc'[v] = "write" => Composed(v, file[at[v]])' = Give(data'[v])
    PROVE  ChainInvariant'
  <1>1. LockHeld'
    BY DEF LockHeld, ChainInvariant, Kept
  <1>2. NoStaleCompose'
    <2> SUFFICES ASSUME NEW v \in Writer, pc'[v] = "write"
                 PROVE  Composed(v, file[at[v]])' = Give(data'[v])
      BY DEF NoStaleCompose
    <2>1. pc'[v] \in LockSteps
      BY DEF LockSteps
    <2>2. CASE Kept(v)
      <3>1. Composed(v, file[at[v]]) = Give(data[v])
        BY <2>2 DEF Kept, ChainInvariant, NoStaleCompose
      <3>2. Composed(v, file[at[v]])' = Composed(v, file[at[v]])
        BY <2>2, ComposedFrame
      <3> QED BY <2>2, <3>1, <3>2 DEF Kept
    <2> QED BY <2>1, <2>2
  <1> QED BY <1>1, <1>2 DEF ChainInvariant

(* A step of w that leaves every file and every lock alone.                *)
LEMMA QuietStep ==
    ASSUME TypeOK, ChainInvariant, NEW w \in Writer,
           file' = file, holder' = holder,
           \A v \in Writer \ {w} : /\ pc'[v] = pc[v] /\ at'[v] = at[v]
                                   /\ data'[v] = data[v] /\ shown'[v] = shown[v],
           pc'[w] \in LockSteps =>
               /\ holder[at'[w]] = w
               /\ pc'[w] = "write" => Composed(w, file[at[w]])' = Give(data'[w])
    PROVE  ChainInvariant'
  <1>1. \A f \in Files : WellLinked(file'[f])
    BY DEF ChainInvariant
  <1>2. \A v \in Writer \ {w} : Kept(v)
    BY DEF Kept
  <1> QED BY <1>1, <1>2, InvariantFrame

(* Two writers past their locks have different files open.                 *)
LEMMA LocksApart ==
    ASSUME ChainInvariant, NEW v \in Writer, NEW w \in Writer, v # w,
           pc[v] \in LockSteps, holder[at[w]] = w
    PROVE  at[v] # at[w]
  BY DEF ChainInvariant, LockHeld

(* Giving up a lock leaves the others'.                                    *)
LEMMA ReleasedKeeps ==
    ASSUME TypeOK, ChainInvariant, NEW w \in Writer, NEW v \in Writer \ {w},
           pc[v] \in LockSteps
    PROVE  Released(w)[at[v]] = holder[at[v]]
  <1>1. at[v] \in Files /\ holder[at[v]] = v
    BY DEF ChainInvariant, LockHeld, TypeOK, LockSteps, OpenSteps
  <1> QED BY <1>1 DEF Released

LEMMA FailQuiet ==
    ASSUME TypeOK, NEW w \in Writer, NEW why, Fail(w, why)
    PROVE  /\ \A v \in Writer \ {w} : pc'[v] = pc[v]
           /\ pc'[w] # "write"
           /\ pc'[w] \in LockSteps => holder[at[w]] = w
  BY DEF TypeOK, Fail, Goto, Locked, LockSteps

LEMMA ChainStep ==
    ASSUME \A w \in Writer : Lockable[w], \A w \in Writer : Chain[w]
    PROVE  TypeOK /\ TypeOK' /\ ChainInvariant /\ [Next]_vars => ChainInvariant'
  <1> SUFFICES ASSUME TypeOK, TypeOK', ChainInvariant, [Next]_vars
               PROVE  ChainInvariant'
    OBVIOUS
  <1>1. ASSUME NEW w \in Writer, BeginAppend(w) PROVE ChainInvariant'
    BY <1>1, QuietStep DEF BeginAppend, Goto, call, TypeOK, LockSteps
  <1>2. ASSUME NEW w \in Writer, ShowDamage(w) PROVE ChainInvariant'
    BY <1>2, QuietStep DEF ShowDamage, Goto, disk, TypeOK, LockSteps
  <1>3. ASSUME NEW w \in Writer, BeginRepair(w) PROVE ChainInvariant'
    <2>1. CASE \E why : Fail(w, why)
      BY <1>3, <2>1, FailQuiet, QuietStep DEF BeginRepair, disk, TypeOK
    <2>2. CASE pc' = [pc EXCEPT ![w] = "open"]
      BY <1>3, <2>2, QuietStep DEF BeginRepair, disk, TypeOK, LockSteps
    <2> QED BY <1>3, <2>1, <2>2 DEF BeginRepair, Goto
  <1>4. ASSUME NEW w \in Writer, OpenExisting(w) PROVE ChainInvariant'
    BY <1>4, QuietStep DEF OpenExisting, Goto, disk, TypeOK, LockSteps
  <1>5. ASSUME NEW w \in Writer, OpenCreating(w) PROVE ChainInvariant'
    <2>1. PICK f \in Unused :
            /\ file' = [file EXCEPT ![f] = Empty]
            /\ at' = [at EXCEPT ![w] = f]
      BY <1>5 DEF OpenCreating
    <2>2. /\ pc' = [pc EXCEPT ![w] = "check"] /\ holder' = holder
          /\ data' = data /\ shown' = shown
      BY <1>5 DEF OpenCreating, Goto
    <2>3. \A g \in Files : WellLinked(file'[g])
      BY <2>1, EmptyLinked DEF ChainInvariant, TypeOK
    <2>4. \A v \in Writer : pc'[v] \in LockSteps => Kept(v)
      <3> SUFFICES ASSUME NEW v \in Writer, pc'[v] \in LockSteps PROVE Kept(v)
        OBVIOUS
      <3>1. v # w /\ pc[v] = pc'[v]
        BY <2>2 DEF TypeOK, LockSteps
      <3>2. Running(v) /\ at[v] \in Files
        BY <3>1 DEF TypeOK, Running, LockSteps, OpenSteps
      <3>3. at[v] # f
        BY <3>2 DEF Unused
      <3> QED BY <2>1, <2>2, <3>1, <3>2, <3>3 DEF TypeOK, Kept
    <2> QED BY <2>3, <2>4, InvariantFrame
  <1>6. ASSUME NEW w \in Writer, OpenAbsent(w) PROVE ChainInvariant'
    <2>1. \E why : Fail(w, why)
      BY <1>6 DEF OpenAbsent
    <2> QED BY <1>6, <2>1, FailQuiet, QuietStep DEF OpenAbsent, disk, TypeOK
  <1>7. ASSUME NEW w \in Writer, Check(w) PROVE ChainInvariant'
    <2>1. CASE Fail(w, "io") /\ data' = data
      BY <1>7, <2>1, FailQuiet, QuietStep DEF Check, disk, TypeOK
    <2>2. CASE pc' = [pc EXCEPT ![w] = "lock"] /\ data' = data
      BY <1>7, <2>2, QuietStep DEF Check, disk, TypeOK, LockSteps
    <2> QED BY <1>7, <2>1, <2>2 DEF Check, Goto
  <1>8. ASSUME NEW w \in Writer, Lock(w) PROVE ChainInvariant'
    <2>1. /\ holder[at[w]] = NoWriter /\ at[w] \in Files
          /\ holder' = [holder EXCEPT ![at[w]] = w]
          /\ pc' = [pc EXCEPT ![w] = "recheck"]
          /\ file' = file /\ at' = at /\ data' = data /\ shown' = shown
      BY <1>8 DEF Lock, Goto, disk, call, TypeOK, OpenSteps
    <2>2. \A f \in Files : WellLinked(file'[f])
      BY <2>1 DEF ChainInvariant
    <2>3. pc'[w] = "recheck" /\ holder'[at'[w]] = w
      BY <2>1 DEF TypeOK
    <2>4. ASSUME NEW v \in Writer \ {w}, pc'[v] \in LockSteps PROVE Kept(v)
      <3>1. pc'[v] = pc[v]
        BY <2>1 DEF TypeOK
      <3>2. at[v] # at[w]
        BY <2>1, <2>4, <3>1, WriterAssumption DEF ChainInvariant, LockHeld
      <3>3. holder'[at[v]] = holder[at[v]]
        BY <2>1, <3>1, <3>2, <2>4 DEF TypeOK, LockSteps, OpenSteps
      <3> QED BY <2>1, <3>1, <3>3 DEF Kept
    <2> QED BY <2>2, <2>3, <2>4, InvariantFrame
  <1>9. ASSUME NEW w \in Writer, NoLock(w) PROVE ChainInvariant'
    BY <1>9 DEF NoLock
  <1>10. ASSUME NEW w \in Writer, Recheck(w) PROVE ChainInvariant'
    <2>1. holder[at[w]] = w
      BY <1>10 DEF Recheck, ChainInvariant, LockHeld, LockSteps
    <2> QED BY <1>10, <2>1, QuietStep DEF Recheck, Goto, disk, call, TypeOK
  <1>11. ASSUME NEW w \in Writer, Reopen(w) PROVE ChainInvariant'
    <2>1. /\ holder' = Released(w) /\ file' = file /\ data' = data /\ shown' = shown
          /\ at' = [at EXCEPT ![w] = NoFile]
          /\ \A v \in Writer \ {w} : pc'[v] = pc[v]
          /\ pc'[w] \in {"open", "end"}
      BY <1>11 DEF Reopen, Goto, disk, TypeOK
    <2>2. \A f \in Files : WellLinked(file'[f])
      BY <2>1 DEF ChainInvariant
    <2>3. pc'[w] \notin LockSteps
      BY <2>1 DEF LockSteps
    <2>4. ASSUME NEW v \in Writer \ {w}, pc'[v] \in LockSteps PROVE Kept(v)
      BY <2>1, <2>4, ReleasedKeeps DEF TypeOK, Kept
    <2> QED BY <2>2, <2>3, <2>4, InvariantFrame
  <1>12. ASSUME NEW w \in Writer, Compose(w) PROVE ChainInvariant'
    <2> DEFINE answer == Composed(w, file[at[w]])
    <2>1. holder[at[w]] = w /\ at[w] \in Files
      BY <1>12 DEF Compose, ChainInvariant, LockHeld, LockSteps, TypeOK, OpenSteps
    <2>2. answer = [err |-> answer.err, data |-> answer.data]
      <3>1. file[at[w]] \in Bytes
        BY <2>1 DEF TypeOK
      <3> QED BY <3>1, ComposedType
    <2>3. /\ file' = file /\ holder' = holder /\ at' = at /\ shown' = shown
      BY <1>12 DEF Compose, disk
    <2>4. CASE Fail(w, answer.err) /\ data' = data
      BY <2>3, <2>4, FailQuiet, QuietStep
    <2>5. CASE /\ answer.err = "none" /\ data' = [data EXCEPT ![w] = answer.data]
               /\ pc' = [pc EXCEPT ![w] = "write"]
      <3>1. data'[w] = answer.data
        BY <2>5 DEF TypeOK
      <3>2. (Locked(w))' = Locked(w)
        BY <2>3 DEF Locked
      <3>3. answer' = answer
        BY <2>3, <3>2 DEF Composed
      <3>4. answer' = Give(data'[w])
        BY <2>2, <2>5, <3>1, <3>3 DEF Give
      <3>5. \A v \in Writer \ {w} : data'[v] = data[v] /\ pc'[v] = pc[v]
        BY <2>5 DEF TypeOK
      <3> HIDE DEF answer
      <3> QED BY <2>1, <2>3, <3>4, <3>5, QuietStep DEF answer
    <2> QED BY <1>12, <2>4, <2>5 DEF Compose, Goto
  <1>13. ASSUME NEW w \in Writer, Write(w) \/ WriteShort(w) PROVE ChainInvariant'
    <2> DEFINE whole == Concat(file[at[w]], data[w])
    <2>1. /\ pc[w] = "write" /\ holder[at[w]] = w /\ at[w] \in Files
          /\ file[at[w]] \in Bytes /\ data[w] \in Bytes /\ WellLinked(file[at[w]])
      BY <1>13 DEF Write, WriteShort, ChainInvariant, LockHeld, LockSteps, TypeOK, OpenSteps
    <2>2. Composed(w, file[at[w]]) = Give(data[w]) /\ Locked(w)
      BY <2>1 DEF ChainInvariant, NoStaleCompose, Locked
    <2>3. WellLinked(whole) /\ whole \in Bytes
      <3>1. Composed(w, file[at[w]]).err = "none" /\ Composed(w, file[at[w]]).data = data[w]
        BY <2>2 DEF Give
      <3>2. WellLinked(Concat(file[at[w]], Composed(w, file[at[w]]).data))
        BY <2>1, <2>2, <3>1, ComposedLinked
      <3>3. whole \in Bytes
        BY <2>1, ConcatType
      <3> QED BY <3>1, <3>2, <3>3, Zenon
    <2>4. \E b : WellLinked(b) /\ file' = [file EXCEPT ![at[w]] = b]
      <3>1. CASE Write(w)
        BY <2>3, <3>1 DEF Write
      <3>2. CASE WriteShort(w)
        <4>1. PICK b \in Between(file[at[w]], whole) : file' = [file EXCEPT ![at[w]] = b]
          BY <3>2, Zenon DEF WriteShort
        <4>2. b \in Beginnings(whole)
          BY <2>3, <4>1, BetweenType
        <4>3. WellLinked(b)
          BY <2>3, <4>2, BeginningLinked
        <4> QED BY <4>1, <4>3
      <3> QED BY <1>13, <3>1, <3>2
    <2>5. \A f \in Files : WellLinked(file'[f])
      BY <2>4 DEF ChainInvariant, TypeOK
    <2>6. /\ holder' = holder /\ at' = at /\ data' = data /\ shown' = shown
          /\ \A v \in Writer \ {w} : pc'[v] = pc[v]
          /\ pc'[w] # "write"
      <3>1. CASE Write(w)
        BY <3>1 DEF Write, Goto, call, TypeOK
      <3>2. CASE WriteShort(w)
        BY <3>2, FailQuiet DEF WriteShort
      <3> QED BY <1>13, <3>1, <3>2
    <2>7. ASSUME NEW v \in Writer \ {w}, pc'[v] \in LockSteps PROVE Kept(v)
      <3>1. at[v] # at[w]
        BY <2>1, <2>6, <2>7, LocksApart
      <3>2. file'[at[v]] = file[at[v]]
        BY <2>4, <3>1, <2>6, <2>7 DEF TypeOK, LockSteps, OpenSteps
      <3> QED BY <2>6, <3>2 DEF Kept
    <2> QED BY <2>1, <2>5, <2>6, <2>7, InvariantFrame
  <1>14. ASSUME NEW w \in Writer, Sync(w) \/ SyncEntry(w) \/ Then(w) PROVE ChainInvariant'
    <2>1. holder[at[w]] = w
      BY <1>14 DEF Sync, SyncEntry, Then, ChainInvariant, LockHeld, LockSteps
    <2>2. /\ file' = file /\ holder' = holder /\ at' = at /\ data' = data /\ shown' = shown
          /\ \A v \in Writer \ {w} : pc'[v] = pc[v]
          /\ pc'[w] # "write"
      BY <1>14 DEF Sync, SyncEntry, Then, Goto, disk, call, TypeOK
    <2> QED BY <2>1, <2>2, QuietStep
  <1>15. ASSUME NEW w \in Writer, Unlock(w) \/ Crash(w) PROVE ChainInvariant'
    <2>1. /\ holder' = Released(w) /\ file' = file
          /\ \A v \in Writer \ {w} :
                 pc'[v] = pc[v] /\ at'[v] = at[v] /\ data'[v] = data[v] /\ shown'[v] = shown[v]
          /\ pc'[w] \in {"end", "crashed"}
      BY <1>15 DEF Unlock, Crash, Goto, Forget, disk, TypeOK
    <2>2. \A f \in Files : WellLinked(file'[f])
      BY <2>1 DEF ChainInvariant
    <2>3. pc'[w] \notin LockSteps
      BY <2>1 DEF LockSteps
    <2>4. ASSUME NEW v \in Writer \ {w}, pc'[v] \in LockSteps PROVE Kept(v)
      BY <2>1, <2>4, ReleasedKeeps DEF Kept
    <2> QED BY <2>2, <2>3, <2>4, InvariantFrame
  <1>16. ASSUME NEW w \in Writer, IOError(w) PROVE ChainInvariant'
    BY <1>16, FailQuiet, QuietStep DEF IOError, disk
  <1>17. ASSUME MoveAside PROVE ChainInvariant'
    <2>1. /\ file' = file /\ holder' = holder /\ pc' = pc
          /\ at' = at /\ data' = data /\ shown' = shown
      BY <1>17 DEF MoveAside, call
    <2> QED BY <2>1, InvariantFrame DEF Kept, ChainInvariant
  <1>18. ASSUME PowerLoss PROVE ChainInvariant'
    <2>1. \A f \in Files : WellLinked(file'[f])
      <3> SUFFICES ASSUME NEW f \in Files PROVE WellLinked(file'[f])
        OBVIOUS
      <3>1. file[f] \in Bytes /\ WellLinked(file[f])
        BY DEF TypeOK, ChainInvariant
      <3>2. file'[f] = file[f] \/ file'[f] \in Beginnings(file[f])
        BY <1>18, LossFiles
      <3> QED BY <3>1, <3>2, BeginningLinked
    <2>2. \A v \in Writer : pc'[v] \notin LockSteps
      BY <1>18 DEF PowerLoss, Running, LockSteps
    <2> QED BY <2>1, <2>2, InvariantFrame
  <1>19. CASE UNCHANGED vars
    BY <1>19, InvariantFrame DEF vars, Kept, ChainInvariant
  <1> QED BY <1>1, <1>2, <1>3, <1>4, <1>5, <1>6, <1>7, <1>8, <1>9, <1>10, <1>11,
             <1>12, <1>13, <1>14, <1>15, <1>16, <1>17, <1>18, <1>19
      DEF Next, Step, Progress

LEMMA ChainInit == Init => ChainInvariant
  <1> SUFFICES ASSUME Init PROVE ChainInvariant
    OBVIOUS
  <1>1. \A f \in Files : WellLinked(file[f])
    BY LegacyTrailType, EmptyLinked DEF Init
  <1>2. \A w \in Writer : pc[w] = "start"
    BY DEF Init
  <1> QED BY <1>1, <1>2 DEF ChainInvariant, LockHeld, NoStaleCompose, LockSteps

(* Where every writer chains and is offered the lock, nothing              *)
(* any number of appends, graph runs, repairs, confirmed repairs and       *)
(* rotations do, with writes cut short anywhere, crashes, power losses and *)
(* moves between and during them, leaves a line Verify has a finding for.  *)
THEOREM ChainedTrailVerifies ==
    ASSUME \A w \in Writer : Lockable[w], \A w \in Writer : Chain[w]
    PROVE  Spec => []TrailVerifies
  <1>1. Init => TypeOK /\ ChainInvariant
    BY TypeInit, ChainInit
  <1>2. TypeOK /\ ChainInvariant /\ [Next]_vars => TypeOK' /\ ChainInvariant'
    BY TypeStep, ChainStep
  <1>3. TypeOK /\ ChainInvariant => TrailVerifies
    BY LinkedVerifies DEF TypeOK, ChainInvariant, TrailVerifies
  <1> QED BY <1>1, <1>2, <1>3, PTL DEF Spec

(* A chaining writer never writes what it composed from an end of the file *)
(* that has changed since it read it, and it holds the lock while it does. *)
THEOREM NothingStaleWritten ==
    ASSUME \A w \in Writer : Lockable[w], \A w \in Writer : Chain[w]
    PROVE  Spec => []ChainInvariant
  <1>1. Init => TypeOK /\ ChainInvariant
    BY TypeInit, ChainInit
  <1>2. TypeOK /\ ChainInvariant /\ [Next]_vars => TypeOK' /\ ChainInvariant'
    BY TypeStep, ChainStep
  <1> QED BY <1>1, <1>2, PTL DEF Spec

-----------------------------------------------------------------------------
(***************************************************************************)
(* What becomes of the records of an audit trail: a run's records stay     *)
(* together, a repair ends the damage it was confirmed on, and an append   *)
(* that was reported written stays, through crashes, repairs, moves and    *)
(* power losses.                                                           *)
(***************************************************************************)

(* Every line that c has complete, b has too, and the same.                *)
Extends(c, b) ==
    /\ Len(c) <= Len(b)
    /\ \A n \in 1 .. LineCount(c) : b[n] = c[n]

LEMMA ExtendsItself ==
    ASSUME NEW b \in Bytes
    PROVE  Extends(b, b)
  BY DEF Extends, LineCount, Bytes

LEMMA ExtendsTransitive ==
    ASSUME NEW a \in Bytes, NEW b \in Bytes, NEW c \in Bytes, Extends(a, b), Extends(b, c)
    PROVE  Extends(a, c)
  BY DEF Extends, LineCount, Bytes

LEMMA BeginningExtends ==
    ASSUME NEW b \in Bytes, NEW c \in Beginnings(b)
    PROVE  Extends(c, b)
  BY BeginningsType DEF Extends, LineCount

LEMMA ConcatExtends ==
    ASSUME NEW b \in Bytes, NEW d \in Bytes
    PROVE  Extends(b, Concat(b, d))
  <1>1. Len(b) \in Nat \ {0} /\ Len(d) \in Nat \ {0}
    BY DEF Bytes
  <1>2. /\ Len(Concat(b, d)) = Len(b) + Len(d) - 1
        /\ \A n \in 1 .. Len(b) - 1 : Concat(b, d)[n] = b[n]
    BY ConcatType
  <1> QED BY <1>1, <1>2 DEF Extends, LineCount

(* A file's line is the whole record of a line of what it begins, or not   *)
(* a whole record at all.                                                  *)
LEMMA BeginningLines ==
    ASSUME NEW b \in Bytes, WellLinked(b), NEW c \in Beginnings(b)
    PROVE  /\ c \in Bytes /\ Len(c) <= Len(b)
           /\ \A n \in DOMAIN c : n \in DOMAIN b /\ (n < Len(c) \/ WholeRecord(c[n]) => c[n] = b[n])
  <1>1. /\ c \in Bytes /\ Len(c) \in 1 .. Len(b)
        /\ \A m \in 1 .. Len(c) - 1 : c[m] = b[m]
        /\ c[Len(c)] \in Cuts(b[Len(c)])
    BY BeginningsType
  <1>2. DOMAIN b = 1 .. Len(b) /\ DOMAIN c = 1 .. Len(c) /\ Len(b) \in Nat
    BY <1>1 DEF Bytes
  <1>3. WholeRecord(c[Len(c)]) => c[Len(c)] = b[Len(c)]
    <2>1. Len(c) \in DOMAIN b /\ b[Len(c)] \in Line
      BY <1>1, <1>2 DEF Bytes
    <2>2. Len(b[Len(c)]) <= 1
      BY <2>1 DEF WellLinked
    <2> QED BY <1>1, <2>1, <2>2, CutWhole
  <1> QED BY <1>1, <1>2, <1>3

-----------------------------------------------------------------------------
(* What a writer that holds the lock adds to a linked file.                *)

(* The batch of an append: its records in order, each whole.               *)
LEMMA AppendedBatch ==
    ASSUME TypeOK, NEW w \in Writer, NEW b \in Bytes, Locked(w), Op[w] = "append",
           Composed(w, b).err = "none"
    PROVE  LET d == Composed(w, b).data IN
           /\ TailOf(b) = << >>
           /\ d \in Bytes /\ Size[w] \in Nat \ {0} /\ Len(d) = Size[w] + 1
           /\ \A i \in 1 .. Size[w] :
                /\ WholeRecord(d[i]) /\ d[i][1].w = w /\ d[i][1].i = i
                /\ ChainedLine(d[i]) /\ ~ DiscontinuityKind(d[i])
           /\ d[Size[w] + 1] = << >>
  <1> DEFINE recs == Batch(w, Size[w], Big[w])
             head == ReadHead(b, w)
  <1>1. w \in Author /\ Size[w] \in Nat \ {0} /\ Big[w] \in BOOLEAN
    BY WriterAssumption
  <1>2. Composed(w, b) = ChainedLines(b, recs, TRUE, w)
    BY DEF Composed
  <1>3. HeadRefusal(b) = "none" /\ Composed(w, b).data = EncodeLines(ChainAfter(recs, head))
    BY <1>2 DEF ChainedLines, Refuse, Give
  <1>4. /\ recs \in Seq(Piece) /\ Len(recs) = Size[w]
        /\ \A i \in 1 .. Size[w] : recs[i] = Unchained(w, i, Size[w], Big[w])
    BY <1>1, BatchType
  <1>5. head.trail \in Author /\ head.seq \in Nat /\ head.prev \in Digests
    BY <1>1, ReadHeadType
  <1> HIDE DEF recs, head
  <1> DEFINE ps == ChainAfter(recs, head)
  <1>6. /\ ps \in Seq(Piece) /\ Len(ps) = Size[w]
        /\ \A i \in 1 .. Size[w] :
             /\ ps[i].w = w /\ ps[i].i = i /\ ps[i].len = Body
             /\ ps[i].trail # NoTrail /\ ps[i].kind # "discontinuity"
    <2>1. /\ ps \in Seq(Piece) /\ Len(ps) = Len(recs)
          /\ \A i \in 1 .. Len(recs) :
                /\ ps[i].trail = head.trail /\ ps[i].seq = head.seq + i
                /\ ps[i].prev = IF i = 1 THEN head.prev
                                         ELSE LineDigest(<< recs[i - 1] >>)
                /\ ps[i].w = recs[i].w /\ ps[i].i = recs[i].i /\ ps[i].len = recs[i].len
                /\ ps[i].kind = recs[i].kind /\ ps[i].over = recs[i].over
      <3>1. recs \in Seq(Piece)
        BY <1>4
      <3>2. /\ ChainAfter(recs, head) \in Seq(Piece)
            /\ Len(ChainAfter(recs, head)) = Len(recs)
            /\ \A i \in 1 .. Len(recs) :
                 LET p == ChainAfter(recs, head)[i] IN
                 /\ p.trail = head.trail /\ p.seq = head.seq + i
                 /\ p.prev = IF i = 1 THEN head.prev
                                      ELSE LineDigest(<< recs[i - 1] >>)
                 /\ p.w = recs[i].w /\ p.i = recs[i].i /\ p.len = recs[i].len
                 /\ p.kind = recs[i].kind /\ p.over = recs[i].over
        BY ONLY <1>5, <3>1, ChainAfterType
      <3> QED BY ONLY <3>2
    <2>2. ASSUME NEW i \in 1 .. Size[w]
          PROVE  /\ recs[i].w = w /\ recs[i].i = i /\ recs[i].len = Body
                 /\ recs[i].kind # "discontinuity"
      <3>1. recs[i] = Unchained(w, i, Size[w], Big[w])
        BY <1>4
      <3> QED BY <3>1 DEF Unchained
    <2>3. head.trail # NoTrail
      BY <1>5, AuthorAssumption
    <2> HIDE DEF ps
    <2>4. ASSUME NEW i \in 1 .. Size[w]
          PROVE  /\ ps[i].w = w /\ ps[i].i = i /\ ps[i].len = Body
                 /\ ps[i].trail # NoTrail /\ ps[i].kind # "discontinuity"
      BY ONLY <1>4, <2>1, <2>2, <2>3, <2>4
    <2> QED BY ONLY <1>4, <2>1, <2>4
  <1> HIDE DEF ps
  <1>7. /\ EncodeLines(ps) \in Bytes /\ Len(EncodeLines(ps)) = Size[w] + 1
        /\ \A i \in 1 .. Size[w] : EncodeLines(ps)[i] = << ps[i] >>
        /\ EncodeLines(ps)[Size[w] + 1] = << >>
    BY <1>6, EncodeLinesType
  <1>8. TailOf(b) = << >>
    <2>1. CASE b = Empty
      BY <2>1 DEF TailOf, Empty
    <2>2. CASE b # Empty
      BY <1>3, <2>2 DEF HeadRefusal
    <2> QED BY <2>1, <2>2
  <1> DEFINE d == EncodeLines(ps)
  <1> HIDE DEF d
  <1>9. \A i \in 1 .. Size[w] :
           /\ WholeRecord(d[i]) /\ d[i][1].w = w /\ d[i][1].i = i
           /\ ChainedLine(d[i]) /\ ~ DiscontinuityKind(d[i])
    <2> SUFFICES ASSUME NEW i \in 1 .. Size[w]
                 PROVE  /\ WholeRecord(d[i]) /\ d[i][1].w = w /\ d[i][1].i = i
                        /\ ChainedLine(d[i]) /\ ~ DiscontinuityKind(d[i])
      OBVIOUS
    <2>1. d[i] = << ps[i] >>
      BY <1>7 DEF d
    <2> QED BY <1>6, <2>1 DEF WholeRecord, ChainedLine, DiscontinuityKind
  <1>10. Composed(w, b).data = d
    BY <1>3 DEF ps, d
  <1>11. d \in Bytes /\ Len(d) = Size[w] + 1 /\ d[Size[w] + 1] = << >>
    BY <1>7 DEF d
  <1>12. \A i \in 1 .. Size[w] :
            LET l == Composed(w, b).data[i] IN
            /\ WholeRecord(l) /\ l[1].w = w /\ l[1].i = i
            /\ ChainedLine(l) /\ ~ DiscontinuityKind(l)
    BY <1>9, <1>10
  <1> QED BY <1>1, <1>8, <1>10, <1>11, <1>12

(* A repair's: the newline that ends the damage, and its record.           *)
LEMMA RepairedLines ==
    ASSUME TypeOK, NEW w \in Writer, NEW b \in Bytes, Locked(w), Op[w] \in {"repair", "bound"},
           Composed(w, b).err = "none"
    PROVE  LET c == Concat(b, Composed(w, b).data) IN
           /\ c \in Bytes /\ Len(c) = Len(b) + 2 /\ Len(b) \in Nat \ {0}
           /\ \A n \in 1 .. Len(b) : c[n] = b[n]
           /\ c[Len(b) + 1] = << Discontinuity(w, b) >>
           /\ c[Len(b) + 2] = << >>
           /\ Op[w] = "bound" => LineDigest(TailOf(b)) = shown[w]
  <1> DEFINE D == Discontinuity(w, b)
             d == << << >>, << D >>, << >> >>
  <1>1. Composed(w, b) = RepairLines(b, w, TRUE, Op[w] = "bound", shown[w])
    BY DEF Composed
  <1>2. Composed(w, b).data = d /\ (Op[w] = "bound" => LineDigest(TailOf(b)) = shown[w])
    BY <1>1 DEF RepairLines, Refuse, Give
  <1>3. w \in Author
    BY WriterAssumption
  <1>4. d \in Bytes
    BY <1>3, DiscontinuityType
  <1> HIDE DEF D
  <1>5. Len(d) = 3 /\ d[1] = << >> /\ d[2] = << D >> /\ d[3] = << >>
    OBVIOUS
  <1> HIDE DEF d
  <1>6. Len(b) \in Nat \ {0} /\ b[Len(b)] \in Line
    BY DEF Bytes
  <1>7. /\ Concat(b, d) \in Bytes /\ Len(Concat(b, d)) = Len(b) + 2
        /\ \A n \in 1 .. Len(b) - 1 : Concat(b, d)[n] = b[n]
        /\ Concat(b, d)[Len(b)] = b[Len(b)] \o << >>
        /\ \A n \in 2 .. 3 : Concat(b, d)[Len(b) + n - 1] = d[n]
    <2>1. /\ Concat(b, d) \in Bytes /\ Len(Concat(b, d)) = Len(b) + Len(d) - 1
          /\ \A n \in 1 .. Len(b) - 1 : Concat(b, d)[n] = b[n]
          /\ Concat(b, d)[Len(b)] = b[Len(b)] \o d[1]
          /\ \A n \in 2 .. Len(d) : Concat(b, d)[Len(b) + n - 1] = d[n]
      BY <1>4, ConcatType
    <2> QED BY <1>5, <1>6, <2>1
  <1>8. b[Len(b)] \o << >> = b[Len(b)]
    BY <1>6 DEF Line
  <1>9. Concat(b, d)[Len(b) + 1] = d[2] /\ Concat(b, d)[Len(b) + 2] = d[3]
    <2>1. Len(b) + 2 - 1 = Len(b) + 1 /\ Len(b) + 3 - 1 = Len(b) + 2
      BY <1>6
    <2> QED BY <1>7, <2>1
  <1> QED BY <1>2, <1>5, <1>6, <1>7, <1>8, <1>9 DEF D

(* A rotation adds nothing.                                                *)
LEMMA RotatedLines ==
    ASSUME NEW w \in Writer, NEW b \in Bytes, Locked(w), Op[w] = "rotate"
    PROVE  Concat(b, Composed(w, b).data) = b
  <1>1. Composed(w, b) = RotateLines(b, TRUE)
    BY DEF Composed
  <1>2. Composed(w, b).data = Empty
    BY <1>1 DEF RotateLines, Refuse, Give
  <1> QED BY <1>2, ConcatEmpty

(* The lines an append leaves: what was there, then the batch, then        *)
(* nothing unfinished.                                                     *)
LEMMA AppendedLines ==
    ASSUME TypeOK, NEW w \in Writer, NEW b \in Bytes, Locked(w), Op[w] = "append",
           Composed(w, b).err = "none"
    PROVE  LET c == Concat(b, Composed(w, b).data) IN
           /\ c \in Bytes /\ Len(c) = LineCount(b) + Size[w] + 1
           /\ LineCount(b) \in Nat /\ Size[w] \in Nat \ {0}
           /\ \A n \in 1 .. LineCount(b) : c[n] = b[n] /\ n \in DOMAIN b
           /\ \A i \in 1 .. Size[w] :
                LET l == c[LineCount(b) + i] IN
                WholeRecord(l) /\ l[1].w = w /\ l[1].i = i
           /\ ~ WholeRecord(c[LineCount(b) + Size[w] + 1])
  <1> DEFINE d == Composed(w, b).data
  <1>1. /\ TailOf(b) = << >>
        /\ d \in Bytes /\ Size[w] \in Nat \ {0} /\ Len(d) = Size[w] + 1
        /\ \A i \in 1 .. Size[w] : WholeRecord(d[i]) /\ d[i][1].w = w /\ d[i][1].i = i
        /\ d[Size[w] + 1] = << >>
    BY AppendedBatch
  <1>d. d = Composed(w, b).data
    OBVIOUS
  <1> HIDE DEF d
  <1>2. Len(b) \in Nat \ {0} /\ LineCount(b) \in Nat /\ Len(b) = LineCount(b) + 1 /\ DOMAIN b = 1 .. Len(b)
    BY DEF Bytes, LineCount
  <1>3. Concat(b, d) \in Bytes /\ Len(Concat(b, d)) = LineCount(b) + Size[w] + 1
    <2>1. Concat(b, d) \in Bytes /\ Len(Concat(b, d)) = Len(b) + Len(d) - 1
      BY <1>1, ConcatType
    <2>2. Len(d) = Size[w] + 1 /\ Size[w] \in Nat
      BY <1>1
    <2>3. LineCount(b) \in Nat /\ Len(b) = LineCount(b) + 1
      BY <1>2
    <2>4. \A l, s, x, y \in Int : x = l + 1 /\ y = s + 1 => x + y - 1 = l + s + 1
      OBVIOUS
    <2>5. Len(b) + Len(d) - 1 = LineCount(b) + Size[w] + 1
      BY <2>2, <2>3, <2>4
    <2> QED BY <2>1, <2>5
  <1>4. \A n \in 1 .. LineCount(b) : Concat(b, d)[n] = b[n] /\ n \in DOMAIN b
    <2>1. \A n \in 1 .. Len(b) - 1 : Concat(b, d)[n] = b[n]
      BY <1>1, ConcatType
    <2> QED BY <1>2, <2>1
  <1>5. \A i \in 1 .. Size[w] + 1 : Concat(b, d)[LineCount(b) + i] = d[i]
    BY <1>1, ConcatLines
  <1>6. Concat(b, d)[LineCount(b) + Size[w] + 1] = << >>
    BY <1>1, <1>2, <1>5
  <1>7. ~ WholeRecord(<< >>)
    BY DEF WholeRecord
  <1> DEFINE c == Concat(b, d)
  <1> HIDE DEF c
  <1>8. /\ c \in Bytes /\ Len(c) = LineCount(b) + Size[w] + 1
        /\ \A n \in 1 .. LineCount(b) : c[n] = b[n] /\ n \in DOMAIN b
    BY <1>3, <1>4 DEF c
  <1>9. \A i \in 1 .. Size[w] : c[LineCount(b) + i] = d[i]
    BY <1>1, <1>5 DEF c
  <1>10. \A i \in 1 .. Size[w] :
            LET l == c[LineCount(b) + i] IN
            WholeRecord(l) /\ l[1].w = w /\ l[1].i = i
    BY <1>1, <1>9
  <1>11. c = Concat(b, Composed(w, b).data) /\ ~ WholeRecord(c[LineCount(b) + Size[w] + 1])
    BY <1>d, <1>6, <1>7 DEF c
  <1> QED BY <1>1, <1>2, <1>8, <1>10, <1>11
-----------------------------------------------------------------------------
(* How a step changes a file.                                              *)

(* A file stays as it is, loses an end, is new, or is what a writer that   *)
(* holds its lock composed, all of it or a beginning, behind what it was.  *)
WrittenBy(w, f) ==
    LET c == Concat(file[f], data[w]) IN
    /\ pc[w] = "write" /\ at[w] = f /\ Locked(w)
    /\ Composed(w, file[f]) = Give(data[w])
    /\ file'[f] = c \/ (file'[f] \in Beginnings(c) /\ file[f] \in Beginnings(file'[f]))

FileChanges(f) ==
    \/ file'[f] = file[f]
    \/ file'[f] = Empty
    \/ file'[f] \in Beginnings(file[f])
    \/ \E w \in Writer : WrittenBy(w, f)

LEMMA BetweenBegins ==
    ASSUME NEW lo, NEW hi, NEW b \in Between(lo, hi)
    PROVE  b \in Beginnings(hi) /\ lo \in Beginnings(b)
  BY DEF Between

LEMMA FilesChange ==
    ASSUME TypeOK, ChainInvariant, [Next]_vars
    PROVE  \A f \in Files : FileChanges(f)
  <1>1. CASE file' = file
    BY <1>1 DEF FileChanges
  <1>2. ASSUME NEW w \in Writer, OpenCreating(w) PROVE \A f \in Files : FileChanges(f)
    <2>1. PICK f \in Unused : file' = [file EXCEPT ![f] = Empty]
      BY <1>2 DEF OpenCreating
    <2> QED BY <2>1 DEF FileChanges, TypeOK
  <1>3. ASSUME NEW w \in Writer, Write(w) \/ WriteShort(w)
        PROVE  \A f \in Files : FileChanges(f)
    <2> DEFINE whole == Concat(file[at[w]], data[w])
    <2>1. /\ pc[w] = "write" /\ Locked(w) /\ at[w] \in Files
          /\ Composed(w, file[at[w]]) = Give(data[w])
      BY <1>3 DEF Write, WriteShort, ChainInvariant, LockHeld, LockSteps, NoStaleCompose,
         TypeOK, OpenSteps, Locked
    <2>2. \E b : file' = [file EXCEPT ![at[w]] = b]
                 /\ (b = whole \/ (b \in Beginnings(whole) /\ file[at[w]] \in Beginnings(b)))
      <3>1. CASE Write(w)
        BY <3>1 DEF Write
      <3>2. CASE WriteShort(w)
        <4>1. PICK b \in Between(file[at[w]], whole) : file' = [file EXCEPT ![at[w]] = b]
          BY <3>2, Zenon DEF WriteShort
        <4> QED BY <4>1, BetweenBegins
      <3> QED BY <1>3, <3>1, <3>2
    <2>3. \A f \in Files \ {at[w]} : file'[f] = file[f]
      BY <2>2 DEF TypeOK
    <2>4. WrittenBy(w, at[w])
      BY <2>1, <2>2 DEF WrittenBy, TypeOK
    <2> QED BY <2>3, <2>4 DEF FileChanges
  <1>4. CASE PowerLoss
    BY <1>4, LossFiles DEF FileChanges
  <1>5. ASSUME NEW w \in Writer,
               \/ BeginAppend(w) \/ BeginRepair(w) \/ OpenExisting(w) \/ OpenAbsent(w)
               \/ Check(w) \/ Lock(w) \/ NoLock(w) \/ Recheck(w) \/ Reopen(w) \/ Compose(w)
        PROVE  file' = file
    BY <1>5 DEF BeginAppend, BeginRepair, OpenExisting, OpenAbsent, Check, Lock, NoLock,
       Recheck, Reopen, Compose, disk
  <1>6. ASSUME NEW w \in Writer,
               \/ Sync(w) \/ SyncEntry(w) \/ Then(w) \/ Unlock(w) \/ IOError(w)
               \/ Crash(w) \/ ShowDamage(w)
        PROVE  file' = file
    BY <1>6 DEF Sync, SyncEntry, Then, Unlock, IOError, Crash, ShowDamage, disk
  <1>7. MoveAside \/ UNCHANGED vars => file' = file
    BY DEF MoveAside, vars, disk
  <1> QED BY <1>1, <1>2, <1>3, <1>4, <1>5, <1>6, <1>7 DEF Next, Step, Progress

(* A writer that has begun does not begin again, and what was shown to one *)
(* stays what it was shown.                                                *)
LEMMA BegunStays ==
    ASSUME TypeOK, [Next]_vars
    PROVE  \A w \in Writer : /\ pc'[w] = "start" => pc[w] = "start"
                             /\ pc[w] # "start" => shown'[w] = shown[w]
  <1>1. ASSUME NEW v \in Writer, NEW step, Goto(v, step), step # "start",
               shown' = shown \/ (pc[v] = "start" /\ \E d : shown' = [shown EXCEPT ![v] = d])
        PROVE  \A w \in Writer : /\ pc'[w] = "start" => pc[w] = "start"
                                 /\ pc[w] # "start" => shown'[w] = shown[w]
    BY <1>1 DEF Goto, TypeOK
  <1>2. ASSUME NEW v \in Writer, NEW why, Fail(v, why), shown' = shown
        PROVE  \A w \in Writer : /\ pc'[w] = "start" => pc[w] = "start"
                                 /\ pc[w] # "start" => shown'[w] = shown[w]
    BY <1>1, <1>2 DEF Fail
  <1>3. ASSUME NEW v \in Writer,
               \/ BeginAppend(v) \/ OpenExisting(v) \/ OpenCreating(v) \/ Lock(v) \/ NoLock(v)
               \/ Recheck(v) \/ Write(v) \/ Sync(v) \/ SyncEntry(v) \/ Then(v)
        PROVE  \A w \in Writer : /\ pc'[w] = "start" => pc[w] = "start"
                                 /\ pc[w] # "start" => shown'[w] = shown[w]
    BY <1>1, <1>3 DEF BeginAppend, OpenExisting, OpenCreating, Lock, NoLock, Recheck, Write, Sync,
       SyncEntry, Then, call
  <1>4. ASSUME NEW v \in Writer, Reopen(v) \/ Unlock(v) \/ Crash(v) \/ ShowDamage(v)
        PROVE  \A w \in Writer : /\ pc'[w] = "start" => pc[w] = "start"
                                 /\ pc[w] # "start" => shown'[w] = shown[w]
    BY <1>1, <1>4 DEF Reopen, Unlock, Crash, ShowDamage, Forget
  <1>5. ASSUME NEW v \in Writer,
               BeginRepair(v) \/ OpenAbsent(v) \/ Check(v) \/ Compose(v) \/ WriteShort(v) \/ IOError(v)
        PROVE  \A w \in Writer : /\ pc'[w] = "start" => pc[w] = "start"
                                 /\ pc[w] # "start" => shown'[w] = shown[w]
    BY <1>1, <1>2, <1>5 DEF BeginRepair, OpenAbsent, Check, Compose, WriteShort, IOError
  <1>6. CASE MoveAside \/ UNCHANGED vars
    BY <1>6 DEF MoveAside, vars, call
  <1>7. CASE PowerLoss
    BY <1>7 DEF PowerLoss, Forget
  <1> QED BY <1>3, <1>4, <1>5, <1>6, <1>7 DEF Next, Step, Progress

-----------------------------------------------------------------------------
(* A run's records stay together.  The rule holds of the unfinished last   *)
(* line too, which a repair may make a line.                               *)
RunBefore(b, n) ==
    LET p == b[n][1] IN
    WholeRecord(b[n]) /\ p.kind = "graph-composite" =>
        \A i \in 1 .. p.i - 1 :
            LET l == b[n - p.i + i] IN
            n - p.i + i >= 1 /\ WholeRecord(l) /\ l[1].w = p.w /\ l[1].i = i

RunsWhole(b) == \A n \in DOMAIN b : RunBefore(b, n)

(* The lines before a line decide.                                         *)
LEMMA RunBeforeSame ==
    ASSUME NEW b \in Bytes, NEW c \in Bytes, NEW n \in DOMAIN c, n \in DOMAIN b,
           \A m \in 1 .. n - 1 : c[m] = b[m],
           WholeRecord(c[n]) => c[n] = b[n],
           RunBefore(b, n)
    PROVE  RunBefore(c, n)
  <1> SUFFICES ASSUME WholeRecord(c[n]), c[n][1].kind = "graph-composite",
                      NEW i \in 1 .. c[n][1].i - 1
               PROVE  LET l == c[n - c[n][1].i + i] IN
                      /\ n - c[n][1].i + i >= 1 /\ WholeRecord(l)
                      /\ l[1].w = c[n][1].w /\ l[1].i = i
    BY DEF RunBefore
  <1> DEFINE p == b[n][1]
  <1>1. c[n] = b[n] /\ p.i \in Nat /\ n \in Nat
    <2>1. b[n] \in Line /\ n \in Nat /\ c[n] = b[n]
      BY DEF Bytes
    <2>2. p \in Piece
      <3>1. b[n] \in Seq(Piece) /\ Len(b[n]) = 1
        BY <2>1 DEF Line, WholeRecord
      <3>2. 1 \in 1 .. Len(b[n])
        BY <3>1
      <3>3. \A l \in Seq(Piece) : \A k \in 1 .. Len(l) : l[k] \in Piece
        OBVIOUS
      <3> QED BY <3>1, <3>2, <3>3, Zenon
    <2> QED BY <2>1, <2>2 DEF Piece
  <1>2. LET l == b[n - p.i + i] IN
        n - p.i + i >= 1 /\ WholeRecord(l) /\ l[1].w = p.w /\ l[1].i = i
    BY <1>1 DEF RunBefore
  <1>3. n - p.i + i \in 1 .. n - 1
    BY <1>1, <1>2
  <1>4. c[n - p.i + i] = b[n - p.i + i]
    BY <1>3
  <1> HIDE DEF p
  <1> QED BY <1>1, <1>2, <1>4 DEF p

LEMMA BeginningRuns ==
    ASSUME NEW b \in Bytes, WellLinked(b), RunsWhole(b), NEW c \in Beginnings(b)
    PROVE  RunsWhole(c)
  <1> SUFFICES ASSUME NEW n \in DOMAIN c PROVE RunBefore(c, n)
    BY DEF RunsWhole
  <1>1. /\ c \in Bytes /\ n \in DOMAIN b
        /\ \A m \in DOMAIN c : m \in DOMAIN b /\ (m < Len(c) \/ WholeRecord(c[m]) => c[m] = b[m])
    BY BeginningLines
  <1>2. \A m \in 1 .. n - 1 : c[m] = b[m]
    BY <1>1 DEF Bytes
  <1> QED BY <1>1, <1>2, RunBeforeSame DEF RunsWhole

(* A line of the writer's batch has those of the batch before it.          *)
LEMMA AppendRuns ==
    ASSUME TypeOK, NEW w \in Writer, NEW b \in Bytes, Locked(w), Op[w] = "append",
           Composed(w, b).err = "none", RunsWhole(b)
    PROVE  RunsWhole(Concat(b, Composed(w, b).data))
  <1> DEFINE c == Concat(b, Composed(w, b).data)
             k == LineCount(b)
  <1>1. /\ c \in Bytes /\ Len(c) = k + Size[w] + 1
        /\ k \in Nat /\ Size[w] \in Nat \ {0}
        /\ \A n \in 1 .. k : c[n] = b[n] /\ n \in DOMAIN b
        /\ \A i \in 1 .. Size[w] :
             LET l == c[k + i] IN WholeRecord(l) /\ l[1].w = w /\ l[1].i = i
        /\ ~ WholeRecord(c[k + Size[w] + 1])
    BY AppendedLines
  <1> HIDE DEF c, k
  <1> SUFFICES ASSUME NEW n \in DOMAIN c PROVE RunBefore(c, n)
    BY DEF RunsWhole, c
  <1>2. n \in 1 .. k + Size[w] + 1 /\ n \in Nat
    BY <1>1 DEF Bytes
  <1>3. CASE n <= k
    <2>1. /\ n \in DOMAIN b /\ c[n] = b[n]
          /\ \A m \in 1 .. n - 1 : c[m] = b[m]
      BY <1>1, <1>2, <1>3
    <2> QED BY <1>1, <2>1, RunBeforeSame DEF RunsWhole
  <1>4. CASE n = k + Size[w] + 1
    BY <1>1, <1>4 DEF RunBefore
  <1>5. CASE n > k /\ n <= k + Size[w]
    <2> DEFINE j == n - k
    <2>1. j \in 1 .. Size[w] /\ n = k + j /\ j \in Nat
      BY <1>1, <1>2, <1>5
    <2> HIDE DEF j
    <2>2. WholeRecord(c[n]) /\ c[n][1].w = w /\ c[n][1].i = j
      BY <1>1, <2>1
    <2>3. ASSUME NEW i \in 1 .. j - 1
          PROVE  LET l == c[n - j + i] IN
                 n - j + i >= 1 /\ WholeRecord(l) /\ l[1].w = w /\ l[1].i = i
      <3>1. n - j + i = k + i /\ i \in 1 .. Size[w]
        BY <1>1, <2>1
      <3>2. WholeRecord(c[k + i]) /\ c[k + i][1].w = w /\ c[k + i][1].i = i
        BY <1>1, <3>1
      <3> QED BY <1>1, <3>1, <3>2
    <2> QED BY <2>2, <2>3 DEF RunBefore
  <1> QED BY <1>1, <1>2, <1>3, <1>4, <1>5

LEMMA RepairRuns ==
    ASSUME TypeOK, NEW w \in Writer, NEW b \in Bytes, Locked(w), Op[w] \in {"repair", "bound"},
           Composed(w, b).err = "none", RunsWhole(b)
    PROVE  RunsWhole(Concat(b, Composed(w, b).data))
  <1> DEFINE c == Concat(b, Composed(w, b).data)
  <1>1. /\ c \in Bytes /\ Len(c) = Len(b) + 2 /\ Len(b) \in Nat \ {0}
        /\ \A n \in 1 .. Len(b) : c[n] = b[n]
        /\ c[Len(b) + 1] = << Discontinuity(w, b) >>
        /\ c[Len(b) + 2] = << >>
    BY RepairedLines
  <1> HIDE DEF c
  <1> SUFFICES ASSUME NEW n \in DOMAIN c PROVE RunBefore(c, n)
    BY DEF RunsWhole, c
  <1>2. n \in 1 .. Len(b) + 2 /\ n \in Nat
    BY <1>1 DEF Bytes
  <1>3. CASE n <= Len(b)
    <2>1. /\ n \in DOMAIN b /\ c[n] = b[n]
          /\ \A m \in 1 .. n - 1 : c[m] = b[m]
      BY <1>1, <1>2, <1>3 DEF Bytes
    <2> QED BY <1>1, <2>1, RunBeforeSame DEF RunsWhole
  <1>4. CASE n = Len(b) + 1
    <2>1. c[n][1].kind = "discontinuity"
      BY <1>1, <1>4 DEF Discontinuity
    <2> QED BY <2>1 DEF RunBefore
  <1>5. CASE n = Len(b) + 2
    BY <1>1, <1>5 DEF RunBefore, WholeRecord
  <1> QED BY <1>1, <1>2, <1>3, <1>4, <1>5

LEMMA EmptyRuns == RunsWhole(Empty)
  BY DEF RunsWhole, RunBefore, Empty, WholeRecord

LEMMA LegacyRuns == RunsWhole(LegacyTrail)
  <1> SUFFICES ASSUME NEW n \in DOMAIN LegacyTrail PROVE RunBefore(LegacyTrail, n)
    BY DEF RunsWhole
  <1>1. n \in 1 .. Legacy + 1
    BY LegacyLines DEF Bytes
  <1>2. CASE n = Legacy + 1
    BY <1>2, LegacyLines DEF RunBefore, WholeRecord
  <1>3. CASE n \in 1 .. Legacy
    <2>1. LegacyTrail[n] = << Unchained(Old, n, 1, FALSE) >>
      BY <1>3, LegacyLines
    <2>2. LegacyTrail[n][1] = Unchained(Old, n, 1, FALSE)
      BY <2>1, OnePiece, Zenon
    <2>3. LegacyTrail[n][1].kind = "record"
      BY <2>2 DEF Unchained
    <2> QED BY <2>3 DEF RunBefore
  <1> QED BY <1>1, <1>2, <1>3, LegacyLines

(* Where every writer chains and is offered the lock, a composite that is  *)
(* a line of a trail has every node record of its run before it: the batch *)
(* was written at once behind a finished line, and a part of it that was   *)
(* cut short or lost is lost from its end.                                 *)
LEMMA RunsStep ==
    ASSUME TypeOK, ChainInvariant, NEW f \in Files, RunsWhole(file[f]), FileChanges(f)
    PROVE  RunsWhole(file'[f])
  <1> DEFINE b == file[f]
  <1>1. b \in Bytes /\ WellLinked(b)
    BY DEF TypeOK, ChainInvariant
  <1>2. CASE file'[f] = b
    BY <1>2
  <1>3. CASE file'[f] = Empty
    BY <1>3, EmptyRuns
  <1>4. CASE file'[f] \in Beginnings(b)
    BY <1>1, <1>4, BeginningRuns
  <1>5. ASSUME NEW w \in Writer, WrittenBy(w, f) PROVE RunsWhole(file'[f])
    <2> DEFINE d == Composed(w, b).data
               c == Concat(b, d)
    <2>1. Composed(w, b).err = "none" /\ d = data[w] /\ Locked(w)
      BY <1>5 DEF WrittenBy, Give
    <2>2. c \in Bytes
      BY <1>1, <2>1, ConcatType DEF TypeOK
    <2>3. WellLinked(c)
      BY <1>1, <2>1, ComposedLinked
    <2>4. RunsWhole(c)
      <3>1. CASE Op[w] = "append"
        BY <1>1, <2>1, <3>1, AppendRuns
      <3>2. CASE Op[w] \in {"repair", "bound"}
        BY <1>1, <2>1, <3>2, RepairRuns
      <3>3. CASE Op[w] = "rotate"
        BY <1>1, <2>1, <3>3, RotatedLines
      <3> QED BY <3>1, <3>2, <3>3, WriterAssumption
    <2>5. file'[f] = c \/ file'[f] \in Beginnings(c)
      BY <1>5, <2>1 DEF WrittenBy
    <2> HIDE DEF c
    <2> QED BY <2>2, <2>3, <2>4, <2>5, BeginningRuns
  <1> QED BY <1>2, <1>3, <1>4, <1>5 DEF FileChanges

THEOREM RunsStayWhole ==
    ASSUME \A w \in Writer : Lockable[w], \A w \in Writer : Chain[w]
    PROVE  Spec => []RunWhole
  <1> DEFINE Inv == TypeOK /\ ChainInvariant /\ \A f \in Files : RunsWhole(file[f])
  <1>1. Init => Inv
    BY TypeInit, ChainInit, EmptyRuns, LegacyRuns DEF Init
  <1>2. Inv /\ [Next]_vars => Inv'
    <2> SUFFICES ASSUME Inv, [Next]_vars PROVE Inv'
      OBVIOUS
    <2>1. TypeOK' /\ ChainInvariant'
      BY TypeStep, ChainStep
    <2>2. \A f \in Files : RunsWhole(file'[f])
      BY FilesChange, RunsStep
    <2> QED BY <2>1, <2>2
  <1>3. Inv => RunWhole
    BY DEF RunsWhole, RunBefore, RunWhole, LineCount, TypeOK, Bytes
  <1> QED BY <1>1, <1>2, <1>3, PTL DEF Spec
-----------------------------------------------------------------------------
(* What a repair that was confirmed on some bytes ended.                   *)

(* Of a file, of where each writer is and of what it was shown: a writer   *)
(* that has a record there has begun, and a bound repair's record follows  *)
(* the bytes it was shown.                                                 *)
Confirmed(b, at_, seen) ==
    \A n \in DOMAIN b :
        LET v == b[n][1].w IN
        WholeRecord(b[n]) /\ v \in Writer =>
            /\ at_[v] # "start"
            /\ Op[v] = "bound" => n > 1 /\ LineDigest(b[n - 1]) = seen[v]

LEMMA ConfirmedLater ==
    ASSUME TypeOK, [Next]_vars, NEW b, Confirmed(b, pc, shown)
    PROVE  Confirmed(b, pc', shown')
  BY BegunStays DEF Confirmed

LEMMA BeginningConfirmed ==
    ASSUME NEW b \in Bytes, WellLinked(b), NEW at_, NEW seen, Confirmed(b, at_, seen),
           NEW c \in Beginnings(b)
    PROVE  Confirmed(c, at_, seen)
  <1> SUFFICES ASSUME NEW n \in DOMAIN c, WholeRecord(c[n]), c[n][1].w \in Writer
               PROVE  /\ at_[c[n][1].w] # "start"
                      /\ Op[c[n][1].w] = "bound" =>
                            n > 1 /\ LineDigest(c[n - 1]) = seen[c[n][1].w]
    BY DEF Confirmed
  <1>1. /\ c \in Bytes /\ n \in DOMAIN b
        /\ \A m \in DOMAIN c : m \in DOMAIN b /\ (m < Len(c) \/ WholeRecord(c[m]) => c[m] = b[m])
    BY BeginningLines
  <1>2. c[n] = b[n] /\ n \in 1 .. Len(c) /\ DOMAIN c = 1 .. Len(c) /\ Len(c) \in Nat
    BY <1>1 DEF Bytes
  <1>3. /\ at_[c[n][1].w] # "start"
        /\ Op[c[n][1].w] = "bound" => n > 1 /\ LineDigest(b[n - 1]) = seen[c[n][1].w]
    BY <1>1, <1>2 DEF Confirmed
  <1>4. n > 1 => c[n - 1] = b[n - 1]
    <2>1. n > 1 => n - 1 \in DOMAIN c /\ n - 1 < Len(c)
      BY <1>2
    <2> QED BY <1>1, <2>1
  <1> QED BY <1>3, <1>4

LEMMA AppendConfirmed ==
    ASSUME TypeOK, NEW w \in Writer, NEW b \in Bytes, Locked(w), Op[w] = "append",
           Composed(w, b).err = "none", Confirmed(b, pc, shown), pc[w] # "start"
    PROVE  Confirmed(Concat(b, Composed(w, b).data), pc, shown)
  <1> DEFINE c == Concat(b, Composed(w, b).data)
             k == LineCount(b)
  <1>1. /\ c \in Bytes /\ Len(c) = k + Size[w] + 1
        /\ k \in Nat /\ Size[w] \in Nat \ {0}
        /\ \A n \in 1 .. k : c[n] = b[n] /\ n \in DOMAIN b
        /\ \A i \in 1 .. Size[w] :
             LET l == c[k + i] IN WholeRecord(l) /\ l[1].w = w /\ l[1].i = i
        /\ ~ WholeRecord(c[k + Size[w] + 1])
    BY AppendedLines
  <1> HIDE DEF c, k
  <1> SUFFICES ASSUME NEW n \in DOMAIN c, WholeRecord(c[n]), c[n][1].w \in Writer
               PROVE  /\ pc[c[n][1].w] # "start"
                      /\ Op[c[n][1].w] = "bound" =>
                            n > 1 /\ LineDigest(c[n - 1]) = shown[c[n][1].w]
    BY DEF Confirmed, c
  <1>2. n \in 1 .. k + Size[w] + 1 /\ n \in Nat
    BY <1>1 DEF Bytes
  <1>3. CASE n <= k
    <2>0. n \in 1 .. k /\ (n > 1 => n - 1 \in 1 .. k)
      BY <1>1, <1>2, <1>3
    <2>1. n \in DOMAIN b /\ c[n] = b[n] /\ (n > 1 => c[n - 1] = b[n - 1])
      BY <1>1, <2>0
    <2>2. /\ pc[c[n][1].w] # "start"
          /\ Op[c[n][1].w] = "bound" => n > 1 /\ LineDigest(b[n - 1]) = shown[c[n][1].w]
      BY <2>1 DEF Confirmed
    <2> QED BY <2>1, <2>2
  <1>4. CASE n > k
    <2> DEFINE j == n - k
    <2>1. j \in 1 .. Size[w] /\ n = k + j
      BY <1>1, <1>2, <1>4
    <2> HIDE DEF j
    <2>2. c[n][1].w = w
      BY <1>1, <2>1
    <2> QED BY <2>2
  <1> QED BY <1>1, <1>2, <1>3, <1>4

LEMMA RepairConfirmed ==
    ASSUME TypeOK, NEW w \in Writer, NEW b \in Bytes, Locked(w), Op[w] \in {"repair", "bound"},
           Composed(w, b).err = "none", Confirmed(b, pc, shown), pc[w] # "start"
    PROVE  Confirmed(Concat(b, Composed(w, b).data), pc, shown)
  <1> DEFINE c == Concat(b, Composed(w, b).data)
  <1>1. /\ c \in Bytes /\ Len(c) = Len(b) + 2 /\ Len(b) \in Nat \ {0}
        /\ \A n \in 1 .. Len(b) : c[n] = b[n]
        /\ c[Len(b) + 1] = << Discontinuity(w, b) >>
        /\ c[Len(b) + 2] = << >>
        /\ Op[w] = "bound" => LineDigest(TailOf(b)) = shown[w]
    BY RepairedLines
  <1> HIDE DEF c
  <1> SUFFICES ASSUME NEW n \in DOMAIN c, WholeRecord(c[n]), c[n][1].w \in Writer
               PROVE  /\ pc[c[n][1].w] # "start"
                      /\ Op[c[n][1].w] = "bound" =>
                            n > 1 /\ LineDigest(c[n - 1]) = shown[c[n][1].w]
    BY DEF Confirmed, c
  <1>2. n \in 1 .. Len(b) + 2 /\ n \in Nat
    BY <1>1 DEF Bytes
  <1>3. CASE n <= Len(b)
    <2>0. n \in 1 .. Len(b) /\ (n > 1 => n - 1 \in 1 .. Len(b)) /\ DOMAIN b = 1 .. Len(b)
      BY <1>1, <1>2, <1>3 DEF Bytes
    <2>1. n \in DOMAIN b /\ c[n] = b[n] /\ (n > 1 => c[n - 1] = b[n - 1])
      BY <1>1, <2>0
    <2>2. /\ pc[c[n][1].w] # "start"
          /\ Op[c[n][1].w] = "bound" => n > 1 /\ LineDigest(b[n - 1]) = shown[c[n][1].w]
      BY <2>1 DEF Confirmed
    <2> QED BY <2>1, <2>2
  <1>4. CASE n = Len(b) + 1
    <2>1. c[n][1].w = w
      BY <1>1, <1>4 DEF Discontinuity
    <2>2. n > 1 /\ c[n - 1] = TailOf(b)
      BY <1>1, <1>4 DEF TailOf
    <2> QED BY <1>1, <2>1, <2>2
  <1>5. CASE n = Len(b) + 2
    BY <1>1, <1>5 DEF WholeRecord
  <1> QED BY <1>1, <1>2, <1>3, <1>4, <1>5

LEMMA EmptyConfirmed ==
    ASSUME NEW at_, NEW seen
    PROVE  Confirmed(Empty, at_, seen)
  BY DEF Confirmed, Empty, WholeRecord

LEMMA LegacyConfirmed ==
    ASSUME NEW at_, NEW seen
    PROVE  Confirmed(LegacyTrail, at_, seen)
  <1> SUFFICES ASSUME NEW n \in DOMAIN LegacyTrail, WholeRecord(LegacyTrail[n])
               PROVE  LegacyTrail[n][1].w \notin Writer
    BY DEF Confirmed
  <1>1. n \in 1 .. Legacy + 1
    BY LegacyLines DEF Bytes
  <1>2. n # Legacy + 1
    BY LegacyLines DEF WholeRecord
  <1>3. LegacyTrail[n] = << Unchained(Old, n, 1, FALSE) >>
    <2>1. n \in 1 .. Legacy
      BY <1>1, <1>2, LegacyLines
    <2> QED BY <2>1, LegacyLines
  <1>4. LegacyTrail[n][1] = Unchained(Old, n, 1, FALSE)
    BY <1>3, OnePiece, Zenon
  <1>5. LegacyTrail[n][1].w = Old
    BY <1>4 DEF Unchained
  <1> QED BY <1>5, WriterAssumption

LEMMA ConfirmedStep ==
    ASSUME TypeOK, ChainInvariant, [Next]_vars,
           NEW f \in Files, Confirmed(file[f], pc, shown), FileChanges(f)
    PROVE  Confirmed(file'[f], pc', shown')
  <1> DEFINE b == file[f]
  <1>1. b \in Bytes /\ WellLinked(b)
    BY DEF TypeOK, ChainInvariant
  <1>2. CASE file'[f] = b
    BY <1>2, ConfirmedLater
  <1>3. CASE file'[f] = Empty
    BY <1>3, EmptyConfirmed
  <1>4. CASE file'[f] \in Beginnings(b)
    <2>1. Confirmed(file'[f], pc, shown)
      BY <1>1, <1>4, BeginningConfirmed
    <2> QED BY <2>1, ConfirmedLater
  <1>5. ASSUME NEW w \in Writer, WrittenBy(w, f) PROVE Confirmed(file'[f], pc', shown')
    <2> DEFINE d == Composed(w, b).data
               c == Concat(b, d)
    <2>1. Composed(w, b).err = "none" /\ d = data[w] /\ Locked(w) /\ pc[w] # "start"
      BY <1>5 DEF WrittenBy, Give
    <2>2. c \in Bytes
      BY <1>1, <2>1, ConcatType DEF TypeOK
    <2>3. WellLinked(c)
      BY <1>1, <2>1, ComposedLinked
    <2>4. Confirmed(c, pc, shown)
      <3>1. CASE Op[w] = "append"
        BY <1>1, <2>1, <3>1, AppendConfirmed
      <3>2. CASE Op[w] \in {"repair", "bound"}
        BY <1>1, <2>1, <3>2, RepairConfirmed
      <3>3. CASE Op[w] = "rotate"
        BY <1>1, <2>1, <3>3, RotatedLines
      <3> QED BY <3>1, <3>2, <3>3, WriterAssumption
    <2>5. file'[f] = c \/ file'[f] \in Beginnings(c)
      BY <1>5, <2>1 DEF WrittenBy
    <2> HIDE DEF c
    <2>6. Confirmed(file'[f], pc, shown)
      BY <2>2, <2>3, <2>4, <2>5, BeginningConfirmed
    <2> QED BY <2>6, ConfirmedLater
  <1> QED BY <1>2, <1>3, <1>4, <1>5 DEF FileChanges

(* A linked file that ends in a newline is refused by no writer.           *)
LEMMA LinkedNotRefused ==
    ASSUME NEW b \in Bytes, WellLinked(b), TailOf(b) = << >>
    PROVE  HeadRefusal(b) = "none"
  <1> DEFINE n == LineCount(b)
  <1>1. /\ n \in Nat /\ DOMAIN b = 1 .. n + 1 /\ Len(b) = n + 1
        /\ b \in Seq(Line)
    BY DEF Bytes, LineCount
  <1>2. \A k \in 1 .. n : ~ Oversized(b[k])
    BY <1>1 DEF WellLinked
  <1>3. CASE n = 0
    <2>1. b = Empty
      BY <1>1, <1>3 DEF Empty, TailOf
    <2> QED BY <2>1 DEF HeadRefusal
  <1>4. CASE n > 0
    BY <1>1, <1>2, <1>4 DEF HeadRefusal
  <1> QED BY <1>1, <1>3, <1>4

(* So a repair under the lock takes every damaged end of one but a         *)
(* repair's own.                                                           *)
LEMMA LinkedRepairable ==
    ASSUME NEW b \in Bytes, WellLinked(b), NEW w \in Writer, TailOf(b) # << >>,
           RepairLines(b, w, TRUE, FALSE, Empty).err # "none"
    PROVE  DiscontinuityKind(TailOf(b))
  <1> DEFINE before == UpTo(b, LineCount(b))
  <1>1. LineCount(b) \in 0 .. LineCount(b) /\ Len(b) \in DOMAIN b
    BY DEF Bytes, LineCount
  <1>2. before \in Bytes /\ TailOf(before) = << >> /\ WellLinked(before)
    BY <1>1, UpToType, UpToBeginning, BeginningLinked
  <1>3. HeadRefusal(before) = "none"
    BY <1>2, LinkedNotRefused
  <1>4. ~ Oversized(TailOf(b))
    BY <1>1 DEF WellLinked, TailOf
  <1> HIDE DEF before
  <1> QED BY <1>3, <1>4 DEF RepairLines, Refuse, Give, before

(* Where every writer chains and is offered the lock, a repair ends        *)
(* exactly the bytes it was confirmed on, whatever was written, cut short  *)
(* or lost between the confirmation and the repair; and an end that a      *)
(* repair refuses is the torn end of another repair.                       *)
THEOREM RepairsExact ==
    ASSUME \A w \in Writer : Lockable[w], \A w \in Writer : Chain[w]
    PROVE  Spec => []RepairExact
  <1> DEFINE Inv == /\ TypeOK /\ ChainInvariant
                    /\ \A f \in Files : Confirmed(file[f], pc, shown)
  <1>1. Init => Inv
    BY TypeInit, ChainInit, EmptyConfirmed, LegacyConfirmed DEF Init
  <1>2. Inv /\ [Next]_vars => Inv'
    <2> SUFFICES ASSUME Inv, [Next]_vars PROVE Inv'
      OBVIOUS
    <2>1. TypeOK' /\ ChainInvariant'
      BY TypeStep, ChainStep
    <2>2. \A f \in Files : Confirmed(file'[f], pc', shown')
      BY FilesChange, ConfirmedStep
    <2> QED BY <2>1, <2>2
  <1>3. Inv => RepairExact
    <2> SUFFICES ASSUME Inv PROVE ConfirmedRepair /\ OnlyTornRepairStuck
      BY DEF RepairExact
    <2>1. ConfirmedRepair
      <3> SUFFICES ASSUME NEW f \in Files, NEW n \in 1 .. LineCount(file[f]),
                          WholeRecord(file[f][n]), file[f][n][1].w \in Writer,
                          Op[file[f][n][1].w] = "bound"
                   PROVE  n > 1 /\ LineDigest(file[f][n - 1]) = shown[file[f][n][1].w]
        BY DEF ConfirmedRepair
      <3>1. n \in DOMAIN file[f]
        BY DEF LineCount, TypeOK, Bytes
      <3> QED BY <3>1 DEF Confirmed
    <2>2. OnlyTornRepairStuck
      BY LinkedRepairable DEF OnlyTornRepairStuck, TypeOK, ChainInvariant
    <2> QED BY <2>1, <2>2
  <1> QED BY <1>1, <1>2, <1>3, PTL DEF Spec
-----------------------------------------------------------------------------
(* What becomes of an append that was reported written.                    *)

(* The whole batch of w, one line behind the other.                        *)
HasBatch(b, w) ==
    \E n \in 0 .. LineCount(b) - Size[w] :
        \A i \in 1 .. Size[w] :
            /\ WholeRecord(b[n + i])
            /\ b[n + i][1].w = w /\ b[n + i][1].i = i

(* The files a power loss cannot unname.                                   *)
Safe == {f \in Files : f = durDir.trail \/ f \in durDir.aside}

(* What is durable is in the file, and what is safely named is named.      *)
DiskInvariant ==
    /\ dir.made /\ durDir.made
    /\ Safe \subseteq Reachable
    /\ \A f \in Files : Extends(durable[f], file[f])

(* How far w's batch has come.                                             *)
BatchAt(w) ==
    /\ pc[w] \in OpenSteps => at[w] \in Reachable
    /\ pc[w] \in {"start", "shown", "open"} => at[w] = NoFile
    /\ Op[w] = "append" =>
        /\ pc[w] = "sync" => HasBatch(file[at[w]], w)
        /\ pc[w] = "entry" => HasBatch(durable[at[w]], w)
        /\ pc[w] = "then" \/ (pc[w] \in {"unlock", "end"} /\ err[w] = "none") =>
              \E f \in Safe : HasBatch(durable[f], w)


LEMMA BatchStays ==
    ASSUME NEW b \in Bytes, NEW c \in Bytes, Extends(b, c), NEW w \in Writer, HasBatch(b, w)
    PROVE  HasBatch(c, w)
  <1>1. Size[w] \in Nat \ {0} /\ LineCount(b) \in Nat /\ LineCount(c) \in Nat
    BY WriterAssumption DEF LineCount, Bytes
  <1>2. LineCount(b) <= LineCount(c) /\ \A n \in 1 .. LineCount(b) : c[n] = b[n]
    BY DEF Extends, LineCount, Bytes
  <1>3. PICK n \in 0 .. LineCount(b) - Size[w] :
            \A i \in 1 .. Size[w] :
                /\ WholeRecord(b[n + i])
                /\ b[n + i][1].w = w /\ b[n + i][1].i = i
    BY DEF HasBatch
  <1>4. n \in 0 .. LineCount(c) - Size[w]
    BY <1>1, <1>2
  <1>5. \A i \in 1 .. Size[w] : c[n + i] = b[n + i]
    <2>1. \A i \in 1 .. Size[w] : n + i \in 1 .. LineCount(b)
      BY <1>1
    <2> QED BY <1>2, <2>1
  <1> QED BY <1>3, <1>4, <1>5 DEF HasBatch

(* A power loss takes back nothing that was durable.                       *)
LEMMA LossKeeps ==
    ASSUME TypeOK, PowerLoss
    PROVE  \A f \in Files : \/ file'[f] = durable[f] /\ file'[f] = file[f]
                            \/ durable[f] \in Beginnings(file'[f])
  <1> DEFINE dirty == {f \in Files : file[f] # durable[f]}
             left == UNION {Between(durable[f], file[f]) : f \in dirty}
  <1>1. PICK found \in [dirty -> left] :
            /\ \A f \in dirty : found[f] \in Between(durable[f], file[f])
            /\ file' = [f \in Files |-> IF f \in dirty THEN found[f] ELSE file[f]]
    BY Zenon DEF PowerLoss
  <1>2. \A f \in dirty : durable[f] \in Beginnings(found[f])
    BY <1>1, BetweenBegins
  <1> HIDE DEF left
  <1> QED BY <1>1, <1>2

(* What a step leaves of the disk: what was durable stays, what was named  *)
(* stays named, and short of a power loss what was written stays.          *)
DiskKept ==
    /\ \A f \in Reachable : Extends(durable[f], durable'[f])
    /\ Safe \subseteq Safe'
    /\ \/ PowerLoss
       \/ /\ Reachable \subseteq Reachable'
          /\ \A f \in Reachable : Extends(file[f], file'[f])

LEMMA DiskStep ==
    ASSUME TypeOK, TypeOK', ChainInvariant, DiskInvariant, [Next]_vars,
           \A w \in Writer : pc[w] \in OpenSteps => at[w] \in Reachable
    PROVE  DiskInvariant' /\ DiskKept
  <1>0. \A f \in Files : /\ file[f] \in Bytes /\ durable[f] \in Bytes
                         /\ file'[f] \in Bytes /\ durable'[f] \in Bytes
    BY DEF TypeOK
  <1>1. CASE disk' = disk
    BY <1>0, <1>1, ExtendsItself DEF disk, DiskInvariant, DiskKept, Safe, Reachable
  <1>2. ASSUME NEW w \in Writer, BeginAppend(w) PROVE DiskInvariant' /\ DiskKept
    <2>1. dir' = dir /\ UNCHANGED <<durDir, file, durable>>
      BY <1>2 DEF BeginAppend, DiskInvariant, TypeOK, Dirs
    <2> QED BY <1>1, <2>1 DEF disk
  <1>3. ASSUME NEW w \in Writer, OpenCreating(w) PROVE DiskInvariant' /\ DiskKept
    <2>1. PICK f \in Unused :
            /\ dir' = [dir EXCEPT !.trail = f]
            /\ file' = [file EXCEPT ![f] = Empty]
            /\ durable' = [durable EXCEPT ![f] = Empty]
      BY <1>3 DEF OpenCreating
    <2>2. dir.trail = NoFile /\ durDir' = durDir /\ f \in Files /\ f \notin Reachable
      BY <1>3, <2>1 DEF OpenCreating, Unused, Reachable
    <2>3. dir'.made = dir.made /\ dir'.aside = dir.aside /\ dir'.trail = f
      BY <2>1 DEF TypeOK, Dirs
    <2>4. Reachable \subseteq Reachable' /\ Safe' = Safe
      BY <2>2, <2>3, WriterAssumption DEF Reachable, Safe
    <2>5. \A g \in Reachable : file'[g] = file[g] /\ durable'[g] = durable[g]
      BY <2>1, <2>2 DEF TypeOK, Reachable
    <2>6. \A g \in Files : Extends(durable'[g], file'[g])
      <3>1. Extends(Empty, Empty)
        BY EmptyType, ExtendsItself
      <3> QED BY <2>1, <3>1 DEF DiskInvariant, TypeOK
    <2>7. DiskInvariant'
      BY <2>2, <2>3, <2>4, <2>6 DEF DiskInvariant
    <2>8. DiskKept
      BY <1>0, <2>4, <2>5, ExtendsItself DEF DiskKept, Reachable
    <2> QED BY <2>7, <2>8
  <1>4. ASSUME NEW w \in Writer, Write(w) \/ WriteShort(w) PROVE DiskInvariant' /\ DiskKept
    <2>1. UNCHANGED <<dir, durDir, durable>> /\ at[w] \in Files
      BY <1>4 DEF Write, WriteShort, TypeOK, OpenSteps
    <2>2. \A f \in Files : Extends(file[f], file'[f])
      <3>1. file' # file => file' = [file EXCEPT ![at[w]] = file'[at[w]]]
        BY <1>4, <2>1 DEF Write, WriteShort, TypeOK
      <3>2. CASE Write(w)
        <4>1. file'[at[w]] = Concat(file[at[w]], data[w])
          BY <2>1, <3>2 DEF Write, TypeOK
        <4>2. data[w] \in Bytes
          BY DEF TypeOK
        <4> QED BY <1>0, <2>1, <3>1, <4>1, <4>2, ExtendsItself, ConcatExtends DEF TypeOK
      <3>3. CASE WriteShort(w)
        <4>1. PICK b \in Between(file[at[w]], Concat(file[at[w]], data[w])) :
                  file' = [file EXCEPT ![at[w]] = b]
          BY <3>3, Zenon DEF WriteShort
        <4>2. file'[at[w]] = b /\ file[at[w]] \in Beginnings(b)
          BY <2>1, <4>1, BetweenBegins DEF TypeOK
        <4>3. Extends(file[at[w]], b)
          BY <1>0, <2>1, <4>2, BeginningExtends
        <4> QED BY <1>0, <2>1, <3>1, <4>2, <4>3, ExtendsItself DEF TypeOK
      <3> QED BY <1>4, <3>2, <3>3
    <2>3. \A f \in Files : Extends(durable'[f], file'[f])
      BY <1>0, <2>1, <2>2, ExtendsTransitive DEF DiskInvariant
    <2> QED BY <1>0, <2>1, <2>2, <2>3, ExtendsItself DEF DiskInvariant, DiskKept, Safe, Reachable
  <1>5. ASSUME NEW w \in Writer, Sync(w) PROVE DiskInvariant' /\ DiskKept
    <2>1. /\ UNCHANGED <<dir, durDir, file>> /\ at[w] \in Files
          /\ durable' = [durable EXCEPT ![at[w]] = file[at[w]]]
      BY <1>5 DEF Sync, TypeOK, OpenSteps
    <2>2. \A f \in Files : Extends(durable'[f], file'[f]) /\ Extends(durable[f], durable'[f])
      BY <1>0, <2>1, ExtendsItself DEF DiskInvariant, TypeOK
    <2> QED BY <1>0, <2>1, <2>2, ExtendsItself DEF DiskInvariant, DiskKept, Safe, Reachable
  <1>6. ASSUME NEW w \in Writer, SyncEntry(w) PROVE DiskInvariant' /\ DiskKept
    <2>1. UNCHANGED <<dir, file, durable>> /\ durDir' = dir
      BY <1>6 DEF SyncEntry, DiskInvariant, TypeOK, Dirs
    <2> QED BY <1>0, <2>1, ExtendsItself DEF DiskInvariant, DiskKept, Safe, Reachable
  <1>7. ASSUME MoveAside PROVE DiskInvariant' /\ DiskKept
    <2>1. /\ UNCHANGED <<durDir, file, durable>>
          /\ dir'.made = dir.made /\ dir'.aside = dir.aside \cup {dir.trail}
      BY <1>7 DEF MoveAside, TypeOK, Dirs
    <2>2. Reachable \subseteq Reachable' /\ Safe' = Safe
      BY <2>1 DEF Reachable, Safe
    <2> QED BY <1>0, <2>1, <2>2, ExtendsItself DEF DiskInvariant, DiskKept, Reachable
  <1>8. ASSUME PowerLoss PROVE DiskInvariant' /\ DiskKept
    <2>1. durable' = file' /\ dir' = durDir' /\ dir' \in {dir, durDir}
      BY <1>8, Zenon DEF PowerLoss, DirsAfterLoss, DiskInvariant
    <2>2. \A f \in Files : Extends(durable[f], durable'[f])
      BY <1>0, <1>8, <2>1, LossKeeps, BeginningExtends, ExtendsItself
    <2>3. Safe' = Reachable' /\ Safe \subseteq Safe' /\ dir'.made
      BY <2>1 DEF Safe, Reachable, DiskInvariant
    <2>4. DiskInvariant'
      BY <1>0, <2>1, <2>3, ExtendsItself DEF DiskInvariant
    <2> QED BY <1>8, <2>2, <2>3, <2>4 DEF DiskKept, Reachable
  <1>9. ASSUME NEW w \in Writer,
               \/ BeginRepair(w) \/ OpenExisting(w) \/ OpenAbsent(w) \/ Check(w) \/ Lock(w)
               \/ NoLock(w) \/ Recheck(w) \/ Reopen(w) \/ Compose(w)
               \/ Then(w) \/ Unlock(w) \/ IOError(w) \/ Crash(w) \/ ShowDamage(w)
        PROVE  disk' = disk
    BY <1>9 DEF BeginRepair, OpenExisting, OpenAbsent, Check, Lock, NoLock, Recheck, Reopen,
       Compose, Then, Unlock, IOError, Crash, ShowDamage
  <1>10. UNCHANGED vars => disk' = disk
    BY DEF vars, disk
  <1> QED BY <1>1, <1>2, <1>3, <1>4, <1>5, <1>6, <1>7, <1>8, <1>9, <1>10 DEF Next, Step, Progress
(* What was safe stays safe.                                               *)
LEMMA SafeBatch ==
    ASSUME TypeOK, TypeOK', DiskInvariant, DiskKept, NEW w \in Writer,
           \E f \in Safe : HasBatch(durable[f], w)
    PROVE  \E f \in Safe' : HasBatch(durable'[f], w)
  <1>1. PICK f \in Safe : HasBatch(durable[f], w)
    OBVIOUS
  <1>2. f \in Files /\ f \in Safe' /\ Extends(durable[f], durable'[f])
    BY <1>1 DEF DiskInvariant, DiskKept, Safe
  <1>3. durable[f] \in Bytes /\ durable'[f] \in Bytes
    BY <1>2 DEF TypeOK
  <1>4. HasBatch(durable'[f], w)
    BY <1>1, <1>2, <1>3, BatchStays
  <1> QED BY <1>2, <1>4

(* A writer that does not move is where it was with its batch.             *)
LEMMA BatchFrame ==
    ASSUME TypeOK, TypeOK', DiskInvariant, DiskKept, NEW w \in Writer, BatchAt(w),
           ~ PowerLoss, pc'[w] = pc[w], at'[w] = at[w], err'[w] = err[w]
    PROVE  BatchAt(w)'
  <1>1. pc[w] \in OpenSteps => /\ at[w] \in Files /\ at[w] \in Reachable
                               /\ at[w] \in Reachable'
    BY DEF BatchAt, DiskKept, Reachable
  <1>2. ASSUME pc[w] \in OpenSteps
        PROVE  /\ file[at[w]] \in Bytes /\ file'[at[w]] \in Bytes
               /\ durable[at[w]] \in Bytes /\ durable'[at[w]] \in Bytes
               /\ Extends(file[at[w]], file'[at[w]])
               /\ Extends(durable[at[w]], durable'[at[w]])
    BY <1>1, <1>2 DEF DiskKept, TypeOK
  <1>3. ASSUME Op[w] = "append", pc[w] = "sync" PROVE HasBatch(file'[at[w]], w)
    BY <1>2, <1>3, BatchStays DEF BatchAt, OpenSteps
  <1>4. ASSUME Op[w] = "append", pc[w] = "entry" PROVE HasBatch(durable'[at[w]], w)
    BY <1>2, <1>4, BatchStays DEF BatchAt, OpenSteps
  <1>5. ASSUME Op[w] = "append",
               pc[w] = "then" \/ (pc[w] \in {"unlock", "end"} /\ err[w] = "none")
        PROVE  \E f \in Safe' : HasBatch(durable'[f], w)
    BY <1>5, SafeBatch DEF BatchAt
  <1> QED BY <1>1, <1>3, <1>4, <1>5 DEF BatchAt

LEMMA BatchLoss ==
    ASSUME TypeOK, TypeOK', DiskInvariant, DiskKept, NEW w \in Writer, BatchAt(w), PowerLoss
    PROVE  BatchAt(w)'
  <1>1. /\ pc'[w] \in {"crashed", "start", "shown", "end"} /\ err'[w] = err[w]
        /\ pc'[w] # "crashed" => pc[w] = pc'[w]
        /\ pc'[w] \in {"start", "shown"} => at'[w] = at[w]
    BY DEF PowerLoss, Forget, Running, TypeOK
  <1>2. ASSUME Op[w] = "append", pc'[w] = "end", err'[w] = "none"
        PROVE  \E f \in Safe' : HasBatch(durable'[f], w)
    BY <1>1, <1>2, SafeBatch DEF BatchAt
  <1>3. pc'[w] \in {"start", "shown"} => at'[w] = NoFile
    BY <1>1 DEF BatchAt
  <1> QED BY <1>1, <1>2, <1>3 DEF BatchAt, OpenSteps

(* A step that brings w no nearer to success.                              *)
LEMMA BatchNotYet ==
    ASSUME NEW w \in Writer,
           pc'[w] \in OpenSteps => at'[w] \in Reachable',
           pc'[w] \in {"start", "shown", "open"} => at'[w] = NoFile,
           pc'[w] \notin {"sync", "entry", "then"},
           pc'[w] \in {"unlock", "end"} => err'[w] # "none"
    PROVE  BatchAt(w)'
  BY DEF BatchAt

LEMMA FailNotYet ==
    ASSUME TypeOK, DiskKept, ~ PowerLoss, NEW w \in Writer, BatchAt(w),
           pc[w] \notin {"end", "crashed"}, NEW why, why # "none", Fail(w, why), at' = at
    PROVE  BatchAt(w)'
  <1>1. err'[w] # "none" /\ pc'[w] = IF Locked(w) THEN "unlock" ELSE "end"
    BY DEF Fail, Goto, TypeOK
  <1>2. Locked(w) => at[w] \in Reachable
    BY WriterAssumption DEF Locked, BatchAt, TypeOK, Steps
  <1>3. Locked(w) => at[w] \in Reachable'
    BY <1>2 DEF DiskKept
  <1> QED BY <1>1, <1>3, BatchNotYet DEF OpenSteps

(* The writer that moves.                                                  *)
LEMMA BatchMoves ==
    ASSUME \A v \in Writer : Chain[v],
           TypeOK, TypeOK', ChainInvariant, DiskInvariant, DiskInvariant', DiskKept, ~ PowerLoss,
           NEW w \in Writer, BatchAt(w),
           Step(w) \/ Then(w) \/ ShowDamage(w) \/ Crash(w)
    PROVE  BatchAt(w)'
  <1>0. pc[w] \in OpenSteps => /\ at[w] \in Files /\ at[w] \in Reachable
                               /\ at[w] \in Reachable'
    BY DEF BatchAt, DiskKept, Reachable
  <1>1. CASE BeginAppend(w)
    <2>1. pc'[w] = "open" /\ pc[w] = "start" /\ at' = at
      BY <1>1 DEF BeginAppend, Goto, TypeOK, call
    <2> QED BY <2>1, BatchNotYet DEF BatchAt, OpenSteps
  <1>2. CASE ShowDamage(w)
    <2>1. pc'[w] = "shown" /\ pc[w] = "start" /\ at' = at
      BY <1>2 DEF ShowDamage, Goto, TypeOK
    <2> QED BY <2>1, BatchNotYet DEF BatchAt, OpenSteps
  <1>3. CASE BeginRepair(w)
    <2>1. pc[w] \in {"start", "shown"} /\ at' = at
      BY <1>3 DEF BeginRepair
    <2>2. CASE \E why : why # "none" /\ Fail(w, why)
      BY <2>1, <2>2, FailNotYet
    <2>3. CASE Goto(w, "open")
      <3>1. pc'[w] = "open"
        BY <2>3 DEF Goto, TypeOK
      <3> QED BY <2>1, <3>1, BatchNotYet DEF BatchAt, OpenSteps
    <2> QED BY <1>3, <2>2, <2>3 DEF BeginRepair
  <1>4. CASE OpenExisting(w)
    <2>1. /\ pc'[w] = "check" /\ at'[w] = dir.trail /\ dir.trail # NoFile /\ dir' = dir
      BY <1>4 DEF OpenExisting, Goto, TypeOK, disk
    <2>2. at'[w] \in Reachable'
      BY <2>1 DEF Reachable, TypeOK, Dirs
    <2> QED BY <2>1, <2>2, BatchNotYet
  <1>5. CASE OpenCreating(w)
    <2>1. PICK f \in Unused : dir' = [dir EXCEPT !.trail = f] /\ at' = [at EXCEPT ![w] = f]
      BY <1>5 DEF OpenCreating
    <2>2. pc'[w] = "check" /\ at'[w] = f /\ dir'.trail = f /\ f \in Files
      BY <1>5, <2>1 DEF OpenCreating, Goto, TypeOK, Dirs, Unused
    <2>3. at'[w] \in Reachable'
      BY <2>2 DEF Reachable
    <2> QED BY <2>2, <2>3, BatchNotYet
  <1>6. CASE OpenAbsent(w)
    <2>1. \E why : why # "none" /\ Fail(w, why)
      BY <1>6 DEF OpenAbsent
    <2> QED BY <1>6, <2>1, FailNotYet DEF OpenAbsent
  <1>7. CASE Check(w)
    <2>1. pc[w] = "check" /\ at' = at
      BY <1>7 DEF Check
    <2>2. CASE Fail(w, "io")
      BY <2>1, <2>2, FailNotYet
    <2>3. CASE Goto(w, "lock")
      <3>1. pc'[w] = "lock"
        BY <2>3 DEF Goto, TypeOK
      <3> QED BY <1>0, <2>1, <3>1, BatchNotYet DEF OpenSteps
    <2> QED BY <1>7, <2>2, <2>3 DEF Check
  <1>8. CASE Lock(w) \/ NoLock(w) \/ Recheck(w)
    <2>1. pc[w] \in {"lock", "recheck"} /\ at' = at /\ pc'[w] \in {"recheck", "compose"}
      BY <1>8 DEF Lock, NoLock, Recheck, Goto, TypeOK, call
    <2> QED BY <1>0, <2>1, BatchNotYet DEF OpenSteps
  <1>9. CASE Reopen(w)
    <2>1. /\ at'[w] = NoFile
          /\ pc'[w] = "open" \/ (pc'[w] = "end" /\ err'[w] = "name-changed")
      BY <1>9 DEF Reopen, Goto, TypeOK
    <2> QED BY <2>1, BatchNotYet DEF OpenSteps
  <1>10. CASE Compose(w)
    <2>1. pc[w] = "compose" /\ at' = at
      BY <1>10 DEF Compose
    <2>2. CASE \E why : why # "none" /\ Fail(w, why)
      BY <2>1, <2>2, FailNotYet
    <2>3. CASE Goto(w, "write")
      <3>1. pc'[w] = "write"
        BY <2>3 DEF Goto, TypeOK
      <3> QED BY <1>0, <2>1, <3>1, BatchNotYet DEF OpenSteps
    <2> QED BY <1>10, <2>2, <2>3 DEF Compose
  <1>11. CASE Write(w)
    <2> DEFINE b == file[at[w]]
    <2>1. /\ pc[w] = "write" /\ pc'[w] = "sync" /\ at' = at /\ at[w] \in Files
          /\ file'[at[w]] = Concat(b, data[w]) /\ b \in Bytes
      BY <1>11 DEF Write, Goto, TypeOK, call, OpenSteps
    <2>2. Composed(w, b) = Give(data[w]) /\ Locked(w)
      BY <2>1 DEF ChainInvariant, LockHeld, LockSteps, NoStaleCompose, Locked
    <2>3. Composed(w, b).err = "none" /\ Composed(w, b).data = data[w]
      BY <2>2 DEF Give
    <2>4. ASSUME Op[w] = "append" PROVE HasBatch(file'[at[w]], w)
      <3> DEFINE c == Concat(b, Composed(w, b).data)
                 k == LineCount(b)
      <3>1. /\ c \in Bytes /\ Len(c) = k + Size[w] + 1
            /\ k \in Nat /\ Size[w] \in Nat \ {0}
            /\ \A i \in 1 .. Size[w] :
                 LET l == c[k + i] IN WholeRecord(l) /\ l[1].w = w /\ l[1].i = i
        BY <2>1, <2>2, <2>3, <2>4, AppendedLines
      <3>2. c = file'[at[w]]
        BY <2>1, <2>3
      <3> HIDE DEF c, k
      <3>3. k \in 0 .. LineCount(c) - Size[w]
        BY <3>1 DEF LineCount
      <3>4. HasBatch(c, w)
        BY <3>1, <3>3 DEF HasBatch
      <3> QED BY <3>2, <3>4
    <2> QED BY <1>0, <2>1, <2>4 DEF BatchAt, OpenSteps
  <1>12. CASE WriteShort(w) \/ IOError(w)
    <2>1. Fail(w, "io") /\ at' = at /\ pc[w] \notin {"end", "crashed"}
      BY <1>12 DEF WriteShort, IOError
    <2> QED BY <2>1, FailNotYet
  <1>13. CASE Sync(w)
    <2>1. /\ pc[w] = "sync" /\ pc'[w] = "entry" /\ at' = at
          /\ durable'[at[w]] = file[at[w]]
      BY <1>0, <1>13 DEF Sync, Goto, TypeOK, call, OpenSteps
    <2> QED BY <1>0, <2>1 DEF BatchAt, OpenSteps
  <1>14. CASE SyncEntry(w)
    <2>1. /\ pc[w] = "entry" /\ pc'[w] = "then" /\ at' = at
          /\ durDir' = dir /\ durable' = durable
      BY <1>14 DEF SyncEntry, Goto, TypeOK, call, DiskInvariant, Dirs
    <2>2. at[w] \in Safe'
      BY <1>0, <2>1 DEF Safe, Reachable, OpenSteps
    <2> QED BY <1>0, <2>1, <2>2 DEF BatchAt, OpenSteps
  <1>15. CASE Then(w)
    <2>1. /\ pc[w] = "then" /\ pc'[w] = "unlock" /\ at' = at
          /\ durDir' = durDir /\ durable' = durable
      BY <1>15 DEF Then, Goto, TypeOK, disk
    <2>2. Op[w] = "append" => \E f \in Safe' : HasBatch(durable'[f], w)
      BY <2>1, SafeBatch DEF BatchAt
    <2> QED BY <1>0, <2>1, <2>2 DEF BatchAt, OpenSteps
  <1>16. CASE Unlock(w)
    <2>1. /\ pc[w] = "unlock" /\ pc'[w] = "end"
          /\ err'[w] = "none" => err[w] = "none"
      BY <1>16 DEF Unlock, Goto, TypeOK
    <2>2. Op[w] = "append" /\ err'[w] = "none" => \E f \in Safe' : HasBatch(durable'[f], w)
      BY <2>1, SafeBatch DEF BatchAt
    <2> QED BY <2>1, <2>2 DEF BatchAt, OpenSteps
  <1>17. CASE Crash(w)
    <2>1. pc'[w] = "crashed"
      BY <1>17 DEF Crash, Goto, TypeOK
    <2> QED BY <2>1, BatchNotYet DEF OpenSteps
  <1> QED BY <1>1, <1>2, <1>3, <1>4, <1>5, <1>6, <1>7, <1>8, <1>9, <1>10, <1>11, <1>12, <1>13,
             <1>14, <1>15, <1>16, <1>17 DEF Step, Progress

(* The writers that do not.                                                *)
LEMMA OthersStay ==
    ASSUME TypeOK, NEW v \in Writer,
           Step(v) \/ Then(v) \/ ShowDamage(v) \/ Crash(v)
    PROVE  \A w \in Writer \ {v} : pc'[w] = pc[w] /\ at'[w] = at[w] /\ err'[w] = err[w]
  <1> DEFINE Stay == \A w \in Writer \ {v} :
                        pc'[w] = pc[w] /\ at'[w] = at[w] /\ err'[w] = err[w]
  <1>1. ASSUME NEW why, Fail(v, why), at' = at PROVE Stay
    BY <1>1 DEF Fail, Goto, TypeOK
  <1>2. ASSUME NEW step, Goto(v, step), at' = at, err' = err PROVE Stay
    BY <1>2 DEF Goto, TypeOK
  <1>3. CASE \/ BeginAppend(v) \/ ShowDamage(v) \/ Lock(v) \/ NoLock(v) \/ Recheck(v)
             \/ Write(v) \/ Sync(v) \/ SyncEntry(v)
    BY <1>2, <1>3 DEF BeginAppend, ShowDamage, Lock, NoLock, Recheck, Write, Sync, SyncEntry, call
  <1>4. CASE \/ BeginRepair(v) \/ OpenAbsent(v) \/ Check(v) \/ Compose(v)
             \/ WriteShort(v) \/ IOError(v)
    BY <1>1, <1>2, <1>4 DEF BeginRepair, OpenAbsent, Check, Compose, WriteShort, IOError
  <1>5. CASE OpenExisting(v) \/ OpenCreating(v) \/ Reopen(v) \/ Then(v)
    BY <1>5 DEF OpenExisting, OpenCreating, Reopen, Then, Goto, TypeOK
  <1>6. CASE Unlock(v) \/ Crash(v)
    BY <1>6 DEF Unlock, Crash, Goto, Forget, TypeOK
  <1> QED BY <1>3, <1>4, <1>5, <1>6 DEF Step, Progress

(* Where every writer chains and is offered the lock, and the directory    *)
(* was there before: an append that was reported written stays, whole and  *)
(* in order, in a file the audit directory names.  It was in the file      *)
(* before the file was synced, durable before its name was, and its name   *)
(* durable before the call returned; a move keeps the name and a power     *)
(* loss what is durable.                                                   *)
THEOREM AppendsKept ==
    ASSUME \A w \in Writer : Lockable[w], \A w \in Writer : Chain[w], DirMade
    PROVE  Spec => []AcknowledgedKept
  <1> DEFINE Inv == /\ TypeOK /\ ChainInvariant /\ DiskInvariant
                    /\ \A w \in Writer : BatchAt(w)
  <1>1. Init => Inv
    <2> SUFFICES ASSUME Init PROVE Inv
      OBVIOUS
    <2>1. TypeOK /\ ChainInvariant
      BY TypeInit, ChainInit
    <2>2. DiskInvariant
      BY <2>1, ExtendsItself DEF Init, DiskInvariant, Safe, Reachable, TypeOK
    <2>3. \A w \in Writer : BatchAt(w)
      BY DEF Init, BatchAt, OpenSteps
    <2> QED BY <2>1, <2>2, <2>3
  <1>2. Inv /\ [Next]_vars => Inv'
    <2> SUFFICES ASSUME Inv, [Next]_vars PROVE Inv'
      OBVIOUS
    <2>1. TypeOK' /\ ChainInvariant'
      BY TypeStep, ChainStep
    <2>2. DiskInvariant' /\ DiskKept
      BY <2>1, DiskStep DEF BatchAt
    <2>3. ASSUME NEW w \in Writer PROVE BatchAt(w)'
      <3>1. CASE PowerLoss
        BY <2>1, <2>2, <3>1, BatchLoss
      <3>2. CASE ~ PowerLoss /\ (UNCHANGED vars \/ MoveAside)
        <4>1. pc' = pc /\ at' = at /\ err' = err
          BY <3>2 DEF vars, call, MoveAside
        <4> QED BY <2>1, <2>2, <3>2, <4>1, BatchFrame
      <3>3. CASE ~ PowerLoss /\ \E v \in Writer : Step(v) \/ Then(v) \/ ShowDamage(v) \/ Crash(v)
        <4>1. PICK v \in Writer : Step(v) \/ Then(v) \/ ShowDamage(v) \/ Crash(v)
          BY <3>3
        <4>2. CASE v = w
          BY <2>1, <2>2, <3>3, <4>1, <4>2, BatchMoves
        <4>3. CASE v # w
          <5>1. pc'[w] = pc[w] /\ at'[w] = at[w] /\ err'[w] = err[w]
            BY <4>1, <4>3, OthersStay
          <5> QED BY <2>1, <2>2, <3>3, <5>1, BatchFrame
        <4> QED BY <4>2, <4>3
      <3> QED BY <3>1, <3>2, <3>3 DEF Next
    <2> QED BY <2>1, <2>2, <2>3
  <1>3. Inv => AcknowledgedKept
    <2> SUFFICES ASSUME Inv, NEW w \in Writer, Acknowledged(w)
                 PROVE  \E f \in Reachable : HasBatch(file[f], w)
      BY DEF AcknowledgedKept, HasBatch
    <2>1. PICK f \in Safe : HasBatch(durable[f], w)
      BY DEF Acknowledged, BatchAt
    <2>2. f \in Reachable /\ f \in Files /\ Extends(durable[f], file[f])
      BY <2>1 DEF DiskInvariant, Safe
    <2>3. HasBatch(file[f], w)
      BY <2>1, <2>2, BatchStays DEF TypeOK
    <2> QED BY <2>2, <2>3
  <1> QED BY <1>1, <1>2, <1>3, PTL DEF Spec
=============================================================================
