------------------------- MODULE SignedTrailProofs -------------------------
(***************************************************************************)
(* The signing steps of module SignedTrail stand where TrailWriter has its *)
(* step Then, and change nothing else of the trail: what is proved of the  *)
(* trail holds beside a sidecar.  And what the sidecar says is what the    *)
(* trail holds.                                                            *)
(***************************************************************************)
EXTENDS SignedTrail, TrailProofs, FiniteSetTheorems

(* A call under way has not failed: the signing step finds no error to     *)
(* forget when it reports its own.                                         *)
NotFailed ==
    \A w \in Writer : pc[w] \notin {"unlock", "end", "crashed"} => err[w] = "none"

(* A signing step is the trail's Then, or the trail does not see it.       *)
LEMMA SignStepRefines ==
    ASSUME TypeOK, NotFailed, NEW w \in Writer, SignStep(w)
    PROVE  Then(w) \/ UNCHANGED vars
  <1>1. ASSUME NEW why \in {"none", "io", "key-not-in-force"}, EndSigning(w, why)
        PROVE  Then(w)
    <2>1. /\ pc[w] = "then" /\ Goto(w, "unlock") /\ err[w] = "none"
          /\ UNCHANGED <<disk, holder, at, tries, data, shown, env>>
      BY <1>1 DEF EndSigning, NotFailed
    <2>2. CASE Op[w] # "rotate"
      BY <1>1, <2>1, <2>2 DEF EndSigning, Then
    <2>3. CASE Op[w] = "rotate" /\ why = "none"
      <3>1. err' = err
        BY <1>1, <2>1, <2>3 DEF EndSigning, TypeOK
      <3> QED BY <2>1, <3>1 DEF Then
    <2>4. CASE Op[w] = "rotate" /\ why # "none"
      BY <1>1, <2>1, <2>4 DEF EndSigning, Then
    <2> QED BY <2>2, <2>3, <2>4
  <1>2. CASE SignNothing(w)
    BY <1>2 DEF SignNothing
  <1>3. CASE ReadSidecar(w) \/ WriteSidecar(w)
    BY <1>3 DEF ReadSidecar, WriteSidecar
  <1>4. CASE KeyRefused(w)
    BY <1>1, <1>4 DEF KeyRefused
  <1>5. CASE WriteSidecarShort(w) \/ SidecarError(w)
    BY <1>1, <1>5 DEF WriteSidecarShort, SidecarError
  <1>6. CASE SyncSidecar(w)
    BY <1>1, <1>6 DEF SyncSidecar
  <1> QED BY <1>2, <1>3, <1>4, <1>5, <1>6 DEF SignStep

(* A step beside a sidecar is a step of the trail, or the trail does not   *)
(* see it.                                                                 *)
LEMMA SignedStepRefines ==
    ASSUME TypeOK, NotFailed, [SignedNext]_allVars PROVE [Next]_vars
  <1>1. CASE UNCHANGED allVars
    BY <1>1 DEF allVars
  <1>2. CASE SignedPowerLoss
    BY <1>2 DEF SignedPowerLoss, Next
  <1>3. ASSUME NEW w \in Writer, \/ Step(w) /\ UNCHANGED sideVars
                                 \/ ShowDamage(w) /\ UNCHANGED sideVars
                                 \/ SignStep(w)
                                 \/ SignedCrash(w)
        PROVE  [Next]_vars
    <2>1. CASE Step(w) \/ ShowDamage(w)
      BY <2>1 DEF Next
    <2>2. CASE SignStep(w)
      BY <2>2, SignStepRefines DEF Next
    <2>3. CASE SignedCrash(w)
      BY <2>3 DEF SignedCrash, Next
    <2> QED BY <1>3, <2>1, <2>2, <2>3
  <1> QED BY <1>1, <1>2, <1>3 DEF SignedNext

(* A call that fails goes to its end.                                      *)
LEMMA FailKeeps ==
    ASSUME TypeOK, NotFailed, NEW w \in Writer, NEW why, Fail(w, why)
    PROVE  NotFailed'
  BY DEF TypeOK, NotFailed, Fail, Goto

(* No step of the trail's takes a failed call on.                          *)
LEMMA NotFailedStep ==
    ASSUME TypeOK, NotFailed, [Next]_vars PROVE NotFailed'
  <1>1. CASE UNCHANGED vars
    BY <1>1 DEF vars, call, NotFailed
  <1>2. ASSUME NEW w \in Writer, \E why : Fail(w, why) PROVE NotFailed'
    BY <1>2, FailKeeps
  <1>3. ASSUME NEW w \in Writer, NEW step \in Steps, Goto(w, step), UNCHANGED err, pc[w] \notin {"unlock", "end", "crashed"}
        PROVE  NotFailed'
    BY <1>3 DEF NotFailed, Goto, TypeOK
  <1>4. ASSUME NEW w \in Writer, Progress(w) PROVE NotFailed'
    <2>1. CASE BeginAppend(w) \/ OpenExisting(w) \/ OpenCreating(w) \/ Lock(w) \/ NoLock(w)
                 \/ Recheck(w) \/ Write(w) \/ Sync(w) \/ SyncEntry(w)
      BY <1>3, <2>1 DEF BeginAppend, OpenExisting, OpenCreating, Lock, NoLock, Recheck, Write,
         Sync, SyncEntry, call, Steps, OpenSteps
    <2>2. CASE BeginRepair(w)
      BY <1>2, <1>3, <2>2 DEF BeginRepair, Steps, OpenSteps
    <2>3. CASE OpenAbsent(w)
      BY <1>2, <2>3 DEF OpenAbsent
    <2>4. CASE Check(w) \/ Compose(w)
      BY <1>2, <1>3, <2>4 DEF Check, Compose, Steps, OpenSteps
    <2>5. CASE Reopen(w)
      BY <2>5 DEF Reopen, NotFailed, Goto, TypeOK
    <2>6. CASE Unlock(w)
      BY <2>6 DEF Unlock, NotFailed, Goto, TypeOK
    <2> QED BY <1>4, <2>1, <2>2, <2>3, <2>4, <2>5, <2>6 DEF Progress
  <1>5. ASSUME NEW w \in Writer, WriteShort(w) \/ IOError(w) PROVE NotFailed'
    BY <1>2, <1>5 DEF WriteShort, IOError
  <1>6. ASSUME NEW w \in Writer, Then(w) PROVE NotFailed'
    BY <1>6 DEF Then, Goto, NotFailed, TypeOK
  <1>7. ASSUME NEW w \in Writer, ShowDamage(w) PROVE NotFailed'
    BY <1>3, <1>7 DEF ShowDamage, Steps
  <1>8. ASSUME NEW w \in Writer, Crash(w) PROVE NotFailed'
    BY <1>8 DEF Crash, Goto, NotFailed, TypeOK
  <1>9. CASE MoveAside
    BY <1>9 DEF MoveAside, NotFailed, call
  <1>10. CASE PowerLoss
    BY <1>10 DEF PowerLoss, NotFailed, Running
  <1> QED BY <1>1, <1>4, <1>5, <1>6, <1>7, <1>8, <1>9, <1>10 DEF Next, Step

(* Signing changes nothing of the trail: whatever signs, is cut short or   *)
(* refused beside it, the trail is one that TrailWriter describes, so that *)
(* an append is reported as it went whatever became of its signature.      *)
THEOREM SignedTrailIsTrail == SignedSpec => TrailSpec
  <1>1. SignedInit => Init /\ TypeOK /\ NotFailed
    BY TypeInit DEF SignedInit, Init, NotFailed
  <1>2. TypeOK /\ NotFailed /\ [SignedNext]_allVars => [Next]_vars /\ TypeOK' /\ NotFailed'
    BY SignedStepRefines, TypeStep, NotFailedStep
  <1> QED BY <1>1, <1>2, PTL DEF SignedSpec, TrailSpec

(* So where the file system locks and every writer chains, a trail beside  *)
(* a sidecar verifies.                                                     *)
THEOREM SignedTrailVerifies ==
    ASSUME \A w \in Writer : Lockable[w], \A w \in Writer : Chain[w]
    PROVE  SignedSpec => []TrailVerifies
  <1>1. SignedSpec => Spec
    BY SignedTrailIsTrail DEF TrailSpec, Spec
  <1>2. Spec => []TrailVerifies
    BY ChainedTrailVerifies
  <1> QED BY <1>1, <1>2

-----------------------------------------------------------------------------
(* The k-th number of an interval.                                         *)

LEMMA NthInterval ==
    ASSUME NEW a \in Nat, NEW k \in Nat
    PROVE  /\ Cardinality(a + 1 .. a + k) = k
           /\ \A j \in 1 .. k : Nth(a + 1 .. a + k, j) = a + j
  <1>1. Cardinality(a + 1 .. a + k) = k
    BY FS_Interval
  <1>2. ASSUME NEW j \in 1 .. k PROVE Nth(a + 1 .. a + k, j) = a + j
    <2> DEFINE S == a + 1 .. a + k
    <2>1. ASSUME NEW n \in S PROVE Cardinality({m \in S : m <= n}) = n - a
      <3>1. {m \in S : m <= n} = a + 1 .. n
        OBVIOUS
      <3>2. n \in Int /\ a + 1 \in Int /\ n >= a + 1
        OBVIOUS
      <3>3. Cardinality(a + 1 .. n) = n - a
        BY <3>2, FS_Interval
      <3> QED BY <3>1, <3>3
    <2>2. a + j \in S /\ \A n \in S : n - a = j <=> n = a + j
      OBVIOUS
    <2> HIDE DEF S
    <2>3. \E n \in S : Cardinality({m \in S : m <= n}) = j
      BY <2>1, <2>2
    <2>4. Nth(S, j) \in S /\ Cardinality({m \in S : m <= Nth(S, j)}) = j
      BY <2>3 DEF Nth
    <2>5. Nth(S, j) = a + j
      BY <2>1, <2>2, <2>4
    <2> QED BY <2>5 DEF S
  <1> QED BY <1>1, <1>2

-----------------------------------------------------------------------------
(* The sidecar's bytes.                                                    *)

SideKeys == {NoKey} \cup {Key[w] : w \in Writer} \cup {NextKey[w] : w \in Writer}

SidePiece == [len : 1 .. Body, kind : {"signature", "rotation", "torn-line-end"},
              key : SideKeys, trail : Trails, seq : Nat, rec : Digests,
              next : SideKeys]

SideBytes == {sc \in Seq(Seq(SidePiece)) : sc # << >>}

LEMMA SidePieceCuttable == Cuttable(SidePiece)
  <1> SUFFICES ASSUME NEW p \in SidePiece, NEW j \in 1 .. p.len
               PROVE  [p EXCEPT !.len = j] \in SidePiece
    BY DEF Cuttable
  <1>1. j \in 1 .. Body
    BY BodyAssumption DEF SidePiece
  <1> QED BY <1>1 DEF SidePiece

LEMMA SideEmpty == Empty \in SideBytes
  BY DEF Empty, SideBytes

LEMMA SideBeginning ==
    ASSUME NEW sc \in SideBytes, NEW t \in Beginnings(sc)
    PROVE  t \in SideBytes /\ Extends(t, sc)
  <1>1. sc \in Seq(Seq(SidePiece)) /\ sc # << >>
    BY DEF SideBytes
  <1>2. /\ t \in Seq(Seq(SidePiece)) /\ t # << >>
        /\ Len(t) \in 1 .. Len(sc)
        /\ \A m \in 1 .. Len(t) - 1 : t[m] = sc[m]
    BY <1>1, SidePieceCuttable, BeginningsAny
  <1> QED BY <1>1, <1>2 DEF SideBytes, Extends, LineCount

LEMMA SideConcat ==
    ASSUME NEW sc \in SideBytes, NEW d \in SideBytes
    PROVE  /\ Concat(sc, d) \in SideBytes /\ Extends(sc, Concat(sc, d))
           /\ LineCount(Concat(sc, d)) = LineCount(sc) + LineCount(d)
  <1>1. /\ sc \in Seq(Seq(SidePiece)) /\ sc # << >>
        /\ d \in Seq(Seq(SidePiece)) /\ d # << >>
    BY DEF SideBytes
  <1>2. /\ Concat(sc, d) \in Seq(Seq(SidePiece)) /\ Concat(sc, d) # << >>
        /\ Len(Concat(sc, d)) = Len(sc) + Len(d) - 1
        /\ \A n \in 1 .. Len(sc) - 1 : Concat(sc, d)[n] = sc[n]
    BY <1>1, ConcatAny
  <1>3. Len(sc) \in Nat \ {0} /\ Len(d) \in Nat \ {0}
    BY <1>1
  <1> QED BY <1>1, <1>2, <1>3 DEF SideBytes, Extends, LineCount

LEMMA ItemFacts ==
    ASSUME NEW sc \in SideBytes
    PROVE  /\ LineCount(sc) \in Nat /\ Len(sc) = LineCount(sc) + 1
           /\ Items(sc) \subseteq 1 .. LineCount(sc)
           /\ \A n \in Items(sc) :
                /\ sc[n][1] \in SidePiece /\ sc[n][1].seq \in Nat \ {0}
                /\ sc[n][1].kind \in {"signature", "rotation"}
  <1>1. sc \in Seq(Seq(SidePiece)) /\ Len(sc) \in Nat \ {0}
    BY DEF SideBytes
  <1>2. ASSUME NEW n \in Items(sc)
        PROVE  /\ sc[n][1] \in SidePiece /\ sc[n][1].seq \in Nat \ {0}
               /\ sc[n][1].kind \in {"signature", "rotation"}
    <2>1. n \in 1 .. Len(sc) /\ Readable(sc[n])
      BY <1>1, <1>2 DEF Items, LineCount
    <2>2. sc[n] \in Seq(SidePiece) /\ Len(sc[n]) = 1
      BY <1>1, <2>1 DEF Readable
    <2>3. sc[n][1] \in SidePiece
      BY <2>2
    <2> QED BY <2>1, <2>3 DEF Readable, SidePiece
  <1> QED BY <1>1, <1>2 DEF Items, LineCount

LEMMA ShorterItems ==
    ASSUME NEW sc \in SideBytes, NEW t \in SideBytes, Extends(t, sc)
    PROVE  /\ Items(t) = {n \in Items(sc) : n <= LineCount(t)}
           /\ \A n \in Items(t) : t[n] = sc[n]
  BY ItemFacts DEF Extends, Items, LineCount

(* Two sidecars of the same readable lines up to one say the same of it.   *)
LEMMA ItemSame ==
    ASSUME NEW sc \in SideBytes, NEW t \in SideBytes, NEW n \in Items(sc), n \in Items(t),
           \A m \in 1 .. n : m \in Items(sc) <=> m \in Items(t),
           \A m \in 1 .. n : m \in Items(sc) => sc[m] = t[m]
    PROVE  KeyBefore(sc, n) = KeyBefore(t, n) /\ (OutOfOrder(sc, n) <=> OutOfOrder(t, n))
  <1> DEFINE before(q) == {m \in Items(q) : m < n}
             turns(q) == {m \in Items(q) : m < n /\ q[m][1].kind = "rotation"}
  <1>1. /\ Items(sc) \subseteq 1 .. LineCount(sc) /\ Items(t) \subseteq 1 .. LineCount(t)
        /\ LineCount(sc) \in Nat /\ LineCount(t) \in Nat /\ n \in Nat \ {0}
    BY ItemFacts
  <1>2. before(sc) = before(t) /\ \A m \in before(sc) : sc[m] = t[m]
    BY <1>1
  <1>3. sc[n] = t[n]
    BY <1>1
  <1>4. OutOfOrder(sc, n) <=> OutOfOrder(t, n)
    BY <1>2, <1>3 DEF OutOfOrder
  <1>5. turns(sc) = turns(t) /\ \A m \in turns(sc) : sc[m] = t[m]
    BY <1>2
  <1>6. Min(Items(sc)) = Min(Items(t)) /\ sc[Min(Items(sc))] = t[Min(Items(t))]
    <2> DEFINE x == Min(Items(sc))
    <2>1. x \in Items(sc) /\ \A y \in Items(sc) : x <= y
      BY <1>1, MinOf
    <2>2. x \in 1 .. n
      BY <1>1, <2>1
    <2>3. x \in Items(t) /\ \A y \in Items(t) : x <= y
      BY <1>1, <2>1, <2>2
    <2>4. Items(t) \subseteq Nat
      BY <1>1
    <2> HIDE DEF x
    <2>5. Min(Items(t)) = x
      BY <2>3, <2>4, MinIs
    <2> QED BY <2>1, <2>2, <2>5 DEF x
  <1>7. turns(sc) # {} => sc[Max(turns(sc))] = t[Max(turns(t))]
    <2> SUFFICES ASSUME turns(sc) # {} PROVE sc[Max(turns(sc))] = t[Max(turns(t))]
      OBVIOUS
    <2>1. turns(sc) \subseteq 1 .. n
      BY <1>1
    <2>2. Max(turns(sc)) \in turns(sc)
      BY <1>1, <2>1, MaxOf
    <2> QED BY <1>5, <2>2
  <1> QED BY <1>4, <1>5, <1>6, <1>7 DEF KeyBefore

-----------------------------------------------------------------------------
(* The verifier's findings of a sidecar.                                   *)

(* A beginning of a sidecar has no finding that the sidecar does not have. *)
LEMMA FindingsShorter ==
    ASSUME NEW b, NEW sc \in SideBytes, NEW t \in SideBytes, Extends(t, sc),
           SidecarFindings(b, sc) = {}
    PROVE  SidecarFindings(b, t) = {}
  <1> SUFFICES ASSUME NEW n \in SidecarFindings(b, t) PROVE FALSE
    OBVIOUS
  <1>1. /\ Items(t) = {m \in Items(sc) : m <= LineCount(t)}
        /\ \A m \in Items(t) : t[m] = sc[m]
    BY ShorterItems
  <1>2. /\ Items(t) \subseteq 1 .. LineCount(t) /\ LineCount(t) \in Nat
        /\ Items(sc) \subseteq 1 .. LineCount(sc) /\ LineCount(sc) \in Nat
    BY ItemFacts
  <1>3. n \in Items(t) /\ n \in Items(sc) /\ t[n] = sc[n]
    BY <1>1 DEF SidecarFindings
  <1>4. \A m \in 1 .. n : m \in Items(sc) <=> m \in Items(t)
    BY <1>1, <1>2, <1>3
  <1>5. \A m \in 1 .. n : m \in Items(sc) => sc[m] = t[m]
    BY <1>1, <1>4
  <1>6. KeyBefore(sc, n) = KeyBefore(t, n) /\ (OutOfOrder(sc, n) <=> OutOfOrder(t, n))
    BY <1>3, <1>4, <1>5, ItemSame
  <1>7. n \in SidecarFindings(b, sc)
    BY <1>3, <1>6 DEF SidecarFindings
  <1> QED BY <1>7

(* What a file of which a part is durable may become: the part's complete  *)
(* lines stay, and so does whether a discontinuity names one of them.      *)
Continues(b, c) ==
    /\ Extends(b, c)
    /\ \A n \in 1 .. LineCount(b) : Damaged(c, n) <=> Damaged(b, n)

(* Then it still holds every line that is signed.                          *)
LEMMA FindingsStay ==
    ASSUME NEW b \in Bytes, NEW c \in Bytes, Continues(b, c), NEW sc \in SideBytes,
           SidecarFindings(b, sc) = {}
    PROVE  SidecarFindings(c, sc) = {}
  <1> SUFFICES ASSUME NEW n \in Items(sc)
               PROVE  n \in SidecarFindings(c, sc) => n \in SidecarFindings(b, sc)
    BY DEF SidecarFindings
  <1> DEFINE item == sc[n][1]
  <1>1. item.seq \in Nat \ {0} /\ item.kind \in {"signature", "rotation"}
    BY ItemFacts
  <1>2. /\ LineCount(b) \in Nat /\ LineCount(c) \in Nat /\ LineCount(b) <= LineCount(c)
        /\ \A m \in 1 .. LineCount(b) : c[m] = b[m] /\ (Damaged(c, m) <=> Damaged(b, m))
    BY DEF Continues, Extends, LineCount, Bytes
  <1>3. ASSUME item.seq <= LineCount(b)
        PROVE  /\ item.seq <= LineCount(c)
               /\ \A m \in 1 .. item.seq : c[m] = b[m] /\ (Damaged(c, m) <=> Damaged(b, m))
    BY <1>1, <1>2, <1>3
  <1> HIDE DEF item
  <1>4. NamesRecord(b, item) => NamesRecord(c, item)
    <2> SUFFICES ASSUME NamesRecord(b, item) PROVE NamesRecord(c, item)
      OBVIOUS
    <2>1. item.seq <= LineCount(b) /\ item.seq \in 1 .. item.seq
      BY <1>1 DEF NamesRecord
    <2>2. c[item.seq] = b[item.seq] /\ (Damaged(c, item.seq) <=> Damaged(b, item.seq))
      BY <1>3, <2>1
    <2> QED BY <1>3, <2>1, <2>2 DEF NamesRecord
  <1>5. NamesTrail(b, item) => NamesTrail(c, item)
    <2> SUFFICES ASSUME NamesTrail(b, item) PROVE NamesTrail(c, item)
      OBVIOUS
    <2>1. item.seq <= LineCount(b)
      BY DEF NamesTrail
    <2>2. PICK k \in 1 .. item.seq :
            /\ ChainedLine(b[k]) /\ ~ Damaged(b, k)
            /\ \A m \in k + 1 .. item.seq : ~ ChainedLine(b[m]) \/ Damaged(b, m)
            /\ b[k][1].trail = item.trail
      BY DEF NamesTrail
    <2>3. \A m \in k + 1 .. item.seq : m \in 1 .. item.seq
      BY <1>1
    <2>4. /\ ChainedLine(c[k]) /\ ~ Damaged(c, k)
          /\ \A m \in k + 1 .. item.seq : ~ ChainedLine(c[m]) \/ Damaged(c, m)
          /\ c[k][1].trail = item.trail
      BY <1>3, <2>1, <2>2, <2>3
    <2> QED BY <1>3, <2>1, <2>4 DEF NamesTrail
  <1> QED BY <1>4, <1>5 DEF item, SidecarFindings

(* t is the sidecar sc and, behind all its lines, k new ones of one key,   *)
(* of which none but the last is a rotation.                               *)
AddsLines(sc, t, p, k, key) ==
    /\ LineCount(sc) <= p /\ Items(t) = Items(sc) \cup (p + 1 .. p + k)
    /\ \A m \in Items(sc) : t[m] = sc[m]
    /\ \A m \in p + 1 .. p + k :
        t[m][1].key = key /\ (t[m][1].kind = "rotation" => m = p + k)

(* The key in force at the end of a sidecar is the one before those.       *)
LEMMA KeyOfNew ==
    ASSUME NEW b, NEW sc \in SideBytes, NEW t \in SideBytes, NEW p \in Nat, NEW k \in Nat,
           NEW key, SidecarFindings(b, sc) = {}, KeyInForce(sc, key),
           AddsLines(sc, t, p, k, key), NEW n \in p + 1 .. p + k
    PROVE  KeyBefore(t, n) = key
  <1> USE DEF AddsLines
  <1> DEFINE turned == {m \in Items(sc) : sc[m][1].kind = "rotation"}
  <1>1. /\ Items(sc) \subseteq 1 .. LineCount(sc) /\ LineCount(sc) \in Nat
        /\ Items(t) \subseteq 1 .. LineCount(t) /\ LineCount(t) \in Nat
        /\ \A m \in Items(sc) : sc[m][1].kind \in {"signature", "rotation"}
    BY ItemFacts
  <1>2. \A m \in Items(sc) : m \in Nat /\ m <= p /\ m < n /\ m \notin p + 1 .. p + k
    BY <1>1
  <1>3. {m \in Items(t) : m < n /\ t[m][1].kind = "rotation"} = turned
    BY <1>2
  <1>4. KeyBefore(t, n) = IF turned = {} THEN t[Min(Items(t))][1].key
                                         ELSE t[Max(turned)][1].next
    BY <1>3 DEF KeyBefore
  <1>5. CASE Items(sc) = {}
    <2>1. Items(t) = p + 1 .. p + k /\ turned = {}
      BY <1>5
    <2>2. p + 1 \in Items(t) /\ \A y \in Items(t) : p + 1 <= y
      BY <2>1
    <2>3. Items(t) \subseteq Nat
      BY <1>1
    <2>4. Min(Items(t)) = p + 1
      BY <2>2, <2>3, MinIs
    <2>5. p + 1 \in p + 1 .. p + k
      BY <2>1, <2>2
    <2>6. t[p + 1][1].key = key
      BY <2>5
    <2> QED BY <1>4, <2>1, <2>4, <2>6
  <1>6. CASE Items(sc) # {}
    <2> DEFINE last == Max(Items(sc))
    <2>1. last \in Items(sc) /\ \A y \in Items(sc) : y <= last
      BY <1>1, <1>6, MaxOf
    <2>2. (IF sc[last][1].kind = "rotation" THEN sc[last][1].next ELSE sc[last][1].key) = key
      BY <1>6 DEF KeyInForce
    <2> HIDE DEF last
    <2>3. CASE sc[last][1].kind = "rotation"
      <3>1. last \in turned /\ turned \subseteq 0 .. LineCount(sc)
            /\ \A y \in turned : y <= last
        BY <1>1, <2>1, <2>3
      <3> HIDE DEF turned
      <3>2. Max(turned) = last
        BY <1>1, <3>1, MaxIs
      <3>3. t[last] = sc[last]
        BY <2>1
      <3> QED BY <1>4, <2>2, <2>3, <3>1, <3>2, <3>3
    <2>4. CASE sc[last][1].kind # "rotation"
      <3>1. sc[last][1].key = key /\ sc[last][1].key = KeyBefore(sc, last)
        BY <2>1, <2>2, <2>4 DEF SidecarFindings
      <3>2. \A m \in turned : m < last
        BY <1>1, <2>1, <2>4
      <3>3. {m \in Items(sc) : m < last /\ sc[m][1].kind = "rotation"} = turned
        BY <3>2
      <3>4. KeyBefore(sc, last) = IF turned = {} THEN sc[Min(Items(sc))][1].key
                                                 ELSE sc[Max(turned)][1].next
        BY <3>3 DEF KeyBefore
      <3>5. t[Min(Items(t))] = sc[Min(Items(sc))]
        <4> DEFINE x == Min(Items(sc))
        <4>1. x \in Items(sc) /\ \A y \in Items(sc) : x <= y
          BY <1>1, <1>6, MinOf
        <4>2. x \in Items(t) /\ \A y \in Items(t) : x <= y
          BY <1>1, <1>2, <4>1
        <4>3. Items(t) \subseteq Nat
          BY <1>1
        <4> HIDE DEF x
        <4>4. Min(Items(t)) = x
          BY <4>2, <4>3, MinIs
        <4>5. t[x] = sc[x]
          BY <4>1
        <4> QED BY <4>4, <4>5 DEF x
      <3>6. turned # {} => t[Max(turned)] = sc[Max(turned)]
        <4>1. turned \subseteq 1 .. LineCount(sc) /\ turned \subseteq Items(sc)
          BY <1>1
        <4>2. turned # {} => Max(turned) \in turned
          BY <1>1, <4>1, MaxOf
        <4> QED BY <4>1, <4>2
      <3> QED BY <1>4, <3>1, <3>4, <3>5, <3>6
    <2> QED BY <2>3, <2>4
  <1> QED BY <1>5, <1>6

(* New lines behind all that is there, of the key in force, in order and   *)
(* each naming what the trail holds, are no findings.                      *)
LEMMA FindingsSigned ==
    ASSUME NEW b, NEW sc \in SideBytes, NEW t \in SideBytes, NEW p \in Nat, NEW k \in Nat,
           NEW key, SidecarFindings(b, sc) = {}, KeyInForce(sc, key),
           AddsLines(sc, t, p, k, key),
           \A m \in p + 1 .. p + k :
               /\ ~ OutOfOrder(t, m)
               /\ t[m][1].kind = "signature" => NamesRecord(b, t[m][1])
               /\ t[m][1].kind = "rotation" => NamesTrail(b, t[m][1])
    PROVE  SidecarFindings(b, t) = {}
  <1> SUFFICES ASSUME NEW n \in SidecarFindings(b, t) PROVE FALSE
    OBVIOUS
  <1>1. n \in Items(t)
    BY DEF SidecarFindings
  <1>2. CASE n \in p + 1 .. p + k
    <2>1. KeyBefore(t, n) = key
      BY <1>2, KeyOfNew
    <2> QED BY <1>2, <2>1 DEF SidecarFindings, AddsLines
  <1>3. CASE n \in Items(sc)
    <2>1. Items(sc) \subseteq 1 .. LineCount(sc) /\ LineCount(sc) \in Nat
      BY ItemFacts
    <2>2. \A m \in 1 .. n : m \in Items(sc) <=> m \in Items(t)
      BY <1>3, <2>1 DEF AddsLines
    <2>3. \A m \in 1 .. n : m \in Items(sc) => sc[m] = t[m]
      BY DEF AddsLines
    <2>4. KeyBefore(sc, n) = KeyBefore(t, n) /\ (OutOfOrder(sc, n) <=> OutOfOrder(t, n))
      BY <1>1, <1>3, <2>2, <2>3, ItemSame
    <2>5. sc[n] = t[n]
      BY <1>3 DEF AddsLines
    <2>6. n \in SidecarFindings(b, sc)
      BY <1>3, <2>4, <2>5 DEF SidecarFindings
    <2> QED BY <2>6
  <1> QED BY <1>1, <1>2, <1>3 DEF AddsLines

-----------------------------------------------------------------------------
(* What a signing writer adds to the sidecar.                              *)

Ended(sc, lines) ==
    (IF TailOf(sc) # << >> THEN << TornLineEnd >> ELSE << >>) \o lines \o << << >> >>

LEMMA TornLineType == TornLineEnd \in Seq(SidePiece) /\ Len(TornLineEnd) = 1
  <1> DEFINE p == [len |-> 1, kind |-> "torn-line-end", key |-> NoKey, trail |-> NoTrail,
                   seq |-> 0, rec |-> Empty, next |-> NoKey]
  <1>1. p \in SidePiece
    BY EmptyType, BodyAssumption DEF SidePiece, SideKeys, Trails
  <1>2. TornLineEnd = << p >>
    BY DEF TornLineEnd
  <1> HIDE DEF p
  <1> QED BY <1>1, <1>2

(* The new lines are readable and stand behind the others, and nothing     *)
(* else is read anew: a torn last line, once ended, is not.                *)
LEMMA AddedLines ==
    ASSUME NEW sc \in SideBytes, NEW lines \in Seq(Seq(SidePiece)),
           \A j \in 1 .. Len(lines) : Readable(lines[j])
    PROVE  LET t == Concat(sc, Ended(sc, lines)) IN
           /\ Ended(sc, lines) \in SideBytes /\ t \in SideBytes /\ Extends(sc, t)
           /\ \E p \in Nat :
                /\ LineCount(sc) <= p
                /\ Items(t) = Items(sc) \cup (p + 1 .. p + Len(lines))
                /\ \A m \in Items(sc) : t[m] = sc[m]
                /\ \A j \in 1 .. Len(lines) : t[p + j] = lines[j]
  <1> DEFINE k == Len(lines)
             d == Ended(sc, lines)
             t == Concat(sc, d)
  <1>1. sc \in Seq(Seq(SidePiece)) /\ sc # << >> /\ Len(sc) \in Nat \ {0} /\ k \in Nat
        /\ LineCount(sc) = Len(sc) - 1 /\ sc[Len(sc)] \in Seq(SidePiece)
    BY DEF SideBytes, LineCount
  <1>2. \E o \in {0, 1} :
            /\ d \in Seq(Seq(SidePiece)) /\ Len(d) = o + k + 1
            /\ \A j \in 1 .. k : d[o + j] = lines[j]
            /\ d[o + k + 1] = << >>
            /\ o = 0 => TailOf(sc) = << >>
            /\ o = 1 => TailOf(sc) # << >> /\ d[1] = TornLineEnd
    <2>1. CASE TailOf(sc) = << >>
      <3>1. d = lines \o << << >> >>
        BY <2>1 DEF Ended
      <3> HIDE DEF d
      <3>2. d \in Seq(Seq(SidePiece)) /\ Len(d) = 0 + k + 1 /\ d[0 + k + 1] = << >>
            /\ \A j \in 1 .. k : d[0 + j] = lines[j]
        BY <3>1
      <3> QED BY <2>1, <3>2
    <2>2. CASE TailOf(sc) # << >>
      <3>1. d = << TornLineEnd >> \o lines \o << << >> >>
        BY <2>2 DEF Ended
      <3> DEFINE torn == TornLineEnd
      <3>2. torn \in Seq(SidePiece)
        BY TornLineType
      <3> HIDE DEF d, torn
      <3>3. d = << torn >> \o lines \o << << >> >>
        BY <3>1 DEF torn
      <3>4. d \in Seq(Seq(SidePiece)) /\ Len(d) = 1 + k + 1 /\ d[1 + k + 1] = << >>
            /\ d[1] = torn
            /\ \A j \in 1 .. k : d[1 + j] = lines[j]
        BY <3>2, <3>3
      <3> QED BY <2>2, <3>4 DEF torn
    <2> QED BY <2>1, <2>2
  <1>3. PICK o \in {0, 1} :
            /\ d \in Seq(Seq(SidePiece)) /\ Len(d) = o + k + 1
            /\ \A j \in 1 .. k : d[o + j] = lines[j]
            /\ d[o + k + 1] = << >>
            /\ o = 0 => TailOf(sc) = << >>
            /\ o = 1 => TailOf(sc) # << >> /\ d[1] = TornLineEnd
    BY <1>2
  <1> HIDE DEF d
  <1>4. d # << >> /\ Len(d) \in Nat
    BY <1>1, <1>3
  <1>5. d \in SideBytes
    BY <1>3, <1>4 DEF SideBytes
  <1>6. t \in SideBytes /\ Extends(sc, t)
    BY <1>5, SideConcat
  <1>7. /\ Len(t) = Len(sc) + o + k
        /\ \A n \in 1 .. Len(sc) - 1 : t[n] = sc[n]
        /\ t[Len(sc)] = sc[Len(sc)] \o d[1]
        /\ \A n \in 2 .. Len(d) : t[Len(sc) + n - 1] = d[n]
    <2>1. /\ Len(t) = Len(sc) + Len(d) - 1
          /\ \A n \in 1 .. Len(sc) - 1 : t[n] = sc[n]
          /\ t[Len(sc)] = sc[Len(sc)] \o d[1]
          /\ \A n \in 2 .. Len(d) : t[Len(sc) + n - 1] = d[n]
      <3>1. sc \in Seq(Seq(SidePiece)) /\ sc # << >>
        BY <1>1
      <3>2. d \in Seq(Seq(SidePiece)) /\ d # << >>
        BY <1>3, <1>4
      <3>3. /\ Concat(sc, d) \in Seq(Seq(SidePiece)) /\ Concat(sc, d) # << >>
            /\ Len(Concat(sc, d)) = Len(sc) + Len(d) - 1
            /\ \A n \in 1 .. Len(sc) - 1 : Concat(sc, d)[n] = sc[n]
            /\ Concat(sc, d)[Len(sc)] = sc[Len(sc)] \o d[1]
            /\ \A n \in 2 .. Len(d) : Concat(sc, d)[Len(sc) + n - 1] = d[n]
        BY ONLY <3>1, <3>2, ConcatAny, Zenon
      <3> QED BY ONLY <3>3
    <2> QED BY <1>1, <1>3, <2>1
  <1> DEFINE p == Len(sc) - 1 + o
  <1>8. p \in Nat /\ LineCount(sc) <= p /\ LineCount(t) = p + k
    BY <1>1, <1>7 DEF LineCount
  <1>9. \A j \in 1 .. k : t[p + j] = lines[j]
    <2> SUFFICES ASSUME NEW j \in 1 .. k PROVE t[p + j] = lines[j]
      OBVIOUS
    <2>1. d[o + j] = lines[j] /\ o + j \in 1 .. Len(d) /\ p + j = Len(sc) + (o + j) - 1
      <3>1. d[o + j] = lines[j]
        BY <1>3
      <3>2. o + j \in 1 .. Len(d)
        <4>1. Len(d) = o + k + 1 /\ o \in Nat /\ k \in Nat /\ j \in Nat /\ 1 <= j /\ j <= k
          BY <1>1, <1>3
        <4> HIDE DEF k
        <4>2. \A x, y, z \in Nat : 1 <= y /\ y <= z => x + y \in 1 .. x + z + 1
          OBVIOUS
        <4> QED BY <4>1, <4>2
      <3>3. p + j = Len(sc) + (o + j) - 1
        BY <1>1, <1>3
      <3> QED BY <3>1, <3>2, <3>3
    <2>2. CASE o + j = 1
      <3>1. o = 0 /\ j = 1
        BY <1>3, <2>2
      <3>2. sc[Len(sc)] = << >>
        BY <1>3, <3>1 DEF TailOf
      <3>3. d[1] \in Seq(SidePiece)
        BY <1>3, <2>1, <2>2
      <3>4. << >> \o d[1] = d[1]
        BY <3>3
      <3>5. p + j = Len(sc)
        BY <1>1, <2>1, <2>2
      <3> QED BY <1>7, <2>1, <2>2, <3>2, <3>4, <3>5
    <2>3. CASE o + j # 1
      <3>1. o + j \in 2 .. Len(d)
        BY <1>1, <1>3, <2>1, <2>3
      <3>2. t[Len(sc) + (o + j) - 1] = d[o + j]
        BY <1>7, <3>1
      <3> QED BY <2>1, <3>2
    <2> QED BY <2>2, <2>3
  <1>10. o = 1 => ~ Readable(t[Len(sc)])
    <2> SUFFICES ASSUME o = 1 PROVE ~ Readable(t[Len(sc)])
      OBVIOUS
    <2>1. sc[Len(sc)] \in Seq(SidePiece) /\ sc[Len(sc)] # << >>
      BY <1>1, <1>3 DEF TailOf
    <2>2. t[Len(sc)] = sc[Len(sc)] \o TornLineEnd
      BY <1>3, <1>7
    <2>3. Len(t[Len(sc)]) = Len(sc[Len(sc)]) + 1 /\ Len(sc[Len(sc)]) \in Nat \ {0}
      <3>1. \A l, m \in Seq(SidePiece) : Len(l \o m) = Len(l) + Len(m)
        OBVIOUS
      <3>2. \A l \in Seq(SidePiece) : l # << >> => Len(l) \in Nat \ {0}
        OBVIOUS
      <3>3. Len(sc[Len(sc)] \o TornLineEnd) = Len(sc[Len(sc)]) + 1
        BY <2>1, <3>1, TornLineType
      <3> QED BY <2>1, <2>2, <3>2, <3>3
    <2> QED BY <2>3 DEF Readable
  <1>11. \A m \in Items(sc) : t[m] = sc[m]
    BY <1>1, <1>7 DEF Items
  <1>12. Items(t) = Items(sc) \cup (p + 1 .. p + k)
    <2> HIDE DEF t
    <2>1. ASSUME NEW n \in 1 .. p + k
          PROVE  Readable(t[n]) <=> n \in Items(sc) \cup (p + 1 .. p + k)
      <3>1. CASE n <= Len(sc) - 1
        <4>1. n \in 1 .. LineCount(sc) /\ t[n] = sc[n] /\ n \notin p + 1 .. p + k
          BY <1>1, <1>3, <1>7, <3>1
        <4> QED BY <4>1 DEF Items
      <3>2. CASE n = Len(sc) /\ o = 1
        <4>1. n \notin 1 .. LineCount(sc) /\ n \notin p + 1 .. p + k
          BY <1>1, <3>2
        <4> QED BY <1>10, <3>2, <4>1 DEF Items
      <3>3. CASE n > p
        <4>1. n - p \in 1 .. k /\ p + (n - p) = n
          BY <1>1, <1>3, <1>8, <3>3
        <4>2. t[n] = lines[n - p] /\ Readable(lines[n - p])
          BY <1>9, <4>1
        <4>3. n \in p + 1 .. p + k
          BY <1>8, <3>3
        <4> QED BY <4>2, <4>3
      <3> QED BY <1>1, <1>3, <3>1, <3>2, <3>3
    <2>2. Items(sc) \cup (p + 1 .. p + k) \subseteq 1 .. p + k
      BY <1>1, <1>8 DEF Items
    <2>3. Items(t) = {n \in 1 .. p + k : Readable(t[n])}
      BY <1>8 DEF Items
    <2> HIDE DEF p, k
    <2> QED BY <2>1, <2>2, <2>3
  <1> HIDE DEF t, p
  <1>13. \E q \in Nat :
            /\ LineCount(sc) <= q
            /\ Items(t) = Items(sc) \cup (q + 1 .. q + k)
            /\ \A m \in Items(sc) : t[m] = sc[m]
            /\ \A j \in 1 .. k : t[q + j] = lines[j]
    BY <1>8, <1>9, <1>11, <1>12
  <1> QED BY <1>5, <1>6, <1>13 DEF t, d

-----------------------------------------------------------------------------
(* What a writer that signs has written of the trail.                      *)

(* The head of a linked file is its last line, and names its trail.        *)
LEMMA HeadNames ==
    ASSUME NEW b \in Bytes, WellLinked(b), TrailHead(b).trail # NoTrail
    PROVE  /\ TrailHead(b).at = LineCount(b) /\ LineCount(b) \in Nat \ {0}
           /\ TrailHead(b).trail \in Trails
           /\ \E k \in 1 .. LineCount(b) :
                /\ ChainedLine(b[k]) /\ ~ Damaged(b, k)
                /\ \A m \in k + 1 .. LineCount(b) : ~ ChainedLine(b[m])
                /\ b[k][1].trail = TrailHead(b).trail
  <1> DEFINE n == LineCount(b)
  <1>1. n \in Nat /\ DOMAIN b = 1 .. n + 1 /\ \A k \in 1 .. n : k \in DOMAIN b /\ b[k] \in Line
    BY DEF Bytes, LineCount
  <1>2. CASE n > 0 /\ ChainedLine(b[n])
    <2>1. n \in DOMAIN b /\ n \in 1 .. n
      BY <1>1, <1>2
    <2>2. b[n][1].seq = n
      BY <1>2, <2>1 DEF WellLinked, Linked
    <2>3. TrailHead(b).at = n /\ TrailHead(b).trail = b[n][1].trail
      BY <1>2, <2>2 DEF TrailHead
    <2>4. ~ Damaged(b, n)
      BY <1>1 DEF Damaged
    <2>5. \A m \in n + 1 .. n : ~ ChainedLine(b[m])
      BY <1>1
    <2>6. b[n][1] \in Piece
      <3>1. b[n] \in Line /\ Len(b[n]) = 1
        BY <1>1, <1>2, <2>1 DEF ChainedLine, WholeRecord
      <3> QED BY <3>1 DEF Line
    <2>7. b[n][1].trail \in Trails
      BY <2>6 DEF Piece
    <2> HIDE DEF n
    <2> QED BY <1>1, <1>2, <2>1, <2>3, <2>4, <2>5, <2>7 DEF n
  <1>3. CASE ~ (n > 0 /\ ChainedLine(b[n]))
    <2>1. TrailHead(b).at = n /\ TrailHead(b).trail = LastTrail(b)
      BY <1>3 DEF TrailHead
    <2> DEFINE last == {k \in 1 .. n : /\ ChainedLine(b[k])
                                       /\ \A m \in k + 1 .. n : ~ ChainedLine(b[m])}
    <2>2. last # {}
      BY <2>1 DEF LastTrail
    <2> DEFINE k == CHOOSE k \in last : TRUE
    <2>3. k \in last
      BY <2>2
    <2>4. LastTrail(b) = b[k][1].trail
      BY <2>2 DEF LastTrail
    <2> HIDE DEF k
    <2>5. k \in 1 .. n /\ ChainedLine(b[k]) /\ \A m \in k + 1 .. n : ~ ChainedLine(b[m])
      BY <2>3
    <2>6. ~ Damaged(b, k)
      <3> SUFFICES ASSUME Damaged(b, k) PROVE FALSE
        OBVIOUS
      <3>1. k < n /\ ChainedLine(b[k + 1])
        BY DEF Damaged, Excuses, IsDiscontinuity
      <3>2. k + 1 \in k + 1 .. n
        BY <1>1, <2>5, <3>1
      <3> QED BY <2>5, <3>1, <3>2
    <2>7. LastTrail(b) \in Trails
      BY LastTrailType
    <2> QED BY <1>1, <2>1, <2>4, <2>5, <2>6, <2>7
  <1> QED BY <1>2, <1>3

(* A file between two of which one continues the other.                    *)
LEMMA ContinuesPart ==
    ASSUME NEW a \in Bytes, NEW b \in Bytes, NEW c \in Bytes, Continues(a, c),
           Extends(a, b), Extends(b, c)
    PROVE  Continues(a, b)
  <1>1. /\ LineCount(a) \in Nat /\ LineCount(b) \in Nat /\ LineCount(c) \in Nat
        /\ LineCount(a) <= LineCount(b) /\ LineCount(b) <= LineCount(c)
    BY DEF Extends, LineCount, Bytes
  <1>2. ASSUME NEW n \in 1 .. LineCount(a) PROVE Damaged(b, n) <=> Damaged(a, n)
    <2>1. CASE n < LineCount(a)
      <3>1. n + 1 \in 1 .. LineCount(a) /\ n \in 1 .. LineCount(a) /\ n + 1 - 1 = n
            /\ n < LineCount(b)
        BY <1>1, <2>1
      <3>2. b[n] = a[n] /\ b[n + 1] = a[n + 1]
        BY <3>1 DEF Extends
      <3>3. Excuses(b, n + 1) <=> Excuses(a, n + 1)
        BY <3>1, <3>2 DEF Excuses, IsDiscontinuity
      <3> QED BY <2>1, <3>1, <3>3 DEF Damaged
    <2>2. CASE n = LineCount(a)
      <3>1. ~ Damaged(a, n) /\ ~ Damaged(c, n)
        BY <1>1, <2>2 DEF Damaged, Continues
      <3> SUFFICES ASSUME Damaged(b, n) PROVE Damaged(c, n)
        BY <3>1
      <3>2. n < LineCount(b) /\ Excuses(b, n + 1)
        BY DEF Damaged
      <3>3. n + 1 \in 1 .. LineCount(b) /\ n \in 1 .. LineCount(b) /\ n + 1 - 1 = n
            /\ n < LineCount(c)
        BY <1>1, <3>2
      <3>4. c[n] = b[n] /\ c[n + 1] = b[n + 1]
        BY <3>3 DEF Extends
      <3>5. Excuses(c, n + 1)
        BY <3>2, <3>3, <3>4 DEF Excuses, IsDiscontinuity
      <3> QED BY <3>3, <3>5 DEF Damaged
    <2> QED BY <1>1, <2>1, <2>2
  <1> QED BY <1>2 DEF Continues

LEMMA ContinuesTransitive ==
    ASSUME NEW a \in Bytes, NEW b \in Bytes, NEW c \in Bytes, Continues(a, b), Continues(b, c)
    PROVE  Continues(a, c)
  <1>1. Extends(a, c)
    BY ExtendsTransitive DEF Continues
  <1>2. ASSUME NEW n \in 1 .. LineCount(a) PROVE Damaged(c, n) <=> Damaged(a, n)
    <2>1. n \in 1 .. LineCount(b)
      BY DEF Continues, Extends, LineCount, Bytes
    <2> QED BY <1>2, <2>1 DEF Continues
  <1> QED BY <1>1, <1>2 DEF Continues

LEMMA ContinuesItself ==
    ASSUME NEW b \in Bytes PROVE Continues(b, b)
  BY ExtendsItself DEF Continues

(* What is behind a file that is no discontinuity leaves its lines.        *)
LEMMA ContinuesBehind ==
    ASSUME NEW b \in Bytes, NEW c \in Bytes, Extends(b, c), ~ DiscontinuityKind(c[Len(b)])
    PROVE  Continues(b, c)
  <1>1. /\ LineCount(b) \in Nat /\ LineCount(c) \in Nat /\ LineCount(b) <= LineCount(c)
        /\ Len(b) = LineCount(b) + 1
    BY DEF Extends, LineCount, Bytes
  <1>2. ASSUME NEW n \in 1 .. LineCount(b) PROVE Damaged(c, n) <=> Damaged(b, n)
    <2>1. CASE n < LineCount(b)
      <3>1. n + 1 \in 1 .. LineCount(b) /\ n \in 1 .. LineCount(b) /\ n + 1 - 1 = n
            /\ n < LineCount(c)
        BY <1>1, <2>1
      <3>2. b[n] = c[n] /\ b[n + 1] = c[n + 1]
        BY <3>1 DEF Extends
      <3>3. Excuses(b, n + 1) <=> Excuses(c, n + 1)
        BY <3>1, <3>2 DEF Excuses, IsDiscontinuity
      <3> QED BY <2>1, <3>1, <3>3 DEF Damaged
    <2>2. CASE n = LineCount(b)
      <3>1. ~ Damaged(b, n)
        BY <1>1, <2>2 DEF Damaged
      <3>2. ~ Damaged(c, n)
        BY <1>1, <2>2 DEF Damaged, Excuses, IsDiscontinuity
      <3> QED BY <3>1, <3>2
    <2> QED BY <1>1, <2>1, <2>2
  <1> QED BY <1>2 DEF Continues
(* The chained lines of d are lines of the file c, one behind the other,   *)
(* and no discontinuity names one.                                         *)
Stands(c, d) ==
    /\ \E a, k \in Nat : ChainedAt(d) = a + 1 .. a + k
    /\ \A n \in ChainedAt(d) :
        /\ d[n][1].seq \in 1 .. LineCount(c)
        /\ c[d[n][1].seq] = d[n] /\ ~ Damaged(c, d[n][1].seq)
    /\ \A m, n \in ChainedAt(d) : m < n => d[m][1].seq < d[n][1].seq

(* And they are behind all those of b.                                     *)
Behind(b, c, d) ==
    /\ Stands(c, d)
    /\ \A n \in ChainedAt(d) : d[n][1].seq > LineCount(b)

LEMMA AppendBehind ==
    ASSUME TypeOK, NEW w \in Writer, NEW b \in Bytes, WellLinked(b), Locked(w),
           Op[w] = "append", Composed(w, b).err = "none"
    PROVE  LET d == Composed(w, b).data IN
           Continues(b, Concat(b, d)) /\ Behind(b, Concat(b, d), d)
  <1> DEFINE d == Composed(w, b).data
             c == Concat(b, d)
             L == LineCount(b)
             S == Size[w]
  <1>1. /\ TailOf(b) = << >>
        /\ d \in Bytes /\ S \in Nat \ {0} /\ Len(d) = S + 1
        /\ \A i \in 1 .. S : WholeRecord(d[i]) /\ ChainedLine(d[i]) /\ ~ DiscontinuityKind(d[i])
        /\ d[S + 1] = << >>
    BY AppendedBatch
  <1>2. L \in Nat /\ Len(b) = L + 1
    BY DEF Bytes, LineCount
  <1>3. WellLinked(c)
    BY ComposedLinked
  <1> HIDE DEF d, L, S
  <1>4. /\ c \in Bytes /\ Extends(b, c) /\ Len(c) = Len(b) + Len(d) - 1
    BY <1>1, ConcatType, ConcatExtends
  <1>5. \A i \in 1 .. S + 1 : c[L + i] = d[i]
    BY <1>1, ConcatLines DEF L
  <1>6. LineCount(c) = L + S /\ DOMAIN c = 1 .. L + S + 1
    BY <1>1, <1>2, <1>4 DEF LineCount, Bytes
  <1> HIDE DEF c
  <1>7. Continues(b, c)
    <2>1. c[Len(b)] = d[1] /\ 1 \in 1 .. S
      BY <1>1, <1>2, <1>5
    <2>2. ~ DiscontinuityKind(c[Len(b)])
      BY <1>1, <2>1
    <2> QED BY <1>4, <2>2, ContinuesBehind
  <1>8. ChainedAt(d) = 1 .. S
    <2>1. ~ ChainedLine(d[S + 1])
      BY <1>1 DEF ChainedLine, WholeRecord
    <2>2. DOMAIN d = 1 .. S + 1
      BY <1>1 DEF Bytes
    <2> QED BY <1>1, <2>1, <2>2 DEF ChainedAt
  <1>9. ASSUME NEW i \in 1 .. S
        PROVE  /\ d[i][1].seq = L + i /\ L + i \in 1 .. LineCount(c)
               /\ c[L + i] = d[i] /\ ~ Damaged(c, L + i)
    <2>1. c[L + i] = d[i] /\ L + i \in 1 .. LineCount(c) /\ L + i \in DOMAIN c
      BY <1>1, <1>2, <1>5, <1>6
    <2>2. d[i][1].seq = L + i
      BY <1>1, <1>3, <2>1 DEF WellLinked, Linked
    <2>3. ~ Damaged(c, L + i)
      <3> SUFFICES ASSUME Damaged(c, L + i) PROVE FALSE
        OBVIOUS
      <3>1. L + i < L + S /\ DiscontinuityKind(c[L + i + 1])
        BY <1>6 DEF Damaged, Excuses, IsDiscontinuity
      <3>2. i + 1 \in 1 .. S /\ i + 1 \in 1 .. S + 1 /\ L + (i + 1) = L + i + 1
        BY <1>1, <1>2, <3>1
      <3>3. c[L + i + 1] = d[i + 1]
        BY <1>5, <3>2
      <3> QED BY <1>1, <3>1, <3>2, <3>3
    <2> QED BY <2>1, <2>2, <2>3
  <1>10. \E a, k \in Nat : ChainedAt(d) = a + 1 .. a + k
    <2>1. ChainedAt(d) = 0 + 1 .. 0 + S /\ S \in Nat /\ 0 \in Nat
      BY <1>1, <1>8
    <2> QED BY <2>1
  <1>11. \A n \in ChainedAt(d) :
            /\ d[n][1].seq \in 1 .. LineCount(c) /\ d[n][1].seq > L
            /\ c[d[n][1].seq] = d[n] /\ ~ Damaged(c, d[n][1].seq)
    BY <1>1, <1>2, <1>8, <1>9
  <1>12. \A m, n \in ChainedAt(d) : m < n => d[m][1].seq < d[n][1].seq
    BY <1>1, <1>2, <1>8, <1>9
  <1>13. Behind(b, c, d)
    BY <1>10, <1>11, <1>12 DEF Behind, Stands, L
  <1> QED BY <1>7, <1>13 DEF c, d

LEMMA RepairBehind ==
    ASSUME TypeOK, NEW w \in Writer, NEW b \in Bytes, WellLinked(b), Locked(w),
           Op[w] \in {"repair", "bound"}, Composed(w, b).err = "none"
    PROVE  LET d == Composed(w, b).data IN
           Continues(b, Concat(b, d)) /\ Behind(b, Concat(b, d), d)
  <1> DEFINE D == Discontinuity(w, b)
             d == Composed(w, b).data
             c == Concat(b, d)
  <1>1. Composed(w, b) = RepairLines(b, w, TRUE, Op[w] = "bound", shown[w])
    BY DEF Composed
  <1>2. d = << << >>, << D >>, << >> >> /\ ~ DiscontinuityKind(TailOf(b))
    BY <1>1 DEF RepairLines, Refuse, Give
  <1>3. /\ c \in Bytes /\ Len(c) = Len(b) + 2 /\ Len(b) \in Nat \ {0}
        /\ \A n \in 1 .. Len(b) : c[n] = b[n]
        /\ c[Len(b) + 1] = << D >> /\ c[Len(b) + 2] = << >>
    BY RepairedLines
  <1>4. WellLinked(c)
    BY ComposedLinked
  <1>5. w \in Author
    BY WriterAssumption
  <1>6. D \in Piece /\ D.len = Body /\ D.trail # NoTrail
    <2>1. LineCount(b) \in 0 .. LineCount(b)
      BY DEF LineCount, Bytes
    <2>2. UpTo(b, LineCount(b)) \in Bytes
      BY <2>1, UpToType
    <2>3. ReadHead(UpTo(b, LineCount(b)), w).trail \in Author
      BY <1>5, <2>2, ReadHeadType
    <2> QED BY <1>5, <2>3, DiscontinuityType, AuthorAssumption DEF Discontinuity
  <1> HIDE DEF D
  <1>7. ChainedAt(d) = {2} /\ d[2] = << D >> /\ ChainedLine(d[2])
    <2> DEFINE l == << D >>
    <2>1. Len(l) = 1 /\ l[1] = D
      BY OnePiece
    <2>2. ChainedLine(l)
      BY <1>6, <2>1 DEF ChainedLine, WholeRecord
    <2>3. ~ ChainedLine(<< >>)
      BY DEF ChainedLine, WholeRecord
    <2> HIDE DEF l, d
    <2>4. d = << << >>, l, << >> >>
      BY <1>2 DEF l
    <2>5. DOMAIN d = {1, 2, 3} /\ d[1] = << >> /\ d[2] = l /\ d[3] = << >>
      BY <2>4
    <2> QED BY <2>2, <2>3, <2>5 DEF ChainedAt, l
  <1> HIDE DEF d
  <1>8. DOMAIN c = 1 .. Len(b) + 2 /\ LineCount(c) = Len(b) + 1 /\ LineCount(b) = Len(b) - 1
    BY <1>3 DEF Bytes, LineCount
  <1>9. Extends(b, c)
    BY <1>3, <1>8 DEF Extends
  <1>10. Continues(b, c)
    <2>1. c[Len(b)] = TailOf(b)
      BY <1>3 DEF TailOf
    <2> QED BY <1>2, <1>3, <1>9, <2>1, ContinuesBehind
  <1> HIDE DEF c
  <1>11. d[2][1].seq = Len(b) + 1
    <2>1. c[Len(b) + 1] = d[2] /\ Len(b) + 1 \in DOMAIN c
      BY <1>3, <1>7, <1>8
    <2> QED BY <1>4, <1>7, <2>1 DEF WellLinked, Linked
  <1>12. ~ Damaged(c, Len(b) + 1)
    BY <1>3, <1>8 DEF Damaged
  <1>13. \E a, k \in Nat : ChainedAt(d) = a + 1 .. a + k
    <2>1. ChainedAt(d) = 1 + 1 .. 1 + 1 /\ 1 \in Nat
      BY <1>7
    <2> QED BY <2>1
  <1>14. Behind(b, c, d)
    <2>1. /\ d[2][1].seq \in 1 .. LineCount(c) /\ d[2][1].seq > LineCount(b)
          /\ c[d[2][1].seq] = d[2] /\ ~ Damaged(c, d[2][1].seq)
      <3>1. Len(b) + 1 \in 1 .. LineCount(c) /\ Len(b) + 1 > LineCount(b)
        BY <1>3, <1>8
      <3> QED BY <1>3, <1>7, <1>11, <1>12, <3>1
    <2>2. \A m, n \in ChainedAt(d) : ~ (m < n)
      BY <1>7
    <2> QED BY <1>7, <1>13, <2>1, <2>2 DEF Behind, Stands
  <1> QED BY <1>10, <1>14 DEF c, d

(* What a writer under the lock writes continues the file, and its chained *)
(* lines are behind it.                                                    *)
LEMMA WriteBehind ==
    ASSUME TypeOK, NEW w \in Writer, NEW b \in Bytes, WellLinked(b), Locked(w),
           Composed(w, b).err = "none"
    PROVE  LET d == Composed(w, b).data IN
           Continues(b, Concat(b, d)) /\ Behind(b, Concat(b, d), d)
  <1> DEFINE d == Composed(w, b).data
  <1>1. CASE Op[w] = "rotate"
    <2>1. Concat(b, d) = b
      BY <1>1, RotatedLines
    <2>2. d = Empty
      BY <1>1 DEF Composed, RotateLines, Refuse, Give
    <2> HIDE DEF d
    <2>3. ChainedAt(d) = {} /\ 0 + 1 .. 0 + 0 = {} /\ 0 \in Nat
      BY <2>2 DEF ChainedAt, Empty, ChainedLine, WholeRecord
    <2>4. Behind(b, b, d)
      BY <2>3 DEF Behind, Stands
    <2> QED BY <2>1, <2>4, ContinuesItself DEF d
  <1>2. Op[w] \in {"append", "repair", "bound", "rotate"}
    BY WriterAssumption
  <1> QED BY <1>1, <1>2, AppendBehind, RepairBehind

-----------------------------------------------------------------------------
(* The invariant.                                                          *)

(* There is one trail: whoever has a file open has the trail, its name is  *)
(* durable before anything is signed, and it continues what is durable of  *)
(* it.                                                                     *)
OneTrail ==
    /\ durDir.made => dir.made
    /\ DirMade => durDir.made
    /\ \A w \in Writer :
        /\ pc[w] \in OpenSteps => at[w] = dir.trail
        /\ pc[w] \in {"start", "shown", "open"} => at[w] = NoFile
    /\ durDir.trail \in {NoFile, dir.trail}
    /\ durDir.trail = NoFile => side = Empty /\ \A w \in Writer : pc[w] # "then"
    /\ \A f \in Files : Continues(durable[f], file[f])

(* A writer that has written and still has the lock: its chained lines are *)
(* lines of the file, in their order, and none is signed before it signs.  *)
Written(w) ==
    LET b == file[at[w]] IN
    /\ Stands(b, data[w])
    /\ spc[w] # "sync" =>
        \A m \in Items(side), n \in ChainedAt(data[w]) : side[m][1].seq < data[w][n][1].seq
    /\ pc[w] # "sync" => durable[at[w]] = b
    /\ Op[w] = "rotate" => TrailHead(b).trail # NoTrail

HasRotation(sc, w) ==
    \E n \in Items(sc) :
        /\ sc[n][1].kind = "rotation"
        /\ sc[n][1].key = Key[w] /\ sc[n][1].next = NextKey[w]

(* What a writer signs: its chained lines, or the rotation.                *)
LEMMA LinesSigned ==
    ASSUME TypeOK, NEW w \in Writer, at[w] \in Files, WellLinked(file[at[w]]), Written(w)
    PROVE  /\ LinesToSign(w) \in Seq(Seq(SidePiece))
           /\ \A j \in 1 .. Len(LinesToSign(w)) :
                Readable(LinesToSign(w)[j]) /\ LinesToSign(w)[j][1].key = Key[w]
           /\ Op[w] # "rotate" =>
                \E a \in Nat : \A j \in 1 .. Len(LinesToSign(w)) :
                    /\ a + j \in ChainedAt(data[w])
                    /\ LinesToSign(w)[j] = SignatureLine(w, data[w][a + j])
           /\ Op[w] = "rotate" => LinesToSign(w) = << RotationLine(w, file[at[w]]) >>
  <1> DEFINE b == file[at[w]]
             d == data[w]
             lines == LinesToSign(w)
  <1>1. b \in Bytes /\ d \in Bytes
    BY DEF TypeOK
  <1>2. Key[w] \in SideKeys /\ NextKey[w] \in SideKeys /\ NoKey \in SideKeys
    BY DEF SideKeys
  <1>3. CASE Op[w] = "rotate"
    <2>1. /\ TrailHead(b).at \in Nat \ {0} /\ TrailHead(b).trail \in Trails
      BY <1>1, <1>3, HeadNames DEF Written
    <2> DEFINE p == [len |-> Body, kind |-> "rotation", key |-> Key[w],
                     trail |-> TrailHead(b).trail, seq |-> TrailHead(b).at,
                     rec |-> Empty, next |-> NextKey[w]]
               l == << p >>
    <2>2. RotationLine(w, b) = l
      BY DEF RotationLine
    <2>3. p \in SidePiece
      BY <1>2, <2>1, EmptyType, BodyAssumption DEF SidePiece
    <2>4. p.len = Body /\ p.kind = "rotation" /\ p.seq \in Nat \ {0} /\ p.key = Key[w]
      BY <2>1
    <2> HIDE DEF p
    <2>5. l \in Seq(SidePiece) /\ Len(l) = 1 /\ l[1] = p
      BY <2>3, OnePiece
    <2>6. Readable(l) /\ l[1].key = Key[w]
      BY <2>4, <2>5 DEF Readable
    <2> HIDE DEF l
    <2>7. lines = << l >>
      BY <1>3, <2>2 DEF LinesToSign
    <2>8. lines \in Seq(Seq(SidePiece)) /\ Len(lines) = 1 /\ lines[1] = l
      BY <2>5, <2>7
    <2> HIDE DEF lines
    <2>9. \A j \in 1 .. Len(lines) : Readable(lines[j]) /\ lines[j][1].key = Key[w]
      BY <2>6, <2>8
    <2> QED BY <1>3, <2>2, <2>7, <2>8, <2>9 DEF lines
  <1>4. CASE Op[w] # "rotate"
    <2>1. PICK a \in Nat, k \in Nat : ChainedAt(d) = a + 1 .. a + k
      BY DEF Written, Stands
    <2>2. /\ Cardinality(ChainedAt(d)) = k
          /\ \A j \in 1 .. k : Nth(ChainedAt(d), j) = a + j
      BY <2>1, NthInterval
    <2>3. lines = [j \in 1 .. k |-> SignatureLine(w, d[a + j])]
      BY <1>4, <2>2 DEF LinesToSign
    <2>4. ASSUME NEW j \in 1 .. k
          PROVE  /\ a + j \in ChainedAt(d)
                 /\ SignatureLine(w, d[a + j]) \in Seq(SidePiece)
                 /\ Readable(SignatureLine(w, d[a + j]))
                 /\ SignatureLine(w, d[a + j])[1].key = Key[w]
      <3> DEFINE line == d[a + j]
      <3>1. a + j \in ChainedAt(d)
        BY <2>1
      <3>2. ChainedLine(line) /\ a + j \in DOMAIN d /\ line[1].seq \in 1 .. LineCount(b)
        BY <3>1 DEF ChainedAt, Written, Stands
      <3>3. line \in Line
        BY <1>1, <3>2 DEF Bytes
      <3>4. Len(line) = 1 /\ line[1] \in Piece
        BY <3>2, <3>3 DEF ChainedLine, WholeRecord, Line
      <3>5. line[1].trail \in Trails /\ line[1].seq \in Nat /\ line[1].seq # 0
        BY <3>2, <3>4 DEF Piece
      <3>6. LineDigest(line) \in Digests
        BY <3>3, LineDigestType
      <3> HIDE DEF line
      <3> DEFINE p == [len |-> Body, kind |-> "signature", key |-> Key[w],
                       trail |-> line[1].trail, seq |-> line[1].seq,
                       rec |-> LineDigest(line), next |-> NoKey]
                 l == << p >>
      <3>7. SignatureLine(w, line) = l
        BY DEF SignatureLine
      <3>8. p \in SidePiece
        BY <1>2, <3>5, <3>6, BodyAssumption DEF SidePiece
      <3>9. p.len = Body /\ p.kind = "signature" /\ p.seq \in Nat \ {0} /\ p.key = Key[w]
        BY <3>5
      <3> HIDE DEF p
      <3>10. l \in Seq(SidePiece) /\ Len(l) = 1 /\ l[1] = p
        BY <3>8, OnePiece
      <3>11. Readable(l) /\ l[1].key = Key[w]
        BY <3>9, <3>10 DEF Readable
      <3> QED BY <3>1, <3>7, <3>10, <3>11 DEF line
    <2> HIDE DEF lines
    <2>5. lines \in Seq(Seq(SidePiece)) /\ Len(lines) = k
          /\ \A j \in 1 .. k : lines[j] = SignatureLine(w, d[a + j])
      BY <2>3, <2>4, SeqOfFun
    <2> QED BY <1>4, <2>4, <2>5 DEF lines
  <1> QED BY <1>3, <1>4
(* An item that names what is there is of a line that is there.            *)
LEMMA ItemsThere ==
    ASSUME NEW b, NEW sc \in SideBytes, SidecarFindings(b, sc) = {}, NEW n \in Items(sc)
    PROVE  sc[n][1].seq <= LineCount(b)
  BY ItemFacts DEF SidecarFindings, NamesRecord, NamesTrail

LEMMA PlaceOf ==
    ASSUME NEW item, item.seq \in Nat
    PROVE  /\ Place(item) \in Nat
           /\ 2 * item.seq <= Place(item) /\ Place(item) <= 2 * item.seq + 1
           /\ item.kind = "rotation" => Place(item) = 2 * item.seq + 1
           /\ item.kind = "signature" => Place(item) = 2 * item.seq
  BY DEF Place

(* What a writer signs under the key in force brings no finding, and a     *)
(* rotation stands in what it leaves.                                      *)
LEMMA SigningFindings ==
    ASSUME TypeOK, NEW w \in Writer, at[w] \in Files, WellLinked(file[at[w]]), Written(w),
           spc[w] # "sync", side \in SideBytes, KeyInForce(side, Key[w]),
           SidecarFindings(file[at[w]], side) = {}
    PROVE  LET t == Concat(side, SidecarBytes(w)) IN
           /\ SidecarBytes(w) \in SideBytes /\ t \in SideBytes /\ Extends(side, t)
           /\ SidecarFindings(file[at[w]], t) = {}
           /\ Op[w] = "rotate" => HasRotation(t, w)
  <1> DEFINE b == file[at[w]]
             d == data[w]
             lines == LinesToSign(w)
             k == Len(lines)
             t == Concat(side, SidecarBytes(w))
  <1>1. /\ lines \in Seq(Seq(SidePiece)) /\ k \in Nat
        /\ \A j \in 1 .. k : Readable(lines[j]) /\ lines[j][1].key = Key[w]
        /\ Op[w] # "rotate" =>
                \E a \in Nat : \A j \in 1 .. k :
                    /\ a + j \in ChainedAt(d)
                    /\ lines[j] = SignatureLine(w, d[a + j])
        /\ Op[w] = "rotate" => lines = << RotationLine(w, b) >>
    <2>1. lines \in Seq(Seq(SidePiece))
      BY LinesSigned
    <2> QED BY <2>1, LinesSigned
  <1>2. SidecarBytes(w) = Ended(side, lines)
    BY DEF SidecarBytes, Ended
  <1>3. b \in Bytes
    BY DEF TypeOK
  <1> HIDE DEF lines, b, d
  <1>4. /\ Ended(side, lines) \in SideBytes /\ Concat(side, Ended(side, lines)) \in SideBytes
        /\ Extends(side, Concat(side, Ended(side, lines)))
        /\ \E p \in Nat :
             /\ LineCount(side) <= p
             /\ Items(Concat(side, Ended(side, lines))) = Items(side) \cup (p + 1 .. p + k)
             /\ \A m \in Items(side) : Concat(side, Ended(side, lines))[m] = side[m]
             /\ \A j \in 1 .. k : Concat(side, Ended(side, lines))[p + j] = lines[j]
    BY <1>1, AddedLines
  <1>5. SidecarBytes(w) \in SideBytes /\ t \in SideBytes /\ Extends(side, t)
    BY <1>2, <1>4
  <1>6. PICK p \in Nat :
             /\ LineCount(side) <= p
             /\ Items(t) = Items(side) \cup (p + 1 .. p + k)
             /\ \A m \in Items(side) : t[m] = side[m]
             /\ \A j \in 1 .. k : t[p + j] = lines[j]
    BY <1>2, <1>4
  <1> HIDE DEF t
  <1>7. /\ Items(side) \subseteq 1 .. LineCount(side) /\ LineCount(side) \in Nat
        /\ \A m \in Items(side) :
             /\ side[m][1].seq \in Nat /\ side[m][1].kind \in {"signature", "rotation"}
             /\ side[m][1].seq <= LineCount(b)
    BY ItemFacts, ItemsThere DEF b
  <1>8. \A m \in p + 1 .. p + k : m - p \in 1 .. k /\ p + (m - p) = m /\ t[m] = lines[m - p]
    <2> SUFFICES ASSUME NEW m \in p + 1 .. p + k
                 PROVE  m - p \in 1 .. k /\ p + (m - p) = m /\ t[m] = lines[m - p]
      OBVIOUS
    <2>1. m - p \in 1 .. k /\ p + (m - p) = m
      BY <1>1
    <2> QED BY <1>6, <2>1
  <1>9. CASE Op[w] # "rotate"
    <2>1. PICK a \in Nat : \A j \in 1 .. k :
                /\ a + j \in ChainedAt(d)
                /\ lines[j] = SignatureLine(w, d[a + j])
      BY <1>1, <1>9
    <2>2. ASSUME NEW j \in 1 .. k
          PROVE  LET item == lines[j][1] IN
                 /\ item.kind = "signature" /\ item.key = Key[w]
                 /\ item.seq = d[a + j][1].seq /\ item.seq \in 1 .. LineCount(b)
                 /\ NamesRecord(b, item)
                 /\ \A m \in Items(side) : side[m][1].seq < item.seq
      <3> DEFINE line == d[a + j]
                 item == [len |-> Body, kind |-> "signature", key |-> Key[w],
                          trail |-> line[1].trail, seq |-> line[1].seq,
                          rec |-> LineDigest(line), next |-> NoKey]
      <3>1. a + j \in ChainedAt(d) /\ lines[j] = SignatureLine(w, line)
        BY <2>1
      <3>2. /\ line[1].seq \in 1 .. LineCount(b)
            /\ b[line[1].seq] = line /\ ~ Damaged(b, line[1].seq)
            /\ \A m \in Items(side) : side[m][1].seq < line[1].seq
        BY <3>1 DEF Written, Stands, b, d
      <3>3. ChainedLine(line)
        BY <3>1 DEF ChainedAt
      <3> HIDE DEF line
      <3>4. lines[j] = << item >>
        BY <3>1 DEF SignatureLine
      <3>5. /\ item.kind = "signature" /\ item.key = Key[w] /\ item.seq = line[1].seq
            /\ item.trail = line[1].trail /\ item.rec = LineDigest(line)
        OBVIOUS
      <3> HIDE DEF item
      <3>6. lines[j][1] = item
        BY <3>4, OnePiece
      <3>7. NamesRecord(b, item)
        BY <1>3, <3>2, <3>3, <3>5 DEF NamesRecord, LineCount, Bytes
      <3> QED BY <3>2, <3>5, <3>6, <3>7 DEF line
    <2>3. \A i, j \in 1 .. k : i < j => lines[i][1].seq < lines[j][1].seq
      <3> SUFFICES ASSUME NEW i \in 1 .. k, NEW j \in 1 .. k, i < j
                   PROVE  lines[i][1].seq < lines[j][1].seq
        OBVIOUS
      <3>1. a + i \in ChainedAt(d) /\ a + j \in ChainedAt(d) /\ a + i < a + j
        BY <2>1
      <3>2. d[a + i][1].seq < d[a + j][1].seq
        BY <3>1 DEF Written, Stands, d
      <3> QED BY <2>2, <3>2
    <2>4. AddsLines(side, t, p, k, Key[w])
      <3>1. \A m \in p + 1 .. p + k :
                t[m][1].key = Key[w] /\ (t[m][1].kind = "rotation" => m = p + k)
        BY <1>8, <2>2
      <3> QED BY <1>6, <3>1 DEF AddsLines
    <2>5. \A m \in p + 1 .. p + k :
               /\ ~ OutOfOrder(t, m)
               /\ t[m][1].kind = "signature" => NamesRecord(b, t[m][1])
               /\ t[m][1].kind = "rotation" => NamesTrail(b, t[m][1])
      <3> SUFFICES ASSUME NEW m \in p + 1 .. p + k
                   PROVE  /\ ~ OutOfOrder(t, m)
                          /\ t[m][1].kind = "signature" /\ NamesRecord(b, t[m][1])
        OBVIOUS
      <3> DEFINE item == t[m][1]
      <3>1. /\ item.kind = "signature" /\ NamesRecord(b, item) /\ item.seq \in 1 .. LineCount(b)
            /\ \A n \in Items(side) : side[n][1].seq < item.seq
        BY <1>8, <2>2
      <3>2. ASSUME NEW n \in Items(t), n < m
            PROVE  t[n][1].seq \in Nat /\ t[n][1].seq < item.seq
        <4>1. CASE n \in Items(side)
          BY <1>6, <1>7, <3>1, <4>1
        <4>2. CASE n \in p + 1 .. p + k
          <5>1. n - p \in 1 .. k /\ m - p \in 1 .. k /\ n - p < m - p
                /\ t[n] = lines[n - p] /\ t[m] = lines[m - p]
            BY <1>8, <3>2, <4>2
          <5>2. lines[n - p][1].seq < lines[m - p][1].seq
            BY <2>3, <5>1
          <5>3. lines[n - p][1].seq \in 1 .. LineCount(b)
            BY <2>2, <5>1
          <5> QED BY <5>1, <5>2, <5>3
        <4> QED BY <1>6, <3>2, <4>1, <4>2
      <3> HIDE DEF item
      <3>3. Place(item) = 2 * item.seq /\ item.seq \in Nat
        BY <3>1, PlaceOf
      <3>4. ASSUME NEW n \in Items(t), n < m PROVE Place(t[n][1]) < Place(item)
        <4>1. t[n][1].seq \in Nat /\ t[n][1].seq < item.seq
          BY <3>2, <3>4
        <4>2. Place(t[n][1]) \in Nat /\ Place(t[n][1]) <= 2 * t[n][1].seq + 1
          BY <4>1, PlaceOf
        <4> QED BY <3>3, <4>1, <4>2
      <3>5. \A n \in Items(t) : n < m => Place(t[n][1]) \in Nat /\ Place(t[n][1]) < Place(item)
        BY <3>2, <3>4, PlaceOf
      <3>6. ~ OutOfOrder(t, m)
        BY <3>3, <3>5 DEF OutOfOrder, item
      <3> QED BY <3>1, <3>6 DEF item
    <2>6. SidecarFindings(b, t) = {}
      BY <1>1, <1>5, <2>4, <2>5, FindingsSigned DEF b
    <2> QED BY <1>5, <1>9, <2>6 DEF t, b
  <1>10. CASE Op[w] = "rotate"
    <2> DEFINE item == [len |-> Body, kind |-> "rotation", key |-> Key[w],
                        trail |-> TrailHead(b).trail, seq |-> TrailHead(b).at,
                        rec |-> Empty, next |-> NextKey[w]]
    <2>1. lines = << << item >> >>
      BY <1>1, <1>10 DEF RotationLine
    <2>2. /\ TrailHead(b).at = LineCount(b) /\ LineCount(b) \in Nat \ {0}
          /\ \E n \in 1 .. LineCount(b) :
               /\ ChainedLine(b[n]) /\ ~ Damaged(b, n)
               /\ \A m \in n + 1 .. LineCount(b) : ~ ChainedLine(b[m])
               /\ b[n][1].trail = TrailHead(b).trail
      BY <1>3, <1>10, HeadNames DEF Written, b
    <2>3. /\ item.kind = "rotation" /\ item.key = Key[w] /\ item.next = NextKey[w]
          /\ item.seq = LineCount(b) /\ item.trail = TrailHead(b).trail
      BY <2>2
    <2> HIDE DEF item
    <2>4. k = 1 /\ lines[1] = << item >>
      BY <2>1, OnePiece
    <2>5. t[p + 1] = << item >> /\ p + 1 .. p + k = {p + 1}
      BY <1>6, <2>4
    <2>6. t[p + 1][1] = item
      BY <2>5, OnePiece
    <2>7. NamesTrail(b, item)
      BY <2>2, <2>3 DEF NamesTrail
    <2>8. AddsLines(side, t, p, k, Key[w])
      BY <1>6, <2>3, <2>4, <2>5, <2>6 DEF AddsLines
    <2>9. ~ OutOfOrder(t, p + 1)
      <3>1. Place(item) = 2 * LineCount(b) + 1 /\ LineCount(b) \in Nat
        BY <2>2, <2>3, PlaceOf
      <3>2. ASSUME NEW n \in Items(t), n < p + 1
            PROVE  Place(t[n][1]) \in Nat /\ Place(t[n][1]) <= Place(item)
        <4>1. n \in Items(side) /\ t[n] = side[n]
          BY <1>6, <2>5, <3>2
        <4>2. side[n][1].seq \in Nat /\ side[n][1].seq <= LineCount(b)
          BY <1>7, <4>1
        <4>3. Place(side[n][1]) \in Nat /\ Place(side[n][1]) <= 2 * side[n][1].seq + 1
          BY <4>2, PlaceOf
        <4> QED BY <3>1, <4>1, <4>2, <4>3
      <3>3. item.kind # "signature"
        BY <2>3
      <3> QED BY <2>6, <3>1, <3>2, <3>3 DEF OutOfOrder
    <2>10. \A m \in p + 1 .. p + k :
               /\ ~ OutOfOrder(t, m)
               /\ t[m][1].kind = "signature" => NamesRecord(b, t[m][1])
               /\ t[m][1].kind = "rotation" => NamesTrail(b, t[m][1])
      BY <2>3, <2>5, <2>6, <2>7, <2>9
    <2>11. SidecarFindings(b, t) = {}
      BY <1>1, <1>5, <2>8, <2>10, FindingsSigned DEF b
    <2>12. HasRotation(t, w)
      BY <1>6, <2>3, <2>5, <2>6 DEF HasRotation
    <2> QED BY <1>5, <2>11, <2>12 DEF t, b
  <1> QED BY <1>9, <1>10

SideTypes ==
    /\ side \in SideBytes /\ sideDur \in SideBytes /\ Extends(sideDur, side)
    /\ spc \in [Writer -> {"idle", "write", "sync"}]
    /\ sdata \in [Writer -> SideBytes]

(* Where a writer is with its signatures.  What it composed for the        *)
(* sidecar is what it would compose now.                                   *)
SignerAt(w) ==
    /\ pc[w] \in {"sync", "entry", "then"} => Written(w)
    /\ spc[w] # "idle" => pc[w] = "then" /\ Key[w] # NoKey
    /\ spc[w] = "write" => sdata[w] = SidecarBytes(w) /\ KeyInForce(side, Key[w])
    /\ Op[w] = "rotate" =>
        /\ spc[w] = "sync" => HasRotation(side, w)
        /\ DirMade /\ pc[w] \in {"unlock", "end"} /\ err[w] = "none" => HasRotation(sideDur, w)

SignedThere ==
    dir.trail # NoFile => SidecarFindings(durable[dir.trail], side) = {}

SidecarInvariant ==
    SideTypes /\ OneTrail /\ SignedThere /\ \A w \in Writer : SignerAt(w)

(* Only one writer is past its lock.                                       *)
LEMMA Alone ==
    ASSUME ChainInvariant, OneTrail, NEW v \in Writer, NEW w \in Writer, v # w,
           pc[v] \in LockSteps
    PROVE  pc[w] \notin LockSteps
  <1>1. LockSteps \subseteq OpenSteps
    BY DEF LockSteps, OpenSteps
  <1> SUFFICES ASSUME pc[w] \in LockSteps PROVE FALSE
    OBVIOUS
  <1>2. at[v] = dir.trail /\ at[w] = dir.trail
    BY <1>1 DEF OneTrail
  <1>3. holder[at[v]] = v /\ holder[at[w]] = w
    BY DEF ChainInvariant, LockHeld
  <1> QED BY <1>2, <1>3

LEMMA RotationStays ==
    ASSUME NEW sc \in SideBytes, NEW t \in SideBytes, Extends(sc, t), NEW w, HasRotation(sc, w)
    PROVE  HasRotation(t, w)
  BY ShorterItems DEF HasRotation

(* The writers that do not move.                                           *)
OthersKept(v) ==
    \A w \in Writer \ {v} :
        /\ pc'[w] = pc[w] /\ at'[w] = at[w] /\ data'[w] = data[w] /\ err'[w] = err[w]
        /\ spc'[w] = spc[w] /\ sdata'[w] = sdata[w]

(* A step of v that signs nothing and leaves the disk alone.               *)
QuietFor(v) ==
    /\ dir'.trail = dir.trail /\ (dir.made => dir'.made)
    /\ UNCHANGED <<durDir, file, durable, side>>
    /\ pc'[v] \in OpenSteps => at'[v] = dir.trail
    /\ pc'[v] \in {"start", "shown", "open"} => at'[v] = NoFile
    /\ pc'[v] \notin {"sync", "entry", "then"}
    /\ spc'[v] = "idle"
    /\ DirMade /\ Op[v] = "rotate" /\ pc'[v] \in {"unlock", "end"} /\ err'[v] = "none" =>
            HasRotation(sideDur', v)

LinesOf(w, b, d) ==
    IF Op[w] = "rotate" THEN << RotationLine(w, b) >>
    ELSE [k \in 1 .. Cardinality(ChainedAt(d)) |-> SignatureLine(w, d[Nth(ChainedAt(d), k)])]

LEMMA BytesOf ==
    ASSUME NEW w PROVE SidecarBytes(w) = Ended(side, LinesOf(w, file[at[w]], data[w]))
  BY DEF SidecarBytes, LinesToSign, LinesOf, Ended

LEMMA BytesStay ==
    ASSUME NEW w \in Writer, UNCHANGED <<file, side>>, at'[w] = at[w], data'[w] = data[w]
    PROVE  SidecarBytes(w)' = SidecarBytes(w)
  <1>1. SidecarBytes(w)' = Ended(side', LinesOf(w, file'[at'[w]], data'[w]))
    BY DEF SidecarBytes, LinesToSign, LinesOf, Ended
  <1>2. Ended(side', LinesOf(w, file'[at'[w]], data'[w]))
            = Ended(side, LinesOf(w, file[at[w]], data[w]))
    OBVIOUS
  <1> QED BY <1>1, <1>2, BytesOf

LEMMA QuietSigners ==
    ASSUME TypeOK, SidecarInvariant, SideTypes', NEW v \in Writer, OthersKept(v), QuietFor(v),
           Extends(sideDur, sideDur')
    PROVE  SidecarInvariant'
  <1>1. OneTrail'
    <2>1. \A w \in Writer : /\ pc'[w] \in OpenSteps => at'[w] = dir.trail
                            /\ pc'[w] \in {"start", "shown", "open"} => at'[w] = NoFile
                            /\ pc'[w] = "then" => pc[w] = "then"
      BY DEF SidecarInvariant, OneTrail, OthersKept, QuietFor
    <2> QED BY <2>1 DEF SidecarInvariant, OneTrail, QuietFor
  <1>2. SignedThere'
    BY DEF SidecarInvariant, SignedThere, QuietFor
  <1>3. ASSUME NEW w \in Writer PROVE SignerAt(w)'
    <2>1. CASE w = v
      <3>1. /\ pc'[w] \notin {"sync", "entry", "then"} /\ spc'[w] = "idle"
            /\ DirMade /\ Op[w] = "rotate" /\ pc'[w] \in {"unlock", "end"} /\ err'[w] = "none" =>
                  HasRotation(sideDur', w)
        BY <2>1 DEF QuietFor
      <3> QED BY <3>1 DEF SignerAt
    <2>2. CASE w # v
      <3>1. /\ pc'[w] = pc[w] /\ at'[w] = at[w] /\ data'[w] = data[w] /\ err'[w] = err[w]
            /\ spc'[w] = spc[w] /\ sdata'[w] = sdata[w]
            /\ file' = file /\ side' = side /\ durable' = durable
        BY <2>2 DEF OthersKept, QuietFor
      <3>2. Written(w) => Written(w)'
        BY <3>1 DEF Written
      <3>3. SidecarBytes(w)' = SidecarBytes(w)
        BY <3>1, BytesStay
      <3>4. HasRotation(sideDur, w) => HasRotation(sideDur', w)
        BY RotationStays DEF SidecarInvariant, SideTypes
      <3>5. SignerAt(w)
        BY DEF SidecarInvariant
      <3> QED BY <3>1, <3>2, <3>3, <3>4, <3>5 DEF SignerAt
    <2> QED BY <2>1, <2>2
  <1> QED BY <1>1, <1>2, <1>3 DEF SidecarInvariant

(* A step of the writer that has the lock.                                 *)
LEMMA LockedSigners ==
    ASSUME ChainInvariant, SidecarInvariant, NEW v \in Writer, OthersKept(v), pc[v] \in LockSteps,
           SideTypes', OneTrail', SignedThere', SignerAt(v)', Extends(sideDur, sideDur')
    PROVE  SidecarInvariant'
  <1> SUFFICES ASSUME NEW w \in Writer, w # v PROVE SignerAt(w)'
    BY DEF SidecarInvariant
  <1>1. pc[w] \notin LockSteps
    BY Alone DEF SidecarInvariant
  <1>2. /\ pc'[w] = pc[w] /\ err'[w] = err[w] /\ spc'[w] = spc[w]
    BY DEF OthersKept
  <1>3. pc[w] \notin {"sync", "entry", "then"} /\ spc[w] = "idle"
    BY <1>1 DEF LockSteps, SidecarInvariant, SignerAt
  <1>4. HasRotation(sideDur, w) => HasRotation(sideDur', w)
    BY RotationStays DEF SidecarInvariant, SideTypes
  <1>5. SignerAt(w)
    BY DEF SidecarInvariant
  <1> QED BY <1>2, <1>3, <1>4, <1>5 DEF SignerAt

-----------------------------------------------------------------------------
(* The steps of the trail.                                                 *)

LEMMA OthersData ==
    ASSUME TypeOK, NEW v \in Writer,
           Step(v) \/ Then(v) \/ ShowDamage(v) \/ Crash(v)
    PROVE  \A w \in Writer \ {v} : data'[w] = data[w]
  <1>1. ASSUME NEW w \in Writer \ {v}, Forget({v}) PROVE data'[w] = data[w]
    BY <1>1 DEF Forget
  <1>2. ASSUME NEW w \in Writer \ {v}, NEW x, data' = [data EXCEPT ![v] = x]
        PROVE  data'[w] = data[w]
    BY <1>2 DEF TypeOK
  <1>3. CASE Unlock(v) \/ Crash(v)
    BY <1>1, <1>3 DEF Unlock, Crash
  <1>4. CASE Check(v) \/ Compose(v)
    BY <1>2, <1>4 DEF Check, Compose
  <1>5. CASE BeginAppend(v) \/ Lock(v) \/ NoLock(v) \/ Recheck(v) \/ Write(v) \/ Sync(v)
               \/ SyncEntry(v)
    BY <1>5 DEF BeginAppend, Lock, NoLock, Recheck, Write, Sync, SyncEntry, call
  <1>6. CASE BeginRepair(v) \/ OpenExisting(v) \/ OpenCreating(v) \/ OpenAbsent(v)
               \/ Reopen(v) \/ WriteShort(v) \/ IOError(v) \/ Then(v) \/ ShowDamage(v)
    BY <1>6 DEF BeginRepair, OpenExisting, OpenCreating, OpenAbsent, Reopen, WriteShort,
       IOError, Then, ShowDamage
  <1> QED BY <1>3, <1>4, <1>5, <1>6 DEF Step, Progress

(* A writer at its trail's open or before has no file open.                *)
LEMMA FailSigner ==
    ASSUME TypeOK, OneTrail, NEW v \in Writer, NEW why, why # "none", Fail(v, why),
           pc[v] \notin {"end", "crashed"}, at' = at
    PROVE  /\ pc'[v] \in {"unlock", "end"} /\ err'[v] # "none"
           /\ pc'[v] \in OpenSteps => at'[v] = dir.trail
  <1>1. err'[v] = why /\ pc'[v] = IF Locked(v) THEN "unlock" ELSE "end"
    BY DEF Fail, Goto, TypeOK
  <1>2. "end" \notin OpenSteps
    BY DEF OpenSteps
  <1>3. ASSUME Locked(v) PROVE at[v] = dir.trail
    <2>1. at[v] # NoFile
      BY <1>3, WriterAssumption DEF Locked
    <2>2. pc[v] \in Steps /\ pc[v] \notin {"start", "shown", "open"}
      BY <2>1 DEF OneTrail, TypeOK
    <2>3. pc[v] \in OpenSteps
      BY <2>2 DEF Steps
    <2> QED BY <2>3 DEF OneTrail
  <1> QED BY <1>1, <1>2, <1>3

LEMMA QuietTrail ==
    ASSUME TypeOK, ChainInvariant, SidecarInvariant, NEW v \in Writer, UNCHANGED sideVars,
           Step(v) \/ ShowDamage(v) \/ SignNothing(v),
           ~ OpenCreating(v), ~ Write(v), ~ WriteShort(v), ~ Sync(v), ~ SyncEntry(v)
    PROVE  QuietFor(v)
  <1>1. /\ side' = side /\ sideDur' = sideDur /\ spc' = spc
        /\ OneTrail /\ SignerAt(v) /\ pc \in [Writer -> Steps] /\ at \in [Writer -> Files \cup {NoFile}]
        /\ err \in [Writer -> Errors] /\ dir \in Dirs
    BY DEF sideVars, SidecarInvariant, TypeOK
  <1>2. pc[v] # "then" => spc[v] = "idle"
    BY <1>1 DEF SignerAt
  <1>3. ASSUME UNCHANGED disk, at' = at, pc[v] \notin {"then", "end", "crashed"},
               \E why : why # "none" /\ Fail(v, why)
        PROVE  QuietFor(v)
    BY <1>1, <1>2, <1>3, FailSigner DEF QuietFor, disk
  <1>4. ASSUME NEW step \in {"open", "check", "lock", "recheck", "compose", "write", "shown"},
               UNCHANGED disk, Goto(v, step), pc[v] # "then",
               step \in OpenSteps => at'[v] = dir.trail,
               step \in {"shown", "open"} => at'[v] = NoFile
        PROVE  QuietFor(v)
    <2>1. pc'[v] = step
      BY <1>1, <1>4 DEF Goto
    <2> QED BY <1>1, <1>2, <1>4, <2>1 DEF QuietFor, disk
  <1>5. pc[v] \in OpenSteps => at[v] = dir.trail
    BY <1>1 DEF OneTrail
  <1>6. pc[v] \in {"start", "shown", "open"} => at[v] = NoFile
    BY <1>1 DEF OneTrail
  <1>7. CASE BeginAppend(v)
    <2>1. dir'.trail = dir.trail /\ (dir.made => dir'.made)
      BY <1>1, <1>7 DEF BeginAppend, Dirs
    <2>2. UNCHANGED <<durDir, file, durable>> /\ at' = at /\ pc[v] = "start" /\ pc'[v] = "open"
      BY <1>1, <1>7 DEF BeginAppend, Goto, call
    <2> QED BY <1>1, <1>2, <1>6, <2>1, <2>2 DEF QuietFor, OpenSteps
  <1>8. CASE BeginRepair(v)
    <2>1. UNCHANGED disk /\ at' = at /\ pc[v] \in {"start", "shown"}
      BY <1>8 DEF BeginRepair
    <2>2. CASE Goto(v, "open")
      BY <1>4, <1>6, <2>1, <2>2 DEF OpenSteps
    <2>3. CASE \E why \in Errors : why # "none" /\ Fail(v, why)
      BY <1>3, <2>1, <2>3
    <2> QED BY <1>8, <2>2, <2>3 DEF BeginRepair, Errors, Refusals
  <1>9. CASE OpenExisting(v)
    BY <1>1, <1>4, <1>9 DEF OpenExisting, OpenSteps
  <1>10. CASE OpenAbsent(v)
    <2>1. UNCHANGED disk /\ at' = at /\ pc[v] = "open" /\ \E why : why # "none" /\ Fail(v, why)
      BY <1>10 DEF OpenAbsent
    <2> QED BY <1>3, <2>1
  <1>11. CASE Check(v)
    <2>1. UNCHANGED disk /\ at' = at /\ pc[v] = "check" /\ at[v] = dir.trail
      BY <1>5, <1>11 DEF Check, OpenSteps
    <2> QED BY <1>4, <1>11, <2>1 DEF Check
  <1>12. CASE Lock(v) \/ NoLock(v) \/ Recheck(v)
    <2>1. UNCHANGED disk /\ at' = at /\ pc[v] \in {"lock", "recheck"}
          /\ \E step \in {"recheck", "compose"} : Goto(v, step)
      BY <1>12 DEF Lock, NoLock, Recheck, call
    <2>2. at[v] = dir.trail
      BY <1>5, <2>1 DEF OpenSteps
    <2> QED BY <1>4, <2>1, <2>2
  <1>13. CASE Reopen(v)
    <2>1. UNCHANGED disk /\ pc[v] = "recheck" /\ at'[v] = NoFile
      BY <1>1, <1>13 DEF Reopen
    <2>2. CASE Goto(v, "open")
      BY <1>4, <2>1, <2>2 DEF OpenSteps
    <2>3. CASE Goto(v, "end") /\ err' = [err EXCEPT ![v] = "name-changed"]
      <3>1. pc'[v] = "end" /\ err'[v] = "name-changed"
        BY <1>1, <2>3 DEF Goto
      <3> QED BY <1>1, <1>2, <2>1, <3>1 DEF QuietFor, disk, OpenSteps
    <2> QED BY <1>13, <2>2, <2>3 DEF Reopen
  <1>14. CASE Compose(v)
    <2>1. UNCHANGED disk /\ at' = at /\ pc[v] = "compose" /\ at[v] = dir.trail
      BY <1>5, <1>14 DEF Compose, OpenSteps
    <2>2. CASE Goto(v, "write")
      BY <1>4, <2>1, <2>2
    <2>3. CASE \E why : why # "none" /\ Fail(v, why)
      BY <1>3, <2>1, <2>3
    <2> QED BY <1>14, <2>2, <2>3 DEF Compose
  <1>15. CASE Unlock(v)
    <2>1. UNCHANGED disk /\ pc[v] = "unlock" /\ pc'[v] = "end" /\ at'[v] = NoFile
      BY <1>1, <1>15 DEF Unlock, Goto, Forget
    <2>2. err'[v] = "none" => err[v] = "none"
      BY <1>1, <1>15 DEF Unlock
    <2>3. DirMade /\ Op[v] = "rotate" /\ err[v] = "none" => HasRotation(sideDur, v)
      BY <1>1, <2>1 DEF SignerAt
    <2> QED BY <1>1, <1>2, <2>1, <2>2, <2>3 DEF QuietFor, disk, OpenSteps
  <1>16. CASE IOError(v)
    <2>1. UNCHANGED disk /\ at' = at /\ pc[v] \notin {"then", "end", "crashed"} /\ Fail(v, "io")
      BY <1>16 DEF IOError
    <2> QED BY <1>3, <2>1
  <1>17. CASE ShowDamage(v)
    <2>1. UNCHANGED disk /\ at' = at /\ pc[v] = "start" /\ Goto(v, "shown")
      BY <1>17 DEF ShowDamage
    <2> QED BY <1>4, <1>6, <2>1 DEF OpenSteps
  <1>18. CASE SignNothing(v)
    <2>1. UNCHANGED disk /\ at' = at /\ pc[v] = "then" /\ pc'[v] = "unlock" /\ Op[v] # "rotate"
      BY <1>1, <1>18 DEF SignNothing, Then, Goto
    <2>2. Locked(v) /\ at[v] = dir.trail
      BY <1>5, <2>1 DEF ChainInvariant, LockHeld, LockSteps, OpenSteps, TypeOK, Locked
    <2>3. Key[v] = NoKey
      BY <1>18, <2>2 DEF SignNothing, Signs
    <2>4. spc[v] = "idle"
      BY <1>1, <2>3 DEF SignerAt, SidecarInvariant, SideTypes
    <2> QED BY <1>1, <2>1, <2>2, <2>4 DEF QuietFor, disk
  <1> QED BY <1>7, <1>8, <1>9, <1>10, <1>11, <1>12, <1>13, <1>14, <1>15, <1>16, <1>17, <1>18
          DEF Step, Progress

LEMMA OthersQuiet ==
    ASSUME TypeOK, NEW v \in Writer, UNCHANGED sideVars,
           Step(v) \/ Then(v) \/ ShowDamage(v) \/ Crash(v)
    PROVE  OthersKept(v)
  BY OthersStay, OthersData DEF OthersKept, sideVars

(* What a writer about to write knows.                                     *)
LEMMA WriteFacts ==
    ASSUME TypeOK, ChainInvariant, SidecarInvariant, NEW v \in Writer, pc[v] = "write"
    PROVE  LET b == file[at[v]]
               c == Concat(b, data[v]) IN
           /\ at[v] \in Files /\ at[v] = dir.trail /\ Locked(v) /\ spc[v] = "idle"
           /\ b \in Bytes /\ c \in Bytes /\ durable[at[v]] \in Bytes
           /\ Extends(b, c) /\ Continues(durable[at[v]], c) /\ Behind(b, c, data[v])
           /\ Op[v] = "rotate" => TrailHead(c).trail # NoTrail
  <1> DEFINE b == file[at[v]]
             c == Concat(b, data[v])
  <1>1. at[v] \in Files /\ at[v] = dir.trail /\ b \in Bytes /\ data[v] \in Bytes
        /\ durable[at[v]] \in Bytes
    BY DEF TypeOK, OpenSteps, SidecarInvariant, OneTrail
  <1>2. Locked(v) /\ WellLinked(b)
    BY <1>1 DEF ChainInvariant, LockHeld, LockSteps, Locked
  <1>3. Composed(v, b) = Give(data[v])
    BY DEF ChainInvariant, NoStaleCompose
  <1>4. Composed(v, b).err = "none" /\ Composed(v, b).data = data[v]
    BY <1>3 DEF Give
  <1>5. Continues(b, c) /\ Behind(b, c, data[v])
    BY <1>1, <1>2, <1>4, WriteBehind
  <1>6. c \in Bytes /\ Extends(b, c)
    BY <1>1, ConcatType, ConcatExtends
  <1>7. Continues(durable[at[v]], b)
    BY <1>1 DEF SidecarInvariant, OneTrail
  <1>8. Continues(durable[at[v]], c)
    BY <1>1, <1>5, <1>6, <1>7, ContinuesTransitive
  <1>9. spc[v] = "idle"
    BY DEF SidecarInvariant, SignerAt
  <1>10. Op[v] = "rotate" => TrailHead(c).trail # NoTrail
    <2> SUFFICES ASSUME Op[v] = "rotate" PROVE TrailHead(c).trail # NoTrail
      OBVIOUS
    <2>1. Composed(v, b) = RotateLines(b, TRUE)
      BY <1>2 DEF Composed
    <2>2. TrailHead(b).trail # NoTrail
      BY <1>4, <2>1 DEF RotateLines, Refuse, Give
    <2>3. c = b
      BY <1>1, <1>2, <1>4, RotatedLines
    <2> QED BY <2>2, <2>3
  <1> QED BY <1>1, <1>2, <1>5, <1>6, <1>8, <1>9, <1>10

LEMMA WriteSigner ==
    ASSUME TypeOK, ChainInvariant, SidecarInvariant, NEW v \in Writer, UNCHANGED sideVars,
           Write(v)
    PROVE  SidecarInvariant'
  <1> DEFINE f == at[v]
             b == file[f]
             c == Concat(b, data[v])
  <1>1. pc[v] = "write" /\ pc[v] \in LockSteps
    BY DEF Write, LockSteps
  <1>2. /\ f \in Files /\ f = dir.trail /\ spc[v] = "idle" /\ b \in Bytes /\ c \in Bytes
        /\ durable[f] \in Bytes
        /\ Extends(b, c) /\ Continues(durable[f], c) /\ Behind(b, c, data[v])
        /\ Op[v] = "rotate" => TrailHead(c).trail # NoTrail
    BY <1>1, WriteFacts
  <1>3. /\ file' = [file EXCEPT ![f] = c] /\ pc' = [pc EXCEPT ![v] = "sync"]
        /\ UNCHANGED <<dir, durDir, durable, at, data>>
    BY DEF Write, Goto, call
  <1>4. UNCHANGED <<side, sideDur, spc, sdata>>
    BY DEF sideVars
  <1>5. OthersKept(v)
    BY OthersQuiet DEF Step, Progress
  <1> HIDE DEF c, b
  <1>6. file'[f] = c /\ \A g \in Files : g # f => file'[g] = file[g]
    BY <1>2, <1>3 DEF TypeOK
  <1>7. pc'[v] = "sync" /\ at'[v] = f /\ \A w \in Writer : w # v => pc'[w] = pc[w]
    BY <1>3 DEF TypeOK
  <1>8. SideTypes'
    BY <1>4 DEF SidecarInvariant, SideTypes
  <1>9. OneTrail'
    <2>1. \A g \in Files : Continues(durable'[g], file'[g])
      BY <1>2, <1>3, <1>6 DEF SidecarInvariant, OneTrail
    <2>2. \A w \in Writer : /\ pc'[w] \in OpenSteps => at'[w] = dir'.trail
                            /\ pc'[w] \in {"start", "shown", "open"} => at'[w] = NoFile
                            /\ pc'[w] = "then" => pc[w] = "then"
      BY <1>2, <1>3, <1>7 DEF SidecarInvariant, OneTrail
    <2> QED BY <1>3, <1>4, <2>1, <2>2 DEF SidecarInvariant, OneTrail
  <1>10. SignedThere'
    BY <1>3, <1>4 DEF SidecarInvariant, SignedThere
  <1>11. \A m \in Items(side), n \in ChainedAt(data[v]) : side[m][1].seq < data[v][n][1].seq
    <2> SUFFICES ASSUME NEW m \in Items(side), NEW n \in ChainedAt(data[v])
                 PROVE  side[m][1].seq < data[v][n][1].seq
      OBVIOUS
    <2>1. dir.trail # NoFile /\ side \in SideBytes
      BY <1>2, WriterAssumption DEF SidecarInvariant, SideTypes
    <2>2. SidecarFindings(durable[f], side) = {}
      BY <1>2, <2>1 DEF SidecarInvariant, SignedThere
    <2>3. side[m][1].seq <= LineCount(durable[f]) /\ side[m][1].seq \in Nat
      BY <2>1, <2>2, ItemsThere, ItemFacts
    <2>4. LineCount(durable[f]) \in Nat /\ LineCount(b) \in Nat /\ LineCount(durable[f]) <= LineCount(b)
      BY <1>2 DEF SidecarInvariant, OneTrail, Continues, Extends, LineCount, Bytes, b
    <2>5. data[v][n][1].seq > LineCount(b) /\ data[v][n][1].seq \in 1 .. LineCount(c)
      BY <1>2 DEF Behind, Stands
    <2> QED BY <2>3, <2>4, <2>5
  <1>12. SignerAt(v)'
    <2>1. Written(v)'
      <3>1. Stands(c, data[v])
        BY <1>2 DEF Behind
      <3> QED BY <1>2, <1>3, <1>4, <1>6, <1>7, <1>11, <3>1 DEF Written
    <2> QED BY <1>2, <1>4, <1>7, <2>1 DEF SignerAt
  <1>13. Extends(sideDur, sideDur')
    BY <1>4 DEF Extends
  <1> QED BY <1>1, <1>5, <1>8, <1>9, <1>10, <1>12, <1>13, LockedSigners

LEMMA WriteShortSigner ==
    ASSUME TypeOK, TypeOK', ChainInvariant, SidecarInvariant, NEW v \in Writer,
           UNCHANGED sideVars, WriteShort(v)
    PROVE  SidecarInvariant'
  <1> DEFINE f == at[v]
             b == file[f]
             c == Concat(b, data[v])
  <1>1. pc[v] = "write" /\ pc[v] \in LockSteps
    BY DEF WriteShort, LockSteps
  <1>2. /\ f \in Files /\ f = dir.trail /\ spc[v] = "idle" /\ Locked(v)
        /\ b \in Bytes /\ c \in Bytes /\ durable[f] \in Bytes
        /\ Continues(durable[f], c)
    BY <1>1, WriteFacts
  <1>3. /\ \E t \in Between(b, c) : file' = [file EXCEPT ![f] = t]
        /\ Fail(v, "io")
        /\ UNCHANGED <<dir, durDir, durable, at>>
    BY DEF WriteShort
  <1>4. UNCHANGED <<side, sideDur, spc, sdata>>
    BY DEF sideVars
  <1>5. OthersKept(v)
    BY OthersQuiet DEF Step
  <1> HIDE DEF c, b
  <1>6. PICK t \in Between(b, c) : file' = [file EXCEPT ![f] = t]
    BY <1>3
  <1>7. file'[f] = t /\ \A g \in Files : g # f => file'[g] = file[g]
    BY <1>2, <1>6 DEF TypeOK
  <1>8. t \in Beginnings(c) /\ b \in Beginnings(t)
    BY BetweenBegins
  <1>9. t \in Bytes
    BY <1>2, <1>7 DEF TypeOK
  <1>10. Extends(t, c) /\ Extends(b, t)
    BY <1>2, <1>8, <1>9, BeginningExtends
  <1>11. Continues(durable[f], t)
    <2>1. Extends(durable[f], b)
      BY <1>2 DEF SidecarInvariant, OneTrail, Continues, b
    <2>2. Extends(durable[f], t)
      BY <1>2, <1>9, <1>10, <2>1, ExtendsTransitive
    <2> QED BY <1>2, <1>9, <1>10, <2>2, ContinuesPart
  <1>12. pc'[v] = "unlock" /\ err'[v] = "io" /\ \A w \in Writer : w # v => pc'[w] = pc[w]
    BY <1>2, <1>3 DEF Fail, Goto, TypeOK
  <1>13. SideTypes'
    BY <1>4 DEF SidecarInvariant, SideTypes
  <1>14. OneTrail'
    <2>1. \A g \in Files : Continues(durable'[g], file'[g])
      BY <1>3, <1>7, <1>11 DEF SidecarInvariant, OneTrail
    <2>2. \A w \in Writer : /\ pc'[w] \in OpenSteps => at'[w] = dir'.trail
                            /\ pc'[w] \in {"start", "shown", "open"} => at'[w] = NoFile
                            /\ pc'[w] = "then" => pc[w] = "then"
      BY <1>2, <1>3, <1>12 DEF SidecarInvariant, OneTrail
    <2> QED BY <1>3, <1>4, <2>1, <2>2 DEF SidecarInvariant, OneTrail
  <1>15. SignedThere'
    BY <1>3, <1>4 DEF SidecarInvariant, SignedThere
  <1>16. SignerAt(v)'
    BY <1>2, <1>4, <1>12 DEF SignerAt
  <1>17. Extends(sideDur, sideDur')
    BY <1>4 DEF Extends
  <1> QED BY <1>1, <1>5, <1>13, <1>14, <1>15, <1>16, <1>17, LockedSigners

LEMMA SyncSigner ==
    ASSUME \A w \in Writer : Chain[w],
           TypeOK, ChainInvariant, SidecarInvariant, NEW v \in Writer, UNCHANGED sideVars,
           Sync(v)
    PROVE  SidecarInvariant'
  <1> DEFINE f == at[v]
             b == file[f]
  <1>1. pc[v] = "sync" /\ pc[v] \in LockSteps
    BY DEF Sync, LockSteps
  <1>2. f \in Files /\ f = dir.trail /\ b \in Bytes /\ durable[f] \in Bytes /\ dir.trail # NoFile
    BY <1>1, WriterAssumption DEF TypeOK, OpenSteps, SidecarInvariant, OneTrail
  <1>3. /\ durable' = [durable EXCEPT ![f] = b] /\ pc' = [pc EXCEPT ![v] = "entry"]
        /\ UNCHANGED <<dir, durDir, file, at, data>>
    BY DEF Sync, Goto, call
  <1>4. UNCHANGED <<side, sideDur, spc, sdata>>
    BY DEF sideVars
  <1>5. OthersKept(v)
    BY OthersQuiet DEF Step, Progress
  <1>6. Written(v) /\ spc[v] = "idle"
    BY <1>1 DEF SidecarInvariant, SignerAt
  <1>7. Continues(durable[f], b)
    BY <1>2 DEF SidecarInvariant, OneTrail
  <1> HIDE DEF b
  <1>8. durable'[f] = b /\ \A g \in Files : g # f => durable'[g] = durable[g]
    BY <1>2, <1>3 DEF TypeOK
  <1>9. pc'[v] = "entry" /\ at'[v] = f /\ \A w \in Writer : w # v => pc'[w] = pc[w]
    BY <1>3 DEF TypeOK
  <1>10. SideTypes'
    BY <1>4 DEF SidecarInvariant, SideTypes
  <1>11. OneTrail'
    <2>1. \A g \in Files : Continues(durable'[g], file'[g])
      BY <1>2, <1>3, <1>8, ContinuesItself DEF SidecarInvariant, OneTrail, b
    <2>2. \A w \in Writer : /\ pc'[w] \in OpenSteps => at'[w] = dir'.trail
                            /\ pc'[w] \in {"start", "shown", "open"} => at'[w] = NoFile
                            /\ pc'[w] = "then" => pc[w] = "then"
      BY <1>2, <1>3, <1>9 DEF SidecarInvariant, OneTrail
    <2> QED BY <1>3, <1>4, <2>1, <2>2 DEF SidecarInvariant, OneTrail
  <1>12. SignedThere'
    <2>1. SidecarFindings(durable[f], side) = {} /\ side \in SideBytes
      BY <1>2 DEF SidecarInvariant, SignedThere, SideTypes
    <2>2. SidecarFindings(b, side) = {}
      BY <1>2, <1>7, <2>1, FindingsStay
    <2> QED BY <1>2, <1>3, <1>4, <1>8, <2>2 DEF SignedThere
  <1>13. SignerAt(v)'
    <2>1. Written(v)'
      BY <1>3, <1>4, <1>6, <1>8, <1>9 DEF Written, b
    <2> QED BY <1>4, <1>6, <1>9, <2>1 DEF SignerAt
  <1>14. Extends(sideDur, sideDur')
    BY <1>4 DEF Extends
  <1> QED BY <1>1, <1>5, <1>10, <1>11, <1>12, <1>13, <1>14, LockedSigners

LEMMA SyncEntrySigner ==
    ASSUME TypeOK, ChainInvariant, SidecarInvariant, NEW v \in Writer, UNCHANGED sideVars,
           SyncEntry(v)
    PROVE  SidecarInvariant'
  <1> DEFINE f == at[v]
  <1>1. pc[v] = "entry" /\ pc[v] \in LockSteps
    BY DEF SyncEntry, LockSteps
  <1>2. f \in Files /\ f = dir.trail /\ dir.trail # NoFile
    BY <1>1, WriterAssumption DEF TypeOK, OpenSteps, SidecarInvariant, OneTrail
  <1>3. /\ durDir' = [dir EXCEPT !.made = durDir.made] /\ pc' = [pc EXCEPT ![v] = "then"]
        /\ UNCHANGED <<dir, file, durable, at, data>>
    BY DEF SyncEntry, Goto, call
  <1>4. UNCHANGED <<side, sideDur, spc, sdata>>
    BY DEF sideVars
  <1>5. OthersKept(v)
    BY OthersQuiet DEF Step, Progress
  <1>6. Written(v) /\ spc[v] = "idle"
    BY <1>1 DEF SidecarInvariant, SignerAt
  <1>7. durDir'.trail = dir.trail /\ durDir'.made = durDir.made
    BY <1>3 DEF TypeOK, Dirs, SidecarInvariant, OneTrail
  <1>8. pc'[v] = "then" /\ at'[v] = f /\ \A w \in Writer : w # v => pc'[w] = pc[w]
    BY <1>3 DEF TypeOK
  <1>9. SideTypes'
    BY <1>4 DEF SidecarInvariant, SideTypes
  <1>10. OneTrail'
    <2>1. \A w \in Writer : /\ pc'[w] \in OpenSteps => at'[w] = dir'.trail
                            /\ pc'[w] \in {"start", "shown", "open"} => at'[w] = NoFile
      BY <1>2, <1>3, <1>8 DEF SidecarInvariant, OneTrail
    <2> QED BY <1>2, <1>3, <1>7, <2>1 DEF SidecarInvariant, OneTrail
  <1>11. SignedThere'
    BY <1>3, <1>4 DEF SidecarInvariant, SignedThere
  <1>12. SignerAt(v)'
    <2>1. Written(v)'
      BY <1>1, <1>3, <1>4, <1>6, <1>8 DEF Written
    <2> QED BY <1>4, <1>6, <1>8, <2>1 DEF SignerAt
  <1>13. Extends(sideDur, sideDur')
    BY <1>4 DEF Extends
  <1> QED BY <1>1, <1>5, <1>9, <1>10, <1>11, <1>12, <1>13, LockedSigners

LEMMA EmptySidecar ==
    /\ Items(Empty) = {}
    /\ \A b : SidecarFindings(b, Empty) = {}
  <1>1. Items(Empty) = {}
    BY DEF Items, LineCount, Empty
  <1> QED BY <1>1 DEF SidecarFindings

(* A trail is created only where none was ever durably named, and nobody   *)
(* has one open.                                                           *)
LEMMA CreateSigner ==
    ASSUME TypeOK, SidecarInvariant, NEW v \in Writer, UNCHANGED sideVars, OpenCreating(v)
    PROVE  SidecarInvariant'
  <1>1. PICK f \in Unused :
            /\ dir' = [dir EXCEPT !.trail = f]
            /\ file' = [file EXCEPT ![f] = Empty]
            /\ durable' = [durable EXCEPT ![f] = Empty]
            /\ at' = [at EXCEPT ![v] = f]
    BY DEF OpenCreating
  <1>2. /\ pc[v] = "open" /\ dir.trail = NoFile /\ pc' = [pc EXCEPT ![v] = "check"]
        /\ UNCHANGED <<durDir, err>>
    BY DEF OpenCreating, Goto
  <1>3. UNCHANGED <<side, sideDur, spc, sdata>>
    BY DEF sideVars
  <1>4. f \in Files /\ NoFile \notin Files
    BY WriterAssumption DEF Unused
  <1>5. \A w \in Writer : pc[w] \notin OpenSteps
    BY <1>2, <1>4 DEF TypeOK, SidecarInvariant, OneTrail
  <1>6. side = Empty /\ durDir.trail = NoFile
    BY <1>2 DEF SidecarInvariant, OneTrail
  <1>7. dir'.trail = f /\ dir'.made = dir.made
    BY <1>1 DEF TypeOK, Dirs
  <1>8. /\ pc'[v] = "check" /\ at'[v] = f
        /\ \A w \in Writer : w # v => pc'[w] = pc[w] /\ at'[w] = at[w]
    BY <1>1, <1>2 DEF TypeOK
  <1>9. \A g \in Files : Continues(durable'[g], file'[g])
    <2>1. \A g \in Files : \/ durable'[g] = Empty /\ file'[g] = Empty
                           \/ durable'[g] = durable[g] /\ file'[g] = file[g]
      BY <1>1 DEF TypeOK
    <2> QED BY <2>1, EmptyType, ContinuesItself DEF SidecarInvariant, OneTrail
  <1>10. OneTrail'
    <2>1. \A w \in Writer : /\ pc'[w] \in OpenSteps => at'[w] = dir'.trail
                            /\ pc'[w] \in {"start", "shown", "open"} => at'[w] = NoFile
                            /\ pc'[w] # "then"
      BY <1>5, <1>7, <1>8 DEF SidecarInvariant, OneTrail, OpenSteps
    <2> QED BY <1>2, <1>3, <1>6, <1>7, <1>9, <2>1 DEF SidecarInvariant, OneTrail
  <1>11. SignedThere'
    BY <1>3, <1>6, EmptySidecar DEF SignedThere
  <1>12. ASSUME NEW w \in Writer PROVE SignerAt(w)'
    <2>1. spc[w] = "idle"
      BY <1>5 DEF SidecarInvariant, SignerAt, OpenSteps
    <2>2. pc'[w] \notin {"sync", "entry", "then"}
      BY <1>5, <1>8 DEF OpenSteps
    <2>3. pc'[w] \in {"unlock", "end"} => pc'[w] = pc[w]
      BY <1>8
    <2>4. SignerAt(w)
      BY DEF SidecarInvariant
    <2> QED BY <1>2, <1>3, <2>1, <2>2, <2>3, <2>4 DEF SignerAt
  <1>13. SideTypes'
    BY <1>3 DEF SidecarInvariant, SideTypes
  <1> QED BY <1>10, <1>11, <1>12, <1>13 DEF SidecarInvariant

-----------------------------------------------------------------------------
(* The signing steps.                                                      *)

LEMMA SideTransitive ==
    ASSUME NEW a \in SideBytes, NEW b \in SideBytes, NEW c \in SideBytes,
           Extends(a, b), Extends(b, c)
    PROVE  Extends(a, c)
  BY DEF Extends, LineCount, SideBytes

(* What a writer about to sign knows.                                      *)
LEMMA SignFacts ==
    ASSUME TypeOK, ChainInvariant, SidecarInvariant, NEW v \in Writer, pc[v] = "then"
    PROVE  /\ at[v] \in Files /\ at[v] = dir.trail /\ dir.trail # NoFile
           /\ pc[v] \in LockSteps /\ WellLinked(file[at[v]])
           /\ Written(v) /\ SignerAt(v) /\ side \in SideBytes
           /\ durable[at[v]] = file[at[v]] /\ SidecarFindings(file[at[v]], side) = {}
           /\ durDir.trail # NoFile
  <1>1. at[v] \in Files /\ at[v] = dir.trail /\ dir.trail # NoFile /\ pc[v] \in LockSteps
    BY WriterAssumption DEF TypeOK, OpenSteps, LockSteps, SidecarInvariant, OneTrail
  <1>2. Written(v) /\ SignerAt(v) /\ side \in SideBytes
    BY DEF SidecarInvariant, SignerAt, SideTypes
  <1>3. durable[at[v]] = file[at[v]]
    BY <1>2 DEF Written
  <1>4. SidecarFindings(file[at[v]], side) = {}
    BY <1>1, <1>3 DEF SidecarInvariant, SignedThere
  <1>5. durDir.trail # NoFile
    BY DEF SidecarInvariant, OneTrail
  <1>6. WellLinked(file[at[v]])
    BY <1>1 DEF ChainInvariant
  <1> QED BY <1>1, <1>2, <1>3, <1>4, <1>5, <1>6

LEMMA ReadSigner ==
    ASSUME TypeOK, ChainInvariant, SidecarInvariant, NEW v \in Writer, ReadSidecar(v)
    PROVE  SidecarInvariant'
  <1>1. /\ pc[v] = "then" /\ spc[v] = "idle" /\ KeyInForce(side, Key[v]) /\ Key[v] # NoKey
        /\ sdata' = [sdata EXCEPT ![v] = SidecarBytes(v)]
        /\ spc' = [spc EXCEPT ![v] = "write"]
        /\ UNCHANGED <<vars, side, sideDur>>
    BY DEF ReadSidecar, Signs
  <1>2. UNCHANGED <<dir, durDir, file, durable, pc, at, data, err>>
    BY <1>1 DEF vars
  <1>3. /\ at[v] \in Files /\ at[v] = dir.trail /\ pc[v] \in LockSteps
        /\ WellLinked(file[at[v]]) /\ Written(v) /\ SignerAt(v) /\ side \in SideBytes
        /\ SidecarFindings(file[at[v]], side) = {}
    BY <1>1, SignFacts
  <1>4. SidecarBytes(v) \in SideBytes
    BY <1>1, <1>3, SigningFindings
  <1>5. SideTypes'
    BY <1>1, <1>4 DEF SidecarInvariant, SideTypes
  <1>6. OneTrail' /\ SignedThere'
    BY <1>1, <1>2 DEF SidecarInvariant, OneTrail, SignedThere
  <1>7. /\ spc'[v] = "write" /\ sdata'[v] = SidecarBytes(v)
        /\ \A w \in Writer : w # v => spc'[w] = spc[w] /\ sdata'[w] = sdata[w]
    BY <1>1 DEF SidecarInvariant, SideTypes
  <1>8. SignerAt(v)'
    <2>1. Written(v)'
      BY <1>1, <1>2, <1>3 DEF Written
    <2>2. sdata'[v] = SidecarBytes(v)'
      BY <1>1, <1>2, <1>7, BytesStay
    <2> QED BY <1>1, <1>2, <1>7, <2>1, <2>2 DEF SignerAt
  <1>9. OthersKept(v)
    BY <1>2, <1>7 DEF OthersKept
  <1>10. Extends(sideDur, sideDur')
    BY <1>1 DEF Extends
  <1> QED BY <1>3, <1>5, <1>6, <1>8, <1>9, <1>10, LockedSigners

LEMMA WriteSidecarSigner ==
    ASSUME TypeOK, ChainInvariant, SidecarInvariant, NEW v \in Writer, WriteSidecar(v)
    PROVE  SidecarInvariant'
  <1>1. /\ pc[v] = "then" /\ spc[v] = "write"
        /\ side' = Concat(side, sdata[v]) /\ spc' = [spc EXCEPT ![v] = "sync"]
        /\ UNCHANGED <<vars, sideDur, sdata>>
    BY DEF WriteSidecar
  <1>2. UNCHANGED <<dir, durDir, file, durable, pc, at, data, err>>
    BY <1>1 DEF vars
  <1>3. /\ at[v] \in Files /\ at[v] = dir.trail /\ pc[v] \in LockSteps
        /\ WellLinked(file[at[v]]) /\ Written(v) /\ SignerAt(v) /\ side \in SideBytes
        /\ SidecarFindings(file[at[v]], side) = {} /\ durable[at[v]] = file[at[v]]
        /\ durDir.trail # NoFile
    BY <1>1, SignFacts
  <1>4. sdata[v] = SidecarBytes(v) /\ KeyInForce(side, Key[v]) /\ Key[v] # NoKey
    BY <1>1, <1>3 DEF SignerAt
  <1>5. /\ side' \in SideBytes /\ Extends(side, side')
        /\ SidecarFindings(file[at[v]], side') = {}
        /\ Op[v] = "rotate" => HasRotation(side', v)
    BY <1>1, <1>3, <1>4, SigningFindings
  <1>6. SideTypes'
    <2>1. Extends(sideDur, side')
      BY <1>3, <1>5, SideTransitive DEF SidecarInvariant, SideTypes
    <2> QED BY <1>1, <1>5, <2>1 DEF SidecarInvariant, SideTypes
  <1>7. OneTrail' /\ SignedThere'
    BY <1>2, <1>3, <1>5 DEF SidecarInvariant, OneTrail, SignedThere
  <1>8. spc'[v] = "sync" /\ \A w \in Writer : w # v => spc'[w] = spc[w]
    BY <1>1 DEF SidecarInvariant, SideTypes
  <1>9. SignerAt(v)'
    <2>1. Written(v)'
      BY <1>1, <1>2, <1>3, <1>8 DEF Written
    <2> QED BY <1>1, <1>2, <1>4, <1>5, <1>8, <2>1 DEF SignerAt
  <1>10. OthersKept(v)
    BY <1>1, <1>2, <1>8 DEF OthersKept
  <1>11. Extends(sideDur, sideDur')
    BY <1>1 DEF Extends
  <1> QED BY <1>3, <1>6, <1>7, <1>9, <1>10, <1>11, LockedSigners

(* The end of the signing, of whatever it did to the sidecar.              *)
LEMMA EndTypes ==
    ASSUME TypeOK, SidecarInvariant, NEW v \in Writer, NEW why, EndSigning(v, why)
    PROVE  /\ pc[v] = "then" /\ pc'[v] = "unlock" /\ spc'[v] = "idle"
           /\ Op[v] = "rotate" => err'[v] = why
           /\ UNCHANGED <<dir, durDir, file, durable, at>> /\ OthersKept(v)
           /\ \A w \in Writer : w # v => pc'[w] = pc[w]
           /\ spc' \in [Writer -> {"idle", "write", "sync"}] /\ sdata' \in [Writer -> SideBytes]
  <1>1. /\ pc[v] = "then" /\ pc' = [pc EXCEPT ![v] = "unlock"]
        /\ err' = IF Op[v] = "rotate" THEN [err EXCEPT ![v] = why] ELSE err
        /\ spc' = [spc EXCEPT ![v] = "idle"] /\ sdata' = [sdata EXCEPT ![v] = Empty]
        /\ UNCHANGED <<dir, durDir, file, durable, at, data>>
    BY DEF EndSigning, Goto, disk
  <1>2. /\ pc \in [Writer -> Steps] /\ err \in [Writer -> Errors]
        /\ spc \in [Writer -> {"idle", "write", "sync"}] /\ sdata \in [Writer -> SideBytes]
    BY DEF TypeOK, SidecarInvariant, SideTypes
  <1>3. pc'[v] = "unlock" /\ spc'[v] = "idle" /\ \A w \in Writer : w # v => pc'[w] = pc[w]
    BY <1>1, <1>2
  <1>4. Op[v] = "rotate" => err'[v] = why
    BY <1>1, <1>2
  <1>5. \A w \in Writer : w # v => err'[w] = err[w] /\ spc'[w] = spc[w] /\ sdata'[w] = sdata[w]
    BY <1>1, <1>2
  <1>6. OthersKept(v)
    BY <1>1, <1>3, <1>5 DEF OthersKept
  <1>7. spc' \in [Writer -> {"idle", "write", "sync"}] /\ sdata' \in [Writer -> SideBytes]
    BY <1>1, <1>2, SideEmpty
  <1> QED BY <1>1, <1>3, <1>4, <1>6, <1>7

LEMMA WriteSidecarShortSigner ==
    ASSUME TypeOK, ChainInvariant, SidecarInvariant, NEW v \in Writer, WriteSidecarShort(v)
    PROVE  SidecarInvariant'
  <1> DEFINE whole == Concat(side, sdata[v])
  <1>1. /\ spc[v] = "write" /\ EndSigning(v, "io") /\ sideDur' = sideDur
        /\ side' \in Between(side, whole)
    BY DEF WriteSidecarShort
  <1>2. /\ pc[v] = "then" /\ pc'[v] = "unlock" /\ spc'[v] = "idle"
        /\ Op[v] = "rotate" => err'[v] = "io"
        /\ UNCHANGED <<dir, durDir, file, durable, at>> /\ OthersKept(v)
        /\ \A w \in Writer : w # v => pc'[w] = pc[w]
        /\ spc' \in [Writer -> {"idle", "write", "sync"}] /\ sdata' \in [Writer -> SideBytes]
    BY <1>1, EndTypes
  <1>3. /\ at[v] \in Files /\ at[v] = dir.trail /\ pc[v] \in LockSteps
        /\ WellLinked(file[at[v]]) /\ Written(v) /\ SignerAt(v) /\ side \in SideBytes
        /\ SidecarFindings(file[at[v]], side) = {} /\ durable[at[v]] = file[at[v]]
        /\ durDir.trail # NoFile
    BY <1>2, SignFacts
  <1>4. sdata[v] = SidecarBytes(v) /\ KeyInForce(side, Key[v])
    BY <1>1, <1>3 DEF SignerAt
  <1>5. whole \in SideBytes /\ SidecarFindings(file[at[v]], whole) = {}
    BY <1>1, <1>3, <1>4, SigningFindings
  <1> HIDE DEF whole
  <1>6. side' \in Beginnings(whole) /\ side \in Beginnings(side')
    BY <1>1, BetweenBegins
  <1>7. side' \in SideBytes /\ Extends(side', whole) /\ Extends(side, side')
    BY <1>5, <1>6, SideBeginning
  <1>8. SidecarFindings(file[at[v]], side') = {}
    BY <1>5, <1>7, FindingsShorter
  <1>9. SideTypes'
    <2>1. Extends(sideDur, side')
      BY <1>3, <1>7, SideTransitive DEF SidecarInvariant, SideTypes
    <2> QED BY <1>1, <1>2, <1>7, <2>1 DEF SidecarInvariant, SideTypes
  <1>10. OneTrail'
    <2>1. \A w \in Writer : /\ pc'[w] \in OpenSteps => at'[w] = dir'.trail
                            /\ pc'[w] \in {"start", "shown", "open"} => at'[w] = NoFile
      BY <1>2, <1>3 DEF SidecarInvariant, OneTrail
    <2> QED BY <1>2, <1>3, <2>1 DEF SidecarInvariant, OneTrail
  <1>11. SignedThere'
    BY <1>2, <1>3, <1>8 DEF SignedThere
  <1>12. SignerAt(v)'
    BY <1>2 DEF SignerAt
  <1>13. Extends(sideDur, sideDur')
    BY <1>1 DEF Extends
  <1> QED BY <1>2, <1>3, <1>9, <1>10, <1>11, <1>12, <1>13, LockedSigners
(* A signing that is refused, fails or is done leaves the sidecar.         *)
LEMMA EndSigner ==
    ASSUME TypeOK, ChainInvariant, SidecarInvariant, NEW v \in Writer,
           KeyRefused(v) \/ SidecarError(v) \/ SyncSidecar(v)
    PROVE  SidecarInvariant'
  <1> DEFINE Ends(why) == EndSigning(v, why) /\ side' = side
  <1>1. \/ \E why \in {"io", "key-not-in-force"} : Ends(why) /\ sideDur' = sideDur
        \/ Ends("none") /\ sideDur' = side /\ spc[v] = "sync"
    BY DEF KeyRefused, SidecarError, SyncSidecar
  <1>2. PICK why \in {"io", "key-not-in-force", "none"} :
            /\ Ends(why)
            /\ why # "none" => sideDur' = sideDur
            /\ why = "none" => sideDur' = side /\ spc[v] = "sync"
    BY <1>1
  <1>3. /\ pc[v] = "then" /\ pc'[v] = "unlock" /\ spc'[v] = "idle"
        /\ Op[v] = "rotate" => err'[v] = why
        /\ UNCHANGED <<dir, durDir, file, durable, at>> /\ OthersKept(v)
        /\ spc' \in [Writer -> {"idle", "write", "sync"}] /\ sdata' \in [Writer -> SideBytes]
    BY <1>2, EndTypes
  <1>4. at[v] = dir.trail /\ SignerAt(v)
    BY <1>3, SignFacts
  <1>5. /\ side \in SideBytes /\ sideDur \in SideBytes /\ Extends(sideDur, side)
        /\ Extends(side, side) /\ Extends(sideDur, sideDur)
    BY DEF SidecarInvariant, SideTypes, Extends
  <1>6. SideTypes' /\ Extends(sideDur, sideDur')
    BY <1>2, <1>3, <1>5 DEF SideTypes
  <1>7. Op[v] = "rotate" /\ err'[v] = "none" => HasRotation(sideDur', v)
    BY <1>2, <1>3, <1>4 DEF SignerAt
  <1>8. QuietFor(v)
    BY <1>2, <1>3, <1>4, <1>7 DEF QuietFor
  <1> QED BY <1>3, <1>6, <1>8, QuietSigners

LEMMA CrashSigner ==
    ASSUME TypeOK, SidecarInvariant, NEW v \in Writer, SignedCrash(v)
    PROVE  SidecarInvariant'
  <1>1. /\ Crash(v) /\ UNCHANGED <<side, sideDur>>
        /\ spc' = [spc EXCEPT ![v] = "idle"] /\ sdata' = [sdata EXCEPT ![v] = Empty]
    BY DEF SignedCrash
  <1>2. UNCHANGED disk /\ pc'[v] = "crashed"
    BY <1>1 DEF Crash, Goto, TypeOK
  <1>3. \A w \in Writer \ {v} : /\ pc'[w] = pc[w] /\ at'[w] = at[w] /\ err'[w] = err[w]
                                /\ data'[w] = data[w]
    BY <1>1, OthersStay, OthersData
  <1>4. /\ spc \in [Writer -> {"idle", "write", "sync"}] /\ sdata \in [Writer -> SideBytes]
        /\ side \in SideBytes /\ sideDur \in SideBytes /\ Extends(sideDur, side)
    BY DEF SidecarInvariant, SideTypes
  <1>5. /\ spc' \in [Writer -> {"idle", "write", "sync"}] /\ sdata' \in [Writer -> SideBytes]
        /\ spc'[v] = "idle"
        /\ \A w \in Writer \ {v} : spc'[w] = spc[w] /\ sdata'[w] = sdata[w]
    BY <1>1, <1>4, SideEmpty
  <1>6. SideTypes' /\ Extends(sideDur, sideDur')
    BY <1>1, <1>4, <1>5 DEF SideTypes, Extends
  <1>7. OthersKept(v)
    BY <1>3, <1>5 DEF OthersKept
  <1>8. QuietFor(v)
    BY <1>1, <1>2, <1>5 DEF QuietFor, disk, OpenSteps
  <1> QED BY <1>6, <1>7, <1>8, QuietSigners

(* What is left of an empty sidecar is empty.                              *)
LEMMA NothingCut ==
    ASSUME NEW t \in Cuts(<< >>) PROVE t = << >>
  <1>1. DOMAIN << >> = {}
    OBVIOUS
  <1> QED BY <1>1, Zenon DEF Cuts

LEMMA EmptyBeginning ==
    ASSUME NEW t \in Beginnings(Empty) PROVE t = Empty
  <1>1. Empty \in Seq(Seq(SidePiece)) /\ Empty # << >> /\ Len(Empty) = 1 /\ Empty[1] = << >>
    BY DEF Empty
  <1>2. t \in Seq(Seq(SidePiece)) /\ Len(t) \in 1 .. Len(Empty) /\ t[Len(t)] \in Cuts(Empty[Len(t)])
    BY ONLY <1>1, SidePieceCuttable, BeginningsAny, t \in Beginnings(Empty)
  <1>3. Len(t) = 1
    BY ONLY <1>1, <1>2
  <1>4. t[1] \in Cuts(<< >>)
    BY ONLY <1>1, <1>2, <1>3, Zenon
  <1>5. t[1] = << >>
    BY ONLY <1>4, NothingCut
  <1>6. t = << << >> >>
    BY ONLY <1>2, <1>3, <1>5
  <1> QED BY <1>6 DEF Empty

LEMMA LossSigner ==
    ASSUME TypeOK, TypeOK', SidecarInvariant, SignedPowerLoss
    PROVE  SidecarInvariant'
  <1>1. PowerLoss /\ spc' = [w \in Writer |-> "idle"] /\ sdata' = [w \in Writer |-> Empty]
    BY DEF SignedPowerLoss
  <1>2. PICK sc \in Between(sideDur, side) :
            side' = (IF dir'.made THEN sc ELSE Empty) /\ sideDur' = side'
    BY DEF SignedPowerLoss
  <1>3. /\ side \in SideBytes /\ sideDur \in SideBytes
    BY DEF SidecarInvariant, SideTypes
  <1>4. sc \in Beginnings(side) /\ sideDur \in Beginnings(sc)
    BY BetweenBegins
  <1>5. sc \in SideBytes /\ Extends(sc, side) /\ Extends(sideDur, sc)
    BY <1>3, <1>4, SideBeginning
  <1>6. SideTypes'
    <2>1. Extends(side', side')
      BY DEF Extends
    <2> QED BY <1>1, <1>2, <1>5, <2>1, SideEmpty DEF SideTypes
  <1>7. \A w \in Writer : /\ pc'[w] = IF Running(w) THEN "crashed" ELSE pc[w]
                          /\ err'[w] = err[w]
                          /\ at'[w] = IF Running(w) THEN NoFile ELSE at[w]
    BY <1>1 DEF PowerLoss, Forget
  <1>8. \A w \in Writer : pc'[w] \notin OpenSteps /\ pc'[w] # "open"
    BY <1>7 DEF TypeOK, Running, OpenSteps, Steps
  <1>9. durable' = file' /\ \E d \in DirsAfterLoss : dir' = d /\ durDir' = d
    BY <1>1 DEF PowerLoss
  <1>10. /\ dir' \in {dir, durDir, NoDir} /\ durDir' = dir'
         /\ DirMade => dir'.made
    BY <1>9 DEF DirsAfterLoss, SidecarInvariant, OneTrail
  <1>11. /\ dir'.made => dir' \in {dir, durDir} /\ side' = sc
         /\ ~ dir'.made => side' = Empty
    BY <1>2, <1>10 DEF NoDir
  <1>11a. durDir'.trail = NoFile => side' = Empty
    <2> SUFFICES ASSUME durDir'.trail = NoFile, dir'.made PROVE side' = Empty
      BY <1>11
    <2>1. side = Empty
      BY <1>10, <1>11 DEF SidecarInvariant, OneTrail
    <2> QED BY <1>4, <1>11, <2>1, EmptyBeginning
  <1>12. \A f \in Files : Continues(durable[f], file'[f])
    <2> SUFFICES ASSUME NEW f \in Files PROVE Continues(durable[f], file'[f])
      OBVIOUS
    <2>1. file'[f] \in Bytes /\ file[f] \in Bytes /\ durable[f] \in Bytes
      BY DEF TypeOK
    <2>2. Continues(durable[f], file[f])
      BY DEF SidecarInvariant, OneTrail
    <2>3. file'[f] = file[f] \/ file'[f] \in Beginnings(file[f])
      BY <1>1, LossFiles
    <2>4. file'[f] = durable[f] \/ durable[f] \in Beginnings(file'[f])
      BY <1>1, LossKeeps
    <2>5. Extends(file'[f], file[f])
      BY <2>1, <2>3, BeginningExtends, ExtendsItself
    <2>6. Extends(durable[f], file'[f])
      BY <2>1, <2>4, BeginningExtends, ExtendsItself
    <2> QED BY <2>1, <2>2, <2>5, <2>6, ContinuesPart
  <1>13. OneTrail'
    <2>1. \A f \in Files : Continues(durable'[f], file'[f])
      BY <1>9, ContinuesItself DEF TypeOK
    <2>2. \A w \in Writer : /\ pc'[w] \in OpenSteps => at'[w] = dir'.trail
                            /\ pc'[w] \in {"start", "shown", "open"} => at'[w] = NoFile
      BY <1>7, <1>8 DEF SidecarInvariant, OneTrail
    <2>3. \A w \in Writer : pc'[w] # "then"
      BY <1>8 DEF OpenSteps
    <2> QED BY <1>10, <1>11a, <2>1, <2>2, <2>3 DEF SidecarInvariant, OneTrail
  <1>14. SignedThere'
    <2> SUFFICES ASSUME dir'.trail # NoFile, dir'.made
                 PROVE  SidecarFindings(durable'[dir'.trail], side') = {}
      BY <1>11, EmptySidecar DEF SignedThere
    <2>1. dir'.trail = dir.trail
      BY <1>11 DEF SidecarInvariant, OneTrail
    <2> DEFINE f == dir.trail
    <2>2. f \in Files /\ durable[f] \in Bytes /\ file'[f] \in Bytes
      BY <2>1 DEF TypeOK, Dirs
    <2>3. SidecarFindings(durable[f], side) = {}
      BY <2>1 DEF SidecarInvariant, SignedThere
    <2>4. SidecarFindings(file'[f], side) = {}
      BY <1>3, <1>12, <2>2, <2>3, FindingsStay
    <2>5. SidecarFindings(file'[f], sc) = {}
      BY <1>3, <1>5, <2>4, FindingsShorter
    <2> QED BY <1>9, <1>11, <2>1, <2>5
  <1>15. ASSUME NEW w \in Writer PROVE SignerAt(w)'
    <2>1. spc'[w] = "idle" /\ pc'[w] \notin {"sync", "entry", "then", "unlock"}
      BY <1>1, <1>8 DEF OpenSteps
    <2>2. pc'[w] = "end" => pc[w] = "end"
      BY <1>7
    <2>3. DirMade /\ HasRotation(sideDur, w) => HasRotation(sideDur', w)
      BY <1>2, <1>3, <1>5, <1>10, <1>11, RotationStays
    <2>4. SignerAt(w)
      BY DEF SidecarInvariant
    <2> QED BY <1>7, <2>1, <2>2, <2>3, <2>4 DEF SignerAt
  <1> QED BY <1>6, <1>13, <1>14, <1>15 DEF SidecarInvariant

LEMMA SidecarInit ==
    ASSUME SignedInit PROVE SidecarInvariant
  <1>1. TypeOK
    BY TypeInit DEF SignedInit
  <1>2. /\ Init /\ side = Empty /\ sideDur = Empty
        /\ spc = [w \in Writer |-> "idle"] /\ sdata = [w \in Writer |-> Empty]
    BY DEF SignedInit
  <1>3. DirMade => dir.made
    BY <1>2 DEF Init
  <1>4. durDir = dir /\ durable = file /\ \A w \in Writer : pc[w] = "start" /\ at[w] = NoFile
    BY <1>2 DEF Init
  <1>5. SideTypes
    BY <1>2, SideEmpty DEF SideTypes, Extends
  <1>6. OneTrail
    <2>1. \A f \in Files : Continues(durable[f], file[f])
      BY <1>1, <1>4, ContinuesItself DEF TypeOK
    <2> QED BY <1>2, <1>3, <1>4, <2>1 DEF OneTrail, OpenSteps
  <1>7. SignedThere
    BY <1>2, EmptySidecar DEF SignedThere
  <1>8. \A w \in Writer : SignerAt(w)
    BY <1>2, <1>4 DEF SignerAt
  <1> QED BY <1>5, <1>6, <1>7, <1>8 DEF SidecarInvariant

LEMMA SidecarStep ==
    ASSUME \A w \in Writer : Chain[w],
           TypeOK, TypeOK', ChainInvariant, SidecarInvariant, [SignedNext]_allVars
    PROVE  SidecarInvariant'
  <1>1. CASE UNCHANGED allVars
    <2>1. UNCHANGED <<dir, durDir, file, durable, pc, at, data, err, side, sideDur, spc, sdata>>
      BY <1>1 DEF allVars, vars, sideVars
    <2>2. SideTypes' /\ OneTrail' /\ SignedThere'
      BY <2>1 DEF SidecarInvariant, SideTypes, OneTrail, SignedThere
    <2>3. ASSUME NEW w \in Writer PROVE SignerAt(w)'
      <3>1. Written(w) => Written(w)'
        BY <2>1 DEF Written
      <3>2. SidecarBytes(w)' = SidecarBytes(w)
        BY <2>1, BytesStay
      <3>3. SignerAt(w)
        BY DEF SidecarInvariant
      <3> QED BY <2>1, <3>1, <3>2, <3>3 DEF SignerAt
    <2> QED BY <2>2, <2>3 DEF SidecarInvariant
  <1>2. CASE SignedPowerLoss
    BY <1>2, LossSigner
  <1>3. ASSUME NEW v \in Writer, Step(v) \/ ShowDamage(v) \/ SignNothing(v), UNCHANGED sideVars
        PROVE  SidecarInvariant'
    <2>1. CASE OpenCreating(v)
      BY <1>3, <2>1, CreateSigner
    <2>2. CASE Write(v)
      BY <1>3, <2>2, WriteSigner
    <2>3. CASE WriteShort(v)
      BY <1>3, <2>3, WriteShortSigner
    <2>4. CASE Sync(v)
      BY <1>3, <2>4, SyncSigner
    <2>5. CASE SyncEntry(v)
      BY <1>3, <2>5, SyncEntrySigner
    <2>6. CASE ~ OpenCreating(v) /\ ~ Write(v) /\ ~ WriteShort(v) /\ ~ Sync(v) /\ ~ SyncEntry(v)
      <3>1. QuietFor(v)
        BY <1>3, <2>6, QuietTrail
      <3>2. SideTypes' /\ Extends(sideDur, sideDur')
        BY <1>3 DEF sideVars, SidecarInvariant, SideTypes, Extends
      <3>3. OthersKept(v)
        BY <1>3, OthersQuiet DEF SignNothing
      <3> QED BY <3>1, <3>2, <3>3, QuietSigners
    <2> QED BY <2>1, <2>2, <2>3, <2>4, <2>5, <2>6
  <1>4. ASSUME NEW v \in Writer, SignStep(v) PROVE SidecarInvariant'
    <2>1. CASE SignNothing(v)
      BY <1>3, <2>1 DEF SignNothing
    <2>2. CASE ReadSidecar(v)
      BY <2>2, ReadSigner
    <2>3. CASE WriteSidecar(v)
      BY <2>3, WriteSidecarSigner
    <2>4. CASE WriteSidecarShort(v)
      BY <2>4, WriteSidecarShortSigner
    <2>5. CASE KeyRefused(v) \/ SidecarError(v) \/ SyncSidecar(v)
      BY <2>5, EndSigner
    <2> QED BY <1>4, <2>1, <2>2, <2>3, <2>4, <2>5 DEF SignStep
  <1>5. ASSUME NEW v \in Writer, SignedCrash(v) PROVE SidecarInvariant'
    BY <1>5, CrashSigner
  <1> QED BY <1>1, <1>2, <1>3, <1>4, <1>5 DEF SignedNext

(* What the invariant says of the file as it stands.                       *)
LEMMA SidecarSays ==
    ASSUME TypeOK, SidecarInvariant
    PROVE  SidecarVerifies /\ (DirMade => RotationKept)
  <1>1. ASSUME NEW f \in Files, f = dir.trail PROVE SidecarFindings(file[f], side) = {}
    <2>1. dir.trail # NoFile
      BY <1>1, WriterAssumption
    <2>2. SidecarFindings(durable[f], side) = {} /\ Continues(durable[f], file[f])
          /\ side \in SideBytes
      BY <1>1, <2>1 DEF SidecarInvariant, SignedThere, OneTrail, SideTypes
    <2>3. durable[f] \in Bytes /\ file[f] \in Bytes
      BY DEF TypeOK
    <2> QED BY <2>2, <2>3, FindingsStay
  <1>2. ASSUME DirMade, NEW w \in Writer, Op[w] = "rotate", pc[w] = "end", err[w] = "none"
        PROVE  HasRotation(side, w)
    <2>1. HasRotation(sideDur, w)
      BY <1>2 DEF SidecarInvariant, SignerAt
    <2> QED BY <2>1, RotationStays DEF SidecarInvariant, SideTypes
  <1> QED BY <1>1, <1>2 DEF SidecarVerifies, RotationKept, HasRotation

(* Where every writer chains and is offered the lock, the invariants hold  *)
(* together.                                                               *)
LEMMA SidecarAlways ==
    ASSUME \A w \in Writer : Lockable[w], \A w \in Writer : Chain[w]
    PROVE  SignedSpec => [](TypeOK /\ NotFailed /\ ChainInvariant /\ SidecarInvariant)
  <1>1. SignedInit => TypeOK /\ NotFailed /\ ChainInvariant /\ SidecarInvariant
    BY TypeInit, ChainInit, SidecarInit DEF SignedInit, Init, NotFailed
  <1>2. TypeOK /\ NotFailed /\ ChainInvariant /\ SidecarInvariant /\ [SignedNext]_allVars
            => TypeOK' /\ NotFailed' /\ ChainInvariant' /\ SidecarInvariant'
    <2> SUFFICES ASSUME TypeOK, NotFailed, ChainInvariant, SidecarInvariant,
                        [SignedNext]_allVars
                 PROVE  TypeOK' /\ NotFailed' /\ ChainInvariant' /\ SidecarInvariant'
      OBVIOUS
    <2>1. [Next]_vars
      BY SignedStepRefines
    <2>2. TypeOK' /\ NotFailed'
      BY <2>1, TypeStep, NotFailedStep
    <2>3. ChainInvariant'
      BY <2>1, <2>2, ChainStep
    <2> QED BY <2>2, <2>3, SidecarStep
  <1> QED BY <1>1, <1>2, PTL DEF SignedSpec

(* Where every writer chains and is offered the lock, the sidecar never    *)
(* says more than the trail holds, whatever was cut short, crashed,        *)
(* rotated or lost.  What is signed was durable, and in a file no one else *)
(* could write, before its signature was written; and a torn line of the   *)
(* sidecar is ended before the next is written, so that it stays           *)
(* unreadable.                                                             *)
THEOREM SignaturesVerify ==
    ASSUME \A w \in Writer : Lockable[w], \A w \in Writer : Chain[w]
    PROVE  SignedSpec => []SidecarVerifies
  <1>1. TypeOK /\ SidecarInvariant => SidecarVerifies
    BY SidecarSays
  <1> QED BY <1>1, SidecarAlways, PTL

(* And a rotation that was reported done stays in the sidecar, through     *)
(* crashes and power losses: its line was durable before it was reported.  *)
(* The directory was there before: one the rotation's own append made may  *)
(* be lost with both files in it.                                          *)
THEOREM RotationsKept ==
    ASSUME \A w \in Writer : Lockable[w], \A w \in Writer : Chain[w], DirMade
    PROVE  SignedSpec => []RotationKept
  <1>1. TypeOK /\ SidecarInvariant => RotationKept
    BY SidecarSays
  <1> QED BY <1>1, SidecarAlways, PTL
=============================================================================
