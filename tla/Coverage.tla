------------------------------ MODULE Coverage ------------------------------
(***************************************************************************)
(* What a matrix of expected dispositions says of a pack before anything   *)
(* is evaluated (project coverage.go, profile.go; result.go Disposition):  *)
(* which of the outcomes and reasons the declarations reach some row       *)
(* expects, which of the values the pack compares with some row's facts    *)
(* hold under an expectation that could have come to the comparison, and   *)
(* where the rows of each origin lie against those values.                 *)
(*                                                                         *)
(* A row names its facts and evidence as a call of Admission does.  Probes *)
(* and boundaries are sets here: their names, their order and the wording  *)
(* of a missing one are left out.                                          *)
(***************************************************************************)
EXTENDS Admission

(* The walk of module Resolver over such a pack and the conditions of      *)
(* module Conditions; a situation keeps the facts, the evidence and each   *)
(* requirement's presence.                                                 *)
WalkVerdict(c, s) == Condition(c, s["facts"], s["evidence"]).verdict
Nothing(c, s) == 0
NoScans(c, s) == {}
Walk == INSTANCE Resolver WITH
    Atom <- {}, Situation <- {}, Id <- {}, Outcome <- {}, Cond <- {}, NoCond <- NoCondition,
    Verdict <- WalkVerdict, Steps <- Nothing, Scans <- NoScans, ScanUnits <- Len, StepUnits <- Nothing,
    NoOutcome <- NoName, NoEscalation <- Unset, NoRoutes <- Unset, NoFilter <- Unset, NoTarget <- Unset,
    NoDeclaration <- Unset, Packs <- {}, Budgets <- {}, Considered <- Ids,
    in <- given, pc <- given, at <- given, charged <- given, scanned <- given, reasons <- given,
    direct <- given, suppressed <- given, forced <- given, candidates <- given, trace <- given,
    unmet <- given, chosen <- given, complete <- given, disposition <- given

Situation(facts, presence) ==
    LET states == [q \in DOMAIN presence |->
                      CASE presence[q] = "present" -> "true" [] presence[q] = "absent" -> "false"
                        [] OTHER -> "unknown"]
    IN  states @@ ("facts" :> facts) @@ ("evidence" :> states)

-----------------------------------------------------------------------------
(* The probes of a pack.                                                   *)

States == {"present", "absent", "unknown"}

(* Reach: the states in which each requirement can arrive.                 *)
EvidenceCanBe(d, state, reach) ==
    \E i \in DOMAIN d.requirements :
        d.requirements[i].required /\ state \in reach[d.requirements[i].id]

Escalates(seq) == \E i \in DOMAIN seq : seq[i].onUnknown = "escalate"
RuleOutcomes(d) == {d.rules[i].outcome : i \in DOMAIN d.rules} \ {NoName}
ForcedOutcomes(d) ==
    {d.exceptions[i].outcome :
        i \in {j \in DOMAIN d.exceptions : d.exceptions[j].effect = "force-outcome"}} \ {NoName}

ProducibleOutcomes(d) ==
    Ids(d.outcomes) \cap (RuleOutcomes(d) \cup ForcedOutcomes(d) \cup {d.fallback})

(* ReachableReasons: every reason the declarations leave open.             *)
ReachableReasons(d, reach) ==
    {r \in {"not-applicable"} : d.applicability # NoCondition}
    \cup {r \in {"missing-required-evidence"} : EvidenceCanBe(d, "absent", reach)}
    \cup {r \in {"unknown"} : \/ d.applicability # NoCondition
                              \/ EvidenceCanBe(d, "unknown", reach)
                              \/ Escalates(d.rules) \/ Escalates(d.exceptions)}
    \cup {r \in {"conflict"} : Cardinality(RuleOutcomes(d)) > 1 \/ Cardinality(ForcedOutcomes(d)) > 1}
    \cup {r \in {"exception-escalation"} : \E i \in DOMAIN d.exceptions : d.exceptions[i].effect = "escalate"}
    \cup {r \in {"no-match"} : d.fallback = NoName}

PackProbes(d, reach) ==
    {<<"outcome", o>> : o \in ProducibleOutcomes(d)}
    \cup {<<"reason", r>> : r \in ReachableReasons(d, reach)}
EveryState(d) == [q \in Ids(d.requirements) |-> States]

-----------------------------------------------------------------------------
(* Expected dispositions.  A member that is left out is Unset, and no      *)
(* outcome is NoName; "other" holds what is no member of a disposition.    *)

Reasons == {"not-applicable", "missing-required-evidence", "unknown", "conflict", "no-match",
            "exception-escalation"}

(* exactDispositionMembers: what is present when.                          *)
ExactMembers(x, contract) ==
    /\ x.other = {} /\ x.reasons # Unset /\ x.state # Unset
    /\ x.outcome # NoName <=> x.kind = "outcome"
    /\ x.triggeredBy # Unset <=> x.state = "requested"
    /\ x.routes # Unset => contract = "0.3"

RoutesAgree(x) ==
    x.routes # Unset => Len(x.routes) <= 8 /\ (x.routes # <<>> <=> x.state = "requested")

(* A direct request names itself, and only routes may leave it no state.   *)
DirectRequest(x, by) ==
    \/ x.routes # Unset /\ x.state = "none"
    \/ "exception-escalation" \in x.reasons <=> "exception-escalation" \in by

(* Disposition.validate, and the decoder before it.                        *)
LegalDisposition(x, contract) ==
    LET by == IF x.triggeredBy = Unset THEN {} ELSE x.triggeredBy
    IN  /\ contract \in Contracts
        /\ ExactMembers(x, contract) /\ RoutesAgree(x)
        /\ x.kind \in {"outcome", "not-applicable", "unresolved"} /\ x.state \in {"none", "requested"}
        /\ x.reasons \subseteq Reasons /\ (x.reasons = {} <=> x.kind = "outcome")
        /\ x.kind = "not-applicable" => x.reasons = {"not-applicable"}
        /\ x.state = "requested" <=> by # {}
        /\ by \subseteq x.reasons /\ DirectRequest(x, by)

(* What the walk's disposition is written as; its target stays outside.    *)
Canonical(y) ==
    [kind |-> y.kind, outcome |-> y.outcome, reasons |-> y.reasons, state |-> y.handoff.state,
     triggeredBy |-> IF y.handoff.triggeredBy = {} THEN Unset ELSE y.handoff.triggeredBy,
     routes |-> y.handoff.routes, other |-> {}]

(* DecodeWitness: an expectation the comparator refuses witnesses nothing. *)
Witnesses(row, contract) ==
    row.disposition # Unset /\ LegalDisposition(row.disposition, contract)

(* predicate: not-applicable is told by its kind.                          *)
WitnessOf(probe, x) ==
    CASE probe[1] = "outcome" -> x.kind = "outcome" /\ x.outcome = probe[2]
      [] probe[1] = "reason" /\ probe[2] = "not-applicable" -> x.kind = "not-applicable"
      [] OTHER -> probe[2] \in x.reasons

-----------------------------------------------------------------------------
(* The boundaries.                                                         *)

(* walkConditions: the facts under all, any and not.                       *)
RECURSIVE Leaves(_)
Leaves(c) ==
    CASE c.op \in {"all", "any"} -> UNION {Leaves(c.conditions[i]) : i \in DOMAIN c.conditions}
      [] c.op = "not" -> Leaves(c.condition)
      [] c.op = "fact" -> {c}
      [] OTHER -> {}

(* packConditions: the conditions of each stage.                           *)
Stage(d, stage) ==
    CASE stage = "applicability" -> {c \in {d.applicability} : c # NoCondition}
      [] stage = "exceptions" -> {d.exceptions[i].when : i \in DOMAIN d.exceptions}
      [] stage = "rules" -> {d.rules[i].when : i \in DOMAIN d.rules}
EachStage == {"applicability", "exceptions", "rules"}

Sited(c, b) ==
    /\ c.operator \in OrderedOperators /\ c.path = b[1]
    /\ IsDecimal(c.values[1]) /\ c.values[1].num = b[2]

(* comparisonSites and boundaryGroups: a pointer and a value, however the  *)
(* value is spelled, and the stages that compare them.                     *)
Boundaries(d) ==
    {<<c.path, c.values[1].num>> :
        c \in {e \in UNION {Leaves(t) : t \in AllConditions(d)} :
                   e.operator \in OrderedOperators /\ IsDecimal(e.values[1])}}
StagesAt(d, b) ==
    {stage \in EachStage : \E t \in Stage(d, stage) : \E c \in Leaves(t) : Sited(c, b)}

(* Mutant: missing evidence is taken to stop before the exceptions.        *)
ExercisedByEvidenceHalting(stage, x) ==
    LET halted == x.kind = "not-applicable" \/ x.reasons \cap {"not-applicable", "missing-required-evidence"} # {}
    IN  CASE stage = "applicability" -> TRUE
          [] stage = "exceptions" -> ~halted
          [] OTHER -> ~halted /\ "exception-escalation" \notin x.reasons

(* exercisedBy: only an expectation that proves the walk had stopped       *)
(* before the stage is not taken.                                          *)
ExercisedBy(stage, x) ==
    LET halted == x.kind = "not-applicable" \/ "not-applicable" \in x.reasons
    IN  CASE stage = "applicability" -> TRUE
          [] stage = "exceptions" -> ~halted
          [] OTHER -> ~halted /\ x.reasons \cap {"missing-required-evidence", "exception-escalation"} = {}

Places(row, b) ==
    IsDecimal(row.facts.document[b[1]]) /\ row.facts.document[b[1]].num = b[2]

(* The first row of some that has P, 0 for none.                           *)
FirstRow(rows, P(_)) ==
    LET found == {i \in DOMAIN rows : P(rows[i])} IN IF found = {} THEN 0 ELSE Min(found)

(* coverageFor: for each probe, and for each stage of a boundary, the      *)
(* first row that witnesses it.                                            *)
CoverageFor(d, rows, contract) ==
    [probes |-> [p \in PackProbes(d, EveryState(d)) |->
        FirstRow(rows, LAMBDA r : Witnesses(r, contract) /\ WitnessOf(p, r.disposition))],
     boundaries |-> [b \in Boundaries(d) |-> [stage \in StagesAt(d, b) |->
        FirstRow(rows, LAMBDA r : Witnesses(r, contract) /\ Places(r, b)
                                  /\ ExercisedBy(stage, r.disposition))]]]
CoveredProbes(cover) == {p \in DOMAIN cover.probes : cover.probes[p] # 0}
CoveredBoundaries(cover) ==
    {b \in DOMAIN cover.boundaries : 0 \notin Range(cover.boundaries[b])}
Covered(cover) == Cardinality(CoveredProbes(cover)) + Cardinality(CoveredBoundaries(cover))

-----------------------------------------------------------------------------
(* The profile of the rows that name an origin.                            *)

Sides == {"below", "at", "above"}
Side(n, literal) == CASE n < literal -> "below" [] n = literal -> "at" [] OTHER -> "above"
NoneYet == [rows |-> 0, disagreeing |-> 0, nearest |-> Unset, nearestDisagreeing |-> Unset]

(* nearer: of two at the same distance the earlier.                        *)
Nearer(current, v, side) ==
    IF \/ current = Unset
       \/ side = "below" /\ v.num > current.num
       \/ side = "above" /\ v.num < current.num THEN v ELSE current

Place(at, v, side, disagrees) ==
    [rows |-> at.rows + 1, disagreeing |-> at.disagreeing + (IF disagrees THEN 1 ELSE 0),
     nearest |-> Nearer(at.nearest, v, side),
     nearestDisagreeing |-> IF disagrees THEN Nearer(at.nearestDisagreeing, v, side)
                            ELSE at.nearestDisagreeing]

(* thresholdProfiles: one origin's rows on the sides of one boundary; a    *)
(* value that is no decimal is on none.                                    *)
ThresholdSides(b, rows, passed, indexes) ==
    LET Take(sides, i) ==
            LET v == rows[i].facts.document[b[1]]
            IN  IF ~IsDecimal(v) THEN sides
                ELSE [sides EXCEPT ![Side(v.num, b[2])] = Place(@, v, Side(v.num, b[2]), ~passed[i])]
    IN  FoldLeft(Take, [s \in Sides |-> NoneYet], indexes)

RowsOf(rows, origin) == SelectSeq([i \in DOMAIN rows |-> i], LAMBDA i : rows[i].origin = origin)
Origins(rows) == {rows[i].origin : i \in DOMAIN rows} \ {NoName}

(* profileWork, before anything of a profile is made.                      *)
ProfileWork(d, rows, covering) ==
    LET named == Cardinality({i \in DOMAIN rows : rows[i].origin # NoName})
        boundaries == Cardinality(Boundaries(d))
        probes == IF covering THEN Cardinality(PackProbes(d, EveryState(d))) + boundaries ELSE 0
    IN  named + named * probes + named * boundaries

(* profileFor.                                                             *)
ProfileFor(d, rows, contract, passed, covering) ==
    [o \in Origins(rows) |->
        LET own == RowsOf(rows, o)
        IN  [rows |-> Len(own), passed |-> Cardinality({i \in Range(own) : passed[i]}),
             covered |-> IF covering THEN Covered(CoverageFor(d, [n \in DOMAIN own |-> rows[own[n]]], contract))
                         ELSE 0,
             thresholds |-> [b \in Boundaries(d) |-> ThresholdSides(b, rows, passed, own)]]]
=============================================================================
