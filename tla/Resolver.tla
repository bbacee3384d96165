------------------------------ MODULE Resolver ------------------------------
(***************************************************************************)
(* The walk of one evaluation (internal/evaluation resolve.go): from a     *)
(* conformant pack and a situation to one disposition, or to the error of  *)
(* a reached work limit.  The stages come in the pack's order and their    *)
(* charge is taken before their verdict.                                   *)
(*                                                                         *)
(* What may be known or not is an atom: a fact, the presence of an         *)
(* evidence requirement, or the value a pointer selects for an outcome     *)
(* ("true" when it has the declared type, "false" when it has another).    *)
(* Conditions evaluate as module Conditions says; here each is given by    *)
(* its verdict, its work and the pointers it resolves in a situation.      *)
(***************************************************************************)
EXTENDS Integers, Sequences, FiniteSets, Functions

CONSTANTS
    Atom, Situation, Id, Outcome,
    Cond, NoCond,
    Verdict(_, _),      \* of a condition in a situation
    Steps(_, _),        \* its work beside the scans of its pointers
    Scans(_, _),        \* the pointers it resolves
    ScanUnits(_),       \* the work of compiling a pointer
    StepUnits(_, _),    \* the work of resolving it and reading its value
    NoOutcome, NoEscalation, NoRoutes, NoFilter, NoTarget, NoDeclaration,
    Packs, Budgets,
    Considered(_)       \* which packs, situations, opt-ins and budgets meet

VARIABLES
    in,             \* what is evaluated
    pc,             \* the next step
    at,             \* the exception, rule or value it is at
    charged,        \* the running charge
    scanned,        \* the pointers compiled so far
    reasons,        \* the retained reasons
    direct,         \* a true exception requested a handoff
    suppressed,     \* rules removed by exceptions
    forced,         \* outcomes forced by exceptions
    candidates,     \* outcomes of true rules
    trace,          \* the stages walked
    unmet,          \* the requirements found wanting
    chosen,         \* the outcome whose values are being resolved
    complete,       \* all of them so far have their type
    disposition     \* the answer, once there is one

vars == <<in, pc, at, charged, scanned, reasons, direct, suppressed, forced,
          candidates, trace, unmet, chosen, complete, disposition>>

Tri == {"true", "false", "unknown"}
NoDisposition == [kind |-> "none"]

(* A situation that knows all that s knows.                                *)
Completes(s, t) == \A a \in Atom : s[a] # "unknown" => t[a] = s[a]

ASSUME SituationAssumption == Situation \subseteq [Atom -> Tri]

(* A verdict that is not unknown stands when more becomes known.           *)
ASSUME VerdictAssumption ==
    \A c \in Cond : \A s, t \in Situation :
        /\ Verdict(c, s) \in Tri
        /\ Completes(s, t) /\ Verdict(c, s) # "unknown" => Verdict(c, t) = Verdict(c, s)

(* Work is counted in units, and a condition resolves finitely many        *)
(* pointers.                                                               *)
ASSUME WorkAssumption ==
    /\ Budgets \subseteq Nat
    /\ \A q \in Atom : ScanUnits(q) \in Nat /\ \A s \in Situation : StepUnits(q, s) \in Nat
    /\ \A c \in Cond : \A s \in Situation :
           Steps(c, s) \in Nat /\ Scans(c, s) \subseteq Atom /\ IsFiniteSet(Scans(c, s))

Effect == {"suppress-rule", "force-outcome", "escalate"}
Reaction == {"escalate", "ignore"}

Routed(p) == p.escalation # NoEscalation /\ p.escalation.routes # NoRoutes

(* What a conformant pack is, as far as the walk reads it.                 *)
ASSUME PackAssumption ==
    \A p \in Packs :
        /\ {"applicability", "requirements", "exceptions", "rules", "fallback", "escalation",
            "values"} \subseteq DOMAIN p
        /\ p.applicability \in Cond \cup {NoCond}
        /\ p.exceptions \in Seq([id : Id, when : Cond, effect : Effect, targetRule : Id,
                                 outcome : Outcome \cup {NoOutcome}, onUnknown : Reaction])
        /\ p.rules \in Seq([id : Id, when : Cond, outcome : Outcome, onUnknown : Reaction])
        /\ \A i \in DOMAIN p.exceptions :
               p.exceptions[i].effect = "force-outcome" => p.exceptions[i].outcome \in Outcome
        /\ \A i, j \in DOMAIN p.exceptions : p.exceptions[i].id = p.exceptions[j].id => i = j
        /\ \A i, j \in DOMAIN p.rules : p.rules[i].id = p.rules[j].id => i = j
        /\ p.fallback \in Outcome \cup {NoOutcome} /\ NoOutcome \notin Outcome
        /\ p.requirements \in Seq([id : Atom, required : BOOLEAN])
        /\ Routed(p) =>
             /\ IsFiniteSet(DOMAIN p.escalation.routes)
             /\ \A i \in DOMAIN p.escalation.routes :
                    \/ p.escalation.routes[i].triggers = NoFilter
                    \/ IsFiniteSet(p.escalation.routes[i].triggers)
        /\ p.search \in Nat
        /\ \A o \in Outcome : \/ p.values[o] = NoDeclaration
                              \/ p.values[o].units \in Nat /\ p.values[o].sources \in Seq(Atom)

pack == in.pack
situation == in.situation

-----------------------------------------------------------------------------
(* The disposition.                                                        *)

Triggered(p, retained, asked) ==
    (IF p.escalation = NoEscalation THEN {} ELSE p.escalation.triggers \cap retained)
    \cup (IF asked THEN {"exception-escalation"} ELSE {})

(* The routes of a request, in declared order: those without a filter and  *)
(* those whose filter names a retained reason.                             *)
Selects(r, retained) == r.triggers = NoFilter \/ \E x \in retained : x \in r.triggers

SelectedRoutes(p, retained) ==
    LET selected == SelectSeq(p.escalation.routes, LAMBDA r : Selects(r, retained))
    IN  [i \in DOMAIN selected |-> selected[i].target]

NoHandoff(p) ==
    [state |-> "none", triggeredBy |-> {}, target |-> NoTarget,
     routes |-> IF Routed(p) THEN <<>> ELSE NoRoutes]

Handoff(p, retained, asked) ==
    LET by == Triggered(p, retained, asked)
    IN  CASE by = {} -> NoHandoff(p)
          [] by # {} /\ Routed(p) ->
               IF ~ \E i \in DOMAIN p.escalation.routes : Selects(p.escalation.routes[i], retained)
               THEN NoHandoff(p)
               ELSE [state |-> "requested", triggeredBy |-> by, target |-> NoTarget,
                     routes |-> SelectedRoutes(p, retained)]
          [] OTHER ->
               [state |-> "requested", triggeredBy |-> by, routes |-> NoRoutes,
                target |-> IF p.escalation = NoEscalation THEN NoTarget ELSE p.escalation.target]

Disposition(p, kind, outcome, retained, asked) ==
    [kind |-> kind, outcome |-> outcome, reasons |-> retained,
     handoff |-> IF kind = "outcome" THEN NoHandoff(p) ELSE Handoff(p, retained, asked)]

-----------------------------------------------------------------------------
(* The charge.                                                             *)

(* One unit for each requirement, exception, rule, route and route filter. *)
Iteration(p) ==
    Len(p.requirements) + Len(p.exceptions) + Len(p.rules)
    + (IF Routed(p)
       THEN SumFunction([i \in DOMAIN p.escalation.routes |->
                            1 + (IF p.escalation.routes[i].triggers = NoFilter THEN 0
                                 ELSE Cardinality(p.escalation.routes[i].triggers))])
       ELSE 0)

Compiling(pointers) == SumFunction([q \in pointers |-> ScanUnits(q)])

(* Mutant: a compiled pointer is charged again.                            *)
TreeUnitsAgain(c) == Steps(c, situation) + Compiling(Scans(c, situation))

TreeUnits(c) == Steps(c, situation) + Compiling(Scans(c, situation) \ scanned)

Exhausted(units) == charged + units > in.budget

(* charge, and the pointers that stay compiled.                            *)
Pay(units, pointers) ==
    /\ charged' = charged + units
    /\ scanned' = scanned \cup pointers

(* workLimitFailure: an error and never a disposition.                     *)
Refuse == pc' = "error" /\ disposition' = NoDisposition

-----------------------------------------------------------------------------
(* The walk.                                                               *)

(* Nothing walked yet.                                                     *)
Start ==
    /\ pc = "begin" /\ at = 1
    /\ charged = 0 /\ scanned = {}
    /\ reasons = {} /\ direct = FALSE
    /\ suppressed = {} /\ forced = {} /\ candidates = {}
    /\ trace = <<>> /\ unmet = {}
    /\ chosen = NoOutcome /\ complete = TRUE
    /\ disposition = NoDisposition

Init ==
    /\ in \in [pack : Packs, situation : Situation, outcomeValues : BOOLEAN, budget : Budgets]
    /\ Considered(in)
    /\ Start

Goto(l) == pc' = l /\ at' = 1 /\ UNCHANGED disposition

Dispose(kind, outcome, retained) ==
    /\ pc' = "done"
    /\ disposition' = Disposition(pack, kind, outcome, retained, direct)
    /\ UNCHANGED at

Entry(stage, id, condition) ==
    [stage |-> stage, id |-> id, condition |-> condition, effect |-> "none",
     outcome |-> NoOutcome, onUnknown |-> "none"]

Begin ==
    /\ pc = "begin"
    /\ Pay(Iteration(pack), {})
    /\ IF Exhausted(Iteration(pack)) THEN Refuse /\ UNCHANGED at ELSE Goto("applicability")
    /\ UNCHANGED <<in, reasons, direct, suppressed, forced, candidates, trace, unmet, chosen, complete>>

(* Step 1: an omitted applicability is true and leaves no entry.           *)
Applicability ==
    LET c == pack.applicability
        t == IF c = NoCond THEN "true" ELSE Verdict(c, situation)
        units == IF c = NoCond THEN 0 ELSE TreeUnits(c)
        because == CASE t = "true" -> {} [] t = "false" -> {"not-applicable"} [] OTHER -> {"unknown"}
    IN  /\ pc = "applicability"
        /\ Pay(units, IF c = NoCond THEN {} ELSE Scans(c, situation))
        /\ IF Exhausted(units)
           THEN Refuse /\ UNCHANGED <<at, reasons, trace>>
           ELSE /\ reasons' = because
                /\ trace' = IF c = NoCond THEN trace
                            ELSE Append(trace, Entry("applicability", NoCond, t))
                /\ CASE t = "true" -> Goto("requirements")
                     [] t = "false" -> Dispose("not-applicable", NoOutcome, because)
                     [] OTHER -> Dispose("unresolved", NoOutcome, because)
        /\ UNCHANGED <<in, direct, suppressed, forced, candidates, unmet, chosen, complete>>

(* Step 2: missing evidence is retained before evidence not known.         *)
RequiredIn(p, s, t) ==
    {p.requirements[i].id : i \in {j \in DOMAIN p.requirements :
        p.requirements[j].required /\ s[p.requirements[j].id] = t}}

(* Mutant: only absent evidence is looked for.                             *)
RequirementsAbsent ==
    LET absent == RequiredIn(pack, situation, "false")
    IN  /\ pc = "requirements"
        /\ unmet' = {<<r, "absent">> : r \in absent}
        /\ reasons' = {r \in {"missing-required-evidence"} : absent # {}}
        /\ Goto("exceptions")
        /\ UNCHANGED <<in, charged, scanned, direct, suppressed, forced, candidates, trace, chosen, complete>>

Requirements ==
    LET absent == RequiredIn(pack, situation, "false")
        unsure == RequiredIn(pack, situation, "unknown")
    IN  /\ pc = "requirements"
        /\ unmet' = {<<r, "absent">> : r \in absent} \cup {<<r, "unknown">> : r \in unsure}
        /\ reasons' = CASE absent # {} -> {"missing-required-evidence"}
                        [] absent = {} /\ unsure # {} -> {"unknown"}
                        [] OTHER -> {}
        /\ Goto("exceptions")
        /\ UNCHANGED <<in, charged, scanned, direct, suppressed, forced, candidates, trace, chosen, complete>>

(* Steps 3 and 4, one exception at a time.                                 *)
EvaluateException ==
    LET x == pack.exceptions[at]
        t == Verdict(x.when, situation)
        is(effect) == t = "true" /\ x.effect = effect
        heard == {r \in {"unknown"} : t = "unknown" /\ x.onUnknown = "escalate"}
                 \cup {r \in {"exception-escalation"} : is("escalate")}
    IN  /\ pc = "exceptions" /\ at <= Len(pack.exceptions)
        /\ Pay(TreeUnits(x.when), Scans(x.when, situation))
        /\ IF Exhausted(TreeUnits(x.when))
           THEN Refuse /\ UNCHANGED <<at, reasons, direct, suppressed, forced, trace>>
           ELSE /\ reasons' = reasons \cup heard
                /\ direct' = (direct \/ is("escalate"))
                /\ suppressed' = suppressed \cup {r \in {x.targetRule} : is("suppress-rule")}
                /\ forced' = forced \cup {o \in {x.outcome} : is("force-outcome")}
                /\ trace' = Append(trace,
                     [Entry("exception", x.id, t) EXCEPT
                        !.effect = IF t = "true" THEN x.effect ELSE "none",
                        !.outcome = IF is("force-outcome") THEN x.outcome ELSE NoOutcome,
                        !.onUnknown = IF t = "unknown" THEN x.onUnknown ELSE "none"])
                /\ at' = at + 1
                /\ UNCHANGED <<pc, disposition>>
        /\ UNCHANGED <<in, candidates, unmet, chosen, complete>>

(* produce: with the opt-in the outcome's values are resolved first.       *)
Produce(outcome) ==
    IF in.outcomeValues
    THEN Goto("declaration") /\ chosen' = outcome
    ELSE Dispose("outcome", outcome, {}) /\ UNCHANGED chosen

(* Mutant: a forced outcome comes before what blocks it.                   *)
CombineForcedFirst ==
    LET retained == reasons \cup {r \in {"conflict"} : Cardinality(forced) > 1}
    IN  /\ pc = "exceptions" /\ at > Len(pack.exceptions)
        /\ reasons' = retained
        /\ CASE Cardinality(forced) = 1 -> \E outcome \in forced : Produce(outcome)
             [] Cardinality(forced) # 1 /\ retained # {} ->
                  Dispose("unresolved", NoOutcome, retained) /\ UNCHANGED chosen
             [] OTHER -> Goto("rules") /\ UNCHANGED chosen
        /\ UNCHANGED <<in, charged, scanned, direct, suppressed, forced, candidates, trace, unmet, complete>>

(* Steps 5 and 6: any blocking state stops here, and one forced outcome    *)
(* skips the rules.                                                        *)
CombineExceptions ==
    LET retained == reasons \cup {r \in {"conflict"} : Cardinality(forced) > 1}
        skipped == [i \in DOMAIN pack.rules |-> Entry("rule", pack.rules[i].id, "not-evaluated")]
    IN  /\ pc = "exceptions" /\ at > Len(pack.exceptions)
        /\ reasons' = retained
        /\ CASE retained # {} ->
                  Dispose("unresolved", NoOutcome, retained) /\ UNCHANGED <<trace, chosen>>
             [] retained = {} /\ forced # {} ->
                  /\ trace' = trace \o skipped
                  /\ \E outcome \in forced : Produce(outcome)
             [] OTHER -> Goto("rules") /\ UNCHANGED <<trace, chosen>>
        /\ UNCHANGED <<in, charged, scanned, direct, suppressed, forced, candidates, unmet, complete>>

(* Steps 6 to 8: a suppressed rule is visited and not evaluated.           *)
SkipRule ==
    LET x == pack.rules[at]
    IN  /\ pc = "rules" /\ at <= Len(pack.rules)
        /\ x.id \in suppressed
        /\ trace' = Append(trace, Entry("rule", x.id, "not-evaluated"))
        /\ at' = at + 1
        /\ UNCHANGED <<in, pc, charged, scanned, reasons, direct, suppressed, forced, candidates,
                       unmet, chosen, complete, disposition>>

EvaluateRule ==
    LET x == pack.rules[at]
        t == Verdict(x.when, situation)
    IN  /\ pc = "rules" /\ at <= Len(pack.rules)
        /\ x.id \notin suppressed
        /\ Pay(TreeUnits(x.when), Scans(x.when, situation))
        /\ IF Exhausted(TreeUnits(x.when))
           THEN Refuse /\ UNCHANGED <<at, reasons, candidates, trace>>
           ELSE /\ candidates' = candidates \cup {o \in {x.outcome} : t = "true"}
                /\ reasons' = reasons \cup {r \in {"unknown"} : t = "unknown" /\ x.onUnknown = "escalate"}
                /\ trace' = Append(trace,
                     [Entry("rule", x.id, t) EXCEPT
                        !.outcome = IF t = "true" THEN x.outcome ELSE NoOutcome,
                        !.onUnknown = IF t = "unknown" THEN x.onUnknown ELSE "none"])
                /\ at' = at + 1
                /\ UNCHANGED <<pc, disposition>>
        /\ UNCHANGED <<in, direct, suppressed, forced, unmet, chosen, complete>>

(* Steps 9 and 10.                                                         *)
CombineRules ==
    LET retained == reasons \cup {r \in {"conflict"} : Cardinality(candidates) > 1}
    IN  /\ pc = "rules" /\ at > Len(pack.rules)
        /\ CASE retained # {} ->
                  /\ Dispose("unresolved", NoOutcome, retained)
                  /\ reasons' = retained /\ UNCHANGED chosen
             [] retained = {} /\ candidates # {} ->
                  (\E outcome \in candidates : Produce(outcome)) /\ UNCHANGED reasons
             [] retained = {} /\ candidates = {} /\ pack.fallback # NoOutcome ->
                  Produce(pack.fallback) /\ UNCHANGED reasons
             [] OTHER ->
                  /\ Dispose("unresolved", NoOutcome, {"no-match"})
                  /\ reasons' = {"no-match"} /\ UNCHANGED chosen
        /\ UNCHANGED <<in, charged, scanned, direct, suppressed, forced, candidates, trace, unmet, complete>>

(* resolveValues: the search for the outcome and its declaration.          *)
DeclarationUnits(p, outcome) ==
    p.search + (IF p.values[outcome] = NoDeclaration THEN 0 ELSE p.values[outcome].units)
Sources(p, outcome) == IF p.values[outcome] = NoDeclaration THEN <<>> ELSE p.values[outcome].sources

ReadDeclaration ==
    /\ pc = "declaration"
    /\ Pay(DeclarationUnits(pack, chosen), {})
    /\ IF Exhausted(DeclarationUnits(pack, chosen)) THEN Refuse /\ UNCHANGED at ELSE Goto("values")
    /\ UNCHANGED <<in, reasons, direct, suppressed, forced, candidates, trace, unmet, chosen, complete>>

(* Every declared value is resolved, those after one that did not as well. *)
PointerUnits(p) == StepUnits(p, situation) + Compiling({p} \ scanned)

ResolveValue ==
    LET p == Sources(pack, chosen)[at]
        t == IF situation[p] = "true" THEN "resolved" ELSE "unresolved"
    IN  /\ pc = "values" /\ at <= Len(Sources(pack, chosen))
        /\ Pay(PointerUnits(p), {p})
        /\ IF Exhausted(PointerUnits(p))
           THEN Refuse /\ UNCHANGED <<at, trace, complete>>
           ELSE /\ complete' = (complete /\ t = "resolved")
                /\ trace' = Append(trace, [Entry("outcome-value", p, t) EXCEPT !.outcome = chosen])
                /\ at' = at + 1
                /\ UNCHANGED <<pc, disposition>>
        /\ UNCHANGED <<in, reasons, direct, suppressed, forced, candidates, unmet, chosen>>

(* One value that did not resolve withholds the outcome.                   *)
CarryValues ==
    /\ pc = "values" /\ at > Len(Sources(pack, chosen))
    /\ IF complete THEN Dispose("outcome", chosen, {}) /\ UNCHANGED reasons
       ELSE Dispose("unresolved", NoOutcome, {"unknown"}) /\ reasons' = {"unknown"}
    /\ UNCHANGED <<in, charged, scanned, direct, suppressed, forced, candidates, trace, unmet, chosen, complete>>

Next ==
    \/ Begin \/ Applicability \/ Requirements
    \/ EvaluateException \/ CombineExceptions
    \/ SkipRule \/ EvaluateRule \/ CombineRules
    \/ ReadDeclaration \/ ResolveValue \/ CarryValues

Spec == Init /\ [][Next]_vars

-----------------------------------------------------------------------------
(* What a pack says of a situation, without an order.                      *)

Members(seq) == {seq[i] : i \in DOMAIN seq}
Holding(S, s, t) == {x \in S : Verdict(x.when, s) = t}
With(S, effect) == {x \in S : x.effect = effect}
Escalating(S) == {x \in S : x.onUnknown = "escalate"}
Outcomes(S) == {x.outcome : x \in S}

Applies(p, s) == IF p.applicability = NoCond THEN "true" ELSE Verdict(p.applicability, s)
Forcing(p, s) == Outcomes(With(Holding(Members(p.exceptions), s, "true"), "force-outcome"))
Suppressing(p, s) ==
    {x.targetRule : x \in With(Holding(Members(p.exceptions), s, "true"), "suppress-rule")}
Asking(p, s) == With(Holding(Members(p.exceptions), s, "true"), "escalate") # {}
Live(p, s) == {x \in Members(p.rules) : x.id \notin Suppressing(p, s)}
Proposed(p, s) == Outcomes(Holding(Live(p, s), s, "true"))

Blocking(p, s) ==
    {r \in {"missing-required-evidence"} : RequiredIn(p, s, "false") # {}}
    \cup {r \in {"unknown"} : \/ RequiredIn(p, s, "false") = {} /\ RequiredIn(p, s, "unknown") # {}
                              \/ Escalating(Holding(Members(p.exceptions), s, "unknown")) # {}}
    \cup {r \in {"exception-escalation"} : Asking(p, s)}
    \cup {r \in {"conflict"} : Cardinality(Forcing(p, s)) > 1}
Undecided(p, s) ==
    {r \in {"unknown"} : Escalating(Holding(Live(p, s), s, "unknown")) # {}}
    \cup {r \in {"conflict"} : Cardinality(Proposed(p, s)) > 1}

Unresolved(p, s, why) == Disposition(p, "unresolved", NoOutcome, why, Asking(p, s))

Yield(p, s, carry, o) ==
    IF carry /\ \E i \in DOMAIN Sources(p, o) : s[Sources(p, o)[i]] # "true"
    THEN Unresolved(p, s, {"unknown"}) ELSE Disposition(p, "outcome", o, {}, FALSE)

Unblocked(p, s, carry) ==
    CASE Forcing(p, s) # {} -> Yield(p, s, carry, CHOOSE o \in Forcing(p, s) : TRUE)
      [] Forcing(p, s) = {} /\ Undecided(p, s) # {} -> Unresolved(p, s, Undecided(p, s))
      [] Forcing(p, s) = {} /\ Undecided(p, s) = {} /\ Proposed(p, s) # {} ->
           Yield(p, s, carry, CHOOSE o \in Proposed(p, s) : TRUE)
      [] OTHER -> IF p.fallback # NoOutcome THEN Yield(p, s, carry, p.fallback)
                  ELSE Unresolved(p, s, {"no-match"})

Declared(p, s, carry) ==
    CASE Applies(p, s) = "false" ->
           Disposition(p, "not-applicable", NoOutcome, {"not-applicable"}, FALSE)
      [] Applies(p, s) = "unknown" -> Disposition(p, "unresolved", NoOutcome, {"unknown"}, FALSE)
      [] OTHER -> IF Blocking(p, s) # {} THEN Unresolved(p, s, Blocking(p, s))
                  ELSE Unblocked(p, s, carry)

(* The conditions and pointers the walk comes to, and the work they are.   *)
Reached(p, s) ==
    {c \in {p.applicability} : c # NoCond}
    \cup (IF Applies(p, s) # "true" THEN {} ELSE {x.when : x \in Members(p.exceptions)})
RulesReached(p, s) ==
    Applies(p, s) = "true" /\ Blocking(p, s) = {} /\ Forcing(p, s) = {}
Produced(p, s) == Declared(p, s, FALSE).outcome
DeclaredWork(i) ==
    LET p == i.pack
        s == i.situation
        Of(S) == SumFunction([x \in S |-> Steps(x.when, s)])
        live == IF RulesReached(p, s) THEN Live(p, s) ELSE {}
        carry == i.outcomeValues /\ Produced(p, s) # NoOutcome
        sources == IF carry THEN Sources(p, Produced(p, s)) ELSE <<>>
        conditions == Reached(p, s) \cup {x.when : x \in live}
    IN  Iteration(p)
        + (IF p.applicability = NoCond THEN 0 ELSE Steps(p.applicability, s))
        + (IF Applies(p, s) = "true" THEN Of(Members(p.exceptions)) ELSE 0)
        + Of(live)
        + (IF carry THEN DeclarationUnits(p, Produced(p, s)) ELSE 0)
        + SumFunction([j \in DOMAIN sources |-> StepUnits(sources[j], s)])
        + Compiling(Members(sources) \cup UNION {Scans(c, s) : c \in conditions})

(* Mutant: every true rule and exception of the walk contributes.          *)
ContributorsAll ==
    IF disposition.kind # "outcome" THEN {}
    ELSE {[stage |-> e.stage, id |-> e.id] : e \in
             {e \in Members(trace) : e.condition = "true" /\ e.stage \in {"rule", "exception"}}}

(* outcomeContributors: what the completed walk attributes an outcome to.  *)
Contributors ==
    IF disposition.kind # "outcome" THEN {}
    ELSE {[stage |-> e.stage, id |-> e.id] : e \in
             {e \in Members(trace) :
                 /\ e.condition = "true" /\ e.outcome = disposition.outcome
                 /\ e.stage = "rule" \/ (e.stage = "exception" /\ e.effect = "force-outcome")}}

-----------------------------------------------------------------------------
(* Properties.                                                             *)

(* The walk's state keeps its shape, and there is a disposition exactly at *)
(* its end.                                                                *)
TypeOK ==
    /\ pc \in {"begin", "applicability", "requirements", "exceptions", "rules",
               "declaration", "values", "done", "error"}
    /\ at \in Nat \ {0}
    /\ direct \in BOOLEAN
    /\ pc = "done" <=> disposition # NoDisposition

(* The disposition is what the pack declares of the situation: the order   *)
(* of exceptions and rules, which the walk follows, decides nothing.       *)
ResultDeclared == pc = "done" => disposition = Declared(pack, situation, in.outcomeValues)

(* The work limit refuses exactly the evaluations whose declared work is   *)
(* above it, and a disposition is only reached with all of it charged.     *)
LimitDeclared ==
    /\ pc = "error" => DeclaredWork(in) > in.budget
    /\ pc = "done" => DeclaredWork(in) <= in.budget /\ charged = DeclaredWork(in)

(* A result in which nothing was unknown is settled: whatever of the       *)
(* situation was never known can become known without changing it.         *)
NothingUnknown ==
    /\ \A i \in DOMAIN trace : trace[i].condition \notin {"unknown", "unresolved"}
    /\ \A u \in unmet : u[2] # "unknown"
OutcomeSettled ==
    pc = "done" /\ NothingUnknown =>
        \A t \in Situation : Completes(situation, t) =>
            Declared(pack, t, in.outcomeValues) = disposition

(* What a result is put down to decides it: any one contributor of an      *)
(* outcome does without the others, and there is none exactly when the     *)
(* outcome is the fallback's; and a true exception that asks for a handoff *)
(* is heard in every applicable pack, and only routes that all filter out  *)
(* what was retained leave it without a destination.                       *)
Arranged(S) == CHOOSE seq \in [1 .. Cardinality(S) -> S] : Members(seq) = S
Keeping(p, x) ==
    LET others == Contributors \ {x}
        Kept(stage, S) == {e \in S : [stage |-> stage, id |-> e.id] \notin others}
    IN  [p EXCEPT !.exceptions = Arranged(Kept("exception", Members(p.exceptions))),
                  !.rules = Arranged(Kept("rule", Members(p.rules)))]
EscalationHeard ==
    /\ disposition.kind = "unresolved"
    /\ "exception-escalation" \in disposition.reasons
    /\ disposition.handoff.triggeredBy \subseteq disposition.reasons
    /\ disposition.handoff.state = "none" =>
         /\ Routed(pack)
         /\ \A r \in Members(pack.escalation.routes) :
                r.triggers # NoFilter /\ r.triggers \cap disposition.reasons = {}
ContributorsDecide ==
    /\ pc = "done" /\ disposition.kind = "outcome" =>
         /\ \A x \in Contributors : Declared(Keeping(pack, x), situation, in.outcomeValues) = disposition
         /\ Contributors = {} <=>
              Declared([pack EXCEPT !.fallback = NoOutcome], situation, in.outcomeValues).kind # "outcome"
    /\ pc = "done" /\ Applies(pack, situation) = "true" /\ Asking(pack, situation) => EscalationHeard
=============================================================================
