------------------------------- MODULE Advice -------------------------------
(***************************************************************************)
(* The advice on a pack over a declared finite domain (packadvice          *)
(* analyze.go): each input is evaluated by the walk of module Resolver,    *)
(* what its trace shows becomes a finding with that input as its witness,  *)
(* and what the whole domain shows becomes a finding of every input.  Each *)
(* look is charged before it is taken.                                     *)
(*                                                                         *)
(* A source is a part of the pack and its place there.  The bytes of a     *)
(* report, whose ceiling ends it as MaxFindings does, and its wording are  *)
(* left out, as is the decoding of a domain.                               *)
(***************************************************************************)
EXTENDS Resolver, SequencesExt

CONSTANTS
    Analyses,           \* [pack, domain, budget, maxWork, maxFindings]
    MaxSources          \* of a finding about an exception that forces

VARIABLE advice

ASSUME AnalysisAssumption ==
    \A a \in Analyses : Len(a.domain) > 0 /\ a.maxWork > 0 /\ a.maxFindings > 0
ASSUME SourcesAssumption == MaxSources > 1

adviceVars == <<vars, advice>>

NoAdvice == [status |-> "off"]
domain == advice.asked.domain
Input == domain[advice.at]

-----------------------------------------------------------------------------
(* Limits and findings.                                                    *)

Finding(effect, sources, witness) == [effect |-> effect, sources |-> sources, witness |-> witness]
Source(part, i) == <<part, i>>
Root == Source("pack", 1)
AllInputs == [a \in {} |-> "unknown"]

OutputLimit(a) == [a EXCEPT !.limits = @ \cup {<<Root, "output-limit">>}]
Truncated(a) == <<Root, "output-limit">> \in a.limits

(* add: the last place is kept for what says the analysis is incomplete.   *)
AddFinding(a, f) ==
    CASE Truncated(a) -> a
      [] ~Truncated(a) /\ Len(a.findings) >= a.asked.maxFindings - 1 -> OutputLimit(a)
      [] OTHER -> [a EXCEPT !.findings = Append(@, f)]

(* observed: the first input to show a thing is its witness.               *)
Observed(a, f) ==
    IF <<f.effect, f.sources>> \in a.seen THEN a
    ELSE AddFinding([a EXCEPT !.seen = @ \cup {<<f.effect, f.sources>>}], f)

(* projection.                                                             *)
Incomplete == Finding("analysis-incomplete", <<>>, AllInputs)
Projection(a) == IF a.limits = {} THEN a.findings ELSE Append(a.findings, Incomplete)

-----------------------------------------------------------------------------
(* What one trace shows, in the order it is looked for.                    *)

RulesOf == DOMAIN pack.rules
ExceptionsOf == DOMAIN pack.exceptions

(* The trace's entry of a stage and an id; none for one not walked.        *)
Traced(stage, id) ==
    LET found == {e \in Members(trace) : e.stage = stage /\ e.id = id}
    IN  IF found = {} THEN Entry(stage, id, "none") ELSE CHOOSE e \in found : TRUE
RuleTrace(i) == Traced("rule", pack.rules[i].id)
ExceptionTrace(i) == Traced("exception", pack.exceptions[i].id)

(* A rule is not evaluated because it was skipped or was suppressed.       *)
Skipped(i) == RuleTrace(i).condition = "not-evaluated" /\ forced # {}
Suppressed(i) == RuleTrace(i).condition = "not-evaluated" /\ forced = {}

CandidateRules == {i \in RulesOf : RuleTrace(i).condition = "true"}
Agreeing(i, j) == {i, j} \subseteq CandidateRules /\ pack.rules[i].outcome = pack.rules[j].outcome

PairsOf(S) ==
    SetToSortSeq({<<i, j>> \in S \X S : i < j}, LAMBDA a, b : a[1] < b[1] \/ (a[1] = b[1] /\ a[2] < b[2]))

When(shown, effect, sources) == IF shown THEN <<Finding(effect, sources, Input)>> ELSE <<>>

(* Mutant: an outcome without a candidate rule is the fallback's.          *)
FellBackUnforced == disposition.kind = "outcome" /\ CandidateRules = {}

(* The fallback was reached, and not an outcome of its name.               *)
FellBack ==
    /\ disposition.kind = "outcome" /\ CandidateRules = {}
    /\ \A i \in ExceptionsOf : ExceptionTrace(i).effect # "force-outcome"

(* The rules a forced outcome bypasses, in groups of what one finding can  *)
(* name beside the exception.                                              *)
Bypassed(i) ==
    LET rules == SetToSortSeq({r \in RulesOf : Skipped(r)}, <)
        room == MaxSources - 1
        Group(g) == SubSeq(rules, (g - 1) * room + 1, Min({g * room, Len(rules)}))
    IN  [g \in 1..((Len(rules) + room - 1) \div room) |->
            Finding("force-bypasses-rules",
                    <<Source("exceptions", i)>> \o [k \in DOMAIN Group(g) |-> Source("rules", Group(g)[k])],
                    Input)]

ExceptionShows(i) ==
    LET x == pack.exceptions[i]
        effect == ExceptionTrace(i).effect
        targets == SetToSortSeq({r \in RulesOf : pack.rules[r].id = x.targetRule /\ Suppressed(r)}, <)
    IN  CASE effect = "escalate" -> When(TRUE, "direct-escalation", <<Source("exceptions", i)>>)
          [] effect = "force-outcome" -> Bypassed(i)
          [] effect = "suppress-rule" ->
               [k \in DOMAIN targets |->
                   Finding("suppression", <<Source("exceptions", i), Source("rules", targets[k])>>, Input)]
          [] OTHER -> <<>>

Forces(i) == ExceptionTrace(i).effect = "force-outcome"
Retained(r) == r \in disposition.reasons
Blocks(e) == Retained("unknown") /\ e.condition = "unknown" /\ e.onUnknown = "escalate"

(* Every look at one trace and what it finds, each for one unit.           *)
Looks ==
    LET n == Len(pack.rules)
        rulePairs == PairsOf(RulesOf)
        forcePairs == PairsOf(ExceptionsOf)
        absent == \E u \in unmet : u[2] = "absent"
    IN  [k \in 1..(2 * n + n * (n - 1)) |-> <<>>]
        \o [k \in DOMAIN rulePairs |->
              When(Agreeing(rulePairs[k][1], rulePairs[k][2]), "compatible-agreement",
                   <<Source("rules", rulePairs[k][1]), Source("rules", rulePairs[k][2])>>)]
        \o <<When(FellBack, "fallback-reachable", <<>>) \o When(Retained("no-match"), "no-match-reachable", <<>>)>>
        \o [i \in ExceptionsOf |-> ExceptionShows(i)]
        \o [k \in DOMAIN forcePairs |->
              When(\A i \in {forcePairs[k][1], forcePairs[k][2]} : Forces(i)
                     /\ ExceptionTrace(forcePairs[k][1]).outcome # ExceptionTrace(forcePairs[k][2]).outcome,
                   "forced-conflict", <<Source("exceptions", forcePairs[k][1]),
                                        Source("exceptions", forcePairs[k][2])>>)]
        \o <<When(Retained("unknown") /\ Traced("applicability", NoCond).condition = "unknown",
                  "unknown-blocks-resolution", <<Source("applicability", 1)>>)>>
        \o [i \in RulesOf |-> When(Blocks(RuleTrace(i)), "unknown-blocks-resolution", <<Source("rules", i)>>)]
        \o [i \in ExceptionsOf |->
              When(Blocks(ExceptionTrace(i)), "unknown-blocks-resolution", <<Source("exceptions", i)>>)]
        \o [i \in DOMAIN pack.requirements |->
              When(Retained("unknown") /\ ~absent /\ <<pack.requirements[i].id, "unknown">> \in unmet,
                   "unknown-blocks-resolution", <<Source("requirements", i)>>)]

-----------------------------------------------------------------------------
(* The analysis.                                                           *)

AdviceInit ==
    \/ Init /\ advice = NoAdvice
    \/ \E a \in Analyses :
          /\ in = [pack |-> a.pack, situation |-> a.domain[1], outcomeValues |-> FALSE, budget |-> a.budget]
          /\ Start
          /\ advice = [status |-> "asking", asked |-> a, at |-> 1, work |-> 0, findings |-> <<>>,
                       limits |-> {}, seen |-> {},
                       contributed |-> {}, everTrue |-> {}, unread |-> {}, needed |-> {}, cover |-> {},
                       allChecked |-> TRUE]

(* charge: nothing more is looked for once the work is used up.            *)
Stop(a) == [a EXCEPT !.status = "concluding", !.allChecked = FALSE,
                     !.work = a.asked.maxWork, !.limits = @ \cup {<<Root, "work-limit">>}]

(* The next input, from the beginning of a walk.                           *)
Ask ==
    /\ advice.status = "asking"
    /\ CASE advice.at > Len(domain) ->
              advice' = [advice EXCEPT !.status = "concluding"] /\ UNCHANGED vars
         [] advice.at <= Len(domain) /\ advice.work = advice.asked.maxWork ->
              advice' = Stop(advice) /\ UNCHANGED vars
         [] OTHER ->
              /\ advice' = [advice EXCEPT !.status = "walking", !.work = @ + 1]
              /\ in' = [in EXCEPT !.situation = Input]
              /\ pc' = "begin" /\ at' = 1
              /\ charged' = 0 /\ scanned' = {}
              /\ reasons' = {} /\ direct' = FALSE
              /\ suppressed' = {} /\ forced' = {} /\ candidates' = {}
              /\ trace' = <<>> /\ unmet' = {}
              /\ chosen' = NoOutcome /\ complete' = TRUE
              /\ disposition' = NoDisposition

(* What the universal findings need of every input.                        *)
Counted(a) ==
    [a EXCEPT !.contributed = @ \cup CandidateRules,
              !.everTrue = @ \cup CandidateRules,
              !.unread = @ \cup {i \in RulesOf : RuleTrace(i).condition \in {"none", "not-evaluated"}},
              !.needed = @ \cup {i \in CandidateRules : \A j \in RulesOf \ {i} : ~Agreeing(i, j)},
              !.cover = @ \cup {<<i, j>> \in RulesOf \X RulesOf : i # j /\ Agreeing(i, j)}]

(* The looks the work is left for, and their findings.                     *)
Look ==
    /\ advice.status = "walking" /\ pc = "done"
    /\ \E looks \in {Looks} : \E looked \in {Min({Len(looks), advice.asked.maxWork - advice.work})} :
       \E found \in {FoldLeft(Observed, advice, FlattenSeq(SubSeq(looks, 1, looked)))} :
          advice' = IF looked < Len(looks) THEN Stop(found)
                    ELSE [Counted(found) EXCEPT !.status = "asking", !.at = @ + 1, !.work = @ + looked]
    /\ UNCHANGED vars

(* An evaluation that failed leaves no report.                             *)
GiveUp ==
    /\ advice.status = "walking" /\ pc = "error"
    /\ advice' = [advice EXCEPT !.status = "refused"]
    /\ UNCHANGED vars

(* What is found of one rule over the whole domain.                        *)
RuleConclusion(a, i) ==
    LET rule == <<Source("rules", i)>>
        others == SetToSortSeq({j \in RulesOf : <<i, j>> \in a.cover}, <)
        unreached ==
            CASE i \in a.everTrue -> a
              [] i \notin a.everTrue /\ i \in a.unread ->
                   [a EXCEPT !.limits = @ \cup {<<Source("rules", i), "unsupported-condition">>}]
              [] OTHER -> AddFinding(a, Finding("condition-never-true", rule, AllInputs))
    IN  CASE i \notin a.contributed ->
               AddFinding(unreached, Finding("never-contributes", rule, AllInputs))
          [] i \in a.contributed /\ i \notin a.needed ->
               AddFinding(unreached,
                   Finding("outcome-redundancy",
                           rule \o [k \in DOMAIN others |-> Source("rules", others[k])], AllInputs))
          [] OTHER -> unreached

(* Nothing is said of every input when one was not looked at.              *)
Conclude ==
    /\ advice.status = "concluding"
    /\ \E a \in {IF advice.allChecked
                 THEN FoldLeft(RuleConclusion, advice, [i \in RulesOf |-> i]) ELSE advice} :
          advice' = [a EXCEPT !.status = "reported", !.findings = Projection(a)]
    /\ UNCHANGED vars

AdviceNext ==
    \/ advice.status \in {"off", "walking"} /\ Next /\ UNCHANGED advice
    \/ Ask \/ Look \/ GiveUp \/ Conclude

AdviceSpec == AdviceInit /\ [][AdviceNext]_adviceVars

-----------------------------------------------------------------------------
(* What a finding claims, said of the pack and the domain.                 *)

Domain == Members(domain)
Contributes(i, s) == RulesReached(pack, s) /\ pack.rules[i] \in Holding(Live(pack, s), s, "true")
OutcomeHere(p, s) == Declared(p, s, FALSE)
Without(seq, i) == SubSeq(seq, 1, i - 1) \o SubSeq(seq, i + 1, Len(seq))
FiresAt(i, s) ==
    Applies(pack, s) = "true" /\ pack.exceptions[i] \in Holding(Members(pack.exceptions), s, "true")
UnknownAt(source, s) ==
    LET i == source[2]
        Escalates(e) == Verdict(e.when, s) = "unknown" /\ e.onUnknown = "escalate"
    IN  CASE source[1] = "applicability" -> Applies(pack, s) = "unknown"
          [] source[1] = "rules" ->
               RulesReached(pack, s) /\ pack.rules[i] \in Live(pack, s) /\ Escalates(pack.rules[i])
          [] source[1] = "exceptions" -> Applies(pack, s) = "true" /\ Escalates(pack.exceptions[i])
          [] OTHER -> /\ Applies(pack, s) = "true"
                      /\ RequiredIn(pack, s, "false") = {}
                      /\ pack.requirements[i].id \in RequiredIn(pack, s, "unknown")

(* One input shows it.                                                     *)
Shows(effect, src, s) ==
    LET one == src[1][2]
        two == src[2][2]
    IN  CASE effect = "compatible-agreement" ->
               Contributes(one, s) /\ Contributes(two, s) /\ pack.rules[one].outcome = pack.rules[two].outcome
          [] effect = "fallback-reachable" ->
               /\ OutcomeHere(pack, s).kind = "outcome"
               /\ OutcomeHere([pack EXCEPT !.fallback = NoOutcome], s).kind # "outcome"
          [] effect = "no-match-reachable" ->
               /\ OutcomeHere(pack, s).kind # "outcome"
               /\ \A o \in Outcome : OutcomeHere([pack EXCEPT !.fallback = o], s).outcome = o
          [] effect = "direct-escalation" -> FiresAt(one, s) /\ pack.exceptions[one].effect = "escalate"
          [] effect = "force-bypasses-rules" ->
               /\ FiresAt(one, s) /\ pack.exceptions[one].effect = "force-outcome"
               /\ OutcomeHere(pack, s).outcome = pack.exceptions[one].outcome
               /\ Len(src) \in 2..MaxSources
          [] effect = "suppression" ->
               /\ FiresAt(one, s) /\ RulesReached(pack, s)
               /\ pack.exceptions[one].effect = "suppress-rule"
               /\ pack.exceptions[one].targetRule = pack.rules[two].id
          [] effect = "forced-conflict" ->
               /\ \A i \in {one, two} : FiresAt(i, s) /\ pack.exceptions[i].effect = "force-outcome"
               /\ pack.exceptions[one].outcome # pack.exceptions[two].outcome
          [] effect = "unknown-blocks-resolution" -> UnknownAt(src[1], s)

(* Every input shows it: a condition true on none, a rule whose outcome    *)
(* could be any, a rule that could go wherever it is true.                 *)
HoldsOfAll(effect, src) ==
    LET i == src[1][2]
    IN  CASE effect = "condition-never-true" -> \A s \in Domain : Verdict(pack.rules[i].when, s) # "true"
          [] effect = "never-contributes" ->
               \A s \in Domain, o \in Outcome :
                   OutcomeHere([pack EXCEPT !.rules[i].outcome = o], s) = OutcomeHere(pack, s)
          [] effect = "outcome-redundancy" ->
               /\ \E s \in Domain : Contributes(i, s)
               /\ \A s \in Domain : Contributes(i, s) =>
                     OutcomeHere([pack EXCEPT !.rules = Without(@, i)], s) = OutcomeHere(pack, s)
               /\ Members(Tail(src)) = {Source("rules", j) :
                     j \in {k \in RulesOf \ {i} : \E s \in Domain :
                               Contributes(i, s) /\ Contributes(k, s) /\ pack.rules[i].outcome = pack.rules[k].outcome}}

(* All there is to be shown.                                               *)
SourcePairs(part, S) == {<<Source(part, i), Source(part, j)>> : <<i, j>> \in {p \in S \X S : p[1] < p[2]}}
Showable ==
    ({"compatible-agreement"} \X SourcePairs("rules", RulesOf))
    \cup ({"fallback-reachable", "no-match-reachable"} \X {<<>>})
    \cup ({"direct-escalation"} \X {<<Source("exceptions", i)>> : i \in ExceptionsOf})
    \cup ({"suppression"} \X {<<Source("exceptions", i), Source("rules", j)>> : i \in ExceptionsOf, j \in RulesOf})
    \cup ({"forced-conflict"} \X SourcePairs("exceptions", ExceptionsOf))
    \cup ({"unknown-blocks-resolution"} \X
            {<<s>> : s \in {Source("applicability", 1)} \cup {Source("rules", i) : i \in RulesOf}
                           \cup {Source("exceptions", i) : i \in ExceptionsOf}
                           \cup {Source("requirements", i) : i \in DOMAIN pack.requirements}})

Reported == {<<f.effect, f.sources>> : f \in Members(advice.findings)}
Universal == {"condition-never-true", "never-contributes", "outcome-redundancy"}
BypassReported(i, j) ==
    \E f \in Members(advice.findings) : f.effect = "force-bypasses-rules"
        /\ Head(f.sources) = Source("exceptions", i) /\ Source("rules", j) \in Members(Tail(f.sources))

EverythingSaid ==
    /\ \A x \in Showable : (\E s \in Domain : Shows(x[1], x[2], s)) => x \in Reported
    /\ \A i \in ExceptionsOf, j \in RulesOf :
          (\E s \in Domain : Shows("force-bypasses-rules", <<Source("exceptions", i), Source("rules", j)>>, s))
              => BypassReported(i, j)
    /\ \A i \in RulesOf :
          /\ (\A s \in Domain : ~Contributes(i, s)) <=> <<"never-contributes", <<Source("rules", i)>>>> \in Reported
          /\ \/ <<"condition-never-true", <<Source("rules", i)>>>> \in Reported
             \/ <<Source("rules", i), "unsupported-condition">> \in advice.limits
             \/ \E s \in Domain : Contributes(i, s)
          /\ <<Source("rules", i), "unsupported-condition">> \in advice.limits =>
                \E s \in Domain : ~RulesReached(pack, s) \/ pack.rules[i] \notin Live(pack, s)

(* The work of a domain, whatever its inputs show.                         *)
DomainWork ==
    LET n == Len(pack.rules)
        m == Len(pack.exceptions)
    IN  Len(domain) * (3 + 3 * n + n * (n - 1) + (n * (n - 1)) \div 2
                       + 2 * m + (m * (m - 1)) \div 2 + Len(pack.requirements))

(* A report says of a domain only what its inputs, taken by the pack's     *)
(* declarations, show, and of every input only what all of them were       *)
(* looked at for; one that says it is complete has left nothing out; it    *)
(* never has more findings than it may, and whether it was cut by the work *)
(* depends on how much is declared and not on what is found.               *)
DomainAdviceTrue ==
    advice.status = "reported" =>
        /\ \A f \in Members(advice.findings) \ {Incomplete} :
              IF f.effect \in Universal THEN advice.allChecked /\ HoldsOfAll(f.effect, f.sources)
              ELSE f.witness \in Domain /\ Shows(f.effect, f.sources, f.witness)
        /\ advice.limits = {} <=> Incomplete \notin Members(advice.findings)
        /\ advice.allChecked /\ ~Truncated(advice) => EverythingSaid
        /\ Len(advice.findings) <= advice.asked.maxFindings
        /\ Truncated(advice) => Len(advice.findings) = advice.asked.maxFindings
        /\ advice.allChecked <=> DomainWork <= advice.asked.maxWork
=============================================================================
