----------------------------- MODULE MCResolver -----------------------------
(* Small packs over small situations for TLC.                              *)
EXTENDS Advice

MCAtom == {"p", "q", "r", "e", "v"}
MCSituation == [MCAtom -> {"true", "false", "unknown"}]

MCId == {"x1", "x2", "r1", "r2", "r3"}
MCOutcome == {"yes", "no"}

(* A condition is an atom, its negation, or one of two.                    *)
MCCond == {<<"is", "p">>, <<"is", "q">>, <<"is", "r">>, <<"not", "q">>, <<"any", "p", "r">>}
Opposite == [t \in Tri |-> CASE t = "true" -> "false" [] t = "false" -> "true" [] OTHER -> t]
MCVerdict(c, s) ==
    CASE c[1] = "is" -> s[c[2]]
      [] c[1] = "not" -> Opposite[s[c[2]]]
      [] c[1] = "any" -> CASE "true" \in {s[c[2]], s[c[3]]} -> "true"
                           [] {s[c[2]], s[c[3]]} = {"false"} -> "false"
                           [] OTHER -> "unknown"
Read(c) == {c[i] : i \in 2..Len(c)}
MCSteps(c, s) ==
    IF c[1] = "is" THEN (IF s[c[2]] = "unknown" THEN 3 ELSE 4)
    ELSE 4 + Cardinality({x \in Read(c) : s[x] # "unknown"})
MCScans(c, s) == Read(c)
MCScanUnits(q) == IF q = "p" THEN 3 ELSE 2
MCStepUnits(q, s) == IF s[q] = "unknown" THEN 1 ELSE 3

Exception(i, c, effect, target, o, u) ==
    [id |-> i, when |-> c, effect |-> effect, targetRule |-> target, outcome |-> o, onUnknown |-> u]
Rule(i, c, o, u) == [id |-> i, when |-> c, outcome |-> o, onUnknown |-> u]
Unknowns == {"escalate", "ignore"}
Exceptions(i, c) ==
    {Exception(i, c, "suppress-rule", r, NoOutcome, u) : r \in {"r1", "r2"}, u \in Unknowns}
    \cup {Exception(i, c, "force-outcome", "r1", o, u) : o \in {"yes", "no"}, u \in Unknowns}
    \cup {Exception(i, c, "escalate", "r1", NoOutcome, u) : u \in Unknowns}

Route(t, filter) == [target |-> t, triggers |-> filter]
Target(triggers) == [triggers |-> triggers, routes |-> NoRoutes, target |-> "desk"]
Routes(triggers, routes) == [triggers |-> triggers, routes |-> routes, target |-> NoTarget]

Plain == [applicability |-> NoCond, requirements |-> <<>>, exceptions |-> <<>>, rules |-> <<>>,
          fallback |-> "yes", escalation |-> Target({"unknown", "conflict"}), search |-> 6,
          values |-> [o \in {"yes", "no"} |-> IF o = "no" THEN NoDeclaration
                                              ELSE [units |-> 5, sources |-> <<"v", "p", "v">>]]]

(* Exceptions in both orders beside two rules that agree or do not.        *)
Walks ==
    {[Plain EXCEPT !.exceptions = x,
                   !.rules = <<Rule("r1", <<"is", "r">>, "yes", u),
                               Rule("r2", <<"any", "p", "r">>, o, w)>>] :
        x \in {<<a>> : a \in Exceptions("x1", <<"is", "p">>)}
              \cup {<<a, b>> : a \in Exceptions("x1", <<"is", "p">>), b \in Exceptions("x2", <<"not", "q">>)},
        u \in Unknowns, w \in Unknowns, o \in {"yes", "no"}}

(* Applicability, requirements, values, handoffs and the limit.            *)
Proof(id, required) == [id |-> id, required |-> required]
Terminations ==
    {[Plain EXCEPT !.applicability = c, !.requirements = m, !.exceptions = x,
                   !.rules = <<Rule("r1", <<"is", "r">>, "yes", "escalate")>>,
                   !.fallback = f, !.escalation = g] :
        c \in {NoCond, <<"is", "p">>},
        m \in {<<>>, <<Proof("e", TRUE), Proof("q", FALSE)>>, <<Proof("q", TRUE), Proof("e", TRUE)>>},
        x \in {<<>>, <<Exception("x1", <<"is", "q">>, "escalate", "r1", NoOutcome, "ignore")>>},
        f \in {NoOutcome, "no"},
        g \in {NoEscalation, Routes({"no-match"}, <<Route("a", {"conflict"}), Route("b", NoFilter)>>),
               Routes({"unknown", "no-match"}, <<Route("a", {"unknown", "no-match"})>>)}}

(* Packs and domains for advice.                                           *)
Escalating1 == Exception("x1", <<"is", "p">>, "escalate", "r1", NoOutcome, "escalate")
Suppressing1 == Exception("x1", <<"is", "p">>, "suppress-rule", "r1", NoOutcome, "escalate")
Suppressing2 == Exception("x2", <<"not", "q">>, "suppress-rule", "r1", NoOutcome, "ignore")
Forcing1 == Exception("x1", <<"is", "p">>, "force-outcome", "r1", "yes", "escalate")
Forcing2(o) == Exception("x2", <<"not", "q">>, "force-outcome", "r1", o, "ignore")
TwoRules(o, u) ==
    <<Rule("r1", <<"is", "r">>, "yes", u), Rule("r2", <<"any", "p", "r">>, o, "ignore")>>
Advised ==
    {[Plain EXCEPT !.exceptions = x, !.rules = TwoRules(o, "escalate"), !.fallback = f] :
        x \in {<<>>, <<Escalating1>>, <<Suppressing1, Suppressing2>>, <<Forcing1, Forcing2("yes")>>,
               <<Forcing1, Forcing2("no")>>, <<Escalating1, Suppressing2>>, <<Suppressing1, Forcing2("no")>>},
        o \in {"yes", "no"}, f \in {NoOutcome, "yes"}}
    \cup {[Plain EXCEPT !.applicability = <<"is", "q">>, !.requirements = m, !.exceptions = x,
                       !.rules = Append(TwoRules("no", "ignore"), Rule("r3", <<"is", "p">>, "yes", "ignore"))] :
              m \in {<<Proof("e", TRUE), Proof("q", FALSE)>>, <<Proof("e", TRUE), Proof("r", TRUE)>>},
              x \in {<<>>, <<Forcing1>>}}

Knows(t, u, w) == [a \in MCAtom |->
    CASE a = "p" -> t [] a = "r" -> u [] a = "e" -> w [] OTHER -> "true"]
Inputs == {Knows("true", "true", "true"), Knows("true", "false", "true"), Knows("false", "true", "true"),
           Knows("false", "false", "true"), Knows("unknown", "false", "true"), Knows("false", "unknown", "unknown"),
           [Knows("false", "false", "false") EXCEPT !["q"] = "unknown"],
           Knows("unknown", "unknown", "false"),
           [Knows("true", "true", "true") EXCEPT !["q"] = "false"]}
Domains == {<<a>> : a \in Inputs} \cup {<<a, b>> : a \in Inputs, b \in Inputs}
Analysis(d, i, b, w, f) == [pack |-> d, domain |-> i, budget |-> b, maxWork |-> w, maxFindings |-> f]
MCAnalyses ==
    {Analysis(d, i, 1000, 1000, 9) : d \in Advised, i \in Domains}
    \cup {Analysis(d, <<a, Knows("true", "true", "true")>>, b[1], b[2], b[3]) : d \in Advised, a \in Inputs,
             b \in {<<1000, 1000, 1>>, <<1000, 1000, 2>>, <<1000, 1000, 3>>, <<1000, 17, 9>>, <<1000, 31, 9>>,
                    <<1000, 13, 2>>, <<27, 1000, 9>>}}

MCPacks == Walks \cup Terminations
MCBudgets == {14, 27, 1000}
MCConsidered(i) ==
    IF Len(i.pack.rules) = 2
    THEN ~i.outcomeValues /\ i.budget = 1000 /\ i.situation["e"] = "true" /\ i.situation["v"] = "true"
    ELSE IF i.situation["r"] = "true" THEN i.situation["e"] = "true" /\ i.situation["q"] # "unknown"
    ELSE i.situation["p"] = "true" /\ i.situation["v"] = "true"
=============================================================================
