----------------------------- MODULE Conditions -----------------------------
(***************************************************************************)
(* Conditions of a pack over three truth values (internal/evaluation       *)
(* condition.go, quantifier.go): what a tree evaluates to, which leaves an *)
(* unknown is put down to, and the work that is charged before the first   *)
(* predicate of a tree runs.  One evaluator serves the stages of one       *)
(* evaluation, so the charge and the pointers already compiled carry over  *)
(* from a stage to the next.                                               *)
(*                                                                         *)
(* A document is a function from pointers to the values they select, and   *)
(* the elements of an array are such documents too.  A value keeps its     *)
(* type, its text, the number it denotes (NotDecimal when it is no         *)
(* decimal), the length of its token and, for an array, its elements.      *)
(***************************************************************************)
EXTENDS Integers, Sequences, SequencesExt, FiniteSetsExt

CONSTANTS
    Pointer,        \* the authored JSON Pointers
    PathLen,        \* the bytes of a pointer
    Tokens,         \* its reference tokens
    TokenBytes,     \* the bytes of those tokens
    NameLen,        \* the bytes of each evidence requirement's id
    NoPointer,      \* no path, or no enclosing collection
    NoRequirement,
    NotDecimal,
    Supply,         \* the values a pointer may come to select
    Inputs,         \* stages, facts and evidence: [stages, facts, evidence]
    Budgets         \* the work limits

VARIABLES
    input,      \* the stages to evaluate, and over what
    budget,     \* the work limit in force
    work,       \* the evaluator: charged, exceeded, pointers compiled
    answers     \* what evaluateStage returned, stage by stage

vars == <<input, budget, work, answers>>

Tri == {"true", "false", "unknown"}
Negation(t) == CASE t = "true" -> "false" [] t = "false" -> "true" [] OTHER -> t
Truth(b) == IF b THEN "true" ELSE "false"

ASSUME PointerAssumption ==
    /\ NoPointer \notin Pointer
    /\ \A p \in Pointer : PathLen[p] \in Nat /\ Tokens[p] \in Nat /\ TokenBytes[p] \in Nat

-----------------------------------------------------------------------------
(* Values.                                                                 *)

Resolves(root, p) == root[p].type # "absent"

(* jsonEqual: never across types; numbers by value, strings by text.       *)
RECURSIVE JsonEqual(_, _)
JsonEqual(v, w) ==
    /\ v.type = w.type
    /\ CASE v.type = "number" -> v.num = w.num
         [] v.type = "array" ->
              /\ Len(v.items) = Len(w.items)
              /\ \A i \in DOMAIN v.items : \A p \in Pointer :
                     JsonEqual(v.items[i][p], w.items[i][p])
         [] OTHER -> v.text = w.text

(* decimalCompare is defined on two strings that denote decimals, only.    *)
Comparable(v, w) ==
    /\ v.type = "string" /\ w.type = "string"
    /\ v.num # NotDecimal /\ w.num # NotDecimal

OrderedOperators == {"greater-than", "greater-than-or-equal", "less-than", "less-than-or-equal"}
Ordered(operator, m, n) ==
    CASE operator = "greater-than" -> m > n
      [] operator = "greater-than-or-equal" -> m >= n
      [] operator = "less-than" -> m < n
      [] operator = "less-than-or-equal" -> m <= n

(* valueUnits: one for a node, and the bytes of a token or a member name.  *)
RECURSIVE ValueUnits(_)
ValueUnits(v) ==
    CASE v.type = "array" ->
           LET ElementUnits(e) ==
                   1 + MapThenSumSet(LAMBDA p : TokenBytes[p] + ValueUnits(e[p]),
                                     {p \in Pointer : Resolves(e, p)})
           IN  1 + FoldLeft(LAMBDA n, e : n + ElementUnits(e), 0, v.items)
      [] v.type \in {"string", "number"} -> 1 + v.len
      [] OTHER -> 1

OperandUnits(c) ==
    FoldLeft(LAMBDA n, v : n + ValueUnits(v), IF c.operator = "in" THEN 1 ELSE 0, c.values)

-----------------------------------------------------------------------------
(* Evaluation.                                                             *)

Cause(p, r, why) == [path |-> p, within |-> NoPointer, requirement |-> r, cause |-> why]
Answer(t, causes) == [verdict |-> t, causes |-> causes]
Known(b) == Answer(Truth(b), {})

(* Mutant: what was overridden is kept as well.                            *)
KeepCausesAlways(t, causes) == Answer(t, causes)

(* keepCausesIf: what a verdict that is not unknown overrode caused nothing. *)
KeepCausesIf(t, causes) == Answer(t, IF t = "unknown" THEN causes ELSE {})

(* Mutant: an unknown child is passed over.                                *)
CombinedPassingOver(kids, dominant) ==
    Answer(IF \E i \in DOMAIN kids : kids[i].verdict = dominant THEN dominant ELSE Negation(dominant), {})

(* all, any and quantify: the dominant value decides on sight, and an      *)
(* unknown decides nothing before every child was seen.                    *)
Combined(kids, dominant) ==
    LET seen == {kids[i].verdict : i \in DOMAIN kids}
        t == CASE dominant \in seen -> dominant
               [] dominant \notin seen /\ "unknown" \in seen -> "unknown"
               [] OTHER -> Negation(dominant)
    IN  KeepCausesIf(t, UNION {kids[i].causes : i \in DOMAIN kids})

EvalFact(c, root) ==
    LET v == root[c.path]
        w == c.values[1]
    IN  CASE ~Resolves(root, c.path) ->
               Answer("unknown", {Cause(c.path, NoRequirement, "absent")})
          [] Resolves(root, c.path) /\ c.operator \in OrderedOperators ->
               IF Comparable(v, w) THEN Known(Ordered(c.operator, v.num, w.num))
               ELSE Answer("unknown", {Cause(c.path, NoRequirement, "not-comparable")})
          [] OTHER -> Known((\E i \in DOMAIN c.values : JsonEqual(v, c.values[i]))
                            <=> c.operator # "not-equals")

(* selectArray, and the cause it holds until the elements' are labelled.   *)
Selected(c, root) == IF root[c.path].type = "array" THEN root[c.path].items ELSE <<>>
CollectionFailure(c, root) ==
    IF root[c.path].type = "array" THEN {}
    ELSE {Cause(c.path, NoRequirement,
                IF Resolves(root, c.path) THEN "not-an-array" ELSE "absent")}

(* Mutant: the first member without the value ends the pass.               *)
UniformStopping(c, root) ==
    LET members == Selected(c, root)
        Differs(n) == \E i, j \in 1..n : ~JsonEqual(members[i][c.at], members[j][c.at])
        Lacks(n) == ~Resolves(members[n], c.at)
    IN  CASE \E n \in DOMAIN members : Lacks(n) /\ ~Differs(n - 1) ->
               Answer("unknown", {Cause(c.at, NoRequirement, "absent")})
          [] OTHER -> Known(\A i, j \in DOMAIN members : JsonEqual(members[i][c.at], members[j][c.at]))

(* uniform: two values that differ dominate one that is missing.           *)
Uniform(c, root) ==
    LET members == Selected(c, root)
        has == {i \in DOMAIN members : Resolves(members[i], c.at)}
    IN  CASE \E i, j \in has : ~JsonEqual(members[i][c.at], members[j][c.at]) -> Known(FALSE)
          [] has = DOMAIN members -> Known(TRUE)
          [] OTHER -> Answer("unknown", {Cause(c.at, NoRequirement, "absent")})

(* withinCollection: the innermost collection names an element's leaf.     *)
WithinCollection(c, root, answer) ==
    LET labelled == {IF k.within = NoPointer /\ k.path # NoPointer
                     THEN [k EXCEPT !.within = c.path] ELSE k : k \in answer.causes}
        failure == CollectionFailure(c, root)
    IN  IF failure = {} THEN KeepCausesIf(answer.verdict, labelled)
        ELSE Answer("unknown", failure)

RECURSIVE Condition(_, _, _)
Condition(c, root, evidence) ==
    LET Kid(k) == Condition(k, root, evidence)
        Kids == [i \in DOMAIN c.conditions |-> Kid(c.conditions[i])]
        Elements == [i \in DOMAIN Selected(c, root) |->
                        Condition(c.where, Selected(c, root)[i], evidence)]
    IN  CASE c.op = "literal" -> Known(c.value)
          [] c.op = "all" -> Combined(Kids, "false")
          [] c.op = "any" -> Combined(Kids, "true")
          [] c.op = "not" -> Answer(Negation(Kid(c.condition).verdict), Kid(c.condition).causes)
          [] c.op = "fact" -> EvalFact(c, root)
          [] c.op = "evidence-present" ->
               IF evidence[c.requirement] # "unknown" THEN Answer(evidence[c.requirement], {})
               ELSE Answer("unknown", {Cause(NoPointer, c.requirement, "unknown")})
          [] c.op = "exists" -> WithinCollection(c, root, Combined(Elements, "true"))
          [] c.op = "every" -> WithinCollection(c, root, Combined(Elements, "false"))
          [] c.op = "uniform" -> WithinCollection(c, root, Uniform(c, root))

-----------------------------------------------------------------------------
(* The charge.                                                             *)

(* charge: nothing more is charged once the limit was passed.              *)
Charge(w, units) ==
    IF w.exceeded THEN w
    ELSE [w EXCEPT !.charged = @ + units, !.exceeded = w.charged + units > budget]

ScanUnits(p) == 1 + PathLen[p]
StepUnits(p) == (IF Tokens[p] < 1 THEN 1 ELSE Tokens[p]) + TokenBytes[p]

(* Mutant: the scan is charged at every resolution.                        *)
ChargePointerUncached(w, p) == Charge(Charge(w, ScanUnits(p)), StepUnits(p))

(* chargePointer: the scan once for each distinct pointer, the steps at    *)
(* every resolution.                                                       *)
ChargePointer(w, p) ==
    LET scan == IF p \in w.scanned THEN w ELSE Charge(w, ScanUnits(p))
    IN  IF scan.exceeded THEN scan
        ELSE Charge([scan EXCEPT !.scanned = @ \cup {p}], StepUnits(p))

SelectedUnits(c, root) ==
    IF Resolves(root, c.path)
    THEN ValueUnits(root[c.path]) * (IF c.operator = "in" THEN Len(c.values) ELSE 1)
    ELSE 0

(* A uniform's members: each one's pointer and value, then a reread of the *)
(* largest value for each comparison.                                      *)
ChargeUniform(w, c, root) ==
    LET members == Selected(c, root)
        units == {ValueUnits(members[i][c.at]) :
                     i \in {j \in DOMAIN members : Resolves(members[j], c.at)}}
        resolved == Cardinality({j \in DOMAIN members : Resolves(members[j], c.at)})
        Member(x, m) ==
            LET y == ChargePointer(x, c.at)
            IN  IF Resolves(m, c.at) THEN Charge(y, ValueUnits(m[c.at])) ELSE y
        passed == FoldLeft(Member, w, members)
    IN  IF resolved > 1 THEN Charge(passed, (resolved - 1) * Max(units)) ELSE passed

RECURSIVE Preflight(_, _, _)
Preflight(w, c, root) ==
    LET visited == Charge(w, 1)
    IN  CASE c.op = "not" -> Preflight(visited, c.condition, root)
          [] c.op \in {"all", "any"} ->
               FoldLeft(LAMBDA x, k : Preflight(x, k, root), visited, c.conditions)
          [] c.op = "fact" ->
               Charge(ChargePointer(visited, c.path), SelectedUnits(c, root) + OperandUnits(c))
          [] c.op = "evidence-present" -> Charge(w, 1 + NameLen[c.requirement])
          [] c.op \in {"exists", "every"} ->
               FoldLeft(LAMBDA x, e : Preflight(x, c.where, e),
                        ChargePointer(visited, c.path), Selected(c, root))
          [] c.op = "uniform" -> ChargeUniform(ChargePointer(visited, c.path), c, root)
          [] OTHER -> visited

-----------------------------------------------------------------------------

Init ==
    /\ input \in Inputs
    /\ budget \in Budgets
    /\ work = [charged |-> 0, exceeded |-> FALSE, scanned |-> {}]
    /\ answers = <<>>

(* evaluateStage: the whole charge of a tree, and only then its verdict.   *)
EvaluateStage ==
    LET i == Len(answers) + 1
        c == input.stages[i]
        w == Preflight(work, c, input.facts)
    IN  /\ i <= Len(input.stages)
        /\ ~work.exceeded
        /\ work' = w
        /\ answers' = Append(answers, IF w.exceeded THEN Answer("unknown", {})
                                      ELSE Condition(c, input.facts, input.evidence))
        /\ UNCHANGED <<input, budget>>

Next == EvaluateStage
Spec == Init /\ [][Next]_vars

-----------------------------------------------------------------------------
(* The work of a tree, as a sum that knows no order, no stop and no cache. *)

Values(c, root) ==
    {i \in DOMAIN Selected(c, root) : Resolves(Selected(c, root)[i], c.at)}

RECURSIVE DeclaredSteps(_, _)
DeclaredSteps(c, root) ==
    LET OverKids(kids) == MapThenSumSet(LAMBDA i : DeclaredSteps(kids[i], root), DOMAIN kids)
        members == Selected(c, root)
        Units(i) == ValueUnits(members[i][c.at])
    IN  1 + CASE c.op = "not" -> DeclaredSteps(c.condition, root)
              [] c.op \in {"all", "any"} -> OverKids(c.conditions)
              [] c.op = "fact" -> StepUnits(c.path) + SelectedUnits(c, root) + OperandUnits(c)
              [] c.op = "evidence-present" -> NameLen[c.requirement]
              [] c.op \in {"exists", "every"} ->
                   StepUnits(c.path)
                   + MapThenSumSet(LAMBDA i : DeclaredSteps(c.where, members[i]), DOMAIN members)
              [] c.op = "uniform" ->
                   StepUnits(c.path) + Len(members) * StepUnits(c.at)
                   + MapThenSumSet(Units, Values(c, root))
                   + (IF Cardinality(Values(c, root)) < 2 THEN 0
                      ELSE (Cardinality(Values(c, root)) - 1) * Max({Units(i) : i \in Values(c, root)}))
              [] OTHER -> 0

RECURSIVE Resolved(_, _)
Resolved(c, root) ==
    LET members == Selected(c, root)
    IN  CASE c.op = "not" -> Resolved(c.condition, root)
          [] c.op \in {"all", "any"} ->
               UNION {Resolved(c.conditions[i], root) : i \in DOMAIN c.conditions}
          [] c.op = "fact" -> {c.path}
          [] c.op \in {"exists", "every"} ->
               {c.path} \cup UNION {Resolved(c.where, members[i]) : i \in DOMAIN members}
          [] c.op = "uniform" -> {c.path} \cup (IF members = <<>> THEN {} ELSE {c.at})
          [] OTHER -> {}

DeclaredWork(stages, facts) ==
    MapThenSumSet(LAMBDA i : DeclaredSteps(stages[i], facts), DOMAIN stages)
    + MapThenSumSet(ScanUnits, UNION {Resolved(stages[i], facts) : i \in DOMAIN stages})

-----------------------------------------------------------------------------
(* Supplying what was missing.  A spot is a pointer of the facts, a        *)
(* pointer of an element of one of their arrays, or a requirement.         *)

Spot(p, i, q) == [pointer |-> p, element |-> i, within |-> q]
At(facts, s) == IF s.element = 0 THEN facts[s.pointer] ELSE facts[s.within].items[s.element][s.pointer]
AllSpots(facts) ==
    {Spot(p, 0, NoPointer) : p \in Pointer}
    \cup UNION {{Spot(p, i, q) : p \in Pointer, i \in DOMAIN facts[q].items} :
                q \in {r \in Pointer : facts[r].type = "array"}}
Missing(facts) == {s \in AllSpots(facts) : At(facts, s).type = "absent"}

Put(facts, s, v) ==
    IF s.element = 0 THEN [facts EXCEPT ![s.pointer] = v]
    ELSE [facts EXCEPT ![s.within].items[s.element][s.pointer] = v]
PutAll(facts, choice) ==
    FoldSet(LAMBDA s, f : Put(f, s, choice[s]), facts, DOMAIN choice)

(* The spots a recorded cause names, and every way to supply them.         *)
Named(k, facts) ==
    {s \in AllSpots(facts) :
        /\ s.pointer = k.path
        /\ s.within = k.within
        /\ CASE k.cause = "absent" -> At(facts, s).type = "absent"
             [] k.cause = "not-comparable" ->
                  /\ At(facts, s).type # "absent"
                  /\ At(facts, s).num = NotDecimal \/ At(facts, s).type # "string"
             [] OTHER -> TRUE}
Supplies(spots) ==
    {c \in [spots -> UNION {Supply[s.pointer] : s \in spots}] : \A s \in spots : c[s] \in Supply[s.pointer]}
Requirements(causes) == {k.requirement : k \in causes} \ {NoRequirement}
Stated(evidence, presence) ==
    [r \in DOMAIN evidence |-> IF r \in DOMAIN presence THEN presence[r] ELSE evidence[r]]

(* Supplying a collection supplies all that is read through it: elements   *)
(* that have every member, and the evidence a predicate on them asks for.  *)
Through(causes, in) ==
    IF \E k \in causes : k.path # NoPointer /\ \E v \in Supply[k.path] : v.type = "array"
    THEN DOMAIN in.evidence ELSE {}

(* The verdicts a tree may come to have once these causes are supplied.    *)
VerdictsWithout(causes, requirements, c, in) ==
    {Condition(c, PutAll(in.facts, choice), Stated(in.evidence, presence)).verdict :
        choice \in Supplies(UNION {Named(k, in.facts) : k \in causes}),
        presence \in [requirements -> {"true", "false"}]}

(* What each leaf of a tree reads, with repeats: a requirement under an    *)
(* aggregate is read for every element, and members of a uniform together. *)
RECURSIVE Reads(_)
Reads(c) ==
    CASE c.op = "not" -> Reads(c.condition)
      [] c.op \in {"all", "any"} ->
           FoldLeft(LAMBDA s, k : s \o Reads(k), <<>>, c.conditions)
      [] c.op = "fact" -> << c.path >>
      [] c.op = "evidence-present" -> << c.requirement >>
      [] c.op \in {"exists", "every"} -> 
           << c.path >> \o Reads(c.where)
           \o SelectSeq(Reads(c.where), LAMBDA r : r \in DOMAIN NameLen)
      [] c.op = "uniform" -> << c.path, c.at, c.at >>
      [] OTHER -> <<>>
ReadsOnce(c) == IsInjective(Reads(c))

-----------------------------------------------------------------------------
(* Properties.                                                             *)

(* The limit stops an evaluation exactly when the work of the stages       *)
(* reached so far, as a sum over trees and over the distinct pointers they *)
(* resolve, is more than the budget: no order of children, no short        *)
(* circuit and no early stop of the preflight changes whether it is.       *)
ChargeDeclared ==
    work.exceeded <=> DeclaredWork(SubSeq(input.stages, 1, Len(answers)), input.facts) > budget

(* A verdict that is not unknown stands: supplying one thing that was      *)
(* missing, a fact, a member of an element or a requirement's presence,    *)
(* changes no verdict that was reached without it.                         *)
VerdictStands ==
    \A i \in DOMAIN answers : answers[i].verdict # "unknown" =>
        /\ \A s \in Missing(input.facts) : \A v \in Supply[s.pointer] :
               Condition(input.stages[i], Put(input.facts, s, v), input.evidence).verdict
                   = answers[i].verdict
        /\ \A r \in {q \in DOMAIN input.evidence : input.evidence[q] = "unknown"} :
           \A t \in {"true", "false"} :
               Condition(input.stages[i], input.facts, [input.evidence EXCEPT ![r] = t]).verdict
                   = answers[i].verdict

(* The causes of an unknown are the leaves it came from: supplying all of  *)
(* them always decides the condition, and in a tree that reads nothing     *)
(* twice supplying the others alone can leave it undecided, so that none   *)
(* names a fact whose absence changed nothing.                             *)
CausesExact ==
    \A i \in DOMAIN answers : answers[i].verdict = "unknown" /\ ~work.exceeded =>
        LET c == input.stages[i]
            causes == answers[i].causes
        IN  /\ "unknown" \notin VerdictsWithout(causes, Requirements(causes) \cup Through(causes, input), c, input)
            /\ ReadsOnce(c) => \A k \in causes :
                   "unknown" \in VerdictsWithout(causes \ {k}, Requirements(causes \ {k}), c, input)

(* The order of the elements of an array carries no meaning: no            *)
(* permutation changes a verdict, its causes or whether the limit is       *)
(* passed, and an element given twice changes no verdict and only adds     *)
(* work.                                                                   *)
Charged(facts) ==
    FoldLeft(LAMBDA w, c : Preflight(w, c, facts),
             [charged |-> 0, exceeded |-> FALSE, scanned |-> {}], SubSeq(input.stages, 1, Len(answers)))
ElementOrderFree ==
    \A p \in {q \in Pointer : input.facts[q].type = "array"} :
        LET items == input.facts[p].items
            With(s) == [input.facts EXCEPT ![p].items = s]
            Says(s, i) == Condition(input.stages[i], With(s), input.evidence)
            Permuted == {[i \in DOMAIN items |-> items[f[i]]] : f \in
                            {g \in [DOMAIN items -> DOMAIN items] : IsInjective(g)}}
        IN  IF work.exceeded THEN \A s \in Permuted : Charged(With(s)).exceeded
            ELSE
            /\ \A s \in Permuted : Charged(With(s)) = work
            /\ \A s \in Permuted \cup {Append(items, items[j]) : j \in DOMAIN items} :
               \A i \in DOMAIN answers : Says(s, i) = answers[i]
            /\ \A j \in DOMAIN items : Charged(With(Append(items, items[j]))).charged >= work.charged
=============================================================================
