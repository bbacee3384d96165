------------------------------ MODULE Overlap ------------------------------
(***************************************************************************)
(* The authoring check of rules that may hold together (validation         *)
(* overlap.go, overlap_generated.go), beside the evaluator of Conditions,  *)
(* which it shares no code with: each rule's condition as a disjunction of *)
(* clauses, each pair of rules with two outcomes searched for facts that   *)
(* satisfy a clause of both, and what is advised of a pair that is not     *)
(* excluded.                                                               *)
(*                                                                         *)
(* A number is in halves, so that the middle of two authored ones is one   *)
(* too.  The budget counts nodes and terms; the bytes of values and the    *)
(* wording and bytes of a diagnostic are left out.                         *)
(***************************************************************************)
EXTENDS Conditions

CONSTANTS
    Outcome,        \* the outcome of each rule, by its place
    OverlapWork,    \* the work limit of one check
    ClauseLimit,    \* the most clauses of one formula
    NodeLimit,      \* the most nodes of a rewritten rule sequence
    MaxDiagnostics  \* the most diagnostics

Term(c, truth) == [node |-> c, truth |-> truth]

(* A formula incomplete is never used to exclude or to be exact.           *)
Formula(clauses, left) == [clauses |-> clauses, complete |-> TRUE, left |-> left]
Incomplete(left) == [clauses |-> <<>>, complete |-> FALSE, left |-> left]

Size(clause) == Len(clause) + 1
Joins(A, B) ==
    FlattenSeq([i \in DOMAIN A |-> [j \in DOMAIN B |-> A[i] \o B[j]]])
Cost(clauses) == FoldLeft(LAMBDA n, clause : n + Size(clause), 0, clauses)

(* One more child of an all or any: its clauses beside those before it, or *)
(* each joined to each.                                                    *)
Beside(f, child) ==
    IF Len(f.clauses) + Len(child.clauses) > ClauseLimit THEN Incomplete(child.left)
    ELSE Formula(f.clauses \o child.clauses, child.left)
JoinedTo(f, child) ==
    LET joined == Joins(f.clauses, child.clauses)
        left == child.left - Cost(joined)
    IN  IF Len(f.clauses) * Len(child.clauses) > ClauseLimit THEN Incomplete(child.left)
        ELSE IF left < 0 THEN Incomplete(left) ELSE Formula(joined, left)

(* overlapDNF: the clauses that make a condition true, or false.  False is *)
(* not the complement of true.                                             *)
RECURSIVE OverlapDNF(_, _, _)
OverlapDNF(c, truth, budgeted) ==
    LET left == budgeted - 1
        product == (c.op = "all") = truth
        Child(f, k) ==
            LET child == OverlapDNF(k, truth, f.left)
            IN  IF ~f.complete THEN f
                ELSE IF ~child.complete THEN child
                ELSE IF product THEN JoinedTo(f, child) ELSE Beside(f, child)
    IN  CASE left < 0 -> Incomplete(left)
          [] left >= 0 /\ c.op = "literal" ->
               Formula(IF c.value = truth THEN << <<>> >> ELSE <<>>, left)
          [] left >= 0 /\ c.op = "not" -> OverlapDNF(c.condition, ~truth, left)
          [] left >= 0 /\ c.op \in {"all", "any"} ->
               FoldLeft(Child, Formula(IF product THEN << <<>> >> ELSE <<>>, left), c.conditions)
          [] OTHER -> Formula(<< <<Term(c, truth)>> >>, left)

-----------------------------------------------------------------------------
(* The search.                                                             *)

IsDecimal(v) == v.type = "string" /\ v.num # NotDecimal
Generated(text, n) == [type |-> "string", text |-> text, num |-> n, len |-> 3, items |-> <<>>]
One == 2

(* Mutant: no value between two authored decimals.                         *)
OverlapValuesAtEnds(terms) ==
    LET operands == UNION {Range(t.node.values) : t \in terms}
        points == {v.num : v \in {w \in operands : IsDecimal(w)}}
    IN  operands \cup {Generated("other", NotDecimal)}
        \cup {Generated("fresh", n) :
                n \in points \cup (IF points = {} THEN {} ELSE {Min(points) - One, Max(points) + One})}

(* overlapValues: one value for each way the terms can come out.  At an    *)
(* authored decimal a second spelling is equal as a number and not as a    *)
(* string.                                                                 *)
OverlapValues(terms) ==
    LET operands == UNION {Range(t.node.values) : t \in terms}
        points == {v.num : v \in {w \in operands : IsDecimal(w)}}
        middles == {(m + n) \div 2 : <<m, n>> \in
                       {p \in points \X points : p[1] < p[2] /\ \A q \in points : ~(p[1] < q /\ q < p[2])}}
        ends == IF points = {} THEN {} ELSE {Min(points) - One, Max(points) + One}
    IN  operands \cup {Generated("other", NotDecimal)}
        \cup {Generated("fresh", n) : n \in points \cup middles \cup ends}

OverlapFact(c, v) ==
    CASE c.operator \in OrderedOperators ->
           IF IsDecimal(v) /\ IsDecimal(c.values[1])
           THEN Truth(Ordered(c.operator, v.num, c.values[1].num)) ELSE "unknown"
      [] c.operator = "not-equals" -> Truth(~JsonEqual(v, c.values[1]))
      [] OTHER -> Truth(\E i \in DOMAIN c.values : JsonEqual(v, c.values[i]))

FactTerms(clause) == {t \in Range(clause) : t.node.op = "fact"}
Paths(f) == UNION {{t.node.path : t \in FactTerms(f.clauses[i])} : i \in DOMAIN f.clauses}
OnlyFacts(f) == \A i \in DOMAIN f.clauses : Range(f.clauses[i]) = FactTerms(f.clauses[i])

(* The values one path may have for every term of it to come out.          *)
Satisfying(clause, path) ==
    LET terms == {t \in FactTerms(clause) : t.node.path = path}
    IN  {v \in OverlapValues(terms) : \A t \in terms : OverlapFact(t.node, v) = Truth(t.truth)}

(* Paths are taken as unrelated, and what is not a fact as a symbol.       *)
Satisfiable(clause) ==
    /\ \A s, t \in Range(clause) :
           s.node = t.node /\ s.node.op # "fact" => s.truth = t.truth
    /\ \A t \in FactTerms(clause) : Satisfying(clause, t.node.path) # {}

Unsettled(possible, left) ==
    [possible |-> possible, exact |-> FALSE, clause |-> <<>>, paths |-> {}, left |-> left]
Excluded(left) == Unsettled(FALSE, left)
NotExcluded(left) == Unsettled(TRUE, left)

(* overlapPair: the first pair of clauses that can hold together, when the *)
(* budget lasts as far as that.                                            *)
OverlapPair(a, b, left) ==
    LET pairs == Joins(a.clauses, b.clauses)
        found == {n \in DOMAIN pairs : Satisfiable(pairs[n])}
        until == IF found = {} THEN Len(pairs) ELSE Min(found)
        terms == Cost(a.clauses \o b.clauses) - Len(a.clauses \o b.clauses)
        after == left - terms - Cost(SubSeq(pairs, 1, until))
    IN  IF (a.complete /\ a.clauses = <<>>) \/ (b.complete /\ b.clauses = <<>>) THEN Excluded(left)
        ELSE IF ~a.complete \/ ~b.complete THEN NotExcluded(left)
        ELSE IF after < 0 THEN NotExcluded(after)
        ELSE IF found = {} THEN Excluded(after)
        ELSE [possible |-> TRUE, left |-> after, clause |-> pairs[until],
              paths |-> Paths(a) \cup Paths(b),
              exact |-> /\ Cardinality(Paths(a) \cup Paths(b)) <= 1
                        /\ OnlyFacts(a) /\ OnlyFacts(b)]

-----------------------------------------------------------------------------
(* What is advised.                                                        *)

Ascending(c) == c.op = "fact" /\ c.operator \in {"greater-than", "greater-than-or-equal"}
Bands(c, d) == Ascending(c) /\ Ascending(d) /\ c.path = d.path
Threshold(c) == c.values[1].num

(* exclusiveRewrite: of two ascending bands the lower ends below the       *)
(* upper; else the first rule also asks that the second does not hold.     *)
ExclusiveRewrite(c, d) ==
    LET turned == Bands(c, d) /\ Threshold(c) > Threshold(d)
        low == IF turned THEN d ELSE c
        high == IF turned THEN c ELSE d
        until == IF high.operator = "greater-than" THEN "less-than-or-equal" ELSE "less-than"
    IN  [second |-> turned,
         when |-> [op |-> "all", conditions |-> << low,
                     IF Bands(c, d) THEN [high EXCEPT !.operator = until]
                     ELSE [op |-> "not", condition |-> high] >>]]

(* simpleOverlap: where two bands or two finite sets of one path meet.     *)
BandsMeet(c, d) ==
    LET upper == IF Threshold(c) < Threshold(d) THEN d ELSE c
        others == IF Threshold(c) = Threshold(d) THEN {c, d} ELSE {upper}
    IN  [kind |-> "from", path |-> c.path, num |-> Threshold(upper),
         inclusive |-> \A e \in others : e.operator = "greater-than-or-equal"]

Finite(c) == c.operator \in {"equals", "in"}
ValuesShared(c, d) ==
    [kind |-> "shared", path |-> c.path,
     values |-> {v \in Range(c.values) : OverlapFact(d, v) = "true"}]

NoRegion == [kind |-> "none"]
SimpleOverlap(c, d) ==
    CASE Bands(c, d) -> BandsMeet(c, d)
      [] ~Bands(c, d) /\ c.op = "fact" /\ d.op = "fact" /\ c.path = d.path /\ (Finite(c) \/ Finite(d)) ->
           LET shared == IF Finite(c) THEN ValuesShared(c, d) ELSE ValuesShared(d, c)
           IN  IF shared.values = {} THEN NoRegion ELSE shared
      [] OTHER -> NoRegion

(* The nodes of a condition's JSON.                                        *)
RECURSIVE Nodes(_)
Nodes(c) ==
    CASE c.op = "not" -> 2 + Nodes(c.condition)
      [] c.op \in {"all", "any"} -> FoldLeft(LAMBDA n, k : n + Nodes(k), 3, c.conditions)
      [] c.op = "fact" -> 4 + Len(c.values) + (IF c.operator = "in" THEN 1 ELSE 0)
      [] c.op \in {"exists", "every"} -> 3 + Nodes(c.where)
      [] c.op = "uniform" -> 4
      [] OTHER -> 3

(* boundedExclusiveRewrite: the rules with the replacement are admissible. *)
RewriteFits(rules, rewrite) ==
    FoldLeft(LAMBDA n, r : n + Nodes(r.when), 0,
             [rules EXCEPT ![rewrite.rule].when = rewrite.when]) <= NodeLimit

None == [none |-> TRUE]

(* boundedOverlapFacts: a document with one value at one path.             *)
WitnessFacts(pair) ==
    LET paths == {t.node.path : t \in FactTerms(pair.clause)}
        Bare(type) == [type |-> type, text |-> "", num |-> NotDecimal, len |-> 0, items |-> <<>>]
    IN  [p \in Pointer |-> IF p \in paths THEN CHOOSE v \in Satisfying(pair.clause, p) : TRUE
                           ELSE Bare(IF p \in pair.paths THEN "null" ELSE "absent")]

Advice(rules, i, j, pair) ==
    LET given == ExclusiveRewrite(rules[i].when, rules[j].when)
        rewrite == [rule |-> IF given.second THEN j ELSE i, when |-> given.when]
    IN  [rules |-> <<i, j>>,
         certainty |-> IF pair.exact THEN "exact" ELSE "not-excluded",
         facts |-> IF pair.exact THEN WitnessFacts(pair) ELSE None,
         region |-> IF pair.exact THEN SimpleOverlap(rules[i].when, rules[j].when) ELSE NoRegion,
         rewrite |-> IF RewriteFits(rules, rewrite) THEN rewrite ELSE None]

(* ruleOverlapDiagnostics: every pair in the order of the rules, over one  *)
(* budget.                                                                 *)
RuleOverlapDiagnostics(rules) ==
    LET formulas ==
            FoldLeft(LAMBDA fs, r : Append(fs, OverlapDNF(r.when, TRUE,
                         IF fs = <<>> THEN OverlapWork ELSE Last(fs).left)), <<>>, rules)
        pairs == FlattenSeq([i \in DOMAIN rules |->
                     [n \in 1 .. Len(rules) - i |-> <<i, i + n>>]])
        Take(acc, p, found) ==
            IF acc.truncated \/ rules[p[1]].outcome = rules[p[2]].outcome THEN acc
            ELSE IF ~found.possible THEN [acc EXCEPT !.left = found.left]
            ELSE IF Len(acc.items) = MaxDiagnostics THEN [acc EXCEPT !.truncated = TRUE]
            ELSE [acc EXCEPT !.left = found.left,
                             !.items = Append(@, Advice(rules, p[1], p[2], found))]
        Pair(acc, p) == Take(acc, p, OverlapPair(formulas[p[1]], formulas[p[2]], acc.left))
    IN  FoldLeft(Pair, [items |-> <<>>, left |-> Last(formulas).left, truncated |-> FALSE],
                 IF Cardinality({r.outcome : r \in Range(rules)}) < 2 THEN <<>> ELSE pairs)

-----------------------------------------------------------------------------
(* The stages of an evaluation as the conditions of rules.                 *)

Rules == [i \in DOMAIN input.stages |-> [outcome |-> Outcome[i], when |-> input.stages[i]]]
Says(c, facts) == Condition(c, facts, input.evidence).verdict
InRegion(region, v) ==
    IF region.kind = "shared" THEN v \in region.values
    ELSE /\ region.kind = "from" /\ IsDecimal(v)
         /\ v.num > region.num \/ (region.inclusive /\ v.num = region.num)

Holding(pair, facts) == \A k \in Range(pair) : Says(input.stages[k], facts) = "true"

NamesAll(found) ==
    found.truncated \/ \A i, j \in DOMAIN answers :
        i < j /\ Outcome[i] # Outcome[j] /\ Holding(<<i, j>>, input.facts) =>
            \E n \in DOMAIN found.items : found.items[n].rules = <<i, j>>
ExactlyOverlaps(d) ==
    /\ d.certainty = "exact" => Holding(d.rules, d.facts)
    /\ d.region # NoRegion /\ InRegion(d.region, input.facts[d.region.path]) =>
           Holding(d.rules, input.facts)
EndsOverlap(new, low, high) ==
    /\ new = "true" => low = "true" /\ high # "true"
    /\ low = "true" /\ high = "false" => new = "true"
RewriteEnds(d) ==
    \A k \in Range(d.rules) : d.rewrite # None /\ k # d.rewrite.rule =>
        EndsOverlap(Says(d.rewrite.when, input.facts), Says(input.stages[d.rewrite.rule], input.facts),
             Says(input.stages[k], input.facts))
AdviceTrue(found) ==
    /\ NamesAll(found)
    /\ \A d \in Range(found.items) : ExactlyOverlaps(d) /\ RewriteEnds(d)

(* No facts make two rules of different outcomes hold that the check does  *)
(* not name; an overlap it calls exact is one, at the facts it gives as    *)
(* witness and at every value of the region it gives, and the evaluator    *)
(* says so; and the rewrite it suggests ends the overlap, takes nothing    *)
(* from the facts only the rewritten rule held at, and gives it none.      *)
OverlapAdviceTrue ==
    Len(answers) = Len(input.stages) /\ Len(answers) > 1 /\ ~work.exceeded =>
        AdviceTrue(RuleOverlapDiagnostics(Rules))
=============================================================================
