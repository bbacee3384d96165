----------------------------- MODULE Comparable -----------------------------
(***************************************************************************)
(* The check a project may ask for before an evaluation (evaluation        *)
(* comparable.go): every comparison of every stage, whether or not it will *)
(* be reached, is asked if the fact it reads has a type it can match.  The *)
(* check evaluates nothing; it walks the trees of Conditions by itself and *)
(* charges its own work to the same limit.                                 *)
(*                                                                         *)
(* The trees under "exists" and "every" are walked under the draft opt-in, *)
(* the only one a pack that has them is evaluated under.                   *)
(***************************************************************************)
EXTENDS Overlap

Finding(c, v, within, matches) ==
    [path |-> c.path, within |-> within, operator |-> c.operator, type |-> v.type, matches |-> matches]

(* One finding for one key: the path, where, the operator and the types.   *)
Found(w, finding) ==
    IF finding \in Range(w.found) THEN w ELSE [w EXCEPT !.found = Append(@, finding)]

Kinds(c) == {c.values[i].type : i \in DOMAIN c.values}

(* Mutant: any string is taken for a decimal.                              *)
ComparisonAnyString(w, c, root, within) ==
    LET v == root[c.path]
        ordered == c.operator \in OrderedOperators
        r == ChargePointer(w, c.path)
    IN  IF r.exceeded \/ ~Resolves(root, c.path) \/ v.type \in Kinds(c) THEN r
        ELSE Found(r, Finding(c, v, within, IF ordered THEN {} ELSE Kinds(c)))

(* comparison: what an absent fact gives is the pack's to say; a string    *)
(* read by an ordered comparison is charged before its grammar is asked.   *)
Comparison(w, c, root, within) ==
    LET v == root[c.path]
        ordered == c.operator \in OrderedOperators
        read == ChargePointer(w, c.path)
        r == CASE read.exceeded \/ ~Resolves(root, c.path) -> read
               [] ordered /\ v.type = "string" -> Charge(read, v.len)
               [] c.operator = "in" -> Charge(read, Len(c.values))
               [] OTHER -> read
        matched == IF ordered THEN v.type = "string" /\ v.num # NotDecimal
                   ELSE v.type \in Kinds(c)
    IN  IF r.exceeded \/ ~Resolves(root, c.path) \/ matched THEN r
        ELSE Found(r, Finding(c, v, within, IF ordered THEN {} ELSE Kinds(c)))

(* walk: uniform, evidence and literals state no operand.                  *)
RECURSIVE Visit(_, _, _, _)
Visit(w, c, root, within) ==
    LET v == Charge(w, 1)
    IN  CASE v.exceeded -> v
          [] ~v.exceeded /\ c.op = "not" -> Visit(v, c.condition, root, within)
          [] ~v.exceeded /\ c.op \in {"all", "any"} ->
               FoldLeft(LAMBDA x, k : Visit(x, k, root, within), v, c.conditions)
          [] ~v.exceeded /\ c.op = "fact" -> Comparison(v, c, root, within)
          [] ~v.exceeded /\ c.op \in {"exists", "every"} ->
               FoldLeft(LAMBDA x, e : Visit(x, c.where, e, c.path), ChargePointer(v, c.path),
                        Selected(c, root))
          [] OTHER -> v

(* incomparableFacts: applicability, exceptions and rules, in that order.  *)
IncomparableFacts(stages, facts) ==
    FoldLeft(LAMBDA w, c : Visit(w, c, facts, NoPointer),
             [charged |-> 0, exceeded |-> FALSE, scanned |-> {}, found |-> <<>>], stages)

(* requireComparable: past the limit nothing is known of the rest.         *)
RequireComparable(check) ==
    CASE check.exceeded -> "too-much-work"
      [] ~check.exceeded /\ check.found # <<>> -> "incomparable"
      [] OTHER -> "passes"

-----------------------------------------------------------------------------

(* The comparisons of a tree with the documents they read.                 *)
RECURSIVE Readings(_, _)
Readings(c, root) ==
    CASE c.op = "not" -> Readings(c.condition, root)
      [] c.op \in {"all", "any"} -> UNION {Readings(c.conditions[i], root) : i \in DOMAIN c.conditions}
      [] c.op = "fact" -> {<<c, root>>}
      [] c.op \in {"exists", "every"} ->
           UNION {Readings(c.where, Selected(c, root)[i]) : i \in DOMAIN Selected(c, root)}
      [] OTHER -> {}

(* Whether some value of the type the fact has would decide the comparison *)
(* the other way than every value of another type does.                    *)
CanMatch(c, root) ==
    LET v == root[c.path]
        Given(x) == EvalFact(c, [root EXCEPT ![c.path] = x]).verdict
    IN  \/ ~Resolves(root, c.path)
        \/ c.operator \in OrderedOperators /\ Given(v) # "unknown"
        \/ /\ c.operator \notin OrderedOperators
           /\ \E i \in DOMAIN c.values :
                  c.values[i].type = v.type /\ Given(c.values[i]) = Truth(c.operator # "not-equals")

CheckAgrees(check) ==
    /\ ~check.exceeded /\ check.charged <= work.charged
    /\ RequireComparable(check) = "passes" <=>
         \A i \in DOMAIN input.stages : \A r \in Readings(input.stages[i], input.facts) : CanMatch(r[1], r[2])
    /\ RequireComparable(check) = "passes" =>
         \A i \in DOMAIN answers : \A k \in answers[i].causes : k.cause # "not-comparable"

(* The check refuses exactly the facts of which a comparison reads one it  *)
(* can never match, as the evaluator compares: after it passed, no unknown *)
(* is put down to a type.  It costs no more than the evaluation of the     *)
(* same stages, so that within the limit it is never refused for its work. *)
ComparableDecides ==
    Len(answers) = Len(input.stages) /\ ~work.exceeded =>
        CheckAgrees(IncomparableFacts(input.stages, input.facts))
=============================================================================
