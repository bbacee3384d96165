----------------------------- MODULE Suggesting -----------------------------
(***************************************************************************)
(* The inputs that a pack's own conditions suggest (project candidates.go, *)
(* packs suggest): facts at and around the values it compares a pointer    *)
(* with, at the values it tests for, with an answer withheld, and with one *)
(* requirement's evidence moved; each one step from a reviewed base row,   *)
(* and none with an expectation.                                           *)
(*                                                                         *)
(* Facts are documents here, not functions from pointers: an object has    *)
(* members, an array items, and both have the fields of a value.  A        *)
(* candidate's id keeps its parts; its rationale is left out, and so are   *)
(* the order and the wording of what was declined.                         *)
(***************************************************************************)
EXTENDS Suite

CONSTANTS
    Questions,             \* what is asked: [project, ask]
    PointerTokens,      \* a pointer's tokens; Unset when nothing resolves it
    PointerBytes,
    IndexOf,            \* of a token that is written as an index its position
    DigitsOf(_),        \* the digits after the point of a spelling
    Spell(_),           \* a number as the shortest spelling of it
    Unit,               \* the number that stands for one
    MaxStepPrecision, MaxLiteralBytes, DefaultMaxCandidates,
    Written(_),         \* what a candidate is charged, its envelope included
    OutputBudget

VARIABLES
    suggestion  \* the run: where it is, the base, the bounds, what was derived

ASSUME SuggestingAssumption ==
    /\ MaxStepPrecision \in Nat /\ Unit % (2 * 10^MaxStepPrecision) = 0
    /\ \A p \in DOMAIN PointerTokens : PointerBytes[p] \in Nat

-----------------------------------------------------------------------------
(* Documents.                                                              *)

Object(members) ==
    [type |-> "object", text |-> "", num |-> NotDecimal, len |-> 0, items |-> <<>>, members |-> members]
NoFacts == Object([t \in {} |-> Unset])

(* One token of evaluation.Resolve; ArrayIndex reads no other index.       *)
Child(node, token) ==
    CASE node = Unset -> Unset
      [] node # Unset /\ node.type = "object" -> IF token \in DOMAIN node.members THEN node.members[token] ELSE Unset
      [] node # Unset /\ node.type = "array" ->
           IF token \in DOMAIN IndexOf THEN IF IndexOf[token] < Len(node.items) THEN node.items[IndexOf[token] + 1] ELSE Unset
           ELSE Unset
      [] OTHER -> Unset
ReadAt(node, tokens) == FoldLeft(Child, node, tokens)

(* placeAt, where it refuses: a member may be added, an item may not, and  *)
(* what is stated is never overwritten on the way.                         *)
RECURSIVE Fits(_, _)
Fits(node, tokens) ==
    \/ tokens = <<>> \/ node = Unset
    \/ node.type = "object" /\ Fits(Child(node, Head(tokens)), Tail(tokens))
    \/ node.type = "array" /\ Child(node, Head(tokens)) # Unset
       /\ Fits(Child(node, Head(tokens)), Tail(tokens))

(* placeAt: what is missing is built of objects.                           *)
RECURSIVE Placed(_, _, _)
Placed(node, tokens, v) ==
    LET Below(t) == Placed(Child(node, t), Tail(tokens), v)
    IN  CASE tokens = <<>> -> v
          [] tokens # <<>> /\ node # Unset /\ node.type = "array" ->
               [node EXCEPT !.items[IndexOf[Head(tokens)] + 1] = Below(Head(tokens))]
          [] tokens # <<>> /\ node # Unset /\ node.type = "object" ->
               [node EXCEPT !.members = (Head(tokens) :> Below(Head(tokens))) @@ @]
          [] OTHER -> Object(Head(tokens) :> Below(Head(tokens)))

(* removeAt: through objects only.                                         *)
RECURSIVE Removal(_, _)
Removal(node, tokens) ==
    CASE node.type = "array" -> "blocked"
      [] node.type = "object" /\ Child(node, Head(tokens)) # Unset ->
           IF Len(tokens) = 1 THEN "done" ELSE Removal(Child(node, Head(tokens)), Tail(tokens))
      [] OTHER -> "absent"
RECURSIVE Removed(_, _)
Removed(node, tokens) ==
    [node EXCEPT !.members =
        IF Len(tokens) = 1 THEN [t \in DOMAIN @ \ {Head(tokens)} |-> @[t]]
        ELSE (Head(tokens) :> Removed(@[Head(tokens)], Tail(tokens))) @@ @]

-----------------------------------------------------------------------------
(* What a pack compares, in the order it is written.                       *)

(* walkConditions, and packConditions: exceptions after rules.             *)
RECURSIVE LeavesInOrder(_)
LeavesInOrder(c) ==
    CASE c.op \in {"all", "any"} ->
           FlattenSeq([i \in DOMAIN c.conditions |-> LeavesInOrder(c.conditions[i])])
      [] c.op = "not" -> LeavesInOrder(c.condition)
      [] c.op = "fact" -> <<c>>
      [] OTHER -> <<>>
SitesInOrder(d) ==
    LET written == (IF d.applicability = NoCondition THEN <<>> ELSE <<d.applicability>>)
                   \o [i \in DOMAIN d.rules |-> d.rules[i].when]
                   \o [i \in DOMAIN d.exceptions |-> d.exceptions[i].when]
    IN  FlattenSeq([i \in DOMAIN written |-> LeavesInOrder(written[i])])

(* conditionUsesQuantifier.                                                *)
RECURSIVE UsesQuantifier(_)
UsesQuantifier(c) ==
    CASE c.op \in {"all", "any"} -> \E i \in DOMAIN c.conditions : UsesQuantifier(c.conditions[i])
      [] c.op = "not" -> UsesQuantifier(c.condition)
      [] OTHER -> c.op \in {"exists", "every", "uniform"}

(* The ordered comparisons of a pack, and one value at one pointer with    *)
(* every spelling of it.                                                   *)
ComparisonSites(d) ==
    SelectSeq(SitesInOrder(d), LAMBDA c : c.operator \in OrderedOperators /\ IsDecimal(c.values[1]))
Once(seq) == FoldLeft(LAMBDA s, e : IF Contains(s, e) THEN s ELSE Append(s, e), <<>>, seq)
BoundaryGroups(sites) ==
    LET keys == Once([i \in DOMAIN sites |-> <<sites[i].path, sites[i].values[1].num>>])
        Of(k) == SelectSeq(sites, LAMBDA c : c.path = k[1] /\ c.values[1].num = k[2])
    IN  [n \in DOMAIN keys |->
            [path |-> keys[n][1], num |-> keys[n][2],
             spellings |-> Once([i \in DOMAIN Of(keys[n]) |-> Of(keys[n])[i].values[1]])]]

(* Mutant: the spelling that was written first stands for the others.      *)
ReadableByTheFirst(group) == SelectSeq(<<group.spellings[1]>>, LAMBDA v : v.len <= MaxLiteralBytes)

(* admissibleSpelling: any spelling that can be read will do.              *)
Readable(group) == SelectSeq(group.spellings, LAMBDA v : v.len <= MaxLiteralBytes)

(* groupStepPrecision: the finest of the spellings, whatever their order.  *)
StepPrecision(group) ==
    Min({MaxStepPrecision, Max({DigitsOf(v) : v \in Range(group.spellings)})})
HugPrecision(group) == Min({MaxStepPrecision, StepPrecision(group) + 2})

(* derivePointerLattice: the literals, a step and a hug on either side of  *)
(* each, the middle between neighbours, and one beyond the outermost.      *)
EitherSide(n, precision) == {n - Unit \div 10^precision, n + Unit \div 10^precision}
LatticeNumbers(groups, hugs) ==
    LET points == {g.num : g \in groups}
        neighbours == {<<m, n>> \in points \X points : m < n /\ \A k \in points : k <= m \/ k >= n}
    IN  points \cup UNION {EitherSide(g.num, StepPrecision(g)) : g \in groups}
        \cup UNION {EitherSide(g.num, HugPrecision(g)) : g \in {h \in groups : hugs /\ HugPrecision(h) > StepPrecision(h)}}
        \cup {(e[1] + e[2]) \div 2 : e \in neighbours}
        \cup {Min(points) - Unit, Max(points) + Unit}

(* The first of equal values is kept, and that is the spelling.            *)
LatticeValue(groups, n) ==
    IF \E g \in groups : g.num = n THEN Readable(CHOOSE g \in groups : g.num = n)[1]
    ELSE [type |-> "string", text |-> Spell(n), num |-> n, len |-> 1, items |-> <<>>]

-----------------------------------------------------------------------------
(* One candidate after another.                                            *)

Stopped(s) == s.exceeded # "none"
Skip(s, name, subject) == [s EXCEPT !.skips = @ \cup {<<name, subject>>}]

(* uniqueID: a candidate that collides is counted, not dropped.            *)
UniqueId(s, seed) ==
    LET named(n) == <<s.pack, seed.family, seed.subject, seed.qualifier, n>>
    IN  named(Min({n \in 1..(Len(s.found) + 1) : \A i \in DOMAIN s.found : s.found[i].id # named(n)}))

(* charge and admit: both latch.                                           *)
Keep(s, c) ==
    CASE s.bytes + Written(c) > OutputBudget -> [s EXCEPT !.exceeded = "bytes"]
      [] s.bytes + Written(c) <= OutputBudget /\ s.count >= s.max ->
           [s EXCEPT !.exceeded = "count", !.bytes = @ + Written(c)]
      [] OTHER -> [s EXCEPT !.bytes = @ + Written(c), !.count = @ + 1, !.found = Append(@, c)]

Seed(family, subject, qualifier) ==
    [family |-> family, subject |-> subject, qualifier |-> qualifier]
Base(s) == IF s.base = Unset THEN NoFacts ELSE s.base.facts
BaseEvidence(s) == IF s.base = Unset THEN [form |-> "none"] ELSE s.base.evidence

(* emit.                                                                   *)
Emit(s, seed, facts, evidence) ==
    IF Stopped(s) THEN s ELSE Keep(s, [id |-> UniqueId(s, seed), facts |-> facts, evidence |-> evidence])
EmitPlaced(s, seed, v) ==
    CASE Stopped(s) -> s
      [] ~Stopped(s) /\ ~Fits(Base(s), PointerTokens[seed.subject]) -> Skip(s, "unplaceable-pointer", seed.subject)
      [] OTHER -> Emit(s, seed, Placed(Base(s), PointerTokens[seed.subject], v), BaseEvidence(s))

(* admitPointer.                                                           *)
PointerFault(p) ==
    CASE PointerTokens[p] = Unset -> "unaddressable-pointer"
      [] PointerTokens[p] = <<>> -> "root-pointer"
      [] OTHER -> IF PointerBytes[p] > MaxLiteralBytes THEN "oversize-pointer" ELSE "none"
Note(s, p) == IF Contains(s.pointers, p) THEN s ELSE [s EXCEPT !.pointers = Append(@, p)]

(* deriveValues: what is admitted, and then a lattice for each pointer.    *)
AdmitGroup(s, group) ==
    LET told == IF \E v \in Range(group.spellings) : v.len > MaxLiteralBytes
                THEN Skip(s, "oversize-literal", group.path) ELSE s
    IN  CASE PointerFault(group.path) # "none" -> Skip(s, PointerFault(group.path), group.path)
          [] PointerFault(group.path) = "none" /\ Readable(group) = <<>> -> told
          [] OTHER -> Note(told, group.path)
Derivable(groups) ==
    SelectSeq(groups, LAMBDA g : PointerFault(g.path) = "none" /\ Readable(g) # <<>>)

Hugging(s, groups) ==
    LET narrowed(g) == CASE HugPrecision(g) <= StepPrecision(g) -> {"unavailable-hug"}
                         [] HugPrecision(g) = StepPrecision(g) + 1 -> {"clamped-hug"}
                         [] OTHER -> {}
    IN  IF ~s.ask.hugs \/ Stopped(s) THEN s
        ELSE [s EXCEPT !.skips = @ \cup UNION {{<<name, g.path>> : name \in narrowed(g)} : g \in groups}]
Sorted(S) == [i \in 1..Cardinality(S) |-> CHOOSE n \in S : Cardinality({m \in S : m < n}) = i - 1]
DeriveLattice(s, p, groups) ==
    LET Take(r, n) ==
            LET v == LatticeValue(groups, n) IN EmitPlaced(r, Seed("value", p, v.text), v)
    IN  FoldLeft(Take, Hugging(s, groups), Sorted(LatticeNumbers(groups, s.ask.hugs)))
DeriveFrom(s, groups) ==
    LET derived == Derivable(groups)
        Of(p) == {g \in Range(derived) : g.path = p}
    IN  FoldLeft(LAMBDA r, p : DeriveLattice(r, p, Of(p)), FoldLeft(AdmitGroup, s, groups),
                 Once([n \in DOMAIN derived |-> derived[n].path]))

(* membershipSites and deriveMembers: every operand that is stated.        *)
MembershipSites(d) ==
    SelectSeq(SitesInOrder(d), LAMBDA c : c.operator \in {"equals", "not-equals", "in"})
Rendered(v) == v.len + (IF v.type = "string" THEN 2 ELSE 0)
Operand(s, p, v) ==
    IF Rendered(v) > MaxLiteralBytes THEN Skip(s, "oversize-literal", p)
    ELSE EmitPlaced(s, Seed("member", p, <<v.type, v.text>>), v)
DeriveMembers(s, d) ==
    LET Site(r, c) ==
            IF PointerFault(c.path) # "none" THEN Skip(r, PointerFault(c.path), c.path)
            ELSE FoldLeft(LAMBDA e, v : Operand(e, c.path, v), Note(r, c.path), c.values)
    IN  FoldLeft(Site, s, MembershipSites(d))

(* deriveAbsences: one answer of the base withheld, or all.                *)
Withhold(s, p) ==
    LET outcome == Removal(Base(s), PointerTokens[p])
    IN  CASE outcome = "blocked" -> Skip(s, "unremovable-pointer", p)
          [] outcome = "done" ->
               Emit(s, Seed("absent", p, NoName), Removed(Base(s), PointerTokens[p]), BaseEvidence(s))
          [] OTHER -> s
DeriveAbsences(s) ==
    CASE s.pointers = <<>> -> s
      [] s.pointers # <<>> /\ s.base = Unset ->
           Emit(s, Seed("absent", NoName, NoName), NoFacts, BaseEvidence(s))
      [] OTHER -> FoldLeft(Withhold, s, s.pointers)

(* deriveEvidence: one requirement moved, the others as the base has them. *)
Moved(evidence, r, state) ==
    [form |-> "object",
     states |-> IF evidence.form = "none" THEN r :> state ELSE (r :> state) @@ evidence.states]
DeriveEvidence(s, d) ==
    LET State(r, q, t) == Emit(r, Seed("evidence", q, t), Base(r), Moved(BaseEvidence(r), q, t))
        Requirement(r, q) ==
            IF q.id = NoName \/ NameLen[q.id] > MaxLiteralBytes THEN Skip(r, "unusable-evidence-id", q.id)
            ELSE FoldLeft(LAMBDA e, t : State(e, q.id, t), r, <<"present", "absent", "unknown">>)
    IN  IF BaseEvidence(s).form \notin {"none", "object"}
        THEN IF d.requirements = <<>> THEN s ELSE Skip(s, "unmovable-base-evidence", NoName)
        ELSE FoldLeft(Requirement, s, d.requirements)

-----------------------------------------------------------------------------
(* The run.                                                                *)

SuggestInit ==
    \E a \in Questions :
        suggestion =
            [pc |-> "asking", project |-> a.project, ask |-> a.ask, max |-> 0, order |-> <<>>, at |-> 1,
             base |-> Unset, bytes |-> 0, count |-> 0, exceeded |-> "none", pack |-> NoName, text |-> Unset,
             found |-> <<>>, pointers |-> <<>>, skips |-> {}, offered |-> <<>>, entries |-> <<>>, why |-> "none"]

(* suggestMaximum, selection and resolveBase, in that order.               *)
Maximum(ask) == IF ask.max = Unset THEN DefaultMaxCandidates ELSE ask.max
Selection(project, ask) == IF ask.id = NoName THEN project.order ELSE <<ask.id>>
BaseRows(project, ask) ==
    LET cases == project.files[ask.id].matrix.cases IN {cases[i] : i \in {j \in DOMAIN cases : cases[j].id = ask.base}}
Unanswerable(project, ask) ==
    IF Maximum(ask) <= 0 THEN "maximum"
    ELSE IF ask.id \notin {NoName} \cup Range(project.order) THEN "unknown-pack"
    ELSE IF ask.base = NoName THEN "none"
    ELSE IF ask.id \notin project.declared THEN "base"
    ELSE IF project.files[ask.id].matrix = Unset \/ ~DecodeMatrix(project.files[ask.id].matrix) THEN "base-read"
    ELSE IF BaseRows(project, ask) = {} THEN "base" ELSE "none"

(* A refused run offers nothing.                                           *)
Refuse(s, why) == [s EXCEPT !.pc = "refused", !.why = why, !.offered = <<>>, !.entries = <<>>, !.found = <<>>]
Selecting(s) ==
    [s EXCEPT !.pc = "opening", !.max = Maximum(s.ask), !.order = Selection(s.project, s.ask),
              !.base = IF s.ask.base = NoName THEN Unset
                       ELSE LET row == CHOOSE r \in BaseRows(s.project, s.ask) : TRUE
                            IN  [facts |-> row.facts.document, evidence |-> row.evidence]]
Select ==
    /\ suggestion.pc = "asking"
    /\ \E why \in {Unanswerable(suggestion.project, suggestion.ask)} :
          suggestion' = IF why = "none" THEN Selecting(suggestion) ELSE Refuse(suggestion, why)

(* A pack that cannot be read derives nothing, and is no failure here.     *)
Opened(s, id, d) ==
    IF d = Unset \/ d.carrier # "ok" \/ ~d.object
    THEN [s EXCEPT !.at = @ + 1, !.entries = Append(@, [id |-> id, status |-> "unreadable", text |-> Unset, found |-> <<>>, skips |-> {}])]
    ELSE [s EXCEPT !.pc = "values", !.pack = id, !.text = d, !.found = <<>>, !.pointers = <<>>,
                   !.skips = IF \E c \in AllConditions(d) : UsesQuantifier(c)
                             THEN {<<"draft-rfc-quantifiers", NoName>>} ELSE {}]
OpenPack ==
    /\ suggestion.pc = "opening" /\ suggestion.at <= Len(suggestion.order)
    /\ \E id \in {suggestion.order[suggestion.at]} :
          suggestion' = Opened(suggestion, id, suggestion.project.files[id].pack)

DeriveValues ==
    /\ suggestion.pc = "values"
    /\ suggestion' = [DeriveFrom(suggestion, BoundaryGroups(ComparisonSites(suggestion.text))) EXCEPT !.pc = "members"]
DeriveRest ==
    /\ suggestion.pc = "members"
    /\ \E s \in {DeriveAbsences(DeriveMembers(suggestion, suggestion.text))} :
          suggestion' = [DeriveEvidence(s, suggestion.text) EXCEPT !.pc = "closing"]

(* A run past either bound is refused whole.                               *)
ClosePack ==
    /\ suggestion.pc = "closing"
    /\ suggestion' =
          IF suggestion.exceeded # "none" THEN Refuse(suggestion, suggestion.exceeded)
          ELSE [suggestion EXCEPT !.pc = "opening", !.at = @ + 1, !.offered = @ \o suggestion.found,
                  !.entries = Append(@, [id |-> suggestion.pack, text |-> suggestion.text, skips |-> suggestion.skips,
                                         found |-> suggestion.found,
                                         status |-> IF suggestion.found = <<>> THEN "skipped" ELSE "suggested"])]
ReportSuggestions ==
    /\ suggestion.pc = "opening" /\ suggestion.at > Len(suggestion.order)
    /\ suggestion' = [suggestion EXCEPT !.pc = "done"]

SuggestNext == Select \/ OpenPack \/ DeriveValues \/ DeriveRest \/ ClosePack \/ ReportSuggestions

(* DecodeCandidates: what a comparison of two packs reads back.            *)
DecodeCandidates(candidates) ==
    /\ Len(candidates) <= MaxMatrixCases /\ Distinct(candidates)
    /\ \A i \in DOMAIN candidates : candidates[i].id # NoName /\ candidates[i].facts # Unset

-----------------------------------------------------------------------------
(* What is offered, as an evaluation and a reviewer come to read it.       *)

RECURSIVE Spots(_)
Spots(node) ==
    LET tokens == CASE node.type = "object" -> DOMAIN node.members
                    [] node.type = "array" -> {t \in DOMAIN IndexOf : Child(node, t) # Unset}
                    [] OTHER -> {}
    IN  {<<>>} \cup UNION {{<<t>> \o q : q \in Spots(Child(node, t))} : t \in tokens}

(* Two documents agree but at and under one place; on the way to it what   *)
(* was stated is the container it was.                                     *)
Container(v) == IF v.type \in {"object", "array"} THEN <<v.type, Len(v.items)>> ELSE <<>>
Kept(old, new, place) ==
    \A q \in Spots(old) \cup Spots(new) :
        CASE IsPrefix(place, q) -> TRUE
          [] IsStrictPrefix(q, place) ->
               ReadAt(old, q) # Unset =>
                   Container(ReadAt(old, q)) # <<>> /\ Container(ReadAt(old, q)) = Container(ReadAt(new, q))
          [] OTHER -> ReadAt(old, q) = ReadAt(new, q)

Value(c) == ReadAt(c.facts, PointerTokens[c.id[3]])
OneFactor(s, c) ==
    CASE c.id[2] \in {"value", "member"} ->
           /\ c.evidence = BaseEvidence(s) /\ Kept(Base(s), c.facts, PointerTokens[c.id[3]])
           /\ Value(c) # Unset
           /\ c.id[4] = IF c.id[2] = "value" THEN Value(c).text ELSE <<Value(c).type, Value(c).text>>
      [] c.id[2] = "absent" /\ c.id[3] # NoName ->
           /\ c.evidence = BaseEvidence(s) /\ Kept(Base(s), c.facts, PointerTokens[c.id[3]])
           /\ ReadAt(Base(s), PointerTokens[c.id[3]]) # Unset /\ Value(c) = Unset
      [] c.id[2] = "absent" /\ c.id[3] = NoName -> c.facts = NoFacts /\ s.base = Unset
      [] OTHER ->
           /\ c.facts = Base(s) /\ c.evidence.states[c.id[3]] = c.id[4]
           /\ \A q \in DOMAIN c.evidence.states \ {c.id[3]} :
                  q \in DOMAIN BaseEvidence(s).states /\ c.evidence.states[q] = BaseEvidence(s).states[q]
           /\ s.base # Unset /\ BaseEvidence(s).form = "object" =>
                  DOMAIN BaseEvidence(s).states \subseteq DOMAIN c.evidence.states

(* What the report names, and what is offered at a pointer.                *)
Declined(e, subject, names) == \E n \in names : <<n, subject>> \in e.skips
WholePointer == {"unaddressable-pointer", "root-pointer", "oversize-pointer", "unplaceable-pointer"}
Offers(e, family, p) == {Value(c) : c \in {f \in Range(e.found) : f.id[2] = family /\ f.id[3] = p}}
ComparedAt(d, p) ==
    {c \in UNION {Leaves(t) : t \in AllConditions(d)} :
        c.path = p /\ c.operator \in OrderedOperators /\ IsDecimal(c.values[1])}
Selects(facts) ==
    [p \in DOMAIN PointerTokens |->
        IF PointerTokens[p] = Unset \/ ReadAt(facts, PointerTokens[p]) = Unset
        THEN [type |-> "absent", text |-> "", num |-> NotDecimal, len |-> 0, items |-> <<>>]
        ELSE ReadAt(facts, PointerTokens[p])]

(* Every way the comparisons at a pointer can come out together is that of *)
(* some candidate.                                                         *)
EveryBand(e, p) ==
    LET sites == {c \in ComparedAt(e.text, p) : c.values[1].len <= MaxLiteralBytes}
        points == {c.values[1].num : c \in sites}
        Outcomes(facts) == [c \in sites |-> Condition(c, facts, <<>>).verdict]
        offered == {Outcomes(Selects(f.facts)) : f \in {g \in Range(e.found) : g.id[2] = "value" /\ g.id[3] = p}}
    IN  offered # {} =>
            \A n \in UNION {{m - 1, m, m + 1} : m \in points} :
                [c \in sites |-> Truth(Ordered(c.operator, n, c.values[1].num))] \in offered

(* Nothing that a pack states is passed over in silence: a value, an       *)
(* operand, an answer, a requirement, or a closer look that was asked for. *)
Consulted(d) ==
    {c \in UNION {Leaves(t) : t \in AllConditions(d)} :
        c.operator \in OrderedOperators => IsDecimal(c.values[1])}
Near(e, c, sign, hugs) ==
    LET step == Unit \div 10^Min({MaxStepPrecision, DigitsOf(c.values[1])})
    IN  \E v \in Offers(e, "value", c.path) :
            sign * (v.num - c.values[1].num) \in 1..(IF hugs THEN step - 1 ELSE step)
OfferedFor(e, c, v) ==
    \/ Rendered(v) > MaxLiteralBytes /\ Declined(e, c.path, {"oversize-literal"})
    \/ c.operator \in OrderedOperators /\ \E w \in Offers(e, "value", c.path) : w.num = v.num
    \/ c.operator \notin OrderedOperators /\ v \in Offers(e, "member", c.path)
NothingSilent(s, e) ==
    /\ \A c \in Consulted(e.text) : Declined(e, c.path, WholePointer) \/
          /\ \A v \in Range(c.values) : OfferedFor(e, c, v)
          /\ Declined(e, c.path, {"unremovable-pointer", "oversize-literal"}) \/
                IF s.base = Unset THEN \E i \in DOMAIN e.found : e.found[i].facts = NoFacts
                ELSE ReadAt(Base(s), PointerTokens[c.path]) # Unset => Unset \in Offers(e, "absent", c.path)
          /\ c.operator \in OrderedOperators =>
                \/ Declined(e, c.path, {"unavailable-hug", "oversize-literal"})
                \/ Near(e, c, 1, s.ask.hugs) /\ Near(e, c, -1, s.ask.hugs)
    /\ \A q \in Ids(e.text.requirements) :
          \/ Declined(e, q, {"unusable-evidence-id"}) \/ Declined(e, NoName, {"unmovable-base-evidence"})
          \/ {f.id[4] : f \in {g \in Range(e.found) : g.id[2] = "evidence" /\ g.id[3] = q}} = States

(* The order in which rules are written changes no value.                  *)
Lattices(d, hugs) ==
    LET groups == Range(Derivable(BoundaryGroups(ComparisonSites(d))))
    IN  {<<g.path, LatticeNumbers({h \in groups : h.path = g.path}, hugs)>> : g \in groups}
Reversed(d) == [d EXCEPT !.rules = Reverse(@), !.exceptions = Reverse(@)]

(* A candidate pasted as a row, with its rationale and without.            *)
Pasted(c, verbatim) ==
    [shape |-> IF verbatim THEN "unknown" ELSE "ok", id |-> c.id, origin |-> "generated", supports |-> {},
     disposition |-> Unset, class |-> NoName, phase |-> NoName, target |-> Unset, cites |-> "none",
     facts |-> [form |-> "object", document |-> c.facts], evidence |-> c.evidence]

(* What packs suggest offers: each candidate is the base with one factor   *)
(* moved, which an evaluation reads where it was placed; together they     *)
(* meet every way the comparisons at a pointer can come out, whatever the  *)
(* order of the rules; what is not offered is declined by name; none can   *)
(* be scored as it stands; ids are unique, and the document can be read    *)
(* back; and a run past a bound offers nothing at all.                     *)
SuggestionsTrue ==
    /\ suggestion.pc = "refused" => suggestion.offered = <<>> /\ suggestion.entries = <<>>
    /\ suggestion.pc = "done" =>
          /\ Len(suggestion.offered) <= suggestion.max
          /\ FoldLeft(LAMBDA n, c : n + Written(c), 0, suggestion.offered) <= OutputBudget
          /\ Distinct(suggestion.offered)
          /\ DecodeCandidates(suggestion.offered) <=> Len(suggestion.offered) <= MaxMatrixCases
          /\ \A i \in DOMAIN suggestion.offered :
                /\ OneFactor(suggestion, suggestion.offered[i])
                /\ \A verbatim \in BOOLEAN :
                       ~DecodeMatrix([carrier |-> "ok", shape |-> "ok", version |-> 3,
                                      cases |-> <<Pasted(suggestion.offered[i], verbatim)>>])
          /\ FlattenSeq([i \in DOMAIN suggestion.entries |-> suggestion.entries[i].found]) = suggestion.offered
          /\ \A i \in DOMAIN suggestion.entries : suggestion.entries[i].status # "unreadable" =>
                \E e \in {suggestion.entries[i]} :
                    /\ NothingSilent(suggestion, e)
                    /\ Lattices(Reversed(e.text), suggestion.ask.hugs) = Lattices(e.text, suggestion.ask.hugs)
                    /\ \A p \in DOMAIN PointerTokens : EveryBand(e, p)
=============================================================================
