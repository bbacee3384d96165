----------------------------- MODULE MCAuthoring ----------------------------
(* Small documents and calls for TLC, beside the trees of MCConditions.    *)
EXTENDS MCConditions, Checking

MCVx == "org.judgmentpack.outcome-values"
Plain == [over |-> FALSE, carrier |-> "ok", object |-> TRUE, version |-> "0.2", profile |-> "none",
          shaped |-> TRUE, required |-> <<>>, extensions |-> {"ext"}, applicability |-> NoCondition,
          outcomes |-> <<[id |-> "a", declares |-> "nothing"], [id |-> "b", declares |-> "nothing"]>>,
          requirements |-> <<[id |-> "proof", required |-> TRUE]>>, fallback |-> NoName, escalation |-> Unset,
          rules |-> <<[id |-> "r", when |-> Fact("amount", "greater-than", <<five>>), outcome |-> "a",
                      onUnknown |-> "escalate", evidenceRefs |-> {"proof"}]>>,
          exceptions |-> <<>>]
Asks(r) == [op |-> "evidence-present", requirement |-> r]
When(c) == [Plain EXCEPT !.rules[1].when = c]
Excepting(effect, target, outcome) ==
    [Plain EXCEPT !.exceptions = <<[id |-> "x", when |-> Literal(TRUE), effect |-> effect,
                                    targetRule |-> target, outcome |-> outcome, onUnknown |-> "ignore"]>>]
Valued(a, required) ==
    [Plain EXCEPT !.outcomes[1].declares = a, !.required = required]
MCDocument ==
    {Plain, [Plain EXCEPT !.over = TRUE], [Plain EXCEPT !.carrier = "malformed"],
     [Plain EXCEPT !.carrier = "limit"], [Plain EXCEPT !.object = FALSE], [Plain EXCEPT !.shaped = FALSE],
     [Plain EXCEPT !.version = "0.3"], [Plain EXCEPT !.version = "0.1"], [Plain EXCEPT !.version = "9"],
     [Plain EXCEPT !.version = NoName],
     [Plain EXCEPT !.version = "0.3", !.profile = "extended"],
     [Plain EXCEPT !.version = "0.3", !.profile = "unlisted"],
     [Plain EXCEPT !.required = <<"ext">>], [Plain EXCEPT !.required = <<"gone">>],
     [Plain EXCEPT !.required = <<"ext", "ext">>],
     [Plain EXCEPT !.fallback = "b"], [Plain EXCEPT !.fallback = "c"],
     [Plain EXCEPT !.applicability = Not(Asks("proof"))],
     [Plain EXCEPT !.applicability = Not(Asks("gone"))],
     [Plain EXCEPT !.requirements = @ \o @], [Plain EXCEPT !.rules[1].evidenceRefs = {"gone"}],
     When(Over("exists", Asks("proof"))), When(Over("every", Asks("gone"))),
     When(Over("exists", Over("every", Fact("ok", "equals", <<yes>>)))),
     When(Over("exists", Not(Over("every", [op |-> "uniform", path |-> "list", at |-> "kind"])))),
     When([op |-> "uniform", path |-> "list", at |-> "nowhere"]),
     When(Tree("any", <<>>)), When(Fact("nowhere", "equals", <<yes>>)),
     Excepting("suppress-rule", "r", NoName), Excepting("suppress-rule", "gone", NoName),
     Excepting("force-outcome", NoName, "a"), Excepting("force-outcome", NoName, "gone"),
     Excepting("escalate", "r", NoName),
     Valued("values", <<MCVx>>), Valued("values", <<>>), Valued("nothing", <<MCVx>>),
     Valued("nonsense", <<MCVx>>), Valued("values", <<MCVx, MCVx>>), Valued("values", <<"ext", MCVx>>)}
MCEdited(d) == [Plain EXCEPT !.fallback = "b", !.over = d.over]

Options == [version |-> "0.2", profiles |-> Unset, supported |-> {}, quantifiers |-> FALSE,
            values |-> FALSE, comparable |-> FALSE, supplied |-> FALSE]
Ask(kind, o) ==
    [kind |-> kind, options |-> o, oversized |-> {}, facts |-> [form |-> "object", document |-> Blank],
     evidence |-> [form |-> "object", states |-> [r \in {"proof"} |-> "present"]]]
ManyOptions ==
    {Options, [Options EXCEPT !.version = "0.3"], [Options EXCEPT !.version = "9"],
     [Options EXCEPT !.version = "0.3", !.profiles = {}],
     [Options EXCEPT !.version = "0.3", !.values = TRUE],
     [Options EXCEPT !.supported = {"ext"}], [Options EXCEPT !.quantifiers = TRUE],
     [Options EXCEPT !.values = TRUE], [Options EXCEPT !.values = TRUE, !.supported = {"ext"}],
     [Options EXCEPT !.values = TRUE, !.quantifiers = TRUE]}
Inputs2 ==
    LET a == Ask("evaluate", Options)
    IN  {[a EXCEPT !.facts.form = "malformed", !.evidence.form = "malformed"],
         [a EXCEPT !.oversized = {"pack", "facts"}], [a EXCEPT !.oversized = {"evidence"}],
         [a EXCEPT !.evidence.states = [r \in {"gone"} |-> "present"]],
         [a EXCEPT !.evidence.states = [r \in {"proof"} |-> "perhaps"]],
         [a EXCEPT !.evidence.form = "none"], [a EXCEPT !.evidence.form = "array"], [a EXCEPT !.evidence.form = "none", !.options.supplied = TRUE],
         [a EXCEPT !.facts.document = [Blank EXCEPT !["amount"] = bare], !.options.comparable = TRUE]}
MCRequests(c) ==
    IF c = "suite" THEN {Ask("evaluate", o) : o \in ManyOptions}
    ELSE {Ask("admits", o) : o \in ManyOptions} \cup Inputs2

(* Packs under test, and rows that expect what they come to or do not.     *)
Above(v) == Fact("amount", "greater-than", <<v>>)
AtLeast(v) == Fact("amount", "greater-than-or-equal", <<v>>)
RuleOf(id, c, o) == [id |-> id, when |-> c, outcome |-> o, onUnknown |-> "ignore", evidenceRefs |-> {}]
ExceptionOf(c, effect, target, o) ==
    [id |-> "x", when |-> c, effect |-> effect, targetRule |-> target, outcome |-> o, onUnknown |-> "escalate"]
Desk == [triggers |-> {"unknown", "no-match"}, target |-> "desk", routes |-> Unset]
Escalated ==
    [Plain EXCEPT !.exceptions = <<ExceptionOf(AtLeast(seven), "escalate", NoName, NoName)>>,
                  !.rules = <<RuleOf("r", Above(five), "a"), RuleOf("s", Fact("flag", "equals", <<yes>>), "b")>>,
                  !.escalation = Desk]
Limited ==
    [Plain EXCEPT !.applicability = Not(Above(seven)), !.fallback = "b",
                  !.requirements = <<[id |-> "proof", required |-> FALSE]>>,
                  !.exceptions = <<ExceptionOf(Tree("all", <<Above(fiveToo), Asks("proof")>>), "suppress-rule", "r", NoName)>>,
                  !.rules = <<RuleOf("r", AtLeast(five), "a")>>]
Forced ==
    [Plain EXCEPT !.exceptions = <<[ExceptionOf(Asks("proof"), "force-outcome", NoName, "b") EXCEPT !.onUnknown = "ignore"]>>,
                  !.requirements[1].required = FALSE, !.fallback = "b",
                  !.rules = <<[RuleOf("r", Tree("any", <<Above(five), AtLeast(seven)>>), "a") EXCEPT !.onUnknown = "escalate"],
                              [RuleOf("s", Fact("kind", "equals", <<yes>>), "a") EXCEPT !.onUnknown = "escalate"],
                              RuleOf("t", Literal(TRUE), "b")>>]
Elsewhere ==
    [Escalated EXCEPT !.version = "0.3",
        !.escalation = [triggers |-> {"unknown", "no-match"}, target |-> Unset,
                        routes |-> <<[target |-> "desk", triggers |-> {"unknown"}],
                                     [target |-> "lead", triggers |-> Unset]>>]]
Nowhere == [Elsewhere EXCEPT !.escalation.routes = <<[target |-> "desk", triggers |-> {"unknown"}]>>]
Extended == [Limited EXCEPT !.required = <<"ext">>]

Row(id, amount, states) ==
    [shape |-> "ok", id |-> id, origin |-> NoName, supports |-> {}, disposition |-> Unset, class |-> NoName,
     phase |-> NoName, target |-> Unset, cites |-> "none",
     facts |-> [form |-> "object", document |-> [Blank EXCEPT !["amount"] = amount, !["flag"] = no]],
     evidence |-> [form |-> "object", states |-> states]]
Said(state) == [r \in {"proof"} |-> state]
Right(d, row) == [row EXCEPT !.disposition = Canonical(Produced(d, Asked(row, d.version)))]
Wrongly(row) ==
    [row EXCEPT !.disposition = [kind |-> "unresolved", outcome |-> NoName, reasons |-> {"not-applicable"},
                                 state |-> "none", triggeredBy |-> Unset, routes |-> Unset, other |-> {}]]
Illegal(row) == [Wrongly(row) EXCEPT !.disposition.state = "requested"]
Erring(row, class) == [row EXCEPT !.class = class]
OfMatrix(rows) == [carrier |-> "ok", shape |-> "ok", version |-> 3, cases |-> rows]
Project(order, files) ==
    [order |-> order, declared |-> Range(order), required |-> FALSE, files |-> files, rewritten |-> files]
Single(d, rows) == Project(<<"p">>, [i \in {"p"} |-> [pack |-> d, matrix |-> OfMatrix(rows)]])

Titled(row, n) == [row EXCEPT !.id = n, !.origin = n]
Amounts == {absent, five, fiveToo, six, seven, nine}
Pool(d) ==
    {Right(d, Row("1", a, Said(t))) : a \in Amounts, t \in {"present", "absent"}}
    \cup {Wrongly(Row("1", a, Said("present"))) : a \in {five, six, bare}}
    \cup {Illegal(Row("1", seven, Said("unknown")))}
Pairing ==
    UNION {{Single(d, <<Titled(r, "1"), Titled(t, "2")>>) : r, t \in Pool(d)} : d \in {Escalated, Limited, Forced, Elsewhere, Nowhere}}
Triples ==
    {Single(d, <<Right(d, Titled(Row("1", a, Said("present")), "1")), Wrongly([Row("2", b, Said("present")) EXCEPT !.origin = "1"]),
              Right(d, [Row("3", c, Said("absent")) EXCEPT !.origin = o])>>) :
        d \in {Escalated, Forced, Elsewhere}, a, b, c \in {five, six, nine}, o \in {"1", NoName}}
First == Right(Escalated, Row("1", six, Said("present")))
Matrices ==
    LET rows == {First, [First EXCEPT !.shape = "array"], [First EXCEPT !.shape = "unknown"],
                 [First EXCEPT !.shape = "mistyped"], [First EXCEPT !.id = NoName], [First EXCEPT !.facts = Unset],
                 [First EXCEPT !.class = "malformed-input"], [First EXCEPT !.disposition = Unset],
                 [First EXCEPT !.phase = "preflight"], [First EXCEPT !.target = "null"],
                 [First EXCEPT !.target = "desk"], [First EXCEPT !.target = "malformed"],
                 [First EXCEPT !.cites = "good"], [First EXCEPT !.cites = "malformed"],
                 [Erring(Row("1", six, Said("perhaps")), "malformed-input") EXCEPT !.target = "null"],
                 Erring(Row("1", six, Said("perhaps")), "malformed-input"),
                 [Erring(Row("1", six, Said("perhaps")), "malformed-input") EXCEPT !.phase = "evaluation"],
                 Erring(Row("1", six, Said("perhaps")), "pack-not-conformant"),
                 Erring(First, "malformed-input")}
        documents == {[OfMatrix(<<r>>) EXCEPT !.version = v] : r \in rows, v \in 1..4}
                     \cup {OfMatrix(<<First, r>>) : r \in rows} \cup {OfMatrix(<<>>)}
                     \cup {[OfMatrix(<<First>>) EXCEPT !.carrier = "malformed"], [OfMatrix(<<First>>) EXCEPT !.shape = "unknown"]}
                     \cup {OfMatrix([i \in 1..5 |-> [First EXCEPT !.id = i]])}
    IN  {Project(<<"p">>, [i \in {"p"} |-> [pack |-> Escalated, matrix |-> m]]) : m \in documents}
Targets ==
    {Single(d, <<[Right(d, Row("1", a, Said(t))) EXCEPT !.target = w], [Right(d, Row("2", b, Said("present"))) EXCEPT !.target = w]>>) :
        d \in {Escalated, Elsewhere}, a \in {five, absent}, b \in {six, five}, t \in {"present", "unknown"},
        w \in {"null", "desk", "lead"}}
Requiring ==
    {Single(Extended, <<[r EXCEPT !.supports = s], Erring(Row("2", five, Said("present")), c)>>) :
        r \in {Right(Extended, Row("1", six, Said("present"))), Erring(Row("1", five, Said("present")), "malformed-input")},
        s \in {{}, {"ext"}}, c \in {"unsupported-required-extension", "malformed-input"}}
Several ==
    LET packs == {Escalated, Elsewhere, [Escalated EXCEPT !.version = "0.3", !.profile = "extended"],
                  [Escalated EXCEPT !.version = "0.1"], [Escalated EXCEPT !.carrier = "malformed"], Unset}
        matrix == OfMatrix(<<First>>)
        files(d, e) == [i \in {"p", "q"} |-> [pack |-> IF i = "p" THEN d ELSE e, matrix |-> matrix]]
    IN  {Project(<<"p", "q">>, files(d, e)) : d, e \in packs}
        \cup {[Project(<<"p", "q">>, files(Escalated, Escalated)) EXCEPT !.rewritten = files(d, e)] :
                  d, e \in {Escalated, Elsewhere, Limited}}
        \cup {[Project(<<"p", "q">>, files(Escalated, Escalated)) EXCEPT !.declared = s, !.required = b] :
                  s \in {{}, {"q"}}, b \in BOOLEAN}
        \cup {Project(<<"p">>, [i \in {"p"} |-> [pack |-> Escalated, matrix |-> Unset]]), Project(<<>>, <<>>)}
MCProjects == Pairing \cup Triples \cup Matrices \cup Targets \cup Requiring \cup Several
MCDispositionLength(x) == IF x = Unset THEN 0 ELSE 10
MCTargetLength(t) == CASE t = Unset -> 0 [] t # Unset /\ t = "null" -> 4 [] OTHER -> 30

(* Packs to suggest inputs from, and rows to start them at.  A text's      *)
(* number is counted in thousandths of a half of a half.                   *)
MCPointerTokens ==
    ("sum" :> <<"o", "a">>) @@ ("sub" :> <<"o", "a", "b">>) @@ ("slot" :> <<"l", "0">>)
    @@ ("odd" :> <<"l", "00">>) @@ ("mark" :> <<"f">>) @@ ("root" :> <<>>) @@ ("loose" :> Unset) @@ ("long" :> <<"z">>)
    @@ [p \in MCPointer |-> <<p>>]
MCPointerBytes == [p \in DOMAIN MCPointerTokens |-> IF p = "long" THEN 40 ELSE 4]
MCIndexOf == ("0" :> 0) @@ ("1" :> 1)
Told(text, num, len) == Scalar("string", text, num, len)
n5 == Told("5", 20000, 1)
n5short == Told("5.0", 20000, 3)
n5long == Told("5.000000000000", 20000, 14)
n5cent == Told("5.01", 20040, 4)
n5mill == Told("5.001", 20004, 5)
n7 == Told("7.0", 28000, 3)
MCDigitsOf(v) ==
    CASE v.text \in {"5.0", "7.0"} -> 1 [] v.text = "5.01" -> 2 [] v.text = "5.001" -> 3
      [] v.text = "5.000000000000" -> 12 [] OTHER -> 0
MCSpell(n) == ToString(n) \o "q"
RECURSIVE MCNodes(_)
MCNodes(node) ==
    CASE node.type = "object" -> 1 + MapThenSumSet(LAMBDA t : MCNodes(node.members[t]), DOMAIN node.members)
      [] node.type = "array" -> 1 + FoldLeft(LAMBDA n, v : n + MCNodes(v), 0, node.items)
      [] OTHER -> 1
MCWritten(c) == 2 + MCNodes(c.facts)

Compare(p, operator, v) == Fact(p, operator, <<v>>)
MCWhen(c, d) == [Plain EXCEPT !.rules = <<RuleOf("r", c, "a"), RuleOf("s", d, "b")>>]
Laddered ==
    {MCWhen(Compare("sum", o, v), Compare("sum", "less-than", w)) :
        o \in {"greater-than", "less-than-or-equal"}, v \in {n5, n5short, n5long, n5mill}, w \in {n5, n5long, n5cent, n7}}
Varied ==
    {MCWhen(Compare("sum", "less-than", n5), Compare(p, "greater-than-or-equal", n7)) : p \in DOMAIN MCPointerTokens \ MCPointer}
    \cup {MCWhen(Fact(p, "in", <<yes, n5, Told("abcdefghijklmnop", -1, 16)>>), Compare("mark", o, yes)) :
            p \in {"sum", "sub", "slot", "mark"}, o \in {"equals", "not-equals"}}
Mixed2 ==
    {[MCWhen(Tree("all", <<Compare("sum", "greater-than", n5), Not(Compare("mark", "equals", yes))>>),
             Over("exists", Fact("ok", "equals", <<yes>>)))
       EXCEPT !.applicability = Compare("slot", "greater-than", n7), !.requirements = q,
              !.exceptions = <<ExceptionOf(Compare("sum", "greater-than-or-equal", n7), "escalate", NoName, NoName)>>] :
        q \in {<<>>, <<[id |-> NoName, required |-> TRUE], [id |-> "proof", required |-> TRUE], [id |-> "note", required |-> FALSE]>>}}
    \cup {[MCWhen(Literal(TRUE), Asks("proof")) EXCEPT !.requirements = <<>>]}
Null == Scalar("null", "null", -1, 0)
Items(seq) == [Object([t \in {} |-> Unset]) EXCEPT !.type = "array", !.items = seq]
Held(o, l) == Object(("o" :> o) @@ ("l" :> l) @@ ("f" :> no))
Starts ==
    {NoFacts, Null, Items(<<n5>>), Held(Null, Null), Held(n5, Items(<<>>)), Held(NoFacts, NoFacts),
     Held(Object(("a" :> n7) @@ ("k" :> yes)), Items(<<n7, yes>>)),
     Held(Object("a" :> Object("b" :> Null)), Items(<<Items(<<n5>>)>>)), Held(Object("a" :> Items(<<n7>>)), Object("0" :> yes))}
Evidences ==
    {[form |-> "none"], [form |-> "array"],
     [form |-> "object", states |-> [r \in {"proof"} |-> "absent"]], [form |-> "object", states |-> [r \in {"other"} |-> "unknown"]]}
Question(id, base, max, hugs) == [id |-> id, base |-> base, max |-> max, hugs |-> hugs]
Started(d, facts, evidence) ==
    Project(<<"p">>, [i \in {"p"} |-> [pack |-> d, matrix |-> OfMatrix(<<
        [Wrongly(Row("1", five, Said("present"))) EXCEPT !.facts.document = facts, !.evidence = evidence]>>)]])
Packs2 ==
    {Project(<<"p", "q">>, [i \in {"p", "q"} |-> [pack |-> IF i = "p" THEN d ELSE e, matrix |-> Unset]]) :
        d, e \in {Escalated, [Plain EXCEPT !.carrier = "malformed"], [Plain EXCEPT !.object = FALSE], Unset}}
MCQuestions ==
    {[project |-> Started(d, f, [form |-> "none"]), ask |-> Question("p", "1", 100, TRUE)] :
        d \in Varied \cup Mixed2, f \in Starts}
    \cup {[project |-> Started(d, f, [form |-> "none"]), ask |-> Question("p", "1", m, h)] :
            d \in Laddered, f \in {NoFacts, Held(Object(("a" :> n7) @@ ("k" :> yes)), Null)}, h \in BOOLEAN, m \in {7, 100}}
    \cup {[project |-> Started(d, NoFacts, e), ask |-> Question("p", b, m, FALSE)] :
            d \in Mixed2, e \in Evidences, b \in {NoName, "1", "2"}, m \in {0, 3, Unset}}
    \cup {[project |-> p, ask |-> Question(i, NoName, m, TRUE)] : m \in {12, 100},
            p \in Packs2 \cup {Project(<<"p", "q">>, [i \in {"p", "q"} |->
                                 [pack |-> MCWhen(Compare("sum", "less-than", n5), Compare("sum", "equals", yes)), matrix |-> Unset]])},
            i \in {NoName, "p", "r"}}
    \cup {[project |-> p, ask |-> Question(i, "1", 100, FALSE)] :
            p \in {Project(<<"p">>, [i \in {"p"} |-> [pack |-> Plain, matrix |-> Unset]]),
                   [Started(Plain, NoFacts, [form |-> "none"]) EXCEPT !.declared = {}]}, i \in {NoName, "p", "r"}}

(* Configurations to lint and to validate.                                 *)
Shaped(p) == Object(("op" :> Told("exists", -1, 6)) @@ ("path" :> Told(p, -1, 4)))
Hinting(facts, evidence) ==
    [facts |-> facts, evidence |-> evidence, inside |-> TRUE, expected |-> NoName, filename |-> Unset, matrix |-> FALSE]
Checked(kind, order, entries, manifest, files) ==
    [kind |-> kind, order |-> order, entries |-> entries, manifest |-> manifest, files |-> files]
FileOf(d) == [pack |-> d, matrix |-> Unset, version |-> "1.0.0"]
Needing(d, ids) == [d EXCEPT !.requirements = [i \in DOMAIN ids |-> [id |-> ids[i], required |-> TRUE]]]
Linted ==
    {MCWhen(Compare(p, "less-than", n5), Fact(q, "equals", <<yes>>)) : p, q \in {"sum", "sub", "slot", "root", "flag"}}
    \cup {MCWhen(Fact("flag", "in", <<yes, Items(<<Shaped(p)>>)>>), Fact("loose", "equals", <<yes>>)) : p \in {"sum", "mark"}}
    \cup {MCWhen(Fact("flag", "equals", <<Shaped("mark")>>), Literal(TRUE)), MCWhen(Literal(TRUE), Literal(TRUE)),
          [MCWhen(Compare("sub", "less-than", n5), Asks("proof")) EXCEPT
             !.applicability = Fact("mark", "equals", <<no>>),
             !.exceptions = <<ExceptionOf(Not(Fact("slot", "not-equals", <<n7>>)), "escalate", NoName, NoName)>>],
          [Plain EXCEPT !.applicability = Over("every", Fact("sum", "equals", <<yes>>))],
          Needing(Plain, <<>>), Needing(Plain, <<"proof", "note">>), Needing(Plain, <<NoName>>)}
Producing == {{}, {"sum"}, {"sub"}, {"root"}, {"slot", "flag"}, {"sum", "flag"}, {"mark", "sub", "slot"}, {"amount"}}
Lints ==
    UNION {{Checked("lint", <<"p">>, "p" :> Hinting(f, v), Unset, "p" :> FileOf(d)),
            Checked("lint", <<"p">>, "p" :> Hinting({}, {}), [facts |-> f, evidence |-> v], "p" :> FileOf(d))} :
           d \in Linted, f \in Producing, v \in {{}, {"proof"}, {"proof", "note"}}}
    \cup {Checked("lint", o, [i \in {"p", "q"} |-> Hinting({"flag"}, {"note"})], m,
                   [i \in {"p", "q"} |-> IF i = "p" THEN FileOf(d) ELSE FileOf(e)]) :
             o \in {<<"p">>, <<"q", "p">>}, d \in {Plain, Needing(Plain, <<"note">>)},
             e \in {Plain, Needing(Plain, <<>>), Unset, [Plain EXCEPT !.carrier = "malformed"], [Plain EXCEPT !.object = FALSE]},
             m \in {Unset} \cup {[facts |-> {"amount"}, evidence |-> v] : v \in {{}, {"note"}, {"proof", "note"}}}}
Validations ==
    {Checked("validate", <<"p">>, "p" :> Hinting(f, v), Unset, "p" :> FileOf(d)) :
        d \in Linted, f \in Producing \ {{"amount"}}, v \in {{}, {"proof"}, {"note"}}}
    \cup {Checked("validate", <<"p">>, "p" :> [Hinting({}, {}) EXCEPT !.inside = b], Unset, "p" :> FileOf(d)) :
             b \in BOOLEAN, d \in {e \in MCDocument : ~e.over} \cup {Unset}}
    \cup {Checked("validate", <<"p">>,
                   "p" :> [Hinting({"amount"}, {}) EXCEPT !.matrix = b, !.expected = x, !.filename = n], Unset,
                   "p" :> [pack |-> Plain, matrix |-> m, version |-> w]) :
             b \in BOOLEAN, x \in {NoName, "1.0.0"}, w \in {NoName, "1.0.0", "2.0.0"},
             n \in {Unset, [id |-> "p", version |-> "1.0.0"], [id |-> "q", version |-> "1.0.0"]},
             m \in {Unset, OfMatrix(<<>>), OfMatrix(<<First>>), OfMatrix(<<First, First>>)}}
MCChecks == Lints \cup Validations

NoChecking == checking = [pc |-> "off"]
NoSuggestion == suggestion = [pc |-> "off"]
NoCalls == given = "none" /\ admitted = "none" /\ admissions = <<>> /\ calls = [c \in Caller |-> [Idle EXCEPT !.pc = "off"]]
NoSuite == disk = <<>> /\ suite = [pc |-> "off"]
NoCondition2 ==
    /\ input = [stages |-> <<>>, facts |-> Blank, evidence |-> Said("true")]
    /\ budget = 1000 /\ work = [charged |-> 0, exceeded |-> FALSE, scanned |-> {}] /\ answers = <<>>
AuthoringInit ==
    \/ Init /\ NoCalls /\ NoSuite /\ NoSuggestion /\ NoChecking
    \/ AdmissionInit /\ NoCondition2 /\ NoSuite /\ NoSuggestion /\ NoChecking
    \/ SuiteInit /\ NoCondition2 /\ NoCalls /\ NoSuggestion /\ NoChecking
    \/ SuggestInit /\ NoCondition2 /\ NoCalls /\ NoSuite /\ NoChecking
    \/ CheckInit /\ NoCondition2 /\ NoCalls /\ NoSuite /\ NoSuggestion
AuthoringNext ==
    \/ EvaluateStage /\ UNCHANGED <<admissionVars, suiteVars, suggestion, checking>>
    \/ AdmissionNext /\ UNCHANGED <<vars, suiteVars, suggestion, checking>>
    \/ suite.pc # "off" /\ SuiteNext /\ UNCHANGED <<vars, admissionVars, suggestion, checking>>
    \/ SuggestNext /\ UNCHANGED <<vars, admissionVars, suiteVars, checking>>
    \/ checking.pc # "off" /\ CheckNext /\ UNCHANGED <<vars, admissionVars, suiteVars, suggestion>>
AuthoringSpec == AuthoringInit /\ [][AuthoringNext]_<<vars, admissionVars, suiteVars, suggestion, checking>>
=============================================================================
