------------------------------ MODULE MCGraph ------------------------------
(* Small instances of GraphSuite for TLC.                                  *)
EXTENDS GraphSuite, TLC

CONSTANTS pa, pb

Edge(from, to, fact, evidence, otherwise) ==
    [from |-> from, to |-> to, fact |-> fact, evidence |-> evidence, otherwise |-> otherwise]

Evaluate(graph, inputs) ==
    [run |-> [graph |-> graph, inputs |-> inputs, wanted |-> None, mode |-> "evaluate"]]
Plan(graph) == [run |-> [graph |-> graph, inputs |-> None, wanted |-> None, mode |-> "plan"]]
Test(entries, budget) ==
    [run |-> None, direct |-> TRUE, validating |-> FALSE, entries |-> entries, budget |-> budget]
Suite(entries, budget) == [Test(entries, budget) EXCEPT !.direct = FALSE]
Validate(entries) == [Test(entries, None) EXCEPT !.validating = TRUE]

(* Every graph of four nodes, each edge an answer to its own requirement.  *)
Arrows == SelectSeq([k \in 1 .. 16 |-> Edge(((k - 1) \div 4) + 1, ((k - 1) % 4) + 1, None, k, "unknown")],
                    LAMBDA e : e.from # e.to)
Shapes ==
    {[nodes |-> [n \in 1 .. 4 |-> pa], result |-> 4, edges |-> SelectSeq(Arrows, LAMBDA e : e \in s)] :
        s \in SUBSET Range(Arrows)}

(* Two and three nodes with up to three edges, some of which meet in one   *)
(* pointer, in one inside another, in one requirement, or in a cycle.      *)
Feeds ==
    {Edge(1, 2, <<"a">>, None, None), Edge(1, 3, <<"a", "b">>, None, None),
     Edge(2, 3, <<"a", "c">>, "e", "absent"), Edge(2, 3, <<"a">>, None, None),
     Edge(1, 3, None, "e", "unknown"), Edge(1, 3, <<"d">>, "f", "unknown")}
Wired ==
    {[nodes |-> 1 :> pa @@ 2 :> pb @@ 3 :> pa, result |-> 3, edges |-> s] :
        s \in UNION {{f \in [1 .. k -> Feeds] : IsInjective(f)} : k \in 2 .. 3}}

Object1(p, v) == Empty @@ (p :> v)
Facts ==
    {None, << >> :> "array", Object1(<<"a">>, "value"),
     Object1(<<"a">>, "object") @@ (<<"a", "b">> :> "value")}
Evidence == {None, "e" :> "absent"}
Nothing == [facts |-> None, evidence |-> None]
Inputs ==
    {None} \cup {1 :> Nothing @@ 2 :> Nothing @@ 3 :> [facts |-> f, evidence |-> e] :
                    f \in Facts, e \in Evidence}

(* Matrices over a node and over two.                                      *)
One == [nodes |-> 1 :> pa, result |-> 1, edges |-> << >>]
Two == [nodes |-> 1 :> pa @@ 2 :> pb, result |-> 2, edges |-> <<Edge(1, 2, <<"a">>, None, None)>>]
Broken == [One EXCEPT !.result = 2]
X == [kind |-> "outcome", id |-> "x"]
Plainly == [inputs |-> [n \in {1, 2} |-> Nothing], expected |-> X, nodes |-> 1 :> X]
Unfed == [Plainly EXCEPT !.nodes = 1 :> [kind |-> "unresolved", id |-> None]]
Refused == [Plainly EXCEPT !.expected = [kind |-> "class", id |-> "evaluation-error"]]
Entry1(graph, rows) == [graph |-> graph, rows |-> rows]
Tests ==
    {Test(<<Entry1(g, r)>>, b) : g \in {One, Broken}, r \in {<<Plainly>>, <<Plainly, Refused>>, << >>},
                                 b \in {None, 3, 6}}
Suites ==
    {Suite(<<e, f>>, b) :
        e \in {Entry1(Two, <<Plainly>>), Entry1(Two, <<Unfed>>), Entry1(One, << >>), Entry1(None, <<Plainly>>)},
        f \in {Entry1([One EXCEPT !.nodes[1] = pb], <<Refused>>), Entry1(One, None), Entry1(Broken, <<Plainly>>)},
        b \in {None, 5, 9}}

Validations ==
    {Validate(<<Entry1(g, <<Plainly>>), Entry1(h, r)>>) :
        g \in {Two, None, Broken}, h \in Wired, r \in {None, Outside}}

MCTasks ==
    Validations \cup {Plan(g) : g \in Shapes} \cup {Evaluate(g, i) : g \in Wired, i \in Inputs} \cup Tests \cup Suites
=============================================================================
