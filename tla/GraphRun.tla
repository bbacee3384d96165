------------------------------ MODULE GraphRun ------------------------------
(***************************************************************************)
(* One run of a decision graph (graph/evaluate.go, contract.go): the       *)
(* structural gate, the selection of one contract from a read of every     *)
(* pack, the caller's inputs, the nodes in order, each from a read of its  *)
(* own, and the composite, beside edits of the packs.  What a pack makes   *)
(* of the documents it is given is the evaluator's (Resolver): here it is  *)
(* any disposition, or a refusal.                                          *)
(***************************************************************************)
EXTENDS GraphDocument

CONSTANTS
    Packs,          \* the configured packs
    Contents,       \* what a pack's file may hold
    Outcomes,       \* outcome ids
    Idle,           \* the run between two runs of a suite
    MaxEdits        \* edits of packs

VARIABLES
    law,            \* what each pack's file holds
    run,            \* the run
    edits

(* What SelectContract makes of a pack's bytes: one of two contracts, or a *)
(* refusal.  A file may also be gone.                                      *)
Contracts == {"legacy", "core"}
Selection(content) ==
    CASE content = "old" -> "legacy"
      [] content = "new" -> "core"
      [] content = "foreign" -> "profile-unsupported"
      [] content = "broken" -> "pack-not-conformant"
      [] content = "gone" -> "pack-read"

Dispositions ==
    [kind : {"outcome"}, id : Outcomes] \cup [kind : {"unresolved", "not-applicable"}, id : {None}]

(* A run is asked for [graph, inputs, wanted, mode]: a plan, the selection *)
(* of the contract alone, or an evaluation that perhaps has to apply a     *)
(* contract that was selected before it.                                   *)
Begin(asked) ==
    [asked |-> asked, pc |-> "begin", at |-> 1, contract |-> "legacy", failure |-> "none",
     selectionFailure |-> "none", nodes |-> << >>, report |-> None]

Graph == run.asked.graph
Given == run.asked.inputs
TheOrder == Order(Graph)

Goes(pc) == run' = [run EXCEPT !.pc = pc]
Refuses(why) == run' = [run EXCEPT !.pc = "done", !.failure = why]

(* The gate every surface has: nothing is read for a graph that fails it.  *)
Gate ==
    /\ run # Idle /\ run.pc = "begin"
    /\ IF Structural(Graph, Packs) # {} THEN Refuses("graph-invalid")
       ELSE IF run.asked.mode = "plan"
       THEN run' = [run EXCEPT !.pc = "done", !.report = PlanOf(Graph)]
       ELSE Goes("select")
    /\ UNCHANGED <<law, edits>>

-----------------------------------------------------------------------------
(* SelectContract: one read for each node, and the first refusal ends it.  *)

Selected(failure, contract) ==
    run' = IF run.asked.mode = "select" \/ failure = "profile-unsupported"
           THEN [run EXCEPT !.pc = "done", !.failure = failure, !.contract = contract]
           ELSE [run EXCEPT !.pc = "admit", !.at = 1, !.selectionFailure = failure, !.contract = contract]

Select ==
    /\ run # Idle /\ run.pc = "select"
    /\ LET found == Selection(law[Graph.nodes[TheOrder[run.at]]])
       IN  IF found \notin Contracts THEN Selected(found, "legacy")
           ELSE IF run.at > 1 /\ found # run.contract THEN Selected("mixed-contract", "legacy")
           ELSE IF run.at = Len(TheOrder) THEN Selected("none", found)
           ELSE run' = [run EXCEPT !.at = @ + 1, !.contract = found]
    /\ UNCHANGED <<law, edits>>

(* The inputs, then every fact edge against them, then what the selection  *)
(* had refused.                                                            *)
Admit ==
    /\ run # Idle /\ run.pc = "admit"
    /\ IF Given = None THEN Refuses("inputs")
       ELSE IF FactsConflict(Graph, Given) THEN Refuses("fact-conflict")
       ELSE IF run.selectionFailure # "none" THEN Refuses(run.selectionFailure)
       ELSE IF run.asked.wanted \notin {None, run.contract} THEN Refuses("mixed-contract")
       ELSE Goes("node")
    /\ UNCHANGED <<law, edits>>

-----------------------------------------------------------------------------
(* The nodes.                                                              *)

Here == TheOrder[run.at]

Produced ==
    [n \in {run.nodes[k].node : k \in DOMAIN run.nodes} |->
        (CHOOSE e \in Range(run.nodes) : e.node = n).disposition]

(* Mutant: the contract is not selected again from the evaluation's read.  *)
NodeRefusalOnce(content) == IF content = "gone" THEN "pack-read" ELSE "none"

(* The exact bytes of the evaluation decide again whether it may apply.    *)
NodeRefusal(content) ==
    IF Selection(content) \notin Contracts THEN Selection(content)
    ELSE IF Selection(content) # run.contract THEN "mixed-contract" ELSE "none"

(* A node evaluates, and in core 0.3 the report may grow past its bound.   *)
Evaluated(content, a) ==
    \/ \E d \in Dispositions :
         run' = [run EXCEPT !.pc = IF run.at = Len(TheOrder) THEN "commit" ELSE "node",
                            !.at = @ + 1,
                            !.nodes = Append(@, [node |-> Here, content |-> content,
                                                 facts |-> a.facts, evidence |-> a.evidence,
                                                 disposition |-> d])]
    \/ Refuses("evaluation-error")
    \/ run.contract = "core" /\ Refuses("report-budget")

Node ==
    /\ run # Idle /\ run.pc = "node"
    /\ LET content == law[Graph.nodes[Here]]
           a == Assembled(Graph, Here, Given[Here], Produced)
       IN  IF NodeRefusal(content) # "none" THEN Refuses(NodeRefusal(content))
           ELSE IF a.refusal # "none" THEN Refuses(a.refusal)
           ELSE IF a.oversized THEN Refuses("facts-oversized")
           ELSE Evaluated(content, a)
    /\ UNCHANGED <<law, edits>>

(* The composite, whose records are appended in one write: they may fail.  *)
Commit ==
    /\ run # Idle /\ run.pc = "commit"
    /\ \/ run' = [run EXCEPT !.pc = "done",
                    !.report = [contract |-> run.contract, headline |-> Produced[Graph.result]]]
       \/ run.contract = "core" /\ Refuses("report-budget")
       \/ Refuses("audit")
    /\ UNCHANGED <<law, edits>>

Edit ==
    /\ edits < MaxEdits /\ edits' = edits + 1
    /\ \E p \in Packs, c \in Contents : c # law[p] /\ law' = [law EXCEPT ![p] = c]
    /\ UNCHANGED run

RunNext == Gate \/ Select \/ Admit \/ Node \/ Commit

-----------------------------------------------------------------------------
(* Properties.                                                             *)

(* The order is one every upstream goes first in, and there is none        *)
(* exactly when some node is on a cycle; and the nodes named then are      *)
(* those on one, not those that merely wait behind it (Order's comment).   *)
Cyclic(g) ==
    {n \in Ids(g) :
        \A s \in SUBSET Ids(g) :
            (Followers(g, n) \subseteq s /\ \A m \in s : Followers(g, m) \subseteq s) => n \in s}

OrderExact ==
    run # Idle /\ run.pc = "begin" =>
        LET order == Order(Graph)
            place(n) == CHOOSE k \in DOMAIN order : order[k] = n
        IN  /\ CycleMembers(Graph) = Cyclic(Graph)
            /\ Cyclic(Graph) = {} <=> Range(order) = Ids(Graph)
            /\ \A n \in Range(order) : \A m \in Ids(Graph) :
                 n \in Followers(Graph, m) => m \in Range(order) /\ place(m) < place(n)

(* A node is evaluated against exactly what its caller gave and its        *)
(* in-edges declare: every upstream's outcome at its pointer and the       *)
(* state of every fed requirement, nothing of them left out or written     *)
(* over.  And whether the inputs collide with the graph is a matter of the *)
(* two: an evaluation never decides it.  A requirement that an edge feeds  *)
(* has only the states its coverage reckons with.                          *)
DeclaredFacts(n) ==
    LET given == Given[n].facts
        fed == {e \in Range(Graph.edges) :
                  e.to = n /\ e.fact # None /\ Produced[e.from].kind = "outcome"}
    IN  (IF given = None THEN {} ELSE {<<p, given[p]>> : p \in {q \in DOMAIN given : given[q] # "object"}})
        \cup {<<e.fact, Produced[e.from].id>> : e \in fed}

DeclaredEvidence(n) ==
    LET given == Given[n].evidence
    IN  (IF given = None THEN {} ELSE {<<r, given[r]>> : r \in DOMAIN given})
        \cup {<<e.evidence, State(e, Produced[e.from])>> :
                e \in {x \in Range(Graph.edges) : x.to = n /\ x.evidence # None}}

EvidenceConflict ==
    \E e \in Range(Graph.edges) :
        e.evidence # None /\ Given[e.to].evidence # None /\ e.evidence \in DOMAIN Given[e.to].evidence

FeedsExact ==
    run # Idle =>
        /\ \A k \in DOMAIN run.nodes :
             LET e == run.nodes[k]
             IN  /\ {<<p, e.facts[p]>> : p \in {q \in DOMAIN e.facts : e.facts[q] # "object"}}
                      = DeclaredFacts(e.node)
                 /\ {<<r, e.evidence[r]>> : r \in DOMAIN e.evidence} = DeclaredEvidence(e.node)
                 /\ \A r \in DOMAIN e.evidence : e.evidence[r] \in EdgeFedStates(Graph, e.node, r)
        /\ run.failure = "fact-conflict" => FactsConflict(Graph, Given) /\ run.nodes = << >>
        /\ run.failure = "evidence-conflict" => EvidenceConflict
        /\ run.pc = "commit" => ~ FactsConflict(Graph, Given) /\ ~ EvidenceConflict

(* A plan is exact: the order of the nodes and what each is fed are what   *)
(* the graph declares, in whatever order it lists its nodes and edges.     *)
PlanExact == OrderExact /\ FeedsExact

(* A graph applies one evaluator contract: whatever was edited between the *)
(* selection and any node's own read, every node of a run that is reported *)
(* was evaluated under the contract the composite states.                  *)
OneContract ==
    run # Idle /\ run.pc = "commit" =>
        \A k \in DOMAIN run.nodes : Selection(run.nodes[k].content) = run.contract
=============================================================================
