--------------------------- MODULE GraphDocument ---------------------------
(***************************************************************************)
(* The decision graph as a document (graph/document.go, the pure parts of  *)
(* graph/evaluate.go): its structural rules, its order, and what its edges *)
(* feed to a node.  A graph is                                             *)
(* [nodes: a function from ids to packs, edges: a sequence, result: an id] *)
(* and an edge [from, to, fact, evidence, otherwise]: the pointer it       *)
(* writes and the requirement it answers, or None, and the state it        *)
(* answers with when there is no outcome (onUnresolved).  Node ids are     *)
(* numbers, a pointer is the sequence of its decoded tokens, and a facts   *)
(* document is a function from the pointers there are in it to "object" or *)
(* a value.                                                                *)
(***************************************************************************)
EXTENDS Naturals, FiniteSets, Sequences, SequencesExt

CONSTANTS
    None,
    PointerDepth,       \* MaxFactPointerDepth
    InjectionBudget     \* outcome ids that may be injected into one node

Ids(g) == DOMAIN g.nodes

Relates(g, e) == e.from # e.to /\ e.from \in Ids(g) /\ e.to \in Ids(g)

Followers(g, n) == {m \in Ids(g) : \E e \in Range(g.edges) : Relates(g, e) /\ e.from = n /\ e.to = m}

-----------------------------------------------------------------------------
(* The order: the smallest id whose upstream nodes have all gone before.   *)

RECURSIVE OrderAfter(_, _)
OrderAfter(g, done) ==
    LET ready == {n \in Ids(g) \ Range(done) :
                     \A m \in Ids(g) : n \in Followers(g, m) => m \in Range(done)}
    IN  IF ready = {} THEN done ELSE OrderAfter(g, Append(done, Min(ready)))

Order(g) == OrderAfter(g, << >>)

(* A follower that was met before counts only while it is on the stack.    *)
SeenFollower(t, v, w) ==
    IF w \in Range(t.stack) THEN [t EXCEPT !.low[v] = Min({@, t.index[w]})] ELSE t

(* Tarjan's components: connect.                                           *)
RECURSIVE Connect(_, _, _)
Connect(g, t, v) ==
    LET entered == [t EXCEPT !.index[v] = t.next, !.low[v] = t.next, !.next = @ + 1,
                             !.stack = Append(@, v)]
        Visit(s, w) ==
            IF s.index[w] # None THEN SeenFollower(s, v, w)
            ELSE LET c == Connect(g, s, w) IN [c EXCEPT !.low[v] = Min({@, c.low[w]})]
        left == FoldLeft(Visit, entered, SetToSortSeq(Followers(g, v), <))
        at == CHOOSE k \in DOMAIN left.stack : left.stack[k] = v
        component == SubSeq(left.stack, at, Len(left.stack))
    IN  IF left.low[v] # left.index[v] THEN left
        ELSE [left EXCEPT !.stack = SubSeq(@, 1, at - 1),
                          !.members = @ \cup (IF Len(component) > 1 THEN Range(component) ELSE {})]

CycleMembers(g) ==
    LET unseen == [n \in Ids(g) |-> None]
        start == [index |-> unseen, low |-> unseen, next |-> 0, stack |-> << >>, members |-> {}]
        Root(t, n) == IF t.index[n] = None THEN Connect(g, t, n) ELSE t
    IN  FoldLeft(Root, start, SetToSortSeq(Ids(g), <)).members

-----------------------------------------------------------------------------
(* Structural: what refuses a graph before anything of it runs.            *)

PathsOverlap(p, q) == IsPrefix(p, q) \/ IsPrefix(q, p)

(* One pointer of a node, and what is inside it, has one feeding edge; and *)
(* one requirement.                                                        *)
FeedsTwice(g, i) ==
    \E j \in 1 .. i - 1 :
        LET e == g.edges[i]  before == g.edges[j]
        IN  /\ before.to = e.to
            /\ \/ e.fact # None /\ before.fact # None /\ PathsOverlap(before.fact, e.fact)
               \/ e.evidence # None /\ before.evidence = e.evidence

Structural(g, configured) ==
    {<<"pack", n>> : n \in {m \in Ids(g) : g.nodes[m] \notin configured}}
    \cup {<<"endpoint", i>> : i \in {j \in DOMAIN g.edges : ~ {g.edges[j].from, g.edges[j].to} \subseteq Ids(g)}}
    \cup {<<"self", i>> : i \in {j \in DOMAIN g.edges : g.edges[j].from = g.edges[j].to}}
    \cup {<<"twice", i>> : i \in {j \in DOMAIN g.edges : g.edges[j].to \in Ids(g) /\ FeedsTwice(g, j)}}
    \cup {<<"depth", i>> : i \in {j \in DOMAIN g.edges : /\ g.edges[j].fact # None
                                                         /\ Len(g.edges[j].fact) > PointerDepth}}
    \cup {<<"result", n>> : n \in {g.result} \ Ids(g)}
    \cup {<<"cycle", n>> : n \in IF Len(Order(g)) = Cardinality(Ids(g)) THEN {} ELSE CycleMembers(g)}

-----------------------------------------------------------------------------
(* What the packs of a graph have to do with it: required[n] is what the   *)
(* pack of a node declares, or None where it cannot be read.               *)

(* Semantic: a validation also holds every evidence feed to its pack.      *)
Semantic(g, configured, required) ==
    LET fed == {e.to : e \in {x \in Range(g.edges) : x.evidence # None}}
    IN  Structural(g, configured)
        \cup {<<"pack-read", n>> : n \in {m \in fed \cap Ids(g) : g.nodes[m] \in configured /\ required[m] = None}}
        \cup {<<"undeclared", i>> : i \in {j \in DOMAIN g.edges :
                LET e == g.edges[j]
                IN  /\ e.evidence # None /\ e.to \in Ids(g) /\ g.nodes[e.to] \in configured
                    /\ required[e.to] # None /\ e.evidence \notin required[e.to]}}

(* Plan: the order, and what each node is fed.                             *)
PlanOf(g) ==
    [k \in DOMAIN Order(g) |->
        [node |-> Order(g)[k], feeds |-> SelectSeq(g.edges, LAMBDA e : e.to = Order(g)[k])]]

-----------------------------------------------------------------------------
(* Coverage: a row witnesses a node by the disposition that it expects of  *)
(* it, and an edge is probed in the branches its upstream's pack can take. *)
(* A witness is [node, branch], abilities[n] the branches of a node that     *)
(* derives anything.                                                       *)

EdgeProbes(g, abilities, witnesses) ==
    UNION {{[edge |-> i, branch |-> b,
             covered |-> \E w \in witnesses : w.node = g.edges[i].from /\ w.branch = b] :
               b \in abilities[g.edges[i].from]} : i \in DOMAIN g.edges}

(* The states that the in-edges of a node leave a row able to supply.      *)
EdgeFedStates(g, n, r) ==
    LET feeding == {e \in Range(g.edges) : e.to = n /\ e.evidence = r}
    IN  IF feeding = {} THEN {"present", "absent", "unknown"}
        ELSE UNION {{"present", e.otherwise} : e \in feeding}

-----------------------------------------------------------------------------
(* Facts documents.                                                        *)

Through(p) == {SubSeq(p, 1, k) : k \in 1 .. Len(p) - 1}

(* callerCollision: there is a value at the pointer, or what it goes       *)
(* through is no object.                                                   *)
Collides(facts, p) ==
    \/ facts[<< >>] # "object"
    \/ \E q \in Through(p) \cap DOMAIN facts : facts[q] # "object"
    \/ p \in DOMAIN facts

Empty == [p \in {<< >>} |-> "object"]

InjectFact(facts, p, value) ==
    [q \in DOMAIN facts \cup Through(p) \cup {p} |->
        IF q = p THEN value ELSE IF q \in DOMAIN facts THEN facts[q] ELSE "object"]

(* EvidenceFeed.State.                                                     *)
State(e, disposition) == IF disposition.kind = "outcome" THEN "present" ELSE e.otherwise

-----------------------------------------------------------------------------
(* What a node is evaluated against: the documents its caller gave, and    *)
(* what its in-edges feed, edge after edge.                                *)

(* Mutant: a feed over the budget is left out and the node goes on.        *)
FeedFactDropping(a, e, up) ==
    IF e.fact = None \/ up.kind # "outcome" \/ a.injected = InjectionBudget THEN a
    ELSE IF Collides(a.facts, e.fact) THEN [a EXCEPT !.refusal = "fact-conflict"]
    ELSE [a EXCEPT !.injected = @ + 1, !.facts = InjectFact(a.facts, e.fact, up.id)]

FeedFact(a, e, up) ==
    IF e.fact = None \/ up.kind # "outcome" \/ a.oversized THEN a
    ELSE IF a.injected = InjectionBudget THEN [a EXCEPT !.oversized = TRUE]
    ELSE IF Collides(a.facts, e.fact) THEN [a EXCEPT !.refusal = "fact-conflict"]
    ELSE [a EXCEPT !.injected = @ + 1, !.facts = InjectFact(a.facts, e.fact, up.id)]

FeedEvidence(a, e, up) ==
    IF e.evidence = None THEN a
    ELSE IF e.evidence \in DOMAIN a.evidence THEN [a EXCEPT !.refusal = "evidence-conflict"]
    ELSE [a EXCEPT !.evidenceSupplied = TRUE,
                   !.evidence = [r \in DOMAIN @ \cup {e.evidence} |->
                                    IF r = e.evidence THEN State(e, up) ELSE @[r]]]

(* (The edges are in document order, and the first that conflicts ends the *)
(* run.)                                                                   *)
Assembled(g, n, given, dispositions) ==
    LET start == [facts |-> IF given.facts = None THEN Empty ELSE given.facts,
                  evidence |-> IF given.evidence = None THEN [r \in {} |-> None] ELSE given.evidence,
                  evidenceSupplied |-> given.evidence # None,
                  injected |-> 0, oversized |-> FALSE, refusal |-> "none"]
        Feed(a, e) ==
            IF a.refusal # "none" THEN a
            ELSE LET fed == FeedFact(a, e, dispositions[e.from])
                 IN  IF fed.refusal # "none" THEN fed ELSE FeedEvidence(fed, e, dispositions[e.from])
    IN  FoldLeft(Feed, start, SelectSeq(g.edges, LAMBDA e : e.to = n))

(* Evaluate's check of the fact edges against the inputs, which comes      *)
(* before any node runs.                                                   *)
FactsConflict(g, given) ==
    \E e \in Range(g.edges) :
        e.fact # None /\ given[e.to].facts # None /\ Collides(given[e.to].facts, e.fact)
=============================================================================
