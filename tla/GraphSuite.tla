----------------------------- MODULE GraphSuite -----------------------------
(***************************************************************************)
(* The matrices of graphs (graph/rows.go, graph/suite.go): one graph's     *)
(* rows, or every configured graph's, each row one run, under a budget of  *)
(* bytes for the whole report.  A component of the report is one or more   *)
(* bytes long: a row, a coverage block, the envelope of an entry of a      *)
(* suite or of a report of its own.                                        *)
(***************************************************************************)
EXTENDS GraphRun

CONSTANTS
    Tasks,          \* what may be asked: a run, a graph's test, a suite
    Requirements,   \* what every pack that can be read declares
    Outside,        \* rows at a path that leaves the project
    RowBytes, CoverageBytes, EntryBytes, TestBytes, SuiteBytes,
    CoreBudget      \* the budget a report of core 0.3 always has

VARIABLE suite

vars == <<law, run, edits, suite>>

(* A task is [run, direct, entries, budget]: a run alone, or entries       *)
(* [graph, rows] to test, directly or as a suite, under a budget or None.  *)
(* A graph or its rows may be None: they cannot be loaded, nor those that  *)
(* are Outside; and an entry may declare no rows.  A row is                *)
(* [inputs, expected, nodes]: the headline or the class of error it        *)
(* expects, and what it expects of some nodes.  A suite may also only be   *)
(* validated.                                                              *)
Testing == suite # None
Direct == suite.task.direct
Entries == suite.task.entries
Entry == Entries[suite.at]
Rows == Entry.rows

(* A budget holds what is within it; where there is none nothing is        *)
(* charged.  (A test has the suite's, or its own.)                         *)
Fits(budget, spent) == budget = None \/ spent <= budget
Charge(budget, bytes) == suite.spent + (IF budget = None THEN 0 ELSE bytes)
BudgetOf(budget, contract) ==
    IF contract = "core" /\ (budget = None \/ budget > CoreBudget) THEN CoreBudget ELSE budget

Start(task) ==
    [task |-> task,
     pc |-> IF task.validating THEN "validate" ELSE IF task.direct THEN "entry" ELSE "preflight",
     at |-> 1, row |-> 1, contract |-> None, applied |-> None,
     budget |-> task.budget, limit |-> None, spent |-> 0, before |-> 0,
     entries |-> << >>, rows |-> << >>, probes |-> {},
     status |-> IF task.validating THEN "valid" ELSE "passed", failure |-> "none"]

Moves(to) == suite' = to
Fails(why) == Moves([suite EXCEPT !.pc = "done", !.failure = why])
Runs(mode, graph, inputs, wanted) ==
    run' = Begin([graph |-> graph, inputs |-> inputs, wanted |-> wanted, mode |-> mode])
Fixed == UNCHANGED <<law, edits>>

-----------------------------------------------------------------------------
(* TestProject's preflight: one contract over every entry that has rows    *)
(* and a graph that can be selected for.                                   *)

Preflight ==
    /\ Testing /\ suite.pc = "preflight" /\ run = Idle
    /\ IF suite.at > Len(Entries)
       THEN /\ Moves([suite EXCEPT !.pc = "entry", !.at = 1,
                        !.budget = BudgetOf(@, suite.contract)])
            /\ UNCHANGED run
       ELSE IF Entry.graph = None \/ Entry.rows = << >> \/ Structural(Entry.graph, Packs) # {}
       THEN Moves([suite EXCEPT !.at = @ + 1]) /\ UNCHANGED run
       ELSE Runs("select", Entry.graph, None, None) /\ UNCHANGED suite
    /\ Fixed

Preflighted ==
    /\ Testing /\ suite.pc = "preflight" /\ run # Idle /\ run.pc = "done"
    /\ run' = Idle
    /\ IF run.failure \in {"profile-unsupported", "mixed-contract"} THEN Fails(run.failure)
       ELSE IF run.failure # "none" THEN Moves([suite EXCEPT !.at = @ + 1])
       ELSE IF suite.contract \notin {None, run.contract} THEN Fails("mixed-contract")
       ELSE Moves([suite EXCEPT !.at = @ + 1, !.contract = run.contract])
    /\ Fixed

-----------------------------------------------------------------------------
(* ValidateProject: every entry is reported, whatever another one is, and  *)
(* rows are only held to their place.                                      *)

Required(g) ==
    [n \in Ids(g) |-> IF law[g.nodes[n]] \in {"broken", "gone"} THEN None ELSE Requirements]

ValidateEntry ==
    /\ Testing /\ suite.pc = "validate"
    /\ LET valid == Entry.graph # None /\ Entry.rows # Outside
                    /\ Semantic(Entry.graph, Packs, Required(Entry.graph)) = {}
           end == suite.at = Len(Entries)
       IN  Moves([suite EXCEPT !.pc = IF end THEN "done" ELSE @, !.at = @ + 1,
                    !.entries = Append(@, [valid |-> valid]),
                    !.status = IF valid THEN @ ELSE "invalid"])
    /\ UNCHANGED run /\ Fixed

-----------------------------------------------------------------------------
(* testEntry and Test.                                                     *)

(* An entry costs its encoding beyond what was charged while it was built. *)
ChargeEntry(entry) ==
    LET charged == suite.spent - suite.before
    IN  Charge(suite.budget, IF entry.bytes > charged THEN entry.bytes - charged ELSE 0)

(* The entry is added to the suite's report, and its envelope charged; a   *)
(* graph tested directly has an envelope of its own.                       *)
EndEntry(status, tested) ==
    LET built == IF tested THEN Len(suite.rows) * RowBytes + CoverageBytes ELSE 0
        entry == [status |-> status, rows |-> IF tested THEN suite.rows ELSE << >>,
                  contract |-> suite.applied, probes |-> IF tested THEN suite.probes ELSE {},
                  bytes |-> built + (IF Direct THEN TestBytes ELSE EntryBytes)]
        spent == ChargeEntry(entry)
        on == [suite EXCEPT !.entries = Append(@, entry), !.spent = spent, !.before = spent,
                            !.rows = << >>, !.row = 1, !.probes = {}, !.at = @ + 1, !.applied = None,
                            !.status = IF status = "mismatch" THEN status ELSE @]
    IN  Moves(IF ~ Fits(suite.budget, spent) THEN [on EXCEPT !.pc = "done", !.failure = "report-budget"]
              ELSE [on EXCEPT !.pc = IF suite.at = Len(Entries) THEN "finish" ELSE "entry"])

(* What stops a graph is its own mismatch; asked directly, a refusal.      *)
Stops(why) == IF Direct THEN Fails(why) ELSE EndEntry("mismatch", FALSE)

TestEntry ==
    /\ Testing /\ suite.pc = "entry"
    /\ IF Entry.rows = << >> /\ ~ Direct THEN EndEntry("skipped", FALSE) /\ UNCHANGED run
       ELSE IF Entry.graph = None \/ Entry.rows \in {None, Outside} THEN Stops("load") /\ UNCHANGED run
       ELSE IF Structural(Entry.graph, Packs) # {} THEN Stops("graph-invalid") /\ UNCHANGED run
       ELSE /\ Moves([suite EXCEPT !.pc = "selecting"])
            /\ Runs("select", Entry.graph, None, None)
    /\ Fixed

(* A pack that cannot be selected for leaves the rows to their own         *)
(* assertions, under the legacy contract.                                  *)
TestSelected ==
    /\ Testing /\ suite.pc = "selecting" /\ run.pc = "done"
    /\ run' = Idle
    /\ LET contract == IF run.failure = "none" THEN run.contract ELSE "legacy"
       IN  IF run.failure = "profile-unsupported" THEN Fails(run.failure)
           ELSE IF Entry.rows = << >> THEN Fails("rows-empty")
           ELSE IF run.failure = "mixed-contract"
                   \/ (run.failure = "none" /\ suite.contract \notin {None, contract})
           THEN Fails("mixed-contract")
           ELSE LET limit == BudgetOf(suite.budget, contract)
                IN  Moves([suite EXCEPT !.pc = "row", !.applied = contract, !.limit = limit,
                             !.budget = IF Direct THEN limit ELSE @])
    /\ Fixed

Row ==
    /\ Testing /\ suite.pc = "row" /\ run = Idle
    /\ Runs("evaluate", Entry.graph, Entry.rows[suite.row].inputs, suite.applied)
    /\ UNCHANGED suite
    /\ Fixed

(* runRow: the composite headline is compared and then the nodes, or that  *)
(* the run was refused with the class the row expects.  Only refusals of   *)
(* the evaluator have one, here one for all that a node's evaluation may   *)
(* come to; no row names the empty class.                                  *)
Classed == run.failure \in {"evaluation-error", "pack-not-conformant", "facts-oversized"}
Judged(row) ==
    IF \/ Classed /\ row.expected = [kind |-> "class", id |-> run.failure]
       \/ /\ run.failure = "none" /\ row.expected = run.report.headline
          /\ \A n \in DOMAIN row.nodes : n \in Ids(Graph) /\ row.nodes[n] = Produced[n]
    THEN "passed" ELSE "mismatch"

JudgeRow ==
    /\ Testing /\ suite.pc = "row" /\ run # Idle /\ run.pc = "done"
    /\ run' = Idle
    /\ LET row == [status |-> Judged(Entry.rows[suite.row]),
                   produced |-> IF run.failure = "none" THEN Produced ELSE None,
                   contracts |-> {Selection(run.nodes[k].content) : k \in DOMAIN run.nodes}]
           on == [suite EXCEPT !.rows = Append(@, row), !.row = @ + 1,
                         !.spent = Charge(suite.limit, RowBytes)]
       IN  Moves(IF ~ Fits(suite.limit, on.spent) THEN [on EXCEPT !.pc = "done", !.failure = "report-budget"]
                 ELSE IF suite.row = Len(Entry.rows) THEN [on EXCEPT !.pc = "coverage"] ELSE on)
    /\ Fixed

(* coverage: what the rows expect, whether or not it held, of what each    *)
(* pack is found to be able to do.  (What one can do is module Probes': a  *)
(* pack that is admitted is taken to be able to do either.)                *)
Branch(expected) == IF expected.kind = "outcome" THEN "resolved" ELSE "unresolved"
Witnesses ==
    UNION {LET row == Rows[k] IN
           IF row.expected.kind = "class" THEN {}
           ELSE {[node |-> Entry.graph.result, branch |-> Branch(row.expected)]}
                \cup {[node |-> n, branch |-> Branch(row.nodes[n])] : n \in DOMAIN row.nodes} :
           k \in DOMAIN Rows}
Abilities ==
    [n \in Ids(Entry.graph) |->
        IF Selection(law[Entry.graph.nodes[n]]) = suite.applied THEN {"resolved", "unresolved"} ELSE {}]

(* The coverage block is charged, and the entry or the report ends.        *)
Coverage ==
    /\ Testing /\ suite.pc = "coverage"
    /\ LET spent == Charge(suite.limit, CoverageBytes)
       IN  IF ~ Fits(suite.limit, spent) THEN Fails("report-budget")
           ELSE Moves([suite EXCEPT !.pc = "end", !.spent = spent,
                         !.probes = EdgeProbes(Entry.graph, Abilities, Witnesses)])
    /\ UNCHANGED run /\ Fixed

End ==
    /\ Testing /\ suite.pc = "end"
    /\ EndEntry(IF \A k \in DOMAIN suite.rows : suite.rows[k].status = "passed"
                THEN "passed" ELSE "mismatch", TRUE)
    /\ UNCHANGED run /\ Fixed

(* A suite in which no row ran at all was skipped; one of core 0.3 is held *)
(* to the budget with its own envelope.                                    *)
RowsRun == FlattenSeq([k \in DOMAIN suite.entries |-> suite.entries[k].rows])

Finish ==
    /\ Testing /\ suite.pc = "finish"
    /\ IF suite.contract = "core" /\ suite.spent + SuiteBytes > suite.budget
       THEN Fails("report-budget")
       ELSE Moves([suite EXCEPT !.pc = "done",
                     !.status = IF @ = "passed" /\ RowsRun = << >> THEN "skipped" ELSE @])
    /\ UNCHANGED run /\ Fixed

Init ==
    /\ law \in [Packs -> {"old"}] \cup {[p \in Packs |-> "new"]} /\ edits = 0
    /\ \E t \in Tasks :
         IF t.run # None THEN run = Begin(t.run) /\ suite = None
         ELSE run = Idle /\ suite = Start(t)

(* A plan and a task that ended see no edit.                               *)
Working == IF Testing THEN suite.pc # "done" ELSE run.pc # "done" /\ run.asked.mode # "plan"

Next ==
    \/ RunNext /\ UNCHANGED suite
    \/ Working /\ Edit /\ UNCHANGED suite
    \/ ValidateEntry \/ Preflight \/ Preflighted \/ TestEntry \/ TestSelected
    \/ Row \/ JudgeRow \/ Coverage \/ End \/ Finish

Spec == Init /\ [][Next]_vars

-----------------------------------------------------------------------------
(* Properties.                                                             *)

(* A test says passed only of rows that ran and passed, at least one of    *)
(* them, and each of them was produced under the one contract its report   *)
(* is labelled with, whatever was edited since that was selected; a branch *)
(* of an edge that it reports as covered is one that a row of it took; and *)
(* a report is within its budget with every component that it retains      *)
(* charged once, and none that is discarded (Test, TestProject, coverage). *)
Retained ==
    FoldLeft(LAMBDA n, e : n + e.bytes, 0, suite.entries) + Len(suite.rows) * RowBytes
        + (IF suite.pc = "end" THEN CoverageBytes ELSE 0)

Took(graph, row, probe) ==
    row.produced # None /\ Branch(row.produced[graph.edges[probe.edge].from]) = probe.branch

ReportTrue ==
    /\ OneContract
    /\ Testing /\ ~ suite.task.validating =>
        /\ suite.budget # None =>
             suite.spent = Retained /\ (suite.failure = "none" => suite.spent <= suite.budget)
        /\ suite.pc = "done" /\ suite.failure = "none" /\ suite.status = "passed" =>
             /\ RowsRun # << >>
             /\ \A k \in DOMAIN Entries : Len(suite.entries[k].rows) = Len(Entries[k].rows)
        /\ \A k \in DOMAIN suite.entries :
             LET entry == suite.entries[k]
             IN  /\ \A j \in DOMAIN entry.rows : entry.rows[j].contracts \subseteq {entry.contract}
                 /\ suite.contract = "legacy" => entry.contract # "core"
                 /\ entry.status = "passed" =>
                      /\ \A j \in DOMAIN entry.rows : entry.rows[j].status = "passed"
                      /\ \A p \in entry.probes : p.covered =>
                           \E j \in DOMAIN entry.rows : Took(Entries[k].graph, entry.rows[j], p)
=============================================================================
