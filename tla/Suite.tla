------------------------------- MODULE Suite --------------------------------
(***************************************************************************)
(* The test of a project's packs (project test.go, matrix.go,              *)
(* matrix_admission.go, inventory.go; evaluation contract.go, corpus.go):  *)
(* one contract is negotiated over every selected pack, then each pack is  *)
(* read again, its matrix is admitted and its rows are judged in order,    *)
(* under budgets that the whole run shares.  Files may be rewritten while  *)
(* the run goes on.                                                        *)
(*                                                                         *)
(* A row's target is "null", a name, or "malformed"; a file that cannot be *)
(* read is Unset.  Identities, labels and details are left out.            *)
(***************************************************************************)
EXTENDS Coverage

CONSTANTS
    Projects,           \* what is selected, which declare a matrix, and the files
    MaxMatrixCases,
    DispositionLength(_), \* the bytes of a canonical disposition, none for Unset
    TargetLength(_),    \* and of a rendered target
    DispositionBudget, TargetBudget, ProfileBudget

VARIABLES
    disk,   \* of each pack its document and its matrix
    suite   \* the run: where it is, the contract, what is spent, the entries

suiteVars == <<disk, suite>>

-----------------------------------------------------------------------------
(* One contract for the run.                                               *)

(* SelectContract: what the root declares, before any validation.          *)
SelectContract(d) ==
    CASE NegotiateProfile(d, Unset) = "unsupported" -> "profile-unsupported"
      [] NegotiateProfile(d, Unset) = "none" /\ d.carrier = "ok" /\ d.object /\ d.version \in Contracts ->
           d.version
      [] OTHER -> NoName

(* selectPackContract: other refusals are left to the rows.                *)
Refuses(held, found) ==
    \/ found = "profile-unsupported"
    \/ NoName \notin {held, found} /\ held # found
Settled(held, found) == IF found = NoName THEN held ELSE found
Version(contract) == IF contract = NoName THEN "0.2" ELSE contract

-----------------------------------------------------------------------------
(* The admission of a matrix.                                              *)

Since(row) == IF row.cites # "none" THEN 3 ELSE IF row.target # Unset THEN 2 ELSE 1

(* What DecodeMatrix asks of one row under a declared version.             *)
RowAdmitted(row, version) ==
    /\ row.shape = "ok" /\ Since(row) <= version
    /\ row.id # NoName /\ row.facts # Unset
    /\ row.disposition # Unset <=> row.class = NoName
    /\ row.phase # NoName => row.class # NoName
    /\ row.target # Unset => row.disposition # Unset /\ row.target # "malformed"
    /\ row.cites # "malformed"

DecodeMatrix(m) ==
    /\ m.carrier = "ok" /\ m.shape = "ok" /\ m.version \in 1..3
    /\ Len(m.cases) \in 1..MaxMatrixCases
    /\ \A i \in DOMAIN m.cases : RowAdmitted(m.cases[i], m.version)
    /\ Distinct(m.cases)

(* ValidateMatrixWith: every row accounted for, each decoded alone.        *)
RowValid(m, contract, i) ==
    LET row == m.cases[i]
    IN  /\ row.shape \notin {"array", "unknown"} /\ row.id # NoName /\ row.facts # Unset
        /\ \A j \in 1..(i - 1) : m.cases[j].id # row.id
        /\ DecodeMatrix([m EXCEPT !.cases = <<row>>])
        /\ row.disposition # Unset => LegalDisposition(row.disposition, contract)

ValidateMatrix(m, contract) ==
    LET admitsRows == /\ contract \in Contracts /\ m.carrier = "ok" /\ m.shape = "ok"
                      /\ m.version \in 1..3 /\ Len(m.cases) \in 1..MaxMatrixCases
        results == IF admitsRows THEN [i \in DOMAIN m.cases |-> RowValid(m, contract, i)] ELSE <<>>
    IN  [valid |-> admitsRows /\ FALSE \notin Range(results), results |-> results]

-----------------------------------------------------------------------------
(* One row.                                                                *)

Asked(row, contract) ==
    [kind |-> "evaluate", oversized |-> {}, facts |-> row.facts, evidence |-> row.evidence,
     options |-> [version |-> Version(contract), profiles |-> Unset, supported |-> row.supports,
                  quantifiers |-> FALSE, values |-> FALSE, comparable |-> FALSE, supplied |-> FALSE]]

Failing(d, r) ==
    IF Early(AdmitPack(d), r) # NoFailure THEN Early(AdmitPack(d), r)
    ELSE FirstFailure(Admit(d, r.options), r)

Produced(d, r) == Walk!Declared(d, Situation(r.facts.document, Presence(r, d)), FALSE)

(* PackHandoffTarget, rendered once for a pack; and what a row reports of  *)
(* it, which decides nothing.                                              *)
PackHandoffTarget(d) == IF d.escalation = Unset THEN Unset ELSE d.escalation.target
Reported(y, declared) ==
    CASE y.handoff.target = Unset -> "null"
      [] OTHER -> IF declared = Unset THEN "unavailable" ELSE declared
SameTarget(expected, y) == expected = (IF y.handoff.target = Unset THEN "null" ELSE y.handoff.target)

RowResult(passed, expected, actual, expectedTarget, actualTarget) ==
    [passed |-> passed, expected |-> expected, actual |-> actual,
     expectedTarget |-> expectedTarget, actualTarget |-> actualTarget]

(* A refused evaluation has no target to report.                           *)
RefusedRow(row, failure) ==
    RowResult(row.class = failure.class /\ row.phase \in {NoName, "preflight"}, row.disposition, Unset,
              row.target, IF row.target = Unset THEN Unset ELSE "unavailable")

Compared(row, declared, y) ==
    RowResult(row.disposition = Canonical(y) /\ (row.target # Unset => SameTarget(row.target, y)),
              row.disposition, Canonical(y), row.target,
              IF row.target = Unset THEN Unset ELSE Reported(y, declared))

(* RunCaseAdmittedWith.                                                    *)
RunCase(d, row, contract, declared) ==
    CASE row.disposition # Unset /\ ~LegalDisposition(row.disposition, Version(contract)) ->
           RowResult(FALSE, Unset, Unset, Unset, Unset)
      [] Failing(d, Asked(row, contract)) # NoFailure -> RefusedRow(row, Failing(d, Asked(row, contract)))
      [] OTHER -> Compared(row, declared, Produced(d, Asked(row, contract)))

Routed(d) == d.escalation # Unset /\ d.escalation.routes # Unset

(* A routed pack has no one target to assert.                              *)
Judged(d, row, contract, result) ==
    IF contract = "0.3" /\ Routed(d) /\ row.target # Unset THEN [result EXCEPT !.passed = FALSE] ELSE result

-----------------------------------------------------------------------------
(* The run.                                                                *)

PackAt == suite.project.order[suite.at]
Entry(status) ==
    [id |-> PackAt, status |-> status, pack |-> Unset, matrix |-> Unset, contract |-> NoName,
     target |-> Unset, rows |-> <<>>, coverage |-> Unset, profile |-> Unset]
Fail(why) == suite' = [suite EXCEPT !.pc = "failed", !.why = why, !.entries = <<>>, !.entry = Unset]
Close(entry) ==
    suite' = [suite EXCEPT !.pc = "starting", !.at = @ + 1, !.entry = Unset, !.entries = Append(@, entry)]

SuiteInit ==
    \E p \in Projects :
        /\ disk = p.files
        /\ suite = [project |-> p, pc |-> "negotiating", at |-> 1, contract |-> NoName, entry |-> Unset,
                    entries |-> <<>>, dispositions |-> 0, targets |-> 0, status |-> "none", why |-> "none"]

(* Every pack with a matrix that can be read, before any matrix.           *)
Negotiate ==
    /\ suite.pc = "negotiating" /\ suite.at <= Len(suite.project.order)
    /\ \E found \in {IF PackAt \notin suite.project.declared \/ disk[PackAt].pack = Unset THEN NoName
                     ELSE SelectContract(disk[PackAt].pack)} :
          IF Refuses(suite.contract, found) THEN Fail("contract")
          ELSE suite' = [suite EXCEPT !.at = @ + 1, !.contract = Settled(@, found)]
    /\ UNCHANGED disk

Negotiated ==
    /\ suite.pc = "negotiating" /\ suite.at > Len(suite.project.order)
    /\ suite' = [suite EXCEPT !.pc = "starting", !.at = 1]
    /\ UNCHANGED disk

(* The pack is read again, and must still agree with the contract.         *)
StartPack ==
    /\ suite.pc = "starting" /\ suite.at <= Len(suite.project.order)
    /\ IF PackAt \notin suite.project.declared
       THEN Close(Entry(IF suite.project.required THEN "mismatch" ELSE "skipped"))
       ELSE IF disk[PackAt].pack = Unset THEN Close(Entry("mismatch"))
       ELSE \E d \in {disk[PackAt].pack} : \E found \in {SelectContract(d)} :
              CASE Refuses(suite.contract, found) -> Fail("contract")
                [] ~Refuses(suite.contract, found) /\ (d.carrier # "ok" \/ ~d.object) ->
                     Close(Entry("mismatch"))
                [] OTHER ->
                     suite' = [suite EXCEPT !.pc = "loading", !.contract = Settled(@, found),
                                 !.entry = [Entry("passed") EXCEPT !.pack = d, !.contract = found]]
    /\ UNCHANGED disk

AssertsTarget(rows) == \E i \in DOMAIN rows : rows[i].target # Unset

LoadMatrix ==
    LET m == disk[PackAt].matrix
    IN  /\ suite.pc = "loading"
        /\ IF m = Unset THEN Close([suite.entry EXCEPT !.status = "mismatch"])
           ELSE IF ~DecodeMatrix(m) THEN Close([suite.entry EXCEPT !.status = "mismatch"])
           ELSE suite' = [suite EXCEPT !.pc = "running", !.entry.matrix = m,
                                      !.entry.target = IF AssertsTarget(m.cases) /\ ~Routed(suite.entry.pack)
                                                       THEN PackHandoffTarget(suite.entry.pack) ELSE Unset]
        /\ UNCHANGED disk

(* Each row is charged before it is retained.                              *)
RunRow ==
    LET e == suite.entry
        row == e.matrix.cases[Len(e.rows) + 1]
    IN  /\ suite.pc = "running" /\ Len(e.rows) < Len(e.matrix.cases)
        /\ \E r \in {Judged(e.pack, row, e.contract, RunCase(e.pack, row, e.contract, e.target))} :
           \E dispositions \in {suite.dispositions
                  + IF e.contract = "0.3" THEN DispositionLength(r.expected) + DispositionLength(r.actual) ELSE 0} :
           \E targets \in {suite.targets + TargetLength(r.expectedTarget) + TargetLength(r.actualTarget)} :
              CASE dispositions > DispositionBudget -> Fail("dispositions")
                [] dispositions <= DispositionBudget /\ targets > TargetBudget -> Fail("targets")
                [] OTHER ->
                     suite' = [suite EXCEPT !.dispositions = dispositions, !.targets = targets,
                                 !.entry.rows = Append(@, r),
                                 !.entry.status = IF r.passed THEN @ ELSE "mismatch"]
        /\ UNCHANGED disk

(* admitsForSomeRowWith: for no extensions, or for some row's.             *)
AdmitsForSomeRow(d, rows, contract) ==
    \E supports \in {{}} \cup {rows[i].supports : i \in DOMAIN rows} :
        \E a \in {Admit(d, [Asked(rows[1], contract).options EXCEPT !.supported = supports])} :
            a.failure = NoFailure /\ ~a.unsupported

(* testLoadedPack after its rows.                                          *)
FinishPack ==
    LET e == suite.entry
        rows == e.matrix.cases
        passed == [i \in DOMAIN e.rows |-> e.rows[i].passed]
    IN  /\ suite.pc = "running" /\ Len(e.rows) = Len(rows)
        /\ \E covering \in {AdmitsForSomeRow(e.pack, rows, e.contract)} :
              IF Origins(rows) # {} /\ ProfileWork(e.pack, rows, covering) > ProfileBudget
              THEN Fail("profile")
              ELSE Close([e EXCEPT
                     !.coverage = IF covering THEN CoverageFor(e.pack, rows, Version(e.contract)) ELSE Unset,
                     !.profile = IF Origins(rows) = {} THEN Unset
                                 ELSE ProfileFor(e.pack, rows, Version(e.contract), passed, covering)])
        /\ UNCHANGED disk

RowsRun(entries) == FoldLeft(LAMBDA n, e : n + Len(e.rows), 0, entries)

(* Zero rows is not a pass.                                                *)
Report ==
    /\ suite.pc = "starting" /\ suite.at > Len(suite.project.order)
    /\ suite' = [suite EXCEPT !.pc = "done",
                   !.status = CASE \E i \in DOMAIN suite.entries : suite.entries[i].status = "mismatch" ->
                                     "mismatch"
                                [] OTHER -> IF RowsRun(suite.entries) = 0 THEN "skipped" ELSE "passed"]
    /\ UNCHANGED disk

Rewrite ==
    /\ suite.pc \notin {"done", "failed"} /\ disk # suite.project.rewritten
    /\ disk' = suite.project.rewritten
    /\ UNCHANGED suite

SuiteNext ==
    \/ Rewrite \/ Negotiate \/ Negotiated \/ StartPack \/ LoadMatrix \/ RunRow \/ FinishPack \/ Report

-----------------------------------------------------------------------------
(* What a report says, of the packs and the matrices as they were read.    *)

Wrong(d, row, contract) ==
    {n \in DOMAIN Faults(d, Asked(row, contract)) : Faults(d, Asked(row, contract))[n][1]}

(* A row holds or does not, whatever decides it.                           *)
Holds(d, row, contract) ==
    IF row.class # NoName
    THEN /\ Wrong(d, row, contract) # {}
         /\ Faults(d, Asked(row, contract))[Min(Wrong(d, row, contract))][2] = row.class
         /\ row.phase \in {NoName, "preflight"}
    ELSE /\ Wrong(d, row, contract) = {}
         /\ \E y \in {Produced(d, Asked(row, contract))} :
               /\ Canonical(y) = row.disposition
               /\ row.target = Unset \/ (SameTarget(row.target, y) /\ ~Routed(d))

(* Every ordered comparison of a stage at one boundary, strict for not.    *)
Other == [o \in OrderedOperators |->
    CASE o = "less-than" -> "less-than-or-equal" [] o = "less-than-or-equal" -> "less-than"
      [] o = "greater-than" -> "greater-than-or-equal" [] OTHER -> "greater-than"]
RECURSIVE Turned(_, _)
Turned(c, b) ==
    CASE c.op \in {"all", "any"} ->
           [c EXCEPT !.conditions = [i \in DOMAIN c.conditions |-> Turned(c.conditions[i], b)]]
      [] c.op = "not" -> [c EXCEPT !.condition = Turned(c.condition, b)]
      [] c.op = "fact" -> IF Sited(c, b) THEN [c EXCEPT !.operator = Other[@]] ELSE c
      [] OTHER -> c
TurnedAt(d, b, stage) ==
    LET Each(seq) == [i \in DOMAIN seq |-> [seq[i] EXCEPT !.when = Turned(@, b)]]
    IN  CASE stage = "applicability" -> [d EXCEPT !.applicability = Turned(@, b)]
          [] stage = "exceptions" -> [d EXCEPT !.exceptions = Each(@)]
          [] OTHER -> [d EXCEPT !.rules = Each(@)]

(* What an evaluation came to is among what was derived, with evidence no  *)
(* wider than it had; a row that passed covers it.                         *)
ProbesHonest(e) ==
    \A i \in DOMAIN e.rows : Wrong(e.pack, e.matrix.cases[i], e.contract) = {} =>
        \E r \in {Asked(e.matrix.cases[i], e.contract)} : \E y \in {Canonical(Produced(e.pack, r))} :
        \E told \in {IF y.kind = "outcome" THEN {<<"outcome", y.outcome>>}
                     ELSE {<<"reason", x>> : x \in y.reasons}} :
            /\ told \subseteq PackProbes(e.pack, [q \in Ids(e.pack.requirements) |-> {Presence(r, e.pack)[q]}])
            /\ e.coverage # Unset
            /\ e.rows[i].passed => \A p \in told : e.coverage.probes[p] \in 1..i

(* A boundary is called missing only where no row that passed tells strict *)
(* from not: nothing the matrix pins is demanded again.                    *)
BoundariesHonest(e) ==
    e.coverage # Unset =>
        \A b \in DOMAIN e.coverage.boundaries : \A stage \in DOMAIN e.coverage.boundaries[b] :
            e.coverage.boundaries[b][stage] = 0 =>
                \A i \in DOMAIN e.rows : e.rows[i].passed /\ e.rows[i].actual # Unset =>
                    \E r \in {Asked(e.matrix.cases[i], e.contract)} :
                        Canonical(Produced(TurnedAt(e.pack, b, stage), r)) = e.rows[i].actual

(* Where an origin's rows lie, in no order.                                *)
Lying(e, o, b, side) ==
    {i \in DOMAIN e.rows :
        /\ e.matrix.cases[i].origin = o
        /\ IsDecimal(e.matrix.cases[i].facts.document[b[1]])
        /\ Side(e.matrix.cases[i].facts.document[b[1]].num, b[2]) = side}
NearestOf(e, b, S) ==
    LET Off(i) == LET n == e.matrix.cases[i].facts.document[b[1]].num IN IF n < b[2] THEN b[2] - n ELSE n - b[2]
    IN  IF S = {} THEN Unset
        ELSE e.matrix.cases[Min({i \in S : \A j \in S : Off(i) <= Off(j)})].facts.document[b[1]]
ProfileHonest(e) ==
    e.profile # Unset =>
        \A o \in DOMAIN e.profile : \A b \in DOMAIN e.profile[o].thresholds : \A side \in Sides :
            \E S \in {Lying(e, o, b, side)} : \E not \in {{i \in S : ~e.rows[i].passed}} :
                e.profile[o].thresholds[b][side] =
                    [rows |-> Cardinality(S), disagreeing |-> Cardinality(not),
                     nearest |-> NearestOf(e, b, S), nearestDisagreeing |-> NearestOf(e, b, not)]

EntryTrue(e) ==
    e.matrix # Unset /\ Len(e.rows) = Len(e.matrix.cases) =>
        /\ \A i \in DOMAIN e.rows : e.rows[i].passed <=> Holds(e.pack, e.matrix.cases[i], e.contract)
        /\ \A i \in DOMAIN e.rows :
               e.rows[i].passed /\ e.rows[i].actual # Unset => e.rows[i].actualTarget = e.rows[i].expectedTarget
        /\ e.status = "passed" <=> \A i \in DOMAIN e.rows : e.rows[i].passed

(* A matrix is valid when it would run and its expectations are legal.     *)
OneGate(m) ==
    \A k \in Contracts : ValidateMatrix(m, k).valid <=>
        /\ DecodeMatrix(m)
        /\ \A i \in DOMAIN m.cases : m.cases[i].disposition # Unset =>
               LegalDisposition(m.cases[i].disposition, k)

OneContract ==
    \A i, j \in DOMAIN suite.entries :
        NoName \notin {suite.entries[i].contract, suite.entries[j].contract} =>
            suite.entries[i].contract = suite.entries[j].contract
Retained(F(_)) == FoldLeft(LAMBDA n, e : n + FoldLeft(LAMBDA k, r : k + F(r), 0, e.rows), 0, suite.entries)

(* A report is true of what was read: a row passed when the pack, taken    *)
(* declaration by declaration, comes to what the row expects under the one *)
(* contract of the run, however the files were rewritten meanwhile; what   *)
(* coverage derives contains all that an evaluation came to, and what it   *)
(* calls missing no passing row shows; each side's nearest rows are the    *)
(* nearest; a matrix is admitted and validated by one rule; no rows is no  *)
(* pass; and a report over a budget is not made at all.                    *)
SuiteReportTrue ==
    suite.pc # "off" =>
        /\ suite.pc = "loading" /\ disk[PackAt].matrix # Unset => OneGate(disk[PackAt].matrix)
        /\ suite.pc = "failed" => suite.entries = <<>> /\ suite.status = "none"
        /\ suite.pc = "done" =>
              /\ \A i \in DOMAIN suite.entries :
                    /\ EntryTrue(suite.entries[i]) /\ suite.entries[i].id = suite.project.order[i]
                    /\ suite.entries[i].matrix = Unset => suite.entries[i].status # "passed"
                    /\ suite.entries[i].matrix # Unset =>
                          ProbesHonest(suite.entries[i]) /\ BoundariesHonest(suite.entries[i])
                          /\ ProfileHonest(suite.entries[i])
              /\ Len(suite.entries) = Len(suite.project.order) /\ OneContract
              /\ suite.status = "passed" =>
                    \E i \in DOMAIN suite.entries : suite.entries[i].rows # <<>>
              /\ Retained(LAMBDA r : TargetLength(r.expectedTarget) + TargetLength(r.actualTarget))
                    <= TargetBudget
=============================================================================
