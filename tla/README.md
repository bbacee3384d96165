# TLA+ models of the judgment-pack runtime

This directory is a verification project for the runtime under `src/`: TLA+
modules that model its stateful parts, TLC configurations that check them on
small instances, and TLAPS proofs of the results that matter most.
`PROJECT.json` lists the components, the runs, the mutants, the hazards, the
source lines each definition models and the theorems.

## 1. What the system is

`jpack` evaluates *judgment packs* (declarative decision documents) against
facts and evidence, alone or composed into decision graphs, and can keep an
audit trail of what was decided. It runs as a command line or an MCP server
over standard input. It has no daemon and no shared memory between calls: what
is concurrent is *processes* that append to one project's audit trail, each for
the length of one call, and an operator or an editor who changes files beside
them.

| Component | State it keeps | Operations | Talks to |
|---|---|---|---|
| audit writer (`internal/audit/audit.go`) | one writer per invocation: run id, whether it chains, its signer | `Evaluation`, `Composite`, `AppendAll` | the trail file, through fssecure; signing, through `then` |
| audit repair (`repair.go`) | none | `Repair`, `RepairExpecting` | the trail file |
| signing (`sign.go`) | the sidecar file; the key in force is what the sidecar's last rotation says | `signThen`, `Rotate` | trail and sidecar, under the trail's lock |
| verifier (`verify.go`, `verify_signatures.go`) | a reader's position | `Verify` | snapshots of trail, sidecar, stamps, witness statements |
| stamps (`stamp.go`, `internal/timestamp`) | the stamps file | `audit stamp` | an authority, over the network; the trail, unlocked |
| witness statements, checkpoints (`witness.go`, `checkpoint.go`) | a saved continuation | `Checkpoints`, `PrepareWitness` | a holder, a witness |
| audit exports (`wire.go`, `wire_history.go`) | slots of captures and of histories | `export_audit`, `export_history` pages | snapshots of the audit files |
| contained file access (`internal/fssecure`) | open files and their locks | `Append`, `AppendLockedThen`, `Replace`, `ReplaceByRename`, `OpenSnapshot` | the operating system |
| evaluator (`internal/evaluation`) | one evaluation's walk; a bounded memo of pack admissions | `EvaluateWith`, `EvaluateAdmitted`, `AdmitPack` | validation |
| decision graphs (`internal/graph`) | one run: node results, injected facts, held records | `Evaluate`, `Test`, `Suite` | evaluator, audit writer |
| reviewed set (`internal/lock`) | the lock file | `Generate`, `Open`, `Consult`, `VerifyDeciding` | project, fssecure, graph |
| MCP server (`internal/mcp`) | initialised or not | one line in, at most one line out | everything above |
| pack validation (`internal/validation`) | none | structural, semantic and overlap checks | the evaluator's preflight |
| project, policy, dialect, conformance, carrier, result, CLI | none between calls | documents in, reports out | each other |

What is hard here, and hard to test:

* **Writers interleave.** A chained record links to the bytes before it, so a
  writer reads the end of the file and then appends: a read and a write that
  must not be separated by another writer, in a file that may be renamed while
  it waits, on file systems that may offer no lock.
* **Writes are cut.** A process or the machine may die at any point, a write may
  be short, a sync may fail after the write landed. Nothing is ever rewritten,
  so every such end stays in the file and is dealt with by whoever comes next.
* **Two files are kept in step.** A signature is appended to a second file after
  the record it names; a crash leaves either without the other.
* **Others attest.** Stamps, statements and held checkpoints say what a trail
  was, while it goes on and while it may be altered; readings of them are saved
  and continued by several commands that nothing serialises.
* **Documents change under a decision.** A configuration, a lock, a pack or a
  graph may be edited between any two reads of one run.
* **Order decides.** The evaluator resolves exceptions, rules, evidence,
  fallback and escalation in a fixed order over three truth values, under a work
  limit that must not depend on the order of the document.
* **Two answers to one question.** The overlap check answers by a search of its
  own what the evaluator answers by evaluating.

What makes each component correct: a trail its writers left always verifies; an
acknowledged record stays; a composite is never without its nodes; a repair ends
exactly the damage that was confirmed; a signature never names what the trail
does not hold; a rotated key signs no more; no call waits for ever. What a
verification calls attested was there when it was attested; an export that
completes is one capture. A decision recorded as reviewed applied one declared
set and was recorded before it was reported. An evaluation answers what its pack
declares of the situation, in whatever order the pack lists its members; it is
refused for its work or not by the same rule; what it could not know never
decides, and is named. A graph's nodes run in order on what their edges declare.

## 2. The modules

    TrailBytes     the bytes of a trail: lines, pieces of records, digests
      TrailChain   readHead, chainedLines, repair, rotation, Verify: pure operators
        TrailWriter     the processes: open, lock, compose, write, sync, unlock
          SignedTrail   the same with the signature sidecar and key rotation
        Attesting       held checkpoints, statements and stamps in a verification
          AlteredTrail    a trail that is appended to, torn, repaired, cut, altered
            Witnessing      audit checkpoint and audit verify beside it
            Stamping        audit stamp beside it

    History        a window of the trail read backwards
      WirePager      exports of the audit files, in pages
        Session        the MCP server and its client

    ReviewedSet    what a configuration and a lock declare
      Decisions      what the deciding surfaces promise: an abstract specification
      Deciding       evaluate, graph evaluate, packs lock and verify beside edits

    GraphDocument  a graph's rules, order and feeds: pure operators
      GraphRun       one run beside edits of its packs
        GraphSuite     matrices and suites under a budget

    Conditions     condition trees and aggregates: verdicts, causes, charge
      Overlap        whether two rules may hold together, by search
        Comparable     whether every comparison can match, before an evaluation
          Admission      validation, the drafts, and the memo of admissions
            Coverage       what a matrix exercises of a pack
              Suite          matrices of packs run beside rewrites of their files
                Suggesting     the inputs that a pack's own conditions suggest
                  Checking       lint and validation of a configuration's packs
    Resolver       the walk of one evaluation over conditions given by verdict
      Advice         findings over a finite domain of such walks

Theorems are in `TrailChainProofs`, `TrailProofs`, `SignedTrailProofs`,
`StampingProofs`, `WitnessingProofs`, `SessionProofs`, `ResolverProofs` and
`DecidingProofs`; the `MC` modules instantiate the leaves for TLC.

### TrailBytes

A file is its bytes split at every newline, so `<<l>>` is a line with no newline
yet and `<<l, <<>>>>` a complete one. A line is a sequence of *pieces*: one
whole record normally, a beginning of one after a cut write, several where one
write landed behind another's unfinished line. A record's JSON text has `Body`
parts a cut can tell apart; with `Body = 2` a cut falls before the record, in
it, after its last byte and before its newline, or after the newline. A digest
is the structure of the bytes with every piece reduced to its author, index and
length: injective, as SHA-256 is assumed to be.

### TrailChain

`ReadHead`/`HeadRefusal` are `readHead`, `lastLine` and `readPrefix`;
`ChainedLines` is `chainedLines`; `RepairLines` and `Discontinuity` are
`repairLines` and `discontinuityAfter`; `RotateLines` is the compose function of
`Rotate`; `LineFindings`, `Excuses`, `Damaged` and `Verifies` are `Verify` with
its `check`, `checkDiscontinuity` and `closeSegment`. The verifier reads a file
from its start and the writer only its end. That the two agree is what most of
the properties rest on.

### TrailWriter

One process per call, `pc` its next system call. The steps are those of
`appendLockedThen`: `open`, `check` (sameRegularFile), `lock`, `recheck` (the
name again), `compose`, `write`, `sync`, `entry` (the directory), `then`
(signing), `unlock`. A writer with chain off goes through `Root.Append`: no
lock, no reading, no sync of the directory. At every step a call may fail, the
process may die, or the power may. `MoveAside` is the operator renaming the
trail. `Reopen` needs no change of the name: a failing check under the lock is
taken for one, as in the code. `file` is what the processes see, `durable` what a power loss cannot take;
`dir` and `durDir` likewise for the directory's entries.

Reads that are several system calls in the code and one step here: `compose`
reads the end of the file in one step. A chaining writer reads under the lock;
where it has no lock it reads nothing (`chainedLines` returns the unchained
bytes), so no interleaving is lost. The existing/absent race inside
`openForAppending` is one step, with its outcome or a failure.

### SignedTrail

Extends TrailWriter: the abstract `Then` step becomes opening the sidecar,
reading the key in force, appending the signatures and syncing them, each of
which may fail, be cut or be crashed in. `TrailSpec`, the specification of
TrailWriter, is checked as a property of it: signing changes nothing of the
trail. `SidecarFindings` is the verifier's reading (`verify_signatures.go`).

### Attesting, AlteredTrail, Witnessing, Stamping

`Attesting` adds to the verifier what is kept outside the trail: `checkHeld`,
the witness's statements (`WitnessInput.read`, with their order, links and
equivocation) and the stamp checker. `AlteredTrail` is the trail as those who
attest find it; since what makes appends safe is TrailWriter's, each is one step
here, and a cut or an alteration, which no command makes, is one too.

`Witnessing` is `audit checkpoint` and `audit verify`: a deliverer pages
checkpoints to a holder, a witness signs those submitted, and readers verify in
steps, each saving a continuation (`ReplaceByRename`) the next one resumes from.
The witness is another party: it may sign a second statement after any it has
signed. `Stamping` is `audit stamp`: read the head, hold the stamps file open
across the request to the authority, read the trail again, lock the stamps file,
look for a stamp of the same checkpoint, append. The authority's answer is its
clock's time or none; ASN.1 and certificates are not modelled.

### History, WirePager, Session

`History` is `historyWindow`: a window of the trail before an offset, its
matching lines newest first, and the offset to go on from. `WirePager` is the
pager of the two exports: a page is several steps (expiry, identity of the
files, read, decode, slot) under the pager's one mutex, while files are appended
to, renamed and written over between any two of them. `Session` is the server's
loop over it: lines, envelope checks, notifications, malformed input, and a
client that writes ahead, gives up and asks again with the cursor it still has.

### ReviewedSet, Decisions, Deciding

A configuration declares packs and graphs at paths; a lock declares a digest for
each. `Deciding` has one action for each *read* a deciding surface makes:
configuration, lock (`Consult`), documents (`VerifyDeciding`), the pack that is
evaluated, the second look of `RequireReviewed`, the append of the record, the
report; `packs lock` truncates and writes in two steps (`Root.Replace`) and may
stop between them; people edit everything between any two. `Decisions` promises
without saying how: a reviewed decision applies what one declared set says, a
project that requires reviewed law decides by no draft, an audited decision is
in the trail before it is reported, and neither ever changes. `DecisionsSpec` is
the refinement: `sets` and `reported` are themselves, and the abstract trail is
`DecisionsRead`, the trail read back: a decision for each evaluation or composite
record, at the record's place.

### GraphDocument, GraphRun, GraphSuite

`GraphDocument` has the structural rules, Tarjan's components as the code runs
them, the order in which nodes are taken, and what edges inject. `GraphRun` is
one run: the gate, the selection of a contract from a read of each pack, then
the nodes, each from a read of its own, so a pack edited in between is met in
its new form. `GraphSuite` is matrices and suites: rows as runs, expectations,
and a report charged component by component against a budget.

### Conditions, Overlap, Comparable, Admission, Coverage, Suite, Suggesting, Checking

The evaluator of `condition.go` and `quantifier.go`. `Condition` is `condition`
with `all`, `any`, `evalFact`, `quantify` and `uniform` under it; an answer is a
verdict with its causes, as a set (the code removes repeats and keeps the order
of first occurrence). `Preflight` is `preflight`: `work` is the evaluator's
running charge, its limit and the pointers it has compiled, which carry over
from a stage to the next. The one action is `evaluateStage`: the whole charge of
a tree, then its verdict. A document is a function from pointers to the values
they select; a value has its type, its text, the decimal it denotes and the
length of its token, so that `5` and `5.0` are two strings of one value, and a
number and a string never compare equal. Recorded type mismatches are left out:
they change neither a verdict nor a charge. The module is recursive and only
TLC uses it.

`Overlap` extends it by the authoring check (`overlap.go`,
`overlap_generated.go`): each rule's condition as a disjunction of clauses,
under a limit of clauses and of work; each pair of rules with two outcomes
searched for facts that satisfy a clause of both, over one symbol per pointer
and one value per way the authored comparisons can come out; what is advised of
a pair that is not excluded. It is held against the evaluator it shares no code
with. Numbers are in halves, so that a middle of two is one too; the budget
counts nodes and terms and not bytes of values.

`Comparable` is the check a project may ask for (`comparable.go`): its own walk
over every comparison of every stage, with its own charge to the same limit.

`Admission` is what comes before a walk (`engine.go` with `rfc0008.go`,
`rfc0016.go` and the layers of `validation`): `Validate` in its layers, the two
drafts' grammars and the projections they leave to Core, `Admit` after them, and
callers that share one `AdmittedPack`. `LookUp` and `Retain` are the two halves
of `admission`, which gives up its mutex between them; a retained admission is
kept under `AdmissionKey` while there is room. `FirstFailure` is the order in
which a call's inputs are refused. A pack document is a record of what the checks
read; sources, which refer as evidence does, and the choice between several
diagnostics are left out. What a call is owed (`Faults`, `Conforms`) is said of
the document as it was handed in, without a projection, a layer or a memo.

`Coverage` is `project/coverage.go` and `profile.go`: probes (the outcomes and
reasons the declarations leave open), the values the pack compares with, at which
stage, which rows cover each, and how each origin's rows lie about them. It
instantiates Resolver for the walk, with Conditions for its verdicts. Names,
order and wording of probes are left out.

`Suite` is `packs test`: `Negotiate` reads every pack for the contract of the
run, `StartPack` reads it again, `LoadMatrix`, `RunRow` and `FinishPack` run its
rows (`RunCase` is `RunCaseAdmittedWith`), and `Report` is the status. `Rewrite`
is an edit of the files between any two of these. A disposition or a target
costs its length in the cfg's units. `SuiteReportTrue` says of a report, in the
words of `Faults` and `Declared` where it can, what each part of it claims: a
row passed, a probe, a boundary called missing, a nearest row, a status.

`Suggesting` is `packs suggest` (`candidates.go`): `Select` and `OpenPack` choose
the packs and their base row, `DeriveValues` and `DeriveRest` are the two halves
of one call, `ClosePack` refuses the whole run past a bound, `ReportSuggestions`
ends it. Facts are documents here, objects and arrays: `Fits` and `Placed` are
`placeAt`, `Removal` and `Removed` are `removeAt`, and `ReadAt` is the evaluator's
own resolution of a pointer. `SuggestionsTrue` says that what is placed is read
there, that each suggestion is one step from a reviewed row, that what a pack
compares with is suggested or said to be left out, and that a run within its
bounds drops nothing. `Unit` is 4000 so that a step of two digits is exact; the
code allows six. Packs and base row are read once and do not change in between.
Rationales, `--write` and the count of origins are left out.

`Checking` is `packs lint` and `packs validate` (`lint.go`, `validate.go`, with the
identity that `inventory.go` reads of a document). A run's files do not change in
it and no check relates two packs, save the manifest's. `ChecksTrue` says what a
report is worth to the other components: of a pack that lint passes, no
condition is unknown for an absent fact once everyone who produces has produced;
a document that validate passes is one that every evaluation admits, and its
matrix one that `packs test` reads. Pointers are compared by their tokens, where
the code compares their texts with a `/` after the shorter, which comes to the
same; and a quantifier is known by its operator, where the code looks for a
`where` or `at` member, which every quantifier of the runs' packs has. Signing keys, the audit directory and
details are left out.

### Resolver, Advice

`resolve`, one action per step: `Begin` (the charge of the walk's own
iteration), `Applicability`, `Requirements`, `EvaluateException` and
`CombineExceptions`, `SkipRule`, `EvaluateRule` and `CombineRules`,
`ReadDeclaration`, `ResolveValue` and `CarryValues` (`produce` and
`resolveValues` of `rfc0016.go`). `Disposition` is `disposition` with the
handoff and its routes; `Contributors` is `outcomeContributors`. A situation
gives each atom (a fact, a requirement's presence, a selected value) as true,
false or unknown; a condition is given by its verdict, its work and its
pointers, as constant operators. What the walk needs of them is
`VerdictAssumption`, that a verdict which is not unknown stands when more is
known, and that is what `VerdictStands` checks of Conditions. Sources of outcome
values are pointers; a constant source always has its type and is part of the
declaration's charge. `PackAssumption` is what the conformance gate leaves of a
pack's shape: its fields, what they hold, and that no two exceptions and no two
rules have one id (`duplicateIDDiagnostics` of `validation/semantic.go`).

`Declared` says what a pack declares of a situation with sets and without an
order, and `DeclaredWork` the work of it: the two the walk is held against.

`Advice` is `packadvice`: the walk is started once for each input of a domain
(`Ask`), its trace is looked at (`Looks`, one unit for each look), and `Conclude`
adds what holds of every input if all of them were looked at. `Shows` and
`HoldsOfAll` say what a finding claims by what the pack declares, or by what
would change with a rule removed or another outcome in its place. The ceilings on
a report's bytes and on its limitations, and the decoding of a domain, are left out.

## 3. Runs

| Run | Instance | What it shows |
|---|---|---|
| TrailChained | a graph run of two records, an evaluation, a repair; an old unchained line; one power loss | every trail verifies; a composite is never without its nodes; nothing stale is written |
| TrailRepair | an append, a repair, a repair bound to shown damage, each opening twice if need be; one power loss, one move | a confirmed repair ends exactly the confirmed bytes; the only end that no repair takes is a repair's own record without its newline; acknowledged records are kept; every call ends |
| TrailMixed | a chain-off writer of an oversized record beside two chaining writers that share the lock and one that is offered none | no two records share a predecessor, and each continues a beginning of its file that a verifier can read, whoever wrote between its writer's read and write |
| SignedTrail | a signed evaluation, a rotation, an append with the next key, an unsigned bound repair; one power loss | the sidecar never says more than the trail; a reported rotation stays; the signed trail implements TrailWriter |
| Conditions | trees of up to three leaves, aggregates over up to three elements, three stages; facts, members and evidence missing or of another type; four limits; pairs of rules; some forty documents, two callers, ten sets of options and a memo of one; some thirty projects of one to three packs with matrices, one rewrite each; two dozen packs to suggest inputs from over nine base rows; configurations to lint and to validate | the charge is a sum that no order changes; a verdict stands when more is known; causes name exactly the leaves an unknown came from; elements have no order; what the overlap check says of two rules is true of every situation; the check of comparisons refuses what the evaluation would put down to a type; two callers of one admitted pack get what each is owed; what a run of matrices reports is true of what it read; what a pack is said to suggest is read where it was put, and leaves nothing out unsaid; a pack that lint or validate passes is what those who decide need |
| Resolver | packs of two exceptions and two rules of every effect; applicability, requirements, values and routes; three limits; some thirty packs over ninety domains | the disposition and the work are what the pack declares; a result without an unknown is settled; contributors decide, and a request for a handoff is heard; advice over domains of one and two inputs, cut by its work and by its findings, claims what is so and leaves nothing out when it says so |
| Deciding | two runs of any surface over two packs and a graph, three configurations, four lock files, one edit between any two reads | the surfaces implement Decisions; no lock is reported only when there was none; what verify passes a run does not refuse |
| Witnessing | one deliverer, two readers, a witness with two keys, three statements; a trail of two lines, one alteration | what is called witnessed was there; every record reaches the holder; a continuation read whole is one someone saved, and reading in steps suffices |
| Stamping | two commands, two stamps files, two lines, one alteration, four answers of the clock | stamps state true times and none is kept for a record the trail no longer held; one stamp for a checkpoint |
| Session | one client two lines ahead, four lines, one change of the files, one slot | each line is answered as it is owed; a completed export is one capture; a file written over is refused |
| Graph | every graph of four nodes; three nodes with edges that meet; matrices and suites under budgets; one edit | the order and the named cycles are the declared ones; a node is evaluated against what its edges declare; a report says what its rows gave |
| TrailNewDirectory | *violation* | see Findings |

**Bounds, the trail.** A writer makes one call; a run has two to four. Two
writers are enough for every race on the lock, the third is the one that finds
what they left. Batches have at most two records: a composite and one node.
`Body = 2` gives every kind of cut, and `Body = 1` in SignedTrail, where the
sidecar's lines are cut too, leaves out the cut before a record's last byte. One
power loss, because after it the state is one a run can also start in or reach
by crashes. `OpenAttempts` is 2 or 1 instead of 3, so that giving up is reached.
`TrailMixed` has one file and no moves, which `TrailRepair` has, and takes its
two writers with locks as interchangeable. Each writer makes one call and the
system then stops, so deadlock is not checked; that no call is left waiting is
`EveryCallEnds`.

**Bounds, those who attest.** One page holds one checkpoint, so paging takes
several calls. The witness signs with a key the reader was not given at most one
statement after a first: more are all dropped alike. A stamps file has room for
two stamps, so that the third command's finds it full.

**Bounds, the rest.** A history window of two units and lines of one or two give
every alignment. One edit in Deciding and Graph falls between any two reads of
two runs; what takes two edits to go wrong is not covered. In Conditions three
leaves give every pair of a deciding and an overridden child with one more level
around it, and three elements of an array one that differs, one that lacks the
value and one that repeats. The limits are nothing, one that a leaf passes, one
that only larger trees do, and none. The overlap check has a work limit of 24, two
clauses, 24 nodes and one diagnostic instead of thousands, so that incomplete
formulas and exhausted searches occur. One retained admission and two callers
fill the memo and race for it; a third only waits. Matrices have up to four rows
(`MaxMatrixCases`), and the budgets of a report are a few dozen units, so that
each is passed on the last row and on an earlier one. Suggestions are bounded
by counts of 3, 7, 12 and 100 and by an output of 130. In Resolver two exceptions meet in both
orders with every pair of effects, and two rules agree, conflict or are
suppressed; `MCConsidered` keeps the parts of a situation fixed that a family of
packs does not read. Where a run stops, it has answered everything it was asked.

`CausesExact` has two sides. Supplying every cause always decides the condition;
a missing collection stands for all that is read through it. That no cause is
idle is asked only of trees that read nothing twice: in others two leaves may be
the same missing fact, and the code records what each leaf met.

**Fairness.** `EveryCallEnds` assumes weak fairness of each process's own
progress (`Progress(w) \/ Then(w)`): a process that can take its next step is
scheduled. Failures, crashes, moves and power loss are never forced. Weak
fairness is enough for the lock only because a run has a bounded number of
calls; flock promises no order among those who wait.

**Findings.** `TrailNewDirectory`: the first append of a project makes the audit
directory and syncs the directory, but not the parent that holds its entry, so a
power loss may take an acknowledged record; the comment on `AppendLocked` says a
success always means the entry is durable.

Observed while modelling, and modelled as the code is: a history window that
holds nothing but the end of one record longer than the window, newline
included, gives an empty page whose next offset is the one it was asked with;
`RequireReviewed` lets a by-id run of a configuration that requires reviewed law
through when a lock is declared between `Consult`'s look, which found none, and
its own, and records it honestly as unreviewed; a graph suite whose preflight
selects no contract, because a pack could not be read then, may label its graphs
with contracts of different Core versions; `packs suggest --max` above
`MaxMatrixCases` may write a document that `DecodeCandidates` refuses; a hint
beneath a pointer that a pack reads is a producer to lint and a defect to validate.

## 4. Proofs

### The trail

`TrailChainProofs` and `TrailProofs` are checked by TLAPS for every number of
writers, files, records, moves and losses.

* `TypeCorrect`: `Spec => []TypeOK`.
* `ChainedTrailVerifies`: where the file system locks and every writer chains,
  `Spec => []TrailVerifies`.
* `NothingStaleWritten`: under the same assumptions, `Spec => []ChainInvariant`.

`TrailVerifies` is not inductive. A file may verify while its unfinished last
line, completed by a repair, would not; and a power loss replaces a file by a
beginning of it. So the invariant is `WellLinked`: every complete line of the
file, and its unfinished one were it complete, is linked to what stands before
it, which every beginning of a file inherits (`BeginningLinked`) and which
implies that the verifier finds nothing (`LinkedVerifies`). An append keeps it
because the head the writer reads from the end is the head the verifier reaches
from the start (`HeadAgrees`, then `AppendLinked` and `RepairLinked`). That
holds for the file as it was when it was *read*; that it still holds when it is
*written* needs the other two parts of `ChainInvariant`: past the lock a writer
holds the lock of the file it has open (`LockHeld`), so what it composed is what
it would compose now (`NoStaleCompose`).

`TrailProofs` then says what becomes of the records, under the same assumptions.

* `RunsStayWhole`: `Spec => []RunWhole`.
* `RepairsExact`: `Spec => []RepairExact`.
* `AppendsKept`: where the audit directory was there before,
  `Spec => []AcknowledgedKept`. Without that a power loss can take the directory
  away, which `TrailNewDirectory` shows.

The three rest on what a step may do to a file (`FilesChange`, from
`ChainInvariant`): it stays, it is new, it loses an end, or all or a beginning of
what the holder of its lock composed *of it as it is* is put behind it. So the
invariant need only survive these. For `RunsStayWhole` it is the property itself,
said of the unfinished last line as well (`RunsWhole`): a repair makes a line of
that. For `RepairsExact` it adds that a writer that has not begun has no record
anywhere (`Confirmed`), since what a repair is bound to is settled when it is
shown. For `AppendsKept` it is where an append's batch is by each of its steps
(`BatchAt`): in the file before the sync, in what is durable of it after, and
once the directory is synced in a file that is named durably; with
`DiskInvariant`, that what is durable is part of what is there. Each step keeps
what it needs (`DiskKept`): a file nothing names is the only one emptied, a move
keeps the name, and a power loss takes back nothing durable.

`SignedTrailProofs` has the refinement: `SignedTrailIsTrail`,
`SignedSpec => TrailSpec`, and so `SignedTrailVerifies`. A signing step that ends
sets the error, where TrailWriter's `Then` leaves it or names a failure; that
this is no difference needs that a call under way has not failed (`NotFailed`).

It also has what the sidecar holds, where every writer chains and has the lock.

* `SignaturesVerify`: `SignedSpec => []SidecarVerifies`.
* `RotationsKept`: where the audit directory was there before,
  `SignedSpec => []RotationKept`.

`SidecarVerifies` is about the trail as it is now. Had the sidecar run ahead of
what is *durable* of the trail, a power loss would show it, so the invariant says
it of that: the sidecar's findings against `durable` are none (`SignedThere`), and
a trail that goes on from there has none either (`Continues`, `FindingsStay`),
nor has a beginning of the sidecar (`FindingsShorter`), which is all a power loss
leaves. With it stands that there is one trail and whoever is past the open has it
(`OneTrail`); that a writer from its sync on has its lines in the file, in their
order and behind everything signed (`Written`); and that what it composed for the
sidecar is what it would compose now, under a key still in force (`SignerAt`).
The step that writes then adds signatures of lines that are there, each once, in
increasing sequence, or a rotation the key in force signs (`LinesSigned`,
`SigningFindings`); behind a torn line it adds them to a line that was ended
unreadable. That a key is in force at a signature is about the *last* rotation
before it, so appending changes nothing of the lines before (`FindingsSigned`).
TLC checked `SidecarInvariant` on the run's instance first.

### The stamps

`StampingProofs` is checked for every number of commands, stamps files, records,
alterations and answers, on trails that are appended to, cut, moved aside and
altered record by record, which are those of Stamping.

* `TimesAreTrue`: `Spec => []StampsTrue`.
* `StampedOnce`: `Spec => []OneStampEach`.

What a stamp is worth is found long after it was kept, by what the trail is
then. So `StampingInv` says what it was worth when it was asked for: its
checkpoint is the head of a trail that stood, without a finding, by the time the
authority states (`Backed`, in `StampsBacked` for the lines kept and in `Hand`
for a command that has not kept its own yet). Of what has stood it says only
that records of one name are one record in all of it (`TrailsStood`), which an
append and an alteration keep since each writes under a name never used
(`TrailStands`). The rest is a fact about two files: a chained record that both
hold, with nothing found up to it in either, has the same lines before it in both
(`SameRecordSameLines`, in `TrailChainProofs`, by a least record that has not).
The verifier lends a stamp's time to a record only where nothing was found up to
the checkpoint, so the record's lines are those that stood (`HeadHolds`). For
`StampedOnce` the stamps file's last line counts although it lacks its newline
(`StampsDiffer`): the next append makes it either a line that is not a stamp or,
when nothing is appended, leaves it to be read again.

### The witnesses

`WitnessingProofs` is checked for every number of readers, records, statements
and alterations and every page size, on trails that are appended to, torn,
repaired, cut and altered record by record, which are those of Witnessing.

* `ReportsStand`: `Spec => []AttestedLines`.
* `CheckpointsDelivered`: `Spec => []EveryRecordDelivered`.
* `SavedStands`: `Spec => []SavedReadsWhole`.

The argument of the first is that of the stamps with less to keep: `WitnessingInv`
says of every checkpoint given that it is a chained record of a trail that had no
finding, with the lines up to it (`GivenFrom`), and that the trail's records and
that one's of one name are one record (`NamedBy`). Each step of the trail writes
its file's lines again and at most one record of a new name (`Holds`,
`FileStands`); here too every line is one record (`Single`), so a torn trail is
the only one that does not end in a newline. A report credits only a checkpoint
that holds and that nothing was found up to, whether it was kept by a holder or
stated by a witness, and then `SameRecordSameLines` gives the lines
(`HeldIsSame`, `ReachIs`). Nothing of the statements' chain is needed for that:
what a report says of the trail rests on the trail alone, and the witness's keys
and order only decide who says so.

The second is inductive together with the first (`DeliveredInv`). A line added
behind a trail could only take a record's place in it by excusing the line before,
and the next line is never a discontinuity: an append writes a record, a repair
ends a line that it refuses when that is a discontinuity, and puts its own behind
it (`GoesOn`, `RecordsStay`). A page leaves out none before its last
(`PageIsWhole`): what would stand before such a one are fewer than what stands
before the last, by counting.

The third is about the statements. `SavedInv` says of each statement signed where
it may stand (`Placed`: after none, or after one that is no retirement, with the
sequence its kind asks for above the latest checkpoint statement of that chain),
and of every continuation there is, saved or in a reader's hands, that it is what
a whole reading of one chain ends with (`Whole`): its last was signed, all behind
it under keys supplied, and its latest is the latest. Any of them may be saved
over any other, so nothing need be known of the order of the readers. A chain is
the least set that holds a statement and the one before each (`ChainIn`), without
recursion: it has one statement at each index up to its last (`ChainOne`,
`ChainWhole`) and stays as it is when more are signed (`ChainStays`). What a
reading adds to a chain is what it walked, each statement after one walked or
after the continuation's last (`WalkFollows`), so that a reading with no finding
ends with a whole chain again (`ReadingWhole`). That the next statement can be
read alone (`NextReads`) needs what signing it obeyed, room for the three
statements (`BoundAssumption`; the code takes 110000), and that every held
checkpoint still holds: which is the second theorem, with the trail's one
identity while it was not altered (`OneTrail`).

### The session

`SessionProofs` is checked for every number of lines, files, changes, units,
slots and page sizes. `FilesAssumption` says only that the files are named by
files or none, that they and what is written to them are made of units, and that
`None` is no file, number or cursor; `SizesAssumption`, that there is a file and a
page has room for a line or a record; `LimitsAssumption`, that page sizes are
natural numbers.

* `AnswersStand`: `Spec => []AnswersInOrder`.
* `RewrittenStands`: `Spec => []RewrittenRefused`.
* `ExportStands`: `Spec => []ExportExact`.

The first is nearly inductive (`AnswersInv`): besides it, only that a line whose
tool is at work was judged to be a page's (`Asked`), and that what is in the pipe
has ids. A line read moves what is owed for it from the unread lines to an answer
or to the tool at work, and `Judged` must agree with `Owed` on every form; every
way out of a tool is one `Reply`, whatever it says, and a step on the way keeps
the line. What is owed for the unread lines is their answers joined; the join is
a recursive function, so what it does at either end is shown from the function
being there at all (`JoinThere`, by a least length without one).

The second is about steps between which the files change. `PageKept` says that
every raw export, in a slot or at work, is made of units (`Captured`), and that a
page begun while the files did not begin with its capture remembers the count of
changes; a change makes that count another for good. So a last page comes to its
end with the count it remembers only if the files are still as they were when it
was begun, and then the check of every block, made in between, fails: every unit
of a file is in some block, so blocks that stand are a prefix that stands
(`BlocksHeld`).

`ExportExact` says something of complete exports only, and the two ends of the pipe
are never in step: what the client put together may lag an export by the page that
is in the pipe, or that it gave up on, and be of an export that has lost its slot.
`ExportInv` relates them. Of an export that goes on, `At` says that it continues
inside its capture and keeps of the last line exactly what stands after the last
end of line (`lineOffset`, `line`). Of what the client has, `Fits` says that it is
begun, or complete and exact, or that its cursor is of an export which either has
given it every page so far (`Reached`: each unit up to the offset, each line that
ends there) or is one page further, which it keeps as `last` and which makes up the
difference (`Reached` of `After`): this is why giving the latest answer again is
enough, and why a cursor two pages back cannot be served. For that to stand, no
line on its way may ask for more than the client has (`Behind`), the latest asking
must carry the cursor the client still has (`LineFits`), an answer in the pipe that
the client will take must fit (`AnswerFits`), and the export at work must be the
one in its slot but for its age (`Works`).

A page takes an export on (`Turned`, by `RawTurned` and `HistoryTurned`) from
whatever the client has of it. The lines are the hard part: a page decodes what was
left of a line with its own units, at offsets of the file, and their numbering must
go on from the lines already given. `EndAt` and `EndBefore` are unique because ends
of line are counted up to a position (`Rank`, injective by the sizes of finite
sets), a page shifts every count by those before it (`ShiftedRank`), and so the
lines of the page after the lines given are the lines of the text up to its end
(`PageLinesGoOn`). Every step then leaves the exports as they were, gone, further
by one page that was asked for, or new (`Moves`), and what the client has still
fits (`FitsKept`). The invariant also was checked by TLC, on the instance of the
run and with two slots.

### The walk

`ResolverProofs` is checked for every pack, situation, opt-in and limit that
the assumptions of Resolver allow.

* `WalkTypeCorrect`: `Spec => []TypeOK`; there is a disposition exactly at the
  end of a walk, so a reached limit reports none.
* `DispositionDeclared`: `Spec => []ResultDeclared`.
* `KnownResultSettled`: `Spec => []OutcomeSettled`.
* `ContributorsSettle`: `Spec => []ContributorsDecide`.
* `LimitExact`: `Spec => []LimitDeclared`.

`ResultDeclared` says something of the last state only. `WalkInv` says of every
step what the walk has gathered by then: at an exception, that `forced`,
`suppressed`, `direct` and `reasons` are what the declaration takes of the
exceptions *before* this one (`Gathered(Before(pack.exceptions, at))`); at a
rule the same of `candidates` and `reasons` over the rules that are not
suppressed (`Proposing`), and that nothing blocks and nothing is forced; at a
value, that this outcome is the one the pack yields and that `complete` holds of
the values before it. One more member adds its own effect to each of these sets
(`OneMoreHeld` and the lemmas after it), so each action keeps its part; at the
end of a sequence "before" is all of it (`AllGathered`, `AllProposed`), and the
disposition taken there is the declared one. A set that is not empty and has no
two members has the one that `CHOOSE` takes (`OnlyMember`), which is why ranging
over a Go map with one entry is no choice.

`OutcomeSettled` speaks of another situation than the one walked, so it is split.
That a result which shows no unknown rests on none is an invariant of the walk
(`SettledInv`): every condition the disposition rests on was evaluated and left
its entry, every requirement not known is among the unmet, so without an unknown
entry the verdicts of what the declaration looks at are all known (`AllKnown`).
That such a declaration stays as it is when more becomes known is a fact of the
declaration alone, from `VerdictAssumption` (`KnownStands`). What was not
evaluated, because something blocked, one outcome was forced or a rule was
suppressed, `AllKnown` need not say.

`ContributorsDecide` is about what is *read off* the trace. `ShownInv` says which
entries a walk has left by each step: those that name a forcing exception or a
true rule are, by id and outcome, the ones of the members it has passed, and at
an outcome those of the exceptions that force or, where none does, of the rules
that propose (`ShowsAll`). All of these have the outcome that was yielded, because
two would have been a conflict (`AllAgree`), so the contributors are exactly they
(`ContributorsAre`). The rest is a fact of two packs: one without the other
contributors has the same blocking reasons, forced outcome and undecided rules
(`ForcerDecides`, `ProposerDecides`), for which ids must be unique (`KeptForcing`).

`LimitDeclared` compares what the walk was charged with a sum over the pack.
`AccountInv` says of each step that what was charged is the work (`Done`) of what
has been passed: the units so far, the conditions of the exceptions and of the
rules not suppressed *before* this one, the values before this one, and each
pointer met so far (`Pointed`) compiled once. One member more adds its own charge,
because ids are unique (`OneMoreVisited`, `OneMoreTried`, `OneMorePlace`), and at
the end of the walk that is `TotalWork`. A refused walk has been charged more than
its budget, and never more than what is declared (`DoneGrows`), so a limit is not
reached by work that the declaration does not name. The sums are over finite
sets; what a fold computes needs induction over data, so a sum is handled as the
size of a set of units (`SumIsSize`, by a least subset, `LeastSubset`). The
assumptions are `WorkAssumption`, that budgets and units are natural numbers and a
condition resolves finitely many pointers, and of `PackAssumption` that routes and
filters are finite.

### The deciding surfaces

`DecidingProofs` is checked for every number of runs, documents and edits.

* `DecisionsKept`: `Spec => DecisionsSpec`, the refinement of Decisions.
* `NoBitMeansNoLock`: `Spec => []UnlockedMeansAbsent`.
* `VerifyCovers`: `Spec => []VerifyCoversDeciding`.

What is promised is about decisions taken, and says nothing of a run under way.
`DecidingInv` says of each run at each step what it holds by then and what that
was checked against: which documents it has read and that it read them of the
configuration it loaded (`HoldsPack`, `HoldsInput`, `HoldsGraph`,
`HoldsProject`); that where its bit is "true" one set that was declared gives
each document it applied, so far, the path and the digest it applied it with
(`UnderLaw`); that a run naming declared law is a draft only where it held
nothing, and one that went on under `required` names it (`NoDraftPasses`); that
without a bit the lock was seen absent (`SeenUnlocked`); and that the trail has
nothing of the run before its append and its decision after it (`InTrail`). None
of it speaks of the files as they are *now*, which is why an edit between two
reads keeps it (`OtherKeeps`): the set retained, not the lock file, is what the
documents are compared with. A set declared and a record appended are never
taken back, so what others do only adds to what the invariant needs
(`ReadBackStays`). The step that records needs that a run's records together say
what it applied (`RecordsFacts`, `AppendedFacts`); the step that reports needs
only `InTrail`. The assumptions are those of ReviewedSet and Deciding: the names
of packs and graphs differ, a file read is a document, absent or too big, and
`Sorted` lists the names it is given.

### Only model-checked

The liveness property (the prover has no ENABLED); of the trail
`NoSharedPredecessor` and `LinksReadable`, which are also about writers that share
no lock; and the modules about graphs. Of the evaluator: Conditions and what extends it up to Checking, whose definitions are recursive
(as are GraphDocument's), and Advice.

## 5. What is not modelled, and the plan

Not modelled, because no state or order of theirs is left once the text is
abstracted away: parsing and canonical forms, encodings, cryptography, ASN.1,
message texts and rendering, schema and prose validation, policy and dialect
documents, embedded artifacts and release tools. Path containment is one failure
for every refusal; other platforms' locks are the contract they share.

What remains are theorems about what is only model-checked.
