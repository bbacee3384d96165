------------------------------ MODULE Deciding ------------------------------
(***************************************************************************)
(* The deciding surfaces beside the people who edit the project: runs of   *)
(* `experimental evaluate` and its MCP tool, of `experimental graph        *)
(* evaluate`, `packs lock` and `packs verify`, over one project directory  *)
(* whose configuration, documents and lock may change between any two of   *)
(* their reads.  None of them locks the directory.                         *)
(*                                                                         *)
(* The evaluator is external here: it refuses what is over the byte limit, *)
(* and otherwise refuses or gives a disposition.  The trail is the one     *)
(* TrailWriter models: an append adds a run's records whole or fails.      *)
(* Decisions states what all this promises.                                *)
(***************************************************************************)
EXTENDS ReviewedSet, TLC, SequencesExt

CONSTANTS
    Procs,      \* the runs
    NoDecision, \* nothing reported yet
    GraphPath,  \* the path graph runs are given
    Nodes,      \* the packs a graph document's nodes name, in order
    Sorted(_),  \* the order in which lock and verify read a set of names
    Tasks,      \* what a run may be asked (TaskType)
    InitDocs,   \* the documents a project may start with
    MaxEdits,   \* bound: changes the people make
    InitLocks   \* the lock files a project may start with

VARIABLES
    config,     \* the configuration's bytes
    docs,       \* the documents' bytes, by path
    lockFile,   \* the lock: its document and how much of it is there
    run,        \* each run's progress and what it holds
    unlocked,   \* the runs during which the lock was absent
    edits,
    sets,       \* the reviewed sets that ever stood whole in the lock
    trail,      \* the records appended
    reported    \* the decision each run reported

project == <<config, docs, lockFile>>
vars == <<project, run, unlocked, edits, sets, trail, reported>>

(* A lock that is short, or of another version, declares nothing.          *)
LockType == [doc : Documents \cup {NoSet}, part : {"absent", "short", "foreign", "whole"}]
NoLock == [doc |-> NoSet, part |-> "absent"]

ASSUME ProjectAssumption ==
    /\ GraphPath \in Paths
    /\ Nodes \in [Contents -> Seq(PackNames)]
    /\ InitDocs \subseteq [Paths -> Contents \cup {Absent, Big}]
    /\ InitLocks \subseteq LockType
    /\ \A l \in InitLocks : l.part = "whole" => l.doc \in Documents
    /\ \A S \in SUBSET Names : Sorted(S) \in Seq(S) /\ Range(Sorted(S)) = S

(* HasLock: presence, not readability.                                     *)
HasLock == lockFile # NoLock

(* How a run is asked: a pack by its id or a path, on the command line, or *)
(* by its id or as text, in a tool call; a graph by its path; or one of    *)
(* the lock's two commands.  A caller may give citations and a binding.    *)
TaskType ==
    [surface : {"cli", "mcp"}, kind : {"id", "path", "text", "graph", "lock", "verify"},
     name : Names, bytes : Contents, path : Paths,
     rehearsal : BOOLEAN, cites : BOOLEAN, binding : BOOLEAN]

ASSUME TaskAssumption ==
    /\ Tasks # {} /\ Tasks \subseteq TaskType
    /\ \A t \in Tasks : /\ t.surface = "mcp" => t.kind \in {"id", "text"}
                        /\ t.surface = "cli" => t.kind # "text"
                        /\ t.kind = "id" => t.name \in PackNames

(* What a decision says.                                                   *)
DecisionType ==
    [run : Procs, cfg : Configs \cup {NoConfig}, rehearsal : BOOLEAN,
     reviewed : {"none", "false", "true"}, set : Documents \cup {NoSet},
     applied : SUBSET (Names \X Contents)]

ASSUME DecisionAssumption == NoDecision \notin DecisionType

Idle ==
    [pc |-> "start", task |-> CHOOSE t \in Tasks : TRUE,
     cfg |-> NoConfig, graph |-> Absent, read |-> << >>, memo |-> << >>,
     todo |-> << >>, set |-> NoSet, reviewed |-> "none", verdict |-> {}]

Init ==
    /\ config \in Configs
    /\ docs \in InitDocs
    /\ lockFile \in InitLocks
    /\ sets = IF lockFile.part = "whole" THEN {lockFile.doc} ELSE {}
    /\ run = [p \in Procs |-> Idle]
    /\ unlocked = {}
    /\ edits = 0
    /\ trail = << >>
    /\ reported = [p \in Procs |-> NoDecision]

-----------------------------------------------------------------------------
(* How runs move on.                                                       *)

At(p, pc) == run[p].pc = pc

Kind(p) == run[p].task.kind

(* A run takes a step of its own: it sees, and changes nothing but itself. *)
Becomes(p, state) ==
    /\ run' = [run EXCEPT ![p] = state]
    /\ UNCHANGED <<project, edits, sets, trail, reported>>

(* A refusal reports an error and no disposition.                          *)
Refuse(p) == Becomes(p, [run[p] EXCEPT !.pc = "refused"])

(* evaluateCommand's arguments: a rehearsal takes no binding.              *)
CommandAccepts(t) == ~ (t.rehearsal /\ t.binding)

(* toolExperimentalEvaluate's arguments.                                   *)
ToolAccepts(t) == ~ (t.rehearsal /\ t.binding)

(* graphEvaluateCommand's: there is no binding to give.                    *)
GraphAccepts(t) == ~ t.binding

Accepts(t) ==
    CASE t.kind = "graph" -> GraphAccepts(t)
      [] t.kind # "graph" /\ t.surface = "cli" -> CommandAccepts(t)
      [] OTHER -> ToolAccepts(t)

Start(p) ==
    /\ At(p, "start")
    /\ \E t \in Tasks :
         Becomes(p, [run[p] EXCEPT
             !.task = t,
             !.pc = CASE ~ Accepts(t) -> "refused"
                      [] Accepts(t) /\ t.kind = "graph" -> "graph"
                      [] OTHER -> "load"])

(* loadGraph: the graph document is read before the configuration.         *)
ReadGraph(p) ==
    /\ At(p, "graph")
    /\ \/ docs[GraphPath] \in {Absent, Big} /\ Refuse(p)
       \/ /\ docs[GraphPath] \in Contents
          /\ Becomes(p, [run[p] EXCEPT !.graph = docs[GraphPath], !.pc = "load"])

(* DeclaredGraphID: the declared graph a run's argument names.             *)
DeclaredGraph(cfg) == {n \in Declared(cfg) \cap GraphNames : cfg.path[n] = GraphPath}

(* Structural: every node's pack is declared.                              *)
GraphResolves(cfg, g) == \A k \in DOMAIN Nodes[g] : Nodes[g][k] \in Declared(cfg)

(* Citations and bindings are not taken where nothing would record them;   *)
(* a rehearsal records nothing and is told so by its payload.              *)
KeepsNoTrail(cfg, t) ==
    /\ ~ (cfg # NoConfig /\ cfg.audited)
    /\ t.binding \/ (t.cites /\ ~ t.rehearsal)

(* Load: the configuration is read once, and its digest taken from the     *)
(* bytes decoded.  A run given a pack by path goes on without one.         *)
Load(p) ==
    /\ At(p, "load")
    /\ \/ config = NoConfig /\ Kind(p) \notin {"path", "text"} /\ Refuse(p)
       \/ KeepsNoTrail(config, run[p].task) /\ Kind(p) = "graph" /\ Refuse(p)
       \/ /\ config # NoConfig \/ Kind(p) \in {"path", "text"}
          /\ ~ (KeepsNoTrail(config, run[p].task) /\ Kind(p) = "graph")
          /\ Becomes(p, [run[p] EXCEPT
               !.cfg = config,
               !.pc = CASE Kind(p) \in {"id", "path", "text"} -> "pack"
                        [] Kind(p) = "graph" ->
                             IF run[p].task.rehearsal THEN "nodes" ELSE "open"
                        [] Kind(p) = "lock" -> "documents"
                        [] Kind(p) = "verify" -> "open",
               !.todo = CASE Kind(p) = "graph" -> Nodes[run[p].graph]
                          [] Kind(p) \in {"lock", "verify"} ->
                               Sorted(Declared(config))
                          [] OTHER -> << >>])

-----------------------------------------------------------------------------
(* `experimental evaluate`, by id, by path, or with the pack as text.      *)

(* What is over the limit is not held, and goes on to the evaluator's      *)
(* refusal; what is held of a declared pack is what the lock is asked of.  *)
Holding(p, bytes) ==
    [run[p] EXCEPT
        !.graph = bytes,
        !.read = IF Kind(p) = "id" /\ bytes # Big THEN << <<run[p].task.name, bytes>> >>
                 ELSE << >>,
        !.pc = "draft"]

(* resolvePackID: the path the configuration names.                        *)
ReadPack(p) ==
    LET r == run[p]
    IN  /\ At(p, "pack") /\ Kind(p) = "id"
        /\ \/ r.task.name \notin Declared(r.cfg) /\ Refuse(p)
           \/ /\ r.task.name \in Declared(r.cfg)
              /\ LET bytes == docs[r.cfg.path[r.task.name]]
                 IN  IF bytes = Absent THEN Refuse(p) ELSE Becomes(p, Holding(p, bytes))

(* readEvaluationInput: the path the caller names, or its text.            *)
ReadInput(p) ==
    LET bytes == IF Kind(p) = "text" THEN run[p].task.bytes ELSE docs[run[p].task.path]
    IN  /\ At(p, "pack") /\ Kind(p) \in {"path", "text"}
        /\ IF bytes = Absent THEN Refuse(p) ELSE Becomes(p, Holding(p, bytes))

(* DraftRun, and which of the lock's questions are asked at all.           *)
AskDraft(p) ==
    LET r == run[p]
    IN  /\ At(p, "draft")
        /\ IF KeepsNoTrail(r.cfg, r.task) THEN Refuse(p)
           ELSE Becomes(p, [r EXCEPT
                  !.reviewed = IF r.cfg = NoConfig THEN "none" ELSE DraftRun(HasLock),
                  !.pc = IF r.task.rehearsal THEN "evaluate"
                         ELSE IF r.read # << >> THEN "open" ELSE "require"])

(* EvaluateWith.                                                           *)
Evaluate(p) ==
    /\ At(p, "evaluate")
    /\ \/ Refuse(p)
       \/ run[p].graph # Big /\ Becomes(p, [run[p] EXCEPT !.pc = "append"])

-----------------------------------------------------------------------------
(* The reviewed set: Open, Consult and RequireReviewed.                    *)

(* The documents the set is consulted about before a run.                  *)
Applied(p) ==
    IF Kind(p) = "graph"
    THEN {<<n, run[p].graph>> : n \in DeclaredGraph(run[p].cfg)}
    ELSE Range(run[p].read)

(* Whether the run names declared law.                                     *)
NamesDeclared(p) ==
    \/ Kind(p) = "id"
    \/ Kind(p) = "graph" /\ DeclaredGraph(run[p].cfg) # {}

Consulted(p, set) ==
    [run[p] EXCEPT !.set = set, !.pc = "require",
                   !.reviewed = Reviewed(set, ~ NamesDeclared(p))]

(* Mutant: a lock that does not read is taken for none.                    *)
OpenLenient(p) ==
    /\ At(p, "open")
    /\ \/ /\ lockFile.part # "whole"
          /\ Becomes(p, Consulted(p, NoSet))
       \/ /\ lockFile.part = "whole"
          /\ Becomes(p, [run[p] EXCEPT !.pc = "readLock"])

(* Open: is there a lock?  `packs verify` has nothing to do without one.   *)
Open(p) ==
    /\ At(p, "open")
    /\ \/ /\ ~ HasLock
          /\ IF Kind(p) = "verify" THEN Refuse(p) ELSE Becomes(p, Consulted(p, NoSet))
       \/ /\ HasLock
          /\ Becomes(p, [run[p] EXCEPT !.pc = "readLock"])

(* Open and Consult: the lock is read, all of it or nothing of it, and the *)
(* run retains the set it read.                                            *)
ReadLock(p) ==
    /\ At(p, "readLock")
    /\ \/ lockFile.part # "whole" /\ Refuse(p)
       \/ /\ lockFile.part = "whole"
          /\ LET set == lockFile.doc
             IN  IF Kind(p) = "verify"
                 THEN Becomes(p, [run[p] EXCEPT !.set = set, !.pc = "documents"])
                 ELSE IF Refusals(run[p].cfg, set, Applied(p)) # {} THEN Refuse(p)
                 ELSE Becomes(p, Consulted(p, set))

(* RequireReviewed asks a second time whether there is a lock.             *)
Require(p) ==
    /\ At(p, "require")
    /\ IF RequireReviewed(run[p].cfg, run[p].reviewed, NamesDeclared(p), HasLock)
       THEN Becomes(p, [run[p] EXCEPT !.pc = IF Kind(p) = "graph" THEN "nodes" ELSE "evaluate"])
       ELSE Refuse(p)

-----------------------------------------------------------------------------
(* `experimental graph evaluate`: each node's pack is read when the run    *)
(* comes to it, and checked on the bytes read.                             *)

(* Mutant: the node's pack is checked against the lock as it is now.       *)
NodeRereads(p) ==
    LET r == run[p]
        n == Head(r.todo)
        bytes == docs[r.cfg.path[n]]
        now == IF lockFile.part = "whole" THEN lockFile.doc ELSE r.set
    IN  /\ At(p, "nodes") /\ GraphResolves(r.cfg, r.graph) /\ r.todo # << >>
        /\ \/ Refuse(p)
           \/ /\ bytes \in Contents
              /\ r.task.rehearsal \/ r.set = NoSet \/ NodeRefusals(r.cfg, now, n, bytes) = {}
              /\ Becomes(p, [r EXCEPT !.todo = Tail(@), !.read = Append(@, <<n, bytes>>)])

(* A pack absent, over the limit or different from the set refuses the     *)
(* run, and so may the evaluator.                                          *)
Node(p) ==
    LET r == run[p]
        n == Head(r.todo)
        bytes == docs[r.cfg.path[n]]
    IN  /\ At(p, "nodes") /\ GraphResolves(r.cfg, r.graph) /\ r.todo # << >>
        /\ \/ Refuse(p)
           \/ /\ bytes \in Contents
              /\ r.task.rehearsal \/ NodeRefusals(r.cfg, r.set, n, bytes) = {}
              /\ Becomes(p, [r EXCEPT !.todo = Tail(@), !.read = Append(@, <<n, bytes>>)])

(* A graph that does not resolve is refused; one whose nodes are done goes *)
(* on with all their records and the composite's.                          *)
NodesDone(p) ==
    /\ At(p, "nodes")
    /\ \/ ~ GraphResolves(run[p].cfg, run[p].graph) /\ Refuse(p)
       \/ /\ GraphResolves(run[p].cfg, run[p].graph) /\ run[p].todo = << >>
          /\ Becomes(p, [run[p] EXCEPT !.pc = "append"])

-----------------------------------------------------------------------------
(* The decision taken, recorded and reported.                              *)

(* What the payload says.  A rehearsal says nothing of a reviewed set.     *)
Decision(p) ==
    LET r == run[p]
    IN  [run |-> p, cfg |-> r.cfg, rehearsal |-> r.task.rehearsal,
         reviewed |-> IF r.task.rehearsal THEN "none" ELSE r.reviewed,
         set |-> IF r.task.rehearsal THEN NoSet ELSE r.set,
         applied |-> Range(r.read) \cup (IF Kind(p) = "graph" THEN Applied(p) ELSE {})]

Recorded(p) == run[p].cfg # NoConfig /\ run[p].cfg.audited /\ ~ run[p].task.rehearsal

(* UnderLaw: each record carries the run's bit and its set.                *)
RecordOf(p, kind, documents) ==
    [run |-> p, kind |-> kind, documents |-> documents, cfg |-> run[p].cfg,
     reviewed |-> run[p].reviewed, set |-> run[p].set,
     cites |-> run[p].task.cites, binding |-> run[p].task.binding]

(* One record for an evaluation; one for each node of a graph and one for  *)
(* the composite, which names the graph.                                   *)
Records(p) ==
    IF Kind(p) = "graph"
    THEN [k \in DOMAIN run[p].read |-> RecordOf(p, "node", {run[p].read[k]})]
           \o << RecordOf(p, "composite", Applied(p)) >>
    ELSE << RecordOf(p, "evaluation", Range(run[p].read)) >>

(* Mutant: a record that cannot be written does not refuse the run.        *)
AppendRecordsBestEffort(p) ==
    /\ At(p, "append")
    /\ run' = [run EXCEPT ![p].pc = "render"]
    /\ \/ trail' = trail
       \/ Recorded(p) /\ trail' = trail \o Records(p)
    /\ UNCHANGED <<project, edits, sets, reported>>

(* Evaluation and AppendAll: no trail and a rehearsal append nothing; what *)
(* cannot be written refuses the run.                                      *)
AppendRecords(p) ==
    /\ At(p, "append")
    /\ \/ ~ Recorded(p) /\ Becomes(p, [run[p] EXCEPT !.pc = "render"])
       \/ Recorded(p) /\ Refuse(p)
       \/ /\ Recorded(p)
          /\ run' = [run EXCEPT ![p].pc = "render"]
          /\ trail' = trail \o Records(p)
          /\ UNCHANGED <<project, edits, sets, reported>>

(* The payload is written, or its writing fails.                           *)
Render(p) ==
    /\ At(p, "render")
    /\ \/ Refuse(p)
       \/ /\ run' = [run EXCEPT ![p].pc = "done"]
          /\ reported' = [reported EXCEPT ![p] = Decision(p)]
          /\ UNCHANGED <<project, edits, sets, trail>>

-----------------------------------------------------------------------------
(* `packs lock` and `packs verify`: each declared document is read at its  *)
(* own moment, and hashed once for each path.                              *)

Bytes(p) ==
    [n \in {a[1] : a \in Range(run[p].read)} |->
        (CHOOSE a \in Range(run[p].read) : a[1] = n)[2]]

Remember(memo, path, bytes) ==
    [q \in DOMAIN memo \cup {path} |-> IF q = path THEN bytes ELSE memo[q]]

ReadDocument(p) ==
    LET r == run[p]
        n == Head(r.todo)
        path == r.cfg.path[n]
        bytes == IF docs[path] \in Contents /\ path \in DOMAIN r.memo
                 THEN r.memo[path] ELSE docs[path]
    IN  /\ At(p, "documents") /\ r.todo # << >>
        /\ IF bytes \notin Contents /\ Kind(p) = "lock" THEN Refuse(p)
           ELSE Becomes(p, [r EXCEPT
                    !.todo = Tail(@), !.read = Append(@, <<n, bytes>>),
                    !.memo = IF bytes \in Contents /\ (Kind(p) = "verify" => n \in DOMAIN r.set.entry)
                             THEN Remember(@, path, bytes) ELSE @])

(* Replace: the file is opened, or created, and cut to nothing.            *)
Truncate(p) ==
    /\ At(p, "documents") /\ Kind(p) = "lock" /\ run[p].todo = << >>
    /\ run' = [run EXCEPT ![p].pc = "write"]
    /\ lockFile' = [doc |-> NoSet, part |-> "short"]
    /\ UNCHANGED <<config, docs, edits, sets, trail, reported>>

(* The contents are written, or some of them before the write fails.       *)
WriteLock(p) ==
    LET doc == Generate(run[p].cfg, Bytes(p))
    IN  /\ At(p, "write")
        /\ \/ Refuse(p)
           \/ /\ lockFile' = [doc |-> doc, part |-> "whole"]
              /\ sets' = sets \cup {doc}
              /\ run' = [run EXCEPT ![p].pc = "done"]
              /\ UNCHANGED <<config, docs, edits, trail, reported>>

(* The verdict of `packs verify`.                                          *)
VerifyDone(p) ==
    /\ At(p, "documents") /\ Kind(p) = "verify" /\ run[p].todo = << >>
    /\ Becomes(p, [run[p] EXCEPT
         !.verdict = Verify(run[p].cfg, run[p].set, Bytes(p)), !.pc = "done"])

-----------------------------------------------------------------------------
(* The people beside the runs, and a run that dies.                        *)

Change(who) ==
    /\ edits < MaxEdits /\ edits' = edits + 1
    /\ UNCHANGED <<run, sets, trail, reported>>

EditDocument ==
    /\ \E path \in Paths, bytes \in Contents \cup {Absent, Big} :
         docs' = [docs EXCEPT ![path] = bytes]
    /\ docs' # docs /\ Change("document")
    /\ UNCHANGED <<config, lockFile>>

EditConfig ==
    /\ config' \in Configs \cup {NoConfig}
    /\ config' # config /\ Change("config")
    /\ UNCHANGED <<docs, lockFile>>

RemoveLock ==
    /\ HasLock /\ lockFile' = NoLock /\ Change("lock")
    /\ UNCHANGED <<config, docs>>

Crash(p) ==
    /\ run[p].pc \notin {"start", "done", "refused", "dead"}
    /\ Becomes(p, [run[p] EXCEPT !.pc = "dead"])

Step(p) ==
    \/ Start(p) \/ ReadGraph(p) \/ Load(p) \/ ReadPack(p) \/ ReadInput(p) \/ AskDraft(p)
    \/ Open(p) \/ ReadLock(p) \/ Require(p) \/ Evaluate(p)
    \/ Node(p) \/ NodesDone(p) \/ AppendRecords(p) \/ Render(p)
    \/ ReadDocument(p) \/ Truncate(p) \/ WriteLock(p) \/ VerifyDone(p)
    \/ Crash(p)

(* Which runs the lock was ever absent for, from their start.              *)
Watch ==
    unlocked' = IF lockFile' = NoLock
                THEN unlocked \cup {p \in Procs : run'[p].pc # "start"}
                ELSE unlocked

Next ==
    /\ (\E p \in Procs : Step(p)) \/ EditDocument \/ EditConfig \/ RemoveLock
    /\ Watch

Spec == Init /\ [][Next]_vars

-----------------------------------------------------------------------------
(* Properties.                                                             *)

(* The trail read back: a decision ends with its evaluation or composite   *)
(* record, and applied what all the records of its run say.                *)
ReadBack(k) ==
    LET r == trail[k]
    IN  [run |-> r.run, cfg |-> r.cfg, rehearsal |-> FALSE, reviewed |-> r.reviewed,
         set |-> r.set,
         applied |-> UNION {trail[j].documents : j \in {i \in 1 .. k : trail[i].run = r.run}}]

DecisionsRead == [k \in {j \in DOMAIN trail : trail[j].kind # "node"} |-> ReadBack(k)]

Promise == INSTANCE Decisions WITH trail <- DecisionsRead

Decided ==
    Range(DecisionsRead) \cup {reported[p] : p \in {q \in Procs : reported[q] # NoDecision}}

(* Every decision is taken as the abstract specification allows: recorded  *)
(* before it is reported and never differently, once, a rehearsal never,   *)
(* and one marked reviewed applies what one declared set says, whatever    *)
(* was edited or locked again while it ran.                                *)
DecisionsSpec == Promise!AbsSpec

(* A by-id or declared-graph decision that carries no reviewed bit was     *)
(* taken while there really was no lock at some moment: a lock cut short   *)
(* by a failed `packs lock`, or of another version, is never read as a     *)
(* project that declares no set.                                           *)
UnlockedMeansAbsent ==
    \A d \in Decided :
        d.reviewed = "none" /\ ~ d.rehearsal /\ d.cfg # NoConfig => d.run \in unlocked

(* `packs verify` is never kinder than the deciding check: over the same   *)
(* files, a document it finds no difference in, in a configuration it      *)
(* finds no difference in, is one a run by id is not refused for.          *)
VerifyCoversDeciding ==
    (config # NoConfig /\ lockFile.part = "whole") =>
        LET bytes == [n \in Declared(config) |-> docs[config.path[n]]]
            found == Verify(config, lockFile.doc, bytes)
        IN  \A n \in {m \in Declared(config) : bytes[m] \in Contents} :
              VerifyDeciding(config, lockFile.doc, { <<n, bytes[n]>> })
                = {f \in found : f[2] \in {n, "the configuration"}}
=============================================================================
