--------------------------- MODULE DecidingProofs ---------------------------
(***************************************************************************)
(* The deciding surfaces of module Deciding keep what module Decisions     *)
(* promises, for every project, every set of runs and any number of edits. *)
(* The invariant says of each run what it holds, what its reviewed bit was *)
(* granted for, and whether the trail has it.                              *)
(***************************************************************************)
EXTENDS Deciding, SequenceTheorems, TLAPS

-----------------------------------------------------------------------------
(* The types.                                                              *)

Read == Contents \cup {Absent, Big}
Bits == {"none", "false", "true"}
Findings == {"config-drift", "lock-entry-missing", "document-missing", "path-mismatch",
             "document-drift", "locked-but-undeclared"}

RunType ==
    [pc : {"start", "graph", "load", "pack", "draft", "open", "readLock", "require",
           "evaluate", "nodes", "append", "render", "documents", "write",
           "done", "refused", "dead"},
     task : TaskType, cfg : Configs \cup {NoConfig}, graph : Read,
     read : Seq(Names \X Read), memo : UNION {[S -> Contents] : S \in SUBSET Paths},
     todo : Seq(Names), set : Documents \cup {NoSet}, reviewed : Bits,
     verdict : SUBSET (Findings \X (Names \cup {"the configuration"}))]

RecordType ==
    [run : Procs, kind : {"evaluation", "node", "composite"},
     documents : SUBSET (Names \X Contents), cfg : Configs \cup {NoConfig},
     reviewed : Bits, set : Documents \cup {NoSet}, cites : BOOLEAN, binding : BOOLEAN]

ProjectOK ==
    /\ config \in Configs \cup {NoConfig}
    /\ docs \in [Paths -> Read]
    /\ lockFile \in LockType
    /\ sets \subseteq Documents
    /\ lockFile.part = "whole" => lockFile.doc \in sets

-----------------------------------------------------------------------------
(* What is known of a run r.                                               *)

(* The documents it consults the set about, and whether they are declared. *)
Consults(r) ==
    IF r.task.kind = "graph" THEN {<<n, r.graph>> : n \in DeclaredGraph(r.cfg)}
    ELSE Range(r.read)
NamesLaw(r) ==
    \/ r.task.kind = "id"
    \/ r.task.kind = "graph" /\ DeclaredGraph(r.cfg) # {}

(* Which kinds of run come to which steps.                                 *)
Phase(r) ==
    /\ r.pc \in {"graph", "nodes"} => r.task.kind = "graph"
    /\ r.pc \in {"pack", "draft", "evaluate"} => r.task.kind \in {"id", "path", "text"}
    /\ r.pc \in {"open", "readLock"} => r.task.kind \in {"id", "graph", "verify"}
    /\ r.pc \in {"require", "append", "render"} => r.task.kind \in {"id", "path", "text", "graph"}
    /\ r.pc = "documents" => r.task.kind \in {"lock", "verify"}
    /\ r.pc = "write" => r.task.kind = "lock"

(* What a run by id, by path or text, of a graph, and of the lock's        *)
(* commands has read.                                                      *)
HoldsPack(r) ==
    r.task.kind = "id" =>
        /\ r.pc \in {"pack", "draft", "open", "readLock", "require", "evaluate", "append", "render"} =>
               r.cfg \in Configs
        /\ r.pc \in {"draft", "open", "readLock", "require", "evaluate", "append", "render"} =>
               /\ r.task.name \in Declared(r.cfg)
               /\ \/ r.graph \in Contents /\ r.read = << <<r.task.name, r.graph>> >>
                  \/ r.graph = Big /\ r.read = << >> /\ r.pc \in {"draft", "require", "evaluate"}
HoldsInput(r) ==
    \/ r.pc \in {"start", "graph", "load", "pack"}
    \/ /\ r.task.kind \in {"path", "text"}
       /\ r.pc \in {"draft", "require", "evaluate", "append", "render"}
    => r.read = << >>
HoldsGraph(r) ==
    r.task.kind = "graph" =>
        /\ r.pc \in {"load", "open", "readLock", "require", "nodes", "append", "render"} =>
               r.graph \in Contents
        /\ r.pc \in {"open", "readLock", "require", "nodes", "append", "render"} =>
               r.cfg \in Configs
        /\ r.pc \in {"open", "readLock", "require", "nodes"} =>
               r.todo \in Seq(Range(Nodes[r.graph]))
        /\ r.pc \in {"open", "readLock", "require"} => r.read = << >>
        /\ r.pc \in {"nodes", "append", "render"} =>
               Range(r.read) \subseteq Declared(r.cfg) \X Contents
HoldsProject(r) ==
    r.task.kind \in {"lock", "verify"}
    /\ r.pc \in {"open", "readLock", "documents", "write"} =>
        /\ r.cfg \in Configs /\ r.todo \in Seq(Declared(r.cfg))
        /\ (r.task.kind = "verify" /\ r.pc = "documents") => r.set \in Documents
        /\ r.task.kind = "lock" =>
             /\ Range(r.read) \subseteq Declared(r.cfg) \X Contents
             /\ \A n \in Declared(r.cfg) :
                    n \in Range(r.todo) \/ \E a \in Range(r.read) : a[1] = n
             /\ r.pc = "write" => r.todo = << >>

(* Past the lock's questions.                                              *)
PastLock(r) == r.pc \in {"require", "nodes", "evaluate", "append", "render"}

(* The reviewed bit is true of documents that one declared set names, over *)
(* the configuration the run loaded.                                       *)
UnderLaw(r) ==
    PastLock(r) /\ r.reviewed = "true" /\ ~ r.task.rehearsal =>
        /\ NamesLaw(r)
        /\ r.set \in sets /\ r.set.config = r.cfg
        /\ \A a \in Range(r.read) \cup Consults(r) :
             /\ a[1] \in Declared(r.cfg) \cap DOMAIN r.set.entry
             /\ r.set.entry[a[1]] = [path |-> r.cfg.path[a[1]], digest |-> a[2]]

(* A run that names declared law is a draft only when it holds nothing,    *)
(* and one that passed where reviewed law is required names declared law.  *)
NoDraftPasses(r) ==
    /\ PastLock(r) /\ NamesLaw(r) /\ r.reviewed = "false" /\ ~ r.task.rehearsal =>
         r.task.kind = "id" /\ r.graph = Big
    /\ PastLock(r) /\ r.pc # "require" /\ r.cfg # NoConfig /\ r.cfg.required /\ ~ r.task.rehearsal =>
         NamesLaw(r)
    /\ r.pc \in {"append", "render"} /\ r.task.kind # "graph" => r.graph # Big

(* Without a bit there was no lock.                                        *)
SeenUnlocked(p, r) ==
    PastLock(r) /\ r.reviewed = "none" /\ ~ r.task.rehearsal /\ r.cfg # NoConfig =>
        p \in unlocked

(* The trail has nothing of a run before it appends, and its decision once *)
(* it has, if it records any.                                              *)
InTrail(p, r) ==
    /\ \/ r.pc \notin {"render", "done", "refused", "dead"}
       \/ r.pc = "render" /\ ~ Recorded(p)
       => \A k \in DOMAIN trail : trail[k].run # p
    /\ r.pc = "render" /\ Recorded(p) =>
         \E k \in DOMAIN trail : trail[k].kind # "node" /\ ReadBack(k) = Decision(p)

RunInv(p) ==
    LET r == run[p]
    IN  /\ r \in RunType /\ Phase(r)
        /\ HoldsPack(r) /\ HoldsInput(r) /\ HoldsGraph(r) /\ HoldsProject(r)
        /\ UnderLaw(r) /\ NoDraftPasses(r) /\ SeenUnlocked(p, r)
        /\ InTrail(p, r)
        /\ reported[p] # NoDecision => r.pc = "done"

TrailOK ==
    /\ trail \in Seq(RecordType)
    /\ \A k \in DOMAIN trail :
           trail[k].reviewed = "none" /\ trail[k].cfg # NoConfig => trail[k].run \in unlocked

ReportedOK ==
    /\ reported \in [Procs -> DecisionType \cup {NoDecision}]
    /\ \A p \in Procs : reported[p] # NoDecision =>
         /\ reported[p].run = p
         /\ reported[p].reviewed = "none" /\ ~ reported[p].rehearsal /\ reported[p].cfg # NoConfig =>
                p \in unlocked

DecidingInv ==
    /\ ProjectOK /\ TrailOK /\ ReportedOK
    /\ run \in [Procs -> RunType]
    /\ \A p \in Procs : RunInv(p)
-----------------------------------------------------------------------------
(* What a step leaves alone.                                               *)

(* The trail grows only at its end.                                        *)
Grows ==
    /\ DOMAIN trail \subseteq DOMAIN trail'
    /\ \A k \in DOMAIN trail : trail'[k] = trail[k]

(* What stands in the trail reads back the same when it has grown.         *)
LEMMA ReadBackStays ==
    ASSUME trail \in Seq(RecordType), Grows, NEW k \in DOMAIN trail
    PROVE  ReadBack(k)' = ReadBack(k)
  <1>1. \A j \in 1..k : j \in DOMAIN trail
    OBVIOUS
  <1>2. \A j \in 1..k : trail'[j] = trail[j]
    BY <1>1 DEF Grows
  <1>3. {i \in 1..k : trail'[i].run = trail'[k].run} = {i \in 1..k : trail[i].run = trail[k].run}
    BY <1>2 DEF Grows
  <1>4. UNION {trail'[j].documents : j \in {i \in 1..k : trail'[i].run = trail'[k].run}}
          = UNION {trail[j].documents : j \in {i \in 1..k : trail[i].run = trail[k].run}}
    BY <1>2, <1>3
  <1> QED BY <1>4 DEF ReadBack, Grows

(* A run that does not move stays as it is known, while sets are only      *)
(* declared, absences of the lock only seen, and others' records added.    *)
LEMMA OtherKeeps ==
    ASSUME DecidingInv, NEW q \in Procs, run'[q] = run[q], reported'[q] = reported[q],
           sets \subseteq sets', unlocked \subseteq unlocked', Grows,
           \A k \in DOMAIN trail' \ DOMAIN trail : trail'[k].run # q
    PROVE  RunInv(q)'
  <1> DEFINE r == run[q]
  <1>1. RunInv(q) /\ trail \in Seq(RecordType)
    BY DEF DecidingInv, TrailOK
  <1>2. /\ run'[q] \in RunType /\ Phase(run'[q])
        /\ HoldsPack(run'[q]) /\ HoldsInput(run'[q]) /\ HoldsGraph(run'[q]) /\ HoldsProject(run'[q])
        /\ NoDraftPasses(run'[q])
        /\ (reported'[q] # NoDecision => run'[q].pc = "done")
    BY <1>1 DEF RunInv
  <1>3. UnderLaw(r)'
    BY <1>1 DEF RunInv, UnderLaw, PastLock, NamesLaw, Consults
  <1>4. SeenUnlocked(q, r)'
    BY <1>1 DEF RunInv, SeenUnlocked, PastLock
  <1>5. Decision(q)' = Decision(q) /\ (Recorded(q)' <=> Recorded(q))
    BY DEF Decision, Recorded, Applied, Kind
  <1>6. (\A k \in DOMAIN trail : trail[k].run # q) => (\A k \in DOMAIN trail' : trail'[k].run # q)
    BY DEF Grows
  <1>7. (\E k \in DOMAIN trail : trail[k].kind # "node" /\ ReadBack(k) = Decision(q))
          => (\E k \in DOMAIN trail' : trail'[k].kind # "node" /\ ReadBack(k)' = Decision(q))
    BY <1>1, ReadBackStays DEF Grows
  <1>8. InTrail(q, r)'
    BY <1>1, <1>5, <1>6, <1>7 DEF RunInv, InTrail
  <1> QED BY <1>2, <1>3, <1>4, <1>8 DEF RunInv

(* Absences of the lock stay seen.                                         *)
LEMMA WatchGrows == Watch => unlocked \subseteq unlocked'
  BY DEF Watch

(* A run that moved alone leaves the rest as it was known.                 *)
LEMMA BecomesKeeps ==
    ASSUME DecidingInv, Watch, NEW p \in Procs, run' = [run EXCEPT ![p] = run'[p]],
           UNCHANGED <<project, sets, trail, reported>>, RunInv(p)'
    PROVE  DecidingInv'
  <1>1. \A q \in Procs \ {p} : run'[q] = run[q]
    BY DEF DecidingInv
  <1>2. Grows /\ unlocked \subseteq unlocked'
    BY WatchGrows DEF Grows
  <1>3. \A q \in Procs \ {p} : RunInv(q)'
    BY <1>1, <1>2, OtherKeeps
  <1>4. run' \in [Procs -> RunType]
    BY DEF DecidingInv, RunInv
  <1>5. ProjectOK'
    BY DEF DecidingInv, ProjectOK, project
  <1>6. TrailOK' /\ ReportedOK'
    BY <1>2 DEF DecidingInv, TrailOK, ReportedOK
  <1> QED BY <1>3, <1>4, <1>5, <1>6 DEF DecidingInv

(* A run that refuses or dies holds nothing more.                          *)
LEMMA EndKeeps ==
    ASSUME DecidingInv, Watch, NEW p \in Procs, NEW end \in {"refused", "dead"},
           run[p].pc # "done", Becomes(p, [run[p] EXCEPT !.pc = end])
    PROVE  DecidingInv'
  <1> DEFINE r == run[p]
  <1>1. r \in RunType /\ run \in [Procs -> RunType] /\ reported[p] = NoDecision
    BY DEF DecidingInv, RunInv
  <1>2. run'[p] = [r EXCEPT !.pc = end] /\ run' = [run EXCEPT ![p] = run'[p]]
    BY <1>1 DEF Becomes
  <1>3. run'[p] \in RunType /\ run'[p].pc = end
    BY <1>1, <1>2 DEF RunType
  <1>4. UNCHANGED <<project, sets, trail, reported>>
    BY DEF Becomes
  <1>5. RunInv(p)'
    BY <1>1, <1>3, <1>4 DEF RunInv, Phase, HoldsPack, HoldsInput, HoldsGraph, HoldsProject,
       UnderLaw, NoDraftPasses, SeenUnlocked, PastLock, InTrail
  <1> QED BY <1>2, <1>4, <1>5, BecomesKeeps
-----------------------------------------------------------------------------
(* The steps of a run that decides.                                        *)

(* What a run's own step starts from.                                      *)
LEMMA RunFacts ==
    ASSUME DecidingInv, NEW p \in Procs
    PROVE  /\ RunInv(p) /\ run[p] \in RunType /\ run \in [Procs -> RunType]
           /\ run[p].pc # "done" => reported[p] = NoDecision
  BY DEF DecidingInv, RunInv

(* The task is taken, or its arguments are refused.                        *)
LEMMA StartKeeps ==
    ASSUME DecidingInv, Watch, NEW p \in Procs, Start(p) PROVE DecidingInv'
  <1> DEFINE r == run[p]
  <1>1. /\ RunInv(p) /\ r \in RunType /\ run \in [Procs -> RunType]
        /\ r.pc = "start" /\ reported[p] = NoDecision
    BY RunFacts DEF Start, At
  <1>2. PICK t \in Tasks, l \in {"refused", "graph", "load"} :
          /\ Becomes(p, [r EXCEPT !.task = t, !.pc = l])
          /\ l = "graph" => t.kind = "graph"
          /\ l = "load" => t.kind # "graph"
    <2>1. PICK t \in Tasks :
            Becomes(p, [r EXCEPT !.task = t,
                                 !.pc = CASE ~ Accepts(t) -> "refused"
                                          [] Accepts(t) /\ t.kind = "graph" -> "graph"
                                          [] OTHER -> "load"])
      BY DEF Start
    <2>2. CASE ~ Accepts(t)
      BY <2>1, <2>2
    <2>3. CASE Accepts(t) /\ t.kind = "graph"
      BY <2>1, <2>3
    <2>4. CASE Accepts(t) /\ t.kind # "graph"
      BY <2>1, <2>4
    <2> QED BY <2>2, <2>3, <2>4
  <1>3. t \in TaskType
    BY TaskAssumption
  <1>4. /\ run'[p] = [r EXCEPT !.task = t, !.pc = l] /\ run' = [run EXCEPT ![p] = run'[p]]
        /\ UNCHANGED <<project, sets, trail, reported>>
    BY <1>1, <1>2 DEF Becomes
  <1>5. run'[p] \in RunType /\ run'[p].pc = l /\ run'[p].task = t /\ run'[p].read = r.read
    BY <1>1, <1>3, <1>4 DEF RunType
  <1>6. RunInv(p)'
    BY <1>1, <1>2, <1>4, <1>5 DEF RunInv, Phase, HoldsPack, HoldsInput, HoldsGraph, HoldsProject,
       UnderLaw, NoDraftPasses, SeenUnlocked, PastLock, InTrail
  <1> QED BY <1>4, <1>6, BecomesKeeps

(* A graph run holds its document.                                         *)
LEMMA ReadGraphKeeps ==
    ASSUME DecidingInv, Watch, NEW p \in Procs, ReadGraph(p) PROVE DecidingInv'
  <1> DEFINE r == run[p]
  <1>1. /\ RunInv(p) /\ r \in RunType /\ run \in [Procs -> RunType]
        /\ r.pc = "graph" /\ reported[p] = NoDecision
    BY RunFacts DEF ReadGraph, At
  <1>2. CASE Refuse(p)
    BY <1>1, <1>2, EndKeeps DEF Refuse
  <1>3. CASE ~ Refuse(p)
    <2>1. PICK bytes \in Contents : Becomes(p, [r EXCEPT !.graph = bytes, !.pc = "load"])
      BY <1>3 DEF ReadGraph
    <2>2. /\ run'[p] = [r EXCEPT !.graph = bytes, !.pc = "load"]
          /\ run' = [run EXCEPT ![p] = run'[p]] /\ UNCHANGED <<project, sets, trail, reported>>
      BY <1>1, <2>1 DEF Becomes
    <2>3. /\ run'[p] \in RunType /\ run'[p].pc = "load" /\ run'[p].task = r.task
          /\ run'[p].read = r.read /\ run'[p].graph = bytes
      BY <1>1, <2>2 DEF RunType, Read
    <2>4. RunInv(p)'
      BY <1>1, <2>2, <2>3 DEF RunInv, Phase, HoldsPack, HoldsInput, HoldsGraph, HoldsProject,
         UnderLaw, NoDraftPasses, SeenUnlocked, PastLock, InTrail
    <2> QED BY <2>2, <2>4, BecomesKeeps
  <1> QED BY <1>2, <1>3

(* The configuration is held, and what is to be read is what it declares.  *)
LEMMA LoadKeeps ==
    ASSUME DecidingInv, Watch, NEW p \in Procs, Load(p) PROVE DecidingInv'
  <1> DEFINE r == run[p]
             l == CASE Kind(p) \in {"id", "path", "text"} -> "pack"
                    [] Kind(p) = "graph" -> IF r.task.rehearsal THEN "nodes" ELSE "open"
                    [] Kind(p) = "lock" -> "documents"
                    [] Kind(p) = "verify" -> "open"
             names == CASE Kind(p) = "graph" -> Nodes[r.graph]
                        [] Kind(p) \in {"lock", "verify"} -> Sorted(Declared(config))
                        [] OTHER -> << >>
  <1>1. /\ RunInv(p) /\ r \in RunType /\ run \in [Procs -> RunType]
        /\ r.pc = "load" /\ reported[p] = NoDecision /\ r.read = << >>
        /\ (r.task.kind = "graph" => r.graph \in Contents)
        /\ r.task.kind \in {"id", "path", "text", "graph", "lock", "verify"}
    BY RunFacts DEF Load, At, RunInv, HoldsInput, HoldsGraph, RunType, TaskType
  <1>2. CASE Refuse(p)
    BY <1>1, <1>2, EndKeeps DEF Refuse
  <1>3. CASE ~ Refuse(p)
    <2>1. /\ Becomes(p, [r EXCEPT !.cfg = config, !.pc = l, !.todo = names])
          /\ config # NoConfig \/ Kind(p) \in {"path", "text"}
      BY <1>3 DEF Load
    <2>2. config \in Configs \cup {NoConfig} /\ (config # NoConfig => Declared(config) \in SUBSET Names)
      <3>1. config # NoConfig => config.path \in UNION {[S -> Paths] : S \in SUBSET Names}
        BY ConfigAssumption DEF DecidingInv, ProjectOK, ConfigType
      <3>2. \A f \in UNION {[S -> Paths] : S \in SUBSET Names} : DOMAIN f \in SUBSET Names
        OBVIOUS
      <3>3. config # NoConfig => DOMAIN config.path \in SUBSET Names
        BY <3>1, <3>2
      <3> QED BY <3>3 DEF DecidingInv, ProjectOK, Declared
    <2>3. r.task.kind \in {"lock", "verify"} =>
            names \in Seq(Declared(config)) /\ names \in Seq(Names) /\ Range(names) = Declared(config)
      BY <2>1, <2>2, ProjectAssumption DEF Kind
    <2>4. r.task.kind = "graph" => names = Nodes[r.graph] /\ names \in Seq(Names)
      BY <1>1, ProjectAssumption DEF Kind, Names
    <2>5. names \in Seq(Names)
      BY <2>3, <2>4 DEF Kind
    <2>6. /\ l \in {"pack", "nodes", "open", "documents"}
          /\ (l = "pack" <=> r.task.kind \in {"id", "path", "text"})
          /\ (l = "nodes" => r.task.kind = "graph")
          /\ (l = "open" => r.task.kind \in {"graph", "verify"})
          /\ (l = "documents" <=> r.task.kind = "lock")
      BY <1>1 DEF Kind
    <2>7. l = "nodes" => r.task.rehearsal
      BY <1>1 DEF Kind
    <2> HIDE DEF l, names
    <2>20. /\ run'[p] = [r EXCEPT !.cfg = config, !.pc = l, !.todo = names]
           /\ run' = [run EXCEPT ![p] = run'[p]] /\ UNCHANGED <<project, sets, trail, reported>>
      BY <1>1, <2>1 DEF Becomes
    <2>8. /\ run'[p] \in RunType /\ run'[p].pc = l /\ run'[p].task = r.task
          /\ run'[p].read = r.read /\ run'[p].graph = r.graph /\ run'[p].cfg = config
          /\ run'[p].todo = names
      BY <1>1, <2>20, <2>2, <2>5, <2>6 DEF RunType
    <2>9. \A s : s \in Seq(Names) => s \in Seq(Range(s))
      BY DEF Range
    <2>10. Range(<< >>) = {}
      BY DEF Range
    <2>11. HoldsGraph(run[p])'
      BY <1>1, <2>1, <2>2, <2>4, <2>6, <2>8, <2>9, <2>10 DEF HoldsGraph, Kind
    <2>12. HoldsProject(run[p])'
      BY <1>1, <2>1, <2>2, <2>3, <2>6, <2>8, <2>10 DEF HoldsProject, Kind
    <2>13. UnderLaw(run[p])' /\ NoDraftPasses(run[p])' /\ SeenUnlocked(p, run[p])'
      BY <2>6, <2>7, <2>8 DEF UnderLaw, NoDraftPasses, SeenUnlocked, PastLock
    <2>14. RunInv(p)'
      BY <1>1, <2>20, <2>1, <2>2, <2>6, <2>8, <2>11, <2>12, <2>13 DEF Kind, RunInv, Phase, HoldsPack, HoldsInput, InTrail
    <2> QED BY <2>20, <2>14, BecomesKeeps
  <1> QED BY <1>2, <1>3
(* What a configuration declares is named and has a path.                  *)
LEMMA DeclaredNames ==
    ASSUME NEW cfg \in Configs
    PROVE  Declared(cfg) \in SUBSET Names /\ cfg.path \in [Declared(cfg) -> Paths]
  <1>1. cfg.path \in UNION {[S -> Paths] : S \in SUBSET Names}
    BY ConfigAssumption DEF ConfigType
  <1>2. \A f \in UNION {[S -> Paths] : S \in SUBSET Names} :
          DOMAIN f \in SUBSET Names /\ f \in [DOMAIN f -> Paths]
    OBVIOUS
  <1> QED BY <1>1, <1>2 DEF Declared

(* The pack a run by id names is held, or found over the limit.            *)
LEMMA ReadPackKeeps ==
    ASSUME DecidingInv, Watch, NEW p \in Procs, ReadPack(p) PROVE DecidingInv'
  <1> DEFINE r == run[p]
             bytes == docs[r.cfg.path[r.task.name]]
  <1>1. /\ RunInv(p) /\ r \in RunType /\ run \in [Procs -> RunType]
        /\ r.pc = "pack" /\ reported[p] = NoDecision /\ r.read = << >>
        /\ r.task.kind = "id" /\ r.cfg \in Configs
    BY RunFacts DEF ReadPack, At, RunInv, HoldsInput, HoldsPack, Kind
  <1>2. CASE Refuse(p)
    BY <1>1, <1>2, EndKeeps DEF Refuse
  <1>3. CASE ~ Refuse(p)
    <2>1. r.task.name \in Declared(r.cfg) /\ bytes # Absent /\ Becomes(p, Holding(p, bytes))
      BY <1>3 DEF ReadPack
    <2>2. bytes \in Contents \cup {Big} /\ r.task.name \in Names
      BY <2>1, <1>1, DeclaredNames DEF DecidingInv, ProjectOK, Read
    <2> HIDE DEF bytes
    <2> DEFINE held == IF bytes # Big THEN << <<r.task.name, bytes>> >> ELSE << >>
    <2>3. held \in Seq(Names \X Read)
      <3>1. bytes \in Read => <<r.task.name, bytes>> \in Names \X Read
        BY <2>2
      <3>2. \A x \in Names \X Read : << x >> \in Seq(Names \X Read)
        OBVIOUS
      <3>3. << >> \in Seq(Names \X Read)
        OBVIOUS
      <3>4. CASE bytes = Big
        BY <3>3, <3>4
      <3>5. CASE bytes # Big
        BY <2>2, <3>1, <3>2, <3>5 DEF Read
      <3> QED BY <3>4, <3>5
    <2>4. Holding(p, bytes) = [r EXCEPT !.graph = bytes, !.read = held, !.pc = "draft"]
      BY <1>1 DEF Holding, Kind
    <2>5. \/ bytes \in Contents /\ held = << <<r.task.name, bytes>> >>
          \/ bytes = Big /\ held = << >>
      BY <2>2
    <2> HIDE DEF held
    <2>6. /\ run'[p] = [r EXCEPT !.graph = bytes, !.read = held, !.pc = "draft"]
          /\ run' = [run EXCEPT ![p] = run'[p]] /\ UNCHANGED <<project, sets, trail, reported>>
      BY <1>1, <2>1, <2>4 DEF Becomes
    <2>7. /\ run'[p] \in RunType /\ run'[p].pc = "draft" /\ run'[p].task = r.task
          /\ run'[p].read = held /\ run'[p].graph = bytes /\ run'[p].cfg = r.cfg
      BY <1>1, <2>2, <2>3, <2>6 DEF RunType, Read
    <2>8. RunInv(p)'
      BY <1>1, <2>1, <2>5, <2>6, <2>7 DEF RunInv, Phase, HoldsPack, HoldsInput, HoldsGraph,
         HoldsProject, UnderLaw, NoDraftPasses, SeenUnlocked, PastLock, InTrail
    <2> QED BY <2>6, <2>8, BecomesKeeps
  <1> QED BY <1>2, <1>3

(* A pack by path or as text is held as nobody's declared document.        *)
LEMMA ReadInputKeeps ==
    ASSUME DecidingInv, Watch, NEW p \in Procs, ReadInput(p) PROVE DecidingInv'
  <1> DEFINE r == run[p]
             bytes == IF Kind(p) = "text" THEN r.task.bytes ELSE docs[r.task.path]
  <1>1. /\ RunInv(p) /\ r \in RunType /\ run \in [Procs -> RunType]
        /\ r.pc = "pack" /\ reported[p] = NoDecision /\ r.read = << >>
        /\ r.task.kind \in {"path", "text"} /\ r.task \in TaskType
    BY RunFacts DEF ReadInput, At, RunInv, RunType, HoldsInput, Kind
  <1>2. CASE Refuse(p)
    BY <1>1, <1>2, EndKeeps DEF Refuse
  <1>3. CASE ~ Refuse(p)
    <2>1. Becomes(p, Holding(p, bytes))
      BY <1>3 DEF ReadInput
    <2>2. bytes \in Read
      BY <1>1 DEF DecidingInv, ProjectOK, Read, TaskType
    <2> HIDE DEF bytes
    <2>3. Holding(p, bytes) = [r EXCEPT !.graph = bytes, !.read = << >>, !.pc = "draft"]
      BY <1>1 DEF Holding, Kind
    <2>4. /\ run'[p] = [r EXCEPT !.graph = bytes, !.read = << >>, !.pc = "draft"]
          /\ run' = [run EXCEPT ![p] = run'[p]] /\ UNCHANGED <<project, sets, trail, reported>>
      BY <1>1, <2>1, <2>3 DEF Becomes
    <2>5. /\ run'[p] \in RunType /\ run'[p].pc = "draft" /\ run'[p].task = r.task
          /\ run'[p].read = << >>
      BY <1>1, <2>2, <2>4 DEF RunType, Read
    <2>6. RunInv(p)'
      BY <1>1, <2>4, <2>5 DEF RunInv, Phase, HoldsPack, HoldsInput, HoldsGraph,
         HoldsProject, UnderLaw, NoDraftPasses, SeenUnlocked, PastLock, InTrail
    <2> QED BY <2>4, <2>6, BecomesKeeps
  <1> QED BY <1>2, <1>3

(* A run given no bit while it runs saw no lock.                           *)
LEMMA AbsentSeen ==
    ASSUME Watch, NEW p \in Procs, lockFile' = NoLock, run'[p].pc # "start"
    PROVE  p \in unlocked'
  BY DEF Watch

(* A run that will not ask the lock has seen whether there is one.         *)
LEMMA AskDraftKeeps ==
    ASSUME DecidingInv, Watch, NEW p \in Procs, AskDraft(p) PROVE DecidingInv'
  <1> DEFINE r == run[p]
             bit == IF r.cfg = NoConfig THEN "none" ELSE DraftRun(HasLock)
             l == IF r.task.rehearsal THEN "evaluate"
                  ELSE IF r.read # << >> THEN "open" ELSE "require"
  <1>1. /\ RunInv(p) /\ r \in RunType /\ run \in [Procs -> RunType]
        /\ r.pc = "draft" /\ reported[p] = NoDecision
        /\ r.task.kind \in {"id", "path", "text"}
    BY RunFacts DEF AskDraft, At, RunInv, Phase
  <1>2. CASE Refuse(p)
    BY <1>1, <1>2, EndKeeps DEF Refuse
  <1>3. CASE ~ Refuse(p)
    <2>1. Becomes(p, [r EXCEPT !.reviewed = bit, !.pc = l])
      BY <1>3 DEF AskDraft
    <2>2. /\ bit \in {"none", "false"}
          /\ bit = "none" /\ r.cfg # NoConfig => lockFile = NoLock
      BY DEF DraftRun, HasLock
    <2>3. /\ l \in {"evaluate", "open", "require"}
          /\ (l = "evaluate" => r.task.rehearsal)
          /\ (l = "open" => r.read # << >>) /\ (l = "require" => r.read = << >>)
      OBVIOUS
    <2> HIDE DEF bit, l
    <2>4. /\ run'[p] = [r EXCEPT !.reviewed = bit, !.pc = l]
          /\ run' = [run EXCEPT ![p] = run'[p]] /\ UNCHANGED <<project, sets, trail, reported>>
      BY <1>1, <2>1 DEF Becomes
    <2>5. /\ run'[p].pc = l /\ run'[p].task = r.task /\ run'[p].read = r.read
          /\ run'[p].graph = r.graph /\ run'[p].cfg = r.cfg /\ run'[p].reviewed = bit
      BY <1>1, <2>4 DEF RunType
    <2>11. run'[p] \in RunType
      <3>1. bit \in Bits
        BY <2>2 DEF Bits
      <3>2. l \in {"evaluate", "open", "require"}
        BY <2>3
      <3> QED BY <1>1, <2>4, <3>1, <3>2 DEF RunType
    <2>6. SeenUnlocked(p, run[p])'
      BY <2>2, <2>3, <2>4, <2>5, AbsentSeen DEF SeenUnlocked, project
    <2>7. HoldsPack(run[p])' /\ HoldsInput(run[p])'
      BY <1>1, <2>3, <2>5 DEF RunInv, HoldsPack, HoldsInput
    <2>8. UnderLaw(run[p])'
      BY <2>2, <2>5 DEF UnderLaw
    <2>12. NoDraftPasses(run[p])'
      <3>1. r.read = << >> /\ r.task.kind = "id" => r.graph = Big
        BY <1>1 DEF RunInv, HoldsPack
      <3> QED BY <1>1, <2>3, <2>5, <3>1 DEF NoDraftPasses, PastLock, NamesLaw
    <2>9. HoldsGraph(run[p])' /\ HoldsProject(run[p])'
      BY <1>1, <2>5 DEF HoldsGraph, HoldsProject
    <2>13. Phase(run[p])'
      <3>1. r.task.kind \in {"path", "text"} => r.read = << >>
        BY <1>1 DEF RunInv, HoldsInput
      <3> QED BY <1>1, <2>3, <2>5, <3>1 DEF Phase
    <2>10. RunInv(p)'
      BY <1>1, <2>3, <2>4, <2>5, <2>6, <2>7, <2>8, <2>9, <2>11, <2>12, <2>13 DEF RunInv, InTrail
    <2> QED BY <2>4, <2>10, BecomesKeeps
  <1> QED BY <1>2, <1>3

(* The evaluator refuses, or answers of what it holds.                     *)
LEMMA EvaluateKeeps ==
    ASSUME DecidingInv, Watch, NEW p \in Procs, Evaluate(p) PROVE DecidingInv'
  <1> DEFINE r == run[p]
  <1>1. /\ RunInv(p) /\ r \in RunType /\ run \in [Procs -> RunType]
        /\ r.pc = "evaluate" /\ reported[p] = NoDecision
    BY RunFacts DEF Evaluate, At
  <1>2. CASE Refuse(p)
    BY <1>1, <1>2, EndKeeps DEF Refuse
  <1>3. CASE ~ Refuse(p)
    <2>1. r.graph # Big /\ Becomes(p, [r EXCEPT !.pc = "append"])
      BY <1>3 DEF Evaluate
    <2>2. /\ run'[p] = [r EXCEPT !.pc = "append"]
          /\ run' = [run EXCEPT ![p] = run'[p]] /\ UNCHANGED <<project, sets, trail, reported>>
      BY <1>1, <2>1 DEF Becomes
    <2>3. /\ run'[p] \in RunType /\ run'[p].pc = "append" /\ run'[p].task = r.task
          /\ run'[p].read = r.read /\ run'[p].graph = r.graph /\ run'[p].cfg = r.cfg
          /\ run'[p].reviewed = r.reviewed /\ run'[p].set = r.set
      BY <1>1, <2>2 DEF RunType
    <2>4. unlocked \subseteq unlocked'
      BY WatchGrows
    <2>5. UnderLaw(run[p])' /\ NoDraftPasses(run[p])' /\ SeenUnlocked(p, run[p])'
      BY <1>1, <2>1, <2>2, <2>3, <2>4
         DEF RunInv, UnderLaw, NoDraftPasses, SeenUnlocked, PastLock, NamesLaw, Consults
    <2>6. RunInv(p)'
      BY <1>1, <2>1, <2>2, <2>3, <2>5
         DEF RunInv, Phase, HoldsPack, HoldsInput, HoldsGraph, HoldsProject, InTrail
    <2> QED BY <2>2, <2>6, BecomesKeeps
  <1> QED BY <1>2, <1>3
-----------------------------------------------------------------------------
(* The steps that ask the lock.                                            *)

(* Where VerifyDeciding finds nothing, the set is of this configuration    *)
(* and says of each applied document what it is.                           *)
LEMMA NothingFound ==
    ASSUME NEW cfg, NEW doc \in Documents, NEW applied, VerifyDeciding(cfg, doc, applied) = {}
    PROVE  /\ doc.config = cfg
           /\ \A a \in applied : a[1] \in Declared(cfg) =>
                /\ a[1] \in DOMAIN doc.entry
                /\ doc.entry[a[1]] = [path |-> cfg.path[a[1]], digest |-> a[2]]
  <1>1. doc.config = cfg
    BY DEF VerifyDeciding, ConfigDrift
  <1>2. \A a \in applied : VerifyApplied(cfg, doc, a[1], a[2]) = {}
    BY DEF VerifyDeciding
  <1>3. doc.entry \in UNION {[S -> Entries] : S \in SUBSET Names}
    BY DEF Documents
  <1>4. \A f \in UNION {[S -> Entries] : S \in SUBSET Names} : \A n \in DOMAIN f : f[n] \in Entries
    OBVIOUS
  <1>5. \A n \in DOMAIN doc.entry : doc.entry[n] \in Entries
    BY <1>3, <1>4
  <1>6. ASSUME NEW a \in applied, a[1] \in Declared(cfg)
        PROVE  /\ a[1] \in DOMAIN doc.entry
               /\ doc.entry[a[1]] = [path |-> cfg.path[a[1]], digest |-> a[2]]
    <2>1. VerifyApplied(cfg, doc, a[1], a[2]) = {}
      BY <1>2
    <2>2. a[1] \in DOMAIN doc.entry
      BY <1>6, <2>1 DEF VerifyApplied
    <2>3. doc.entry[a[1]].path = cfg.path[a[1]] /\ doc.entry[a[1]].digest = a[2]
      BY <1>6, <2>1, <2>2 DEF VerifyApplied, PathMismatch
    <2>4. \A e \in Entries : e = [path |-> e.path, digest |-> e.digest]
      BY DEF Entries
    <2> QED BY <1>5, <2>2, <2>3, <2>4
  <1> QED BY <1>1, <1>6

(* The documents consulted about are those the run holds by its kind.      *)
LEMMA AppliedConsults ==
    ASSUME NEW p PROVE Applied(p) = Consults(run[p]) /\ (NamesDeclared(p) <=> NamesLaw(run[p]))
  BY DEF Applied, Consults, NamesDeclared, NamesLaw, Kind

(* Consult grants the bit only to what the set says, and withholds it only *)
(* where there was no set.                                                 *)
LEMMA ConsultKeeps ==
    ASSUME DecidingInv, Watch, NEW p \in Procs,
           run[p].pc \in {"open", "readLock"}, run[p].task.kind \in {"id", "graph"},
           NEW set \in sets \cup {NoSet}, Becomes(p, Consulted(p, set)),
           set = NoSet => lockFile = NoLock,
           set # NoSet => Refusals(run[p].cfg, set, Applied(p)) = {}
    PROVE  DecidingInv'
  <1> DEFINE r == run[p]
             bit == Reviewed(set, ~ NamesDeclared(p))
  <1>1. /\ RunInv(p) /\ r \in RunType /\ run \in [Procs -> RunType]
        /\ reported[p] = NoDecision /\ set \in Documents \cup {NoSet}
    BY RunFacts DEF DecidingInv, ProjectOK
  <1>2. /\ bit \in Bits
        /\ (bit = "none" => lockFile = NoLock)
        /\ (bit = "true" => set # NoSet /\ NamesLaw(r))
        /\ (bit = "false" => ~ NamesLaw(r))
    BY AppliedConsults DEF Reviewed, Bits
  <1>3. Consulted(p, set) = [r EXCEPT !.set = set, !.pc = "require", !.reviewed = bit]
    BY DEF Consulted
  <1> HIDE DEF bit
  <1>4. /\ run'[p] = [r EXCEPT !.set = set, !.pc = "require", !.reviewed = bit]
        /\ run' = [run EXCEPT ![p] = run'[p]] /\ UNCHANGED <<project, sets, trail, reported>>
    BY <1>1, <1>3 DEF Becomes
  <1>5. /\ run'[p].pc = "require" /\ run'[p].task = r.task /\ run'[p].read = r.read
        /\ run'[p].graph = r.graph /\ run'[p].cfg = r.cfg /\ run'[p].reviewed = bit
        /\ run'[p].set = set /\ run'[p].todo = r.todo
    BY <1>1, <1>4 DEF RunType
  <1>6. run'[p] \in RunType
    <2>1. bit \in Bits
      BY <1>2
    <2> QED BY <1>1, <1>4, <2>1 DEF RunType
  <1>7. SeenUnlocked(p, run[p])'
    BY <1>2, <1>4, <1>5, AbsentSeen DEF SeenUnlocked, project
  <1>8. HoldsPack(run[p])' /\ HoldsInput(run[p])' /\ HoldsGraph(run[p])' /\ HoldsProject(run[p])'
    BY <1>1, <1>5 DEF RunInv, HoldsPack, HoldsInput, HoldsGraph, HoldsProject
  <1>9. NoDraftPasses(run[p])'
    BY <1>2, <1>5 DEF NoDraftPasses, NamesLaw
  <1>10. ASSUME bit = "true"
         PROVE  /\ set.config = r.cfg
                /\ \A a \in Range(r.read) \cup Consults(r) :
                     /\ a[1] \in Declared(r.cfg) \cap DOMAIN set.entry
                     /\ set.entry[a[1]] = [path |-> r.cfg.path[a[1]], digest |-> a[2]]
    <2>1. Range(<< >>) = {} /\ \A x : Range(<< x >>) = {x}
      BY DEF Range
    <2>2. CASE r.task.kind = "id"
      <3>1. /\ Consults(r) = Range(r.read) /\ Range(r.read) = { <<r.task.name, r.graph>> }
            /\ r.task.name \in Declared(r.cfg)
        BY <1>1, <2>1, <2>2 DEF RunInv, HoldsPack, Consults
      <3>2. Consults(r) = { <<r.task.name, r.graph>> } /\ Consults(r) # {}
        BY <3>1
      <3>3. VerifyDeciding(r.cfg, set, Consults(r)) = {} /\ set \in Documents
        <4>1. set # NoSet /\ set \in Documents
          BY <1>1, <1>2, <1>10
        <4>2. Refusals(r.cfg, set, Consults(r)) = {}
          BY <4>1, AppliedConsults
        <4> QED BY <3>2, <4>1, <4>2 DEF Refusals
      <3>4. \A a \in Consults(r) : a[1] \in Declared(r.cfg)
        BY <3>1, <3>2
      <3>5. Range(r.read) \cup Consults(r) = Consults(r)
        BY <3>1
      <3> HIDE DEF r
      <3> QED BY <3>3, <3>4, <3>5, NothingFound
    <2>3. CASE r.task.kind = "graph"
      <3>1. r.read = << >> /\ Consults(r) = {<<n, r.graph>> : n \in DeclaredGraph(r.cfg)}
        BY <1>1, <2>3 DEF RunInv, HoldsGraph, Consults
      <3>2. DeclaredGraph(r.cfg) # {} /\ DeclaredGraph(r.cfg) \subseteq Declared(r.cfg)
        BY <1>2, <1>10, <2>3 DEF NamesLaw, DeclaredGraph
      <3>3. Range(r.read) \cup Consults(r) = Consults(r) /\ Consults(r) # {}
        <4>1. Range(r.read) = {}
          BY <2>1, <3>1
        <4>2. PICK n : n \in DeclaredGraph(r.cfg)
          BY <3>2
        <4>3. <<n, r.graph>> \in Consults(r)
          BY <3>1, <4>2
        <4> QED BY <4>1, <4>3
      <3>4. VerifyDeciding(r.cfg, set, Consults(r)) = {} /\ set \in Documents
        <4>1. set # NoSet /\ set \in Documents
          BY <1>1, <1>2, <1>10
        <4>2. Refusals(r.cfg, set, Consults(r)) = {}
          BY <4>1, AppliedConsults
        <4> QED BY <3>3, <4>1, <4>2 DEF Refusals
      <3>5. \A a \in Consults(r) : a[1] \in Declared(r.cfg)
        BY <3>1, <3>2
      <3> QED BY <3>3, <3>4, <3>5, NothingFound
    <2> QED BY <2>2, <2>3
  <1>11. UnderLaw(run[p])'
    <2>1. Consults(run'[p]) = Consults(r) /\ (NamesLaw(run'[p]) <=> NamesLaw(r))
      BY <1>5 DEF Consults, NamesLaw
    <2>2. bit = "true" => set \in sets /\ NamesLaw(r)
      BY <1>2
    <2> QED BY <1>4, <1>5, <1>10, <2>1, <2>2 DEF UnderLaw
  <1>12. RunInv(p)'
    BY <1>1, <1>4, <1>5, <1>6, <1>7, <1>8, <1>9, <1>11 DEF RunInv, Phase, InTrail
  <1> QED BY <1>4, <1>12, BecomesKeeps

(* Open finds a lock to read, or none.                                     *)
LEMMA OpenKeeps ==
    ASSUME DecidingInv, Watch, NEW p \in Procs, Open(p) PROVE DecidingInv'
  <1> DEFINE r == run[p]
  <1>1. /\ RunInv(p) /\ r \in RunType /\ run \in [Procs -> RunType]
        /\ r.pc = "open" /\ reported[p] = NoDecision
        /\ r.task.kind \in {"id", "graph", "verify"}
    BY RunFacts DEF Open, At, RunInv, Phase
  <1>2. CASE Refuse(p)
    BY <1>1, <1>2, EndKeeps DEF Refuse
  <1>3. CASE ~ HasLock /\ ~ Refuse(p)
    <2>1. Kind(p) # "verify" /\ Becomes(p, Consulted(p, NoSet)) /\ lockFile = NoLock
      BY <1>3 DEF Open, HasLock
    <2> QED BY <1>1, <2>1, ConsultKeeps DEF Kind
  <1>4. CASE HasLock /\ ~ Refuse(p)
    <2>1. Becomes(p, [r EXCEPT !.pc = "readLock"])
      BY <1>4 DEF Open
    <2>2. /\ run'[p] = [r EXCEPT !.pc = "readLock"]
          /\ run' = [run EXCEPT ![p] = run'[p]] /\ UNCHANGED <<project, sets, trail, reported>>
      BY <1>1, <2>1 DEF Becomes
    <2>3. /\ run'[p].pc = "readLock" /\ run'[p].task = r.task /\ run'[p].read = r.read
          /\ run'[p].graph = r.graph /\ run'[p].cfg = r.cfg /\ run'[p].todo = r.todo
      BY <1>1, <2>2 DEF RunType
    <2>4. run'[p] \in RunType
      BY <1>1, <2>2 DEF RunType
    <2>5. HoldsPack(run[p])' /\ HoldsInput(run[p])' /\ HoldsGraph(run[p])' /\ HoldsProject(run[p])'
      BY <1>1, <2>3 DEF RunInv, HoldsPack, HoldsInput, HoldsGraph, HoldsProject
    <2>6. RunInv(p)'
      BY <1>1, <2>2, <2>3, <2>4, <2>5
         DEF RunInv, Phase, UnderLaw, NoDraftPasses, SeenUnlocked, PastLock, InTrail
    <2> QED BY <2>2, <2>6, BecomesKeeps
  <1> QED BY <1>2, <1>3, <1>4

(* A whole lock is read as the set it declares, and no other is read.      *)
LEMMA ReadLockKeeps ==
    ASSUME DecidingInv, Watch, NEW p \in Procs, ReadLock(p) PROVE DecidingInv'
  <1> DEFINE r == run[p]
  <1>1. /\ RunInv(p) /\ r \in RunType /\ run \in [Procs -> RunType]
        /\ r.pc = "readLock" /\ reported[p] = NoDecision
        /\ r.task.kind \in {"id", "graph", "verify"}
    BY RunFacts DEF ReadLock, At, RunInv, Phase
  <1>2. CASE Refuse(p)
    BY <1>1, <1>2, EndKeeps DEF Refuse
  <1>3. CASE ~ Refuse(p)
    <2>1. PICK set : set = lockFile.doc
      OBVIOUS
    <2>2. lockFile.part = "whole"
      BY <1>3 DEF ReadLock
    <2>3. set \in sets /\ set \in Documents /\ set # NoSet
      BY <2>1, <2>2, SetAssumption DEF DecidingInv, ProjectOK
    <2>4. CASE r.task.kind = "verify"
      <3>1. Becomes(p, [r EXCEPT !.set = set, !.pc = "documents"])
        BY <1>3, <2>1, <2>4 DEF ReadLock, Kind
      <3>2. /\ run'[p] = [r EXCEPT !.set = set, !.pc = "documents"]
            /\ run' = [run EXCEPT ![p] = run'[p]] /\ UNCHANGED <<project, sets, trail, reported>>
        BY <1>1, <3>1 DEF Becomes
      <3>3. /\ run'[p].pc = "documents" /\ run'[p].task = r.task /\ run'[p].cfg = r.cfg
            /\ run'[p].set = set /\ run'[p].todo = r.todo
        BY <1>1, <3>2 DEF RunType
      <3>4. run'[p] \in RunType
        BY <1>1, <2>3, <3>2 DEF RunType
      <3>5. HoldsProject(run[p])'
        BY <1>1, <2>3, <2>4, <3>3 DEF RunInv, HoldsProject
      <3>6. RunInv(p)'
        BY <1>1, <2>4, <3>2, <3>3, <3>4, <3>5 DEF RunInv, Phase, HoldsPack, HoldsInput, HoldsGraph,
           UnderLaw, NoDraftPasses, SeenUnlocked, PastLock, InTrail
      <3> QED BY <3>2, <3>6, BecomesKeeps
    <2>5. CASE r.task.kind # "verify"
      <3>1. Refusals(r.cfg, set, Applied(p)) = {} /\ Becomes(p, Consulted(p, set))
        BY <1>3, <2>1, <2>5 DEF ReadLock, Kind
      <3> QED BY <1>1, <2>3, <2>5, <3>1, ConsultKeeps
    <2> QED BY <2>4, <2>5
  <1> QED BY <1>2, <1>3

(* Where reviewed law is required, only a run that names it goes on.       *)
LEMMA RequireKeeps ==
    ASSUME DecidingInv, Watch, NEW p \in Procs, Require(p) PROVE DecidingInv'
  <1> DEFINE r == run[p]
             l == IF Kind(p) = "graph" THEN "nodes" ELSE "evaluate"
  <1>1. /\ RunInv(p) /\ r \in RunType /\ run \in [Procs -> RunType]
        /\ r.pc = "require" /\ reported[p] = NoDecision
        /\ r.task.kind \in {"id", "path", "text", "graph"}
    BY RunFacts DEF Require, At, RunInv, Phase
  <1>2. CASE Refuse(p)
    BY <1>1, <1>2, EndKeeps DEF Refuse
  <1>3. CASE ~ Refuse(p)
    <2>1. /\ Becomes(p, [r EXCEPT !.pc = l])
          /\ RequireReviewed(r.cfg, r.reviewed, NamesDeclared(p), HasLock)
      BY <1>3 DEF Require
    <2>2. l \in {"nodes", "evaluate"} /\ (l = "nodes" <=> r.task.kind = "graph")
      BY DEF Kind
    <2> HIDE DEF l
    <2>3. /\ run'[p] = [r EXCEPT !.pc = l]
          /\ run' = [run EXCEPT ![p] = run'[p]] /\ UNCHANGED <<project, sets, trail, reported>>
      BY <1>1, <2>1 DEF Becomes
    <2>4. /\ run'[p].pc = l /\ run'[p].task = r.task /\ run'[p].read = r.read
          /\ run'[p].graph = r.graph /\ run'[p].cfg = r.cfg /\ run'[p].todo = r.todo
          /\ run'[p].reviewed = r.reviewed /\ run'[p].set = r.set
      BY <1>1, <2>3 DEF RunType
    <2>5. run'[p] \in RunType
      BY <1>1, <2>2, <2>3 DEF RunType
    <2>6. unlocked \subseteq unlocked'
      BY WatchGrows
    <2>7. UnderLaw(r) /\ (UnderLaw(run[p])' <=> UnderLaw(r))
      BY <1>1, <2>2, <2>3, <2>4 DEF RunInv, UnderLaw, PastLock, NamesLaw, Consults
    <2>8. SeenUnlocked(p, run[p])'
      BY <1>1, <2>4, <2>6 DEF RunInv, SeenUnlocked, PastLock
    <2>9. NoDraftPasses(run[p])'
      <3>1. r.cfg = NoConfig \/ ~ r.cfg.required \/ r.reviewed = "true" \/ NamesLaw(r)
        BY <2>1, AppliedConsults DEF RequireReviewed
      <3>2. r.reviewed = "true" /\ ~ r.task.rehearsal => NamesLaw(r)
        BY <1>1, <2>7 DEF UnderLaw, PastLock
      <3>3. NamesLaw(run'[p]) <=> NamesLaw(r)
        BY <2>4 DEF NamesLaw
      <3>4. NamesLaw(r) /\ r.reviewed = "false" /\ ~ r.task.rehearsal => r.task.kind = "id" /\ r.graph = Big
        BY <1>1 DEF RunInv, NoDraftPasses, PastLock
      <3> QED BY <2>2, <2>4, <3>1, <3>2, <3>3, <3>4 DEF NoDraftPasses
    <2>10. HoldsPack(run[p])' /\ HoldsInput(run[p])' /\ HoldsProject(run[p])' /\ Phase(run[p])'
      BY <1>1, <2>2, <2>4 DEF RunInv, HoldsPack, HoldsInput, HoldsProject, Phase
    <2>11. HoldsGraph(run[p])'
      <3>1. r.task.kind = "graph" => r.read = << >>
        BY <1>1 DEF RunInv, HoldsGraph
      <3>2. Range(<< >>) = {}
        BY DEF Range
      <3> QED BY <1>1, <2>2, <2>4, <3>1, <3>2 DEF RunInv, HoldsGraph
    <2>12. RunInv(p)'
      BY <1>1, <2>2, <2>3, <2>4, <2>5, <2>7, <2>8, <2>9, <2>10, <2>11 DEF RunInv, InTrail
    <2> QED BY <2>3, <2>12, BecomesKeeps
  <1> QED BY <1>2, <1>3
(* One more is read.                                                       *)
LEMMA RangeAppend ==
    ASSUME NEW S, NEW s \in Seq(S), NEW x \in S
    PROVE  /\ Append(s, x) \in Seq(S)
           /\ Range(Append(s, x)) = Range(s) \cup {x}
  <1>1. /\ Append(s, x) \in Seq(S) /\ Len(Append(s, x)) = Len(s) + 1
        /\ \A i \in 1..Len(s) : Append(s, x)[i] = s[i]
        /\ Append(s, x)[Len(s) + 1] = x
    OBVIOUS
  <1>2. DOMAIN Append(s, x) = DOMAIN s \cup {Len(s) + 1} /\ DOMAIN s = 1..Len(s)
    BY <1>1
  <1> QED BY <1>1, <1>2 DEF Range

(* The first is taken and the rest stay.                                   *)
LEMMA FirstAndRest ==
    ASSUME NEW S, NEW s \in Seq(S), s # << >>
    PROVE  Head(s) \in S /\ Tail(s) \in Seq(S)
  BY HeadTailProperties

(* A node's pack is read, and is what the retained set says it is.         *)
LEMMA NodeKeeps ==
    ASSUME DecidingInv, Watch, NEW p \in Procs, Node(p) PROVE DecidingInv'
  <1> DEFINE r == run[p]
             n == Head(r.todo)
             bytes == docs[r.cfg.path[n]]
             x == <<n, bytes>>
  <1>1. /\ RunInv(p) /\ r \in RunType /\ run \in [Procs -> RunType]
        /\ r.pc = "nodes" /\ reported[p] = NoDecision
        /\ r.task.kind = "graph" /\ r.graph \in Contents /\ r.cfg \in Configs
        /\ r.todo \in Seq(Range(Nodes[r.graph])) /\ r.todo # << >>
        /\ GraphResolves(r.cfg, r.graph)
        /\ Range(r.read) \subseteq Declared(r.cfg) \X Contents
    BY RunFacts DEF Node, At, RunInv, Phase, HoldsGraph
  <1>2. CASE Refuse(p)
    BY <1>1, <1>2, EndKeeps DEF Refuse
  <1>3. CASE ~ Refuse(p)
    <2>1. /\ bytes \in Contents
          /\ r.task.rehearsal \/ NodeRefusals(r.cfg, r.set, n, bytes) = {}
          /\ Becomes(p, [r EXCEPT !.todo = Tail(@), !.read = Append(@, x)])
      BY <1>3 DEF Node
    <2>2. n \in Range(Nodes[r.graph]) /\ Tail(r.todo) \in Seq(Range(Nodes[r.graph]))
      BY <1>1, FirstAndRest
    <2>3. n \in Declared(r.cfg) /\ n \in Names
      BY <1>1, <2>2, DeclaredNames DEF GraphResolves, Range
    <2> HIDE DEF n, bytes
    <2>4. x \in Declared(r.cfg) \X Contents /\ x \in Names \X Read /\ x[1] = n /\ x[2] = bytes
      BY <2>1, <2>3 DEF Read
    <2>5. Append(r.read, x) \in Seq(Names \X Read) /\ Range(Append(r.read, x)) = Range(r.read) \cup {x}
      <3>1. r.read \in Seq(Names \X Read)
        BY <1>1 DEF RunType
      <3> HIDE DEF r, x
      <3> QED BY <2>4, <3>1, RangeAppend
    <2>6. Tail(r.todo) \in Seq(Names)
      <3>1. r.todo \in Seq(Names)
        BY <1>1 DEF RunType
      <3> QED BY <1>1, <3>1, FirstAndRest
    <2> HIDE DEF x
    <2>7. /\ run'[p] = [r EXCEPT !.todo = Tail(r.todo), !.read = Append(r.read, x)]
          /\ run' = [run EXCEPT ![p] = run'[p]] /\ UNCHANGED <<project, sets, trail, reported>>
      BY <1>1, <2>1 DEF Becomes
    <2>8. /\ run'[p].pc = "nodes" /\ run'[p].task = r.task /\ run'[p].read = Append(r.read, x)
          /\ run'[p].graph = r.graph /\ run'[p].cfg = r.cfg /\ run'[p].todo = Tail(r.todo)
          /\ run'[p].reviewed = r.reviewed /\ run'[p].set = r.set
      BY <1>1, <2>7 DEF RunType
    <2>9. run'[p] \in RunType
      BY <1>1, <2>5, <2>6, <2>7 DEF RunType
    <2>10. unlocked \subseteq unlocked'
      BY WatchGrows
    <2>11. NamesLaw(run'[p]) = NamesLaw(r) /\ Consults(run'[p]) = Consults(r)
      BY <1>1, <2>8 DEF NamesLaw, Consults
    <2>12. ASSUME r.reviewed = "true", ~ r.task.rehearsal
           PROVE  /\ n \in Declared(r.cfg) \cap DOMAIN r.set.entry
                  /\ r.set.entry[n] = [path |-> r.cfg.path[n], digest |-> bytes]
      <3>1. r.set \in sets /\ r.set \in Documents /\ r.set # NoSet
        BY <1>1, <2>12, SetAssumption DEF RunInv, UnderLaw, PastLock, DecidingInv, ProjectOK
      <3> DEFINE doc == [r.set EXCEPT !.config = r.cfg]
      <3>2. doc \in Documents /\ doc.entry = r.set.entry
        BY <1>1, <3>1 DEF Documents
      <3>3. VerifyDeciding(r.cfg, doc, { <<n, bytes>> }) = {}
        BY <2>1, <2>12, <3>1 DEF NodeRefusals
      <3> HIDE DEF doc, r
      <3>4. \A a \in { <<n, bytes>> } : a[1] \in Declared(r.cfg) =>
              a[1] \in DOMAIN doc.entry /\ doc.entry[a[1]] = [path |-> r.cfg.path[a[1]], digest |-> a[2]]
        BY <3>2, <3>3, NothingFound
      <3> QED BY <2>3, <3>2, <3>4
    <2>13. UnderLaw(run[p])'
      BY <1>1, <2>4, <2>5, <2>7, <2>8, <2>11, <2>12 DEF RunInv, UnderLaw, PastLock
    <2>14. NoDraftPasses(run[p])' /\ SeenUnlocked(p, run[p])'
      BY <1>1, <2>8, <2>10, <2>11 DEF RunInv, NoDraftPasses, SeenUnlocked, PastLock
    <2>15. HoldsGraph(run[p])'
      BY <1>1, <2>2, <2>4, <2>5, <2>8 DEF HoldsGraph
    <2>16. Phase(run[p])' /\ HoldsPack(run[p])' /\ HoldsInput(run[p])' /\ HoldsProject(run[p])'
      BY <1>1, <2>8 DEF Phase, HoldsPack, HoldsInput, HoldsProject
    <2>17. RunInv(p)'
      BY <1>1, <2>7, <2>8, <2>9, <2>13, <2>14, <2>15, <2>16 DEF RunInv, InTrail
    <2> QED BY <2>7, <2>17, BecomesKeeps
  <1> QED BY <1>2, <1>3

(* A graph whose nodes are done goes on with what it read.                 *)
LEMMA NodesDoneKeeps ==
    ASSUME DecidingInv, Watch, NEW p \in Procs, NodesDone(p) PROVE DecidingInv'
  <1> DEFINE r == run[p]
  <1>1. /\ RunInv(p) /\ r \in RunType /\ run \in [Procs -> RunType]
        /\ r.pc = "nodes" /\ reported[p] = NoDecision /\ r.task.kind = "graph"
    BY RunFacts DEF NodesDone, At, RunInv, Phase
  <1>2. CASE Refuse(p)
    BY <1>1, <1>2, EndKeeps DEF Refuse
  <1>3. CASE ~ Refuse(p)
    <2>1. Becomes(p, [r EXCEPT !.pc = "append"])
      BY <1>3 DEF NodesDone
    <2>2. /\ run'[p] = [r EXCEPT !.pc = "append"]
          /\ run' = [run EXCEPT ![p] = run'[p]] /\ UNCHANGED <<project, sets, trail, reported>>
      BY <1>1, <2>1 DEF Becomes
    <2>3. /\ run'[p] \in RunType /\ run'[p].pc = "append" /\ run'[p].task = r.task
          /\ run'[p].read = r.read /\ run'[p].graph = r.graph /\ run'[p].cfg = r.cfg
          /\ run'[p].reviewed = r.reviewed /\ run'[p].set = r.set
      BY <1>1, <2>2 DEF RunType
    <2>4. unlocked \subseteq unlocked'
      BY WatchGrows
    <2>5. UnderLaw(run[p])' /\ NoDraftPasses(run[p])' /\ SeenUnlocked(p, run[p])'
      BY <1>1, <2>1, <2>2, <2>3, <2>4
         DEF RunInv, UnderLaw, NoDraftPasses, SeenUnlocked, PastLock, NamesLaw, Consults
    <2>6. RunInv(p)'
      BY <1>1, <2>2, <2>3, <2>5
         DEF RunInv, Phase, HoldsPack, HoldsInput, HoldsGraph, HoldsProject, InTrail
    <2> QED BY <2>2, <2>6, BecomesKeeps
  <1> QED BY <1>2, <1>3

-----------------------------------------------------------------------------
(* The steps that record and report.                                       *)

(* What a run that has been answered applied is typed documents.           *)
LEMMA AnsweredFacts ==
    ASSUME DecidingInv, NEW p \in Procs, run[p].pc \in {"append", "render"}
    PROVE  /\ run[p].task.kind \in {"id", "path", "text", "graph"}
           /\ Range(run[p].read) \in SUBSET (Names \X Contents)
           /\ run[p].task.kind = "graph" => Applied(p) \in SUBSET (Names \X Contents)
           /\ Decision(p) \in DecisionType
  <1> DEFINE r == run[p]
  <1>1. RunInv(p) /\ r \in RunType /\ r.task.kind \in {"id", "path", "text", "graph"}
    BY RunFacts DEF RunInv, Phase
  <1>2. Range(<< >>) = {} /\ \A x : Range(<< x >>) = {x}
    BY DEF Range
  <1>3. Range(r.read) \in SUBSET (Names \X Contents)
    <2>1. CASE r.task.kind = "id"
      <3>1. /\ r.read = << <<r.task.name, r.graph>> >> /\ r.graph \in Contents
            /\ r.task.name \in Names
        BY <1>1, <2>1, DeclaredNames DEF RunInv, HoldsPack
      <3> QED BY <1>2, <3>1
    <2>2. CASE r.task.kind \in {"path", "text"}
      BY <1>1, <1>2, <2>2 DEF RunInv, HoldsInput
    <2>3. CASE r.task.kind = "graph"
      BY <1>1, <2>3, DeclaredNames DEF RunInv, HoldsGraph
    <2> QED BY <1>1, <2>1, <2>2, <2>3
  <1>4. ASSUME r.task.kind = "graph" PROVE Applied(p) \in SUBSET (Names \X Contents)
    <2>1. r.graph \in Contents /\ r.cfg \in Configs
      BY <1>1, <1>4 DEF RunInv, HoldsGraph
    <2>2. DeclaredGraph(r.cfg) \subseteq Names
      BY DEF DeclaredGraph, Names
    <2> QED BY <1>4, <2>1, <2>2 DEF Applied, Kind
  <1>5. Decision(p).applied \in SUBSET (Names \X Contents)
    BY <1>3, <1>4 DEF Decision, Kind
  <1>6. /\ r.cfg \in Configs \cup {NoConfig} /\ r.task.rehearsal \in BOOLEAN
        /\ r.reviewed \in Bits /\ r.set \in Documents \cup {NoSet}
    BY <1>1 DEF RunType, TaskType
  <1>7. Decision(p) \in DecisionType
    BY <1>5, <1>6 DEF Decision, DecisionType, Bits
  <1> QED BY <1>1, <1>3, <1>4, <1>7

(* The records of a run: they are its own, only the last is the decision's *)
(* and together they say what it applied.                                  *)
LEMMA RecordsFacts ==
    ASSUME DecidingInv, NEW p \in Procs, run[p].pc = "append"
    PROVE  /\ Records(p) \in Seq(RecordType) /\ Len(Records(p)) >= 1
           /\ \A k \in 1..Len(Records(p)) :
                /\ Records(p)[k].run = p /\ Records(p)[k].cfg = run[p].cfg
                /\ Records(p)[k].reviewed = run[p].reviewed /\ Records(p)[k].set = run[p].set
                /\ (Records(p)[k].kind # "node" <=> k = Len(Records(p)))
           /\ UNION {Records(p)[k].documents : k \in 1..Len(Records(p))} = Decision(p).applied
  <1> DEFINE r == run[p]
             R(kind, documents) == RecordOf(p, kind, documents)
  <1>1. /\ r \in RunType /\ r.task.kind \in {"id", "path", "text", "graph"}
        /\ Range(r.read) \in SUBSET (Names \X Contents)
        /\ (r.task.kind = "graph" => Applied(p) \in SUBSET (Names \X Contents))
    BY RunFacts, AnsweredFacts
  <1>2. \A kind \in {"evaluation", "node", "composite"}, d \in SUBSET (Names \X Contents) :
          /\ R(kind, d) \in RecordType /\ R(kind, d).run = p /\ R(kind, d).kind = kind
          /\ R(kind, d).documents = d /\ R(kind, d).cfg = r.cfg
          /\ R(kind, d).reviewed = r.reviewed /\ R(kind, d).set = r.set
    <2>1. /\ r.cfg \in Configs \cup {NoConfig} /\ r.task.cites \in BOOLEAN
          /\ r.task.binding \in BOOLEAN /\ r.reviewed \in Bits /\ r.set \in Documents \cup {NoSet}
      BY <1>1 DEF RunType, TaskType
    <2> QED BY <2>1 DEF RecordOf, RecordType
  <1>3. CASE r.task.kind = "graph"
    <2> DEFINE nodes == [k \in DOMAIN r.read |-> R("node", {r.read[k]})]
               last == R("composite", Applied(p))
    <2>1. /\ Len(r.read) \in Nat /\ DOMAIN r.read = 1..Len(r.read)
          /\ \A k \in 1..Len(r.read) : {r.read[k]} \in SUBSET (Names \X Contents)
      <3>1. r.read \in Seq(Names \X Read)
        BY <1>1 DEF RunType
      <3>2. Len(r.read) \in Nat /\ DOMAIN r.read = 1..Len(r.read)
        BY <3>1
      <3>3. \A k \in 1..Len(r.read) : r.read[k] \in Range(r.read)
        BY <3>2 DEF Range
      <3> QED BY <1>1, <3>2, <3>3
    <2>2. nodes \in Seq(RecordType) /\ Len(nodes) = Len(r.read)
      BY <1>2, <2>1
    <2>3. last \in RecordType
      BY <1>1, <1>2, <1>3
    <2>4. Records(p) = nodes \o << last >>
      BY <1>3 DEF Records, Kind
    <2> HIDE DEF R
    <2>5. /\ Records(p) \in Seq(RecordType) /\ Len(Records(p)) = Len(r.read) + 1
          /\ \A k \in 1..Len(r.read) : Records(p)[k] = nodes[k]
          /\ Records(p)[Len(r.read) + 1] = last
      <3> HIDE DEF nodes, last
      <3> QED BY <2>1, <2>2, <2>3, <2>4
    <2>6. \A k \in 1..Len(r.read) : nodes[k] = R("node", {r.read[k]})
      BY <2>1
    <2> HIDE DEF nodes
    <2>7. 1..Len(Records(p)) = 1..Len(r.read) \cup {Len(r.read) + 1}
      BY <2>1, <2>5
    <2>8. \A k \in 1..Len(Records(p)) :
                /\ Records(p)[k].run = p /\ Records(p)[k].cfg = run[p].cfg
                /\ Records(p)[k].reviewed = run[p].reviewed /\ Records(p)[k].set = run[p].set
                /\ (Records(p)[k].kind # "node" <=> k = Len(Records(p)))
      <3>1. ASSUME NEW k \in 1..Len(r.read)
            PROVE  /\ Records(p)[k].run = p /\ Records(p)[k].cfg = r.cfg
                   /\ Records(p)[k].reviewed = r.reviewed /\ Records(p)[k].set = r.set
                   /\ Records(p)[k].kind = "node" /\ k # Len(Records(p))
        <4>1. Records(p)[k] = R("node", {r.read[k]}) /\ k # Len(Records(p))
          BY <2>1, <2>5, <2>6
        <4>2. {r.read[k]} \in SUBSET (Names \X Contents)
          BY <2>1
        <4> QED BY <1>2, <4>1, <4>2
      <3>2. /\ last.run = p /\ last.cfg = r.cfg /\ last.reviewed = r.reviewed
            /\ last.set = r.set /\ last.kind = "composite"
        BY <1>1, <1>2, <1>3
      <3> HIDE DEF last
      <3> QED BY <2>5, <2>7, <3>1, <3>2
    <2>9. UNION {Records(p)[k].documents : k \in 1..Len(Records(p))} = Decision(p).applied
      <3>1. \A k \in 1..Len(r.read) : Records(p)[k].documents = {r.read[k]}
        <4> TAKE k \in 1..Len(r.read)
        <4>1. Records(p)[k] = R("node", {r.read[k]})
          BY <2>5, <2>6
        <4>2. {r.read[k]} \in SUBSET (Names \X Contents)
          BY <2>1
        <4> QED BY <1>2, <4>1, <4>2
      <3>2. Records(p)[Len(r.read) + 1].documents = Applied(p)
        BY <1>1, <1>2, <1>3, <2>5
      <3>3. Range(r.read) = {r.read[k] : k \in 1..Len(r.read)}
        BY <2>1 DEF Range
      <3>4. Decision(p).applied = Range(r.read) \cup Applied(p)
        BY <1>3 DEF Decision, Kind
      <3> QED BY <2>7, <3>1, <3>2, <3>3, <3>4
    <2> QED BY <2>1, <2>5, <2>8, <2>9
  <1>4. CASE r.task.kind # "graph"
    <2> DEFINE only == R("evaluation", Range(r.read))
    <2>1. Records(p) = << only >> /\ Decision(p).applied = Range(r.read)
      BY <1>4 DEF Records, Decision, Kind
    <2>2. /\ only \in RecordType /\ only.run = p /\ only.cfg = r.cfg /\ only.kind = "evaluation"
          /\ only.reviewed = r.reviewed /\ only.set = r.set /\ only.documents = Range(r.read)
      BY <1>1, <1>2
    <2> HIDE DEF only
    <2>3. Len(Records(p)) = 1 /\ 1..1 = {1} /\ Records(p)[1] = only
      BY <2>1
    <2> QED BY <2>1, <2>2, <2>3
  <1> QED BY <1>3, <1>4
(* A run's records at the end of the trail read back as its decision.      *)
LEMMA AppendedFacts ==
    ASSUME DecidingInv, NEW p \in Procs, run[p].pc = "append", Recorded(p),
           trail' = trail \o Records(p)
    PROVE  /\ trail' \in Seq(RecordType) /\ Grows
           /\ \A k \in DOMAIN trail' \ DOMAIN trail :
                /\ trail'[k].run = p /\ trail'[k].cfg = run[p].cfg
                /\ trail'[k].reviewed = run[p].reviewed
                /\ (trail'[k].kind # "node" <=> k = Len(trail'))
           /\ Len(trail') \in DOMAIN trail' /\ Len(trail') > Len(trail)
           /\ [run |-> trail'[Len(trail')].run, cfg |-> trail'[Len(trail')].cfg, rehearsal |-> FALSE,
               reviewed |-> trail'[Len(trail')].reviewed, set |-> trail'[Len(trail')].set,
               applied |-> UNION {trail'[j].documents :
                   j \in {i \in 1..Len(trail') : trail'[i].run = trail'[Len(trail')].run}}] = Decision(p)
  <1> DEFINE R == Records(p)
             n == Len(trail)
             m == Len(trail')
  <1>1. /\ trail \in Seq(RecordType) /\ R \in Seq(RecordType) /\ Len(R) >= 1
        /\ \A k \in 1..Len(R) :
             /\ R[k].run = p /\ R[k].cfg = run[p].cfg /\ R[k].reviewed = run[p].reviewed
             /\ R[k].set = run[p].set /\ (R[k].kind # "node" <=> k = Len(R))
        /\ UNION {R[k].documents : k \in 1..Len(R)} = Decision(p).applied
        /\ \A k \in DOMAIN trail : trail[k].run # p
    BY RecordsFacts, RunFacts DEF DecidingInv, TrailOK, RunInv, InTrail
  <1> HIDE DEF R
  <1>2. trail' = trail \o R
    BY DEF R
  <1>3. /\ trail' \in Seq(RecordType) /\ m = n + Len(R) /\ n \in Nat /\ Len(R) \in Nat /\ m \in Nat
        /\ \A k \in 1..n : trail'[k] = trail[k]
        /\ \A k \in (n + 1)..m : trail'[k] = R[k - n]
    BY <1>1, <1>2
  <1>4. DOMAIN trail = 1..n /\ DOMAIN trail' = 1..m
    BY <1>1, <1>3
  <1>5. Grows
    BY <1>3, <1>4 DEF Grows
  <1>6. ASSUME NEW k \in (n + 1)..m
        PROVE  /\ trail'[k] = R[k - n] /\ k - n \in 1..Len(R) /\ (k - n = Len(R) <=> k = m)
    BY <1>3
  <1>7. \A k \in (n + 1)..m :
          /\ trail'[k].run = p /\ trail'[k].cfg = run[p].cfg
          /\ trail'[k].reviewed = run[p].reviewed /\ trail'[k].set = run[p].set
          /\ (trail'[k].kind # "node" <=> k = m)
    <2> TAKE k \in (n + 1)..m
    <2>1. trail'[k] = R[k - n] /\ k - n \in 1..Len(R) /\ (k - n = Len(R) <=> k = m)
      BY <1>6
    <2>2. /\ R[k - n].run = p /\ R[k - n].cfg = run[p].cfg /\ R[k - n].reviewed = run[p].reviewed
          /\ R[k - n].set = run[p].set /\ (R[k - n].kind # "node" <=> k - n = Len(R))
      BY <1>1, <2>1
    <2> HIDE DEF m, n
    <2> QED BY <2>1, <2>2
  <1>8. DOMAIN trail' \ DOMAIN trail = (n + 1)..m /\ m \in (n + 1)..m
    BY <1>1, <1>3, <1>4
  <1>9. {i \in 1..m : trail'[i].run = p} = (n + 1)..m
    <2>1. \A i \in 1..n : trail'[i].run # p
      BY <1>1, <1>3, <1>4
    <2>2. 1..m = 1..n \cup (n + 1)..m
      BY <1>3
    <2> QED BY <1>7, <2>1, <2>2, <1>3
  <1>10. {trail'[j].documents : j \in (n + 1)..m} = {R[k].documents : k \in 1..Len(R)}
    <2>1. \A k \in 1..Len(R) : k + n \in (n + 1)..m /\ (k + n) - n = k
      BY <1>3
    <2>2. \A j \in (n + 1)..m : trail'[j] = R[j - n] /\ j - n \in 1..Len(R)
      BY <1>6
    <2>3. \A k \in 1..Len(R) : R[k] = trail'[k + n] /\ k + n \in (n + 1)..m
      BY <2>1, <2>2
    <2> HIDE DEF m, n
    <2>4. \A j \in (n + 1)..m : trail'[j].documents \in {R[k].documents : k \in 1..Len(R)}
      BY <2>2
    <2>5. \A k \in 1..Len(R) : R[k].documents \in {trail'[j].documents : j \in (n + 1)..m}
      BY <2>3
    <2> QED BY <2>4, <2>5, Zenon
  <1>11. /\ trail'[m].run = p /\ trail'[m].cfg = run[p].cfg
         /\ trail'[m].reviewed = run[p].reviewed /\ trail'[m].set = run[p].set
    BY <1>7, <1>8
  <1> HIDE DEF m, n
  <1>12. UNION {trail'[j].documents : j \in {i \in 1..m : trail'[i].run = trail'[m].run}}
           = Decision(p).applied
    <2>1. {i \in 1..m : trail'[i].run = trail'[m].run} = (n + 1)..m
      BY <1>9, <1>11
    <2> QED BY <1>1, <1>10, <2>1
  <1>13. Decision(p) = [run |-> p, cfg |-> run[p].cfg, rehearsal |-> FALSE, reviewed |-> run[p].reviewed,
                        set |-> run[p].set, applied |-> Decision(p).applied]
    <2>1. run[p].task.rehearsal = FALSE
      <3>1. run[p].task.rehearsal \in BOOLEAN
        BY RunFacts DEF RunType, TaskType
      <3> QED BY <3>1 DEF Recorded
    <2> QED BY <2>1 DEF Decision
  <1> QED BY <1>1, <1>3, <1>4, <1>5, <1>7, <1>8, <1>11, <1>12, <1>13 DEF m, n

(* A run whose records are where they belong is known as it was.           *)
LEMMA AfterAppend ==
    ASSUME DecidingInv, Watch, NEW p \in Procs, run[p].pc = "append",
           run' = [run EXCEPT ![p].pc = "render"], sets' = sets, reported' = reported,
           (IF Recorded(p) THEN \E k \in DOMAIN trail' : trail'[k].kind # "node" /\ ReadBack(k)' = Decision(p)
            ELSE \A k \in DOMAIN trail' : trail'[k].run # p)
    PROVE  RunInv(p)'
  <1> DEFINE r == run[p]
  <1>1. /\ RunInv(p) /\ r \in RunType /\ run \in [Procs -> RunType] /\ reported[p] = NoDecision
    BY RunFacts
  <1>2. run'[p] = [r EXCEPT !.pc = "render"]
    BY <1>1
  <1>3. /\ run'[p] \in RunType /\ run'[p].pc = "render" /\ run'[p].task = r.task
        /\ run'[p].read = r.read /\ run'[p].graph = r.graph /\ run'[p].cfg = r.cfg
        /\ run'[p].reviewed = r.reviewed /\ run'[p].set = r.set
    BY <1>1, <1>2 DEF RunType
  <1>4. unlocked \subseteq unlocked'
    BY WatchGrows
  <1>5. UnderLaw(run[p])'
    BY <1>1, <1>3 DEF RunInv, UnderLaw, PastLock, NamesLaw, Consults
  <1>6. NoDraftPasses(run[p])' /\ SeenUnlocked(p, run[p])'
    BY <1>1, <1>3, <1>4 DEF RunInv, NoDraftPasses, SeenUnlocked, PastLock, NamesLaw
  <1>7. HoldsPack(run[p])' /\ HoldsInput(run[p])' /\ HoldsGraph(run[p])' /\ HoldsProject(run[p])'
    BY <1>1, <1>3 DEF RunInv, HoldsPack, HoldsInput, HoldsGraph, HoldsProject
  <1>8. Decision(p)' = Decision(p) /\ (Recorded(p)' <=> Recorded(p))
    BY <1>3 DEF Decision, Recorded, Applied, Kind
  <1>9. InTrail(p, run[p])'
    BY <1>3, <1>8 DEF InTrail
  <1> QED BY <1>1, <1>3, <1>5, <1>6, <1>7, <1>9 DEF RunInv, Phase

(* What is recorded stands in the trail before it is reported.             *)
LEMMA AppendKeeps ==
    ASSUME DecidingInv, Watch, NEW p \in Procs, AppendRecords(p) PROVE DecidingInv'
  <1> DEFINE r == run[p]
  <1>1. /\ RunInv(p) /\ r \in RunType /\ run \in [Procs -> RunType]
        /\ r.pc = "append" /\ reported[p] = NoDecision
    BY RunFacts DEF AppendRecords, At
  <1>2. CASE Refuse(p)
    BY <1>1, <1>2, EndKeeps DEF Refuse
  <1>3. CASE ~ Recorded(p) /\ ~ Refuse(p)
    <2>1. Becomes(p, [r EXCEPT !.pc = "render"])
      BY <1>3 DEF AppendRecords
    <2>2. /\ run' = [run EXCEPT ![p].pc = "render"] /\ run' = [run EXCEPT ![p] = run'[p]]
          /\ UNCHANGED <<project, sets, trail, reported>>
      BY <1>1, <2>1 DEF Becomes
    <2>3. \A k \in DOMAIN trail' : trail'[k].run # p
      BY <1>1, <2>2 DEF RunInv, InTrail
    <2>4. RunInv(p)'
      BY <1>1, <1>3, <2>2, <2>3, AfterAppend
    <2> QED BY <2>2, <2>4, BecomesKeeps
  <1>4. CASE Recorded(p) /\ ~ Refuse(p)
    <2>1. /\ run' = [run EXCEPT ![p].pc = "render"] /\ trail' = trail \o Records(p)
          /\ UNCHANGED <<project, edits, sets, reported>>
      BY <1>4 DEF AppendRecords
    <2>2. /\ trail' \in Seq(RecordType) /\ Grows
          /\ \A k \in DOMAIN trail' \ DOMAIN trail :
                /\ trail'[k].run = p /\ trail'[k].cfg = run[p].cfg
                /\ trail'[k].reviewed = run[p].reviewed
                /\ (trail'[k].kind # "node" <=> k = Len(trail'))
          /\ Len(trail') \in DOMAIN trail' /\ Len(trail') > Len(trail) /\ ReadBack(Len(trail))' = Decision(p)
      BY <1>1, <1>4, <2>1, AppendedFacts DEF ReadBack
    <2>3. Len(trail') \in DOMAIN trail' \ DOMAIN trail
      BY <2>2 DEF DecidingInv, TrailOK
    <2>4. RunInv(p)'
      BY <1>1, <1>4, <2>1, <2>2, <2>3, AfterAppend
    <2>5. unlocked \subseteq unlocked'
      BY WatchGrows
    <2>6. \A q \in Procs \ {p} : RunInv(q)'
      BY <1>1, <2>1, <2>2, <2>5, OtherKeeps
    <2>7. TrailOK'
      <3>1. r.reviewed = "none" /\ r.cfg # NoConfig => p \in unlocked
        BY <1>1, <1>4 DEF RunInv, SeenUnlocked, PastLock, Recorded
      <3> QED BY <2>2, <2>5, <3>1 DEF TrailOK, DecidingInv, Grows
    <2>8. ProjectOK' /\ ReportedOK'
      BY <2>1, <2>5 DEF DecidingInv, ProjectOK, ReportedOK, project
    <2>9. run' \in [Procs -> RunType]
      BY <1>1, <2>1, <2>4 DEF RunInv
    <2> QED BY <2>4, <2>6, <2>7, <2>8, <2>9 DEF DecidingInv
  <1> QED BY <1>2, <1>3, <1>4

(* What is reported is the decision the run took.                          *)
LEMMA RenderKeeps ==
    ASSUME DecidingInv, Watch, NEW p \in Procs, Render(p) PROVE DecidingInv'
  <1> DEFINE r == run[p]
  <1>1. /\ RunInv(p) /\ r \in RunType /\ run \in [Procs -> RunType]
        /\ r.pc = "render" /\ reported[p] = NoDecision
    BY RunFacts DEF Render, At
  <1>2. CASE Refuse(p)
    BY <1>1, <1>2, EndKeeps DEF Refuse
  <1>3. CASE ~ Refuse(p)
    <2>1. /\ run' = [run EXCEPT ![p].pc = "done"]
          /\ reported' = [reported EXCEPT ![p] = Decision(p)]
          /\ UNCHANGED <<project, edits, sets, trail>>
      BY <1>3 DEF Render
    <2>2. run'[p] = [r EXCEPT !.pc = "done"] /\ \A q \in Procs \ {p} : run'[q] = run[q]
      BY <1>1, <2>1
    <2>3. run'[p] \in RunType /\ run'[p].pc = "done"
      BY <1>1, <2>2 DEF RunType
    <2>4. RunInv(p)'
      BY <2>3 DEF RunInv, Phase, HoldsPack, HoldsInput, HoldsGraph, HoldsProject,
         UnderLaw, NoDraftPasses, SeenUnlocked, PastLock, InTrail
    <2>5. unlocked \subseteq unlocked' /\ Grows
      BY <2>1, WatchGrows DEF Grows
    <2>6. \A q \in Procs \ {p} : reported'[q] = reported[q]
      BY <2>1 DEF DecidingInv, ReportedOK
    <2>7. \A q \in Procs \ {p} : RunInv(q)'
      BY <2>1, <2>2, <2>5, <2>6, OtherKeeps
    <2>8. ReportedOK'
      <3>1. Decision(p) \in DecisionType /\ Decision(p).run = p
        BY <1>1, AnsweredFacts DEF Decision
      <3>2. reported'[p] = Decision(p)
        BY <2>1 DEF DecidingInv, ReportedOK
      <3>3. Decision(p).reviewed = "none" /\ ~ Decision(p).rehearsal /\ Decision(p).cfg # NoConfig
              => p \in unlocked
        BY <1>1 DEF Decision, RunInv, SeenUnlocked, PastLock
      <3>4. reported' \in [Procs -> DecisionType \cup {NoDecision}]
        BY <2>1, <3>1 DEF DecidingInv, ReportedOK
      <3> QED BY <2>5, <2>6, <3>1, <3>2, <3>3, <3>4 DEF DecidingInv, ReportedOK
    <2>9. ProjectOK' /\ TrailOK'
      BY <2>1, <2>5 DEF DecidingInv, ProjectOK, TrailOK, project
    <2>10. run' \in [Procs -> RunType]
      BY <1>1, <2>1, <2>3
    <2> QED BY <2>4, <2>7, <2>8, <2>9, <2>10 DEF DecidingInv
  <1> QED BY <1>2, <1>3
-----------------------------------------------------------------------------
(* The steps of `packs lock` and `packs verify`.                           *)

(* What is to be read is the first of it and the rest.                     *)
LEMMA RangeOfTail ==
    ASSUME NEW S, NEW s \in Seq(S), s # << >>
    PROVE  Range(s) = {Head(s)} \cup Range(Tail(s))
  <1>1. /\ Len(s) \in Nat /\ Len(s) # 0 /\ DOMAIN s = 1..Len(s) /\ Head(s) = s[1]
        /\ DOMAIN Tail(s) = 1..(Len(s) - 1)
        /\ \A i \in 1..(Len(s) - 1) : Tail(s)[i] = s[i + 1]
    BY HeadTailProperties
  <1>2. \A i \in DOMAIN s : i = 1 \/ (i - 1 \in DOMAIN Tail(s) /\ Tail(s)[i - 1] = s[i])
    BY <1>1
  <1>3. \A i \in DOMAIN Tail(s) : i + 1 \in DOMAIN s /\ Tail(s)[i] = s[i + 1]
    BY <1>1
  <1>4. 1 \in DOMAIN s
    BY <1>1
  <1>5. \A x \in Range(s) : x \in {Head(s)} \cup Range(Tail(s))
    BY <1>1, <1>2 DEF Range
  <1>6. \A x \in {Head(s)} \cup Range(Tail(s)) : x \in Range(s)
    BY <1>1, <1>3, <1>4 DEF Range
  <1> QED BY <1>5, <1>6

(* One more path is remembered.                                            *)
LEMMA Remembers ==
    ASSUME NEW memo \in UNION {[S -> Contents] : S \in SUBSET Paths},
           NEW path \in Paths, NEW bytes \in Contents
    PROVE  Remember(memo, path, bytes) \in UNION {[S -> Contents] : S \in SUBSET Paths}
  <1>1. PICK S \in SUBSET Paths : memo \in [S -> Contents]
    OBVIOUS
  <1>2. Remember(memo, path, bytes) \in [S \cup {path} -> Contents]
    BY <1>1 DEF Remember
  <1>3. S \cup {path} \in SUBSET Paths
    OBVIOUS
  <1> QED BY <1>2, <1>3

(* A declared document is read, and hashed once for each path.             *)
LEMMA ReadDocumentKeeps ==
    ASSUME DecidingInv, Watch, NEW p \in Procs, ReadDocument(p) PROVE DecidingInv'
  <1> DEFINE r == run[p]
             n == Head(r.todo)
             path == r.cfg.path[n]
             bytes == IF docs[path] \in Contents /\ path \in DOMAIN r.memo
                      THEN r.memo[path] ELSE docs[path]
             x == <<n, bytes>>
             memo == IF bytes \in Contents /\ (Kind(p) = "verify" => n \in DOMAIN r.set.entry)
                     THEN Remember(r.memo, path, bytes) ELSE r.memo
  <1>1. /\ RunInv(p) /\ r \in RunType /\ run \in [Procs -> RunType]
        /\ r.pc = "documents" /\ reported[p] = NoDecision
        /\ r.task.kind \in {"lock", "verify"} /\ r.cfg \in Configs
        /\ r.todo \in Seq(Declared(r.cfg)) /\ r.todo # << >>
        /\ (r.task.kind = "verify" => r.set \in Documents)
        /\ (r.task.kind = "lock" =>
               /\ Range(r.read) \subseteq Declared(r.cfg) \X Contents
               /\ \A m \in Declared(r.cfg) :
                     m \in Range(r.todo) \/ \E a \in Range(r.read) : a[1] = m)
    BY RunFacts DEF ReadDocument, At, RunInv, Phase, HoldsProject
  <1>2. CASE Refuse(p)
    BY <1>1, <1>2, EndKeeps DEF Refuse
  <1>3. CASE ~ Refuse(p)
    <2>1. /\ Becomes(p, [r EXCEPT !.todo = Tail(@), !.read = Append(@, x), !.memo = memo])
          /\ (r.task.kind = "lock" => bytes \in Contents)
      BY <1>3 DEF ReadDocument, Kind
    <2>2. n \in Declared(r.cfg) /\ n \in Names /\ Tail(r.todo) \in Seq(Declared(r.cfg))
      BY <1>1, FirstAndRest, DeclaredNames
    <2>3. Tail(r.todo) \in Seq(Names)
      <3>1. r.todo \in Seq(Names)
        BY <1>1 DEF RunType
      <3> QED BY <1>1, <3>1, FirstAndRest
    <2>4. path \in Paths
      BY <1>1, <2>2, DeclaredNames
    <2>5. r.memo \in UNION {[S -> Contents] : S \in SUBSET Paths}
      BY <1>1 DEF RunType
    <2>6. bytes \in Read
      <3>1. PICK S \in SUBSET Paths : r.memo \in [S -> Contents]
        BY <2>5
      <3>2. docs[path] \in Read
        BY <2>4 DEF DecidingInv, ProjectOK
      <3> HIDE DEF r, path
      <3> QED BY <3>1, <3>2 DEF Read
    <2>7. memo \in UNION {[S -> Contents] : S \in SUBSET Paths}
      <3> HIDE DEF path, bytes, r
      <3> QED BY <2>4, <2>5, Remembers
    <2> HIDE DEF n, path, bytes, memo
    <2>8. x \in Names \X Read /\ x[1] = n /\ x[2] = bytes
      BY <2>2, <2>6
    <2>9. Append(r.read, x) \in Seq(Names \X Read) /\ Range(Append(r.read, x)) = Range(r.read) \cup {x}
      <3>1. r.read \in Seq(Names \X Read)
        BY <1>1 DEF RunType
      <3> HIDE DEF r, x
      <3> QED BY <2>8, <3>1, RangeAppend
    <2>10. Range(r.todo) = {n} \cup Range(Tail(r.todo))
      BY <1>1, RangeOfTail DEF n
    <2> HIDE DEF x
    <2>11. /\ run'[p] = [r EXCEPT !.todo = Tail(r.todo), !.read = Append(r.read, x), !.memo = memo]
           /\ run' = [run EXCEPT ![p] = run'[p]] /\ UNCHANGED <<project, sets, trail, reported>>
      BY <1>1, <2>1 DEF Becomes
    <2>12. /\ run'[p].pc = "documents" /\ run'[p].task = r.task /\ run'[p].read = Append(r.read, x)
           /\ run'[p].cfg = r.cfg /\ run'[p].todo = Tail(r.todo) /\ run'[p].set = r.set
      BY <1>1, <2>11 DEF RunType
    <2>13. run'[p] \in RunType
      BY <1>1, <2>3, <2>7, <2>9, <2>11 DEF RunType
    <2>14. HoldsProject(run[p])'
      <3>1. r.task.kind = "lock" => x \in Declared(r.cfg) \X Contents
        BY <2>1, <2>2 DEF x
      <3> QED BY <1>1, <2>2, <2>8, <2>9, <2>10, <2>12, <3>1 DEF HoldsProject
    <2>15. RunInv(p)'
      BY <1>1, <2>11, <2>12, <2>13, <2>14 DEF RunInv, Phase, HoldsPack, HoldsInput, HoldsGraph,
         UnderLaw, NoDraftPasses, SeenUnlocked, PastLock, InTrail
    <2> QED BY <2>11, <2>15, BecomesKeeps
  <1> QED BY <1>2, <1>3

(* Cutting the lock declares nothing.                                      *)
LEMMA TruncateKeeps ==
    ASSUME DecidingInv, Watch, NEW p \in Procs, Truncate(p) PROVE DecidingInv'
  <1> DEFINE r == run[p]
  <1>1. /\ RunInv(p) /\ r \in RunType /\ run \in [Procs -> RunType]
        /\ r.pc = "documents" /\ reported[p] = NoDecision /\ r.task.kind = "lock" /\ r.todo = << >>
        /\ run' = [run EXCEPT ![p].pc = "write"] /\ lockFile' = [doc |-> NoSet, part |-> "short"]
        /\ UNCHANGED <<config, docs, edits, sets, trail, reported>>
    BY RunFacts DEF Truncate, At, Kind
  <1>2. /\ run'[p] = [r EXCEPT !.pc = "write"] /\ \A q \in Procs \ {p} : run'[q] = run[q]
    BY <1>1
  <1>3. /\ run'[p].pc = "write" /\ run'[p].task = r.task /\ run'[p].read = r.read
        /\ run'[p].cfg = r.cfg /\ run'[p].todo = r.todo
    BY <1>1, <1>2 DEF RunType
  <1>4. run'[p] \in RunType
    BY <1>1, <1>2 DEF RunType
  <1>5. HoldsProject(run[p])'
    BY <1>1, <1>3 DEF RunInv, HoldsProject
  <1>6. RunInv(p)'
    BY <1>1, <1>3, <1>4, <1>5 DEF RunInv, Phase, HoldsPack, HoldsInput, HoldsGraph,
       UnderLaw, NoDraftPasses, SeenUnlocked, PastLock, InTrail
  <1>7. unlocked \subseteq unlocked' /\ Grows
    BY <1>1, WatchGrows DEF Grows
  <1>8. \A q \in Procs \ {p} : RunInv(q)'
    BY <1>1, <1>2, <1>7, OtherKeeps
  <1>9. ProjectOK'
    BY <1>1 DEF DecidingInv, ProjectOK, LockType
  <1>10. TrailOK' /\ ReportedOK'
    BY <1>1, <1>7 DEF DecidingInv, TrailOK, ReportedOK
  <1>11. run' \in [Procs -> RunType]
    BY <1>1, <1>4
  <1> QED BY <1>6, <1>8, <1>9, <1>10, <1>11 DEF DecidingInv

(* What `packs lock` writes is a whole reviewed set.                       *)
LEMMA GeneratedSet ==
    ASSUME DecidingInv, NEW p \in Procs, run[p].pc = "write"
    PROVE  Generate(run[p].cfg, Bytes(p)) \in Documents
  <1> DEFINE r == run[p]
  <1>1. /\ r.cfg \in Configs
        /\ Range(r.read) \subseteq Declared(r.cfg) \X Contents
        /\ \A n \in Declared(r.cfg) :
              n \in Range(r.todo) \/ \E a \in Range(r.read) : a[1] = n
        /\ r.todo = << >>
    BY RunFacts DEF RunInv, Phase, HoldsProject
  <1>2. Range(r.todo) = {}
    BY <1>1 DEF Range
  <1>3. ASSUME NEW n \in Declared(r.cfg) PROVE Bytes(p)[n] \in Contents
    <2>1. \E a \in Range(r.read) : a[1] = n
      BY <1>1, <1>2
    <2>2. (CHOOSE a \in Range(r.read) : a[1] = n) \in Range(r.read)
      BY <2>1
    <2>3. n \in {a[1] : a \in Range(r.read)}
      BY <2>1
    <2>4. Bytes(p)[n] = (CHOOSE a \in Range(r.read) : a[1] = n)[2]
      BY <2>3 DEF Bytes
    <2> QED BY <1>1, <2>2, <2>4
  <1>4. Declared(r.cfg) \in SUBSET Names /\ r.cfg.path \in [Declared(r.cfg) -> Paths]
    BY <1>1, DeclaredNames
  <1> DEFINE entry == [n \in Declared(r.cfg) |-> [path |-> r.cfg.path[n], digest |-> Bytes(p)[n]]]
  <1>5. entry \in [Declared(r.cfg) -> Entries]
    BY <1>3, <1>4 DEF Entries
  <1>6. entry \in UNION {[S -> Entries] : S \in SUBSET Names}
    BY <1>4, <1>5
  <1> HIDE DEF entry
  <1>7. Generate(r.cfg, Bytes(p)) = [config |-> r.cfg, entry |-> entry]
    BY DEF Generate, entry
  <1> QED BY <1>1, <1>6, <1>7 DEF Documents

(* The set written is declared as soon as it stands.                       *)
LEMMA WriteKeeps ==
    ASSUME DecidingInv, Watch, NEW p \in Procs, WriteLock(p) PROVE DecidingInv'
  <1> DEFINE r == run[p]
             doc == Generate(r.cfg, Bytes(p))
  <1>1. /\ RunInv(p) /\ r \in RunType /\ run \in [Procs -> RunType]
        /\ r.pc = "write" /\ reported[p] = NoDecision
    BY RunFacts DEF WriteLock, At
  <1>2. CASE Refuse(p)
    BY <1>1, <1>2, EndKeeps DEF Refuse
  <1>3. CASE ~ Refuse(p)
    <2>1. doc \in Documents
      BY <1>1, GeneratedSet
    <2>2. /\ lockFile' = [doc |-> doc, part |-> "whole"] /\ sets' = sets \cup {doc}
          /\ run' = [run EXCEPT ![p].pc = "done"]
          /\ UNCHANGED <<config, docs, edits, trail, reported>>
      BY <1>3 DEF WriteLock
    <2> HIDE DEF doc
    <2>3. run'[p] = [r EXCEPT !.pc = "done"] /\ \A q \in Procs \ {p} : run'[q] = run[q]
      BY <1>1, <2>2
    <2>4. run'[p] \in RunType /\ run'[p].pc = "done"
      BY <1>1, <2>3 DEF RunType
    <2>5. RunInv(p)'
      BY <2>4 DEF RunInv, Phase, HoldsPack, HoldsInput, HoldsGraph, HoldsProject,
         UnderLaw, NoDraftPasses, SeenUnlocked, PastLock, InTrail
    <2>6. unlocked \subseteq unlocked' /\ Grows
      BY <2>2, WatchGrows DEF Grows
    <2>7. \A q \in Procs \ {p} : RunInv(q)'
      BY <2>2, <2>3, <2>6, OtherKeeps
    <2>8. ProjectOK'
      BY <2>1, <2>2 DEF DecidingInv, ProjectOK, LockType
    <2>9. TrailOK' /\ ReportedOK'
      BY <2>2, <2>6 DEF DecidingInv, TrailOK, ReportedOK
    <2>10. run' \in [Procs -> RunType]
      BY <1>1, <2>2, <2>4
    <2> QED BY <2>5, <2>7, <2>8, <2>9, <2>10 DEF DecidingInv
  <1> QED BY <1>2, <1>3

(* Every finding of `packs verify` is about a name or the configuration.   *)
LEMMA VerifyType ==
    ASSUME NEW cfg \in Configs, NEW doc \in Documents, NEW read
    PROVE  Verify(cfg, doc, read) \in SUBSET (Findings \X (Names \cup {"the configuration"}))
  <1>1. Declared(cfg) \in SUBSET Names
    BY DeclaredNames
  <1>2. DOMAIN doc.entry \in SUBSET Names
    <2>1. doc.entry \in UNION {[S -> Entries] : S \in SUBSET Names}
      BY DEF Documents
    <2>2. \A f \in UNION {[S -> Entries] : S \in SUBSET Names} : DOMAIN f \in SUBSET Names
      OBVIOUS
    <2> QED BY <2>1, <2>2
  <1> DEFINE F == Findings \X (Names \cup {"the configuration"})
  <1>3. \A s \in Findings, n \in Names \cup {"the configuration"} : <<s, n>> \in F
    OBVIOUS
  <1> HIDE DEF F
  <1>4. ConfigDrift(cfg, doc) \subseteq F
    BY <1>3 DEF ConfigDrift, Findings
  <1>5. ASSUME NEW n \in Declared(cfg)
        PROVE  VerifyDocument(cfg, doc, n, read[n]) \subseteq F
    <2>1. \A s \in Findings : <<s, n>> \in F
      BY <1>1, <1>3
    <2>2. VerifyDocument(cfg, doc, n, read[n])
            \subseteq { <<"lock-entry-missing", n>>, <<"document-missing", n>>,
                       <<"path-mismatch", n>>, <<"document-drift", n>> }
      BY DEF VerifyDocument
    <2> QED BY <2>1, <2>2 DEF Findings
  <1>6. {<<"locked-but-undeclared", n>> : n \in DOMAIN doc.entry \ Declared(cfg)} \subseteq F
    BY <1>2, <1>3 DEF Findings
  <1>7. UNION {VerifyDocument(cfg, doc, n, read[n]) : n \in Declared(cfg)} \subseteq F
    BY <1>5
  <1>8. Verify(cfg, doc, read) \subseteq F
    <2> DEFINE B == UNION {VerifyDocument(cfg, doc, n, read[n]) : n \in Declared(cfg)}
               C == {<<"locked-but-undeclared", n>> : n \in DOMAIN doc.entry \ Declared(cfg)}
    <2>1. Verify(cfg, doc, read) = ConfigDrift(cfg, doc) \cup B \cup C
      BY DEF Verify
    <2>2. B \subseteq F /\ C \subseteq F
      BY <1>6, <1>7
    <2> HIDE DEF B, C
    <2> QED BY <1>4, <2>1, <2>2
  <1> QED BY <1>8 DEF F

(* The verdict is given.                                                   *)
LEMMA VerifyDoneKeeps ==
    ASSUME DecidingInv, Watch, NEW p \in Procs, VerifyDone(p) PROVE DecidingInv'
  <1> DEFINE r == run[p]
             verdict == Verify(r.cfg, r.set, Bytes(p))
  <1>1. /\ RunInv(p) /\ r \in RunType /\ run \in [Procs -> RunType]
        /\ r.pc = "documents" /\ r.task.kind = "verify" /\ r.cfg \in Configs /\ r.set \in Documents
        /\ Becomes(p, [r EXCEPT !.verdict = verdict, !.pc = "done"])
    BY RunFacts DEF VerifyDone, At, Kind, RunInv, HoldsProject
  <1>2. verdict \in SUBSET (Findings \X (Names \cup {"the configuration"}))
    BY <1>1, VerifyType
  <1> HIDE DEF verdict
  <1>3. /\ run'[p] = [r EXCEPT !.verdict = verdict, !.pc = "done"]
        /\ run' = [run EXCEPT ![p] = run'[p]] /\ UNCHANGED <<project, sets, trail, reported>>
    BY <1>1 DEF Becomes
  <1>4. run'[p] \in RunType /\ run'[p].pc = "done"
    BY <1>1, <1>2, <1>3 DEF RunType
  <1>5. RunInv(p)'
    BY <1>4 DEF RunInv, Phase, HoldsPack, HoldsInput, HoldsGraph, HoldsProject,
       UnderLaw, NoDraftPasses, SeenUnlocked, PastLock, InTrail
  <1> QED BY <1>3, <1>5, BecomesKeeps
-----------------------------------------------------------------------------
(* The invariant.                                                          *)

(* It holds of every project a run may start over.                         *)
LEMMA InitKeeps == Init => DecidingInv
  <1> SUFFICES ASSUME Init PROVE DecidingInv
    OBVIOUS
  <1>1. (CHOOSE t \in Tasks : TRUE) \in TaskType
    BY TaskAssumption
  <1>2. << >> \in UNION {[S -> Contents] : S \in SUBSET Paths}
    <2>1. << >> \in [{} -> Contents] /\ {} \in SUBSET Paths
      OBVIOUS
    <2> QED BY <2>1
  <1>3. /\ << >> \in Seq(Names \X Read) /\ << >> \in Seq(Names) /\ << >> \in Seq(RecordType)
        /\ Absent \in Read /\ "none" \in Bits
    BY DEF Read, Bits
  <1>4. Idle \in RunType /\ Idle.pc = "start" /\ Idle.read = << >>
    BY <1>1, <1>2, <1>3 DEF Idle, RunType
  <1> HIDE DEF Idle
  <1>5. /\ config \in Configs /\ docs \in [Paths -> Read] /\ lockFile \in LockType
        /\ (lockFile.part = "whole" => lockFile.doc \in Documents)
        /\ sets = (IF lockFile.part = "whole" THEN {lockFile.doc} ELSE {})
        /\ run = [p \in Procs |-> Idle] /\ trail = << >>
        /\ reported = [p \in Procs |-> NoDecision]
    BY ProjectAssumption DEF Init, Read
  <1>6. ProjectOK
    BY <1>5 DEF ProjectOK
  <1>7. TrailOK /\ ReportedOK
    BY <1>3, <1>5 DEF TrailOK, ReportedOK
  <1>8. ASSUME NEW p \in Procs PROVE RunInv(p)
    <2>1. run[p] = Idle /\ reported[p] = NoDecision /\ DOMAIN trail = {}
      BY <1>5
    <2> QED BY <1>4, <2>1 DEF RunInv, Phase, HoldsPack, HoldsInput, HoldsGraph, HoldsProject,
            UnderLaw, NoDraftPasses, SeenUnlocked, PastLock, InTrail
  <1> QED BY <1>4, <1>5, <1>6, <1>7, <1>8 DEF DecidingInv

(* An edit beside the runs changes nothing they hold.                      *)
LEMMA EditKeeps ==
    ASSUME DecidingInv, Watch, EditDocument \/ EditConfig \/ RemoveLock
    PROVE  DecidingInv'
  <1>1. UNCHANGED <<run, sets, trail, reported>>
    BY DEF EditDocument, EditConfig, RemoveLock, Change
  <1>2. unlocked \subseteq unlocked' /\ Grows
    BY <1>1, WatchGrows DEF Grows
  <1>3. \A q \in Procs : RunInv(q)'
    BY <1>1, <1>2, OtherKeeps
  <1>4. ProjectOK'
    <2>1. CASE EditDocument
      <3>1. PICK path \in Paths, bytes \in Read : docs' = [docs EXCEPT ![path] = bytes]
        BY <2>1 DEF EditDocument, Read
      <3> QED BY <1>1, <2>1, <3>1 DEF EditDocument, DecidingInv, ProjectOK
    <2>2. CASE EditConfig
      BY <1>1, <2>2 DEF EditConfig, DecidingInv, ProjectOK
    <2>3. CASE RemoveLock
      BY <1>1, <2>3 DEF RemoveLock, NoLock, LockType, DecidingInv, ProjectOK
    <2> QED BY <2>1, <2>2, <2>3
  <1>5. TrailOK' /\ ReportedOK'
    BY <1>1, <1>2 DEF DecidingInv, TrailOK, ReportedOK
  <1> QED BY <1>1, <1>3, <1>4, <1>5 DEF DecidingInv

(* A run that dies holds nothing more.                                     *)
LEMMA CrashKeeps ==
    ASSUME DecidingInv, Watch, NEW p \in Procs, Crash(p) PROVE DecidingInv'
  BY EndKeeps DEF Crash

(* Every step keeps it.                                                    *)
LEMMA NextKeeps == DecidingInv /\ [Next]_vars => DecidingInv'
  <1> SUFFICES ASSUME DecidingInv, [Next]_vars PROVE DecidingInv'
    OBVIOUS
  <1>1. CASE UNCHANGED vars
    <2>1. UNCHANGED <<run, sets, trail, reported, unlocked, project>> /\ Grows
      BY <1>1 DEF vars, Grows
    <2>2. \A q \in Procs : RunInv(q)'
      BY <2>1, OtherKeeps
    <2> QED BY <2>1, <2>2 DEF DecidingInv, ProjectOK, TrailOK, ReportedOK, project
  <1>2. CASE Next
    <2>1. Watch
      BY <1>2 DEF Next
    <2>2. ASSUME NEW p \in Procs, Step(p) PROVE DecidingInv'
      BY <2>1, <2>2, StartKeeps, ReadGraphKeeps, LoadKeeps, ReadPackKeeps, ReadInputKeeps,
         AskDraftKeeps, OpenKeeps, ReadLockKeeps, RequireKeeps, EvaluateKeeps, NodeKeeps,
         NodesDoneKeeps, AppendKeeps, RenderKeeps, ReadDocumentKeeps, TruncateKeeps, WriteKeeps,
         VerifyDoneKeeps, CrashKeeps DEF Step
    <2> QED BY <1>2, <2>1, <2>2, EditKeeps DEF Next
  <1> QED BY <1>1, <1>2

(* What is known of every run holds throughout.                            *)
LEMMA DecidingInvariant == Spec => []DecidingInv
  BY InitKeeps, NextKeeps, PTL DEF Spec

-----------------------------------------------------------------------------
(* The decisions are those the abstract specification allows.              *)

(* A decision a run is about to record or report is allowed.               *)
LEMMA DecisionAllowed ==
    ASSUME DecidingInv, NEW p \in Procs, run[p].pc \in {"append", "render"}
    PROVE  /\ Promise!Allowed(Decision(p))
           /\ Promise!Audited(Decision(p)) <=> Recorded(p)
           /\ Decision(p).run = p
  <1> DEFINE r == run[p]
             d == Decision(p)
  <1>1. /\ RunInv(p) /\ r \in RunType /\ r.task.rehearsal \in BOOLEAN
        /\ r.task.kind \in {"id", "path", "text", "graph"}
    BY RunFacts DEF RunInv, Phase, RunType, TaskType
  <1>2. /\ d.run = p /\ d.cfg = r.cfg /\ d.rehearsal = r.task.rehearsal
        /\ (~ r.task.rehearsal => d.reviewed = r.reviewed /\ d.set = r.set)
        /\ (r.task.rehearsal => d.reviewed = "none")
        /\ d.applied = Range(r.read) \cup (IF r.task.kind = "graph" THEN Consults(r) ELSE {})
    BY AppliedConsults DEF Decision, Kind
  <1>3. Promise!Audited(d) <=> Recorded(p)
    BY <1>2 DEF Promise!Audited, Recorded
  <1>4. NamesLaw(r) => d.applied # {}
    <2>1. CASE r.task.kind = "id"
      <3>1. r.read = << <<r.task.name, r.graph>> >>
        BY <1>1, <2>1 DEF RunInv, HoldsPack
      <3>2. <<r.task.name, r.graph>> \in Range(r.read)
        BY <3>1 DEF Range
      <3> QED BY <1>2, <3>2
    <2>2. CASE r.task.kind = "graph"
      <3>1. ASSUME NEW n \in DeclaredGraph(r.cfg) PROVE <<n, r.graph>> \in d.applied
        BY <1>2, <2>2 DEF Consults
      <3> QED BY <2>2, <3>1 DEF NamesLaw
    <2> QED BY <2>1, <2>2 DEF NamesLaw
  <1>5. d.reviewed = "true" => Promise!UnderOneSet(d)
    <2> SUFFICES ASSUME d.reviewed = "true" PROVE Promise!UnderOneSet(d)
      OBVIOUS
    <2>1. ~ r.task.rehearsal /\ r.reviewed = "true" /\ d.set = r.set
      BY <1>1, <1>2
    <2>2. /\ NamesLaw(r) /\ r.set \in sets /\ r.set.config = r.cfg
          /\ \A a \in Range(r.read) \cup Consults(r) :
               /\ a[1] \in Declared(r.cfg) \cap DOMAIN r.set.entry
               /\ r.set.entry[a[1]] = [path |-> r.cfg.path[a[1]], digest |-> a[2]]
      BY <1>1, <2>1 DEF RunInv, UnderLaw, PastLock
    <2>3. d.applied \subseteq Range(r.read) \cup Consults(r)
      BY <1>2
    <2> HIDE DEF d, r
    <2> QED BY <1>2, <1>4, <2>1, <2>2, <2>3 DEF Promise!UnderOneSet, Promise!Declared, Declared
  <1>6. d.cfg # NoConfig /\ d.cfg.required /\ ~ d.rehearsal => Promise!NoDraft(d)
    <2> SUFFICES ASSUME d.cfg # NoConfig, d.cfg.required, ~ d.rehearsal PROVE Promise!NoDraft(d)
      OBVIOUS
    <2>1. NamesLaw(r) /\ (r.reviewed = "false" => r.task.kind = "id" /\ r.graph = Big)
      BY <1>1, <1>2 DEF RunInv, NoDraftPasses, PastLock
    <2>2. r.reviewed # "false"
      BY <1>1, <2>1 DEF RunInv, NoDraftPasses
    <2>3. d.reviewed = r.reviewed
      BY <1>2
    <2> HIDE DEF d, r
    <2> QED BY <1>4, <2>1, <2>2, <2>3 DEF Promise!NoDraft
  <1> HIDE DEF d
  <1>7. Promise!Allowed(d)
    BY <1>5, <1>6 DEF Promise!Allowed
  <1> QED BY <1>2, <1>3, <1>7 DEF d

(* What is read back of a trail that did not change.                       *)
LEMMA DecisionsStay == trail' = trail => DecisionsRead' = DecisionsRead
  BY DEF DecisionsRead, ReadBack

(* An append adds the decision behind the others.                          *)
LEMMA AppendRefines ==
    ASSUME DecidingInv, NEW p \in Procs, AppendRecords(p)
    PROVE  Promise!Record \/ UNCHANGED <<sets, trail, reported>>
  <1>1. /\ run[p].pc = "append" /\ RunInv(p) /\ reported[p] = NoDecision
        /\ trail \in Seq(RecordType)
    BY RunFacts DEF AppendRecords, At, DecidingInv, TrailOK
  <1>2. CASE ~ Recorded(p) \/ Refuse(p)
    BY <1>2 DEF AppendRecords, Becomes, Refuse
  <1>3. CASE Recorded(p) /\ ~ Refuse(p)
    <2> DEFINE k == Len(trail')
               old == DOMAIN DecisionsRead
    <2>1. trail' = trail \o Records(p) /\ UNCHANGED <<sets, reported>>
      BY <1>3 DEF AppendRecords
    <2>2. /\ trail' \in Seq(RecordType) /\ Grows
          /\ \A j \in DOMAIN trail' \ DOMAIN trail : trail'[j].kind # "node" <=> j = k
          /\ k \in DOMAIN trail' /\ k > Len(trail) /\ ReadBack(Len(trail))' = Decision(p)
      BY <1>1, <1>3, <2>1, AppendedFacts DEF ReadBack
    <2>3. old = {j \in DOMAIN trail : trail[j].kind # "node"} /\ \A j \in old : DecisionsRead[j] = ReadBack(j)
      BY DEF DecisionsRead
    <2>4. k \notin DOMAIN trail /\ \A j \in old : j < k
      BY <1>1, <2>2, <2>3
    <2>5. {j \in DOMAIN trail' : trail'[j].kind # "node"} = old \cup {k}
      BY <2>2, <2>3, <2>4 DEF Grows
    <2>6. \A j \in old : ReadBack(j)' = DecisionsRead[j]
      BY <1>1, <2>2, <2>3, ReadBackStays
    <2> DEFINE new == [j \in old \cup {k} |-> IF j = k THEN Decision(p) ELSE DecisionsRead[j]]
    <2>7. DecisionsRead' = new
      <3>1. DecisionsRead' = [j \in {i \in DOMAIN trail' : trail'[i].kind # "node"} |-> ReadBack(j)']
        BY DEF DecisionsRead
      <3>2. \A j \in old \cup {k} : ReadBack(j)' = (IF j = k THEN Decision(p) ELSE DecisionsRead[j])
        BY <2>2, <2>4, <2>6
      <3> HIDE DEF old, k
      <3> QED BY <2>5, <3>1, <3>2
    <2>8. Promise!Audited(Decision(p)) /\ Promise!Allowed(Decision(p)) /\ Decision(p).run = p
      BY <1>1, <1>3, DecisionAllowed
    <2>9. \A j \in old : DecisionsRead[j].run # p
      <3>1. \A j \in DOMAIN trail : trail[j].run # p
        BY <1>1 DEF RunInv, InTrail
      <3>2. \A j : ReadBack(j).run = trail[j].run
        BY DEF ReadBack
      <3> QED BY <2>3, <3>1, <3>2
    <2> HIDE DEF old, k
    <2>10. k \in DOMAIN new /\ new[k] = Decision(p)
      OBVIOUS
    <2>11. Promise!Record
      <3>1. /\ k \in DOMAIN DecisionsRead' /\ DecisionsRead'[k] = Decision(p)
            /\ DecisionsRead' = [j \in old \cup {k} |-> IF j = k THEN DecisionsRead'[k] ELSE DecisionsRead[j]]
        BY <2>7, <2>10
      <3>2. reported[DecisionsRead'[k].run] = NoDecision
        BY <1>1, <2>8, <3>1
      <3> QED BY <2>1, <2>4, <2>8, <2>9, <3>1, <3>2 DEF Promise!Record, old
    <2> QED BY <2>11
  <1> QED BY <1>2, <1>3

(* What is reported is what the trail has, when there is one.              *)
LEMMA RenderRefines ==
    ASSUME DecidingInv, NEW p \in Procs, Render(p)
    PROVE  Promise!Report(p) \/ UNCHANGED <<sets, trail, reported>>
  <1>1. /\ run[p].pc = "render" /\ RunInv(p) /\ reported[p] = NoDecision
        /\ trail \in Seq(RecordType) /\ reported \in [Procs -> DecisionType \cup {NoDecision}]
    BY RunFacts DEF Render, At, DecidingInv, TrailOK, ReportedOK
  <1>2. CASE Refuse(p)
    BY <1>2 DEF Refuse, Becomes
  <1>3. CASE ~ Refuse(p)
    <2> DEFINE d == Decision(p)
    <2>1. reported' = [reported EXCEPT ![p] = d] /\ UNCHANGED <<sets, trail>>
      BY <1>3 DEF Render
    <2>2. d # NoDecision /\ Promise!Allowed(d) /\ (Promise!Audited(d) <=> Recorded(p)) /\ d.run = p
      BY <1>1, AnsweredFacts, DecisionAllowed, DecisionAssumption
    <2>3. ASSUME ~ Recorded(p) PROVE ~ \E k \in DOMAIN DecisionsRead : DecisionsRead[k].run = p
      <3>1. \A j \in DOMAIN trail : trail[j].run # p
        BY <1>1, <2>3 DEF RunInv, InTrail
      <3>2. \A j : ReadBack(j).run = trail[j].run
        BY DEF ReadBack
      <3> QED BY <3>1, <3>2 DEF DecisionsRead
    <2>4. ASSUME Recorded(p) PROVE \E k \in DOMAIN DecisionsRead : DecisionsRead[k] = d
      <3>1. PICK k \in DOMAIN trail : trail[k].kind # "node" /\ ReadBack(k) = d
        BY <1>1, <2>4 DEF RunInv, InTrail
      <3>2. k \in DOMAIN DecisionsRead /\ DecisionsRead[k] = d
        BY <3>1 DEF DecisionsRead
      <3> QED BY <3>2
    <2>5. DecisionsRead' = DecisionsRead
      BY <2>1, DecisionsStay
    <2> HIDE DEF d
    <2>6. reported'[p] = d /\ \A q \in Procs \ {p} : reported'[q] = reported[q]
      BY <1>1, <2>1
    <2> QED BY <1>1, <2>1, <2>2, <2>3, <2>4, <2>5, <2>6 DEF Promise!Report
  <1> QED BY <1>2, <1>3

(* What `packs lock` has written is a set declared.                        *)
LEMMA WriteRefines ==
    ASSUME DecidingInv, NEW p \in Procs, WriteLock(p)
    PROVE  Promise!Declare \/ UNCHANGED <<sets, trail, reported>>
  <1>1. run[p].pc = "write"
    BY DEF WriteLock, At
  <1>2. CASE Refuse(p)
    BY <1>2 DEF Refuse, Becomes
  <1>3. CASE ~ Refuse(p)
    <2>1. PICK doc \in Documents : sets' = sets \cup {doc}
      BY <1>1, <1>3, GeneratedSet DEF WriteLock
    <2>2. UNCHANGED <<trail, reported>>
      BY <1>3 DEF WriteLock
    <2>3. doc \in Promise!Documents /\ DecisionsRead' = DecisionsRead
      BY <2>2, DecisionsStay DEF Promise!Documents, Promise!Entries, Promise!Names, Documents, Entries, Names
    <2> QED BY <2>1, <2>2, <2>3 DEF Promise!Declare
  <1> QED BY <1>2, <1>3

(* Every other step declares, records and reports nothing.                 *)
LEMMA OtherRefines ==
    ASSUME NEW p \in Procs,
           Step(p), ~ AppendRecords(p), ~ Render(p), ~ WriteLock(p)
    PROVE  UNCHANGED <<sets, trail, reported>>
  <1>1. CASE Start(p) \/ ReadGraph(p) \/ Load(p) \/ ReadPack(p) \/ ReadInput(p) \/ AskDraft(p)
    BY <1>1 DEF Start, ReadGraph, Load, ReadPack, ReadInput, AskDraft, Refuse, Becomes
  <1>2. CASE Open(p) \/ ReadLock(p) \/ Require(p) \/ Evaluate(p) \/ Node(p) \/ NodesDone(p)
    BY <1>2 DEF Open, ReadLock, Require, Evaluate, Node, NodesDone, Refuse, Becomes
  <1>3. CASE ReadDocument(p) \/ Truncate(p) \/ VerifyDone(p) \/ Crash(p)
    BY <1>3 DEF ReadDocument, Truncate, VerifyDone, Crash, Refuse, Becomes
  <1> QED BY <1>1, <1>2, <1>3 DEF Step

(* A step is one the abstract specification takes, or changes nothing it   *)
(* sees.                                                                   *)
LEMMA StepRefines == DecidingInv /\ [Next]_vars => [Promise!AbsNext]_Promise!dvars
  <1> SUFFICES ASSUME DecidingInv, [Next]_vars PROVE [Promise!AbsNext]_Promise!dvars
    OBVIOUS
  <1>1. ASSUME UNCHANGED <<sets, trail, reported>> PROVE UNCHANGED Promise!dvars
    BY <1>1, DecisionsStay DEF Promise!dvars
  <1>2. CASE UNCHANGED vars
    BY <1>1, <1>2 DEF vars
  <1>3. CASE EditDocument \/ EditConfig \/ RemoveLock
    BY <1>1, <1>3 DEF EditDocument, EditConfig, RemoveLock, Change
  <1>4. ASSUME NEW p \in Procs, Step(p) PROVE [Promise!AbsNext]_Promise!dvars
    <2>1. CASE AppendRecords(p)
      BY <1>1, <2>1, AppendRefines DEF Promise!AbsNext
    <2>2. CASE Render(p)
      BY <1>1, <2>2, RenderRefines DEF Promise!AbsNext
    <2>3. CASE WriteLock(p)
      BY <1>1, <2>3, WriteRefines DEF Promise!AbsNext
    <2> QED BY <1>1, <1>4, <2>1, <2>2, <2>3, OtherRefines
  <1> QED BY <1>2, <1>3, <1>4 DEF Next

(* And a project starts with nothing decided.                              *)
LEMMA InitRefines == Init => Promise!AbsInit
  <1> SUFFICES ASSUME Init PROVE Promise!AbsInit
    OBVIOUS
  <1>1. sets \subseteq Promise!Documents
    BY ProjectAssumption
       DEF Init, Promise!Documents, Promise!Entries, Promise!Names, Documents, Entries, Names
  <1>2. DOMAIN DecisionsRead = {}
    BY DEF Init, DecisionsRead
  <1> QED BY <1>1, <1>2 DEF Init, Promise!AbsInit

-----------------------------------------------------------------------------
(* What the runs check, for every project.                                 *)

(* A run's decision is recorded before it is reported and never            *)
(* differently, once, a rehearsal never; one marked reviewed applies what  *)
(* one declared set says; and a project that requires reviewed law decides *)
(* by no draft, whatever is edited or locked again while the runs go on.   *)
THEOREM DecisionsKept == Spec => DecisionsSpec
  <1>1. Init => Promise!AbsInit
    BY InitRefines
  <1>2. DecidingInv /\ [Next]_vars => [Promise!AbsNext]_Promise!dvars
    BY StepRefines
  <1> QED BY <1>1, <1>2, DecidingInvariant, PTL DEF Spec, DecisionsSpec, Promise!AbsSpec

(* A decision about declared law that carries no reviewed bit was taken    *)
(* while there was no lock: one cut short is never taken for none.         *)
THEOREM NoBitMeansNoLock == Spec => []UnlockedMeansAbsent
  <1>1. DecidingInv => UnlockedMeansAbsent
    <2> SUFFICES ASSUME DecidingInv, NEW d \in Decided,
                        d.reviewed = "none", ~ d.rehearsal, d.cfg # NoConfig
                 PROVE  d.run \in unlocked
      BY DEF UnlockedMeansAbsent
    <2>1. CASE d \in Range(DecisionsRead)
      <3>1. PICK k \in DOMAIN DecisionsRead : d = DecisionsRead[k]
        BY <2>1 DEF Range
      <3>2. k \in DOMAIN trail /\ d = ReadBack(k)
        BY <3>1 DEF DecisionsRead
      <3>3. d.run = trail[k].run /\ d.cfg = trail[k].cfg /\ d.reviewed = trail[k].reviewed
        BY <3>2 DEF ReadBack
      <3> QED BY <3>2, <3>3 DEF DecidingInv, TrailOK
    <2>2. CASE \E p \in Procs : reported[p] # NoDecision /\ d = reported[p]
      BY <2>2 DEF DecidingInv, ReportedOK
    <2> QED BY <2>1, <2>2 DEF Decided
  <1> QED BY <1>1, DecidingInvariant, PTL

(* `packs verify` finds what the deciding check would refuse for: over the *)
(* same files, what it says of a document and of the configuration is all  *)
(* that a run by id would be refused for.                                  *)
THEOREM VerifyCovers == Spec => []VerifyCoversDeciding
  <1>1. DecidingInv => VerifyCoversDeciding
    <2> SUFFICES ASSUME DecidingInv, config # NoConfig, lockFile.part = "whole"
                 PROVE  VerifyCoversDeciding
      BY DEF VerifyCoversDeciding
    <2> DEFINE doc == lockFile.doc
               bytes == [n \in Declared(config) |-> docs[config.path[n]]]
               found == Verify(config, doc, bytes)
    <2>1. config \in Configs /\ doc \in Documents
      BY DEF DecidingInv, ProjectOK
    <2>2. Declared(config) \subseteq Names
      BY <2>1, DeclaredNames
    <2>3. ASSUME NEW n \in Declared(config), bytes[n] \in Contents
          PROVE  VerifyDeciding(config, doc, { <<n, bytes[n]>> })
                   = {f \in found : f[2] \in {n, "the configuration"}}
      <3> DEFINE drift == ConfigDrift(config, doc)
                 own == VerifyApplied(config, doc, n, bytes[n])
                 about(m) == VerifyDocument(config, doc, m, bytes[m])
                 extra == {<<"locked-but-undeclared", m>> : m \in DOMAIN doc.entry \ Declared(config)}
      <3>1. VerifyDeciding(config, doc, { <<n, bytes[n]>> }) = drift \cup own
        BY DEF VerifyDeciding
      <3>2. own = about(n)
        BY <2>3 DEF VerifyApplied, VerifyDocument
      <3>3. \A m : \A f \in about(m) : f[2] = m
        BY DEF VerifyDocument
      <3>4. \A f \in drift : f[2] = "the configuration"
        <4>1. \A kind, what : <<kind, what>>[2] = what
          OBVIOUS
        <4>2. \A f \in drift : f = <<"config-drift", "the configuration">>
          BY Zenon DEF ConfigDrift
        <4> HIDE DEF drift
        <4> QED BY <4>1, <4>2, Zenon
      <3>5. \A f \in extra : f[2] \in Names \ {n}
        BY <2>1, <2>2 DEF Documents
      <3>6. found = drift \cup (UNION {about(m) : m \in Declared(config)}) \cup extra
        BY DEF Verify
      <3>7. "the configuration" \notin Names
        BY ConfigAssumption
      <3> HIDE DEF drift, own, about, extra, found
      <3>8. ASSUME NEW f \in drift \cup own
            PROVE  f \in found /\ f[2] \in {n, "the configuration"}
        BY <3>2, <3>3, <3>4, <3>6, <3>8
      <3>9. ASSUME NEW f \in found, f[2] \in {n, "the configuration"}
            PROVE  f \in drift \cup own
        <4>1. CASE f \in UNION {about(m) : m \in Declared(config)}
          <5>1. PICK m \in Declared(config) : f \in about(m)
            BY <4>1
          <5>2. m = n
            BY <2>2, <3>3, <3>7, <3>9, <5>1
          <5> QED BY <3>2, <5>1, <5>2
        <4>2. CASE f \in extra
          BY <3>5, <3>7, <3>9, <4>2
        <4> QED BY <3>6, <3>9, <4>1, <4>2
      <3> QED BY <3>1, <3>8, <3>9
    <2> QED BY <2>3 DEF VerifyCoversDeciding
  <1> QED BY <1>1, DecidingInvariant, PTL
=============================================================================
