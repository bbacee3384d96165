------------------------------ MODULE Checking ------------------------------
(***************************************************************************)
(* What a project's configuration is checked for before anything is        *)
(* decided: packs lint (project lint.go), that every pointer a pack        *)
(* consults and every requirement it declares is produced by someone, and  *)
(* packs validate (validate.go), that what each entry says of its document *)
(* is what the document says (inventory.go).                               *)
(*                                                                         *)
(* Each file is read once in a run and no check relates two of them.  An   *)
(* entry has its hints as sets of keys, its pin, and its filename as the   *)
(* id and version it names, or Unset.  A file too large to be read is one  *)
(* that cannot be.  What is left out: the checks of the audit directory    *)
(* and of the signing key, and every detail's wording.                     *)
(***************************************************************************)
EXTENDS Suggesting

CONSTANTS
    Checks          \* what is run: lint or validate, of what, by which manifest

VARIABLES
    checking        \* the run: where it is, and what was found of each pack

-----------------------------------------------------------------------------
(* What a document says of itself.                                         *)

(* factPaths: wherever an object has an op and a path, data included.      *)
RECURSIVE DataPaths(_)
DataPaths(v) ==
    CASE v.type = "object" ->
           (IF {"op", "path"} \subseteq DOMAIN v.members THEN {v.members["path"].text} ELSE {})
           \cup UNION {DataPaths(v.members[t]) : t \in DOMAIN v.members}
      [] v.type = "array" -> UNION {DataPaths(v.items[i]) : i \in DOMAIN v.items}
      [] OTHER -> {}
RECURSIVE ConditionPaths(_)
ConditionPaths(c) ==
    CASE c.op \in {"all", "any"} -> UNION {ConditionPaths(c.conditions[i]) : i \in DOMAIN c.conditions}
      [] c.op = "not" -> ConditionPaths(c.condition)
      [] c.op = "fact" -> {c.path} \cup UNION {DataPaths(c.values[i]) : i \in DOMAIN c.values}
      [] c.op \in {"exists", "every"} -> {c.path} \cup ConditionPaths(c.where)
      [] c.op = "uniform" -> {c.path}
      [] OTHER -> {}

(* Mutant: exceptions are not looked through.                              *)
FactPathsOfRules(d) ==
    UNION {ConditionPaths(c) : c \in {e \in {d.applicability} : e # NoCondition}
                                     \cup {d.rules[i].when : i \in DOMAIN d.rules}}
FactPaths(d) == UNION {ConditionPaths(c) : c \in AllConditions(d)}

(* identityFrom: of any object, conformant or not.                         *)
Decodes(d) == d # Unset /\ d.carrier = "ok" /\ d.object
EvidenceDeclared(d) == Ids(d.requirements) \ {NoName}
StatesQuantifier(d) == \E c \in AllConditions(d) : UsesQuantifier(c)

(* CoversFactPath: a pointer and all beneath it, by whole tokens.          *)
Covers(parent, child) ==
    \/ parent = child
    \/ PointerTokens[parent] = <<>>
    \/ Unset \notin {PointerTokens[parent], PointerTokens[child]}
       /\ IsPrefix(PointerTokens[parent], PointerTokens[child])

(* readsPointer: a hint is kept by a condition that reads at or under it.  *)
ReadsPointer(paths, key) ==
    \E p \in paths : p = key \/ (PointerTokens[p] # Unset /\ Covers(key, p))

(* expectedVersionStatus.                                                  *)
ExpectedVersionStatus(expected, actual) ==
    IF expected = NoName THEN "unset" ELSE IF actual = NoName THEN "unknown"
    ELSE IF expected = actual THEN "matches" ELSE "differs"

-----------------------------------------------------------------------------
(* packs lint.                                                             *)

Verdict(problems, passes) == IF problems # {} THEN "failed" ELSE IF passes THEN "passed" ELSE "skipped"

(* producesPointer: a producer has all beneath it, and what leads to it.   *)
ProducesPointer(producers, p) == \E q \in producers : Covers(q, p) \/ Covers(p, q)

Producers(run, id) ==
    IF run.manifest # Unset THEN run.manifest
    ELSE [facts |-> run.entries[id].facts, evidence |-> run.entries[id].evidence]

(* lintPack: of a hint both directions, of a manifest the one.             *)
LintPack(run, id) ==
    LET d == run.files[id].pack
        by == Producers(run, id)
        missing == {p \in FactPaths(d) : ~ProducesPointer(by.facts, p)}
        unsupplied == EvidenceDeclared(d) \ by.evidence
        orphaned == IF run.manifest = Unset THEN by.evidence \ EvidenceDeclared(d) ELSE {}
    IN  IF ~Decodes(d)
        THEN [id |-> id, facts |-> "failed", evidence |-> "failed", missing |-> {}, problems |-> {}, declared |-> {}]
        ELSE [id |-> id, declared |-> EvidenceDeclared(d),
              missing |-> IF StatesQuantifier(d) THEN {} ELSE missing,
              facts |-> IF StatesQuantifier(d) THEN "skipped" ELSE Verdict(missing, FactPaths(d) # {}),
              problems |-> unsupplied \cup orphaned,
              evidence |-> Verdict(unsupplied \cup orphaned,
                                   EvidenceDeclared(d) # {} \/ (run.manifest = Unset /\ by.evidence # {}))]
LintStatus(e) ==
    IF "failed" \in {e.facts, e.evidence} THEN "failed"
    ELSE IF "passed" \in {e.facts, e.evidence} THEN "passed" ELSE "skipped"

(* Lint, after its packs: what a manifest supplies and nothing declares is *)
(* a question only all the packs of a configuration can answer.            *)
Orphans(run, entries) ==
    run.manifest.evidence \ UNION {entries[i].declared : i \in DOMAIN entries}
ManifestCheck(run, entries) ==
    IF run.manifest = Unset \/ run.manifest.evidence = {} \/ Len(entries) < Cardinality(DOMAIN run.entries)
    THEN "skipped" ELSE Verdict(Orphans(run, entries), TRUE)
Concluded(statuses) ==
    IF "failed" \in statuses THEN "failed" ELSE IF "passed" \in statuses THEN "passed" ELSE "skipped"

-----------------------------------------------------------------------------
(* packs validate.                                                         *)

(* checkHintKeys.                                                          *)
CheckHintKeys(entry, d) ==
    Verdict((entry.evidence \ EvidenceDeclared(d)) \cup {p \in entry.facts : ~ReadsPointer(FactPaths(d), p)},
            entry.facts \cup entry.evidence # {})

(* checkFilename: a convention that is followed is held to.                *)
CheckFilename(id, version, entry) ==
    IF entry.filename = Unset THEN "skipped"
    ELSE IF entry.filename = [id |-> id, version |-> version] THEN "passed" ELSE "failed"
CheckVersion(version, entry) ==
    LET status == ExpectedVersionStatus(entry.expected, version)
    IN  IF status = "unset" THEN "skipped" ELSE IF status = "matches" THEN "passed" ELSE "failed"

(* checkMatrix: that it can be read, and not what it shows.                *)
CheckMatrix(entry, m) ==
    IF ~entry.matrix THEN "skipped" ELSE IF m # Unset /\ DecodeMatrix(m) THEN "passed" ELSE "failed"

(* validatePack: a path that leaves the project is not read, and the rest  *)
(* is held to the bytes that were validated.                               *)
ValidatePack(run, id) ==
    LET d == run.files[id].pack
        entry == run.entries[id]
        read == [id |-> id, path |-> "passed", matrix |-> CheckMatrix(entry, run.files[id].matrix),
                 document |-> IF d # Unset /\ Validate(d, Unset, {}) = "valid" THEN "passed" ELSE "failed",
                 version |-> "skipped", filename |-> "skipped", hints |-> "skipped"]
    IN  CASE ~entry.inside ->
               [n \in DOMAIN read |-> IF n = "id" THEN id ELSE IF n = "path" THEN "failed" ELSE "skipped"]
          [] entry.inside /\ ~Decodes(d) -> read
          [] OTHER -> [read EXCEPT !.version = CheckVersion(run.files[id].version, entry), !.filename = CheckFilename(id, run.files[id].version, entry),
                                   !.hints = CheckHintKeys(entry, d)]
Valid(e) == \A n \in DOMAIN e \ {"id"} : e[n] # "failed"

-----------------------------------------------------------------------------
(* A run of either.                                                        *)

CheckInit ==
    \E k \in Checks :
        checking = [pc |-> "checking", run |-> k, found |-> <<>>, manifest |-> "skipped", status |-> "none"]

CheckPack ==
    LET id == checking.run.order[Len(checking.found) + 1]
    IN  /\ checking.pc = "checking" /\ Len(checking.found) < Len(checking.run.order)
        /\ checking' = [checking EXCEPT !.found =
               Append(@, IF checking.run.kind = "lint" THEN LintPack(checking.run, id)
                         ELSE ValidatePack(checking.run, id))]

ReportLint ==
    /\ checking.pc = "checking" /\ Len(checking.found) = Len(checking.run.order)
    /\ checking.run.kind = "lint"
    /\ \E manifest \in {ManifestCheck(checking.run, checking.found)} :
          checking' = [checking EXCEPT !.pc = "done", !.manifest = manifest,
                         !.status = Concluded({manifest} \cup {LintStatus(e) : e \in Range(checking.found)})]

ReportValidation ==
    /\ checking.pc = "checking" /\ Len(checking.found) = Len(checking.run.order)
    /\ checking.run.kind = "validate"
    /\ checking' = [checking EXCEPT !.pc = "done",
                      !.status = IF \A e \in Range(checking.found) : Valid(e) THEN "valid" ELSE "invalid"]

CheckNext == CheckPack \/ ReportLint \/ ReportValidation
-----------------------------------------------------------------------------
(* What a report is worth to those who decide.                             *)

(* Facts in which each of these pointers selects something, and no more:   *)
(* the deeper ones are placed first.                                       *)
Answering(pointers) ==
    LET deepest == SetToSortSeq({p \in pointers : PointerTokens[p] # Unset},
                                LAMBDA p, q : Len(PointerTokens[p]) > Len(PointerTokens[q]))
        AddAnswer(facts, p) ==
            IF ReadAt(facts, PointerTokens[p]) # Unset THEN facts
            ELSE Placed(facts, PointerTokens[p], [type |-> "string", text |-> p, num |-> NotDecimal, len |-> 1, items |-> <<>>])
    IN  FoldLeft(AddAnswer, NoFacts, deepest)

(* What the conditions read, as an evaluation reads it, and whether a pack *)
(* carries anything that only looks like one.                              *)
Read(d) == {c.path : c \in UNION {Leaves(t) : t \in AllConditions(d)}}
CarriesData(d) ==
    \E c \in UNION {Leaves(t) : t \in AllConditions(d)} : \E i \in DOMAIN c.values : DataPaths(c.values[i]) # {}

(* A producer makes the whole value at its pointer.                        *)
WithProducers(d, producers) ==
    Answering(producers \cup {p \in Read(d) : \E q \in producers : Covers(q, p)})
Legible(d) == \A p \in FactPaths(d) \cup Read(d) : PointerTokens[p] # Unset

(* A pack that lint passes has nothing left to wait for; what it reports   *)
(* as unproduced is what stays unanswered.                                 *)
LintTrue(run, e) ==
    LET d == run.files[e.id].pack
        facts == WithProducers(d, Producers(run, e.id).facts)
        told == [r \in EvidenceDeclared(d) |-> IF r \in Producers(run, e.id).evidence THEN "true" ELSE "unknown"]
    IN  Decodes(d) /\ Legible(d) /\ ~StatesQuantifier(d) =>
          /\ \A p \in Read(d) : PointerTokens[p] # <<>> =>
                 (p \in e.missing <=> ReadAt(facts, PointerTokens[p]) = Unset)
          /\ e.facts # "failed" /\ e.evidence # "failed" /\ EvidenceNamed(d) \subseteq EvidenceDeclared(d) =>
                 \A c \in AllConditions(d) :
                     {k.cause : k \in Condition(c, Selects(facts), told).causes} \cap {"absent", "unknown"} = {}

(* What only a whole configuration can say is said of a whole one.         *)
ManifestTrue ==
    LET run == checking.run
        declared == UNION {EvidenceDeclared(run.files[id].pack) :
                              id \in {i \in DOMAIN run.entries : Decodes(run.files[i].pack)}}
    IN  /\ checking.manifest # "skipped" => checking.manifest = IF run.manifest.evidence \subseteq declared THEN "passed" ELSE "failed"
        /\ checking.manifest = "skipped" /\ run.manifest # Unset /\ run.manifest.evidence # {} =>
              Range(run.order) # DOMAIN run.entries

(* A document that validate passes is one that no call refuses for what    *)
(* the pack is, and whose matrix can be run; a hint it passes points at    *)
(* something that facts which answer the pack must have.                   *)
ValidationTrue(run, e) ==
    LET d == run.files[e.id].pack
        entry == run.entries[e.id]
        call == Asked([supports |-> {}, facts |-> [form |-> "object", document |-> <<>>],
                       evidence |-> [form |-> "none"]], d.version)
        facing == {n \in {2, 3, 4, 5, 6, 7, 8, 11} : Faults(d, call)[n][1]}
    IN  /\ d # Unset /\ d.version \in Contracts /\ entry.inside =>
              (e.document = "passed" <=> facing = {})
        /\ e.document = "passed" => e.hints # "skipped" \/ entry.facts \cup entry.evidence = {}
        /\ Decodes(d) /\ entry.inside /\ ~StatesQuantifier(d) =>
              LET kept == {p \in entry.facts : Read(d) # {} /\ ReadAt(Answering(Read(d)), PointerTokens[p]) # Unset}
              IN  /\ entry.evidence \subseteq EvidenceDeclared(d) /\ kept = entry.facts => e.hints # "failed"
                  /\ e.hints = "passed" /\ ~CarriesData(d) /\ Legible(d) => kept = entry.facts

(* Lint and validate claim no more than is so: of a pack that lint passes, *)
(* once everyone who is said to produce has produced, no condition is      *)
(* unknown for a fact or an answer that nobody had; what is called         *)
(* unproduced stays absent; a manifest is called orphaned only by a run    *)
(* over every pack; and what validate passes the evaluator admits.         *)
ChecksTrue ==
    checking.pc = "done" =>
        /\ checking.run.kind = "lint" =>
              ManifestTrue /\ \A e \in Range(checking.found) : LintTrue(checking.run, e)
        /\ checking.run.kind = "validate" => \A e \in Range(checking.found) : ValidationTrue(checking.run, e)
=============================================================================
