---------------------------- MODULE ReviewedSet ----------------------------
(***************************************************************************)
(* The reviewed-set lock (internal/lock lock.go): the document `packs      *)
(* lock` declares, what `packs verify` finds different from it, and what a *)
(* deciding surface asks of it before and while it evaluates.              *)
(*                                                                         *)
(* A document's digest is its bytes, and the configuration's digest is the *)
(* configuration: two that differ never share one.  Packs and graphs are   *)
(* looked up in maps of their own; here they are names that never clash.   *)
(* Messages and the order in which differences are listed are left out.    *)
(***************************************************************************)
EXTENDS Naturals, Sequences, FiniteSets, Functions

CONSTANTS
    PackNames,  \* the ids a configuration may declare packs under
    GraphNames, \* and graphs
    Paths,      \* where documents are kept, in the configuration's directory
    Contents,   \* the documents that may be kept there
    Configs,    \* the configurations: [path, required, audited]
    NoConfig,   \* there is no configuration
    Absent,     \* nothing can be read at a path
    Big,        \* what is there is over the byte limit
    NoSet       \* the project declares no reviewed set

Names == PackNames \cup GraphNames

(* What a configuration says: the path of each declared document, whether  *)
(* it requires reviewed law, and whether it keeps a trail.                 *)
ConfigType ==
    [path : UNION {[S -> Paths] : S \in SUBSET Names},
     required : BOOLEAN, audited : BOOLEAN]

ASSUME ConfigAssumption ==
    /\ PackNames \cap GraphNames = {}
    /\ Configs \subseteq ConfigType /\ NoConfig \notin ConfigType
    /\ {Absent, Big} \cap Contents = {}
    /\ "the configuration" \notin Names

Declared(cfg) == DOMAIN cfg.path

(* Entry: one document of a reviewed set.                                  *)
Entries == [path : Paths, digest : Contents]

(* Document: what a lock declares, entirely or not at all.                 *)
Documents ==
    [config : Configs, entry : UNION {[S -> Entries] : S \in SUBSET Names}]

ASSUME SetAssumption == NoSet \notin Documents

(* Generate: the set a configuration and the digests of what it declares   *)
(* make.                                                                   *)
Generate(cfg, digest) ==
    [config |-> cfg,
     entry |-> [n \in Declared(cfg) |-> [path |-> cfg.path[n], digest |-> digest[n]]]]

(* pathMismatch: the entry is about another document than the one declared.*)
PathMismatch(cfg, doc, n) == doc.entry[n].path # cfg.path[n]

-----------------------------------------------------------------------------
(* What differs, as pairs of a finding and the name it is about.           *)

ConfigDrift(cfg, doc) ==
    IF doc.config # cfg THEN { <<"config-drift", "the configuration">> } ELSE {}

(* verifyApplied: one declared document, by the bytes about to be applied. *)
(* A name the configuration does not declare is not the lock's to find.    *)
VerifyApplied(cfg, doc, n, bytes) ==
    IF n \notin Declared(cfg) THEN {}
    ELSE IF n \notin DOMAIN doc.entry THEN { <<"lock-entry-missing", n>> }
    ELSE (IF PathMismatch(cfg, doc, n) THEN { <<"path-mismatch", n>> } ELSE {})
           \cup (IF bytes # doc.entry[n].digest THEN { <<"document-drift", n>> } ELSE {})

(* VerifyDeciding: the configuration, and the documents of one evaluation, *)
(* as pairs of a name and the bytes it applies.                            *)
VerifyDeciding(cfg, doc, applied) ==
    ConfigDrift(cfg, doc)
        \cup UNION {VerifyApplied(cfg, doc, a[1], a[2]) : a \in applied}

(* Mutant: the paths of a set are not compared.                            *)
VerifyDocumentPathless(cfg, doc, n, bytes) ==
    LET inLock == n \in DOMAIN doc.entry
        read == bytes \in Contents
        drift == read /\ inLock /\ bytes # doc.entry[n].digest
    IN  (IF ~ inLock THEN { <<"lock-entry-missing", n>> } ELSE {})
          \cup (IF ~ read THEN { <<"document-missing", n>> } ELSE {})
          \cup (IF drift THEN { <<"document-drift", n>> } ELSE {})

(* verifySet of a declared document: bytes is what its read gave.          *)
VerifyDocument(cfg, doc, n, bytes) ==
    LET inLock == n \in DOMAIN doc.entry
        read == bytes \in Contents
        moved == read /\ inLock /\ PathMismatch(cfg, doc, n)
        drift == read /\ inLock /\ bytes # doc.entry[n].digest
    IN  (IF ~ inLock THEN { <<"lock-entry-missing", n>> } ELSE {})
          \cup (IF ~ read THEN { <<"document-missing", n>> } ELSE {})
          \cup (IF moved THEN { <<"path-mismatch", n>> } ELSE {})
          \cup (IF drift THEN { <<"document-drift", n>> } ELSE {})

(* Verify: every difference between the project and its reviewed set.      *)
Verify(cfg, doc, read) ==
    ConfigDrift(cfg, doc)
        \cup (UNION {VerifyDocument(cfg, doc, n, read[n]) : n \in Declared(cfg)})
        \cup {<<"locked-but-undeclared", n>> : n \in DOMAIN doc.entry \ Declared(cfg)}

-----------------------------------------------------------------------------
(* What a deciding surface does about the lock.  A reviewed bit is "none", *)
(* "false" or "true", as a record carries it.                              *)

(* DraftRun: a run that applies no declared document never reads the lock. *)
DraftRun(hasLock) == IF hasLock THEN "false" ELSE "none"

(* Consult: the differences that refuse a run, and its bit otherwise.      *)
Refusals(cfg, set, applied) ==
    IF set = NoSet \/ applied = {} THEN {}
    ELSE VerifyDeciding(cfg, set, applied)

Reviewed(set, draft) ==
    IF set = NoSet THEN "none" ELSE IF draft THEN "false" ELSE "true"

(* RequireReviewed: whether the run may go on.                             *)
RequireReviewed(cfg, reviewed, declared, hasLock) ==
    \/ cfg = NoConfig \/ ~ cfg.required \/ reviewed = "true"
    \/ declared /\ hasLock

(* NodeCheck: a node's pack against the set the run retained.  The         *)
(* configuration was checked before the run.                               *)
NodeRefusals(cfg, set, n, bytes) ==
    IF set = NoSet THEN {}
    ELSE VerifyDeciding(cfg, [set EXCEPT !.config = cfg], { <<n, bytes>> })
=============================================================================
