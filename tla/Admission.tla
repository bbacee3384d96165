----------------------------- MODULE Admission ------------------------------
(***************************************************************************)
(* What comes before an evaluation (evaluation engine.go, contract.go,     *)
(* rfc0008.go, rfc0016.go; validation validator.go, semantic.go,           *)
(* profile.go): a pack is admitted once, and its admission is kept for     *)
(* each set of capabilities it is asked under, by callers that run beside  *)
(* each other; each call then meets the rest of the preflight.             *)
(*                                                                         *)
(* A pack document is a record of what these checks read: its carrier, its *)
(* declarations, its ids and references, and its conditions, as trees of   *)
(* module Conditions.  Sources refer as evidence does and are left out, as *)
(* are the wording of a diagnostic and which of several comes first.       *)
(***************************************************************************)
EXTENDS Comparable

CONSTANTS
    Document,       \* the packs that are admitted
    Edited(_),      \* what a caller may write over the bytes it handed in
    Caller,
    Requests(_),    \* what each may ask: options, facts and evidence
    MaxAdmissions,  \* the admissions one pack retains
    ValuesExtension, \* the extension that carries a value declaration
    NoCondition, NoName, Unset

VARIABLES
    given,      \* the bytes handed in, as they were
    admitted,   \* what is kept of them, and whether the caller still holds it
    admissions, \* what is kept, by key
    calls       \* of each caller: where it is, its request and its answer

admissionVars == <<given, admitted, admissions, calls>>

Bundled == {"0.1", "0.2", "0.3"}
Contracts == {"0.2", "0.3"}

(* Every failure: its class of the evaluator contract and its kind.        *)
NoFailure == [class |-> "none", kind |-> "none"]
PackFailure(kind) == [class |-> "pack-not-conformant", kind |-> kind]
InputFailure(kind) == [class |-> "malformed-input", kind |-> kind]
Unclassed(kind) == [class |-> "none", kind |-> kind]
Unsupported == [class |-> "unsupported-required-extension", kind |-> "extension"]

-----------------------------------------------------------------------------
(* Validation of one document.                                             *)

(* NegotiateProfile: only the newest version declares one.                 *)
NegotiateProfile(d, supported) ==
    LET profile == IF d.profile = "none" THEN "base" ELSE d.profile
        taken == IF supported = Unset THEN {"base"} ELSE supported
    IN  CASE d.carrier # "ok" \/ ~d.object \/ d.version # "0.3" -> "none"
          [] profile \notin {"base", "extended"} -> "ill-formed"
          [] profile = "extended" -> "unsupported"
          [] OTHER -> IF "base" \in taken THEN "none" ELSE "unsupported"

AllConditions(d) ==
    {c \in {d.applicability} : c # NoCondition}
    \cup {d.rules[i].when : i \in DOMAIN d.rules} \cup {d.exceptions[i].when : i \in DOMAIN d.exceptions}

(* What the schema of a condition asks: a declared op, a child, a pointer. *)
RECURSIVE WellFormed(_)
WellFormed(c) ==
    CASE c.op \in {"all", "any"} ->
           c.conditions # <<>> /\ \A i \in DOMAIN c.conditions : WellFormed(c.conditions[i])
      [] c.op = "not" -> WellFormed(c.condition)
      [] c.op = "fact" -> c.path \in Pointer
      [] OTHER -> c.op \in {"literal", "evidence-present"}

(* exceptionShapeDiagnostics: what an effect needs and what it forbids.    *)
ShapedException(x) ==
    /\ x.targetRule # NoName <=> x.effect = "suppress-rule"
    /\ x.outcome # NoName <=> x.effect = "force-outcome"

(* extensionNameDiagnostics: no reserved name in any slot, nor required.   *)
ExtensionsNamed(d) ==
    /\ \A i \in DOMAIN d.outcomes : d.outcomes[i].declares = "nothing"
    /\ ValuesExtension \notin Range(d.required) \cup d.extensions

Structural(d) ==
    /\ d.shaped /\ IsInjective(d.required) /\ ExtensionsNamed(d)
    /\ \A c \in AllConditions(d) : WellFormed(c)
    /\ \A i \in DOMAIN d.exceptions : ShapedException(d.exceptions[i])

Ids(seq) == {seq[i].id : i \in DOMAIN seq}
Distinct(seq) == Cardinality(Ids(seq)) = Len(seq)

(* walkCondition: the evidence a condition refers to, in Core's operators. *)
RECURSIVE References(_)
References(c) ==
    CASE c.op = "evidence-present" -> {c.requirement}
      [] c.op \in {"all", "any"} -> UNION {References(c.conditions[i]) : i \in DOMAIN c.conditions}
      [] c.op = "not" -> References(c.condition)
      [] OTHER -> {}

OutcomesNamed(d) ==
    ({d.rules[i].outcome : i \in DOMAIN d.rules} \cup {d.fallback}
     \cup {d.exceptions[i].outcome : i \in DOMAIN d.exceptions}) \ {NoName}
EvidenceNamed(d) ==
    UNION {References(c) : c \in AllConditions(d)} \cup UNION {d.rules[i].evidenceRefs : i \in DOMAIN d.rules}
RulesNamed(d) == {d.exceptions[i].targetRule : i \in DOMAIN d.exceptions} \ {NoName}

(* semanticDiagnostics: distinct ids, references that resolve, and every   *)
(* required extension used.                                                *)
Semantic(d) ==
    /\ \A seq \in {d.outcomes, d.rules, d.requirements, d.exceptions} : Distinct(seq)
    /\ OutcomesNamed(d) \subseteq Ids(d.outcomes)
    /\ RulesNamed(d) \subseteq Ids(d.rules)
    /\ EvidenceNamed(d) \subseteq Ids(d.requirements)
    /\ Range(d.required) \subseteq d.extensions

(* Validate: the first layer that fails, and an extension not supported    *)
(* only of a document that is otherwise valid.                             *)
Validate(d, profiles, supported) ==
    CASE NegotiateProfile(d, profiles) = "unsupported" -> "profile-unsupported"
      [] NegotiateProfile(d, profiles) = "ill-formed" -> "invalid"
      [] d.carrier = "limit" -> "operational"
      [] d.carrier = "malformed" \/ ~d.object -> "invalid"
      [] d.version \notin Bundled -> IF d.version = NoName THEN "invalid" ELSE "unsupported-version"
      [] ~Structural(d) \/ ~Semantic(d) -> "invalid"
      [] ~(Range(d.required) \subseteq supported) -> "extension"
      [] OTHER -> "valid"

-----------------------------------------------------------------------------
(* The drafts: what each grammar admits, and the pack it leaves to Core.   *)

Aggregates0008 == {"exists", "every", "uniform"}

(* rfc0008Diagnostics: aggregates nest twice, whatever is between them.    *)
RECURSIVE AggregatesFit(_, _)
AggregatesFit(c, remaining) ==
    CASE c.op \in {"all", "any"} ->
           \A i \in DOMAIN c.conditions : AggregatesFit(c.conditions[i], remaining)
      [] c.op = "not" -> AggregatesFit(c.condition, remaining)
      [] c.op = "uniform" -> remaining > 0 /\ c.path \in Pointer /\ c.at \in Pointer
      [] c.op \in {"exists", "every"} ->
           remaining > 0 /\ c.path \in Pointer /\ AggregatesFit(c.where, remaining - 1)
      [] OTHER -> TRUE

(* Mutant: an aggregate leaves nothing of its condition to Core.           *)
RECURSIVE ProjectConditionAway(_)
ProjectConditionAway(c) ==
    CASE c.op \in {"all", "any"} ->
           [c EXCEPT !.conditions = [i \in DOMAIN c.conditions |-> ProjectConditionAway(c.conditions[i])]]
      [] c.op = "not" -> [c EXCEPT !.condition = ProjectConditionAway(c.condition)]
      [] c.op \in Aggregates0008 -> [op |-> "literal", value |-> TRUE]
      [] OTHER -> c

RECURSIVE ProjectCondition(_)
ProjectCondition(c) ==
    CASE c.op \in {"all", "any"} ->
           [c EXCEPT !.conditions = [i \in DOMAIN c.conditions |-> ProjectCondition(c.conditions[i])]]
      [] c.op = "not" -> [c EXCEPT !.condition = ProjectCondition(c.condition)]
      [] c.op \in {"exists", "every"} -> ProjectCondition(c.where)
      [] c.op = "uniform" -> [op |-> "literal", value |-> TRUE]
      [] OTHER -> c

ProjectPack(d) ==
    LET Projected(seq) == [i \in DOMAIN seq |-> [seq[i] EXCEPT !.when = ProjectCondition(@)]]
    IN  [d EXCEPT !.applicability = IF @ = NoCondition THEN @ ELSE ProjectCondition(@),
                  !.rules = Projected(@), !.exceptions = Projected(@)]

(* rfc0016Diagnostics: declarations are well formed, and the extension is  *)
(* required once exactly when some outcome declares a value.               *)
ValuesFit(d) ==
    LET declared == {i \in DOMAIN d.outcomes : d.outcomes[i].declares # "nothing"}
        listed == {i \in DOMAIN d.required : d.required[i] = ValuesExtension}
    IN  /\ \A i \in declared : d.outcomes[i].declares = "values"
        /\ Cardinality(listed) <= 1
        /\ listed # {} <=> declared # {}

ProjectOutcomeValues(d) ==
    [d EXCEPT !.outcomes = [i \in DOMAIN @ |-> [@[i] EXCEPT !.declares = "nothing"]],
              !.required = SelectSeq(@, LAMBDA x : x # ValuesExtension)]

GrammarFits(d, o) ==
    IF o.quantifiers THEN \A c \in AllConditions(d) : AggregatesFit(c, 2) ELSE ValuesFit(d)
Projection(d, o) == IF o.quantifiers THEN ProjectPack(d) ELSE ProjectOutcomeValues(d)

-----------------------------------------------------------------------------
(* Admission.                                                              *)

Admission(d, unsupported, failure) == [root |-> d, unsupported |-> unsupported, failure |-> failure]
Refused(failure) == Admission("none", FALSE, failure)

(* packNotConformant, packOperationalFailure; else the decoded pack, whose *)
(* unsupported extensions are reported later.                              *)
FromValidation(d, status) ==
    CASE status = "profile-unsupported" -> Refused(Unclassed("profile-unsupported"))
      [] status = "operational" -> Refused(PackFailure("limit"))
      [] status \in {"valid", "extension"} -> Admission(d, status = "extension", NoFailure)
      [] OTHER -> Refused(PackFailure("not-conformant"))

(* draftConformance: the carrier, the draft's grammar, and then Core over  *)
(* the projection, of which the pack itself is what is evaluated.          *)
DraftConformance(d, o) ==
    CASE d.carrier = "limit" -> Refused(PackFailure("limit"))
      [] d.carrier = "malformed" \/ ~d.object -> Refused(PackFailure("not-conformant"))
      [] d.carrier = "ok" /\ d.object /\ ~GrammarFits(d, o) -> Refused(PackFailure("grammar"))
      [] OTHER -> FromValidation(d, Validate(Projection(d, o), Unset, o.supported))

Drafted(o) == o.quantifiers \/ o.values

Conformance(d, o) ==
    CASE Drafted(o) /\ NegotiateProfile(d, o.profiles) = "unsupported" ->
           Refused(Unclassed("profile-unsupported"))
      [] Drafted(o) /\ NegotiateProfile(d, o.profiles) = "ill-formed" ->
           Refused(PackFailure("not-conformant"))
      [] Drafted(o) /\ NegotiateProfile(d, o.profiles) = "none" ->
           IF o.version # "0.2" THEN Refused(Unclassed("draft-of-another-contract"))
           ELSE DraftConformance(d, o)
      [] OTHER -> FromValidation(d, Validate(d, o.profiles, o.supported))

(* declaredSpecVersionWith, after conformance.                             *)
Admit(d, o) ==
    LET a == Conformance(d, o)
    IN  CASE a.failure # NoFailure -> a
          [] a.failure = NoFailure /\ o.version \notin Contracts -> Refused(Unclassed("contract"))
          [] OTHER -> IF d.version = o.version THEN a ELSE Refused(PackFailure("version"))

(* Mutant: the drafts are not part of the key.                             *)
AdmissionKeyWithoutDrafts(o) ==
    [version |-> o.version, profiles |-> o.profiles, supported |-> o.supported,
     quantifiers |-> FALSE, values |-> FALSE]

AdmissionKey(o) ==
    [version |-> o.version, profiles |-> o.profiles, supported |-> o.supported,
     quantifiers |-> o.quantifiers, values |-> o.values]

-----------------------------------------------------------------------------
(* Calls over one admitted pack.                                           *)

(* Mutant: the bytes handed in are kept, and not a copy.                   *)
AdmitPackShared(d) == [pack |-> d, oversized |-> d.over, shared |-> TRUE]

(* AdmitPack: of a pack over the limit nothing is read but to say so.      *)
AdmitPack(d) == [pack |-> d, oversized |-> d.over, shared |-> d.over]

Idle == [pc |-> "idle", request |-> "none", result |-> "none"]

AdmissionInit ==
    /\ given \in Document
    /\ admitted = AdmitPack(given)
    /\ admissions = <<>>
    /\ calls = [c \in Caller |-> Idle]

Refusal(failure) == [answer |-> "refused", failure |-> failure, root |-> "none", presence |-> <<>>]
Evaluated(d, presence) ==
    [answer |-> "evaluated", failure |-> NoFailure, root |-> d, presence |-> presence]
Admits(b) == [answer |-> IF b THEN "admits" ELSE "refused", failure |-> NoFailure, root |-> "none",
              presence |-> <<>>]

TwoDrafts(o) == o.quantifiers /\ o.values

(* What refuses a call before the pack is looked at.                       *)
Early(a, r) ==
    CASE TwoDrafts(r.options) -> Unclassed("two-drafts")
      [] ~TwoDrafts(r.options) /\ r.kind = "evaluate" /\ (a.oversized \/ "pack" \in r.oversized) ->
           PackFailure("limit")
      [] OTHER -> NoFailure

(* decodeInput, and its limit before it.                                   *)
Input(r, name, form) ==
    CASE name \in r.oversized \/ form = "over" -> InputFailure("limit")
      [] form \in {"none", "malformed"} -> InputFailure("json")
      [] OTHER -> NoFailure

(* decodeEvidence: an omitted document is every requirement unknown, and   *)
(* an empty one is none.                                                   *)
Evidence(r, d) ==
    LET e == r.evidence
    IN  CASE e.form = "none" /\ "evidence" \notin r.oversized ->
               IF r.options.supplied THEN InputFailure("json") ELSE NoFailure
          [] e.form = "object" /\ "evidence" \notin r.oversized ->
               IF DOMAIN e.states \subseteq Ids(d.requirements)
                  /\ Range(e.states) \subseteq {"present", "absent", "unknown"}
               THEN NoFailure ELSE InputFailure("evidence")
          [] OTHER -> IF Input(r, "evidence", e.form) # NoFailure THEN Input(r, "evidence", e.form)
                      ELSE InputFailure("evidence")

Presence(r, d) ==
    [q \in Ids(d.requirements) |->
        IF r.evidence.form = "object" /\ q \in DOMAIN r.evidence.states
        THEN r.evidence.states[q] ELSE "unknown"]

Stages(d) ==
    (IF d.applicability = NoCondition THEN <<>> ELSE <<d.applicability>>)
    \o [i \in DOMAIN d.exceptions |-> d.exceptions[i].when] \o [i \in DOMAIN d.rules |-> d.rules[i].when]

Comparisons(r, d) ==
    IF r.options.comparable
       /\ RequireComparable(IncomparableFacts(Stages(d), r.facts.document)) # "passes"
    THEN Unclassed("comparable") ELSE NoFailure

(* Mutant: the pack's extensions are compared before the other inputs.     *)
FirstFailureExtensionsEarly(a, r) ==
    CASE a.failure # NoFailure -> a.failure
      [] a.failure = NoFailure /\ a.unsupported -> Unsupported
      [] a.failure = NoFailure /\ ~a.unsupported /\ Input(r, "facts", r.facts.form) # NoFailure ->
           Input(r, "facts", r.facts.form)
      [] OTHER -> IF Evidence(r, a.root) # NoFailure THEN Evidence(r, a.root) ELSE Comparisons(r, a.root)

(* EvaluateAdmitted after the admission: the inputs in order, and last the *)
(* extensions the pack requires and what the project asks.                 *)
FirstFailure(a, r) ==
    CASE a.failure # NoFailure -> a.failure
      [] a.failure = NoFailure /\ Input(r, "facts", r.facts.form) # NoFailure ->
           Input(r, "facts", r.facts.form)
      [] OTHER -> IF Evidence(r, a.root) # NoFailure THEN Evidence(r, a.root)
                  ELSE IF a.unsupported THEN Unsupported ELSE Comparisons(r, a.root)

Answered(r, a, failure) ==
    CASE r.kind = "admits" -> Admits(a.failure = NoFailure /\ ~a.unsupported)
      [] r.kind = "evaluate" /\ failure # NoFailure -> Refusal(failure)
      [] OTHER -> Evaluated(a.root, Presence(r, a.root))

Conclude(c, a) ==
    calls' = [calls EXCEPT ![c].pc = "done",
                 ![c].result = Answered(calls[c].request, a, FirstFailure(a, calls[c].request))]

Call(c) ==
    /\ calls[c].pc = "idle"
    /\ \E r \in Requests(c) :
          LET failure == Early(admitted, r)
          IN  calls' = [calls EXCEPT ![c] =
                 [pc |-> IF failure = NoFailure THEN "looking" ELSE "done", request |-> r,
                  result |-> IF failure = NoFailure THEN "none" ELSE Refusal(failure)]]
    /\ UNCHANGED <<given, admitted, admissions>>

(* admission: found under the lock, which is left while another is made.   *)
LookUp(c) ==
    LET key == AdmissionKey(calls[c].request.options)
    IN  /\ calls[c].pc = "looking"
        /\ IF key \in DOMAIN admissions THEN Conclude(c, admissions[key])
           ELSE calls' = [calls EXCEPT ![c].pc = "admitting"]
        /\ UNCHANGED <<given, admitted, admissions>>

(* Kept if there is room and no other caller was first.                    *)
Retain(c) ==
    LET o == calls[c].request.options
        a == Admit(admitted.pack, o)
    IN  /\ calls[c].pc = "admitting"
        /\ admissions' = IF AdmissionKey(o) \in DOMAIN admissions
                            \/ Cardinality(DOMAIN admissions) >= MaxAdmissions
                         THEN admissions ELSE admissions @@ (AdmissionKey(o) :> a)
        /\ Conclude(c, a)
        /\ UNCHANGED <<given, admitted>>

(* The caller that handed in the bytes writes over them.                   *)
Overwrite ==
    /\ \E c \in Caller : calls[c].pc \in {"idle", "looking", "admitting"}
    /\ admitted.pack = given
    /\ admitted.shared /\ admitted' = [admitted EXCEPT !.pack = Edited(given)]
    /\ UNCHANGED <<given, admissions, calls>>

AdmissionNext == Overwrite \/ \E c \in Caller : Call(c) \/ LookUp(c) \/ Retain(c)

-----------------------------------------------------------------------------
(* What is wrong with a call, of the pack as it was handed in and of no    *)
(* projection of it.                                                       *)

(* Every condition in a tree, and how many aggregates it is under.         *)
RECURSIVE Nested(_, _)
Nested(c, depth) ==
    LET Under(kids) == UNION {Nested(kids[i], depth) : i \in DOMAIN kids}
    IN  {<<c, depth>>}
        \cup CASE c.op \in {"all", "any"} -> Under(c.conditions)
               [] c.op = "not" -> Nested(c.condition, depth)
               [] c.op \in {"exists", "every"} -> Nested(c.where, depth + 1)
               [] OTHER -> {}

Sound(d, o, c, depth) ==
    CASE c.op \in Aggregates0008 ->
           /\ o.quantifiers /\ depth < 2 /\ c.path \in Pointer
           /\ c.op = "uniform" => c.at \in Pointer
      [] c.op = "fact" -> c.path \in Pointer
      [] c.op \in {"all", "any"} -> c.conditions # <<>>
      [] c.op = "evidence-present" -> c.requirement \in Ids(d.requirements)
      [] OTHER -> c.op \in {"not", "literal"}

ValuesDeclared(d) == {i \in DOMAIN d.outcomes : d.outcomes[i].declares # "nothing"}
ValuesSound(d, o) ==
    IF o.values
    THEN /\ \A i \in ValuesDeclared(d) : d.outcomes[i].declares = "values"
         /\ ValuesDeclared(d) # {} <=> ValuesExtension \in Range(d.required)
    ELSE ValuesDeclared(d) = {} /\ ValuesExtension \notin Range(d.required)

Conforms(d, o) ==
    /\ d.carrier = "ok" /\ d.object /\ d.shaped /\ d.version \in Bundled
    /\ d.version = "0.3" => d.profile \in {"none", "base"}
    /\ \A c \in AllConditions(d) : \A n \in Nested(c, 0) : Sound(d, o, n[1], n[2])
    /\ \A i \in DOMAIN d.exceptions : ShapedException(d.exceptions[i])
    /\ \A seq \in {d.outcomes, d.rules, d.requirements, d.exceptions} : Distinct(seq)
    /\ OutcomesNamed(d) \subseteq Ids(d.outcomes) /\ RulesNamed(d) \subseteq Ids(d.rules)
    /\ \A i \in DOMAIN d.rules : d.rules[i].evidenceRefs \subseteq Ids(d.requirements)
    /\ ValuesSound(d, o) /\ IsInjective(d.required)
    /\ Range(d.required) \ {ValuesExtension} \subseteq d.extensions

ProfileRefused(d, o) ==
    /\ d.carrier = "ok" /\ d.object /\ d.version = "0.3" /\ d.profile \in {"none", "base", "extended"}
    /\ d.profile = "extended" \/ (o.profiles # Unset /\ "base" \notin o.profiles)
ProfileIllFormed(d) ==
    d.carrier = "ok" /\ d.object /\ d.version = "0.3" /\ d.profile \notin {"none", "base", "extended"}

(* Each in its place, with the class it is reported as.                    *)
Faults(d, r) ==
    LET o == r.options
    IN  << <<TwoDrafts(o), "none">>,
           <<d.over \/ "pack" \in r.oversized, "pack-not-conformant">>,
           <<ProfileRefused(d, o), "none">>,
           <<ProfileIllFormed(d), "pack-not-conformant">>,
           <<Drafted(o) /\ o.version # "0.2", "none">>,
           <<~Conforms(d, o), "pack-not-conformant">>,
           <<o.version \notin Contracts, "none">>,
           <<d.version # o.version, "pack-not-conformant">>,
           <<Input(r, "facts", r.facts.form) # NoFailure, "malformed-input">>,
           <<Evidence(r, d) # NoFailure, "malformed-input">>,
           <<~(Range(d.required) \ {x \in {ValuesExtension} : o.values} \subseteq o.supported),
             "unsupported-required-extension">>,
           <<Conforms(d, o) /\ Comparisons(r, d) # NoFailure, "none">> >>

Tells(d, r, answer) ==
    LET faults == Faults(d, r)
        found == {n \in DOMAIN faults : faults[n][1]}
    IN  CASE r.kind = "admits" ->
               ~d.over => (answer.answer = "admits" <=> found \cap {1, 3, 4, 5, 6, 7, 8, 11} = {})
          [] r.kind = "evaluate" /\ found = {} -> answer.answer = "evaluated" /\ answer.root = d
          [] OTHER -> answer.answer = "refused" /\ answer.failure.class = faults[Min(found)][2]

(* Every answer is the one the pack as it was handed in has for that call: *)
(* no admission is kept for other capabilities than it was made under, no  *)
(* later write to the bytes is seen, no reference of an evaluated pack is  *)
(* left open by what a draft's projection drops, and of several faults the *)
(* first in the contract's order is reported.  What is kept is bounded.    *)
AdmissionTrue ==
    /\ \A c \in Caller : calls[c].pc = "done" => Tells(given, calls[c].request, calls[c].result)
    /\ Cardinality(DOMAIN admissions) <= MaxAdmissions
=============================================================================
