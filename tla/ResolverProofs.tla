--------------------------- MODULE ResolverProofs ---------------------------
(***************************************************************************)
(* The walk of module Resolver answers what the pack declares, for every   *)
(* pack, situation, opt-in and budget.  The invariant says of each step of *)
(* the walk what it has gathered: the effects of the members before the    *)
(* one it is at, as the same sets the declaration takes of all of them,    *)
(* and what that has cost.                                                 *)
(***************************************************************************)
EXTENDS Resolver, FiniteSetTheorems, SequenceTheorems, WellFoundedInduction, TLAPS

Input == [pack : Packs, situation : Situation, outcomeValues : BOOLEAN, budget : Budgets]

(* The members before the one at place n.                                  *)
Before(seq, n) == {seq[j] : j \in 1..(n - 1)}

Required(p, s) ==
    CASE RequiredIn(p, s, "false") # {} -> {"missing-required-evidence"}
      [] RequiredIn(p, s, "false") = {} /\ RequiredIn(p, s, "unknown") # {} -> {"unknown"}
      [] OTHER -> {}

Gathered(S) ==
    /\ forced = Outcomes(With(Holding(S, situation, "true"), "force-outcome"))
    /\ suppressed = {x.targetRule : x \in With(Holding(S, situation, "true"), "suppress-rule")}
    /\ direct <=> (With(Holding(S, situation, "true"), "escalate") # {})
    /\ reasons = Required(pack, situation)
                 \cup {r \in {"unknown"} : Escalating(Holding(S, situation, "unknown")) # {}}
                 \cup {r \in {"exception-escalation"} : direct}

LiveOf(S) == {x \in S : x.id \notin suppressed}
Proposing(S) ==
    /\ candidates = Outcomes(Holding(LiveOf(S), situation, "true"))
    /\ reasons = {r \in {"unknown"} : Escalating(Holding(LiveOf(S), situation, "unknown")) # {}}

Blank == reasons = {} /\ direct = FALSE /\ suppressed = {} /\ forced = {} /\ candidates = {}

AtStart == pc \in {"begin", "applicability"} => Blank /\ complete = TRUE
AtRequirements ==
    pc = "requirements" => Blank /\ complete = TRUE /\ Applies(pack, situation) = "true"
AtExceptions ==
    pc = "exceptions" =>
        /\ Applies(pack, situation) = "true"
        /\ at <= Len(pack.exceptions) + 1
        /\ Gathered(Before(pack.exceptions, at))
        /\ IsFiniteSet(forced) /\ forced \subseteq Outcome
        /\ candidates = {} /\ complete = TRUE
AtRules ==
    pc = "rules" =>
        /\ Applies(pack, situation) = "true"
        /\ Blocking(pack, situation) = {} /\ Forcing(pack, situation) = {}
        /\ suppressed = Suppressing(pack, situation)
        /\ direct = FALSE
        /\ at <= Len(pack.rules) + 1
        /\ Proposing(Before(pack.rules, at))
        /\ IsFiniteSet(candidates) /\ candidates \subseteq Outcome
        /\ complete = TRUE
AtValues ==
    pc \in {"declaration", "values"} =>
        /\ in.outcomeValues /\ chosen \in Outcome
        /\ direct = FALSE /\ Asking(pack, situation) = FALSE
        /\ Declared(pack, situation, TRUE) = Yield(pack, situation, TRUE, chosen)
        /\ pc = "declaration" => complete = TRUE
        /\ pc = "values" =>
             /\ at <= Len(Sources(pack, chosen)) + 1
             /\ complete <=> (\A j \in 1..(at - 1) : situation[Sources(pack, chosen)[j]] = "true")

WalkInv ==
    /\ in \in Input
    /\ TypeOK
    /\ AtStart /\ AtRequirements /\ AtExceptions /\ AtRules /\ AtValues
    /\ ResultDeclared

-----------------------------------------------------------------------------
(* Taking one more member.                                                 *)

(* Nothing stands before the first member.                                 *)
LEMMA BeforeFirst == \A seq : Before(seq, 1) = {}
  BY DEF Before

(* One place on, one member more stands before.                            *)
LEMMA BeforeNext ==
    ASSUME NEW seq, NEW n \in Nat \ {0}
    PROVE  Before(seq, n + 1) = Before(seq, n) \cup {seq[n]}
  <1>1. 1..((n + 1) - 1) = 1..(n - 1) \cup {n}
    OBVIOUS
  <1> QED BY <1>1 DEF Before

(* Past the end of a sequence all its members stand before.                *)
LEMMA BeforeAll ==
    ASSUME NEW S, NEW seq \in Seq(S), NEW n \in Nat, n = Len(seq) + 1
    PROVE  Before(seq, n) = Members(seq)
  <1>1. DOMAIN seq = 1..(n - 1)
    OBVIOUS
  <1> QED BY <1>1 DEF Before, Members

(* A member is added exactly when its condition has the verdict.           *)
LEMMA OneMoreHeld ==
    ASSUME NEW S, NEW x, NEW s, NEW t
    PROVE  Holding(S \cup {x}, s, t) = Holding(S, s, t) \cup {y \in {x} : Verdict(x.when, s) = t}
  BY DEF Holding

(* The same for a true exception of one effect.                            *)
LEMMA OneMoreEffect ==
    ASSUME NEW S, NEW x, NEW s, NEW e
    PROVE  With(Holding(S \cup {x}, s, "true"), e)
               = With(Holding(S, s, "true"), e)
                 \cup {y \in {x} : Verdict(x.when, s) = "true" /\ x.effect = e}
  BY DEF Holding, With

(* force-outcome adds its outcome and nothing else does.                   *)
LEMMA OneMoreForced ==
    ASSUME NEW S, NEW x, NEW s
    PROVE  Outcomes(With(Holding(S \cup {x}, s, "true"), "force-outcome"))
               = Outcomes(With(Holding(S, s, "true"), "force-outcome"))
                 \cup {o \in {x.outcome} : Verdict(x.when, s) = "true" /\ x.effect = "force-outcome"}
  BY OneMoreEffect DEF Outcomes

(* suppress-rule adds its target and nothing else does.                    *)
LEMMA OneMoreSuppressed ==
    ASSUME NEW S, NEW x, NEW s
    PROVE  {y.targetRule : y \in With(Holding(S \cup {x}, s, "true"), "suppress-rule")}
               = {y.targetRule : y \in With(Holding(S, s, "true"), "suppress-rule")}
                 \cup {r \in {x.targetRule} : Verdict(x.when, s) = "true" /\ x.effect = "suppress-rule"}
  BY OneMoreEffect

(* A handoff is asked for before, or by this exception.                    *)
LEMMA OneMoreAsking ==
    ASSUME NEW S, NEW x, NEW s
    PROVE  (With(Holding(S \cup {x}, s, "true"), "escalate") # {})
               <=> \/ With(Holding(S, s, "true"), "escalate") # {}
                   \/ Verdict(x.when, s) = "true" /\ x.effect = "escalate"
  BY OneMoreEffect

(* An unknown that escalates stood before, or is this one.                 *)
LEMMA OneMoreUnknown ==
    ASSUME NEW S, NEW x, NEW s
    PROVE  (Escalating(Holding(S \cup {x}, s, "unknown")) # {})
               <=> \/ Escalating(Holding(S, s, "unknown")) # {}
                   \/ Verdict(x.when, s) = "unknown" /\ x.onUnknown = "escalate"
  <1>1. Escalating(Holding(S \cup {x}, s, "unknown"))
            = Escalating(Holding(S, s, "unknown"))
              \cup {y \in {x} : Verdict(x.when, s) = "unknown" /\ x.onUnknown = "escalate"}
    BY DEF Escalating, Holding
  <1> QED BY <1>1

(* A set that is not empty and has no two members is what CHOOSE takes.    *)
LEMMA OnlyMember ==
    ASSUME NEW S, IsFiniteSet(S), ~(Cardinality(S) > 1), NEW o \in S
    PROVE  (CHOOSE x \in S : TRUE) = o
  <1>1. Cardinality(S) \in Nat /\ Cardinality(S) # 0
    BY FS_CardinalityType, FS_EmptySet
  <1>2. Cardinality(S) = 1
    BY <1>1
  <1>3. \E x : S = {x}
    BY <1>2, FS_Singleton
  <1> QED BY <1>3

-----------------------------------------------------------------------------
(* What holds of every input.                                              *)

(* What the walk reads of its input, from the assumptions.                 *)
LEMMA PackFacts ==
    ASSUME in \in Input
    PROVE  /\ pack \in Packs /\ situation \in Situation /\ in.outcomeValues \in BOOLEAN
           /\ pack.exceptions \in Seq([id : Id, when : Cond, effect : Effect, targetRule : Id,
                                       outcome : Outcome \cup {NoOutcome}, onUnknown : Reaction])
           /\ pack.rules \in Seq([id : Id, when : Cond, outcome : Outcome, onUnknown : Reaction])
           /\ Len(pack.exceptions) \in Nat /\ Len(pack.rules) \in Nat
           /\ Applies(pack, situation) \in Tri
           /\ pack.fallback \in Outcome \cup {NoOutcome}
  <1>1. pack \in Packs /\ situation \in Situation /\ in.outcomeValues \in BOOLEAN
    BY DEF Input, pack, situation
  <1>2. Applies(pack, situation) \in Tri
    BY <1>1, PackAssumption, VerdictAssumption DEF Applies, Tri
  <1>3. pack.exceptions \in Seq([id : Id, when : Cond, effect : Effect, targetRule : Id,
                                 outcome : Outcome \cup {NoOutcome}, onUnknown : Reaction])
    BY <1>1, PackAssumption
  <1>4. pack.rules \in Seq([id : Id, when : Cond, outcome : Outcome, onUnknown : Reaction])
    BY <1>1, PackAssumption
  <1>5. Len(pack.exceptions) \in Nat
    BY <1>3, LenProperties
  <1>6. Len(pack.rules) \in Nat
    BY <1>4, LenProperties
  <1>7. pack.fallback \in Outcome \cup {NoOutcome}
    BY <1>1, PackAssumption
  <1> QED BY <1>1, <1>2, <1>3, <1>4, <1>5, <1>6, <1>7

(* The values of an outcome are a sequence of pointers.                    *)
LEMMA SourcesAreSequence ==
    ASSUME NEW p \in Packs, NEW o \in Outcome
    PROVE  Sources(p, o) \in Seq(Atom) /\ Len(Sources(p, o)) \in Nat
  BY PackAssumption DEF Sources

(* What is left to say when nothing blocks: the declared disposition.      *)
LEMMA DeclaredUnblocked ==
    ASSUME NEW p, NEW s, NEW carry, Applies(p, s) = "true"
    PROVE  /\ Blocking(p, s) # {} => Declared(p, s, carry) = Unresolved(p, s, Blocking(p, s))
           /\ Blocking(p, s) = {} => Declared(p, s, carry) = Unblocked(p, s, carry)
  BY DEF Declared

(* Where nothing blocks, no handoff is asked for.                          *)
LEMMA NothingBlocks ==
    ASSUME NEW p, NEW s, Blocking(p, s) = {}
    PROVE  Asking(p, s) = FALSE
  <1>1. Asking(p, s) \in BOOLEAN
    BY DEF Asking
  <1>2. Asking(p, s) => "exception-escalation" \in Blocking(p, s)
    BY DEF Blocking
  <1> QED BY <1>1, <1>2

(* The end of the exceptions: all of them were gathered.                   *)
LEMMA AllGathered ==
    ASSUME in \in Input, at \in Nat, at = Len(pack.exceptions) + 1, direct \in BOOLEAN,
           Gathered(Before(pack.exceptions, at))
    PROVE  /\ forced = Forcing(pack, situation)
           /\ suppressed = Suppressing(pack, situation)
           /\ direct = Asking(pack, situation)
           /\ reasons \cup {r \in {"conflict"} : Cardinality(forced) > 1} = Blocking(pack, situation)
  <1>1. Before(pack.exceptions, at) = Members(pack.exceptions)
    BY PackFacts, BeforeAll
  <1>2. forced = Forcing(pack, situation)
    BY <1>1 DEF Gathered, Forcing
  <1>3. suppressed = Suppressing(pack, situation)
    BY <1>1 DEF Gathered, Suppressing
  <1>4. direct = Asking(pack, situation)
    BY <1>1 DEF Gathered, Asking
  <1>5. reasons = Required(pack, situation)
                  \cup {r \in {"unknown"} : Escalating(Holding(Members(pack.exceptions), situation, "unknown")) # {}}
                  \cup {r \in {"exception-escalation"} : Asking(pack, situation)}
    BY <1>1, <1>4 DEF Gathered
  <1> QED BY <1>2, <1>3, <1>4, <1>5 DEF Blocking, Required

(* After the last rule it has the declared candidates and reasons.         *)
LEMMA AllProposed ==
    ASSUME in \in Input, at \in Nat, at = Len(pack.rules) + 1,
           suppressed = Suppressing(pack, situation),
           Proposing(Before(pack.rules, at))
    PROVE  /\ candidates = Proposed(pack, situation)
           /\ reasons \cup {r \in {"conflict"} : Cardinality(candidates) > 1} = Undecided(pack, situation)
  <1>1. Before(pack.rules, at) = Members(pack.rules)
    BY PackFacts, BeforeAll
  <1>2. LiveOf(Members(pack.rules)) = Live(pack, situation)
    BY DEF LiveOf, Live
  <1> QED BY <1>1, <1>2 DEF Proposing, Proposed, Undecided

-----------------------------------------------------------------------------
(* The steps.                                                              *)

(* The charge of the iteration gathers nothing.                            *)
LEMMA BeginKeeps == WalkInv /\ Begin => WalkInv'
  <1> SUFFICES ASSUME WalkInv, Begin PROVE WalkInv'
    OBVIOUS
  <1>1. in' = in /\ pc = "begin" /\ pc' \in {"applicability", "error"}
    BY DEF Begin, Refuse, Goto
  <1>2. TypeOK'
    BY <1>1 DEF WalkInv, TypeOK, Begin, Refuse, Goto
  <1>3. Blank' /\ complete' = TRUE
    BY <1>1 DEF WalkInv, AtStart, Blank, Begin
  <1> QED BY <1>1, <1>2, <1>3
          DEF WalkInv, AtStart, AtRequirements, AtExceptions, AtRules, AtValues, ResultDeclared

(* Step 1 ends in the declared disposition or goes on.                     *)
LEMMA ApplicabilityKeeps == WalkInv /\ Applicability => WalkInv'
  <1> SUFFICES ASSUME WalkInv, Applicability PROVE WalkInv'
    OBVIOUS
  <1>1. /\ in' = in /\ pc = "applicability" /\ complete' = TRUE
        /\ direct' = FALSE /\ direct = FALSE /\ suppressed' = {} /\ forced' = {} /\ candidates' = {}
        /\ at \in Nat \ {0} /\ disposition = NoDisposition
    BY DEF WalkInv, TypeOK, AtStart, Blank, Applicability
  <1>2. Applies(pack, situation) \in Tri
    BY PackFacts DEF WalkInv
  <1>3. CASE pc' = "error"
    <2>1. TypeOK'
      BY <1>1, <1>3 DEF TypeOK, Applicability, Refuse, Dispose, Goto, Disposition, NoDisposition
    <2> QED BY <1>1, <1>3, <2>1
            DEF WalkInv, AtStart, AtRequirements, AtExceptions, AtRules, AtValues, ResultDeclared
  <1>4. CASE Applies(pack, situation) = "true" /\ pc' # "error"
    <2>1. pc' = "requirements" /\ at' = 1 /\ reasons' = {} /\ disposition' = disposition
      BY <1>4 DEF Applicability, Applies, Refuse, Goto
    <2>2. direct' \in BOOLEAN
      BY <1>1, Zenon
    <2>3. TypeOK'
      BY <1>1, <2>1, <2>2 DEF TypeOK
    <2> QED BY <1>1, <1>4, <2>1, <2>3
            DEF WalkInv, AtStart, AtRequirements, AtExceptions, AtRules, AtValues, ResultDeclared,
                Blank, pack, situation, Applies
  <1>5. CASE Applies(pack, situation) # "true" /\ pc' # "error"
    <2>1. /\ pc' = "done" /\ at' = at
          /\ disposition' = Declared(pack, situation, in.outcomeValues)
      BY <1>1, <1>2, <1>5 DEF Applicability, Applies, Refuse, Dispose, Declared, Tri
    <2>2. disposition' # NoDisposition
      BY <1>1, <1>2, <1>5 DEF Applicability, Applies, Refuse, Dispose, Disposition, NoDisposition, Tri
    <2>3. TypeOK'
      BY <1>1, <2>1, <2>2 DEF TypeOK
    <2>4. ResultDeclared'
      BY <1>1, <2>1 DEF ResultDeclared, pack, situation
    <2> QED BY <1>1, <2>1, <2>3, <2>4
            DEF WalkInv, AtStart, AtRequirements, AtExceptions, AtRules, AtValues
  <1> QED BY <1>3, <1>4, <1>5

(* Step 2 retains what the requirements declare.                           *)
LEMMA RequirementsKeeps == WalkInv /\ Requirements => WalkInv'
  <1> SUFFICES ASSUME WalkInv, Requirements PROVE WalkInv'
    OBVIOUS
  <1>1. /\ in' = in /\ pc = "requirements" /\ complete' = TRUE /\ pc' = "exceptions" /\ at' = 1
        /\ direct' = FALSE /\ suppressed' = {} /\ forced' = {} /\ candidates' = {}
        /\ disposition' = disposition /\ disposition = NoDisposition
        /\ Applies(pack, situation) = "true"
        /\ reasons' = Required(pack, situation)
    BY DEF WalkInv, TypeOK, AtRequirements, Blank, Requirements, Goto, Required
  <1>a. direct' \in BOOLEAN /\ ~direct'
    BY <1>1, Zenon
  <1>2. TypeOK'
    BY <1>1, <1>a DEF TypeOK
  <1>4. Before(pack.exceptions, 1) = {} /\ pack' = pack /\ situation' = situation
    BY <1>1, BeforeFirst DEF pack, situation
  <1>b. /\ Holding({}, situation, "true") = {} /\ Holding({}, situation, "unknown") = {}
        /\ Outcomes({}) = {} /\ Escalating({}) = {} /\ \A e : With({}, e) = {}
    BY DEF Holding, Outcomes, Escalating, With
  <1>c. reasons' = Required(pack, situation)'
    BY <1>1, <1>4 DEF Required, RequiredIn
  <1>3. Gathered(Before(pack.exceptions, at))'
    BY <1>1, <1>a, <1>4, <1>b, <1>c DEF Gathered
  <1>5. Len(pack.exceptions) \in Nat
    BY PackFacts DEF WalkInv
  <1>6. AtExceptions'
    BY <1>1, <1>3, <1>4, <1>5, FS_EmptySet DEF AtExceptions, Applies
  <1> QED BY <1>1, <1>2, <1>6
          DEF WalkInv, AtStart, AtRequirements, AtRules, AtValues, ResultDeclared

(* Steps 3 and 4 gather the effect of one exception more.                  *)
LEMMA ExceptionKeeps == WalkInv /\ EvaluateException => WalkInv'
  <1> SUFFICES ASSUME WalkInv, EvaluateException PROVE WalkInv'
    OBVIOUS
  <1> DEFINE x == pack.exceptions[at]
             t == Verdict(x.when, situation)
             S == Before(pack.exceptions, at)
  <1>1. /\ in' = in /\ pc = "exceptions" /\ at <= Len(pack.exceptions) /\ at \in Nat \ {0}
        /\ candidates' = {} /\ complete' = TRUE /\ direct \in BOOLEAN
        /\ disposition = NoDisposition
        /\ Gathered(S) /\ IsFiniteSet(forced) /\ forced \subseteq Outcome
        /\ Applies(pack, situation) = "true"
    BY DEF WalkInv, TypeOK, AtExceptions, EvaluateException
  <1>2. pack' = pack /\ situation' = situation
    BY <1>1 DEF pack, situation
  <1>3. Len(pack.exceptions) \in Nat /\ at \in DOMAIN pack.exceptions /\ pack \in Packs
    BY <1>1, PackFacts DEF WalkInv
  <1>4. CASE pc' = "error"
    <2>1. disposition' = NoDisposition /\ direct' = direct /\ at' = at
      BY <1>1, <1>4 DEF EvaluateException, Refuse
    <2>2. TypeOK'
      BY <1>1, <1>4, <2>1 DEF TypeOK
    <2> QED BY <1>1, <1>4, <2>2
            DEF WalkInv, AtStart, AtRequirements, AtExceptions, AtRules, AtValues, ResultDeclared
  <1>5. CASE pc' # "error"
    <2>1. /\ pc' = "exceptions" /\ at' = at + 1 /\ disposition' = disposition
          /\ direct' = (direct \/ (t = "true" /\ x.effect = "escalate"))
          /\ suppressed' = suppressed \cup {r \in {x.targetRule} : t = "true" /\ x.effect = "suppress-rule"}
          /\ forced' = forced \cup {o \in {x.outcome} : t = "true" /\ x.effect = "force-outcome"}
          /\ reasons' = reasons \cup ({r \in {"unknown"} : t = "unknown" /\ x.onUnknown = "escalate"}
                        \cup {r \in {"exception-escalation"} : t = "true" /\ x.effect = "escalate"})
      BY <1>1, <1>5 DEF EvaluateException, Refuse
    <2>2. direct' \in BOOLEAN
      BY <2>1, Zenon
    <2>3. TypeOK'
      BY <1>1, <2>1, <2>2 DEF TypeOK
    <2>4. Before(pack.exceptions, at)' = S \cup {x}
      BY <1>1, <1>2, <2>1, BeforeNext
    <2>5. forced' = Outcomes(With(Holding(S \cup {x}, situation, "true"), "force-outcome"))
      BY <1>1, <2>1, OneMoreForced DEF Gathered
    <2>6. suppressed' = {y.targetRule : y \in With(Holding(S \cup {x}, situation, "true"), "suppress-rule")}
      BY <1>1, <2>1, OneMoreSuppressed DEF Gathered
    <2>7. direct' <=> With(Holding(S \cup {x}, situation, "true"), "escalate") # {}
      BY <1>1, <2>1, OneMoreAsking DEF Gathered
    <2>8. reasons' = Required(pack, situation)
                 \cup {r \in {"unknown"} : Escalating(Holding(S \cup {x}, situation, "unknown")) # {}}
                 \cup {r \in {"exception-escalation"} : direct'}
      <3>1. reasons = Required(pack, situation)
                 \cup {r \in {"unknown"} : Escalating(Holding(S, situation, "unknown")) # {}}
                 \cup {r \in {"exception-escalation"} : direct}
        BY <1>1 DEF Gathered
      <3>2. direct' <=> (direct \/ (t = "true" /\ x.effect = "escalate"))
        BY <2>1
      <3> HIDE DEF x, t, S
      <3>3. (Escalating(Holding(S \cup {x}, situation, "unknown")) # {})
              <=> \/ Escalating(Holding(S, situation, "unknown")) # {}
                  \/ t = "unknown" /\ x.onUnknown = "escalate"
        BY OneMoreUnknown DEF t
      <3> QED BY <2>1, <3>1, <3>2, <3>3
    <2>9. Required(pack, situation)' = Required(pack, situation)
      BY <1>2 DEF Required, RequiredIn
    <2>10. Gathered(Before(pack.exceptions, at))'
      <3> HIDE DEF x, t, S
      <3> QED BY <1>2, <2>4, <2>5, <2>6, <2>7, <2>8, <2>9 DEF Gathered
    <2>11. IsFiniteSet(forced') /\ forced' \subseteq Outcome
      <3>1. forced' = forced \/ forced' = forced \cup {x.outcome}
        BY <2>1
      <3>2. x.effect = "force-outcome" => x.outcome \in Outcome
        BY <1>3, PackAssumption
      <3> QED BY <1>1, <2>1, <3>1, <3>2, FS_AddElement
    <2>12. AtExceptions'
      <3> HIDE DEF x, t, S
      <3>1. at' <= Len(pack.exceptions) + 1
        BY <1>1, <1>3, <2>1
      <3>2. Applies(pack, situation)' = "true"
        BY <1>1, <1>2 DEF Applies
      <3> QED BY <1>1, <1>2, <2>10, <2>11, <3>1, <3>2 DEF AtExceptions
    <2> QED BY <1>1, <2>1, <2>3, <2>12
            DEF WalkInv, AtStart, AtRequirements, AtRules, AtValues, ResultDeclared
  <1> QED BY <1>4, <1>5

(* produce, where the pack declares that this outcome is yielded.          *)
LEMMA ProduceKeeps ==
    ASSUME WalkInv, NEW o \in Outcome, Produce(o), in' = in,
           direct = FALSE, direct' = direct, complete = TRUE, complete' = complete,
           Asking(pack, situation) = FALSE,
           Declared(pack, situation, in.outcomeValues) = Yield(pack, situation, in.outcomeValues, o),
           disposition = NoDisposition
    PROVE  WalkInv'
  <1>1. pack' = pack /\ situation' = situation /\ in.outcomeValues \in BOOLEAN
    BY PackFacts DEF WalkInv, pack, situation
  <1>2. direct' \in BOOLEAN
    BY Zenon
  <1>3. CASE in.outcomeValues = TRUE
    <2>1. pc' = "declaration" /\ at' = 1 /\ disposition' = disposition /\ chosen' = o
      BY <1>3 DEF Produce, Goto
    <2>2. TypeOK'
      BY <1>2, <2>1 DEF TypeOK
    <2>3. Declared(pack, situation, TRUE)' = Yield(pack, situation, TRUE, chosen)'
      BY <1>1, <1>3, <2>1
    <2>4. AtValues'
      BY <1>1, <1>3, <2>1, <2>3 DEF AtValues, Asking
    <2> QED BY <2>1, <2>2, <2>4
            DEF WalkInv, AtStart, AtRequirements, AtExceptions, AtRules, ResultDeclared
  <1>4. CASE in.outcomeValues = FALSE
    <2>1. pc' = "done" /\ at' = at /\ disposition' = Disposition(pack, "outcome", o, {}, direct)
      BY <1>4 DEF Produce, Dispose
    <2>2. disposition' = Declared(pack, situation, in.outcomeValues)
      BY <1>4, <2>1 DEF Yield
    <2>3. disposition' # NoDisposition
      BY <2>1 DEF Disposition, NoDisposition
    <2>4. TypeOK'
      BY <1>2, <2>1, <2>3 DEF WalkInv, TypeOK
    <2>5. ResultDeclared'
      BY <1>1, <2>1, <2>2 DEF ResultDeclared
    <2> QED BY <2>1, <2>4, <2>5
            DEF WalkInv, AtStart, AtRequirements, AtExceptions, AtRules, AtValues
  <1> QED BY <1>1, <1>3, <1>4

(* Steps 5 and 6 dispose of what blocks, or produce the forced outcome.    *)
LEMMA CombineExceptionsKeeps == WalkInv /\ CombineExceptions => WalkInv'
  <1> SUFFICES ASSUME WalkInv, CombineExceptions PROVE WalkInv'
    OBVIOUS
  <1> DEFINE retained == reasons \cup {r \in {"conflict"} : Cardinality(forced) > 1}
  <1>1. /\ in' = in /\ pc = "exceptions" /\ at \in Nat \ {0}
        /\ at > Len(pack.exceptions) /\ at <= Len(pack.exceptions) + 1
        /\ direct \in BOOLEAN /\ direct' = direct /\ complete = TRUE /\ complete' = complete
        /\ suppressed' = suppressed /\ forced' = forced /\ candidates' = {}
        /\ disposition = NoDisposition
        /\ Gathered(Before(pack.exceptions, at)) /\ IsFiniteSet(forced) /\ forced \subseteq Outcome
        /\ Applies(pack, situation) = "true"
        /\ in \in Input
        /\ reasons' = retained
    BY DEF WalkInv, TypeOK, AtExceptions, CombineExceptions
  <1>2. pack' = pack /\ situation' = situation
    BY <1>1 DEF pack, situation
  <1>3. at = Len(pack.exceptions) + 1
    BY <1>1, PackFacts
  <1>4. /\ forced = Forcing(pack, situation) /\ suppressed = Suppressing(pack, situation)
        /\ direct = Asking(pack, situation) /\ retained = Blocking(pack, situation)
    BY <1>1, <1>3, AllGathered
  <1>5. CASE retained # {}
    <2>1. /\ pc' = "done" /\ at' = at
          /\ disposition' = Disposition(pack, "unresolved", NoOutcome, retained, direct)
      BY <1>5 DEF CombineExceptions, Dispose
    <2>2. disposition' = Declared(pack, situation, in.outcomeValues)
      <3> HIDE DEF retained
      <3> QED BY <1>1, <1>4, <1>5, <2>1, DeclaredUnblocked DEF Unresolved
    <2>3. disposition' # NoDisposition
      BY <2>1 DEF Disposition, NoDisposition
    <2>4. TypeOK'
      BY <1>1, <2>1, <2>3 DEF TypeOK
    <2>5. ResultDeclared'
      BY <1>1, <1>2, <2>1, <2>2 DEF ResultDeclared
    <2> QED BY <1>1, <2>1, <2>4, <2>5
            DEF WalkInv, AtStart, AtRequirements, AtExceptions, AtRules, AtValues
  <1>6. CASE retained = {} /\ forced # {}
    <2>1. PICK o \in forced : Produce(o)
      BY <1>6 DEF CombineExceptions
    <2>2. ~(Cardinality(forced) > 1)
      BY <1>6
    <2>3. (CHOOSE u \in Forcing(pack, situation) : TRUE) = o
      BY <1>1, <1>4, <2>1, <2>2, OnlyMember
    <2>4. Asking(pack, situation) = FALSE
      BY <1>4, <1>6, NothingBlocks
    <2>5. Declared(pack, situation, in.outcomeValues) = Yield(pack, situation, in.outcomeValues, o)
      <3>1. Declared(pack, situation, in.outcomeValues) = Unblocked(pack, situation, in.outcomeValues)
        BY <1>1, <1>4, <1>6, DeclaredUnblocked
      <3> QED BY <1>4, <1>6, <2>3, <3>1 DEF Unblocked
    <2>6. o \in Outcome /\ direct = FALSE
      BY <1>1, <1>4, <2>1, <2>4
    <2> QED BY <1>1, <2>1, <2>4, <2>5, <2>6, ProduceKeeps
  <1>7. CASE retained = {} /\ forced = {}
    <2>1. pc' = "rules" /\ at' = 1 /\ disposition' = disposition
      BY <1>7 DEF CombineExceptions, Goto
    <2>2. TypeOK'
      BY <1>1, <2>1 DEF TypeOK
    <2>3. Asking(pack, situation) = FALSE
      BY <1>4, <1>7, NothingBlocks
    <2>4. Before(pack.rules, at)' = {}
      BY <1>2, <2>1, BeforeFirst
    <2>5. Proposing({})'
      BY <1>1, <1>7 DEF Proposing, LiveOf, Holding, Outcomes, Escalating
    <2>6. Len(pack.rules) \in Nat
      BY <1>1, PackFacts
    <2>7. AtRules'
      <3> HIDE DEF retained
      <3>1. Proposing(Before(pack.rules, at))'
        BY <2>4, <2>5 DEF Proposing, LiveOf
      <3>2. /\ Applies(pack, situation)' = "true" /\ Blocking(pack, situation)' = {}
            /\ Forcing(pack, situation)' = {} /\ suppressed' = Suppressing(pack, situation)'
        BY <1>1, <1>2, <1>4, <1>7
      <3>3. direct' = FALSE
        BY <1>1, <1>4, <2>3
      <3> QED BY <1>1, <1>2, <2>1, <2>6, <3>1, <3>2, <3>3, FS_EmptySet DEF AtRules
    <2> QED BY <1>1, <2>1, <2>2, <2>7
            DEF WalkInv, AtStart, AtRequirements, AtExceptions, AtValues, ResultDeclared
  <1> QED BY <1>5, <1>6, <1>7

(* A suppressed rule adds nothing.                                         *)
LEMMA SkipRuleKeeps == WalkInv /\ SkipRule => WalkInv'
  <1> SUFFICES ASSUME WalkInv, SkipRule PROVE WalkInv'
    OBVIOUS
  <1> DEFINE x == pack.rules[at]
             S == Before(pack.rules, at)
  <1>1. /\ in' = in /\ pc = "rules" /\ pc' = pc /\ at \in Nat \ {0} /\ at <= Len(pack.rules)
        /\ at' = at + 1 /\ x.id \in suppressed
        /\ UNCHANGED <<reasons, direct, suppressed, forced, candidates, chosen, complete, disposition>>
        /\ in \in Input
    BY DEF WalkInv, TypeOK, AtRules, SkipRule
  <1>2. pack' = pack /\ situation' = situation /\ Len(pack.rules) \in Nat
    BY <1>1, PackFacts DEF pack, situation
  <1>3. TypeOK'
    BY <1>1 DEF WalkInv, TypeOK
  <1>4. Before(pack.rules, at)' = S \cup {x}
    BY <1>1, <1>2, BeforeNext
  <1>5. LiveOf(S \cup {x}) = LiveOf(S)
    BY <1>1 DEF LiveOf
  <1>6. Proposing(S)
    BY <1>1 DEF WalkInv, AtRules
  <1>7. Proposing(Before(pack.rules, at))'
    <2> HIDE DEF S, x
    <2>1. LiveOf(Before(pack.rules, at))' = LiveOf(S)
      BY <1>1, <1>4, <1>5 DEF LiveOf
    <2> QED BY <1>1, <1>2, <1>6, <2>1 DEF Proposing
  <1>8. AtRules'
    <2> HIDE DEF S, x
    <2>1. at' <= Len(pack.rules)' + 1
      BY <1>1, <1>2
    <2> QED BY <1>1, <1>2, <1>7, <2>1 DEF WalkInv, AtRules
  <1> QED BY <1>1, <1>3, <1>8
          DEF WalkInv, AtStart, AtRequirements, AtExceptions, AtValues, ResultDeclared

(* Steps 7 and 8 gather the candidate of one rule more.                    *)
LEMMA RuleKeeps == WalkInv /\ EvaluateRule => WalkInv'
  <1> SUFFICES ASSUME WalkInv, EvaluateRule PROVE WalkInv'
    OBVIOUS
  <1> DEFINE x == pack.rules[at]
             t == Verdict(x.when, situation)
             S == Before(pack.rules, at)
  <1>1. /\ in' = in /\ pc = "rules" /\ at \in Nat \ {0} /\ at <= Len(pack.rules)
        /\ x.id \notin suppressed /\ direct \in BOOLEAN
        /\ UNCHANGED <<direct, suppressed, forced, chosen, complete>>
        /\ disposition = NoDisposition /\ in \in Input
        /\ Proposing(S) /\ IsFiniteSet(candidates) /\ candidates \subseteq Outcome
    BY DEF WalkInv, TypeOK, AtRules, EvaluateRule
  <1>2. pack' = pack /\ situation' = situation /\ Len(pack.rules) \in Nat
    BY <1>1, PackFacts DEF pack, situation
  <1>3. CASE pc' = "error"
    <2>1. disposition' = NoDisposition /\ at' = at
      BY <1>1, <1>3 DEF EvaluateRule, Refuse
    <2>2. TypeOK'
      BY <1>1, <1>3, <2>1 DEF TypeOK
    <2> QED BY <1>1, <1>3, <2>2
            DEF WalkInv, AtStart, AtRequirements, AtExceptions, AtRules, AtValues, ResultDeclared
  <1>4. CASE pc' # "error"
    <2>1. /\ pc' = pc /\ at' = at + 1 /\ disposition' = disposition
          /\ candidates' = candidates \cup {o \in {x.outcome} : t = "true"}
          /\ reasons' = reasons \cup {r \in {"unknown"} : t = "unknown" /\ x.onUnknown = "escalate"}
      BY <1>4 DEF EvaluateRule, Refuse
    <2>2. TypeOK'
      BY <1>1, <2>1 DEF TypeOK
    <2>3. Before(pack.rules, at)' = S \cup {x}
      BY <1>1, <1>2, <2>1, BeforeNext
    <2>4. LiveOf(S \cup {x}) = LiveOf(S) \cup {x}
      BY <1>1 DEF LiveOf
    <2>5. candidates' = Outcomes(Holding(LiveOf(S) \cup {x}, situation, "true"))
      <3> HIDE DEF x, t, S
      <3>1. Holding(LiveOf(S) \cup {x}, situation, "true")
              = Holding(LiveOf(S), situation, "true") \cup {y \in {x} : t = "true"}
        BY DEF Holding, t
      <3>2. Outcomes(Holding(LiveOf(S), situation, "true") \cup {y \in {x} : t = "true"})
              = Outcomes(Holding(LiveOf(S), situation, "true")) \cup {o \in {x.outcome} : t = "true"}
        BY DEF Outcomes
      <3> QED BY <1>1, <2>1, <3>1, <3>2 DEF Proposing
    <2>6. reasons' = {r \in {"unknown"} : Escalating(Holding(LiveOf(S) \cup {x}, situation, "unknown")) # {}}
      <3>1. (Escalating(Holding(LiveOf(S) \cup {x}, situation, "unknown")) # {})
              <=> \/ Escalating(Holding(LiveOf(S), situation, "unknown")) # {}
                  \/ t = "unknown" /\ x.onUnknown = "escalate"
        BY OneMoreUnknown
      <3> HIDE DEF x, t, S
      <3> QED BY <1>1, <2>1, <3>1 DEF Proposing
    <2>7. Proposing(Before(pack.rules, at))'
      <3> HIDE DEF x, t, S
      <3>1. LiveOf(Before(pack.rules, at))' = LiveOf(S) \cup {x}
        BY <1>1, <2>3, <2>4 DEF LiveOf
      <3> QED BY <1>2, <2>5, <2>6, <3>1 DEF Proposing
    <2>8. IsFiniteSet(candidates') /\ candidates' \subseteq Outcome
      <3>1. candidates' = candidates \/ candidates' = candidates \cup {x.outcome}
        BY <2>1
      <3>2. x.outcome \in Outcome
        <4>1. pack.rules \in Seq([id : Id, when : Cond, outcome : Outcome, onUnknown : Reaction])
          BY <1>1, PackFacts
        <4>2. at \in 1..Len(pack.rules)
          BY <1>1, <1>2
        <4>3. \A T, q : q \in Seq(T) => \A n \in 1..Len(q) : q[n] \in T
          BY ElementOfSeq
        <4>4. x \in [id : Id, when : Cond, outcome : Outcome, onUnknown : Reaction]
          BY <4>1, <4>2, <4>3, Zenon DEF x
        <4> HIDE DEF x
        <4> QED BY <4>4
      <3> QED BY <1>1, <3>1, <3>2, FS_AddElement
    <2>9. AtRules'
      <3> HIDE DEF x, t, S
      <3>1. at' <= Len(pack.rules)' + 1
        BY <1>1, <1>2, <2>1
      <3> QED BY <1>1, <1>2, <2>1, <2>7, <2>8, <3>1 DEF WalkInv, AtRules
    <2> QED BY <1>1, <2>1, <2>2, <2>9
            DEF WalkInv, AtStart, AtRequirements, AtExceptions, AtValues, ResultDeclared
  <1> QED BY <1>3, <1>4

(* Steps 9 and 10 come to the declared disposition.                        *)
LEMMA CombineRulesKeeps == WalkInv /\ CombineRules => WalkInv'
  <1> SUFFICES ASSUME WalkInv, CombineRules PROVE WalkInv'
    OBVIOUS
  <1> DEFINE retained == reasons \cup {r \in {"conflict"} : Cardinality(candidates) > 1}
  <1>1. /\ in' = in /\ pc = "rules" /\ at \in Nat \ {0}
        /\ at > Len(pack.rules) /\ at <= Len(pack.rules) + 1
        /\ direct = FALSE /\ direct' = direct /\ complete = TRUE /\ complete' = complete
        /\ disposition = NoDisposition /\ in \in Input
        /\ Proposing(Before(pack.rules, at)) /\ IsFiniteSet(candidates) /\ candidates \subseteq Outcome
        /\ suppressed = Suppressing(pack, situation)
        /\ Applies(pack, situation) = "true"
        /\ Blocking(pack, situation) = {} /\ Forcing(pack, situation) = {}
    BY DEF WalkInv, TypeOK, AtRules, CombineRules
  <1>2. pack' = pack /\ situation' = situation
    BY <1>1 DEF pack, situation
  <1>3. at = Len(pack.rules) + 1
    BY <1>1, PackFacts
  <1>4. candidates = Proposed(pack, situation) /\ retained = Undecided(pack, situation)
    BY <1>1, <1>3, AllProposed
  <1>5. Asking(pack, situation) = FALSE /\ direct' \in BOOLEAN
    BY <1>1, NothingBlocks, Zenon
  <1>6. Declared(pack, situation, in.outcomeValues) = Unblocked(pack, situation, in.outcomeValues)
    BY <1>1, DeclaredUnblocked
  <1> HIDE DEF retained
  <1>7. ASSUME NEW why, pc' = "done", at' = at,
               disposition' = Disposition(pack, "unresolved", NoOutcome, why, direct),
               Unblocked(pack, situation, in.outcomeValues) = Unresolved(pack, situation, why)
        PROVE  WalkInv'
    <2>1. disposition' = Declared(pack, situation, in.outcomeValues)
      BY <1>1, <1>5, <1>6, <1>7 DEF Unresolved
    <2>2. disposition' # NoDisposition
      BY <1>7 DEF Disposition, NoDisposition
    <2>3. TypeOK'
      BY <1>1, <1>5, <1>7, <2>2 DEF TypeOK
    <2>4. ResultDeclared'
      BY <1>1, <1>2, <1>7, <2>1 DEF ResultDeclared
    <2> QED BY <1>1, <1>7, <2>3, <2>4
            DEF WalkInv, AtStart, AtRequirements, AtExceptions, AtRules, AtValues
  <1>8. CASE retained # {}
    <2>1. /\ pc' = "done" /\ at' = at
          /\ disposition' = Disposition(pack, "unresolved", NoOutcome, retained, direct)
      BY <1>8 DEF CombineRules, Dispose, retained
    <2>2. Unblocked(pack, situation, in.outcomeValues) = Unresolved(pack, situation, retained)
      BY <1>1, <1>4, <1>8 DEF Unblocked
    <2> QED BY <1>7, <2>1, <2>2
  <1>9. CASE retained = {} /\ candidates # {}
    <2>1. PICK o \in candidates : Produce(o)
      BY <1>9 DEF CombineRules, retained
    <2>2. ~(Cardinality(candidates) > 1)
      BY <1>9 DEF retained
    <2>3. (CHOOSE u \in Proposed(pack, situation) : TRUE) = o
      BY <1>1, <1>4, <2>1, <2>2, OnlyMember
    <2>4. Declared(pack, situation, in.outcomeValues) = Yield(pack, situation, in.outcomeValues, o)
      BY <1>1, <1>4, <1>6, <1>9, <2>3 DEF Unblocked
    <2> QED BY <1>1, <1>5, <2>1, <2>4, ProduceKeeps
  <1>10. CASE retained = {} /\ candidates = {} /\ pack.fallback # NoOutcome
    <2>1. Produce(pack.fallback)
      BY <1>10 DEF CombineRules, retained
    <2>2. pack.fallback \in Outcome
      BY <1>1, <1>10, PackFacts
    <2>3. Declared(pack, situation, in.outcomeValues) = Yield(pack, situation, in.outcomeValues, pack.fallback)
      BY <1>1, <1>4, <1>6, <1>10 DEF Unblocked
    <2> QED BY <1>1, <1>5, <2>1, <2>2, <2>3, ProduceKeeps
  <1>11. CASE retained = {} /\ candidates = {} /\ pack.fallback = NoOutcome
    <2>1. /\ pc' = "done" /\ at' = at
          /\ disposition' = Disposition(pack, "unresolved", NoOutcome, {"no-match"}, direct)
      BY <1>11 DEF CombineRules, Dispose, retained
    <2>2. Unblocked(pack, situation, in.outcomeValues) = Unresolved(pack, situation, {"no-match"})
      BY <1>1, <1>4, <1>11 DEF Unblocked
    <2> QED BY <1>7, <2>1, <2>2
  <1> QED BY <1>8, <1>9, <1>10, <1>11

(* Reading the declaration resolves no value yet.                          *)
LEMMA DeclarationKeeps == WalkInv /\ ReadDeclaration => WalkInv'
  <1> SUFFICES ASSUME WalkInv, ReadDeclaration PROVE WalkInv'
    OBVIOUS
  <1>1. /\ in' = in /\ pc = "declaration" /\ pc' \in {"values", "error"}
        /\ UNCHANGED <<direct, chosen, complete, disposition>> /\ in \in Input
        /\ disposition = NoDisposition /\ (pc' = "values" => at' = 1)
    BY DEF WalkInv, TypeOK, ReadDeclaration, Refuse, Goto
  <1>2. pack' = pack /\ situation' = situation
    BY <1>1 DEF pack, situation
  <1>3. TypeOK'
    BY <1>1 DEF WalkInv, TypeOK, ReadDeclaration, Refuse, Goto
  <1>4. Len(Sources(pack, chosen)) \in Nat
    BY <1>1, PackFacts, SourcesAreSequence DEF WalkInv, AtValues
  <1>5. ASSUME pc' = "values" PROVE AtValues'
    <2>1. /\ in.outcomeValues' /\ chosen' \in Outcome
          /\ direct' = FALSE /\ Asking(pack, situation)' = FALSE
          /\ Declared(pack, situation, TRUE)' = Yield(pack, situation, TRUE, chosen)'
      BY <1>1, <1>2 DEF WalkInv, AtValues
    <2>2. complete' /\ at' = 1 /\ 1..(at' - 1) = {}
      BY <1>1, <1>5 DEF WalkInv, AtValues
    <2>3. at' <= Len(Sources(pack, chosen))' + 1
      BY <1>1, <1>2, <1>4, <2>2
    <2>4. \A j \in 1..(at' - 1) : situation'[Sources(pack, chosen)'[j]] = "true"
      BY <2>2
    <2> QED BY <1>5, <2>1, <2>2, <2>3, <2>4 DEF AtValues
  <1>6. CASE pc' = "error"
    BY <1>1, <1>3, <1>6
       DEF WalkInv, AtStart, AtRequirements, AtExceptions, AtRules, AtValues, ResultDeclared
  <1> QED BY <1>1, <1>3, <1>5, <1>6
          DEF WalkInv, AtStart, AtRequirements, AtExceptions, AtRules, ResultDeclared

(* One value more is resolved, or the outcome is incomplete.               *)
LEMMA ValueKeeps == WalkInv /\ ResolveValue => WalkInv'
  <1> SUFFICES ASSUME WalkInv, ResolveValue PROVE WalkInv'
    OBVIOUS
  <1> DEFINE known == situation[Sources(pack, chosen)[at]] = "true"
  <1>1. /\ in' = in /\ pc = "values" /\ at \in Nat \ {0} /\ at <= Len(Sources(pack, chosen))
        /\ UNCHANGED <<direct, chosen, disposition>> /\ in \in Input
        /\ disposition = NoDisposition /\ chosen \in Outcome
        /\ \/ pc' = "error" /\ at' = at
           \/ pc' = "values" /\ at' = at + 1 /\ complete' = (complete /\ known)
    BY DEF WalkInv, TypeOK, AtValues, ResolveValue, Refuse
  <1>2. pack' = pack /\ situation' = situation
    BY <1>1 DEF pack, situation
  <1>3. TypeOK'
    BY <1>1 DEF WalkInv, TypeOK
  <1>4. Len(Sources(pack, chosen)) \in Nat
    BY <1>1, PackFacts, SourcesAreSequence
  <1>5. ASSUME pc' = "values" PROVE AtValues'
    <2>1. at' = at + 1 /\ (complete' <=> complete /\ known) /\ at' <= Len(Sources(pack, chosen)) + 1
      <3> HIDE DEF known
      <3>1. pc' = "values" /\ at' = at + 1 /\ complete' = (complete /\ known)
        BY <1>1, <1>5
      <3>2. complete' <=> complete /\ known
        BY <3>1, Zenon
      <3> QED BY <1>1, <1>4, <3>1, <3>2
    <2>2. 1..(at' - 1) = 1..(at - 1) \cup {at}
      BY <1>1, <2>1
    <2>3. complete <=> (\A j \in 1..(at - 1) : situation[Sources(pack, chosen)[j]] = "true")
      BY <1>1 DEF WalkInv, AtValues
    <2>4. complete' <=> (\A j \in 1..(at' - 1) : situation[Sources(pack, chosen)[j]] = "true")
      BY <2>1, <2>2, <2>3
    <2> QED BY <1>1, <1>2, <1>5, <2>1, <2>4 DEF WalkInv, AtValues
  <1>6. CASE pc' = "error"
    BY <1>1, <1>3, <1>6
       DEF WalkInv, AtStart, AtRequirements, AtExceptions, AtRules, AtValues, ResultDeclared
  <1>7. CASE pc' = "values"
    BY <1>1, <1>3, <1>5, <1>7
       DEF WalkInv, AtStart, AtRequirements, AtExceptions, AtRules, ResultDeclared
  <1> QED BY <1>1, <1>6, <1>7

(* The outcome is carried exactly when every value resolved.               *)
LEMMA CarryKeeps == WalkInv /\ CarryValues => WalkInv'
  <1> SUFFICES ASSUME WalkInv, CarryValues PROVE WalkInv'
    OBVIOUS
  <1>1. /\ in' = in /\ pc = "values" /\ pc' = "done" /\ at' = at /\ at \in Nat \ {0}
        /\ at > Len(Sources(pack, chosen)) /\ at <= Len(Sources(pack, chosen)) + 1
        /\ direct' = direct /\ direct = FALSE /\ Asking(pack, situation) = FALSE
        /\ in \in Input /\ chosen \in Outcome /\ in.outcomeValues
        /\ Declared(pack, situation, TRUE) = Yield(pack, situation, TRUE, chosen)
        /\ complete <=> (\A j \in 1..(at - 1) : situation[Sources(pack, chosen)[j]] = "true")
        /\ disposition' = IF complete THEN Disposition(pack, "outcome", chosen, {}, direct)
                          ELSE Disposition(pack, "unresolved", NoOutcome, {"unknown"}, direct)
    BY DEF WalkInv, TypeOK, AtValues, CarryValues, Dispose
  <1>2. pack' = pack /\ situation' = situation /\ in.outcomeValues = TRUE
    BY <1>1, PackFacts DEF pack, situation
  <1>3. Sources(pack, chosen) \in Seq(Atom) /\ Len(Sources(pack, chosen)) \in Nat
    BY <1>1, PackFacts, SourcesAreSequence
  <1>4. DOMAIN Sources(pack, chosen) = 1..(at - 1)
    BY <1>1, <1>3
  <1>5. disposition' = Declared(pack, situation, in.outcomeValues)
    BY <1>1, <1>2, <1>4 DEF Yield, Unresolved
  <1>6. disposition' # NoDisposition
    BY <1>1 DEF Disposition, NoDisposition
  <1>7. direct' \in BOOLEAN
    BY <1>1, Zenon
  <1>8. TypeOK'
    BY <1>1, <1>6, <1>7 DEF TypeOK
  <1>9. ResultDeclared'
    BY <1>1, <1>2, <1>5 DEF ResultDeclared
  <1> QED BY <1>1, <1>8, <1>9
          DEF WalkInv, AtStart, AtRequirements, AtExceptions, AtRules, AtValues

-----------------------------------------------------------------------------

(* The invariant holds of every step of the walk.                          *)
LEMMA WalkInvariant == Spec => []WalkInv
  <1>1. Init => WalkInv
    <2> SUFFICES ASSUME Init PROVE WalkInv
      OBVIOUS
    <2>1. /\ in \in Input /\ pc = "begin" /\ at = 1 /\ disposition = NoDisposition
          /\ Blank /\ complete = TRUE
      BY DEF Init, Start, Input, Blank
    <2>2. direct \in BOOLEAN
      BY <2>1, Zenon DEF Blank
    <2>3. TypeOK
      BY <2>1, <2>2 DEF TypeOK
    <2> QED BY <2>1, <2>3 DEF WalkInv, AtStart, AtRequirements, AtExceptions, AtRules, AtValues,
                              ResultDeclared
  <1>2. WalkInv /\ [Next]_vars => WalkInv'
    <2> SUFFICES ASSUME WalkInv, [Next]_vars PROVE WalkInv'
      OBVIOUS
    <2>1. CASE UNCHANGED vars
      BY <2>1 DEF vars, WalkInv, TypeOK, AtStart, AtRequirements, AtExceptions, AtRules, AtValues,
                  ResultDeclared, Blank, Gathered, Proposing, LiveOf, Required, pack, situation
    <2> QED BY <2>1, BeginKeeps, ApplicabilityKeeps, RequirementsKeeps, ExceptionKeeps,
               CombineExceptionsKeeps, SkipRuleKeeps, RuleKeeps, CombineRulesKeeps,
               DeclarationKeeps, ValueKeeps, CarryKeeps DEF Next
  <1> QED BY <1>1, <1>2, PTL DEF Spec

(* Every evaluation keeps its shape, and has a disposition exactly when    *)
(* the walk came to its end: a reached work limit reports none             *)
(* (resolve.go, limits.go).                                                *)
THEOREM WalkTypeCorrect == Spec => []TypeOK
  <1>1. WalkInv => TypeOK
    BY DEF WalkInv
  <1> QED BY <1>1, WalkInvariant, PTL

(* The disposition that resolve returns is the one the pack declares of    *)
(* the situation, for every pack, situation, opt-in and budget: no order   *)
(* of exceptions or rules decides it.                                      *)
THEOREM DispositionDeclared == Spec => []ResultDeclared
  <1>1. WalkInv => ResultDeclared
    BY DEF WalkInv
  <1> QED BY <1>1, WalkInvariant, PTL
-----------------------------------------------------------------------------
(* What is settled.                                                        *)

(* Where a sequence's members are known, one more makes it one longer.     *)
LEMMA OneMoreMember ==
    ASSUME NEW q, q \in Seq(Members(q)), NEW e
    PROVE  /\ Members(Append(q, e)) = Members(q) \cup {e}
           /\ Append(q, e) \in Seq(Members(Append(q, e)))
  <1> DEFINE S == Members(q) \cup {e}
  <1>1. q \in Seq(S) /\ Len(q) \in Nat /\ DOMAIN q = 1 .. Len(q)
    <2>1. \A n \in DOMAIN q : q[n] \in S
      BY DEF Members
    <2> QED BY <2>1
  <1>2. Append(q, e) \in Seq(S) /\ Len(Append(q, e)) = Len(q) + 1
        /\ Append(q, e)[Len(q) + 1] = e /\ \A n \in 1 .. Len(q) : Append(q, e)[n] = q[n]
    BY <1>1
  <1>3. DOMAIN Append(q, e) = 1 .. Len(q) + 1
    BY <1>2
  <1> HIDE DEF S
  <1>4. Members(Append(q, e)) = Members(q) \cup {e}
    BY <1>1, <1>2, <1>3 DEF Members
  <1> QED BY <1>2, <1>4 DEF S

(* And a sequence more, all of its members.                                *)
LEMMA MoreMembers ==
    ASSUME NEW q, q \in Seq(Members(q)), NEW r, r \in Seq(Members(r))
    PROVE  /\ Members(q \o r) = Members(q) \cup Members(r)
           /\ q \o r \in Seq(Members(q \o r))
  <1> DEFINE S == Members(q) \cup Members(r)
  <1>1. /\ q \in Seq(S) /\ Len(q) \in Nat /\ DOMAIN q = 1 .. Len(q)
        /\ r \in Seq(S) /\ Len(r) \in Nat /\ DOMAIN r = 1 .. Len(r)
    <2>1. \A n \in DOMAIN q : q[n] \in S
      BY DEF Members
    <2>2. \A n \in DOMAIN r : r[n] \in S
      BY DEF Members
    <2> QED BY <2>1, <2>2
  <1>2. q \o r \in Seq(S) /\ Len(q \o r) = Len(q) + Len(r)
    BY <1>1
  <1>3. \A n \in 1 .. Len(q) + Len(r) : (q \o r)[n] = IF n <= Len(q) THEN q[n] ELSE r[n - Len(q)]
    BY <1>1
  <1>4. DOMAIN (q \o r) = 1 .. Len(q) + Len(r)
    BY <1>1, <1>2
  <1> HIDE DEF S
  <1>5. \A m \in 1 .. Len(q) : m \in 1 .. Len(q) + Len(r) /\ (q \o r)[m] = q[m]
    BY <1>1, <1>3
  <1>6. \A m \in 1 .. Len(r) : Len(q) + m \in 1 .. Len(q) + Len(r) /\ (q \o r)[Len(q) + m] = r[m]
    <2> SUFFICES ASSUME NEW m \in 1 .. Len(r)
                 PROVE  Len(q) + m \in 1 .. Len(q) + Len(r) /\ (q \o r)[Len(q) + m] = r[m]
      OBVIOUS
    <2>1. Len(q) + m \in 1 .. Len(q) + Len(r) /\ ~(Len(q) + m <= Len(q)) /\ (Len(q) + m) - Len(q) = m
      BY <1>1
    <2> QED BY <1>3, <2>1
  <1>7. \A n \in 1 .. Len(q) + Len(r) : n \in 1 .. Len(q) \/ n - Len(q) \in 1 .. Len(r)
    BY <1>1
  <1>8. Members(q \o r) \subseteq Members(q) \cup Members(r)
    <2> SUFFICES ASSUME NEW n \in 1 .. Len(q) + Len(r)
                 PROVE  (q \o r)[n] \in Members(q) \cup Members(r)
      BY <1>4 DEF Members
    <2>1. CASE n \in 1 .. Len(q)
      BY <1>1, <1>5, <2>1 DEF Members
    <2>2. CASE n \notin 1 .. Len(q)
      <3>1. n - Len(q) \in 1 .. Len(r) /\ ~(n <= Len(q))
        BY <1>1, <1>7, <2>2
      <3>2. (q \o r)[n] = r[n - Len(q)]
        BY <1>3, <3>1
      <3> QED BY <1>1, <3>1, <3>2 DEF Members
    <2> QED BY <2>1, <2>2
  <1>9. Members(q) \cup Members(r) \subseteq Members(q \o r)
    BY <1>1, <1>4, <1>5, <1>6 DEF Members
  <1> QED BY <1>2, <1>8, <1>9 DEF S

(* Which outcome there is, where the exceptions block nothing.             *)
Yields(p, s) == Forcing(p, s) # {} \/ Proposed(p, s) # {} \/ p.fallback # NoOutcome
Yielded(p, s) ==
    CASE Forcing(p, s) # {} -> CHOOSE o \in Forcing(p, s) : TRUE
      [] Forcing(p, s) = {} /\ Proposed(p, s) # {} -> CHOOSE o \in Proposed(p, s) : TRUE
      [] OTHER -> p.fallback

Known(S, s) == Holding(S, s, "unknown") = {}
ExceptionsKnown(p, s) ==
    /\ Applies(p, s) = "true"
    /\ RequiredIn(p, s, "unknown") = {}
    /\ Known(Members(p.exceptions), s)
ValuesKnown(p, s, o) == \A i \in DOMAIN Sources(p, o) : s[Sources(p, o)[i]] = "true"
RulesKnown(p, s) == Forcing(p, s) = {} => Known(Live(p, s), s)

(* All that the disposition rests on is known.                             *)
AllKnown(p, s, carry) ==
    \/ Applies(p, s) = "false"
    \/ /\ ExceptionsKnown(p, s)
       /\ Blocking(p, s) = {} =>
            /\ RulesKnown(p, s)
            /\ carry /\ (Forcing(p, s) # {} \/ Undecided(p, s) = {}) /\ Yields(p, s)
                   => ValuesKnown(p, s, Yielded(p, s))

(* The members of a sequence are of its kind.                              *)
LEMMA MembersAre ==
    ASSUME NEW T, NEW q \in Seq(T) PROVE \A x \in Members(q) : x \in T
  <1>1. DOMAIN q = 1 .. Len(q) /\ \A n \in 1 .. Len(q) : q[n] \in T
    OBVIOUS
  <1> QED BY <1>1 DEF Members

(* A condition that is not unknown stands, so those that hold are the      *)
(* same.                                                                   *)
LEMMA HoldingStands ==
    ASSUME NEW S, \A x \in S : x.when \in Cond, NEW s \in Situation, NEW t \in Situation,
           Completes(s, t), Known(S, s)
    PROVE  \A v : Holding(S, t, v) = Holding(S, s, v)
  <1>1. \A x \in S : Verdict(x.when, s) # "unknown"
    BY DEF Known, Holding
  <1>2. \A x \in S : Verdict(x.when, t) = Verdict(x.when, s)
    BY <1>1, VerdictAssumption
  <1> QED BY <1>2 DEF Holding

(* Missing evidence too.                                                   *)
LEMMA RequiredStands ==
    ASSUME NEW p \in Packs, NEW s \in Situation, NEW t \in Situation, Completes(s, t),
           RequiredIn(p, s, "unknown") = {}
    PROVE  \A v : RequiredIn(p, t, v) = RequiredIn(p, s, v)
  <1>1. \A j \in DOMAIN p.requirements :
            p.requirements[j].required => s[p.requirements[j].id] # "unknown"
    BY DEF RequiredIn
  <1>2. \A j \in DOMAIN p.requirements :
            p.requirements[j].required => t[p.requirements[j].id] = s[p.requirements[j].id]
    <2>1. p.requirements \in Seq([id : Atom, required : BOOLEAN])
      BY PackAssumption
    <2>2. \A x \in Members(p.requirements) : x \in [id : Atom, required : BOOLEAN]
      BY <2>1, MembersAre, Zenon
    <2>3. \A x \in [id : Atom, required : BOOLEAN] : x.id \in Atom
      OBVIOUS
    <2>4. \A j \in DOMAIN p.requirements : p.requirements[j].id \in Atom
      BY <2>2, <2>3 DEF Members
    <2> QED BY <1>1, <2>4 DEF Completes
  <1> QED BY <1>2 DEF RequiredIn

(* The members of a pack have conditions.                                  *)
LEMMA MembersConditions ==
    ASSUME NEW p \in Packs
    PROVE  /\ \A x \in Members(p.exceptions) : x.when \in Cond
           /\ \A x \in Members(p.rules) : x.when \in Cond
  <1>1. p.exceptions \in Seq([id : Id, when : Cond, effect : Effect, targetRule : Id,
                              outcome : Outcome \cup {NoOutcome}, onUnknown : Reaction])
    BY PackAssumption
  <1>2. p.rules \in Seq([id : Id, when : Cond, outcome : Outcome, onUnknown : Reaction])
    BY PackAssumption
  <1>3. \A x \in Members(p.exceptions) :
            x \in [id : Id, when : Cond, effect : Effect, targetRule : Id,
                   outcome : Outcome \cup {NoOutcome}, onUnknown : Reaction]
    BY <1>1, MembersAre, Zenon
  <1>4. \A x \in Members(p.rules) : x \in [id : Id, when : Cond, outcome : Outcome, onUnknown : Reaction]
    BY <1>2, MembersAre, Zenon
  <1> QED BY <1>3, <1>4

(* What the pack declares, where nothing that counts is unknown, by the    *)
(* outcome it comes to.                                                    *)
LEMMA DeclaredYield ==
    ASSUME NEW p, NEW s, NEW carry, Applies(p, s) = "true", Blocking(p, s) = {}
    PROVE  Declared(p, s, carry) =
             IF Forcing(p, s) = {} /\ Undecided(p, s) # {} THEN Unresolved(p, s, Undecided(p, s))
             ELSE IF Yields(p, s) THEN Yield(p, s, carry, Yielded(p, s))
             ELSE Unresolved(p, s, {"no-match"})
  <1>1. Declared(p, s, carry) = Unblocked(p, s, carry)
    BY DeclaredUnblocked
  <1>2. CASE Forcing(p, s) # {}
    BY <1>1, <1>2 DEF Unblocked, Yields, Yielded
  <1>3. CASE Forcing(p, s) = {} /\ Undecided(p, s) # {}
    BY <1>1, <1>3 DEF Unblocked
  <1>4. CASE Forcing(p, s) = {} /\ Undecided(p, s) = {} /\ Proposed(p, s) # {}
    BY <1>1, <1>4 DEF Unblocked, Yields, Yielded
  <1>5. CASE Forcing(p, s) = {} /\ Undecided(p, s) = {} /\ Proposed(p, s) = {}
    BY <1>1, <1>5 DEF Unblocked, Yields, Yielded
  <1> QED BY <1>2, <1>3, <1>4, <1>5

(* It is one of the outcomes.                                              *)
LEMMA YieldedOutcome ==
    ASSUME NEW p \in Packs, NEW s, Yields(p, s) PROVE Yielded(p, s) \in Outcome
  <1>1. Forcing(p, s) \subseteq Outcome
    <2>1. \A x \in Members(p.exceptions) : x.effect = "force-outcome" => x.outcome \in Outcome
      BY PackAssumption DEF Members
    <2> QED BY <2>1 DEF Forcing, Outcomes, With, Holding
  <1>2. Proposed(p, s) \subseteq Outcome
    <2>1. p.rules \in Seq([id : Id, when : Cond, outcome : Outcome, onUnknown : Reaction])
      BY PackAssumption
    <2>2. \A x \in Members(p.rules) : x \in [id : Id, when : Cond, outcome : Outcome, onUnknown : Reaction]
      BY <2>1, MembersAre, Zenon
    <2> QED BY <2>2 DEF Proposed, Outcomes, Live, Holding
  <1>3. p.fallback \in Outcome \cup {NoOutcome}
    BY PackAssumption
  <1> QED BY <1>1, <1>2, <1>3 DEF Yields, Yielded

(* What becomes known changes no disposition that rests on known things.   *)
LEMMA KnownStands ==
    ASSUME NEW p \in Packs, NEW s \in Situation, NEW t \in Situation, NEW carry,
           Completes(s, t), AllKnown(p, s, carry)
    PROVE  Declared(p, t, carry) = Declared(p, s, carry)
  <1>1. Applies(p, s) # "unknown" => Applies(p, t) = Applies(p, s)
    BY PackAssumption, VerdictAssumption DEF Applies
  <1>2. CASE Applies(p, s) = "false"
    BY <1>1, <1>2 DEF Declared
  <1>3. CASE Applies(p, s) # "false"
    <2>1. ExceptionsKnown(p, s) /\ Applies(p, s) = "true" /\ Applies(p, t) = "true"
      BY <1>1, <1>3 DEF AllKnown, ExceptionsKnown
    <2>2. \A v : Holding(Members(p.exceptions), t, v) = Holding(Members(p.exceptions), s, v)
      BY <2>1, MembersConditions, HoldingStands DEF ExceptionsKnown
    <2>3. /\ Forcing(p, t) = Forcing(p, s) /\ Suppressing(p, t) = Suppressing(p, s)
          /\ Asking(p, t) = Asking(p, s)
      BY <2>2 DEF Forcing, Suppressing, Asking
    <2>4. \A v : RequiredIn(p, t, v) = RequiredIn(p, s, v)
      BY <2>1, RequiredStands DEF ExceptionsKnown
    <2>5. Blocking(p, t) = Blocking(p, s)
      BY <2>2, <2>3, <2>4 DEF Blocking
    <2>6. \A why : Unresolved(p, t, why) = Unresolved(p, s, why)
      BY <2>3 DEF Unresolved
    <2>7. CASE Blocking(p, s) # {}
      BY <2>1, <2>5, <2>6, <2>7, DeclaredUnblocked
    <2>8. CASE Blocking(p, s) = {}
      <3>1. Live(p, t) = Live(p, s)
        BY <2>3 DEF Live
      <3>2. Forcing(p, s) = {} => \A v : Holding(Live(p, s), t, v) = Holding(Live(p, s), s, v)
        <4>1. \A x \in Live(p, s) : x.when \in Cond
          BY MembersConditions DEF Live
        <4> QED BY <1>3, <2>8, <4>1, HoldingStands DEF AllKnown, RulesKnown
      <3>3. Forcing(p, s) = {} => Proposed(p, t) = Proposed(p, s) /\ Undecided(p, t) = Undecided(p, s)
        BY <3>1, <3>2 DEF Proposed, Undecided
      <3>4. (Yields(p, t) <=> Yields(p, s)) /\ Yielded(p, t) = Yielded(p, s)
        BY <2>3, <3>3 DEF Yields, Yielded
      <3>5. ASSUME Forcing(p, s) # {} \/ Undecided(p, s) = {}, Yields(p, s)
            PROVE  Yield(p, t, carry, Yielded(p, s)) = Yield(p, s, carry, Yielded(p, s))
        <4> DEFINE o == Yielded(p, s)
        <4>1. carry => ValuesKnown(p, s, o)
          BY <1>3, <2>8, <3>5 DEF AllKnown
        <4>2. o \in Outcome
          BY <3>5, YieldedOutcome
        <4>3. carry => ValuesKnown(p, t, o)
          <5>1. \A i \in DOMAIN Sources(p, o) : Sources(p, o)[i] \in Atom
            BY <4>2, SourcesAreSequence
          <5> QED BY <4>1, <5>1 DEF ValuesKnown, Completes
        <4> HIDE DEF o
        <4> QED BY <2>6, <4>1, <4>3 DEF Yield, ValuesKnown, o
      <3> QED BY <2>1, <2>3, <2>5, <2>6, <2>8, <3>3, <3>4, <3>5, DeclaredYield
    <2> QED BY <2>7, <2>8
  <1> QED BY <1>2, <1>3

-----------------------------------------------------------------------------
(* What a walk that met nothing unknown has shown by then.                 *)

KnownEntries(q) == \A e \in Members(q) : e.condition \notin {"unknown", "unresolved"}

SettledInv ==
    /\ trace \in Seq(Members(trace))
    /\ NothingUnknown =>
        /\ pc = "exceptions" =>
             /\ RequiredIn(pack, situation, "unknown") = {}
             /\ Known(Before(pack.exceptions, at), situation)
        /\ pc = "rules" =>
             /\ ExceptionsKnown(pack, situation)
             /\ Known(LiveOf(Before(pack.rules, at)), situation)
        /\ pc \in {"declaration", "values"} =>
             /\ ExceptionsKnown(pack, situation) /\ RulesKnown(pack, situation)
             /\ Yields(pack, situation) /\ chosen = Yielded(pack, situation)
        /\ pc = "values" =>
             \A j \in 1 .. (at - 1) : situation[Sources(pack, chosen)[j]] = "true"
        /\ pc = "done" => AllKnown(pack, situation, in.outcomeValues)

(* Nothing known is forgotten: an entry stays in the trace.                *)
LEMMA EntriesKnown ==
    NothingUnknown <=> KnownEntries(trace) /\ \A u \in unmet : u[2] # "unknown"
  BY DEF NothingUnknown, KnownEntries, Members

LEMMA OneMoreEntry ==
    ASSUME SettledInv, NEW e, trace' = Append(trace, e), unmet' = unmet
    PROVE  /\ trace' \in Seq(Members(trace'))
           /\ NothingUnknown' => NothingUnknown /\ e.condition \notin {"unknown", "unresolved"}
  <1>1. trace' \in Seq(Members(trace')) /\ Members(trace') = Members(trace) \cup {e}
    BY OneMoreMember DEF SettledInv
  <1>2. NothingUnknown' <=> KnownEntries(trace') /\ \A u \in unmet' : u[2] # "unknown"
    BY DEF NothingUnknown, KnownEntries, Members
  <1> QED BY <1>1, <1>2, EntriesKnown DEF KnownEntries

(* One more member, known as those before.                                 *)
LEMMA OneMoreKnown ==
    ASSUME NEW S, NEW x, NEW s, Known(S, s), Verdict(x.when, s) # "unknown"
    PROVE  Known(S \cup {x}, s)
  BY DEF Known, Holding

LEMMA BeginSettles == WalkInv /\ SettledInv /\ Begin => SettledInv'
  <1> SUFFICES ASSUME SettledInv, Begin PROVE SettledInv'
    OBVIOUS
  <1>1. trace' = trace /\ pc' \in {"applicability", "error"}
    BY DEF Begin, Refuse, Goto
  <1> QED BY <1>1 DEF SettledInv

LEMMA ApplicabilitySettles == WalkInv /\ SettledInv /\ Applicability => SettledInv'
  <1> SUFFICES ASSUME WalkInv, SettledInv, Applicability PROVE SettledInv'
    OBVIOUS
  <1>1. in' = in /\ unmet' = unmet /\ pack' = pack /\ situation' = situation
    BY DEF Applicability, pack, situation
  <1>2. CASE pc' = "error"
    <2>1. trace' = trace
      BY <1>2 DEF Applicability, Refuse, Goto, Dispose
    <2> QED BY <1>2, <2>1 DEF SettledInv
  <1>3. CASE pc' # "error" /\ Applies(pack, situation) = "true"
    <2>1. pc' = "requirements"
      BY <1>3 DEF Applicability, Applies, Refuse, Goto
    <2>2. trace' = trace \/ \E e : trace' = Append(trace, e)
      BY <1>3 DEF Applicability, Refuse
    <2> QED BY <1>1, <2>1, <2>2, OneMoreEntry DEF SettledInv
  <1>4. CASE pc' # "error" /\ Applies(pack, situation) # "true"
    <2> DEFINE e == Entry("applicability", NoCond, Applies(pack, situation))
    <2>1. Applies(pack, situation) \in Tri
      BY PackFacts DEF WalkInv
    <2>2. pc' = "done" /\ trace' = Append(trace, e)
      BY <1>4, <2>1 DEF Applicability, Applies, Refuse, Dispose, Tri
    <2>3. e.condition = Applies(pack, situation)
      BY DEF Entry
    <2> HIDE DEF e
    <2>4. trace' \in Seq(Members(trace')) /\ (NothingUnknown' => e.condition # "unknown")
      BY <1>1, <2>2, OneMoreEntry
    <2>5. NothingUnknown' => AllKnown(pack, situation, in.outcomeValues)
      BY <1>4, <2>1, <2>3, <2>4 DEF AllKnown, Tri
    <2> QED BY <1>1, <2>2, <2>4, <2>5 DEF SettledInv
  <1> QED BY <1>2, <1>3, <1>4

LEMMA RequirementsSettles == WalkInv /\ SettledInv /\ Requirements => SettledInv'
  <1> SUFFICES ASSUME WalkInv, SettledInv, Requirements PROVE SettledInv'
    OBVIOUS
  <1>1. /\ in' = in /\ trace' = trace /\ pack' = pack /\ situation' = situation
        /\ pc' = "exceptions" /\ at' = 1
    BY DEF Requirements, Goto, pack, situation
  <1>2. ASSUME NothingUnknown' PROVE RequiredIn(pack, situation, "unknown") = {}
    <2>1. \A u \in unmet' : u[2] # "unknown"
      BY <1>2 DEF NothingUnknown
    <2>2. {<< r, "unknown" >> : r \in RequiredIn(pack, situation, "unknown")} \subseteq unmet'
      BY DEF Requirements
    <2>3. \A r \in RequiredIn(pack, situation, "unknown") : << r, "unknown" >>[2] # "unknown"
      BY <2>1, <2>2
    <2> QED BY <2>3
  <1>3. Known(Before(pack.exceptions, 1), situation)
    BY BeforeFirst DEF Known, Holding
  <1> QED BY <1>1, <1>2, <1>3 DEF SettledInv

LEMMA ExceptionSettles == WalkInv /\ SettledInv /\ EvaluateException => SettledInv'
  <1> SUFFICES ASSUME WalkInv, SettledInv, EvaluateException PROVE SettledInv'
    OBVIOUS
  <1> DEFINE x == pack.exceptions[at]
             t == Verdict(x.when, situation)
  <1>1. in' = in /\ unmet' = unmet /\ pack' = pack /\ situation' = situation /\ pc = "exceptions"
    BY DEF EvaluateException, pack, situation
  <1>2. CASE pc' = "error"
    <2>1. trace' = trace
      BY <1>1, <1>2 DEF EvaluateException
    <2> QED BY <1>2, <2>1 DEF SettledInv
  <1>3. CASE pc' # "error"
    <2>1. pc' = "exceptions" /\ at' = at + 1
      BY <1>1, <1>3 DEF EvaluateException, Refuse
    <2>2. \E e : trace' = Append(trace, e) /\ e.condition = t
      <3> DEFINE e == [Entry("exception", x.id, t) EXCEPT
                          !.effect = IF t = "true" THEN x.effect ELSE "none",
                          !.outcome = IF t = "true" /\ x.effect = "force-outcome" THEN x.outcome
                                      ELSE NoOutcome,
                          !.onUnknown = IF t = "unknown" THEN x.onUnknown ELSE "none"]
      <3>1. trace' = Append(trace, e)
        BY <1>1, <1>3 DEF EvaluateException, Refuse
      <3>2. e.condition = t
        BY DEF Entry
      <3> QED BY <3>1, <3>2
    <2>2a. PICK e : trace' = Append(trace, e) /\ e.condition = t
      BY <2>2
    <2>3. /\ trace' \in Seq(Members(trace'))
          /\ NothingUnknown' => NothingUnknown /\ t # "unknown"
      BY <1>1, <2>2a, OneMoreEntry
    <2>4. at \in Nat \ {0}
      BY DEF WalkInv, TypeOK
    <2>5. Before(pack.exceptions, at + 1) = Before(pack.exceptions, at) \cup {x}
      BY <2>4, BeforeNext
    <2>6. NothingUnknown' => /\ RequiredIn(pack, situation, "unknown") = {}
                             /\ Known(Before(pack.exceptions, at + 1), situation)
      <3>1. NothingUnknown => /\ RequiredIn(pack, situation, "unknown") = {}
                              /\ Known(Before(pack.exceptions, at), situation)
        BY <1>1 DEF SettledInv
      <3> HIDE DEF x
      <3>2. Known(Before(pack.exceptions, at), situation) /\ Verdict(x.when, situation) # "unknown"
              => Known(Before(pack.exceptions, at) \cup {x}, situation)
        BY OneMoreKnown
      <3> QED BY ONLY <2>3, <2>5, <3>1, <3>2 DEF t
    <2> QED BY <1>1, <2>1, <2>3, <2>6 DEF SettledInv
  <1> QED BY <1>2, <1>3

(* produce, where all that led to the outcome is known.                    *)
LEMMA ProduceSettles ==
    ASSUME NEW o, Produce(o), in' = in, in.outcomeValues \in BOOLEAN,
           trace' \in Seq(Members(trace')),
           NothingUnknown' => /\ ExceptionsKnown(pack, situation) /\ RulesKnown(pack, situation)
                              /\ Yields(pack, situation) /\ o = Yielded(pack, situation)
    PROVE  SettledInv'
  <1>1. pack' = pack /\ situation' = situation
    BY DEF pack, situation
  <1>2. CASE in.outcomeValues = TRUE
    <2>1. pc' = "declaration" /\ chosen' = o
      BY <1>2 DEF Produce, Goto
    <2> QED BY <1>1, <2>1 DEF SettledInv
  <1>3. CASE in.outcomeValues = FALSE
    <2>1. pc' = "done"
      BY <1>3 DEF Produce, Dispose
    <2> QED BY <1>1, <1>3, <2>1 DEF SettledInv, AllKnown
  <1> QED BY <1>2, <1>3

LEMMA CombineExceptionsSettles == WalkInv /\ SettledInv /\ CombineExceptions => SettledInv'
  <1> SUFFICES ASSUME WalkInv, SettledInv, CombineExceptions PROVE SettledInv'
    OBVIOUS
  <1> DEFINE retained == reasons \cup {r \in {"conflict"} : Cardinality(forced) > 1}
             skipped == [i \in DOMAIN pack.rules |-> Entry("rule", pack.rules[i].id, "not-evaluated")]
  <1>1. /\ in' = in /\ unmet' = unmet /\ pack' = pack /\ situation' = situation
        /\ pc = "exceptions" /\ at > Len(pack.exceptions) /\ suppressed' = suppressed
    BY DEF CombineExceptions, pack, situation
  <1>2. /\ in \in Input /\ at \in Nat /\ direct \in BOOLEAN /\ at <= Len(pack.exceptions) + 1
        /\ Gathered(Before(pack.exceptions, at)) /\ Applies(pack, situation) = "true"
        /\ IsFiniteSet(forced)
    BY <1>1 DEF WalkInv, TypeOK, AtExceptions
  <1>3. at = Len(pack.exceptions) + 1
    BY <1>1, <1>2, PackFacts
  <1>4. forced = Forcing(pack, situation) /\ retained = Blocking(pack, situation)
    BY <1>2, <1>3, AllGathered
  <1>5. Before(pack.exceptions, at) = Members(pack.exceptions)
    BY <1>2, <1>3, PackFacts, BeforeAll
  <1>6. NothingUnknown => ExceptionsKnown(pack, situation)
    BY <1>1, <1>2, <1>5 DEF SettledInv, ExceptionsKnown
  <1>7. NothingUnknown' => KnownEntries(trace') /\ \A u \in unmet' : u[2] # "unknown"
    BY DEF NothingUnknown, KnownEntries, Members
  <1> HIDE DEF retained, skipped
  <1>8. CASE retained # {}
    <2>1. pc' = "done" /\ trace' = trace
      BY <1>8 DEF CombineExceptions, Dispose, retained
    <2>2. NothingUnknown' => NothingUnknown
      BY <1>1, <1>7, <2>1, EntriesKnown
    <2>3. NothingUnknown' => AllKnown(pack, situation, in.outcomeValues)
      BY <1>4, <1>6, <1>8, <2>2 DEF AllKnown
    <2> QED BY <1>1, <2>1, <2>3 DEF SettledInv
  <1>9. CASE retained = {} /\ forced # {}
    <2>1. trace' = trace \o skipped
      BY <1>9 DEF CombineExceptions, retained, skipped
    <2>2. PICK o \in forced : Produce(o)
      BY <1>9 DEF CombineExceptions, retained
    <2>3. skipped \in Seq(Members(skipped))
      <3>1. DOMAIN pack.rules = 1 .. Len(pack.rules) /\ Len(pack.rules) \in Nat
        BY <1>2, PackFacts
      <3>2. DOMAIN skipped = 1 .. Len(pack.rules)
        BY <3>1 DEF skipped
      <3>3. skipped = [n \in 1 .. Len(pack.rules) |-> skipped[n]]
        BY <3>1 DEF skipped
      <3>4. \A n \in 1 .. Len(pack.rules) : skipped[n] \in Members(skipped)
        BY <3>2 DEF Members
      <3>5. skipped \in [1 .. Len(pack.rules) -> Members(skipped)]
        BY <3>3, <3>4
      <3> QED BY <3>1, <3>5
    <2>4. /\ trace' \in Seq(Members(trace'))
          /\ Members(trace') = Members(trace) \cup Members(skipped)
      BY <2>1, <2>3, MoreMembers DEF SettledInv
    <2>5. NothingUnknown' => NothingUnknown
      BY <1>1, <1>7, <2>4, EntriesKnown DEF KnownEntries
    <2>6. Blocking(pack, situation) = {} /\ ~(Cardinality(forced) > 1)
      BY <1>4, <1>9 DEF retained
    <2>7. o = Yielded(pack, situation) /\ Yields(pack, situation) /\ RulesKnown(pack, situation)
      <3>1. (CHOOSE u \in Forcing(pack, situation) : TRUE) = o
        BY <1>2, <1>4, <2>2, <2>6, OnlyMember
      <3> QED BY <1>4, <1>9, <3>1 DEF Yielded, Yields, RulesKnown
    <2>8. in.outcomeValues \in BOOLEAN
      BY <1>2, PackFacts
    <2> QED BY <1>1, <1>6, <2>2, <2>4, <2>5, <2>7, <2>8, ProduceSettles
  <1>10. CASE retained = {} /\ forced = {}
    <2>1. pc' = "rules" /\ at' = 1 /\ trace' = trace
      BY <1>10 DEF CombineExceptions, Goto, retained
    <2>2. NothingUnknown' => NothingUnknown
      BY <1>1, <1>7, <2>1, EntriesKnown
    <2>3. Known(LiveOf(Before(pack.rules, at)), situation)'
      <3>1. LiveOf(Before(pack.rules, at))' = {}
        BY <2>1, BeforeFirst DEF LiveOf
      <3> QED BY <3>1 DEF Known, Holding
    <2> QED BY <1>1, <1>6, <2>1, <2>2, <2>3 DEF SettledInv
  <1> QED BY <1>8, <1>9, <1>10

LEMMA SkipRuleSettles == WalkInv /\ SettledInv /\ SkipRule => SettledInv'
  <1> SUFFICES ASSUME WalkInv, SettledInv, SkipRule PROVE SettledInv'
    OBVIOUS
  <1> DEFINE x == pack.rules[at]
             e == Entry("rule", x.id, "not-evaluated")
             S == Before(pack.rules, at)
  <1>1. /\ in' = in /\ unmet' = unmet /\ pack' = pack /\ situation' = situation
        /\ pc = "rules" /\ pc' = "rules" /\ at' = at + 1 /\ suppressed' = suppressed
        /\ x.id \in suppressed /\ trace' = Append(trace, e)
    BY DEF SkipRule, pack, situation
  <1>2. at \in Nat \ {0}
    BY DEF WalkInv, TypeOK
  <1>3. LiveOf(Before(pack.rules, at))' = LiveOf(S)
    <2>1. Before(pack.rules, at)' = S \cup {x}
      BY <1>1, <1>2, BeforeNext
    <2> QED BY <1>1, <2>1 DEF LiveOf
  <1> HIDE DEF x, e, S
  <1>4. trace' \in Seq(Members(trace')) /\ (NothingUnknown' => NothingUnknown)
    BY <1>1, OneMoreEntry
  <1> QED BY <1>1, <1>3, <1>4 DEF SettledInv, S

LEMMA RuleSettles == WalkInv /\ SettledInv /\ EvaluateRule => SettledInv'
  <1> SUFFICES ASSUME WalkInv, SettledInv, EvaluateRule PROVE SettledInv'
    OBVIOUS
  <1> DEFINE x == pack.rules[at]
             t == Verdict(x.when, situation)
             S == Before(pack.rules, at)
  <1>1. /\ in' = in /\ unmet' = unmet /\ pack' = pack /\ situation' = situation /\ pc = "rules"
        /\ suppressed' = suppressed /\ x.id \notin suppressed
    BY DEF EvaluateRule, pack, situation
  <1>2. CASE pc' = "error"
    <2>1. trace' = trace
      BY <1>1, <1>2 DEF EvaluateRule
    <2> QED BY <1>2, <2>1 DEF SettledInv
  <1>3. CASE pc' # "error"
    <2>1. pc' = "rules" /\ at' = at + 1
      BY <1>1, <1>3 DEF EvaluateRule, Refuse
    <2>2. \E e : trace' = Append(trace, e) /\ e.condition = t
      <3> DEFINE e == [Entry("rule", x.id, t) EXCEPT
                          !.outcome = IF t = "true" THEN x.outcome ELSE NoOutcome,
                          !.onUnknown = IF t = "unknown" THEN x.onUnknown ELSE "none"]
      <3>1. trace' = Append(trace, e)
        BY <1>1, <1>3 DEF EvaluateRule, Refuse
      <3>2. e.condition = t
        BY DEF Entry
      <3> QED BY <3>1, <3>2
    <2>2a. PICK e : trace' = Append(trace, e) /\ e.condition = t
      BY <2>2
    <2>3. /\ trace' \in Seq(Members(trace'))
          /\ NothingUnknown' => NothingUnknown /\ t # "unknown"
      BY <1>1, <2>2a, OneMoreEntry
    <2>4. at \in Nat \ {0}
      BY DEF WalkInv, TypeOK
    <2>5. LiveOf(Before(pack.rules, at))' = LiveOf(S) \cup {x}
      <3>1. Before(pack.rules, at)' = S \cup {x}
        BY <1>1, <2>1, <2>4, BeforeNext
      <3> QED BY <1>1, <3>1 DEF LiveOf
    <2>6. NothingUnknown' => /\ ExceptionsKnown(pack, situation)
                             /\ Known(LiveOf(S) \cup {x}, situation)
      BY <1>1, <2>3, OneMoreKnown DEF SettledInv
    <2> HIDE DEF x, t, S
    <2> QED BY <1>1, <2>1, <2>3, <2>5, <2>6 DEF SettledInv
  <1> QED BY <1>2, <1>3

LEMMA CombineRulesSettles == WalkInv /\ SettledInv /\ CombineRules => SettledInv'
  <1> SUFFICES ASSUME WalkInv, SettledInv, CombineRules PROVE SettledInv'
    OBVIOUS
  <1> DEFINE retained == reasons \cup {r \in {"conflict"} : Cardinality(candidates) > 1}
  <1>1. /\ in' = in /\ UNCHANGED <<unmet, trace>> /\ pack' = pack /\ situation' = situation
        /\ pc = "rules" /\ at > Len(pack.rules)
    BY DEF CombineRules, pack, situation
  <1>2. /\ in \in Input /\ at \in Nat /\ at <= Len(pack.rules) + 1
        /\ Proposing(Before(pack.rules, at)) /\ IsFiniteSet(candidates)
        /\ suppressed = Suppressing(pack, situation)
        /\ Forcing(pack, situation) = {}
    BY <1>1 DEF WalkInv, TypeOK, AtRules
  <1>3. at = Len(pack.rules) + 1
    BY <1>1, <1>2, PackFacts
  <1>4. candidates = Proposed(pack, situation) /\ retained = Undecided(pack, situation)
    BY <1>2, <1>3, AllProposed
  <1>5. LiveOf(Before(pack.rules, at)) = Live(pack, situation)
    <2>1. Before(pack.rules, at) = Members(pack.rules)
      BY <1>2, <1>3, PackFacts, BeforeAll
    <2> QED BY <1>2, <2>1 DEF LiveOf, Live
  <1>6. NothingUnknown' => ExceptionsKnown(pack, situation) /\ RulesKnown(pack, situation)
    <2>1. NothingUnknown' => NothingUnknown
      BY <1>1 DEF NothingUnknown
    <2> QED BY <1>1, <1>5, <2>1 DEF SettledInv, RulesKnown
  <1>7. trace' \in Seq(Members(trace')) /\ in.outcomeValues \in BOOLEAN
    BY <1>1, <1>2, PackFacts DEF SettledInv
  <1> HIDE DEF retained
  <1>8. CASE retained # {}
    <2>1. pc' = "done"
      BY <1>8 DEF CombineRules, Dispose, retained
    <2>2. NothingUnknown' => AllKnown(pack, situation, in.outcomeValues)
      BY <1>2, <1>4, <1>6, <1>8 DEF AllKnown
    <2> QED BY <1>1, <1>7, <2>1, <2>2 DEF SettledInv
  <1>9. CASE retained = {} /\ candidates # {}
    <2>1. PICK o \in candidates : Produce(o)
      BY <1>9 DEF CombineRules, retained
    <2>2. ~(Cardinality(candidates) > 1)
      BY <1>9 DEF retained
    <2>3. (CHOOSE u \in Proposed(pack, situation) : TRUE) = o
      BY <1>2, <1>4, <2>1, <2>2, OnlyMember
    <2>4. o = Yielded(pack, situation) /\ Yields(pack, situation)
      BY <1>2, <1>4, <1>9, <2>3 DEF Yielded, Yields
    <2> QED BY <1>1, <1>6, <1>7, <2>1, <2>4, ProduceSettles
  <1>10. CASE retained = {} /\ candidates = {} /\ pack.fallback # NoOutcome
    <2>1. Produce(pack.fallback)
      BY <1>10 DEF CombineRules, retained
    <2>2. pack.fallback = Yielded(pack, situation) /\ Yields(pack, situation)
      BY <1>2, <1>4, <1>10 DEF Yielded, Yields
    <2> QED BY <1>1, <1>6, <1>7, <2>1, <2>2, ProduceSettles
  <1>11. CASE retained = {} /\ candidates = {} /\ pack.fallback = NoOutcome
    <2>1. pc' = "done"
      BY <1>11 DEF CombineRules, Dispose, retained
    <2>2. ~ Yields(pack, situation)
      BY <1>2, <1>4, <1>11 DEF Yields
    <2>3. NothingUnknown' => AllKnown(pack, situation, in.outcomeValues)
      BY <1>6, <2>2 DEF AllKnown
    <2> QED BY <1>1, <1>7, <2>1, <2>3 DEF SettledInv
  <1> QED BY <1>8, <1>9, <1>10, <1>11

LEMMA DeclarationSettles == WalkInv /\ SettledInv /\ ReadDeclaration => SettledInv'
  <1> SUFFICES ASSUME WalkInv, SettledInv, ReadDeclaration PROVE SettledInv'
    OBVIOUS
  <1>1. /\ in' = in /\ UNCHANGED <<unmet, trace, chosen>> /\ pack' = pack /\ situation' = situation
        /\ pc = "declaration" /\ pc' \in {"values", "error"} /\ (pc' = "values" => at' = 1)
    BY DEF ReadDeclaration, Refuse, Goto, pack, situation
  <1>2. NothingUnknown' => NothingUnknown
    BY <1>1 DEF NothingUnknown
  <1>3. pc' = "values" => 1 .. (at' - 1) = {}
    BY <1>1
  <1> QED BY <1>1, <1>2, <1>3 DEF SettledInv

LEMMA ValueSettles == WalkInv /\ SettledInv /\ ResolveValue => SettledInv'
  <1> SUFFICES ASSUME WalkInv, SettledInv, ResolveValue PROVE SettledInv'
    OBVIOUS
  <1> DEFINE p == Sources(pack, chosen)[at]
             t == IF situation[p] = "true" THEN "resolved" ELSE "unresolved"
  <1>1. /\ in' = in /\ UNCHANGED <<unmet, chosen>> /\ pack' = pack /\ situation' = situation
        /\ pc = "values"
    BY DEF ResolveValue, pack, situation
  <1>2. CASE pc' = "error"
    <2>1. trace' = trace
      BY <1>1, <1>2 DEF ResolveValue
    <2> QED BY <1>2, <2>1 DEF SettledInv
  <1>3. CASE pc' # "error"
    <2>1. pc' = "values" /\ at' = at + 1
      BY <1>1, <1>3 DEF ResolveValue, Refuse
    <2>2. PICK e : trace' = Append(trace, e) /\ e.condition = t
      BY <1>1, <1>3 DEF ResolveValue, Refuse, Entry
    <2>3. /\ trace' \in Seq(Members(trace'))
          /\ NothingUnknown' => NothingUnknown /\ t # "unresolved"
      BY <1>1, <2>2, OneMoreEntry
    <2>4. at \in Nat \ {0}
      BY DEF WalkInv, TypeOK
    <2>5. 1 .. (at' - 1) = 1 .. (at - 1) \cup {at}
      BY <2>1, <2>4
    <2>6. NothingUnknown' =>
            \A j \in 1 .. (at' - 1) : situation[Sources(pack, chosen)[j]] = "true"
      BY <1>1, <2>3, <2>5 DEF SettledInv
    <2> HIDE DEF p, t
    <2> QED BY <1>1, <2>1, <2>3, <2>6 DEF SettledInv
  <1> QED BY <1>2, <1>3

LEMMA CarrySettles == WalkInv /\ SettledInv /\ CarryValues => SettledInv'
  <1> SUFFICES ASSUME WalkInv, SettledInv, CarryValues PROVE SettledInv'
    OBVIOUS
  <1>1. /\ in' = in /\ UNCHANGED <<unmet, trace>> /\ pack' = pack /\ situation' = situation
        /\ pc = "values" /\ pc' = "done" /\ at > Len(Sources(pack, chosen))
    BY DEF CarryValues, Dispose, pack, situation
  <1>2. /\ at \in Nat /\ at <= Len(Sources(pack, chosen)) + 1
        /\ chosen \in Outcome /\ in \in Input
    BY <1>1 DEF WalkInv, TypeOK, AtValues
  <1>3. DOMAIN Sources(pack, chosen) = 1 .. (at - 1)
    BY <1>1, <1>2, PackFacts, SourcesAreSequence
  <1>4. NothingUnknown' => NothingUnknown
    BY <1>1 DEF NothingUnknown
  <1>5. NothingUnknown' => ValuesKnown(pack, situation, chosen)
    BY <1>1, <1>3, <1>4 DEF SettledInv, ValuesKnown
  <1>6. NothingUnknown' => AllKnown(pack, situation, in.outcomeValues)
    BY <1>1, <1>4, <1>5 DEF SettledInv, AllKnown
  <1> QED BY <1>1, <1>6 DEF SettledInv

LEMMA SettledStep == WalkInv /\ SettledInv /\ [Next]_vars => SettledInv'
  <1> SUFFICES ASSUME WalkInv, SettledInv, [Next]_vars PROVE SettledInv'
    OBVIOUS
  <1>1. CASE UNCHANGED vars
    BY <1>1 DEF vars, SettledInv, NothingUnknown, LiveOf, pack, situation
  <1> QED BY <1>1, BeginSettles, ApplicabilitySettles, RequirementsSettles, ExceptionSettles,
             CombineExceptionsSettles, SkipRuleSettles, RuleSettles, CombineRulesSettles,
             DeclarationSettles, ValueSettles, CarrySettles DEF Next

(* A result in which nothing was unknown is settled (resolve.go): all that *)
(* the disposition rests on was evaluated, each evaluation left its entry  *)
(* in the trace or its requirement among the unmet, and what was not       *)
(* evaluated, because a handoff, a forced outcome or a suppression came    *)
(* first, the disposition does not rest on.                                *)
THEOREM KnownResultSettled == Spec => []OutcomeSettled
  <1>1. Init => SettledInv
    BY DEF Init, Start, SettledInv
  <1>2. WalkInv /\ SettledInv /\ [Next]_vars => SettledInv'
    BY SettledStep
  <1>3. WalkInv /\ SettledInv => OutcomeSettled
    <2> SUFFICES ASSUME WalkInv, SettledInv, pc = "done", NothingUnknown,
                        NEW t \in Situation, Completes(situation, t)
                 PROVE  Declared(pack, t, in.outcomeValues) = disposition
      BY DEF OutcomeSettled
    <2>1. disposition = Declared(pack, situation, in.outcomeValues)
      BY DEF WalkInv, ResultDeclared
    <2>2. AllKnown(pack, situation, in.outcomeValues)
      BY DEF SettledInv
    <2>3. pack \in Packs /\ situation \in Situation
      BY PackFacts DEF WalkInv
    <2> QED BY <2>1, <2>2, <2>3, KnownStands
  <1> QED BY <1>1, <1>2, <1>3, WalkInvariant, PTL DEF Spec

-----------------------------------------------------------------------------
(* What a walk has put down to its exceptions and rules by then.           *)

Forcers(p, s) == With(Holding(Members(p.exceptions), s, "true"), "force-outcome")
Proposers(p, s) == Holding(Live(p, s), s, "true")

ForcingEntries(q) ==
    {e \in Members(q) : e.stage = "exception" /\ e.condition = "true" /\ e.effect = "force-outcome"}
RuleEntries(q) == {e \in Members(q) : e.stage = "rule" /\ e.condition = "true"}

(* Exceptions, rules and entries by what an answer names them by.          *)
Shown(S) == {<<x.id, x.outcome>> : x \in S}

Shows(forcers, proposers) ==
    /\ Shown(ForcingEntries(trace)) = Shown(forcers)
    /\ Shown(RuleEntries(trace)) = Shown(proposers)

ShowsAll ==
    Shows(Forcers(pack, situation),
          IF Forcing(pack, situation) # {} THEN {} ELSE Proposers(pack, situation))

ShownInv ==
    /\ pc \in {"begin", "applicability", "requirements"} => Shows({}, {})
    /\ pc = "exceptions" =>
         Shows(With(Holding(Before(pack.exceptions, at), situation, "true"), "force-outcome"), {})
    /\ pc = "rules" => Shows({}, Holding(LiveOf(Before(pack.rules, at)), situation, "true"))
    /\ pc \in {"declaration", "values"} => ShowsAll
    /\ pc = "done" /\ disposition.kind = "outcome" => ShowsAll

(* An entry that is neither changes nothing.                               *)
LEMMA OneMoreShown ==
    ASSUME SettledInv, NEW e, trace' = Append(trace, e)
    PROVE  /\ ForcingEntries(trace') =
                ForcingEntries(trace)
                  \cup {y \in {e} : e.stage = "exception" /\ e.condition = "true"
                                    /\ e.effect = "force-outcome"}
           /\ RuleEntries(trace') =
                RuleEntries(trace) \cup {y \in {e} : e.stage = "rule" /\ e.condition = "true"}
  <1>1. Members(trace') = Members(trace) \cup {e}
    BY OneMoreMember DEF SettledInv
  <1> QED BY <1>1 DEF ForcingEntries, RuleEntries

LEMMA OtherEntry ==
    ASSUME SettledInv, NEW e, trace' = Append(trace, e), NEW S, NEW T, Shows(S, T),
           e.stage \notin {"exception", "rule"} \/ e.condition # "true"
    PROVE  Shows(S, T)'
  <1>1. ForcingEntries(trace') = ForcingEntries(trace) /\ RuleEntries(trace') = RuleEntries(trace)
    BY OneMoreShown
  <1> QED BY <1>1 DEF Shows

LEMMA ShownOne ==
    ASSUME NEW S, NEW x PROVE Shown(S \cup {x}) = Shown(S) \cup {<<x.id, x.outcome>>}
  BY DEF Shown

LEMMA InitShows == Init => ShownInv
  <1> SUFFICES ASSUME Init PROVE ShownInv
    OBVIOUS
  <1>1. pc = "begin" /\ trace = << >>
    BY DEF Init, Start
  <1>2. Members(trace) = {}
    BY <1>1 DEF Members
  <1>3. Shows({}, {})
    BY <1>2 DEF Shows, Shown, ForcingEntries, RuleEntries
  <1> QED BY <1>1, <1>3 DEF ShownInv

LEMMA BeginShows == WalkInv /\ SettledInv /\ ShownInv /\ Begin => ShownInv'
  <1> SUFFICES ASSUME ShownInv, Begin PROVE ShownInv'
    OBVIOUS
  <1>1. trace' = trace /\ pc = "begin" /\ pc' \in {"applicability", "error"}
    BY DEF Begin, Refuse, Goto
  <1> QED BY <1>1 DEF ShownInv, Shows

LEMMA ApplicabilityShows == WalkInv /\ SettledInv /\ ShownInv /\ Applicability => ShownInv'
  <1> SUFFICES ASSUME WalkInv, SettledInv, ShownInv, Applicability PROVE ShownInv'
    OBVIOUS
  <1> DEFINE t == Applies(pack, situation)
             e == Entry("applicability", NoCond, t)
  <1>1. t \in Tri
    BY PackFacts DEF WalkInv
  <1>2. /\ pc = "applicability"
        /\ \/ pc' = "error"
           \/ pc' = "requirements"
           \/ /\ pc' = "done"
              /\ \E kind \in {"not-applicable", "unresolved"} : \E why :
                   disposition' = Disposition(pack, kind, NoOutcome, why, direct)
    BY <1>1 DEF Applicability, Applies, Refuse, Goto, Dispose, Tri
  <1>3. pc' = "done" => disposition'.kind # "outcome"
    BY <1>2 DEF Disposition
  <1>4. trace' = trace \/ trace' = Append(trace, e)
    BY DEF Applicability, Applies
  <1>5. Shows({}, {})
    BY <1>2 DEF ShownInv
  <1>6. Shows({}, {})'
    <2>1. CASE trace' = trace
      BY <1>5, <2>1 DEF Shows
    <2>2. CASE trace' = Append(trace, e)
      <3>1. e.stage = "applicability"
        BY DEF Entry
      <3> HIDE DEF e
      <3> QED BY <1>5, <2>2, <3>1, OtherEntry
    <2> QED BY <1>4, <2>1, <2>2
  <1> HIDE DEF t, e
  <1> QED BY <1>2, <1>3, <1>6 DEF ShownInv

LEMMA RequirementsShows == WalkInv /\ SettledInv /\ ShownInv /\ Requirements => ShownInv'
  <1> SUFFICES ASSUME ShownInv, Requirements PROVE ShownInv'
    OBVIOUS
  <1>1. /\ trace' = trace /\ pc = "requirements" /\ pc' = "exceptions" /\ at' = 1
    BY DEF Requirements, Goto
  <1>2. Before(pack.exceptions, at)' = {}
    BY <1>1, BeforeFirst
  <1>3. With(Holding(Before(pack.exceptions, at), situation, "true"), "force-outcome")' = {}
    BY <1>2 DEF With, Holding
  <1>4. Shows({}, {})'
    BY <1>1 DEF ShownInv, Shows
  <1> QED BY <1>1, <1>3, <1>4 DEF ShownInv, Shows

LEMMA ExceptionShows == WalkInv /\ SettledInv /\ ShownInv /\ EvaluateException => ShownInv'
  <1> SUFFICES ASSUME WalkInv, SettledInv, ShownInv, EvaluateException PROVE ShownInv'
    OBVIOUS
  <1> DEFINE x == pack.exceptions[at]
             t == Verdict(x.when, situation)
  <1>0. PICK S : S = With(Holding(Before(pack.exceptions, at), situation, "true"), "force-outcome")
    OBVIOUS
  <1>1. in' = in /\ pack' = pack /\ situation' = situation /\ pc = "exceptions" /\ Shows(S, {})
    BY <1>0 DEF EvaluateException, pack, situation, ShownInv
  <1>2. CASE pc' = "error"
    BY <1>2 DEF ShownInv
  <1>3. CASE pc' # "error"
    <2>1. pc' = "exceptions" /\ at' = at + 1
      BY <1>1, <1>3 DEF EvaluateException, Refuse
    <2>2. PICK e : /\ trace' = Append(trace, e)
                   /\ e.stage = "exception" /\ e.id = x.id /\ e.condition = t
                   /\ e.effect = IF t = "true" THEN x.effect ELSE "none"
                   /\ t = "true" /\ x.effect = "force-outcome" => e.outcome = x.outcome
      <3> DEFINE e == [Entry("exception", x.id, t) EXCEPT
                          !.effect = IF t = "true" THEN x.effect ELSE "none",
                          !.outcome = IF t = "true" /\ x.effect = "force-outcome" THEN x.outcome
                                      ELSE NoOutcome,
                          !.onUnknown = IF t = "unknown" THEN x.onUnknown ELSE "none"]
      <3>1. trace' = Append(trace, e)
        BY <1>1, <1>3 DEF EvaluateException, Refuse
      <3>2. /\ e.stage = "exception" /\ e.id = x.id /\ e.condition = t
            /\ e.effect = IF t = "true" THEN x.effect ELSE "none"
            /\ t = "true" /\ x.effect = "force-outcome" => e.outcome = x.outcome
        BY DEF Entry
      <3> QED BY <3>1, <3>2
    <2>3. at \in Nat \ {0}
      BY DEF WalkInv, TypeOK
    <2>4. With(Holding(Before(pack.exceptions, at), situation, "true"), "force-outcome")'
            = S \cup {y \in {x} : t = "true" /\ x.effect = "force-outcome"}
      <3>1. Before(pack.exceptions, at)' = Before(pack.exceptions, at) \cup {x}
        BY <1>1, <2>1, <2>3, BeforeNext
      <3>2. With(Holding(Before(pack.exceptions, at) \cup {x}, situation, "true"), "force-outcome")
                = S \cup {y \in {x} : t = "true" /\ x.effect = "force-outcome"}
        BY <1>0, OneMoreEffect
      <3>3. With(Holding(Before(pack.exceptions, at), situation, "true"), "force-outcome")'
                = With(Holding(Before(pack.exceptions, at)', situation', "true"), "force-outcome")
        BY DEF With, Holding
      <3> HIDE DEF x, t
      <3> QED BY <1>1, <3>1, <3>2, <3>3
    <2> HIDE DEF x, t
    <2>5. CASE t = "true" /\ x.effect = "force-outcome"
      <3>1. ForcingEntries(trace') = ForcingEntries(trace) \cup {e} /\ RuleEntries(trace') = RuleEntries(trace)
        BY <2>2, <2>5, OneMoreShown
      <3>2. Shown(ForcingEntries(trace')) = Shown(ForcingEntries(trace)) \cup {<<x.id, x.outcome>>}
        BY <2>2, <2>5, <3>1, ShownOne
      <3>4. Shown(S \cup {x}) = Shown(S) \cup {<<x.id, x.outcome>>}
        BY ShownOne
      <3>3. S \cup {y \in {x} : t = "true" /\ x.effect = "force-outcome"} = S \cup {x}
        BY <2>5
      <3> QED BY <1>1, <2>1, <2>4, <3>1, <3>2, <3>3, <3>4 DEF ShownInv, Shows
    <2>6. CASE ~ (t = "true" /\ x.effect = "force-outcome")
      <3>1. ForcingEntries(trace') = ForcingEntries(trace) /\ RuleEntries(trace') = RuleEntries(trace)
        BY <2>2, <2>6, OneMoreShown
      <3>2. S \cup {y \in {x} : t = "true" /\ x.effect = "force-outcome"} = S
        BY <2>6
      <3> QED BY <1>1, <2>1, <2>4, <3>1, <3>2 DEF ShownInv, Shows
    <2> QED BY <2>5, <2>6
  <1> QED BY <1>2, <1>3

(* produce, where all that led to the outcome was shown.                   *)
LEMMA ProduceShows ==
    ASSUME NEW o, Produce(o), in' = in, in.outcomeValues \in BOOLEAN, ShowsAll'
    PROVE  ShownInv'
  <1>1. CASE in.outcomeValues = TRUE
    <2>1. pc' = "declaration"
      BY <1>1 DEF Produce, Goto
    <2> QED BY <2>1 DEF ShownInv
  <1>2. CASE in.outcomeValues = FALSE
    <2>1. pc' = "done"
      BY <1>2 DEF Produce, Dispose
    <2> QED BY <2>1 DEF ShownInv
  <1> QED BY <1>1, <1>2

LEMMA CombineExceptionsShows == WalkInv /\ SettledInv /\ ShownInv /\ CombineExceptions => ShownInv'
  <1> SUFFICES ASSUME WalkInv, SettledInv, ShownInv, CombineExceptions PROVE ShownInv'
    OBVIOUS
  <1> DEFINE retained == reasons \cup {r \in {"conflict"} : Cardinality(forced) > 1}
             skipped == [i \in DOMAIN pack.rules |-> Entry("rule", pack.rules[i].id, "not-evaluated")]
  <1>1. /\ in' = in /\ pack' = pack /\ situation' = situation
        /\ pc = "exceptions" /\ at > Len(pack.exceptions)
    BY DEF CombineExceptions, pack, situation
  <1>2. /\ in \in Input /\ at \in Nat /\ direct \in BOOLEAN /\ at <= Len(pack.exceptions) + 1
        /\ Gathered(Before(pack.exceptions, at))
    BY <1>1 DEF WalkInv, TypeOK, AtExceptions
  <1>3. at = Len(pack.exceptions) + 1
    BY <1>1, <1>2, PackFacts
  <1>4. forced = Forcing(pack, situation)
    BY <1>2, <1>3, AllGathered
  <1>5. Shows(Forcers(pack, situation), {})
    <2>1. Before(pack.exceptions, at) = Members(pack.exceptions)
      BY <1>2, <1>3, PackFacts, BeforeAll
    <2> QED BY <1>1, <2>1 DEF ShownInv, Forcers
  <1> HIDE DEF retained, skipped
  <1>6. CASE retained # {}
    <2>1. pc' = "done" /\ disposition' = Disposition(pack, "unresolved", NoOutcome, retained, direct)
      BY <1>6 DEF CombineExceptions, Dispose, retained
    <2>2. disposition'.kind # "outcome"
      BY <2>1 DEF Disposition
    <2> QED BY <2>1, <2>2 DEF ShownInv
  <1>7. CASE retained = {} /\ forced # {}
    <2>1. trace' = trace \o skipped
      BY <1>7 DEF CombineExceptions, retained, skipped
    <2>2. PICK o \in forced : Produce(o)
      BY <1>7 DEF CombineExceptions, retained
    <2>3. /\ skipped \in Seq(Members(skipped))
          /\ \A e \in Members(skipped) : e.stage = "rule" /\ e.condition = "not-evaluated"
      <3>1. DOMAIN pack.rules = 1 .. Len(pack.rules) /\ Len(pack.rules) \in Nat
        BY <1>2, PackFacts
      <3>2. DOMAIN skipped = 1 .. Len(pack.rules)
        BY <3>1 DEF skipped
      <3>3. skipped = [n \in 1 .. Len(pack.rules) |-> skipped[n]]
        BY <3>1 DEF skipped
      <3>4. \A n \in 1 .. Len(pack.rules) : skipped[n] \in Members(skipped)
        BY <3>2 DEF Members
      <3>5. skipped \in [1 .. Len(pack.rules) -> Members(skipped)]
        BY <3>3, <3>4
      <3>6. \A n \in 1 .. Len(pack.rules) : /\ skipped[n].stage = "rule"
                                            /\ skipped[n].condition = "not-evaluated"
        BY <3>1 DEF skipped, Entry
      <3> QED BY <3>1, <3>2, <3>5, <3>6 DEF Members
    <2>4. Members(trace') = Members(trace) \cup Members(skipped)
      BY <2>1, <2>3, MoreMembers DEF SettledInv
    <2>5. ForcingEntries(trace') = ForcingEntries(trace) /\ RuleEntries(trace') = RuleEntries(trace)
      BY <2>3, <2>4 DEF ForcingEntries, RuleEntries
    <2>6. ShowsAll'
      BY <1>1, <1>4, <1>5, <1>7, <2>5 DEF ShowsAll, Shows
    <2>7. in.outcomeValues \in BOOLEAN
      BY <1>2, PackFacts
    <2> QED BY <1>1, <2>2, <2>6, <2>7, ProduceShows
  <1>8. CASE retained = {} /\ forced = {}
    <2>1. pc' = "rules" /\ at' = 1 /\ trace' = trace
      BY <1>8 DEF CombineExceptions, Goto, retained
    <2>2. Holding(LiveOf(Before(pack.rules, at)), situation, "true")' = {}
      <3>1. LiveOf(Before(pack.rules, at))' = {}
        BY <2>1, BeforeFirst DEF LiveOf
      <3> QED BY <3>1 DEF Holding
    <2>3. Forcers(pack, situation) = {}
      BY <1>4, <1>8 DEF Forcing, Forcers, Outcomes
    <2>4. Shows({}, {})'
      BY <1>5, <2>1, <2>3 DEF Shows
    <2> QED BY <2>1, <2>2, <2>4 DEF ShownInv, Shows
  <1> QED BY <1>6, <1>7, <1>8

LEMMA SkipRuleShows == WalkInv /\ SettledInv /\ ShownInv /\ SkipRule => ShownInv'
  <1> SUFFICES ASSUME WalkInv, SettledInv, ShownInv, SkipRule PROVE ShownInv'
    OBVIOUS
  <1> DEFINE x == pack.rules[at]
             e == Entry("rule", x.id, "not-evaluated")
  <1>0. PICK S, T : S = Before(pack.rules, at) /\ T = Holding(LiveOf(S), situation, "true")
    OBVIOUS
  <1>1. /\ in' = in /\ pack' = pack /\ situation' = situation
        /\ pc = "rules" /\ pc' = "rules" /\ at' = at + 1 /\ suppressed' = suppressed
        /\ x.id \in suppressed /\ trace' = Append(trace, e)
    BY DEF SkipRule, pack, situation
  <1>2. at \in Nat \ {0}
    BY DEF WalkInv, TypeOK
  <1>3. LiveOf(Before(pack.rules, at))' = LiveOf(S)
    <2>1. Before(pack.rules, at)' = S \cup {x}
      BY <1>0, <1>1, <1>2, BeforeNext
    <2> QED BY <1>1, <2>1 DEF LiveOf
  <1>4. e.condition # "true"
    BY DEF Entry
  <1>5. Shows({}, T)
    BY <1>0, <1>1 DEF ShownInv
  <1>6. Holding(LiveOf(Before(pack.rules, at)), situation, "true")' = T
    BY <1>0, <1>1, <1>3 DEF Holding
  <1> HIDE DEF x, e
  <1>7. Shows({}, T)'
    BY <1>1, <1>4, <1>5, OtherEntry
  <1> QED BY <1>1, <1>6, <1>7 DEF ShownInv, Shows

LEMMA RuleShows == WalkInv /\ SettledInv /\ ShownInv /\ EvaluateRule => ShownInv'
  <1> SUFFICES ASSUME WalkInv, SettledInv, ShownInv, EvaluateRule PROVE ShownInv'
    OBVIOUS
  <1> DEFINE x == pack.rules[at]
             t == Verdict(x.when, situation)
  <1>0. PICK S, T : S = Before(pack.rules, at) /\ T = Holding(LiveOf(S), situation, "true")
    OBVIOUS
  <1>1. /\ in' = in /\ pack' = pack /\ situation' = situation /\ pc = "rules"
        /\ suppressed' = suppressed /\ x.id \notin suppressed /\ Shows({}, T)
    BY <1>0 DEF EvaluateRule, pack, situation, ShownInv
  <1>2. CASE pc' = "error"
    BY <1>2 DEF ShownInv
  <1>3. CASE pc' # "error"
    <2>1. pc' = "rules" /\ at' = at + 1
      BY <1>1, <1>3 DEF EvaluateRule, Refuse
    <2>2. PICK e : /\ trace' = Append(trace, e)
                   /\ e.stage = "rule" /\ e.id = x.id /\ e.condition = t
                   /\ t = "true" => e.outcome = x.outcome
      <3> DEFINE e == [Entry("rule", x.id, t) EXCEPT
                          !.outcome = IF t = "true" THEN x.outcome ELSE NoOutcome,
                          !.onUnknown = IF t = "unknown" THEN x.onUnknown ELSE "none"]
      <3>1. trace' = Append(trace, e)
        BY <1>1, <1>3 DEF EvaluateRule, Refuse
      <3>2. /\ e.stage = "rule" /\ e.id = x.id /\ e.condition = t
            /\ t = "true" => e.outcome = x.outcome
        BY DEF Entry
      <3> QED BY <3>1, <3>2
    <2>3. at \in Nat \ {0}
      BY DEF WalkInv, TypeOK
    <2>4. LiveOf(Before(pack.rules, at))' = LiveOf(S) \cup {x}
      <3>1. Before(pack.rules, at)' = S \cup {x}
        BY <1>0, <1>1, <2>1, <2>3, BeforeNext
      <3> QED BY <1>1, <3>1 DEF LiveOf
    <2>5. Holding(LiveOf(Before(pack.rules, at)), situation, "true")' = T \cup {y \in {x} : t = "true"}
      BY <1>0, <1>1, <2>4, OneMoreHeld
    <2> HIDE DEF x, t
    <2>6. ForcingEntries(trace') = ForcingEntries(trace)
      BY <2>2, OneMoreShown
    <2>7. CASE t = "true"
      <3>1. RuleEntries(trace') = RuleEntries(trace) \cup {e}
        BY <2>2, <2>7, OneMoreShown
      <3>2. Shown(RuleEntries(trace')) = Shown(RuleEntries(trace)) \cup {<<x.id, x.outcome>>}
        BY <2>2, <2>7, <3>1, ShownOne
      <3>4. Shown(T \cup {x}) = Shown(T) \cup {<<x.id, x.outcome>>}
        BY ShownOne
      <3>3. T \cup {y \in {x} : t = "true"} = T \cup {x}
        BY <2>7
      <3> QED BY <1>1, <2>1, <2>5, <2>6, <3>2, <3>3, <3>4 DEF ShownInv, Shows
    <2>8. CASE t # "true"
      <3>1. RuleEntries(trace') = RuleEntries(trace)
        BY <2>2, <2>8, OneMoreShown
      <3>2. T \cup {y \in {x} : t = "true"} = T
        BY <2>8
      <3> QED BY <1>1, <2>1, <2>5, <2>6, <3>1, <3>2 DEF ShownInv, Shows
    <2> QED BY <2>7, <2>8
  <1> QED BY <1>2, <1>3

LEMMA CombineRulesShows == WalkInv /\ SettledInv /\ ShownInv /\ CombineRules => ShownInv'
  <1> SUFFICES ASSUME WalkInv, SettledInv, ShownInv, CombineRules PROVE ShownInv'
    OBVIOUS
  <1> DEFINE retained == reasons \cup {r \in {"conflict"} : Cardinality(candidates) > 1}
  <1>1. /\ in' = in /\ trace' = trace /\ pack' = pack /\ situation' = situation
        /\ pc = "rules" /\ at > Len(pack.rules)
    BY DEF CombineRules, pack, situation
  <1>2. /\ in \in Input /\ at \in Nat /\ at <= Len(pack.rules) + 1
        /\ suppressed = Suppressing(pack, situation)
        /\ Forcing(pack, situation) = {}
    BY <1>1 DEF WalkInv, TypeOK, AtRules
  <1>3. at = Len(pack.rules) + 1
    BY <1>1, <1>2, PackFacts
  <1>4. LiveOf(Before(pack.rules, at)) = Live(pack, situation)
    <2>1. Before(pack.rules, at) = Members(pack.rules)
      BY <1>2, <1>3, PackFacts, BeforeAll
    <2> QED BY <1>2, <2>1 DEF LiveOf, Live
  <1>5. Forcers(pack, situation) = {}
    BY <1>2 DEF Forcing, Forcers, Outcomes
  <1>6. ShowsAll
    BY <1>1, <1>2, <1>4, <1>5 DEF ShownInv, ShowsAll, Proposers
  <1>7. ShowsAll'
    BY <1>1, <1>6 DEF ShowsAll, Shows
  <1>8. in.outcomeValues \in BOOLEAN
    BY <1>2, PackFacts
  <1>9. \/ \E o : Produce(o)
        \/ \E why : pc' = "done" /\ disposition' = Disposition(pack, "unresolved", NoOutcome, why, direct)
    BY DEF CombineRules, Dispose
  <1>10. ASSUME NEW why, pc' = "done",
                disposition' = Disposition(pack, "unresolved", NoOutcome, why, direct)
         PROVE  ShownInv'
    <2>1. disposition'.kind # "outcome"
      BY <1>10 DEF Disposition
    <2> QED BY <1>10, <2>1 DEF ShownInv
  <1> QED BY <1>1, <1>7, <1>8, <1>9, <1>10, ProduceShows

LEMMA ValuesShow ==
    WalkInv /\ SettledInv /\ ShownInv /\ (ReadDeclaration \/ ResolveValue \/ CarryValues) => ShownInv'
  <1> SUFFICES ASSUME SettledInv, ShownInv, ReadDeclaration \/ ResolveValue \/ CarryValues
               PROVE  ShownInv'
    OBVIOUS
  <1>1. /\ in' = in /\ pack' = pack /\ situation' = situation /\ pc \in {"declaration", "values"}
        /\ pc' \in {"declaration", "values", "done", "error"}
    BY DEF ReadDeclaration, ResolveValue, CarryValues, Refuse, Goto, Dispose, pack, situation
  <1>2. ShowsAll
    BY <1>1 DEF ShownInv
  <1>3. trace' = trace \/ \E e : trace' = Append(trace, e) /\ e.stage = "outcome-value"
    BY DEF ReadDeclaration, ResolveValue, CarryValues, Entry
  <1>4. ShowsAll'
    <2>1. CASE trace' = trace
      BY <1>1, <1>2, <2>1 DEF ShowsAll, Shows
    <2>2. ASSUME NEW e, trace' = Append(trace, e), e.stage = "outcome-value" PROVE ShowsAll'
      <3>1. PICK S, T : Shows(S, T) /\ S = Forcers(pack, situation)
                        /\ T = IF Forcing(pack, situation) # {} THEN {} ELSE Proposers(pack, situation)
        BY <1>2 DEF ShowsAll
      <3>2. Shows(S, T)'
        BY <2>2, <3>1, OtherEntry
      <3> QED BY <1>1, <3>1, <3>2 DEF ShowsAll, Shows
    <2> QED BY <1>3, <2>1, <2>2
  <1> QED BY <1>1, <1>4 DEF ShownInv

LEMMA ShownInvariant == Spec => []ShownInv
  <1>1. Init => ShownInv
    BY InitShows
  <1>2. Init => SettledInv
    BY DEF Init, Start, SettledInv
  <1>3. WalkInv /\ SettledInv /\ [Next]_vars => SettledInv'
    BY SettledStep
  <1>4. WalkInv /\ SettledInv /\ ShownInv /\ [Next]_vars => ShownInv'
    <2> SUFFICES ASSUME WalkInv, SettledInv, ShownInv, [Next]_vars PROVE ShownInv'
      OBVIOUS
    <2>1. CASE UNCHANGED vars
      BY <2>1 DEF vars, ShownInv, Shows, ShowsAll, LiveOf, pack, situation
    <2> QED BY <2>1, BeginShows, ApplicabilityShows, RequirementsShows, ExceptionShows,
               CombineExceptionsShows, SkipRuleShows, RuleShows, CombineRulesShows, ValuesShow
            DEF Next
  <1> QED BY <1>1, <1>2, <1>3, <1>4, WalkInvariant, PTL DEF Spec

-----------------------------------------------------------------------------
(* What an answer is put down to.                                          *)

(* The members of a sequence are finitely many.                            *)
LEMMA MembersFinite ==
    ASSUME NEW T, NEW q \in Seq(T) PROVE IsFiniteSet(Members(q))
  <1> DEFINE f == [n \in 1 .. Len(q) |-> q[n]]
  <1>1. Len(q) \in Nat /\ DOMAIN q = 1 .. Len(q)
    OBVIOUS
  <1>2. f \in Surjection(1 .. Len(q), Members(q))
    BY <1>1 DEF Surjection, Members
  <1>3. IsFiniteSet(1 .. Len(q))
    BY <1>1, FS_Interval
  <1> HIDE DEF f
  <1> QED BY <1>2, <1>3, FS_Surjection

(* A finite set is the members of its arrangement.                         *)
LEMMA ArrangedMembers ==
    ASSUME NEW S, IsFiniteSet(S) PROVE Members(Arranged(S)) = S
  <1>1. Cardinality(S) \in Nat /\ ExistsBijection(1 .. Cardinality(S), S)
    BY FS_CardinalityType
  <1>2. PICK f : f \in Bijection(1 .. Cardinality(S), S)
    BY <1>1 DEF ExistsBijection
  <1>3. f \in [1 .. Cardinality(S) -> S] /\ Members(f) = S
    BY <1>2 DEF Bijection, Surjection, Members
  <1> QED BY <1>3 DEF Arranged

(* The outcomes of a finite set are finitely many.                         *)
LEMMA OutcomesFinite ==
    ASSUME NEW S, IsFiniteSet(S) PROVE IsFiniteSet(Outcomes(S))
  <1> DEFINE f == [x \in S |-> x.outcome]
  <1>1. f \in Surjection(S, Outcomes(S))
    BY DEF Surjection, Outcomes
  <1> HIDE DEF f
  <1> QED BY <1>1, FS_Surjection

(* One outcome, whoever proposes it.                                       *)
LEMMA OneOutcome ==
    ASSUME NEW S, IsFiniteSet(S), ~(Cardinality(Outcomes(S)) > 1), NEW x \in S
    PROVE  x.outcome = CHOOSE o \in Outcomes(S) : TRUE
  <1>1. x.outcome \in Outcomes(S)
    BY DEF Outcomes
  <1>2. IsFiniteSet(Outcomes(S))
    BY OutcomesFinite
  <1> QED BY <1>1, <1>2, OnlyMember

LEMMA PackFinite ==
    ASSUME NEW p \in Packs
    PROVE  IsFiniteSet(Members(p.exceptions)) /\ IsFiniteSet(Members(p.rules))
  <1>1. p.exceptions \in Seq([id : Id, when : Cond, effect : Effect, targetRule : Id,
                              outcome : Outcome \cup {NoOutcome}, onUnknown : Reaction])
    BY PackAssumption
  <1>2. p.rules \in Seq([id : Id, when : Cond, outcome : Outcome, onUnknown : Reaction])
    BY PackAssumption
  <1> QED BY <1>1, <1>2, MembersFinite

(* Identifiers tell the members of a pack apart.                           *)
LEMMA IdsUnique ==
    ASSUME NEW p \in Packs
    PROVE  /\ \A x, y \in Members(p.exceptions) : x.id = y.id => x = y
           /\ \A x, y \in Members(p.rules) : x.id = y.id => x = y
  BY PackAssumption DEF Members

(* When a pack declares an outcome.                                        *)
LEMMA OutcomeDeclared ==
    ASSUME NEW p \in Packs, NEW s \in Situation, NEW carry \in BOOLEAN,
           Declared(p, s, carry).kind = "outcome"
    PROVE  /\ Applies(p, s) = "true" /\ Blocking(p, s) = {} /\ Yields(p, s)
           /\ Forcing(p, s) = {} => Undecided(p, s) = {}
           /\ carry => \A i \in DOMAIN Sources(p, Yielded(p, s)) :
                           s[Sources(p, Yielded(p, s))[i]] = "true"
           /\ Declared(p, s, carry) = Disposition(p, "outcome", Yielded(p, s), {}, FALSE)
  <1>1. \A why : Unresolved(p, s, why).kind # "outcome"
    BY DEF Unresolved, Disposition
  <1>2. Applies(p, s) \in Tri
    BY PackAssumption, VerdictAssumption DEF Applies, Tri
  <1>3. Applies(p, s) = "true"
    BY <1>2 DEF Declared, Disposition, Tri
  <1>4. Blocking(p, s) = {}
    BY <1>1, <1>3, DeclaredUnblocked
  <1>5. Yields(p, s) /\ (Forcing(p, s) = {} => Undecided(p, s) = {})
    BY <1>1, <1>3, <1>4, DeclaredYield
  <1>6. Declared(p, s, carry) = Yield(p, s, carry, Yielded(p, s))
    BY <1>3, <1>4, <1>5, DeclaredYield
  <1>7. ~(carry /\ \E i \in DOMAIN Sources(p, Yielded(p, s)) :
                       s[Sources(p, Yielded(p, s))[i]] # "true")
    BY <1>1, <1>6 DEF Yield
  <1>8. Declared(p, s, carry) = Disposition(p, "outcome", Yielded(p, s), {}, FALSE)
    BY <1>6, <1>7 DEF Yield
  <1> QED BY <1>3, <1>4, <1>5, <1>7, <1>8

(* And that another pack that differs in what did not count declares it    *)
(* too.                                                                    *)
LEMMA OutcomeRedeclared ==
    ASSUME NEW p, NEW q, NEW s, NEW carry \in BOOLEAN,
           q.applicability = p.applicability, q.requirements = p.requirements,
           q.escalation = p.escalation, q.values = p.values,
           Applies(p, s) = "true", Blocking(p, s) = {}, Yields(p, s),
           Forcing(p, s) = {} => Undecided(p, s) = {},
           carry => \A i \in DOMAIN Sources(p, Yielded(p, s)) :
                        s[Sources(p, Yielded(p, s))[i]] = "true",
           Blocking(q, s) = {}, Yields(q, s), Yielded(q, s) = Yielded(p, s),
           Forcing(q, s) = {} => Undecided(q, s) = {}
    PROVE  Declared(q, s, carry) = Disposition(p, "outcome", Yielded(p, s), {}, FALSE)
  <1>1. Applies(q, s) = "true"
    BY DEF Applies
  <1>2. Declared(q, s, carry) = Yield(q, s, carry, Yielded(p, s))
    BY <1>1, DeclaredYield
  <1>3. Sources(q, Yielded(p, s)) = Sources(p, Yielded(p, s))
    BY DEF Sources
  <1>4. Declared(q, s, carry) = Disposition(q, "outcome", Yielded(p, s), {}, FALSE)
    BY <1>2, <1>3 DEF Yield
  <1> QED BY <1>4 DEF Disposition, NoHandoff, Routed

(* The exceptions, respectively rules, an outcome is put down to.          *)
Named(stage, S) == {[stage |-> stage, id |-> x.id] : x \in S}
Deciders(p, s) == IF Forcing(p, s) # {} THEN {} ELSE Proposers(p, s)

LEMMA AllAgree ==
    ASSUME NEW p \in Packs, NEW s, Blocking(p, s) = {}, Forcing(p, s) = {} => Undecided(p, s) = {}
    PROVE  /\ \A x \in Forcers(p, s) : x.outcome = Yielded(p, s)
           /\ \A x \in Deciders(p, s) : x.outcome = Yielded(p, s)
  <1>1. Forcing(p, s) = Outcomes(Forcers(p, s)) /\ Proposed(p, s) = Outcomes(Proposers(p, s))
    BY DEF Forcing, Forcers, Proposed, Proposers
  <1>2. IsFiniteSet(Forcers(p, s)) /\ IsFiniteSet(Proposers(p, s))
    <2>1. Forcers(p, s) \subseteq Members(p.exceptions) /\ Proposers(p, s) \subseteq Members(p.rules)
      BY DEF Forcers, Proposers, With, Holding, Live
    <2> QED BY <2>1, PackFinite, FS_Subset
  <1>3. ASSUME NEW x \in Forcers(p, s) PROVE x.outcome = Yielded(p, s)
    <2>1. ~(Cardinality(Forcing(p, s)) > 1)
      BY DEF Blocking
    <2>2. x.outcome = CHOOSE o \in Forcing(p, s) : TRUE
      BY <1>1, <1>2, <2>1, OneOutcome
    <2>3. x.outcome \in Outcomes(Forcers(p, s))
      BY DEF Outcomes
    <2>4. Forcing(p, s) # {}
      BY <1>1, <2>3
    <2> QED BY <2>2, <2>4 DEF Yielded
  <1>4. ASSUME NEW x \in Deciders(p, s) PROVE x.outcome = Yielded(p, s)
    <2>1. Forcing(p, s) = {} /\ x \in Proposers(p, s)
      BY DEF Deciders
    <2>2. ~(Cardinality(Proposed(p, s)) > 1)
      BY <2>1 DEF Undecided
    <2>3. x.outcome = CHOOSE o \in Proposed(p, s) : TRUE
      BY <1>1, <1>2, <2>1, <2>2, OneOutcome
    <2>4. Proposed(p, s) # {}
      BY <1>1, <2>1 DEF Outcomes
    <2> QED BY <2>1, <2>3, <2>4 DEF Yielded
  <1> QED BY <1>3, <1>4
(* They are those whose outcome is the answer's.                           *)
LEMMA ContributorsAre ==
    ASSUME ShowsAll, in \in Input, disposition.kind = "outcome",
           disposition.outcome = Yielded(pack, situation),
           Blocking(pack, situation) = {},
           Forcing(pack, situation) = {} => Undecided(pack, situation) = {}
    PROVE  Contributors = Named("exception", Forcers(pack, situation))
                            \cup Named("rule", Deciders(pack, situation))
  <1> DEFINE o == Yielded(pack, situation)
             E == {e \in ForcingEntries(trace) : e.outcome = o}
             R == {e \in RuleEntries(trace) : e.outcome = o}
             C == {e \in Members(trace) :
                     /\ e.condition = "true" /\ e.outcome = disposition.outcome
                     /\ e.stage = "rule" \/ (e.stage = "exception" /\ e.effect = "force-outcome")}
  <1>1. C = E \cup R
    BY DEF ForcingEntries, RuleEntries
  <1>2. /\ \A x \in Forcers(pack, situation) : x.outcome = o
        /\ \A x \in Deciders(pack, situation) : x.outcome = o
    BY PackFacts, AllAgree
  <1>3. /\ Shown(ForcingEntries(trace)) = Shown(Forcers(pack, situation))
        /\ Shown(RuleEntries(trace)) = Shown(Deciders(pack, situation))
    BY DEF ShowsAll, Shows, Deciders
  <1>4. Named("exception", Forcers(pack, situation)) = {[stage |-> e.stage, id |-> e.id] : e \in E}
    <2>1. \A e \in E : e.stage = "exception"
      BY DEF ForcingEntries
    <2>2. \A e \in E : \E x \in Forcers(pack, situation) : x.id = e.id
      <3> SUFFICES ASSUME NEW e \in ForcingEntries(trace) PROVE \E x \in Forcers(pack, situation) : x.id = e.id
        OBVIOUS
      <3>1. <<e.id, e.outcome>> \in Shown(Forcers(pack, situation))
        BY <1>3 DEF Shown
      <3>2. PICK x \in Forcers(pack, situation) : <<e.id, e.outcome>> = <<x.id, x.outcome>>
        BY <3>1 DEF Shown
      <3> QED BY <3>2
    <2>3. \A x \in Forcers(pack, situation) : \E e \in E : e.id = x.id
      <3> SUFFICES ASSUME NEW x \in Forcers(pack, situation) PROVE \E e \in E : e.id = x.id
        OBVIOUS
      <3>1. <<x.id, x.outcome>> \in Shown(ForcingEntries(trace))
        BY <1>3 DEF Shown
      <3>2. PICK e \in ForcingEntries(trace) : <<x.id, x.outcome>> = <<e.id, e.outcome>>
        BY <3>1 DEF Shown
      <3> QED BY <1>2, <3>2
    <2> HIDE DEF E
    <2> QED BY <2>1, <2>2, <2>3 DEF Named
  <1>5. Named("rule", Deciders(pack, situation)) = {[stage |-> e.stage, id |-> e.id] : e \in R}
    <2>1. \A e \in R : e.stage = "rule"
      BY DEF RuleEntries
    <2>2. \A e \in R : \E x \in Deciders(pack, situation) : x.id = e.id
      <3> SUFFICES ASSUME NEW e \in RuleEntries(trace) PROVE \E x \in Deciders(pack, situation) : x.id = e.id
        OBVIOUS
      <3>1. <<e.id, e.outcome>> \in Shown(Deciders(pack, situation))
        BY <1>3 DEF Shown
      <3>2. PICK x \in Deciders(pack, situation) : <<e.id, e.outcome>> = <<x.id, x.outcome>>
        BY <3>1 DEF Shown
      <3> QED BY <3>2
    <2>3. \A x \in Deciders(pack, situation) : \E e \in R : e.id = x.id
      <3> SUFFICES ASSUME NEW x \in Deciders(pack, situation) PROVE \E e \in R : e.id = x.id
        OBVIOUS
      <3>1. <<x.id, x.outcome>> \in Shown(RuleEntries(trace))
        BY <1>3 DEF Shown
      <3>2. PICK e \in RuleEntries(trace) : <<x.id, x.outcome>> = <<e.id, e.outcome>>
        BY <3>1 DEF Shown
      <3> QED BY <1>2, <3>2
    <2> HIDE DEF R
    <2> QED BY <2>1, <2>2, <2>3 DEF Named
  <1>6. Contributors = {[stage |-> e.stage, id |-> e.id] : e \in C}
    BY DEF Contributors
  <1> HIDE DEF E, R, C
  <1> QED BY <1>1, <1>4, <1>5, <1>6

(* What stays of a set whose named members but one are left out.           *)
Kept(others, stage, S) == {e \in S : [stage |-> stage, id |-> e.id] \notin others}

(* Leaving the other contributors out leaves everything else.              *)
LEMMA KeptForcing ==
    ASSUME NEW p \in Packs, NEW s, NEW f \in Forcers(p, s), NEW others,
           others = Named("exception", Forcers(p, s)) \ {[stage |-> "exception", id |-> f.id]}
    PROVE  /\ Kept(others, "exception", Members(p.exceptions))
                = (Members(p.exceptions) \ Forcers(p, s)) \cup {f}
           /\ Kept(others, "rule", Members(p.rules)) = Members(p.rules)
  <1> DEFINE F == Forcers(p, s)
             M == Members(p.exceptions)
             name(e) == [stage |-> "exception", id |-> e.id]
  <1>1. F \subseteq M
    BY DEF Forcers, With, Holding
  <1>2. \A x, y \in M : x.id = y.id => x = y
    BY IdsUnique
  <1>3. \A x, y \in M : name(x) = name(y) <=> x = y
    BY <1>2
  <1>4. \A e \in M : name(e) \in Named("exception", F) <=> e \in F
    BY <1>1, <1>3 DEF Named
  <1>5. \A e \in M : name(e) \in others <=> e \in F /\ e # f
    BY <1>1, <1>3, <1>4
  <1>6. \A e \in Members(p.rules) : [stage |-> "rule", id |-> e.id] \notin others
    <2> SUFFICES ASSUME NEW i PROVE [stage |-> "rule", id |-> i] \notin others
      OBVIOUS
    <2>1. \A n \in Named("exception", F) : n.stage = "exception"
      BY DEF Named
    <2>2. [stage |-> "rule", id |-> i].stage = "rule"
      OBVIOUS
    <2> QED BY <2>1, <2>2
  <1>7. Kept(others, "exception", M) = (M \ F) \cup {f}
    <2>1. Kept(others, "exception", M) = {e \in M : name(e) \notin others}
      BY DEF Kept
    <2>2. f \in F
      OBVIOUS
    <2> HIDE DEF name, M, F
    <2> QED BY <1>1, <1>5, <2>1, <2>2
  <1> QED BY <1>6, <1>7 DEF Kept

LEMMA KeptDeciding ==
    ASSUME NEW p \in Packs, NEW s, NEW f \in Proposers(p, s), NEW others,
           others = Named("rule", Proposers(p, s)) \ {[stage |-> "rule", id |-> f.id]}
    PROVE  /\ Kept(others, "rule", Members(p.rules))
                = (Members(p.rules) \ Proposers(p, s)) \cup {f}
           /\ Kept(others, "exception", Members(p.exceptions)) = Members(p.exceptions)
  <1> DEFINE F == Proposers(p, s)
             M == Members(p.rules)
             name(e) == [stage |-> "rule", id |-> e.id]
  <1>1. F \subseteq M
    BY DEF Proposers, Live, Holding
  <1>2. \A x, y \in M : x.id = y.id => x = y
    BY IdsUnique
  <1>3. \A x, y \in M : name(x) = name(y) <=> x = y
    BY <1>2
  <1>4. \A e \in M : name(e) \in Named("rule", F) <=> e \in F
    BY <1>1, <1>3 DEF Named
  <1>5. \A e \in M : name(e) \in others <=> e \in F /\ e # f
    BY <1>1, <1>3, <1>4
  <1>6. \A e \in Members(p.exceptions) : [stage |-> "exception", id |-> e.id] \notin others
    <2> SUFFICES ASSUME NEW i PROVE [stage |-> "exception", id |-> i] \notin others
      OBVIOUS
    <2>1. \A n \in Named("rule", F) : n.stage = "rule"
      BY DEF Named
    <2>2. [stage |-> "exception", id |-> i].stage = "exception"
      OBVIOUS
    <2> QED BY <2>1, <2>2
  <1>7. Kept(others, "rule", M) = (M \ F) \cup {f}
    <2>1. Kept(others, "rule", M) = {e \in M : name(e) \notin others}
      BY DEF Kept
    <2>2. f \in F
      OBVIOUS
    <2> HIDE DEF name, M, F
    <2> QED BY <1>1, <1>5, <2>1, <2>2
  <1> QED BY <1>6, <1>7 DEF Kept
(* With one forcing exception left, all that blocks, forces, suppresses or *)
(* asks is what it was.                                                    *)
LEMMA ForcerDecides ==
    ASSUME NEW p \in Packs, NEW q, NEW s, NEW f \in Forcers(p, s),
           q.requirements = p.requirements, q.fallback = p.fallback,
           Members(q.exceptions) = (Members(p.exceptions) \ Forcers(p, s)) \cup {f},
           Members(q.rules) = Members(p.rules),
           Blocking(p, s) = {}
    PROVE  Blocking(q, s) = {} /\ Forcing(q, s) # {} /\ Yields(q, s) /\ Yielded(q, s) = Yielded(p, s)
  <1>1. \A x \in Members(p.exceptions) :
            x \in Forcers(p, s) <=> Verdict(x.when, s) = "true" /\ x.effect = "force-outcome"
    BY DEF Forcers, With, Holding
  <1>2. f \in Members(p.exceptions) /\ Verdict(f.when, s) = "true" /\ f.effect = "force-outcome"
    BY DEF Forcers, With, Holding
  <1>3. Forcing(q, s) = {f.outcome}
    <2>1. With(Holding(Members(q.exceptions), s, "true"), "force-outcome") = {f}
      BY <1>1, <1>2 DEF With, Holding
    <2> QED BY <2>1 DEF Forcing, Outcomes
  <1>4. Holding(Members(q.exceptions), s, "unknown") = Holding(Members(p.exceptions), s, "unknown")
    BY <1>1, <1>2 DEF Holding
  <1>5. With(Holding(Members(q.exceptions), s, "true"), "escalate")
            = With(Holding(Members(p.exceptions), s, "true"), "escalate")
    BY <1>1, <1>2 DEF Holding, With
  <1>6. \A v : RequiredIn(q, s, v) = RequiredIn(p, s, v)
    BY DEF RequiredIn
  <1>7. ~(Cardinality(Forcing(q, s)) > 1)
    BY <1>3, FS_Singleton
  <1>8. Blocking(q, s) = {}
    BY <1>4, <1>5, <1>6, <1>7 DEF Blocking, Asking
  <1>9. f.outcome = Yielded(p, s)
    <2>1. Forcing(p, s) # {}
      <3>1. f.outcome \in Outcomes(Forcers(p, s))
        BY DEF Outcomes
      <3> QED BY <3>1 DEF Forcing, Forcers
    <2> QED BY <2>1, AllAgree
  <1> QED BY <1>3, <1>8, <1>9 DEF Yields, Yielded

(* With one true rule left, all that is undecided or proposed is.          *)
LEMMA ProposerDecides ==
    ASSUME NEW p \in Packs, NEW q, NEW s, NEW f \in Proposers(p, s),
           q.requirements = p.requirements, q.fallback = p.fallback,
           Members(q.exceptions) = Members(p.exceptions),
           Members(q.rules) = (Members(p.rules) \ Proposers(p, s)) \cup {f},
           Blocking(p, s) = {}, Forcing(p, s) = {}, Undecided(p, s) = {}
    PROVE  /\ Blocking(q, s) = {} /\ Forcing(q, s) = {} /\ Undecided(q, s) = {}
           /\ Yields(q, s) /\ Yielded(q, s) = Yielded(p, s)
  <1>1. Suppressing(q, s) = Suppressing(p, s) /\ Forcing(q, s) = Forcing(p, s) /\ Asking(q, s) = Asking(p, s)
    BY DEF Suppressing, Forcing, Asking
  <1>2. \A v : RequiredIn(q, s, v) = RequiredIn(p, s, v)
    BY DEF RequiredIn
  <1>3. Blocking(q, s) = {}
    BY <1>1, <1>2 DEF Blocking
  <1>4. f \in Live(p, s) /\ Verdict(f.when, s) = "true"
    BY DEF Proposers, Holding
  <1>5. Live(q, s) = (Live(p, s) \ Proposers(p, s)) \cup {f}
    BY <1>1, <1>4 DEF Live
  <1>6. Proposed(q, s) = {f.outcome}
    <2>1. Holding(Live(q, s), s, "true") = {f}
      BY <1>4, <1>5 DEF Holding, Proposers
    <2> QED BY <2>1 DEF Proposed, Outcomes
  <1>7. Holding(Live(q, s), s, "unknown") = Holding(Live(p, s), s, "unknown")
    BY <1>4, <1>5 DEF Holding, Proposers
  <1>8. ~(Cardinality(Proposed(q, s)) > 1)
    <2>1. Cardinality({f.outcome}) = 1
      BY FS_Singleton
    <2> QED BY <1>6, <2>1
  <1>9. Undecided(q, s) = {}
    BY <1>7, <1>8 DEF Undecided
  <1>10. f.outcome = Yielded(p, s)
    BY AllAgree DEF Deciders
  <1> QED BY <1>1, <1>3, <1>6, <1>9, <1>10 DEF Yields, Yielded

(* A pack with other exceptions and rules is otherwise the same.           *)
LEMMA KeepingIs ==
    ASSUME in \in Input, NEW x
    PROVE  /\ Keeping(pack, x).applicability = pack.applicability
           /\ Keeping(pack, x).requirements = pack.requirements
           /\ Keeping(pack, x).escalation = pack.escalation
           /\ Keeping(pack, x).values = pack.values
           /\ Keeping(pack, x).fallback = pack.fallback
           /\ Members(Keeping(pack, x).exceptions)
                = Kept(Contributors \ {x}, "exception", Members(pack.exceptions))
           /\ Members(Keeping(pack, x).rules) = Kept(Contributors \ {x}, "rule", Members(pack.rules))
  <1> DEFINE E == Kept(Contributors \ {x}, "exception", Members(pack.exceptions))
             R == Kept(Contributors \ {x}, "rule", Members(pack.rules))
  <1>1. IsFiniteSet(E) /\ IsFiniteSet(R)
    <2>1. E \subseteq Members(pack.exceptions) /\ R \subseteq Members(pack.rules)
      BY DEF Kept
    <2> QED BY <2>1, PackFacts, PackFinite, FS_Subset
  <1>2. Members(Arranged(E)) = E /\ Members(Arranged(R)) = R
    BY <1>1, ArrangedMembers
  <1>3. Keeping(pack, x) = [pack EXCEPT !.exceptions = Arranged(E), !.rules = Arranged(R)]
    BY DEF Keeping, Kept
  <1>4. {"applicability", "requirements", "exceptions", "rules", "fallback", "escalation", "values"}
            \subseteq DOMAIN pack
    BY PackFacts, PackAssumption
  <1> HIDE DEF E, R
  <1> QED BY <1>2, <1>3, <1>4 DEF E, R
(* One contributor does without the others.                                *)
LEMMA EachDecides ==
    ASSUME WalkInv, ShownInv, pc = "done", disposition.kind = "outcome", NEW x \in Contributors
    PROVE  Declared(Keeping(pack, x), situation, in.outcomeValues) = disposition
  <1> DEFINE q == Keeping(pack, x)
             carry == in.outcomeValues
  <1>1. in \in Input /\ pack \in Packs /\ situation \in Situation /\ carry \in BOOLEAN
        /\ disposition = Declared(pack, situation, carry)
    BY PackFacts DEF WalkInv, ResultDeclared
  <1>2. /\ Applies(pack, situation) = "true" /\ Blocking(pack, situation) = {}
        /\ Yields(pack, situation)
        /\ Forcing(pack, situation) = {} => Undecided(pack, situation) = {}
        /\ carry => \A i \in DOMAIN Sources(pack, Yielded(pack, situation)) :
                        situation[Sources(pack, Yielded(pack, situation))[i]] = "true"
        /\ disposition = Disposition(pack, "outcome", Yielded(pack, situation), {}, FALSE)
    BY <1>1, OutcomeDeclared
  <1>3. disposition.outcome = Yielded(pack, situation)
    BY <1>2 DEF Disposition
  <1>4. Contributors = Named("exception", Forcers(pack, situation))
                         \cup Named("rule", Deciders(pack, situation))
    BY <1>1, <1>2, <1>3, ContributorsAre DEF ShownInv
  <1>5. /\ q.applicability = pack.applicability /\ q.requirements = pack.requirements
        /\ q.escalation = pack.escalation /\ q.values = pack.values /\ q.fallback = pack.fallback
        /\ Members(q.exceptions) = Kept(Contributors \ {x}, "exception", Members(pack.exceptions))
        /\ Members(q.rules) = Kept(Contributors \ {x}, "rule", Members(pack.rules))
    BY <1>1, KeepingIs
  <1> HIDE DEF q, carry
  <1>6. /\ Blocking(q, situation) = {} /\ Yields(q, situation)
        /\ Yielded(q, situation) = Yielded(pack, situation)
        /\ Forcing(q, situation) = {} => Undecided(q, situation) = {}
    <2>1. CASE Forcing(pack, situation) # {}
      <3>1. Contributors = Named("exception", Forcers(pack, situation))
        BY <1>4, <2>1 DEF Deciders, Named
      <3>2. PICK f \in Forcers(pack, situation) : x = [stage |-> "exception", id |-> f.id]
        BY <3>1 DEF Named
      <3>3. /\ Members(q.exceptions) = (Members(pack.exceptions) \ Forcers(pack, situation)) \cup {f}
            /\ Members(q.rules) = Members(pack.rules)
        <4>1. Contributors \ {x}
                = Named("exception", Forcers(pack, situation)) \ {[stage |-> "exception", id |-> f.id]}
          BY <3>1, <3>2
        <4> QED BY <1>1, <1>5, <4>1, KeptForcing
      <3> QED BY <1>1, <1>2, <1>5, <3>3, ForcerDecides
    <2>2. CASE Forcing(pack, situation) = {}
      <3>1. Forcers(pack, situation) = {}
        BY <2>2 DEF Forcing, Forcers, Outcomes
      <3>2. Contributors = Named("rule", Proposers(pack, situation))
        BY <1>4, <2>2, <3>1 DEF Deciders, Named
      <3>3. PICK f \in Proposers(pack, situation) : x = [stage |-> "rule", id |-> f.id]
        BY <3>2 DEF Named
      <3>4. /\ Members(q.rules) = (Members(pack.rules) \ Proposers(pack, situation)) \cup {f}
            /\ Members(q.exceptions) = Members(pack.exceptions)
        <4>1. Contributors \ {x}
                = Named("rule", Proposers(pack, situation)) \ {[stage |-> "rule", id |-> f.id]}
          BY <3>2, <3>3
        <4> QED BY <1>1, <1>5, <4>1, KeptDeciding
      <3> QED BY <1>1, <1>2, <1>5, <2>2, <3>4, ProposerDecides
    <2> QED BY <2>1, <2>2
  <1>7. Declared(q, situation, carry) = Disposition(pack, "outcome", Yielded(pack, situation), {}, FALSE)
    BY <1>1, <1>2, <1>5, <1>6, OutcomeRedeclared
  <1> QED BY <1>2, <1>7 DEF q, carry

(* Nothing contributes to the fallback's outcome only.                     *)
LEMMA FallbackAlone ==
    ASSUME WalkInv, ShownInv, pc = "done", disposition.kind = "outcome"
    PROVE  Contributors = {} <=>
             Declared([pack EXCEPT !.fallback = NoOutcome], situation, in.outcomeValues).kind # "outcome"
  <1> DEFINE q == [pack EXCEPT !.fallback = NoOutcome]
             carry == in.outcomeValues
  <1>1. in \in Input /\ pack \in Packs /\ situation \in Situation /\ carry \in BOOLEAN
        /\ disposition = Declared(pack, situation, carry)
    BY PackFacts DEF WalkInv, ResultDeclared
  <1>2. /\ Applies(pack, situation) = "true" /\ Blocking(pack, situation) = {}
        /\ Yields(pack, situation)
        /\ Forcing(pack, situation) = {} => Undecided(pack, situation) = {}
        /\ carry => \A i \in DOMAIN Sources(pack, Yielded(pack, situation)) :
                        situation[Sources(pack, Yielded(pack, situation))[i]] = "true"
        /\ disposition = Disposition(pack, "outcome", Yielded(pack, situation), {}, FALSE)
    BY <1>1, OutcomeDeclared
  <1>3. disposition.outcome = Yielded(pack, situation)
    BY <1>2 DEF Disposition
  <1>4. Contributors = Named("exception", Forcers(pack, situation))
                         \cup Named("rule", Deciders(pack, situation))
    BY <1>1, <1>2, <1>3, ContributorsAre DEF ShownInv
  <1>5. /\ q.applicability = pack.applicability /\ q.requirements = pack.requirements
        /\ q.escalation = pack.escalation /\ q.values = pack.values
        /\ q.exceptions = pack.exceptions /\ q.rules = pack.rules /\ q.fallback = NoOutcome
    <2>1. {"applicability", "requirements", "exceptions", "rules", "fallback", "escalation", "values"}
            \subseteq DOMAIN pack
      BY <1>1, PackAssumption
    <2> QED BY <2>1
  <1> HIDE DEF q, carry
  <1>6. /\ Forcing(q, situation) = Forcing(pack, situation)
        /\ Suppressing(q, situation) = Suppressing(pack, situation)
        /\ Asking(q, situation) = Asking(pack, situation)
        /\ Live(q, situation) = Live(pack, situation)
    BY <1>5 DEF Forcing, Suppressing, Asking, Live
  <1>7. /\ Proposed(q, situation) = Proposed(pack, situation)
        /\ Undecided(q, situation) = Undecided(pack, situation)
    BY <1>6 DEF Proposed, Undecided
  <1>8. Blocking(q, situation) = {}
    <2>1. \A v : RequiredIn(q, situation, v) = RequiredIn(pack, situation, v)
      BY <1>5 DEF RequiredIn
    <2> QED BY <1>2, <1>5, <1>6, <2>1 DEF Blocking
  <1>9. Contributors = {} <=> Forcing(pack, situation) = {} /\ Proposed(pack, situation) = {}
    <2>1. /\ Forcing(pack, situation) = {} <=> Forcers(pack, situation) = {}
          /\ Proposed(pack, situation) = {} <=> Proposers(pack, situation) = {}
      BY DEF Forcing, Forcers, Proposed, Proposers, Outcomes
    <2>2. \A stage, S : Named(stage, S) = {} <=> S = {}
      BY DEF Named
    <2> QED BY <1>4, <2>1, <2>2 DEF Deciders
  <1>10. CASE Contributors = {}
    <2>1. Applies(q, situation) = "true" /\ ~ Yields(q, situation)
      BY <1>2, <1>5, <1>6, <1>7, <1>9, <1>10 DEF Yields, Applies
    <2>2. Declared(q, situation, carry) = Unresolved(q, situation, {"no-match"})
      BY <1>2, <1>6, <1>7, <1>8, <1>9, <1>10, <2>1, DeclaredYield
    <2>3. Declared(q, situation, carry).kind # "outcome"
      BY <2>2 DEF Unresolved, Disposition
    <2> QED BY <1>10, <2>3 DEF q, carry
  <1>11. CASE Contributors # {}
    <2>1. Yields(q, situation) /\ Yielded(q, situation) = Yielded(pack, situation)
      BY <1>6, <1>7, <1>9, <1>11 DEF Yields, Yielded
    <2>2. Declared(q, situation, carry) = Disposition(pack, "outcome", Yielded(pack, situation), {}, FALSE)
      BY <1>1, <1>2, <1>5, <1>6, <1>7, <1>8, <2>1, OutcomeRedeclared
    <2>3. Declared(q, situation, carry).kind = "outcome"
      BY <2>2 DEF Disposition
    <2> QED BY <1>11, <2>3 DEF q, carry
  <1> QED BY <1>10, <1>11

(* A handoff an exception asks for names what was retained.                *)
LEMMA AskedIsHeard ==
    ASSUME WalkInv, pc = "done", Applies(pack, situation) = "true", Asking(pack, situation)
    PROVE  EscalationHeard
  <1>0. PICK asked : asked = Asking(pack, situation)
    OBVIOUS
  <1> DEFINE why == Blocking(pack, situation)
             by == Triggered(pack, why, asked)
  <1>1. in \in Input /\ disposition = Declared(pack, situation, in.outcomeValues)
    BY DEF WalkInv, ResultDeclared
  <1>2. "exception-escalation" \in why /\ asked = TRUE
    BY <1>0 DEF Blocking, Asking
  <1>3. disposition = Disposition(pack, "unresolved", NoOutcome, why, asked)
    BY <1>0, <1>1, <1>2, DeclaredUnblocked DEF Unresolved
  <1>4. /\ disposition.kind = "unresolved" /\ disposition.reasons = why
        /\ disposition.handoff = Handoff(pack, why, asked)
    BY <1>3 DEF Disposition
  <1>5. by # {} /\ by \subseteq why
    BY <1>2 DEF Triggered
  <1> HIDE DEF why, by
  <1>6. CASE ~ Routed(pack)
    <2>1. disposition.handoff.state = "requested" /\ disposition.handoff.triggeredBy = by
      BY <1>4, <1>5, <1>6 DEF Handoff, by
    <2> QED BY <1>2, <1>4, <1>5, <2>1 DEF EscalationHeard
  <1>7. CASE Routed(pack) /\ \E i \in DOMAIN pack.escalation.routes : Selects(pack.escalation.routes[i], why)
    <2>1. disposition.handoff.state = "requested" /\ disposition.handoff.triggeredBy = by
      BY <1>4, <1>5, <1>7 DEF Handoff, by
    <2> QED BY <1>2, <1>4, <1>5, <2>1 DEF EscalationHeard
  <1>8. CASE Routed(pack) /\ ~ \E i \in DOMAIN pack.escalation.routes : Selects(pack.escalation.routes[i], why)
    <2>1. disposition.handoff = NoHandoff(pack)
      BY <1>4, <1>5, <1>8 DEF Handoff, by
    <2>2. disposition.handoff.triggeredBy = {}
      BY <2>1 DEF NoHandoff
    <2>3. \A r \in Members(pack.escalation.routes) : ~ Selects(r, why)
      BY <1>8 DEF Members
    <2>4. \A r \in Members(pack.escalation.routes) : r.triggers # NoFilter /\ r.triggers \cap why = {}
      BY <2>3 DEF Selects
    <2> QED BY <1>2, <1>4, <1>8, <2>2, <2>4 DEF EscalationHeard
  <1> QED BY <1>6, <1>7, <1>8

(* What a result is put down to decides it (resolve.go): each contributor  *)
(* an answer names would lead to it alone, it names none exactly when only *)
(* the fallback did, and no answer passes over a handoff that a true       *)
(* exception asked for.                                                    *)
THEOREM ContributorsSettle == Spec => []ContributorsDecide
  <1>1. WalkInv /\ ShownInv => ContributorsDecide
    <2> SUFFICES ASSUME WalkInv, ShownInv PROVE ContributorsDecide
      OBVIOUS
    <2> QED BY EachDecides, FallbackAlone, AskedIsHeard DEF ContributorsDecide
  <1> QED BY <1>1, WalkInvariant, ShownInvariant, PTL
-----------------------------------------------------------------------------
(* Sums of numbers, as the size of a set of units.                         *)
Units(f, S) == UNION {{x} \X (1 .. f[x]) : x \in S}

LEMMA UnitsAdd ==
    ASSUME NEW S, IsFiniteSet(S), NEW f \in [S -> Nat], NEW T \in SUBSET S, NEW x \in T,
           IsFiniteSet(Units(f, T \ {x}))
    PROVE  /\ IsFiniteSet(Units(f, T))
           /\ Cardinality(Units(f, T)) = f[x] + Cardinality(Units(f, T \ {x}))
  <1> DEFINE A == {x} \X (1 .. f[x])
             B == Units(f, T \ {x})
  <1>1. Units(f, T) = A \cup B
    BY DEF Units
  <1>2. A \cap B = {}
    BY DEF Units
  <1>3. f[x] \in Nat
    OBVIOUS
  <1>4. IsFiniteSet(1 .. f[x]) /\ Cardinality(1 .. f[x]) = f[x]
    BY <1>3, FS_Interval
  <1>5. IsFiniteSet({x}) /\ Cardinality({x}) = 1
    BY FS_Singleton
  <1>6. IsFiniteSet(A) /\ Cardinality(A) = 1 * f[x]
    <2>1. PICK X, C : X = {x} /\ C = 1 .. f[x]
      OBVIOUS
    <2>2. IsFiniteSet(X) /\ IsFiniteSet(C) /\ Cardinality(X) = 1 /\ Cardinality(C) = f[x]
      BY <1>4, <1>5, <2>1
    <2>3. IsFiniteSet(X \X C) /\ Cardinality(X \X C) = Cardinality(X) * Cardinality(C)
      BY ONLY <2>2, FS_Product
    <2> QED BY <2>1, <2>2, <2>3
  <1>7. Cardinality(A \cap B) = 0 /\ Cardinality(B) \in Nat
    BY <1>2, FS_EmptySet, FS_CardinalityType
  <1> HIDE DEF A, B
  <1>8. IsFiniteSet(A \cup B) /\ Cardinality(A \cup B) = Cardinality(A) + Cardinality(B) - Cardinality(A \cap B)
    BY <1>6, FS_Union DEF B
  <1> QED BY <1>1, <1>3, <1>6, <1>7, <1>8 DEF B

(* A set of numbers that is not empty has a least one.                     *)
LEMMA Least ==
    ASSUME NEW N \in SUBSET Nat, N # {} PROVE \E n \in N : \A m \in N : n <= m
  <1>1. \E n \in N : \A m \in N : ~(<<m, n>> \in OpToRel(<, Nat))
    BY WFMin, NatLessThanWellFounded
  <1>2. \A n, m \in N : m < n => <<m, n>> \in OpToRel(<, Nat)
    BY DEF OpToRel
  <1>3. \A n, m \in N : ~ (m < n) => n <= m
    OBVIOUS
  <1> QED BY <1>1, <1>2, <1>3

(* Of some of the subsets of a finite set, one has none of them with an    *)
(* element less.                                                           *)
LEMMA LeastSubset ==
    ASSUME NEW S, IsFiniteSet(S), NEW C \in SUBSET (SUBSET S), C # {}
    PROVE  \E T \in C : \A x \in T : T \ {x} \notin C
  <1> DEFINE N == {Cardinality(T) : T \in C}
  <1>1. \A T \in C : IsFiniteSet(T) /\ Cardinality(T) \in Nat
    BY FS_Subset, FS_CardinalityType
  <1>2. N \in SUBSET Nat /\ N # {}
    BY <1>1
  <1>3. PICK T \in C : \A U \in C : Cardinality(T) <= Cardinality(U)
    <2>1. PICK n \in N : \A m \in N : n <= m
      BY <1>2, Least
    <2> QED BY <2>1
  <1>4. ASSUME NEW x \in T PROVE T \ {x} \notin C
    <2>1. Cardinality(T \ {x}) = Cardinality(T) - 1
      BY <1>1, FS_RemoveElement
    <2>2. Cardinality(T) \in Nat
      BY <1>1
    <2>3. ~ (Cardinality(T) <= Cardinality(T) - 1)
      BY <2>2
    <2> QED BY <1>3, <2>1, <2>3
  <1> QED BY <1>4

(* The recursive equation a sum solves.                                    *)
Sums(f, S, h) ==
    h = [s \in SUBSET S |-> IF s = {} THEN 0
                            ELSE f[CHOOSE x \in s : TRUE] + h[s \ {CHOOSE x \in s : TRUE}]]

LEMMA SumSolves ==
    ASSUME NEW f, NEW S, S = DOMAIN f PROVE SumFunction(f) = (CHOOSE h : Sums(f, S, h))[S]
  <1>1. \A T : SumFunctionOnSet(f, T) = (CHOOSE h : Sums(f, T, h))[T]
    BY DEF SumFunctionOnSet, FoldFunctionOnSet, MapThenFoldSet, Sums
  <1> QED BY <1>1 DEF SumFunction

LEMMA UnitsFinite ==
    ASSUME NEW S, IsFiniteSet(S), NEW f \in [S -> Nat]
    PROVE  \A T \in SUBSET S : IsFiniteSet(Units(f, T))
  <1> SUFFICES ASSUME NEW T \in SUBSET S, ~ IsFiniteSet(Units(f, T)) PROVE FALSE
    OBVIOUS
  <1> DEFINE C == {U \in SUBSET S : ~ IsFiniteSet(Units(f, U))}
  <1>1. C \in SUBSET (SUBSET S) /\ C # {}
    OBVIOUS
  <1>2. PICK U \in C : \A x \in U : U \ {x} \notin C
    BY <1>1, LeastSubset
  <1>3. CASE U = {}
    <2>1. Units(f, U) = {}
      BY <1>3 DEF Units
    <2> QED BY <1>2, <2>1, FS_EmptySet
  <1>4. CASE U # {}
    <2>1. PICK x \in U : TRUE
      BY <1>4
    <2>2. IsFiniteSet(Units(f, U \ {x}))
      BY <1>2, <2>1
    <2> QED BY <1>2, <2>1, <2>2, UnitsAdd
  <1> QED BY <1>3, <1>4

(* A sum is the size of its units.                                         *)
LEMMA SumIsSize ==
    ASSUME NEW S, IsFiniteSet(S), NEW f \in [S -> Nat]
    PROVE  IsFiniteSet(Units(f, S)) /\ SumFunction(f) = Cardinality(Units(f, S))
  <1> DEFINE g == [s \in SUBSET S |-> Cardinality(Units(f, s))]
             h == CHOOSE h : Sums(f, S, h)
  <1>1. ASSUME NEW s \in SUBSET S, s # {}
        PROVE  Cardinality(Units(f, s)) = f[CHOOSE x \in s : TRUE] + Cardinality(Units(f, s \ {CHOOSE x \in s : TRUE}))
    <2>1. \A x \in s : Cardinality(Units(f, s)) = f[x] + Cardinality(Units(f, s \ {x}))
      <3> SUFFICES ASSUME NEW x \in s
                   PROVE  Cardinality(Units(f, s)) = f[x] + Cardinality(Units(f, s \ {x}))
        OBVIOUS
      <3>1. IsFiniteSet(Units(f, s \ {x}))
        BY UnitsFinite
      <3> QED BY <3>1, UnitsAdd
    <2>2. (CHOOSE x \in s : TRUE) \in s
      BY <1>1
    <2> QED BY <2>1, <2>2
  <1>2. Cardinality(Units(f, {})) = 0
    BY FS_EmptySet DEF Units
  <1>3. Sums(f, S, g)
    <2>1. \A s \in SUBSET S : g[s] = IF s = {} THEN 0
                            ELSE f[CHOOSE x \in s : TRUE] + g[s \ {CHOOSE x \in s : TRUE}]
      BY <1>1, <1>2
    <2>2. g = [s \in SUBSET S |-> g[s]]
      OBVIOUS
    <2> HIDE DEF g
    <2> QED BY <2>1, <2>2 DEF Sums
  <1>4. Sums(f, S, h)
    BY <1>3
  <1> HIDE DEF h, g
  <1>5. \A s \in SUBSET S : h[s] = IF s = {} THEN 0
                            ELSE f[CHOOSE x \in s : TRUE] + h[s \ {CHOOSE x \in s : TRUE}]
    BY <1>4 DEF Sums
  <1>6. \A s \in SUBSET S : h[s] = Cardinality(Units(f, s))
    <2> SUFFICES ASSUME NEW T \in SUBSET S, h[T] # Cardinality(Units(f, T)) PROVE FALSE
      OBVIOUS
    <2> DEFINE C == {U \in SUBSET S : h[U] # Cardinality(Units(f, U))}
    <2>1. C \in SUBSET (SUBSET S) /\ T \in C
      OBVIOUS
    <2>2. PICK U \in C : \A x \in U : U \ {x} \notin C
      BY <2>1, LeastSubset
    <2>3. CASE U = {}
      BY <1>2, <1>5, <2>2, <2>3
    <2>4. CASE U # {}
      <3>1. PICK x : x = (CHOOSE y \in U : TRUE) /\ x \in U
        BY <2>4
      <3>2. h[U \ {x}] = Cardinality(Units(f, U \ {x}))
        BY <2>2, <3>1
      <3>3. h[U] = f[x] + h[U \ {x}]
        BY <1>5, <2>2, <2>4, <3>1
      <3>4. Cardinality(Units(f, U)) = f[x] + Cardinality(Units(f, U \ {x}))
        BY <1>1, <2>2, <2>4, <3>1
      <3> QED BY <2>2, <3>2, <3>3, <3>4
    <2> QED BY <2>3, <2>4
  <1>7. SumFunction(f) = h[S]
    BY SumSolves DEF h
  <1> QED BY <1>6, <1>7, UnitsFinite

(* The sums of two disjoint parts.                                         *)
LEMMA SumOfParts ==
    ASSUME NEW A, NEW B, IsFiniteSet(A), IsFiniteSet(B), A \cap B = {},
           NEW f \in [A -> Nat], NEW g \in [B -> Nat], NEW h \in [A \cup B -> Nat],
           \A x \in A : h[x] = f[x], \A x \in B : h[x] = g[x]
    PROVE  /\ SumFunction(f) \in Nat /\ SumFunction(g) \in Nat
           /\ SumFunction(h) = SumFunction(f) + SumFunction(g)
  <1>1. IsFiniteSet(A \cup B)
    BY FS_Union
  <1>2. /\ IsFiniteSet(Units(f, A)) /\ SumFunction(f) = Cardinality(Units(f, A))
        /\ IsFiniteSet(Units(g, B)) /\ SumFunction(g) = Cardinality(Units(g, B))
        /\ SumFunction(h) = Cardinality(Units(h, A \cup B))
    BY <1>1, SumIsSize
  <1>3. Units(h, A \cup B) = Units(f, A) \cup Units(g, B)
    BY DEF Units
  <1>4. Units(f, A) \cap Units(g, B) = {}
    BY DEF Units
  <1>5. Cardinality(Units(f, A) \cap Units(g, B)) = 0
    BY <1>4, FS_EmptySet
  <1>6. Cardinality(Units(f, A)) \in Nat /\ Cardinality(Units(g, B)) \in Nat
    BY <1>2, FS_CardinalityType
  <1>7. Cardinality(Units(f, A) \cup Units(g, B))
            = Cardinality(Units(f, A)) + Cardinality(Units(g, B)) - Cardinality(Units(f, A) \cap Units(g, B))
    BY <1>2, FS_Union
  <1>8. SumFunction(h) = Cardinality(Units(f, A) \cup Units(g, B))
    BY <1>2, <1>3
  <1>9. SumFunction(f) \in Nat /\ SumFunction(g) \in Nat
    BY <1>2, <1>6
  <1> QED BY <1>2, <1>5, <1>6, <1>7, <1>8, <1>9

(* The sum of one.                                                         *)
LEMMA SumOfOne ==
    ASSUME NEW x, NEW f \in [{x} -> Nat] PROVE SumFunction(f) = f[x]
  <1>1. IsFiniteSet({x}) /\ SumFunction(f) = Cardinality(Units(f, {x}))
    BY FS_Singleton, SumIsSize
  <1>2. Units(f, {x} \ {x}) = {}
    BY DEF Units
  <1>3. IsFiniteSet({}) /\ Cardinality({}) = 0
    BY FS_EmptySet
  <1>4. Cardinality(Units(f, {x})) = f[x] + Cardinality(Units(f, {x} \ {x}))
    BY <1>1, <1>2, <1>3, UnitsAdd
  <1> QED BY <1>1, <1>2, <1>3, <1>4
-----------------------------------------------------------------------------
(* What has been charged for.                                              *)

Spent(S, s) == SumFunction([x \in S |-> Steps(x.when, s)])
Valued(src, J, s) == SumFunction([j \in J |-> StepUnits(src[j], s)])
Conditioned(S) == IsFiniteSet(S) /\ \A x \in S : x.when \in Cond
Pointers(S) == IsFiniteSet(S) /\ S \subseteq Atom
Placed(src, J) == IsFiniteSet(J) /\ \A j \in J : src[j] \in Atom

(* What is added to a part is the rest.                                    *)
LEMMA SpentMore ==
    ASSUME NEW T, Conditioned(T), NEW S, S \subseteq T, NEW s \in Situation
    PROVE  /\ Spent(S, s) \in Nat /\ Spent(T \ S, s) \in Nat
           /\ Spent(T, s) = Spent(S, s) + Spent(T \ S, s)
  <1> DEFINE f == [x \in S |-> Steps(x.when, s)]
             g == [x \in T \ S |-> Steps(x.when, s)]
             h == [x \in T |-> Steps(x.when, s)]
  <1>1. \A x \in T : Steps(x.when, s) \in Nat
    BY WorkAssumption DEF Conditioned
  <1>2. f \in [S -> Nat] /\ g \in [T \ S -> Nat] /\ h \in [T -> Nat]
    BY <1>1
  <1>3. (\A x \in S : h[x] = f[x]) /\ (\A x \in T \ S : h[x] = g[x])
    OBVIOUS
  <1>4. IsFiniteSet(S) /\ IsFiniteSet(T \ S)
    BY FS_Subset DEF Conditioned
  <1>5. /\ Spent(S, s) = SumFunction(f) /\ Spent(T \ S, s) = SumFunction(g)
        /\ Spent(T, s) = SumFunction(h)
    BY DEF Spent
  <1> HIDE DEF f, g, h
  <1>6. PICK R : R = T \ S
    OBVIOUS
  <1>7. S \cap R = {} /\ T = S \cup R /\ h \in [S \cup R -> Nat] /\ g \in [R -> Nat] /\ IsFiniteSet(R)
    BY <1>2, <1>4, <1>6
  <1>8. /\ SumFunction(f) \in Nat /\ SumFunction(g) \in Nat
        /\ SumFunction(h) = SumFunction(f) + SumFunction(g)
    BY <1>2, <1>3, <1>4, <1>6, <1>7, SumOfParts
  <1> QED BY <1>5, <1>8

LEMMA CompilingMore ==
    ASSUME NEW T, Pointers(T), NEW S, S \subseteq T
    PROVE  /\ Compiling(S) \in Nat /\ Compiling(T \ S) \in Nat
           /\ Compiling(T) = Compiling(S) + Compiling(T \ S)
  <1> DEFINE f == [x \in S |-> ScanUnits(x)]
             g == [x \in T \ S |-> ScanUnits(x)]
             h == [x \in T |-> ScanUnits(x)]
  <1>1. \A x \in T : ScanUnits(x) \in Nat
    BY WorkAssumption DEF Pointers
  <1>2. f \in [S -> Nat] /\ g \in [T \ S -> Nat] /\ h \in [T -> Nat]
    BY <1>1
  <1>3. (\A x \in S : h[x] = f[x]) /\ (\A x \in T \ S : h[x] = g[x])
    OBVIOUS
  <1>4. IsFiniteSet(S) /\ IsFiniteSet(T \ S)
    BY FS_Subset DEF Pointers
  <1>5. /\ Compiling(S) = SumFunction(f) /\ Compiling(T \ S) = SumFunction(g)
        /\ Compiling(T) = SumFunction(h)
    BY DEF Compiling
  <1> HIDE DEF f, g, h
  <1>6. PICK R : R = T \ S
    OBVIOUS
  <1>7. S \cap R = {} /\ T = S \cup R /\ h \in [S \cup R -> Nat] /\ g \in [R -> Nat] /\ IsFiniteSet(R)
    BY <1>2, <1>4, <1>6
  <1>8. /\ SumFunction(f) \in Nat /\ SumFunction(g) \in Nat
        /\ SumFunction(h) = SumFunction(f) + SumFunction(g)
    BY <1>2, <1>3, <1>4, <1>6, <1>7, SumOfParts
  <1> QED BY <1>5, <1>8

LEMMA ValuedMore ==
    ASSUME NEW src, NEW T, Placed(src, T), NEW S, S \subseteq T, NEW s \in Situation
    PROVE  /\ Valued(src, S, s) \in Nat /\ Valued(src, T \ S, s) \in Nat
           /\ Valued(src, T, s) = Valued(src, S, s) + Valued(src, T \ S, s)
  <1> DEFINE f == [x \in S |-> StepUnits(src[x], s)]
             g == [x \in T \ S |-> StepUnits(src[x], s)]
             h == [x \in T |-> StepUnits(src[x], s)]
  <1>1. \A x \in T : StepUnits(src[x], s) \in Nat
    BY WorkAssumption DEF Placed
  <1>2. f \in [S -> Nat] /\ g \in [T \ S -> Nat] /\ h \in [T -> Nat]
    BY <1>1
  <1>3. (\A x \in S : h[x] = f[x]) /\ (\A x \in T \ S : h[x] = g[x])
    OBVIOUS
  <1>4. IsFiniteSet(S) /\ IsFiniteSet(T \ S)
    BY FS_Subset DEF Placed
  <1>5. /\ Valued(src, S, s) = SumFunction(f) /\ Valued(src, T \ S, s) = SumFunction(g)
        /\ Valued(src, T, s) = SumFunction(h)
    BY DEF Valued
  <1> HIDE DEF f, g, h
  <1>6. PICK R : R = T \ S
    OBVIOUS
  <1>7. S \cap R = {} /\ T = S \cup R /\ h \in [S \cup R -> Nat] /\ g \in [R -> Nat] /\ IsFiniteSet(R)
    BY <1>2, <1>4, <1>6
  <1>8. /\ SumFunction(f) \in Nat /\ SumFunction(g) \in Nat
        /\ SumFunction(h) = SumFunction(f) + SumFunction(g)
    BY ONLY <1>2, <1>3, <1>4, <1>6, <1>7, SumOfParts
  <1> QED BY <1>5, <1>8

(* One member, and one value.                                              *)
LEMMA SpentOne ==
    ASSUME NEW x, x.when \in Cond, NEW s \in Situation PROVE Spent({x}, s) = Steps(x.when, s)
  <1> DEFINE f == [y \in {x} |-> Steps(y.when, s)]
  <1>1. f \in [{x} -> Nat] /\ f[x] = Steps(x.when, s)
    BY WorkAssumption
  <1>2. Spent({x}, s) = SumFunction(f)
    BY DEF Spent
  <1> HIDE DEF f
  <1> QED BY <1>1, <1>2, SumOfOne

LEMMA ValuedOne ==
    ASSUME NEW src, NEW j, src[j] \in Atom, NEW s \in Situation
    PROVE  Valued(src, {j}, s) = StepUnits(src[j], s)
  <1> DEFINE f == [y \in {j} |-> StepUnits(src[y], s)]
  <1>1. f \in [{j} -> Nat] /\ f[j] = StepUnits(src[j], s)
    BY WorkAssumption
  <1>2. Valued(src, {j}, s) = SumFunction(f)
    BY DEF Valued
  <1> HIDE DEF f
  <1> QED BY <1>1, <1>2, SumOfOne

(* The work of n units, the conditions of E and of L, the values at the    *)
(* places J of src, and compiling the pointers Q.                          *)
Work(n, E, L, src, J, Q, s) == n + Spent(E, s) + Spent(L, s) + Valued(src, J, s) + Compiling(Q)

(* More is not less.                                                       *)
LEMMA WorkGrows ==
    ASSUME NEW s \in Situation, NEW m \in Nat, NEW n \in Nat, m <= n,
           NEW E, NEW F, E \subseteq F, Conditioned(F),
           NEW L, NEW M, L \subseteq M, Conditioned(M),
           NEW src, NEW J, NEW K, J \subseteq K, Placed(src, K),
           NEW Q, NEW R, Q \subseteq R, Pointers(R)
    PROVE  /\ Work(m, E, L, src, J, Q, s) \in Nat /\ Work(n, F, M, src, K, R, s) \in Nat
           /\ Work(m, E, L, src, J, Q, s) <= Work(n, F, M, src, K, R, s)
  <1>1. Spent(E, s) \in Nat /\ Spent(F \ E, s) \in Nat /\ Spent(F, s) = Spent(E, s) + Spent(F \ E, s)
    BY SpentMore
  <1>2. Spent(L, s) \in Nat /\ Spent(M \ L, s) \in Nat /\ Spent(M, s) = Spent(L, s) + Spent(M \ L, s)
    BY ONLY SpentMore, L \subseteq M, Conditioned(M), s \in Situation
  <1>3. /\ Valued(src, J, s) \in Nat /\ Valued(src, K \ J, s) \in Nat
        /\ Valued(src, K, s) = Valued(src, J, s) + Valued(src, K \ J, s)
    BY ValuedMore
  <1>4. /\ Compiling(Q) \in Nat /\ Compiling(R \ Q) \in Nat
        /\ Compiling(R) = Compiling(Q) + Compiling(R \ Q)
    BY CompilingMore
  <1> QED BY <1>1, <1>2, <1>3, <1>4 DEF Work
-----------------------------------------------------------------------------
(* The work of an input, by what was done of it: n units, the conditions   *)
(* of the exceptions E and the rules L, the values at the places J.        *)
Entered(i) ==
    IF i.pack.applicability = NoCond THEN {} ELSE Scans(i.pack.applicability, i.situation)
Entrance(i) ==
    Iteration(i.pack) + (IF i.pack.applicability = NoCond THEN 0 ELSE Steps(i.pack.applicability, i.situation))
Visited(i) == IF Applies(i.pack, i.situation) = "true" THEN Members(i.pack.exceptions) ELSE {}
Tried(i) == IF RulesReached(i.pack, i.situation) THEN Live(i.pack, i.situation) ELSE {}
Carried(i) == i.outcomeValues /\ Produced(i.pack, i.situation) # NoOutcome
Sought(i) == IF Carried(i) THEN Sources(i.pack, Produced(i.pack, i.situation)) ELSE <<>>
Reading(i) == IF Carried(i) THEN DeclarationUnits(i.pack, Produced(i.pack, i.situation)) ELSE 0

Scanned(S, s) == UNION {Scans(x.when, s) : x \in S}
At(src, J) == {src[j] : j \in J}
Pointed(i, E, L, J) ==
    Entered(i) \cup Scanned(E \cup L, i.situation) \cup At(Sought(i), J)
Done(i, n, E, L, J) == Work(n, E, L, Sought(i), J, Pointed(i, E, L, J), i.situation)

(* The sum of nothing.                                                     *)
LEMMA SumOfNone == ASSUME NEW f \in [{} -> Nat] PROVE SumFunction(f) = 0
  <1>1. IsFiniteSet({}) /\ Cardinality({}) = 0
    BY FS_EmptySet
  <1>2. Units(f, {}) = {}
    BY DEF Units
  <1>3. SumFunction(f) = Cardinality(Units(f, {}))
    BY <1>1, SumIsSize
  <1> QED BY <1>1, <1>2, <1>3

LEMMA SpentNone == \A s : Spent({}, s) = 0
  <1> SUFFICES ASSUME NEW s PROVE Spent({}, s) = 0
    OBVIOUS
  <1> DEFINE f == [x \in {} |-> Steps(x.when, s)]
  <1>1. f \in [{} -> Nat] /\ Spent({}, s) = SumFunction(f)
    BY DEF Spent
  <1> HIDE DEF f
  <1> QED BY <1>1, SumOfNone

(* The iteration is a number of units.                                     *)
LEMMA IterationUnits == ASSUME NEW p \in Packs PROVE Iteration(p) \in Nat
  <1>1. Len(p.requirements) \in Nat
    <2>1. p.requirements \in Seq([id : Atom, required : BOOLEAN])
      BY PackAssumption
    <2> QED BY <2>1, LenProperties
  <1>2. Len(p.exceptions) \in Nat
    <2>1. p.exceptions \in Seq([id : Id, when : Cond, effect : Effect, targetRule : Id,
                              outcome : Outcome \cup {NoOutcome}, onUnknown : Reaction])
      BY PackAssumption
    <2> QED BY <2>1, LenProperties
  <1>3. Len(p.rules) \in Nat
    <2>1. p.rules \in Seq([id : Id, when : Cond, outcome : Outcome, onUnknown : Reaction])
      BY PackAssumption
    <2> QED BY <2>1, LenProperties
  <1> DEFINE f == [r \in DOMAIN p.escalation.routes |->
                      1 + (IF p.escalation.routes[r].triggers = NoFilter THEN 0
                           ELSE Cardinality(p.escalation.routes[r].triggers))]
  <1>4. Routed(p) => SumFunction(f) \in Nat
    <2> SUFFICES ASSUME Routed(p) PROVE SumFunction(f) \in Nat
      OBVIOUS
    <2>1. PICK D : D = DOMAIN p.escalation.routes
      OBVIOUS
    <2>2. IsFiniteSet(D)
      BY <2>1, PackAssumption
    <2>3. \A r \in D : f[r] \in Nat
      <3> SUFFICES ASSUME NEW r \in D PROVE f[r] \in Nat
        OBVIOUS
      <3>1. CASE p.escalation.routes[r].triggers = NoFilter
        BY <2>1, <3>1
      <3>2. CASE p.escalation.routes[r].triggers # NoFilter
        <4>1. IsFiniteSet(p.escalation.routes[r].triggers)
          BY <2>1, <3>2, PackAssumption
        <4>2. Cardinality(p.escalation.routes[r].triggers) \in Nat
          BY <4>1, FS_CardinalityType
        <4> QED BY <2>1, <3>2, <4>2
      <3> QED BY <3>1, <3>2
    <2>4. f \in [D -> Nat]
      BY <2>1, <2>3
    <2> HIDE DEF f
    <2>5. IsFiniteSet(Units(f, D)) /\ SumFunction(f) = Cardinality(Units(f, D))
      BY <2>2, <2>4, SumIsSize
    <2> QED BY <2>5, FS_CardinalityType
  <1> HIDE DEF f
  <1>5. Iteration(p) = Len(p.requirements) + Len(p.exceptions) + Len(p.rules)
                       + (IF Routed(p) THEN SumFunction(f) ELSE 0)
    BY DEF Iteration, f
  <1>6. PICK k \in Nat : k = IF Routed(p) THEN SumFunction(f) ELSE 0
    BY <1>4
  <1>7. PICK a, b, c \in Nat : a = Len(p.requirements) /\ b = Len(p.exceptions) /\ c = Len(p.rules)
    BY <1>1, <1>2, <1>3
  <1>8. Iteration(p) = a + b + c + k
    BY <1>5, <1>6, <1>7
  <1> QED BY ONLY <1>8, a \in Nat, b \in Nat, c \in Nat, k \in Nat

(* What an input is.                                                       *)
LEMMA InputFacts ==
    ASSUME NEW i \in Input
    PROVE  /\ i.pack \in Packs /\ i.situation \in Situation /\ i.outcomeValues \in BOOLEAN /\ i.budget \in Nat
           /\ i.pack.applicability \in Cond \cup {NoCond}
           /\ Entered(i) \subseteq Atom /\ IsFiniteSet(Entered(i)) /\ Entrance(i) \in Nat
           /\ Conditioned(Members(i.pack.exceptions)) /\ Conditioned(Members(i.pack.rules))
           /\ Conditioned(Visited(i)) /\ Conditioned(Tried(i))
  <1>1. i.pack \in Packs /\ i.situation \in Situation /\ i.outcomeValues \in BOOLEAN /\ i.budget \in Nat
    BY WorkAssumption DEF Input
  <1>2. i.pack.applicability \in Cond \cup {NoCond}
    BY <1>1, PackAssumption
  <1>3. Entered(i) \subseteq Atom /\ IsFiniteSet(Entered(i))
    BY <1>1, <1>2, WorkAssumption, FS_EmptySet DEF Entered
  <1>4. Entrance(i) \in Nat
    <2>1. CASE i.pack.applicability = NoCond
      BY <1>1, <2>1, IterationUnits DEF Entrance
    <2>2. CASE i.pack.applicability # NoCond
      <3>1. Steps(i.pack.applicability, i.situation) \in Nat
        BY <1>1, <1>2, <2>2, WorkAssumption
      <3>2. Entrance(i) = Iteration(i.pack) + Steps(i.pack.applicability, i.situation)
        BY <2>2 DEF Entrance
      <3> QED BY <1>1, <3>1, <3>2, IterationUnits
    <2> QED BY <2>1, <2>2
  <1>5. Conditioned(Members(i.pack.exceptions)) /\ Conditioned(Members(i.pack.rules))
    BY <1>1, PackFinite, MembersConditions DEF Conditioned
  <1>6. Conditioned({})
    BY FS_EmptySet DEF Conditioned
  <1>7. Conditioned(Visited(i))
    BY <1>5, <1>6 DEF Visited
  <1>8. Conditioned(Tried(i))
    <2>1. Live(i.pack, i.situation) \subseteq Members(i.pack.rules)
      BY DEF Live
    <2>2. Conditioned(Live(i.pack, i.situation))
      BY <1>5, <2>1, FS_Subset DEF Conditioned
    <2> QED BY <1>6, <2>2 DEF Tried
  <1> QED BY <1>1, <1>2, <1>3, <1>4, <1>5, <1>7, <1>8

(* What is produced, and when nothing is.                                  *)
LEMMA ProducedIs ==
    ASSUME NEW p \in Packs, NEW s \in Situation
    PROVE  /\ Applies(p, s) # "true" => Produced(p, s) = NoOutcome
           /\ Blocking(p, s) # {} => Produced(p, s) = NoOutcome
           /\ Forcing(p, s) = {} /\ Undecided(p, s) # {} => Produced(p, s) = NoOutcome
           /\ ~ Yields(p, s) => Produced(p, s) = NoOutcome
           /\ Produced(p, s) \in Outcome \cup {NoOutcome}
           /\ /\ Applies(p, s) = "true" /\ Blocking(p, s) = {} /\ Yields(p, s)
              /\ Forcing(p, s) # {} \/ Undecided(p, s) = {}
              => Produced(p, s) = Yielded(p, s)
  <1>1. Applies(p, s) \in Tri
    BY PackAssumption, VerdictAssumption DEF Applies, Tri
  <1>2. \A why : Unresolved(p, s, why).outcome = NoOutcome
    BY DEF Unresolved, Disposition
  <1>3. Applies(p, s) # "true" => Produced(p, s) = NoOutcome
    BY <1>1 DEF Produced, Declared, Disposition, Tri
  <1>4. Applies(p, s) = "true" /\ Blocking(p, s) # {} => Produced(p, s) = NoOutcome
    BY <1>2, DeclaredUnblocked DEF Produced
  <1>5. \A o : Yield(p, s, FALSE, o).outcome = o
    BY DEF Yield, Disposition
  <1>6. Applies(p, s) = "true" /\ Blocking(p, s) = {} =>
          Produced(p, s) = (IF Forcing(p, s) = {} /\ Undecided(p, s) # {} THEN NoOutcome
                            ELSE IF Yields(p, s) THEN Yielded(p, s) ELSE NoOutcome)
    <2> SUFFICES ASSUME Applies(p, s) = "true", Blocking(p, s) = {}
                 PROVE  Produced(p, s) = (IF Forcing(p, s) = {} /\ Undecided(p, s) # {} THEN NoOutcome
                            ELSE IF Yields(p, s) THEN Yielded(p, s) ELSE NoOutcome)
      OBVIOUS
    <2>1. PICK carry : carry = FALSE
      OBVIOUS
    <2>2. Declared(p, s, carry) =
             IF Forcing(p, s) = {} /\ Undecided(p, s) # {} THEN Unresolved(p, s, Undecided(p, s))
             ELSE IF Yields(p, s) THEN Yield(p, s, carry, Yielded(p, s))
             ELSE Unresolved(p, s, {"no-match"})
      BY DeclaredYield
    <2> QED BY <1>2, <1>5, <2>1, <2>2 DEF Produced
  <1>7. Yields(p, s) => Yielded(p, s) \in Outcome
    BY YieldedOutcome
  <1> QED BY <1>3, <1>4, <1>6, <1>7

(* The declaration that is read, and where its values are.                 *)
LEMMA SoughtFacts ==
    ASSUME NEW i \in Input
    PROVE  /\ Reading(i) \in Nat /\ Sought(i) \in Seq(Atom) /\ Len(Sought(i)) \in Nat
           /\ DOMAIN Sought(i) = 1 .. Len(Sought(i))
           /\ Placed(Sought(i), DOMAIN Sought(i))
           /\ Members(Sought(i)) = {Sought(i)[j] : j \in DOMAIN Sought(i)}
  <1>1. i.pack \in Packs /\ i.situation \in Situation
    BY InputFacts
  <1>2. Carried(i) => Produced(i.pack, i.situation) \in Outcome
    BY <1>1, ProducedIs DEF Carried
  <1>3. Reading(i) \in Nat
    <2>1. CASE Carried(i)
      <3>1. PICK o \in Outcome : o = Produced(i.pack, i.situation)
        BY <1>2, <2>1
      <3>2. i.pack.search \in Nat
        BY <1>1, PackAssumption
      <3>3. i.pack.values[o] # NoDeclaration => i.pack.values[o].units \in Nat
        BY <1>1, PackAssumption
      <3>4. Reading(i) = i.pack.search + (IF i.pack.values[o] = NoDeclaration THEN 0 ELSE i.pack.values[o].units)
        BY <2>1, <3>1 DEF Reading, DeclarationUnits
      <3> QED BY <3>2, <3>3, <3>4
    <2> QED BY <2>1 DEF Reading
  <1>4. Sought(i) \in Seq(Atom)
    <2>1. Carried(i) => Sources(i.pack, Produced(i.pack, i.situation)) \in Seq(Atom)
      BY <1>1, <1>2, SourcesAreSequence
    <2> QED BY <2>1 DEF Sought
  <1>5. Len(Sought(i)) \in Nat /\ DOMAIN Sought(i) = 1 .. Len(Sought(i))
        /\ \A j \in DOMAIN Sought(i) : Sought(i)[j] \in Atom
    BY <1>4
  <1>6. IsFiniteSet(DOMAIN Sought(i))
    BY <1>5, FS_Interval
  <1> QED BY <1>3, <1>4, <1>5, <1>6 DEF Placed, Members

(* The images of a finite set are finite.                                  *)
LEMMA ImageFinite ==
    ASSUME NEW S, IsFiniteSet(S), NEW f, S = DOMAIN f PROVE IsFiniteSet({f[x] : x \in S})
  <1>1. PICK R : R = {f[x] : x \in S}
    OBVIOUS
  <1>2. PICK g : g = [x \in S |-> f[x]]
    OBVIOUS
  <1>3. g \in Surjection(S, R)
    BY <1>1, <1>2 DEF Surjection
  <1> QED BY <1>1, <1>3, FS_Surjection

(* What is pointed at can be counted.                                      *)
LEMMA PointedCounts ==
    ASSUME NEW i \in Input, NEW E, E \subseteq Visited(i), NEW L, L \subseteq Tried(i),
           NEW J, J \subseteq DOMAIN Sought(i)
    PROVE  Pointers(Pointed(i, E, L, J))
  <1>1. PICK T : T = E \cup L
    OBVIOUS
  <1>2. Conditioned(T) /\ i.situation \in Situation
    <2>1. Conditioned(E) /\ Conditioned(L)
      BY InputFacts, FS_Subset DEF Conditioned
    <2> QED BY <1>1, <2>1, InputFacts, FS_Union DEF Conditioned
  <1>3. PICK U : U = {Scans(x.when, i.situation) : x \in T}
    OBVIOUS
  <1>4. IsFiniteSet(U)
    <2>1. PICK f : f = [x \in T |-> Scans(x.when, i.situation)]
      OBVIOUS
    <2>2. DOMAIN f = T /\ U = {f[x] : x \in T}
      BY <1>3, <2>1
    <2> QED BY <1>2, <2>2, ImageFinite DEF Conditioned
  <1>5. \A S \in U : S \subseteq Atom /\ IsFiniteSet(S)
    BY <1>2, <1>3, WorkAssumption DEF Conditioned
  <1>6. IsFiniteSet(UNION U) /\ UNION U \subseteq Atom
    BY <1>4, <1>5, FS_UNION
  <1>7. PICK V : V = {Sought(i)[j] : j \in J}
    OBVIOUS
  <1>8. IsFiniteSet(J) /\ \A j \in J : Sought(i)[j] \in Atom
    BY SoughtFacts, FS_Subset DEF Placed
  <1>9. IsFiniteSet(V) /\ V \subseteq Atom
    <2>1. PICK f : f = [j \in J |-> Sought(i)[j]]
      OBVIOUS
    <2>2. DOMAIN f = J /\ V = {f[j] : j \in J}
      BY <1>7, <2>1
    <2>3. IsFiniteSet(V)
      BY <1>8, <2>2, ImageFinite
    <2> QED BY <1>7, <1>8, <2>3
  <1>10. Pointed(i, E, L, J) = (Entered(i) \cup UNION U) \cup V
    <2>1. Scanned(E \cup L, i.situation) = UNION U
      BY <1>1, <1>3, Zenon DEF Scanned
    <2>2. At(Sought(i), J) = V
      BY <1>7, Zenon DEF At
    <2> QED BY <2>1, <2>2 DEF Pointed
  <1>11. IsFiniteSet(Entered(i)) /\ Entered(i) \subseteq Atom
    BY InputFacts
  <1>12. IsFiniteSet((Entered(i) \cup UNION U) \cup V)
    BY <1>6, <1>9, <1>11, FS_Union
  <1> QED BY <1>6, <1>9, <1>10, <1>11, <1>12 DEF Pointers

(* The declared work is all of it.                                         *)
LEMMA TotalWork ==
    ASSUME NEW i \in Input
    PROVE  DeclaredWork(i) = Done(i, Entrance(i) + Reading(i), Visited(i), Tried(i), DOMAIN Sought(i))
  <1> DEFINE p == i.pack
             s == i.situation
             Of(S) == SumFunction([x \in S |-> Steps(x.when, s)])
             conditions == Reached(p, s) \cup {x.when : x \in Tried(i)}
             Q == Members(Sought(i)) \cup UNION {Scans(c, s) : c \in conditions}
             v == SumFunction([j \in DOMAIN Sought(i) |-> StepUnits(Sought(i)[j], s)])
             e == IF p.applicability = NoCond THEN 0 ELSE Steps(p.applicability, s)
             x == IF Applies(p, s) = "true" THEN Of(Members(p.exceptions)) ELSE 0
  <1>1. DeclaredWork(i) = Iteration(p) + e + x + Of(Tried(i)) + Reading(i) + v + Compiling(Q)
    BY DEF DeclaredWork, Tried, Carried, Sought, Reading
  <1>2. x = Spent(Visited(i), s)
    <2>1. Of(Members(p.exceptions)) = Spent(Members(p.exceptions), s)
      BY DEF Spent
    <2> QED BY <2>1, SpentNone DEF Visited
  <1>3. Of(Tried(i)) = Spent(Tried(i), s)
    BY DEF Spent
  <1>4. v = Valued(Sought(i), DOMAIN Sought(i), s)
    BY DEF Valued
  <1>5. Q = Pointed(i, Visited(i), Tried(i), DOMAIN Sought(i))
    <2>1. UNION {Scans(c, s) : c \in conditions} = Entered(i) \cup Scanned(Visited(i) \cup Tried(i), s)
      <3>1. conditions = {c \in {p.applicability} : c # NoCond}
                         \cup {y.when : y \in Visited(i) \cup Tried(i)}
        BY DEF Reached, Visited
      <3>2. UNION {Scans(c, s) : c \in {c \in {p.applicability} : c # NoCond}} = Entered(i)
        BY DEF Entered
      <3>3. UNION {Scans(c, s) : c \in {y.when : y \in Visited(i) \cup Tried(i)}}
              = Scanned(Visited(i) \cup Tried(i), s)
        BY DEF Scanned
      <3> HIDE DEF conditions, p, s
      <3> QED BY <3>1, <3>2, <3>3
    <2>2. Members(Sought(i)) = At(Sought(i), DOMAIN Sought(i))
      BY Zenon DEF Members, At
    <2>3. PICK W : W = UNION {Scans(c, s) : c \in conditions}
      OBVIOUS
    <2>4. Q = Members(Sought(i)) \cup W
      BY <2>3, Zenon
    <2>5. W = Entered(i) \cup Scanned(Visited(i) \cup Tried(i), s)
      BY <2>1, <2>3, Zenon
    <2> HIDE DEF Q, conditions
    <2> QED BY <2>2, <2>4, <2>5 DEF Pointed
  <1>6. Entrance(i) = Iteration(p) + e
    BY DEF Entrance
  <1>7. Iteration(p) \in Nat /\ e \in Nat
    BY InputFacts, IterationUnits, WorkAssumption
  <1>8. Spent(Visited(i), s) \in Nat /\ Spent(Tried(i), s) \in Nat
    BY InputFacts, SpentMore
  <1>9. Valued(Sought(i), DOMAIN Sought(i), s) \in Nat /\ Reading(i) \in Nat
    BY InputFacts, SoughtFacts, ValuedMore
  <1>10. Compiling(Q) \in Nat
    BY <1>5, PointedCounts, CompilingMore
  <1> HIDE DEF e, x, v, Of, Q
  <1>11. PICK a, b, c, d, f, g : /\ a = Iteration(p) /\ b = Spent(Visited(i), s) /\ c = Spent(Tried(i), s)
                                /\ d = Reading(i) /\ f = Valued(Sought(i), DOMAIN Sought(i), s)
                                /\ g = Compiling(Q)
    OBVIOUS
  <1>12. /\ a \in Nat /\ b \in Nat /\ c \in Nat /\ d \in Nat /\ f \in Nat /\ g \in Nat /\ e \in Nat
         /\ DeclaredWork(i) = a + e + b + c + d + f + g
    BY <1>1, <1>2, <1>3, <1>4, <1>7, <1>8, <1>9, <1>10, <1>11
  <1>13. Done(i, Entrance(i) + Reading(i), Visited(i), Tried(i), DOMAIN Sought(i))
           = (a + e + d) + b + c + f + g
    BY <1>5, <1>6, <1>11 DEF Done, Work
  <1> QED BY ONLY <1>12, <1>13

(* What was done is some of what is declared.                              *)
LEMMA DoneGrows ==
    ASSUME NEW i \in Input, NEW n \in Nat, n <= Entrance(i) + Reading(i),
           NEW E, E \subseteq Visited(i), NEW L, L \subseteq Tried(i), NEW J, J \subseteq DOMAIN Sought(i)
    PROVE  /\ Done(i, n, E, L, J) \in Nat /\ DeclaredWork(i) \in Nat
           /\ Done(i, n, E, L, J) <= DeclaredWork(i)
  <1>1. PICK m, F, M, K, src, s : /\ m = Entrance(i) + Reading(i) /\ F = Visited(i) /\ M = Tried(i)
                                  /\ K = DOMAIN Sought(i) /\ src = Sought(i) /\ s = i.situation
    OBVIOUS
  <1>2. m \in Nat /\ s \in Situation /\ Conditioned(F) /\ Conditioned(M) /\ Placed(src, K)
    BY <1>1, InputFacts, SoughtFacts
  <1>3. PICK Q, R : Q = Pointed(i, E, L, J) /\ R = Pointed(i, F, M, K)
    OBVIOUS
  <1>4. Q \subseteq R /\ Pointers(R)
    <2>1. Q \subseteq R
      BY <1>1, <1>3 DEF Pointed, Scanned, At
    <2> QED BY <1>1, <1>3, <2>1, PointedCounts
  <1>5. /\ Work(n, E, L, src, J, Q, s) \in Nat /\ Work(m, F, M, src, K, R, s) \in Nat
        /\ Work(n, E, L, src, J, Q, s) <= Work(m, F, M, src, K, R, s)
    BY <1>1, <1>2, <1>4, WorkGrows
  <1>6. DeclaredWork(i) = Work(m, F, M, src, K, R, s)
    BY <1>1, <1>3, TotalWork DEF Done
  <1>7. Done(i, n, E, L, J) = Work(n, E, L, src, J, Q, s)
    BY <1>1, <1>3 DEF Done
  <1> QED BY <1>5, <1>6, <1>7

(* A pointer is compiled once.                                             *)
LEMMA CompilingUnion ==
    ASSUME NEW Q, Pointers(Q), NEW S, Pointers(S)
    PROVE  /\ Compiling(Q) \in Nat /\ Compiling(S \ Q) \in Nat
           /\ Compiling(Q \cup S) = Compiling(Q) + Compiling(S \ Q)
  <1>1. PICK T, R : T = Q \cup S /\ R = S \ Q
    OBVIOUS
  <1>2. Pointers(T) /\ Q \subseteq T /\ T \ Q = R
    BY <1>1, FS_Union DEF Pointers
  <1>3. Compiling(Q) \in Nat /\ Compiling(T \ Q) \in Nat /\ Compiling(T) = Compiling(Q) + Compiling(T \ Q)
    BY <1>2, CompilingMore
  <1> QED BY <1>1, <1>2, <1>3

(* One condition more is spent on.                                         *)
LEMMA SpentAdd ==
    ASSUME NEW S, NEW R, NEW x, NEW s, Conditioned(R), R = S \cup {x}, x \notin S, s \in Situation
    PROVE  /\ Spent(S, s) \in Nat /\ Steps(x.when, s) \in Nat
           /\ Spent(R, s) = Spent(S, s) + Steps(x.when, s)
  <1>1. PICK X : X = {x}
    OBVIOUS
  <1>2. S \subseteq R /\ R \ S = X /\ x \in R
    BY <1>1
  <1>3. Spent(S, s) \in Nat /\ Spent(R \ S, s) \in Nat /\ Spent(R, s) = Spent(S, s) + Spent(R \ S, s)
    BY <1>2, SpentMore
  <1>4. x.when \in Cond /\ Spent(X, s) = Steps(x.when, s)
    BY <1>1, <1>2, SpentOne DEF Conditioned
  <1>5. Steps(x.when, s) \in Nat
    BY <1>4, WorkAssumption
  <1> QED BY <1>1, <1>2, <1>3, <1>4, <1>5

(* One value more is resolved.                                             *)
LEMMA ValuedAdd ==
    ASSUME NEW src, NEW J, NEW R, NEW j, NEW s, Placed(src, R), R = J \cup {j}, j \notin J, s \in Situation
    PROVE  /\ Valued(src, J, s) \in Nat /\ StepUnits(src[j], s) \in Nat
           /\ Valued(src, R, s) = Valued(src, J, s) + StepUnits(src[j], s)
  <1>1. PICK X : X = {j}
    OBVIOUS
  <1>2. J \subseteq R /\ R \ J = X /\ j \in R
    BY <1>1
  <1>3. Valued(src, J, s) \in Nat /\ Valued(src, R \ J, s) \in Nat
        /\ Valued(src, R, s) = Valued(src, J, s) + Valued(src, R \ J, s)
    BY <1>2, ValuedMore
  <1>4. src[j] \in Atom /\ Valued(src, X, s) = StepUnits(src[j], s)
    BY <1>1, <1>2, ValuedOne DEF Placed
  <1>5. StepUnits(src[j], s) \in Nat
    BY <1>4, WorkAssumption
  <1> QED BY <1>1, <1>2, <1>3, <1>4, <1>5

(* The numbers that were added.                                            *)
LEMMA DoneNumbers ==
    ASSUME NEW i \in Input, NEW n \in Nat, NEW E, E \subseteq Visited(i), NEW L, L \subseteq Tried(i),
           NEW J, J \subseteq DOMAIN Sought(i)
    PROVE  /\ Spent(E, i.situation) \in Nat /\ Spent(L, i.situation) \in Nat
           /\ Valued(Sought(i), J, i.situation) \in Nat /\ Compiling(Pointed(i, E, L, J)) \in Nat
  <1>1. PICK Q, s : Q = Pointed(i, E, L, J) /\ s = i.situation
    OBVIOUS
  <1>2. s \in Situation /\ Conditioned(Visited(i)) /\ Conditioned(Tried(i)) /\ Placed(Sought(i), DOMAIN Sought(i))
    BY <1>1, InputFacts, SoughtFacts
  <1>3. Spent(E, s) \in Nat
    BY <1>2, SpentMore
  <1>4. Spent(L, s) \in Nat
    BY ONLY <1>2, L \subseteq Tried(i), SpentMore
  <1>5. Valued(Sought(i), J, s) \in Nat
    BY <1>2, ValuedMore
  <1>6. Pointers(Q)
    BY <1>1, PointedCounts
  <1>7. Compiling(Q) \in Nat
    BY <1>6, CompilingMore
  <1> QED BY <1>1, <1>3, <1>4, <1>5, <1>7

(* The pointers of one exception more.                                     *)
LEMMA VisitedPoints ==
    ASSUME NEW i, NEW E, NEW L, NEW J, NEW x, NEW F, F = E \cup {x}
    PROVE  Pointed(i, F, L, J) = Pointed(i, E, L, J) \cup Scans(x.when, i.situation)
  <1>1. Scanned(F \cup L, i.situation) = Scanned(E \cup L, i.situation) \cup Scans(x.when, i.situation)
    BY DEF Scanned
  <1> QED BY <1>1 DEF Pointed

(* Of one rule more.                                                       *)
LEMMA TriedPoints ==
    ASSUME NEW i, NEW E, NEW L, NEW J, NEW x, NEW M, M = L \cup {x}
    PROVE  Pointed(i, E, M, J) = Pointed(i, E, L, J) \cup Scans(x.when, i.situation)
  <1>1. Scanned(E \cup M, i.situation) = Scanned(E \cup L, i.situation) \cup Scans(x.when, i.situation)
    BY DEF Scanned
  <1> QED BY <1>1 DEF Pointed

(* And of one value more.                                                  *)
LEMMA PlacePoints ==
    ASSUME NEW i, NEW E, NEW L, NEW J, NEW j, NEW K, K = J \cup {j}
    PROVE  Pointed(i, E, L, K) = Pointed(i, E, L, J) \cup {Sought(i)[j]}
  <1>1. At(Sought(i), K) = At(Sought(i), J) \cup {Sought(i)[j]}
    BY DEF At
  <1> QED BY <1>1 DEF Pointed

(* One exception more.                                                   *)
LEMMA OneMoreVisited ==
    ASSUME NEW i, NEW n, NEW E, NEW L, NEW J, NEW x, NEW F,
           i \in Input, n \in Nat, E \subseteq Visited(i), L \subseteq Tried(i),
           J \subseteq DOMAIN Sought(i), x \in Visited(i), x \notin E, F = E \cup {x}
    PROVE  Done(i, n, F, L, J)
             = Done(i, n, E, L, J) + (Steps(x.when, i.situation) + Compiling(Scans(x.when, i.situation) \ Pointed(i, E, L, J)))
  <1>1. PICK Q, S, s : /\ Q = Pointed(i, E, L, J) /\ S = Scans(x.when, i.situation) /\ s = i.situation
    OBVIOUS
  <1>2. s \in Situation /\ Conditioned(F) /\ x.when \in Cond
    BY <1>1, InputFacts, FS_Subset DEF Conditioned
  <1>3. Pointed(i, F, L, J) = Q \cup S
    BY <1>1, VisitedPoints
  <1>4. Pointers(Q) /\ Pointers(S)
    BY <1>1, <1>2, PointedCounts, WorkAssumption DEF Pointers
  <1>5. /\ Compiling(Q) \in Nat /\ Compiling(S \ Q) \in Nat
        /\ Compiling(Q \cup S) = Compiling(Q) + Compiling(S \ Q)
    BY <1>4, CompilingUnion
  <1>6. Spent(E, s) \in Nat /\ Steps(x.when, s) \in Nat /\ Spent(F, s) = Spent(E, s) + Steps(x.when, s)
    BY <1>1, <1>2, SpentAdd
  <1>7. Spent(L, s) \in Nat /\ Valued(Sought(i), J, s) \in Nat
    BY <1>1, DoneNumbers
  <1>8. Done(i, n, F, L, J) = n + Spent(F, s) + Spent(L, s) + Valued(Sought(i), J, s) + Compiling(Q \cup S)
    BY <1>1, <1>3 DEF Done, Work
  <1>9. Done(i, n, E, L, J) = n + Spent(E, s) + Spent(L, s) + Valued(Sought(i), J, s) + Compiling(Q)
    BY <1>1 DEF Done, Work
  <1>10. Done(i, n, F, L, J) = Done(i, n, E, L, J) + (Steps(x.when, s) + Compiling(S \ Q))
    BY ONLY <1>5, <1>6, <1>7, <1>8, <1>9, n \in Nat
  <1> QED BY <1>1, <1>10

(* One rule more.                                                        *)
LEMMA OneMoreTried ==
    ASSUME NEW i, NEW n, NEW E, NEW L, NEW J, NEW x, NEW M,
           i \in Input, n \in Nat, E \subseteq Visited(i), L \subseteq Tried(i),
           J \subseteq DOMAIN Sought(i), x \in Tried(i), x \notin L, M = L \cup {x}
    PROVE  Done(i, n, E, M, J)
             = Done(i, n, E, L, J) + (Steps(x.when, i.situation) + Compiling(Scans(x.when, i.situation) \ Pointed(i, E, L, J)))
  <1>1. PICK Q, S, s : /\ Q = Pointed(i, E, L, J) /\ S = Scans(x.when, i.situation) /\ s = i.situation
    OBVIOUS
  <1>2. s \in Situation /\ Conditioned(M) /\ x.when \in Cond
    BY <1>1, InputFacts, FS_Subset DEF Conditioned
  <1>3. Pointed(i, E, M, J) = Q \cup S
    BY <1>1, TriedPoints
  <1>4. Pointers(Q) /\ Pointers(S)
    BY <1>1, <1>2, PointedCounts, WorkAssumption DEF Pointers
  <1>5. /\ Compiling(Q) \in Nat /\ Compiling(S \ Q) \in Nat
        /\ Compiling(Q \cup S) = Compiling(Q) + Compiling(S \ Q)
    BY <1>4, CompilingUnion
  <1>6. Spent(L, s) \in Nat /\ Steps(x.when, s) \in Nat /\ Spent(M, s) = Spent(L, s) + Steps(x.when, s)
    BY <1>1, <1>2, SpentAdd
  <1>7. Spent(E, s) \in Nat /\ Valued(Sought(i), J, s) \in Nat
    BY <1>1, DoneNumbers
  <1>8. Done(i, n, E, M, J) = n + Spent(E, s) + Spent(M, s) + Valued(Sought(i), J, s) + Compiling(Q \cup S)
    BY <1>1, <1>3 DEF Done, Work
  <1>9. Done(i, n, E, L, J) = n + Spent(E, s) + Spent(L, s) + Valued(Sought(i), J, s) + Compiling(Q)
    BY <1>1 DEF Done, Work
  <1>10. Done(i, n, E, M, J) = Done(i, n, E, L, J) + (Steps(x.when, s) + Compiling(S \ Q))
    BY ONLY <1>5, <1>6, <1>7, <1>8, <1>9, n \in Nat
  <1> QED BY <1>1, <1>10

(* One value more.                                                       *)
LEMMA OneMorePlace ==
    ASSUME NEW i, NEW n, NEW E, NEW L, NEW J, NEW j, NEW K,
           i \in Input, n \in Nat, E \subseteq Visited(i), L \subseteq Tried(i),
           J \subseteq DOMAIN Sought(i), j \in DOMAIN Sought(i), j \notin J, K = J \cup {j}
    PROVE  Done(i, n, E, L, K)
             = Done(i, n, E, L, J) + (StepUnits(Sought(i)[j], i.situation) + Compiling({Sought(i)[j]} \ Pointed(i, E, L, J)))
  <1>1. PICK Q, S, s : /\ Q = Pointed(i, E, L, J) /\ S = {Sought(i)[j]} /\ s = i.situation
    OBVIOUS
  <1>2. s \in Situation /\ Placed(Sought(i), K) /\ Sought(i)[j] \in Atom
    BY <1>1, InputFacts, SoughtFacts, FS_Subset DEF Placed
  <1>3. Pointed(i, E, L, K) = Q \cup S
    BY <1>1, PlacePoints
  <1>4. Pointers(Q) /\ Pointers(S)
    BY <1>1, <1>2, PointedCounts, FS_Singleton DEF Pointers
  <1>5. /\ Compiling(Q) \in Nat /\ Compiling(S \ Q) \in Nat
        /\ Compiling(Q \cup S) = Compiling(Q) + Compiling(S \ Q)
    BY <1>4, CompilingUnion
  <1>6. /\ Valued(Sought(i), J, s) \in Nat /\ StepUnits(Sought(i)[j], s) \in Nat
        /\ Valued(Sought(i), K, s) = Valued(Sought(i), J, s) + StepUnits(Sought(i)[j], s)
    BY ONLY <1>2, K = J \cup {j}, j \notin J, ValuedAdd
  <1>7. Spent(E, s) \in Nat /\ Spent(L, s) \in Nat
    BY <1>1, DoneNumbers
  <1>8. Done(i, n, E, L, K) = n + Spent(E, s) + Spent(L, s) + Valued(Sought(i), K, s) + Compiling(Q \cup S)
    BY <1>1, <1>3 DEF Done, Work
  <1>9. Done(i, n, E, L, J) = n + Spent(E, s) + Spent(L, s) + Valued(Sought(i), J, s) + Compiling(Q)
    BY <1>1 DEF Done, Work
  <1>10. Done(i, n, E, L, K) = Done(i, n, E, L, J) + (StepUnits(Sought(i)[j], s) + Compiling(S \ Q))
    BY ONLY <1>5, <1>6, <1>7, <1>8, <1>9, n \in Nat
  <1> QED BY <1>1, <1>10

(* Units more.                                                             *)
LEMMA UnitsMore ==
    ASSUME NEW i \in Input, NEW n \in Nat, NEW m \in Nat, NEW E, E \subseteq Visited(i),
           NEW L, L \subseteq Tried(i), NEW J, J \subseteq DOMAIN Sought(i)
    PROVE  Done(i, n + m, E, L, J) = Done(i, n, E, L, J) + m
  <1>1. PICK Q, s : Q = Pointed(i, E, L, J) /\ s = i.situation
    OBVIOUS
  <1>2. /\ Spent(E, s) \in Nat /\ Spent(L, s) \in Nat
        /\ Valued(Sought(i), J, s) \in Nat /\ Compiling(Q) \in Nat
    BY <1>1, DoneNumbers
  <1>3. Done(i, n + m, E, L, J) = n + m + Spent(E, s) + Spent(L, s) + Valued(Sought(i), J, s) + Compiling(Q)
    BY <1>1 DEF Done, Work
  <1>4. Done(i, n, E, L, J) = n + Spent(E, s) + Spent(L, s) + Valued(Sought(i), J, s) + Compiling(Q)
    BY <1>1 DEF Done, Work
  <1> QED BY ONLY <1>2, <1>3, <1>4, n \in Nat, m \in Nat
-----------------------------------------------------------------------------
(* The walk's account: at every step it has charged for what it did.       *)
Paid(n, E, L, J) == scanned = Pointed(in, E, L, J) /\ charged = Done(in, n, E, L, J)

AccountInv ==
    /\ pc # "error" => charged <= in.budget
    /\ pc = "error" => charged \in Nat /\ charged > in.budget /\ charged <= DeclaredWork(in)
    /\ pc = "begin" => charged = 0 /\ scanned = {}
    /\ pc = "applicability" => charged = Iteration(pack) /\ scanned = {}
    /\ pc = "requirements" => Paid(Entrance(in), {}, {}, {})
    /\ pc = "exceptions" => Paid(Entrance(in), Before(pack.exceptions, at), {}, {})
    /\ pc = "rules" => Paid(Entrance(in), Visited(in), LiveOf(Before(pack.rules, at)), {})
    /\ pc \in {"declaration", "values"} => Produced(pack, situation) = chosen
    /\ pc = "declaration" => Paid(Entrance(in), Visited(in), Tried(in), {})
    /\ pc = "values" => Paid(Entrance(in) + Reading(in), Visited(in), Tried(in), 1 .. (at - 1))
    /\ pc = "done" => charged = DeclaredWork(in)

(* What is done before the first exception.                                *)
LEMMA FirstWork ==
    ASSUME NEW i \in Input
    PROVE  /\ Pointed(i, {}, {}, {}) = Entered(i)
           /\ Done(i, Entrance(i), {}, {}, {}) = Entrance(i) + Compiling(Entered(i))
           /\ Compiling(Entered(i)) \in Nat /\ Iteration(i.pack) \in Nat
           /\ Iteration(i.pack) <= DeclaredWork(i)
  <1>1. PICK none : none = {}
    OBVIOUS
  <1>2. Pointed(i, none, none, none) = Entered(i)
    BY <1>1 DEF Pointed, Scanned, At
  <1>3. /\ Spent(none, i.situation) \in Nat /\ Valued(Sought(i), none, i.situation) \in Nat
        /\ Compiling(Entered(i)) \in Nat /\ Entrance(i) \in Nat
    BY <1>1, <1>2, InputFacts, DoneNumbers
  <1>4. Spent(none, i.situation) = 0
    BY <1>1, SpentNone
  <1>5. Valued(Sought(i), none, i.situation) = 0
    <2>1. PICK f : f = [j \in none |-> StepUnits(Sought(i)[j], i.situation)]
      OBVIOUS
    <2>2. f \in [none -> Nat]
      BY <1>1, <2>1
    <2>3. Valued(Sought(i), none, i.situation) = SumFunction(f)
      BY <2>1, Zenon DEF Valued
    <2> QED BY <1>1, <2>2, <2>3, SumOfNone
  <1>6. Done(i, Entrance(i), none, none, none) = Entrance(i) + Compiling(Entered(i))
    BY <1>2, <1>3, <1>4, <1>5 DEF Done, Work
  <1>7. Iteration(i.pack) \in Nat
    BY InputFacts, IterationUnits
  <1>8. Iteration(i.pack) <= Entrance(i)
    <2>1. CASE i.pack.applicability = NoCond
      BY <1>7, <2>1 DEF Entrance
    <2>2. CASE i.pack.applicability # NoCond
      <3>1. Steps(i.pack.applicability, i.situation) \in Nat
        BY <2>2, InputFacts, WorkAssumption
      <3>2. Entrance(i) = Iteration(i.pack) + Steps(i.pack.applicability, i.situation)
        BY <2>2 DEF Entrance
      <3> QED BY <1>7, <3>1, <3>2
    <2> QED BY <2>1, <2>2
  <1>9. /\ Done(i, Entrance(i), none, none, none) <= DeclaredWork(i) /\ DeclaredWork(i) \in Nat
    <2>1. Reading(i) \in Nat
      BY SoughtFacts
    <2>2. Entrance(i) <= Entrance(i) + Reading(i)
      BY <1>3, <2>1
    <2> QED BY <1>1, <1>3, <2>2, DoneGrows
  <1>10. Iteration(i.pack) <= DeclaredWork(i)
    BY ONLY <1>3, <1>6, <1>7, <1>8, <1>9
  <1> QED BY <1>1, <1>2, <1>3, <1>6, <1>7, <1>10

(* What was charged for is some of the declared work.                      *)
LEMMA PaidIsDeclared ==
    ASSUME in \in Input, NEW E, E \subseteq Visited(in), NEW L, L \subseteq Tried(in),
           NEW J, J \subseteq DOMAIN Sought(in), NEW n, n \in {Entrance(in), Entrance(in) + Reading(in)}
    PROVE  /\ n \in Nat /\ Done(in, n, E, L, J) \in Nat /\ DeclaredWork(in) \in Nat
           /\ Done(in, n, E, L, J) <= DeclaredWork(in)
  <1>1. Entrance(in) \in Nat /\ Reading(in) \in Nat
    BY InputFacts, SoughtFacts
  <1>2. n \in Nat /\ n <= Entrance(in) + Reading(in)
    BY <1>1
  <1> QED BY <1>2, DoneGrows

(* Where no values are carried, nothing is read.                           *)
LEMMA NothingCarried ==
    ASSUME NEW i \in Input, ~ Carried(i)
    PROVE  DeclaredWork(i) = Done(i, Entrance(i), Visited(i), Tried(i), {})
  <1>1. Reading(i) = 0 /\ DOMAIN Sought(i) = {}
    <2>1. Sought(i) = <<>>
      BY DEF Sought
    <2> QED BY <2>1 DEF Reading
  <1>2. PICK n, J : n = Entrance(i) + Reading(i) /\ J = DOMAIN Sought(i)
    OBVIOUS
  <1>3. n = Entrance(i) /\ J = {}
    BY <1>1, <1>2, InputFacts
  <1>4. DeclaredWork(i) = Done(i, n, Visited(i), Tried(i), J)
    BY <1>2, TotalWork
  <1> QED BY <1>3, <1>4

LEMMA EndCounts ==
    ASSUME in \in Input, in' = in, charged' = charged, charged <= in.budget, pc' = "done",
           ~ Carried(in), Paid(Entrance(in), Visited(in), Tried(in), {})
    PROVE  AccountInv'
  <1>1. charged' = DeclaredWork(in)'
    BY NothingCarried DEF Paid
  <1> QED BY <1>1 DEF AccountInv

LEMMA ProduceCounts ==
    ASSUME in \in Input, NEW o, Produce(o), in' = in, charged' = charged, scanned' = scanned,
           charged <= in.budget, Produced(pack, situation) = o,
           Paid(Entrance(in), Visited(in), Tried(in), {})
    PROVE  AccountInv'
  <1>1. in.outcomeValues \in BOOLEAN /\ pack' = pack /\ situation' = situation
    BY InputFacts DEF pack, situation
  <1>2. CASE in.outcomeValues = TRUE
    <2>1. pc' = "declaration" /\ chosen' = o
      BY <1>2 DEF Produce, Goto
    <2>2. Paid(Entrance(in), Visited(in), Tried(in), {})'
      BY DEF Paid
    <2> QED BY <1>1, <2>1, <2>2 DEF AccountInv
  <1>3. CASE in.outcomeValues = FALSE
    <2>1. pc' = "done"
      BY <1>3 DEF Produce, Dispose
    <2>2. ~ Carried(in)
      BY <1>3 DEF Carried
    <2> QED BY <2>1, <2>2, EndCounts
  <1> QED BY <1>1, <1>2, <1>3

(* The iteration is charged first.                                         *)
LEMMA BeginCounts == WalkInv /\ AccountInv /\ Begin => AccountInv'
  <1> SUFFICES ASSUME WalkInv, AccountInv, Begin PROVE AccountInv'
    OBVIOUS
  <1>1. /\ in \in Input /\ in' = in /\ pack' = pack /\ pc = "begin" /\ charged = 0 /\ scanned = {}
        /\ pack = in.pack /\ in.budget \in Int
    BY InputFacts DEF WalkInv, AccountInv, Begin, pack
  <1>2. charged' = 0 + Iteration(pack) /\ scanned' = {}
    BY <1>1 DEF Begin, Pay
  <1>3. /\ Iteration(pack) \in Nat /\ Iteration(pack) <= DeclaredWork(in)
    BY <1>1, FirstWork
  <1>4. charged' = Iteration(pack)
    BY <1>2, <1>3
  <1>5. CASE Exhausted(Iteration(pack))
    <2>1. pc' = "error" /\ charged' > in.budget
      BY <1>1, <1>2, <1>5 DEF Begin, Refuse, Exhausted
    <2>2. DeclaredWork(in)' = DeclaredWork(in)
      BY <1>1
    <2> QED BY <1>1, <1>3, <1>4, <2>1, <2>2 DEF AccountInv
  <1>6. CASE ~ Exhausted(Iteration(pack))
    <2>1. pc' = "applicability" /\ ~(charged' > in.budget)
      BY <1>1, <1>2, <1>6 DEF Begin, Goto, Exhausted
    <2>2. charged' <= in.budget
      BY <1>1, <1>3, <1>4, <2>1
    <2> QED BY <1>1, <1>2, <1>4, <2>1, <2>2 DEF AccountInv
  <1> QED BY <1>5, <1>6

(* Then the applicability condition.                                       *)
LEMMA ApplicabilityCounts == WalkInv /\ AccountInv /\ Applicability => AccountInv'
  <1> SUFFICES ASSUME WalkInv, AccountInv, Applicability PROVE AccountInv'
    OBVIOUS
  <1> DEFINE c == pack.applicability
             units == IF c = NoCond THEN 0 ELSE TreeUnits(c)
             t == IF c = NoCond THEN "true" ELSE Verdict(c, situation)
  <1>1. /\ in \in Input /\ in' = in /\ pack' = pack /\ situation' = situation /\ pc = "applicability"
        /\ charged = Iteration(pack) /\ scanned = {}
        /\ pack = in.pack /\ situation = in.situation /\ in.budget \in Int
    BY InputFacts DEF WalkInv, AccountInv, Applicability, pack, situation
  <1>2. /\ charged' = charged + units
        /\ scanned' = scanned \cup (IF c = NoCond THEN {} ELSE Scans(c, situation))
    BY DEF Applicability, Pay
  <1>3. scanned' = Entered(in)
    BY <1>1, <1>2 DEF Entered
  <1>4. Iteration(pack) \in Nat /\ c \in Cond \cup {NoCond} /\ situation \in Situation
    BY <1>1, InputFacts, FirstWork
  <1>5. charged' = Done(in, Entrance(in), {}, {}, {})
    <2>1. CASE c = NoCond
      <3>1. Entered(in) = {} /\ Entrance(in) = Iteration(pack) + 0
        BY <1>1, <2>1 DEF Entered, Entrance
      <3>2. Compiling(Entered(in)) = 0
        <4>1. PICK none : none = Entered(in)
          OBVIOUS
        <4>2. PICK f : f = [q \in none |-> ScanUnits(q)]
          OBVIOUS
        <4>3. f \in [{} -> Nat] /\ Compiling(none) = SumFunction(f)
          BY <3>1, <4>1, <4>2 DEF Compiling
        <4> QED BY <4>1, <4>3, SumOfNone
      <3>3. charged' = Iteration(pack) + 0
        BY <1>1, <1>2, <2>1
      <3> QED BY <1>1, <1>4, <3>1, <3>2, <3>3, FirstWork
    <2>2. CASE c # NoCond
      <3>1. Entered(in) = Scans(c, situation) /\ Entrance(in) = Iteration(pack) + Steps(c, situation)
        BY <1>1, <2>2 DEF Entered, Entrance
      <3>2. units = Steps(c, situation) + Compiling(Entered(in) \ scanned)
        BY <2>2, <3>1 DEF TreeUnits
      <3>3. Entered(in) \ scanned = Entered(in)
        BY <1>1
      <3>4. Steps(c, situation) \in Nat /\ Compiling(Entered(in)) \in Nat
        BY <1>1, <1>4, <2>2, WorkAssumption, FirstWork
      <3>5. charged' = Iteration(pack) + (Steps(c, situation) + Compiling(Entered(in)))
        BY <1>1, <1>2, <3>2, <3>3
      <3>6. Done(in, Entrance(in), {}, {}, {}) = (Iteration(pack) + Steps(c, situation)) + Compiling(Entered(in))
        BY <1>1, <3>1, FirstWork
      <3> QED BY ONLY <1>4, <3>4, <3>5, <3>6
    <2> QED BY <2>1, <2>2
  <1>6. charged' \in Nat /\ charged' <= DeclaredWork(in)
    <2>1. PICK none, n : none = {} /\ n = Entrance(in)
      OBVIOUS
    <2>2. Done(in, n, none, none, none) \in Nat /\ Done(in, n, none, none, none) <= DeclaredWork(in)
      BY <1>1, <2>1, PaidIsDeclared
    <2> QED BY <1>5, <2>1, <2>2
  <1>7. Paid(Entrance(in), {}, {}, {})'
    BY <1>1, <1>3, <1>5, FirstWork DEF Paid
  <1> HIDE DEF units
  <1>8. CASE Exhausted(units)
    <2>1. pc' = "error"
      BY <1>8 DEF Applicability, Refuse, units
    <2>2. charged' > in.budget
      BY <1>2, <1>8 DEF Exhausted
    <2> QED BY <1>1, <1>6, <2>1, <2>2 DEF AccountInv
  <1>9. CASE ~ Exhausted(units)
    <2>1. charged' <= in.budget
      BY <1>1, <1>2, <1>6, <1>9 DEF Exhausted
    <2>2. t = Applies(pack, situation)
      BY DEF Applies
    <2>3. CASE t = "true"
      <3>1. pc' = "requirements"
        BY <1>9, <2>3 DEF Applicability, Goto, units
      <3> QED BY <1>1, <1>7, <2>1, <3>1 DEF AccountInv
    <2>4. CASE t # "true"
      <3>1. pc' = "done"
        <4>1. t \in Tri
          BY <1>1, <2>2, PackFacts
        <4> QED BY <1>9, <2>4, <4>1 DEF Applicability, Dispose, units, Tri
      <3>2. Visited(in) = {} /\ Tried(in) = {} /\ ~ Carried(in)
        BY <1>1, <1>4, <2>2, <2>4, ProducedIs, PackFacts DEF Visited, Tried, RulesReached, Carried
      <3>3. DeclaredWork(in) = Done(in, Entrance(in), {}, {}, {})
        BY <1>1, <3>2, NothingCarried
      <3> QED BY <1>1, <1>5, <2>1, <3>1, <3>3 DEF AccountInv
    <2> QED BY <2>3, <2>4
  <1> QED BY <1>8, <1>9

(* Step 2 charges nothing.                                                 *)
LEMMA RequirementsCounts == WalkInv /\ AccountInv /\ Requirements => AccountInv'
  <1> SUFFICES ASSUME WalkInv, AccountInv, Requirements PROVE AccountInv'
    OBVIOUS
  <1>1. /\ in' = in /\ pack' = pack /\ pc = "requirements" /\ pc' = "exceptions" /\ at' = 1
        /\ charged' = charged /\ scanned' = scanned
    BY DEF Requirements, Goto, pack
  <1>2. Before(pack.exceptions, at)' = {}
    BY <1>1, BeforeFirst
  <1>3. Paid(Entrance(in), Before(pack.exceptions, at), {}, {})'
    BY <1>1, <1>2 DEF AccountInv, Paid
  <1> QED BY <1>1, <1>3 DEF AccountInv

(* Steps 3 and 4 charge for one exception more.                            *)
LEMMA ExceptionCounts == WalkInv /\ AccountInv /\ EvaluateException => AccountInv'
  <1> SUFFICES ASSUME WalkInv, AccountInv, EvaluateException PROVE AccountInv'
    OBVIOUS
  <1>1. PICK x, E, F, n : /\ x = pack.exceptions[at] /\ E = Before(pack.exceptions, at)
                          /\ F = E \cup {x} /\ n = Entrance(in)
    OBVIOUS
  <1>2. /\ in \in Input /\ in' = in /\ pack' = pack /\ situation' = situation /\ pc = "exceptions"
        /\ at \in Nat \ {0} /\ at <= Len(pack.exceptions) /\ in.budget \in Int
        /\ pack = in.pack /\ situation = in.situation /\ pack \in Packs
        /\ Applies(pack, situation) = "true"
    BY InputFacts DEF WalkInv, TypeOK, AtExceptions, EvaluateException, pack, situation
  <1>3. scanned = Pointed(in, E, {}, {}) /\ charged = Done(in, n, E, {}, {})
    BY <1>1, <1>2 DEF AccountInv, Paid
  <1>4. /\ charged' = charged + (Steps(x.when, situation) + Compiling(Scans(x.when, situation) \ scanned))
        /\ scanned' = scanned \cup Scans(x.when, situation)
    BY <1>1 DEF EvaluateException, Pay, TreeUnits
  <1>5. x \in Visited(in) /\ E \subseteq Visited(in) /\ x \notin E
    <2>1. DOMAIN pack.exceptions = 1 .. Len(pack.exceptions) /\ Len(pack.exceptions) \in Nat
      BY <1>2, PackFacts
    <2>2. Visited(in) = Members(pack.exceptions)
      BY <1>2 DEF Visited
    <2>3. \A k \in 1 .. (at - 1) : k \in DOMAIN pack.exceptions /\ k # at
      BY <1>2, <2>1
    <2>4. at \in DOMAIN pack.exceptions
      BY <1>2, <2>1
    <2>5. \A k \in 1 .. (at - 1) : pack.exceptions[k] # x
      BY <1>1, <1>2, <2>3, <2>4, PackAssumption
    <2> QED BY <1>1, <2>2, <2>3, <2>4, <2>5 DEF Before, Members
  <1>6. PICK none : none = {}
    OBVIOUS
  <1>7. scanned' = Pointed(in, F, none, none) /\ charged' = Done(in, n, F, none, none)
    <2>1. n \in Nat /\ none \subseteq Tried(in) /\ none \subseteq DOMAIN Sought(in)
      BY <1>1, <1>2, <1>6, InputFacts
    <2>2. in \in Input /\ F = E \cup {x}
      BY <1>1, <1>2
    <2>3. Pointed(in, F, none, none) = Pointed(in, E, none, none) \cup Scans(x.when, in.situation)
      BY <2>2, VisitedPoints
    <2>4. Done(in, n, F, none, none)
            = Done(in, n, E, none, none)
              + (Steps(x.when, in.situation) + Compiling(Scans(x.when, in.situation) \ Pointed(in, E, none, none)))
      BY <1>5, <2>1, <2>2, OneMoreVisited
    <2> QED BY <1>1, <1>2, <1>3, <1>4, <1>6, <2>3, <2>4
  <1>8. charged' \in Nat /\ charged' <= DeclaredWork(in)
    BY <1>1, <1>2, <1>5, <1>6, <1>7, PaidIsDeclared
  <1>9. CASE Exhausted(TreeUnits(x.when))
    <2>1. pc' = "error" /\ charged' > in.budget
      BY <1>1, <1>9 DEF EvaluateException, Refuse, Exhausted, Pay
    <2> QED BY <1>2, <1>8, <2>1 DEF AccountInv
  <1>10. CASE ~ Exhausted(TreeUnits(x.when))
    <2>1. pc' = "exceptions" /\ at' = at + 1 /\ ~(charged' > in.budget)
      BY <1>1, <1>2, <1>10 DEF EvaluateException, Exhausted, Pay
    <2>2. charged' <= in.budget
      BY <1>2, <1>8, <2>1
    <2>3. Before(pack.exceptions, at)' = F
      BY <1>1, <1>2, <2>1, BeforeNext
    <2>4. Paid(Entrance(in), Before(pack.exceptions, at), {}, {})'
      BY <1>1, <1>2, <1>6, <1>7, <2>3 DEF Paid
    <2> QED BY <1>2, <2>1, <2>2, <2>4 DEF AccountInv
  <1> QED BY <1>9, <1>10

(* Steps 5 and 6 charge nothing, and end or go on.                         *)
LEMMA CombineExceptionsCounts == WalkInv /\ AccountInv /\ CombineExceptions => AccountInv'
  <1> SUFFICES ASSUME WalkInv, AccountInv, CombineExceptions PROVE AccountInv'
    OBVIOUS
  <1> DEFINE retained == reasons \cup {r \in {"conflict"} : Cardinality(forced) > 1}
  <1>1. /\ in \in Input /\ in' = in /\ pack' = pack /\ situation' = situation
        /\ pc = "exceptions" /\ at > Len(pack.exceptions)
        /\ charged' = charged /\ scanned' = scanned /\ charged <= in.budget
        /\ pack = in.pack /\ situation = in.situation /\ pack \in Packs /\ situation \in Situation
    BY InputFacts DEF WalkInv, AccountInv, CombineExceptions, pack, situation
  <1>2. /\ at \in Nat /\ direct \in BOOLEAN /\ at <= Len(pack.exceptions) + 1
        /\ Gathered(Before(pack.exceptions, at)) /\ Applies(pack, situation) = "true"
        /\ IsFiniteSet(forced)
    BY <1>1 DEF WalkInv, TypeOK, AtExceptions
  <1>3. at = Len(pack.exceptions) + 1
    BY <1>1, <1>2, PackFacts
  <1>4. forced = Forcing(pack, situation) /\ retained = Blocking(pack, situation)
    BY <1>1, <1>2, <1>3, AllGathered
  <1>5. Before(pack.exceptions, at) = Visited(in)
    <2>1. Before(pack.exceptions, at) = Members(pack.exceptions)
      BY <1>1, <1>2, <1>3, PackFacts, BeforeAll
    <2> QED BY <1>1, <1>2, <2>1 DEF Visited
  <1>6. Paid(Entrance(in), Visited(in), {}, {})
    BY <1>1, <1>5 DEF AccountInv
  <1> HIDE DEF retained
  <1>7. CASE retained # {}
    <2>1. pc' = "done"
      BY <1>7 DEF CombineExceptions, Dispose, retained
    <2>2. Tried(in) = {} /\ ~ Carried(in)
      BY <1>1, <1>4, <1>7, ProducedIs DEF Tried, RulesReached, Carried
    <2> QED BY <1>1, <1>6, <2>1, <2>2, EndCounts
  <1>8. CASE retained = {} /\ forced # {}
    <2>1. PICK o \in forced : Produce(o)
      BY <1>8 DEF CombineExceptions, retained
    <2>2. Blocking(pack, situation) = {} /\ ~(Cardinality(forced) > 1)
      BY <1>4, <1>8 DEF retained
    <2>3. (CHOOSE u \in Forcing(pack, situation) : TRUE) = o
      BY <1>2, <1>4, <2>1, <2>2, OnlyMember
    <2>4. o = Yielded(pack, situation) /\ Yields(pack, situation) /\ Forcing(pack, situation) # {}
      BY <1>4, <1>8, <2>3 DEF Yielded, Yields
    <2>5. Produced(pack, situation) = o
      BY <1>1, <1>2, <2>2, <2>4, ProducedIs
    <2>6. Tried(in) = {}
      BY <1>1, <2>4 DEF Tried, RulesReached
    <2> QED BY <1>1, <1>6, <2>1, <2>5, <2>6, ProduceCounts
  <1>9. CASE retained = {} /\ forced = {}
    <2>1. pc' = "rules" /\ at' = 1
      BY <1>9 DEF CombineExceptions, Goto, retained
    <2>2. LiveOf(Before(pack.rules, at))' = {}
      BY <2>1, BeforeFirst DEF LiveOf
    <2>3. Paid(Entrance(in), Visited(in), LiveOf(Before(pack.rules, at)), {})'
      BY <1>1, <1>6, <2>2 DEF Paid
    <2> QED BY <1>1, <2>1, <2>3 DEF AccountInv
  <1> QED BY <1>7, <1>8, <1>9

(* A suppressed rule is not charged for.                                   *)
LEMMA SkipRuleCounts == WalkInv /\ AccountInv /\ SkipRule => AccountInv'
  <1> SUFFICES ASSUME WalkInv, AccountInv, SkipRule PROVE AccountInv'
    OBVIOUS
  <1>1. /\ in' = in /\ pack' = pack /\ pc = "rules" /\ pc' = pc /\ at \in Nat \ {0} /\ at' = at + 1
        /\ charged' = charged /\ scanned' = scanned /\ suppressed' = suppressed
        /\ pack.rules[at].id \in suppressed
    BY DEF WalkInv, TypeOK, SkipRule, pack
  <1>2. Before(pack.rules, at)' = Before(pack.rules, at) \cup {pack.rules[at]}
    BY <1>1, BeforeNext
  <1>3. LiveOf(Before(pack.rules, at))' = LiveOf(Before(pack.rules, at))
    BY <1>1, <1>2 DEF LiveOf
  <1>4. Paid(Entrance(in), Visited(in), LiveOf(Before(pack.rules, at)), {})'
    BY <1>1, <1>3 DEF AccountInv, Paid
  <1> QED BY <1>1, <1>4 DEF AccountInv

(* Steps 7 and 8 charge for one rule more.                                 *)
LEMMA RuleCounts == WalkInv /\ AccountInv /\ EvaluateRule => AccountInv'
  <1> SUFFICES ASSUME WalkInv, AccountInv, EvaluateRule PROVE AccountInv'
    OBVIOUS
  <1>1. PICK x, V, L, M, n : /\ x = pack.rules[at] /\ L = LiveOf(Before(pack.rules, at))
                             /\ M = L \cup {x} /\ n = Entrance(in) /\ V = Visited(in)
    OBVIOUS
  <1>2. /\ in \in Input /\ in' = in /\ pack' = pack /\ situation' = situation /\ pc = "rules"
        /\ at \in Nat \ {0} /\ at <= Len(pack.rules) /\ in.budget \in Int
        /\ pack = in.pack /\ situation = in.situation /\ pack \in Packs
        /\ x.id \notin suppressed /\ suppressed' = suppressed
        /\ RulesReached(pack, situation) /\ suppressed = Suppressing(pack, situation)
    BY <1>1, InputFacts DEF WalkInv, TypeOK, AtRules, RulesReached, EvaluateRule, pack, situation
  <1>3. PICK none : none = {}
    OBVIOUS
  <1>4. scanned = Pointed(in, V, L, none) /\ charged = Done(in, n, V, L, none)
    BY <1>1, <1>2, <1>3 DEF AccountInv, Paid
  <1>5. /\ charged' = charged + (Steps(x.when, situation) + Compiling(Scans(x.when, situation) \ scanned))
        /\ scanned' = scanned \cup Scans(x.when, situation)
    BY <1>1 DEF EvaluateRule, Pay, TreeUnits
  <1>6. x \in Tried(in) /\ L \subseteq Tried(in) /\ x \notin L
    <2>1. DOMAIN pack.rules = 1 .. Len(pack.rules) /\ Len(pack.rules) \in Nat
      BY <1>2, PackFacts
    <2>2. Tried(in) = LiveOf(Members(pack.rules))
      BY <1>2 DEF Tried, Live, LiveOf
    <2>3. \A k \in 1 .. (at - 1) : k \in DOMAIN pack.rules /\ k # at
      BY <1>2, <2>1
    <2>4. at \in DOMAIN pack.rules
      BY <1>2, <2>1
    <2>5. \A k \in 1 .. (at - 1) : pack.rules[k] # x
      BY <1>1, <1>2, <2>3, <2>4, PackAssumption
    <2> QED BY <1>1, <1>2, <2>2, <2>3, <2>4, <2>5 DEF Before, Members, LiveOf
  <1>7. scanned' = Pointed(in, V, M, none) /\ charged' = Done(in, n, V, M, none)
    <2>1. in \in Input
      BY <1>2
    <2>2. n \in Nat /\ V \subseteq Visited(in) /\ none \subseteq DOMAIN Sought(in)
      BY <1>1, <1>2, <1>3, InputFacts
    <2>3. Pointed(in, V, M, none) = Pointed(in, V, L, none) \cup Scans(x.when, in.situation)
      <3>1. M = L \cup {x}
        BY <1>1
      <3> QED BY ONLY <3>1, TriedPoints
    <2>4. Done(in, n, V, M, none)
            = Done(in, n, V, L, none)
              + (Steps(x.when, in.situation) + Compiling(Scans(x.when, in.situation) \ Pointed(in, V, L, none)))
      BY <1>1, <1>6, <2>1, <2>2, OneMoreTried
    <2> QED BY <1>1, <1>2, <1>4, <1>5, <2>3, <2>4
  <1>8. charged' \in Nat /\ charged' <= DeclaredWork(in)
    <2>1. V \subseteq Visited(in) /\ M \subseteq Tried(in) /\ none \subseteq DOMAIN Sought(in)
      BY <1>1, <1>3, <1>6
    <2> QED BY <1>1, <1>2, <1>7, <2>1, PaidIsDeclared
  <1>9. CASE Exhausted(TreeUnits(x.when))
    <2>1. pc' = "error" /\ charged' > in.budget
      BY <1>1, <1>9 DEF EvaluateRule, Refuse, Exhausted, Pay
    <2> QED BY <1>2, <1>8, <2>1 DEF AccountInv
  <1>10. CASE ~ Exhausted(TreeUnits(x.when))
    <2>1. pc' = "rules" /\ at' = at + 1 /\ ~(charged' > in.budget)
      BY <1>1, <1>2, <1>10 DEF EvaluateRule, Exhausted, Pay
    <2>2. charged' <= in.budget
      BY <1>2, <1>8, <2>1
    <2>3. Before(pack.rules, at)' = Before(pack.rules, at) \cup {x}
      BY <1>1, <1>2, <2>1, BeforeNext
    <2>4. LiveOf(Before(pack.rules, at))' = M
      BY <1>1, <1>2, <2>3 DEF LiveOf
    <2>5. Paid(Entrance(in), Visited(in), LiveOf(Before(pack.rules, at)), {})'
      BY <1>1, <1>2, <1>3, <1>7, <2>4 DEF Paid
    <2> QED BY <1>2, <2>1, <2>2, <2>5 DEF AccountInv
  <1> QED BY <1>9, <1>10

(* Steps 9 and 10 charge nothing, and end or produce.                      *)
LEMMA CombineRulesCounts == WalkInv /\ AccountInv /\ CombineRules => AccountInv'
  <1> SUFFICES ASSUME WalkInv, AccountInv, CombineRules PROVE AccountInv'
    OBVIOUS
  <1> DEFINE retained == reasons \cup {r \in {"conflict"} : Cardinality(candidates) > 1}
  <1>1. /\ in \in Input /\ in' = in /\ pack' = pack /\ situation' = situation
        /\ pc = "rules" /\ at > Len(pack.rules)
        /\ charged' = charged /\ scanned' = scanned /\ charged <= in.budget
        /\ pack = in.pack /\ situation = in.situation /\ pack \in Packs /\ situation \in Situation
    BY InputFacts DEF WalkInv, AccountInv, CombineRules, pack, situation
  <1>2. /\ at \in Nat /\ at <= Len(pack.rules) + 1
        /\ Proposing(Before(pack.rules, at)) /\ IsFiniteSet(candidates)
        /\ suppressed = Suppressing(pack, situation)
        /\ Applies(pack, situation) = "true" /\ Blocking(pack, situation) = {}
        /\ Forcing(pack, situation) = {}
    BY <1>1 DEF WalkInv, TypeOK, AtRules
  <1>3. at = Len(pack.rules) + 1
    BY <1>1, <1>2, PackFacts
  <1>4. candidates = Proposed(pack, situation) /\ retained = Undecided(pack, situation)
    BY <1>1, <1>2, <1>3, AllProposed
  <1>5. LiveOf(Before(pack.rules, at)) = Tried(in)
    <2>1. Before(pack.rules, at) = Members(pack.rules)
      BY <1>1, <1>2, <1>3, PackFacts, BeforeAll
    <2> QED BY <1>1, <1>2, <2>1 DEF LiveOf, Live, Tried, RulesReached
  <1>6. Paid(Entrance(in), Visited(in), Tried(in), {})
    BY <1>1, <1>5 DEF AccountInv
  <1> HIDE DEF retained
  <1>7. CASE retained # {}
    <2>1. pc' = "done"
      BY <1>7 DEF CombineRules, Dispose, retained
    <2>2. ~ Carried(in)
      BY <1>1, <1>2, <1>4, <1>7, ProducedIs DEF Carried
    <2> QED BY <1>1, <1>6, <2>1, <2>2, EndCounts
  <1>8. ASSUME NEW o, Produce(o), retained = {}, Yields(pack, situation), o = Yielded(pack, situation)
        PROVE  AccountInv'
    <2>1. Produced(pack, situation) = o
      BY <1>1, <1>2, <1>4, <1>8, ProducedIs
    <2> QED BY <1>1, <1>6, <1>8, <2>1, ProduceCounts
  <1>9. CASE retained = {} /\ candidates # {}
    <2>1. PICK o \in candidates : Produce(o)
      BY <1>9 DEF CombineRules, retained
    <2>2. ~(Cardinality(candidates) > 1)
      BY <1>9 DEF retained
    <2>3. (CHOOSE u \in Proposed(pack, situation) : TRUE) = o
      BY <1>2, <1>4, <2>1, <2>2, OnlyMember
    <2>4. o = Yielded(pack, situation) /\ Yields(pack, situation)
      BY <1>2, <1>4, <1>9, <2>3 DEF Yielded, Yields
    <2> QED BY <1>8, <1>9, <2>1, <2>4
  <1>10. CASE retained = {} /\ candidates = {} /\ pack.fallback # NoOutcome
    <2>1. Produce(pack.fallback)
      BY <1>10 DEF CombineRules, retained
    <2>2. pack.fallback = Yielded(pack, situation) /\ Yields(pack, situation)
      BY <1>2, <1>4, <1>10 DEF Yielded, Yields
    <2> QED BY <1>8, <1>10, <2>1, <2>2
  <1>11. CASE retained = {} /\ candidates = {} /\ pack.fallback = NoOutcome
    <2>1. pc' = "done"
      BY <1>11 DEF CombineRules, Dispose, retained
    <2>2. ~ Yields(pack, situation)
      BY <1>2, <1>4, <1>11 DEF Yields
    <2>3. ~ Carried(in)
      BY <1>1, <2>2, ProducedIs DEF Carried
    <2> QED BY <1>1, <1>6, <2>1, <2>3, EndCounts
  <1> QED BY <1>7, <1>9, <1>10, <1>11

(* The declaration that is read.                                           *)
LEMMA ReadIs ==
    ASSUME WalkInv, AccountInv, pc \in {"declaration", "values"}
    PROVE  /\ Carried(in) /\ chosen \in Outcome
           /\ Reading(in) = DeclarationUnits(pack, chosen) /\ Sought(in) = Sources(pack, chosen)
  <1>1. /\ in.outcomeValues = TRUE /\ chosen \in Outcome /\ Produced(pack, situation) = chosen
        /\ in \in Input /\ pack = in.pack /\ situation = in.situation
    BY InputFacts DEF WalkInv, AtValues, AccountInv, pack, situation
  <1>2. chosen # NoOutcome
    <2>1. in.pack \in Packs
      BY <1>1, InputFacts
    <2> QED BY <1>1, <2>1, PackAssumption
  <1>3. Carried(in)
    BY <1>1, <1>2 DEF Carried
  <1> QED BY <1>1, <1>3 DEF Reading, Sought

LEMMA DeclarationCounts == WalkInv /\ AccountInv /\ ReadDeclaration => AccountInv'
  <1> SUFFICES ASSUME WalkInv, AccountInv, ReadDeclaration PROVE AccountInv'
    OBVIOUS
  <1>1. /\ in \in Input /\ in' = in /\ pack' = pack /\ situation' = situation /\ pc = "declaration"
        /\ chosen' = chosen /\ in.budget \in Int
        /\ Paid(Entrance(in), Visited(in), Tried(in), {}) /\ Produced(pack, situation) = chosen
    BY InputFacts DEF WalkInv, AccountInv, ReadDeclaration, pack, situation
  <1>2. charged' = charged + DeclarationUnits(pack, chosen) /\ scanned' = scanned
    BY DEF ReadDeclaration, Pay
  <1>3. PICK n, m, V, M, none : /\ n = Entrance(in) /\ m = Reading(in) /\ V = Visited(in) /\ M = Tried(in)
                                /\ none = {}
    OBVIOUS
  <1>4. n \in Nat /\ m \in Nat /\ m = DeclarationUnits(pack, chosen)
    BY <1>1, <1>3, InputFacts, SoughtFacts, ReadIs
  <1>5. V \subseteq Visited(in) /\ M \subseteq Tried(in) /\ none \subseteq DOMAIN Sought(in)
    BY <1>3
  <1>6. Done(in, n + m, V, M, none) = Done(in, n, V, M, none) + m
    BY ONLY <1>1, <1>4, <1>5, UnitsMore
  <1>7. scanned' = Pointed(in, V, M, none) /\ charged' = Done(in, n + m, V, M, none)
    BY <1>1, <1>2, <1>3, <1>4, <1>6 DEF Paid
  <1>8. charged' \in Nat /\ charged' <= DeclaredWork(in)
    BY <1>1, <1>3, <1>5, <1>7, PaidIsDeclared
  <1>9. CASE Exhausted(DeclarationUnits(pack, chosen))
    <2>1. pc' = "error" /\ charged' > in.budget
      BY <1>2, <1>9 DEF ReadDeclaration, Refuse, Exhausted
    <2> QED BY <1>1, <1>8, <2>1 DEF AccountInv
  <1>10. CASE ~ Exhausted(DeclarationUnits(pack, chosen))
    <2>1. pc' = "values" /\ at' = 1 /\ ~(charged' > in.budget)
      BY <1>2, <1>10 DEF ReadDeclaration, Goto, Exhausted
    <2>2. charged' <= in.budget /\ 1 .. (at' - 1) = {}
      BY <1>1, <1>8, <2>1
    <2>3. Paid(Entrance(in) + Reading(in), Visited(in), Tried(in), 1 .. (at - 1))'
      BY <1>1, <1>3, <1>7, <2>2 DEF Paid
    <2> QED BY <1>1, <2>1, <2>2, <2>3 DEF AccountInv
  <1> QED BY <1>9, <1>10

(* One value more is charged for.                                          *)
LEMMA ValueCounts == WalkInv /\ AccountInv /\ ResolveValue => AccountInv'
  <1> SUFFICES ASSUME WalkInv, AccountInv, ResolveValue PROVE AccountInv'
    OBVIOUS
  <1> DEFINE p == Sources(pack, chosen)[at]
  <1>1. /\ in \in Input /\ in' = in /\ pack' = pack /\ situation' = situation /\ pc = "values"
        /\ chosen' = chosen /\ in.budget \in Int /\ at \in Nat \ {0} /\ at <= Len(Sources(pack, chosen))
        /\ situation = in.situation /\ Produced(pack, situation) = chosen
        /\ Paid(Entrance(in) + Reading(in), Visited(in), Tried(in), 1 .. (at - 1))
    BY InputFacts DEF WalkInv, TypeOK, AccountInv, ResolveValue, pack, situation
  <1>2. Sought(in) = Sources(pack, chosen)
    BY <1>1, ReadIs
  <1>3. PICK n, V, M, J, K, j : /\ n = Entrance(in) + Reading(in) /\ V = Visited(in) /\ M = Tried(in)
                                /\ J = 1 .. (at - 1) /\ K = J \cup {j} /\ j = at
    OBVIOUS
  <1>4. /\ n \in Nat /\ V \subseteq Visited(in) /\ M \subseteq Tried(in)
        /\ J \subseteq DOMAIN Sought(in) /\ j \in DOMAIN Sought(in) /\ j \notin J /\ K \subseteq DOMAIN Sought(in)
        /\ K = 1 .. at
    <2>1. Entrance(in) \in Nat /\ Reading(in) \in Nat
      BY <1>1, InputFacts, SoughtFacts
    <2>2. DOMAIN Sought(in) = 1 .. Len(Sought(in)) /\ Len(Sought(in)) \in Nat
      BY <1>1, SoughtFacts
    <2> QED BY <1>1, <1>2, <1>3, <2>1, <2>2
  <1>5. /\ charged' = charged + (StepUnits(Sought(in)[j], in.situation) + Compiling({Sought(in)[j]} \ scanned))
        /\ scanned' = scanned \cup {Sought(in)[j]}
    BY <1>1, <1>2, <1>3 DEF ResolveValue, Pay, PointerUnits
  <1>6. scanned = Pointed(in, V, M, J) /\ charged = Done(in, n, V, M, J)
    BY <1>1, <1>3 DEF Paid
  <1>7. Done(in, n, V, M, K)
          = Done(in, n, V, M, J)
            + (StepUnits(Sought(in)[j], in.situation) + Compiling({Sought(in)[j]} \ Pointed(in, V, M, J)))
    <2>1. K = J \cup {j} /\ in \in Input
      BY <1>1, <1>3
    <2> QED BY ONLY <2>1, <1>4, OneMorePlace
  <1>8. scanned' = Pointed(in, V, M, K) /\ charged' = Done(in, n, V, M, K)
    <2>1. Pointed(in, V, M, K) = Pointed(in, V, M, J) \cup {Sought(in)[j]}
      <3>1. K = J \cup {j}
        BY <1>3
      <3>2. At(Sought(in), K) = At(Sought(in), J) \cup {Sought(in)[j]}
        BY <3>1 DEF At
      <3> QED BY <3>2 DEF Pointed
    <2> QED BY <1>5, <1>6, <1>7, <2>1
  <1>9. charged' \in Nat /\ charged' <= DeclaredWork(in)
    BY <1>1, <1>3, <1>4, <1>8, PaidIsDeclared
  <1> HIDE DEF p
  <1>10. charged' = charged + PointerUnits(p)
    BY DEF ResolveValue, Pay, p
  <1>11. CASE Exhausted(PointerUnits(p))
    <2>1. pc' = "error" /\ charged' > in.budget
      BY <1>10, <1>11 DEF ResolveValue, Refuse, Exhausted, p
    <2> QED BY <1>1, <1>9, <2>1 DEF AccountInv
  <1>12. CASE ~ Exhausted(PointerUnits(p))
    <2>1. pc' = "values" /\ at' = at + 1 /\ ~(charged' > in.budget)
      BY <1>1, <1>10, <1>12 DEF ResolveValue, Exhausted, p
    <2>2. charged' <= in.budget /\ at' - 1 = at
      BY <1>1, <1>9, <2>1
    <2>3. Paid(Entrance(in) + Reading(in), Visited(in), Tried(in), 1 .. (at - 1))'
      BY <1>1, <1>3, <1>4, <1>8, <2>2 DEF Paid
    <2> QED BY <1>1, <2>1, <2>2, <2>3 DEF AccountInv
  <1> QED BY <1>11, <1>12

(* At the end of the values all was charged for.                           *)
LEMMA CarryCounts == WalkInv /\ AccountInv /\ CarryValues => AccountInv'
  <1> SUFFICES ASSUME WalkInv, AccountInv, CarryValues PROVE AccountInv'
    OBVIOUS
  <1>1. /\ in \in Input /\ in' = in /\ pc = "values" /\ pc' = "done" /\ charged' = charged
        /\ at \in Nat /\ at > Len(Sources(pack, chosen)) /\ at <= Len(Sources(pack, chosen)) + 1
        /\ charged <= in.budget
        /\ Paid(Entrance(in) + Reading(in), Visited(in), Tried(in), 1 .. (at - 1))
    BY DEF WalkInv, TypeOK, AtValues, AccountInv, CarryValues, Dispose
  <1>2. Sought(in) = Sources(pack, chosen)
    BY <1>1, ReadIs
  <1>3. DOMAIN Sought(in) = 1 .. (at - 1)
    <2>1. DOMAIN Sought(in) = 1 .. Len(Sought(in)) /\ Len(Sought(in)) \in Nat
      BY <1>1, SoughtFacts
    <2> QED BY <1>1, <1>2, <2>1
  <1>4. charged = DeclaredWork(in)
    BY <1>1, <1>3, TotalWork DEF Paid
  <1> QED BY <1>1, <1>4 DEF AccountInv

LEMMA AccountInvariant == Spec => []AccountInv
  <1>1. Init => AccountInv
    <2> SUFFICES ASSUME Init PROVE AccountInv
      OBVIOUS
    <2>1. in \in Input /\ pc = "begin" /\ charged = 0 /\ scanned = {}
      BY DEF Init, Start, Input
    <2>2. charged <= in.budget
      BY <2>1, InputFacts
    <2> QED BY <2>1, <2>2 DEF AccountInv
  <1>2. WalkInv /\ AccountInv /\ [Next]_vars => AccountInv'
    <2> SUFFICES ASSUME WalkInv, AccountInv, [Next]_vars PROVE AccountInv'
      OBVIOUS
    <2>1. CASE UNCHANGED vars
      BY <2>1 DEF vars, AccountInv, Paid, LiveOf, pack, situation
    <2> QED BY <2>1, BeginCounts, ApplicabilityCounts, RequirementsCounts, ExceptionCounts,
               CombineExceptionsCounts, SkipRuleCounts, RuleCounts, CombineRulesCounts,
               DeclarationCounts, ValueCounts, CarryCounts DEF Next
  <1> QED BY <1>1, <1>2, WalkInvariant, PTL DEF Spec

(* The work limit refuses an evaluation when and only when the work that   *)
(* its pack declares of its situation is above the budget, whatever the    *)
(* order the walk charges in: a refused walk has charged no more than is   *)
(* declared and more than it may, and one that ends has charged all of it  *)
(* (limits.go, resolve.go).                                                *)
THEOREM LimitExact == Spec => []LimitDeclared
  <1>1. WalkInv /\ AccountInv => LimitDeclared
    <2> SUFFICES ASSUME WalkInv, AccountInv PROVE LimitDeclared
      OBVIOUS
    <2>1. in.budget \in Nat /\ DeclaredWork(in) \in Nat
      <3>1. in \in Input
        BY DEF WalkInv
      <3>2. PICK none, n : none = {} /\ n = Entrance(in)
        OBVIOUS
      <3>3. DeclaredWork(in) \in Nat
        BY <3>1, <3>2, PaidIsDeclared
      <3> QED BY <3>1, <3>3, InputFacts
    <2>2. pc = "error" => DeclaredWork(in) > in.budget
      <3> SUFFICES ASSUME pc = "error" PROVE DeclaredWork(in) > in.budget
        OBVIOUS
      <3>1. charged \in Nat /\ charged > in.budget /\ charged <= DeclaredWork(in)
        BY DEF AccountInv
      <3> QED BY <2>1, <3>1
    <2>3. pc = "done" => DeclaredWork(in) <= in.budget /\ charged = DeclaredWork(in)
      BY DEF AccountInv
    <2> QED BY <2>2, <2>3 DEF LimitDeclared
  <1> QED BY <1>1, WalkInvariant, AccountInvariant, PTL
=============================================================================
