----------------------------- MODULE Decisions -----------------------------
(***************************************************************************)
(* What the deciding surfaces promise, without how they keep it: reviewed  *)
(* sets are declared, decisions are recorded, and decisions are reported.  *)
(* A decision is one thing under one reviewed set; a decision of a project *)
(* that keeps a trail is reported only when it is in the trail, and never  *)
(* differently; a rehearsal is reported and never recorded; and what is    *)
(* recorded or reported stays so.                                          *)
(***************************************************************************)
EXTENDS ReviewedSet

CONSTANTS
    Procs,      \* the runs that may each take one decision
    NoDecision  \* a run that reported none

VARIABLES
    sets,       \* the reviewed sets ever declared
    trail,      \* the decisions recorded, by their place in the trail
    reported    \* the decision each run reported

dvars == <<sets, trail, reported>>

(* A decision is [run, cfg, rehearsal, reviewed, set, applied]: what was   *)
(* applied, as pairs of a declared name and bytes, under which             *)
(* configuration and which set.                                            *)

(* The strongest claim a record makes: every document applied was declared *)
(* and is what one reviewed set, over this configuration, says it is.      *)
UnderOneSet(d) ==
    /\ d.set \in sets
    /\ d.set.config = d.cfg
    /\ d.applied # {}
    /\ \A a \in d.applied :
         /\ a[1] \in Declared(d.cfg) \cap DOMAIN d.set.entry
         /\ d.set.entry[a[1]] = [path |-> d.cfg.path[a[1]], digest |-> a[2]]

(* And a project that requires reviewed law decides by no draft.           *)
NoDraft(d) == d.applied # {} /\ d.reviewed # "false"

Allowed(d) ==
    /\ d.reviewed = "true" => UnderOneSet(d)
    /\ d.cfg # NoConfig /\ d.cfg.required /\ ~ d.rehearsal => NoDraft(d)

Audited(d) == d.cfg # NoConfig /\ d.cfg.audited /\ ~ d.rehearsal

AbsInit ==
    /\ sets \subseteq Documents
    /\ DOMAIN trail = {}
    /\ reported = [p \in Procs |-> NoDecision]

Declare ==
    /\ \E doc \in sets' : doc \in Documents /\ sets' = sets \cup {doc}
    /\ UNCHANGED <<trail, reported>>

(* One entry in the trail for each decision, behind those recorded before  *)
(* it and before it is reported.                                           *)
Record ==
    /\ \E k \in DOMAIN trail' :
         LET d == trail'[k]
         IN  /\ \A j \in DOMAIN trail : j < k
             /\ trail' = [j \in DOMAIN trail \cup {k} |-> IF j = k THEN d ELSE trail[j]]
             /\ Audited(d) /\ Allowed(d)
             /\ reported[d.run] = NoDecision
             /\ \A j \in DOMAIN trail : trail[j].run # d.run
    /\ UNCHANGED <<sets, reported>>

Report(p) ==
    /\ reported[p] = NoDecision /\ reported'[p] # NoDecision
    /\ \A q \in Procs \ {p} : reported'[q] = reported[q]
    /\ LET d == reported'[p]
       IN  /\ d.run = p /\ Allowed(d)
           /\ (\E k \in DOMAIN trail : trail[k].run = p) <=> Audited(d)
           /\ Audited(d) => \E k \in DOMAIN trail : trail[k] = d
    /\ UNCHANGED <<sets, trail>>

AbsNext == Declare \/ Record \/ \E p \in Procs : Report(p)

AbsSpec == AbsInit /\ [][AbsNext]_dvars
=============================================================================
