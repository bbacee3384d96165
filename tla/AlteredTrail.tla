---------------------------- MODULE AlteredTrail ----------------------------
(***************************************************************************)
(* A trail as those who attest to it find it: appended to, torn, repaired, *)
(* cut and altered.  What makes the appends and repairs safe beside one    *)
(* another is TrailWriter's; here each is one step.                        *)
(***************************************************************************)
EXTENDS Attesting

CONSTANTS
    Writing,        \* the author of appended records
    Altering,       \* the author of records put in the place of others
    MaxLines,       \* bound: lines of the trail
    MaxChanges      \* bound: cuts and alterations

ASSUME AuthorsAssumption == {Writing, Altering} \subseteq Author

VARIABLES
    trail,      \* the trail's bytes
    names,      \* how many records were ever written: the next one's name
    changes     \* how many cuts and alterations there were

file == <<trail, names, changes>>

FileInit == trail = Empty /\ names = 0 /\ changes = 0

Fresh(w) == Unchained(w, names + 1, 1, FALSE)

Appended == ChainedLines(trail, << Fresh(Writing) >>, TRUE, Writing)

(* A record appended.                                                      *)
Grow ==
    /\ LineCount(trail) < MaxLines /\ Appended.err = "none"
    /\ trail' = Concat(trail, Appended.data)
    /\ names' = names + 1
    /\ UNCHANGED changes

(* A write of a record that did not complete.                              *)
Tear ==
    /\ LineCount(trail) < MaxLines /\ Appended.err = "none"
    /\ trail' = Concat(trail, << Appended.data[1] >>)
    /\ names' = names + 1
    /\ UNCHANGED changes

(* `audit repair`: the discontinuity is its author's next record.          *)
Mend ==
    /\ LineCount(trail) + 1 < MaxLines
    /\ LET lines == RepairLines(trail, Writing, TRUE, FALSE, Empty)
       IN  /\ lines.err = "none"
           /\ trail' = Concat(trail, [lines.data EXCEPT ![2][1].i = names + 1])
    /\ names' = names + 1
    /\ UNCHANGED changes

(* Whoever holds the file cuts it, or puts another record in a line's      *)
(* place, with its links.                                                  *)
Alter ==
    /\ changes < MaxChanges /\ changes' = changes + 1
    /\ \/ /\ \E k \in 0 .. LineCount(trail) : trail' = UpTo(trail, k)
          /\ trail' # trail /\ names' = names
       \/ \E k \in 1 .. LineCount(trail) :
            LET other == [Fresh(Altering) EXCEPT
                            !.trail = trail[k][1].trail, !.seq = trail[k][1].seq,
                            !.prev = trail[k][1].prev]
            IN  /\ trail' = [trail EXCEPT ![k] = << other >>]
                /\ names' = names + 1

(* The checkpoint of a trail that has no finding, or None.                 *)
CleanHead(b) == IF TrailFindings(b) = {} THEN HeadOf(b) ELSE None
=============================================================================
