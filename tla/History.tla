------------------------------ MODULE History ------------------------------
(***************************************************************************)
(* Reading a definition's history backwards (audit/wire_history.go): a     *)
(* window of the trail before an offset, its matching lines newest first,  *)
(* and the offset the next reading begins at.                              *)
(*                                                                         *)
(* A trail is a sequence of units, each a part of a line: [of, end], the   *)
(* line it is of and whether its newline ends the line.  Offsets count     *)
(* units.  What a line's JSON says is About.                               *)
(***************************************************************************)
EXTENDS Integers, Sequences, FiniteSetsExt, SequencesExt

CONSTANTS
    None,           \* nothing there, nothing supplied
    About,          \* what a line is about: a definition, or "unread"
    Window,         \* HistoryReadBytes
    HistoryRecords  \* the most records one reading gives

Ends(text) == {p \in DOMAIN text : text[p].end}

(* The lines that end in start + 1 .. end, as pairs of first and last.     *)
LinesIn(text, start, end) ==
    {<<1 + Max({start} \cup {q \in Ends(text) : q > start /\ q < p}), p>> :
        p \in {q \in Ends(text) : q > start /\ q <= end}}

Newest(lines) ==
    [k \in 1 .. Cardinality(lines) |->
        CHOOSE l \in lines : Cardinality({m \in lines : m[1] >= l[1]}) = k]

(* historyRange: the window, or an error.                                  *)
RangeRefuses(text, before) == before # None /\ before > Len(text)

WindowEnd(text, before) == IF before = None THEN Len(text) ELSE before

(* historyWindow: a window that begins inside the trail gives up the line  *)
(* it begins in, and one with no newline at all is refused.                *)
HistoryWindow(text, before, id) ==
    LET end == WindowEnd(text, before)
        from == Max({0, end - Window})
        ends == {p \in Ends(text) : p > from /\ p <= end}
        start == IF from = 0 THEN 0 ELSE Min(ends)
        torn == end > start /\ end \notin ends
        lines == LinesIn(text, start, end)
        matching == Newest({l \in lines : About[text[l[2]].of] = id})
        page == SubSeq(matching, 1, Min({Len(matching), HistoryRecords}))
        full == Len(page) = HistoryRecords
        seen == IF full THEN {l \in lines : l[1] > page[HistoryRecords][1]} ELSE lines
    IN  IF from > 0 /\ ends = {}
        THEN [err |-> "window", records |-> << >>, next |-> None, unread |-> 0]
        ELSE [err |-> "none",
              records |-> [k \in DOMAIN page |-> SubSeq(text, page[k][1], page[k][2])],
              next |-> IF full
                       THEN (IF page[HistoryRecords][1] = 1 THEN None
                             ELSE page[HistoryRecords][1] - 1)
                       ELSE IF start > 0 THEN start ELSE None,
              unread |-> Cardinality({l \in seen : About[text[l[2]].of] = "unread"})
                           + (IF torn THEN 1 ELSE 0)]
=============================================================================
