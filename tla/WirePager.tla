----------------------------- MODULE WirePager -----------------------------
(***************************************************************************)
(* The pager of audit exports (audit/wire.go, audit/wire_history.go): raw  *)
(* exports of the audit files in pages that continue one capture, and      *)
(* histories in pages of one immutable answer, in shared slots, beside     *)
(* everything that happens to the files meanwhile.  An answer takes        *)
(* several steps; the pager does one answer at a time (its mutex).         *)
(***************************************************************************)
EXTENDS History, FiniteSets

CONSTANTS
    FileCount,      \* the files: the trail, its sidecar and its stamps
    Inode,          \* the files there can be
    Authority,      \* the project's roots and configurations
    Block,          \* units a block of a capture holds
    RecordUnits,    \* the longest line that is shown decoded
    PageRecords,    \* the most lines one page gives
    MaxExports      \* the slots

VARIABLES
    named,      \* the file each name names, or None
    store,      \* what every file holds
    authority,  \* the configured project
    exports,    \* the pager's exports
    job         \* the answer being worked out, or Idle

ASSUME SizesAssumption == {FileCount, PageRecords, HistoryRecords} \subseteq Nat \ {0}

files == <<named, store, authority>>

Nothing == [e \in {} |-> None]

Idle == [pc |-> "idle"]

Index == 1 .. FileCount

Text(n) == IF n = None THEN << >> ELSE store[n]

-----------------------------------------------------------------------------
(* Slots.  An export is known by its token, here the line it was asked for *)
(* in, so a smaller one is older.  Old exports are those whose five        *)
(* minutes are over.                                                       *)

Expired == {id \in DOMAIN exports : exports[id].old}
Live == [id \in DOMAIN exports \ Expired |-> exports[id]]

Without(some, id) == [k \in DOMAIN some \ {id} |-> some[k]]

With(some, id, e) == [k \in DOMAIN some \cup {id} |-> IF k = id THEN e ELSE some[k]]

(* makeRoom: the oldest export that is complete gives up its slot.         *)
Full(some) == Cardinality(DOMAIN some) >= MaxExports

Evicted(some) ==
    LET complete == {id \in DOMAIN some : some[id].complete}
    IN  IF Full(some) THEN Without(some, Min(complete)) ELSE some

NoRoom(some) == Full(some) /\ \A id \in DOMAIN some : ~ some[id].complete

(* A cursor is of an export of its kind, and is the latest answered one or *)
(* the one to come.                                                        *)
CursorKnown(some, cursor, raw) ==
    cursor.export \in DOMAIN some /\ some[cursor.export].raw = raw

Replays(e, cursor) == e.previous = cursor.seq /\ e.last # None

-----------------------------------------------------------------------------
(* A raw export: its capture, and where the next page continues.           *)

Capture ==
    [raw |-> TRUE, authority |-> authority, old |-> FALSE,
     ids |-> named, text |-> [i \in Index |-> Text(named[i])],
     seq |-> 0, previous |-> None, last |-> None, complete |-> FALSE,
     file |-> 1, offset |-> 0, cached |-> None, line |-> << >>, lineOffset |-> 0]

(* checkIdentity: the same files, none shorter than it was.                *)
SameFiles(e, at) ==
    \A i \in Index : e.ids[i] = at[i] /\ Len(Text(at[i])) >= Len(e.text[i])

BlockOf(position) == (position - 1) \div Block

BlockStands(e, i, at, k) ==
    \A p \in {q \in DOMAIN e.text[i] : BlockOf(q) = k} :
        p <= Len(Text(at[i])) /\ Text(at[i])[p] = e.text[i][p]

(* Mutant: the blocks of the last file read are the ones checked again.    *)
AllBlocksStandLast(e, at) ==
    \A k \in {BlockOf(p) : p \in DOMAIN e.text[FileCount]} : BlockStands(e, FileCount, at, k)

(* checkAllBlocks.                                                         *)
AllBlocksStand(e, at) ==
    \A i \in Index : \A k \in {BlockOf(p) : p \in DOMAIN e.text[i]} : BlockStands(e, i, at, k)

(* readPage: up to limit units of the file, and no more than PageRecords   *)
(* lines.                                                                  *)
PageEnd(e, limit) ==
    LET text == e.text[e.file]
    IN  Max({p \in e.offset .. Min({Len(text), e.offset + limit}) :
                Cardinality({q \in Ends(text) : q > e.offset /\ q < p}) < PageRecords})

PageStands(e, at, end) ==
    \A k \in {BlockOf(p) : p \in e.offset + 1 .. end} \ {e.cached} :
        BlockStands(e, e.file, at, k)

(* finishLine.                                                             *)
FinishLine(offset, line, incomplete) ==
    [offset |-> offset, digest |-> line,
     status |-> IF incomplete THEN "incomplete"
                ELSE IF Len(line) > RecordUnits THEN "oversized" ELSE "line"]

(* The lines that end in a text, from an offset of the file on; the k-th   *)
(* of their ends, and the last before a position.                          *)
EndAt(text, k) ==
    CHOOSE p \in Ends(text) : Cardinality({q \in Ends(text) : q <= p}) = k

EndBefore(text, p) == Max({0} \cup {q \in Ends(text) : q < p})

Finished(text, offset) ==
    [k \in 1 .. Cardinality(Ends(text)) |->
        LET p == EndAt(text, k)
            from == EndBefore(text, p)
        IN  FinishLine(offset + from, SubSeq(text, from + 1, p), FALSE)]

(* Mutant: what a page leaves of a line is forgotten.                      *)
PageLinesForgotten(e, end) ==
    [records |-> Finished(SubSeq(e.text[e.file], e.offset + 1, end), e.offset),
     line |-> << >>, lineOffset |-> end]

(* The lines a page finishes: what was left of a line goes before it.      *)
PageLines(e, end) ==
    LET text == e.text[e.file]
        all == e.line \o SubSeq(text, e.offset + 1, end)
        last == EndBefore(all, Len(all) + 1)
        tail == SubSeq(all, last + 1, Len(all))
        torn == end = Len(text) /\ tail # << >>
    IN  [records |->
            Finished(all, e.lineOffset)
            \o (IF torn THEN << FinishLine(e.lineOffset + last, tail, TRUE) >> ELSE << >>),
         line |-> IF torn THEN << >> ELSE tail,
         lineOffset |-> e.lineOffset + last]

(* What a page given leaves of its export, but for where that continues.   *)
Given(e, page) ==
    [e EXCEPT !.previous = IF e.seq = 0 THEN None ELSE e.seq,
              !.seq = @ + 1, !.last = page, !.complete = page.complete]

(* The page, and the export that continues after it.  (A page's `whole` is *)
(* what it is a page of, for the properties: the answer does not have it.) *)
PageOf(e, id, limit) ==
    LET end == PageEnd(e, limit)
        lines == PageLines(e, end)
        fileComplete == end = Len(e.text[e.file])
        complete == fileComplete /\ e.file = FileCount
        page == [file |-> e.file, offset |-> e.offset,
                 data |-> SubSeq(e.text[e.file], e.offset + 1, end),
                 records |-> lines.records, complete |-> complete, whole |-> e.text,
                 next |-> IF complete THEN None ELSE [export |-> id, seq |-> e.seq + 1]]
        on == Given(e, page)
    IN  [page |-> page,
         export |->
            IF fileComplete /\ ~ complete
            THEN [on EXCEPT !.file = @ + 1, !.offset = 0, !.cached = None,
                            !.line = << >>, !.lineOffset = 0]
            ELSE [on EXCEPT !.offset = end, !.line = lines.line,
                            !.lineOffset = lines.lineOffset,
                            !.cached = IF end = e.offset THEN @ ELSE BlockOf(end)]]

-----------------------------------------------------------------------------
(* A history: one immutable answer, in pages.                              *)

Projected(answer) ==
    [raw |-> FALSE, authority |-> authority, old |-> FALSE,
     seq |-> 0, previous |-> None, last |-> None, complete |-> FALSE,
     history |-> answer, offset |-> 0]

(* The answer is told in parts: its records, then what ends it.            *)
Parts(answer) ==
    answer.records \o << [next |-> answer.next, unread |-> answer.unread] >>

HistoryPageOf(e, id, limit) ==
    LET parts == Parts(e.history)
        end == Min({Len(parts), e.offset + limit})
        page == [file |-> 0, offset |-> e.offset, data |-> SubSeq(parts, e.offset + 1, end),
                 records |-> << >>, complete |-> end = Len(parts), whole |-> parts,
                 next |-> IF end = Len(parts) THEN None ELSE [export |-> id, seq |-> e.seq + 1]]
    IN  [page |-> page,
         export |-> [Given(e, page) EXCEPT !.offset = end]]
=============================================================================
