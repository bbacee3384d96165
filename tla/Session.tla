------------------------------ MODULE Session ------------------------------
(***************************************************************************)
(* `jpack mcp`: one client and the server at the two ends of a pipe        *)
(* (internal/mcp), with the pager of audit exports behind it.  The client  *)
(* writes lines ahead of the answers, gives up waiting for some and asks   *)
(* again; the server reads one line at a time and answers at most one      *)
(* line; and the audit files change under both.                            *)
(*                                                                         *)
(* The client is external: what it may write is any line at all.  Of the   *)
(* tools, the ones that page an export are modelled; every other one       *)
(* answers a request as ping does.                                         *)
(***************************************************************************)
EXTENDS WirePager, TLC

CONSTANTS
    Limits,         \* the page sizes the client asks for
    Definition,     \* what the client reads the history of
    Forms,          \* the lines the client writes that are not requests
    FirstNames,     \* the files that are named as the server starts
    FirstStores,    \* and what they may hold
    Units,          \* the units written while it runs
    MaxSent,        \* bound: lines the client writes
    MaxAhead,       \* bound: lines it writes ahead of the answers
    MaxChanges,     \* bound: changes of the files
    MaxUnits        \* bound: units of a file

VARIABLES
    in,         \* lines the server has not read
    out,        \* answers the client has not read
    sent,       \* how many lines the client wrote
    owed,       \* the ids the client is owed answers under, in order
    asking,     \* the client's request for a page, or None
    got,        \* what the client put together of its export
    changes     \* changes of the files

ASSUME FilesAssumption ==
    LET text == Seq([of : Nat, end : BOOLEAN])
    IN  /\ None \notin Inode \cup Nat \cup [export : Nat, seq : Nat]
        /\ FirstNames \in [Index -> Inode \cup {None}]
        /\ FirstStores \subseteq [Inode -> text]
        /\ \A u \in Units : << u >> \in text

ASSUME LimitsAssumption == Limits \subseteq Nat

client == <<in, sent, owed, asking, got>>
vars == <<files, exports, job, client, out, changes>>

Started == [raw |-> TRUE, cursor |-> None, data |-> [i \in 0 .. FileCount |-> << >>],
            records |-> [i \in 0 .. FileCount |-> << >>], complete |-> FALSE,
            whole |-> None]

Null == 0

-----------------------------------------------------------------------------
(* The server.                                                             *)

Answer(id, kind, page) == out' = Append(out, [id |-> id, kind |-> kind, page |-> page])

(* Mutant: a refusal of a notification's params is answered.               *)
JudgedParams(line) ==
    IF line.form \in {"garbled", "scalar"} THEN "null"
    ELSE IF line.form \in {"envelope", "params"}
    THEN (IF line.id = None THEN "null" ELSE "error")
    ELSE IF line.method \in {"list", "history"} THEN "page"
    ELSE IF line.id = None THEN "silent"
    ELSE IF line.method = "ping" THEN "result" ELSE "error"

(* A line is judged in order: its encoding and syntax, that it is an       *)
(* object, its envelope, its params.  An invalid request is answered       *)
(* whether or not it has an id; a valid one without an id never is.        *)
Judged(line) ==
    IF line.form \in {"garbled", "scalar"} THEN "null"
    ELSE IF line.form = "envelope" THEN (IF line.id = None THEN "null" ELSE "error")
    ELSE IF line.form = "params" THEN (IF line.id = None THEN "silent" ELSE "error")
    ELSE IF line.method \in {"list", "history"} THEN "page"
    ELSE IF line.id = None THEN "silent"
    ELSE IF line.method = "ping" THEN "result" ELSE "error"

Read ==
    /\ job = Idle /\ in # << >>
    /\ in' = Tail(in)
    /\ LET judged == Judged(Head(in))
       IN  /\ job' = IF judged = "page" THEN [pc |-> "begin", line |-> Head(in)] ELSE Idle
           /\ IF judged \in {"silent", "page"} THEN UNCHANGED out
              ELSE Answer(IF judged = "null" THEN Null ELSE Head(in).id, judged, None)
    /\ UNCHANGED <<files, exports, sent, owed, asking, got, changes>>

Line == job.line

(* reply: a notification's result goes nowhere.                            *)
Reply(kind, page) ==
    /\ job' = Idle
    /\ IF Line.id = None THEN UNCHANGED out ELSE Answer(Line.id, kind, page)

Refuse(some) == exports' = some /\ Reply("error", None)

Unasked == UNCHANGED <<files, client, changes>>

(* Page and HistoryPage, as far as the files need not be read: what is     *)
(* old is dropped, a cursor is looked up and the latest answer given       *)
(* again, and a new export needs a slot.                                   *)
Token == sent - Len(in)

Replay(cursor) ==
    /\ exports' = Live
    /\ Reply("page", Live[cursor.export].last)

(* Every file is the captured one and begins with what was captured.  (A   *)
(* page's job remembers how many changes there were as it began if it was  *)
(* not so then, for the property RewrittenRefused alone.)                  *)
Held(e) ==
    \A i \in Index : e.ids[i] = named[i]
                       /\ IsPrefix(e.text[i], Text(named[i]))

BeginContinued ==
    /\ job.pc = "begin" /\ Line.cursor # None
    /\ LET cursor == Line.cursor
           raw == Line.method = "list"
       IN  IF ~ CursorKnown(Live, cursor, raw) THEN Refuse(Live)
           ELSE IF Live[cursor.export].authority # authority
           THEN Refuse(Without(Live, cursor.export))
           ELSE IF Replays(Live[cursor.export], cursor) THEN Replay(cursor)
           ELSE IF Live[cursor.export].complete \/ cursor.seq # Live[cursor.export].seq
           THEN Refuse(Live)
           ELSE IF raw
           THEN /\ exports' = Live
                /\ job' = [pc |-> "identity", line |-> Line, export |-> cursor.export,
                           e |-> Live[cursor.export], at |-> named,
                           rewritten |-> IF Held(Live[cursor.export]) THEN -1 ELSE changes]
                /\ UNCHANGED out
           ELSE LET next == HistoryPageOf(Live[cursor.export], cursor.export, Line.limit)
                IN  /\ exports' = With(Live, cursor.export, next.export)
                    /\ Reply("page", next.page)
    /\ Unasked

BeginExport ==
    /\ job.pc = "begin" /\ Line.cursor = None /\ Line.method = "list"
    /\ IF NoRoom(Live) THEN Refuse(Live)
       ELSE /\ exports' = Evicted(Live)
            /\ job' = [pc |-> "identity", line |-> Line, export |-> Token,
                       e |-> Capture, at |-> named, rewritten |-> -1]
            /\ UNCHANGED out
    /\ Unasked

(* captureHistory: the window is read, and read again from the name.       *)
BeginHistory ==
    /\ job.pc = "begin" /\ Line.cursor = None /\ Line.method = "history"
    /\ IF NoRoom(Live) THEN Refuse(Live)
       ELSE LET text == Text(named[1])
                answer == HistoryWindow(text, None, Definition)
            IN  /\ exports' = Evicted(Live)
                /\ IF answer.err # "none" THEN Reply("error", None)
                   ELSE /\ job' = [pc |-> "reread", line |-> Line, export |-> Token,
                                   e |-> Projected(answer), at |-> named, text |-> text]
                        /\ UNCHANGED out
    /\ Unasked

RereadHistory ==
    /\ job.pc = "reread"
    /\ IF \/ named[1] # job.at[1] \/ Len(Text(named[1])) < Len(job.text)
          \/ \E p \in Max({1, Len(job.text) - Window + 1}) .. Len(job.text) :
                Text(named[1])[p] # job.text[p]
       THEN Refuse(exports)
       ELSE LET next == HistoryPageOf(job.e, job.export, Line.limit)
            IN  /\ exports' = With(exports, job.export, next.export)
                /\ Reply("page", next.page)
    /\ Unasked

(* The files are open under the names of job.at; one that is not the       *)
(* captured one, or is shorter, ends the export, and so does a block that  *)
(* is not what it was.                                                     *)
ReadPage ==
    /\ job.pc = "identity"
    /\ IF SameFiles(job.e, job.at) /\ PageStands(job.e, job.at, PageEnd(job.e, Line.limit))
       THEN job' = [job EXCEPT !.pc = "again"] /\ UNCHANGED <<exports, out>>
       ELSE Refuse(Without(exports, job.export))
    /\ Unasked

(* The names are opened again after the read, for the last page its blocks *)
(* are all checked, and then the names once more.                          *)
OpenAgain ==
    /\ job.pc = "again"
    /\ LET complete == PageOf(job.e, job.export, Line.limit).page.complete
       IN  IF ~ SameFiles(job.e, named) \/ (complete /\ ~ AllBlocksStand(job.e, named))
           THEN Refuse(Without(exports, job.export))
           ELSE /\ job' = [job EXCEPT !.pc = "final"]
                /\ UNCHANGED <<exports, out>>
    /\ Unasked

(* boundedAuditResult: an answer may be too long to give, and Discard ends *)
(* the export its cursors are of; one that has none keeps its slot.        *)
TooLong(next) ==
    /\ exports' = IF Line.cursor = None /\ next.page.complete
                  THEN With(exports, job.export, next.export)
                  ELSE Without(exports, job.export)
    /\ Reply("error", None)

FinishPage ==
    /\ job.pc = "final"
    /\ LET next == PageOf(job.e, job.export, Line.limit)
       IN  IF next.page.complete /\ ~ SameFiles(job.e, named)
           THEN Refuse(Without(exports, job.export))
           ELSE \/ /\ exports' = With(exports, job.export, next.export)
                   /\ Reply("page", next.page)
                \/ TooLong(next)
    /\ Unasked

(* Five minutes: any export may be old, and the ones before it are.        *)
Age ==
    /\ \E id \in DOMAIN exports :
         exports' = [k \in DOMAIN exports |->
            [exports[k] EXCEPT !.old = @ \/ k <= id]]
    /\ exports' # exports
    /\ UNCHANGED <<files, job, client, out, changes>>

-----------------------------------------------------------------------------
(* The client.                                                             *)

(* What JSON-RPC owes a line: exactly one answer to a request with an id,  *)
(* none to a notification, and one under null to what is no request.       *)
Owed(line) ==
    IF line.form \in {"garbled", "scalar"} \/ (line.form = "envelope" /\ line.id = None)
    THEN << Null >>
    ELSE IF line.id = None THEN << >> ELSE << line.id >>

Send(line) ==
    /\ sent < MaxSent /\ sent' = sent + 1
    /\ Len(owed) + Len(in) < MaxAhead
    /\ in' = Append(in, line)
    /\ owed' = owed \o Owed(line)

Blank == [form |-> "request", id |-> None, method |-> "ping", cursor |-> None, limit |-> 1]

(* A line of any form and method, with an id or without.                   *)
SendAny ==
    /\ \E form \in Forms, method \in {"ping", "unknown"}, id \in {None, sent + 1} :
         /\ form # "request" => method = "ping"
         /\ Send([Blank EXCEPT !.form = form, !.method = method, !.id = id])
    /\ UNCHANGED <<files, exports, job, out, asking, got, changes>>

(* A page of the export is asked for, perhaps as a notification; or asked  *)
(* for again, the answer given up.                                         *)
AskPage ==
    /\ ~ got.complete
    /\ \E limit \in Limits, id \in {None, sent + 1}, raw \in BOOLEAN :
         /\ got.cursor # None => raw = got.raw
         /\ Send([Blank EXCEPT !.method = IF raw THEN "list" ELSE "history",
                               !.id = id, !.cursor = got.cursor, !.limit = limit])
         /\ asking' = IF id = None THEN asking ELSE id
    /\ UNCHANGED <<files, exports, job, out, got, changes>>

(* The answer to the latest asking is added to what was put together; a    *)
(* refusal begins again; any other answer is read and dropped.             *)
Receive ==
    /\ out # << >> /\ out' = Tail(out)
    /\ owed' = Tail(owed)
    /\ LET answer == Head(out)
       IN  IF answer.id # asking \/ answer.id = Null THEN UNCHANGED <<asking, got>>
           ELSE /\ asking' = None
                /\ IF answer.kind # "page" THEN got' = Started
                   ELSE LET page == answer.page
                        IN  got' = [got EXCEPT
                                !.cursor = page.next, !.raw = page.file # 0,
                                !.complete = page.complete, !.whole = page.whole,
                                !.data[page.file] = @ \o page.data,
                                !.records[page.file] = @ \o page.records]
    /\ UNCHANGED <<files, exports, job, in, sent, changes>>

-----------------------------------------------------------------------------
(* The files.                                                              *)

Change ==
    /\ changes < MaxChanges /\ changes' = changes + 1
    /\ UNCHANGED <<exports, job, client, out>>

AppendUnit ==
    /\ Change
    /\ \E i \in Index, u \in Units :
         /\ named[i] # None /\ Len(Text(named[i])) < MaxUnits
         /\ store' = [store EXCEPT ![named[i]] = Append(@, u)]
    /\ UNCHANGED <<named, authority>>

(* A file moved aside or removed, or another put under its name.           *)
Rename ==
    /\ Change
    /\ \E i \in Index, n \in Inode \cup {None} :
         /\ n # named[i] /\ \A j \in Index : n = None \/ named[j] # n
         /\ named' = [named EXCEPT ![i] = n]
    /\ UNCHANGED <<store, authority>>

(* A file cut or written over in place.                                    *)
Rewrite ==
    /\ Change
    /\ \E i \in Index :
         /\ named[i] # None
         /\ \/ \E k \in 0 .. Len(Text(named[i])) - 1 :
                 store' = [store EXCEPT ![named[i]] = SubSeq(@, 1, k)]
            \/ \E k \in DOMAIN Text(named[i]), u \in Units :
                 store' = [store EXCEPT ![named[i]][k] = u]
    /\ UNCHANGED <<named, authority>>

Reconfigure ==
    /\ Change
    /\ authority' \in Authority \ {authority}
    /\ UNCHANGED <<named, store>>

Server == \/ Read \/ BeginContinued \/ BeginExport \/ BeginHistory \/ RereadHistory
          \/ ReadPage \/ OpenAgain \/ FinishPage

Init ==
    /\ named = FirstNames /\ store \in FirstStores /\ authority = CHOOSE a \in Authority : TRUE
    /\ exports = Nothing /\ job = Idle
    /\ in = << >> /\ out = << >> /\ sent = 0 /\ owed = << >>
    /\ asking = None /\ got = Started /\ changes = 0

Next == \/ Server \/ Age \/ SendAny \/ AskPage \/ Receive
        \/ AppendUnit \/ Rename \/ Rewrite \/ Reconfigure

Spec == Init /\ [][Next]_vars

-----------------------------------------------------------------------------
(* Properties.                                                             *)

(* JSON-RPC over the pipe: the answers are the ones the client is owed, in *)
(* order, one to every request and none to a notification, however far the *)
(* client writes ahead and whatever a tool does.                           *)
AnswersInOrder ==
    LET waiting == IF job = Idle THEN << >> ELSE Owed(Line)
        unread == FlattenSeq([k \in DOMAIN in |-> Owed(in[k])])
    IN  owed = [k \in DOMAIN out |-> out[k].id] \o waiting \o unread

(* An export that a client put together from its pages, asking again for   *)
(* the ones it gave up on, is what was captured when it began, every unit  *)
(* once, and its decoded lines are the captured lines (Pager.Page).        *)
Lines(text) ==
    LET last == EndBefore(text, Len(text) + 1)
    IN  Finished(text, 0)
        \o (IF last = Len(text) THEN << >>
            ELSE << FinishLine(last, SubSeq(text, last + 1, Len(text)), TRUE) >>)

ExportExact ==
    got.complete =>
        IF got.raw
        THEN \A i \in Index : /\ got.data[i] = got.whole[i]
                               /\ got.records[i] = Lines(got.whole[i])
        ELSE got.data[0] = got.whole

(* An export of files that do not begin with what was captured as its last *)
(* page is begun, nor while that is answered, is never completed: a file   *)
(* replaced, cut or written over after its pages were given ends it        *)
(* (checkAllBlocks).  One put back as it was meanwhile is not noticed.     *)
RewrittenRefused ==
    job.pc = "final" /\ PageOf(job.e, job.export, Line.limit).page.complete
        => changes # job.rewritten
=============================================================================
