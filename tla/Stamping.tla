------------------------------ MODULE Stamping ------------------------------
(***************************************************************************)
(* `audit stamp`: the checkpoint of the trail's last record is stamped by  *)
(* a time-stamping authority and the token kept in a stamps file, by       *)
(* several commands at once, while the trail is appended to, moved aside,  *)
(* cut and written again, and the stamps file moved aside and cut.  The    *)
(* stamps file is held across the request and locked only for the append;  *)
(* the trail is never locked.                                              *)
(*                                                                         *)
(* The authority is external: it answers with the time of its clock, or    *)
(* not at all.  A stamps file is a sequence of lines, each a stamp or a    *)
(* line that is not one, and whether the last is without its newline.      *)
(***************************************************************************)
EXTENDS AlteredTrail, TLC

CONSTANTS
    Stamper,        \* the commands
    StampsFile,     \* the stamps files there can be, one after another
    StampRoom,      \* the most stamps one stamps file holds
    MaxClock        \* bound: the authority's answers

VARIABLES
    trailId,    \* which file the trail's path names
    clock,      \* the authority's clock
    stood,      \* what the trail has been, and by when
    named,      \* the stamps file the path names, or None
    stamps,     \* the lines of every stamps file
    torn,       \* whether a stamps file's last line lacks its newline
    lock,       \* who holds a stamps file's lock
    stamper     \* each command's progress

kept == <<named, stamps, torn, lock>>
vars == <<file, trailId, clock, stood, kept, stamper>>

Waiting == [pc |-> "start", checkpoint |-> None, id |-> 0, size |-> 0,
            held |-> None, floor |-> 0, by |-> 0, raced |-> FALSE]

Junk == [checkpoint |-> None, by |-> 0, trusted |-> FALSE, fresh |-> TRUE]

Init ==
    /\ FileInit
    /\ trailId = 0 /\ clock = 1
    /\ stood = {[b |-> Empty, at |-> 1]}
    /\ named = None
    /\ stamps = [f \in StampsFile |-> << >>]
    /\ torn = [f \in StampsFile |-> FALSE]
    /\ lock = [f \in StampsFile |-> None]
    /\ stamper = [s \in Stamper |-> Waiting]

Moves(s, state) == stamper' = [stamper EXCEPT ![s] = state]

-----------------------------------------------------------------------------
(* The trail, and the stamps file in an operator's hands.                  *)

Stands == stood' = stood \cup {[b |-> trail', at |-> clock]}

(* Commands between the check of the trail and the append.                 *)
Overtakes ==
    stamper' = [s \in Stamper |->
        [stamper[s] EXCEPT !.raced = @ \/ stamper[s].pc = "append"]]

AppendRecord == Grow /\ Stands /\ UNCHANGED <<trailId, clock, kept, stamper>>

AlterTrail == Alter /\ Stands /\ Overtakes /\ UNCHANGED <<trailId, clock, kept>>

MoveTrail ==
    /\ changes < MaxChanges /\ changes' = changes + 1
    /\ trailId' = trailId + 1 /\ trail' = Empty
    /\ Stands /\ Overtakes
    /\ UNCHANGED <<names, clock, kept>>

MoveStamps ==
    /\ changes < MaxChanges /\ changes' = changes + 1
    /\ named # None /\ named' = None
    /\ UNCHANGED <<trail, names, trailId, clock, stood, stamps, torn, lock, stamper>>

CutStamps ==
    /\ changes < MaxChanges /\ changes' = changes + 1
    /\ named # None
    /\ \E k \in 0 .. Len(stamps[named]) - 1 :
         stamps' = [stamps EXCEPT ![named] = SubSeq(@, 1, k)]
    /\ torn' = [torn EXCEPT ![named] = FALSE]
    /\ UNCHANGED <<trail, names, trailId, clock, stood, named, lock, stamper>>

-----------------------------------------------------------------------------
(* The command.                                                            *)

Lines(f) == {stamps[f][k] : k \in {n \in DOMAIN stamps[f] : ~ (torn[f] /\ n = Len(stamps[f]))}}

(* holdsStamp: a complete line for the checkpoint.                         *)
HoldsStamp(f, c) == \E line \in Lines(f) : line.checkpoint = c

(* The trail is opened and verified: one with a finding, or with no        *)
(* chained record, is not stamped.                                         *)
OpenTrail(s) ==
    /\ stamper[s].pc = "start"
    /\ CleanHead(trail) # None
    /\ Moves(s, [Waiting EXCEPT !.pc = "look", !.checkpoint = CleanHead(trail),
                                !.id = trailId, !.size = LineCount(trail)])
    /\ UNCHANGED <<file, trailId, clock, stood, kept>>

(* Writer.Stamped: a stamped checkpoint is not asked for again.            *)
Look(s) ==
    /\ stamper[s].pc = "look"
    /\ Moves(s, IF named # None /\ HoldsStamp(named, stamper[s].checkpoint)
                THEN Waiting ELSE [stamper[s] EXCEPT !.pc = "hold"])
    /\ UNCHANGED <<file, trailId, clock, stood, kept>>

(* OpenStamps creates the file if there is none; CheckStampRoom refuses    *)
(* one with no room, and its size is the floor.                            *)
Hold(s) ==
    /\ stamper[s].pc = "hold"
    /\ \E f \in StampsFile :
         /\ IF named # None THEN f = named
            ELSE stamps[f] = << >> /\ \A t \in Stamper : stamper[t].held # f
         /\ named' = f
         /\ Moves(s, IF Len(stamps[f]) >= StampRoom THEN Waiting
                     ELSE [stamper[s] EXCEPT !.pc = "ask", !.held = f,
                                             !.floor = Len(stamps[f])])
    /\ UNCHANGED <<file, trailId, clock, stood, stamps, torn, lock>>

(* Ask: the authority's answer, or a failure that writes nothing.          *)
Ask(s) ==
    /\ stamper[s].pc = "ask"
    /\ \/ /\ clock < MaxClock /\ clock' = clock + 1
          /\ Moves(s, [stamper[s] EXCEPT !.pc = "lock", !.by = clock])
       \/ clock' = clock /\ Moves(s, Waiting)
    /\ UNCHANGED <<file, trailId, stood, kept>>

Lock(s) ==
    /\ stamper[s].pc = "lock"
    /\ lock[stamper[s].held] = None
    /\ lock' = [lock EXCEPT ![stamper[s].held] = s]
    /\ Moves(s, [stamper[s] EXCEPT !.pc = "check"])
    /\ UNCHANGED <<file, trailId, clock, stood, named, stamps, torn>>

(* Mutant: the record is not read again.                                   *)
StillTheStampedTrailBySize(s) ==
    trailId = stamper[s].id /\ LineCount(trail) >= stamper[s].size

(* stillTheStampedTrail: the same file, no shorter, and the record at the  *)
(* checkpoint's sequence read again from it.                               *)
StillTheStampedTrail(s) ==
    /\ trailId = stamper[s].id /\ LineCount(trail) >= stamper[s].size
    /\ HoldCheckpoint(UpTo(trail, stamper[s].size), stamper[s].checkpoint) = "none"

Unlock(s) == lock' = [lock EXCEPT ![stamper[s].held] = None]

(* Under the lock: the trail, and that the name still names the held file. *)
Check(s) ==
    /\ stamper[s].pc = "check"
    /\ IF StillTheStampedTrail(s) /\ named = stamper[s].held
       THEN Moves(s, [stamper[s] EXCEPT !.pc = "append"]) /\ UNCHANGED lock
       ELSE Moves(s, Waiting) /\ Unlock(s)
    /\ UNCHANGED <<file, trailId, clock, stood, named, stamps, torn>>

(* Mutant: whether the file holds the stamp is not asked again.            *)
RefusesAppendUnread(s) ==
    Len(stamps[stamper[s].held]) \notin stamper[s].floor .. StampRoom - 1

(* compose: a file shorter than the floor or with no room, and one that    *)
(* holds the stamp, which another command may have kept meanwhile.         *)
RefusesAppend(s) ==
    \/ Len(stamps[stamper[s].held]) \notin stamper[s].floor .. StampRoom - 1
    \/ HoldsStamp(stamper[s].held, stamper[s].checkpoint)

(* recordStamp: after the end of a line that lacks its newline.  The write *)
(* may be cut short.                                                       *)
RecordStamp(s) ==
    /\ stamper[s].pc = "append"
    /\ LET f == stamper[s].held
           c == stamper[s].checkpoint
           line == [checkpoint |-> c, by |-> stamper[s].by, trusted |-> TRUE,
                    fresh |-> stamper[s].raced \/ HoldCheckpoint(trail, c) = "none"]
           before == IF torn[f] THEN [stamps[f] EXCEPT ![Len(stamps[f])] = Junk]
                     ELSE stamps[f]
       IN  IF RefusesAppend(s)
           THEN UNCHANGED <<stamps, torn>>
           ELSE /\ stamps' = [stamps EXCEPT ![f] = Append(before, line)]
                /\ \E cut \in BOOLEAN : torn' = [torn EXCEPT ![f] = cut]
    /\ Unlock(s)
    /\ Moves(s, Waiting)
    /\ UNCHANGED <<file, trailId, clock, stood, named>>

Next ==
    \/ AppendRecord \/ AlterTrail \/ MoveTrail \/ MoveStamps \/ CutStamps
    \/ \E s \in Stamper : \/ OpenTrail(s) \/ Look(s) \/ Hold(s) \/ Ask(s)
                          \/ Lock(s) \/ Check(s) \/ RecordStamp(s)

Spec == Init /\ [][Next]_vars

-----------------------------------------------------------------------------
(* Properties.                                                             *)

(* The time a verification says a record is covered by is true: whatever   *)
(* was cut, altered, moved or stamped since, the lines up to it were the   *)
(* trail's by the time the authority states; and a token is kept only for  *)
(* a record the trail holds when it is kept, though the trail was moved,   *)
(* cut, or cut and written again while the authority was asked: all but in *)
(* the instant after the check.                                            *)
StampsTrue ==
  /\ \A f \in StampsFile : \A line \in Lines(f) : line.fresh
  /\ \A f \in StampsFile : \A n \in 1 .. StampedThrough(trail, Lines(f)) :
        \E e \in stood : /\ e.at <= CoveredBy(trail, Lines(f), n)
                         /\ LineCount(e.b) >= n /\ UpTo(e.b, n) = UpTo(trail, n)

(* "It is idempotent by the checkpoint's digest": commands at once, one    *)
(* that was cut short and one that retries keep one stamp of a checkpoint. *)
OneStampEach ==
    \A f \in StampsFile : \A j, k \in DOMAIN stamps[f] :
        /\ j # k /\ stamps[f][j] \in Lines(f) /\ stamps[f][k] \in Lines(f)
        /\ stamps[f][j].checkpoint # None
        => stamps[f][j].checkpoint # stamps[f][k].checkpoint
=============================================================================
