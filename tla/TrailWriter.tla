---------------------------- MODULE TrailWriter ----------------------------
(***************************************************************************)
(* Processes that append to one project's audit trail and repair it        *)
(* (internal/audit Writer over internal/fssecure Root), step by step:      *)
(* open, lock, read the end, write, sync the file, sync its directory,     *)
(* unlock; with short writes, failed calls, crashes, power loss, and an    *)
(* operator who moves the trail aside while they run.                      *)
(*                                                                         *)
(* Each writer is one call of the runtime: AppendAll of its batch, Repair, *)
(* RepairExpecting, or Rotate (whose sidecar is in module SignedTrail).  A *)
(* writer composes its bytes once, so its name and the index in its batch  *)
(* name a record.                                                          *)
(*                                                                         *)
(* What is taken from the operating system: an O_APPEND write lands at the *)
(* end of the file in one piece unless it is cut short; the advisory lock  *)
(* is exclusive and is released when its holder dies; a sync makes the     *)
(* whole file, or every entry of the directory, durable; a power loss      *)
(* keeps what is durable and any beginning of what was written after it.   *)
(***************************************************************************)
EXTENDS TrailChain

CONSTANTS
    Writer,         \* one per call
    Old,            \* whoever wrote the lines found at the start
    Files,          \* inodes
    NoFile, NoWriter,
    Op,             \* "append", "repair", "bound" (RepairExpecting), "rotate"
    Size,           \* records in an append's batch
    Chain,          \* whether the writer chains (audit.chain)
    Big,            \* whether its records are longer than maxLineBytes
    Lockable,       \* whether each writer is offered a lock on the trail
    OpenAttempts,   \* appendOpenAttempts
    Legacy,         \* unchained lines an existing trail may hold at first
    DirMade,        \* whether the audit directory is there, durably, at first
    MaxMoves,       \* how often the trail is moved aside
    MaxLosses       \* how often the power fails

ASSUME WriterAssumption ==
    /\ Author = Writer \cup {Old}
    /\ Old \notin Writer /\ NoWriter \notin Writer /\ NoFile \notin Files
    /\ Op \in [Writer -> {"append", "repair", "bound", "rotate"}]
    /\ Size \in [Writer -> Nat \ {0}]
    /\ Chain \in [Writer -> BOOLEAN]
    /\ Big \in [Writer -> BOOLEAN]
    /\ Lockable \in [Writer -> BOOLEAN] /\ DirMade \in BOOLEAN
    /\ OpenAttempts \in Nat \ {0}
    /\ Legacy \in Nat /\ MaxMoves \in Nat /\ MaxLosses \in Nat

VARIABLES
    dir,        \* the audit directory: made, the file named as the trail,
                \* and the files moved aside
    durDir,     \* what of it a power loss cannot take back
    file,       \* each inode's contents
    durable,    \* the part of them a power loss cannot take back
    holder,     \* who holds each inode's exclusive lock
    pc, at,     \* each writer's next step and the inode it has open
    tries,      \* opens given up because the check under the lock failed
    data,       \* the bytes compose returned
    err,        \* why the call fails, "none" while it does not
    shown,      \* the damage a bound repair was confirmed on
    moves, losses

vars == <<dir, durDir, file, durable, holder, pc, at, tries, data, err, shown,
          moves, losses>>

disk == <<dir, durDir, file, durable>>
call == <<at, tries, data, err, shown>>
env == <<moves, losses>>

-----------------------------------------------------------------------------

Refusals == {"incomplete-last-line", "oversized-line", "record-too-large",
             "repair-needs-lock", "nothing-to-repair", "tail-changed",
             "repair-discontinuity", "rotation-no-trail"}

Errors == {"none", "io", "no-trail", "repair-unchained", "name-changed",
           "key-not-in-force"}
              \cup Refusals

(* The steps at which a writer has the file open.                          *)
OpenSteps == {"check", "lock", "recheck", "compose", "write", "sync",
              "entry", "then", "unlock"}

Steps == {"start", "shown", "open", "end", "crashed"} \cup OpenSteps

Dirs == [made : BOOLEAN, trail : Files \cup {NoFile}, aside : SUBSET Files]

NoDir == [made |-> FALSE, trail |-> NoFile, aside |-> {}]

(* Each variable holds a value of its kind.                                *)
TypeOK ==
    /\ dir \in Dirs /\ durDir \in Dirs
    /\ file \in [Files -> Bytes] /\ durable \in [Files -> Bytes]
    /\ holder \in [Files -> Writer \cup {NoWriter}]
    /\ pc \in [Writer -> Steps]
    /\ at \in [Writer -> Files \cup {NoFile}]
    /\ \A w \in Writer : pc[w] \in OpenSteps => at[w] \in Files
    /\ tries \in [Writer -> 0 .. OpenAttempts]
    /\ \A w \in Writer : pc[w] # "end" => tries[w] < OpenAttempts
    /\ data \in [Writer -> Bytes]
    /\ err \in [Writer -> Errors]
    /\ shown \in [Writer -> Digests]
    /\ moves \in 0 .. MaxMoves /\ losses \in 0 .. MaxLosses

(* A trail written before chaining.                                        *)
LegacyTrail ==
    EncodeLines([i \in 1 .. Legacy |-> Unchained(Old, i, 1, FALSE)])

Init ==
    /\ IF DirMade
       THEN \E f \in Files \cup {NoFile} :
                dir = [made |-> TRUE, trail |-> f, aside |-> {}]
       ELSE dir = NoDir
    /\ durDir = dir
    /\ file = [f \in Files |-> IF f = dir.trail THEN LegacyTrail ELSE Empty]
    /\ durable = file
    /\ holder = [f \in Files |-> NoWriter]
    /\ pc = [w \in Writer |-> "start"]
    /\ at = [w \in Writer |-> NoFile]
    /\ tries = [w \in Writer |-> 0]
    /\ data = [w \in Writer |-> Empty]
    /\ err = [w \in Writer |-> "none"]
    /\ shown = [w \in Writer |-> Empty]
    /\ moves = 0 /\ losses = 0

-----------------------------------------------------------------------------

Running(w) == pc[w] \notin {"start", "shown", "end", "crashed"}

Goto(w, step) == pc' = [pc EXCEPT ![w] = step]

Locked(w) == at[w] \in Files /\ holder[at[w]] = w

(* Closing the file releases the lock, whoever closes it.                  *)
Released(w) == [f \in Files |-> IF holder[f] = w THEN NoWriter ELSE holder[f]]

(* What a call holds in memory goes when it returns or its process dies.   *)
Forget(gone) ==
    /\ at' = [w \in Writer |-> IF w \in gone THEN NoFile ELSE at[w]]
    /\ tries' = [w \in Writer |-> IF w \in gone THEN 0 ELSE tries[w]]
    /\ data' = [w \in Writer |-> IF w \in gone THEN Empty ELSE data[w]]
    /\ UNCHANGED shown

(* Mutants: the lock is given back whether it is held or not; it is not    *)
(* given back.                                                             *)
FailUnlocking(w, why) ==
    /\ err' = [err EXCEPT ![w] = why]
    /\ Goto(w, "unlock")

FailKeepingLock(w, why) ==
    /\ err' = [err EXCEPT ![w] = why]
    /\ Goto(w, "end")

(* The call gives up.  A file held under the lock is unlocked next.        *)
Fail(w, why) ==
    /\ err' = [err EXCEPT ![w] = why]
    /\ Goto(w, IF Locked(w) THEN "unlock" ELSE "end")

(* AppendAll up to its open: the batch is encoded and the audit directory  *)
(* made.  The parent of the directory is not synced.                       *)
BeginAppend(w) ==
    /\ pc[w] = "start" /\ Op[w] = "append"
    /\ dir' = [dir EXCEPT !.made = TRUE]
    /\ Goto(w, "open")
    /\ UNCHANGED <<durDir, file, durable, holder, call, env>>

(* Someone reads the trail between writes and is shown the bytes after its *)
(* last newline, which the repair is then bound to.                        *)
ShowDamage(w) ==
    /\ pc[w] = "start" /\ Op[w] = "bound"
    /\ dir.trail # NoFile
    /\ holder[dir.trail] = NoWriter
    /\ TailOf(file[dir.trail]) # << >>
    /\ shown' = [shown EXCEPT ![w] = LineDigest(TailOf(file[dir.trail]))]
    /\ Goto(w, "shown")
    /\ UNCHANGED <<disk, holder, at, tries, data, err, env>>

(* repair, and Rotate, up to the locked append: a writer that does not     *)
(* chain refuses, and so does one that finds no trail.                     *)
BeginRepair(w) ==
    /\ \/ pc[w] = "start" /\ Op[w] \in {"repair", "rotate"}
       \/ pc[w] = "shown" /\ Op[w] = "bound"
    /\ IF ~ Chain[w] THEN Fail(w, "repair-unchained")
       ELSE IF dir.trail = NoFile
       THEN Fail(w, IF Op[w] = "bound" THEN "tail-changed" ELSE "no-trail")
       ELSE Goto(w, "open") /\ UNCHANGED err
    /\ UNCHANGED <<disk, holder, at, tries, data, shown, env>>

(* Inodes nothing names and no writer has open.                            *)
Unused ==
    Files \ ({dir.trail} \cup dir.aside
                 \cup {at[w] : w \in {v \in Writer : Running(v)}})

(* openForAppending: an existing file is opened, an absent one is created  *)
(* exclusively, except by a repair, which refuses.  A rotation creates     *)
(* one too, if the trail it found was moved aside since.                   *)
OpenExisting(w) ==
    /\ pc[w] = "open" /\ dir.trail # NoFile
    /\ at' = [at EXCEPT ![w] = dir.trail]
    /\ Goto(w, "check")
    /\ UNCHANGED <<disk, holder, tries, data, err, shown, env>>

OpenCreating(w) ==
    /\ pc[w] = "open" /\ dir.trail = NoFile /\ Op[w] \in {"append", "rotate"}
    /\ \E f \in Unused :
        /\ dir' = [dir EXCEPT !.trail = f]
        /\ file' = [file EXCEPT ![f] = Empty]
        /\ durable' = [durable EXCEPT ![f] = Empty]
        /\ at' = [at EXCEPT ![w] = f]
    /\ Goto(w, "check")
    /\ UNCHANGED <<durDir, holder, tries, data, err, shown, env>>

OpenAbsent(w) ==
    /\ pc[w] = "open" /\ dir.trail = NoFile
    /\ Op[w] \in {"repair", "bound"}
    /\ Fail(w, IF Op[w] = "bound" THEN "tail-changed" ELSE "no-trail")
    /\ UNCHANGED <<disk, holder, at, tries, data, shown, env>>

(* sameRegularFile after the open: a name that moved on already is an      *)
(* error, not a retry.  A writer that does not chain has its bytes ready   *)
(* and takes no lock (Root.Append).                                        *)
Check(w) ==
    /\ pc[w] = "check"
    /\ IF dir.trail # at[w]
       THEN Fail(w, "io") /\ UNCHANGED data
       ELSE /\ Goto(w, IF Chain[w] THEN "lock" ELSE "write")
            /\ data' = IF Chain[w] THEN data
                       ELSE [data EXCEPT ![w] =
                                EncodeLines(Batch(w, Size[w], Big[w]))]
            /\ UNCHANGED err
    /\ UNCHANGED <<disk, holder, at, tries, shown, env>>

(* Mutant: the lock is shared.                                             *)
LockShared(w) ==
    /\ pc[w] = "lock" /\ Lockable[w]
    /\ holder' = [holder EXCEPT ![at[w]] = w]
    /\ Goto(w, "recheck")
    /\ UNCHANGED <<disk, call, env>>

(* lockExclusive waits for the holder.                                     *)
Lock(w) ==
    /\ pc[w] = "lock" /\ Lockable[w]
    /\ holder[at[w]] = NoWriter
    /\ holder' = [holder EXCEPT ![at[w]] = w]
    /\ Goto(w, "recheck")
    /\ UNCHANGED <<disk, call, env>>

(* errNoLock: the append goes ahead without a lock.                        *)
NoLock(w) ==
    /\ pc[w] = "lock" /\ ~ Lockable[w]
    /\ Goto(w, "compose")
    /\ UNCHANGED <<disk, holder, call, env>>

(* The name is checked again under the lock.  A changed one is opened      *)
(* afresh, a bounded number of times, and so is one the check fails on.    *)
Recheck(w) ==
    /\ pc[w] = "recheck" /\ dir.trail = at[w]
    /\ Goto(w, "compose")
    /\ UNCHANGED <<disk, holder, call, env>>

Reopen(w) ==
    /\ pc[w] = "recheck"
    /\ holder' = Released(w)
    /\ tries' = [tries EXCEPT ![w] = @ + 1]
    /\ IF tries[w] + 1 = OpenAttempts
       THEN /\ err' = [err EXCEPT ![w] = "name-changed"]
            /\ Goto(w, "end")
       ELSE Goto(w, "open") /\ UNCHANGED err
    /\ at' = [at EXCEPT ![w] = NoFile]
    /\ UNCHANGED <<disk, data, shown, env>>

(* What compose answers to the file as it stands.                          *)
Composed(w, b) ==
    IF Op[w] = "append"
    THEN ChainedLines(b, Batch(w, Size[w], Big[w]), Locked(w), w)
    ELSE IF Op[w] = "rotate" THEN RotateLines(b, Locked(w))
    ELSE RepairLines(b, w, Locked(w), Op[w] = "bound", shown[w])

Compose(w) ==
    /\ pc[w] = "compose"
    /\ LET answer == Composed(w, file[at[w]])
       IN  IF answer.err # "none"
           THEN Fail(w, answer.err) /\ UNCHANGED data
           ELSE /\ data' = [data EXCEPT ![w] = answer.data]
                /\ Goto(w, "write") /\ UNCHANGED err
    /\ UNCHANGED <<disk, holder, at, tries, shown, env>>

(* The write lands whole, or an error or the process's end cuts it short.  *)
Write(w) ==
    /\ pc[w] = "write"
    /\ file' = [file EXCEPT ![at[w]] = Concat(@, data[w])]
    /\ Goto(w, "sync")
    /\ UNCHANGED <<dir, durDir, durable, holder, call, env>>

WriteShort(w) ==
    /\ pc[w] = "write"
    /\ LET whole == Concat(file[at[w]], data[w])
       IN  \E b \in Between(file[at[w]], whole) \ {whole} :
               file' = [file EXCEPT ![at[w]] = b]
    /\ Fail(w, "io")
    /\ UNCHANGED <<dir, durDir, durable, holder, at, tries, data, shown, env>>

(* The file is synced.  Root.Append ends there; a chaining writer's append *)
(* goes on to the directory.                                               *)
Sync(w) ==
    /\ pc[w] = "sync"
    /\ durable' = [durable EXCEPT ![at[w]] = file[at[w]]]
    /\ Goto(w, IF Chain[w] THEN "entry" ELSE "end")
    /\ UNCHANGED <<dir, durDir, file, holder, call, env>>

(* Mutant: the directory is not synced.                                    *)
SyncEntrySkipped(w) ==
    /\ pc[w] = "entry"
    /\ Goto(w, "then")
    /\ UNCHANGED <<disk, holder, call, env>>

(* syncEntry: the entries of the audit directory, and not its own.         *)
SyncEntry(w) ==
    /\ pc[w] = "entry"
    /\ durDir' = [dir EXCEPT !.made = durDir.made]
    /\ Goto(w, "then")
    /\ UNCHANGED <<dir, file, durable, holder, call, env>>

(* The step after the append and before the unlock: signing, which module  *)
(* SignedTrail spells out and which an unsigned writer passes through.     *)
(* Its failure is a rotation's, and never an append's or a repair's.       *)
Then(w) ==
    /\ pc[w] = "then"
    /\ Goto(w, "unlock")
    /\ \/ UNCHANGED err
       \/ /\ Op[w] = "rotate"
          /\ \E why \in {"io", "key-not-in-force"} :
                 err' = [err EXCEPT ![w] = why]
    /\ UNCHANGED <<disk, holder, at, tries, data, shown, env>>

(* The unlock and the close.  A close that fails is the append's failure,  *)
(* though its bytes are there.                                             *)
Unlock(w) ==
    /\ pc[w] = "unlock"
    /\ holder' = Released(w)
    /\ Goto(w, "end")
    /\ \/ UNCHANGED err
       \/ err[w] = "none" /\ err' = [err EXCEPT ![w] = "io"]
    /\ Forget({w})
    /\ UNCHANGED <<disk, env>>

(* Any other call fails: making the directory, opening, a hard link, a     *)
(* lock that cannot be taken now, a read, a chmod, a sync.                 *)
IOError(w) ==
    /\ pc[w] \in {"open", "check", "lock", "compose", "sync", "entry"}
    /\ Fail(w, "io")
    /\ UNCHANGED <<disk, holder, at, tries, data, shown, env>>

(* The process dies.  Its lock goes with it.                               *)
Crash(w) ==
    /\ Running(w)
    /\ Goto(w, "crashed")
    /\ holder' = Released(w)
    /\ Forget({w})
    /\ UNCHANGED <<disk, err, env>>

-----------------------------------------------------------------------------

(* The operator moves the trail aside, keeping it in the directory.        *)
MoveAside ==
    /\ dir.trail # NoFile /\ moves < MaxMoves
    /\ moves' = moves + 1
    /\ dir' = [dir EXCEPT !.trail = NoFile, !.aside = @ \cup {dir.trail}]
    /\ UNCHANGED <<durDir, file, durable, holder, pc, call, losses>>

(* Everything running dies, and what was not durable may be lost: an end   *)
(* of each file, the directory's latest entries, the directory itself.     *)
DirsAfterLoss == {dir, IF durDir.made THEN durDir ELSE NoDir}

PowerLoss ==
    /\ losses < MaxLosses
    /\ losses' = losses + 1
    /\ pc' = [w \in Writer |-> IF Running(w) THEN "crashed" ELSE pc[w]]
    /\ holder' = [f \in Files |-> NoWriter]
    /\ LET dirty == {f \in Files : file[f] # durable[f]}
           left == UNION {Between(durable[f], file[f]) : f \in dirty}
       IN  \E found \in [dirty -> left] :
               /\ \A f \in dirty : found[f] \in Between(durable[f], file[f])
               /\ file' = [f \in Files |->
                               IF f \in dirty THEN found[f] ELSE file[f]]
    /\ durable' = file'
    /\ \E d \in DirsAfterLoss : dir' = d /\ durDir' = d
    /\ Forget({w \in Writer : Running(w)})
    /\ UNCHANGED <<err, moves>>

-----------------------------------------------------------------------------

(* What a writer does when the calls it makes do what is asked of them,    *)
(* and all it does.                                                        *)
Progress(w) ==
    \/ BeginAppend(w) \/ BeginRepair(w)
    \/ OpenExisting(w) \/ OpenCreating(w) \/ OpenAbsent(w) \/ Check(w)
    \/ Lock(w) \/ NoLock(w) \/ Recheck(w) \/ Reopen(w)
    \/ Compose(w) \/ Write(w) \/ Sync(w) \/ SyncEntry(w) \/ Unlock(w)

Step(w) == Progress(w) \/ WriteShort(w) \/ IOError(w)

Next ==
    \/ \E w \in Writer : Step(w) \/ Then(w) \/ ShowDamage(w) \/ Crash(w)
    \/ MoveAside
    \/ PowerLoss

Spec == Init /\ [][Next]_vars

(* A call that has started goes on while its process is scheduled.  No     *)
(* failure need ever happen, nor the operator's steps, crashes and power   *)
(* losses: a wait that only an error would end is not excused.             *)
Fairness == \A w \in Writer : WF_vars(Progress(w) \/ Then(w))

FairSpec == Spec /\ Fairness

-----------------------------------------------------------------------------
(* Properties.                                                             *)

(* Every trail the chaining writers left, in place or moved aside, passes  *)
(* Verify: whatever was torn, crashed, repaired, lost to a power failure   *)
(* or moved aside between and during their calls, no line of it has a      *)
(* finding.  Only its end may be incomplete.                               *)
TrailVerifies == \A f \in Files : Verifies(file[f])

(* Why: a chaining writer past its lock holds the lock of the file it has  *)
(* open, so what it composed from the end of that file is still what it    *)
(* would compose when it writes, and a write that is composed from the end *)
(* of a linked file leaves every beginning of the result linked.  (Of a    *)
(* project whose writers all chain, on a file system with locks.)          *)
LockSteps == {"recheck", "compose", "write", "sync", "entry", "then", "unlock"}

LockHeld == \A w \in Writer : pc[w] \in LockSteps => holder[at[w]] = w

NoStaleCompose ==
    \A w \in Writer : pc[w] = "write" =>
        Composed(w, file[at[w]]) = Give(data[w])

ChainInvariant ==
    /\ \A f \in Files : WellLinked(file[f])
    /\ LockHeld
    /\ NoStaleCompose

(* A chained append that was reported written is in a file the audit       *)
(* directory still names, as lines of its own, in the order of its batch   *)
(* with nothing between them: through crashes of other writers, repairs,   *)
(* moves and power loss.                                                   *)
Reachable == {f \in Files : f = dir.trail \/ f \in dir.aside}

Acknowledged(w) == pc[w] = "end" /\ err[w] = "none" /\ Op[w] = "append"

AcknowledgedKept ==
    \A w \in Writer : Acknowledged(w) =>
        \E f \in Reachable : \E n \in 0 .. LineCount(file[f]) - Size[w] :
            \A i \in 1 .. Size[w] :
                /\ WholeRecord(file[f][n + i])
                /\ file[f][n + i][1].w = w /\ file[f][n + i][1].i = i

(* The rule a reader of a graph run applies: where a composite is a line   *)
(* of the trail, every node record of its run is there before it.          *)
RunWhole ==
    \A f \in Files : \A n \in 1 .. LineCount(file[f]) :
        LET p == file[f][n][1] IN
        WholeRecord(file[f][n]) /\ p.kind = "graph-composite" =>
            \A i \in 1 .. p.i - 1 :
                LET l == file[f][n - p.i + i] IN
                n - p.i + i >= 1 /\ WholeRecord(l) /\ l[1].w = p.w /\ l[1].i = i

(* A repair that was confirmed on some bytes ends exactly those bytes: the *)
(* line before its discontinuity record is the damage that was shown.      *)
ConfirmedRepair ==
    \A f \in Files : \A n \in 1 .. LineCount(file[f]) :
        LET p == file[f][n][1] IN
        WholeRecord(file[f][n]) /\ p.w \in Writer /\ Op[p.w] = "bound" =>
            n > 1 /\ LineDigest(file[f][n - 1]) = shown[p.w]

(* A damaged end no repair will take is the end of a repair that was cut   *)
(* short itself, at its last newline: every other one can be repaired.     *)
OnlyTornRepairStuck ==
    \A f \in Files : \A w \in Writer :
        LET b == file[f]
            answer == RepairLines(b, w, TRUE, FALSE, Empty) IN
        TailOf(b) # << >> /\ answer.err # "none" => DiscontinuityKind(TailOf(b))

(* A repair does what was confirmed, and what it leaves can be repaired    *)
(* again unless it was itself cut at its last newline.                     *)
RepairExact == ConfirmedRepair /\ OnlyTornRepairStuck

(* No two records are linked to one predecessor: not where two writers     *)
(* wait for the lock together, not where a writer with chain off appends   *)
(* between another's read and its write, and not where no lock can be had. *)
(* (A discontinuity record shares its predecessor with the line it stands  *)
(* in for.)                                                                *)
NoSharedPredecessor ==
    \A f \in Files : \A m, n \in 1 .. LineCount(file[f]) :
        LET l == file[f][m]  k == file[f][n] IN
        /\ m # n
        /\ ChainedLine(l) /\ ~ DiscontinuityKind(l)
        /\ ChainedLine(k) /\ ~ DiscontinuityKind(k)
        => l[1].prev # k[1].prev

(* A verifier can read what a record was linked to: the last of the first  *)
(* m lines of b, or, where that one is not chained, all of them.           *)
VerifierReads(b, m) ==
    /\ HeadAfter(UpTo(b, m)).known
    /\ m > 0 /\ ~ ChainedLine(b[m]) => \A k \in 1 .. m : ~ Oversized(b[k])

(* Whoever wrote between a chaining writer's read and its write, the first *)
(* record of its batch, once it is a line, continues some beginning of its *)
(* own file, in that beginning's trail and by the digest a verifier would  *)
(* compute of it: one that holds no line too long to be read, though a     *)
(* writer with chain off may have left one before or since.                *)
LinksReadable ==
    \A f \in Files : \A n \in 1 .. LineCount(file[f]) :
        LET b == file[f]  p == b[n][1] IN
        ChainedLine(b[n]) /\ p.i = 1 =>
            \E m \in 0 .. n - 1 :
                LET head == HeadAfter(UpTo(b, m)) IN
                /\ VerifierReads(b, m)
                /\ p.prev = head.prev
                /\ head.trail # NoTrail => p.trail = head.trail

(* Every call that starts comes to an end, and none runs from some time on *)
(* for ever: no set of writers waits for one another, whoever crashes and  *)
(* whatever the operator moves, and none opens the trail again for ever.   *)
EveryCallEnds ==
    \A w \in Writer : []<> ~ Running(w)
=============================================================================
