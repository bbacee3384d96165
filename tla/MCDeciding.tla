---------------------------- MODULE MCDeciding -----------------------------
(* A small instance of Deciding for TLC: two packs and a graph over them.  *)
EXTENDS Deciding

CONSTANTS r1, r2, c1, c2

MCProcs == {r1, r2}
MCContents == {c1, c2}
MCPaths == {"a", "b", "g"}
MCSorted(S) == SelectSeq(<<"p", "q", "gr">>, LAMBDA n : n \in S)

(* The graph's two revisions: both packs, and the first of them twice.     *)
MCNodes == (c1 :> <<"p", "q">>) @@ (c2 :> <<"p", "p">>)

(* A project that requires reviewed law, one re-pointed (both ids on one   *)
(* path, the graph no longer declared), and one that keeps no trail.       *)
Strict ==
    [path |-> ("p" :> "a") @@ ("q" :> "b") @@ ("gr" :> "g"),
     required |-> TRUE, audited |-> TRUE]
Loose ==
    [path |-> ("p" :> "b") @@ ("q" :> "b"), required |-> FALSE, audited |-> TRUE]

Plain == [Strict EXCEPT !.required = FALSE, !.audited = FALSE]

MCConfigs == {Strict, Loose, Plain}

First == [x \in MCPaths |-> c1]
MCInitDocs == {First}

Locked(doc) == [doc |-> doc, part |-> "whole"]
Current == Generate(Strict, [n \in Declared(Strict) |-> c1])

(* None, the set as it stands, one whose entry names another path, and one *)
(* of another version.                                                     *)
MCInitLocks ==
    {NoLock, Locked(Current), Locked([Current EXCEPT !.entry["p"].path = "b"]),
     [doc |-> NoSet, part |-> "foreign"]}

Asked(surface, kind) ==
    [surface |-> surface, kind |-> kind, name |-> "p", path |-> "a", bytes |-> c1,
     rehearsal |-> FALSE, cites |-> FALSE, binding |-> FALSE]

Given(task) == [task EXCEPT !.cites = TRUE, !.binding = task.kind # "graph"]
Rehearsed(task) == [task EXCEPT !.rehearsal = TRUE]

MCTasks ==
    {Asked("cli", "id"), Rehearsed(Asked("cli", "id")), Given(Asked("mcp", "id")),
     Rehearsed(Given(Asked("mcp", "id"))), Given(Asked("mcp", "text")),
     Asked("cli", "path"), Given(Asked("cli", "graph")),
     Rehearsed(Asked("cli", "graph")), Asked("cli", "lock"), Asked("cli", "verify")}

Runs == Permutations(MCProcs)
=============================================================================
