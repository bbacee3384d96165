------------------------------ MODULE MCTrail ------------------------------
(* Small instances of TrailWriter for TLC.                                 *)
EXTENDS TrailWriter, TLC

CONSTANTS wa, wb, wc, wr, ws, old, f1, f2, f3

AllTrue == [w \in Writer |-> TRUE]
AllFalse == [w \in Writer |-> FALSE]
AllOne == [w \in Writer |-> 1]

(* An evaluation, a graph run of two records, and a repair.                *)
ChainWriter == {wa, wb, wr}
ChainOp == (wa :> "append") @@ (wb :> "append") @@ (wr :> "repair")
ChainSize == (wa :> 2) @@ (wb :> 1) @@ (wr :> 1)

(* An append, a repair and a repair bound to the damage that was shown.    *)
RepairWriter == {wa, wr, ws}
RepairOp == (wa :> "append") @@ (wr :> "repair") @@ (ws :> "bound")
RepairSize == (wa :> 2) @@ (wr :> 1) @@ (ws :> 1)

(* A writer with chain off, whose record is oversized, beside two that     *)
(* chain and share the lock, and one that would and is offered no lock.    *)
MixedWriter == {wa, wb, wc, ws}
MixedOp == [w \in MixedWriter |-> "append"]
MixedSize == [w \in MixedWriter |-> 1]
MixedChain == [w \in MixedWriter |-> w # wa]
MixedBig == [w \in MixedWriter |-> w = wa]
MixedLockable == [w \in MixedWriter |-> w # ws]

Authors == Writer \cup {old}
MixedSymmetry == Permutations({wb, wc})
=============================================================================
