------------------------------ MODULE MCSigned ------------------------------
(* A small instance of SignedTrail for TLC.                                *)
EXTENDS SignedTrail, TLC

CONSTANTS wa, wb, wk, wr, old, f1, k1, k2

(* An evaluation signed with the first key, a rotation to the second, an   *)
(* evaluation whose writer was given the second, and an unsigned repair    *)
(* bound to the damage that was shown.                                     *)
SignedWriter == {wa, wb, wk, wr}
SignedOp == (wa :> "append") @@ (wb :> "append") @@ (wk :> "rotate") @@ (wr :> "bound")
SignedSize == [w \in Writer |-> 1]
SignedKey == (wa :> k1) @@ (wb :> k2) @@ (wk :> k1) @@ (wr :> NoKey)
SignedNextKey == [w \in Writer |-> k2]

AllTrue == [w \in Writer |-> TRUE]
AllFalse == [w \in Writer |-> FALSE]
Authors == Writer \cup {old}
=============================================================================
