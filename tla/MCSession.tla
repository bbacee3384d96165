----------------------------- MODULE MCSession -----------------------------
(* A small instance of Session for TLC: two audit files and one more.      *)
EXTENDS Session

CONSTANTS n1, n2, n3

(* What the lines are about.                                               *)
AboutOf == <<"pack", "unread">>

Part(of) == [of |-> of, end |-> FALSE]
Whole(of) == [of |-> of, end |-> TRUE]

Written == {Whole(2)}

Names == <<n1, n2>>

(* A trail of two lines, the first in two parts, and a sidecar that is    *)
(* torn; the third file, perhaps another trail, is torn after its line.    *)
Stores ==
    {(n1 :> <<Part(1), Whole(1), Whole(2)>>) @@ (n2 :> <<Part(1)>>) @@ (n3 :> <<Whole(1), Part(1)>>)}
=============================================================================
