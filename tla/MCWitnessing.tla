---------------------------- MODULE MCWitnessing ----------------------------
(* A small instance of Witnessing for TLC.                                 *)
EXTENDS Witnessing

CONSTANTS v1, v2

MCReader == {v1, v2}

Readers == Permutations(MCReader)
=============================================================================
