----------------------------- MODULE MCStamping -----------------------------
(* A small instance of Stamping for TLC.                                   *)
EXTENDS Stamping

CONSTANTS s1, s2, g1, g2

Symmetry == Permutations(StampsFile) \cup Permutations(Stamper)
=============================================================================
