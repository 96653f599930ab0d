----------------------------- MODULE MCPresence -----------------------------
(* Presence with interchangeable attempts.                                 *)
EXTENDS Presence, TLC

Symmetry == Permutations(Attempt)
=============================================================================
