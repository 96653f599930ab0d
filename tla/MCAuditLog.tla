----------------------------- MODULE MCAuditLog -----------------------------
(* AuditLog on a small directory: segments of two unit records, one record *)
(* larger than the rotation threshold and one too large to be accepted.    *)
EXTENDS AuditLog, TLC

CONSTANTS e1, e2, e3, big, huge

SmallSize ==
  [e \in Event |-> CASE e = big -> 3 [] e = huge -> 4 [] OTHER -> 1]

Symmetry == Permutations(Instance) \cup Permutations({e1, e2, e3})
=============================================================================
