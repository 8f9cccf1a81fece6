--------------------------- MODULE MCControlPlane ---------------------------
(* ControlPlane for TLC: the ids are model values, hence interchangeable. *)
EXTENDS ControlPlane, TLC

Symmetry ==
  Permutations(Runs \ Legacy) \cup Permutations(Servers) \cup Permutations(Workers)
    \cup Permutations(Clis)
=============================================================================
