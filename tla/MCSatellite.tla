----------------------------- MODULE MCSatellite -----------------------------
(* Instances of Satellite for TLC.                                         *)
EXTENDS Satellite, TLC

Symmetry == Permutations(Commands) \cup Permutations(Admins)
=============================================================================
