---------------------------- MODULE MCInventory ----------------------------
(* Instances of Inventory for TLC. *)
EXTENDS Inventory

CONSTANTS h1, h2, n1

\* A host with the number of its projector in its name, and one without.
Numbered == [h \in {h1, h2} |-> IF h = h1 THEN n1 ELSE None]
=============================================================================
