----------------------------- MODULE MCVerifier -----------------------------
(* Instances of Verifier for TLC: two commands of the web, and one of a    *)
(* sensor or a force-stop.                                                 *)
EXTENDS Verifier

CONSTANTS webOn, webOff, fastOff, k1

Asks == [c \in Commands |-> IF c = webOn THEN "on" ELSE "off"]
=============================================================================
