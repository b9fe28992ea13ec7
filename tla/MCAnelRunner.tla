---------------------------- MODULE MCAnelRunner ----------------------------
(* Instances of AnelRunner for TLC: two strips, the address of s1 being a  *)
(* part of that of s12, and commands and a query that meet at s1.          *)
EXTENDS AnelRunner

CONSTANTS s1, s12, on, off, query

StripOf == [r \in Requests |-> IF r = off THEN s12 ELSE s1]
WantOf == [r \in Requests |-> IF r = query THEN "query" ELSE IF r = off THEN "off" ELSE "on"]
SubAddress == {<<s1, s12>>}
=============================================================================
