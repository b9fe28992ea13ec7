---------------------------- MODULE MCProtection ----------------------------
(* Instances of Protection for TLC.  One tick is one enforcement interval. *)
EXTENDS Protection, TLC

\* Sensor requests are interchangeable.  Used in runs without liveness.
SensorSymmetry == Permutations(Sensors)

\* The web commands the whole artwork.
WebOnly == {<<"web", "artwork">>}
=============================================================================
