----------------------------- MODULE RunLedger -----------------------------
(***************************************************************************)
(* What the protection service promises of one artwork, whoever starts and *)
(* stops it: a run is charged once, with all its time, to the window it    *)
(* ends in; usage goes away with its window only; a cooldown lasts its     *)
(* time; and a restart forgets nothing that was saved.  What it may forget *)
(* is a run whose beginning was not saved; one that goes on, goes on with  *)
(* all the time it has to pay for.                                         *)
(*                                                                         *)
(* The windows follow one another and each begins with nothing used: that  *)
(* is what the code does (_get_time_slice_budget), not the rolling window  *)
(* with gradual refill that the documents describe                         *)
(* (docs/admin-guide/internals.md:173,191-194, protection.md:7,16-27).     *)
(***************************************************************************)
EXTENDS Naturals

CONSTANTS Budget, Window, Cooldown, AgeCap

VARIABLES
  running, age,   \* a run in progress and its age
  usage,          \* of the current window
  cooling,        \* the time the artwork has to stay off
  phase,          \* position of now in the window
  unsaved         \* the end of the last run is not in the database yet, or a write
                  \* from before it may still get there

lvars == <<running, age, usage, cooling, phase, unsaved>>

Capped(n, cap) == IF n > cap THEN cap ELSE n

Init ==
  /\ ~running /\ age = 0 /\ usage = 0 /\ cooling = 0 /\ phase = 0 /\ ~unsaved

Begin ==
  /\ ~running
  /\ running' = TRUE /\ age' = 0
  /\ UNCHANGED <<usage, cooling, phase, unsaved>>

End ==
  /\ running
  /\ running' = FALSE /\ age' = 0
  /\ usage' = Capped(usage + age, Budget)
  /\ cooling' \in {cooling, Cooldown}
  /\ unsaved' = TRUE
  /\ UNCHANGED phase

Save == unsaved /\ unsaved' = FALSE /\ UNCHANGED <<running, age, usage, cooling, phase>>

Tick ==
  /\ phase' = IF phase + 1 = Window THEN 0 ELSE phase + 1
  /\ age' = IF running THEN Capped(age + 1, AgeCap) ELSE 0
  /\ usage' = IF phase' = 0 THEN 0 ELSE usage
  /\ cooling' = IF cooling > 0 THEN cooling - 1 ELSE 0
  /\ UNCHANGED <<running, unsaved>>

Restart ==
  /\ unsaved' = FALSE
  /\ UNCHANGED phase
  /\ running' \in BOOLEAN
  /\ age' \in IF running' THEN 0..AgeCap ELSE {0}
  /\ usage' \in 0..usage
  /\ cooling' \in 0..cooling
  /\ running' => usage <= Capped(usage' + age', Budget)
  /\ ~unsaved => /\ UNCHANGED <<usage, cooling>>
                 /\ running' => running /\ UNCHANGED age

Next == Begin \/ End \/ Save \/ Tick \/ Restart

Spec == Init /\ [][Next]_lvars
=============================================================================
