--------------------------- MODULE MCPoolInstances ---------------------------
(* Instances of PoolInstances for TLC: each event at most as often as its  *)
(* budget says, and no more than Total of them in a behaviour.             *)
EXTENDS PoolInstances, TLC

CONSTANTS Joins, Leaves, Edits, Deletes, Faults, Crashes, Total

\* one vmConfig may change from public to private and back
CONSTANTS c1, c2
MCEgresses == c1 :> {"public", "private"} @@ c2 :> {"public"}

MCBudget == [join |-> Joins, leave |-> Leaves, edit |-> Edits, delete |-> Deletes,
             fault |-> Faults, crash |-> Crashes, any |-> Total]
=============================================================================
