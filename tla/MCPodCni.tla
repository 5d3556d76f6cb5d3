------------------------------- MODULE MCPodCni ------------------------------
(* PodCni with two sandboxes at a time, for TLC: each event at most as     *)
(* often as its budget says, and no more than Total of them in a behaviour.*)
EXTENDS PodCni

CONSTANTS Failures, Kills, Agains, Reboots, Forces, Unreadies, Lags, Total

MCBudget == [fault |-> Failures, kill |-> Kills, again |-> Agains, reboot |-> Reboots,
             force |-> Forces, unready |-> Unreadies, lag |-> Lags, any |-> Total]
=============================================================================
