------------------------------ MODULE MCCniConf ------------------------------
(* CniConf with two foreign files, a list and a plain one, for TLC: each   *)
(* event at most as often as its budget says, and no more than Total of    *)
(* them in a behaviour.                                                    *)
EXTENDS CniConf

\* a list alone, one in front of which our plugin had been put, our own alone
MCContents == {<<"azure">>, <<"kube-egress-cni", "azure", "portmap">>, <<"kube-egress-cni">>}

CONSTANTS Writes, Edits, Faults, Crashes, Stops, Reimages, Total

MCBudget == [write |-> Writes, flag |-> Edits, fault |-> Faults, crash |-> Crashes,
             stop |-> Stops, reimage |-> Reimages, any |-> Total]
=============================================================================
