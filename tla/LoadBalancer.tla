---------------------------- MODULE LoadBalancer -----------------------------
(***************************************************************************)
(* The gateway internal load balancer and what reconcileLBRule makes of    *)
(* it.  All gateways of a pool share one frontend and one backend pool,    *)
(* named after the pool; every GatewayLBConfiguration has a rule and a     *)
(* probe of its own, named after its UID (an id here).  The rule's         *)
(* frontend port, equal to its backend port, is the gateway's wireguard    *)
(* listening port.                                                         *)
(*                                                                         *)
(* A load balancer without frontends does not exist: creating it adds a    *)
(* frontend, and dropping the last one deletes it.                         *)
(***************************************************************************)
EXTENDS Integers

CONSTANTS
  Pools,       \* gateway node pools
  PortStart,   \* consts.WireguardPortStart, inclusive
  PortEnd      \* consts.WireguardPortEnd, exclusive

ASSUME PortsAssumption == PortStart \in Nat \ {0} /\ PortEnd \in Nat

Ports == PortStart .. PortEnd - 1

NoLB == [fronts |-> {}, backs |-> {}, rules |-> {}, probes |-> {}]

(* Ports of pool p that no rule of its backend uses.                       *)
FreePorts(rules, p) == Ports \ {r.port : r \in {x \in rules : x.pool = p}}

(* The lowest free port.                                                   *)
selectPortForLBRule(rules, p) ==
  CHOOSE q \in FreePorts(rules, p) : \A x \in FreePorts(rules, p) : q <= x

OwnRules(b, id)    == {r \in b.rules : r.id = id}
OtherRules(b, id)  == {r \in b.rules : r.id # id}
KeptRules(b, id, p) == {r \in OwnRules(b, id) : r.pool = p}

(* reconcileLBRule(needLB = true) fails when it needs a port and has none. *)
NoPortFor(b, id, p) ==
  KeptRules(b, id, p) = {} /\ FreePorts(OtherRules(b, id), p) = {}

(* Faulty variant: a rule that is there is given a new port every time.    *)
PortFor_Moves(b, id, p) == selectPortForLBRule(b.rules, p)

(* The port it returns: the kept rule's, else a newly selected one.        *)
PortFor(b, id, p) ==
  IF KeptRules(b, id, p) # {}
    THEN (CHOOSE r \in KeptRules(b, id, p) : TRUE).port
    ELSE selectPortForLBRule(OtherRules(b, id), p)

(* A rule of the same name with another configuration (another pool) is    *)
(* dropped and replaced; frontend, backend and probe are added when        *)
(* missing.                                                                *)
WithRule(b, id, p) ==
  [fronts |-> b.fronts \cup {p},
   backs  |-> b.backs \cup {p},
   rules  |-> OtherRules(b, id) \cup
                {[id |-> id, pool |-> p, port |-> PortFor(b, id, p)]},
   probes |-> b.probes \cup {id}]

(* Faulty variants: other rules of the frontend are not counted; the       *)
(* frontend is never dropped.                                              *)
WithoutRule_NoCount(b, id, p) ==
  [fronts |-> b.fronts \ {p}, backs |-> b.backs \ {p},
   rules |-> OtherRules(b, id), probes |-> b.probes \ {id}]
WithoutRule_KeepsFrontend(b, id, p) ==
  [b EXCEPT !.rules = OtherRules(b, id), !.probes = @ \ {id}]

(* reconcileLBRule(needLB = false): drop the rule and the probe; when no   *)
(* other rule refers to p's frontend drop frontend and backend, and with   *)
(* the last frontend the load balancer.                                    *)
WithoutRule(b, id, p) ==
  LET others == OtherRules(b, id)
      shared == \E r \in others : r.pool = p
      fronts == IF shared THEN b.fronts ELSE b.fronts \ {p}
  IN IF ~shared /\ fronts = {}
       THEN NoLB
       ELSE [fronts |-> fronts,
             backs  |-> IF shared THEN b.backs ELSE b.backs \ {p},
             rules  |-> others,
             probes |-> b.probes \ {id}]
=============================================================================
