------------------------------ MODULE GatewayLB ------------------------------
(***************************************************************************)
(* What the load balancer promises, whatever order the gateways are        *)
(* reconciled in: its life under any interleaving of reconcileLBRule calls *)
(* by the GatewayLBConfiguration controller.  One call is one step: the    *)
(* controller has a single worker, and nobody else writes the load         *)
(* balancer between its Get and its CreateOrUpdate.  A call that fails     *)
(* without effect is a stuttering step, one that takes effect before it    *)
(* fails is repeated.                                                      *)
(***************************************************************************)
EXTENDS LoadBalancer

CONSTANT Ids   \* UIDs of GatewayLBConfigurations

VARIABLE lb

RuleRec == [id : Ids, pool : Pools, port : Ports]

(* The load balancer's rules, probes, frontends and backends are sets of   *)
(* the right kinds.                                                        *)
LBTypeOK ==
  lb \in [fronts : SUBSET Pools, backs : SUBSET Pools,
          rules : SUBSET RuleRec, probes : SUBSET Ids]

Init == lb = NoLB

EnsureRule(id, p) == ~NoPortFor(lb, id, p) /\ lb' = WithRule(lb, id, p)

RemoveRule(id, p) == lb' = WithoutRule(lb, id, p)

Next == \E id \in Ids, p \in Pools : EnsureRule(id, p) \/ RemoveRule(id, p)

LBSpec == Init /\ [][Next]_lb

-----------------------------------------------------------------------------
(* Two rules of one backend never share a port: selectPortForLBRule must   *)
(* see every rule of the pool, those kept from earlier calls included.     *)
DistinctPorts ==
  \A r1, r2 \in lb.rules :
    r1.pool = r2.pool /\ r1.port = r2.port => r1 = r2

(* A rule never refers to a frontend or backend that a deletion removed,   *)
(* and each GatewayLBConfiguration has one rule and a probe together.      *)
RulesSupported ==
  /\ \A r \in lb.rules : r.pool \in lb.fronts \cap lb.backs
  /\ \A r1, r2 \in lb.rules : r1.id = r2.id => r1 = r2
  /\ lb.probes = {r.id : r \in lb.rules}

(* A rule that stays in its pool keeps its port: a repeated reconcile, or  *)
(* that of another gateway, never moves a gateway's listening port.        *)
PortsStable ==
  [][\A r1 \in lb.rules, r2 \in lb'.rules :
       r1.id = r2.id /\ r1.pool = r2.pool => r1.port = r2.port]_lb

(* The inductive invariant.                                                *)
LBInv == LBTypeOK /\ DistinctPorts /\ RulesSupported
=============================================================================
