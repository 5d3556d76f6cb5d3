----------------------------- MODULE GatewayNode -----------------------------
(***************************************************************************)
(* A gateway node as its daemon sees it: the objects in the daemon's       *)
(* informer cache, the network configuration of the host and of the        *)
(* gateway namespace, the health probe's set of gateways, and the node's   *)
(* GatewayStatus, which both controllers of the daemon write.              *)
(*                                                                         *)
(* A gateway is a member of Gws, a pod one of Pods; what the daemon reads  *)
(* of them is the cache's copy, so an event changes the copy and queues    *)
(* the request in one step.  Addresses, ports, keys and UIDs are numbers   *)
(* above 0; 0 stands for none.                                             *)
(***************************************************************************)
EXTENDS Integers, FiniteSets

CONSTANTS
  Gws,         \* StaticGatewayConfigurations (namespaced names)
  Pods,        \* PodEndpoints (namespaced names)
  WgPorts,     \* wireguard ports of the pool's load balancer frontend
  VmIPs,       \* secondary addresses the node's VM may get
  PodIPs,      \* addresses pods may get
  Budget,      \* how often each environment event may happen
  Calm,        \* the events that happen only while both controllers are idle
  LateStatus,  \* may the cache's copy of GatewayStatus lag behind?
  LateSecrets, \* may its copies of the key secrets?
  Resyncs      \* does the informers' periodic resync happen?

Events == {"create", "ready", "vip", "rotate", "move", "delete", "pod", "fault", "restart",
           "reboot", "any"}

ASSUME NodeNumbers ==
  WgPorts \subseteq Nat \ {0} /\ VmIPs \subseteq Nat \ {0} /\ PodIPs \subseteq Nat \ {0}
ASSUME NodeNames  == "tick" \notin Gws \cup Pods
ASSUME NodeBudget == Budget \in [Events -> Nat]
ASSUME NodeCalm   == Calm \subseteq Events
ASSUME NodeFlags  == {LateStatus, LateSecrets, Resyncs} \subseteq BOOLEAN

VARIABLES
  gw,       \* per gateway: its StaticGatewayConfiguration
  vip,      \* per gateway: this node's secondary address in its vmConfig, 0: none yet
  sec,      \* per gateway: the private key in its secret
  pods,     \* per pod: its PodEndpoint
  qs, qp,   \* the work queues of the two controllers, but for the ticks
  sw, pw,   \* the reconcile in progress of each
  links,    \* per port: the link wg-<port> in the gateway namespace
  routes,   \* per pod address: the port whose link its route leads to
  ns,       \* the rest of the gateway namespace
  host,     \* the host's network configuration
  probe,    \* UIDs for which LBProbeServer answers 200
  gs, cgs,  \* the node's GatewayStatus, and the cache's copy
  left      \* what remains of Budget

objects == <<gw, vip, sec, pods>>
kernel  == <<links, routes, ns, host>>
vars    == <<gw, vip, sec, pods, qs, qp, sw, pw, links, routes, ns, host, probe, gs, cgs, left>>

(* ready: the status has its prefix too.  here: applyToNode.               *)
GwObj == [uid : Nat, port : WgPorts \cup {0}, key : Nat, ready : BOOLEAN, here : BOOLEAN,
          del : BOOLEAN]
NoGw  == [uid |-> 0, port |-> 0, key |-> 0, ready |-> FALSE, here |-> FALSE, del |-> FALSE]
PodObj == [key : Nat, gw : Gws, ip : PodIPs \cup {0}]

applyToNode(g) == gw[g].uid # 0 /\ gw[g].here
Live(g) == applyToNode(g) /\ ~gw[g].del

getVMIP(g) == vip[g]

(* A wireguard link; its alias is the UID it was made for.                 *)
NoLink == [alias |-> 0, key |-> 0, peers |-> {}]
Linked(p) == links[p].alias # 0

(* snat: per port, the address of its EGRESS-GATEWAY-SNAT-<port> chain;    *)
(* host0: the addresses on host0, the namespace's end of the veth pair.    *)
NoNs == [snat |-> [p \in WgPorts |-> 0], host0 |-> {}]

(* ilb: the load balancer's address is on eth0; eth0: secondary addresses  *)
(* on eth0; chain: the EGRESS-GATEWAY-SNAT chain; nosnat: the addresses    *)
(* whose EGRESS-<address> chain it jumps to; routes: the addresses routed  *)
(* to the namespace; veth: the veth pair is there; wg: wireguard links on  *)
(* their way to the namespace.                                             *)
NoHost == [ilb |-> FALSE, eth0 |-> {}, chain |-> FALSE, nosnat |-> {}, routes |-> {},
           veth |-> FALSE, wg |-> {}]

(* gws: per port, the gateway recorded for wg-<port>; peers: the recorded  *)
(* peers, by public key.                                                   *)
None == "none"
NoStatus == [there |-> FALSE, gws |-> [p \in WgPorts |-> None], peers |-> {}]

(* Used(e): how often e has happened.  It numbers UIDs and keys.           *)
Used(e)  == Budget[e] - left[e]
Quiet(e) == e \in Calm => sw.pc = "idle" /\ pw.pc = "idle"
Spend(e) ==
  /\ Quiet(e) /\ left[e] > 0
  /\ IF e \in {"create", "pod"} THEN left' = [left EXCEPT ![e] = @ - 1]
     ELSE left["any"] > 0 /\ left' = [left EXCEPT ![e] = @ - 1, !["any"] = @ - 1]

(* Create or Update of GatewayStatus from the cached copy, when there is   *)
(* something to change: a stale copy is refused (AlreadyExists, Conflict). *)
CanUpdate(s) == s = cgs \/ cgs = gs
UpdateStatus(s) ==
  IF s = cgs THEN UNCHANGED <<gs, cgs>>
  ELSE gs' = s /\ cgs' = IF LateStatus THEN cgs ELSE s
=============================================================================
