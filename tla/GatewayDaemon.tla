---------------------------- MODULE GatewayDaemon ----------------------------
(***************************************************************************)
(* The daemon of a gateway node: its two controllers, one worker each,     *)
(* over the node they share, the cleanup tickers, and what happens around  *)
(* them: objects come, change and go, the process or the node restarts.    *)
(***************************************************************************)
EXTENDS NodeGateways, NodePeers

Init ==
  /\ gw = [g \in Gws |-> NoGw] /\ vip = [g \in Gws |-> 0] /\ sec = [g \in Gws |-> 0]
  /\ pods = [e \in Pods |-> [key |-> 0, gw |-> CHOOSE g \in Gws : TRUE, ip |-> 0]]
  /\ qs = {} /\ qp = {} /\ sw = GwIdle /\ pw = PepIdle
  /\ links = [p \in WgPorts |-> NoLink] /\ routes = [ip \in PodIPs |-> 0]
  /\ ns = NoNs /\ host = NoHost /\ probe = {} /\ gs = NoStatus /\ cgs = NoStatus
  /\ left = Budget

daemonState == <<qp, sw, pw, kernel, probe, gs, cgs>>

-----------------------------------------------------------------------------
(* The cache's copies of the objects change, and the request is queued.    *)

(* A StaticGatewayConfiguration shows up with its server profile; its port *)
(* is no other live gateway's.                                             *)
GatewayAdded(g) ==
  /\ gw[g].uid = 0 /\ Spend("create")
  /\ \E p \in WgPorts \ {gw[x].port : x \in {y \in Gws : ~gw[y].del}} :
       gw' = [gw EXCEPT ![g] = [uid |-> 1 + Used("create"), port |-> p, ready |-> FALSE,
                                here |-> TRUE, del |-> FALSE,
                                key |-> 1 + Used("create") + Used("rotate")]]
  /\ sec' = [sec EXCEPT ![g] = IF LateSecrets THEN 0 ELSE gw'[g].key]
  /\ qs' = qs \cup {g}
  /\ UNCHANGED <<vip, pods, daemonState>>

(* Its egress prefix shows up in its status.                               *)
GatewayReady(g) ==
  /\ Live(g) /\ ~gw[g].ready /\ Quiet("ready")
  /\ gw' = [gw EXCEPT ![g].ready = TRUE] /\ qs' = qs \cup {g}
  /\ UNCHANGED <<vip, sec, pods, left, daemonState>>

(* The key pair is replaced: the status has the new public key.            *)
KeyRotated(g) ==
  /\ Live(g) /\ Spend("rotate")
  /\ gw' = [gw EXCEPT ![g].key = 1 + Used("create") + Used("rotate")]
  /\ sec' = IF LateSecrets THEN sec ELSE [sec EXCEPT ![g] = gw'[g].key]
  /\ qs' = qs \cup {g}
  /\ UNCHANGED <<vip, pods, daemonState>>

(* Secrets are read from the cache but not watched.                        *)
SecretSeen(g) ==
  /\ sec[g] # gw[g].key
  /\ sec' = [sec EXCEPT ![g] = gw[g].key]
  /\ UNCHANGED <<gw, vip, pods, qs, left, daemonState>>

(* The node's profile appears in the gateway's vmConfig, or goes from it.  *)
AddressChanged(g) ==
  /\ gw[g].uid # 0 /\ Quiet("vip")
  /\ \/ /\ vip[g] = 0 /\ Live(g)
        /\ \E ip \in VmIPs \ {vip[x] : x \in Gws} :
             /\ vip' = [vip EXCEPT ![g] = ip]
             /\ host' = [host EXCEPT !.eth0 = IF ip \in ns.host0 THEN @ ELSE @ \cup {ip}]
        /\ UNCHANGED left
     \/ /\ vip[g] # 0 /\ vip' = [vip EXCEPT ![g] = 0] /\ UNCHANGED host
        /\ IF gw[g].del THEN UNCHANGED left ELSE Spend("vip")
  /\ qs' = qs \cup {g}
  /\ UNCHANGED <<gw, sec, pods, qp, sw, pw, links, routes, ns, probe, gs, cgs>>

(* The gateway moves to another pool.                                      *)
GatewayMoved(g) ==
  /\ Live(g) /\ Spend("move")
  /\ gw' = [gw EXCEPT ![g].here = FALSE] /\ qs' = qs \cup {g}
  /\ UNCHANGED <<vip, sec, pods, daemonState>>

GatewayDeleted(g) ==
  /\ gw[g].uid # 0 /\ ~gw[g].del /\ Spend("delete")
  /\ gw' = [gw EXCEPT ![g].del = TRUE] /\ qs' = qs \cup {g}
  /\ UNCHANGED <<vip, sec, pods, daemonState>>

GatewayGone(g) ==
  /\ gw[g].del /\ Quiet("delete")
  /\ gw' = [gw EXCEPT ![g] = NoGw] /\ vip' = [vip EXCEPT ![g] = 0]
  /\ sec' = [sec EXCEPT ![g] = 0] /\ qs' = qs \cup {g}
  /\ UNCHANGED <<pods, left, daemonState>>

(* A pod's PodEndpoint shows up, or an old one is written anew.            *)
PodAdded(e) ==
  /\ Spend("pod")
  /\ \E g \in Gws, ip \in PodIPs \ {pods[x].ip : x \in Pods \ {e}} :
       /\ gw[g].uid # 0
       /\ pods' = [pods EXCEPT ![e] = [key |-> 1 + Used("pod"), gw |-> g, ip |-> ip]]
  /\ qp' = qp \cup {e}
  /\ UNCHANGED <<gw, vip, sec, qs, sw, pw, kernel, probe, gs, cgs>>

PodGone(e) ==
  /\ pods[e].key # 0 /\ Quiet("pod")
  /\ pods' = [pods EXCEPT ![e].key = 0, ![e].ip = 0] /\ qp' = qp \cup {e}
  /\ UNCHANGED <<gw, vip, sec, qs, sw, pw, kernel, probe, gs, cgs, left>>

StatusSeen ==
  /\ cgs # gs /\ cgs' = gs
  /\ UNCHANGED <<objects, qs, qp, sw, pw, kernel, probe, gs, left>>

-----------------------------------------------------------------------------
AllQueued ==
  /\ qs' = qs \cup {g \in Gws : gw[g].uid # 0}
  /\ qp' = qp \cup {e \in Pods : pods[e].key # 0}

Resync ==
  /\ Resyncs /\ AllQueued
  /\ UNCHANGED <<objects, sw, pw, kernel, probe, gs, cgs, left>>

(* The process restarts: what it held in memory is gone.                   *)
Restarted ==
  /\ qs' = {g \in Gws : gw[g].uid # 0} /\ qp' = {e \in Pods : pods[e].key # 0}
  /\ sw' = GwIdle /\ pw' = PepIdle /\ probe' = {} /\ cgs' = gs
  /\ UNCHANGED <<objects, gs>>

Restart == Restarted /\ Spend("restart") /\ UNCHANGED kernel

(* The node reboots: its network configuration is gone as well.            *)
Reboot ==
  /\ Restarted /\ Spend("reboot")
  /\ links' = [p \in WgPorts |-> NoLink] /\ routes' = [ip \in PodIPs |-> 0]
  /\ ns' = NoNs /\ host' = [NoHost EXCEPT !.eth0 = {vip[g] : g \in Gws} \ {0}]

Environment ==
  \/ \E g \in Gws : \/ GatewayAdded(g) \/ GatewayReady(g) \/ KeyRotated(g)
                    \/ AddressChanged(g) \/ GatewayMoved(g)
                    \/ GatewayDeleted(g) \/ GatewayGone(g)
  \/ \E e \in Pods : PodAdded(e) \/ PodGone(e)
  \/ Restart \/ Reboot

Caches == StatusSeen \/ \E g \in Gws : SecretSeen(g)

(* Without pods no link ever has a peer to sweep.                          *)
Sweeps == Pods # {} /\ PepTick

Next ==
  \/ \E g \in Gws : GwStart(g)
  \/ \E e \in Pods : PepStart(e)
  \/ GwTick \/ GwStep \/ GwFault
  \/ Sweeps \/ PepStep \/ PepFault
  \/ Resync \/ Caches \/ Environment

Spec == Init /\ [][Next]_vars

(* Each worker goes on; no request waits in its queue for ever (a failed   *)
(* one is queued again), the tickers' requests are taken again and again;  *)
(* the informers deliver, and resync again and again.                      *)
Fairness ==
  /\ WF_vars(GwStep) /\ WF_vars(PepStep) /\ WF_vars(Caches) /\ WF_vars(Resync)
  /\ \A g \in Gws : []<>(g \notin qs)
  /\ \A e \in Pods : []<>(e \notin qp)
  /\ []<>GwAt("list") /\ []<>(Pods # {} => PepAt("sweep"))

FairSpec == Spec /\ Fairness

-----------------------------------------------------------------------------
(* Every variable has the shape its comment gives it.                      *)
NodeTypeOK ==
  /\ gw \in [Gws -> GwObj] /\ vip \in [Gws -> VmIPs \cup {0}] /\ sec \in [Gws -> Nat]
  /\ pods \in [Pods -> PodObj] /\ qs \subseteq Gws /\ qp \subseteq Pods
  /\ sw \in GwWork /\ PepWorkOK
  /\ \A p \in WgPorts : /\ links[p].alias \in Nat /\ links[p].key \in Nat
                        /\ \A x \in links[p].peers : x.key \in Nat \ {0} /\ x.ip \in PodIPs \cup {0}
  /\ routes \in [PodIPs -> WgPorts \cup {0}]
  /\ ns.snat \in [WgPorts -> VmIPs \cup {0}] /\ ns.host0 \subseteq VmIPs
  /\ host \in [ilb : BOOLEAN, eth0 : SUBSET VmIPs, chain : BOOLEAN, nosnat : SUBSET VmIPs,
                routes : SUBSET VmIPs, veth : BOOLEAN, wg : SUBSET WgPorts]
  /\ \A s \in {gs, cgs} : /\ s.gws \in [WgPorts -> Gws \cup {None}]
                          /\ \A x \in s.peers : x.key \in Nat /\ x.port \in WgPorts
  /\ left \in [Events -> Nat]

(* What a gateway needs on the node for its pods' traffic to leave from    *)
(* its address, and for the load balancer to send it here.                 *)
Up(g) == Live(g) /\ gw[g].ready /\ vip[g] # 0

Served(g) ==
  LET p == gw[g].port
      ip == vip[g]
  IN /\ Up(g)
     /\ links[p].key = gw[g].key /\ ns.snat[p] = ip /\ ip \in ns.host0
     /\ host.ilb /\ host.chain /\ ip \in host.nosnat \cap host.routes /\ ip \notin host.eth0
     /\ gs.gws[p] # None /\ gw[g].uid \in probe

(* What a pod needs there.                                                 *)
Asked(e) == pods[e].key # 0 /\ Up(pods[e].gw)

PodServed(e) ==
  LET p == gw[pods[e].gw].port IN
  /\ Asked(e)
  /\ [key |-> pods[e].key, ip |-> pods[e].ip] \in links[p].peers
  /\ routes[pods[e].ip] = p

(* A gateway that stays up is in the end served for good, whatever was     *)
(* left on the node by others, by an earlier address of its own, by a      *)
(* reconcile cut short or by cleanUp (reconcile, cleanUp).                 *)
GatewaysServed == \A g \in Gws : <>[]Up(g) => <>[]Served(g)

(* The same when the daemon may stop at any moment, but for a gateway whose*)
(* link was left in the host's namespace (createWireguardLink).            *)
ServedUnlessStray ==
  \A g \in Gws : <>[](Up(g) /\ gw[g].port \notin host.wg) => <>[]Served(g)

(* In the end, once there is a veth pair, a link or an address on host0 is *)
(* some active gateway's: cleanUp finds the others, whichever way they     *)
(* came to be orphans.                                                     *)
LinksGone ==
  <>[](host.veth =>
         /\ ns.host0 \subseteq {vip[g] : g \in Active}
         /\ \A p \in WgPorts : Linked(p) => \E g \in Active : gw[g].port = p)

(* So is every SNAT chain, as long as no call fails and the daemon is not  *)
(* stopped: a chain whose link is gone is not looked for again.  And when  *)
(* no gateway is left on the node the load balancer's address and the      *)
(* chain on the host are gone (cleanUp, ensureDeleteLink).                 *)
ChainsGone ==
  <>[](host.veth /\ Used("fault") = 0 /\ Used("restart") = 0 =>
         /\ \A p \in WgPorts : ns.snat[p] # 0 => \E g \in Active : gw[g].port = p
         /\ (\A g \in Gws : ~Live(g)) => ~host.ilb /\ ~host.chain)

(* "should do fully cleanup when there's no active gwConfig": with no      *)
(* gateway left, the load balancer's address and the chain are gone.       *)
FullCleanup == <>[]((\A g \in Gws : ~Live(g)) => ~host.ilb /\ ~host.chain)

(* After the cleanup the probe server knows only the gateways that are not *)
(* deleted (the tests' GetGateways).                                       *)
ProbeForgets == <>[](probe \subseteq {gw[g].uid : g \in {x \in Gws : Live(x)}})

(* GatewayStatus records, for the interface of a served gateway, the name  *)
(* of that gateway (updateGatewayNodeStatus).                              *)
StatusNames == <>[](\A g \in Gws : Served(g) => gs.gws[gw[g].port] = g)

(* A pod that stays, of a gateway that stays up, becomes a routed peer for *)
(* good (PodEndpointReconciler.reconcile and cleanUp).                     *)
PodsServed == \A e \in Pods : <>[]Asked(e) => <>[]PodServed(e)

(* In the end every peer is one of the pods of the link's gateway: cleanUp *)
(* finds the peers of pods that went, and those whose address or gateway   *)
(* was taken over.                                                         *)
PeersGone ==
  <>[] \A p \in WgPorts : \A x \in links[p].peers :
         \E e \in Pods : /\ pods[e].key = x.key /\ Live(pods[e].gw)
                         /\ gw[pods[e].gw].port = p

(* No step takes the peer or the route from a served pod as long as its    *)
(* PodEndpoint, its gateway and the gateway's link stay: cleanUp of a link *)
(* leaves the routes of other links and the peers of present pods alone,   *)
(* also when an address goes from pod to pod or from gateway to gateway.   *)
SweepSpares ==
  [][\A e \in Pods :
       LET g == pods[e].gw IN
       PodServed(e) /\ pods'[e] = pods[e] /\ gw'[g] = gw[g] /\ vip'[g] = vip[g]
         /\ links'[gw[g].port].alias = links[gw[g].port].alias
       => PodServed(e)']_vars

(* "List of ready peer configurations": in the end the peers recorded in   *)
(* GatewayStatus are peers of their links.                                 *)
StatusPeers == <>[](\A x \in gs.peers : \E y \in links[x.port].peers : y.key = x.key)
=============================================================================
