------------------------------ MODULE NodePeers ------------------------------
(***************************************************************************)
(* The PodEndpoint controller of the daemon: reconcile makes a pod a peer  *)
(* of its gateway's link and routes its address there, cleanUp removes the *)
(* peers that are no pod's any more.                                       *)
(***************************************************************************)
EXTENDS GatewayNode

PepPcs == {"idle", "error", "peer", "route", "record", "sweep", "unpeer", "unrecord"}
PepWorkOK ==
  /\ pw.pc \in PepPcs /\ pw.req \in Pods \cup {"tick"} /\ pw.port \in WgPorts \cup {0}
  /\ pw.ip \in PodIPs \cup {0} /\ pw.ports \subseteq WgPorts
PepIdle == [pc |-> "idle", req |-> "tick", port |-> 0, key |-> 0, ip |-> 0, ports |-> {},
            keep |-> [p \in WgPorts |-> {}], stale |-> {}, gone |-> {}]

PepAt(pc) == pw.pc = pc
PepGo(pc) == pw' = [pw EXCEPT !.pc = pc] /\ UNCHANGED qp
PepDone   == pw' = PepIdle /\ UNCHANGED qp
PepFail   == pw' = PepIdle /\ qp' = qp \cup ({pw.req} \ {"tick"})

pepRest == <<objects, qs, sw, ns, host, probe, left>>

(* Reconcile up to the first call: the PodEndpoint and then its gateway    *)
(* are read; a gateway that is not found is an error.                      *)
PepStart(e) ==
  LET name == pods[e].gw
      g == gw[name]
  IN
  /\ PepAt("idle") /\ e \in qp
  /\ UNCHANGED <<pepRest, links, routes, gs, cgs>>
  /\ \/ pods[e].key = 0 /\ qp' = qp \ {e} /\ UNCHANGED pw
     \/ /\ pods[e].key # 0 /\ g.uid = 0
        /\ qp' = qp \ {e} /\ pw' = [PepIdle EXCEPT !.pc = "error", !.req = e]
     \/ pods[e].key # 0 /\ g.uid # 0 /\ ~applyToNode(name) /\ qp' = qp \ {e} /\ UNCHANGED pw
     \/ /\ pods[e].key # 0 /\ applyToNode(name)
        /\ qp' = qp \ {e}
        /\ pw' = [PepIdle EXCEPT !.pc = "peer", !.req = e, !.port = g.port,
                                 !.key = pods[e].key, !.ip = pods[e].ip]

PepError == PepAt("error") /\ PepFail /\ UNCHANGED <<pepRest, links, routes, gs, cgs>>

(* The peer gets the pod's address as its only allowed one; the kernel     *)
(* takes the address from any other peer of the link.                      *)
PepPeer ==
  LET others == {x \in links[pw.port].peers : x.key # pw.key} IN
  /\ PepAt("peer")
  /\ UNCHANGED <<pepRest, routes, gs, cgs>>
  /\ \/ ~Linked(pw.port) /\ PepFail /\ UNCHANGED links
     \/ /\ Linked(pw.port) /\ PepGo("route")
        /\ links' = [links EXCEPT ![pw.port].peers =
             {IF x.ip = pw.ip THEN [x EXCEPT !.ip = 0] ELSE x : x \in others}
               \cup {[key |-> pw.key, ip |-> pw.ip]}]

(* Faulty variant: a route to the address that is there is kept.           *)
addWireguardPeerRoutes_Keep ==
  /\ PepAt("route")
  /\ UNCHANGED <<pepRest, links, gs, cgs>>
  /\ \/ ~Linked(pw.port) /\ PepFail /\ UNCHANGED routes
     \/ /\ Linked(pw.port) /\ PepGo("record")
        /\ routes' = IF routes[pw.ip] = 0 THEN [routes EXCEPT ![pw.ip] = pw.port] ELSE routes

addWireguardPeerRoutes ==
  /\ PepAt("route")
  /\ UNCHANGED <<pepRest, links, gs, cgs>>
  /\ \/ ~Linked(pw.port) /\ PepFail /\ UNCHANGED routes
     \/ /\ Linked(pw.port) /\ PepGo("record")
        /\ routes' = [routes EXCEPT ![pw.ip] = pw.port]

(* updateGatewayNodeStatus: entries are looked up by public key.           *)
WithPeer(s, key, port) ==
  IF \E x \in s.peers : x.key = key THEN s
  ELSE [s EXCEPT !.there = TRUE, !.peers = @ \cup {[key |-> key, port |-> port]}]
WithoutPeers(s, keys) == [s EXCEPT !.peers = {x \in @ : x.key \notin keys}]

PepRecord ==
  LET new == WithPeer(cgs, pw.key, pw.port) IN
  /\ PepAt("record")
  /\ UNCHANGED <<pepRest, links, routes>>
  /\ \/ ~CanUpdate(new) /\ PepFail /\ UNCHANGED <<gs, cgs>>
     \/ CanUpdate(new) /\ PepDone /\ UpdateStatus(new)

-----------------------------------------------------------------------------
(* The ticker's request: cleanUp reads every gateway and pod once.  keep:  *)
(* per link of a gateway that stays, the keys of its pods.                 *)
PepTick ==
  LET ports == {gw[g].port : g \in {x \in Gws : Live(x)}}
      keep == [p \in WgPorts |-> {pods[e].key : e \in {x \in Pods :
                 pods[x].key # 0 /\ Live(pods[x].gw) /\ gw[pods[x].gw].port = p}}]
  IN
  /\ PepAt("idle")
  /\ pw' = [PepIdle EXCEPT !.pc = "sweep", !.ports = ports, !.keep = keep]
  /\ UNCHANGED <<pepRest, qp, links, routes, gs, cgs>>

(* Faulty variant: routes are looked for on every link.                    *)
PepSweep_AnyLink(p) ==
  LET stale == {x \in links[p].peers : x.key \notin pw.keep[p]} IN
  /\ PepAt("sweep") /\ p \in pw.ports
  /\ UNCHANGED <<pepRest, links, gs, cgs, qp>>
  /\ \/ /\ stale = {}
        /\ pw' = [pw EXCEPT !.ports = @ \ {p}] /\ UNCHANGED routes
     \/ /\ stale # {}
        /\ routes' = [ip \in PodIPs |-> IF \E x \in stale : x.ip = ip THEN 0 ELSE routes[ip]]
        /\ pw' = [pw EXCEPT !.pc = "unpeer", !.port = p, !.stale = {x.key : x \in stale}]

(* Faulty variant: a peer without an address is passed over.               *)
PepSweep_Addressed(p) ==
  LET stale == {x \in links[p].peers : x.key \notin pw.keep[p] /\ x.ip # 0} IN
  /\ PepAt("sweep") /\ p \in pw.ports
  /\ UNCHANGED <<pepRest, links, gs, cgs, qp>>
  /\ \/ /\ stale = {}
        /\ pw' = [pw EXCEPT !.ports = @ \ {p}] /\ UNCHANGED routes
     \/ /\ stale # {}
        /\ routes' = [ip \in PodIPs |-> IF routes[ip] = p /\ \E x \in stale : x.ip = ip
                                        THEN 0 ELSE routes[ip]]
        /\ pw' = [pw EXCEPT !.pc = "unpeer", !.port = p, !.stale = {x.key : x \in stale}]

(* deleteWireguardPeerRoutes: only routes of this link are looked at.      *)
deleteWireguardPeerRoutes(p, peers) ==
  routes' = [ip \in PodIPs |-> IF routes[ip] = p /\ \E x \in peers : x.ip = ip
                               THEN 0 ELSE routes[ip]]

(* cleanUpWgLink up to the removal of the peers.                           *)
PepSweep(p) ==
  LET stale == {x \in links[p].peers : x.key \notin pw.keep[p]} IN
  /\ PepAt("sweep") /\ p \in pw.ports
  /\ UNCHANGED <<pepRest, links, gs, cgs, qp>>
  /\ \/ /\ stale = {}                            \* or the link is not there
        /\ pw' = [pw EXCEPT !.ports = @ \ {p}] /\ UNCHANGED routes
     \/ /\ stale # {}
        /\ deleteWireguardPeerRoutes(p, stale)
        /\ pw' = [pw EXCEPT !.pc = "unpeer", !.port = p, !.stale = {x.key : x \in stale}]

(* The next link; when this one failed its keys are not reported.          *)
PepNextLink(keys) ==
  /\ pw' = [pw EXCEPT !.pc = "sweep", !.ports = @ \ {pw.port}, !.port = 0, !.stale = {},
                      !.gone = @ \cup keys]
  /\ UNCHANGED qp

PepUnpeer ==
  /\ PepAt("unpeer")
  /\ UNCHANGED <<pepRest, routes, gs, cgs>>
  /\ \/ ~Linked(pw.port) /\ PepNextLink({}) /\ UNCHANGED links
     \/ /\ Linked(pw.port) /\ PepNextLink(pw.stale)
        /\ links' = [links EXCEPT ![pw.port].peers = {x \in @ : x.key \notin pw.stale}]

PepSwept ==
  /\ PepAt("sweep") /\ pw.ports = {} /\ PepGo("unrecord")
  /\ UNCHANGED <<pepRest, links, routes, gs, cgs>>

(* updateGatewayNodeStatus(remove); its error is Reconcile's.  Otherwise   *)
(* Reconcile goes on to read the ticker's empty name, which is not found.  *)
PepUnrecord ==
  LET new == WithoutPeers(cgs, pw.gone) IN
  /\ PepAt("unrecord")
  /\ UNCHANGED <<pepRest, links, routes>>
  /\ \/ ~CanUpdate(new) /\ PepFail /\ UNCHANGED <<gs, cgs>>
     \/ CanUpdate(new) /\ PepDone /\ UpdateStatus(new)

PepStep ==
  \/ PepError \/ PepPeer \/ addWireguardPeerRoutes \/ PepRecord
  \/ PepUnpeer \/ PepSwept \/ PepUnrecord
  \/ \E p \in WgPorts : PepSweep(p)

(* A call fails; in the cleanup of one link that is logged.                *)
PepFault ==
  /\ pw.pc \notin {"idle", "error"} /\ Spend("fault")
  /\ UNCHANGED <<objects, qs, sw, kernel, probe, gs, cgs>>
  /\ CASE pw.pc = "sweep" -> /\ \E p \in pw.ports : pw' = [pw EXCEPT !.ports = @ \ {p}]
                             /\ UNCHANGED qp
       [] pw.pc = "unpeer" -> PepNextLink({})
       [] OTHER -> PepFail
=============================================================================
