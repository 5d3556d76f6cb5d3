---------------------------- MODULE NodeGateways -----------------------------
(***************************************************************************)
(* The StaticGatewayConfiguration controller of the daemon: reconcile      *)
(* configures the node for a gateway, cleanUp removes what belongs to no   *)
(* gateway any more.  One action per group of system calls that nothing    *)
(* else on the node can come between.                                      *)
(***************************************************************************)
EXTENDS GatewayNode

GwPcs == {"idle", "error", "ilb", "host", "link", "move", "key", "veth", "snat", "publish",
          "list", "ips", "unroute", "links", "unsnat", "unpublish", "wipe"}
GwWork == [pc : GwPcs, req : Gws \cup {"tick"}, uid : Nat, port : WgPorts \cup {0},
           key : Nat, vip : VmIPs \cup {0},
           ips : SUBSET VmIPs, ports : SUBSET WgPorts, active : BOOLEAN]
GwIdle == [pc |-> "idle", req |-> "tick", uid |-> 0, port |-> 0, key |-> 0, vip |-> 0,
           ips |-> {}, ports |-> {}, active |-> FALSE]

GwAt(pc) == sw.pc = pc
GwGo(pc) == sw' = [sw EXCEPT !.pc = pc] /\ UNCHANGED qs
GwDone   == sw' = GwIdle /\ UNCHANGED qs
GwFail   == sw' = GwIdle /\ qs' = qs \cup ({sw.req} \ {"tick"})

gwRest == <<objects, qp, pw, left>>

isReady(g) == gw[g].ready
getWireguardPrivateKey(g) == sec[g]

(* Reconcile up to the first call: a gateway that is deleted is cleaned up *)
(* after while it is still there; a missing secret is an error.            *)
GwStart(g) ==
  LET o == gw[g]
      mine == isReady(g) /\ applyToNode(g)
  IN
  /\ GwAt("idle") /\ g \in qs
  /\ UNCHANGED <<gwRest, kernel, probe, gs, cgs>>
  /\ \/ ~mine /\ qs' = qs \ {g} /\ UNCHANGED sw
     \/ /\ mine /\ o.del
        /\ qs' = qs \ {g} /\ sw' = [GwIdle EXCEPT !.pc = "list", !.req = g]
     \/ /\ mine /\ ~o.del /\ getWireguardPrivateKey(g) = 0
        /\ qs' = qs \ {g} /\ sw' = [GwIdle EXCEPT !.pc = "error", !.req = g]
     \/ /\ mine /\ ~o.del /\ getWireguardPrivateKey(g) # 0
        /\ qs' = qs \ {g}
        /\ sw' = [GwIdle EXCEPT !.pc = "ilb", !.req = g, !.uid = o.uid, !.port = o.port,
                                !.key = getWireguardPrivateKey(g)]

GwError == GwAt("error") /\ GwFail /\ UNCHANGED <<gwRest, kernel, probe, gs, cgs>>

(* The ticker's request: cleanUp.                                          *)
GwTick ==
  /\ GwAt("idle")
  /\ sw' = [GwIdle EXCEPT !.pc = "list"]
  /\ UNCHANGED <<gwRest, qs, kernel, probe, gs, cgs>>

reconcileIlbIPOnHost ==
  /\ GwAt("ilb") /\ GwGo("host")
  /\ host' = [host EXCEPT !.ilb = TRUE]
  /\ UNCHANGED <<gwRest, links, routes, ns, probe, gs, cgs>>

removeSecondaryIpFromHost(h, ip) == [h EXCEPT !.eth0 = @ \ {ip}]
ensureIPTablesChain(h, ip) == [h EXCEPT !.chain = TRUE, !.nosnat = @ \cup {ip}]

(* getVMIP, removeSecondaryIpFromHost and the two chains on the host.      *)
GwHost ==
  LET ip == getVMIP(sw.req) IN
  /\ GwAt("host")
  /\ UNCHANGED <<gwRest, links, routes, ns, probe, gs, cgs>>
  /\ \/ ip = 0 /\ GwFail /\ UNCHANGED host
     \/ /\ ip # 0
        /\ host' = ensureIPTablesChain(removeSecondaryIpFromHost(host, ip), ip)
        /\ sw' = [sw EXCEPT !.pc = "link", !.vip = ip] /\ UNCHANGED qs

(* A link that is not in the namespace is added in the host's and then     *)
(* moved; one of its name in the host's makes LinkAdd fail.                *)
createWireguardLink ==
  LET p == sw.port IN
  /\ GwAt("link")
  /\ UNCHANGED <<gwRest, links, routes, ns, probe, gs, cgs>>
  /\ \/ Linked(p) /\ GwGo("key") /\ UNCHANGED host
     \/ ~Linked(p) /\ p \in host.wg /\ GwFail /\ UNCHANGED host
     \/ ~Linked(p) /\ p \notin host.wg /\ GwGo("move") /\ host' = [host EXCEPT !.wg = @ \cup {p}]

GwMoveLink ==
  /\ GwAt("move") /\ GwGo("key")
  /\ host' = [host EXCEPT !.wg = @ \ {sw.port}]
  /\ links' = [links EXCEPT ![sw.port] = [NoLink EXCEPT !.alias = sw.uid]]
  /\ UNCHANGED <<gwRest, routes, ns, probe, gs, cgs>>

(* A link that is there keeps its alias and its peers.                     *)
reconcileWireguardLink ==
  /\ GwAt("key") /\ GwGo("veth")
  /\ links' = [links EXCEPT ![sw.port].key = sw.key]
  /\ UNCHANGED <<gwRest, routes, ns, host, probe, gs, cgs>>

reconcileVethPairInHost(h, ip) == [h EXCEPT !.veth = TRUE, !.routes = @ \cup {ip}]

reconcileVethPair ==
  /\ GwAt("veth") /\ GwGo("snat")
  /\ host' = reconcileVethPairInHost(host, sw.vip)
  /\ ns' = [ns EXCEPT !.host0 = @ \cup {sw.vip}]
  /\ UNCHANGED <<gwRest, links, routes, probe, gs, cgs>>

(* The last part of configureGatewayNamespace.                             *)
GwSnat ==
  /\ GwAt("snat") /\ GwGo("publish")
  /\ ns' = [ns EXCEPT !.snat[sw.port] = sw.vip]
  /\ UNCHANGED <<gwRest, links, routes, host, probe, gs, cgs>>

(* updateGatewayNodeStatus: an entry is looked up by its interface, and    *)
(* goes with the peers of the interface.                                   *)
WithGateway(s, p, g) ==
  IF s.there /\ s.gws[p] # None THEN s ELSE [s EXCEPT !.there = TRUE, !.gws[p] = g]
WithoutGateway(s, p) == [s EXCEPT !.gws[p] = None, !.peers = {x \in @ : x.port # p}]

AddGateway(uid)    == probe' = probe \cup {uid}
RemoveGateway(uid) == probe' = probe \ {uid}

(* Faulty variant: done when the interface is recorded already.            *)
GwPublish_Found ==
  LET new == WithGateway(cgs, sw.port, sw.req) IN
  /\ GwAt("publish")
  /\ UNCHANGED <<gwRest, kernel>>
  /\ \/ ~CanUpdate(new) /\ GwFail /\ UNCHANGED <<probe, gs, cgs>>
     \/ new # cgs /\ CanUpdate(new) /\ UpdateStatus(new) /\ AddGateway(sw.uid) /\ GwDone
     \/ new = cgs /\ GwDone /\ UNCHANGED <<probe, gs, cgs>>

GwPublish ==
  LET new == WithGateway(cgs, sw.port, sw.req) IN
  /\ GwAt("publish")
  /\ UNCHANGED <<gwRest, kernel>>
  /\ \/ ~CanUpdate(new) /\ GwFail /\ UNCHANGED <<probe, gs, cgs>>
     \/ CanUpdate(new) /\ UpdateStatus(new) /\ AddGateway(sw.uid) /\ GwDone

-----------------------------------------------------------------------------
(* cleanUp.  Its lists are taken once; each orphan is then removed by      *)
(* itself, and an error only skips the rest of that orphan.                *)

(* The gateways whose configuration is to stay.                            *)
Active == {g \in Gws : Live(g) /\ getVMIP(g) # 0}

KeptIPs   == {getVMIP(g) : g \in Active}
KeptLinks == {gw[g].port : g \in Active}

(* Faulty variant: addresses go only with the last gateway.                *)
GwList_IpsLast ==
  /\ GwAt("list")
  /\ UNCHANGED <<gwRest, kernel, probe, gs, cgs>>
  /\ \/ ~host.veth /\ GwFail
     \/ /\ host.veth
        /\ sw' = [sw EXCEPT !.pc = "ips",
                            !.ips = IF Active = {} THEN ns.host0 ELSE {},
                            !.ports = {p \in WgPorts : Linked(p)} \ KeptLinks,
                            !.active = Active # {}]
        /\ UNCHANGED qs

GwList ==
  /\ GwAt("list")
  /\ UNCHANGED <<gwRest, kernel, probe, gs, cgs>>
  /\ \/ ~host.veth /\ GwFail                 \* host0 is not found
     \/ /\ host.veth
        /\ sw' = [sw EXCEPT !.pc = "ips",
                            !.ips = ns.host0 \ KeptIPs,
                            !.ports = {p \in WgPorts : Linked(p)} \ KeptLinks,
                            !.active = Active # {}]
        /\ UNCHANGED qs

(* ensureDeleteIP: the address leaves host0, then its host routes and its  *)
(* chain go.                                                               *)
ensureDeleteIP(ip) ==
  /\ GwAt("ips") /\ ip \in sw.ips
  /\ sw' = [sw EXCEPT !.pc = "unroute", !.vip = ip] /\ UNCHANGED qs
  /\ ns' = [ns EXCEPT !.host0 = @ \ {ip}]
  /\ UNCHANGED <<gwRest, links, routes, host, probe, gs, cgs>>

GwNextIp ==
  sw' = [sw EXCEPT !.pc = "ips", !.ips = @ \ {sw.vip}, !.vip = 0] /\ UNCHANGED qs

GwUnroute ==
  /\ GwAt("unroute") /\ GwNextIp
  /\ host' = [host EXCEPT !.routes = @ \ {sw.vip}, !.nosnat = @ \ {sw.vip}]
  /\ UNCHANGED <<gwRest, links, routes, ns, probe, gs, cgs>>

GwIpsDone ==
  /\ GwAt("ips") /\ sw.ips = {} /\ GwGo("links")
  /\ UNCHANGED <<gwRest, kernel, probe, gs, cgs>>

(* ensureDeleteLink: the link goes with its peers and routes, then its     *)
(* chains, its entries in GatewayStatus, and the gateway from the probe.   *)
ensureDeleteLink(p) ==
  /\ GwAt("links") /\ p \in sw.ports
  /\ sw' = [sw EXCEPT !.pc = "unsnat", !.port = p, !.uid = links[p].alias] /\ UNCHANGED qs
  /\ links' = [links EXCEPT ![p] = NoLink]
  /\ routes' = [ip \in PodIPs |-> IF routes[ip] = p THEN 0 ELSE routes[ip]]
  /\ UNCHANGED <<gwRest, ns, host, probe, gs, cgs>>

removeIPTablesChains(n, p) == [n EXCEPT !.snat[p] = 0]

(* Faulty variant: the chains stay.                                        *)
GwUnsnat_Stay ==
  GwAt("unsnat") /\ GwGo("unpublish") /\ UNCHANGED <<gwRest, kernel, probe, gs, cgs>>

GwUnsnat ==
  /\ GwAt("unsnat") /\ GwGo("unpublish")
  /\ ns' = removeIPTablesChains(ns, sw.port)
  /\ UNCHANGED <<gwRest, links, routes, host, probe, gs, cgs>>

(* The next link, whether or not this one was dealt with in full.          *)
GwNextLink ==
  sw' = [sw EXCEPT !.pc = "links", !.ports = @ \ {sw.port}, !.port = 0, !.uid = 0]
    /\ UNCHANGED qs

GwUnpublish ==
  LET new == WithoutGateway(cgs, sw.port) IN
  /\ GwAt("unpublish") /\ GwNextLink
  /\ UNCHANGED <<gwRest, kernel>>
  /\ \/ ~CanUpdate(new) /\ UNCHANGED <<probe, gs, cgs>>
     \/ CanUpdate(new) /\ UpdateStatus(new) /\ RemoveGateway(sw.uid)

GwLinksDone ==
  /\ GwAt("links") /\ sw.ports = {}
  /\ IF sw.active THEN GwDone ELSE GwGo("wipe")
  /\ UNCHANGED <<gwRest, kernel, probe, gs, cgs>>

(* No gateway is left: the load balancer's address and the chain go too.   *)
GwWipe ==
  /\ GwAt("wipe") /\ GwDone
  /\ host' = [host EXCEPT !.ilb = FALSE, !.chain = FALSE, !.nosnat = {}]
  /\ UNCHANGED <<gwRest, links, routes, ns, probe, gs, cgs>>

GwStep ==
  \/ GwError \/ reconcileIlbIPOnHost \/ GwHost \/ createWireguardLink \/ GwMoveLink
  \/ reconcileWireguardLink \/ reconcileVethPair
  \/ GwSnat \/ GwPublish \/ GwList \/ GwUnroute \/ GwIpsDone \/ GwUnsnat \/ GwUnpublish
  \/ GwLinksDone \/ GwWipe
  \/ \E ip \in VmIPs : ensureDeleteIP(ip)
  \/ \E p \in WgPorts : ensureDeleteLink(p)

(* A call fails.  reconcile and the ends of cleanUp return the error, and  *)
(* createWireguardLink deletes the link it added; inside cleanUp's loops   *)
(* the error is logged.                                                    *)
GwFault ==
  /\ sw.pc \notin {"idle", "error"} /\ Spend("fault")
  /\ host' = IF sw.pc = "move" THEN [host EXCEPT !.wg = @ \ {sw.port}] ELSE host
  /\ UNCHANGED <<objects, qp, pw, links, routes, ns, probe, gs, cgs>>
  /\ CASE sw.pc = "ips" -> /\ sw.ips # {}
                           /\ \E ip \in sw.ips : sw' = [sw EXCEPT !.ips = @ \ {ip}]
                           /\ UNCHANGED qs
       [] sw.pc = "links" -> /\ sw.ports # {}
                             /\ \E p \in sw.ports : sw' = [sw EXCEPT !.ports = @ \ {p}]
                             /\ UNCHANGED qs
       [] sw.pc = "unroute" -> GwNextIp
       [] sw.pc \in {"unsnat", "unpublish"} -> GwNextLink
       [] OTHER -> GwFail
=============================================================================
