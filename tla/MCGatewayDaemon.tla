--------------------------- MODULE MCGatewayDaemon ---------------------------
EXTENDS GatewayDaemon
CONSTANTS Creates, Deletes, Vips, Rotates, Moves, NPods, Faults, Restarts, Reboots,
          Total
MCBudget == [create |-> Creates, ready |-> 0, delete |-> Deletes, vip |-> Vips, rotate |-> Rotates,
             move |-> Moves, pod |-> NPods, fault |-> Faults, restart |-> Restarts,
             reboot |-> Reboots, any |-> Total]

(* A later start: every gateway has been up for a while and is served.     *)
WarmPort == CHOOSE f \in [Gws -> WgPorts] : \A g, h \in Gws : g # h => f[g] # f[h]
WarmIp   == CHOOSE f \in [Gws -> VmIPs] : \A g, h \in Gws : g # h => f[g] # f[h]
WarmInit ==
  LET status == [there |-> TRUE, peers |-> {}, gws |-> [p \in WgPorts |->
                   IF \E g \in Gws : WarmPort[g] = p THEN CHOOSE g \in Gws : WarmPort[g] = p
                   ELSE None]]
      ips == {WarmIp[g] : g \in Gws}
  IN
  /\ gw = [g \in Gws |-> [uid |-> WarmPort[g], port |-> WarmPort[g], key |-> WarmPort[g],
                          ready |-> TRUE, here |-> TRUE, del |-> FALSE]]
  /\ vip = WarmIp /\ sec = [g \in Gws |-> gw[g].key]
  /\ pods = [e \in Pods |-> [key |-> 0, gw |-> CHOOSE g \in Gws : TRUE, ip |-> 0]]
  /\ qs = {} /\ qp = {} /\ sw = GwIdle /\ pw = PepIdle
  /\ links = [p \in WgPorts |-> IF status.gws[p] = None THEN NoLink
                                ELSE [alias |-> p, key |-> p, peers |-> {}]]
  /\ routes = [ip \in PodIPs |-> 0]
  /\ ns = [host0 |-> ips, snat |-> [p \in WgPorts |->
             IF status.gws[p] = None THEN 0 ELSE WarmIp[status.gws[p]]]]
  /\ host = [ilb |-> TRUE, eth0 |-> {}, chain |-> TRUE, nosnat |-> ips, routes |-> ips, veth |-> TRUE,
             wg |-> {}]
  /\ probe = {gw[g].uid : g \in Gws} /\ gs = status /\ cgs = status
  /\ left = Budget

WarmSpec == WarmInit /\ [][Next]_vars /\ Fairness
=============================================================================
