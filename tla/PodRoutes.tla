------------------------------ MODULE PodRoutes ------------------------------
(***************************************************************************)
(* SetPodRoutes: how the CNI plugin divides a pod's traffic between eth0   *)
(* and the wireguard link.  An address is one of 0..2^Bits-1, a CIDR the   *)
(* block of addresses it stands for; a routing table maps blocks to where  *)
(* their packets go, and the smallest block with an address decides.       *)
(***************************************************************************)
EXTENDS Integers, SequencesExt

CONSTANTS
  Bits,      \* width of an address
  Gw,        \* address of the original default gateway
  Linked,    \* blocks that may be on eth0's link at first
  Excepted,  \* blocks a gateway configuration may exclude
  Excluded,  \* blocks the CNI configuration may exclude
  MaxFaults  \* calls that may fail

Addresses == 0..(2^Bits - 1)
Block(n, k) == (n * 2^k)..((n + 1) * 2^k - 1)
Blocks == {Block(n, k) : n \in Addresses, k \in 0..Bits} \cap SUBSET Addresses

ASSUME RouteConstants ==
  /\ Bits \in Nat /\ MaxFaults \in Nat /\ Gw \in Addresses
  /\ Linked \cup Excepted \cup Excluded \subseteq Blocks

VARIABLES
  toGateway, \* the configuration's default route is the gateway
  exceptions,\* its excluded CIDRs, in their order
  excluded,  \* those of the CNI configuration
  found,     \* eth0's routes as they were listed
  main,      \* the main routing table
  marked,    \* the table of marked packets
  chain,     \* rules of the PREROUTING and OUTPUT chains, in their order
  rule,      \* marked packets look their route up in marked
  result,    \* destinations of the routes reported to the runtime
  todo,      \* CIDRs still to be routed
  pc,        \* where SetPodRoutes is
  faults     \* calls that have failed

conf == <<toGateway, exceptions, excluded, found>>
vars == <<toGateway, exceptions, excluded, found, main, marked, chain, rule, result, todo, pc, faults>>

None  == "none"
Empty == [b \in Blocks |-> None]
Routed(table) == {b \in Blocks : table[b] # None}
Lookup(table, a) ==
  LET B == {b \in Routed(table) : a \in b}
  IN  IF B = {} THEN None ELSE table[CHOOSE b \in B : \A c \in B : b \subseteq c]

(* The main CNI's routes: the default one through Gw, or none as yet, and  *)
(* some that are on the link, Gw's among them.                             *)
Originals ==
  {[b \in Blocks |-> IF b \in L THEN "link" ELSE IF b = Addresses THEN d ELSE None] :
     d \in {"eth0", None}, L \in {M \in SUBSET Linked : Gw \in UNION M}}

Init ==
  /\ toGateway \in BOOLEAN /\ excluded \in {<<b>> : b \in Excluded} \cup {<<>>}
  /\ exceptions \in {<<>>} \cup {<<b>> : b \in Excepted} \cup (Excepted \X Excepted)
  /\ main \in Originals /\ found = main /\ result = Routed(main)
  /\ marked = Empty /\ chain = <<>> /\ rule = FALSE
  /\ todo = <<>> /\ pc = "list" /\ faults = 0

(* The kernel accepts a route through Gw only with Gw on a link.           *)
Reachable == \E b \in Routed(main) : Gw \in b /\ main[b] = "link"
Step(from, to) == pc = from /\ pc' = to /\ UNCHANGED <<conf, faults>>

-----------------------------------------------------------------------------
(* Without a default route there is nothing to build on.                   *)
List ==
  /\ found[Addresses] = "eth0"
  /\ todo' = IF toGateway THEN exceptions \o excluded ELSE exceptions
  /\ Step("list", IF toGateway THEN "delete" ELSE "except")
  /\ UNCHANGED <<main, marked, chain, rule, result>>

(* Faulty variant: the reported routes are kept.                           *)
DeleteRoutes_KeepResult ==
  /\ Step("delete", "link") /\ main' = Empty
  /\ UNCHANGED <<marked, chain, rule, result, todo>>

DeleteRoutes ==
  /\ Step("delete", "link") /\ main' = Empty /\ result' = {}
  /\ UNCHANGED <<marked, chain, rule, todo>>

LinkRoute ==
  /\ Step("link", "default")
  /\ main' = [main EXCEPT ![{Gw}] = "link"] /\ result' = result \cup {{Gw}}
  /\ UNCHANGED <<marked, chain, rule, todo>>

DefaultRoute ==
  /\ Step("default", "except")
  /\ main' = [main EXCEPT ![Addresses] = "wg"] /\ result' = result \cup {Addresses}
  /\ UNCHANGED <<marked, chain, rule, todo>>

(* Faulty variant: routes are added, and one that is there stays.          *)
RouteException_Add ==
  /\ todo # <<>> /\ Step("except", "except") /\ todo' = Tail(todo)
  /\ (toGateway => Reachable)
  /\ main' = [main EXCEPT ![Head(todo)] = IF @ # None THEN @ ELSE IF toGateway THEN "eth0" ELSE "wg"]
  /\ result' = result \cup {Head(todo)}
  /\ UNCHANGED <<marked, chain, rule>>

(* One CIDR; a route that is there is replaced.                            *)
RouteException ==
  /\ todo # <<>> /\ Step("except", "except") /\ todo' = Tail(todo)
  /\ (toGateway => Reachable)
  /\ main' = [main EXCEPT ![Head(todo)] = IF toGateway THEN "eth0" ELSE "wg"]
  /\ result' = result \cup {Head(todo)}
  /\ UNCHANGED <<marked, chain, rule>>

(* Faulty variant: the mark is saved before it is set.                     *)
MarkRules_Swapped ==
  /\ todo = <<>> /\ Step("except", "rule") /\ chain' = <<"save", "set", "restore">>
  /\ UNCHANGED <<main, marked, rule, result, todo>>

(* addRoutingForIngress: the iptables rules, the ip rule, its table.       *)
MarkRules ==
  /\ todo = <<>> /\ Step("except", "rule") /\ chain' = <<"set", "save", "restore">>
  /\ UNCHANGED <<main, marked, rule, result, todo>>
RuleAdd ==
  /\ Step("rule", "table") /\ rule' = TRUE
  /\ UNCHANGED <<main, marked, chain, result, todo>>
TableRoute ==
  /\ Step("table", "done") /\ Reachable
  /\ marked' = [marked EXCEPT ![Addresses] = found[Addresses]]
  /\ UNCHANGED <<main, chain, rule, result, todo>>

(* A call fails, for a reason of its own or one of the above.              *)
Impossible ==
  \/ pc = "list" /\ found[Addresses] # "eth0"
  \/ pc = "except" /\ todo # <<>> /\ toGateway /\ ~Reachable
  \/ pc = "table" /\ ~Reachable
Fail ==
  /\ pc \notin {"done", "failed"} /\ pc' = "failed"
  /\ \/ Impossible /\ UNCHANGED faults
     \/ ~Impossible /\ faults < MaxFaults /\ faults' = faults + 1
  /\ UNCHANGED <<conf, main, marked, chain, rule, result, todo>>

Next == \/ List \/ DeleteRoutes \/ LinkRoute \/ DefaultRoute \/ RouteException
        \/ MarkRules \/ RuleAdd \/ TableRoute \/ Fail
Spec == Init /\ [][Next]_vars

-----------------------------------------------------------------------------
Done == pc = "done"
In(a, cidrs) == \E i \in DOMAIN cidrs : a \in cidrs[i]

(* When SetPodRoutes has succeeded for a pod whose default is the gateway, *)
(* a packet stays on eth0 if an exclusion of either configuration has its  *)
(* address or it is for the original gateway, and takes the wireguard link *)
(* otherwise, however the CIDRs overlap and whatever routes there were.    *)
GatewayByDefault ==
  Done /\ toGateway => \A a \in Addresses :
    (Lookup(main, a) = "wg") <=> ~(In(a, exceptions \o excluded) \/ a = Gw)

(* For a pod whose default is eth0, a packet takes the wireguard link when *)
(* the gateway configuration's exclusions have its address, unless a route *)
(* that eth0 had is more specific than they are.                           *)
EthByDefault ==
  Done /\ ~toGateway => \A a \in Addresses :
    (Lookup(main, a) = "wg") <=>
      \E i \in DOMAIN exceptions :
        /\ a \in exceptions[i]
        /\ \A b \in Routed(found) : a \in b => exceptions[i] \subseteq b

(* Every packet takes the interface that the configuration says.           *)
PacketsRouted == GatewayByDefault /\ EthByDefault

(* A connection's mark after a packet of it has come in, and the table its *)
(* replies are looked up in.                                               *)
Through(from) ==
  FoldLeft(LAMBDA m, r : CASE r = "set"  -> [m EXCEPT !.packet = (from = "eth0") \/ @]
                           [] r = "save" -> [m EXCEPT !.conn = m.packet]
                           [] OTHER      -> m,
           [packet |-> FALSE, conn |-> FALSE], chain)
Reply(from, a) == Lookup(IF rule /\ Contains(chain, "restore") /\ Through(from).conn THEN marked ELSE main, a)

(* Whatever came in by eth0 is answered by eth0 (addRoutingForIngress),    *)
(* also when the main table sends its peer's address to the gateway; what  *)
(* came in by the wireguard link is answered as the main table says.       *)
IngressReturns ==
  Done => \A a \in Addresses : /\ Reply("eth0", a) = "eth0"
                               /\ Reply("wg", a) = Lookup(main, a)

(* The result reported to the runtime has the pod's routes.                *)
ResultTruth == Done => result = Routed(main)

(* CNIConfig's comment: its excluded CIDRs always bypass the gateway.      *)
AlwaysBypass == Done => \A a \in Addresses : In(a, excluded) => Lookup(main, a) # "wg"
=============================================================================
