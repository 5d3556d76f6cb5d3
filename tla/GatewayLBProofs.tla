--------------------------- MODULE GatewayLBProofs ---------------------------
(***************************************************************************)
(* The load balancer's invariants hold for any number of gateways, pools   *)
(* and ports, whatever the order of the reconcileLBRule calls.             *)
(***************************************************************************)
EXTENDS GatewayLB, WellFoundedInduction, TLAPS

-----------------------------------------------------------------------------
(* The port reconcileLBRule gives a rule.                                  *)

(* selectPortForLBRule returns a free port whenever the pool has one.      *)
LEMMA SelectedPortIsFree ==
  ASSUME NEW rules, NEW p, FreePorts(rules, p) # {}
  PROVE  selectPortForLBRule(rules, p) \in FreePorts(rules, p)
<1> DEFINE F    == FreePorts(rules, p)
           Less == {ss \in Nat \X Nat : ss[1] < ss[2]}
<1>1. F \in SUBSET Nat /\ F # {}
  BY PortsAssumption DEF FreePorts, Ports
<1>2. IsWellFoundedOn(Less, Nat)
  BY NatLessThanWellFounded DEF OpToRel
<1>3. PICK q \in F : \A x \in F : ~(<<x, q>> \in Less)
  <2> HIDE DEF F, Less
  <2> QED
    BY <1>1, <1>2, WFMin
<1>4. \A x \in F : q <= x
  <2> TAKE x \in F
  <2>1. x \in Nat /\ q \in Nat
    BY <1>1
  <2>2. ~(x < q)
    <3>1. <<x, q>> \notin Less
      BY <1>3
    <3>2. <<x, q>> \in Nat \X Nat /\ <<x, q>>[1] = x /\ <<x, q>>[2] = q
      BY <2>1
    <3> QED
      BY <3>1, <3>2
  <2> QED
    BY <2>1, <2>2
<1> QED
  BY <1>4 DEF selectPortForLBRule

(* The port a rule gets lies in the wireguard range.                       *)
LEMMA PortForInRange ==
  ASSUME NEW b, NEW I, NEW id \in I, NEW p \in Pools,
         b.rules \subseteq [id : I, pool : Pools, port : Ports],
         ~NoPortFor(b, id, p)
  PROVE  PortFor(b, id, p) \in Ports
<1>1. CASE KeptRules(b, id, p) # {}
  BY <1>1 DEF PortFor, KeptRules, OwnRules
<1>2. CASE KeptRules(b, id, p) = {}
  BY <1>2, SelectedPortIsFree DEF PortFor, NoPortFor, FreePorts
<1> QED
  BY <1>1, <1>2

(* No other rule of the pool has it.                                       *)
LEMMA PortForFresh ==
  ASSUME NEW b, NEW I, NEW id \in I, NEW p \in Pools,
         b.rules \subseteq [id : I, pool : Pools, port : Ports],
         \A r1, r2 \in b.rules : r1.pool = r2.pool /\ r1.port = r2.port => r1 = r2,
         ~NoPortFor(b, id, p)
  PROVE  \A r \in OtherRules(b, id) : r.pool = p => r.port # PortFor(b, id, p)
<1>1. CASE KeptRules(b, id, p) # {}
  <2>1. PICK r \in KeptRules(b, id, p) : PortFor(b, id, p) = r.port
    BY <1>1 DEF PortFor
  <2>2. r \in b.rules /\ r.id = id /\ r.pool = p
    BY <2>1 DEF KeptRules, OwnRules
  <2> QED
    BY <2>1, <2>2 DEF OtherRules
<1>2. CASE KeptRules(b, id, p) = {}
  <2>1. FreePorts(OtherRules(b, id), p) # {}
    BY <1>2 DEF NoPortFor
  <2>2. PortFor(b, id, p) \in FreePorts(OtherRules(b, id), p)
    BY <1>2, <2>1, SelectedPortIsFree DEF PortFor
  <2> QED
    BY <2>2 DEF FreePorts
<1> QED
  BY <1>1, <1>2

-----------------------------------------------------------------------------
(* Before the first call there is no load balancer.                        *)
LEMMA InitLBInv == Init => LBInv
BY DEF Init, NoLB, LBInv, LBTypeOK, DistinctPorts, RulesSupported

(* Adding a rule, or finding it there, keeps the invariant: the port       *)
(* PortFor returns is fresh in its pool.                                   *)
LEMMA EnsureRuleLBInv ==
  ASSUME LBInv, NEW id \in Ids, NEW p \in Pools, EnsureRule(id, p)
  PROVE  LBInv'
<1> DEFINE port == PortFor(lb, id, p)
           new  == [id |-> id, pool |-> p, port |-> port]
<1>1. /\ port \in Ports
      /\ \A r \in OtherRules(lb, id) : r.pool = p => r.port # port
  <2>1. lb.rules \subseteq [id : Ids, pool : Pools, port : Ports]
    BY DEF LBInv, LBTypeOK, RuleRec
  <2> QED
    BY <2>1, PortForInRange, PortForFresh DEF LBInv, DistinctPorts, EnsureRule
<1>2. lb' = [fronts |-> lb.fronts \cup {p}, backs |-> lb.backs \cup {p},
             rules |-> OtherRules(lb, id) \cup {new}, probes |-> lb.probes \cup {id}]
  BY DEF EnsureRule, WithRule
<1> HIDE DEF port
<1>3. LBTypeOK'
  BY <1>1, <1>2 DEF LBInv, LBTypeOK, RuleRec, OtherRules
<1>4. DistinctPorts'
  BY <1>1, <1>2 DEF LBInv, DistinctPorts, OtherRules
<1>5. RulesSupported'
  <2>1. \A r \in lb'.rules : r.pool \in lb'.fronts \cap lb'.backs
    BY <1>2 DEF LBInv, RulesSupported, OtherRules
  <2>2. \A r1, r2 \in lb'.rules : r1.id = r2.id => r1 = r2
    BY <1>2 DEF LBInv, RulesSupported, OtherRules
  <2>3. lb'.probes = {r.id : r \in lb'.rules}
    <3>1. \A i : i \in lb.probes <=> \E r \in lb.rules : r.id = i
      BY DEF LBInv, RulesSupported
    <3>2. \A i : i \in lb'.probes <=> \E r \in lb'.rules : r.id = i
      <4> TAKE i
      <4>1. new \in lb'.rules /\ new.id = id /\ id \in lb'.probes
        BY <1>2
      <4>2. CASE i = id
        BY <4>1, <4>2
      <4>3. CASE i # id
        <5>1. i \in lb'.probes <=> i \in lb.probes
          BY <1>2, <4>3
        <5>2. (\E r \in lb'.rules : r.id = i) <=> (\E r \in lb.rules : r.id = i)
          BY <1>2, <4>3 DEF OtherRules
        <5> QED
          BY <3>1, <5>1, <5>2
      <4> QED
        BY <4>2, <4>3
    <3> QED
      BY <3>2
  <2> QED
    BY <2>1, <2>2, <2>3 DEF RulesSupported
<1> QED
  BY <1>3, <1>4, <1>5 DEF LBInv

(* Removing a rule keeps it: a frontend goes only with its last rule.      *)
LEMMA RemoveRuleLBInv ==
  ASSUME LBInv, NEW id \in Ids, NEW p \in Pools, RemoveRule(id, p)
  PROVE  LBInv'
<1>1. CASE lb' = NoLB
  BY <1>1 DEF NoLB, LBInv, LBTypeOK, DistinctPorts, RulesSupported
<1>2. CASE lb' # NoLB
  <2>1. /\ lb'.rules = OtherRules(lb, id)
        /\ lb'.probes = lb.probes \ {id}
        /\ \/ lb'.fronts = lb.fronts /\ lb'.backs = lb.backs
           \/ /\ lb'.fronts = lb.fronts \ {p} /\ lb'.backs = lb.backs \ {p}
              /\ ~ \E r \in OtherRules(lb, id) : r.pool = p
        /\ lb' = [fronts |-> lb'.fronts, backs |-> lb'.backs,
                  rules |-> lb'.rules, probes |-> lb'.probes]
    BY <1>2 DEF RemoveRule, WithoutRule
  <2>2. LBTypeOK'
    BY <2>1 DEF LBInv, LBTypeOK, OtherRules
  <2>3. DistinctPorts'
    BY <2>1 DEF LBInv, DistinctPorts, OtherRules
  <2>4. RulesSupported'
    BY <2>1 DEF LBInv, RulesSupported, OtherRules
  <2> QED
    BY <2>2, <2>3, <2>4 DEF LBInv
<1> QED
  BY <1>1, <1>2

(* Ports of one backend stay distinct and in range, and every rule keeps   *)
(* its frontend, backend and probe, in all states reconcileLBRule reaches. *)
THEOREM LBInvariant == LBSpec => []LBInv
<1>1. LBInv /\ [Next]_lb => LBInv'
  <2> SUFFICES ASSUME LBInv, [Next]_lb PROVE LBInv'
    OBVIOUS
  <2>1. CASE UNCHANGED lb
    BY <2>1 DEF LBInv, LBTypeOK, DistinctPorts, RulesSupported
  <2>2. CASE Next
    BY <2>2, EnsureRuleLBInv, RemoveRuleLBInv DEF Next
  <2> QED
    BY <2>1, <2>2
<1> QED
  BY <1>1, InitLBInv, PTL DEF LBSpec

(* A repeated reconcile keeps a gateway's listening port.                  *)
THEOREM LBPortsStable == LBSpec => PortsStable
<1> DEFINE Stable == \A r1 \in lb.rules, r2 \in lb'.rules :
                       r1.id = r2.id /\ r1.pool = r2.pool => r1.port = r2.port
<1>1. LBInv /\ [Next]_lb => [Stable]_lb
  <2> SUFFICES ASSUME LBInv, Next, NEW r1 \in lb.rules, NEW r2 \in lb'.rules,
                      r1.id = r2.id, r1.pool = r2.pool
               PROVE  r1.port = r2.port
    OBVIOUS
  <2>1. \A r3 \in lb.rules : r3.id = r1.id => r3 = r1
    BY DEF LBInv, RulesSupported
  <2>2. ASSUME NEW id \in Ids, NEW p \in Pools, EnsureRule(id, p)
        PROVE  r1.port = r2.port
    <3>1. CASE r2 \in OtherRules(lb, id)
      BY <2>1, <3>1 DEF OtherRules
    <3>2. CASE r2 = [id |-> id, pool |-> p, port |-> PortFor(lb, id, p)]
      <4>1. r1 \in KeptRules(lb, id, p)
        BY <3>2 DEF KeptRules, OwnRules
      <4>2. \A r \in KeptRules(lb, id, p) : r = r1
        BY <2>1, <4>1 DEF KeptRules, OwnRules
      <4> QED
        BY <3>2, <4>1, <4>2 DEF PortFor
    <3> QED
      BY <2>2, <3>1, <3>2 DEF EnsureRule, WithRule
  <2>3. ASSUME NEW id \in Ids, NEW p \in Pools, RemoveRule(id, p)
        PROVE  r1.port = r2.port
    <3>1. r2 \in lb.rules
      BY <2>3 DEF RemoveRule, WithoutRule, NoLB, OtherRules
    <3> QED
      BY <2>1, <3>1
  <2> QED
    BY <2>2, <2>3 DEF Next
<1> QED
  BY <1>1, LBInvariant, PTL DEF LBSpec, PortsStable
=============================================================================
