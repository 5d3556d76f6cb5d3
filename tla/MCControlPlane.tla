--------------------------- MODULE MCControlPlane ----------------------------
(* Instances of ControlPlane: budgets of environment events and the specs  *)
(* users write.                                                            *)
EXTENDS Ownership, ControlPlane

CONSTANTS Creates, Deletes, Edits, Kills, Faults, Restarts, Nodes, PoolLosses

MCBudget == [create |-> Creates, delete |-> Deletes, edit |-> Edits, kill |-> Kills,
             fault |-> Faults, restart |-> Restarts, node |-> Nodes,
             poolloss |-> PoolLosses]

OneSpec   == [pool : Pools, public : {TRUE}, byo : {FALSE}]
(* All of them in one pool, a managed prefix in the others.                *)
EditSpecs == {sp \in GwSpec : sp.pool = CHOOSE p \in Pools : TRUE} \cup OneSpec

(* A start in which the gateway Old is up already, on a quiet system: the  *)
(* state Spec reaches once CreateGateway(Old, sp) is reconciled.           *)
CONSTANT Old

(* Apart: failing calls and pool losses happen in behaviours of their own, *)
(* without restarts and node events.                                       *)
CONSTANT Apart

Budgets ==
  IF Apart THEN {[Budget EXCEPT !["fault"] = 0, !["poolloss"] = 0],
                 [Budget EXCEPT !["restart"] = 0, !["node"] = 0]}
  ELSE {Budget}

WarmInit ==
  \E sp \in UserSpecs :
    LET port == PortStart
        id == <<Old, 1>>
        Up(none, o) == [s \in Names |-> IF s = Old THEN o ELSE none]
    IN
    /\ sgc = Up(NoSgc, [uid |-> 1, del |-> FALSE, fin |-> TRUE, spec |-> sp,
                        key |-> 1, port |-> port, prefix |-> Egress(sp)])
    /\ lbc = Up(NoLbc, [uid |-> 1, owner |-> 1, del |-> FALSE, fin |-> TRUE,
                        spec |-> sp, port |-> port, prefix |-> Egress(sp)])
    /\ vmc = Up(NoVmc, [uid |-> 1, owner |-> 1, del |-> FALSE, fin |-> TRUE,
                        spec |-> sp, st |-> TRUE, prefix |-> Egress(sp)])
    /\ sec = [s \in Names |-> [u \in SgcUids |-> IF s = Old /\ u = 1 THEN 1 ELSE 0]]
    /\ csgc = sgc /\ clbc = lbc /\ cvmc = vmc /\ csec = sec
    /\ dirty = {} /\ queue = [k \in Kinds |-> {}]
    /\ ws = [s \in Names |-> SgcIdle]
    /\ wl = [s \in Names |-> LbcIdle]
    /\ wv = [s \in Names |-> VmcIdle]
    /\ lb = WithRule(NoLB, id, sp.pool)
    /\ vmss = [p \in Pools |->
                IF p = sp.pool
                  THEN [cfgs |-> {[id |-> id, egress |-> Egress(sp)]}, backend |-> TRUE]
                  ELSE [cfgs |-> {}, backend |-> FALSE]]
    /\ prefixes = {x \in {id} : Egress(sp) = "managed"}
    /\ nodepools = Pools
    /\ uids = [s \in Names |-> [k \in Kinds |-> IF s = Old THEN 1 ELSE 0]]
    /\ keys = [s \in Names |-> IF s = Old THEN 1 ELSE 0]
    /\ \E b \in Budgets : left = [b EXCEPT !["create"] = @ - 1]

(* The load balancer of the manager behaves like GatewayLB: UIDs beyond    *)
(* MaxUid are out of these instances' reach.                               *)
MaxUid == Creates + Kills
Rules == INSTANCE GatewayLB WITH Ids <- Names \X (1 .. MaxUid)

(* Whatever the three controllers, users and failures do, the load         *)
(* balancer only takes the steps of GatewayLB.                             *)
LBRefines == Rules!LBSpec

WarmSpec == WarmInit /\ [][Next]_vars
WarmFairSpec == WarmSpec /\ Fairness /\ QueueFairness
=============================================================================
