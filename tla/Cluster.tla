------------------------------- MODULE Cluster -------------------------------
(***************************************************************************)
(* The state the three controllers of the kube-egress-gateway manager      *)
(* share: the objects in the Kubernetes API server, the informer cache     *)
(* they read from, their work queues, and the Azure resources they write.  *)
(*                                                                         *)
(* A gateway is a (namespace, name) pair, a member of Names.  Its          *)
(* StaticGatewayConfiguration (sgc), GatewayLBConfiguration (lbc) and      *)
(* GatewayVMConfiguration (vmc) all carry that name.  An absent object is  *)
(* a record with uid 0; UIDs are counted per gateway and kind.             *)
(***************************************************************************)
EXTENDS LoadBalancer

CONSTANTS
  Names,       \* gateways (namespaced names)
  UserSpecs,   \* the specs users write
  Budget,      \* how often each environment event may happen
  Lagging,     \* kinds whose watch events may come late
  Resyncs      \* does the informers' periodic resync happen?

Kinds  == {"sgc", "lbc", "vmc"}
Events == {"create", "delete", "edit", "kill", "fault", "restart", "node",
           "poolloss"}

(* The fields of the specs that steer the controllers: the pool (node pool *)
(* name or VMSS profile), ProvisionPublicIps and a PublicIpPrefixId.       *)
GwSpec == [pool : Pools, public : BOOLEAN, byo : BOOLEAN]

ASSUME PoolsAssumption  == Pools # {}
ASSUME NamesAssumption  == Names \cap Pools = {}
ASSUME SpecsAssumption  == UserSpecs \subseteq GwSpec
ASSUME BudgetAssumption == Budget \in [Events -> Nat]
ASSUME LaggingAssumption == Lagging \subseteq Kinds \cup {"sec", "secdel"}
ASSUME ResyncAssumption == Resyncs \in BOOLEAN

(* UIDs of StaticGatewayConfigurations.                                    *)
SgcUids == 0 .. Budget["create"]

VARIABLES
  sgc, lbc, vmc,      \* API objects by gateway
  sec,                \* sec[s][u]: key in secret sgw-<u>, 0 when absent
  csgc, clbc, cvmc, csec,  \* the informer cache's copy of each
  dirty,              \* <<kind, gateway>>: watch events not yet delivered
  queue,              \* work queue of each controller
  ws, wl, wv,         \* per gateway, the reconcile in progress of each controller
  lb,                 \* the gateway internal load balancer
  vmss,               \* per pool: gateway ipConfigs and LB backend membership
  prefixes,           \* managed public IP prefixes, by owning vmc
  nodepools,          \* the pools that exist
  uids,               \* last UID given out, by gateway and kind
  keys,               \* number of wireguard keys generated, by gateway
  left                \* what remains of Budget

api   == <<sgc, lbc, vmc, sec>>
cache == <<csgc, clbc, cvmc, csec>>
azure == <<lb, vmss, prefixes, nodepools>>
vars  == <<sgc, lbc, vmc, sec, csgc, clbc, cvmc, csec, dirty, queue, ws, wl, wv,
           lb, vmss, prefixes, nodepools, uids, keys, left>>

-----------------------------------------------------------------------------
(* Objects.  ip and port of a status are set together, so port stands for  *)
(* both; prefix is the EgressIpPrefix, named by where it comes from.       *)

Prefixes == {"", "managed", "byo", "private"}
AnySpec  == CHOOSE sp \in GwSpec : TRUE

SgcObj == [uid : SgcUids, del : BOOLEAN, fin : BOOLEAN, spec : GwSpec,
           key : Nat, port : Nat, prefix : Prefixes]
LbcObj == [uid : Nat, owner : Nat, del : BOOLEAN, fin : BOOLEAN, spec : GwSpec,
           port : Nat, prefix : Prefixes]
VmcObj == [uid : Nat, owner : Nat, del : BOOLEAN, fin : BOOLEAN, spec : GwSpec,
           st : BOOLEAN, prefix : Prefixes]

NoSgc == [uid |-> 0, del |-> FALSE, fin |-> FALSE, spec |-> AnySpec,
          key |-> 0, port |-> 0, prefix |-> ""]
NoLbc == [uid |-> 0, owner |-> 0, del |-> FALSE, fin |-> FALSE,
          spec |-> AnySpec, port |-> 0, prefix |-> ""]
NoVmc == [uid |-> 0, owner |-> 0, del |-> FALSE, fin |-> FALSE,
          spec |-> AnySpec, st |-> FALSE, prefix |-> ""]

Is(o) == o.uid # 0

(* The API server's delete: an object with a finalizer is only marked.     *)
Deleted(o, none) == IF o.fin THEN [o EXCEPT !.del = TRUE] ELSE none

(* A write that changes an object leaves a watch event to deliver.         *)
Pending(k, s, old, new) ==
  dirty' = IF old = new THEN dirty ELSE dirty \cup {<<k, s>>}
PutSgc(s, o) == sgc' = [sgc EXCEPT ![s] = o] /\ Pending("sgc", s, sgc[s], o)
PutLbc(s, o) == lbc' = [lbc EXCEPT ![s] = o] /\ Pending("lbc", s, lbc[s], o)
PutVmc(s, o) == vmc' = [vmc EXCEPT ![s] = o] /\ Pending("vmc", s, vmc[s], o)

(* A JSON merge patch carries the fields in which want differs from base.  *)
Merge(base, want, actual) ==
  [f \in DOMAIN actual |-> IF base[f] = want[f] THEN actual[f] ELSE want[f]]

(* Faulty variant: an object that is there is never patched.               *)
CreateOrPatch_CreateOnly(cached, actual, none, owner, spec, uid) ==
  LET made == [none EXCEPT !.uid = uid, !.owner = owner, !.spec = spec]
      here == [err |-> FALSE, api |-> actual, mem |-> cached]
  IN IF Is(cached) THEN here
     ELSE [err |-> Is(actual), api |-> IF Is(actual) THEN actual ELSE made, mem |-> made]

(* controllerutil.CreateOrPatch of a child object whose mutate function    *)
(* sets the spec and the controller reference: cached is what Get returns, *)
(* actual what the API server holds.  SetControllerReference compares the  *)
(* owner's kind and name, not its UID, so it replaces the reference to an  *)
(* earlier owner of the same name.  err: the call fails; api: what the     *)
(* server holds afterwards; mem: what the caller holds afterwards.         *)
CreateOrPatch(cached, actual, none, owner, spec, uid) ==
  LET made    == [none EXCEPT !.uid = uid, !.owner = owner, !.spec = spec]
      patched == [actual EXCEPT !.spec = Merge(cached.spec, spec, actual.spec),
                                !.owner = IF cached.owner = owner THEN @ ELSE owner]
      same    == cached.owner = owner /\ cached.spec = spec
      Res(e, a, m) == [err |-> e, api |-> a, mem |-> m]
  IN CASE ~Is(cached) /\ ~Is(actual) -> Res(FALSE, made, made)
       [] ~Is(cached) /\ Is(actual)  -> Res(TRUE, actual, none)  \* AlreadyExists
       [] Is(cached) /\ same -> Res(FALSE, actual, cached)
       [] Is(cached) /\ ~same /\ Is(actual)  -> Res(FALSE, patched, patched)
       [] Is(cached) /\ ~same /\ ~Is(actual) -> Res(TRUE, actual, none)  \* NotFound

-----------------------------------------------------------------------------
(* Work queues.  A request is a gateway, or, for the VM controller, a node *)
(* that joined, of which only the pool matters.  A queue holds a request   *)
(* at most once; one that is added while its reconcile runs is handed out  *)
(* again afterwards.                                                       *)

Requests == Names \cup Pools

Take(k, r) == r \in queue[k] /\ queue' = [queue EXCEPT ![k] = @ \ {r}]
Requeue(k, r) == queue' = [queue EXCEPT ![k] = @ \cup {r}]
Keep == UNCHANGED queue

(* A bound on the interleavings: the events of the kinds outside Lagging   *)
(* are delivered before anything else happens.                             *)
Prompt == \A e \in dirty : e[1] \in Lagging

Spend(e) == Prompt /\ left[e] > 0 /\ left' = [left EXCEPT ![e] = @ - 1]
=============================================================================
