---------------------------- MODULE ControlPlane -----------------------------
(***************************************************************************)
(* The manager: its three controllers side by side, the informer cache     *)
(* that feeds them, users, failing calls and restarts.                     *)
(*                                                                         *)
(* Each controller runs one reconcile at a time (controller-runtime's      *)
(* default of one worker); the three interleave at every remote call.      *)
(* They share one cache, which lags behind the API server object by        *)
(* object and never goes back.                                             *)
(***************************************************************************)
EXTENDS SgcController, LbController, VmController

ctrl == <<ws, wl, wv>>

Init ==
  /\ sgc = [s \in Names |-> NoSgc] /\ csgc = sgc
  /\ lbc = [s \in Names |-> NoLbc] /\ clbc = lbc
  /\ vmc = [s \in Names |-> NoVmc] /\ cvmc = vmc
  /\ sec = [s \in Names |-> [u \in SgcUids |-> 0]] /\ csec = sec
  /\ dirty = {}
  /\ queue = [k \in Kinds |-> {}]
  /\ ws = [s \in Names |-> SgcIdle]
  /\ wl = [s \in Names |-> LbcIdle]
  /\ wv = [s \in Names |-> VmcIdle]
  /\ lb = NoLB
  /\ vmss = [p \in Pools |-> [cfgs |-> {}, backend |-> FALSE]]
  /\ prefixes = {}
  /\ nodepools = Pools
  /\ uids = [s \in Names |-> [k \in Kinds |-> 0]]
  /\ keys = [s \in Names |-> 0]
  /\ left = Budget

-----------------------------------------------------------------------------
(* Watch events.  Delivering one brings the cached copy up to date and     *)
(* queues the controllers that watch the kind: For its own, Owns its       *)
(* child's; of the secrets' events only updates and deletions count.       *)

Enqueue(K, s) == queue' = [k \in Kinds |-> queue[k] \cup {x \in {s} : k \in K}]

watchRest == <<api, ctrl, azure, uids, keys, left>>

SyncSgc(s) ==
  /\ <<"sgc", s>> \in dirty
  /\ csgc' = [csgc EXCEPT ![s] = sgc[s]]
  /\ dirty' = dirty \ {<<"sgc", s>>}
  /\ Enqueue({"sgc"}, s)
  /\ UNCHANGED <<watchRest, clbc, cvmc, csec>>

(* Faulty variant: Owns is left out of the SetupWithManager of the         *)
(* GatewayLBConfiguration controller.                                      *)
SyncVmc_NotOwned(s) ==
  /\ <<"vmc", s>> \in dirty
  /\ cvmc' = [cvmc EXCEPT ![s] = vmc[s]]
  /\ dirty' = dirty \ {<<"vmc", s>>}
  /\ Enqueue({"vmc"}, s)
  /\ UNCHANGED <<watchRest, csgc, clbc, csec>>

SyncLbc(s) ==
  /\ <<"lbc", s>> \in dirty
  /\ clbc' = [clbc EXCEPT ![s] = lbc[s]]
  /\ dirty' = dirty \ {<<"lbc", s>>}
  /\ Enqueue({"sgc", "lbc"}, s)
  /\ UNCHANGED <<watchRest, csgc, cvmc, csec>>

SyncVmc(s) ==
  /\ <<"vmc", s>> \in dirty
  /\ cvmc' = [cvmc EXCEPT ![s] = vmc[s]]
  /\ dirty' = dirty \ {<<"vmc", s>>}
  /\ Enqueue({"lbc", "vmc"}, s)
  /\ UNCHANGED <<watchRest, csgc, clbc, csec>>

(* Faulty variant: the predicate lets no event of a secret through.        *)
SyncSec_NoEvents(s) ==
  /\ {<<"sec", s>>, <<"secdel", s>>} \cap dirty # {}
  /\ csec' = [csec EXCEPT ![s] = sec[s]]
  /\ dirty' = dirty \ {<<"sec", s>>, <<"secdel", s>>}
  /\ UNCHANGED <<watchRest, csgc, clbc, cvmc, queue>>

SyncSec(s) ==
  /\ {<<"sec", s>>, <<"secdel", s>>} \cap dirty # {}
  /\ csec' = [csec EXCEPT ![s] = sec[s]]
  /\ dirty' = dirty \ {<<"sec", s>>, <<"secdel", s>>}
  /\ Enqueue(IF <<"secdel", s>> \in dirty THEN {"sgc"} ELSE {}, s)
  /\ UNCHANGED <<watchRest, csgc, clbc, cvmc>>

(* The informers' periodic resync hands every cached object out again.     *)
Resync(s) ==
  /\ Resyncs /\ Prompt
  /\ Enqueue({k \in Kinds : CASE k = "sgc" -> Is(csgc[s]) \/ Is(clbc[s])
                              [] k = "lbc" -> Is(clbc[s]) \/ Is(cvmc[s])
                              [] k = "vmc" -> Is(cvmc[s])}, s)
  /\ queue' # queue
  /\ UNCHANGED <<watchRest, cache, dirty>>

Sync(s) == SyncSgc(s) \/ SyncLbc(s) \/ SyncVmc(s) \/ SyncSec(s)

-----------------------------------------------------------------------------
(* Users.                                                                  *)

userRest == <<cache, queue, ctrl, azure, keys>>

CreateGateway(s, spec) ==
  /\ ~Is(sgc[s]) /\ Spend("create")
  /\ PutSgc(s, [NoSgc EXCEPT !.uid = uids[s].sgc + 1, !.spec = spec])
  /\ uids' = [uids EXCEPT ![s].sgc = @ + 1]
  /\ UNCHANGED <<userRest, lbc, vmc, sec>>

DeleteGateway(s) ==
  /\ Is(sgc[s]) /\ ~sgc[s].del /\ Spend("delete")
  /\ PutSgc(s, Deleted(sgc[s], NoSgc))
  /\ UNCHANGED <<userRest, lbc, vmc, sec, uids>>

EditGateway(s, spec) ==
  /\ Is(sgc[s]) /\ spec # sgc[s].spec /\ Spend("edit")
  /\ PutSgc(s, [sgc[s] EXCEPT !.spec = spec])
  /\ UNCHANGED <<userRest, lbc, vmc, sec, uids>>

(* Somebody deletes an object the controllers made.                        *)
KillLbc(s) ==
  /\ Is(lbc[s]) /\ ~lbc[s].del /\ Spend("kill")
  /\ PutLbc(s, Deleted(lbc[s], NoLbc))
  /\ UNCHANGED <<userRest, sgc, vmc, sec, uids>>

KillVmc(s) ==
  /\ Is(vmc[s]) /\ ~vmc[s].del /\ Spend("kill")
  /\ PutVmc(s, Deleted(vmc[s], NoVmc))
  /\ UNCHANGED <<userRest, sgc, lbc, sec, uids>>

KillSecret(s) ==
  /\ Is(sgc[s]) /\ sec[s][sgc[s].uid] # 0 /\ Spend("kill")
  /\ sec' = [sec EXCEPT ![s][sgc[s].uid] = 0]
  /\ dirty' = dirty \cup {<<"secdel", s>>}
  /\ UNCHANGED <<userRest, sgc, lbc, vmc, uids>>

(* A node joins a gateway pool; the event of one that leaves is dropped by *)
(* Reconcile, which does not find the node.                                *)
NodeJoins(p) ==
  /\ p \in nodepools /\ Spend("node")
  /\ Requeue("vmc", p)
  /\ UNCHANGED <<api, cache, dirty, ctrl, azure, uids, keys>>

(* A gateway node pool is deleted, with its ipConfigs.                     *)
LosePool(p) ==
  /\ p \in nodepools /\ Spend("poolloss")
  /\ nodepools' = nodepools \ {p}
  /\ vmss' = [vmss EXCEPT ![p] = [cfgs |-> {}, backend |-> FALSE]]
  /\ UNCHANGED <<api, cache, dirty, queue, ctrl, lb, prefixes, uids, keys>>

-----------------------------------------------------------------------------
(* Failures.  The next call of a reconcile fails.  The error is returned   *)
(* and the gateway queued again, but for the status updates of the LB and  *)
(* VM controllers, whose errors are only logged.  A call that took effect  *)
(* although its caller saw an error is a completed step followed by this.  *)

Fault(s) ==
  /\ Spend("fault")
  /\ UNCHANGED <<api, cache, dirty, azure, uids, keys>>
  /\ \/ /\ ws[s].pc # "idle" /\ SgcFail(s) /\ UNCHANGED <<wl, wv>>
     \/ /\ wl[s].pc # "idle" /\ LbcDone(s) /\ UNCHANGED <<ws, wv>>
        /\ IF wl[s].pc = "status" THEN Keep ELSE Requeue("lbc", s)
     \/ /\ wv[s].pc \notin {"idle", "listed"} /\ VmcDone(s) /\ UNCHANGED <<ws, wl>>
        /\ IF wv[s].pc = "status" THEN Keep ELSE Requeue("vmc", VmcRequest(s))

(* The manager crashes and starts again: it lists all objects and queues   *)
(* them, and the nodes, as created.                                        *)
Restart ==
  /\ Spend("restart")
  /\ csgc' = sgc /\ clbc' = lbc /\ cvmc' = vmc /\ csec' = sec
  /\ dirty' = {}
  /\ queue' = [k \in Kinds |->
       CASE k = "sgc" -> {s \in Names : Is(sgc[s]) \/ Is(lbc[s])}
         [] k = "lbc" -> {s \in Names : Is(lbc[s]) \/ Is(vmc[s])}
         [] k = "vmc" -> {s \in Names : Is(vmc[s])} \cup nodepools]
  /\ ws' = [s \in Names |-> SgcIdle]
  /\ wl' = [s \in Names |-> LbcIdle]
  /\ wv' = [s \in Names |-> VmcIdle]
  /\ UNCHANGED <<api, azure, uids, keys>>

-----------------------------------------------------------------------------
Work(s) == SgcStep(s) \/ LbcStep(s) \/ VmcStep(s)

UserStep(s) ==
  \/ \E spec \in UserSpecs : CreateGateway(s, spec) \/ EditGateway(s, spec)
  \/ DeleteGateway(s) \/ KillLbc(s) \/ KillVmc(s) \/ KillSecret(s)

Next ==
  \/ \E s \in Names : Work(s) \/ Sync(s) \/ Resync(s) \/ UserStep(s) \/ Fault(s)
  \/ \E p \in Pools : VmcNodeEvent(p) \/ NodeJoins(p) \/ LosePool(p)
  \/ Restart

Spec == Init /\ [][Next]_vars

(* The workers take and finish what is queued, the watches deliver.        *)
Fairness ==
  /\ \A s \in Names :
       /\ WF_vars(SgcStep(s)) /\ WF_vars(LbcStep(s)) /\ WF_vars(VmcStep(s))
       /\ WF_vars(Sync(s)) /\ WF_vars(Resync(s))
  /\ \A p \in Pools : WF_vars(VmcNodeEvent(p))

(* A gateway that fails for ever does not keep the others out: the work    *)
(* queue is FIFO, and a failed gateway returns to it after a back-off.     *)
QueueFairness == \A s \in Names : SF_vars(LbcStart(s))

FairSpec == Spec /\ Fairness

-----------------------------------------------------------------------------
(* Safety.                                                                 *)

Ids == Names \X Nat

ApiType ==
  /\ sgc \in [Names -> SgcObj] /\ lbc \in [Names -> LbcObj] /\ vmc \in [Names -> VmcObj]
  /\ sec \in [Names -> [SgcUids -> Nat]]
CacheType ==
  /\ csgc \in [Names -> SgcObj] /\ clbc \in [Names -> LbcObj] /\ cvmc \in [Names -> VmcObj]
  /\ csec \in [Names -> [SgcUids -> Nat]]
QueueType ==
  /\ dirty \subseteq (Kinds \cup {"sec", "secdel"}) \X Names
  /\ queue \in [Kinds -> SUBSET Requests]
WorkType ==
  ws \in [Names -> SgcWork] /\ wl \in [Names -> LbcWork] /\ wv \in [Names -> VmcWork]
AzureType ==
  /\ lb \in [fronts : SUBSET Pools, backs : SUBSET Pools,
             rules : SUBSET [id : Ids, pool : Pools, port : Ports],
             probes : SUBSET Ids]
  /\ vmss \in [Pools -> [cfgs : SUBSET [id : Ids, egress : Prefixes],
                         backend : BOOLEAN]]
  /\ prefixes \subseteq Ids /\ nodepools \subseteq Pools
CountType ==
  /\ uids \in [Names -> [Kinds -> Nat]] /\ keys \in [Names -> Nat]
  /\ left \in [Events -> Nat]
  /\ \A s \in Names : uids[s].sgc + left["create"] <= Budget["create"]

(* Every variable has the shape the code gives it.                         *)
TypeOK == ApiType /\ CacheType /\ QueueType /\ WorkType /\ AzureType /\ CountType

(* No object outlives its owner: a vmConfig exists only under the lbConfig *)
(* that made it, an lbConfig or key secret only under its                  *)
(* StaticGatewayConfiguration, and the owner's finalizer holds it back.    *)
(* The controllers delete by name and read a lagging cache, so this rests  *)
(* on the order of ensureDeleted's steps.                                  *)
OwnerChain ==
  \A s \in Names :
    /\ Is(vmc[s]) => Is(lbc[s]) /\ lbc[s].fin /\ vmc[s].owner = lbc[s].uid
    /\ Is(lbc[s]) => Is(sgc[s]) /\ sgc[s].fin /\ lbc[s].owner = sgc[s].uid
    /\ \A u \in SgcUids : sec[s][u] # 0 => sgc[s].uid = u /\ sgc[s].fin

(* A rule or probe is there only while its lbConfig is, whose finalizer    *)
(* keeps it from going before they are removed.                            *)
RulesOwned ==
  \A id \in lb.probes \cup {r.id : r \in lb.rules} :
    lbc[id[1]].uid = id[2] /\ lbc[id[1]].fin

(* A managed prefix is there only while its vmConfig is.                   *)
PrefixesOwned ==
  \A id \in prefixes : vmc[id[1]].uid = id[2] /\ vmc[id[1]].fin

(* The same for the ipConfigs on the scale sets.                           *)
IpConfigsOwned ==
  \A p \in Pools : \A c \in vmss[p].cfgs :
    vmc[c.id[1]].uid = c.id[2] /\ vmc[c.id[1]].fin

(* A scale set is never left in a backend pool the load balancer dropped:  *)
(* the rule is made before the vmConfig and removed after it.              *)
BackendsPresent == \A p \in Pools : vmss[p].backend => p \in lb.backs

(* A managed prefix is free of public IPs by the time it is to be deleted, *)
(* so that ARM does not refuse to.                                         *)
PrefixFree ==
  \A s \in Names : wv[s].pc \in {"unprefix", "delPrefix"} => ~InUse(VmcId(s, wv[s].obj))

(* The same for the pool the vmConfig names now: reconcileVMSS and its     *)
(* cleanup never leave an IP configuration behind that holds the prefix.   *)
PrefixFreeHere ==
  \A s \in Names : wv[s].pc \in {"unprefix", "delPrefix"} =>
    [id |-> VmcId(s, wv[s].obj), egress |-> "managed"] \notin vmss[wv[s].obj.spec.pool].cfgs

(* The port an lbConfig advertises is the port of its rule.                *)
PortAdvertised ==
  \A s \in Names :
    Is(lbc[s]) /\ ~lbc[s].del /\ lbc[s].port # 0 =>
      \E r \in lb.rules : r.id = <<s, lbc[s].uid>> /\ r.port = lbc[s].port

(* A gateway that shows an egress prefix, which is all NicAdd waits for,   *)
(* also has its public key, address and port.                              *)
ReadyComplete ==
  \A s \in Names : sgc[s].prefix # "" => sgc[s].port # 0 /\ sgc[s].key # 0

(* No frontend or backend stays behind when its pool's last rule is gone.  *)
NoIdleFrontend ==
  lb.fronts = {r.pool : r \in lb.rules} /\ lb.backs = lb.fronts

-----------------------------------------------------------------------------
(* The gateway is built: its spec has reached the vmConfig, rule, ipConfig *)
(* and prefix are there, and so is the secret of its key.                  *)
Built(s) ==
  LET o == sgc[s]
  IN /\ Is(vmc[s]) /\ lbc[s].spec = o.spec /\ vmc[s].spec = o.spec
     /\ \E r \in lb.rules : r.id = <<s, lbc[s].uid>> /\ r.pool = o.spec.pool
     /\ [id |-> <<s, vmc[s].uid>>, egress |-> Egress(o.spec)]
          \in vmss[o.spec.pool].cfgs
     /\ (<<s, vmc[s].uid>> \in prefixes <=> Egress(o.spec) = "managed")
     /\ sec[s][o.uid] # 0

(* A reconciled gateway is built and its status says so.                   *)
Converged(s) ==
  LET o == sgc[s]
  IN /\ Built(s) /\ o.prefix = Egress(o.spec) /\ o.key = sec[s][o.uid]
     /\ [id |-> <<s, lbc[s].uid>>, pool |-> o.spec.pool, port |-> o.port] \in lb.rules

Quiet ==
  /\ dirty = {} /\ \A k \in Kinds : queue[k] = {}
  /\ \A s \in Names : ws[s].pc = "idle" /\ wl[s].pc = "idle" /\ wv[s].pc = "idle"

(* When nothing is queued, running or on its way, every gateway is gone or *)
(* reconciled: no wait for an event is left without one.                   *)
QuietConverged == Quiet => \A s \in Names : Is(sgc[s]) => ~sgc[s].del /\ Converged(s)

(* Calls that failed, lost pools and restarts cost a gateway at most its   *)
(* status: when nothing is queued, running or on its way and the pools are *)
(* there, it is gone or built.                                             *)
QuietBuilt ==
  Quiet /\ nodepools = Pools => \A s \in Names : Is(sgc[s]) => ~sgc[s].del /\ Built(s)

(* When nothing is queued, running or on its way, a gateway's status shows *)
(* the prefix, address, port and key of docs/troubleshooting.md.           *)
StatusReported ==
  Quiet => \A s \in Names : Is(sgc[s]) /\ ~sgc[s].del /\ validate(sgc[s].spec) =>
             sgc[s].prefix # "" /\ sgc[s].port # 0 /\ sgc[s].key # 0

(* A rule is taken off the load balancer only when its vmConfig is gone.   *)
RuleAfterVmc ==
  [][\A r \in lb.rules : r.id \in {x.id : x \in lb'.rules} \/ ~Is(vmc[r.id[1]])]_lb

(* A private key is never replaced in place, whatever the cache shows.     *)
KeyStable ==
  [][\A s \in Names, u \in SgcUids :
       sec[s][u] # 0 /\ sec'[s][u] # 0 => sec[s][u] = sec'[s][u]]_sec

(* A deleted gateway goes away.                                            *)
DeletionCompletes == \A s \in Names : sgc[s].del ~> ~sgc[s].del

(* Its pool has no port for the gateway.                                   *)
Starved(s) == NoPortFor(lb, <<s, lbc[s].uid>>, sgc[s].spec.pool)

(* A gateway that is neither deleted nor out of ports is eventually        *)
(* reconciled.                                                             *)
ProvisioningCompletes ==
  \A s \in Names : Is(sgc[s]) /\ validate(sgc[s].spec) /\ ~Starved(s) ~>
    \/ ~Is(sgc[s]) \/ sgc[s].del \/ ~validate(sgc[s].spec)
    \/ Starved(s) \/ Converged(s)
=============================================================================
