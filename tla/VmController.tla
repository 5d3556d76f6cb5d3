---------------------------- MODULE VmController -----------------------------
(***************************************************************************)
(* The GatewayVMConfiguration controller of the manager, for pools that    *)
(* are VM scale sets, one action per remote call.  A scale set's model and *)
(* its instances are one state here: vmss[p].cfgs are the gateway          *)
(* ipConfigs of p, each with where its public IPs come from, vmss[p].backend *)
(* says whether p's primary ipConfig is in the load balancer's backend     *)
(* pool.  The controller's only worker is their only writer.               *)
(***************************************************************************)
EXTENDS Cluster

VmcPcs == {"idle", "listed", "fin", "prefix", "pool", "profiles", "unprefix", "status",
           "delPool", "delPrefix", "unfin"}
VmcWork == [pc : VmcPcs, obj : VmcObj,        \* vmConfig as read
            node : BOOLEAN]                   \* reconciled for a node event?
VmcIdle == [pc |-> "idle", obj |-> NoVmc, node |-> FALSE]

VmcFree == Prompt /\ \A t \in Names : wv[t].pc = "idle"
VmcAt(s, pc) == Prompt /\ wv[s].pc = pc
VmcGo(s, pc, obj) == wv' = [wv EXCEPT ![s] = [@ EXCEPT !.pc = pc, !.obj = obj]]
VmcDone(s) == wv' = [wv EXCEPT ![s] = VmcIdle]

(* An error requeues the request: the gateway's, or the node's.            *)
VmcRequest(s) == IF wv[s].node THEN wv[s].obj.spec.pool ELSE s
VmcFail(s) == VmcDone(s) /\ Requeue("vmc", VmcRequest(s))

vmcRest == <<csgc, clbc, cvmc, csec, sgc, lbc, sec, ws, wl, lb, nodepools,
             uids, keys, left>>

VmcId(s, o) == <<s, o.uid>>

(* Where the gateway's egress addresses come from.                         *)
Egress(spec) == IF ~spec.public THEN "private"
                ELSE IF spec.byo THEN "byo" ELSE "managed"

(* Faulty variants: wantIPConfig is ignored; an ipConfig of the right name *)
(* is always kept as it is.                                                *)
reconcileVMSS_Adds(v, id, egress, wantIPConfig) ==
  [cfgs |-> {c \in v.cfgs : c.id # id} \cup {[id |-> id, egress |-> egress]},
   backend |-> TRUE]
reconcileVMSS_Keeps(v, id, egress, wantIPConfig) ==
  LET own == {c \in v.cfgs : c.id = id}
      cfgs == IF ~wantIPConfig THEN v.cfgs \ own
              ELSE IF own # {} THEN v.cfgs ELSE v.cfgs \cup {[id |-> id, egress |-> egress]}
  IN [cfgs |-> cfgs, backend |-> cfgs # {}]

(* reconcileVMSS: the ipConfig named after the vmConfig is dropped or set  *)
(* to what is wanted; the primary ipConfig is in the backend pool exactly  *)
(* while the scale set has gateway ipConfigs.                              *)
reconcileVMSS(v, id, egress, wantIPConfig) ==
  LET others == {c \in v.cfgs : c.id # id}
      cfgs == IF wantIPConfig THEN others \cup {[id |-> id, egress |-> egress]}
                              ELSE others
  IN [cfgs |-> cfgs, backend |-> cfgs # {}]

(* Reconcile up to its first remote call, for a vmConfig event.            *)
VmcStart(s) ==
  LET o == cvmc[s] IN
  /\ VmcFree
  /\ UNCHANGED <<vmcRest, vmc, dirty, vmss, prefixes>>
  /\ \/ /\ ~Is(o) \/ (Is(csgc[s]) /\ o.del /\ ~o.fin)
        /\ Take("vmc", s) /\ UNCHANGED wv
     \/ /\ Is(o) /\ ~Is(csgc[s])
        /\ s \in queue.vmc /\ Keep /\ UNCHANGED wv
     \/ /\ Is(o) /\ Is(csgc[s]) /\ o.del /\ o.fin
        /\ Take("vmc", s) /\ VmcGo(s, "delPool", o)
     \/ /\ Is(o) /\ Is(csgc[s]) /\ ~o.del
        /\ Take("vmc", s) /\ VmcGo(s, IF o.fin THEN "prefix" ELSE "fin", o)

(* Reconcile for a node of pool p: the vmConfigs of the pool that are not  *)
(* being deleted are listed from the cache and reconciled one after the    *)
(* other; their owners are not looked up.  With its pool the node is gone, *)
(* and nothing is done.                                                    *)
VmcNodeEvent(p) ==
  LET hit(o) == p \in nodepools /\ Is(o) /\ ~o.del /\ o.spec.pool = p IN
  /\ VmcFree /\ Take("vmc", p)
  /\ wv' = [s \in Names |->
              IF hit(cvmc[s]) THEN [pc |-> "listed", obj |-> cvmc[s], node |-> TRUE]
                              ELSE VmcIdle]
  /\ UNCHANGED <<vmcRest, vmc, dirty, vmss, prefixes>>

VmcNodeNext(s) ==
  LET o == wv[s].obj IN
  /\ VmcAt(s, "listed")
  /\ \A t \in Names : wv[t].pc \in {"idle", "listed"}
  /\ VmcGo(s, IF o.fin THEN "prefix" ELSE "fin", o)
  /\ UNCHANGED <<vmcRest, vmc, dirty, vmss, prefixes, queue>>

VmcAddFinalizer(s) ==
  /\ VmcAt(s, "fin")
  /\ UNCHANGED <<vmcRest, vmss, prefixes>>
  /\ \/ /\ vmc[s] = wv[s].obj
        /\ PutVmc(s, [vmc[s] EXCEPT !.fin = TRUE])
        /\ VmcGo(s, "prefix", [vmc[s] EXCEPT !.fin = TRUE]) /\ Keep
     \/ /\ vmc[s] # wv[s].obj
        /\ VmcFail(s) /\ UNCHANGED <<vmc, dirty>>

(* loadPool, then the managed prefix is created unless it exists or is not *)
(* wanted.                                                                 *)
ensurePublicIPPrefix(s) ==
  LET o == wv[s].obj IN
  /\ VmcAt(s, "prefix")
  /\ UNCHANGED <<vmcRest, vmc, dirty, vmss>>
  /\ \/ /\ o.spec.pool \notin nodepools
        /\ VmcFail(s) /\ UNCHANGED prefixes
     \/ /\ o.spec.pool \in nodepools
        /\ prefixes' = IF Egress(o.spec) = "managed"
                         THEN prefixes \cup {VmcId(s, o)} ELSE prefixes
        /\ VmcGo(s, "pool", o) /\ Keep

(* pool.Reconcile(wantIPConfig = true); the pool may be gone by now.       *)
VmcReconcilePool(s) ==
  LET o == wv[s].obj
      p == o.spec.pool
  IN
  /\ VmcAt(s, "pool")
  /\ UNCHANGED <<vmcRest, vmc, dirty, prefixes>>
  /\ \/ /\ p \notin nodepools
        /\ VmcFail(s) /\ UNCHANGED vmss
     \/ /\ p \in nodepools
        /\ vmss' = [vmss EXCEPT ![p] =
                      reconcileVMSS(@, VmcId(s, o), Egress(o.spec), TRUE)]
        /\ VmcGo(s, "profiles", o) /\ Keep

(* What is left to do once the pool is reconciled and a managed prefix     *)
(* that is not wanted is gone: the status, when it changes.                *)
VmcFinish(s, o) ==
  IF o.prefix = Egress(o.spec) THEN VmcDone(s) ELSE VmcGo(s, "status", o)

(* The Status().Update at the end of reconcileVMSS: a conflict is an error.*)
VmcUpdateProfiles(s) ==
  LET o == [vmc[s] EXCEPT !.st = TRUE] IN
  /\ VmcAt(s, "profiles")
  /\ UNCHANGED <<vmcRest, vmss, prefixes>>
  /\ \/ /\ vmc[s] # wv[s].obj
        /\ VmcFail(s) /\ UNCHANGED <<vmc, dirty>>
     \/ /\ vmc[s] = wv[s].obj
        /\ PutVmc(s, o) /\ Keep
        /\ IF Egress(o.spec) = "managed" THEN VmcFinish(s, o)
                                         ELSE VmcGo(s, "unprefix", o)

(* ARM does not delete a prefix whose public IPs are in use.               *)
InUse(id) == id \in prefixes /\ \E p \in Pools : [id |-> id, egress |-> "managed"] \in vmss[p].cfgs

(* ensurePublicIPPrefixDeleted, when the managed prefix is not wanted.     *)
VmcDropUnusedPrefix(s) ==
  LET o == wv[s].obj
      id == VmcId(s, o)
  IN
  /\ VmcAt(s, "unprefix")
  /\ UNCHANGED <<vmcRest, vmc, dirty, vmss>>
  /\ \/ /\ InUse(id)
        /\ VmcFail(s) /\ UNCHANGED prefixes
     \/ /\ ~InUse(id)
        /\ prefixes' = prefixes \ {id}
        /\ VmcFinish(s, o) /\ Keep

(* Status().Update: a conflict is logged and not returned.                 *)
VmcUpdateStatus(s) ==
  LET w == wv[s] IN
  /\ VmcAt(s, "status")
  /\ UNCHANGED <<vmcRest, vmss, prefixes, queue>>
  /\ VmcDone(s)
  /\ IF vmc[s] = w.obj
       THEN PutVmc(s, [vmc[s] EXCEPT !.prefix = Egress(w.obj.spec)])
       ELSE UNCHANGED <<vmc, dirty>>

(* ensureDeleted: pool.Reconcile(wantIPConfig = false).                    *)
VmcCleanPool(s) ==
  LET o == wv[s].obj
      p == o.spec.pool
  IN
  /\ VmcAt(s, "delPool")
  /\ UNCHANGED <<vmcRest, vmc, dirty, prefixes>>
  /\ \/ /\ p \notin nodepools
        /\ VmcFail(s) /\ UNCHANGED vmss
     \/ /\ p \in nodepools
        /\ vmss' = [vmss EXCEPT ![p] =
                      reconcileVMSS(@, VmcId(s, o), "private", FALSE)]
        /\ VmcGo(s, "delPrefix", o) /\ Keep

(* Faulty variant: the managed prefix stays.                               *)
VmcDeletePrefix_Skips(s) ==
  /\ VmcAt(s, "delPrefix")
  /\ UNCHANGED <<vmcRest, vmc, dirty, vmss, prefixes, queue>>
  /\ VmcGo(s, "unfin", wv[s].obj)

(* The Status().Update that ends reconcileVMSS writes nothing new here but *)
(* fails on a stale copy; then ensurePublicIPPrefixDeleted.                *)
VmcDeletePrefix(s) ==
  LET o == wv[s].obj
      id == VmcId(s, o)
  IN
  /\ VmcAt(s, "delPrefix")
  /\ UNCHANGED <<vmcRest, vmc, dirty, vmss>>
  /\ \/ /\ vmc[s] # o \/ InUse(id)
        /\ VmcFail(s) /\ UNCHANGED prefixes
     \/ /\ vmc[s] = o /\ ~InUse(id)
        /\ prefixes' = prefixes \ {id}
        /\ VmcGo(s, "unfin", o) /\ Keep

VmcRemoveFinalizer(s) ==
  /\ VmcAt(s, "unfin")
  /\ UNCHANGED <<vmcRest, vmss, prefixes>>
  /\ \/ /\ vmc[s] = wv[s].obj
        /\ PutVmc(s, NoVmc) /\ VmcDone(s) /\ Keep
     \/ /\ vmc[s] # wv[s].obj
        /\ VmcFail(s) /\ UNCHANGED <<vmc, dirty>>

VmcStep(s) ==
  \/ VmcStart(s) \/ VmcNodeNext(s) \/ VmcAddFinalizer(s)
  \/ ensurePublicIPPrefix(s) \/ VmcReconcilePool(s) \/ VmcUpdateProfiles(s)
  \/ VmcDropUnusedPrefix(s) \/ VmcUpdateStatus(s)
  \/ VmcCleanPool(s) \/ VmcDeletePrefix(s) \/ VmcRemoveFinalizer(s)
=============================================================================
