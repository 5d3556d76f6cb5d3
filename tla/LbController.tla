---------------------------- MODULE LbController -----------------------------
(***************************************************************************)
(* The GatewayLBConfiguration controller of the manager, one action per    *)
(* remote call.  reconcileLBRule reads and writes the load balancer in one *)
(* step: the controller's only worker is the load balancer's only writer.  *)
(***************************************************************************)
EXTENDS Cluster

LbcPcs == {"idle", "fin", "rule", "vmc", "status", "delVmc", "unrule", "unfin"}
LbcWork == [pc : LbcPcs, obj : LbcObj,          \* lbConfig as read
            port : Nat, prefix : Prefixes]      \* its new status
LbcIdle == [pc |-> "idle", obj |-> NoLbc, port |-> 0, prefix |-> ""]

LbcFree == Prompt /\ \A t \in Names : wl[t].pc = "idle"
LbcAt(s, pc) == Prompt /\ wl[s].pc = pc
LbcGo(s, pc, obj) == wl' = [wl EXCEPT ![s] = [@ EXCEPT !.pc = pc, !.obj = obj]]
LbcDone(s) == wl' = [wl EXCEPT ![s] = LbcIdle]
LbcFail(s) == LbcDone(s) /\ Requeue("lbc", s)

lbcRest == <<csgc, clbc, cvmc, csec, sgc, sec, ws, wv, vmss, prefixes, nodepools,
             keys, left>>

LbcId(s, o) == <<s, o.uid>>

(* Reconcile up to its first remote call; a missing owner is an error.     *)
LbcStart(s) ==
  LET o == clbc[s] IN
  /\ LbcFree
  /\ UNCHANGED <<lbcRest, lbc, vmc, dirty, lb, uids>>
  /\ \/ /\ ~Is(o) \/ (Is(csgc[s]) /\ o.del /\ ~o.fin)
        /\ Take("lbc", s) /\ UNCHANGED wl
     \/ /\ Is(o) /\ ~Is(csgc[s])
        /\ s \in queue.lbc /\ Keep /\ UNCHANGED wl
     \/ /\ Is(o) /\ Is(csgc[s]) /\ o.del /\ o.fin
        /\ Take("lbc", s) /\ LbcGo(s, "delVmc", o)
     \/ /\ Is(o) /\ Is(csgc[s]) /\ ~o.del
        /\ Take("lbc", s) /\ LbcGo(s, IF o.fin THEN "rule" ELSE "fin", o)

LbcAddFinalizer(s) ==
  /\ LbcAt(s, "fin")
  /\ UNCHANGED <<lbcRest, vmc, lb, uids>>
  /\ \/ /\ lbc[s] = wl[s].obj
        /\ PutLbc(s, [lbc[s] EXCEPT !.fin = TRUE])
        /\ LbcGo(s, "rule", [lbc[s] EXCEPT !.fin = TRUE]) /\ Keep
     \/ /\ lbc[s] # wl[s].obj
        /\ LbcFail(s) /\ UNCHANGED <<lbc, dirty>>

(* Faulty variants: an error is not returned; a rule of the same name in   *)
(* another pool is left in place.                                          *)
LbcEnsureRule_NoRequeue(s) ==
  LET o == wl[s].obj
      p == o.spec.pool
      id == LbcId(s, o)
  IN
  /\ LbcAt(s, "rule")
  /\ UNCHANGED <<lbcRest, lbc, vmc, dirty, uids, queue>>
  /\ \/ /\ p \notin nodepools \/ NoPortFor(lb, id, p)
        /\ LbcDone(s) /\ UNCHANGED lb
     \/ /\ p \in nodepools /\ ~NoPortFor(lb, id, p)
        /\ lb' = WithRule(lb, id, p)
        /\ wl' = [wl EXCEPT ![s] = [@ EXCEPT !.pc = "vmc", !.port = PortFor(lb, id, p)]]
LbcEnsureRule_KeepsOld(s) ==
  LET o == wl[s].obj
      p == o.spec.pool
      id == LbcId(s, o)
  IN
  /\ LbcAt(s, "rule") /\ p \in nodepools /\ ~NoPortFor(lb, id, p)
  /\ UNCHANGED <<lbcRest, lbc, vmc, dirty, uids, queue>>
  /\ lb' = [WithRule(lb, id, p) EXCEPT !.rules = @ \cup lb.rules]
  /\ wl' = [wl EXCEPT ![s] = [@ EXCEPT !.pc = "vmc", !.port = PortFor(lb, id, p)]]

(* reconcileLBRule(needLB = true): fails when the pool is not found or its *)
(* ports are used up.                                                      *)
LbcEnsureRule(s) ==
  LET o == wl[s].obj
      p == o.spec.pool
      id == LbcId(s, o)
      fails == p \notin nodepools \/ NoPortFor(lb, id, p)
  IN
  /\ LbcAt(s, "rule")
  /\ UNCHANGED <<lbcRest, lbc, vmc, dirty, uids>>
  /\ \/ /\ fails
        /\ LbcFail(s) /\ UNCHANGED lb
     \/ /\ ~fails
        /\ lb' = WithRule(lb, id, p)
        /\ wl' = [wl EXCEPT ![s] = [@ EXCEPT !.pc = "vmc",
                                             !.port = PortFor(lb, id, p)]]
        /\ Keep

(* CreateOrPatch of the vmConfig, then the comparison that decides whether *)
(* the status has to be written.                                           *)
reconcileGatewayVMConfig(s) ==
  LET w == wl[s]
      r == CreateOrPatch(cvmc[s], vmc[s], NoVmc, w.obj.uid, w.obj.spec,
                         uids[s].vmc + 1)
      use == ~r.mem.del /\ r.mem.st
      new == [w EXCEPT !.pc = "status",
                       !.prefix = IF use THEN r.mem.prefix ELSE w.obj.prefix]
      same == new.port = w.obj.port /\ new.prefix = w.obj.prefix
  IN
  /\ LbcAt(s, "vmc")
  /\ UNCHANGED <<lbcRest, lbc, lb>>
  /\ \/ /\ r.err
        /\ LbcFail(s) /\ UNCHANGED <<vmc, dirty, uids>>
     \/ /\ ~r.err
        /\ PutVmc(s, r.api)
        /\ uids' = [uids EXCEPT ![s].vmc = IF r.api.uid > @ THEN r.api.uid ELSE @]
        /\ Keep
        /\ wl' = [wl EXCEPT ![s] = IF same THEN LbcIdle ELSE new]

(* Faulty variant: the port is left out of the status.                     *)
LbcUpdateStatus_NoPort(s) ==
  /\ LbcAt(s, "status")
  /\ UNCHANGED <<lbcRest, vmc, lb, uids, queue>>
  /\ LbcDone(s)
  /\ IF lbc[s] = wl[s].obj THEN PutLbc(s, [lbc[s] EXCEPT !.prefix = wl[s].prefix])
                           ELSE UNCHANGED <<lbc, dirty>>

(* Status().Update: a conflict is logged and not returned.                 *)
LbcUpdateStatus(s) ==
  LET w == wl[s] IN
  /\ LbcAt(s, "status")
  /\ UNCHANGED <<lbcRest, vmc, lb, uids, queue>>
  /\ LbcDone(s)
  /\ IF lbc[s] = w.obj
       THEN PutLbc(s, [lbc[s] EXCEPT !.port = w.port, !.prefix = w.prefix])
       ELSE UNCHANGED <<lbc, dirty>>

(* Faulty variants: the load balancer is cleaned while the vmConfig is     *)
(* being deleted; a vmConfig that is gone is an error.                     *)
LbcDeleteVmc_NoWait(s) ==
  /\ LbcAt(s, "delVmc")
  /\ UNCHANGED <<lbcRest, lbc, lb, uids, queue>>
  /\ PutVmc(s, Deleted(vmc[s], NoVmc))
  /\ LbcGo(s, "unrule", wl[s].obj)
LbcDeleteVmc_NotFound(s) ==
  /\ LbcAt(s, "delVmc")
  /\ UNCHANGED <<lbcRest, lbc, lb, uids>>
  /\ PutVmc(s, Deleted(vmc[s], NoVmc))
  /\ IF Is(vmc[s]) THEN LbcDone(s) /\ Keep ELSE LbcFail(s)

(* ensureDeleted: the load balancer is cleaned only once the vmConfig is   *)
(* gone; until then the controller waits for its events.                   *)
LbcDeleteVmc(s) ==
  /\ LbcAt(s, "delVmc")
  /\ UNCHANGED <<lbcRest, lbc, lb, uids, queue>>
  /\ PutVmc(s, Deleted(vmc[s], NoVmc))
  /\ IF Is(vmc[s]) THEN LbcDone(s) ELSE LbcGo(s, "unrule", wl[s].obj)

(* Faulty variant: nothing is removed.                                     *)
LbcRemoveRule_Skips(s) ==
  /\ LbcAt(s, "unrule")
  /\ UNCHANGED <<lbcRest, lbc, vmc, dirty, uids, lb, queue>>
  /\ LbcGo(s, "unfin", wl[s].obj)

(* reconcileLBRule(needLB = false): with no load balancer there is nothing *)
(* to do, and the pool is not looked up.                                   *)
LbcRemoveRule(s) ==
  LET o == wl[s].obj
      fails == lb # NoLB /\ o.spec.pool \notin nodepools
  IN
  /\ LbcAt(s, "unrule")
  /\ UNCHANGED <<lbcRest, lbc, vmc, dirty, uids>>
  /\ \/ /\ fails
        /\ LbcFail(s) /\ UNCHANGED lb
     \/ /\ ~fails
        /\ lb' = WithoutRule(lb, LbcId(s, o), o.spec.pool)
        /\ LbcGo(s, "unfin", o) /\ Keep

LbcRemoveFinalizer(s) ==
  /\ LbcAt(s, "unfin")
  /\ UNCHANGED <<lbcRest, vmc, lb, uids>>
  /\ \/ /\ lbc[s] = wl[s].obj
        /\ PutLbc(s, NoLbc) /\ LbcDone(s) /\ Keep
     \/ /\ lbc[s] # wl[s].obj
        /\ LbcFail(s) /\ UNCHANGED <<lbc, dirty>>

LbcStep(s) ==
  \/ LbcStart(s) \/ LbcAddFinalizer(s) \/ LbcEnsureRule(s)
  \/ reconcileGatewayVMConfig(s) \/ LbcUpdateStatus(s)
  \/ LbcDeleteVmc(s) \/ LbcRemoveRule(s) \/ LbcRemoveFinalizer(s)
=============================================================================
