---------------------------- MODULE SgcController ----------------------------
(***************************************************************************)
(* The StaticGatewayConfiguration controller of the manager.  A reconcile  *)
(* is one action per remote call: every step reads the cache or the local  *)
(* copy taken from it, makes the call, and keeps the result in ws[s].  A   *)
(* call that fails (Fault of ControlPlane) ends the reconcile with an      *)
(* error, which requeues the gateway.                                      *)
(***************************************************************************)
EXTENDS Cluster

SgcPcs == {"idle", "fin", "secret", "lbc", "status", "delSecret", "delLbc", "unfin"}
SgcWork == [pc : SgcPcs, obj : SgcObj,   \* gwConfig as read
            key : Nat, port : Nat, prefix : Prefixes,   \* its new status
            gone : BOOLEAN]              \* secretDeleted

SgcIdle == [pc |-> "idle", obj |-> NoSgc, key |-> 0, port |-> 0, prefix |-> "",
            gone |-> FALSE]

SgcFree == Prompt /\ \A t \in Names : ws[t].pc = "idle"
SgcAt(s, pc) == Prompt /\ ws[s].pc = pc
SgcGo(s, pc, obj) == ws' = [ws EXCEPT ![s] = [@ EXCEPT !.pc = pc, !.obj = obj]]
SgcDone(s) == ws' = [ws EXCEPT ![s] = SgcIdle]
SgcFail(s) == SgcDone(s) /\ Requeue("sgc", s)

sgcRest == <<csgc, clbc, cvmc, csec, vmc, wl, wv, lb, vmss, prefixes, nodepools,
             left>>

(* A prefix id with ProvisionPublicIps off is the representative of the    *)
(* malformed specs.                                                        *)
validate(spec) == ~(spec.byo /\ ~spec.public)

(* Reconcile up to its first remote call.                                  *)
SgcStart(s) ==
  LET o == csgc[s] IN
  /\ SgcFree
  /\ UNCHANGED <<sgcRest, sgc, lbc, sec, dirty, uids, keys>>
  /\ \/ /\ ~Is(o) \/ (o.del /\ ~o.fin)
        /\ Take("sgc", s) /\ UNCHANGED ws
     \/ /\ Is(o) /\ o.del /\ o.fin
        /\ Take("sgc", s) /\ SgcGo(s, "delSecret", o)
     \/ /\ Is(o) /\ ~o.del /\ ~validate(o.spec)
        /\ s \in queue.sgc /\ Keep /\ UNCHANGED ws
     \/ /\ Is(o) /\ ~o.del /\ validate(o.spec)
        /\ Take("sgc", s) /\ SgcGo(s, IF o.fin THEN "secret" ELSE "fin", o)

(* Update checks the resource version: it fails on a stale copy.           *)
SgcAddFinalizer(s) ==
  /\ SgcAt(s, "fin")
  /\ UNCHANGED <<sgcRest, lbc, sec, uids, keys>>
  /\ \/ /\ sgc[s] = ws[s].obj
        /\ PutSgc(s, [sgc[s] EXCEPT !.fin = TRUE])
        /\ SgcGo(s, "secret", [sgc[s] EXCEPT !.fin = TRUE]) /\ Keep
     \/ /\ sgc[s] # ws[s].obj
        /\ SgcFail(s) /\ UNCHANGED <<sgc, dirty>>

(* Faulty variant: a secret the cache does not show is overwritten.        *)
reconcileWireguardKey_Overwrites(s) ==
  LET o == csgc[s]
      cached == csec[s][o.uid]
      key == IF cached = 0 THEN keys[s] + 1 ELSE cached
  IN
  /\ SgcAt(s, "secret") /\ Is(o)
  /\ UNCHANGED <<sgcRest, sgc, lbc, uids, queue>>
  /\ keys' = [keys EXCEPT ![s] = IF cached = 0 THEN @ + 1 ELSE @]
  /\ sec' = [sec EXCEPT ![s][o.uid] = IF cached = 0 THEN key ELSE @]
  /\ dirty' = dirty \cup {<<"sec", s>>}
  /\ ws' = [ws EXCEPT ![s] = [@ EXCEPT !.pc = "lbc", !.obj = o, !.key = key]]

(* CreateOrPatch reads gwConfig again before it calls the mutate function, *)
(* whose first part this is: a key is generated only for a new secret.     *)
(* The finalizer makes sure that gwConfig is found.                        *)
reconcileWireguardKey(s) ==
  LET o == csgc[s]
      cached == csec[s][o.uid]
  IN
  /\ SgcAt(s, "secret") /\ Is(o)
  /\ UNCHANGED <<sgcRest, sgc, lbc, uids>>
  /\ \/ /\ cached = 0 /\ sec[s][o.uid] # 0        \* AlreadyExists
        /\ SgcFail(s) /\ UNCHANGED <<sec, keys, dirty>>
     \/ /\ cached = 0 /\ sec[s][o.uid] = 0
        /\ keys' = [keys EXCEPT ![s] = @ + 1]
        /\ sec' = [sec EXCEPT ![s][o.uid] = keys[s] + 1]
        /\ dirty' = dirty \cup {<<"sec", s>>}
        /\ ws' = [ws EXCEPT ![s] = [@ EXCEPT !.pc = "lbc", !.obj = o,
                                             !.key = keys[s] + 1]]
        /\ Keep
     \/ /\ cached # 0
        /\ ws' = [ws EXCEPT ![s] = [@ EXCEPT !.pc = "lbc", !.obj = o,
                                             !.key = cached]]
        /\ Keep /\ UNCHANGED <<sec, keys, dirty>>

(* The mutate function's second part, then the comparison that decides     *)
(* whether a status patch is needed.                                       *)
reconcileGatewayLBConfig(s) ==
  LET w == ws[s]
      r == CreateOrPatch(clbc[s], lbc[s], NoLbc, w.obj.uid, w.obj.spec,
                         uids[s].lbc + 1)
      use == ~r.mem.del /\ r.mem.port # 0
      new == [w EXCEPT !.pc = "status",
                       !.port = IF use THEN r.mem.port ELSE w.obj.port,
                       !.prefix = IF use THEN r.mem.prefix ELSE w.obj.prefix]
      same == new.key = w.obj.key /\ new.port = w.obj.port
                /\ new.prefix = w.obj.prefix
  IN
  /\ SgcAt(s, "lbc")
  /\ UNCHANGED <<sgcRest, sgc, sec, keys>>
  /\ \/ /\ r.err
        /\ SgcFail(s) /\ UNCHANGED <<lbc, dirty, uids>>
     \/ /\ ~r.err
        /\ PutLbc(s, r.api)
        /\ uids' = [uids EXCEPT ![s].lbc = IF r.api.uid > @ THEN r.api.uid ELSE @]
        /\ Keep
        /\ ws' = [ws EXCEPT ![s] = IF same THEN SgcIdle ELSE new]

(* Faulty variant: the public key is left out of the patch.                *)
SgcPatchStatus_NoKey(s) ==
  /\ SgcAt(s, "status")
  /\ UNCHANGED <<sgcRest, lbc, sec, uids, keys, queue>>
  /\ PutSgc(s, [sgc[s] EXCEPT !.port = ws[s].port, !.prefix = ws[s].prefix])
  /\ SgcDone(s)

(* Status().Patch: the status fields that changed, no precondition.        *)
SgcPatchStatus(s) ==
  LET w == ws[s]
      Pick(old, new, actual) == IF old = new THEN actual ELSE new
  IN
  /\ SgcAt(s, "status")
  /\ UNCHANGED <<sgcRest, lbc, sec, uids, keys>>
  /\ IF Is(sgc[s])
       THEN /\ PutSgc(s, [sgc[s] EXCEPT !.key    = Pick(w.obj.key, w.key, @),
                                        !.port   = Pick(w.obj.port, w.port, @),
                                        !.prefix = Pick(w.obj.prefix, w.prefix, @)])
            /\ SgcDone(s) /\ Keep
       ELSE SgcFail(s) /\ UNCHANGED <<sgc, dirty>>

(* ensureDeleted: the deletes go by name; only NotFound counts as gone.    *)
SgcDeleteSecret(s) ==
  LET w == ws[s] IN
  /\ SgcAt(s, "delSecret")
  /\ UNCHANGED <<sgcRest, sgc, lbc, uids, keys, queue>>
  /\ sec' = [sec EXCEPT ![s][w.obj.uid] = 0]
  /\ dirty' = IF sec[s][w.obj.uid] = 0 THEN dirty ELSE dirty \cup {<<"secdel", s>>}
  /\ ws' = [ws EXCEPT ![s] = [@ EXCEPT !.pc = "delLbc",
                                       !.gone = sec[s][w.obj.uid] = 0]]

(* Faulty variant: a successful delete counts as gone.                     *)
SgcDeleteLbc_NoWait(s) ==
  /\ SgcAt(s, "delLbc")
  /\ UNCHANGED <<sgcRest, sgc, sec, uids, keys, queue>>
  /\ PutLbc(s, Deleted(lbc[s], NoLbc))
  /\ SgcGo(s, "unfin", ws[s].obj)

SgcDeleteLbc(s) ==
  /\ SgcAt(s, "delLbc")
  /\ UNCHANGED <<sgcRest, sgc, sec, uids, keys, queue>>
  /\ PutLbc(s, Deleted(lbc[s], NoLbc))
  /\ IF ws[s].gone /\ ~Is(lbc[s])
       THEN SgcGo(s, "unfin", ws[s].obj)
       ELSE SgcDone(s)      \* wait for the delete events

SgcRemoveFinalizer(s) ==
  /\ SgcAt(s, "unfin")
  /\ UNCHANGED <<sgcRest, lbc, sec, uids, keys>>
  /\ \/ /\ sgc[s] = ws[s].obj
        /\ PutSgc(s, NoSgc) /\ SgcDone(s) /\ Keep
     \/ /\ sgc[s] # ws[s].obj
        /\ SgcFail(s) /\ UNCHANGED <<sgc, dirty>>

SgcStep(s) ==
  \/ SgcStart(s) \/ SgcAddFinalizer(s) \/ reconcileWireguardKey(s)
  \/ reconcileGatewayLBConfig(s) \/ SgcPatchStatus(s)
  \/ SgcDeleteSecret(s) \/ SgcDeleteLbc(s) \/ SgcRemoveFinalizer(s)
=============================================================================
