-------------------------- MODULE ConfigOwnership ----------------------------
(***************************************************************************)
(* The steps of the GatewayLBConfiguration and GatewayVMConfiguration      *)
(* controllers keep OwnerInv: each keeps its own part, the part of the     *)
(* object it owns, and what the others rely on.                            *)
(***************************************************************************)
EXTENDS SgcOwnership, LbController, VmController

-----------------------------------------------------------------------------
(* The types the proofs about GatewayLBConfiguration rely on.              *)
LbcShape ==
  /\ lbc \in [Names -> LbcObj] /\ clbc \in [Names -> LbcObj] /\ wl \in [Names -> LbcWork]
  /\ vmc \in [Names -> VmcObj] /\ cvmc \in [Names -> VmcObj]
  /\ uids \in [Names -> [Kinds -> Nat]]
  /\ \A id \in RuleIds : id = <<id[1], id[2]>>

(* What that says of gateway s.                                            *)
LEMMA LbcShapes ==
  ASSUME LbcShape, NEW s \in Names
  PROVE  /\ lbc[s] \in LbcObj /\ clbc[s] \in LbcObj /\ wl[s] \in LbcWork
         /\ vmc[s] \in VmcObj /\ cvmc[s] \in VmcObj /\ wl[s].obj \in LbcObj
         /\ uids[s].lbc \in Nat /\ uids[s].vmc \in Nat /\ LbcTyped(s)
<1>1. /\ lbc[s] \in LbcObj /\ clbc[s] \in LbcObj /\ wl[s] \in LbcWork
      /\ vmc[s] \in VmcObj /\ cvmc[s] \in VmcObj
  BY Zenon DEF LbcShape
<1>2. wl[s].obj \in LbcObj
  BY <1>1 DEF LbcWork
<1>3. uids[s].lbc \in Nat /\ uids[s].vmc \in Nat
  BY DEF LbcShape, Kinds
<1> QED
  BY Zenon, <1>1, <1>2, <1>3, LbcObjTyped DEF LbcTyped

(* Writes of gateway s.                                                    *)
LEMMA LbcPuts ==
  ASSUME LbcShape, NEW s \in Names
  PROVE  /\ \A o : PutLbc(s, o) => lbc'[s] = o
         /\ \A o : PutVmc(s, o) => vmc'[s] = o
BY Zenon DEF LbcShape, PutLbc, PutVmc

(* An lbConfig's rule is named after its gateway first.                    *)
LEMMA LbcIdName == \A s, o : LbcId(s, o)[1] = s
BY DEF LbcId

(* No reconcile in progress.                                               *)
LEMMA LbcIdleFields == LbcIdle.pc = "idle" /\ LbcIdle.obj = NoLbc
BY DEF LbcIdle

(* Moves of its reconcile.                                                 *)
LEMMA LbcGoes ==
  ASSUME LbcShape, NEW s \in Names
  PROVE  /\ \A pc, o : LbcGo(s, pc, o) => wl'[s].pc = pc /\ wl'[s].obj = o
         /\ LbcDone(s) => wl'[s].pc = "idle" /\ wl'[s].obj = NoLbc
<1>1. wl \in [Names -> LbcWork]
  BY Zenon DEF LbcShape
<1>2. ASSUME NEW pc, NEW o, LbcGo(s, pc, o) PROVE wl'[s].pc = pc /\ wl'[s].obj = o
  BY <1>1, <1>2 DEF LbcGo, LbcWork
<1>3. ASSUME LbcDone(s) PROVE wl'[s].pc = "idle" /\ wl'[s].obj = NoLbc
  BY <1>1, <1>3 DEF LbcDone, LbcIdle
<1> QED
  BY Zenon, <1>2, <1>3

(* Writes of an lbConfig leave UID, owner and deletion alone.              *)
LEMMA LbcWrites ==
  ASSUME NEW o \in LbcObj
  PROVE  /\ LET n == [o EXCEPT !.fin = TRUE]
            IN n.uid = o.uid /\ n.owner = o.owner /\ n.del = o.del /\ n.fin
         /\ \A p, x : LET n == [o EXCEPT !.port = p, !.prefix = x]
                      IN /\ n.uid = o.uid /\ n.owner = o.owner
                         /\ n.del = o.del /\ n.fin = o.fin
BY DEF LbcObj

(* The rules and probes that reconcileLBRule leaves.                       *)
LEMMA RuleIdEffects ==
  ASSUME NEW id, NEW p
  PROVE  /\ lb' = WithRule(lb, id, p) => RuleIds' \subseteq RuleIds \cup {id}
         /\ lb' = WithoutRule(lb, id, p) => RuleIds' \subseteq RuleIds \ {id}
<1>1. ASSUME lb' = WithRule(lb, id, p) PROVE RuleIds' \subseteq RuleIds \cup {id}
  <2>1. lb'.probes = lb.probes \cup {id}
    BY <1>1 DEF WithRule
  <2>2. \A r \in lb'.rules : r.id = id \/ r \in lb.rules
    BY <1>1 DEF WithRule, OtherRules
  <2> QED
    BY <2>1, <2>2 DEF RuleIds
<1>2. ASSUME lb' = WithoutRule(lb, id, p) PROVE RuleIds' \subseteq RuleIds \ {id}
  <2>1. lb'.probes \subseteq lb.probes \ {id}
    BY <1>2 DEF WithoutRule, NoLB
  <2>2. \A r \in lb'.rules : r.id # id /\ r \in lb.rules
    BY <1>2 DEF WithoutRule, NoLB, OtherRules
  <2> QED
    BY <2>1, <2>2 DEF RuleIds
<1> QED
  BY Zenon, <1>1, <1>2

(* A reconcile that ends.                                                  *)
LEMMA LbcEnds ==
  ASSUME LbcShape, NEW s \in Names, LbcInv(s), LbcDone(s),
         UNCHANGED <<lbc[s], clbc[s], vmc[s], RuleIds, uids[s].lbc>>
  PROVE  LbcInv(s)'
<1>1. wl'[s].pc = "idle" /\ wl'[s].obj = NoLbc /\ uids[s].lbc \in Nat
  BY Zenon, LbcGoes, LbcShapes
<1>2. LbcCopies(s)' /\ LbcClaims(s)'
  BY Zenon, <1>1, LbcIdles DEF LbcInv
<1>3. LbcOwned(s)'
  BY Zenon DEF LbcInv, LbcOwned
<1> QED
  BY Zenon, <1>2, <1>3 DEF LbcInv

(* CreateOrPatch of the vmConfig.                                          *)
LEMMA LbcCreates ==
  ASSUME LbcShape, NEW s \in Names, reconcileGatewayVMConfig(s)
  PROVE  \/ LbcFail(s) /\ UNCHANGED <<vmc, uids>>
         \/ /\ Patched(vmc[s], vmc'[s], wl[s].obj.uid, uids[s].vmc + 1)
            /\ uids'[s].vmc = IF vmc'[s].uid > uids[s].vmc THEN vmc'[s].uid ELSE uids[s].vmc
            /\ uids'[s].lbc = uids[s].lbc
            /\ \/ wl'[s].pc = "idle" /\ wl'[s].obj = NoLbc
               \/ wl'[s].pc = "status" /\ wl'[s].obj = wl[s].obj
<1> DEFINE r == CreateOrPatch(cvmc[s], vmc[s], NoVmc, wl[s].obj.uid, wl[s].obj.spec,
                              uids[s].vmc + 1)
           New(x) == [wl[s] EXCEPT !.pc = "status", !.prefix = x]
<1>1. CASE r.err
  BY Zenon, <1>1 DEF reconcileGatewayVMConfig
<1>2. CASE ~r.err
  <2>1. PutVmc(s, r.api) /\ uids' = [uids EXCEPT ![s].vmc = IF r.api.uid > @ THEN r.api.uid ELSE @]
    BY Zenon, <1>2 DEF reconcileGatewayVMConfig
  <2>2. PICK x, b : wl' = [wl EXCEPT ![s] = IF b THEN LbcIdle ELSE New(x)]
    BY Zenon, <1>2 DEF reconcileGatewayVMConfig
  <2>3. Patched(vmc[s], r.api, wl[s].obj.uid, uids[s].vmc + 1)
    <3>1. cvmc[s] \in VmcObj /\ vmc[s] \in VmcObj /\ wl[s].obj \in LbcObj /\ uids[s].vmc \in Nat
      BY Zenon, LbcShapes
    <3>2. uids[s].vmc + 1 \in Nat
      BY <3>1
    <3>3. wl[s].obj.uid \in Nat /\ wl[s].obj.spec \in GwSpec
      BY <3>1 DEF LbcObj
    <3> QED
      BY Zenon, <1>2, <3>1, <3>2, <3>3, CreateOrPatchVmc
  <2> HIDE DEF r
  <2>4. vmc'[s] = r.api
    BY Zenon, <2>1, LbcPuts
  <2>5. /\ uids'[s].vmc = IF r.api.uid > uids[s].vmc THEN r.api.uid ELSE uids[s].vmc
        /\ uids'[s].lbc = uids[s].lbc
    BY <2>1 DEF LbcShape, Kinds
  <2>6. New(x).pc = "status" /\ New(x).obj = wl[s].obj
    BY LbcShapes DEF LbcWork
  <2> HIDE DEF New
  <2>7. wl'[s] = LbcIdle \/ wl'[s] = New(x)
    BY Zenon, <2>2 DEF LbcShape
  <2>8. LbcIdle.pc = "idle" /\ LbcIdle.obj = NoLbc
    BY DEF LbcIdle
  <2> QED
    BY <2>3, <2>4, <2>5, <2>6, <2>7, <2>8
<1> QED
  BY Zenon, <1>1, <1>2

(* Every step of the GatewayLBConfiguration controller keeps its own part. *)
LEMMA LbcStepLbc ==
  ASSUME LbcShape, NEW s \in Names, LbcInv(s), LbcStep(s)
  PROVE  LbcInv(s)'
(* One that starts with the cached copy.                                   *)
<1>Starts. ASSUME Is(clbc[s]), wl'[s].obj = clbc[s],
         \/ clbc[s].del /\ wl'[s].pc = "delVmc"
         \/ ~clbc[s].del /\ wl'[s].pc = IF clbc[s].fin THEN "rule" ELSE "fin",
         UNCHANGED <<lbc[s], clbc[s], vmc[s], RuleIds, uids[s].lbc>>
        PROVE  LbcInv(s)'
  <2> USE <1>Starts
  <2>1. /\ wl'[s].pc \in LbcHolds => clbc[s].fin /\ ~clbc[s].del
        /\ wl'[s].pc \in LbcDooms => clbc[s].del
    BY DEF LbcHolds, LbcDooms
  <2>2. LbcCopies(s)'
    BY <2>1, StartsFromCache DEF LbcInv, LbcCopies
  <2>3. wl'[s].pc \notin {"unrule", "unfin"}
    BY Zenon
  <2>4. LbcClaims(s)'
    BY Zenon, <2>3 DEF LbcClaims
  <2>5. LbcOwned(s)'
    BY Zenon DEF LbcInv, LbcOwned
  <2> QED
    BY Zenon, <2>2, <2>4, <2>5 DEF LbcInv
<1>Start. CASE LbcStart(s)
  <2> USE <1>Start
  <2>1. UNCHANGED <<lbc[s], clbc[s], vmc[s], RuleIds, uids[s].lbc>>
    BY Zenon DEF LbcStart, lbcRest, RuleIds
  <2>2. CASE UNCHANGED wl
    BY Zenon, <2>1, <2>2, LbcFrame
  <2>3. CASE Is(clbc[s]) /\ clbc[s].del /\ LbcGo(s, "delVmc", clbc[s])
    BY Zenon, <2>1, <2>3, <1>Starts, LbcGoes
  <2>4. CASE /\ Is(clbc[s]) /\ ~clbc[s].del
             /\ LbcGo(s, IF clbc[s].fin THEN "rule" ELSE "fin", clbc[s])
    <3>1. wl'[s].pc = (IF clbc[s].fin THEN "rule" ELSE "fin") /\ wl'[s].obj = clbc[s]
      BY Zenon, <2>4, LbcGoes
    <3> QED
      BY Zenon, <2>1, <2>4, <3>1, <1>Starts
  <2> QED
    BY Zenon, <2>2, <2>3, <2>4 DEF LbcStart
<1>AddFinalizer. CASE LbcAddFinalizer(s)
  <2> USE <1>AddFinalizer
  <2>1. UNCHANGED <<clbc[s], vmc[s], RuleIds, uids[s].lbc>> /\ wl[s].pc = "fin"
    BY Zenon DEF LbcAddFinalizer, lbcRest, LbcAt, RuleIds
  <2>2. CASE LbcFail(s) /\ UNCHANGED lbc
    BY Zenon, <2>1, <2>2, LbcEnds DEF LbcFail
  <2>3. CASE /\ lbc[s] = wl[s].obj /\ PutLbc(s, [lbc[s] EXCEPT !.fin = TRUE])
             /\ LbcGo(s, "rule", [lbc[s] EXCEPT !.fin = TRUE])
    <3>1. wl'[s].pc = "rule" /\ wl'[s].obj = lbc'[s]
      BY Zenon, <2>3, LbcGoes, LbcPuts
    <3>2. lbc'[s].uid = lbc[s].uid /\ lbc'[s].del = lbc[s].del /\ lbc'[s].fin
      <4>1. lbc'[s] = [lbc[s] EXCEPT !.fin = TRUE] /\ lbc[s] \in LbcObj
        BY Zenon, <2>3, LbcPuts, LbcShapes
      <4> QED
        BY Zenon, <4>1, LbcWrites
    <3>3. Is(lbc[s])
      BY Zenon, <2>1, <2>3 DEF LbcInv, LbcClaims
    <3>4. LbcCopies(s)'
      BY <2>1, <2>3, <3>1, <3>2, <3>3, Acquires DEF LbcInv, LbcCopies, LbcDooms
    <3>5. LbcClaims(s)'
      BY Zenon, <2>1, <3>1, <3>2, <3>3 DEF LbcClaims, Is
    <3>6. LbcOwned(s)'
      BY Zenon, <2>1, <3>2, <3>3 DEF LbcInv, LbcOwned, Is
    <3> QED
      BY Zenon, <3>4, <3>5, <3>6 DEF LbcInv
  <2> QED
    BY Zenon, <2>2, <2>3 DEF LbcAddFinalizer
<1>EnsureRule. CASE LbcEnsureRule(s)
  <2> USE <1>EnsureRule
  <2> DEFINE id == LbcId(s, wl[s].obj)
             p == wl[s].obj.spec.pool
  <2>1. UNCHANGED <<lbc[s], clbc[s], vmc[s], uids[s].lbc>> /\ wl[s].pc = "rule"
    BY Zenon DEF LbcEnsureRule, lbcRest, LbcAt
  <2>2. CASE LbcFail(s) /\ UNCHANGED lb
    BY Zenon, <2>1, <2>2, LbcEnds DEF LbcFail, RuleIds
  <2>3. CASE /\ lb' = WithRule(lb, id, p)
             /\ wl' = [wl EXCEPT ![s] = [@ EXCEPT !.pc = "vmc", !.port = PortFor(lb, id, p)]]
    <3>1. wl'[s].pc = "vmc" /\ wl'[s].obj = wl[s].obj
      <4>1. PICK n : wl' = [wl EXCEPT ![s] = [@ EXCEPT !.pc = "vmc", !.port = n]]
        BY Zenon, <2>3
      <4> QED
        BY <4>1 DEF LbcShape, LbcWork
    <3>2. RuleIds' \subseteq RuleIds \cup {<<s, wl[s].obj.uid>>}
      BY Zenon, <2>3, RuleIdEffects DEF LbcId
    <3>3. Held(wl[s].obj, lbc[s])
      BY Zenon, <2>1 DEF LbcInv, LbcCopies, LbcHolds, ObjInv
    <3>4. LbcOwned(s)'
      <4>1. \A i \in RuleIds' : i[1] = s => lbc[s].uid = i[2] /\ lbc[s].fin
        BY <3>2, <3>3 DEF LbcInv, LbcOwned, Held
      <4> QED
        BY Zenon, <2>1, <4>1 DEF LbcInv, LbcOwned
    <3>5. LbcCopies(s)'
      BY Zenon, <2>1, <3>1, GoesOn DEF LbcInv, LbcCopies, LbcHolds, LbcDooms
    <3>6. LbcClaims(s)'
      BY Zenon, <3>1, <3>3 DEF LbcClaims, Held
    <3> QED
      BY Zenon, <3>4, <3>5, <3>6 DEF LbcInv
  <2> QED
    BY Zenon, <2>2, <2>3 DEF LbcEnsureRule
<1>Vmc. CASE reconcileGatewayVMConfig(s)
  <2> USE <1>Vmc
  <2>1. UNCHANGED <<lbc[s], clbc[s], RuleIds>> /\ wl[s].pc = "vmc"
    BY Zenon DEF reconcileGatewayVMConfig, lbcRest, LbcAt, RuleIds
  <2>2. CASE LbcFail(s) /\ UNCHANGED <<vmc, uids>>
    BY Zenon, <2>1, <2>2, LbcEnds DEF LbcFail
  <2>3. CASE /\ Patched(vmc[s], vmc'[s], wl[s].obj.uid, uids[s].vmc + 1)
             /\ uids'[s].lbc = uids[s].lbc
             /\ \/ wl'[s].pc = "idle" /\ wl'[s].obj = NoLbc
                \/ wl'[s].pc = "status" /\ wl'[s].obj = wl[s].obj
    <3>1. Is(lbc[s]) /\ lbc[s].fin /\ lbc[s].uid = wl[s].obj.uid
      BY Zenon, <2>1 DEF LbcInv, LbcCopies, LbcHolds, ObjInv, Held, Is
    <3>2. LbcOwned(s)'
      <4>1. Is(vmc'[s]) => vmc'[s].owner = lbc[s].uid
        BY Zenon, <2>3, <3>1 DEF LbcInv, LbcOwned, Patched
      <4> QED
        BY Zenon, <2>1, <3>1, <4>1 DEF LbcInv, LbcOwned
    <3>3. CASE wl'[s].pc = "idle" /\ wl'[s].obj = NoLbc
      BY Zenon, <2>1, <2>3, <3>2, <3>3, LbcIdles, LbcShapes DEF LbcInv
    <3>4. CASE wl'[s].pc = "status" /\ wl'[s].obj = wl[s].obj
      <4>1. LbcCopies(s)'
        BY Zenon, <2>1, <2>3, <3>4, GoesOn DEF LbcInv, LbcCopies, LbcHolds, LbcDooms
      <4>2. LbcClaims(s)'
        BY Zenon, <2>1, <3>1, <3>4 DEF LbcClaims, Is
      <4> QED
        BY Zenon, <3>2, <4>1, <4>2 DEF LbcInv
    <3> QED
      BY Zenon, <2>3, <3>3, <3>4
  <2> QED
    BY Zenon, <2>2, <2>3, LbcCreates
<1>Status. CASE LbcUpdateStatus(s)
  <2> USE <1>Status
  <2>1. UNCHANGED <<clbc[s], vmc[s], RuleIds, uids[s].lbc>> /\ LbcDone(s)
    BY Zenon DEF LbcUpdateStatus, lbcRest, RuleIds
  <2>2. CASE UNCHANGED lbc
    BY Zenon, <2>1, <2>2, LbcEnds
  <2>3. CASE lbc[s] = wl[s].obj /\ PutLbc(s, [lbc[s] EXCEPT !.port = wl[s].port, !.prefix = wl[s].prefix])
    <3>1. Is(lbc[s])
      <4>1. wl[s].pc # "idle"
        BY Zenon DEF LbcUpdateStatus, LbcAt
      <4> QED
        BY Zenon, <2>3, <4>1 DEF LbcInv, LbcClaims
    <3>2. PICK p, x : lbc'[s] = [lbc[s] EXCEPT !.port = p, !.prefix = x]
      BY Zenon, <2>3, LbcPuts
    <3>3. lbc'[s].uid = lbc[s].uid /\ lbc'[s].del = lbc[s].del /\ lbc'[s].fin = lbc[s].fin
      BY <3>2, LbcWrites, LbcShapes
    <3>4. wl'[s].pc = "idle" /\ wl'[s].obj = NoLbc /\ uids[s].lbc \in Nat
      BY Zenon, <2>1, LbcGoes, LbcShapes
    <3>5. LbcCopies(s)'
      <4>1. ObjInv(lbc[s], clbc[s], NoLbc, "idle", LbcHolds, LbcDooms, NoLbc, uids[s].lbc)
        BY <3>4, EndsEmpty, NoObjFields DEF LbcInv, LbcCopies, LbcHolds, LbcDooms
      <4>2. ObjInv(lbc'[s], clbc[s], NoLbc, "idle", LbcHolds, LbcDooms, NoLbc, uids[s].lbc)
        BY Zenon, <3>1, <3>3, <4>1, Rewritten DEF LbcHolds
      <4> QED
        BY Zenon, <2>1, <3>4, <4>2 DEF LbcCopies
    <3>6. LbcClaims(s)'
      BY Zenon, <3>4 DEF LbcClaims
    <3>7. LbcOwned(s)'
      BY Zenon, <2>1, <3>3 DEF LbcInv, LbcOwned, Is
    <3> QED
      BY Zenon, <3>5, <3>6, <3>7 DEF LbcInv
  <2> QED
    BY Zenon, <2>2, <2>3 DEF LbcUpdateStatus
<1>DeleteVmc. CASE LbcDeleteVmc(s)
  <2> USE <1>DeleteVmc
  <2>1. UNCHANGED <<lbc[s], clbc[s], RuleIds, uids[s].lbc>> /\ wl[s].pc = "delVmc"
    BY Zenon DEF LbcDeleteVmc, lbcRest, LbcAt, RuleIds
  <2>2. Is(vmc'[s]) => Is(vmc[s]) /\ vmc'[s].owner = vmc[s].owner
    <3>1. vmc'[s] = Deleted(vmc[s], NoVmc) /\ vmc[s] \in VmcObj
      BY Zenon, LbcPuts, LbcShapes DEF LbcDeleteVmc
    <3> QED
      BY Zenon, <3>1, VmcDeleted, NoObjFields DEF Is
  <2>3. LbcOwned(s)'
    BY Zenon, <2>1, <2>2 DEF LbcInv, LbcOwned
  <2>4. CASE LbcDone(s)
    <3>1. wl'[s].pc = "idle" /\ wl'[s].obj = NoLbc /\ uids[s].lbc \in Nat
      BY Zenon, <2>4, LbcGoes, LbcShapes
    <3> QED
      BY Zenon, <2>1, <2>3, <3>1, LbcIdles DEF LbcInv
  <2>5. CASE ~Is(vmc[s]) /\ LbcGo(s, "unrule", wl[s].obj)
    <3>1. wl'[s].pc = "unrule" /\ wl'[s].obj = wl[s].obj
      BY Zenon, <2>5, LbcGoes
    <3>2. LbcCopies(s)'
      BY <2>1, <3>1, GoesOn DEF LbcInv, LbcCopies, LbcHolds, LbcDooms
    <3>3. LbcClaims(s)'
      BY Zenon, <2>1, <2>2, <2>5, <3>1 DEF LbcInv, LbcClaims
    <3> QED
      BY Zenon, <2>3, <3>2, <3>3 DEF LbcInv
  <2> QED
    BY Zenon, <2>4, <2>5 DEF LbcDeleteVmc
<1>RemoveRule. CASE LbcRemoveRule(s)
  <2> USE <1>RemoveRule
  <2> DEFINE id == LbcId(s, wl[s].obj)
             p == wl[s].obj.spec.pool
  <2>1. UNCHANGED <<lbc[s], clbc[s], vmc[s], uids[s].lbc>> /\ wl[s].pc = "unrule"
    BY Zenon DEF LbcRemoveRule, lbcRest, LbcAt
  <2>2. CASE LbcFail(s) /\ UNCHANGED lb
    BY Zenon, <2>1, <2>2, LbcEnds DEF LbcFail, RuleIds
  <2>3. CASE lb' = WithoutRule(lb, id, p) /\ LbcGo(s, "unfin", wl[s].obj)
    <3>1. wl'[s].pc = "unfin" /\ wl'[s].obj = wl[s].obj
      BY Zenon, <2>3, LbcGoes
    <3>2. RuleIds' \subseteq RuleIds \ {<<s, wl[s].obj.uid>>}
      BY Zenon, <2>3, RuleIdEffects DEF LbcId
    <3>3. LbcCopies(s)'
      BY Zenon, <2>1, <3>1, GoesOn DEF LbcInv, LbcCopies, LbcHolds, LbcDooms
    <3>4. LbcClaims(s)'
      BY Zenon, <2>1, <3>1, <3>2 DEF LbcInv, LbcClaims
    <3>5. LbcOwned(s)'
      BY Zenon, <2>1, <3>2 DEF LbcInv, LbcOwned
    <3> QED
      BY Zenon, <3>3, <3>4, <3>5 DEF LbcInv
  <2> QED
    BY Zenon, <2>2, <2>3 DEF LbcRemoveRule
<1>RemoveFinalizer. CASE LbcRemoveFinalizer(s)
  <2> USE <1>RemoveFinalizer
  <2>1. UNCHANGED <<clbc[s], vmc[s], RuleIds, uids[s].lbc>> /\ wl[s].pc = "unfin"
    BY Zenon DEF LbcRemoveFinalizer, lbcRest, LbcAt, RuleIds
  <2>2. CASE LbcFail(s) /\ UNCHANGED lbc
    BY Zenon, <2>1, <2>2, LbcEnds DEF LbcFail
  <2>3. CASE lbc[s] = wl[s].obj /\ PutLbc(s, NoLbc) /\ LbcDone(s)
    <3>1. lbc'[s] = NoLbc /\ wl'[s].pc = "idle" /\ wl'[s].obj = NoLbc
      BY Zenon, <2>3, LbcPuts, LbcGoes
    <3>2. LbcCopies(s)'
      <4>1. ObjInv(lbc[s], clbc[s], lbc[s], "unfin", LbcHolds, LbcDooms, NoLbc, uids[s].lbc)
        BY Zenon, <2>1, <2>3 DEF LbcInv, LbcCopies
      <4>2. ObjInv(NoLbc, clbc[s], NoLbc, "idle", LbcHolds, LbcDooms, NoLbc, uids[s].lbc)
        BY <4>1, Releases, NoObjFields, LbcShapes DEF LbcHolds, LbcDooms
      <4> QED
        BY Zenon, <2>1, <3>1, <4>2 DEF LbcCopies
    <3>3. ~Is(vmc[s]) /\ <<s, lbc[s].uid>> \notin RuleIds
      BY Zenon, <2>1, <2>3 DEF LbcInv, LbcClaims
    <3>4. LbcOwned(s)'
      <4>1. \A i \in RuleIds : i = <<i[1], i[2]>>
        BY Zenon DEF LbcShape
      <4>2. \A i \in RuleIds : i[1] # s
        BY Zenon, <3>3, <4>1 DEF LbcInv, LbcOwned
      <4> QED
        BY Zenon, <2>1, <3>3, <4>2 DEF LbcOwned
    <3>5. LbcClaims(s)'
      BY Zenon, <3>1 DEF LbcClaims
    <3> QED
      BY Zenon, <3>2, <3>4, <3>5 DEF LbcInv
  <2> QED
    BY Zenon, <2>2, <2>3 DEF LbcRemoveFinalizer
<1> QED
  BY Zenon, <1>Start, <1>AddFinalizer, <1>EnsureRule, <1>Vmc, <1>Status,
   <1>DeleteVmc, <1>RemoveRule, <1>RemoveFinalizer DEF LbcStep

-----------------------------------------------------------------------------
(* What its steps leave alone.                                             *)
LEMMA LbcStepRest ==
  ASSUME NEW s, LbcStep(s)
  PROVE  /\ UNCHANGED <<csgc, clbc, cvmc, sgc, sec, ws, wv, prefixes>>
         /\ reconcileGatewayVMConfig(s) \/ LbcDeleteVmc(s) \/ UNCHANGED vmc
         /\ reconcileGatewayVMConfig(s) \/ UNCHANGED uids
         /\ \/ UNCHANGED lb
            \/ lb' = WithRule(lb, LbcId(s, wl[s].obj), wl[s].obj.spec.pool)
            \/ lb' = WithoutRule(lb, LbcId(s, wl[s].obj), wl[s].obj.spec.pool)
BY Zenon DEF LbcStep, LbcStart, LbcAddFinalizer, LbcEnsureRule, reconcileGatewayVMConfig,
   LbcUpdateStatus, LbcDeleteVmc, LbcRemoveRule, LbcRemoveFinalizer, lbcRest

(* They take no vmConfig from under the GatewayVMConfiguration controller. *)
LEMMA LbcStepVmc ==
  ASSUME LbcShape, NEW s \in Names, VmcInv(s), VmcTyped(s), LbcStep(s)
  PROVE  VmcInv(s)'
<1>1. UNCHANGED <<cvmc[s], wv[s], prefixes>>
  BY Zenon, LbcStepRest
<1>2. CASE UNCHANGED vmc[s] /\ UNCHANGED uids
  BY Zenon, <1>1, <1>2, VmcFrame
<1>3. CASE LbcDeleteVmc(s)
  <2>1. vmc'[s] = Deleted(vmc[s], NoVmc) /\ vmc[s] \in VmcObj /\ UNCHANGED uids
    BY Zenon, <1>3, LbcPuts, LbcShapes DEF LbcDeleteVmc
  <2>2. /\ Outside(vmc[s], vmc'[s], NoVmc, uids[s].vmc)
        /\ vmc'[s].uid <= uids[s].vmc /\ uids[s].vmc \in Nat
    <3>1. \/ vmc'[s] = NoVmc /\ ~vmc[s].fin
          \/ /\ vmc'[s].uid = vmc[s].uid /\ vmc'[s].fin = TRUE /\ vmc[s].fin = TRUE
             /\ vmc'[s].del = TRUE
      BY Zenon, <2>1, VmcDeleted
    <3>2. uids[s].vmc \in Nat
      BY Zenon, LbcShapes
    <3> QED
      BY Zenon, <3>1, <3>2, DeletesOutside, NoObjFields DEF VmcInv, VmcCopies
  <2> QED
    BY <1>1, <2>1, <2>2, VmcOutside
<1>4. CASE reconcileGatewayVMConfig(s)
  <2>1. CASE LbcFail(s) /\ UNCHANGED <<vmc, uids>>
    BY Zenon, <1>2, <2>1
  <2>2. CASE /\ Patched(vmc[s], vmc'[s], wl[s].obj.uid, uids[s].vmc + 1)
             /\ uids'[s].vmc = IF vmc'[s].uid > uids[s].vmc THEN vmc'[s].uid ELSE uids[s].vmc
    <3>1. Outside(vmc[s], vmc'[s], NoVmc, uids[s].vmc)
      BY Zenon, <2>2 DEF Outside, Patched
    <3>2. vmc'[s].uid \in Nat /\ uids[s].vmc \in Nat
      BY <2>2, LbcShapes DEF Patched, VmcTyped, Typed
    <3>3. /\ uids'[s].vmc \in Nat /\ uids'[s].vmc >= uids[s].vmc
          /\ vmc'[s].uid <= uids'[s].vmc
      BY <2>2, <3>2
    <3> QED
      BY Zenon, <1>1, <3>1, <3>3, VmcOutside
  <2> QED
    BY Zenon, <1>4, <2>1, <2>2, LbcCreates
<1> QED
  BY Zenon, <1>2, <1>3, <1>4, LbcStepRest

(* An lbConfig that is there after a step was there before, with its owner. *)
LEMMA LbcKeepsOwner ==
  ASSUME LbcShape, NEW s \in Names, LbcInv(s), LbcStep(s)
  PROVE  Is(lbc'[s]) => Is(lbc[s]) /\ lbc'[s].owner = lbc[s].owner
<1>1. CASE LbcAddFinalizer(s)
  <2>1. CASE UNCHANGED lbc
    BY Zenon, <2>1
  <2>2. CASE PutLbc(s, [lbc[s] EXCEPT !.fin = TRUE])
    <3>1. lbc'[s] = [lbc[s] EXCEPT !.fin = TRUE] /\ lbc[s] \in LbcObj
      BY Zenon, <2>2, LbcPuts, LbcShapes
    <3>2. lbc'[s].uid = lbc[s].uid /\ lbc'[s].owner = lbc[s].owner
      BY <3>1 DEF LbcObj
    <3> QED
      BY Zenon, <3>2 DEF Is
  <2> QED
    BY Zenon, <1>1, <2>1, <2>2 DEF LbcAddFinalizer
<1>2. CASE LbcUpdateStatus(s)
  <2>1. CASE UNCHANGED lbc
    BY Zenon, <2>1
  <2>2. ASSUME NEW p, NEW x, PutLbc(s, [lbc[s] EXCEPT !.port = p, !.prefix = x])
        PROVE  Is(lbc'[s]) => Is(lbc[s]) /\ lbc'[s].owner = lbc[s].owner
    <3>1. lbc'[s] = [lbc[s] EXCEPT !.port = p, !.prefix = x] /\ lbc[s] \in LbcObj
      BY Zenon, <2>2, LbcPuts, LbcShapes
    <3>2. lbc'[s].uid = lbc[s].uid /\ lbc'[s].owner = lbc[s].owner
      BY <3>1 DEF LbcObj
    <3> QED
      BY Zenon, <3>2 DEF Is
  <2> QED
    BY Zenon, <1>2, <2>1, <2>2 DEF LbcUpdateStatus
<1>3. CASE LbcRemoveFinalizer(s)
  <2>1. UNCHANGED lbc \/ lbc'[s] = NoLbc
    BY Zenon, <1>3, LbcPuts DEF LbcRemoveFinalizer
  <2> QED
    BY Zenon, <2>1, NoObjFields DEF Is
<1>4. CASE UNCHANGED lbc
  BY Zenon, <1>4
<1> QED
  BY Zenon, <1>1, <1>2, <1>3, <1>4 DEF LbcStep, LbcStart, LbcEnsureRule,
     reconcileGatewayVMConfig, LbcDeleteVmc, LbcRemoveRule

(* A step for gateway s keeps the invariant of s.                          *)
LEMMA LbcStepOwner ==
  ASSUME LbcShape, NEW s \in Names, VmcTyped(s), GatewayInv(s), LbcStep(s)
  PROVE  GatewayInv(s)'
<1>1. LbcInv(s)' /\ VmcInv(s)'
  BY Zenon, LbcStepLbc, LbcStepVmc DEF GatewayInv
<1>2. UNCHANGED <<sgc[s], csgc[s], ws[s], sec[s]>>
  BY Zenon, LbcStepRest
<1>3. uids'[s].sgc = uids[s].sgc
  <2>1. CASE reconcileGatewayVMConfig(s) /\ ~UNCHANGED uids
    <3>1. PICK n : uids' = [uids EXCEPT ![s].vmc = n]
      BY Zenon, <2>1 DEF reconcileGatewayVMConfig
    <3> QED
      BY <3>1 DEF LbcShape, Kinds
  <2> QED
    BY Zenon, <2>1, LbcStepRest
<1>4. SgcInv(s)'
  BY Zenon, <1>2, <1>3, LbcKeepsOwner, SgcFrame DEF GatewayInv
<1> QED
  BY Zenon, <1>1, <1>4 DEF GatewayInv

(* It leaves the other gateways alone.                                     *)
LEMMA LbcStepElsewhere ==
  ASSUME LbcShape, NEW s \in Names, NEW t \in Names \ {s}, LbcStep(s)
  PROVE  Untouched(t)
<1>a. /\ \A o : PutLbc(s, o) => lbc'[t] = lbc[t]
      /\ \A o : PutVmc(s, o) => vmc'[t] = vmc[t]
      /\ \A w : wl' = [wl EXCEPT ![s] = w] => wl'[t] = wl[t]
      /\ \A n : uids' = [uids EXCEPT ![s].vmc = n] => uids'[t] = uids[t]
  BY Zenon DEF LbcShape, PutLbc, PutVmc
<1>b. /\ \A pc, o : LbcGo(s, pc, o) => wl'[t] = wl[t]
      /\ LbcDone(s) => wl'[t] = wl[t]
  BY Zenon, <1>a DEF LbcGo, LbcDone
<1>1. UNCHANGED <<lbc[t], wl[t], vmc[t], uids[t]>>
  <2>1. CASE LbcStart(s)
    BY Zenon, <1>b, <2>1 DEF LbcStart
  <2>2. CASE LbcAddFinalizer(s)
    BY Zenon, <1>a, <1>b, <2>2 DEF LbcAddFinalizer, LbcFail
  <2>3. CASE LbcEnsureRule(s)
    BY Zenon, <1>a, <1>b, <2>3 DEF LbcEnsureRule, LbcFail
  <2>4. CASE reconcileGatewayVMConfig(s)
    BY Zenon, <1>a, <1>b, <2>4 DEF reconcileGatewayVMConfig, LbcFail
  <2>5. CASE LbcUpdateStatus(s)
    BY Zenon, <1>a, <1>b, <2>5 DEF LbcUpdateStatus
  <2>6. CASE LbcDeleteVmc(s)
    BY Zenon, <1>a, <1>b, <2>6 DEF LbcDeleteVmc
  <2>7. CASE LbcRemoveRule(s)
    BY Zenon, <1>b, <2>7 DEF LbcRemoveRule, LbcFail
  <2>8. CASE LbcRemoveFinalizer(s)
    BY Zenon, <1>a, <1>b, <2>8 DEF LbcRemoveFinalizer, LbcFail
  <2> QED
    BY Zenon, <2>1, <2>2, <2>3, <2>4, <2>5, <2>6, <2>7, <2>8 DEF LbcStep
<1>2. \A id \in RuleIds' : id[1] = t => id \in RuleIds
  <2>1. LbcId(s, wl[s].obj)[1] = s
    BY DEF LbcId
  <2>2. RuleIds' \subseteq RuleIds \cup {LbcId(s, wl[s].obj)}
    <3>1. CASE UNCHANGED lb
      BY Zenon, <3>1 DEF RuleIds
    <3> QED
      BY Zenon, <3>1, LbcStepRest, RuleIdEffects
  <2> QED
    BY Zenon, <2>1, <2>2
<1> QED
  BY Zenon, <1>1, <1>2, LbcStepRest DEF Untouched

-----------------------------------------------------------------------------
(* The types the proofs about GatewayVMConfiguration rely on.              *)
VmcShape ==
  /\ vmc \in [Names -> VmcObj] /\ cvmc \in [Names -> VmcObj] /\ wv \in [Names -> VmcWork]
  /\ uids \in [Names -> [Kinds -> Nat]]
  /\ \A id \in prefixes : id = <<id[1], id[2]>>

(* What that says of gateway s.                                            *)
LEMMA VmcShapes ==
  ASSUME VmcShape, NEW s \in Names
  PROVE  /\ vmc[s] \in VmcObj /\ cvmc[s] \in VmcObj /\ wv[s] \in VmcWork
         /\ wv[s].obj \in VmcObj /\ uids[s].vmc \in Nat
<1>1. vmc[s] \in VmcObj /\ cvmc[s] \in VmcObj /\ wv[s] \in VmcWork
  BY Zenon DEF VmcShape
<1>2. wv[s].obj \in VmcObj
  BY <1>1 DEF VmcWork
<1>3. uids[s].vmc \in Nat
  BY DEF VmcShape, Kinds
<1> QED
  BY Zenon, <1>1, <1>2, <1>3

(* No reconcile in progress.                                               *)
LEMMA VmcIdleFields == VmcIdle.pc = "idle" /\ VmcIdle.obj = NoVmc
BY DEF VmcIdle

(* Without its reconcile, what is known of a vmConfig and its copy stays.  *)
LEMMA VmcForgets ==
  ASSUME NEW s, VmcCopies(s), uids[s].vmc \in Nat
  PROVE  ObjInv(vmc[s], cvmc[s], NoVmc, "idle", VmcHolds(NoVmc), VmcDooms, NoVmc, uids[s].vmc)
<1>1. ObjInv(vmc[s], cvmc[s], wv[s].obj, wv[s].pc, VmcHolds(wv[s].obj), VmcDooms, NoVmc,
             uids[s].vmc)
  BY Zenon DEF VmcCopies
<1> QED
  BY <1>1, EndsEmpty, IdleHolds, NoObjFields

(* Writes of gateway s and moves of its reconcile.                         *)
LEMMA VmcGoes ==
  ASSUME VmcShape, NEW s \in Names
  PROVE  /\ \A o : PutVmc(s, o) => vmc'[s] = o
         /\ \A pc, o : VmcGo(s, pc, o) => wv'[s].pc = pc /\ wv'[s].obj = o
         /\ VmcDone(s) => wv'[s].pc = "idle" /\ wv'[s].obj = NoVmc
<1>1. wv \in [Names -> VmcWork]
  BY Zenon DEF VmcShape
<1>2. ASSUME NEW pc, NEW o, VmcGo(s, pc, o) PROVE wv'[s].pc = pc /\ wv'[s].obj = o
  BY <1>1, <1>2 DEF VmcGo, VmcWork
<1>3. ASSUME VmcDone(s) PROVE wv'[s].pc = "idle" /\ wv'[s].obj = NoVmc
  BY <1>1, <1>3 DEF VmcDone, VmcIdle
<1>4. ASSUME NEW o, PutVmc(s, o) PROVE vmc'[s] = o
  BY Zenon, <1>4 DEF VmcShape, PutVmc
<1> QED
  BY Zenon, <1>2, <1>3, <1>4

(* Writes of a vmConfig leave UID, owner and deletion alone.               *)
LEMMA VmcWrites ==
  ASSUME NEW o \in VmcObj
  PROVE  /\ \A n : n = [o EXCEPT !.fin = TRUE] =>
              n.uid = o.uid /\ n.owner = o.owner /\ n.del = o.del /\ n.fin = TRUE
         /\ \A n : n = [o EXCEPT !.st = TRUE] =>
              n.uid = o.uid /\ n.owner = o.owner /\ n.del = o.del /\ n.fin = o.fin
         /\ \A n, x : n = [o EXCEPT !.prefix = x] =>
              n.uid = o.uid /\ n.owner = o.owner /\ n.del = o.del /\ n.fin = o.fin
BY DEF VmcObj

(* A reconcile that ends.                                                  *)
LEMMA VmcEnds ==
  ASSUME VmcShape, NEW s \in Names, VmcInv(s), VmcDone(s),
         UNCHANGED <<vmc[s], cvmc[s], uids[s].vmc>>, VmcOwned(s)'
  PROVE  VmcInv(s)'
<1>1. wv'[s].pc = "idle" /\ wv'[s].obj = NoVmc /\ uids[s].vmc \in Nat
  BY Zenon, VmcGoes, VmcShapes
<1> QED
  BY Zenon, <1>1, VmcIdles DEF VmcInv

(* One that goes on with its copy.                                         *)
LEMMA VmcMoves ==
  ASSUME NEW s, VmcInv(s), wv[s].pc # "idle", wv'[s].obj = wv[s].obj,
         wv'[s].pc \in VmcHolds(wv[s].obj) => wv[s].pc \in VmcHolds(wv[s].obj),
         wv'[s].pc \in VmcDooms => wv[s].pc \in VmcDooms,
         wv'[s].pc = "unfin" => <<s, wv[s].obj.uid>> \notin prefixes',
         UNCHANGED <<vmc[s], cvmc[s], uids[s].vmc>>, VmcOwned(s)'
  PROVE  VmcInv(s)'
<1>1. ObjInv(vmc[s], cvmc[s], wv[s].obj, wv'[s].pc, VmcHolds(wv[s].obj), VmcDooms, NoVmc,
             uids[s].vmc)
  BY Zenon, GoesOn DEF VmcInv, VmcCopies
<1>2. VmcCopies(s)'
  BY Zenon, <1>1 DEF VmcCopies
<1>3. VmcClaims(s)'
  BY Zenon DEF VmcInv, VmcClaims
<1> QED
  BY Zenon, <1>2, <1>3 DEF VmcInv

(* The prefixes only shrink.                                               *)
LEMMA VmcFewer ==
  ASSUME NEW s, VmcOwned(s), UNCHANGED vmc[s], prefixes' \subseteq prefixes
  PROVE  VmcOwned(s)'
BY Zenon DEF VmcOwned

(* At the places where the object is held, or is to be removed.            *)
LEMMA VmcPlaces ==
  ASSUME NEW w
  PROVE  /\ {"prefix", "pool", "profiles", "unprefix", "status"} \subseteq VmcHolds(w)
         /\ "listed" \in VmcHolds(w) <=> w.fin
         /\ \A pc \in {"idle", "fin", "delPool", "delPrefix", "unfin"} : pc \notin VmcHolds(w)
         /\ \A pc \in {"delPool", "delPrefix", "unfin"} : pc \in VmcDooms
         /\ \A pc \in {"idle", "listed", "fin", "prefix", "pool", "profiles", "unprefix",
                       "status"} : pc \notin VmcDooms
BY DEF VmcHolds, VmcDooms

(* One that starts with the cached copy.                                   *)
LEMMA VmcStarts ==
  ASSUME NEW s, VmcInv(s), Is(cvmc[s]), wv'[s].obj = cvmc[s],
         \/ cvmc[s].del /\ wv'[s].pc = "delPool"
         \/ ~cvmc[s].del /\ wv'[s].pc = "listed"
         \/ ~cvmc[s].del /\ cvmc[s].fin /\ wv'[s].pc = "prefix"
         \/ ~cvmc[s].del /\ wv'[s].pc = "fin",
         UNCHANGED <<vmc[s], cvmc[s], prefixes, uids[s].vmc>>
  PROVE  VmcInv(s)'
<1>1. /\ wv'[s].pc \in VmcHolds(cvmc[s]) => cvmc[s].fin /\ ~cvmc[s].del
      /\ wv'[s].pc \in VmcDooms => cvmc[s].del
  BY VmcPlaces
<1>2. ObjInv(vmc[s], cvmc[s], cvmc[s], wv'[s].pc, VmcHolds(cvmc[s]), VmcDooms, NoVmc,
             uids[s].vmc)
  BY <1>1, StartsFromCache DEF VmcInv, VmcCopies
<1>3. VmcCopies(s)'
  BY Zenon, <1>2 DEF VmcCopies
<1>4. wv'[s].pc # "unfin"
  BY Zenon
<1>5. VmcClaims(s)'
  BY Zenon, <1>4 DEF VmcClaims
<1>6. VmcOwned(s)'
  BY Zenon DEF VmcInv, VmcOwned
<1> QED
  BY Zenon, <1>3, <1>5, <1>6 DEF VmcInv

(* Every step of the GatewayVMConfiguration controller keeps its own part. *)
LEMMA VmcStepVmc ==
  ASSUME VmcShape, NEW s \in Names, VmcInv(s), VmcStep(s)
  PROVE  VmcInv(s)'
<1>Start. CASE VmcStart(s)
  <2> USE <1>Start
  <2>1. UNCHANGED <<vmc[s], cvmc[s], prefixes, uids[s].vmc>>
    BY Zenon DEF VmcStart, vmcRest
  <2>2. CASE UNCHANGED wv
    BY Zenon, <2>1, <2>2, VmcFrame
  <2>3. CASE Is(cvmc[s]) /\ cvmc[s].del /\ VmcGo(s, "delPool", cvmc[s])
    BY Zenon, <2>1, <2>3, VmcStarts, VmcGoes
  <2>4. CASE /\ Is(cvmc[s]) /\ ~cvmc[s].del
             /\ VmcGo(s, IF cvmc[s].fin THEN "prefix" ELSE "fin", cvmc[s])
    <3>1. wv'[s].obj = cvmc[s] /\ wv'[s].pc = IF cvmc[s].fin THEN "prefix" ELSE "fin"
      BY Zenon, <2>4, VmcGoes
    <3> QED
      BY Zenon, <2>1, <2>4, <3>1, VmcStarts
  <2> QED
    BY Zenon, <2>2, <2>3, <2>4 DEF VmcStart
<1>NodeNext. CASE VmcNodeNext(s)
  <2> USE <1>NodeNext
  <2>1. UNCHANGED <<vmc[s], cvmc[s], prefixes, uids[s].vmc>> /\ wv[s].pc = "listed"
    BY Zenon DEF VmcNodeNext, vmcRest, VmcAt
  <2>2. wv'[s].obj = wv[s].obj /\ wv'[s].pc = IF wv[s].obj.fin THEN "prefix" ELSE "fin"
    BY Zenon, VmcGoes DEF VmcNodeNext
  <2>3. VmcOwned(s)'
    BY Zenon, <2>1 DEF VmcInv, VmcOwned
  <2>4. /\ wv'[s].pc \in VmcHolds(wv[s].obj) => wv[s].pc \in VmcHolds(wv[s].obj)
        /\ wv'[s].pc \notin VmcDooms /\ wv'[s].pc # "unfin"
    BY Zenon, <2>1, <2>2, VmcPlaces
  <2> QED
    BY Zenon, <2>1, <2>2, <2>3, <2>4, VmcMoves
(* The vmConfig is written for a reconcile that goes on with what it wrote.*)
<1>Saves. ASSUME vmc[s] = wv[s].obj, wv[s].pc # "idle",
         vmc'[s].uid = vmc[s].uid, vmc'[s].del = vmc[s].del, vmc'[s].fin = TRUE,
         \/ wv'[s].pc = "idle" /\ wv'[s].obj = NoVmc
         \/ wv'[s].pc \in {"prefix", "unprefix", "status"} /\ wv'[s].obj = vmc'[s],
         UNCHANGED <<cvmc[s], prefixes, uids[s].vmc>>
        PROVE  VmcInv(s)'
  <2> USE <1>Saves
  <2>1. Is(vmc[s])
    BY Zenon DEF VmcInv, VmcClaims
  <2>2. ObjInv(vmc[s], cvmc[s], vmc[s], wv[s].pc, VmcHolds(wv[s].obj), VmcDooms, NoVmc, uids[s].vmc)
    BY Zenon DEF VmcInv, VmcCopies
  <2>3. ASSUME NEW pc, NEW H, pc \notin VmcDooms
        PROVE  ObjInv(vmc'[s], cvmc[s], vmc'[s], pc, H, VmcDooms, NoVmc, uids[s].vmc)
    BY <2>1, <2>2, <2>3, Acquires
  <2>4. VmcOwned(s)'
    BY Zenon DEF VmcInv, VmcOwned
  <2>5. CASE wv'[s].pc = "idle" /\ wv'[s].obj = NoVmc
    <3>1. ObjInv(vmc'[s], cvmc[s], NoVmc, "idle", VmcHolds(NoVmc), VmcDooms, NoVmc, uids[s].vmc)
      <4>1. uids[s].vmc \in Nat
        BY Zenon, VmcShapes
      <4>2. ObjInv(vmc'[s], cvmc[s], vmc'[s], "idle", {}, VmcDooms, NoVmc, uids[s].vmc)
        BY Zenon, <2>3, VmcPlaces
      <4> QED
        BY <4>1, <4>2, EndsEmpty, NoObjFields, VmcPlaces
    <3>2. VmcCopies(s)'
      BY Zenon, <2>5, <3>1 DEF VmcCopies
    <3>3. VmcClaims(s)'
      BY Zenon, <2>5 DEF VmcClaims
    <3> QED
      BY Zenon, <2>4, <3>2, <3>3 DEF VmcInv
  <2>6. CASE wv'[s].pc \in {"prefix", "unprefix", "status"} /\ wv'[s].obj = vmc'[s]
    <3>1. wv'[s].pc \notin VmcDooms
      BY Zenon, <2>6, VmcPlaces
    <3>2. ObjInv(vmc'[s], cvmc[s], vmc'[s], wv'[s].pc, VmcHolds(vmc'[s]), VmcDooms, NoVmc,
                 uids[s].vmc)
      BY Zenon, <2>3, <3>1
    <3>3. VmcCopies(s)'
      BY Zenon, <2>6, <3>2 DEF VmcCopies
    <3>4. VmcClaims(s)'
      BY Zenon, <2>1, <2>6 DEF VmcClaims, Is
    <3> QED
      BY Zenon, <2>4, <3>3, <3>4 DEF VmcInv
  <2> QED
    BY Zenon, <2>5, <2>6
<1>AddFinalizer. CASE VmcAddFinalizer(s)
  <2> USE <1>AddFinalizer
  <2>1. UNCHANGED <<cvmc[s], prefixes, uids[s].vmc>> /\ wv[s].pc = "fin"
    BY Zenon DEF VmcAddFinalizer, vmcRest, VmcAt
  <2>2. CASE VmcFail(s) /\ UNCHANGED vmc
    BY Zenon, <2>1, <2>2, VmcEnds, VmcFewer DEF VmcFail, VmcInv
  <2>3. CASE /\ vmc[s] = wv[s].obj /\ PutVmc(s, [vmc[s] EXCEPT !.fin = TRUE])
             /\ VmcGo(s, "prefix", [vmc[s] EXCEPT !.fin = TRUE])
    <3>1. wv'[s].pc = "prefix" /\ wv'[s].obj = vmc'[s] /\ vmc'[s] = [vmc[s] EXCEPT !.fin = TRUE]
      BY Zenon, <2>3, VmcGoes
    <3>2. vmc'[s].uid = vmc[s].uid /\ vmc'[s].del = vmc[s].del /\ vmc'[s].fin = TRUE
      BY <3>1, VmcShapes DEF VmcObj
    <3> QED
      BY Zenon, <2>1, <2>3, <3>1, <3>2, <1>Saves
  <2> QED
    BY Zenon, <2>2, <2>3 DEF VmcAddFinalizer
<1>Prefix. CASE ensurePublicIPPrefix(s)
  <2> USE <1>Prefix
  <2>1. UNCHANGED <<vmc[s], cvmc[s], uids[s].vmc>> /\ wv[s].pc = "prefix"
    BY Zenon DEF ensurePublicIPPrefix, vmcRest, VmcAt
  <2>2. CASE VmcFail(s) /\ UNCHANGED prefixes
    BY Zenon, <2>1, <2>2, VmcEnds, VmcFewer DEF VmcFail, VmcInv
  <2>3. CASE /\ prefixes' \subseteq prefixes \cup {<<s, wv[s].obj.uid>>}
             /\ VmcGo(s, "pool", wv[s].obj)
    <3>1. Held(wv[s].obj, vmc[s])
      BY Zenon, <2>1, VmcPlaces DEF VmcInv, VmcCopies, ObjInv
    <3>2. VmcOwned(s)'
      <4>1. \A id \in prefixes' : id[1] = s => vmc[s].uid = id[2] /\ vmc[s].fin
        BY <2>3, <3>1 DEF VmcInv, VmcOwned, Held
      <4> QED
        BY Zenon, <2>1, <4>1 DEF VmcOwned
    <3>3. wv'[s].pc = "pool" /\ wv'[s].obj = wv[s].obj
      BY Zenon, <2>3, VmcGoes
    <3>4. wv[s].pc \in VmcHolds(wv[s].obj) /\ wv'[s].pc \notin VmcDooms
      BY Zenon, <2>1, <3>3, VmcPlaces
    <3> QED
      BY Zenon, <2>1, <3>2, <3>3, <3>4, VmcMoves
  <2>4. VmcId(s, wv[s].obj) = <<s, wv[s].obj.uid>>
    BY Zenon DEF VmcId
  <2> QED
    BY Zenon, <2>2, <2>3, <2>4 DEF ensurePublicIPPrefix
(* VmcReconcilePool and VmcCleanPool change only the scale set.            *)
<1>Pool. CASE VmcReconcilePool(s) \/ VmcCleanPool(s)
  <2> USE <1>Pool
  <2>1. UNCHANGED <<vmc[s], cvmc[s], prefixes, uids[s].vmc>>
    BY Zenon DEF VmcReconcilePool, VmcCleanPool, vmcRest
  <2>2. VmcOwned(s)'
    BY Zenon, <2>1, VmcFewer DEF VmcInv
  <2>3. CASE VmcFail(s)
    BY Zenon, <2>1, <2>2, <2>3, VmcEnds DEF VmcFail
  <2>4. CASE wv[s].pc = "pool" /\ VmcGo(s, "profiles", wv[s].obj)
    <3>1. wv'[s].pc = "profiles" /\ wv'[s].obj = wv[s].obj
      BY Zenon, <2>4, VmcGoes
    <3> QED
      BY Zenon, <2>1, <2>2, <2>4, <3>1, VmcMoves, VmcPlaces
  <2>5. CASE wv[s].pc = "delPool" /\ VmcGo(s, "delPrefix", wv[s].obj)
    <3>1. wv'[s].pc = "delPrefix" /\ wv'[s].obj = wv[s].obj
      BY Zenon, <2>5, VmcGoes
    <3> QED
      BY Zenon, <2>1, <2>2, <2>5, <3>1, VmcMoves, VmcPlaces
  <2> QED
    BY Zenon, <2>3, <2>4, <2>5 DEF VmcReconcilePool, VmcCleanPool, VmcAt
<1>Profiles. CASE VmcUpdateProfiles(s)
  <2> USE <1>Profiles
  <2> DEFINE n == [vmc[s] EXCEPT !.st = TRUE]
  <2>1. UNCHANGED <<cvmc[s], prefixes, uids[s].vmc>> /\ wv[s].pc = "profiles"
    BY Zenon DEF VmcUpdateProfiles, vmcRest, VmcAt
  <2>2. CASE VmcFail(s) /\ UNCHANGED vmc
    BY Zenon, <2>1, <2>2, VmcEnds, VmcFewer DEF VmcFail, VmcInv
  <2>3. CASE /\ vmc[s] = wv[s].obj /\ PutVmc(s, n)
             /\ VmcDone(s) \/ VmcGo(s, "status", n) \/ VmcGo(s, "unprefix", n)
    <3>1. vmc'[s] = n
      BY Zenon, <2>3, VmcGoes
    <3>2. \/ wv'[s].pc = "idle" /\ wv'[s].obj = NoVmc
          \/ wv'[s].pc \in {"unprefix", "status"} /\ wv'[s].obj = vmc'[s]
      BY Zenon, <2>3, <3>1, VmcGoes
    <3>3. Held(vmc[s], vmc[s])
      BY Zenon, <2>1, <2>3, VmcPlaces DEF VmcInv, VmcCopies, ObjInv
    <3>4. vmc'[s].uid = vmc[s].uid /\ vmc'[s].del = vmc[s].del /\ vmc'[s].fin = TRUE
      <4>1. vmc[s] \in VmcObj /\ vmc[s].fin = TRUE
        BY Zenon, <3>3, VmcShapes, VmcObjTyped DEF Held, Typed
      <4> QED
        BY Zenon, <3>1, <4>1, VmcWrites
    <3> QED
      BY Zenon, <2>1, <2>3, <3>2, <3>4, <1>Saves
  <2> QED
    BY Zenon, <2>2, <2>3 DEF VmcUpdateProfiles, VmcFinish
<1>Drop. CASE VmcDropUnusedPrefix(s)
  <2> USE <1>Drop
  <2>1. /\ UNCHANGED <<vmc[s], cvmc[s], uids[s].vmc>> /\ wv[s].pc = "unprefix"
        /\ prefixes' \subseteq prefixes
    BY Zenon DEF VmcDropUnusedPrefix, vmcRest, VmcAt
  <2>2. VmcOwned(s)'
    BY Zenon, <2>1, VmcFewer DEF VmcInv
  <2>3. CASE VmcDone(s)
    BY Zenon, <2>1, <2>2, <2>3, VmcEnds
  <2>4. CASE VmcGo(s, "status", wv[s].obj)
    <3>1. wv'[s].pc = "status" /\ wv'[s].obj = wv[s].obj
      BY Zenon, <2>4, VmcGoes
    <3>2. wv[s].pc \in VmcHolds(wv[s].obj) /\ wv'[s].pc \notin VmcDooms
      BY Zenon, <2>1, <3>1, VmcPlaces
    <3> QED
      BY Zenon, <2>1, <2>2, <3>1, <3>2, VmcMoves
  <2> QED
    BY Zenon, <2>3, <2>4 DEF VmcDropUnusedPrefix, VmcFinish, VmcFail
<1>Status. CASE VmcUpdateStatus(s)
  <2> USE <1>Status
  <2>1. UNCHANGED <<cvmc[s], prefixes, uids[s].vmc>> /\ wv[s].pc = "status" /\ VmcDone(s)
    BY Zenon DEF VmcUpdateStatus, vmcRest, VmcAt
  <2>2. CASE UNCHANGED vmc
    BY Zenon, <2>1, <2>2, VmcEnds, VmcFewer DEF VmcInv
  <2>3. CASE vmc[s] = wv[s].obj /\ PutVmc(s, [vmc[s] EXCEPT !.prefix = Egress(wv[s].obj.spec)])
    <3>1. vmc'[s] = [vmc[s] EXCEPT !.prefix = Egress(wv[s].obj.spec)]
      BY Zenon, <2>3, VmcGoes
    <3>2. wv'[s].pc = "idle" /\ wv'[s].obj = NoVmc
      BY Zenon, <2>1, VmcGoes
    <3>3. Held(vmc[s], vmc[s])
      BY Zenon, <2>1, <2>3, VmcPlaces DEF VmcInv, VmcCopies, ObjInv
    <3>4. vmc'[s].uid = vmc[s].uid /\ vmc'[s].del = vmc[s].del /\ vmc'[s].fin = TRUE
      <4>1. vmc[s] \in VmcObj /\ vmc[s].fin = TRUE
        BY Zenon, <3>3, VmcShapes, VmcObjTyped DEF Held, Typed
      <4> QED
        BY <3>1, <4>1 DEF VmcObj
    <3> QED
      BY Zenon, <2>1, <2>3, <3>2, <3>4, <1>Saves
  <2> QED
    BY Zenon, <2>2, <2>3 DEF VmcUpdateStatus
<1>DeletePrefix. CASE VmcDeletePrefix(s)
  <2> USE <1>DeletePrefix
  <2>1. UNCHANGED <<vmc[s], cvmc[s], uids[s].vmc>> /\ wv[s].pc = "delPrefix"
    BY Zenon DEF VmcDeletePrefix, vmcRest, VmcAt
  <2>2. CASE VmcFail(s) /\ UNCHANGED prefixes
    BY Zenon, <2>1, <2>2, VmcEnds, VmcFewer DEF VmcFail, VmcInv
  <2>3. CASE /\ prefixes' = prefixes \ {VmcId(s, wv[s].obj)}
             /\ VmcGo(s, "unfin", wv[s].obj)
    <3>1. VmcOwned(s)' /\ <<s, wv[s].obj.uid>> \notin prefixes'
      BY Zenon, <2>1, <2>3, VmcFewer DEF VmcInv, VmcId
    <3>2. wv'[s].pc = "unfin" /\ wv'[s].obj = wv[s].obj
      BY Zenon, <2>3, VmcGoes
    <3>3. wv[s].pc \in VmcDooms /\ wv'[s].pc \notin VmcHolds(wv[s].obj)
      BY Zenon, <2>1, <3>2, VmcPlaces
    <3> QED
      BY Zenon, <2>1, <3>1, <3>2, <3>3, VmcMoves
  <2> QED
    BY Zenon, <2>2, <2>3 DEF VmcDeletePrefix
<1>RemoveFinalizer. CASE VmcRemoveFinalizer(s)
  <2> USE <1>RemoveFinalizer
  <2>1. UNCHANGED <<cvmc[s], prefixes, uids[s].vmc>> /\ wv[s].pc = "unfin"
    BY Zenon DEF VmcRemoveFinalizer, vmcRest, VmcAt
  <2>2. CASE VmcFail(s) /\ UNCHANGED vmc
    BY Zenon, <2>1, <2>2, VmcEnds, VmcFewer DEF VmcFail, VmcInv
  <2>3. CASE vmc[s] = wv[s].obj /\ PutVmc(s, NoVmc) /\ VmcDone(s)
    <3>1. vmc'[s] = NoVmc /\ wv'[s].pc = "idle" /\ wv'[s].obj = NoVmc
      BY Zenon, <2>3, VmcGoes
    <3>2. VmcCopies(s)'
      <4>1. ObjInv(vmc[s], cvmc[s], vmc[s], "unfin", VmcHolds(wv[s].obj), VmcDooms, NoVmc,
                   uids[s].vmc)
        BY Zenon, <2>1, <2>3 DEF VmcInv, VmcCopies
      <4>2. /\ "unfin" \in VmcDooms /\ "idle" \notin VmcHolds(NoVmc) /\ "idle" \notin VmcDooms
            /\ uids[s].vmc \in Nat
        BY Zenon, VmcPlaces, VmcShapes
      <4>3. ObjInv(NoVmc, cvmc[s], NoVmc, "idle", VmcHolds(NoVmc), VmcDooms, NoVmc, uids[s].vmc)
        BY <4>1, <4>2, Releases, NoObjFields
      <4> QED
        BY Zenon, <2>1, <3>1, <4>3 DEF VmcCopies
    <3>3. VmcOwned(s)'
      <4>1. <<s, vmc[s].uid>> \notin prefixes
        BY Zenon, <2>1, <2>3 DEF VmcInv, VmcClaims
      <4>2. \A id \in prefixes : id[1] # s
        BY Zenon, <4>1 DEF VmcInv, VmcOwned, VmcShape
      <4> QED
        BY Zenon, <2>1, <4>2 DEF VmcOwned
    <3>4. VmcClaims(s)'
      BY Zenon, <3>1 DEF VmcClaims
    <3> QED
      BY Zenon, <3>2, <3>3, <3>4 DEF VmcInv
  <2> QED
    BY Zenon, <2>2, <2>3 DEF VmcRemoveFinalizer
<1> QED
  BY Zenon, <1>Start, <1>NodeNext, <1>AddFinalizer, <1>Prefix, <1>Pool,
   <1>Profiles, <1>Drop, <1>Status, <1>DeletePrefix, <1>RemoveFinalizer
   DEF VmcStep

(* A node event starts a reconcile of every vmConfig of the pool.          *)
LEMMA VmcNodeEventVmc ==
  ASSUME VmcShape, NEW p, NEW s \in Names, VmcInv(s), VmcNodeEvent(p)
  PROVE  VmcInv(s)'
<1>1. UNCHANGED <<vmc[s], cvmc[s], prefixes, uids[s].vmc>>
  BY Zenon DEF VmcNodeEvent, vmcRest
<1>2. \/ wv'[s] = VmcIdle
      \/ /\ Is(cvmc[s]) /\ ~cvmc[s].del
         /\ wv'[s] = [pc |-> "listed", obj |-> cvmc[s], node |-> TRUE]
  BY Zenon DEF VmcNodeEvent
<1>3. CASE wv'[s] = VmcIdle
  <2>1. wv'[s].pc = "idle" /\ wv'[s].obj = NoVmc /\ uids[s].vmc \in Nat
    <3>1. VmcIdle.pc = "idle" /\ VmcIdle.obj = NoVmc
      BY DEF VmcIdle
    <3> QED
      BY Zenon, <1>3, <3>1, VmcShapes
  <2> QED
    BY Zenon, <1>1, <2>1, VmcIdles, VmcFewer DEF VmcInv
<1>4. CASE /\ Is(cvmc[s]) /\ ~cvmc[s].del
           /\ wv'[s] = [pc |-> "listed", obj |-> cvmc[s], node |-> TRUE]
  <2>1. wv'[s].pc = "listed" /\ wv'[s].obj = cvmc[s]
    BY <1>4
  <2> QED
    BY Zenon, <1>1, <1>4, <2>1, VmcStarts
<1> QED
  BY Zenon, <1>2, <1>3, <1>4

-----------------------------------------------------------------------------
(* What the steps for gateway s leave alone.                               *)
LEMMA VmcStepRest ==
  ASSUME NEW s, VmcStep(s)
  PROVE  UNCHANGED <<csgc, clbc, cvmc, sgc, lbc, sec, ws, wl, lb, uids>>
BY Zenon DEF VmcStep, VmcStart, VmcNodeNext, VmcAddFinalizer, ensurePublicIPPrefix,
   VmcReconcilePool, VmcUpdateProfiles, VmcDropUnusedPrefix, VmcUpdateStatus, VmcCleanPool,
   VmcDeletePrefix, VmcRemoveFinalizer, vmcRest

(* A vmConfig that is there after a step was there before, with its owner. *)
LEMMA VmcKeepsOwner ==
  ASSUME VmcShape, NEW s \in Names, VmcStep(s)
  PROVE  Is(vmc'[s]) => Is(vmc[s]) /\ vmc'[s].owner = vmc[s].owner
<1>0. vmc[s] \in VmcObj
  BY Zenon, VmcShapes
<1>1. CASE VmcAddFinalizer(s)
  <2>1. UNCHANGED vmc \/ vmc'[s] = [vmc[s] EXCEPT !.fin = TRUE]
    BY Zenon, <1>1, VmcGoes DEF VmcAddFinalizer
  <2> QED
    BY <1>0, <2>1 DEF Is, VmcObj
<1>2. CASE VmcUpdateProfiles(s)
  <2>1. UNCHANGED vmc \/ vmc'[s] = [vmc[s] EXCEPT !.st = TRUE]
    BY Zenon, <1>2, VmcGoes DEF VmcUpdateProfiles
  <2> QED
    BY <1>0, <2>1 DEF Is, VmcObj
<1>3. CASE VmcUpdateStatus(s)
  <2>1. UNCHANGED vmc \/ vmc'[s] = [vmc[s] EXCEPT !.prefix = Egress(wv[s].obj.spec)]
    BY Zenon, <1>3, VmcGoes DEF VmcUpdateStatus
  <2> QED
    BY <1>0, <2>1 DEF Is, VmcObj
<1>4. CASE VmcRemoveFinalizer(s)
  <2>1. UNCHANGED vmc \/ vmc'[s] = NoVmc
    BY Zenon, <1>4, VmcGoes DEF VmcRemoveFinalizer
  <2> QED
    BY Zenon, <2>1, NoObjFields DEF Is
<1>5. CASE UNCHANGED vmc
  BY Zenon, <1>5
<1> QED
  BY Zenon, <1>1, <1>2, <1>3, <1>4, <1>5 DEF VmcStep, VmcStart, VmcNodeNext,
     ensurePublicIPPrefix, VmcReconcilePool, VmcDropUnusedPrefix, VmcCleanPool, VmcDeletePrefix

(* A step for gateway s keeps the invariant of s.                          *)
LEMMA VmcStepOwner ==
  ASSUME VmcShape, NEW s \in Names, GatewayInv(s), VmcStep(s)
  PROVE  GatewayInv(s)'
<1>1. VmcInv(s)'
  BY Zenon, VmcStepVmc DEF GatewayInv
<1>2. RuleIds' = RuleIds
  BY Zenon, VmcStepRest DEF RuleIds
<1>3. LbcInv(s)'
  BY Zenon, <1>2, VmcStepRest, VmcKeepsOwner, LbcFrame DEF GatewayInv
<1>4. SgcInv(s)'
  BY Zenon, VmcStepRest, SgcFrame DEF GatewayInv
<1> QED
  BY Zenon, <1>1, <1>3, <1>4 DEF GatewayInv

(* It leaves the other gateways alone.                                     *)
LEMMA VmcStepElsewhere ==
  ASSUME VmcShape, NEW s \in Names, NEW t \in Names \ {s}, VmcStep(s)
  PROVE  Untouched(t)
<1>a. /\ \A o : PutVmc(s, o) => vmc'[t] = vmc[t]
      /\ \A pc, o : VmcGo(s, pc, o) => wv'[t] = wv[t]
      /\ VmcDone(s) => wv'[t] = wv[t]
  BY Zenon DEF VmcShape, PutVmc, VmcGo, VmcDone
<1>1. UNCHANGED <<vmc[t], wv[t]>>
  <2>1. CASE VmcStart(s) \/ VmcNodeNext(s) \/ VmcAddFinalizer(s)
    BY Zenon, <1>a, <2>1 DEF VmcStart, VmcNodeNext, VmcAddFinalizer, VmcFail
  <2>2. CASE ensurePublicIPPrefix(s) \/ VmcReconcilePool(s) \/ VmcCleanPool(s)
    BY Zenon, <1>a, <2>2 DEF ensurePublicIPPrefix, VmcReconcilePool, VmcCleanPool, VmcFail
  <2>3. CASE VmcUpdateProfiles(s) \/ VmcDropUnusedPrefix(s) \/ VmcUpdateStatus(s)
    BY Zenon, <1>a, <2>3 DEF VmcUpdateProfiles, VmcDropUnusedPrefix, VmcUpdateStatus, VmcFinish,
       VmcFail
  <2>4. CASE VmcDeletePrefix(s) \/ VmcRemoveFinalizer(s)
    BY Zenon, <1>a, <2>4 DEF VmcDeletePrefix, VmcRemoveFinalizer, VmcFail
  <2> QED
    BY Zenon, <2>1, <2>2, <2>3, <2>4 DEF VmcStep
<1>2. \A id \in prefixes' : id[1] = t => id \in prefixes
  <2>1. VmcId(s, wv[s].obj)[1] = s
    BY DEF VmcId
  <2>2. prefixes' \subseteq prefixes \cup {VmcId(s, wv[s].obj)}
    BY Zenon DEF VmcStep, VmcStart, VmcNodeNext, VmcAddFinalizer, ensurePublicIPPrefix,
       VmcReconcilePool, VmcUpdateProfiles, VmcDropUnusedPrefix, VmcUpdateStatus, VmcCleanPool,
       VmcDeletePrefix, VmcRemoveFinalizer
  <2> QED
    BY Zenon, <2>1, <2>2
<1> QED
  BY Zenon, <1>1, <1>2, VmcStepRest DEF Untouched, RuleIds
=============================================================================
