--------------------------- MODULE OwnershipProofs ---------------------------
(***************************************************************************)
(* OwnerInv is inductive, and OwnerChain, RulesOwned and PrefixesOwned     *)
(* follow, for any number of gateways, creations, failures and restarts    *)
(* and any lag of the cache.                                               *)
(***************************************************************************)
EXTENDS ConfigOwnership, ControlPlaneProofs

(* What the load balancer's rules and the prefixes are named after.        *)
LEMMA TypedIds ==
  ASSUME TypeOK
  PROVE  /\ \A r \in lb.rules : r.id = <<r.id[1], r.id[2]>> /\ r.id[1] \in Names
         /\ \A id \in lb.probes : id = <<id[1], id[2]>> /\ id[1] \in Names
         /\ \A id \in prefixes : id = <<id[1], id[2]>> /\ id[1] \in Names
<1>1. \A id \in Ids : id = <<id[1], id[2]>> /\ id[1] \in Names
  BY DEF Ids
<1>2. (\A r \in lb.rules : r.id \in Ids) /\ lb.probes \subseteq Ids /\ prefixes \subseteq Ids
  BY Zenon DEF TypeOK, AzureType
<1> QED
  BY Zenon, <1>1, <1>2

(* What the type invariant says to each controller.                        *)
LEMMA Shapes ==
  ASSUME TypeOK
  PROVE  SgcShape /\ LbcShape /\ VmcShape
<1>1. \A id \in RuleIds : id = <<id[1], id[2]>>
  BY Zenon, TypedIds DEF RuleIds
<1>2. \A id \in prefixes : id = <<id[1], id[2]>>
  BY Zenon, TypedIds
<1> QED
  BY Zenon, <1>1, <1>2 DEF TypeOK, ApiType, CacheType, WorkType, CountType, SgcShape, LbcShape,
     VmcShape

(* The records of gateway s.                                               *)
LEMMA TypedAll ==
  ASSUME TypeOK, NEW s \in Names
  PROVE  SgcTyped(s) /\ LbcTyped(s) /\ VmcTyped(s)
BY Zenon, Shapes, SgcShapes, LbcShapes, VmcShapes, SgcObjTyped, LbcObjTyped, VmcObjTyped
   DEF SgcTyped, LbcTyped, VmcTyped

(* A delivered event changes the cache only.                               *)
LEMMA SyncOwner ==
  ASSUME TypeOK, NEW s \in Names, Sync(s) \/ Resync(s), NEW t \in Names, GatewayInv(t)
  PROVE  GatewayInv(t)'
<1>a. /\ \A o : csgc' = [csgc EXCEPT ![s] = o] => csgc'[t] = IF t = s THEN o ELSE csgc[t]
      /\ \A o : clbc' = [clbc EXCEPT ![s] = o] => clbc'[t] = IF t = s THEN o ELSE clbc[t]
      /\ \A o : cvmc' = [cvmc EXCEPT ![s] = o] => cvmc'[t] = IF t = s THEN o ELSE cvmc[t]
  BY Zenon, Shapes DEF SgcShape, LbcShape, VmcShape
<1>b. /\ UNCHANGED <<sgc, sec, lbc, vmc, ws, wl, wv, lb, prefixes, uids>>
      /\ csgc'[t] = csgc[t] \/ csgc'[t] = sgc[t]
      /\ clbc'[t] = clbc[t] \/ clbc'[t] = lbc[t]
      /\ cvmc'[t] = cvmc[t] \/ cvmc'[t] = vmc[t]
  BY Zenon, <1>a DEF Sync, Resync, SyncSgc, SyncLbc, SyncVmc, SyncSec, watchRest, api, ctrl,
     azure, cache
<1>c. RuleIds' = RuleIds
  BY Zenon, <1>b DEF RuleIds
<1>1. SgcInv(t)'
  BY Zenon, <1>b, SgcFrame, SgcSyncs DEF GatewayInv
<1>2. LbcInv(t)'
  BY Zenon, <1>b, <1>c, LbcFrame, LbcSyncs DEF GatewayInv
<1>3. VmcInv(t)'
  BY Zenon, <1>b, VmcFrame, VmcSyncs DEF GatewayInv
<1> QED
  BY Zenon, <1>1, <1>2, <1>3 DEF GatewayInv

-----------------------------------------------------------------------------
(* What users leave alone.                                                 *)
LEMMA UserRest ==
  ASSUME NEW s, UserStep(s)
  PROVE  UNCHANGED <<csgc, clbc, cvmc, ws, wl, wv, lb, prefixes, RuleIds>>
<1>1. UNCHANGED <<csgc, clbc, cvmc, ws, wl, wv, lb, prefixes>>
  BY Zenon DEF UserStep, CreateGateway, DeleteGateway, EditGateway, KillLbc, KillVmc,
     KillSecret, userRest, cache, ctrl, azure
<1> QED
  BY Zenon, <1>1 DEF RuleIds

(* A user's step for gateway s leaves the others alone.                    *)
LEMMA UserElsewhere ==
  ASSUME TypeOK, NEW s \in Names, UserStep(s), NEW t \in Names \ {s}
  PROVE  Untouched(t)
<1>a. /\ \A o : PutSgc(s, o) => sgc'[t] = sgc[t]
      /\ \A o : PutLbc(s, o) => lbc'[t] = lbc[t]
      /\ \A o : PutVmc(s, o) => vmc'[t] = vmc[t]
  BY Zenon, Shapes DEF SgcShape, LbcShape, VmcShape, PutSgc, PutLbc, PutVmc
<1>b. /\ \A u : sec' = [sec EXCEPT ![s][u] = 0] => sec'[t] = sec[t]
      /\ uids' = [uids EXCEPT ![s].sgc = @ + 1] => uids'[t] = uids[t]
  BY Zenon, Shapes, SgcCounts
<1>1. UNCHANGED <<sgc[t], lbc[t], vmc[t]>>
  BY Zenon, <1>a DEF UserStep, CreateGateway, DeleteGateway, EditGateway, KillLbc, KillVmc,
     KillSecret
<1>2. UNCHANGED <<sec[t], uids[t]>>
  BY Zenon, <1>b DEF UserStep, CreateGateway, DeleteGateway, EditGateway, KillLbc, KillVmc,
     KillSecret
<1> QED
  BY Zenon, <1>1, <1>2, UserRest DEF Untouched

(* A StaticGatewayConfiguration is made, edited or deleted.                *)
LEMMA SgcUserOwner ==
  ASSUME TypeOK, NEW s \in Names, GatewayInv(s), NEW spec,
         CreateGateway(s, spec) \/ EditGateway(s, spec) \/ DeleteGateway(s),
         UNCHANGED <<csgc, clbc, cvmc, ws, wl, wv, lb, prefixes, RuleIds>>
  PROVE  GatewayInv(s)'
<1>a. sgc[s] \in SgcObj /\ uids[s].sgc \in Nat /\ SgcTyped(s)
  BY Zenon, Shapes, SgcShapes, TypedAll
<1>b. UNCHANGED <<lbc, vmc, sec>>
  BY Zenon DEF CreateGateway, EditGateway, DeleteGateway
<1>1. CASE CreateGateway(s, spec)
  <2>1. /\ ~Is(sgc[s]) /\ sgc'[s] = [NoSgc EXCEPT !.uid = uids[s].sgc + 1, !.spec = spec]
        /\ uids' = [uids EXCEPT ![s].sgc = @ + 1]
    BY Zenon, <1>1, Shapes, SgcPuts DEF CreateGateway
  <2>2. /\ uids'[s].sgc = uids[s].sgc + 1 /\ uids'[s].lbc = uids[s].lbc
        /\ uids'[s].vmc = uids[s].vmc /\ uids'[s].sgc \in Nat /\ uids'[s].sgc >= uids[s].sgc
        /\ uids[s].sgc + 1 <= uids'[s].sgc
    BY Zenon, <2>1, Shapes, SgcCounts
  <2>3. sgc'[s].uid = uids[s].sgc + 1 /\ ~sgc'[s].fin
    BY <2>1 DEF NoSgc
  <2>4. Outside(sgc[s], sgc'[s], NoSgc, uids[s].sgc)
    BY Zenon, <2>1, <2>3 DEF Outside
  <2>5. uids'[s].sgc \in Nat /\ uids'[s].sgc >= uids[s].sgc /\ sgc'[s].uid <= uids'[s].sgc
    BY Zenon, <2>2, <2>3
  <2>6. SgcInv(s)'
    BY Zenon, <1>a, <1>b, <2>4, <2>5, SgcOutside DEF GatewayInv
  <2> QED
    BY Zenon, <1>b, <2>2, <2>6, LbcFrame, VmcFrame DEF GatewayInv
<1>2. CASE EditGateway(s, spec) \/ DeleteGateway(s)
  <2>1. /\ UNCHANGED uids /\ Is(sgc[s])
        /\ sgc'[s] = [sgc[s] EXCEPT !.spec = spec] \/ sgc'[s] = Deleted(sgc[s], NoSgc)
    BY Zenon, <1>2, Shapes, SgcPuts DEF EditGateway, DeleteGateway
  <2>2. Outside(sgc[s], sgc'[s], NoSgc, uids[s].sgc) /\ sgc'[s].uid <= uids[s].sgc
    <3>1. CASE sgc'[s] = [sgc[s] EXCEPT !.spec = spec]
      <4>1. sgc'[s].uid = sgc[s].uid /\ sgc'[s].del = sgc[s].del /\ sgc'[s].fin = sgc[s].fin
        BY <1>a, <3>1 DEF SgcObj
      <4> QED
        BY Zenon, <2>1, <4>1 DEF Outside, GatewayInv, SgcInv, SgcCopies, ObjInv
    <3>2. CASE sgc'[s] = Deleted(sgc[s], NoSgc)
      <4>1. \/ sgc'[s] = NoSgc /\ ~sgc[s].fin
            \/ /\ sgc'[s].uid = sgc[s].uid /\ sgc'[s].fin = TRUE /\ sgc[s].fin = TRUE
               /\ sgc'[s].del = TRUE
        BY Zenon, <1>a, <3>2, SgcDeleted
      <4> QED
        BY Zenon, <1>a, <4>1, DeletesOutside, NoObjFields DEF GatewayInv, SgcInv, SgcCopies
    <3> QED
      BY Zenon, <2>1, <3>1, <3>2
  <2>3. uids[s].sgc >= uids[s].sgc
    BY Zenon, <1>a, StaysAtLeast
  <2>4. SgcInv(s)'
    BY Zenon, <1>a, <1>b, <2>1, <2>2, <2>3, SgcOutside DEF GatewayInv
  <2> QED
    BY Zenon, <1>b, <2>1, <2>4, LbcFrame, VmcFrame DEF GatewayInv
<1> QED
  BY Zenon, <1>1, <1>2

(* An object of the controllers is deleted by somebody else.               *)
LEMMA KillOwner ==
  ASSUME TypeOK, NEW s \in Names, GatewayInv(s), KillLbc(s) \/ KillVmc(s) \/ KillSecret(s),
         UNCHANGED <<csgc, clbc, cvmc, ws, wl, wv, lb, prefixes, RuleIds>>
  PROVE  GatewayInv(s)'
<1>a. UNCHANGED <<sgc, uids>> /\ SgcInv(s) /\ LbcInv(s) /\ VmcInv(s)
  BY Zenon DEF KillLbc, KillVmc, KillSecret, GatewayInv
<1>1. CASE KillLbc(s)
  <2>1. lbc'[s] = Deleted(lbc[s], NoLbc) /\ lbc[s] \in LbcObj /\ UNCHANGED <<vmc, sec>>
    BY Zenon, <1>1, Shapes, LbcPuts, LbcShapes DEF KillLbc
  <2>2. \/ lbc'[s] = NoLbc /\ ~lbc[s].fin
        \/ /\ lbc'[s].uid = lbc[s].uid /\ lbc'[s].owner = lbc[s].owner /\ lbc'[s].fin = TRUE
           /\ lbc[s].fin = TRUE /\ lbc'[s].del = TRUE
    BY Zenon, <2>1, LbcDeleted
  <2>3. uids[s].lbc \in Nat /\ LbcTyped(s)
    BY Zenon, Shapes, LbcShapes
  <2>4. Outside(lbc[s], lbc'[s], NoLbc, uids[s].lbc) /\ lbc'[s].uid <= uids[s].lbc
    BY Zenon, <1>a, <2>2, <2>3, DeletesOutside, NoObjFields DEF LbcInv, LbcCopies
  <2>5. uids[s].lbc >= uids[s].lbc
    BY Zenon, <2>3, StaysAtLeast
  <2>6. LbcInv(s)'
    BY Zenon, <1>a, <2>1, <2>3, <2>4, <2>5, LbcOutside
  <2>7. Is(lbc'[s]) => Is(lbc[s]) /\ lbc'[s].owner = lbc[s].owner
    BY Zenon, <2>2, NoObjFields DEF Is
  <2>8. SgcInv(s)' /\ VmcInv(s)'
    BY Zenon, <1>a, <2>1, <2>7, SgcFrame, VmcFrame
  <2> QED
    BY Zenon, <2>6, <2>8 DEF GatewayInv
<1>2. CASE KillVmc(s)
  <2>1. vmc'[s] = Deleted(vmc[s], NoVmc) /\ vmc[s] \in VmcObj /\ UNCHANGED <<lbc, sec>>
    BY Zenon, <1>2, Shapes, LbcPuts, LbcShapes DEF KillVmc
  <2>2. \/ vmc'[s] = NoVmc /\ ~vmc[s].fin
        \/ /\ vmc'[s].uid = vmc[s].uid /\ vmc'[s].owner = vmc[s].owner /\ vmc'[s].fin = TRUE
           /\ vmc[s].fin = TRUE /\ vmc'[s].del = TRUE
    BY Zenon, <2>1, VmcDeleted
  <2>3. uids[s].vmc \in Nat /\ VmcTyped(s)
    BY Zenon, Shapes, VmcShapes, TypedAll
  <2>4. Outside(vmc[s], vmc'[s], NoVmc, uids[s].vmc) /\ vmc'[s].uid <= uids[s].vmc
    BY Zenon, <1>a, <2>2, <2>3, DeletesOutside, NoObjFields DEF VmcInv, VmcCopies
  <2>5. uids[s].vmc >= uids[s].vmc
    BY Zenon, <2>3, StaysAtLeast
  <2>6. VmcInv(s)'
    BY Zenon, <1>a, <2>1, <2>3, <2>4, <2>5, VmcOutside
  <2>7. Is(vmc'[s]) => Is(vmc[s]) /\ vmc'[s].owner = vmc[s].owner
    BY Zenon, <2>2, NoObjFields DEF Is
  <2>8. LbcInv(s)'
    BY Zenon, <1>a, <2>1, <2>7, LbcFrame
  <2>9. SgcInv(s)'
    BY Zenon, <1>a, <2>1, SgcFrame
  <2> QED
    BY Zenon, <2>6, <2>8, <2>9 DEF GatewayInv
<1>3. CASE KillSecret(s)
  <2>1. UNCHANGED <<lbc, vmc>> /\ sec' = [sec EXCEPT ![s][sgc[s].uid] = 0]
    BY Zenon, <1>3 DEF KillSecret
  <2>2. \A u \in SgcUids : sec'[s][u] = sec[s][u] \/ sec'[s][u] = 0
    BY Zenon, <2>1, Shapes, SgcCounts
  <2>3. ws[s].obj.uid \in SgcUids
    BY Zenon, Shapes, SgcShapes, SgcObjTyped
  <2>4. SgcCopies(s)'
    BY Zenon, <1>a DEF SgcInv, SgcCopies
  <2>5. SgcClaims(s)'
    BY Zenon, <1>a, <2>1, <2>2, <2>3 DEF SgcInv, SgcClaims
  <2>6. SgcOwned(s)'
    BY Zenon, <1>a, <2>1, <2>2 DEF SgcInv, SgcOwned
  <2>7. LbcInv(s)' /\ VmcInv(s)'
    BY Zenon, <1>a, <2>1, LbcFrame, VmcFrame
  <2> QED
    BY Zenon, <2>4, <2>5, <2>6, <2>7 DEF GatewayInv, SgcInv
<1> QED
  BY Zenon, <1>1, <1>2, <1>3

(* A user's step keeps the invariant of its gateway.                       *)
LEMMA UserOwner ==
  ASSUME TypeOK, NEW s \in Names, UserStep(s), GatewayInv(s)
  PROVE  GatewayInv(s)'
BY Zenon, UserRest, SgcUserOwner, KillOwner DEF UserStep

-----------------------------------------------------------------------------
(* A failed call ends a reconcile and changes nothing else.                *)
LEMMA FaultOwner ==
  ASSUME TypeOK, NEW s \in Names, Fault(s), NEW t \in Names, GatewayInv(t)
  PROVE  GatewayInv(t)'
<1>a. /\ UNCHANGED <<sgc, sec, lbc, vmc, csgc, clbc, cvmc, lb, prefixes, uids>>
      /\ SgcInv(t) /\ LbcInv(t) /\ VmcInv(t)
  BY Zenon DEF Fault, api, cache, azure, GatewayInv
<1>b. RuleIds' = RuleIds /\ VmcOwned(t)'
  BY Zenon, <1>a DEF RuleIds, VmcInv, VmcOwned
<1>c. SgcShape /\ LbcShape /\ VmcShape
  BY Zenon, Shapes
<1>d. /\ SgcDone(s) => t = s \/ ws'[t] = ws[t]
      /\ LbcDone(s) => t = s \/ wl'[t] = wl[t]
      /\ VmcDone(s) => t = s \/ wv'[t] = wv[t]
  BY Zenon, <1>c DEF SgcShape, LbcShape, VmcShape, SgcDone, LbcDone, VmcDone
<1>e. /\ ws'[t] = ws[t] \/ (t = s /\ SgcDone(s))
      /\ wl'[t] = wl[t] \/ (t = s /\ LbcDone(s))
      /\ wv'[t] = wv[t] \/ (t = s /\ VmcDone(s))
  BY Zenon, <1>d DEF Fault, SgcFail
<1>1. SgcInv(t)'
  BY Zenon, <1>a, <1>c, <1>e, SgcFrame, SgcEnds
<1>2. LbcInv(t)'
  BY Zenon, <1>a, <1>b, <1>c, <1>e, LbcFrame, LbcEnds
<1>3. VmcInv(t)'
  BY Zenon, <1>a, <1>b, <1>c, <1>e, VmcFrame, VmcEnds
<1> QED
  BY Zenon, <1>1, <1>2, <1>3 DEF GatewayInv

(* The events of nodes and node pools: the vmConfigs listed for a node     *)
(* come from the cache, and those with a finalizer are there.              *)
LEMMA NodeOwner ==
  ASSUME TypeOK, NEW p \in Pools, VmcNodeEvent(p) \/ NodeJoins(p) \/ LosePool(p),
         NEW t \in Names, GatewayInv(t)
  PROVE  GatewayInv(t)'
<1>a. /\ UNCHANGED <<sgc, sec, lbc, vmc, csgc, clbc, cvmc, ws, wl, lb, prefixes, uids>>
      /\ SgcInv(t) /\ LbcInv(t) /\ VmcInv(t)
      /\ VmcNodeEvent(p) \/ UNCHANGED wv
  BY Zenon DEF VmcNodeEvent, NodeJoins, LosePool, vmcRest, api, cache, ctrl, azure, GatewayInv
<1>b. RuleIds' = RuleIds
  BY Zenon, <1>a DEF RuleIds
<1>1. SgcInv(t)' /\ LbcInv(t)'
  BY Zenon, <1>a, <1>b, SgcFrame, LbcFrame
<1>2. VmcInv(t)'
  BY Zenon, <1>a, Shapes, VmcFrame, VmcNodeEventVmc
<1> QED
  BY Zenon, <1>1, <1>2 DEF GatewayInv

(* A restarted manager has no reconcile in progress, and a cache that      *)
(* shows what is there.                                                    *)
LEMMA RestartOwner ==
  ASSUME TypeOK, Restart, NEW t \in Names, GatewayInv(t)
  PROVE  GatewayInv(t)'
<1>a. /\ UNCHANGED <<sgc, sec, lbc, vmc, lb, prefixes, uids>>
      /\ csgc'[t] = sgc[t] /\ clbc'[t] = lbc[t] /\ cvmc'[t] = vmc[t]
      /\ ws'[t] = SgcIdle /\ wl'[t] = LbcIdle /\ wv'[t] = VmcIdle
      /\ SgcInv(t) /\ LbcInv(t) /\ VmcInv(t)
  BY Zenon DEF Restart, api, azure, GatewayInv
<1>b. /\ ws'[t].pc = "idle" /\ ws'[t].obj = NoSgc /\ wl'[t].pc = "idle" /\ wl'[t].obj = NoLbc
      /\ wv'[t].pc = "idle" /\ wv'[t].obj = NoVmc
  BY Zenon, <1>a, SgcIdleFields, LbcIdleFields, VmcIdleFields
<1>c. RuleIds' = RuleIds
  BY Zenon, <1>a DEF RuleIds
<1>d. uids[t].sgc \in Nat /\ uids[t].lbc \in Nat /\ uids[t].vmc \in Nat
  BY Zenon, Shapes, SgcShapes, LbcShapes, VmcShapes
<1>1. SgcCopies(t)'
  <2>1. ObjInv(sgc[t], csgc[t], NoSgc, "idle", SgcHolds, SgcDooms, NoSgc, uids[t].sgc)
    BY Zenon, <1>a, <1>d, IdleHolds, EndsEmpty, NoObjFields DEF SgcInv, SgcCopies
  <2>2. ObjInv(sgc[t], sgc[t], NoSgc, "idle", SgcHolds, SgcDooms, NoSgc, uids[t].sgc)
    BY Zenon, <2>1, CatchesUp
  <2> QED
    BY Zenon, <1>a, <1>b, <2>2 DEF SgcCopies
<1>2. LbcCopies(t)'
  <2>1. ObjInv(lbc[t], clbc[t], NoLbc, "idle", LbcHolds, LbcDooms, NoLbc, uids[t].lbc)
    BY Zenon, <1>a, <1>d, IdleHolds, EndsEmpty, NoObjFields DEF LbcInv, LbcCopies
  <2>2. ObjInv(lbc[t], lbc[t], NoLbc, "idle", LbcHolds, LbcDooms, NoLbc, uids[t].lbc)
    BY Zenon, <2>1, CatchesUp
  <2> QED
    BY Zenon, <1>a, <1>b, <2>2 DEF LbcCopies
<1>3. VmcCopies(t)'
  <2>1. ObjInv(vmc[t], cvmc[t], NoVmc, "idle", VmcHolds(NoVmc), VmcDooms, NoVmc, uids[t].vmc)
    BY Zenon, <1>a, <1>d, VmcForgets DEF VmcInv
  <2>2. ObjInv(vmc[t], vmc[t], NoVmc, "idle", VmcHolds(NoVmc), VmcDooms, NoVmc, uids[t].vmc)
    BY Zenon, <2>1, CatchesUp
  <2> QED
    BY Zenon, <1>a, <1>b, <2>2 DEF VmcCopies
<1>4. SgcClaims(t)' /\ LbcClaims(t)' /\ VmcClaims(t)'
  BY Zenon, <1>b DEF SgcClaims, LbcClaims, VmcClaims
<1>5. SgcOwned(t)' /\ LbcOwned(t)' /\ VmcOwned(t)'
  BY Zenon, <1>a, <1>c DEF SgcInv, SgcOwned, LbcInv, LbcOwned, VmcInv, VmcOwned
<1> QED
  BY Zenon, <1>1, <1>2, <1>3, <1>4, <1>5 DEF GatewayInv, SgcInv, LbcInv, VmcInv

(* Nothing is owned at the start.                                          *)
LEMMA InitOwner == Init => OwnerInv
<1> SUFFICES ASSUME Init, NEW s \in Names PROVE GatewayInv(s)
  BY Zenon DEF OwnerInv
<1>1. /\ sgc[s] = NoSgc /\ csgc[s] = NoSgc /\ ws[s] = SgcIdle /\ uids[s].sgc = 0
      /\ lbc[s] = NoLbc /\ clbc[s] = NoLbc /\ wl[s] = LbcIdle /\ uids[s].lbc = 0
      /\ vmc[s] = NoVmc /\ cvmc[s] = NoVmc /\ wv[s] = VmcIdle /\ uids[s].vmc = 0
      /\ \A u \in SgcUids : sec[s][u] = 0
  BY DEF Init, Kinds
<1>2. /\ SgcIdle.pc = "idle" /\ SgcIdle.obj = NoSgc /\ LbcIdle.pc = "idle"
      /\ LbcIdle.obj = NoLbc /\ VmcIdle.pc = "idle" /\ VmcIdle.obj = NoVmc
  BY Zenon, SgcIdleFields, LbcIdleFields, VmcIdleFields
<1>3. RuleIds = {} /\ prefixes = {}
  BY DEF Init, RuleIds, NoLB
<1>4. ~Is(NoSgc) /\ ~Is(NoLbc) /\ ~Is(NoVmc)
  BY Zenon, NoObjFields DEF Is
<1>5. /\ ObjInv(NoSgc, NoSgc, NoSgc, "idle", SgcHolds, SgcDooms, NoSgc, 0)
      /\ ObjInv(NoLbc, NoLbc, NoLbc, "idle", LbcHolds, LbcDooms, NoLbc, 0)
      /\ ObjInv(NoVmc, NoVmc, NoVmc, "idle", VmcHolds(NoVmc), VmcDooms, NoVmc, 0)
  BY Zenon, IdleHolds, NothingYet, NoObjFields
<1>6. SgcInv(s)
  BY Zenon, <1>1, <1>2, <1>4, <1>5 DEF SgcInv, SgcCopies, SgcClaims, SgcOwned
<1>7. LbcInv(s)
  BY Zenon, <1>1, <1>2, <1>3, <1>4, <1>5 DEF LbcInv, LbcCopies, LbcClaims, LbcOwned
<1>8. VmcInv(s)
  BY Zenon, <1>1, <1>2, <1>3, <1>4, <1>5 DEF VmcInv, VmcCopies, VmcClaims, VmcOwned
<1> QED
  BY Zenon, <1>6, <1>7, <1>8 DEF GatewayInv

(* A reconcile's step keeps the invariant of every gateway.                *)
LEMMA WorkOwner ==
  ASSUME TypeOK, NEW s \in Names, Work(s), NEW t \in Names, GatewayInv(t)
  PROVE  GatewayInv(t)'
<1>1. SgcShape /\ LbcShape /\ VmcShape /\ LbcTyped(s) /\ VmcTyped(s)
  BY Zenon, Shapes, TypedAll
<1>2. CASE t = s
  BY Zenon, <1>1, <1>2, SgcStepOwner, LbcStepOwner, VmcStepOwner DEF Work
<1>3. CASE t # s
  <2>1. Untouched(t)
    BY Zenon, <1>1, <1>3, SgcStepElsewhere, LbcStepElsewhere, VmcStepElsewhere DEF Work
  <2> QED
    BY Zenon, <2>1, UntouchedInv
<1> QED
  BY Zenon, <1>2, <1>3

(* Every step keeps the invariant of every gateway.                        *)
LEMMA NextOwner ==
  ASSUME TypeOK, OwnerInv, [Next]_vars
  PROVE  OwnerInv'
<1> SUFFICES ASSUME NEW t \in Names PROVE GatewayInv(t)'
  BY Zenon DEF OwnerInv
<1>a. GatewayInv(t)
  BY Zenon DEF OwnerInv
<1>1. ASSUME NEW s \in Names, Work(s) PROVE GatewayInv(t)'
  BY Zenon, <1>1, <1>a, WorkOwner
<1>2. ASSUME NEW s \in Names, UserStep(s) PROVE GatewayInv(t)'
  <2>1. CASE t = s
    BY Zenon, <1>2, <1>a, <2>1, UserOwner
  <2>2. CASE t # s
    BY Zenon, <1>2, <1>a, <2>2, UserElsewhere, UntouchedInv
  <2> QED
    BY Zenon, <2>1, <2>2
<1>3. ASSUME NEW s \in Names, Sync(s) \/ Resync(s) PROVE GatewayInv(t)'
  BY Zenon, <1>3, <1>a, SyncOwner
<1>4. ASSUME NEW s \in Names, Fault(s) PROVE GatewayInv(t)'
  BY Zenon, <1>4, <1>a, FaultOwner
<1>5. ASSUME NEW p \in Pools, VmcNodeEvent(p) \/ NodeJoins(p) \/ LosePool(p)
      PROVE  GatewayInv(t)'
  BY Zenon, <1>5, <1>a, NodeOwner
<1>6. ASSUME Restart PROVE GatewayInv(t)'
  BY Zenon, <1>6, <1>a, RestartOwner
<1>7. CASE UNCHANGED vars
  <2>1. UNCHANGED <<sgc, sec, lbc, vmc, csgc, clbc, cvmc, ws, wl, wv, lb, prefixes, uids>>
    BY Zenon, <1>7 DEF vars
  <2>2. Untouched(t)
    BY Zenon, <2>1 DEF Untouched, RuleIds
  <2> QED
    BY Zenon, <1>a, <2>2, UntouchedInv
<1> QED
  BY Zenon, <1>1, <1>2, <1>3, <1>4, <1>5, <1>6, <1>7 DEF Next

-----------------------------------------------------------------------------
(* However late the cache and whatever fails, no reconcile past its        *)
(* finalizer works for an object that is gone, and none deletes for an     *)
(* object that is not being deleted.                                       *)
THEOREM OwnerInvariant == Spec => []OwnerInv
<1>1. Init => OwnerInv
  BY Zenon, InitOwner
<1>2. TypeOK /\ OwnerInv /\ [Next]_vars => OwnerInv'
  BY Zenon, NextOwner
<1> QED
  BY <1>1, <1>2, TypeCorrect, PTL DEF Spec

(* No object outlives its owner: ensureDeleted of each controller removes  *)
(* its finalizer only after the child is gone.                             *)
THEOREM OwnersOutlive == Spec => []OwnerChain
<1>1. OwnerInv => OwnerChain
  BY Zenon DEF OwnerInv, GatewayInv, SgcInv, LbcInv, SgcOwned, LbcOwned, OwnerChain
<1> QED
  BY <1>1, OwnerInvariant, PTL

(* No load balancing rule or probe outlives its lbConfig.                  *)
THEOREM RulesNeverLeak == Spec => []RulesOwned
<1>1. TypeOK /\ OwnerInv => RulesOwned
  <2> SUFFICES ASSUME TypeOK, OwnerInv, NEW id \in RuleIds
               PROVE  lbc[id[1]].uid = id[2] /\ lbc[id[1]].fin
    BY Zenon DEF RulesOwned, RuleIds
  <2>1. id[1] \in Names
    BY Zenon, TypedIds DEF RuleIds
  <2> QED
    BY Zenon, <2>1 DEF OwnerInv, GatewayInv, LbcInv, LbcOwned
<1> QED
  BY <1>1, OwnerInvariant, TypeCorrect, PTL

(* No managed public IP prefix outlives its vmConfig.                      *)
THEOREM PrefixesNeverLeak == Spec => []PrefixesOwned
<1>1. TypeOK /\ OwnerInv => PrefixesOwned
  <2> SUFFICES ASSUME TypeOK, OwnerInv, NEW id \in prefixes
               PROVE  vmc[id[1]].uid = id[2] /\ vmc[id[1]].fin
    BY Zenon DEF PrefixesOwned
  <2>1. id[1] \in Names
    BY Zenon, TypedIds
  <2> QED
    BY Zenon, <2>1 DEF OwnerInv, GatewayInv, VmcInv, VmcOwned
<1> QED
  BY <1>1, OwnerInvariant, TypeCorrect, PTL

(* A rule is removed only once its gateway's vmConfig is gone, although    *)
(* ensureDeleted learns of that from a reply it may get long before.       *)
THEOREM RulesOutliveVmc == Spec => RuleAfterVmc
<1> DEFINE Kept == \A r \in lb.rules : r.id \in {x.id : x \in lb'.rules} \/ ~Is(vmc[r.id[1]])
<1>1. ASSUME TypeOK, OwnerInv, LB!RulesSupported, [Next]_vars PROVE [Kept]_lb
  <2> SUFFICES ASSUME lb' # lb, NEW r \in lb.rules, r.id \notin {x.id : x \in lb'.rules}
               PROVE  ~Is(vmc[r.id[1]])
    BY Zenon
  <2>1. PICK s \in Names : LbcRemoveRule(s) /\ r.id = LbcId(s, wl[s].obj)
    BY Zenon, <1>1, RulesLost
  <2>2. ~Is(vmc[s])
    BY Zenon, <1>1, <2>1 DEF LbcRemoveRule, LbcAt, OwnerInv, GatewayInv, LbcInv, LbcClaims
  <2>3. r.id[1] = s
    BY Zenon, <2>1, LbcIdName
  <2> QED
    BY Zenon, <2>2, <2>3
<1> QED
  BY <1>1, TypeCorrect, OwnerInvariant, LBSafe, PTL DEF Spec, RuleAfterVmc
=============================================================================
