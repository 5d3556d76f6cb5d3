-------------------------- MODULE ControlPlaneProofs -------------------------
(***************************************************************************)
(* The manager's safety for any set of gateways, pools and ports, any      *)
(* budget of failures, and any lag of the cache.                           *)
(***************************************************************************)
EXTENDS ControlPlane, TLAPS

-----------------------------------------------------------------------------
(* The load balancer is GatewayLB's.                                       *)
LB == INSTANCE GatewayLBProofs WITH Ids <- Names \X Nat

(* GatewayLB's operators are the manager's.                                *)
LEMMA LBOperators ==
  /\ LB!NoLB = NoLB
  /\ \A b, id, p : /\ LB!NoPortFor(b, id, p) = NoPortFor(b, id, p)
                    /\ LB!PortFor(b, id, p) = PortFor(b, id, p)
                    /\ LB!WithRule(b, id, p) = WithRule(b, id, p)
                    /\ LB!WithoutRule(b, id, p) = WithoutRule(b, id, p)
<1>1. LB!NoLB = NoLB
  BY Zenon DEF LB!NoLB, NoLB
<1> SUFFICES ASSUME NEW b, NEW id, NEW p
             PROVE  /\ LB!NoPortFor(b, id, p) = NoPortFor(b, id, p)
                    /\ LB!PortFor(b, id, p) = PortFor(b, id, p)
                    /\ LB!WithRule(b, id, p) = WithRule(b, id, p)
                    /\ LB!WithoutRule(b, id, p) = WithoutRule(b, id, p)
  BY Zenon, <1>1
<1>2. LB!OtherRules(b, id) = OtherRules(b, id)
  BY Zenon DEF LB!OtherRules, OtherRules
<1>3. LB!KeptRules(b, id, p) = KeptRules(b, id, p)
  BY Zenon DEF LB!KeptRules, LB!OwnRules, KeptRules, OwnRules
<1>4. \A R : LB!FreePorts(R, p) = FreePorts(R, p)
  BY Zenon DEF LB!FreePorts, FreePorts, LB!Ports, Ports
<1>5. \A R : LB!selectPortForLBRule(R, p) = selectPortForLBRule(R, p)
  BY <1>4 DEF LB!selectPortForLBRule, selectPortForLBRule
<1>6. LB!PortFor(b, id, p) = PortFor(b, id, p)
  BY <1>2, <1>3, <1>5 DEF LB!PortFor, PortFor
<1>7. LB!NoPortFor(b, id, p) = NoPortFor(b, id, p)
  BY Zenon, <1>2, <1>3, <1>4 DEF LB!NoPortFor, NoPortFor
<1>8. LB!WithRule(b, id, p) = WithRule(b, id, p)
  BY Zenon, <1>2, <1>6 DEF LB!WithRule, WithRule
<1>9. LB!WithoutRule(b, id, p) = WithoutRule(b, id, p)
  BY Zenon, <1>1, <1>2 DEF LB!WithoutRule, WithoutRule
<1> QED
  BY Zenon, <1>6, <1>7, <1>8, <1>9

(* The port a rule gets lies in the wireguard range.                       *)
LEMMA PortInRange ==
  ASSUME NEW b, NEW I, NEW id \in I, NEW p \in Pools,
         b.rules \subseteq [id : I, pool : Pools, port : Ports],
         ~NoPortFor(b, id, p)
  PROVE  PortFor(b, id, p) \in Ports
<1>1. LB!Ports = Ports
  BY Zenon DEF LB!Ports, Ports
<1>2. ~LB!NoPortFor(b, id, p) /\ b.rules \subseteq [id : I, pool : Pools, port : LB!Ports]
  BY Zenon, <1>1, LBOperators
<1>3. LB!PortFor(b, id, p) \in LB!Ports
  BY Zenon, <1>2, PortsAssumption, LB!PortForInRange
<1> QED
  BY Zenon, <1>1, <1>3, LBOperators

USE DEF Kinds, Events, Prefixes

(* The spec that stands in for an absent object's is a spec.               *)
LEMMA AnySpecType == AnySpec \in GwSpec
<1>1. \E sp : sp \in GwSpec
  <2>1. PICK p : p \in Pools
    BY Zenon, PoolsAssumption
  <2>2. [pool |-> p, public |-> TRUE, byo |-> FALSE] \in GwSpec
    BY Zenon, <2>1 DEF GwSpec
  <2> QED
    BY Zenon, <2>2
<1> QED
  BY Zenon, <1>1 DEF AnySpec

(* Absent objects and idle workers are of their types.                     *)
LEMMA NoObjTypes ==
  /\ NoSgc \in SgcObj /\ NoLbc \in LbcObj /\ NoVmc \in VmcObj
  /\ SgcIdle \in SgcWork /\ LbcIdle \in LbcWork /\ VmcIdle \in VmcWork
  /\ 0 \in SgcUids
<1>1. 0 \in SgcUids
  BY BudgetAssumption DEF SgcUids
<1>2. NoSgc \in SgcObj /\ NoLbc \in LbcObj /\ NoVmc \in VmcObj
  BY Zenon, <1>1, AnySpecType DEF NoSgc, NoLbc, NoVmc, SgcObj, LbcObj, VmcObj
<1> QED
  BY Zenon, <1>1, <1>2 DEF SgcIdle, LbcIdle, VmcIdle, SgcWork, LbcWork, VmcWork,
                    SgcPcs, LbcPcs, VmcPcs

(* A manager that has just been installed has the right types.             *)
LEMMA InitType == Init => TypeOK
<1> SUFFICES ASSUME Init PROVE TypeOK
  BY Zenon
<1> USE NoObjTypes, BudgetAssumption DEF Init
<1>1. ApiType /\ CacheType /\ QueueType /\ WorkType
  BY Zenon DEF ApiType, CacheType, QueueType, WorkType
<1>2. AzureType /\ CountType
  BY DEF AzureType, CountType, NoLB
<1> QED
  BY Zenon, <1>1, <1>2 DEF TypeOK

(* What CreateOrPatch leaves behind and returns is an object of the kind.  *)
LEMMA CreateOrPatchLbcType ==
  ASSUME NEW c \in LbcObj, NEW a \in LbcObj, NEW o \in Nat, NEW sp \in GwSpec,
         NEW u \in Nat
  PROVE  LET r == CreateOrPatch(c, a, NoLbc, o, sp, u)
         IN r.err \in BOOLEAN /\ r.api \in LbcObj /\ r.mem \in LbcObj
<1>1. Merge(c.spec, sp, a.spec) \in GwSpec
  BY Zenon DEF Merge, GwSpec, LbcObj
<1> QED
  BY Zenon, <1>1, NoObjTypes DEF CreateOrPatch, LbcObj, NoLbc, Is

(* The same for a vmConfig.                                                *)
LEMMA CreateOrPatchVmcType ==
  ASSUME NEW c \in VmcObj, NEW a \in VmcObj, NEW o \in Nat, NEW sp \in GwSpec,
         NEW u \in Nat
  PROVE  LET r == CreateOrPatch(c, a, NoVmc, o, sp, u)
         IN r.err \in BOOLEAN /\ r.api \in VmcObj /\ r.mem \in VmcObj
<1>1. Merge(c.spec, sp, a.spec) \in GwSpec
  BY Zenon DEF Merge, GwSpec, VmcObj
<1> QED
  BY Zenon, <1>1, NoObjTypes DEF CreateOrPatch, VmcObj, NoVmc, Is

(* The fields of a reconcile's local state.                                *)
LEMMA WorkFields ==
  /\ \A w \in SgcWork : w.pc \in SgcPcs /\ w.obj \in SgcObj /\ w.key \in Nat
       /\ w.port \in Nat /\ w.prefix \in Prefixes /\ w.gone \in BOOLEAN
  /\ \A w \in LbcWork : w.pc \in LbcPcs /\ w.obj \in LbcObj /\ w.port \in Nat
       /\ w.prefix \in Prefixes
  /\ \A w \in VmcWork : w.pc \in VmcPcs /\ w.obj \in VmcObj /\ w.node \in BOOLEAN
BY Zenon DEF SgcWork, LbcWork, VmcWork

(* The effects actions are put together from keep the types.               *)
LEMMA PutTypes ==
  ASSUME TypeOK, NEW s \in Names
  PROVE  /\ \A o \in SgcObj : PutSgc(s, o) =>
              sgc' \in [Names -> SgcObj] /\ dirty' \subseteq (Kinds \cup {"sec", "secdel"}) \X Names
         /\ \A o \in LbcObj : PutLbc(s, o) =>
              lbc' \in [Names -> LbcObj] /\ dirty' \subseteq (Kinds \cup {"sec", "secdel"}) \X Names
         /\ \A o \in VmcObj : PutVmc(s, o) =>
              vmc' \in [Names -> VmcObj] /\ dirty' \subseteq (Kinds \cup {"sec", "secdel"}) \X Names
<1> DEFINE D == (Kinds \cup {"sec", "secdel"}) \X Names
<1>1. dirty \subseteq D /\ sgc \in [Names -> SgcObj] /\ lbc \in [Names -> LbcObj]
        /\ vmc \in [Names -> VmcObj]
  BY Zenon DEF TypeOK, QueueType, ApiType
<1>2. \A k \in Kinds : <<k, s>> \in D
  BY Zenon
<1>3. \A k \in Kinds : \A old, new : Pending(k, s, old, new) => dirty' \subseteq D
  BY Zenon, <1>1, <1>2 DEF Pending
<1> QED
  BY Zenon, <1>1, <1>3 DEF PutSgc, PutLbc, PutVmc

(* Taking a request from a queue and putting it back keep the types.       *)
LEMMA QueueTypes ==
  ASSUME TypeOK
  PROVE  /\ \A k \in Kinds, r \in Requests :
              Take(k, r) \/ Requeue(k, r) => queue' \in [Kinds -> SUBSET Requests]
         /\ Keep => queue' \in [Kinds -> SUBSET Requests]
         /\ Names \subseteq Requests
         /\ Pools \subseteq Requests
BY DEF TypeOK, QueueType, Take, Requeue, Keep, Requests

(* What the VM controller requeues after an error is a request.            *)
LEMMA VmcFailType ==
  ASSUME TypeOK, NEW s \in Names
  PROVE  /\ VmcRequest(s) \in Requests
         /\ VmcFail(s) => queue' \in [Kinds -> SUBSET Requests] /\ wv' \in [Names -> VmcWork]
<1>1. wv[s] \in VmcWork /\ wv \in [Names -> VmcWork]
  BY Zenon DEF TypeOK, WorkType
<1>2. wv[s].obj.spec.pool \in Pools
  BY Zenon, <1>1 DEF VmcWork, VmcObj, GwSpec
<1>3. VmcRequest(s) \in Requests
  BY Zenon, <1>2 DEF VmcRequest, Requests
<1>4. VmcFail(s) => wv' \in [Names -> VmcWork]
  BY Zenon, <1>1, NoObjTypes DEF VmcFail, VmcDone
<1> QED
  BY Zenon, <1>3, <1>4, QueueTypes DEF VmcFail

(* An environment event takes one from its budget.                         *)
LEMMA SpendTypes ==
  ASSUME TypeOK, NEW e \in Events, Spend(e)
  PROVE  /\ left' \in [Events -> Nat]
         /\ left'["create"] = IF e = "create" THEN left["create"] - 1 ELSE left["create"]
<1>1. left \in [Events -> Nat] /\ left[e] > 0
  BY Zenon DEF TypeOK, CountType, Spend
<1>2. left' = [left EXCEPT ![e] = left[e] - 1] /\ left[e] - 1 \in Nat
  BY <1>1 DEF Spend
<1> QED
  BY Zenon, <1>1, <1>2

(* Going on to the next call of a reconcile, and ending it, keep the types.*)
LEMMA GoTypes ==
  ASSUME TypeOK, NEW s \in Names
  PROVE  /\ \A pc \in SgcPcs, o \in SgcObj : SgcGo(s, pc, o) => ws' \in [Names -> SgcWork]
         /\ \A pc \in LbcPcs, o \in LbcObj : LbcGo(s, pc, o) => wl' \in [Names -> LbcWork]
         /\ \A pc \in VmcPcs, o \in VmcObj : VmcGo(s, pc, o) => wv' \in [Names -> VmcWork]
         /\ SgcDone(s) => ws' \in [Names -> SgcWork]
         /\ LbcDone(s) => wl' \in [Names -> LbcWork]
         /\ VmcDone(s) => wv' \in [Names -> VmcWork]
<1>1. /\ ws \in [Names -> SgcWork] /\ ws[s] \in SgcWork
      /\ wl \in [Names -> LbcWork] /\ wl[s] \in LbcWork
      /\ wv \in [Names -> VmcWork] /\ wv[s] \in VmcWork
  BY Zenon DEF TypeOK, WorkType
<1>2. \A pc \in SgcPcs, o \in SgcObj : [ws[s] EXCEPT !.pc = pc, !.obj = o] \in SgcWork
  BY Zenon, <1>1 DEF SgcWork
<1>3. \A pc \in LbcPcs, o \in LbcObj : [wl[s] EXCEPT !.pc = pc, !.obj = o] \in LbcWork
  BY Zenon, <1>1 DEF LbcWork
<1>4. \A pc \in VmcPcs, o \in VmcObj : [wv[s] EXCEPT !.pc = pc, !.obj = o] \in VmcWork
  BY Zenon, <1>1 DEF VmcWork
<1>5. \A pc \in SgcPcs, o \in SgcObj : SgcGo(s, pc, o) => ws' \in [Names -> SgcWork]
  BY Zenon, <1>1, <1>2 DEF SgcGo
<1>6. \A pc \in LbcPcs, o \in LbcObj : LbcGo(s, pc, o) => wl' \in [Names -> LbcWork]
  BY Zenon, <1>1, <1>3 DEF LbcGo
<1>7. \A pc \in VmcPcs, o \in VmcObj : VmcGo(s, pc, o) => wv' \in [Names -> VmcWork]
  BY Zenon, <1>1, <1>4 DEF VmcGo
<1>8. /\ SgcDone(s) => ws' \in [Names -> SgcWork]
      /\ LbcDone(s) => wl' \in [Names -> LbcWork]
      /\ VmcDone(s) => wv' \in [Names -> VmcWork]
  BY Zenon, <1>1, NoObjTypes DEF SgcDone, LbcDone, VmcDone
<1> QED
  BY Zenon, <1>5, <1>6, <1>7, <1>8

(* Every step of the StaticGatewayConfiguration controller keeps the types.*)
LEMMA SgcStepType ==
  ASSUME TypeOK, NEW s \in Names, SgcStep(s)
  PROVE  TypeOK'
<1> DEFINE D == (Kinds \cup {"sec", "secdel"}) \X Names
           Typed == /\ sgc' \in [Names -> SgcObj] /\ lbc' \in [Names -> LbcObj]
                    /\ sec' \in [Names -> [SgcUids -> Nat]]
                    /\ ws' \in [Names -> SgcWork]
                    /\ dirty' \subseteq D /\ queue' \in [Kinds -> SUBSET Requests]
                    /\ uids' \in [Names -> [Kinds -> Nat]] /\ keys' \in [Names -> Nat]
                    /\ \A t \in Names : uids'[t].sgc = uids[t].sgc
<1>a. /\ sgc \in [Names -> SgcObj] /\ lbc \in [Names -> LbcObj]
      /\ sec \in [Names -> [SgcUids -> Nat]] /\ csec \in [Names -> [SgcUids -> Nat]]
      /\ ws \in [Names -> SgcWork] /\ dirty \subseteq D /\ queue \in [Kinds -> SUBSET Requests]
      /\ uids \in [Names -> [Kinds -> Nat]] /\ keys \in [Names -> Nat]
      /\ csgc[s] \in SgcObj /\ clbc[s] \in LbcObj
  BY Zenon DEF TypeOK, ApiType, CacheType, QueueType, WorkType, CountType
<1>b. /\ ws[s].obj \in SgcObj /\ ws[s].key \in Nat /\ ws[s].port \in Nat
      /\ ws[s].prefix \in Prefixes /\ ws[s].gone \in BOOLEAN /\ ws[s] \in SgcWork
  BY Zenon, <1>a, WorkFields
<1>c. \A o \in SgcObj : /\ o.uid \in SgcUids /\ o.uid \in Nat /\ o.spec \in GwSpec
                        /\ o.key \in Nat /\ o.port \in Nat /\ o.prefix \in Prefixes
  <2>1. SgcUids \subseteq Nat
    BY BudgetAssumption DEF SgcUids
  <2> QED
    BY Zenon, <2>1 DEF SgcObj
<1>d. \A pc \in {"idle", "fin", "secret", "lbc", "status", "delSecret", "delLbc", "unfin"} :
        pc \in SgcPcs
  BY Zenon DEF SgcPcs
<1>e. /\ \A k \in {"sec", "secdel"} : dirty \cup {<<k, s>>} \subseteq D
  BY <1>a
<1>1. ASSUME SgcStart(s) PROVE Typed
  BY Zenon, <1>1, <1>a, <1>d, GoTypes, QueueTypes DEF SgcStart
<1>2. ASSUME SgcAddFinalizer(s) PROVE Typed
  <2>1. [sgc[s] EXCEPT !.fin = TRUE] \in SgcObj
    BY Zenon, <1>a DEF SgcObj
  <2> QED
    BY Zenon, <1>2, <2>1, <1>a, <1>d, GoTypes, QueueTypes, PutTypes DEF SgcAddFinalizer, SgcFail
<1>3. ASSUME reconcileWireguardKey(s) PROVE Typed
  <2>1. \A k \in Nat : [ws[s] EXCEPT !.pc = "lbc", !.obj = csgc[s], !.key = k] \in SgcWork
    BY Zenon, <1>a, <1>b DEF SgcWork, SgcPcs
  <2>2. csgc[s].uid \in SgcUids /\ csec[s][csgc[s].uid] \in Nat /\ keys[s] + 1 \in Nat
    <3>1. csgc[s].uid \in SgcUids
      BY Zenon, <1>a, <1>c
    <3> QED
      BY <1>a, <3>1
  <2>3. \A k \in Nat : [sec EXCEPT ![s][csgc[s].uid] = k] \in [Names -> [SgcUids -> Nat]]
    BY Zenon, <1>a, <2>2
  <2>a. \A k \in Nat :
          ws' = [ws EXCEPT ![s] = [@ EXCEPT !.pc = "lbc", !.obj = csgc[s], !.key = k]]
            => ws' \in [Names -> SgcWork]
    BY Zenon, <1>a, <2>1
  <2>4. ws' \in [Names -> SgcWork]
    BY Zenon, <1>3, <2>a, <2>2, GoTypes DEF reconcileWireguardKey, SgcFail
  <2>b. [keys EXCEPT ![s] = @ + 1] \in [Names -> Nat]
    BY <1>a
  <2>5. sec' \in [Names -> [SgcUids -> Nat]] /\ keys' \in [Names -> Nat]
    <3>1. CASE UNCHANGED <<sec, keys>>
      BY Zenon, <1>a, <3>1
    <3>2. CASE /\ keys' = [keys EXCEPT ![s] = @ + 1]
               /\ sec' = [sec EXCEPT ![s][csgc[s].uid] = keys[s] + 1]
      BY Zenon, <2>2, <2>3, <2>b, <3>2
    <3> QED
      BY Zenon, <1>3, <3>1, <3>2 DEF reconcileWireguardKey
  <2>6. dirty' \subseteq D /\ queue' \in [Kinds -> SUBSET Requests]
    BY Zenon, <1>3, <1>a, <1>e, QueueTypes DEF reconcileWireguardKey, SgcFail
  <2> QED
    BY Zenon, <1>3, <1>a, <2>4, <2>5, <2>6 DEF reconcileWireguardKey
<1>4. ASSUME reconcileGatewayLBConfig(s) PROVE Typed
  <2> DEFINE r == CreateOrPatch(clbc[s], lbc[s], NoLbc, ws[s].obj.uid, ws[s].obj.spec,
                                uids[s].lbc + 1)
             use == ~r.mem.del /\ r.mem.port # 0
             new == [ws[s] EXCEPT !.pc = "status",
                        !.port = IF use THEN r.mem.port ELSE ws[s].obj.port,
                        !.prefix = IF use THEN r.mem.prefix ELSE ws[s].obj.prefix]
             same == new.key = ws[s].obj.key /\ new.port = ws[s].obj.port
                       /\ new.prefix = ws[s].obj.prefix
  <2>1. r.api \in LbcObj /\ r.mem \in LbcObj
    <3>1. ws[s].obj.uid \in Nat /\ ws[s].obj.spec \in GwSpec
      BY Zenon, <1>b, <1>c
    <3>2. uids[s].lbc + 1 \in Nat /\ lbc[s] \in LbcObj
      BY <1>a
    <3> QED
      BY Zenon, <1>a, <3>1, <3>2, CreateOrPatchLbcType
  <2> HIDE DEF r
  <2>2. r.api.uid \in Nat /\ r.mem.port \in Nat /\ r.mem.prefix \in Prefixes
    BY Zenon, <2>1 DEF LbcObj
  <2>3. new \in SgcWork
    <3>1. \A n \in Nat, x \in Prefixes :
            [ws[s] EXCEPT !.pc = "status", !.port = n, !.prefix = x] \in SgcWork
      BY Zenon, <1>b DEF SgcWork, SgcPcs
    <3>2. (IF use THEN r.mem.port ELSE ws[s].obj.port) \in Nat
            /\ (IF use THEN r.mem.prefix ELSE ws[s].obj.prefix) \in Prefixes
      BY Zenon, <1>b, <1>c, <2>2
    <3> QED
      BY Zenon, <3>1, <3>2
  <2> HIDE DEF new, same
  <2>4. CASE r.err
    BY Zenon, <1>4, <2>4, <1>a, GoTypes, QueueTypes DEF reconcileGatewayLBConfig, SgcFail, r
  <2>5. CASE ~r.err
    <3>1. /\ PutLbc(s, r.api) /\ Keep /\ UNCHANGED <<sgcRest, sgc, sec, keys>>
          /\ uids' = [uids EXCEPT ![s].lbc = IF r.api.uid > @ THEN r.api.uid ELSE @]
          /\ ws' = [ws EXCEPT ![s] = IF same THEN SgcIdle ELSE new]
      BY Zenon, <1>4, <2>5 DEF reconcileGatewayLBConfig, r, same, new
    <3>2. uids' \in [Names -> [Kinds -> Nat]] /\ \A t \in Names : uids'[t].sgc = uids[t].sgc
      BY Zenon, <3>1, <2>2, <1>a
    <3>3. ws' \in [Names -> SgcWork]
      BY Zenon, <3>1, <2>3, <1>a, NoObjTypes
    <3> QED
      BY Zenon, <3>1, <3>2, <3>3, <2>1, <1>a, QueueTypes, PutTypes
  <2> QED
    BY Zenon, <2>4, <2>5
<1>5. ASSUME SgcPatchStatus(s) PROVE Typed
  <2>1. \A k, n \in Nat, x \in Prefixes :
          [sgc[s] EXCEPT !.key = k, !.port = n, !.prefix = x] \in SgcObj
    BY Zenon, <1>a DEF SgcObj
  <2>2. /\ (IF ws[s].obj.key = ws[s].key THEN sgc[s].key ELSE ws[s].key) \in Nat
        /\ (IF ws[s].obj.port = ws[s].port THEN sgc[s].port ELSE ws[s].port) \in Nat
        /\ (IF ws[s].obj.prefix = ws[s].prefix THEN sgc[s].prefix ELSE ws[s].prefix) \in Prefixes
    BY Zenon, <1>a, <1>b, <1>c
  <2> QED
    BY Zenon, <1>5, <2>1, <2>2, <1>a, GoTypes, QueueTypes, PutTypes DEF SgcPatchStatus, SgcFail
<1>6. ASSUME SgcDeleteSecret(s) PROVE Typed
  <2>1. \A g \in BOOLEAN : [ws[s] EXCEPT !.pc = "delLbc", !.gone = g] \in SgcWork
    BY Zenon, <1>b DEF SgcWork, SgcPcs
  <2>2. ws' \in [Names -> SgcWork]
    BY Zenon, <1>6, <1>a, <2>1 DEF SgcDeleteSecret
  <2>3. sec' \in [Names -> [SgcUids -> Nat]]
    BY Zenon, <1>6, <1>a, <1>b, <1>c DEF SgcDeleteSecret
  <2> QED
    BY Zenon, <1>6, <1>a, <1>e, <2>2, <2>3 DEF SgcDeleteSecret
<1>7. ASSUME SgcDeleteLbc(s) PROVE Typed
  <2>1. Deleted(lbc[s], NoLbc) \in LbcObj
    BY Zenon, <1>a, NoObjTypes DEF Deleted, LbcObj
  <2> QED
    BY Zenon, <1>7, <2>1, <1>a, <1>b, <1>d, GoTypes, PutTypes DEF SgcDeleteLbc
<1>8. ASSUME SgcRemoveFinalizer(s) PROVE Typed
  BY Zenon, <1>8, <1>a, NoObjTypes, GoTypes, QueueTypes, PutTypes DEF SgcRemoveFinalizer, SgcFail
<1>9. UNCHANGED <<sgcRest>>
  BY Zenon, SgcStep(s) DEF SgcStep, SgcStart, SgcAddFinalizer, reconcileWireguardKey,
     reconcileGatewayLBConfig, SgcPatchStatus, SgcDeleteSecret, SgcDeleteLbc,
     SgcRemoveFinalizer
<1>10. Typed
  BY Zenon, <1>1, <1>2, <1>3, <1>4, <1>5, <1>6, <1>7, <1>8 DEF SgcStep
<1> QED
  BY Zenon, <1>9, <1>10 DEF sgcRest, TypeOK, ApiType, CacheType, QueueType, WorkType, AzureType,
                     CountType

(* Every step of the GatewayLBConfiguration controller keeps the types.    *)
LEMMA LbcStepType ==
  ASSUME TypeOK, NEW s \in Names, LbcStep(s)
  PROVE  TypeOK'
<1> DEFINE D == (Kinds \cup {"sec", "secdel"}) \X Names
           Rule == [id : Ids, pool : Pools, port : Ports]
           LbShape == [fronts : SUBSET Pools, backs : SUBSET Pools, rules : SUBSET Rule,
                  probes : SUBSET Ids]
           Typed == /\ lbc' \in [Names -> LbcObj] /\ vmc' \in [Names -> VmcObj]
                    /\ wl' \in [Names -> LbcWork] /\ lb' \in LbShape
                    /\ dirty' \subseteq D /\ queue' \in [Kinds -> SUBSET Requests]
                    /\ uids' \in [Names -> [Kinds -> Nat]]
                    /\ \A t \in Names : uids'[t].sgc = uids[t].sgc
<1>a. /\ lbc \in [Names -> LbcObj] /\ vmc \in [Names -> VmcObj]
      /\ wl \in [Names -> LbcWork] /\ lb \in LbShape
      /\ dirty \subseteq D /\ queue \in [Kinds -> SUBSET Requests]
      /\ uids \in [Names -> [Kinds -> Nat]]
      /\ clbc[s] \in LbcObj /\ cvmc[s] \in VmcObj
  BY Zenon DEF TypeOK, ApiType, CacheType, QueueType, WorkType, AzureType, CountType
<1>b. /\ wl[s].obj \in LbcObj /\ wl[s].port \in Nat /\ wl[s].prefix \in Prefixes
      /\ wl[s] \in LbcWork
  BY Zenon, <1>a, WorkFields
<1>c. \A o \in LbcObj : /\ o.uid \in Nat /\ o.spec \in GwSpec /\ o.port \in Nat
                        /\ o.prefix \in Prefixes /\ o.spec.pool \in Pools
                        /\ LbcId(s, o) \in Ids
  BY Zenon DEF LbcObj, GwSpec, LbcId, Ids
<1>d. \A pc \in {"idle", "fin", "rule", "vmc", "status", "delVmc", "unrule", "unfin"} :
        pc \in LbcPcs
  BY Zenon DEF LbcPcs
<1>1. ASSUME LbcStart(s) PROVE Typed
  BY Zenon, <1>1, <1>a, <1>d, GoTypes, QueueTypes DEF LbcStart, lbcRest
<1>2. ASSUME LbcAddFinalizer(s) PROVE Typed
  <2>1. [lbc[s] EXCEPT !.fin = TRUE] \in LbcObj
    BY Zenon, <1>a DEF LbcObj
  <2> QED
    BY Zenon, <1>2, <2>1, <1>a, <1>d, GoTypes, QueueTypes, PutTypes DEF LbcAddFinalizer, LbcFail
<1>3. ASSUME LbcEnsureRule(s) PROVE Typed
  <2> DEFINE id == LbcId(s, wl[s].obj)
             p == wl[s].obj.spec.pool
             port == PortFor(lb, id, p)
  <2>0. id \in Ids /\ p \in Pools
    BY Zenon, <1>b, <1>c
  <2> HIDE DEF id, p
  <2>1. CASE p \notin nodepools \/ NoPortFor(lb, id, p)
    BY Zenon, <1>3, <2>1, <1>a, GoTypes, QueueTypes DEF LbcEnsureRule, LbcFail, id, p
  <2>2. CASE ~(p \notin nodepools \/ NoPortFor(lb, id, p))
    <3>1. /\ lb' = WithRule(lb, id, p) /\ Keep
          /\ UNCHANGED <<lbcRest, lbc, vmc, dirty, uids>>
          /\ wl' = [wl EXCEPT ![s] = [@ EXCEPT !.pc = "vmc", !.port = port]]
      BY Zenon, <1>3, <2>2 DEF LbcEnsureRule, id, p
    <3>2. port \in Ports
      <4>1. lb.rules \subseteq Rule
        BY Zenon, <1>a
      <4> QED
        BY Zenon, <2>0, <2>2, <4>1, PortInRange
    <3>3. port \in Nat
      BY <3>2, PortsAssumption DEF Ports
    <3>4. [wl[s] EXCEPT !.pc = "vmc", !.port = port] \in LbcWork
      BY Zenon, <1>b, <3>3 DEF LbcWork, LbcPcs
    <3>5. wl' \in [Names -> LbcWork]
      BY Zenon, <1>a, <3>1, <3>4
    <3>6. WithRule(lb, id, p) \in LbShape
      BY <1>a, <2>0, <3>2 DEF WithRule, KeptRules, OwnRules, OtherRules
    <3> QED
      BY Zenon, <1>a, <3>1, <3>5, <3>6, QueueTypes
  <2> QED
    BY Zenon, <2>1, <2>2
<1>4. ASSUME reconcileGatewayVMConfig(s) PROVE Typed
  <2> DEFINE r == CreateOrPatch(cvmc[s], vmc[s], NoVmc, wl[s].obj.uid, wl[s].obj.spec,
                                uids[s].vmc + 1)
             use == ~r.mem.del /\ r.mem.st
             new == [wl[s] EXCEPT !.pc = "status",
                        !.prefix = IF use THEN r.mem.prefix ELSE wl[s].obj.prefix]
             same == new.port = wl[s].obj.port /\ new.prefix = wl[s].obj.prefix
  <2>1. r.api \in VmcObj /\ r.mem \in VmcObj
    <3>1. wl[s].obj.uid \in Nat /\ wl[s].obj.spec \in GwSpec
      BY Zenon, <1>b, <1>c
    <3>2. uids[s].vmc + 1 \in Nat /\ vmc[s] \in VmcObj
      BY <1>a
    <3> QED
      BY Zenon, <1>a, <3>1, <3>2, CreateOrPatchVmcType
  <2> HIDE DEF r
  <2>2. r.api.uid \in Nat /\ r.mem.prefix \in Prefixes
    BY Zenon, <2>1 DEF VmcObj
  <2>3. new \in LbcWork
    <3>1. \A x \in Prefixes : [wl[s] EXCEPT !.pc = "status", !.prefix = x] \in LbcWork
      BY Zenon, <1>b DEF LbcWork, LbcPcs
    <3>2. (IF use THEN r.mem.prefix ELSE wl[s].obj.prefix) \in Prefixes
      BY Zenon, <1>b, <1>c, <2>2
    <3> QED
      BY Zenon, <3>1, <3>2
  <2> HIDE DEF new, same
  <2>4. CASE r.err
    BY Zenon, <1>4, <2>4, <1>a, GoTypes, QueueTypes DEF reconcileGatewayVMConfig, LbcFail, r
  <2>5. CASE ~r.err
    <3>1. /\ PutVmc(s, r.api) /\ Keep /\ UNCHANGED <<lbcRest, lbc, lb>>
          /\ uids' = [uids EXCEPT ![s].vmc = IF r.api.uid > @ THEN r.api.uid ELSE @]
          /\ wl' = [wl EXCEPT ![s] = IF same THEN LbcIdle ELSE new]
      BY Zenon, <1>4, <2>5 DEF reconcileGatewayVMConfig, r, same, new
    <3>2. uids' \in [Names -> [Kinds -> Nat]] /\ \A t \in Names : uids'[t].sgc = uids[t].sgc
      BY Zenon, <3>1, <2>2, <1>a
    <3>3. wl' \in [Names -> LbcWork]
      BY Zenon, <3>1, <2>3, <1>a, NoObjTypes
    <3> QED
      BY Zenon, <3>1, <3>2, <3>3, <2>1, <1>a, QueueTypes, PutTypes
  <2> QED
    BY Zenon, <2>4, <2>5
<1>5. ASSUME LbcUpdateStatus(s) PROVE Typed
  <2>1. [lbc[s] EXCEPT !.port = wl[s].port, !.prefix = wl[s].prefix] \in LbcObj
    BY Zenon, <1>a, <1>b DEF LbcObj
  <2> QED
    BY Zenon, <1>5, <2>1, <1>a, GoTypes, PutTypes DEF LbcUpdateStatus
<1>6. ASSUME LbcDeleteVmc(s) PROVE Typed
  <2>1. Deleted(vmc[s], NoVmc) \in VmcObj
    BY Zenon, <1>a, NoObjTypes DEF Deleted, VmcObj
  <2> QED
    BY Zenon, <1>6, <2>1, <1>a, <1>b, <1>d, GoTypes, PutTypes DEF LbcDeleteVmc
<1>7. ASSUME LbcRemoveRule(s) PROVE Typed
  <2>1. \A id, p : WithoutRule(lb, id, p) \in LbShape
    BY Zenon, <1>a DEF WithoutRule, OtherRules, NoLB
  <2>2. lb' \in LbShape
    BY <1>7, <2>1, <1>a DEF LbcRemoveRule
  <2>3. wl' \in [Names -> LbcWork] /\ queue' \in [Kinds -> SUBSET Requests]
    BY Zenon, <1>7, <1>b, <1>d, GoTypes, QueueTypes DEF LbcRemoveRule, LbcFail
  <2> QED
    BY Zenon, <1>7, <2>2, <2>3, <1>a DEF LbcRemoveRule
<1>8. ASSUME LbcRemoveFinalizer(s) PROVE Typed
  BY Zenon, <1>8, <1>a, NoObjTypes, GoTypes, QueueTypes, PutTypes DEF LbcRemoveFinalizer, LbcFail
<1>9. UNCHANGED lbcRest
  BY Zenon, LbcStep(s) DEF LbcStep, LbcStart, LbcAddFinalizer, LbcEnsureRule,
     reconcileGatewayVMConfig, LbcUpdateStatus, LbcDeleteVmc, LbcRemoveRule,
     LbcRemoveFinalizer
<1>10. Typed
  BY Zenon, <1>1, <1>2, <1>3, <1>4, <1>5, <1>6, <1>7, <1>8 DEF LbcStep
<1> QED
  BY Zenon, <1>9, <1>10 DEF lbcRest, TypeOK, ApiType, CacheType, QueueType, WorkType, AzureType,
                     CountType

(* Every step of the GatewayVMConfiguration controller keeps the types.    *)
LEMMA VmcStepType ==
  ASSUME TypeOK, NEW s \in Names, VmcStep(s)
  PROVE  TypeOK'
<1> DEFINE D == (Kinds \cup {"sec", "secdel"}) \X Names
           Cfg == [id : Ids, egress : Prefixes]
           Vmss == [cfgs : SUBSET Cfg, backend : BOOLEAN]
           Typed == /\ vmc' \in [Names -> VmcObj] /\ wv' \in [Names -> VmcWork]
                    /\ dirty' \subseteq D /\ queue' \in [Kinds -> SUBSET Requests]
                    /\ vmss' \in [Pools -> Vmss] /\ prefixes' \subseteq Ids
<1>a. /\ vmc \in [Names -> VmcObj] /\ wv \in [Names -> VmcWork]
      /\ dirty \subseteq D /\ queue \in [Kinds -> SUBSET Requests]
      /\ vmss \in [Pools -> Vmss] /\ prefixes \subseteq Ids
      /\ cvmc[s] \in VmcObj
  BY Zenon DEF TypeOK, ApiType, CacheType, QueueType, WorkType, AzureType, CountType
<1>b. wv[s].obj \in VmcObj
  BY Zenon, <1>a, WorkFields
<1>c. \A o \in VmcObj : /\ o.spec.pool \in Pools /\ VmcId(s, o) \in Ids
                        /\ Egress(o.spec) \in Prefixes
  BY Zenon DEF VmcObj, GwSpec, VmcId, Ids, Egress
<1>d. \A pc \in {"idle", "fin", "prefix", "pool", "profiles", "unprefix", "status",
                 "delPool", "delPrefix", "unfin"} : pc \in VmcPcs
  BY Zenon DEF VmcPcs
<1>e. \A v \in Vmss, id \in Ids, x \in Prefixes, w \in BOOLEAN :
        reconcileVMSS(v, id, x, w) \in Vmss
  <2> TAKE v \in Vmss, id \in Ids, x \in Prefixes, w \in BOOLEAN
  <2> DEFINE others == {c \in v.cfgs : c.id # id}
             cfgs == IF w THEN others \cup {[id |-> id, egress |-> x]} ELSE others
  <2>1. others \subseteq Cfg
    BY Zenon
  <2>2. [id |-> id, egress |-> x] \in Cfg
    BY Zenon
  <2>3. cfgs \in SUBSET Cfg
    BY Zenon, <2>1, <2>2
  <2>4. reconcileVMSS(v, id, x, w) = [cfgs |-> cfgs, backend |-> cfgs # {}]
    BY Zenon DEF reconcileVMSS
  <2> HIDE DEF cfgs
  <2>5. \A C \in SUBSET Cfg, b \in BOOLEAN : [cfgs |-> C, backend |-> b] \in Vmss
    BY Zenon
  <2>6. (cfgs # {}) \in BOOLEAN
    BY Zenon
  <2> QED
    BY Zenon, <2>3, <2>4, <2>5, <2>6
<1>f. \A p \in Pools, v \in Vmss : [vmss EXCEPT ![p] = v] \in [Pools -> Vmss]
  BY Zenon, <1>a
<1>g. \A o \in VmcObj : VmcFinish(s, o) => wv' \in [Names -> VmcWork]
  BY Zenon, <1>d, GoTypes DEF VmcFinish
<1>1. ASSUME VmcStart(s) PROVE Typed
  BY Zenon, <1>1, <1>a, <1>d, GoTypes, QueueTypes DEF VmcStart
<1>2. ASSUME VmcNodeNext(s) PROVE Typed
  BY Zenon, <1>2, <1>a, <1>b, <1>d, GoTypes DEF VmcNodeNext
<1>3. ASSUME VmcAddFinalizer(s) PROVE Typed
  <2>1. [vmc[s] EXCEPT !.fin = TRUE] \in VmcObj
    BY Zenon, <1>a DEF VmcObj
  <2> QED
    BY Zenon, <1>3, <2>1, <1>a, <1>d, GoTypes, QueueTypes, VmcFailType, PutTypes DEF VmcAddFinalizer
<1>4. ASSUME ensurePublicIPPrefix(s) PROVE Typed
  <2>1. prefixes' \subseteq Ids
    BY Zenon, <1>4, <1>a, <1>b, <1>c DEF ensurePublicIPPrefix
  <2> QED
    BY Zenon, <1>4, <2>1, <1>a, <1>b, <1>d, GoTypes, QueueTypes, VmcFailType DEF ensurePublicIPPrefix
<1>5. ASSUME VmcReconcilePool(s) PROVE Typed
  <2> DEFINE p == wv[s].obj.spec.pool
             v == reconcileVMSS(vmss[p], VmcId(s, wv[s].obj), Egress(wv[s].obj.spec), TRUE)
  <2>1. p \in Pools /\ v \in Vmss
    BY Zenon, <1>a, <1>b, <1>c, <1>e
  <2> HIDE DEF v
  <2>2. vmss' = vmss \/ vmss' = [vmss EXCEPT ![p] = v]
    BY Zenon, <1>5 DEF VmcReconcilePool, v
  <2>3. vmss' \in [Pools -> Vmss]
    BY Zenon, <1>a, <1>f, <2>1, <2>2
  <2> QED
    BY Zenon, <1>5, <2>3, <1>a, <1>b, <1>d, GoTypes, QueueTypes, VmcFailType DEF VmcReconcilePool
<1>6. ASSUME VmcUpdateProfiles(s) PROVE Typed
  <2>1. [vmc[s] EXCEPT !.st = TRUE] \in VmcObj
    BY Zenon, <1>a DEF VmcObj
  <2> QED
    BY Zenon, <1>6, <2>1, <1>a, <1>d, <1>g, GoTypes, QueueTypes, VmcFailType, PutTypes
    DEF VmcUpdateProfiles
<1>7. ASSUME VmcDropUnusedPrefix(s) PROVE Typed
  BY Zenon, <1>7, <1>a, <1>b, <1>g, QueueTypes, VmcFailType DEF VmcDropUnusedPrefix
<1>8. ASSUME VmcUpdateStatus(s) PROVE Typed
  <2>1. [vmc[s] EXCEPT !.prefix = Egress(wv[s].obj.spec)] \in VmcObj
    BY Zenon, <1>a, <1>b, <1>c DEF VmcObj
  <2> QED
    BY Zenon, <1>8, <2>1, <1>a, GoTypes, PutTypes DEF VmcUpdateStatus
<1>9. ASSUME VmcCleanPool(s) PROVE Typed
  <2> DEFINE p == wv[s].obj.spec.pool
             v == reconcileVMSS(vmss[p], VmcId(s, wv[s].obj), "private", FALSE)
  <2>1. p \in Pools /\ v \in Vmss
    BY Zenon, <1>a, <1>b, <1>c, <1>e
  <2> HIDE DEF v
  <2>2. vmss' = vmss \/ vmss' = [vmss EXCEPT ![p] = v]
    BY Zenon, <1>9 DEF VmcCleanPool, v
  <2>3. vmss' \in [Pools -> Vmss]
    BY Zenon, <1>a, <1>f, <2>1, <2>2
  <2> QED
    BY Zenon, <1>9, <2>3, <1>a, <1>b, <1>d, GoTypes, QueueTypes, VmcFailType DEF VmcCleanPool
<1>10. ASSUME VmcDeletePrefix(s) PROVE Typed
  BY Zenon, <1>10, <1>a, <1>b, <1>d, GoTypes, QueueTypes, VmcFailType DEF VmcDeletePrefix
<1>11. ASSUME VmcRemoveFinalizer(s) PROVE Typed
  BY Zenon, <1>11, <1>a, NoObjTypes, GoTypes, QueueTypes, VmcFailType, PutTypes DEF VmcRemoveFinalizer
<1>12. UNCHANGED vmcRest
  BY Zenon, VmcStep(s) DEF VmcStep, VmcStart, VmcNodeNext, VmcAddFinalizer, ensurePublicIPPrefix,
     VmcReconcilePool, VmcUpdateProfiles, VmcDropUnusedPrefix, VmcUpdateStatus, VmcCleanPool,
     VmcDeletePrefix, VmcRemoveFinalizer
<1>13. Typed
  BY Zenon, <1>1, <1>2, <1>3, <1>4, <1>5, <1>6, <1>7, <1>8, <1>9, <1>10, <1>11 DEF VmcStep
<1> QED
  BY Zenon, <1>12, <1>13 DEF vmcRest, TypeOK, ApiType, CacheType, QueueType, WorkType, AzureType,
                      CountType

(* Delivering a watch event, and the resync, keep the types.               *)
LEMMA SyncType ==
  ASSUME TypeOK, NEW s \in Names, Sync(s) \/ Resync(s)
  PROVE  TypeOK'
<1>1. \A K : Enqueue(K, s) => queue' \in [Kinds -> SUBSET Requests]
  BY Zenon DEF TypeOK, QueueType, Enqueue, Requests
<1>2. queue' \in [Kinds -> SUBSET Requests] /\ dirty' \subseteq dirty
  BY Zenon, <1>1 DEF Sync, SyncSgc, SyncLbc, SyncVmc, SyncSec, Resync
<1>3. CacheType'
  BY Zenon DEF Sync, SyncSgc, SyncLbc, SyncVmc, SyncSec, Resync, cache, TypeOK, ApiType, CacheType
<1>4. UNCHANGED watchRest
  BY Zenon DEF Sync, SyncSgc, SyncLbc, SyncVmc, SyncSec, Resync
<1> QED
  BY Zenon, <1>2, <1>3, <1>4 DEF watchRest, api, ctrl, azure, TypeOK, ApiType, QueueType, WorkType,
                          AzureType, CountType

(* What users do keeps the types.                                          *)
LEMMA UserType ==
  ASSUME TypeOK, NEW s \in Names, UserStep(s)
  PROVE  TypeOK'
<1> DEFINE D == (Kinds \cup {"sec", "secdel"}) \X Names
           Typed == /\ ApiType' /\ dirty' \subseteq D /\ CountType'
<1>a. /\ sgc \in [Names -> SgcObj] /\ lbc \in [Names -> LbcObj] /\ vmc \in [Names -> VmcObj]
      /\ sec \in [Names -> [SgcUids -> Nat]] /\ dirty \subseteq D
  BY Zenon DEF TypeOK, ApiType, QueueType
<1>b. /\ Deleted(sgc[s], NoSgc) \in SgcObj /\ Deleted(lbc[s], NoLbc) \in LbcObj
      /\ Deleted(vmc[s], NoVmc) \in VmcObj
  <2>1. Deleted(sgc[s], NoSgc) \in SgcObj
    BY Zenon, <1>a, NoObjTypes DEF Deleted, SgcObj
  <2>2. Deleted(lbc[s], NoLbc) \in LbcObj
    BY Zenon, <1>a, NoObjTypes DEF Deleted, LbcObj
  <2>3. Deleted(vmc[s], NoVmc) \in VmcObj
    BY Zenon, <1>a, NoObjTypes DEF Deleted, VmcObj
  <2> QED
    BY Zenon, <2>1, <2>2, <2>3
<1>c. ASSUME UNCHANGED <<uids, keys>>, NEW e \in Events \ {"create"}, Spend(e) PROVE CountType'
  <2>1. left' \in [Events -> Nat] /\ left'["create"] = left["create"]
    BY Zenon, <1>c, SpendTypes
  <2> QED
    BY Zenon, <1>c, <2>1 DEF TypeOK, CountType
<1>1. ASSUME NEW spec \in UserSpecs, CreateGateway(s, spec) PROVE Typed
  <2> DEFINE u == uids[s].sgc + 1
  <2>0. UNCHANGED <<userRest, lbc, vmc, sec>> /\ Spend("create")
          /\ uids' = [uids EXCEPT ![s].sgc = @ + 1]
          /\ PutSgc(s, [NoSgc EXCEPT !.uid = u, !.spec = spec])
    BY Zenon, <1>1 DEF CreateGateway
  <2>1. /\ uids \in [Names -> [Kinds -> Nat]] /\ left \in [Events -> Nat] /\ left["create"] > 0
        /\ \A t \in Names : uids[t].sgc + left["create"] <= Budget["create"]
    BY Zenon, <2>0 DEF TypeOK, CountType, Spend
  <2>2. left' \in [Events -> Nat] /\ left'["create"] = left["create"] - 1
    BY Zenon, <2>0, SpendTypes
  <2>3. u \in SgcUids
    BY <2>1, BudgetAssumption DEF SgcUids
  <2>4. [NoSgc EXCEPT !.uid = u, !.spec = spec] \in SgcObj
    BY Zenon, <2>3, SpecsAssumption DEF NoSgc, SgcObj
  <2>5. sgc' \in [Names -> SgcObj] /\ dirty' \subseteq D
    BY Zenon, <2>0, <2>4, PutTypes
  <2>6. uids' \in [Names -> [Kinds -> Nat]]
    BY <2>0, <2>1
  <2>7. \A t \in Names : uids'[t].sgc + left'["create"] <= Budget["create"]
    BY <2>0, <2>1, <2>2, BudgetAssumption
  <2> QED
    BY Zenon, <2>0, <2>2, <2>5, <2>6, <2>7 DEF userRest, TypeOK, ApiType, CountType
<1>2. ASSUME DeleteGateway(s) PROVE Typed
  BY Zenon, <1>2, <1>a, <1>b, <1>c, PutTypes DEF DeleteGateway, userRest, ApiType
<1>3. ASSUME NEW spec \in UserSpecs, EditGateway(s, spec) PROVE Typed
  <2>1. [sgc[s] EXCEPT !.spec = spec] \in SgcObj
    BY Zenon, <1>a, SpecsAssumption DEF SgcObj
  <2> QED
    BY Zenon, <1>3, <2>1, <1>a, <1>c, PutTypes DEF EditGateway, userRest, ApiType
<1>4. ASSUME KillLbc(s) PROVE Typed
  BY Zenon, <1>4, <1>a, <1>b, <1>c, PutTypes DEF KillLbc, userRest, ApiType
<1>5. ASSUME KillVmc(s) PROVE Typed
  BY Zenon, <1>5, <1>a, <1>b, <1>c, PutTypes DEF KillVmc, userRest, ApiType
<1>6. ASSUME KillSecret(s) PROVE Typed
  <2>1. sec' \in [Names -> [SgcUids -> Nat]]
    BY Zenon, <1>6, <1>a DEF KillSecret, SgcObj
  <2>2. dirty' \subseteq D
    BY <1>6, <1>a DEF KillSecret
  <2> QED
    BY Zenon, <1>6, <2>1, <2>2, <1>a, <1>c DEF KillSecret, userRest, ApiType
<1>7. Typed /\ UNCHANGED <<cache, queue, ctrl, azure>>
  BY Zenon, <1>1, <1>2, <1>3, <1>4, <1>5, <1>6
  DEF UserStep, CreateGateway, DeleteGateway, EditGateway, KillLbc, KillVmc, KillSecret, userRest
<1> QED
  BY Zenon, <1>7 DEF cache, ctrl, azure, TypeOK, CacheType, QueueType, WorkType, AzureType

(* Events of nodes keep the types.                                         *)
LEMMA NodeType ==
  ASSUME TypeOK, NEW p \in Pools, VmcNodeEvent(p) \/ NodeJoins(p)
  PROVE  TypeOK'
<1>1. CASE VmcNodeEvent(p)
  <2>1. queue' \in [Kinds -> SUBSET Requests]
    BY Zenon, <1>1, QueueTypes DEF VmcNodeEvent
  <2>2. \A o \in VmcObj : [pc |-> "listed", obj |-> o, node |-> TRUE] \in VmcWork
    BY Zenon DEF VmcWork, VmcPcs
  <2>3. wv' \in [Names -> VmcWork]
    BY Zenon, <1>1, <2>2, NoObjTypes DEF VmcNodeEvent, TypeOK, CacheType
  <2> QED
    BY Zenon, <1>1, <2>1, <2>3
    DEF VmcNodeEvent, vmcRest, TypeOK, ApiType, CacheType, QueueType, WorkType, AzureType,
        CountType
<1>2. CASE NodeJoins(p)
  <2>1. left' \in [Events -> Nat] /\ left'["create"] = left["create"]
    BY Zenon, <1>2, SpendTypes DEF NodeJoins
  <2>2. queue' \in [Kinds -> SUBSET Requests]
    BY Zenon, <1>2, QueueTypes DEF NodeJoins
  <2> QED
    BY Zenon, <1>2, <2>1, <2>2
    DEF NodeJoins, api, cache, ctrl, azure, TypeOK, ApiType, CacheType, QueueType, WorkType,
        AzureType, CountType
<1> QED
  BY Zenon, <1>1, <1>2

(* Failures and restarts keep the types.                                   *)
LEMMA FailureType ==
  ASSUME TypeOK, (\E s \in Names : Fault(s)) \/ (\E p \in Pools : LosePool(p)) \/ Restart
  PROVE  TypeOK'
<1>1. CASE \E s \in Names : Fault(s)
  <2>1. PICK s \in Names : Fault(s)
    BY Zenon, <1>1
  <2>2. left' \in [Events -> Nat] /\ left'["create"] = left["create"]
    BY Zenon, <2>1, SpendTypes DEF Fault
  <2>3. ws' \in [Names -> SgcWork] /\ wl' \in [Names -> LbcWork] /\ wv' \in [Names -> VmcWork]
    BY Zenon, <2>1, GoTypes DEF Fault, SgcFail, TypeOK, WorkType
  <2>4. queue' \in [Kinds -> SUBSET Requests]
    BY Zenon, <2>1, QueueTypes, VmcFailType DEF Fault, SgcFail
  <2> QED
    BY Zenon, <2>1, <2>2, <2>3, <2>4
    DEF Fault, api, cache, azure, TypeOK, ApiType, CacheType, QueueType, WorkType, AzureType,
        CountType
<1>2. CASE \E p \in Pools : LosePool(p)
  <2>1. PICK p \in Pools : LosePool(p)
    BY Zenon, <1>2
  <2>2. left' \in [Events -> Nat] /\ left'["create"] = left["create"]
    BY Zenon, <2>1, SpendTypes DEF LosePool
  <2>3. AzureType'
    BY Zenon, <2>1 DEF LosePool, TypeOK, AzureType
  <2> QED
    BY Zenon, <2>1, <2>2, <2>3
    DEF LosePool, api, cache, ctrl, TypeOK, ApiType, CacheType, QueueType, WorkType, CountType
<1>3. CASE Restart
  <2>1. left' \in [Events -> Nat] /\ left'["create"] = left["create"]
    BY Zenon, <1>3, SpendTypes DEF Restart
  <2>2. WorkType'
    BY Zenon, <1>3, NoObjTypes DEF Restart, WorkType
  <2>3. QueueType'
    BY Zenon, <1>3 DEF Restart, QueueType, TypeOK, AzureType, Requests
  <2> QED
    BY Zenon, <1>3, <2>1, <2>2, <2>3
    DEF Restart, api, azure, TypeOK, ApiType, CacheType, AzureType, CountType
<1> QED
  BY Zenon, <1>1, <1>2, <1>3

(* The manager's state always has the shape TypeOK gives it: in particular *)
(* no port outside WireguardPortStart .. WireguardPortEnd - 1 is ever put  *)
(* on the load balancer.                                                   *)
THEOREM TypeCorrect == Spec => []TypeOK
<1>1. TypeOK /\ [Next]_vars => TypeOK'
  <2>1. TypeOK /\ Next => TypeOK'
    BY Zenon, SgcStepType, LbcStepType, VmcStepType, SyncType, UserType, NodeType, FailureType
    DEF Next, Work
  <2>2. TypeOK /\ UNCHANGED vars => TypeOK'
    BY Zenon DEF vars, TypeOK, ApiType, CacheType, QueueType, WorkType, AzureType, CountType
  <2> QED
    BY Zenon, <2>1, <2>2
<1> QED
  BY InitType, <1>1, PTL DEF Spec

-----------------------------------------------------------------------------
(* The load balancer.                                                      *)
(* A step of the manager either leaves the load balancer alone or is one   *)
(* of the two calls of reconcileLBRule, for an lbConfig and its pool.      *)
LEMMA LBSteps ==
  ASSUME TypeOK, [Next]_vars
  PROVE  \/ UNCHANGED lb
         \/ \E s \in Names :
              LET o == wl[s].obj IN
              /\ LbcId(s, o) \in Names \X Nat /\ o.spec.pool \in Pools
              /\ \/ LbcEnsureRule(s) /\ ~NoPortFor(lb, LbcId(s, o), o.spec.pool)
                    /\ lb' = WithRule(lb, LbcId(s, o), o.spec.pool)
                 \/ LbcRemoveRule(s) /\ lb' = WithoutRule(lb, LbcId(s, o), o.spec.pool)
<1>1. ASSUME NEW s \in Names
      PROVE  LbcId(s, wl[s].obj) \in Names \X Nat /\ wl[s].obj.spec.pool \in Pools
  <2>1. wl[s].obj \in LbcObj
    BY Zenon, WorkFields DEF TypeOK, WorkType
  <2> QED
    BY Zenon, <2>1 DEF LbcId, LbcObj, GwSpec
<1>2. ASSUME NEW s \in Names, LbcStep(s), lb' # lb
      PROVE  LbcEnsureRule(s) \/ LbcRemoveRule(s)
  BY Zenon, <1>2 DEF LbcStep, LbcStart, LbcAddFinalizer, reconcileGatewayVMConfig, LbcUpdateStatus,
     LbcDeleteVmc, LbcRemoveFinalizer
<1>3. ASSUME NEW s \in Names, SgcStep(s) PROVE UNCHANGED lb
  BY Zenon, <1>3 DEF SgcStep, SgcStart, SgcAddFinalizer, reconcileWireguardKey,
     reconcileGatewayLBConfig, SgcPatchStatus, SgcDeleteSecret, SgcDeleteLbc,
     SgcRemoveFinalizer, sgcRest
<1>4. ASSUME NEW s \in Names, VmcStep(s) PROVE UNCHANGED lb
  BY Zenon, <1>4 DEF VmcStep, VmcStart, VmcNodeNext, VmcAddFinalizer, ensurePublicIPPrefix,
     VmcReconcilePool, VmcUpdateProfiles, VmcDropUnusedPrefix, VmcUpdateStatus, VmcCleanPool,
     VmcDeletePrefix, VmcRemoveFinalizer, vmcRest
<1>5. ASSUME NEW s \in Names, Sync(s) \/ Resync(s) \/ UserStep(s) \/ Fault(s) PROVE UNCHANGED lb
  BY Zenon, <1>5 DEF Sync, SyncSgc, SyncLbc, SyncVmc, SyncSec, Resync, UserStep, CreateGateway,
     DeleteGateway, EditGateway, KillLbc, KillVmc, KillSecret, Fault, watchRest, userRest, azure
<1>6. ASSUME NEW p \in Pools, VmcNodeEvent(p) \/ NodeJoins(p) \/ LosePool(p) PROVE UNCHANGED lb
  BY Zenon, <1>6 DEF VmcNodeEvent, NodeJoins, LosePool, vmcRest, azure
<1>7. Restart \/ UNCHANGED vars => UNCHANGED lb
  BY Zenon DEF Restart, azure, vars
<1>8. lb' = lb \/ \E s \in Names : LbcEnsureRule(s) \/ LbcRemoveRule(s)
  BY Zenon, <1>2, <1>3, <1>4, <1>5, <1>6, <1>7 DEF Next, Work
<1>9. ASSUME NEW s \in Names, LbcEnsureRule(s), lb' # lb
      PROVE  /\ ~NoPortFor(lb, LbcId(s, wl[s].obj), wl[s].obj.spec.pool)
             /\ lb' = WithRule(lb, LbcId(s, wl[s].obj), wl[s].obj.spec.pool)
  BY Zenon, <1>9 DEF LbcEnsureRule
<1>10. ASSUME NEW s \in Names, LbcRemoveRule(s), lb' # lb
       PROVE  lb' = WithoutRule(lb, LbcId(s, wl[s].obj), wl[s].obj.spec.pool)
  BY Zenon, <1>10 DEF LbcRemoveRule
<1> QED
  BY Zenon, <1>1, <1>8, <1>9, <1>10

(* The only rule a step takes away is the one ensureDeleted removes.       *)
LEMMA RulesLost ==
  ASSUME TypeOK, LB!RulesSupported, [Next]_vars, lb' # lb,
         NEW r \in lb.rules, r.id \notin {x.id : x \in lb'.rules}
  PROVE  \E s \in Names : LbcRemoveRule(s) /\ r.id = LbcId(s, wl[s].obj)
<1>1. PICK s \in Names :
        LET id == LbcId(s, wl[s].obj)
            p == wl[s].obj.spec.pool
        IN \/ lb' = WithRule(lb, id, p)
           \/ LbcRemoveRule(s) /\ lb' = WithoutRule(lb, id, p)
  BY Zenon, LBSteps
<1> DEFINE id == LbcId(s, wl[s].obj)
           p == wl[s].obj.spec.pool
<1>a. r \notin lb'.rules
  BY Zenon
<1>2. CASE lb' = WithRule(lb, id, p)
  <2> DEFINE new == [id |-> id, pool |-> p, port |-> PortFor(lb, id, p)]
  <2>1. new \in lb'.rules
    BY Zenon, <1>2 DEF WithRule
  <2>2. new.id = id
    BY Zenon
  <2>3. r.id # id
    BY Zenon, <2>1, <2>2
  <2>4. r \in lb'.rules
    BY Zenon, <1>2, <2>3 DEF WithRule, OtherRules
  <2> QED
    BY Zenon, <1>a, <2>4
<1>3. CASE LbcRemoveRule(s) /\ lb' = WithoutRule(lb, id, p)
  <2> SUFFICES ASSUME r.id # id PROVE FALSE
    BY Zenon, <1>3
  <2> HIDE DEF id, p
  <2>1. r \in OtherRules(lb, id)
    BY Zenon DEF OtherRules
  <2>2. r.pool \in lb.fronts
    BY Zenon DEF LB!RulesSupported
  <2>3. \/ lb'.rules = OtherRules(lb, id)
        \/ lb.fronts \ {p} = {} /\ ~ \E x \in OtherRules(lb, id) : x.pool = p
    BY Zenon, <1>3 DEF WithoutRule
  <2>4. lb.fronts \ {p} = {} => r.pool = p
    BY <2>2
  <2> QED
    BY Zenon, <1>a, <2>1, <2>3, <2>4
<1> QED
  BY Zenon, <1>1, <1>2, <1>3

(* Whatever the controllers, users and failures do, the load balancer of   *)
(* the manager takes only the steps of GatewayLB.                          *)
THEOREM LBImplemented == Spec => LB!LBSpec
<1>1. Init => LB!Init
  BY Zenon, LBOperators DEF Init, LB!Init
<1>2. ASSUME TypeOK, [Next]_vars PROVE [LB!Next]_lb
  <2>1. \/ UNCHANGED lb
        \/ \E id \in Names \X Nat, p \in Pools :
             \/ ~NoPortFor(lb, id, p) /\ lb' = WithRule(lb, id, p)
             \/ lb' = WithoutRule(lb, id, p)
    BY Zenon, <1>2, LBSteps
  <2> QED
    BY Zenon, <2>1, LBOperators DEF LB!Next, LB!EnsureRule, LB!RemoveRule
<1> QED
  BY <1>1, <1>2, TypeCorrect, PTL DEF Spec, LB!LBSpec

(* So, in the whole system, no two gateways of a pool are given one port,  *)
(* and every rule has its frontend, its backend and its probe.             *)
THEOREM LBSafe == Spec => [](LB!DistinctPorts /\ LB!RulesSupported)
<1>1. LB!LBSpec => []LB!LBInv
  BY Zenon, LB!LBInvariant, PortsAssumption
<1>2. LB!LBInv => LB!DistinctPorts /\ LB!RulesSupported
  BY Zenon DEF LB!LBInv
<1> QED
  BY <1>1, <1>2, LBImplemented, PTL

(* reconcileLBRule never gives a gateway that stays in its pool another    *)
(* listening port.                                                         *)
THEOREM LBPortsKept == Spec => LB!PortsStable
BY LBImplemented, LB!LBPortsStable, PortsAssumption, PTL

(* The private key in a secret is never replaced in place: the mutate      *)
(* function of reconcileWireguardKey generates one only for a secret that  *)
(* Create then makes, and Create fails on one the cache does not show yet. *)
THEOREM KeysKept == Spec => KeyStable
<1> DEFINE Same == \A s \in Names, u \in SgcUids :
                     sec[s][u] # 0 /\ sec'[s][u] # 0 => sec[s][u] = sec'[s][u]
<1>1. ASSUME TypeOK, [Next]_vars PROVE [Same]_sec
  <2>1. ASSUME NEW s \in Names, NEW n \in SgcUids, NEW k,
               sec' = [sec EXCEPT ![s][n] = k], sec[s][n] = 0 \/ k = 0
        PROVE  Same
    <3>1. \A t \in Names, u \in SgcUids :
            sec'[t][u] = IF t = s /\ u = n THEN k ELSE sec[t][u]
      BY Zenon, <1>1, <2>1 DEF TypeOK, ApiType
    <3> QED
      BY <2>1, <3>1
  <2>2. ASSUME NEW s \in Names
        PROVE  csgc[s].uid \in SgcUids /\ ws[s].obj.uid \in SgcUids /\ sgc[s].uid \in SgcUids
    <3>1. csgc[s] \in SgcObj /\ ws[s].obj \in SgcObj /\ sgc[s] \in SgcObj
      BY Zenon, <1>1, WorkFields DEF TypeOK, ApiType, CacheType, WorkType
    <3> QED
      BY Zenon, <3>1 DEF SgcObj
  <2>3. ASSUME NEW s \in Names, SgcStep(s), sec' # sec PROVE Same
    <3>1. reconcileWireguardKey(s) \/ SgcDeleteSecret(s)
      BY Zenon, <2>3 DEF SgcStep, SgcStart, SgcAddFinalizer, reconcileGatewayLBConfig, SgcPatchStatus,
         SgcDeleteLbc, SgcRemoveFinalizer
    <3>2. CASE reconcileWireguardKey(s)
      <4>1. /\ sec[s][csgc[s].uid] = 0
            /\ sec' = [sec EXCEPT ![s][csgc[s].uid] = keys[s] + 1]
        BY Zenon, <2>3, <3>2 DEF reconcileWireguardKey
      <4> QED
        BY Zenon, <2>1, <2>2, <4>1
    <3>3. CASE SgcDeleteSecret(s)
      <4>1. sec' = [sec EXCEPT ![s][ws[s].obj.uid] = 0]
        BY Zenon, <3>3 DEF SgcDeleteSecret
      <4> QED
        BY Zenon, <2>1, <2>2, <4>1
    <3> QED
      BY Zenon, <3>1, <3>2, <3>3
  <2>4. ASSUME NEW s \in Names, UserStep(s), sec' # sec PROVE Same
    <3>1. sec' = [sec EXCEPT ![s][sgc[s].uid] = 0]
      BY Zenon, <2>4 DEF UserStep, CreateGateway, DeleteGateway, EditGateway, KillLbc, KillVmc, KillSecret
    <3> QED
      BY Zenon, <2>1, <2>2, <3>1
  <2>5. ASSUME NEW s \in Names, LbcStep(s) PROVE UNCHANGED sec
    BY Zenon, <2>5 DEF LbcStep, LbcStart, LbcAddFinalizer, LbcEnsureRule, reconcileGatewayVMConfig,
       LbcUpdateStatus, LbcDeleteVmc, LbcRemoveRule, LbcRemoveFinalizer, lbcRest
  <2>6. ASSUME NEW s \in Names, VmcStep(s) PROVE UNCHANGED sec
    BY Zenon, <2>6 DEF VmcStep, VmcStart, VmcNodeNext, VmcAddFinalizer, ensurePublicIPPrefix,
       VmcReconcilePool, VmcUpdateProfiles, VmcDropUnusedPrefix, VmcUpdateStatus, VmcCleanPool,
       VmcDeletePrefix, VmcRemoveFinalizer, vmcRest
  <2>7. ASSUME NEW s \in Names, Sync(s) \/ Resync(s) \/ Fault(s) PROVE UNCHANGED sec
    BY Zenon, <2>7 DEF Sync, SyncSgc, SyncLbc, SyncVmc, SyncSec, Resync, Fault, watchRest, api
  <2>8. ASSUME NEW p \in Pools, VmcNodeEvent(p) \/ NodeJoins(p) \/ LosePool(p)
        PROVE  UNCHANGED sec
    BY Zenon, <2>8 DEF VmcNodeEvent, NodeJoins, LosePool, vmcRest, api
  <2>9. Restart \/ UNCHANGED vars => UNCHANGED sec
    BY Zenon DEF Restart, api, vars
  <2> HIDE DEF Same
  <2> QED
    BY Zenon, <1>1, <2>3, <2>4, <2>5, <2>6, <2>7, <2>8, <2>9 DEF Next, Work
<1> QED
  BY <1>1, TypeCorrect, PTL DEF Spec, KeyStable
=============================================================================
