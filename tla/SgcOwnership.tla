---------------------------- MODULE SgcOwnership -----------------------------
(***************************************************************************)
(* What a step can do to an object and its copies, proved once for the     *)
(* three kinds of objects, and what that means for OwnerInv's parts; the   *)
(* steps of the StaticGatewayConfiguration controller keep OwnerInv.       *)
(***************************************************************************)
EXTENDS Ownership, SgcController, TLAPS

(* The fields the invariant looks at have their types.                     *)
Typed(o) == o.uid \in Nat /\ o.del \in BOOLEAN /\ o.fin \in BOOLEAN

(* Objects of the three kinds are typed.                                   *)
LEMMA SgcObjTyped == \A o \in SgcObj : Typed(o) /\ o.uid \in SgcUids
<1>1. SgcUids \subseteq Nat
  BY BudgetAssumption DEF SgcUids, Events
<1>2. \A o \in SgcObj : o.uid \in SgcUids /\ o.del \in BOOLEAN /\ o.fin \in BOOLEAN
  BY Zenon DEF SgcObj
<1> QED
  BY <1>1, <1>2, Zenon DEF Typed

(* The same for lbConfigs.                                                 *)
LEMMA LbcObjTyped == \A o \in LbcObj : Typed(o) /\ o.owner \in Nat
BY Zenon DEF LbcObj, Typed

(* The same for vmConfigs.                                                 *)
LEMMA VmcObjTyped == \A o \in VmcObj : Typed(o) /\ o.owner \in Nat
BY Zenon DEF VmcObj, Typed

(* An absent object.                                                       *)
LEMMA NoObjFields ==
  /\ NoSgc.uid = 0 /\ ~NoSgc.fin /\ ~NoSgc.del
  /\ NoLbc.uid = 0 /\ ~NoLbc.fin /\ ~NoLbc.del
  /\ NoVmc.uid = 0 /\ ~NoVmc.fin /\ ~NoVmc.del
BY Zenon DEF NoSgc, NoLbc, NoVmc

(* A count that stays is at least what it was.                             *)
LEMMA StaysAtLeast == \A n \in Nat : n >= n
OBVIOUS

(* A reconcile that is not in progress holds and removes nothing.          *)
LEMMA IdleHolds ==
  /\ "idle" \notin SgcHolds /\ "idle" \notin SgcDooms
  /\ "idle" \notin LbcHolds /\ "idle" \notin LbcDooms
  /\ "idle" \notin VmcDooms /\ \A o : "idle" \notin VmcHolds(o)
BY DEF SgcHolds, SgcDooms, LbcHolds, LbcDooms, VmcHolds, VmcDooms

-----------------------------------------------------------------------------
(* Before an object is created.                                            *)
LEMMA NothingYet ==
  ASSUME NEW none, NEW pc, NEW H, NEW D, none.uid = 0, pc \notin H, pc \notin D
  PROVE  ObjInv(none, none, none, pc, H, D, none, 0)
BY DEF ObjInv, Faithful, Is

(* A reconcile starts with the cached copy.  It holds the object when the  *)
(* copy has the finalizer, and removes it when the copy is marked deleted. *)
LEMMA StartsFromCache ==
  ASSUME NEW o, NEW c, NEW w, NEW none, NEW last, NEW pc, NEW H, NEW D, NEW pc2, NEW H2,
         ObjInv(o, c, w, pc, H, D, none, last),
         pc2 \in H2 => Is(c) /\ c.fin /\ ~c.del,
         pc2 \in D => Is(c) /\ c.del
  PROVE  ObjInv(o, c, c, pc2, H2, D, none, last)
<1>1. pc2 \in H2 => Held(c, o)
  BY Zenon DEF ObjInv, Faithful, Held
<1>2. pc2 \in D => Doomed(c, c, o)
  BY Zenon DEF ObjInv, Faithful, Doomed
<1> QED
  BY Zenon, <1>1, <1>2 DEF ObjInv

(* A reconcile goes on with what it had.                                   *)
LEMMA GoesOn ==
  ASSUME NEW o, NEW c, NEW w, NEW none, NEW last, NEW pc, NEW H, NEW D, NEW pc2,
         ObjInv(o, c, w, pc, H, D, none, last), pc2 \in H => pc \in H, pc2 \in D => pc \in D
  PROVE  ObjInv(o, c, w, pc2, H, D, none, last)
BY Zenon DEF ObjInv

(* A reconcile ends and keeps nothing.                                     *)
LEMMA EndsEmpty ==
  ASSUME NEW o, NEW c, NEW w, NEW none, NEW last, NEW pc, NEW H, NEW D, NEW pc2, NEW H2,
         ObjInv(o, c, w, pc, H, D, none, last), none.uid = 0, last \in Nat,
         pc2 \notin H2, pc2 \notin D
  PROVE  ObjInv(o, c, none, pc2, H2, D, none, last)
BY DEF ObjInv

(* A write that keeps UID, deletion and finalizer.                         *)
LEMMA Rewritten ==
  ASSUME NEW o, NEW n, NEW c, NEW w, NEW none, NEW last, NEW pc, NEW H, NEW D,
         ObjInv(o, c, w, pc, H, D, none, last), Is(o),
         n.uid = o.uid, n.del = o.del, n.fin = o.fin
  PROVE  ObjInv(n, c, w, pc, H, D, none, last)
<1>1. Faithful(c, n) /\ (pc \in H => Held(w, n))
  BY Zenon DEF ObjInv, Faithful, Held
<1>2. pc \in D => Doomed(w, c, n)
  BY Zenon DEF ObjInv, Doomed
<1> QED
  BY Zenon, <1>1, <1>2 DEF ObjInv, Is

(* The finalizer is added to the object the reconcile has a current copy   *)
(* of.                                                                     *)
LEMMA Acquires ==
  ASSUME NEW o, NEW n, NEW c, NEW none, NEW last, NEW pc, NEW H, NEW D, NEW pc2, NEW H2,
         ObjInv(o, c, o, pc, H, D, none, last), Is(o),
         n.uid = o.uid, n.del = o.del, n.fin, pc2 \notin D
  PROVE  ObjInv(n, c, n, pc2, H2, D, none, last)
<1>1. Faithful(c, n) /\ Held(n, n)
  BY Zenon DEF ObjInv, Faithful, Held, Is
<1> QED
  BY Zenon, <1>1 DEF ObjInv, Is

(* The finalizer, and with it the object, is removed.                      *)
LEMMA Releases ==
  ASSUME NEW o, NEW c, NEW none, NEW last, NEW pc, NEW H, NEW D, NEW pc2, NEW H2,
         ObjInv(o, c, o, pc, H, D, none, last), pc \in D, none.uid = 0, last \in Nat,
         pc2 \notin H2, pc2 \notin D
  PROVE  ObjInv(none, c, none, pc2, H2, D, none, last)
<1>1. Faithful(c, none)
  BY Zenon DEF ObjInv, Faithful, Doomed, Is
<1> QED
  BY <1>1 DEF ObjInv

(* The cache catches up.                                                   *)
LEMMA CatchesUp ==
  ASSUME NEW o, NEW c, NEW w, NEW none, NEW last, NEW pc, NEW H, NEW D,
         ObjInv(o, c, w, pc, H, D, none, last)
  PROVE  ObjInv(o, o, w, pc, H, D, none, last)
<1>1. Faithful(o, o)
  BY Zenon DEF Faithful
<1>2. Doomed(w, c, o) => Doomed(w, o, o)
  BY Zenon DEF Doomed
<1> QED
  BY Zenon, <1>1, <1>2 DEF ObjInv

(* What others than its controller do to an object: they create it with a  *)
(* fresh UID, change neither UID nor finalizer of it, or delete it while   *)
(* it has no finalizer.                                                    *)
Outside(o, n, none, last) ==
  \/ n = o
  \/ ~Is(o) /\ n.uid = last + 1 /\ ~n.fin
  \/ Is(o) /\ n.uid = o.uid /\ n.fin = o.fin /\ (o.del => n.del)
  \/ n = none /\ ~o.fin

(* None of that takes an object from under a reconcile that holds it, or   *)
(* gives one that removes it another object to remove.                     *)
LEMMA StepsOutside ==
  ASSUME NEW o, NEW n, NEW c, NEW w, NEW none, NEW last \in Nat, NEW last2 \in Nat,
         NEW pc, NEW H, NEW D, ObjInv(o, c, w, pc, H, D, none, last), Outside(o, n, none, last),
         none.uid = 0, ~none.fin, last2 >= last, n.uid <= last2,
         Typed(o), Typed(c), Typed(w)
  PROVE  ObjInv(n, c, w, pc, H, D, none, last2)
<1>1. c.uid <= last2 /\ w.uid <= last2
  BY DEF ObjInv, Typed
<1>2. CASE n = o
  BY Zenon, <1>1, <1>2 DEF ObjInv
<1>3. CASE ~Is(o) /\ n.uid = last + 1 /\ ~n.fin
  <2>1. Is(n) /\ c.uid # n.uid /\ w.uid # n.uid
    BY <1>3 DEF ObjInv, Typed, Is
  <2>2. Faithful(c, n) /\ pc \notin H
    BY Zenon, <1>3, <2>1 DEF ObjInv, Faithful, Held, Is
  <2>3. pc \in D => Doomed(w, c, n)
    BY Zenon, <2>1 DEF ObjInv, Doomed
  <2> QED
    BY Zenon, <1>1, <2>1, <2>2, <2>3 DEF ObjInv
<1>4. CASE Is(o) /\ n.uid = o.uid /\ n.fin = o.fin /\ (o.del => n.del)
  <2>1. Is(n) /\ Faithful(c, n)
    BY Zenon, <1>4 DEF ObjInv, Faithful, Is
  <2>2. (pc \in H => Held(w, n)) /\ (pc \in D => Doomed(w, c, n))
    BY Zenon, <1>4 DEF ObjInv, Doomed, Held
  <2> QED
    BY Zenon, <1>1, <2>1, <2>2 DEF ObjInv
<1>5. CASE n = none /\ ~o.fin
  <2>1. ~Is(n) /\ Faithful(c, n) /\ pc \notin H
    BY Zenon, <1>5 DEF ObjInv, Faithful, Held, Is
  <2>2. pc \in D => Doomed(w, c, n)
    BY Zenon, <1>5 DEF ObjInv, Doomed, Is
  <2> QED
    BY Zenon, <1>1, <1>5, <2>1, <2>2 DEF ObjInv
<1> QED
  BY Zenon, <1>2, <1>3, <1>4, <1>5 DEF Outside

-----------------------------------------------------------------------------
(* The types of the parts SgcInv(s) relates.                               *)
SgcTyped(s) ==
  Typed(sgc[s]) /\ Typed(csgc[s]) /\ Typed(ws[s].obj) /\ uids[s].sgc \in Nat

(* A reconcile of the StaticGatewayConfiguration controller that ends      *)
(* claims nothing.                                                         *)
LEMMA SgcIdles ==
  ASSUME NEW s, SgcCopies(s), uids[s].sgc \in Nat, ws'[s].pc = "idle", ws'[s].obj = NoSgc,
         UNCHANGED <<sgc[s], csgc[s], uids[s].sgc>>
  PROVE  SgcCopies(s)' /\ SgcClaims(s)'
<1>1. ObjInv(sgc[s], csgc[s], NoSgc, "idle", SgcHolds, SgcDooms, NoSgc, uids[s].sgc)
  BY EndsEmpty, NoObjFields DEF SgcCopies, SgcHolds, SgcDooms
<1> QED
  BY Zenon, <1>1 DEF SgcCopies, SgcClaims

(* A delivered watch event keeps the invariant, and so does a new cache.   *)
LEMMA SgcSyncs ==
  ASSUME NEW s, SgcInv(s), csgc'[s] = sgc[s], UNCHANGED <<sgc[s], ws[s], uids[s].sgc, lbc[s], sec[s]>>
  PROVE  SgcInv(s)'
<1>1. SgcCopies(s)'
  BY Zenon, CatchesUp DEF SgcInv, SgcCopies
<1>2. SgcClaims(s)'
  BY Zenon DEF SgcInv, SgcCopies, SgcClaims, SgcHolds, ObjInv, Held
<1> QED
  BY Zenon, <1>1, <1>2 DEF SgcInv, SgcOwned

(* The same for LbcInv(s).                                                 *)
LbcTyped(s) ==
  Typed(lbc[s]) /\ Typed(clbc[s]) /\ Typed(wl[s].obj) /\ uids[s].lbc \in Nat

(* A reconcile of the GatewayLBConfiguration controller that ends claims   *)
(* nothing.                                                                *)
LEMMA LbcIdles ==
  ASSUME NEW s, LbcCopies(s), uids[s].lbc \in Nat, wl'[s].pc = "idle", wl'[s].obj = NoLbc,
         UNCHANGED <<lbc[s], clbc[s], uids[s].lbc>>
  PROVE  LbcCopies(s)' /\ LbcClaims(s)'
<1>1. ObjInv(lbc[s], clbc[s], NoLbc, "idle", LbcHolds, LbcDooms, NoLbc, uids[s].lbc)
  BY EndsEmpty, NoObjFields DEF LbcCopies, LbcHolds, LbcDooms
<1> QED
  BY Zenon, <1>1 DEF LbcCopies, LbcClaims

(* A delivered watch event keeps the invariant, and so does a new cache.   *)
LEMMA LbcSyncs ==
  ASSUME NEW s, LbcInv(s), clbc'[s] = lbc[s], UNCHANGED <<lbc[s], wl[s], uids[s].lbc, vmc[s], RuleIds>>
  PROVE  LbcInv(s)'
<1>1. LbcCopies(s)'
  BY Zenon, CatchesUp DEF LbcInv, LbcCopies
<1>2. LbcClaims(s)'
  BY Zenon DEF LbcInv, LbcCopies, LbcClaims, LbcHolds, ObjInv, Held
<1> QED
  BY Zenon, <1>1, <1>2 DEF LbcInv, LbcOwned

(* The same for VmcInv(s).                                                 *)
VmcTyped(s) ==
  Typed(vmc[s]) /\ Typed(cvmc[s]) /\ Typed(wv[s].obj) /\ uids[s].vmc \in Nat

(* A reconcile of the GatewayVMConfiguration controller that ends claims   *)
(* nothing.                                                                *)
LEMMA VmcIdles ==
  ASSUME NEW s, VmcCopies(s), uids[s].vmc \in Nat, wv'[s].pc = "idle", wv'[s].obj = NoVmc,
         UNCHANGED <<vmc[s], cvmc[s], uids[s].vmc>>
  PROVE  VmcCopies(s)' /\ VmcClaims(s)'
<1>1. ObjInv(vmc[s], cvmc[s], NoVmc, "idle", VmcHolds(NoVmc), VmcDooms, NoVmc, uids[s].vmc)
  BY EndsEmpty, NoObjFields DEF VmcCopies, VmcHolds, VmcDooms
<1> QED
  BY Zenon, <1>1 DEF VmcCopies, VmcClaims

(* A delivered watch event keeps the invariant, and so does a new cache.   *)
LEMMA VmcSyncs ==
  ASSUME NEW s, VmcInv(s), cvmc'[s] = vmc[s], UNCHANGED <<vmc[s], wv[s], uids[s].vmc, prefixes>>
  PROVE  VmcInv(s)'
<1>1. VmcCopies(s)'
  BY Zenon, CatchesUp DEF VmcInv, VmcCopies
<1>2. VmcClaims(s)'
  BY Zenon DEF VmcInv, VmcCopies, VmcClaims, VmcHolds, ObjInv, Held
<1> QED
  BY Zenon, <1>1, <1>2 DEF VmcInv, VmcOwned

-----------------------------------------------------------------------------
(* Others leave an object with the finalizer where it is.                  *)
LEMMA FinalizerHolds ==
  ASSUME NEW o, NEW n, NEW none, NEW last, Outside(o, n, none, last), o.fin, Is(o)
  PROVE  n.uid = o.uid /\ n.fin
BY Zenon DEF Outside

(* What users do to a StaticGatewayConfiguration keeps the invariant.      *)
LEMMA SgcOutside ==
  ASSUME NEW s, SgcInv(s), SgcTyped(s),
         Outside(sgc[s], sgc'[s], NoSgc, uids[s].sgc),
         uids'[s].sgc \in Nat, uids'[s].sgc >= uids[s].sgc, sgc'[s].uid <= uids'[s].sgc,
         UNCHANGED <<csgc[s], ws[s], lbc[s], sec[s]>>
  PROVE  SgcInv(s)'
<1>1. SgcCopies(s)'
  BY Zenon, StepsOutside, NoObjFields DEF SgcInv, SgcTyped, SgcCopies
<1>2. sgc[s].fin => Is(sgc[s]) /\ sgc'[s].uid = sgc[s].uid /\ sgc'[s].fin
  <2>1. sgc[s].fin => Is(sgc[s])
    BY Zenon, NoObjFields DEF SgcInv, SgcCopies, ObjInv
  <2> QED
    BY Zenon, <2>1, FinalizerHolds
<1>3. SgcOwned(s)'
  BY Zenon, <1>2 DEF SgcInv, SgcOwned, Is
<1>4. sgc'[s].uid = ws[s].obj.uid /\ Is(ws[s].obj) => sgc[s].uid = sgc'[s].uid
  <2>1. ws[s].obj.uid <= uids[s].sgc
    BY Zenon DEF SgcInv, SgcCopies, ObjInv
  <2> QED
    BY <2>1, NoObjFields DEF Outside, SgcTyped, Typed, Is
<1>5. SgcClaims(s)'
  BY Zenon, <1>4 DEF SgcInv, SgcClaims
<1> QED
  BY Zenon, <1>1, <1>3, <1>5 DEF SgcInv

(* What users and the StaticGatewayConfiguration controller do to an       *)
(* lbConfig.                                                               *)
LEMMA LbcOutside ==
  ASSUME NEW s, LbcInv(s), LbcTyped(s),
         Outside(lbc[s], lbc'[s], NoLbc, uids[s].lbc),
         uids'[s].lbc \in Nat, uids'[s].lbc >= uids[s].lbc, lbc'[s].uid <= uids'[s].lbc,
         UNCHANGED <<clbc[s], wl[s], vmc[s], RuleIds>>
  PROVE  LbcInv(s)'
<1>1. LbcCopies(s)'
  BY Zenon, StepsOutside, NoObjFields DEF LbcInv, LbcTyped, LbcCopies
<1>2. lbc[s].fin => Is(lbc[s]) /\ lbc'[s].uid = lbc[s].uid /\ lbc'[s].fin
  <2>1. lbc[s].fin => Is(lbc[s])
    BY Zenon, NoObjFields DEF LbcInv, LbcCopies, ObjInv
  <2> QED
    BY Zenon, <2>1, FinalizerHolds
<1>3. LbcOwned(s)'
  BY Zenon, <1>2 DEF LbcInv, LbcOwned, Is
<1>4. LbcClaims(s)'
  BY Zenon DEF LbcInv, LbcClaims
<1> QED
  BY Zenon, <1>1, <1>3, <1>4 DEF LbcInv

(* What users and the GatewayLBConfiguration controller do to a vmConfig.  *)
LEMMA VmcOutside ==
  ASSUME NEW s, VmcInv(s), VmcTyped(s),
         Outside(vmc[s], vmc'[s], NoVmc, uids[s].vmc),
         uids'[s].vmc \in Nat, uids'[s].vmc >= uids[s].vmc, vmc'[s].uid <= uids'[s].vmc,
         UNCHANGED <<cvmc[s], wv[s], prefixes>>
  PROVE  VmcInv(s)'
<1>1. VmcCopies(s)'
  BY Zenon, StepsOutside, NoObjFields DEF VmcInv, VmcTyped, VmcCopies
<1>2. vmc[s].fin => vmc'[s].uid = vmc[s].uid /\ vmc'[s].fin
  <2>1. vmc[s].fin => Is(vmc[s])
    BY Zenon, NoObjFields DEF VmcInv, VmcCopies, ObjInv
  <2> QED
    BY Zenon, <2>1, FinalizerHolds
<1>3. VmcOwned(s)'
  BY Zenon, <1>2 DEF VmcInv, VmcOwned
<1>4. VmcClaims(s)'
  BY Zenon DEF VmcInv, VmcClaims
<1> QED
  BY Zenon, <1>1, <1>3, <1>4 DEF VmcInv

(* A new object n is made, the old one a is left alone, or its spec and    *)
(* owner are patched.                                                      *)
Patched(a, n, owner, uid) ==
  \/ ~Is(a) /\ n.uid = uid /\ n.owner = owner /\ ~n.fin
  \/ n = a
  \/ Is(a) /\ n.uid = a.uid /\ n.owner \in {owner, a.owner} /\ n.fin = a.fin /\ n.del = a.del

(* This is what CreateOrPatch does to an lbConfig.                         *)
LEMMA CreateOrPatchLbc ==
  ASSUME NEW c \in LbcObj, NEW a \in LbcObj, NEW o \in Nat, NEW sp \in GwSpec, NEW u \in Nat
  PROVE  LET r == CreateOrPatch(c, a, NoLbc, o, sp, u) IN
         ~r.err => Patched(a, r.api, o, u)
BY Zenon DEF CreateOrPatch, Patched, LbcObj, NoLbc, Is

(* The same for a vmConfig.                                                *)
LEMMA CreateOrPatchVmc ==
  ASSUME NEW c \in VmcObj, NEW a \in VmcObj, NEW o \in Nat, NEW sp \in GwSpec, NEW u \in Nat
  PROVE  LET r == CreateOrPatch(c, a, NoVmc, o, sp, u) IN
         ~r.err => Patched(a, r.api, o, u)
BY Zenon DEF CreateOrPatch, Patched, VmcObj, NoVmc, Is

(* The API server's delete takes an object away or marks it deleted.       *)
LEMMA SgcDeleted ==
  ASSUME NEW o \in SgcObj, NEW n, n = Deleted(o, NoSgc)
  PROVE  \/ n = NoSgc /\ ~o.fin
         \/ n.uid = o.uid /\ n.fin = TRUE /\ o.fin = TRUE /\ n.del = TRUE
BY Zenon DEF SgcObj, Deleted

(* The same for lbConfigs.                                                 *)
LEMMA LbcDeleted ==
  ASSUME NEW o \in LbcObj, NEW n, n = Deleted(o, NoLbc)
  PROVE  \/ n = NoLbc /\ ~o.fin
         \/ n.uid = o.uid /\ n.owner = o.owner /\ n.fin = TRUE /\ o.fin = TRUE /\ n.del = TRUE
BY Zenon DEF LbcObj, Deleted

(* The same for vmConfigs.                                                 *)
LEMMA VmcDeleted ==
  ASSUME NEW o \in VmcObj, NEW n, n = Deleted(o, NoVmc)
  PROVE  \/ n = NoVmc /\ ~o.fin
         \/ n.uid = o.uid /\ n.owner = o.owner /\ n.fin = TRUE /\ o.fin = TRUE /\ n.del = TRUE
BY Zenon DEF VmcObj, Deleted

(* Users, and the owner's controller, may do that.                         *)
LEMMA DeletesOutside ==
  ASSUME NEW o, NEW n, NEW c, NEW w, NEW none, NEW last, NEW pc, NEW H, NEW D, last \in Nat,
         ObjInv(o, c, w, pc, H, D, none, last), none.uid = 0, ~none.fin,
         \/ n = none /\ ~o.fin
         \/ n.uid = o.uid /\ n.fin = TRUE /\ o.fin = TRUE /\ n.del = TRUE
  PROVE  Outside(o, n, none, last) /\ n.uid <= last
<1>1. o.fin => Is(o)
  BY Zenon DEF ObjInv
<1>2. Outside(o, n, none, last)
  BY Zenon, <1>1 DEF Outside
<1>3. n.uid <= last
  BY DEF ObjInv
<1> QED
  BY Zenon, <1>2, <1>3

-----------------------------------------------------------------------------
(* The lbConfig goes or keeps its owner; nothing else changes.             *)
LEMMA SgcFrame ==
  ASSUME NEW s, SgcInv(s), UNCHANGED <<sgc[s], csgc[s], ws[s], uids[s].sgc, sec[s]>>,
         Is(lbc'[s]) => Is(lbc[s]) /\ lbc'[s].owner = lbc[s].owner
  PROVE  SgcInv(s)'
<1>1. SgcCopies(s)'
  BY Zenon DEF SgcInv, SgcCopies
<1>2. SgcClaims(s)'
  BY Zenon DEF SgcInv, SgcClaims
<1>3. SgcOwned(s)'
  BY Zenon DEF SgcInv, SgcOwned
<1> QED
  BY Zenon, <1>1, <1>2, <1>3 DEF SgcInv

(* The vmConfig goes or keeps its owner, and rules of s only go.           *)
LEMMA LbcFrame ==
  ASSUME NEW s, LbcInv(s), UNCHANGED <<lbc[s], clbc[s], wl[s], uids[s].lbc>>,
         Is(vmc'[s]) => Is(vmc[s]) /\ vmc'[s].owner = vmc[s].owner,
         \A id \in RuleIds' : id[1] = s => id \in RuleIds
  PROVE  LbcInv(s)'
<1>1. LbcCopies(s)'
  BY Zenon DEF LbcInv, LbcCopies
<1>2. <<s, wl[s].obj.uid>> \in RuleIds' => <<s, wl[s].obj.uid>> \in RuleIds
  BY Zenon
<1>3. LbcClaims(s)'
  BY Zenon, <1>2 DEF LbcInv, LbcClaims
<1>4. LbcOwned(s)'
  BY Zenon DEF LbcInv, LbcOwned
<1> QED
  BY Zenon, <1>1, <1>3, <1>4 DEF LbcInv

(* Prefixes of s only go.                                                  *)
LEMMA VmcFrame ==
  ASSUME NEW s, VmcInv(s), UNCHANGED <<vmc[s], cvmc[s], wv[s], uids[s].vmc>>,
         \A id \in prefixes' : id[1] = s => id \in prefixes
  PROVE  VmcInv(s)'
<1>1. VmcCopies(s)'
  BY Zenon DEF VmcInv, VmcCopies
<1>2. <<s, wv[s].obj.uid>> \in prefixes' => <<s, wv[s].obj.uid>> \in prefixes
  BY Zenon
<1>3. VmcClaims(s)'
  BY Zenon, <1>2 DEF VmcInv, VmcClaims
<1>4. VmcOwned(s)'
  BY Zenon DEF VmcInv, VmcOwned
<1> QED
  BY Zenon, <1>1, <1>3, <1>4 DEF VmcInv

(* Nothing of gateway t changes but for rules and prefixes that go.        *)
Untouched(t) ==
  /\ UNCHANGED <<sgc[t], csgc[t], ws[t], sec[t], lbc[t], clbc[t], wl[t], vmc[t], cvmc[t],
                 wv[t], uids[t]>>
  /\ \A id \in RuleIds' : id[1] = t => id \in RuleIds
  /\ \A id \in prefixes' : id[1] = t => id \in prefixes

(* Then its part of the invariant stays.                                   *)
LEMMA UntouchedInv ==
  ASSUME NEW t, GatewayInv(t), Untouched(t)
  PROVE  GatewayInv(t)'
<1>1. SgcInv(t)'
  BY Zenon, SgcFrame DEF GatewayInv, Untouched
<1>2. LbcInv(t)'
  BY Zenon, LbcFrame DEF GatewayInv, Untouched
<1>3. VmcInv(t)'
  BY Zenon, VmcFrame DEF GatewayInv, Untouched
<1> QED
  BY Zenon, <1>1, <1>2, <1>3 DEF GatewayInv

-----------------------------------------------------------------------------
(* The types the proofs rely on.                                           *)
SgcShape ==
  /\ sgc \in [Names -> SgcObj] /\ csgc \in [Names -> SgcObj] /\ ws \in [Names -> SgcWork]
  /\ lbc \in [Names -> LbcObj] /\ clbc \in [Names -> LbcObj]
  /\ sec \in [Names -> [SgcUids -> Nat]] /\ uids \in [Names -> [Kinds -> Nat]]

(* What that says of gateway s.                                            *)
LEMMA SgcShapes ==
  ASSUME SgcShape, NEW s \in Names
  PROVE  /\ sgc[s] \in SgcObj /\ csgc[s] \in SgcObj /\ ws[s] \in SgcWork
         /\ lbc[s] \in LbcObj /\ clbc[s] \in LbcObj /\ ws[s].obj \in SgcObj
         /\ ws[s].gone \in BOOLEAN /\ uids[s].sgc \in Nat /\ uids[s].lbc \in Nat
         /\ sec[s] \in [SgcUids -> Nat] /\ SgcTyped(s)
<1>1. /\ sgc[s] \in SgcObj /\ csgc[s] \in SgcObj /\ ws[s] \in SgcWork
      /\ lbc[s] \in LbcObj /\ clbc[s] \in LbcObj /\ sec[s] \in [SgcUids -> Nat]
  BY Zenon DEF SgcShape
<1>2. ws[s].obj \in SgcObj /\ ws[s].gone \in BOOLEAN
  BY Zenon, <1>1 DEF SgcWork
<1>3. uids[s].sgc \in Nat /\ uids[s].lbc \in Nat
  BY Zenon DEF SgcShape, Kinds
<1> QED
  BY Zenon, <1>1, <1>2, <1>3, SgcObjTyped DEF SgcTyped

(* Writes, and moves of the reconcile, of gateway s.                       *)
LEMMA SgcPuts ==
  ASSUME SgcShape, NEW s \in Names
  PROVE  /\ \A o : PutSgc(s, o) => sgc'[s] = o
         /\ \A o : PutLbc(s, o) => lbc'[s] = o
BY Zenon DEF SgcShape, PutSgc, PutLbc

(* A creation counts, and a secret is removed, for gateway s alone.        *)
LEMMA SgcCounts ==
  ASSUME SgcShape, NEW s \in Names
  PROVE  /\ uids' = [uids EXCEPT ![s].sgc = @ + 1] =>
              /\ uids'[s].sgc = uids[s].sgc + 1 /\ uids'[s].sgc \in Nat
              /\ uids'[s].sgc >= uids[s].sgc /\ uids[s].sgc + 1 <= uids'[s].sgc
              /\ UNCHANGED <<uids[s].lbc, uids[s].vmc>>
              /\ \A t \in Names \ {s} : UNCHANGED uids[t]
         /\ \A n : sec' = [sec EXCEPT ![s][n] = 0] =>
              /\ \A u \in SgcUids : sec'[s][u] = sec[s][u] \/ sec'[s][u] = 0
              /\ \A t \in Names \ {s} : UNCHANGED sec[t]
<1>1. ASSUME uids' = [uids EXCEPT ![s].sgc = @ + 1]
      PROVE  /\ uids'[s].sgc = uids[s].sgc + 1 /\ uids'[s].sgc \in Nat
             /\ uids'[s].sgc >= uids[s].sgc /\ uids[s].sgc + 1 <= uids'[s].sgc
             /\ UNCHANGED <<uids[s].lbc, uids[s].vmc>>
             /\ \A t \in Names \ {s} : UNCHANGED uids[t]
  BY <1>1 DEF SgcShape, Kinds
<1>2. ASSUME NEW n, sec' = [sec EXCEPT ![s][n] = 0]
      PROVE  /\ \A u \in SgcUids : sec'[s][u] = sec[s][u] \/ sec'[s][u] = 0
             /\ \A t \in Names \ {s} : UNCHANGED sec[t]
  BY <1>2 DEF SgcShape
<1> QED
  BY Zenon, <1>1, <1>2

(* No reconcile in progress.                                               *)
LEMMA SgcIdleFields == SgcIdle.pc = "idle" /\ SgcIdle.obj = NoSgc
BY DEF SgcIdle

(* A reconcile that goes on keeps what it knows of the secret.             *)
LEMMA SgcGoes ==
  ASSUME SgcShape, NEW s \in Names
  PROVE  /\ \A pc, o : SgcGo(s, pc, o) =>
              ws'[s].pc = pc /\ ws'[s].obj = o /\ ws'[s].gone = ws[s].gone
         /\ SgcDone(s) => ws'[s].pc = "idle" /\ ws'[s].obj = NoSgc
<1>1. ws \in [Names -> SgcWork]
  BY Zenon DEF SgcShape
<1>2. ASSUME NEW pc, NEW o, SgcGo(s, pc, o)
      PROVE  ws'[s].pc = pc /\ ws'[s].obj = o /\ ws'[s].gone = ws[s].gone
  BY Zenon, <1>1, <1>2 DEF SgcGo, SgcWork
<1>3. ASSUME SgcDone(s) PROVE ws'[s].pc = "idle" /\ ws'[s].obj = NoSgc
  BY Zenon, <1>1, <1>3 DEF SgcDone, SgcIdle
<1> QED
  BY Zenon, <1>2, <1>3

(* Writes of a StaticGatewayConfiguration leave UID and deletion alone.    *)
LEMMA SgcWrites ==
  ASSUME NEW o \in SgcObj
  PROVE  /\ LET n == [o EXCEPT !.fin = TRUE] IN n.uid = o.uid /\ n.del = o.del /\ n.fin
         /\ \A k, p, x : LET n == [o EXCEPT !.key = k, !.port = p, !.prefix = x]
                         IN n.uid = o.uid /\ n.del = o.del /\ n.fin = o.fin
BY Zenon DEF SgcObj

(* A reconcile that ends.                                                  *)
LEMMA SgcEnds ==
  ASSUME SgcShape, NEW s \in Names, SgcInv(s), SgcDone(s),
         UNCHANGED <<sgc[s], csgc[s], sec[s], lbc[s], uids[s].sgc>>
  PROVE  SgcInv(s)'
<1>1. ws'[s].pc = "idle" /\ ws'[s].obj = NoSgc /\ uids[s].sgc \in Nat
  BY Zenon, SgcGoes, SgcShapes
<1>2. SgcCopies(s)' /\ SgcClaims(s)'
  BY Zenon, <1>1, SgcIdles DEF SgcInv
<1>3. SgcOwned(s)'
  BY Zenon DEF SgcInv, SgcOwned
<1> QED
  BY Zenon, <1>2, <1>3 DEF SgcInv

(* CreateOrPatch makes a new object n, leaves the old one a alone, or      *)
(* patches its spec and owner.                                             *)
LEMMA SgcCreates ==
  ASSUME SgcShape, NEW s \in Names, reconcileGatewayLBConfig(s)
  PROVE  \/ SgcFail(s) /\ UNCHANGED <<lbc, uids>>
         \/ /\ Patched(lbc[s], lbc'[s], ws[s].obj.uid, uids[s].lbc + 1)
            /\ uids'[s].lbc = IF lbc'[s].uid > uids[s].lbc THEN lbc'[s].uid ELSE uids[s].lbc
            /\ uids'[s].sgc = uids[s].sgc
            /\ \/ ws'[s].pc = "idle" /\ ws'[s].obj = NoSgc
               \/ ws'[s].pc = "status" /\ ws'[s].obj = ws[s].obj
<1> DEFINE r == CreateOrPatch(clbc[s], lbc[s], NoLbc, ws[s].obj.uid, ws[s].obj.spec,
                              uids[s].lbc + 1)
           New(n, x) == [ws[s] EXCEPT !.pc = "status", !.port = n, !.prefix = x]
<1>1. CASE r.err
  BY Zenon, <1>1 DEF reconcileGatewayLBConfig
<1>2. CASE ~r.err
  <2>1. PutLbc(s, r.api) /\ uids' = [uids EXCEPT ![s].lbc = IF r.api.uid > @ THEN r.api.uid ELSE @]
    BY Zenon, <1>2 DEF reconcileGatewayLBConfig
  <2>2. PICK n, x, b : ws' = [ws EXCEPT ![s] = IF b THEN SgcIdle ELSE New(n, x)]
    BY Zenon, <1>2 DEF reconcileGatewayLBConfig
  <2>3. Patched(lbc[s], r.api, ws[s].obj.uid, uids[s].lbc + 1)
    <3>1. /\ clbc[s] \in LbcObj /\ lbc[s] \in LbcObj /\ uids[s].lbc + 1 \in Nat
          /\ ws[s].obj \in SgcObj
      BY SgcShapes
    <3>2. ws[s].obj.uid \in Nat /\ ws[s].obj.spec \in GwSpec
      BY Zenon, <3>1, SgcObjTyped DEF SgcObj, Typed
    <3> QED
      BY Zenon, <1>2, <3>1, <3>2, CreateOrPatchLbc
  <2> HIDE DEF r
  <2>4. lbc'[s] = r.api
    BY Zenon, <2>1, SgcPuts
  <2>5. /\ uids'[s].lbc = IF r.api.uid > uids[s].lbc THEN r.api.uid ELSE uids[s].lbc
        /\ uids'[s].sgc = uids[s].sgc
    BY Zenon, <2>1 DEF SgcShape, Kinds
  <2>6. New(n, x).pc = "status" /\ New(n, x).obj = ws[s].obj
    BY Zenon, SgcShapes DEF SgcWork
  <2> HIDE DEF New
  <2>7. ws'[s] = SgcIdle \/ ws'[s] = New(n, x)
    BY Zenon, <2>2 DEF SgcShape
  <2>8. SgcIdle.pc = "idle" /\ SgcIdle.obj = NoSgc
    BY Zenon DEF SgcIdle
  <2> QED
    BY <2>3, <2>4, <2>5, <2>6, <2>7, <2>8
<1> QED
  BY Zenon, <1>1, <1>2

(* Every step of the StaticGatewayConfiguration controller keeps the part  *)
(* of the invariant it is responsible for.                                 *)
LEMMA SgcStepSgc ==
  ASSUME SgcShape, NEW s \in Names, SgcInv(s), SgcStep(s)
  PROVE  SgcInv(s)'
(* One that starts with the cached copy.                                   *)
<1>Starts. ASSUME Is(csgc[s]), ws'[s].obj = csgc[s],
         \/ csgc[s].del /\ ws'[s].pc = "delSecret"
         \/ ~csgc[s].del /\ ws'[s].pc = IF csgc[s].fin THEN "secret" ELSE "fin",
         UNCHANGED <<sgc[s], csgc[s], sec[s], lbc[s], uids[s].sgc>>
        PROVE  SgcInv(s)'
  <2> USE <1>Starts
  <2>1. /\ ws'[s].pc \in SgcHolds => csgc[s].fin /\ ~csgc[s].del
        /\ ws'[s].pc \in SgcDooms => csgc[s].del
    BY Zenon DEF SgcHolds, SgcDooms
  <2>2. SgcCopies(s)'
    BY <2>1, StartsFromCache DEF SgcInv, SgcCopies
  <2>3. ws'[s].pc \notin {"delLbc", "unfin"}
    BY Zenon
  <2>4. SgcClaims(s)'
    BY Zenon, <2>3 DEF SgcClaims
  <2>5. SgcOwned(s)'
    BY Zenon DEF SgcInv, SgcOwned
  <2> QED
    BY Zenon, <2>2, <2>4, <2>5 DEF SgcInv
<1>Start. CASE SgcStart(s)
  <2> USE <1>Start
  <2>1. UNCHANGED <<sgc[s], csgc[s], sec[s], lbc[s], uids[s].sgc>>
    BY Zenon DEF SgcStart, sgcRest
  <2>2. CASE UNCHANGED ws
    BY Zenon, <2>1, <2>2, SgcFrame
  <2>3. CASE Is(csgc[s]) /\ csgc[s].del /\ SgcGo(s, "delSecret", csgc[s])
    BY Zenon, <2>1, <2>3, <1>Starts, SgcGoes
  <2>4. CASE /\ Is(csgc[s]) /\ ~csgc[s].del
             /\ SgcGo(s, IF csgc[s].fin THEN "secret" ELSE "fin", csgc[s])
    BY <2>1, <2>4, <1>Starts, SgcGoes
  <2> QED
    BY Zenon, <2>2, <2>3, <2>4 DEF SgcStart
<1>AddFinalizer. CASE SgcAddFinalizer(s)
  <2> USE <1>AddFinalizer
  <2>1. UNCHANGED <<csgc[s], sec[s], lbc[s], uids[s].sgc>> /\ ws[s].pc = "fin"
    BY Zenon DEF SgcAddFinalizer, sgcRest, SgcAt
  <2>2. CASE SgcFail(s) /\ UNCHANGED sgc
    BY Zenon, <2>1, <2>2, SgcEnds DEF SgcFail
  <2>3. CASE /\ sgc[s] = ws[s].obj /\ PutSgc(s, [sgc[s] EXCEPT !.fin = TRUE])
             /\ SgcGo(s, "secret", [sgc[s] EXCEPT !.fin = TRUE])
    <3>1. ws'[s].pc = "secret" /\ ws'[s].obj = sgc'[s]
      BY <2>3, SgcGoes, SgcPuts
    <3>2. sgc'[s].uid = sgc[s].uid /\ sgc'[s].del = sgc[s].del /\ sgc'[s].fin
      <4>1. sgc'[s] = [sgc[s] EXCEPT !.fin = TRUE] /\ sgc[s] \in SgcObj
        BY Zenon, <2>3, SgcPuts, SgcShapes
      <4> QED
        BY Zenon, <4>1, SgcWrites
    <3>3. Is(sgc[s]) /\ csgc[s].uid = sgc[s].uid
      BY Zenon, <2>1, <2>3 DEF SgcInv, SgcClaims
    <3>4. SgcCopies(s)'
      BY <2>1, <2>3, <3>1, <3>2, <3>3, Acquires DEF SgcInv, SgcCopies, SgcDooms
    <3>5. SgcClaims(s)'
      BY Zenon, <2>1, <3>1, <3>2, <3>3 DEF SgcClaims, Is
    <3>6. SgcOwned(s)'
      BY Zenon, <2>1, <3>2, <3>3 DEF SgcInv, SgcOwned, Is
    <3> QED
      BY Zenon, <3>4, <3>5, <3>6 DEF SgcInv
  <2> QED
    BY Zenon, <2>2, <2>3 DEF SgcAddFinalizer
<1>Secret. CASE reconcileWireguardKey(s)
  <2> USE <1>Secret
  <2>1. UNCHANGED <<sgc[s], csgc[s], lbc[s], uids[s].sgc>> /\ ws[s].pc = "secret"
    BY Zenon DEF reconcileWireguardKey, sgcRest, SgcAt
  <2>2. /\ Is(ws[s].obj) /\ csgc[s].uid = ws[s].obj.uid /\ sgc[s].uid = ws[s].obj.uid
        /\ sgc[s].fin /\ csgc[s].uid <= uids[s].sgc
    BY Zenon, <2>1 DEF SgcInv, SgcCopies, SgcClaims, SgcHolds, ObjInv, Held
  <2>3. CASE SgcFail(s) /\ UNCHANGED sec
    BY Zenon, <2>1, <2>3, SgcEnds DEF SgcFail
  <2>4. ASSUME NEW k, ws' = [ws EXCEPT ![s] = [@ EXCEPT !.pc = "lbc", !.obj = csgc[s], !.key = k]],
               \A u \in SgcUids : u # csgc[s].uid => sec'[s][u] = sec[s][u]
        PROVE  SgcInv(s)'
    <3>1. ws'[s].pc = "lbc" /\ ws'[s].obj = csgc[s]
      BY Zenon, <2>4 DEF SgcShape, SgcWork
    <3>2. SgcCopies(s)'
      <4>1. ObjInv(sgc[s], csgc[s], ws[s].obj, "secret", SgcHolds, SgcDooms, NoSgc, uids[s].sgc)
        BY Zenon, <2>1 DEF SgcInv, SgcCopies
      <4>2. ObjInv(sgc[s], csgc[s], csgc[s], "lbc", SgcHolds, SgcDooms, NoSgc, uids[s].sgc)
        BY Zenon, <2>2, <4>1 DEF ObjInv, SgcHolds, SgcDooms, Held, Is
      <4> QED
        BY Zenon, <2>1, <3>1, <4>2 DEF SgcCopies
    <3>3. SgcClaims(s)'
      BY Zenon, <2>1, <2>2, <3>1 DEF SgcClaims, Is
    <3>4. SgcOwned(s)'
      BY Zenon, <2>1, <2>2, <2>4 DEF SgcInv, SgcOwned
    <3> QED
      BY Zenon, <3>2, <3>3, <3>4 DEF SgcInv
  <2>5. ASSUME NEW k, sec' = [sec EXCEPT ![s][csgc[s].uid] = k]
        PROVE  \A u \in SgcUids : u # csgc[s].uid => sec'[s][u] = sec[s][u]
    BY Zenon, <2>5 DEF SgcShape
  <2> QED
    BY Zenon, <2>3, <2>4, <2>5 DEF reconcileWireguardKey
<1>Lbc. CASE reconcileGatewayLBConfig(s)
  <2> USE <1>Lbc
  <2>1. UNCHANGED <<sgc[s], csgc[s], sec[s]>> /\ ws[s].pc = "lbc"
    BY Zenon DEF reconcileGatewayLBConfig, sgcRest, SgcAt
  <2>2. CASE SgcFail(s) /\ UNCHANGED <<lbc, uids>>
    BY Zenon, <2>1, <2>2, SgcEnds DEF SgcFail
  <2>3. CASE /\ Patched(lbc[s], lbc'[s], ws[s].obj.uid, uids[s].lbc + 1)
             /\ uids'[s].sgc = uids[s].sgc
             /\ \/ ws'[s].pc = "idle" /\ ws'[s].obj = NoSgc
                \/ ws'[s].pc = "status" /\ ws'[s].obj = ws[s].obj
    <3>1. Is(sgc[s]) /\ sgc[s].fin /\ sgc[s].uid = ws[s].obj.uid /\ csgc[s].uid = ws[s].obj.uid
      BY Zenon, <2>1 DEF SgcInv, SgcCopies, SgcClaims, SgcHolds, ObjInv, Held, Is
    <3>2. SgcOwned(s)'
      <4>1. Is(lbc'[s]) => lbc'[s].owner = sgc[s].uid
        BY Zenon, <2>3, <3>1 DEF SgcInv, SgcOwned, Patched
      <4> QED
        BY Zenon, <2>1, <3>1, <4>1 DEF SgcInv, SgcOwned
    <3>3. CASE ws'[s].pc = "idle" /\ ws'[s].obj = NoSgc
      BY Zenon, <2>1, <2>3, <3>2, <3>3, SgcIdles, SgcShapes DEF SgcInv
    <3>4. CASE ws'[s].pc = "status" /\ ws'[s].obj = ws[s].obj
      <4>1. SgcCopies(s)'
        BY Zenon, <2>1, <2>3, <3>4, GoesOn DEF SgcInv, SgcCopies, SgcHolds, SgcDooms
      <4>2. SgcClaims(s)'
        BY Zenon, <2>1, <3>1, <3>4 DEF SgcClaims, Is
      <4> QED
        BY Zenon, <3>2, <4>1, <4>2 DEF SgcInv
    <3> QED
      BY Zenon, <2>3, <3>3, <3>4
  <2> QED
    BY Zenon, <2>2, <2>3, SgcCreates
<1>Status. CASE SgcPatchStatus(s)
  <2> USE <1>Status
  <2>1. UNCHANGED <<csgc[s], sec[s], lbc[s], uids[s].sgc>>
    BY Zenon DEF SgcPatchStatus, sgcRest
  <2>2. CASE SgcFail(s) /\ UNCHANGED sgc
    BY Zenon, <2>1, <2>2, SgcEnds DEF SgcFail
  <2>3. CASE Is(sgc[s])
    <3>1. PICK k, p, x : PutSgc(s, [sgc[s] EXCEPT !.key = k, !.port = p, !.prefix = x])
      BY Zenon, <2>3 DEF SgcPatchStatus
    <3>2. sgc'[s] = [sgc[s] EXCEPT !.key = k, !.port = p, !.prefix = x] /\ sgc[s] \in SgcObj
      BY Zenon, <3>1, SgcPuts, SgcShapes
    <3>3. sgc'[s].uid = sgc[s].uid /\ sgc'[s].del = sgc[s].del /\ sgc'[s].fin = sgc[s].fin
      BY <3>2, SgcWrites
    <3>4. SgcDone(s)
      BY Zenon, <2>3 DEF SgcPatchStatus
    <3>5. ws'[s].pc = "idle" /\ ws'[s].obj = NoSgc /\ uids[s].sgc \in Nat
      BY Zenon, <3>4, SgcGoes, SgcShapes
    <3>6. SgcCopies(s)'
      <4>1. ObjInv(sgc[s], csgc[s], NoSgc, "idle", SgcHolds, SgcDooms, NoSgc, uids[s].sgc)
        BY <3>5, EndsEmpty, NoObjFields DEF SgcInv, SgcCopies, SgcHolds, SgcDooms
      <4>2. ObjInv(sgc'[s], csgc[s], NoSgc, "idle", SgcHolds, SgcDooms, NoSgc, uids[s].sgc)
        BY Zenon, <2>3, <3>3, <4>1, Rewritten DEF SgcHolds
      <4> QED
        BY Zenon, <2>1, <3>5, <4>2 DEF SgcCopies
    <3>7. SgcClaims(s)'
      BY Zenon, <3>5 DEF SgcClaims
    <3>8. SgcOwned(s)'
      BY Zenon, <2>1, <3>3 DEF SgcInv, SgcOwned, Is
    <3> QED
      BY Zenon, <3>6, <3>7, <3>8 DEF SgcInv
  <2> QED
    BY Zenon, <2>2, <2>3 DEF SgcPatchStatus
<1>DeleteSecret. CASE SgcDeleteSecret(s)
  <2> USE <1>DeleteSecret
  <2>1. UNCHANGED <<sgc[s], csgc[s], lbc[s], uids[s].sgc>> /\ ws[s].pc = "delSecret"
    BY Zenon DEF SgcDeleteSecret, sgcRest, SgcAt
  <2>2. ws'[s].pc = "delLbc" /\ ws'[s].obj = ws[s].obj
    BY DEF SgcDeleteSecret, SgcShape, SgcWork
  <2>3. sec' = [sec EXCEPT ![s][ws[s].obj.uid] = 0]
    BY Zenon DEF SgcDeleteSecret
  <2>4. \A u \in SgcUids : sec'[s][u] = IF u = ws[s].obj.uid THEN 0 ELSE sec[s][u]
    BY Zenon, <2>3 DEF SgcShape
  <2>5. ws[s].obj.uid \in SgcUids
    BY Zenon, SgcShapes, SgcObjTyped
  <2>6. SgcCopies(s)'
    BY Zenon, <2>1, <2>2, GoesOn DEF SgcInv, SgcCopies, SgcHolds, SgcDooms
  <2>7. SgcClaims(s)'
    BY Zenon, <2>1, <2>2, <2>4, <2>5 DEF SgcInv, SgcClaims
  <2>8. SgcOwned(s)'
    BY Zenon, <2>1, <2>4 DEF SgcInv, SgcOwned
  <2> QED
    BY Zenon, <2>6, <2>7, <2>8 DEF SgcInv
<1>DeleteLbc. CASE SgcDeleteLbc(s)
  <2> USE <1>DeleteLbc
  <2>1. UNCHANGED <<sgc[s], csgc[s], sec[s], uids[s].sgc>> /\ ws[s].pc = "delLbc"
    BY Zenon DEF SgcDeleteLbc, sgcRest, SgcAt
  <2>2. Is(lbc'[s]) => Is(lbc[s]) /\ lbc'[s].owner = lbc[s].owner
    <3>1. lbc'[s] = Deleted(lbc[s], NoLbc) /\ lbc[s] \in LbcObj
      BY Zenon, SgcPuts, SgcShapes DEF SgcDeleteLbc
    <3> QED
      BY Zenon, <3>1, LbcDeleted, NoObjFields DEF Is
  <2>3. SgcOwned(s)'
    BY Zenon, <2>1, <2>2 DEF SgcInv, SgcOwned
  <2>4. CASE SgcDone(s)
    <3>1. ws'[s].pc = "idle" /\ ws'[s].obj = NoSgc /\ uids[s].sgc \in Nat
      BY Zenon, <2>4, SgcGoes, SgcShapes
    <3> QED
      BY Zenon, <2>1, <2>3, <3>1, SgcIdles DEF SgcInv
  <2>5. CASE ws[s].gone /\ ~Is(lbc[s]) /\ SgcGo(s, "unfin", ws[s].obj)
    <3>1. ws'[s].pc = "unfin" /\ ws'[s].obj = ws[s].obj /\ ws'[s].gone = ws[s].gone
      BY Zenon, <2>5, SgcGoes
    <3>2. SgcCopies(s)'
      BY Zenon, <2>1, <3>1, GoesOn DEF SgcInv, SgcCopies, SgcHolds, SgcDooms
    <3>3. SgcClaims(s)'
      BY Zenon, <2>1, <2>2, <2>5, <3>1 DEF SgcInv, SgcClaims
    <3> QED
      BY Zenon, <2>3, <3>2, <3>3 DEF SgcInv
  <2> QED
    BY Zenon, <2>4, <2>5 DEF SgcDeleteLbc
<1>RemoveFinalizer. CASE SgcRemoveFinalizer(s)
  <2> USE <1>RemoveFinalizer
  <2>1. UNCHANGED <<csgc[s], sec[s], lbc[s], uids[s].sgc>> /\ ws[s].pc = "unfin"
    BY Zenon DEF SgcRemoveFinalizer, sgcRest, SgcAt
  <2>2. CASE SgcFail(s) /\ UNCHANGED sgc
    BY Zenon, <2>1, <2>2, SgcEnds DEF SgcFail
  <2>3. CASE sgc[s] = ws[s].obj /\ PutSgc(s, NoSgc) /\ SgcDone(s)
    <3>1. sgc'[s] = NoSgc /\ ws'[s].pc = "idle" /\ ws'[s].obj = NoSgc
      BY Zenon, <2>3, SgcPuts, SgcGoes
    <3>2. SgcCopies(s)'
      <4>1. ObjInv(sgc[s], csgc[s], sgc[s], "unfin", SgcHolds, SgcDooms, NoSgc, uids[s].sgc)
        BY Zenon, <2>1, <2>3 DEF SgcInv, SgcCopies
      <4>2. ObjInv(NoSgc, csgc[s], NoSgc, "idle", SgcHolds, SgcDooms, NoSgc, uids[s].sgc)
        BY <4>1, Releases, NoObjFields, SgcShapes DEF SgcHolds, SgcDooms
      <4> QED
        BY Zenon, <2>1, <3>1, <4>2 DEF SgcCopies
    <3>3. ~Is(lbc[s]) /\ sec[s][sgc[s].uid] = 0
      BY Zenon, <2>1, <2>3 DEF SgcInv, SgcClaims
    <3>4. SgcOwned(s)'
      BY Zenon, <2>1, <3>3 DEF SgcInv, SgcOwned
    <3>5. SgcClaims(s)'
      BY Zenon, <3>1 DEF SgcClaims
    <3> QED
      BY Zenon, <3>2, <3>4, <3>5 DEF SgcInv
  <2> QED
    BY Zenon, <2>2, <2>3 DEF SgcRemoveFinalizer
<1> QED
  BY Zenon, <1>Start, <1>AddFinalizer, <1>Secret, <1>Lbc, <1>Status,
   <1>DeleteSecret, <1>DeleteLbc, <1>RemoveFinalizer DEF SgcStep

-----------------------------------------------------------------------------
(* What its steps leave alone.                                             *)
LEMMA SgcStepRest ==
  ASSUME NEW s, SgcStep(s)
  PROVE  /\ UNCHANGED <<csgc, clbc, cvmc, vmc, wl, wv, lb, prefixes>>
         /\ reconcileGatewayLBConfig(s) \/ SgcDeleteLbc(s) \/ UNCHANGED lbc
         /\ reconcileGatewayLBConfig(s) \/ UNCHANGED uids
BY Zenon DEF SgcStep, SgcStart, SgcAddFinalizer, reconcileWireguardKey, reconcileGatewayLBConfig,
   SgcPatchStatus, SgcDeleteSecret, SgcDeleteLbc, SgcRemoveFinalizer, sgcRest

(* They take no lbConfig from under the GatewayLBConfiguration controller. *)
LEMMA SgcStepLbc ==
  ASSUME SgcShape, NEW s \in Names, LbcInv(s), LbcTyped(s), SgcStep(s)
  PROVE  LbcInv(s)'
<1>1. UNCHANGED <<clbc[s], wl[s], vmc[s], RuleIds>>
  BY Zenon, SgcStepRest DEF RuleIds
<1>2. CASE UNCHANGED lbc[s] /\ UNCHANGED uids
  BY Zenon, <1>1, <1>2, LbcFrame
<1>3. CASE SgcDeleteLbc(s)
  <2>1. lbc'[s] = Deleted(lbc[s], NoLbc) /\ lbc[s] \in LbcObj /\ UNCHANGED uids
    BY Zenon, <1>3, SgcPuts, SgcShapes DEF SgcDeleteLbc
  <2>2. /\ Outside(lbc[s], lbc'[s], NoLbc, uids[s].lbc)
        /\ lbc'[s].uid <= uids[s].lbc /\ uids[s].lbc \in Nat
    <3>1. \/ lbc'[s] = NoLbc /\ ~lbc[s].fin
          \/ /\ lbc'[s].uid = lbc[s].uid /\ lbc'[s].fin = TRUE /\ lbc[s].fin = TRUE
             /\ lbc'[s].del = TRUE
      BY Zenon, <2>1, LbcDeleted
    <3>2. uids[s].lbc \in Nat
      BY Zenon, SgcShapes
    <3> QED
      BY Zenon, <3>1, <3>2, DeletesOutside, NoObjFields DEF LbcInv, LbcCopies
  <2> QED
    BY <1>1, <2>1, <2>2, LbcOutside
<1>4. CASE reconcileGatewayLBConfig(s)
  <2>1. CASE SgcFail(s) /\ UNCHANGED <<lbc, uids>>
    BY Zenon, <1>2, <2>1
  <2>2. CASE /\ Patched(lbc[s], lbc'[s], ws[s].obj.uid, uids[s].lbc + 1)
             /\ uids'[s].lbc = IF lbc'[s].uid > uids[s].lbc THEN lbc'[s].uid ELSE uids[s].lbc
    <3>1. Outside(lbc[s], lbc'[s], NoLbc, uids[s].lbc)
      BY Zenon, <2>2 DEF Outside, Patched
    <3>2. lbc'[s].uid \in Nat /\ uids[s].lbc \in Nat
      BY <2>2, SgcShapes DEF Patched, LbcTyped, Typed
    <3>3. /\ uids'[s].lbc \in Nat /\ uids'[s].lbc >= uids[s].lbc
          /\ lbc'[s].uid <= uids'[s].lbc
      BY <2>2, <3>2
    <3> QED
      BY Zenon, <1>1, <3>1, <3>3, LbcOutside
  <2> QED
    BY Zenon, <1>4, <2>1, <2>2, SgcCreates
<1> QED
  BY Zenon, <1>2, <1>3, <1>4, SgcStepRest

(* A step for gateway s keeps the invariant of s.                          *)
LEMMA SgcStepOwner ==
  ASSUME SgcShape, NEW s \in Names, LbcTyped(s), GatewayInv(s), SgcStep(s)
  PROVE  GatewayInv(s)'
<1>1. SgcInv(s)' /\ LbcInv(s)'
  BY Zenon, SgcStepSgc, SgcStepLbc DEF GatewayInv
<1>2. UNCHANGED <<vmc[s], cvmc[s], wv[s], prefixes>>
  BY Zenon, SgcStepRest
<1>3. uids'[s].vmc = uids[s].vmc
  <2>1. CASE reconcileGatewayLBConfig(s) /\ ~UNCHANGED uids
    <3>1. PICK n : uids' = [uids EXCEPT ![s].lbc = n]
      BY Zenon, <2>1 DEF reconcileGatewayLBConfig
    <3> QED
      BY Zenon, <3>1 DEF SgcShape, Kinds
  <2> QED
    BY Zenon, <2>1, SgcStepRest
<1>4. VmcInv(s)'
  BY Zenon, <1>2, <1>3, VmcFrame DEF GatewayInv
<1> QED
  BY Zenon, <1>1, <1>4 DEF GatewayInv

(* It leaves the other gateways alone.                                     *)
LEMMA SgcStepElsewhere ==
  ASSUME SgcShape, NEW s \in Names, NEW t \in Names \ {s}, SgcStep(s)
  PROVE  Untouched(t)
<1>a. /\ \A o : PutSgc(s, o) => sgc'[t] = sgc[t]
      /\ \A o : PutLbc(s, o) => lbc'[t] = lbc[t]
      /\ \A w : ws' = [ws EXCEPT ![s] = w] => ws'[t] = ws[t]
      /\ \A u, k : sec' = [sec EXCEPT ![s][u] = k] => sec'[t] = sec[t]
      /\ \A n : uids' = [uids EXCEPT ![s].lbc = n] => uids'[t] = uids[t]
  BY Zenon DEF SgcShape, PutSgc, PutLbc
<1>b. /\ \A pc, o : SgcGo(s, pc, o) => ws'[t] = ws[t]
      /\ SgcDone(s) => ws'[t] = ws[t]
  BY Zenon, <1>a DEF SgcGo, SgcDone
<1>1. UNCHANGED <<sgc[t], ws[t], sec[t], lbc[t], uids[t]>>
  <2>1. CASE SgcStart(s)
    BY Zenon, <1>b, <2>1 DEF SgcStart
  <2>2. CASE SgcAddFinalizer(s)
    BY Zenon, <1>a, <1>b, <2>2 DEF SgcAddFinalizer, SgcFail
  <2>3. CASE reconcileWireguardKey(s)
    <3>1. \A k : ws' = [ws EXCEPT ![s] = [@ EXCEPT !.pc = "lbc", !.obj = csgc[s], !.key = k]]
              => ws'[t] = ws[t]
      BY Zenon, <1>a
    <3> QED
      <4>1. UNCHANGED <<sgc, lbc, uids>>
        BY Zenon, <2>3 DEF reconcileWireguardKey
      <4>2. ws'[t] = ws[t]
        BY Zenon, <1>b, <2>3, <3>1 DEF reconcileWireguardKey, SgcFail
      <4>3. sec'[t] = sec[t]
        <5>1. UNCHANGED sec \/ sec' = [sec EXCEPT ![s][csgc[s].uid] = keys[s] + 1]
          BY Zenon, <2>3 DEF reconcileWireguardKey
        <5> QED
          BY <5>1 DEF SgcShape
      <4> QED
        BY Zenon, <4>1, <4>2, <4>3
  <2>4. CASE reconcileGatewayLBConfig(s)
    BY Zenon, <1>a, <1>b, <2>4 DEF reconcileGatewayLBConfig, SgcFail
  <2>5. CASE SgcPatchStatus(s)
    BY Zenon, <1>a, <1>b, <2>5 DEF SgcPatchStatus, SgcFail
  <2>6. CASE SgcDeleteSecret(s)
    BY Zenon, <1>a, <2>6 DEF SgcDeleteSecret
  <2>7. CASE SgcDeleteLbc(s)
    BY Zenon, <1>a, <1>b, <2>7 DEF SgcDeleteLbc
  <2>8. CASE SgcRemoveFinalizer(s)
    BY Zenon, <1>a, <1>b, <2>8 DEF SgcRemoveFinalizer, SgcFail
  <2> QED
    BY Zenon, <2>1, <2>2, <2>3, <2>4, <2>5, <2>6, <2>7, <2>8 DEF SgcStep
<1> QED
  BY Zenon, <1>1, SgcStepRest DEF Untouched, RuleIds
=============================================================================
