------------------------------ MODULE Ownership ------------------------------
(***************************************************************************)
(* Why OwnerChain, RulesOwned and PrefixesOwned hold: the inductive        *)
(* invariant behind them, one part per controller.  Each part says what a  *)
(* reconcile may still believe of the object it read from a lagging cache. *)
(* It needs no order of events between the three controllers, only that    *)
(* each is the one to remove its own finalizer.                            *)
(***************************************************************************)
EXTENDS Cluster

(* What a lagging copy c of the object o still shows: a copy with the      *)
(* finalizer that is not being deleted is of the object that is there, and *)
(* a deletion the copy shows is not taken back.                            *)
Faithful(c, o) ==
  /\ Is(c) /\ c.fin /\ ~c.del => o.uid = c.uid /\ o.fin
  /\ Is(c) /\ c.uid = o.uid /\ c.del => o.del

(* A reconcile that deletes by the copy w works for an object that is      *)
(* being deleted, in the API server and in the cache.                      *)
Doomed(w, c, o) ==
  /\ Is(w) /\ w.del
  /\ c.uid = w.uid => c.del
  /\ o.uid = w.uid => o.del

(* A reconcile past its finalizer works for the object that is there.      *)
Held(w, o) == Is(w) /\ o.uid = w.uid /\ o.fin

(* An object o, its copy c in the cache and its copy w in a reconcile at   *)
(* pc, which holds the object at H and is to remove it at D; last is the   *)
(* last UID given out.                                                     *)
ObjInv(o, c, w, pc, H, D, none, last) ==
  /\ ~Is(o) => o = none
  /\ o.uid <= last /\ c.uid <= last /\ w.uid <= last
  /\ Faithful(c, o)
  /\ pc \in H => Held(w, o)
  /\ pc \in D => Doomed(w, c, o)

SgcHolds == {"secret", "lbc", "status"}
SgcDooms == {"delSecret", "delLbc", "unfin"}
SgcCopies(s) ==
  ObjInv(sgc[s], csgc[s], ws[s].obj, ws[s].pc, SgcHolds, SgcDooms, NoSgc, uids[s].sgc)

(* What the reconcile in progress may rely on.                             *)
SgcClaims(s) ==
  LET w == ws[s] IN
  /\ w.pc # "idle" => Is(w.obj)
  /\ w.pc = "fin" /\ sgc[s].uid = w.obj.uid => csgc[s].uid = w.obj.uid
  /\ w.pc \in {"secret", "lbc", "status"} => csgc[s].uid = w.obj.uid
  /\ w.pc \in {"delLbc", "unfin"} /\ w.gone => sec[s][w.obj.uid] = 0
  /\ w.pc = "unfin" => w.gone /\ ~Is(lbc[s])

(* What exists only under the StaticGatewayConfiguration.                  *)
SgcOwned(s) ==
  /\ Is(lbc[s]) => Is(sgc[s]) /\ sgc[s].fin /\ lbc[s].owner = sgc[s].uid
  /\ \A u \in SgcUids : sec[s][u] # 0 => sgc[s].uid = u /\ sgc[s].fin

(* The rules and probes of the load balancer, by the id they are named     *)
(* after.                                                                  *)
RuleIds == lb.probes \cup {r.id : r \in lb.rules}

LbcHolds == {"rule", "vmc", "status"}
LbcDooms == {"delVmc", "unrule", "unfin"}
LbcCopies(s) ==
  ObjInv(lbc[s], clbc[s], wl[s].obj, wl[s].pc, LbcHolds, LbcDooms, NoLbc, uids[s].lbc)

LbcClaims(s) ==
  LET w == wl[s] IN
  /\ w.pc # "idle" => Is(w.obj)
  /\ w.pc \in {"unrule", "unfin"} => ~Is(vmc[s])
  /\ w.pc = "unfin" => <<s, w.obj.uid>> \notin RuleIds

LbcOwned(s) ==
  /\ Is(vmc[s]) => Is(lbc[s]) /\ lbc[s].fin /\ vmc[s].owner = lbc[s].uid
  /\ \A id \in RuleIds : id[1] = s => lbc[s].uid = id[2] /\ lbc[s].fin

VmcHolds(w) ==
  {"prefix", "pool", "profiles", "unprefix", "status"} \cup
    {pc \in {"listed"} : w.fin}
VmcDooms == {"delPool", "delPrefix", "unfin"}
VmcCopies(s) ==
  ObjInv(vmc[s], cvmc[s], wv[s].obj, wv[s].pc, VmcHolds(wv[s].obj), VmcDooms,
         NoVmc, uids[s].vmc)

VmcClaims(s) ==
  LET w == wv[s] IN
  /\ w.pc # "idle" => Is(w.obj)
  /\ w.pc = "unfin" => <<s, w.obj.uid>> \notin prefixes

VmcOwned(s) ==
  \A id \in prefixes : id[1] = s => vmc[s].uid = id[2] /\ vmc[s].fin

SgcInv(s) == SgcCopies(s) /\ SgcClaims(s) /\ SgcOwned(s)
LbcInv(s) == LbcCopies(s) /\ LbcClaims(s) /\ LbcOwned(s)
VmcInv(s) == VmcCopies(s) /\ VmcClaims(s) /\ VmcOwned(s)

GatewayInv(s) == SgcInv(s) /\ LbcInv(s) /\ VmcInv(s)

(* No controller works for an object that is gone, or deletes one that is  *)
(* not to be deleted, however late the cache: ownership follows.           *)
OwnerInv == \A s \in Names : GatewayInv(s)
=============================================================================
