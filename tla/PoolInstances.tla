---------------------------- MODULE PoolInstances ----------------------------
(***************************************************************************)
(* The virtual machines of a gateway node pool: how the                    *)
(* GatewayVMConfiguration controller gives each of them the secondary      *)
(* ipConfig of each vmConfig, one call after the other, while machines     *)
(* join and leave.  The pool is a scale set, whose model new instances     *)
(* copy, or an agent pool of single VMs with a NIC and public IPs each.    *)
(* VmController has the steps before and after, with the pool as a whole.  *)
(***************************************************************************)
EXTENDS Integers, FiniteSets

CONSTANTS
  Vms,       \* machines the pool may ever have
  PoolSize,  \* machines it has at once
  Configs,   \* vmConfigs of the pool, each used for one object
  Kinds,     \* what the pool may be: "vmss", "vms"
  Egresses,  \* what each vmConfig may ask for: "public", "private"
  Capacity,  \* public IPs in a prefix
  Addrs,     \* addresses an ipConfig may be given
  Budget     \* how often each event of the environment may happen

(* any: all of them together                                               *)
Events == {"join", "leave", "edit", "delete", "fault", "crash", "any"}
Requests == Vms \cup Configs

ASSUME PoolConstants ==
  /\ Kinds \subseteq {"vmss", "vms"} /\ Egresses \in [Configs -> SUBSET {"public", "private"}]
  /\ Capacity \in Nat /\ PoolSize \in Nat /\ Addrs \subseteq Nat \ {0} /\ Addrs # {}
  /\ Vms \cap Configs = {} /\ Budget \in [Events -> Nat]

VARIABLES
  spec,   \* per vmConfig: what it asks for, "deleting", "none" or "gone"
  prof,   \* per vmConfig: the address of each machine in its status, or 0
  pool,   \* its kind, and a scale set's model: per vmConfig its ipConfig, or "none"
  vm,     \* per machine: its state, ipConfigs, addresses and backend pool;
          \* one that is gone keeps what a list taken before says of it
  pips,   \* public IPs of a VMs pool, named after vmConfig and machine
  queue,  \* requests that wait: vmConfigs, and nodes
  work,   \* the worker
  left    \* what remains of Budget

vars == <<spec, prof, pool, vm, pips, queue, work, left>>

None == "none"
Kind  == pool.kind
model == pool.model
Unset == [c \in Configs |-> None]
NoVm  == [state |-> "new", has |-> Unset, addr |-> [c \in Configs |-> 0], lb |-> FALSE, failed |-> FALSE]
Idle  == [pc |-> "idle", req |-> {}, todo |-> {}, cur |-> {}, want |-> Unset,
          stale |-> {}, seen |-> {}, vms |-> {}, prof |-> [v \in Vms |-> 0], err |-> FALSE]
Up(v) == vm[v].state = "up"
There == {v \in Vms : Up(v)}
Live  == {c \in Configs : spec[c] \in Egresses[c]}

Spend(e) ==
  /\ left[e] > 0 /\ left["any"] > 0
  /\ left' = [left EXCEPT ![e] = @ - 1, !["any"] = @ - 1]

Init ==
  /\ spec = Unset /\ prof = [c \in Configs |-> [v \in Vms |-> 0]]
  /\ \E k \in Kinds : pool = [kind |-> k, model |-> Unset]
  /\ pips = {} /\ queue = {} /\ work = Idle /\ left = Budget
  /\ \E V \in SUBSET Vms :
       Cardinality(V) <= PoolSize /\ vm = [v \in Vms |-> [NoVm EXCEPT !.state = IF v \in V THEN "up" ELSE "new"]]

-----------------------------------------------------------------------------
(* Faulty variant: nodes' events are not handled.                          *)
Take_NoNodes(r) ==
  /\ work.pc = "idle" /\ r \in queue /\ queue' = queue \ {r}
  /\ work' = IF r \in Vms \/ spec[r] \in {None, "gone"} THEN Idle
             ELSE [Idle EXCEPT !.pc = "next", !.req = {r}, !.todo = {r}, !.want = spec]
  /\ UNCHANGED <<spec, prof, pool, vm, pips, left>>

(* Reconcile: a request for a vmConfig, or a node's, which is dropped when *)
(* the node is gone and stands for all vmConfigs not being deleted if not. *)
Take(r) ==
  /\ work.pc = "idle" /\ r \in queue /\ queue' = queue \ {r}
  /\ LET C == IF r \in Configs THEN {r} \ {c \in Configs : spec[c] \in {None, "gone"}}
              ELSE IF Up(r) THEN Live ELSE {}
     IN  work' = IF C = {} THEN Idle
                 ELSE [Idle EXCEPT !.pc = "next", !.req = {r}, !.todo = C, !.want = spec]
  /\ UNCHANGED <<spec, prof, pool, vm, pips, left>>

(* The next vmConfig of the request, as it was read when it was taken.     *)
NextConfig(c) ==
  /\ work.pc = "next" /\ c \in work.todo
  /\ work' = [work EXCEPT !.pc = IF Kind = "vmss" THEN "model" ELSE "list",
                          !.cur = {c}, !.todo = @ \ {c}, !.prof = prof[c]]
  /\ UNCHANGED <<spec, prof, pool, vm, pips, queue, left>>

(* One vmConfig is done, and its status written is an event (more); after  *)
(* an error the request comes back, when the others have had their turn.   *)
End(failed, more) ==
  LET e == work.err \/ failed IN
  IF work.todo # {}
  THEN work' = [work EXCEPT !.pc = "next", !.cur = {}, !.err = e] /\ queue' = queue \cup more
  ELSE work' = Idle /\ queue' = queue \cup more \cup (IF e THEN work.req ELSE {})
Error == End(TRUE, {})

(* Status().Update of a vmConfig the worker's copy of which is not stale.  *)
Save(c, P) == prof' = [prof EXCEPT ![c] = P]
Changed(c, P) == IF prof[c] # P THEN {c} ELSE {}

At(pc, c) == work.pc = pc /\ c \in work.cur
Wanted(c) == work.want[c] \in Egresses[c]

Expected(c) == IF Wanted(c) THEN work.want[c] ELSE None
Managed(has) == \E c \in Configs : has[c] # None

(* Faulty variant: the model keeps an ipConfig that is not wanted any more.*)
UpdateModel_Kept(c) ==
  /\ At("model", c)
  /\ pool' = IF Wanted(c) THEN [pool EXCEPT !.model[c] = Expected(c)] ELSE pool
  /\ work' = [work EXCEPT !.pc = "list"]
  /\ UNCHANGED <<spec, prof, vm, pips, queue, left>>

(* reconcileVMSS: the scale set's model first.                             *)
UpdateModel(c) ==
  /\ At("model", c)
  /\ pool' = [pool EXCEPT !.model[c] = Expected(c)]
  /\ work' = [work EXCEPT !.pc = "list"]
  /\ UNCHANGED <<spec, prof, vm, pips, queue, left>>

ListVms(c) ==
  /\ At("list", c)
  /\ work' = [work EXCEPT !.pc = "vm", !.seen = There, !.vms = There]
  /\ UNCHANGED <<spec, prof, pool, vm, pips, queue, left>>

(* Azure: the ipConfig is set, with an address if it had none.             *)
Apply(v, c, e, lb) ==
  \E a \in Addrs :
    vm' = [vm EXCEPT ![v].has[c] = e, ![v].lb = lb, ![v].failed = FALSE,
                     ![v].addr[c] = IF e = None THEN 0 ELSE IF vm[v].has[c] = e /\ @ # 0 THEN @ ELSE a]

(* Azure: the update fails half way, the ipConfig is there without address.*)
ApplyHalf(v, c, e, lb) ==
  vm' = [vm EXCEPT ![v].has[c] = e, ![v].lb = lb, ![v].failed = TRUE, ![v].addr[c] = 0]

(* Faulty variant: an instance is left alone when its ipConfig is right.   *)
forceUpdate_Never(v, c) == FALSE

(* A failed machine, and one whose address is not found, is updated again. *)
forceUpdate(v, c) ==
  \/ vm[v].failed
  \/ Wanted(c) /\ (vm[v].addr[c] = 0 \/ (Kind = "vmss" /\ ~Up(v)))

(* Faulty variant: the backend pool goes with any ipConfig.                *)
reconcileLbBackendPool_Any(v, c) == Wanted(c)

(* reconcileLbBackendPool: in the pool while any managed ipConfig is left; *)
(* a NIC of a VMs pool is put into it and never taken out.                 *)
reconcileLbBackendPool(v, c) ==
  Kind = "vms" \/ Managed([vm[v].has EXCEPT ![c] = Expected(c)])

needUpdate(v, c) ==
  \/ vm[v].has[c] # Expected(c)
  \/ vm[v].lb # reconcileLbBackendPool(v, c)

(* The machine's profile in the vmConfig's status, as the worker has it;   *)
(* a scale set's instance without address is an error.                     *)
Profile(v, c, a) ==
  IF Kind = "vmss" /\ Wanted(c) /\ a = 0 THEN Error
  ELSE /\ work' = [work EXCEPT !.vms = @ \ {v}, !.prof[v] = IF Wanted(c) THEN a ELSE @]
       /\ UNCHANGED queue

(* CreateOrUpdatePublicIP.                                                 *)
NeedsPip(c) == Kind = "vms" /\ Expected(c) = "public"
PipsOf(c) == {p \in pips : p[1] = c}
HasRoom(v, c) == NeedsPip(c) => <<c, v>> \in pips \/ Cardinality(PipsOf(c)) < Capacity

(* reconcileVMSSVM and reconcileNIC: an error ends the loop over machines. *)
ReconcileVm(v, c) ==
  LET update == needUpdate(v, c) \/ forceUpdate(v, c)
      lb     == reconcileLbBackendPool(v, c)
  IN
  /\ At("vm", c) /\ v \in work.vms /\ UNCHANGED <<spec, prof, pool>>
  /\ pips' = IF NeedsPip(c) /\ HasRoom(v, c) THEN pips \cup {<<c, v>>} ELSE pips
  /\ \/ /\ ~HasRoom(v, c) \/ (update /\ ~Up(v))
        /\ Error /\ UNCHANGED <<vm, left>>
     \/ /\ HasRoom(v, c) /\ ~update
        /\ Profile(v, c, vm[v].addr[c]) /\ UNCHANGED <<vm, left>>
     \/ /\ HasRoom(v, c) /\ update /\ Up(v)
        /\ \/ Apply(v, c, Expected(c), lb) /\ Profile(v, c, vm'[v].addr[c]) /\ UNCHANGED left
           \/ Spend("fault") /\ UNCHANGED vm /\ Error
           \/ Spend("fault") /\ ApplyHalf(v, c, Expected(c), lb) /\ Error

(* Faulty variant: profiles of machines that are gone stay.                *)
Listed_All(P) == P

(* The profiles of the machines that were listed.                          *)
Listed(P) == [v \in Vms |-> IF v \in work.seen THEN P[v] ELSE 0]

(* The end of reconcileVMSS: profiles of machines it has not seen go, and  *)
(* the status is written; a conflict is an error.                          *)
UpdateProfiles(c) ==
  /\ At("vm", c) /\ Kind = "vmss" /\ work.vms = {}
  /\ LET P == Listed(work.prof)
     IN  \/ c \in work.stale /\ Error /\ UNCHANGED prof
         \/ /\ c \notin work.stale /\ Save(c, P)
            /\ work' = [work EXCEPT !.pc = "finish", !.prof = P]
            /\ queue' = queue \cup Changed(c, P)
  /\ UNCHANGED <<spec, pool, vm, pips, left>>

PoolDone(c) == At("finish", c) \/ (At("vm", c) /\ Kind = "vms" /\ work.vms = {})

(* The rest of reconcile: a private vmConfig's managed prefix goes, with   *)
(* its public IPs; the status is written, and a conflict is only logged.   *)
Finish(c) ==
  /\ PoolDone(c) /\ Wanted(c)
  /\ pips' = IF Expected(c) = "private" THEN pips \ PipsOf(c) ELSE pips
  /\ \/ c \in work.stale /\ UNCHANGED prof /\ End(FALSE, {})
     \/ c \notin work.stale /\ Save(c, work.prof) /\ End(FALSE, Changed(c, work.prof))
  /\ UNCHANGED <<spec, pool, vm, left>>

(* The rest of ensureDeleted: prefix, public IPs and the finalizer.        *)
FinishDelete(c) ==
  /\ PoolDone(c) /\ ~Wanted(c) /\ End(FALSE, {}) /\ pips' = pips \ PipsOf(c)
  /\ spec' = [spec EXCEPT ![c] = "gone"] /\ Save(c, [v \in Vms |-> 0])
  /\ UNCHANGED <<pool, vm, left>>

(* A call before the machines' fails.                                      *)
Fails(c) ==
  /\ work.pc \in {"model", "list"} /\ c \in work.cur /\ Spend("fault") /\ Error
  /\ UNCHANGED <<spec, prof, pool, vm, pips>>

Worker ==
  \/ \E r \in Requests : Take(r)
  \/ \E c \in Configs : \/ NextConfig(c) \/ UpdateModel(c) \/ ListVms(c) \/ UpdateProfiles(c)
                        \/ Finish(c) \/ FinishDelete(c) \/ Fails(c)
                        \/ \E v \in Vms : ReconcileVm(v, c)

-----------------------------------------------------------------------------
(* A machine joins, with what the model has; its node is an event.         *)
Join(v) ==
  /\ vm[v].state = "new" /\ Cardinality(There) < PoolSize /\ Spend("join") /\ queue' = queue \cup {v}
  /\ \E a \in Addrs :
       vm' = [vm EXCEPT ![v] = [state |-> "up", has |-> model, failed |-> FALSE, lb |-> Managed(model),
                                addr |-> [c \in Configs |-> IF model[c] = None THEN 0 ELSE a]]]
  /\ UNCHANGED <<spec, prof, pool, pips, work>>

(* A machine and its node go; its public IPs stay.                         *)
Leave(v) ==
  /\ Up(v) /\ Spend("leave") /\ queue' = queue \cup {v}
  /\ vm' = [vm EXCEPT ![v].state = "gone"]
  /\ UNCHANGED <<spec, prof, pool, pips, work>>

Written(c, s) ==
  /\ spec' = [spec EXCEPT ![c] = s] /\ queue' = queue \cup {c}
  /\ work' = IF work.pc = "idle" THEN work ELSE [work EXCEPT !.stale = @ \cup {c}]
  /\ UNCHANGED <<prof, pool, vm, pips>>
Edit(c) ==
  /\ spec[c] \in Egresses[c] \cup {None}
  /\ \E e \in Egresses[c] \ {spec[c]} : Spend("edit") /\ Written(c, e)
Delete(c) == c \in Live /\ Spend("delete") /\ Written(c, "deleting")

(* The manager restarts: every object is an event.                         *)
Restart ==
  /\ Spend("crash") /\ work' = Idle
  /\ queue' = There \cup {c \in Configs : spec[c] \notin {None, "gone"}}
  /\ UNCHANGED <<spec, prof, pool, vm, pips>>

Next == \/ Worker \/ Restart
        \/ \E v \in Vms : Join(v) \/ Leave(v)
        \/ \E c \in Configs : Edit(c) \/ Delete(c)
Spec == Init /\ [][Next]_vars

(* The worker goes on.                                                     *)
FairSpec == Spec /\ WF_vars(Worker)

-----------------------------------------------------------------------------
Quiet == queue = {} /\ work = Idle

(* The types of the state: no ipConfig is one that no vmConfig asked for.  *)
PoolTypeOK ==
  /\ \A c \in Configs : /\ spec[c] \in Egresses[c] \cup {None, "gone", "deleting"}
                        /\ model[c] \in Egresses[c] \cup {None}
  /\ prof \in [Configs -> [Vms -> Addrs \cup {0}]]
  /\ pips \subseteq Configs \X Vms /\ queue \subseteq Requests

(* Once the controller has nothing left to do, every machine of the pool   *)
(* has the ipConfig every vmConfig asks for, with an address, is in the    *)
(* backend pool, and the status says so: whatever joined, left or failed   *)
(* between the steps of reconcileVMSS and of reconcileNIC.                 *)
MachinesServed ==
  Quiet => \A c \in Live, v \in There :
             /\ vm[v].has[c] = spec[c] /\ vm[v].addr[c] # 0 /\ vm[v].lb
             /\ prof[c][v] = vm[v].addr[c]

(* A vmConfig that is gone has left no ipConfig on the scale set's model or *)
(* on any machine, and no public IP: a machine that joins while            *)
(* ensureDeleted goes through the others does not bring it back.           *)
NothingLeft ==
  \A c \in Configs : spec[c] = "gone" =>
    /\ model[c] = None /\ \A v \in There : vm[v].has[c] = None
    /\ PipsOf(c) = {}

(* An instance of a scale set is in the load balancer's backend pool       *)
(* exactly while it has an ipConfig of some vmConfig                       *)
(* (reconcileLbBackendPool), so deleting one leaves the others reachable.  *)
BackendShared == Kind = "vmss" => \A v \in There : vm[v].lb = Managed(vm[v].has)

(* The status names only machines that are there once a node's leaving has *)
(* been handled: "clean up VMProfiles for deleted nodes".                  *)
ProfilesCurrent ==
  Quiet => \A c \in Live : {v \in Vms : prof[c][v] # 0} \subseteq There

(* When reconcileVMSS returns for a vmConfig that is wanted, its status    *)
(* names exactly the instances that were listed, each with the address its *)
(* interface has, whatever earlier rounds and other requests left there.   *)
StatusAfterLoop ==
  \A c \in work.cur : work.pc = "finish" /\ Wanted(c) =>
    \A v \in Vms : prof[c][v] = IF v \in work.seen THEN vm[v].addr[c] ELSE 0

(* The requests come to an end: no error the controller meets comes back   *)
(* for ever, a half applied update included (forceUpdate).                 *)
Settles == <>[]Quiet
=============================================================================
