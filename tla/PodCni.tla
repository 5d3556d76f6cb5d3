------------------------------- MODULE PodCni --------------------------------
(***************************************************************************)
(* The CNI plugin of a pod's sandboxes and the CNI manager's service they  *)
(* call: ADD gives the sandbox a wireguard link and the cluster a          *)
(* PodEndpoint with its public key, DEL takes both away.  All pods here    *)
(* have one name, one after the other, each with its UID; a pod has one    *)
(* sandbox at a time, and a new one when ADD fails or the node restarts.   *)
(***************************************************************************)
EXTENDS Integers, FiniteSets

CONSTANTS
  Slots,    \* sandboxes that may be there at the same time
  MaxUid,   \* pods that are ever made
  Wants,    \* the UIDs of those with the gateway annotation
  Addressed,\* and of those whose eth0 has the addresses IPAM asks for
  Budget    \* how often each event of the environment may happen

(* lag: the manager's cache falls behind on the pod; any: all together     *)
Events == {"fault", "kill", "again", "reboot", "force", "unready", "lag", "any"}

ASSUME CniConstants ==
  /\ MaxUid \in Nat /\ Wants \cup Addressed \subseteq 1..MaxUid
  /\ Slots \subseteq Nat \ {0} /\ Budget \in [Events -> Nat]

VARIABLES
  pod,    \* UID of the pod object, 0 when there is none
  made,   \* UIDs given out so far
  ending, \* the pod object is being deleted
  cpod,   \* the manager's cached copy of pod
  gw,     \* the gateway configuration has its egress prefix
  pep,    \* the PodEndpoint: its owner's UID and its key, or NoPep
  cpep,   \* the manager's cached copy: is it there, is it the latest
  box,    \* per slot: the sandbox, its link and where its plugin is
  left    \* what remains of Budget

podVars == <<pod, made, ending, cpod>>
vars == <<pod, made, ending, cpod, gw, pep, cpep, box, left>>

Uids   == 0..MaxUid
NoPep  == [owner |-> 0, key |-> 0]
Free   == [pc |-> "free", uid |-> 0, link |-> "none", ns |-> FALSE]
Adding == {"retrieve", "nic", "move", "ip", "add", "config"}
Live(s) == box[s].pc \notin {"free", "gone"}

Init ==
  /\ pod = 0 /\ made = 0 /\ ending = FALSE /\ cpod = 0 /\ gw = FALSE
  /\ pep = NoPep /\ cpep = [there |-> FALSE, latest |-> TRUE]
  /\ box = [s \in Slots |-> Free] /\ left = Budget

Spend(E) ==
  /\ left["any"] >= Cardinality(E) /\ \A e \in E : left[e] > 0
  /\ left' = [e \in Events |-> IF e = "any" THEN left[e] - Cardinality(E)
                              ELSE IF e \in E THEN left[e] - 1 ELSE left[e]]
Happened(e) == left[e] < Budget[e]
GoTo(s, l) == box' = [box EXCEPT ![s].pc = l]
WritePep(p) ==
  /\ pep' = p
  /\ cpep' = [cpep EXCEPT !.latest = @ /\ p = pep]

-----------------------------------------------------------------------------
(* ADD.  Faulty variant of its recovery: the link is only looked for under *)
(* its first name, in the host's namespace.                                *)
Recover_HostOnly(s) ==
  box' = [box EXCEPT ![s].pc = "failed",
                     ![s].link = IF @ = "host" THEN "none" ELSE @]

(* ADD fails: WithWireGuardNic's recovery deletes the link wherever it is; *)
(* the PodEndpoint, if there is one, stays.                                *)
Recover(s) == box' = [box EXCEPT ![s].pc = "failed", ![s].link = "none"]

(* A call that fails: of the manager, the kernel or the IPAM plugin.       *)
AddFails(s) ==
  /\ box[s].pc \in Adding /\ Spend({"fault"}) /\ Recover(s)
  /\ UNCHANGED <<podVars, gw, pep, cpep>>

(* The plugin's process is killed: nothing is recovered.                   *)
AddKilled(s) ==
  /\ box[s].pc \in Adding /\ Spend({"kill"}) /\ GoTo(s, "failed")
  /\ UNCHANGED <<podVars, gw, pep, cpep>>

(* The annotations come from the cache, by the pod's name.                 *)
PodRetrieve(s) ==
  /\ box[s].pc = "retrieve"
  /\ \/ cpod = 0 /\ Recover(s)
     \/ cpod # 0 /\ cpod \notin Wants /\ GoTo(s, "plain")
     \/ cpod # 0 /\ cpod \in Wants /\ GoTo(s, "nic")
  /\ UNCHANGED <<podVars, gw, pep, cpep, left>>

(* WithWireGuardNic: made in the host's namespace, then moved and renamed. *)
LinkAdd(s) ==
  /\ box[s].pc = "nic"
  /\ box' = [box EXCEPT ![s].pc = "move", ![s].link = "host"]
  /\ UNCHANGED <<podVars, gw, pep, cpep, left>>
LinkMove(s) ==
  /\ box[s].pc = "move"
  /\ box' = [box EXCEPT ![s].pc = "ip", ![s].link = "pod"]
  /\ UNCHANGED <<podVars, gw, pep, cpep, left>>

(* The IPAM plugin repeats eth0's addresses, one of each family; it keeps  *)
(* no state, so that there is nothing to release.                          *)
WithIP(s) ==
  /\ box[s].pc = "ip"
  /\ \/ box[s].uid \in Addressed /\ GoTo(s, "add")
     \/ box[s].uid \notin Addressed /\ Recover(s)
  /\ UNCHANGED <<podVars, gw, pep, cpep, left>>

(* CreateOrUpdate fails on a copy that was overwritten or deleted, and     *)
(* when the cache has not yet seen that the object is there.               *)
Writable == IF cpep.there THEN cpep.latest ELSE pep = NoPep

(* Faulty variant: no owner reference is set.                              *)
NicAdd_Orphan(s) ==
  /\ box[s].pc = "add"
  /\ \/ /\ gw /\ cpod # 0 /\ Writable
        /\ WritePep([owner |-> 0, key |-> s]) /\ GoTo(s, "config")
     \/ (~gw \/ cpod = 0 \/ ~Writable) /\ Recover(s) /\ UNCHANGED <<pep, cpep>>
  /\ UNCHANGED <<podVars, gw, left>>

(* Faulty variant: what is there already keeps its key.                    *)
NicAdd_KeepKey(s) ==
  /\ box[s].pc = "add"
  /\ \/ /\ gw /\ cpod # 0 /\ Writable /\ GoTo(s, "config")
        /\ WritePep([owner |-> cpod, key |-> IF pep = NoPep THEN s ELSE pep.key])
     \/ (~gw \/ cpod = 0 \/ ~Writable) /\ Recover(s) /\ UNCHANGED <<pep, cpep>>
  /\ UNCHANGED <<podVars, gw, left>>

(* A new key each time; the owner is the cached pod, whoever owned it.     *)
NicAdd(s) ==
  /\ box[s].pc = "add"
  /\ \/ /\ gw /\ cpod # 0 /\ Writable
        /\ WritePep([owner |-> cpod, key |-> s]) /\ GoTo(s, "config")
     \/ (~gw \/ cpod = 0 \/ ~Writable) /\ Recover(s) /\ UNCHANGED <<pep, cpep>>
  /\ UNCHANGED <<podVars, gw, left>>

(* The device gets the key, its peer and the pod's routes.                 *)
Configure(s) ==
  /\ box[s].pc = "config" /\ GoTo(s, "up")
  /\ UNCHANGED <<podVars, gw, pep, cpep, left>>

-----------------------------------------------------------------------------
(* DEL.  Faulty variant: it goes on when the namespace is gone.            *)
DelLink_Anyway(s) ==
  /\ box[s].pc = "del"
  /\ box' = [box EXCEPT ![s].pc = "nicdel", ![s].link = IF @ = "pod" THEN "none" ELSE @]
  /\ UNCHANGED <<podVars, gw, pep, cpep, left>>

(* cmdDel up to the call of the manager: it has nothing left to do when    *)
(* the namespace is gone.                                                  *)
DelLink(s) ==
  /\ box[s].pc = "del"
  /\ \/ ~box[s].ns /\ GoTo(s, "gone")
     \/ /\ box[s].ns
        /\ box' = [box EXCEPT ![s].pc = "nicdel", ![s].link = IF @ = "pod" THEN "none" ELSE @]
  /\ UNCHANGED <<podVars, gw, pep, cpep, left>>

(* The PodEndpoint is deleted by its name, whoever owns it.                *)
NicDel == WritePep(NoPep)

(* The rest of cmdDel: an error is only logged.                            *)
DelEndpoint(s) ==
  /\ box[s].pc = "nicdel" /\ GoTo(s, "deleted")
  /\ \/ NicDel /\ UNCHANGED left
     \/ Spend({"fault"}) /\ UNCHANGED <<pep, cpep>>
  /\ UNCHANGED <<podVars, gw>>

cmdAdd(s) == PodRetrieve(s) \/ LinkAdd(s) \/ LinkMove(s) \/ WithIP(s) \/ NicAdd(s) \/ Configure(s)
cmdDel(s) == DelLink(s) \/ DelEndpoint(s)
Plugin(s) == cmdAdd(s) \/ cmdDel(s)

-----------------------------------------------------------------------------
(* The kubelet and the container runtime.  A sandbox is made for a pod     *)
(* that has none; its slot's earlier key is nobody's from then on.         *)
RunSandbox(s) ==
  /\ pod # 0 /\ ~ending /\ ~Live(s)
  /\ \A r \in Slots : Live(r) => box[r].uid # pod
  /\ box' = [box EXCEPT ![s] = [pc |-> "retrieve", uid |-> pod, link |-> "none", ns |-> TRUE]]
  /\ pep' = IF pep.key = s THEN [pep EXCEPT !.key = 0] ELSE pep
  /\ UNCHANGED <<podVars, gw, cpep, left>>

(* DEL follows a failed ADD and the end of a pod.                          *)
StopSandbox(s) ==
  /\ \/ box[s].pc = "failed"
     \/ box[s].pc \in {"up", "plain"} /\ (box[s].uid # pod \/ ending)
  /\ GoTo(s, "del")
  /\ UNCHANGED <<podVars, gw, pep, cpep, left>>

(* The namespace is removed after DEL.  DEL may come again, before and     *)
(* after that.                                                             *)
RemoveNs(s) ==
  /\ box[s].pc = "deleted"
  /\ box' = [box EXCEPT ![s].pc = "gone", ![s].ns = FALSE]
  /\ UNCHANGED <<podVars, gw, pep, cpep, left>>
DelAgain(s) ==
  /\ box[s].pc \in {"deleted", "gone"} /\ Spend({"again"}) /\ GoTo(s, "del")
  /\ UNCHANGED <<podVars, gw, pep, cpep>>

(* The node restarts: processes, namespaces and links are gone.            *)
Reboot ==
  /\ Spend({"reboot"})
  /\ box' = [s \in Slots |-> IF Live(s) THEN [box[s] EXCEPT !.pc = "del", !.link = "none", !.ns = FALSE]
                             ELSE [box[s] EXCEPT !.link = "none"]]
  /\ UNCHANGED <<podVars, gw, pep, cpep>>

-----------------------------------------------------------------------------
(* The cluster.  The manager's cache follows at once, or falls behind.     *)
SetPod(u, E) ==
  /\ pod' = u
  /\ \/ cpod' = u /\ Spend(E)
     \/ cpod # u /\ UNCHANGED cpod /\ Spend(E \cup {"lag"})
CreatePod ==
  /\ pod = 0 /\ made < MaxUid
  /\ SetPod(made + 1, {}) /\ made' = made + 1 /\ ending' = FALSE
  /\ UNCHANGED <<gw, pep, cpep, box>>
DeletePod ==
  /\ pod # 0 /\ ~ending /\ ending' = TRUE
  /\ UNCHANGED <<pod, made, cpod, gw, pep, cpep, box, left>>

(* The kubelet lets the object go once the pod's sandbox is.               *)
RemovePod ==
  /\ ending /\ \A s \in Slots : Live(s) => box[s].uid # pod
  /\ SetPod(0, {}) /\ ending' = FALSE
  /\ UNCHANGED <<made, gw, pep, cpep, box>>
ForceDelete ==
  /\ pod # 0 /\ SetPod(0, {"force"}) /\ ending' = FALSE
  /\ UNCHANGED <<made, gw, pep, cpep, box>>

(* The garbage collector deletes what its owner has left behind.           *)
Collect ==
  /\ pep # NoPep /\ pep.owner \notin {0, pod} /\ WritePep(NoPep)
  /\ UNCHANGED <<podVars, gw, box, left>>

Ready   == ~gw /\ gw' = TRUE /\ UNCHANGED <<podVars, pep, cpep, box, left>>
Unready == gw /\ Spend({"unready"}) /\ gw' = FALSE /\ UNCHANGED <<podVars, pep, cpep, box>>
SyncPod ==
  /\ cpod # pod /\ cpod' = pod
  /\ UNCHANGED <<pod, made, ending, gw, pep, cpep, box, left>>
SyncPep ==
  /\ ~cpep.latest /\ cpep' = [there |-> pep # NoPep, latest |-> TRUE]
  /\ UNCHANGED <<podVars, gw, pep, box, left>>

Kubelet == \E s \in Slots : RunSandbox(s) \/ StopSandbox(s) \/ RemoveNs(s)
Faults  == \E s \in Slots : AddFails(s) \/ AddKilled(s) \/ DelAgain(s)
Cluster == RemovePod \/ Collect \/ Ready \/ SyncPod \/ SyncPep
Next == \/ \E s \in Slots : Plugin(s)
        \/ Kubelet \/ Faults \/ Cluster \/ Reboot
        \/ CreatePod \/ DeletePod \/ ForceDelete \/ Unready

Spec == Init /\ [][Next]_vars

(* The plugin ends, the kubelet goes on, the cluster's own loops run.      *)
FairSpec ==
  /\ Spec /\ \A s \in Slots : WF_vars(Plugin(s))
  /\ \A s \in Slots : WF_vars(RunSandbox(s) \/ StopSandbox(s) \/ RemoveNs(s))
  /\ WF_vars(RemovePod) /\ WF_vars(Collect) /\ WF_vars(Ready)
  /\ WF_vars(SyncPod) /\ WF_vars(SyncPep)

-----------------------------------------------------------------------------
(* The types of the state; a pod's link is in its namespace.               *)
CniTypeOK ==
  /\ {pod, made, cpod, pep.owner} \subseteq Uids /\ pep.key \in Slots \cup {0}
  /\ {ending, gw} \cup {cpep.there, cpep.latest} \subseteq BOOLEAN
  /\ box \in [Slots -> [pc : Adding \cup {"free", "failed", "up", "plain", "del", "nicdel", "deleted", "gone"},
                        uid : Uids, link : {"none", "host", "pod"}, ns : BOOLEAN]]
  /\ \A s \in Slots : box[s].link = "pod" => box[s].ns

(* A pod whose ADD has succeeded has its PodEndpoint, with its UID as the  *)
(* owner and its device's key, for as long as it runs, whatever DELs of    *)
(* other sandboxes are under way (NicAdd, NicDel, cmdDel); and ADD has     *)
(* skipped the link only for a pod that does not want one.                 *)
EndpointKept ==
  \A s \in Slots : box[s].uid = pod =>
    /\ box[s].pc = "up" => pep = [owner |-> pod, key |-> s]
    /\ box[s].pc = "plain" => pod \notin Wants

(* That, as long as no pod is deleted by force, which leaves a DEL by name *)
(* to come, and the pod the manager has in its cache is the latest.        *)
Orderly == ~Happened("force") /\ ~Happened("lag")
EndpointMatches == Orderly => EndpointKept

(* A failed ADD leaves no link behind (WithWireGuardNic's recovery), and   *)
(* DEL none either, unless a plugin was killed before it could recover.    *)
LinksRecovered ==
  ~Happened("kill") => \A s \in Slots : box[s].pc \in {"failed", "gone"} => box[s].link = "none"

(* A pod that stays is connected in the end, its PodEndpoint with it,      *)
(* although conflicting writes and an unready gateway only fail ADD.       *)
PodsConnected ==
  <>[](Orderly /\ pod \in Wants \cap Addressed =>
         \E s \in Slots : box[s].pc = "up" /\ pep = [owner |-> pod, key |-> s])

(* The PodEndpoint of a pod that has gone goes, even if NicDel failed or   *)
(* was never called: its owner reference has it collected.                 *)
EndpointsGone == []<>(pod # 0 \/ pep = NoPep)
=============================================================================
