---------------------------- MODULE PodCniProofs -----------------------------
(***************************************************************************)
(* Proofs about PodCni, for any number of pods and sandboxes and every     *)
(* budget of faults: a connected pod has its own PodEndpoint, and an ADD   *)
(* that fails leaves no link.                                              *)
(***************************************************************************)
EXTENDS PodCni, FiniteSetTheorems, TLAPS

Pcs == Adding \cup {"free", "failed", "up", "plain", "del", "nicdel", "deleted", "gone"}
Boxes == [pc : Pcs, uid : Uids, link : {"none", "host", "pod"}, ns : BOOLEAN]

(* The types, and what is left of the budgets.                             *)
Typed ==
  /\ pod \in Uids /\ made \in Uids /\ cpod \in Uids
  /\ ending \in BOOLEAN /\ gw \in BOOLEAN
  /\ pep \in [owner : Uids, key : Slots \cup {0}]
  /\ cpep \in [there : BOOLEAN, latest : BOOLEAN]
  /\ box \in [Slots -> Boxes]
  /\ left \in [Events -> Nat] /\ \A e \in Events : left[e] <= Budget[e]

(* A plugin at work, or one that has worked, has its namespace; a link     *)
(* that was moved is in one.                                               *)
PlacedAt(b) ==
  /\ b.pc \notin {"free", "gone", "del"} => b.ns
  /\ b.pc \in {"free", "gone"} => ~b.ns
  /\ b.link = "pod" => b.ns /\ b.pc \notin {"nicdel", "deleted"}
Placed == \A s \in Slots : PlacedAt(box[s])

(* Without kills a link is only where WithWireGuardNic is between making   *)
(* and moving it, or belongs to an ADD that goes on or is to be undone.    *)
TrackedAt(b) ==
  /\ b.link = "host" => b.pc = "move"
  /\ b.link = "pod" => b.pc \in {"ip", "add", "config", "up", "del"}
Tracked == ~Happened("kill") => \A s \in Slots : TrackedAt(box[s])

(* A sandbox whose plugin may still write or delete the PodEndpoint: a DEL *)
(* without the namespace ends before NicDel.                               *)
Acting(s) == Live(s) /\ (box[s].pc = "del" => box[s].ns)

(* There is one such sandbox at most, and it is the pod's.                 *)
Owned ==
  Orderly =>
    /\ cpod = pod
    /\ \A s \in Slots : Acting(s) => box[s].uid = pod /\ pod # 0
    /\ \A s, r \in Slots : Acting(s) /\ Acting(r) => s = r
    /\ \A s \in Slots : /\ box[s].pc \in {"config", "up"} => pep = [owner |-> pod, key |-> s]
                        /\ box[s].pc = "plain" => pod \notin Wants

CniInv == Typed /\ Placed /\ Tracked /\ Owned

-----------------------------------------------------------------------------
(* The budgets only shrink: an event that has happened has happened.       *)
LEMMA Spending ==
  ASSUME Typed, NEW E \in SUBSET (Events \ {"any"}), IsFiniteSet(E), Spend(E)
  PROVE  /\ left' \in [Events -> Nat]
         /\ \A e \in Events : left'[e] <= left[e]
         /\ \A e \in E : Happened(e)'
PROOF
  <1>1. Cardinality(E) \in Nat
    BY FS_CardinalityType
  <1>2. "any" \in Events
    BY DEF Events
  <1>3. \A e \in Events : left[e] \in Nat /\ Budget[e] \in Nat /\ left[e] <= Budget[e]
    BY CniConstants DEF Typed
  <1>4. \A e \in Events : left'[e] = IF e = "any" THEN left[e] - Cardinality(E)
                                     ELSE IF e \in E THEN left[e] - 1 ELSE left[e]
    BY DEF Spend
  <1>5. left["any"] >= Cardinality(E) /\ \A e \in E : left[e] > 0
    BY DEF Spend
  <1>6. \A e \in Events : left'[e] \in Nat /\ left'[e] <= left[e]
    BY <1>1, <1>3, <1>4, <1>5
  <1>7. \A e \in E : left'[e] < Budget[e]
    BY <1>3, <1>4, <1>5
  <1>8. left' = [e \in Events |-> left'[e]]
    BY DEF Spend
  <1> QED
    BY <1>6, <1>7, <1>8 DEF Happened

(* What spending no event, or one or two, leaves of the invariant's        *)
(* conditions.                                                             *)
LEMMA Budgets ==
  ASSUME Typed,
         UNCHANGED left \/ Spend({}) \/ (\E e \in Events \ {"any"} : Spend({e}))
           \/ (\E e, f \in Events \ {"any"} : Spend({e} \cup {f}))
  PROVE  /\ left' \in [Events -> Nat] /\ \A e \in Events : left'[e] <= Budget[e]
         /\ Orderly' => Orderly
         /\ ~Happened("kill")' => ~Happened("kill")
PROOF
  <1>1. SUFFICES left' \in [Events -> Nat] /\ \A e \in Events : left'[e] <= left[e]
    <2>1. \A e \in Events : left[e] \in Nat /\ left'[e] \in Nat /\ Budget[e] \in Nat
      BY <1>1, CniConstants DEF Typed
    <2>2. {"kill", "force", "lag"} \subseteq Events
      BY DEF Events
    <2> QED
      BY <1>1, <2>1, <2>2 DEF Orderly, Happened, Typed
  <1>2. CASE UNCHANGED left
    BY <1>2 DEF Typed
  <1>3. CASE Spend({})
    BY <1>3, Spending, FS_EmptySet
  <1>4. ASSUME NEW e \in Events \ {"any"}, Spend({e})
        PROVE  left' \in [Events -> Nat] /\ \A x \in Events : left'[x] <= left[x]
    BY <1>4, Spending, FS_Singleton
  <1>5. ASSUME NEW e \in Events \ {"any"}, NEW f \in Events \ {"any"}, Spend({e} \cup {f})
        PROVE  left' \in [Events -> Nat] /\ \A x \in Events : left'[x] <= left[x]
    <2>1. IsFiniteSet({e} \cup {f})
      BY FS_Singleton, FS_AddElement
    <2> QED
      BY <1>5, <2>1, Spending
  <1> QED
    BY <1>2, <1>3, <1>4, <1>5

-----------------------------------------------------------------------------
(* What each step spends.                                                  *)
LEMMA StepSpends ==
  ASSUME Typed, [Next]_vars
  PROVE  /\ left' \in [Events -> Nat] /\ \A e \in Events : left'[e] <= Budget[e]
         /\ Orderly' => Orderly
         /\ ~Happened("kill")' => ~Happened("kill")
PROOF
  <1>1. {"fault", "kill", "again", "reboot", "force", "unready", "lag"} \subseteq Events \ {"any"}
    BY DEF Events
  <1>2. \/ UNCHANGED left \/ Spend({}) \/ Spend({} \cup {"lag"}) \/ Spend({"force"} \cup {"lag"})
        \/ \E e \in Events \ {"any"} : Spend({e})
    BY <1>1 DEF Next, vars, Plugin, cmdAdd, cmdDel, Kubelet, Faults, Cluster, PodRetrieve, LinkAdd,
           LinkMove, WithIP, NicAdd, Configure, DelLink, DelEndpoint, RunSandbox, StopSandbox,
           RemoveNs, AddFails, AddKilled, DelAgain, Reboot, CreatePod, DeletePod, RemovePod,
           ForceDelete, Collect, Ready, Unready, SyncPod, SyncPep, SetPod
  <1>3. Spend({} \cup {"lag"}) => Spend({"lag"})
    <2>1. {} \cup {"lag"} = {"lag"}
      OBVIOUS
    <2> QED
      BY <2>1
  <1> QED
    BY <1>1, <1>2, <1>3, Budgets

-----------------------------------------------------------------------------
(* What the writes of a slot leave there: the place of its plugin, ...     *)
LEMMA Goes ==
  ASSUME Typed, NEW s \in Slots, NEW l \in Pcs, GoTo(s, l)
  PROVE  /\ box' \in [Slots -> Boxes]
         /\ box'[s].pc = l /\ box'[s].uid = box[s].uid
         /\ box'[s].link = box[s].link /\ box'[s].ns = box[s].ns
         /\ \A r \in Slots \ {s} : box'[r] = box[r]
PROOF
  BY DEF Typed, Boxes, GoTo

(* ... with its link, ...                                                  *)
LEMMA Links ==
  ASSUME Typed, NEW s \in Slots, NEW l \in Pcs, NEW k \in {"none", "host", "pod"},
         box' = [box EXCEPT ![s].pc = l, ![s].link = k]
  PROVE  /\ box' \in [Slots -> Boxes]
         /\ box'[s].pc = l /\ box'[s].uid = box[s].uid
         /\ box'[s].link = k /\ box'[s].ns = box[s].ns
         /\ \A r \in Slots \ {s} : box'[r] = box[r]
PROOF
  BY DEF Typed, Boxes

(* ... and the PodEndpoint.                                                *)
LEMMA Writes ==
  ASSUME Typed, NEW p \in [owner : Uids, key : Slots \cup {0}], WritePep(p)
  PROVE  /\ pep' = p
         /\ cpep' \in [there : BOOLEAN, latest : BOOLEAN]
PROOF
  <1>1. cpep' = [cpep EXCEPT !.latest = cpep.latest /\ p = pep]
    BY DEF WritePep
  <1>2. cpep.latest \in BOOLEAN
    BY DEF Typed
  <1>3. (cpep.latest /\ p = pep) \in BOOLEAN
    BY Zenon
  <1>4. \A b \in BOOLEAN : [cpep EXCEPT !.latest = b] \in [there : BOOLEAN, latest : BOOLEAN]
    BY DEF Typed
  <1> QED
    BY <1>1, <1>3, <1>4 DEF WritePep

-----------------------------------------------------------------------------
(* A step of one sandbox that leaves the pod and its PodEndpoint alone     *)
(* keeps the invariant if what it leaves in the slot fits.                 *)
LEMMA SlotStep ==
  ASSUME CniInv, [Next]_vars, UNCHANGED <<podVars, gw, pep, cpep>>,
         box' \in [Slots -> Boxes], NEW s \in Slots,
         \A r \in Slots \ {s} : box'[r] = box[r],
         box'[s].uid = box[s].uid, PlacedAt(box'[s]),
         ~Happened("kill")' => TrackedAt(box'[s]),
         Acting(s)' => Acting(s),
         Orderly => /\ box'[s].pc \in {"config", "up"} => pep = [owner |-> pod, key |-> s]
                    /\ box'[s].pc = "plain" => pod \notin Wants
  PROVE  CniInv'
PROOF
  <1>1. /\ left' \in [Events -> Nat] /\ \A e \in Events : left'[e] <= Budget[e]
        /\ Orderly' => Orderly
        /\ ~Happened("kill")' => ~Happened("kill")
    BY StepSpends DEF CniInv
  <1>2. Typed'
    BY <1>1 DEF CniInv, Typed, podVars
  <1>3. Placed'
    BY DEF CniInv, Placed
  <1>4. Tracked'
    BY <1>1 DEF CniInv, Tracked
  <1>5. \A r \in Slots : Acting(r)' => Acting(r) /\ box'[r].uid = box[r].uid
    BY DEF Acting, Live
  <1>6. Owned'
    <2>1. SUFFICES ASSUME Orderly'
                   PROVE  Owned'
      BY DEF Owned
    <2>2. Orderly
      BY <1>1, <2>1
    <2> QED
      BY <1>5, <2>2 DEF CniInv, Owned, podVars
  <1> QED
    BY <1>2, <1>3, <1>4, <1>6 DEF CniInv

(* ADD up to NicAdd, and what follows it.                                  *)
LEMMA AddSteps ==
  ASSUME CniInv, [Next]_vars, NEW s \in Slots,
         \/ PodRetrieve(s) \/ LinkAdd(s) \/ LinkMove(s) \/ WithIP(s) \/ Configure(s)
         \/ AddFails(s) \/ AddKilled(s)
  PROVE  CniInv'
PROOF
  <1>1. /\ Typed /\ box[s] \in Boxes /\ PlacedAt(box[s])
        /\ ~Happened("kill") => TrackedAt(box[s])
        /\ Orderly => cpod = pod
        /\ Orderly /\ box[s].pc = "config" => pep = [owner |-> pod, key |-> s]
    BY DEF CniInv, Typed, Placed, Tracked, Owned
  <1>2. ~Happened("kill")' => ~Happened("kill")
    BY <1>1, StepSpends
  <1>3. box[s].pc \in Adding
    BY DEF Adding, PodRetrieve, LinkAdd, LinkMove, WithIP, Configure, AddFails, AddKilled
  <1>4. UNCHANGED <<podVars, gw, pep, cpep>>
    BY DEF PodRetrieve, LinkAdd, LinkMove, WithIP, Configure, AddFails, AddKilled
  <1>5. box[s].ns /\ Acting(s)
    BY <1>1, <1>3 DEF PlacedAt, Adding, Acting, Live
  <1>6. CASE Recover(s)
    <2>1. /\ box' \in [Slots -> Boxes] /\ \A r \in Slots \ {s} : box'[r] = box[r]
          /\ box'[s].pc = "failed" /\ box'[s].uid = box[s].uid
          /\ box'[s].link = "none" /\ box'[s].ns = box[s].ns
      BY <1>1, <1>6, Links DEF Recover, Pcs
    <2>2. PlacedAt(box'[s]) /\ TrackedAt(box'[s])
      BY <1>5, <2>1 DEF PlacedAt, TrackedAt
    <2> QED
      BY <1>4, <1>5, <2>1, <2>2, SlotStep
  <1>7. ASSUME NEW l \in {"plain", "nic", "add", "up", "failed"}, GoTo(s, l),
               l = "plain" => cpod \notin Wants,
               l = "nic" => box[s].pc = "retrieve", l = "plain" => box[s].pc = "retrieve",
               l = "add" => box[s].pc = "ip", l = "up" => box[s].pc = "config",
               l = "failed" => Happened("kill")'
        PROVE  CniInv'
    <2>1. /\ box' \in [Slots -> Boxes] /\ \A r \in Slots \ {s} : box'[r] = box[r]
          /\ box'[s].pc = l /\ box'[s].uid = box[s].uid
          /\ box'[s].link = box[s].link /\ box'[s].ns = box[s].ns
      BY <1>1, <1>7, Goes DEF Pcs, Adding
    <2>2. PlacedAt(box'[s])
      BY <1>1, <1>5, <2>1 DEF PlacedAt
    <2>3. ~Happened("kill")' => TrackedAt(box'[s])
      BY <1>1, <1>2, <1>7, <2>1 DEF TrackedAt
    <2>4. Orderly => /\ box'[s].pc \in {"config", "up"} => pep = [owner |-> pod, key |-> s]
                     /\ box'[s].pc = "plain" => pod \notin Wants
      BY <1>1, <1>7, <2>1
    <2> QED
      BY <1>4, <1>5, <2>1, <2>2, <2>3, <2>4, SlotStep
  <1>8. ASSUME NEW l \in {"move", "ip"}, NEW k \in {"host", "pod"}, l = "move" <=> k = "host",
               box' = [box EXCEPT ![s].pc = l, ![s].link = k]
        PROVE  CniInv'
    <2>1. /\ box' \in [Slots -> Boxes] /\ \A r \in Slots \ {s} : box'[r] = box[r]
          /\ box'[s].pc = l /\ box'[s].uid = box[s].uid
          /\ box'[s].link = k /\ box'[s].ns = box[s].ns
      BY <1>1, <1>8, Links DEF Pcs, Adding
    <2>2. PlacedAt(box'[s]) /\ TrackedAt(box'[s])
      BY <1>5, <1>8, <2>1 DEF PlacedAt, TrackedAt
    <2> QED
      BY <1>4, <1>5, <2>1, <2>2, SlotStep
  <1>9. ASSUME AddKilled(s)
        PROVE  Happened("kill")'
    <2>1. {"kill"} \in SUBSET (Events \ {"any"}) /\ IsFiniteSet({"kill"})
      BY FS_Singleton DEF Events
    <2> QED
      BY <1>1, <1>9, <2>1, Spending DEF AddKilled
  <1> QED
    BY <1>6, <1>7, <1>8, <1>9
       DEF PodRetrieve, LinkAdd, LinkMove, WithIP, Configure, AddFails, AddKilled

(* DEL before its call of the manager, and the kubelet's part.             *)
LEMMA DelSteps ==
  ASSUME CniInv, [Next]_vars, NEW s \in Slots,
         DelLink(s) \/ StopSandbox(s) \/ RemoveNs(s) \/ DelAgain(s)
  PROVE  CniInv'
PROOF
  <1>1. /\ Typed /\ box[s] \in Boxes /\ PlacedAt(box[s])
        /\ ~Happened("kill") => TrackedAt(box[s])
    BY DEF CniInv, Typed, Placed, Tracked
  <1>2. ~Happened("kill")' => ~Happened("kill")
    BY <1>1, StepSpends
  <1>3. UNCHANGED <<podVars, gw, pep, cpep>>
    BY DEF DelLink, StopSandbox, RemoveNs, DelAgain
  <1>4. CASE DelLink(s)
    <2>1. CASE ~box[s].ns /\ GoTo(s, "gone")
      <3>1. /\ box' \in [Slots -> Boxes] /\ \A r \in Slots \ {s} : box'[r] = box[r]
            /\ box'[s].pc = "gone" /\ box'[s].uid = box[s].uid
            /\ box'[s].link = box[s].link /\ box'[s].ns = box[s].ns
        BY <1>1, <2>1, Goes DEF Pcs
      <3>2. PlacedAt(box'[s])
        BY <1>1, <2>1, <3>1 DEF PlacedAt
      <3>3. ~Happened("kill") => TrackedAt(box'[s])
        BY <1>1, <1>4, <2>1, <3>1 DEF TrackedAt, PlacedAt, DelLink
      <3>4. ~Acting(s)'
        BY <3>1 DEF Acting, Live
      <3> QED
        BY <1>2, <1>3, <3>1, <3>2, <3>3, <3>4, SlotStep
    <2>2. ASSUME box[s].ns,
                 box' = [box EXCEPT ![s].pc = "nicdel", ![s].link = IF @ = "pod" THEN "none" ELSE @]
          PROVE  CniInv'
      <3>1. PICK k \in {"none", "host"} :
              /\ k = IF box[s].link = "pod" THEN "none" ELSE box[s].link
              /\ box' = [box EXCEPT ![s].pc = "nicdel", ![s].link = k]
        BY <1>1, <2>2 DEF Boxes, Typed
      <3>2. /\ box' \in [Slots -> Boxes] /\ \A r \in Slots \ {s} : box'[r] = box[r]
            /\ box'[s].pc = "nicdel" /\ box'[s].uid = box[s].uid
            /\ box'[s].link = k /\ box'[s].ns = box[s].ns
        BY <1>1, <3>1, Links DEF Pcs
      <3>3. PlacedAt(box'[s])
        BY <2>2, <3>2 DEF PlacedAt
      <3>4. ~Happened("kill") => TrackedAt(box'[s])
        BY <1>1, <1>4, <3>1, <3>2 DEF TrackedAt, DelLink
      <3>5. Acting(s)
        BY <1>4, <2>2 DEF Acting, Live, DelLink
      <3> QED
        BY <1>2, <1>3, <3>2, <3>3, <3>4, <3>5, SlotStep
    <2> QED
      BY <1>4, <2>1, <2>2 DEF DelLink
  <1>5. CASE StopSandbox(s) \/ DelAgain(s)
    <2>1. GoTo(s, "del") /\ box[s].pc \in {"failed", "up", "plain", "deleted", "gone"}
      BY <1>5 DEF StopSandbox, DelAgain
    <2>2. /\ box' \in [Slots -> Boxes] /\ \A r \in Slots \ {s} : box'[r] = box[r]
          /\ box'[s].pc = "del" /\ box'[s].uid = box[s].uid
          /\ box'[s].link = box[s].link /\ box'[s].ns = box[s].ns
      BY <1>1, <2>1, Goes DEF Pcs
    <2>3. PlacedAt(box'[s])
      BY <1>1, <2>1, <2>2 DEF PlacedAt
    <2>4. ~Happened("kill") => TrackedAt(box'[s])
      BY <1>1, <2>1, <2>2 DEF TrackedAt
    <2>5. Acting(s)' => Acting(s)
      BY <1>1, <2>1, <2>2 DEF Acting, Live, PlacedAt
    <2> QED
      BY <1>2, <1>3, <2>2, <2>3, <2>4, <2>5, SlotStep
  <1>6. CASE RemoveNs(s)
    <2>1. /\ box' \in [Slots -> Boxes] /\ \A r \in Slots \ {s} : box'[r] = box[r]
          /\ box'[s].pc = "gone" /\ box'[s].uid = box[s].uid
          /\ box'[s].link = box[s].link /\ box'[s].ns = FALSE
      BY <1>1, <1>6 DEF RemoveNs, Boxes, Pcs, Typed
    <2>2. PlacedAt(box'[s])
      BY <1>1, <1>6, <2>1 DEF PlacedAt, RemoveNs
    <2>3. ~Happened("kill") => TrackedAt(box'[s])
      BY <1>1, <1>6, <2>1 DEF TrackedAt, RemoveNs
    <2>4. ~Acting(s)'
      BY <2>1 DEF Acting, Live
    <2> QED
      BY <1>2, <1>3, <2>1, <2>2, <2>3, <2>4, SlotStep
  <1> QED
    BY <1>4, <1>5, <1>6

(* NicAdd and NicDel: the sandbox they are called for is the only one that *)
(* could have a PodEndpoint, so that no other loses it.                    *)
LEMMA ManagerSteps ==
  ASSUME CniInv, [Next]_vars, NEW s \in Slots, NicAdd(s) \/ DelEndpoint(s)
  PROVE  CniInv'
PROOF
  <1>1. /\ Typed /\ box[s] \in Boxes /\ PlacedAt(box[s])
        /\ ~Happened("kill") => TrackedAt(box[s])
    BY DEF CniInv, Typed, Placed, Tracked
  <1>2. /\ left' \in [Events -> Nat] /\ \A e \in Events : left'[e] <= Budget[e]
        /\ Orderly' => Orderly
        /\ ~Happened("kill")' => ~Happened("kill")
    BY <1>1, StepSpends
  <1>3. box[s].pc \in {"add", "nicdel"} /\ box[s].ns /\ Acting(s)
    BY <1>1 DEF NicAdd, DelEndpoint, PlacedAt, Acting, Live
  <1>4. UNCHANGED <<podVars, gw>>
    BY DEF NicAdd, DelEndpoint
  <1>5. CASE Recover(s) /\ UNCHANGED <<pep, cpep>>
    <2>1. /\ box' \in [Slots -> Boxes] /\ \A r \in Slots \ {s} : box'[r] = box[r]
          /\ box'[s].pc = "failed" /\ box'[s].uid = box[s].uid
          /\ box'[s].link = "none" /\ box'[s].ns = box[s].ns
      BY <1>1, <1>5, Links DEF Recover, Pcs
    <2>2. PlacedAt(box'[s]) /\ TrackedAt(box'[s])
      BY <1>3, <2>1 DEF PlacedAt, TrackedAt
    <2> QED
      BY <1>3, <1>4, <1>5, <2>1, <2>2, SlotStep
  <1>6. CASE box[s].pc = "nicdel" /\ GoTo(s, "deleted") /\ UNCHANGED <<pep, cpep>>
    <2>1. /\ box' \in [Slots -> Boxes] /\ \A r \in Slots \ {s} : box'[r] = box[r]
          /\ box'[s].pc = "deleted" /\ box'[s].uid = box[s].uid
          /\ box'[s].link = box[s].link /\ box'[s].ns = box[s].ns
      BY <1>1, <1>6, Goes DEF Pcs
    <2>2. PlacedAt(box'[s]) /\ (~Happened("kill") => TrackedAt(box'[s]))
      BY <1>1, <1>3, <1>6, <2>1 DEF PlacedAt, TrackedAt
    <2> QED
      BY <1>2, <1>3, <1>4, <1>6, <2>1, <2>2, SlotStep
  <1>7. ASSUME NEW l \in {"config", "deleted"}, GoTo(s, l),
               NEW p \in [owner : Uids, key : Slots \cup {0}], WritePep(p),
               l = "config" => p = [owner |-> cpod, key |-> s] /\ box[s].pc = "add",
               l = "deleted" => box[s].pc = "nicdel"
        PROVE  CniInv'
    <2>1. /\ box' \in [Slots -> Boxes] /\ \A r \in Slots \ {s} : box'[r] = box[r]
          /\ box'[s].pc = l /\ box'[s].uid = box[s].uid
          /\ box'[s].link = box[s].link /\ box'[s].ns = box[s].ns
      BY <1>1, <1>7, Goes DEF Pcs, Adding
    <2>2. pep' = p /\ cpep' \in [there : BOOLEAN, latest : BOOLEAN]
      BY <1>1, <1>7, Writes
    <2>3. Typed'
      BY <1>1, <1>2, <1>4, <2>1, <2>2 DEF Typed, podVars
    <2>4. Placed'
      BY <1>1, <1>3, <1>7, <2>1 DEF CniInv, Placed, PlacedAt
    <2>5. Tracked'
      BY <1>1, <1>2, <1>7, <2>1 DEF CniInv, Tracked, TrackedAt
    <2>6. ASSUME Orderly'
          PROVE  Owned'
      <3>1. Orderly /\ cpod = pod /\ pod' = pod /\ cpod' = cpod
        BY <1>2, <1>4, <2>6 DEF CniInv, Owned, podVars
      <3>2. \A r \in Slots : Acting(r) => r = s
        BY <1>3, <3>1 DEF CniInv, Owned
      <3>3. \A r \in Slots \ {s} : box'[r].pc \notin {"config", "up", "plain"} /\ ~Acting(r)'
        BY <2>1, <3>2 DEF Acting, Live
      <3>4. box'[s].uid = pod /\ pod # 0
        BY <1>3, <2>1, <3>1 DEF CniInv, Owned
      <3>5. l = "config" => pep' = [owner |-> pod, key |-> s]
        BY <1>7, <2>2, <3>1
      <3> QED
        BY <1>7, <2>1, <3>1, <3>3, <3>4, <3>5 DEF Owned
    <2>7. Owned'
      BY <2>6 DEF Owned
    <2> QED
      BY <2>3, <2>4, <2>5, <2>7 DEF CniInv
  <1>8. /\ NoPep \in [owner : Uids, key : Slots \cup {0}]
        /\ [owner |-> cpod, key |-> s] \in [owner : Uids, key : Slots \cup {0}]
    BY <1>1, CniConstants DEF NoPep, Uids, Typed
  <1> QED
    BY <1>5, <1>6, <1>7, <1>8 DEF NicAdd, DelEndpoint, NicDel

(* A new sandbox finds no other that acts, and after a restart none does.  *)
LEMMA SandboxSteps ==
  ASSUME CniInv, [Next]_vars, (\E s \in Slots : RunSandbox(s)) \/ Reboot
  PROVE  CniInv'
PROOF
  <1>1. Typed
    BY DEF CniInv
  <1>2. /\ left' \in [Events -> Nat] /\ \A e \in Events : left'[e] <= Budget[e]
        /\ Orderly' => Orderly
        /\ ~Happened("kill")' => ~Happened("kill")
    BY <1>1, StepSpends
  <1>3. ASSUME NEW s \in Slots, RunSandbox(s)
        PROVE  CniInv'
    <2>1. /\ box' \in [Slots -> Boxes] /\ \A r \in Slots \ {s} : box'[r] = box[r]
          /\ box'[s] = [pc |-> "retrieve", uid |-> pod, link |-> "none", ns |-> TRUE]
      BY <1>1, <1>3 DEF RunSandbox, Typed, Boxes, Pcs, Adding
    <2>2. pep' \in [owner : Uids, key : Slots \cup {0}] /\ UNCHANGED <<podVars, gw, cpep>> /\ pod # 0
      BY <1>1, <1>3 DEF RunSandbox, Typed
    <2>3. Typed'
      BY <1>1, <1>2, <2>1, <2>2 DEF Typed, podVars
    <2>4. Placed'
      BY <2>1 DEF CniInv, Placed, PlacedAt
    <2>5. Tracked'
      BY <1>2, <2>1 DEF CniInv, Tracked, TrackedAt
    <2>6. ASSUME Orderly'
          PROVE  Owned'
      <3>1. \A r \in Slots : ~Acting(r)
        BY <1>2, <1>3, <2>6 DEF CniInv, Owned, Acting, RunSandbox
      <3>2. \A r \in Slots \ {s} : box'[r].pc \notin {"config", "up", "plain"} /\ ~Acting(r)'
        BY <2>1, <3>1 DEF Acting, Live
      <3> QED
        BY <1>2, <2>1, <2>2, <2>6, <3>2 DEF CniInv, Owned, podVars
    <2>7. Owned'
      BY <2>6 DEF Owned
    <2> QED
      BY <2>3, <2>4, <2>5, <2>7 DEF CniInv
  <1>4. CASE Reboot
    <2>1. /\ UNCHANGED <<podVars, gw, pep, cpep>>
          /\ box' = [r \in Slots |-> IF Live(r) THEN [box[r] EXCEPT !.pc = "del", !.link = "none", !.ns = FALSE]
                                   ELSE [box[r] EXCEPT !.link = "none"]]
      BY <1>4 DEF Reboot
    <2>2. \A b \in Boxes : /\ [b EXCEPT !.pc = "del", !.link = "none", !.ns = FALSE] \in Boxes
                          /\ [b EXCEPT !.link = "none"] \in Boxes
      BY DEF Boxes, Pcs
    <2>3. \A r \in Slots : box[r] \in Boxes
      BY <1>1 DEF Typed
    <2>4. box' \in [Slots -> Boxes]
      BY <2>1, <2>2, <2>3
    <2>5. ASSUME NEW r \in Slots
          PROVE  /\ box'[r].link = "none"
                 /\ Live(r) => box'[r].pc = "del" /\ ~box'[r].ns
                 /\ ~Live(r) => box'[r].pc = box[r].pc /\ box'[r].ns = box[r].ns
      BY <2>1, <2>3 DEF Boxes
    <2>6. Typed'
      BY <1>1, <1>2, <2>1, <2>4 DEF Typed, podVars
    <2>7. Placed' /\ Tracked'
      BY <2>5 DEF CniInv, Placed, PlacedAt, Tracked, TrackedAt, Live
    <2>8. \A r \in Slots : ~Acting(r)' /\ box'[r].pc \notin {"config", "up", "plain"}
      BY <2>5 DEF Acting, Live
    <2>9. Owned'
      BY <1>2, <2>1, <2>8 DEF CniInv, Owned, podVars
    <2> QED
      BY <2>6, <2>7, <2>9 DEF CniInv
  <1> QED
    BY <1>3, <1>4

(* The cluster's steps leave the sandboxes alone.  A pod comes and goes    *)
(* only when none acts, or by force, and the garbage collector takes only  *)
(* the PodEndpoint of another pod.                                         *)
LEMMA ClusterSteps ==
  ASSUME CniInv, [Next]_vars,
         \/ CreatePod \/ DeletePod \/ RemovePod \/ ForceDelete \/ Collect
         \/ Ready \/ Unready \/ SyncPod \/ SyncPep
  PROVE  CniInv'
PROOF
  <1>1. Typed
    BY DEF CniInv
  <1>2. /\ left' \in [Events -> Nat] /\ \A e \in Events : left'[e] <= Budget[e]
        /\ Orderly' => Orderly
        /\ ~Happened("kill")' => ~Happened("kill")
    BY <1>1, StepSpends
  <1>3. UNCHANGED box
    BY DEF CreatePod, DeletePod, RemovePod, ForceDelete, Collect, Ready, Unready, SyncPod, SyncPep
  <1>4. Placed' /\ Tracked'
    BY <1>2, <1>3 DEF CniInv, Placed, Tracked
  <1>5. \A r \in Slots : Acting(r)' <=> Acting(r)
    BY <1>3 DEF Acting, Live
  <1>6. ASSUME NEW u, NEW E, SetPod(u, E), E = {} \/ E = {"force"}
        PROVE  pod' = u /\ (Orderly' => cpod' = u /\ E = {})
    <2>1. CASE Spend(E \cup {"lag"})
      <3>1. /\ "lag" \in E \cup {"lag"} /\ "lag" \in Events /\ "lag" # "any"
            /\ E \cup {"lag"} \in SUBSET (Events \ {"any"})
        BY <1>6 DEF Events
      <3>2. IsFiniteSet(E \cup {"lag"})
        BY <1>6, FS_EmptySet, FS_Singleton, FS_AddElement
      <3>3. Happened("lag")'
        BY <1>1, <2>1, <3>1, <3>2, Spending
      <3> QED
        BY <1>6, <3>3 DEF Orderly, SetPod
    <2>2. CASE cpod' = u /\ Spend(E)
      <3>1. E = {"force"} => Happened("force")'
        <4>1. {"force"} \in SUBSET (Events \ {"any"}) /\ IsFiniteSet({"force"})
          BY FS_Singleton DEF Events
        <4> QED
          BY <1>1, <2>2, <4>1, Spending
      <3> QED
        BY <1>6, <2>2, <3>1 DEF Orderly, SetPod
    <2> QED
      BY <1>6, <2>1, <2>2 DEF SetPod
  <1>7. ASSUME CreatePod \/ RemovePod \/ ForceDelete
        PROVE  CniInv'
    <2>1. /\ UNCHANGED <<gw, pep, cpep>> /\ made' \in Uids /\ pod' \in Uids
          /\ cpod' \in Uids /\ ending' \in BOOLEAN
      <3>1. made \in Nat /\ made <= MaxUid /\ MaxUid \in Nat
        BY <1>1, CniConstants DEF Typed, Uids
      <3>2. 0 \in Uids /\ (made < MaxUid => made + 1 \in Uids)
        BY <3>1 DEF Uids
      <3> QED
        BY <1>1, <1>7, <3>2 DEF CreatePod, RemovePod, ForceDelete, SetPod, Typed
    <2>2. Typed'
      BY <1>1, <1>2, <1>3, <2>1 DEF Typed
    <2>3. ASSUME Orderly'
          PROVE  Owned'
      <3>1. Orderly
        BY <1>2, <2>3
      <3>2. ~ForceDelete /\ cpod' = pod'
        <4>1. ~ForceDelete
          BY <1>6, <2>3 DEF ForceDelete
        <4>2. CreatePod \/ RemovePod
          BY <1>7, <4>1
        <4>3. \E u \in {0, made + 1} : SetPod(u, {})
          BY <4>2 DEF CreatePod, RemovePod
        <4>4. PICK u \in {0, made + 1} : SetPod(u, {})
          BY <4>3
        <4>5. pod' = u /\ cpod' = u
          BY <1>6, <2>3, <4>4
        <4> QED
          BY <4>1, <4>5
      <3>3. \A r \in Slots : ~Acting(r)
        BY <1>7, <3>1, <3>2 DEF CreatePod, RemovePod, CniInv, Owned, Acting
      <3>4. \A r \in Slots : box'[r].pc \notin {"config", "up", "plain"}
        BY <1>3, <3>3 DEF Acting, Live
      <3> QED
        BY <1>5, <3>2, <3>3, <3>4 DEF Owned
    <2> QED
      BY <1>4, <2>2, <2>3 DEF CniInv, Owned
  <1>8. ASSUME DeletePod \/ Ready \/ Unready \/ SyncPod \/ SyncPep
        PROVE  CniInv'
    <2>1. /\ UNCHANGED <<pod, made, pep>> /\ cpod' \in {cpod, pod}
          /\ ending' \in {ending, TRUE} /\ gw' \in {gw, TRUE, FALSE}
          /\ cpep' \in {cpep, [there |-> pep # NoPep, latest |-> TRUE]}
      BY <1>8 DEF DeletePod, Ready, Unready, SyncPod, SyncPep, podVars
    <2>2. [there |-> pep # NoPep, latest |-> TRUE] \in [there : BOOLEAN, latest : BOOLEAN]
      OBVIOUS
    <2>3. ending' \in BOOLEAN /\ gw' \in BOOLEAN
      BY <1>1, <2>1, Zenon DEF Typed
    <2>4. Typed'
      BY <1>1, <1>2, <1>3, <2>1, <2>2, <2>3 DEF Typed
    <2>5. Owned'
      BY <1>2, <1>3, <1>5, <2>1 DEF CniInv, Owned
    <2> QED
      BY <1>4, <2>4, <2>5 DEF CniInv
  <1>9. CASE Collect
    <2>1. NoPep \in [owner : Uids, key : Slots \cup {0}]
      BY CniConstants DEF NoPep, Uids
    <2>2. /\ pep' = NoPep /\ cpep' \in [there : BOOLEAN, latest : BOOLEAN]
          /\ UNCHANGED <<podVars, gw, left>> /\ pep.owner # pod
      BY <1>1, <1>9, <2>1, Writes DEF Collect
    <2>3. Typed'
      BY <1>1, <1>3, <2>1, <2>2 DEF Typed, podVars
    <2>4. Owned'
      BY <1>2, <1>3, <1>5, <2>2 DEF CniInv, Owned, podVars
    <2> QED
      BY <1>4, <2>3, <2>4 DEF CniInv
  <1> QED
    BY <1>7, <1>8, <1>9

-----------------------------------------------------------------------------
(* CniInv is an inductive invariant of the plugin and the cluster.         *)
THEOREM CniInvariance == Spec => []CniInv
PROOF
  <1>1. Init => CniInv
    <2>1. SUFFICES ASSUME Init
                   PROVE  CniInv
      OBVIOUS
    <2>2. Typed
      <3>1. \A e \in Events : Budget[e] \in Nat /\ Budget[e] <= Budget[e]
        BY CniConstants
      <3>2. Free \in Boxes /\ NoPep \in [owner : Uids, key : Slots \cup {0}] /\ 0 \in Uids
        BY CniConstants DEF Free, Boxes, Pcs, Uids, NoPep
      <3> QED
        BY <2>1, <3>1, <3>2, CniConstants DEF Init, Typed
    <2>3. \A s \in Slots : box[s] = Free
      BY <2>1 DEF Init
    <2>4. Placed /\ Tracked
      BY <2>3 DEF Placed, PlacedAt, Tracked, TrackedAt, Free
    <2>5. Owned
      BY <2>1, <2>3 DEF Init, Owned, Acting, Live, Free
    <2> QED
      BY <2>2, <2>4, <2>5 DEF CniInv
  <1>2. CniInv /\ [Next]_vars => CniInv'
    <2>1. SUFFICES ASSUME CniInv, [Next]_vars
                   PROVE  CniInv'
      OBVIOUS
    <2>2. CASE UNCHANGED vars
      BY <2>1, <2>2 DEF vars, CniInv, Typed, Placed, PlacedAt, Tracked, TrackedAt, Owned, Orderly,
         Happened, Acting, Live
    <2>3. CASE Next
      BY <2>1, <2>3, AddSteps, DelSteps, ManagerSteps, SandboxSteps, ClusterSteps
         DEF Next, Plugin, cmdAdd, cmdDel, Kubelet, Faults, Cluster
    <2> QED
      BY <2>1, <2>2, <2>3
  <1> QED
    BY <1>1, <1>2, PTL DEF Spec

(* The state keeps its types, and a link that was moved has its namespace. *)
THEOREM CniTypes == Spec => []CniTypeOK
PROOF
  <1>1. CniInv => CniTypeOK
    BY CniConstants DEF CniInv, Typed, Placed, PlacedAt, CniTypeOK, Boxes, Pcs
  <1> QED
    BY <1>1, CniInvariance, PTL

(* A failed ADD, and a sandbox that has gone, leave no link behind unless  *)
(* a plugin was killed (WithWireGuardNic's recovery, cmdDel).              *)
THEOREM LinksAreRecovered == Spec => []LinksRecovered
PROOF
  <1>1. CniInv => LinksRecovered
    BY DEF CniInv, Typed, Boxes, Tracked, TrackedAt, LinksRecovered
  <1> QED
    BY <1>1, CniInvariance, PTL

(* A connected pod's PodEndpoint is its own, with its device's key, in     *)
(* every interleaving of ADDs, DELs, restarts and collections in which no  *)
(* pod is deleted by force and the manager's pod is the latest.            *)
THEOREM EndpointsMatch == Spec => []EndpointMatches
PROOF
  <1>1. CniInv => EndpointMatches
    BY DEF CniInv, Owned, EndpointMatches, EndpointKept
  <1> QED
    BY <1>1, CniInvariance, PTL
=============================================================================
