------------------------------- MODULE CniConf -------------------------------
(***************************************************************************)
(* The CNI manager of a node.  Its configuration manager derives the       *)
(* node's CNI configuration file from the main CNI's, follows its changes  *)
(* and removes the file on an uninstall; its node handler takes the        *)
(* not-ready taint from the node once the file is there.                   *)
(*                                                                         *)
(* A file of another CNI is a number, its place in the directory's sorted  *)
(* order; its content is the sequence of its plugins' types.               *)
(***************************************************************************)
EXTENDS Integers, SequencesExt

CONSTANTS
  Files,     \* the files other CNIs may write
  Lists,     \* the ones that are .conflist files
  Contents,  \* what may be written into those
  Main,      \* the plugin written into the others
  Flags,     \* values of the flag in the uninstall configMap
  MaxNodeq,  \* node events that may wait when the node is written again
  Budget     \* how often each event of the environment may happen

Own    == "kube-egress-cni"
(* any: all of them together                                               *)
Events == {"write", "flag", "fault", "crash", "stop", "reimage", "any"}

ASSUME ConfFiles   == Files \subseteq Nat /\ Lists \subseteq Files
ASSUME ConfBudget  == Budget \in [Events -> Nat] /\ MaxNodeq \in Nat \ {0}
ASSUME ConfPlugins == /\ Main # Own
                      /\ \A c \in Contents : c # <<>> /\ Cardinality({i \in DOMAIN c : c[i] = Own}) <= 1

VARIABLES
  dir,    \* per file: its content, Absent, or Partial while it is written
  conf,   \* the manager's own file
  tmp,    \* what is in its temporary file
  events, \* number of changes of other files that wait in the watcher
  pc,     \* where the manager is
  flag,   \* the flag in the uninstall configMap, "none" without a configMap
  seen,   \* the cache's copy of it
  taint,  \* the node has the taint
  nodeq,  \* node objects that wait for the handler
  hand,   \* the node objects it is about to write (at most one)
  left    \* what remains of Budget

node == <<taint, nodeq, hand>>
vars == <<dir, conf, tmp, events, pc, flag, seen, taint, nodeq, hand, left>>

Absent  == <<"absent">>
Partial == <<"partial">>

Spend(e) ==
  /\ left[e] > 0 /\ left["any"] > 0
  /\ left' = [left EXCEPT ![e] = @ - 1, !["any"] = @ - 1]

Happened(e) == left[e] < Budget[e]

Init ==
  /\ dir = [f \in Files |-> Absent] /\ conf = Absent /\ tmp = Absent
  /\ events = 0 /\ pc = "down"
  /\ flag \in Flags /\ seen = flag
  /\ taint = TRUE /\ nodeq = <<>> /\ hand = {}
  /\ left = Budget

-----------------------------------------------------------------------------
Present == {f \in Files : dir[f] # Absent}

findMasterPlugin == CHOOSE f \in Present : \A g \in Present : f <= g

managePluginFromConf(c) == <<c[1], Own>>

(* Faulty variant: an entry of our own that is there already stays.        *)
managePluginFromConfList_Again(c) == InsertAt(c, 2, Own)

(* Our own entry is taken out and put in second place; with no other entry *)
(* the slice expression plugins[1:] is out of range.                       *)
Others(c) == SelectSeq(c, LAMBDA t : t # Own)
managePluginFromConfList(c) == InsertAt(Others(c), 2, Own)

Read    == dir[findMasterPlugin]
Derived == IF findMasterPlugin \in Lists THEN managePluginFromConfList(Read)
           ELSE managePluginFromConf(Read)
Panics  == findMasterPlugin \in Lists /\ Others(Read) = <<>>

Exit == pc' = "down" /\ events' = 0 /\ nodeq' = <<>> /\ hand' = {}
GoTo(l) == pc' = l /\ UNCHANGED <<events, nodeq, hand>>

(* insertCNIPluginConf until the temporary file is written.  Without any   *)
(* main CNI the caller goes on; failing is what it does on another error.  *)
(* A fault is a failure of the write, or of the rename that follows it.    *)
insertCNIPluginConf(failing) ==
  /\ UNCHANGED <<dir, conf, flag, seen, taint>>
  /\ \/ Present = {} /\ GoTo("watch") /\ UNCHANGED <<tmp, left>>
     \/ Present # {} /\ Read = Partial /\ failing /\ UNCHANGED <<tmp, left>>
     \/ Present # {} /\ Read # Partial /\ Panics /\ Exit /\ UNCHANGED <<tmp, left>>
     \/ /\ Present # {} /\ Read # Partial /\ ~Panics
        /\ \/ tmp' = Derived /\ GoTo("rename") /\ UNCHANGED left
           \/ Spend("fault") /\ tmp' = Partial /\ failing

(* newWatcher comes before the first derivation; startKubeCluster hands    *)
(* the node to the handler.                                                *)
Launch ==
  /\ pc = "down" /\ pc' = "start"
  /\ seen' = flag /\ nodeq' = <<[taint |-> taint, fresh |-> TRUE]>>
  /\ UNCHANGED <<dir, conf, tmp, events, flag, taint, hand, left>>

(* Start: an error ends the process.                                       *)
Start == pc = "start" /\ insertCNIPluginConf(Exit)

(* Faulty variant: an existing file is not derived again.                  *)
TakeEvent_Once ==
  /\ pc = "watch" /\ events > 0 /\ events' = events - 1
  /\ pc' = IF conf = Absent THEN "insert" ELSE "watch"
  /\ UNCHANGED <<dir, conf, tmp, flag, seen, node, left>>

TakeEvent ==
  /\ pc = "watch" /\ events > 0 /\ events' = events - 1 /\ pc' = "insert"
  /\ UNCHANGED <<dir, conf, tmp, flag, seen, node, left>>

(* On an event an error is only logged.                                    *)
Regenerate == pc = "insert" /\ insertCNIPluginConf(GoTo("watch"))

Rename ==
  /\ pc = "rename" /\ GoTo("watch")
  /\ conf' = tmp /\ tmp' = Absent
  /\ UNCHANGED <<dir, flag, seen, taint, left>>

(* The process is told to stop.                                            *)
Done ==
  /\ pc = "watch" /\ Spend("stop") /\ GoTo("remove")
  /\ UNCHANGED <<dir, conf, tmp, flag, seen, taint>>

removeCNIPluginConf ==
  /\ pc = "remove" /\ Exit
  /\ conf' = IF seen \in {"none", "false"} THEN conf ELSE Absent
  /\ UNCHANGED <<dir, tmp, flag, seen, taint, left>>

-----------------------------------------------------------------------------
IsReady == conf # Absent

(* Faulty variant: the file is not looked for.                             *)
NodeEvent_Blind ==
  /\ pc # "down" /\ hand = {} /\ nodeq # <<>>
  /\ nodeq' = Tail(nodeq)
  /\ hand' = IF Head(nodeq).taint THEN {Head(nodeq)} ELSE {}
  /\ UNCHANGED <<dir, conf, tmp, events, pc, flag, seen, taint, left>>

(* removeNodeTaintIfNeeded up to the update.                               *)
NodeEvent ==
  /\ pc # "down" /\ hand = {} /\ nodeq # <<>>
  /\ nodeq' = Tail(nodeq)
  /\ hand' = IF Head(nodeq).taint /\ IsReady THEN {Head(nodeq)} ELSE {}
  /\ UNCHANGED <<dir, conf, tmp, events, pc, flag, seen, taint, left>>

Stale(o) == [o EXCEPT !.fresh = FALSE]

(* Faulty variant: only the add event has a handler.                       *)
WriteNode_Silent(t) ==
  /\ taint' = t /\ nodeq' = [i \in DOMAIN nodeq |-> Stale(nodeq[i])]

(* A write of the node makes every copy of it stale, and is an event.      *)
WriteNode(t) ==
  /\ taint' = t
  /\ nodeq' = IF pc = "down" THEN nodeq
              ELSE Append([i \in DOMAIN nodeq |-> Stale(nodeq[i])], [taint |-> t, fresh |-> TRUE])

(* The update; a stale copy is a conflict, however often it is sent again. *)
NodeUpdate ==
  /\ hand # {} /\ hand' = {}
  /\ \/ \E o \in hand : o.fresh /\ WriteNode(FALSE)
     \/ (\A o \in hand : ~o.fresh) /\ UNCHANGED <<taint, nodeq>>
  /\ UNCHANGED <<dir, conf, tmp, events, pc, flag, seen, left>>

-----------------------------------------------------------------------------
(* The main CNI writes one of its files, in two steps, or deletes it; the  *)
(* watcher, if there is one, sees each step.                               *)
Change(f, c) ==
  /\ dir' = [dir EXCEPT ![f] = c] /\ events' = IF pc = "down" THEN 0 ELSE events + 1
  /\ UNCHANGED <<conf, tmp, pc, flag, seen, node>>
BeginWrite == \E f \in Files : dir[f] # Partial /\ Spend("write") /\ Change(f, Partial)
EndWrite ==
  \E f \in Files : /\ dir[f] = Partial
                   /\ \E c \in (IF f \in Lists THEN Contents ELSE {<<Main>>}) : Change(f, c)
                   /\ UNCHANGED left
Delete == \E f \in Present : Spend("write") /\ Change(f, Absent)

SetFlag ==
  /\ Spend("flag") /\ flag' \in Flags \ {flag}
  /\ UNCHANGED <<dir, conf, tmp, events, pc, seen, node>>
SyncFlag ==
  /\ pc \notin {"down", "remove"} /\ seen # flag /\ seen' = flag
  /\ UNCHANGED <<dir, conf, tmp, events, pc, flag, node, left>>

(* The node's other writers, such as the kubelet's heartbeat.              *)
Heartbeat ==
  /\ pc # "down" /\ Len(nodeq) < MaxNodeq /\ WriteNode(taint)
  /\ hand' = {Stale(o) : o \in hand}
  /\ UNCHANGED <<dir, conf, tmp, events, pc, flag, seen, left>>

Crash ==
  /\ pc # "down" /\ Spend("crash") /\ Exit
  /\ UNCHANGED <<dir, conf, tmp, flag, seen, taint>>

(* The node comes up from a new image, without the files, with the taint.  *)
Reimage ==
  /\ Spend("reimage") /\ Exit
  /\ dir' = [f \in Files |-> Absent] /\ conf' = Absent /\ tmp' = Absent /\ taint' = TRUE
  /\ UNCHANGED <<flag, seen>>

Manager == Launch \/ Start \/ TakeEvent \/ Regenerate \/ Rename \/ removeCNIPluginConf
Handler == NodeEvent \/ NodeUpdate
Next == \/ Manager \/ Handler \/ Done
        \/ BeginWrite \/ EndWrite \/ Delete \/ SetFlag \/ SyncFlag \/ Heartbeat
        \/ Crash \/ Reimage

Spec == Init /\ [][Next]_vars

(* The process is restarted and goes on; a write begun is ended; the node  *)
(* is written again and again, and in between the handler catches up.      *)
FairSpec ==
  /\ Spec /\ WF_vars(Manager) /\ WF_vars(Handler) /\ WF_vars(EndWrite)
  /\ WF_vars(Heartbeat) /\ []<>(nodeq = <<>> /\ hand = {})

-----------------------------------------------------------------------------
(* The types of the state: the manager's own file is never a partial one.  *)
ConfTypeOK ==
  /\ \A f \in Files : dir[f] \in {Absent, Partial} \cup Contents \cup {<<Main>>}
  /\ conf # Partial /\ events \in Nat /\ taint \in BOOLEAN
  /\ pc \in {"down", "start", "insert", "rename", "watch", "remove"}
  /\ flag \in Flags /\ seen \in Flags
  /\ Len(nodeq) <= MaxNodeq + 1 /\ Cardinality(hand) <= 1

(* The derived file (insertCNIPluginConf) has our plugin once, in second   *)
(* place, and around it some main CNI's plugins, all of them, in order.    *)
PluginPlaced ==
  conf # Absent =>
    /\ Len(conf) >= 2 /\ conf[2] = Own
    /\ RemoveAt(conf, 2) \in {Others(c) : c \in Contents} \cup {<<Main>>}

(* A node without the taint has our file (removeNodeTaintIfNeeded checks   *)
(* it a while before it writes), so that a pod placed there gets its       *)
(* plugin, until the manager is stopped to be uninstalled.                 *)
UntaintedHasConf == taint \/ conf # Absent \/ ("true" \in Flags /\ Happened("stop"))

MainReady == Present # {} /\ Read # Partial /\ ~Panics

(* Once the main CNI's files rest, the derived file comes to agree with    *)
(* the first of them, whatever was half written when an event was taken,   *)
(* unless a write of its own has failed, which is only logged.             *)
ConfCurrent == <>[](MainReady /\ ~Happened("fault") => conf = Derived)

(* And the node loses the taint, although the derivation itself triggers   *)
(* no node event and conflicting updates are not read again.               *)
TaintGone == <>[](MainReady /\ ~Happened("fault") => ~taint)

(* The file is there once a main CNI is (Start's loop).                    *)
ConfThere == <>[](MainReady => conf # Absent)

(* removeCNIPluginConf's comment: the file is only removed when the        *)
(* uninstall flag is set to true.                                          *)
RemovedWhenTrue == [][pc = "remove" /\ conf # Absent /\ conf' = Absent => seen = "true"]_vars
=============================================================================
