# Verification of kube-egress-gateway

TLA+ modules, TLC runs and TLAPS proofs for kube-egress-gateway, which gives pods of a
Kubernetes cluster on Azure a fixed egress address. A user writes a
`StaticGatewayConfiguration`; controllers provision a rule on an internal load balancer and
addresses on a pool of gateway nodes; a daemon on those nodes and a CNI plugin on the others
connect pods to the gateway by wireguard. `PROJECT.json` maps every definition to its source
lines and lists the runs, mutants, hazards, findings and theorems.

## The system

| part | state | operations | modules |
|---|---|---|---|
| StaticGatewayConfiguration controller (manager) | gateway object, key secret | reconcile, ensureDeleted | `SgcController` |
| GatewayLBConfiguration controller (manager) | lbConfig, internal load balancer | reconcile, ensureDeleted, reconcileLBRule | `LbController`, `LoadBalancer`, `GatewayLB` |
| GatewayVMConfiguration controller (manager) | vmConfig, scale sets, public IP prefixes | reconcile, ensureDeleted, node events | `VmController` |
| manager process | shared informer cache, work queues | watch, requeue, resync, restart | `Cluster`, `ControlPlane` |
| machines of a pool: scale set instances, VMs with NICs (`agentpoolvms.go`) | ipConfigs, addresses, backend pool, public IPs, VM profiles | reconcileVMSS, reconcileNIC | `PoolInstances` |
| gateway daemon: StaticGatewayConfiguration controller | wireguard links, veth pair, addresses, iptables chains, probe | reconcile, cleanUp | `GatewayNode`, `NodeGateways` |
| gateway daemon: PodEndpoint controller | peers, routes, GatewayStatus | reconcile, cleanUp | `NodePeers`, `GatewayDaemon` |
| CNI plugin, IPAM plugin, NicService | pod links, PodEndpoint objects | ADD, DEL, NicAdd, NicDel, PodRetrieve | `PodCni` |
| routes of a pod (`routes.go`) | route tables, marks, rules | SetPodRoutes | `PodRoutes` |
| CNI configuration manager | CNI conf file, node taint | watch, install, uninstall, untaint | `CniConf` |
| Azure client, IMDS, wrappers, tools, visualizer, generated code | none of their own | pass-through | not modelled |

The three manager controllers form a chain. The gateway controller creates a key secret and
an lbConfig, and collects the lbConfig's status. The LB controller makes the rule, creates a
vmConfig, and collects its status. The VM controller makes the public IP prefix and the
ipConfigs. Deletion runs down the chain, held back by a finalizer at each level, and up again.

The parts meet in objects of the API server. The manager's status tells the daemon and
NicService that a gateway is ready; its VM profiles tell the daemon which address is its
node's. NicService writes a PodEndpoint per connected pod, which the daemon of each gateway
node turns into a wireguard peer and a route.

What makes it hard: the controllers share no lock, read a cache that lags behind the API
server, delete by name, patch without precondition, and wait for events rather than poll.
Gateways of one pool share a frontend, a backend and a range of ports. Calls fail at any
point, some errors are logged and not returned, and objects are re-created under old names.

## Modules

- `LoadBalancer`: `reconcileLBRule` as pure operators (`WithRule`, `WithoutRule`, `PortFor`).
- `GatewayLB`: the abstract specification of the load balancer, any sequence of those calls.
- `Cluster`: the variables, the API server (uids, finalizers, resource versions, merge
  patches, `CreateOrPatch`) and the work queues. These parts are external to the repository
  and modelled from how the controllers use them.
- `SgcController`, `LbController`, `VmController`: one action per remote call. `ws`, `wl` and
  `wv` hold the program counter and the local copy a reconcile works with. A stale copy
  makes `Update` and `Status().Update` fail, and neither `Patch` nor `Delete`.
- `ControlPlane`: the composition, with watch events (`Sync*`), users, failing calls
  (`Fault`), `Restart`, `Resync`, and the properties.
- `Ownership`: the inductive invariant `OwnerInv`.
- `PoolInstances`: what `VmController` takes as one step, the loop over the machines of a
  pool. One worker takes requests of vmConfigs and of nodes (`Take`, `NextConfig`), updates
  the scale set's model, lists the machines and reconciles one per step (`ReconcileVm`), then
  writes profiles and status. Machines join and leave at any time; `Kind` chooses scale set
  or VMs pool.
- `GatewayNode`: the state of one gateway node and of the daemon. `NodeGateways` and
  `NodePeers`: its two controllers, one action per group of system calls that nothing else on
  the node comes between; `sw` and `pw` are their workers. `GatewayDaemon`: the composition,
  with gateways, pods, VM addresses and secrets that change, failing calls, restarts,
  reboots and resyncs.
- `PodCni`: ADD and DEL for the sandboxes of one pod name on a node. `box` is a sandbox with
  its link and where its plugin is; `pep` and `cpep` are the PodEndpoint and the cached one.
- `PodRoutes`: `SetPodRoutes` call by call over the kernel's tables, with small bit-vector
  addresses and longest-prefix lookup.
- `CniConf`: the directory of CNI files, the manager's loop over file events, and the handler
  that removes the taint.
- `MC*`: instances for TLC.
- `GatewayLBProofs`, `ControlPlaneProofs`, `SgcOwnership`, `ConfigOwnership`,
  `OwnershipProofs`, `PodCniProofs`: the proofs.

Operators named `X_Something` are faulty variants of `X`, used to see that a property would
notice the fault.

### Abstractions

- Objects keep the fields that steer control. `port` stands for a status's address and port,
  which are set together; `prefix` names where the egress addresses come from.
- An object is stale when it differs from the copy in any modelled field. A change that is
  undone in between would be a conflict in the API server too, and is none here. The runs
  allow one edit, so no spec change is undone.
- The probe's request path, which carries the gateway's UID, is left out; an lbConfig's owner
  never changes (`OwnerChain`), so neither does the path.
- One worker per controller is controller-runtime's default, which the code does not change.
  It is the only writer of its Azure resources, so a Get followed by a Put is one step.
- In `VmController` a scale set's model and its instances are one state; `PoolInstances` has
  the loop over them. There a vmConfig's id is used for one object, as its ipConfig's name is
  made from the UID, and the worker's reads are not late (`ControlPlane` has late reads).
  Public IPs of a VMs pool outlive their machine, as the comment at
  `gatewayvmconfiguration_controller.go:480` says.
- The daemon's copy of gateways, pods and VM addresses is its cache's, so an event changes it
  and queues the request in one step. Rules and routes that one call sets or removes together
  are one value. `Calm` names the events that wait until both controllers are idle.
- A pod link and its key are named after the sandbox. Kubelet runs a new sandbox when ADD
  fails and repeats DEL until it succeeds.
- CNI files hold a list of plugin names, or part of one while it is written.
- One malformed spec (`byo` without `public`) stands for all that `validate` rejects.

## Runs

Every environment event (create, delete, edit, removal of a child object, failing call,
restart, node event, loss of a pool and so on) has a budget, named in the `.cfg`; in the
modules of the nodes and pools `Total` also bounds how many happen together. A property that
does not survive a kind of event says so: `Used` and `Happened` tell which events a behaviour
has had, and the property speaks of those without it. `Lagging` lists the kinds whose watch
events may be late; the others are delivered at once. Only `lifecycle` lets the manager's
events be late; what the theorems cover holds for every choice of `Lagging`. `CHECK_DEADLOCK
FALSE` is set where the system really stops once the budgets are spent and nothing is queued.

| run | question | bounds |
|---|---|---|
| `lifecycle` | create, delete and re-create one name while all events may be late: `OwnerChain`, `RulesOwned`, `PrefixesOwned`, `IpConfigsOwned`, `ReadyComplete`, `KeyStable`, and a quiet system is converged | 2 creates, 1 delete, every kind lags |
| `interruptions` | a running gateway with a child object removed, and either a failing call and the loss of its pool or a restart and a node event: `RuleAfterVmc`, `PortAdvertised`, `QuietBuilt` | 1 of each, 2 ports, resyncs |
| `edits` | a change of egress type or pool: the managed prefix is free in the current pool before it is deleted, the load balancer refines `GatewayLB`, and the system converges | 2 pools, all egress types, 1 edit, 1 delete |
| `shared_pool` | two gateways on one pool: frontend and backend go with the last rule, and a waiting gateway gets the only port when it is freed | 2 gateways, 1 port, 1 delete |
| `recovery` | liveness after a failing call, with resyncs | 1 failure |
| `status_lost` | violated: see Findings | 1 failure, no resync |
| `pool_machines` | two vmConfigs on a scale set or a VMs pool: every machine has every ipConfig and its profile, the backend pool stays while one is left, nothing comes back after deletion, requests come to an end | 2 machines, 2 vmConfigs, 4 events of six kinds |
| `node_gateways` | two gateways, one port, addresses that change: served in the end unless a stray link is in the way, leftovers removed | 2 gateways, 1 port, 2 events of any kind besides the creations |
| `node_peers` | pods come, go and change gateways at one address: peers and routes follow | 2 gateways, a pod made twice, 1 pod address, 1 fault or deleted gateway, late status |
| `cni_conf` | our plugin is second in the derived file, a node without taint has it, and it comes to agree with the main CNI's | 2 files, 4 events: writes in parts, flag changes, faults, crashes, stops, re-imaging |
| `pod_cni` | PodEndpoint and pod agree; a pod is connected; links of failed ADDs and PodEndpoints of pods that went are removed | 4 successive pods of a name, one without gateway, 2 sandboxes, 2 faults of any kind |
| `pod_routes` | every packet's interface, and that of replies | 3-bit addresses, all CIDRs |

The bounds are enough for the cases the hazards name. Two creates of one name exercise every
confusion of an object with its predecessor. One fault or restart can come at every point of
every reconcile. Two gateways suffice for sharing, because a rule meets the others only by
their pool and port. Two ports let a port be chosen again while the first is in use
(`interruptions`); one port is the case of exhaustion (`shared_pool`). `WarmSpec` starts from
a provisioned gateway, the state `lifecycle` reaches, so that the budget is spent on what
happens next.

For the other parts: two machines let one join or fail while the other is done. One port and
two addresses let each pass from one gateway to another. A pod made again takes its address to another gateway.
Two sandboxes are the old and the new one of a pod name. Two files let the first in order
change. Three bits give overlapping, nested and disjoint CIDRs, and the host route of the
gateway. The totals allow at least every pair of disturbances, in either
order and at any point (`Calm` names the daemon's events that wait for idle controllers). `node_peers` starts from served gateways (`WarmSpec`), a state `node_gateways` reaches.

### Fairness

`FairSpec` has weak fairness on each controller's steps for each gateway, on the delivery of
watch events, on node events and on resyncs. A worker runs as long as its queue is not
empty, and informers deliver what they watch. The periodic resync (10 hours by default) is on
only where `Resyncs` is TRUE. `shared_pool` adds strong fairness on `LbcStart`: the work queue is
first in, first out, and a failing gateway returns to it after a back-off, so it cannot keep
the other out. Users, faults and restarts have no fairness.

- `PoolInstances`: the worker goes on. Which request it takes next is left open.
- `GatewayDaemon`: the workers go on and informers deliver. A queue holds each request
  finitely long and the clean-up tickers (every few minutes) fire again and again. That is
  written as `[]<>(g \notin qs)` and `[]<>GwAt("list")` rather than as strong fairness per
  request: it says the same of a work queue with one worker and is cheaper to check.
  Resyncs are fair only where `Resyncs` is TRUE.
- `CniConf`: the process is started again, a write that began ends, kubelet writes the node's
  status again and again, and the handler catches up with it.
- `PodCni`: plugin processes end, kubelet goes on with its sandboxes, the garbage collector
  and the informers run.
- No user action, fault, kill, restart or reboot is fair anywhere.

## Findings

- `status_lost`: the LB and VM controllers log a failed `Status().Update` and report success.
  Nothing is queued afterwards, and the status in `StaticGatewayConfiguration` stays
  incomplete until the next resync, restart or edit. `recovery` shows that a resync repairs it.

The following were met while modelling. No run reports them; each has a property that the
named change of an instance makes TLC refute, and the runs above check the part that holds.

| what the code does | property | instance |
|---|---|---|
| a gateway that moves to another pool leaves its ipConfig on the old one, which keeps public IPs of the managed prefix, so that deleting the prefix fails (`gatewayvmconfiguration_controller.go:500`) | `PrefixFree` | `edits` |
| a node's delete event ends at NotFound: the profile of a machine that left stays in the status until something else happens (`gatewayvmconfiguration_controller.go:75`) | `ProfilesCurrent` | `pool_machines` |
| in a VMs pool public IPs of machines that left keep their place in the prefix; in a pool as large as the prefix a replaced machine never gets one (`agentpoolvms.go:185`) | `Settles` | `pool_machines`, `PoolSize = 1`, `Capacity = 1` |
| `wg-<port>` keeps the alias and the status entry of the gateway that had the port before: the probe goes on answering for it, and the new one is not in `readyGatewayNamespaces` (daemon `staticgatewayconfiguration_controller.go:369`, `1102`) | `ProbeForgets`, `StatusNames` | `node_gateways` |
| without `host0` the clean-up fails before the part for a node without gateways (`270`) | `FullCleanup` | `node_gateways` |
| when the VM's address cannot be read for a moment, cleanUp removes the link of a live gateway, which comes back without its peers; a resync brings them back (`246`) | `PodsServed` | `node_peers`, `Vips = 1`, `Faults = 0`, `Deletes = 0` |
| a peer removed before the cache has its record stays in GatewayStatus (`podendpoint_controller.go:230`) | `StatusPeers` | `node_peers` |
| a daemon stopped between `LinkAdd` and `LinkSetNsFd` leaves a link on the host that makes every later `LinkAdd` fail (`773`); in the instance checked this is the only way a gateway stays unserved (`ServedUnlessStray`) | `GatewaysServed` | `node_gateways` |
| a failed write of the CNI file on an event is logged and never repeated (`confmanager.go:105`) | `ConfThere` | `cni_conf` |
| any uninstall flag but `false` removes the file, the comment says only `true` does (`confmanager.go:163`) | `RemovedWhenTrue` | `cni_conf`, `Flags = {"true", "false", "other"}` |
| PodEndpoints are deleted by name and owned by the pod the cache has: after a forced deletion, or with a late cache, a running pod loses its own (`server.go:76`, `:52`) | `EndpointKept` | `pod_cni` |
| excluded CIDRs have no effect when the default is eth0 (`routes.go:49`) | `AlwaysBypass` | `pod_routes` |

## Proofs

For every set of gateways and pools, every port range, budget and lag:

- `GatewayLBProofs`: `LBInvariant` (types, distinct ports, supported rules) and
  `LBPortsStable`. `LBInv` is inductive as it stands; it rests on lemmas on port
  selection.
- `ControlPlaneProofs`: `TypeCorrect`. `CountType` ties the UIDs given out to the remaining
  budget, which keeps UIDs inside `SgcUids`.
- `OwnershipProofs`: `OwnerInvariant`, and from it `OwnersOutlive`, `RulesNeverLeak` and
  `PrefixesNeverLeak`. `OwnerChain` alone is not inductive: a reconcile may act on an old
  copy of an object. `OwnerInv` adds, per controller, what such a copy still guarantees. A
  cached copy with the finalizer and no deletion mark shows the object that is there
  (`Faithful`). A reconcile past its finalizer works for an existing object (`Held`). One
  that deletes works for an object that is being deleted (`Doomed`). The argument is that
  only a controller itself removes its finalizer, and it has one worker. `SgcOwnership`
  has what the API server's operations preserve; it and `ConfigOwnership` prove what each
  controller's step preserves, `OwnershipProofs` the same for the environment, and that
  `OwnerInv` is inductive. `RulesOutliveVmc` follows from it too.
- `ControlPlaneProofs` also has `LBImplemented` (the manager's load balancer implements
  `GatewayLB`), hence `LBSafe` and `LBPortsKept`; and `KeysKept`.

Assumptions: a positive first port, at least one pool, gateways and pools distinct, user
specs of the right type, natural-number budgets. TLC evaluates them in every run.

Only model-checked: liveness under fairness and anything with `ENABLED`, which are out of the
prover's reach, as are induction over data and `RECURSIVE` operators (the project has none);
`IpConfigsOwned`, `BackendsPresent`, `NoIdleFrontend`, `PrefixFree` and `PortAdvertised`,
which need that pools are not changed or lost; `ReadyComplete` and `QuietConverged`.
The properties of `PoolInstances`, `GatewayDaemon`, `CniConf`, `PodCni` and `PodRoutes` are
model-checked only. Most are liveness, or speak of a quiet state.

## Not modelled

- The Azure client layer, the instance metadata client, the netlink and iptables wrappers,
  configuration, logging, metrics and the two small commands (`copy`, `add-netns`): thin calls
  without state of their own. Their effects and errors are steps of the components above.
- The network visualizer only displays objects. Generated code is not modelled.
- Leader election is taken to give one active manager.
- IPv6 routes of a pod, which follow those of IPv4; the text of iptables rules; resource
  groups, tags, subnets and SKUs in Azure requests.
- Manager, daemon and CNI are not composed into one specification. Each is checked against
  changes of the shared objects that the others may make, in the orders its module allows.
- That `PoolInstances` implements the one-step pool of `VmController` is not stated as a
  refinement; `MachinesServed` and `NothingLeft` are what that step promises.
- Two points where nothing in the repository says what should hold: a NIC of a VMs pool stays
  in the backend pool after its last vmConfig; a plugin killed between creating and moving its
  link leaves it on the host.
