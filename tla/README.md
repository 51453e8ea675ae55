# k8s-ovs in TLA+

k8s-ovs connects the pods of a Kubernetes cluster with Open vSwitch. Every server runs
the same process. One of them, the elected **master**, gives each Kubernetes node a
subnet of the cluster network and each namespace a VNID (the number of a virtual
network) and records both in etcd. Every server is a **node**: it watches those
records and programs its Open vSwitch, and it gives addresses to the pods that
kubelet starts on it.

This directory holds TLA+ models of that program, TLC configurations that check them on
small instances, and theorems that TLAPS checks for all instances. The models are
translated from the Go source; `PROJECT.json` names, for every definition, the lines it
stands for.

- [1. The system](#1-the-system)
- [2. The modules and how they relate to the code](#2-the-modules-and-how-they-relate-to-the-code)
- [3. The runs](#3-the-runs)
- [4. Where the code does not do what it says](#4-where-the-code-does-not-do-what-it-says)
- [5. The proofs](#5-the-proofs)
- [6. What is not modelled](#6-what-is-not-modelled)
- [7. Plan](#7-plan)

To check a model: `tlc -config <run>.cfg <MC module>`. To check a proof:
`tlapm <module>.tla`.

## 1. The system

### Components

| component | state it keeps | operations | talks to |
|---|---|---|---|
| **Master VNID allocation** `ksdn/vnids_master.go`, `pkg/vnid` | `masterVNIDMap`: the VNID of each namespace, a bitmap of allocated VNIDs, a lock | `assignVNID`, `revokeVNID` (from namespace deltas), `updateVNID` (from edited records), `populateVNIDs` at the start | event queue of namespaces; watch and records of netnamespaces |
| **Event queue and reflector** `ksdn/eventqueue.go`, `ksdn/common.go` | the deltas that wait, one per object; the objects known | `Pop`, the compression of deltas, a resync every 30 minutes | Kubernetes API; the handlers of master and node |
| **etcd registry and watch** `pkg/etcdmanager` | per watch: a cursor, a copy of the records seen, the batch being sent | read, create, update, delete of records; `WatchSubnets`, `WatchNetNamespaces` with snapshot comparison after falling behind | etcd; the handlers of master and node |
| **Subnet allocator** `pkg/snalloc` | the subnets given out, where to look next, a mutex | `NewSubnetAllocator`, `GetNetwork`, `ReleaseNetwork` | called by the master's two subnet goroutines |
| **Master subnet records** `ksdn/subnets.go`, `ksdn/master.go` | `nodeAddressMap`; the subnet allocator | `addNode`, `deleteNode`, `masterHandleSubnetEvent`, `SubnetStartMaster` | event queue of nodes; watch and records of subnets |
| **Node tunnels** `ksdn/subnets.go`, `ksdn/controller.go` | the flows of tables 1 and 8: whose packets come in, and to whom those of each subnet go | `nodeHandleSubnetEvent`, `AddHostSubnetRules`, `DeleteHostSubnetRules` | watch of subnets; OVS |
| **Node VNID map and service rules** `ksdn/vnids_node.go` | `nodeVNIDMap`; the services known; the flows of table 4 | `nodeHandleNetnsEvent`, `updatePodNetwork`, `watchServices` | watch of netnamespaces; event queue of services; pod manager; OVS |
| **Pod manager and CNI requests** `ksdn/pod.go`, `ksdn/pod_linux.go`, `k8s-sdn-ovs` | the queue of requests; IPAM files; OpenFlow rules per pod | setup, update, teardown, status, one at a time | CNI server; VNID map; OVS |
| **Node start and SDN setup** `ksdn/node.go`, `ksdn/controller.go` | the version flow that says the bridge is set up; the bridge | start, setup or reuse of the bridge, update of existing pods | everything on the node |
| **Leader election and process start** `pkg/election`, `main.go` | the lease in etcd | campaign, callbacks that set `leader`, start of master and node | etcd; master; node |
| CNI server and client | none | one HTTP request over a local socket | pod manager |
| iptables, ip command, utilities | none | wrappers of commands | node |

### How they interact

Master and nodes share only etcd: the master writes `subnets/<node IP>` and
`netnamespaces/<namespace>`, everyone watches them. Administrators are part of the
protocol: with `etcdctl` they ask for a network to be joined, isolated or made global
(fields `Action` and `Namespace` of a netnamespace record) and for a subnet for a server
outside Kubernetes (a subnet record with `Assign`). Inside a process the components run
in goroutines that never end (`utilwait.Forever`): one per event queue, two per watch.
Shared state is guarded by one lock in the VNID maps, by a mutex inside the subnet
allocator, and by nothing across a call to etcd in the subnet code.

### What is hard

- **etcd answers late, wrongly or not at all.** A create may fail, or succeed and lose
  its answer. What memory then holds and what etcd holds may differ.
- **Two halves of an operation.** Memory first and etcd second (`updateVNID`), etcd
  first and memory second (`revokeVNID`), revoke first and create second
  (`masterHandleSubnetEvent`).
- **Two goroutines, one record.** `watchNodes` and `masterHandleSubnetEvent` change the
  same records with no lock between read and write.
- **A watch that falls behind** must diff a snapshot with its copy.
- **Compressed deltas.** Whatever happened to an object while its delta waited comes as
  one delta.
- **Restarts.** The allocators are rebuilt from etcd; deletions made meanwhile are never
  seen.
- **Goroutines that meet on a node.** `watchServices` and the goroutine of the
  netnamespace records read services and VNIDs at one time and write flows at another;
  setup of a pod reads the VNID before, and the list of pods shows it after.
- **Starts cut short.** Bridge, routes and flows outlive the process; the version flow
  alone says whether they are complete.
- **Who is master** is decided by callbacks, each in a goroutine of its own, and nothing
  ends a master that lost the lease.
- **Sequences of legal requests** (join, isolate, global, delete, create) that must keep
  the reference count of a VNID right.

`PROJECT.json` lists each of these at its line under `hazards`, with the properties that
watch over it.

### What makes each component correct

| component | properties |
|---|---|
| Master VNID allocation | tenants nobody joined never share a VNID; a VNID in use is never free in the allocator and a free one never lost; map and records agree; each namespace that stays gets a VNID, each that goes gives it back; an administrator's action does what it says and to one namespace only |
| Event queue | a deletion is never compressed away; the combination of deltas never panics; the last delta of an object reflects its last state |
| etcd watch | no write is lost between snapshot and events; what the handler was told is, in the end, what the directory holds |
| Subnet allocator | subnets given out are disjoint and inside the network; all of it can be used; the order of the comment |
| Master subnet records | no two records share a subnet; a recorded subnet is reserved; every node that stays is served; every request of an administrator is answered |
| Node tunnels | a record that stays has its tunnel in the end, whatever the watch missed and however often the node restarts |
| Node VNID map, service rules | the two maps say the same; a service that stays can be reached by its VNID in the end, and by no other |
| Pod manager | no two pods share an address and none is leaked; a pod that is set up has the flows of one VNID, in the end that of its namespace, and nobody else's flow is for its packets but, in one case, a dead pod's; every request is answered |
| Node start | a version flow means a complete setup; a node that is up works with the subnet and networks it read; its pods have their flows |
| Election | a lasting holder comes to know that it is, and nobody believes in somebody else; in the end some master runs |

## 2. The modules and how they relate to the code

```
 VnidMap ---- MasterVnid ---- MCMasterVnid     Deltas: used by MasterVnid, MasterSubnets,
                  | \                          NodeServices and EventQueue
                  |  implements Tenancy
           MasterVnidProofs                    EventQueue ---- MCEventQueue
                                                   |
 SubnetAllocator ---- SubnetPlaces ---- MCSubnetPlaces       EventQueueProofs
    |                     |
    |                     |                    NodeVnidMap ---- NodeServices ---- MCNodeServices
    |                     |                                         |
 MasterSubnets -- MasterSubnetsProofs                          NodeServicesProofs
    .  | \            .
    .  |  implements  .                        PodManager ---- MCPodManager
    .  |  SubnetLeases                             |
    . MCMasterSubnets .                        PodManagerProofs
    .                 .
 EtcdWatch            .                        NodeStart, Election: likewise
    |  \              .
    |   MCEtcdWatch   .
    |                 .
 NodeSubnets ---- EtcdWatchProofs
    |
 MCNodeSubnets
```

A line is EXTENDS, a dotted one an instance: `MasterSubnets` takes the watch as an instance,
its proofs those of the watch.

Definitions whose name ends in `_Something` and whose comment says *a plausible slip* are
mutated forms of the definition before the underscore. No specification uses them. They
document that each property notices a mistake a programmer could make.

### Deltas

The compression matrix of `eventqueue.go` and the queueing step of the Kubernetes
client's DeltaFIFO around it, for one object: what waits is one delta type or nothing. A
combination the matrix does not list is `"Panic"`, as in the code, and no type invariant
allows it.

### VnidMap and MasterVnid

`VnidMap` is `masterVNIDMap` as a value: `ids` is the map, `allocated` the bitmap. Its
operators are the methods of `vnids_master.go` with the names they have there; an
operator yields the set of maps the method can leave behind, empty when it returns an
error. Which free VNID `AllocateNext` picks is left open (the code scans from the last
one), so what is checked holds for every strategy.

`MasterVnid` is the master around it. `vmap` is `master.vnids`, `netns` the records,
`netnsEvents` the edits of administrators that the watch has yet to hand over, `kubeNs`
and `nsDelta` Kubernetes and the event queue.

| action | code |
|---|---|
| `assignVNID(ns)` | a Sync, Added or Updated delta: nothing for a known namespace; else allocate, create the record, undo on an error |
| `revokeVNID(ns)` | a Deleted delta: delete the record, then the entry; on an error keep both |
| `updateVNID` | an edited record: change the map, then overwrite the record; nothing is undone on an error |
| `Restart` | a crash at any time and `VnidStartMaster`: the map from the records, the reflector lists, the watch starts with a snapshot |
| `CreateNamespace`, `ModifyNamespace`, `DeleteNamespace`, `Resync` | Kubernetes and the reflector |
| `EditNetns(e)` | an administrator with `etcdctl` |

Both handlers hold `vmap.lock` from the first change in memory to etcd's answer, so each
is one step. A call to etcd fails as `EtcdFaults` says, kind by kind: `"createFailed"`
writes nothing, `"createLost"` writes and returns an error, and so on.

`Tenancy` is the abstract specification: which namespaces share a network, without
VNIDs. `MasterVnid` implements it with `peers` the namespaces of equal VNID
(`Promise == T!Spec`).

Abstractions: the edits of administrators arrive in order and none is lost (EtcdWatch has
the watch itself); the reflector sees every change of Kubernetes; a record that is gone
is one with `NetID` `NoVNID`.

### EtcdWatch

One watch of one directory. `store` is the directory, `unseen` what of etcd's history lies
after the cursor, `behind` that etcd has dropped some of it (or that there is no cursor
yet), `cache` the watcher's copy, `batch` the batch on its way through the unbuffered
channel, `told` what the handler last heard of each name. etcd v2 keeps its last `Window`
events of **all** keys, so writes elsewhere (`WriteElsewhere`) push the watch behind too.

`WatchEvent` is `WatchSubnets`/`WatchNetNamespaces` of `manager.go` with an event,
parsed by `parse...WatchResponse` and put into the copy by `update`; `WatchReset` is the
same call when etcd answers that the index was cleared: a snapshot, compared by `reset`.
The two watchers of `watch.go` are the same code over two types, so one module stands for
both; `NamesOf` tells whether a record's name is its key (netnamespaces) or not (subnets:
the key is an IP, the name a host). `StartWatch` is a process that starts again, with an
empty copy and a handler that knows nothing: NodeSubnets has it in its `Restart`, and
`RestartingSpec` is the watch with it.

### SubnetAllocator and SubnetPlaces

`SubnetAllocator` is the allocator as a value, over an abstract function `place` from
subnet number to subnet. `SubnetPlaces` gives the function, `PlacesIn`: the rotation of the
subnet number by `leftShift` and `rightShift` of `NewSubnetAllocator`, with the masks as the
divisions and remainders they amount to, which the prover can reason about. MCSubnetPlaces
has the masks themselves, and TLC evaluates (`PlaceIsBitwise`) that `LeftPart` and
`RightPart` are the bitwise expressions of `GetNetwork`, and their sum its `|`, for every number
of every network of the run. Around
it is a machine that gives out (`GetPlace`), releases (`ReleasePlace`) and starts again
(`RestartAllocator`). Addresses are counted from the first one of the network.

### MasterSubnets

The master's subnet code. Here the code holds no lock across its calls, so **every call to
etcd is a step**: `job[g]` is the call that goroutine `g` makes next, with what it read so
far. `nodes` is `watchNodes`, `subnets` the goroutine that runs
`masterHandleSubnetEvent`. The watch of the records is an instance of EtcdWatch
(`W`), writing through `W!Happens`.

| action | code |
|---|---|
| `PopNode(h)` | `watchNodes` takes a delta: nothing for an address it knows, else the first call of `addNode` or `deleteNode` comes next |
| `Get(g)` | `addNode`: `GetSubnet`. A record of this host: done. Another host's, or one that asks: renew it. None, or any error: take a subnet from the allocator |
| `Renew(g)` | `addNode`: `RenewSubnet` with the record as read |
| `Acquire(g)` | `addNode`: `AcquireSubnet`, or give the subnet back |
| `Revoke(g)` | `deleteNode`, and the handler's `RevokeSubnet`, after which it goes on to `addNode` |
| `TakeBatch`, `HandleEvent` | the handler gets a batch and serves its events one by one |
| `Watch` | the watch goroutine |
| `Restart` | a crash and `SubnetStartMaster` |
| `CreateNode`, `UpdateNode`, `DeleteNode`, `Resync` | Kubernetes and the reflector |
| `Request(r)`, `OtherWrites` | administrators and other clients of etcd |

`SubnetLeases` is the abstract specification: who has which subnet and which are set
aside, without calls, events and goroutines. A subnet is set aside (`Reserve`), given
(`Grant`), taken away (`Withdraw`) and set free (`Free`), one at a time. `MasterSubnets`
implements it (`Leased == Leases!Spec`) with the subnet of each address as its record in etcd
has it (`SubnetOf`) and what is set aside as the allocator has it: so a record never changes
from one subnet to another, a subnet is given only while nobody has it, and only one that
nobody has is freed.

Abstractions: subnets are named by their number (`NumbersStandForPlaces` shows that nothing
is lost by that); the event queue's order between different nodes is left open; a node always
has an address that `validateNodeIP` accepts; a UID no object, delta or goroutine has any
more may be used again (what `nodeAddressMap` says of it is never read again, so it is
reset); the watch does not see malformed values (EtcdWatch has them); each request is
made once.

### EventQueue

The queue around Deltas, for all objects of one kind, with the vendored reflector that
fills it. The API server is the log of its changes, `log`; an object is the number of the
change that made it, `pos` the reflector's resource version. `items` is DeltaFIFO's map
of what waits, `known` is `EventQueue.knownObjects`, `handled` what the handler was last
told. `caught` is a ghost: the objects that a list met with a delta waiting that a list
cannot be combined with (`CaughtBy` names the three kinds). An object is no longer
promised anything once it is caught, until the process starts again.

| action | code |
|---|---|
| `Change` | a change in the API server |
| `List` | the reflector lists, possibly an older state, and calls `Replace` |
| `WatchEvent`, `WatchBreaks` | the reflector's watch: `Add`, `Update`, `Delete` of the queue |
| `Resync` | the store is synced: a Sync of each known object with nothing waiting |
| `Pop` | `Pop`: `updateKnownObjects` and the handler, under the queue's lock |
| `Restart` | a panic has ended the process (`up` is FALSE); it starts with empty stores |

### NodeSubnets

The handler of one node over the variables of EtcdWatch: `ingress` is table 1, `tunnels`
table 8. Nobody else writes these tables, so a batch (`NodeReceive`, with
`nodeHandleSubnetEvent`, event by event in `Handled`) is one step; `Environment` is the directory, `NodeWatch` the
watch's goroutine, `Restart` a crash after which the bridge is as it was, or new.

### NodeVnidMap and NodeServices

`NodeVnidMap` is `nodeVNIDMap` as a value, with both maps of the code. `NodeServices` is
the two goroutines that write the service rules, `rules` (table 4), **one step for each
read and each write**: `svcJob` and `netnsJob` say what each of them is doing and hold
what it read. What a rule matches, a cluster IP with a protocol and a port, is one member
of `Ports`; services do not share them. The watch of the records may hand over any record
at any time.

| action | code |
|---|---|
| `PopService(s)` | `watchServices` takes a delta; unless nothing changed it deletes the old rules |
| `WaitAndGetVNID` | the lookup, which gives up after a second |
| `AddService` | the new rules; only if all were written, the service is remembered |
| `NetnsAdded`, `NetnsRemoved` | `nodeHandleNetnsEvent`, up to `updatePodNetwork` |
| `ListServices`, `DeleteListed`, `AddListed` | `updatePodNetwork`: the services as listed once, one after the other |
| `FinishNetns` | the end of the handler; a removed namespace leaves the map only now |
| `Restart` | a crash and the next start, over a bridge that is kept or new |
| `CreateService`, `UpdateService`, `DeleteService`, `Resync` | Kubernetes and the event queue |

### PodManager

Requests for the pods of a node, the one goroutine that serves them, and who sends them.
`requests` is the channel (20 places in the code, `QueueCap` here), `work` what the worker
does after the lookup of the VNID, `ipam` the files of host-local IPAM, `addr` the address
on a pod's interface, `flows` the flows of `k8s-sdn-ovs` with OVS's rule that of two flows
with one match the later stays; all of them have one priority, so of two that overlap in
another way OpenFlow leaves open which takes a packet (`Overlap`, `Disputes`). `life` is a pod as kubelet and the API see it; a pod is one
sandbox, so that a second try of a failed setup is another pod.

| action | code |
|---|---|
| `KubeletAdds`, `KubeletDeletes` | a CNI request: it enters the queue and waits for its answer |
| `SetupBegins`, `SetupEnds` | `setup`: VNID and address; then the script, which may stop halfway, in which case the address is given back |
| `UpdateBegins`, `UpdateEnds` | `update`: VNID and interface; then the old flows go and the new ones come |
| `Teardown` | `teardown`: the flows of the interface's address, if there still is one, then the address |
| `NetnsAdded`, `NetnsRemoved`, `ListPods`, `UpdatePod`, `DeleteOther`, `FinishNetns` | `nodeHandleNetnsEvent` and `updatePodNetwork`: an UPDATE for each pod that is running, one at a time, and a deletion in Kubernetes of the others |

`Faults` names what may fail: the setup script after some of its commands, a sandbox that
dies before its DEL, an update (before, within or after the deletion of the old flows), a
list, a deletion in Kubernetes, a teardown, and a DEL that kubelet repeats.

### NodeStart

`StartNode` and `SetupSDN` with a step for each change of the host, and a crash between
any two. `bridge` has the base flows and the version flow, `tun` the address and the
routes of `tun0`, `flows` the pods that have theirs; these and the pods outlive the
process, `conf`, `subnet`, `changed` and `todo` do not. `missed` is a ghost: the pods no
step is going to give flows to.

The steps are, in order, `Start`, `getLocalSubnet` (or `SubnetTimeout`), `CheckSetUp`
(with `alreadySetUp`), `AddBridge`, `AddBaseFlows`, `AddAddress`, `AddRoutes` (one by
one), `WriteVersion`, `deleteLocalSubnetRoute`, `StartWatches`, `newPodManager`,
`StartPodManager`, `GetLocalPods`, `UpdatePod` (one by one), `markPodNetworkReady`.
`deleteLocalSubnetRoute` may give up and leave the route; SetupSDN has deferred it, so that a
`Crash` after the address, which is also an error returned, may have run it too.
Around them: `Crash`, which is also every `glog.Fatalf`; `Reboot`; `EarlyNetnsEvent`, a
record that arrives while `podManager` is nil; `Edit` of the configuration or of the
node's record; `AddPod`, `ReportRunning`, `RemovePod`.

### Election

One process per node: `main` (`proc`, and its variable `leader`), the elector of the
vendored package (`elector`, `observed`, `seen`, `fresh`, `reported`) and the record,
`holder`. Each elector counts the lease by its own clock, from when it read the record.
`calls` are the callbacks whose goroutines have not run; `MayLag` says whether they may
run later than the elector's next step.

| action | code |
|---|---|
| `Start`, `LeaderKnown`, `Poll` | `main`: wait until a leader is known, then poll until it is this node and start the master |
| `Acquire`, `Observe` | `acquire`: take a record nobody holds or that ran out, or see whose it is |
| `Read`, `Write`, `Report` | the two outcomes of `tryAcquireOrRenew`; `maybeReportTransition` |
| `Renew`, `RenewReads` | `renew`: the record is written again, or found to be another's |
| `Deposed`, `RenewFails`, `OnStoppedLeading` | `renew` gives up, after it found another holder or because no call succeeds, and reports what it read last; Run begins again |
| `Callback` | `OnNewLeader` and `OnStartedLeading` set `leader` |
| `Expire`, `Outlive` | LeaseDuration passes for an observer, when the holder no longer renews, or when it still means to but is paused or in a call that does not return |
| `Crash` | the process ends |

## 3. The runs

| run | checks | bounds |
|---|---|---|
| `vnid_tenants` | `TypeOK`, `EtcdAgrees`, `HeldVNIDsReserved`, `Promise` (refinement of Tenancy) | three namespaces, one of them the admin one; two VNIDs; every kind of edit; restarts; an etcd that works |
| `vnid_served` | `NoVNIDLeaked`, `RecordIffKnown`, `EventuallyAssigned`, `EventuallyRevoked` | the same namespaces; creates and updates that fail without effect; no restart |
| `eventqueue` | `TypeOK`, `QueueExact`, `PanicOnlyIfCaught`, `Delivered` | two objects, four changes, a watch that breaks twice |
| `tunnels` | `NodeTypeOK`, `CopyCurrent`, `Announced`, `TunnelsArrive` | two hosts, two subnets, a record that asks for a subnet; a history of two events, falls behind at will; one restart |
| `places` | `SubnetsDisjoint`, `WholeNetworkUsed` | 18 networks: 5 to 15 host bits, up to 8 subnets |
| `subnets_apart` | `TypeOK`, `RecordedReserved`, `Leased` (refinement of SubnetLeases) | a node that comes and goes with two UIDs, a server that asks, two subnets, a history of two events, failed calls, restarts |
| `subnets_served` | `NodesServed`, `RequestsServed` | a node that comes and goes and a server, two subnets, an etcd that works |
| `services` | `TypeOK`, `NodeMapsAgree`, `RulesExact`, `ServiceReachable` | one service, two ports, one dropped in an update; two UIDs; two VNIDs, one of them the global one; one restart |
| `pods` | `TypeOK`, `AddressesExact`, `FlowsOfOneVNID`, `PodsTagged`, `EveryRequestAnswered` | two pods of one namespace, two addresses, two VNIDs, a queue of two; setups that stop halfway, sandboxes that die |
| `setup` | `TypeOK`, `VersionMeansSetUp`, `SetUpForThisStart`, `PodsRestored`, `EventuallyReady` | two pods; two each of subnets, cluster and service networks; both modes; two crashes or reboots, two edits, updates that fail |
| `election` | `TypeOK`, `HolderSettles`, `SomeMaster` | three nodes, two faults: crashes, renewals that fail, leases that outlive a holder's pause |
| `vnid_selfjoin` | `TenantsApart` | ends in the counterexample of section 4 |

Deadlock is checked in every run but `eventqueue`, which may stop when the log has reached
its bound and every delta was served.

Why the bounds are enough.

- *VNIDs.* Two tenants are the least that can be confused; a third namespace is there to
  share and leave a VNID with one of them, and to be the admin one. Two VNIDs make the
  range run out, and a VNID freed too early is given to somebody else at once.
- *Subnets.* Subnets that run out, and one that is left over, make the search of
  `GetNetwork` wrap around. A history of one or two events makes the watch fall behind
  whenever that many writes come between two of its steps. Two UIDs let a node be deleted
  and registered again while its deletion waits, or two names be registered at one
  address. The networks of `places` have a subnet number that ends at an octet, starts at
  one, lies inside one, and straddles two by one bit and by two; beyond one octet the
  arithmetic only shifts further.
- *Event queue.* A delta of one object and the state a list shows of it depend on at most
  four changes: created, changed or deleted, and both again; two breaks let a list go back
  behind another.
- *Services and pods.* A service is touched by one delta and one list at a time, and
  services share no rules, so one is enough to make the goroutines meet; a second UID lets
  it be deleted and created in one delta. Two pods are the least that can pass an address
  on, and a queue of two with three kinds of senders is full.
- *Node start.* A crash leaves a bridge half built, a second one cuts the repair short;
  two edits give a start that finds a bridge of another configuration and is cut short in
  turn.
- *Election.* Three nodes let the leadership change twice with an observer that sees none
  or one of the changes. One fault is enough for two electors that lead at once, the second
  lets either of them end.

What the bounds leave out of a run, and why.

- `EventuallyRevoked` is not asked of a master that restarts: a deletion nobody saw stays
  unserved (the leak is listed among the hazards).
- `RecordIffKnown` holds with failing deletes too (it is proved), but a delete that failed
  is not tried again, so `vnid_served` leaves them out.
- `RequestsServed`, `Delivered`, `TunnelsArrive` and `RulesExact` say themselves when
  nothing is promised: no subnet is left; a list caught the object (`caught`); the subnet
  was another host's a moment ago (`Reused`); the goroutines met over the service, its
  delta was outdated or the node was restarted (`Meet`, `Outdated`). Section 4 has what
  happens then.
- `subnets_served` has a request for a server that is no node. `subnets_apart` has requests for
  both, and section 4 what becomes of one for a node.
- `services` runs without failing flows and lists, `pods` without failing updates, lists,
  deletions and teardowns, `tunnels` without failing flows: the code logs such an error and goes on,
  and what is lost comes back at no definite time. Section 4 again.

### Fairness

Runs with liveness properties use `FairSpec` of their module (`Spec` of EventQueue,
NodeStart and Election, `NodeSpec` of NodeSubnets).

- Handlers, goroutines and the worker of the pod manager run on (`WF`): every loop is
  under `utilwait.Forever` or ends only with the process, and each command they run
  returns.
- A delta is not passed over for ever (`SF` of `PopNode` and `PopService`, `WF` of
  `Pop`): the event queue is first in, first out, which the models, in which any name may
  come next, do not say by themselves.
- A sender that waits for a place in the request queue gets one (`SF` of `NetnsCall` in
  PodManager): a Go channel serves its senders in their order.
- The resync timer fires (`WF` of `Resync` in the master's modules): the reflector of
  `common.go:98` is given 30 minutes. NodeServices and EventQueue do without.
- An etcd that is asked for the same thing again and again does it at some point (`SF` of
  a successful write): the code's retries count on it, and only the runs with faults need
  it.
- A process that ended is started again (`WF` of `StartNode` with `Start`, `Main`,
  `Restart` of EventQueue): it is a container of a DaemonSet. Crashes are bounded, since
  nothing comes up under crashes without end.
- A lease nobody renews runs out (`WF` of `Expire`), and a leader that found another holder
  gives up, or is the holder again, within RenewDeadline (`WF` of `Deposed`). That a lease
  runs out under a holder that is held up (`Outlive`) is a fault: it need not happen. Callbacks run (`WF`), with
  `MayLag = FALSE` before the elector's next step, which comes 2.5 seconds later.

Nothing is assumed of administrators, Kubernetes, kubelet or the other clients of etcd.

## 4. Where the code does not do what it says

`vnid_selfjoin` is a run of `PROJECT.json`, which quotes what is said otherwise
(`findings`): joining a namespace to itself frees the VNID it keeps
(`vnids_master.go:189`), and another tenant is given it (`TenantsApart`).

The configurations below are kept to be run by hand. Each one ends in a counterexample,
`subnets_retry` and `watch` as they stand excepted.

| configuration | property | what happens |
|---|---|---|
| `vnid_lostcreate` | `TenantsApart` | etcd creates a record and the answer is lost: the VNID is released (`vnids_master.go:221`), the record stays, and another tenant is given it; `README.md:20` has it that the pods of one namespace do not reach those of another |
| `vnid_failedupdate` | `EtcdAgrees` | the map changes, the record does not (`vnids_master.go:242`), and nothing tries again |
| `vnid_isolateglobal` | `IsolateServed` | the only global namespace cannot be isolated: "one holder" is taken for "isolated" (`vnids_master.go:174`) |
| `watch` with `Window = 1` | `ChangesArrive` | after falling behind, a record whose contents changed is not announced (`watch.go:71`), though the comment at `watch.go:26` speaks of a diff of the snapshot with the saved state that generates events |
| `watch` with `Window = 1` | `RemovalsArrive` | a deletion is announced under the etcd path, a name no record has (`registry.go:416`, `:445`); `watch.go:25` promises deletion events |
| `watch` with `MayBeMalformed = TRUE` | `NamesArrive` | an event that cannot be parsed is read again for ever (`registry.go:450`) |
| `subnets_leak` | `EveryNodeServed` | a removed record comes without its subnet, so the subnet is never released (`subnets.go:183`), and in the end a node gets none, though every node is given one (`admin.md:313`) |
| `subnets_takeover` | `EveryNodeServed` | deleting a node object revokes the record of the node that now has its address (`subnets.go:148`), which is never served again |
| `subnets_retry` | `EveryNodeServed` | holds: two node objects at one address that stay, one subnet, failed calls |
| `subnets_lostcreate` | `SubnetsApart` | the same as `vnid_lostcreate`, for subnets (`subnets.go:83`) |
| `subnets_renamed` | `SubnetsApart` | a renamed record, after the watch fell behind, is announced as removed and its subnet freed (`subnets.go:187`) |
| `subnets_moved` | `SubnetsApart` | a node moves to another address and its old record stays: two records carry one host name. When one of them goes while the watch is behind, the snapshot is compared by name, the other one may be announced as removed (`watch.go:87`), and the subnet of a record that exists is freed (`subnets.go:187`) and given away again |
| `subnets_lostrequest` | `RequestsServed` | a request is deleted before its answer is created; if that fails nothing asks again (`subnets.go:173`) |
| `subnets_otherkey` | `RequestsServed` | a request under a key other than its `HostIP`, as in the example of `admin.md`, is never answered (`subnets.go:168`) |

These are changes of a configuration of section 3:

| change | property | what happens |
|---|---|---|
| `eventqueue` | `NoPanic` | an Updated waits when a relist queues a Sync: not in the matrix (`eventqueue.go:234`), and the process ends |
| `eventqueue` | `AllDelivered` | an object created again while its Deleted waits, and listed, is not told to the handler |
| `tunnels`, `DataOf <- OtherHost` | `ReusedTunnelsArrive` | in one batch the removal comes after the new record and deletes the flow just written for the same subnet (`subnets.go:233`) |
| `tunnels`, `OvsFails = TRUE` | `TunnelsArrive` | a flow that cannot be written is not written again |
| `subnets_served`, `Requests <- BothRequests` | `NodesServed`, `RequestsServed` | a request for the address of a node: `addNode` takes it for the node's record and only clears `Assign` (`subnets.go:58`); record and node stay without a subnet, since neither goroutine looks at them again |
| `services`, `MayRevert = TRUE` | `ServiceReachable` | a port list that returns to the one remembered counts as unchanged (`vnids_node.go:250`), though its rules have gone |
| `services`, `Faults = {"list"}` | `ServiceReachable` | a failed list counts as an empty one (`vnids_node.go:172`) |
| `services` | `RulesAlwaysExact` | a rule of the old VNID, or of a port no longer listed, stays: `watchServices` deletes the rules of the object it is handed, not those that were written (`vnids_node.go:248`) |
| `pods`, `Faults = {"update"}` or `{"list"}` | `PodsTagged` | the pod keeps the flows of the old VNID, or none |
| `pods`, `Faults = {"teardown"}` | `AddressesExact` | the address of a pod that is gone stays held |
| `pods`, `Faults = {"again"}` | `FlowsOfOneVNID` | a DEL for a failed sandbox deletes, by address, the flows of the pod that has the address now (`pod_linux.go:204`) |
| `pods`, `Faults = {"delete"}` | `PodsTagged` | a pod not yet running is not deleted after all and keeps the flows of the old VNID (`vnids_node.go:179`) |
| `pods` | `FlowsUndisputed` | a pod of the global VNID dies before its DEL, and its flow for all packets to the address stays (`pod_linux.go:308`, `k8s-sdn-ovs:49`); the namespace gets a VNID of its own, and the next pod at that address has two flows of the same priority 100 beside it (`k8s-sdn-ovs:51`), none of which replaces it |
| `setup` | `ServiceNetworkCurrent` | `alreadySetUp` does not look at the service network (`controller.go:194`) |
| `setup` | `NoPodMissed` | after the bridge was rebuilt, pods not yet reported running, and all pods if the process ends there, get no flows (`node.go:132`) |
| `setup` | `KernelRouteGone` | a crash after the version flow, or six tries in which the route has not shown up, leave the kernel's route for good (`controller.go:315`, `:176`) |
| `election` | `OneMaster` | a master that lost the lease goes on (`main.go:144`); the vendored package says itself that it "does not guarantee that only one client is acting as a leader" (`leaderelection.go:21`) |
| `election` | `HolderKnown` | a holder that was held up finds another one in `renew` and reports it (`leaderelection.go:223`-`:226`); `OnStoppedLeading` cannot read the record and sets `leader` to nothing (`election.go:99`); `acquire` sees the holder it has reported already, and nobody tells this node again |
| `election`, two nodes, `MayLag = TRUE`, `MaxCalls = 3` | `SomeMaster` | a callback that runs late overwrites `leader`, and the node that leads starts no master |

The passing runs say how far the properties hold: `Leased`, and with it `SubnetsApart`, holds with calls that
fail without effect and fails when an answer is lost, a record is renamed or a node moves; the
allocator of VNIDs is exact whatever etcd does, unless a namespace is joined to itself; a
service whose port list does not return can be reached whatever the goroutines do at
once, if sometimes by more than its own namespace.

## 5. The proofs

Everything here holds for all values of the constants: any number of namespaces, VNIDs,
pods, services, nodes and objects, and any bound on faults and restarts. Each invariant
was given to TLC before it was proved.

### MasterVnid

The lemmas come first: of each operation of the map, that it keeps a map well formed and
*exact*, that is, what is allocated is equal to what is held. Then:

- **`TypeCorrect`**: `Spec => []TypeOK`. `TypeOK` is not inductive: whether the
  compression of deltas panics depends on whether Kubernetes has the object. `TypeInv`
  adds `DeltaFits` (an object that exists has no Deleted waiting; one that does not has
  nothing else), and each action of Kubernetes keeps it.
- **`AllocatorCorrect`** and **`NothingLeaked`**: under `NoSelfJoin`, `HeldVNIDsReserved`
  and `NoVNIDLeaked` hold always. The invariant is `AllocatorExact`. Neither inclusion is inductive alone:
  releasing with the last holder needs that nobody else holds the VNID *and* that it was
  reserved. `updateNetID` passes through a map in which one VNID is reserved and not yet
  held: `AllocatedBut`. `NoSelfJoin` is needed: `vnid_selfjoin` is the counterexample.
- **`AgreementCorrect`**: with `EtcdFaults = {}`, `EtcdAgrees` holds always, restarts
  included; the invariant is `TypeInv` with `EtcdAgrees` itself, since an action writes
  to the record what it put into the map.

The second half proves that the master keeps the promise of `Tenancy`. The middle step is
the table of VNIDs, `ids`, by itself: `Changes` names the five ways one write may change
it (admit, open, join, isolate, dismiss), and a lemma each says that such a change moves
the sets of peers as Tenancy allows. What is left is that each action of MasterVnid makes
one of these changes or none, for which `AllocatorExact` gives that a VNID just allocated
has no holder.

- **`PromiseKept`**: under `NoSelfJoin`, and with `MayRestart = FALSE` or
  `EtcdFaults = {}`, `Spec => Promise`. Failed writes are included; a restart after one
  takes the map from a record that differs.
- **`ApartCorrect`**: under `NoSelfJoin` and `EtcdFaults = {}`, `TenantsApart`, the
  property of `vnid_selfjoin`, holds always.
- **`RecordsCorrect`**: as long as no answer is lost, `RecordIffKnown`.

### EtcdWatch

The comparison of a snapshot with the copy, and the handler's way through a batch, are
loops: recursive functions on `0 .. n`. What they yield is proved by induction, which the
library offers only with an operator as a parameter; `SetInduction` states it for a set of
numbers and takes it from the well-foundedness of the strict subset ordering of finite sets
(an infinite descent among the intervals `1 .. n` there is not). From it follow `Recursion`
(such a function is defined, and each value is what the step makes of the one before),
`SmallestNumber` (the index `SelectInSeq` chooses) and, of the loops themselves,
`ResetYields`: whatever the copy and the snapshot, the copy is then the snapshot; every
record of it whose name the copy did not have is announced; and each record of the copy is
either paired with one of its name or announced as removed, once.

- **`TypeCorrect`**: `TypeOK`, for any values, those that are no records included.
- **`CopyIsCurrent`**: `CopyCurrent`, from `CopyInv`: the values fit their keys (`Fit`); the
  last event of a key that is not seen yet says what etcd holds (`LastWritten`); and
  `CopyCurrent` itself. The step that matters is an event about one key, which must leave
  the records of the others in the copy: the copy is searched by name.
- **`CopyIsAnnounced`**: `Announced`, from `AnnouncedInv`: no name is twice in the copy, and
  no batch announces the removal of a name that is in it.

Each holds of `Spec` and of `RestartingSpec`, the watch of a process that may start again.
The last two assume `NamesApart`: no two keys carry records of one name. That is so for
netnamespaces, whose keys are the names, and for subnets as long as no host has records
under two addresses.

At the end of the module is a node's watch and what it makes of it:

- **`NodeTypeCorrect`**: `NodeTypeOK` of NodeSubnets: whatever a batch holds, and whichever of
  its flows fail, the handler leaves tables of other hosts' addresses, none of its own. The
  handler's way through a batch is `Handled`, again a recursive function on `0 .. n`, and
  `HandledType` is again by `SetInduction`.
- **`NodeWatchCorrect`**: under `NamesApart`, `CopyCurrent` and `Announced` hold of NodeSpec,
  as the run `tunnels` checks them: NodeSpec with its tables left out is RestartingSpec
  (`NodeWatchRestarts`).

### SubnetPlaces

In MasterSubnetsProofs, which extends SubnetPlaces too. A network is any number of host bits
above zero and any number of subnet bits; that they are 32 together at most is not used.

- **`PlacesAreBlocks`**: `PlacesIn` is a bijection from the subnet numbers to the aligned
  blocks of the network. Shifts multiply and divide by powers of two, of which the prover
  knows nothing; the library says that a set of `n` elements has `2^n` subsets, and from
  there `2^(m + n) = 2^m * 2^n` is the number of pairs of subsets (`PowerCounts`,
  `PowerAdds`). The rest is division with remainder: `PlaceIsBlock` computes the block a
  number is rotated to, `BlocksNumbered` that `NumberOf` is its inverse.
- **`DisjointCorrect`**, **`WholeNetworkCorrect`**: `SubnetsDisjoint` and `WholeNetworkUsed`
  of the allocator, in any sequence of its operations. The invariant is that only blocks are
  given out; that the search of `GetNetwork`, which wraps around, ends at a free number
  whenever there is one is `NearestIsFree`.
- **`NumbersStandForPlaces`**: to name a subnet by its number, as MasterSubnets does, and to
  name it by its place is the same to each operation of the allocator.

### MasterSubnets

The inductive invariant has three layers; each was checked by TLC first, with three subnets
and a history of one event, in 4.7 million states.

- `TypeInv` types records and watch, Kubernetes and its queue, and the master. It is what
  **`TypeCorrect`** needs.
- `PairInv` says that every record, event, job and node, wherever it is on its way, is of
  one of the `Pairs`, the hosts and addresses the constants allow, that the record under an
  address is of that address, that a record that asks (`assign`) has no subnet, and that
  the copy has no name twice.
- `SubnetInv` is why no subnet has two users. A subnet is *claimed* by an address whose
  record has it, in etcd, in an event the watch has not seen, or in the copy (`Claim`); it
  is being *given* to a goroutine between `GetNetwork` and the create (`Getting`); or it is
  on its way *back*, in a removal that waits in the batch or with the handler (`Pending`).
  `OneOwner` says that these exclude each other, that each has one instance at most, and
  that a subnet in any of them is reserved.

No smaller invariant does. A removal announced late would free a subnet that has an owner,
unless the copy's old record kept anyone else from getting it: hence the copy is part of
`Claim`. `WatchReset` turns a claim of the copy into a pending return, and must not do it
for an address that still has the record, nor twice: hence `ResetYields`. `Acquire` makes a
claim of what it was given, or frees it, and `Get` takes what nobody has: `NextIsFree` shows
that the loop of `GetNetwork` ends at a free subnet if there is one.

- **`ApartCorrect`**, **`ReservedCorrect`**: `SubnetsApart` and `RecordedReserved`, for any
  nodes, addresses, requests, subnets and length of etcd's history, in any interleaving of
  the two goroutines and the watch, with failed calls and restarts, for
  `"lost" \notin EtcdFaults` and `Orderly`: hosts and addresses are one to one, and a
  request is made under the address it asks for. Both hypotheses are needed:
  `subnets_lostcreate` loses an answer, in `subnets_renamed` two nodes have one address in
  turn, in `subnets_moved` one node has two.

- **`LeasedCorrect`**: under the same hypotheses MasterSubnets implements SubnetLeases. A
  step of the master is one of SubnetLeases or none: `Get` reserves, `Acquire` grants, or
  frees when the create failed, `Revoke` withdraws, an event that announces a removal frees,
  and a restart recovers. What each needs comes from `SubnetInv`: that a subnet on its way
  back has no record (`HandleEvent`), that one being given has none yet and the address none
  either (`Acquire`). Of a renewal `PairInv` says that it writes back a record that asks, and so
  has no subnet: whatever was recorded since it was read is withdrawn.
- **`LeasesKeepPromise`**: what SubnetLeases allows implies its `Promise`: no two addresses
  have one subnet, and those they have are set aside.
- **`AddressesApartCorrect`**: with `PlacesAreBlocks`, that the address ranges of any two
  records have no address in common, in a cluster network of any size.

The proofs about the watch are used through an instance of EtcdWatchProofs, and
`WatchConstants` shows that the constants of the instance are as EtcdWatch and NodeSubnets
assume.

### EventQueue

`TypeCorrect`, **`QueueCorrect`** (`QueueExact`) and **`PanicCorrect`**
(`PanicOnlyIfCaught`), from one invariant: in the log an object is added exactly when
there is none (`LogInv`), the types, and for every object not caught `Exact`. It holds
whether the reflector watches or not, and adds to what `QueueExact` says that an Added
waits only for an object that is not known. With the log's order this leaves only
combinations that the matrix lists.

### NodeServices

`TypeCorrect` and **`MapsCorrect`** (`NodeMapsAgree`). `TypeInv` has a part for each actor:
Kubernetes with `DeltaFits`, the map with `MapsAgree`, the two jobs. `setVNID` and
`unsetVNID` keep the maps equal only if they were.

### PodManager

- **`TypeCorrect`**: the queue is what needs an invariant (`QueueInv`): a pod has at most
  one request waiting or being served, of the kind that fits its life, and only the
  goroutine of the records waits for an UPDATE.
- **`AddressesCorrect`**: with `Faults` disjoint from `{"teardown", "again"}`,
  `AddressesExact`. The strengthening says that a pod in setup or before its teardown
  holds its address too (`HasItsAddress`), and that who is set up or in setup holds no
second one (`HoldsOne`).
- **`FlowsCorrect`**: with `Faults` disjoint from `{"update", "again"}`,
  `FlowsOfOneVNID`. `FlowsInv` adds that a pod has no flows before its setup. What a failed
  setup or a sandbox that died leaves behind belongs to a pod that is gone; it replaces no
  flow of a pod that is set up, since a flow with the same match has the same address, and
  the address has one holder. Whose packets it takes is `DisputeInv`: a flow
  belongs to the pod that holds its address or to one that is gone (`HeldFlows`), and no two
  pods have a flow to one address for one and the same VNID, since the later replaces the
  earlier (`OneForEach`). What is left are flows of the dead that overlap in another way,
  where one of the two takes all packets. `DisputeNext` goes through the actions with the two
  ways flows change, a deletion by address and an addition (`DeletedKeep`, `AddedKeep`).

### NodeStart

`TypeCorrect`; **`VersionCorrect`** and **`SetupCorrect`** from `SetupInv`, which says for
each step how far bridge and routes are (`Progress`), and for each step after the setup,
also one that found a bridge, for what they are (`Ready`); **`PodsCorrect`** from
`PodsInv`: a pod without flows is listed, missed, or will be listed.

### Election

`TypeCorrect`, with its two clauses about what an elector has read and reported. `LeaseInv`
has the types, `CallsType` (what waits are names of nodes, no more than `MaxCalls`),
`ReadIsRecord`, `LeadReported`, and `LeadHasRead`: an elector that leads has read a record,
so that what it reports when it gives up is the name of a node. Nothing is proved about how
many electors lead: two may.

### Assumptions

The `ASSUME` of each module (`VnidMapAssumption`, `MasterVnidAssumption`,
`EtcdWatchAssumption`, `NodeSubnetsAssumption`, `SubnetPlacesAssumption`,
`MasterSubnetsAssumption`, `NullsAssumption`,
`EventQueueAssumption`, `NodeServicesAssumption`, `PodManagerAssumption`,
`NodeStartAssumption`, `ElectionAssumption`), which TLC evaluates in every run, and what
a theorem names in its own `ASSUME`: `NoSelfJoin`, `NamesApart`, `Orderly`, or which faults
do not occur. The passing runs that check a theorem's
property satisfy these; section 4 has what happens without `NoSelfJoin` and `Orderly`.

### Only model-checked

- Liveness, in every module: the prover does not reason about fairness.
- That the divisions and remainders of SubnetPlaces are the shifts and masks of the code
  (`PlaceIsBitwise`): the prover has no bitwise operators.
- That the watch falls behind, is told of changes and removals, or serves requests in the
  end: liveness, as above.

## 6. What is not modelled

- `node_iptables.go`, `pkg/ipcmd`, `pkg/ovs`, `pkg/utils`: wrappers of commands and address
  conversion. The effect of the commands is modelled where they are called, the text of
  a flow is not.
- The CNI server's socket and decoding, and the CNI client: one request in, one answer
  out. A request that waits is `KubeletAdds` and `KubeletDeletes` of PodManager.
- Of a pod's setup: the veth pair, bandwidth limits, ports of the host, ARP flows (they
  come and go with the IP flows).
- `validateNodeIP` and nodes without an address: an error before anything has changed.
- A change of `HostSubnetLength` between two starts of a master, with records of the old
  length in etcd: it needs an allocator over sizes, and is not supported by any document.
- An administrator's edit with a NetID copied earlier: `admin.md:92` has the whole record
  written with `etcdctl update` and nothing compares it with what it replaces, so a NetID that
  changed meanwhile would be written back. `EditNetns` keeps the one the record has.
- A service whose ports come in another order: `isServiceChanged` takes it for changed
  (`vnids_node.go:227`) and the same rules are deleted and written again. Port lists are sets
  in NodeServices.
- A restart of the pod manager over pods that keep their flows while the VNID of their
  namespace changes: the new process reads the new VNID at its start and gets no event that
  would update them. PodManager is one run of the process; NodeStart has restarts, without
  VNIDs.
- The data race of `leader` in `main.go`: reads and writes of one string are taken as
  atomic.
- `etcdv2` TLS and client configuration; watches of whole networks, which nothing starts.
- `parseNetworkInfo` and the other checks of the configuration: one pass at the start that
  returns an error or not.
- Logging, metrics, flags.

## 7. Plan

In order; ✔ is done.

1. ✔ **VnidMap, MasterVnid, Tenancy**, with proofs, the refinement included.
2. ✔ **EtcdWatch**.
3. ✔ **SubnetAllocator, SubnetPlaces, MasterSubnets** over EtcdWatch.
4. ✔ **NodeVnidMap, NodeServices**, with proofs.
5. ✔ **NodeSubnets** over EtcdWatch.
6. ✔ **PodManager**, with proofs.
7. ✔ **NodeStart**, with proofs.
8. ✔ **Election**, with proofs.
9. ✔ **EventQueue** over Deltas, with proofs.
10. ✔ **EtcdWatchProofs**: the copy is current and announced.
11. ✔ **MasterSubnetsProofs**: subnets are apart and reserved.
12. ✔ **SubnetPlaces** in arithmetic, with proofs; **SubnetLeases**, with the proof that the
    master implements it; the types of **NodeSubnets**.

What is left:

- Two masters at once over one etcd: MasterVnid twice, sharing the records, started by
  Election.
- NodeServices over EtcdWatch, to say which records its handler really is given.
