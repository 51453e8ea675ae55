---------------------------- MODULE MasterSubnets ----------------------------
(***************************************************************************)
(* The master's half of the pod network: one subnet of the cluster network *)
(* per node, recorded in etcd under the node's address                     *)
(* (src/ksdn/subnets.go).                                                  *)
(*                                                                         *)
(* Two goroutines change the records and share only the allocator:         *)
(* watchNodes, fed by an EventQueue of the Kubernetes nodes, and           *)
(* masterHandleSubnetEvent, fed by the watch of the records (EtcdWatch),   *)
(* which serves the servers outside Kubernetes that ask for a subnet with  *)
(* Assign and takes back the subnets of removed records.  They hold no     *)
(* lock across their calls to etcd, so every call is a step: job[g] is the *)
(* call goroutine g makes next.  What the code does between two calls is   *)
(* local but for the allocator, whose operations hold its own lock, and is *)
(* part of the step of the call before.                                    *)
(***************************************************************************)
EXTENDS Deltas, SubnetAllocator, Sequences, SequencesExt

CONSTANTS Hosts,        \* names of nodes and servers
          IPs,          \* their addresses: a record's key and its HostIP
          UIDs,         \* UIDs of Kubernetes node objects
          AddressesOf,  \* the address lists the node of each name may have
          NumSubnets,   \* subnets the cluster network holds
          Requests,     \* what administrators set for servers: [key, host, ip]
          MaxRequests,  \* how many of them they make
          EtcdFaults,   \* how a call to etcd may go wrong, a subset of FaultKinds
          MayRestart,   \* whether the master may crash and start again
          NodesLeave,   \* whether Kubernetes nodes are ever deleted
          Window,       \* events etcd keeps
          NoRecord, NoData, NoIP, NoNode, NoSubnet, Malformed, Elsewhere

FaultKinds == {"failed", "lost"}

ASSUME MasterSubnetsAssumption ==
    /\ IsFiniteSet(IPs) /\ IPs \cap Hosts = {} /\ {NoIP, Elsewhere} \cap IPs = {}
    /\ AddressesOf \in [Hosts -> SUBSET (Seq(IPs) \ {<<>>})]
    /\ NumSubnets \in Nat \ {0} /\ NoSubnet \notin 0 .. NumSubnets - 1
    /\ Requests \subseteq [key : IPs, host : Hosts, ip : IPs]
    /\ MaxRequests \in Nat /\ Window \in Nat \ {0}
    /\ EtcdFaults \subseteq FaultKinds
    /\ {MayRestart, NodesLeave} \subseteq BOOLEAN

VARIABLES store, unseen, behind, cache, batch,  \* the records and their watch, see EtcdWatch
          handling,        \* events of the batch that masterHandleSubnetEvent has yet to serve
          sna,             \* master.subnetAllocator
          kubeNodes,       \* the node objects in Kubernetes
          nodeDelta,       \* the delta of each node waiting in the EventQueue
          nodeAddressMap,  \* watchNodes: the address each node object was given a record for
          asked,           \* the requests administrators have made, each of them once
          job              \* what each goroutine does

watchVars == <<unseen, behind, cache, batch>>
kubeVars  == <<kubeNodes, nodeDelta>>
vars == <<store, watchVars, handling, sna, kubeVars, nodeAddressMap, asked, job>>

Subnets == 0 .. NumSubnets - 1
Place   == [n \in Subnets |-> n]    \* SubnetPlaces says where they lie

SubnetData == [ip : IPs, subnet : Subnets \cup {NoSubnet}, assign : BOOLEAN]
HostSubnet(host, ip, subnet, assign) ==
    [name |-> host, data |-> [ip |-> ip, subnet |-> subnet, assign |-> assign]]

ASSUME NullsAssumption ==    \* they stand for nil
    /\ NoData \notin SubnetData
    /\ NoRecord \notin [name : Hosts, data : SubnetData]
    /\ NoNode \notin [uid : UIDs, addrs : Seq(IPs)] \cup UIDs

W == INSTANCE EtcdWatch WITH
        Keys <- IPs, Names <- Hosts, NamesOf <- [ip \in IPs |-> Hosts],
        KeyPath <- [ip \in IPs |-> ip],
        MayBeMalformed <- FALSE, Data <- SubnetData, told <- <<>>

NodeObjects == [uid : UIDs, addrs : UNION {AddressesOf[h] : h \in Hosts}]
NoDelta     == [type |-> "None", node |-> NoNode]

Goroutines == {"nodes", "subnets"}
Idle       == [at |-> "idle"]
Target     == [host : Hosts, ip : IPs, uid : UIDs \cup {NoNode}]
Jobs       == {Idle} \cup [at : {"revoke", "get"}, for : Target]
                     \cup [at : {"renew"}, for : Target, record : W!Records]
                     \cup [at : {"acquire"}, for : Target, subnet : Subnets]

-----------------------------------------------------------------------------

Init == /\ store = [ip \in IPs |-> NoRecord]
        /\ unseen = <<>> /\ behind = TRUE /\ cache = <<>> /\ batch = <<>>
        /\ handling = <<>>
        /\ sna = NewSubnetAllocator({})
        /\ kubeNodes = [h \in Hosts |-> NoNode]
        /\ nodeDelta = [h \in Hosts |-> NoDelta]
        /\ nodeAddressMap = [u \in UIDs |-> NoIP]
        /\ asked = {}
        /\ job = [g \in Goroutines |-> Idle]

(* Every write of a record is an event of the watch. *)
Write(key, value) == /\ store' = [store EXCEPT ![key] = value]
                     /\ W!Happens(key, value)
                     /\ UNCHANGED <<cache, batch>>

NoWrite == UNCHANGED <<store, watchVars>>

-----------------------------------------------------------------------------
(* Kubernetes and its reflector. *)

Queue(h, type, node) ==
    LET t == queueActionLocked(nodeDelta[h].type, type)
    IN nodeDelta' = [nodeDelta EXCEPT ![h] = IF t = "None" THEN NoDelta ELSE [type |-> t, node |-> node]]

UIDsInUse == {n.uid : n \in {kubeNodes[h] : h \in Hosts} \ {NoNode}}
                \cup {n.uid : n \in {nodeDelta[h].node : h \in Hosts} \ {NoNode}}
                \cup (IF job["nodes"] = Idle THEN {} ELSE {job["nodes"].for.uid})

(* A new object has a UID of its own.  The model uses one again that no object, *)
(* delta or job has any more; what the map says of it is never read again.      *)
CreateNode(h, addrs) ==
    /\ kubeNodes[h] = NoNode
    /\ UIDs \ UIDsInUse # {}
    /\ LET uid  == CHOOSE u \in UIDs : u \notin UIDsInUse
           node == [uid |-> uid, addrs |-> addrs]
       IN /\ kubeNodes' = [kubeNodes EXCEPT ![h] = node]
          /\ Queue(h, "Added", node)
          /\ nodeAddressMap' = [nodeAddressMap EXCEPT ![uid] = NoIP]
    /\ NoWrite /\ UNCHANGED <<handling, sna, asked, job>>

UpdateNode(h, addrs) ==
    /\ kubeNodes[h] # NoNode
    /\ kubeNodes' = [kubeNodes EXCEPT ![h].addrs = addrs]
    /\ Queue(h, "Updated", kubeNodes'[h])
    /\ NoWrite /\ UNCHANGED <<handling, sna, nodeAddressMap, asked, job>>

DeleteNode(h) ==
    /\ NodesLeave /\ kubeNodes[h] # NoNode
    /\ kubeNodes' = [kubeNodes EXCEPT ![h] = NoNode]
    /\ Queue(h, "Deleted", kubeNodes[h])
    /\ NoWrite /\ UNCHANGED <<handling, sna, nodeAddressMap, asked, job>>

(* Every 30 minutes. *)
Resync(h) ==
    /\ kubeNodes[h] # NoNode /\ nodeDelta[h] = NoDelta
    /\ Queue(h, "Sync", kubeNodes[h])
    /\ NoWrite /\ UNCHANGED <<handling, sna, kubeNodes, nodeAddressMap, asked, job>>

-----------------------------------------------------------------------------
(* Administrators and the other writers of etcd. *)

Request(r) == /\ r \notin asked /\ Cardinality(asked) < MaxRequests
              /\ asked' = asked \cup {r}
              /\ Write(r.key, HostSubnet(r.host, r.ip, NoSubnet, TRUE))
              /\ UNCHANGED <<handling, sna, kubeVars, nodeAddressMap, job>>

OtherWrites == /\ W!WriteElsewhere
               /\ UNCHANGED <<handling, sna, kubeVars, nodeAddressMap, asked, job>>

-----------------------------------------------------------------------------
(* watchNodes: the next delta.  The EventQueue keeps the order of the names; *)
(* here any name may come next.                                              *)

Begin(g, j) == job' = [job EXCEPT ![g] = j]

PopNode(h) ==
    LET type == nodeDelta[h].type
        node == nodeDelta[h].node
        ip   == node.addrs[1]
        for  == [host |-> h, ip |-> ip, uid |-> node.uid]
        old  == nodeAddressMap[node.uid]
    IN /\ job["nodes"] = Idle
       /\ type # "None"
       /\ nodeDelta' = [nodeDelta EXCEPT ![h] = NoDelta]
       /\ \/ /\ type # "Deleted"
             /\ old \in Range(node.addrs)    \* nothing to do
             /\ UNCHANGED <<nodeAddressMap, job>>
          \/ /\ type # "Deleted"
             /\ old \notin Range(node.addrs)
             /\ Begin("nodes", [at |-> "get", for |-> for])
             /\ UNCHANGED nodeAddressMap
          \/ /\ type = "Deleted"
             /\ nodeAddressMap' = [nodeAddressMap EXCEPT ![node.uid] = NoIP]
             /\ Begin("nodes", [at |-> "revoke", for |-> for])
       /\ NoWrite /\ UNCHANGED <<handling, sna, kubeNodes, asked>>

-----------------------------------------------------------------------------
(* addNode and deleteNode, call by call.  Succeed is the nil return: only    *)
(* watchNodes notes it.                                                      *)

Succeed(g) ==
    /\ Begin(g, Idle)
    /\ nodeAddressMap' = IF g = "nodes" THEN [nodeAddressMap EXCEPT ![job[g].for.uid] = job[g].for.ip]
                         ELSE nodeAddressMap

(* A plausible slip: the error is not returned. *)
Fail_Nil(g) == Succeed(g)

Fail(g) == Begin(g, Idle) /\ UNCHANGED nodeAddressMap

(* RevokeSubnet: watchNodes is done with it either way, the other goroutine *)
(* goes on to addNode when it succeeded.                                    *)
Revoke(g) ==
    /\ job[g].at = "revoke"
    /\ LET ip == job[g].for.ip
           exists == store[ip] # NoRecord
       IN \/ /\ exists
             /\ Write(ip, NoRecord)
             /\ Begin(g, IF g = "nodes" THEN Idle ELSE [at |-> "get", for |-> job[g].for])
          \/ /\ ~ exists \/ "failed" \in EtcdFaults
             /\ NoWrite
             /\ Begin(g, Idle)
          \/ /\ exists /\ "lost" \in EtcdFaults
             /\ Write(ip, NoRecord)
             /\ Begin(g, Idle)
    /\ UNCHANGED <<handling, sna, kubeVars, nodeAddressMap, asked>>

(* GetSubnet: any error is taken for a missing record. *)
Get(g) ==
    /\ job[g].at = "get"
    /\ LET for == job[g].for
           rec == store[for.ip]
       IN \/ /\ rec # NoRecord
             /\ rec.name = for.host /\ ~ rec.data.assign
             /\ Succeed(g)
             /\ UNCHANGED sna
          \/ /\ rec # NoRecord
             /\ rec.name # for.host \/ rec.data.assign
             /\ Begin(g, [at |-> "renew", for |-> for,
                          record |-> HostSubnet(for.host, rec.data.ip, rec.data.subnet, FALSE)])
             /\ UNCHANGED <<sna, nodeAddressMap>>
          \/ /\ rec = NoRecord \/ "failed" \in EtcdFaults
             /\ sna' = GetNetwork(sna, Place)
             /\ \/ /\ CanGet(sna, Place)
                   /\ Begin(g, [at |-> "acquire", for |-> for, subnet |-> NextSubnet(sna, Place)])
                   /\ UNCHANGED nodeAddressMap
                \/ ~ CanGet(sna, Place) /\ Fail(g)
    /\ NoWrite /\ UNCHANGED <<handling, kubeVars, asked>>

(* RenewSubnet writes the record under its own HostIP, whatever is there now. *)
Renew(g) ==
    /\ job[g].at = "renew"
    /\ LET rec == job[g].record
       IN \/ Write(rec.data.ip, rec) /\ Succeed(g)
          \/ "lost" \in EtcdFaults /\ Write(rec.data.ip, rec) /\ Fail(g)
          \/ "failed" \in EtcdFaults /\ NoWrite /\ Fail(g)
    /\ UNCHANGED <<handling, sna, kubeVars, asked>>

(* AcquireSubnet creates the record; on any error the subnet is given back. *)
Acquire(g) ==
    /\ job[g].at = "acquire"
    /\ LET for == job[g].for
           rec == HostSubnet(for.host, for.ip, job[g].subnet, FALSE)
           exists == store[for.ip] # NoRecord
       IN \/ /\ ~ exists
             /\ Write(for.ip, rec) /\ Succeed(g) /\ UNCHANGED sna
          \/ /\ exists \/ "failed" \in EtcdFaults
             /\ NoWrite /\ Fail(g) /\ sna' = ReleaseNetwork(sna, job[g].subnet)
          \/ /\ ~ exists /\ "lost" \in EtcdFaults
             /\ Write(for.ip, rec) /\ Fail(g) /\ sna' = ReleaseNetwork(sna, job[g].subnet)
    /\ UNCHANGED <<handling, kubeVars, asked>>

-----------------------------------------------------------------------------
(* The watch of the records and masterHandleSubnetEvent. *)

Watch == /\ W!WatchReset \/ W!WatchEvent
         /\ UNCHANGED <<handling, sna, kubeVars, nodeAddressMap, asked, job>>

TakeBatch == /\ job["subnets"] = Idle /\ handling = <<>>
             /\ batch # <<>>
             /\ handling' = batch
             /\ batch' = <<>>
             /\ UNCHANGED <<store, unseen, behind, cache, sna, kubeVars, nodeAddressMap, asked, job>>

(* Assign asks for a subnet: the record is revoked and made anew.  A removed *)
(* record gives its subnet back, if the event says which one it was.         *)
HandleEvent ==
    /\ job["subnets"] = Idle /\ handling # <<>>
    /\ handling' = Tail(handling)
    /\ LET e       == Head(handling)
           d       == e.rec.data
           asks    == e.type = "Added" /\ d.assign
           returns == e.type = "Removed" /\ d # NoData /\ ~ d.assign
       IN \/ /\ asks
             /\ Begin("subnets", [at |-> "revoke", for |-> [host |-> e.rec.name, ip |-> d.ip, uid |-> NoNode]])
             /\ UNCHANGED sna
          \/ /\ returns
             /\ sna' = ReleaseNetwork(sna, d.subnet)
             /\ UNCHANGED job
          \/ /\ ~ (asks \/ returns)
             /\ UNCHANGED <<sna, job>>
    /\ NoWrite /\ UNCHANGED <<kubeVars, nodeAddressMap, asked>>

-----------------------------------------------------------------------------

Recorded == {store[ip].data.subnet : ip \in {i \in IPs : store[i] # NoRecord}} \ {NoSubnet}

(* A crash and the next start: the allocator is built from the records, the *)
(* reflector lists the nodes, the watch begins with a snapshot.             *)
Restart ==
    /\ MayRestart
    /\ sna' = NewSubnetAllocator(Recorded)
    /\ unseen' = <<>> /\ behind' = TRUE /\ cache' = <<>> /\ batch' = <<>>
    /\ handling' = <<>>
    /\ nodeDelta' = [h \in Hosts |-> IF kubeNodes[h] = NoNode THEN NoDelta
                                     ELSE [type |-> "Sync", node |-> kubeNodes[h]]]
    /\ nodeAddressMap' = [u \in UIDs |-> NoIP]
    /\ job' = [g \in Goroutines |-> Idle]
    /\ UNCHANGED <<store, kubeNodes, asked>>

KubeStep == \E h \in Hosts :
               \/ \E addrs \in AddressesOf[h] : CreateNode(h, addrs) \/ UpdateNode(h, addrs)
               \/ DeleteNode(h)
               \/ Resync(h)

Call(g) == Revoke(g) \/ Get(g) \/ Renew(g) \/ Acquire(g)

Next == \/ KubeStep
        \/ \E r \in Requests : Request(r)
        \/ OtherWrites
        \/ \E h \in Hosts : PopNode(h)
        \/ \E g \in Goroutines : Call(g)
        \/ Watch
        \/ TakeBatch
        \/ HandleEvent
        \/ Restart

Spec == Init /\ [][Next]_vars

-----------------------------------------------------------------------------
(* Fairness.  The goroutines never stop (utilwait.Forever) and every call to *)
(* etcd returns; the queue is first in, first out, so a delta is not passed  *)
(* over for ever; the resync timer fires again and again; an etcd that is    *)
(* asked again and again to write a record does so at some point.            *)

MasterRuns == /\ \A h \in Hosts : SF_vars(PopNode(h)) /\ WF_vars(Resync(h))
              /\ \A g \in Goroutines : WF_vars(Call(g))
              /\ WF_vars(Watch) /\ WF_vars(TakeBatch) /\ WF_vars(HandleEvent)
EtcdAnswers == \A h \in Hosts :
    SF_vars((Acquire("nodes") \/ Renew("nodes")) /\ job["nodes"].for.host = h /\ store' # store)

FairSpec == Spec /\ MasterRuns /\ EtcdAnswers

-----------------------------------------------------------------------------
(* Properties. *)

(* Every variable holds what the code can put there; no combination of node *)
(* deltas panics.                                                           *)
TypeOK ==
    /\ store \in [IPs -> W!Values]
    /\ unseen \in Seq(W!Changes) /\ Len(unseen) <= Window /\ behind \in BOOLEAN
    /\ cache \in Seq(W!Records)
    /\ batch \in Seq(W!Events) /\ handling \in Seq(W!Events)
    /\ sna \in Allocators(Place)
    /\ kubeNodes \in [Hosts -> NodeObjects \cup {NoNode}]
    /\ nodeDelta \in [Hosts -> {NoDelta} \cup [type : DeltaTypes, node : NodeObjects]]
    /\ nodeAddressMap \in [UIDs -> IPs \cup {NoIP}]
    /\ asked \subseteq Requests
    /\ job \in [Goroutines -> Jobs]

(* No two records hold the same subnet: two nodes with one subnet would give *)
(* their pods the same addresses and each other's traffic.                   *)
SubnetsApart ==
    \A a, b \in IPs :
        (/\ a # b /\ store[a] # NoRecord /\ store[b] # NoRecord
         /\ store[a].data.subnet # NoSubnet)
          => store[a].data.subnet # store[b].data.subnet

(* What a record holds, or is about to hold, the allocator does not give to *)
(* anyone else: a removed record's event, however late, never frees a       *)
(* subnet that has an owner.                                                *)
RecordedReserved ==
    Recorded \cup {job[g].subnet : g \in {x \in Goroutines : job[x].at = "acquire"}}
      \subseteq sna.allocated

(* The records and the allocator carry out what SubnetLeases promises, step  *)
(* by step: no subnet is given that has an owner or was not set aside, none  *)
(* that is held is set free, and no address goes from one subnet to another. *)
SubnetOf == [ip \in IPs |-> IF store[ip] = NoRecord THEN NoSubnet ELSE store[ip].data.subnet]
Leases == INSTANCE SubnetLeases WITH Addresses <- IPs, subnetOf <- SubnetOf, reserved <- sna.allocated

Leased == Leases!Spec

(* An address of the node has a record with a subnet: what nodes look for.  *)
Served(h) == /\ kubeNodes[h] # NoNode
             /\ \E ip \in Range(kubeNodes[h].addrs) :
                  store[ip] # NoRecord /\ store[ip].data.subnet # NoSubnet

(* A node that stays where it is, while the allocator has a subnet left, is *)
(* served in the end and for good.                                          *)
Stays(h, addrs) == kubeNodes[h] # NoNode /\ kubeNodes[h].addrs = addrs
NodesServed ==
    \A h \in Hosts : \A addrs \in AddressesOf[h] :
        <>[](Stays(h, addrs) /\ CanGet(sna, Place)) => <>[]Served(h)

(* The same whatever the allocator holds, for no more nodes than subnets.   *)
EveryNodeServed ==
    \A h \in Hosts : \A addrs \in AddressesOf[h] :
        <>[]Stays(h, addrs) => <>[]Served(h)

(* A server an administrator asked a subnet for finds one in its record,    *)
(* unless the allocator has none left.                                      *)
RequestsServed ==
    \A r \in Requests :
        (store[r.key] = HostSubnet(r.host, r.ip, NoSubnet, TRUE))
          ~> (\/ /\ store[r.key] # NoRecord
                 /\ store[r.key].data.subnet # NoSubnet /\ ~ store[r.key].data.assign
              \/ ~ CanGet(sna, Place))
=============================================================================
