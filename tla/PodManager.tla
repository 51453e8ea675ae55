----------------------------- MODULE PodManager -----------------------------
(***************************************************************************)
(* The pods of one node (src/ksdn/pod.go, pod_linux.go): a queue of        *)
(* requests and one goroutine, processCNIRequests, that serves them one by *)
(* one with the script k8s-sdn-ovs.  ADD and DEL come from kubelet through *)
(* the CNI server, one goroutine per request, UPDATE from the goroutine    *)
(* that handles netnamespace records (updatePodNetwork).  Each of them     *)
(* waits for its answer.                                                   *)
(*                                                                         *)
(* Only the worker touches the addresses and the flows, and the script     *)
(* holds a lock, so a request takes one step, or two with the lookup of    *)
(* the VNID in front.                                                      *)
(*                                                                         *)
(* A pod is one sandbox: when its ADD fails, kubelet kills the sandbox and *)
(* tries again with another one, another pod of the model.  Once kubelet   *)
(* asks for DEL the containers of the pod are dead, only the sandbox is    *)
(* left, so that an UPDATE finds no process to inspect.                    *)
(***************************************************************************)
EXTENDS Naturals, Sequences, FiniteSets

CONSTANTS Pods,
          Namespaces,
          NamespaceOf,  \* the namespace of each pod
          IPs,          \* the addresses of the node's subnet
          NetIDs,       \* VNIDs, the global one included
          GlobalVNID,   \* zero
          QueueCap,     \* requests the queue holds, 20 in newDefaultPodManager
          Faults,       \* a subset of FaultKinds
          Everyone,     \* in place of the VNID of a flow that takes all packets
          NoVNID, NoIP, NoPod

(* The setup script fails after some of its commands; the network namespace *)
(* is gone before the teardown; an update, the listing of the pods or the   *)
(* deletion of one in Kubernetes fails; the teardown script fails; kubelet  *)
(* repeats a DEL while the sandbox still exists.                            *)
FaultKinds == {"setup", "gone", "update", "list", "delete", "teardown", "again"}

ASSUME PodManagerAssumption ==
    /\ NamespaceOf \in [Pods -> Namespaces]
    /\ GlobalVNID \in NetIDs /\ {NoVNID, Everyone} \cap NetIDs = {}
    /\ NoIP \notin IPs /\ NoPod \notin Pods
    /\ QueueCap \in Nat \ {0}
    /\ Faults \subseteq FaultKinds

VARIABLES life,      \* where kubelet and the API are with each pod
          doomed,    \* the pods with a deletion timestamp
          addr,      \* the address of the interface in each pod's network namespace
          vmap,      \* node.vnids
          ipam,      \* host-local: the pod that holds each address
          flows,     \* the pods' flows of tables 2 and 7
          requests,  \* podManager.requests
          work,      \* what processCNIRequests does
          netnsJob   \* what updatePodNetwork does

netnsVars == <<vmap, netnsJob>>
podVars   == <<life, doomed>>
vars == <<life, doomed, addr, vmap, ipam, flows, requests, work, netnsJob>>

Lives == {"absent",     \* not created yet
          "pending",    \* in the API, no sandbox
          "adding",     \* kubelet waits for the answer to ADD
          "added",      \* set up, not yet reported as running
          "running",    \* PodRunning in the API
          "deleting",   \* kubelet waits for the answer to DEL
          "gone"}       \* out of the API

InAPI(p) == life[p] \notin {"absent", "gone"}
SetUp    == {p \in Pods : life[p] \in {"added", "running"}}

Idle      == [at |-> "idle"]
Requests  == [cmd : {"ADD", "UPDATE", "DEL"}, pod : Pods]
Works     == {Idle} \cup [at : {"setup", "update"}, pod : Pods, vnid : NetIDs]
NetnsJobs == {Idle} \cup [at : {"list"}, ns : Namespaces, removed : BOOLEAN]
                    \cup [at : {"update", "wait"}, ns : Namespaces, removed : BOOLEAN,
                          run : SUBSET Pods, others : SUBSET Pods]

-----------------------------------------------------------------------------
(* The flows of k8s-sdn-ovs.  A flow from a pod gives its packets the VNID, *)
(* a flow to it takes the packets of one VNID: those of the pod's VNID and  *)
(* of the global one, or all when the pod's is the global one.              *)

Takes(id) == IF id = GlobalVNID THEN {Everyone} ELSE {GlobalVNID, id}

From(p, ip, id) == [dir |-> "from", pod |-> p, ip |-> ip, vnid |-> id]
To(p, ip, id)   == [dir |-> "to", pod |-> p, ip |-> ip, vnid |-> id]
FlowsFor(p, ip, id) == {From(p, ip, id)} \cup {To(p, ip, t) : t \in Takes(id)}
Flows == UNION {FlowsFor(p, ip, id) : p \in Pods, ip \in IPs, id \in NetIDs}

(* Two flows with one match: the later takes the place of the earlier.  All *)
(* have one priority, so of two that overlap otherwise OpenFlow leaves open *)
(* which takes a packet.                                                    *)
Replaces(f, g) == /\ f.dir = g.dir /\ f.ip = g.ip
                  /\ IF f.dir = "from" THEN f.pod = g.pod ELSE f.vnid = g.vnid

Overlap(f, g) == /\ f.dir = "to" /\ g.dir = "to" /\ f.ip = g.ip
                 /\ f.vnid = g.vnid \/ Everyone \in {f.vnid, g.vnid}

add_ovs_flows(fs, new) == {g \in fs : \A f \in new : ~ Replaces(f, g)} \cup new

(* A plausible slip: only the flows from the address are deleted. *)
del_ovs_flows_From(fs, ip) == {f \in fs : f.ip # ip \/ f.dir = "to"}

del_ovs_flows(fs, ip) == {f \in fs : f.ip # ip}

(* What a deletion that fails has done: the flows to the address go first. *)
PartlyDeleted(fs, ip) == {fs, {f \in fs : f.ip # ip \/ f.dir = "from"}, del_ovs_flows(fs, ip)}

-----------------------------------------------------------------------------

Init == /\ life = [p \in Pods |-> "absent"]
        /\ doomed = {}
        /\ addr = [p \in Pods |-> NoIP]
        /\ vmap \in [Namespaces -> NetIDs]
        /\ ipam = [ip \in IPs |-> NoPod]
        /\ flows = {}
        /\ requests = <<>>
        /\ work = Idle
        /\ netnsJob = Idle

Becomes(p, l) == life' = [life EXCEPT ![p] = l]

-----------------------------------------------------------------------------
(* Kubernetes and kubelet. *)

CreatePod(p) ==
    /\ life[p] = "absent"
    /\ Becomes(p, "pending")
    /\ UNCHANGED <<doomed, addr, ipam, flows, requests, work, netnsVars>>

ReportRunning(p) ==
    /\ life[p] = "added"
    /\ Becomes(p, "running")
    /\ UNCHANGED <<doomed, addr, ipam, flows, requests, work, netnsVars>>

DeletePod(p) ==
    /\ InAPI(p)
    /\ doomed' = doomed \cup {p}
    /\ UNCHANGED <<life, addr, ipam, flows, requests, work, netnsVars>>

(* A plausible slip: the sender does not wait. *)
addRequest_NoWait(cmd, p) == requests' = Append(requests, [cmd |-> cmd, pod |-> p])

(* addRequest: the sender waits while the queue is full. *)
addRequest(cmd, p) == /\ Len(requests) < QueueCap
                      /\ requests' = Append(requests, [cmd |-> cmd, pod |-> p])

KubeletAdds(p) ==
    /\ life[p] = "pending" /\ p \notin doomed
    /\ addRequest("ADD", p)
    /\ Becomes(p, "adding")
    /\ UNCHANGED <<doomed, addr, ipam, flows, work, netnsVars>>

(* With "again" a DEL may come for a sandbox whose ADD failed or that was torn *)
(* down before, while it still exists.                                         *)
AsksAgain(p) == "again" \in Faults /\ life[p] = "gone" /\ addr[p] # NoIP

(* The sandbox may die before the request is served, and its interface with it. *)
KubeletDeletes(p) ==
    /\ \/ /\ life[p] = "pending" /\ p \in doomed
          /\ Becomes(p, "gone")
          /\ UNCHANGED <<addr, requests>>
       \/ /\ (life[p] \in {"added", "running"} /\ p \in doomed) \/ AsksAgain(p)
          /\ addRequest("DEL", p)
          /\ Becomes(p, "deleting")
          /\ addr' \in {addr} \cup IF "gone" \in Faults THEN {[addr EXCEPT ![p] = NoIP]} ELSE {}
    /\ UNCHANGED <<doomed, ipam, flows, work, netnsVars>>

-----------------------------------------------------------------------------
(* processCNIRequests: setup, update and teardown. *)

Serving(cmd, p) == work = Idle /\ requests # <<>> /\ Head(requests) = [cmd |-> cmd, pod |-> p]
Serve == requests' = Tail(requests)

FreeIPs == {ip \in IPs : ipam[ip] = NoPod}
Gone(p) == addr' \in {[addr EXCEPT ![p] = NoIP]} \cup IF "again" \in Faults THEN {addr} ELSE {}

(* getPodConfig and ipamAdd; kubelet tries again after an error.  That the  *)
(* pod cannot be read from the API comes to the same as an unknown VNID.    *)
SetupBegins(p) ==
    /\ Serving("ADD", p) /\ Serve
    /\ LET id == vmap[NamespaceOf[p]]
       IN \/ /\ id # NoVNID
             /\ \E ip \in FreeIPs :
                  ipam' = [ipam EXCEPT ![ip] = p] /\ addr' = [addr EXCEPT ![p] = ip]
             /\ work' = [at |-> "setup", pod |-> p, vnid |-> id]
             /\ UNCHANGED life
          \/ /\ id = NoVNID \/ FreeIPs = {}
             /\ Becomes(p, "pending")
             /\ UNCHANGED <<ipam, addr, work>>
    /\ UNCHANGED <<doomed, flows, netnsVars>>

(* A plausible slip: the address is not given back. *)
SetupEnds_AddressKept(p) ==
    /\ work.at = "setup" /\ work.pod = p
    /\ LET new == FlowsFor(p, addr[p], work.vnid)
       IN \/ /\ flows' = add_ovs_flows(flows, new)
             /\ Becomes(p, "added")
             /\ UNCHANGED addr
          \/ /\ "setup" \in Faults
             /\ \E done \in SUBSET new \ {new} : flows' = add_ovs_flows(flows, done)
             /\ Becomes(p, "gone") /\ Gone(p)
    /\ work' = Idle
    /\ UNCHANGED <<doomed, requests, ipam, netnsVars>>

(* The script.  On an error the address is given back and nothing else is undone. *)
SetupEnds(p) ==
    /\ work.at = "setup" /\ work.pod = p
    /\ LET new == FlowsFor(p, addr[p], work.vnid)
       IN \/ /\ flows' = add_ovs_flows(flows, new)
             /\ Becomes(p, "added")
             /\ UNCHANGED <<addr, ipam>>
          \/ /\ "setup" \in Faults
             /\ \E done \in SUBSET new \ {new} : flows' = add_ovs_flows(flows, done)
             /\ Becomes(p, "gone") /\ Gone(p)
             /\ ipam' = [ipam EXCEPT ![addr[p]] = NoPod]
    /\ work' = Idle
    /\ UNCHANGED <<doomed, requests, netnsVars>>

Answered == netnsJob' = [netnsJob EXCEPT !.at = "update"]

(* A plausible slip: an update that cannot be made waits for its turn again. *)
UpdateBegins_Again(p) ==
    /\ Serving("UPDATE", p)
    /\ LET id == vmap[NamespaceOf[p]]
       IN IF p \in SetUp /\ id # NoVNID
            THEN work' = [at |-> "update", pod |-> p, vnid |-> id] /\ Serve
            ELSE requests' = Append(Tail(requests), Head(requests)) /\ UNCHANGED work
    /\ UNCHANGED <<life, doomed, addr, ipam, flows, netnsVars>>

UpdateBegins(p) ==
    /\ Serving("UPDATE", p) /\ Serve
    /\ LET id == vmap[NamespaceOf[p]]
       IN \/ /\ p \in SetUp /\ id # NoVNID
             /\ work' = [at |-> "update", pod |-> p, vnid |-> id]
             /\ UNCHANGED netnsJob
          \/ /\ p \notin SetUp \/ id = NoVNID \/ "update" \in Faults
             /\ Answered
             /\ UNCHANGED work
    /\ UNCHANGED <<life, doomed, addr, vmap, ipam, flows>>

(* The sandbox and its interface are there: a DEL waits behind this request. *)
UpdateEnds(p) ==
    /\ work.at = "update" /\ work.pod = p
    /\ LET new     == FlowsFor(p, addr[p], work.vnid)
           deleted == del_ovs_flows(flows, addr[p])
       IN IF addr[p] = NoIP THEN UNCHANGED flows
          ELSE \/ flows' = add_ovs_flows(deleted, new)
               \/ /\ "update" \in Faults
                  /\ \/ flows' \in PartlyDeleted(flows, addr[p])
                     \/ \E done \in SUBSET new : flows' = add_ovs_flows(deleted, done)
    /\ Answered
    /\ work' = Idle
    /\ UNCHANGED <<life, doomed, addr, vmap, ipam, requests>>

(* The flows of the interface's address go, if there is still an interface, *)
(* then the address the pod holds is given back.                            *)
Teardown(p) ==
    /\ Serving("DEL", p) /\ Serve
    /\ Becomes(p, "gone")
    /\ \/ /\ flows' = del_ovs_flows(flows, addr[p])
          /\ ipam' = [ip \in IPs |-> IF ipam[ip] = p THEN NoPod ELSE ipam[ip]]
          /\ Gone(p)
       \/ /\ "teardown" \in Faults /\ addr[p] # NoIP
          /\ flows' \in PartlyDeleted(flows, addr[p])
          /\ Gone(p) /\ UNCHANGED ipam
    /\ UNCHANGED <<doomed, work, netnsVars>>

-----------------------------------------------------------------------------
(* nodeHandleNetnsEvent and updatePodNetwork, as far as pods go. *)

NetnsAdded(ns, id) ==
    /\ netnsJob = Idle
    /\ vmap[ns] # id
    /\ vmap' = [vmap EXCEPT ![ns] = id]
    /\ netnsJob' = [at |-> "list", ns |-> ns, removed |-> FALSE]
    /\ UNCHANGED <<podVars, addr, ipam, flows, requests, work>>

NetnsRemoved(ns) ==
    /\ netnsJob = Idle
    /\ netnsJob' = [at |-> "list", ns |-> ns, removed |-> TRUE]
    /\ UNCHANGED <<podVars, addr, vmap, ipam, flows, requests, work>>

LocalPods(ns) == {p \in Pods : InAPI(p) /\ NamespaceOf[p] = ns}
Running(p)    == life[p] \in {"running", "deleting"}

ListPods ==
    /\ netnsJob.at = "list"
    /\ \E pods \in {LocalPods(netnsJob.ns)} \cup IF "list" \in Faults THEN {{}} ELSE {} :
          netnsJob' = [at |-> "update", ns |-> netnsJob.ns, removed |-> netnsJob.removed,
                       run |-> {p \in pods : Running(p)}, others |-> {p \in pods : ~ Running(p)}]
    /\ UNCHANGED <<podVars, addr, vmap, ipam, flows, requests, work>>

UpdatePod(p) ==
    /\ netnsJob.at = "update" /\ p \in netnsJob.run
    /\ addRequest("UPDATE", p)
    /\ netnsJob' = [netnsJob EXCEPT !.at = "wait", !.run = @ \ {p}]
    /\ UNCHANGED <<podVars, addr, vmap, ipam, flows, work>>

(* A plausible slip: the pods that are not running are left as they are. *)
DeleteOther_Kept(p) ==
    /\ netnsJob.at = "update" /\ netnsJob.run = {} /\ p \in netnsJob.others
    /\ netnsJob' = [netnsJob EXCEPT !.others = @ \ {p}]
    /\ UNCHANGED <<podVars, addr, vmap, ipam, flows, requests, work>>

(* The pods that are not running yet, or no more, are deleted in Kubernetes; *)
(* when that fails nobody tries again.                                       *)
DeleteOther(p) ==
    /\ netnsJob.at = "update" /\ netnsJob.run = {} /\ p \in netnsJob.others
    /\ doomed' \in {IF InAPI(p) THEN doomed \cup {p} ELSE doomed}
                   \cup IF "delete" \in Faults THEN {doomed} ELSE {}
    /\ netnsJob' = [netnsJob EXCEPT !.others = @ \ {p}]
    /\ UNCHANGED <<life, addr, vmap, ipam, flows, requests, work>>

FinishNetns ==
    /\ netnsJob.at = "update" /\ netnsJob.run = {} /\ netnsJob.others = {}
    /\ vmap' = IF netnsJob.removed THEN [vmap EXCEPT ![netnsJob.ns] = NoVNID] ELSE vmap
    /\ netnsJob' = Idle
    /\ UNCHANGED <<podVars, addr, ipam, flows, requests, work>>

-----------------------------------------------------------------------------

Worker == \E p \in Pods : \/ SetupBegins(p) \/ SetupEnds(p)
                          \/ UpdateBegins(p) \/ UpdateEnds(p)
                          \/ Teardown(p)

NetnsCall == ListPods \/ FinishNetns \/ \E p \in Pods : UpdatePod(p) \/ DeleteOther(p)

Next == \/ \E p \in Pods : \/ CreatePod(p) \/ ReportRunning(p) \/ DeletePod(p)
                           \/ KubeletAdds(p) \/ KubeletDeletes(p)
        \/ Worker
        \/ \E ns \in Namespaces : NetnsRemoved(ns) \/ \E id \in NetIDs : NetnsAdded(ns, id)
        \/ NetnsCall

Spec == Init /\ [][Next]_vars

(* The worker never stops and every command it runs returns; a sender that  *)
(* waits for a place in the queue gets one in the end, since a Go channel   *)
(* serves its senders in their order.  kubelet may do nothing for ever.     *)
FairSpec == Spec /\ WF_vars(Worker) /\ SF_vars(NetnsCall)

-----------------------------------------------------------------------------
(* Properties. *)

(* Every variable holds what the code can put there. *)
TypeOK ==
    /\ life \in [Pods -> Lives] /\ doomed \subseteq Pods
    /\ addr \in [Pods -> IPs \cup {NoIP}]
    /\ vmap \in [Namespaces -> NetIDs \cup {NoVNID}]
    /\ ipam \in [IPs -> Pods \cup {NoPod}]
    /\ flows \subseteq Flows
    /\ requests \in Seq(Requests) /\ Len(requests) <= QueueCap
    /\ work \in Works
    /\ netnsJob \in NetnsJobs

InSetup(p) == work.at = "setup" /\ work.pod = p

(* A pod that is set up holds its address, so no two pods have the same one; *)
(* an address is held by a pod that is set up, being set up or waiting for   *)
(* its teardown and by no other: neither a failed setup nor a sandbox that   *)
(* died before its DEL leaves one behind.                                    *)
AddressesExact ==
    /\ \A p \in SetUp : addr[p] # NoIP /\ ipam[addr[p]] = p
    /\ \A ip \in IPs : ipam[ip] # NoPod =>
          LET p == ipam[ip] IN p \in SetUp \/ InSetup(p) \/ life[p] = "deleting"

FlowsOf(p) == {f \in flows : f.pod = p}

(* The flow of somebody else for packets that a flow of the pod is for. *)
Disputes(g, p) == g.pod # p /\ \E f \in FlowsOf(p) : Overlap(f, g)

(* The flows of a pod that is set up are those of one VNID and of its own    *)
(* address, all of them, whatever was set up, updated, torn down or left     *)
(* half done before it.  Nobody else has a flow for the same packets but a   *)
(* pod that is gone, which left it behind, and then one of the two is a flow *)
(* for all packets: it belongs to a pod of the global VNID.                  *)
FlowsOfOneVNID ==
    \A p \in SetUp :
        /\ \E id \in NetIDs : FlowsOf(p) = FlowsFor(p, addr[p], id)
        /\ \A g \in flows : Disputes(g, p) =>
              /\ life[g.pod] = "gone"
              /\ g.vnid = Everyone \/ To(p, addr[p], Everyone) \in FlowsOf(p)

(* So the packets for a pod are its own.  It does not hold: the flow for all *)
(* packets that a dead pod of the global VNID left on an address stays there *)
(* beside those of the next pod, once the namespace has another VNID.        *)
FlowsUndisputed == \A p \in SetUp : \A g \in flows : ~ Disputes(g, p)

(* In the end that VNID is the one of its namespace, although setup reads it *)
(* and writes the flows in two steps and updatePodNetwork lists only pods    *)
(* that Kubernetes knows to be running: the others it deletes.               *)
Stays(p, id) == p \in SetUp /\ p \notin doomed /\ vmap[NamespaceOf[p]] = id
PodsTagged ==
    \A p \in Pods : \A id \in NetIDs :
        <>[]Stays(p, id) => <>[](FlowsOf(p) = FlowsFor(p, addr[p], id))

(* Whoever waits for an answer gets one: kubelet for a pod, and the goroutine *)
(* of the records for each UPDATE, while requests of others keep coming.      *)
EveryRequestAnswered ==
    /\ \A p \in Pods : /\ (life[p] = "adding") ~> (life[p] # "adding")
                       /\ (life[p] = "deleting") ~> (life[p] # "deleting")
    /\ (netnsJob # Idle) ~> (netnsJob = Idle)
=============================================================================
