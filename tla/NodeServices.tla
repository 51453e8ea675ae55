---------------------------- MODULE NodeServices ----------------------------
(***************************************************************************)
(* The service rules of one node (src/ksdn/vnids_node.go): a flow of table *)
(* 4 per port of each service lets the pods of the service's VNID reach    *)
(* it; a rule for the global VNID lets everyone.                           *)
(*                                                                         *)
(* Two goroutines write the rules and share only the VNID map:             *)
(* watchServices, fed by an EventQueue of the services, and                *)
(* nodeHandleNetnsEvent, fed by the watch of the records, which moves all  *)
(* services of a namespace to another VNID.  Neither holds a lock, so each *)
(* call to Kubernetes, to the map and to OVS is a step: svcJob and         *)
(* netnsJob are what each of them does next.                               *)
(*                                                                         *)
(* AddServiceRules and DeleteServiceRules go through the ports one by one. *)
(* The ports of a service do not touch each other's flows, so a call is    *)
(* one step here; one that fails has gone through some of the ports.       *)
(* Port lists are sets: that isServiceChanged takes the same ports in      *)
(* another order for a change, and writes their rules anew, is left out.   *)
(***************************************************************************)
EXTENDS NodeVnidMap, Deltas, Naturals, Sequences

CONSTANTS Services,
          UIDs,         \* UIDs of service objects
          Ports,        \* what a rule matches: cluster IP, protocol and port
          NamespaceOf,  \* the namespace of each service
          PortsOf,      \* the port lists each service may have, in the order it takes them
          MayRevert,    \* whether a service may return to an earlier list
          Faults,       \* a subset of FaultKinds
          MaxRestarts,  \* how often the node may crash and start again
          NoService, NoPorts

FaultKinds == {"ovs", "list"}   \* a flow cannot be written, the services cannot be listed

Objects      == [uid : UIDs, ports : SUBSET Ports]
PortLists(s) == {PortsOf[s][i] : i \in DOMAIN PortsOf[s]}

ASSUME NodeServicesAssumption ==
    /\ NamespaceOf \in [Services -> Namespaces]
    /\ PortsOf \in [Services -> Seq(SUBSET Ports)]
    /\ \A s, t \in Services : s # t => (UNION PortLists(s)) \cap (UNION PortLists(t)) = {}
    /\ Faults \subseteq FaultKinds
    /\ MayRevert \in BOOLEAN /\ MaxRestarts \in Nat
    /\ NoService \notin Objects

VARIABLES kube,      \* the service objects in Kubernetes
          svcDelta,  \* the delta of each service waiting in the EventQueue
          vmap,      \* node.vnids
          services,  \* watchServices: the ports of the services it has added, by UID
          rules,     \* the flows of table 4
          svcJob, netnsJob,
          restarts

vars == <<kube, svcDelta, vmap, services, rules, svcJob, netnsJob, restarts>>

NoDelta  == [type |-> "None", obj |-> NoService]
Rules    == [at : Ports, vnid : NetIDs]
Listed   == [svc : Services, obj : Objects]
Idle     == [at |-> "idle"]
SvcJobs  == {Idle} \cup [at : {"wait"}, svc : Services, obj : Objects]
                   \cup [at : {"add"}, svc : Services, obj : Objects, id : NetIDs]
NetnsJobs == {Idle} \cup [at : {"list"}, ns : Namespaces, id : NetIDs, removed : BOOLEAN]
                    \cup [at : {"delete"}, ns : Namespaces, id : NetIDs, removed : BOOLEAN,
                          todo : SUBSET Listed]
                    \cup [at : {"add"}, ns : Namespaces, id : NetIDs, removed : BOOLEAN,
                          todo : SUBSET Listed, cur : Listed]

-----------------------------------------------------------------------------

Init == /\ kube = [s \in Services |-> NoService]
        /\ svcDelta = [s \in Services |-> NoDelta]
        /\ vmap = newNodeVNIDMap
        /\ services = [u \in UIDs |-> NoPorts]
        /\ rules = {}
        /\ svcJob = Idle /\ netnsJob = Idle
        /\ restarts = 0

-----------------------------------------------------------------------------
(* Kubernetes and its reflector. *)

Queue(s, type, obj) ==
    LET t == queueActionLocked(svcDelta[s].type, type)
    IN svcDelta' = [svcDelta EXCEPT ![s] = IF t = "None" THEN NoDelta ELSE [type |-> t, obj |-> obj]]

UIDsInUse == {o.uid : o \in ({kube[s] : s \in Services} \cup {svcDelta[s].obj : s \in Services}) \ {NoService}}
                \cup (IF svcJob = Idle THEN {} ELSE {svcJob.obj.uid})

(* A new object has a UID of its own.  The model uses one again that no object, *)
(* delta or job has any more; what `services` says of it is never read again.   *)
CreateService(s, ports) ==
    /\ kube[s] = NoService
    /\ UIDs \ UIDsInUse # {}
    /\ LET uid == CHOOSE u \in UIDs : u \notin UIDsInUse
           obj == [uid |-> uid, ports |-> ports]
       IN /\ kube' = [kube EXCEPT ![s] = obj]
          /\ Queue(s, "Added", obj)
          /\ services' = [services EXCEPT ![uid] = NoPorts]
    /\ UNCHANGED <<vmap, rules, svcJob, netnsJob, restarts>>

UpdateService(s) ==
    /\ kube[s] # NoService
    /\ \E i, j \in DOMAIN PortsOf[s] :
          /\ kube[s].ports = PortsOf[s][i] /\ (i < j \/ (MayRevert /\ i # j))
          /\ kube' = [kube EXCEPT ![s].ports = PortsOf[s][j]]
    /\ Queue(s, "Updated", kube'[s])
    /\ UNCHANGED <<vmap, services, rules, svcJob, netnsJob, restarts>>

DeleteService(s) ==
    /\ kube[s] # NoService
    /\ kube' = [kube EXCEPT ![s] = NoService]
    /\ Queue(s, "Deleted", kube[s])
    /\ UNCHANGED <<vmap, services, rules, svcJob, netnsJob, restarts>>

(* Every 30 minutes. *)
Resync(s) ==
    /\ kube[s] # NoService /\ svcDelta[s] = NoDelta
    /\ Queue(s, "Sync", kube[s])
    /\ UNCHANGED <<kube, vmap, services, rules, svcJob, netnsJob, restarts>>

-----------------------------------------------------------------------------
(* The flows.  A rule is removed whatever its VNID. *)

RulesFor(ports, id) == {[at |-> p, vnid |-> id] : p \in ports}
RulesAt(ports)      == {r \in rules : r.at \in ports}

(* The ports a call gets done: all of them, or, when a flow fails, some. *)
Attempts(ports) == IF "ovs" \in Faults THEN SUBSET ports ELSE {ports}

AddedRules(ports, id) == {rules \cup RulesFor(done, id) : done \in Attempts(ports)}

(* A plausible slip: a rule is left to be overwritten. *)
DeletedRules_Nothing(ports) == {rules}

DeletedRules(ports) == {rules \ RulesAt(done) : done \in Attempts(ports)}

-----------------------------------------------------------------------------
(* watchServices: the next delta, up to the lookup of the VNID. *)

PopService(s) ==
    LET type == svcDelta[s].type
        obj  == svcDelta[s].obj
        old  == services[obj.uid]
    IN /\ svcJob = Idle
       /\ type # "None"
       /\ svcDelta' = [svcDelta EXCEPT ![s] = NoDelta]
       /\ \/ /\ type # "Deleted"
             /\ old = obj.ports          \* isServiceChanged says no
             /\ UNCHANGED <<services, rules, svcJob>>
          \/ /\ type # "Deleted"
             /\ old # obj.ports
             /\ IF old = NoPorts THEN UNCHANGED rules ELSE rules' \in DeletedRules(old)
             /\ svcJob' = [at |-> "wait", svc |-> s, obj |-> obj]
             /\ UNCHANGED services
          \/ /\ type = "Deleted"
             /\ services' = [services EXCEPT ![obj.uid] = NoPorts]
             /\ rules' \in DeletedRules(obj.ports)
             /\ UNCHANGED svcJob
       /\ UNCHANGED <<kube, vmap, netnsJob, restarts>>

(* WaitAndGetVNID: it gives up when the VNID stays unknown for a second. *)
WaitAndGetVNID ==
    /\ svcJob.at = "wait"
    /\ LET ns == NamespaceOf[svcJob.svc]
       IN svcJob' = IF Knows(vmap, ns)
                      THEN [at |-> "add", svc |-> svcJob.svc, obj |-> svcJob.obj, id |-> vmap.ids[ns]]
                      ELSE Idle
    /\ UNCHANGED <<kube, svcDelta, vmap, services, rules, netnsJob, restarts>>

(* A service whose rules could not be written is not remembered, whatever *)
(* rules were there before.                                               *)
AddService ==
    /\ svcJob.at = "add"
    /\ \E done \in Attempts(svcJob.obj.ports) :
          /\ rules' = rules \cup RulesFor(done, svcJob.id)
          /\ services' = IF done = svcJob.obj.ports
                           THEN [services EXCEPT ![svcJob.obj.uid] = done]
                           ELSE services
    /\ svcJob' = Idle
    /\ UNCHANGED <<kube, svcDelta, vmap, netnsJob, restarts>>

-----------------------------------------------------------------------------
(* nodeHandleNetnsEvent and updatePodNetwork.  The watch may hand over any  *)
(* record at any time (EtcdWatch says which it does).  An event of a        *)
(* deletion comes with the path of the record, a name no namespace has, and *)
(* changes nothing; a snapshot may report the name itself as removed.       *)

(* A plausible slip: a namespace that is new to the node has no services yet. *)
NetnsAdded_KnownOnly(ns, id) ==
    /\ netnsJob = Idle
    /\ vmap.ids[ns] # id
    /\ vmap' = setVNID(vmap, ns, id)
    /\ netnsJob' = IF Knows(vmap, ns) THEN [at |-> "list", ns |-> ns, id |-> id, removed |-> FALSE] ELSE Idle
    /\ UNCHANGED <<kube, svcDelta, services, rules, svcJob, restarts>>

NetnsAdded(ns, id) ==
    /\ netnsJob = Idle
    /\ vmap.ids[ns] # id
    /\ vmap' = setVNID(vmap, ns, id)
    /\ netnsJob' = [at |-> "list", ns |-> ns, id |-> id, removed |-> FALSE]
    /\ UNCHANGED <<kube, svcDelta, services, rules, svcJob, restarts>>

NetnsRemoved(ns) ==
    /\ netnsJob = Idle
    /\ netnsJob' = [at |-> "list", ns |-> ns, id |-> GlobalVNID, removed |-> TRUE]
    /\ UNCHANGED <<kube, svcDelta, vmap, services, rules, svcJob, restarts>>

ServicesIn(ns) == {[svc |-> s, obj |-> kube[s]] : s \in {t \in Services : NamespaceOf[t] = ns /\ kube[t] # NoService}}

ListServices ==
    /\ netnsJob.at = "list"
    /\ \E listed \in {ServicesIn(netnsJob.ns)} \cup IF "list" \in Faults THEN {{}} ELSE {} :
          netnsJob' = [at |-> "delete", ns |-> netnsJob.ns, id |-> netnsJob.id,
                       removed |-> netnsJob.removed, todo |-> listed]
    /\ UNCHANGED <<kube, svcDelta, vmap, services, rules, svcJob, restarts>>

(* The services one by one: the rules at its ports go, those of the new VNID come. *)
DeleteListed(l) ==
    /\ netnsJob.at = "delete" /\ l \in netnsJob.todo
    /\ rules' \in DeletedRules(l.obj.ports)
    /\ netnsJob' = [at |-> "add", ns |-> netnsJob.ns, id |-> netnsJob.id, removed |-> netnsJob.removed,
                    todo |-> netnsJob.todo \ {l}, cur |-> l]
    /\ UNCHANGED <<kube, svcDelta, vmap, services, svcJob, restarts>>

AddListed ==
    /\ netnsJob.at = "add"
    /\ rules' \in AddedRules(netnsJob.cur.obj.ports, netnsJob.id)
    /\ netnsJob' = [at |-> "delete", ns |-> netnsJob.ns, id |-> netnsJob.id, removed |-> netnsJob.removed,
                    todo |-> netnsJob.todo]
    /\ UNCHANGED <<kube, svcDelta, vmap, services, svcJob, restarts>>

FinishNetns ==
    /\ netnsJob.at = "delete" /\ netnsJob.todo = {}
    /\ vmap' = IF netnsJob.removed THEN unsetVNID(vmap, netnsJob.ns) ELSE vmap
    /\ netnsJob' = Idle
    /\ UNCHANGED <<kube, svcDelta, services, rules, svcJob, restarts>>

-----------------------------------------------------------------------------
(* A crash and the next start: the map from the records, whatever they are  *)
(* by then, the rules of a bridge that is set up already or none, a list of *)
(* the services.                                                            *)
Restart ==
    /\ restarts < MaxRestarts
    /\ restarts' = restarts + 1
    /\ vmap' \in populateVNIDs
    /\ rules' \in {rules, {}}
    /\ svcDelta' = [s \in Services |-> IF kube[s] = NoService THEN NoDelta
                                       ELSE [type |-> "Sync", obj |-> kube[s]]]
    /\ services' = [u \in UIDs |-> NoPorts]
    /\ svcJob' = Idle /\ netnsJob' = Idle
    /\ UNCHANGED kube

KubeStep == \E s \in Services : \/ \E ports \in PortLists(s) : CreateService(s, ports)
                                \/ UpdateService(s)
                                \/ DeleteService(s)
                                \/ Resync(s)

NetnsCall == ListServices \/ (\E l \in Listed : DeleteListed(l)) \/ AddListed \/ FinishNetns

Next == \/ KubeStep
        \/ \E s \in Services : PopService(s)
        \/ WaitAndGetVNID
        \/ AddService
        \/ \E ns \in Namespaces : \E id \in NetIDs : NetnsAdded(ns, id)
        \/ \E ns \in Namespaces : NetnsRemoved(ns)
        \/ NetnsCall
        \/ Restart

Spec == Init /\ [][Next]_vars

(* The goroutines never stop and every call returns; the EventQueue is first *)
(* in, first out, so no delta is passed over for ever.  Nothing is assumed   *)
(* of Kubernetes, the watch of the records or the resync timer.              *)
FairSpec == /\ Spec
            /\ \A s \in Services : SF_vars(PopService(s))
            /\ WF_vars(WaitAndGetVNID) /\ WF_vars(AddService) /\ WF_vars(NetnsCall)

-----------------------------------------------------------------------------
(* Properties. *)

(* Every variable holds what the code can put there; no combination of      *)
(* service deltas panics.                                                   *)
TypeOK ==
    /\ kube \in [Services -> Objects \cup {NoService}]
    /\ svcDelta \in [Services -> {NoDelta} \cup [type : DeltaTypes, obj : Objects]]
    /\ vmap \in NodeVnidMaps
    /\ services \in [UIDs -> (SUBSET Ports) \cup {NoPorts}]
    /\ rules \subseteq Rules
    /\ svcJob \in SvcJobs
    /\ netnsJob \in NetnsJobs
    /\ restarts \in 0 .. MaxRestarts

(* The two maps of the code say the same, whatever is set, unset or started *)
(* again.                                                                   *)
NodeMapsAgree == MapsAgree(vmap)

StayObjects(s) == [uid : UIDs, ports : PortLists(s)]
Stays(s, obj, id) == kube[s] = obj /\ vmap.ids[NamespaceOf[s]] = id
RulesOf(s) == RulesAt(UNION PortLists(s))

(* A service that stays, in a namespace whose VNID stays, can be reached by *)
(* the pods of that VNID in the end and for good, whichever of the two      *)
(* goroutines was first to see the service, its ports and the VNID.         *)
ServiceReachable ==
    \A s \in Services : \A obj \in StayObjects(s) : \A id \in NetIDs :
        <>[]Stays(s, obj, id) => <>[](RulesFor(obj.ports, id) \subseteq rules)

(* The goroutines meet: one works on the services of a namespace while the  *)
(* other has something to do for one of them.                               *)
Meet(s) == netnsJob # Idle /\ (svcDelta[s] # NoDelta \/ svcJob # Idle)

(* A delta that waits no longer says which rules there are for its service: *)
(* the rules are those of other ports, or of an object with another UID.    *)
Outdated(s) == LET d == svcDelta[s]
               IN /\ d # NoDelta
                  /\ \E r \in RulesOf(s) : r.at \notin (IF d.type = "Deleted" THEN d.obj.ports
                                                        ELSE IF services[d.obj.uid] = NoPorts THEN {}
                                                        ELSE services[d.obj.uid])

(* When neither happens, and the node is not started again over rules it did *)
(* not write, the rules of a service are, in the end, those of its ports and *)
(* its VNID and no others, and a service that is gone has none: no pod of    *)
(* another VNID reaches a service, or an address that once was one.          *)
RulesExact ==
    \A s \in Services : \A id \in NetIDs :
        [](~ Meet(s) /\ ~ Outdated(s) /\ restarts = 0)
          => /\ \A obj \in StayObjects(s) :
                  <>[]Stays(s, obj, id) => <>[](RulesOf(s) = RulesFor(obj.ports, id))
             /\ <>[](kube[s] = NoService) => <>[](RulesOf(s) = {})

(* The same whatever the goroutines do at once.                             *)
RulesAlwaysExact ==
    \A s \in Services : \A id \in NetIDs : \A obj \in StayObjects(s) :
        <>[]Stays(s, obj, id) => <>[](RulesOf(s) = RulesFor(obj.ports, id))
=============================================================================
