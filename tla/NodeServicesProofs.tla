------------------------- MODULE NodeServicesProofs -------------------------
(***************************************************************************)
(* Type correctness of NodeServices and the agreement of the two maps of a *)
(* node's VNIDs, for all values of the constants.                          *)
(***************************************************************************)
EXTENDS NodeServices, TLAPS

(* What waits for a service tells whether Kubernetes still has it. *)
DeltaFits ==
    \A s \in Services :
        /\ kube[s] # NoService => svcDelta[s].type # "Deleted"
        /\ kube[s] = NoService => svcDelta[s].type \in {"None", "Deleted"}

Deltas == {NoDelta} \cup [type : DeltaTypes, obj : Objects]

(* What a step may find, and must leave, of the services and their queue ... *)
KubeType == /\ kube \in [Services -> Objects \cup {NoService}]
            /\ svcDelta \in [Services -> Deltas]
            /\ DeltaFits

(* ... and of everything else. *)
NodeType == /\ services \in [UIDs -> (SUBSET Ports) \cup {NoPorts}]
            /\ rules \subseteq Rules
            /\ restarts \in 0 .. MaxRestarts

MapInv == vmap \in NodeVnidMaps /\ MapsAgree(vmap)

JobType == svcJob \in SvcJobs /\ netnsJob \in NetnsJobs

TypeInv == KubeType /\ NodeType /\ MapInv /\ JobType

-----------------------------------------------------------------------------
(* The VNID map. *)

(* Setting a VNID moves the namespace from the set of the old one to that of *)
(* the new one.                                                              *)
LEMMA SetVNIDAgrees ==
    ASSUME NEW vm \in NodeVnidMaps, MapsAgree(vm), NEW ns \in Namespaces, NEW id \in NetIDs
    PROVE  setVNID(vm, ns, id) \in NodeVnidMaps /\ MapsAgree(setVNID(vm, ns, id))
<1> DEFINE left == IF Knows(vm, ns) THEN removeNamespaceFromSet(vm, ns) ELSE vm.namespaces
           new  == setVNID(vm, ns, id)
<1>1. /\ vm.ids \in [Namespaces -> NetIDs \cup {NoVNID}]
      /\ vm.namespaces \in [NetIDs -> SUBSET Namespaces]
  BY DEF NodeVnidMaps
<1>2. /\ left \in [NetIDs -> SUBSET Namespaces]
      /\ \A i \in NetIDs : left[i] = {n \in Namespaces : vm.ids[n] = i} \ {ns}
  <2>1. CASE Knows(vm, ns)
    <3>1. vm.ids[ns] \in NetIDs
      BY <1>1, <2>1 DEF Knows
    <3>2. left = [vm.namespaces EXCEPT ![vm.ids[ns]] = @ \ {ns}]
      BY <2>1 DEF removeNamespaceFromSet
    <3> QED BY <1>1, <3>1, <3>2 DEF MapsAgree
  <2>2. CASE ~ Knows(vm, ns)
    <3>1. left = vm.namespaces /\ vm.ids[ns] = NoVNID
      BY <2>2 DEF Knows
    <3> HIDE DEF left
    <3>2. \A i \in NetIDs : ns \notin {n \in Namespaces : vm.ids[n] = i}
      BY <3>1, NodeVnidMapAssumption
    <3> QED BY <1>1, <3>1, <3>2 DEF MapsAgree
  <2> QED BY <2>1, <2>2
<1>3. new = [ids |-> [vm.ids EXCEPT ![ns] = id], namespaces |-> [left EXCEPT ![id] = @ \cup {ns}]]
  BY DEF setVNID
<1> HIDE DEF left, new
<1>4. new \in NodeVnidMaps
  BY <1>1, <1>2, <1>3 DEF NodeVnidMaps
<1>5. \A n \in Namespaces : new.ids[n] = IF n = ns THEN id ELSE vm.ids[n]
  BY <1>1, <1>3
<1>6. \A i \in NetIDs : new.namespaces[i] = IF i = id THEN left[i] \cup {ns} ELSE left[i]
  BY <1>2, <1>3
<1>7. ASSUME NEW i \in NetIDs PROVE new.namespaces[i] = {n \in Namespaces : new.ids[n] = i}
  <2>1. left[i] = {n \in Namespaces : vm.ids[n] = i} \ {ns}
    BY <1>2
  <2>2. CASE i = id
    <3>1. new.namespaces[i] = left[i] \cup {ns}
      BY <1>6, <2>2
    <3>2. \A n \in Namespaces : new.ids[n] = i <=> n = ns \/ vm.ids[n] = i
      BY <1>5, <2>2
    <3> QED BY <2>1, <3>1, <3>2
  <2>3. CASE i # id
    <3>1. new.namespaces[i] = left[i]
      BY <1>6, <2>3
    <3>2. \A n \in Namespaces : new.ids[n] = i <=> n # ns /\ vm.ids[n] = i
      BY <1>5, <2>3
    <3> QED BY <2>1, <3>1, <3>2
  <2> QED BY <2>2, <2>3
<1> QED BY <1>4, <1>7 DEF MapsAgree, new

(* Unsetting takes it out of both. *)
LEMMA UnsetVNIDAgrees ==
    ASSUME NEW vm \in NodeVnidMaps, MapsAgree(vm), NEW ns \in Namespaces
    PROVE  unsetVNID(vm, ns) \in NodeVnidMaps /\ MapsAgree(unsetVNID(vm, ns))
<1> DEFINE new == unsetVNID(vm, ns)
<1>1. /\ vm.ids \in [Namespaces -> NetIDs \cup {NoVNID}]
      /\ vm.namespaces \in [NetIDs -> SUBSET Namespaces]
  BY DEF NodeVnidMaps
<1>2. CASE ~ Knows(vm, ns)
  BY <1>2 DEF unsetVNID
<1>3. CASE Knows(vm, ns)
  <2>1. vm.ids[ns] \in NetIDs
    BY <1>1, <1>3 DEF Knows
  <2>2. new = [ids |-> [vm.ids EXCEPT ![ns] = NoVNID],
               namespaces |-> [vm.namespaces EXCEPT ![vm.ids[ns]] = @ \ {ns}]]
    BY <1>3 DEF unsetVNID, removeNamespaceFromSet
  <2> HIDE DEF new
  <2>3. new \in NodeVnidMaps
    BY <1>1, <2>1, <2>2 DEF NodeVnidMaps
  <2>4. \A n \in Namespaces : new.ids[n] = IF n = ns THEN NoVNID ELSE vm.ids[n]
    BY <1>1, <2>2
  <2>5. \A i \in NetIDs :
           new.namespaces[i] = IF i = vm.ids[ns] THEN vm.namespaces[i] \ {ns} ELSE vm.namespaces[i]
    BY <1>1, <2>1, <2>2
  <2>6. ASSUME NEW i \in NetIDs PROVE new.namespaces[i] = {n \in Namespaces : new.ids[n] = i}
    <3>1. vm.namespaces[i] = {n \in Namespaces : vm.ids[n] = i}
      BY DEF MapsAgree
    <3>2. i # NoVNID
      BY NodeVnidMapAssumption
    <3>3. CASE i = vm.ids[ns]
      BY <2>4, <2>5, <3>1, <3>2, <3>3
    <3>4. CASE i # vm.ids[ns]
      <4>1. new.namespaces[i] = vm.namespaces[i]
        BY <2>5, <3>4
      <4>2. \A n \in Namespaces : new.ids[n] = i <=> vm.ids[n] = i
        BY <2>4, <3>2, <3>4
      <4> QED BY <3>1, <4>1, <4>2
    <3> QED BY <3>3, <3>4
  <2> QED BY <2>3, <2>6 DEF MapsAgree, new
<1> QED BY <1>2, <1>3

(* The map of a starting node is built from one list of records. *)
LEMMA PopulateAgrees ==
    ASSUME NEW vm \in populateVNIDs
    PROVE  vm \in NodeVnidMaps /\ MapsAgree(vm)
  BY DEF populateVNIDs, NodeVnidMaps, MapsAgree

(* So is an empty one. *)
LEMMA NewAgrees == newNodeVNIDMap \in NodeVnidMaps /\ MapsAgree(newNodeVNIDMap)
  BY NodeVnidMapAssumption DEF newNodeVNIDMap, NodeVnidMaps, MapsAgree

-----------------------------------------------------------------------------
(* The queue, the rules and the jobs. *)

(* One delta is all that waits for a service, and the combinations a consumer *)
(* meets are in the matrix.                                                   *)
LEMMA QueueActionType ==
    ASSUME NEW old \in PendingTypes
    PROVE  /\ old \in {"None", "Deleted"} =>
                queueActionLocked(old, "Added") \in {"Added", "Updated"}
           /\ old # "Deleted" =>
                queueActionLocked(old, "Updated") \in {"Added", "Sync", "Updated"}
           /\ queueActionLocked(old, "Deleted") \in {"None", "Deleted"}
           /\ queueActionLocked("None", "Sync") = "Sync"
  BY DEF queueActionLocked, deltaCompressor, deltaActionMatrix, PendingTypes, DeltaTypes

(* The type of a delta, and its object unless there is none. *)
LEMMA DeltaType ==
    ASSUME NEW d \in Deltas
    PROVE  /\ d.type \in PendingTypes
           /\ d.type # "None" => d.type \in DeltaTypes /\ d.obj \in Objects
  BY DEF Deltas, NoDelta, PendingTypes

(* Queueing an object keeps the queue well typed. *)
LEMMA QueueType ==
    ASSUME KubeType, NEW s \in Services, NEW type, NEW obj \in Objects,
           queueActionLocked(svcDelta[s].type, type) \in PendingTypes, Queue(s, type, obj)
    PROVE  /\ svcDelta' \in [Services -> Deltas]
           /\ svcDelta'[s].type = queueActionLocked(svcDelta[s].type, type)
           /\ \A t \in Services : t # s => svcDelta'[t] = svcDelta[t]
<1> DEFINE t == queueActionLocked(svcDelta[s].type, type)
           d == IF t = "None" THEN NoDelta ELSE [type |-> t, obj |-> obj]
<1>1. d \in Deltas /\ d.type = t
  BY DEF Deltas, NoDelta, PendingTypes
<1>2. svcDelta' = [svcDelta EXCEPT ![s] = d]
  BY DEF Queue
<1> HIDE DEF d, t
<1> QED BY <1>1, <1>2 DEF KubeType, t

(* The calls that write rules leave rules. *)
LEMMA RulesType ==
    ASSUME rules \subseteq Rules, NEW ports \in SUBSET Ports, NEW id \in NetIDs
    PROVE  /\ \A r \in AddedRules(ports, id) : r \subseteq Rules
           /\ \A r \in DeletedRules(ports) : r \subseteq Rules
<1>1. \A done \in SUBSET ports : rules \cup RulesFor(done, id) \subseteq Rules
  BY DEF RulesFor, Rules
<1> QED BY <1>1 DEF AddedRules, DeletedRules, Attempts

(* What a job of each kind holds. *)
LEMMA SvcJobShape ==
    ASSUME NEW j \in SvcJobs
    PROVE  /\ j.at \in {"wait", "add"} => j.svc \in Services /\ j.obj \in Objects
           /\ j.at = "add" => j.id \in NetIDs
  BY DEF SvcJobs, Idle

(* The same for the goroutine of the records: the services listed are still to do. *)
LEMMA NetnsJobShape ==
    ASSUME NEW j \in NetnsJobs
    PROVE  /\ j.at \in {"list", "delete", "add"} =>
                j.ns \in Namespaces /\ j.id \in NetIDs /\ j.removed \in BOOLEAN
           /\ j.at \in {"delete", "add"} => j.todo \in SUBSET Listed
           /\ j.at = "add" => j.cur \in Listed
  BY DEF NetnsJobs, Idle

(* The services Kubernetes lists are services of Kubernetes. *)
LEMMA ListedType ==
    ASSUME KubeType, NEW ns \in Namespaces
    PROVE  ServicesIn(ns) \subseteq Listed
  BY DEF KubeType, ServicesIn, Listed

-----------------------------------------------------------------------------
(* Kubernetes. *)

(* A new object gets a UID that nothing else uses and is queued as Added. *)
LEMMA CreateType ==
    ASSUME TypeInv, NEW s \in Services, NEW ports \in PortLists(s), CreateService(s, ports)
    PROVE  TypeInv'
<1> DEFINE uid == CHOOSE u \in UIDs : u \notin UIDsInUse
           obj == [uid |-> uid, ports |-> ports]
<1>1. uid \in UIDs /\ ports \in SUBSET Ports
  <2>1. \E u \in UIDs : u \notin UIDsInUse
    BY DEF CreateService
  <2>2. ports \in SUBSET Ports
    BY NodeServicesAssumption DEF PortLists
  <2> QED BY <2>1, <2>2
<1>2. /\ kube[s] = NoService
      /\ kube' = [kube EXCEPT ![s] = obj]
      /\ Queue(s, "Added", obj)
      /\ services' = [services EXCEPT ![uid] = NoPorts]
  BY DEF CreateService
<1> HIDE DEF uid
<1>3. obj \in Objects
  BY <1>1 DEF Objects
<1> HIDE DEF obj
<1>4. svcDelta[s].type \in PendingTypes /\ svcDelta[s].type \in {"None", "Deleted"}
  BY <1>2, DeltaType DEF TypeInv, KubeType, DeltaFits
<1>5. queueActionLocked(svcDelta[s].type, "Added") \in {"Added", "Updated"}
  BY <1>4, QueueActionType
<1>6. /\ svcDelta' \in [Services -> Deltas]
      /\ svcDelta'[s].type \in {"Added", "Updated"}
      /\ \A t \in Services : t # s => svcDelta'[t] = svcDelta[t]
  BY <1>2, <1>3, <1>5, QueueType DEF TypeInv, PendingTypes, DeltaTypes
<1>7. kube' \in [Services -> Objects \cup {NoService}] /\ \A t \in Services : t # s => kube'[t] = kube[t]
  BY <1>2, <1>3 DEF TypeInv, KubeType
<1>8. DeltaFits'
  <2>1. ASSUME NEW t \in Services, t # s
        PROVE  /\ kube'[t] # NoService => svcDelta'[t].type # "Deleted"
               /\ kube'[t] = NoService => svcDelta'[t].type \in {"None", "Deleted"}
    BY <1>6, <1>7, <2>1 DEF TypeInv, KubeType, DeltaFits
  <2>2. kube'[s] = obj
    BY <1>2 DEF TypeInv, KubeType
  <2>3. CASE obj # NoService
    BY <1>6, <2>1, <2>2, <2>3 DEF DeltaFits
  <2>4. CASE obj = NoService
    BY <1>3, <2>4, NodeServicesAssumption
  <2> QED BY <2>3, <2>4
<1>9. services' \in [UIDs -> (SUBSET Ports) \cup {NoPorts}]
  BY <1>1, <1>2 DEF TypeInv, NodeType
<1> QED BY <1>6, <1>7, <1>8, <1>9 DEF TypeInv, KubeType, NodeType, MapInv, JobType, CreateService

(* A changed object is queued with its new ports. *)
LEMMA UpdateType ==
    ASSUME TypeInv, NEW s \in Services, UpdateService(s)
    PROVE  TypeInv'
<1>1. PICK ports \in SUBSET Ports : /\ kube[s] # NoService
                                    /\ kube' = [kube EXCEPT ![s].ports = ports]
                                    /\ Queue(s, "Updated", kube'[s])
  <2>1. PICK j \in DOMAIN PortsOf[s] : kube' = [kube EXCEPT ![s].ports = PortsOf[s][j]]
    BY DEF UpdateService
  <2>2. PortsOf[s][j] \in SUBSET Ports
    <3>1. PortsOf[s] \in Seq(SUBSET Ports)
      BY NodeServicesAssumption
    <3> QED BY <2>1, <3>1
  <2> QED BY <2>1, <2>2 DEF UpdateService
<1>2. kube[s] \in Objects
  BY <1>1 DEF TypeInv, KubeType
<1>3. PICK obj : obj = [kube[s] EXCEPT !.ports = ports]
  OBVIOUS
<1>4. obj \in Objects
  BY <1>2, <1>3 DEF Objects
<1>5. kube' = [kube EXCEPT ![s] = obj]
  BY <1>1, <1>3 DEF TypeInv, KubeType
<1>6. kube'[s] = obj /\ Queue(s, "Updated", obj)
  BY <1>1, <1>5 DEF TypeInv, KubeType
<1>7. svcDelta[s].type \in PendingTypes /\ svcDelta[s].type # "Deleted"
  BY <1>1, DeltaType DEF TypeInv, KubeType, DeltaFits
<1>8. queueActionLocked(svcDelta[s].type, "Updated") \in {"Added", "Sync", "Updated"}
  BY <1>7, QueueActionType
<1>9. /\ svcDelta' \in [Services -> Deltas]
      /\ svcDelta'[s].type \in {"Added", "Sync", "Updated"}
      /\ \A t \in Services : t # s => svcDelta'[t] = svcDelta[t]
  BY <1>4, <1>6, <1>8, QueueType DEF TypeInv, PendingTypes, DeltaTypes
<1>10. kube' \in [Services -> Objects \cup {NoService}] /\ \A t \in Services : t # s => kube'[t] = kube[t]
  BY <1>4, <1>5 DEF TypeInv, KubeType
<1>11. obj # NoService
  BY <1>4, NodeServicesAssumption
<1>12. DeltaFits'
  BY <1>6, <1>9, <1>10, <1>11 DEF TypeInv, KubeType, DeltaFits
<1> QED BY <1>9, <1>10, <1>12 DEF TypeInv, KubeType, NodeType, MapInv, JobType, UpdateService

(* An object that goes is queued as Deleted, unless its Added still waits. *)
LEMMA DeleteType ==
    ASSUME TypeInv, NEW s \in Services, DeleteService(s)
    PROVE  TypeInv'
<1>1. /\ kube[s] # NoService
      /\ kube' = [kube EXCEPT ![s] = NoService]
      /\ Queue(s, "Deleted", kube[s])
  BY DEF DeleteService
<1>2. kube[s] \in Objects
  BY <1>1 DEF TypeInv, KubeType
<1>3. svcDelta[s].type \in PendingTypes
  BY DeltaType DEF TypeInv, KubeType
<1>4. queueActionLocked(svcDelta[s].type, "Deleted") \in {"None", "Deleted"}
  BY <1>3, QueueActionType
<1>5. /\ svcDelta' \in [Services -> Deltas]
      /\ svcDelta'[s].type \in {"None", "Deleted"}
      /\ \A t \in Services : t # s => svcDelta'[t] = svcDelta[t]
  BY <1>1, <1>2, <1>4, QueueType DEF TypeInv, PendingTypes, DeltaTypes
<1>6. /\ kube' \in [Services -> Objects \cup {NoService}]
      /\ kube'[s] = NoService
      /\ \A t \in Services : t # s => kube'[t] = kube[t]
  BY <1>1 DEF TypeInv, KubeType
<1>7. DeltaFits'
  BY <1>5, <1>6 DEF TypeInv, KubeType, DeltaFits
<1> QED BY <1>5, <1>6, <1>7 DEF TypeInv, KubeType, NodeType, MapInv, JobType, DeleteService

(* A Sync comes only where nothing waits. *)
LEMMA ResyncType ==
    ASSUME TypeInv, NEW s \in Services, Resync(s)
    PROVE  TypeInv'
<1>1. /\ kube[s] # NoService
      /\ svcDelta[s].type = "None"
      /\ Queue(s, "Sync", kube[s])
      /\ UNCHANGED kube
  BY DEF Resync, NoDelta
<1>2. kube[s] \in Objects
  BY <1>1 DEF TypeInv, KubeType
<1>3. queueActionLocked(svcDelta[s].type, "Sync") = "Sync"
  BY <1>1, QueueActionType DEF PendingTypes
<1>4. /\ svcDelta' \in [Services -> Deltas]
      /\ svcDelta'[s].type = "Sync"
      /\ \A t \in Services : t # s => svcDelta'[t] = svcDelta[t]
  BY <1>1, <1>2, <1>3, QueueType DEF TypeInv, PendingTypes, DeltaTypes
<1>5. DeltaFits'
  BY <1>1, <1>4 DEF TypeInv, KubeType, DeltaFits
<1> QED BY <1>1, <1>4, <1>5 DEF TypeInv, KubeType, NodeType, MapInv, JobType, Resync

-----------------------------------------------------------------------------
(* watchServices. *)

(* The delta is taken out, and the job holds the object it was about. *)
LEMMA PopType ==
    ASSUME TypeInv, NEW s \in Services, PopService(s)
    PROVE  TypeInv'
<1> DEFINE obj == svcDelta[s].obj
           old == services[obj.uid]
<1>1. svcDelta[s] \in Deltas /\ svcDelta[s].type # "None"
  BY DEF PopService, TypeInv, KubeType
<1>2. svcDelta[s].type \in DeltaTypes /\ obj \in Objects
  BY <1>1, DeltaType
<1>3. /\ obj.uid \in UIDs /\ obj.ports \in SUBSET Ports
      /\ old \in (SUBSET Ports) \cup {NoPorts}
  BY <1>2 DEF Objects, TypeInv, NodeType
<1>4. /\ svcDelta' = [svcDelta EXCEPT ![s] = NoDelta]
      /\ UNCHANGED <<kube, vmap, netnsJob, restarts>>
      /\ \/ UNCHANGED <<services, rules, svcJob>>
         \/ /\ IF old = NoPorts THEN UNCHANGED rules ELSE rules' \in DeletedRules(old)
            /\ svcJob' = [at |-> "wait", svc |-> s, obj |-> obj]
            /\ UNCHANGED services
         \/ /\ services' = [services EXCEPT ![obj.uid] = NoPorts]
            /\ rules' \in DeletedRules(obj.ports)
            /\ UNCHANGED svcJob
  BY DEF PopService
<1> HIDE DEF obj, old
<1>5. svcDelta' \in [Services -> Deltas] /\ DeltaFits'
  <2>1. NoDelta \in Deltas /\ NoDelta.type = "None"
    BY DEF Deltas, NoDelta
  <2> QED BY <1>4, <2>1 DEF TypeInv, KubeType, DeltaFits
<1>6. rules \subseteq Rules /\ GlobalVNID \in NetIDs
  BY NodeVnidMapAssumption DEF TypeInv, NodeType
<1>7. rules' \subseteq Rules
  BY <1>3, <1>4, <1>6, RulesType
<1>8. svcJob' \in SvcJobs
  BY <1>2, <1>4 DEF SvcJobs, TypeInv, JobType
<1>9. services' \in [UIDs -> (SUBSET Ports) \cup {NoPorts}]
  BY <1>3, <1>4 DEF TypeInv, NodeType
<1> QED BY <1>4, <1>5, <1>7, <1>8, <1>9 DEF TypeInv, KubeType, NodeType, MapInv, JobType

(* The job goes on with a VNID or not at all. *)
LEMMA WaitType ==
    ASSUME TypeInv, WaitAndGetVNID
    PROVE  TypeInv'
<1> DEFINE ns == NamespaceOf[svcJob.svc]
<1>1. svcJob \in SvcJobs /\ svcJob.at = "wait"
  BY DEF WaitAndGetVNID, TypeInv, JobType
<1>2. svcJob.svc \in Services /\ svcJob.obj \in Objects
  BY <1>1, SvcJobShape
<1>3. ns \in Namespaces
  BY <1>2, NodeServicesAssumption
<1>4. Knows(vmap, ns) => vmap.ids[ns] \in NetIDs
  BY <1>3 DEF Knows, TypeInv, MapInv, NodeVnidMaps
<1>5. svcJob' = IF Knows(vmap, ns)
                  THEN [at |-> "add", svc |-> svcJob.svc, obj |-> svcJob.obj, id |-> vmap.ids[ns]]
                  ELSE Idle
  BY DEF WaitAndGetVNID
<1> HIDE DEF ns
<1>6. svcJob' \in SvcJobs
  BY <1>2, <1>4, <1>5 DEF SvcJobs
<1> QED BY <1>6 DEF WaitAndGetVNID, TypeInv, KubeType, NodeType, MapInv, JobType, DeltaFits

(* The ports remembered are those of the job. *)
LEMMA AddServiceType ==
    ASSUME TypeInv, AddService
    PROVE  TypeInv'
<1>1. svcJob \in SvcJobs /\ svcJob.at = "add"
  BY DEF AddService, TypeInv, JobType
<1>2. svcJob.obj \in Objects /\ svcJob.id \in NetIDs
  BY <1>1, SvcJobShape
<1>3. svcJob.obj.uid \in UIDs /\ svcJob.obj.ports \in SUBSET Ports
  BY <1>2 DEF Objects
<1>4. rules' \subseteq Rules
  BY <1>2, <1>3, RulesType DEF AddService, AddedRules, TypeInv, NodeType
<1>5. services' \in [UIDs -> (SUBSET Ports) \cup {NoPorts}]
  BY <1>3 DEF AddService, TypeInv, NodeType
<1>6. svcJob' \in SvcJobs
  BY DEF AddService, SvcJobs
<1> QED BY <1>4, <1>5, <1>6 DEF AddService, TypeInv, KubeType, NodeType, MapInv, JobType, DeltaFits

-----------------------------------------------------------------------------
(* nodeHandleNetnsEvent and updatePodNetwork. *)

(* A record with another VNID: the map first, then the services. *)
LEMMA NetnsAddedType ==
    ASSUME TypeInv, NEW ns \in Namespaces, NEW id \in NetIDs, NetnsAdded(ns, id)
    PROVE  TypeInv'
<1>1. vmap' \in NodeVnidMaps /\ MapsAgree(vmap')
  BY SetVNIDAgrees DEF NetnsAdded, TypeInv, MapInv
<1>2. netnsJob' \in NetnsJobs
  BY DEF NetnsAdded, NetnsJobs
<1> QED BY <1>1, <1>2 DEF NetnsAdded, TypeInv, KubeType, NodeType, MapInv, JobType, DeltaFits

(* A record that is gone: the services first, then the map. *)
LEMMA NetnsRemovedType ==
    ASSUME TypeInv, NEW ns \in Namespaces, NetnsRemoved(ns)
    PROVE  TypeInv'
<1>1. netnsJob' \in NetnsJobs
  BY NodeVnidMapAssumption DEF NetnsRemoved, NetnsJobs
<1> QED BY <1>1 DEF NetnsRemoved, TypeInv, KubeType, NodeType, MapInv, JobType, DeltaFits

(* What is listed are services, or nothing when the call fails. *)
LEMMA ListType ==
    ASSUME TypeInv, ListServices
    PROVE  TypeInv'
<1>1. netnsJob \in NetnsJobs /\ netnsJob.at = "list"
  BY DEF ListServices, TypeInv, JobType
<1>2. netnsJob.ns \in Namespaces /\ netnsJob.id \in NetIDs /\ netnsJob.removed \in BOOLEAN
  BY <1>1, NetnsJobShape
<1>3. PICK listed \in {ServicesIn(netnsJob.ns), {}} :
         netnsJob' = [at |-> "delete", ns |-> netnsJob.ns, id |-> netnsJob.id,
                      removed |-> netnsJob.removed, todo |-> listed]
  BY DEF ListServices
<1>4. listed \in SUBSET Listed
  BY <1>2, <1>3, ListedType DEF TypeInv
<1>5. netnsJob' \in NetnsJobs
  BY <1>2, <1>3, <1>4 DEF NetnsJobs
<1> QED BY <1>5 DEF ListServices, TypeInv, KubeType, NodeType, MapInv, JobType, DeltaFits

(* One of the listed services is taken in hand ... *)
LEMMA DeleteListedType ==
    ASSUME TypeInv, NEW l \in Listed, DeleteListed(l)
    PROVE  TypeInv'
<1>1. netnsJob \in NetnsJobs /\ netnsJob.at = "delete"
  BY DEF DeleteListed, TypeInv, JobType
<1>2. /\ netnsJob.ns \in Namespaces /\ netnsJob.id \in NetIDs /\ netnsJob.removed \in BOOLEAN
      /\ netnsJob.todo \in SUBSET Listed
  BY <1>1, NetnsJobShape
<1>3. netnsJob' = [at |-> "add", ns |-> netnsJob.ns, id |-> netnsJob.id, removed |-> netnsJob.removed,
                   todo |-> netnsJob.todo \ {l}, cur |-> l]
  BY DEF DeleteListed
<1>4. netnsJob.todo \ {l} \in SUBSET Listed
  BY <1>2
<1>5. netnsJob' \in NetnsJobs
  BY <1>2, <1>3, <1>4 DEF NetnsJobs
<1>6. l.obj.ports \in SUBSET Ports
  BY DEF Listed, Objects
<1>7. rules' \subseteq Rules
  BY <1>2, <1>6, RulesType DEF DeleteListed, TypeInv, NodeType
<1> QED BY <1>5, <1>7 DEF DeleteListed, TypeInv, KubeType, NodeType, MapInv, JobType, DeltaFits

(* ... and done. *)
LEMMA AddListedType ==
    ASSUME TypeInv, AddListed
    PROVE  TypeInv'
<1>1. netnsJob \in NetnsJobs /\ netnsJob.at = "add"
  BY DEF AddListed, TypeInv, JobType
<1>2. /\ netnsJob.ns \in Namespaces /\ netnsJob.id \in NetIDs /\ netnsJob.removed \in BOOLEAN
      /\ netnsJob.todo \in SUBSET Listed /\ netnsJob.cur \in Listed
  BY <1>1, NetnsJobShape
<1>3. netnsJob.cur.obj.ports \in SUBSET Ports
  BY <1>2 DEF Listed, Objects
<1>4. rules' \subseteq Rules
  BY <1>2, <1>3, RulesType DEF AddListed, TypeInv, NodeType
<1>5. netnsJob' = [at |-> "delete", ns |-> netnsJob.ns, id |-> netnsJob.id, removed |-> netnsJob.removed,
                   todo |-> netnsJob.todo]
  BY DEF AddListed
<1>6. netnsJob' \in NetnsJobs
  BY <1>2, <1>5 DEF NetnsJobs
<1> QED BY <1>4, <1>6 DEF AddListed, TypeInv, KubeType, NodeType, MapInv, JobType, DeltaFits

(* Only after the last service does the namespace leave the map. *)
LEMMA FinishType ==
    ASSUME TypeInv, FinishNetns
    PROVE  TypeInv'
<1>1. netnsJob \in NetnsJobs /\ netnsJob.at = "delete"
  BY DEF FinishNetns, TypeInv, JobType
<1>2. netnsJob.ns \in Namespaces
  BY <1>1, NetnsJobShape
<1>3. vmap' \in NodeVnidMaps /\ MapsAgree(vmap')
  BY <1>2, UnsetVNIDAgrees DEF FinishNetns, TypeInv, MapInv
<1>4. netnsJob' \in NetnsJobs
  BY DEF FinishNetns, NetnsJobs
<1> QED BY <1>3, <1>4 DEF FinishNetns, TypeInv, KubeType, NodeType, MapInv, JobType, DeltaFits

-----------------------------------------------------------------------------

(* A start leaves a map that agrees and a Sync for each service. *)
LEMMA RestartType ==
    ASSUME TypeInv, Restart
    PROVE  TypeInv'
<1>1. vmap' \in NodeVnidMaps /\ MapsAgree(vmap')
  BY PopulateAgrees DEF Restart
<1>2. \A s \in Services : svcDelta'[s] = IF kube[s] = NoService THEN NoDelta
                                         ELSE [type |-> "Sync", obj |-> kube[s]]
  BY DEF Restart
<1>3. ASSUME NEW s \in Services PROVE svcDelta'[s] \in Deltas
  <2>1. CASE kube[s] = NoService
    BY <1>2, <2>1 DEF Deltas
  <2>2. CASE kube[s] # NoService
    <3>1. kube[s] \in Objects
      BY <2>2 DEF TypeInv, KubeType
    <3>2. svcDelta'[s] = [type |-> "Sync", obj |-> kube[s]]
      BY <1>2, <2>2
    <3> QED BY <3>1, <3>2 DEF Deltas, DeltaTypes
  <2> QED BY <2>1, <2>2
<1>4. svcDelta' \in [Services -> Deltas]
  BY <1>3 DEF Restart
<1>5. DeltaFits'
  BY <1>2 DEF Restart, DeltaFits, NoDelta
<1>6. services' \in [UIDs -> (SUBSET Ports) \cup {NoPorts}]
  BY DEF Restart
<1>7. restarts' \in 0 .. MaxRestarts
  BY NodeServicesAssumption DEF Restart, TypeInv, NodeType
<1>8. svcJob' \in SvcJobs /\ netnsJob' \in NetnsJobs
  BY DEF Restart, SvcJobs, NetnsJobs
<1> QED BY <1>1, <1>4, <1>5, <1>6, <1>7, <1>8 DEF Restart, TypeInv, KubeType, NodeType, MapInv, JobType

(* The first start finds nothing. *)
LEMMA InitType == Init => TypeInv
<1> SUFFICES ASSUME Init PROVE TypeInv
  OBVIOUS
<1>1. MapInv
  BY NewAgrees DEF Init, MapInv
<1>2. KubeType
  BY DEF Init, KubeType, Deltas, DeltaFits, NoDelta
<1>3. NodeType
  BY NodeServicesAssumption DEF Init, NodeType
<1>4. JobType
  BY DEF Init, JobType, SvcJobs, NetnsJobs
<1> QED BY <1>1, <1>2, <1>3, <1>4 DEF TypeInv

(* Each step keeps the invariant, action by action. *)
LEMMA NextType == TypeInv /\ [Next]_vars => TypeInv'
<1> SUFFICES ASSUME TypeInv, [Next]_vars PROVE TypeInv'
  OBVIOUS
<1>1. CASE KubeStep
  BY <1>1, CreateType, UpdateType, DeleteType, ResyncType DEF KubeStep
<1>2. CASE (\E s \in Services : PopService(s)) \/ WaitAndGetVNID \/ AddService
  BY <1>2, PopType, WaitType, AddServiceType
<1>3. CASE \E ns \in Namespaces : NetnsRemoved(ns) \/ \E id \in NetIDs : NetnsAdded(ns, id)
  BY <1>3, NetnsAddedType, NetnsRemovedType
<1>4. CASE NetnsCall
  BY <1>4, ListType, DeleteListedType, AddListedType, FinishType DEF NetnsCall
<1>5. CASE Restart
  BY <1>5, RestartType
<1>6. CASE UNCHANGED vars
  BY <1>6 DEF vars, TypeInv, KubeType, NodeType, MapInv, JobType, DeltaFits
<1> QED BY <1>1, <1>2, <1>3, <1>4, <1>5, <1>6 DEF Next

(* So it always holds. *)
LEMMA AlwaysTypeInv == Spec => []TypeInv
  BY InitType, NextType, PTL DEF Spec

(* Every reachable state of a node is well typed: no combination of service  *)
(* deltas panics, and neither goroutine is ever left with a service, a VNID  *)
(* or a list of services that is none.                                       *)
THEOREM TypeCorrect == Spec => []TypeOK
<1>1. TypeInv => TypeOK
  BY DEF TypeInv, KubeType, NodeType, MapInv, JobType, TypeOK, Deltas
<1> QED BY <1>1, AlwaysTypeInv, PTL

(* The VNID of each namespace and the namespaces of each VNID say the same   *)
(* after any events, in any order, and after any restart.                    *)
THEOREM MapsCorrect == Spec => []NodeMapsAgree
<1>1. TypeInv => NodeMapsAgree
  BY DEF TypeInv, MapInv, NodeMapsAgree
<1> QED BY <1>1, AlwaysTypeInv, PTL
=============================================================================
