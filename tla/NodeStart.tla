----------------------------- MODULE NodeStart -----------------------------
(***************************************************************************)
(* How a node comes up (StartNode in src/ksdn/node.go, SetupSDN in         *)
(* src/ksdn/controller.go): it waits for its subnet, builds the bridge     *)
(* unless that is built already, starts its watches and the CNI server,    *)
(* and gives the pods that run on it their flows back.  The bridge, tun0   *)
(* and the pods outlive the process, which may end at every step: every    *)
(* error on the way is a glog.Fatalf.                                      *)
(*                                                                         *)
(* A transaction of ovs-ofctl commands that ends halfway leaves part of    *)
(* the flows.  Later updates of a pod are the business of PodManager, the  *)
(* tables 1, 4 and 8 that of NodeSubnets and NodeServices.                 *)
(***************************************************************************)
EXTENDS Naturals, FiniteSets

CONSTANTS Subnets, Clusters, ServiceNets,
          Pods,
          Modes,        \* of the plugin: whether it is multi-tenant
          None, Partial,
          MaxCrashes,   \* how often the process ends early, Fatalf included
          MaxEdits,     \* changes of the configuration, the subnet or a VNID
          UpdateFails   \* whether the update of a pod may fail

ASSUME NodeStartAssumption ==
    /\ Modes \subseteq BOOLEAN
    /\ None \notin Subnets \cup Clusters \cup ServiceNets \cup BOOLEAN
    /\ MaxCrashes \in Nat /\ MaxEdits \in Nat /\ UpdateFails \in BOOLEAN

VARIABLES config,    \* the network's configuration in etcd
          assigned,  \* the subnet in this node's record, None while there is none
          running,   \* pods whose containers run on this node
          reported,  \* those of them that Kubernetes lists as running
          bridge,    \* the base flows, and the mode of the version flow
          tun,       \* the address and the routes of tun0
          flows,     \* pods that have their flows
          pc,        \* the step StartNode is at
          conf, subnet,  \* node.networkInfo with node.multitenant; node.localSubnetCIDR
          changed,   \* networkChanged
          todo,      \* the listed pods still to be updated
          missed,    \* ghost: pods without flows that no step is going to update
          crashes, edits

etc   == <<config, assigned>>
host  == <<bridge, tun, flows>>
pods  == <<running, reported>>
local == <<conf, subnet, changed, todo>>
vars  == <<config, assigned, running, reported, bridge, tun, flows, pc, conf, subnet,
           changed, todo, missed, crashes, edits>>

Configs == [cluster : Clusters, service : ServiceNets, multitenant : Modes]
NoConf  == [cluster |-> None, service |-> None, multitenant |-> None]
Bases   == [subnet : Subnets, cluster : Clusters, service : ServiceNets]

NoBridge == [base |-> None, version |-> None]
NoTun    == [addr |-> None, cluster |-> None, service |-> None, kernel |-> None]

Steps == {"down", "subnet", "check", "bridge", "flows", "address", "routes", "version",
          "cleanup", "watches", "manager", "serve", "list", "update", "ready"}
SetUp == {"watches", "manager", "serve", "list", "update", "ready"}

Init == /\ config \in Configs /\ assigned \in Subnets \cup {None}
        /\ running = {} /\ reported = {}
        /\ bridge = NoBridge /\ tun = NoTun /\ flows = {}
        /\ pc = "down" /\ conf = NoConf /\ subnet = None /\ changed = FALSE /\ todo = {}
        /\ missed = {} /\ crashes = 0 /\ edits = 0

-----------------------------------------------------------------------------
(* The process ends, and is started again by its supervisor. *)

Exit == /\ pc' = "down"
        /\ conf' = NoConf /\ subnet' = None /\ changed' = FALSE /\ todo' = {}
        /\ missed' = IF pc \in SetUp \cup {"cleanup"} THEN running \ flows ELSE missed

Start == /\ pc = "down"
         /\ pc' = "subnet"
         /\ conf' = config
         /\ UNCHANGED <<config, assigned, running, reported, bridge, tun, flows,
                        subnet, changed, todo, missed, crashes, edits>>

(* What a call of deleteLocalSubnetRoute may leave of tun0: after six tries *)
(* it only logs that the kernel's route has not shown up.                   *)
RouteCleanups == {[tun EXCEPT !.kernel = None], tun}

(* A crash, an error returned to StartNode, or a reboot, which takes the     *)
(* flows, tun0 and the containers with it.  With the address set, SetupSDN   *)
(* runs the deferred deletion of the route on its errors too.                *)
Crash == /\ pc # "down" /\ crashes < MaxCrashes
         /\ crashes' = crashes + 1
         /\ Exit
         /\ tun' \in IF pc \in {"routes", "version"} THEN RouteCleanups ELSE {tun}
         /\ UNCHANGED <<etc, bridge, flows, pods, edits>>

Reboot == /\ crashes < MaxCrashes
          /\ crashes' = crashes + 1
          /\ pc' = "down" /\ conf' = NoConf /\ subnet' = None /\ changed' = FALSE /\ todo' = {}
          /\ running' = {} /\ reported' = {} /\ missed' = {}
          /\ bridge' = NoBridge /\ tun' = NoTun /\ flows' = {}
          /\ UNCHANGED <<etc, edits>>

-----------------------------------------------------------------------------
(* StartNode. *)

(* A record without a subnet is not enough. *)
getLocalSubnet == /\ pc = "subnet" /\ assigned # None
                  /\ subnet' = assigned
                  /\ pc' = "check"
                  /\ UNCHANGED <<etc, host, pods, conf, changed, todo, missed, crashes, edits>>

(* After a minute of polling. *)
SubnetTimeout == /\ pc = "subnet" /\ assigned = None
                 /\ Exit
                 /\ UNCHANGED <<etc, host, pods, crashes, edits>>

(* A plausible slip: any address will do. *)
alreadySetUp_AnyAddress == /\ tun.addr # None /\ tun.cluster = conf.cluster
                           /\ bridge.version = conf.multitenant

(* The service network is not looked at. *)
alreadySetUp == /\ tun.addr = subnet
                /\ tun.cluster = conf.cluster
                /\ bridge.version = conf.multitenant

(* A command that fails counts as not set up. *)
CheckSetUp == /\ pc = "check"
              /\ \/ alreadySetUp /\ changed' = FALSE /\ pc' = "watches"
                 \/ pc' = "bridge" /\ UNCHANGED changed
              /\ UNCHANGED <<etc, host, pods, conf, subnet, todo, missed, crashes, edits>>

(* A plausible slip: a bridge that exists is kept (--may-exist). *)
AddBridge_Kept == /\ pc = "bridge"
                  /\ bridge' = IF bridge = NoBridge THEN [base |-> Partial, version |-> None]
                               ELSE bridge
                  /\ pc' = "flows"
                  /\ UNCHANGED <<etc, pods, tun, flows, local, missed, crashes, edits>>

(* A new bridge with new ports, and part of the base flows. *)
AddBridge == /\ pc = "bridge"
             /\ bridge' = [base |-> Partial, version |-> None]
             /\ tun' = NoTun
             /\ flows' = {}
             /\ missed' = {}
             /\ pc' = "flows"
             /\ UNCHANGED <<etc, pods, local, crashes, edits>>

AddBaseFlows == /\ pc = "flows"
                /\ bridge' = [bridge EXCEPT !.base = [subnet |-> subnet, cluster |-> conf.cluster,
                                                      service |-> conf.service]]
                /\ pc' = "address"
                /\ UNCHANGED <<etc, pods, tun, flows, local, missed, crashes, edits>>

(* An address that is there already is an error.  With the address, the     *)
(* kernel adds a route for the local subnet.                                *)
AddAddress == /\ pc = "address"
              /\ IF tun.addr = None
                   THEN /\ tun' = [tun EXCEPT !.addr = subnet, !.kernel = subnet]
                        /\ pc' = "routes"
                        /\ UNCHANGED <<local, missed>>
                   ELSE Exit /\ tun' \in RouteCleanups
              /\ UNCHANGED <<etc, pods, bridge, flows, crashes, edits>>

(* The routes come one by one; the transaction ends at the second. *)
AddRoutes == /\ pc = "routes"
             /\ IF tun.cluster = None
                  THEN tun' = [tun EXCEPT !.cluster = conf.cluster] /\ UNCHANGED pc
                  ELSE tun' = [tun EXCEPT !.service = conf.service] /\ pc' = "version"
             /\ UNCHANGED <<etc, pods, bridge, flows, local, missed, crashes, edits>>

WriteVersion == /\ pc = "version"
                /\ bridge' = [bridge EXCEPT !.version = conf.multitenant]
                /\ pc' = "cleanup"
                /\ UNCHANGED <<etc, pods, tun, flows, local, missed, crashes, edits>>

(* A plausible slip: SetupSDN does not report that it built a new bridge. *)
deleteLocalSubnetRoute_Unchanged ==
    /\ pc = "cleanup"
    /\ tun' \in RouteCleanups
    /\ changed' = FALSE
    /\ pc' = "watches"
    /\ UNCHANGED <<etc, pods, bridge, flows, conf, subnet, todo, missed, crashes, edits>>

(* Deferred: SetupSDN returns true after it, whether the route is gone or not. *)
deleteLocalSubnetRoute ==
    /\ pc = "cleanup"
    /\ tun' \in RouteCleanups
    /\ changed' = TRUE
    /\ pc' = "watches"
    /\ UNCHANGED <<etc, pods, bridge, flows, conf, subnet, todo, missed, crashes, edits>>

StartWatches == /\ pc = "watches"
                /\ pc' = "manager"
                /\ UNCHANGED <<etc, pods, host, local, missed, crashes, edits>>

(* A VNID that changes before podManager is set: with a listed pod of the    *)
(* namespace, UpdatePod uses a nil podManager, and the panic ends the        *)
(* process.                                                                  *)
EarlyNetnsEvent == /\ pc = "manager" /\ conf.multitenant = TRUE /\ reported # {}
                   /\ edits < MaxEdits
                   /\ edits' = edits + 1
                   /\ Exit
                   /\ UNCHANGED <<etc, pods, host, crashes>>

newPodManager == /\ pc = "manager"
                 /\ pc' = "serve"
                 /\ UNCHANGED <<etc, pods, host, local, missed, crashes, edits>>

StartPodManager == /\ pc = "serve"
                   /\ pc' = IF changed THEN "list" ELSE "ready"
                   /\ UNCHANGED <<etc, pods, host, local, missed, crashes, edits>>

GetLocalPods == /\ pc = "list"
                /\ todo' = reported
                /\ missed' = missed \cup (running \ (flows \cup reported))
                /\ pc' = "update"
                /\ UNCHANGED <<etc, pods, host, conf, subnet, changed, crashes, edits>>

(* A plausible slip: the update does not notice that the container is gone. *)
UpdatePod_Gone(p) ==
    /\ pc = "update" /\ p \in todo
    /\ todo' = todo \ {p}
    /\ flows' = flows \cup {p} /\ missed' = missed \ {p}
    /\ UNCHANGED <<etc, pods, bridge, tun, pc, conf, subnet, changed, crashes, edits>>

(* The update of a pod whose container is gone fails; a failure is logged.   *)
UpdatePod(p) ==
    /\ pc = "update" /\ p \in todo
    /\ todo' = todo \ {p}
    /\ \/ p \in running /\ flows' = flows \cup {p} /\ missed' = missed \ {p}
       \/ /\ p \notin running \/ UpdateFails
          /\ flows' = flows /\ missed' = missed \cup ({p} \cap (running \ flows))
    /\ UNCHANGED <<etc, pods, bridge, tun, pc, conf, subnet, changed, crashes, edits>>

markPodNetworkReady == /\ pc = "update" /\ todo = {}
                       /\ pc' = "ready"
                       /\ UNCHANGED <<etc, pods, host, local, missed, crashes, edits>>

-----------------------------------------------------------------------------
(* Kubelet, the administrator and the master. *)

Serving == pc \in {"list", "update", "ready"}

AddPod(p) == /\ Serving /\ p \notin running
             /\ running' = running \cup {p}
             /\ flows' = flows \cup {p}
             /\ UNCHANGED <<etc, reported, bridge, tun, pc, local, missed, crashes, edits>>

ReportRunning(p) == /\ p \in running \ reported
                    /\ reported' = reported \cup {p}
                    /\ UNCHANGED <<etc, running, host, pc, local, missed, crashes, edits>>

RemovePod(p) == /\ Serving /\ p \in running
                /\ running' = running \ {p} /\ reported' = reported \ {p}
                /\ flows' = flows \ {p} /\ missed' = missed \ {p}
                /\ UNCHANGED <<etc, bridge, tun, pc, local, crashes, edits>>

Edit == /\ edits < MaxEdits
        /\ edits' = edits + 1
        /\ \/ config' \in Configs \ {config} /\ UNCHANGED assigned
           \/ assigned' \in (Subnets \cup {None}) \ {assigned} /\ UNCHANGED config
        /\ UNCHANGED <<pods, host, pc, local, missed, crashes>>

-----------------------------------------------------------------------------

StartNode == \/ Start
             \/ getLocalSubnet \/ SubnetTimeout
             \/ CheckSetUp \/ AddBridge \/ AddBaseFlows \/ AddAddress \/ AddRoutes
             \/ WriteVersion \/ deleteLocalSubnetRoute
             \/ StartWatches \/ newPodManager \/ StartPodManager
             \/ GetLocalPods \/ (\E p \in Pods : UpdatePod(p)) \/ markPodNetworkReady

Next == \/ StartNode
        \/ Crash \/ Reboot \/ EarlyNetnsEvent
        \/ \E p \in Pods : AddPod(p) \/ ReportRunning(p) \/ RemovePod(p)
        \/ Edit

(* The process goes on, and is started again when it ends: it is a container *)
(* of a DaemonSet.                                                           *)
Spec == Init /\ [][Next]_vars /\ WF_vars(StartNode)

-----------------------------------------------------------------------------
(* Properties. *)

(* The host and the process hold what the code puts there. *)
TypeOK ==
    /\ config \in Configs /\ assigned \in Subnets \cup {None}
    /\ reported \subseteq running /\ running \subseteq Pods
    /\ bridge \in [base : Bases \cup {None, Partial}, version : Modes \cup {None}]
    /\ tun \in [addr : Subnets \cup {None}, cluster : Clusters \cup {None},
                service : ServiceNets \cup {None}, kernel : Subnets \cup {None}]
    /\ flows \subseteq running
    /\ pc \in Steps
    /\ conf \in Configs \cup {NoConf} /\ subnet \in Subnets \cup {None}
    /\ changed \in BOOLEAN
    /\ todo \subseteq Pods /\ missed \subseteq running \ flows
    /\ crashes \in 0 .. MaxCrashes /\ edits \in 0 .. MaxEdits

(* The version flow is only there when everything before it is: however a    *)
(* setup was cut short, what the next start takes for set up is complete,    *)
(* and all of it is for one subnet and one configuration.                    *)
VersionMeansSetUp ==
    bridge.version # None =>
        bridge.base = [subnet |-> tun.addr, cluster |-> tun.cluster, service |-> tun.service]

(* A node past SetupSDN works with a bridge for the subnet, the cluster      *)
(* network and the mode it read at its start, also when an earlier start     *)
(* built it.                                                                 *)
SetUpForThisStart ==
    pc \in SetUp => /\ bridge.base.subnet = subnet
                    /\ bridge.base.cluster = conf.cluster
                    /\ bridge.version = conf.multitenant

(* A node that is ready has the flows of every pod that runs on it, but      *)
(* those it missed: a pod not yet reported running when they were listed,    *)
(* one whose update failed, and, when the process ended between the version  *)
(* flow and the last update, the rest.                                       *)
PodsRestored == pc = "ready" => running \ flows \subseteq missed

(* The node comes up if its subnet stays: an attempt that was cut short does *)
(* not stand in the way of the next.                                         *)
EventuallyReady == <>[](assigned # None) => <>[](pc = "ready")

(* The bridge is also for the service network of the configuration. *)
ServiceNetworkCurrent == pc \in SetUp => bridge.base.service = conf.service

(* No pod stays without its flows on a node that is ready. *)
NoPodMissed == pc = "ready" => missed = {}

(* The kernel's route for the local subnet is gone once SetupSDN returned. *)
KernelRouteGone == pc \in SetUp => tun.kernel = None
=============================================================================
