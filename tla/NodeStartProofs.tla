--------------------------- MODULE NodeStartProofs ---------------------------
(***************************************************************************)
(* Proofs about NodeStart, for all pods, subnets and networks and however  *)
(* often the process crashes, the host reboots and the configuration       *)
(* changes.                                                                *)
(***************************************************************************)
EXTENDS NodeStart, TLAPS

(* What the process has read once it is past a step. *)
HasRead == /\ pc # "down" => conf \in Configs
           /\ pc \notin {"down", "subnet"} => subnet \in Subnets

TypeInv == TypeOK /\ HasRead

(* The types hold before the first start.                                   *)
LEMMA TypeInit == Init => TypeInv
<1> SUFFICES ASSUME Init PROVE TypeInv
  OBVIOUS
<1>1. bridge \in [base : Bases \cup {None, Partial}, version : Modes \cup {None}]
  BY DEF Init, NoBridge
<1>2. tun \in [addr : Subnets \cup {None}, cluster : Clusters \cup {None},
               service : ServiceNets \cup {None}, kernel : Subnets \cup {None}]
  BY DEF Init, NoTun
<1>3. conf \in Configs \cup {NoConf} /\ changed \in BOOLEAN /\ pc \in Steps
  BY DEF Init, Steps
<1>4. crashes \in 0 .. MaxCrashes /\ edits \in 0 .. MaxEdits
  BY NodeStartAssumption DEF Init
<1> QED
  BY <1>1, <1>2, <1>3, <1>4 DEF Init, TypeInv, TypeOK, HasRead

(* The types without the counters, which only grow up to their bounds.       *)
Counters == crashes \in 0 .. MaxCrashes /\ edits \in 0 .. MaxEdits
NoCounters == /\ config \in Configs /\ assigned \in Subnets \cup {None}
              /\ reported \subseteq running /\ running \subseteq Pods
              /\ bridge \in [base : Bases \cup {None, Partial}, version : Modes \cup {None}]
              /\ tun \in [addr : Subnets \cup {None}, cluster : Clusters \cup {None},
                          service : ServiceNets \cup {None}, kernel : Subnets \cup {None}]
              /\ flows \subseteq running
              /\ pc \in Steps
              /\ conf \in Configs \cup {NoConf} /\ subnet \in Subnets \cup {None}
              /\ changed \in BOOLEAN
              /\ todo \subseteq Pods /\ missed \subseteq running \ flows

(* The bounds of the counters are proved apart from the rest.               *)
LEMMA TypeSplit == TypeOK <=> NoCounters /\ Counters
  BY DEF TypeOK, NoCounters, Counters

(* The process ends: what it held is gone, of the host at most a route.      *)
LEMMA ExitType ==
    ASSUME NoCounters, Exit, tun' \in RouteCleanups, UNCHANGED <<etc, bridge, flows, pods>>
    PROVE  NoCounters' /\ HasRead'
  BY DEF NoCounters, HasRead, Exit, RouteCleanups, Steps, etc, pods

(* Each step keeps the types; one that goes on past reading the              *)
(* configuration, or the subnet, has it.                                     *)
LEMMA TypeNext == TypeInv /\ [Next]_vars => TypeInv'
<1> SUFFICES ASSUME NoCounters, Counters, HasRead, [Next]_vars
             PROVE  NoCounters' /\ Counters' /\ HasRead'
  BY TypeSplit DEF TypeInv, TypeOK, NoCounters, Counters
<1>1. Counters'
  BY NodeStartAssumption
  DEF Counters, Next, StartNode, Start, getLocalSubnet, SubnetTimeout, CheckSetUp, AddBridge,
      AddBaseFlows, AddAddress, AddRoutes, WriteVersion, deleteLocalSubnetRoute, StartWatches,
      newPodManager, StartPodManager, GetLocalPods, UpdatePod, markPodNetworkReady, Crash,
      Reboot, EarlyNetnsEvent, AddPod, ReportRunning, RemovePod, Edit, vars
<1>2. ASSUME Crash \/ EarlyNetnsEvent \/ SubnetTimeout PROVE NoCounters' /\ HasRead'
  BY <1>2, ExitType DEF Crash, EarlyNetnsEvent, SubnetTimeout, RouteCleanups, etc, host, pods
<1> USE DEF NoCounters, HasRead, Steps, etc, host, pods, local
<1>3. ASSUME Start PROVE NoCounters' /\ HasRead'
  BY <1>3 DEF Start, Configs
<1>4. ASSUME getLocalSubnet PROVE NoCounters' /\ HasRead'
  BY <1>4 DEF getLocalSubnet
<1>5. ASSUME CheckSetUp PROVE NoCounters' /\ HasRead'
  BY <1>5 DEF CheckSetUp
<1>6. ASSUME AddBridge PROVE NoCounters' /\ HasRead'
  BY <1>6 DEF AddBridge, NoTun
<1>7. ASSUME AddBaseFlows PROVE NoCounters' /\ HasRead'
  BY <1>7 DEF AddBaseFlows, Bases, Configs
<1>8. ASSUME AddAddress PROVE NoCounters' /\ HasRead'
  <2>1. CASE tun.addr = None
    BY <1>8, <2>1 DEF AddAddress
  <2>2. CASE tun.addr # None
    BY <1>8, <2>2, ExitType DEF AddAddress
  <2> QED BY <2>1, <2>2
<1>9. ASSUME AddRoutes PROVE NoCounters' /\ HasRead'
  BY <1>9 DEF AddRoutes, Configs
<1>10. ASSUME WriteVersion PROVE NoCounters' /\ HasRead'
  BY <1>10 DEF WriteVersion, Configs
<1>11. ASSUME deleteLocalSubnetRoute PROVE NoCounters' /\ HasRead'
  BY <1>11 DEF deleteLocalSubnetRoute, RouteCleanups
<1>12. ASSUME StartWatches PROVE NoCounters' /\ HasRead'
  BY <1>12 DEF StartWatches
<1>13. ASSUME newPodManager PROVE NoCounters' /\ HasRead'
  BY <1>13 DEF newPodManager
<1>14. ASSUME StartPodManager PROVE NoCounters' /\ HasRead'
  BY <1>14 DEF StartPodManager
<1>15. ASSUME GetLocalPods PROVE NoCounters' /\ HasRead'
  BY <1>15 DEF GetLocalPods
<1>16. ASSUME \E p \in Pods : UpdatePod(p) PROVE NoCounters' /\ HasRead'
  BY <1>16 DEF UpdatePod
<1>17. ASSUME markPodNetworkReady PROVE NoCounters' /\ HasRead'
  BY <1>17 DEF markPodNetworkReady
<1>18. ASSUME Reboot PROVE NoCounters' /\ HasRead'
  BY <1>18 DEF Reboot, NoBridge, NoTun
<1>19. ASSUME \E p \in Pods : AddPod(p) \/ ReportRunning(p) \/ RemovePod(p) PROVE NoCounters' /\ HasRead'
  BY <1>19 DEF AddPod, ReportRunning, RemovePod, Serving
<1>20. ASSUME Edit PROVE NoCounters' /\ HasRead'
  BY <1>20 DEF Edit
<1>21. ASSUME UNCHANGED vars PROVE NoCounters' /\ HasRead'
  BY <1>21 DEF vars
<1> QED
  BY <1>1, <1>2, <1>3, <1>4, <1>5, <1>6, <1>7, <1>8, <1>9, <1>10, <1>11, <1>12, <1>13, <1>14, <1>15, <1>16, <1>17, <1>18, <1>19, <1>20, <1>21
  DEF Next, StartNode

(* The host and the process hold what the code puts there, for ever.         *)
THEOREM TypeCorrect == Spec => []TypeOK
<1>1. TypeInv => TypeOK
  BY DEF TypeInv
<1> QED BY <1>1, TypeInit, TypeNext, PTL DEF Spec

-----------------------------------------------------------------------------
(* The bridge.  VersionMeansSetUp is kept by the steps before the version    *)
(* flow only because a new bridge has none, and becomes true with it only    *)
(* because each step leaves to the next what it did for this start.          *)

Base  == [subnet |-> subnet, cluster |-> conf.cluster, service |-> conf.service]
Fresh == {"flows", "address", "routes", "version"}

Progress ==
    /\ pc \in Fresh => bridge.version = None
    /\ pc \in {"address", "routes", "version"} => bridge.base = Base
    /\ pc \in {"flows", "address"} => tun.cluster = None
    /\ pc \in {"routes", "version"} => tun.addr = subnet
    /\ pc = "routes" => tun.cluster \in {None, conf.cluster}
    /\ pc = "version" => tun.cluster = conf.cluster /\ tun.service = conf.service

(* Past SetupSDN the host has what alreadySetUp looks for. *)
Ready == pc \in SetUp \cup {"cleanup"} => alreadySetUp

SetupInv == VersionMeansSetUp /\ Progress /\ Ready

(* It holds before the first start.                                         *)
LEMMA SetupInit == Init => SetupInv
  BY DEF Init, SetupInv, VersionMeansSetUp, Progress, Ready, Fresh, SetUp, NoBridge

(* Every step of the setup, a crash and a new start keep it.                *)
LEMMA SetupNext == TypeInv /\ SetupInv /\ [Next]_vars => SetupInv'
<1> SUFFICES ASSUME TypeInv, SetupInv, [Next]_vars PROVE SetupInv'
  OBVIOUS
<1>1. bridge \in [base : Bases \cup {None, Partial}, version : Modes \cup {None}]
  BY DEF TypeInv, TypeOK
<1>2. tun \in [addr : Subnets \cup {None}, cluster : Clusters \cup {None},
               service : ServiceNets \cup {None}, kernel : Subnets \cup {None}]
  BY DEF TypeInv, TypeOK
<1>3. pc # "down" => conf.cluster # None /\ conf.multitenant # None
  BY NodeStartAssumption DEF TypeInv, HasRead, Configs
<1> USE <1>1, <1>2, <1>3
    DEF SetupInv, VersionMeansSetUp, Progress, Ready, Fresh, SetUp, alreadySetUp,
        Base, etc, host, pods, local
<1>4. ASSUME Start PROVE SetupInv'
  BY <1>4 DEF Start
<1>5. ASSUME getLocalSubnet PROVE SetupInv'
  BY <1>5 DEF getLocalSubnet
<1>6. ASSUME CheckSetUp PROVE SetupInv'
  BY <1>6 DEF CheckSetUp
<1>7. ASSUME AddBridge PROVE SetupInv'
  BY <1>7 DEF AddBridge, NoTun
<1>8. ASSUME AddBaseFlows PROVE SetupInv'
  BY <1>8 DEF AddBaseFlows
<1>9. ASSUME AddAddress PROVE SetupInv'
  BY <1>9 DEF AddAddress, Exit
<1>10. ASSUME AddRoutes PROVE SetupInv'
  BY <1>10 DEF AddRoutes
<1>11. ASSUME WriteVersion PROVE SetupInv'
  BY <1>11 DEF WriteVersion
<1>12. ASSUME deleteLocalSubnetRoute PROVE SetupInv'
  BY <1>12 DEF deleteLocalSubnetRoute, RouteCleanups
<1>13. ASSUME StartWatches \/ newPodManager \/ StartPodManager \/ GetLocalPods \/ markPodNetworkReady PROVE SetupInv'
  BY <1>13 DEF StartWatches, newPodManager, StartPodManager, GetLocalPods, markPodNetworkReady
<1>14. ASSUME \E p \in Pods : UpdatePod(p) PROVE SetupInv'
  BY <1>14 DEF UpdatePod
<1>15. ASSUME Crash \/ EarlyNetnsEvent \/ SubnetTimeout PROVE SetupInv'
  BY <1>15 DEF Crash, EarlyNetnsEvent, SubnetTimeout, Exit, RouteCleanups
<1>16. ASSUME Reboot PROVE SetupInv'
  BY <1>16 DEF Reboot, NoBridge, NoTun
<1>17. ASSUME \E p \in Pods : AddPod(p) \/ ReportRunning(p) \/ RemovePod(p) PROVE SetupInv'
  BY <1>17 DEF AddPod, ReportRunning, RemovePod
<1>18. ASSUME Edit PROVE SetupInv'
  BY <1>18 DEF Edit
<1>19. ASSUME UNCHANGED vars PROVE SetupInv'
  BY <1>19 DEF vars
<1> QED
  BY <1>4, <1>5, <1>6, <1>7, <1>8, <1>9, <1>10, <1>11, <1>12, <1>13, <1>14, <1>15, <1>16, <1>17, <1>18, <1>19
  DEF Next, StartNode

(* However setups are cut short, the version flow stands for a complete      *)
(* bridge, which is what the next start takes it for.                        *)
THEOREM VersionCorrect == Spec => []VersionMeansSetUp
<1>1. SetupInv => VersionMeansSetUp
  BY DEF SetupInv
<1> QED BY <1>1, TypeInit, TypeNext, SetupInit, SetupNext, PTL DEF Spec

(* A node past SetupSDN has a bridge for what it read at its start, whoever  *)
(* built it.                                                                 *)
THEOREM SetupCorrect == Spec => []SetUpForThisStart
<1>1. TypeInv /\ SetupInv => SetUpForThisStart
  <2> SUFFICES ASSUME TypeInv, SetupInv, pc \in SetUp PROVE SetUpForThisStart
    BY DEF SetUpForThisStart
  <2>1. conf.multitenant # None
    BY NodeStartAssumption DEF TypeInv, HasRead, Configs, SetUp
  <2>2. alreadySetUp
    BY DEF SetupInv, Ready
  <2> QED BY <2>1, <2>2 DEF SetupInv, VersionMeansSetUp, SetUpForThisStart, alreadySetUp
<1> QED BY <1>1, TypeInit, TypeNext, SetupInit, SetupNext, PTL DEF Spec

-----------------------------------------------------------------------------
(* The pods.  On the way to "ready" every pod without flows is listed, still *)
(* to be updated, or missed; a start that finds the bridge set up updates    *)
(* none, so those without flows must be missed before it begins.             *)

PodsInv ==
    /\ pc \in {"down", "subnet", "check", "bridge"} /\ bridge.version # None
         => running \ flows \subseteq missed
    /\ pc \in {"watches", "manager", "serve"} /\ ~ changed => running \ flows \subseteq missed
    /\ pc = "update" => running \ flows \subseteq missed \cup todo
    /\ pc = "ready" => running \ flows \subseteq missed

(* It holds before the first start.                                         *)
LEMMA PodsInit == Init => PodsInv
  BY DEF Init, PodsInv

(* Every step of the setup, a crash and a new start keep it.                *)
LEMMA PodsNext == TypeInv /\ SetupInv /\ PodsInv /\ [Next]_vars => PodsInv'
<1> SUFFICES ASSUME TypeInv, SetupInv, PodsInv, [Next]_vars PROVE PodsInv'
  OBVIOUS
<1>1. pc \in Steps /\ changed \in BOOLEAN
  BY DEF TypeInv, TypeOK
<1>2. pc \in Fresh => bridge.version = None
  BY DEF SetupInv, Progress
<1>3. pc = "check" /\ alreadySetUp => bridge.version # None
  BY NodeStartAssumption DEF TypeInv, HasRead, Configs, alreadySetUp
<1> USE <1>1, <1>2 DEF PodsInv, Steps, SetUp, Fresh, etc, host, pods, local
<1>4. ASSUME Start PROVE PodsInv'
  BY <1>4 DEF Start
<1>5. ASSUME getLocalSubnet PROVE PodsInv'
  BY <1>5 DEF getLocalSubnet
<1>6. ASSUME CheckSetUp PROVE PodsInv'
  BY <1>6, <1>3 DEF CheckSetUp
<1>7. ASSUME AddBridge PROVE PodsInv'
  BY <1>7 DEF AddBridge
<1>8. ASSUME AddBaseFlows PROVE PodsInv'
  BY <1>8 DEF AddBaseFlows
<1>9. ASSUME AddAddress PROVE PodsInv'
  BY <1>9 DEF AddAddress, Exit
<1>10. ASSUME AddRoutes PROVE PodsInv'
  BY <1>10 DEF AddRoutes
<1>11. ASSUME WriteVersion PROVE PodsInv'
  BY <1>11 DEF WriteVersion
<1>12. ASSUME deleteLocalSubnetRoute PROVE PodsInv'
  BY <1>12 DEF deleteLocalSubnetRoute, RouteCleanups
<1>13. ASSUME StartWatches \/ newPodManager \/ StartPodManager PROVE PodsInv'
  BY <1>13 DEF StartWatches, newPodManager, StartPodManager
<1>14. ASSUME GetLocalPods PROVE PodsInv'
  BY <1>14 DEF GetLocalPods
<1>15. ASSUME \E p \in Pods : UpdatePod(p) PROVE PodsInv'
  BY <1>15 DEF UpdatePod
<1>16. ASSUME markPodNetworkReady PROVE PodsInv'
  BY <1>16 DEF markPodNetworkReady
<1>17. ASSUME Crash \/ EarlyNetnsEvent \/ SubnetTimeout PROVE PodsInv'
  BY <1>17 DEF Crash, EarlyNetnsEvent, SubnetTimeout, Exit, RouteCleanups
<1>18. ASSUME Reboot PROVE PodsInv'
  BY <1>18 DEF Reboot, NoBridge
<1>19. ASSUME \E p \in Pods : AddPod(p) \/ ReportRunning(p) \/ RemovePod(p) PROVE PodsInv'
  BY <1>19 DEF AddPod, ReportRunning, RemovePod
<1>20. ASSUME Edit PROVE PodsInv'
  BY <1>20 DEF Edit
<1>21. ASSUME UNCHANGED vars PROVE PodsInv'
  BY <1>21 DEF vars
<1> QED
  BY <1>4, <1>5, <1>6, <1>7, <1>8, <1>9, <1>10, <1>11, <1>12, <1>13, <1>14, <1>15, <1>16, <1>17, <1>18, <1>19, <1>20, <1>21
  DEF Next, StartNode

(* A node that is ready has the flows of every pod but those it missed.      *)
THEOREM PodsCorrect == Spec => []PodsRestored
<1>1. PodsInv => PodsRestored
  BY DEF PodsInv, PodsRestored
<1> QED
  BY <1>1, TypeInit, TypeNext, SetupInit, SetupNext, PodsInit, PodsNext, PTL DEF Spec
=============================================================================
