---------------------------- MODULE ElectionProofs ----------------------------
(***************************************************************************)
(* Proofs about Election, for any number of nodes, whatever crashes, loses *)
(* the lease or runs late.                                                 *)
(***************************************************************************)
EXTENDS Election, TLAPS

(* What the variables hold, without the callbacks. *)
ElectorType ==
    /\ holder \in Names
    /\ observed \in [Nodes -> Names]
    /\ seen \in [Nodes -> BOOLEAN] /\ fresh \in [Nodes -> BOOLEAN]
    /\ reported \in [Nodes -> Names]
    /\ elector \in [Nodes -> {"acquire", "lead", "stopped"}]
    /\ proc \in [Nodes -> {"down", "waiting", "polling", "running"}]
    /\ leader \in [Nodes -> Names] /\ master \in [Nodes -> BOOLEAN]
    /\ faults \in 0 .. MaxFaults

CallsType == /\ calls \in [Nodes -> Seq(Nodes)]
             /\ \A n \in Nodes : Len(calls[n]) <= MaxCalls

(* What an elector takes for the record is the record, and an elector that  *)
(* leads has reported itself, so that whom it finds there later is news.    *)
ReadIsRecord == \A n \in Nodes : seen[n] => observed[n] = holder
LeadReported == \A n \in Nodes : elector[n] = "lead" => reported[n] = n

(* An elector that leads has read a record that names somebody.             *)
LeadHasRead == \A n \in Nodes : elector[n] = "lead" => observed[n] # Nobody

LeaseInv == ElectorType /\ CallsType /\ ReadIsRecord /\ LeadReported /\ LeadHasRead

(* It holds before anybody asks for the lease.                              *)
LEMMA LeaseInit == Init => LeaseInv
<1> SUFFICES ASSUME Init PROVE LeaseInv
  OBVIOUS
<1>1. ElectorType
  BY ElectionAssumption DEF Init, ElectorType, Names
<1>2. CallsType
  BY ElectionAssumption DEF Init, CallsType
<1> QED BY <1>1, <1>2 DEF Init, LeaseInv, ReadIsRecord, LeadReported, LeadHasRead

(* A callback that has run is gone from those that wait.                     *)
LEMMA RemoveAtType ==
    ASSUME NEW s \in Seq(Nodes), NEW i \in DOMAIN s
    PROVE  RemoveAt(s, i) \in Seq(Nodes) /\ Len(RemoveAt(s, i)) = Len(s) - 1
<1>1. i \in 1 .. Len(s)
  OBVIOUS
<1>2. SubSeq(s, 1, i - 1) \in Seq(Nodes) /\ Len(SubSeq(s, 1, i - 1)) = i - 1
  BY <1>1
<1>3. SubSeq(s, i + 1, Len(s)) \in Seq(Nodes) /\ Len(SubSeq(s, i + 1, Len(s))) = Len(s) - i
  BY <1>1
<1>4. /\ SubSeq(s, 1, i - 1) \o SubSeq(s, i + 1, Len(s)) \in Seq(Nodes)
      /\ Len(SubSeq(s, 1, i - 1) \o SubSeq(s, i + 1, Len(s))) = (i - 1) + (Len(s) - i)
  BY <1>2, <1>3
<1>5. (i - 1) + (Len(s) - i) = Len(s) - 1
  BY <1>1
<1> QED BY <1>4, <1>5 DEF RemoveAt

(* An elector goes on only when there is room for two more callbacks.        *)
LEMMA AppendedType ==
    ASSUME CallsType, NEW n \in Nodes, NEW at, Runs(n, at),
           NEW new \in Seq(Nodes), Len(new) <= 2,
           calls' = [calls EXCEPT ![n] = @ \o new]
    PROVE  CallsType'
<1>1. Len(calls[n]) + Len(new) <= MaxCalls
  BY ElectionAssumption DEF Runs, CallsType
<1>2. calls[n] \o new \in Seq(Nodes) /\ Len(calls[n] \o new) = Len(calls[n]) + Len(new)
  BY DEF CallsType
<1> QED BY <1>1, <1>2 DEF CallsType

(* Reporting a leader leaves the rest of the elector alone.                 *)
LEMMA NewLeaderType ==
    ASSUME NEW n \in Nodes, NEW id \in Nodes
    PROVE  OnNewLeader(n, id) \in Seq(Nodes) /\ Len(OnNewLeader(n, id)) <= 1
  BY DEF OnNewLeader

(* The callbacks that wait stay bounded and of their type.                  *)
LEMMA CallsNext == LeaseInv /\ [Next]_vars => CallsType'
<1> SUFFICES ASSUME LeaseInv, [Next]_vars PROVE CallsType'
  OBVIOUS
<1>1. ASSUME NEW n \in Nodes, Acquire(n) PROVE CallsType'
  <2> DEFINE new == OnNewLeader(n, n) \o OnStartedLeading(n)
  <2>1. new \in Seq(Nodes) /\ Len(new) <= 2
    BY NewLeaderType DEF OnStartedLeading
  <2>2. calls' = [calls EXCEPT ![n] = @ \o new]
    <3>1. calls[n] \o OnNewLeader(n, n) \o OnStartedLeading(n) = calls[n] \o new
      BY NewLeaderType DEF LeaseInv, CallsType, OnStartedLeading
    <3> QED BY <1>1, <3>1 DEF Acquire
  <2> HIDE DEF new
  <2> QED BY <1>1, <2>1, <2>2, AppendedType DEF Acquire, LeaseInv
<1>2. ASSUME NEW n \in Nodes, Observe(n) PROVE CallsType'
  <2>1. holder \in Nodes
    BY <1>2 DEF Observe, Read, MayTake, LeaseInv, ElectorType, Names
  <2>2. OnNewLeader(n, holder) \in Seq(Nodes) /\ Len(OnNewLeader(n, holder)) <= 2
    BY <2>1, NewLeaderType
  <2> QED BY <1>2, <2>2, AppendedType DEF Observe, LeaseInv
<1>3. ASSUME NEW n \in Nodes, Crash(n) PROVE CallsType'
  BY <1>3, ElectionAssumption DEF Crash, LeaseInv, CallsType
<1>4. ASSUME NEW n \in Nodes, Callback(n) PROVE CallsType'
  <2>1. PICK i \in DOMAIN calls[n] : calls' = [calls EXCEPT ![n] = RemoveAt(@, i)]
    BY <1>4 DEF Callback
  <2>2. RemoveAt(calls[n], i) \in Seq(Nodes) /\ Len(RemoveAt(calls[n], i)) = Len(calls[n]) - 1
    BY RemoveAtType DEF LeaseInv, CallsType
  <2> QED BY <2>1, <2>2, ElectionAssumption DEF LeaseInv, CallsType
<1>5. ASSUME NEW n \in Nodes, RenewEnds(n) PROVE CallsType'
  <2>1. observed[n] \in Nodes
    BY <1>5 DEF RenewEnds, Runs, LeaseInv, LeadHasRead, ElectorType, Names
  <2>2. OnNewLeader(n, observed[n]) \in Seq(Nodes) /\ Len(OnNewLeader(n, observed[n])) <= 2
    BY <2>1, NewLeaderType
  <2> QED BY <1>5, <2>2, AppendedType DEF RenewEnds, LeaseInv
<1>6. ASSUME UNCHANGED calls PROVE CallsType'
  BY <1>6 DEF LeaseInv, CallsType
<1> QED
  BY <1>1, <1>2, <1>3, <1>4, <1>5, <1>6
  DEF Next, Start, LeaderKnown, Poll, Renew, RenewReads, Deposed, RenewFails,
      OnStoppedLeading, Expire, Outlive, LeaseRunsOut, vars

(* So does what the electors know.                                          *)
LEMMA ElectorNext == LeaseInv /\ [Next]_vars => ElectorType'
<1> SUFFICES ASSUME LeaseInv, [Next]_vars PROVE ElectorType'
  OBVIOUS
<1> USE DEF LeaseInv, ElectorType, Names, le
<1>1. faults' \in 0 .. MaxFaults
  BY ElectionAssumption
  DEF Next, Start, LeaderKnown, Poll, Crash, Acquire, Observe, Renew, RenewReads, Deposed,
      RenewFails, OnStoppedLeading, Expire, Outlive, Callback, vars
<1>2. ASSUME NEW n \in Nodes, Start(n) \/ LeaderKnown(n) \/ Poll(n) PROVE ElectorType'
  <2>1. CASE Start(n)
    BY <1>1, <2>1 DEF Start
  <2>2. CASE LeaderKnown(n)
    BY <1>1, <2>2 DEF LeaderKnown
  <2>3. CASE Poll(n)
    BY <1>1, <2>3 DEF Poll
  <2> QED BY <1>2, <2>1, <2>2, <2>3
<1>3. ASSUME NEW n \in Nodes, Crash(n) PROVE ElectorType'
  BY <1>1, <1>3 DEF Crash
<1>4. ASSUME NEW n \in Nodes, Acquire(n) \/ Renew(n) PROVE ElectorType'
  <2>1. Write(n)
    BY <1>4 DEF Acquire, Renew
  <2>2. seen' = [m \in Nodes |-> m = n] /\ fresh' = [m \in Nodes |-> m = n]
    BY <2>1 DEF Write
  <2>3. seen' \in [Nodes -> BOOLEAN] /\ fresh' \in [Nodes -> BOOLEAN]
    BY <2>2, Zenon
  <2>4. holder' \in Names /\ observed' \in [Nodes -> Names]
    BY <2>1 DEF Write
  <2> QED BY <1>1, <1>4, <2>3, <2>4 DEF Acquire, Renew, Report
<1>5. ASSUME NEW n \in Nodes, Observe(n) \/ RenewReads(n) PROVE ElectorType'
  <2>1. /\ holder' \in Names /\ observed' \in [Nodes -> Names]
        /\ seen' \in [Nodes -> BOOLEAN] /\ fresh' \in [Nodes -> BOOLEAN]
    BY <1>5 DEF Observe, RenewReads, Read
  <2> QED BY <1>1, <1>5, <2>1 DEF Observe, RenewReads, Report
<1>6. ASSUME NEW n \in Nodes, RenewEnds(n) PROVE ElectorType'
  BY <1>1, <1>6 DEF RenewEnds, Report
<1>7. ASSUME NEW n \in Nodes, LeaseRunsOut(n) PROVE ElectorType'
  BY <1>1, <1>7 DEF LeaseRunsOut
<1>8. ASSUME NEW n \in Nodes, OnStoppedLeading(n) PROVE ElectorType'
  BY <1>1, <1>8 DEF OnStoppedLeading
<1>9. ASSUME NEW n \in Nodes, Callback(n) PROVE ElectorType'
  BY <1>1, <1>9 DEF Callback, CallsType
<1>10. ASSUME UNCHANGED vars PROVE ElectorType'
  BY <1>10 DEF vars
<1> QED BY <1>2, <1>3, <1>4, <1>5, <1>6, <1>7, <1>8, <1>9, <1>10
  DEF Next, Deposed, RenewFails, Expire, Outlive

(* Whoever writes the record makes what the others have read old, and an    *)
(* elector leads only after it wrote it.                                    *)
LEMMA ReadNext == LeaseInv /\ [Next]_vars => ReadIsRecord' /\ LeadReported' /\ LeadHasRead'
<1> SUFFICES ASSUME LeaseInv, [Next]_vars PROVE ReadIsRecord' /\ LeadReported' /\ LeadHasRead'
  OBVIOUS
<1>1. /\ holder \in Nodes \cup {Nobody} /\ observed \in [Nodes -> Nodes \cup {Nobody}]
      /\ seen \in [Nodes -> BOOLEAN] /\ reported \in [Nodes -> Nodes \cup {Nobody}]
      /\ elector \in [Nodes -> {"acquire", "lead", "stopped"}]
  BY DEF LeaseInv, ElectorType, Names
<1> USE <1>1, ElectionAssumption DEF LeaseInv, ReadIsRecord, LeadReported, LeadHasRead, le
<1>2. ASSUME NEW n \in Nodes, Acquire(n) \/ Renew(n)
      PROVE  ReadIsRecord' /\ LeadReported' /\ LeadHasRead'
  <2>1. /\ holder' = n /\ observed' = [observed EXCEPT ![n] = n]
        /\ \A m \in Nodes : seen'[m] => m = n
    BY <1>2 DEF Acquire, Renew, Write
  <2> QED BY <1>2, <2>1 DEF Acquire, Renew, Report
<1>3. ASSUME NEW n \in Nodes, Observe(n) \/ RenewReads(n)
      PROVE  ReadIsRecord' /\ LeadReported' /\ LeadHasRead'
  <2>1. /\ holder' = holder /\ holder # Nobody /\ observed' = [observed EXCEPT ![n] = holder]
        /\ seen' = [seen EXCEPT ![n] = TRUE] /\ elector' = elector
    BY <1>3 DEF Observe, RenewReads, Read, MayTake
  <2>2. elector[n] = "lead" => UNCHANGED reported
    BY <1>3 DEF Observe, RenewReads, Runs
  <2>3. \A m \in Nodes \ {n} : reported'[m] = reported[m]
    BY <1>3 DEF Observe, RenewReads, Report
  <2> QED BY <2>1, <2>2, <2>3
<1>4. ASSUME NEW n \in Nodes, RenewEnds(n) \/ OnStoppedLeading(n) \/ Crash(n)
      PROVE  ReadIsRecord' /\ LeadReported' /\ LeadHasRead'
  BY <1>4 DEF RenewEnds, Report, OnStoppedLeading, Crash
<1>5. ASSUME UNCHANGED <<holder, observed, seen, reported, elector>>
      PROVE  ReadIsRecord' /\ LeadReported' /\ LeadHasRead'
  BY <1>5
<1> QED
  BY <1>2, <1>3, <1>4, <1>5
  DEF Next, Start, LeaderKnown, Poll, Callback, Deposed, RenewFails,
      Expire, Outlive, LeaseRunsOut, vars

(* Every variable holds what the code can put there; whoever counts a lease  *)
(* counts that of the holder, and an elector that leads has reported itself, *)
(* whoever crashes, is held up, comes back or sees the record late.  Not     *)
(* that it is the holder: the package does not promise that.                 *)
THEOREM TypeCorrect == Spec => []TypeOK
<1>1. LeaseInv /\ [Next]_vars => LeaseInv'
  BY CallsNext, ElectorNext, ReadNext DEF LeaseInv
<1>2. LeaseInv => TypeOK
  BY DEF LeaseInv, ElectorType, CallsType, ReadIsRecord, LeadReported, TypeOK
<1> QED BY <1>1, <1>2, LeaseInit, PTL DEF Spec
=============================================================================
