------------------------------ MODULE Election ------------------------------
(***************************************************************************)
(* Which nodes run the master (src/main.go, src/pkg/election).  The        *)
(* processes of all nodes take part in an election of the vendored         *)
(* leaderelection package: a record names a holder, who renews it.  What   *)
(* the elector reports sets the variable `leader` of the process, and the  *)
(* process starts a master once `leader` is its own name.                  *)
(*                                                                         *)
(* OnNewLeader and OnStartedLeading run in goroutines of their own, calls. *)
(* Time is left out.  A process counts a lease by its own clock, from when *)
(* it read the record: it may run out although its holder still leads, if  *)
(* that one is held up.  The package does not promise a single leader.     *)
(***************************************************************************)
EXTENDS Naturals, Sequences, SequencesExt

CONSTANTS Nodes,
          Nobody,
          MaxFaults,  \* crashes, Fatalf included, renewals that fail or come too late
          MayLag,     \* whether a callback's goroutine may run later than the elector's next step
          MaxCalls    \* callbacks that wait in one process

ASSUME ElectionAssumption ==
    /\ Nobody \notin Nodes
    /\ MaxFaults \in Nat /\ MaxCalls \in Nat \ {0, 1} /\ MayLag \in BOOLEAN

VARIABLES holder,    \* HolderIdentity of the election record
          observed,  \* HolderIdentity of le.observedRecord
          seen,      \* le.observedRecord is the record, as written last
          fresh,     \* and less than LeaseDuration has passed since le.observedTime
          reported,  \* le.reportedLeader
          elector,   \* what Run is doing
          calls,     \* the callbacks whose goroutines have not run yet
          proc, leader, master,  \* main: its step, its variable, StartMaster was called
          faults

vars == <<holder, observed, seen, fresh, reported, elector, calls, proc, leader, master, faults>>
le   == <<holder, observed, seen, fresh, reported, elector>>

Names == Nodes \cup {Nobody}

Init == /\ holder = Nobody
        /\ observed = [n \in Nodes |-> Nobody]
        /\ seen = [n \in Nodes |-> FALSE] /\ fresh = [n \in Nodes |-> FALSE]
        /\ reported = [n \in Nodes |-> Nobody]
        /\ elector = [n \in Nodes |-> "acquire"]
        /\ calls = [n \in Nodes |-> <<>>]
        /\ proc = [n \in Nodes |-> "down"]
        /\ leader = [n \in Nodes |-> Nobody]
        /\ master = [n \in Nodes |-> FALSE]
        /\ faults = 0

-----------------------------------------------------------------------------
(* main. *)

(* NewElection calls back with the holder of the record. *)
Start(n) == /\ proc[n] = "down"
            /\ proc' = [proc EXCEPT ![n] = "waiting"]
            /\ leader' = [leader EXCEPT ![n] = holder]
            /\ UNCHANGED <<le, calls, master, faults>>

LeaderKnown(n) == /\ proc[n] = "waiting" /\ leader[n] # Nobody
                  /\ proc' = [proc EXCEPT ![n] = "polling"]
                  /\ UNCHANGED <<le, calls, leader, master, faults>>

(* Every ten seconds, until the master was started.  Nothing stops it. *)
Poll(n) == /\ proc[n] = "polling" /\ leader[n] = n
           /\ master' = [master EXCEPT ![n] = TRUE]
           /\ proc' = [proc EXCEPT ![n] = "running"]
           /\ UNCHANGED <<le, calls, leader, faults>>

(* A crash, a StartMaster that fails, no leader known in the first 22 seconds. *)
Crash(n) == /\ proc[n] # "down" /\ faults < MaxFaults
            /\ faults' = faults + 1
            /\ proc' = [proc EXCEPT ![n] = "down"]
            /\ leader' = [leader EXCEPT ![n] = Nobody]
            /\ master' = [master EXCEPT ![n] = FALSE]
            /\ observed' = [observed EXCEPT ![n] = Nobody]
            /\ seen' = [seen EXCEPT ![n] = FALSE] /\ fresh' = [fresh EXCEPT ![n] = FALSE]
            /\ reported' = [reported EXCEPT ![n] = Nobody]
            /\ elector' = [elector EXCEPT ![n] = "acquire"]
            /\ calls' = [calls EXCEPT ![n] = <<>>]
            /\ UNCHANGED holder

-----------------------------------------------------------------------------
(* The elector. *)

Runs(n, at) == /\ proc[n] # "down" /\ elector[n] = at
               /\ IF MayLag THEN Len(calls[n]) + 2 <= MaxCalls ELSE calls[n] = <<>>

(* tryAcquireOrRenew: it reads the record, then it writes it or gives up. *)

MayTake(n) == holder \in {n, Nobody} \/ (seen[n] /\ ~ fresh[n])

Write(n) == /\ MayTake(n)
            /\ holder' = n
            /\ observed' = [observed EXCEPT ![n] = n]
            /\ seen' = [m \in Nodes |-> m = n] /\ fresh' = [m \in Nodes |-> m = n]

(* A plausible slip: the time is noted, the record is not. *)
Read_Time(n) == /\ ~ MayTake(n) /\ ~ seen[n]
                /\ seen' = [seen EXCEPT ![n] = TRUE] /\ fresh' = [fresh EXCEPT ![n] = TRUE]
                /\ UNCHANGED <<holder, observed>>

(* A record that was not seen before starts the lease anew. *)
Read(n) == /\ ~ MayTake(n) /\ ~ seen[n]
           /\ observed' = [observed EXCEPT ![n] = holder]
           /\ seen' = [seen EXCEPT ![n] = TRUE] /\ fresh' = [fresh EXCEPT ![n] = TRUE]
           /\ UNCHANGED holder

(* maybeReportTransition. *)
OnNewLeader(n, id) == IF id = reported[n] THEN <<>> ELSE <<id>>
Report(n, id) == reported' = [reported EXCEPT ![n] = id]

(* A plausible slip: the record already reports the leader. *)
OnStartedLeading_Silent(n) == <<>>

OnStartedLeading(n) == <<n>>

(* acquire, then OnStartedLeading. *)
Acquire(n) == /\ Runs(n, "acquire") /\ Write(n)
              /\ Report(n, n)
              /\ elector' = [elector EXCEPT ![n] = "lead"]
              /\ calls' = [calls EXCEPT ![n] = @ \o OnNewLeader(n, n) \o OnStartedLeading(n)]
              /\ UNCHANGED <<proc, leader, master, faults>>

Observe(n) == /\ Runs(n, "acquire") /\ Read(n)
              /\ Report(n, holder)
              /\ calls' = [calls EXCEPT ![n] = @ \o OnNewLeader(n, holder)]
              /\ UNCHANGED <<elector, proc, leader, master, faults>>

(* renew tries again and again, for RenewDeadline after it last succeeded.   *)
(* One that was held up for longer than the lease finds another holder; it   *)
(* goes on if that one's lease runs out before it gives up.                  *)
Renew(n) == /\ Runs(n, "lead") /\ Write(n)
            /\ UNCHANGED <<reported, elector, calls, proc, leader, master, faults>>

RenewReads(n) == /\ Runs(n, "lead") /\ Read(n)
                 /\ UNCHANGED <<reported, elector, calls, proc, leader, master, faults>>

RenewEnds(n) == /\ Runs(n, "lead")
                /\ Report(n, observed[n])
                /\ calls' = [calls EXCEPT ![n] = @ \o OnNewLeader(n, observed[n])]
                /\ elector' = [elector EXCEPT ![n] = "stopped"]
                /\ UNCHANGED <<holder, observed, seen, fresh, proc, leader, master>>

(* RenewDeadline passes after another holder was found. *)
Deposed(n) == /\ observed[n] # n
              /\ RenewEnds(n)
              /\ UNCHANGED faults

(* The API server does not answer. *)
RenewFails(n) == /\ faults < MaxFaults
                 /\ faults' = faults + 1
                 /\ RenewEnds(n)

(* The holder of the record, which may still be this node, or Nobody. *)
OnStoppedLeading(n) == /\ Runs(n, "stopped")
                       /\ \E id \in {holder, Nobody} : leader' = [leader EXCEPT ![n] = id]
                       /\ elector' = [elector EXCEPT ![n] = "acquire"]
                       /\ UNCHANGED <<holder, observed, seen, fresh, reported, calls, proc, master, faults>>

LeaseRunsOut(n) == /\ proc[n] # "down" /\ seen[n] /\ fresh[n] /\ holder # n
                   /\ fresh' = [fresh EXCEPT ![n] = FALSE]
                   /\ UNCHANGED <<holder, observed, seen, reported, elector, calls, proc, leader, master>>

(* LeaseDuration passes, and the holder no longer renews. *)
Expire(n) == /\ LeaseRunsOut(n) /\ elector[holder] # "lead"
             /\ UNCHANGED faults

(* LeaseDuration passes for this node while the holder is held up in renew, *)
(* paused or in a call that does not return.                                *)
Outlive(n) == /\ LeaseRunsOut(n) /\ elector[holder] = "lead" /\ faults < MaxFaults
              /\ faults' = faults + 1

(* The closure `fn` of main. *)
Callback(n) == \E i \in DOMAIN calls[n] :
                  /\ i = 1 \/ MayLag
                  /\ leader' = [leader EXCEPT ![n] = calls[n][i]]
                  /\ calls' = [calls EXCEPT ![n] = RemoveAt(@, i)]
                  /\ UNCHANGED <<le, proc, master, faults>>

-----------------------------------------------------------------------------

Main(n) == Start(n) \/ LeaderKnown(n) \/ Poll(n)
Run(n)  == Acquire(n) \/ Observe(n) \/ RenewReads(n) \/ OnStoppedLeading(n)

Next == \E n \in Nodes : \/ Start(n) \/ LeaderKnown(n) \/ Poll(n) \/ Crash(n)
                         \/ Acquire(n) \/ Observe(n)
                         \/ Renew(n) \/ RenewReads(n) \/ Deposed(n) \/ RenewFails(n)
                         \/ OnStoppedLeading(n) \/ Expire(n) \/ Outlive(n) \/ Callback(n)

(* Processes and their goroutines keep running, also one that was held up, a *)
(* process that ended is started again, the deadline of a deposed leader     *)
(* passes whatever else it reads meanwhile, and a lease that nobody renews   *)
(* runs out.  Faults need not happen.                                        *)
Fairness == \A n \in Nodes : /\ WF_vars(Main(n)) /\ WF_vars(Run(n)) /\ WF_vars(Deposed(n))
                             /\ WF_vars(Expire(n)) /\ WF_vars(Callback(n))
Spec == Init /\ [][Next]_vars /\ Fairness

-----------------------------------------------------------------------------
(* Properties. *)

(* The electors hold what the package puts there: what an elector has read   *)
(* last says who holds the record, unless it was written since, and an       *)
(* elector that leads has reported itself.                                   *)
TypeOK ==
    /\ holder \in Names
    /\ observed \in [Nodes -> Names]
    /\ seen \in [Nodes -> BOOLEAN] /\ fresh \in [Nodes -> BOOLEAN]
    /\ reported \in [Nodes -> Names]
    /\ elector \in [Nodes -> {"acquire", "lead", "stopped"}]
    /\ \A n \in Nodes : calls[n] \in Seq(Nodes) /\ Len(calls[n]) <= MaxCalls
    /\ proc \in [Nodes -> {"down", "waiting", "polling", "running"}]
    /\ leader \in [Nodes -> Names] /\ master \in [Nodes -> BOOLEAN]
    /\ faults \in 0 .. MaxFaults
    /\ \A n \in Nodes : seen[n] => observed[n] = holder
    /\ \A n \in Nodes : elector[n] = "lead" => reported[n] = n

(* If the record keeps its holder, that process comes to know it, and no     *)
(* other one goes on to believe in somebody else, itself included, however   *)
(* the lease was lost and won before.                                        *)
HolderSettles ==
    \A h \in Nodes : <>[](holder = h) =>
        \A n \in Nodes : <>[](leader[n] = h \/ (n # h /\ leader[n] = Nobody))

(* In the end some node runs a master for good.                              *)
SomeMaster == <>[](\E n \in Nodes : master[n])

(* If the record keeps its holder, every process comes to know it.  It does  *)
(* not hold: one that finds another holder in renew reports it, then         *)
(* OnStoppedLeading cannot read the record and sets `leader` to Nobody, and  *)
(* nothing reports that holder again.                                        *)
HolderKnown ==
    \A h \in Nodes : <>[](holder = h) => \A n \in Nodes : <>[](leader[n] = h)

(* At most one node runs a master. *)
OneMaster == \A m, n \in Nodes : master[m] /\ master[n] => m = n
=============================================================================
