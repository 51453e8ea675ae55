------------------------------- MODULE Deltas -------------------------------
(***************************************************************************)
(* How an EventQueue (src/ksdn/eventqueue.go) combines the changes of ONE  *)
(* object that wait to be processed.  deltaCompressor leaves at most one   *)
(* delta per key, so what waits is its type, or "None".  queueActionLocked *)
(* is the step of the vendored DeltaFIFO around it: a Sync of an object    *)
(* about to be deleted is ignored and two Deleted are one.                 *)
(***************************************************************************)

DeltaTypes   == {"Added", "Updated", "Sync", "Deleted"}
PendingTypes == DeltaTypes \cup {"None"}

(* A plausible slip: a Deleted that follows a Sync or an Updated is dropped. *)
deltaActionMatrix_DropDeleted ==
    [Added   |-> [Sync |-> "Added",  Updated |-> "Added",   Deleted |-> "None"],
     Sync    |-> [Sync |-> "Sync",   Updated |-> "Sync",    Deleted |-> "Sync"],
     Updated |-> [Updated |-> "Updated", Deleted |-> "Updated"],
     Deleted |-> [Added |-> "Updated", Sync |-> "Sync"]]

(* A plausible slip: an object that is created again before its deletion was *)
(* processed is not thought of.                                              *)
deltaActionMatrix_NoReadd ==
    [Added   |-> [Sync |-> "Added",  Updated |-> "Added",   Deleted |-> "None"],
     Sync    |-> [Sync |-> "Sync",   Updated |-> "Sync",    Deleted |-> "Deleted"],
     Updated |-> [Updated |-> "Updated", Deleted |-> "Deleted"],
     Deleted |-> [Sync |-> "Sync"]]

(* A combination the matrix does not list panics. *)
deltaActionMatrix ==
    [Added   |-> [Sync |-> "Added",  Updated |-> "Added",   Deleted |-> "None"],
     Sync    |-> [Sync |-> "Sync",   Updated |-> "Sync",    Deleted |-> "Deleted"],
     Updated |-> [Updated |-> "Updated", Deleted |-> "Deleted"],
     Deleted |-> [Added |-> "Updated", Sync |-> "Sync"]]

deltaCompressor(old, new) ==
    IF old = "None" THEN new
    ELSE IF new \in DOMAIN deltaActionMatrix[old] THEN deltaActionMatrix[old][new]
    ELSE "Panic"

queueActionLocked(old, new) ==
    IF old = "Deleted" /\ new \in {"Sync", "Deleted"} THEN "Deleted"
    ELSE deltaCompressor(old, new)
=============================================================================
