----------------------------- MODULE EventQueue -----------------------------
(***************************************************************************)
(* How the objects of Kubernetes reach the handlers of watchNodes,         *)
(* watchNamespaces and watchServices: the vendored reflector lists the     *)
(* objects and watches their changes, the EventQueue (src/ksdn/            *)
(* eventqueue.go, around the vendored DeltaFIFO) keeps one delta per       *)
(* object, and the goroutine of RunEventQueue hands it to the handler.     *)
(*                                                                         *)
(* The API server is the log of its changes.  An object is the number of   *)
(* the change that made it, 0 when there is none; a list, which asks for   *)
(* resource version 0, may show any earlier state.  When the watch breaks  *)
(* the reflector lists again while deltas of before may still be waiting.  *)
(***************************************************************************)
EXTENDS Deltas, Naturals, Sequences

CONSTANTS Keys,        \* names of the objects
          MaxChanges,  \* length of the log
          MaxBreaks    \* how often the watch breaks

ASSUME EventQueueAssumption == MaxChanges \in Nat /\ MaxBreaks \in Nat

VARIABLES log,      \* the changes in the API server
          pos,      \* the reflector's resource version
          watching, \* it has listed and watches from there
          items,    \* DeltaFIFO.items, after compression
          known,    \* EventQueue.knownObjects
          handled,  \* the objects as the handler was last told of them
          up,       \* whether the process runs
          caught,   \* ghost: objects that a list caught with the wrong delta waiting
          breaks

vars == <<log, pos, watching, items, known, handled, up, caught, breaks>>

Objects == 0 .. MaxChanges
Changes == [key : Keys, type : DeltaTypes \ {"Sync"}]
NoDelta == [type |-> "None", obj |-> 0]
NoneYet == [k \in Keys |-> 0]

(* The object under k after the first n changes. *)
ObjectAt(n, k) == LET made == {i \in 1 .. n : log[i].key = k}
                  IN IF made = {} THEN 0
                     ELSE LET i == CHOOSE i \in made : \A j \in made : j <= i
                          IN IF log[i].type = "Deleted" THEN 0 ELSE i

Init == /\ log = <<>> /\ pos = 0 /\ watching = FALSE
        /\ items = [k \in Keys |-> NoDelta]
        /\ known = NoneYet /\ handled = NoneYet
        /\ up = TRUE /\ caught = {} /\ breaks = 0

-----------------------------------------------------------------------------

Change(k, type) == /\ Len(log) < MaxChanges
                   /\ (type = "Added") <=> (ObjectAt(Len(log), k) = 0)
                   /\ log' = Append(log, [key |-> k, type |-> type])
                   /\ UNCHANGED <<pos, watching, items, known, handled, up, caught, breaks>>

-----------------------------------------------------------------------------
(* The queue.  What is queued for an object with a waiting delta: *)

Queued(delta, type, obj) ==
    LET t == queueActionLocked(delta.type, type)
    IN CASE t = "None" -> NoDelta
         [] delta.type = "Deleted" /\ type \in {"Sync", "Deleted"} -> delta
         [] OTHER -> [type |-> t, obj |-> obj]

(* A deletion of what is neither known nor waiting is ignored. *)
Delete(k) == IF known[k] = 0 /\ items[k] = NoDelta THEN NoDelta
             ELSE Queued(items[k], "Deleted", known[k])

(* The list `at` replaces what is known: a Sync of each object in it and a  *)
(* Deleted of each known one that is not.                                   *)
Replaced(at, k) == IF at[k] # 0 THEN Queued(items[k], "Sync", at[k])
                   ELSE IF known[k] # 0 THEN Queued(items[k], "Deleted", known[k])
                   ELSE items[k]

(* Lists go wrong with these deltas: an Updated that gets a Sync, a Deleted   *)
(* of an object that is there again, the delta of a new object that is gone.  *)
CaughtBy(at, k) ==
    \/ at[k] # 0 /\ items[k].type \in {"Updated", "Deleted"}
    \/ at[k] = 0 /\ known[k] = 0 /\ items[k] # NoDelta

(* A panic under the lock of the queue ends the process. *)
Enqueue(new) == /\ items' = new
                /\ up' = \A k \in Keys : new[k].type # "Panic"

-----------------------------------------------------------------------------
(* The reflector. *)

List == /\ up /\ ~ watching
        /\ \E n \in 0 .. Len(log) :
             LET at == [k \in Keys |-> ObjectAt(n, k)]
             IN /\ Enqueue([k \in Keys |-> Replaced(at, k)])
                /\ caught' = caught \cup {k \in Keys : CaughtBy(at, k)}
                /\ pos' = n
        /\ watching' = TRUE
        /\ UNCHANGED <<log, known, handled, breaks>>

WatchEvent ==
    /\ up /\ watching /\ pos < Len(log)
    /\ LET k == log[pos + 1].key
           type == log[pos + 1].type
       IN Enqueue([items EXCEPT ![k] = IF type = "Deleted" THEN Delete(k)
                                       ELSE Queued(@, type, pos + 1)])
    /\ pos' = pos + 1
    /\ UNCHANGED <<log, watching, known, handled, caught, breaks>>

WatchBreaks == /\ up /\ watching /\ breaks < MaxBreaks
               /\ breaks' = breaks + 1
               /\ watching' = FALSE
               /\ UNCHANGED <<log, pos, items, known, handled, up, caught>>

(* Every 30 minutes, for each known object with nothing waiting. *)
Resync(k) == /\ up /\ known[k] # 0 /\ items[k] = NoDelta
             /\ Enqueue([items EXCEPT ![k] = Queued(@, "Sync", known[k])])
             /\ UNCHANGED <<log, pos, watching, known, handled, caught, breaks>>

-----------------------------------------------------------------------------
(* RunEventQueue. *)

(* A plausible slip: what is deleted stays known. *)
updateKnownObjects_NoDelete(k, delta) ==
    known' = [known EXCEPT ![k] = IF delta.type = "Deleted" THEN @ ELSE delta.obj]

updateKnownObjects(k, delta) ==
    known' = [known EXCEPT ![k] = IF delta.type = "Deleted" THEN 0 ELSE delta.obj]

process(k, delta) ==
    handled' = [handled EXCEPT ![k] = IF delta.type = "Deleted" THEN 0 ELSE delta.obj]

(* The lock is held while the handler runs. *)
Pop(k) == /\ up /\ items[k] # NoDelta
          /\ items' = [items EXCEPT ![k] = NoDelta]
          /\ updateKnownObjects(k, items[k])
          /\ process(k, items[k])
          /\ UNCHANGED <<log, pos, watching, up, caught, breaks>>

(* The process is started again: nothing is known. *)
Restart == /\ ~ up
           /\ pos' = 0 /\ watching' = FALSE
           /\ items' = [k \in Keys |-> NoDelta]
           /\ known' = NoneYet /\ handled' = NoneYet
           /\ up' = TRUE /\ caught' = {}
           /\ UNCHANGED <<log, breaks>>

-----------------------------------------------------------------------------

Next == \/ \E k \in Keys, type \in DeltaTypes \ {"Sync"} : Change(k, type)
        \/ List \/ WatchEvent \/ WatchBreaks
        \/ \E k \in Keys : Resync(k) \/ Pop(k)
        \/ Restart

(* The reflector and the goroutine of RunEventQueue keep running, and the   *)
(* queue is first in, first out.                                            *)
Spec == /\ Init /\ [][Next]_vars
        /\ WF_vars(List) /\ WF_vars(WatchEvent) /\ WF_vars(Restart)
        /\ \A k \in Keys : WF_vars(Pop(k))

-----------------------------------------------------------------------------
(* Properties. *)

(* The queue holds at most one delta per object, a panic being one too; that *)
(* of an object that is known is no Added, unless a list caught it.          *)
TypeOK ==
    /\ log \in Seq(Changes) /\ Len(log) <= MaxChanges
    /\ pos \in 0 .. Len(log) /\ watching \in BOOLEAN
    /\ items \in [Keys -> [type : PendingTypes \cup {"Panic"}, obj : Objects]]
    /\ \A k \in Keys \ caught : items[k].type = "Added" => known[k] = 0
    /\ known \in [Keys -> Objects] /\ handled \in [Keys -> Objects]
    /\ up \in BOOLEAN /\ caught \subseteq Keys /\ breaks \in 0 .. MaxBreaks

(* What the handler was told of an object, with the delta that waits, is the *)
(* object at the reflector's resource version: neither the compression of    *)
(* deltas, nor a deletion ignored or queued twice, nor a list that goes back *)
(* in time loses or invents anything, but for objects a list caught.         *)
Told(k) == CASE items[k] = NoDelta -> handled[k]
             [] items[k].type = "Deleted" -> 0
             [] OTHER -> items[k].obj
QueueExact == up /\ watching => \A k \in Keys \ caught : Told(k) = ObjectAt(pos, k)

(* No sequence of deltas panics unless a list caught an object.             *)
PanicOnlyIfCaught == ~ up => caught # {}

(* The handler is told of every object's last state in the end.             *)
Delivered ==
    \A k \in Keys : <>[](k \notin caught) => <>[](handled[k] = ObjectAt(Len(log), k))

(* The same for objects that were caught. *)
AllDelivered == \A k \in Keys : <>[](handled[k] = ObjectAt(Len(log), k))

(* No combination of deltas panics. *)
NoPanic == up
=============================================================================
