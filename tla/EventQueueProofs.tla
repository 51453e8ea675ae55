--------------------------- MODULE EventQueueProofs ---------------------------
(***************************************************************************)
(* Proofs about EventQueue, for any objects, any length of the log and any *)
(* number of broken watches.                                               *)
(***************************************************************************)
EXTENDS EventQueue, TLAPS

Made(n, k) == {i \in 1 .. n : log[i].key = k}
Last(S) == CHOOSE i \in S : \A j \in S : j <= i

-----------------------------------------------------------------------------
(* The log. *)

(* ObjectAt in terms of the last change of the object.                      *)
LEMMA ObjectAtLast ==
    ASSUME NEW n, NEW k
    PROVE  ObjectAt(n, k) = IF Made(n, k) = {} THEN 0
                            ELSE IF log[Last(Made(n, k))].type = "Deleted" THEN 0
                            ELSE Last(Made(n, k))
BY Zenon DEF ObjectAt, Made, Last

(* The next change makes or deletes its own object and no other.            *)
LEMMA ObjectAtStep ==
    ASSUME log \in Seq(Changes), NEW n \in Nat, n < Len(log), NEW k \in Keys
    PROVE  ObjectAt(n + 1, k) = IF log[n + 1].key # k THEN ObjectAt(n, k)
                                ELSE IF log[n + 1].type = "Deleted" THEN 0 ELSE n + 1
<1>1. CASE log[n + 1].key # k
  <2>1. Made(n + 1, k) = Made(n, k)
    BY <1>1 DEF Made
  <2> QED BY <1>1, <2>1, ObjectAtLast
<1>2. CASE log[n + 1].key = k
  <2>1. n + 1 \in Made(n + 1, k) /\ \A j \in Made(n + 1, k) : j <= n + 1 /\ j \in Nat
    BY <1>2 DEF Made
  <2>2. /\ Last(Made(n + 1, k)) \in Made(n + 1, k)
        /\ \A j \in Made(n + 1, k) : j <= Last(Made(n + 1, k))
    BY <2>1 DEF Last
  <2>3. Last(Made(n + 1, k)) = n + 1
    BY <2>1, <2>2
  <2> QED BY <1>2, <2>1, <2>3, ObjectAtLast
<1> QED BY <1>1, <1>2

(***************************************************************************)
(* What the log keeps: the changes of an object have a last one, an object *)
(* is made by a change that came before, and one is added only when it is  *)
(* not there.                                                              *)
(***************************************************************************)
LogInv ==
    /\ log \in Seq(Changes) /\ Len(log) <= MaxChanges
    /\ \A n \in 0 .. Len(log), k \in Keys :
         /\ Made(n, k) # {} => Last(Made(n, k)) \in Made(n, k)
         /\ ObjectAt(n, k) \in 0 .. n
    /\ \A i \in 1 .. Len(log) :
         (log[i].type = "Added") <=> (ObjectAt(i - 1, log[i].key) = 0)

(* A later change leaves the object after the first n as it was.            *)
LEMMA ObjectAtKept ==
    ASSUME LogInv, NEW c \in Changes, log' = Append(log, c),
           NEW n \in 0 .. Len(log), NEW k \in Keys
    PROVE  Made(n, k)' = Made(n, k) /\ ObjectAt(n, k)' = ObjectAt(n, k)
<1>1. \A i \in 1 .. n : log'[i] = log[i]
  BY DEF LogInv
<1>2. Made(n, k)' = Made(n, k)
  BY <1>1 DEF Made
<1>3. ObjectAt(n, k)' = IF Made(n, k)' = {} THEN 0
                        ELSE IF log'[Last(Made(n, k)')].type = "Deleted" THEN 0
                        ELSE Last(Made(n, k)')
  BY Zenon DEF ObjectAt, Made, Last
<1>4. CASE Made(n, k) = {}
  BY <1>2, <1>3, <1>4, ObjectAtLast
<1>5. CASE Made(n, k) # {}
  <2>1. Last(Made(n, k)) \in 1 .. n
    BY <1>5 DEF LogInv, Made
  <2> QED BY <1>1, <1>2, <1>3, <1>5, <2>1, ObjectAtLast
<1> QED BY <1>2, <1>4, <1>5

-----------------------------------------------------------------------------
(* The queue: what an object's delta becomes. *)

(* The matrix, as a table: what a delta becomes when another one follows.   *)
LEMMA Compressed ==
    ASSUME NEW old \in PendingTypes, NEW new \in DeltaTypes
    PROVE  queueActionLocked(old, new) =
             IF old = "None" THEN new
             ELSE IF old = "Added" /\ new \in {"Sync", "Updated"} THEN "Added"
             ELSE IF old = "Added" /\ new = "Deleted" THEN "None"
             ELSE IF old = "Sync" /\ new \in {"Sync", "Updated"} THEN "Sync"
             ELSE IF old \in {"Sync", "Updated"} /\ new = "Deleted" THEN "Deleted"
             ELSE IF old = "Updated" /\ new = "Updated" THEN "Updated"
             ELSE IF old = "Deleted" /\ new = "Added" THEN "Updated"
             ELSE IF old = "Deleted" /\ new \in {"Sync", "Deleted"} THEN "Deleted"
             ELSE "Panic"
<1>1. CASE old = "None"
  BY <1>1 DEF queueActionLocked, deltaCompressor, PendingTypes, DeltaTypes
<1>2. CASE old = "Added"
  BY <1>2 DEF queueActionLocked, deltaCompressor, deltaActionMatrix, DeltaTypes
<1>3. CASE old = "Sync"
  BY <1>3 DEF queueActionLocked, deltaCompressor, deltaActionMatrix, DeltaTypes
<1>4. CASE old = "Updated"
  BY <1>4 DEF queueActionLocked, deltaCompressor, deltaActionMatrix, DeltaTypes
<1>5. CASE old = "Deleted"
  BY <1>5 DEF queueActionLocked, deltaCompressor, deltaActionMatrix, DeltaTypes
<1> QED BY <1>1, <1>2, <1>3, <1>4, <1>5 DEF PendingTypes, DeltaTypes

QueuedItems == [type : PendingTypes \cup {"Panic"}, obj : Objects]

(* A waiting delta and a new one make a delta, a panic or nothing.          *)
LEMMA QueuedType ==
    ASSUME NEW delta \in [type : PendingTypes, obj : Objects],
           NEW type \in DeltaTypes, NEW obj \in Objects
    PROVE  /\ Queued(delta, type, obj) \in QueuedItems
           /\ Queued(delta, type, obj).type = "None" => Queued(delta, type, obj) = NoDelta
<1>1. queueActionLocked(delta.type, type) \in PendingTypes \cup {"Panic"}
  BY Compressed DEF PendingTypes, DeltaTypes
<1>2. 0 \in Objects
  BY EventQueueAssumption DEF Objects
<1>3. CASE queueActionLocked(delta.type, type) = "None"
  BY <1>2, <1>3 DEF Queued, QueuedItems, NoDelta, PendingTypes
<1>4. CASE /\ queueActionLocked(delta.type, type) # "None"
           /\ delta.type = "Deleted" /\ type \in {"Sync", "Deleted"}
  BY <1>4 DEF Queued, QueuedItems
<1>5. CASE /\ queueActionLocked(delta.type, type) # "None"
           /\ ~ (delta.type = "Deleted" /\ type \in {"Sync", "Deleted"})
  <2>1. Queued(delta, type, obj) = [type |-> queueActionLocked(delta.type, type), obj |-> obj]
    BY <1>5 DEF Queued
  <2> QED BY <1>1, <1>5, <2>1 DEF QueuedItems
<1> QED BY <1>3, <1>4, <1>5

(* The combinations that do not panic.                                      *)
LEMMA QueuedDelta ==
    ASSUME NEW delta \in [type : PendingTypes, obj : Objects],
           NEW type \in DeltaTypes, NEW obj \in Objects
    PROVE  /\ delta.type = "None" => Queued(delta, type, obj) = [type |-> type, obj |-> obj]
           /\ delta.type = "Added" /\ type \in {"Sync", "Updated"}
                => Queued(delta, type, obj) = [type |-> "Added", obj |-> obj]
           /\ delta.type = "Added" /\ type = "Deleted" => Queued(delta, type, obj) = NoDelta
           /\ delta.type = "Sync" /\ type \in {"Sync", "Updated"}
                => Queued(delta, type, obj) = [type |-> "Sync", obj |-> obj]
           /\ delta.type \in {"Sync", "Updated"} /\ type = "Deleted"
                => Queued(delta, type, obj) = [type |-> "Deleted", obj |-> obj]
           /\ delta.type = "Updated" /\ type = "Updated"
                => Queued(delta, type, obj) = [type |-> "Updated", obj |-> obj]
           /\ delta.type = "Deleted" /\ type = "Added"
                => Queued(delta, type, obj) = [type |-> "Updated", obj |-> obj]
           /\ delta.type = "Deleted" /\ type \in {"Sync", "Deleted"}
                => Queued(delta, type, obj) = delta
BY Compressed DEF Queued, DeltaTypes

-----------------------------------------------------------------------------
(***************************************************************************)
(* The inductive invariant.  An object no list caught has a delta that the *)
(* next change of it can be combined with, and with it the handler has     *)
(* been told the object at the reflector's resource version, whether or    *)
(* not it watches at the moment.                                           *)
(***************************************************************************)
Exact(k) == /\ items[k].type # "Panic"
            /\ items[k].type = "Added" => known[k] = 0
            /\ items[k].type \in {"Added", "Updated", "Sync"} => items[k].obj # 0
            /\ Told(k) = ObjectAt(pos, k)

Types == /\ pos \in 0 .. Len(log) /\ watching \in BOOLEAN
         /\ items \in [Keys -> QueuedItems]
         /\ \A k \in Keys : items[k].type = "None" => items[k] = NoDelta
         /\ known \in [Keys -> Objects] /\ handled = known
         /\ up \in BOOLEAN /\ (up <=> \A k \in Keys : items[k].type # "Panic")
         /\ caught \subseteq Keys /\ breaks \in 0 .. MaxBreaks

IInv == LogInv /\ Types /\ \A k \in Keys \ caught : Exact(k)

(* It holds in the beginning.                                               *)
LEMMA Initially == Init => IInv
<1> SUFFICES ASSUME Init PROVE IInv
  OBVIOUS
<1>1. \A k \in Keys : Made(0, k) = {} /\ ObjectAt(0, k) = 0
  <2>1. \A k \in Keys : Made(0, k) = {}
    BY DEF Made
  <2> QED BY <2>1, ObjectAtLast, Zenon
<1>2. 0 \in Objects
  BY EventQueueAssumption DEF Objects
<1>3. LogInv
  BY <1>1, EventQueueAssumption DEF Init, LogInv
<1>4. Types
  <2>1. NoDelta \in QueuedItems /\ NoDelta.type = "None"
    BY <1>2 DEF NoDelta, QueuedItems, PendingTypes
  <2>2. items \in [Keys -> QueuedItems] /\ \A k \in Keys : items[k] = NoDelta
    BY <2>1 DEF Init
  <2>3. known \in [Keys -> Objects] /\ handled = known
    BY <1>2 DEF Init, NoneYet
  <2>4. up /\ \A k \in Keys : items[k].type # "Panic"
    BY <2>1, <2>2 DEF Init
  <2>5. pos = 0 /\ Len(log) = 0 /\ watching = FALSE /\ up = TRUE /\ caught = {} /\ breaks = 0
    BY DEF Init
  <2>6. up \in BOOLEAN /\ (up <=> \A k \in Keys : items[k].type # "Panic")
    BY <2>4, <2>5
  <2>7. \A k \in Keys : items[k].type = "None" => items[k] = NoDelta
    BY <2>2
  <2>8. pos \in 0 .. Len(log) /\ breaks \in 0 .. MaxBreaks
    BY <2>5, EventQueueAssumption
  <2> QED BY <2>2, <2>3, <2>5, <2>6, <2>7, <2>8 DEF Types
<1>5. \A k \in Keys : Exact(k)
  BY <1>1 DEF Init, Exact, Told, NoDelta, NoneYet
<1> QED BY <1>3, <1>4, <1>5 DEF IInv

(* What is queued for one object, by a change of it that comes through the  *)
(* watch, by a list, and by a resync.                                       *)
Unhandled(k, delta, obj) == /\ delta.type # "Panic"
                            /\ delta.type = "Added" => known[k] = 0
                            /\ delta.type \in {"Added", "Updated", "Sync"} => delta.obj # 0
                            /\ obj = CASE delta = NoDelta -> known[k]
                                       [] delta.type = "Deleted" -> 0
                                       [] OTHER -> delta.obj

Watched(k) == IF log[pos + 1].type = "Deleted" THEN Delete(k)
              ELSE Queued(items[k], log[pos + 1].type, pos + 1)

(* What is known of one object and of its delta.                            *)
LEMMA OfObject ==
    ASSUME Types, up, NEW k \in Keys
    PROVE  /\ items[k] \in [type : PendingTypes, obj : Objects]
           /\ items[k] \in QueuedItems
           /\ items[k].type = "None" => items[k] = NoDelta
           /\ known[k] \in Objects /\ 0 \in Objects
           /\ NoDelta \in QueuedItems
<1>1. 0 \in Objects
  BY EventQueueAssumption DEF Objects
<1>2. items[k] \in QueuedItems /\ items[k].type # "Panic"
  BY DEF Types
<1> QED BY <1>1, <1>2 DEF Types, QueuedItems, NoDelta, PendingTypes

(* The change the watch shows next.                                         *)
LEMMA OfChange ==
    ASSUME LogInv, Types, pos < Len(log)
    PROVE  /\ pos \in Nat /\ pos + 1 \in Nat /\ pos + 1 # 0 /\ pos + 1 - 1 = pos
           /\ pos + 1 \in 1 .. Len(log) /\ pos + 1 \in Objects
           /\ log[pos + 1] \in Changes /\ log[pos + 1].key \in Keys
           /\ log[pos + 1].type \in {"Added", "Updated", "Deleted"}
<1>1. /\ pos \in Nat /\ pos + 1 \in Nat /\ pos + 1 # 0 /\ pos + 1 - 1 = pos
      /\ pos + 1 \in 1 .. Len(log) /\ pos + 1 \in Objects
  BY EventQueueAssumption DEF LogInv, Types, Objects
<1>2. log[pos + 1] \in Changes
  BY <1>1 DEF LogInv
<1> QED BY <1>1, <1>2 DEF Changes, DeltaTypes

(* What the watch queues is a delta, a panic or nothing.                    *)
LEMMA WatchedType ==
    ASSUME LogInv, Types, up, pos < Len(log), NEW k \in Keys
    PROVE  Watched(k) \in QueuedItems /\ (Watched(k).type = "None" => Watched(k) = NoDelta)
<1>1. log[pos + 1].type \in DeltaTypes /\ "Deleted" \in DeltaTypes
  BY OfChange DEF DeltaTypes
<1>2. CASE log[pos + 1].type = "Deleted"
  BY <1>1, <1>2, OfObject, QueuedType DEF Watched, Delete
<1>3. CASE log[pos + 1].type # "Deleted"
  BY <1>1, <1>3, OfObject, OfChange, QueuedType DEF Watched
<1> QED BY <1>2, <1>3

(* For an exact object it is no panic and says what the change made of it.  *)
LEMMA WatchedExact ==
    ASSUME LogInv, Types, up, pos < Len(log), NEW k \in Keys, Exact(k), log[pos + 1].key = k
    PROVE  Unhandled(k, Watched(k), ObjectAt(pos + 1, k))
<1> DEFINE T == log[pos + 1].type
           delta == items[k]
<1>1. /\ delta \in [type : PendingTypes, obj : Objects]
      /\ known[k] \in Objects
      /\ pos + 1 \in Objects /\ pos + 1 # 0
  BY OfObject, OfChange
<1>2. T \in {"Added", "Updated", "Deleted"}
  BY OfChange
<1>3. (T = "Added") <=> (Told(k) = 0)
  BY OfChange DEF LogInv, Exact
<1>4. ObjectAt(pos + 1, k) = IF T = "Deleted" THEN 0 ELSE pos + 1
  BY OfChange, ObjectAtStep DEF LogInv, Types
<1>5. /\ delta.type = "Added" => known[k] = 0
      /\ delta.type \in {"Added", "Updated", "Sync"} => delta.obj # 0
      /\ delta.type = "None" => delta = NoDelta
      /\ Told(k) = CASE delta = NoDelta -> known[k]
                     [] delta.type = "Deleted" -> 0
                     [] OTHER -> delta.obj
  BY DEF Exact, Types, Told
<1> HIDE DEF delta
<1>6. CASE T = "Added"
  <2>1. Watched(k) = Queued(delta, "Added", pos + 1)
    BY <1>6 DEF Watched, delta
  <2>2. delta.type \in {"None", "Deleted"}
    BY <1>1, <1>3, <1>5, <1>6 DEF PendingTypes, DeltaTypes, NoDelta
  <2>3. delta.type = "None" => known[k] = 0
    BY <1>3, <1>5, <1>6 
  <2>4. Watched(k) \in {[type |-> "Added", obj |-> pos + 1], [type |-> "Updated", obj |-> pos + 1]}
    BY <1>1, <2>1, <2>2, QueuedDelta DEF DeltaTypes
  <2>5. delta.type = "Deleted" => Watched(k).type = "Updated"
    BY <1>1, <2>1, QueuedDelta DEF DeltaTypes
  <2> QED BY <1>1, <1>4, <1>6, <2>2, <2>3, <2>4, <2>5 DEF Unhandled, NoDelta
<1>7. CASE T = "Updated"
  <2>1. Watched(k) = Queued(delta, "Updated", pos + 1)
    BY <1>7 DEF Watched, delta
  <2>2. delta.type \in {"None", "Added", "Updated", "Sync"}
    BY <1>1, <1>3, <1>5, <1>7 DEF PendingTypes, DeltaTypes, NoDelta
  <2>3. /\ Watched(k).obj = pos + 1 /\ Watched(k).type \in {"Added", "Updated", "Sync"}
        /\ Watched(k).type = "Added" => known[k] = 0
    BY <1>1, <1>5, <2>1, <2>2, QueuedDelta DEF DeltaTypes
  <2> QED BY <1>1, <1>4, <1>7, <2>3 DEF Unhandled, NoDelta
<1>8. CASE T = "Deleted"
  <2>1. delta.type \in {"None", "Added", "Updated", "Sync"} /\ (delta.type = "None" => known[k] # 0)
    BY <1>1, <1>3, <1>5, <1>8 DEF PendingTypes, DeltaTypes, NoDelta
  <2>2. Watched(k) = Queued(delta, "Deleted", known[k])
    BY <1>8, <2>1, <1>5 DEF Watched, Delete, delta, NoDelta
  <2>3. \/ Watched(k) = NoDelta /\ known[k] = 0
        \/ Watched(k).type = "Deleted"
    <3>1. delta.type = "Added" => Watched(k) = NoDelta
      BY <1>1, <2>2, QueuedDelta DEF DeltaTypes
    <3>2. delta.type # "Added" => Watched(k) = [type |-> "Deleted", obj |-> known[k]]
      BY <1>1, <2>1, <2>2, QueuedDelta DEF DeltaTypes
    <3> QED BY <1>5, <3>1, <3>2
  <2> QED BY <1>4, <1>8, <2>3 DEF Unhandled, NoDelta
<1> QED BY <1>2, <1>6, <1>7, <1>8

Listed(n, k) == Replaced([x \in Keys |-> ObjectAt(n, x)], k)

(* What a list queues is a delta, a panic or nothing.                       *)
LEMMA ListedType ==
    ASSUME LogInv, Types, up, NEW n \in 0 .. Len(log), NEW k \in Keys
    PROVE  Listed(n, k) \in QueuedItems /\ (Listed(n, k).type = "None" => Listed(n, k) = NoDelta)
<1>1. ObjectAt(n, k) \in Objects
  BY EventQueueAssumption DEF LogInv, Objects
<1>2. Listed(n, k) \in {Queued(items[k], "Sync", ObjectAt(n, k)),
                        Queued(items[k], "Deleted", known[k]), items[k]}
  BY DEF Listed, Replaced
<1> QED BY <1>1, <1>2, OfObject, QueuedType DEF DeltaTypes

(* For an exact object that is not caught it is no panic and says what the  *)
(* list shows.                                                              *)
LEMMA ListedExact ==
    ASSUME LogInv, Types, up, NEW n \in 0 .. Len(log), NEW k \in Keys, Exact(k),
           ~ CaughtBy([x \in Keys |-> ObjectAt(n, x)], k)
    PROVE  Unhandled(k, Listed(n, k), ObjectAt(n, k))
<1> DEFINE delta == items[k]
<1>1. /\ delta \in [type : PendingTypes, obj : Objects]
      /\ known[k] \in Objects /\ ObjectAt(n, k) \in Objects
  BY OfObject, EventQueueAssumption DEF LogInv, Objects
<1>2. /\ delta.type = "Added" => known[k] = 0
      /\ delta.type = "None" => delta = NoDelta
  BY DEF Exact, Types
<1>3. /\ ObjectAt(n, k) # 0 => delta.type \notin {"Updated", "Deleted"}
      /\ ObjectAt(n, k) = 0 /\ known[k] = 0 => delta = NoDelta
  BY DEF CaughtBy
<1>4. CASE ObjectAt(n, k) # 0
  <2>1. Listed(n, k) = Queued(delta, "Sync", ObjectAt(n, k))
    BY <1>4 DEF Listed, Replaced
  <2>2. delta.type \in {"None", "Added", "Sync"}
    BY <1>1, <1>3, <1>4 DEF PendingTypes, DeltaTypes
  <2> HIDE DEF delta
  <2>3. Listed(n, k) = [type |-> IF delta.type = "Added" THEN "Added" ELSE "Sync",
                        obj |-> ObjectAt(n, k)]
    BY <1>1, <2>1, <2>2, QueuedDelta DEF DeltaTypes
  <2> QED BY <1>2, <1>4, <2>3 DEF Unhandled, NoDelta
<1>5. CASE ObjectAt(n, k) = 0 /\ known[k] # 0
  <2>1. Listed(n, k) = Queued(delta, "Deleted", known[k])
    BY <1>5 DEF Listed, Replaced
  <2>2. delta.type \in {"None", "Sync", "Updated", "Deleted"}
    BY <1>1, <1>2, <1>5 DEF PendingTypes, DeltaTypes
  <2> HIDE DEF delta
  <2>3. Listed(n, k).type = "Deleted"
    BY <1>1, <2>1, <2>2, QueuedDelta DEF DeltaTypes
  <2> QED BY <1>5, <2>3 DEF Unhandled, NoDelta
<1>6. CASE ObjectAt(n, k) = 0 /\ known[k] = 0
  <2>1. Listed(n, k) = NoDelta
    BY <1>3, <1>6 DEF Listed, Replaced
  <2> QED BY <1>6, <2>1 DEF Unhandled, NoDelta
<1> QED BY <1>4, <1>5, <1>6

-----------------------------------------------------------------------------
(* The steps. *)

(* A new change keeps what the log keeps.                                   *)
LEMMA ChangeKeepsLog ==
    ASSUME LogInv, NEW k \in Keys, NEW type \in DeltaTypes \ {"Sync"}, Change(k, type)
    PROVE  LogInv'
<1> DEFINE c == [key |-> k, type |-> type]
<1> PICK N \in Nat : N = Len(log)
  BY DEF LogInv
<1>1. /\ c \in Changes /\ log' = Append(log, c) /\ N \in Nat /\ N < MaxChanges
      /\ log' \in Seq(Changes) /\ Len(log') = N + 1 /\ log'[N + 1] = c
      /\ \A i \in 1 .. N : log'[i] = log[i]
  BY EventQueueAssumption DEF LogInv, Change, Changes
<1>2. \A n \in 0 .. N, x \in Keys : Made(n, x)' = Made(n, x) /\ ObjectAt(n, x)' = ObjectAt(n, x)
  BY <1>1, ObjectAtKept
<1> HIDE DEF c
<1>3. ASSUME NEW n \in 0 .. N, NEW x \in Keys
      PROVE  /\ Made(n, x)' # {} => Last(Made(n, x)') \in Made(n, x)'
             /\ ObjectAt(n, x)' \in 0 .. n
  BY <1>2 DEF LogInv
<1>4. ASSUME NEW x \in Keys
      PROVE  /\ Made(N + 1, x)' # {} => Last(Made(N + 1, x)') \in Made(N + 1, x)'
             /\ ObjectAt(N + 1, x)' \in 0 .. N + 1
  <2>1. ObjectAt(N + 1, x)' = IF Made(N + 1, x)' = {} THEN 0
                              ELSE IF log'[Last(Made(N + 1, x)')].type = "Deleted" THEN 0
                              ELSE Last(Made(N + 1, x)')
    BY Zenon DEF ObjectAt, Made, Last
  <2>2. CASE x = k
    <3>1. N + 1 \in Made(N + 1, x)' /\ \A j \in Made(N + 1, x)' : j \in Nat /\ j <= N + 1
      BY <1>1, <2>2 DEF Made, c
    <3>2. /\ Last(Made(N + 1, x)') \in Made(N + 1, x)'
      BY <3>1 DEF Last
    <3> QED BY <1>1, <2>1, <3>1, <3>2
  <2>3. CASE x # k
    <3>1. Made(N + 1, x)' = Made(N, x)'
      BY <1>1, <2>3 DEF Made, c
    <3>2. N \in 0 .. N
      BY <1>1
    <3>3. Made(N, x)' # {} => Last(Made(N, x)') \in Made(N, x)'
      BY <1>3, <3>2
    <3>4. Made(N, x)' \subseteq 1 .. N
      BY DEF Made
    <3> QED BY <1>1, <2>1, <3>1, <3>3, <3>4
  <2> QED BY <2>2, <2>3
<1>5. ASSUME NEW i \in 1 .. N + 1
      PROVE  (log'[i].type = "Added") <=> (ObjectAt(i - 1, log[i].key)' = 0)
  <2>1. CASE i <= N
    <3>1. i \in 1 .. N /\ i - 1 \in 0 .. N /\ log'[i] = log[i]
      BY <1>1, <2>1
    <3>2. log[i] \in Changes
      BY <3>1 DEF LogInv
    <3>3. log[i].key \in Keys
      BY <3>2 DEF Changes
    <3> QED BY <1>2, <3>1, <3>3 DEF LogInv
  <2>2. CASE i = N + 1
    BY <1>1, <1>2, <2>2 DEF Change, c
  <2> QED BY <1>1, <2>1, <2>2
<1>6. ASSUME NEW n \in 0 .. N + 1, NEW x \in Keys
      PROVE  /\ Made(n, x)' # {} => Last(Made(n, x)') \in Made(n, x)'
             /\ ObjectAt(n, x)' \in 0 .. n
  <2>1. n \in 0 .. N \/ n = N + 1
    BY <1>1
  <2> QED BY <1>3, <1>4, <2>1
<1>7. \A n \in 0 .. Len(log'), x \in Keys :
        /\ Made(n, x)' # {} => Last(Made(n, x)') \in Made(n, x)'
        /\ ObjectAt(n, x)' \in 0 .. n
  BY <1>1, <1>6
<1>8. \A i \in 1 .. Len(log') : (log'[i].type = "Added") <=> (ObjectAt(i - 1, log[i].key)' = 0)
  BY <1>1, <1>5
<1>9. Len(log') <= MaxChanges
  BY <1>1, EventQueueAssumption
<1> QED BY <1>1, <1>7, <1>8, <1>9 DEF LogInv

(* The log keeps it when nothing changes it.                                *)
LEMMA SameLog ==
    ASSUME LogInv, UNCHANGED log
    PROVE  LogInv'
<1>1. ASSUME NEW n, NEW k PROVE Made(n, k)' = Made(n, k) /\ ObjectAt(n, k)' = ObjectAt(n, k)
  BY DEF Made, ObjectAt
<1> QED BY <1>1 DEF LogInv

(* A change in the API server reaches nothing but the log.                  *)
LEMMA ChangeInv ==
    ASSUME IInv, NEW k \in Keys, NEW type \in DeltaTypes \ {"Sync"}, Change(k, type)
    PROVE  IInv'
<1> DEFINE c == [key |-> k, type |-> type]
<1>1. /\ c \in Changes /\ log' = Append(log, c) /\ pos \in 0 .. Len(log)
      /\ pos \in 0 .. Len(log')
      /\ LogInv /\ UNCHANGED <<pos, watching, items, known, handled, up, caught, breaks>>
  BY DEF IInv, Types, LogInv, Change, Changes
<1>2. \A x \in Keys : ObjectAt(pos, x)' = ObjectAt(pos, x)
  <2> SUFFICES ASSUME NEW x \in Keys PROVE ObjectAt(pos, x)' = ObjectAt(pos, x)
    OBVIOUS
  <2> PICK n \in 0 .. Len(log) : n = pos
    BY <1>1
  <2>1. ObjectAt(n, x)' = ObjectAt(pos, x)'
    BY <1>1 DEF ObjectAt
  <2> QED BY <1>1, <2>1, ObjectAtKept
<1>3. Types'
  BY <1>1 DEF IInv, Types
<1>4. \A x \in Keys \ caught : Exact(x)'
  BY <1>1, <1>2 DEF IInv, Exact, Told
<1> QED BY <1>1, <1>3, <1>4, ChangeKeepsLog DEF IInv

(* What is exact stays so when a delta is queued, a list or change later.   *)
LEMMA ExactAfter ==
    ASSUME Types, NEW k \in Keys, UNCHANGED <<known, handled>>,
           Unhandled(k, items'[k], ObjectAt(pos, k)')
    PROVE  Exact(k)'
BY DEF Types, Unhandled, Exact, Told

(* A list, which may go back in time.                                       *)
LEMMA ListInv == ASSUME IInv, List PROVE IInv'
<1> PICK n \in 0 .. Len(log) :
           /\ Enqueue([k \in Keys |-> Listed(n, k)])
           /\ caught' = caught \cup {k \in Keys : CaughtBy([x \in Keys |-> ObjectAt(n, x)], k)}
           /\ pos' = n
  BY DEF List, Listed
<1>1. LogInv /\ Types /\ up /\ UNCHANGED <<log, known, handled, breaks>> /\ watching' = TRUE
  BY DEF IInv, List
<1>2. /\ \A k \in Keys : items'[k] = Listed(n, k)
      /\ items' = [k \in Keys |-> Listed(n, k)]
      /\ up' = \A k \in Keys : items'[k].type # "Panic"
  BY DEF Enqueue
<1>3. LogInv'
  BY <1>1, SameLog
<1>4. Types'
  <2>1. \A k \in Keys : /\ items'[k] \in QueuedItems
                        /\ items'[k].type = "None" => items'[k] = NoDelta
    BY <1>1, <1>2, ListedType
  <2>2. items' \in [Keys -> QueuedItems]
    BY <1>2, <2>1
  <2>3. up' \in BOOLEAN /\ (up' <=> \A k \in Keys : items'[k].type # "Panic")
    BY <1>2
  <2>4. caught' \subseteq Keys
    BY <1>1 DEF Types
  <2> QED BY <1>1, <2>1, <2>2, <2>3, <2>4 DEF Types
<1>5. ASSUME NEW k \in Keys \ caught' PROVE Exact(k)'
  <2>1. k \in Keys \ caught /\ ~ CaughtBy([x \in Keys |-> ObjectAt(n, x)], k)
    OBVIOUS
  <2>2. Unhandled(k, Listed(n, k), ObjectAt(n, k))
    BY <1>1, <2>1, ListedExact DEF IInv
  <2>3. ObjectAt(pos, k)' = ObjectAt(n, k)
    BY <1>1 DEF ObjectAt
  <2> QED BY <1>1, <1>2, <2>2, <2>3, ExactAfter
<1> QED BY <1>3, <1>4, <1>5 DEF IInv

(* An event of the watch.                                                   *)
LEMMA WatchEventInv == ASSUME IInv, WatchEvent PROVE IInv'
<1> DEFINE k == log[pos + 1].key
<1>1. /\ LogInv /\ Types /\ up /\ pos < Len(log) /\ pos' = pos + 1
      /\ UNCHANGED <<log, watching, known, handled, caught, breaks>>
  BY DEF IInv, WatchEvent
<1>2. k \in Keys /\ pos + 1 \in 0 .. Len(log)
  BY <1>1, OfChange
<1>3. /\ items' = [items EXCEPT ![k] = Watched(k)]
      /\ up' = \A x \in Keys : items'[x].type # "Panic"
  <2>1. CASE log[pos + 1].type = "Deleted"
    BY <2>1 DEF WatchEvent, Enqueue, Watched
  <2>2. CASE log[pos + 1].type # "Deleted"
    BY <2>2 DEF WatchEvent, Enqueue, Watched
  <2> QED BY <2>1, <2>2
<1>4. LogInv'
  BY <1>1, SameLog
<1>5. Watched(k) \in QueuedItems /\ (Watched(k).type = "None" => Watched(k) = NoDelta)
  BY <1>1, <1>2, WatchedType
<1>6. Types'
  <2>1. /\ items' \in [Keys -> QueuedItems]
        /\ \A x \in Keys : items'[x].type = "None" => items'[x] = NoDelta
    BY <1>1, <1>2, <1>3, <1>5 DEF Types
  <2>2. up' \in BOOLEAN /\ (up' <=> \A x \in Keys : items'[x].type # "Panic")
    BY <1>3
  <2> QED BY <1>1, <1>2, <2>1, <2>2 DEF Types
<1>7. ASSUME NEW x \in Keys \ caught' PROVE Exact(x)'
  <2>1. x \in Keys \ caught /\ Exact(x)
    BY <1>1 DEF IInv
  <2>2. CASE x = k
    <3>1. Unhandled(k, Watched(k), ObjectAt(pos + 1, k))
      BY <1>1, <1>2, <2>1, <2>2, WatchedExact
    <3>2. items'[x] = Watched(k)
      BY <1>1, <1>2, <1>3, <2>2 DEF Types
    <3>3. ObjectAt(pos, x)' = ObjectAt(pos + 1, k)
      BY <1>1, <2>2 DEF ObjectAt
    <3> QED BY <1>1, <2>1, <2>2, <3>1, <3>2, <3>3, ExactAfter
  <2>3. CASE x # k
    <3>1. ObjectAt(pos + 1, x) = ObjectAt(pos, x)
      BY <1>1, <2>3, OfChange, ObjectAtStep DEF LogInv
    <3>2. items'[x] = items[x]
      BY <1>1, <1>3, <2>3 DEF Types
    <3>3. ObjectAt(pos, x)' = ObjectAt(pos + 1, x)
      BY <1>1 DEF ObjectAt
    <3> QED BY <1>1, <2>1, <3>1, <3>2, <3>3 DEF Exact, Told
  <2> QED BY <2>2, <2>3
<1> QED BY <1>4, <1>6, <1>7 DEF IInv

(* A watch that breaks changes no delta.                                    *)
LEMMA WatchBreaksInv == ASSUME IInv, WatchBreaks PROVE IInv'
<1>1. LogInv /\ UNCHANGED <<log, pos, items, known, handled, up, caught>>
  BY DEF IInv, WatchBreaks
<1>2. Types'
  <2>1. watching' \in BOOLEAN
    BY DEF WatchBreaks
  <2>2. breaks \in 0 .. MaxBreaks /\ breaks < MaxBreaks /\ breaks' = breaks + 1
    BY DEF IInv, Types, WatchBreaks
  <2>3. breaks' \in 0 .. MaxBreaks
    BY <2>2, EventQueueAssumption
  <2> QED BY <1>1, <2>1, <2>3 DEF IInv, Types
<1>3. \A k \in Keys \ caught' : Exact(k)'
  BY <1>1 DEF IInv, Exact, Told, ObjectAt
<1> QED BY <1>1, <1>2, <1>3, SameLog DEF IInv

(* A resync queues what is known already.                                   *)
LEMMA ResyncInv == ASSUME IInv, NEW k \in Keys, Resync(k) PROVE IInv'
<1> DEFINE q == [type |-> "Sync", obj |-> known[k]]
<1>1. /\ LogInv /\ Types /\ up /\ known[k] # 0 /\ items[k] = NoDelta
      /\ UNCHANGED <<log, pos, watching, known, handled, caught, breaks>>
  BY DEF IInv, Resync
<1>2. Queued(items[k], "Sync", known[k]) = q /\ q \in QueuedItems /\ q.type = "Sync"
  BY <1>1, OfObject, QueuedDelta DEF NoDelta, DeltaTypes, QueuedItems, PendingTypes
<1>3. /\ items' = [items EXCEPT ![k] = q]
      /\ up' = \A x \in Keys : items'[x].type # "Panic"
  BY <1>2 DEF Resync, Enqueue
<1>4. Types'
  <2>1. /\ items' \in [Keys -> QueuedItems]
        /\ \A x \in Keys : items'[x].type = "None" => items'[x] = NoDelta
    BY <1>1, <1>2, <1>3 DEF Types
  <2>2. up' \in BOOLEAN /\ (up' <=> \A x \in Keys : items'[x].type # "Panic")
    BY <1>3
  <2> QED BY <1>1, <2>1, <2>2 DEF Types
<1>5. ASSUME NEW x \in Keys \ caught' PROVE Exact(x)'
  <2>1. Exact(x) /\ ObjectAt(pos, x)' = ObjectAt(pos, x)
    BY <1>1 DEF IInv, ObjectAt
  <2>2. items'[x] = IF x = k THEN q ELSE items[x]
    BY <1>1, <1>3 DEF Types
  <2> QED BY <1>1, <2>1, <2>2 DEF Exact, Told, Types, NoDelta
<1> QED BY <1>1, <1>4, <1>5, SameLog DEF IInv

(* The handler is told, and the delta waits no more.                        *)
LEMMA PopInv == ASSUME IInv, NEW k \in Keys, Pop(k) PROVE IInv'
<1> DEFINE new == IF items[k].type = "Deleted" THEN 0 ELSE items[k].obj
<1>1. /\ LogInv /\ Types /\ up /\ items[k] # NoDelta
      /\ items' = [items EXCEPT ![k] = NoDelta]
      /\ known' = [known EXCEPT ![k] = new] /\ handled' = [handled EXCEPT ![k] = new]
      /\ UNCHANGED <<log, pos, watching, up, caught, breaks>>
  BY DEF IInv, Pop, updateKnownObjects, process
<1>2. new \in Objects /\ NoDelta \in QueuedItems /\ NoDelta.type = "None"
  BY <1>1, OfObject DEF QueuedItems, NoDelta
<1>3. \A x \in Keys : /\ items'[x] = IF x = k THEN NoDelta ELSE items[x]
                      /\ known'[x] = IF x = k THEN new ELSE known[x]
                      /\ handled' = known'
  BY <1>1 DEF Types
<1>4. Types'
  <2>1. items' \in [Keys -> QueuedItems] /\ known' \in [Keys -> Objects] /\ handled' = known'
    BY <1>1, <1>2 DEF Types
  <2>2. \A x \in Keys : items'[x].type # "Panic"
    BY <1>1, <1>2, <1>3 DEF Types
  <2>3. \A x \in Keys : items'[x].type = "None" => items'[x] = NoDelta
    BY <1>1, <1>3 DEF Types
  <2> QED BY <1>1, <2>1, <2>2, <2>3 DEF Types
<1>5. ASSUME NEW x \in Keys \ caught' PROVE Exact(x)'
  <2>1. Exact(x) /\ ObjectAt(pos, x)' = ObjectAt(pos, x)
    BY <1>1 DEF IInv, ObjectAt
  <2>2. CASE x = k
    <3>1. Told(x) = new /\ Told(x)' = new
      <4>1. Told(x) = new
        BY <1>1, <2>2 DEF Told
      <4>2. items'[x] = NoDelta /\ handled'[x] = new
        BY <1>1, <1>3, <2>2 DEF Types
      <4>3. Told(x)' = handled'[x]
        BY <4>2 DEF Told, NoDelta
      <4> QED BY <4>1, <4>2, <4>3
    <3>2. items'[x] = NoDelta
      BY <1>3, <2>2
    <3> QED BY <2>1, <3>1, <3>2 DEF Exact, NoDelta
  <2>3. CASE x # k
    <3>1. items'[x] = items[x] /\ known'[x] = known[x] /\ handled'[x] = handled[x]
      BY <1>1, <1>3, <2>3 DEF Types
    <3> QED BY <2>1, <3>1 DEF Exact, Told
  <2> QED BY <2>2, <2>3
<1> QED BY <1>1, <1>4, <1>5, SameLog DEF IInv

(* After a start nothing is known, and the object at version 0 is none.     *)
LEMMA RestartInv == ASSUME IInv, Restart PROVE IInv'
<1>1. LogInv /\ Types /\ UNCHANGED <<log, breaks>>
  BY DEF IInv, Restart
<1>2. /\ pos' = 0 /\ watching' = FALSE /\ up' = TRUE /\ caught' = {}
      /\ items' = [k \in Keys |-> NoDelta] /\ known' = NoneYet /\ handled' = NoneYet
  BY DEF Restart
<1>3. 0 \in Objects /\ NoDelta \in QueuedItems /\ NoDelta.type = "None" /\ NoDelta.type # "Panic"
  BY EventQueueAssumption DEF Objects, NoDelta, QueuedItems, PendingTypes
<1>4. \A k \in Keys : items'[k] = NoDelta /\ known'[k] = 0 /\ handled'[k] = 0
  BY <1>2 DEF NoneYet
<1>5. Types'
  <2>1. items' \in [Keys -> QueuedItems] /\ known' \in [Keys -> Objects] /\ handled' = known'
    BY <1>2, <1>3 DEF NoneYet
  <2>2. pos' \in 0 .. Len(log)'
    BY <1>1, <1>2 DEF LogInv
  <2> QED BY <1>1, <1>2, <1>3, <1>4, <2>1, <2>2 DEF Types
<1>6. \A k \in Keys : ObjectAt(pos, k)' = 0
  <2>1. \A k \in Keys : ObjectAt(0, k) = 0
    BY <1>1 DEF LogInv
  <2> QED BY <1>1, <1>2, <2>1 DEF ObjectAt
<1>7. \A k \in Keys : Exact(k)'
  BY <1>3, <1>4, <1>6 DEF Exact, Told
<1> QED BY <1>1, <1>5, <1>7, SameLog DEF IInv

-----------------------------------------------------------------------------
(* The invariant holds in every state.                                      *)
LEMMA Invariant == Spec => []IInv
<1>1. Init => IInv
  BY Initially
<1>2. IInv /\ [Next]_vars => IInv'
  <2> SUFFICES ASSUME IInv, [Next]_vars PROVE IInv'
    OBVIOUS
  <2>1. ASSUME NEW k \in Keys, NEW type \in DeltaTypes \ {"Sync"}, Change(k, type) PROVE IInv'
    BY <2>1, ChangeInv
  <2>2. CASE List
    BY <2>2, ListInv
  <2>3. CASE WatchEvent
    BY <2>3, WatchEventInv
  <2>4. CASE WatchBreaks
    BY <2>4, WatchBreaksInv
  <2>5. ASSUME NEW k \in Keys, Resync(k) PROVE IInv'
    BY <2>5, ResyncInv
  <2>6. ASSUME NEW k \in Keys, Pop(k) PROVE IInv'
    BY <2>6, PopInv
  <2>7. CASE Restart
    BY <2>7, RestartInv
  <2>8. CASE UNCHANGED vars
    <3>1. LogInv /\ UNCHANGED log
      BY <2>8 DEF IInv, vars
    <3>2. Types'
      BY <2>8 DEF IInv, vars, Types
    <3>3. \A k \in Keys \ caught' : Exact(k)'
      BY <2>8 DEF IInv, vars, Exact, Told, ObjectAt
    <3> QED BY <3>1, <3>2, <3>3, SameLog DEF IInv
  <2> QED BY <2>1, <2>2, <2>3, <2>4, <2>5, <2>6, <2>7, <2>8 DEF Next
<1> QED BY <1>1, <1>2, PTL DEF Spec

-----------------------------------------------------------------------------
(* At most one delta waits for an object, and it is no Added of one that is *)
(* known, unless a list caught it.                                          *)
THEOREM TypeCorrect == Spec => []TypeOK
<1>1. IInv => TypeOK
  BY DEF IInv, LogInv, Types, QueuedItems, Exact, TypeOK
<1> QED BY <1>1, Invariant, PTL

(* What the handler was told, with the delta that waits, is the object at   *)
(* the reflector's resource version, however many changes, objects, breaks  *)
(* and lists that go back in time there are.                                *)
THEOREM QueueCorrect == Spec => []QueueExact
<1>1. IInv => QueueExact
  BY DEF IInv, Exact, QueueExact
<1> QED BY <1>1, Invariant, PTL

(* Deltas panic only when a list catches one that it cannot be combined     *)
(* with.                                                                    *)
THEOREM PanicCorrect == Spec => []PanicOnlyIfCaught
<1>1. IInv => PanicOnlyIfCaught
  BY DEF IInv, Types, Exact, PanicOnlyIfCaught
<1> QED BY <1>1, Invariant, PTL
=============================================================================
