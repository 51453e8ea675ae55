----------------------------- MODULE EtcdWatch -----------------------------
(***************************************************************************)
(* How a change of a record in etcd reaches a handler                      *)
(* (src/pkg/etcdmanager).  WatchSubnets and WatchNetNamespaces are the     *)
(* same loop over two directories: one goroutine asks etcd for the event   *)
(* after its cursor, keeps a copy of the records it has seen, and hands a  *)
(* batch of events over an unbuffered channel to the goroutine of          *)
(* RunSubnetWatch or RunNetnsWatch, which calls the handler.               *)
(*                                                                         *)
(* etcd keeps the last Window events of ALL its keys.  A cursor older than *)
(* those, and the nil cursor of a watch that starts, make the loop read a  *)
(* snapshot and compare it with its copy.  The cursor itself is not in the *)
(* state, only what lies behind it: unseen, or behind when etcd has        *)
(* dropped some of it.                                                     *)
(*                                                                         *)
(* A call to etcd that fails is repeated a second later with the same      *)
(* cursor: a step that changes nothing.                                    *)
(***************************************************************************)
EXTENDS Naturals, Sequences, FiniteSets, SequencesExt

CONSTANTS Keys,           \* keys of the watched directory
          Names,          \* names a record can carry: NetName, Host
          NamesOf,        \* the names a record under each key may carry
          KeyPath,        \* the full etcd path of each key
          Data,           \* what else a record holds
          NoData, NoRecord, Malformed, Elsewhere,
          Window,         \* events etcd keeps, 1000 in etcd v2
          MayBeMalformed  \* whether someone may write a value that is not a record

ASSUME EtcdWatchAssumption ==
    /\ NamesOf \in [Keys -> SUBSET Names]
    /\ \A k \in Keys : KeyPath[k] \notin Names
    /\ IsFiniteSet(Keys) /\ Elsewhere \notin Keys
    /\ NoData \notin Data /\ NoRecord \notin [name : Names, data : Data]
    /\ Window \in Nat \ {0}
    /\ MayBeMalformed \in BOOLEAN

VARIABLES store,   \* the directory in etcd
          unseen,  \* etcd's history after the watch's cursor, every key of etcd included
          behind,  \* etcd no longer has all of it, or there is no cursor yet
          cache,   \* subnetWatcher.subnets, netnamespaceWatcher.netnss
          batch,   \* the batch the watch goroutine is sending
          told     \* what the handler was last told of each name

vars == <<store, unseen, behind, cache, batch, told>>

Records == [name : Names, data : Data]
Values  == Records \cup {NoRecord} \cup IF MayBeMalformed THEN {Malformed} ELSE {}
ValuesOf(k) == {v \in Values : v \in Records => v.name \in NamesOf[k]}
Labels  == Names \cup {KeyPath[k] : k \in Keys}

Changes == [key : Keys, value : Values] \cup [key : {Elsewhere}, value : {NoRecord}]
Events  == [type : {"Added", "Removed"}, rec : [name : Labels, data : Data \cup {NoData}]]

Added(r)   == [type |-> "Added", rec |-> r]
Removed(r) == [type |-> "Removed", rec |-> r]

-----------------------------------------------------------------------------
(* The copy of the records: a slice, searched by name. *)

IndexOf(c, name) == SelectInSeq(c, LAMBDA r : r.name = name)

(* deleteSubnet, deleteNetNS: the last element takes the place of the i-th. *)
deleteAt(c, i) == [j \in 1 .. Len(c) - 1 |-> IF j = i THEN Last(c) ELSE c[j]]

add(c, r) == LET i == IndexOf(c, r.name)
             IN [cache |-> IF i = 0 THEN Append(c, r) ELSE ReplaceAt(c, i, r),
                 batch |-> <<Added(r)>>]

remove(c, r) == LET i == IndexOf(c, r.name)
                IN IF i = 0 THEN [cache |-> c, batch |-> <<Removed(r)>>]
                   ELSE [cache |-> deleteAt(c, i), batch |-> <<Removed(c[i])>>]

(* A plausible slip: a deletion is treated as any other event. *)
update_NoDelete(c, change) ==
    add(c, IF change.value = NoRecord THEN [name |-> KeyPath[change.key], data |-> NoData]
           ELSE change.value)

(* One event.  That of a deletion holds no record: its name is the key's path. *)
update(c, change) ==
    IF change.value = NoRecord
      THEN remove(c, [name |-> KeyPath[change.key], data |-> NoData])
      ELSE add(c, change.value)

(* The records found by name in the copy are taken out of it, the others are new; *)
(* what is left of the copy has been deleted.                                     *)
Match(acc, r) == LET i == IndexOf(acc.left, r.name)
                 IN IF i = 0 THEN [acc EXCEPT !.batch = Append(@, Added(r))]
                    ELSE [acc EXCEPT !.left = deleteAt(@, i)]

(* A plausible slip: the snapshot is taken over and nothing is announced. *)
reset_Silent(c, snapshot) == [cache |-> snapshot, batch |-> <<>>]

(* The copy and the batch after n records of the snapshot. *)
Matches(c, snapshot) ==
    LET m[n \in 0 .. Len(snapshot)] ==
            IF n = 0 THEN [left |-> c, batch |-> <<>>] ELSE Match(m[n - 1], snapshot[n])
    IN m

reset(c, snapshot) ==
    LET m == Matches(c, snapshot)[Len(snapshot)]
    IN [cache |-> snapshot,
        batch |-> m.batch \o [i \in DOMAIN m.left |-> Removed(m.left[i])]]

-----------------------------------------------------------------------------

Init == /\ store \in [Keys -> Values] /\ \A k \in Keys : store[k] \in ValuesOf(k)
        /\ unseen = <<>>
        /\ behind = TRUE
        /\ cache = <<>>
        /\ batch = <<>>
        /\ told = [name \in Labels |-> NoData]

-----------------------------------------------------------------------------
(* The other clients of etcd. *)

Happens(key, value) ==
    LET history == Append(unseen, [key |-> key, value |-> value])
    IN IF behind \/ Len(history) > Window
         THEN behind' = TRUE /\ unseen' = <<>>
         ELSE unseen' = history /\ UNCHANGED behind

Write(k, value) == /\ store[k] # value
                   /\ store' = [store EXCEPT ![k] = value]
                   /\ Happens(k, value)
                   /\ UNCHANGED <<cache, batch, told>>

WriteElsewhere == /\ Happens(Elsewhere, NoRecord)
                  /\ UNCHANGED <<store, cache, batch, told>>

-----------------------------------------------------------------------------
(* The watch goroutine: it asks etcd when its last batch has been taken. *)

Snapshots == LET order == SetToSeqs({k \in Keys : store[k] \in Records})
             IN {[i \in DOMAIN s |-> store[s[i]]] : s \in order}

(* getSubnets, getNetNamespaces: values that are not records are left out. *)
WatchReset == /\ behind /\ batch = <<>>
              /\ behind' = FALSE
              /\ \E snapshot \in Snapshots :
                   LET r == reset(cache, snapshot)
                   IN cache' = r.cache /\ batch' = r.batch
              /\ UNCHANGED <<store, unseen, told>>

(* A plausible slip: the cursor becomes etcd's current index, not the event's. *)
WatchEvent_Latest ==
    /\ ~ behind /\ batch = <<>>
    /\ \E i \in DOMAIN unseen :
         /\ unseen[i].key \in Keys
         /\ \A j \in 1 .. i - 1 : unseen[j].key = Elsewhere
         /\ unseen[i].value # Malformed
         /\ LET u == update(cache, unseen[i])
            IN cache' = u.cache /\ batch' = u.batch
    /\ unseen' = <<>>
    /\ UNCHANGED <<store, behind, told>>

(* The first event of the directory; one that cannot be parsed is an error, *)
(* and the cursor stays where it is.                                        *)
WatchEvent == /\ ~ behind /\ batch = <<>>
              /\ \E i \in DOMAIN unseen :
                   /\ unseen[i].key \in Keys
                   /\ \A j \in 1 .. i - 1 : unseen[j].key = Elsewhere
                   /\ unseen[i].value # Malformed
                   /\ unseen' = SubSeq(unseen, i + 1, Len(unseen))
                   /\ LET u == update(cache, unseen[i])
                      IN cache' = u.cache /\ batch' = u.batch
              /\ UNCHANGED <<store, behind, told>>

(* RunSubnetWatch, RunNetnsWatch: the handler is called with the batch, and *)
(* goes through its events in order.                                        *)
Tell(t, e) == [t EXCEPT ![e.rec.name] = IF e.type = "Added" THEN e.rec.data ELSE NoData]

Tells(t, events) ==
    LET f[n \in 0 .. Len(events)] == IF n = 0 THEN t ELSE Tell(f[n - 1], events[n])
    IN f

Receive == /\ batch # <<>>
           /\ batch' = <<>>
           /\ told' = Tells(told, batch)[Len(batch)]
           /\ UNCHANGED <<store, unseen, behind, cache>>

-----------------------------------------------------------------------------

Next == \/ \E k \in Keys : \E value \in ValuesOf(k) : Write(k, value)
        \/ WriteElsewhere
        \/ WatchReset
        \/ WatchEvent
        \/ Receive

Spec == Init /\ [][Next]_vars

(* The process starts again: its watch and its handler know nothing.  Next is *)
(* the watch of a process that runs on.                                       *)
StartWatch == /\ unseen' = <<>> /\ behind' = TRUE /\ cache' = <<>> /\ batch' = <<>>
              /\ told' = [name \in Labels |-> NoData]
              /\ UNCHANGED store

RestartingSpec == Init /\ [][Next \/ StartWatch]_vars

(* Both goroutines keep running and etcd answers: the loop of the watch has *)
(* no end but the cancellation of its context.                              *)
FairSpec == Spec /\ WF_vars(WatchReset) /\ WF_vars(WatchEvent) /\ WF_vars(Receive)

-----------------------------------------------------------------------------
(* Properties. *)

(* The copy and the events hold records or, for a deletion, a key's path. *)
TypeOK ==
    /\ store \in [Keys -> Values]
    /\ unseen \in Seq(Changes) /\ Len(unseen) <= Window
    /\ behind \in BOOLEAN
    /\ cache \in Seq(Records)
    /\ batch \in Seq(Events)
    /\ told \in [Labels -> Data \cup {NoData}]

Written(k) == {i \in DOMAIN unseen : unseen[i].key = k}

(* While the watch is not behind, its copy and the events it has not seen   *)
(* make up the directory: neither a snapshot nor a cursor moved past an     *)
(* event loses a write.                                                     *)
CopyCurrent ==
    ~ behind => \A k \in Keys : store[k] \in Records /\ Written(k) = {} => Contains(cache, store[k])

(* Whatever the copy holds, the handler was told of or is being told of: a  *)
(* record never slips into the copy unannounced, even when the watch fell   *)
(* behind and only compared names.                                          *)
Announced ==
    \A i \in DOMAIN cache :
        \/ told[cache[i].name] # NoData
        \/ \E j \in DOMAIN batch : batch[j].type = "Added" /\ batch[j].rec.name = cache[i].name

(* A name that stays in the directory for good is, in the end, known to the *)
(* handler.                                                                 *)
Carries(k, name) == store[k] \in Records /\ store[k].name = name
NamesArrive ==
    \A k \in Keys : \A name \in NamesOf[k] :
        <>[]Carries(k, name) => <>[](told[name] # NoData)

(* A write that etcd's history still has is told to the handler, or followed *)
(* by another one, unless the watch falls behind meanwhile.                  *)
Pending(k, r) == \E i \in Written(k) : /\ unseen[i].value = r
                                       /\ \A j \in Written(k) : j <= i
EventsArrive ==
    \A k \in Keys : \A r \in ValuesOf(k) \cap Records :
        Pending(k, r) ~> (told[r.name] = r.data \/ store[k] # r \/ behind)

(* What a record holds in the end is what the handler is told in the end.   *)
ChangesArrive ==
    \A k \in Keys : \A r \in Records :
        <>[](store[k] = r) => <>[](told[r.name] = r.data)

(* A name that no record carries any more is, in the end, unknown to the    *)
(* handler.                                                                 *)
RemovalsArrive ==
    \A name \in Names :
        <>[](\A k \in Keys : ~ Carries(k, name)) => <>[](told[name] = NoData)
=============================================================================
