------------------------- MODULE ObservationRuntime -------------------------
(***************************************************************************)
(* The hand-off between the network inputs and the observation model:      *)
(* NetlinkLldpObservationRuntime with its BoundedObservationQueue.         *)
(*                                                                         *)
(* Producers (the netlink worker, the lldpd watch thread, and the          *)
(* supervision thread while it repairs) push observations into a bounded   *)
(* drop-oldest queue; one consumer thread applies them to the model; the   *)
(* supervision tick repairs what the queue dropped.  A fact is a key with  *)
(* a value or Absent; "reported" is the last value each input handed over, *)
(* "model" the last value the consumer applied.                            *)
(*                                                                         *)
(* What the inputs do internally is environment here: a report is any      *)
(* value of any key, a redump meets any kernel contents, a reconnect may   *)
(* fail.  superviseLldp's timing is module LldpSupervision's subject; here *)
(* each of its outcomes may happen on any tick.                            *)
(***************************************************************************)
EXTENDS Integers, Sequences

CONSTANTS
    NetKeys,      \* facts the netlink monitor reports
    LldpKeys,     \* facts the LLDP source reports
    Vals,         \* values of a present fact
    Absent,       \* the fact is not there
    Keepalive,    \* payload of an LLDP reassertion (never creates a fact)
    NoItem,       \* the consumer holds nothing
    Capacity,     \* queue capacity (4096 in the code)
    TokenEndsWait,  \* a requested stop token ends waitPop() with items queued
    MaxReports,   \* bound: unsolicited reports per behaviour
    MaxStarts,    \* bound: start() calls per behaviour
    MaxFailures   \* bound: failed operations per behaviour

Keys    == NetKeys \cup LldpKeys
Present == Vals
Netlink == "netlink"
Lldp    == "lldp"
Sources == {Netlink, Lldp}

\* The library's queue is not part of the repository.  BoundedObservationQueue.h
\* says that waitPop() ends "once closed AND drained, or when st is requested",
\* observationLoop's comment "only when closed AND drained"; its stop token is
\* requested by observationWorker_.stop() right after close().  Both readings
\* are modelled.
ASSUME TokenReading == TokenEndsWait \in BOOLEAN

ASSUME KeysDisjoint == NetKeys \cap LldpKeys = {}
ASSUME ValuesDistinct ==
    /\ Absent \notin Vals
    /\ Keepalive \notin Vals
    /\ Keepalive # Absent
    /\ NoItem \notin [src : Sources, key : Keys, val : Vals \cup {Absent, Keepalive}]
ASSUME BoundsNat ==
    /\ Capacity \in Nat \ {0}
    /\ MaxReports \in Nat /\ MaxStarts \in Nat /\ MaxFailures \in Nat

VARIABLES
    phase,     \* the thread inside start() or stop()
    open,      \* observationQueue_ accepts pushes
    queue,     \* its contents, oldest first
    mask,      \* resyncMask_, as a set of sources
    consumer,  \* observationWorker_
    held,      \* the item the consumer popped and has not applied yet
    model,     \* facts as the model has them
    reported,  \* facts as the inputs last handed them over
    monitor,   \* monitor_: none, dumping (inside start), live
    observer,  \* lldpObserver_: none, live
    tick,      \* the supervision thread inside tick()
    taken,     \* the mask performResync() took
    todo,      \* keys the running dump or enumeration has still to visit
    spent      \* counters behind the three bounds

vars == <<phase, open, queue, mask, consumer, held, model, reported,
          monitor, observer, tick, taken, todo, spent>>

Facts == Vals \cup {Absent}
Item  == [src : Sources, key : Keys, val : Facts \cup {Keepalive}]
Phases == {"stopped", "lldp", "enumerate", "monitor", "dump", "running",
           "stopLldp", "close", "join"}
Ticks  == {"idle", "refresh", "reassert", "keepalive", "resync", "discard",
           "redump", "lldp", "repair"}

SourceOf(k) == IF k \in NetKeys THEN Netlink ELSE Lldp
ItemOf(k, v) == [src |-> SourceOf(k), key |-> k, val |-> v]

Init ==
    /\ phase = "stopped"
    /\ open = TRUE
    /\ queue = <<>>
    /\ mask = {}
    /\ consumer = "none"
    /\ held = NoItem
    /\ model = [k \in Keys |-> Absent]
    /\ reported = [k \in Keys |-> Absent]
    /\ monitor = "none"
    /\ observer = "none"
    /\ tick = "idle"
    /\ taken = {}
    /\ todo = {}
    /\ spent = [reports |-> 0, starts |-> 0, failures |-> 0]

-----------------------------------------------------------------------------
(* The queue *)

\* Mutant of Push: the bit raised is that of the item coming in.
PushBlamesNewItem(item) ==
    IF ~open THEN UNCHANGED <<queue, mask>>
    ELSE IF Len(queue) = Capacity
         THEN /\ queue' = Append(Tail(queue), item)
              /\ mask' = mask \cup {item.src}
         ELSE /\ queue' = Append(queue, item)
              /\ UNCHANGED mask

\* push(): never blocks.  A full queue discards its oldest item and raises
\* the bit of the DISCARDED item's source, under the queue mutex; a closed
\* queue ignores the item and raises nothing.
Push(item) ==
    IF ~open THEN UNCHANGED <<queue, mask>>
    ELSE IF Len(queue) = Capacity
         THEN /\ queue' = Append(Tail(queue), item)
              /\ mask' = mask \cup {Head(queue).src}
         ELSE /\ queue' = Append(queue, item)
              /\ UNCHANGED mask

\* An input hands over fact k with value v.
Hand(k, v) ==
    /\ Push(ItemOf(k, v))
    /\ reported' = [reported EXCEPT ![k] = v]

Spend(what) == spent' = [spent EXCEPT ![what] = @ + 1]
MayFail == spent.failures < MaxFailures

Forget(keys) == [k \in Keys |-> IF k \in keys THEN Absent ELSE reported[k]]

-----------------------------------------------------------------------------
(* The producers' own threads *)

\* The netlink worker delivers a change (makeCallbacks' sinks).
NetlinkReport(k, v) ==
    /\ monitor = "live"
    /\ spent.reports < MaxReports
    /\ v # reported[k]
    /\ Hand(k, v)
    /\ Spend("reports")
    /\ UNCHANGED <<phase, open, consumer, held, model, monitor, observer,
                   tick, taken, todo>>

\* The lldpd watch thread delivers a change; a link-down flush on the
\* netlink thread delivers Absent the same way.
LldpReport(k, v) ==
    /\ observer = "live"
    /\ spent.reports < MaxReports
    /\ v # reported[k]
    /\ Hand(k, v)
    /\ Spend("reports")
    /\ UNCHANGED <<phase, open, consumer, held, model, monitor, observer,
                   tick, taken, todo>>

-----------------------------------------------------------------------------
(* The consumer: observationLoop *)

\* waitPop returns the oldest item.
ConsumerPop ==
    /\ consumer = "waiting"
    /\ queue # <<>>
    /\ held' = Head(queue)
    /\ queue' = Tail(queue)
    /\ consumer' = "applying"
    /\ UNCHANGED <<phase, open, mask, model, reported, monitor, observer,
                   tick, taken, todo, spent>>

\* applyObservation: a keepalive refreshes an existing fact, it sets none.
ConsumerApply ==
    /\ consumer = "applying"
    /\ model' = IF held.val = Keepalive THEN model
                ELSE [model EXCEPT ![held.key] = held.val]
    /\ held' = NoItem
    /\ consumer' = "waiting"
    /\ UNCHANGED <<phase, open, queue, mask, reported, monitor, observer,
                   tick, taken, todo, spent>>

\* The model threw: onObservationWorkerExit latches observationWorkerFailed_.
ConsumerThrows ==
    /\ consumer = "applying"
    /\ MayFail
    /\ Spend("failures")
    /\ held' = NoItem
    /\ consumer' = "failed"
    /\ UNCHANGED <<phase, open, queue, mask, model, reported, monitor,
                   observer, tick, taken, todo>>

\* waitPop returns nullopt: closed and drained or, in the header's reading,
\* closed and the stop token requested.
ConsumerExit ==
    /\ consumer = "waiting"
    /\ ~open
    /\ queue = <<>> \/ TokenEndsWait
    /\ consumer' = "exited"
    /\ UNCHANGED <<phase, open, queue, mask, held, model, reported, monitor,
                   observer, tick, taken, todo, spent>>

-----------------------------------------------------------------------------
(* start() *)

\* prepareForRestart, reopen, clear the failure latch, start the consumer.
StartConsumer ==
    /\ phase = "stopped"
    /\ spent.starts < MaxStarts
    /\ Spend("starts")
    /\ model' = [k \in Keys |-> Absent]
    /\ open' = TRUE
    /\ queue' = <<>>
    /\ mask' = {}
    /\ consumer' = "waiting"
    /\ phase' = "lldp"
    /\ UNCHANGED <<held, reported, monitor, observer, tick, taken, todo>>

\* The consumer thread cannot be created: cleanUpFailedStart.
StartConsumerFails ==
    /\ phase = "stopped"
    /\ spent.starts < MaxStarts
    /\ Spend("starts")
    /\ model' = [k \in Keys |-> Absent]
    /\ open' = FALSE
    /\ queue' = <<>>
    /\ mask' = {}
    /\ consumer' = "none"
    /\ UNCHANGED <<phase, held, reported, monitor, observer, tick, taken, todo>>

\* The LLDP observer starts: subscription first, then enumeration.
StartLldp ==
    /\ phase = "lldp"
    /\ observer' = "live"
    /\ todo' = LldpKeys
    /\ phase' = "enumerate"
    /\ UNCHANGED <<open, queue, mask, consumer, held, model, reported,
                   monitor, tick, taken, spent>>

\* Not fatal: tick() retries.
StartLldpFails ==
    /\ phase = "lldp"
    /\ MayFail
    /\ Spend("failures")
    /\ phase' = "monitor"
    /\ UNCHANGED <<open, queue, mask, consumer, held, model, reported,
                   monitor, observer, tick, taken, todo>>

\* Is a walk over the keys in "todo" under way that visits LLDP neighbours
\* (a source's start() or refreshAll()), or kernel tables (a netlink dump)?
WalksLldp    == phase = "enumerate" \/ tick \in {"refresh", "repair"}
WalksNetlink == phase = "dump" \/ tick = "redump"

\* The walk meets k and hands its value over.
WalkFinds(k, v) ==
    /\ WalksLldp \/ WalksNetlink
    /\ k \in todo
    /\ Hand(k, v)
    /\ todo' = todo \ {k}
    /\ UNCHANGED <<phase, open, consumer, held, model, monitor, observer,
                   tick, taken, spent>>

\* The kernel has no k any more: a dump says nothing about it.
DumpMisses(k) ==
    /\ WalksNetlink
    /\ k \in todo
    /\ reported' = [reported EXCEPT ![k] = Absent]
    /\ todo' = todo \ {k}
    /\ UNCHANGED <<phase, open, queue, mask, consumer, held, model, monitor,
                   observer, tick, taken, spent>>

\* The neighbour is gone: reconcileAfterRefresh reports Removed for what the
\* cache held before the refresh and nothing for what it did not.
EnumerationMisses(k) ==
    /\ WalksLldp
    /\ k \in todo
    /\ IF reported[k] # Absent THEN Hand(k, Absent)
       ELSE UNCHANGED <<queue, mask, reported>>
    /\ todo' = todo \ {k}
    /\ UNCHANGED <<phase, open, consumer, held, model, monitor, observer,
                   tick, taken, spent>>

StartLldpDone ==
    /\ phase = "enumerate"
    /\ todo = {}
    /\ phase' = "monitor"
    /\ UNCHANGED <<open, queue, mask, consumer, held, model, reported,
                   monitor, observer, tick, taken, todo, spent>>

\* monitor_->start() begins with the initial dump on this thread.
StartMonitor ==
    /\ phase = "monitor"
    /\ monitor' = "dumping"
    /\ todo' = NetKeys
    /\ phase' = "dump"
    /\ UNCHANGED <<open, queue, mask, consumer, held, model, reported,
                   observer, tick, taken, spent>>

\* The dump is complete, the live worker runs, markLive().
StartDone ==
    /\ phase = "dump"
    /\ todo = {}
    /\ monitor' = "live"
    /\ phase' = "running"
    /\ UNCHANGED <<open, queue, mask, consumer, held, model, reported,
                   observer, tick, taken, todo, spent>>

\* monitor_->start() fails: cleanUpFailedStart takes stop()'s path.
StartMonitorFails ==
    /\ phase = "dump"
    /\ MayFail
    /\ Spend("failures")
    /\ monitor' = "none"
    /\ reported' = Forget(NetKeys)
    /\ todo' = {}
    /\ phase' = "stopLldp"
    /\ UNCHANGED <<open, queue, mask, consumer, held, model, observer, tick,
                   taken>>

-----------------------------------------------------------------------------
(* stop().  ObservationService joins the supervision worker first, so no  *)
(* tick is under way.                                                      *)

StopMonitor ==
    /\ phase = "running"
    /\ tick = "idle"
    /\ monitor' = "none"
    /\ phase' = "stopLldp"
    /\ UNCHANGED <<open, queue, mask, consumer, held, model, reported,
                   observer, tick, taken, todo, spent>>

\* Unpublish the observer, then stop it, draining its callbacks.
StopLldp ==
    /\ phase = "stopLldp"
    /\ observer' = "none"
    /\ phase' = "close"
    /\ UNCHANGED <<open, queue, mask, consumer, held, model, reported,
                   monitor, tick, taken, todo, spent>>

\* Mutant of CloseQueue: joins without having closed the queue.
JoinWithoutClose ==
    /\ phase = "close"
    /\ phase' = "join"
    /\ UNCHANGED <<open, queue, mask, consumer, held, model, reported, monitor,
                   observer, tick, taken, todo, spent>>

\* Mutant of CloseQueue: drops the backlog first, as performResync does.
CloseQueueDiscarding ==
    /\ phase = "close"
    /\ open' = FALSE
    /\ queue' = <<>>
    /\ phase' = "join"
    /\ UNCHANGED <<mask, consumer, held, model, reported, monitor, observer, tick,
                   taken, todo, spent>>

\* observationQueue_.close().
CloseQueue ==
    /\ phase = "close"
    /\ open' = FALSE
    /\ phase' = "join"
    /\ UNCHANGED <<queue, mask, consumer, held, model, reported, monitor,
                   observer, tick, taken, todo, spent>>

\* Mutant of JoinConsumer: does not wait for the thread to end.
DetachConsumer ==
    /\ phase = "join"
    /\ consumer' = "none"
    /\ reported' = Forget(Keys)
    /\ phase' = "stopped"
    /\ UNCHANGED <<open, queue, mask, held, model, monitor, observer, tick,
                   taken, todo, spent>>

\* observationWorker_.stop() returns once the thread has ended; then the
\* event sink is detached.  The inputs are gone, and with them their caches.
JoinConsumer ==
    /\ phase = "join"
    /\ consumer \in {"exited", "failed"}
    /\ consumer' = "none"
    /\ reported' = Forget(Keys)
    /\ phase' = "stopped"
    /\ UNCHANGED <<open, queue, mask, held, model, monitor, observer, tick,
                   taken, todo, spent>>

-----------------------------------------------------------------------------
(* tick(): superviseLldp, reassertLldpNeighbors, performResync *)

\* superviseLldp does nothing (healthy, throttled, or a failed reconnect,
\* which keeps the watch and the epoch).
SuperviseNothing ==
    /\ phase = "running"
    /\ tick = "idle"
    /\ tick' = "reassert"
    /\ UNCHANGED <<phase, open, queue, mask, consumer, held, model, reported,
                   monitor, observer, taken, todo, spent>>

\* The watch died or the backend did not answer, and reconnectLldp
\* succeeded: refreshAll re-enumerates and reconciles.
SuperviseReconnects ==
    /\ phase = "running"
    /\ tick = "idle"
    /\ observer = "live"
    /\ MayFail
    /\ Spend("failures")
    /\ todo' = LldpKeys
    /\ tick' = "refresh"
    /\ UNCHANGED <<phase, open, queue, mask, consumer, held, model, reported,
                   monitor, observer, taken>>

\* The observer is dropped (its epoch ended, or the failure limit), its
\* cache with it.
SuperviseDrops ==
    /\ phase = "running"
    /\ tick = "idle"
    /\ observer = "live"
    /\ MayFail
    /\ Spend("failures")
    /\ observer' = "none"
    /\ reported' = Forget(LldpKeys)
    /\ tick' = "reassert"
    /\ UNCHANGED <<phase, open, queue, mask, consumer, held, model, monitor,
                   taken, todo>>

\* Dropped at the failure limit and re-acquired within the same tick: that
\* branch clears the retry throttle before it falls through.
SuperviseReplaces ==
    /\ phase = "running"
    /\ tick = "idle"
    /\ observer = "live"
    /\ MayFail
    /\ Spend("failures")
    /\ reported' = Forget(LldpKeys)
    /\ todo' = LldpKeys
    /\ tick' = "refresh"
    /\ UNCHANGED <<phase, open, queue, mask, consumer, held, model, monitor,
                   observer, taken>>

\* The retry path builds a fresh observer whose start() enumerates.
SuperviseAcquires ==
    /\ phase = "running"
    /\ tick = "idle"
    /\ observer = "none"
    /\ observer' = "live"
    /\ todo' = LldpKeys
    /\ tick' = "refresh"
    /\ UNCHANGED <<phase, open, queue, mask, consumer, held, model, reported,
                   monitor, taken, spent>>

SuperviseDone ==
    /\ tick = "refresh"
    /\ todo = {}
    /\ tick' = "reassert"
    /\ UNCHANGED <<phase, open, queue, mask, consumer, held, model, reported,
                   monitor, observer, taken, todo, spent>>

\* reassertLldpNeighbors: not due, or no observer.
ReassertSkips ==
    /\ tick = "reassert"
    /\ tick' = "resync"
    /\ UNCHANGED <<phase, open, queue, mask, consumer, held, model, reported,
                   monitor, observer, taken, todo, spent>>

\* Due: replay the cache as keepalives.
ReassertStarts ==
    /\ tick = "reassert"
    /\ observer = "live"
    /\ spent.reports < MaxReports
    /\ Spend("reports")
    /\ todo' = {k \in LldpKeys : reported[k] # Absent}
    /\ tick' = "keepalive"
    /\ UNCHANGED <<phase, open, queue, mask, consumer, held, model, reported,
                   monitor, observer, taken>>

ReassertOne(k) ==
    /\ tick = "keepalive"
    /\ k \in todo
    /\ Push(ItemOf(k, Keepalive))
    /\ todo' = todo \ {k}
    /\ UNCHANGED <<phase, open, consumer, held, model, reported, monitor,
                   observer, tick, taken, spent>>

ReassertDone ==
    /\ tick = "keepalive"
    /\ todo = {}
    /\ tick' = "resync"
    /\ UNCHANGED <<phase, open, queue, mask, consumer, held, model, reported,
                   monitor, observer, taken, todo, spent>>

\* performResync: fetch and clear the mask.
TakeResyncMask ==
    /\ tick = "resync"
    /\ mask' = {}
    /\ taken' = mask
    /\ tick' = IF mask = {} THEN "idle"
               ELSE IF Netlink \in mask THEN "discard" ELSE "lldp"
    /\ UNCHANGED <<phase, open, queue, consumer, held, model, reported,
                   monitor, observer, todo, spent>>

\* Drop the backlog, without the drop hook, and ask for a redump.
DiscardBacklog ==
    /\ tick = "discard"
    /\ queue' = <<>>
    /\ todo' = NetKeys
    /\ tick' = "redump"
    /\ UNCHANGED <<phase, open, mask, consumer, held, model, reported,
                   monitor, observer, taken, spent>>

RedumpDone ==
    /\ tick = "redump"
    /\ todo = {}
    /\ tick' = "lldp"
    /\ UNCHANGED <<phase, open, queue, mask, consumer, held, model, reported,
                   monitor, observer, taken, todo, spent>>

\* Mutant of RedumpFails: the bit is not put back.
RedumpGivesUp ==
    /\ tick = "redump"
    /\ MayFail
    /\ Spend("failures")
    /\ todo' = {}
    /\ tick' = "lldp"
    /\ UNCHANGED <<phase, open, queue, mask, consumer, held, model, reported,
                   monitor, observer, taken>>

\* A failed redump puts the bit back.
RedumpFails ==
    /\ tick = "redump"
    /\ MayFail
    /\ Spend("failures")
    /\ mask' = mask \cup {Netlink}
    /\ todo' = {}
    /\ tick' = "lldp"
    /\ UNCHANGED <<phase, open, queue, consumer, held, model, reported,
                   monitor, observer, taken>>

\* The LLDP half: nothing taken, or no observer to repair (no re-raise: the
\* retry path's enumeration is the repair).
LldpRepairSkips ==
    /\ tick = "lldp"
    /\ Lldp \notin taken \/ observer = "none"
    /\ taken' = {}
    /\ tick' = "idle"
    /\ UNCHANGED <<phase, open, queue, mask, consumer, held, model, reported,
                   monitor, observer, todo, spent>>

LldpRepairStarts ==
    /\ tick = "lldp"
    /\ Lldp \in taken
    /\ observer = "live"
    /\ todo' = LldpKeys
    /\ tick' = "repair"
    /\ UNCHANGED <<phase, open, queue, mask, consumer, held, model, reported,
                   monitor, observer, taken, spent>>

\* Mutant of LldpRepairFails: the bit is not put back.
LldpRepairGivesUp ==
    /\ tick = "lldp"
    /\ Lldp \in taken
    /\ observer = "live"
    /\ MayFail
    /\ Spend("failures")
    /\ taken' = {}
    /\ tick' = "idle"
    /\ UNCHANGED <<phase, open, queue, mask, consumer, held, model, reported,
                   monitor, observer, todo>>

\* Throttled or failed: put the bit back.
LldpRepairFails ==
    /\ tick = "lldp"
    /\ Lldp \in taken
    /\ observer = "live"
    /\ MayFail
    /\ Spend("failures")
    /\ mask' = mask \cup {Lldp}
    /\ taken' = {}
    /\ tick' = "idle"
    /\ UNCHANGED <<phase, open, queue, consumer, held, model, reported,
                   monitor, observer, todo>>

LldpRepairDone ==
    /\ tick = "repair"
    /\ todo = {}
    /\ taken' = {}
    /\ tick' = "idle"
    /\ UNCHANGED <<phase, open, queue, mask, consumer, held, model, reported,
                   monitor, observer, todo, spent>>

-----------------------------------------------------------------------------
(* The threads *)

Producers ==
    \/ \E k \in NetKeys, v \in Facts : NetlinkReport(k, v)
    \/ \E k \in LldpKeys, v \in Facts : LldpReport(k, v)

Consumer == ConsumerPop \/ ConsumerApply \/ ConsumerThrows \/ ConsumerExit

Walk ==
    \/ \E k \in Keys, v \in Vals : WalkFinds(k, v)
    \/ \E k \in NetKeys : DumpMisses(k)
    \/ \E k \in LldpKeys : EnumerationMisses(k)

StartCall == StartConsumer \/ StartConsumerFails
StopCall  == StopMonitor

Lifecycle ==
    \/ StartLldp \/ StartLldpFails \/ StartLldpDone
    \/ StartMonitor \/ StartMonitorFails \/ StartDone
    \/ StopLldp \/ CloseQueue \/ JoinConsumer

Supervision ==
    \/ SuperviseNothing \/ SuperviseReconnects \/ SuperviseDrops
    \/ SuperviseReplaces \/ SuperviseAcquires \/ SuperviseDone
    \/ ReassertSkips \/ ReassertStarts \/ ReassertDone
    \/ \E k \in LldpKeys : ReassertOne(k)
    \/ TakeResyncMask \/ DiscardBacklog \/ RedumpDone \/ RedumpFails
    \/ LldpRepairSkips \/ LldpRepairStarts \/ LldpRepairFails
    \/ LldpRepairDone

Next == Producers \/ Consumer \/ Walk \/ StartCall \/ StopCall
        \/ Lifecycle \/ Supervision

Spec == Init /\ [][Next]_vars

\* The consumer and supervision threads are scheduled, and a start() or
\* stop() under way runs on.  Nobody is obliged to call start() or stop(),
\* and the network is not obliged to report anything.
FairSpec == Spec /\ WF_vars(Consumer) /\ WF_vars(Walk)
                 /\ WF_vars(Lifecycle) /\ WF_vars(Supervision)

-----------------------------------------------------------------------------
(* Properties *)

\* Types of the variables.
TypeOK ==
    /\ phase \in Phases
    /\ open \in BOOLEAN
    /\ queue \in Seq(Item)
    /\ Len(queue) <= Capacity
    /\ mask \in SUBSET Sources
    /\ consumer \in {"none", "waiting", "applying", "failed", "exited"}
    /\ held \in Item \cup {NoItem}
    /\ consumer = "applying" => held \in Item
    /\ model \in [Keys -> Facts]
    /\ reported \in [Keys -> Facts]
    /\ monitor \in {"none", "dumping", "live"}
    /\ observer \in {"none", "live"}
    /\ tick \in Ticks
    /\ taken \in SUBSET Sources
    /\ todo \in SUBSET Keys
    /\ spent \in [reports : Nat, starts : Nat, failures : Nat]

\* Applying this item sets fact k.
Sets(item, k) == item.key = k /\ item.val # Keepalive

\* Once the consumer has applied everything in transit, the model has k = v.
Settles(k, v) ==
    \/ \E i \in 1..Len(queue) :
          /\ Sets(queue[i], k) /\ queue[i].val = v
          /\ \A j \in (i + 1)..Len(queue) : ~Sets(queue[j], k)
    \/ /\ \A i \in 1..Len(queue) : ~Sets(queue[i], k)
       /\ IF held # NoItem /\ Sets(held, k) THEN held.val = v
                                            ELSE model[k] = v

\* The repair of k is still owed: the bit is up, or performResync has taken
\* it and has not come to k yet.
NetlinkOwed(k) ==
    \/ Netlink \in mask
    \/ tick = "discard"
    \/ tick = "redump" /\ k \in todo

LldpOwed(k) ==
    \/ Lldp \in mask
    \/ Lldp \in taken /\ tick # "repair"
    \/ tick = "repair" /\ k \in todo

\* While the consumer lives, a present fact is on its way or owed.
Accounted(k, owed) ==
    consumer # "failed" /\ reported[k] # Absent => Settles(k, reported[k]) \/ owed

\* BoundedObservationQueue's accounting with performResync's discard and
\* re-raise: a present netlink fact is never silently lost.  Whatever the
\* overflow, backlog discard, failed redump or restart, either the model
\* will have its last reported value once the queue drains, or its repair is
\* owed.
NetlinkLossAccounted == \A k \in NetKeys : Accounted(k, NetlinkOwed(k))

\* The same for LLDP, which the code does not keep: see the next property.
LldpLossAccounted == \A k \in LldpKeys : Accounted(k, LldpOwed(k))

\* The only step that can lose an LLDP fact unaccounted is the backlog
\* discard of a resync that took the netlink bit alone.
LldpLostOnlyByDiscard ==
    [][LldpLossAccounted =>
         \/ LldpLossAccounted'
         \/ tick = "discard" /\ tick' = "redump" /\ Lldp \notin taken]_vars

\* Every queued item carries the tag of the source that owns its fact.
ItemsTagged == \A i \in 1..Len(queue) : queue[i].src = SourceOf(queue[i].key)

\* The order of start() and stop(), as what each phase may rely on: the
\* consumer takes items only while it runs and leaves only a closed queue, empty
\* unless its stop token ended the wait; ticks run only between start() and stop(); the queue is open from
\* reopen() to close(); an input that is not there has reported nothing (but
\* for stop(), which keeps the last reports until the consumer is joined);
\* a walk visits its own source's keys.
PhasesOrdered ==
    /\ held # NoItem <=> consumer = "applying"
    /\ consumer = "none" <=> phase = "stopped"
    /\ consumer = "exited" => phase = "join" /\ (queue = <<>> \/ TokenEndsWait)
    /\ open \/ phase \in {"join", "stopped"}
    /\ phase = "join" => ~open
    /\ tick # "idle" => phase = "running"
    /\ phase \notin {"dump", "running"} => monitor = "none"
    /\ phase \in {"stopped", "lldp", "close", "join"} => observer = "none"
    /\ phase = "stopped" => \A k \in Keys : reported[k] = Absent
    /\ phase \in {"lldp", "enumerate", "monitor"} =>
          \A k \in NetKeys : reported[k] = Absent
    /\ observer = "none" /\ phase \in {"lldp", "monitor", "dump", "running"} =>
          \A k \in LldpKeys : reported[k] = Absent
    /\ WalksLldp => observer = "live"
    /\ WalksNetlink => todo \subseteq NetKeys
    /\ WalksLldp \/ tick = "keepalive" => todo \subseteq LldpKeys
    /\ taken # {} => tick \in {"discard", "redump", "lldp", "repair"}
    /\ ItemsTagged

\* stop() silences the producers before it closes the queue, so no
\* observation meets a closed queue, which would swallow it without a bit.
ClosedMeansSilent == ~open => monitor = "none" /\ observer = "none"

\* The last word on k is still in the queue of a consumer that has left.
LeftBehind(k) == TokenEndsWait /\ queue # <<>> /\ Settles(k, reported[k])

\* When a healthy consumer leaves, everything the inputs handed over has
\* reached the model: stop() loses no netlink fact except one whose repair
\* was still owed and, where a requested token ends the wait, one that was
\* still queued.
ShutdownDelivers ==
    phase = "join" /\ consumer = "exited" =>
        \A k \in NetKeys :
            reported[k] # Absent =>
                model[k] = reported[k] \/ Netlink \in mask \/ LeftBehind(k)

\* observationLoop's comment: "waitPop returns nullopt only when closed AND
\* drained, so a stop during shutdown still delivers everything already
\* queued."
QueuedIsDelivered == phase = "join" /\ consumer = "exited" => queue = <<>>

\* After the network falls quiet the model agrees with what the netlink
\* monitor reports, whatever overflowed before, as long as the runtime runs
\* and its consumer lives.
ModelConverges ==
    <>[](phase = "running" /\ consumer # "failed" =>
            \A k \in NetKeys : reported[k] # Absent => model[k] = reported[k])

\* A stop() or a failed start() under way always ends: the join does not
\* wait for a consumer that waits for the queue.
StopCompletes == phase \in {"stopLldp", "close", "join"} ~> phase = "stopped"
=============================================================================
