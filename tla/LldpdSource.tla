----------------------------- MODULE LldpdSource -----------------------------
(***************************************************************************)
(* LldpdSource with its LldpNeighborCache, LldpWatchSupervisor and         *)
(* BoundedLldpWatch: neighbours as lldpd knows them become a cache and a   *)
(* stream of Present and Removed observations.                             *)
(*                                                                         *)
(* Threads: "watch", the loop of the installed watch; "owner" and "sup",   *)
(* the runtime's supervision thread in start() and in refreshAll() or      *)
(* reassertAll(); "net", the netlink thread in removeInterface(); and one  *)
(* caller of stop().                                                       *)
(* Every thread changes the cache in one step and delivers downstream in a *)
(* later one, under a lease of the admission gate.                         *)
(*                                                                         *)
(* A neighbour is a pair <<interface, identity>>; its names are left out,  *)
(* and so are non-MAC identities (delivered, never cached) and the         *)
(* liveness stamp.  lldpd sends each change to every subscribed watch, in  *)
(* order; an enumeration reads the neighbours in one step and then walks   *)
(* over them.  LifecycleCoordinator and admission_gate are external.       *)
(***************************************************************************)
EXTENDS Integers, Sequences

CONSTANTS
    Ifaces,       \* watched interfaces
    Peers,        \* neighbour identities
    Idle,         \* a thread holds no observation
    MaxChanges,   \* bound: changes lldpd reports
    MaxCalls,     \* bound: refreshAll, reassertAll, removeInterface calls
    MaxStarts,    \* bound: start() calls
    MaxFaults     \* bound: watch deaths, failed enumerations, timed-out waits

ASSUME SourceBounds ==
    /\ MaxChanges \in Nat /\ MaxCalls \in Nat /\ MaxStarts \in Nat /\ MaxFaults \in Nat

Keys     == Ifaces \X Peers
Threads  == {"watch", "owner", "sup", "net"}
Builders == {"owner", "sup"}

VARIABLES
    neighbors,   \* what lldpd knows
    watch,       \* watch_: its state, whether its exit handler was armed in
                 \* time, and what lldpd sent it
    fresh,       \* the silent watch a builder has not installed yet
    died,        \* watchDied_
    stopped,     \* stopped_
    lock,        \* the supervisor's mutex is held by refresh()
    epoch,       \* lifecycle_
    cancelled,   \* its stop token
    gate,        \* admission open
    leases,      \* threads with a lease
    incomplete,  \* teardownIncomplete_
    cache,       \* LldpNeighborCache's keys
    moved,       \* its generation differs from the keepalive snapshot's
    oldCache,    \* refreshAll's capture
    pc,          \* where owner, sup, net and the caller of stop() are
    batch,       \* keys a thread has still to handle
    hand,        \* the observation a thread is about to deliver
    told,        \* keys whose last delivered observation was Present
    unlisted,    \* history: the last enumeration failed
    flushed,     \* history: keys removeInterface took since the last one
    late,        \* history: keepalives delivered after the cache had moved
    undrained,   \* history: a stop() gave up waiting for leases
    spent        \* counters behind the bounds

watchVars  == <<watch, fresh, died, stopped, lock>>
epochVars  == <<epoch, cancelled, gate, incomplete>>
cacheVars  == <<cache, moved, oldCache>>
threadVars == <<pc, batch, hand, leases>>
ghostVars  == <<unlisted, flushed, late, undrained>>
vars == <<neighbors, watchVars, epochVars, cacheVars, threadVars, told,
          ghostVars, spent>>

NoWatch == [state |-> "none", armed |-> FALSE, inbox |-> <<>>]
Silent  == [NoWatch EXCEPT !.state = "live"]

Spend(what, limit) ==
    /\ spent[what] < limit
    /\ spent' = [spent EXCEPT ![what] = @ + 1]

\* start(), refreshAll() and reassertAll() are calls of one thread.
Supervising == pc["owner"] # "idle" \/ pc["sup"] # "idle"

Goes(t, to) == pc' = [pc EXCEPT ![t] = to]

Init ==
    /\ neighbors \in SUBSET Keys
    /\ watch = NoWatch
    /\ fresh = [t \in Builders |-> NoWatch]
    /\ died = FALSE
    /\ stopped = TRUE
    /\ lock = FALSE
    /\ epoch = "stopped"
    /\ cancelled = FALSE
    /\ gate = FALSE
    /\ leases = {}
    /\ incomplete = FALSE
    /\ cache = {}
    /\ moved = FALSE
    /\ oldCache = {}
    /\ pc = [t \in {"owner", "sup", "net", "stop"} |-> "idle"]
    /\ batch = [t \in Threads |-> {}]
    /\ hand = [t \in Threads |-> Idle]
    /\ told = {}
    /\ unlisted = FALSE
    /\ flushed = {}
    /\ late = 0
    /\ spent = [changes |-> 0, calls |-> 0, starts |-> 0, faults |-> 0]
    /\ undrained = FALSE

-----------------------------------------------------------------------------
(* lldpd and the watches *)

Sent(w, event) == IF w.state = "live" THEN [w EXCEPT !.inbox = Append(@, event)] ELSE w

\* lldpd learns or loses a neighbour and tells its subscribers.
DaemonChanges(k) ==
    LET event == [key |-> k, kind |-> IF k \in neighbors THEN "Removed" ELSE "Present"] IN
    /\ Spend("changes", MaxChanges)
    /\ neighbors' = IF k \in neighbors THEN neighbors \ {k} ELSE neighbors \cup {k}
    /\ watch' = Sent(watch, event)
    /\ fresh' = [t \in Builders |-> Sent(fresh[t], event)]
    /\ UNCHANGED <<died, stopped, lock, epochVars, cacheVars, threadVars, told, ghostVars>>

\* cacheAndForward's first half: LldpNeighborCache::apply.
Apply(t, event) ==
    /\ cache' = IF event.kind = "Removed" THEN cache \ {event.key} ELSE cache \cup {event.key}
    /\ moved' = TRUE
    /\ hand' = [hand EXCEPT ![t] = event]
    /\ leases' = leases \cup {t}

\* The loop thread of the installed watch takes an event; without admission
\* it is dropped.
WatchTakes ==
    /\ watch.state = "live" /\ watch.inbox # <<>>
    /\ hand["watch"] = Idle
    /\ watch' = [watch EXCEPT !.inbox = Tail(@)]
    /\ IF gate THEN Apply("watch", Head(watch.inbox))
       ELSE UNCHANGED <<cache, moved, hand, leases>>
    /\ UNCHANGED <<neighbors, fresh, died, stopped, lock, epochVars, oldCache,
                   pc, batch, told, ghostVars, spent>>

\* A watch without a callback discards what it reads.
SilentDiscards(t) ==
    /\ fresh[t].inbox # <<>>
    /\ fresh' = [fresh EXCEPT ![t].inbox = Tail(@)]
    /\ UNCHANGED <<neighbors, watch, died, stopped, lock, epochVars, cacheVars,
                   threadVars, told, ghostVars, spent>>

Dead(w) == [w EXCEPT !.state = "dead", !.inbox = <<>>]

\* The loop ends unsolicited; notifyExit runs the handler if there is one.
WatchDies ==
    /\ watch.state = "live" /\ hand["watch"] = Idle
    /\ Spend("faults", MaxFaults)
    /\ watch' = Dead(watch)
    /\ died' = (died \/ watch.armed)
    /\ UNCHANGED <<neighbors, fresh, stopped, lock, epochVars, cacheVars,
                   threadVars, told, ghostVars>>

SilentDies(t) ==
    /\ fresh[t].state = "live"
    /\ Spend("faults", MaxFaults)
    /\ fresh' = [fresh EXCEPT ![t] = Dead(@)]
    /\ UNCHANGED <<neighbors, watch, died, stopped, lock, epochVars, cacheVars,
                   threadVars, told, ghostVars>>

\* The second half: downstream.  The watch and the walks hold a lease per
\* observation, the other callers one per batch.
Walking(t) == t \in Builders /\ pc[t] = "walk"

Deliver(t) ==
    LET event == hand[t] IN
    /\ event # Idle
    /\ hand' = [hand EXCEPT ![t] = Idle]
    /\ told' = CASE event.kind = "Present" -> told \cup {event.key}
                 [] event.kind = "Removed" -> told \ {event.key}
                 [] OTHER -> told
    /\ late' = IF event.kind = "Keepalive" /\ moved THEN late + 1 ELSE late
    /\ leases' = IF t = "watch" \/ Walking(t) THEN leases \ {t} ELSE leases
    /\ UNCHANGED <<neighbors, watchVars, epochVars, cacheVars, pc, batch,
                   unlisted, flushed, undrained, spent>>

-----------------------------------------------------------------------------
(* enumerateInitialNeighbors, of start() and refreshAll() *)

EnumLists(t) ==
    /\ pc[t] = "list"
    /\ batch' = [batch EXCEPT ![t] = neighbors]
    /\ Goes(t, "walk")
    /\ unlisted' = FALSE
    /\ UNCHANGED <<neighbors, watchVars, epochVars, cacheVars, hand, leases,
                   told, flushed, late, undrained, spent>>

\* The connection fails or times out: logged, the caller goes on.
EnumFails(t) ==
    /\ pc[t] = "list"
    /\ Spend("faults", MaxFaults)
    /\ Goes(t, "walk")
    /\ unlisted' = TRUE
    /\ UNCHANGED <<neighbors, watchVars, epochVars, cacheVars, batch, hand,
                   leases, told, flushed, late, undrained>>

EnumTakes(t, k) ==
    /\ Walking(t) /\ hand[t] = Idle
    /\ k \in batch[t]
    /\ gate
    /\ batch' = [batch EXCEPT ![t] = @ \ {k}]
    /\ Apply(t, [key |-> k, kind |-> "Present"])
    /\ UNCHANGED <<neighbors, watchVars, epochVars, oldCache, pc, told,
                   ghostVars, spent>>

\* No lease, or startup cancelled: the rest of the walk is dropped.
EnumAborts(t) ==
    /\ Walking(t) /\ hand[t] = Idle
    /\ batch[t] # {}
    /\ ~gate \/ (t = "owner" /\ cancelled)
    /\ batch' = [batch EXCEPT ![t] = {}]
    /\ unlisted' = TRUE
    /\ UNCHANGED <<neighbors, watchVars, epochVars, cacheVars, pc, hand,
                   leases, told, flushed, late, undrained, spent>>

EnumDone(t) ==
    /\ Walking(t) /\ hand[t] = Idle
    /\ batch[t] = {}
    /\ Goes(t, IF t = "owner" THEN "complete" ELSE "reconcile")
    /\ UNCHANGED <<neighbors, watchVars, epochVars, cacheVars, batch, hand,
                   leases, told, ghostVars, spent>>

-----------------------------------------------------------------------------
(* start() *)

\* Refused while leases are out or a teardown was incomplete.
StartBegins ==
    /\ ~Supervising
    /\ epoch = "stopped"
    /\ leases = {}
    /\ ~incomplete
    /\ Spend("starts", MaxStarts)
    /\ epoch' = "starting"
    /\ cancelled' = FALSE
    /\ gate' = TRUE
    /\ Goes("owner", "build")
    /\ UNCHANGED <<neighbors, watchVars, incomplete, cacheVars, batch, hand,
                   leases, told, ghostVars>>

StartBuilds ==
    /\ pc["owner"] = "build"
    /\ fresh' = [fresh EXCEPT !["owner"] = Silent]
    /\ Goes("owner", "attach")
    /\ UNCHANGED <<neighbors, watch, died, stopped, lock, epochVars, cacheVars,
                   batch, hand, leases, told, ghostVars, spent>>

StartBuildFails ==
    /\ pc["owner"] = "build"
    /\ Spend("faults", MaxFaults)
    /\ gate' = FALSE
    /\ Goes("owner", "abort")
    /\ UNCHANGED <<neighbors, watchVars, epoch, cancelled, incomplete, cacheVars,
                   batch, hand, leases, told, ghostVars>>

\* close_and_drain; the cache is left alone.
StartAborts ==
    /\ pc["owner"] = "abort"
    /\ leases = {}
    /\ epoch' = "stopped"
    /\ Goes("owner", "idle")
    /\ UNCHANGED <<neighbors, watchVars, cancelled, gate, incomplete, cacheVars,
                   batch, hand, leases, told, ghostVars, spent>>

\* armExitHandler: too late for a watch that is dead already.
Armed(w) == [w EXCEPT !.armed = (w.state = "live")]

\* Mutant of StartAttaches: relies on the subscription to report what exists.
StartAttachesUnlisted ==
    /\ pc["owner"] = "attach"
    /\ watch.state = "none" \/ died
    /\ died' = FALSE
    /\ watch' = Armed(fresh["owner"])
    /\ fresh' = [fresh EXCEPT !["owner"] = NoWatch]
    /\ stopped' = FALSE
    /\ flushed' = {}
    /\ Goes("owner", "complete")
    /\ UNCHANGED <<neighbors, lock, epochVars, cacheVars, batch, hand, leases,
                   told, unlisted, late, undrained, spent>>

\* A watch that is still installed would refuse the start; StoppedIsQuiet
\* shows that there is none.
StartAttaches ==
    /\ pc["owner"] = "attach"
    /\ watch.state = "none" \/ died
    /\ died' = FALSE
    /\ watch' = Armed(fresh["owner"])
    /\ fresh' = [fresh EXCEPT !["owner"] = NoWatch]
    /\ stopped' = FALSE
    /\ flushed' = {}
    /\ Goes("owner", "list")
    /\ UNCHANGED <<neighbors, lock, epochVars, cacheVars, batch, hand, leases,
                   told, unlisted, late, undrained, spent>>

StartCompletes ==
    /\ pc["owner"] = "complete"
    /\ ~cancelled
    /\ epoch' = "running"
    /\ Goes("owner", "idle")
    /\ UNCHANGED <<neighbors, watchVars, cancelled, gate, incomplete, cacheVars,
                   batch, hand, leases, told, ghostVars, spent>>

\* A concurrent stop() cancelled the start: undo it here.  No refresh can
\* hold the lock, so this wait never times out.
StartCancelled ==
    /\ pc["owner"] = "complete"
    /\ cancelled
    /\ hand["watch"] = Idle
    /\ watch' = NoWatch
    /\ stopped' = TRUE
    /\ gate' = FALSE
    /\ Goes("owner", "unwind")
    /\ UNCHANGED <<neighbors, fresh, died, lock, epoch, cancelled, incomplete,
                   cacheVars, batch, hand, leases, told, ghostVars, spent>>

\* close_and_drain, clear.
StartUnwinds ==
    /\ pc["owner"] = "unwind"
    /\ leases = {}
    /\ cache' = {}
    /\ moved' = (moved \/ cache # {})
    /\ epoch' = "stopped"
    /\ Goes("owner", "idle")
    /\ UNCHANGED <<neighbors, watchVars, cancelled, gate, incomplete, oldCache,
                   batch, hand, leases, told, ghostVars, spent>>

-----------------------------------------------------------------------------
(* stop() *)

StopBegins ==
    /\ epoch = "running"
    /\ epoch' = "stopping"
    /\ gate' = FALSE
    /\ Goes("stop", "teardown")
    /\ UNCHANGED <<neighbors, watchVars, cancelled, incomplete, cacheVars,
                   batch, hand, leases, told, ghostVars, spent>>

\* During start(): request cancellation; start() undoes itself.
StopCancels ==
    /\ epoch = "starting" /\ ~cancelled
    /\ cancelled' = TRUE
    /\ UNCHANGED <<neighbors, watchVars, epoch, gate, incomplete, cacheVars,
                   threadVars, told, ghostVars, spent>>

\* The supervisor joins the loop thread.
StopTearsDown ==
    /\ pc["stop"] = "teardown"
    /\ ~lock /\ hand["watch"] = Idle
    /\ stopped' = TRUE
    /\ watch' = NoWatch
    /\ Goes("stop", "drain")
    /\ UNCHANGED <<neighbors, fresh, died, lock, epochVars, cacheVars, batch,
                   hand, leases, told, ghostVars, spent>>

StopTimesOut ==
    /\ pc["stop"] = "teardown"
    /\ lock
    /\ Spend("faults", MaxFaults)
    /\ incomplete' = TRUE
    /\ Goes("stop", "drain")
    /\ UNCHANGED <<neighbors, watchVars, epoch, cancelled, gate, cacheVars,
                   batch, hand, leases, told, ghostVars>>

\* Mutant of StopDrains: clears without waiting for the leases.
StopClears ==
    /\ pc["stop"] = "drain"
    /\ cache' = {}
    /\ moved' = (moved \/ cache # {})
    /\ epoch' = "stopped"
    /\ Goes("stop", "idle")
    /\ UNCHANGED <<neighbors, watchVars, cancelled, gate, incomplete, oldCache,
                   batch, hand, leases, told, ghostVars, spent>>

StopDrains ==
    /\ pc["stop"] = "drain"
    /\ leases = {}
    /\ cache' = {}
    /\ moved' = (moved \/ cache # {})
    /\ epoch' = "stopped"
    /\ Goes("stop", "idle")
    /\ UNCHANGED <<neighbors, watchVars, cancelled, gate, incomplete, oldCache,
                   batch, hand, leases, told, ghostVars, spent>>

\* The cache is left as it is.
StopDrainTimesOut ==
    /\ pc["stop"] = "drain"
    /\ leases # {}
    /\ Spend("faults", MaxFaults)
    /\ epoch' = "stopped"
    /\ undrained' = TRUE
    /\ Goes("stop", "idle")
    /\ UNCHANGED <<neighbors, watchVars, cancelled, gate, incomplete, cacheVars,
                   batch, hand, leases, told, unlisted, flushed, late>>

-----------------------------------------------------------------------------
(* refreshAll(): LldpWatchSupervisor::refresh, enumerate, reconcile *)

\* The replacement subscribes silently while the old watch still delivers.
RefreshBuilds ==
    /\ ~Supervising
    /\ epoch = "running"
    /\ Spend("calls", MaxCalls)
    /\ fresh' = [fresh EXCEPT !["sup"] = Silent]
    /\ Goes("sup", "built")
    /\ UNCHANGED <<neighbors, watch, died, stopped, lock, epochVars, cacheVars,
                   batch, hand, leases, told, ghostVars>>

\* stop() won the race: the replacement is dropped.
RefreshTooLate ==
    /\ pc["sup"] = "built"
    /\ stopped
    /\ fresh' = [fresh EXCEPT !["sup"] = NoWatch]
    /\ Goes("sup", "idle")
    /\ UNCHANGED <<neighbors, watch, died, stopped, lock, epochVars, cacheVars,
                   batch, hand, leases, told, ghostVars, spent>>

RefreshLocks ==
    /\ pc["sup"] = "built"
    /\ ~stopped
    /\ lock' = TRUE
    /\ Goes("sup", "locked")
    /\ UNCHANGED <<neighbors, watch, fresh, died, stopped, epochVars, cacheVars,
                   batch, hand, leases, told, ghostVars, spent>>

\* Destroying the old watch joins its loop; then onSwap captures the cache.
RefreshSwaps ==
    /\ pc["sup"] = "locked"
    /\ hand["watch"] = Idle
    /\ watch' = NoWatch
    /\ oldCache' = cache
    /\ cache' = {} /\ moved' = TRUE
    /\ Goes("sup", "swapped")
    /\ UNCHANGED <<neighbors, fresh, died, stopped, lock, epochVars, batch,
                   hand, leases, told, ghostVars, spent>>

\* Mutant of RefreshAttaches: the replacement gets no exit handler.
RefreshAttachesUnarmed ==
    /\ pc["sup"] = "swapped"
    /\ died' = FALSE
    /\ watch' = fresh["sup"]
    /\ fresh' = [fresh EXCEPT !["sup"] = NoWatch]
    /\ lock' = FALSE
    /\ flushed' = {}
    /\ Goes("sup", "list")
    /\ UNCHANGED <<neighbors, stopped, epochVars, cacheVars, batch, hand,
                   leases, told, unlisted, late, undrained, spent>>

RefreshAttaches ==
    /\ pc["sup"] = "swapped"
    /\ died' = FALSE
    /\ watch' = Armed(fresh["sup"])
    /\ fresh' = [fresh EXCEPT !["sup"] = NoWatch]
    /\ lock' = FALSE
    /\ flushed' = {}
    /\ Goes("sup", "list")
    /\ UNCHANGED <<neighbors, stopped, epochVars, cacheVars, batch, hand,
                   leases, told, unlisted, late, undrained, spent>>

\* reconcileAfterRefresh: Removed for what was not seen again.
ReconcileBegins ==
    /\ pc["sup"] = "reconcile"
    /\ gate
    /\ leases' = leases \cup {"sup"}
    /\ batch' = [batch EXCEPT !["sup"] = oldCache \ cache]
    /\ oldCache' = {}
    /\ Goes("sup", "removing")
    /\ UNCHANGED <<neighbors, watchVars, epochVars, cache, moved, hand, told,
                   ghostVars, spent>>

ReconcileRefused ==
    /\ pc["sup"] = "reconcile"
    /\ ~gate
    /\ oldCache' = {}
    /\ Goes("sup", "idle")
    /\ UNCHANGED <<neighbors, watchVars, epochVars, cache, moved, batch, hand,
                   leases, told, ghostVars, spent>>

-----------------------------------------------------------------------------
(* removeInterface() and reassertAll() *)

FlushInterface(i) ==
    /\ pc["net"] = "idle"
    /\ gate
    /\ Spend("calls", MaxCalls)
    /\ leases' = leases \cup {"net"}
    /\ LET gone == {k \in cache : k[1] = i} IN
       /\ batch' = [batch EXCEPT !["net"] = gone]
       /\ cache' = cache \ gone
       /\ moved' \in {moved \/ gone # {}, TRUE}   \* an empty entry counts as one
    /\ flushed' = flushed \cup ({i} \X Peers)
    /\ Goes("net", "removing")
    /\ UNCHANGED <<neighbors, watchVars, epochVars, oldCache, hand, told,
                   unlisted, late, undrained>>

\* The batches of removeInterface and reconcileAfterRefresh bypass the cache.
RemoveTakes(t, k) ==
    /\ pc[t] = "removing" /\ hand[t] = Idle
    /\ k \in batch[t]
    /\ batch' = [batch EXCEPT ![t] = @ \ {k}]
    /\ hand' = [hand EXCEPT ![t] = [key |-> k, kind |-> "Removed"]]
    /\ UNCHANGED <<neighbors, watchVars, epochVars, cacheVars, pc, leases, told,
                   ghostVars, spent>>

BatchDone(t) ==
    /\ pc[t] \in {"removing", "reassert"} /\ hand[t] = Idle
    /\ batch[t] = {}
    /\ leases' = leases \ {t}
    /\ Goes(t, "idle")
    /\ UNCHANGED <<neighbors, watchVars, epochVars, cacheVars, batch, hand, told,
                   ghostVars, spent>>

\* A lease, then a snapshot of the cache with its generation.
ReassertBegins ==
    /\ ~Supervising
    /\ gate
    /\ Spend("calls", MaxCalls)
    /\ leases' = leases \cup {"sup"}
    /\ batch' = [batch EXCEPT !["sup"] = cache]
    /\ moved' = FALSE
    /\ late' = 0
    /\ Goes("sup", "reassert")
    /\ UNCHANGED <<neighbors, watchVars, epochVars, cache, oldCache, hand, told,
                   unlisted, flushed, undrained>>

\* Mutant of ReassertTakes: an unguarded batch.
ReassertTakesUnguarded(k) ==
    /\ pc["sup"] = "reassert" /\ hand["sup"] = Idle
    /\ k \in batch["sup"]
    /\ batch' = [batch EXCEPT !["sup"] = @ \ {k}]
    /\ hand' = [hand EXCEPT !["sup"] = [key |-> k, kind |-> "Keepalive"]]
    /\ UNCHANGED <<neighbors, watchVars, epochVars, cacheVars, pc, leases, told,
                   ghostVars, spent>>

\* emitBatch compares generations before each delivery, not during it.
ReassertTakes(k) ==
    /\ pc["sup"] = "reassert" /\ hand["sup"] = Idle
    /\ k \in batch["sup"]
    /\ ~moved
    /\ batch' = [batch EXCEPT !["sup"] = @ \ {k}]
    /\ hand' = [hand EXCEPT !["sup"] = [key |-> k, kind |-> "Keepalive"]]
    /\ UNCHANGED <<neighbors, watchVars, epochVars, cacheVars, pc, leases, told,
                   ghostVars, spent>>

ReassertDrops ==
    /\ pc["sup"] = "reassert" /\ hand["sup"] = Idle
    /\ batch["sup"] # {}
    /\ moved
    /\ batch' = [batch EXCEPT !["sup"] = {}]
    /\ UNCHANGED <<neighbors, watchVars, epochVars, cacheVars, pc, hand, leases,
                   told, ghostVars, spent>>

-----------------------------------------------------------------------------
StartStep ==
    \/ StartBegins \/ StartBuilds \/ StartBuildFails \/ StartAborts
    \/ StartAttaches \/ StartCompletes \/ StartCancelled \/ StartUnwinds

StopStep ==
    \/ StopBegins \/ StopCancels \/ StopTearsDown \/ StopTimesOut
    \/ StopDrains \/ StopDrainTimesOut

RefreshStep ==
    \/ RefreshBuilds \/ RefreshTooLate \/ RefreshLocks \/ RefreshSwaps
    \/ RefreshAttaches \/ ReconcileBegins \/ ReconcileRefused

BatchStep ==
    \/ \E i \in Ifaces : FlushInterface(i)
    \/ \E t \in {"sup", "net"} : BatchDone(t) \/ \E k \in Keys : RemoveTakes(t, k)
    \/ ReassertBegins \/ ReassertDrops \/ \E k \in Keys : ReassertTakes(k)

EnumStep ==
    \E t \in Builders :
        \/ EnumLists(t) \/ EnumFails(t) \/ EnumAborts(t) \/ EnumDone(t)
        \/ \E k \in Keys : EnumTakes(t, k)

WatchStep ==
    \/ WatchTakes \/ WatchDies
    \/ \E t \in Builders : SilentDiscards(t) \/ SilentDies(t)

Next ==
    \/ \E k \in Keys : DaemonChanges(k)
    \/ \E t \in Threads : Deliver(t)
    \/ WatchStep \/ EnumStep \/ StartStep \/ StopStep \/ RefreshStep \/ BatchStep

Spec == Init /\ [][Next]_vars

-----------------------------------------------------------------------------
(* Properties *)

Events  == [key : Keys, kind : {"Present", "Removed", "Keepalive"}]
Watches == [state : {"none", "live", "dead"}, armed : BOOLEAN, inbox : Seq(Events)]

\* The steps a thread can be at.
Places  == {"idle", "build", "attach", "list", "walk", "complete", "abort",
            "unwind", "built", "locked", "swapped", "reconcile", "removing",
            "reassert", "teardown", "drain"}

\* Type invariant; an observation on its way downstream is under a lease.
TypeOK ==
    /\ neighbors \subseteq Keys
    /\ watch \in Watches
    /\ fresh \in [Builders -> Watches]
    /\ died \in BOOLEAN /\ stopped \in BOOLEAN /\ lock \in BOOLEAN
    /\ epoch \in {"stopped", "starting", "running", "stopping"}
    /\ cancelled \in BOOLEAN /\ gate \in BOOLEAN /\ incomplete \in BOOLEAN
    /\ leases \subseteq Threads
    /\ cache \subseteq Keys /\ oldCache \subseteq Keys /\ told \subseteq Keys
    /\ flushed \subseteq Keys
    /\ moved \in BOOLEAN /\ unlisted \in BOOLEAN /\ late \in Nat
    /\ pc \in [{"owner", "sup", "net", "stop"} -> Places]
    /\ batch \in [Threads -> SUBSET Keys]
    /\ hand \in [Threads -> Events \cup {Idle}]
    /\ \A t \in Threads : hand[t] # Idle => t \in leases

\* stop() has returned without a timed-out wait and no start() follows yet:
\* no watch is installed, nobody holds a lease or an undelivered
\* observation, and the cache is empty -- whatever refreshAll(),
\* removeInterface() or reassertAll() was running at the time.
StoppedIsQuiet ==
    (epoch = "stopped" /\ ~incomplete /\ ~undrained) =>
        /\ watch.state = "none"
        /\ leases = {}
        /\ \A t \in Threads : hand[t] = Idle
        /\ cache = {}

\* The window between a subscription and its enumeration loses nothing: once
\* a start or a reconnect is through and the watch has nothing left to read,
\* every neighbour lldpd knows is cached, unless the enumeration failed or
\* removeInterface() dropped its interface since.
NoNeighbourMissed ==
    (/\ epoch = "running" /\ ~unlisted
     /\ watch.state = "live" /\ watch.inbox = <<>>
     /\ pc["sup"] \notin {"swapped", "list", "walk"}) =>
        neighbors \ flushed \subseteq cache

\* A watch that dies while installed is noticed: isWatchAlive() turns false,
\* which is what makes the supervision reconnect at once.
DeathNoticed ==
    [][watch.state = "live" /\ watch'.state = "dead" => died']_vars

\* Of the keepalives of one reassertAll(), at most the one already past the
\* generation check goes out after the cache has moved.
KeepaliveBounded == late <= 1

\* "a Removed stays correct regardless of cache movement": reconciliation
\* reports no neighbour as removed that lldpd and the cache hold.
RemovedStaysCorrect ==
    [][\A k \in neighbors \cap cache :
          hand["sup"] = [key |-> k, kind |-> "Removed"] => hand'["sup"] # Idle]_vars

=============================================================================
