--------------------------- MODULE LldpSupervision ---------------------------
(***************************************************************************)
(* When NetlinkLldpObservationRuntime::tick repairs, replaces and keeps    *)
(* alive its LLDP observer.  tick() runs on the supervision thread alone:  *)
(* superviseLldp, reassertLldpNeighbors, performResync, in that order.     *)
(*                                                                         *)
(* A time_point member is modelled by its age (now - member), saturated at *)
(* Horizon, the largest interval it is compared with; the value {} is the  *)
(* steady clock's epoch, so its age is the host's uptime.  One time unit   *)
(* is the supervision period (10 s).  The lldpd daemon and the watch       *)
(* thread are the environment.  One neighbour that never leaves stands for *)
(* all.  What may fail between lldpd and the model without the runtime     *)
(* noticing (an enumeration whose failure is only logged, a watch that is  *)
(* dead when it is installed, a keepalive batch that is abandoned) is a    *)
(* choice of the step in which it fails.                                   *)
(***************************************************************************)
EXTENDS Integers, FiniteSetsExt

CONSTANTS
    RetryInterval,  \* kLldpRetryInterval
    ProbeInterval,  \* kLldpProbeInterval
    FailureLimit,   \* kLldpReconnectFailureLimit
    Ageout,         \* ModelConfig::candidateAgeout
    ReassertMin,    \* deriveReassertInterval's clamp
    ReassertMax,
    MaxGap,         \* bound: longest time between two ticks
    MaxFaults,      \* bound: watch deaths, daemon failures, ended epochs,
                    \* failed enumerations
    MaxDrops        \* bound: queue overflows and abandoned batches

ASSUME IntervalsPositive ==
    /\ RetryInterval \in Nat \ {0} /\ ProbeInterval \in Nat \ {0}
    /\ FailureLimit \in Nat \ {0} /\ Ageout \in Nat \ {0}
    /\ ReassertMin \in Nat \ {0} /\ ReassertMax \in Nat /\ ReassertMin <= ReassertMax
    /\ MaxGap \in Nat \ {0} /\ MaxFaults \in Nat /\ MaxDrops \in Nat

VARIABLES
    observer,      \* lldpObserver_: none, live, or ended (no longer running)
    watch,         \* the live observer's watch: alive, dead, or silent (dead
                   \* before armExitHandler: watchDied_ is never set)
    known,         \* the neighbour is in the observer's cache
    backend,       \* lldpd answers
    failures,      \* lldpReconnectFailures_, saturated at FailureLimit
    attemptAge,    \* now - lastLldpAttempt_
    reconnectAge,  \* now - lastLldpReconnect_
    probeAge,      \* now - lastLldpProbe_
    reassertAge,   \* now - lastReassert_
    uptime,        \* now - {}
    pc,            \* where tick() is
    sinceTick,     \* time since the last tick() began
    mask,          \* the queue's resync bits
    queued,        \* an observation of the neighbour waits in the queue
    seenAge,       \* now - the candidate's lastSeen in the model
    lost,          \* history: an observation of it was lost since it was seen
    tried,         \* history: time since this observer's last refreshAll()
    failedHere,    \* history: its consecutive failed refreshAll() calls
    rushed,        \* history: one came before the retry interval was over
    spent          \* counters behind the bounds

vars == <<observer, watch, known, backend, failures, attemptAge, reconnectAge,
          probeAge, reassertAge, uptime, pc, sinceTick, mask, queued, seenAge,
          lost, tried, failedHere, rushed, spent>>

timers  == <<attemptAge, reconnectAge, probeAge, reassertAge, uptime, seenAge, tried>>
history == <<tried, failedHere, rushed>>

Clamp(x, lo, hi) == IF x < lo THEN lo ELSE IF x > hi THEN hi ELSE x
\* Mutant of ReassertInterval: one keepalive per ageout.
ReassertIntervalTooLong == Clamp(Ageout, ReassertMin, ReassertMax)

ReassertInterval == Clamp(Ageout \div 2, ReassertMin, ReassertMax)

Horizon == Max({RetryInterval, ProbeInterval, Ageout + 1, ReassertInterval})
Older(age) == IF age < Horizon THEN age + 1 ELSE Horizon

\* isWatchAlive(): no death was reported.
WatchAlive == watch # "dead"

OneMore(n) == IF n < FailureLimit THEN n + 1 ELSE FailureLimit

\* start() published an observer (and cleared its throttle), or failed to
\* and left the acquisition to tick().
Init ==
    /\ observer \in {"none", "live"}
    /\ watch \in IF observer = "live" THEN {"alive", "silent"} ELSE {"dead"}
    /\ known \in IF observer = "live" THEN BOOLEAN ELSE {FALSE}
    /\ backend \in BOOLEAN
    /\ failures = 0
    /\ uptime \in 0..Horizon
    /\ attemptAge = uptime /\ reconnectAge = uptime
    /\ probeAge = uptime /\ reassertAge = uptime
    /\ pc = "idle"
    /\ sinceTick = 0
    /\ mask = {}
    /\ queued = FALSE
    /\ seenAge = 0
    /\ lost = FALSE
    /\ tried = RetryInterval
    /\ failedHere = 0
    /\ rushed = FALSE
    /\ spent = [faults |-> 0, drops |-> 0]

-----------------------------------------------------------------------------
(* Time and the environment *)

\* The supervision loop sleeps one period between ticks; a tick that waits
\* for lldpd delays the next one, up to MaxGap.  The consumer keeps up.
TimePasses ==
    /\ pc = "idle"
    /\ ~queued
    /\ sinceTick < MaxGap
    /\ sinceTick' = sinceTick + 1
    /\ attemptAge' = Older(attemptAge) /\ reconnectAge' = Older(reconnectAge)
    /\ probeAge' = Older(probeAge) /\ reassertAge' = Older(reassertAge)
    /\ uptime' = Older(uptime) /\ seenAge' = Older(seenAge)
    /\ tried' = Older(tried)
    /\ UNCHANGED <<observer, watch, known, backend, failures, pc, mask, queued,
                   lost, failedHere, rushed, spent>>

Fault ==
    /\ spent.faults < MaxFaults
    /\ spent' = [spent EXCEPT !.faults = @ + 1]
    /\ UNCHANGED <<failures, timers, pc, sinceTick, mask, queued, lost, failedHere, rushed>>

\* The loop thread of an armed watch exits: its handler sets watchDied_.
WatchDies ==
    /\ Fault
    /\ watch = "alive"
    /\ watch' = "dead"
    /\ UNCHANGED <<observer, known, backend>>

\* The watch reports a neighbour the cache does not hold.  (A report of one it
\* holds only refreshes the model, and may cut a batch: Reassert.)
WatchReports ==
    /\ observer = "live" /\ watch = "alive" /\ ~known
    /\ known' = TRUE /\ queued' = TRUE
    /\ UNCHANGED <<observer, watch, backend, failures, timers, pc, sinceTick, mask,
                   lost, failedHere, rushed, spent>>

ObserverEnds ==
    /\ Fault
    /\ observer = "live"
    /\ observer' = "ended" /\ watch' = "dead" /\ known' = FALSE
    /\ UNCHANGED backend

BackendFails ==
    Fault /\ backend /\ backend' = FALSE /\ UNCHANGED <<observer, watch, known>>

BackendReturns ==
    /\ ~backend
    /\ backend' = TRUE
    /\ UNCHANGED <<observer, watch, known, failures, timers, pc, sinceTick, mask,
                   queued, lost, failedHere, rushed, spent>>

\* The queue overflowed and raised the bit of the source whose item it
\* dropped: the neighbour's own, or another.
QueueDrops(source) ==
    /\ spent.drops < MaxDrops
    /\ source \notin mask
    /\ mask' = mask \cup {source}
    /\ spent' = [spent EXCEPT !.drops = @ + 1]
    /\ \/ UNCHANGED <<queued, lost>>
       \/ source = "lldp" /\ queued /\ queued' = FALSE /\ lost' = TRUE
    /\ UNCHANGED <<observer, watch, known, backend, failures, timers, pc, sinceTick,
                   failedHere, rushed>>

\* The consumer thread applies the queued observation.
ConsumerApplies ==
    /\ queued
    /\ queued' = FALSE
    /\ seenAge' = 0
    /\ lost' = FALSE
    /\ UNCHANGED <<observer, watch, known, backend, failures, attemptAge, reconnectAge,
                   probeAge, reassertAge, uptime, pc, sinceTick, mask, tried,
                   failedHere, rushed, spent>>

-----------------------------------------------------------------------------
(* reconnectLldp: one throttle and one failure count for all three callers *)

Throttled ==
    /\ reconnectAge < RetryInterval
    /\ UNCHANGED <<watch, known, failures, reconnectAge, queued, history, spent>>

Attempted == tried' = 0 /\ rushed' = (rushed \/ tried < RetryInterval)

\* A new watch is installed and the neighbours are enumerated.  The watch may
\* have died before its exit handler was armed, and a failed enumeration is
\* only logged: the caller succeeds, the cache is empty (refreshAll() has
\* emptied it, and reports the neighbour removed).
Subscribe ==
    /\ watch' \in {"alive", "silent"}
    /\ known' \in BOOLEAN
    /\ queued' = (queued \/ known')
    /\ IF watch' = "alive" /\ known'
       THEN UNCHANGED spent
       ELSE spent.faults < MaxFaults /\ spent' = [spent EXCEPT !.faults = @ + 1]

\* refreshAll() rebuilt the watch.
ReconnectOk ==
    /\ reconnectAge >= RetryInterval
    /\ observer = "live" /\ backend
    /\ reconnectAge' = 0
    /\ failures' = 0
    /\ Subscribe
    /\ Attempted /\ failedHere' = 0

\* Mutant of ReconnectFails: only a success starts the throttle.
ReconnectFailsUnthrottled ==
    /\ reconnectAge >= RetryInterval
    /\ ~(observer = "live" /\ backend)
    /\ failures' = OneMore(failures)
    /\ Attempted /\ failedHere' = OneMore(failedHere)
    /\ UNCHANGED <<watch, known, queued, reconnectAge, spent>>

\* refreshAll() failed (no daemon, or the epoch has ended) and left the
\* watch as it was.
ReconnectFails ==
    /\ reconnectAge >= RetryInterval
    /\ ~(observer = "live" /\ backend)
    /\ reconnectAge' = 0
    /\ failures' = OneMore(failures)
    /\ Attempted /\ failedHere' = OneMore(failedHere)
    /\ UNCHANGED <<watch, known, queued, spent>>

-----------------------------------------------------------------------------
(* superviseLldp *)

BeginTick ==
    /\ pc = "idle"
    /\ sinceTick > 0
    /\ sinceTick' = 0

\* Mutant of NoObserver: returns before the retry path.
NoObserverReturns ==
    /\ BeginTick
    /\ observer # "live"
    /\ observer' = "none"
    /\ pc' = "reassert"
    /\ UNCHANGED <<watch, known, backend, failures, timers, mask, queued, lost,
                   failedHere, rushed, spent>>

\* Not running (or never acquired): dropped, on to the retry path.
NoObserver ==
    /\ BeginTick
    /\ observer # "live"
    /\ observer' = "none"
    /\ pc' = "acquire"
    /\ UNCHANGED <<watch, known, backend, failures, timers, mask, queued, lost,
                   failedHere, rushed, spent>>

\* A watch known to be dead: repaired in place, or still within the failure limit.
RepairWatch ==
    /\ BeginTick
    /\ observer = "live" /\ ~WatchAlive
    /\ \/ ReconnectOk
       \/ (Throttled \/ ReconnectFails) /\ failures' < FailureLimit
    /\ pc' = "reassert"
    /\ UNCHANGED <<observer, backend, attemptAge, probeAge, reassertAge, uptime,
                   seenAge, lost, mask>>

\* In-place repair has not worked: drop the observer, clear its counters
\* and both throttles, and fall through to the retry path.
Escalate ==
    /\ BeginTick
    /\ observer = "live" /\ ~WatchAlive
    /\ \/ /\ reconnectAge < RetryInterval /\ failures >= FailureLimit
          /\ UNCHANGED history
       \/ /\ reconnectAge >= RetryInterval /\ ~backend
          /\ OneMore(failures) >= FailureLimit
          /\ Attempted /\ failedHere' = OneMore(failedHere)
    /\ observer' = "none" /\ known' = FALSE
    /\ failures' = 0
    /\ reconnectAge' = uptime
    /\ attemptAge' = uptime
    /\ pc' = "acquire"
    /\ UNCHANGED <<watch, backend, probeAge, reassertAge, uptime, seenAge, lost,
                   mask, queued, spent>>

\* No death was reported: probe the daemon, over its own connection, when due.
Probe ==
    /\ BeginTick
    /\ observer = "live" /\ WatchAlive
    /\ IF probeAge < ProbeInterval
       THEN pc' = "reassert" /\ UNCHANGED probeAge
       ELSE pc' = (IF backend THEN "reassert" ELSE "reconnect") /\ probeAge' = 0
    /\ UNCHANGED <<observer, watch, known, backend, failures, attemptAge, reconnectAge,
                   reassertAge, uptime, mask, queued, seenAge, lost, history, spent>>

\* The probe failed; the outcome of the reconnect is only counted.
ProbeReconnect ==
    /\ pc = "reconnect"
    /\ Throttled \/ ReconnectOk \/ ReconnectFails
    /\ pc' = "reassert"
    /\ UNCHANGED <<observer, backend, attemptAge, probeAge, reassertAge, uptime,
                   sinceTick, mask, seenAge, lost>>

AcquireThrottled ==
    /\ pc = "acquire"
    /\ attemptAge < RetryInterval
    /\ pc' = "reassert"
    /\ UNCHANGED <<observer, watch, known, backend, failures, timers, sinceTick,
                   mask, queued, lost, failedHere, rushed, spent>>

AcquireFails ==
    /\ pc = "acquire"
    /\ attemptAge >= RetryInterval
    /\ ~backend
    /\ attemptAge' = 0
    /\ pc' = "reassert"
    /\ UNCHANGED <<observer, watch, known, backend, failures, reconnectAge, probeAge,
                   reassertAge, uptime, sinceTick, mask, queued, seenAge, lost,
                   history, spent>>

\* Mutant of Acquire: the new observer inherits the failure count.
AcquireInheritsFailures ==
    /\ pc = "acquire"
    /\ attemptAge >= RetryInterval
    /\ backend
    /\ attemptAge' = 0
    /\ observer' = "live" /\ Subscribe
    /\ reconnectAge' = uptime
    /\ tried' = RetryInterval /\ failedHere' = 0
    /\ pc' = "reassert"
    /\ UNCHANGED <<backend, failures, probeAge, reassertAge, uptime, sinceTick,
                   mask, seenAge, lost, rushed>>

\* A fresh observer: subscribed, with no failures and no throttle.
Acquire ==
    /\ pc = "acquire"
    /\ attemptAge >= RetryInterval
    /\ backend
    /\ attemptAge' = 0
    /\ observer' = "live" /\ Subscribe
    /\ failures' = 0
    /\ reconnectAge' = uptime
    /\ tried' = RetryInterval /\ failedHere' = 0
    /\ pc' = "reassert"
    /\ UNCHANGED <<backend, probeAge, reassertAge, uptime, sinceTick, mask,
                   seenAge, lost, rushed>>

-----------------------------------------------------------------------------
(* reassertLldpNeighbors and performResync *)

\* reassertAll() with the neighbour in the cache: its keepalive is delivered,
\* or the cache has moved since the snapshot and emitBatch drops the rest.
Keepalive ==
    \/ queued' = TRUE /\ UNCHANGED <<lost, spent>>
    \/ /\ spent.drops < MaxDrops
       /\ spent' = [spent EXCEPT !.drops = @ + 1]
       /\ lost' = TRUE
       /\ UNCHANGED queued

\* lastReassert_ is stamped whatever becomes of the batch.
Reassert ==
    /\ pc = "reassert"
    /\ IF observer = "live" /\ reassertAge >= ReassertInterval
       THEN /\ reassertAge' = 0
            /\ IF known THEN Keepalive ELSE UNCHANGED <<queued, lost, spent>>
       ELSE UNCHANGED <<reassertAge, queued, lost, spent>>
    /\ pc' = "resync"
    /\ UNCHANGED <<observer, watch, known, backend, failures, attemptAge, reconnectAge,
                   probeAge, uptime, sinceTick, mask, seenAge, history>>

\* takeResyncMask; a netlink bit discards the backlog, whatever its source.
TakeMask ==
    /\ pc = "resync"
    /\ mask' = {}
    /\ queued' = (queued /\ "netlink" \notin mask)
    /\ lost' = (lost \/ (queued /\ "netlink" \in mask))
    /\ pc' = IF "lldp" \in mask THEN "repair" ELSE "idle"
    /\ UNCHANGED <<observer, watch, known, backend, failures, timers, sinceTick,
                   failedHere, rushed, spent>>

\* The LLDP bit: reconnect, or put the bit back.
ResyncLldp ==
    /\ pc = "repair"
    /\ \/ /\ observer = "none"
          /\ UNCHANGED <<watch, known, failures, reconnectAge, queued, history, mask,
                         spent>>
       \/ observer # "none" /\ ReconnectOk /\ UNCHANGED mask
       \/ /\ observer # "none"
          /\ Throttled \/ ReconnectFails
          /\ mask' = mask \cup {"lldp"}
    /\ pc' = "idle"
    /\ UNCHANGED <<observer, backend, attemptAge, probeAge, reassertAge, uptime,
                   sinceTick, seenAge, lost>>

-----------------------------------------------------------------------------
Tick == NoObserver \/ RepairWatch \/ Escalate \/ Probe \/ ProbeReconnect
        \/ AcquireThrottled \/ AcquireFails \/ Acquire
        \/ Reassert \/ TakeMask \/ ResyncLldp

Environment ==
    \/ WatchDies \/ WatchReports \/ ObserverEnds \/ BackendFails \/ BackendReturns
    \/ \E source \in {"netlink", "lldp"} : QueueDrops(source)

Next == Tick \/ TimePasses \/ ConsumerApplies \/ Environment

Spec == Init /\ [][Next]_vars

\* The supervision and consumer threads are scheduled and time passes; the
\* daemon is not obliged to come back.
FairSpec == Spec /\ WF_vars(Tick) /\ WF_vars(TimePasses) /\ WF_vars(ConsumerApplies)

-----------------------------------------------------------------------------
(* Properties *)

Ages == 0..Horizon

\* Types of the variables.
TypeOK ==
    /\ observer \in {"none", "live", "ended"}
    /\ watch \in {"alive", "dead", "silent"} /\ backend \in BOOLEAN
    /\ known \in BOOLEAN /\ queued \in BOOLEAN /\ lost \in BOOLEAN
    /\ failures \in 0..FailureLimit /\ failedHere \in 0..FailureLimit
    /\ attemptAge \in Ages /\ reconnectAge \in Ages /\ probeAge \in Ages
    /\ reassertAge \in Ages /\ uptime \in Ages /\ seenAge \in Ages
    /\ tried \in Ages /\ rushed \in BOOLEAN
    /\ pc \in {"idle", "reconnect", "acquire", "reassert", "resync", "repair"}
    /\ sinceTick \in 0..MaxGap
    /\ mask \in SUBSET {"netlink", "lldp"}
    /\ spent \in [faults : 0..MaxFaults, drops : 0..MaxDrops]

\* The three triggers share one throttle: two refreshAll() calls on the same
\* observer are at least the retry interval apart, although escalation and
\* acquisition both clear the throttle.
AttemptsSpaced == ~rushed

\* superviseLldp gives an observer with a running epoch up only after
\* FailureLimit consecutive refreshAll() calls failed on that very observer:
\* failures of a predecessor do not count, nor do throttled calls.
EscalationEarned ==
    [][observer = "live" /\ observer' = "none" => failedHere' >= FailureLimit]_vars

\* While the observer lives, the keepalives keep a cached neighbour that stays
\* from reaching candidateAgeout, whichever delays up to MaxGap the supervision
\* thread has: only an observation of that very neighbour that was lost since it
\* was last seen can age it.  Three steps lose one: a batch abandoned in the
\* middle, an overflow, and the backlog that TakeMask discards with the
\* keepalive Reassert has just queued.
KeptAlive == observer = "live" /\ known /\ ~queued /\ ~lost => seenAge <= Ageout

\* The comment on deriveReassertInterval: the keepalive period is below
\* candidateAgeout "so stable LLDP-only candidates are never aged out".
NeverAgedOut == observer = "live" /\ known /\ ~queued => seenAge <= Ageout

\* If the daemon eventually stays up, LLDP recovers for good: whatever died
\* before, the runtime ends with an observer whose watch nobody knows to be
\* dead, every dropped LLDP observation repaired and every lost keepalive made
\* good: neither acquisition nor the resync bit starves behind the shared
\* throttle.
Recovers ==
    <>[]backend =>
      <>[](observer = "live" /\ WatchAlive /\ "lldp" \notin mask /\ (known => ~lost))

\* isWatchAlive()'s comment, "False once a watch has died unsolicited", as
\* superviseLldp relies on it: a dead watch is repaired once the daemon stays up.
DeadWatchRepaired == <>[]backend => <>[](observer = "live" /\ watch = "alive")
=============================================================================
