------------------------ MODULE LldpSupervisionProofs ------------------------
(***************************************************************************)
(* Proofs about LldpSupervision for every interval, failure limit, ageout, *)
(* supervision delay and bound.                                            *)
(***************************************************************************)
EXTENDS LldpSupervision, TLAPS

-----------------------------------------------------------------------------
(* The inductive invariant *)

\* A reconnect the throttle lets through is one the observer's own history
\* lets through: only an observer that is about to be replaced may have a
\* throttle younger than its last attempt.
ThrottleHonest ==
    observer # "none" => tried >= reconnectAge \/ tried >= RetryInterval

\* The failure count is that of the observer it is held against.
CountHonest == observer # "none" => failures = failedHere

\* A probe that failed has an observer to reconnect.
ProbeHasObserver == pc = "reconnect" => observer # "none"

Inv == TypeOK /\ ThrottleHonest /\ CountHonest /\ AttemptsSpaced
         /\ ProbeHasObserver

-----------------------------------------------------------------------------
(* Ages *)

\* The keepalive interval is a natural number.
LEMMA ReassertIsNat == ReassertInterval \in Nat
  <1>1. Ageout \div 2 \in Nat
    BY IntervalsPositive
  <1> QED
    BY <1>1, IntervalsPositive DEF ReassertInterval, Clamp

\* Ages saturate no earlier than the intervals they are compared with.
LEMMA HorizonIsLargest ==
    Horizon \in Nat /\ Horizon >= RetryInterval
  <1> DEFINE S == {RetryInterval, ProbeInterval, Ageout + 1, ReassertInterval}
  <1>1. S \subseteq Nat
    BY IntervalsPositive, ReassertIsNat
  <1>2. \E x \in S : \A y \in S : x >= y
    BY IntervalsPositive, ReassertIsNat
  <1>3. Horizon \in S /\ \A y \in S : Horizon >= y
    BY <1>2 DEF Horizon, Max
  <1> QED
    BY <1>1, <1>3

\* An age stays one as time passes, and time keeps the order of two ages.
LEMMA OlderAges ==
    /\ \A a \in Ages : Older(a) \in Ages /\ Older(a) >= a
    /\ \A a, b \in Ages : a >= b => Older(a) >= Older(b)
  BY HorizonIsLargest DEF Ages, Older

\* Saturating counts stay within the failure limit.
LEMMA CountsSaturate ==
    \A n \in 0 .. FailureLimit : OneMore(n) \in 0 .. FailureLimit
  BY IntervalsPositive DEF OneMore

\* Fresh ages and the throttle's end are ages.
LEMMA AgeValues == 0 \in Ages /\ RetryInterval \in Ages /\ RetryInterval \in Nat
  BY HorizonIsLargest, IntervalsPositive DEF Ages

-----------------------------------------------------------------------------
(* Preservation *)

\* A fault is counted within its bound.
LEMMA FaultCounted ==
    ASSUME TypeOK, Fault
    PROVE  spent' \in [faults : 0 .. MaxFaults, drops : 0 .. MaxDrops]
  BY IntervalsPositive DEF TypeOK, Fault

\* A subscription leaves a watch and a cache, and counts what failed.
LEMMA Subscribes ==
    ASSUME TypeOK, Subscribe
    PROVE  /\ watch' \in {"alive", "dead", "silent"} /\ known' \in BOOLEAN
           /\ queued' \in BOOLEAN /\ (queued \/ known' => queued')
           /\ (~queued /\ ~known' => ~queued')
           /\ spent' \in [faults : 0 .. MaxFaults, drops : 0 .. MaxDrops]
           /\ spent'.drops = spent.drops
  BY IntervalsPositive DEF TypeOK, Subscribe

\* Whichever caller reconnects, and whatever comes of it: the throttle and the
\* count stay those of the observer, and no attempt is rushed.
LEMMA Reconnects ==
    ASSUME Inv, observer # "none",
           Throttled \/ ReconnectOk \/ ReconnectFails
    PROVE  /\ watch' \in {"alive", "dead", "silent"} /\ known' \in BOOLEAN
           /\ queued' \in BOOLEAN
           /\ spent' \in [faults : 0 .. MaxFaults, drops : 0 .. MaxDrops]
           /\ failures' \in 0 .. FailureLimit /\ failedHere' = failures'
           /\ reconnectAge' \in Ages /\ tried' \in Ages /\ rushed' = FALSE
           /\ tried' >= reconnectAge' \/ tried' >= RetryInterval
  <1> USE AgeValues, IntervalsPositive
      DEF Inv, TypeOK, ThrottleHonest, CountHonest, AttemptsSpaced
  <1>1. CASE Throttled
    BY <1>1 DEF Throttled, history
  <1>2. /\ reconnectAge \in Nat /\ tried \in Nat /\ RetryInterval \in Nat
        /\ 0 \in 0 .. FailureLimit
    BY HorizonIsLargest DEF Ages
  <1>3. reconnectAge >= RetryInterval => ~(tried < RetryInterval)
    BY <1>2
  <1>4. CASE ReconnectOk
    BY <1>2, <1>3, <1>4, Subscribes DEF ReconnectOk, Attempted
  <1>5. CASE ReconnectFails
    BY <1>2, <1>3, <1>5, CountsSaturate DEF ReconnectFails, Attempted
  <1> QED
    BY <1>1, <1>4, <1>5

\* Every step of the environment, the consumer and the clock.
LEMMA OutsideStep ==
    Inv /\ (TimePasses \/ ConsumerApplies \/ Environment) => Inv'
  <1> SUFFICES ASSUME Inv, TimePasses \/ ConsumerApplies \/ Environment
               PROVE  Inv'
    OBVIOUS
  <1> USE IntervalsPositive, AgeValues
      DEF Inv, TypeOK, ThrottleHonest, CountHonest, AttemptsSpaced,
          ProbeHasObserver, timers
  <1>1. CASE TimePasses
    <2>1. TypeOK'
      BY <1>1, OlderAges DEF TimePasses
    <2>2. ThrottleHonest'
      <3>1. tried' >= tried /\ (tried >= reconnectAge => tried' >= reconnectAge')
        BY <1>1, OlderAges DEF TimePasses
      <3>2. tried' \in Nat /\ tried \in Nat
        BY <2>1, HorizonIsLargest DEF Ages
      <3> QED
        BY <1>1, <3>1, <3>2 DEF TimePasses
    <2> QED
      BY <1>1, <2>1, <2>2 DEF TimePasses
  <1>2. CASE ConsumerApplies
    BY <1>2 DEF ConsumerApplies
  <1>3. CASE WatchDies
    BY <1>3, FaultCounted DEF WatchDies, Fault
  <1>4. CASE ObserverEnds
    BY <1>4, FaultCounted DEF ObserverEnds, Fault
  <1>8. CASE WatchReports
    BY <1>8 DEF WatchReports
  <1>5. CASE BackendFails
    BY <1>5, FaultCounted DEF BackendFails, Fault
  <1>6. CASE BackendReturns
    BY <1>6 DEF BackendReturns
  <1>7. ASSUME NEW source \in {"netlink", "lldp"}, QueueDrops(source)
        PROVE  Inv'
    <2>1. spent' \in [faults : 0 .. MaxFaults, drops : 0 .. MaxDrops]
      BY <1>7 DEF QueueDrops
    <2>2. queued' \in BOOLEAN /\ lost' \in BOOLEAN
      BY <1>7 DEF QueueDrops
    <2>3. mask' \in SUBSET {"netlink", "lldp"}
      BY <1>7 DEF QueueDrops
    <2>4. UNCHANGED <<observer, watch, known, backend, failures, attemptAge,
                      reconnectAge, probeAge, reassertAge, uptime, seenAge, tried,
                      pc, sinceTick, failedHere, rushed>>
      BY <1>7 DEF QueueDrops
    <2> QED
      BY <2>1, <2>2, <2>3, <2>4
  <1> QED
    BY <1>1, <1>2, <1>3, <1>4, <1>5, <1>6, <1>7, <1>8 DEF Environment

\* Every step of tick().
LEMMA TickStep == Inv /\ Tick => Inv'
  <1> SUFFICES ASSUME Inv, Tick
               PROVE  Inv'
    OBVIOUS
  <1> USE IntervalsPositive, AgeValues, CountsSaturate
      DEF Inv, TypeOK, ThrottleHonest, CountHonest, AttemptsSpaced,
          ProbeHasObserver, timers,
          history, BeginTick
  <1>0. \A a \in Ages : a \in Nat
    BY HorizonIsLargest DEF Ages
  <1>1. CASE NoObserver
    BY <1>1, <1>0 DEF NoObserver
  <1>2. CASE RepairWatch
    <2>1. Throttled \/ ReconnectOk \/ ReconnectFails
      BY <1>2 DEF RepairWatch
    <2>2. observer = "live" /\ UNCHANGED observer /\ pc' = "reassert"
      BY <1>2 DEF RepairWatch
    <2>3. /\ UNCHANGED <<backend, attemptAge, probeAge, reassertAge, uptime,
                         seenAge, lost, mask>>
          /\ sinceTick' \in 0 .. MaxGap
      BY <1>2 DEF RepairWatch
    <2> QED
      BY <2>1, <2>2, <2>3, Reconnects
  <1>3. CASE Escalate
    <2>1. /\ observer' = "none" /\ known' = FALSE /\ failures' = 0
          /\ reconnectAge' = uptime /\ attemptAge' = uptime /\ pc' = "acquire"
          /\ sinceTick' = 0
          /\ UNCHANGED <<watch, backend, probeAge, reassertAge, uptime, seenAge,
                         lost, mask, queued, spent>>
      BY <1>3 DEF Escalate
    <2>2. /\ tried' \in Ages /\ rushed' = FALSE
          /\ failedHere' \in 0 .. FailureLimit
      <3>1. CASE reconnectAge < RetryInterval
        <4>1. reconnectAge \in Nat
          BY <1>0
        <4> QED
          BY <1>3, <3>1, <4>1 DEF Escalate
      <3>2. CASE ~(reconnectAge < RetryInterval)
        <4>1. observer = "live" /\ Attempted /\ failedHere' = OneMore(failedHere)
          BY <1>3, <3>2 DEF Escalate
        <4>2. reconnectAge \in Nat /\ tried \in Nat
          BY <1>0
        <4>3. ~(tried < RetryInterval)
          BY <3>2, <4>1, <4>2
        <4> QED
          BY <4>1, <4>3 DEF Attempted
      <3> QED
        BY <3>1, <3>2
    <2>3. /\ known' \in BOOLEAN
          /\ sinceTick' \in 0 .. MaxGap /\ failures' \in 0 .. FailureLimit
      <3>1. known' \in BOOLEAN
        BY <2>1
      <3>2. 0 \in 0 .. MaxGap /\ 0 \in 0 .. FailureLimit
        OBVIOUS
      <3> QED
        BY <2>1, <3>1, <3>2
    <2>4. TypeOK'
      BY <2>1, <2>2, <2>3
    <2> QED
      BY <2>1, <2>2, <2>4
  <1>4. CASE Probe
    BY <1>4, <1>0 DEF Probe
  <1>5. CASE ProbeReconnect
    BY <1>5, Reconnects DEF ProbeReconnect
  <1>6. CASE AcquireThrottled
    BY <1>6, <1>0 DEF AcquireThrottled
  <1>7. CASE AcquireFails
    BY <1>7, <1>0 DEF AcquireFails
  <1>8. CASE Acquire
    <2>1. Subscribe
      BY <1>8 DEF Acquire
    <2> QED
      BY <1>8, <1>0, <2>1, Subscribes DEF Acquire
  <1>9. CASE Reassert
    <2>1. /\ queued' \in BOOLEAN /\ lost' \in BOOLEAN /\ reassertAge' \in Ages
          /\ spent' \in [faults : 0 .. MaxFaults, drops : 0 .. MaxDrops]
      <3>1. CASE UNCHANGED spent
        BY <1>9, <3>1 DEF Reassert, Keepalive
      <3>2. CASE spent.drops < MaxDrops /\ spent' = [spent EXCEPT !.drops = @ + 1]
        <4>1. spent' \in [faults : 0 .. MaxFaults, drops : 0 .. MaxDrops]
          BY <3>2
        <4> QED
          BY <1>9, <4>1 DEF Reassert, Keepalive
      <3> QED
        BY <1>9, <3>1, <3>2 DEF Reassert, Keepalive
    <2> QED
      BY <1>9, <1>0, <2>1 DEF Reassert
  <1>10. CASE TakeMask
    BY <1>10, <1>0 DEF TakeMask
  <1>11. CASE ResyncLldp
    <2>1. CASE observer = "none"
      <3>1. UNCHANGED <<watch, known, failures, reconnectAge, queued, tried,
                        failedHere, rushed, mask, spent>>
        BY <1>11, <2>1 DEF ResyncLldp
      <3>2. /\ UNCHANGED <<observer, backend, attemptAge, probeAge,
                           reassertAge, uptime, sinceTick, seenAge, lost>>
            /\ pc' = "idle"
        BY <1>11 DEF ResyncLldp
      <3> QED
        BY <2>1, <3>1, <3>2
    <2>2. CASE observer # "none"
      <3>1. Throttled \/ ReconnectOk \/ ReconnectFails
        BY <1>11, <2>2 DEF ResyncLldp
      <3>2. mask' \in SUBSET {"netlink", "lldp"}
        BY <1>11 DEF ResyncLldp
      <3> QED
        BY <1>11, <2>2, <3>1, <3>2, Reconnects DEF ResyncLldp
    <2> QED
      BY <2>1, <2>2
  <1> QED
    BY <1>1, <1>2, <1>3, <1>4, <1>5, <1>6, <1>7, <1>8, <1>9, <1>10, <1>11
    DEF Tick

\* The invariant holds initially.
LEMMA InvInit == Init => Inv
  <1> SUFFICES ASSUME Init
               PROVE  Inv
    OBVIOUS
  <1> USE IntervalsPositive, AgeValues DEF Init
  <1>1. uptime \in Ages
    BY DEF Ages
  <1>2. /\ watch \in {"alive", "dead", "silent"} /\ known \in BOOLEAN
        /\ observer \in {"none", "live", "ended"}
    OBVIOUS
  <1>3. 0 \in 0 .. FailureLimit /\ 0 \in 0 .. MaxGap
    OBVIOUS
  <1>4. spent \in [faults : 0 .. MaxFaults, drops : 0 .. MaxDrops]
    OBVIOUS
  <1>5. TypeOK
    BY <1>1, <1>2, <1>3, <1>4 DEF TypeOK
  <1>6. ThrottleHonest /\ CountHonest /\ AttemptsSpaced /\ ProbeHasObserver
    BY DEF ThrottleHonest, CountHonest, AttemptsSpaced, ProbeHasObserver
  <1> QED
    BY <1>5, <1>6 DEF Inv

\* It is an invariant of the supervision.
LEMMA Invariance == Spec => []Inv
  <1>1. Inv /\ [Next]_vars => Inv'
    <2>1. CASE UNCHANGED vars
      BY <2>1 DEF vars, Inv, TypeOK, ThrottleHonest, CountHonest,
                  AttemptsSpaced, ProbeHasObserver, Ages
    <2> QED
      BY <2>1, TickStep, OutsideStep DEF Next
  <1> QED
    BY <1>1, InvInit, PTL DEF Spec

-----------------------------------------------------------------------------
(* The theorems *)

\* tick() keeps every age below its saturation and every count within its
\* limit.
THEOREM TypeCorrect == Spec => []TypeOK
  <1>1. Inv => TypeOK
    BY DEF Inv
  <1> QED
    BY <1>1, Invariance, PTL

\* Two refreshAll() calls on one observer are the retry interval apart, for
\* every interval, although escalation and acquisition clear the throttle.
THEOREM AttemptsAreSpaced == Spec => []AttemptsSpaced
  <1>1. Inv => AttemptsSpaced
    BY DEF Inv
  <1> QED
    BY <1>1, Invariance, PTL

\* superviseLldp replaces a running observer only after FailureLimit
\* consecutive failures of that very observer.
THEOREM EscalationsAreEarned == Spec => EscalationEarned
  <1> DEFINE Earned == observer = "live" /\ observer' = "none"
                         => failedHere' >= FailureLimit
  <1>1. ASSUME Inv, Escalate
        PROVE  failedHere' >= FailureLimit
    BY <1>1, IntervalsPositive
    DEF Inv, TypeOK, CountHonest, Escalate, OneMore, history
  <1>2. ASSUME Inv, Next, observer = "live", observer' = "none"
        PROVE  Escalate
    <2> USE <1>2
    <2>1. ~TimePasses /\ ~ConsumerApplies
      BY DEF TimePasses, ConsumerApplies
    <2>2. ~Environment
      BY DEF Environment, WatchDies, WatchReports, ObserverEnds,
             BackendFails, BackendReturns, QueueDrops
    <2>3. /\ ~NoObserver /\ ~RepairWatch /\ ~Probe /\ ~ProbeReconnect
          /\ ~AcquireThrottled /\ ~AcquireFails /\ ~Acquire /\ ~Reassert
          /\ ~TakeMask /\ ~ResyncLldp
      BY DEF NoObserver, RepairWatch, Probe, ProbeReconnect,
             AcquireThrottled, AcquireFails, Acquire, Reassert, TakeMask,
             ResyncLldp
    <2> QED
      BY <2>1, <2>2, <2>3 DEF Next, Tick
  <1>3. Inv /\ [Next]_vars => [Earned]_vars
    BY <1>1, <1>2
  <1> QED
    BY <1>3, Invariance, PTL DEF Spec, EscalationEarned

-----------------------------------------------------------------------------
(* Keepalives *)

\* The supervision thread is never so late that a keepalive due just after a
\* tick misses the ageout.
TicksOftenEnough == ReassertInterval + MaxGap <= Ageout + 1

\* Unless an observation of the cached neighbour is queued or was lost, the
\* model saw it no earlier than the last keepalive; and once the tick has
\* passed reassertLldpNeighbors, no earlier than an interval before the tick.
Alive ==
    /\ pc # "idle" => sinceTick = 0
    /\ observer = "live" /\ known /\ ~queued /\ ~lost =>
         /\ seenAge <= reassertAge
         /\ pc \in {"idle", "resync", "repair"}
              => seenAge + 1 <= ReassertInterval + sinceTick
         /\ seenAge <= Ageout

\* The inductive invariant of the keepalives.
AliveInv == Alive /\ (observer # "live" => ~known)

\* No step lets the neighbour age out.
LEMMA AliveStep ==
    ASSUME TicksOftenEnough, TypeOK, TypeOK', AliveInv, [Next]_vars
    PROVE  AliveInv'
  <1> USE DEF AliveInv, Alive, timers, history, BeginTick
  <1>0. /\ \A a \in Ages : a \in Nat
        /\ ReassertInterval \in Nat /\ MaxGap \in Nat /\ Ageout \in Nat
        /\ ReassertInterval + MaxGap <= Ageout + 1
        /\ ReassertInterval >= 1
    <2>1. ReassertInterval >= 1
      BY ReassertIsNat, IntervalsPositive DEF ReassertInterval, Clamp
    <2> QED
      BY <2>1, HorizonIsLargest, ReassertIsNat, IntervalsPositive
      DEF Ages, TicksOftenEnough
  <1>t. /\ seenAge \in Nat /\ reassertAge \in Nat /\ sinceTick \in 0 .. MaxGap
        /\ seenAge' \in Nat /\ reassertAge' \in Nat /\ sinceTick' \in 0 .. MaxGap
    BY <1>0 DEF TypeOK
  <1>b. /\ queued \in BOOLEAN /\ known \in BOOLEAN /\ lost \in BOOLEAN
        /\ queued' \in BOOLEAN /\ known' \in BOOLEAN /\ lost' \in BOOLEAN
    BY DEF TypeOK
  <1>1. CASE TimePasses
    <2>1. seenAge <= reassertAge => seenAge' <= reassertAge'
      BY <1>1, OlderAges DEF TimePasses, TypeOK
    <2>2. seenAge' <= seenAge + 1
      BY <1>1, <1>0, HorizonIsLargest DEF TimePasses, Older, TypeOK, Ages
    <2> QED
      BY <1>0, <1>t, <1>1, <2>1, <2>2 DEF TimePasses
  <1>2. CASE ConsumerApplies
    BY <1>0, <1>t, <1>2 DEF ConsumerApplies
  <1>3. CASE WatchDies \/ ObserverEnds \/ BackendFails
    <2>1. Fault
      BY <1>3 DEF WatchDies, ObserverEnds, BackendFails
    <2>2. \/ UNCHANGED <<observer, known>>
          \/ observer' = "ended" /\ known' = FALSE
      BY <1>3 DEF WatchDies, ObserverEnds, BackendFails
    <2> QED
      BY <2>1, <2>2 DEF Fault
  <1>4. CASE BackendReturns
    BY <1>4 DEF BackendReturns
  <1>17. CASE WatchReports
    BY <1>17 DEF WatchReports
  <1>5. ASSUME NEW source \in {"netlink", "lldp"}, QueueDrops(source)
        PROVE  AliveInv'
    BY <1>5, <1>b DEF QueueDrops
  <1>6. CASE NoObserver
    BY <1>6 DEF NoObserver
  <1>r. ASSUME Throttled \/ ReconnectOk \/ ReconnectFails
        PROVE  known' /\ ~queued' => known /\ ~queued
    BY <1>r, <1>b, Subscribes DEF Throttled, ReconnectOk, ReconnectFails
  <1>o. ASSUME ReconnectOk
        PROVE  observer = "live"
    BY <1>o DEF ReconnectOk
  <1>k. ASSUME Throttled \/ ReconnectFails
        PROVE  known' = known
    BY <1>k DEF Throttled, ReconnectFails
  <1>7. CASE RepairWatch
    <2>1. /\ pc = "idle" /\ pc' = "reassert" /\ sinceTick' = 0
          /\ observer = "live"
          /\ Throttled \/ ReconnectOk \/ ReconnectFails
          /\ UNCHANGED <<observer, lost, seenAge, reassertAge>>
      BY <1>7 DEF RepairWatch
    <2> QED
      BY <1>t, <1>r, <2>1
  <1>8. CASE Escalate
    BY <1>8 DEF Escalate
  <1>9. CASE Probe
    BY <1>9 DEF Probe
  <1>10. CASE ProbeReconnect
    <2>1. /\ pc = "reconnect" /\ pc' = "reassert"
          /\ Throttled \/ ReconnectOk \/ ReconnectFails
          /\ UNCHANGED <<observer, lost, seenAge, reassertAge, sinceTick>>
      BY <1>10 DEF ProbeReconnect
    <2> QED
      BY <1>t, <1>r, <1>o, <1>k, <2>1
  <1>11. CASE AcquireThrottled \/ AcquireFails
    BY <1>11 DEF AcquireThrottled, AcquireFails
  <1>12. CASE Acquire
    <2>1. observer' = "live" /\ Subscribe /\ pc = "acquire" /\ UNCHANGED sinceTick
      BY <1>12 DEF Acquire
    <2>2. known' => queued'
      BY <2>1, <1>b, Subscribes
    <2> QED
      BY <2>1, <2>2
  <1>13. CASE Reassert
    <2>1. /\ pc = "reassert" /\ pc' = "resync"
          /\ UNCHANGED <<observer, known, sinceTick, seenAge>>
      BY <1>13 DEF Reassert
    <2>2. CASE observer = "live" /\ reassertAge >= ReassertInterval
      <3>1. known => queued' \/ lost'
        BY <1>13, <2>2 DEF Reassert, Keepalive
      <3> QED
        BY <2>1, <3>1
    <2>3. CASE ~(observer = "live" /\ reassertAge >= ReassertInterval)
      <3>1. UNCHANGED <<reassertAge, queued, lost>>
        BY <1>13, <2>3 DEF Reassert
      <3> QED
        BY <1>0, <1>t, <2>1, <2>3, <3>1
    <2> QED
      BY <2>2, <2>3
  <1>14. CASE TakeMask
    BY <1>14, <1>b DEF TakeMask
  <1>15. CASE ResyncLldp
    <2>1. /\ pc = "repair" /\ pc' = "idle"
          /\ UNCHANGED <<observer, lost, seenAge, reassertAge, sinceTick>>
      BY <1>15 DEF ResyncLldp
    <2>2. \/ UNCHANGED <<known, queued>>
          \/ Throttled \/ ReconnectOk \/ ReconnectFails
      BY <1>15 DEF ResyncLldp
    <2> QED
      BY <1>t, <1>r, <1>o, <1>k, <2>1, <2>2
  <1>16. CASE UNCHANGED vars
    BY <1>16 DEF vars
  <1> QED
    BY <1>1, <1>2, <1>3, <1>4, <1>5, <1>6, <1>7, <1>8, <1>9, <1>10, <1>11,
       <1>12, <1>13, <1>14, <1>15, <1>16, <1>17
    DEF Next, Tick, Environment

\* A fresh start has a neighbour just seen.
LEMMA AliveInit == Init => AliveInv
  <1> SUFFICES ASSUME Init
               PROVE  AliveInv
    OBVIOUS
  <1>1. ReassertInterval \in Nat /\ ReassertInterval >= 1
    BY ReassertIsNat, IntervalsPositive DEF ReassertInterval, Clamp
  <1>2. reassertAge >= 0
    BY HorizonIsLargest DEF Init
  <1>3. Alive
    BY <1>1, <1>2, IntervalsPositive DEF Init, Alive
  <1>4. observer # "live" => ~known
    BY DEF Init
  <1> QED
    BY <1>3, <1>4 DEF AliveInv

\* While the observer lives, a cached neighbour that stays is aged out only if
\* an observation of it was lost since it was last seen, for every ageout and
\* every clamp of the keepalive interval, as long as the supervision thread
\* ticks often enough for it.
THEOREM NeighboursAreKeptAlive == TicksOftenEnough => (Spec => []KeptAlive)
  <1> SUFFICES ASSUME TicksOftenEnough
               PROVE  Spec => []KeptAlive
    OBVIOUS
  <1>1. TypeOK /\ TypeOK' /\ AliveInv /\ [Next]_vars => AliveInv'
    BY AliveStep
  <1>2. AliveInv => KeptAlive
    BY DEF Alive, AliveInv, KeptAlive
  <1> QED
    BY <1>1, <1>2, AliveInit, TypeCorrect, PTL DEF Spec
=============================================================================
