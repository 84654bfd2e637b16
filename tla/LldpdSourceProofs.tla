-------------------------- MODULE LldpdSourceProofs --------------------------
(***************************************************************************)
(* Proofs about LldpdSource for every set of interfaces and neighbours and *)
(* every bound.                                                            *)
(***************************************************************************)
EXTENDS LldpdSource, TLAPS

-----------------------------------------------------------------------------
(* The inductive invariant, in parts *)

\* Where the threads are, and what that says of the epoch, the gate, the
\* supervisor's lock and its stopped_ flag.
Threading ==
    /\ pc \in [{"owner", "sup", "net", "stop"} -> Places]
    /\ pc["owner"] \in {"idle", "build", "attach", "list", "walk", "complete",
                        "abort", "unwind"}
    /\ pc["sup"] \in {"idle", "built", "locked", "swapped", "list", "walk",
                      "reconcile", "removing", "reassert"}
    /\ pc["net"] \in {"idle", "removing"}
    /\ pc["stop"] \in {"idle", "teardown", "drain"}
    /\ epoch \in {"stopped", "starting", "running", "stopping"}
    /\ stopped \in BOOLEAN /\ lock \in BOOLEAN
    /\ gate \in BOOLEAN /\ incomplete \in BOOLEAN
    /\ epoch = "starting" <=> pc["owner"] # "idle"
    /\ epoch = "stopping" <=> pc["stop"] # "idle"
    /\ pc["owner"] # "idle" => pc["sup"] = "idle"
    /\ gate => \/ epoch = "running"
               \/ pc["owner"] \in {"build", "attach", "list", "walk",
                                   "complete"}
    /\ lock <=> pc["sup"] \in {"locked", "swapped"}
    /\ ~stopped => \/ incomplete
                   \/ epoch = "running" \/ pc["stop"] = "teardown"
                   \/ pc["owner"] \in {"list", "walk", "complete"}
    /\ lock => incomplete \/ epoch = "running" \/ pc["stop"] = "teardown"
    /\ incomplete => epoch \in {"stopped", "stopping"}

\* lldpd sends changes only, never keepalives.
Sends == [key : Keys, kind : {"Present", "Removed"}]
SentWatches == [state : {"none", "live", "dead"}, armed : BOOLEAN,
                inbox : Seq(Sends)]

\* The daemon, the watches, the caches and the batches.
Data ==
    /\ neighbors \subseteq Keys
    /\ watch \in SentWatches /\ fresh \in [Builders -> SentWatches]
    /\ cache \subseteq Keys /\ oldCache \subseteq Keys /\ told \subseteq Keys
    /\ flushed \subseteq Keys
    /\ batch \in [Threads -> SUBSET Keys]
    /\ hand \in [Threads -> Events \cup {Idle}]

\* The flags nothing else is tied to.
Flags ==
    /\ cancelled \in BOOLEAN /\ unlisted \in BOOLEAN /\ undrained \in BOOLEAN
    /\ moved \in BOOLEAN

\* Whoever holds an observation is at a step that delivers, under a lease.
Leasing ==
    /\ leases \subseteq Threads
    /\ \A t \in Threads : hand[t] # Idle => t \in leases
    /\ \A t \in {"sup", "net"} :
         pc[t] \in {"removing", "reassert"} => t \in leases
    /\ hand["owner"] # Idle => pc["owner"] = "walk"
    /\ hand["sup"] # Idle => pc["sup"] \in {"walk", "removing", "reassert"}
    /\ hand["net"] # Idle => pc["net"] = "removing"
    /\ epoch = "stopped" /\ ~undrained => leases = {}

\* An installed watch that lives has its exit handler and has not been
\* reported dead; none is installed around an epoch, or in a swap.
Watching ==
    /\ watch.state = "live" => watch.armed /\ ~died
    /\ died \in BOOLEAN
    /\ pc["sup"] = "swapped" => watch.state = "none"
    /\ ~incomplete =>
         /\ pc["stop"] = "drain" => watch.state = "none"
         /\ epoch = "stopped" => watch.state = "none"
         /\ pc["owner"] \in {"build", "attach", "abort", "unwind"}
              => watch.state = "none"

\* Nothing is cached between two epochs, and before the first watch of one.
Emptied ==
    ~incomplete /\ ~undrained =>
      (epoch = "stopped" \/ pc["owner"] \in {"build", "attach", "abort"}
         => cache = {})

\* Only reassertAll() has keepalives in hand, and none once one was late.
Guarded ==
    /\ late \in {0, 1}
    /\ late = 1 => moved
    /\ \A t \in Threads :
         hand[t] # Idle /\ hand[t].kind = "Keepalive"
           => t = "sup" /\ pc["sup"] = "reassert" /\ late = 0

-----------------------------------------------------------------------------
(* Each part is preserved *)

\* start(), stop() and refreshAll() hand epoch, gate and lock on in order.
LEMMA ThreadingStep == Threading /\ [Next]_vars => Threading'
  <1> SUFFICES ASSUME Threading, [Next]_vars
               PROVE  Threading'
    OBVIOUS
  <1> USE DEF Threading, Places, Builders, watchVars, epochVars, cacheVars,
              threadVars, ghostVars, Goes
  <1>1. ASSUME NEW k \in Keys, DaemonChanges(k)
        PROVE  Threading'
    BY <1>1 DEF DaemonChanges, Sent, Spend
  <1>2. ASSUME NEW t \in Threads, Deliver(t)
        PROVE  Threading'
    BY <1>2 DEF Deliver, Walking
  <1>3. CASE WatchStep
    <2>1. CASE WatchTakes
      BY <2>1 DEF WatchTakes, Apply
    <2>2. CASE WatchDies
      BY <2>2 DEF WatchDies, Dead, Spend
    <2>3. ASSUME NEW t \in Builders,
                 SilentDiscards(t)
          PROVE  Threading'
      BY <2>3 DEF SilentDiscards
    <2>4. ASSUME NEW t \in Builders,
                 SilentDies(t)
          PROVE  Threading'
      BY <2>4 DEF SilentDies, Dead, Spend
    <2> QED
      BY <1>3, <2>1, <2>2, <2>3, <2>4
      DEF WatchStep
  <1>4. CASE EnumStep
    <2>1. ASSUME NEW t \in Builders,
                 EnumLists(t)
          PROVE  Threading'
      BY <2>1 DEF EnumLists
    <2>2. ASSUME NEW t \in Builders,
                 EnumFails(t)
          PROVE  Threading'
      BY <2>2 DEF EnumFails, Spend
    <2>3. ASSUME NEW t \in Builders,
                 EnumAborts(t)
          PROVE  Threading'
      BY <2>3 DEF EnumAborts, Walking
    <2>4. ASSUME NEW t \in Builders,
                 EnumDone(t)
          PROVE  Threading'
      BY <2>4 DEF EnumDone, Walking
    <2>5. ASSUME NEW t \in Builders, NEW k \in Keys,
                 EnumTakes(t, k)
          PROVE  Threading'
      BY <2>5 DEF EnumTakes, Walking, Apply
    <2> QED
      BY <1>4, <2>1, <2>2, <2>3, <2>4, <2>5
      DEF EnumStep
  <1>5. CASE StartStep
    <2>1. CASE StartBegins
      BY <2>1 DEF StartBegins, Supervising, Spend
    <2>2. CASE StartBuilds
      BY <2>2 DEF StartBuilds, Silent
    <2>3. CASE StartBuildFails
      BY <2>3 DEF StartBuildFails, Spend
    <2>4. CASE StartAborts
      BY <2>4 DEF StartAborts
    <2>5. CASE StartAttaches
      BY <2>5 DEF StartAttaches, Armed
    <2>6. CASE StartCompletes
      BY <2>6 DEF StartCompletes
    <2>7. CASE StartCancelled
      BY <2>7 DEF StartCancelled
    <2>8. CASE StartUnwinds
      BY <2>8 DEF StartUnwinds
    <2> QED
      BY <1>5, <2>1, <2>2, <2>3, <2>4, <2>5, <2>6, <2>7, <2>8
      DEF StartStep
  <1>6. CASE StopStep
    <2>1. CASE StopBegins
      BY <2>1 DEF StopBegins
    <2>2. CASE StopCancels
      BY <2>2 DEF StopCancels
    <2>3. CASE StopTearsDown
      BY <2>3 DEF StopTearsDown
    <2>4. CASE StopTimesOut
      BY <2>4 DEF StopTimesOut, Spend
    <2>5. CASE StopDrains
      BY <2>5 DEF StopDrains
    <2>6. CASE StopDrainTimesOut
      BY <2>6 DEF StopDrainTimesOut, Spend
    <2> QED
      BY <1>6, <2>1, <2>2, <2>3, <2>4, <2>5, <2>6
      DEF StopStep
  <1>7. CASE RefreshStep
    <2>1. CASE RefreshBuilds
      BY <2>1 DEF RefreshBuilds, Supervising, Spend, Silent
    <2>2. CASE RefreshTooLate
      BY <2>2 DEF RefreshTooLate
    <2>3. CASE RefreshLocks
      BY <2>3 DEF RefreshLocks
    <2>4. CASE RefreshSwaps
      BY <2>4 DEF RefreshSwaps
    <2>5. CASE RefreshAttaches
      BY <2>5 DEF RefreshAttaches, Armed
    <2>6. CASE ReconcileBegins
      BY <2>6 DEF ReconcileBegins
    <2>7. CASE ReconcileRefused
      BY <2>7 DEF ReconcileRefused
    <2> QED
      BY <1>7, <2>1, <2>2, <2>3, <2>4, <2>5, <2>6, <2>7
      DEF RefreshStep
  <1>8. CASE BatchStep
    <2>1. ASSUME NEW i \in Ifaces,
                 FlushInterface(i)
          PROVE  Threading'
      BY <2>1 DEF FlushInterface, Spend
    <2>2. ASSUME NEW t \in {"sup", "net"},
                 BatchDone(t)
          PROVE  Threading'
      BY <2>2 DEF BatchDone
    <2>3. ASSUME NEW t \in {"sup", "net"}, NEW k \in Keys,
                 RemoveTakes(t, k)
          PROVE  Threading'
      BY <2>3 DEF RemoveTakes
    <2>4. CASE ReassertBegins
      BY <2>4 DEF ReassertBegins, Supervising, Spend
    <2>5. CASE ReassertDrops
      BY <2>5 DEF ReassertDrops
    <2>6. ASSUME NEW k \in Keys,
                 ReassertTakes(k)
          PROVE  Threading'
      BY <2>6 DEF ReassertTakes
    <2> QED
      BY <1>8, <2>1, <2>2, <2>3, <2>4, <2>5, <2>6
      DEF BatchStep
  <1>9. CASE UNCHANGED vars
    BY <1>9 DEF vars
  <1> QED
    BY <1>1, <1>2, <1>3, <1>4, <1>5, <1>6, <1>7, <1>8, <1>9 DEF Next

\* No step leaves a flag without a truth value.
LEMMA FlagsStep == Flags /\ [Next]_vars => Flags'
  <1> SUFFICES ASSUME Flags, [Next]_vars
               PROVE  Flags'
    OBVIOUS
  <1> USE DEF Flags, watchVars, epochVars, cacheVars, threadVars, ghostVars,
              Goes
  <1>1. ASSUME NEW k \in Keys, DaemonChanges(k)
        PROVE  Flags'
    BY <1>1 DEF DaemonChanges, Sent, Spend
  <1>2. ASSUME NEW t \in Threads, Deliver(t)
        PROVE  Flags'
    BY <1>2 DEF Deliver, Walking
  <1>3. CASE WatchStep
    <2>1. CASE WatchTakes
      BY <2>1 DEF WatchTakes, Apply
    <2>2. CASE WatchDies
      BY <2>2 DEF WatchDies, Dead, Spend
    <2>3. ASSUME NEW t \in Builders,
                 SilentDiscards(t)
          PROVE  Flags'
      BY <2>3 DEF SilentDiscards
    <2>4. ASSUME NEW t \in Builders,
                 SilentDies(t)
          PROVE  Flags'
      BY <2>4 DEF SilentDies, Dead, Spend
    <2> QED
      BY <1>3, <2>1, <2>2, <2>3, <2>4
      DEF WatchStep
  <1>4. CASE EnumStep
    <2>1. ASSUME NEW t \in Builders,
                 EnumLists(t)
          PROVE  Flags'
      BY <2>1 DEF EnumLists
    <2>2. ASSUME NEW t \in Builders,
                 EnumFails(t)
          PROVE  Flags'
      BY <2>2 DEF EnumFails, Spend
    <2>3. ASSUME NEW t \in Builders,
                 EnumAborts(t)
          PROVE  Flags'
      BY <2>3 DEF EnumAborts, Walking
    <2>4. ASSUME NEW t \in Builders,
                 EnumDone(t)
          PROVE  Flags'
      BY <2>4 DEF EnumDone, Walking
    <2>5. ASSUME NEW t \in Builders, NEW k \in Keys,
                 EnumTakes(t, k)
          PROVE  Flags'
      BY <2>5 DEF EnumTakes, Walking, Apply
    <2> QED
      BY <1>4, <2>1, <2>2, <2>3, <2>4, <2>5
      DEF EnumStep
  <1>5. CASE StartStep
    <2>1. CASE StartBegins
      BY <2>1 DEF StartBegins, Supervising, Spend
    <2>2. CASE StartBuilds
      BY <2>2 DEF StartBuilds, Silent
    <2>3. CASE StartBuildFails
      BY <2>3 DEF StartBuildFails, Spend
    <2>4. CASE StartAborts
      BY <2>4 DEF StartAborts
    <2>5. CASE StartAttaches
      BY <2>5 DEF StartAttaches, Armed
    <2>6. CASE StartCompletes
      BY <2>6 DEF StartCompletes
    <2>7. CASE StartCancelled
      BY <2>7 DEF StartCancelled
    <2>8. CASE StartUnwinds
      BY <2>8 DEF StartUnwinds
    <2> QED
      BY <1>5, <2>1, <2>2, <2>3, <2>4, <2>5, <2>6, <2>7, <2>8
      DEF StartStep
  <1>6. CASE StopStep
    <2>1. CASE StopBegins
      BY <2>1 DEF StopBegins
    <2>2. CASE StopCancels
      BY <2>2 DEF StopCancels
    <2>3. CASE StopTearsDown
      BY <2>3 DEF StopTearsDown
    <2>4. CASE StopTimesOut
      BY <2>4 DEF StopTimesOut, Spend
    <2>5. CASE StopDrains
      BY <2>5 DEF StopDrains
    <2>6. CASE StopDrainTimesOut
      BY <2>6 DEF StopDrainTimesOut, Spend
    <2> QED
      BY <1>6, <2>1, <2>2, <2>3, <2>4, <2>5, <2>6
      DEF StopStep
  <1>7. CASE RefreshStep
    <2>1. CASE RefreshBuilds
      BY <2>1 DEF RefreshBuilds, Supervising, Spend, Silent
    <2>2. CASE RefreshTooLate
      BY <2>2 DEF RefreshTooLate
    <2>3. CASE RefreshLocks
      BY <2>3 DEF RefreshLocks
    <2>4. CASE RefreshSwaps
      BY <2>4 DEF RefreshSwaps
    <2>5. CASE RefreshAttaches
      BY <2>5 DEF RefreshAttaches, Armed
    <2>6. CASE ReconcileBegins
      BY <2>6 DEF ReconcileBegins
    <2>7. CASE ReconcileRefused
      BY <2>7 DEF ReconcileRefused
    <2> QED
      BY <1>7, <2>1, <2>2, <2>3, <2>4, <2>5, <2>6, <2>7
      DEF RefreshStep
  <1>8. CASE BatchStep
    <2>1. ASSUME NEW i \in Ifaces,
                 FlushInterface(i)
          PROVE  Flags'
      BY <2>1 DEF FlushInterface, Spend
    <2>2. ASSUME NEW t \in {"sup", "net"},
                 BatchDone(t)
          PROVE  Flags'
      BY <2>2 DEF BatchDone
    <2>3. ASSUME NEW t \in {"sup", "net"}, NEW k \in Keys,
                 RemoveTakes(t, k)
          PROVE  Flags'
      BY <2>3 DEF RemoveTakes
    <2>4. CASE ReassertBegins
      BY <2>4 DEF ReassertBegins, Supervising, Spend
    <2>5. CASE ReassertDrops
      BY <2>5 DEF ReassertDrops
    <2>6. ASSUME NEW k \in Keys,
                 ReassertTakes(k)
          PROVE  Flags'
      BY <2>6 DEF ReassertTakes
    <2> QED
      BY <1>8, <2>1, <2>2, <2>3, <2>4, <2>5, <2>6
      DEF BatchStep
  <1>9. CASE UNCHANGED vars
    BY <1>9 DEF vars
  <1> QED
    BY <1>1, <1>2, <1>3, <1>4, <1>5, <1>6, <1>7, <1>8, <1>9 DEF Next

\* A thread takes an observation only under its lease, and gives the lease
\* back only with empty hands; a closed gate gives none out.
LEMMA LeasingStep == Threading /\ Data /\ Leasing /\ [Next]_vars => Leasing'
  <1> SUFFICES ASSUME Threading, Data, Leasing, [Next]_vars
               PROVE  Leasing'
    OBVIOUS
  <1> USE DEF Threading, Data, Leasing, Builders, Threads, watchVars,
              epochVars, cacheVars, threadVars, ghostVars, Goes
  <1>1. ASSUME NEW k \in Keys, DaemonChanges(k)
        PROVE  Leasing'
    BY <1>1 DEF DaemonChanges, Sent, Spend
  <1>2. ASSUME NEW t \in Threads, Deliver(t)
        PROVE  Leasing'
    BY <1>2 DEF Deliver, Walking
  <1>3. CASE WatchStep
    <2>1. CASE WatchTakes
      BY <2>1 DEF WatchTakes, Apply
    <2>2. CASE WatchDies
      BY <2>2 DEF WatchDies, Dead, Spend
    <2>3. ASSUME NEW t \in Builders,
                 SilentDiscards(t)
          PROVE  Leasing'
      BY <2>3 DEF SilentDiscards
    <2>4. ASSUME NEW t \in Builders,
                 SilentDies(t)
          PROVE  Leasing'
      BY <2>4 DEF SilentDies, Dead, Spend
    <2> QED
      BY <1>3, <2>1, <2>2, <2>3, <2>4
      DEF WatchStep
  <1>4. CASE EnumStep
    <2>1. ASSUME NEW t \in Builders,
                 EnumLists(t)
          PROVE  Leasing'
      BY <2>1 DEF EnumLists
    <2>2. ASSUME NEW t \in Builders,
                 EnumFails(t)
          PROVE  Leasing'
      BY <2>2 DEF EnumFails, Spend
    <2>3. ASSUME NEW t \in Builders,
                 EnumAborts(t)
          PROVE  Leasing'
      BY <2>3 DEF EnumAborts, Walking
    <2>4. ASSUME NEW t \in Builders,
                 EnumDone(t)
          PROVE  Leasing'
      BY <2>4 DEF EnumDone, Walking
    <2>5. ASSUME NEW t \in Builders, NEW k \in Keys,
                 EnumTakes(t, k)
          PROVE  Leasing'
      BY <2>5 DEF EnumTakes, Walking, Apply
    <2> QED
      BY <1>4, <2>1, <2>2, <2>3, <2>4, <2>5
      DEF EnumStep
  <1>5. CASE StartStep
    <2>1. CASE StartBegins
      BY <2>1 DEF StartBegins, Supervising, Spend
    <2>2. CASE StartBuilds
      BY <2>2 DEF StartBuilds, Silent
    <2>3. CASE StartBuildFails
      BY <2>3 DEF StartBuildFails, Spend
    <2>4. CASE StartAborts
      BY <2>4 DEF StartAborts
    <2>5. CASE StartAttaches
      BY <2>5 DEF StartAttaches, Armed
    <2>6. CASE StartCompletes
      BY <2>6 DEF StartCompletes
    <2>7. CASE StartCancelled
      BY <2>7 DEF StartCancelled
    <2>8. CASE StartUnwinds
      BY <2>8 DEF StartUnwinds
    <2> QED
      BY <1>5, <2>1, <2>2, <2>3, <2>4, <2>5, <2>6, <2>7, <2>8
      DEF StartStep
  <1>6. CASE StopStep
    <2>1. CASE StopBegins
      BY <2>1 DEF StopBegins
    <2>2. CASE StopCancels
      BY <2>2 DEF StopCancels
    <2>3. CASE StopTearsDown
      BY <2>3 DEF StopTearsDown
    <2>4. CASE StopTimesOut
      BY <2>4 DEF StopTimesOut, Spend
    <2>5. CASE StopDrains
      BY <2>5 DEF StopDrains
    <2>6. CASE StopDrainTimesOut
      BY <2>6 DEF StopDrainTimesOut, Spend
    <2> QED
      BY <1>6, <2>1, <2>2, <2>3, <2>4, <2>5, <2>6
      DEF StopStep
  <1>7. CASE RefreshStep
    <2>1. CASE RefreshBuilds
      BY <2>1 DEF RefreshBuilds, Supervising, Spend, Silent
    <2>2. CASE RefreshTooLate
      BY <2>2 DEF RefreshTooLate
    <2>3. CASE RefreshLocks
      BY <2>3 DEF RefreshLocks
    <2>4. CASE RefreshSwaps
      BY <2>4 DEF RefreshSwaps
    <2>5. CASE RefreshAttaches
      BY <2>5 DEF RefreshAttaches, Armed
    <2>6. CASE ReconcileBegins
      BY <2>6 DEF ReconcileBegins
    <2>7. CASE ReconcileRefused
      BY <2>7 DEF ReconcileRefused
    <2> QED
      BY <1>7, <2>1, <2>2, <2>3, <2>4, <2>5, <2>6, <2>7
      DEF RefreshStep
  <1>8. CASE BatchStep
    <2>1. ASSUME NEW i \in Ifaces,
                 FlushInterface(i)
          PROVE  Leasing'
      BY <2>1 DEF FlushInterface, Spend
    <2>2. ASSUME NEW t \in {"sup", "net"},
                 BatchDone(t)
          PROVE  Leasing'
      BY <2>2 DEF BatchDone
    <2>3. ASSUME NEW t \in {"sup", "net"}, NEW k \in Keys,
                 RemoveTakes(t, k)
          PROVE  Leasing'
      BY <2>3 DEF RemoveTakes
    <2>4. CASE ReassertBegins
      BY <2>4 DEF ReassertBegins, Supervising, Spend
    <2>5. CASE ReassertDrops
      BY <2>5 DEF ReassertDrops
    <2>6. ASSUME NEW k \in Keys,
                 ReassertTakes(k)
          PROVE  Leasing'
      BY <2>6 DEF ReassertTakes
    <2> QED
      BY <1>8, <2>1, <2>2, <2>3, <2>4, <2>5, <2>6
      DEF BatchStep
  <1>9. CASE UNCHANGED vars
    BY <1>9 DEF vars
  <1> QED
    BY <1>1, <1>2, <1>3, <1>4, <1>5, <1>6, <1>7, <1>8, <1>9 DEF Next

\* What the source does to a watch leaves a watch.
LEMMA WatchKinds ==
    /\ NoWatch \in SentWatches /\ Silent \in SentWatches
    /\ \A x \in SentWatches :
         /\ Armed(x) \in SentWatches /\ Dead(x) \in SentWatches
         /\ \A e \in Sends : Sent(x, e) \in SentWatches
         /\ x.inbox # <<>> =>
              /\ [x EXCEPT !.inbox = Tail(x.inbox)] \in SentWatches
              /\ Head(x.inbox) \in Sends
  <1>1. NoWatch \in SentWatches /\ Silent \in SentWatches
    <2>1. <<>> \in Seq(Sends)
      OBVIOUS
    <2> QED
      BY <2>1 DEF NoWatch, Silent, SentWatches
  <1> SUFFICES ASSUME NEW x \in SentWatches
               PROVE  /\ Armed(x) \in SentWatches /\ Dead(x) \in SentWatches
                      /\ \A e \in Sends : Sent(x, e) \in SentWatches
                      /\ x.inbox # <<>> =>
                           /\ [x EXCEPT !.inbox = Tail(x.inbox)] \in SentWatches
                           /\ Head(x.inbox) \in Sends
    BY <1>1
  <1>2. Armed(x) \in SentWatches /\ Dead(x) \in SentWatches
    <2>1. <<>> \in Seq(Sends) /\ (x.state = "live") \in BOOLEAN
      OBVIOUS
    <2>2. Armed(x) \in SentWatches
      BY <2>1 DEF Armed, SentWatches
    <2>3. Dead(x) \in SentWatches
      BY <2>1 DEF Dead, SentWatches
    <2> QED
      BY <2>2, <2>3
  <1>3. ASSUME NEW e \in Sends
        PROVE  Sent(x, e) \in SentWatches
    <2>1. x.inbox \in Seq(Sends)
      BY DEF SentWatches
    <2>2. Append(x.inbox, e) \in Seq(Sends)
      BY <2>1
    <2> QED
      BY <2>2 DEF Sent, SentWatches
  <1>4. ASSUME x.inbox # <<>>
        PROVE  /\ [x EXCEPT !.inbox = Tail(x.inbox)] \in SentWatches
               /\ Head(x.inbox) \in Sends
    <2>1. x.inbox \in Seq(Sends)
      BY DEF SentWatches
    <2>2. Tail(x.inbox) \in Seq(Sends) /\ Head(x.inbox) \in Sends
      BY <2>1, <1>4
    <2> QED
      BY <2>2 DEF SentWatches
  <1> QED
    BY <1>2, <1>3, <1>4

\* Observations concern neighbours.
LEMMA EventKinds ==
    /\ Sends \subseteq Events
    /\ \A e \in Events : e.key \in Keys
    /\ \A k \in Keys : /\ [key |-> k, kind |-> "Present"] \in Sends
                       /\ [key |-> k, kind |-> "Removed"] \in Sends
                       /\ [key |-> k, kind |-> "Keepalive"] \in Events
  BY DEF Sends, Events

\* Every value stays in its domain.
LEMMA DataStep == Data /\ [Next]_vars => Data'
  <1> SUFFICES ASSUME Data, [Next]_vars
               PROVE  Data'
    OBVIOUS
  <1> USE DEF Data, Builders, Threads, watchVars, epochVars, cacheVars,
              threadVars, ghostVars, Goes
  <1>1. ASSUME NEW k \in Keys, DaemonChanges(k)
        PROVE  Data'
    <2> DEFINE e == [key |-> k,
                      kind |-> IF k \in neighbors THEN "Removed" ELSE "Present"]
    <2>1. e \in Sends
      BY <1>1, EventKinds
    <2>2. watch' = Sent(watch, e)
          /\ fresh' = [t \in Builders |-> Sent(fresh[t], e)]
      BY <1>1 DEF DaemonChanges
    <2>3. watch' \in SentWatches /\ fresh' \in [Builders -> SentWatches]
      BY <2>1, <2>2, WatchKinds
    <2> QED
      BY <1>1, <2>3 DEF DaemonChanges, Spend
  <1>2. ASSUME NEW t \in Threads, Deliver(t)
        PROVE  Data'
    BY <1>2, WatchKinds, EventKinds DEF Deliver, Walking
  <1>3. CASE WatchStep
    <2>1. CASE WatchTakes
      <3>1. watch.inbox # <<>> /\ watch \in SentWatches
        BY <2>1 DEF WatchTakes
      <3>2. watch' \in SentWatches /\ Head(watch.inbox) \in Events
        BY <2>1, <3>1, WatchKinds, EventKinds DEF WatchTakes
      <3>3. Head(watch.inbox).key \in Keys
        BY <3>2, EventKinds
      <3>4. cache' \subseteq Keys /\ hand' \in [Threads -> Events \cup {Idle}]
        BY <2>1, <3>2, <3>3 DEF WatchTakes, Apply
      <3> QED
        BY <2>1, <3>2, <3>4 DEF WatchTakes
    <2>2. CASE WatchDies
      BY <2>2, WatchKinds, EventKinds DEF WatchDies, Spend
    <2>3. ASSUME NEW t \in Builders,
                 SilentDiscards(t)
          PROVE  Data'
      <3>1. /\ fresh[t].inbox # <<>> /\ fresh[t] \in SentWatches
            /\ [fresh[t] EXCEPT !.inbox = Tail(fresh[t].inbox)] \in SentWatches
        BY <2>3, WatchKinds DEF SilentDiscards
      <3>2. fresh' = [fresh EXCEPT ![t] =
                        [fresh[t] EXCEPT !.inbox = Tail(fresh[t].inbox)]]
        BY <2>3 DEF SilentDiscards
      <3>3. fresh' \in [Builders -> SentWatches]
        BY <3>1, <3>2
      <3> QED
        BY <2>3, <3>3 DEF SilentDiscards
    <2>4. ASSUME NEW t \in Builders,
                 SilentDies(t)
          PROVE  Data'
      BY <2>4, WatchKinds, EventKinds DEF SilentDies, Spend
    <2> QED
      BY <1>3, <2>1, <2>2, <2>3, <2>4
      DEF WatchStep
  <1>4. CASE EnumStep
    <2>1. ASSUME NEW t \in Builders,
                 EnumLists(t)
          PROVE  Data'
      BY <2>1 DEF EnumLists
    <2>2. ASSUME NEW t \in Builders,
                 EnumFails(t)
          PROVE  Data'
      BY <2>2 DEF EnumFails, Spend
    <2>3. ASSUME NEW t \in Builders,
                 EnumAborts(t)
          PROVE  Data'
      BY <2>3 DEF EnumAborts, Walking
    <2>4. ASSUME NEW t \in Builders,
                 EnumDone(t)
          PROVE  Data'
      BY <2>4 DEF EnumDone, Walking
    <2>5. ASSUME NEW t \in Builders, NEW k \in Keys,
                 EnumTakes(t, k)
          PROVE  Data'
      BY <2>5, WatchKinds, EventKinds DEF EnumTakes, Walking, Apply
    <2> QED
      BY <1>4, <2>1, <2>2, <2>3, <2>4, <2>5
      DEF EnumStep
  <1>5. CASE StartStep
    <2>1. CASE StartBegins
      BY <2>1 DEF StartBegins, Supervising, Spend
    <2>2. CASE StartBuilds
      BY <2>2, WatchKinds, EventKinds DEF StartBuilds
    <2>3. CASE StartBuildFails
      BY <2>3 DEF StartBuildFails, Spend
    <2>4. CASE StartAborts
      BY <2>4 DEF StartAborts
    <2>5. CASE StartAttaches
      BY <2>5, WatchKinds, EventKinds DEF StartAttaches
    <2>6. CASE StartCompletes
      BY <2>6 DEF StartCompletes
    <2>7. CASE StartCancelled
      BY <2>7, WatchKinds, EventKinds DEF StartCancelled
    <2>8. CASE StartUnwinds
      BY <2>8 DEF StartUnwinds
    <2> QED
      BY <1>5, <2>1, <2>2, <2>3, <2>4, <2>5, <2>6, <2>7, <2>8
      DEF StartStep
  <1>6. CASE StopStep
    <2>1. CASE StopBegins
      BY <2>1 DEF StopBegins
    <2>2. CASE StopCancels
      BY <2>2 DEF StopCancels
    <2>3. CASE StopTearsDown
      BY <2>3, WatchKinds, EventKinds DEF StopTearsDown
    <2>4. CASE StopTimesOut
      BY <2>4 DEF StopTimesOut, Spend
    <2>5. CASE StopDrains
      BY <2>5 DEF StopDrains
    <2>6. CASE StopDrainTimesOut
      BY <2>6 DEF StopDrainTimesOut, Spend
    <2> QED
      BY <1>6, <2>1, <2>2, <2>3, <2>4, <2>5, <2>6
      DEF StopStep
  <1>7. CASE RefreshStep
    <2>1. CASE RefreshBuilds
      BY <2>1, WatchKinds, EventKinds DEF RefreshBuilds, Supervising, Spend
    <2>2. CASE RefreshTooLate
      BY <2>2, WatchKinds, EventKinds DEF RefreshTooLate
    <2>3. CASE RefreshLocks
      BY <2>3 DEF RefreshLocks
    <2>4. CASE RefreshSwaps
      BY <2>4, WatchKinds, EventKinds DEF RefreshSwaps
    <2>5. CASE RefreshAttaches
      BY <2>5, WatchKinds, EventKinds DEF RefreshAttaches
    <2>6. CASE ReconcileBegins
      BY <2>6 DEF ReconcileBegins
    <2>7. CASE ReconcileRefused
      BY <2>7 DEF ReconcileRefused
    <2> QED
      BY <1>7, <2>1, <2>2, <2>3, <2>4, <2>5, <2>6, <2>7
      DEF RefreshStep
  <1>8. CASE BatchStep
    <2>1. ASSUME NEW i \in Ifaces,
                 FlushInterface(i)
          PROVE  Data'
      BY <2>1 DEF FlushInterface, Spend, Keys
    <2>2. ASSUME NEW t \in {"sup", "net"},
                 BatchDone(t)
          PROVE  Data'
      BY <2>2 DEF BatchDone
    <2>3. ASSUME NEW t \in {"sup", "net"}, NEW k \in Keys,
                 RemoveTakes(t, k)
          PROVE  Data'
      BY <2>3, WatchKinds, EventKinds DEF RemoveTakes
    <2>4. CASE ReassertBegins
      BY <2>4 DEF ReassertBegins, Supervising, Spend
    <2>5. CASE ReassertDrops
      BY <2>5 DEF ReassertDrops
    <2>6. ASSUME NEW k \in Keys,
                 ReassertTakes(k)
          PROVE  Data'
      BY <2>6, WatchKinds, EventKinds DEF ReassertTakes
    <2> QED
      BY <1>8, <2>1, <2>2, <2>3, <2>4, <2>5, <2>6
      DEF BatchStep
  <1>9. CASE UNCHANGED vars
    BY <1>9 DEF vars
  <1> QED
    BY <1>1, <1>2, <1>3, <1>4, <1>5, <1>6, <1>7, <1>8, <1>9 DEF Next

\* Every installed watch is armed; stop(), the clean-up of start() and the swap
\* leave none installed.
LEMMA WatchingStep == Threading /\ Data /\ Watching /\ [Next]_vars => Watching'
  <1> SUFFICES ASSUME Threading, Data, Watching, [Next]_vars
               PROVE  Watching'
    OBVIOUS
  <1> USE DEF Threading, Watching, Data, SentWatches, Builders, NoWatch,
              watchVars, epochVars, cacheVars, threadVars, ghostVars, Goes
  <1>1. ASSUME NEW k \in Keys, DaemonChanges(k)
        PROVE  Watching'
    BY <1>1 DEF DaemonChanges, Sent, Spend
  <1>2. ASSUME NEW t \in Threads, Deliver(t)
        PROVE  Watching'
    BY <1>2 DEF Deliver, Walking
  <1>3. CASE WatchStep
    <2>1. CASE WatchTakes
      BY <2>1 DEF WatchTakes, Apply
    <2>2. CASE WatchDies
      BY <2>2 DEF WatchDies, Dead, Spend
    <2>3. ASSUME NEW t \in Builders,
                 SilentDiscards(t)
          PROVE  Watching'
      BY <2>3 DEF SilentDiscards
    <2>4. ASSUME NEW t \in Builders,
                 SilentDies(t)
          PROVE  Watching'
      BY <2>4 DEF SilentDies, Dead, Spend
    <2> QED
      BY <1>3, <2>1, <2>2, <2>3, <2>4
      DEF WatchStep
  <1>4. CASE EnumStep
    <2>1. ASSUME NEW t \in Builders,
                 EnumLists(t)
          PROVE  Watching'
      BY <2>1 DEF EnumLists
    <2>2. ASSUME NEW t \in Builders,
                 EnumFails(t)
          PROVE  Watching'
      BY <2>2 DEF EnumFails, Spend
    <2>3. ASSUME NEW t \in Builders,
                 EnumAborts(t)
          PROVE  Watching'
      BY <2>3 DEF EnumAborts, Walking
    <2>4. ASSUME NEW t \in Builders,
                 EnumDone(t)
          PROVE  Watching'
      BY <2>4 DEF EnumDone, Walking
    <2>5. ASSUME NEW t \in Builders, NEW k \in Keys,
                 EnumTakes(t, k)
          PROVE  Watching'
      BY <2>5 DEF EnumTakes, Walking, Apply
    <2> QED
      BY <1>4, <2>1, <2>2, <2>3, <2>4, <2>5
      DEF EnumStep
  <1>5. CASE StartStep
    <2>1. CASE StartBegins
      BY <2>1 DEF StartBegins, Supervising, Spend
    <2>2. CASE StartBuilds
      BY <2>2 DEF StartBuilds, Silent
    <2>3. CASE StartBuildFails
      BY <2>3 DEF StartBuildFails, Spend
    <2>4. CASE StartAborts
      BY <2>4 DEF StartAborts
    <2>5. CASE StartAttaches
      BY <2>5 DEF StartAttaches, Armed
    <2>6. CASE StartCompletes
      BY <2>6 DEF StartCompletes
    <2>7. CASE StartCancelled
      BY <2>7 DEF StartCancelled
    <2>8. CASE StartUnwinds
      BY <2>8 DEF StartUnwinds
    <2> QED
      BY <1>5, <2>1, <2>2, <2>3, <2>4, <2>5, <2>6, <2>7, <2>8
      DEF StartStep
  <1>6. CASE StopStep
    <2>1. CASE StopBegins
      BY <2>1 DEF StopBegins
    <2>2. CASE StopCancels
      BY <2>2 DEF StopCancels
    <2>3. CASE StopTearsDown
      BY <2>3 DEF StopTearsDown
    <2>4. CASE StopTimesOut
      BY <2>4 DEF StopTimesOut, Spend
    <2>5. CASE StopDrains
      BY <2>5 DEF StopDrains
    <2>6. CASE StopDrainTimesOut
      BY <2>6 DEF StopDrainTimesOut, Spend
    <2> QED
      BY <1>6, <2>1, <2>2, <2>3, <2>4, <2>5, <2>6
      DEF StopStep
  <1>7. CASE RefreshStep
    <2>1. CASE RefreshBuilds
      BY <2>1 DEF RefreshBuilds, Supervising, Spend, Silent
    <2>2. CASE RefreshTooLate
      BY <2>2 DEF RefreshTooLate
    <2>3. CASE RefreshLocks
      BY <2>3 DEF RefreshLocks
    <2>4. CASE RefreshSwaps
      BY <2>4 DEF RefreshSwaps
    <2>5. CASE RefreshAttaches
      BY <2>5 DEF RefreshAttaches, Armed
    <2>6. CASE ReconcileBegins
      BY <2>6 DEF ReconcileBegins
    <2>7. CASE ReconcileRefused
      BY <2>7 DEF ReconcileRefused
    <2> QED
      BY <1>7, <2>1, <2>2, <2>3, <2>4, <2>5, <2>6, <2>7
      DEF RefreshStep
  <1>8. CASE BatchStep
    <2>1. ASSUME NEW i \in Ifaces,
                 FlushInterface(i)
          PROVE  Watching'
      BY <2>1 DEF FlushInterface, Spend
    <2>2. ASSUME NEW t \in {"sup", "net"},
                 BatchDone(t)
          PROVE  Watching'
      BY <2>2 DEF BatchDone
    <2>3. ASSUME NEW t \in {"sup", "net"}, NEW k \in Keys,
                 RemoveTakes(t, k)
          PROVE  Watching'
      BY <2>3 DEF RemoveTakes
    <2>4. CASE ReassertBegins
      BY <2>4 DEF ReassertBegins, Supervising, Spend
    <2>5. CASE ReassertDrops
      BY <2>5 DEF ReassertDrops
    <2>6. ASSUME NEW k \in Keys,
                 ReassertTakes(k)
          PROVE  Watching'
      BY <2>6 DEF ReassertTakes
    <2> QED
      BY <1>8, <2>1, <2>2, <2>3, <2>4, <2>5, <2>6
      DEF BatchStep
  <1>9. CASE UNCHANGED vars
    BY <1>9 DEF vars
  <1> QED
    BY <1>1, <1>2, <1>3, <1>4, <1>5, <1>6, <1>7, <1>8, <1>9 DEF Next

\* Whoever could fill the cache needs the gate, which is closed between two
\* epochs, or a watch, of which there is none.
LEMMA EmptiedStep ==
    Threading /\ Watching /\ Leasing /\ Emptied /\ [Next]_vars
      => Emptied'
  <1> SUFFICES ASSUME Threading, Watching, Leasing, Emptied, [Next]_vars
               PROVE  Emptied'
    OBVIOUS
  <1> USE DEF Threading, Watching, Emptied, Builders, watchVars, epochVars,
              cacheVars, threadVars, ghostVars, Goes
  <1>1. ASSUME NEW k \in Keys, DaemonChanges(k)
        PROVE  Emptied'
    BY <1>1 DEF DaemonChanges, Sent, Spend
  <1>2. ASSUME NEW t \in Threads, Deliver(t)
        PROVE  Emptied'
    BY <1>2 DEF Deliver, Walking
  <1>3. CASE WatchStep
    <2>1. CASE WatchTakes
      BY <2>1 DEF WatchTakes, Apply
    <2>2. CASE WatchDies
      BY <2>2 DEF WatchDies, Dead, Spend
    <2>3. ASSUME NEW t \in Builders,
                 SilentDiscards(t)
          PROVE  Emptied'
      BY <2>3 DEF SilentDiscards
    <2>4. ASSUME NEW t \in Builders,
                 SilentDies(t)
          PROVE  Emptied'
      BY <2>4 DEF SilentDies, Dead, Spend
    <2> QED
      BY <1>3, <2>1, <2>2, <2>3, <2>4
      DEF WatchStep
  <1>4. CASE EnumStep
    <2>1. ASSUME NEW t \in Builders,
                 EnumLists(t)
          PROVE  Emptied'
      BY <2>1 DEF EnumLists
    <2>2. ASSUME NEW t \in Builders,
                 EnumFails(t)
          PROVE  Emptied'
      BY <2>2 DEF EnumFails, Spend
    <2>3. ASSUME NEW t \in Builders,
                 EnumAborts(t)
          PROVE  Emptied'
      BY <2>3 DEF EnumAborts, Walking
    <2>4. ASSUME NEW t \in Builders,
                 EnumDone(t)
          PROVE  Emptied'
      BY <2>4 DEF EnumDone, Walking
    <2>5. ASSUME NEW t \in Builders, NEW k \in Keys,
                 EnumTakes(t, k)
          PROVE  Emptied'
      BY <2>5 DEF EnumTakes, Walking, Apply
    <2> QED
      BY <1>4, <2>1, <2>2, <2>3, <2>4, <2>5
      DEF EnumStep
  <1>5. CASE StartStep
    <2>1. CASE StartBegins
      BY <2>1 DEF StartBegins, Supervising, Spend
    <2>2. CASE StartBuilds
      BY <2>2 DEF StartBuilds, Silent
    <2>3. CASE StartBuildFails
      BY <2>3 DEF StartBuildFails, Spend
    <2>4. CASE StartAborts
      BY <2>4 DEF StartAborts
    <2>5. CASE StartAttaches
      BY <2>5 DEF StartAttaches, Armed
    <2>6. CASE StartCompletes
      BY <2>6 DEF StartCompletes
    <2>7. CASE StartCancelled
      BY <2>7 DEF StartCancelled
    <2>8. CASE StartUnwinds
      BY <2>8 DEF StartUnwinds
    <2> QED
      BY <1>5, <2>1, <2>2, <2>3, <2>4, <2>5, <2>6, <2>7, <2>8
      DEF StartStep
  <1>6. CASE StopStep
    <2>1. CASE StopBegins
      BY <2>1 DEF StopBegins
    <2>2. CASE StopCancels
      BY <2>2 DEF StopCancels
    <2>3. CASE StopTearsDown
      BY <2>3 DEF StopTearsDown
    <2>4. CASE StopTimesOut
      BY <2>4 DEF StopTimesOut, Spend
    <2>5. CASE StopDrains
      BY <2>5 DEF StopDrains
    <2>6. CASE StopDrainTimesOut
      BY <2>6 DEF StopDrainTimesOut, Spend
    <2> QED
      BY <1>6, <2>1, <2>2, <2>3, <2>4, <2>5, <2>6
      DEF StopStep
  <1>7. CASE RefreshStep
    <2>1. CASE RefreshBuilds
      BY <2>1 DEF RefreshBuilds, Supervising, Spend, Silent
    <2>2. CASE RefreshTooLate
      BY <2>2 DEF RefreshTooLate
    <2>3. CASE RefreshLocks
      BY <2>3 DEF RefreshLocks
    <2>4. CASE RefreshSwaps
      BY <2>4 DEF RefreshSwaps
    <2>5. CASE RefreshAttaches
      BY <2>5 DEF RefreshAttaches, Armed
    <2>6. CASE ReconcileBegins
      BY <2>6 DEF ReconcileBegins
    <2>7. CASE ReconcileRefused
      BY <2>7 DEF ReconcileRefused
    <2> QED
      BY <1>7, <2>1, <2>2, <2>3, <2>4, <2>5, <2>6, <2>7
      DEF RefreshStep
  <1>8. CASE BatchStep
    <2>1. ASSUME NEW i \in Ifaces,
                 FlushInterface(i)
          PROVE  Emptied'
      BY <2>1 DEF FlushInterface, Spend
    <2>2. ASSUME NEW t \in {"sup", "net"},
                 BatchDone(t)
          PROVE  Emptied'
      BY <2>2 DEF BatchDone
    <2>3. ASSUME NEW t \in {"sup", "net"}, NEW k \in Keys,
                 RemoveTakes(t, k)
          PROVE  Emptied'
      BY <2>3 DEF RemoveTakes
    <2>4. CASE ReassertBegins
      BY <2>4 DEF ReassertBegins, Supervising, Spend
    <2>5. CASE ReassertDrops
      BY <2>5 DEF ReassertDrops
    <2>6. ASSUME NEW k \in Keys,
                 ReassertTakes(k)
          PROVE  Emptied'
      BY <2>6 DEF ReassertTakes
    <2> QED
      BY <1>8, <2>1, <2>2, <2>3, <2>4, <2>5, <2>6
      DEF BatchStep
  <1>9. CASE UNCHANGED vars
    BY <1>9 DEF vars
  <1> QED
    BY <1>1, <1>2, <1>3, <1>4, <1>5, <1>6, <1>7, <1>8, <1>9 DEF Next

\* The generation check lets no keepalive through after one was late.
LEMMA GuardedStep ==
    Threading /\ Data /\ Flags /\ Leasing /\ Guarded /\ [Next]_vars
      => Guarded'
  <1> SUFFICES ASSUME Threading, Data, Flags, Leasing, Guarded, [Next]_vars
               PROVE  Guarded'
    OBVIOUS
  <1> USE DEF Threading, Data, Leasing, Guarded, Builders, Threads, watchVars,
              epochVars, cacheVars, threadVars, ghostVars, Goes
  <1>1. ASSUME NEW k \in Keys, DaemonChanges(k)
        PROVE  Guarded'
    BY <1>1 DEF DaemonChanges, Sent, Spend
  <1>2. ASSUME NEW t \in Threads, Deliver(t)
        PROVE  Guarded'
    BY <1>2 DEF Deliver, Walking
  <1>3. CASE WatchStep
    <2>1. CASE WatchTakes
      <3>1. watch.inbox # <<>> => Head(watch.inbox) \in Sends
        BY WatchKinds
      <3>2. \A e \in Sends : e.kind # "Keepalive"
        BY DEF Sends
      <3> QED
        BY <2>1, <3>1, <3>2 DEF WatchTakes, Apply
    <2>2. CASE WatchDies
      BY <2>2 DEF WatchDies, Dead, Spend
    <2>3. ASSUME NEW t \in Builders,
                 SilentDiscards(t)
          PROVE  Guarded'
      BY <2>3 DEF SilentDiscards
    <2>4. ASSUME NEW t \in Builders,
                 SilentDies(t)
          PROVE  Guarded'
      BY <2>4 DEF SilentDies, Dead, Spend
    <2> QED
      BY <1>3, <2>1, <2>2, <2>3, <2>4
      DEF WatchStep
  <1>4. CASE EnumStep
    <2>1. ASSUME NEW t \in Builders,
                 EnumLists(t)
          PROVE  Guarded'
      BY <2>1 DEF EnumLists
    <2>2. ASSUME NEW t \in Builders,
                 EnumFails(t)
          PROVE  Guarded'
      BY <2>2 DEF EnumFails, Spend
    <2>3. ASSUME NEW t \in Builders,
                 EnumAborts(t)
          PROVE  Guarded'
      BY <2>3 DEF EnumAborts, Walking
    <2>4. ASSUME NEW t \in Builders,
                 EnumDone(t)
          PROVE  Guarded'
      BY <2>4 DEF EnumDone, Walking
    <2>5. ASSUME NEW t \in Builders, NEW k \in Keys,
                 EnumTakes(t, k)
          PROVE  Guarded'
      BY <2>5 DEF EnumTakes, Walking, Apply
    <2> QED
      BY <1>4, <2>1, <2>2, <2>3, <2>4, <2>5
      DEF EnumStep
  <1>5. CASE StartStep
    <2>1. CASE StartBegins
      BY <2>1 DEF StartBegins, Supervising, Spend
    <2>2. CASE StartBuilds
      BY <2>2 DEF StartBuilds, Silent
    <2>3. CASE StartBuildFails
      BY <2>3 DEF StartBuildFails, Spend
    <2>4. CASE StartAborts
      BY <2>4 DEF StartAborts
    <2>5. CASE StartAttaches
      BY <2>5 DEF StartAttaches, Armed
    <2>6. CASE StartCompletes
      BY <2>6 DEF StartCompletes
    <2>7. CASE StartCancelled
      BY <2>7 DEF StartCancelled
    <2>8. CASE StartUnwinds
      BY <2>8 DEF StartUnwinds
    <2> QED
      BY <1>5, <2>1, <2>2, <2>3, <2>4, <2>5, <2>6, <2>7, <2>8
      DEF StartStep
  <1>6. CASE StopStep
    <2>1. CASE StopBegins
      BY <2>1 DEF StopBegins
    <2>2. CASE StopCancels
      BY <2>2 DEF StopCancels
    <2>3. CASE StopTearsDown
      BY <2>3 DEF StopTearsDown
    <2>4. CASE StopTimesOut
      BY <2>4 DEF StopTimesOut, Spend
    <2>5. CASE StopDrains
      BY <2>5 DEF StopDrains
    <2>6. CASE StopDrainTimesOut
      BY <2>6 DEF StopDrainTimesOut, Spend
    <2> QED
      BY <1>6, <2>1, <2>2, <2>3, <2>4, <2>5, <2>6
      DEF StopStep
  <1>7. CASE RefreshStep
    <2>1. CASE RefreshBuilds
      BY <2>1 DEF RefreshBuilds, Supervising, Spend, Silent
    <2>2. CASE RefreshTooLate
      BY <2>2 DEF RefreshTooLate
    <2>3. CASE RefreshLocks
      BY <2>3 DEF RefreshLocks
    <2>4. CASE RefreshSwaps
      BY <2>4 DEF RefreshSwaps
    <2>5. CASE RefreshAttaches
      BY <2>5 DEF RefreshAttaches, Armed
    <2>6. CASE ReconcileBegins
      BY <2>6 DEF ReconcileBegins
    <2>7. CASE ReconcileRefused
      BY <2>7 DEF ReconcileRefused
    <2> QED
      BY <1>7, <2>1, <2>2, <2>3, <2>4, <2>5, <2>6, <2>7
      DEF RefreshStep
  <1>8. CASE BatchStep
    <2>1. ASSUME NEW i \in Ifaces,
                 FlushInterface(i)
          PROVE  Guarded'
      BY <2>1 DEF FlushInterface, Spend
    <2>2. ASSUME NEW t \in {"sup", "net"},
                 BatchDone(t)
          PROVE  Guarded'
      BY <2>2 DEF BatchDone
    <2>3. ASSUME NEW t \in {"sup", "net"}, NEW k \in Keys,
                 RemoveTakes(t, k)
          PROVE  Guarded'
      BY <2>3 DEF RemoveTakes
    <2>4. CASE ReassertBegins
      BY <2>4 DEF ReassertBegins, Supervising, Spend
    <2>5. CASE ReassertDrops
      BY <2>5 DEF ReassertDrops
    <2>6. ASSUME NEW k \in Keys,
                 ReassertTakes(k)
          PROVE  Guarded'
      BY <2>6 DEF ReassertTakes
    <2> QED
      BY <1>8, <2>1, <2>2, <2>3, <2>4, <2>5, <2>6
      DEF BatchStep
  <1>9. CASE UNCHANGED vars
    BY <1>9 DEF vars
  <1> QED
    BY <1>1, <1>2, <1>3, <1>4, <1>5, <1>6, <1>7, <1>8, <1>9 DEF Next

-----------------------------------------------------------------------------
(* The invariant *)

\* What every reachable state satisfies.
Inv == Threading /\ Data /\ Flags /\ Leasing /\ Watching /\ Emptied /\ Guarded

\* It holds initially.
LEMMA InvInit == Init => Inv
  <1> SUFFICES ASSUME Init
               PROVE  Inv
    OBVIOUS
  <1>1. Threading /\ Flags
    BY DEF Init, Threading, Places, Flags
  <1>2. Data
    BY WatchKinds DEF Init, Data
  <1>3. Leasing /\ Guarded
    BY DEF Init, Leasing, Guarded, Threads
  <1>4. Watching /\ Emptied
    BY DEF Init, Watching, Emptied, NoWatch
  <1> QED
    BY <1>1, <1>2, <1>3, <1>4 DEF Inv

\* It is an invariant of the source.
LEMMA Invariance == Spec => []Inv
  <1>1. Inv /\ [Next]_vars => Inv'
    BY ThreadingStep, DataStep, FlagsStep, LeasingStep, WatchingStep,
       EmptiedStep, GuardedStep
    DEF Inv
  <1> QED
    BY <1>1, InvInit, PTL DEF Spec

-----------------------------------------------------------------------------
(* The theorems *)

\* Every variable keeps its type, and an observation on its way downstream is
\* under a lease, whichever thread delivers it.
THEOREM TypeCorrect == Spec => []TypeOK
  <1>1. SentWatches \subseteq Watches
    <2>1. Seq(Sends) \subseteq Seq(Events)
      BY EventKinds
    <2> QED
      BY <2>1 DEF SentWatches, Watches
  <1>2. Inv => TypeOK
    <2> SUFFICES ASSUME Inv
                 PROVE  TypeOK
      OBVIOUS
    <2>1. watch \in Watches /\ fresh \in [Builders -> Watches]
      BY <1>1 DEF Inv, Data
    <2> QED
      BY <2>1 DEF Inv, Threading, Data, Flags, Leasing, Watching,
                        Guarded, TypeOK
  <1> QED
    BY <1>2, Invariance, PTL

\* After a stop() whose waits did not time out the source is quiet, whatever
\* refreshAll(), removeInterface() or reassertAll() was running.
THEOREM StoppedSourcesAreQuiet == Spec => []StoppedIsQuiet
  <1>1. Inv => StoppedIsQuiet
    BY DEF Inv, Leasing, Watching, Emptied, StoppedIsQuiet
  <1> QED
    BY <1>1, Invariance, PTL

\* At most one keepalive of a reassertAll() goes out after the cache moved.
THEOREM KeepalivesAreBounded == Spec => []KeepaliveBounded
  <1>1. Inv => KeepaliveBounded
    BY DEF Inv, Guarded, KeepaliveBounded
  <1> QED
    BY <1>1, Invariance, PTL

\* The death of an installed watch always reaches isWatchAlive().
THEOREM DeathsAreNoticed == Spec => DeathNoticed
  <1> DEFINE Noticed == watch.state = "live" /\ watch'.state = "dead" => died'
  <1>1. Inv /\ [Next]_vars => Noticed
    <2> SUFFICES ASSUME Threading, Data, Watching, [Next]_vars,
                        watch.state = "live", watch'.state = "dead"
                 PROVE  died'
      BY DEF Inv
    <2> USE DEF Threading, Data, Watching, SentWatches, NoWatch, watchVars
    <2>1. ASSUME NEW k \in Keys, DaemonChanges(k)
          PROVE  died'
      BY <2>1 DEF DaemonChanges, Sent, Spend
    <2>2. ASSUME NEW t \in Threads, Deliver(t)
          PROVE  died'
      BY <2>2 DEF Deliver, Walking
    <2>3. CASE WatchStep
      <3>1. CASE WatchTakes
        BY <3>1 DEF WatchTakes, Apply
      <3>2. CASE WatchDies
        BY <3>2 DEF WatchDies, Dead, Spend
      <3>3. ASSUME NEW t \in Builders,
                   SilentDiscards(t)
            PROVE  died'
        BY <3>3 DEF SilentDiscards
      <3>4. ASSUME NEW t \in Builders,
                   SilentDies(t)
            PROVE  died'
        BY <3>4 DEF SilentDies, Dead, Spend
      <3> QED
        BY <2>3, <3>1, <3>2, <3>3, <3>4
        DEF WatchStep
    <2>4. CASE EnumStep
      BY <2>4 DEF EnumStep, EnumLists, EnumFails, EnumAborts, EnumDone,
                  EnumTakes
    <2>5. CASE StartStep
      <3>1. CASE StartBegins
        BY <3>1 DEF StartBegins, Supervising, Spend
      <3>2. CASE StartBuilds
        BY <3>2 DEF StartBuilds, Silent
      <3>3. CASE StartBuildFails
        BY <3>3 DEF StartBuildFails, Spend
      <3>4. CASE StartAborts
        BY <3>4 DEF StartAborts
      <3>5. CASE StartAttaches
        BY <3>5 DEF StartAttaches, Armed
      <3>6. CASE StartCompletes
        BY <3>6 DEF StartCompletes
      <3>7. CASE StartCancelled
        BY <3>7 DEF StartCancelled
      <3>8. CASE StartUnwinds
        BY <3>8 DEF StartUnwinds
      <3> QED
        BY <2>5, <3>1, <3>2, <3>3, <3>4, <3>5, <3>6, <3>7, <3>8
        DEF StartStep
    <2>6. CASE StopStep
      <3>1. CASE StopBegins
        BY <3>1 DEF StopBegins
      <3>2. CASE StopCancels
        BY <3>2 DEF StopCancels
      <3>3. CASE StopTearsDown
        BY <3>3 DEF StopTearsDown
      <3>4. CASE StopTimesOut
        BY <3>4 DEF StopTimesOut, Spend
      <3>5. CASE StopDrains
        BY <3>5 DEF StopDrains
      <3>6. CASE StopDrainTimesOut
        BY <3>6 DEF StopDrainTimesOut, Spend
      <3> QED
        BY <2>6, <3>1, <3>2, <3>3, <3>4, <3>5, <3>6
        DEF StopStep
    <2>7. CASE RefreshStep
      <3>1. CASE RefreshBuilds
        BY <3>1 DEF RefreshBuilds, Supervising, Spend, Silent
      <3>2. CASE RefreshTooLate
        BY <3>2 DEF RefreshTooLate
      <3>3. CASE RefreshLocks
        BY <3>3 DEF RefreshLocks
      <3>4. CASE RefreshSwaps
        BY <3>4 DEF RefreshSwaps
      <3>5. CASE RefreshAttaches
        BY <3>5 DEF RefreshAttaches, Armed
      <3>6. CASE ReconcileBegins
        BY <3>6 DEF ReconcileBegins
      <3>7. CASE ReconcileRefused
        BY <3>7 DEF ReconcileRefused
      <3> QED
        BY <2>7, <3>1, <3>2, <3>3, <3>4, <3>5, <3>6, <3>7
        DEF RefreshStep
    <2>8. CASE BatchStep
      BY <2>8 DEF BatchStep, FlushInterface, BatchDone, RemoveTakes,
                  ReassertBegins, ReassertDrops, ReassertTakes
    <2>9. CASE UNCHANGED vars
      BY <2>9 DEF vars
    <2> QED
      BY <2>1, <2>2, <2>3, <2>4, <2>5, <2>6, <2>7, <2>8, <2>9 DEF Next
  <1>2. Inv /\ [Next]_vars => [Noticed]_vars
    BY <1>1
  <1> QED
    BY <1>2, Invariance, PTL DEF Spec, DeathNoticed

-----------------------------------------------------------------------------
(* What the window between a subscription and its enumeration can lose *)

\* The gate is open from the claim of start() to its failure, its cancellation
\* or stop().
Admitting ==
    epoch = "running" \/ pc["owner"] \in {"build", "attach", "list", "walk",
                                          "complete"}
      => gate

\* The last event about a neighbour among those a watch has still to read is
\* what lldpd knows of it.
Agree(q, ns) ==
    \A i \in 1 .. Len(q) :
        (\A j \in 1 .. Len(q) : j > i => q[j].key # q[i].key)
          => (q[i].kind = "Present" <=> q[i].key \in ns)

\* Every subscriber that lives is told every change; the others nothing.
Truthful ==
    /\ Agree(watch.inbox, neighbors)
    /\ watch.state # "live" => watch.inbox = <<>>
    /\ \A t \in Builders :
         /\ Agree(fresh[t].inbox, neighbors)
         /\ fresh[t].state # "live" => fresh[t].inbox = <<>>

\* Some event about k waits in the watch, or a walk has still to reach k.
Awaited(k) == \E i \in 1 .. Len(watch.inbox) : watch.inbox[i].key = k
Listed(k)  == \E t \in Builders : pc[t] = "walk" /\ k \in batch[t]

\* Behind an installed watch and an enumeration that was not cut short, every
\* neighbour is cached, or the watch or the walk will still come to it.
Covered ==
    (/\ gate /\ ~unlisted /\ watch.state = "live"
     /\ pc["owner"] # "list" /\ pc["sup"] # "list")
      => \A k \in neighbors \ flushed :
            k \in cache \/ Awaited(k) \/ Listed(k)

\* Only the ends of an epoch close the gate.
LEMMA AdmittingStep == Threading /\ Admitting /\ [Next]_vars => Admitting'
  <1> SUFFICES ASSUME Threading, Admitting, [Next]_vars
               PROVE  Admitting'
    OBVIOUS
  <1> USE DEF Threading, Admitting, Builders, watchVars, epochVars, cacheVars,
              threadVars, ghostVars, Goes
  <1>1. ASSUME NEW k \in Keys, DaemonChanges(k)
        PROVE  Admitting'
    BY <1>1 DEF DaemonChanges, Sent, Spend
  <1>2. ASSUME NEW t \in Threads, Deliver(t)
        PROVE  Admitting'
    BY <1>2 DEF Deliver, Walking
  <1>3. CASE WatchStep
    <2>1. CASE WatchTakes
      BY <2>1 DEF WatchTakes, Apply
    <2>2. CASE WatchDies
      BY <2>2 DEF WatchDies, Dead, Spend
    <2>3. ASSUME NEW t \in Builders,
                 SilentDiscards(t)
          PROVE  Admitting'
      BY <2>3 DEF SilentDiscards
    <2>4. ASSUME NEW t \in Builders,
                 SilentDies(t)
          PROVE  Admitting'
      BY <2>4 DEF SilentDies, Dead, Spend
    <2> QED
      BY <1>3, <2>1, <2>2, <2>3, <2>4
      DEF WatchStep
  <1>4. CASE EnumStep
    <2>1. ASSUME NEW t \in Builders,
                 EnumLists(t)
          PROVE  Admitting'
      BY <2>1 DEF EnumLists
    <2>2. ASSUME NEW t \in Builders,
                 EnumFails(t)
          PROVE  Admitting'
      BY <2>2 DEF EnumFails, Spend
    <2>3. ASSUME NEW t \in Builders,
                 EnumAborts(t)
          PROVE  Admitting'
      BY <2>3 DEF EnumAborts, Walking
    <2>4. ASSUME NEW t \in Builders,
                 EnumDone(t)
          PROVE  Admitting'
      BY <2>4 DEF EnumDone, Walking
    <2>5. ASSUME NEW t \in Builders, NEW k \in Keys,
                 EnumTakes(t, k)
          PROVE  Admitting'
      BY <2>5 DEF EnumTakes, Walking, Apply
    <2> QED
      BY <1>4, <2>1, <2>2, <2>3, <2>4, <2>5
      DEF EnumStep
  <1>5. CASE StartStep
    <2>1. CASE StartBegins
      BY <2>1 DEF StartBegins, Supervising, Spend
    <2>2. CASE StartBuilds
      BY <2>2 DEF StartBuilds, Silent
    <2>3. CASE StartBuildFails
      BY <2>3 DEF StartBuildFails, Spend
    <2>4. CASE StartAborts
      BY <2>4 DEF StartAborts
    <2>5. CASE StartAttaches
      BY <2>5 DEF StartAttaches, Armed
    <2>6. CASE StartCompletes
      BY <2>6 DEF StartCompletes
    <2>7. CASE StartCancelled
      BY <2>7 DEF StartCancelled
    <2>8. CASE StartUnwinds
      BY <2>8 DEF StartUnwinds
    <2> QED
      BY <1>5, <2>1, <2>2, <2>3, <2>4, <2>5, <2>6, <2>7, <2>8
      DEF StartStep
  <1>6. CASE StopStep
    <2>1. CASE StopBegins
      BY <2>1 DEF StopBegins
    <2>2. CASE StopCancels
      BY <2>2 DEF StopCancels
    <2>3. CASE StopTearsDown
      BY <2>3 DEF StopTearsDown
    <2>4. CASE StopTimesOut
      BY <2>4 DEF StopTimesOut, Spend
    <2>5. CASE StopDrains
      BY <2>5 DEF StopDrains
    <2>6. CASE StopDrainTimesOut
      BY <2>6 DEF StopDrainTimesOut, Spend
    <2> QED
      BY <1>6, <2>1, <2>2, <2>3, <2>4, <2>5, <2>6
      DEF StopStep
  <1>7. CASE RefreshStep
    <2>1. CASE RefreshBuilds
      BY <2>1 DEF RefreshBuilds, Supervising, Spend, Silent
    <2>2. CASE RefreshTooLate
      BY <2>2 DEF RefreshTooLate
    <2>3. CASE RefreshLocks
      BY <2>3 DEF RefreshLocks
    <2>4. CASE RefreshSwaps
      BY <2>4 DEF RefreshSwaps
    <2>5. CASE RefreshAttaches
      BY <2>5 DEF RefreshAttaches, Armed
    <2>6. CASE ReconcileBegins
      BY <2>6 DEF ReconcileBegins
    <2>7. CASE ReconcileRefused
      BY <2>7 DEF ReconcileRefused
    <2> QED
      BY <1>7, <2>1, <2>2, <2>3, <2>4, <2>5, <2>6, <2>7
      DEF RefreshStep
  <1>8. CASE BatchStep
    <2>1. ASSUME NEW i \in Ifaces,
                 FlushInterface(i)
          PROVE  Admitting'
      BY <2>1 DEF FlushInterface, Spend
    <2>2. ASSUME NEW t \in {"sup", "net"},
                 BatchDone(t)
          PROVE  Admitting'
      BY <2>2 DEF BatchDone
    <2>3. ASSUME NEW t \in {"sup", "net"}, NEW k \in Keys,
                 RemoveTakes(t, k)
          PROVE  Admitting'
      BY <2>3 DEF RemoveTakes
    <2>4. CASE ReassertBegins
      BY <2>4 DEF ReassertBegins, Supervising, Spend
    <2>5. CASE ReassertDrops
      BY <2>5 DEF ReassertDrops
    <2>6. ASSUME NEW k \in Keys,
                 ReassertTakes(k)
          PROVE  Admitting'
      BY <2>6 DEF ReassertTakes
    <2> QED
      BY <1>8, <2>1, <2>2, <2>3, <2>4, <2>5, <2>6
      DEF BatchStep
  <1>9. CASE UNCHANGED vars
    BY <1>9 DEF vars
  <1> QED
    BY <1>1, <1>2, <1>3, <1>4, <1>5, <1>6, <1>7, <1>8, <1>9 DEF Next

\* A subscriber that reads an event still agrees with lldpd afterwards.
LEMMA AgreeTail ==
    ASSUME NEW q \in Seq(Sends), NEW ns, q # <<>>, Agree(q, ns)
    PROVE  Agree(Tail(q), ns)
  <1>1. /\ Len(Tail(q)) = Len(q) - 1 /\ Len(q) \in Nat
        /\ \A i \in 1 .. Len(Tail(q)) :
             /\ i + 1 \in 1 .. Len(q) /\ Tail(q)[i] = q[i + 1]
    OBVIOUS
  <1> SUFFICES ASSUME NEW i \in 1 .. Len(Tail(q)),
                      \A j \in 1 .. Len(Tail(q)) :
                         j > i => Tail(q)[j].key # Tail(q)[i].key
               PROVE  Tail(q)[i].kind = "Present" <=> Tail(q)[i].key \in ns
    BY DEF Agree
  <1>2. ASSUME NEW j \in 1 .. Len(q), j > i + 1
        PROVE  q[j].key # q[i + 1].key
    <2>1. j - 1 \in 1 .. Len(Tail(q)) /\ j - 1 > i /\ (j - 1) + 1 = j
      BY <1>1, <1>2
    <2> QED
      BY <1>1, <2>1
  <1> QED
    BY <1>1, <1>2 DEF Agree

\* A subscriber told of a change agrees with what lldpd knows then.
LEMMA AgreeAppend ==
    ASSUME NEW q \in Seq(Sends), NEW ns, NEW k \in Keys, Agree(q, ns),
           NEW e, e = [key |-> k, kind |-> IF k \in ns THEN "Removed" ELSE "Present"],
           NEW ms, ms = (IF k \in ns THEN ns \ {k} ELSE ns \cup {k})
    PROVE  Agree(Append(q, e), ms)
  <1>0. e \in Sends
    BY EventKinds
  <1>1. /\ Len(Append(q, e)) = Len(q) + 1 /\ Len(q) \in Nat
        /\ \A i \in 1 .. Len(q) : Append(q, e)[i] = q[i]
        /\ Append(q, e)[Len(q) + 1] = e
    BY <1>0
  <1> SUFFICES ASSUME NEW i \in 1 .. Len(q) + 1,
                      \A j \in 1 .. Len(q) + 1 :
                         j > i => Append(q, e)[j].key # Append(q, e)[i].key
               PROVE  Append(q, e)[i].kind = "Present" <=> Append(q, e)[i].key \in ms
    BY <1>1 DEF Agree
  <1>2. CASE i = Len(q) + 1
    <2>1. e.key = k /\ (e.kind = "Present" <=> k \notin ns)
      OBVIOUS
    <2> QED
      BY <1>1, <1>2, <2>1
  <1>3. CASE i \in 1 .. Len(q)
    <2>1. q[i].key # k
      BY <1>1, <1>3
    <2>2. \A j \in 1 .. Len(q) : j > i => q[j].key # q[i].key
      BY <1>1, <1>3
    <2>3. q[i].kind = "Present" <=> q[i].key \in ns
      BY <1>3, <2>2 DEF Agree
    <2> QED
      BY <1>1, <1>3, <2>1, <2>3
  <1> QED
    BY <1>1, <1>2, <1>3

\* A watch knows what lldpd knows, or will have read it.
Told(w, ns) == Agree(w.inbox, ns) /\ (w.state # "live" => w.inbox = <<>>)

\* Arming, killing and reading a watch keeps it so.
LEMMA ToldWatches ==
    ASSUME NEW ns
    PROVE  /\ Told(NoWatch, ns) /\ Told(Silent, ns)
           /\ \A w \in SentWatches :
                Told(w, ns) =>
                  /\ Told(Armed(w), ns) /\ Told(Dead(w), ns)
                  /\ w.inbox # <<>> => Told([w EXCEPT !.inbox = Tail(w.inbox)], ns)
  <1>1. Agree(<<>>, ns)
    BY DEF Agree
  <1>2. Told(NoWatch, ns) /\ Told(Silent, ns)
    BY <1>1 DEF Told, NoWatch, Silent
  <1> SUFFICES ASSUME NEW w \in SentWatches, Told(w, ns)
               PROVE  /\ Told(Armed(w), ns) /\ Told(Dead(w), ns)
                      /\ w.inbox # <<>> => Told([w EXCEPT !.inbox = Tail(w.inbox)], ns)
    BY <1>2
  <1>3. Armed(w).inbox = w.inbox /\ Armed(w).state = w.state
    BY DEF Armed, SentWatches
  <1>4. Dead(w).inbox = <<>>
    BY DEF Dead, SentWatches
  <1>5. ASSUME w.inbox # <<>>
        PROVE  Told([w EXCEPT !.inbox = Tail(w.inbox)], ns)
    <2> DEFINE v == [w EXCEPT !.inbox = Tail(w.inbox)]
    <2>1. v.inbox = Tail(w.inbox) /\ v.state = w.state /\ w.inbox \in Seq(Sends)
      BY DEF SentWatches
    <2>2. Agree(Tail(w.inbox), ns)
      BY <1>5, <2>1, AgreeTail DEF Told
    <2> QED
      BY <1>5, <2>1, <2>2 DEF Told
  <1> QED
    BY <1>1, <1>3, <1>4, <1>5 DEF Told

\* lldpd tells every subscriber, in order.
LEMMA TruthfulStep == Data /\ Truthful /\ [Next]_vars => Truthful'
  <1> SUFFICES ASSUME Data, Truthful, [Next]_vars
               PROVE  Truthful'
    OBVIOUS
  <1> USE DEF watchVars, epochVars, cacheVars, threadVars, ghostVars
  <1>a. /\ Told(watch, neighbors) /\ \A t \in Builders : Told(fresh[t], neighbors)
        /\ watch \in SentWatches /\ fresh \in [Builders -> SentWatches]
    BY DEF Truthful, Told, Data
  <1>c. ASSUME UNCHANGED <<neighbors, watch, fresh>>
        PROVE  Truthful'
    BY <1>c DEF Truthful
  <1>d. ASSUME UNCHANGED <<neighbors, fresh>>, Told(watch', neighbors)
        PROVE  Truthful'
    BY <1>d DEF Truthful, Told
  <1>e. ASSUME neighbors' = neighbors, NEW t \in Builders,
               NEW w, fresh' = [fresh EXCEPT ![t] = w], Told(w, neighbors),
               Told(watch', neighbors)
        PROVE  Truthful'
    <2>1. \A s \in Builders : Told(fresh'[s], neighbors)
      BY <1>a, <1>e
    <2> QED
      BY <1>e, <2>1 DEF Truthful, Told
  <1>f. "owner" \in Builders /\ "sup" \in Builders
    BY DEF Builders
  <1>1. ASSUME NEW k \in Keys, DaemonChanges(k)
        PROVE  Truthful'
    <2> DEFINE e == [key |-> k,
                     kind |-> IF k \in neighbors THEN "Removed" ELSE "Present"]
    <2>1. /\ neighbors' = (IF k \in neighbors THEN neighbors \ {k}
                           ELSE neighbors \cup {k})
          /\ watch' = Sent(watch, e)
          /\ fresh' = [t \in Builders |-> Sent(fresh[t], e)]
      BY <1>1 DEF DaemonChanges
    <2>2. ASSUME NEW w \in SentWatches, Told(w, neighbors)
          PROVE  Told(Sent(w, e), neighbors')
      <3>1. w.inbox \in Seq(Sends)
        BY DEF SentWatches
      <3>2. CASE w.state = "live"
        <4>1. Agree(Append(w.inbox, e), neighbors')
          BY <2>1, <2>2, <3>1, AgreeAppend DEF Told
        <4>2. Sent(w, e).inbox = Append(w.inbox, e) /\ Sent(w, e).state = "live"
          BY <3>2 DEF Sent, SentWatches
        <4> QED
          BY <4>1, <4>2 DEF Told
      <3>3. CASE w.state # "live"
        BY <2>2, <3>3 DEF Told, Sent, Agree
      <3> QED
        BY <3>2, <3>3
    <2> HIDE DEF e
    <2>3. Told(watch', neighbors') /\ \A t \in Builders : Told(fresh'[t], neighbors')
      BY <1>a, <2>1, <2>2
    <2> QED
      BY <2>3 DEF Truthful, Told
  <1>2. ASSUME NEW t \in Threads, Deliver(t)
        PROVE  Truthful'
    BY <1>2, <1>c DEF Deliver
  <1>3. CASE WatchStep
    <2>1. CASE WatchTakes
      BY <1>a, <1>d, <2>1, ToldWatches DEF WatchTakes
    <2>2. CASE WatchDies
      BY <1>a, <1>d, <2>2, ToldWatches DEF WatchDies
    <2>3. ASSUME NEW t \in Builders, SilentDiscards(t)
          PROVE  Truthful'
      <3> DEFINE w == [fresh[t] EXCEPT !.inbox = Tail(fresh[t].inbox)]
      <3>1. UNCHANGED <<neighbors, watch>> /\ fresh' = [fresh EXCEPT ![t] = w]
        BY <2>3 DEF SilentDiscards
      <3>2. Told(w, neighbors)
        BY <1>a, <2>3, ToldWatches DEF SilentDiscards
      <3> QED
        BY <1>a, <1>e, <3>1, <3>2
    <2>4. ASSUME NEW t \in Builders, SilentDies(t)
          PROVE  Truthful'
      <3>1. UNCHANGED <<neighbors, watch>> /\ fresh' = [fresh EXCEPT ![t] = Dead(fresh[t])]
        BY <2>4 DEF SilentDies
      <3>2. Told(Dead(fresh[t]), neighbors)
        BY <1>a, ToldWatches
      <3> QED
        BY <1>a, <1>e, <3>1, <3>2
    <2> QED
      BY <1>3, <2>1, <2>2, <2>3, <2>4 DEF WatchStep
  <1>4. CASE EnumStep
    BY <1>4, <1>c DEF EnumStep, EnumLists, EnumFails, EnumAborts, EnumDone,
                      EnumTakes
  <1>5. CASE StartStep
    <2>1. CASE StartBegins \/ StartBuildFails \/ StartAborts \/ StartCompletes
                 \/ StartUnwinds
      BY <2>1, <1>c DEF StartBegins, StartBuildFails, StartAborts,
                        StartCompletes, StartUnwinds
    <2>2. CASE StartBuilds
      BY <1>a, <1>e, <1>f, <2>2, ToldWatches DEF StartBuilds
    <2>3. CASE StartAttaches
      BY <1>a, <1>e, <1>f, <2>3, ToldWatches DEF StartAttaches
    <2>4. CASE StartCancelled
      BY <1>d, <2>4, ToldWatches DEF StartCancelled
    <2> QED
      BY <1>5, <2>1, <2>2, <2>3, <2>4 DEF StartStep
  <1>6. CASE StopStep
    <2>1. CASE StopTearsDown
      BY <1>d, <2>1, ToldWatches DEF StopTearsDown
    <2> QED
      BY <1>6, <1>c, <2>1 DEF StopStep, StopBegins, StopCancels, StopTimesOut,
                              StopDrains, StopDrainTimesOut
  <1>7. CASE RefreshStep
    <2>1. CASE RefreshBuilds
      BY <1>a, <1>e, <1>f, <2>1, ToldWatches DEF RefreshBuilds
    <2>2. CASE RefreshTooLate
      BY <1>a, <1>e, <1>f, <2>2, ToldWatches DEF RefreshTooLate
    <2>3. CASE RefreshSwaps
      BY <1>d, <2>3, ToldWatches DEF RefreshSwaps
    <2>4. CASE RefreshAttaches
      BY <1>a, <1>e, <1>f, <2>4, ToldWatches DEF RefreshAttaches
    <2> QED
      BY <1>7, <1>c, <2>1, <2>2, <2>3, <2>4
      DEF RefreshStep, RefreshLocks, ReconcileBegins, ReconcileRefused
  <1>8. CASE BatchStep
    BY <1>8, <1>c DEF BatchStep, FlushInterface, BatchDone, RemoveTakes,
                      ReassertBegins, ReassertDrops, ReassertTakes
  <1>9. CASE UNCHANGED vars
    BY <1>9, <1>c DEF vars
  <1> QED
    BY <1>1, <1>2, <1>3, <1>4, <1>5, <1>6, <1>7, <1>8, <1>9 DEF Next

\* The subscription is older than the enumeration: what the walk no longer
\* lists the watch reports, and what the watch reported before is listed.
LEMMA CoveredStep ==
    Threading /\ Data /\ Watching /\ Truthful /\ Covered /\ [Next]_vars => Covered'
  <1> SUFFICES ASSUME Threading, Data, Watching, Truthful, Covered, [Next]_vars
               PROVE  Covered'
    OBVIOUS
  <1> USE DEF Threading, Watching, Covered, Awaited, Listed, Builders,
              watchVars, epochVars, cacheVars, threadVars, ghostVars, Goes
  <1>0. batch \in [Threads -> SUBSET Keys] /\ Builders \subseteq Threads
    BY DEF Data, Threads
  <1>1. ASSUME NEW k \in Keys, DaemonChanges(k)
        PROVE  Covered'
    <2> DEFINE e == [key |-> k,
                     kind |-> IF k \in neighbors THEN "Removed" ELSE "Present"]
    <2>1. /\ neighbors' \subseteq neighbors \cup {k}
          /\ watch' = Sent(watch, e) /\ e.key = k /\ e \in Sends
          /\ UNCHANGED <<gate, unlisted, flushed, cache, pc, batch>>
      BY <1>1, EventKinds DEF DaemonChanges
    <2> HIDE DEF e
    <2> SUFFICES ASSUME gate, ~unlisted, watch'.state = "live",
                        pc["owner"] # "list", pc["sup"] # "list",
                        NEW x \in neighbors' \ flushed
                 PROVE  x \in cache \/ Awaited(x)' \/ Listed(x)'
      BY <2>1
    <2>2. /\ watch.state = "live" /\ watch.inbox \in Seq(Sends)
          /\ watch'.inbox = Append(watch.inbox, e)
      BY <2>1 DEF Sent, Data, SentWatches
    <2>3. /\ Len(watch'.inbox) = Len(watch.inbox) + 1 /\ Len(watch.inbox) \in Nat
          /\ \A i \in 1 .. Len(watch.inbox) : watch'.inbox[i] = watch.inbox[i]
          /\ watch'.inbox[Len(watch.inbox) + 1] = e
      BY <2>1, <2>2
    <2>4. CASE x = k
      BY <2>1, <2>3, <2>4
    <2>5. CASE x # k
      <3>1. x \in cache \/ Awaited(x) \/ Listed(x)
        BY <2>1, <2>2, <2>5
      <3>2. Awaited(x) => Awaited(x)'
        BY <2>3
      <3>3. Listed(x) => Listed(x)'
        BY <2>1
      <3> QED
        BY <3>1, <3>2, <3>3
    <2> QED
      BY <2>4, <2>5
  <1>2. ASSUME NEW t \in Threads, Deliver(t)
        PROVE  Covered'
    BY <1>2 DEF Deliver, Walking
  <1>3. CASE WatchStep
    <2>1. CASE WatchTakes
      <3> DEFINE q == watch.inbox
      <3>1. /\ q \in Seq(Sends) /\ q # <<>> /\ Agree(q, neighbors)
            /\ watch'.inbox = Tail(q) /\ watch'.state = watch.state
        BY <2>1 DEF WatchTakes, Truthful, Data, SentWatches
      <3>2. /\ Len(q) \in Nat /\ Len(Tail(q)) = Len(q) - 1 /\ Head(q) = q[1]
            /\ 1 \in 1 .. Len(q)
            /\ \A i \in 1 .. Len(Tail(q)) : Tail(q)[i] = q[i + 1]
        BY <3>1
      <3> SUFFICES ASSUME gate, ~unlisted, watch.state = "live",
                          pc["owner"] # "list", pc["sup"] # "list",
                          NEW k \in neighbors \ flushed
                   PROVE  k \in cache' \/ Awaited(k)' \/ Listed(k)'
        BY <2>1, <3>1 DEF WatchTakes
      <3>3. /\ UNCHANGED <<batch, pc, neighbors, flushed>>
            /\ cache' = IF q[1].kind = "Removed" THEN cache \ {q[1].key}
                        ELSE cache \cup {q[1].key}
        BY <2>1, <3>2 DEF WatchTakes, Apply
      <3>4. ASSUME NEW i \in 1 .. Len(q), i > 1, q[i].key = k
            PROVE  Awaited(k)'
        <4>1. i - 1 \in 1 .. Len(Tail(q)) /\ Tail(q)[i - 1] = q[i]
          BY <3>2, <3>4
        <4> QED
          BY <3>1, <3>4, <4>1
      <3>5. CASE q[1].key = k
        <4>1. CASE \A j \in 1 .. Len(q) : j > 1 => q[j].key # q[1].key
          <5>1. q[1].kind = "Present"
            BY <3>1, <3>2, <3>5, <4>1 DEF Agree
          <5> QED
            BY <3>3, <3>5, <5>1
        <4> QED
          BY <3>4, <3>5, <4>1
      <3>6. CASE q[1].key # k
        <4>1. k \in cache \/ Awaited(k) \/ Listed(k)
          OBVIOUS
        <4>2. CASE k \in cache
          BY <3>3, <3>6, <4>2
        <4>3. CASE Awaited(k)
          <5>1. PICK i \in 1 .. Len(q) : q[i].key = k
            BY <4>3
          <5>2. i > 1
            BY <3>6, <5>1
          <5> QED
            BY <3>4, <5>1, <5>2
        <4>4. CASE Listed(k)
          BY <3>3, <4>4
        <4> QED
          BY <4>1, <4>2, <4>3, <4>4
      <3> QED
        BY <3>5, <3>6
    <2>2. CASE WatchDies
      BY <2>2 DEF WatchDies, Dead, Spend
    <2>3. ASSUME NEW t \in Builders,
                 SilentDiscards(t)
          PROVE  Covered'
      BY <2>3 DEF SilentDiscards
    <2>4. ASSUME NEW t \in Builders,
                 SilentDies(t)
          PROVE  Covered'
      BY <2>4 DEF SilentDies, Dead, Spend
    <2> QED
      BY <1>3, <2>1, <2>2, <2>3, <2>4
      DEF WatchStep
  <1>4. CASE EnumStep
    <2>1. ASSUME NEW t \in Builders,
                 EnumLists(t)
          PROVE  Covered'
      <3>1. /\ UNCHANGED <<neighbors, watch, gate, flushed, cache>>
            /\ pc'[t] = "walk" /\ batch'[t] = neighbors
        BY <2>1, <1>0 DEF EnumLists, Threads
      <3> QED
        BY <3>1
    <2>2. ASSUME NEW t \in Builders,
                 EnumFails(t)
          PROVE  Covered'
      BY <2>2 DEF EnumFails, Spend
    <2>3. ASSUME NEW t \in Builders,
                 EnumAborts(t)
          PROVE  Covered'
      BY <2>3 DEF EnumAborts, Walking
    <2>4. ASSUME NEW t \in Builders,
                 EnumDone(t)
          PROVE  Covered'
      BY <2>4 DEF EnumDone, Walking
    <2>5. ASSUME NEW t \in Builders, NEW k \in Keys,
                 EnumTakes(t, k)
          PROVE  Covered'
      BY <2>5 DEF EnumTakes, Walking, Apply
    <2> QED
      BY <1>4, <2>1, <2>2, <2>3, <2>4, <2>5
      DEF EnumStep
  <1>5. CASE StartStep
    <2>1. CASE StartBegins
      BY <2>1 DEF StartBegins, Supervising, Spend
    <2>2. CASE StartBuilds
      BY <2>2 DEF StartBuilds, Silent
    <2>3. CASE StartBuildFails
      BY <2>3 DEF StartBuildFails, Spend
    <2>4. CASE StartAborts
      BY <2>4 DEF StartAborts
    <2>5. CASE StartAttaches
      BY <2>5 DEF StartAttaches, Armed
    <2>6. CASE StartCompletes
      BY <2>6 DEF StartCompletes
    <2>7. CASE StartCancelled
      BY <2>7 DEF StartCancelled
    <2>8. CASE StartUnwinds
      BY <2>8 DEF StartUnwinds
    <2> QED
      BY <1>5, <2>1, <2>2, <2>3, <2>4, <2>5, <2>6, <2>7, <2>8
      DEF StartStep
  <1>6. CASE StopStep
    <2>1. CASE StopBegins
      BY <2>1 DEF StopBegins
    <2>2. CASE StopCancels
      BY <2>2 DEF StopCancels
    <2>3. CASE StopTearsDown
      BY <2>3 DEF StopTearsDown
    <2>4. CASE StopTimesOut
      BY <2>4 DEF StopTimesOut, Spend
    <2>5. CASE StopDrains
      BY <2>5 DEF StopDrains
    <2>6. CASE StopDrainTimesOut
      BY <2>6 DEF StopDrainTimesOut, Spend
    <2> QED
      BY <1>6, <2>1, <2>2, <2>3, <2>4, <2>5, <2>6
      DEF StopStep
  <1>7. CASE RefreshStep
    <2>1. CASE RefreshBuilds
      BY <2>1 DEF RefreshBuilds, Supervising, Spend, Silent
    <2>2. CASE RefreshTooLate
      BY <2>2 DEF RefreshTooLate
    <2>3. CASE RefreshLocks
      BY <2>3 DEF RefreshLocks
    <2>4. CASE RefreshSwaps
      BY <2>4 DEF RefreshSwaps, NoWatch
    <2>5. CASE RefreshAttaches
      BY <2>5 DEF RefreshAttaches, Armed
    <2>6. CASE ReconcileBegins
      BY <2>6 DEF ReconcileBegins
    <2>7. CASE ReconcileRefused
      BY <2>7 DEF ReconcileRefused
    <2> QED
      BY <1>7, <2>1, <2>2, <2>3, <2>4, <2>5, <2>6, <2>7
      DEF RefreshStep
  <1>8. CASE BatchStep
    <2>1. ASSUME NEW i \in Ifaces,
                 FlushInterface(i)
          PROVE  Covered'
      <3>1. /\ UNCHANGED <<neighbors, watch, gate, unlisted>>
            /\ pc' = [pc EXCEPT !["net"] = "removing"]
            /\ batch' = [batch EXCEPT !["net"] = {k \in cache : k[1] = i}]
            /\ cache' = cache \ {k \in cache : k[1] = i}
            /\ flushed' = flushed \cup ({i} \X Peers)
        BY <2>1 DEF FlushInterface
      <3>2. ASSUME NEW k \in cache, k \notin flushed'
            PROVE  k \in cache'
        BY <3>1, <3>2 DEF Data, Keys
      <3>3. \A k : (Awaited(k) => Awaited(k)') /\ (Listed(k) => Listed(k)')
        BY <1>0, <3>1 DEF Threads
      <3> QED
        BY <3>1, <3>2, <3>3
    <2>2. ASSUME NEW t \in {"sup", "net"},
                 BatchDone(t)
          PROVE  Covered'
      BY <2>2 DEF BatchDone
    <2>3. ASSUME NEW t \in {"sup", "net"}, NEW k \in Keys,
                 RemoveTakes(t, k)
          PROVE  Covered'
      BY <2>3 DEF RemoveTakes
    <2>4. CASE ReassertBegins
      BY <2>4 DEF ReassertBegins, Supervising, Spend
    <2>5. CASE ReassertDrops
      BY <2>5 DEF ReassertDrops
    <2>6. ASSUME NEW k \in Keys,
                 ReassertTakes(k)
          PROVE  Covered'
      BY <2>6 DEF ReassertTakes
    <2> QED
      BY <1>8, <2>1, <2>2, <2>3, <2>4, <2>5, <2>6
      DEF BatchStep
  <1>9. CASE UNCHANGED vars
    BY <1>9 DEF vars
  <1> QED
    BY <1>1, <1>2, <1>3, <1>4, <1>5, <1>6, <1>7, <1>8, <1>9 DEF Next

\* Nothing is subscribed initially, and nothing awaited.
LEMMA CoveredInit == Init => Admitting /\ Truthful /\ Covered
  BY DEF Init, Admitting, Truthful, Covered, Agree, NoWatch, Builders

\* Once a start or a reconnect is through and the watch is read, every
\* neighbour of lldpd is cached, for every set of interfaces and neighbours and
\* whichever changes fell into the window between subscription and walk.
THEOREM NoNeighboursAreMissed == Spec => []NoNeighbourMissed
  <1> DEFINE Window == Admitting /\ Truthful /\ Covered
  <1>1. Inv /\ Window /\ [Next]_vars => Window'
    BY AdmittingStep, TruthfulStep, CoveredStep DEF Inv
  <1>2. Inv /\ Window => NoNeighbourMissed
    <2> SUFFICES ASSUME Inv, Window, epoch = "running", ~unlisted,
                        watch.state = "live", watch.inbox = <<>>,
                        pc["sup"] \notin {"swapped", "list", "walk"}
                 PROVE  neighbors \ flushed \subseteq cache
      BY DEF NoNeighbourMissed
    <2>1. gate /\ pc["owner"] = "idle"
      BY DEF Inv, Threading, Admitting
    <2>2. \A k : ~Awaited(k) /\ ~Listed(k)
      BY <2>1 DEF Awaited, Listed, Builders
    <2> QED
      BY <2>1, <2>2 DEF Covered
  <1> QED
    BY <1>1, <1>2, CoveredInit, Invariance, PTL DEF Spec

=============================================================================
