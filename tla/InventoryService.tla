--------------------------- MODULE InventoryService ---------------------------
(***************************************************************************)
(* The inventory daemon: InventoryService, its refresh worker and the      *)
(* DefaultInventoryManager behind it.                                      *)
(*                                                                         *)
(* Sources are files, each owning some fields.  The refresh worker reads   *)
(* them when it is asked to, when the file watcher reports a change, and   *)
(* when the reconcile deadline passes; it merges what it read into the     *)
(* snapshot and publishes what changed.  D-Bus clients call refresh() and  *)
(* re-query a field when its signal arrives; the query binding refuses     *)
(* calls while the service goes down.  One thread calls start() and stop() *)
(* (LifecycleCoordinator serialises them).                                 *)
(*                                                                         *)
(* The clock is two facts: "recent", less than minRefreshInterval since    *)
(* the last cycle began, and "due", the reconcile deadline has passed.     *)
(* ServiceBase, ManagedWorker, the eventfd and the file watcher are        *)
(* external and modelled by what this code relies on: stopping transports  *)
(* clears readiness, quiescing and stopping a transport wait for the calls *)
(* it admitted, a finished worker can be joined, a signalled eventfd stays *)
(* readable until drained.  Not modelled: timestamps, the version counter  *)
(* and the SourceStateChanged signals.  A local of the loop is reset when  *)
(* it is dead.                                                             *)
(***************************************************************************)
EXTENDS Integers, FiniteSets

CONSTANTS
    Sources,      \* registered sources
    Required,     \* those that gate readiness
    Fields,       \* source-owned fields
    Owner,        \* fieldOwners_: the source of each field
    Omissible,    \* fields their file may leave out (scalar files may not)
    Vals,         \* values of a field
    Missing,      \* the field is absent
    Bad,          \* collect() throws: file missing, malformed, reserved field
    MaxChanges,   \* bound: file changes per behaviour
    MaxRequests,  \* bound: refresh() calls
    MaxStarts,    \* bound: start() calls
    MaxFaults     \* bound: failed starts, worker exceptions, lost signals

ASSUME RequiredKnown == Required \subseteq Sources
ASSUME OwnersKnown == Owner \in [Fields -> Sources]
ASSUME InventoryValues == Missing \notin Vals
ASSUME InventoryBounds ==
    /\ MaxChanges \in Nat /\ MaxRequests \in Nat
    /\ MaxStarts \in Nat /\ MaxFaults \in Nat

VARIABLES
    file,       \* what each file holds
    fields,     \* snapshot_.fields
    latched,    \* snapshot_.ready
    phase,      \* the thread in start() or stop()
    eventfd,    \* refreshSignal_: absent, quiet, or signalled
    worker,     \* where refreshWorker_ is
    stopAsked,  \* its stop token
    armed,      \* the loop saw a request when it computed wakeTs
    triggered,  \* sourceTriggered
    results,    \* what this cycle has collected so far
    announce,   \* oldReady # newReady in this cycle
    unsaid,     \* fields this cycle has still to publish
    failed,     \* loopFailed_
    requested,  \* refreshRequested_
    watched,    \* the file watcher has unread changes
    recent,
    due,
    ready,      \* ServiceBase's readiness, what GetReady() returns
    caller,     \* a refresh() call in flight
    asked,      \* history: a request no cycle has begun after yet
    cycled,     \* history: this epoch has completed a cycle
    signals,    \* InventoryChanged signals on their way to the client
    client,     \* what the client's last query of each field returned
    missed,     \* fields whose last signal was lost, or last query refused
    spent       \* counters behind the bounds

snapshot == <<fields, latched>>
loop     == <<stopAsked, armed, triggered, results, announce, unsaid, failed>>
clock    == <<recent, due>>
clients  == <<caller, asked, signals, client, missed>>
vars == <<file, snapshot, phase, eventfd, worker, loop, requested, watched,
          clock, ready, cycled, clients, spent>>

FieldsOf(s) == {f \in Fields : Owner[f] = s}
Contents(s) ==
    {Bad} \cup {g \in [FieldsOf(s) -> Vals \cup {Missing}] :
                  \A f \in FieldsOf(s) : g[f] = Missing => f \in Omissible}

Spend(what, limit) ==
    /\ spent[what] < limit
    /\ spent' = [spent EXCEPT ![what] = @ + 1]

Init ==
    /\ file \in {g \in [Sources -> UNION {Contents(s) : s \in Sources}] :
                    \A s \in Sources : g[s] \in Contents(s)}
    /\ fields = [f \in Fields |-> Missing]
    /\ latched = FALSE
    /\ phase = "stopped"
    /\ eventfd = "absent"
    /\ worker = "none"
    /\ stopAsked = FALSE
    /\ armed = FALSE
    /\ triggered = FALSE
    /\ results = <<>>
    /\ announce = FALSE
    /\ unsaid = {}
    /\ failed = FALSE
    /\ requested = FALSE
    /\ watched = FALSE
    /\ recent = FALSE
    /\ due = FALSE
    /\ ready = FALSE
    /\ caller = "idle"
    /\ asked = FALSE
    /\ cycled = FALSE
    /\ signals = {}
    /\ client = [f \in Fields |-> Missing]
    /\ missed = {}
    /\ spent = [changes |-> 0, requests |-> 0, starts |-> 0, faults |-> 0]

-----------------------------------------------------------------------------
(* The environment *)

\* A file is rewritten; the watcher may miss it (its watch is an
\* optimisation).
FileChanges(s, contents) ==
    /\ Spend("changes", MaxChanges)
    /\ contents # file[s]
    /\ file' = [file EXCEPT ![s] = contents]
    /\ watched' \in {watched, TRUE}
    /\ UNCHANGED <<snapshot, phase, eventfd, worker, loop, requested, clock,
                   ready, cycled, clients>>

IntervalOver ==
    /\ recent
    /\ recent' = FALSE
    /\ UNCHANGED <<file, snapshot, phase, eventfd, worker, loop, requested,
                   watched, due, ready, cycled, clients, spent>>

DeadlinePasses ==
    /\ ~due
    /\ due' = TRUE
    /\ UNCHANGED <<file, snapshot, phase, eventfd, worker, loop, requested,
                   watched, recent, ready, cycled, clients, spent>>

\* The query binding admits calls: bound before the transports start, closed
\* by quiescing, or by the stop of a transport in a roll-back.
Admitted == phase \in {"starting", "running"}

\* refresh(), when admitted: the flag under its mutex, then the eventfd.
RefreshFlags ==
    /\ Admitted
    /\ caller = "idle"
    /\ Spend("requests", MaxRequests)
    /\ requested' = TRUE
    /\ asked' = TRUE
    /\ caller' = "flagged"
    /\ UNCHANGED <<file, snapshot, phase, eventfd, worker, loop, watched,
                   clock, ready, cycled, signals, client, missed>>

RefreshSignals ==
    /\ caller = "flagged"
    /\ eventfd' = IF eventfd = "absent" THEN eventfd ELSE "signalled"
    /\ caller' = "idle"
    /\ UNCHANGED <<file, snapshot, phase, worker, loop, requested, watched,
                   clock, ready, cycled, asked, signals, client, missed, spent>>

\* The client re-queries a field it got a signal for: getField.  A call that
\* is not admitted gets the empty fallback, or an error once the transports
\* are down.
ClientQueries(f) ==
    /\ f \in signals
    /\ signals' = signals \ {f}
    /\ \/ /\ Admitted
          /\ client' = [client EXCEPT ![f] = fields[f]]
          /\ missed' = missed \ {f}
       \/ /\ ~Admitted
          /\ client' = IF phase = "stopped" THEN client ELSE [client EXCEPT ![f] = Missing]
          /\ missed' = missed \cup {f}
    /\ UNCHANGED <<file, snapshot, phase, eventfd, worker, loop, requested,
                   watched, clock, ready, cycled, caller, asked, spent>>

-----------------------------------------------------------------------------
(* start() *)

\* ServiceBase::start(): the eventfd is created, the transports are bound and
\* started one by one; one that is up takes calls.
Start ==
    /\ phase = "stopped"
    /\ Spend("starts", MaxStarts)
    /\ eventfd' = "quiet"
    /\ phase' = "starting"
    /\ UNCHANGED <<file, snapshot, worker, loop, requested, watched, clock,
                   ready, cycled, clients>>

\* A transport fails to start: ServiceBase::start() stops those that are up.
StartFails ==
    /\ phase = "starting"
    /\ phase' = "rollback"
    /\ UNCHANGED <<file, snapshot, eventfd, worker, loop, requested, watched,
                   clock, ready, cycled, clients, spent>>

StartWorker ==
    /\ phase = "starting"
    /\ failed' = FALSE
    /\ due' = TRUE
    /\ worker' = "force"
    /\ phase' = "running"
    /\ UNCHANGED <<file, snapshot, eventfd, cycled, stopAsked, armed, triggered,
                   results, announce, unsaid, requested, watched, recent,
                   ready, clients, spent>>

\* The worker thread cannot be created: queries are quiesced, the transports
\* stopped.
StartWorkerFails ==
    /\ phase = "starting"
    /\ Spend("faults", MaxFaults)
    /\ phase' = "rollback"
    /\ UNCHANGED <<file, snapshot, eventfd, worker, loop, requested, watched,
                   clock, ready, cycled, clients>>

\* Either way every transport has waited for the calls it admitted when the
\* eventfd is closed.
RolledBack ==
    /\ phase = "rollback"
    /\ caller = "idle"
    /\ eventfd' = "absent"
    /\ ready' = FALSE
    /\ phase' = "stopped"
    /\ UNCHANGED <<file, snapshot, worker, loop, requested, watched, clock,
                   cycled, clients, spent>>

-----------------------------------------------------------------------------
(* stop() *)

\* Query admission closes.
StopBegins ==
    /\ phase = "running"
    /\ phase' = "quiesce"
    /\ UNCHANGED <<file, snapshot, eventfd, worker, loop, requested, watched,
                   clock, ready, cycled, clients, spent>>

\* Mutant of StopWakes: does not wait for admitted calls.
StopWakesAtOnce ==
    /\ phase = "quiesce"
    /\ stopAsked' = TRUE
    /\ eventfd' = "signalled"
    /\ phase' = "join"
    /\ UNCHANGED <<file, snapshot, worker, armed, triggered, results,
                   announce, unsaid, failed, requested, watched, clock,
                   ready, cycled, clients, spent>>

\* Admitted calls have finished: request stop and wake the poll.
StopWakes ==
    /\ phase = "quiesce"
    /\ caller = "idle"
    /\ stopAsked' = TRUE
    /\ eventfd' = "signalled"
    /\ phase' = "join"
    /\ UNCHANGED <<file, snapshot, worker, armed, triggered, results,
                   announce, unsaid, failed, requested, watched, clock,
                   ready, cycled, clients, spent>>

\* Mutant of StopJoins: does not reap a worker that failed.
StopJoinsHealthy ==
    /\ phase = "join"
    /\ worker = "exited"
    /\ worker' = "none"
    /\ failed' = FALSE
    /\ requested' = FALSE
    /\ asked' = FALSE
    /\ eventfd' = "absent"
    /\ ready' = FALSE
    /\ stopAsked' = FALSE
    /\ cycled' = FALSE
    /\ phase' = "stopped"
    /\ UNCHANGED <<file, snapshot, armed, triggered, results, announce, unsaid,
                   watched, clock, caller, signals, client, missed, spent>>

\* The worker has ended, healthy or not: clear its state, close the eventfd,
\* then stop the transports, which ends readiness.
StopJoins ==
    /\ phase = "join"
    /\ worker \in {"exited", "failed"}
    /\ worker' = "none"
    /\ failed' = FALSE
    /\ requested' = FALSE
    /\ asked' = FALSE
    /\ eventfd' = "absent"
    /\ ready' = FALSE
    /\ stopAsked' = FALSE
    /\ cycled' = FALSE
    /\ phase' = "stopped"
    /\ UNCHANGED <<file, snapshot, armed, triggered, results, announce, unsaid,
                   watched, clock, caller, signals, client, missed, spent>>

-----------------------------------------------------------------------------
(* The refresh worker: runLoop *)

\* The head of the loop: compute wakeTs.
LoopHead ==
    /\ worker = "head"
    /\ armed' = (requested /\ ~stopAsked)
    /\ worker' = IF stopAsked THEN "exited" ELSE "poll"
    /\ UNCHANGED <<file, snapshot, phase, eventfd, stopAsked, triggered,
                   results, announce, unsaid, failed, requested, watched,
                   clock, ready, cycled, clients, spent>>

\* Mutant of PollTimeout: sleeps past the reconcile deadline.
PollTimeoutOnRequest ==
    /\ worker = "poll"
    /\ armed /\ ~recent
    /\ armed' = FALSE
    /\ worker' = "woken"
    /\ UNCHANGED <<file, snapshot, phase, eventfd, stopAsked, triggered, results,
                   announce, unsaid, failed, requested, watched, clock, ready,
                   cycled, clients, spent>>

PollTimeout ==
    /\ worker = "poll"
    /\ due \/ (armed /\ ~recent)
    /\ armed' = FALSE
    /\ worker' = "woken"
    /\ UNCHANGED <<file, snapshot, phase, eventfd, stopAsked, triggered, results,
                   announce, unsaid, failed, requested, watched, clock, ready,
                   cycled, clients, spent>>

\* Drain the eventfd and take the watcher's changes.
PollReady ==
    /\ worker = "poll"
    /\ eventfd = "signalled" \/ watched
    /\ eventfd' = IF eventfd = "signalled" THEN "quiet" ELSE eventfd
    /\ triggered' = watched
    /\ watched' = FALSE
    /\ armed' = FALSE
    /\ worker' = "woken"
    /\ UNCHANGED <<file, snapshot, phase, stopAsked, results, announce,
                   unsaid, failed, requested, clock, ready, cycled, clients,
                   spent>>

\* The watcher or poll throws: onRefreshWorkerExit.
WorkerThrows ==
    /\ worker \in {"head", "poll"}
    /\ Spend("faults", MaxFaults)
    /\ failed' = TRUE
    /\ armed' = FALSE
    /\ worker' = "failed"
    /\ UNCHANGED <<file, snapshot, phase, eventfd, stopAsked, triggered, results,
                   announce, unsaid, requested, watched, clock, ready, cycled,
                   clients>>

\* After the wake: stop, a forced cycle, a reconcile cycle, or nothing.
Decide ==
    /\ worker = "woken"
    /\ worker' = IF stopAsked THEN "exited"
                 ELSE IF requested \/ triggered THEN "force"
                 ELSE IF due THEN "reconcile" ELSE "head"
    /\ triggered' = FALSE
    /\ UNCHANGED <<file, snapshot, phase, eventfd, stopAsked, armed, results,
                   announce, unsaid, failed, requested, watched, clock, ready,
                   cycled, clients, spent>>

-----------------------------------------------------------------------------
(* doRefreshCycle *)

\* A forced cycle too soon after the last one is put off.
PutOff ==
    /\ worker = "force"
    /\ recent
    /\ requested' = TRUE
    /\ worker' = "head"
    /\ UNCHANGED <<file, snapshot, phase, eventfd, loop, watched, clock, ready,
                   cycled, clients, spent>>

\* The request is cleared before anything is read, so one that comes during
\* the cycle leads to another.
BeginCycle ==
    /\ worker = "reconcile" \/ (worker = "force" /\ ~recent)
    /\ requested' = FALSE
    /\ asked' = FALSE
    /\ worker' = "collect"
    /\ UNCHANGED <<file, snapshot, phase, eventfd, loop, watched, clock, ready,
                   cycled, caller, signals, client, missed, spent>>

\* refreshAll reads one source, without the manager's mutex.
Collect(s) ==
    /\ worker = "collect"
    /\ s \notin DOMAIN results
    /\ results' = [r \in DOMAIN results \cup {s} |->
                     IF r = s THEN file[s] ELSE results[r]]
    /\ UNCHANGED <<file, snapshot, phase, eventfd, worker, stopAsked, armed,
                   triggered, announce, unsaid, failed, requested, watched,
                   clock, ready, cycled, clients, spent>>

\* A source that was read replaces its fields; one that failed keeps them.
Merged(f) == IF results[Owner[f]] = Bad THEN fields[f] ELSE results[Owner[f]][f]

\* The latch closes in the first cycle that reads every required source.
AllRequiredSourcesOk == \A s \in Required : results[s] # Bad

\* Mutant of Merge: removed fields are not published.
MergeSilentOnRemoval ==
    /\ worker = "collect"
    /\ DOMAIN results = Sources
    /\ fields' = [f \in Fields |-> Merged(f)]
    /\ latched' = (latched \/ AllRequiredSourcesOk)
    /\ announce' = (latched' # latched)
    /\ unsaid' = {f \in Fields : fields'[f] \notin {fields[f], Missing}}
    /\ results' = <<>>
    /\ worker' = "publish"
    /\ UNCHANGED <<file, phase, eventfd, stopAsked, armed, triggered, failed,
                   requested, watched, clock, ready, cycled, clients, spent>>

\* ... and merges under it.
Merge ==
    /\ worker = "collect"
    /\ DOMAIN results = Sources
    /\ fields' = [f \in Fields |-> Merged(f)]
    /\ latched' = (latched \/ AllRequiredSourcesOk)
    /\ announce' = (latched' # latched)
    /\ unsaid' = {f \in Fields : fields'[f] # fields[f]}
    /\ results' = <<>>
    /\ worker' = "publish"
    /\ UNCHANGED <<file, phase, eventfd, stopAsked, armed, triggered, failed,
                   requested, watched, clock, ready, cycled, clients, spent>>

\* publishDiff, one field; a transport that throws loses the signal.
PublishField(f) ==
    /\ worker = "publish"
    /\ f \in unsaid
    /\ unsaid' = unsaid \ {f}
    /\ signals' = signals \cup {f}
    /\ UNCHANGED <<file, snapshot, phase, eventfd, worker, stopAsked, armed,
                   triggered, results, announce, failed, requested, watched,
                   clock, ready, cycled, caller, asked, client, missed, spent>>

PublishFails(f) ==
    /\ worker = "publish"
    /\ f \in unsaid
    /\ Spend("faults", MaxFaults)
    /\ unsaid' = unsaid \ {f}
    /\ missed' = missed \cup {f}
    /\ UNCHANGED <<file, snapshot, phase, eventfd, worker, stopAsked, armed,
                   triggered, results, announce, failed, requested, watched,
                   clock, ready, cycled, caller, asked, signals, client>>

\* Mutant of EndCycle: clears the request when the cycle is over.
EndCycleForgets ==
    /\ worker = "publish"
    /\ unsaid = {}
    /\ ready' = (ready \/ (announce /\ phase = "running"))
    /\ recent' = TRUE
    /\ due' = FALSE
    /\ cycled' = TRUE
    /\ requested' = FALSE
    /\ announce' = FALSE
    /\ worker' = "head"
    /\ UNCHANGED <<file, snapshot, phase, eventfd, stopAsked, armed, triggered,
                   results, unsaid, failed, watched, clients, spent>>

\* Readiness last, and only when the latch moved; then the deadlines.
EndCycle ==
    /\ worker = "publish"
    /\ unsaid = {}
    /\ ready' = (ready \/ (announce /\ phase = "running"))
    /\ recent' = TRUE
    /\ due' = FALSE
    /\ cycled' = TRUE
    /\ announce' = FALSE
    /\ worker' = "head"
    /\ UNCHANGED <<file, snapshot, phase, eventfd, stopAsked, armed, triggered,
                   results, unsaid, failed, requested, watched, clients, spent>>

-----------------------------------------------------------------------------
Environment ==
    \/ \E s \in Sources : \E contents \in Contents(s) : FileChanges(s, contents)
    \/ RefreshFlags
    \/ Start \/ StartFails \/ StopBegins

Time == IntervalOver \/ DeadlinePasses

Caller == RefreshSignals

Client == \E f \in Fields : ClientQueries(f)

Lifecycle == StartWorker \/ StartWorkerFails \/ RolledBack \/ StopWakes \/ StopJoins

Worker ==
    \/ LoopHead \/ PollTimeout \/ PollReady \/ WorkerThrows \/ Decide
    \/ PutOff \/ BeginCycle \/ Merge \/ EndCycle
    \/ \E s \in Sources : Collect(s)
    \/ \E f \in Fields : PublishField(f) \/ PublishFails(f)

Next == Environment \/ Time \/ Caller \/ Client \/ Lifecycle \/ Worker

Spec == Init /\ [][Next]_vars

\* Threads are scheduled, time passes and the client reads its signals.
\* Nobody is obliged to change a file, to ask for a refresh, to start or to
\* stop the service.
FairSpec ==
    /\ Spec
    /\ WF_vars(IntervalOver) /\ WF_vars(DeadlinePasses)
    /\ WF_vars(Caller) /\ WF_vars(Client)
    /\ WF_vars(Lifecycle) /\ WF_vars(Worker)

-----------------------------------------------------------------------------
(* Properties *)

Looping == {"head", "poll", "woken", "force", "reconcile", "collect", "publish"}

\* Types of the variables.
TypeOK ==
    /\ \A s \in Sources : file[s] \in Contents(s)
    /\ fields \in [Fields -> Vals \cup {Missing}]
    /\ client \in [Fields -> Vals \cup {Missing}]
    /\ phase \in {"stopped", "starting", "running", "rollback", "quiesce", "join"}
    /\ eventfd \in {"absent", "quiet", "signalled"}
    /\ worker \in Looping \cup {"none", "exited", "failed"}
    /\ DOMAIN results \subseteq Sources
    /\ \A s \in DOMAIN results : results[s] \in Contents(s)
    /\ unsaid \in SUBSET Fields /\ signals \in SUBSET Fields
    /\ missed \in SUBSET Fields
    /\ caller \in {"idle", "flagged"}
    /\ \A b \in {latched, stopAsked, armed, triggered, announce, failed, requested,
                 watched, recent, due, ready, asked, cycled} : b \in BOOLEAN
    /\ spent \in [changes : Nat, requests : Nat, starts : Nat, faults : Nat]

\* stop() closes the eventfd only after the worker is joined and admitted
\* calls are over: neither refresh() nor the loop ever finds it gone.
EventfdOutlivesUsers == worker \in Looping \/ caller = "flagged" => eventfd # "absent"

\* A refresh() is not forgotten: until a cycle begins after it, the flag
\* stays up, and a worker asleep without having seen it will find the
\* eventfd readable, now or when the call in flight returns, instead of
\* sleeping on to the reconcile deadline.
RefreshNotForgotten ==
    asked /\ phase # "stopped" =>
        /\ requested
        /\ worker = "poll" /\ ~armed => eventfd = "signalled" \/ caller = "flagged"

\* A client whose value of a field is out of date has its signal on the way,
\* worker deaths, failed starts and restarts included, unless a transport lost
\* the field's signal or the client's last query came while the service was
\* going down: nothing tells that client to ask again after the restart.
ClientInformed ==
    \A f \in Fields : client[f] = fields[f] \/ f \in signals \cup unsaid \cup missed

\* GetReady() is the manager's latch once the first cycle of an epoch is
\* over: "once all required sources have succeeded at least once, readiness
\* stays true".
ReadyServed == phase = "running" /\ cycled /\ worker # "publish" => ready = latched

\* After the files stop changing, every readable file's fields are served,
\* whatever the watcher missed and whoever asked when, while the loop lives.
ServesFiles ==
    <>[](phase = "running" /\ ~failed =>
            \A f \in Fields : file[Owner[f]] # Bad => fields[f] = file[Owner[f]][f])

\* A stop(), or the roll-back of a failed start, always ends.
StopEnds == phase \in {"rollback", "quiesce", "join"} ~> phase = "stopped"
=============================================================================
