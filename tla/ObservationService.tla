------------------------- MODULE ObservationService -------------------------
(***************************************************************************)
(* ObservationService: the start and stop sequences around the runtime,    *)
(* the aging, supervision and publication workers, the coalescing          *)
(* PublicationQueue between the model and the transports, and the issue    *)
(* list.                                                                   *)
(*                                                                         *)
(* The runtime is a producer of model events here, with a health the aging *)
(* loop polls (module ObservationRuntime has its inside); ServiceBase,     *)
(* ManagedWorker, LifecycleCoordinator and dirty_set are used from src/    *)
(* and modelled from that use.  A transport's publish call returns or      *)
(* throws.                                                                 *)
(***************************************************************************)
EXTENDS Integers, Sequences, FiniteSets

CONSTANTS
    Interfaces, Candidates,  \* publication keys of the two kinds
    LocalState,              \* the unit key
    KeyOrder,                \* all keys in dispatch order
    TransportOrder,          \* the transports in registration order
    None,
    TokenEndsWait,           \* a requested stop token ends waitAndTake() early
    MaxMarks,                \* bound: model events
    MaxStarts,               \* bound: start() calls
    MaxFaults                \* bound: failures and health changes

Range(s) == {s[i] : i \in DOMAIN s}
Keys       == Interfaces \cup {LocalState} \cup Candidates
Transports == Range(TransportOrder)
Intents    == {"changed", "removed"}

ASSUME ServiceConstants ==
    /\ LocalState \notin Interfaces \cup Candidates
    /\ Interfaces \cap Candidates = {}
    /\ Range(KeyOrder) = Keys
    /\ None \notin Intents
    /\ MaxMarks \in Nat /\ MaxStarts \in Nat /\ MaxFaults \in Nat

\* dirty_set is not part of the repository.  PublicationQueue.h says that
\* waitAndTake() ends "once closed AND nothing pending, or when st is
\* requested", publicationLoop's comment that it "returns nullopt only when the
\* set is empty"; publicationWorker_.stop() requests the token right after
\* close().  Both readings are modelled.
ASSUME TokenReading == TokenEndsWait \in BOOLEAN

KindOf(k) == IF k \in Interfaces THEN "interface"
             ELSE IF k \in Candidates THEN "candidate" ELSE "local"

VARIABLES
    lifecycle,    \* lifecycle_
    owner,        \* the thread inside start() or stop()
    base,         \* ServiceBase: down, up or ready
    admit,        \* the transports admit queries
    runtime,      \* runtime_: stopped or running
    producer,     \* a model event half marked: its local-state mark is due
    aging, supervision, publisher,  \* the workers: none, live, failed
    open,         \* publicationQueue_ accepts marks
    pending,      \* its generation: key -> intent
    batch,        \* per transport: what the taken generation still owes it
    down,         \* runtime parts whose health is bad
    issues,       \* issues_: workers and runtime parts
    failures,     \* issues_: <<transport, kind, intent>> of failed publishes
    last,         \* per key: the latest mark (history)
    heard,        \* per transport and key: the last signal that got through
    missed,       \* per transport and key: the latest mark will not
    dirty,        \* a start failed since the issue list was last cleared
    spent

workers == <<aging, supervision, publisher>>
queue   == <<open, pending, batch>>
list    == <<issues, failures>>
clients == <<last, heard, missed>>
vars    == <<lifecycle, owner, base, admit, runtime, producer, workers, queue,
             down, list, clients, dirty, spent>>

NoMarks == [k \in Keys |-> None]
Drained == batch = [t \in Transports |-> NoMarks]

Init ==
    /\ lifecycle = "stopped" /\ owner = "idle"
    /\ base = "down" /\ admit = FALSE
    /\ runtime = "stopped" /\ producer = FALSE
    /\ aging = "none" /\ supervision = "none" /\ publisher = "none"
    /\ open = TRUE /\ pending = NoMarks
    /\ batch = [t \in Transports |-> NoMarks]
    /\ down \in {{}, {"lldp"}}
    /\ issues = {} /\ failures = {}
    /\ last = NoMarks /\ heard = [t \in Transports |-> NoMarks]
    /\ missed = [t \in Transports |-> [k \in Keys |-> FALSE]]
    /\ dirty = FALSE
    /\ spent = [marks |-> 0, starts |-> 0, faults |-> 0]

Spend(what) == spent' = [spent EXCEPT ![what] = @ + 1]
MayFail == spent.faults < MaxFaults

-----------------------------------------------------------------------------
(* onModelEvent on a producer thread, into the PublicationQueue *)

\* Mutant of MarkKey: the first intent of a key stays.
MarkKeyFirstWins(k, i) ==
    /\ pending' = IF open /\ pending[k] = None
                  THEN [pending EXCEPT ![k] = i] ELSE pending
    /\ last' = [last EXCEPT ![k] = i]
    /\ missed' = [t \in Transports |-> [missed[t] EXCEPT ![k] = ~open]]

\* dirty_set::mark(): the last writer wins; a closed set discards the mark.
MarkKey(k, i) ==
    /\ pending' = IF open THEN [pending EXCEPT ![k] = i] ELSE pending
    /\ last' = [last EXCEPT ![k] = i]
    /\ missed' = [t \in Transports |-> [missed[t] EXCEPT ![k] = ~open]]

\* LocalInterface*/LocalAddressChanged: the interface's key, then the unit key.
InterfaceEvent(k, i) ==
    /\ runtime = "running" /\ ~producer
    /\ spent.marks < MaxMarks /\ Spend("marks")
    /\ MarkKey(k, i)
    /\ producer' = TRUE
    /\ UNCHANGED <<lifecycle, owner, base, admit, runtime, workers, open,
                   batch, down, list, heard, dirty>>

LocalStateEvent ==
    /\ producer
    /\ MarkKey(LocalState, "changed")
    /\ producer' = FALSE
    /\ UNCHANGED <<lifecycle, owner, base, admit, runtime, workers, open,
                   batch, down, list, heard, dirty, spent>>

CandidateEvent(k, i) ==
    /\ runtime = "running" /\ ~producer
    /\ spent.marks < MaxMarks /\ Spend("marks")
    /\ MarkKey(k, i)
    /\ UNCHANGED <<lifecycle, owner, base, admit, runtime, producer, workers,
                   open, batch, down, list, heard, dirty>>

-----------------------------------------------------------------------------
(* The publication worker *)

\* Mutant of Take: the worker takes nothing before the queue is closed.
TakeAtClose ==
    /\ publisher = "live" /\ Drained
    /\ pending # NoMarks /\ ~open
    /\ batch' = [t \in Transports |-> pending]
    /\ pending' = NoMarks
    /\ UNCHANGED <<lifecycle, owner, base, admit, runtime, producer, workers,
                   open, down, list, clients, dirty, spent>>

\* waitAndTake(): the whole generation at once, as soon as there is one.
Take ==
    /\ publisher = "live" /\ Drained
    /\ pending # NoMarks
    /\ batch' = [t \in Transports |-> pending]
    /\ pending' = NoMarks
    /\ UNCHANGED <<lifecycle, owner, base, admit, runtime, producer, workers,
                   open, down, list, clients, dirty, spent>>

\* dispatchPublication() walks the keys in order, publishToAll() the
\* transports in order: <<t, k>> is next when nothing before it is left.
IsNext(t, k) ==
    /\ batch[t][k] # None
    /\ \A a \in DOMAIN KeyOrder, b \in DOMAIN TransportOrder :
          batch[TransportOrder[b]][KeyOrder[a]] # None =>
             \E c \in DOMAIN KeyOrder, d \in DOMAIN TransportOrder :
                /\ KeyOrder[c] = k /\ TransportOrder[d] = t
                /\ c < a \/ (c = a /\ d =< b)

IssueOf(t, k, i) == <<t, KindOf(k), i>>

\* The transport takes the signal; a failure noted for it and this operation
\* is cleared.
Publish(t, k) ==
    /\ publisher = "live" /\ IsNext(t, k)
    /\ heard' = [heard EXCEPT ![t][k] = batch[t][k]]
    /\ batch' = [batch EXCEPT ![t][k] = None]
    /\ failures' = failures \ {IssueOf(t, k, batch[t][k])}
    /\ UNCHANGED <<lifecycle, owner, base, admit, runtime, producer, workers,
                   open, pending, down, issues, last, missed, dirty, spent>>

\* The transport throws: the signal is dropped and the failure noted.
PublishThrows(t, k) ==
    /\ publisher = "live" /\ IsNext(t, k)
    /\ MayFail /\ Spend("faults")
    /\ batch' = [batch EXCEPT ![t][k] = None]
    /\ missed' = [missed EXCEPT ![t][k] = missed[t][k] \/ pending[k] = None]
    /\ failures' = failures \cup {IssueOf(t, k, batch[t][k])}
    /\ UNCHANGED <<lifecycle, owner, base, admit, runtime, producer, workers,
                   open, pending, down, issues, last, heard, dirty>>

\* Mutant of PublisherFails: the exit handler reports nothing.
PublisherFailsSilently ==
    /\ publisher = "live" /\ ~Drained
    /\ MayFail /\ Spend("faults")
    /\ publisher' = "failed"
    /\ missed' = [t \in Transports |-> [k \in Keys |->
                    missed[t][k] \/ (batch[t][k] # None /\ pending[k] = None)]]
    /\ batch' = [t \in Transports |-> NoMarks]
    /\ UNCHANGED <<lifecycle, owner, base, admit, runtime, producer, aging,
                   supervision, open, pending, down, list, last, heard,
                   dirty>>

\* The worker throws in a batch (an issue could not be stored):
\* onPublicationWorkerExit().  What the batch still owed is gone.
PublisherFails ==
    /\ publisher = "live" /\ ~Drained
    /\ MayFail /\ Spend("faults")
    /\ publisher' = "failed"
    /\ missed' = [t \in Transports |-> [k \in Keys |->
                    missed[t][k] \/ (batch[t][k] # None /\ pending[k] = None)]]
    /\ batch' = [t \in Transports |-> NoMarks]
    /\ issues' = issues \cup {"publication"}
    /\ UNCHANGED <<lifecycle, owner, base, admit, runtime, producer, aging,
                   supervision, open, pending, down, failures, last, heard,
                   dirty>>

-----------------------------------------------------------------------------
(* Health, aging and supervision *)

HealthChanges(part) ==
    /\ MayFail /\ Spend("faults")
    /\ down' = IF part \in down THEN down \ {part} ELSE down \cup {part}
    /\ UNCHANGED <<lifecycle, owner, base, admit, runtime, producer, workers,
                   queue, list, clients, dirty>>

\* refreshRuntimeIssues(): report what is down, clear what recovered.
Refreshed == (issues \ {"runtime", "lldp"}) \cup down

\* Mutant of AgingRound: the poll clears issues and reports none.
AgingRoundClears ==
    /\ aging = "live"
    /\ issues' = issues \ {"runtime", "lldp"}
    /\ UNCHANGED <<lifecycle, owner, base, admit, runtime, producer, workers,
                   queue, down, failures, clients, dirty, spent>>

\* One round of agingLoop().
AgingRound ==
    /\ aging = "live"
    /\ issues' = Refreshed
    /\ UNCHANGED <<lifecycle, owner, base, admit, runtime, producer, workers,
                   queue, down, failures, clients, dirty, spent>>

\* age() throws: onAgingWorkerExit().
AgingFails ==
    /\ aging = "live"
    /\ MayFail /\ Spend("faults")
    /\ aging' = "failed"
    /\ issues' = issues \cup {"aging"}
    /\ UNCHANGED <<lifecycle, owner, base, admit, runtime, producer,
                   supervision, publisher, queue, down, failures, clients,
                   dirty>>

\* tick() throws: onSupervisionWorkerExit().
SupervisionFails ==
    /\ supervision = "live"
    /\ MayFail /\ Spend("faults")
    /\ supervision' = "failed"
    /\ issues' = issues \cup {"supervision"}
    /\ UNCHANGED <<lifecycle, owner, base, admit, runtime, producer, aging,
                   publisher, queue, down, failures, clients, dirty>>

-----------------------------------------------------------------------------
(* start() *)

StartClaim ==
    /\ lifecycle = "stopped" /\ owner = "idle"
    /\ spent.starts < MaxStarts /\ Spend("starts")
    /\ lifecycle' = "starting" /\ owner' = "base"
    /\ UNCHANGED <<base, admit, runtime, producer, workers, queue, down,
                   list, clients, dirty>>

\* ServiceBase::start(): the transports, which then admit queries.
StartBase ==
    /\ owner = "base"
    /\ base' = "up" /\ admit' = TRUE /\ owner' = "reopen"
    /\ UNCHANGED <<lifecycle, runtime, producer, workers, queue, down, list,
                   clients, dirty, spent>>

StartBaseFails ==
    /\ owner = "base"
    /\ MayFail /\ Spend("faults")
    /\ lifecycle' = "stopped" /\ owner' = "idle"
    /\ UNCHANGED <<base, admit, runtime, producer, workers, queue, down,
                   list, clients, dirty>>

\* reopen(): a fresh generation; marks a dead publisher left are forgotten.
StartReopen ==
    /\ owner = "reopen"
    /\ open' = TRUE /\ pending' = NoMarks
    /\ missed' = [t \in Transports |-> [k \in Keys |->
                    IF pending[k] # None THEN TRUE ELSE missed[t][k]]]
    /\ owner' = "publisher"
    /\ UNCHANGED <<lifecycle, base, admit, runtime, producer, workers, batch,
                   down, list, last, heard, dirty, spent>>

StartPublisher ==
    /\ owner = "publisher"
    /\ publisher' = "live" /\ owner' = "runtime"
    /\ UNCHANGED <<lifecycle, base, admit, runtime, producer, aging,
                   supervision, queue, down, list, clients, dirty, spent>>

StartRuntime ==
    /\ owner = "runtime"
    /\ runtime' = "running" /\ owner' = "ready"
    /\ UNCHANGED <<lifecycle, base, admit, producer, workers, queue, down,
                   list, clients, dirty, spent>>

\* refreshRuntimeIssues(), then ready: the phase is live from here.
StartReady ==
    /\ owner = "ready"
    /\ issues' = Refreshed /\ base' = "ready" /\ owner' = "aging"
    /\ UNCHANGED <<lifecycle, admit, runtime, producer, workers, queue, down,
                   failures, clients, dirty, spent>>

StartAging ==
    /\ owner = "aging"
    /\ aging' = "live" /\ owner' = "supervision"
    /\ UNCHANGED <<lifecycle, base, admit, runtime, producer, supervision,
                   publisher, queue, down, list, clients, dirty, spent>>

StartSupervision ==
    /\ owner = "supervision"
    /\ supervision' = "live"
    /\ lifecycle' = "running" /\ owner' = "idle"
    /\ UNCHANGED <<base, admit, runtime, producer, aging, publisher, queue,
                   down, list, clients, dirty, spent>>

\* The publication worker does not start: close, stop the transports, fail.
\* The runtime, the aging or the supervision worker does not start:
\* onStartFailedCleanUp(), which joins everything and keeps the issues.
StartFails ==
    /\ owner \in {"publisher", "runtime", "aging", "supervision"}
    /\ MayFail /\ Spend("faults")
    /\ dirty' = TRUE
    /\ owner' = IF owner = "publisher" THEN "close" ELSE "joinSupervision"
    /\ UNCHANGED <<lifecycle, base, admit, runtime, producer, workers, queue,
                   down, list, clients>>

-----------------------------------------------------------------------------
(* stop(), and the steps onStartFailedCleanUp() shares with it *)

\* quiesceQueriesOnTransports() comes first.
StopClaim ==
    /\ lifecycle = "running" /\ owner = "idle"
    /\ lifecycle' = "stopping" /\ owner' = "joinSupervision"
    /\ admit' = FALSE
    /\ UNCHANGED <<base, runtime, producer, workers, queue, down, list,
                   clients, dirty, spent>>

\* supervisionWorker_.stop(): a tick in progress ends first.
JoinSupervision ==
    /\ owner = "joinSupervision"
    /\ supervision' = "none" /\ owner' = "joinAging"
    /\ UNCHANGED <<lifecycle, base, admit, runtime, producer, aging, publisher,
                   queue, down, list, clients, dirty, spent>>

\* Mutant of JoinAging: the aging worker is left running.
JoinAgingNot ==
    /\ owner = "joinAging"
    /\ owner' = "stopRuntime"
    /\ UNCHANGED <<lifecycle, base, admit, runtime, producer, workers, queue,
                   down, list, clients, dirty, spent>>

JoinAging ==
    /\ owner = "joinAging"
    /\ aging' = "none" /\ owner' = "stopRuntime"
    /\ UNCHANGED <<lifecycle, base, admit, runtime, producer, supervision,
                   publisher, queue, down, list, clients, dirty, spent>>

\* runtime_->stop() joins the producers and detaches the sink.
StopRuntime ==
    /\ owner = "stopRuntime" /\ ~producer
    /\ runtime' = "stopped" /\ owner' = "close"
    /\ UNCHANGED <<lifecycle, base, admit, producer, workers, queue, down,
                   list, clients, dirty, spent>>

\* It throws.  In stop() this is logged, and the teardown goes on beside a live
\* producer.  onStartFailedCleanUp() has no handler: the exception leaves
\* start(), the abandoned transition resolves, and what was started stays.
StopRuntimeThrows ==
    /\ owner = "stopRuntime"
    /\ MayFail /\ Spend("faults")
    /\ IF lifecycle = "stopping"
       THEN owner' = "close" /\ UNCHANGED lifecycle
       ELSE owner' = "idle" /\ lifecycle' = "escaped"
    /\ UNCHANGED <<base, admit, runtime, producer, workers, queue, down, list,
                   clients, dirty>>

CloseQueue ==
    /\ owner = "close"
    /\ open' = FALSE /\ owner' = "joinPublisher"
    /\ UNCHANGED <<lifecycle, base, admit, runtime, producer, workers, pending,
                   batch, down, list, clients, dirty, spent>>

\* Mutant of JoinPublisher: requests the stop and does not wait for the worker.
JoinPublisherUnjoined ==
    /\ owner = "joinPublisher"
    /\ publisher' = "none"
    /\ owner' = IF lifecycle = "stopping" THEN "clear" ELSE "stopBase"
    /\ UNCHANGED <<lifecycle, base, admit, runtime, producer, aging,
                   supervision, queue, down, list, clients, dirty, spent>>

\* Mutant of JoinPublisher: it waits for a worker that is already dead.
JoinPublisherForever ==
    /\ owner = "joinPublisher"
    /\ publisher # "failed" /\ Drained /\ pending = NoMarks
    /\ publisher' = "none"
    /\ owner' = IF lifecycle = "stopping" THEN "clear" ELSE "stopBase"
    /\ UNCHANGED <<lifecycle, base, admit, runtime, producer, aging,
                   supervision, queue, down, list, clients, dirty, spent>>

\* publicationWorker_.stop(): a live worker publishes its batch to the end and
\* exits from waitAndTake(), with nothing pending unless the token ended it.
JoinPublisher ==
    /\ owner = "joinPublisher"
    /\ publisher = "live" => Drained /\ (pending = NoMarks \/ TokenEndsWait)
    /\ publisher' = "none"
    /\ owner' = IF lifecycle = "stopping" THEN "clear" ELSE "stopBase"
    /\ UNCHANGED <<lifecycle, base, admit, runtime, producer, aging,
                   supervision, queue, down, list, clients, dirty, spent>>

\* Only stop() clears the issue list.
ClearIssues ==
    /\ owner = "clear"
    /\ issues' = {} /\ failures' = {} /\ dirty' = FALSE /\ owner' = "stopBase"
    /\ UNCHANGED <<lifecycle, base, admit, runtime, producer, workers, queue,
                   down, clients, spent>>

\* ServiceBase::stop(): ReadyChanged(false), then the transports.
StopBase ==
    /\ owner = "stopBase"
    /\ base' = "down" /\ admit' = FALSE
    /\ lifecycle' = "stopped" /\ owner' = "idle"
    /\ UNCHANGED <<runtime, producer, workers, queue, down, list, clients,
                   dirty, spent>>

-----------------------------------------------------------------------------
Producing ==
    \/ \E k \in Interfaces, i \in Intents : InterfaceEvent(k, i)
    \/ \E k \in Candidates, i \in Intents : CandidateEvent(k, i)
    \/ LocalStateEvent

Publishing ==
    \/ Take
    \/ \E t \in Transports, k \in Keys : Publish(t, k) \/ PublishThrows(t, k)
    \/ PublisherFails

Monitoring ==
    \/ \E part \in {"runtime", "lldp"} : HealthChanges(part)
    \/ AgingRound \/ AgingFails \/ SupervisionFails

Starting ==
    \/ StartClaim \/ StartBase \/ StartBaseFails \/ StartReopen
    \/ StartPublisher \/ StartRuntime \/ StartReady \/ StartAging
    \/ StartSupervision \/ StartFails

Stopping ==
    \/ StopClaim \/ JoinSupervision \/ JoinAging \/ StopRuntime
    \/ StopRuntimeThrows \/ CloseQueue \/ JoinPublisher \/ ClearIssues
    \/ StopBase

Next == Producing \/ Publishing \/ Monitoring \/ Starting \/ Stopping

Spec == Init /\ [][Next]_vars

\* The threads of a started service keep running: the producer inside its
\* event, the publication worker, the aging loop, and start() and stop().
FairSpec ==
    /\ Spec
    /\ WF_vars(LocalStateEvent)
    /\ WF_vars(Take \/ \E t \in Transports, k \in Keys : Publish(t, k))
    /\ WF_vars(AgingRound)
    /\ WF_vars(StartBase \/ StartReopen \/ StartPublisher \/ StartRuntime
               \/ StartReady \/ StartAging \/ StartSupervision)
    /\ WF_vars(JoinSupervision \/ JoinAging \/ StopRuntime \/ CloseQueue
               \/ JoinPublisher \/ ClearIssues \/ StopBase)

-----------------------------------------------------------------------------
(* Properties *)

MarksType == [Keys -> Intents \cup {None}]

\* Every variable has its type.
TypeOK ==
    /\ lifecycle \in {"stopped", "starting", "running", "stopping", "escaped"}
    /\ owner \in {"idle", "base", "reopen", "publisher", "runtime", "ready",
                  "aging", "supervision", "joinSupervision", "joinAging",
                  "stopRuntime", "close", "joinPublisher", "clear", "stopBase"}
    /\ base \in {"down", "up", "ready"} /\ admit \in BOOLEAN
    /\ runtime \in {"stopped", "running"} /\ producer \in BOOLEAN
    /\ aging \in {"none", "live", "failed"}
    /\ supervision \in {"none", "live", "failed"}
    /\ publisher \in {"none", "live", "failed"}
    /\ open \in BOOLEAN /\ pending \in MarksType
    /\ batch \in [Transports -> MarksType]
    /\ down \subseteq {"runtime", "lldp"}
    /\ issues \subseteq {"runtime", "lldp", "aging", "supervision",
                        "publication"}
    /\ failures \subseteq Transports \X {"interface", "candidate", "local"}
                            \X Intents
    /\ last \in MarksType /\ heard \in [Transports -> MarksType]
    /\ missed \in [Transports -> [Keys -> BOOLEAN]]
    /\ dirty \in BOOLEAN
    /\ spent \in [{"marks", "starts", "faults"} -> Nat]

\* No worker outlives what it uses: the publication worker signals only while
\* the transports are up, aging and supervision call only a running runtime.
WorkersOutlived ==
    /\ publisher = "live" \/ ~Drained => base # "down"
    /\ aging = "live" \/ supervision = "live" => runtime = "running"

\* A query the service admits, unless a start is failing or was left by an
\* exception, never finds the phase
\* live over a stopped runtime: stop() quiesces the queries first.
LiveMeansServed ==
    admit /\ base = "ready" /\ lifecycle \notin {"starting", "escaped"}
      => runtime = "running"

\* Whoever calls into a part of the service, a worker or an admitted query,
\* finds it there.
UsersOutlived == WorkersOutlived /\ LiveMeansServed

\* A worker that died is on the issue list while the service runs, and the
\* list names no worker that is well, unless a failed start left it behind.
DeathsReported ==
    lifecycle = "running" =>
      /\ aging = "failed" => "aging" \in issues
      /\ supervision = "failed" => "supervision" \in issues
      /\ publisher = "failed" => "publication" \in issues
      /\ ~dirty => /\ "aging" \in issues => aging = "failed"
                   /\ "supervision" \in issues => supervision = "failed"
                   /\ "publication" \in issues => publisher = "failed"

\* The teardown is past the publication worker.
TornDown ==
    \/ owner = "clear"
    \/ owner = "stopBase" /\ lifecycle = "starting" /\ runtime = "stopped"

\* A teardown whose publication worker lived goes on to the transports with the
\* queue closed and no batch half published; everything marked before the queue
\* closed was published, unless the stop token ended the worker's wait.
\* (A start that fails beside a runtime its last stop() could not stop may
\* have no worker for the marks of that runtime.)
StopDrains ==
    TornDown /\ "publication" \notin issues
      => ~open /\ Drained /\ (pending = NoMarks \/ TokenEndsWait)

\* publicationLoop's comment: "waitAndTake still drains a pending generation
\* when stop is requested ... So a stop during shutdown does not strand
\* already-marked publications."
NoMarkStranded == TornDown /\ "publication" \notin issues => pending = NoMarks

\* The publication path keeps the promise of module Notification.
Status(t, k) ==
    IF pending[k] # None \/ batch[t][k] # None THEN "owed"
    ELSE IF missed[t][k] THEN "missed" ELSE "told"

Promise == INSTANCE Notification WITH
    Listeners <- Transports, Keys <- Keys, Intents <- Intents, None <- None,
    last <- last, heard <- heard,
    status <- [t \in Transports |-> [k \in Keys |-> Status(t, k)]]

Notifies == Promise!Spec

\* A marked key is signalled, or its signal is lost with a transport or the
\* worker: while the worker lives nothing stays owed for ever.
MarksSignalled ==
    \A k \in Keys :
        (\E t \in Transports : Status(t, k) = "owed")
          ~> (publisher # "live" \/ \A t \in Transports : Status(t, k) # "owed")

\* stop() and start() return.
OwnerReturns == owner # "idle" ~> owner = "idle"

\* The issue list follows the runtime's health while the aging loop lives: a
\* bad part enters it, and leaves it again when it is well.
HealthShown ==
    /\ "lldp" \in down ~> ("lldp" \in issues \/ "lldp" \notin down \/ aging # "live")
    /\ "lldp" \in issues ~> ("lldp" \notin issues \/ "lldp" \in down \/ aging # "live")

=============================================================================
