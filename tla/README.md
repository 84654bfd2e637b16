# TLA+ specifications of rmc-fabric

rmc-fabric holds two daemons.  **network-observationd** watches the host's
network through netlink and lldpd, correlates what it sees into remote
*candidates* and publishes them over D-Bus.  **inventory-agentd** reads identity
files, merges them into a snapshot and publishes its fields.  The modules in
this directory model the parts of both that run concurrently or keep state over
long sequences of events; TLC checks them on small instances and TLAPS proves
every invariant and action property of the passing runs for every value of the
constants.

`NO/` abbreviates `services/network-observation/`, `INV/`
`services/rmc-inventory/`.

## 1. Inventory

### network-observationd

| component | state | operations | hard behaviour |
|---|---|---|---|
| observation runtime (`NO/service/NetlinkLldpObservationRuntime.cpp`, `BoundedObservationQueue.h`) | bounded drop-oldest queue, resync mask, consumer thread, monitor and LLDP observer | start, stop, makeCallbacks, observationLoop, tick (superviseLldp, reassertLldpNeighbors, performResync) | producers, consumer, tick and stop interleave; overflow must be repaired; redumps and reconnects fail |
| LLDP supervision (same file, with `LldpObserver`) | four timers, a failure count, the observer | superviseLldp, reconnectLldp, reassert, LLDP resync | three callers share one throttle; dead watches, dead daemons, ageing |
| lldpd source (`NO/inputs/lldp/lldpd/`) | epoch, admission gate with leases, neighbour cache with generation, installed watch | start, stop, refreshAll, removeInterface, reassertAll, watch callback | subscription vs enumeration, reconnect vs events, stop vs everything, watch death |
| netlink monitor (`NO/inputs/netlink/NetlinkNetworkMonitor.cpp`, `live/`, `dump/`, `common/`) | live socket, worker, two eventfds, redump flag | start (initial dump), live loop, requestRedump, stop | five rollback points, cancellation, redump beside the live loop and beside stop, overruns |
| netlink parser, state cache, mapper (`parser/`, `state/`, `utils/`, `NO/service/NetlinkObservationMapper.cpp`) | ifindex cache, links, addresses, neighbours, bridge entries, merged devices | one handler per message type, deduplication, conversion | names resolved ahead of the messages, renames, dump beside changes |
| local state tracker (`NO/core/engine/LocalStateTracker.cpp`) | interfaces, MAC and IP reference counts, local sets | link and address events, clear | shared MACs and IPs, MAC changes, unordered events |
| observation model engine (`NO/core/engine/ObservationModelEngine.cpp`) | candidates, phase | link, address, neighbour, FDB and LLDP observations, restart, markLive, age | long sequences of evidence, tombstones and revival; events delivered outside the mutex |
| publication path (`NO/service/PublicationQueue.h`, `ObservationService.cpp`) | latest intent per interface, local-state and candidate key | onModelEvent, publicationLoop, publishBatch | two delivering threads, coalescing, failing transports |
| observation service (`NO/service/ObservationService.cpp`) | workers, issues, phase | start, stop, worker exits, issue reporting | start/stop order over four workers, a worker that dies |
| D-Bus transport, codec, query handlers, clients, tools, daemons | none of their own | marshalling, wiring | left to the libraries outside the tree |

Netlink worker and lldpd watch thread call the runtime's callbacks, which push
into the queue; the consumer thread applies items to the engine; the engine
calls the service's event sink, which marks the publication queue; the
publication worker turns marks into signals; clients re-query.  The supervision
worker calls tick(), the aging worker age().

### inventory-agentd

| component | state | operations | hard behaviour |
|---|---|---|---|
| inventory service (`INV/service/InventoryService.cpp`) | refresh flag, eventfd, worker, deadlines, readiness | start, stop, refresh, runLoop, doRefreshCycle, publishDiff | requests during a cycle or between check and poll, a throttle, a watcher that misses changes, stop beside calls |
| inventory manager (`INV/core/DefaultInventoryManager.cpp`) | snapshot, owners, readiness latch | refreshAll, getters | collection without the mutex, failing sources keep old values |
| file sources (`INV/inputs/files/`) | none | collect | missing, malformed and partial files |

### What makes the parts correct

- runtime: no netlink fact is silently lost; stop always ends and delivers what
  was queued, in one of the two readings of waitPop the repository gives;
  the model converges once the network is quiet;
- supervision: reconnects are spaced, observers are given up only for their own
  failures, LLDP recovers from every death somebody can see, a neighbour none of
  whose observations was lost does not age;
- netlink: the cache ends up as the kernel's tables, deduplication hides nothing,
  start and stop end and free what they hold, a dead worker is visible;
- observation service: workers never outlive what they call, deaths and bad
  health are on the issue list, every client has heard of the latest change of a
  key, is owed its signal, or missed it with a failing transport;
- lldpd source: no neighbour falls between subscription and enumeration, a stop
  leaves nothing behind, keepalives do not resurrect;
- tracker and engine: counts equal owners, derived state equals evidence, the
  host itself is never published, clients are never left uninformed;
- inventory: requests are not forgotten, readable files are served, clients are
  informed, readiness is a latch, stop always ends.

The hazards behind these, line by line, are listed in `PROJECT.json`.

## 2. Modules

| module | models | composed with |
|---|---|---|
| `ObservationRuntime` | runtime and queue | inputs as environment |
| `ObservationRuntimeProofs` | proofs | extends it |
| `LldpSupervision` | timing of the tick | lldpd as environment |
| `LldpdSource` | lldpd source, cache, watch supervisor, watch | lldpd as environment |
| `NetlinkMonitor` | monitor, event loop, dump, eventfds, over one cached fact | kernel as environment |
| `NetlinkState` | parser, ifindex cache, state cache, mapper, over the kernel's tables | kernel as environment |
| `LocalStateTracker` | tracker | |
| `ObservationModelEngine` | engine, classifier, publication queue, publication worker, a client | extends `LocalStateTracker` |
| `ObservationService` | service lifecycle, workers, publication queue, issue list | runtime and transports as environment |
| `Notification` | what the publication path promises | implemented by `ObservationService` |
| `LldpSupervisionProofs`, `LldpdSourceProofs`, `NetlinkMonitorProofs`, `NetlinkStateProofs`, `ObservationModelEngineProofs`, `ObservationServiceProofs` | proofs | extend their modules |
| `InventoryService` | inventory service, manager, sources, a client | |
| `InventoryServiceProofs` | proofs | extends it |
| `MC*` | TLC instances | |

**ObservationRuntime.** A *fact* is a key of one input with a value or `Absent`.
`reported` is what the inputs last handed over, `model` what the consumer last
applied; `queue`, `mask`, `held` are the queue's items, its resync bits and the
item between `waitPop` and the model.  `Push` is the queue's push with its drop
hook.  `phase` steps through start() and stop(), one action per call the code
makes, with the failure of each; `tick` steps through tick(), with `todo` the
keys a dump or an enumeration has still to visit, so that every visit interleaves
with the watch, the live loop and the consumer.  Every outcome of superviseLldp
may happen on any tick.  `waitPop` wraps a queue outside the tree, and the
repository describes its end twice: observationLoop's comment says that it returns
nullopt only when closed and drained, the header of the wrapper adds "or when @p st
is requested", which stop() does.  The constant `TokenEndsWait` is the choice
between the two (`TokenReading`): where it is TRUE a consumer may leave a closed
queue at any time.  The same constant decides the same question for waitAndTake in
`ObservationService`.

**LldpSupervision.** Each `time_point` member is an age, saturated at the largest
interval it is compared with; a unit is the 10 s supervision period.  One action
per branch of superviseLldp, reconnectLldp, reassertLldpNeighbors and
performResync, with the three callers of reconnectLldp (dead watch, failed probe,
resync) sharing the throttle as in the code.  One neighbour stands for all:
`known` says that the source's cache holds it, `queued` that an observation of it
waits in the queue.  Subscribing (`Subscribe`, in a reconnect and an acquisition)
succeeds also when the enumeration failed and the cache stays empty, and when the
new watch died before armExitHandler(): such a watch is `silent`, taken for alive
and reporting nothing.  `Reassert` stamps its timer and delivers the keepalive, or
loses it with an abandoned batch (`Keepalive`).  `tried`, `failedHere`, `rushed` and
`lost` (an observation of the neighbour was lost since it was last seen) are
history variables.

**LldpdSource.** Every thread changes the cache in one step and delivers in a
later one, as cacheAndForward, emitBatch, removeInterface and
reconcileAfterRefresh do.  `watch` and `fresh` are the installed watch and the
silent one a builder has not installed; each has the inbox lldpd fills.  `lock`
is the supervisor's mutex while refresh() holds it across the join of the old
loop thread, which is what makes stop()'s bounded wait time out.  `moved` stands
for "the generation differs from the snapshot's".  start(), refreshAll() and
reassertAll() are calls of one thread, as the runtime makes them; stop(),
removeInterface() and the watch run beside it.  A failed build in refresh()
changes nothing and is left out; so are non-MAC identities (delivered, never
cached), names, the liveness stamp, the interface filter, `emitRemovals = false`
and the socket time-outs.  An enumeration reads all neighbours in one step; the
code reads them interface by interface.

**NetlinkMonitor.** The threads inside start(), stop() and requestRedump() and
the worker are four program counters; each action is what the code does between
two points at which another thread can act.  The cache is one fact, a neighbour
entry: `Store` is the comparison and update under the state's mutex, `Emit` the
callback after the unlock, so a worker and a redump may emit in the opposite
order of their stores.  A dump has `Requests` requests; the kernel takes the
snapshot of a table when its request is sent, and one request carries the fact.
The live socket is a bounded queue whose overrun ends the worker, as ENOBUFS
does.  Both eventfds stay raised until somebody drains them, which is why the
redump has its own: with one (mutant `OneSignal`) a redump can swallow the
worker's wake and stop() hangs.  `lost`, `raced` and `undefined` are history: a
delivery dropped since the last redump, live traffic beside it, an eventfd
destroyed under a thread that polls it.

**NetlinkState.** The kernel's four tables change at any time; each change is a
notification, and the dump reads one table per request.  handleLink, handleAddr,
handleNeighborL3 and handleFdb name the interface through the ifindex cache,
which asks the kernel *as it is now* on a miss and falls back to the number, and
update the cache; `told` is what the consumer knows from the converted
observations.  `CacheKeys` and the merged devices follow the code's keys (a
bridge entry by MAC alone, an aggregate by MAC and address without interface).
An interface index is never allocated twice (`born`), as in Linux until the
counter wraps.  The kernel's own keys are kept: a neighbour entry is one per
interface and address, so another MAC takes it over with a single RTM_NEWNEIGH, and
a bridge entry is one per MAC and table (`Fdbs`: a port or VLAN), while the cache
keys the first by MAC too and the second by MAC alone.  `renamed`, `failed` and
`dropped` are history: the names some rename was about; the neighbour entries, by
interface name, whose MAC the kernel's entry lost without a removal (it failed, or
another MAC displaced it); and the MACs whose last bridge notification was a
removal.

**ObservationService.** `owner` steps through start(), stop() and
onStartFailedCleanUp, one action per call; the joins are steps that wait, and a
publication worker is joined when it has drained or died.  onModelEvent marks
the interface's key and then the unit key in two steps.  A batch is the taken
generation per transport, published key by key and transport by transport in the
code's order.  A publish call may throw: the signal is gone and its issue, which
carries transport, key kind and intent but not the key, is noted.  Worker deaths
call the exit handlers; the health the aging loop polls flips at any time.  A
runtime whose stop() throws is caught by stop(); in onStartFailedCleanUp nothing
catches it, and the exception leaves start() with the publication worker and the
transports up (`lifecycle = "escaped"`), from where only stop() goes on.

**Notification** states the promise without queue, worker or batch: each listener
has, for each key, heard the latest mark (`told`), is `owed` a signal or has
`missed` it; a signal makes it `told` only if it is the latest mark.
`ObservationService` implements it (`Notifies`) under the mapping in which a key
is owed while it is pending or in the batch.

**LocalStateTracker.** Interface entries, reference counts and local sets, one
action per branch of the two handlers.  A CIDR is a pair of IP and prefix, so
extractIpFromCidr is the first component and an interface may hold an IP twice.

**ObservationModelEngine.** A candidate keeps its evidence (neighbour entries,
IPs, FDB ports, bridge port, LLDP ids, the interfaces LLDP saw it on), class,
status and an idle age in units that distinguish fresh, aged and expired.  `View` is
what a query returns: every field on the wire, with chassis, port and system name as
one abstract id.  A keepalive overwrites id and interfaces and emits only when status
or class changed (`Speaks`); a link removal carries its own MAC, which the tracker
need not hold for that interface.  Handlers change the model and put their
events into `pending`; delivery is a separate step, because the code delivers
after unlocking, and the consumer and the service thread (start(), later the
aging worker) each have their own.  `marks` is the publication queue, `signals`
and `client` the other side.  Interfaces and addresses are those that pass the
policy and HardFilter's static prefix rules.

**InventoryService.** The loop's steps are `head`, `poll`, `woken`, `force` or
`reconcile`, `collect`, `publish`; a refresh() call is two steps (flag, then
eventfd), so that it may fall between any two of them.  The clock is two facts:
within minRefreshInterval, and past the reconcile deadline.  `Contents` is what a
file may yield: its fields, with omissible ones missing, or failure.  Readiness
follows the code: setReady only in a cycle in which the manager's latch moved.
Calls are admitted from the moment a transport is up until it is quiesced
(`Admitted`); a query that is not gets the empty fallback, or an error once the
transports are down, and the client then holds that (`missed`).  Both failures of
start() lead through a step in which the transports that are up wait for their
calls before the eventfd is closed.

External code is modelled from its use: `LifecycleCoordinator` (start and stop
are serialised; a stop during start requests cancellation), `ManagedWorker` (a
finished worker can be joined, an exception ends it and calls the exit handler),
`admission_gate` (leases, drain), `ServiceBase` (stopping transports clears
readiness, quiescing waits for admitted calls), `EventFdSignal` (signalled until
drained), the file watcher (may miss changes) and lldpd (sends each change to
every subscriber, in order).

## 3. Runs

| run | configuration | properties | result |
|---|---|---|---|
| `runtime` | `MCObservationRuntime.cfg` | NetlinkLossAccounted, PhasesOrdered, ShutdownDelivers, LldpLostOnlyByDiscard, ModelConverges, StopCompletes | hold |
| `supervision` | `LldpSupervision.cfg` | AttemptsSpaced, KeptAlive, EscalationEarned, Recovers | hold |
| `lldp_source` | `LldpdSource.cfg` | StoppedIsQuiet, NoNeighbourMissed, KeepaliveBounded, DeathNoticed | hold |
| `lldp_reconcile` | `LldpReconcile.cfg` | RemovedStaysCorrect | violated |
| `netlink_monitor` | `NetlinkMonitor.cfg` | SignalOutlivesUsers, StoppedIsClean, DeadWorkerReported, ViewSettles, CallsEnd | hold |
| `netlink_redump` | `NetlinkRedump.cfg` | RedumpRestores | violated |
| `netlink_state` | `NetlinkState.cfg` | TypeOK, CacheSound, CacheConverges | hold |
| `engine_client` | `EngineClient.cfg` | ClientInformed, EvidenceConsistent | hold |
| `engine_local` | `EngineLocal.cfg` | OwnershipExact, LocalMacHidden, ClientInformed, RemovedMeansHidden | hold |
| `observation_service` | `ObservationService.cfg` | UsersOutlived, DeathsReported, StopDrains, Notifies, MarksSignalled, OwnerReturns, HealthShown | hold |
| `inventory` | `InventoryService.cfg` | EventfdOutlivesUsers, RefreshNotForgotten, ClientInformed, ServesFiles, StopEnds | hold |
| `inventory_ready` | `InventoryReady.cfg` | ReadyServed | violated |

`OwnershipExact` joins the MAC and the IP counts, `CacheSound` what the consumer
was told (`CacheTold`) and what backs a merged device (`DeviceBacked`),
`UsersOutlived` the workers (`WorkersOutlived`) and the admitted queries
(`LiveMeansServed`), `CallsEnd` start() and stop(), `Recovers` the observer, the
resync bit and lost keepalives, `HealthShown` that bad health gets onto the issue
list and off it again.  Type correctness is proved for every module with proofs; the run
of `NetlinkState` checks it as well.

The passing runs visit between 160,000 (`observation_service`) and 2.2 million
(`supervision`) states; the longest (`inventory`) takes between two and three
minutes with two workers.

### Bounds

- `runtime`: one fact per source with two values, a queue of capacity 2, two
  reports, two starts, one failure.  Capacity 2 lets an overflow drop an item of
  the other source than the one coming in; two starts exercise restart after stop
  and after a failed start.  The proofs drop all of these bounds.
- `supervision`: retry interval 3, probe interval 6, ageout 5, failure limit 2,
  gaps of up to 2 units between ticks, three faults (a failed enumeration or a
  silent watch is one) and one drop or abandoned batch: enough for an escalation, a
  re-acquisition and a second failure.  The keepalive period is
  derived by the code's clamp.
- `lldp_source`: one interface with two interchangeable neighbours, two changes,
  two calls of refreshAll, reassertAll or removeInterface, two starts, one fault.
  Two neighbours are needed for a batch to be interrupted in the middle.
- `netlink_monitor`: two requests per dump, the first with the fact and one after
  it, a socket of
  one message so that the second change in a row overruns it, two starts so that
  a second epoch meets what the first left, one redump, one fault.
- `netlink_state`: two indexes and two names (renames, masters and name reuse
  need two), two MACs and one address (so that one takes it from the other), two
  bridge tables for a MAC to be in both, a combined neighbour state besides an exact
  one, four kernel changes placed anywhere around the dump.
- `engine_client`, `engine_local`: one MAC (candidates are independent but for
  the local sets); one interface without addresses of its own, with two bridge
  ports and two LLDP ids, for what a keepalive overwrites, or two interchangeable
  interfaces that share MAC and IP, the IP under two prefixes, without bridge ports
  and LLDP; two epochs; no bound on the number of observations.  The client of the
  engine starts every epoch with a drained publication queue; what a failing
  transport or a stranded mark costs it is the subject of `ObservationService`.
- `observation_service`: one interface, one candidate and the unit key, two
  transports, so that one transport's failure is seen beside the other's signal;
  two marks, two starts, one fault (a worker death, a throw, a failed start or a
  health change each).
- `inventory`: a required and an optional source, one file change, one request,
  two starts, one fault.

Symmetry is declared only for sets whose elements the module never tells apart
(neighbours, interfaces, ports) and only in runs without liveness.  Deadlock
checking is off where the environment may fall silent and the daemon then rests
in its stopped state or idles (all but `supervision`, whose clock always ticks).

### Fairness

Weak fairness only, on steps the code takes on its own: threads that are
scheduled (consumer, workers, supervision, the thread in start(), stop() or
requestRedump()), dumps and walks that go on because the kernel answers them,
time that passes, and a client that reads its signals.  Nothing obliges the
network, a file or a user to do anything, and failures are bounded rather than
assumed away.  In `observation_service` publishing is fair but throwing is not:
`MarksSignalled` needs a transport call that returns.  `Recovers`
carries its own premise: the daemon eventually stays up.

### What the violations show

- `lldp_reconcile`: after a reconnect, a neighbour that the new watch reports
  between the comparison of the caches and the delivery of the removals is
  reported removed although lldpd and the cache hold it; keepalives never
  recreate a candidate.
- `netlink_redump`: the worker handles a change that the dump's snapshot does not
  have, then the older dump value is stored and emitted as the newer one; nothing
  corrects it until the entry changes again.  `ViewSettles` shows that without
  live traffic beside it a redump does restore.
- `inventory_ready`: after stop() and start() GetReady() stays false although the
  manager's latch is closed, because readiness is announced only when the latch
  moves.

### Where a comment promises more than a property states

Six properties hold with exceptions.  The exceptions are written into the properties
exactly, and each is reachable: six more configurations check what a comment of the
repository says without the exception, and TLC refutes every one of them in seconds.

- `RuntimeToken.cfg` (QueuedIsDelivered), `ServiceToken.cfg` (NoMarkStranded): if
  a requested stop token ends the wait, as `BoundedObservationQueue.h:46-47` and
  `PublicationQueue.h:98-99` say, a stop leaves queued observations and marked
  publications behind, against the comments in
  `NetlinkLldpObservationRuntime.cpp:254-255` and
  `ObservationService.cpp:389-391`. Which pair is right the tree does not show:
  the queues they wrap are outside it and
  `BoundedObservationQueueTests.cpp:134-152` requests a stop on an empty queue
  only. The passing runs take the reading of the loops (`TokenEndsWait = FALSE`);
  the proofs cover both, with the loss as the exception that the other reading
  makes.
- `LldpKeepalive.cfg` (NeverAgedOut, `NetlinkLldpObservationRuntime.cpp:35-36`):
  the keepalive period is half the ageout and its timer is stamped whatever
  becomes of the batch, so a single keepalive lost to an abandoned batch, an
  overflow or the resync of its own tick ages a neighbour that is still there.
  `KeptAlive` shows that nothing else does.
- `LldpSilentWatch.cfg` (DeadWatchRepaired, `LldpWatchSupervisor.h:83`): a watch
  whose loop exits before its exit handler is armed is never reported dead; the
  probe opens its own connection and succeeds, so nothing replaces the watch until
  lldpd fails or an LLDP item is dropped. `Recovers` states what the code does
  achieve.
- `EngineKeepalive.cfg` (OnlyNoOpsSuppressed, `ObservationTypes.h:75-76`): a
  keepalive changes LLDP ids or interfaces that queries return and says nothing.
  `ClientInformed` shows that a client can be behind in these fields only.
- `EngineRemoval.cfg` (RemovedIsHidden, `ObservationModelEngine.cpp:104`): an
  interface that the tracker knows by an address only (or whose MAC change was
  dropped) is removed with a MAC; the event reports the candidate of that MAC
  removed, and it stays published. `RemovedMeansHidden` shows that there is no
  other such case.

### Observations without a run of their own

Runtime and LLDP.  performResync discards the whole backlog when only the netlink
bit was taken, LLDP items included, and no bit records their loss, although
`BoundedObservationQueue.h:20-22` and `:83-85` read as if every drop were owed;
`LldpLostOnlyByDiscard` states that this is the only such step.  A watch that dies
before armExitHandler is never reported dead, so `DeathNoticed` speaks of a watch
that is installed alive; what becomes of the other is above.  A lease drain that times out
leaves the cache as it is without latching the source unusable, so
`StoppedIsQuiet` excludes it.

Engine.  onLldpObservation applies no local-MAC check, so `LocalMacHidden` and
`RemovedMeansHidden` except the MACs that the host and an LLDP neighbour both carry
(`Claimed`); the run has none (`LldpMacs = {}`).
A candidate hidden because one of its IPs became local is revived, local IP
included, by evidence for another IP (`ObservationModelEngine.cpp:488`); the
repository's `README.md:330` and `:354-358` describe the filter more strictly.

Netlink.  requestRedump() checks isRunning() before it claims its flag; a thread
that stops between the two can have its eventfd destroyed after closeResources()
waited (`undefined`).  The daemon never meets this: its only caller is the
supervision thread, joined before the runtime stops.  A renamed link leaves its
old name's entry and addresses behind, a neighbour entry that the kernel marks
FAILED has no MAC in its message and lingers until it ages, one whose address
another MAC takes over lingers as well since no removal is sent for it, a MAC in two
bridge tables is lost with the first removal although the other entry stays
(`NetlinkState.h:9-13` notes the key), a removal of one of two
entries with the same MAC and address on two interfaces takes the address from
the merged device, a device without a bridge entry is not present, and a RTM_DELLINK
first invalidates the cached name and then its own IFLA_IFNAME restores it.
`CacheConverges` and `CacheSound` are stated with these exceptions.  The lingering
entry outlives its interface: when the failed entry and then the link are deleted
and another link takes the name, the old entry is still cached under it.  This
takes six kernel changes, two more than the run has, and came out of the proof: the
exception used to be stated for the interface index and was not inductive.

Observation service.  A failed start leaves the issue list as it is (only stop()
clears it), so `DeathsReported` excuses entries that a failed start left behind.
An issue of a failed publish names kind and intent, not the key: a later success
for another key clears it although the lost signal is never repeated.  The
self-stop guard lists the aging and supervision workers but not the publication
worker (`docs/resilience.md:85`).  While a failed start cleans up, queries are
still admitted with phase live over a stopped runtime, so `LiveMeansServed`
excludes it.  The inventory D-Bus adapter catches what its emit throws, so there
a lost signal raises no issue.

Inventory.  A client that re-queries while the service shuts down gets an empty
fallback, as `docs/operations.md:29-32` announces; the next epoch publishes changes
against the snapshot that survived the stop, so no signal corrects the client
unless the field changes again, and `ClientInformed` excepts it (`missed`).  The
query handler of the observation daemon has the same fallback; there the restart
reports every candidate removed and, once seen again, changed.

## 4. Proofs

The theorems of eight proof modules hold for every value of the constants under
the named assumptions of the modelled module: `KeysDisjoint`, `ValuesDistinct`,
`BoundsNat`, `TokenReading` (runtime: `TokenEndsWait` is a Boolean, either one),
`IntervalsPositive` (supervision: positive intervals, a
positive failure limit), `SourceBounds` (lldpd source: natural bounds),
`MonitorValues`, `MonitorBounds` (netlink monitor: `Absent` and `Nothing` are no
values, at least one request and one socket slot, natural bounds),
`StateValues`, `NumeralIsNoName`, `NoneIsNoEntry` (netlink state: `None` is no
value, a printed index is not an interface name), `NoMacIsNoMac`, `FiniteHost`,
`MacRoles`, `EngineDistinct`, `RestartsNat`, `NoCandidateIsNone` (tracker and engine:
finitely many interfaces and addresses, the placeholders are no values),
`ServiceConstants` (observation service: disjoint key kinds, an
order over all keys, natural bounds), `TokenReading` again, and
`RequiredKnown`, `OwnersKnown`, `InventoryValues`, `InventoryBounds` (inventory).
Each has an inductive invariant in parts, one preservation lemma per part with
one step per action, and theorems that follow from the invariant alone.  Three
theorems have a hypothesis of their own: `TicksOftenEnough`, below, and
`~TokenEndsWait`, under which a stop loses nothing that was queued or marked.

**ObservationRuntimeProofs.**  `TypeCorrect` (with the queue bound),
`NetlinkLossesAreAccounted`, `PhasesAreOrdered`, `SilenceBeforeClose`,
`ShutdownIsLossless`, `QueuedIsDeliveredWhenDrained`, `LldpIsLostOnlyByDiscard`.
`NetlinkLossAccounted` says of
every present netlink fact that either the items in transit settle it at its
reported value or its repair is owed.  It is not inductive alone: a push may drop
an item whose tag is not its fact's source (excluded by `ItemsTagged`), a redump
might visit another source's keys, and a stop might leave a tick half-way.
`PhasesOrdered` states what each phase of start() and stop() may rely on;
`TypeOK /\ PhasesOrdered /\ NetlinkLossAccounted` is inductive.  The argument goes
through lemmas about `Settles`: a push of a fact settles it (`PushSettlesOwn`), a
push of another leaves it settled or raises the bit of the source it drops
(`PushKeepsOther`), and popping and applying move the settled value on
(`PopSettles`, `ApplySettles`).  Shutdown follows: a consumer leaves a closed
queue when it is empty, and where a stop token ends the wait what it leaves behind
is in the queue.

**LldpSupervisionProofs.**  `TypeCorrect`, `AttemptsAreSpaced`,
`EscalationsAreEarned`, `NeighboursAreKeptAlive`.  Neither of the first two
properties is inductive alone, since both speak of
the history variables `tried` and `failedHere` and the code decides by its own
timer and counter.  `ThrottleHonest` ties them for a live observer: the last
attempt is at least as old as the throttle says, or older than the interval
(acquiring clears the throttle and starts a new history at once).
`CountHonest` says that the counter is the observer's own.  The arithmetic is in
lemmas about saturating ages (`HorizonIsLargest`, `OlderAges`).
`NeighboursAreKeptAlive` holds where `TicksOftenEnough` does: the keepalive period
plus the longest gap between two ticks is at most the ageout and one unit, which
the defaults (60 s ageout, 30 s keepalive) satisfy for ticks up to 40 s apart.  The
runtime does not enforce it, since the supervision thread may be delayed by a slow
reconnect, and without it the property is false.  `Alive` carries the argument: the
model saw the neighbour no earlier than the last keepalive, and once a tick has
passed reassertLldpNeighbors no earlier than a period before that tick, unless an
observation of it is on its way or was lost; a neighbour the cache does not hold
(the enumeration failed, or the observer is gone) is not spoken of.

**LldpdSourceProofs.**  `TypeCorrect`, `StoppedSourcesAreQuiet`,
`KeepalivesAreBounded`, `DeathsAreNoticed`, `NoNeighboursAreMissed`.  `Threading`
says where each thread may be in each epoch and who has the gate and the
supervisor's lock; `Leasing` that whoever holds an observation has a lease, and that
a drained, stopped source has none; `Watching` that no watch is installed around an
epoch or in a swap, and that an installed live one is armed; `Emptied` and `Guarded`
that the cache of such a source stays empty and that no further keepalive is taken
once one went out late.  The stop argument is the code's: the gate is closed before
stopped_ is set under the lock, a reconnect that built its watch meets the flag, and
the drain waits for the leases, unless a wait times out (`incomplete`, `undrained`).
For `NoNeighboursAreMissed`, `Admitting` says when the gate is open, `Truthful` that
the last event about a neighbour in the inbox of any subscribed watch is what lldpd
holds now, and `Covered` that every neighbour is cached, or an event about it is
still to be read (`Awaited`), or the walk over the enumeration has still to reach it
(`Listed`).

**InventoryServiceProofs.**  `TypeCorrect`, `EventfdIsThere`,
`RefreshIsRemembered`, `ClientsAreInformed`.  The inductive invariant has five
parts: `Threading` (in which phases a worker, an admitted call and the eventfd
exist), `Flags`, `Requests`, `Publication` (signals are owed only between a merge
and the end of its cycle) and `Values`.  `Requests` needs `Threading`, since a
call that signals must find the eventfd; its critical step is the loop's head,
which goes to sleep unarmed only when no request is up.  `ClientsAreInformed`
needs `Publication`: a merge replaces the set of owed signals, so it must have
been empty.  A refused query and a lost signal enter `missed`, which only an admitted
query leaves.

**NetlinkMonitorProofs.**  `TypeCorrect`, `SignalsOutliveUsers`,
`StoppedMonitorsAreClean`, `DeadWorkersAreReported`, `ViewsSettle`.  The invariant:
`Control` (at which steps of start() and stop() a worker and the eventfds exist),
`Flags` (the live loop goes with the eventfds; a worker that is not live between its
spawn and a stop has been recorded), `Data` and `Caching`.  The last is what the
empty cache of a stopped monitor rests on: a redump that clears and dumps has its
eventfd unless the teardown destroyed it under the redump, so as long as that did
not happen (`undefined`) no dump is left to write when stop() is through.
`ViewsSettle` adds five parts.  `Carrying`: a change in hand is one its thread is at
the step of emitting, and a dump carries the fact in one answer only.  `Queueing`:
the last message in the live socket is the kernel's value, and while the socket is
empty so is what the initial dump has still to handle.  `Replaying`: so is what a
redump brings that nothing ran beside.  As long as no delivery was lost, no redump
raced and no eventfd was destroyed, `Caught` ties the cache to the kernel once
socket and dumps are through, and `Following` the consumer's view to the cache once
nothing is in hand, except for a removal, which no redump replays.

**NetlinkStateProofs.**  `TypeCorrect`, `CacheIsSound`, `TablesConverge`.  `Sound`
(types, what was told, what backs a device) needs nothing but the cache: one lemma
per update function.  Convergence is an argument about the socket.  For every
subject (a link name, an address, a neighbour entry, a bridge entry) either the last
waiting message about it agrees with the kernel as it is now, or none waits and the
cache, together with what is left of the running answer, agrees (`Links`,
`Addresses`, `Neighborhood`, `Bridge`); `Noticed` says that every change of the
kernel ends the socket with an agreeing message, and the `Process` lemmas that
handling the last one makes the cache agree.  The hard part is the name under which a
message is filed, resolved when it is handled, perhaps after its link is gone:
`Naming` says that under a name no rename was about the ifindex cache and the waiting
messages know exactly the links born with it, `Announced` that a living link is cached
or will be announced by the first message about it or by the dump, `Succession` that
a link is known while messages about an earlier owner of its name wait, and `Harmless`
that a message filed under a number, because nobody can name its dead link any more,
takes nothing that was cached.

**ObservationModelEngineProofs.**  `TypeCorrect`, `OwnershipIsExact`,
`EvidenceIsConsistent`, `LocalMacsAreHidden`, `ClientsAreInformed`,
`RemovalsAreTrue`.  `OwnershipExact` equates reference counts with cardinalities of
owner sets; each branch of the tracker's handlers adds or removes one owner
(`LinkPresentMacs`, `AddressPresentIps` and their removals), except that a link's
removal takes all its addresses, of which several may share an IP.  `Candidates` says
that each candidate is `Good` for the phase: backed by evidence, and no status that
the handlers could not have given it; one lemma per helper (`ConcludedGood`,
`AgedGood`, `RestartedGood`, ...).  `Tombstones` says that the candidate of a local
MAC is a tombstone or absent; it needs `OwnershipExact` and the reconciliation in the
same step.  For the client, `WhoReports` shows of every step that changes what a
client would see that its thread's events tell of it, and `InformedStep` follows the
news from the events through marks and signals to the query; `quiet` marks the
candidates a keepalive changed silently, and what it changed in them is all a client
may lack.  `RemovalsAreTrue` follows from the same split.

**ObservationServiceProofs.**  `TypeCorrect`, `UsersAreOutlived` (from
`WorkersAreOutlived` and `LiveIsServed`), `DeathsAreReported`,
`StopsDrain`, `NoMarkIsStranded`, and the refinement
`PromiseKept` with `ToldAreCurrent`.  `Control` says which step of start(), its
clean-up and stop() finds which worker; `Flags` and `Deaths` tie admission, the
queue's state and the issue list to it; `Draining` says that only a live worker
has a batch and that a teardown without a worker meets an empty queue or an
unstopped runtime; `Fresh` that whatever is pending, in a batch or last heard is
the latest mark, in this order, unless it was missed.  The refinement maps each
action: a mark to `Mark` (owed where the queue is open, missed where it is
closed), a published signal to `Tell`, which `Fresh` shows to carry the latest
mark, and a throwing transport, a dead worker or a dropped batch to `Miss`; every
other action leaves `Status` alone.

Only model-checked: the liveness properties (`ModelConverges`, `StopCompletes`,
`Recovers`, `CallsEnd`, `MarksSignalled`, `OwnerReturns`, `HealthShown`,
`ServesFiles`, `StopEnds`), since the prover has no ENABLED.  The three violated
properties are false and have no theorem.

## 5. Not modelled

- Byte-level work: the walk over netlink attributes and its length checks, the
  rendering of addresses, the parsing of inventory files, the bounded socket I/O
  of the lldpd connection.  Its outcomes (a message, a value, a failure) are
  inputs of the models.
- D-Bus marshalling and the codecs: conversions between records and the message
  types of a library that is not part of the tree.  They keep no state; a failing
  call is the throwing transport of `ObservationService`.  Of the query handlers only
  the fields of a candidate on the wire (`View`) and the admission of inventory calls
  are modelled.
- The clients and the command-line tools: one blocking call each, and printing.
- The daemons' wiring, their signal handling (external libraries) and the
  interop contract's types and names.
- Texts of logs and issues, versions, timestamps and the source-state records of
  the inventory, the time a candidate was first seen, the LLDP strings beyond their
  being the same or not.
- Operations the daemons never call: setClassifier and setInterfacePolicy after
  start, edits of the monitor's watch list.

## 6. Plan

1. Proofs beyond the runs' properties: the safety halves of the liveness arguments
   (what each waiting step of stop() and start() waits for is on its way), and
   an abstract specification of the runtime (`reported` reaches `model` or is owed)
   that `ObservationRuntime` implements.
2. The runtime's environment refined: its netlink input by `NetlinkMonitor`, its
   LLDP input by `LldpdSource`.
3. The codecs as operators, each decoding what it encodes.

## 7. Running

    tlc -workers 2 -config InventoryService.cfg MCInventoryService
    tlapm ObservationRuntimeProofs.tla
    tlapm InventoryServiceProofs.tla
    tlapm LldpSupervisionProofs.tla
    tlapm LldpdSourceProofs.tla
    tlapm NetlinkMonitorProofs.tla
    tlapm NetlinkStateProofs.tla
    tlapm ObservationModelEngineProofs.tla
    tlapm ObservationServiceProofs.tla

The definitions named "Mutant of ..." are deliberately wrong versions of the
definition that follows; each property is violated when one of them replaces it
(`mutants` in `PROJECT.json`).
