--------------------------- MODULE NetlinkMonitor ---------------------------
(***************************************************************************)
(* NetlinkNetworkMonitor: its lifecycle, the live worker                   *)
(* (NetlinkEventLoop), the dump run by start() and by requestRedump()      *)
(* (NetlinkInitialDump), the two eventfds that interrupt them, and the     *)
(* state cache all of them share.                                          *)
(*                                                                         *)
(* Four threads: the one inside start(), the one inside stop(), the one    *)
(* inside requestRedump() and the worker.  Any of the public calls may     *)
(* overlap, as the class's interface allows.  The cache is reduced to one  *)
(* kernel fact (a neighbour entry): updateNeighbor() compares and stores   *)
(* under the mutex, the callback runs after the unlock, so storing and     *)
(* emitting are two steps.  What each kind of message does to the cache is *)
(* module NetlinkState's subject.                                          *)
(***************************************************************************)
EXTENDS Integers, Sequences

CONSTANTS
    Vals,         \* values of a present fact
    Absent,       \* the fact is not there
    Nothing,      \* a thread holds no observation to emit
    Requests,     \* dump requests per dump (5 in the code)
    FactRequest,  \* the request whose answer carries the fact
    SocketCap,    \* messages the live socket holds (SO_RCVBUF)
    MaxChanges,   \* bound: kernel changes per behaviour
    MaxStarts,    \* bound: start() calls
    MaxRedumps,   \* bound: requestRedump() calls
    MaxFaults     \* bound: failed operations and dropped deliveries

ASSUME MonitorValues ==
    /\ Absent \notin Vals
    /\ Nothing \notin Vals \cup {Absent}
ASSUME MonitorBounds ==
    /\ Requests \in Nat \ {0} /\ FactRequest \in 1 .. Requests
    /\ SocketCap \in Nat \ {0}
    /\ MaxChanges \in Nat /\ MaxStarts \in Nat /\ MaxRedumps \in Nat
    /\ MaxFaults \in Nat

Facts   == Vals \cup {Absent}
Dumpers == {"start", "redump"}
Signals == {"stop", "redump"}
Eventfd == {"gone", "quiet", "raised"}

VARIABLES
    lifecycle,     \* lifecycle_ (LifecycleCoordinator)
    cancel,        \* the start transition's stop token was requested
    starter,       \* the thread inside start()
    stopper,       \* the thread inside stop()
    redumper,      \* the thread inside requestRedump()
    worker,        \* worker_ (ManagedWorker)
    loop,          \* liveLoop_ exists: its socket is bound
    signal,        \* stopSignal_ ("stop") and redumpStopSignal_ ("redump")
    redumpInFlight,
    workerFailed,
    dump,          \* per dumping thread: request, progress, answer
    kernel,        \* the fact as the kernel has it
    socket,        \* notifications queued in the live socket
    overrun,       \* the kernel dropped one: the next receive fails
    cache,         \* netlinkState_
    held,          \* per emitting thread: the change to hand over
    view,          \* the fact as the callbacks last delivered it
    raced,         \* live traffic ran beside the last redump
    lost,          \* a delivery was dropped and no redump ended since
    undefined,     \* a signal was destroyed under the thread polling it
    spent          \* counters behind the bounds

threads == <<starter, stopper, redumper, worker>>
signals == <<loop, signal>>
flags   == <<redumpInFlight, workerFailed>>
traffic == <<kernel, socket, overrun>>
data    == <<dump, cache, held, view>>
history == <<raced, lost, undefined>>
vars    == <<lifecycle, cancel, threads, signals, flags, traffic, data,
             history, spent>>

Emitters == {"start", "redump", "worker"}
NoDump == [req |-> 0, at |-> "idle", answer |-> Absent]
NewDump == [req |-> 1, at |-> "send", answer |-> Absent]

Init ==
    /\ lifecycle = "stopped" /\ cancel = FALSE
    /\ starter = "idle" /\ stopper = "idle" /\ redumper = "idle"
    /\ worker = "none"
    /\ loop = FALSE
    /\ signal = [s \in Signals |-> "gone"]
    /\ redumpInFlight = FALSE /\ workerFailed = FALSE
    /\ dump = [t \in Dumpers |-> NoDump]
    /\ kernel \in Facts /\ socket = <<>> /\ overrun = FALSE
    /\ cache = Absent
    /\ held = [t \in Emitters |-> Nothing]
    /\ view = Absent
    /\ raced = FALSE /\ lost = FALSE /\ undefined = FALSE
    /\ spent = [changes |-> 0, starts |-> 0, redumps |-> 0, faults |-> 0]

Spend(what) == spent' = [spent EXCEPT ![what] = @ + 1]
MayFail == spent.faults < MaxFaults

-----------------------------------------------------------------------------
(* The kernel *)

\* The fact changes; a bound live socket gets a notification, or loses it
\* and remembers that (ENOBUFS).
KernelChange(v) ==
    /\ spent.changes < MaxChanges
    /\ v # kernel
    /\ kernel' = v
    /\ IF ~loop THEN UNCHANGED <<socket, overrun>>
       ELSE IF Len(socket) < SocketCap
            THEN socket' = Append(socket, v) /\ UNCHANGED overrun
            ELSE overrun' = TRUE /\ UNCHANGED socket
    /\ raced' = (raced \/ redumper = "dump")
    /\ Spend("changes")
    /\ UNCHANGED <<lifecycle, cancel, threads, signals, flags, data, lost,
                   undefined>>

-----------------------------------------------------------------------------
(* The state cache and the callbacks *)

\* updateNeighbor() under the mutex: store, and hold a change to emit.
Store(t, v) ==
    /\ cache' = v
    /\ held' = [held EXCEPT ![t] = IF v # cache THEN v ELSE Nothing]

\* The callback: the consumer gets the change, or its full queue drops it.
Emit(t) ==
    /\ held[t] # Nothing
    /\ held' = [held EXCEPT ![t] = Nothing]
    /\ \/ view' = held[t] /\ UNCHANGED <<lost, spent>>
       \/ /\ MayFail /\ Spend("faults")
          /\ lost' = TRUE
          /\ UNCHANGED view

-----------------------------------------------------------------------------
(* NetlinkInitialDump, run by t *)

\* Mutant of SignalOf: one eventfd for the worker and the redump.
OneSignal(t) == "stop"

\* The eventfd the dump polls besides its own socket.
SignalOf(t) == IF t = "start" THEN "stop" ELSE "redump"

\* requestDump(): the kernel takes its snapshot when the request is sent.
DumpSend(t) ==
    /\ dump[t].at = "send"
    /\ dump' = [dump EXCEPT ![t].at = "wait",
                            ![t].answer = IF dump[t].req = FactRequest
                                          THEN kernel ELSE Absent]
    /\ UNCHANGED <<lifecycle, cancel, threads, signals, flags, traffic,
                   cache, held, view, history, spent>>

\* readDumpResponses(): the answer is read only while no stop is pending.
\* A present fact goes through processSingleMessage().
DumpReceive(t) ==
    /\ dump[t].at = "wait"
    /\ signal[SignalOf(t)] # "raised"
    /\ dump' = [dump EXCEPT ![t].at = "emit"]
    /\ IF dump[t].answer # Absent THEN Store(t, dump[t].answer)
       ELSE UNCHANGED <<cache, held>>
    /\ UNCHANGED <<lifecycle, cancel, threads, signals, flags, traffic, view,
                   history, spent>>

DumpEmit(t) ==
    /\ dump[t].at = "emit"
    /\ Emit(t)
    /\ UNCHANGED <<lifecycle, cancel, threads, signals, flags, traffic, dump,
                   cache, raced, undefined>>

\* NLMSG_DONE: the next request, or the end of the dump.
DumpNext(t) ==
    /\ dump[t].at = "emit" /\ held[t] = Nothing
    /\ dump' = [dump EXCEPT ![t] =
                 IF @.req < Requests
                 THEN [NewDump EXCEPT !.req = dump[t].req + 1]
                 ELSE [NoDump EXCEPT !.at = "done"]]
    /\ UNCHANGED <<lifecycle, cancel, threads, signals, flags, traffic, cache,
                   held, view, history, spent>>

\* waitForNetlinkDataOrStop(): shutdown wins, and the wake is consumed.
DumpInterrupted(t) ==
    /\ dump[t].at = "wait"
    /\ signal[SignalOf(t)] = "raised"
    /\ dump' = [dump EXCEPT ![t] = [NoDump EXCEPT !.at = "failed"]]
    /\ signal' = [signal EXCEPT ![SignalOf(t)] = "quiet"]
    /\ UNCHANGED <<lifecycle, cancel, threads, loop, flags, traffic, cache,
                   held, view, history, spent>>

\* A send, poll or receive fails, the kernel answers an error or reports
\* NLM_F_DUMP_INTR, a datagram is truncated, or a callback throws.
DumpFails(t) ==
    /\ dump[t].at \in {"send", "wait", "emit"}
    /\ MayFail /\ Spend("faults")
    /\ dump' = [dump EXCEPT ![t] = [NoDump EXCEPT !.at = "failed"]]
    /\ held' = [held EXCEPT ![t] = Nothing]
    /\ lost' = (lost \/ held[t] # Nothing)
    /\ UNCHANGED <<lifecycle, cancel, threads, signals, flags, traffic, cache,
                   view, raced, undefined>>

-----------------------------------------------------------------------------
(* Eventfds *)

\* signalStop(): both eventfds.  A missing stopSignal_ is LOG(FATAL).
SignalStop == signal' = [s \in Signals |->
                           IF signal[s] = "gone" THEN "gone" ELSE "raised"]

\* closeResources(): destroyed under a thread that still polls them.
Destroy ==
    /\ loop' = FALSE
    /\ signal' = [s \in Signals |-> "gone"]
    /\ undefined' = (undefined \/ redumper \in {"clear", "dump"})

-----------------------------------------------------------------------------
(* start() *)

\* beginCancellableStart() claims a stopped monitor.
StartClaim ==
    /\ lifecycle = "stopped" /\ starter = "idle"
    /\ spent.starts < MaxStarts /\ Spend("starts")
    /\ lifecycle' = "starting" /\ cancel' = FALSE
    /\ starter' = "open"
    /\ workerFailed' = FALSE
    /\ view' = Absent /\ raced' = FALSE /\ lost' = FALSE
    /\ UNCHANGED <<stopper, redumper, worker, signals, redumpInFlight,
                   traffic, dump, cache, held, undefined>>

\* Both eventfds, the subscribed live socket bound before the dump, and the
\* stop callback, which fires at once when cancellation came first.
StartOpen ==
    /\ starter = "open"
    /\ loop' = TRUE /\ socket' = <<>> /\ overrun' = FALSE
    /\ signal' = [s \in Signals |-> IF cancel THEN "raised" ELSE "quiet"]
    /\ dump' = [dump EXCEPT !["start"] = NewDump]
    /\ starter' = "dump"
    /\ UNCHANGED <<lifecycle, cancel, stopper, redumper, worker, flags,
                   kernel, cache, held, view, history, spent>>

\* An eventfd, the socket or its bind failed: rollbackStartup().
StartOpenFails ==
    /\ starter = "open"
    /\ MayFail /\ Spend("faults")
    /\ starter' = "close"
    /\ UNCHANGED <<lifecycle, cancel, stopper, redumper, worker, signals,
                   flags, traffic, data, history>>

\* The dump returned; a cancelled start rolls back even if it completed.
StartDumped ==
    /\ starter = "dump"
    /\ dump["start"].at \in {"done", "failed"}
    /\ dump' = [dump EXCEPT !["start"] = NoDump]
    /\ starter' = IF dump["start"].at = "done" /\ ~cancel
                  THEN "spawn" ELSE "close"
    /\ UNCHANGED <<lifecycle, cancel, stopper, redumper, worker, signals,
                   flags, traffic, cache, held, view, history, spent>>

StartSpawn ==
    /\ starter = "spawn"
    /\ worker' = "live" /\ starter' = "probe"
    /\ UNCHANGED <<lifecycle, cancel, stopper, redumper, signals, flags,
                   traffic, data, history, spent>>

StartSpawnFails ==
    /\ starter = "spawn"
    /\ MayFail /\ Spend("faults")
    /\ starter' = "close"
    /\ UNCHANGED <<lifecycle, cancel, stopper, redumper, worker, signals,
                   flags, traffic, data, history>>

\* A worker that died at once is seen here, before running is published.
StartProbe ==
    /\ starter = "probe"
    /\ starter' = IF workerFailed THEN "signal" ELSE "commit"
    /\ UNCHANGED <<lifecycle, cancel, stopper, redumper, worker, signals,
                   flags, traffic, data, history, spent>>

\* tryComplete() fails when cancellation won.
StartCommit ==
    /\ starter = "commit"
    /\ IF cancel THEN starter' = "signal" /\ UNCHANGED lifecycle
       ELSE starter' = "idle" /\ lifecycle' = "running"
    /\ UNCHANGED <<cancel, stopper, redumper, worker, signals, flags, traffic,
                   data, history, spent>>

\* rollbackStartupWithWorker(): worker_.stop() wakes, then joins.
StartSignal ==
    /\ starter = "signal"
    /\ SignalStop
    /\ starter' = "join"
    /\ UNCHANGED <<lifecycle, cancel, stopper, redumper, worker, loop, flags,
                   traffic, data, history, spent>>

StartJoin ==
    /\ starter = "join" /\ worker = "exited"
    /\ worker' = "none" /\ starter' = "close"
    /\ UNCHANGED <<lifecycle, cancel, stopper, redumper, signals, flags,
                   traffic, data, history, spent>>

\* closeResources(): wait out a redump in flight ...
StartClose ==
    /\ starter = "close" /\ ~redumpInFlight
    /\ starter' = "destroy"
    /\ UNCHANGED <<lifecycle, cancel, stopper, redumper, worker, signals,
                   flags, traffic, data, history, spent>>

\* ... then destroy what it polls.
StartDestroy ==
    /\ starter = "destroy"
    /\ Destroy
    /\ starter' = "clear"
    /\ UNCHANGED <<lifecycle, cancel, stopper, redumper, worker, flags,
                   traffic, data, raced, lost, spent>>

\* Mutant of StartFail: the cache of the failed epoch stays.
StartFailDirty ==
    /\ starter = "clear"
    /\ workerFailed' = FALSE
    /\ lifecycle' = "stopped" /\ starter' = "idle"
    /\ UNCHANGED <<cancel, stopper, redumper, worker, signals,
                   redumpInFlight, traffic, data, history, spent>>

\* rollbackStartup(): the cache goes, then transition.fail().
StartFail ==
    /\ starter = "clear"
    /\ cache' = Absent /\ workerFailed' = FALSE
    /\ lifecycle' = "stopped" /\ starter' = "idle"
    /\ UNCHANGED <<cancel, stopper, redumper, worker, signals,
                   redumpInFlight, traffic, dump, held, view, history, spent>>

-----------------------------------------------------------------------------
(* stop() *)

\* beginStop() while starting only requests the token: start() owns the
\* cleanup.  During the dump the stop callback turns it into a wake.
StopCancel ==
    /\ lifecycle = "starting" /\ ~cancel
    /\ cancel' = TRUE
    /\ IF starter = "dump" THEN SignalStop ELSE UNCHANGED signal
    /\ UNCHANGED <<lifecycle, threads, loop, flags, traffic, data, history,
                   spent>>

StopClaim ==
    /\ lifecycle = "running"
    /\ lifecycle' = "stopping" /\ stopper' = "signal"
    /\ UNCHANGED <<cancel, starter, redumper, worker, signals, flags, traffic,
                   data, history, spent>>

\* worker_.stop(): wake ...
StopSignal ==
    /\ stopper = "signal"
    /\ SignalStop
    /\ stopper' = "join"
    /\ UNCHANGED <<lifecycle, cancel, starter, redumper, worker, loop, flags,
                   traffic, data, history, spent>>

\* Mutant of StopJoin: the worker is not waited for.
StopJoinless ==
    /\ stopper = "join"
    /\ workerFailed' = FALSE
    /\ stopper' = "close"
    /\ UNCHANGED <<lifecycle, cancel, starter, redumper, worker, signals,
                   redumpInFlight, traffic, data, history, spent>>

\* ... and join; the exit handler has run, so this reset wins.
StopJoin ==
    /\ stopper = "join" /\ worker = "exited"
    /\ worker' = "none" /\ workerFailed' = FALSE
    /\ stopper' = "close"
    /\ UNCHANGED <<lifecycle, cancel, starter, redumper, signals,
                   redumpInFlight, traffic, data, history, spent>>

\* Wait out a redump in flight ...
StopClose ==
    /\ stopper = "close" /\ ~redumpInFlight
    /\ stopper' = "destroy"
    /\ UNCHANGED <<lifecycle, cancel, starter, redumper, worker, signals,
                   flags, traffic, data, history, spent>>

\* ... then destroy what it polls.
StopDestroy ==
    /\ stopper = "destroy"
    /\ Destroy
    /\ stopper' = "clear"
    /\ UNCHANGED <<lifecycle, cancel, starter, redumper, worker, flags,
                   traffic, data, raced, lost, spent>>

StopComplete ==
    /\ stopper = "clear"
    /\ cache' = Absent
    /\ lifecycle' = "stopped" /\ stopper' = "idle"
    /\ UNCHANGED <<cancel, starter, redumper, worker, signals, flags, traffic,
                   dump, held, view, history, spent>>

-----------------------------------------------------------------------------
(* requestRedump() *)

RedumpCheck ==
    /\ redumper = "idle" /\ lifecycle = "running"
    /\ spent.redumps < MaxRedumps /\ Spend("redumps")
    /\ redumper' = "claim"
    /\ UNCHANGED <<lifecycle, cancel, starter, stopper, worker, signals,
                   flags, traffic, data, history>>

RedumpClaim ==
    /\ redumper = "claim"
    /\ redumpInFlight' = TRUE /\ redumper' = "use"
    /\ UNCHANGED <<lifecycle, cancel, starter, stopper, worker, signals,
                   workerFailed, traffic, data, history, spent>>

\* No signal to poll: stop() got there first.
RedumpUse ==
    /\ redumper = "use"
    /\ IF signal["redump"] = "gone"
       THEN redumper' = "idle" /\ redumpInFlight' = FALSE
       ELSE redumper' = "clear" /\ UNCHANGED redumpInFlight
    /\ UNCHANGED <<lifecycle, cancel, starter, stopper, worker, signals,
                   workerFailed, traffic, data, history, spent>>

\* Mutant of RedumpClear: the dump replays against the live cache.
RedumpKeepsCache ==
    /\ redumper = "clear"
    /\ dump' = [dump EXCEPT !["redump"] = NewDump]
    /\ redumper' = "dump"
    /\ lost' = FALSE
    /\ raced' = (socket # <<>> \/ held["worker"] # Nothing)
    /\ UNCHANGED <<lifecycle, cancel, starter, stopper, worker, signals,
                   flags, traffic, cache, held, view, undefined, spent>>

\* The cache is cleared so that the replay is not deduplicated away.
RedumpClear ==
    /\ redumper = "clear"
    /\ cache' = Absent
    /\ dump' = [dump EXCEPT !["redump"] = NewDump]
    /\ redumper' = "dump"
    /\ lost' = FALSE
    /\ raced' = (socket # <<>> \/ held["worker"] # Nothing)
    /\ UNCHANGED <<lifecycle, cancel, starter, stopper, worker, signals,
                   flags, traffic, held, view, undefined, spent>>

\* The dump returned; the guard's destructor releases the flag.  A failed
\* redump restored nothing.
RedumpEnd ==
    /\ redumper = "dump"
    /\ dump["redump"].at \in {"done", "failed"}
    /\ dump' = [dump EXCEPT !["redump"] = NoDump]
    /\ redumper' = "idle" /\ redumpInFlight' = FALSE
    /\ lost' = (lost \/ dump["redump"].at = "failed")
    /\ UNCHANGED <<lifecycle, cancel, starter, stopper, worker, signals,
                   workerFailed, traffic, cache, held, view, raced, undefined,
                   spent>>

-----------------------------------------------------------------------------
(* The worker: runLiveLoop, NetlinkEventLoop::run *)

\* onWorkerExit(): an exception, or a return nobody asked for, is recorded.
Exit(reason) ==
    /\ worker' = "exited"
    /\ workerFailed' = (\/ workerFailed
                        \/ reason = "exception"
                        \/ lifecycle \in {"starting", "running"})

\* receiveAndDispatch(): one notification through processSingleMessage().
WorkerReceive ==
    /\ worker = "live" /\ held["worker"] = Nothing
    /\ signal["stop"] # "raised"
    /\ socket # <<>> /\ ~overrun
    /\ Store("worker", Head(socket))
    /\ socket' = Tail(socket)
    /\ UNCHANGED <<lifecycle, cancel, threads, signals, flags, kernel,
                   overrun, dump, view, history, spent>>

WorkerEmit ==
    /\ worker = "live"
    /\ Emit("worker")
    /\ UNCHANGED <<lifecycle, cancel, threads, signals, flags, traffic, dump,
                   cache, raced, undefined>>

\* The poll sees the stop signal, drains it and returns.
WorkerStop ==
    /\ worker = "live" /\ held["worker"] = Nothing
    /\ signal["stop"] = "raised"
    /\ signal' = [signal EXCEPT !["stop"] = "quiet"]
    /\ Exit("returned")
    /\ UNCHANGED <<lifecycle, cancel, starter, stopper, redumper, loop,
                   redumpInFlight, traffic, data, history, spent>>

\* Mutant of WorkerFails: only an exception of the poll is recorded.
WorkerFailsSilently ==
    /\ worker = "live"
    /\ \/ overrun /\ held["worker"] = Nothing /\ UNCHANGED spent
       \/ MayFail /\ Spend("faults")
    /\ held' = [held EXCEPT !["worker"] = Nothing]
    /\ lost' = (lost \/ held["worker"] # Nothing)
    /\ worker' = "exited"
    /\ UNCHANGED <<lifecycle, cancel, starter, stopper, redumper, signals,
                   flags, traffic, dump, cache, view, raced, undefined>>

\* ENOBUFS, NLMSG_OVERRUN, a truncated or malformed datagram, a failed poll,
\* or a callback that throws: runLiveLoop() throws.
WorkerFails ==
    /\ worker = "live"
    /\ \/ overrun /\ held["worker"] = Nothing /\ UNCHANGED spent
       \/ MayFail /\ Spend("faults")
    /\ held' = [held EXCEPT !["worker"] = Nothing]
    /\ lost' = (lost \/ held["worker"] # Nothing)
    /\ Exit("exception")
    /\ UNCHANGED <<lifecycle, cancel, starter, stopper, redumper, signals,
                   redumpInFlight, traffic, dump, cache, view, raced,
                   undefined>>

-----------------------------------------------------------------------------
Dumping(t) ==
    \/ DumpSend(t) \/ DumpReceive(t) \/ DumpEmit(t) \/ DumpNext(t)
    \/ DumpInterrupted(t) \/ DumpFails(t)

Starting ==
    \/ StartClaim \/ StartOpen \/ StartOpenFails \/ StartDumped
    \/ StartSpawn \/ StartSpawnFails \/ StartProbe \/ StartCommit
    \/ StartSignal \/ StartJoin \/ StartClose \/ StartDestroy \/ StartFail

Stopping ==
    \/ StopCancel \/ StopClaim \/ StopSignal \/ StopJoin \/ StopClose
    \/ StopDestroy \/ StopComplete

Redumping ==
    \/ RedumpCheck \/ RedumpClaim \/ RedumpUse \/ RedumpClear \/ RedumpEnd

Working == WorkerReceive \/ WorkerEmit \/ WorkerStop \/ WorkerFails

Next ==
    \/ \E v \in Facts : KernelChange(v)
    \/ \E t \in Dumpers : Dumping(t)
    \/ Starting \/ Stopping \/ Redumping \/ Working

Spec == Init /\ [][Next]_vars

\* A thread inside a call keeps running; the kernel answers a dump request
\* and delivers what its socket holds.  Nobody has to call anything.
FairSpec ==
    /\ Spec
    /\ \A t \in Dumpers : WF_vars(DumpSend(t) \/ DumpReceive(t) \/ DumpEmit(t)
                                   \/ DumpNext(t) \/ DumpInterrupted(t))
    /\ WF_vars(StartOpen \/ StartDumped \/ StartSpawn \/ StartProbe
               \/ StartCommit \/ StartSignal \/ StartJoin \/ StartClose
               \/ StartDestroy \/ StartFail)
    /\ WF_vars(StopSignal \/ StopJoin \/ StopClose \/ StopDestroy
               \/ StopComplete)
    /\ WF_vars(RedumpClaim \/ RedumpUse \/ RedumpClear \/ RedumpEnd)
    /\ WF_vars(Working)

-----------------------------------------------------------------------------
(* Properties *)

\* Every variable has its type.
TypeOK ==
    /\ lifecycle \in {"stopped", "starting", "running", "stopping"}
    /\ cancel \in BOOLEAN
    /\ starter \in {"idle", "open", "dump", "spawn", "probe", "commit",
                    "signal", "join", "close", "destroy", "clear"}
    /\ stopper \in {"idle", "signal", "join", "close", "destroy", "clear"}
    /\ redumper \in {"idle", "claim", "use", "clear", "dump"}
    /\ worker \in {"none", "live", "exited"}
    /\ loop \in BOOLEAN
    /\ signal \in [Signals -> Eventfd]
    /\ redumpInFlight \in BOOLEAN /\ workerFailed \in BOOLEAN
    /\ dump \in [Dumpers -> [req : 0 .. Requests,
                             at : {"idle", "send", "wait", "emit", "done",
                                   "failed"},
                             answer : Facts]]
    /\ kernel \in Facts /\ cache \in Facts /\ view \in Facts
    /\ socket \in Seq(Facts) /\ Len(socket) =< SocketCap
    /\ overrun \in BOOLEAN
    /\ held \in [Emitters -> Facts \cup {Nothing}]
    /\ raced \in BOOLEAN /\ lost \in BOOLEAN /\ undefined \in BOOLEAN
    /\ spent \in [{"changes", "starts", "redumps", "faults"} -> Nat]

\* The worker and the initial dump only ever poll resources that exist: the
\* live loop and stopSignal_ outlive both, and signalStop() never finds its
\* eventfd gone (the LOG(FATAL) at NetlinkNetworkMonitor.cpp:392).
SignalOutlivesUsers ==
    /\ worker = "live" => loop /\ signal["stop"] # "gone"
    /\ starter = "dump" => signal["stop"] # "gone"
    /\ starter \in {"signal", "join"} \/ stopper \in {"signal", "join"}
         => signal["stop"] # "gone"

\* A stopped monitor holds nothing: no worker, no descriptor, an empty cache,
\* no failure flag; whichever of stop() and the four rollback paths ended the
\* epoch.
StoppedIsClean ==
    lifecycle = "stopped" /\ ~undefined
      => /\ worker = "none" /\ ~loop
         /\ \A s \in Signals : signal[s] = "gone"
         /\ cache = Absent
         /\ ~workerFailed

\* A monitor whose live producer is gone never reports isRunning(): between
\* start() and stop() the exit handler has always recorded the loss.
DeadWorkerReported ==
    lifecycle = "running" /\ worker # "live" => workerFailed

\* Nothing is on its way to the consumer.
Settled ==
    /\ lifecycle = "running" /\ worker = "live"
    /\ socket = <<>> /\ ~overrun
    /\ redumper # "dump"
    /\ \A t \in Emitters : held[t] = Nothing

\* The initial dump, the notifications queued while it ran, the live loop and
\* a redump after a dropped delivery leave the consumer with the kernel's
\* value, provided no live traffic ran beside the redump.
ViewSettles ==
    Settled /\ ~lost /\ ~raced /\ ~undefined
      => (view = kernel \/ (kernel = Absent /\ spent.redumps > 0))

\* "Additions and modifications are fully restored" by a redump that
\* completed (NetlinkNetworkMonitor.h), whatever ran beside it.
RedumpRestores ==
    Settled /\ ~lost /\ ~undefined /\ kernel # Absent => view = kernel

\* stop() returns: the worker wakes, a redump in flight is interrupted, and
\* neither consumes the other's wake.
StopEnds == stopper # "idle" ~> stopper = "idle"

\* start() returns, cancelled or not.
StartEnds == starter # "idle" ~> starter = "idle"

\* Neither call hangs, whatever the other threads do.
CallsEnd == StartEnds /\ StopEnds

=============================================================================
