------------------------ MODULE NetlinkMonitorProofs ------------------------
(***************************************************************************)
(* Proofs about NetlinkMonitor for every set of values, every number of    *)
(* dump requests, every socket size and every bound.                       *)
(***************************************************************************)
EXTENDS NetlinkMonitor, TLAPS

-----------------------------------------------------------------------------
(* The inductive invariant, in parts *)

\* Somebody polls, or may still raise, the eventfds.
Polled ==
    \/ lifecycle = "running"
    \/ starter \in {"dump", "spawn", "probe", "commit", "signal", "join"}
    \/ stopper \in {"signal", "join", "close", "destroy"}

\* Where start() and stop() are, and what each step of theirs finds: the
\* worker, the live loop and the eventfds.
Control ==
    /\ lifecycle \in {"stopped", "starting", "running", "stopping"}
    /\ starter \in {"idle", "open", "dump", "spawn", "probe", "commit",
                    "signal", "join", "close", "destroy", "clear"}
    /\ stopper \in {"idle", "signal", "join", "close", "destroy", "clear"}
    /\ redumper \in {"idle", "claim", "use", "clear", "dump"}
    /\ worker \in {"none", "live", "exited"}
    /\ signal \in [Signals -> Eventfd]
    /\ starter # "idle" <=> lifecycle = "starting"
    /\ stopper # "idle" <=> lifecycle = "stopping"
    /\ worker # "none" =>
         \/ lifecycle = "running"
         \/ starter \in {"probe", "commit", "signal", "join"}
         \/ stopper \in {"signal", "join"}
    /\ Polled => \A s \in Signals : signal[s] # "gone"
    /\ lifecycle = "stopped" \/ starter \in {"open", "clear"}
         \/ stopper = "clear"
         => \A s \in Signals : signal[s] = "gone"

\* The flags: the live loop goes with the eventfds, an unasked exit of the
\* worker is recorded and the record does not outlive the epoch.
Flags ==
    /\ cancel \in BOOLEAN /\ loop \in BOOLEAN /\ redumpInFlight \in BOOLEAN
    /\ workerFailed \in BOOLEAN /\ overrun \in BOOLEAN
    /\ raced \in BOOLEAN /\ lost \in BOOLEAN /\ undefined \in BOOLEAN
    /\ loop <=> signal["stop"] # "gone"
    /\ lifecycle = "running" \/ starter \in {"probe", "commit"}
         => worker = "live" \/ workerFailed
    /\ lifecycle = "stopped" \/ stopper \in {"close", "destroy", "clear"}
         => ~workerFailed

\* How far a dump is.
DumpState == [req : 0 .. Requests,
              at : {"idle", "send", "wait", "emit", "done", "failed"},
              answer : Facts]

\* Kernel, socket, cache and counters.
Data ==
    /\ kernel \in Facts /\ cache \in Facts /\ view \in Facts
    /\ socket \in Seq(Facts) /\ Len(socket) =< SocketCap
    /\ held \in [Emitters -> Facts \cup {Nothing}]
    /\ dump \in [Dumpers -> DumpState]
    /\ spent \in [{"changes", "starts", "redumps", "faults"} -> Nat]

\* Nobody but start() and requestRedump() dumps; a redump has its eventfd
\* unless the teardown destroyed it; and then only is a stopped monitor's
\* cache not empty.
Caching ==
    /\ dump["start"].at # "idle" => starter = "dump"
    /\ dump["redump"].at # "idle" => redumper = "dump"
    /\ redumper \in {"clear", "dump"} /\ ~undefined => signal["redump"] # "gone"
    /\ lifecycle = "stopped" /\ ~undefined => cache = Absent

-----------------------------------------------------------------------------
(* Each part is preserved *)

\* Every step keeps threads, worker and eventfds in order.
LEMMA ControlStep == Control /\ [Next]_vars => Control'
  <1> SUFFICES ASSUME Control, [Next]_vars
               PROVE  Control'
    OBVIOUS
  <1> USE DEF Control, Polled, Signals, Eventfd, threads, signals, flags,
              traffic, data, history
  <1>1. ASSUME NEW v \in Facts, KernelChange(v)
        PROVE  Control'
    BY <1>1 DEF KernelChange
  <1>2. ASSUME NEW t \in Dumpers, Dumping(t)
        PROVE  Control'
    <2>1. CASE DumpSend(t)
      BY <2>1 DEF DumpSend
    <2>2. CASE DumpReceive(t)
      BY <2>2 DEF DumpReceive, Store
    <2>3. CASE DumpEmit(t)
      BY <2>3 DEF DumpEmit, Emit
    <2>4. CASE DumpNext(t)
      BY <2>4 DEF DumpNext, NewDump, NoDump
    <2>5. CASE DumpInterrupted(t)
      BY <2>5 DEF DumpInterrupted, NoDump
    <2>6. CASE DumpFails(t)
      BY <2>6 DEF DumpFails, NoDump
    <2> QED
      BY <1>2, <2>1, <2>2, <2>3, <2>4, <2>5, <2>6
      DEF Dumping
  <1>3. CASE Starting
    <2>1. CASE StartClaim
      BY <2>1 DEF StartClaim
    <2>2. CASE StartOpen
      BY <2>2 DEF StartOpen, NewDump
    <2>3. CASE StartOpenFails
      BY <2>3 DEF StartOpenFails
    <2>4. CASE StartDumped
      BY <2>4 DEF StartDumped, NoDump
    <2>5. CASE StartSpawn
      BY <2>5 DEF StartSpawn
    <2>6. CASE StartSpawnFails
      BY <2>6 DEF StartSpawnFails
    <2>7. CASE StartProbe
      BY <2>7 DEF StartProbe
    <2>8. CASE StartCommit
      BY <2>8 DEF StartCommit
    <2>9. CASE StartSignal
      BY <2>9 DEF StartSignal, SignalStop
    <2>10. CASE StartJoin
      BY <2>10 DEF StartJoin
    <2>11. CASE StartClose
      BY <2>11 DEF StartClose
    <2>12. CASE StartDestroy
      BY <2>12 DEF StartDestroy, Destroy
    <2>13. CASE StartFail
      BY <2>13 DEF StartFail
    <2> QED
      BY <1>3, <2>1, <2>2, <2>3, <2>4, <2>5, <2>6, <2>7, <2>8,
         <2>9, <2>10, <2>11, <2>12, <2>13
      DEF Starting
  <1>4. CASE Stopping
    <2>1. CASE StopCancel
      BY <2>1 DEF StopCancel, SignalStop
    <2>2. CASE StopClaim
      BY <2>2 DEF StopClaim
    <2>3. CASE StopSignal
      BY <2>3 DEF StopSignal, SignalStop
    <2>4. CASE StopJoin
      BY <2>4 DEF StopJoin
    <2>5. CASE StopClose
      BY <2>5 DEF StopClose
    <2>6. CASE StopDestroy
      BY <2>6 DEF StopDestroy, Destroy
    <2>7. CASE StopComplete
      BY <2>7 DEF StopComplete
    <2> QED
      BY <1>4, <2>1, <2>2, <2>3, <2>4, <2>5, <2>6, <2>7
      DEF Stopping
  <1>5. CASE Redumping
    <2>1. CASE RedumpCheck
      BY <2>1 DEF RedumpCheck
    <2>2. CASE RedumpClaim
      BY <2>2 DEF RedumpClaim
    <2>3. CASE RedumpUse
      BY <2>3 DEF RedumpUse
    <2>4. CASE RedumpClear
      BY <2>4 DEF RedumpClear, NewDump
    <2>5. CASE RedumpEnd
      BY <2>5 DEF RedumpEnd, NoDump
    <2> QED
      BY <1>5, <2>1, <2>2, <2>3, <2>4, <2>5
      DEF Redumping
  <1>6. CASE Working
    <2>1. CASE WorkerReceive
      BY <2>1 DEF WorkerReceive, Store
    <2>2. CASE WorkerEmit
      BY <2>2 DEF WorkerEmit, Emit
    <2>3. CASE WorkerStop
      BY <2>3 DEF WorkerStop, Exit
    <2>4. CASE WorkerFails
      BY <2>4 DEF WorkerFails, Exit
    <2> QED
      BY <1>6, <2>1, <2>2, <2>3, <2>4
      DEF Working
  <1>7. CASE UNCHANGED vars
    BY <1>7 DEF vars
  <1> QED
    BY <1>1, <1>2, <1>3, <1>4, <1>5, <1>6, <1>7 DEF Next

\* The flags.
LEMMA FlagsStep == Control /\ Flags /\ [Next]_vars => Flags'
  <1> SUFFICES ASSUME Control, Flags, [Next]_vars
               PROVE  Flags'
    OBVIOUS
  <1> USE DEF Control, Polled, Flags, Signals, Eventfd, threads, signals,
              flags, traffic, data, history
  <1>1. ASSUME NEW v \in Facts, KernelChange(v)
        PROVE  Flags'
    BY <1>1 DEF KernelChange
  <1>2. ASSUME NEW t \in Dumpers, Dumping(t)
        PROVE  Flags'
    <2>1. CASE DumpSend(t)
      BY <2>1 DEF DumpSend
    <2>2. CASE DumpReceive(t)
      BY <2>2 DEF DumpReceive, Store
    <2>3. CASE DumpEmit(t)
      BY <2>3 DEF DumpEmit, Emit
    <2>4. CASE DumpNext(t)
      BY <2>4 DEF DumpNext, NewDump, NoDump
    <2>5. CASE DumpInterrupted(t)
      BY <2>5 DEF DumpInterrupted, NoDump
    <2>6. CASE DumpFails(t)
      BY <2>6 DEF DumpFails, NoDump
    <2> QED
      BY <1>2, <2>1, <2>2, <2>3, <2>4, <2>5, <2>6
      DEF Dumping
  <1>3. CASE Starting
    <2>1. CASE StartClaim
      BY <2>1 DEF StartClaim
    <2>2. CASE StartOpen
      BY <2>2 DEF StartOpen, NewDump
    <2>3. CASE StartOpenFails
      BY <2>3 DEF StartOpenFails
    <2>4. CASE StartDumped
      BY <2>4 DEF StartDumped, NoDump
    <2>5. CASE StartSpawn
      BY <2>5 DEF StartSpawn
    <2>6. CASE StartSpawnFails
      BY <2>6 DEF StartSpawnFails
    <2>7. CASE StartProbe
      BY <2>7 DEF StartProbe
    <2>8. CASE StartCommit
      BY <2>8 DEF StartCommit
    <2>9. CASE StartSignal
      BY <2>9 DEF StartSignal, SignalStop
    <2>10. CASE StartJoin
      BY <2>10 DEF StartJoin
    <2>11. CASE StartClose
      BY <2>11 DEF StartClose
    <2>12. CASE StartDestroy
      BY <2>12 DEF StartDestroy, Destroy
    <2>13. CASE StartFail
      BY <2>13 DEF StartFail
    <2> QED
      BY <1>3, <2>1, <2>2, <2>3, <2>4, <2>5, <2>6, <2>7, <2>8,
         <2>9, <2>10, <2>11, <2>12, <2>13
      DEF Starting
  <1>4. CASE Stopping
    <2>1. CASE StopCancel
      BY <2>1 DEF StopCancel, SignalStop
    <2>2. CASE StopClaim
      BY <2>2 DEF StopClaim
    <2>3. CASE StopSignal
      BY <2>3 DEF StopSignal, SignalStop
    <2>4. CASE StopJoin
      BY <2>4 DEF StopJoin
    <2>5. CASE StopClose
      BY <2>5 DEF StopClose
    <2>6. CASE StopDestroy
      BY <2>6 DEF StopDestroy, Destroy
    <2>7. CASE StopComplete
      BY <2>7 DEF StopComplete
    <2> QED
      BY <1>4, <2>1, <2>2, <2>3, <2>4, <2>5, <2>6, <2>7
      DEF Stopping
  <1>5. CASE Redumping
    <2>1. CASE RedumpCheck
      BY <2>1 DEF RedumpCheck
    <2>2. CASE RedumpClaim
      BY <2>2 DEF RedumpClaim
    <2>3. CASE RedumpUse
      BY <2>3 DEF RedumpUse
    <2>4. CASE RedumpClear
      BY <2>4 DEF RedumpClear, NewDump
    <2>5. CASE RedumpEnd
      BY <2>5 DEF RedumpEnd, NoDump
    <2> QED
      BY <1>5, <2>1, <2>2, <2>3, <2>4, <2>5
      DEF Redumping
  <1>6. CASE Working
    <2>1. CASE WorkerReceive
      BY <2>1 DEF WorkerReceive, Store
    <2>2. CASE WorkerEmit
      BY <2>2 DEF WorkerEmit, Emit
    <2>3. CASE WorkerStop
      BY <2>3 DEF WorkerStop, Exit
    <2>4. CASE WorkerFails
      BY <2>4 DEF WorkerFails, Exit
    <2> QED
      BY <1>6, <2>1, <2>2, <2>3, <2>4
      DEF Working
  <1>7. CASE UNCHANGED vars
    BY <1>7 DEF vars
  <1> QED
    BY <1>1, <1>2, <1>3, <1>4, <1>5, <1>6, <1>7 DEF Next

\* The next request of a dump is within the dump.
LEMMA NextRequest ==
    ASSUME NEW r \in 0 .. Requests, r < Requests
    PROVE  [NewDump EXCEPT !.req = r + 1] \in DumpState
  <1>1. [NewDump EXCEPT !.req = r + 1]
          = [req |-> r + 1, at |-> "send", answer |-> Absent]
    BY DEF NewDump
  <1>2. r + 1 \in 0 .. Requests /\ Absent \in Facts
    BY MonitorBounds DEF Facts
  <1> QED
    BY <1>1, <1>2 DEF DumpState

\* The states a dump is put into are dump states.
LEMMA DumpStates ==
    /\ NoDump \in DumpState /\ NewDump \in DumpState
    /\ [NoDump EXCEPT !.at = "failed"] \in DumpState
    /\ [NoDump EXCEPT !.at = "done"] \in DumpState
  BY MonitorBounds DEF NoDump, NewDump, DumpState, Facts

\* The socket takes another notification while it has room.
LEMMA SocketGrows ==
    ASSUME NEW q \in Seq(Facts), NEW v \in Facts, Len(q) < SocketCap
    PROVE  Append(q, v) \in Seq(Facts) /\ Len(Append(q, v)) =< SocketCap
  BY MonitorBounds

\* Every value stays in its domain.
LEMMA DataStep == Data /\ [Next]_vars => Data'
  <1> SUFFICES ASSUME Data, [Next]_vars
               PROVE  Data'
    OBVIOUS
  <1> USE DEF Data, DumpState, Dumpers, Emitters, threads, signals, flags,
              traffic, data, history
  <1> USE MonitorBounds
  <1>0. Absent \in Facts
    BY DEF Facts
  <1>1. ASSUME NEW v \in Facts, KernelChange(v)
        PROVE  Data'
    <2>1. /\ kernel' \in Facts
          /\ UNCHANGED <<dump, cache, held, view>>
          /\ spent' \in [{"changes", "starts", "redumps", "faults"} -> Nat]
      BY <1>1 DEF KernelChange, Spend
    <2>2. socket' \in Seq(Facts) /\ Len(socket') =< SocketCap
      BY <1>1, SocketGrows DEF KernelChange
    <2> QED
      BY <2>1, <2>2
  <1>2. ASSUME NEW t \in Dumpers, Dumping(t)
        PROVE  Data'
    <2>1. CASE DumpSend(t)
      BY <2>1, <1>0 DEF DumpSend
    <2>2. CASE DumpReceive(t)
      <3>1. dump[t] \in DumpState
        BY DEF Data
      <3>2. dump[t].answer \in Facts
        BY <3>1
      <3>3. dump' \in [Dumpers -> DumpState]
        BY <2>2, <3>1 DEF DumpReceive
      <3>4. cache' \in Facts /\ held' \in [Emitters -> Facts \cup {Nothing}]
        BY <2>2, <3>2 DEF DumpReceive, Store
      <3> QED
        BY <2>2, <3>3, <3>4 DEF DumpReceive
    <2>3. CASE DumpEmit(t)
      BY <2>3, <1>0 DEF DumpEmit, Emit, Spend
    <2>4. CASE DumpNext(t)
      <3>1. dump[t].req \in 0 .. Requests
        BY DEF Data
      <3>2. ASSUME dump[t].req < Requests
            PROVE  [NewDump EXCEPT !.req = dump[t].req + 1] \in DumpState
        BY <3>1, <3>2, NextRequest
      <3>3. dump' \in [Dumpers -> DumpState]
        <4> HIDE DEF DumpState
        <4> QED
          BY <2>4, <3>2, DumpStates DEF DumpNext
      <3> QED
        BY <2>4, <3>3 DEF DumpNext
    <2>5. CASE DumpInterrupted(t)
      <3>1. dump' \in [Dumpers -> DumpState]
        <4> HIDE DEF DumpState
        <4> QED
          BY <2>5, DumpStates DEF DumpInterrupted
      <3> QED
        BY <2>5, <3>1 DEF DumpInterrupted
    <2>6. CASE DumpFails(t)
      <3>1. dump' \in [Dumpers -> DumpState]
        <4> HIDE DEF DumpState
        <4> QED
          BY <2>6, DumpStates DEF DumpFails
      <3> QED
        BY <2>6, <3>1 DEF DumpFails, Spend
    <2> QED
      BY <1>2, <2>1, <2>2, <2>3, <2>4, <2>5, <2>6
      DEF Dumping
  <1>3. CASE Starting
    <2>1. CASE StartClaim
      BY <2>1, <1>0 DEF StartClaim, Spend
    <2>2. CASE StartOpen
      BY <2>2, <1>0 DEF StartOpen, NewDump
    <2>3. CASE StartOpenFails
      BY <2>3, <1>0 DEF StartOpenFails, Spend
    <2>4. CASE StartDumped
      BY <2>4, <1>0 DEF StartDumped, NoDump
    <2>5. CASE StartSpawn
      BY <2>5, <1>0 DEF StartSpawn
    <2>6. CASE StartSpawnFails
      BY <2>6, <1>0 DEF StartSpawnFails, Spend
    <2>7. CASE StartProbe
      BY <2>7, <1>0 DEF StartProbe
    <2>8. CASE StartCommit
      BY <2>8, <1>0 DEF StartCommit
    <2>9. CASE StartSignal
      BY <2>9, <1>0 DEF StartSignal, SignalStop
    <2>10. CASE StartJoin
      BY <2>10, <1>0 DEF StartJoin
    <2>11. CASE StartClose
      BY <2>11, <1>0 DEF StartClose
    <2>12. CASE StartDestroy
      BY <2>12, <1>0 DEF StartDestroy, Destroy
    <2>13. CASE StartFail
      BY <2>13, <1>0 DEF StartFail
    <2> QED
      BY <1>3, <2>1, <2>2, <2>3, <2>4, <2>5, <2>6, <2>7, <2>8,
         <2>9, <2>10, <2>11, <2>12, <2>13
      DEF Starting
  <1>4. CASE Stopping
    <2>1. CASE StopCancel
      BY <2>1, <1>0 DEF StopCancel, SignalStop
    <2>2. CASE StopClaim
      BY <2>2, <1>0 DEF StopClaim
    <2>3. CASE StopSignal
      BY <2>3, <1>0 DEF StopSignal, SignalStop
    <2>4. CASE StopJoin
      BY <2>4, <1>0 DEF StopJoin
    <2>5. CASE StopClose
      BY <2>5, <1>0 DEF StopClose
    <2>6. CASE StopDestroy
      BY <2>6, <1>0 DEF StopDestroy, Destroy
    <2>7. CASE StopComplete
      BY <2>7, <1>0 DEF StopComplete
    <2> QED
      BY <1>4, <2>1, <2>2, <2>3, <2>4, <2>5, <2>6, <2>7
      DEF Stopping
  <1>5. CASE Redumping
    <2>1. CASE RedumpCheck
      BY <2>1, <1>0 DEF RedumpCheck, Spend
    <2>2. CASE RedumpClaim
      BY <2>2, <1>0 DEF RedumpClaim
    <2>3. CASE RedumpUse
      BY <2>3, <1>0 DEF RedumpUse
    <2>4. CASE RedumpClear
      BY <2>4, <1>0 DEF RedumpClear, NewDump
    <2>5. CASE RedumpEnd
      BY <2>5, <1>0 DEF RedumpEnd, NoDump
    <2> QED
      BY <1>5, <2>1, <2>2, <2>3, <2>4, <2>5
      DEF Redumping
  <1>6. CASE Working
    <2>1. CASE WorkerReceive
      BY <2>1, <1>0 DEF WorkerReceive, Store
    <2>2. CASE WorkerEmit
      BY <2>2, <1>0 DEF WorkerEmit, Emit, Spend
    <2>3. CASE WorkerStop
      BY <2>3, <1>0 DEF WorkerStop, Exit
    <2>4. CASE WorkerFails
      BY <2>4, <1>0 DEF WorkerFails, Exit, Spend
    <2> QED
      BY <1>6, <2>1, <2>2, <2>3, <2>4
      DEF Working
  <1>7. CASE UNCHANGED vars
    BY <1>7 DEF vars
  <1> QED
    BY <1>1, <1>2, <1>3, <1>4, <1>5, <1>6, <1>7 DEF Next

\* Dumps belong to their callers, and only a redump that lost its
\* eventfd writes after the stop.
LEMMA CachingStep == Control /\ Data /\ Caching /\ [Next]_vars => Caching'
  <1> SUFFICES ASSUME Control, Data, Caching, [Next]_vars
               PROVE  Caching'
    OBVIOUS
  <1> USE DEF Control, Polled, Caching, Data, DumpState, Dumpers, Signals,
              Eventfd, threads, signals, flags, traffic, data, history
  <1>1. ASSUME NEW v \in Facts, KernelChange(v)
        PROVE  Caching'
    BY <1>1 DEF KernelChange
  <1>2. ASSUME NEW t \in Dumpers, Dumping(t)
        PROVE  Caching'
    <2>1. CASE DumpSend(t)
      BY <2>1 DEF DumpSend
    <2>2. CASE DumpReceive(t)
      BY <2>2 DEF DumpReceive, Store
    <2>3. CASE DumpEmit(t)
      BY <2>3 DEF DumpEmit, Emit
    <2>4. CASE DumpNext(t)
      BY <2>4 DEF DumpNext, NewDump, NoDump
    <2>5. CASE DumpInterrupted(t)
      BY <2>5 DEF DumpInterrupted, NoDump
    <2>6. CASE DumpFails(t)
      BY <2>6 DEF DumpFails, NoDump
    <2> QED
      BY <1>2, <2>1, <2>2, <2>3, <2>4, <2>5, <2>6
      DEF Dumping
  <1>3. CASE Starting
    <2>1. CASE StartClaim
      BY <2>1 DEF StartClaim
    <2>2. CASE StartOpen
      BY <2>2 DEF StartOpen, NewDump
    <2>3. CASE StartOpenFails
      BY <2>3 DEF StartOpenFails
    <2>4. CASE StartDumped
      BY <2>4 DEF StartDumped, NoDump
    <2>5. CASE StartSpawn
      BY <2>5 DEF StartSpawn
    <2>6. CASE StartSpawnFails
      BY <2>6 DEF StartSpawnFails
    <2>7. CASE StartProbe
      BY <2>7 DEF StartProbe
    <2>8. CASE StartCommit
      BY <2>8 DEF StartCommit
    <2>9. CASE StartSignal
      BY <2>9 DEF StartSignal, SignalStop
    <2>10. CASE StartJoin
      BY <2>10 DEF StartJoin
    <2>11. CASE StartClose
      BY <2>11 DEF StartClose
    <2>12. CASE StartDestroy
      BY <2>12 DEF StartDestroy, Destroy
    <2>13. CASE StartFail
      BY <2>13 DEF StartFail
    <2> QED
      BY <1>3, <2>1, <2>2, <2>3, <2>4, <2>5, <2>6, <2>7, <2>8,
         <2>9, <2>10, <2>11, <2>12, <2>13
      DEF Starting
  <1>4. CASE Stopping
    <2>1. CASE StopCancel
      BY <2>1 DEF StopCancel, SignalStop
    <2>2. CASE StopClaim
      BY <2>2 DEF StopClaim
    <2>3. CASE StopSignal
      BY <2>3 DEF StopSignal, SignalStop
    <2>4. CASE StopJoin
      BY <2>4 DEF StopJoin
    <2>5. CASE StopClose
      BY <2>5 DEF StopClose
    <2>6. CASE StopDestroy
      BY <2>6 DEF StopDestroy, Destroy
    <2>7. CASE StopComplete
      BY <2>7 DEF StopComplete
    <2> QED
      BY <1>4, <2>1, <2>2, <2>3, <2>4, <2>5, <2>6, <2>7
      DEF Stopping
  <1>5. CASE Redumping
    <2>1. CASE RedumpCheck
      BY <2>1 DEF RedumpCheck
    <2>2. CASE RedumpClaim
      BY <2>2 DEF RedumpClaim
    <2>3. CASE RedumpUse
      BY <2>3 DEF RedumpUse
    <2>4. CASE RedumpClear
      BY <2>4 DEF RedumpClear, NewDump
    <2>5. CASE RedumpEnd
      BY <2>5 DEF RedumpEnd, NoDump
    <2> QED
      BY <1>5, <2>1, <2>2, <2>3, <2>4, <2>5
      DEF Redumping
  <1>6. CASE Working
    <2>1. CASE WorkerReceive
      BY <2>1 DEF WorkerReceive, Store
    <2>2. CASE WorkerEmit
      BY <2>2 DEF WorkerEmit, Emit
    <2>3. CASE WorkerStop
      BY <2>3 DEF WorkerStop, Exit
    <2>4. CASE WorkerFails
      BY <2>4 DEF WorkerFails, Exit
    <2> QED
      BY <1>6, <2>1, <2>2, <2>3, <2>4
      DEF Working
  <1>7. CASE UNCHANGED vars
    BY <1>7 DEF vars
  <1> QED
    BY <1>1, <1>2, <1>3, <1>4, <1>5, <1>6, <1>7 DEF Next

-----------------------------------------------------------------------------
(* The invariant *)

\* What every reachable state satisfies.
Inv == Control /\ Flags /\ Data /\ Caching

\* It holds initially.
LEMMA InvInit == Init => Inv
  <1> SUFFICES ASSUME Init
               PROVE  Inv
    OBVIOUS
  <1>1. Control /\ Flags
    BY DEF Init, Control, Flags, Polled, Signals, Eventfd
  <1>2. Data
    <2>1. dump \in [Dumpers -> DumpState]
      BY DumpStates DEF Init
    <2>2. /\ kernel \in Facts /\ cache \in Facts /\ view \in Facts
          /\ held \in [Emitters -> Facts \cup {Nothing}]
          /\ spent \in [{"changes", "starts", "redumps", "faults"} -> Nat]
      BY DEF Init, Facts
    <2>3. socket \in Seq(Facts) /\ Len(socket) =< SocketCap
      BY MonitorBounds DEF Init
    <2> QED
      BY <2>1, <2>2, <2>3 DEF Data
  <1>3. Caching
    BY DEF Init, Caching, Dumpers, NoDump, Signals
  <1> QED
    BY <1>1, <1>2, <1>3 DEF Inv

\* It is an invariant of the monitor.
LEMMA Invariance == Spec => []Inv
  <1>1. Inv /\ [Next]_vars => Inv'
    BY ControlStep, FlagsStep, DataStep, CachingStep DEF Inv
  <1> QED
    BY <1>1, InvInit, PTL DEF Spec

-----------------------------------------------------------------------------
(* The theorems *)

\* start(), stop(), requestRedump() and the worker keep every variable in its
\* type, and the live socket never holds more than its buffer.
THEOREM TypeCorrect == Spec => []TypeOK
  <1>1. Inv => TypeOK
    BY DEF Inv, Control, Flags, Data, DumpState, TypeOK
  <1> QED
    BY <1>1, Invariance, PTL

\* The live loop and the stop eventfd outlive the worker and the initial dump,
\* and signalStop() never finds the eventfd gone.
THEOREM SignalsOutliveUsers == Spec => []SignalOutlivesUsers
  <1>1. Inv => SignalOutlivesUsers
    BY DEF Inv, Control, Flags, Polled, Signals, SignalOutlivesUsers
  <1> QED
    BY <1>1, Invariance, PTL

\* Whichever of stop() and the rollback paths of start() ended the epoch, a
\* stopped monitor holds no worker, descriptor, cached fact or failure.
THEOREM StoppedMonitorsAreClean == Spec => []StoppedIsClean
  <1>1. Inv => StoppedIsClean
    BY DEF Inv, Control, Flags, Caching, Polled, Signals, StoppedIsClean
  <1> QED
    BY <1>1, Invariance, PTL

\* A running monitor whose worker is gone has the loss recorded.
THEOREM DeadWorkersAreReported == Spec => []DeadWorkerReported
  <1>1. Inv => DeadWorkerReported
    BY DEF Inv, Control, Flags, DeadWorkerReported
  <1> QED
    BY <1>1, Invariance, PTL

-----------------------------------------------------------------------------
(* What the consumer ends up with *)

\* The live socket has nothing to read and nothing was lost there.
Quiet == loop /\ socket = <<>> /\ ~overrun

\* t's dump has taken the fact in, if there was one.
Past(t) ==
    \/ dump[t].at = "done"
    \/ dump[t].req > FactRequest
    \/ dump[t].req = FactRequest /\ dump[t].at = "emit"

\* t's dump has still to take it in, or failed.
StartPending  == starter = "open" \/ (starter = "dump" /\ ~Past("start"))
RedumpPending == redumper = "dump" /\ ~Past("redump")

\* The epoch whose consumer is being told: not yet failed, cancelled or stopped.
Telling ==
    \/ lifecycle = "running"
    \/ starter \in {"open", "dump", "spawn", "probe", "commit"}

\* No delivery was dropped and nothing ran beside the last redump.
Clean == ~lost /\ ~raced /\ ~undefined

\* A change in hand is one its thread is at the step of emitting; dumps carry
\* the fact in one answer only; both eventfds come and go together.
Carrying ==
    /\ held["worker"] # Nothing => worker = "live"
    /\ \A t \in Dumpers :
         /\ held[t] # Nothing => dump[t].at = "emit" /\ dump[t].req = FactRequest
         /\ dump[t].at = "wait" /\ dump[t].req # FactRequest
              => dump[t].answer = Absent
    /\ redumper # "idle" => spent.redumps > 0
    /\ signal["stop"] = "gone" <=> signal["redump"] = "gone"

\* The last notification in the live socket is the kernel's value; an overrun
\* leaves the socket full; the initial dump's snapshot is older than anything
\* in the socket.
Queueing ==
    /\ overrun => socket # <<>>
    /\ loop /\ socket # <<>> /\ ~overrun => socket[Len(socket)] = kernel
    /\ Quiet /\ starter = "dump" =>
         /\ dump["start"].at = "wait" /\ dump["start"].req = FactRequest
              => dump["start"].answer = kernel
         /\ held["start"] \in {Nothing, kernel}

\* A redump nothing ran beside replays the kernel's value into a silent
\* monitor.
Replaying ==
    redumper = "dump" /\ ~raced /\ ~undefined =>
         /\ Quiet /\ held["worker"] = Nothing
         /\ dump["redump"].at = "wait" /\ dump["redump"].req = FactRequest
              => dump["redump"].answer = kernel
         /\ held["redump"] \in {Nothing, kernel}

\* The cache follows the kernel once socket and dumps are through.
Caught ==
    /\ starter = "open" /\ ~undefined => cache = Absent /\ view = Absent
    /\ Clean /\ Telling /\ Quiet =>
         /\ cache \in {Absent, kernel}
         /\ ~StartPending /\ ~RedumpPending => cache = kernel

\* The consumer follows the cache once nothing is in hand; what a redump
\* cannot replay is a removal.
Following ==
    Clean /\ Telling =>
         /\ held["worker"] \in {Nothing, cache}
         /\ redumper # "dump" => held["start"] \in {Nothing, cache}
         /\ loop /\ (\A t \in Emitters : held[t] = Nothing) =>
              view = cache \/ (cache = Absent /\ spent.redumps > 0)

\* No step separates a change in hand from its emission.
LEMMA CarryingStep == Control /\ Data /\ Caching /\ Carrying /\ [Next]_vars => Carrying'
  <1> SUFFICES ASSUME Control, Data, Caching, Carrying, [Next]_vars
               PROVE  Carrying'
    OBVIOUS
  <1> USE DEF Spend, Control, Polled, Caching, Data, Carrying, DumpState, Dumpers,
              Emitters, Signals, Eventfd, threads, signals, flags, traffic,
              data, history
  <1>1. ASSUME NEW v \in Facts, KernelChange(v)
        PROVE  Carrying'
    BY <1>1 DEF KernelChange
  <1>2. ASSUME NEW t \in Dumpers, Dumping(t)
        PROVE  Carrying'
    <2>1. CASE DumpSend(t)
      BY <2>1 DEF DumpSend
    <2>2. CASE DumpReceive(t)
      BY <2>2 DEF DumpReceive, Store
    <2>3. CASE DumpEmit(t)
      BY <2>3 DEF DumpEmit, Emit
    <2>4. CASE DumpNext(t)
      BY <2>4 DEF DumpNext, NewDump, NoDump
    <2>5. CASE DumpInterrupted(t)
      BY <2>5 DEF DumpInterrupted, NoDump
    <2>6. CASE DumpFails(t)
      BY <2>6 DEF DumpFails, NoDump
    <2> QED
      BY <1>2, <2>1, <2>2, <2>3, <2>4, <2>5, <2>6
      DEF Dumping
  <1>3. CASE Starting
    <2>1. CASE StartClaim
      BY <2>1 DEF StartClaim
    <2>2. CASE StartOpen
      BY <2>2 DEF StartOpen, NewDump
    <2>3. CASE StartOpenFails
      BY <2>3 DEF StartOpenFails
    <2>4. CASE StartDumped
      BY <2>4 DEF StartDumped, NoDump
    <2>5. CASE StartSpawn
      BY <2>5 DEF StartSpawn
    <2>6. CASE StartSpawnFails
      BY <2>6 DEF StartSpawnFails
    <2>7. CASE StartProbe
      BY <2>7 DEF StartProbe
    <2>8. CASE StartCommit
      BY <2>8 DEF StartCommit
    <2>9. CASE StartSignal
      BY <2>9 DEF StartSignal, SignalStop
    <2>10. CASE StartJoin
      BY <2>10 DEF StartJoin
    <2>11. CASE StartClose
      BY <2>11 DEF StartClose
    <2>12. CASE StartDestroy
      BY <2>12 DEF StartDestroy, Destroy
    <2>13. CASE StartFail
      BY <2>13 DEF StartFail
    <2> QED
      BY <1>3, <2>1, <2>2, <2>3, <2>4, <2>5, <2>6, <2>7, <2>8,
         <2>9, <2>10, <2>11, <2>12, <2>13
      DEF Starting
  <1>4. CASE Stopping
    <2>1. CASE StopCancel
      BY <2>1 DEF StopCancel, SignalStop
    <2>2. CASE StopClaim
      BY <2>2 DEF StopClaim
    <2>3. CASE StopSignal
      BY <2>3 DEF StopSignal, SignalStop
    <2>4. CASE StopJoin
      BY <2>4 DEF StopJoin
    <2>5. CASE StopClose
      BY <2>5 DEF StopClose
    <2>6. CASE StopDestroy
      BY <2>6 DEF StopDestroy, Destroy
    <2>7. CASE StopComplete
      BY <2>7 DEF StopComplete
    <2> QED
      BY <1>4, <2>1, <2>2, <2>3, <2>4, <2>5, <2>6, <2>7
      DEF Stopping
  <1>5. CASE Redumping
    <2>1. CASE RedumpCheck
      BY <2>1 DEF RedumpCheck
    <2>2. CASE RedumpClaim
      BY <2>2 DEF RedumpClaim
    <2>3. CASE RedumpUse
      BY <2>3 DEF RedumpUse
    <2>4. CASE RedumpClear
      BY <2>4 DEF RedumpClear, NewDump
    <2>5. CASE RedumpEnd
      BY <2>5 DEF RedumpEnd, NoDump
    <2> QED
      BY <1>5, <2>1, <2>2, <2>3, <2>4, <2>5
      DEF Redumping
  <1>6. CASE Working
    <2>1. CASE WorkerReceive
      BY <2>1 DEF WorkerReceive, Store
    <2>2. CASE WorkerEmit
      BY <2>2 DEF WorkerEmit, Emit
    <2>3. CASE WorkerStop
      BY <2>3 DEF WorkerStop, Exit
    <2>4. CASE WorkerFails
      BY <2>4 DEF WorkerFails, Exit
    <2> QED
      BY <1>6, <2>1, <2>2, <2>3, <2>4
      DEF Working
  <1>7. CASE UNCHANGED vars
    BY <1>7 DEF vars
  <1> QED
    BY <1>1, <1>2, <1>3, <1>4, <1>5, <1>6, <1>7 DEF Next

\* The live socket keeps the order of the kernel's changes.
LEMMA QueueingStep ==
    Control /\ Flags /\ Data /\ Caching /\ Carrying /\ Queueing /\ [Next]_vars
      => Queueing'
  <1> SUFFICES ASSUME Control, Flags, Data, Caching, Carrying, Queueing, [Next]_vars
               PROVE  Queueing'
    OBVIOUS
  <1> USE DEF Spend, Control, Polled, Flags, Caching, Data, Carrying, Queueing, Quiet,
              Dumpers, Emitters, Signals, threads, signals, flags, traffic,
              data, history
  <1>1. ASSUME NEW v \in Facts, KernelChange(v)
        PROVE  Queueing'
    <2>1. CASE ~loop \/ ~(Len(socket) < SocketCap)
      <3>1. socket' = socket /\ (loop => overrun') /\ (~loop => overrun' = overrun)
        BY <1>1, <2>1 DEF KernelChange
      <3>2. loop => socket # <<>>
        BY <2>1, MonitorBounds
      <3> QED
        BY <1>1, <3>1, <3>2 DEF KernelChange
    <2>2. CASE loop /\ Len(socket) < SocketCap
      <3>1. socket' = Append(socket, v) /\ kernel' = v /\ overrun' = overrun
        BY <1>1, <2>2 DEF KernelChange
      <3>2. socket' # <<>> /\ socket'[Len(socket')] = v
        BY <3>1
      <3> QED
        BY <1>1, <3>1, <3>2 DEF KernelChange
    <2> QED
      BY <2>1, <2>2
  <1>2. ASSUME NEW t \in Dumpers, Dumping(t)
        PROVE  Queueing'
    <2>1. CASE DumpSend(t)
      BY <2>1 DEF DumpSend
    <2>2. CASE DumpReceive(t)
      BY <2>2 DEF DumpReceive, Store
    <2>3. CASE DumpEmit(t)
      BY <2>3 DEF DumpEmit, Emit
    <2>4. CASE DumpNext(t)
      BY <2>4 DEF DumpNext, NewDump, NoDump
    <2>5. CASE DumpInterrupted(t)
      BY <2>5 DEF DumpInterrupted, NoDump
    <2>6. CASE DumpFails(t)
      BY <2>6 DEF DumpFails, NoDump
    <2> QED
      BY <1>2, <2>1, <2>2, <2>3, <2>4, <2>5, <2>6
      DEF Dumping
  <1>3. CASE Starting
    <2>1. CASE StartClaim
      BY <2>1 DEF StartClaim
    <2>2. CASE StartOpen
      BY <2>2 DEF StartOpen, NewDump
    <2>3. CASE StartOpenFails
      BY <2>3 DEF StartOpenFails
    <2>4. CASE StartDumped
      BY <2>4 DEF StartDumped, NoDump
    <2>5. CASE StartSpawn
      BY <2>5 DEF StartSpawn
    <2>6. CASE StartSpawnFails
      BY <2>6 DEF StartSpawnFails
    <2>7. CASE StartProbe
      BY <2>7 DEF StartProbe
    <2>8. CASE StartCommit
      BY <2>8 DEF StartCommit
    <2>9. CASE StartSignal
      BY <2>9 DEF StartSignal, SignalStop
    <2>10. CASE StartJoin
      BY <2>10 DEF StartJoin
    <2>11. CASE StartClose
      BY <2>11 DEF StartClose
    <2>12. CASE StartDestroy
      BY <2>12 DEF StartDestroy, Destroy
    <2>13. CASE StartFail
      BY <2>13 DEF StartFail
    <2> QED
      BY <1>3, <2>1, <2>2, <2>3, <2>4, <2>5, <2>6, <2>7, <2>8,
         <2>9, <2>10, <2>11, <2>12, <2>13
      DEF Starting
  <1>4. CASE Stopping
    <2>1. CASE StopCancel
      BY <2>1 DEF StopCancel, SignalStop
    <2>2. CASE StopClaim
      BY <2>2 DEF StopClaim
    <2>3. CASE StopSignal
      BY <2>3 DEF StopSignal, SignalStop
    <2>4. CASE StopJoin
      BY <2>4 DEF StopJoin
    <2>5. CASE StopClose
      BY <2>5 DEF StopClose
    <2>6. CASE StopDestroy
      BY <2>6 DEF StopDestroy, Destroy
    <2>7. CASE StopComplete
      BY <2>7 DEF StopComplete
    <2> QED
      BY <1>4, <2>1, <2>2, <2>3, <2>4, <2>5, <2>6, <2>7
      DEF Stopping
  <1>5. CASE Redumping
    <2>1. CASE RedumpCheck
      BY <2>1 DEF RedumpCheck
    <2>2. CASE RedumpClaim
      BY <2>2 DEF RedumpClaim
    <2>3. CASE RedumpUse
      BY <2>3 DEF RedumpUse
    <2>4. CASE RedumpClear
      BY <2>4 DEF RedumpClear, NewDump
    <2>5. CASE RedumpEnd
      BY <2>5 DEF RedumpEnd, NoDump
    <2> QED
      BY <1>5, <2>1, <2>2, <2>3, <2>4, <2>5
      DEF Redumping
  <1>6. CASE Working
    <2>1. CASE WorkerReceive
      BY <2>1 DEF WorkerReceive, Store
    <2>2. CASE WorkerEmit
      BY <2>2 DEF WorkerEmit, Emit
    <2>3. CASE WorkerStop
      BY <2>3 DEF WorkerStop, Exit
    <2>4. CASE WorkerFails
      BY <2>4 DEF WorkerFails, Exit
    <2> QED
      BY <1>6, <2>1, <2>2, <2>3, <2>4
      DEF Working
  <1>7. CASE UNCHANGED vars
    BY <1>7 DEF vars
  <1> QED
    BY <1>1, <1>2, <1>3, <1>4, <1>5, <1>6, <1>7 DEF Next

\* Whatever runs beside a redump marks it.
LEMMA ReplayingStep ==
    Control /\ Flags /\ Data /\ Caching /\ Carrying /\ Queueing /\ Replaying
      /\ [Next]_vars => Replaying'
  <1> SUFFICES ASSUME Control, Flags, Data, Caching, Carrying, Queueing, Replaying, [Next]_vars
               PROVE  Replaying'
    OBVIOUS
  <1> USE DEF Spend, Control, Polled, Flags, Caching, Data, Carrying, Queueing,
              Replaying, Quiet, Dumpers, Emitters, Signals, threads, signals,
              flags, traffic, data, history
  <1>1. ASSUME NEW v \in Facts, KernelChange(v)
        PROVE  Replaying'
    BY <1>1 DEF KernelChange
  <1>2. ASSUME NEW t \in Dumpers, Dumping(t)
        PROVE  Replaying'
    <2>1. CASE DumpSend(t)
      BY <2>1 DEF DumpSend
    <2>2. CASE DumpReceive(t)
      BY <2>2 DEF DumpReceive, Store
    <2>3. CASE DumpEmit(t)
      BY <2>3 DEF DumpEmit, Emit
    <2>4. CASE DumpNext(t)
      BY <2>4 DEF DumpNext, NewDump, NoDump
    <2>5. CASE DumpInterrupted(t)
      BY <2>5 DEF DumpInterrupted, NoDump
    <2>6. CASE DumpFails(t)
      BY <2>6 DEF DumpFails, NoDump
    <2> QED
      BY <1>2, <2>1, <2>2, <2>3, <2>4, <2>5, <2>6
      DEF Dumping
  <1>3. CASE Starting
    <2>1. CASE StartClaim
      BY <2>1 DEF StartClaim
    <2>2. CASE StartOpen
      BY <2>2 DEF StartOpen, NewDump
    <2>3. CASE StartOpenFails
      BY <2>3 DEF StartOpenFails
    <2>4. CASE StartDumped
      BY <2>4 DEF StartDumped, NoDump
    <2>5. CASE StartSpawn
      BY <2>5 DEF StartSpawn
    <2>6. CASE StartSpawnFails
      BY <2>6 DEF StartSpawnFails
    <2>7. CASE StartProbe
      BY <2>7 DEF StartProbe
    <2>8. CASE StartCommit
      BY <2>8 DEF StartCommit
    <2>9. CASE StartSignal
      BY <2>9 DEF StartSignal, SignalStop
    <2>10. CASE StartJoin
      BY <2>10 DEF StartJoin
    <2>11. CASE StartClose
      BY <2>11 DEF StartClose
    <2>12. CASE StartDestroy
      BY <2>12 DEF StartDestroy, Destroy
    <2>13. CASE StartFail
      BY <2>13 DEF StartFail
    <2> QED
      BY <1>3, <2>1, <2>2, <2>3, <2>4, <2>5, <2>6, <2>7, <2>8,
         <2>9, <2>10, <2>11, <2>12, <2>13
      DEF Starting
  <1>4. CASE Stopping
    <2>1. CASE StopCancel
      BY <2>1 DEF StopCancel, SignalStop
    <2>2. CASE StopClaim
      BY <2>2 DEF StopClaim
    <2>3. CASE StopSignal
      BY <2>3 DEF StopSignal, SignalStop
    <2>4. CASE StopJoin
      BY <2>4 DEF StopJoin
    <2>5. CASE StopClose
      BY <2>5 DEF StopClose
    <2>6. CASE StopDestroy
      BY <2>6 DEF StopDestroy, Destroy
    <2>7. CASE StopComplete
      BY <2>7 DEF StopComplete
    <2> QED
      BY <1>4, <2>1, <2>2, <2>3, <2>4, <2>5, <2>6, <2>7
      DEF Stopping
  <1>5. CASE Redumping
    <2>1. CASE RedumpCheck
      BY <2>1 DEF RedumpCheck
    <2>2. CASE RedumpClaim
      BY <2>2 DEF RedumpClaim
    <2>3. CASE RedumpUse
      BY <2>3 DEF RedumpUse
    <2>4. CASE RedumpClear
      BY <2>4 DEF RedumpClear, NewDump
    <2>5. CASE RedumpEnd
      BY <2>5 DEF RedumpEnd, NoDump
    <2> QED
      BY <1>5, <2>1, <2>2, <2>3, <2>4, <2>5
      DEF Redumping
  <1>6. CASE Working
    <2>1. CASE WorkerReceive
      BY <2>1 DEF WorkerReceive, Store
    <2>2. CASE WorkerEmit
      BY <2>2 DEF WorkerEmit, Emit
    <2>3. CASE WorkerStop
      BY <2>3 DEF WorkerStop, Exit
    <2>4. CASE WorkerFails
      BY <2>4 DEF WorkerFails, Exit
    <2> QED
      BY <1>6, <2>1, <2>2, <2>3, <2>4
      DEF Working
  <1>7. CASE UNCHANGED vars
    BY <1>7 DEF vars
  <1> QED
    BY <1>1, <1>2, <1>3, <1>4, <1>5, <1>6, <1>7 DEF Next

\* The last notification to be read is the last one sent.
LEMMA LastOne ==
    ASSUME NEW q \in Seq(Facts), q # <<>>, Tail(q) = <<>>
    PROVE  Head(q) = q[Len(q)]
  <1>1. Len(Tail(q)) = Len(q) - 1 /\ Len(q) \in Nat
    OBVIOUS
  <1>2. Len(q) = 1
    BY <1>1
  <1> QED
    BY <1>2

\* The cache catches up with the kernel.
LEMMA CaughtStep ==
    Control /\ Flags /\ Data /\ Caching /\ Carrying /\ Queueing /\ Replaying
      /\ Caught /\ [Next]_vars => Caught'
  <1> SUFFICES ASSUME Control, Flags, Data, Caching, Carrying, Queueing, Replaying,
                      Caught, [Next]_vars
               PROVE  Caught'
    OBVIOUS
  <1> USE DEF Spend, Control, Polled, Flags, Caching, Data, Carrying, Queueing,
              Replaying, Caught, Clean, Telling, StartPending, RedumpPending,
              Past, Quiet, Dumpers, Emitters, Signals, threads, signals,
              flags, traffic, data, history
  <1>1. ASSUME NEW v \in Facts, KernelChange(v)
        PROVE  Caught'
    BY <1>1 DEF KernelChange
  <1>2. ASSUME NEW t \in Dumpers, Dumping(t)
        PROVE  Caught'
    <2>1. CASE DumpSend(t)
      BY <2>1 DEF DumpSend
    <2>2. CASE DumpReceive(t)
      BY <2>2 DEF DumpReceive, Store
    <2>3. CASE DumpEmit(t)
      BY <2>3 DEF DumpEmit, Emit
    <2>4. CASE DumpNext(t)
      <3>1. /\ UNCHANGED <<lifecycle, starter, redumper, loop, socket, overrun,
                           kernel, cache, held, view, lost, raced, undefined>>
            /\ \A u \in Dumpers : u # t => dump'[u] = dump[u]
        BY <2>4 DEF DumpNext
      <3>2. Past(t)' => Past(t)
        <4>1. dump[t].at = "emit" /\ dump[t].req \in 0 .. Requests
          BY <2>4 DEF DumpNext, DumpState
        <4>2. CASE dump[t].req < Requests
          <5>1. dump'[t].req = dump[t].req + 1 /\ dump'[t].at = "send"
            BY <2>4, <4>2 DEF DumpNext, NewDump
          <5> QED
            BY <4>1, <5>1, MonitorBounds
        <4>3. CASE ~(dump[t].req < Requests)
          BY <4>1, <4>3, MonitorBounds
        <4> QED
          BY <4>2, <4>3
      <3>3. (StartPending => StartPending') /\ (RedumpPending => RedumpPending')
        BY <3>1, <3>2
      <3> HIDE DEF Past, StartPending, RedumpPending
      <3> QED
        BY <3>1, <3>3
    <2>5. CASE DumpInterrupted(t)
      <3>1. /\ UNCHANGED <<lifecycle, starter, redumper, loop, socket, overrun,
                           kernel, cache, held, view, lost, raced, undefined>>
            /\ \A u \in Dumpers : u # t => dump'[u] = dump[u]
        BY <2>5 DEF DumpInterrupted
      <3>2. ~Past(t)'
        BY <2>5, MonitorBounds DEF DumpInterrupted, NoDump
      <3> QED
        BY <3>1, <3>2
    <2>6. CASE DumpFails(t)
      <3>1. /\ UNCHANGED <<lifecycle, starter, redumper, loop, socket, overrun,
                           kernel, cache, view, raced, undefined>>
            /\ \A u \in Dumpers : u # t => dump'[u] = dump[u]
            /\ lost => lost'
        BY <2>6 DEF DumpFails
      <3>2. ~Past(t)'
        BY <2>6, MonitorBounds DEF DumpFails, NoDump
      <3> QED
        BY <3>1, <3>2
    <2> QED
      BY <1>2, <2>1, <2>2, <2>3, <2>4, <2>5, <2>6
      DEF Dumping
  <1>3. CASE Starting
    <2>1. CASE StartClaim
      BY <2>1 DEF StartClaim
    <2>2. CASE StartOpen
      <3>1. /\ starter = "open" /\ starter' = "dump"
            /\ UNCHANGED <<lifecycle, kernel, cache, view, undefined>>
        BY <2>2 DEF StartOpen
      <3>2. ~Past("start")'
        BY <2>2, MonitorBounds DEF StartOpen, NewDump
      <3> QED
        BY <3>1, <3>2
    <2>3. CASE StartOpenFails
      BY <2>3 DEF StartOpenFails
    <2>4. CASE StartDumped
      BY <2>4 DEF StartDumped, NoDump
    <2>5. CASE StartSpawn
      BY <2>5 DEF StartSpawn
    <2>6. CASE StartSpawnFails
      BY <2>6 DEF StartSpawnFails
    <2>7. CASE StartProbe
      BY <2>7 DEF StartProbe
    <2>8. CASE StartCommit
      BY <2>8 DEF StartCommit
    <2>9. CASE StartSignal
      BY <2>9 DEF StartSignal, SignalStop
    <2>10. CASE StartJoin
      BY <2>10 DEF StartJoin
    <2>11. CASE StartClose
      BY <2>11 DEF StartClose
    <2>12. CASE StartDestroy
      BY <2>12 DEF StartDestroy, Destroy
    <2>13. CASE StartFail
      BY <2>13 DEF StartFail
    <2> QED
      BY <1>3, <2>1, <2>2, <2>3, <2>4, <2>5, <2>6, <2>7, <2>8,
         <2>9, <2>10, <2>11, <2>12, <2>13
      DEF Starting
  <1>4. CASE Stopping
    <2>1. CASE StopCancel
      BY <2>1 DEF StopCancel, SignalStop
    <2>2. CASE StopClaim
      BY <2>2 DEF StopClaim
    <2>3. CASE StopSignal
      BY <2>3 DEF StopSignal, SignalStop
    <2>4. CASE StopJoin
      BY <2>4 DEF StopJoin
    <2>5. CASE StopClose
      BY <2>5 DEF StopClose
    <2>6. CASE StopDestroy
      BY <2>6 DEF StopDestroy, Destroy
    <2>7. CASE StopComplete
      BY <2>7 DEF StopComplete
    <2> QED
      BY <1>4, <2>1, <2>2, <2>3, <2>4, <2>5, <2>6, <2>7
      DEF Stopping
  <1>5. CASE Redumping
    <2>1. CASE RedumpCheck
      BY <2>1 DEF RedumpCheck
    <2>2. CASE RedumpClaim
      BY <2>2 DEF RedumpClaim
    <2>3. CASE RedumpUse
      BY <2>3 DEF RedumpUse
    <2>4. CASE RedumpClear
      <3>1. /\ UNCHANGED <<lifecycle, starter, kernel, view, undefined>>
            /\ cache' = Absent /\ redumper' = "dump"
        BY <2>4 DEF RedumpClear
      <3>2. ~Past("redump")'
        BY <2>4, MonitorBounds DEF RedumpClear, NewDump
      <3> QED
        BY <3>1, <3>2
    <2>5. CASE RedumpEnd
      BY <2>5 DEF RedumpEnd, NoDump
    <2> QED
      BY <1>5, <2>1, <2>2, <2>3, <2>4, <2>5
      DEF Redumping
  <1>6. CASE Working
    <2>1. CASE WorkerReceive
      <3>1. /\ UNCHANGED <<lifecycle, starter, redumper, loop, overrun, kernel,
                           dump, view, lost, raced, undefined>>
            /\ cache' = Head(socket) /\ socket' = Tail(socket)
            /\ worker = "live" /\ socket # <<>> /\ ~overrun
        BY <2>1 DEF WorkerReceive, Store
      <3>2. starter # "open"
        BY <3>1
      <3>3. ASSUME socket' = <<>>, loop
            PROVE  cache' = kernel
        BY <3>1, <3>3, LastOne
      <3> QED
        BY <3>1, <3>2, <3>3
    <2>2. CASE WorkerEmit
      BY <2>2 DEF WorkerEmit, Emit
    <2>3. CASE WorkerStop
      BY <2>3 DEF WorkerStop, Exit
    <2>4. CASE WorkerFails
      BY <2>4 DEF WorkerFails, Exit
    <2> QED
      BY <1>6, <2>1, <2>2, <2>3, <2>4
      DEF Working
  <1>7. CASE UNCHANGED vars
    BY <1>7 DEF vars
  <1> QED
    BY <1>1, <1>2, <1>3, <1>4, <1>5, <1>6, <1>7 DEF Next

\* The consumer catches up with the cache.
LEMMA FollowingStep ==
    Control /\ Flags /\ Data /\ Caching /\ Carrying /\ Queueing /\ Replaying
      /\ Caught /\ Following /\ [Next]_vars => Following'
  <1> SUFFICES ASSUME Control, Flags, Data, Caching, Carrying, Queueing, Replaying,
                      Caught, Following, [Next]_vars
               PROVE  Following'
    OBVIOUS
  <1> USE DEF Spend, Control, Polled, Flags, Caching, Data, Carrying, Queueing,
              Replaying, Caught, Following, Clean, Telling, StartPending,
              RedumpPending, Past, Quiet, Dumpers, Emitters, Signals, threads,
              signals, flags, traffic, data, history
  <1>1. ASSUME NEW v \in Facts, KernelChange(v)
        PROVE  Following'
    BY <1>1 DEF KernelChange
  <1>2. ASSUME NEW t \in Dumpers, Dumping(t)
        PROVE  Following'
    <2>1. CASE DumpSend(t)
      BY <2>1 DEF DumpSend
    <2>2. CASE DumpReceive(t)
      <3>1. /\ UNCHANGED <<lifecycle, starter, redumper, worker, loop, socket,
                           overrun, kernel, view, lost, raced, undefined, spent>>
            /\ dump[t].at = "wait"
        BY <2>2 DEF DumpReceive
      <3>2. CASE dump[t].answer = Absent
        BY <2>2, <3>1, <3>2 DEF DumpReceive
      <3>3. CASE dump[t].answer # Absent
        <4> DEFINE v == dump[t].answer
        <4>1. /\ cache' = v /\ dump[t].req = FactRequest
              /\ \A u \in Emitters : u # t => held'[u] = held[u]
              /\ held'[t] = IF v # cache THEN v ELSE Nothing
          BY <2>2, <3>3 DEF DumpReceive, Store
        <4>2. CASE t = "start"
          <5>1. starter = "dump" /\ worker # "live" /\ held["worker"] = Nothing
            BY <3>1, <4>2
          <5>2. redumper = "dump" /\ ~raced /\ ~undefined
                  => Quiet /\ v = kernel
            BY <3>1, <4>1, <4>2, <5>1
          <5>3. held'["redump"] = held["redump"] /\ held'["worker"] = Nothing
            BY <4>1, <4>2, <5>1
          <5> SUFFICES ASSUME Clean, Telling
                       PROVE  /\ redumper # "dump" => held'["start"] \in {Nothing, v}
                              /\ loop /\ (\A u \in Emitters : held'[u] = Nothing) =>
                                   view = v \/ (v = Absent /\ spent.redumps > 0)
            BY <3>1, <4>1, <5>3
          <5>4. redumper # "dump" => held'["start"] \in {Nothing, v}
            BY <4>1, <4>2
          <5>5. ASSUME loop, \A u \in Emitters : held'[u] = Nothing
                PROVE  view = v
            <6>0. v \in Facts /\ v # Nothing
              BY MonitorValues DEF Facts, DumpState
            <6>1. v = cache /\ held["start"] = Nothing
              BY <3>1, <4>1, <4>2, <5>5, <6>0
            <6>2. held["redump"] = Nothing
              BY <5>3, <5>5
            <6> QED
              BY <3>3, <5>1, <5>5, <6>1, <6>2
          <5> QED
            BY <5>4, <5>5
        <4>3. CASE t = "redump"
          <5>1. redumper = "dump"
            BY <3>1, <4>3
          <5>2. ~raced /\ ~undefined => Quiet /\ v = kernel /\ held["worker"] = Nothing
            BY <3>1, <4>1, <4>3, <5>1
          <5>3. held'["start"] = held["start"] /\ held'["worker"] = held["worker"]
            BY <4>1, <4>3
          <5>4. ASSUME Clean, Telling, loop,
                       \A u \in Emitters : held'[u] = Nothing
                PROVE  view = v
            <6>1. v = cache /\ held["redump"] = Nothing
              BY <3>1, <3>3, <4>1, <4>3, <5>4, MonitorValues DEF Facts
            <6> QED
              BY <3>3, <5>2, <5>3, <5>4, <6>1
          <5> QED
            BY <3>1, <4>1, <5>1, <5>2, <5>3, <5>4
        <4> QED
          BY <4>2, <4>3
      <3> QED
        BY <3>2, <3>3
    <2>3. CASE DumpEmit(t)
      BY <2>3 DEF DumpEmit, Emit
    <2>4. CASE DumpNext(t)
      BY <2>4 DEF DumpNext, NewDump, NoDump
    <2>5. CASE DumpInterrupted(t)
      BY <2>5 DEF DumpInterrupted, NoDump
    <2>6. CASE DumpFails(t)
      BY <2>6 DEF DumpFails, NoDump
    <2> QED
      BY <1>2, <2>1, <2>2, <2>3, <2>4, <2>5, <2>6
      DEF Dumping
  <1>3. CASE Starting
    <2>1. CASE StartClaim
      BY <2>1 DEF StartClaim
    <2>2. CASE StartOpen
      BY <2>2 DEF StartOpen, NewDump
    <2>3. CASE StartOpenFails
      BY <2>3 DEF StartOpenFails
    <2>4. CASE StartDumped
      BY <2>4 DEF StartDumped, NoDump
    <2>5. CASE StartSpawn
      BY <2>5 DEF StartSpawn
    <2>6. CASE StartSpawnFails
      BY <2>6 DEF StartSpawnFails
    <2>7. CASE StartProbe
      BY <2>7 DEF StartProbe
    <2>8. CASE StartCommit
      BY <2>8 DEF StartCommit
    <2>9. CASE StartSignal
      BY <2>9 DEF StartSignal, SignalStop
    <2>10. CASE StartJoin
      BY <2>10 DEF StartJoin
    <2>11. CASE StartClose
      BY <2>11 DEF StartClose
    <2>12. CASE StartDestroy
      BY <2>12 DEF StartDestroy, Destroy
    <2>13. CASE StartFail
      BY <2>13 DEF StartFail
    <2> QED
      BY <1>3, <2>1, <2>2, <2>3, <2>4, <2>5, <2>6, <2>7, <2>8,
         <2>9, <2>10, <2>11, <2>12, <2>13
      DEF Starting
  <1>4. CASE Stopping
    <2>1. CASE StopCancel
      BY <2>1 DEF StopCancel, SignalStop
    <2>2. CASE StopClaim
      BY <2>2 DEF StopClaim
    <2>3. CASE StopSignal
      BY <2>3 DEF StopSignal, SignalStop
    <2>4. CASE StopJoin
      BY <2>4 DEF StopJoin
    <2>5. CASE StopClose
      BY <2>5 DEF StopClose
    <2>6. CASE StopDestroy
      BY <2>6 DEF StopDestroy, Destroy
    <2>7. CASE StopComplete
      BY <2>7 DEF StopComplete
    <2> QED
      BY <1>4, <2>1, <2>2, <2>3, <2>4, <2>5, <2>6, <2>7
      DEF Stopping
  <1>5. CASE Redumping
    <2>1. CASE RedumpCheck
      BY <2>1 DEF RedumpCheck
    <2>2. CASE RedumpClaim
      BY <2>2 DEF RedumpClaim
    <2>3. CASE RedumpUse
      BY <2>3 DEF RedumpUse
    <2>4. CASE RedumpClear
      BY <2>4 DEF RedumpClear, NewDump
    <2>5. CASE RedumpEnd
      BY <2>5 DEF RedumpEnd, NoDump
    <2> QED
      BY <1>5, <2>1, <2>2, <2>3, <2>4, <2>5
      DEF Redumping
  <1>6. CASE Working
    <2>1. CASE WorkerReceive
      <3>1. /\ UNCHANGED <<lifecycle, starter, redumper, loop, overrun, kernel,
                           dump, view, lost, raced, undefined, spent>>
            /\ cache' = Head(socket) /\ socket # <<>> /\ worker = "live"
            /\ held["worker"] = Nothing
            /\ \A u \in Emitters : u # "worker" => held'[u] = held[u]
            /\ held'["worker"] = IF cache' # cache THEN cache' ELSE Nothing
        BY <2>1 DEF WorkerReceive, Store
      <3>2. starter # "dump" /\ held["start"] = Nothing
        BY <3>1
      <3>3. Clean /\ Telling => redumper # "dump"
        BY <3>1
      <3>4. cache' \in Facts
        BY <3>1
      <3>5. ASSUME Clean, Telling, loop, \A u \in Emitters : held'[u] = Nothing
            PROVE  view = cache' \/ (cache' = Absent /\ spent.redumps > 0)
        <4>1. cache' = cache
          BY <3>1, <3>4, <3>5, MonitorValues DEF Facts
        <4>2. \A u \in Emitters : held[u] = Nothing
          BY <3>1, <3>5
        <4> QED
          BY <3>5, <4>1, <4>2
      <3> QED
        BY <3>1, <3>2, <3>3, <3>5
    <2>2. CASE WorkerEmit
      BY <2>2 DEF WorkerEmit, Emit
    <2>3. CASE WorkerStop
      BY <2>3 DEF WorkerStop, Exit
    <2>4. CASE WorkerFails
      BY <2>4 DEF WorkerFails, Exit
    <2> QED
      BY <1>6, <2>1, <2>2, <2>3, <2>4
      DEF Working
  <1>7. CASE UNCHANGED vars
    BY <1>7 DEF vars
  <1> QED
    BY <1>1, <1>2, <1>3, <1>4, <1>5, <1>6, <1>7 DEF Next

\* Before the first start nothing is queued, in hand or seen.
LEMMA SettlingInit ==
    Init => Carrying /\ Queueing /\ Replaying /\ Caught /\ Following
  BY DEF Init, Carrying, Queueing, Replaying, Caught, Following, Telling,
         Dumpers, Emitters, Signals, NoDump

\* The initial dump, the notifications queued beside it, the live loop and a
\* redump after a dropped delivery leave the consumer with the kernel's value,
\* for every number of requests, whichever of them carries the fact, and every
\* socket size.
THEOREM ViewsSettle == Spec => []ViewSettles
  <1> DEFINE Settling == Carrying /\ Queueing /\ Replaying /\ Caught /\ Following
  <1>1. Inv /\ Settling /\ [Next]_vars => Settling'
    BY CarryingStep, QueueingStep, ReplayingStep, CaughtStep, FollowingStep
    DEF Inv
  <1>2. Inv /\ Settling => ViewSettles
    BY DEF Inv, Control, Flags, Polled, Signals, Caught, Following, Clean,
           Telling, StartPending, RedumpPending, Quiet, Settled, ViewSettles
  <1> QED
    BY <1>1, <1>2, SettlingInit, Invariance, PTL DEF Spec

=============================================================================
