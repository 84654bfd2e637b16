---------------------- MODULE ObservationServiceProofs ----------------------
(***************************************************************************)
(* Proofs about ObservationService for every set of keys, every list of    *)
(* transports and every bound, up to the refinement of Notification.       *)
(***************************************************************************)
EXTENDS ObservationService, TLAPS

-----------------------------------------------------------------------------
(* The inductive invariant, in parts *)

\* The steps of start() before it succeeds or fails, and of a teardown.
StartSteps == {"base", "reopen", "publisher", "runtime", "ready", "aging",
               "supervision"}
JoinSteps  == {"joinSupervision", "joinAging", "stopRuntime"}
TearSteps  == JoinSteps \cup {"close", "joinPublisher", "stopBase"}

\* Which step of start() and stop() finds which worker, and the runtime and
\* the transports in which state.
Control ==
    /\ lifecycle \in {"stopped", "starting", "running", "stopping", "escaped"}
    /\ owner \in StartSteps \cup TearSteps \cup {"idle", "clear"}
    /\ base \in {"down", "up", "ready"}
    /\ runtime \in {"stopped", "running"}
    /\ aging \in {"none", "live", "failed"}
    /\ supervision \in {"none", "live", "failed"}
    /\ publisher \in {"none", "live", "failed"}
    /\ lifecycle \in {"stopped", "running", "escaped"} => owner = "idle"
    /\ lifecycle = "starting" => owner \in StartSteps \cup TearSteps
    /\ lifecycle = "stopping" => owner \in TearSteps \cup {"clear"}
    /\ base = "down" <=> lifecycle = "stopped" \/ owner = "base"
    /\ publisher # "none" =>
         \/ lifecycle \in {"running", "escaped"}
         \/ owner \in JoinSteps \cup {"runtime", "ready", "aging", "supervision",
                                      "close", "joinPublisher"}
    /\ aging # "none" => \/ lifecycle = "running"
                         \/ owner \in {"supervision", "joinSupervision", "joinAging"}
    /\ supervision # "none" => lifecycle = "running" \/ owner = "joinSupervision"
    /\ lifecycle = "running" \/ owner \in {"ready", "aging", "supervision"}
         => runtime = "running"
    /\ aging # "none" \/ supervision # "none" => runtime = "running"

\* The flags, and what they say of the step.
Flags ==
    /\ admit \in BOOLEAN /\ producer \in BOOLEAN /\ open \in BOOLEAN
    /\ dirty \in BOOLEAN
    /\ lifecycle = "stopping" => ~admit
    /\ owner \in {"joinPublisher", "clear", "stopBase"} => ~open
    /\ lifecycle = "starting" /\ owner \in TearSteps => dirty
    /\ producer => runtime = "running"

\* The issue list has the failed workers, and no others unless a failed start
\* left them or stop() is about to clear it.
Deaths ==
    /\ down \subseteq {"runtime", "lldp"}
    /\ issues \subseteq {"runtime", "lldp", "aging", "supervision", "publication"}
    /\ aging = "failed" => "aging" \in issues
    /\ supervision = "failed" => "supervision" \in issues
    /\ publisher = "failed" => "publication" \in issues
    /\ ~dirty /\ (lifecycle # "stopping" \/ owner = "stopBase") =>
         /\ "aging" \in issues => aging = "failed"
         /\ "supervision" \in issues => supervision = "failed"
         /\ "publication" \in issues => publisher = "failed"

\* The marks, batches and signals, and the counters.
Data ==
    /\ pending \in MarksType /\ batch \in [Transports -> MarksType]
    /\ last \in MarksType /\ heard \in [Transports -> MarksType]
    /\ missed \in [Transports -> [Keys -> BOOLEAN]]
    /\ failures \subseteq Transports \X {"interface", "candidate", "local"}
                            \X Intents
    /\ spent \in [{"marks", "starts", "faults"} -> Nat]

\* Only a live worker has a batch; a teardown meets a worker unless none was
\* started, and then the queue is empty or an unstopped runtime fills it.
Draining ==
    /\ publisher # "live" => Drained
    /\ lifecycle = "running" => publisher # "none"
    /\ owner \in JoinSteps => publisher # "none"
    /\ lifecycle = "stopping" /\ owner \in {"close", "joinPublisher"}
         => publisher # "none"
    /\ owner \in {"runtime", "ready", "aging", "supervision"} => publisher # "none"
    /\ owner \in {"publisher", "close", "joinPublisher"} /\ publisher = "none"
       /\ runtime = "stopped" => pending = NoMarks
    /\ StopDrains

\* What is owed is the latest mark, and so is what was last heard when
\* nothing is owed, unless it was missed.
Fresh ==
    \A t \in Transports, k \in Keys : ~missed[t][k] =>
      /\ pending[k] # None => pending[k] = last[k]
      /\ pending[k] = None /\ batch[t][k] # None => batch[t][k] = last[k]
      /\ pending[k] = None /\ batch[t][k] = None => heard[t][k] = last[k]

-----------------------------------------------------------------------------
(* Each part is preserved *)

\* Every step keeps the workers, the runtime and the transports in order.
LEMMA ControlStep == Control /\ [Next]_vars => Control'
  <1> SUFFICES ASSUME Control, [Next]_vars
               PROVE  Control'
    OBVIOUS
  <1> USE DEF Control, StartSteps, JoinSteps, TearSteps, workers, queue, list, clients
  <1>1. CASE Producing
    <2>1. ASSUME NEW k \in Interfaces, NEW i \in Intents,
                 InterfaceEvent(k, i)
          PROVE  Control'
      BY <2>1 DEF InterfaceEvent, MarkKey
    <2>2. ASSUME NEW k \in Candidates, NEW i \in Intents,
                 CandidateEvent(k, i)
          PROVE  Control'
      BY <2>2 DEF CandidateEvent, MarkKey
    <2>3. CASE LocalStateEvent
      BY <2>3 DEF LocalStateEvent, MarkKey
    <2> QED
      BY <1>1, <2>1, <2>2, <2>3
      DEF Producing
  <1>2. CASE Publishing
    <2>1. CASE Take
      BY <2>1 DEF Take
    <2>2. ASSUME NEW t \in Transports, NEW k \in Keys,
                 Publish(t, k)
          PROVE  Control'
      BY <2>2 DEF Publish
    <2>3. ASSUME NEW t \in Transports, NEW k \in Keys,
                 PublishThrows(t, k)
          PROVE  Control'
      BY <2>3 DEF PublishThrows
    <2>4. CASE PublisherFails
      BY <2>4 DEF PublisherFails
    <2> QED
      BY <1>2, <2>1, <2>2, <2>3, <2>4
      DEF Publishing
  <1>3. CASE Monitoring
    <2>1. ASSUME NEW part \in {"runtime", "lldp"},
                 HealthChanges(part)
          PROVE  Control'
      BY <2>1 DEF HealthChanges
    <2>2. CASE AgingRound
      BY <2>2 DEF AgingRound, Refreshed
    <2>3. CASE AgingFails
      BY <2>3 DEF AgingFails
    <2>4. CASE SupervisionFails
      BY <2>4 DEF SupervisionFails
    <2> QED
      BY <1>3, <2>1, <2>2, <2>3, <2>4
      DEF Monitoring
  <1>4. CASE Starting
    <2>1. CASE StartClaim
      BY <2>1 DEF StartClaim
    <2>2. CASE StartBase
      BY <2>2 DEF StartBase
    <2>3. CASE StartBaseFails
      BY <2>3 DEF StartBaseFails
    <2>4. CASE StartReopen
      BY <2>4 DEF StartReopen
    <2>5. CASE StartPublisher
      BY <2>5 DEF StartPublisher
    <2>6. CASE StartRuntime
      BY <2>6 DEF StartRuntime
    <2>7. CASE StartReady
      BY <2>7 DEF StartReady, Refreshed
    <2>8. CASE StartAging
      BY <2>8 DEF StartAging
    <2>9. CASE StartSupervision
      BY <2>9 DEF StartSupervision
    <2>10. CASE StartFails
      BY <2>10 DEF StartFails
    <2> QED
      BY <1>4, <2>1, <2>2, <2>3, <2>4, <2>5, <2>6, <2>7, <2>8,
         <2>9, <2>10
      DEF Starting
  <1>5. CASE Stopping
    <2>1. CASE StopClaim
      BY <2>1 DEF StopClaim
    <2>2. CASE JoinSupervision
      BY <2>2 DEF JoinSupervision
    <2>3. CASE JoinAging
      BY <2>3 DEF JoinAging
    <2>4. CASE StopRuntime
      BY <2>4 DEF StopRuntime
    <2>5. CASE StopRuntimeThrows
      BY <2>5 DEF StopRuntimeThrows
    <2>6. CASE CloseQueue
      BY <2>6 DEF CloseQueue
    <2>7. CASE JoinPublisher
      BY <2>7 DEF JoinPublisher
    <2>8. CASE ClearIssues
      BY <2>8 DEF ClearIssues
    <2>9. CASE StopBase
      BY <2>9 DEF StopBase
    <2> QED
      BY <1>5, <2>1, <2>2, <2>3, <2>4, <2>5, <2>6, <2>7, <2>8, <2>9
      DEF Stopping
  <1>6. CASE UNCHANGED vars
    BY <1>6 DEF vars
  <1> QED
    BY <1>1, <1>2, <1>3, <1>4, <1>5, <1>6 DEF Next

\* The flags.
LEMMA FlagsStep == Control /\ Flags /\ [Next]_vars => Flags'
  <1> SUFFICES ASSUME Control, Flags, [Next]_vars
               PROVE  Flags'
    OBVIOUS
  <1> USE DEF Control, Flags, StartSteps, JoinSteps, TearSteps, workers, queue, list,
              clients
  <1>1. CASE Producing
    <2>1. ASSUME NEW k \in Interfaces, NEW i \in Intents,
                 InterfaceEvent(k, i)
          PROVE  Flags'
      BY <2>1 DEF InterfaceEvent, MarkKey
    <2>2. ASSUME NEW k \in Candidates, NEW i \in Intents,
                 CandidateEvent(k, i)
          PROVE  Flags'
      BY <2>2 DEF CandidateEvent, MarkKey
    <2>3. CASE LocalStateEvent
      BY <2>3 DEF LocalStateEvent, MarkKey
    <2> QED
      BY <1>1, <2>1, <2>2, <2>3
      DEF Producing
  <1>2. CASE Publishing
    <2>1. CASE Take
      BY <2>1 DEF Take
    <2>2. ASSUME NEW t \in Transports, NEW k \in Keys,
                 Publish(t, k)
          PROVE  Flags'
      BY <2>2 DEF Publish
    <2>3. ASSUME NEW t \in Transports, NEW k \in Keys,
                 PublishThrows(t, k)
          PROVE  Flags'
      BY <2>3 DEF PublishThrows
    <2>4. CASE PublisherFails
      BY <2>4 DEF PublisherFails
    <2> QED
      BY <1>2, <2>1, <2>2, <2>3, <2>4
      DEF Publishing
  <1>3. CASE Monitoring
    <2>1. ASSUME NEW part \in {"runtime", "lldp"},
                 HealthChanges(part)
          PROVE  Flags'
      BY <2>1 DEF HealthChanges
    <2>2. CASE AgingRound
      BY <2>2 DEF AgingRound, Refreshed
    <2>3. CASE AgingFails
      BY <2>3 DEF AgingFails
    <2>4. CASE SupervisionFails
      BY <2>4 DEF SupervisionFails
    <2> QED
      BY <1>3, <2>1, <2>2, <2>3, <2>4
      DEF Monitoring
  <1>4. CASE Starting
    <2>1. CASE StartClaim
      BY <2>1 DEF StartClaim
    <2>2. CASE StartBase
      BY <2>2 DEF StartBase
    <2>3. CASE StartBaseFails
      BY <2>3 DEF StartBaseFails
    <2>4. CASE StartReopen
      BY <2>4 DEF StartReopen
    <2>5. CASE StartPublisher
      BY <2>5 DEF StartPublisher
    <2>6. CASE StartRuntime
      BY <2>6 DEF StartRuntime
    <2>7. CASE StartReady
      BY <2>7 DEF StartReady, Refreshed
    <2>8. CASE StartAging
      BY <2>8 DEF StartAging
    <2>9. CASE StartSupervision
      BY <2>9 DEF StartSupervision
    <2>10. CASE StartFails
      BY <2>10 DEF StartFails
    <2> QED
      BY <1>4, <2>1, <2>2, <2>3, <2>4, <2>5, <2>6, <2>7, <2>8,
         <2>9, <2>10
      DEF Starting
  <1>5. CASE Stopping
    <2>1. CASE StopClaim
      BY <2>1 DEF StopClaim
    <2>2. CASE JoinSupervision
      BY <2>2 DEF JoinSupervision
    <2>3. CASE JoinAging
      BY <2>3 DEF JoinAging
    <2>4. CASE StopRuntime
      BY <2>4 DEF StopRuntime
    <2>5. CASE StopRuntimeThrows
      BY <2>5 DEF StopRuntimeThrows
    <2>6. CASE CloseQueue
      BY <2>6 DEF CloseQueue
    <2>7. CASE JoinPublisher
      BY <2>7 DEF JoinPublisher
    <2>8. CASE ClearIssues
      BY <2>8 DEF ClearIssues
    <2>9. CASE StopBase
      BY <2>9 DEF StopBase
    <2> QED
      BY <1>5, <2>1, <2>2, <2>3, <2>4, <2>5, <2>6, <2>7, <2>8, <2>9
      DEF Stopping
  <1>6. CASE UNCHANGED vars
    BY <1>6 DEF vars
  <1> QED
    BY <1>1, <1>2, <1>3, <1>4, <1>5, <1>6 DEF Next

\* The issue list.
LEMMA DeathsStep == Control /\ Flags /\ Deaths /\ [Next]_vars => Deaths'
  <1> SUFFICES ASSUME Control, Flags, Deaths, [Next]_vars
               PROVE  Deaths'
    OBVIOUS
  <1> USE DEF Control, Flags, Deaths, StartSteps, JoinSteps, TearSteps, workers, queue,
              list, clients
  <1>1. CASE Producing
    <2>1. ASSUME NEW k \in Interfaces, NEW i \in Intents,
                 InterfaceEvent(k, i)
          PROVE  Deaths'
      BY <2>1 DEF InterfaceEvent, MarkKey
    <2>2. ASSUME NEW k \in Candidates, NEW i \in Intents,
                 CandidateEvent(k, i)
          PROVE  Deaths'
      BY <2>2 DEF CandidateEvent, MarkKey
    <2>3. CASE LocalStateEvent
      BY <2>3 DEF LocalStateEvent, MarkKey
    <2> QED
      BY <1>1, <2>1, <2>2, <2>3
      DEF Producing
  <1>2. CASE Publishing
    <2>1. CASE Take
      BY <2>1 DEF Take
    <2>2. ASSUME NEW t \in Transports, NEW k \in Keys,
                 Publish(t, k)
          PROVE  Deaths'
      BY <2>2 DEF Publish
    <2>3. ASSUME NEW t \in Transports, NEW k \in Keys,
                 PublishThrows(t, k)
          PROVE  Deaths'
      BY <2>3 DEF PublishThrows
    <2>4. CASE PublisherFails
      BY <2>4 DEF PublisherFails
    <2> QED
      BY <1>2, <2>1, <2>2, <2>3, <2>4
      DEF Publishing
  <1>3. CASE Monitoring
    <2>1. ASSUME NEW part \in {"runtime", "lldp"},
                 HealthChanges(part)
          PROVE  Deaths'
      BY <2>1 DEF HealthChanges
    <2>2. CASE AgingRound
      BY <2>2 DEF AgingRound, Refreshed
    <2>3. CASE AgingFails
      BY <2>3 DEF AgingFails
    <2>4. CASE SupervisionFails
      BY <2>4 DEF SupervisionFails
    <2> QED
      BY <1>3, <2>1, <2>2, <2>3, <2>4
      DEF Monitoring
  <1>4. CASE Starting
    <2>1. CASE StartClaim
      BY <2>1 DEF StartClaim
    <2>2. CASE StartBase
      BY <2>2 DEF StartBase
    <2>3. CASE StartBaseFails
      BY <2>3 DEF StartBaseFails
    <2>4. CASE StartReopen
      BY <2>4 DEF StartReopen
    <2>5. CASE StartPublisher
      BY <2>5 DEF StartPublisher
    <2>6. CASE StartRuntime
      BY <2>6 DEF StartRuntime
    <2>7. CASE StartReady
      BY <2>7 DEF StartReady, Refreshed
    <2>8. CASE StartAging
      BY <2>8 DEF StartAging
    <2>9. CASE StartSupervision
      BY <2>9 DEF StartSupervision
    <2>10. CASE StartFails
      BY <2>10 DEF StartFails
    <2> QED
      BY <1>4, <2>1, <2>2, <2>3, <2>4, <2>5, <2>6, <2>7, <2>8,
         <2>9, <2>10
      DEF Starting
  <1>5. CASE Stopping
    <2>1. CASE StopClaim
      BY <2>1 DEF StopClaim
    <2>2. CASE JoinSupervision
      BY <2>2 DEF JoinSupervision
    <2>3. CASE JoinAging
      BY <2>3 DEF JoinAging
    <2>4. CASE StopRuntime
      BY <2>4 DEF StopRuntime
    <2>5. CASE StopRuntimeThrows
      BY <2>5 DEF StopRuntimeThrows
    <2>6. CASE CloseQueue
      BY <2>6 DEF CloseQueue
    <2>7. CASE JoinPublisher
      BY <2>7 DEF JoinPublisher
    <2>8. CASE ClearIssues
      BY <2>8 DEF ClearIssues
    <2>9. CASE StopBase
      BY <2>9 DEF StopBase
    <2> QED
      BY <1>5, <2>1, <2>2, <2>3, <2>4, <2>5, <2>6, <2>7, <2>8, <2>9
      DEF Stopping
  <1>6. CASE UNCHANGED vars
    BY <1>6 DEF vars
  <1> QED
    BY <1>1, <1>2, <1>3, <1>4, <1>5, <1>6 DEF Next

\* What mark() leaves of the queue and of the clients' side.
LEMMA MarkData ==
    ASSUME Data, open \in BOOLEAN, NEW k \in Keys, NEW i \in Intents, MarkKey(k, i)
    PROVE  /\ pending' \in MarksType /\ last' \in MarksType
           /\ missed' \in [Transports -> [Keys -> BOOLEAN]]
  <1>1. pending' \in MarksType /\ last' \in MarksType
    BY DEF Data, MarksType, MarkKey
  <1>2. (~open) \in BOOLEAN
    OBVIOUS
  <1>3. missed' \in [Transports -> [Keys -> BOOLEAN]]
    BY <1>2 DEF Data, MarkKey
  <1> QED
    BY <1>1, <1>3

\* The unit key is a key, and so are the others.
LEMMA KeysOfKinds == /\ LocalState \in Keys /\ "changed" \in Intents
                     /\ Interfaces \subseteq Keys /\ Candidates \subseteq Keys
  BY DEF Keys, Intents

\* A record of one more use of a bound.
LEMMA SpendType ==
    ASSUME spent \in [{"marks", "starts", "faults"} -> Nat],
           NEW what \in {"marks", "starts", "faults"}, Spend(what)
    PROVE  spent' \in [{"marks", "starts", "faults"} -> Nat]
  BY DEF Spend

\* The issue of a failed publication.
LEMMA IssueType ==
    ASSUME Data, NEW t \in Transports, NEW k \in Keys, batch[t][k] # None
    PROVE  IssueOf(t, k, batch[t][k])
             \in Transports \X {"interface", "candidate", "local"} \X Intents
  BY DEF Data, MarksType, IssueOf, KindOf

\* Marks, batches and signals keep their types.
LEMMA DataStep == Flags /\ Data /\ [Next]_vars => Data'
  <1> SUFFICES ASSUME Flags, Data, [Next]_vars
               PROVE  Data'
    OBVIOUS
  <1> USE DEF workers, queue, list, clients
  <1>1. CASE Producing
    <2>1. ASSUME NEW k \in Interfaces, NEW i \in Intents,
                 InterfaceEvent(k, i)
          PROVE  Data'
      <3>1. /\ pending' \in MarksType /\ last' \in MarksType
            /\ missed' \in [Transports -> [Keys -> BOOLEAN]]
        BY <2>1, MarkData, KeysOfKinds DEF InterfaceEvent, Flags
      <3> QED
        BY <2>1, <3>1, SpendType DEF InterfaceEvent, Data
    <2>2. ASSUME NEW k \in Candidates, NEW i \in Intents,
                 CandidateEvent(k, i)
          PROVE  Data'
      <3>1. /\ pending' \in MarksType /\ last' \in MarksType
            /\ missed' \in [Transports -> [Keys -> BOOLEAN]]
        BY <2>2, MarkData, KeysOfKinds DEF CandidateEvent, Flags
      <3> QED
        BY <2>2, <3>1, SpendType DEF CandidateEvent, Data
    <2>3. CASE LocalStateEvent
      <3>1. /\ pending' \in MarksType /\ last' \in MarksType
            /\ missed' \in [Transports -> [Keys -> BOOLEAN]]
        BY <2>3, MarkData, KeysOfKinds DEF LocalStateEvent, Flags
      <3> QED
        BY <2>3, <3>1 DEF LocalStateEvent, Data
    <2> QED
      BY <1>1, <2>1, <2>2, <2>3
      DEF Producing
  <1>2. CASE Publishing
    <2>1. CASE Take
      BY <2>1 DEF Take, Data, MarksType, NoMarks
    <2>2. ASSUME NEW t \in Transports, NEW k \in Keys,
                 Publish(t, k)
          PROVE  Data'
      BY <2>2 DEF Publish, IsNext, Data, MarksType
    <2>3. ASSUME NEW t \in Transports, NEW k \in Keys,
                 PublishThrows(t, k)
          PROVE  Data'
      <3>1. failures' \subseteq Transports \X {"interface", "candidate", "local"}
                                 \X Intents
        BY <2>3, IssueType DEF PublishThrows, IsNext, Data
      <3>2. batch' \in [Transports -> MarksType]
        BY <2>3 DEF PublishThrows, Data, MarksType
      <3>3. missed' \in [Transports -> [Keys -> BOOLEAN]]
        BY <2>3 DEF PublishThrows, Data
      <3> QED
        BY <2>3, <3>1, <3>2, <3>3, SpendType DEF PublishThrows, Data
    <2>4. CASE PublisherFails
      <3>1. batch' \in [Transports -> MarksType]
        BY <2>4 DEF PublisherFails, MarksType, NoMarks
      <3>2. missed' \in [Transports -> [Keys -> BOOLEAN]]
        BY <2>4 DEF PublisherFails
      <3> QED
        BY <2>4, <3>1, <3>2, SpendType DEF PublisherFails, Data
    <2> QED
      BY <1>2, <2>1, <2>2, <2>3, <2>4
      DEF Publishing
  <1>3. CASE Monitoring
    <2>1. ASSUME NEW part \in {"runtime", "lldp"},
                 HealthChanges(part)
          PROVE  Data'
      BY <2>1, SpendType DEF HealthChanges, Data
    <2>2. CASE AgingRound
      BY <2>2 DEF AgingRound, Refreshed, Data
    <2>3. CASE AgingFails
      BY <2>3, SpendType DEF AgingFails, Data
    <2>4. CASE SupervisionFails
      BY <2>4, SpendType DEF SupervisionFails, Data
    <2> QED
      BY <1>3, <2>1, <2>2, <2>3, <2>4
      DEF Monitoring
  <1>4. CASE Starting
    <2>1. CASE StartClaim
      BY <2>1, SpendType DEF StartClaim, Data
    <2>2. CASE StartBase
      BY <2>2 DEF StartBase, Data
    <2>3. CASE StartBaseFails
      BY <2>3, SpendType DEF StartBaseFails, Data
    <2>4. CASE StartReopen
      <3>1. pending' \in MarksType
        BY <2>4 DEF StartReopen, MarksType, NoMarks
      <3>2. missed' \in [Transports -> [Keys -> BOOLEAN]]
        BY <2>4 DEF StartReopen, Data
      <3> QED
        BY <2>4, <3>1, <3>2 DEF StartReopen, Data
    <2>5. CASE StartPublisher
      BY <2>5 DEF StartPublisher, Data
    <2>6. CASE StartRuntime
      BY <2>6 DEF StartRuntime, Data
    <2>7. CASE StartReady
      BY <2>7 DEF StartReady, Refreshed, Data
    <2>8. CASE StartAging
      BY <2>8 DEF StartAging, Data
    <2>9. CASE StartSupervision
      BY <2>9 DEF StartSupervision, Data
    <2>10. CASE StartFails
      BY <2>10, SpendType DEF StartFails, Data
    <2> QED
      BY <1>4, <2>1, <2>2, <2>3, <2>4, <2>5, <2>6, <2>7, <2>8,
         <2>9, <2>10
      DEF Starting
  <1>5. CASE Stopping
    <2>1. CASE StopClaim
      BY <2>1 DEF StopClaim, Data
    <2>2. CASE JoinSupervision
      BY <2>2 DEF JoinSupervision, Data
    <2>3. CASE JoinAging
      BY <2>3 DEF JoinAging, Data
    <2>4. CASE StopRuntime
      BY <2>4 DEF StopRuntime, Data
    <2>5. CASE StopRuntimeThrows
      BY <2>5, SpendType DEF StopRuntimeThrows, Data
    <2>6. CASE CloseQueue
      BY <2>6 DEF CloseQueue, Data
    <2>7. CASE JoinPublisher
      BY <2>7 DEF JoinPublisher, Data
    <2>8. CASE ClearIssues
      BY <2>8 DEF ClearIssues, Data
    <2>9. CASE StopBase
      BY <2>9 DEF StopBase, Data
    <2> QED
      BY <1>5, <2>1, <2>2, <2>3, <2>4, <2>5, <2>6, <2>7, <2>8, <2>9
      DEF Stopping
  <1>6. CASE UNCHANGED vars
    BY <1>6 DEF vars, Data
  <1> QED
    BY <1>1, <1>2, <1>3, <1>4, <1>5, <1>6 DEF Next

\* What the worker owes when it is joined.
LEMMA DrainingStep == Control /\ Flags /\ Deaths /\ Data /\ Draining /\ [Next]_vars => Draining'
  <1> SUFFICES ASSUME Control, Flags, Deaths, Data, Draining, [Next]_vars
               PROVE  Draining'
    OBVIOUS
  <1> USE DEF Control, Flags, Deaths, Draining, StopDrains, TornDown, StartSteps,
              JoinSteps, TearSteps, workers, queue, list, clients
  <1>1. CASE Producing
    <2>1. ASSUME NEW k \in Interfaces, NEW i \in Intents,
                 InterfaceEvent(k, i)
          PROVE  Draining'
      BY <2>1 DEF InterfaceEvent, MarkKey, Drained
    <2>2. ASSUME NEW k \in Candidates, NEW i \in Intents,
                 CandidateEvent(k, i)
          PROVE  Draining'
      BY <2>2 DEF CandidateEvent, MarkKey, Drained
    <2>3. CASE LocalStateEvent
      BY <2>3 DEF LocalStateEvent, MarkKey, Drained
    <2> QED
      BY <1>1, <2>1, <2>2, <2>3
      DEF Producing
  <1>2. CASE Publishing
    <2>1. CASE Take
      BY <2>1 DEF Take, Drained, NoMarks
    <2>2. ASSUME NEW t \in Transports, NEW k \in Keys,
                 Publish(t, k)
          PROVE  Draining'
      BY <2>2 DEF Publish, Drained
    <2>3. ASSUME NEW t \in Transports, NEW k \in Keys,
                 PublishThrows(t, k)
          PROVE  Draining'
      BY <2>3 DEF PublishThrows, Drained
    <2>4. CASE PublisherFails
      BY <2>4 DEF PublisherFails, Drained
    <2> QED
      BY <1>2, <2>1, <2>2, <2>3, <2>4
      DEF Publishing
  <1>3. CASE Monitoring
    <2>1. ASSUME NEW part \in {"runtime", "lldp"},
                 HealthChanges(part)
          PROVE  Draining'
      BY <2>1 DEF HealthChanges, Drained
    <2>2. CASE AgingRound
      BY <2>2 DEF AgingRound, Refreshed, Drained
    <2>3. CASE AgingFails
      BY <2>3 DEF AgingFails, Drained
    <2>4. CASE SupervisionFails
      BY <2>4 DEF SupervisionFails, Drained
    <2> QED
      BY <1>3, <2>1, <2>2, <2>3, <2>4
      DEF Monitoring
  <1>4. CASE Starting
    <2>1. CASE StartClaim
      BY <2>1 DEF StartClaim, Drained
    <2>2. CASE StartBase
      BY <2>2 DEF StartBase, Drained
    <2>3. CASE StartBaseFails
      BY <2>3 DEF StartBaseFails, Drained
    <2>4. CASE StartReopen
      BY <2>4 DEF StartReopen, Drained
    <2>5. CASE StartPublisher
      BY <2>5 DEF StartPublisher, Drained
    <2>6. CASE StartRuntime
      BY <2>6 DEF StartRuntime, Drained
    <2>7. CASE StartReady
      BY <2>7 DEF StartReady, Refreshed, Drained
    <2>8. CASE StartAging
      BY <2>8 DEF StartAging, Drained
    <2>9. CASE StartSupervision
      BY <2>9 DEF StartSupervision, Drained
    <2>10. CASE StartFails
      BY <2>10 DEF StartFails, Drained
    <2> QED
      BY <1>4, <2>1, <2>2, <2>3, <2>4, <2>5, <2>6, <2>7, <2>8,
         <2>9, <2>10
      DEF Starting
  <1>5. CASE Stopping
    <2>1. CASE StopClaim
      BY <2>1 DEF StopClaim, Drained
    <2>2. CASE JoinSupervision
      BY <2>2 DEF JoinSupervision, Drained
    <2>3. CASE JoinAging
      BY <2>3 DEF JoinAging, Drained
    <2>4. CASE StopRuntime
      BY <2>4 DEF StopRuntime, Drained
    <2>5. CASE StopRuntimeThrows
      BY <2>5 DEF StopRuntimeThrows, Drained
    <2>6. CASE CloseQueue
      BY <2>6 DEF CloseQueue, Drained
    <2>7. CASE JoinPublisher
      BY <2>7 DEF JoinPublisher, Drained
    <2>8. CASE ClearIssues
      BY <2>8 DEF ClearIssues, Drained
    <2>9. CASE StopBase
      BY <2>9 DEF StopBase, Drained
    <2> QED
      BY <1>5, <2>1, <2>2, <2>3, <2>4, <2>5, <2>6, <2>7, <2>8, <2>9
      DEF Stopping
  <1>6. CASE UNCHANGED vars
    BY <1>6 DEF vars, Drained
  <1> QED
    BY <1>1, <1>2, <1>3, <1>4, <1>5, <1>6 DEF Next

\* A mark is the latest of its key: owed to everyone, or missed by everyone.
LEMMA MarkFresh ==
    ASSUME Data, Fresh, open \in BOOLEAN, NEW x \in Keys, NEW i \in Intents,
           MarkKey(x, i), UNCHANGED <<batch, heard>>
    PROVE  Fresh'
  <1> SUFFICES ASSUME NEW t \in Transports, NEW k \in Keys, ~missed'[t][k]
               PROVE  /\ pending'[k] # None => pending'[k] = last'[k]
                      /\ pending'[k] = None /\ batch'[t][k] # None
                           => batch'[t][k] = last'[k]
                      /\ pending'[k] = None /\ batch'[t][k] = None
                           => heard'[t][k] = last'[k]
    BY DEF Fresh
  <1>1. CASE k = x
    <2>1. missed'[t][k] = ~open
      BY <1>1 DEF Data, MarkKey
    <2>2. open
      BY <2>1
    <2>3. pending'[k] = i /\ last'[k] = i /\ i # None
      BY <1>1, <2>2, ServiceConstants DEF Data, MarksType, MarkKey
    <2> QED
      BY <2>3
  <1>2. CASE k # x
    <2>1. missed'[t][k] = missed[t][k] /\ pending'[k] = pending[k]
          /\ last'[k] = last[k]
      BY <1>2 DEF Data, MarksType, MarkKey
    <2> QED
      BY <2>1 DEF Fresh
  <1> QED
    BY <1>1, <1>2

\* The signal that throws is missed unless a newer mark of its key is pending.
LEMMA ThrowMisses ==
    ASSUME Data, NEW t \in Transports, NEW k \in Keys, PublishThrows(t, k)
    PROVE  missed'[t][k] = (missed[t][k] \/ pending[k] = None)
  BY DEF PublishThrows, Data

\* What is owed stays the latest mark.
LEMMA FreshStep == Flags /\ Data /\ Fresh /\ [Next]_vars => Fresh'
  <1> SUFFICES ASSUME Flags, Data, Fresh, [Next]_vars
               PROVE  Fresh'
    OBVIOUS
  <1> USE DEF workers, queue, list, clients
  <1>1. CASE Producing
    <2>1. ASSUME NEW k \in Interfaces, NEW i \in Intents,
                 InterfaceEvent(k, i)
          PROVE  Fresh'
      BY <2>1, MarkFresh, KeysOfKinds DEF InterfaceEvent, Flags
    <2>2. ASSUME NEW k \in Candidates, NEW i \in Intents,
                 CandidateEvent(k, i)
          PROVE  Fresh'
      BY <2>2, MarkFresh, KeysOfKinds DEF CandidateEvent, Flags
    <2>3. CASE LocalStateEvent
      BY <2>3, MarkFresh, KeysOfKinds DEF LocalStateEvent, Flags
    <2> QED
      BY <1>1, <2>1, <2>2, <2>3
      DEF Producing
  <1>2. CASE Publishing
    <2>1. CASE Take
      BY <2>1, ServiceConstants DEF Take, Drained, NoMarks, Fresh, Data, MarksType
    <2>2. ASSUME NEW t \in Transports, NEW k \in Keys,
                 Publish(t, k)
          PROVE  Fresh'
      BY <2>2, ServiceConstants DEF Publish, IsNext, Fresh, Data, MarksType
    <2>3. ASSUME NEW t \in Transports, NEW k \in Keys,
                 PublishThrows(t, k)
          PROVE  Fresh'
      <3> SUFFICES ASSUME NEW u \in Transports, NEW x \in Keys, ~missed'[u][x]
                   PROVE  /\ pending'[x] # None => pending'[x] = last'[x]
                          /\ pending'[x] = None /\ batch'[u][x] # None
                               => batch'[u][x] = last'[x]
                          /\ pending'[x] = None /\ batch'[u][x] = None
                               => heard'[u][x] = last'[x]
        BY DEF Fresh
      <3>1. CASE u = t /\ x = k
        <4>1. missed'[u][x] = (missed[u][x] \/ pending[x] = None)
          BY <2>3, <3>1, ThrowMisses
        <4>2. ~missed[u][x] /\ pending[x] # None
          BY <4>1
        <4> QED
          BY <2>3, <4>2 DEF PublishThrows, Fresh
      <3>2. CASE ~(u = t /\ x = k)
        <4>1. missed'[u][x] = missed[u][x] /\ batch'[u][x] = batch[u][x]
          BY <2>3, <3>2 DEF PublishThrows, Data, MarksType
        <4> QED
          BY <2>3, <4>1 DEF PublishThrows, Fresh
      <3> QED
        BY <3>1, <3>2
    <2>4. CASE PublisherFails
      BY <2>4, ServiceConstants DEF PublisherFails, NoMarks, Fresh, Data, MarksType
    <2> QED
      BY <1>2, <2>1, <2>2, <2>3, <2>4
      DEF Publishing
  <1>3. CASE Monitoring
    <2>1. ASSUME NEW part \in {"runtime", "lldp"},
                 HealthChanges(part)
          PROVE  Fresh'
      BY <2>1 DEF HealthChanges, Fresh
    <2>2. CASE AgingRound
      BY <2>2 DEF AgingRound, Refreshed, Fresh
    <2>3. CASE AgingFails
      BY <2>3 DEF AgingFails, Fresh
    <2>4. CASE SupervisionFails
      BY <2>4 DEF SupervisionFails, Fresh
    <2> QED
      BY <1>3, <2>1, <2>2, <2>3, <2>4
      DEF Monitoring
  <1>4. CASE Starting
    <2>1. CASE StartClaim
      BY <2>1 DEF StartClaim, Fresh
    <2>2. CASE StartBase
      BY <2>2 DEF StartBase, Fresh
    <2>3. CASE StartBaseFails
      BY <2>3 DEF StartBaseFails, Fresh
    <2>4. CASE StartReopen
      BY <2>4, ServiceConstants DEF StartReopen, NoMarks, Fresh, Data, MarksType
    <2>5. CASE StartPublisher
      BY <2>5 DEF StartPublisher, Fresh
    <2>6. CASE StartRuntime
      BY <2>6 DEF StartRuntime, Fresh
    <2>7. CASE StartReady
      BY <2>7 DEF StartReady, Refreshed, Fresh
    <2>8. CASE StartAging
      BY <2>8 DEF StartAging, Fresh
    <2>9. CASE StartSupervision
      BY <2>9 DEF StartSupervision, Fresh
    <2>10. CASE StartFails
      BY <2>10 DEF StartFails, Fresh
    <2> QED
      BY <1>4, <2>1, <2>2, <2>3, <2>4, <2>5, <2>6, <2>7, <2>8,
         <2>9, <2>10
      DEF Starting
  <1>5. CASE Stopping
    <2>1. CASE StopClaim
      BY <2>1 DEF StopClaim, Fresh
    <2>2. CASE JoinSupervision
      BY <2>2 DEF JoinSupervision, Fresh
    <2>3. CASE JoinAging
      BY <2>3 DEF JoinAging, Fresh
    <2>4. CASE StopRuntime
      BY <2>4 DEF StopRuntime, Fresh
    <2>5. CASE StopRuntimeThrows
      BY <2>5 DEF StopRuntimeThrows, Fresh
    <2>6. CASE CloseQueue
      BY <2>6 DEF CloseQueue, Fresh
    <2>7. CASE JoinPublisher
      BY <2>7 DEF JoinPublisher, Fresh
    <2>8. CASE ClearIssues
      BY <2>8 DEF ClearIssues, Fresh
    <2>9. CASE StopBase
      BY <2>9 DEF StopBase, Fresh
    <2> QED
      BY <1>5, <2>1, <2>2, <2>3, <2>4, <2>5, <2>6, <2>7, <2>8, <2>9
      DEF Stopping
  <1>6. CASE UNCHANGED vars
    BY <1>6 DEF vars, Fresh
  <1> QED
    BY <1>1, <1>2, <1>3, <1>4, <1>5, <1>6 DEF Next

-----------------------------------------------------------------------------
(* The safety theorems *)

Inv == Control /\ Flags /\ Deaths /\ Data /\ Draining /\ Fresh

\* The service is made with everything stopped and nothing marked.
LEMMA InvInit == Init => Inv
  <1> SUFFICES ASSUME Init
               PROVE  Inv
    OBVIOUS
  <1>1. Control /\ Flags
    BY DEF Init, Control, Flags, StartSteps, JoinSteps, TearSteps
  <1>2. Deaths
    BY DEF Init, Deaths
  <1>3. Data
    BY DEF Init, Data, NoMarks, MarksType
  <1>4. Draining
    BY DEF Init, Draining, StopDrains, TornDown, Drained, JoinSteps
  <1>5. Fresh
    BY DEF Init, Fresh, NoMarks
  <1> QED
    BY <1>1, <1>2, <1>3, <1>4, <1>5 DEF Inv

\* The conjunction is an invariant.
LEMMA Invariance == Spec => []Inv
  <1>1. Inv /\ [Next]_vars => Inv'
    BY ControlStep, FlagsStep, DeathsStep, DataStep, DrainingStep, FreshStep DEF Inv
  <1> QED
    BY InvInit, <1>1, PTL DEF Spec

\* Every variable keeps its type, through every start, stop and failure.
THEOREM TypeCorrect == Spec => []TypeOK
  <1>1. Inv => TypeOK
    BY DEF Inv, Control, Flags, Deaths, Data, TypeOK, StartSteps, JoinSteps, TearSteps
  <1> QED
    BY <1>1, Invariance, PTL

\* start(), its clean-up and stop() join each worker before they stop what it
\* calls.
THEOREM WorkersAreOutlived == Spec => []WorkersOutlived
  <1>1. Inv => WorkersOutlived
    BY DEF Inv, Control, Draining, WorkersOutlived, StartSteps, JoinSteps, TearSteps
  <1> QED
    BY <1>1, Invariance, PTL

\* Outside a failed start no admitted query finds the phase live over a stopped
\* runtime.
THEOREM LiveIsServed == Spec => []LiveMeansServed
  <1>1. Inv => LiveMeansServed
    BY DEF Inv, Control, Flags, LiveMeansServed
  <1> QED
    BY <1>1, Invariance, PTL

\* start(), its clean-up and stop() take nothing away under a worker or an
\* admitted query that calls into it.
THEOREM UsersAreOutlived == Spec => []UsersOutlived
  <1>1. WorkersOutlived /\ LiveMeansServed => UsersOutlived
    BY DEF UsersOutlived
  <1> QED
    BY <1>1, WorkersAreOutlived, LiveIsServed, PTL

\* GetIssues() names exactly the workers that died, whichever of the exit
\* handlers, refreshRuntimeIssues() and stop() wrote the list.
THEOREM DeathsAreReported == Spec => []DeathsReported
  <1>1. Inv => DeathsReported
    BY DEF Inv, Deaths, DeathsReported
  <1> QED
    BY <1>1, Invariance, PTL

\* stop() and onStartFailedCleanUp() reach the transports with the queue closed
\* and no batch half published, and leave a mark behind only where the stop
\* token ends waitAndTake().
THEOREM StopsDrain == Spec => []StopDrains
  <1>1. Inv => StopDrains
    BY DEF Inv, Draining
  <1> QED
    BY <1>1, Invariance, PTL

\* Where only an empty set ends waitAndTake(), no mark made before the queue
\* closed is stranded: the comment of publicationLoop holds in its own reading.
THEOREM NoMarkIsStranded ==
    ASSUME ~TokenEndsWait
    PROVE  Spec => []NoMarkStranded
  <1>1. Inv => NoMarkStranded
    BY DEF Inv, Draining, StopDrains, NoMarkStranded
  <1> QED
    BY <1>1, Invariance, PTL

-----------------------------------------------------------------------------
(* The refinement of Notification *)

\* The promise depends on the marks, the batch and the signals only.
LEMMA PromiseFrame ==
    ASSUME UNCHANGED <<pending, batch, last, heard, missed>>
    PROVE  UNCHANGED Promise!vars
  <1>1. \A t \in Transports, k \in Keys : Status(t, k)' = Status(t, k)
    BY DEF Status
  <1> QED
    BY <1>1 DEF Promise!vars

\* A mark is the promise's Mark.
LEMMA PromiseMark ==
    ASSUME Data, open \in BOOLEAN, NEW x \in Keys, NEW i \in Intents,
           MarkKey(x, i), UNCHANGED <<batch, heard>>
    PROVE  Promise!Next
  <1> DEFINE s == [t \in Transports |-> Status(t, x)']
  <1>1. ASSUME NEW t \in Transports
        PROVE  Status(t, x)' \in {"owed", "missed"}
    <2>1. CASE open
      <3>1. pending'[x] = i /\ i # None
        BY <2>1, ServiceConstants DEF Data, MarksType, MarkKey
      <3> QED
        BY <3>1 DEF Status
    <2>2. CASE ~open
      <3>1. missed'[t][x]
        BY <2>2 DEF Data, MarkKey
      <3> QED
        BY <3>1 DEF Status
    <2> QED
      BY <2>1, <2>2
  <1>2. ASSUME NEW t \in Transports, NEW k \in Keys, k # x
        PROVE  Status(t, k)' = Status(t, k)
    <2>1. pending'[k] = pending[k] /\ missed'[t][k] = missed[t][k]
      BY <1>2 DEF Data, MarksType, MarkKey
    <2> QED
      BY <2>1 DEF Status
  <1>3. s \in [Transports -> {"owed", "missed"}]
    BY <1>1
  <1>4. Promise!Mark(x, i, s)
    BY <1>2 DEF Promise!Mark, MarkKey
  <1> QED
    BY <1>3, <1>4 DEF Promise!Next

\* Signals that fall out of the queue or the batch are the promise's Miss.
LEMMA PromiseMiss ==
    ASSUME NEW M \in SUBSET (Transports \X Keys), UNCHANGED <<last, heard>>,
           \A p \in M : Status(p[1], p[2]) = "owed",
           \A t \in Transports, k \in Keys :
              Status(t, k)' = IF <<t, k>> \in M THEN "missed" ELSE Status(t, k)
    PROVE  [Promise!Next]_(Promise!vars)
  <1>1. CASE M = {}
    BY <1>1 DEF Promise!vars
  <1>2. CASE M # {}
    <2>1. Promise!Miss(M)
      BY <1>2 DEF Promise!Miss
    <2> QED
      BY <2>1 DEF Promise!Next
  <1> QED
    BY <1>1, <1>2

\* publishToAll() handing a signal over is the promise's Tell.
LEMMA PromiseTell ==
    ASSUME Data, Fresh, NEW t \in Transports, NEW k \in Keys, Publish(t, k)
    PROVE  Promise!Next
  <1>1. /\ batch[t][k] \in Intents /\ batch[t][k] # None
        /\ batch'[t][k] = None /\ pending' = pending /\ missed' = missed
        /\ last' = last
    BY DEF Publish, IsNext, Data, MarksType
  <1>2. Status(t, k) = "owed"
    BY <1>1 DEF Status
  <1>3. Status(t, k)' \in {"owed", "told", "missed"}
    BY DEF Status
  <1>4. Status(t, k)' = "told" => batch[t][k] = last[k]
    BY <1>1 DEF Status, Fresh
  <1>5. ASSUME NEW u \in Transports, NEW x \in Keys, ~(u = t /\ x = k)
        PROVE  Status(u, x)' = Status(u, x)
    <2>1. batch'[u][x] = batch[u][x]
      BY <1>5 DEF Publish, Data, MarksType
    <2> QED
      BY <1>1, <2>1 DEF Status
  <1>6. Promise!Tell(t, k, batch[t][k], Status(t, k)')
    BY <1>1, <1>2, <1>4, <1>5 DEF Promise!Tell, Publish
  <1> QED
    BY <1>1, <1>3, <1>6 DEF Promise!Next

\* A transport that throws makes its signal missed, unless a newer mark of the
\* key is pending.
LEMMA PromiseThrow ==
    ASSUME Data, NEW t \in Transports, NEW k \in Keys, PublishThrows(t, k)
    PROVE  [Promise!Next]_(Promise!vars)
  <1> DEFINE M == IF pending[k] = None THEN {<<t, k>>} ELSE {}
  <1>1. M \in SUBSET (Transports \X Keys)
    OBVIOUS
  <1>2. batch[t][k] # None /\ Status(t, k) = "owed"
    BY DEF PublishThrows, IsNext, Status
  <1>3. \A p \in M : Status(p[1], p[2]) = "owed"
    BY <1>2
  <1>4. ASSUME NEW u \in Transports, NEW x \in Keys
        PROVE  Status(u, x)' = IF <<u, x>> \in M THEN "missed" ELSE Status(u, x)
    <2>1. CASE u = t /\ x = k
      <3>1. batch'[u][x] = None /\ pending' = pending
        BY <2>1 DEF PublishThrows, Data, MarksType
      <3>2. missed'[u][x] = (missed[u][x] \/ pending[x] = None)
        BY <2>1, ThrowMisses
      <3>3. CASE pending[k] = None
        <4>1. missed'[u][x]
          BY <2>1, <3>2, <3>3
        <4> QED
          BY <2>1, <3>1, <3>3, <4>1 DEF Status
      <3>4. CASE pending[k] # None
        BY <2>1, <3>1, <3>4 DEF Status
      <3> QED
        BY <3>3, <3>4
    <2>2. CASE ~(u = t /\ x = k)
      <3>1. batch'[u][x] = batch[u][x] /\ pending' = pending
            /\ missed'[u][x] = missed[u][x]
        BY <2>2 DEF PublishThrows, Data, MarksType
      <3>2. <<u, x>> \notin M
        BY <2>2
      <3> QED
        BY <3>1, <3>2 DEF Status
    <2> QED
      BY <2>1, <2>2
  <1>5. UNCHANGED <<last, heard>>
    BY DEF PublishThrows
  <1> HIDE DEF M
  <1> QED
    BY <1>1, <1>3, <1>4, <1>5, PromiseMiss

\* A dying worker misses what its batch still owed.
LEMMA PromiseDeath ==
    ASSUME Data, PublisherFails
    PROVE  [Promise!Next]_(Promise!vars)
  <1> DEFINE M == {p \in Transports \X Keys :
                     batch[p[1]][p[2]] # None /\ pending[p[2]] = None}
  <1>1. M \in SUBSET (Transports \X Keys)
    OBVIOUS
  <1>2. \A p \in M : Status(p[1], p[2]) = "owed"
    BY DEF Status
  <1>3. ASSUME NEW u \in Transports, NEW x \in Keys
        PROVE  Status(u, x)' = IF <<u, x>> \in M THEN "missed" ELSE Status(u, x)
    <2>1. /\ batch'[u][x] = None /\ pending' = pending
          /\ missed'[u][x] = (missed[u][x] \/ (batch[u][x] # None /\ pending[x] = None))
      BY DEF PublisherFails, NoMarks
    <2>2. <<u, x>> \in M <=> batch[u][x] # None /\ pending[x] = None
      OBVIOUS
    <2>3. CASE batch[u][x] # None /\ pending[x] = None
      <3>1. missed'[u][x]
        BY <2>1, <2>3
      <3> QED
        BY <2>1, <2>2, <2>3, <3>1 DEF Status
    <2>4. CASE ~(batch[u][x] # None /\ pending[x] = None)
      <3>1. missed'[u][x] = missed[u][x]
        BY <2>1, <2>4 DEF Data
      <3> QED
        BY <2>1, <2>2, <2>4, <3>1 DEF Status
    <2> QED
      BY <2>3, <2>4
  <1>4. UNCHANGED <<last, heard>>
    BY DEF PublisherFails
  <1> HIDE DEF M
  <1> QED
    BY <1>1, <1>2, <1>3, <1>4, PromiseMiss

\* reopen() forgets what a dead worker left in the queue.
LEMMA PromiseReopen ==
    ASSUME Control, Data, Draining, StartReopen
    PROVE  [Promise!Next]_(Promise!vars)
  <1> DEFINE M == {p \in Transports \X Keys : pending[p[2]] # None}
  <1>1. M \in SUBSET (Transports \X Keys)
    OBVIOUS
  <1>2. \A p \in M : Status(p[1], p[2]) = "owed"
    BY DEF Status
  <1>3. Drained
    BY DEF Control, Draining, StartReopen, JoinSteps
  <1>4. ASSUME NEW u \in Transports, NEW x \in Keys
        PROVE  Status(u, x)' = IF <<u, x>> \in M THEN "missed" ELSE Status(u, x)
    <2>1. /\ batch[u][x] = None /\ batch' = batch /\ pending'[x] = None
          /\ missed'[u][x] = IF pending[x] # None THEN TRUE ELSE missed[u][x]
      BY <1>3 DEF StartReopen, Drained, NoMarks
    <2>2. <<u, x>> \in M <=> pending[x] # None
      OBVIOUS
    <2> QED
      BY <2>1, <2>2 DEF Status
  <1>5. UNCHANGED <<last, heard>>
    BY DEF StartReopen
  <1> HIDE DEF M
  <1> QED
    BY <1>1, <1>2, <1>4, <1>5, PromiseMiss

\* Taking the generation changes nobody's status.
LEMMA PromiseTake ==
    ASSUME Data, Take
    PROVE  UNCHANGED Promise!vars
  <1>1. ASSUME NEW t \in Transports, NEW k \in Keys
        PROVE  Status(t, k)' = Status(t, k)
    <2>1. /\ batch[t][k] = None /\ batch'[t][k] = pending[k]
          /\ pending'[k] = None /\ missed' = missed
      BY DEF Take, Drained, NoMarks, clients
    <2> QED
      BY <2>1 DEF Status
  <1>2. UNCHANGED <<last, heard>>
    BY DEF Take, clients
  <1> QED
    BY <1>1, <1>2 DEF Promise!vars

\* Every step of the service is a step of the promise or leaves it alone.
LEMMA PromiseStep == Inv /\ [Next]_vars => [Promise!Next]_(Promise!vars)
  <1> SUFFICES ASSUME Inv, [Next]_vars
               PROVE  [Promise!Next]_(Promise!vars)
    OBVIOUS
  <1> USE DEF queue, clients
  <1>1. CASE Producing
    <2>1. ASSUME NEW k \in Interfaces, NEW i \in Intents,
                 InterfaceEvent(k, i)
          PROVE  [Promise!Next]_(Promise!vars)
      BY <2>1, PromiseMark, KeysOfKinds DEF InterfaceEvent, Inv, Flags
    <2>2. ASSUME NEW k \in Candidates, NEW i \in Intents,
                 CandidateEvent(k, i)
          PROVE  [Promise!Next]_(Promise!vars)
      BY <2>2, PromiseMark, KeysOfKinds DEF CandidateEvent, Inv, Flags
    <2>3. CASE LocalStateEvent
      BY <2>3, PromiseMark, KeysOfKinds DEF LocalStateEvent, Inv, Flags
    <2> QED
      BY <1>1, <2>1, <2>2, <2>3
      DEF Producing
  <1>2. CASE Publishing
    <2>1. CASE Take
      BY <2>1, PromiseTake DEF Inv
    <2>2. ASSUME NEW t \in Transports, NEW k \in Keys,
                 Publish(t, k)
          PROVE  [Promise!Next]_(Promise!vars)
      BY <2>2, PromiseTell DEF Inv
    <2>3. ASSUME NEW t \in Transports, NEW k \in Keys,
                 PublishThrows(t, k)
          PROVE  [Promise!Next]_(Promise!vars)
      BY <2>3, PromiseThrow DEF Inv
    <2>4. CASE PublisherFails
      BY <2>4, PromiseDeath DEF Inv
    <2> QED
      BY <1>2, <2>1, <2>2, <2>3, <2>4
      DEF Publishing
  <1>3. CASE Monitoring
    <2>1. ASSUME NEW part \in {"runtime", "lldp"},
                 HealthChanges(part)
          PROVE  [Promise!Next]_(Promise!vars)
      BY <2>1, PromiseFrame DEF HealthChanges
    <2>2. CASE AgingRound
      BY <2>2, PromiseFrame DEF AgingRound
    <2>3. CASE AgingFails
      BY <2>3, PromiseFrame DEF AgingFails
    <2>4. CASE SupervisionFails
      BY <2>4, PromiseFrame DEF SupervisionFails
    <2> QED
      BY <1>3, <2>1, <2>2, <2>3, <2>4
      DEF Monitoring
  <1>4. CASE Starting
    <2>1. CASE StartClaim
      BY <2>1, PromiseFrame DEF StartClaim
    <2>2. CASE StartBase
      BY <2>2, PromiseFrame DEF StartBase
    <2>3. CASE StartBaseFails
      BY <2>3, PromiseFrame DEF StartBaseFails
    <2>4. CASE StartReopen
      BY <2>4, PromiseReopen DEF Inv
    <2>5. CASE StartPublisher
      BY <2>5, PromiseFrame DEF StartPublisher
    <2>6. CASE StartRuntime
      BY <2>6, PromiseFrame DEF StartRuntime
    <2>7. CASE StartReady
      BY <2>7, PromiseFrame DEF StartReady
    <2>8. CASE StartAging
      BY <2>8, PromiseFrame DEF StartAging
    <2>9. CASE StartSupervision
      BY <2>9, PromiseFrame DEF StartSupervision
    <2>10. CASE StartFails
      BY <2>10, PromiseFrame DEF StartFails
    <2> QED
      BY <1>4, <2>1, <2>2, <2>3, <2>4, <2>5, <2>6, <2>7, <2>8,
         <2>9, <2>10
      DEF Starting
  <1>5. CASE Stopping
    <2>1. CASE StopClaim
      BY <2>1, PromiseFrame DEF StopClaim
    <2>2. CASE JoinSupervision
      BY <2>2, PromiseFrame DEF JoinSupervision
    <2>3. CASE JoinAging
      BY <2>3, PromiseFrame DEF JoinAging
    <2>4. CASE StopRuntime
      BY <2>4, PromiseFrame DEF StopRuntime
    <2>5. CASE StopRuntimeThrows
      BY <2>5, PromiseFrame DEF StopRuntimeThrows
    <2>6. CASE CloseQueue
      BY <2>6, PromiseFrame DEF CloseQueue
    <2>7. CASE JoinPublisher
      BY <2>7, PromiseFrame DEF JoinPublisher
    <2>8. CASE ClearIssues
      BY <2>8, PromiseFrame DEF ClearIssues
    <2>9. CASE StopBase
      BY <2>9, PromiseFrame DEF StopBase
    <2> QED
      BY <1>5, <2>1, <2>2, <2>3, <2>4, <2>5, <2>6, <2>7, <2>8, <2>9
      DEF Stopping
  <1>6. CASE UNCHANGED vars
    BY <1>6, PromiseFrame DEF vars
  <1> QED
    BY <1>1, <1>2, <1>3, <1>4, <1>5, <1>6 DEF Next

\* The publication path implements Notification: for every set of keys and
\* transports, and whatever dies, throws or fails to start, each transport has
\* heard the latest mark of each key, is owed its signal or has missed it.
THEOREM PromiseKept == Spec => Notifies
  <1>1. Init => Promise!Init
    BY DEF Init, Promise!Init, Status, NoMarks
  <1> QED
    BY <1>1, PromiseStep, Invariance, PTL DEF Spec, Notifies, Promise!Spec

\* And whoever is neither owed a signal nor missed one has heard the latest.
THEOREM ToldAreCurrent == Spec => []Promise!ToldIsCurrent
  <1>1. Inv => Promise!ToldIsCurrent
    <2> SUFFICES ASSUME Inv, NEW t \in Transports, NEW k \in Keys,
                        Status(t, k) = "told"
                 PROVE  heard[t][k] = last[k]
      BY DEF Promise!ToldIsCurrent
    <2> QED
      BY DEF Inv, Fresh, Status
  <1> QED
    BY <1>1, Invariance, PTL

=============================================================================
