----------------------- MODULE InventoryServiceProofs -----------------------
(***************************************************************************)
(* Proofs about InventoryService for every set of sources and fields,      *)
(* every ownership and every bound.                                        *)
(***************************************************************************)
EXTENDS InventoryService, TLAPS

-----------------------------------------------------------------------------
(* The inductive invariant, in parts *)

\* Where the threads may be, phase by phase: the worker exists from
\* StartWorker to StopJoins, a call is admitted until the quiescence is over,
\* and the eventfd exists from start() to the end of stop().
Threading ==
    /\ phase \in {"stopped", "starting", "running", "rollback", "quiesce", "join"}
    /\ eventfd \in {"absent", "quiet", "signalled"}
    /\ worker \in Looping \cup {"none", "exited", "failed"}
    /\ caller \in {"idle", "flagged"}
    /\ worker # "none" <=> phase \in {"running", "quiesce", "join"}
    /\ caller = "flagged" => phase \in {"starting", "running", "rollback", "quiesce"}
    /\ eventfd = "absent" <=> phase = "stopped"

\* A request raises the flag; a worker that sleeps without having seen one
\* will be woken.
Requests ==
    /\ asked => requested
    /\ asked /\ worker = "poll" /\ ~armed => eventfd = "signalled" \/ caller = "flagged"

\* Only a cycle in publication owes signals.
Publication ==
    /\ unsaid \subseteq Fields
    /\ worker # "publish" => unsaid = {}

\* The flags.
Flags ==
    /\ latched \in BOOLEAN /\ stopAsked \in BOOLEAN /\ armed \in BOOLEAN
    /\ triggered \in BOOLEAN /\ announce \in BOOLEAN /\ failed \in BOOLEAN
    /\ requested \in BOOLEAN /\ watched \in BOOLEAN /\ recent \in BOOLEAN
    /\ due \in BOOLEAN /\ ready \in BOOLEAN /\ asked \in BOOLEAN /\ cycled \in BOOLEAN

\* The values read, served and queried, and the counters.
Values ==
    /\ \A s \in Sources : file[s] \in Contents(s)
    /\ fields \in [Fields -> Vals \cup {Missing}]
    /\ client \in [Fields -> Vals \cup {Missing}]
    /\ DOMAIN results \subseteq Sources
    /\ \A s \in DOMAIN results : results[s] \in Contents(s)
    /\ signals \subseteq Fields /\ missed \subseteq Fields
    /\ spent \in [changes : Nat, requests : Nat, starts : Nat, faults : Nat]

-----------------------------------------------------------------------------
(* Each part is preserved *)

\* Threading is preserved by every step.
LEMMA ThreadingStep == Threading /\ [Next]_vars => Threading'
  <1> SUFFICES ASSUME Threading, [Next]_vars
               PROVE  Threading'
    OBVIOUS
  <1> USE DEF Threading, Looping
  <1>1. CASE Environment
    BY <1>1 DEF Environment, FileChanges, RefreshFlags, Admitted, Start, StartFails,
                StopBegins, clients
  <1>2. CASE Time
    BY <1>2 DEF Time, IntervalOver, DeadlinePasses, clients
  <1>3. CASE Caller
    BY <1>3 DEF Caller, RefreshSignals
  <1>4. CASE Client
    BY <1>4 DEF Client, ClientQueries
  <1>5. CASE Lifecycle
    BY <1>5 DEF Lifecycle, StartWorker, StartWorkerFails, RolledBack, StopWakes,
                StopJoins, clients
  <1>6. CASE Worker
    BY <1>6 DEF Worker, LoopHead, PollTimeout, PollReady, WorkerThrows, Decide, PutOff,
                BeginCycle, Merge, EndCycle, Collect, PublishField, PublishFails, clients
  <1>7. CASE UNCHANGED vars
    BY <1>7 DEF vars, clients
  <1> QED
    BY <1>1, <1>2, <1>3, <1>4, <1>5, <1>6, <1>7 DEF Next

\* The flags stay flags.
LEMMA FlagsStep == Flags /\ [Next]_vars => Flags'
  <1> SUFFICES ASSUME Flags, [Next]_vars
               PROVE  Flags'
    OBVIOUS
  <1> USE DEF Flags, snapshot, loop, clock, clients
  <1>1. CASE Environment
    <2>1. CASE \E s \in Sources : \E contents \in Contents(s) : FileChanges(s, contents)
      <3>1. watched' = watched \/ watched' = TRUE
        BY <2>1 DEF FileChanges
      <3>2. watched' \in BOOLEAN
        BY <3>1
      <3> QED
        BY <2>1, <3>2 DEF FileChanges
    <2>2. CASE RefreshFlags
      BY <2>2 DEF RefreshFlags
    <2>3. CASE Start
      BY <2>3 DEF Start
    <2>4. CASE StartFails
      BY <2>4 DEF StartFails
    <2>5. CASE StopBegins
      BY <2>5 DEF StopBegins
    <2> QED
      BY <1>1, <2>1, <2>2, <2>3, <2>4, <2>5 DEF Environment
  <1>2. CASE Time
    <2>1. CASE IntervalOver
      BY <2>1 DEF IntervalOver
    <2>2. CASE DeadlinePasses
      BY <2>2 DEF DeadlinePasses
    <2> QED
      BY <1>2, <2>1, <2>2 DEF Time
  <1>3. CASE Caller
    BY <1>3 DEF Caller, RefreshSignals
  <1>4. CASE Client
    BY <1>4 DEF Client, ClientQueries
  <1>5. CASE Lifecycle
    <2>1. CASE StartWorker
      BY <2>1 DEF StartWorker
    <2>2. CASE StartWorkerFails
      BY <2>2 DEF StartWorkerFails
    <2>3. CASE RolledBack
      BY <2>3 DEF RolledBack
    <2>4. CASE StopWakes
      BY <2>4 DEF StopWakes
    <2>5. CASE StopJoins
      BY <2>5 DEF StopJoins
    <2> QED
      BY <1>5, <2>1, <2>2, <2>3, <2>4, <2>5 DEF Lifecycle
  <1>6. CASE Worker
    <2>1. CASE LoopHead
      BY <2>1 DEF LoopHead
    <2>2. CASE PollTimeout
      BY <2>2 DEF PollTimeout
    <2>3. CASE PollReady
      BY <2>3 DEF PollReady
    <2>4. CASE WorkerThrows
      BY <2>4 DEF WorkerThrows
    <2>5. CASE Decide
      BY <2>5 DEF Decide
    <2>6. CASE PutOff
      BY <2>6 DEF PutOff
    <2>7. CASE BeginCycle
      BY <2>7 DEF BeginCycle
    <2>8. CASE Merge
      BY <2>8 DEF Merge
    <2>9. CASE EndCycle
      BY <2>9 DEF EndCycle
    <2>10. CASE \E s \in Sources : Collect(s)
      BY <2>10 DEF Collect
    <2>11. CASE \E f \in Fields : PublishField(f) \/ PublishFails(f)
      BY <2>11 DEF PublishField, PublishFails
    <2> QED
      BY <1>6, <2>1, <2>2, <2>3, <2>4, <2>5, <2>6, <2>7, <2>8, <2>9, <2>10, <2>11 DEF Worker
  <1>7. CASE UNCHANGED vars
    BY <1>7 DEF vars
  <1> QED
    BY <1>1, <1>2, <1>3, <1>4, <1>5, <1>6, <1>7 DEF Next

\* A request is never forgotten.  The two critical steps are LoopHead, which
\* goes to sleep unarmed only when there is no request, and RefreshSignals,
\* which finds the eventfd there.
LEMMA RequestsStep == Threading /\ Flags /\ Requests /\ [Next]_vars => Requests'
  <1> SUFFICES ASSUME Threading, Flags, Requests, [Next]_vars
               PROVE  Requests'
    OBVIOUS
  <1> USE DEF Requests, loop, clients
  <1>1. CASE Environment
    <2>1. CASE \E s \in Sources : \E contents \in Contents(s) : FileChanges(s, contents)
      BY <2>1 DEF FileChanges
    <2>2. CASE RefreshFlags
      BY <2>2 DEF RefreshFlags
    <2>3. CASE Start
      BY <2>3 DEF Start, Threading
    <2>4. CASE StartFails
      BY <2>4 DEF StartFails, Threading
    <2>5. CASE StopBegins
      BY <2>5 DEF StopBegins
    <2> QED
      BY <1>1, <2>1, <2>2, <2>3, <2>4, <2>5 DEF Environment
  <1>2. CASE Time
    <2>1. CASE IntervalOver
      BY <2>1 DEF IntervalOver
    <2>2. CASE DeadlinePasses
      BY <2>2 DEF DeadlinePasses
    <2> QED
      BY <1>2, <2>1, <2>2 DEF Time
  <1>3. CASE Caller
    BY <1>3 DEF Caller, RefreshSignals, Threading
  <1>4. CASE Client
    BY <1>4 DEF Client, ClientQueries
  <1>5. CASE Lifecycle
    <2>1. CASE StartWorker
      BY <2>1 DEF StartWorker, Threading
    <2>2. CASE StartWorkerFails
      BY <2>2 DEF StartWorkerFails
    <2>3. CASE RolledBack
      BY <2>3 DEF RolledBack, Threading
    <2>4. CASE StopWakes
      BY <2>4 DEF StopWakes
    <2>5. CASE StopJoins
      BY <2>5 DEF StopJoins
    <2> QED
      BY <1>5, <2>1, <2>2, <2>3, <2>4, <2>5 DEF Lifecycle
  <1>6. CASE Worker
    <2>1. CASE LoopHead
      BY <2>1 DEF LoopHead, Flags
    <2>2. CASE PollTimeout
      BY <2>2 DEF PollTimeout
    <2>3. CASE PollReady
      BY <2>3 DEF PollReady
    <2>4. CASE WorkerThrows
      BY <2>4 DEF WorkerThrows
    <2>5. CASE Decide
      BY <2>5 DEF Decide
    <2>6. CASE PutOff
      BY <2>6 DEF PutOff
    <2>7. CASE BeginCycle
      BY <2>7 DEF BeginCycle
    <2>8. CASE Merge
      BY <2>8 DEF Merge
    <2>9. CASE EndCycle
      BY <2>9 DEF EndCycle
    <2>10. CASE \E s \in Sources : Collect(s)
      BY <2>10 DEF Collect
    <2>11. CASE \E f \in Fields : PublishField(f) \/ PublishFails(f)
      BY <2>11 DEF PublishField, PublishFails
    <2> QED
      BY <1>6, <2>1, <2>2, <2>3, <2>4, <2>5, <2>6, <2>7, <2>8, <2>9, <2>10, <2>11 DEF Worker
  <1>7. CASE UNCHANGED vars
    BY <1>7 DEF vars
  <1> QED
    BY <1>1, <1>2, <1>3, <1>4, <1>5, <1>6, <1>7 DEF Next

\* Signals are owed in publication only.
LEMMA PublicationStep == Threading /\ Publication /\ [Next]_vars => Publication'
  <1> SUFFICES ASSUME Threading, Publication, [Next]_vars
               PROVE  Publication'
    OBVIOUS
  <1> USE DEF Publication, loop
  <1>1. CASE Environment
    BY <1>1 DEF Environment, FileChanges, RefreshFlags, Start, StartFails, StopBegins
  <1>2. CASE Time
    BY <1>2 DEF Time, IntervalOver, DeadlinePasses
  <1>3. CASE Caller
    BY <1>3 DEF Caller, RefreshSignals
  <1>4. CASE Client
    BY <1>4 DEF Client, ClientQueries
  <1>5. CASE Lifecycle
    BY <1>5 DEF Lifecycle, StartWorker, StartWorkerFails, RolledBack, StopWakes,
                StopJoins, Threading
  <1>6. CASE Worker
    BY <1>6 DEF Worker, LoopHead, PollTimeout, PollReady, WorkerThrows, Decide, PutOff,
                BeginCycle, Merge, EndCycle, Collect, PublishField, PublishFails
  <1>7. CASE UNCHANGED vars
    BY <1>7 DEF vars
  <1> QED
    BY <1>1, <1>2, <1>3, <1>4, <1>5, <1>6, <1>7 DEF Next

\* What a readable file of s holds for a field that s owns.
LEMMA ContentsValue ==
    ASSUME NEW s \in Sources, NEW c \in Contents(s), c # Bad, NEW f \in FieldsOf(s)
    PROVE  c[f] \in Vals \cup {Missing}
  BY DEF Contents

\* The values keep their types; in a merge each field comes from its owner.
LEMMA ValuesStep == Values /\ [Next]_vars => Values'
  <1> SUFFICES ASSUME Values, [Next]_vars
               PROVE  Values'
    OBVIOUS
  <1> USE DEF Values, snapshot, loop, clients
  <1>1. CASE Environment
    <2>1. ASSUME NEW s \in Sources, NEW contents \in Contents(s), FileChanges(s, contents)
          PROVE  Values'
      <3>1. \A r \in Sources : file'[r] \in Contents(r)
        BY <2>1 DEF FileChanges
      <3> QED
        BY <2>1, <3>1 DEF FileChanges, Spend
    <2>2. CASE RefreshFlags \/ Start \/ StartFails \/ StopBegins
      BY <2>2 DEF RefreshFlags, Start, StartFails, StopBegins, Spend
    <2> QED
      BY <1>1, <2>1, <2>2 DEF Environment
  <1>2. CASE Time
    BY <1>2 DEF Time, IntervalOver, DeadlinePasses
  <1>3. CASE Caller
    BY <1>3 DEF Caller, RefreshSignals
  <1>4. CASE Client
    BY <1>4 DEF Client, ClientQueries
  <1>5. CASE Lifecycle
    BY <1>5 DEF Lifecycle, StartWorker, StartWorkerFails, RolledBack, StopWakes,
                StopJoins, Spend
  <1>6. CASE Worker
    <2>1. CASE \E s \in Sources : Collect(s)
      <3>1. PICK s \in Sources : Collect(s)
        BY <2>1
      <3>2. DOMAIN results' = DOMAIN results \cup {s}
        BY <3>1 DEF Collect
      <3>3. \A r \in DOMAIN results' : results'[r] \in Contents(r)
        BY <3>1 DEF Collect
      <3> QED
        BY <3>1, <3>2, <3>3 DEF Collect
    <2>2. CASE Merge
      <3>1. \A f \in Fields : Merged(f) \in Vals \cup {Missing}
        <4>1. SUFFICES ASSUME NEW f \in Fields
                       PROVE  Merged(f) \in Vals \cup {Missing}
          OBVIOUS
        <4>2. Owner[f] \in Sources /\ f \in FieldsOf(Owner[f])
          BY OwnersKnown DEF FieldsOf
        <4>3. results[Owner[f]] \in Contents(Owner[f])
          BY <2>2, <4>2 DEF Merge
        <4> QED
          BY <4>2, <4>3, ContentsValue DEF Merged
      <3>2. DOMAIN results' = {}
        BY <2>2 DEF Merge
      <3> QED
        BY <2>2, <3>1, <3>2 DEF Merge
    <2>3. CASE \E f \in Fields : PublishField(f) \/ PublishFails(f)
      BY <2>3 DEF PublishField, PublishFails, Spend
    <2>4. CASE \/ LoopHead \/ PollTimeout \/ PollReady \/ WorkerThrows \/ Decide
               \/ PutOff \/ BeginCycle \/ EndCycle
      BY <2>4 DEF LoopHead, PollTimeout, PollReady, WorkerThrows, Decide, PutOff,
                  BeginCycle, EndCycle, Spend
    <2> QED
      BY <1>6, <2>1, <2>2, <2>3, <2>4 DEF Worker
  <1>7. CASE UNCHANGED vars
    BY <1>7 DEF vars
  <1> QED
    BY <1>1, <1>2, <1>3, <1>4, <1>5, <1>6, <1>7 DEF Next

-----------------------------------------------------------------------------
(* The theorems *)

\* The conjunction of the parts is inductive.
Inv == Threading /\ Flags /\ Requests /\ Publication /\ Values

\* It holds initially.
LEMMA InvInit == Init => Inv
  <1> SUFFICES ASSUME Init
               PROVE  Inv
    OBVIOUS
  <1>1. Threading /\ Flags /\ Requests /\ Publication
    BY DEF Init, Threading, Flags, Requests, Publication
  <1>2. Values
    BY DEF Init, Values
  <1> QED
    BY <1>1, <1>2 DEF Inv

\* Every reachable state satisfies the invariant.
LEMMA Invariance == Spec => []Inv
  <1>1. Inv /\ [Next]_vars => Inv'
    BY ThreadingStep, FlagsStep, RequestsStep, PublicationStep, ValuesStep DEF Inv
  <1> QED
    BY InvInit, <1>1, PTL DEF Spec

\* Type correctness of the service, for every set of sources and fields.
THEOREM TypeCorrect == Spec => []TypeOK
  <1>1. Inv => TypeOK
    BY DEF Inv, Threading, Flags, Publication, Values, TypeOK
  <1> QED
    BY Invariance, <1>1, PTL

\* stop(), a failed start and a dying worker never take the eventfd from a
\* refresh() call or from the loop.
THEOREM EventfdIsThere == Spec => []EventfdOutlivesUsers
  <1>1. Inv => EventfdOutlivesUsers
    BY DEF Inv, Threading, EventfdOutlivesUsers, Looping
  <1> QED
    BY Invariance, <1>1, PTL

\* No refresh() is forgotten by runLoop and doRefreshCycle, nor slept over.
THEOREM RefreshIsRemembered == Spec => []RefreshNotForgotten
  <1>1. Inv => RefreshNotForgotten
    BY DEF Inv, Requests, RefreshNotForgotten
  <1> QED
    BY Invariance, <1>1, PTL

-----------------------------------------------------------------------------
(* Clients *)

\* A step that changes no value, no view and no signal keeps clients informed.
LEMMA InformedFrame ==
    ASSUME ClientInformed, UNCHANGED <<fields, client, signals, unsaid, missed>>
    PROVE  ClientInformed'
  BY DEF ClientInformed

\* ClientInformed is preserved.  Merge is the step that makes views stale: it
\* owes a signal for each field it changes, and owed none before.
LEMMA InformedStep == Inv /\ ClientInformed /\ [Next]_vars => ClientInformed'
  <1> SUFFICES ASSUME Inv, ClientInformed, [Next]_vars
               PROVE  ClientInformed'
    OBVIOUS
  <1> USE DEF snapshot, loop, clients
  <1>0. Values /\ Publication
    BY DEF Inv
  <1>1. CASE Environment
    BY <1>1, InformedFrame
       DEF Environment, FileChanges, RefreshFlags, Start, StartFails, StopBegins
  <1>2. CASE Time
    BY <1>2, InformedFrame DEF Time, IntervalOver, DeadlinePasses
  <1>3. CASE Caller
    BY <1>3, InformedFrame DEF Caller, RefreshSignals
  <1>4. CASE Client
    <2>1. PICK f \in Fields : ClientQueries(f)
      BY <1>4 DEF Client
    <2>2. client'[f] = fields[f] \/ f \in missed'
      BY <1>0, <2>1 DEF ClientQueries, Values
    <2>3. ASSUME NEW g \in Fields, g # f
          PROVE  client'[g] = client[g]
      BY <1>0, <2>1, <2>3 DEF ClientQueries, Values
    <2>4. signals' = signals \ {f} /\ missed \ {f} \subseteq missed' /\ UNCHANGED <<fields, unsaid>>
      BY <2>1 DEF ClientQueries
    <2>5. ASSUME NEW g \in Fields
          PROVE  client'[g] = fields'[g] \/ g \in signals' \cup unsaid' \cup missed'
      <3>1. CASE g = f
        BY <2>2, <2>4, <3>1
      <3>2. CASE g # f
        BY <2>3, <2>4, <3>2 DEF ClientInformed
      <3> QED
        BY <3>1, <3>2
    <2> QED
      BY <2>5 DEF ClientInformed
  <1>5. CASE Lifecycle
    BY <1>5, InformedFrame
       DEF Lifecycle, StartWorker, StartWorkerFails, RolledBack, StopWakes, StopJoins
  <1>6. CASE Worker
    <2>1. CASE Merge
      <3>1. unsaid = {}
        BY <1>0, <2>1 DEF Merge, Publication
      <3>2. \A f \in Fields : f \in unsaid' \/ fields'[f] = fields[f]
        BY <2>1 DEF Merge
      <3> QED
        BY <2>1, <3>1, <3>2 DEF Merge, ClientInformed
    <2>2. CASE \E f \in Fields : PublishField(f)
      BY <2>2 DEF PublishField, ClientInformed
    <2>3. CASE \E f \in Fields : PublishFails(f)
      BY <2>3 DEF PublishFails, ClientInformed
    <2>4. CASE \/ LoopHead \/ PollTimeout \/ PollReady \/ Decide \/ PutOff
               \/ BeginCycle \/ EndCycle \/ WorkerThrows \/ \E s \in Sources : Collect(s)
      BY <2>4, InformedFrame DEF LoopHead, PollTimeout, PollReady, Decide, PutOff,
         BeginCycle, EndCycle, WorkerThrows, Collect
    <2> QED
      BY <1>6, <2>1, <2>2, <2>3, <2>4 DEF Worker
  <1>7. CASE UNCHANGED vars
    BY <1>7, InformedFrame DEF vars
  <1> QED
    BY <1>1, <1>2, <1>3, <1>4, <1>5, <1>6, <1>7 DEF Next

\* A client whose value is out of date has its signal on the way, for any
\* interleaving of cycles, failures, restarts and queries, unless that field's
\* signal was lost or its query refused by a service going down.
THEOREM ClientsAreInformed == Spec => []ClientInformed
  <1>1. Init => ClientInformed
    BY DEF Init, ClientInformed
  <1> QED
    BY <1>1, Invariance, InformedStep, PTL DEF Spec

=============================================================================
