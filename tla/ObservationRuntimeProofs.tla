---------------------- MODULE ObservationRuntimeProofs ----------------------
(***************************************************************************)
(* Proofs about ObservationRuntime for every set of facts, every queue     *)
(* capacity and every bound.                                               *)
(***************************************************************************)
EXTENDS ObservationRuntime, TLAPS

-----------------------------------------------------------------------------
(* Items and the queue *)

\* The fields of an item.
LEMMA ItemFields ==
    ASSUME NEW item \in Item
    PROVE  /\ item.src \in Sources
           /\ item.key \in Keys
           /\ item.val \in Facts \cup {Keepalive}
           /\ item # NoItem
  BY ValuesDistinct DEF Item, Facts

\* The items the inputs build.
LEMMA ItemOfType ==
    ASSUME NEW k \in Keys, NEW v \in Facts \cup {Keepalive}
    PROVE  /\ ItemOf(k, v) \in Item
           /\ ItemOf(k, v).src = SourceOf(k)
           /\ ItemOf(k, v).key = k
           /\ ItemOf(k, v).val = v
  BY DEF ItemOf, SourceOf, Item, Sources

\* Taking the head of a queue.
LEMMA PopType ==
    ASSUME NEW S, NEW q \in Seq(S), q # <<>>
    PROVE  /\ Head(q) \in S
           /\ Head(q) = q[1]
           /\ Tail(q) \in Seq(S)
           /\ Len(q) \in Nat \ {0}
           /\ Len(Tail(q)) = Len(q) - 1
           /\ \A i \in 1..(Len(q) - 1) : Tail(q)[i] = q[i + 1]
  OBVIOUS

\* The empty queue.
LEMMA EmptyQueue == <<>> \in Seq(Item) /\ Len(<<>>) = 0 /\ Len(<<>>) <= Capacity
  BY BoundsNat

\* The three cases of push().
LEMMA PushCases ==
    ASSUME TypeOK, NEW item \in Item, Push(item)
    PROVE  \/ ~open /\ UNCHANGED <<queue, mask>>
           \/ /\ open
              /\ queue # <<>>
              /\ queue' = Append(Tail(queue), item)
              /\ mask' = mask \cup {Head(queue).src}
           \/ /\ open
              /\ Len(queue) < Capacity
              /\ queue' = Append(queue, item)
              /\ mask' = mask
  BY BoundsNat DEF TypeOK, Push

\* What push() leaves: a queue of items within capacity, a mask of sources.
LEMMA PushType ==
    ASSUME TypeOK, NEW item \in Item, Push(item)
    PROVE  /\ queue' \in Seq(Item)
           /\ Len(queue') <= Capacity
           /\ mask' \in SUBSET Sources
  <1> USE DEF TypeOK
  <1>1. CASE ~open /\ UNCHANGED <<queue, mask>>
    BY <1>1
  <1>2. CASE queue # <<>> /\ queue' = Append(Tail(queue), item)
             /\ mask' = mask \cup {Head(queue).src}
    <2>1. Head(queue) \in Item /\ Tail(queue) \in Seq(Item)
          /\ Len(Tail(queue)) = Len(queue) - 1
      BY <1>2, PopType
    <2>2. Head(queue).src \in Sources
      BY <2>1, ItemFields
    <2> QED
      BY <1>2, <2>1, <2>2, BoundsNat
  <1>3. CASE Len(queue) < Capacity /\ queue' = Append(queue, item) /\ mask' = mask
    BY <1>3, BoundsNat
  <1> QED
    BY <1>1, <1>2, <1>3, PushCases

\* Handing a fact over keeps the queue, the mask and the reports typed.
LEMMA HandType ==
    ASSUME TypeOK, NEW k \in Keys, NEW v \in Facts, Hand(k, v)
    PROVE  /\ queue' \in Seq(Item)
           /\ Len(queue') <= Capacity
           /\ mask' \in SUBSET Sources
           /\ reported' \in [Keys -> Facts]
  <1>1. ItemOf(k, v) \in Item /\ Push(ItemOf(k, v))
    BY ItemOfType DEF Hand
  <1>2. reported' \in [Keys -> Facts]
    BY DEF Hand, TypeOK
  <1> QED
    BY <1>1, <1>2, PushType

-----------------------------------------------------------------------------
(* Type correctness *)

\* TypeOK is preserved by every step.
LEMMA TypeStep == TypeOK /\ [Next]_vars => TypeOK'
  <1> SUFFICES ASSUME TypeOK, [Next]_vars
               PROVE  TypeOK'
    OBVIOUS
  <1>1. CASE Producers
    <2>1. ASSUME NEW k \in NetKeys, NEW v \in Facts, NetlinkReport(k, v)
          PROVE  TypeOK'
      <3>1. k \in Keys /\ Hand(k, v)
        BY <2>1 DEF Keys, NetlinkReport
      <3> QED
        BY <2>1, <3>1, HandType DEF NetlinkReport, Spend, TypeOK
    <2>2. ASSUME NEW k \in LldpKeys, NEW v \in Facts, LldpReport(k, v)
          PROVE  TypeOK'
      <3>1. k \in Keys /\ Hand(k, v)
        BY <2>2 DEF Keys, LldpReport
      <3> QED
        BY <2>2, <3>1, HandType DEF LldpReport, Spend, TypeOK
    <2> QED
      BY <1>1, <2>1, <2>2 DEF Producers
  <1>2. CASE Consumer
    <2>1. CASE ConsumerPop
      <3>1. queue # <<>> /\ queue \in Seq(Item)
        BY <2>1 DEF ConsumerPop, TypeOK
      <3>2. Head(queue) \in Item /\ Tail(queue) \in Seq(Item)
            /\ Len(Tail(queue)) <= Capacity
        BY <3>1, PopType, BoundsNat DEF TypeOK
      <3> QED
        BY <2>1, <3>2 DEF ConsumerPop, TypeOK
    <2>2. CASE ConsumerApply
      <3>1. model' \in [Keys -> Facts]
        <4>1. held \in Item
          BY <2>2 DEF ConsumerApply, TypeOK
        <4> QED
          BY <2>2, <4>1, ItemFields DEF ConsumerApply, TypeOK
      <3> QED
        BY <2>2, <3>1 DEF ConsumerApply, TypeOK
    <2>3. CASE ConsumerThrows
      BY <2>3 DEF ConsumerThrows, Spend, TypeOK
    <2>4. CASE ConsumerExit
      BY <2>4 DEF ConsumerExit, TypeOK
    <2> QED
      BY <1>2, <2>1, <2>2, <2>3, <2>4 DEF Consumer
  <1>3. CASE Walk
    <2>1. ASSUME NEW k \in Keys, NEW v \in Vals, WalkFinds(k, v)
          PROVE  TypeOK'
      <3>1. v \in Facts /\ Hand(k, v)
        BY <2>1 DEF Facts, WalkFinds
      <3> QED
        BY <2>1, <3>1, HandType DEF WalkFinds, TypeOK
    <2>2. ASSUME NEW k \in NetKeys, DumpMisses(k)
          PROVE  TypeOK'
      BY <2>2 DEF DumpMisses, TypeOK, Facts
    <2>3. ASSUME NEW k \in LldpKeys, EnumerationMisses(k)
          PROVE  TypeOK'
      <3>1. k \in Keys /\ Absent \in Facts
        BY DEF Keys, Facts
      <3>2. CASE Hand(k, Absent)
        BY <2>3, <3>1, <3>2, HandType DEF EnumerationMisses, TypeOK
      <3>3. CASE UNCHANGED <<queue, mask, reported>>
        BY <2>3, <3>3 DEF EnumerationMisses, TypeOK
      <3> QED
        BY <2>3, <3>2, <3>3 DEF EnumerationMisses
    <2> QED
      BY <1>3, <2>1, <2>2, <2>3 DEF Walk
  <1>4. CASE StartCall \/ StopCall
    <2>1. CASE StartConsumer
      BY <2>1, EmptyQueue DEF StartConsumer, Spend, TypeOK, Phases, Facts, Sources
    <2>2. CASE StartConsumerFails
      <3>1. spent' \in [reports : Nat, starts : Nat, failures : Nat]
        BY <2>2 DEF StartConsumerFails, Spend, TypeOK
      <3>2. model' \in [Keys -> Facts]
        BY <2>2 DEF StartConsumerFails, Facts
      <3> QED
        BY <2>2, <3>1, <3>2, EmptyQueue DEF StartConsumerFails, TypeOK
    <2>3. CASE StopMonitor
      BY <2>3 DEF StopMonitor, TypeOK, Phases
    <2> QED
      BY <1>4, <2>1, <2>2, <2>3 DEF StartCall, StopCall
  <1>5. CASE Lifecycle
    <2>1. CASE StartLldp
      BY <2>1 DEF StartLldp, TypeOK, Phases, Keys
    <2>2. CASE StartLldpFails
      BY <2>2 DEF StartLldpFails, Spend, TypeOK, Phases
    <2>3. CASE StartLldpDone
      BY <2>3 DEF StartLldpDone, TypeOK, Phases
    <2>4. CASE StartMonitor
      BY <2>4 DEF StartMonitor, TypeOK, Phases, Keys
    <2>5. CASE StartMonitorFails
      BY <2>5 DEF StartMonitorFails, Spend, Forget, Facts, TypeOK, Phases
    <2>6. CASE StartDone
      BY <2>6 DEF StartDone, TypeOK, Phases
    <2>7. CASE StopLldp
      BY <2>7 DEF StopLldp, TypeOK, Phases
    <2>8. CASE CloseQueue
      BY <2>8 DEF CloseQueue, TypeOK, Phases
    <2>9. CASE JoinConsumer
      BY <2>9 DEF JoinConsumer, Forget, Facts, TypeOK, Phases
    <2> QED
      BY <1>5, <2>1, <2>2, <2>3, <2>4, <2>5, <2>6, <2>7, <2>8, <2>9 DEF Lifecycle
  <1>6. CASE Supervision
    <2>1. CASE SuperviseNothing
      BY <2>1 DEF SuperviseNothing, TypeOK, Ticks
    <2>2. CASE SuperviseReconnects
      BY <2>2 DEF SuperviseReconnects, Spend, TypeOK, Ticks, Keys
    <2>3. CASE SuperviseDrops
      BY <2>3 DEF SuperviseDrops, Spend, Forget, Facts, TypeOK, Ticks
    <2>4. CASE SuperviseReplaces
      BY <2>4 DEF SuperviseReplaces, Spend, Forget, Facts, TypeOK, Keys, Ticks
    <2>5. CASE SuperviseAcquires
      BY <2>5 DEF SuperviseAcquires, TypeOK, Ticks, Keys
    <2>6. CASE SuperviseDone
      BY <2>6 DEF SuperviseDone, TypeOK, Ticks
    <2>7. CASE ReassertSkips
      BY <2>7 DEF ReassertSkips, TypeOK, Ticks
    <2>8. CASE ReassertStarts
      BY <2>8 DEF ReassertStarts, Spend, TypeOK, Ticks, Keys
    <2>9. CASE ReassertDone
      BY <2>9 DEF ReassertDone, TypeOK, Ticks
    <2>10. CASE TakeResyncMask
      BY <2>10 DEF TakeResyncMask, TypeOK, Ticks, Sources
    <2>11. CASE DiscardBacklog
      BY <2>11, EmptyQueue DEF DiscardBacklog, TypeOK, Ticks, Keys
    <2>12. CASE RedumpDone
      BY <2>12 DEF RedumpDone, TypeOK, Ticks
    <2>13. CASE RedumpFails
      BY <2>13 DEF RedumpFails, Spend, TypeOK, Ticks, Sources
    <2>14. CASE LldpRepairSkips
      BY <2>14 DEF LldpRepairSkips, TypeOK, Ticks, Sources
    <2>15. CASE LldpRepairStarts
      BY <2>15 DEF LldpRepairStarts, TypeOK, Ticks, Keys
    <2>16. CASE LldpRepairFails
      BY <2>16 DEF LldpRepairFails, Spend, TypeOK, Ticks, Sources
    <2>17. CASE LldpRepairDone
      BY <2>17 DEF LldpRepairDone, TypeOK, Ticks, Sources
    <2>18. ASSUME NEW k \in LldpKeys, ReassertOne(k)
          PROVE  TypeOK'
      <3>1. ItemOf(k, Keepalive) \in Item
        BY ItemOfType DEF Keys
      <3> QED
        BY <2>18, <3>1, PushType DEF ReassertOne, TypeOK
    <2> QED
      BY <1>6, <2>1, <2>2, <2>3, <2>4, <2>5, <2>6, <2>7, <2>8, <2>9, <2>10, <2>11, <2>12, <2>13, <2>14, <2>15, <2>16, <2>17, <2>18 DEF Supervision
  <1>7. CASE UNCHANGED vars
    BY <1>7 DEF vars, TypeOK
  <1> QED
    BY <1>1, <1>2, <1>3, <1>4, <1>5, <1>6, <1>7 DEF Next

\* Every reachable state is typed: the queue never exceeds its capacity and
\* holds only items of the two sources, for every capacity.
THEOREM TypeCorrect == Spec => []TypeOK
  <1>1. Init => TypeOK
    BY EmptyQueue DEF Init, TypeOK, Phases, Ticks, Facts
  <1> QED
    BY <1>1, TypeStep, PTL DEF Spec

-----------------------------------------------------------------------------
(* The phases of start() and stop() *)

\* push() keeps the tags right when the item's own tag is.
LEMMA PushTagged ==
    ASSUME TypeOK, ItemsTagged, NEW item \in Item,
           item.src = SourceOf(item.key), Push(item)
    PROVE  ItemsTagged'
  <1> USE DEF ItemsTagged
  <1> queue \in Seq(Item)
    BY DEF TypeOK
  <1>1. CASE ~open /\ UNCHANGED <<queue, mask>>
    BY <1>1
  <1>2. CASE queue # <<>> /\ queue' = Append(Tail(queue), item)
    <2>1. PICK t \in Seq(Item) : t = Tail(queue) /\ queue' = Append(t, item)
      BY <1>2, PopType
    <2>2. Len(t) = Len(queue) - 1 /\ Len(queue) \in Nat \ {0}
          /\ \A i \in 1..(Len(queue) - 1) : t[i] = queue[i + 1]
      BY <1>2, <2>1, PopType
    <2>3. \A i \in 1..Len(t) : t[i].src = SourceOf(t[i].key)
      BY <2>2
    <2> QED
      BY <2>1, <2>3
  <1>3. CASE queue' = Append(queue, item)
    BY <1>3
  <1> QED
    BY <1>1, <1>2, <1>3, PushCases

\* Handing a fact over keeps the tags right.
LEMMA HandTagged ==
    ASSUME TypeOK, ItemsTagged, NEW k \in Keys, NEW v \in Facts, Hand(k, v)
    PROVE  ItemsTagged'
  <1>1. ItemOf(k, v) \in Item /\ ItemOf(k, v).src = SourceOf(ItemOf(k, v).key)
    BY ItemOfType
  <1> QED
    BY <1>1, PushTagged DEF Hand

\* PhasesOrdered is preserved by every step.
LEMMA PhasesStep == TypeOK /\ PhasesOrdered /\ [Next]_vars => PhasesOrdered'
  <1> SUFFICES ASSUME TypeOK, PhasesOrdered, [Next]_vars
               PROVE  PhasesOrdered'
    OBVIOUS
  <1> USE DEF WalksNetlink, WalksLldp
  <1>0. ItemsTagged
    BY DEF PhasesOrdered
  <1>a. ASSUME UNCHANGED queue PROVE ItemsTagged'
    BY <1>0, <1>a DEF ItemsTagged
  <1>1. CASE Producers
    <2>1. ASSUME NEW k \in NetKeys, NEW v \in Facts, NetlinkReport(k, v)
          PROVE  PhasesOrdered'
      <3>1. ItemsTagged'
        BY <1>0, <2>1, HandTagged DEF NetlinkReport, Keys
      <3>2. open /\ phase \in {"dump", "running"}
        BY <2>1 DEF NetlinkReport, PhasesOrdered
      <3> QED
        BY <2>1, <3>1, <3>2, KeysDisjoint DEF NetlinkReport, Hand, PhasesOrdered, TypeOK
    <2>2. ASSUME NEW k \in LldpKeys, NEW v \in Facts, LldpReport(k, v)
          PROVE  PhasesOrdered'
      <3>1. ItemsTagged'
        BY <1>0, <2>2, HandTagged DEF LldpReport, Keys
      <3>2. open /\ phase \notin {"stopped", "join", "lldp"}
        BY <2>2 DEF LldpReport, PhasesOrdered
      <3> QED
        BY <2>2, <3>1, <3>2, KeysDisjoint DEF LldpReport, Hand, PhasesOrdered, TypeOK
    <2> QED
      BY <1>1, <2>1, <2>2 DEF Producers
  <1>2. CASE Consumer
    <2>1. CASE ConsumerPop
      <3>1. queue # <<>> /\ queue \in Seq(Item) /\ queue' = Tail(queue)
        BY <2>1 DEF ConsumerPop, TypeOK
      <3>2. ItemsTagged'
        BY <1>0, <3>1, PopType DEF ItemsTagged
      <3>3. held' # NoItem
        BY <2>1, <3>1, PopType, ItemFields DEF ConsumerPop
      <3> QED
        BY <2>1, <3>2, <3>3 DEF ConsumerPop, PhasesOrdered
    <2>2. CASE ConsumerApply
      BY <1>a, <2>2 DEF ConsumerApply, PhasesOrdered
    <2>3. CASE ConsumerThrows
      BY <1>a, <2>3 DEF ConsumerThrows, PhasesOrdered
    <2>4. CASE ConsumerExit
      BY <1>a, <2>4 DEF ConsumerExit, PhasesOrdered
    <2> QED
      BY <1>2, <2>1, <2>2, <2>3, <2>4 DEF Consumer
  <1>3. CASE Walk
    <2>0. open \/ (~WalksLldp /\ ~WalksNetlink)
      BY DEF PhasesOrdered
    <2>1. ASSUME NEW k \in Keys, NEW v \in Vals, WalkFinds(k, v)
          PROVE  PhasesOrdered'
      <3>1. v \in Facts /\ Hand(k, v)
        BY <2>1 DEF WalkFinds, Facts
      <3>2. ItemsTagged'
        BY <1>0, <3>1, HandTagged
      <3>3. CASE WalksNetlink
        <4>1. k \in NetKeys /\ phase \in {"dump", "running"}
          BY <2>1, <3>3 DEF WalkFinds, PhasesOrdered
        <4> QED
          BY <2>1, <3>2, <4>1, KeysDisjoint DEF WalkFinds, Hand, PhasesOrdered, TypeOK
      <3>4. CASE WalksLldp
        <4>1. k \in LldpKeys /\ phase \in {"enumerate", "running"}
          BY <2>1, <3>4 DEF WalkFinds, PhasesOrdered
        <4>2. observer = "live"
          BY <3>4 DEF PhasesOrdered, TypeOK
        <4> QED
          BY <2>1, <3>2, <4>1, <4>2, KeysDisjoint DEF WalkFinds, Hand, PhasesOrdered, TypeOK
      <3> QED
        BY <2>1, <3>3, <3>4 DEF WalkFinds
    <2>2. ASSUME NEW k \in NetKeys, DumpMisses(k)
          PROVE  PhasesOrdered'
      BY <1>a, <2>2, KeysDisjoint DEF DumpMisses, PhasesOrdered, TypeOK
    <2>3. ASSUME NEW k \in LldpKeys, EnumerationMisses(k)
          PROVE  PhasesOrdered'
      <3>1. k \in Keys /\ Absent \in Facts
        BY DEF Keys, Facts
      <3>2. ItemsTagged'
        BY <1>0, <1>a, <2>3, <3>1, HandTagged DEF EnumerationMisses
      <3>3. reported' = reported \/ reported' = [reported EXCEPT ![k] = Absent]
        BY <2>3 DEF EnumerationMisses, Hand
      <3>4. phase \in {"enumerate", "running"}
        BY <2>3 DEF EnumerationMisses, PhasesOrdered
      <3>5. /\ k \in todo /\ todo' = todo \ {k} /\ (WalksLldp)'
            /\ UNCHANGED <<phase, open, consumer, held, model, monitor, observer,
                           tick, taken, spent>>
        BY <2>3 DEF EnumerationMisses
      <3>6. \A j \in NetKeys : reported'[j] = reported[j]
        BY <3>3, KeysDisjoint DEF TypeOK, Keys
      <3>7. consumer # "exited" /\ observer = "live" /\ todo \subseteq LldpKeys
        BY <2>3, <3>4 DEF EnumerationMisses, PhasesOrdered
      <3> QED
        BY <3>2, <3>4, <3>5, <3>6, <3>7 DEF PhasesOrdered
    <2> QED
      BY <1>3, <2>1, <2>2, <2>3 DEF Walk
  <1>4. CASE StartCall \/ StopCall
    <2>1. CASE StartConsumer
      <3>1. ItemsTagged'
        BY <2>1 DEF StartConsumer, ItemsTagged
      <3> QED
        BY <2>1, <3>1 DEF StartConsumer, PhasesOrdered, Keys
    <2>2. CASE StartConsumerFails
      <3>1. ItemsTagged'
        BY <2>2 DEF StartConsumerFails, ItemsTagged
      <3> QED
        BY <2>2, <3>1 DEF StartConsumerFails, PhasesOrdered
    <2>3. CASE StopMonitor
      BY <1>a, <2>3 DEF StopMonitor, PhasesOrdered
    <2> QED
      BY <1>4, <2>1, <2>2, <2>3 DEF StartCall, StopCall
  <1>5. CASE Lifecycle
    <2>1. CASE StartLldp
      BY <1>a, <2>1 DEF StartLldp, PhasesOrdered, Keys
    <2>2. CASE StartLldpFails
      BY <1>a, <2>2 DEF StartLldpFails, PhasesOrdered, Keys
    <2>3. CASE StartLldpDone
      BY <1>a, <2>3 DEF StartLldpDone, PhasesOrdered, Keys
    <2>4. CASE StartMonitor
      BY <1>a, <2>4 DEF StartMonitor, PhasesOrdered, Keys
    <2>5. CASE StartMonitorFails
      BY <1>a, <2>5 DEF StartMonitorFails, Forget, PhasesOrdered, Keys
    <2>6. CASE StartDone
      BY <1>a, <2>6 DEF StartDone, PhasesOrdered, Keys
    <2>7. CASE StopLldp
      BY <1>a, <2>7 DEF StopLldp, PhasesOrdered, Keys
    <2>8. CASE CloseQueue
      BY <1>a, <2>8 DEF CloseQueue, PhasesOrdered, Keys
    <2>9. CASE JoinConsumer
      BY <1>a, <2>9 DEF JoinConsumer, Forget, PhasesOrdered, Keys
    <2> QED
      BY <1>5, <2>1, <2>2, <2>3, <2>4, <2>5, <2>6, <2>7, <2>8, <2>9 DEF Lifecycle
  <1>6. CASE Supervision
    <2>1. CASE SuperviseNothing
      BY <1>a, <2>1 DEF SuperviseNothing, PhasesOrdered
    <2>2. CASE SuperviseReconnects
      BY <1>a, <2>2 DEF SuperviseReconnects, PhasesOrdered
    <2>3. CASE SuperviseDrops
      BY <1>a, <2>3 DEF SuperviseDrops, Forget, PhasesOrdered, Keys
    <2>4. CASE SuperviseReplaces
      BY <1>a, <2>4 DEF SuperviseReplaces, Forget, PhasesOrdered, Keys
    <2>5. CASE SuperviseAcquires
      BY <1>a, <2>5 DEF SuperviseAcquires, PhasesOrdered
    <2>6. CASE SuperviseDone
      BY <1>a, <2>6 DEF SuperviseDone, PhasesOrdered
    <2>7. CASE ReassertSkips
      BY <1>a, <2>7 DEF ReassertSkips, PhasesOrdered
    <2>8. CASE ReassertStarts
      BY <1>a, <2>8 DEF ReassertStarts, PhasesOrdered
    <2>9. CASE ReassertDone
      BY <1>a, <2>9 DEF ReassertDone, PhasesOrdered
    <2>10. CASE TakeResyncMask
      BY <1>a, <2>10 DEF TakeResyncMask, PhasesOrdered
    <2>11. CASE DiscardBacklog
      <3>1. ItemsTagged'
        BY <2>11 DEF DiscardBacklog, ItemsTagged
      <3> QED
        BY <2>11, <3>1 DEF DiscardBacklog, PhasesOrdered
    <2>12. CASE RedumpDone
      BY <1>a, <2>12 DEF RedumpDone, PhasesOrdered
    <2>13. CASE RedumpFails
      BY <1>a, <2>13 DEF RedumpFails, PhasesOrdered
    <2>14. CASE LldpRepairSkips
      BY <1>a, <2>14 DEF LldpRepairSkips, PhasesOrdered
    <2>15. CASE LldpRepairStarts
      BY <1>a, <2>15 DEF LldpRepairStarts, PhasesOrdered
    <2>16. CASE LldpRepairFails
      BY <1>a, <2>16 DEF LldpRepairFails, PhasesOrdered
    <2>17. CASE LldpRepairDone
      BY <1>a, <2>17 DEF LldpRepairDone, PhasesOrdered
    <2>18. ASSUME NEW k \in LldpKeys, ReassertOne(k)
          PROVE  PhasesOrdered'
      <3>1. /\ ItemOf(k, Keepalive) \in Item
            /\ ItemOf(k, Keepalive).src = SourceOf(ItemOf(k, Keepalive).key)
        BY ItemOfType DEF Keys
      <3>2. ItemsTagged'
        BY <1>0, <2>18, <3>1, PushTagged DEF ReassertOne
      <3>3. open /\ phase = "running"
        BY <2>18 DEF ReassertOne, PhasesOrdered
      <3> QED
        BY <2>18, <3>2, <3>3 DEF ReassertOne, PhasesOrdered
    <2> QED
      BY <1>6, <2>1, <2>2, <2>3, <2>4, <2>5, <2>6, <2>7, <2>8, <2>9, <2>10, <2>11, <2>12, <2>13, <2>14, <2>15, <2>16, <2>17, <2>18 DEF Supervision
  <1>7. CASE UNCHANGED vars
    BY <1>a, <1>7 DEF vars, PhasesOrdered
  <1> QED
    BY <1>1, <1>2, <1>3, <1>4, <1>5, <1>6, <1>7 DEF Next

-----------------------------------------------------------------------------
(* What is in transit *)

\* A fact pushed into an open queue settles: it is the newest of its key.
LEMMA PushSettlesOwn ==
    ASSUME TypeOK, open, NEW k \in Keys, NEW v \in Facts, Push(ItemOf(k, v))
    PROVE  Settles(k, v)'
  <1> DEFINE item == ItemOf(k, v)
  <1>1. item \in Item /\ item.key = k /\ item.val = v /\ v # Keepalive
    BY ItemOfType, ValuesDistinct DEF Facts
  <1>2. Sets(item, k)
    BY <1>1 DEF Sets
  <1> HIDE DEF item
  <1>3. PICK t \in Seq(Item) : queue' = Append(t, item)
    <2>1. queue \in Seq(Item)
      BY DEF TypeOK
    <2>2. queue # <<>> => Tail(queue) \in Seq(Item)
      BY <2>1, PopType
    <2>3. Push(item)
      BY DEF item
    <2> QED
      BY <1>1, <2>1, <2>2, <2>3, PushCases
  <1>4. /\ Len(queue') = Len(t) + 1 /\ Len(t) \in Nat
        /\ queue'[Len(t) + 1] = item
    BY <1>1, <1>3
  <1> QED
    BY <1>1, <1>2, <1>4 DEF Settles, Sets

\* Pushing anything else keeps a settled fact settled, or raises the bit of
\* its source.
LEMMA PushKeepsOther ==
    ASSUME TypeOK, ItemsTagged, NEW item \in Item, NEW k \in Keys, NEW v,
           Push(item), ~Sets(item, k), UNCHANGED <<held, model>>,
           Settles(k, v)
    PROVE  Settles(k, v)' \/ SourceOf(k) \in mask'
  <1> queue \in Seq(Item)
    BY DEF TypeOK
  <1>1. CASE ~open /\ UNCHANGED <<queue, mask>>
    BY <1>1 DEF Settles
  <1>2. CASE queue # <<>> /\ queue' = Append(Tail(queue), item)
             /\ mask' = mask \cup {Head(queue).src}
    <2>1. PICK t \in Seq(Item) : t = Tail(queue) /\ queue' = Append(t, item)
      BY <1>2, PopType
    <2>2. Len(t) = Len(queue) - 1 /\ Len(queue) \in Nat \ {0}
          /\ \A i \in 1..(Len(queue) - 1) : t[i] = queue[i + 1]
      BY <1>2, <2>1, PopType
    <2>3. /\ Len(queue') = Len(queue)
          /\ queue'[Len(queue)] = item
          /\ \A i \in 1..(Len(queue) - 1) : queue'[i] = queue[i + 1]
      BY <2>1, <2>2
    <2>4. CASE Sets(queue[1], k)
      <3>1. Head(queue) = queue[1] /\ queue[1].src = SourceOf(k)
        BY <2>2, <2>4, <1>2, PopType DEF ItemsTagged, Sets
      <3> QED
        BY <1>2, <3>1
    <2>5. CASE ~Sets(queue[1], k) /\ \A i \in 1..Len(queue) : ~Sets(queue[i], k)
      <3>1. \A i \in 1..(Len(queue) - 1) : ~Sets(queue'[i], k)
        BY <2>2, <2>3, <2>5 DEF Sets
      <3>2. ~Sets(queue'[Len(queue)], k)
        BY <2>3 DEF Sets
      <3>3. \A i \in 1..Len(queue') : ~Sets(queue'[i], k)
        BY <2>2, <2>3, <3>1, <3>2
      <3> QED
        BY <2>5, <3>3 DEF Settles, Sets
    <2>6. CASE ~Sets(queue[1], k) /\ \E i \in 1..Len(queue) : Sets(queue[i], k)
      <3>1. PICK i \in 1..Len(queue) :
               /\ Sets(queue[i], k) /\ queue[i].val = v
               /\ \A j \in (i + 1)..Len(queue) : ~Sets(queue[j], k)
        BY <2>6 DEF Settles
      <3>0. i # 1
        BY <2>6, <3>1
      <3>2. i # 1 /\ i - 1 \in 1..(Len(queue) - 1) /\ queue'[i - 1] = queue[i]
        <4>1. i - 1 \in 1..(Len(queue) - 1) /\ (i - 1) + 1 = i
          BY <2>2, <3>0
        <4> QED
          BY <2>3, <3>0, <4>1
      <3>3. \A j \in ((i - 1) + 1)..Len(queue') : ~Sets(queue'[j], k)
        <4>1. SUFFICES ASSUME NEW j \in i..Len(queue)
                       PROVE  ~Sets(queue'[j], k)
          BY <2>2, <2>3, <3>2
        <4>2. CASE j = Len(queue)
          BY <2>3, <4>2
        <4>3. CASE j # Len(queue)
          <5>1. j \in 1..(Len(queue) - 1) /\ j + 1 \in (i + 1)..Len(queue)
            BY <2>2, <4>3
          <5>2. queue'[j] = queue[j + 1] /\ ~Sets(queue[j + 1], k)
            BY <2>3, <3>1, <5>1
          <5> QED
            BY <5>2 DEF Sets
        <4> QED
          BY <4>2, <4>3
      <3> QED
        BY <2>2, <2>3, <3>1, <3>2, <3>3 DEF Settles, Sets
    <2> QED
      BY <2>4, <2>5, <2>6
  <1>3. CASE queue' = Append(queue, item)
    <2>1. /\ Len(queue') = Len(queue) + 1 /\ Len(queue) \in Nat
          /\ queue'[Len(queue) + 1] = item
          /\ \A i \in 1..Len(queue) : queue'[i] = queue[i]
      BY <1>3
    <2>2. CASE \A i \in 1..Len(queue) : ~Sets(queue[i], k)
      <3>1. \A i \in 1..Len(queue') : ~Sets(queue'[i], k)
        BY <2>1, <2>2
      <3> QED
        BY <2>2, <3>1 DEF Settles, Sets
    <2>3. CASE \E i \in 1..Len(queue) : Sets(queue[i], k)
      <3>1. PICK i \in 1..Len(queue) :
               /\ Sets(queue[i], k) /\ queue[i].val = v
               /\ \A j \in (i + 1)..Len(queue) : ~Sets(queue[j], k)
        BY <2>3 DEF Settles
      <3>2. \A j \in (i + 1)..Len(queue') : ~Sets(queue'[j], k)
        BY <2>1, <3>1
      <3> QED
        BY <2>1, <3>1, <3>2 DEF Settles, Sets
    <2> QED
      BY <2>2, <2>3
  <1> QED
    BY <1>1, <1>2, <1>3, PushCases

\* Popping moves the head into the consumer's hands: nothing settles
\* differently.
LEMMA PopSettles ==
    ASSUME TypeOK, PhasesOrdered, ConsumerPop, NEW k \in Keys, NEW v, Settles(k, v)
    PROVE  Settles(k, v)'
  <1>1. /\ queue # <<>> /\ queue \in Seq(Item) /\ held = NoItem
        /\ held' = Head(queue) /\ queue' = Tail(queue) /\ model' = model
    BY DEF ConsumerPop, TypeOK, PhasesOrdered
  <1>2. /\ Head(queue) = queue[1] /\ Head(queue) \in Item /\ Head(queue) # NoItem
        /\ Len(queue') = Len(queue) - 1 /\ Len(queue) \in Nat \ {0}
        /\ \A i \in 1..(Len(queue) - 1) : queue'[i] = queue[i + 1]
    BY <1>1, PopType, ItemFields
  <1>3. CASE \A i \in 1..Len(queue) : ~Sets(queue[i], k)
    <2>1. \A i \in 1..Len(queue') : ~Sets(queue'[i], k)
      BY <1>2, <1>3
    <2>2. ~Sets(held', k)
      BY <1>1, <1>2, <1>3
    <2> QED
      BY <1>1, <1>3, <2>1, <2>2 DEF Settles, Sets
  <1>4. CASE \E i \in 1..Len(queue) : Sets(queue[i], k)
    <2>1. PICK i \in 1..Len(queue) :
             /\ Sets(queue[i], k) /\ queue[i].val = v
             /\ \A j \in (i + 1)..Len(queue) : ~Sets(queue[j], k)
      BY <1>4 DEF Settles
    <2>2. CASE i = 1
      <3>1. \A j \in 1..Len(queue') : ~Sets(queue'[j], k)
        BY <1>2, <2>1, <2>2
      <3>2. Sets(held', k) /\ held'.val = v /\ held' # NoItem
        BY <1>1, <1>2, <2>1, <2>2
      <3> QED
        BY <3>1, <3>2 DEF Settles, Sets
    <2>3. CASE i # 1
      <3>1. i - 1 \in 1..Len(queue') /\ queue'[i - 1] = queue[i]
        BY <1>2, <2>3
      <3>2. \A j \in ((i - 1) + 1)..Len(queue') : ~Sets(queue'[j], k)
        <4>1. SUFFICES ASSUME NEW j \in i..(Len(queue) - 1)
                       PROVE  ~Sets(queue'[j], k)
          BY <1>2
        <4>2. j + 1 \in (i + 1)..Len(queue) /\ queue'[j] = queue[j + 1]
          BY <1>2
        <4> QED
          BY <2>1, <4>2
      <3> QED
        BY <2>1, <3>1, <3>2 DEF Settles, Sets
    <2> QED
      BY <2>2, <2>3
  <1> QED
    BY <1>3, <1>4

\* Applying the popped item puts it where Settles counted it.
LEMMA ApplySettles ==
    ASSUME TypeOK, PhasesOrdered, ConsumerApply, NEW k \in Keys, NEW v, Settles(k, v)
    PROVE  Settles(k, v)'
  <1>1. held \in Item /\ held # NoItem /\ held' = NoItem /\ queue' = queue
        /\ held.key \in Keys
    BY ItemFields DEF ConsumerApply, TypeOK, PhasesOrdered
  <1>2. CASE Sets(held, k)
    <2>1. model'[k] = held.val
      BY <1>1, <1>2 DEF ConsumerApply, TypeOK, Sets
    <2> QED
      BY <1>1, <1>2, <2>1 DEF Settles, Sets
  <1>3. CASE ~Sets(held, k)
    <2>1. model'[k] = model[k]
      BY <1>1, <1>3 DEF ConsumerApply, TypeOK, Sets
    <2> QED
      BY <1>1, <1>3, <2>1 DEF Settles, Sets
  <1> QED
    BY <1>2, <1>3

-----------------------------------------------------------------------------
(* Loss accounting *)

\* A step that leaves the queue, the consumer's item and the model alone
\* settles nothing differently.
LEMMA SettlesFrame ==
    ASSUME NEW k, UNCHANGED <<queue, held, model>>, reported'[k] = reported[k],
           Settles(k, reported[k])
    PROVE  Settles(k, reported[k])'
  BY DEF Settles

\* Handing over fact j into an open queue: j settles, and any other fact
\* stays settled or has its source's bit raised.
LEMMA HandSettles ==
    ASSUME TypeOK, ItemsTagged, open, NEW j \in Keys, NEW v \in Facts, Hand(j, v),
           UNCHANGED <<held, model>>, NEW k \in Keys,
           k # j => Settles(k, reported[k]) \/ SourceOf(k) \in mask
    PROVE  Settles(k, reported[k])' \/ SourceOf(k) \in mask'
  <1> DEFINE item == ItemOf(j, v)
  <1>1. item \in Item /\ item.key = j /\ Push(item)
    BY ItemOfType DEF Hand
  <1>2. CASE k = j
    <2>1. Settles(j, v)'
      BY <1>1, PushSettlesOwn
    <2>2. reported'[k] = v
      BY <1>2 DEF Hand, TypeOK
    <2> QED
      BY <1>2, <2>1, <2>2 DEF Settles
  <1>3. CASE k # j
    <2>1. reported'[k] = reported[k]
      BY <1>3 DEF Hand, TypeOK
    <2>2. ~Sets(item, k)
      BY <1>1, <1>3 DEF Sets
    <2>3. mask \subseteq mask'
      BY <1>1, PushCases
    <2>4. CASE SourceOf(k) \in mask
      BY <2>3, <2>4
    <2>5. CASE Settles(k, reported[k])
      <3>1. Settles(k, reported[k]) => (\E w : w = reported[k] /\ Settles(k, w))
        OBVIOUS
      <3>2. PICK w : w = reported[k] /\ Settles(k, w)
        BY <2>5, <3>1
      <3>3. Settles(k, w)' \/ SourceOf(k) \in mask'
        BY <1>1, <2>2, <3>2, PushKeepsOther
      <3> QED
        BY <2>1, <3>2, <3>3 DEF Settles
    <2> QED
      BY <1>3, <2>4, <2>5
  <1> QED
    BY <1>2, <1>3

\* The mask only grows under push().
LEMMA PushMask ==
    ASSUME TypeOK, NEW item \in Item, Push(item)
    PROVE  mask \subseteq mask'
  BY PushCases

\* NetlinkLossAccounted is preserved, fact by fact, by every step.
LEMMA NetlinkFactStep ==
    ASSUME TypeOK, PhasesOrdered, NEW k \in NetKeys, [Next]_vars,
           Accounted(k, NetlinkOwed(k))
    PROVE  Accounted(k, NetlinkOwed(k))'
  <1> USE DEF Accounted
  <1>k. k \in Keys /\ SourceOf(k) = Netlink /\ k \notin LldpKeys
    BY KeysDisjoint DEF Keys, SourceOf
  <1>t. ItemsTagged
    BY DEF PhasesOrdered
  <1>f. ASSUME UNCHANGED <<queue, held, model>>, reported'[k] = reported[k],
               Settles(k, reported[k])
        PROVE  Settles(k, reported[k])'
    BY <1>f, SettlesFrame
  <1>h. ASSUME NEW j \in Keys, NEW v \in Facts, Hand(j, v), open,
               UNCHANGED <<held, model, tick, taken, consumer>>, todo' = todo \/ todo' = todo \ {j}
        PROVE  Accounted(k, NetlinkOwed(k))'
    <2>1. CASE k # j => Settles(k, reported[k]) \/ Netlink \in mask
      <3>1. Settles(k, reported[k])' \/ Netlink \in mask'
        BY <1>k, <1>t, <1>h, <2>1, HandSettles
      <3> QED
        BY <3>1 DEF NetlinkOwed
    <2>2. CASE k # j /\ ~(Settles(k, reported[k]) \/ Netlink \in mask)
      <3>1. reported'[k] = reported[k]
        BY <1>h, <1>k, <2>2 DEF Hand, TypeOK
      <3> QED
        BY <1>h, <2>2, <3>1 DEF NetlinkOwed
    <2> QED
      BY <2>1, <2>2
  <1>1. CASE Producers
    <2>1. ASSUME NEW j \in NetKeys, NEW v \in Facts, NetlinkReport(j, v)
          PROVE  Accounted(k, NetlinkOwed(k))'
      <3>1. open /\ j \in Keys
        BY <2>1 DEF NetlinkReport, PhasesOrdered, Keys
      <3> QED
        BY <1>h, <2>1, <3>1 DEF NetlinkReport
    <2>2. ASSUME NEW j \in LldpKeys, NEW v \in Facts, LldpReport(j, v)
          PROVE  Accounted(k, NetlinkOwed(k))'
      <3>1. open /\ j \in Keys
        BY <2>2 DEF LldpReport, PhasesOrdered, Keys
      <3> QED
        BY <1>h, <2>2, <3>1 DEF LldpReport
    <2> QED
      BY <1>1, <2>1, <2>2 DEF Producers
  <1>2. CASE Consumer
    <2>0. ASSUME reported' = reported,
                 \A w : Settles(k, w) => Settles(k, w)',
                 NetlinkOwed(k) => NetlinkOwed(k)', consumer # "failed"
          PROVE  Accounted(k, NetlinkOwed(k))'
      <3>1. PICK w : w = reported[k]
        OBVIOUS
      <3>2. Settles(k, reported[k]) => Settles(k, w)
        BY <3>1
      <3>3. Settles(k, w)' => Settles(k, reported[k])'
        BY <2>0, <3>1 DEF Settles
      <3> QED
        BY <2>0, <3>2, <3>3
    <2>1. CASE ConsumerPop
      <3>1. \A w : Settles(k, w) => Settles(k, w)'
        BY <1>k, <2>1, PopSettles
      <3> QED
        BY <2>0, <2>1, <3>1 DEF ConsumerPop, NetlinkOwed
    <2>2. CASE ConsumerApply
      <3>1. \A w : Settles(k, w) => Settles(k, w)'
        BY <1>k, <2>2, ApplySettles
      <3> QED
        BY <2>0, <2>2, <3>1 DEF ConsumerApply, NetlinkOwed
    <2>3. CASE ConsumerThrows
      BY <2>3 DEF ConsumerThrows
    <2>4. CASE ConsumerExit
      BY <1>f, <2>4 DEF ConsumerExit, NetlinkOwed
    <2> QED
      BY <1>2, <2>1, <2>2, <2>3, <2>4 DEF Consumer
  <1>3. CASE Walk
    <2>1. ASSUME NEW j \in Keys, NEW v \in Vals, WalkFinds(j, v)
          PROVE  Accounted(k, NetlinkOwed(k))'
      <3>1. open /\ v \in Facts
        BY <2>1 DEF WalkFinds, PhasesOrdered, WalksLldp, WalksNetlink, Facts
      <3> QED
        BY <1>h, <2>1, <3>1 DEF WalkFinds
    <2>2. ASSUME NEW j \in NetKeys, DumpMisses(j)
          PROVE  Accounted(k, NetlinkOwed(k))'
      <3>1. CASE k = j
        BY <1>k, <2>2, <3>1 DEF DumpMisses, TypeOK
      <3>2. CASE k # j
        <4>1. reported'[k] = reported[k]
          BY <1>k, <2>2, <3>2 DEF DumpMisses, TypeOK
        <4> QED
          BY <1>f, <2>2, <3>2, <4>1 DEF DumpMisses, NetlinkOwed
      <3> QED
        BY <3>1, <3>2
    <2>3. ASSUME NEW j \in LldpKeys, EnumerationMisses(j)
          PROVE  Accounted(k, NetlinkOwed(k))'
      <3>1. open /\ j \in Keys /\ Absent \in Facts
        BY <2>3 DEF EnumerationMisses, PhasesOrdered, WalksLldp, Keys, Facts
      <3>2. CASE Hand(j, Absent)
        BY <1>h, <2>3, <3>1, <3>2 DEF EnumerationMisses
      <3>3. CASE reported[j] = Absent /\ UNCHANGED <<queue, mask, reported>>
        BY <1>f, <2>3, <3>3 DEF EnumerationMisses, NetlinkOwed
      <3> QED
        BY <2>3, <3>2, <3>3 DEF EnumerationMisses
    <2> QED
      BY <1>3, <2>1, <2>2, <2>3 DEF Walk
  <1>4. CASE StartCall \/ StopCall
    <2>1. CASE StartCall
      <3>1. reported'[k] = Absent
        BY <1>k, <2>1 DEF StartCall, StartConsumer, StartConsumerFails, PhasesOrdered
      <3> QED
        BY <3>1
    <2>2. CASE StopCall
      BY <1>f, <2>2 DEF StopCall, StopMonitor, NetlinkOwed
    <2> QED
      BY <1>4, <2>1, <2>2
  <1>5. CASE Lifecycle
    <2>1. CASE StartLldp
      BY <1>f, <2>1 DEF StartLldp, NetlinkOwed, PhasesOrdered
    <2>2. CASE StartLldpFails
      BY <1>f, <2>2 DEF StartLldpFails, NetlinkOwed, PhasesOrdered
    <2>3. CASE StartLldpDone
      BY <1>f, <2>3 DEF StartLldpDone, NetlinkOwed, PhasesOrdered
    <2>4. CASE StartMonitor
      BY <1>f, <2>4 DEF StartMonitor, NetlinkOwed, PhasesOrdered
    <2>5. CASE StartMonitorFails
      BY <1>k, <2>5 DEF StartMonitorFails, Forget
    <2>6. CASE StartDone
      BY <1>f, <2>6 DEF StartDone, NetlinkOwed, PhasesOrdered
    <2>7. CASE StopLldp
      BY <1>f, <2>7 DEF StopLldp, NetlinkOwed, PhasesOrdered
    <2>8. CASE CloseQueue
      BY <1>f, <2>8 DEF CloseQueue, NetlinkOwed, PhasesOrdered
    <2>9. CASE JoinConsumer
      BY <1>k, <2>9 DEF JoinConsumer, Forget
    <2> QED
      BY <1>5, <2>1, <2>2, <2>3, <2>4, <2>5, <2>6, <2>7, <2>8, <2>9 DEF Lifecycle
  <1>6. CASE Supervision
    <2>1. CASE SuperviseNothing
      BY <1>f, <1>k, <2>1 DEF SuperviseNothing, NetlinkOwed, Netlink, Lldp, PhasesOrdered
    <2>2. CASE SuperviseReconnects
      BY <1>f, <1>k, <2>2 DEF SuperviseReconnects, NetlinkOwed, Netlink, Lldp, PhasesOrdered
    <2>3. CASE SuperviseDrops
      <3>1. reported'[k] = reported[k]
        BY <1>k, <2>3 DEF SuperviseDrops, Forget, TypeOK
      <3> QED
        BY <1>f, <2>3, <3>1 DEF SuperviseDrops, NetlinkOwed, Netlink, Lldp
    <2>4. CASE SuperviseReplaces
      <3>1. reported'[k] = reported[k]
        BY <1>k, <2>4 DEF SuperviseReplaces, Forget, TypeOK
      <3> QED
        BY <1>f, <2>4, <3>1 DEF SuperviseReplaces, NetlinkOwed, Netlink, Lldp
    <2>5. CASE SuperviseAcquires
      BY <1>f, <1>k, <2>5 DEF SuperviseAcquires, NetlinkOwed, Netlink, Lldp, PhasesOrdered
    <2>6. CASE SuperviseDone
      BY <1>f, <1>k, <2>6 DEF SuperviseDone, NetlinkOwed, Netlink, Lldp, PhasesOrdered
    <2>7. CASE ReassertSkips
      BY <1>f, <1>k, <2>7 DEF ReassertSkips, NetlinkOwed, Netlink, Lldp, PhasesOrdered
    <2>8. CASE ReassertStarts
      BY <1>f, <1>k, <2>8 DEF ReassertStarts, NetlinkOwed, Netlink, Lldp, PhasesOrdered
    <2>9. CASE ReassertDone
      BY <1>f, <1>k, <2>9 DEF ReassertDone, NetlinkOwed, Netlink, Lldp, PhasesOrdered
    <2>10. CASE TakeResyncMask
      BY <1>f, <1>k, <2>10 DEF TakeResyncMask, NetlinkOwed, Netlink, Lldp, PhasesOrdered
    <2>11. CASE RedumpDone
      BY <1>f, <1>k, <2>11 DEF RedumpDone, NetlinkOwed, Netlink, Lldp, PhasesOrdered
    <2>12. CASE RedumpFails
      BY <1>f, <1>k, <2>12 DEF RedumpFails, NetlinkOwed, Netlink, Lldp, PhasesOrdered
    <2>13. CASE LldpRepairSkips
      BY <1>f, <1>k, <2>13 DEF LldpRepairSkips, NetlinkOwed, Netlink, Lldp, PhasesOrdered
    <2>14. CASE LldpRepairStarts
      BY <1>f, <1>k, <2>14 DEF LldpRepairStarts, NetlinkOwed, Netlink, Lldp, PhasesOrdered
    <2>15. CASE LldpRepairFails
      BY <1>f, <1>k, <2>15 DEF LldpRepairFails, NetlinkOwed, Netlink, Lldp, PhasesOrdered
    <2>16. CASE LldpRepairDone
      BY <1>f, <1>k, <2>16 DEF LldpRepairDone, NetlinkOwed, Netlink, Lldp, PhasesOrdered
    <2>17. CASE DiscardBacklog
      BY <2>17 DEF DiscardBacklog, NetlinkOwed
    <2>18. ASSUME NEW j \in LldpKeys, ReassertOne(j)
          PROVE  Accounted(k, NetlinkOwed(k))'
      <3> DEFINE item == ItemOf(j, Keepalive)
      <3>1. item \in Item /\ ~Sets(item, k) /\ Push(item) /\ reported' = reported
            /\ UNCHANGED <<held, model>>
        BY <2>18, ItemOfType DEF ReassertOne, Keys, Sets
      <3>2. mask \subseteq mask'
        BY <3>1, PushMask
      <3>3. PICK w : w = reported[k]
        OBVIOUS
      <3>4. Settles(k, w) => Settles(k, w)' \/ Netlink \in mask'
        BY <1>k, <1>t, <3>1, PushKeepsOther
      <3>5. Settles(k, reported[k]) => Settles(k, reported[k])' \/ Netlink \in mask'
        BY <3>1, <3>3, <3>4 DEF Settles
      <3> QED
        BY <2>18, <3>1, <3>2, <3>5 DEF ReassertOne, NetlinkOwed
    <2> QED
      BY <1>6, <2>1, <2>2, <2>3, <2>4, <2>5, <2>6, <2>7, <2>8, <2>9, <2>10, <2>11, <2>12, <2>13, <2>14, <2>15, <2>16, <2>17, <2>18 DEF Supervision
  <1>7. CASE UNCHANGED vars
    BY <1>f, <1>7 DEF vars, NetlinkOwed
  <1> QED
    BY <1>1, <1>2, <1>3, <1>4, <1>5, <1>6, <1>7 DEF Next

\* LldpLossAccounted is preserved by every step but the netlink-only discard.
LEMMA LldpFactStep ==
    ASSUME TypeOK, PhasesOrdered, NEW k \in LldpKeys, [Next]_vars,
           Accounted(k, LldpOwed(k)),
           ~(tick = "discard" /\ tick' = "redump" /\ Lldp \notin taken)
    PROVE  Accounted(k, LldpOwed(k))'
  <1> USE DEF Accounted
  <1>k. k \in Keys /\ SourceOf(k) = Lldp /\ k \notin NetKeys
    BY KeysDisjoint DEF Keys, SourceOf
  <1>t. ItemsTagged
    BY DEF PhasesOrdered
  <1>f. ASSUME UNCHANGED <<queue, held, model>>, reported'[k] = reported[k],
               Settles(k, reported[k])
        PROVE  Settles(k, reported[k])'
    BY <1>f, SettlesFrame
  <1>h. ASSUME NEW j \in Keys, NEW v \in Facts, Hand(j, v), open,
               UNCHANGED <<held, model, tick, taken, consumer>>, todo' = todo \/ todo' = todo \ {j}
        PROVE  Accounted(k, LldpOwed(k))'
    <2>1. CASE k # j => Settles(k, reported[k]) \/ Lldp \in mask
      <3>1. Settles(k, reported[k])' \/ Lldp \in mask'
        BY <1>k, <1>t, <1>h, <2>1, HandSettles
      <3> QED
        BY <3>1 DEF LldpOwed
    <2>2. CASE k # j /\ ~(Settles(k, reported[k]) \/ Lldp \in mask)
      <3>1. reported'[k] = reported[k]
        BY <1>h, <1>k, <2>2 DEF Hand, TypeOK
      <3> QED
        BY <1>h, <2>2, <3>1 DEF LldpOwed
    <2> QED
      BY <2>1, <2>2
  <1>1. CASE Producers
    <2>1. ASSUME NEW j \in NetKeys, NEW v \in Facts, NetlinkReport(j, v)
          PROVE  Accounted(k, LldpOwed(k))'
      <3>1. open /\ j \in Keys
        BY <2>1 DEF NetlinkReport, PhasesOrdered, Keys
      <3> QED
        BY <1>h, <2>1, <3>1 DEF NetlinkReport
    <2>2. ASSUME NEW j \in LldpKeys, NEW v \in Facts, LldpReport(j, v)
          PROVE  Accounted(k, LldpOwed(k))'
      <3>1. open /\ j \in Keys
        BY <2>2 DEF LldpReport, PhasesOrdered, Keys
      <3> QED
        BY <1>h, <2>2, <3>1 DEF LldpReport
    <2> QED
      BY <1>1, <2>1, <2>2 DEF Producers
  <1>2. CASE Consumer
    <2>0. ASSUME reported' = reported,
                 \A w : Settles(k, w) => Settles(k, w)',
                 LldpOwed(k) => LldpOwed(k)', consumer # "failed"
          PROVE  Accounted(k, LldpOwed(k))'
      <3>1. PICK w : w = reported[k]
        OBVIOUS
      <3>2. Settles(k, reported[k]) => Settles(k, w)
        BY <3>1
      <3>3. Settles(k, w)' => Settles(k, reported[k])'
        BY <2>0, <3>1 DEF Settles
      <3> QED
        BY <2>0, <3>2, <3>3
    <2>1. CASE ConsumerPop
      <3>1. \A w : Settles(k, w) => Settles(k, w)'
        BY <1>k, <2>1, PopSettles
      <3> QED
        BY <2>0, <2>1, <3>1 DEF ConsumerPop, LldpOwed
    <2>2. CASE ConsumerApply
      <3>1. \A w : Settles(k, w) => Settles(k, w)'
        BY <1>k, <2>2, ApplySettles
      <3> QED
        BY <2>0, <2>2, <3>1 DEF ConsumerApply, LldpOwed
    <2>3. CASE ConsumerThrows
      BY <2>3 DEF ConsumerThrows
    <2>4. CASE ConsumerExit
      BY <1>f, <2>4 DEF ConsumerExit, LldpOwed
    <2> QED
      BY <1>2, <2>1, <2>2, <2>3, <2>4 DEF Consumer
  <1>3. CASE Walk
    <2>1. ASSUME NEW j \in Keys, NEW v \in Vals, WalkFinds(j, v)
          PROVE  Accounted(k, LldpOwed(k))'
      <3>1. open /\ v \in Facts
        BY <2>1 DEF WalkFinds, PhasesOrdered, WalksLldp, WalksNetlink, Facts
      <3> QED
        BY <1>h, <2>1, <3>1 DEF WalkFinds
    <2>2. ASSUME NEW j \in NetKeys, DumpMisses(j)
          PROVE  Accounted(k, LldpOwed(k))'
      <3>1. CASE k = j
        BY <1>k, <2>2, <3>1 DEF DumpMisses, TypeOK
      <3>2. CASE k # j
        <4>1. reported'[k] = reported[k]
          BY <1>k, <2>2, <3>2 DEF DumpMisses, TypeOK
        <4> QED
          BY <1>f, <2>2, <3>2, <4>1 DEF DumpMisses, LldpOwed
      <3> QED
        BY <3>1, <3>2
    <2>3. ASSUME NEW j \in LldpKeys, EnumerationMisses(j)
          PROVE  Accounted(k, LldpOwed(k))'
      <3>1. open /\ j \in Keys /\ Absent \in Facts
        BY <2>3 DEF EnumerationMisses, PhasesOrdered, WalksLldp, Keys, Facts
      <3>2. CASE Hand(j, Absent)
        BY <1>h, <2>3, <3>1, <3>2 DEF EnumerationMisses
      <3>3. CASE reported[j] = Absent /\ UNCHANGED <<queue, mask, reported>>
        BY <1>f, <2>3, <3>3 DEF EnumerationMisses, LldpOwed
      <3> QED
        BY <2>3, <3>2, <3>3 DEF EnumerationMisses
    <2> QED
      BY <1>3, <2>1, <2>2, <2>3 DEF Walk
  <1>4. CASE StartCall \/ StopCall
    <2>1. CASE StartCall
      <3>1. reported'[k] = Absent
        BY <1>k, <2>1 DEF StartCall, StartConsumer, StartConsumerFails, PhasesOrdered
      <3> QED
        BY <3>1
    <2>2. CASE StopCall
      BY <1>f, <2>2 DEF StopCall, StopMonitor, LldpOwed
    <2> QED
      BY <1>4, <2>1, <2>2
  <1>5. CASE Lifecycle
    <2>1. CASE StartLldp
      BY <1>f, <2>1 DEF StartLldp, LldpOwed, PhasesOrdered
    <2>2. CASE StartLldpFails
      BY <1>f, <2>2 DEF StartLldpFails, LldpOwed, PhasesOrdered
    <2>3. CASE StartLldpDone
      BY <1>f, <2>3 DEF StartLldpDone, LldpOwed, PhasesOrdered
    <2>4. CASE StartMonitor
      BY <1>f, <2>4 DEF StartMonitor, LldpOwed, PhasesOrdered
    <2>5. CASE StartMonitorFails
      <3>1. reported'[k] = reported[k]
        BY <1>k, <2>5 DEF StartMonitorFails, Forget, TypeOK
      <3> QED
        BY <1>f, <2>5, <3>1 DEF StartMonitorFails, LldpOwed, PhasesOrdered
    <2>6. CASE StartDone
      BY <1>f, <2>6 DEF StartDone, LldpOwed, PhasesOrdered
    <2>7. CASE StopLldp
      BY <1>f, <2>7 DEF StopLldp, LldpOwed, PhasesOrdered
    <2>8. CASE CloseQueue
      BY <1>f, <2>8 DEF CloseQueue, LldpOwed, PhasesOrdered
    <2>9. CASE JoinConsumer
      BY <1>k, <2>9 DEF JoinConsumer, Forget
    <2> QED
      BY <1>5, <2>1, <2>2, <2>3, <2>4, <2>5, <2>6, <2>7, <2>8, <2>9 DEF Lifecycle
  <1>6. CASE Supervision
    <2>1. CASE SuperviseNothing
      BY <1>f, <1>k, <2>1 DEF SuperviseNothing, LldpOwed, Netlink, Lldp, PhasesOrdered
    <2>2. CASE SuperviseReconnects
      BY <1>f, <1>k, <2>2 DEF SuperviseReconnects, LldpOwed, Netlink, Lldp, PhasesOrdered
    <2>3. CASE SuperviseDrops
      BY <1>k, <2>3 DEF SuperviseDrops, Forget
    <2>4. CASE SuperviseReplaces
      BY <1>k, <2>4 DEF SuperviseReplaces, Forget
    <2>5. CASE SuperviseAcquires
      BY <1>f, <1>k, <2>5 DEF SuperviseAcquires, LldpOwed, Netlink, Lldp, PhasesOrdered
    <2>6. CASE SuperviseDone
      BY <1>f, <1>k, <2>6 DEF SuperviseDone, LldpOwed, Netlink, Lldp, PhasesOrdered
    <2>7. CASE ReassertSkips
      BY <1>f, <1>k, <2>7 DEF ReassertSkips, LldpOwed, Netlink, Lldp, PhasesOrdered
    <2>8. CASE ReassertStarts
      BY <1>f, <1>k, <2>8 DEF ReassertStarts, LldpOwed, Netlink, Lldp, PhasesOrdered
    <2>9. CASE ReassertDone
      BY <1>f, <1>k, <2>9 DEF ReassertDone, LldpOwed, Netlink, Lldp, PhasesOrdered
    <2>10. CASE TakeResyncMask
      BY <1>f, <1>k, <2>10 DEF TakeResyncMask, LldpOwed, Netlink, Lldp, PhasesOrdered
    <2>11. CASE RedumpDone
      BY <1>f, <1>k, <2>11 DEF RedumpDone, LldpOwed, Netlink, Lldp, PhasesOrdered
    <2>12. CASE RedumpFails
      BY <1>f, <1>k, <2>12 DEF RedumpFails, LldpOwed, Netlink, Lldp, PhasesOrdered
    <2>13. CASE LldpRepairSkips
      BY <1>f, <1>k, <2>13 DEF LldpRepairSkips, LldpOwed, Netlink, Lldp, PhasesOrdered
    <2>14. CASE LldpRepairStarts
      BY <1>f, <1>k, <2>14 DEF LldpRepairStarts, LldpOwed, Netlink, Lldp, PhasesOrdered
    <2>15. CASE LldpRepairFails
      BY <1>f, <1>k, <2>15 DEF LldpRepairFails, LldpOwed, Netlink, Lldp, PhasesOrdered
    <2>16. CASE LldpRepairDone
      BY <1>f, <1>k, <2>16 DEF LldpRepairDone, LldpOwed, Netlink, Lldp, PhasesOrdered
    <2>17. CASE DiscardBacklog
      BY <2>17 DEF DiscardBacklog, LldpOwed
    <2>18. ASSUME NEW j \in LldpKeys, ReassertOne(j)
          PROVE  Accounted(k, LldpOwed(k))'
      <3> DEFINE item == ItemOf(j, Keepalive)
      <3>1. item \in Item /\ ~Sets(item, k) /\ Push(item) /\ reported' = reported
            /\ UNCHANGED <<held, model>>
        BY <2>18, ItemOfType DEF ReassertOne, Keys, Sets
      <3>2. mask \subseteq mask'
        BY <3>1, PushMask
      <3>3. PICK w : w = reported[k]
        OBVIOUS
      <3>4. Settles(k, w) => Settles(k, w)' \/ Lldp \in mask'
        BY <1>k, <1>t, <3>1, PushKeepsOther
      <3>5. Settles(k, reported[k]) => Settles(k, reported[k])' \/ Lldp \in mask'
        BY <3>1, <3>3, <3>4 DEF Settles
      <3> QED
        BY <2>18, <3>1, <3>2, <3>5 DEF ReassertOne, LldpOwed
    <2> QED
      BY <1>6, <2>1, <2>2, <2>3, <2>4, <2>5, <2>6, <2>7, <2>8, <2>9, <2>10, <2>11, <2>12, <2>13, <2>14, <2>15, <2>16, <2>17, <2>18 DEF Supervision
  <1>7. CASE UNCHANGED vars
    BY <1>f, <1>7 DEF vars, LldpOwed
  <1> QED
    BY <1>1, <1>2, <1>3, <1>4, <1>5, <1>6, <1>7 DEF Next

\* The inductive invariant: NetlinkLossAccounted needs to know that a walk's
\* keys are the netlink ones, that ticks run only between start() and stop(),
\* and that every item carries its own source's tag.
Inv == TypeOK /\ PhasesOrdered /\ NetlinkLossAccounted

\* Every reachable state satisfies the inductive invariant.
LEMMA InvInductive == Spec => []Inv
  <1>1. Init => Inv
    <2> SUFFICES ASSUME Init PROVE Inv
      OBVIOUS
    <2>1. TypeOK
      BY EmptyQueue DEF Init, TypeOK, Phases, Ticks, Facts
    <2>2. ItemsTagged
      BY DEF Init, ItemsTagged
    <2>3. PhasesOrdered
      BY <2>2 DEF Init, PhasesOrdered, WalksLldp, WalksNetlink, Keys
    <2>4. NetlinkLossAccounted
      BY DEF Init, NetlinkLossAccounted, Accounted, Keys
    <2> QED
      BY <2>1, <2>3, <2>4 DEF Inv
  <1>2. Inv /\ [Next]_vars => Inv'
    <2> SUFFICES ASSUME Inv, [Next]_vars PROVE Inv'
      OBVIOUS
    <2>1. TypeOK' /\ PhasesOrdered'
      BY TypeStep, PhasesStep DEF Inv
    <2>2. ASSUME NEW k \in NetKeys
          PROVE  Accounted(k, NetlinkOwed(k))'
      BY NetlinkFactStep DEF Inv, NetlinkLossAccounted
    <2> QED
      BY <2>1, <2>2 DEF Inv, NetlinkLossAccounted
  <1> QED
    BY <1>1, <1>2, PTL DEF Spec

\* A present netlink fact is never lost without its repair being owed, for
\* every capacity, number of facts and history of drops, discards, failed
\* redumps and restarts.
THEOREM NetlinkLossesAreAccounted == Spec => []NetlinkLossAccounted
  <1>1. Inv => NetlinkLossAccounted
    BY DEF Inv
  <1> QED
    BY <1>1, InvInductive, PTL

\* start() and stop() keep their order: what each of their phases relies on
\* holds when it is reached.
THEOREM PhasesAreOrdered == Spec => []PhasesOrdered
  <1>1. Inv => PhasesOrdered
    BY DEF Inv
  <1> QED
    BY <1>1, InvInductive, PTL

\* No producer is alive when stop() closes the queue.
THEOREM SilenceBeforeClose == Spec => []ClosedMeansSilent
  <1>1. PhasesOrdered => ClosedMeansSilent
    BY DEF PhasesOrdered, ClosedMeansSilent
  <1> QED
    BY <1>1, PhasesAreOrdered, PTL

\* When a healthy consumer leaves, every netlink fact the monitor reported
\* is in the model, unless its repair was still owed or, where the requested
\* stop token ends waitPop(), it was left in the queue.
THEOREM ShutdownIsLossless == Spec => []ShutdownDelivers
  <1>1. Inv => ShutdownDelivers
    <2> SUFFICES ASSUME Inv, phase = "join", consumer = "exited",
                        NEW k \in NetKeys, reported[k] # Absent
                 PROVE  model[k] = reported[k] \/ Netlink \in mask \/ LeftBehind(k)
      BY DEF ShutdownDelivers
    <2>1. held = NoItem /\ tick = "idle" /\ (queue = <<>> \/ TokenEndsWait)
      BY DEF Inv, PhasesOrdered
    <2>2. Settles(k, reported[k]) \/ Netlink \in mask
      BY <2>1 DEF Inv, NetlinkLossAccounted, Accounted, NetlinkOwed
    <2>3. CASE queue = <<>>
      BY <2>1, <2>2, <2>3 DEF Settles
    <2>4. CASE queue # <<>>
      BY <2>1, <2>2, <2>4 DEF LeftBehind
    <2> QED
      BY <2>3, <2>4
  <1> QED
    BY <1>1, InvInductive, PTL

\* Where only a drained queue ends the wait, nothing is left behind: the
\* comment of observationLoop holds in its own reading.
THEOREM QueuedIsDeliveredWhenDrained ==
    ASSUME ~TokenEndsWait
    PROVE  Spec => []QueuedIsDelivered
  <1>1. Inv => QueuedIsDelivered
    BY DEF Inv, PhasesOrdered, QueuedIsDelivered
  <1> QED
    BY <1>1, InvInductive, PTL

\* Only the backlog discard of a netlink-only resync can lose an LLDP fact
\* unaccounted.
THEOREM LldpIsLostOnlyByDiscard == Spec => LldpLostOnlyByDiscard
  <1>1. Inv /\ [Next]_vars =>
          [LldpLossAccounted =>
             \/ LldpLossAccounted'
             \/ tick = "discard" /\ tick' = "redump" /\ Lldp \notin taken]_vars
    <2> SUFFICES ASSUME Inv, [Next]_vars, LldpLossAccounted,
                        ~(tick = "discard" /\ tick' = "redump" /\ Lldp \notin taken)
                 PROVE  LldpLossAccounted'
      OBVIOUS
    <2>1. ASSUME NEW k \in LldpKeys
          PROVE  Accounted(k, LldpOwed(k))'
      BY LldpFactStep DEF Inv, LldpLossAccounted
    <2> QED
      BY <2>1 DEF LldpLossAccounted
  <1> QED
    BY <1>1, InvInductive, PTL DEF Spec, LldpLostOnlyByDiscard
=============================================================================
