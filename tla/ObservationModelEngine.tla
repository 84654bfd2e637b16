------------------------ MODULE ObservationModelEngine ------------------------
(***************************************************************************)
(* ObservationModelEngine: correlates observations into remote candidates, *)
(* one per MAC, and tells its event sink what changed; and the path of     *)
(* that news to a client: ObservationService::onModelEvent marks the       *)
(* PublicationQueue, the publication worker turns marks into signals, and  *)
(* a client that receives a signal queries the candidate again.            *)
(*                                                                         *)
(* Every handler changes the model under the engine's mutex and delivers   *)
(* its events after it released it, so what two threads deliver may        *)
(* arrive in another order than their changes.  The threads are the        *)
(* observation consumer and "service": the thread in start(), and once it  *)
(* returned the aging worker.                                              *)
(*                                                                         *)
(* Interfaces, MACs and IPs here are those that pass the interface policy  *)
(* and the static rules of HardFilter; the local-MAC and local-IP rules    *)
(* are modelled.  The classifier is the default RuleBasedClassifier.       *)
(***************************************************************************)
EXTENDS LocalStateTracker

CONSTANTS
    Ips,          \* addresses of neighbour entries
    Ports,        \* bridge ports
    LinkMacs,     \* MACs the host's own interfaces may carry
    LldpMacs,     \* MACs LLDP neighbours identify themselves with
    LldpIds,      \* chassis id, port id and system name, as one value
    NoPort,       \* bridgePort not set
    NoLldp,       \* not seen in LLDP: no ids
    NoCandidate,  \* no entry in candidates_
    Hidden,       \* a query finds nothing
    MaxRestarts   \* bound: start() calls per behaviour

ASSUME MacRoles == LinkMacs \subseteq Macs /\ LldpMacs \subseteq Macs
ASSUME EngineDistinct == NoPort \notin Ports /\ NoLldp \notin LldpIds
ASSUME RestartsNat == MaxRestarts \in Nat

VARIABLES
    phase,       \* phase_
    candidates,  \* candidates_
    life,        \* where start()/stop() of the service is
    pending,     \* PendingEvents a thread collected and has not delivered
    marks,       \* PublicationQueue: latest intent per MAC
    signals,     \* MACs of candidate signals on their way to the client
    client,      \* what the client's last query of each MAC returned
    quiet,       \* history: MACs a keepalive changed without an event since
                 \* the client's last query
    restarts

engineVars == <<phase, candidates, life, pending, marks, signals, client, quiet, restarts>>
vars == <<localVars, engineVars>>

Threads == {"consumer", "service"}
Nothing == [changed |-> {}, removed |-> {}]

-----------------------------------------------------------------------------
(* Candidates *)

Candidate == [neigh : SUBSET (Ifaces \X Ips), ips : SUBSET Ips, fdb : SUBSET Ports,
              bridgePort : Ports \cup {NoPort}, lldp : LldpIds \cup {NoLldp},
              neighborIfaces : SUBSET Ifaces,
              class : {"Unknown", "WeakCandidate", "RemoteEndpoint", "TopologyPeer", "LocalSelf"},
              status : {"Provisional", "Confirmed", "Aged", "Expired", "Removed"},
              idle : 0..2]

\* Absence is told apart from every candidate.
ASSUME NoCandidateIsNone == NoCandidate \notin Candidate

\* getOrCreateCandidate's new entry.
Fresh == [neigh |-> {}, ips |-> {}, fdb |-> {}, bridgePort |-> NoPort,
          lldp |-> NoLldp, neighborIfaces |-> {}, class |-> "Unknown", status |-> "Provisional", idle |-> 0]

Entry(m) == IF candidates[m] = NoCandidate THEN Fresh ELSE candidates[m]

SeenInLldp(c) == c.lldp # NoLldp

HasNoEvidence(c) ==
    c.neigh = {} /\ c.fdb = {} /\ ~SeenInLldp(c) /\ c.ips = {} /\ c.bridgePort = NoPort

IsConfirmedWorthy(class) == class \in {"RemoteEndpoint", "GatewayLike", "TopologyPeer"}

IsPublishable(c) ==
    /\ c # NoCandidate
    /\ c.status \in {"Confirmed", "Aged"}
    /\ c.class \notin {"Artifact", "LocalSelf", "Unknown"}

\* RuleBasedClassifier::classify.
Classify(c) ==
    CASE SeenInLldp(c) -> "TopologyPeer"
      [] ~SeenInLldp(c) /\ (c.fdb # {} \/ (c.ips # {} /\ c.neigh # {})) -> "RemoteEndpoint"
      [] ~SeenInLldp(c) /\ c.fdb = {} /\ c.ips = {} /\ c.neigh # {} -> "WeakCandidate"
      [] OTHER -> "Unknown"

Reclassified(c) == [c EXCEPT !.class = Classify(c)]

\* reconcileStatusLocked: Present evidence revives, then the phase decides.
Revived(status) ==
    CASE status \in {"Aged", "Expired"} -> "Confirmed"
      [] status = "Removed" -> "Provisional"
      [] OTHER -> status

ReconcileStatus(c, present) ==
    LET s == IF present THEN Revived(c.status) ELSE c.status IN
    [c EXCEPT !.status =
        IF phase = "Initializing"
        THEN IF s = "Removed" THEN s ELSE "Provisional"
        ELSE IF s = "Provisional" /\ IsConfirmedWorthy(c.class) THEN "Confirmed" ELSE s]

\* How the evidence handlers end: erase, or reclassify and reconcile.
Concluded(c, present) ==
    IF HasNoEvidence(c) THEN NoCandidate ELSE ReconcileStatus(Reclassified(c), present)

\* LocalSelf tombstone of reconcileByKey and reconcileAffectedByLocalIp.
Tombstone(c) == [c EXCEPT !.class = "LocalSelf", !.status = "Removed"]

-----------------------------------------------------------------------------
(* Events *)

\* PendingEvents::record and recordErased for the candidates a handler
\* touched.
Recorded(touched, new) ==
    [changed |-> {m \in touched : IsPublishable(new[m])},
     removed |-> {m \in touched : IsPublishable(candidates[m]) /\ ~IsPublishable(new[m])}]

Emit(t, events) ==
    /\ pending[t] = Nothing
    /\ pending' = [pending EXCEPT ![t] = events]

\* What a query of this candidate returns: toWireCandidate.
View(c) ==
    IF IsPublishable(c)
    THEN [ips |-> c.ips, bridgePort |-> c.bridgePort, lldp |-> c.lldp,
          neighborIfaces |-> c.neighborIfaces, seenInNeigh |-> c.neigh # {},
          seenInFdb |-> c.fdb # {}, class |-> c.class, status |-> c.status]
    ELSE Hidden

Init ==
    /\ LocalInit
    /\ phase = "Initializing"
    /\ candidates = [m \in Macs |-> NoCandidate]
    /\ life = "stopped"
    /\ pending = [t \in Threads |-> Nothing]
    /\ marks = [m \in Macs |-> "none"]
    /\ signals = {}
    /\ client = [m \in Macs |-> Hidden]
    /\ quiet = {}
    /\ restarts = 0

-----------------------------------------------------------------------------
(* Observations: the consumer thread *)

Consuming == life \in {"starting", "running"}

\* The rest of an evidence handler: m's entry becomes c.
Update(m, c) ==
    LET new == [candidates EXCEPT ![m] = c] IN
    /\ Consuming
    /\ candidates' = new
    /\ Emit("consumer", Recorded({m}, new))
    /\ UNCHANGED <<localVars, phase, life, marks, signals, client, quiet, restarts>>

\* Mutant of NeighborPasses: the local-MAC rule is missing.
NeighborPassesLocalMac(m, ip) == ip \notin localIps

\* onNeighborObservation; local MACs and IPs do not pass the filter.
NeighborPasses(m, ip) == m \notin localMacs /\ ip \notin localIps

OnNeighborPresent(m, i, ip) ==
    /\ NeighborPasses(m, ip)
    /\ Update(m, Concluded([Entry(m) EXCEPT !.neigh = @ \cup {<<i, ip>>},
                               !.ips = @ \cup {ip}, !.neighborIfaces = @ \cup {i},
                               !.idle = 0], TRUE))

OnNeighborRemoved(m, i, ip) ==
    /\ NeighborPasses(m, ip)
    /\ Update(m, Concluded([Entry(m) EXCEPT !.neigh = @ \ {<<i, ip>>},
                               !.ips = @ \ {ip}, !.neighborIfaces = @ \ {i}], FALSE))

\* onFdbObservation.
OnFdbPresent(m, p) ==
    /\ m \notin localMacs
    /\ Update(m, Concluded([Entry(m) EXCEPT !.fdb = @ \cup {p}, !.bridgePort = p,
                                            !.idle = 0], TRUE))

\* Mutant of OnFdbRemoved: bridgePort is not reset.
OnFdbRemovedKeepsPort(m, p) ==
    /\ m \notin localMacs
    /\ Update(m, Concluded([Entry(m) EXCEPT !.fdb = @ \ {p}], FALSE))

OnFdbRemoved(m, p) ==
    /\ m \notin localMacs
    /\ Update(m, Concluded([Entry(m) EXCEPT !.fdb = @ \ {p},
                               !.bridgePort = IF @ = p THEN NoPort ELSE @], FALSE))

\* onLldpObservation: no local filter.
OnLldpPresent(m, i, id) ==
    Update(m, Concluded([Entry(m) EXCEPT !.lldp = id, !.neighborIfaces = @ \cup {i},
                                         !.idle = 0], TRUE))

OnLldpRemoved(m, i) ==
    Update(m, Concluded([Entry(m) EXCEPT !.lldp = NoLldp,
                                         !.neighborIfaces = @ \ {i}], FALSE))

\* What a keepalive makes of a candidate: the ids and the interface are
\* overwritten, an aged candidate is revived.
Reasserted(c, i, id) ==
    LET d == Reclassified([c EXCEPT !.lldp = id, !.neighborIfaces = @ \cup {i}, !.idle = 0]) IN
    [d EXCEPT !.status = IF @ = "Removed" THEN @ ELSE Revived(@)]

\* Mutant of Speaks: a keepalive never emits an event.
SpeaksNever(c, d) == FALSE

\* A keepalive emits an event of a new status or class only.
Speaks(c, d) == d.status # c.status \/ d.class # c.class

\* A keepalive neither creates a candidate nor touches a tombstone.
OnLldpKeepalive(m, i, id) ==
    LET c == candidates[m]
        d == Reasserted(c, i, id)
        new == [candidates EXCEPT ![m] = d]
    IN
    /\ Consuming
    /\ c # NoCandidate
    /\ c.status # "Removed"
    /\ candidates' = new
    /\ Emit("consumer", IF Speaks(c, d) THEN Recorded({m}, new) ELSE Nothing)
    /\ quiet' = IF Speaks(c, d) \/ View(c) = View(d) THEN quiet ELSE quiet \cup {m}
    /\ UNCHANGED <<localVars, phase, life, marks, signals, client, restarts>>

\* onLinkObservation: a MAC that became local hides its candidate.  The
\* "removed" event depends only on what the candidate was.
ReconcileLocalMac(mac) ==
    LET known == mac \in Macs /\ candidates[mac] # NoCandidate IN
    /\ candidates' = IF known /\ mac \in localMacs'
                     THEN [candidates EXCEPT ![mac] = Tombstone(@)] ELSE candidates
    /\ Emit("consumer",
            [changed |-> {},
             removed |-> IF known /\ IsPublishable(candidates[mac]) THEN {mac} ELSE {}])

OnLinkPresent(i, mac) ==
    /\ Consuming
    /\ LinkPresent(i, mac)
    /\ IF interfaces[i].mac # mac THEN ReconcileLocalMac(mac)
       ELSE Emit("consumer", Nothing) /\ UNCHANGED candidates
    /\ UNCHANGED <<phase, life, marks, signals, client, quiet, restarts>>

\* Any entry is removed, one that only an address made too, and the MAC is
\* the one the removal carries: the tracker need not have seen it.
OnLinkRemoved(i, mac) ==
    /\ Consuming
    /\ LinkRemoved(i)
    /\ IF interfaces[i].known THEN ReconcileLocalMac(mac)
       ELSE Emit("consumer", Nothing) /\ UNCHANGED candidates
    /\ UNCHANGED <<phase, life, marks, signals, client, quiet, restarts>>

\* Mutant of OnAddressPresent: tells of a removal and does not reconcile.
OnAddressPresentUnreconciled(i, c) ==
    LET hit == {m \in Macs : candidates[m] # NoCandidate /\ IpOf(c) \in candidates[m].ips} IN
    /\ Consuming
    /\ AddressPresent(i, c)
    /\ Emit("consumer", [changed |-> {},
                         removed |-> {m \in hit : IsPublishable(candidates[m])}])
    /\ UNCHANGED <<phase, candidates, life, marks, signals, client, quiet, restarts>>

\* onAddressObservation: an IP that becomes local hides every candidate
\* that has it; on removal nothing is reconciled.
OnAddressPresent(i, c) ==
    LET hit == {m \in Macs : candidates[m] # NoCandidate /\ IpOf(c) \in candidates[m].ips} IN
    /\ Consuming
    /\ AddressPresent(i, c)
    /\ candidates' = [m \in Macs |-> IF m \in hit THEN Tombstone(candidates[m])
                                                  ELSE candidates[m]]
    /\ Emit("consumer", [changed |-> {},
                         removed |-> {m \in hit : IsPublishable(candidates[m])}])
    /\ UNCHANGED <<phase, life, marks, signals, client, quiet, restarts>>

OnAddressRemoved(i, c) ==
    /\ Consuming
    /\ AddressRemoved(i, c)
    /\ Emit("consumer", Nothing)
    /\ UNCHANGED <<phase, candidates, life, marks, signals, client, quiet, restarts>>

-----------------------------------------------------------------------------
(* Lifecycle and aging: the service thread *)

Restarted(c) == IF c = NoCandidate THEN c ELSE [Fresh EXCEPT !.idle = c.idle]

\* Mutant of PrepareForRestart: hides the candidates without a word.
PrepareForRestartSilent ==
    LET new == [m \in Macs |-> Restarted(candidates[m])] IN
    /\ life = "stopped"
    /\ marks = [m \in Macs |-> "none"]
    /\ restarts < MaxRestarts
    /\ restarts' = restarts + 1
    /\ Clear
    /\ phase' = "Initializing"
    /\ candidates' = new
    /\ Emit("service", Nothing)
    /\ life' = "prepared"
    /\ UNCHANGED <<marks, signals, client, quiet>>

\* start(): all evidence goes, candidates stay as Provisional.
PrepareForRestart ==
    LET new == [m \in Macs |-> Restarted(candidates[m])] IN
    /\ life = "stopped"
    /\ marks = [m \in Macs |-> "none"]
    /\ restarts < MaxRestarts
    /\ restarts' = restarts + 1
    /\ Clear
    /\ phase' = "Initializing"
    /\ candidates' = new
    /\ Emit("service", Recorded(Macs, new))
    /\ life' = "prepared"
    /\ UNCHANGED <<marks, signals, client, quiet>>

ConsumerStarts ==
    /\ life = "prepared"
    /\ pending["service"] = Nothing
    /\ life' = "starting"
    /\ UNCHANGED <<localVars, phase, candidates, pending, marks, signals, client, quiet, restarts>>

Promoted(c) ==
    IF c = NoCandidate \/ c.status # "Provisional" THEN c
    ELSE IF IsConfirmedWorthy(Classify(c))
         THEN [Reclassified(c) EXCEPT !.status = "Confirmed"]
         ELSE NoCandidate

\* The sources have started; the consumer may still be behind them.
MarkLive ==
    LET new == [m \in Macs |-> Promoted(candidates[m])] IN
    /\ life = "starting"
    /\ phase' = "Live"
    /\ candidates' = new
    /\ Emit("service", Recorded({m \in Macs : new[m] # candidates[m]}, new))
    /\ life' = "running"
    /\ UNCHANGED <<localVars, marks, signals, client, quiet, restarts>>

\* lastSeen falls behind candidateAgeout (1), then candidateExpire (2).
Elapse(m) ==
    /\ candidates[m] # NoCandidate
    /\ candidates[m].idle < 2
    /\ candidates' = [candidates EXCEPT ![m].idle = @ + 1]
    /\ UNCHANGED <<localVars, phase, life, pending, marks, signals, client, quiet, restarts>>

Aged(c) ==
    IF c = NoCandidate \/ c.status \in {"Removed", "Provisional"} \/ c.idle = 0 THEN c
    ELSE [c EXCEPT !.status = IF c.idle = 2 THEN "Expired" ELSE "Aged"]

Age ==
    LET new == [m \in Macs |-> Aged(candidates[m])] IN
    /\ life = "running"
    /\ candidates' = new
    /\ Emit("service", Recorded({m \in Macs : new[m] # candidates[m]}, new))
    /\ UNCHANGED <<localVars, phase, life, marks, signals, client, quiet, restarts>>

\* stop() joins the aging worker and the consumer, each past its delivery.
Stop ==
    /\ life = "running"
    /\ \A t \in Threads : pending[t] = Nothing
    /\ life' = "stopped"
    /\ UNCHANGED <<localVars, phase, candidates, pending, marks, signals, client, quiet, restarts>>

-----------------------------------------------------------------------------
(* From the engine to the client *)

\* deliverPending: changed first, then removed, one event at a time; the
\* latest intent per MAC wins.
DeliverChanged(t, m) ==
    /\ m \in pending[t].changed
    /\ pending' = [pending EXCEPT ![t].changed = @ \ {m}]
    /\ marks' = [marks EXCEPT ![m] = "changed"]
    /\ UNCHANGED <<localVars, phase, candidates, life, signals, client, quiet, restarts>>

DeliverRemoved(t, m) ==
    /\ pending[t].changed = {}
    /\ m \in pending[t].removed
    /\ pending' = [pending EXCEPT ![t].removed = @ \ {m}]
    /\ marks' = [marks EXCEPT ![m] = "removed"]
    /\ UNCHANGED <<localVars, phase, candidates, life, signals, client, quiet, restarts>>

\* publicationLoop takes all marks and publishes them.
Publish ==
    LET dirty == {m \in Macs : marks[m] # "none"} IN
    /\ dirty # {}
    /\ signals' = signals \cup dirty
    /\ marks' = [m \in Macs |-> "none"]
    /\ UNCHANGED <<localVars, phase, candidates, life, pending, client, quiet, restarts>>

\* The client re-queries: GetCandidateByMac.
ClientQueries(m) ==
    /\ m \in signals
    /\ signals' = signals \ {m}
    /\ client' = [client EXCEPT ![m] = View(candidates[m])]
    /\ quiet' = quiet \ {m}
    /\ UNCHANGED <<localVars, phase, candidates, life, pending, marks, restarts>>

-----------------------------------------------------------------------------
ObserveRemote(m) ==
    \/ \E i \in Ifaces, ip \in Ips : OnNeighborPresent(m, i, ip) \/ OnNeighborRemoved(m, i, ip)
    \/ \E p \in Ports : OnFdbPresent(m, p) \/ OnFdbRemoved(m, p)
    \/ /\ m \in LldpMacs
       /\ \E i \in Ifaces : \/ OnLldpRemoved(m, i)
                            \/ \E id \in LldpIds : \/ OnLldpPresent(m, i, id)
                                                   \/ OnLldpKeepalive(m, i, id)

ObserveLocal(i) ==
    \/ \E mac \in LinkMacs \cup {NoMac} : OnLinkPresent(i, mac) \/ OnLinkRemoved(i, mac)
    \/ \E c \in Cidrs : OnAddressPresent(i, c) \/ OnAddressRemoved(i, c)

Service == PrepareForRestart \/ ConsumerStarts \/ MarkLive \/ Age \/ Stop

Delivery ==
    \/ \E t \in Threads, m \in Macs : DeliverChanged(t, m) \/ DeliverRemoved(t, m)
    \/ Publish
    \/ \E m \in Macs : ClientQueries(m)

Next ==
    \/ \E m \in Macs : ObserveRemote(m) \/ Elapse(m)
    \/ \E i \in Ifaces : ObserveLocal(i)
    \/ Service
    \/ Delivery

Spec == Init /\ [][Next]_vars

-----------------------------------------------------------------------------
(* Properties *)

\* Types of the variables.
TypeOK ==
    /\ LocalTypeOK
    /\ phase \in {"Initializing", "Live"}
    /\ candidates \in [Macs -> Candidate \cup {NoCandidate}]
    /\ life \in {"stopped", "prepared", "starting", "running"}
    /\ pending \in [Threads -> [changed : SUBSET Macs, removed : SUBSET Macs]]
    /\ marks \in [Macs -> {"none", "changed", "removed"}]
    /\ signals \in SUBSET Macs
    /\ quiet \in SUBSET Macs
    /\ restarts \in 0..MaxRestarts

\* Some news about m is on its way to the client.
NewsOf(m) ==
    \/ \E t \in Threads : m \in pending[t].changed \cup pending[t].removed
    \/ marks[m] # "none"
    \/ m \in signals

\* The client knows everything of the candidate but what LLDP says of it (it
\* does know whether LLDP sees it).
KnownButForLldp(m) ==
    /\ IsPublishable(candidates[m]) /\ SeenInLldp(candidates[m])
    /\ \E id \in LldpIds, on \in SUBSET Ifaces :
          client[m] = [View(candidates[m]) EXCEPT !.lldp = id, !.neighborIfaces = on]

\* PublicationQueue's last-writer-wins is harmless because clients re-query:
\* whatever two threads do to the model and in whatever order their events
\* arrive, a client whose view of a candidate differs from the model has
\* news of it on the way.  The exception is exact: LLDP ids and interfaces that
\* a keepalive overwrote without an event, and nothing else of the candidate.
ClientInformed ==
    \A m \in Macs : \/ client[m] = View(candidates[m])
                    \/ NewsOf(m)
                    \/ m \in quiet /\ KnownButForLldp(m)

\* The comment on LldpObservation::keepalive: a keepalive re-asserts
\* "already-known state" and the engine "suppresses no-op model events", so
\* whatever it changes reaches the client.
OnlyNoOpsSuppressed == \A m \in Macs : client[m] = View(candidates[m]) \/ NewsOf(m)

\* Evidence and what is derived from it agree: no address without a
\* neighbour entry, no bridge port without an FDB entry; in the live phase
\* no candidate outlives its evidence but as a tombstone, and none is left
\* Provisional, hidden although worthy.
EvidenceConsistent ==
    \A m \in Macs : candidates[m] # NoCandidate =>
        LET c == candidates[m] IN
        /\ \A ip \in c.ips : \E i \in Ifaces : <<i, ip>> \in c.neigh
        /\ c.bridgePort # NoPort => c.bridgePort \in c.fdb
        /\ phase = "Live" /\ c.status # "Removed" => ~HasNoEvidence(c)
        /\ phase = "Live" => c.status # "Provisional"

\* MACs the host and an LLDP neighbour both carry: onLldpObservation has no
\* local-MAC rule and may revive their candidates.
Claimed == LinkMacs \cap LldpMacs

\* A MAC of the host's own interfaces is never published as a remote
\* candidate, unless an LLDP neighbour claims it.
LocalMacHidden == \A m \in localMacs \ Claimed : ~IsPublishable(candidates[m])

\* MACs whose candidates a step reports "removed" and leaves published.
FalselyRemoved ==
    {m \in Macs \ Claimed :
        /\ \E t \in Threads : m \in pending'[t].removed \ pending[t].removed
        /\ IsPublishable(candidates'[m])}

\* A handler that records "removed" leaves the candidate gone or hidden;
\* onLinkObservation decides the event before it reconciles, from what the
\* candidate was.  The exception is exact: the removal of an interface that the
\* tracker held without the MAC the removal carries (an entry only an address
\* made, or one whose MAC change was dropped).
RemovedMeansHidden ==
    [][\A m \in FalselyRemoved :
          \E i \in Ifaces : /\ interfaces[i].known /\ interfaces[i].mac # m
                            /\ ~interfaces'[i].known]_vars

\* The comment in onLinkObservation: "After reconciliation the candidate is
\* LocalSelf/Removed", and therefore the event says removed.
RemovedIsHidden == [][FalselyRemoved = {}]_vars
=============================================================================
