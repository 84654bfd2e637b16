---------------------------- MODULE NetlinkState ----------------------------
(***************************************************************************)
(* From a netlink message to an observation: NetlinkParser decodes it and  *)
(* names its interface through the ifindex cache of NetlinkUtils,          *)
(* NetlinkState compares it with what it has and merges it per MAC,        *)
(* NetlinkObservationMapper converts the change for the consumer.          *)
(*                                                                         *)
(* The kernel is the environment: its tables change at any time, every     *)
(* change is a notification in the subscribed socket, and the initial dump *)
(* reads one table per request, all of it before the first notification is *)
(* handled.  One thread handles messages here; what a redump beside the    *)
(* worker does is module NetlinkMonitor's subject.                         *)
(***************************************************************************)
EXTENDS Integers, Sequences, FiniteSets

CONSTANTS
    Indexes,     \* kernel interface indexes
    Names,       \* interface names
    Macs, Ips,   \* addresses, rendered canonically by the parser
    Fdbs,        \* forwarding tables: a bridge and a VLAN
    Nuds,        \* raw neighbour states (NUD_* bits) a valid entry can have
    FdbBits,     \* raw bridge entry states: [local, permanent]
    Watched,     \* watchedInterfaces_; empty watches all
    None,        \* no entry
    MaxChanges   \* bound: kernel changes per behaviour

ASSUME StateValues ==
    /\ None \notin Indexes \cup Names \cup Macs \cup Nuds
    /\ FdbBits \subseteq [local : BOOLEAN, permanent : BOOLEAN]
    /\ MaxChanges \in Nat

\* std::to_string(ifindex): the name of an index nobody can resolve.
Numeral(i) == <<"#", i>>
ASSUME NumeralIsNoName == \A i \in Indexes : Numeral(i) \notin Names
Ifnames == Names \cup {Numeral(i) : i \in Indexes}

VARIABLES
    klink,     \* kernel: index -> [name, up, master]
    born,      \* kernel: index -> first name; none is allocated twice
    kaddr,     \* kernel: set of <<index, ip>>
    kneigh,    \* kernel: <<index, mac, ip>> -> nud or None
    kfdb,      \* kernel: <<mac, table>> -> [port, bits] or None
    socket,    \* notifications not yet handled
    stage,     \* 0: not subscribed, 1 .. 4: dump request, 5: live
    answer,    \* messages of the running request's answer; None: not sent
    ifcache,   \* IfindexCache: index -> name
    links,     \* linkStates_
    addrs,     \* interfaceAddresses_
    fdb,       \* fdbStatesByMac_, and the fdb half of macAggregates_
    neighbors, \* neighborStatesByKey_
    ips,       \* the address half of macAggregates_
    devices,   \* deviceStatesByMac_
    told,      \* the consumer's picture, from the observations it got
    renamed,   \* names a link gave up or took by being renamed
    failed,    \* <<name, mac, ip>> of kernel entries that lost that MAC
    dropped,   \* MACs whose last bridge notification is a removal
    changes

kernel == <<klink, born, kaddr, kneigh, kfdb>>
cached == <<ifcache, links, addrs, fdb, neighbors, ips, devices>>
vars   == <<kernel, socket, stage, answer, cached, told, renamed, failed,
            dropped, changes>>

NeighKeys  == Indexes \X Macs \X Ips
FdbKeys    == Macs \X Fdbs
CacheKeys  == Ifnames \X Macs \X Ips
NeighNuds  == Nuds \cup {"failed"}    \* failed: no NDA_LLADDR in the message
KernelLink == [name : Names, up : BOOLEAN, master : Indexes \cup {None}]
LinkState  == [index : Indexes, up : BOOLEAN, masterIndex : Indexes \cup {None},
               master : Ifnames \cup {None}]
FdbState   == [port : Ifnames, bits : FdbBits]
KernelFdb  == [port : Indexes, bits : FdbBits]
Device     == [ifname : Ifnames \cup {None}, ips : SUBSET Ips, present : BOOLEAN]

\* Absence is told apart from every entry, and from an empty answer.
ASSUME NoneIsNoEntry ==
    None \notin KernelLink \cup KernelFdb \cup LinkState \cup FdbState \cup NeighNuds \cup {{}}

NoLinks == [n \in Ifnames |-> None]
NoNeighbors == [k \in CacheKeys |-> None]

Init ==
    /\ klink = [i \in Indexes |-> None] /\ born = [i \in Indexes |-> None] /\ kaddr = {}
    /\ kneigh = [k \in NeighKeys |-> None] /\ kfdb = [k \in FdbKeys |-> None]
    /\ socket = <<>> /\ stage = 0 /\ answer = None
    /\ ifcache = [i \in Indexes |-> None]
    /\ links = NoLinks /\ addrs = {}
    /\ fdb = [m \in Macs |-> None] /\ neighbors = NoNeighbors
    /\ ips = [m \in Macs |-> {}] /\ devices = [m \in Macs |-> None]
    /\ told = [links |-> NoLinks, addrs |-> {}, neighbors |-> NoNeighbors,
               fdb |-> [m \in Macs |-> None]]
    /\ renamed = {} /\ failed = {} /\ dropped = {} /\ changes = 0

-----------------------------------------------------------------------------
(* Kernel messages *)

LinkMsg(type, i, l) == [type |-> type, index |-> i, name |-> l.name,
                        up |-> l.up, master |-> l.master]
AddrMsg(type, a) == [type |-> type, index |-> a[1], ip |-> a[2]]
\* A failed entry's message carries no link-layer address.
NeighMsg(type, k, nud) ==
    [type |-> type, index |-> k[1], ip |-> k[3], nud |-> nud,
     mac |-> IF nud = "failed" THEN None ELSE k[2]]
FdbMsg(type, m, e) == [type |-> type, index |-> e.port, mac |-> m,
                       bits |-> e.bits]

-----------------------------------------------------------------------------
(* The kernel changes and notifies *)

Notify(m) ==
    /\ changes < MaxChanges /\ changes' = changes + 1
    /\ socket' = IF stage = 0 THEN socket ELSE Append(socket, m)
    /\ UNCHANGED <<stage, answer, cached, told>>

\* A link appears, changes state or master, or is renamed.
KernelSetLink(i, l) ==
    /\ l # klink[i] /\ (klink[i] = None => born[i] = None)
    /\ l.master # i /\ (l.master # None => klink[l.master] # None)
    /\ \A j \in Indexes \ {i} : klink[j] # None => klink[j].name # l.name
    /\ klink' = [klink EXCEPT ![i] = l]
    /\ born' = IF klink[i] = None THEN [born EXCEPT ![i] = l.name] ELSE born
    /\ renamed' = IF klink[i] # None /\ klink[i].name # l.name
                  THEN renamed \cup {klink[i].name, l.name} ELSE renamed
    /\ Notify(LinkMsg("newlink", i, l))
    /\ UNCHANGED <<kaddr, kneigh, kfdb, failed, dropped>>

\* A link goes once its neighbours and bridge entries are flushed; its
\* addresses go with it.
KernelDelLink(i) ==
    /\ klink[i] # None
    /\ \A k \in NeighKeys : k[1] = i => kneigh[k] = None
    /\ \A k \in FdbKeys : kfdb[k] # None => kfdb[k].port # i
    /\ \A j \in Indexes : klink[j] # None => klink[j].master # i
    /\ klink' = [klink EXCEPT ![i] = None]
    /\ kaddr' = {a \in kaddr : a[1] # i}
    /\ Notify(LinkMsg("dellink", i, klink[i]))
    /\ UNCHANGED <<born, kneigh, kfdb, renamed, failed, dropped>>

KernelAddr(a) ==
    /\ klink[a[1]] # None
    /\ IF a \in kaddr
       THEN kaddr' = kaddr \ {a} /\ Notify(AddrMsg("deladdr", a))
       ELSE kaddr' = kaddr \cup {a} /\ Notify(AddrMsg("newaddr", a))
    /\ UNCHANGED <<klink, born, kneigh, kfdb, renamed, failed, dropped>>

\* The kernel has one neighbour entry per link and address.  One appears,
\* changes state or fails, or takes another MAC: of the MAC it had no
\* notification speaks.
KernelSetNeigh(k, nud) ==
    /\ klink[k[1]] # None
    /\ nud # kneigh[k] /\ (nud = "failed" => kneigh[k] # None)
    /\ LET name == klink[k[1]].name
           had == {m \in Macs \ {k[2]} : kneigh[<<k[1], m, k[3]>>] # None}
       IN  /\ kneigh' = [j \in NeighKeys |->
                           IF j = k THEN nud
                           ELSE IF j[1] = k[1] /\ j[3] = k[3] THEN None
                           ELSE kneigh[j]]
           /\ failed' = (failed \ {<<name, k[2], k[3]>>})
                        \cup {<<name, m, k[3]>> :
                                m \in IF nud = "failed" THEN had \cup {k[2]} ELSE had}
    /\ Notify(NeighMsg("newneigh", k, nud))
    /\ UNCHANGED <<klink, born, kaddr, kfdb, renamed, dropped>>

KernelDelNeigh(k) ==
    /\ kneigh[k] # None
    /\ kneigh' = [kneigh EXCEPT ![k] = None]
    /\ Notify(NeighMsg("delneigh", k, kneigh[k]))
    /\ UNCHANGED <<klink, born, kaddr, kfdb, renamed, failed, dropped>>

\* A bridge learns a MAC in one of its tables, moves it to another port or
\* forgets it there.
KernelSetFdb(k, e) ==
    /\ klink[e.port] # None /\ e # kfdb[k]
    /\ kfdb' = [kfdb EXCEPT ![k] = e]
    /\ dropped' = dropped \ {k[1]}
    /\ Notify(FdbMsg("newfdb", k[1], e))
    /\ UNCHANGED <<klink, born, kaddr, kneigh, renamed, failed>>

KernelDelFdb(k) ==
    /\ kfdb[k] # None
    /\ kfdb' = [kfdb EXCEPT ![k] = None]
    /\ dropped' = IF stage = 0 THEN dropped ELSE dropped \cup {k[1]}
    /\ Notify(FdbMsg("delfdb", k[1], kfdb[k]))
    /\ UNCHANGED <<klink, born, kaddr, kneigh, renamed, failed>>

-----------------------------------------------------------------------------
(* NetlinkUtils: the ifindex cache *)

\* if_indextoname(): asks the kernel as it is now.
NameNow(i) == IF klink[i] # None THEN klink[i].name ELSE None

\* resolve(): the cached name, else the kernel's, else the number.
Resolve(c, i) ==
    IF c[i] # None THEN c[i]
    ELSE IF NameNow(i) # None THEN NameNow(i) ELSE Numeral(i)

\* Mutant of Learn: the fallback number is cached like a name.
LearnNumeral(c, i) == [c EXCEPT ![i] = Resolve(c, i)]

\* What resolve() leaves in the cache.
Learn(c, i) == IF c[i] # None THEN c ELSE [c EXCEPT ![i] = NameNow(i)]

-----------------------------------------------------------------------------
(* NetlinkObservationMapper *)

ExactNuds == {"incomplete", "reachable", "stale", "delay", "probe", "failed",
              "noarp", "permanent"}

\* nudToReachability(): one state bit exactly, anything else is Unknown.
nudToReachability(nud) == IF nud \in ExactNuds THEN nud ELSE "unknown"

fdbToEntryKind(bits) ==
    IF bits.local THEN "local" ELSE IF bits.permanent THEN "static" ELSE "dynamic"

\* A LinkObservation names its master and leaves the master's index behind.
ToldLink(l) == IF l = None THEN None
               ELSE [index |-> l.index, up |-> l.up, master |-> l.master]
ToldFdb(e) == IF e = None THEN None
              ELSE [port |-> e.port, kind |-> fdbToEntryKind(e.bits)]
ToldNeigh(nud) == IF nud = None THEN None ELSE nudToReachability(nud)

-----------------------------------------------------------------------------
(* NetlinkState, with the callback each change triggers *)

UnchangedBut(what) ==
    /\ "links" \in what \/ UNCHANGED links
    /\ "addrs" \in what \/ UNCHANGED addrs
    /\ "macs"  \in what \/ UNCHANGED <<fdb, neighbors, ips, devices>>

\* Mutant of updateLink: a removed interface keeps its addresses.
updateLinkAlone(n, present, l) ==
    /\ links' = [links EXCEPT ![n] = IF present THEN l ELSE None]
    /\ told' = [told EXCEPT !.links[n] = IF present THEN ToldLink(l) ELSE None]
    /\ UnchangedBut({"links"})

\* updateLink(): a removal takes the interface's addresses with it, and is
\* reported when there was anything to remove.
updateLink(n, present, l) ==
    IF present
    THEN /\ links' = [links EXCEPT ![n] = l]
         /\ told' = IF links[n] # l
                    THEN [told EXCEPT !.links[n] = ToldLink(l)] ELSE told
         /\ UnchangedBut({"links"})
    ELSE /\ links' = [links EXCEPT ![n] = None]
         /\ addrs' = {a \in addrs : a[1] # n}
         /\ told' = IF links[n] # None \/ addrs' # addrs
                    THEN [told EXCEPT !.links[n] = None,
                                      !.addrs = {a \in @ : a[1] # n}]
                    ELSE told
         /\ UnchangedBut({"links", "addrs"})

updateAddress(n, ip, present) ==
    /\ addrs' = IF present THEN addrs \cup {<<n, ip>>} ELSE addrs \ {<<n, ip>>}
    /\ told' = IF addrs' # addrs
               THEN [told EXCEPT !.addrs = IF present THEN @ \cup {<<n, ip>>}
                                           ELSE @ \ {<<n, ip>>}]
               ELSE told
    /\ UnchangedBut({"addrs"})

\* refreshMergedDeviceLocked(): an aggregate without any information is
\* dropped; one without a bridge entry has no interface and is not present.
refreshMergedDevice(m, entry, addresses) ==
    devices' = [devices EXCEPT ![m] =
                  IF entry = None /\ addresses = {} THEN None
                  ELSE [ifname |-> IF entry = None THEN None ELSE entry.port,
                        ips |-> addresses, present |-> entry # None]]

\* updateFdb(): keyed by MAC alone.  A removal is reported even when there
\* was nothing to remove.
updateFdb(n, m, bits, present) ==
    LET entry == IF present THEN [port |-> n, bits |-> bits] ELSE None
    IN  /\ fdb' = [fdb EXCEPT ![m] = entry]
        /\ told' = IF ~present \/ fdb[m] # entry
                   THEN [told EXCEPT !.fdb[m] = ToldFdb(entry)] ELSE told
        /\ refreshMergedDevice(m, entry, ips[m])
        /\ UNCHANGED <<neighbors, ips>>
        /\ UnchangedBut({"macs"})

\* Mutant of updateNeighbor: only an appearance or a removal is a change.
updateNeighborPresence(n, m, ip, nud, present) ==
    LET key == <<n, m, ip>>
        entry == IF present THEN nud ELSE None
        addresses == IF present THEN ips[m] \cup {ip} ELSE ips[m] \ {ip}
    IN  /\ neighbors' = [neighbors EXCEPT ![key] = entry]
        /\ told' = IF (neighbors[key] = None) # (entry = None)
                   THEN [told EXCEPT !.neighbors[key] = ToldNeigh(entry)]
                   ELSE told
        /\ ips' = [ips EXCEPT ![m] = addresses]
        /\ refreshMergedDevice(m, fdb[m], addresses)
        /\ UNCHANGED fdb
        /\ UnchangedBut({"macs"})

\* updateNeighbor(): keyed by interface, MAC and address; the aggregate by MAC
\* and address only.
updateNeighbor(n, m, ip, nud, present) ==
    LET key == <<n, m, ip>>
        entry == IF present THEN nud ELSE None
        addresses == IF present THEN ips[m] \cup {ip} ELSE ips[m] \ {ip}
    IN  /\ neighbors' = [neighbors EXCEPT ![key] = entry]
        /\ told' = IF neighbors[key] # entry
                   THEN [told EXCEPT !.neighbors[key] = ToldNeigh(entry)]
                   ELSE told
        /\ ips' = [ips EXCEPT ![m] = addresses]
        /\ refreshMergedDevice(m, fdb[m], addresses)
        /\ UNCHANGED fdb
        /\ UnchangedBut({"macs"})

-----------------------------------------------------------------------------
(* NetlinkParser *)

Ignore == UNCHANGED <<links, addrs, fdb, neighbors, ips, devices, told>>

\* watchedInterfaces_ filters neighbours and bridge entries only.
IsWatched(n) == Watched = {} \/ n \in Watched

\* handleLink(): a removal invalidates the cached name, and the message's
\* own IFLA_IFNAME puts it back; the master is resolved after it.
handleLink(m) ==
    LET removed == IF m.type = "dellink" THEN [ifcache EXCEPT ![m.index] = None]
                   ELSE ifcache
        put == [removed EXCEPT ![m.index] = m.name]
        master == IF m.master = None THEN None ELSE Resolve(put, m.master)
    IN  /\ ifcache' = IF m.master = None THEN put ELSE Learn(put, m.master)
        /\ updateLink(m.name, m.type = "newlink",
                      [index |-> m.index, up |-> m.up,
                       masterIndex |-> m.master, master |-> master])

handleAddr(m) ==
    /\ ifcache' = Learn(ifcache, m.index)
    /\ updateAddress(Resolve(ifcache, m.index), m.ip, m.type = "newaddr")

\* handleNeighborL3(): a message without a MAC is dropped.
handleNeighborL3(m) ==
    LET n == Resolve(ifcache, m.index)
    IN  /\ ifcache' = Learn(ifcache, m.index)
        /\ IF m.mac # None /\ IsWatched(n)
           THEN updateNeighbor(n, m.mac, m.ip, m.nud, m.type = "newneigh")
           ELSE Ignore

handleFdb(m) ==
    LET n == Resolve(ifcache, m.index)
    IN  /\ ifcache' = Learn(ifcache, m.index)
        /\ IF IsWatched(n)
           THEN updateFdb(n, m.mac, m.bits, m.type = "newfdb")
           ELSE Ignore

processMessage(m) ==
    \/ m.type \in {"newlink", "dellink"} /\ handleLink(m)
    \/ m.type \in {"newaddr", "deladdr"} /\ handleAddr(m)
    \/ m.type \in {"newneigh", "delneigh"} /\ handleNeighborL3(m)
    \/ m.type \in {"newfdb", "delfdb"} /\ handleFdb(m)

-----------------------------------------------------------------------------
(* The initial dump and the live loop *)

\* One request per table, links first (the two address families are one).
Table(n) ==
    CASE n = 1 -> {LinkMsg("newlink", i, klink[i]) :
                     i \in {j \in Indexes : klink[j] # None}}
      [] n = 2 -> {AddrMsg("newaddr", a) : a \in kaddr}
      [] n = 3 -> {NeighMsg("newneigh", k, kneigh[k]) :
                     k \in {j \in NeighKeys : kneigh[j] # None}}
      [] n = 4 -> {FdbMsg("newfdb", k[1], kfdb[k]) :
                     k \in {j \in FdbKeys : kfdb[j] # None}}

\* The live socket is bound to its groups before anything is dumped.
Subscribe ==
    /\ stage = 0
    /\ stage' = 1
    /\ UNCHANGED <<kernel, socket, answer, cached, told, renamed, failed,
                   dropped, changes>>

DumpRequest ==
    /\ stage \in 1 .. 4 /\ answer = None
    /\ answer' = Table(stage)
    /\ UNCHANGED <<kernel, socket, stage, cached, told, renamed, failed,
                   dropped, changes>>

DumpMessage ==
    /\ answer \notin {None, {}}
    /\ \E m \in answer : processMessage(m) /\ answer' = answer \ {m}
    /\ UNCHANGED <<kernel, socket, stage, renamed, failed, dropped, changes>>

DumpDone ==
    /\ answer = {}
    /\ answer' = None
    /\ stage' = stage + 1
    /\ UNCHANGED <<kernel, socket, cached, told, renamed, failed, dropped,
                   changes>>

\* The worker handles the oldest notification.
LiveMessage ==
    /\ stage = 5 /\ socket # <<>>
    /\ processMessage(Head(socket))
    /\ socket' = Tail(socket)
    /\ UNCHANGED <<kernel, stage, answer, renamed, failed, dropped, changes>>

KernelStep ==
    \/ \E i \in Indexes, l \in KernelLink : KernelSetLink(i, l)
    \/ \E i \in Indexes : KernelDelLink(i)
    \/ \E a \in Indexes \X Ips : KernelAddr(a)
    \/ \E k \in NeighKeys, nud \in NeighNuds : KernelSetNeigh(k, nud)
    \/ \E k \in NeighKeys : KernelDelNeigh(k)
    \/ \E k \in FdbKeys, e \in KernelFdb : KernelSetFdb(k, e)
    \/ \E k \in FdbKeys : KernelDelFdb(k)

Next == KernelStep \/ Subscribe \/ DumpRequest \/ DumpMessage \/ DumpDone
        \/ LiveMessage

Spec == Init /\ [][Next]_vars

-----------------------------------------------------------------------------
(* Properties *)

\* Every variable has its type.
TypeOK ==
    /\ klink \in [Indexes -> KernelLink \cup {None}]
    /\ born \in [Indexes -> Names \cup {None}] /\ kaddr \subseteq Indexes \X Ips
    /\ kneigh \in [NeighKeys -> NeighNuds \cup {None}]
    /\ kfdb \in [FdbKeys -> KernelFdb \cup {None}]
    /\ stage \in 0 .. 5 /\ Len(socket) =< MaxChanges
    /\ ifcache \in [Indexes -> Names \cup {None}]
    /\ links \in [Ifnames -> LinkState \cup {None}]
    /\ addrs \subseteq Ifnames \X Ips
    /\ fdb \in [Macs -> FdbState \cup {None}]
    /\ neighbors \in [CacheKeys -> Nuds \cup {None}]
    /\ ips \in [Macs -> SUBSET Ips]
    /\ devices \in [Macs -> Device \cup {None}]
    /\ renamed \subseteq Names /\ failed \subseteq Names \X Macs \X Ips
    /\ dropped \subseteq Macs

\* Deduplication never hides a change: what the consumer was told is what the
\* cache holds, for every kind of entry, through the mapper's conversions.
CacheTold ==
    /\ told.links = [n \in Ifnames |-> ToldLink(links[n])]
    /\ told.addrs = addrs
    /\ told.neighbors = [k \in CacheKeys |-> ToldNeigh(neighbors[k])]
    /\ told.fdb = [m \in Macs |-> ToldFdb(fdb[m])]

\* A merged device lists only addresses some cached neighbour entry backs,
\* and only a bridge entry makes it present.
DeviceBacked ==
    \A m \in Macs : devices[m] # None =>
        /\ \A ip \in devices[m].ips :
               \E n \in Ifnames : neighbors[<<n, m, ip>>] # None
        /\ devices[m].present = (fdb[m] # None)

\* The cache hides nothing from the consumer and invents nothing about a MAC.
CacheSound == CacheTold /\ DeviceBacked

\* The links of the kernel that have name n.
Named(n) == {i \in Indexes : klink[i] # None /\ klink[i].name = n}

\* The dump is over and the notifications queued while it ran are handled.
Settled == stage = 5 /\ socket = <<>>

\* Every link is cached under its name, and nothing else under a name no
\* rename was about (a renamed link leaves its old name behind).
LinksConverge ==
    Settled =>
      /\ \A n \in Names : \A i \in Named(n) :
           links[n] # None /\ links[n].index = i /\ links[n].up = klink[i].up
      /\ \A n \in Names \ renamed : links[n] # None => Named(n) # {}

\* Under such a name the cached addresses are the kernel's.
AddressesConverge ==
    Settled => \A n \in Names \ renamed :
      {ip \in Ips : <<n, ip>> \in addrs} = {a[2] : a \in {b \in kaddr : b[1] \in Named(n)}}

\* So are the neighbour entries, but for a MAC that its address lost, by a
\* failure or to another MAC: it lingers in the cache, even after the
\* interface went and another has its name.
NeighborsConverge ==
    Settled => \A n \in Names \ renamed :
      IsWatched(n) => \A i \in Named(n), m \in Macs, ip \in Ips :
        <<n, m, ip>> \in failed \/ neighbors[<<n, m, ip>>] = kneigh[<<i, m, ip>>]

\* The MACs some table of a bridge has.
Learned(m) == \E t \in Fdbs : kfdb[<<m, t>>] # None

\* And exactly the MACs the bridges know have a bridge entry, but for one
\* that was in several tables and last went from one of them: keyed by MAC,
\* the cache drops it while the bridge still has it.
BridgeConverges ==
    Settled => (Watched = {} => \A m \in Macs :
                  fdb[m] # None <=> Learned(m) /\ m \notin dropped)

\* Whatever changed in the kernel while the dump read its tables one by one,
\* once the queued notifications are handled the cache holds the tables.
CacheConverges ==
    LinksConverge /\ AddressesConverge /\ NeighborsConverge /\ BridgeConverges

=============================================================================
