------------------------- MODULE NetlinkStateProofs -------------------------
(***************************************************************************)
(* Proofs about the netlink parser and its state cache.                    *)
(*                                                                         *)
(* That the cache is sound needs no more than the cache itself.  That it   *)
(* converges is an argument about the socket: of every subject (a link, an *)
(* address, a neighbour entry, a bridge entry) either the last message     *)
(* waiting about it agrees with the kernel as it is now, or none waits and *)
(* the cache agrees, together with what is left of the running answer.  A  *)
(* change of the kernel sends a message that agrees (Noticed); handling    *)
(* the last one makes the cache agree.  What makes this hard is the name   *)
(* under which a message is filed: it is resolved when the message is      *)
(* handled, perhaps after the link has gone.  Naming, Announced and        *)
(* Succession say when it still resolves, Harmless what is lost when it    *)
(* does not.                                                               *)
(***************************************************************************)
EXTENDS NetlinkState, SequenceTheorems, TLAPS

-----------------------------------------------------------------------------
(* Messages *)

LinkMsgs == [type : {"newlink", "dellink"}, index : Indexes, name : Names, up : BOOLEAN,
             master : Indexes \cup {None}]
AddrMsgs == [type : {"newaddr", "deladdr"}, index : Indexes, ip : Ips]
\* Only a failed entry's message is without a MAC.
NeighMsgs == {m \in [type : {"newneigh", "delneigh"}, index : Indexes, ip : Ips,
                     nud : NeighNuds, mac : Macs \cup {None}] :
                m.mac # None => m.mac \in Macs /\ m.nud \in Nuds}
FdbMsgs == [type : {"newfdb", "delfdb"}, index : Indexes, mac : Macs, bits : FdbBits]
Msgs == LinkMsgs \cup AddrMsgs \cup NeighMsgs \cup FdbMsgs

\* What the answer of request n holds.
Kind(n) ==
    CASE n = 1 -> {m \in LinkMsgs : m.type = "newlink"}
      [] n = 2 -> {m \in AddrMsgs : m.type = "newaddr"}
      [] n = 3 -> {m \in NeighMsgs : m.type = "newneigh"}
      [] n = 4 -> {m \in FdbMsgs : m.type = "newfdb"}

\* The type of a message tells what it carries.
LEMMA MsgKinds ==
    ASSUME NEW m \in Msgs
    PROVE  /\ m.type \in {"newlink", "dellink"} => m \in LinkMsgs
           /\ m.type \in {"newaddr", "deladdr"} => m \in AddrMsgs
           /\ m.type \in {"newneigh", "delneigh"} => m \in NeighMsgs
           /\ m.type \in {"newfdb", "delfdb"} => m \in FdbMsgs
  BY DEF Msgs, LinkMsgs, AddrMsgs, NeighMsgs, FdbMsgs

-----------------------------------------------------------------------------
(* The parts of the invariant *)

Kernel ==
    /\ klink \in [Indexes -> KernelLink \cup {None}]
    /\ born \in [Indexes -> Names \cup {None}] /\ kaddr \subseteq Indexes \X Ips
    /\ kneigh \in [NeighKeys -> NeighNuds \cup {None}]
    /\ kfdb \in [FdbKeys -> KernelFdb \cup {None}]
    /\ renamed \subseteq Names /\ failed \subseteq Names \X Macs \X Ips
    /\ dropped \subseteq Macs

\* Notifications and the answer of the running request.
Wire ==
    /\ socket \in Seq(Msgs) /\ Len(socket) =< changes
    /\ changes \in 0 .. MaxChanges
    /\ stage \in 0 .. 5
    /\ answer # None => stage \in 1 .. 4 /\ answer \subseteq Kind(stage)
    /\ stage = 0 => socket = <<>>

Cache ==
    /\ ifcache \in [Indexes -> Names \cup {None}]
    /\ links \in [Ifnames -> LinkState \cup {None}]
    /\ addrs \subseteq Ifnames \X Ips
    /\ fdb \in [Macs -> FdbState \cup {None}]
    /\ neighbors \in [CacheKeys -> Nuds \cup {None}]
    /\ ips \in [Macs -> SUBSET Ips]
    /\ devices \in [Macs -> Device \cup {None}]

\* What the consumer was told is the cache, converted.
Told ==
    told = [links |-> [n \in Ifnames |-> ToldLink(links[n])],
            addrs |-> addrs,
            neighbors |-> [k \in CacheKeys |-> ToldNeigh(neighbors[k])],
            fdb |-> [m \in Macs |-> ToldFdb(fdb[m])]]

\* refreshMergedDeviceLocked's device, and the addresses of the aggregate.
Merged(entry, addresses) ==
    IF entry = None /\ addresses = {} THEN None
    ELSE [ifname |-> IF entry = None THEN None ELSE entry.port,
          ips |-> addresses, present |-> entry # None]

Aggregates ==
    \A m \in Macs :
        /\ devices[m] = Merged(fdb[m], ips[m])
        /\ \A ip \in ips[m] : \E n \in Ifnames : neighbors[<<n, m, ip>>] # None

Sound == Cache /\ Told /\ Aggregates

-----------------------------------------------------------------------------
(* NetlinkState's operations *)

\* updateLink keeps the cache sound: what it removes it reports.
LEMMA UpdateLinkSound ==
    ASSUME Sound, NEW n \in Ifnames, NEW present \in BOOLEAN, NEW l \in LinkState,
           updateLink(n, present, l), ifcache' \in [Indexes -> Names \cup {None}]
    PROVE  Sound'
  <1>0. Cache /\ Told /\ Aggregates
    BY DEF Sound
  <1>1. UNCHANGED <<fdb, neighbors, ips, devices>>
    BY DEF updateLink, UnchangedBut
  <1>2. CASE present
    <2>1. links' = [links EXCEPT ![n] = l] /\ UNCHANGED addrs
          /\ told' = IF links[n] # l THEN [told EXCEPT !.links[n] = ToldLink(l)] ELSE told
      BY <1>2 DEF updateLink, UnchangedBut
    <2>2. Cache'
      BY <1>0, <1>1, <2>1 DEF Cache
    <2>3. Told'
      BY <1>0, <1>1, <2>1 DEF Told, Cache
    <2> QED
      BY <1>0, <1>1, <2>2, <2>3 DEF Sound, Aggregates
  <1>3. CASE ~present
    <2>1. links' = [links EXCEPT ![n] = None] /\ addrs' = {a \in addrs : a[1] # n}
          /\ told' = IF links[n] # None \/ addrs' # addrs
                    THEN [told EXCEPT !.links[n] = None,
                                      !.addrs = {a \in @ : a[1] # n}]
                    ELSE told
      BY <1>3 DEF updateLink, UnchangedBut
    <2>2. Cache'
      BY <1>0, <1>1, <2>1 DEF Cache
    <2>3. Told'
      BY <1>0, <1>1, <2>1 DEF Told, Cache, ToldLink
    <2> QED
      BY <1>0, <1>1, <2>2, <2>3 DEF Sound, Aggregates
  <1> QED
    BY <1>2, <1>3

\* So does updateAddress.
LEMMA UpdateAddressSound ==
    ASSUME Sound, NEW n \in Ifnames, NEW ip \in Ips, NEW present \in BOOLEAN,
           updateAddress(n, ip, present), ifcache' \in [Indexes -> Names \cup {None}]
    PROVE  Sound'
  <1>0. Cache /\ Told /\ Aggregates
    BY DEF Sound
  <1>1. UNCHANGED <<links, fdb, neighbors, ips, devices>>
    BY DEF updateAddress, UnchangedBut
  <1>2. Cache'
    BY <1>0, <1>1 DEF Cache, updateAddress
  <1>3. Told'
    BY <1>0, <1>1 DEF Told, Cache, updateAddress
  <1> QED
    BY <1>0, <1>1, <1>2, <1>3 DEF Sound, Aggregates

\* So does updateFdb, with the merged device.
LEMMA UpdateFdbSound ==
    ASSUME Sound, NEW n \in Ifnames, NEW m \in Macs, NEW bits \in FdbBits,
           NEW present \in BOOLEAN, updateFdb(n, m, bits, present),
           ifcache' \in [Indexes -> Names \cup {None}]
    PROVE  Sound'
  <1> DEFINE entry == IF present THEN [port |-> n, bits |-> bits] ELSE None
  <1>0. Cache /\ Told /\ Aggregates
    BY DEF Sound
  <1>1. /\ UNCHANGED <<links, addrs, neighbors, ips>>
        /\ fdb' = [fdb EXCEPT ![m] = entry]
        /\ told' = IF ~present \/ fdb[m] # entry
                   THEN [told EXCEPT !.fdb[m] = ToldFdb(entry)] ELSE told
        /\ devices' = [devices EXCEPT ![m] = Merged(entry, ips[m])]
    BY DEF updateFdb, UnchangedBut, refreshMergedDevice, Merged
  <1>2. entry \in FdbState \cup {None}
    BY DEF FdbState
  <1> HIDE DEF entry
  <1>3. Merged(entry, ips[m]) \in Device \cup {None}
    BY <1>0, <1>2 DEF Cache, Merged, Device, FdbState
  <1>4. Cache'
    BY <1>0, <1>1, <1>2, <1>3 DEF Cache
  <1>5. Told'
    BY <1>0, <1>1, <1>2 DEF Told, Cache
  <1>6. Aggregates'
    BY <1>0, <1>1 DEF Aggregates, Cache
  <1> QED
    BY <1>4, <1>5, <1>6 DEF Sound

\* So does updateNeighbor: an address of the aggregate is backed by the entry
\* that put it there, and goes with any entry that has it.
LEMMA UpdateNeighborSound ==
    ASSUME Sound, NEW n \in Ifnames, NEW m \in Macs, NEW ip \in Ips, NEW nud \in Nuds,
           NEW present \in BOOLEAN, updateNeighbor(n, m, ip, nud, present),
           ifcache' \in [Indexes -> Names \cup {None}]
    PROVE  Sound'
  <1> DEFINE key == <<n, m, ip>>
             entry == IF present THEN nud ELSE None
             addresses == IF present THEN ips[m] \cup {ip} ELSE ips[m] \ {ip}
  <1>0. Cache /\ Told /\ Aggregates
    BY DEF Sound
  <1>1. /\ UNCHANGED <<links, addrs, fdb>>
        /\ neighbors' = [neighbors EXCEPT ![key] = entry]
        /\ told' = IF neighbors[key] # entry
                   THEN [told EXCEPT !.neighbors[key] = ToldNeigh(entry)] ELSE told
        /\ ips' = [ips EXCEPT ![m] = addresses]
        /\ devices' = [devices EXCEPT ![m] = Merged(fdb[m], addresses)]
    BY DEF updateNeighbor, UnchangedBut, refreshMergedDevice, Merged
  <1>2. /\ entry \in Nuds \cup {None} /\ key \in CacheKeys
        /\ addresses \in SUBSET Ips
        /\ present => entry # None
    BY <1>0, StateValues DEF Cache, CacheKeys
  <1>3. Merged(fdb[m], addresses) \in Device \cup {None}
    <2>1. fdb[m] \in FdbState \cup {None}
      BY <1>0 DEF Cache
    <2> HIDE DEF addresses
    <2> QED
      BY <1>2, <2>1 DEF Merged, Device, FdbState
  <1>4. Cache'
    <2> HIDE DEF key, entry, addresses
    <2> QED
      BY <1>0, <1>1, <1>2, <1>3 DEF Cache
  <1>5. Told'
    <2> HIDE DEF key, entry, addresses
    <2> QED
      BY <1>0, <1>1, <1>2 DEF Told, Cache
  <1>6. ASSUME NEW x \in Macs
        PROVE  /\ devices'[x] = Merged(fdb'[x], ips'[x])
               /\ \A p \in ips'[x] : \E i \in Ifnames : neighbors'[<<i, x, p>>] # None
    <2>1. devices'[x] = Merged(fdb'[x], ips'[x])
      <3> HIDE DEF key, entry, addresses
      <3> QED
        BY <1>0, <1>1 DEF Aggregates, Cache
    <2>2. ASSUME NEW p \in ips'[x]
          PROVE  \E i \in Ifnames : neighbors'[<<i, x, p>>] # None
      <3>0. p \in Ips
        BY <1>4, <2>2 DEF Cache
      <3>1. CASE x = m /\ p = ip
        <4>1. present
          BY <1>0, <1>1, <2>2, <3>1 DEF Cache
        <4>2. neighbors'[<<n, x, p>>] # None
          BY <1>0, <1>1, <1>2, <3>1, <4>1 DEF Cache
        <4> QED
          BY <4>2
      <3>2. CASE ~(x = m /\ p = ip)
        <4>1. p \in ips[x]
          BY <1>0, <1>1, <2>2, <3>2 DEF Cache
        <4>2. PICK i \in Ifnames : neighbors[<<i, x, p>>] # None
          BY <1>0, <4>1 DEF Aggregates
        <4>3. <<i, x, p>> \in CacheKeys /\ <<i, x, p>> # key
          BY <3>0, <3>2 DEF CacheKeys
        <4> QED
          BY <1>0, <1>1, <4>2, <4>3 DEF Cache
      <3> QED
        BY <3>1, <3>2
    <2> QED
      BY <2>1, <2>2
  <1> QED
    BY <1>4, <1>5, <1>6 DEF Sound, Aggregates

-----------------------------------------------------------------------------
(* NetlinkParser *)

\* resolve() yields a name or a number; the cache holds names only.
LEMMA ResolveType ==
    ASSUME Kernel, NEW c \in [Indexes -> Names \cup {None}], NEW i \in Indexes
    PROVE  Resolve(c, i) \in Ifnames /\ Learn(c, i) \in [Indexes -> Names \cup {None}]
  <1>1. NameNow(i) \in Names \cup {None}
    BY DEF Kernel, KernelLink, NameNow
  <1>2. c[i] \in Names \cup {None} /\ Numeral(i) \in Ifnames /\ Names \subseteq Ifnames
    BY DEF Ifnames
  <1> QED
    BY <1>1, <1>2 DEF Resolve, Learn

\* A message leaves a sound cache.
LEMMA ProcessSound ==
    ASSUME Kernel, Sound, NEW m \in Msgs, processMessage(m)
    PROVE  Sound'
  <1>0. ifcache \in [Indexes -> Names \cup {None}] /\ Names \subseteq Ifnames
    BY DEF Sound, Cache, Ifnames
  <1>1. CASE m.type \in {"newlink", "dellink"} /\ handleLink(m)
    <2>1. m.index \in Indexes /\ m.name \in Names /\ m.up \in BOOLEAN
          /\ m.master \in Indexes \cup {None} /\ (m.type = "newlink") \in BOOLEAN
      BY <1>1, MsgKinds DEF LinkMsgs
    <2> DEFINE removed == IF m.type = "dellink" THEN [ifcache EXCEPT ![m.index] = None]
                          ELSE ifcache
               put == [removed EXCEPT ![m.index] = m.name]
               master == IF m.master = None THEN None ELSE Resolve(put, m.master)
               l == [index |-> m.index, up |-> m.up, masterIndex |-> m.master,
                     master |-> master]
    <2>2. put \in [Indexes -> Names \cup {None}]
      BY <1>0, <2>1
    <2>3. /\ ifcache' = IF m.master = None THEN put ELSE Learn(put, m.master)
          /\ updateLink(m.name, m.type = "newlink", l)
      BY <1>1 DEF handleLink
    <2> HIDE DEF put
    <2>4. master \in Ifnames \cup {None} /\ ifcache' \in [Indexes -> Names \cup {None}]
      BY <2>1, <2>2, <2>3, ResolveType
    <2> HIDE DEF master
    <2>5. l \in LinkState
      BY <2>1, <2>4 DEF LinkState
    <2> HIDE DEF l
    <2> QED
      BY <1>0, <2>1, <2>3, <2>4, <2>5, UpdateLinkSound
  <1>2. CASE m.type \in {"newaddr", "deladdr"} /\ handleAddr(m)
    <2>1. m.index \in Indexes /\ m.ip \in Ips /\ (m.type = "newaddr") \in BOOLEAN
      BY <1>2, MsgKinds DEF AddrMsgs
    <2>2. /\ Resolve(ifcache, m.index) \in Ifnames
          /\ Learn(ifcache, m.index) \in [Indexes -> Names \cup {None}]
      BY <1>0, <2>1, ResolveType
    <2> QED
      BY <1>2, <2>1, <2>2, UpdateAddressSound DEF handleAddr
  <1>3. CASE m.type \in {"newneigh", "delneigh"} /\ handleNeighborL3(m)
    <2>1. /\ m.index \in Indexes /\ m.ip \in Ips /\ (m.type = "newneigh") \in BOOLEAN
          /\ m.mac # None => m.mac \in Macs /\ m.nud \in Nuds
      BY <1>3, MsgKinds DEF NeighMsgs
    <2>2. /\ Resolve(ifcache, m.index) \in Ifnames
          /\ Learn(ifcache, m.index) \in [Indexes -> Names \cup {None}]
      BY <1>0, <2>1, ResolveType
    <2>3. CASE /\ m.mac # None
               /\ updateNeighbor(Resolve(ifcache, m.index), m.mac, m.ip, m.nud,
                                 m.type = "newneigh")
      BY <1>3, <2>1, <2>2, <2>3, UpdateNeighborSound DEF handleNeighborL3
    <2>4. CASE Ignore
      BY <1>3, <2>2, <2>4 DEF handleNeighborL3, Ignore, Sound, Cache, Told, Aggregates
    <2> QED
      BY <1>3, <2>3, <2>4 DEF handleNeighborL3
  <1>4. CASE m.type \in {"newfdb", "delfdb"} /\ handleFdb(m)
    <2>1. /\ m.index \in Indexes /\ m.mac \in Macs /\ m.bits \in FdbBits
          /\ (m.type = "newfdb") \in BOOLEAN
      BY <1>4, MsgKinds DEF FdbMsgs
    <2>2. /\ Resolve(ifcache, m.index) \in Ifnames
          /\ Learn(ifcache, m.index) \in [Indexes -> Names \cup {None}]
      BY <1>0, <2>1, ResolveType
    <2>3. CASE updateFdb(Resolve(ifcache, m.index), m.mac, m.bits, m.type = "newfdb")
      BY <1>4, <2>1, <2>2, <2>3, UpdateFdbSound DEF handleFdb
    <2>4. CASE Ignore
      BY <1>4, <2>2, <2>4 DEF handleFdb, Ignore, Sound, Cache, Told, Aggregates
    <2> QED
      BY <1>4, <2>3, <2>4 DEF handleFdb
  <1> QED
    BY <1>1, <1>2, <1>3, <1>4 DEF processMessage

-----------------------------------------------------------------------------
(* The kernel *)

\* What a change of the kernel sends.
LEMMA MessageTypes ==
    /\ \A type \in {"newlink", "dellink"}, i \in Indexes, l \in KernelLink :
         LinkMsg(type, i, l) \in LinkMsgs
    /\ \A type \in {"newaddr", "deladdr"}, a \in Indexes \X Ips : AddrMsg(type, a) \in AddrMsgs
    /\ \A type \in {"newneigh", "delneigh"}, k \in NeighKeys, nud \in NeighNuds :
         NeighMsg(type, k, nud) \in NeighMsgs
    /\ \A type \in {"newfdb", "delfdb"}, m \in Macs, e \in KernelFdb :
         FdbMsg(type, m, e) \in FdbMsgs
  <1>1. ASSUME NEW type \in {"newlink", "dellink"}, NEW i \in Indexes, NEW l \in KernelLink
        PROVE  LinkMsg(type, i, l) \in LinkMsgs
    BY DEF LinkMsg, LinkMsgs, KernelLink
  <1>2. ASSUME NEW type \in {"newaddr", "deladdr"}, NEW a \in Indexes \X Ips
        PROVE  AddrMsg(type, a) \in AddrMsgs
    BY DEF AddrMsg, AddrMsgs
  <1>3. ASSUME NEW type \in {"newneigh", "delneigh"}, NEW k \in NeighKeys, NEW nud \in NeighNuds
        PROVE  NeighMsg(type, k, nud) \in NeighMsgs
    <2> DEFINE m == IF nud = "failed" THEN None ELSE k[2]
               r == [type |-> type, index |-> k[1], ip |-> k[3], nud |-> nud, mac |-> m]
    <2>1. k[1] \in Indexes /\ k[2] \in Macs /\ k[3] \in Ips
      BY DEF NeighKeys
    <2>2. m \in Macs \cup {None} /\ (m # None => m \in Macs /\ nud \in Nuds)
      BY <2>1 DEF NeighNuds
    <2>3. NeighMsg(type, k, nud) = r
      BY DEF NeighMsg
    <2> HIDE DEF m
    <2>4. r \in NeighMsgs
      BY <2>1, <2>2 DEF NeighMsgs
    <2> QED
      BY <2>3, <2>4
  <1>4. ASSUME NEW type \in {"newfdb", "delfdb"}, NEW m \in Macs,
               NEW e \in KernelFdb
        PROVE  FdbMsg(type, m, e) \in FdbMsgs
    BY DEF FdbMsg, FdbMsgs, KernelFdb
  <1> QED
    BY <1>1, <1>2, <1>3, <1>4

\* What a new or changed neighbour entry does to the others: another MAC of
\* its address is gone, and recorded as lost.
LEMMA SetNeighFacts ==
    ASSUME Kernel, NEW k \in NeighKeys, NEW nud \in NeighNuds, KernelSetNeigh(k, nud)
    PROVE  /\ klink[k[1]] # None /\ klink[k[1]].name \in Names
           /\ k[1] \in Indexes /\ k[2] \in Macs /\ k[3] \in Ips /\ k = <<k[1], k[2], k[3]>>
           /\ Notify(NeighMsg("newneigh", k, nud)) /\ (nud = "failed" => kneigh[k] # None)
           /\ UNCHANGED <<klink, born, kaddr, kfdb, renamed, dropped>>
           /\ kneigh' \in [NeighKeys -> NeighNuds \cup {None}] /\ kneigh'[k] = nud
           /\ \A q \in NeighKeys \ {k} :
                /\ kneigh'[q] \in {kneigh[q], None}
                /\ \/ kneigh'[q] = kneigh[q]
                   \/ q[1] = k[1] /\ q[3] = k[3]
                      /\ <<klink[k[1]].name, q[2], q[3]>> \in failed'
           /\ nud = "failed" => <<klink[k[1]].name, k[2], k[3]>> \in failed'
           /\ failed \ {<<klink[k[1]].name, k[2], k[3]>>} \subseteq failed'
           /\ failed' \subseteq Names \X Macs \X Ips
  <1> DEFINE name == klink[k[1]].name
             had == {m \in Macs \ {k[2]} : kneigh[<<k[1], m, k[3]>>] # None}
             lost == IF nud = "failed" THEN had \cup {k[2]} ELSE had
  <1>1. k[1] \in Indexes /\ k[2] \in Macs /\ k[3] \in Ips /\ k = <<k[1], k[2], k[3]>>
    BY DEF NeighKeys
  <1>2. klink[k[1]] # None /\ name \in Names
    BY <1>1 DEF KernelSetNeigh, Kernel, KernelLink
  <1>3. /\ kneigh' = [j \in NeighKeys |-> IF j = k THEN nud
                                          ELSE IF j[1] = k[1] /\ j[3] = k[3] THEN None
                                          ELSE kneigh[j]]
        /\ failed' = (failed \ {<<name, k[2], k[3]>>}) \cup {<<name, m, k[3]>> : m \in lost}
        /\ Notify(NeighMsg("newneigh", k, nud)) /\ (nud = "failed" => kneigh[k] # None)
        /\ UNCHANGED <<klink, born, kaddr, kfdb, renamed, dropped>>
    BY DEF KernelSetNeigh
  <1>4. lost \subseteq Macs
    BY <1>1
  <1>5. ASSUME NEW q \in NeighKeys \ {k}, kneigh'[q] # kneigh[q]
        PROVE  kneigh'[q] = None /\ q[1] = k[1] /\ q[3] = k[3] /\ q[2] \in lost
    <2>1. q[2] \in Macs /\ q = <<q[1], q[2], q[3]>>
      BY DEF NeighKeys
    <2>2. kneigh'[q] = None /\ q[1] = k[1] /\ q[3] = k[3]
      BY <1>3, <1>5
    <2> QED
      BY <1>1, <1>5, <2>1, <2>2
  <1>6. kneigh' \in [NeighKeys -> NeighNuds \cup {None}] /\ kneigh'[k] = nud
    BY <1>3 DEF Kernel
  <1>7. nud = "failed" => k[2] \in lost
    OBVIOUS
  <1> HIDE DEF name, lost
  <1>8. failed' \subseteq Names \X Macs \X Ips
    BY <1>1, <1>2, <1>3, <1>4 DEF Kernel
  <1>9. \A m \in lost : <<name, m, k[3]>> \in failed'
    BY <1>3
  <1>10. failed \ {<<name, k[2], k[3]>>} \subseteq failed'
    BY <1>3
  <1>11. ASSUME NEW q \in NeighKeys \ {k}
         PROVE  /\ kneigh'[q] \in {kneigh[q], None}
                /\ \/ kneigh'[q] = kneigh[q]
                   \/ q[1] = k[1] /\ q[3] = k[3] /\ <<name, q[2], q[3]>> \in failed'
    BY <1>5, <1>9
  <1> QED
    BY <1>1, <1>2, <1>3, <1>6, <1>7, <1>8, <1>9, <1>10, <1>11 DEF name

\* The notification of a change.
Notified == \E m \in Msgs : Notify(m)

\* Every change of the kernel keeps its types and sends a notification.
LEMMA KernelMoves ==
    ASSUME Kernel, KernelStep
    PROVE  Kernel' /\ Notified
  <1> USE DEF Kernel
  <1>1. ASSUME NEW i \in Indexes, NEW l \in KernelLink, KernelSetLink(i, l)
        PROVE  Kernel' /\ Notified
    <2>1. LinkMsg("newlink", i, l) \in Msgs
      BY MessageTypes DEF Msgs
    <2>2. renamed' \subseteq Names /\ born' \in [Indexes -> Names \cup {None}]
      BY <1>1 DEF KernelSetLink, KernelLink
    <2>3. Kernel'
      BY <1>1, <2>2 DEF KernelSetLink
    <2> QED
      BY <1>1, <2>1, <2>3 DEF KernelSetLink, Notified
  <1>2. ASSUME NEW i \in Indexes, KernelDelLink(i)
        PROVE  Kernel' /\ Notified
    <2>1. klink[i] \in KernelLink
      BY <1>2 DEF KernelDelLink
    <2>2. LinkMsg("dellink", i, klink[i]) \in Msgs
      BY <2>1, MessageTypes DEF Msgs
    <2> QED
      BY <1>2, <2>2 DEF KernelDelLink, Notified
  <1>3. ASSUME NEW a \in Indexes \X Ips, KernelAddr(a)
        PROVE  Kernel' /\ Notified
    <2>1. AddrMsg("newaddr", a) \in Msgs /\ AddrMsg("deladdr", a) \in Msgs
      BY MessageTypes DEF Msgs
    <2> QED
      BY <1>3, <2>1 DEF KernelAddr, Notified
  <1>4. ASSUME NEW k \in NeighKeys, NEW nud \in NeighNuds, KernelSetNeigh(k, nud)
        PROVE  Kernel' /\ Notified
    <2>1. NeighMsg("newneigh", k, nud) \in Msgs
      BY MessageTypes DEF Msgs
    <2> QED
      BY <1>4, <2>1, SetNeighFacts DEF Notified
  <1>5. ASSUME NEW k \in NeighKeys, KernelDelNeigh(k)
        PROVE  Kernel' /\ Notified
    <2>1. kneigh[k] \in NeighNuds
      BY <1>5 DEF KernelDelNeigh
    <2>2. NeighMsg("delneigh", k, kneigh[k]) \in Msgs
      BY <2>1, MessageTypes DEF Msgs
    <2> QED
      BY <1>5, <2>2 DEF KernelDelNeigh, Notified
  <1>6. ASSUME NEW k \in FdbKeys, NEW e \in KernelFdb, KernelSetFdb(k, e)
        PROVE  Kernel' /\ Notified
    <2>1. FdbMsg("newfdb", k[1], e) \in Msgs
      BY MessageTypes DEF Msgs, FdbKeys
    <2> QED
      BY <1>6, <2>1 DEF KernelSetFdb, Notified
  <1>7. ASSUME NEW k \in FdbKeys, KernelDelFdb(k)
        PROVE  Kernel' /\ Notified
    <2>1. kfdb[k] \in KernelFdb /\ k[1] \in Macs
      BY <1>7 DEF KernelDelFdb, FdbKeys
    <2>2. FdbMsg("delfdb", k[1], kfdb[k]) \in Msgs
      BY <2>1, MessageTypes DEF Msgs
    <2> QED
      BY <1>7, <2>1, <2>2 DEF KernelDelFdb, Notified
  <1> QED
    BY <1>1, <1>2, <1>3, <1>4, <1>5, <1>6, <1>7 DEF KernelStep

\* An answer holds messages of its table's kind.
LEMMA TableKind ==
    ASSUME Kernel, NEW n \in 1 .. 4
    PROVE  Table(n) \subseteq Kind(n) /\ Kind(n) \subseteq Msgs
  <1>1. CASE n = 1
    <2>1. Table(n) = {LinkMsg("newlink", i, klink[i]) : i \in {j \in Indexes : klink[j] # None}}
          /\ Kind(n) = {m \in LinkMsgs : m.type = "newlink"}
      BY <1>1 DEF Table, Kind
    <2> QED
      BY <2>1, MessageTypes DEF Kernel, Msgs, LinkMsg, AddrMsg, NeighMsg, FdbMsg
  <1>2. CASE n = 2
    <2>1. Table(n) = {AddrMsg("newaddr", a) : a \in kaddr}
          /\ Kind(n) = {m \in AddrMsgs : m.type = "newaddr"}
      BY <1>2 DEF Table, Kind
    <2> QED
      BY <2>1, MessageTypes DEF Kernel, Msgs, LinkMsg, AddrMsg, NeighMsg, FdbMsg
  <1>3. CASE n = 3
    <2>1. Table(n) = {NeighMsg("newneigh", k, kneigh[k]) :
                        k \in {j \in NeighKeys : kneigh[j] # None}}
          /\ Kind(n) = {m \in NeighMsgs : m.type = "newneigh"}
      BY <1>3 DEF Table, Kind
    <2> QED
      BY <2>1, MessageTypes DEF Kernel, Msgs, LinkMsg, AddrMsg, NeighMsg, FdbMsg
  <1>4. CASE n = 4
    <2>1. Table(n) = {FdbMsg("newfdb", k[1], kfdb[k]) : k \in {j \in FdbKeys : kfdb[j] # None}}
          /\ Kind(n) = {m \in FdbMsgs : m.type = "newfdb"}
      BY <1>4 DEF Table, Kind
    <2>2. \A k \in FdbKeys : k[1] \in Macs
      BY DEF FdbKeys
    <2> QED
      BY <2>1, <2>2, MessageTypes DEF Kernel, Msgs, LinkMsg, AddrMsg, NeighMsg, FdbMsg
  <1> QED
    BY <1>1, <1>2, <1>3, <1>4

-----------------------------------------------------------------------------
(* The socket: what its last message about a subject says *)

\* No message of s is in S; the last one that is in S is in G.
Silent(s, S) == \A j \in 1 .. Len(s) : s[j] \notin S
Ends(s, S, G) ==
    \E j \in 1 .. Len(s) : /\ s[j] \in S /\ s[j] \in G
                           /\ \A k \in j + 1 .. Len(s) : s[k] \notin S

\* A notification about the subject is the last one, any other changes
\* nothing.
LEMMA AppendEnds ==
    ASSUME NEW s \in Seq(Msgs), NEW m \in Msgs, NEW S, NEW G
    PROVE  /\ m \in S /\ m \in G => Ends(Append(s, m), S, G)
           /\ m \notin S /\ Ends(s, S, G) => Ends(Append(s, m), S, G)
           /\ m \notin S /\ Silent(s, S) => Silent(Append(s, m), S)
  <1> DEFINE t == Append(s, m)
  <1>1. Len(t) = Len(s) + 1 /\ Len(s) \in Nat /\ t[Len(s) + 1] = m
        /\ \A j \in 1 .. Len(s) : t[j] = s[j]
    OBVIOUS
  <1> HIDE DEF t
  <1>2. ASSUME m \in S, m \in G
        PROVE  Ends(t, S, G)
    BY <1>1, <1>2 DEF Ends
  <1>3. ASSUME m \notin S, Ends(s, S, G)
        PROVE  Ends(t, S, G)
    <2>1. PICK j \in 1 .. Len(s) : /\ s[j] \in S /\ s[j] \in G
                                   /\ \A k \in j + 1 .. Len(s) : s[k] \notin S
      BY <1>3 DEF Ends
    <2>2. j \in 1 .. Len(t) /\ t[j] = s[j]
      BY <1>1, <2>1
    <2>3. ASSUME NEW k \in j + 1 .. Len(t)
          PROVE  t[k] \notin S
      BY <1>1, <1>3, <2>1
    <2> QED
      BY <2>1, <2>2, <2>3 DEF Ends
  <1>4. ASSUME m \notin S, Silent(s, S)
        PROVE  Silent(t, S)
    BY <1>1, <1>4 DEF Silent
  <1> QED
    BY <1>2, <1>3, <1>4 DEF t

\* Handling the oldest message: it was the last word, or not.
LEMMA TailEnds ==
    ASSUME NEW s \in Seq(Msgs), s # <<>>, NEW S, NEW G
    PROVE  /\ Head(s) \in Msgs /\ Tail(s) \in Seq(Msgs) /\ Len(Tail(s)) = Len(s) - 1
           /\ Ends(s, S, G) => \/ Ends(Tail(s), S, G)
                               \/ Silent(Tail(s), S) /\ Head(s) \in S /\ Head(s) \in G
           /\ Silent(s, S) => Silent(Tail(s), S) /\ Head(s) \notin S
  <1> DEFINE t == Tail(s)
  <1>1. /\ Len(s) \in Nat /\ Len(s) >= 1 /\ Len(t) = Len(s) - 1
        /\ Head(s) = s[1] /\ t \in Seq(Msgs) /\ Head(s) \in Msgs
        /\ \A j \in 1 .. Len(t) : t[j] = s[j + 1]
    OBVIOUS
  <1> HIDE DEF t
  <1>2. ASSUME Ends(s, S, G)
        PROVE  Ends(t, S, G) \/ (Silent(t, S) /\ Head(s) \in S /\ Head(s) \in G)
    <2>1. PICK j \in 1 .. Len(s) : /\ s[j] \in S /\ s[j] \in G
                                   /\ \A k \in j + 1 .. Len(s) : s[k] \notin S
      BY <1>2 DEF Ends
    <2>2. CASE j = 1
      BY <1>1, <2>1, <2>2 DEF Silent
    <2>3. CASE j # 1
      <3>1. j - 1 \in 1 .. Len(t) /\ t[j - 1] = s[j]
        BY <1>1, <2>1, <2>3
      <3>2. ASSUME NEW k \in (j - 1) + 1 .. Len(t)
            PROVE  t[k] \notin S
        <4>1. k \in 1 .. Len(t) /\ k + 1 \in j + 1 .. Len(s)
          BY <1>1, <2>1
        <4> QED
          BY <1>1, <2>1, <4>1
      <3> QED
        BY <2>1, <3>1, <3>2 DEF Ends
    <2> QED
      BY <2>2, <2>3
  <1>3. ASSUME Silent(s, S)
        PROVE  Silent(t, S) /\ Head(s) \notin S
    <2>1. Head(s) \notin S
      BY <1>1, <1>3 DEF Silent
    <2>2. ASSUME NEW j \in 1 .. Len(t)
          PROVE  t[j] \notin S
      BY <1>1, <1>3 DEF Silent
    <2> QED
      BY <2>1, <2>2 DEF Silent
  <1> QED
    BY <1>1, <1>2, <1>3 DEF t

\* An empty socket says nothing.
LEMMA EmptySocket ==
    ASSUME NEW S, NEW G
    PROVE  Silent(<<>>, S) /\ ~Ends(<<>>, S, G)
  BY DEF Silent, Ends

\* Notifications and answers keep their types.
LEMMA WireStep ==
    ASSUME Kernel, Wire, [Next]_vars
    PROVE  Wire'
  <1> USE DEF Wire
  <1>0. MaxChanges \in Nat /\ None # {}
    BY StateValues, NoneIsNoEntry
  <1>1. CASE KernelStep
    <2>1. PICK m \in Msgs : Notify(m)
      BY <1>1, KernelMoves DEF Notified
    <2>2. changes < MaxChanges /\ changes' = changes + 1 /\ UNCHANGED <<stage, answer>>
          /\ socket' = IF stage = 0 THEN socket ELSE Append(socket, m)
      BY <2>1 DEF Notify
    <2>3. Append(socket, m) \in Seq(Msgs) /\ Len(Append(socket, m)) = Len(socket) + 1
          /\ Len(socket) \in Nat
      BY <2>1
    <2> QED
      BY <1>0, <2>2, <2>3
  <1>2. CASE Subscribe
    BY <1>2 DEF Subscribe
  <1>3. CASE DumpRequest
    <2>1. stage \in 1 .. 4 /\ answer' = Table(stage) /\ UNCHANGED <<socket, stage, changes>>
      BY <1>3 DEF DumpRequest
    <2> QED
      BY <2>1, TableKind
  <1>4. CASE DumpMessage
    BY <1>4 DEF DumpMessage
  <1>5. CASE DumpDone
    <2>1. stage \in 1 .. 4 /\ answer' = None /\ stage' = stage + 1 /\ UNCHANGED <<socket, changes>>
      BY <1>0, <1>5 DEF DumpDone
    <2> QED
      BY <2>1
  <1>6. CASE LiveMessage
    <2>1. socket # <<>> /\ stage = 5 /\ socket' = Tail(socket)
          /\ UNCHANGED <<stage, answer, changes>>
      BY <1>6 DEF LiveMessage
    <2>2. Tail(socket) \in Seq(Msgs) /\ Len(Tail(socket)) = Len(socket) - 1
          /\ Len(socket) \in Nat
      BY <2>1, TailEnds
    <2> QED
      BY <2>1, <2>2
  <1>7. CASE UNCHANGED vars
    BY <1>7 DEF vars
  <1> QED
    BY <1>1, <1>2, <1>3, <1>4, <1>5, <1>6, <1>7 DEF Next

\* What is sound stays sound.
LEMMA SoundStep ==
    ASSUME Kernel, Wire, Sound, [Next]_vars
    PROVE  Sound'
  <1>1. CASE UNCHANGED <<cached, told>>
    BY <1>1 DEF cached, Sound, Cache, Told, Aggregates
  <1>2. CASE KernelStep
    <2>1. PICK m \in Msgs : Notify(m)
      BY <1>2, KernelMoves DEF Notified
    <2> QED
      BY <1>1, <2>1 DEF Notify
  <1>3. CASE DumpMessage
    <2>1. PICK m \in answer : processMessage(m)
      BY <1>3 DEF DumpMessage
    <2>2. m \in Msgs
      BY <1>3, <2>1, TableKind DEF DumpMessage, Wire
    <2> QED
      BY <2>1, <2>2, ProcessSound
  <1>4. CASE LiveMessage
    <2>1. Head(socket) \in Msgs
      BY <1>4, TailEnds DEF LiveMessage, Wire
    <2> QED
      BY <1>4, <2>1, ProcessSound DEF LiveMessage
  <1>5. CASE Subscribe \/ DumpRequest \/ DumpDone \/ UNCHANGED vars
    BY <1>1, <1>5 DEF Subscribe, DumpRequest, DumpDone, vars
  <1> QED
    BY <1>2, <1>3, <1>4, <1>5 DEF Next

\* The kernel's tables keep their types.
LEMMA KernelTypes ==
    ASSUME Kernel, [Next]_vars
    PROVE  Kernel'
  <1>1. CASE KernelStep
    BY <1>1, KernelMoves
  <1>2. CASE UNCHANGED <<kernel, renamed, failed, dropped>>
    BY <1>2 DEF kernel, Kernel
  <1> QED
    BY <1>1, <1>2 DEF Next, Subscribe, DumpRequest, DumpMessage, DumpDone, LiveMessage, vars

\* The changes that do not concern a bridge.
LEMMA OtherNotified ==
    ASSUME Kernel, KernelStep
    PROVE  \/ \E y \in FdbKeys, e \in KernelFdb : KernelSetFdb(y, e)
           \/ \E y \in FdbKeys : KernelDelFdb(y)
           \/ \E x \in LinkMsgs \cup AddrMsgs \cup NeighMsgs : Notify(x) /\ UNCHANGED <<kfdb, dropped>>
  <1>1. ASSUME NEW i \in Indexes, NEW l \in KernelLink, KernelSetLink(i, l)
        PROVE  LinkMsg("newlink", i, l) \in LinkMsgs /\ Notify(LinkMsg("newlink", i, l))
               /\ UNCHANGED <<kfdb, dropped>>
    BY <1>1, MessageTypes DEF KernelSetLink
  <1>2. ASSUME NEW i \in Indexes, KernelDelLink(i)
        PROVE  LinkMsg("dellink", i, klink[i]) \in LinkMsgs
               /\ Notify(LinkMsg("dellink", i, klink[i])) /\ UNCHANGED <<kfdb, dropped>>
    BY <1>2, MessageTypes DEF KernelDelLink, Kernel
  <1>3. ASSUME NEW a \in Indexes \X Ips, KernelAddr(a)
        PROVE  \E x \in AddrMsgs : Notify(x) /\ UNCHANGED <<kfdb, dropped>>
    BY <1>3, MessageTypes DEF KernelAddr
  <1>4. ASSUME NEW k \in NeighKeys, NEW nud \in NeighNuds, KernelSetNeigh(k, nud)
        PROVE  \E x \in NeighMsgs : Notify(x) /\ UNCHANGED <<kfdb, dropped>>
    BY <1>4, MessageTypes DEF KernelSetNeigh
  <1>5. ASSUME NEW k \in NeighKeys, KernelDelNeigh(k)
        PROVE  \E x \in NeighMsgs : Notify(x) /\ UNCHANGED <<kfdb, dropped>>
    BY <1>5, MessageTypes DEF KernelDelNeigh, Kernel
  <1> QED
    BY <1>1, <1>2, <1>3, <1>4, <1>5 DEF KernelStep

-----------------------------------------------------------------------------
(* The bridge table *)

\* The messages about m's bridge entry, and those that agree with what the
\* kernel last said of it.
Known(m) == Learned(m) /\ m \notin dropped
BridgeMsgs(m) == {x \in FdbMsgs : x.mac = m}
BridgeTruth(m) == {x \in FdbMsgs : x.type = "newfdb" <=> Known(m)}

\* The last message about m agrees with it; without one the cache does,
\* together with the running answer.
BridgeLevel(m) ==
    /\ stage < 5 => m \notin dropped
    /\ stage = 4 /\ answer = None => (fdb[m] # None => Known(m))
    /\ stage = 4 /\ answer # None =>
         (Known(m) <=> (fdb[m] # None \/ \E x \in answer : x.mac = m))
    /\ stage = 5 => (Known(m) <=> fdb[m] # None)

Bridge ==
    Watched = {} => \A m \in Macs :
        /\ stage < 4 => fdb[m] = None
        /\ stage = 0 => m \notin dropped
        /\ \/ Ends(socket, BridgeMsgs(m), BridgeTruth(m))
           \/ Silent(socket, BridgeMsgs(m)) /\ BridgeLevel(m)

\* What a message does to m's bridge entry.
LEMMA ProcessBridge ==
    ASSUME Kernel, Sound, Watched = {}, NEW x \in Msgs, processMessage(x), NEW m \in Macs
    PROVE  /\ x \notin BridgeMsgs(m) => fdb'[m] = fdb[m]
           /\ x \in BridgeMsgs(m) => (fdb'[m] # None <=> x.type = "newfdb")
  <1>0. fdb \in [Macs -> FdbState \cup {None}] /\ ifcache \in [Indexes -> Names \cup {None}]
    BY DEF Sound, Cache
  <1>1. CASE x.type \in {"newfdb", "delfdb"}
    <2>1. x \in FdbMsgs /\ x.index \in Indexes /\ x.mac \in Macs /\ x.bits \in FdbBits
      BY <1>1, MsgKinds DEF FdbMsgs
    <2>2. handleFdb(x)
      BY <1>1 DEF processMessage
    <2> DEFINE n == Resolve(ifcache, x.index)
               entry == IF x.type = "newfdb" THEN [port |-> n, bits |-> x.bits] ELSE None
    <2>3. n \in Ifnames
      BY <1>0, <2>1, ResolveType
    <2>4. fdb' = [fdb EXCEPT ![x.mac] = entry]
      BY <2>2 DEF handleFdb, IsWatched, updateFdb
    <2>5. entry # None <=> x.type = "newfdb"
      BY <2>1, <2>3, NoneIsNoEntry DEF FdbState
    <2> HIDE DEF entry
    <2> QED
      BY <1>0, <2>1, <2>4, <2>5 DEF BridgeMsgs
  <1>2. CASE x.type \notin {"newfdb", "delfdb"}
    <2>1. x \notin BridgeMsgs(m)
      BY <1>2 DEF BridgeMsgs, FdbMsgs
    <2>2. UNCHANGED fdb
      BY <1>2 DEF processMessage, handleLink, handleAddr, handleNeighborL3, updateLink,
                  updateAddress, updateNeighbor, Ignore, UnchangedBut
    <2> QED
      BY <2>1, <2>2
  <1> QED
    BY <1>1, <1>2

\* Every step keeps what is known of the bridge table.
LEMMA BridgeStep ==
    ASSUME Kernel, Wire, Sound, Bridge, [Next]_vars
    PROVE  Bridge'
  <1> SUFFICES ASSUME Watched = {}, NEW m \in Macs
               PROVE  /\ stage' < 4 => fdb'[m] = None
                      /\ stage' = 0 => m \notin dropped'
                      /\ \/ Ends(socket', BridgeMsgs(m), BridgeTruth(m)')
                         \/ Silent(socket', BridgeMsgs(m)) /\ BridgeLevel(m)'
    BY DEF Bridge, BridgeMsgs
  <1>0. /\ stage < 4 => fdb[m] = None
        /\ stage = 0 => m \notin dropped
        /\ \/ Ends(socket, BridgeMsgs(m), BridgeTruth(m))
           \/ Silent(socket, BridgeMsgs(m)) /\ BridgeLevel(m)
    BY DEF Bridge
  <1>w. stage \in 0 .. 5 /\ socket \in Seq(Msgs) /\ None # {}
    BY NoneIsNoEntry DEF Wire
  <1>a. ASSUME NEW x \in Msgs, x \notin BridgeMsgs(m), Notify(x),
               Learned(m)' <=> Learned(m), m \in dropped' <=> m \in dropped
        PROVE  /\ stage' < 4 => fdb'[m] = None
               /\ stage' = 0 => m \notin dropped'
               /\ \/ Ends(socket', BridgeMsgs(m), BridgeTruth(m)')
                  \/ Silent(socket', BridgeMsgs(m)) /\ BridgeLevel(m)'
    <2>1. UNCHANGED <<stage, answer, fdb>>
          /\ socket' = IF stage = 0 THEN socket ELSE Append(socket, x)
      BY <1>a DEF Notify, cached
    <2>2. BridgeTruth(m)' = BridgeTruth(m) /\ (BridgeLevel(m) => BridgeLevel(m)')
      BY <1>a, <2>1 DEF BridgeTruth, BridgeLevel, Known
    <2> HIDE DEF Wire
    <2> QED
      BY <1>0, <1>w, <1>a, <2>1, <2>2, AppendEnds
  <1>b. ASSUME NEW x \in Msgs, x \in BridgeMsgs(m), x \in BridgeTruth(m)', Notify(x),
               stage = 0 => m \notin dropped'
        PROVE  /\ stage' < 4 => fdb'[m] = None
               /\ stage' = 0 => m \notin dropped'
               /\ \/ Ends(socket', BridgeMsgs(m), BridgeTruth(m)')
                  \/ Silent(socket', BridgeMsgs(m)) /\ BridgeLevel(m)'
    <2>1. UNCHANGED <<stage, answer, fdb>>
          /\ socket' = IF stage = 0 THEN socket ELSE Append(socket, x)
      BY <1>b DEF Notify, cached
    <2>2. CASE stage = 0
      <3>1. socket' = <<>> /\ BridgeLevel(m)'
        BY <1>b, <2>1, <2>2 DEF Wire, BridgeLevel
      <3> QED
        BY <1>0, <1>b, <2>1, <2>2, <3>1, EmptySocket
    <2>3. CASE stage # 0
      BY <1>0, <1>w, <1>b, <2>1, <2>3, AppendEnds
    <2> QED
      BY <2>2, <2>3
  <1>1. CASE KernelStep
    <2>1. ASSUME NEW y \in FdbKeys, NEW e \in KernelFdb, KernelSetFdb(y, e)
          PROVE  /\ stage' < 4 => fdb'[m] = None
                 /\ stage' = 0 => m \notin dropped'
                 /\ \/ Ends(socket', BridgeMsgs(m), BridgeTruth(m)')
                    \/ Silent(socket', BridgeMsgs(m)) /\ BridgeLevel(m)'
      <3> DEFINE x == FdbMsg("newfdb", y[1], e)
      <3>1. Notify(x) /\ kfdb' = [kfdb EXCEPT ![y] = e] /\ e # None /\ dropped' = dropped \ {y[1]}
        BY <2>1, NoneIsNoEntry DEF KernelSetFdb
      <3>0. y[1] \in Macs /\ y[2] \in Fdbs /\ y = <<y[1], y[2]>>
        BY DEF FdbKeys
      <3>2. x \in FdbMsgs /\ x \in Msgs /\ x.mac = y[1] /\ x.type = "newfdb"
        BY <3>0, MessageTypes DEF Msgs, FdbMsg
      <3> HIDE DEF x
      <3>3. CASE y[1] = m
        <4>1. kfdb'[<<m, y[2]>>] = e
          BY <3>0, <3>1, <3>3 DEF Kernel
        <4>2. Known(m)'
          BY <3>0, <3>1, <3>3, <4>1 DEF Known, Learned
        <4>3. x \in BridgeTruth(m)' /\ x \in BridgeMsgs(m)
          BY <3>2, <3>3, <4>2 DEF BridgeMsgs, BridgeTruth
        <4> QED
          BY <1>b, <3>1, <3>2, <3>3, <4>3
      <3>4. CASE y[1] # m
        <4>1. \A t \in Fdbs : kfdb'[<<m, t>>] = kfdb[<<m, t>>]
          BY <3>1, <3>4 DEF Kernel, FdbKeys
        <4>2. Learned(m)' <=> Learned(m)
          BY <4>1 DEF Learned
        <4> QED
          BY <1>a, <3>1, <3>2, <3>4, <4>2 DEF BridgeMsgs
      <3> QED
        BY <3>3, <3>4
    <2>2. ASSUME NEW y \in FdbKeys, KernelDelFdb(y)
          PROVE  /\ stage' < 4 => fdb'[m] = None
                 /\ stage' = 0 => m \notin dropped'
                 /\ \/ Ends(socket', BridgeMsgs(m), BridgeTruth(m)')
                    \/ Silent(socket', BridgeMsgs(m)) /\ BridgeLevel(m)'
      <3> DEFINE x == FdbMsg("delfdb", y[1], kfdb[y])
      <3>1. Notify(x) /\ kfdb' = [kfdb EXCEPT ![y] = None] /\ kfdb[y] \in KernelFdb
            /\ dropped' = IF stage = 0 THEN dropped ELSE dropped \cup {y[1]}
        BY <2>2 DEF KernelDelFdb, Kernel
      <3>0. y[1] \in Macs /\ y[2] \in Fdbs /\ y = <<y[1], y[2]>>
        BY DEF FdbKeys
      <3>2. x \in FdbMsgs /\ x \in Msgs /\ x.mac = y[1] /\ x.type = "delfdb"
        BY <3>0, <3>1, MessageTypes DEF Msgs, FdbMsg
      <3> HIDE DEF x
      <3>3. CASE y[1] = m /\ stage # 0
        <4>1. ~Known(m)'
          BY <3>1, <3>3 DEF Known
        <4>2. x \in BridgeTruth(m)' /\ x \in BridgeMsgs(m)
          BY <3>2, <3>3, <4>1 DEF BridgeMsgs, BridgeTruth
        <4> QED
          BY <1>b, <3>1, <3>2, <3>3, <4>2
      <3>4. CASE y[1] = m /\ stage = 0
        <4>1. socket' = <<>> /\ stage' = 0 /\ fdb' = fdb /\ dropped' = dropped
          BY <3>1, <3>4 DEF Notify, Wire, cached
        <4>2. BridgeLevel(m)'
          BY <1>0, <3>4, <4>1 DEF BridgeLevel
        <4> QED
          BY <1>0, <3>4, <4>1, <4>2, EmptySocket
      <3>5. CASE y[1] # m
        <4>1. \A t \in Fdbs : kfdb'[<<m, t>>] = kfdb[<<m, t>>]
          BY <3>1, <3>5 DEF Kernel, FdbKeys
        <4>2. Learned(m)' <=> Learned(m)
          BY <4>1 DEF Learned
        <4> QED
          BY <1>a, <3>1, <3>2, <3>5, <4>2 DEF BridgeMsgs
      <3> QED
        BY <3>3, <3>4, <3>5
    <2>3. CASE \E x \in LinkMsgs \cup AddrMsgs \cup NeighMsgs :
                 Notify(x) /\ UNCHANGED <<kfdb, dropped>>
      <3>1. PICK x \in LinkMsgs \cup AddrMsgs \cup NeighMsgs :
              Notify(x) /\ UNCHANGED <<kfdb, dropped>>
        BY <2>3
      <3>2. x \in Msgs /\ x \notin BridgeMsgs(m)
        BY DEF Msgs, LinkMsgs, AddrMsgs, NeighMsgs, FdbMsgs, BridgeMsgs
      <3>3. Learned(m)' <=> Learned(m)
        BY <3>1 DEF Learned
      <3> QED
        BY <1>a, <3>1, <3>2, <3>3
    <2> QED
      BY <1>1, <2>1, <2>2, <2>3, OtherNotified DEF KernelStep
  <1>2. CASE Subscribe
    BY <1>0, <1>w, <1>2 DEF Subscribe, cached, kernel, BridgeLevel, BridgeTruth, Known, Learned
  <1>3. CASE DumpRequest
    <2>1. /\ stage \in 1 .. 4 /\ answer = None /\ answer' = Table(stage)
          /\ UNCHANGED <<stage, socket, kfdb, fdb, dropped>>
      BY <1>3 DEF DumpRequest, cached, kernel
    <2>2. BridgeTruth(m)' = BridgeTruth(m) /\ (Known(m)' <=> Known(m))
      BY <2>1 DEF BridgeTruth, Known, Learned
    <2>3. BridgeLevel(m) => BridgeLevel(m)'
      <3>1. CASE stage = 4
        <4>1. Table(stage) = {FdbMsg("newfdb", k[1], kfdb[k]) :
                                k \in {j \in FdbKeys : kfdb[j] # None}}
          BY <3>1 DEF Table
        <4>2. \A k \in FdbKeys : FdbMsg("newfdb", k[1], kfdb[k]).mac = k[1]
          BY DEF FdbMsg
        <4>3. Learned(m) <=> \E k \in FdbKeys : kfdb[k] # None /\ k[1] = m
          <5>1. ASSUME NEW t \in Fdbs, kfdb[<<m, t>>] # None
                PROVE  \E k \in FdbKeys : kfdb[k] # None /\ k[1] = m
            <6>1. <<m, t>> \in FdbKeys /\ <<m, t>>[1] = m
              BY DEF FdbKeys
            <6> QED
              BY <5>1, <6>1
          <5>2. ASSUME NEW k \in FdbKeys, kfdb[k] # None, k[1] = m
                PROVE  \E t \in Fdbs : kfdb[<<m, t>>] # None
            <6>1. k = <<m, k[2]>> /\ k[2] \in Fdbs
              BY <5>2 DEF FdbKeys
            <6> QED
              BY <5>2, <6>1
          <5> QED
            BY <5>1, <5>2 DEF Learned
        <4>4. Learned(m) <=> \E x \in Table(stage) : x.mac = m
          BY <4>1, <4>2, <4>3
        <4>5. BridgeLevel(m) => (Known(m) <=> \E x \in Table(stage) : x.mac = m)
          BY <3>1, <4>4 DEF Known, BridgeLevel
        <4> QED
          BY <1>0, <2>1, <2>2, <3>1, <4>5 DEF BridgeLevel
      <3>2. CASE stage # 4
        BY <2>1, <2>2, <3>2 DEF BridgeLevel
      <3> QED
        BY <3>1, <3>2
    <2> QED
      BY <1>0, <2>1, <2>2, <2>3
  <1>4. CASE DumpMessage
    <2>1. PICK x \in answer : processMessage(x) /\ answer' = answer \ {x}
      BY <1>4 DEF DumpMessage
    <2>2. /\ answer # None /\ stage \in 1 .. 4 /\ x \in Kind(stage) /\ x \in Msgs
          /\ UNCHANGED <<socket, stage, kfdb, dropped>>
      BY <1>4, <2>1, TableKind DEF DumpMessage, Wire, kernel
    <2>3. BridgeTruth(m)' = BridgeTruth(m) /\ (Known(m)' <=> Known(m))
      BY <2>2 DEF BridgeTruth, Known, Learned
    <2>4. CASE stage = 4
      <3>1. x \in FdbMsgs /\ x.type = "newfdb" /\ answer \subseteq FdbMsgs
            /\ answer' \subseteq FdbMsgs
        BY <1>4, <2>1, <2>2, <2>4 DEF Kind, Wire
      <3>2. CASE x.mac = m
        <4>1. fdb'[m] # None
          BY <2>1, <2>2, <3>1, <3>2, ProcessBridge DEF BridgeMsgs
        <4>2. BridgeLevel(m) => Known(m)
          BY <2>1, <2>2, <2>4, <3>2 DEF BridgeLevel
        <4>3. BridgeLevel(m) => BridgeLevel(m)'
          BY <2>2, <2>3, <2>4, <4>1, <4>2 DEF BridgeLevel
        <4> QED
          BY <1>0, <2>2, <2>3, <2>4, <4>3
      <3>3. CASE x.mac # m
        <4>1. fdb'[m] = fdb[m]
          BY <2>1, <2>2, <3>1, <3>3, ProcessBridge DEF BridgeMsgs
        <4>2. (\E y \in answer' : y.mac = m) <=> (\E y \in answer : y.mac = m)
          BY <2>1, <3>3
        <4>3. BridgeLevel(m) => BridgeLevel(m)'
          BY <2>2, <2>3, <2>4, <4>1, <4>2 DEF BridgeLevel
        <4> QED
          BY <1>0, <2>1, <2>2, <2>3, <2>4, <4>1, <4>3
      <3> QED
        BY <3>2, <3>3
    <2>5. CASE stage # 4
      <3>1. x \notin BridgeMsgs(m)
        BY <2>2, <2>5 DEF Kind, BridgeMsgs, LinkMsgs, AddrMsgs, NeighMsgs, FdbMsgs
      <3>2. fdb'[m] = fdb[m]
        BY <2>1, <2>2, <3>1, ProcessBridge
      <3>3. BridgeLevel(m) => BridgeLevel(m)'
        BY <2>2, <2>5 DEF BridgeLevel
      <3> QED
        BY <1>0, <2>2, <2>3, <2>5, <3>2, <3>3
    <2> QED
      BY <2>4, <2>5
  <1>5. CASE DumpDone
    <2>1. /\ answer = {} /\ answer # None /\ answer' = None /\ stage \in 1 .. 4
          /\ stage' = stage + 1 /\ UNCHANGED <<socket, kfdb, fdb, dropped>>
      BY <1>w, <1>5 DEF DumpDone, cached, kernel, Wire
    <2>2. BridgeTruth(m)' = BridgeTruth(m) /\ (BridgeLevel(m) => BridgeLevel(m)')
      <3>1. BridgeTruth(m)' = BridgeTruth(m) /\ (Known(m)' <=> Known(m))
        BY <2>1 DEF BridgeTruth, Known, Learned
      <3> QED
        BY <1>0, <2>1, <3>1 DEF BridgeLevel
    <2> QED
      BY <1>0, <2>1, <2>2
  <1>6. CASE LiveMessage
    <2> DEFINE x == Head(socket)
    <2>1. /\ stage = 5 /\ socket # <<>> /\ processMessage(x) /\ socket' = Tail(socket)
          /\ UNCHANGED <<stage, answer, kfdb, dropped>>
      BY <1>6 DEF LiveMessage, kernel
    <2>2. BridgeTruth(m)' = BridgeTruth(m) /\ (Known(m)' <=> Known(m))
      BY <2>1 DEF BridgeTruth, Known, Learned
    <2>3. x \in Msgs
      BY <1>w, <2>1, TailEnds
    <2> HIDE DEF x
    <2>4. CASE Silent(socket, BridgeMsgs(m)) /\ BridgeLevel(m)
      <3>1. Silent(socket', BridgeMsgs(m)) /\ x \notin BridgeMsgs(m)
        BY <1>w, <2>1, <2>4, TailEnds DEF x
      <3>2. fdb'[m] = fdb[m]
        BY <2>1, <2>3, <3>1, ProcessBridge
      <3> QED
        BY <2>1, <2>2, <2>4, <3>1, <3>2 DEF BridgeLevel
    <2>5. CASE Ends(socket, BridgeMsgs(m), BridgeTruth(m))
      <3>1. CASE Ends(socket', BridgeMsgs(m), BridgeTruth(m))
        BY <2>1, <2>2, <3>1
      <3>2. CASE Silent(socket', BridgeMsgs(m)) /\ x \in BridgeMsgs(m) /\ x \in BridgeTruth(m)
        <4>1. fdb'[m] # None <=> Known(m)
          BY <2>1, <2>3, <3>2, ProcessBridge DEF BridgeTruth
        <4> QED
          BY <2>1, <2>2, <3>2, <4>1 DEF BridgeLevel
      <3> QED
        BY <1>w, <2>1, <2>5, <3>1, <3>2, TailEnds DEF x
    <2> QED
      BY <1>0, <2>4, <2>5
  <1>7. CASE UNCHANGED vars
    BY <1>0, <1>7 DEF vars, kernel, cached, BridgeLevel, BridgeTruth, Known, Learned
  <1> QED
    BY <1>1, <1>2, <1>3, <1>4, <1>5, <1>6, <1>7 DEF Next

-----------------------------------------------------------------------------
(* More about the socket *)

Sent(s) == {s[j] : j \in 1 .. Len(s)}
Answered == IF answer = None THEN {} ELSE answer

\* The first message of s about index i announces it.
First(s, i) ==
    \E k \in 1 .. Len(s) : /\ s[k].index = i /\ s[k].type = "newlink"
                           /\ \A j \in 1 .. k - 1 : s[j].index # i

\* A notification is one more message, and the first about an index stays it.
LEMMA AppendSent ==
    ASSUME NEW s \in Seq(Msgs), NEW m \in Msgs
    PROVE  /\ Sent(Append(s, m)) = Sent(s) \cup {m}
           /\ \A i : First(s, i) => First(Append(s, m), i)
           /\ \A i : /\ \A x \in Sent(s) : x.index # i
                     /\ m.index = i /\ m.type = "newlink"
                     => First(Append(s, m), i)
  <1> DEFINE t == Append(s, m)
  <1>1. Len(t) = Len(s) + 1 /\ Len(s) \in Nat /\ t[Len(s) + 1] = m
        /\ \A j \in 1 .. Len(s) : t[j] = s[j]
    OBVIOUS
  <1> HIDE DEF t
  <1>2. Sent(t) = Sent(s) \cup {m}
    <2>1. ASSUME NEW x \in Sent(t)
          PROVE  x \in Sent(s) \cup {m}
      <3>1. PICK j \in 1 .. Len(t) : x = t[j]
        BY DEF Sent
      <3>2. CASE j = Len(s) + 1
        BY <1>1, <3>1, <3>2
      <3>3. CASE j # Len(s) + 1
        <4>1. j \in 1 .. Len(s)
          BY <1>1, <3>3
        <4> QED
          BY <1>1, <3>1, <4>1 DEF Sent
      <3> QED
        BY <3>2, <3>3
    <2>2. m \in Sent(t)
      BY <1>1 DEF Sent
    <2>3. ASSUME NEW x \in Sent(s)
          PROVE  x \in Sent(t)
      <3>1. PICK j \in 1 .. Len(s) : x = s[j]
        BY DEF Sent
      <3>2. j \in 1 .. Len(t) /\ x = t[j]
        BY <1>1, <3>1
      <3> QED
        BY <3>2 DEF Sent
    <2> QED
      BY <2>1, <2>2, <2>3
  <1>3. ASSUME NEW i, First(s, i)
        PROVE  First(t, i)
    <2>1. PICK k \in 1 .. Len(s) : /\ s[k].index = i /\ s[k].type = "newlink"
                                   /\ \A j \in 1 .. k - 1 : s[j].index # i
      BY <1>3 DEF First
    <2>2. k \in 1 .. Len(t) /\ t[k] = s[k] /\ \A j \in 1 .. k - 1 : t[j] = s[j]
      BY <1>1, <2>1
    <2> QED
      BY <2>1, <2>2 DEF First
  <1>4. ASSUME NEW i, \A x \in Sent(s) : x.index # i, m.index = i, m.type = "newlink"
        PROVE  First(t, i)
    <2>1. \A j \in 1 .. Len(s) : t[j].index # i
      BY <1>1, <1>4 DEF Sent
    <2>2. Len(t) \in 1 .. Len(t) /\ t[Len(t)] = m /\ Len(t) - 1 = Len(s)
      BY <1>1
    <2> QED
      BY <1>4, <2>1, <2>2 DEF First
  <1> QED
    BY <1>2, <1>3, <1>4 DEF t

\* Handling the oldest message: an index still has its announcement, or this
\* was it.
LEMMA TailSent ==
    ASSUME NEW s \in Seq(Msgs), s # <<>>
    PROVE  /\ Sent(Tail(s)) \subseteq Sent(s) /\ Head(s) \in Sent(s)
           /\ \A i : First(s, i) => \/ First(Tail(s), i) /\ Head(s).index # i
                                    \/ Head(s).index = i /\ Head(s).type = "newlink"
  <1> DEFINE t == Tail(s)
  <1>1. /\ Len(s) \in Nat /\ Len(s) >= 1 /\ Len(t) = Len(s) - 1 /\ Head(s) = s[1]
        /\ \A j \in 1 .. Len(t) : t[j] = s[j + 1]
    OBVIOUS
  <1> HIDE DEF t
  <1>2. Sent(t) \subseteq Sent(s) /\ Head(s) \in Sent(s)
    <2>1. ASSUME NEW x \in Sent(t)
          PROVE  x \in Sent(s)
      <3>1. PICK j \in 1 .. Len(t) : x = t[j]
        BY DEF Sent
      <3>2. j + 1 \in 1 .. Len(s) /\ x = s[j + 1]
        BY <1>1, <3>1
      <3> QED
        BY <3>2 DEF Sent
    <2>2. 1 \in 1 .. Len(s)
      BY <1>1
    <2> QED
      BY <1>1, <2>1, <2>2 DEF Sent
  <1>3. ASSUME NEW i, First(s, i)
        PROVE  \/ First(t, i) /\ Head(s).index # i
               \/ Head(s).index = i /\ Head(s).type = "newlink"
    <2>1. PICK k \in 1 .. Len(s) : /\ s[k].index = i /\ s[k].type = "newlink"
                                   /\ \A j \in 1 .. k - 1 : s[j].index # i
      BY <1>3 DEF First
    <2>2. CASE k = 1
      BY <1>1, <2>1, <2>2
    <2>3. CASE k # 1
      <3>1. k - 1 \in 1 .. Len(t) /\ t[k - 1] = s[k] /\ s[1].index # i
        BY <1>1, <2>1, <2>3
      <3>2. ASSUME NEW j \in 1 .. (k - 1) - 1
            PROVE  t[j].index # i
        <4>1. j \in 1 .. Len(t) /\ j + 1 \in 1 .. k - 1
          BY <1>1, <2>1
        <4> QED
          BY <1>1, <2>1, <4>1
      <3> QED
        BY <1>1, <2>1, <3>1, <3>2 DEF First
    <2> QED
      BY <2>2, <2>3
  <1> QED
    BY <1>2, <1>3 DEF t

\* What is said of a message depends on the messages there are.
LEMMA EndsCongruent ==
    ASSUME NEW s, NEW S, NEW T, NEW G, NEW H,
           \A x \in Sent(s) : (x \in S <=> x \in T) /\ (x \in S /\ x \in G => x \in H)
    PROVE  (Ends(s, S, G) => Ends(s, T, H)) /\ (Silent(s, S) => Silent(s, T))
  <1>1. \A j \in 1 .. Len(s) : s[j] \in Sent(s)
    BY DEF Sent
  <1>2. ASSUME Ends(s, S, G)
        PROVE  Ends(s, T, H)
    <2>1. PICK j \in 1 .. Len(s) : /\ s[j] \in S /\ s[j] \in G
                                   /\ \A k \in j + 1 .. Len(s) : s[k] \notin S
      BY <1>2 DEF Ends
    <2>2. \A k \in j + 1 .. Len(s) : s[k] \notin T
      BY <1>1, <2>1
    <2> QED
      BY <1>1, <2>1, <2>2 DEF Ends
  <1>3. ASSUME Silent(s, S)
        PROVE  Silent(s, T)
    BY <1>1, <1>3 DEF Silent
  <1> QED
    BY <1>2, <1>3

\* A socket with a last word is not silent.
LEMMA EndsOrSilent ==
    ASSUME NEW s, NEW S, NEW G, Ends(s, S, G)
    PROVE  ~Silent(s, S) /\ \E x \in Sent(s) : x \in S /\ x \in G
  BY DEF Ends, Silent, Sent

\* A change of the kernel and a subject of which the socket may speak: the
\* notification is about the subject and true, or changes nothing.
LEMMA Noticed ==
    ASSUME Wire, NEW x \in Msgs, Notify(x), NEW S, NEW G, NEW T, NEW H,
           Ends(socket, S, G) \/ Silent(socket, S),
           \/ x \in T /\ x \in H
           \/ /\ x \notin T
              /\ \A y \in Sent(socket) : (y \in S <=> y \in T) /\ (y \in S /\ y \in G => y \in H)
    PROVE  \/ Ends(socket', T, H)
           \/ /\ Silent(socket', T)
              /\ stage = 0 \/ (Silent(socket, S) /\ ~Ends(socket, S, G) /\ x \notin T)
  <1>1. /\ socket \in Seq(Msgs)
        /\ socket' = IF stage = 0 THEN socket ELSE Append(socket, x)
        /\ stage = 0 => socket = <<>>
    BY DEF Wire, Notify
  <1>2. CASE stage = 0
    BY <1>1, <1>2, EmptySocket
  <1>3. CASE stage # 0 /\ x \in T /\ x \in H
    BY <1>1, <1>3, AppendEnds
  <1>4. CASE /\ stage # 0 /\ x \notin T
             /\ \A y \in Sent(socket) : (y \in S <=> y \in T) /\ (y \in S /\ y \in G => y \in H)
    <2>1. (Ends(socket, S, G) => Ends(socket, T, H)) /\ (Silent(socket, S) => Silent(socket, T))
      BY <1>4, EndsCongruent
    <2>2. CASE Ends(socket, S, G)
      BY <1>1, <1>4, <2>1, <2>2, AppendEnds
    <2>3. CASE Silent(socket, S)
      BY <1>1, <1>4, <2>1, <2>3, AppendEnds, EndsOrSilent
    <2> QED
      BY <2>2, <2>3
  <1> QED
    BY <1>2, <1>3, <1>4

-----------------------------------------------------------------------------
(* Names *)

\* Names no rename was about.
Stable == Names \ renamed

\* Names of living links are unique, entries belong to living links, and a
\* stable name is the first name of whoever has it.
Allocation ==
    /\ \A i \in Indexes : klink[i] # None => born[i] # None
    /\ \A i, j \in Indexes :
         klink[i] # None /\ klink[j] # None /\ klink[i].name = klink[j].name => i = j
    /\ \A a \in kaddr : klink[a[1]] # None
    /\ \A k \in NeighKeys : kneigh[k] # None => klink[k[1]] # None
    /\ \A y \in FdbKeys : kfdb[y] # None => klink[kfdb[y].port] # None
    /\ \A n \in Stable, i \in Indexes : klink[i] # None => (klink[i].name = n <=> born[i] = n)
    /\ \A k \in NeighKeys : kneigh[k] = "failed" /\ klink[k[1]].name \in Stable =>
         <<klink[k[1]].name, k[2], k[3]>> \in failed

\* Messages and the ifindex cache know them by that name only.
Waiting == Sent(socket) \cup Answered

Naming ==
    /\ \A x \in Waiting : born[x.index] # None
    /\ \A n \in Stable, x \in Waiting :
         x.type \in {"newlink", "dellink"} => (x.name = n <=> born[x.index] = n)
    /\ \A i \in Indexes : ifcache[i] # None => born[i] # None
    /\ \A n \in Stable, i \in Indexes : ifcache[i] # None => (ifcache[i] = n <=> born[i] = n)

\* What a new or changed link does to the links and names of the others.
LEMMA SetLinkFacts ==
    ASSUME Kernel, Allocation, NEW i \in Indexes, NEW l \in KernelLink, KernelSetLink(i, l)
    PROVE  /\ klink'[i] = l /\ l # None /\ l.name \in Names
           /\ \A j \in Indexes \ {i} : klink'[j] = klink[j] /\ born'[j] = born[j]
           /\ klink[i] = None => born[i] = None /\ born'[i] = l.name /\ renamed' = renamed
           /\ klink[i] # None => born'[i] = born[i]
           /\ klink[i] # None /\ klink[i].name = l.name => renamed' = renamed
           /\ klink[i] # None /\ klink[i].name # l.name =>
                renamed' = renamed \cup {klink[i].name, l.name}
           /\ Stable' \subseteq Stable
           /\ \A j \in Indexes \ {i} : klink[j] # None => klink[j].name # l.name
  <1>1. l # None /\ l.name \in Names
    BY NoneIsNoEntry DEF KernelLink
  <1>2. renamed' = IF klink[i] # None /\ klink[i].name # l.name
                   THEN renamed \cup {klink[i].name, l.name} ELSE renamed
    BY DEF KernelSetLink
  <1>3. Stable' \subseteq Stable
    BY <1>2 DEF Stable
  <1> QED
    BY <1>1, <1>2, <1>3 DEF KernelSetLink, Kernel

\* Every step of the kernel allocates names and indexes as real kernels do.
LEMMA AllocationStep ==
    ASSUME Kernel, Allocation, [Next]_vars
    PROVE  Allocation'
  <1>0. None # "failed"
    BY NoneIsNoEntry DEF NeighNuds
  <1>1. ASSUME NEW i \in Indexes, NEW l \in KernelLink, KernelSetLink(i, l)
        PROVE  Allocation'
    <2>1. /\ klink'[i] = l /\ l # None /\ l.name \in Names
          /\ \A j \in Indexes \ {i} : klink'[j] = klink[j] /\ born'[j] = born[j]
          /\ klink[i] = None => born[i] = None /\ born'[i] = l.name /\ renamed' = renamed
          /\ klink[i] # None => born'[i] = born[i]
          /\ klink[i] # None /\ klink[i].name = l.name => renamed' = renamed
          /\ klink[i] # None /\ klink[i].name # l.name =>
                renamed' = renamed \cup {klink[i].name, l.name}
          /\ Stable' \subseteq Stable
          /\ \A j \in Indexes \ {i} : klink[j] # None => klink[j].name # l.name
      BY <1>1, SetLinkFacts
    <2>2. UNCHANGED <<kaddr, kneigh, kfdb, failed>>
      BY <1>1 DEF KernelSetLink
    <2>3. \A j \in Indexes : klink'[j] # None => born'[j] # None
      BY <2>1, StateValues DEF Allocation
    <2>4. \A j, k \in Indexes :
            klink'[j] # None /\ klink'[k] # None /\ klink'[j].name = klink'[k].name => j = k
      BY <2>1 DEF Allocation
    <2>5. \A a \in kaddr : a[1] \in Indexes /\ klink'[a[1]] # None
      BY <2>1 DEF Allocation, Kernel
    <2>6. \A k \in NeighKeys : k[1] \in Indexes /\ (kneigh[k] # None => klink'[k[1]] # None)
      BY <2>1 DEF Allocation, NeighKeys
    <2>f. \A y \in FdbKeys : kfdb[y] # None => klink'[kfdb[y].port] # None
      BY <2>1 DEF Allocation, Kernel, KernelFdb
    <2>7. ASSUME NEW n \in Stable', NEW j \in Indexes, klink'[j] # None
          PROVE  klink'[j].name = n <=> born'[j] = n
      <3>1. CASE j # i
        BY <2>1, <2>7, <3>1 DEF Allocation
      <3>2. CASE j = i /\ klink[i] = None
        BY <2>1, <3>2
      <3>3. CASE j = i /\ klink[i] # None
        BY <2>1, <3>3 DEF Allocation, Stable
      <3> QED
        BY <3>1, <3>2, <3>3
    <2>8. ASSUME NEW k \in NeighKeys, kneigh[k] = "failed", klink'[k[1]].name \in Stable'
          PROVE  <<klink'[k[1]].name, k[2], k[3]>> \in failed
      <3>1. k[1] \in Indexes /\ klink[k[1]] # None
        BY <1>0, <2>6, <2>8 DEF Allocation
      <3>2. klink'[k[1]].name = klink[k[1]].name
        BY <2>1, <2>8, <3>1 DEF Stable
      <3> QED
        BY <2>1, <2>8, <3>2 DEF Allocation
    <2> QED
      BY <2>2, <2>3, <2>4, <2>5, <2>6, <2>f, <2>7, <2>8 DEF Allocation
  <1>2. ASSUME NEW i \in Indexes, KernelDelLink(i)
        PROVE  Allocation'
    <2>1. /\ klink' = [klink EXCEPT ![i] = None] /\ kaddr' = {a \in kaddr : a[1] # i}
          /\ UNCHANGED <<born, kneigh, kfdb, renamed, failed>>
          /\ \A k \in NeighKeys : k[1] = i => kneigh[k] = None
          /\ \A y \in FdbKeys : kfdb[y] # None => kfdb[y].port # i
      BY <1>2 DEF KernelDelLink
    <2>2. klink'[i] = None /\ \A j \in Indexes \ {i} : klink'[j] = klink[j]
      BY <2>1 DEF Kernel
    <2>3. \A k \in NeighKeys : k[1] \in Indexes
      BY DEF NeighKeys
    <2>4. \A a \in kaddr : a[1] \in Indexes
      BY DEF Kernel
    <2>5. Stable' = Stable
      BY <2>1 DEF Stable
    <2>6. \A y \in FdbKeys : kfdb'[y] # None => klink'[kfdb'[y].port] # None
      BY <2>1, <2>2 DEF Allocation, Kernel, KernelFdb
    <2> QED
      BY <1>0, <2>1, <2>2, <2>3, <2>4, <2>5, <2>6 DEF Allocation
  <1>3. ASSUME NEW a \in Indexes \X Ips, KernelAddr(a)
        PROVE  Allocation'
    <2>1. UNCHANGED <<klink, born, kneigh, kfdb, renamed, failed>> /\ klink[a[1]] # None
          /\ kaddr' \subseteq kaddr \cup {a}
      BY <1>3 DEF KernelAddr
    <2>2. Stable' = Stable
      BY <2>1 DEF Stable
    <2> QED
      BY <2>1, <2>2 DEF Allocation
  <1>4. ASSUME NEW k \in NeighKeys, NEW nud \in NeighNuds, KernelSetNeigh(k, nud)
        PROVE  Allocation'
    <2> DEFINE key == <<klink[k[1]].name, k[2], k[3]>>
    <2>1. /\ UNCHANGED <<klink, born, kaddr, kfdb, renamed>> /\ klink[k[1]] # None
          /\ (nud = "failed" => key \in failed') /\ failed \ {key} \subseteq failed'
      BY <1>4, SetNeighFacts
    <2>2. kneigh'[k] = nud /\ \A q \in NeighKeys \ {k} : kneigh'[q] \in {kneigh[q], None}
      BY <1>4, SetNeighFacts
    <2>3. Stable' = Stable
      BY <2>1 DEF Stable
    <2>4. ASSUME NEW q \in NeighKeys, kneigh'[q] = "failed", klink[q[1]].name \in Stable
          PROVE  <<klink[q[1]].name, q[2], q[3]>> \in failed'
      <3>1. CASE q = k
        BY <2>1, <2>2, <2>4, <3>1
      <3>2. CASE q # k
        <4>1. /\ q[1] \in Indexes /\ k[1] \in Indexes /\ q = <<q[1], q[2], q[3]>>
              /\ k = <<k[1], k[2], k[3]>>
          BY DEF NeighKeys
        <4>2. <<klink[q[1]].name, q[2], q[3]>> # key
          <5>1. klink[q[1]] # None
            BY <1>0, <2>2, <2>4, <3>2 DEF Allocation
          <5> QED
            BY <2>1, <3>2, <4>1, <5>1 DEF Allocation
        <4>3. <<klink[q[1]].name, q[2], q[3]>> \in failed
          BY <1>0, <2>2, <2>4, <3>2 DEF Allocation
        <4> HIDE DEF key
        <4> QED
          BY <2>1, <4>2, <4>3
      <3> QED
        BY <3>1, <3>2
    <2>5. \A q \in NeighKeys : kneigh'[q] # None => klink[q[1]] # None
      BY <2>1, <2>2 DEF Allocation
    <2> QED
      BY <2>1, <2>3, <2>4, <2>5 DEF Allocation
  <1>5. ASSUME NEW k \in NeighKeys, KernelDelNeigh(k)
        PROVE  Allocation'
    <2>1. /\ UNCHANGED <<klink, born, kaddr, kfdb, renamed, failed>>
          /\ kneigh' = [kneigh EXCEPT ![k] = None]
      BY <1>5 DEF KernelDelNeigh
    <2>2. kneigh'[k] = None /\ \A q \in NeighKeys \ {k} : kneigh'[q] = kneigh[q]
      BY <2>1 DEF Kernel
    <2>3. Stable' = Stable
      BY <2>1 DEF Stable
    <2> QED
      BY <1>0, <2>1, <2>2, <2>3 DEF Allocation
  <1>6. ASSUME NEW m \in FdbKeys, NEW e \in KernelFdb, KernelSetFdb(m, e)
        PROVE  Allocation'
    <2>1. /\ UNCHANGED <<klink, born, kaddr, kneigh, renamed, failed>>
          /\ kfdb' = [kfdb EXCEPT ![m] = e] /\ klink[e.port] # None
      BY <1>6 DEF KernelSetFdb
    <2>2. \A y \in FdbKeys : kfdb'[y] # None => klink[kfdb'[y].port] # None
      BY <2>1 DEF Allocation, Kernel
    <2> QED
      BY <2>1, <2>2 DEF Allocation, Stable
  <1>7. ASSUME NEW m \in FdbKeys, KernelDelFdb(m)
        PROVE  Allocation'
    <2>1. /\ UNCHANGED <<klink, born, kaddr, kneigh, renamed, failed>>
          /\ kfdb' = [kfdb EXCEPT ![m] = None]
      BY <1>7 DEF KernelDelFdb
    <2>2. \A y \in FdbKeys : kfdb'[y] # None => klink[kfdb'[y].port] # None
      BY <2>1 DEF Allocation, Kernel
    <2> QED
      BY <2>1, <2>2 DEF Allocation, Stable
  <1>8. CASE UNCHANGED <<kernel, renamed, failed, dropped>>
    BY <1>8 DEF Allocation, Stable, kernel
  <1> QED
    BY <1>1, <1>2, <1>3, <1>4, <1>5, <1>6, <1>7, <1>8 DEF Next, KernelStep, Subscribe,
       DumpRequest, DumpMessage, DumpDone, LiveMessage, vars

\* What a message does to the ifindex cache: a link message sets its own
\* name, resolve() learns the kernel's.
LEMMA ProcessNames ==
    ASSUME Kernel, ifcache \in [Indexes -> Names \cup {None}], NEW x \in Msgs,
           processMessage(x), NEW j \in Indexes
    PROVE  /\ x.index \in Indexes
           /\ \/ ifcache'[j] = ifcache[j]
              \/ ifcache[j] = None /\ ifcache'[j] = NameNow(j)
              \/ x.type \in {"newlink", "dellink"} /\ j = x.index /\ ifcache'[j] = x.name
           /\ x.type \in {"newlink", "dellink"} => ifcache'[x.index] = x.name /\ x.name \in Names
           /\ ifcache[j] # None => ifcache'[j] # None
           /\ x.type \notin {"newlink", "dellink"} =>
                (ifcache'[j] # None <=> ifcache[j] # None \/ (j = x.index /\ klink[j] # None))
  <1>0. \A i \in Indexes : klink[i] # None <=> NameNow(i) # None
    BY StateValues DEF NameNow, Kernel, KernelLink
  <1>1. CASE x.type \in {"newlink", "dellink"} /\ handleLink(x)
    <2> DEFINE removed == IF x.type = "dellink" THEN [ifcache EXCEPT ![x.index] = None]
                          ELSE ifcache
               put == [removed EXCEPT ![x.index] = x.name]
    <2>1. x.index \in Indexes /\ x.name \in Names /\ x.master \in Indexes \cup {None}
          /\ x.name # None
      BY <1>1, MsgKinds, StateValues DEF LinkMsgs
    <2>2. ifcache' = IF x.master = None THEN put ELSE Learn(put, x.master)
      BY <1>1 DEF handleLink
    <2>3. put = [ifcache EXCEPT ![x.index] = x.name]
      BY <2>1
    <2> HIDE DEF put
    <2>4. \A i \in Indexes : ifcache'[i] = put[i] \/ (put[i] = None /\ ifcache'[i] = NameNow(i))
      BY <2>1, <2>2, <2>3 DEF Learn
    <2> QED
      BY <1>1, <2>1, <2>3, <2>4
  <1>2. CASE /\ x.type \notin {"newlink", "dellink"}
             /\ x.index \in Indexes /\ ifcache' = Learn(ifcache, x.index)
    BY <1>0, <1>2 DEF Learn
  <1>3. CASE x.type \in {"newaddr", "deladdr"} /\ handleAddr(x)
    BY <1>2, <1>3, MsgKinds DEF handleAddr, AddrMsgs
  <1>4. CASE x.type \in {"newneigh", "delneigh"} /\ handleNeighborL3(x)
    BY <1>2, <1>4, MsgKinds DEF handleNeighborL3, NeighMsgs
  <1>5. CASE x.type \in {"newfdb", "delfdb"} /\ handleFdb(x)
    BY <1>2, <1>5, MsgKinds DEF handleFdb, FdbMsgs
  <1> QED
    BY <1>1, <1>3, <1>4, <1>5 DEF processMessage

\* A stable name is found for the indexes first called so, and no others.
LEMMA ResolveNames ==
    ASSUME Kernel, Cache, Allocation, Naming, NEW n \in Stable, NEW i \in Indexes
    PROVE  /\ Resolve(ifcache, i) = n => born[i] = n
           /\ born[i] = n /\ (ifcache[i] # None \/ klink[i] # None) => Resolve(ifcache, i) = n
           /\ ~(ifcache[i] # None \/ klink[i] # None) => Resolve(ifcache, i) \notin Names
  <1>1. n \in Names /\ Numeral(i) \notin Names
    BY NumeralIsNoName DEF Stable
  <1>2. CASE ifcache[i] # None
    BY <1>2 DEF Resolve, Naming
  <1>3. CASE ifcache[i] = None /\ klink[i] # None
    <2>1. NameNow(i) = klink[i].name /\ NameNow(i) # None
      BY <1>3, StateValues DEF NameNow, Kernel, KernelLink
    <2> QED
      BY <1>3, <2>1 DEF Resolve, Allocation
  <1>4. CASE ifcache[i] = None /\ klink[i] = None
    BY <1>1, <1>4 DEF Resolve, NameNow
  <1> QED
    BY <1>2, <1>3, <1>4

\* A change of the kernel notifies about an allocated index.
LEMMA NotifiedIndex ==
    ASSUME Kernel, Allocation, KernelStep
    PROVE  \/ \E i \in Indexes, l \in KernelLink : KernelSetLink(i, l)
           \/ \E i \in Indexes : KernelDelLink(i)
           \/ \E x \in AddrMsgs \cup NeighMsgs \cup FdbMsgs :
                Notify(x) /\ klink[x.index] # None /\ UNCHANGED <<klink, born, renamed>>
  <1>1. ASSUME NEW a \in Indexes \X Ips, KernelAddr(a)
        PROVE  \E x \in AddrMsgs :
                 Notify(x) /\ klink[x.index] # None /\ UNCHANGED <<klink, born, renamed>>
    <2>1. \A type \in {"newaddr", "deladdr"} :
            AddrMsg(type, a) \in AddrMsgs /\ AddrMsg(type, a).index = a[1]
      BY MessageTypes DEF AddrMsg
    <2> QED
      BY <1>1, <2>1 DEF KernelAddr
  <1>2. ASSUME NEW k \in NeighKeys, NEW nud \in NeighNuds, KernelSetNeigh(k, nud)
        PROVE  \E x \in NeighMsgs :
                 Notify(x) /\ klink[x.index] # None /\ UNCHANGED <<klink, born, renamed>>
    <2>1. NeighMsg("newneigh", k, nud) \in NeighMsgs /\ NeighMsg("newneigh", k, nud).index = k[1]
      BY MessageTypes DEF NeighMsg
    <2> QED
      BY <1>2, <2>1 DEF KernelSetNeigh
  <1>3. ASSUME NEW k \in NeighKeys, KernelDelNeigh(k)
        PROVE  \E x \in NeighMsgs :
                 Notify(x) /\ klink[x.index] # None /\ UNCHANGED <<klink, born, renamed>>
    <2>0. kneigh[k] \in NeighNuds /\ klink[k[1]] # None
      BY <1>3 DEF KernelDelNeigh, Kernel, Allocation
    <2>1. /\ NeighMsg("delneigh", k, kneigh[k]) \in NeighMsgs
          /\ NeighMsg("delneigh", k, kneigh[k]).index = k[1]
      BY <2>0, MessageTypes DEF NeighMsg
    <2> QED
      BY <1>3, <2>0, <2>1 DEF KernelDelNeigh
  <1>4. ASSUME NEW m \in FdbKeys, NEW e \in KernelFdb, KernelSetFdb(m, e)
        PROVE  \E x \in FdbMsgs :
                 Notify(x) /\ klink[x.index] # None /\ UNCHANGED <<klink, born, renamed>>
    <2>1. FdbMsg("newfdb", m[1], e) \in FdbMsgs /\ FdbMsg("newfdb", m[1], e).index = e.port
      BY MessageTypes DEF FdbMsg, FdbKeys
    <2> QED
      BY <1>4, <2>1 DEF KernelSetFdb
  <1>5. ASSUME NEW m \in FdbKeys, KernelDelFdb(m)
        PROVE  \E x \in FdbMsgs :
                 Notify(x) /\ klink[x.index] # None /\ UNCHANGED <<klink, born, renamed>>
    <2>0. kfdb[m] \in KernelFdb /\ klink[kfdb[m].port] # None
      BY <1>5 DEF KernelDelFdb, Kernel, Allocation
    <2>1. FdbMsg("delfdb", m[1], kfdb[m]) \in FdbMsgs
          /\ FdbMsg("delfdb", m[1], kfdb[m]).index = kfdb[m].port
      BY <2>0, MessageTypes DEF FdbMsg, FdbKeys
    <2> QED
      BY <1>5, <2>0, <2>1 DEF KernelDelFdb
  <1> QED
    BY <1>1, <1>2, <1>3, <1>4, <1>5 DEF KernelStep

\* The messages a notification leaves waiting.
LEMMA NotifyWaiting ==
    ASSUME Wire, NEW x \in Msgs, Notify(x)
    PROVE  /\ Waiting' \subseteq Waiting \cup {x} /\ UNCHANGED <<ifcache, answer, stage>>
           /\ Sent(socket)' \subseteq Sent(socket) \cup {x}
           /\ stage # 0 => Sent(socket)' = Sent(socket) \cup {x}
  <1>1. UNCHANGED <<ifcache, answer, stage>> /\ socket \in Seq(Msgs)
        /\ socket' = IF stage = 0 THEN socket ELSE Append(socket, x)
    BY DEF Notify, cached, Wire
  <1> QED
    BY <1>1, AppendSent DEF Waiting, Answered

\* A message that waits is one.
LEMMA WaitingMsgs ==
    ASSUME Kernel, Wire
    PROVE  Waiting \subseteq Msgs /\ \A x \in Msgs : x.index \in Indexes
  <1>1. Sent(socket) \subseteq Msgs
    BY DEF Wire, Sent
  <1>2. Answered \subseteq Msgs
    BY TableKind DEF Wire, Answered
  <1>3. \A x \in Msgs : x.index \in Indexes
    BY DEF Msgs, LinkMsgs, AddrMsgs, NeighMsgs, FdbMsgs
  <1> QED
    BY <1>1, <1>2, <1>3 DEF Waiting

\* Every step keeps messages and the ifindex cache to the stable names.
LEMMA NamingStep ==
    ASSUME Kernel, Wire, Cache, Allocation, Naming, [Next]_vars
    PROVE  Naming'
  <1>0. Waiting \subseteq Msgs /\ \A x \in Msgs : x.index \in Indexes
    BY WaitingMsgs
  <1>a. Allocation' /\ Kernel'
    BY AllocationStep, KernelTypes
  <1>1. ASSUME NEW i \in Indexes, NEW l \in KernelLink, KernelSetLink(i, l)
        PROVE  Naming'
    <2>1. /\ klink'[i] = l /\ l # None /\ l.name \in Names
          /\ \A j \in Indexes \ {i} : klink'[j] = klink[j] /\ born'[j] = born[j]
          /\ klink[i] = None => born[i] = None
          /\ klink[i] # None => born'[i] = born[i]
          /\ Stable' \subseteq Stable
      BY <1>1, SetLinkFacts
    <2> DEFINE x == LinkMsg("newlink", i, l)
    <2>2. x \in LinkMsgs /\ x \in Msgs /\ Notify(x) /\ x.index = i /\ x.name = l.name
      BY <1>1, MessageTypes DEF KernelSetLink, Msgs, LinkMsg
    <2> HIDE DEF x
    <2>3. Waiting' \subseteq Waiting \cup {x} /\ UNCHANGED ifcache
      BY <2>2, NotifyWaiting
    <2>4. born'[i] # None /\ \A j \in Indexes : born[j] # None => born'[j] = born[j]
      BY <1>a, <2>1 DEF Allocation
    <2>5. \A n \in Stable' : l.name = n <=> born'[i] = n
      BY <1>a, <2>1 DEF Allocation
    <2>6. \A y \in Waiting' : born'[y.index] # None
      BY <1>0, <2>2, <2>3, <2>4 DEF Naming
    <2>7. \A n \in Stable', y \in Waiting' :
            y.type \in {"newlink", "dellink"} => (y.name = n <=> born'[y.index] = n)
      BY <1>0, <2>1, <2>2, <2>3, <2>4, <2>5 DEF Naming
    <2>8. \A j \in Indexes : ifcache[j] # None => born'[j] # None
      BY <2>4 DEF Naming
    <2>9. \A n \in Stable', j \in Indexes : ifcache[j] # None => (ifcache[j] = n <=> born'[j] = n)
      BY <2>1, <2>4 DEF Naming
    <2> QED
      BY <2>3, <2>6, <2>7, <2>8, <2>9 DEF Naming
  <1>2. ASSUME NEW i \in Indexes, KernelDelLink(i)
        PROVE  Naming'
    <2> DEFINE x == LinkMsg("dellink", i, klink[i])
    <2>1. klink[i] \in KernelLink /\ UNCHANGED <<born, renamed>> /\ Notify(x) /\ klink[i] # None
      BY <1>2 DEF KernelDelLink, Kernel
    <2>2. x \in LinkMsgs /\ x \in Msgs /\ x.index = i /\ x.name = klink[i].name
      BY <2>1, MessageTypes DEF Msgs, LinkMsg
    <2> HIDE DEF x
    <2>3. Waiting' \subseteq Waiting \cup {x} /\ UNCHANGED ifcache
      BY <2>1, <2>2, NotifyWaiting
    <2>4. Stable' = Stable
      BY <2>1 DEF Stable
    <2> QED
      BY <2>1, <2>2, <2>3, <2>4 DEF Naming, Allocation
  <1>3. ASSUME NEW x \in AddrMsgs \cup NeighMsgs \cup FdbMsgs,
               Notify(x) /\ klink[x.index] # None /\ UNCHANGED <<klink, born, renamed>>
        PROVE  Naming'
    <2>1. x \in Msgs /\ x.type \notin {"newlink", "dellink"}
      BY DEF Msgs, AddrMsgs, NeighMsgs, FdbMsgs
    <2>2. Waiting' \subseteq Waiting \cup {x} /\ UNCHANGED ifcache
      BY <1>3, <2>1, NotifyWaiting
    <2>3. Stable' = Stable
      BY <1>3 DEF Stable
    <2> QED
      BY <1>0, <1>3, <2>1, <2>2, <2>3 DEF Naming, Allocation
  <1>4. CASE DumpRequest
    <2>1. /\ stage \in 1 .. 4 /\ answer' = Table(stage)
          /\ UNCHANGED <<socket, klink, born, renamed, ifcache>>
      BY <1>4 DEF DumpRequest, kernel, cached
    <2>2. Waiting' \subseteq Waiting \cup Table(stage)
      BY <2>1 DEF Waiting, Answered
    <2>3. Stable' = Stable
      BY <2>1 DEF Stable
    <2>4. ASSUME NEW x \in Table(stage)
          PROVE  /\ x.index \in Indexes /\ klink[x.index] # None
                 /\ x.type \in {"newlink", "dellink"} => x.name = klink[x.index].name
      <3>1. CASE stage = 1
        BY <3>1 DEF Table, LinkMsg
      <3>2. CASE stage = 2
        <4>1. PICK a \in kaddr : x = AddrMsg("newaddr", a)
          BY <3>2 DEF Table
        <4> QED
          BY <4>1 DEF AddrMsg, Allocation, Kernel
      <3>3. CASE stage = 3
        <4>1. PICK k \in NeighKeys : kneigh[k] # None /\ x = NeighMsg("newneigh", k, kneigh[k])
          BY <3>3 DEF Table
        <4>2. k[1] \in Indexes /\ x.index = k[1] /\ x.type = "newneigh"
          BY <4>1 DEF NeighMsg, NeighKeys
        <4> QED
          BY <4>1, <4>2 DEF Allocation
      <3>4. CASE stage = 4
        <4>1. PICK y \in FdbKeys : kfdb[y] # None /\ x = FdbMsg("newfdb", y[1], kfdb[y])
          BY <3>4 DEF Table
        <4> QED
          BY <4>1 DEF FdbMsg, Allocation, Kernel, KernelFdb
      <3> QED
        BY <2>1, <3>1, <3>2, <3>3, <3>4
    <2> QED
      BY <2>1, <2>2, <2>3, <2>4 DEF Naming, Allocation
  <1>5. ASSUME NEW x \in Waiting, processMessage(x), UNCHANGED <<klink, born, renamed>>,
               Waiting' \subseteq Waiting
        PROVE  Naming'
    <2>1. Stable' = Stable
      BY <1>5 DEF Stable
    <2>2. \A j \in Indexes :
            \/ ifcache'[j] = ifcache[j]
            \/ ifcache[j] = None /\ ifcache'[j] = NameNow(j)
            \/ x.type \in {"newlink", "dellink"} /\ j = x.index /\ ifcache'[j] = x.name
      BY <1>0, <1>5, ProcessNames DEF Cache
    <2>3. ASSUME NEW j \in Indexes, ifcache'[j] # None
          PROVE  born[j] # None /\ \A n \in Stable : ifcache'[j] = n <=> born[j] = n
      <3>1. CASE ifcache'[j] = ifcache[j]
        BY <2>3, <3>1 DEF Naming
      <3>2. CASE ifcache'[j] = NameNow(j)
        BY <2>3, <3>2 DEF NameNow, Allocation
      <3>3. CASE x.type \in {"newlink", "dellink"} /\ j = x.index /\ ifcache'[j] = x.name
        BY <3>3 DEF Naming
      <3> QED
        BY <2>2, <3>1, <3>2, <3>3
    <2> QED
      BY <1>5, <2>1, <2>3 DEF Naming
  <1>6. CASE DumpMessage
    <2>1. PICK x \in answer : processMessage(x) /\ answer' = answer \ {x}
      BY <1>6 DEF DumpMessage
    <2>2. answer # None /\ UNCHANGED <<socket, klink, born, renamed>>
      BY <1>6 DEF DumpMessage, kernel
    <2>3. x \in Waiting /\ Waiting' \subseteq Waiting
      BY <2>1, <2>2 DEF Waiting, Answered
    <2> QED
      BY <1>5, <2>1, <2>2, <2>3
  <1>7. CASE LiveMessage
    <2>1. /\ processMessage(Head(socket)) /\ socket # <<>> /\ socket' = Tail(socket)
          /\ UNCHANGED <<answer, klink, born, renamed>>
      BY <1>7 DEF LiveMessage, kernel
    <2>2. Head(socket) \in Waiting /\ Waiting' \subseteq Waiting
      BY <2>1, TailSent DEF Waiting, Answered, Wire
    <2> QED
      BY <1>5, <2>1, <2>2
  <1>8. CASE Subscribe \/ DumpDone \/ UNCHANGED vars
    <2>1. UNCHANGED <<socket, klink, born, renamed, ifcache>>
          /\ (answer' = answer \/ answer' = None)
      BY <1>8 DEF Subscribe, DumpDone, vars, kernel, cached
    <2>2. Waiting' \subseteq Waiting /\ Stable' = Stable
      BY <2>1 DEF Waiting, Answered, Stable
    <2> QED
      BY <2>1, <2>2 DEF Naming
  <1> QED
    BY <1>1, <1>2, <1>3, <1>4, <1>6, <1>7, <1>8, NotifiedIndex DEF Next

-----------------------------------------------------------------------------
(* The links *)

\* The messages about the link called n, and those that agree with the kernel.
LinkMsgsOf(n) == {x \in LinkMsgs : x.name = n}
LinkTruth(n) ==
    {x \in LinkMsgs : IF x.type = "newlink"
                      THEN x.index \in Named(n) /\ x.up = klink[x.index].up
                      ELSE Named(n) = {}}

\* The cached link called n agrees with the kernel.
LinkAgrees(n) ==
    IF links[n] = None THEN Named(n) = {}
    ELSE links[n].index \in Named(n) /\ links[n].up = klink[links[n].index].up

LinkLevel(n) ==
    /\ stage = 1 => links[n] = None \/ LinkAgrees(n)
    /\ stage = 1 /\ answer # None =>
         /\ \A x \in answer : x \in LinkMsgsOf(n) => x \in LinkTruth(n)
         /\ LinkAgrees(n) \/ \E x \in answer : x \in LinkMsgsOf(n)
    /\ stage > 1 => LinkAgrees(n)

\* The last message about n agrees with the kernel; without one the cache
\* does, together with the running answer.
LinkKnown(n) ==
    \/ Ends(socket, LinkMsgsOf(n), LinkTruth(n))
    \/ Silent(socket, LinkMsgsOf(n)) /\ LinkLevel(n)

Links ==
    /\ stage < 1 => links = NoLinks
    /\ \A n \in Names : Named(n) # {} \/ n \in Stable => LinkKnown(n)

\* What a message does to the link called n.
LEMMA ProcessLink ==
    ASSUME Kernel, Sound, NEW x \in Msgs, processMessage(x), NEW n \in Names
    PROVE  /\ x \notin LinkMsgsOf(n) => links'[n] = links[n]
           /\ x \in LinkMsgsOf(n) /\ x.type = "newlink" =>
                links'[n] # None /\ links'[n].index = x.index /\ links'[n].up = x.up
           /\ x \in LinkMsgsOf(n) /\ x.type # "newlink" => links'[n] = None
  <1>0. /\ links \in [Ifnames -> LinkState \cup {None}] /\ n \in Ifnames
        /\ ifcache \in [Indexes -> Names \cup {None}]
    BY DEF Sound, Cache, Ifnames
  <1>1. CASE x.type \in {"newlink", "dellink"}
    <2>1. /\ x \in LinkMsgs /\ x.index \in Indexes /\ x.name \in Names /\ x.up \in BOOLEAN
          /\ x.master \in Indexes \cup {None}
      BY <1>1, MsgKinds DEF LinkMsgs
    <2> DEFINE removed == IF x.type = "dellink" THEN [ifcache EXCEPT ![x.index] = None]
                          ELSE ifcache
               put == [removed EXCEPT ![x.index] = x.name]
               master == IF x.master = None THEN None ELSE Resolve(put, x.master)
               l == [index |-> x.index, up |-> x.up, masterIndex |-> x.master,
                     master |-> master]
    <2>2. updateLink(x.name, x.type = "newlink", l)
      BY <1>1 DEF processMessage, handleLink
    <2>3. put \in [Indexes -> Names \cup {None}]
      BY <1>0, <2>1
    <2> HIDE DEF put
    <2>4. master \in Ifnames \cup {None}
      BY <2>1, <2>3, ResolveType
    <2> HIDE DEF master
    <2>5. l \in LinkState /\ l # None /\ l.index = x.index /\ l.up = x.up
      BY <2>1, <2>4, NoneIsNoEntry DEF LinkState
    <2> HIDE DEF l
    <2>6. links' = [links EXCEPT ![x.name] = IF x.type = "newlink" THEN l ELSE None]
      BY <2>2 DEF updateLink
    <2> QED
      BY <1>0, <2>1, <2>5, <2>6 DEF LinkMsgsOf
  <1>2. CASE x.type \notin {"newlink", "dellink"}
    <2>1. x \notin LinkMsgsOf(n)
      BY <1>2 DEF LinkMsgsOf, LinkMsgs
    <2>2. UNCHANGED links
      BY <1>2 DEF processMessage, handleFdb, handleAddr, handleNeighborL3, updateFdb,
                  updateAddress, updateNeighbor, Ignore, UnchangedBut
    <2> QED
      BY <2>1, <2>2
  <1> QED
    BY <1>1, <1>2

\* A notification is about the link called n and true, or that link is as
\* it was.
NoticedLink(n) ==
    \E x \in Msgs :
        /\ Notify(x)
        /\ \/ x \in LinkMsgsOf(n) /\ x \in LinkTruth(n)'
           \/ /\ x \notin LinkMsgsOf(n) /\ Named(n)' = Named(n) /\ Stable' \subseteq Stable
              /\ \A i \in Named(n) : klink'[i] = klink[i]

\* Every change of the kernel is such a notification.
LEMMA LinkNoticed ==
    ASSUME Kernel, Wire, Allocation, KernelStep, NEW n \in Names,
           Named(n)' # {} \/ n \in Stable'
    PROVE  NoticedLink(n)
  <1> USE DEF NoticedLink
  <1>1. ASSUME NEW i \in Indexes, NEW l \in KernelLink, KernelSetLink(i, l)
        PROVE  NoticedLink(n)
    <2> DEFINE x == LinkMsg("newlink", i, l)
    <2>1. /\ klink'[i] = l /\ l # None /\ l.name \in Names
          /\ \A j \in Indexes \ {i} : klink'[j] = klink[j]
          /\ klink[i] # None /\ klink[i].name # l.name =>
                renamed' = renamed \cup {klink[i].name, l.name}
          /\ Stable' \subseteq Stable
          /\ \A j \in Indexes \ {i} : klink[j] # None => klink[j].name # l.name
      BY <1>1, SetLinkFacts
    <2>2. /\ x \in LinkMsgs /\ x \in Msgs /\ Notify(x)
          /\ x.index = i /\ x.name = l.name /\ x.up = l.up /\ x.type = "newlink"
      BY <1>1, MessageTypes DEF KernelSetLink, Msgs, LinkMsg
    <2> HIDE DEF x
    <2>3. CASE n = l.name
      <3>1. i \in Named(n)'
        BY <2>1, <2>3 DEF Named
      <3>2. x \in LinkMsgsOf(n) /\ x \in LinkTruth(n)'
        BY <2>1, <2>2, <2>3, <3>1 DEF LinkMsgsOf, LinkTruth
      <3> QED
        BY <2>2, <3>2
    <2>4. CASE n # l.name
      <3>1. x \notin LinkMsgsOf(n)
        BY <2>2, <2>4 DEF LinkMsgsOf
      <3>2. i \notin Named(n)
        <4> SUFFICES ASSUME i \in Named(n)
                     PROVE  FALSE
          OBVIOUS
        <4>1. klink[i] # None /\ klink[i].name = n /\ n \in renamed'
          BY <2>1, <2>4 DEF Named
        <4>2. Named(n)' = {}
          BY <2>1, <2>4, <4>1 DEF Named, Allocation
        <4> QED
          BY <4>1, <4>2 DEF Stable
      <3>3. Named(n)' = Named(n) /\ \A j \in Named(n) : klink'[j] = klink[j]
        BY <2>1, <2>4, <3>2 DEF Named
      <3> QED
        BY <2>1, <2>2, <3>1, <3>3
    <2> QED
      BY <2>3, <2>4
  <1>2. ASSUME NEW i \in Indexes, KernelDelLink(i)
        PROVE  NoticedLink(n)
    <2> DEFINE x == LinkMsg("dellink", i, klink[i])
    <2>1. /\ klink[i] \in KernelLink /\ klink[i] # None /\ Notify(x) /\ Stable' = Stable
          /\ klink'[i] = None /\ \A j \in Indexes \ {i} : klink'[j] = klink[j]
      BY <1>2 DEF KernelDelLink, Kernel, Stable
    <2>2. /\ x \in LinkMsgs /\ x \in Msgs
          /\ x.index = i /\ x.name = klink[i].name /\ x.type = "dellink"
      BY <2>1, MessageTypes DEF Msgs, LinkMsg
    <2> HIDE DEF x
    <2>3. CASE n = klink[i].name
      <3>1. Named(n)' = {}
        BY <2>1, <2>3 DEF Named, Allocation
      <3>2. x \in LinkMsgsOf(n) /\ x \in LinkTruth(n)'
        BY <2>2, <2>3, <3>1 DEF LinkMsgsOf, LinkTruth
      <3> QED
        BY <2>1, <2>2, <3>2
    <2>4. CASE n # klink[i].name
      <3>1. x \notin LinkMsgsOf(n)
        BY <2>2, <2>4 DEF LinkMsgsOf
      <3>2. Named(n)' = Named(n) /\ \A j \in Named(n) : klink'[j] = klink[j]
        BY <2>1, <2>4 DEF Named
      <3> QED
        BY <2>1, <2>2, <3>1, <3>2
    <2> QED
      BY <2>3, <2>4
  <1>3. ASSUME NEW x \in AddrMsgs \cup NeighMsgs \cup FdbMsgs,
               Notify(x) /\ klink[x.index] # None /\ UNCHANGED <<klink, born, renamed>>
        PROVE  NoticedLink(n)
    <2>1. x \in Msgs /\ x \notin LinkMsgsOf(n)
      BY DEF Msgs, AddrMsgs, NeighMsgs, FdbMsgs, LinkMsgs, LinkMsgsOf
    <2>2. Named(n)' = Named(n) /\ Stable' = Stable
      BY <1>3 DEF Named, Stable
    <2> QED
      BY <1>3, <2>1, <2>2
  <1> QED
    BY <1>1, <1>2, <1>3, NotifiedIndex

\* Every step keeps what is known of the links.
LEMMA LinksStep ==
    ASSUME Kernel, Wire, Sound, Allocation, Links, [Next]_vars
    PROVE  Links'
  <1>w. stage \in 0 .. 5 /\ socket \in Seq(Msgs) /\ None # {}
    BY NoneIsNoEntry DEF Wire
  <1>1. CASE KernelStep
    <2>1. UNCHANGED <<stage, answer, links>>
      BY <1>1, KernelMoves DEF Notified, Notify, cached
    <2>2. ASSUME NEW n \in Names, Named(n)' # {} \/ n \in Stable'
          PROVE  LinkKnown(n)'
      <3>1. PICK x \in Msgs :
             /\ Notify(x)
             /\ \/ x \in LinkMsgsOf(n) /\ x \in LinkTruth(n)'
                \/ /\ x \notin LinkMsgsOf(n) /\ Named(n)' = Named(n) /\ Stable' \subseteq Stable
                   /\ \A i \in Named(n) : klink'[i] = klink[i]
        BY <1>1, <2>2, LinkNoticed DEF NoticedLink
      <3>2. CASE x \in LinkMsgsOf(n) /\ x \in LinkTruth(n)'
        <4>1. socket' = IF stage = 0 THEN socket ELSE Append(socket, x)
          BY <3>1 DEF Notify
        <4>2. CASE stage = 0
          <5>1. socket' = <<>> /\ LinkLevel(n)'
            BY <2>1, <4>1, <4>2 DEF Wire, LinkLevel
          <5> QED
            BY <5>1, EmptySocket DEF LinkKnown, LinkMsgsOf
        <4>3. CASE stage # 0
          BY <1>w, <3>2, <4>1, <4>3, AppendEnds DEF LinkKnown, LinkMsgsOf
        <4> QED
          BY <4>2, <4>3
      <3>3. CASE /\ x \notin LinkMsgsOf(n) /\ Named(n)' = Named(n) /\ Stable' \subseteq Stable
                 /\ \A i \in Named(n) : klink'[i] = klink[i]
        <4>1. LinkKnown(n)
          BY <2>2, <3>3 DEF Links
        <4>2. LinkTruth(n)' = LinkTruth(n)
          BY <3>3 DEF LinkTruth
        <4>3. LinkAgrees(n)' = LinkAgrees(n)
          BY <2>1, <3>3 DEF LinkAgrees
        <4>4. LinkLevel(n)' = LinkLevel(n)
          BY <2>1, <4>2, <4>3 DEF LinkLevel, LinkMsgsOf
        <4>5. socket' = IF stage = 0 THEN socket ELSE Append(socket, x)
          BY <3>1 DEF Notify
        <4> HIDE DEF LinkTruth, LinkMsgsOf, LinkLevel
        <4>6. LinkMsgsOf(n)' = LinkMsgsOf(n)
          BY DEF LinkMsgsOf
        <4> QED
          BY <1>w, <3>3, <4>1, <4>2, <4>4, <4>5, <4>6, AppendEnds DEF LinkKnown
      <3> QED
        BY <3>1, <3>2, <3>3
    <2> QED
      BY <2>1, <2>2 DEF Links
  <1>2. ASSUME UNCHANGED <<klink, renamed>>, stage' < 1 => links' = NoLinks,
               \A n \in Names : LinkKnown(n) => LinkKnown(n)'
        PROVE  Links'
    BY <1>2 DEF Links, Named, Stable
  <1>t. UNCHANGED klink => \A n : /\ LinkTruth(n)' = LinkTruth(n) /\ Named(n)' = Named(n)
                                  /\ LinkMsgsOf(n)' = LinkMsgsOf(n)
    BY DEF LinkTruth, Named, LinkMsgsOf
  <1>3. CASE Subscribe
    <2>1. UNCHANGED <<klink, renamed, links, socket, answer>> /\ stage = 0 /\ stage' = 1
      BY <1>3 DEF Subscribe, kernel, cached
    <2>2. ASSUME NEW n \in Names
          PROVE  LinkKnown(n)'
      <3>1. links[n] = None /\ answer = None /\ socket' = <<>>
        BY <2>1 DEF Links, NoLinks, Ifnames, Wire
      <3> QED
        BY <2>1, <3>1, EmptySocket DEF LinkKnown, LinkLevel
    <2> QED
      BY <1>2, <2>1, <2>2
  <1>4. CASE DumpRequest
    <2>1. /\ stage \in 1 .. 4 /\ answer = None /\ answer' = Table(stage)
          /\ UNCHANGED <<stage, socket, klink, renamed, links>>
      BY <1>4 DEF DumpRequest, cached, kernel
    <2>2. ASSUME NEW n \in Names, LinkLevel(n)
          PROVE  LinkLevel(n)'
      <3>1. LinkAgrees(n)' = LinkAgrees(n)
        BY <2>1 DEF LinkAgrees, Named
      <3>2. CASE stage = 1
        <4>1. answer' = {LinkMsg("newlink", i, klink[i]) : i \in {j \in Indexes : klink[j] # None}}
          BY <2>1, <3>2 DEF Table
        <4>2. ASSUME NEW x \in answer', x \in LinkMsgsOf(n)
              PROVE  x \in LinkTruth(n)
          BY <4>1, <4>2 DEF LinkMsgsOf, LinkTruth, Named, LinkMsg
        <4>3. LinkAgrees(n) \/ \E x \in answer' : x \in LinkMsgsOf(n)
          <5>1. CASE Named(n) = {}
            BY <2>2, <3>2, <5>1 DEF LinkLevel, LinkAgrees
          <5>2. CASE Named(n) # {}
            <6>1. PICK i \in Indexes : klink[i] # None /\ klink[i].name = n
              BY <5>2 DEF Named
            <6>2. LinkMsg("newlink", i, klink[i]) \in LinkMsgs
              BY <6>1, MessageTypes DEF Kernel
            <6>3. LinkMsg("newlink", i, klink[i]) \in LinkMsgsOf(n)
              BY <6>1, <6>2 DEF LinkMsgsOf, LinkMsg
            <6> QED
              BY <4>1, <6>1, <6>3
          <5> QED
            BY <5>1, <5>2
        <4> QED
          BY <1>t, <2>1, <2>2, <3>1, <3>2, <4>2, <4>3 DEF LinkLevel
      <3>3. CASE stage # 1
        BY <2>1, <2>2, <3>1, <3>3 DEF LinkLevel
      <3> QED
        BY <3>2, <3>3
    <2> QED
      BY <1>2, <1>t, <2>1, <2>2 DEF LinkKnown, Links
  <1>5. CASE DumpMessage
    <2>1. PICK x \in answer : processMessage(x) /\ answer' = answer \ {x}
      BY <1>5 DEF DumpMessage
    <2>2. /\ answer # None /\ stage \in 1 .. 4 /\ x \in Kind(stage) /\ x \in Msgs
          /\ UNCHANGED <<socket, stage, klink, renamed>>
      BY <1>5, <2>1, TableKind DEF DumpMessage, Wire, kernel
    <2>3. ASSUME NEW n \in Names, LinkLevel(n)
          PROVE  LinkLevel(n)'
      <3>1. CASE x \in LinkMsgsOf(n)
        <4>1. stage = 1 /\ x.type = "newlink"
          BY <2>2, <3>1 DEF Kind, LinkMsgsOf, LinkMsgs, AddrMsgs, NeighMsgs, FdbMsgs
        <4>2. x \in LinkTruth(n)
          BY <2>1, <2>2, <2>3, <3>1, <4>1 DEF LinkLevel
        <4>3. links'[n] # None /\ links'[n].index = x.index /\ links'[n].up = x.up
          BY <2>1, <2>2, <3>1, <4>1, ProcessLink
        <4>4. LinkAgrees(n)'
          BY <1>t, <2>2, <4>1, <4>2, <4>3 DEF LinkAgrees, LinkTruth
        <4> QED
          BY <1>t, <2>1, <2>2, <2>3, <4>1, <4>4 DEF LinkLevel
      <3>2. CASE x \notin LinkMsgsOf(n)
        <4>1. links'[n] = links[n]
          BY <2>1, <2>2, <3>2, ProcessLink
        <4>2. LinkAgrees(n)' = LinkAgrees(n)
          BY <1>t, <2>2, <4>1 DEF LinkAgrees
        <4> QED
          BY <1>t, <2>1, <2>2, <2>3, <3>2, <4>1, <4>2 DEF LinkLevel
      <3> QED
        BY <3>1, <3>2
    <2>4. stage' < 1 => links' = NoLinks
      BY <2>2
    <2> QED
      BY <1>2, <1>t, <2>2, <2>3, <2>4 DEF LinkKnown
  <1>6. CASE DumpDone
    <2>1. /\ answer = {} /\ answer # None /\ answer' = None /\ stage \in 1 .. 4
          /\ stage' = stage + 1 /\ UNCHANGED <<socket, klink, renamed, links>>
      BY <1>w, <1>6 DEF DumpDone, cached, kernel, Wire
    <2>2. ASSUME NEW n \in Names, LinkLevel(n)
          PROVE  LinkLevel(n)'
      <3>1. LinkAgrees(n)' = LinkAgrees(n)
        BY <2>1 DEF LinkAgrees, Named
      <3> QED
        BY <2>1, <2>2, <3>1 DEF LinkLevel
    <2> QED
      BY <1>2, <1>t, <2>1, <2>2 DEF LinkKnown
  <1>7. CASE LiveMessage
    <2> DEFINE x == Head(socket)
    <2>1. /\ stage = 5 /\ socket # <<>> /\ processMessage(x) /\ socket' = Tail(socket)
          /\ UNCHANGED <<stage, answer, klink, renamed>> /\ answer = None
      BY <1>7 DEF LiveMessage, kernel, Wire
    <2>3. x \in Msgs
      BY <1>w, <2>1, TailEnds
    <2> HIDE DEF x
    <2>4. ASSUME NEW n \in Names, LinkKnown(n)
          PROVE  LinkKnown(n)'
      <3>1. CASE Silent(socket, LinkMsgsOf(n)) /\ LinkLevel(n)
        <4>1. Silent(socket', LinkMsgsOf(n)) /\ x \notin LinkMsgsOf(n)
          BY <1>w, <2>1, <3>1, TailEnds DEF x
        <4>2. links'[n] = links[n]
          BY <2>1, <2>3, <4>1, ProcessLink
        <4>3. LinkAgrees(n)' = LinkAgrees(n)
          BY <1>t, <2>1, <4>2 DEF LinkAgrees
        <4>4. LinkLevel(n)'
          BY <2>1, <3>1, <4>3 DEF LinkLevel
        <4> QED
          BY <1>t, <2>1, <4>1, <4>4 DEF LinkKnown
      <3>2. CASE Ends(socket', LinkMsgsOf(n), LinkTruth(n))
        BY <1>t, <2>1, <3>2 DEF LinkKnown
      <3>3. CASE Silent(socket', LinkMsgsOf(n)) /\ x \in LinkMsgsOf(n) /\ x \in LinkTruth(n)
        <4>1. /\ x.type = "newlink" =>
                   links'[n] # None /\ links'[n].index = x.index /\ links'[n].up = x.up
              /\ x.type # "newlink" => links'[n] = None
          BY <2>1, <2>3, <3>3, ProcessLink
        <4>2. LinkAgrees(n)'
          BY <1>t, <2>1, <3>3, <4>1 DEF LinkAgrees, LinkTruth
        <4>3. LinkLevel(n)'
          BY <2>1, <4>2 DEF LinkLevel
        <4> QED
          BY <1>t, <2>1, <3>3, <4>3 DEF LinkKnown
      <3> QED
        BY <1>w, <2>1, <2>4, <3>1, <3>2, <3>3, TailEnds DEF x, LinkKnown
    <2> QED
      BY <1>2, <2>1, <2>4
  <1>8. CASE UNCHANGED vars
    BY <1>2, <1>8 DEF vars, kernel, cached, LinkKnown, LinkLevel, LinkAgrees, LinkTruth,
                      LinkMsgsOf, Named, Links
  <1> QED
    BY <1>1, <1>3, <1>4, <1>5, <1>6, <1>7, <1>8 DEF Next

-----------------------------------------------------------------------------
(* Whose name is known when a message about it is handled *)

\* A living link is cached, or the first message about it will announce it,
\* or the dump of the links is still to come.
Announced ==
    \A i \in Indexes : klink[i] # None /\ ifcache[i] = None /\ ~First(socket, i) =>
        \/ stage = 0
        \/ stage = 1 /\ (answer = None \/ \E x \in answer : x.index = i)

\* While messages about an earlier owner of its name wait, a link is known.
Succession ==
    \A n \in Stable : \A i \in Named(n) : \A x \in Sent(socket) :
        born[x.index] = n /\ x.index # i => First(socket, i) \/ ifcache[i] # None

\* A notification takes no announcement back, and a new link is announced.
LEMMA FirstKept ==
    ASSUME Wire, NEW x \in Msgs, Notify(x)
    PROVE  /\ \A i : First(socket, i) => First(socket', i)
           /\ stage = 0 => Sent(socket') = {}
           /\ \A i : /\ stage # 0 /\ x.index = i /\ x.type = "newlink"
                     /\ \A y \in Sent(socket) : y.index # i
                     => First(socket', i)
  <1>1. /\ socket \in Seq(Msgs)
        /\ socket' = IF stage = 0 THEN socket ELSE Append(socket, x)
        /\ stage = 0 => socket = <<>>
    BY DEF Notify, Wire
  <1>2. stage = 0 => Sent(socket') = {}
    BY <1>1 DEF Sent
  <1> QED
    BY <1>1, <1>2, AppendSent

\* Every step leaves each living link cached, announced or still to be dumped.
LEMMA AnnouncedStep ==
    ASSUME Kernel, Wire, Cache, Allocation, Naming, Announced, [Next]_vars
    PROVE  Announced'
  <1>w. stage \in 0 .. 5 /\ socket \in Seq(Msgs) /\ None # {}
    BY NoneIsNoEntry DEF Wire
  <1>1. ASSUME NEW i \in Indexes, NEW l \in KernelLink, KernelSetLink(i, l)
        PROVE  Announced'
    <2> DEFINE x == LinkMsg("newlink", i, l)
    <2>1. /\ \A j \in Indexes \ {i} : klink'[j] = klink[j]
          /\ klink[i] = None => born[i] = None
      BY <1>1, SetLinkFacts
    <2>2. x \in Msgs /\ Notify(x) /\ x.index = i /\ x.type = "newlink"
      BY <1>1, MessageTypes DEF KernelSetLink, Msgs, LinkMsg
    <2> HIDE DEF x
    <2>3. UNCHANGED <<ifcache, answer, stage>>
      BY <2>2, NotifyWaiting
    <2>4. klink[i] = None /\ stage # 0 => First(socket', i)
      <3>1. klink[i] = None => \A y \in Sent(socket) : y.index # i
        BY <2>1 DEF Naming, Waiting
      <3> QED
        BY <2>2, <3>1, FirstKept
    <2> QED
      BY <2>1, <2>2, <2>3, <2>4, FirstKept DEF Announced
  <1>2. ASSUME NEW x \in Msgs, Notify(x),
               \A j \in Indexes : klink'[j] # None => klink[j] # None
        PROVE  Announced'
    <2>1. UNCHANGED <<ifcache, answer, stage>>
      BY <1>2, NotifyWaiting
    <2> QED
      BY <1>2, <2>1, FirstKept DEF Announced
  <1>3. CASE KernelStep
    <2>1. ASSUME NEW i \in Indexes, KernelDelLink(i)
          PROVE  Announced'
      <3>1. klink' = [klink EXCEPT ![i] = None]
        BY <2>1 DEF KernelDelLink
      <3>2. \A j \in Indexes : klink'[j] # None => klink[j] # None
        BY <3>1 DEF Kernel
      <3> QED
        BY <1>2, <1>3, <3>2, KernelMoves DEF Notified
    <2>2. CASE UNCHANGED klink
      BY <1>2, <1>3, <2>2, KernelMoves DEF Notified
    <2> QED
      BY <1>1, <1>3, <2>1, <2>2, NotifiedIndex
  <1>4. CASE Subscribe
    BY <1>4 DEF Subscribe, Announced, Wire, kernel, cached
  <1>5. CASE DumpRequest
    <2>1. /\ stage \in 1 .. 4 /\ answer = None /\ answer' = Table(stage)
          /\ UNCHANGED <<stage, socket, klink, ifcache>>
      BY <1>5 DEF DumpRequest, cached, kernel
    <2>2. CASE stage = 1
      <3>1. answer' = {LinkMsg("newlink", i, klink[i]) : i \in {j \in Indexes : klink[j] # None}}
        BY <2>1, <2>2 DEF Table
      <3>2. \A i \in Indexes : LinkMsg("newlink", i, klink[i]).index = i
        BY DEF LinkMsg
      <3>3. \A i \in Indexes : klink[i] # None => \E x \in answer' : x.index = i
        BY <3>1, <3>2
      <3> QED
        BY <2>1, <2>2, <3>3 DEF Announced
    <2>3. CASE stage # 1
      BY <2>1, <2>3 DEF Announced
    <2> QED
      BY <2>2, <2>3
  <1>6. CASE DumpMessage
    <2>1. PICK x \in answer : processMessage(x) /\ answer' = answer \ {x}
      BY <1>6 DEF DumpMessage
    <2>2. /\ answer # None /\ stage \in 1 .. 4 /\ x \in Kind(stage) /\ x \in Msgs
          /\ UNCHANGED <<socket, stage, klink>>
      BY <1>6, <2>1, TableKind DEF DumpMessage, Wire, kernel
    <2>3. \A j \in Indexes : ifcache[j] # None => ifcache'[j] # None
      BY <2>1, <2>2, ProcessNames DEF Cache
    <2>4. stage = 1 => ifcache'[x.index] # None
      <3>1. stage = 1 => x.type = "newlink" /\ x.index \in Indexes
        BY <2>2 DEF Kind, LinkMsgs
      <3> QED
        BY <2>1, <2>2, <3>1, ProcessNames, StateValues DEF Cache
    <2> QED
      BY <2>1, <2>2, <2>3, <2>4 DEF Announced
  <1>7. CASE DumpDone
    <2>1. /\ answer = {} /\ answer # None /\ answer' = None /\ stage \in 1 .. 4
          /\ stage' = stage + 1 /\ UNCHANGED <<socket, klink, ifcache>>
      BY <1>w, <1>7 DEF DumpDone, cached, kernel, Wire
    <2> QED
      BY <2>1 DEF Announced
  <1>8. CASE LiveMessage
    <2> DEFINE x == Head(socket)
    <2>1. /\ stage = 5 /\ socket # <<>> /\ processMessage(x) /\ socket' = Tail(socket)
          /\ UNCHANGED <<stage, answer, klink>>
      BY <1>8 DEF LiveMessage, kernel
    <2>2. x \in Msgs
      BY <1>w, <2>1, TailEnds
    <2>3. \A j \in Indexes : First(socket, j) =>
            First(socket', j) \/ (x.index = j /\ x.type = "newlink")
      BY <1>w, <2>1, TailSent
    <2> HIDE DEF x
    <2>4. \A j \in Indexes : /\ ifcache[j] # None => ifcache'[j] # None
                             /\ x.index = j /\ x.type = "newlink" => ifcache'[j] # None
      BY <2>1, <2>2, ProcessNames, StateValues DEF Cache
    <2> QED
      BY <2>1, <2>3, <2>4 DEF Announced
  <1>9. CASE UNCHANGED vars
    BY <1>9 DEF vars, kernel, cached, Announced
  <1> QED
    BY <1>3, <1>4, <1>5, <1>6, <1>7, <1>8, <1>9 DEF Next

\* Every step keeps a link known while its predecessor's messages wait.
LEMMA SuccessionStep ==
    ASSUME Kernel, Wire, Cache, Allocation, Naming, Succession, [Next]_vars
    PROVE  Succession'
  <1>w. socket \in Seq(Msgs) /\ \A y \in Sent(socket) : y.index \in Indexes /\ y \in Waiting
    BY WaitingMsgs DEF Wire, Waiting
  <1>1. ASSUME NEW i \in Indexes, NEW l \in KernelLink, KernelSetLink(i, l)
        PROVE  Succession'
    <2> DEFINE x == LinkMsg("newlink", i, l)
    <2>1. /\ klink'[i] = l /\ l # None /\ l.name \in Names
          /\ \A j \in Indexes \ {i} : klink'[j] = klink[j] /\ born'[j] = born[j]
          /\ klink[i] = None => born[i] = None
          /\ klink[i] # None => born'[i] = born[i]
          /\ klink[i] # None /\ klink[i].name # l.name =>
                renamed' = renamed \cup {klink[i].name, l.name}
          /\ Stable' \subseteq Stable
          /\ \A j \in Indexes \ {i} : klink[j] # None => klink[j].name # l.name
      BY <1>1, SetLinkFacts
    <2>2. x \in Msgs /\ Notify(x) /\ x.index = i /\ x.type = "newlink"
      BY <1>1, MessageTypes DEF KernelSetLink, Msgs, LinkMsg
    <2> HIDE DEF x
    <2>3. UNCHANGED ifcache /\ Sent(socket') \subseteq Sent(socket) \cup {x}
      BY <2>2, NotifyWaiting
    <2>4. klink[i] = None /\ stage # 0 => First(socket', i)
      <3>1. klink[i] = None => \A y \in Sent(socket) : y.index # i
        BY <2>1 DEF Naming, Waiting
      <3> QED
        BY <2>2, <3>1, FirstKept
    <2>5. \A y \in Sent(socket) : born'[y.index] = born[y.index]
      BY <1>w, <2>1 DEF Naming
    <2>6. ASSUME NEW n \in Stable', NEW j \in Named(n)', NEW y \in Sent(socket'),
                 born'[y.index] = n, y.index # j
          PROVE  First(socket', j) \/ ifcache[j] # None
      <3>1. j \in Indexes /\ klink'[j] # None /\ klink'[j].name = n
        BY DEF Named
      <3>2. CASE y = x
        <4>1. l.name = n
          <5>1. Allocation'
            BY AllocationStep
          <5> QED
            BY <2>1, <2>2, <2>6, <3>2, <5>1 DEF Allocation
        <4> QED
          BY <2>1, <2>2, <2>6, <3>1, <3>2, <4>1
      <3>3. CASE y \in Sent(socket) /\ (j # i \/ klink[i] # None)
        <4>1. j \in Named(n)
          BY <2>1, <3>1, <3>3 DEF Named, Stable
        <4>2. First(socket, j) \/ ifcache[j] # None
          BY <2>1, <2>5, <2>6, <3>3, <4>1 DEF Succession
        <4> QED
          BY <2>2, <4>2, FirstKept
      <3>4. CASE y \in Sent(socket) /\ j = i /\ klink[i] = None
        BY <2>2, <2>4, <2>6, <3>4, FirstKept
      <3> QED
        BY <2>3, <3>2, <3>3, <3>4
    <2> QED
      BY <2>3, <2>6 DEF Succession
  <1>2. ASSUME NEW x \in Msgs, Notify(x), UNCHANGED <<born, renamed>>, klink[x.index] # None,
               \A j \in Indexes \ {x.index} : klink'[j] = klink[j],
               klink'[x.index] \in {klink[x.index], None}
        PROVE  Succession'
    <2>1. UNCHANGED ifcache /\ Sent(socket') \subseteq Sent(socket) \cup {x} /\ Stable' = Stable
      BY <1>2, NotifyWaiting DEF Stable
    <2>2. x.index \in Indexes
      BY WaitingMsgs
    <2>3. \A n : Named(n)' \subseteq Named(n)
      BY <1>2, <2>2 DEF Named
    <2>4. \A n \in Stable : \A j \in Named(n) : born[x.index] = n => x.index = j
      BY <1>2, <2>2 DEF Allocation, Named
    <2> QED
      BY <1>2, <2>1, <2>3, <2>4, FirstKept DEF Succession
  <1>3. CASE KernelStep
    <2>1. ASSUME NEW i \in Indexes, KernelDelLink(i)
          PROVE  Succession'
      <3> DEFINE x == LinkMsg("dellink", i, klink[i])
      <3>1. /\ klink' = [klink EXCEPT ![i] = None] /\ klink[i] # None /\ Notify(x)
            /\ UNCHANGED <<born, renamed>> /\ klink[i] \in KernelLink
        BY <2>1 DEF KernelDelLink, Kernel
      <3>2. x.index = i /\ x \in Msgs
        BY <3>1, MessageTypes DEF Msgs, LinkMsg
      <3> HIDE DEF x
      <3> QED
        BY <1>2, <3>1, <3>2 DEF Kernel
    <2>2. ASSUME NEW x \in AddrMsgs \cup NeighMsgs \cup FdbMsgs,
                 Notify(x) /\ klink[x.index] # None /\ UNCHANGED <<klink, born, renamed>>
          PROVE  Succession'
      BY <1>2, <2>2 DEF Msgs
    <2> QED
      BY <1>1, <1>3, <2>1, <2>2, NotifiedIndex
  <1>4. CASE /\ UNCHANGED <<klink, born, renamed, socket>>
             /\ \A j \in Indexes : ifcache[j] # None => ifcache'[j] # None
    BY <1>4 DEF Succession, Named, Stable
  <1>5. CASE DumpMessage
    <2>1. PICK x \in answer : processMessage(x) /\ answer' = answer \ {x}
      BY <1>5 DEF DumpMessage
    <2>2. x \in Msgs /\ UNCHANGED <<klink, born, renamed, socket>>
      BY <1>5, <2>1, TableKind DEF DumpMessage, Wire, kernel
    <2>3. \A j \in Indexes : ifcache[j] # None => ifcache'[j] # None
      BY <2>1, <2>2, ProcessNames DEF Cache
    <2> QED
      BY <1>4, <2>2, <2>3
  <1>6. CASE LiveMessage
    <2> DEFINE x == Head(socket)
    <2>1. /\ socket # <<>> /\ processMessage(x) /\ socket' = Tail(socket)
          /\ UNCHANGED <<klink, born, renamed>>
      BY <1>6 DEF LiveMessage, kernel
    <2>2. x \in Msgs
      BY <1>w, <2>1, TailEnds
    <2>3. /\ Sent(socket') \subseteq Sent(socket)
          /\ \A j \in Indexes : First(socket, j) =>
               First(socket', j) \/ (x.index = j /\ x.type = "newlink")
      BY <1>w, <2>1, TailSent
    <2> HIDE DEF x
    <2>4. \A j \in Indexes : /\ ifcache[j] # None => ifcache'[j] # None
                             /\ x.index = j /\ x.type = "newlink" => ifcache'[j] # None
      BY <2>1, <2>2, ProcessNames, StateValues DEF Cache
    <2>5. \A n : Named(n)' = Named(n) /\ Named(n) \subseteq Indexes
      BY <2>1 DEF Named
    <2>6. Stable' = Stable
      BY <2>1 DEF Stable
    <2> QED
      BY <2>1, <2>3, <2>4, <2>5, <2>6 DEF Succession
  <1>7. CASE Subscribe \/ DumpRequest \/ DumpDone \/ UNCHANGED vars
    BY <1>4, <1>7 DEF Subscribe, DumpRequest, DumpDone, vars, kernel, cached
  <1> QED
    BY <1>3, <1>5, <1>6, <1>7 DEF Next

-----------------------------------------------------------------------------
(* The addresses *)

\* The messages that decide whether ip is an address of n, and those that
\* agree with the kernel: its own, and a removal of the link.
AddressMsgs(n, ip) ==
    {x \in AddrMsgs : x.ip = ip /\ born[x.index] = n}
    \cup {x \in LinkMsgs : x.type = "dellink" /\ x.name = n}
Held(n, ip) == \E i \in Named(n) : <<i, ip>> \in kaddr
AddressTruth(n, ip) ==
    {x \in AddrMsgs : x.index \in Named(n) /\ (x.type = "newaddr" <=> <<x.index, ip>> \in kaddr)}
    \cup {x \in LinkMsgs : ~Held(n, ip)}

AddressLevel(n, ip) ==
    /\ <<n, ip>> \in addrs => Held(n, ip)
    /\ stage = 2 /\ answer # None =>
         /\ \A x \in answer : x \in AddressMsgs(n, ip) => x \in AddressTruth(n, ip)
         /\ Held(n, ip) => <<n, ip>> \in addrs \/ \E x \in answer : x \in AddressMsgs(n, ip)
    /\ stage > 2 /\ Held(n, ip) => <<n, ip>> \in addrs

AddressKnown(n, ip) ==
    \/ Ends(socket, AddressMsgs(n, ip), AddressTruth(n, ip))
    \/ Silent(socket, AddressMsgs(n, ip)) /\ AddressLevel(n, ip)

Addresses ==
    /\ stage < 2 => addrs = {}
    /\ \A n \in Stable, ip \in Ips : AddressKnown(n, ip)

\* What a message does to address ip of n.
LEMMA ProcessAddress ==
    ASSUME Kernel, Sound, Allocation, Naming, NEW x \in Waiting, x \in Msgs, processMessage(x),
           NEW n \in Stable, NEW ip \in Ips
    PROVE  /\ x \notin AddressMsgs(n, ip) => (<<n, ip>> \in addrs' <=> <<n, ip>> \in addrs)
           /\ x \in AddressMsgs(n, ip) /\ x \in AddressTruth(n, ip) =>
                (<<n, ip>> \in addrs' <=> Held(n, ip))
           /\ x.type \in {"newlink", "newneigh", "delneigh", "newfdb", "delfdb"} => addrs' = addrs
  <1>0. Cache /\ n \in Names
    BY DEF Sound, Stable
  <1>1. CASE x.type \in {"newlink", "dellink"}
    <2>1. x \in LinkMsgs
      BY <1>1, MsgKinds
    <2>2. PICK l : updateLink(x.name, x.type = "newlink", l)
      BY <1>1 DEF processMessage, handleLink
    <2>3. addrs' = IF x.type = "newlink" THEN addrs ELSE {a \in addrs : a[1] # x.name}
      BY <2>2 DEF updateLink, UnchangedBut
    <2>4. x \in AddressMsgs(n, ip) <=> x.type = "dellink" /\ x.name = n
      BY <1>1, <2>1 DEF AddressMsgs, AddrMsgs
    <2>5. x \in AddressTruth(n, ip) => ~Held(n, ip)
      BY <1>1 DEF AddressTruth, AddrMsgs
    <2> QED
      BY <1>1, <2>3, <2>4, <2>5
  <1>2. CASE x.type \in {"newaddr", "deladdr"}
    <2> DEFINE m == Resolve(ifcache, x.index)
    <2>1. x \in AddrMsgs /\ x.index \in Indexes /\ x.ip \in Ips
      BY <1>2, MsgKinds DEF AddrMsgs
    <2>2. updateAddress(m, x.ip, x.type = "newaddr")
      BY <1>2 DEF processMessage, handleAddr
    <2>3. addrs' = IF x.type = "newaddr" THEN addrs \cup {<<m, x.ip>>} ELSE addrs \ {<<m, x.ip>>}
      BY <2>2 DEF updateAddress
    <2>4. /\ m = n => born[x.index] = n
          /\ born[x.index] = n /\ klink[x.index] # None => m = n
      BY <1>0, <2>1, ResolveNames
    <2> HIDE DEF m
    <2>5. CASE x \notin AddressMsgs(n, ip)
      <3>1. <<m, x.ip>> # <<n, ip>>
        BY <2>1, <2>4, <2>5 DEF AddressMsgs
      <3> QED
        BY <1>2, <2>3, <2>5, <3>1
    <2>6. CASE x \in AddressMsgs(n, ip) /\ x \notin AddressTruth(n, ip)
      BY <1>2, <2>6
    <2>7. CASE x \in AddressMsgs(n, ip) /\ x \in AddressTruth(n, ip)
      <3>1. x.ip = ip /\ born[x.index] = n /\ x.index \in Named(n)
            /\ (x.type = "newaddr" <=> <<x.index, ip>> \in kaddr)
        BY <1>2, <2>7 DEF AddressMsgs, AddressTruth, LinkMsgs
      <3>2. m = n
        BY <2>4, <3>1 DEF Named
      <3>3. Held(n, ip) <=> <<x.index, ip>> \in kaddr
        BY <3>1 DEF Held, Named, Allocation
      <3> QED
        BY <1>2, <2>3, <2>7, <3>1, <3>2, <3>3
    <2> QED
      BY <2>5, <2>6, <2>7
  <1>3. CASE x.type \notin {"newlink", "dellink", "newaddr", "deladdr"}
    <2>1. x \notin AddressMsgs(n, ip)
      BY <1>3 DEF AddressMsgs, AddrMsgs, LinkMsgs
    <2>2. UNCHANGED addrs
      BY <1>3 DEF processMessage, handleFdb, handleNeighborL3, updateFdb, updateNeighbor,
                  Ignore, UnchangedBut
    <2> QED
      BY <2>1, <2>2
  <1> QED
    BY <1>1, <1>2, <1>3

\* A notification decides about address ip of n and is true, or nothing that
\* is said of it changes.
NoticedAddress(n, ip) ==
    \E x \in Msgs :
        /\ Notify(x)
        /\ \/ x \in AddressMsgs(n, ip)' /\ x \in AddressTruth(n, ip)'
           \/ /\ x \notin AddressMsgs(n, ip)' /\ Held(n, ip)' = Held(n, ip)
              /\ \A y \in Waiting :
                   /\ y \in AddressMsgs(n, ip)' <=> y \in AddressMsgs(n, ip)
                   /\ y \in AddressTruth(n, ip) => y \in AddressTruth(n, ip)'

\* Every change of the kernel is such a notification.
LEMMA AddressNoticed ==
    ASSUME Kernel, Wire, Allocation, Naming, KernelStep, NEW n \in Stable', NEW ip \in Ips
    PROVE  NoticedAddress(n, ip)
  <1> USE DEF NoticedAddress
  <1>w. Waiting \subseteq Msgs /\ \A x \in Msgs : x.index \in Indexes
    BY WaitingMsgs
  <1>1. ASSUME NEW i \in Indexes, NEW l \in KernelLink, KernelSetLink(i, l)
        PROVE  NoticedAddress(n, ip)
    <2> DEFINE x == LinkMsg("newlink", i, l)
    <2>1. /\ klink'[i] = l /\ l # None /\ l.name \in Names
          /\ \A j \in Indexes \ {i} : klink'[j] = klink[j] /\ born'[j] = born[j]
          /\ klink[i] = None => born[i] = None
          /\ klink[i] # None => born'[i] = born[i]
          /\ klink[i] # None /\ klink[i].name # l.name =>
                renamed' = renamed \cup {klink[i].name, l.name}
          /\ Stable' \subseteq Stable
          /\ \A j \in Indexes \ {i} : klink[j] # None => klink[j].name # l.name
      BY <1>1, SetLinkFacts
    <2>2. x \in Msgs /\ Notify(x) /\ x.type = "newlink" /\ UNCHANGED kaddr
      BY <1>1, MessageTypes DEF KernelSetLink, Msgs, LinkMsg
    <2> HIDE DEF x
    <2>3. x \notin AddressMsgs(n, ip)'
      BY <2>2 DEF AddressMsgs, AddrMsgs
    <2>4. \A y \in Waiting : y \in AddressMsgs(n, ip)' <=> y \in AddressMsgs(n, ip)
      BY <1>w, <2>1 DEF AddressMsgs, Naming
    <2>5. Named(n) \subseteq Named(n)'
          /\ Named(n)' \subseteq Named(n) \cup {j \in Indexes : klink[j] = None}
      BY <2>1 DEF Named, Stable
    <2>6. Held(n, ip)' = Held(n, ip)
      BY <2>2, <2>5 DEF Held, Allocation
    <2>7. \A y \in Waiting : y \in AddressTruth(n, ip) => y \in AddressTruth(n, ip)'
      BY <2>2, <2>5, <2>6 DEF AddressTruth
    <2> QED
      BY <2>2, <2>3, <2>4, <2>6, <2>7
  <1>2. ASSUME NEW i \in Indexes, KernelDelLink(i)
        PROVE  NoticedAddress(n, ip)
    <2> DEFINE x == LinkMsg("dellink", i, klink[i])
    <2>1. /\ klink[i] \in KernelLink /\ klink[i] # None /\ Notify(x)
          /\ klink'[i] = None /\ \A j \in Indexes \ {i} : klink'[j] = klink[j]
          /\ kaddr' = {a \in kaddr : a[1] # i} /\ UNCHANGED <<born, renamed>>
      BY <1>2 DEF KernelDelLink, Kernel
    <2>2. /\ x \in LinkMsgs /\ x \in Msgs
          /\ x.index = i /\ x.name = klink[i].name /\ x.type = "dellink"
      BY <2>1, MessageTypes DEF Msgs, LinkMsg
    <2> HIDE DEF x
    <2>3. CASE n = klink[i].name
      <3>1. Named(n)' = {}
        BY <2>1, <2>3 DEF Named, Allocation
      <3>2. x \in AddressMsgs(n, ip)' /\ x \in AddressTruth(n, ip)'
        BY <2>2, <2>3, <3>1 DEF AddressMsgs, AddressTruth, Held
      <3> QED
        BY <2>1, <2>2, <3>2
    <2>4. CASE n # klink[i].name
      <3>1. x \notin AddressMsgs(n, ip)'
        BY <2>2, <2>4 DEF AddressMsgs, AddrMsgs
      <3>2. Named(n)' = Named(n) /\ i \notin Named(n)
        BY <2>1, <2>4 DEF Named
      <3>3. \A j \in Named(n) : <<j, ip>> \in kaddr' <=> <<j, ip>> \in kaddr
        BY <2>1, <3>2
      <3>4. Held(n, ip)' = Held(n, ip)
        BY <3>2, <3>3 DEF Held
      <3>5. /\ \A y \in Waiting : y \in AddressTruth(n, ip) => y \in AddressTruth(n, ip)'
            /\ AddressMsgs(n, ip)' = AddressMsgs(n, ip)
        BY <2>1, <3>2, <3>3, <3>4 DEF AddressTruth, AddressMsgs
      <3> QED
        BY <2>1, <2>2, <3>1, <3>4, <3>5
    <2> QED
      BY <2>3, <2>4
  <1>3. ASSUME NEW a \in Indexes \X Ips, KernelAddr(a)
        PROVE  NoticedAddress(n, ip)
    <2> DEFINE x == IF a \in kaddr THEN AddrMsg("deladdr", a) ELSE AddrMsg("newaddr", a)
    <2>1. /\ klink[a[1]] # None /\ Notify(x) /\ UNCHANGED <<klink, born, renamed>>
          /\ kaddr' = IF a \in kaddr THEN kaddr \ {a} ELSE kaddr \cup {a}
      BY <1>3 DEF KernelAddr
    <2>2. /\ x \in AddrMsgs /\ x \in Msgs /\ x.index = a[1] /\ x.ip = a[2]
          /\ x.type = "newaddr" <=> a \notin kaddr
      BY MessageTypes DEF AddrMsg, Msgs
    <2> HIDE DEF x
    <2>3. a[1] \in Indexes /\ a = <<a[1], a[2]>> /\ n \in Stable /\ Named(n)' = Named(n)
          /\ AddressMsgs(n, ip)' = AddressMsgs(n, ip)
      BY <2>1 DEF Stable, Named, AddressMsgs
    <2>4. CASE x \in AddressMsgs(n, ip)
      <3>1. a = <<a[1], ip>> /\ born[a[1]] = n
        BY <2>2, <2>3, <2>4 DEF AddressMsgs, LinkMsgs, AddrMsgs
      <3>2. a[1] \in Named(n)
        BY <2>1, <2>3, <3>1 DEF Allocation, Named
      <3>3. x \in AddressTruth(n, ip)'
        BY <2>1, <2>2, <2>3, <3>1, <3>2 DEF AddressTruth
      <3> QED
        BY <2>1, <2>2, <2>3, <2>4, <3>3
    <2>5. CASE x \notin AddressMsgs(n, ip)
      <3>1. \A j \in Named(n) : <<j, ip>> # a
        BY <2>1, <2>2, <2>3, <2>5 DEF AddressMsgs, Named, Allocation
      <3>2. \A j \in Named(n) : <<j, ip>> \in kaddr' <=> <<j, ip>> \in kaddr
        BY <2>1, <3>1
      <3>3. Held(n, ip)' = Held(n, ip)
        BY <2>3, <3>2 DEF Held
      <3>4. \A y \in Waiting : y \in AddressTruth(n, ip) => y \in AddressTruth(n, ip)'
        BY <2>3, <3>2, <3>3 DEF AddressTruth
      <3> QED
        BY <2>1, <2>2, <2>3, <2>5, <3>3, <3>4
    <2> QED
      BY <2>4, <2>5
  <1>4. ASSUME NEW x \in NeighMsgs \cup FdbMsgs, Notify(x), UNCHANGED <<klink, born, kaddr>>
        PROVE  NoticedAddress(n, ip)
    <2>1. x \in Msgs /\ x \notin AddressMsgs(n, ip)'
      BY DEF Msgs, NeighMsgs, FdbMsgs, AddressMsgs, AddrMsgs, LinkMsgs
    <2>2. Held(n, ip)' = Held(n, ip) /\ AddressMsgs(n, ip)' = AddressMsgs(n, ip)
          /\ AddressTruth(n, ip)' = AddressTruth(n, ip)
      BY <1>4 DEF Held, Named, AddressMsgs, AddressTruth
    <2> QED
      BY <1>4, <2>1, <2>2
  <1>5. ASSUME NEW k \in NeighKeys, NEW nud \in NeighNuds, KernelSetNeigh(k, nud)
        PROVE  NoticedAddress(n, ip)
    BY <1>4, <1>5, MessageTypes DEF KernelSetNeigh
  <1>6. ASSUME NEW k \in NeighKeys, KernelDelNeigh(k)
        PROVE  NoticedAddress(n, ip)
    BY <1>4, <1>6, MessageTypes DEF KernelDelNeigh, Kernel
  <1>7. ASSUME NEW y \in FdbKeys, NEW e \in KernelFdb, KernelSetFdb(y, e)
        PROVE  NoticedAddress(n, ip)
    BY <1>4, <1>7, MessageTypes DEF KernelSetFdb, FdbKeys
  <1>8. ASSUME NEW y \in FdbKeys, KernelDelFdb(y)
        PROVE  NoticedAddress(n, ip)
    BY <1>4, <1>8, MessageTypes DEF KernelDelFdb, Kernel, FdbKeys
  <1> QED
    BY <1>1, <1>2, <1>3, <1>5, <1>6, <1>7, <1>8 DEF KernelStep

\* Every step keeps what is known of the addresses.
LEMMA AddressesStep ==
    ASSUME Kernel, Wire, Sound, Allocation, Naming, Addresses, [Next]_vars
    PROVE  Addresses'
  <1>w. /\ stage \in 0 .. 5 /\ socket \in Seq(Msgs) /\ None # {}
        /\ Sent(socket) \subseteq Waiting /\ Answered \subseteq Waiting
    BY NoneIsNoEntry DEF Wire, Waiting
  <1>1. CASE KernelStep
    <2>1. UNCHANGED <<stage, answer, addrs>> /\ Stable' \subseteq Stable
      <3>1. UNCHANGED <<stage, answer, addrs>>
        BY <1>1, KernelMoves DEF Notified, Notify, cached
      <3>2. Stable' \subseteq Stable
        BY <1>1, SetLinkFacts, NotifiedIndex DEF KernelDelLink, Stable
      <3> QED
        BY <3>1, <3>2
    <2>2. ASSUME NEW n \in Stable', NEW ip \in Ips
          PROVE  AddressKnown(n, ip)'
      <3>0. AddressKnown(n, ip)
        BY <2>1 DEF Addresses
      <3>1. PICK x \in Msgs :
              /\ Notify(x)
              /\ \/ x \in AddressMsgs(n, ip)' /\ x \in AddressTruth(n, ip)'
                 \/ /\ x \notin AddressMsgs(n, ip)' /\ Held(n, ip)' = Held(n, ip)
                    /\ \A y \in Waiting :
                         /\ y \in AddressMsgs(n, ip)' <=> y \in AddressMsgs(n, ip)
                         /\ y \in AddressTruth(n, ip) => y \in AddressTruth(n, ip)'
        BY <1>1, AddressNoticed DEF NoticedAddress
      <3>2. \/ Ends(socket', AddressMsgs(n, ip)', AddressTruth(n, ip)')
            \/ /\ Silent(socket', AddressMsgs(n, ip)')
               /\ \/ stage = 0
                  \/ /\ Silent(socket, AddressMsgs(n, ip)) /\ x \notin AddressMsgs(n, ip)'
                     /\ ~Ends(socket, AddressMsgs(n, ip), AddressTruth(n, ip))
        <4>1. \/ x \in AddressMsgs(n, ip)' /\ x \in AddressTruth(n, ip)'
              \/ /\ x \notin AddressMsgs(n, ip)'
                 /\ \A y \in Sent(socket) :
                      /\ y \in AddressMsgs(n, ip) <=> y \in AddressMsgs(n, ip)'
                      /\ (y \in AddressMsgs(n, ip) /\ y \in AddressTruth(n, ip)
                            => y \in AddressTruth(n, ip)')
          BY <1>w, <3>1
        <4>2. \/ Ends(socket, AddressMsgs(n, ip), AddressTruth(n, ip))
              \/ Silent(socket, AddressMsgs(n, ip))
          BY <3>0 DEF AddressKnown
        <4> QED
          BY <3>1, <4>1, <4>2, Noticed
      <3>3. CASE Ends(socket', AddressMsgs(n, ip)', AddressTruth(n, ip)')
        BY <3>3 DEF AddressKnown
      <3>4. CASE Silent(socket', AddressMsgs(n, ip)') /\ stage = 0
        <4>1. AddressLevel(n, ip)'
          BY <2>1, <3>4 DEF AddressLevel, Addresses
        <4> QED
          BY <3>4, <4>1 DEF AddressKnown
      <3>5. CASE /\ Silent(socket', AddressMsgs(n, ip)')
                 /\ x \notin AddressMsgs(n, ip)' /\ AddressLevel(n, ip)
        <4>1. /\ Held(n, ip)' = Held(n, ip)
              /\ \A y \in Answered :
                   /\ y \in AddressMsgs(n, ip)' <=> y \in AddressMsgs(n, ip)
                   /\ y \in AddressTruth(n, ip) => y \in AddressTruth(n, ip)'
          BY <1>w, <3>1, <3>5
        <4>2. AddressLevel(n, ip)'
          BY <2>1, <3>5, <4>1 DEF AddressLevel, Answered
        <4> QED
          BY <3>5, <4>2 DEF AddressKnown
      <3> QED
        BY <3>0, <3>2, <3>3, <3>4, <3>5 DEF AddressKnown
    <2> QED
      BY <2>1, <2>2 DEF Addresses
  <1>2. ASSUME UNCHANGED <<klink, renamed>>, stage' < 2 => addrs' = {},
               \A n \in Stable, ip \in Ips : AddressKnown(n, ip) => AddressKnown(n, ip)'
        PROVE  Addresses'
    BY <1>2 DEF Addresses, Stable
  <1>t. UNCHANGED <<klink, born, kaddr>> =>
          \A n, ip : /\ AddressTruth(n, ip)' = AddressTruth(n, ip)
                     /\ Held(n, ip)' = Held(n, ip)
                     /\ AddressMsgs(n, ip)' = AddressMsgs(n, ip)
    BY DEF AddressTruth, Held, Named, AddressMsgs
  <1>3. CASE Subscribe
    <2>1. /\ UNCHANGED <<klink, born, kaddr, renamed, addrs, socket, answer>>
          /\ stage = 0 /\ stage' = 1
      BY <1>3 DEF Subscribe, kernel, cached
    <2>2. ASSUME NEW n \in Stable, NEW ip \in Ips
          PROVE  AddressKnown(n, ip)'
      <3>1. addrs = {} /\ answer = None /\ socket' = <<>>
        BY <2>1 DEF Addresses, Wire
      <3> QED
        BY <2>1, <3>1, EmptySocket DEF AddressKnown, AddressLevel
    <2>3. addrs = {}
      BY <2>1 DEF Addresses
    <2> QED
      BY <1>2, <2>1, <2>2, <2>3
  <1>4. CASE DumpRequest
    <2>1. /\ stage \in 1 .. 4 /\ answer = None /\ answer' = Table(stage)
          /\ UNCHANGED <<stage, socket, klink, born, kaddr, renamed, addrs>>
      BY <1>4 DEF DumpRequest, cached, kernel
    <2>2. ASSUME NEW n \in Stable, NEW ip \in Ips, AddressLevel(n, ip)
          PROVE  AddressLevel(n, ip)'
      <3>2. CASE stage = 2
        <4>1. answer' = {AddrMsg("newaddr", a) : a \in kaddr}
          BY <2>1, <3>2 DEF Table
        <4>2. ASSUME NEW x \in answer', x \in AddressMsgs(n, ip)
              PROVE  x \in AddressTruth(n, ip)
          <5>1. PICK a \in kaddr : x = AddrMsg("newaddr", a)
            BY <4>1
          <5>2. /\ a[1] \in Indexes /\ a = <<a[1], a[2]>> /\ klink[a[1]] # None
                /\ x.index = a[1] /\ x.ip = a[2] /\ x.type = "newaddr"
            BY <5>1 DEF AddrMsg, Kernel, Allocation
          <5>3. x \in AddrMsgs /\ a[2] = ip /\ born[a[1]] = n
            BY <4>2, <5>2 DEF AddressMsgs, LinkMsgs
          <5>4. a[1] \in Named(n)
            BY <5>2, <5>3 DEF Named, Allocation
          <5> QED
            BY <5>1, <5>2, <5>3, <5>4 DEF AddressTruth
        <4>3. ASSUME Held(n, ip)
              PROVE  \E x \in answer' : x \in AddressMsgs(n, ip)
          <5>1. PICK i \in Named(n) : <<i, ip>> \in kaddr
            BY <4>3 DEF Held
          <5>2. i \in Indexes /\ born[i] = n
            BY <5>1 DEF Named, Allocation
          <5> DEFINE x == AddrMsg("newaddr", <<i, ip>>)
          <5>3. x \in AddrMsgs /\ x.ip = ip /\ x.index = i
            BY <5>2, MessageTypes DEF AddrMsg
          <5>4. x \in answer'
            BY <4>1, <5>1
          <5> HIDE DEF x
          <5> QED
            BY <5>2, <5>3, <5>4 DEF AddressMsgs
        <4> QED
          BY <1>t, <2>1, <2>2, <3>2, <4>2, <4>3 DEF AddressLevel
      <3>3. CASE stage # 2
        BY <1>t, <2>1, <2>2, <3>3 DEF AddressLevel
      <3> QED
        BY <3>2, <3>3
    <2> QED
      BY <1>2, <1>t, <2>1, <2>2 DEF AddressKnown, Addresses
  <1>5. CASE DumpMessage
    <2>1. PICK x \in answer : processMessage(x) /\ answer' = answer \ {x}
      BY <1>5 DEF DumpMessage
    <2>2. /\ answer # None /\ stage \in 1 .. 4 /\ x \in Kind(stage) /\ x \in Msgs
          /\ UNCHANGED <<socket, stage, klink, born, kaddr, renamed>> /\ x \in Waiting
      BY <1>5, <2>1, TableKind DEF DumpMessage, Wire, kernel, Waiting, Answered
    <2>3. ASSUME NEW n \in Stable, NEW ip \in Ips, AddressLevel(n, ip)
          PROVE  AddressLevel(n, ip)'
      <3>1. CASE x \in AddressMsgs(n, ip)
        <4>1. stage = 2
          BY <2>2, <3>1 DEF Kind, AddressMsgs, LinkMsgs, AddrMsgs, NeighMsgs, FdbMsgs
        <4>2. x \in AddressTruth(n, ip)
          BY <2>1, <2>2, <2>3, <3>1, <4>1 DEF AddressLevel
        <4>3. <<n, ip>> \in addrs' <=> Held(n, ip)
          BY <2>1, <2>2, <3>1, <4>2, ProcessAddress
        <4> QED
          BY <1>t, <2>1, <2>2, <2>3, <4>1, <4>3 DEF AddressLevel
      <3>2. CASE x \notin AddressMsgs(n, ip)
        <4>1. <<n, ip>> \in addrs' <=> <<n, ip>> \in addrs
          BY <2>1, <2>2, <3>2, ProcessAddress
        <4> QED
          BY <1>t, <2>1, <2>2, <2>3, <3>2, <4>1 DEF AddressLevel
      <3> QED
        BY <3>1, <3>2
    <2>4. stage' < 2 => addrs' = {}
      <3>1. CASE stage = 1
        <4>1. x.type = "newlink"
          BY <2>2, <3>1 DEF Kind
        <4>2. addrs' = addrs
          <5>1. PICK l : updateLink(x.name, TRUE, l)
            BY <2>1, <4>1 DEF processMessage, handleLink
          <5> QED
            BY <5>1 DEF updateLink, UnchangedBut
        <4> QED
          BY <3>1, <4>2 DEF Addresses
      <3> QED
        BY <2>2, <3>1
    <2> QED
      BY <1>2, <1>t, <2>2, <2>3, <2>4 DEF AddressKnown
  <1>6. CASE DumpDone
    <2>1. /\ answer = {} /\ answer # None /\ answer' = None /\ stage \in 1 .. 4
          /\ stage' = stage + 1 /\ UNCHANGED <<socket, klink, born, kaddr, renamed, addrs>>
      BY <1>w, <1>6 DEF DumpDone, cached, kernel, Wire
    <2>2. ASSUME NEW n \in Stable, NEW ip \in Ips, AddressLevel(n, ip)
          PROVE  AddressLevel(n, ip)'
      BY <1>t, <2>1, <2>2 DEF AddressLevel
    <2>3. stage' < 2 => addrs' = {}
      BY <2>1
    <2> QED
      BY <1>2, <1>t, <2>1, <2>2, <2>3 DEF AddressKnown
  <1>7. CASE LiveMessage
    <2> DEFINE x == Head(socket)
    <2>1. /\ stage = 5 /\ socket # <<>> /\ processMessage(x) /\ socket' = Tail(socket)
          /\ UNCHANGED <<stage, answer, klink, born, kaddr, renamed>> /\ answer = None
      BY <1>7 DEF LiveMessage, kernel, Wire
    <2>2. x \in Msgs /\ x \in Waiting
      BY <1>w, <2>1, TailEnds, TailSent
    <2> HIDE DEF x
    <2>3. ASSUME NEW n \in Stable, NEW ip \in Ips, AddressKnown(n, ip)
          PROVE  AddressKnown(n, ip)'
      <3>1. CASE Silent(socket, AddressMsgs(n, ip)) /\ AddressLevel(n, ip)
        <4>1. Silent(socket', AddressMsgs(n, ip)) /\ x \notin AddressMsgs(n, ip)
          BY <1>w, <2>1, <3>1, TailEnds DEF x
        <4>2. <<n, ip>> \in addrs' <=> <<n, ip>> \in addrs
          BY <2>1, <2>2, <4>1, ProcessAddress
        <4>3. AddressLevel(n, ip)'
          BY <1>t, <2>1, <3>1, <4>2 DEF AddressLevel
        <4> QED
          BY <1>t, <2>1, <4>1, <4>3 DEF AddressKnown
      <3>2. CASE Ends(socket', AddressMsgs(n, ip), AddressTruth(n, ip))
        BY <1>t, <2>1, <3>2 DEF AddressKnown
      <3>3. CASE /\ Silent(socket', AddressMsgs(n, ip))
                 /\ x \in AddressMsgs(n, ip) /\ x \in AddressTruth(n, ip)
        <4>1. <<n, ip>> \in addrs' <=> Held(n, ip)
          BY <2>1, <2>2, <3>3, ProcessAddress
        <4>2. AddressLevel(n, ip)'
          BY <1>t, <2>1, <4>1 DEF AddressLevel
        <4> QED
          BY <1>t, <2>1, <3>3, <4>2 DEF AddressKnown
      <3> QED
        BY <1>w, <2>1, <2>3, <3>1, <3>2, <3>3, TailEnds DEF x, AddressKnown
    <2> QED
      BY <1>2, <2>1, <2>3
  <1>8. CASE UNCHANGED vars
    <2>1. UNCHANGED <<klink, born, kaddr, renamed, addrs, socket, answer, stage>>
      BY <1>8 DEF vars, kernel, cached
    <2> QED
      BY <1>2, <1>t, <2>1 DEF AddressKnown, AddressLevel, Addresses
  <1> QED
    BY <1>1, <1>3, <1>4, <1>5, <1>6, <1>7, <1>8 DEF Next

-----------------------------------------------------------------------------
(* The neighbours *)

\* The messages about the entry of n, m and ip, and those that agree with the
\* kernel.
NeighborMsgs(n, m, ip) == {x \in NeighMsgs : x.mac = m /\ x.ip = ip /\ born[x.index] = n}
EntryIs(n, m, ip, v) ==
    /\ Named(n) = {} => v = None
    /\ \A i \in Named(n) : kneigh[<<i, m, ip>>] = v
NeighborTruth(n, m, ip) ==
    {x \in NeighMsgs : IF x.type = "newneigh"
                       THEN x.index \in Named(n) /\ kneigh[<<x.index, m, ip>>] = x.nud
                       ELSE EntryIs(n, m, ip, None)}

NeighborLevel(n, m, ip) ==
    LET v == neighbors[<<n, m, ip>>] IN
    /\ v # None => EntryIs(n, m, ip, v)
    /\ stage = 3 /\ answer # None =>
         /\ \A x \in answer : x \in NeighborMsgs(n, m, ip) => x \in NeighborTruth(n, m, ip)
         /\ EntryIs(n, m, ip, v) \/ \E x \in answer : x \in NeighborMsgs(n, m, ip)
    /\ stage > 3 => EntryIs(n, m, ip, v)

NeighborKnown(n, m, ip) ==
    \/ <<n, m, ip>> \in failed
    \/ Ends(socket, NeighborMsgs(n, m, ip), NeighborTruth(n, m, ip))
    \/ Silent(socket, NeighborMsgs(n, m, ip)) /\ NeighborLevel(n, m, ip)

Neighborhood ==
    /\ stage < 3 => neighbors = NoNeighbors
    /\ \A n \in Stable, m \in Macs, ip \in Ips : IsWatched(n) => NeighborKnown(n, m, ip)

\* Dead links nobody will ever name again: a message about one of their
\* neighbours is filed under the number.
Nameless == {i \in Indexes : klink[i] = None /\ ifcache[i] = None /\ ~First(socket, i)}
NamelessMsgs == {x \in NeighMsgs : x.index \in Nameless}

\* When such a message has the last word, nothing is lost with it.
HarmlessEntry(n, m, ip) ==
    Ends(socket, NeighborMsgs(n, m, ip), NamelessMsgs) =>
      /\ neighbors[<<n, m, ip>>] = None
      /\ \A i \in Indexes : born[i] = n => kneigh[<<i, m, ip>>] = None
      /\ \A x \in Answered : x \notin NeighborMsgs(n, m, ip)
      /\ \A x, y \in Sent(socket) :
           x \in NeighborMsgs(n, m, ip) /\ y \in NeighborMsgs(n, m, ip) => x.index = y.index

Harmless == \A n \in Stable, m \in Macs, ip \in Ips : HarmlessEntry(n, m, ip)

\* The last word, backwards.
LEMMA EndsBack ==
    ASSUME NEW s \in Seq(Msgs), NEW S, NEW G
    PROVE  /\ \A m \in Msgs : /\ m \in S /\ Ends(Append(s, m), S, G) => m \in G
                              /\ m \notin S /\ Ends(Append(s, m), S, G) => Ends(s, S, G)
           /\ s # <<>> /\ Ends(Tail(s), S, G) => Ends(s, S, G)
           /\ s # <<>> /\ Silent(Tail(s), S) /\ Head(s) \in S /\ Head(s) \in G => Ends(s, S, G)
  <1>1. ASSUME NEW m \in Msgs, Ends(Append(s, m), S, G)
        PROVE  (m \in S => m \in G) /\ (m \notin S => Ends(s, S, G))
    <2> DEFINE t == Append(s, m)
    <2>1. Len(t) = Len(s) + 1 /\ Len(s) \in Nat /\ t[Len(s) + 1] = m
          /\ \A j \in 1 .. Len(s) : t[j] = s[j]
      OBVIOUS
    <2>2. PICK j \in 1 .. Len(t) : /\ t[j] \in S /\ t[j] \in G
                                   /\ \A k \in j + 1 .. Len(t) : t[k] \notin S
      BY <1>1 DEF Ends
    <2> HIDE DEF t
    <2>3. CASE j = Len(s) + 1
      BY <2>1, <2>2, <2>3
    <2>4. CASE j # Len(s) + 1
      <3>1. j \in 1 .. Len(s) /\ Len(s) + 1 \in j + 1 .. Len(t)
        BY <2>1, <2>2, <2>4
      <3>2. m \notin S
        BY <2>1, <2>2, <3>1
      <3>3. s[j] \in S /\ s[j] \in G
        BY <2>1, <2>2, <3>1
      <3>4. ASSUME NEW k \in j + 1 .. Len(s)
            PROVE  s[k] \notin S
        <4>1. k \in 1 .. Len(s) /\ k \in j + 1 .. Len(t)
          BY <2>1, <3>1
        <4> QED
          BY <2>1, <2>2, <4>1
      <3> QED
        BY <3>1, <3>2, <3>3, <3>4 DEF Ends
    <2> QED
      BY <2>3, <2>4
  <1>2. ASSUME s # <<>>
        PROVE  /\ Ends(Tail(s), S, G) => Ends(s, S, G)
               /\ Silent(Tail(s), S) /\ Head(s) \in S /\ Head(s) \in G => Ends(s, S, G)
    <2> DEFINE t == Tail(s)
    <2>1. /\ Len(s) \in Nat /\ Len(s) >= 1 /\ Len(t) = Len(s) - 1 /\ Head(s) = s[1]
          /\ \A j \in 1 .. Len(t) : t[j] = s[j + 1]
      BY <1>2
    <2> HIDE DEF t
    <2>2. ASSUME Ends(t, S, G)
          PROVE  Ends(s, S, G)
      <3>1. PICK j \in 1 .. Len(t) : /\ t[j] \in S /\ t[j] \in G
                                     /\ \A k \in j + 1 .. Len(t) : t[k] \notin S
        BY <2>2 DEF Ends
      <3>2. j + 1 \in 1 .. Len(s) /\ s[j + 1] = t[j]
        BY <2>1, <3>1
      <3>3. ASSUME NEW k \in (j + 1) + 1 .. Len(s)
            PROVE  s[k] \notin S
        <4>1. k - 1 \in j + 1 .. Len(t) /\ k - 1 \in 1 .. Len(t) /\ (k - 1) + 1 = k
          BY <2>1, <3>1
        <4> QED
          BY <2>1, <3>1, <4>1
      <3> QED
        BY <3>1, <3>2, <3>3 DEF Ends
    <2>3. ASSUME Silent(t, S), Head(s) \in S, Head(s) \in G
          PROVE  Ends(s, S, G)
      <3>1. ASSUME NEW k \in 1 + 1 .. Len(s)
            PROVE  s[k] \notin S
        <4>1. k - 1 \in 1 .. Len(t) /\ (k - 1) + 1 = k
          BY <2>1
        <4> QED
          BY <2>1, <2>3, <4>1 DEF Silent
      <3>2. 1 \in 1 .. Len(s) /\ s[1] \in S /\ s[1] \in G
        BY <2>1, <2>3
      <3> QED
        BY <3>1, <3>2 DEF Ends
    <2> QED
      BY <2>2, <2>3 DEF t
  <1> QED
    BY <1>1, <1>2

\* What a message does to the entry of n, m and ip.
LEMMA ProcessNeighbor ==
    ASSUME Kernel, Sound, Allocation, Naming, NEW x \in Msgs, processMessage(x),
           NEW n \in Stable, NEW m \in Macs, NEW ip \in Ips
    PROVE  LET k == <<n, m, ip>>
               named == ifcache[x.index] # None \/ klink[x.index] # None
           IN  /\ x \notin NeighborMsgs(n, m, ip) \/ ~named => neighbors'[k] = neighbors[k]
               /\ x \in NeighborMsgs(n, m, ip) /\ named /\ IsWatched(n) =>
                    neighbors'[k] = IF x.type = "newneigh" THEN x.nud ELSE None
  <1> DEFINE k == <<n, m, ip>>
             named == ifcache[x.index] # None \/ klink[x.index] # None
  <1>0. Cache /\ n \in Names /\ k \in CacheKeys
    BY DEF Sound, Stable, CacheKeys, Ifnames
  <1>1. CASE x.type \in {"newneigh", "delneigh"}
    <2> DEFINE r == Resolve(ifcache, x.index)
    <2>1. x \in NeighMsgs /\ x.index \in Indexes /\ x.ip \in Ips
      BY <1>1, MsgKinds DEF NeighMsgs
    <2>2. /\ r = n => born[x.index] = n
          /\ born[x.index] = n /\ named => r = n
          /\ ~named => r # n
      BY <1>0, <2>1, ResolveNames
    <2>3. IF x.mac # None /\ IsWatched(r)
          THEN updateNeighbor(r, x.mac, x.ip, x.nud, x.type = "newneigh")
          ELSE Ignore
      BY <1>1 DEF processMessage, handleNeighborL3
    <2>4. r \in Ifnames
      BY <1>0, <2>1, ResolveType DEF Cache
    <2> HIDE DEF r
    <2>5. CASE x.mac # None /\ IsWatched(r)
      <3>1. neighbors' = [neighbors EXCEPT ![<<r, x.mac, x.ip>>] =
                            IF x.type = "newneigh" THEN x.nud ELSE None]
        BY <2>3, <2>5 DEF updateNeighbor
      <3>2. x.mac \in Macs
        BY <2>1, <2>5 DEF NeighMsgs
      <3>3. <<r, x.mac, x.ip>> \in CacheKeys
        BY <2>1, <2>4, <3>2 DEF CacheKeys
      <3>4. CASE x \notin NeighborMsgs(n, m, ip) \/ ~named
        <4>1. <<r, x.mac, x.ip>> # k
          BY <2>1, <2>2, <3>4 DEF NeighborMsgs
        <4> HIDE DEF k
        <4>2. neighbors'[k] = neighbors[k]
          BY <1>0, <3>1, <4>1 DEF Cache
        <4> QED
          BY <3>4, <4>2 DEF k
      <3>5. CASE x \in NeighborMsgs(n, m, ip) /\ named
        <4>1. <<r, x.mac, x.ip>> = k
          BY <2>2, <3>5 DEF NeighborMsgs
        <4>2. neighbors'[k] = IF x.type = "newneigh" THEN x.nud ELSE None
          BY <1>0, <3>1, <4>1 DEF Cache
        <4> QED
          BY <3>5, <4>2
      <3> QED
        BY <3>4, <3>5
    <2>6. CASE ~(x.mac # None /\ IsWatched(r))
      <3>1. UNCHANGED neighbors
        BY <2>3, <2>6 DEF Ignore
      <3>2. ~(x \in NeighborMsgs(n, m, ip) /\ named /\ IsWatched(n))
        BY <2>2, <2>6, StateValues DEF NeighborMsgs
      <3> QED
        BY <3>1, <3>2
    <2> QED
      BY <2>5, <2>6
  <1>2. CASE x.type \notin {"newneigh", "delneigh"}
    <2>1. x \notin NeighborMsgs(n, m, ip)
      BY <1>2 DEF NeighborMsgs, NeighMsgs
    <2>2. UNCHANGED neighbors
      BY <1>2 DEF processMessage, handleFdb, handleLink, handleAddr, updateFdb, updateLink,
                  updateAddress, Ignore, UnchangedBut
    <2> QED
      BY <2>1, <2>2
  <1> QED
    BY <1>1, <1>2

\* A notification about another entry that makes no link nameless.
LEMMA HarmlessNotified ==
    ASSUME Wire, NEW n, NEW m \in Macs, NEW ip \in Ips, NEW x \in Msgs, Notify(x),
           HarmlessEntry(n, m, ip),
           x \notin NeighborMsgs(n, m, ip)', Nameless' \subseteq Nameless,
           \A y \in Waiting : y \in NeighborMsgs(n, m, ip)' <=> y \in NeighborMsgs(n, m, ip),
           \/ ~Ends(socket, NeighborMsgs(n, m, ip), NamelessMsgs)
           \/ \A i \in Indexes : born'[i] = n => kneigh'[<<i, m, ip>>] = None
    PROVE  HarmlessEntry(n, m, ip)'
  <1> DEFINE S == NeighborMsgs(n, m, ip)
             T == NeighborMsgs(n, m, ip)'
  <1>1. /\ socket \in Seq(Msgs) /\ (stage = 0 => socket = <<>>)
        /\ socket' = IF stage = 0 THEN socket ELSE Append(socket, x)
        /\ UNCHANGED <<neighbors, answer>>
    BY DEF Wire, Notify, cached
  <1>2. Sent(socket') \subseteq Sent(socket) \cup {x} /\ Sent(socket) \subseteq Waiting
        /\ Answered \subseteq Waiting
    BY NotifyWaiting DEF Waiting
  <1> SUFFICES ASSUME Ends(socket', T, NamelessMsgs')
               PROVE  /\ neighbors'[<<n, m, ip>>] = None
                      /\ \A i \in Indexes : born'[i] = n => kneigh'[<<i, m, ip>>] = None
                      /\ \A y \in Answered' : y \notin T
                      /\ \A y, z \in Sent(socket') : y \in T /\ z \in T => y.index = z.index
    BY DEF HarmlessEntry
  <1>3. Ends(socket, T, NamelessMsgs')
    <2>1. CASE stage = 0
      BY <1>1, <2>1
    <2>2. CASE stage # 0
      BY <1>1, <2>2, EndsBack
    <2> QED
      BY <2>1, <2>2
  <1>4. Ends(socket, S, NamelessMsgs)
    <2>1. \A y \in Sent(socket) :
            (y \in T <=> y \in S) /\ (y \in NamelessMsgs' => y \in NamelessMsgs)
      BY <1>2 DEF NamelessMsgs
    <2> HIDE DEF S, T
    <2> QED
      BY <1>3, <2>1, EndsCongruent
  <1>5. /\ neighbors[<<n, m, ip>>] = None
        /\ \A y \in Answered : y \notin S
        /\ \A y, z \in Sent(socket) : y \in S /\ z \in S => y.index = z.index
    BY <1>4 DEF HarmlessEntry
  <1>6. Answered' = Answered
    BY <1>1 DEF Answered
  <1>7. \A y \in Sent(socket') : y \in T => y \in Sent(socket) /\ y \in S
    BY <1>2
  <1> QED
    BY <1>1, <1>2, <1>4, <1>5, <1>6, <1>7

\* A change of the kernel loses nothing: a link that goes unnamed goes before
\* its table was asked for, and took its entries with it.
LEMMA HarmlessKernel ==
    ASSUME Kernel, Wire, Allocation, Naming, Announced, Succession, KernelStep,
           stage < 3 => neighbors = NoNeighbors,
           NEW n \in Stable', NEW m \in Macs, NEW ip \in Ips, n \in Stable,
           HarmlessEntry(n, m, ip)
    PROVE  HarmlessEntry(n, m, ip)'
  <1>w. /\ Waiting \subseteq Msgs /\ \A x \in Msgs : x.index \in Indexes
        /\ Sent(socket) \subseteq Waiting /\ Answered \subseteq Waiting
        /\ n \in Names /\ None \notin Macs
    BY WaitingMsgs, StateValues DEF Waiting, Stable
  <1>a. ASSUME NEW x \in Msgs, Notify(x), \A j \in Indexes : klink'[j] = None => klink[j] = None
        PROVE  Nameless' \subseteq Nameless
    <2>1. UNCHANGED ifcache
      BY <1>a, NotifyWaiting
    <2>2. \A j : First(socket, j) => First(socket', j)
      BY <1>a, FirstKept
    <2> QED
      BY <1>a, <2>1, <2>2 DEF Nameless
  <1>b. ASSUME Ends(socket, NeighborMsgs(n, m, ip), NamelessMsgs)
        PROVE  \A i \in Indexes : born[i] = n => kneigh[<<i, m, ip>>] = None
    BY <1>b DEF HarmlessEntry
  <1>1. ASSUME NEW i \in Indexes, NEW l \in KernelLink, KernelSetLink(i, l)
        PROVE  HarmlessEntry(n, m, ip)'
    <2> DEFINE x == LinkMsg("newlink", i, l)
    <2>1. /\ klink'[i] = l /\ l # None
          /\ \A j \in Indexes \ {i} : klink'[j] = klink[j] /\ born'[j] = born[j]
          /\ klink[i] = None => born[i] = None
          /\ klink[i] # None => born'[i] = born[i]
      BY <1>1, SetLinkFacts
    <2>2. x \in Msgs /\ x \in LinkMsgs /\ Notify(x) /\ UNCHANGED kneigh
      BY <1>1, MessageTypes DEF KernelSetLink, Msgs
    <2> HIDE DEF x
    <2>3. x \notin NeighborMsgs(n, m, ip)'
      BY <2>2 DEF NeighborMsgs, NeighMsgs, LinkMsgs
    <2>4. \A y \in Waiting : y \in NeighborMsgs(n, m, ip)' <=> y \in NeighborMsgs(n, m, ip)
      BY <1>w, <2>1 DEF NeighborMsgs, Naming
    <2>5. Nameless' \subseteq Nameless
      BY <1>a, <2>1, <2>2
    <2>6. klink[i] = None => kneigh[<<i, m, ip>>] = None
      <3>1. <<i, m, ip>> \in NeighKeys /\ <<i, m, ip>>[1] = i
        BY DEF NeighKeys
      <3> QED
        BY <3>1 DEF Allocation
    <2>7. \/ ~Ends(socket, NeighborMsgs(n, m, ip), NamelessMsgs)
          \/ \A j \in Indexes : born'[j] = n => kneigh'[<<j, m, ip>>] = None
      BY <1>b, <2>1, <2>2, <2>6
    <2> QED
      BY <2>2, <2>3, <2>4, <2>5, <2>7, HarmlessNotified
  <1>2. ASSUME NEW i \in Indexes, KernelDelLink(i)
        PROVE  HarmlessEntry(n, m, ip)'
    <2> DEFINE x == LinkMsg("dellink", i, klink[i])
    <2>1. /\ klink[i] \in KernelLink /\ klink[i] # None /\ Notify(x)
          /\ klink'[i] = None /\ \A j \in Indexes \ {i} : klink'[j] = klink[j]
          /\ \A k \in NeighKeys : k[1] = i => kneigh[k] = None
          /\ UNCHANGED <<born, kneigh>>
      BY <1>2 DEF KernelDelLink, Kernel
    <2>2. x \in LinkMsgs /\ x \in Msgs
      BY <2>1, MessageTypes DEF Msgs
    <2> HIDE DEF x
    <2>3. x \notin NeighborMsgs(n, m, ip)' /\ NeighborMsgs(n, m, ip)' = NeighborMsgs(n, m, ip)
      BY <2>1, <2>2 DEF NeighborMsgs, NeighMsgs, LinkMsgs
    <2>4. CASE Nameless' \subseteq Nameless
      BY <1>b, <2>1, <2>2, <2>3, <2>4, HarmlessNotified
    <2>5. ASSUME ~(Nameless' \subseteq Nameless),
                 Ends(socket', NeighborMsgs(n, m, ip), NamelessMsgs')
          PROVE  /\ neighbors'[<<n, m, ip>>] = None
                 /\ \A j \in Indexes : born[j] = n => kneigh[<<j, m, ip>>] = None
                 /\ \A y \in Answered' : y \notin NeighborMsgs(n, m, ip)
                 /\ \A y, z \in Sent(socket') :
                      /\ y \in NeighborMsgs(n, m, ip) /\ z \in NeighborMsgs(n, m, ip)
                      => y.index = z.index
      <3>1. UNCHANGED <<ifcache, answer, stage, neighbors>>
            /\ Sent(socket') \subseteq Sent(socket) \cup {x}
        BY <2>1, <2>2, NotifyWaiting DEF Notify, cached
      <3>2. \A j : First(socket, j) => First(socket', j)
        BY <2>1, <2>2, FirstKept
      <3>3. Nameless' \subseteq Nameless \cup {i} /\ ifcache[i] = None /\ ~First(socket, i)
        BY <2>1, <2>5, <3>1, <3>2 DEF Nameless
      <3>4. PICK z \in Sent(socket') : z \in NeighborMsgs(n, m, ip) /\ z \in NamelessMsgs'
        BY <2>5, EndsOrSilent
      <3>5. z \in Sent(socket)
        BY <2>3, <3>1, <3>4
      <3>6. CASE z.index # i /\ stage = 0
        BY <2>1, <2>2, <3>4, <3>6, FirstKept
      <3>7. stage # 0
        BY <2>1, <2>2, <3>4, FirstKept
      <3>8. stage = 1 /\ neighbors = NoNeighbors
        BY <2>1, <3>3, <3>7 DEF Announced
      <3>9. neighbors'[<<n, m, ip>>] = None
        <4>1. <<n, m, ip>> \in CacheKeys
          BY <1>w DEF CacheKeys, Ifnames
        <4> QED
          BY <3>1, <3>8, <4>1 DEF NoNeighbors
      <3>10. \A y \in Answered' : y \notin NeighborMsgs(n, m, ip)
        <4>1. \A y \in Answered : y \in LinkMsgs
          BY <3>8 DEF Answered, Wire, Kind
        <4> QED
          BY <3>1, <4>1 DEF Answered, NeighborMsgs, NeighMsgs, LinkMsgs
      <3>11. Ends(socket, NeighborMsgs(n, m, ip), NamelessMsgs')
        <4>1. socket' = Append(socket, x) /\ socket \in Seq(Msgs)
          BY <2>1, <3>7 DEF Notify, Wire
        <4> QED
          BY <2>2, <2>3, <2>5, <4>1, EndsBack
      <3>12. CASE Ends(socket, NeighborMsgs(n, m, ip), NamelessMsgs)
        BY <2>3, <3>1, <3>9, <3>10, <3>12 DEF HarmlessEntry
      <3>13. CASE ~Ends(socket, NeighborMsgs(n, m, ip), NamelessMsgs)
        <4>1. PICK y \in Sent(socket) :
                /\ y \in NeighborMsgs(n, m, ip) /\ y \in NamelessMsgs' /\ y \notin NamelessMsgs
          <5>1. ASSUME \A y \in Sent(socket) :
                         y \in NeighborMsgs(n, m, ip) /\ y \in NamelessMsgs' => y \in NamelessMsgs
                PROVE  FALSE
            BY <3>11, <3>13, <5>1, EndsCongruent
          <5> QED
            BY <5>1
        <4>2. y.index = i
          BY <3>3, <4>1 DEF NamelessMsgs
        <4>3. born[i] = n
          BY <4>1, <4>2 DEF NeighborMsgs
        <4>4. klink[i].name = n /\ i \in Named(n)
          BY <2>1, <4>3 DEF Allocation, Named
        <4>5. \A u \in Sent(socket) : u \in NeighborMsgs(n, m, ip) => u.index = i
          BY <3>3, <4>4 DEF Succession, NeighborMsgs
        <4>6. ASSUME NEW j \in Indexes, born[j] = n
              PROVE  kneigh[<<j, m, ip>>] = None
          <5>1. <<j, m, ip>> \in NeighKeys /\ <<j, m, ip>>[1] = j
            BY DEF NeighKeys
          <5>2. CASE j = i
            BY <2>1, <5>1, <5>2
          <5>3. CASE j # i
            BY <2>1, <4>4, <4>6, <5>1, <5>3 DEF Allocation
          <5> QED
            BY <5>2, <5>3
        <4> QED
          BY <2>3, <3>1, <3>9, <3>10, <4>5, <4>6
      <3> QED
        BY <3>12, <3>13
    <2> QED
      BY <2>1, <2>3, <2>4, <2>5 DEF HarmlessEntry
  <1>3. ASSUME NEW x \in AddrMsgs \cup FdbMsgs, Notify(x), UNCHANGED <<klink, born, kneigh>>
        PROVE  HarmlessEntry(n, m, ip)'
    <2>1. x \in Msgs /\ x \notin NeighborMsgs(n, m, ip)'
          /\ NeighborMsgs(n, m, ip)' = NeighborMsgs(n, m, ip)
      BY <1>3 DEF Msgs, NeighMsgs, FdbMsgs, AddrMsgs, NeighborMsgs
    <2>2. Nameless' \subseteq Nameless
      BY <1>3, <1>a, <2>1
    <2> QED
      BY <1>3, <1>b, <2>1, <2>2, HarmlessNotified
  <1>4. ASSUME NEW k \in NeighKeys, NEW x \in NeighMsgs, Notify(x), UNCHANGED <<klink, born>>,
               klink[k[1]] # None, x.index = k[1], x.ip = k[3],
               NEW v, kneigh'[k] = v, \A q \in NeighKeys \ {k} : kneigh'[q] \in {kneigh[q], None},
               v = None \/ x.mac = k[2] \/ kneigh[k] # None
        PROVE  HarmlessEntry(n, m, ip)'
    <2>1. x \in Msgs /\ NeighborMsgs(n, m, ip)' = NeighborMsgs(n, m, ip)
          /\ k = <<k[1], k[2], k[3]>> /\ k[1] \in Indexes
      BY <1>4 DEF Msgs, NeighborMsgs, NeighKeys
    <2>2. Nameless' \subseteq Nameless
      BY <1>4, <1>a, <2>1
    <2>3. CASE x \in NeighborMsgs(n, m, ip)
      <3>1. x \notin NamelessMsgs'
        BY <1>4, <2>1 DEF NamelessMsgs, Nameless
      <3>2. ~Ends(socket', NeighborMsgs(n, m, ip), NamelessMsgs')
        <4>1. /\ socket \in Seq(Msgs) /\ (stage = 0 => socket = <<>>)
              /\ socket' = IF stage = 0 THEN socket ELSE Append(socket, x)
          BY <1>4 DEF Wire, Notify
        <4>2. CASE stage = 0
          BY <4>1, <4>2, EmptySocket
        <4>3. CASE stage # 0
          BY <2>1, <2>3, <3>1, <4>1, <4>3, EndsBack
        <4> QED
          BY <4>2, <4>3
      <3> QED
        BY <2>1, <3>2 DEF HarmlessEntry
    <2>4. CASE x \notin NeighborMsgs(n, m, ip)
      <3>1. ASSUME Ends(socket, NeighborMsgs(n, m, ip), NamelessMsgs),
                   NEW j \in Indexes, born[j] = n
            PROVE  kneigh'[<<j, m, ip>>] = None
        <4>1. kneigh[<<j, m, ip>>] = None /\ <<j, m, ip>> \in NeighKeys
          BY <1>b, <3>1 DEF NeighKeys
        <4>2. CASE k # <<j, m, ip>>
          BY <1>4, <4>1, <4>2
        <4>3. CASE k = <<j, m, ip>>
          <5>1. x.mac # m
            BY <1>4, <2>1, <2>4, <3>1, <4>3 DEF NeighborMsgs
          <5>2. v = None
            BY <1>4, <4>1, <4>3, <5>1
          <5> QED
            BY <1>4, <4>1, <4>3, <5>2
        <4> QED
          BY <4>2, <4>3
      <3> QED
        BY <1>4, <2>1, <2>2, <2>4, <3>1, HarmlessNotified
    <2> QED
      BY <2>3, <2>4
  <1>5. ASSUME NEW a \in Indexes \X Ips, KernelAddr(a)
        PROVE  HarmlessEntry(n, m, ip)'
    BY <1>3, <1>5, MessageTypes DEF KernelAddr
  <1>6. ASSUME NEW k \in NeighKeys, NEW nud \in NeighNuds, KernelSetNeigh(k, nud)
        PROVE  HarmlessEntry(n, m, ip)'
    <2> DEFINE x == NeighMsg("newneigh", k, nud)
    <2>1. /\ klink[k[1]] # None /\ Notify(x) /\ kneigh'[k] = nud
          /\ \A q \in NeighKeys \ {k} : kneigh'[q] \in {kneigh[q], None}
          /\ UNCHANGED <<klink, born>> /\ (nud = "failed" => kneigh[k] # None)
      BY <1>6, SetNeighFacts
    <2>2. x \in NeighMsgs /\ x.index = k[1] /\ x.ip = k[3] /\ (nud # "failed" => x.mac = k[2])
      BY MessageTypes DEF NeighMsg
    <2> HIDE DEF x
    <2> QED
      BY <1>4, <2>1, <2>2
  <1>7. ASSUME NEW k \in NeighKeys, KernelDelNeigh(k)
        PROVE  HarmlessEntry(n, m, ip)'
    <2> DEFINE x == NeighMsg("delneigh", k, kneigh[k])
    <2>1. /\ klink[k[1]] # None /\ Notify(x) /\ kneigh'[k] = None
          /\ \A q \in NeighKeys \ {k} : kneigh'[q] \in {kneigh[q], None}
          /\ UNCHANGED <<klink, born>> /\ kneigh[k] \in NeighNuds
      BY <1>7 DEF KernelDelNeigh, Allocation, Kernel
    <2>2. x \in NeighMsgs /\ x.index = k[1] /\ x.ip = k[3]
      BY <2>1, MessageTypes DEF NeighMsg
    <2> HIDE DEF x
    <2> QED
      BY <1>4, <2>1, <2>2
  <1>8. ASSUME NEW y \in FdbKeys, NEW e \in KernelFdb, KernelSetFdb(y, e)
        PROVE  HarmlessEntry(n, m, ip)'
    BY <1>3, <1>8, MessageTypes DEF KernelSetFdb, FdbKeys
  <1>9. ASSUME NEW y \in FdbKeys, KernelDelFdb(y)
        PROVE  HarmlessEntry(n, m, ip)'
    BY <1>3, <1>9, MessageTypes DEF KernelDelFdb, Kernel, FdbKeys
  <1> QED
    BY <1>1, <1>2, <1>5, <1>6, <1>7, <1>8, <1>9 DEF KernelStep

\* A name once given up or taken by a rename is never stable again.
LEMMA StableShrinks ==
    ASSUME Kernel, Allocation, [Next]_vars
    PROVE  Stable' \subseteq Stable
  <1>1. CASE KernelStep
    BY <1>1, SetLinkFacts, NotifiedIndex DEF KernelDelLink, Stable
  <1>2. CASE UNCHANGED renamed
    BY <1>2 DEF Stable
  <1> QED
    BY <1>1, <1>2 DEF Next, Subscribe, DumpRequest, DumpMessage, DumpDone, LiveMessage, vars

\* Every step loses nothing with a message filed under a number.
LEMMA HarmlessStep ==
    ASSUME Kernel, Wire, Sound, Allocation, Naming, Announced, Succession, Harmless,
           stage < 3 => neighbors = NoNeighbors, [Next]_vars
    PROVE  Harmless'
  <1> SUFFICES ASSUME NEW n \in Stable', NEW m \in Macs, NEW ip \in Ips
               PROVE  HarmlessEntry(n, m, ip)'
    BY DEF Harmless
  <1>w. /\ stage \in 0 .. 5 /\ socket \in Seq(Msgs) /\ None # {}
        /\ Waiting \subseteq Msgs /\ \A x \in Msgs : x.index \in Indexes
        /\ n \in Stable /\ Cache
    BY NoneIsNoEntry, WaitingMsgs, StableShrinks DEF Wire, Sound
  <1>0. HarmlessEntry(n, m, ip)
    BY <1>w DEF Harmless
  <1>t. UNCHANGED born => NeighborMsgs(n, m, ip)' = NeighborMsgs(n, m, ip)
    BY DEF NeighborMsgs
  <1>1. CASE KernelStep
    BY <1>0, <1>1, <1>w, HarmlessKernel
  <1>2. CASE Subscribe
    <2>1. socket' = <<>>
      BY <1>2 DEF Subscribe, Wire
    <2> QED
      BY <2>1, EmptySocket DEF HarmlessEntry
  <1>3. CASE DumpRequest
    <2>1. /\ stage \in 1 .. 4 /\ answer = None /\ answer' = Table(stage)
          /\ UNCHANGED <<stage, socket, klink, born, kneigh, ifcache, neighbors>>
      BY <1>3 DEF DumpRequest, cached, kernel
    <2>2. NamelessMsgs' = NamelessMsgs
      BY <2>1 DEF NamelessMsgs, Nameless
    <2>3. ASSUME \A i \in Indexes : born[i] = n => kneigh[<<i, m, ip>>] = None,
                 NEW x \in Table(stage), x \in NeighborMsgs(n, m, ip)
          PROVE  FALSE
      <3>1. stage = 3
        <4>1. x \in Kind(stage)
          BY <2>1, TableKind
        <4> QED
          BY <2>1, <2>3, <4>1 DEF Kind, NeighborMsgs, LinkMsgs, AddrMsgs, NeighMsgs, FdbMsgs
      <3>2. PICK k \in NeighKeys : kneigh[k] # None /\ x = NeighMsg("newneigh", k, kneigh[k])
        BY <3>1 DEF Table
      <3>3. k[1] \in Indexes /\ k = <<k[1], k[2], k[3]>>
        BY DEF NeighKeys
      <3>4. x.index = k[1] /\ x.ip = k[3] /\ x.mac \in {None, k[2]}
        BY <3>2 DEF NeighMsg
      <3>5. k = <<k[1], m, ip>> /\ born[k[1]] = n
        BY <2>3, <3>3, <3>4, StateValues DEF NeighborMsgs
      <3> QED
        BY <2>3, <3>2, <3>3, <3>5
    <2>4. Answered' = Table(stage) \/ Answered' = {}
      BY <2>1 DEF Answered
    <2> QED
      BY <1>0, <1>t, <2>1, <2>2, <2>3, <2>4 DEF HarmlessEntry
  <1>4. CASE DumpMessage
    <2>1. PICK x \in answer : processMessage(x) /\ answer' = answer \ {x}
      BY <1>4 DEF DumpMessage
    <2>2. /\ answer # None /\ x \in Answered /\ x \in Msgs /\ Answered' \subseteq Answered
          /\ UNCHANGED <<socket, klink, born, kneigh>>
      BY <1>4, <1>w, <2>1 DEF DumpMessage, kernel, Waiting, Answered
    <2>3. \A j \in Indexes : ifcache[j] # None => ifcache'[j] # None
      BY <1>w, <2>1, <2>2, ProcessNames DEF Cache
    <2>4. \A y : y \in NamelessMsgs' => y \in NamelessMsgs
      BY <2>2, <2>3 DEF NamelessMsgs, Nameless
    <2>5. x \notin NeighborMsgs(n, m, ip) => neighbors'[<<n, m, ip>>] = neighbors[<<n, m, ip>>]
      BY <1>w, <2>1, <2>2, ProcessNeighbor
    <2> SUFFICES ASSUME Ends(socket', NeighborMsgs(n, m, ip)', NamelessMsgs')
                 PROVE  Ends(socket, NeighborMsgs(n, m, ip), NamelessMsgs)
      BY <1>0, <1>t, <2>2, <2>5 DEF HarmlessEntry
    <2> QED
      BY <1>t, <2>2, <2>4, EndsCongruent
  <1>5. CASE DumpDone
    <2>1. /\ answer' = None
          /\ UNCHANGED <<socket, klink, born, kneigh, ifcache, neighbors>>
      BY <1>5 DEF DumpDone, cached, kernel
    <2>2. NamelessMsgs' = NamelessMsgs /\ Answered' = {}
      BY <2>1 DEF NamelessMsgs, Nameless, Answered
    <2> QED
      BY <1>0, <1>t, <2>1, <2>2 DEF HarmlessEntry
  <1>6. CASE LiveMessage
    <2> DEFINE x == Head(socket)
    <2>1. /\ stage = 5 /\ socket # <<>> /\ processMessage(x) /\ socket' = Tail(socket)
          /\ UNCHANGED <<answer, klink, born, kneigh>>
      BY <1>6 DEF LiveMessage, kernel
    <2>2. x \in Msgs /\ x \in Sent(socket) /\ Sent(socket') \subseteq Sent(socket)
      BY <1>w, <2>1, TailEnds, TailSent
    <2>3. \A j \in Indexes : First(socket, j) =>
            First(socket', j) \/ (x.index = j /\ x.type = "newlink")
      BY <1>w, <2>1, TailSent
    <2> HIDE DEF x
    <2>4. \A j \in Indexes : /\ ifcache[j] # None => ifcache'[j] # None
                             /\ x.index = j /\ x.type = "newlink" => ifcache'[j] # None
      BY <1>w, <2>1, <2>2, ProcessNames, StateValues DEF Cache
    <2>5. \A y : y \in NamelessMsgs' => y \in NamelessMsgs
      BY <2>1, <2>3, <2>4 DEF NamelessMsgs, Nameless
    <2>6. ASSUME Ends(socket', NeighborMsgs(n, m, ip), NamelessMsgs')
          PROVE  /\ Ends(socket, NeighborMsgs(n, m, ip), NamelessMsgs)
                 /\ neighbors'[<<n, m, ip>>] = neighbors[<<n, m, ip>>]
      <3>1. Ends(socket, NeighborMsgs(n, m, ip), NamelessMsgs)
        <4>1. Ends(socket', NeighborMsgs(n, m, ip), NamelessMsgs)
          BY <2>5, <2>6, EndsCongruent
        <4> QED
          BY <1>w, <2>1, <4>1, EndsBack
      <3>2. x \in NeighborMsgs(n, m, ip) => x.index \in Nameless
        <4>1. PICK z \in Sent(socket) : z \in NeighborMsgs(n, m, ip) /\ z \in NamelessMsgs
          BY <3>1, EndsOrSilent
        <4> QED
          BY <1>0, <2>2, <3>1, <4>1 DEF HarmlessEntry, NamelessMsgs
      <3>3. neighbors'[<<n, m, ip>>] = neighbors[<<n, m, ip>>]
        BY <1>w, <2>1, <2>2, <3>2, ProcessNeighbor DEF Nameless
      <3> QED
        BY <3>1, <3>3
    <2>7. Answered' = Answered
      BY <2>1 DEF Answered
    <2> QED
      BY <1>0, <1>t, <2>1, <2>2, <2>6, <2>7 DEF HarmlessEntry
  <1>7. CASE UNCHANGED vars
    <2>1. UNCHANGED <<socket, klink, born, kneigh, ifcache, neighbors, answer>>
      BY <1>7 DEF vars, cached, kernel
    <2>2. NamelessMsgs' = NamelessMsgs /\ Answered' = Answered
      BY <2>1 DEF NamelessMsgs, Nameless, Answered
    <2> QED
      BY <1>0, <1>t, <2>1, <2>2 DEF HarmlessEntry
  <1> QED
    BY <1>1, <1>2, <1>3, <1>4, <1>5, <1>6, <1>7 DEF Next

-----------------------------------------------------------------------------

\* A notification is about the entry and true, or the entry has failed, or
\* nothing that is said of it changes.
NoticedNeighbor(n, m, ip) ==
    \E x \in Msgs :
        /\ Notify(x)
        /\ \/ <<n, m, ip>> \in failed'
           \/ x \in NeighborMsgs(n, m, ip)' /\ x \in NeighborTruth(n, m, ip)'
           \/ /\ x \notin NeighborMsgs(n, m, ip)' /\ <<n, m, ip>> \notin failed
              /\ \A v \in Nuds \cup {None} : EntryIs(n, m, ip, v) => EntryIs(n, m, ip, v)'
              /\ \A y \in Waiting :
                   /\ y \in NeighborMsgs(n, m, ip)' <=> y \in NeighborMsgs(n, m, ip)
                   /\ y \in NeighborTruth(n, m, ip) => y \in NeighborTruth(n, m, ip)'

\* Every change of the kernel is such a notification.
LEMMA NeighborNoticed ==
    ASSUME Kernel, Wire, Allocation, Naming, KernelStep, NEW n \in Stable', n \in Stable,
           NEW m \in Macs, NEW ip \in Ips
    PROVE  NoticedNeighbor(n, m, ip)
  <1> USE DEF NoticedNeighbor
  <1>w. /\ Waiting \subseteq Msgs /\ \A x \in Msgs : x.index \in Indexes
        /\ n \in Names /\ None \notin Macs /\ None \notin NeighNuds
        /\ \A i \in Indexes : <<i, m, ip>> \in NeighKeys /\ <<i, m, ip>>[1] = i
    BY WaitingMsgs, StateValues, NoneIsNoEntry DEF Stable, NeighKeys
  <1>n. \A x \in NeighMsgs : x.nud # None
    BY <1>w DEF NeighMsgs
  <1>1. ASSUME NEW i \in Indexes, NEW l \in KernelLink, KernelSetLink(i, l)
        PROVE  NoticedNeighbor(n, m, ip)
    <2> DEFINE x == LinkMsg("newlink", i, l)
    <2>1. /\ klink'[i] = l /\ l # None /\ l.name \in Names
          /\ \A j \in Indexes \ {i} : klink'[j] = klink[j] /\ born'[j] = born[j]
          /\ klink[i] = None => born[i] = None
          /\ klink[i] # None => born'[i] = born[i]
          /\ klink[i] # None /\ klink[i].name # l.name =>
                renamed' = renamed \cup {klink[i].name, l.name}
          /\ \A j \in Indexes \ {i} : klink[j] # None => klink[j].name # l.name
      BY <1>1, SetLinkFacts
    <2>2. x \in Msgs /\ x \in LinkMsgs /\ Notify(x) /\ UNCHANGED <<kneigh, failed>>
      BY <1>1, MessageTypes DEF KernelSetLink, Msgs
    <2> HIDE DEF x
    <2>3. x \notin NeighborMsgs(n, m, ip)'
      BY <2>2 DEF NeighborMsgs, NeighMsgs, LinkMsgs
    <2>4. \A y \in Waiting : y \in NeighborMsgs(n, m, ip)' <=> y \in NeighborMsgs(n, m, ip)
      BY <1>w, <2>1 DEF NeighborMsgs, Naming
    <2>5. /\ Named(n) \subseteq Named(n)'
          /\ Named(n)' \subseteq Named(n) \cup {j \in Indexes : klink[j] = None}
          /\ Named(n) # {} => Named(n)' = Named(n)
      BY <2>1 DEF Named, Stable
    <2>6. \A j \in Indexes : klink[j] = None => kneigh[<<j, m, ip>>] = None
      BY <1>w DEF Allocation
    <2>7. \A v : EntryIs(n, m, ip, v) => EntryIs(n, m, ip, v)'
      BY <2>2, <2>5, <2>6 DEF EntryIs
    <2>8. \A y \in Waiting : y \in NeighborTruth(n, m, ip) => y \in NeighborTruth(n, m, ip)'
      BY <2>2, <2>5, <2>7 DEF NeighborTruth
    <2> QED
      BY <2>2, <2>3, <2>4, <2>7, <2>8
  <1>2. ASSUME NEW i \in Indexes, KernelDelLink(i)
        PROVE  NoticedNeighbor(n, m, ip)
    <2> DEFINE x == LinkMsg("dellink", i, klink[i])
    <2>1. /\ klink[i] \in KernelLink /\ klink[i] # None /\ Notify(x)
          /\ klink'[i] = None /\ \A j \in Indexes \ {i} : klink'[j] = klink[j]
          /\ \A k \in NeighKeys : k[1] = i => kneigh[k] = None
          /\ UNCHANGED <<born, kneigh, failed>>
      BY <1>2 DEF KernelDelLink, Kernel
    <2>2. x \in LinkMsgs /\ x \in Msgs
      BY <2>1, MessageTypes DEF Msgs
    <2> HIDE DEF x
    <2>3. x \notin NeighborMsgs(n, m, ip)' /\ NeighborMsgs(n, m, ip)' = NeighborMsgs(n, m, ip)
      BY <2>1, <2>2 DEF NeighborMsgs, NeighMsgs, LinkMsgs
    <2>4. kneigh[<<i, m, ip>>] = None
      BY <1>w, <2>1
    <2>5. Named(n)' = Named(n) \ {i}
      BY <2>1 DEF Named
    <2>6. \A v : EntryIs(n, m, ip, v) => EntryIs(n, m, ip, v)'
      BY <2>1, <2>4, <2>5 DEF EntryIs
    <2>7. \A y \in Waiting : y \in NeighborTruth(n, m, ip) => y \in NeighborTruth(n, m, ip)'
      BY <1>n, <2>1, <2>4, <2>5, <2>6 DEF NeighborTruth
    <2> QED
      BY <2>1, <2>2, <2>3, <2>6, <2>7
  <1>3. ASSUME NEW x \in Msgs, Notify(x), UNCHANGED <<klink, born>>,
               x \notin NeighborMsgs(n, m, ip),
               \A i \in Named(n) : kneigh'[<<i, m, ip>>] = kneigh[<<i, m, ip>>],
               <<n, m, ip>> \in failed => <<n, m, ip>> \in failed'
        PROVE  NoticedNeighbor(n, m, ip)
    <2>1. NeighborMsgs(n, m, ip)' = NeighborMsgs(n, m, ip) /\ Named(n)' = Named(n)
      BY <1>3 DEF NeighborMsgs, Named
    <2>2. \A v : EntryIs(n, m, ip, v) => EntryIs(n, m, ip, v)'
      BY <1>3, <2>1 DEF EntryIs
    <2>3. \A y \in Waiting : y \in NeighborTruth(n, m, ip) => y \in NeighborTruth(n, m, ip)'
      BY <1>3, <2>1, <2>2 DEF NeighborTruth
    <2> QED
      BY <1>3, <2>1, <2>2, <2>3
  <1>4. ASSUME NEW x \in AddrMsgs \cup FdbMsgs, Notify(x), UNCHANGED <<klink, born, kneigh, failed>>
        PROVE  NoticedNeighbor(n, m, ip)
    <2>1. x \in Msgs /\ x \notin NeighborMsgs(n, m, ip)
      BY DEF Msgs, NeighMsgs, FdbMsgs, AddrMsgs, NeighborMsgs
    <2> QED
      BY <1>3, <1>4, <2>1
  <1>5. ASSUME NEW k \in NeighKeys, NEW nud \in NeighNuds, KernelSetNeigh(k, nud)
        PROVE  NoticedNeighbor(n, m, ip)
    <2> DEFINE x == NeighMsg("newneigh", k, nud)
               key == <<klink[k[1]].name, k[2], k[3]>>
    <2>1. /\ klink[k[1]] # None /\ Notify(x) /\ UNCHANGED <<klink, born>>
          /\ (nud = "failed" => key \in failed') /\ failed \ {key} \subseteq failed'
      BY <1>5, SetNeighFacts
    <2>2. /\ x \in NeighMsgs /\ x \in Msgs /\ x.index = k[1] /\ x.ip = k[3] /\ x.nud = nud
          /\ x.mac = (IF nud = "failed" THEN None ELSE k[2]) /\ x.type = "newneigh"
      BY MessageTypes DEF NeighMsg, Msgs
    <2>3. k[1] \in Indexes /\ k = <<k[1], k[2], k[3]>> /\ kneigh'[k] = nud
          /\ \A q \in NeighKeys \ {k} :
               \/ kneigh'[q] = kneigh[q]
               \/ q[1] = k[1] /\ q[3] = k[3] /\ <<klink[k[1]].name, q[2], q[3]>> \in failed'
      BY <1>5, SetNeighFacts
    <2> HIDE DEF x
    <2>4. CASE klink[k[1]].name = n /\ k[2] = m /\ k[3] = ip /\ nud = "failed"
      <3>1. <<n, m, ip>> \in failed'
        BY <2>1, <2>4
      <3> QED
        BY <2>1, <2>2, <3>1
    <2>5. CASE klink[k[1]].name = n /\ k[2] = m /\ k[3] = ip /\ nud # "failed"
      <3>1. k[1] \in Named(n)' /\ born[k[1]] = n
        BY <2>1, <2>3, <2>5 DEF Named, Allocation
      <3>2. x \in NeighborMsgs(n, m, ip)' /\ x \in NeighborTruth(n, m, ip)'
        BY <2>1, <2>2, <2>3, <2>5, <3>1 DEF NeighborMsgs, NeighborTruth
      <3> QED
        BY <2>1, <2>2, <3>2
    <2>6. CASE ~(klink[k[1]].name = n /\ k[2] = m /\ k[3] = ip)
      <3>1. key # <<n, m, ip>>
        BY <2>6
      <3> HIDE DEF key
      <3>2. <<n, m, ip>> \in failed => <<n, m, ip>> \in failed'
        BY <2>1, <3>1
      <3>3. \A i \in Named(n) : <<i, m, ip>> # k
        BY <2>6 DEF Named
      <3>4. x \notin NeighborMsgs(n, m, ip)
        BY <1>w, <2>1, <2>2, <2>3, <2>6 DEF NeighborMsgs, Allocation
      <3>5. CASE \A i \in Named(n) : kneigh'[<<i, m, ip>>] = kneigh[<<i, m, ip>>]
        BY <1>3, <2>1, <2>2, <3>2, <3>4, <3>5
      <3>6. CASE \E i \in Named(n) : kneigh'[<<i, m, ip>>] # kneigh[<<i, m, ip>>]
        <4>1. PICK i \in Named(n) : kneigh'[<<i, m, ip>>] # kneigh[<<i, m, ip>>]
          BY <3>6
        <4>2. <<i, m, ip>> \in NeighKeys \ {k} /\ klink[i].name = n
          BY <1>w, <3>3 DEF Named
        <4>3. <<n, m, ip>> \in failed'
          BY <2>3, <4>1, <4>2
        <4> QED
          BY <2>1, <2>2, <4>3
      <3> QED
        BY <3>5, <3>6
    <2> QED
      BY <2>4, <2>5, <2>6
  <1>6. ASSUME NEW k \in NeighKeys, KernelDelNeigh(k)
        PROVE  NoticedNeighbor(n, m, ip)
    <2> DEFINE x == NeighMsg("delneigh", k, kneigh[k])
    <2>1. /\ klink[k[1]] # None /\ kneigh' = [kneigh EXCEPT ![k] = None] /\ Notify(x)
          /\ UNCHANGED <<klink, born, failed>> /\ kneigh[k] \in NeighNuds
      BY <1>6 DEF KernelDelNeigh, Allocation, Kernel
    <2>2. /\ x \in NeighMsgs /\ x \in Msgs /\ x.index = k[1] /\ x.ip = k[3]
          /\ x.mac = (IF kneigh[k] = "failed" THEN None ELSE k[2]) /\ x.type = "delneigh"
      BY <2>1, MessageTypes DEF NeighMsg, Msgs
    <2>3. k[1] \in Indexes /\ k = <<k[1], k[2], k[3]>> /\ kneigh'[k] = None
          /\ \A q \in NeighKeys \ {k} : kneigh'[q] = kneigh[q]
      BY <2>1 DEF NeighKeys, Kernel
    <2> HIDE DEF x
    <2>4. CASE klink[k[1]].name = n /\ k[2] = m /\ k[3] = ip /\ kneigh[k] = "failed"
      <3>1. <<n, m, ip>> \in failed'
        BY <2>1, <2>4 DEF Allocation
      <3> QED
        BY <2>1, <2>2, <3>1
    <2>5. CASE klink[k[1]].name = n /\ k[2] = m /\ k[3] = ip /\ kneigh[k] # "failed"
      <3>1. k[1] \in Named(n) /\ born[k[1]] = n /\ Named(n)' = Named(n)
        BY <2>1, <2>3, <2>5 DEF Named, Allocation
      <3>2. \A i \in Named(n) : i = k[1]
        BY <2>1, <2>3, <2>5 DEF Named, Allocation
      <3>3. EntryIs(n, m, ip, None)'
        BY <2>3, <2>5, <3>1, <3>2 DEF EntryIs
      <3>4. x \in NeighborMsgs(n, m, ip)' /\ x \in NeighborTruth(n, m, ip)'
        BY <2>1, <2>2, <2>3, <2>5, <3>1, <3>3 DEF NeighborMsgs, NeighborTruth
      <3> QED
        BY <2>1, <2>2, <3>4
    <2>6. CASE ~(klink[k[1]].name = n /\ k[2] = m /\ k[3] = ip)
      <3>1. \A i \in Named(n) : <<i, m, ip>> # k
        BY <2>6 DEF Named
      <3>2. x \notin NeighborMsgs(n, m, ip)
        BY <1>w, <2>1, <2>2, <2>3, <2>6 DEF NeighborMsgs, Allocation
      <3>3. \A i \in Named(n) : kneigh'[<<i, m, ip>>] = kneigh[<<i, m, ip>>]
        BY <1>w, <2>3, <3>1 DEF Named
      <3> QED
        BY <1>3, <2>1, <2>2, <3>2, <3>3
    <2> QED
      BY <2>4, <2>5, <2>6
  <1>7. ASSUME NEW a \in Indexes \X Ips, KernelAddr(a)
        PROVE  NoticedNeighbor(n, m, ip)
    BY <1>4, <1>7, MessageTypes DEF KernelAddr
  <1>8. ASSUME NEW y \in FdbKeys, NEW e \in KernelFdb, KernelSetFdb(y, e)
        PROVE  NoticedNeighbor(n, m, ip)
    BY <1>4, <1>8, MessageTypes DEF KernelSetFdb, FdbKeys
  <1>9. ASSUME NEW y \in FdbKeys, KernelDelFdb(y)
        PROVE  NoticedNeighbor(n, m, ip)
    BY <1>4, <1>9, MessageTypes DEF KernelDelFdb, Kernel, FdbKeys
  <1> QED
    BY <1>1, <1>2, <1>5, <1>6, <1>7, <1>8, <1>9 DEF KernelStep

\* Every step keeps what is known of the neighbours.
LEMMA NeighborhoodStep ==
    ASSUME Kernel, Wire, Sound, Allocation, Naming, Harmless, Neighborhood, [Next]_vars
    PROVE  Neighborhood'
  <1>w. /\ stage \in 0 .. 5 /\ socket \in Seq(Msgs) /\ None # {} /\ Cache
        /\ Waiting \subseteq Msgs /\ \A x \in Msgs : x.index \in Indexes
        /\ Sent(socket) \subseteq Waiting /\ Answered \subseteq Waiting
    BY NoneIsNoEntry, WaitingMsgs DEF Wire, Waiting, Sound
  <1>k. \A n \in Stable, m \in Macs, ip \in Ips :
          /\ <<n, m, ip>> \in CacheKeys /\ neighbors[<<n, m, ip>>] \in Nuds \cup {None}
          /\ NoNeighbors[<<n, m, ip>>] = None
    <2>1. \A n \in Stable, m \in Macs, ip \in Ips : <<n, m, ip>> \in CacheKeys
      BY DEF CacheKeys, Ifnames, Stable
    <2> QED
      BY <1>w, <2>1 DEF Cache, NoNeighbors
  <1>1. CASE KernelStep
    <2>1. UNCHANGED <<stage, answer, neighbors>> /\ Stable' \subseteq Stable
      BY <1>1, KernelMoves, StableShrinks DEF Notified, Notify, cached
    <2>2. ASSUME NEW n \in Stable', NEW m \in Macs, NEW ip \in Ips, IsWatched(n)
          PROVE  NeighborKnown(n, m, ip)'
      <3> DEFINE S == NeighborMsgs(n, m, ip)
                 G == NeighborTruth(n, m, ip)
                 T == NeighborMsgs(n, m, ip)'
                 H == NeighborTruth(n, m, ip)'
      <3>0. NeighborKnown(n, m, ip) /\ n \in Stable
        BY <2>1, <2>2 DEF Neighborhood
      <3>1. PICK x \in Msgs :
              /\ Notify(x)
              /\ \/ <<n, m, ip>> \in failed'
                 \/ x \in T /\ x \in H
                 \/ /\ x \notin T /\ <<n, m, ip>> \notin failed
                    /\ \A v \in Nuds \cup {None} : EntryIs(n, m, ip, v) => EntryIs(n, m, ip, v)'
                    /\ \A y \in Waiting : (y \in T <=> y \in S) /\ (y \in G => y \in H)
        BY <1>1, <3>0, NeighborNoticed DEF NoticedNeighbor
      <3>2. CASE <<n, m, ip>> \in failed'
        BY <3>2 DEF NeighborKnown
      <3>3. CASE stage = 0
        <4>1. socket' = <<>> /\ neighbors = NoNeighbors /\ stage' = 0
          BY <2>1, <3>1, <3>3 DEF Notify, Wire, Neighborhood
        <4>2. NeighborLevel(n, m, ip)'
          BY <1>k, <2>1, <3>0, <4>1 DEF NeighborLevel
        <4> QED
          BY <4>1, <4>2, EmptySocket DEF NeighborKnown
      <3>4. CASE stage # 0 /\ x \in T /\ x \in H
        <4>1. socket' = Append(socket, x)
          BY <3>1, <3>4 DEF Notify
        <4>2. Ends(socket', T, H)
          BY <1>w, <3>4, <4>1, AppendEnds
        <4> QED
          BY <4>2 DEF NeighborKnown
      <3>5. CASE /\ stage # 0 /\ x \notin T /\ <<n, m, ip>> \notin failed
                 /\ \A v \in Nuds \cup {None} : EntryIs(n, m, ip, v) => EntryIs(n, m, ip, v)'
                 /\ \A y \in Waiting : (y \in T <=> y \in S) /\ (y \in G => y \in H)
        <4>1. Ends(socket, S, G) \/ (Silent(socket, S) /\ NeighborLevel(n, m, ip))
          BY <3>0, <3>5 DEF NeighborKnown
        <4>2. \A y \in Sent(socket) : (y \in S <=> y \in T) /\ (y \in S /\ y \in G => y \in H)
          BY <1>w, <3>5
        <4>3. NeighborLevel(n, m, ip) => NeighborLevel(n, m, ip)'
          <5>1. \A y \in Answered : (y \in T <=> y \in S) /\ (y \in G => y \in H)
            BY <1>w, <3>5
          <5>2. /\ neighbors'[<<n, m, ip>>] = neighbors[<<n, m, ip>>]
                /\ EntryIs(n, m, ip, neighbors[<<n, m, ip>>])
                     => EntryIs(n, m, ip, neighbors[<<n, m, ip>>])'
            <6>1. neighbors[<<n, m, ip>>] \in Nuds \cup {None} /\ neighbors' = neighbors
              BY <1>k, <2>1, <3>0
            <6> QED
              BY <3>5, <6>1 DEF EntryIs
          <5> QED
            BY <2>1, <5>1, <5>2 DEF NeighborLevel, Answered
        <4>4. CASE Ends(socket', T, H)
          BY <4>4 DEF NeighborKnown
        <4>5. CASE Silent(socket', T) /\ Silent(socket, S) /\ ~Ends(socket, S, G)
          BY <4>1, <4>3, <4>5 DEF NeighborKnown
        <4> HIDE DEF S, G, T, H
        <4> QED
          BY <3>1, <3>5, <4>1, <4>2, <4>4, <4>5, Noticed
      <3> QED
        BY <3>1, <3>2, <3>3, <3>4, <3>5
    <2> QED
      BY <2>1, <2>2 DEF Neighborhood
  <1>2. ASSUME UNCHANGED <<renamed, failed>>, stage' < 3 => neighbors' = NoNeighbors,
               \A n \in Stable, m \in Macs, ip \in Ips :
                 IsWatched(n) /\ <<n, m, ip>> \notin failed /\ NeighborKnown(n, m, ip)
                   => NeighborKnown(n, m, ip)'
        PROVE  Neighborhood'
    <2>1. Stable' = Stable
      BY <1>2 DEF Stable
    <2>2. \A n, m, ip : <<n, m, ip>> \in failed => NeighborKnown(n, m, ip)'
      BY <1>2 DEF NeighborKnown
    <2> QED
      BY <1>2, <2>1, <2>2 DEF Neighborhood
  <1>t. UNCHANGED <<klink, born, kneigh>> =>
          \A n, m, ip : /\ NeighborTruth(n, m, ip)' = NeighborTruth(n, m, ip)
                        /\ NeighborMsgs(n, m, ip)' = NeighborMsgs(n, m, ip)
                        /\ Named(n)' = Named(n)
    BY DEF NeighborTruth, EntryIs, Named, NeighborMsgs
  <1>u. ASSUME NEW n \in Stable, NEW m \in Macs, NEW ip \in Ips, UNCHANGED <<klink, kneigh>>
        PROVE  /\ neighbors'[<<n, m, ip>>] = neighbors[<<n, m, ip>>] =>
                    EntryIs(n, m, ip, neighbors[<<n, m, ip>>])'
                      = EntryIs(n, m, ip, neighbors[<<n, m, ip>>])
               /\ neighbors'[<<n, m, ip>>] = None =>
                    EntryIs(n, m, ip, neighbors[<<n, m, ip>>])' = EntryIs(n, m, ip, None)
    BY <1>u DEF EntryIs, Named
  <1>3. CASE Subscribe
    <2>1. /\ UNCHANGED <<renamed, failed, neighbors, socket, answer>>
          /\ stage = 0 /\ stage' = 1
      BY <1>3 DEF Subscribe, kernel, cached
    <2>2. neighbors = NoNeighbors
      BY <2>1 DEF Neighborhood
    <2>3. ASSUME NEW n \in Stable, NEW m \in Macs, NEW ip \in Ips
          PROVE  NeighborKnown(n, m, ip)'
      <3>1. neighbors'[<<n, m, ip>>] = None /\ socket' = <<>>
        BY <1>k, <2>1, <2>2 DEF Wire
      <3> QED
        BY <2>1, <3>1, EmptySocket DEF NeighborKnown, NeighborLevel
    <2> QED
      BY <1>2, <2>1, <2>2, <2>3
  <1>4. CASE DumpRequest
    <2>1. /\ stage \in 1 .. 4 /\ answer = None /\ answer' = Table(stage)
          /\ UNCHANGED <<stage, socket, klink, born, kneigh, renamed, failed, neighbors>>
      BY <1>4 DEF DumpRequest, cached, kernel
    <2>2. ASSUME NEW n \in Stable, NEW m \in Macs, NEW ip \in Ips, <<n, m, ip>> \notin failed,
                 NeighborLevel(n, m, ip)
          PROVE  NeighborLevel(n, m, ip)'
      <3> DEFINE v == neighbors[<<n, m, ip>>]
      <3>1. neighbors'[<<n, m, ip>>] = v
            /\ EntryIs(n, m, ip, neighbors[<<n, m, ip>>])' = EntryIs(n, m, ip, v)
        BY <1>u, <2>1
      <3>2. CASE stage = 3
        <4>1. answer' = {NeighMsg("newneigh", k, kneigh[k]) :
                           k \in {j \in NeighKeys : kneigh[j] # None}}
          BY <2>1, <3>2 DEF Table
        <4>2. ASSUME NEW x \in answer', x \in NeighborMsgs(n, m, ip)
              PROVE  x \in NeighborTruth(n, m, ip)
          <5>1. PICK k \in NeighKeys : kneigh[k] # None /\ x = NeighMsg("newneigh", k, kneigh[k])
            BY <4>1
          <5>2. k[1] \in Indexes /\ k = <<k[1], k[2], k[3]>> /\ klink[k[1]] # None
            BY <5>1 DEF NeighKeys, Allocation
          <5>3. /\ x.index = k[1] /\ x.ip = k[3] /\ x.mac \in {None, k[2]}
                /\ x.nud = kneigh[k] /\ x.type = "newneigh"
            BY <5>1 DEF NeighMsg
          <5>4. k = <<k[1], m, ip>> /\ born[k[1]] = n /\ x \in NeighMsgs
            BY <4>2, <5>2, <5>3, StateValues DEF NeighborMsgs
          <5>5. k[1] \in Named(n)
            BY <5>2, <5>4 DEF Named, Allocation
          <5> QED
            BY <5>3, <5>4, <5>5 DEF NeighborTruth
        <4>3. EntryIs(n, m, ip, v) \/ \E x \in answer' : x \in NeighborMsgs(n, m, ip)
          <5>1. CASE v # None
            BY <2>2, <5>1 DEF NeighborLevel
          <5>2. CASE v = None /\ \A i \in Named(n) : kneigh[<<i, m, ip>>] = None
            BY <5>2 DEF EntryIs
          <5>3. CASE \E i \in Named(n) : kneigh[<<i, m, ip>>] # None
            <6>1. PICK i \in Named(n) : kneigh[<<i, m, ip>>] # None
              BY <5>3
            <6> DEFINE k == <<i, m, ip>>
                       x == NeighMsg("newneigh", k, kneigh[k])
            <6>2. /\ i \in Indexes /\ klink[i] # None /\ klink[i].name = n /\ born[i] = n
                  /\ k \in NeighKeys /\ k[1] = i /\ k[2] = m /\ k[3] = ip
              BY DEF Named, NeighKeys, Allocation
            <6>3. kneigh[k] # "failed" /\ kneigh[k] \in NeighNuds
              <7> HIDE DEF k
              <7>1. kneigh[k] \in NeighNuds
                BY <6>1, <6>2 DEF Kernel, k
              <7> QED
                BY <2>2, <6>2, <7>1 DEF Allocation
            <6> HIDE DEF k
            <6>4. x \in answer'
              BY <4>1, <6>1, <6>2 DEF k
            <6>5. x \in NeighMsgs /\ x.index = i /\ x.ip = ip /\ x.mac = m
              BY <6>2, <6>3, MessageTypes DEF NeighMsg
            <6> HIDE DEF x
            <6> QED
              BY <6>2, <6>4, <6>5 DEF NeighborMsgs
          <5> QED
            BY <5>1, <5>2, <5>3
        <4> HIDE DEF v
        <4> QED
          BY <1>t, <2>1, <2>2, <3>1, <3>2, <4>2, <4>3 DEF NeighborLevel, v
      <3>3. CASE stage # 3
        BY <2>1, <2>2, <3>1, <3>3 DEF NeighborLevel
      <3> QED
        BY <3>2, <3>3
    <2>3. ASSUME NEW n \in Stable, NEW m \in Macs, NEW ip \in Ips, <<n, m, ip>> \notin failed,
                 NeighborKnown(n, m, ip)
          PROVE  NeighborKnown(n, m, ip)'
      BY <1>t, <2>1, <2>2, <2>3 DEF NeighborKnown
    <2> QED
      BY <1>2, <2>1, <2>3 DEF Neighborhood
  <1>5. CASE DumpMessage
    <2>1. PICK x \in answer : processMessage(x) /\ answer' = answer \ {x}
      BY <1>5 DEF DumpMessage
    <2>2. /\ answer # None /\ stage \in 1 .. 4 /\ x \in Kind(stage) /\ x \in Msgs
          /\ UNCHANGED <<socket, stage, klink, born, kneigh, renamed, failed>>
      BY <1>5, <2>1, TableKind DEF DumpMessage, Wire, kernel
    <2>3. ASSUME NEW n \in Stable, NEW m \in Macs, NEW ip \in Ips, IsWatched(n),
                 NeighborLevel(n, m, ip)
          PROVE  NeighborLevel(n, m, ip)'
      <3>1. CASE x \in NeighborMsgs(n, m, ip)
        <4>1. stage = 3 /\ x.type = "newneigh"
          BY <2>2, <3>1 DEF Kind, NeighborMsgs, LinkMsgs, AddrMsgs, NeighMsgs, FdbMsgs
        <4>2. x \in NeighborTruth(n, m, ip)
          BY <2>1, <2>2, <2>3, <3>1, <4>1 DEF NeighborLevel
        <4>3. x.index \in Named(n) /\ kneigh[<<x.index, m, ip>>] = x.nud
          BY <4>1, <4>2 DEF NeighborTruth
        <4>4. klink[x.index] # None /\ \A i \in Named(n) : i = x.index
          BY <4>3 DEF Named, Allocation
        <4>5. neighbors'[<<n, m, ip>>] = x.nud
          BY <2>1, <2>2, <2>3, <3>1, <4>1, <4>4, ProcessNeighbor
        <4>6. EntryIs(n, m, ip, neighbors[<<n, m, ip>>])'
          BY <1>t, <2>2, <4>3, <4>4, <4>5 DEF EntryIs
        <4> QED
          BY <1>t, <2>1, <2>2, <2>3, <4>1, <4>6 DEF NeighborLevel
      <3>2. CASE x \notin NeighborMsgs(n, m, ip)
        <4>1. neighbors'[<<n, m, ip>>] = neighbors[<<n, m, ip>>]
          BY <2>1, <2>2, <3>2, ProcessNeighbor
        <4>2. EntryIs(n, m, ip, neighbors[<<n, m, ip>>])'
                = EntryIs(n, m, ip, neighbors[<<n, m, ip>>])
          BY <1>u, <2>2, <4>1
        <4> QED
          BY <1>t, <2>1, <2>2, <2>3, <3>2, <4>1, <4>2 DEF NeighborLevel
      <3> QED
        BY <3>1, <3>2
    <2>4. stage' < 3 => neighbors' = NoNeighbors
      <3>1. stage < 3 => x.type \in {"newlink", "newaddr"}
        BY <2>2 DEF Kind
      <3>2. x.type \in {"newlink", "newaddr"} => UNCHANGED neighbors
        BY <2>1 DEF processMessage, handleLink, handleAddr, updateLink, updateAddress, UnchangedBut
      <3> QED
        BY <2>2, <3>1, <3>2 DEF Neighborhood
    <2>5. ASSUME NEW n \in Stable, NEW m \in Macs, NEW ip \in Ips, IsWatched(n),
                 <<n, m, ip>> \notin failed, NeighborKnown(n, m, ip)
          PROVE  NeighborKnown(n, m, ip)'
      BY <1>t, <2>2, <2>3, <2>5 DEF NeighborKnown
    <2> QED
      BY <1>2, <2>2, <2>4, <2>5
  <1>6. CASE DumpDone
    <2>1. /\ answer = {} /\ answer # None /\ answer' = None /\ stage \in 1 .. 4
          /\ stage' = stage + 1
          /\ UNCHANGED <<socket, klink, born, kneigh, renamed, failed, neighbors>>
      BY <1>w, <1>6 DEF DumpDone, cached, kernel, Wire
    <2>2. ASSUME NEW n \in Stable, NEW m \in Macs, NEW ip \in Ips, NeighborLevel(n, m, ip)
          PROVE  NeighborLevel(n, m, ip)'
      <3>1. /\ neighbors'[<<n, m, ip>>] = neighbors[<<n, m, ip>>]
            /\ EntryIs(n, m, ip, neighbors[<<n, m, ip>>])'
                   = EntryIs(n, m, ip, neighbors[<<n, m, ip>>])
        BY <1>u, <2>1
      <3> QED
        BY <2>1, <2>2, <3>1 DEF NeighborLevel
    <2>3. stage' < 3 => neighbors' = NoNeighbors
      BY <2>1 DEF Neighborhood
    <2>4. ASSUME NEW n \in Stable, NEW m \in Macs, NEW ip \in Ips,
                 <<n, m, ip>> \notin failed, NeighborKnown(n, m, ip)
          PROVE  NeighborKnown(n, m, ip)'
      BY <1>t, <2>1, <2>2, <2>4 DEF NeighborKnown
    <2> QED
      BY <1>2, <2>1, <2>3, <2>4
  <1>7. CASE LiveMessage
    <2> DEFINE x == Head(socket)
    <2>1. /\ stage = 5 /\ socket # <<>> /\ processMessage(x) /\ socket' = Tail(socket)
          /\ UNCHANGED <<stage, answer, klink, born, kneigh, renamed, failed>> /\ answer = None
      BY <1>7 DEF LiveMessage, kernel, Wire
    <2>2. x \in Msgs
      BY <1>w, <2>1, TailEnds
    <2>3. \A i : First(socket, i) /\ x.index = i => x.type = "newlink"
      BY <1>w, <2>1, TailSent
    <2> HIDE DEF x
    <2>4. ASSUME NEW n \in Stable, NEW m \in Macs, NEW ip \in Ips, IsWatched(n),
                 <<n, m, ip>> \notin failed, NeighborKnown(n, m, ip)
          PROVE  NeighborKnown(n, m, ip)'
      <3> DEFINE S == NeighborMsgs(n, m, ip)
                 G == NeighborTruth(n, m, ip)
      <3>1. CASE Silent(socket, S) /\ NeighborLevel(n, m, ip)
        <4>1. Silent(socket', S) /\ x \notin S
          BY <1>w, <2>1, <3>1, TailEnds DEF x
        <4>2. neighbors'[<<n, m, ip>>] = neighbors[<<n, m, ip>>]
          BY <2>1, <2>2, <4>1, ProcessNeighbor
        <4>3. EntryIs(n, m, ip, neighbors[<<n, m, ip>>])'
                = EntryIs(n, m, ip, neighbors[<<n, m, ip>>])
          BY <1>u, <2>1, <4>2
        <4>4. NeighborLevel(n, m, ip)'
          BY <2>1, <3>1, <4>2, <4>3 DEF NeighborLevel
        <4> QED
          BY <1>t, <2>1, <4>1, <4>4 DEF NeighborKnown
      <3>2. CASE Ends(socket', S, G)
        BY <1>t, <2>1, <3>2 DEF NeighborKnown
      <3>3. CASE Silent(socket', S) /\ x \in S /\ x \in G
        <4>1. EntryIs(n, m, ip, neighbors[<<n, m, ip>>])'
          <5>1. CASE x.type = "newneigh"
            <6>1. x.index \in Named(n) /\ kneigh[<<x.index, m, ip>>] = x.nud
              BY <3>3, <5>1 DEF NeighborTruth
            <6>2. klink[x.index] # None /\ \A i \in Named(n) : i = x.index
              BY <6>1 DEF Named, Allocation
            <6>3. neighbors'[<<n, m, ip>>] = x.nud
              BY <2>1, <2>2, <2>4, <3>3, <5>1, <6>2, ProcessNeighbor
            <6> QED
              BY <1>t, <2>1, <6>1, <6>2, <6>3 DEF EntryIs
          <5>2. CASE x.type # "newneigh" /\ (ifcache[x.index] # None \/ klink[x.index] # None)
            <6>1. neighbors'[<<n, m, ip>>] = None
              BY <2>1, <2>2, <2>4, <3>3, <5>2, ProcessNeighbor
            <6>2. EntryIs(n, m, ip, None)
              BY <3>3, <5>2 DEF NeighborTruth
            <6> QED
              BY <1>u, <2>1, <6>1, <6>2
          <5>3. CASE x.type # "newneigh" /\ ~(ifcache[x.index] # None \/ klink[x.index] # None)
            <6>1. x \in NeighMsgs /\ x.type # "newlink"
              BY <3>3 DEF NeighborMsgs, NeighMsgs
            <6>2. x \in NamelessMsgs
              BY <1>w, <2>2, <2>3, <5>3, <6>1 DEF NamelessMsgs, Nameless
            <6>3. Ends(socket, S, NamelessMsgs)
              <7> HIDE DEF S
              <7> QED
                BY <1>w, <2>1, <3>3, <6>2, EndsBack DEF x
            <6>4. neighbors[<<n, m, ip>>] = None
              BY <6>3 DEF Harmless, HarmlessEntry
            <6>5. neighbors'[<<n, m, ip>>] = None
              BY <2>1, <2>2, <5>3, <6>4, ProcessNeighbor
            <6>6. EntryIs(n, m, ip, None)
              BY <3>3, <5>3 DEF NeighborTruth
            <6> QED
              BY <1>u, <2>1, <6>5, <6>6
          <5> QED
            BY <5>1, <5>2, <5>3
        <4>2. NeighborLevel(n, m, ip)'
          BY <2>1, <4>1 DEF NeighborLevel
        <4> QED
          BY <1>t, <2>1, <3>3, <4>2 DEF NeighborKnown
      <3>4. Ends(socket, S, G) \/ (Silent(socket, S) /\ NeighborLevel(n, m, ip))
        BY <2>4 DEF NeighborKnown
      <3> HIDE DEF S, G
      <3> QED
        BY <1>w, <2>1, <3>1, <3>2, <3>3, <3>4, TailEnds DEF x
    <2> QED
      BY <1>2, <2>1, <2>4
  <1>8. CASE UNCHANGED vars
    <2>1. UNCHANGED <<klink, born, kneigh, renamed, failed, neighbors, socket, answer, stage>>
      BY <1>8 DEF vars, kernel, cached
    <2>2. \A n, m, ip : NeighborLevel(n, m, ip)' = NeighborLevel(n, m, ip)
      BY <1>t, <2>1 DEF NeighborLevel, EntryIs
    <2> QED
      BY <1>2, <1>t, <2>1, <2>2 DEF NeighborKnown, Neighborhood
  <1> QED
    BY <1>1, <1>3, <1>4, <1>5, <1>6, <1>7, <1>8 DEF Next

-----------------------------------------------------------------------------
(* The theorems *)

\* The inductive invariant.
Inv ==
    /\ Kernel /\ Wire /\ Sound
    /\ Allocation /\ Naming /\ Announced /\ Succession
    /\ Links /\ Addresses /\ Harmless /\ Neighborhood /\ Bridge

\* The empty kernel and the empty cache satisfy it.
LEMMA InvInit ==
    ASSUME Init
    PROVE  Inv
  <1>0. MaxChanges \in Nat /\ None # {}
    BY StateValues, NoneIsNoEntry
  <1>1. Kernel
    BY DEF Init, Kernel
  <1>2. Wire
    BY <1>0 DEF Init, Wire
  <1>3. Sound
    <2>1. Cache
      BY DEF Init, Cache, NoLinks, NoNeighbors
    <2>2. Told
      BY DEF Init, Told, NoLinks, NoNeighbors, ToldLink, ToldNeigh, ToldFdb
    <2>3. Aggregates
      BY DEF Init, Aggregates, Merged
    <2> QED
      BY <2>1, <2>2, <2>3 DEF Sound
  <1>4. Waiting = {} /\ socket = <<>> /\ Sent(socket) = {}
    BY DEF Init, Waiting, Sent, Answered
  <1>5. \A i \in Indexes : klink[i] = None /\ ifcache[i] = None
    BY DEF Init
  <1>6. Allocation
    <2>1. \A k \in NeighKeys : kneigh[k] = None
      BY DEF Init
    <2>2. None # "failed"
      BY NoneIsNoEntry DEF NeighNuds
    <2>3. kaddr = {} /\ \A y \in FdbKeys : kfdb[y] = None
      BY DEF Init
    <2> QED
      BY <1>5, <2>1, <2>2, <2>3 DEF Allocation
  <1>7. Naming
    BY <1>4, <1>5 DEF Naming
  <1>8. Announced /\ Succession
    BY <1>4, <1>5 DEF Announced, Succession
  <1>9. Links
    <2>1. links = NoLinks /\ stage = 0
      BY DEF Init
    <2> QED
      BY <1>4, <2>1, EmptySocket DEF Links, LinkKnown, LinkLevel
  <1>10. Addresses
    <2>1. addrs = {} /\ stage = 0
      BY DEF Init
    <2> QED
      BY <1>4, <2>1, EmptySocket DEF Addresses, AddressKnown, AddressLevel
  <1>11. Harmless
    BY <1>4, EmptySocket DEF Harmless, HarmlessEntry
  <1>12. Neighborhood
    <2>1. neighbors = NoNeighbors /\ stage = 0
      BY DEF Init
    <2>2. \A n \in Stable, m \in Macs, ip \in Ips : neighbors[<<n, m, ip>>] = None
      <3>1. \A n \in Stable, m \in Macs, ip \in Ips : <<n, m, ip>> \in CacheKeys
        BY DEF CacheKeys, Ifnames, Stable
      <3> QED
        BY <2>1, <3>1 DEF NoNeighbors
    <2> QED
      BY <1>4, <2>1, <2>2, EmptySocket DEF Neighborhood, NeighborKnown, NeighborLevel
  <1>13. Bridge
    <2>1. stage = 0 /\ dropped = {} /\ \A m \in Macs : fdb[m] = None
      BY DEF Init
    <2> QED
      BY <1>4, <2>1, EmptySocket DEF Bridge, BridgeLevel
  <1> QED
    BY <1>1, <1>2, <1>3, <1>6, <1>7, <1>8, <1>9, <1>10, <1>11, <1>12, <1>13 DEF Inv

\* Every step keeps it.
LEMMA InvStep ==
    ASSUME Inv, [Next]_vars
    PROVE  Inv'
  <1> USE DEF Inv
  <1>0. Cache /\ (stage < 3 => neighbors = NoNeighbors)
    BY DEF Sound, Neighborhood
  <1>1. Kernel'
    BY KernelTypes
  <1>2. Wire'
    BY WireStep
  <1>3. Sound'
    BY SoundStep
  <1>4. Allocation'
    BY AllocationStep
  <1>5. Naming'
    BY <1>0, NamingStep
  <1>6. Announced'
    BY <1>0, AnnouncedStep
  <1>7. Succession'
    BY <1>0, SuccessionStep
  <1>8. Links'
    BY LinksStep
  <1>9. Addresses'
    BY AddressesStep
  <1>10. Harmless'
    BY <1>0, HarmlessStep
  <1>11. Neighborhood'
    BY NeighborhoodStep
  <1>12. Bridge'
    BY BridgeStep
  <1> QED
    BY <1>1, <1>2, <1>3, <1>4, <1>5, <1>6, <1>7, <1>8, <1>9, <1>10, <1>11, <1>12

\* Every reachable state satisfies the invariant: the socket, the answer and
\* the cache together never lose what the kernel said.
THEOREM Invariance == Spec => []Inv
  <1>1. Init => Inv
    BY InvInit
  <1>2. Inv /\ [Next]_vars => Inv'
    BY InvStep
  <1> QED
    BY <1>1, <1>2, PTL DEF Spec

\* Every variable keeps its type: the parser files messages under interface
\* names or numbers only, and at most the bounded number of messages wait.
THEOREM TypeCorrect == Spec => []TypeOK
  <1>1. Inv => TypeOK
    <2> SUFFICES ASSUME Inv
                 PROVE  TypeOK
      OBVIOUS
    <2>1. Len(socket) =< MaxChanges /\ stage \in 0 .. 5
      <3>1. Len(socket) \in Nat /\ MaxChanges \in Nat
        BY StateValues DEF Inv, Wire
      <3> QED
        BY <3>1 DEF Inv, Wire
    <2> QED
      BY <2>1 DEF Inv, Kernel, Sound, Cache, TypeOK
  <1> QED
    BY <1>1, Invariance, PTL

\* NetlinkState's deduplication hides no change from the consumer, and a
\* merged device has only addresses that cached neighbours back.
THEOREM CacheIsSound == Spec => []CacheSound
  <1>1. Inv => CacheSound
    <2> SUFFICES ASSUME Inv
                 PROVE  CacheSound
      OBVIOUS
    <2>1. CacheTold
      BY DEF Inv, Sound, Told, CacheTold
    <2>2. ASSUME NEW m \in Macs, devices[m] # None
          PROVE  /\ devices[m].ips = ips[m] /\ devices[m].present = (fdb[m] # None)
      <3>1. devices[m] = Merged(fdb[m], ips[m])
        BY DEF Inv, Sound, Aggregates
      <3>2. devices[m] = [ifname |-> IF fdb[m] = None THEN None ELSE fdb[m].port,
                          ips |-> ips[m], present |-> fdb[m] # None]
        BY <2>2, <3>1 DEF Merged
      <3> QED
        BY <3>2
    <2>3. DeviceBacked
      BY <2>2 DEF Inv, Sound, Aggregates, DeviceBacked
    <2> QED
      BY <2>1, <2>3 DEF CacheSound
  <1> QED
    BY <1>1, Invariance, PTL

\* Whatever changed in the kernel while the dump ran, in whatever order the
\* notifications and the answers were filled: once the queued notifications
\* are handled the cache agrees with the kernel's tables, but for a neighbour's
\* former MAC and a MAC that last went from one of several bridge tables.
THEOREM TablesConverge == Spec => []CacheConverges
  <1>1. Inv => CacheConverges
    <2> SUFFICES ASSUME Inv, Settled
                 PROVE  CacheConverges
      BY DEF CacheConverges, LinksConverge, AddressesConverge, NeighborsConverge, BridgeConverges
    <2>0. stage = 5 /\ socket = <<>>
      BY DEF Settled
    <2>1. \A n \in Names : Named(n) # {} \/ n \in Stable => LinkAgrees(n)
      <3>1. ASSUME NEW n \in Names, Named(n) # {} \/ n \in Stable
            PROVE  LinkLevel(n)
        <4>1. LinkKnown(n)
          BY <3>1 DEF Inv, Links
        <4> QED
          BY <2>0, <4>1, EmptySocket DEF LinkKnown
      <3> QED
        BY <2>0, <3>1 DEF LinkLevel
    <2>2. LinksConverge
      <3>1. ASSUME NEW n \in Names, NEW i \in Named(n)
            PROVE  links[n] # None /\ links[n].index = i /\ links[n].up = klink[i].up
        <4>1. links[n] # None /\ links[n].index \in Named(n)
              /\ links[n].up = klink[links[n].index].up
          BY <2>1 DEF LinkAgrees
        <4>2. links[n].index = i
          BY <4>1 DEF Inv, Allocation, Named
        <4> QED
          BY <4>1, <4>2
      <3>2. \A n \in Names \ renamed : links[n] # None => Named(n) # {}
        BY <2>1 DEF LinkAgrees, Stable
      <3> QED
        BY <3>1, <3>2 DEF LinksConverge
    <2>3. \A n \in Stable, ip \in Ips : <<n, ip>> \in addrs <=> Held(n, ip)
      <3>1. \A n \in Stable, ip \in Ips : AddressKnown(n, ip)
        BY DEF Inv, Addresses
      <3>2. \A n \in Stable, ip \in Ips : AddressLevel(n, ip)
        BY <2>0, <3>1, EmptySocket DEF AddressKnown
      <3>3. ASSUME NEW n \in Stable, NEW ip \in Ips
            PROVE  <<n, ip>> \in addrs <=> Held(n, ip)
        <4>1. /\ <<n, ip>> \in addrs => Held(n, ip)
              /\ stage > 2 /\ Held(n, ip) => <<n, ip>> \in addrs
          BY <3>2 DEF AddressLevel
        <4> HIDE DEF Held
        <4> QED
          BY <2>0, <4>1
      <3> QED
        BY <3>3
    <2>4. AddressesConverge
      <3>1. ASSUME NEW n \in Names \ renamed
            PROVE  {ip \in Ips : <<n, ip>> \in addrs}
                     = {a[2] : a \in {b \in kaddr : b[1] \in Named(n)}}
        <4>1. ASSUME NEW ip \in Ips, <<n, ip>> \in addrs
              PROVE  \E a \in kaddr : a[1] \in Named(n) /\ ip = a[2]
          <5>1. PICK i \in Named(n) : <<i, ip>> \in kaddr
            BY <2>3, <4>1 DEF Stable, Held
          <5>2. <<i, ip>>[1] = i /\ <<i, ip>>[2] = ip
            OBVIOUS
          <5> QED
            BY <5>1, <5>2
        <4>2. ASSUME NEW a \in kaddr, a[1] \in Named(n)
              PROVE  a[2] \in Ips /\ <<n, a[2]>> \in addrs
          <5>1. a = <<a[1], a[2]>> /\ a[2] \in Ips
            BY DEF Inv, Kernel
          <5>2. Held(n, a[2])
            BY <4>2, <5>1 DEF Held
          <5> QED
            BY <2>3, <5>1, <5>2 DEF Stable
        <4> QED
          BY <4>1, <4>2
      <3> QED
        BY <3>1 DEF AddressesConverge
    <2>5. NeighborsConverge
      <3>1. ASSUME NEW n \in Names \ renamed, IsWatched(n), NEW i \in Named(n),
                   NEW m \in Macs, NEW ip \in Ips, <<n, m, ip>> \notin failed
            PROVE  neighbors[<<n, m, ip>>] = kneigh[<<i, m, ip>>]
        <4>1. NeighborKnown(n, m, ip)
          BY <3>1 DEF Inv, Neighborhood, Stable
        <4>2. NeighborLevel(n, m, ip)
          BY <2>0, <3>1, <4>1, EmptySocket DEF NeighborKnown
        <4> QED
          BY <2>0, <4>2 DEF NeighborLevel, EntryIs
      <3> QED
        BY <3>1 DEF NeighborsConverge
    <2>6. BridgeConverges
      <3>1. ASSUME Watched = {}, NEW m \in Macs
            PROVE  BridgeLevel(m)
        <4>1. \/ Ends(socket, BridgeMsgs(m), BridgeTruth(m))
              \/ Silent(socket, BridgeMsgs(m)) /\ BridgeLevel(m)
          BY <3>1 DEF Inv, Bridge
        <4> QED
          BY <2>0, <4>1, EmptySocket
      <3> QED
        BY <2>0, <3>1 DEF BridgeLevel, BridgeConverges, Known
    <2> QED
      BY <2>2, <2>4, <2>5, <2>6 DEF CacheConverges
  <1> QED
    BY <1>1, Invariance, PTL
=============================================================================
