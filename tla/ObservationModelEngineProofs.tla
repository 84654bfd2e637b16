--------------------- MODULE ObservationModelEngineProofs ---------------------
(***************************************************************************)
(* Proofs about the engine, the tracker of local state it asks, and the    *)
(* path of its news to a client.                                           *)
(*                                                                         *)
(* The invariant has a part for each of them.  The tracker's counts are    *)
(* the numbers of owners.  Every candidate is Good: its class is what the  *)
(* classifier says of its evidence, or it is a tombstone, and the phase    *)
(* limits its status.  The candidates of local MACs are tombstones.  And   *)
(* whoever changes what a query returns collects an event for it under the *)
(* same lock (WhoReports), which only becomes a mark, a signal and at last *)
(* the client's query (InformedStep).                                      *)
(***************************************************************************)
EXTENDS ObservationModelEngine, FiniteSetTheorems, TLAPS

-----------------------------------------------------------------------------
(* LocalStateTracker: the counts are the numbers of owners *)

\* Every set of owners is finite, so its cardinality is a natural number.
LEMMA OwnersFinite ==
    ASSUME LocalTypeOK
    PROVE  /\ \A m \in Macs : /\ IsFiniteSet(MacOwners(m))
                              /\ Cardinality(MacOwners(m)) \in Nat
                              /\ Cardinality(MacOwners(m)) = 0 <=> MacOwners(m) = {}
           /\ \A ip \in LocalIpSpace :
                              /\ IsFiniteSet(IpOwners(ip))
                              /\ Cardinality(IpOwners(ip)) \in Nat
                              /\ Cardinality(IpOwners(ip)) = 0 <=> IpOwners(ip) = {}
  <1>1. ASSUME NEW m \in Macs
        PROVE  IsFiniteSet(MacOwners(m))
    <2>1. MacOwners(m) \in SUBSET Ifaces
      BY DEF MacOwners
    <2> QED
      BY <2>1, FiniteHost, FS_Subset
  <1>2. ASSUME NEW ip \in LocalIpSpace
        PROVE  IsFiniteSet(IpOwners(ip))
    <2>1. IpOwners(ip) \in SUBSET (Ifaces \X Cidrs)
      BY DEF IpOwners
    <2>2. IsFiniteSet(Ifaces \X Cidrs)
      BY FiniteHost, FS_Product
    <2> QED
      BY <2>1, <2>2, FS_Subset
  <1> QED
    BY <1>1, <1>2, FS_CardinalityType, FS_EmptySet

\* A link observation that changes the MAC moves one owner.
LEMMA LinkPresentMacs ==
    ASSUME LocalTypeOK, MacOwnershipExact, NEW i \in Ifaces, NEW mac \in Macs \cup {NoMac},
           LinkPresent(i, mac)
    PROVE  MacOwnershipExact'
  <1> DEFINE old == interfaces[i].mac
  <1>1. interfaces[i] \in Entries /\ DOMAIN interfaces = Ifaces
    BY DEF LocalTypeOK
  <1>2. /\ interfaces'[i].mac = mac
        /\ \A j \in Ifaces \ {i} : interfaces'[j] = interfaces[j]
    BY <1>1 DEF LinkPresent, Entries
  <1> SUFFICES ASSUME NEW m \in Macs
               PROVE  /\ macRefs'[m] = Cardinality(MacOwners(m)')
                      /\ m \in localMacs' <=> MacOwners(m)' # {}
    BY DEF MacOwnershipExact
  <1>3. /\ IsFiniteSet(MacOwners(m))
        /\ Cardinality(MacOwners(m)) \in Nat
        /\ Cardinality(MacOwners(m)) = 0 <=> MacOwners(m) = {}
    BY OwnersFinite
  <1>4. /\ macRefs[m] = Cardinality(MacOwners(m))
        /\ m \in localMacs <=> MacOwners(m) # {}
    BY DEF MacOwnershipExact
  <1>5. macRefs \in [Macs -> Nat] /\ localMacs \subseteq Macs
    BY DEF LocalTypeOK
  <1>6. CASE old = mac
    <2>1. MacOwners(m)' = MacOwners(m)
      BY <1>2, <1>6 DEF MacOwners
    <2> QED
      BY <2>1, <1>4, <1>6 DEF LinkPresent
  <1>7. CASE old # mac /\ m = mac
    <2>1. MacOwners(m)' = MacOwners(m) \cup {i} /\ i \notin MacOwners(m)
      BY <1>2, <1>7 DEF MacOwners
    <2>2. Cardinality(MacOwners(m)') = Cardinality(MacOwners(m)) + 1
      BY <2>1, <1>3, FS_AddElement
    <2>3. Decrement(macRefs, old)[m] = macRefs[m] /\ Decrement(macRefs, old) \in [Macs -> Nat]
      BY <1>5, <1>7 DEF Decrement
    <2>4. macRefs'[m] = macRefs[m] + 1
      BY <2>3, <1>5, <1>7 DEF LinkPresent, Increment
    <2>5. m \in localMacs'
      BY <2>3, <1>3, <1>4, <1>5, <1>7 DEF LinkPresent, Enter, Leave
    <2> QED
      BY <2>1, <2>2, <2>4, <2>5, <1>4
  <1>8. CASE old # mac /\ m = old
    <2>1. MacOwners(m)' = MacOwners(m) \ {i} /\ i \in MacOwners(m)
      BY <1>2, <1>8 DEF MacOwners
    <2>2. Cardinality(MacOwners(m)') = Cardinality(MacOwners(m)) - 1
          /\ IsFiniteSet(MacOwners(m)')
      BY <2>1, <1>3, FS_RemoveElement
    <2>3. Cardinality(MacOwners(m)') = 0 <=> MacOwners(m)' = {}
      BY <2>2, FS_EmptySet
    <2>4. macRefs[m] > 0 /\ macRefs[m] \in Nat
      BY <2>1, <1>3, <1>4
    <2>5. Decrement(macRefs, old)[m] = macRefs[m] - 1 /\ Decrement(macRefs, old) \in [Macs -> Nat]
      BY <2>4, <1>5, <1>8 DEF Decrement
    <2>6. macRefs'[m] = macRefs[m] - 1
      BY <2>5, <1>8 DEF LinkPresent, Increment
    <2>7. m \in localMacs' <=> macRefs[m] # 1
      BY <2>1, <2>4, <1>4, <1>5, <1>8 DEF LinkPresent, Enter, Leave
    <2> QED
      BY <2>2, <2>3, <2>4, <2>6, <2>7, <1>3, <1>4
  <1>9. CASE old # mac /\ m # mac /\ m # old
    <2>1. MacOwners(m)' = MacOwners(m)
      BY <1>2, <1>9 DEF MacOwners
    <2>2. Decrement(macRefs, old)[m] = macRefs[m] /\ Decrement(macRefs, old) \in [Macs -> Nat]
      BY <1>5, <1>9 DEF Decrement
    <2>3. macRefs'[m] = macRefs[m]
      BY <2>2, <1>9 DEF LinkPresent, Increment
    <2>4. m \in localMacs' <=> m \in localMacs
      BY <1>9 DEF LinkPresent, Enter, Leave
    <2> QED
      BY <2>1, <2>3, <2>4, <1>4
  <1> QED
    BY <1>6, <1>7, <1>8, <1>9

\* The MAC half of a removal.
LEMMA LinkRemovedMacs ==
    ASSUME LocalTypeOK, MacOwnershipExact, NEW i \in Ifaces, LinkRemoved(i)
    PROVE  MacOwnershipExact'
  <1> DEFINE old == interfaces[i].mac
  <1>1. interfaces[i] \in Entries /\ DOMAIN interfaces = Ifaces
    BY DEF LocalTypeOK
  <1>2. /\ interfaces'[i].mac = NoMac
        /\ \A j \in Ifaces \ {i} : interfaces'[j] = interfaces[j]
    BY <1>1 DEF LinkRemoved, Entries, NoEntry
  <1> SUFFICES ASSUME NEW m \in Macs
               PROVE  /\ macRefs'[m] = Cardinality(MacOwners(m)')
                      /\ m \in localMacs' <=> MacOwners(m)' # {}
    BY DEF MacOwnershipExact
  <1>3. /\ IsFiniteSet(MacOwners(m))
        /\ Cardinality(MacOwners(m)) \in Nat
        /\ Cardinality(MacOwners(m)) = 0 <=> MacOwners(m) = {}
    BY OwnersFinite
  <1>4. /\ macRefs[m] = Cardinality(MacOwners(m))
        /\ m \in localMacs <=> MacOwners(m) # {}
    BY DEF MacOwnershipExact
  <1>5. macRefs \in [Macs -> Nat] /\ localMacs \subseteq Macs
    BY DEF LocalTypeOK
  <1>8. CASE m = old
    <2>1. MacOwners(m)' = MacOwners(m) \ {i} /\ i \in MacOwners(m)
      BY <1>2, <1>8, NoMacIsNoMac DEF MacOwners
    <2>2. Cardinality(MacOwners(m)') = Cardinality(MacOwners(m)) - 1
          /\ IsFiniteSet(MacOwners(m)')
      BY <2>1, <1>3, FS_RemoveElement
    <2>3. Cardinality(MacOwners(m)') = 0 <=> MacOwners(m)' = {}
      BY <2>2, FS_EmptySet
    <2>4. macRefs[m] > 0 /\ macRefs[m] \in Nat
      BY <2>1, <1>3, <1>4
    <2>6. macRefs'[m] = macRefs[m] - 1
      BY <2>4, <1>5, <1>8 DEF LinkRemoved, Decrement
    <2>7. m \in localMacs' <=> macRefs[m] # 1
      BY <2>1, <2>4, <1>4, <1>5, <1>8 DEF LinkRemoved, Leave
    <2> QED
      BY <2>2, <2>3, <2>4, <2>6, <2>7, <1>3, <1>4
  <1>9. CASE m # old
    <2>1. MacOwners(m)' = MacOwners(m)
      BY <1>2, <1>9, NoMacIsNoMac DEF MacOwners
    <2>3. macRefs'[m] = macRefs[m]
      BY <1>5, <1>9 DEF LinkRemoved, Decrement
    <2>4. m \in localMacs' <=> m \in localMacs
      BY <1>9 DEF LinkRemoved, Leave
    <2> QED
      BY <2>1, <2>3, <2>4, <1>4
  <1> QED
    BY <1>8, <1>9

\* The IP half of a removal: all addresses of the interface go at once.
LEMMA LinkRemovedIps ==
    ASSUME LocalTypeOK, IpOwnershipExact, NEW i \in Ifaces, LinkRemoved(i)
    PROVE  IpOwnershipExact'
  <1>1. interfaces[i] \in Entries /\ DOMAIN interfaces = Ifaces
        /\ interfaces[i].cidrs \in SUBSET Cidrs
    BY DEF LocalTypeOK, Entries
  <1>2. /\ interfaces'[i].cidrs = {}
        /\ \A j \in Ifaces \ {i} : interfaces'[j] = interfaces[j]
    BY <1>1 DEF LinkRemoved, Entries, NoEntry
  <1> SUFFICES ASSUME NEW ip \in LocalIpSpace
               PROVE  /\ ipRefs'[ip] = Cardinality(IpOwners(ip)')
                      /\ ip \in localIps' <=> IpOwners(ip)' # {}
    BY DEF IpOwnershipExact
  <1>3. /\ IsFiniteSet(IpOwners(ip))
        /\ Cardinality(IpOwners(ip)) \in Nat
        /\ Cardinality(IpOwners(ip)) = 0 <=> IpOwners(ip) = {}
    BY OwnersFinite
  <1>4. /\ ipRefs[ip] = Cardinality(IpOwners(ip))
        /\ ip \in localIps <=> IpOwners(ip) # {}
    BY DEF IpOwnershipExact
  <1> DEFINE mine == {c \in interfaces[i].cidrs : IpOf(c) = ip}
             gone == {i} \X mine
  <1>5. IsFiniteSet(mine) /\ Cardinality(mine) \in Nat
        /\ (Cardinality(mine) = 0 <=> mine = {})
    <2>1. mine \in SUBSET Cidrs
      BY <1>1
    <2>2. IsFiniteSet(mine)
      BY <2>1, FiniteHost, FS_Subset
    <2> QED
      BY <2>2, FS_CardinalityType, FS_EmptySet
  <1>6. IsFiniteSet(gone) /\ Cardinality(gone) = Cardinality(mine)
    <2>1. IsFiniteSet({i}) /\ Cardinality({i}) = 1
      BY FS_Singleton
    <2>2. IsFiniteSet(gone) /\ Cardinality(gone) = 1 * Cardinality(mine)
      BY <2>1, <1>5, FS_Product
    <2> QED
      BY <2>2, <1>5
  <1>7. gone \subseteq IpOwners(ip) /\ IpOwners(ip)' = IpOwners(ip) \ gone
    <2>1. gone \subseteq IpOwners(ip)
      BY <1>1 DEF IpOwners
    <2>2. ASSUME NEW o \in Ifaces \X Cidrs
          PROVE  o \in IpOwners(ip)' <=> o \in IpOwners(ip) \ gone
      <3>1. o[1] \in Ifaces /\ o[2] \in Cidrs /\ o = <<o[1], o[2]>>
        OBVIOUS
      <3>2. CASE o[1] = i
        BY <3>1, <3>2, <1>2, <2>1 DEF IpOwners
      <3>3. CASE o[1] # i
        <4>1. o \notin gone
          BY <3>1, <3>3
        <4> QED
          BY <4>1, <3>1, <3>3, <1>2 DEF IpOwners
      <3> QED
        BY <3>2, <3>3
    <2>3. IpOwners(ip)' \subseteq Ifaces \X Cidrs /\ IpOwners(ip) \subseteq Ifaces \X Cidrs
      BY DEF IpOwners
    <2> QED
      BY <2>1, <2>2, <2>3
  <1>8. /\ IsFiniteSet(IpOwners(ip)')
        /\ Cardinality(IpOwners(ip)') = Cardinality(IpOwners(ip)) - Cardinality(mine)
    <2>1. IpOwners(ip) \cap gone = gone
      BY <1>7
    <2>2. /\ IsFiniteSet(IpOwners(ip) \ gone)
          /\ Cardinality(IpOwners(ip) \ gone)
               = Cardinality(IpOwners(ip)) - Cardinality(IpOwners(ip) \cap gone)
      BY <1>3, FS_Difference
    <2> QED
      BY <2>1, <2>2, <1>6, <1>7
  <1>9. /\ Cardinality(IpOwners(ip)') \in Nat
        /\ Cardinality(IpOwners(ip)') = 0 <=> IpOwners(ip)' = {}
    BY <1>8, FS_CardinalityType, FS_EmptySet
  <1>10. ipRefs'[ip] = IF ipRefs[ip] > Cardinality(mine)
                       THEN ipRefs[ip] - Cardinality(mine) ELSE 0
    BY DEF LinkRemoved
  <1>11. ip \in localIps' <=> ip \in localIps /\ ~(Cardinality(mine) > 0 /\ ipRefs'[ip] = 0)
    BY DEF LinkRemoved
  <1>12. ipRefs'[ip] = Cardinality(IpOwners(ip)')
    BY <1>3, <1>4, <1>5, <1>8, <1>9, <1>10
  <1>13. CASE Cardinality(mine) = 0
    <2>1. Cardinality(IpOwners(ip)') = Cardinality(IpOwners(ip))
      BY <1>13, <1>8, <1>3
    <2> QED
      BY <2>1, <1>12, <1>11, <1>13, <1>9, <1>3, <1>4
  <1>14. CASE Cardinality(mine) > 0
    <2>1. ip \in localIps
      BY <1>14, <1>8, <1>3, <1>9, <1>4, <1>5
    <2> QED
      BY <2>1, <1>12, <1>11, <1>14, <1>9
  <1> QED
    BY <1>12, <1>13, <1>14, <1>5

\* One address more or less.
LEMMA AddressPresentIps ==
    ASSUME LocalTypeOK, IpOwnershipExact, NEW i \in Ifaces, NEW c \in Cidrs,
           AddressPresent(i, c)
    PROVE  IpOwnershipExact'
  <1>1. interfaces[i] \in Entries /\ DOMAIN interfaces = Ifaces /\ IpOf(c) \in LocalIpSpace
    BY DEF LocalTypeOK, LocalIpSpace
  <1>2. /\ interfaces'[i].cidrs = interfaces[i].cidrs \cup {c}
        /\ \A j \in Ifaces \ {i} : interfaces'[j] = interfaces[j]
    BY <1>1 DEF AddressPresent, Entries
  <1> SUFFICES ASSUME NEW ip \in LocalIpSpace
               PROVE  /\ ipRefs'[ip] = Cardinality(IpOwners(ip)')
                      /\ ip \in localIps' <=> IpOwners(ip)' # {}
    BY DEF IpOwnershipExact
  <1>3. /\ IsFiniteSet(IpOwners(ip))
        /\ Cardinality(IpOwners(ip)) \in Nat
        /\ Cardinality(IpOwners(ip)) = 0 <=> IpOwners(ip) = {}
    BY OwnersFinite
  <1>4. /\ ipRefs[ip] = Cardinality(IpOwners(ip))
        /\ ip \in localIps <=> IpOwners(ip) # {}
    BY DEF IpOwnershipExact
  <1>5. ipRefs \in [LocalIpSpace -> Nat]
    BY DEF LocalTypeOK
  <1>6. CASE c \in interfaces[i].cidrs \/ ip # IpOf(c)
    <2>1. IpOwners(ip)' = IpOwners(ip)
      BY <1>2, <1>6 DEF IpOwners
    <2>2. ipRefs'[ip] = ipRefs[ip] /\ (ip \in localIps' <=> ip \in localIps)
      BY <1>5, <1>6 DEF AddressPresent, Increment, Enter
    <2> QED
      BY <2>1, <2>2, <1>4
  <1>7. CASE c \notin interfaces[i].cidrs /\ ip = IpOf(c)
    <2>1. IpOwners(ip)' = IpOwners(ip) \cup {<<i, c>>} /\ <<i, c>> \notin IpOwners(ip)
      BY <1>2, <1>7 DEF IpOwners
    <2>2. Cardinality(IpOwners(ip)') = Cardinality(IpOwners(ip)) + 1
      BY <2>1, <1>3, FS_AddElement
    <2>3. ipRefs'[ip] = ipRefs[ip] + 1 /\ ip \in localIps'
      BY <1>3, <1>4, <1>5, <1>7 DEF AddressPresent, Increment, Enter
    <2> QED
      BY <2>1, <2>2, <2>3, <1>4
  <1> QED
    BY <1>6, <1>7

\* A removed address is discounted once, an unknown one not at all.
LEMMA AddressRemovedIps ==
    ASSUME LocalTypeOK, IpOwnershipExact, NEW i \in Ifaces, NEW c \in Cidrs,
           AddressRemoved(i, c)
    PROVE  IpOwnershipExact'
  <1>1. interfaces[i] \in Entries /\ DOMAIN interfaces = Ifaces /\ IpOf(c) \in LocalIpSpace
    BY DEF LocalTypeOK, LocalIpSpace
  <1>2. /\ interfaces'[i].cidrs = interfaces[i].cidrs \ {c}
        /\ \A j \in Ifaces \ {i} : interfaces'[j] = interfaces[j]
    BY <1>1 DEF AddressRemoved, Entries
  <1> SUFFICES ASSUME NEW ip \in LocalIpSpace
               PROVE  /\ ipRefs'[ip] = Cardinality(IpOwners(ip)')
                      /\ ip \in localIps' <=> IpOwners(ip)' # {}
    BY DEF IpOwnershipExact
  <1>3. /\ IsFiniteSet(IpOwners(ip))
        /\ Cardinality(IpOwners(ip)) \in Nat
        /\ Cardinality(IpOwners(ip)) = 0 <=> IpOwners(ip) = {}
    BY OwnersFinite
  <1>4. /\ ipRefs[ip] = Cardinality(IpOwners(ip))
        /\ ip \in localIps <=> IpOwners(ip) # {}
    BY DEF IpOwnershipExact
  <1>5. ipRefs \in [LocalIpSpace -> Nat]
    BY DEF LocalTypeOK
  <1>6. CASE c \notin interfaces[i].cidrs \/ ip # IpOf(c)
    <2>1. IpOwners(ip)' = IpOwners(ip)
      BY <1>2, <1>6 DEF IpOwners
    <2>2. ipRefs'[ip] = ipRefs[ip] /\ (ip \in localIps' <=> ip \in localIps)
      BY <1>5, <1>6 DEF AddressRemoved, Decrement, Leave
    <2> QED
      BY <2>1, <2>2, <1>4
  <1>7. CASE c \in interfaces[i].cidrs /\ ip = IpOf(c)
    <2>1. IpOwners(ip)' = IpOwners(ip) \ {<<i, c>>} /\ <<i, c>> \in IpOwners(ip)
      BY <1>2, <1>7 DEF IpOwners
    <2>2. /\ Cardinality(IpOwners(ip)') = Cardinality(IpOwners(ip)) - 1
          /\ IsFiniteSet(IpOwners(ip)')
      BY <2>1, <1>3, FS_RemoveElement
    <2>3. Cardinality(IpOwners(ip)') = 0 <=> IpOwners(ip)' = {}
      BY <2>2, FS_EmptySet
    <2>4. ipRefs[ip] > 0
      BY <2>1, <1>3, <1>4
    <2>5. ipRefs'[ip] = ipRefs[ip] - 1 /\ (ip \in localIps' <=> ipRefs[ip] # 1)
      BY <2>1, <2>4, <1>3, <1>4, <1>5, <1>7 DEF AddressRemoved, Decrement, Leave
    <2> QED
      BY <2>2, <2>3, <2>5, <1>3, <1>4
  <1> QED
    BY <1>6, <1>7

\* Counts stay natural numbers and the sets subsets, whichever way a count
\* goes.
LEMMA CountsType ==
    ASSUME NEW S, NEW refs \in [S -> Nat], NEW x, NEW set \in SUBSET S
    PROVE  /\ Increment(refs, x) \in [S -> Nat] /\ Decrement(refs, x) \in [S -> Nat]
           /\ Enter(set, refs, x) \in SUBSET S /\ Leave(set, refs, x) \in SUBSET S
  BY DEF Increment, Decrement, Enter, Leave

\* The tracker keeps its types.
LEMMA LocalTypeStep ==
    ASSUME LocalTypeOK, LocalNext
    PROVE  LocalTypeOK'
  <1> USE DEF LocalTypeOK
  <1>1. ASSUME NEW i \in Ifaces, NEW m \in Macs \cup {NoMac}, LinkPresent(i, m)
        PROVE  LocalTypeOK'
    <2>1. interfaces' \in [Ifaces -> Entries]
      BY <1>1 DEF LinkPresent, Entries
    <2> QED
      BY <2>1, <1>1, CountsType DEF LinkPresent
  <1>2. ASSUME NEW i \in Ifaces, LinkRemoved(i)
        PROVE  LocalTypeOK'
    <2>1. interfaces' \in [Ifaces -> Entries]
      BY <1>2 DEF LinkRemoved, Entries, NoEntry
    <2>2. ASSUME NEW ip \in LocalIpSpace
          PROVE  ipRefs'[ip] \in Nat
      <3> DEFINE mine == {c \in interfaces[i].cidrs : IpOf(c) = ip}
      <3>1. mine \in SUBSET Cidrs
        BY DEF Entries
      <3>2. Cardinality(mine) \in Nat
        BY <3>1, FiniteHost, FS_Subset, FS_CardinalityType
      <3>3. ipRefs'[ip] = IF ipRefs[ip] > Cardinality(mine)
                          THEN ipRefs[ip] - Cardinality(mine) ELSE 0
        BY <1>2 DEF LinkRemoved
      <3> QED
        BY <3>2, <3>3
    <2>3. ipRefs' \in [LocalIpSpace -> Nat]
      BY <2>2, <1>2 DEF LinkRemoved
    <2>4. localIps' \in SUBSET LocalIpSpace
      BY <1>2 DEF LinkRemoved
    <2>5. macRefs' \in [Macs -> Nat] /\ localMacs' \in SUBSET Macs
      BY <1>2, CountsType DEF LinkRemoved
    <2> QED
      BY <2>1, <2>3, <2>4, <2>5
  <1>3. ASSUME NEW i \in Ifaces, NEW c \in Cidrs, AddressPresent(i, c) \/ AddressRemoved(i, c)
        PROVE  LocalTypeOK'
    <2>1. interfaces' \in [Ifaces -> Entries]
      <3>1. interfaces[i].cidrs \cup {c} \in SUBSET Cidrs
            /\ interfaces[i].cidrs \ {c} \in SUBSET Cidrs
        BY DEF Entries
      <3>2. CASE AddressPresent(i, c)
        BY <3>1, <3>2 DEF AddressPresent, Entries
      <3>3. CASE AddressRemoved(i, c)
        BY <3>1, <3>3 DEF AddressRemoved, Entries
      <3> QED
        BY <3>2, <3>3, <1>3
    <2>2. ipRefs' \in [LocalIpSpace -> Nat]
      BY <1>3, CountsType DEF AddressPresent, AddressRemoved
    <2>3. localIps' \in SUBSET LocalIpSpace
      BY <1>3, CountsType DEF AddressPresent, AddressRemoved
    <2>4. UNCHANGED <<macRefs, localMacs>>
      BY <1>3 DEF AddressPresent, AddressRemoved
    <2> QED
      BY <2>1, <2>2, <2>3, <2>4
  <1>4. CASE Clear
    BY <1>4 DEF Clear, NoEntry, Entries
  <1> QED
    BY <1>1, <1>2, <1>3, <1>4 DEF LocalNext

\* Before the first observation, and after clear(), nothing is owned.
LEMMA NothingOwned ==
    /\ LocalInit => LocalTypeOK /\ OwnershipExact
    /\ Clear => LocalTypeOK' /\ OwnershipExact'
  <1>1. LocalInit => LocalTypeOK
    BY DEF LocalInit, LocalTypeOK, NoEntry, Entries
  <1>2. LocalInit => /\ \A m \in Macs : MacOwners(m) = {}
                     /\ \A ip \in LocalIpSpace : IpOwners(ip) = {}
    BY NoMacIsNoMac DEF LocalInit, NoEntry, MacOwners, IpOwners
  <1>3. LocalInit => OwnershipExact
    BY <1>2, FS_EmptySet DEF LocalInit, OwnershipExact, MacOwnershipExact, IpOwnershipExact
  <1>4. Clear => LocalTypeOK'
    BY DEF Clear, LocalTypeOK, NoEntry, Entries
  <1>5. Clear => /\ \A m \in Macs : MacOwners(m)' = {}
                 /\ \A ip \in LocalIpSpace : IpOwners(ip)' = {}
    BY NoMacIsNoMac DEF Clear, NoEntry, MacOwners, IpOwners
  <1>6. Clear => OwnershipExact'
    BY <1>5, FS_EmptySet DEF Clear, OwnershipExact, MacOwnershipExact, IpOwnershipExact
  <1> QED
    BY <1>1, <1>3, <1>4, <1>6

\* Every operation of the tracker keeps the counts exact.
LEMMA OwnershipStep ==
    ASSUME LocalTypeOK, OwnershipExact, LocalNext
    PROVE  OwnershipExact'
  <1> USE DEF OwnershipExact
  <1>1. ASSUME NEW i \in Ifaces, NEW m \in Macs \cup {NoMac}, LinkPresent(i, m)
        PROVE  OwnershipExact'
    <2>1. \A ip \in LocalIpSpace : IpOwners(ip)' = IpOwners(ip)
      <3>1. \A j \in Ifaces : interfaces'[j].cidrs = interfaces[j].cidrs
        BY <1>1 DEF LocalTypeOK, LinkPresent, Entries
      <3> QED
        BY <3>1 DEF IpOwners
    <2>2. IpOwnershipExact'
      BY <2>1, <1>1 DEF IpOwnershipExact, LinkPresent
    <2> QED
      BY <2>2, <1>1, LinkPresentMacs
  <1>2. ASSUME NEW i \in Ifaces, LinkRemoved(i)
        PROVE  OwnershipExact'
    BY <1>2, LinkRemovedMacs, LinkRemovedIps
  <1>3. ASSUME NEW i \in Ifaces, NEW c \in Cidrs, AddressPresent(i, c) \/ AddressRemoved(i, c)
        PROVE  OwnershipExact'
    <2>1. \A m \in Macs : MacOwners(m)' = MacOwners(m)
      <3>1. \A j \in Ifaces : interfaces'[j].mac = interfaces[j].mac
        BY <1>3 DEF LocalTypeOK, AddressPresent, AddressRemoved, Entries
      <3> QED
        BY <3>1 DEF MacOwners
    <2>2. MacOwnershipExact'
      BY <2>1, <1>3 DEF MacOwnershipExact, AddressPresent, AddressRemoved
    <2> QED
      BY <2>2, <1>3, AddressPresentIps, AddressRemovedIps
  <1>4. CASE Clear
    BY <1>4, NothingOwned
  <1> QED
    BY <1>1, <1>2, <1>3, <1>4 DEF LocalNext

-----------------------------------------------------------------------------
(* Candidates as the engine may hold them *)

Statuses == {"Provisional", "Confirmed", "Aged", "Expired", "Removed"}
Classes == {"Unknown", "WeakCandidate", "RemoteEndpoint", "TopologyPeer", "LocalSelf"}

\* What the evidence sets and the fields derived from them owe each other.
Backed(c) ==
    /\ \A ip \in c.ips : \E i \in Ifaces : <<i, ip>> \in c.neigh
    /\ c.bridgePort # NoPort => c.bridgePort \in c.fdb

\* A candidate as the engine may hold it in phase p: its class is the
\* classifier's or that of a tombstone, and the phase limits its status.
Good(c, p) ==
    /\ c \in Candidate /\ Backed(c)
    /\ c.class = Classify(c) \/ (c.class = "LocalSelf" /\ c.status = "Removed")
    /\ p = "Initializing" => c.status \in {"Provisional", "Removed"}
    /\ p = "Live" => /\ c.status # "Provisional"
                     /\ c.status # "Removed" => ~HasNoEvidence(c)

Sound(c, p) == c = NoCandidate \/ Good(c, p)

Candidates ==
    /\ candidates \in [Macs -> Candidate \cup {NoCandidate}]
    /\ \A m \in Macs : Sound(candidates[m], phase)

\* Where the service is, and what that says of the phase.
Lifecycle ==
    /\ phase \in {"Initializing", "Live"}
    /\ life \in {"stopped", "prepared", "starting", "running"}
    /\ life \in {"prepared", "starting"} => phase = "Initializing"
    /\ life = "running" => phase = "Live"
    /\ restarts \in 0 .. MaxRestarts

\* Events, marks and signals.
News ==
    /\ pending \in [Threads -> [changed : SUBSET Macs, removed : SUBSET Macs]]
    /\ marks \in [Macs -> {"none", "changed", "removed"}]
    /\ signals \in SUBSET Macs
    /\ quiet \in SUBSET Macs

\* A candidate of a local MAC is a tombstone; interfaces carry link MACs.
Tombstones ==
    /\ \A i \in Ifaces : interfaces[i].mac \in LinkMacs \cup {NoMac}
    /\ \A m \in localMacs \ Claimed :
          candidates[m] = NoCandidate \/ candidates[m].status = "Removed"

-----------------------------------------------------------------------------
\* What RuleBasedClassifier::classify returns.
LEMMA ClassifyFacts ==
    ASSUME NEW c \in Candidate
    PROVE  /\ Classify(c) \in Classes \ {"LocalSelf"}
           /\ Classify(c) = "TopologyPeer" <=> SeenInLldp(c)
           /\ IsConfirmedWorthy(Classify(c)) <=>
                SeenInLldp(c) \/ c.fdb # {} \/ (c.ips # {} /\ c.neigh # {})
  <1>1. SeenInLldp(c) \in BOOLEAN
    BY DEF SeenInLldp
  <1>2. CASE SeenInLldp(c)
    <2>1. Classify(c) = "TopologyPeer"
      BY <1>2 DEF Classify
    <2> QED
      BY <2>1, <1>2 DEF Classes, IsConfirmedWorthy
  <1>3. CASE ~SeenInLldp(c) /\ (c.fdb # {} \/ (c.ips # {} /\ c.neigh # {}))
    <2>1. Classify(c) = "RemoteEndpoint"
      BY <1>3 DEF Classify
    <2> QED
      BY <2>1, <1>3 DEF Classes, IsConfirmedWorthy
  <1>4. CASE ~SeenInLldp(c) /\ c.fdb = {} /\ c.ips = {} /\ c.neigh # {}
    <2>1. Classify(c) = "WeakCandidate"
      BY <1>4 DEF Classify
    <2> QED
      BY <2>1, <1>4 DEF Classes, IsConfirmedWorthy
  <1>5. CASE ~SeenInLldp(c) /\ c.fdb = {} /\ c.neigh = {}
    <2>1. Classify(c) = "Unknown"
      BY <1>5 DEF Classify
    <2> QED
      BY <2>1, <1>5 DEF Classes, IsConfirmedWorthy
  <1> QED
    BY <1>1, <1>2, <1>3, <1>4, <1>5

\* Class, status and age decide neither evidence nor class.
LEMMA Relabelled ==
    ASSUME NEW c \in Candidate, NEW d \in Candidate,
           d.neigh = c.neigh, d.ips = c.ips, d.fdb = c.fdb, d.bridgePort = c.bridgePort,
           d.lldp = c.lldp
    PROVE  /\ Classify(d) = Classify(c)
           /\ HasNoEvidence(d) <=> HasNoEvidence(c)
           /\ Backed(d) <=> Backed(c)
  BY DEF Classify, HasNoEvidence, Backed, SeenInLldp

\* Reclassifying, and then setting the status, changes just that.
LEMMA ReclassifiedFacts ==
    ASSUME NEW c \in Candidate, NEW s \in Statuses
    PROVE  LET d == [c EXCEPT !.class = Classify(c)]
               e == [d EXCEPT !.status = s] IN
           /\ d \in Candidate /\ d.class = Classify(c) /\ d.status = c.status
           /\ Classify(d) = Classify(c) /\ (HasNoEvidence(d) <=> HasNoEvidence(c))
           /\ Backed(d) <=> Backed(c)
           /\ e \in Candidate /\ e.class = Classify(c) /\ e.status = s
           /\ Classify(e) = Classify(c) /\ (HasNoEvidence(e) <=> HasNoEvidence(c))
           /\ Backed(e) <=> Backed(c)
           /\ e.neigh = c.neigh /\ e.ips = c.ips /\ e.fdb = c.fdb /\ e.bridgePort = c.bridgePort
           /\ e.lldp = c.lldp /\ e.neighborIfaces = c.neighborIfaces
  <1> DEFINE d == [c EXCEPT !.class = Classify(c)]
             e == [d EXCEPT !.status = s]
  <1>1. d \in Candidate
    BY ClassifyFacts DEF Candidate, Classes
  <1>2. /\ d.class = Classify(c) /\ d.status = c.status
        /\ d.neigh = c.neigh /\ d.ips = c.ips /\ d.fdb = c.fdb
        /\ d.bridgePort = c.bridgePort /\ d.lldp = c.lldp
        /\ d.neighborIfaces = c.neighborIfaces
    BY DEF Candidate
  <1>3. e \in Candidate
    BY <1>1 DEF Candidate, Statuses
  <1>4. /\ e.class = d.class /\ e.status = s
        /\ e.neigh = d.neigh /\ e.ips = d.ips /\ e.fdb = d.fdb
        /\ e.bridgePort = d.bridgePort /\ e.lldp = d.lldp
        /\ e.neighborIfaces = d.neighborIfaces
    BY <1>1 DEF Candidate
  <1>5. /\ Classify(d) = Classify(c) /\ (HasNoEvidence(d) <=> HasNoEvidence(c))
        /\ Backed(d) <=> Backed(c)
    BY <1>1, <1>2, Relabelled
  <1>6. /\ Classify(e) = Classify(d) /\ (HasNoEvidence(e) <=> HasNoEvidence(d))
        /\ Backed(e) <=> Backed(d)
    BY <1>1, <1>3, <1>4, Relabelled
  <1> HIDE DEF d, e
  <1> QED
    BY <1>1, <1>2, <1>3, <1>4, <1>5, <1>6 DEF d, e

\* How every evidence handler ends.  Present evidence makes the class
\* confirmed-worthy, so no candidate is left Provisional in the live phase.
LEMMA ConcludedGood ==
    ASSUME NEW c \in Candidate, NEW present \in BOOLEAN, Backed(c),
           phase \in {"Initializing", "Live"},
           phase = "Initializing" => c.status \in {"Provisional", "Removed"},
           phase = "Live" /\ ~present => c.status # "Provisional" \/ HasNoEvidence(c),
           present => SeenInLldp(c) \/ c.fdb # {} \/ (c.ips # {} /\ c.neigh # {})
    PROVE  /\ Sound(Concluded(c, present), phase)
           /\ Concluded(c, present) \in Candidate \cup {NoCandidate}
  <1> DEFINE d == [c EXCEPT !.class = Classify(c)]
  <1>1. CASE HasNoEvidence(c)
    BY <1>1 DEF Concluded, Sound
  <1>2. CASE ~HasNoEvidence(c)
    <2> DEFINE s == IF present THEN Revived(d.status) ELSE d.status
               t == IF phase = "Initializing"
                    THEN IF s = "Removed" THEN s ELSE "Provisional"
                    ELSE IF s = "Provisional" /\ IsConfirmedWorthy(d.class)
                         THEN "Confirmed" ELSE s
               e == [d EXCEPT !.status = t]
    <2>1. c.status \in Statuses /\ d.status = c.status /\ d.class = Classify(c)
      BY ReclassifiedFacts DEF Candidate, Statuses
    <2>2. s \in Statuses /\ t \in Statuses
      BY <2>1 DEF Statuses, Revived
    <2>3. Concluded(c, present) = e
      BY <1>2 DEF Concluded, Reclassified, ReconcileStatus
    <2>4. phase = "Initializing" => t \in {"Provisional", "Removed"}
      BY <2>1 DEF Revived
    <2>5. present => IsConfirmedWorthy(Classify(c))
      BY ClassifyFacts
    <2>6. phase = "Live" => t # "Provisional"
      BY <1>2, <2>1, <2>5 DEF Revived, Statuses
    <2>7. /\ e \in Candidate /\ e.class = Classify(c) /\ e.status = t
          /\ Classify(e) = Classify(c) /\ (HasNoEvidence(e) <=> HasNoEvidence(c))
          /\ Backed(e) <=> Backed(c)
      BY <2>2, ReclassifiedFacts
    <2> HIDE DEF d, e, s, t
    <2> QED
      BY <1>2, <2>3, <2>4, <2>6, <2>7 DEF Sound, Good
  <1> QED
    BY <1>1, <1>2

\* The entry a handler works on.
LEMMA EntryGood ==
    ASSUME Candidates, phase \in {"Initializing", "Live"}, NEW m \in Macs
    PROVE  /\ Entry(m) \in Candidate /\ Backed(Entry(m))
           /\ phase = "Initializing" => Entry(m).status \in {"Provisional", "Removed"}
           /\ phase = "Live" => Entry(m).status # "Provisional" \/ Entry(m) = Fresh
  <1>1. CASE candidates[m] = NoCandidate
    <2>1. Entry(m) = Fresh
      BY <1>1 DEF Entry
    <2>2. Fresh \in Candidate
      BY DEF Fresh, Candidate
    <2>3. Backed(Fresh) /\ Fresh.status = "Provisional"
      BY DEF Fresh, Backed
    <2> QED
      BY <2>1, <2>2, <2>3
  <1>2. CASE candidates[m] # NoCandidate
    BY <1>2 DEF Candidates, Sound, Good, Entry
  <1> QED
    BY <1>1, <1>2

\* Evidence that comes and goes.
LEMMA UpdateGood ==
    ASSUME Candidates, phase \in {"Initializing", "Live"}, NEW m \in Macs
    PROVE  /\ \A i \in Ifaces, ip \in Ips :
                LET c == Concluded([Entry(m) EXCEPT !.neigh = @ \cup {<<i, ip>>},
                               !.ips = @ \cup {ip}, !.neighborIfaces = @ \cup {i},
                               !.idle = 0], TRUE)
                    d == Concluded([Entry(m) EXCEPT !.neigh = @ \ {<<i, ip>>},
                               !.ips = @ \ {ip}, !.neighborIfaces = @ \ {i}], FALSE)
                IN  /\ Sound(c, phase) /\ c \in Candidate \cup {NoCandidate}
                    /\ Sound(d, phase) /\ d \in Candidate \cup {NoCandidate}
           /\ \A p \in Ports :
                LET c == Concluded([Entry(m) EXCEPT !.fdb = @ \cup {p}, !.bridgePort = p,
                                            !.idle = 0], TRUE)
                    d == Concluded([Entry(m) EXCEPT !.fdb = @ \ {p},
                               !.bridgePort = IF @ = p THEN NoPort ELSE @], FALSE)
                IN  /\ Sound(c, phase) /\ c \in Candidate \cup {NoCandidate}
                    /\ Sound(d, phase) /\ d \in Candidate \cup {NoCandidate}
           /\ \A i \in Ifaces, id \in LldpIds :
                LET c == Concluded([Entry(m) EXCEPT !.lldp = id, !.neighborIfaces = @ \cup {i},
                                         !.idle = 0], TRUE)
                IN  Sound(c, phase) /\ c \in Candidate \cup {NoCandidate}
           /\ \A i \in Ifaces :
                LET d == Concluded([Entry(m) EXCEPT !.lldp = NoLldp,
                                         !.neighborIfaces = @ \ {i}], FALSE)
                IN  Sound(d, phase) /\ d \in Candidate \cup {NoCandidate}
  <1> DEFINE o == Entry(m)
  <1>1. /\ o \in Candidate /\ Backed(o)
        /\ phase = "Initializing" => o.status \in {"Provisional", "Removed"}
        /\ phase = "Live" => o.status # "Provisional" \/ o = Fresh
    BY EntryGood
  <1>2. Fresh.neigh = {} /\ Fresh.ips = {} /\ Fresh.fdb = {} /\ Fresh.bridgePort = NoPort
        /\ Fresh.lldp = NoLldp
    BY DEF Fresh
  <1> HIDE DEF o
  <1>3. ASSUME NEW i \in Ifaces, NEW ip \in Ips
        PROVE  LET c == Concluded([o EXCEPT !.neigh = @ \cup {<<i, ip>>},
                               !.ips = @ \cup {ip}, !.neighborIfaces = @ \cup {i},
                               !.idle = 0], TRUE)
               IN  Sound(c, phase) /\ c \in Candidate \cup {NoCandidate}
    <2> DEFINE e == [o EXCEPT !.neigh = @ \cup {<<i, ip>>},
                              !.ips = @ \cup {ip}, !.neighborIfaces = @ \cup {i}, !.idle = 0]
    <2>0. o.neigh \cup {<<i, ip>>} \in SUBSET (Ifaces \X Ips)
          /\ o.ips \cup {ip} \in SUBSET Ips /\ 0 \in 0 .. 2
          /\ o.neighborIfaces \cup {i} \in SUBSET Ifaces
      BY <1>1 DEF Candidate
    <2>1. e \in Candidate
      BY <1>1, <2>0 DEF Candidate
    <2>2. /\ e.neigh = o.neigh \cup {<<i, ip>>} /\ e.ips = o.ips \cup {ip}
          /\ e.fdb = o.fdb /\ e.bridgePort = o.bridgePort /\ e.status = o.status
      BY <1>1 DEF Candidate
    <2> HIDE DEF e
    <2>3. Backed(e)
      BY <1>1, <2>2 DEF Backed
    <2>4. SeenInLldp(e) \/ e.fdb # {} \/ (e.ips # {} /\ e.neigh # {})
      BY <2>2
    <2> QED
      BY <1>1, <2>1, <2>2, <2>3, <2>4, ConcludedGood DEF e
  <1>4. ASSUME NEW i \in Ifaces, NEW ip \in Ips
        PROVE  LET d == Concluded([o EXCEPT !.neigh = @ \ {<<i, ip>>},
                               !.ips = @ \ {ip}, !.neighborIfaces = @ \ {i}], FALSE)
               IN  Sound(d, phase) /\ d \in Candidate \cup {NoCandidate}
    <2> DEFINE e == [o EXCEPT !.neigh = @ \ {<<i, ip>>},
                              !.ips = @ \ {ip}, !.neighborIfaces = @ \ {i}]
    <2>1. e \in Candidate
      BY <1>1 DEF Candidate
    <2>2. /\ e.neigh = o.neigh \ {<<i, ip>>} /\ e.ips = o.ips \ {ip}
          /\ e.fdb = o.fdb /\ e.bridgePort = o.bridgePort /\ e.status = o.status
          /\ e.lldp = o.lldp
      BY <1>1 DEF Candidate
    <2> HIDE DEF e
    <2>3. Backed(e)
      BY <1>1, <2>2 DEF Backed
    <2>4. o = Fresh => HasNoEvidence(e)
      BY <1>2, <2>2 DEF HasNoEvidence, SeenInLldp
    <2> QED
      BY <1>1, <2>1, <2>2, <2>3, <2>4, ConcludedGood DEF e
  <1>5. ASSUME NEW p \in Ports
        PROVE  LET c == Concluded([o EXCEPT !.fdb = @ \cup {p}, !.bridgePort = p,
                                            !.idle = 0], TRUE)
               IN  Sound(c, phase) /\ c \in Candidate \cup {NoCandidate}
    <2> DEFINE e == [o EXCEPT !.fdb = @ \cup {p}, !.bridgePort = p, !.idle = 0]
    <2>0. o.fdb \cup {p} \in SUBSET Ports /\ p \in Ports \cup {NoPort} /\ 0 \in 0 .. 2
      BY <1>1 DEF Candidate
    <2>1. e \in Candidate
      BY <1>1, <2>0 DEF Candidate
    <2>2. /\ e.neigh = o.neigh /\ e.ips = o.ips
          /\ e.fdb = o.fdb \cup {p} /\ e.bridgePort = p /\ e.status = o.status
      BY <1>1 DEF Candidate
    <2> HIDE DEF e
    <2>3. Backed(e)
      BY <1>1, <2>2 DEF Backed
    <2>4. SeenInLldp(e) \/ e.fdb # {} \/ (e.ips # {} /\ e.neigh # {})
      BY <2>2
    <2> QED
      BY <1>1, <2>1, <2>2, <2>3, <2>4, ConcludedGood DEF e
  <1>6. ASSUME NEW p \in Ports
        PROVE  LET d == Concluded([o EXCEPT !.fdb = @ \ {p},
                               !.bridgePort = IF @ = p THEN NoPort ELSE @], FALSE)
               IN  Sound(d, phase) /\ d \in Candidate \cup {NoCandidate}
    <2> DEFINE e == [o EXCEPT !.fdb = @ \ {p}, !.bridgePort = IF @ = p THEN NoPort ELSE @]
    <2>1. e \in Candidate
      BY <1>1 DEF Candidate
    <2>2. /\ e.neigh = o.neigh /\ e.ips = o.ips
          /\ e.fdb = o.fdb \ {p} /\ e.status = o.status
          /\ e.bridgePort = IF o.bridgePort = p THEN NoPort ELSE o.bridgePort
          /\ e.lldp = o.lldp
      BY <1>1 DEF Candidate
    <2> HIDE DEF e
    <2>3. Backed(e)
      BY <1>1, <2>2 DEF Backed
    <2>4. o = Fresh => HasNoEvidence(e)
      BY <1>2, <2>2 DEF HasNoEvidence, SeenInLldp
    <2> QED
      BY <1>1, <2>1, <2>2, <2>3, <2>4, ConcludedGood DEF e
  <1>7. ASSUME NEW i \in Ifaces, NEW id \in LldpIds
        PROVE  LET c == Concluded([o EXCEPT !.lldp = id, !.neighborIfaces = @ \cup {i},
                                         !.idle = 0], TRUE)
               IN  Sound(c, phase) /\ c \in Candidate \cup {NoCandidate}
    <2> DEFINE e == [o EXCEPT !.lldp = id, !.neighborIfaces = @ \cup {i}, !.idle = 0]
    <2>0. 0 \in 0 .. 2 /\ o.neighborIfaces \cup {i} \in SUBSET Ifaces
      BY <1>1 DEF Candidate
    <2>1. e \in Candidate
      BY <1>1, <2>0 DEF Candidate
    <2>2. /\ e.neigh = o.neigh /\ e.ips = o.ips /\ e.fdb = o.fdb
          /\ e.bridgePort = o.bridgePort /\ e.status = o.status /\ e.lldp = id
      BY <1>1 DEF Candidate
    <2> HIDE DEF e
    <2>3. Backed(e)
      BY <1>1, <2>2 DEF Backed
    <2>4. SeenInLldp(e)
      BY <2>2, EngineDistinct DEF SeenInLldp
    <2> QED
      BY <1>1, <2>1, <2>2, <2>3, <2>4, ConcludedGood DEF e
  <1>8. ASSUME NEW i \in Ifaces
        PROVE  LET d == Concluded([o EXCEPT !.lldp = NoLldp, !.neighborIfaces = @ \ {i}], FALSE)
               IN  Sound(d, phase) /\ d \in Candidate \cup {NoCandidate}
    <2> DEFINE e == [o EXCEPT !.lldp = NoLldp, !.neighborIfaces = @ \ {i}]
    <2>1. e \in Candidate
      BY <1>1 DEF Candidate
    <2>2. /\ e.neigh = o.neigh /\ e.ips = o.ips /\ e.fdb = o.fdb
          /\ e.bridgePort = o.bridgePort /\ e.status = o.status /\ e.lldp = NoLldp
      BY <1>1 DEF Candidate
    <2> HIDE DEF e
    <2>3. Backed(e)
      BY <1>1, <2>2 DEF Backed
    <2>4. o = Fresh => HasNoEvidence(e)
      BY <1>2, <2>2 DEF HasNoEvidence, SeenInLldp
    <2> QED
      BY <1>1, <2>1, <2>2, <2>3, <2>4, ConcludedGood DEF e
  <1> QED
    BY <1>3, <1>4, <1>5, <1>6, <1>7, <1>8 DEF o

-----------------------------------------------------------------------------
(* What the other handlers make of one candidate *)

\* A query of the two returns the same, but for what LLDP says.
SameButForLldp(c, d) ==
    /\ d.neigh = c.neigh /\ d.ips = c.ips /\ d.fdb = c.fdb /\ d.bridgePort = c.bridgePort
    /\ d.class = c.class /\ d.status = c.status

\* A query of the two returns the same.
Alike(c, d) ==
    /\ IsPublishable(d) <=> IsPublishable(c)
    /\ IsPublishable(c) => /\ SameButForLldp(c, d)
                           /\ d.lldp = c.lldp /\ d.neighborIfaces = c.neighborIfaces

\* A tombstone is a candidate the engine may hold, and hidden.
LEMMA TombstoneGood ==
    ASSUME NEW p \in {"Initializing", "Live"}, NEW c, Good(c, p)
    PROVE  /\ Good(Tombstone(c), p) /\ Tombstone(c).status = "Removed"
           /\ ~IsPublishable(Tombstone(c))
  <1> DEFINE d == [c EXCEPT !.class = "LocalSelf", !.status = "Removed"]
  <1>1. c \in Candidate /\ Backed(c)
    BY DEF Good
  <1>2. d \in Candidate
    BY <1>1 DEF Candidate
  <1>3. /\ d.neigh = c.neigh /\ d.ips = c.ips /\ d.fdb = c.fdb /\ d.bridgePort = c.bridgePort
        /\ d.lldp = c.lldp /\ d.class = "LocalSelf" /\ d.status = "Removed"
    BY <1>1 DEF Candidate
  <1>4. Backed(d)
    BY <1>1, <1>2, <1>3, Relabelled
  <1>5. Tombstone(c) = d
    BY DEF Tombstone
  <1> HIDE DEF d
  <1> QED
    BY <1>2, <1>3, <1>4, <1>5 DEF Good, IsPublishable

\* What prepareForRestart leaves is Provisional, without evidence, and hidden.
LEMMA RestartedGood ==
    ASSUME NEW p \in {"Initializing", "Live"}, NEW c, Sound(c, p)
    PROVE  /\ Sound(Restarted(c), "Initializing")
           /\ Restarted(c) \in Candidate \cup {NoCandidate}
           /\ ~IsPublishable(Restarted(c))
  <1>1. CASE c = NoCandidate
    BY <1>1 DEF Restarted, Sound, IsPublishable
  <1>2. CASE c # NoCandidate
    <2> DEFINE d == [Fresh EXCEPT !.idle = c.idle]
    <2>1. c.idle \in 0 .. 2
      BY <1>2 DEF Sound, Good, Candidate
    <2>2. d \in Candidate
      BY <2>1 DEF Fresh, Candidate
    <2>3. /\ d.neigh = {} /\ d.ips = {} /\ d.fdb = {} /\ d.bridgePort = NoPort
          /\ d.lldp = NoLldp /\ d.class = "Unknown" /\ d.status = "Provisional"
      BY DEF Fresh
    <2>4. Restarted(c) = d
      BY <1>2 DEF Restarted
    <2> HIDE DEF d
    <2>5. Classify(d) = "Unknown"
      BY <2>3 DEF Classify, SeenInLldp
    <2>6. Backed(d)
      BY <2>3 DEF Backed
    <2> QED
      BY <2>2, <2>3, <2>4, <2>5, <2>6 DEF Sound, Good, IsPublishable
  <1> QED
    BY <1>1, <1>2

\* markLive confirms or erases what is Provisional; tombstones stay.
LEMMA PromotedGood ==
    ASSUME NEW c, Sound(c, "Initializing")
    PROVE  /\ Sound(Promoted(c), "Live")
           /\ Promoted(c) \in Candidate \cup {NoCandidate}
           /\ c # NoCandidate /\ c.status = "Removed" => Promoted(c) = c
  <1>1. CASE c = NoCandidate
    BY <1>1 DEF Promoted, Sound
  <1>2. CASE c # NoCandidate /\ c.status = "Removed"
    BY <1>2 DEF Promoted, Sound, Good
  <1>3. CASE c # NoCandidate /\ c.status # "Removed"
    <2>1. c \in Candidate /\ Backed(c) /\ c.status = "Provisional"
      BY <1>3 DEF Sound, Good
    <2> DEFINE d == [c EXCEPT !.class = Classify(c)]
               e == [d EXCEPT !.status = "Confirmed"]
    <2>2. "Confirmed" \in Statuses
      BY DEF Statuses
    <2>3. /\ e \in Candidate /\ e.class = Classify(c) /\ e.status = "Confirmed"
          /\ Classify(e) = Classify(c) /\ (HasNoEvidence(e) <=> HasNoEvidence(c))
          /\ Backed(e) <=> Backed(c)
      BY <2>1, <2>2, ReclassifiedFacts
    <2>4. CASE IsConfirmedWorthy(Classify(c))
      <3>1. ~HasNoEvidence(c)
        BY <2>1, <2>4, ClassifyFacts DEF HasNoEvidence
      <3>2. Promoted(c) = e
        BY <1>3, <2>1, <2>4 DEF Promoted, Reclassified
      <3> HIDE DEF d, e
      <3> QED
        BY <1>3, <2>1, <2>3, <3>1, <3>2 DEF Sound, Good
    <2>5. CASE ~IsConfirmedWorthy(Classify(c))
      BY <1>3, <2>1, <2>5 DEF Promoted, Sound
    <2> QED
      BY <2>4, <2>5
  <1> QED
    BY <1>1, <1>2, <1>3

\* Aging changes the status only, and leaves tombstones alone.
LEMMA AgedGood ==
    ASSUME NEW c, Sound(c, "Live")
    PROVE  /\ Sound(Aged(c), "Live")
           /\ Aged(c) \in Candidate \cup {NoCandidate}
           /\ c # NoCandidate /\ c.status = "Removed" => Aged(c) = c
  <1>1. CASE c = NoCandidate \/ c.status \in {"Removed", "Provisional"} \/ c.idle = 0
    BY <1>1 DEF Aged, Sound, Good
  <1>2. CASE ~(c = NoCandidate \/ c.status \in {"Removed", "Provisional"} \/ c.idle = 0)
    <2> DEFINE s == IF c.idle = 2 THEN "Expired" ELSE "Aged"
               d == [c EXCEPT !.status = s]
    <2>1. Good(c, "Live")
      BY <1>2 DEF Sound
    <2>2. c \in Candidate
      BY <2>1 DEF Good
    <2>3. d \in Candidate
      BY <2>2 DEF Candidate
    <2>4. /\ d.neigh = c.neigh /\ d.ips = c.ips /\ d.fdb = c.fdb /\ d.bridgePort = c.bridgePort
          /\ d.lldp = c.lldp /\ d.class = c.class /\ d.status = s
      BY <2>2 DEF Candidate
    <2>5. Aged(c) = d
      BY <1>2 DEF Aged
    <2>6. s \in {"Expired", "Aged"}
      OBVIOUS
    <2> HIDE DEF d, s
    <2>7. /\ Classify(d) = Classify(c) /\ (HasNoEvidence(d) <=> HasNoEvidence(c))
          /\ Backed(d) <=> Backed(c)
      BY <2>2, <2>3, <2>4, Relabelled
    <2> QED
      BY <1>2, <2>1, <2>3, <2>4, <2>5, <2>6, <2>7 DEF Sound, Good
  <1> QED
    BY <1>1, <1>2

\* Time alone changes nothing a client can see.
LEMMA ElapsedGood ==
    ASSUME NEW p \in {"Initializing", "Live"}, NEW c, Good(c, p), c.idle < 2
    PROVE  LET d == [c EXCEPT !.idle = c.idle + 1] IN
           Good(d, p) /\ Alike(c, d) /\ d.status = c.status
  <1> DEFINE d == [c EXCEPT !.idle = c.idle + 1]
  <1>1. c \in Candidate
    BY DEF Good
  <1>2. c.idle + 1 \in 0 .. 2
    BY <1>1 DEF Candidate
  <1>3. d \in Candidate
    BY <1>1, <1>2 DEF Candidate
  <1>4. /\ d.neigh = c.neigh /\ d.ips = c.ips /\ d.fdb = c.fdb /\ d.bridgePort = c.bridgePort
        /\ d.lldp = c.lldp /\ d.class = c.class /\ d.status = c.status
        /\ d.neighborIfaces = c.neighborIfaces
    BY <1>1 DEF Candidate
  <1> HIDE DEF d
  <1>7. /\ Classify(d) = Classify(c) /\ (HasNoEvidence(d) <=> HasNoEvidence(c))
        /\ Backed(d) <=> Backed(c)
    BY <1>1, <1>3, <1>4, Relabelled
  <1> QED
    BY <1>1, <1>3, <1>4, <1>7, NoCandidateIsNone DEF Good, Alike, SameButForLldp, IsPublishable, d

\* A keepalive of a candidate that is no tombstone; when neither class nor
\* status moves, LLDP saw the candidate before and nothing moves that it does
\* not say.
LEMMA KeepaliveGood ==
    ASSUME NEW p \in {"Initializing", "Live"}, NEW c, Good(c, p), c.status # "Removed",
           NEW i \in Ifaces, NEW id \in LldpIds
    PROVE  LET d == Reasserted(c, i, id) IN
           /\ Good(d, p) /\ d.lldp = id
           /\ ~Speaks(c, d) => /\ IsPublishable(d) <=> IsPublishable(c)
                               /\ SameButForLldp(c, d) /\ c.lldp \in LldpIds
  <1> DEFINE k == [c EXCEPT !.lldp = id, !.neighborIfaces = c.neighborIfaces \cup {i}, !.idle = 0]
             r == [k EXCEPT !.class = Classify(k)]
             s == IF r.status = "Removed" THEN r.status ELSE Revived(r.status)
             d == [r EXCEPT !.status = s]
  <1>1. c \in Candidate /\ Backed(c) /\ c.class = Classify(c)
    BY DEF Good
  <1>2. k \in Candidate
    <2>1. 0 \in 0 .. 2 /\ c.neighborIfaces \cup {i} \in SUBSET Ifaces
      BY <1>1 DEF Candidate
    <2> QED
      BY <1>1, <2>1 DEF Candidate
  <1>3. /\ k.neigh = c.neigh /\ k.ips = c.ips /\ k.fdb = c.fdb /\ k.bridgePort = c.bridgePort
        /\ k.lldp = id /\ k.status = c.status
    BY <1>1 DEF Candidate
  <1>4. Backed(k) /\ SeenInLldp(k) /\ ~HasNoEvidence(k)
    BY <1>1, <1>3, EngineDistinct DEF Backed, SeenInLldp, HasNoEvidence
  <1>5. c.status \in Statuses
    BY <1>1 DEF Candidate, Statuses
  <1>12. Reasserted(c, i, id) = d
    BY DEF Reasserted, Reclassified
  <1> HIDE DEF k
  <1>6. r.status = c.status
    BY <1>2, <1>3, <1>5, ReclassifiedFacts
  <1>7. s = Revived(c.status) /\ s \in Statuses
    BY <1>5, <1>6 DEF Revived, Statuses
  <1> HIDE DEF s
  <1>8. /\ d \in Candidate /\ d.class = Classify(k) /\ d.status = s
        /\ Classify(d) = Classify(k) /\ (HasNoEvidence(d) <=> HasNoEvidence(k))
        /\ Backed(d) <=> Backed(k)
        /\ d.neigh = k.neigh /\ d.ips = k.ips /\ d.fdb = k.fdb /\ d.bridgePort = k.bridgePort
        /\ d.lldp = k.lldp
    BY <1>2, <1>7, ReclassifiedFacts
  <1>9. /\ p = "Initializing" => s \in {"Provisional", "Removed"}
        /\ p = "Live" => s # "Provisional"
    BY <1>5, <1>7 DEF Good, Revived, Statuses
  <1> HIDE DEF r, d
  <1>10. Good(d, p)
    BY <1>4, <1>8, <1>9 DEF Good
  <1>11. ASSUME d.status = c.status, d.class = c.class
         PROVE  /\ IsPublishable(d) <=> IsPublishable(c)
                /\ SameButForLldp(c, d) /\ c.lldp \in LldpIds
    <2>1. Classify(k) = "TopologyPeer"
      BY <1>2, <1>4, ClassifyFacts
    <2>2. SeenInLldp(c)
      BY <1>1, <1>8, <1>11, <2>1, ClassifyFacts
    <2>3. c.lldp \in LldpIds
      BY <1>1, <2>2 DEF SeenInLldp, Candidate
    <2>4. SameButForLldp(c, d)
      BY <1>3, <1>8, <1>11 DEF SameButForLldp
    <2>5. IsPublishable(d) <=> IsPublishable(c)
      BY <1>1, <1>8, <1>11, NoCandidateIsNone DEF IsPublishable
    <2> QED
      BY <2>3, <2>4, <2>5
  <1> QED
    BY <1>3, <1>8, <1>10, <1>11, <1>12 DEF Speaks

-----------------------------------------------------------------------------
(* The candidates *)

\* An evidence handler replaces one entry by a sound one.
LEMMA UpdateKeeps ==
    ASSUME Candidates, NEW m \in Macs, NEW c \in Candidate \cup {NoCandidate},
           Sound(c, phase), Update(m, c)
    PROVE  Candidates'
  BY DEF Candidates, Update

\* Reconciling a MAC that became local leaves sound candidates.
LEMMA ReconcileKeeps ==
    ASSUME Candidates, phase \in {"Initializing", "Live"}, UNCHANGED phase,
           NEW mac \in Macs \cup {NoMac}, ReconcileLocalMac(mac)
    PROVE  Candidates'
  <1>1. CASE candidates' = candidates
    BY <1>1 DEF Candidates
  <1>2. CASE /\ mac \in Macs /\ candidates[mac] # NoCandidate
             /\ candidates' = [candidates EXCEPT ![mac] = Tombstone(candidates[mac])]
    <2>1. Good(candidates[mac], phase)
      BY <1>2 DEF Candidates, Sound
    <2>2. Good(Tombstone(candidates[mac]), phase)
      BY <2>1, TombstoneGood
    <2> QED
      BY <1>2, <2>2 DEF Candidates, Sound, Good
  <1> QED
    BY <1>1, <1>2 DEF ReconcileLocalMac

\* Every step leaves sound candidates.
LEMMA CandidatesStep == Lifecycle /\ LocalTypeOK /\ Candidates /\ [Next]_vars => Candidates'
  <1> SUFFICES ASSUME Lifecycle, LocalTypeOK, Candidates, [Next]_vars
               PROVE  Candidates'
    OBVIOUS
  <1>0. phase \in {"Initializing", "Live"}
    BY DEF Lifecycle
  <1>1. ASSUME NEW m \in Macs, ObserveRemote(m)
        PROVE  Candidates'
    <2>1. ASSUME NEW i \in Ifaces, NEW ip \in Ips,
                 OnNeighborPresent(m, i, ip) \/ OnNeighborRemoved(m, i, ip)
          PROVE  Candidates'
      <3>1. CASE OnNeighborPresent(m, i, ip)
        BY <3>1, <1>0, UpdateGood, UpdateKeeps DEF OnNeighborPresent
      <3>2. CASE OnNeighborRemoved(m, i, ip)
        BY <3>2, <1>0, UpdateGood, UpdateKeeps DEF OnNeighborRemoved
      <3> QED
        BY <2>1, <3>1, <3>2
    <2>2. ASSUME NEW p \in Ports, OnFdbPresent(m, p) \/ OnFdbRemoved(m, p)
          PROVE  Candidates'
      <3>1. CASE OnFdbPresent(m, p)
        BY <3>1, <1>0, UpdateGood, UpdateKeeps DEF OnFdbPresent
      <3>2. CASE OnFdbRemoved(m, p)
        BY <3>2, <1>0, UpdateGood, UpdateKeeps DEF OnFdbRemoved
      <3> QED
        BY <2>2, <3>1, <3>2
    <2>3. ASSUME NEW i \in Ifaces, NEW id \in LldpIds, OnLldpPresent(m, i, id)
          PROVE  Candidates'
      BY <2>3, <1>0, UpdateGood, UpdateKeeps DEF OnLldpPresent
    <2>4. ASSUME NEW i \in Ifaces, OnLldpRemoved(m, i)
          PROVE  Candidates'
      BY <2>4, <1>0, UpdateGood, UpdateKeeps DEF OnLldpRemoved
    <2>5. ASSUME NEW i \in Ifaces, NEW id \in LldpIds, OnLldpKeepalive(m, i, id)
          PROVE  Candidates'
      <3> DEFINE d == Reasserted(candidates[m], i, id)
      <3>1. Good(candidates[m], phase) /\ candidates[m].status # "Removed"
        BY <2>5 DEF OnLldpKeepalive, Candidates, Sound
      <3>2. Good(d, phase)
        BY <1>0, <3>1, KeepaliveGood
      <3>3. candidates' = [candidates EXCEPT ![m] = d] /\ phase' = phase
        BY <2>5 DEF OnLldpKeepalive
      <3> HIDE DEF d
      <3> QED
        BY <3>2, <3>3 DEF Candidates, Sound, Good
    <2> QED
      BY <1>1, <2>1, <2>2, <2>3, <2>4, <2>5 DEF ObserveRemote
  <1>2. ASSUME NEW m \in Macs, Elapse(m)
        PROVE  Candidates'
    <2> DEFINE d == [candidates[m] EXCEPT !.idle = candidates[m].idle + 1]
    <2>1. Good(candidates[m], phase) /\ candidates[m].idle < 2
      BY <1>2 DEF Elapse, Candidates, Sound
    <2>2. Good(d, phase)
      BY <1>0, <2>1, ElapsedGood
    <2>3. candidates' = [candidates EXCEPT ![m] = d] /\ phase' = phase
      BY <1>2 DEF Elapse
    <2> HIDE DEF d
    <2> QED
      BY <2>2, <2>3 DEF Candidates, Sound, Good
  <1>3. ASSUME NEW i \in Ifaces, ObserveLocal(i)
        PROVE  Candidates'
    <2>1. ASSUME NEW mac \in LinkMacs \cup {NoMac}, OnLinkPresent(i, mac)
          PROVE  Candidates'
      <3>1. mac \in Macs \cup {NoMac} /\ phase' = phase
        BY <2>1, MacRoles DEF OnLinkPresent
      <3>2. CASE ReconcileLocalMac(mac)
        BY <1>0, <3>1, <3>2, ReconcileKeeps
      <3>3. CASE UNCHANGED candidates
        BY <3>1, <3>3 DEF Candidates
      <3> QED
        BY <2>1, <3>2, <3>3 DEF OnLinkPresent
    <2>2. ASSUME NEW mac \in LinkMacs \cup {NoMac}, OnLinkRemoved(i, mac)
          PROVE  Candidates'
      <3>1. mac \in Macs \cup {NoMac} /\ phase' = phase
        BY <2>2, MacRoles DEF OnLinkRemoved
      <3>2. CASE ReconcileLocalMac(mac)
        BY <1>0, <3>1, <3>2, ReconcileKeeps
      <3>3. CASE UNCHANGED candidates
        BY <3>1, <3>3 DEF Candidates
      <3> QED
        BY <2>2, <3>2, <3>3 DEF OnLinkRemoved
    <2>3. ASSUME NEW c \in Cidrs, OnAddressPresent(i, c) \/ OnAddressRemoved(i, c)
          PROVE  Candidates'
      <3>1. CASE OnAddressPresent(i, c)
        <4>1. phase' = phase /\ DOMAIN candidates' = Macs
          BY <3>1 DEF OnAddressPresent
        <4>2. ASSUME NEW m \in Macs
              PROVE  Sound(candidates'[m], phase) /\ candidates'[m] \in Candidate \cup {NoCandidate}
          <5>1. CASE candidates'[m] = candidates[m]
            BY <5>1 DEF Candidates
          <5>2. CASE candidates[m] # NoCandidate /\ candidates'[m] = Tombstone(candidates[m])
            <6>1. Good(candidates[m], phase)
              BY <5>2 DEF Candidates, Sound
            <6> QED
              BY <1>0, <5>2, <6>1, TombstoneGood DEF Sound, Good
          <5> QED
            BY <3>1, <5>1, <5>2 DEF OnAddressPresent
        <4>3. candidates' \in [Macs -> Candidate \cup {NoCandidate}]
          <5>1. candidates' = [m \in Macs |-> candidates'[m]]
            BY <3>1 DEF OnAddressPresent
          <5> QED
            BY <4>2, <5>1
        <4> QED
          BY <4>1, <4>2, <4>3 DEF Candidates
      <3>2. CASE OnAddressRemoved(i, c)
        BY <3>2 DEF OnAddressRemoved, Candidates
      <3> QED
        BY <2>3, <3>1, <3>2
    <2> QED
      BY <1>3, <2>1, <2>2, <2>3 DEF ObserveLocal
  <1>4. CASE PrepareForRestart
    <2>1. \A m \in Macs : /\ Sound(Restarted(candidates[m]), "Initializing")
                          /\ Restarted(candidates[m]) \in Candidate \cup {NoCandidate}
      BY <1>0, RestartedGood DEF Candidates
    <2>2. candidates' = [m \in Macs |-> Restarted(candidates[m])] /\ phase' = "Initializing"
      BY <1>4 DEF PrepareForRestart
    <2> QED
      BY <2>1, <2>2 DEF Candidates
  <1>5. CASE MarkLive
    <2>0. phase = "Initializing"
      BY <1>5 DEF MarkLive, Lifecycle
    <2>1. \A m \in Macs : /\ Sound(Promoted(candidates[m]), "Live")
                          /\ Promoted(candidates[m]) \in Candidate \cup {NoCandidate}
      BY <2>0, PromotedGood DEF Candidates
    <2>2. candidates' = [m \in Macs |-> Promoted(candidates[m])] /\ phase' = "Live"
      BY <1>5 DEF MarkLive
    <2> QED
      BY <2>1, <2>2 DEF Candidates
  <1>6. CASE Age
    <2>0. phase = "Live"
      BY <1>6 DEF Age, Lifecycle
    <2>1. \A m \in Macs : /\ Sound(Aged(candidates[m]), "Live")
                          /\ Aged(candidates[m]) \in Candidate \cup {NoCandidate}
      BY <2>0, AgedGood DEF Candidates
    <2>2. candidates' = [m \in Macs |-> Aged(candidates[m])] /\ phase' = phase
      BY <1>6 DEF Age
    <2> QED
      BY <2>0, <2>1, <2>2 DEF Candidates
  <1>7. CASE ConsumerStarts \/ Stop
    BY <1>7 DEF ConsumerStarts, Stop, Candidates
  <1>8. CASE Delivery
    BY <1>8 DEF Delivery, DeliverChanged, DeliverRemoved, Publish, ClientQueries, Candidates
  <1>9. CASE UNCHANGED vars
    BY <1>9 DEF vars, engineVars, Candidates
  <1> QED
    BY <1>1, <1>2, <1>3, <1>4, <1>5, <1>6, <1>7, <1>8, <1>9 DEF Next, Service

-----------------------------------------------------------------------------
(* The other parts *)

\* The tracker changes by its own operations only.
LEMMA LocalStep == [Next]_vars => LocalNext \/ UNCHANGED localVars
  <1> SUFFICES ASSUME [Next]_vars
               PROVE  LocalNext \/ UNCHANGED localVars
    OBVIOUS
  <1>1. ASSUME NEW m \in Macs, ObserveRemote(m) \/ Elapse(m)
        PROVE  UNCHANGED localVars
    BY <1>1 DEF ObserveRemote, OnNeighborPresent, OnNeighborRemoved, OnFdbPresent,
                OnFdbRemoved, OnLldpPresent, OnLldpRemoved, OnLldpKeepalive, Update, Elapse
  <1>2. ASSUME NEW i \in Ifaces, ObserveLocal(i)
        PROVE  LocalNext
    BY <1>2, MacRoles DEF ObserveLocal, OnLinkPresent, OnLinkRemoved, OnAddressPresent,
                OnAddressRemoved, LocalNext
  <1>3. CASE Service
    BY <1>3 DEF Service, PrepareForRestart, ConsumerStarts, MarkLive, Age, Stop, LocalNext
  <1>4. CASE Delivery
    BY <1>4 DEF Delivery, DeliverChanged, DeliverRemoved, Publish, ClientQueries
  <1>5. CASE UNCHANGED vars
    BY <1>5 DEF vars
  <1> QED
    BY <1>1, <1>2, <1>3, <1>4, <1>5 DEF Next

\* start() and stop() and the phase go together.
LEMMA LifecycleStep == Lifecycle /\ [Next]_vars => Lifecycle'
  <1> SUFFICES ASSUME Lifecycle, [Next]_vars
               PROVE  Lifecycle'
    OBVIOUS
  <1> USE DEF Lifecycle
  <1>1. ASSUME NEW m \in Macs, ObserveRemote(m) \/ Elapse(m)
        PROVE  UNCHANGED <<phase, life, restarts>>
    BY <1>1 DEF ObserveRemote, OnNeighborPresent, OnNeighborRemoved, OnFdbPresent,
                OnFdbRemoved, OnLldpPresent, OnLldpRemoved, OnLldpKeepalive, Update, Elapse
  <1>2. ASSUME NEW i \in Ifaces, ObserveLocal(i)
        PROVE  UNCHANGED <<phase, life, restarts>>
    BY <1>2 DEF ObserveLocal, OnLinkPresent, OnLinkRemoved, OnAddressPresent,
                OnAddressRemoved
  <1>3. CASE Service
    <2>1. MaxRestarts \in Nat
      BY RestartsNat
    <2> QED
      BY <1>3, <2>1 DEF Service, PrepareForRestart, ConsumerStarts, MarkLive, Age, Stop
  <1>4. CASE Delivery
    BY <1>4 DEF Delivery, DeliverChanged, DeliverRemoved, Publish, ClientQueries
  <1>5. CASE UNCHANGED vars
    BY <1>5 DEF vars, engineVars
  <1> QED
    BY <1>1, <1>2, <1>3, <1>4, <1>5 DEF Next

\* What a handler may emit.
Events == [changed : SUBSET Macs, removed : SUBSET Macs]

\* The events handlers collect have the type of PendingEvents.
LEMMA EventsType ==
    /\ Nothing \in Events
    /\ \A touched \in SUBSET Macs : \A new : Recorded(touched, new) \in Events
    /\ \A r \in SUBSET Macs : [changed |-> {}, removed |-> r] \in Events
  <1>1. Nothing \in Events /\ \A r \in SUBSET Macs : [changed |-> {}, removed |-> r] \in Events
    BY DEF Nothing, Events
  <1>2. ASSUME NEW touched \in SUBSET Macs, NEW new
        PROVE  Recorded(touched, new) \in Events
    BY DEF Recorded, Events
  <1> QED
    BY <1>1, <1>2

\* A local MAC is one that some interface carries.
LEMMA LocalMacsAreLinkMacs ==
    ASSUME LocalTypeOK, MacOwnershipExact, Tombstones
    PROVE  /\ localMacs \subseteq LinkMacs
           /\ \A i \in Ifaces : interfaces[i].mac \in Macs => interfaces[i].mac \in localMacs
  <1>1. ASSUME NEW m \in localMacs
        PROVE  m \in LinkMacs
    <2>1. m \in Macs /\ MacOwners(m) # {}
      BY DEF LocalTypeOK, MacOwnershipExact
    <2>2. PICK i \in Ifaces : interfaces[i].mac = m
      BY <2>1 DEF MacOwners
    <2> QED
      BY <2>1, <2>2, NoMacIsNoMac DEF Tombstones
  <1>2. ASSUME NEW i \in Ifaces, interfaces[i].mac \in Macs
        PROVE  interfaces[i].mac \in localMacs
    <2>1. MacOwners(interfaces[i].mac) # {}
      BY DEF MacOwners
    <2> QED
      BY <1>2, <2>1 DEF MacOwnershipExact
  <1> QED
    BY <1>1, <1>2

\* A MAC becomes local by the link observation that reconciles it.
LEMMA LocalMacsMove ==
    /\ \A i \in Ifaces, mac \in Macs \cup {NoMac} :
         LinkPresent(i, mac) => /\ localMacs' \subseteq localMacs \cup {mac}
                                /\ interfaces[i].mac = mac => localMacs' = localMacs
    /\ \A i \in Ifaces : LinkRemoved(i) => localMacs' \subseteq localMacs
    /\ \A i \in Ifaces, c \in Cidrs :
         AddressPresent(i, c) \/ AddressRemoved(i, c) => localMacs' = localMacs
  BY DEF LinkPresent, LinkRemoved, AddressPresent, AddressRemoved, Enter, Leave

Hushed(c) == c = NoCandidate \/ c.status = "Removed"

\* Every step leaves the candidates of local MACs tombstones: no evidence
\* handler but the LLDP one accepts a local MAC, and a MAC that becomes local
\* is reconciled in the same step.
LEMMA TombstonesStep ==
    ASSUME Lifecycle, LocalTypeOK, MacOwnershipExact, Candidates, Tombstones, [Next]_vars
    PROVE  Tombstones'
  <1>0. phase \in {"Initializing", "Live"} /\ localMacs \subseteq Macs
        /\ \A m \in localMacs \ Claimed : Hushed(candidates[m])
    BY DEF Lifecycle, LocalTypeOK, Tombstones, Hushed
  <1>a. ASSUME UNCHANGED <<interfaces, localMacs>>,
               \A m \in localMacs \ Claimed : Hushed(candidates'[m])
        PROVE  Tombstones'
    BY <1>a DEF Tombstones, Hushed
  <1>1. ASSUME NEW m \in Macs, ObserveRemote(m)
        PROVE  Tombstones'
    <2>1. m \notin localMacs \ Claimed
      <3>1. CASE m \in LldpMacs
        BY <3>1, LocalMacsAreLinkMacs DEF Claimed
      <3>2. CASE m \notin LldpMacs
        BY <1>1, <3>2 DEF ObserveRemote, OnNeighborPresent, OnNeighborRemoved, OnFdbPresent,
                          OnFdbRemoved, NeighborPasses
      <3> QED
        BY <3>1, <3>2
    <2>2. \A x \in Macs \ {m} : candidates'[x] = candidates[x]
      <3>1. \E c : candidates' = [candidates EXCEPT ![m] = c]
        BY <1>1 DEF ObserveRemote, OnNeighborPresent, OnNeighborRemoved, OnFdbPresent,
                    OnFdbRemoved, OnLldpPresent, OnLldpRemoved, OnLldpKeepalive, Update
      <3> QED
        BY <3>1 DEF Candidates
    <2>3. UNCHANGED <<interfaces, localMacs>>
      BY <1>1 DEF ObserveRemote, OnNeighborPresent, OnNeighborRemoved, OnFdbPresent,
                  OnFdbRemoved, OnLldpPresent, OnLldpRemoved, OnLldpKeepalive, Update, localVars
    <2> QED
      BY <1>0, <1>a, <2>1, <2>2, <2>3
  <1>2. ASSUME NEW m \in Macs, Elapse(m)
        PROVE  Tombstones'
    <2>1. Good(candidates[m], phase) /\ candidates[m].idle < 2
          /\ candidates' = [candidates EXCEPT
                  ![m] = [candidates[m] EXCEPT !.idle = candidates[m].idle + 1]]
      BY <1>2 DEF Elapse, Candidates, Sound
    <2>2. candidates'[m].status = candidates[m].status
      BY <1>0, <2>1, ElapsedGood DEF Candidates
    <2>3. UNCHANGED <<interfaces, localMacs>> /\ candidates[m] # NoCandidate
      BY <1>2 DEF Elapse, localVars
    <2>4. \A x \in Macs \ {m} : candidates'[x] = candidates[x]
      BY <2>1 DEF Candidates
    <2>5. \A x \in localMacs \ Claimed : Hushed(candidates'[x])
      BY <1>0, <2>2, <2>3, <2>4 DEF Hushed
    <2> QED
      BY <1>a, <2>3, <2>5
  <1>b. ASSUME NEW mac \in Macs \cup {NoMac}, ReconcileLocalMac(mac),
               NEW x \in localMacs' \ Claimed, x \in Macs, x \in localMacs \/ x = mac
        PROVE  Hushed(candidates'[x])
    <2>1. CASE x = mac /\ candidates[mac] # NoCandidate
      <3>1. Good(candidates[mac], phase)
        BY <1>b, <2>1 DEF Candidates, Sound
      <3>2. candidates' = [candidates EXCEPT ![mac] = Tombstone(candidates[mac])]
        BY <1>b, <2>1 DEF ReconcileLocalMac
      <3> QED
        BY <1>0, <1>b, <2>1, <3>1, <3>2, TombstoneGood DEF Candidates, Hushed
    <2>2. CASE x = mac /\ candidates[mac] = NoCandidate
      BY <1>b, <2>2 DEF ReconcileLocalMac, Hushed
    <2>3. CASE x # mac
      <3>1. candidates'[x] = candidates[x]
        BY <1>b, <2>3 DEF ReconcileLocalMac, Candidates
      <3> QED
        BY <1>0, <1>b, <2>3, <3>1
    <2> QED
      BY <2>1, <2>2, <2>3
  <1>3. ASSUME NEW i \in Ifaces, ObserveLocal(i)
        PROVE  Tombstones'
    <2>0. interfaces \in [Ifaces -> Entries] /\ interfaces[i] \in Entries
      BY DEF LocalTypeOK
    <2>1. ASSUME NEW mac \in LinkMacs \cup {NoMac}, OnLinkPresent(i, mac)
          PROVE  Tombstones'
      <3>1. mac \in Macs \cup {NoMac} /\ LinkPresent(i, mac)
        BY <2>1, MacRoles DEF OnLinkPresent
      <3>2. \A j \in Ifaces : interfaces'[j].mac \in LinkMacs \cup {NoMac}
        BY <2>0, <3>1 DEF LinkPresent, Entries, Tombstones
      <3>3. LocalTypeOK'
        BY <3>1, LocalTypeStep DEF LocalNext
      <3>4. ASSUME NEW x \in localMacs' \ Claimed
            PROVE  Hushed(candidates'[x])
        <4>1. x \in Macs /\ (x \in localMacs \/ x = mac)
          BY <3>1, <3>3, LocalMacsMove DEF LocalTypeOK
        <4>2. CASE ReconcileLocalMac(mac)
          BY <1>b, <3>1, <4>1, <4>2
        <4>3. CASE interfaces[i].mac = mac /\ UNCHANGED candidates
          BY <1>0, <3>1, <4>3, LocalMacsMove
        <4> QED
          BY <2>1, <4>2, <4>3 DEF OnLinkPresent
      <3> QED
        BY <3>2, <3>4 DEF Tombstones, Hushed
    <2>2. ASSUME NEW mac \in LinkMacs \cup {NoMac}, OnLinkRemoved(i, mac)
          PROVE  Tombstones'
      <3>1. LinkRemoved(i) /\ mac \in Macs \cup {NoMac}
            /\ (ReconcileLocalMac(mac) \/ UNCHANGED candidates)
        BY <2>2, MacRoles DEF OnLinkRemoved
      <3>2. \A j \in Ifaces : interfaces'[j].mac \in LinkMacs \cup {NoMac}
        BY <2>0, <3>1 DEF LinkRemoved, NoEntry, Tombstones
      <3>3. ASSUME NEW x \in localMacs' \ Claimed
            PROVE  Hushed(candidates'[x])
        <4>1. x \in Macs /\ x \in localMacs
          BY <1>0, <3>1, LocalMacsMove
        <4>2. CASE ReconcileLocalMac(mac)
          BY <1>b, <3>1, <4>1, <4>2
        <4>3. CASE UNCHANGED candidates
          BY <1>0, <3>3, <4>1, <4>3
        <4> QED
          BY <3>1, <4>2, <4>3
      <3> QED
        BY <3>2, <3>3 DEF Tombstones, Hushed
    <2>3. ASSUME NEW c \in Cidrs, OnAddressPresent(i, c) \/ OnAddressRemoved(i, c)
          PROVE  Tombstones'
      <3>1. AddressPresent(i, c) \/ AddressRemoved(i, c)
        BY <2>3 DEF OnAddressPresent, OnAddressRemoved
      <3>2. \A j \in Ifaces : interfaces'[j].mac \in LinkMacs \cup {NoMac}
        <4>1. \A j \in Ifaces : interfaces'[j].mac = interfaces[j].mac
          BY <2>0, <3>1 DEF AddressPresent, AddressRemoved, Entries
        <4> QED
          BY <4>1 DEF Tombstones
      <3>3. localMacs' = localMacs
        BY <3>1, LocalMacsMove
      <3>4. ASSUME NEW x \in localMacs \ Claimed
            PROVE  Hushed(candidates'[x])
        <4>1. x \in Macs /\ Hushed(candidates[x])
          BY <1>0
        <4>2. CASE candidates'[x] = candidates[x]
          BY <4>1, <4>2
        <4>3. CASE candidates[x] # NoCandidate /\ candidates'[x] = Tombstone(candidates[x])
          <5>1. Good(candidates[x], phase)
            BY <4>1, <4>3 DEF Candidates, Sound
          <5> QED
            BY <1>0, <4>3, <5>1, TombstoneGood DEF Hushed
        <4> QED
          BY <2>3, <4>1, <4>2, <4>3 DEF OnAddressPresent, OnAddressRemoved
      <3> QED
        BY <3>2, <3>3, <3>4 DEF Tombstones, Hushed
    <2> QED
      BY <1>3, <2>1, <2>2, <2>3 DEF ObserveLocal
  <1>4. CASE PrepareForRestart
    BY <1>4 DEF PrepareForRestart, Clear, NoEntry, Tombstones
  <1>5. CASE MarkLive
    <2>1. phase = "Initializing" /\ UNCHANGED <<interfaces, localMacs>>
          /\ \A x \in Macs : candidates'[x] = Promoted(candidates[x])
      BY <1>5 DEF MarkLive, Lifecycle, localVars
    <2>2. \A x \in localMacs \ Claimed : Hushed(candidates'[x])
      <3> SUFFICES ASSUME NEW x \in localMacs \ Claimed
                   PROVE  Hushed(candidates'[x])
        OBVIOUS
      <3>1. CASE candidates[x] = NoCandidate
        BY <1>0, <2>1, <3>1 DEF Promoted, Hushed
      <3>2. CASE candidates[x] # NoCandidate
        BY <1>0, <2>1, <3>2, PromotedGood DEF Candidates, Hushed
      <3> QED
        BY <3>1, <3>2
    <2> QED
      BY <1>a, <2>1, <2>2
  <1>6. CASE Age
    <2>1. phase = "Live" /\ UNCHANGED <<interfaces, localMacs>>
          /\ \A x \in Macs : candidates'[x] = Aged(candidates[x])
      BY <1>6 DEF Age, Lifecycle, localVars
    <2>2. \A x \in localMacs \ Claimed : Hushed(candidates'[x])
      <3> SUFFICES ASSUME NEW x \in localMacs \ Claimed
                   PROVE  Hushed(candidates'[x])
        OBVIOUS
      <3>1. CASE candidates[x] = NoCandidate
        BY <1>0, <2>1, <3>1 DEF Aged, Hushed
      <3>2. CASE candidates[x] # NoCandidate
        BY <1>0, <2>1, <3>2, AgedGood DEF Candidates, Hushed
      <3> QED
        BY <3>1, <3>2
    <2> QED
      BY <1>a, <2>1, <2>2
  <1>7. CASE ConsumerStarts \/ Stop \/ Delivery \/ UNCHANGED vars
    <2>1. UNCHANGED <<interfaces, localMacs, candidates>>
      BY <1>7 DEF ConsumerStarts, Stop, Delivery, DeliverChanged, DeliverRemoved, Publish,
                  ClientQueries, vars, engineVars, localVars
    <2> QED
      BY <1>0, <1>a, <2>1
  <1> QED
    BY <1>1, <1>2, <1>3, <1>4, <1>5, <1>6, <1>7 DEF Next, Service

-----------------------------------------------------------------------------
(* Who tells what *)

\* A silent keepalive moved nothing of m but what LLDP says.
Whispered(m) ==
    /\ m \in quiet'
    /\ IsPublishable(candidates[m]) /\ IsPublishable(candidates'[m])
    /\ SameButForLldp(candidates[m], candidates'[m])
    /\ candidates[m].lldp \in LldpIds /\ candidates'[m].lldp \in LldpIds
    /\ candidates[m].neighborIfaces \in SUBSET Ifaces

\* An interface goes whose MAC the tracker took for another one.
Misremembered(m) ==
    \E i \in Ifaces : interfaces[i].known /\ interfaces[i].mac # m /\ ~interfaces'[i].known

\* A thread collects events: they name every candidate whose view moved but
\* for silent keepalives, and removed ones are hidden unless an LLDP
\* neighbour claims the MAC or an interface went that was not known by it.
Tells(events) ==
    /\ \A m \in Macs : \/ Alike(candidates[m], candidates'[m])
                       \/ m \in events.changed \cup events.removed
                       \/ Whispered(m)
    /\ \A m \in events.removed \ Claimed : ~IsPublishable(candidates'[m]) \/ Misremembered(m)

Reports(t) == \E events \in Events : Emit(t, events) /\ Tells(events)

\* What becomes of news is not the handlers' business.
Aside ==
    /\ UNCHANGED <<marks, signals, client>>
    /\ quiet \subseteq quiet' /\ quiet' \subseteq quiet \cup Macs

\* What any step does about news.
Told ==
    \/ \E t \in Threads : Reports(t) /\ Aside
    \/ /\ UNCHANGED <<pending, marks, signals, client, quiet>>
       /\ \A m \in Macs : Alike(candidates[m], candidates'[m])
    \/ Delivery /\ UNCHANGED candidates

\* A candidate that stays is like itself, and so are two hidden ones.
LEMMA AlikeFacts ==
    /\ \A c : Alike(c, c)
    /\ \A c, d : ~IsPublishable(c) /\ ~IsPublishable(d) => Alike(c, d)
  BY DEF Alike, SameButForLldp

\* PendingEvents::record names the entries it is given whose view moves.
LEMMA RecordedTells ==
    ASSUME NEW touched \in SUBSET Macs,
           \A m \in Macs \ touched : candidates'[m] = candidates[m]
    PROVE  Recorded(touched, candidates') \in Events /\ Tells(Recorded(touched, candidates'))
  <1> DEFINE events == Recorded(touched, candidates')
  <1>1. events \in Events
    BY EventsType
  <1>2. /\ events.changed = {m \in touched : IsPublishable(candidates'[m])}
        /\ events.removed = {m \in touched : /\ IsPublishable(candidates[m])
                                             /\ ~IsPublishable(candidates'[m])}
    BY DEF Recorded
  <1> HIDE DEF events
  <1>3. ASSUME NEW m \in touched
        PROVE  \/ Alike(candidates[m], candidates'[m])
               \/ m \in events.changed \cup events.removed
    <2>1. CASE IsPublishable(candidates'[m]) \/ IsPublishable(candidates[m])
      BY <1>2, <2>1
    <2>2. CASE ~IsPublishable(candidates'[m]) /\ ~IsPublishable(candidates[m])
      BY <2>2, AlikeFacts
    <2> QED
      BY <2>1, <2>2
  <1>4. \A m \in events.removed : ~IsPublishable(candidates'[m])
    BY <1>2
  <1>5. Tells(events)
    BY <1>3, <1>4, AlikeFacts DEF Tells
  <1> QED
    BY <1>1, <1>5 DEF events

\* A tombstone that was published, and only one that was, needs a removal.
LEMMA HiddenTells ==
    ASSUME NEW hit \in SUBSET Macs,
           \A m \in Macs \ hit : candidates'[m] = candidates[m],
           \A m \in hit : ~IsPublishable(candidates'[m])
    PROVE  LET events == [changed |-> {}, removed |-> {m \in hit : IsPublishable(candidates[m])}]
           IN  events \in Events /\ Tells(events)
  <1> DEFINE events == [changed |-> {}, removed |-> {m \in hit : IsPublishable(candidates[m])}]
  <1>1. events \in Events
    BY EventsType
  <1>2. events.changed = {} /\ events.removed = {m \in hit : IsPublishable(candidates[m])}
    OBVIOUS
  <1> HIDE DEF events
  <1>3. ASSUME NEW m \in hit
        PROVE  Alike(candidates[m], candidates'[m]) \/ m \in events.removed
    BY <1>2, AlikeFacts
  <1>4. Tells(events)
    BY <1>2, <1>3, AlikeFacts DEF Tells
  <1> QED
    BY <1>1, <1>4 DEF events

\* A handler that leaves every view alone has nothing to tell, and a silent
\* keepalive does not.
LEMMA NothingTells ==
    ASSUME \A m \in Macs : Alike(candidates[m], candidates'[m]) \/ Whispered(m)
    PROVE  Nothing \in Events /\ Tells(Nothing)
  <1>1. Nothing.removed = {}
    BY DEF Nothing
  <1> QED
    BY <1>1, EventsType DEF Tells

\* The candidates of local MACs are hidden.
LEMMA HushedIsHidden ==
    ASSUME NEW c, Hushed(c)
    PROVE  ~IsPublishable(c)
  BY DEF Hushed, IsPublishable

\* Every step either tells of all views it moved, or moves none.
LEMMA WhoReports ==
    ASSUME Lifecycle, LocalTypeOK, MacOwnershipExact, Candidates, Tombstones,
           LocalTypeOK', MacOwnershipExact', Tombstones', [Next]_vars
    PROVE  Told
  <1>0. phase \in {"Initializing", "Live"} /\ DOMAIN candidates = Macs
        /\ "consumer" \in Threads /\ "service" \in Threads
    BY DEF Lifecycle, Candidates, Threads
  <1>i. UNCHANGED <<marks, signals, client, quiet>> => Aside
    BY DEF Aside
  <1>1. ASSUME NEW m \in Macs, ObserveRemote(m)
        PROVE  Reports("consumer") /\ Aside
    <2>1. ASSUME NEW c, Update(m, c)
          PROVE  Reports("consumer") /\ Aside
      <3>1. /\ candidates' = [candidates EXCEPT ![m] = c]
            /\ Emit("consumer", Recorded({m}, candidates'))
            /\ UNCHANGED <<marks, signals, client, quiet>>
        BY <2>1 DEF Update
      <3>2. \A x \in Macs \ {m} : candidates'[x] = candidates[x]
        BY <1>0, <3>1
      <3>3. {m} \in SUBSET Macs
        OBVIOUS
      <3> QED
        BY <1>i, <3>1, <3>2, <3>3, RecordedTells DEF Reports
    <2>2. ASSUME NEW i \in Ifaces, NEW id \in LldpIds, OnLldpKeepalive(m, i, id)
          PROVE  Reports("consumer") /\ Aside
      <3> DEFINE c == candidates[m]
                 d == Reasserted(c, i, id)
      <3>1. Good(c, phase) /\ c.status # "Removed"
        BY <2>2 DEF OnLldpKeepalive, Candidates, Sound
      <3>2. /\ Good(d, phase) /\ d.lldp = id
            /\ ~Speaks(c, d) => /\ IsPublishable(d) <=> IsPublishable(c)
                                /\ SameButForLldp(c, d) /\ c.lldp \in LldpIds
        BY <1>0, <3>1, KeepaliveGood
      <3>3. /\ candidates' = [candidates EXCEPT ![m] = d]
            /\ Emit("consumer", IF Speaks(c, d) THEN Recorded({m}, candidates') ELSE Nothing)
            /\ quiet' = IF Speaks(c, d) \/ View(c) = View(d) THEN quiet ELSE quiet \cup {m}
            /\ UNCHANGED <<marks, signals, client>>
        BY <2>2 DEF OnLldpKeepalive
      <3>4. c.neighborIfaces \in SUBSET Ifaces
        BY <3>1 DEF Good, Candidate
      <3> HIDE DEF c, d
      <3>5. candidates[m] = c /\ candidates'[m] = d
            /\ \A x \in Macs \ {m} : candidates'[x] = candidates[x]
        BY <1>0, <3>3 DEF c
      <3>6. Aside
        BY <3>3 DEF Aside
      <3>7. {m} \in SUBSET Macs
        OBVIOUS
      <3>8. CASE Speaks(c, d)
        BY <3>3, <3>5, <3>6, <3>7, <3>8, RecordedTells DEF Reports
      <3>9. CASE ~Speaks(c, d)
        <4>4. \A x \in Macs : Alike(candidates[x], candidates'[x]) \/ Whispered(x)
          <5>1. Alike(candidates[m], candidates'[m]) \/ Whispered(m)
            <6>1. CASE ~IsPublishable(c)
              BY <3>2, <3>5, <3>9, <6>1, AlikeFacts
            <6>2. CASE IsPublishable(c) /\ View(c) = View(d)
              <7>1. d.lldp = c.lldp /\ d.neighborIfaces = c.neighborIfaces
                BY <3>2, <3>9, <6>2 DEF View
              <7> QED
                BY <3>2, <3>5, <3>9, <6>2, <7>1 DEF Alike
            <6>3. CASE IsPublishable(c) /\ View(c) # View(d)
              <7>1. m \in quiet'
                BY <3>3, <3>9, <6>3
              <7> QED
                BY <3>2, <3>4, <3>5, <3>9, <6>3, <7>1 DEF Whispered
            <6> QED
              BY <6>1, <6>2, <6>3
          <5> QED
            BY <3>5, <5>1, AlikeFacts
        <4>5. Emit("consumer", Nothing)
          BY <3>3, <3>9
        <4> QED
          BY <3>6, <4>4, <4>5, NothingTells DEF Reports
      <3> QED
        BY <3>8, <3>9
    <2> QED
      BY <1>1, <2>1, <2>2 DEF ObserveRemote, OnNeighborPresent, OnNeighborRemoved, OnFdbPresent,
                OnFdbRemoved, OnLldpPresent, OnLldpRemoved
  <1>2. ASSUME NEW m \in Macs, Elapse(m)
        PROVE  /\ UNCHANGED <<pending, marks, signals, client, quiet>>
               /\ \A x \in Macs : Alike(candidates[x], candidates'[x])
    <2> DEFINE d == [candidates[m] EXCEPT !.idle = candidates[m].idle + 1]
    <2>1. Good(candidates[m], phase) /\ candidates[m].idle < 2
          /\ candidates' = [candidates EXCEPT ![m] = d]
      BY <1>2 DEF Elapse, Candidates, Sound
    <2>2. Alike(candidates[m], d)
      BY <1>0, <2>1, ElapsedGood
    <2> HIDE DEF d
    <2>3. \A x \in Macs : Alike(candidates[x], candidates'[x])
      BY <1>0, <2>1, <2>2, AlikeFacts
    <2> QED
      BY <1>2, <2>3 DEF Elapse
  <1>a. ASSUME NEW mac \in Macs \cup {NoMac}, ReconcileLocalMac(mac),
               \/ mac \notin Macs
               \/ mac \in localMacs'
               \/ candidates[mac] = NoCandidate \/ ~IsPublishable(candidates[mac])
               \/ mac \in Claimed
               \/ Misremembered(mac)
        PROVE  Reports("consumer")
    <2>1. CASE mac \notin Macs \/ candidates[mac] = NoCandidate
               \/ (mac \notin localMacs' /\ ~IsPublishable(candidates[mac]))
      <3>1. candidates' = candidates /\ Emit("consumer", [changed |-> {}, removed |-> {}])
        BY <1>a, <2>1 DEF ReconcileLocalMac, IsPublishable
      <3> QED
        BY <3>1, NothingTells, AlikeFacts DEF Reports, Nothing
    <2>2. CASE mac \in Macs /\ candidates[mac] # NoCandidate /\ mac \in localMacs'
      <3>1. /\ candidates' = [candidates EXCEPT ![mac] = Tombstone(candidates[mac])]
            /\ Emit("consumer", [changed |-> {}, removed |-> IF IsPublishable(candidates[mac])
                                                             THEN {mac} ELSE {}])
        BY <1>a, <2>2 DEF ReconcileLocalMac
      <3>2. Good(candidates[mac], phase)
        BY <2>2 DEF Candidates, Sound
      <3>3. candidates'[mac] = Tombstone(candidates[mac])
            /\ \A x \in Macs \ {mac} : candidates'[x] = candidates[x]
        BY <1>0, <2>2, <3>1
      <3>4. {mac} \in SUBSET Macs /\ \A x \in {mac} : ~IsPublishable(candidates'[x])
        BY <1>0, <2>2, <3>2, <3>3, TombstoneGood
      <3>5. {x \in {mac} : IsPublishable(candidates[x])}
              = IF IsPublishable(candidates[mac]) THEN {mac} ELSE {}
        OBVIOUS
      <3> QED
        BY <3>1, <3>3, <3>4, <3>5, HiddenTells DEF Reports
    <2>3. CASE mac \in Macs /\ (mac \in Claimed \/ Misremembered(mac)) /\ candidates[mac] # NoCandidate
               /\ mac \notin localMacs' /\ IsPublishable(candidates[mac])
      <3> DEFINE events == [changed |-> {}, removed |-> {mac}]
      <3>1. candidates' = candidates /\ Emit("consumer", events)
        BY <1>a, <2>3 DEF ReconcileLocalMac
      <3>2. events \in Events /\ events.removed = {mac}
        BY <2>3, EventsType
      <3> HIDE DEF events
      <3>3. Tells(events)
        BY <2>3, <3>1, <3>2, AlikeFacts DEF Tells
      <3> QED
        BY <3>1, <3>2, <3>3 DEF Reports
    <2> QED
      BY <1>a, <2>1, <2>2, <2>3
  <1>3. ASSUME NEW i \in Ifaces, ObserveLocal(i)
        PROVE  Reports("consumer") /\ Aside
    <2>0. interfaces \in [Ifaces -> Entries] /\ interfaces[i] \in Entries
      BY DEF LocalTypeOK
    <2>1. ASSUME NEW mac \in LinkMacs \cup {NoMac}, OnLinkPresent(i, mac)
          PROVE  Reports("consumer") /\ Aside
      <3>1. mac \in Macs \cup {NoMac} /\ Aside
        BY <1>i, <2>1, MacRoles DEF OnLinkPresent
      <3>2. interfaces'[i].mac = mac
        BY <2>0, <2>1 DEF OnLinkPresent, LinkPresent, Entries
      <3>3. mac \in Macs => mac \in localMacs'
        <4>1. i \in MacOwners(mac)'
          BY <3>2 DEF MacOwners
        <4> QED
          BY <4>1 DEF MacOwnershipExact
      <3>4. CASE ReconcileLocalMac(mac)
        BY <1>a, <3>1, <3>3, <3>4
      <3>5. CASE Emit("consumer", Nothing) /\ UNCHANGED candidates
        BY <3>1, <3>5, NothingTells, AlikeFacts DEF Reports
      <3> QED
        BY <2>1, <3>4, <3>5, <3>1 DEF OnLinkPresent
    <2>2. ASSUME NEW mac \in LinkMacs \cup {NoMac}, OnLinkRemoved(i, mac)
          PROVE  Reports("consumer") /\ Aside
      <3>1. mac \in Macs \cup {NoMac} /\ Aside
        BY <1>i, <2>2, MacRoles DEF OnLinkRemoved
      <3>2. CASE interfaces[i].known
        <4>1. ReconcileLocalMac(mac)
          BY <2>2, <3>2 DEF OnLinkRemoved
        <4>2. CASE interfaces[i].mac = mac
          <5>1. mac \in Macs => mac \in localMacs
            BY <4>2, LocalMacsAreLinkMacs
          <5>2. mac \in Macs /\ mac \notin Claimed => ~IsPublishable(candidates[mac])
            BY <5>1, HushedIsHidden DEF Tombstones, Hushed
          <5> QED
            BY <1>a, <3>1, <4>1, <5>2
        <4>3. CASE interfaces[i].mac # mac
          <5>1. ~interfaces'[i].known
            <6>1. interfaces'[i] = NoEntry
              BY <2>0, <2>2 DEF OnLinkRemoved, LinkRemoved
            <6> QED
              BY <6>1 DEF NoEntry
          <5>2. Misremembered(mac)
            BY <3>2, <4>3, <5>1 DEF Misremembered
          <5> QED
            BY <1>a, <3>1, <4>1, <5>2
        <4> QED
          BY <4>2, <4>3
      <3>3. CASE ~interfaces[i].known
        <4>1. Emit("consumer", Nothing) /\ UNCHANGED candidates
          BY <2>2, <3>3 DEF OnLinkRemoved
        <4> QED
          BY <3>1, <4>1, NothingTells, AlikeFacts DEF Reports
      <3> QED
        BY <3>2, <3>3
    <2>3. ASSUME NEW c \in Cidrs, OnAddressPresent(i, c)
          PROVE  Reports("consumer") /\ Aside
      <3> DEFINE hit == {m \in Macs : candidates[m] # NoCandidate /\ IpOf(c) \in candidates[m].ips}
      <3>1. /\ candidates' = [m \in Macs |-> IF m \in hit THEN Tombstone(candidates[m])
                                                          ELSE candidates[m]]
            /\ Emit("consumer", [changed |-> {},
                         removed |-> {m \in hit : IsPublishable(candidates[m])}])
            /\ Aside
        BY <1>i, <2>3 DEF OnAddressPresent
      <3>2. hit \in SUBSET Macs /\ \A m \in hit : Good(candidates[m], phase)
        BY DEF Candidates, Sound
      <3> HIDE DEF hit
      <3>3. \A m \in hit : ~IsPublishable(candidates'[m])
        BY <1>0, <3>1, <3>2, TombstoneGood
      <3>4. \A m \in Macs \ hit : candidates'[m] = candidates[m]
        BY <3>1
      <3> QED
        BY <3>1, <3>2, <3>3, <3>4, HiddenTells DEF Reports
    <2>4. ASSUME NEW c \in Cidrs, OnAddressRemoved(i, c)
          PROVE  Reports("consumer") /\ Aside
      BY <1>i, <2>4, NothingTells, AlikeFacts DEF OnAddressRemoved, Reports
    <2> QED
      BY <1>3, <2>1, <2>2, <2>3, <2>4 DEF ObserveLocal
  <1>4. CASE PrepareForRestart \/ MarkLive \/ Age
    <2> DEFINE moved == {m \in Macs : candidates'[m] # candidates[m]}
    <2>1. /\ \/ Emit("service", Recorded(Macs, candidates'))
             \/ Emit("service", Recorded(moved, candidates'))
          /\ Aside
      BY <1>i, <1>4 DEF PrepareForRestart, MarkLive, Age
    <2>2. /\ Recorded(Macs, candidates') \in Events /\ Tells(Recorded(Macs, candidates'))
          /\ Recorded(moved, candidates') \in Events /\ Tells(Recorded(moved, candidates'))
      <3>1. moved \in SUBSET Macs /\ Macs \in SUBSET Macs
            /\ \A m \in Macs \ moved : candidates'[m] = candidates[m]
        OBVIOUS
      <3> HIDE DEF moved
      <3> QED
        BY <3>1, RecordedTells
    <2> QED
      BY <1>0, <2>1, <2>2 DEF Reports, Told
  <1>5. CASE ConsumerStarts \/ Stop \/ UNCHANGED vars
    BY <1>5, AlikeFacts DEF ConsumerStarts, Stop, vars, engineVars, Told
  <1>6. CASE Delivery
    <2>1. UNCHANGED candidates
      BY <1>6 DEF Delivery, DeliverChanged, DeliverRemoved, Publish, ClientQueries
    <2> QED
      BY <1>6, <2>1 DEF Told
  <1> QED
    BY <1>0, <1>1, <1>2, <1>3, <1>4, <1>5, <1>6 DEF Next, Service, Told

-----------------------------------------------------------------------------
(* News *)

\* The news keep their types: a thread's events are kept, delivered one by
\* one, or new from a handler that found none undelivered.
LEMMA NewsStep ==
    ASSUME News, Told
    PROVE  News'
  <1> USE DEF News
  <1>1. ASSUME NEW t \in Threads, Reports(t), Aside
        PROVE  News'
    BY <1>1 DEF Reports, Emit, Events, Aside
  <1>2. ASSUME NEW t \in Threads, NEW m \in Macs, DeliverChanged(t, m)
        PROVE  News'
    BY <1>2 DEF DeliverChanged
  <1>3. ASSUME NEW t \in Threads, NEW m \in Macs, DeliverRemoved(t, m)
        PROVE  News'
    BY <1>3 DEF DeliverRemoved
  <1>4. CASE Publish
    BY <1>4 DEF Publish
  <1>5. ASSUME NEW m \in Macs, ClientQueries(m)
        PROVE  News'
    BY <1>5 DEF ClientQueries
  <1> QED
    BY <1>1, <1>2, <1>3, <1>4, <1>5 DEF Told, Delivery

\* What the client saw of a candidate: its view with LLDP ids and interfaces of
\* some earlier time.
Shown(c, id, on) ==
    [ips |-> c.ips, bridgePort |-> c.bridgePort, lldp |-> id, neighborIfaces |-> on,
     seenInNeigh |-> c.neigh # {}, seenInFdb |-> c.fdb # {}, class |-> c.class,
     status |-> c.status]

\* A query shows the candidate's own LLDP data, an outdated view others.
LEMMA ShownFacts ==
    ASSUME NEW c, IsPublishable(c), NEW id, NEW on
    PROVE  /\ View(c) = Shown(c, c.lldp, c.neighborIfaces)
           /\ [View(c) EXCEPT !.lldp = id, !.neighborIfaces = on] = Shown(c, id, on)
  <1>1. View(c) = Shown(c, c.lldp, c.neighborIfaces)
    BY DEF View, Shown
  <1>2. [Shown(c, c.lldp, c.neighborIfaces) EXCEPT !.lldp = id, !.neighborIfaces = on]
          = Shown(c, id, on)
    <2> DEFINE n == c.neigh # {}
               f == c.fdb # {}
               R(l, i) == [ips |-> c.ips, bridgePort |-> c.bridgePort, lldp |-> l,
                           neighborIfaces |-> i, seenInNeigh |-> n, seenInFdb |-> f,
                           class |-> c.class, status |-> c.status]
    <2>1. Shown(c, c.lldp, c.neighborIfaces) = R(c.lldp, c.neighborIfaces)
          /\ Shown(c, id, on) = R(id, on)
      BY DEF Shown
    <2> HIDE DEF n, f
    <2>2. [R(c.lldp, c.neighborIfaces) EXCEPT !.lldp = id] = R(id, c.neighborIfaces)
      OBVIOUS
    <2>3. [R(id, c.neighborIfaces) EXCEPT !.neighborIfaces = on] = R(id, on)
      OBVIOUS
    <2>4. [R(c.lldp, c.neighborIfaces) EXCEPT !.lldp = id, !.neighborIfaces = on]
            = [[R(c.lldp, c.neighborIfaces) EXCEPT !.lldp = id] EXCEPT !.neighborIfaces = on]
      OBVIOUS
    <2> HIDE DEF R
    <2> QED
      BY <2>1, <2>2, <2>3, <2>4
  <1> QED
    BY <1>1, <1>2

\* The client is up to date with m, but for what a silent keepalive changed.
UpToDate(m) == client[m] = View(candidates[m]) \/ (m \in quiet /\ KnownButForLldp(m))

\* A handler that tells nothing of m leaves the client up to date with it.
LEMMA StaysUpToDate ==
    ASSUME NEW m \in Macs, UpToDate(m), client'[m] = client[m], quiet \subseteq quiet',
           Alike(candidates[m], candidates'[m]) \/ Whispered(m)
    PROVE  UpToDate(m)'
  <1> DEFINE c == candidates[m]
             d == candidates'[m]
  <1>1. CASE Alike(c, d) /\ ~IsPublishable(c)
    BY <1>1 DEF Alike, UpToDate, KnownButForLldp, View
  <1>2. CASE Alike(c, d) /\ IsPublishable(c)
    <2>1. IsPublishable(d) /\ SameButForLldp(c, d) /\ d.lldp = c.lldp
          /\ d.neighborIfaces = c.neighborIfaces
      BY <1>2 DEF Alike
    <2>2. View(d) = View(c)
      BY <1>2, <2>1 DEF View, SameButForLldp
    <2>3. KnownButForLldp(m) => KnownButForLldp(m)'
      BY <2>1, <2>2 DEF KnownButForLldp, SeenInLldp
    <2> QED
      BY <2>2, <2>3 DEF UpToDate
  <1>3. CASE Whispered(m)
    <2>1. /\ m \in quiet' /\ IsPublishable(c) /\ IsPublishable(d) /\ SameButForLldp(c, d)
          /\ c.lldp \in LldpIds /\ d.lldp \in LldpIds /\ c.neighborIfaces \in SUBSET Ifaces
      BY <1>3 DEF Whispered
    <2> HIDE DEF c, d
    <2>2. \A id, on : Shown(c, id, on) = Shown(d, id, on)
      BY <2>1 DEF Shown, SameButForLldp
    <2>3. \E id \in LldpIds, on \in SUBSET Ifaces : client[m] = Shown(c, id, on)
      <3>1. CASE client[m] = View(c)
        <4>1. View(c) = Shown(c, c.lldp, c.neighborIfaces)
          BY <2>1, ShownFacts
        <4> QED
          BY <2>1, <3>1, <4>1
      <3>2. CASE KnownButForLldp(m)
        <4>1. PICK id \in LldpIds, on \in SUBSET Ifaces :
                client[m] = [View(c) EXCEPT !.lldp = id, !.neighborIfaces = on]
          BY <3>2 DEF KnownButForLldp, c
        <4>2. [View(c) EXCEPT !.lldp = id, !.neighborIfaces = on] = Shown(c, id, on)
          BY <2>1, ShownFacts
        <4> QED
          BY <4>1, <4>2
      <3> QED
        BY <3>1, <3>2 DEF UpToDate, c
    <2>4. PICK id \in LldpIds, on \in SUBSET Ifaces : client[m] = Shown(c, id, on)
      BY <2>3
    <2>5. [View(d) EXCEPT !.lldp = id, !.neighborIfaces = on] = Shown(d, id, on)
      BY <2>1, ShownFacts
    <2>6. client'[m] = [View(d) EXCEPT !.lldp = id, !.neighborIfaces = on]
      BY <2>2, <2>4, <2>5
    <2>7. SeenInLldp(d)
      BY <2>1, EngineDistinct DEF SeenInLldp
    <2>8. KnownButForLldp(m)'
      BY <2>1, <2>6, <2>7 DEF KnownButForLldp, d
    <2> QED
      BY <2>1, <2>8 DEF UpToDate
  <1> QED
    BY <1>1, <1>2, <1>3

\* A client that is behind stays informed: new events replace none that are
\* undelivered, a delivery turns an event into a mark, a publication a mark
\* into a signal, and only the query itself consumes the signal.
LEMMA InformedStep ==
    ASSUME News, DOMAIN client = Macs, ClientInformed, Told
    PROVE  DOMAIN client' = Macs /\ ClientInformed'
  <1>0. DOMAIN pending = Threads /\ DOMAIN marks = Macs
        /\ \A t \in Threads : pending[t] \in Events
    BY DEF News, Events
  <1>i. /\ ClientInformed <=> \A m \in Macs : UpToDate(m) \/ NewsOf(m)
        /\ ClientInformed' <=> \A m \in Macs : UpToDate(m)' \/ NewsOf(m)'
    BY DEF ClientInformed, UpToDate
  <1>1. ASSUME NEW t \in Threads, Reports(t), Aside
        PROVE  DOMAIN client' = Macs /\ ClientInformed'
    <2>1. PICK events \in Events : Emit(t, events) /\ Tells(events)
      BY <1>1 DEF Reports
    <2>2. pending[t] = Nothing /\ pending'[t] = events
          /\ \A s \in Threads \ {t} : pending'[s] = pending[s]
      BY <1>0, <2>1 DEF Emit
    <2>3. pending[t].changed = {} /\ pending[t].removed = {}
      BY <2>2 DEF Nothing
    <2>4. UNCHANGED <<marks, signals, client>> /\ quiet \subseteq quiet'
      BY <1>1 DEF Aside
    <2>5. ASSUME NEW m \in Macs
          PROVE  UpToDate(m)' \/ NewsOf(m)'
      <3>1. CASE NewsOf(m)
        BY <2>2, <2>3, <2>4, <3>1 DEF NewsOf
      <3>2. CASE m \in events.changed \cup events.removed
        BY <2>2, <3>2 DEF NewsOf
      <3>3. CASE UpToDate(m) /\ (Alike(candidates[m], candidates'[m]) \/ Whispered(m))
        BY <2>4, <3>3, StaysUpToDate
      <3> QED
        BY <1>i, <2>1, <3>1, <3>2, <3>3 DEF Tells
    <2> QED
      BY <1>i, <2>4, <2>5
  <1>2. CASE /\ UNCHANGED <<pending, marks, signals, client, quiet>>
             /\ \A m \in Macs : Alike(candidates[m], candidates'[m])
    <2>1. \A m \in Macs : NewsOf(m) => NewsOf(m)'
      BY <1>2 DEF NewsOf
    <2>2. \A m \in Macs : UpToDate(m) => UpToDate(m)'
      BY <1>2, StaysUpToDate
    <2> QED
      BY <1>i, <1>2, <2>1, <2>2
  <1>3. ASSUME NEW t \in Threads, NEW x \in Macs, UNCHANGED candidates,
               DeliverChanged(t, x) \/ DeliverRemoved(t, x)
        PROVE  DOMAIN client' = Macs /\ ClientInformed'
    <2>1. UNCHANGED <<signals, client, quiet>> /\ marks'[x] # "none"
          /\ \A m \in Macs \ {x} : marks'[m] = marks[m]
      BY <1>0, <1>3 DEF DeliverChanged, DeliverRemoved
    <2>2. ASSUME NEW s \in Threads, NEW m \in (pending[s].changed \cup pending[s].removed) \ {x}
          PROVE  m \in pending'[s].changed \cup pending'[s].removed
      BY <1>0, <1>3 DEF DeliverChanged, DeliverRemoved, Events
    <2>3. \A m \in Macs : NewsOf(m) => NewsOf(m)'
      BY <2>1, <2>2 DEF NewsOf
    <2>4. \A m \in Macs : UpToDate(m) => UpToDate(m)'
      BY <1>3, <2>1 DEF UpToDate, KnownButForLldp
    <2> QED
      BY <1>i, <2>1, <2>3, <2>4
  <1>4. CASE Publish /\ UNCHANGED candidates
    <2>1. UNCHANGED <<pending, client, quiet>> /\ signals' = signals \cup {m \in Macs : marks[m] # "none"}
      BY <1>4 DEF Publish
    <2>2. \A m \in Macs : NewsOf(m) => NewsOf(m)'
      BY <2>1 DEF NewsOf
    <2>3. \A m \in Macs : UpToDate(m) => UpToDate(m)'
      BY <1>4, <2>1 DEF UpToDate, KnownButForLldp
    <2> QED
      BY <1>i, <2>1, <2>2, <2>3
  <1>5. ASSUME NEW x \in Macs, ClientQueries(x), UNCHANGED candidates
        PROVE  DOMAIN client' = Macs /\ ClientInformed'
    <2>1. /\ UNCHANGED <<pending, marks>> /\ signals' = signals \ {x}
          /\ client' = [client EXCEPT ![x] = View(candidates[x])] /\ quiet' = quiet \ {x}
      BY <1>5 DEF ClientQueries
    <2>2. client'[x] = View(candidates'[x]) /\ DOMAIN client' = Macs
          /\ \A m \in Macs \ {x} : client'[m] = client[m]
      BY <1>5, <2>1
    <2>3. \A m \in Macs \ {x} : NewsOf(m) => NewsOf(m)'
      BY <2>1 DEF NewsOf
    <2>4. \A m \in Macs \ {x} : UpToDate(m) => UpToDate(m)'
      BY <1>5, <2>1, <2>2 DEF UpToDate, KnownButForLldp
    <2>5. UpToDate(x)'
      BY <2>2 DEF UpToDate
    <2> QED
      BY <1>i, <2>2, <2>3, <2>4, <2>5
  <1> QED
    BY <1>1, <1>2, <1>3, <1>4, <1>5 DEF Told, Delivery

-----------------------------------------------------------------------------
(* The inductive invariant and the theorems *)

Inv ==
    /\ LocalTypeOK /\ OwnershipExact
    /\ Lifecycle /\ Candidates /\ Tombstones
    /\ News /\ DOMAIN client = Macs /\ ClientInformed

\* The invariant holds initially.
LEMMA InvInit == Init => Inv
  <1> SUFFICES ASSUME Init
               PROVE  Inv
    OBVIOUS
  <1>1. LocalTypeOK /\ OwnershipExact
    BY NothingOwned DEF Init
  <1>2. Lifecycle
    BY RestartsNat DEF Init, Lifecycle
  <1>3. Candidates
    BY DEF Init, Candidates, Sound
  <1>4. Tombstones
    BY DEF Init, LocalInit, NoEntry, Tombstones
  <1>5. News
    BY DEF Init, News, Nothing
  <1>6. DOMAIN client = Macs /\ ClientInformed
    BY DEF Init, ClientInformed, View, IsPublishable
  <1> QED
    BY <1>1, <1>2, <1>3, <1>4, <1>5, <1>6 DEF Inv

\* What one step does, with the invariant before and after it.
LEMMA InvStep ==
    ASSUME Inv, [Next]_vars
    PROVE  Inv' /\ Told
  <1>1. LocalTypeOK' /\ OwnershipExact'
    <2>1. CASE LocalNext
      BY <2>1, LocalTypeStep, OwnershipStep DEF Inv
    <2>2. CASE UNCHANGED localVars
      BY <2>2 DEF Inv, localVars, LocalTypeOK, OwnershipExact, MacOwnershipExact,
                  IpOwnershipExact, MacOwners, IpOwners
    <2> QED
      BY <2>1, <2>2, LocalStep
  <1>2. Lifecycle' /\ Candidates'
    BY LifecycleStep, CandidatesStep DEF Inv
  <1>3. Tombstones'
    BY TombstonesStep DEF Inv, OwnershipExact
  <1>4. Told
    BY <1>1, <1>3, WhoReports DEF Inv, OwnershipExact
  <1>5. News'
    BY <1>4, NewsStep DEF Inv
  <1>6. DOMAIN client' = Macs /\ ClientInformed'
    BY <1>4, InformedStep DEF Inv
  <1> QED
    BY <1>1, <1>2, <1>3, <1>4, <1>5, <1>6 DEF Inv

\* The inductive invariant holds in every behaviour of the engine.
THEOREM Invariance == Spec => []Inv
  <1>1. Inv /\ [Next]_vars => Inv'
    BY InvStep
  <1> QED
    BY <1>1, InvInit, PTL DEF Spec

\* The engine's state keeps its types: however observations, restarts and
\* aging interleave.
THEOREM TypeCorrect == Spec => []TypeOK
  <1>1. Inv => TypeOK
    BY DEF Inv, TypeOK, Lifecycle, Candidates, News
  <1> QED
    BY <1>1, Invariance, PTL

\* LocalStateTracker's reference counts are the number of owners.
THEOREM OwnershipIsExact == Spec => []OwnershipExact
  <1>1. Inv => OwnershipExact
    BY DEF Inv
  <1> QED
    BY <1>1, Invariance, PTL

\* Evidence and what is derived from it agree.
THEOREM EvidenceIsConsistent == Spec => []EvidenceConsistent
  <1>1. Inv => EvidenceConsistent
    BY DEF Inv, Candidates, Sound, Good, Backed, EvidenceConsistent
  <1> QED
    BY <1>1, Invariance, PTL

\* No MAC of the host is published as a remote candidate, unless an LLDP
\* neighbour claims it: the filter and the reconciliation of local MACs.
THEOREM LocalMacsAreHidden == Spec => []LocalMacHidden
  <1>1. Inv => LocalMacHidden
    BY HushedIsHidden DEF Inv, Tombstones, Hushed, LocalMacHidden
  <1> QED
    BY <1>1, Invariance, PTL

\* A client whose view of a candidate differs from the model has news of it
\* on the way, in whatever order the threads deliver their events, unless it
\* lacks only the LLDP ids and interfaces a silent keepalive changed.
THEOREM ClientsAreInformed == Spec => []ClientInformed
  <1>1. Inv => ClientInformed
    BY DEF Inv
  <1> QED
    BY <1>1, Invariance, PTL

\* A handler that records "removed" leaves the candidate gone or hidden,
\* unless it removed an interface that was not known by the MAC it names.
THEOREM RemovalsAreTrue == Spec => RemovedMeansHidden
  <1> DEFINE A == \A m \in FalselyRemoved :
                    \E i \in Ifaces : /\ interfaces[i].known /\ interfaces[i].mac # m
                                      /\ ~interfaces'[i].known
  <1>1. ASSUME Inv, [Next]_vars
        PROVE  A
    <2>1. ASSUME NEW t \in Threads, NEW m \in (pending'[t].removed \ pending[t].removed) \ Claimed
          PROVE  ~IsPublishable(candidates'[m]) \/ Misremembered(m)
      <3>0. pending \in [Threads -> Events]
        BY <1>1 DEF Inv, News, Events
      <3>1. ASSUME NEW s \in Threads, Reports(s)
            PROVE  ~IsPublishable(candidates'[m]) \/ Misremembered(m)
        BY <2>1, <3>0, <3>1 DEF Reports, Emit, Tells
      <3>2. CASE UNCHANGED pending
        BY <2>1, <3>2
      <3>3. CASE Delivery
        BY <2>1, <3>0, <3>3 DEF Delivery, DeliverChanged, DeliverRemoved, Publish,
                                 ClientQueries, Events
      <3> QED
        BY <1>1, <3>1, <3>2, <3>3, InvStep DEF Told
    <2> QED
      BY <2>1 DEF FalselyRemoved, Misremembered
  <1>2. Inv /\ [Next]_vars => [A]_vars
    BY <1>1
  <1> QED
    BY <1>2, Invariance, PTL DEF Spec, RemovedMeansHidden
=============================================================================
