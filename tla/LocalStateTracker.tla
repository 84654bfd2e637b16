-------------------------- MODULE LocalStateTracker --------------------------
(***************************************************************************)
(* LocalStateTracker: the host's own interfaces, and the reference counts  *)
(* that decide whether a MAC or an IP is local.                            *)
(*                                                                         *)
(* An interface entry exists from its first link or address observation;   *)
(* only a link observation names it.  A CIDR is a pair <<ip, prefix>>, so  *)
(* one interface may carry the same IP twice.  A count of 0 is an entry    *)
(* the refcount map does not hold.                                         *)
(***************************************************************************)
EXTENDS Integers, FiniteSets

CONSTANTS
    Ifaces,  \* interfaces the policy includes
    Macs,    \* MAC addresses
    NoMac,   \* the empty MAC of an interface that has none
    Cidrs    \* local addresses, pairs <<ip, prefix>>

IpOf(c) == c[1]
LocalIpSpace == {IpOf(c) : c \in Cidrs}

ASSUME NoMacIsNoMac == NoMac \notin Macs
ASSUME FiniteHost == IsFiniteSet(Ifaces) /\ IsFiniteSet(Cidrs)

VARIABLES
    interfaces,  \* snapshot_.interfaces
    macRefs,     \* localMacRefcount_
    ipRefs,      \* localIpRefcount_
    localMacs,   \* snapshot_.localMacs
    localIps     \* snapshot_.localIps

localVars == <<interfaces, macRefs, ipRefs, localMacs, localIps>>

NoEntry == [known |-> FALSE, mac |-> NoMac, cidrs |-> {}]

\* incrementMac / incrementIp and decrementMac / decrementIp: the count, and
\* the set that follows it.  The empty MAC is not counted.
Increment(refs, x) == IF x \in DOMAIN refs THEN [refs EXCEPT ![x] = @ + 1] ELSE refs
Decrement(refs, x) ==
    IF x \in DOMAIN refs /\ refs[x] > 0 THEN [refs EXCEPT ![x] = @ - 1] ELSE refs

Enter(set, refs, x) == IF x \in DOMAIN refs /\ refs[x] = 0 THEN set \cup {x} ELSE set
Leave(set, refs, x) == IF x \in DOMAIN refs /\ refs[x] = 1 THEN set \ {x} ELSE set

LocalInit ==
    /\ interfaces = [i \in Ifaces |-> NoEntry]
    /\ macRefs = [m \in Macs |-> 0]
    /\ ipRefs = [ip \in LocalIpSpace |-> 0]
    /\ localMacs = {}
    /\ localIps = {}

-----------------------------------------------------------------------------
\* Mutant of LinkPresent: the old MAC is not given back.
LinkPresentKeepsOldMac(i, mac) ==
    /\ interfaces' = [interfaces EXCEPT ![i].known = TRUE, ![i].mac = mac]
    /\ IF interfaces[i].mac = mac
       THEN UNCHANGED <<macRefs, localMacs>>
       ELSE /\ macRefs' = Increment(macRefs, mac)
            /\ localMacs' = Enter(localMacs, macRefs, mac)
    /\ UNCHANGED <<ipRefs, localIps>>

\* onLinkObservation, Present: the interface has this MAC now.
LinkPresent(i, mac) ==
    LET old == interfaces[i].mac IN
    /\ interfaces' = [interfaces EXCEPT ![i].known = TRUE, ![i].mac = mac]
    /\ IF old = mac
       THEN UNCHANGED <<macRefs, localMacs>>
       ELSE LET refs == Decrement(macRefs, old)
                macs == Leave(localMacs, macRefs, old)
            IN  /\ macRefs' = Increment(refs, mac)
                /\ localMacs' = Enter(macs, refs, mac)
    /\ UNCHANGED <<ipRefs, localIps>>

\* onLinkObservation, Removed: the interface gives its MAC and all its
\* addresses back.
LinkRemoved(i) ==
    LET owned(ip) == Cardinality({c \in interfaces[i].cidrs : IpOf(c) = ip})
        left(ip) == IF ipRefs[ip] > owned(ip) THEN ipRefs[ip] - owned(ip) ELSE 0
    IN
    /\ interfaces' = [interfaces EXCEPT ![i] = NoEntry]
    /\ macRefs' = Decrement(macRefs, interfaces[i].mac)
    /\ localMacs' = Leave(localMacs, macRefs, interfaces[i].mac)
    /\ ipRefs' = [ip \in LocalIpSpace |-> left(ip)]
    /\ localIps' = localIps \ {ip \in LocalIpSpace : owned(ip) > 0 /\ left(ip) = 0}

\* onAddressObservation creates the entry, whatever the event, and counts an
\* address once per interface and CIDR.
AddressPresent(i, c) ==
    /\ interfaces' = [interfaces EXCEPT ![i].known = TRUE, ![i].cidrs = @ \cup {c}]
    /\ IF c \in interfaces[i].cidrs
       THEN UNCHANGED <<ipRefs, localIps>>
       ELSE /\ ipRefs' = Increment(ipRefs, IpOf(c))
            /\ localIps' = Enter(localIps, ipRefs, IpOf(c))
    /\ UNCHANGED <<macRefs, localMacs>>

AddressRemoved(i, c) ==
    /\ interfaces' = [interfaces EXCEPT ![i].known = TRUE, ![i].cidrs = @ \ {c}]
    /\ IF c \notin interfaces[i].cidrs
       THEN UNCHANGED <<ipRefs, localIps>>
       ELSE /\ ipRefs' = Decrement(ipRefs, IpOf(c))
            /\ localIps' = Leave(localIps, ipRefs, IpOf(c))
    /\ UNCHANGED <<macRefs, localMacs>>

Clear ==
    /\ interfaces' = [i \in Ifaces |-> NoEntry]
    /\ macRefs' = [m \in Macs |-> 0]
    /\ ipRefs' = [ip \in LocalIpSpace |-> 0]
    /\ localMacs' = {}
    /\ localIps' = {}

LocalNext ==
    \/ \E i \in Ifaces, m \in Macs \cup {NoMac} : LinkPresent(i, m)
    \/ \E i \in Ifaces : LinkRemoved(i)
    \/ \E i \in Ifaces, c \in Cidrs : AddressPresent(i, c) \/ AddressRemoved(i, c)
    \/ Clear

LocalSpec == LocalInit /\ [][LocalNext]_localVars

-----------------------------------------------------------------------------
(* Properties *)

Entries == [known : BOOLEAN, mac : Macs \cup {NoMac},
            cidrs : SUBSET Cidrs]

\* Types of the tracker's state.
LocalTypeOK ==
    /\ interfaces \in [Ifaces -> Entries]
    /\ macRefs \in [Macs -> Nat]
    /\ ipRefs \in [LocalIpSpace -> Nat]
    /\ localMacs \in SUBSET Macs
    /\ localIps \in SUBSET LocalIpSpace

MacOwners(m) == {i \in Ifaces : interfaces[i].mac = m}
IpOwners(ip) == {o \in Ifaces \X Cidrs : o[2] \in interfaces[o[1]].cidrs /\ IpOf(o[2]) = ip}

\* The MAC half: a count is the number of interfaces that carry the MAC, and
\* localMacs holds exactly the MACs some interface carries, whatever the
\* order of MAC changes, moves between interfaces and removals.
MacOwnershipExact ==
    \A m \in Macs : /\ macRefs[m] = Cardinality(MacOwners(m))
                    /\ m \in localMacs <=> MacOwners(m) # {}

\* The IP half: an IP stays local until the last CIDR that holds it, on any
\* interface, is gone; repeated or unmatched address events do not skew it.
IpOwnershipExact ==
    \A ip \in LocalIpSpace : /\ ipRefs[ip] = Cardinality(IpOwners(ip))
                             /\ ip \in localIps <=> IpOwners(ip) # {}

\* Both halves, through every interleaving of link and address observations.
OwnershipExact == MacOwnershipExact /\ IpOwnershipExact

=============================================================================
