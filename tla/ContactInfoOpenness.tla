-------------------------- MODULE ContactInfoOpenness --------------------------
(***************************************************************************)
(* The node's own contact info, our_contact_info in src/net/sstp/server.rs *)
(* (a std Mutex<ContactInfo>), written by two kinds of task:              *)
(*                                                                         *)
(*  - test_openness in src/main.rs, run by main after load_node has       *)
(*    started the node, which for UDPv4, TCPv4, UDPv6 and TCPv6 in turn   *)
(*    takes the configured openness or tests it (an await over the        *)
(*    bootstrap nodes), then clones the contact info (contact_info),      *)
(*    sets the openness in the clone, and writes it back                  *)
(*    (set_contact_info);                                                 *)
(*  - the packet tasks of the server, where process_hello_ack_packet      *)
(*    calls our_contact_info.lock().unwrap().update(link_address, ..)     *)
(*    for every verified HELLO_ACK.                                       *)
(*                                                                         *)
(* The runtime is tokio's multi-threaded one (#[tokio::main]): a packet   *)
(* task may run between the clone and the write back, although no await  *)
(* separates them.  ContactInfo::update is not under src/; it is modelled *)
(* from spec 4.11: the link address a peer reports replaces our address   *)
(* of that family.  Addresses and openness values are abstract.           *)
(***************************************************************************)
EXTENDS Naturals, Sequences, FiniteSets

CONSTANTS
    Families,   \* the families with a configured address: subset of {"v4", "v6"}
    Present,    \* the transport entries ContactInfo::from_config created
    Config,     \* Config[ft]: the configured openness string, parsed or not
    Addrs,      \* link addresses a peer may report
    InitAddr,   \* the configured address of every family
    Openness,   \* {"Bidirectional", "Punchable", "Unidirectional"}
    Unset,      \* the *_openness config field is None
    Invalid,    \* the field does not parse (Openness::from_str fails)
    None,
    MaxAcks,    \* bound on the HELLO_ACKs processed
    Peers,      \* contact infos of the peers a lookup may dial
    MaxDials    \* bound on the dials made

\* The four blocks of test_openness, in the order they run.
Order == <<<<"v4", "udp">>, <<"v4", "tcp">>, <<"v6", "udp">>, <<"v6", "tcp">>>>

Entries == {Order[k] : k \in 1 .. Len(Order)}

\* Every contact info a peer may advertise: any set of transport entries,
\* each at any openness.
AllContactInfos ==
    UNION {[d -> {"Bidirectional", "Punchable", "Unidirectional"}] : d \in SUBSET Entries}

ASSUME /\ Present \subseteq Entries
       /\ Config \in [Entries -> Openness \cup {Unset, Invalid}]
       /\ InitAddr \in Addrs
       /\ MaxAcks \in Nat /\ MaxDials \in Nat
       /\ Peers \subseteq AllContactInfos

VARIABLES
    ci,        \* our_contact_info: [ip : [Families -> Addrs], open : [Present -> Openness]]
    pc,        \* the block of test_openness that runs next (Len(Order)+1: returned)
    local,     \* the block's modified clone before set_contact_info (None: not taken)
    acks,      \* HELLO_ACKs processed so far
    observed,  \* ghost: the link address of the last update of each family
    result,    \* ghost: the openness each block found (None: none)
    dials,     \* dials made so far
    panicked   \* ghost: a dial's task panicked

dialVars == <<dials, panicked>>

vars == <<ci, pc, local, acks, observed, result, dialVars>>

CS == INSTANCE ContactStrategy

\* The node's SocketCollection: SocketCollection::bind makes a socket
\* server for every configured port, the same ports ContactInfo::from_config
\* makes transport entries for.
Sockets == Present

ContactInfos == [ip : [Families -> Addrs], open : [Present -> Openness]]

-----------------------------------------------------------------------------
\* The openness a block may end with: the configured value, Unidirectional
\* when it does not parse, else the outcome of the test, None when there
\* are fewer than two bootstrap nodes or no connectivity.
Determine(ft) ==
    IF Config[ft] \in Openness THEN {Config[ft]}
    ELSE IF Config[ft] = Invalid THEN {"Unidirectional"}
    ELSE Openness \cup {None}

\* Mutant: the block sets the UDP entry of its family, whatever its
\* transport (a copy of the UDP block left unedited).
SetOpennessUdp(c, ft, o) ==
    IF <<ft[1], "udp">> \in Present THEN [c EXCEPT !.open[<<ft[1], "udp">>] = o] ELSE c

\* if let Some(entry) = &mut ci.ipvN { if let Some(entry) =
\* &mut entry.availability.T { entry.openness = openness; } }
SetOpenness(c, ft, o) ==
    IF ft \in Present THEN [c EXCEPT !.open[ft] = o] ELSE c

\* Mutant: the update rebuilds the address part from the reported
\* address alone, dropping the other family.
UpdateReplace(c, f, a) == [c EXCEPT !.ip = [g \in {f} |-> a]]

\* ContactInfo::update: the reported link address becomes our address.
Update(c, f, a) == [c EXCEPT !.ip[f] = a]

-----------------------------------------------------------------------------
TypeOK ==
    /\ ci \in ContactInfos
    /\ pc \in 1 .. Len(Order) + 1
    /\ local \in ContactInfos \cup {None}
    /\ acks \in 0 .. MaxAcks
    /\ observed \in [Families -> Addrs]
    /\ result \in [Entries -> Openness \cup {None}]
    /\ dials \in 0 .. MaxDials
    /\ panicked \in BOOLEAN

\* main: the node is started (load_node) with the contact info built from
\* the config, then test_openness runs.
Init ==
    /\ ci \in [ip : {[f \in Families |-> InitAddr]}, open : [Present -> Openness]]
    /\ pc = 1
    /\ local = None
    /\ acks = 0
    /\ observed = [f \in Families |-> InitAddr]
    /\ result = [ft \in Entries |-> None]
    /\ dials = 0
    /\ panicked = FALSE

\* A block up to and including the clone: a family without a configured
\* address is skipped; otherwise the openness is determined and, if there
\* is one, the contact info is cloned and the openness set in the clone.
Probe ==
    /\ pc <= Len(Order)
    /\ local = None
    /\ LET ft == Order[pc]
       IN IF ft[1] \notin Families
          THEN /\ pc' = pc + 1
               /\ UNCHANGED <<local, result>>
          ELSE \E o \in Determine(ft) :
                 /\ result' = [result EXCEPT ![ft] = o]
                 /\ IF o = None
                    THEN /\ pc' = pc + 1
                         /\ UNCHANGED local
                    ELSE /\ local' = SetOpenness(ci, ft, o)
                         /\ UNCHANGED pc
    /\ UNCHANGED <<ci, acks, observed, dialVars>>

\* g.node.set_contact_info(ci): the clone replaces our contact info.
Set ==
    /\ local # None
    /\ ci' = local
    /\ local' = None
    /\ pc' = pc + 1
    /\ UNCHANGED <<acks, observed, result, dialVars>>

\* process_hello_ack_packet, after the packet verified: update our
\* contact info with the link address the peer saw.
HelloAck(f, a) ==
    /\ acks < MaxAcks
    /\ ci' = Update(ci, f, a)
    /\ observed' = [observed EXCEPT ![f] = a]
    /\ acks' = acks + 1
    /\ UNCHANGED <<pc, local, result, dialVars>>

\* The UDPv4 address and port connect_by_strategy puts in the reversed
\* connection request: my_contact_info.ipv4.unwrap() and
\* ...availability.udp.unwrap() panic when we have no such entry.
HasOwnUdp4 == "v4" \in Families /\ <<"v4", "udp">> \in Present

\* A lookup task picks the strategy for a peer with our current contact
\* info (pick_contact_strategy) and runs connect_by_strategy:
\*  - Direct: connect -> SocketCollection::connect for the option;
\*  - HolePunch: a reversed-connection request that names our UDPv4
\*    contact is sent (asksReverse) when a relay connection is passed in
\*    (last_open_connection, as FindValueIter does), or when no bucket
\*    holds a connection to the peer and the overlay finds one for it;
\*    with a bucket connection the peer is dialled on that connection's
\*    option, and with neither the result is None;
\*  - Relay: the overlay opens a relay (not under src/).
\* No strategy (no option, or no own entry at it): the peer is not dialled.
Dial(t) ==
    LET s == CS!PickContactStrategy(Sockets, ci.open, t)
    IN /\ dials < MaxDials
       /\ s # None
       /\ dials' = dials + 1
       /\ \E asksReverse \in BOOLEAN :
             panicked' = (panicked \/ (s.method = "HolePunch" /\ asksReverse /\ ~HasOwnUdp4))
       /\ UNCHANGED <<ci, pc, local, acks, observed, result>>

TestOpenness == Probe \/ Set

Next ==
    \/ TestOpenness
    \/ \E f \in Families, a \in Addrs : HelloAck(f, a)
    \/ \E t \in Peers : Dial(t)

Spec == Init /\ [][Next]_vars

-----------------------------------------------------------------------------
(***************************************************************************)
(* Properties.                                                             *)
(***************************************************************************)

\* Each block of test_openness re-reads the contact info before it writes
\* it back, so the openness a finished block stored for its transport is
\* not undone by a later block: every openness found is still advertised.
OpennessKept ==
    \A k \in 1 .. pc - 1 :
        LET ft == Order[k]
        IN (ft \in Present /\ result[ft] # None) => ci.open[ft] = result[ft]

\* Spec 4.11: the link address reported in HELLO_ACK drives our contact
\* info; the address we advertise is the one the last update recorded.
AdvertisedAddressCurrent ==
    \A f \in Families : ci.ip[f] = observed[f]

\* The option a node should take to reach a peer: among the entries both
\* sides have, the most open one; at equal openness IPv6 before IPv4 and
\* UDP before TCP.
OpenRank == [Bidirectional |-> 0, Punchable |-> 1, Unidirectional |-> 2]

Better(t, e, f) ==
    \/ OpenRank[t[e]] < OpenRank[t[f]]
    \/ /\ OpenRank[t[e]] = OpenRank[t[f]]
       /\ \/ e[1] = "v6" /\ f[1] = "v4"
          \/ e[1] = f[1] /\ e[2] = "udp" /\ f[2] = "tcp"

Preferred(t) ==
    LET common == Sockets \cap DOMAIN t
    IN {e \in common : \A f \in common \ {e} : Better(t, e, f)}

\* For every contact info a peer may advertise, the strategy
\* pick_contact_strategy builds with our current contact info uses the
\* preferred option, is Direct exactly when the peer is Bidirectional
\* there, and is missing only when the two sides share no entry.
StrategyIsPreferred ==
    \A t \in AllContactInfos :
        LET s == CS!PickContactStrategy(Sockets, ci.open, t)
        IN IF Sockets \cap DOMAIN t = {} THEN s = None
           ELSE /\ s # None
                /\ s.contact \in Preferred(t)
                /\ (s.method = "Direct") = (t[s.contact] = "Bidirectional")

\* Spec 4.10: for HolePunch the initiator sends a reversed-connection
\* request naming its own address; connect_by_strategy takes it from our
\* UDPv4 entry with unwrap(), so a node without one must never reach it.
NoHolePunchPanic == ~panicked
====
