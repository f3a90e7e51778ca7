------------------------------ MODULE SstpRelay ------------------------------
(***************************************************************************)
(* The relayed SSTP handshake of src/net/sstp/server.rs between three      *)
(* servers: a Source that calls relay_with_timeout, the Relay it names,    *)
(* and the Target whose address it passes.                                 *)
(*                                                                         *)
(*   Source --RELAY_HELLO--> Relay            (relay_with_timeout)         *)
(*   Relay --RELAYED_HELLO--> Target          (process_relay_hello_packet) *)
(*   Target --HELLO_ACK--> Relay              (process_relayed_hello_packet *)
(*                                              -> _process_hello_packet)  *)
(*   Relay: process_hello_ack_packet                                       *)
(*                                                                         *)
(* Each server has its own session table and cursor; ids come from         *)
(* SstpSessionIds!NextId.  Datagrams are delivered in any order; loss is   *)
(* not needed for what is checked here (SstpHandshake covers it).  No      *)
(* code sends RELAYED_HELLO_ACK or RELAY_HELLO_ACK, so their handlers      *)
(* (process_relayed_hello_ack_packet, process_relay_hello_ack_packet)      *)
(* never run between StoneNet servers and have no action here.            *)
(***************************************************************************)
EXTENDS Naturals, FiniteSets, TLC

CONSTANTS
    Source, Relay, Target,  \* the three servers (model values)
    IdBits,                 \* width of a session id
    MaxSends,               \* RELAY_HELLO sends within the deadline
    None, NoId, NoHost

Hosts == {Source, Relay, Target}

SI == INSTANCE SstpSessionIds WITH used <- {}, nextId <- 0, outcome <- None

Ids == SI!Ids

VARIABLES
    att,      \* the locals of the Source's relay_with_timeout call
    chan,     \* the value in that call's hello channel (None: empty)
    srcSess,  \* the Source's session table: id -> SessionTransportDataDirect
    relSess,  \* the Relay's session table: id -> SessionTransportDataRelay
    tgtSess,  \* the Target's session table: id -> SessionTransportDataDirect
    nextId,   \* nextId[h]: the cursor of h's table
    net,      \* datagrams in flight
    panicked  \* ghost: a packet handler task of the Relay panicked

vars == <<att, chan, srcSess, relSess, tgtSess, nextId, net, panicked>>

\* A datagram.  sid is the session_id of a (relay) hello and the
\* server_session_id of a HELLO_ACK; rsid is the relayer_session_id of a
\* RELAYED_HELLO and the source_session_id of a HELLO_ACK; key is the node
\* whose public key signs the header; target is the target address of a
\* RELAY_HELLO.
Pkt(type, from, to, sid, rsid, key, target) ==
    [type |-> type, from |-> from, to |-> to, sid |-> sid, rsid |-> rsid,
     key |-> key, target |-> target]

Packets ==
    {Pkt(ty, f, t, s, r, k, g) : ty \in {"RELAY_HELLO", "RELAYED_HELLO", "HELLO_ACK"},
                                 f \in Hosts, t \in Hosts, s \in Ids \cup {NoId},
                                 r \in Ids \cup {NoId}, k \in Hosts, g \in Hosts \cup {NoHost}}

\* Allocate an id in table t of host h (Sessions::next_id + insert).
Alloc(t, h) == SI!NextId(DOMAIN t, nextId[h])

\* Insert rec under id into table t.
Insert(t, id, rec) == (id :> rec) @@ t

-----------------------------------------------------------------------------
TypeOK ==
    /\ att \in [st : {"idle", "waiting", "connected", "failed"},
                sid : Ids \cup {NoId}, sends : 0 .. MaxSends]
    /\ chan \in {None} \cup [node : Hosts, sid : Ids, rsid : Ids \cup {NoId}]
    /\ DOMAIN srcSess \subseteq Ids /\ DOMAIN relSess \subseteq Ids /\ DOMAIN tgtSess \subseteq Ids
    /\ nextId \in [Hosts -> Ids]
    /\ net \subseteq Packets
    /\ panicked \in BOOLEAN

Init ==
    /\ att = [st |-> "idle", sid |-> NoId, sends |-> 0]
    /\ chan = None
    /\ srcSess = <<>> /\ relSess = <<>> /\ tgtSess = <<>>
    /\ nextId = [h \in Hosts |-> 0]
    /\ net = {}
    /\ panicked = FALSE

\* relay_with_timeout up to the loop: a Direct session with a hello
\* channel, relay_node_id set and the target as their_node_id (None from
\* next_id: OutOfSessions).
RelayStart ==
    /\ att.st = "idle"
    /\ LET r == Alloc(srcSess, Source)
       IN /\ nextId' = [nextId EXCEPT ![Source] = r.next]
          /\ IF r.id = None
             THEN /\ att' = [att EXCEPT !.st = "failed"]
                  /\ UNCHANGED srcSess
             ELSE /\ att' = [st |-> "waiting", sid |-> r.id, sends |-> 0]
                  /\ srcSess' = Insert(srcSess, r.id, [their |-> Target, dest |-> NoId,
                                                       relayNode |-> Relay, hello |-> TRUE,
                                                       handle |-> FALSE])
    /\ UNCHANGED <<chan, relSess, tgtSess, net, panicked>>

\* One loop iteration: send the RELAY_HELLO (new_relay_hello_packet, the
\* same packet every time) and wait on the hello channel or sleep.
RelaySend ==
    /\ att.st = "waiting"
    /\ att.sends < MaxSends
    /\ net' = net \cup {Pkt("RELAY_HELLO", Source, Relay, att.sid, NoId, Source, Target)}
    /\ att' = [att EXCEPT !.sends = @ + 1]
    /\ UNCHANGED <<chan, srcSess, relSess, tgtSess, nextId, panicked>>

\* The hello_receiver branch: check the node id, then spawn the
\* transporter and store its handle.
RelayReceive ==
    /\ att.st = "waiting"
    /\ chan # None
    /\ chan' = None
    /\ IF chan.node # Target
       THEN /\ att' = [att EXCEPT !.st = "failed"]   \* Error::InvalidNodeId
            /\ UNCHANGED srcSess
       ELSE /\ att' = [att EXCEPT !.st = "connected"]
            /\ srcSess' = [srcSess EXCEPT ![att.sid].handle = TRUE]
    /\ UNCHANGED <<relSess, tgtSess, nextId, net, panicked>>

\* The loop ends at the deadline, 2 * DEFAULT_TIMEOUT, which is many round
\* trips: every send was made and nothing is left in flight or unread.
RelayTimeout ==
    /\ att.st = "waiting"
    /\ att.sends = MaxSends
    /\ net = {}
    /\ chan = None
    /\ att' = [att EXCEPT !.st = "failed"]
    /\ UNCHANGED <<chan, srcSess, relSess, tgtSess, nextId, net, panicked>>

\* process_relay_hello_packet at the Relay: connect to the target address,
\* take the target's node id from the hello's header key, create a relay
\* session (new_relay_session) and forward a RELAYED_HELLO to the target.
RecvRelayHello(p) ==
    /\ p \in net /\ p.type = "RELAY_HELLO" /\ p.to = Relay
    /\ LET r == Alloc(relSess, Relay)
       IN /\ nextId' = [nextId EXCEPT ![Relay] = r.next]
          /\ IF r.id = None
             THEN /\ net' = net \ {p}                     \* Error::OutOfSessions
                  /\ UNCHANGED relSess
             ELSE /\ relSess' = Insert(relSess, r.id, [their |-> p.key, source |-> p.sid,
                                                       sourceAddr |-> p.from,
                                                       target |-> 0, targetAddr |-> p.target])
                  /\ net' = (net \ {p}) \cup
                            {Pkt("RELAYED_HELLO", Relay, p.target, p.sid, r.id, p.key, NoHost)}
    /\ UNCHANGED <<att, chan, srcSess, tgtSess, panicked>>

\* Sessions::find_their_session at the Target.
TheirSession(node, theirSid) ==
    {id \in DOMAIN tgtSess : tgtSess[id].their = node /\ tgtSess[id].dest = theirSid}

\* process_relayed_hello_packet -> _process_hello_packet at the Target with
\* dest_session_id = relayer_session_id and encrypt_session_id = the
\* source's session id: find or create the session, spawn its transporter
\* if new, and send a HELLO_ACK back to the Relay's address.
RecvRelayedHello(p) ==
    /\ p \in net /\ p.type = "RELAYED_HELLO" /\ p.to = Target
    /\ LET known == TheirSession(p.key, p.rsid)
           r     == Alloc(tgtSess, Target)
           ack(id) == Pkt("HELLO_ACK", Target, p.from, id, p.rsid, Target, NoHost)
       IN IF known # {}
          THEN /\ net' = (net \ {p}) \cup {ack(CHOOSE id \in known : TRUE)}
               /\ UNCHANGED <<tgtSess, nextId>>
          ELSE /\ nextId' = [nextId EXCEPT ![Target] = r.next]
               /\ IF r.id = None
                  THEN /\ net' = net \ {p}                \* Error::OutOfSessions
                       /\ UNCHANGED tgtSess
                  ELSE /\ tgtSess' = Insert(tgtSess, r.id, [their |-> p.key, dest |-> p.rsid,
                                                            relayNode |-> NoHost, hello |-> FALSE,
                                                            handle |-> TRUE])
                       /\ net' = (net \ {p}) \cup {ack(r.id)}
    /\ UNCHANGED <<att, chan, srcSess, relSess, panicked>>

\* process_hello_ack_packet at the Relay: the session named by the ack's
\* source_session_id (else InvalidSessionId), the header key must be its
\* their_node_id (else InvalidNodeId), and a Relay session then hits
\* panic!("unexpected session transport data type").
RecvHelloAckAtRelay(p) ==
    /\ p \in net /\ p.type = "HELLO_ACK" /\ p.to = Relay
    /\ net' = net \ {p}
    /\ panicked' = (panicked \/ (p.rsid \in DOMAIN relSess /\ relSess[p.rsid].their = p.key))
    /\ UNCHANGED <<att, chan, srcSess, relSess, tgtSess, nextId>>

Next ==
    \/ RelayStart \/ RelaySend \/ RelayReceive \/ RelayTimeout
    \/ \E p \in net : RecvRelayHello(p) \/ RecvRelayedHello(p) \/ RecvHelloAckAtRelay(p)

\* Every server's packet tasks run, and the Source's loop runs, until the
\* deadline.
Fairness ==
    /\ WF_vars(RelayStart) /\ WF_vars(RelaySend) /\ WF_vars(RelayReceive) /\ WF_vars(RelayTimeout)
    /\ WF_vars(\E p \in net : RecvRelayHello(p) \/ RecvRelayedHello(p) \/ RecvHelloAckAtRelay(p))

Spec == Init /\ [][Next]_vars /\ Fairness

-----------------------------------------------------------------------------
(***************************************************************************)
(* Properties.                                                             *)
(***************************************************************************)

\* With reliable delivery and responsive servers, relay_with_timeout
\* returns a connection to the target (spec 4.3, scenario 5).
RelayConnects == <>(att.st = "connected")
====
