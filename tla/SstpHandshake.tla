---------------------------- MODULE SstpHandshake ----------------------------
(***************************************************************************)
(* The SSTP session table and direct handshake of src/net/sstp/server.rs   *)
(* between a set of hosts over an unreliable datagram link.                *)
(*                                                                         *)
(*  - an initiator (Server::connect_with_timeout) allocates a local        *)
(*    session, sends HELLO and resends it until a HELLO_ACK result comes   *)
(*    back on the session's hello channel or its deadline passes;          *)
(*  - every received packet is handled by its own spawned task; a HELLO    *)
(*    runs new_incomming_session under the sessions lock, then, after the  *)
(*    first-request processor, spawns a transporter and sends HELLO_ACK    *)
(*    (_process_hello_packet);                                             *)
(*  - a HELLO_ACK is routed to the initiator's hello channel               *)
(*    (process_hello_ack_packet);                                          *)
(*  - CRYPTED packets are routed by session id (process_crypted_packet);   *)
(*  - the garbage collector (clean_sessions) expires idle sessions.        *)
(*                                                                         *)
(* Data is abstracted: an ephemeral X25519 key is a number 1..MaxDh, the   *)
(* transporter key of a session is the set {own DH key, peer DH key}, so   *)
(* two transporters derive the same key iff they hold the same set.  Time  *)
(* is abstracted: any session may have been idle past its timeout when the *)
(* cleaner runs, and a connect may pass its deadline at any loop check.    *)
(***************************************************************************)
EXTENDS Naturals, FiniteSets

CONSTANTS
    Hosts,          \* nodes running an SSTP server
    IdBits,         \* width of a session id (16 in the code)
    Attempts,       \* identifiers of connect_with_timeout calls
    MaxHelloSends,  \* bound on HELLO (re)sends per connect call
    MaxDh,          \* bound on ephemeral DH keys generated in a behaviour
    None,           \* model value: Option::None
    NoId,           \* model value: an unset Option<u16> session id
    NoHost,         \* model value: attempt not started yet
    NoSession       \* model value: no entry in Sessions::map

ASSUME MaxHelloSends \in Nat \ {0} /\ MaxDh \in Nat

SI == INSTANCE SstpSessionIds WITH used <- {}, nextId <- 0, outcome <- None

Ids    == SI!Ids
DhKeys == 1 .. MaxDh

\* SessionData with SessionTransportData::Direct.  dest and enc are
\* dest_session_id / encrypt_session_id, hello is "hello_channel is Some",
\* handle is "handle is Some", rx is "the receiving end of packet_processor
\* is alive".  uid is the DH key the session was created with (a ghost
\* identity for the Arc<Mutex<SessionData>>); tkey / tenc are the key and
\* the encrypt session id of the transporter spawned for the session.
Session ==
    [peer: Hosts, dest: Ids \cup {NoId}, enc: Ids \cup {NoId},
     hello: BOOLEAN, handle: BOOLEAN, rx: BOOLEAN, uid: DhKeys,
     tkey: SUBSET DhKeys, tenc: Ids \cup {NoId}]

PacketTypes == {"HELLO", "HELLO_ACK", "CRYPTED"}

\* One record shape for every packet: sid is the session id the packet is
\* addressed to or announces, server the responder's id in a HELLO_ACK.
Packet ==
    [type: PacketTypes, src: Hosts, dst: Hosts, sid: Ids, server: Ids \cup {NoId},
     dh: DhKeys \cup {0}, req: BOOLEAN]

AttemptState == {"idle", "waiting", "connected", "failed"}

VARIABLES
    sess,     \* sess[h][id]: Sessions::map of host h
    nextId,   \* nextId[h]: Sessions::next_id of host h
    net,      \* datagrams in flight
    att,      \* att[c]: the local state of connect call c
    chan,     \* chan[c]: the value waiting in c's hello channel
    tasks,    \* HELLO handler tasks past new_incomming_session
    dhUsed    \* number of ephemeral DH keys generated so far

vars == <<sess, nextId, net, att, chan, tasks, dhUsed>>

UsedIds(h) == {s \in Ids : sess[h][s] # NoSession}

HasSession(h, s, k) == sess[h][s] # NoSession /\ sess[h][s].uid = k

Msg(type, src, dst, sid, server, dh, req) ==
    [type |-> type, src |-> src, dst |-> dst, sid |-> sid, server |-> server,
     dh |-> dh, req |-> req]

NewSession(peer, dest, enc, hello, uid) ==
    [peer |-> peer, dest |-> dest, enc |-> enc, hello |-> hello,
     handle |-> FALSE, rx |-> TRUE, uid |-> uid, tkey |-> {}, tenc |-> NoId]

TypeOK ==
    /\ sess \in [Hosts -> [Ids -> Session \cup {NoSession}]]
    /\ nextId \in [Hosts -> Ids]
    /\ net \subseteq Packet
    /\ att \in [Attempts -> [st: AttemptState, from: Hosts \cup {NoHost},
                              to: Hosts \cup {NoHost}, sid: Ids \cup {NoId},
                              dh: DhKeys \cup {0}, sends: 0 .. MaxHelloSends,
                              req: BOOLEAN]]
    /\ chan \in [Attempts -> [server: Ids, dh: DhKeys] \cup {None}]
    /\ tasks \subseteq [host: Hosts, peer: Hosts, sid: Ids, dest: Ids, dh: DhKeys,
                        peerDh: DhKeys, isNew: BOOLEAN, uid: DhKeys, req: BOOLEAN]
    /\ dhUsed \in 0 .. MaxDh

Init ==
    /\ sess = [h \in Hosts |-> [s \in Ids |-> NoSession]]
    /\ nextId = [h \in Hosts |-> 0]
    /\ net = {}
    /\ att = [c \in Attempts |-> [st |-> "idle", from |-> NoHost, to |-> NoHost,
                                  sid |-> NoId, dh |-> 0, sends |-> 0,
                                  req |-> FALSE]]
    /\ chan = [c \in Attempts |-> None]
    /\ tasks = {}
    /\ dhUsed = 0

-----------------------------------------------------------------------------
(***************************************************************************)
(* Initiator: Server::connect_with_timeout.                                *)
(***************************************************************************)

\* Generate the DH key, new_outgoing_session (OutOfSessions when next_id
\* gives None), compose the HELLO and send it on the first loop iteration.
ConnectStart(c, from, to, req) ==
    LET k == dhUsed + 1
        r == SI!NextId(UsedIds(from), nextId[from])
    IN /\ att[c].st = "idle"
       /\ from # to
       /\ dhUsed < MaxDh
       /\ dhUsed' = k
       /\ nextId' = [nextId EXCEPT ![from] = r.next]
       /\ IF r.id = None
          THEN /\ att' = [att EXCEPT ![c] = [st |-> "failed", from |-> from, to |-> to,
                                             sid |-> NoId, dh |-> k, sends |-> 0,
                                             req |-> req]]
               /\ UNCHANGED <<sess, net>>
          ELSE /\ sess' = [sess EXCEPT ![from][r.id] = NewSession(to, NoId, NoId, TRUE, k)]
               /\ att' = [att EXCEPT ![c] = [st |-> "waiting", from |-> from, to |-> to,
                                             sid |-> r.id, dh |-> k, sends |-> 1,
                                             req |-> req]]
               /\ net' = net \cup {Msg("HELLO", from, to, r.id, NoId, k, req)}
       /\ UNCHANGED <<chan, tasks>>

\* Mutant: the resend is not bounded by the loop's deadline.
HelloRetryUnbounded(c) ==
    /\ att[c].st = "waiting"
    /\ net' = net \cup {Msg("HELLO", att[c].from, att[c].to, att[c].sid, NoId,
                             att[c].dh, att[c].req)}
    /\ att' = [att EXCEPT ![c].sends = @ + 1]
    /\ UNCHANGED <<sess, nextId, chan, tasks, dhUsed>>

\* The sleep branch of the select fired before the deadline: send the same
\* HELLO packet again.
HelloRetry(c) ==
    /\ att[c].st = "waiting"
    /\ att[c].sends < MaxHelloSends
    /\ net' = net \cup {Msg("HELLO", att[c].from, att[c].to, att[c].sid, NoId,
                             att[c].dh, att[c].req)}
    /\ att' = [att EXCEPT ![c].sends = @ + 1]
    /\ UNCHANGED <<sess, nextId, chan, tasks, dhUsed>>

\* The loop condition fails: the deadline passed (Error::Timeout) or the stop
\* flag was set (Error::ConnectionClosed).  Returning drops packet_receiver,
\* closing the session's packet channel; the session stays in the table.
ConnectTimeout(c) ==
    LET h == att[c].from
        s == att[c].sid
    IN /\ att[c].st = "waiting"
       /\ att' = [att EXCEPT ![c].st = "failed"]
       /\ sess' = IF HasSession(h, s, att[c].dh)
                  THEN [sess EXCEPT ![h][s].rx = FALSE]
                  ELSE sess
       /\ UNCHANGED <<nextId, net, chan, tasks, dhUsed>>

\* The hello_receiver branch of the select: the node id was already checked
\* against the expected one, so spawn the transporter with the initial key
\* of both DH keys and store its handle in the session this call created.
\* The Arc is held across the awaits, so if the cleaner removed the session
\* meanwhile the handle goes into a session that is no longer in the table.
ConnectReceive(c) ==
    LET h == att[c].from
        s == att[c].sid
        r == chan[c]
    IN /\ att[c].st = "waiting"
       /\ r # None
       /\ att' = [att EXCEPT ![c].st = "connected"]
       /\ sess' = IF HasSession(h, s, att[c].dh)
                  THEN [sess EXCEPT ![h][s] = [@ EXCEPT !.handle = TRUE,
                                                       !.tkey = {att[c].dh, r.dh},
                                                       !.tenc = r.server]]
                  ELSE sess
       /\ UNCHANGED <<nextId, net, chan, tasks, dhUsed>>

-----------------------------------------------------------------------------
(***************************************************************************)
(* Responder: process_hello_packet / _process_hello_packet.                *)
(***************************************************************************)

\* Sessions::find_their_session: a Direct session of that node whose
\* dest_session_id is their session id.
FindTheirSession(h, node, theirSid) ==
    {s \in UsedIds(h) : sess[h][s].peer = node /\ sess[h][s].dest = theirSid}

\* Mutant: a new session is made without looking the peer's session up.
NewIncommingSessionUnchecked(h, p) ==
    LET r     == SI!NextId(UsedIds(h), nextId[h])
        k     == dhUsed + 1
    IN /\ nextId' = [nextId EXCEPT ![h] = r.next]
       /\ IF r.id = None
          THEN UNCHANGED <<sess, tasks, dhUsed>>
          ELSE /\ sess' = [sess EXCEPT ![h][r.id] = NewSession(p.src, p.sid, p.sid, FALSE, k)]
               /\ tasks' = tasks \cup {[host |-> h, peer |-> p.src, sid |-> r.id,
                                         dest |-> p.sid, dh |-> k, peerDh |-> p.dh,
                                         isNew |-> TRUE, uid |-> k, req |-> p.req]}
               /\ dhUsed' = k

\* Up to the first await after new_incomming_session: look the peer session
\* up and, if it is not known, allocate an id and insert a new session, all
\* under the sessions lock; then generate a fresh DH key.  This runs for a
\* resent HELLO too.  OutOfSessions ends the task before the key is made.
NewIncommingSession(h, p) ==
    LET found == FindTheirSession(h, p.src, p.sid)
        r     == SI!NextId(UsedIds(h), nextId[h])
        k     == dhUsed + 1
        Task(sid, isNew, uid) ==
            [host |-> h, peer |-> p.src, sid |-> sid, dest |-> p.sid, dh |-> k,
             peerDh |-> p.dh, isNew |-> isNew, uid |-> uid, req |-> p.req]
    IN IF found # {}
       THEN LET s == CHOOSE x \in found : TRUE
            IN /\ tasks' = tasks \cup {Task(s, FALSE, sess[h][s].uid)}
               /\ dhUsed' = k
               /\ UNCHANGED <<sess, nextId>>
       ELSE /\ nextId' = [nextId EXCEPT ![h] = r.next]
            /\ IF r.id = None
               THEN UNCHANGED <<sess, tasks, dhUsed>>
               ELSE /\ sess' = [sess EXCEPT ![h][r.id] = NewSession(p.src, p.sid, p.sid, FALSE, k)]
                    /\ tasks' = tasks \cup {Task(r.id, TRUE, k)}
                    /\ dhUsed' = k

RecvHello(h, p) ==
    /\ p.type = "HELLO"
    /\ p.dst = h
    /\ dhUsed < MaxDh
    /\ net' = net \ {p}
    /\ NewIncommingSession(h, p)
    /\ UNCHANGED <<att, chan>>

\* The first-request processor returned None (or no message processor is
\* set): the task returns before any HELLO_ACK is sent, dropping the
\* packet_receiver it made.  For a new session that closes its channel.
HelloRequestRejected(t) ==
    /\ t.req
    /\ tasks' = tasks \ {t}
    /\ sess' = IF t.isNew /\ HasSession(t.host, t.sid, t.uid)
               THEN [sess EXCEPT ![t.host][t.sid].rx = FALSE]
               ELSE sess
    /\ UNCHANGED <<nextId, net, att, chan, dhUsed>>

\* The rest of _process_hello_packet: build the HELLO_ACK with the DH key of
\* this task; for a known session just send it again; for a new one spawn
\* the transporter (initial key from this task's key and the HELLO's key),
\* store its handle in the session and send the HELLO_ACK.
HelloAck(t) ==
    /\ tasks' = tasks \ {t}
    /\ net' = net \cup {Msg("HELLO_ACK", t.host, t.peer, t.dest, t.sid, t.dh, FALSE)}
    /\ sess' = IF t.isNew /\ HasSession(t.host, t.sid, t.uid)
               THEN [sess EXCEPT ![t.host][t.sid] = [@ EXCEPT !.handle = TRUE,
                                                             !.tkey = {t.dh, t.peerDh},
                                                             !.tenc = t.dest]]
               ELSE sess
    /\ UNCHANGED <<nextId, att, chan, dhUsed>>

-----------------------------------------------------------------------------
(***************************************************************************)
(* Initiator: process_hello_ack_packet.                                    *)
(***************************************************************************)

\* The session the ack names must exist, must belong to the node that signed
\* the ack, and must still hold its hello channel; otherwise the packet is
\* dropped.  The channel is taken out of the session and the result sent on
\* it; if the connect call already returned, its receiver is gone and the
\* result is lost.
RecvHelloAck(h, p) ==
    LET s == p.sid
        Owner(c) == /\ att[c].from = h /\ att[c].sid = s
                    /\ att[c].dh = sess[h][s].uid /\ att[c].st = "waiting"
    IN /\ p.type = "HELLO_ACK"
       /\ p.dst = h
       /\ net' = net \ {p}
       /\ IF sess[h][s] # NoSession /\ sess[h][s].peer = p.src /\ sess[h][s].hello
          THEN /\ sess' = [sess EXCEPT ![h][s].hello = FALSE]
               /\ chan' = [c \in Attempts |->
                              IF Owner(c) THEN [server |-> p.server, dh |-> p.dh]
                              ELSE chan[c]]
          ELSE UNCHANGED <<sess, chan>>
       /\ UNCHANGED <<nextId, att, tasks, dhUsed>>

-----------------------------------------------------------------------------
(***************************************************************************)
(* Established sessions: CRYPTED traffic and closing.                      *)
(***************************************************************************)

\* A transporter sends a CRYPTED packet to the session id it encrypts for.
SendCrypted(h, s) ==
    /\ sess[h][s] # NoSession
    /\ sess[h][s].tkey # {}
    /\ sess[h][s].rx
    /\ net' = net \cup {Msg("CRYPTED", h, sess[h][s].peer, sess[h][s].tenc, NoId, 0, FALSE)}
    /\ UNCHANGED <<sess, nextId, att, chan, tasks, dhUsed>>

\* process_crypted_packet: unknown session ids are dropped; otherwise the
\* packet goes to the session's packet processor, and if its receiver is
\* gone the session is removed from the map.
RecvCrypted(h, p) ==
    /\ p.type = "CRYPTED"
    /\ p.dst = h
    /\ net' = net \ {p}
    /\ sess' = IF sess[h][p.sid] # NoSession /\ ~sess[h][p.sid].rx
               THEN [sess EXCEPT ![h][p.sid] = NoSession]
               ELSE sess
    /\ UNCHANGED <<nextId, att, chan, tasks, dhUsed>>

\* The connection over a transporter is closed and the transporter task
\* ends, dropping the session's packet receiver.
CloseConnection(h, s) ==
    /\ sess[h][s] # NoSession
    /\ sess[h][s].tkey # {}
    /\ sess[h][s].rx
    /\ sess' = [sess EXCEPT ![h][s].rx = FALSE]
    /\ UNCHANGED <<nextId, net, att, chan, tasks, dhUsed>>

\* A datagram is lost.
Lose(p) ==
    /\ net' = net \ {p}
    /\ UNCHANGED <<sess, nextId, att, chan, tasks, dhUsed>>

-----------------------------------------------------------------------------
\* Mutant: an expired session without a handle is never removed.
CleanWithHandlesOnly(h, exp) ==
    /\ exp # {}
    /\ sess' = [sess EXCEPT ![h] = [s \in Ids |->
                    IF s \in exp /\ @[s].handle THEN [@[s] EXCEPT !.handle = FALSE]
                    ELSE @[s]]]
    /\ UNCHANGED <<nextId, net, att, chan, tasks, dhUsed>>

(***************************************************************************)
(* The garbage collector: clean_sessions with the sessions in exp past     *)
(* their keep-alive timeout.  A Direct session with a handle loses the     *)
(* handle; one without is removed.                                         *)
(***************************************************************************)
CleanWith(h, exp) ==
    /\ exp # {}
    /\ sess' = [sess EXCEPT ![h] = [s \in Ids |->
                    IF s \notin exp THEN @[s]
                    ELSE IF @[s].handle THEN [@[s] EXCEPT !.handle = FALSE]
                    ELSE NoSession]]
    /\ UNCHANGED <<nextId, net, att, chan, tasks, dhUsed>>

\* Sessions whose packet receiver is gone: nothing resets their
\* last_activity but stray packets, so they fall idle.
Closed(h) == {s \in UsedIds(h) : ~sess[h][s].rx}

\* A responder session (dest set by new_incomming_session) running a
\* transporter whose peer will never use it: the peer holds no live
\* session encrypting for it and no connect call of the peer to h is
\* still waiting (its HELLO_ACK was lost, or came after the call
\* returned and went to a closed hello channel).  The connection handed to
\* handle_connection_loop then gets nothing, and wait_for ends it after
\* 120 seconds, dropping the connection and its transporter.
HalfOpen(h, s) ==
    LET q == sess[h][s].peer
    IN /\ sess[h][s] # NoSession
       /\ sess[h][s].dest # NoId
       /\ sess[h][s].tkey # {}
       /\ sess[h][s].rx
       /\ \A x \in UsedIds(q) : ~(sess[q][x].peer = h /\ sess[q][x].tenc = s /\ sess[q][x].rx)
       /\ \A c \in Attempts : ~(att[c].st = "waiting" /\ att[c].from = q /\ att[c].to = h)

Next ==
    \/ \E c \in Attempts, from, to \in Hosts, req \in BOOLEAN : ConnectStart(c, from, to, req)
    \/ \E c \in Attempts : HelloRetry(c) \/ ConnectTimeout(c) \/ ConnectReceive(c)
    \/ \E h \in Hosts, p \in net : RecvHello(h, p) \/ RecvHelloAck(h, p) \/ RecvCrypted(h, p)
    \/ \E t \in tasks : HelloRequestRejected(t) \/ HelloAck(t)
    \/ \E h \in Hosts, s \in Ids : SendCrypted(h, s) \/ CloseConnection(h, s)
    \/ \E p \in net : Lose(p)
    \/ \E h \in Hosts : \E exp \in SUBSET UsedIds(h) : CleanWith(h, exp)

\* The garbage collector runs every few seconds for as long as the server
\* runs, so it cannot be kept from expiring closed sessions forever; the
\* 120-second wait of handle_connection_loop cannot be kept from ending a
\* half-open connection.
Fairness ==
    /\ \A h \in Hosts : WF_vars(CleanWith(h, Closed(h)))
    /\ \A h \in Hosts, s \in Ids : WF_vars(HalfOpen(h, s) /\ CloseConnection(h, s))

Spec == Init /\ [][Next]_vars /\ Fairness

-----------------------------------------------------------------------------
(***************************************************************************)
(* Properties.                                                             *)
(***************************************************************************)

\* new_incomming_session looks the peer's session up and inserts a new one
\* under one hold of the sessions lock, so however the handler tasks of
\* resent HELLOs interleave, a host never holds two incoming sessions for
\* the same session of the same peer.
NoDuplicateIncoming ==
    \A h \in Hosts : \A s1, s2 \in UsedIds(h) :
        /\ s1 # s2
        /\ sess[h][s1].dest # NoId
        => ~(sess[h][s1].peer = sess[h][s2].peer /\ sess[h][s1].dest = sess[h][s2].dest)

\* A session whose packet receiver is gone (timed-out connect, rejected
\* first request, closed transporter) is eventually removed from the map
\* by the garbage collector, so its id becomes free again.
AbandonedSessionsReclaimed ==
    \A h \in Hosts, s \in Ids, k \in DhKeys :
        (HasSession(h, s, k) /\ ~sess[h][s].rx) ~> ~HasSession(h, s, k)

\* Two sessions that each run a transporter encrypting for the other
\* (spec: "the transporter on both sides derives the same initial key")
\* hold the same key, whatever HELLO / HELLO_ACK resends and losses
\* happened during the handshake.
KeyAgreement ==
    \A h1, h2 \in Hosts : \A s1, s2 \in Ids :
        LET x == sess[h1][s1]
            y == sess[h2][s2]
        IN (/\ x # NoSession /\ y # NoSession
            /\ x.tkey # {} /\ y.tkey # {}
            /\ x.peer = h2 /\ x.tenc = s2
            /\ y.peer = h1 /\ y.tenc = s1)
           => x.tkey = y.tkey

=============================================================================
