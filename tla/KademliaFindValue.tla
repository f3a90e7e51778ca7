-------------------------- MODULE KademliaFindValue --------------------------
(***************************************************************************)
(* The iterative FIND_VALUE lookup of src/net/node.rs:                     *)
(* find_value_from_fingers_iter builds a FindValueIter whose candidate     *)
(* queue is the given fingers, and every call of FindValueIter::next pops  *)
(* candidates, dials them (connect_by_strategy), asks them for the value   *)
(* (exchange_find_value_on_connection -> process_find_value_response),     *)
(* merges the fingers of the reply into the queue, and returns the first   *)
(* value the caller's verifier accepts.  The iterator is resumable: the    *)
(* queue and the visited list survive between calls.                       *)
(*                                                                         *)
(* The responder is process_find_value_request.  For an overlay-level      *)
(* value (no actor id) it always sends a FindNodeResponse followed by the  *)
(* value, if it holds one; for an actor-scoped value it sends a present    *)
(* byte and then either the value or a FindNodeResponse.  The caller says  *)
(* which framing it expects with expect_fingers_in_response.               *)
(*                                                                         *)
(* The network is the static one of KademliaFindNode, whose operators for  *)
(* the bucket walk and the queue are reused here.  Holders are the nodes   *)
(* that store a value under the id; Accepted are those whose value the     *)
(* verifier accepts (the others hold a forged or stale value).  Any dial   *)
(* or exchange may fail.  A reply may carry a responder's bucket          *)
(* connection (Connected, see KademliaFindNode); next() keeps the          *)
(* responder's connection in connection_for_reverse_connection_requests    *)
(* and only hands it to connect_by_strategy, whose outcome is a free       *)
(* choice here, so that field is left out.                                 *)
(***************************************************************************)
EXTENDS Naturals, Sequences, FiniteSets

CONSTANTS
    Bits, Nodes, Knows, Connected, Openness, NoOption, Addrs, BucketSize, VisitLimit, None,
    Holders,        \* nodes whose store has a value under the id
    Accepted,       \* holders whose value do_verify accepts
    ActorScoped,    \* the value is looked up in an actor's store
    ExpectFingers,  \* expect_fingers_in_response
    Calls           \* number of times the caller calls next()

ASSUME /\ Accepted \subseteq Holders /\ Holders \subseteq Nodes
       /\ ActorScoped \in BOOLEAN /\ ExpectFingers \in BOOLEAN
       \* callers ask for fingers exactly for overlay-level values
       /\ ExpectFingers = ~ActorScoped
       /\ Calls \in Nat

VARIABLES
    self, target,   \* the node doing the lookup, and the id looked up
    narrowDown,     \* narrow_down
    useRelays,      \* use_relays
    pc,             \* "idle" between calls of next(), "running" inside one
    calls,          \* calls of next() so far
    candidates,     \* FindValueIter::candidates
    visited,        \* FindValueIter::visited
    returns,        \* ghost: what every finished call returned
    sent            \* ghost: every finger a responder put in a reply to us

vars == <<self, target, narrowDown, useRelays, pc, calls, candidates, visited,
          returns, sent>>

FN == INSTANCE KademliaFindNode
        WITH ResultLimit <- BucketSize, found <- <<>>, i <- 0, seen <- {}, dialled <- 0

Ids == FN!Ids

\* Node::pick_contact_strategy, used for the fingers the caller passes in:
\* a unidirectional node is hole-punched unless we are unidirectional too.
SeedMethod(m) ==
    CASE Openness[m] = "Bidirectional"  -> "Direct"
      [] Openness[m] = "Punchable"      -> "HolePunch"
      [] Openness[m] = "Unidirectional" ->
            IF Openness[self] # "Unidirectional" THEN "HolePunch" ELSE "Relay"

\* ContactStrategy::new, used for the fingers of a reply.
ReplyMethod(m) ==
    CASE Openness[m] = "Bidirectional"  -> "Direct"
      [] Openness[m] = "Punchable"      -> "HolePunch"
      [] Openness[m] = "Unidirectional" -> "Relay"

\* A queue entry (distance, NodeContactInfo, ContactStrategy).
Cand(e, method) == [d |-> e.d, node |-> e.node, opt |-> e.opt, method |-> method]

Candidates == {Cand(e, mt) : e \in FN!Entries(target), mt \in {"Direct", "HolePunch", "Relay"}}

VisitedOpts == {v.opt : v \in visited}

\* process_find_value_request at node n, with fs the fingers
\* find_nearest_contacts gives it: whether the value is in the reply, and
\* the fingers of the FindNodeResponse in it (None when there is none).
Respond(n, fs) ==
    IF ~ActorScoped \/ n \notin Holders
    THEN [present |-> n \in Holders, fingers |-> fs]
    ELSE [present |-> TRUE, fingers |-> None]

\* process_find_value_response: with expect_fingers_in_response the
\* FindNodeResponse is parsed first and the rest is the value; without it
\* only the present byte and the value are read and the contacts are None.
Parse(r) ==
    IF ExpectFingers
    THEN [value |-> r.present, contacts |-> r.fingers]
    ELSE [value |-> r.present, contacts |-> None]

\* extract_fingers_from_response: the fingers with a contact option we can
\* use that is not in visited.
Extract(fs, vis) ==
    {f \in fs : f.node \notin NoOption /\ f.opt \notin {v.opt : v \in vis}}

\* Mutant: the narrow_down flag is ignored.
RetainedAlways(c, fs) == {f \in fs : f.d < c.d}

\* With narrow_down, only the fingers strictly closer than the candidate.
Retained(c, fs) == IF narrowDown THEN {f \in fs : f.d < c.d} ELSE fs

\* do_verify returns Some for the value sent by n.
Verify(n) == n \in Accepted

-----------------------------------------------------------------------------
TypeOK ==
    /\ self \in Nodes /\ target \in Ids
    /\ narrowDown \in BOOLEAN /\ useRelays \in BOOLEAN
    /\ pc \in {"idle", "running"}
    /\ calls \in 0 .. Calls
    /\ candidates \in Seq(Candidates)
    /\ visited \subseteq [node : Nodes, opt : Nodes \X (1 .. Addrs)]
    /\ Cardinality(visited) <= VisitLimit     \* Vec::with_capacity(visit_limit)
    /\ returns \in Seq(Nodes \cup {None})
    /\ sent \subseteq Candidates

\* find_value_from_fingers_iter with the fingers nearest the id in our own
\* buckets: sorted by distance, without those pick_contact_strategy finds
\* no option for; visited starts empty with capacity visit_limit.
Init ==
    /\ self \in Nodes
    /\ target \in Ids
    /\ narrowDown \in BOOLEAN
    /\ useRelays \in BOOLEAN
    /\ \E fs \in FN!NearestFingers(self, target) : \E es \in FN!Reports(fs, target) :
          candidates = FN!SortFingers({Cand(e, SeedMethod(e.node)) : e \in {e \in es : e.node \notin NoOption}})
    /\ pc = "idle"
    /\ calls = 0
    /\ visited = {}
    /\ returns = <<>>
    /\ sent = {}

\* The caller calls next() (again).
Call ==
    /\ pc = "idle"
    /\ calls < Calls
    /\ pc' = "running"
    /\ calls' = calls + 1
    /\ UNCHANGED <<self, target, narrowDown, useRelays, candidates, visited,
                   returns, sent>>

\* Mutant: the visit bound is inclusive.
LoopingInclusive == pc = "running" /\ candidates # <<>> /\ Cardinality(visited) <= VisitLimit

\* while candidates.len() > 0 && visited.len() < visited.capacity()
Looping == pc = "running" /\ candidates # <<>> /\ Cardinality(visited) < VisitLimit

\* The loop condition fails: next() returns None.
Exhausted ==
    /\ pc = "running"
    /\ ~Looping
    /\ pc' = "idle"
    /\ returns' = Append(returns, None)
    /\ UNCHANGED <<self, target, narrowDown, useRelays, calls, candidates, visited, sent>>

\* The popped candidate is ourselves: ignore it.
SkipSelf ==
    /\ Looping
    /\ Head(candidates).node = self
    /\ candidates' = Tail(candidates)
    /\ UNCHANGED <<self, target, narrowDown, useRelays, pc, calls, visited,
                   returns, sent>>

\* Mutant: the visited candidate is skipped without popping it.
SkipVisitedNoPop ==
    /\ Looping
    /\ Head(candidates).node # self
    /\ Head(candidates).opt \in VisitedOpts
    /\ UNCHANGED vars

\* The popped candidate's contact option was visited before: ignore it.
SkipVisited ==
    /\ Looping
    /\ Head(candidates).node # self
    /\ Head(candidates).opt \in VisitedOpts
    /\ candidates' = Tail(candidates)
    /\ UNCHANGED <<self, target, narrowDown, useRelays, pc, calls, visited,
                   returns, sent>>

Fresh ==
    /\ Looping
    /\ Head(candidates).node # self
    /\ Head(candidates).opt \notin VisitedOpts
    /\ visited' = visited \cup {[node |-> Head(candidates).node, opt |-> Head(candidates).opt]}

\* A relay candidate while use_relays is off: ignored, but it stays in
\* visited and so counts against visit_limit.
SkipRelay ==
    /\ Fresh
    /\ Head(candidates).method = "Relay"
    /\ ~useRelays
    /\ candidates' = Tail(candidates)
    /\ UNCHANGED <<self, target, narrowDown, useRelays, pc, calls, returns, sent>>

\* connect_by_strategy is tried.
Dial ==
    /\ Fresh
    /\ Head(candidates).method # "Relay" \/ useRelays

\* connect_by_strategy gave None, or the exchange gave no (well-formed)
\* response: disregard the finger.
VisitFailed ==
    /\ Dial
    /\ candidates' = Tail(candidates)
    /\ UNCHANGED <<self, target, narrowDown, useRelays, pc, calls, returns, sent>>

\* The candidate c answered.  The fingers of the reply, if it had any, are
\* merged into the queue (cut to bucket_size with narrow_down); a value
\* the verifier accepts is returned, otherwise the loop goes on.
VisitAnswered ==
    /\ Dial
    /\ UNCHANGED <<self, target, narrowDown, useRelays, calls>>
    /\ LET c == Head(candidates) IN
       \E r \in FN!NearestContacts(c.node, target) : \E es \in FN!Reports(FN!ReplyNodes(r), target) :
          LET fs  == {Cand(e, ReplyMethod(e.node)) : e \in es}
              p   == Parse(Respond(c.node, fs))
              new == IF p.contacts = None THEN {} ELSE Retained(c, Extract(p.contacts, visited'))
              q   == FN!AppendCandidates(Tail(candidates), new)
          IN /\ candidates' = IF narrowDown THEN FN!Truncate(q, BucketSize) ELSE q
             /\ sent' = sent \cup (IF Respond(c.node, fs).fingers = None THEN {}
                                   ELSE Respond(c.node, fs).fingers)
             /\ IF p.value /\ Verify(c.node)
                THEN /\ pc' = "idle"
                     /\ returns' = Append(returns, c.node)
                ELSE UNCHANGED <<pc, returns>>

\* One step of a running next().
Step == Exhausted \/ SkipSelf \/ SkipVisited \/ SkipRelay \/ VisitFailed \/ VisitAnswered

Next == Call \/ Step

\* next() runs in the caller's task; every await in it (connect, exchange)
\* ends with a result or an error by its timeout.  The caller is free not
\* to call next() again.
Spec == Init /\ [][Next]_vars /\ WF_vars(Step)

-----------------------------------------------------------------------------
(***************************************************************************)
(* Properties.                                                             *)
(***************************************************************************)

CallReturns == pc = "running" ~> pc = "idle"

\* Without narrow_down, no finger a responder sent us is lost: each is
\* still in the queue or its contact option was visited (or it is
\* ourselves, or we have no way to contact it).  This is what lets a
\* lookup walk from the first fingers towards the holders of the value.
FingersNotLost ==
    ~narrowDown =>
        \A f \in sent : \/ f.node = self
                        \/ f.node \in NoOption
                        \/ f.opt \in VisitedOpts
                        \/ \E k \in DOMAIN candidates : candidates[k].opt = f.opt
====
