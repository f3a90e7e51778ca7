--------------------------- MODULE KademliaFindNode ---------------------------
(***************************************************************************)
(* The iterative FIND_NODE lookup of src/net/node.rs: Node::find_node      *)
(* seeds the candidate queue from the node's own buckets                   *)
(* (find_nearest_fingers), then find_node_from_fingers repeatedly dials    *)
(* the nearest candidate, asks it for the fingers it knows nearest to the  *)
(* target (process_find_node_request -> find_nearest_contacts), merges     *)
(* the fingers strictly closer than that candidate into the queue and into *)
(* the running result, and stops when the queue is empty, visit_limit      *)
(* candidates were dialled, or the target itself was reported.             *)
(*                                                                         *)
(* The network is static: Knows[n] is the set of public fingers in n's     *)
(* buckets, Connected[n] those of them a bucket of n holds a live          *)
(* connection to (Bucket::connection, at most one per bucket).  Ids are    *)
(* Bits wide (256 in the code) and the distance is XOR.  *)
(* A node may be reported under one of Addrs contact options, since        *)
(* different peers may hold different contact info for it.  Dialling and   *)
(* the request may fail for any node.  The order of fingers inside one     *)
(* bucket belongs to Bucket (not in the sources), so when a reply is cut   *)
(* off in the middle of a bucket any part of that bucket may be sent.      *)
(***************************************************************************)
EXTENDS Naturals, Sequences, SequencesExt, FiniteSets, Bitwise

CONSTANTS
    Bits,         \* width of a node id
    Nodes,        \* ids of the nodes of the network
    Knows,        \* Knows[n]: the public fingers in the buckets of node n
    Connected,    \* Connected[n]: the fingers of n a bucket holds a connection to
    Openness,     \* Openness[n]: the openness of n's contact option
    NoOption,     \* nodes without a contact option the others can use
    Addrs,        \* number of contact options a node may be reported under
    BucketSize,   \* Node::bucket_size
    ResultLimit,  \* result_limit
    VisitLimit,   \* visit_limit
    None          \* model value: Option::None

Ids == 0 .. (2 ^ Bits - 1)

ASSUME /\ Nodes \subseteq Ids
       /\ Knows \in [Nodes -> SUBSET Nodes]
       /\ \A n \in Nodes : n \notin Knows[n]
       /\ Connected \in [Nodes -> SUBSET Nodes]
       /\ \A n \in Nodes : Connected[n] \subseteq Knows[n]
       /\ BucketSize \in Nat \ {0} /\ ResultLimit \in Nat /\ VisitLimit \in Nat

\* common::distance: XOR of the two ids.
Distance(a, b) == a ^^ b

\* IdType::differs_at_bit: the index of the most significant bit in which
\* the ids differ (bucket 255 holds the ids differing in the top bit).
DiffersAtBit(a, b) ==
    IF a = b THEN None
    ELSE CHOOSE i \in 0 .. (Bits - 1) :
             2 ^ i <= Distance(a, b) /\ Distance(a, b) < 2 ^ (i + 1)

\* Bucket i of node n.
Bucket(n, i) == {m \in Knows[n] : DiffersAtBit(n, m) = i}

\* The loop shared by find_nearest_contacts and find_nearest_fingers: walk
\* the buckets in the given order, appending their fingers, and return as
\* soon as bucket_size fingers are collected.  The set of possible results.
RECURSIVE Collect(_, _, _)
Collect(n, order, acc) ==
    IF order = <<>> THEN {acc}
    ELSE LET b         == Bucket(n, Head(order))
             remaining == BucketSize - Cardinality(acc)
         IN IF remaining <= Cardinality(b)
            THEN {acc \cup t : t \in {t \in SUBSET b : Cardinality(t) = remaining}}
            ELSE Collect(n, Tail(order), acc \cup b)

\* bucket_pos, bucket_pos - 1, ..., 0
Down(p) == [j \in 1 .. (p + 1) |-> p + 1 - j]

\* The walk of find_nearest_contacts: like Collect over the buckets'
\* public_fingers_no_connection, and every bucket walked that holds a
\* connection overwrites the reply's connection with its node.
RECURSIVE CollectReply(_, _, _, _)
CollectReply(n, order, conn, acc) ==
    IF order = <<>> THEN {[connection |-> conn, fingers |-> acc]}
    ELSE LET i         == Head(order)
             c         == IF Bucket(n, i) \cap Connected[n] = {} THEN conn
                          ELSE CHOOSE m \in Bucket(n, i) \cap Connected[n] : TRUE
             b         == Bucket(n, i) \ Connected[n]
             remaining == BucketSize - Cardinality(acc)
         IN IF remaining <= Cardinality(b)
            THEN {[connection |-> c, fingers |-> acc \cup t] :
                      t \in {t \in SUBSET b : Cardinality(t) = remaining}}
            ELSE CollectReply(n, Tail(order), c, acc \cup b)

\* Node::find_nearest_contacts at node n: the FindNodeResponse fields
\* connection and fingers (process_find_node_request sends them as they
\* are).  The possible replies.
NearestContacts(n, id) ==
    IF n = id THEN {[connection |-> None, fingers |-> {}]}
    ELSE CollectReply(n, Down(DiffersAtBit(n, id)), None, {})

\* The nodes a reply names: extract_fingers_from_response takes the fingers
\* and then the connection's NodeContactInfo through the same filters.
ReplyNodes(r) == r.fingers \cup (IF r.connection = None THEN {} ELSE {r.connection})

\* Node::find_nearest_fingers: bucket_pos .. 255, then bucket_pos - 1 .. 0.
NearestFingers(n, id) ==
    IF n = id THEN {{}}
    ELSE LET p == DiffersAtBit(n, id)
         IN Collect(n, [j \in 1 .. (Bits - p) |-> p + j - 1] \o Down(p - 1), {})

\* A queue entry (distance, NodeContactInfo, ContactStrategy), abstracted to
\* the distance, the node and the contact option it was reported under.
Entry(m, a, target) == [d |-> Distance(target, m), node |-> m, opt |-> <<m, a>>]

\* Every way the nodes of a reply can be reported.
Reports(ns, target) == {{Entry(m, f[m], target) : m \in ns} : f \in [ns -> 1 .. Addrs]}

Entries(target) == {Entry(m, a, target) : m \in Nodes, a \in 1 .. Addrs}

\* Node::insert_candidate: before the first entry that is strictly farther,
\* otherwise at the back.
InsertCandidate(q, e) ==
    LET at == SelectInSeq(q, LAMBDA x : e.d < x.d)
    IN IF at = 0 THEN Append(q, e) ELSE InsertAt(q, at, e)

\* Node::append_candidates.
AppendCandidates(q, es) == FoldSet(LAMBDA e, acc : InsertCandidate(acc, e), q, es)

\* Mutant: the queue is cut from the front.
TruncateFront(q, limit) == IF Len(q) > limit THEN SubSeq(q, Len(q) - limit + 1, Len(q)) ELSE q

\* while q.len() > limit { q.pop_back(); }
Truncate(q, limit) == IF Len(q) > limit THEN SubSeq(q, 1, limit) ELSE q

\* Node::sort_fingers
SortFingers(es) == SetToSortSeq(es, LAMBDA x, y : x.d < y.d)

-----------------------------------------------------------------------------
(***************************************************************************)
(* The lookup as a state machine.  candidates, found, visited and i are    *)
(* the locals of find_node_from_fingers, self and target the node doing   *)
(* the lookup and the id it looks up (any node, any id); seen (every entry that entered    *)
(* found) and dialled (number of connect attempts) are ghosts.             *)
(***************************************************************************)
VARIABLES self, target, pc, candidates, found, visited, i, seen, dialled

vars == <<self, target, pc, candidates, found, visited, i, seen, dialled>>

TypeOK ==
    /\ self \in Nodes
    /\ target \in Ids
    /\ pc \in {"seed", "loop", "done"}
    /\ candidates \in Seq(Entries(target))
    /\ found \in Seq(Entries(target))
    /\ visited \subseteq [node: Nodes, opt: Nodes \X (1 .. Addrs)]
    /\ i \in 0 .. VisitLimit
    /\ seen \subseteq Entries(target)
    /\ dialled \in Nat

Init ==
    /\ self \in Nodes
    /\ target \in Ids
    /\ pc = "seed"
    /\ candidates = <<>>
    /\ found = <<>>
    /\ visited = {}
    /\ i = 0
    /\ seen = {}
    /\ dialled = 0

\* Node::find_node: the fingers nearest the target in our own buckets (none:
\* return an empty result), sorted by distance, without ourselves and
\* without the nodes pick_contact_strategy finds no option for; found starts
\* as the first result_limit of them.
Seed ==
    /\ pc = "seed"
    /\ \E fs \in NearestFingers(self, target) : \E es \in Reports(fs, target) :
          LET q == SortFingers({e \in es : e.node # self /\ e.node \notin NoOption})
          IN /\ candidates' = q
             /\ found' = Truncate(q, ResultLimit)
             /\ seen' = {q[j] : j \in 1 .. Len(q)}
             /\ pc' = IF fs = {} THEN "done" ELSE "loop"
    /\ UNCHANGED <<self, target, visited, i, dialled>>

\* Node::join_network_starting_at: test_presence of the bootstrap address
\* gave the node id of first, possibly our own when the bootstrap list
\* names us (otherwise join returns false and no lookup runs); the lookup is find_node_from_fingers of our own id from that one
\* finger, with result_limit bucket_size and visit_limit 100 (VisitLimit
\* here).  Marking first and the returned neighbours helpful changes
\* buckets, which are not part of this model.
JoinSeed ==
    /\ pc = "seed"
    /\ target = self
    /\ \E first \in Nodes : \E es \in Reports({first}, target) :
          LET q == SortFingers({e \in es : e.node # self /\ e.node \notin NoOption})
          IN /\ candidates' = q
             /\ found' = Truncate(q, ResultLimit)
             /\ seen' = {q[j] : j \in 1 .. Len(q)}
             /\ pc' = "loop"
    /\ UNCHANGED <<self, target, visited, i, dialled>>

\* Mutant: the loop bound is inclusive.
LoopingInclusive == pc = "loop" /\ candidates # <<>> /\ i <= VisitLimit

\* The loop condition.
Looping == pc = "loop" /\ candidates # <<>> /\ i < VisitLimit

\* Mutant: the visited candidate is skipped without popping it.
SkipVisitedNoPop ==
    /\ Looping
    /\ Head(candidates).node \in {v.node : v \in visited}
    /\ UNCHANGED <<self, target, pc, candidates, found, visited, i, seen, dialled>>

\* The front candidate was dialled before: drop it and continue.
SkipVisited ==
    /\ Looping
    /\ Head(candidates).node \in {v.node : v \in visited}
    /\ candidates' = Tail(candidates)
    /\ UNCHANGED <<self, target, pc, found, visited, i, seen, dialled>>

\* Dial the front candidate (it stays at the front of the queue); it is
\* recorded as visited before the connect.
Dial ==
    /\ visited' = visited \cup {[node |-> Head(candidates).node,
                                 opt |-> Head(candidates).opt]}
    /\ dialled' = dialled + 1

\* Mutant: a failed candidate does not count against visit_limit.
VisitFailedUncounted ==
    /\ Looping
    /\ Head(candidates).node \notin {v.node : v \in visited}
    /\ Dial
    /\ UNCHANGED <<self, target, pc, candidates, found, seen, i>>

\* connect failed, or exchange_find_node_on_connection gave no response.
VisitFailed ==
    /\ Looping
    /\ Head(candidates).node \notin {v.node : v \in visited}
    /\ Dial
    /\ i' = i + 1
    /\ UNCHANGED <<self, target, pc, candidates, found, seen>>

\* extract_fingers_from_response and the retain filter: fingers reported
\* under a contact option not visited yet, with a usable option, not
\* ourselves, directly reachable, and strictly closer than the candidate.
NewFingers(c, es, vis) ==
    {e \in es : /\ e.opt \notin {v.opt : v \in vis}
                /\ e.node \notin NoOption
                /\ e.node # self
                /\ Openness[e.node] = "Bidirectional"
                /\ e.d < c.d}

\* The candidate answered with the fingers in es.  They are merged into
\* found (cut to result_limit); if the target is among them the lookup
\* breaks out of the loop, otherwise they are merged into the queue, which
\* is cut to bucket_size, and i is incremented.
VisitAnswered ==
    /\ Looping
    /\ Head(candidates).node \notin {v.node : v \in visited}
    /\ Dial
    /\ UNCHANGED <<self, target>>
    /\ \E r \in NearestContacts(Head(candidates).node, target) :
       \E es \in Reports(ReplyNodes(r), target) :
          LET new == NewFingers(Head(candidates), es, visited')
          IN /\ found' = Truncate(AppendCandidates(found, new), ResultLimit)
             /\ seen' = seen \cup new
             /\ IF \E e \in new : e.node = target
                THEN /\ pc' = "done"
                     /\ UNCHANGED <<candidates, i>>
                ELSE /\ candidates' = Truncate(AppendCandidates(candidates, new), BucketSize)
                     /\ i' = i + 1
                     /\ UNCHANGED pc

\* The loop condition fails: return found.
Finish ==
    /\ pc = "loop"
    /\ ~Looping
    /\ pc' = "done"
    /\ UNCHANGED <<self, target, candidates, found, visited, i, seen, dialled>>

Next == Seed \/ JoinSeed \/ SkipVisited \/ VisitFailed \/ VisitAnswered \/ Finish

\* find_node_from_fingers runs sequentially in one task; every await in it
\* (connect, exchange) ends, with a result or an error, by its timeout.
Spec == Init /\ [][Next]_vars /\ WF_vars(Next)

-----------------------------------------------------------------------------
(***************************************************************************)
(* Properties.                                                             *)
(***************************************************************************)

\* The result list: the nodes of found, in order.
Result == [j \in 1 .. Len(found) |-> found[j].node]

\* The nearest result_limit entries among those that entered found so far.
NearestSeen ==
    LET all == SetToSortSeq(seen, LAMBDA x, y : x.d < y.d)
    IN [j \in 1 .. (IF Len(all) < ResultLimit THEN Len(all) ELSE ResultLimit) |-> all[j]]

\* Merging every reply into found and cutting it back to result_limit keeps
\* found exactly the result_limit nearest fingers the lookup has learnt of,
\* nearest first, however replies, failures and the early stop interleave.
FoundIsNearestSeen == found = NearestSeen

\* The lookup dials at most visit_limit candidates (spec: "termination
\* within visit_limit hops"), whatever the replies and failures.
DialsWithinVisitLimit == dialled <= VisitLimit

\* find_node_from_fingers returns: with every connect and request failing or
\* answering, the loop ends.
Terminates == <>(pc = "done")

\* The result names every node at most once (spec: "return best-k").
NoDuplicateResults ==
    pc = "done" => \A j, k \in 1 .. Len(Result) : j # k => Result[j] # Result[k]

====
