------------------------- MODULE MCKademliaFindNode -------------------------
(***************************************************************************)
(* A network of the eight nodes with 3-bit ids; any node looks up any id.  *)
(* Every node knows three or four others, so replies are cut to            *)
(* bucket_size inside a bucket, replies bring nodes nearer than the        *)
(* dialled one, and the target is reachable only through other nodes.      *)
(* Node 3 is only punchable, so it is never taken from a reply.            *)
(***************************************************************************)
EXTENDS KademliaFindNode, TLC

MCNodes == 0 .. 7

MCKnows ==
    (0 :> {1, 2, 4}) @@ (1 :> {0, 3, 5}) @@ (2 :> {0, 3, 6}) @@
    (3 :> {1, 2, 7}) @@ (4 :> {0, 1, 5, 6}) @@ (5 :> {1, 4, 6, 7}) @@
    (6 :> {0, 3, 4, 7}) @@ (7 :> {1, 5, 6})

\* Node 4 holds live connections to 0 (bucket 2) and to 6 (bucket 1).
MCConnected == [n \in MCNodes |-> IF n = 4 THEN {0, 6} ELSE {}]

MCOpenness == [n \in MCNodes |-> IF n = 3 THEN "Punchable" ELSE "Bidirectional"]

====
