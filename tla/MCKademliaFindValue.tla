------------------------ MODULE MCKademliaFindValue ------------------------
(***************************************************************************)
(* The eight-node network of MCKademliaFindNode, with node 3 punchable     *)
(* and node 5 unidirectional, so that every contact strategy occurs.       *)
(* Two nodes hold a value under every id: node 6 a genuine one, node 1 a   *)
(* value the verifier rejects.                                             *)
(***************************************************************************)
EXTENDS KademliaFindValue, TLC

MCNodes == 0 .. 7

MCKnows ==
    (0 :> {1, 2, 4}) @@ (1 :> {0, 3, 5}) @@ (2 :> {0, 3, 6}) @@
    (3 :> {1, 2, 7}) @@ (4 :> {0, 1, 5, 6}) @@ (5 :> {1, 4, 6, 7}) @@
    (6 :> {0, 3, 4, 7}) @@ (7 :> {1, 5, 6})

\* Node 4 holds live connections to 0 (bucket 2) and to 6 (bucket 1).
MCConnected == [n \in MCNodes |-> IF n = 4 THEN {0, 6} ELSE {}]

MCOpenness ==
    [n \in MCNodes |-> CASE n = 3 -> "Punchable"
                         [] n = 5 -> "Unidirectional"
                         [] OTHER -> "Bidirectional"]

====
