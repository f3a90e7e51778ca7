------------------------ MODULE MCContactInfoOpenness ------------------------
(* Instance of ContactInfoOpenness: a node with IPv4 and IPv6 addresses,   *)
(* UDPv4 and TCPv4 openness unset (tested), a UDPv6 openness that does not *)
(* parse and a configured TCPv6 openness for a transport with no entry.    *)
EXTENDS ContactInfoOpenness

MCConfig ==
    [ft \in Entries |->
        IF ft[1] = "v4" THEN Unset
        ELSE IF ft[2] = "udp" THEN Invalid
        ELSE "Punchable"]

MCPresent == Entries \ {<<"v6", "tcp">>}

\* A node configured without a UDPv4 port.
MCPresentNoUdp4 == Entries \ {<<"v6", "tcp">>, <<"v4", "udp">>}

\* The peers a lookup dials: every contact info with at most two entries.
MCPeers == {t \in AllContactInfos : Cardinality(DOMAIN t) <= 2}
====
