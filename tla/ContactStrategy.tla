---------------------------- MODULE ContactStrategy ----------------------------
(***************************************************************************)
(* How a node picks the contact option and the contact strategy for a     *)
(* peer: SocketCollection::pick_contact_option_at_openness and             *)
(* pick_contact_option (src/net/sstp/server.rs), Node::                    *)
(* pick_contact_strategy and ContactStrategy::new (src/net/node.rs).       *)
(*                                                                         *)
(* Operators only; the node that uses them is in ContactInfoOpenness.      *)
(* A transport entry is a pair <<family, transport>>.  A peer's contact    *)
(* info is a function from the entries it advertises to their openness;   *)
(* the node's SocketCollection is the set of entries it has a socket      *)
(* server for.  Addresses and ports are left out: the option picked is    *)
(* named by its entry.                                                     *)
(***************************************************************************)
EXTENDS Naturals, Sequences, FiniteSets

LOCAL SE == INSTANCE SequencesExt

CONSTANT None   \* Option::None

\* The order of the nested matches of pick_contact_option_at_openness.
ScanOrder == <<<<"v6", "udp">>, <<"v6", "tcp">>, <<"v4", "udp">>, <<"v4", "tcp">>>>

\* The order pick_contact_option tries the openness levels in.
OpennessOrder == <<"Bidirectional", "Punchable", "Unidirectional">>

\* ContactStrategy::new: the method for the peer's openness at the option.
MethodFor == [Bidirectional |-> "Direct", Punchable |-> "HolePunch", Unidirectional |-> "Relay"]

StrategyNew(option, openness) == [contact |-> option, method |-> MethodFor[openness]]

\* Mutant: UDP is tried after TCP within a family.
PickContactOptionAtOpennessTcpFirst(sockets, target, o) ==
    LET order == <<<<"v6", "tcp">>, <<"v6", "udp">>, <<"v4", "tcp">>, <<"v4", "udp">>>>
        k == SE!SelectInSeq(order, LAMBDA e : e \in sockets /\ e \in DOMAIN target /\ target[e] = o)
    IN IF k = 0 THEN None ELSE order[k]

\* pick_contact_option_at_openness: the first entry, in scan order, that we
\* have a socket server for and the peer advertises at openness o.
PickContactOptionAtOpenness(sockets, target, o) ==
    LET k == SE!SelectInSeq(ScanOrder, LAMBDA e : e \in sockets /\ e \in DOMAIN target /\ target[e] = o)
    IN IF k = 0 THEN None ELSE ScanOrder[k]

\* pick_contact_option: the option at the first openness level that has one.
PickContactOption(sockets, target) ==
    LET k == SE!SelectInSeq(OpennessOrder,
                            LAMBDA o : PickContactOptionAtOpenness(sockets, target, o) # None)
    IN IF k = 0 THEN None
       ELSE [option |-> PickContactOptionAtOpenness(sockets, target, OpennessOrder[k]),
             openness |-> OpennessOrder[k]]

\* ContactInfo::openness_at_option: our own openness at the option's entry.
OpennessAtOption(own, e) == IF e \in DOMAIN own THEN own[e] ELSE None

\* pick_contact_strategy: Direct for a Bidirectional peer, HolePunch for a
\* Punchable one; for a Unidirectional peer HolePunch when we are not
\* Unidirectional at that option ourselves, else Relay; None when there is
\* no option, or no own entry at it (the ? on openness_at_option).
PickContactStrategy(sockets, own, target) ==
    LET p == PickContactOption(sockets, target)
    IN IF p = None THEN None
       ELSE IF p.openness # "Unidirectional" THEN StrategyNew(p.option, p.openness)
       ELSE IF OpennessAtOption(own, p.option) = None THEN None
       ELSE [contact |-> p.option,
             method |-> IF OpennessAtOption(own, p.option) # "Unidirectional"
                        THEN "HolePunch" ELSE "Relay"]

====
