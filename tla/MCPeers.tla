------------------------------ MODULE MCPeers -------------------------------
(***************************************************************************)
(* What runs beside the chain and must come to an end whatever meets: a    *)
(* connection, the server, the sessions of the protocol with what they     *)
(* spread, the requests of discovery, feeds and the miner's life cycle.    *)
(* They meet only at the calls each module names, so a behaviour is one of *)
(* one part; the others keep their initial state, in which their fair      *)
(* actions are disabled.                                                   *)
(***************************************************************************)
EXTENDS PeerRun, Server, Sessions, Gossip, Replies, Feed, Miner, TLC

VARIABLE part

\* Gossip: a line and a triangle.
MCTopologies == {{{"a", "b"}, {"b", "c"}}, {{"a", "b"}, {"b", "c"}, {"a", "c"}}}

\* Replies: three requests to one node.
MCRequestFrom == [r \in Request |-> "x"]
MCRequestType == [r1 |-> "pong", r2 |-> "neighbors", r3 |-> "neighbors"]

Init ==
    /\ part \in {"peer", "server", "sessions", "gossip", "replies", "feed", "miner"}
    /\ PeerRunInit /\ ServerInit /\ SessionsInit /\ GossipInit
    /\ RepliesInit /\ FeedInit /\ MinerInit
    /\ part # "peer" => withProto
    /\ IF part = "server" THEN idOf["i1"] # "b" /\ (idOf["i1"] = SelfId => idOf["i2"] # "b")
                          ELSE idOf = [c \in Conns |-> SelfId]
    /\ part # "gossip" => topic = "block" /\ Cardinality(links) = 2

lower == <<peerRunVars, serverVars, udpVars>>
upper == <<sessionVars, gossipVars>>
local == <<feedVars, minerVars>>

Next ==
    /\ UNCHANGED part
    /\ \/ part = "peer"     /\ PeerRunNext  /\ UNCHANGED <<serverVars, udpVars, upper, local>>
       \/ part = "server"   /\ ServerNext   /\ UNCHANGED <<peerRunVars, udpVars, upper, local>>
       \/ part = "replies"  /\ RepliesNext  /\ UNCHANGED <<peerRunVars, serverVars, upper, local>>
       \/ part = "sessions" /\ SessionsNext /\ UNCHANGED <<gossipVars, lower, local>>
       \/ part = "gossip"   /\ GossipNext   /\ UNCHANGED <<sessionVars, lower, local>>
       \/ part = "feed"     /\ FeedNext     /\ UNCHANGED <<minerVars, lower, upper>>
       \/ part = "miner"    /\ MinerNext    /\ UNCHANGED <<feedVars, lower, upper>>

Spec ==
    /\ Init /\ [][Next]_<<part, lower, upper, local>>
    /\ PeerRunFair /\ ServerFair /\ SessionsFair /\ GossipFair /\ RepliesFair /\ FeedFair /\ MinerFair
=============================================================================
