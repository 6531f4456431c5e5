------------------------------- MODULE Gossip -------------------------------
(***************************************************************************)
(* How a new block spreads (BroadcastBlock, BroadcastConfirmed and         *)
(* handleMsg of node/protocol.go, the marks of node/peer.go, insert of the *)
(* fetcher): its miner sends it to the square root of the peers that do    *)
(* not know it and announces it to the rest; a node that gets it sends it  *)
(* on before the import and announces it afterwards, in goroutines of      *)
(* their own.  A confirmation floods the network.                          *)
(*                                                                         *)
(* Every node knows the block's parent.  Connections lose and reorder      *)
(* nothing; a message is [from, to, kind], and no broadcast sends the same *)
(* kind twice to a peer.  Which peers come first in the map is arbitrary.  *)
(* Blocks and confirmations have their own marks and handlers, so a        *)
(* behaviour is about one of the two (topic).                              *)
(***************************************************************************)
EXTENDS Naturals, FiniteSets

CONSTANTS
  GossipNode,
  Miner,       \* the node that mines the block
  Topologies   \* sets of connections, each a set of two nodes

ASSUME MinerIsNode == Miner \in GossipNode

VARIABLES
  links,       \* the topology
  topic,       \* what is spread
  hasBlock,    \* the nodes that have imported the block
  importing,   \* the nodes whose fetcher imports it
  marked,      \* existedBlocks: marked[v] are v's peers marked with the block
  castTodo,    \* peers BroadcastBlock still has to send to, for (v, kind)
  castWaits,   \* calls of BroadcastBlock that have not begun: pairs (v, kind)
  confMarked,  \* existedConfirmed, likewise
  confTodo,    \* peers that BroadcastConfirmed still has to send to, for v
  confirmed,   \* the nodes that have processed the confirmation
  gossipWire         \* the messages under way

net == <<links, topic>>
gossipVars == <<net, hasBlock, importing, marked, castTodo, castWaits, confMarked, confTodo, confirmed, gossipWire>>
blockState == <<hasBlock, importing, marked, castTodo, castWaits>>
confState == <<confMarked, confTodo, confirmed>>

CastKind == {"block", "hash"}
Peers(v) == {u \in GossipNode : {u, v} \in links}
Msg(v, u, kind) == [from |-> v, to |-> u, kind |-> kind]

\* int(math.Sqrt(float64(n)))
Sqrt(n) == CHOOSE r \in 0..n : r * r <= n /\ (r + 1) * (r + 1) > n

GossipInit ==
  /\ links \in Topologies
  /\ topic \in {"block", "confirmed"}
  /\ hasBlock = {} /\ importing = {}
  /\ marked = [v \in GossipNode |-> {}]
  /\ castTodo = [v \in GossipNode |-> [k \in CastKind |-> {}]]
  /\ castWaits = {}
  /\ confMarked = [v \in GossipNode |-> {}]
  /\ confTodo = [v \in GossipNode |-> {}]
  /\ confirmed = {}
  /\ gossipWire = {}

\* minedBroadcastLoop: both broadcasts, one after the other
Mine ==
  /\ topic = "block" /\ hasBlock = {}
  /\ hasBlock' = {Miner}
  /\ castWaits' = {<<Miner, "block">>, <<Miner, "hash">>}
  /\ UNCHANGED <<net, importing, marked, castTodo, confState, gossipWire>>

-----------------------------------------------------------------------------
\* BroadcastBlock

\* PeersWithoutBlock, and the choice among them
CastBegin(v, kind) ==
  /\ <<v, kind>> \in castWaits
  /\ v = Miner /\ kind = "hash" => <<v, "block">> \notin castWaits /\ castTodo[v]["block"] = {}
  /\ LET peers == Peers(v) \ marked[v] IN
     \E some \in SUBSET peers :
       /\ kind = "block" => Cardinality(some) = Sqrt(Cardinality(peers))
       /\ kind = "hash"  => some = IF v \in hasBlock THEN peers ELSE {}
       /\ castTodo' = [castTodo EXCEPT ![v][kind] = some]
  /\ castWaits' = castWaits \ {<<v, kind>>}
  /\ UNCHANGED <<net, hasBlock, importing, marked, confState, gossipWire>>

\* SendNewBlock, SendNewBlockHashes
CastSend(v, kind) ==
  \E u \in castTodo[v][kind] :
    /\ castTodo' = [castTodo EXCEPT ![v][kind] = @ \ {u}]
    /\ marked' = [marked EXCEPT ![v] = @ \cup {u}]
    /\ gossipWire' = gossipWire \cup {Msg(v, u, kind)}
    /\ UNCHANGED <<net, hasBlock, importing, castWaits, confState>>

-----------------------------------------------------------------------------
\* handleMsg

Consume(m, answers) == gossipWire' = (gossipWire \ {m}) \cup answers

\* NewBlockMsg and BlocksMsg: the fetcher imports what it does not have
GetBlock(m) ==
  /\ m.kind \in {"block", "body"}
  /\ Consume(m, {})
  /\ marked' = IF m.kind = "block" THEN [marked EXCEPT ![m.to] = @ \cup {m.from}] ELSE marked
  /\ IF m.to \in hasBlock \cup importing THEN UNCHANGED <<importing, castWaits>>
     ELSE /\ importing' = importing \cup {m.to}
          /\ castWaits' = castWaits \cup {<<m.to, "block">>}
  /\ UNCHANGED <<net, hasBlock, castTodo, confState>>

\* Mutant: announcements are only noted.
GetHashDeaf(m) ==
  /\ m.kind = "hash"
  /\ marked' = [marked EXCEPT ![m.to] = @ \cup {m.from}]
  /\ Consume(m, {})
  /\ UNCHANGED <<net, hasBlock, importing, castTodo, castWaits, confState>>

\* NewBlockHashesMsg: the fetcher asks the peer for a block it does not have
GetHash(m) ==
  /\ m.kind = "hash"
  /\ marked' = [marked EXCEPT ![m.to] = @ \cup {m.from}]
  /\ Consume(m, IF m.to \in hasBlock THEN {} ELSE {Msg(m.to, m.from, "get")})
  /\ UNCHANGED <<net, hasBlock, importing, castTodo, castWaits, confState>>

\* GetBlocksMsg
GetRequest(m) ==
  /\ m.kind = "get"
  /\ Consume(m, IF m.to \in hasBlock THEN {Msg(m.to, m.from, "body")} ELSE {})
  /\ UNCHANGED <<net, blockState, confState>>

\* insertChain returns in insert's goroutine
Import(v) ==
  /\ v \in importing
  /\ importing' = importing \ {v}
  /\ hasBlock' = hasBlock \cup {v}
  /\ castWaits' = castWaits \cup {<<v, "hash">>}
  /\ UNCHANGED <<net, marked, castTodo, confState, gossipWire>>

-----------------------------------------------------------------------------
\* Confirmations: NewConfirmedEvent, ConfirmedMsg.  The sender of a message
\* is not marked.

Unconfirmed(v) == Peers(v) \ confMarked[v]

Confirm ==
  /\ topic = "confirmed" /\ confirmed = {}
  /\ confirmed' = {Miner}
  /\ confTodo' = [confTodo EXCEPT ![Miner] = Unconfirmed(Miner)]
  /\ UNCHANGED <<net, blockState, confMarked, gossipWire>>

\* Mutant: the receiver is not marked.
ConfirmSendUnmarked(v) ==
  \E u \in confTodo[v] :
    /\ confTodo' = [confTodo EXCEPT ![v] = @ \ {u}]
    /\ gossipWire' = gossipWire \cup {Msg(v, u, "confirmed")}
    /\ UNCHANGED <<net, blockState, confMarked, confirmed>>

ConfirmSend(v) ==
  \E u \in confTodo[v] :
    /\ confTodo' = [confTodo EXCEPT ![v] = @ \ {u}]
    /\ confMarked' = [confMarked EXCEPT ![v] = @ \cup {u}]
    /\ gossipWire' = gossipWire \cup {Msg(v, u, "confirmed")}
    /\ UNCHANGED <<net, blockState, confirmed>>

\* a handler of another connection may add to what one is still sending
GetConfirmed(m) ==
  /\ m.kind = "confirmed"
  /\ Consume(m, {})
  /\ confirmed' = confirmed \cup {m.to}
  /\ confTodo' = [confTodo EXCEPT ![m.to] = @ \cup Unconfirmed(m.to)]
  /\ UNCHANGED <<net, blockState, confMarked>>

BlockStep ==
  \/ \E v \in GossipNode : Import(v) \/ \E kind \in CastKind : CastBegin(v, kind) \/ CastSend(v, kind)
  \/ \E m \in gossipWire : GetBlock(m) \/ GetHash(m) \/ GetRequest(m)
ConfirmStep ==
  \/ \E v \in GossipNode : ConfirmSend(v)
  \/ \E m \in gossipWire : GetConfirmed(m)

GossipNext == Mine \/ BlockStep \/ Confirm \/ ConfirmStep

\* Goroutines run, messages arrive.
GossipFair == WF_gossipVars(BlockStep) /\ WF_gossipVars(ConfirmStep)

GossipSpec == GossipInit /\ [][GossipNext]_gossipVars /\ GossipFair

-----------------------------------------------------------------------------
Word(kind, u) == \E m \in gossipWire : m.kind = kind /\ m.to = u

\* Whom a node has marked, and so leaves out of later broadcasts, has the
\* block or will: it imports it, or the block, its announcement, a request it
\* made or the answer is under way.
MarkedHears ==
  \A v \in GossipNode : \A u \in marked[v] :
    \/ u \in hasBlock \cup importing
    \/ \E kind \in {"block", "hash", "body"} : Word(kind, u)
    \/ \E m \in gossipWire : m.kind = "get" /\ m.from = u

\* The block reaches every node, along either path.
BlockReachesAll == (hasBlock # {}) ~> (hasBlock = GossipNode)

\* Confirmations reach every node, and the flood ends for good though each
\* node sends one back to where it came from.
FloodEnds ==
  (confirmed # {}) ~> [](confirmed = GossipNode /\ \A u \in GossipNode : ~Word("confirmed", u) /\ confTodo[u] = {})

\* Whatever begins to spread reaches every node and comes to an end.
SpreadEnds == BlockReachesAll /\ FloodEnds
=============================================================================
