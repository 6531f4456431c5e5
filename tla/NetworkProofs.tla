--------------------------- MODULE NetworkProofs ---------------------------
(***************************************************************************)
(* Safety of the goroutines that keep connections, for any number of      *)
(* connections, sessions and nodes: the server's table of peers, the       *)
(* registration of sessions, and the marks of a spreading block.  Each     *)
(* part has its inductive invariant.                                       *)
(***************************************************************************)
EXTENDS Server, Sessions, Gossip, TLAPS

-----------------------------------------------------------------------------
(* Server *)

Stage == {"new", "enter", "enc", "post", "proto", "add", "wait", "ok", "failed"}
RunAt == {"select", "post", "add", "proto", "ok", "drain", "ended"}

ServerTypes ==
    /\ stage \in [Conns -> Stage]
    /\ peerAt \in [Conns -> {"none", "running", "ended", "gone"}]
    /\ srvRun \in [at : RunAt, conn : Conns \cup {NoConn}, ok : BOOLEAN]
    /\ srvRun.at \in {"post", "add", "proto", "ok"} => srvRun.conn \in Conns
    /\ stopAt \in {"idle", "waiting", "stopped"}

\* run's table is the peers that have not ended for good, and is empty once
\* run has ended.
ServerInv ==
    /\ ServerTypes
    /\ srvPeers = {c \in Conns : peerAt[c] \in {"running", "ended"}}
    /\ \A c, d \in srvPeers : idOf[c] = idOf[d] => c = d
    /\ srvRun.at = "ended" => srvPeers = {}
    /\ stopAt = "stopped" => srvRun.at = "ended"

\* A server that has just started.
LEMMA ServerInitInv == ServerInit => ServerInv
  BY DEF ServerInit, ServerInv, ServerTypes, Stage, RunAt, Loop

\* What a connection that is set up does to its peer.
LEMMA FinishKeeps ==
    ASSUME ServerInv, NEW c \in Conns, NEW result \in Stage, Finish(c, result),
           UNCHANGED <<idOf, srvPeers, stopAt>>,
           srvRun' = srvRun \/ (srvRun' = Loop /\ srvRun.at # "ended")
    PROVE  ServerInv'
  <1>1. ServerTypes'
    <2>1. stage' \in [Conns -> Stage] /\ peerAt' \in [Conns -> {"none", "running", "ended", "gone"}]
      BY Zenon DEF ServerInv, ServerTypes, Finish
    <2>2. srvRun' \in [at : RunAt, conn : Conns \cup {NoConn}, ok : BOOLEAN]
      <3>1. Loop \in [at : RunAt, conn : Conns \cup {NoConn}, ok : BOOLEAN]
        BY Zenon DEF Loop, RunAt
      <3>2. QED
        BY <3>1, srvRun' = srvRun \/ srvRun' = Loop, Zenon DEF ServerInv, ServerTypes
    <2>3. QED
      BY <2>1, <2>2 DEF ServerInv, ServerTypes, Loop
  <1>2. \A d \in Conns : peerAt'[d] \in {"running", "ended"} <=> peerAt[d] \in {"running", "ended"}
    BY Zenon DEF ServerInv, ServerTypes, Finish
  <1>3. QED
    BY <1>1, <1>2 DEF ServerInv, Loop, ServerTypes

\* encHandshakeChecks and the answer to the connection that asks.
LEMMA RunChecksInv == ASSUME ServerInv, RunChecks PROVE ServerInv'
  <1> USE DEF ServerInv, ServerTypes, RunAt
  <1>1. PICK ok \in BOOLEAN :
          /\ Check(srvRun.conn, ok)
          /\ LET added == IF ok /\ srvRun.at = "add" THEN {srvRun.conn} ELSE {} IN
             /\ srvPeers' = srvPeers \cup added
             /\ peerAt' = [c \in Conns |-> IF c \in added THEN "running" ELSE peerAt[c]]
             /\ srvRun' = [at |-> IF srvRun.at = "post" THEN "proto" ELSE "ok", conn |-> srvRun.conn, ok |-> ok]
    BY Zenon DEF RunChecks
  <1>2. UNCHANGED <<idOf, stage, stopAt>> /\ srvRun.at \in {"post", "add"} /\ srvRun.conn \in Conns
    BY Zenon DEF RunChecks
  <1>3. ServerTypes'
    BY Zenon, <1>1, <1>2
  <1>4. srvPeers' = {c \in Conns : peerAt'[c] \in {"running", "ended"}}
    BY <1>1, <1>2
  <1>5. \A c, d \in srvPeers' : idOf'[c] = idOf'[d] => c = d
    BY <1>1, <1>2 DEF Check, Connected
  <1>6. QED
    BY Zenon, <1>1, <1>2, <1>3, <1>4, <1>5

\* Every step of run, of a connection and of Stop keeps the invariant.
LEMMA ServerNextInv == ServerInv /\ [ServerNext]_serverVars => ServerInv'
  <1> SUFFICES ASSUME ServerInv, [ServerNext]_serverVars PROVE ServerInv'
    BY Zenon
  <1> USE DEF ServerInv, ServerTypes, RunAt, Stage
  <1>1. CASE AcceptSlot \/ AcceptFails \/ StopBegin \/ StopReturns \/ UNCHANGED serverVars
    BY <1>1, Zenon DEF AcceptSlot, AcceptFails, StopBegin, StopReturns, serverVars
  <1>2. CASE RunChecks
    BY Zenon, <1>2, RunChecksInv
  <1>3. CASE AnswerSetup
    <2>1. CASE srvRun.ok /\ srvRun.at = "proto"
      BY <1>3, <2>1 DEF AnswerSetup, Loop
    <2>2. CASE ~(srvRun.ok /\ srvRun.at = "proto")
      BY <1>3, <2>2, FinishKeeps, Zenon DEF AnswerSetup
    <2>3. QED
      BY Zenon, <2>1, <2>2
  <1>4. CASE RunQuits \/ RunEnded
    BY <1>4, Zenon DEF RunQuits, RunEnded, Loop
  <1>5. ASSUME NEW c \in Conns, DelPeer(c) PROVE ServerInv'
    BY <1>5 DEF DelPeer
  <1>6. ASSUME NEW c \in Conns, Accept(c) \/ Dial(c) \/ PeerEnds(c) \/ Checkpoint(c) PROVE ServerInv'
    <2>1. CASE Accept(c) \/ Dial(c)
      BY <1>6, <2>1, Zenon DEF Accept, Dial
    <2>2. CASE PeerEnds(c)
      BY <1>6, <2>2, Zenon DEF PeerEnds
    <2>3. CASE Checkpoint(c)
      BY <1>6, <2>3, Zenon DEF Checkpoint
    <2>4. QED
      BY Zenon, <1>6, <2>1, <2>2, <2>3
  <1>7. ASSUME NEW c \in Conns, SetupBegins(c) \/ Handshake(c) \/ SetupLeaves(c) PROVE ServerInv'
    <2>1. CASE \E result \in Stage : Finish(c, result)
      BY <1>7, <2>1, FinishKeeps DEF SetupBegins, Handshake, SetupLeaves
    <2>2. CASE ~ \E result \in Stage : Finish(c, result)
      BY <1>7, <2>2, Zenon DEF SetupBegins, Handshake, SetupLeaves
    <2>3. QED
      BY Zenon, <2>1, <2>2
  <1>8. QED
    BY <1>1, <1>2, <1>3, <1>4, <1>5, <1>6, <1>7, Zenon DEF ServerNext, RunStep

\* The invariant holds throughout.
LEMMA ServerInvariance == ServerSpec => []ServerInv
  BY ServerInitInv, ServerNextInv, PTL DEF ServerSpec

\* At most one connection with a node is a peer at a time, however many
\* connections pass the first check of encHandshakeChecks together.
THEOREM OnePeerPerNodeCorrect == ServerSpec => []OnePeerPerNode
  <1>1. ServerInv => OnePeerPerNode
    BY Zenon DEF ServerInv, ServerTypes, OnePeerPerNode
  <1>2. QED
    BY <1>1, ServerInvariance, PTL

\* When Server.Stop returns every peer that was ever started has ended.
THEOREM NoPeerAfterStopCorrect == ServerSpec => []NoPeerAfterStop
  <1>1. ServerInv => NoPeerAfterStop
    BY Zenon DEF ServerInv, ServerTypes, NoPeerAfterStop
  <1>2. QED
    BY <1>1, ServerInvariance, PTL

-----------------------------------------------------------------------------
(* Gossip *)

Message == [from : GossipNode, to : GossipNode, kind : {"block", "hash", "get", "body", "confirmed"}]

GossipTypes ==
    /\ marked \in [GossipNode -> SUBSET GossipNode]
    /\ castTodo \in [GossipNode -> [CastKind -> SUBSET GossipNode]]
    /\ castWaits \subseteq GossipNode \X CastKind
    /\ confTodo \in [GossipNode -> SUBSET GossipNode]
    /\ gossipWire \subseteq Message

Have(v) == v \in hasBlock \cup importing

Hears(u) ==
    \/ Have(u)
    \/ \E m \in gossipWire : m.kind \in {"block", "hash", "body"} /\ m.to = u
    \/ \E m \in gossipWire : m.kind = "get" /\ m.from = u

\* Who sends a block has it or imports it; who announces it, and who is asked
\* for it, has it.
GossipInv ==
    /\ GossipTypes
    /\ \A w \in castWaits : Have(w[1])
    /\ \A v \in GossipNode : castTodo[v]["block"] # {} => Have(v)
    /\ \A v \in GossipNode : castTodo[v]["hash"] # {} => v \in hasBlock
    /\ \A m \in gossipWire : /\ m.kind = "block" => Have(m.from)
                             /\ m.kind = "hash" => m.from \in hasBlock
                             /\ m.kind = "get" => m.to \in hasBlock
    /\ \A v \in GossipNode : \A u \in marked[v] : Hears(u)

\* Before the first block.
LEMMA GossipInitInv == GossipInit => GossipInv
  BY DEF GossipInit, GossipInv, GossipTypes, CastKind

\* BroadcastBlock chooses the peers it sends to.
LEMMA CastBeginInv ==
    ASSUME GossipInv, NEW v \in GossipNode, NEW kind \in CastKind, CastBegin(v, kind)
    PROVE  GossipInv'
  <1> USE DEF GossipInv, GossipTypes, Have, Hears, CastKind
  <1>1. PICK some \in SUBSET (Peers(v) \ marked[v]) :
          /\ kind = "hash" => some = IF v \in hasBlock THEN Peers(v) \ marked[v] ELSE {}
          /\ castTodo' = [castTodo EXCEPT ![v][kind] = some]
    BY Zenon DEF CastBegin
  <1>2. /\ <<v, kind>> \in castWaits /\ castWaits' = castWaits \ {<<v, kind>>}
        /\ UNCHANGED <<hasBlock, importing, marked, confTodo, gossipWire>>
    BY Zenon DEF CastBegin, confState
  <1>3. some \subseteq GossipNode
    BY Zenon DEF Peers
  <1>4. GossipTypes'
    BY Zenon, <1>1, <1>2, <1>3
  <1>5. QED
    BY <1>1, <1>2, <1>4

\* The block, or its hash, goes to the next of them, which is marked.
LEMMA CastSendInv ==
    ASSUME GossipInv, NEW v \in GossipNode, NEW kind \in CastKind, CastSend(v, kind)
    PROVE  GossipInv'
  <1> USE DEF GossipInv, GossipTypes, Have, Hears, CastKind
  <1>1. PICK u \in castTodo[v][kind] :
          /\ castTodo' = [castTodo EXCEPT ![v][kind] = @ \ {u}]
          /\ marked' = [marked EXCEPT ![v] = @ \cup {u}]
          /\ gossipWire' = gossipWire \cup {Msg(v, u, kind)}
          /\ UNCHANGED <<hasBlock, importing, castWaits, confTodo>>
    BY Zenon DEF CastSend, confState
  <1>2. /\ Msg(v, u, kind) \in Message
        /\ Msg(v, u, kind).kind = kind /\ Msg(v, u, kind).to = u /\ Msg(v, u, kind).from = v
    BY DEF Msg, Message
  <1>3. GossipTypes'
    BY <1>1, <1>2
  <1>4. \A x \in GossipNode : \A y \in marked'[x] : Hears(y)'
    BY <1>1, <1>2
  <1>5. QED
    BY <1>1, <1>2, <1>3, <1>4

\* A block arrives: its sender is marked.
LEMMA GetBlockInv == ASSUME GossipInv, NEW m \in gossipWire, GetBlock(m) PROVE GossipInv'
  <1> USE DEF GossipInv, GossipTypes, Have, Hears, CastKind
  <1>1. /\ m.kind \in {"block", "body"} /\ m.to \in GossipNode /\ m.from \in GossipNode
        /\ gossipWire' = gossipWire \ {m}
        /\ marked' = IF m.kind = "block" THEN [marked EXCEPT ![m.to] = @ \cup {m.from}] ELSE marked
        /\ importing \subseteq importing' /\ m.to \in hasBlock \cup importing'
        /\ castWaits' \in {castWaits, castWaits \cup {<<m.to, "block">>}}
        /\ UNCHANGED <<hasBlock, castTodo, confTodo>>
    BY Zenon DEF GetBlock, Consume, confState, Message
  <1>2. GossipTypes'
    BY <1>1
  <1>3. \A x \in GossipNode : \A y \in marked'[x] : Hears(y)'
    BY <1>1
  <1>4. QED
    BY <1>1, <1>2, <1>3

\* The announcement of a hash arrives.
LEMMA GetHashInv == ASSUME GossipInv, NEW m \in gossipWire, GetHash(m) PROVE GossipInv'
  <1> USE DEF GossipInv, GossipTypes, Have, Hears, CastKind
  <1> DEFINE get == Msg(m.to, m.from, "get")
  <1>1. /\ m.kind = "hash" /\ m.to \in GossipNode /\ m.from \in GossipNode
        /\ gossipWire' = (gossipWire \ {m}) \cup (IF m.to \in hasBlock THEN {} ELSE {get})
        /\ marked' = [marked EXCEPT ![m.to] = @ \cup {m.from}]
        /\ UNCHANGED <<hasBlock, importing, castTodo, castWaits, confTodo>>
    BY Zenon DEF GetHash, Consume, confState, Message
  <1>2. get \in Message /\ get.kind = "get" /\ get.from = m.to /\ get.to = m.from
    BY <1>1, Zenon DEF Msg, Message
  <1> HIDE DEF get
  <1>3. GossipTypes'
    BY Zenon, <1>1, <1>2
  <1>4. \A x \in GossipNode : \A y \in marked'[x] : Hears(y)'
    BY <1>1, <1>2
  <1>5. QED
    BY <1>1, <1>2, <1>3, <1>4

\* A request for an announced block arrives and is answered.
LEMMA GetRequestInv == ASSUME GossipInv, NEW m \in gossipWire, GetRequest(m) PROVE GossipInv'
  <1> USE DEF GossipInv, GossipTypes, Have, Hears, CastKind
  <1> DEFINE body == Msg(m.to, m.from, "body")
  <1>1. /\ m.kind = "get" /\ m.to \in hasBlock /\ m.to \in GossipNode /\ m.from \in GossipNode
        /\ gossipWire' = (gossipWire \ {m}) \cup {body}
        /\ UNCHANGED <<marked, hasBlock, importing, castTodo, castWaits, confTodo>>
    BY Zenon DEF GetRequest, Consume, blockState, confState, Message
  <1>2. body \in Message /\ body.kind = "body" /\ body.to = m.from
    BY <1>1, Zenon DEF Msg, Message
  <1> HIDE DEF body
  <1>3. \A x \in GossipNode : \A y \in marked'[x] : Hears(y)'
    BY <1>1, <1>2
  <1>4. QED
    BY Zenon, <1>1, <1>2, <1>3

\* The confirmation of a block.
LEMMA ConfirmStepInv == ASSUME GossipInv, Confirm \/ ConfirmStep PROVE GossipInv'
  <1> USE DEF GossipInv, GossipTypes, Have, Hears, CastKind
  <1>1. CASE Confirm
    BY <1>1, MinerIsNode, Zenon DEF Confirm, blockState, Unconfirmed, Peers
  <1>2. ASSUME NEW v \in GossipNode, ConfirmSend(v) PROVE GossipInv'
    <2>1. PICK u \in confTodo[v] :
            /\ confTodo' = [confTodo EXCEPT ![v] = @ \ {u}]
            /\ gossipWire' = gossipWire \cup {Msg(v, u, "confirmed")}
            /\ UNCHANGED <<marked, hasBlock, importing, castTodo, castWaits>>
      BY <1>2, Zenon DEF ConfirmSend, blockState
    <2>2. Msg(v, u, "confirmed") \in Message /\ Msg(v, u, "confirmed").kind = "confirmed"
      BY <1>2, Zenon DEF Msg, Message
    <2>3. QED
      BY <2>1, <2>2
  <1>3. ASSUME NEW m \in gossipWire, GetConfirmed(m) PROVE GossipInv'
    <2>1. /\ m.kind = "confirmed" /\ m.to \in GossipNode
          /\ gossipWire' = gossipWire \ {m}
          /\ confTodo' = [confTodo EXCEPT ![m.to] = @ \cup Unconfirmed(m.to)]
          /\ UNCHANGED <<marked, hasBlock, importing, castTodo, castWaits>>
      BY <1>3, Zenon DEF GetConfirmed, Consume, blockState, Message
    <2>2. Unconfirmed(m.to) \subseteq GossipNode
      BY Zenon DEF Unconfirmed, Peers
    <2>3. QED
      BY <2>1, <2>2
  <1>4. QED
    BY <1>1, <1>2, <1>3, Zenon DEF ConfirmStep

\* Every step keeps the invariant.
LEMMA GossipNextInv == GossipInv /\ [GossipNext]_gossipVars => GossipInv'
  <1> SUFFICES ASSUME GossipInv, [GossipNext]_gossipVars PROVE GossipInv'
    OBVIOUS
  <1>1. CASE Mine
    BY <1>1, MinerIsNode DEF GossipInv, GossipTypes, Have, Hears, CastKind, Mine, confState
  <1>2. ASSUME NEW v \in GossipNode, Import(v) PROVE GossipInv'
    BY <1>2 DEF GossipInv, GossipTypes, Have, Hears, CastKind, Import, confState
  <1>3. CASE UNCHANGED gossipVars
    BY <1>3, Zenon DEF GossipInv, GossipTypes, Have, Hears, gossipVars, confState
  <1>4. QED
    BY Zenon, <1>1, <1>2, <1>3, CastBeginInv, CastSendInv, GetBlockInv, GetHashInv, GetRequestInv, ConfirmStepInv
    DEF GossipNext, BlockStep

\* Whoever a node has marked as knowing the block, and so leaves out of its
\* broadcasts, has it or is going to get it, in every network.
THEOREM MarkedHearsCorrect == GossipSpec => []MarkedHears
  <1>1. GossipInv => MarkedHears
    BY Zenon DEF GossipInv, GossipTypes, MarkedHears, Hears, Have, Word
  <1>2. QED
    BY <1>1, GossipInitInv, GossipNextInv, PTL DEF GossipSpec
-----------------------------------------------------------------------------
(* Sessions *)

SessionAt == {"none", "run", "add", "shake", "register", "load", "serve", "remove", "leave", "done"}
Entered == {"load", "serve", "remove", "leave", "done"}
Counted == {"shake", "register", "load", "serve", "remove", "leave"}

SessionTypes ==
    /\ sesAt \in [Session -> SessionAt]
    /\ sesUp \in [Session -> BOOLEAN]
    /\ inPeers \in Session \cup {0} /\ inLoader \in Session \cup {0}
    /\ rmAt \in [Remover -> {"idle", "called", "unload", "unregister", "disconnect"}]
    /\ rmPeer \in [Remover -> Session \cup {0}]
    /\ pmStop \in {"idle", "more", "quit", "close", "wait", "stopped"}
    /\ sesWg = {s \in Session : sesAt[s] \in Counted}
    /\ peersClosed \in BOOLEAN /\ crossed \in BOOLEAN

\* The server starts a session when the one before is over, so one is active
\* at a time; a session removes a peer in its last state only.
OneActive ==
    /\ \A s, t \in Session : t < s /\ sesAt[s] # "none" => sesAt[t] = "done"
    /\ \A s \in Session : rmAt[s] # "idle" => sesAt[s] = "remove"

\* What is registered among the peers belongs to a session that serves or is
\* about to; without a crossing a session is in the downloader only while it
\* is registered.
Registered ==
    /\ \A s \in Session : inPeers = s => /\ sesAt[s] \in {"load", "serve", "remove"}
                                         /\ rmAt[s] # "disconnect"
    /\ ~crossed => \A s \in Session :
          /\ inLoader = s => inPeers = s /\ sesAt[s] # "load"
          /\ sesAt[s] = "load" => inPeers = s
          /\ rmAt[s] \in {"unregister", "disconnect"} => inLoader = 0
          /\ sesAt[s] = "serve" /\ sesUp[s] => \/ inPeers = s /\ inLoader = s
                                               \/ rmPeer[Dropper] = s
    /\ pmStop \in {"wait", "stopped"} => peersClosed
    /\ pmStop = "stopped" => inPeers = 0

\* The peer that is being removed has been registered; once it is out of the
\* downloader it does not return there.
Removes(r) ==
    /\ rmAt[r] \in {"idle", "called"} => rmPeer[r] = 0
    /\ rmAt[r] \in {"unload", "unregister", "disconnect"} =>
          /\ rmPeer[r] \in Session
          /\ sesAt[rmPeer[r]] \in Entered
          /\ r # Dropper => rmPeer[r] = r
          /\ rmAt[r] = "unregister" /\ ~crossed => sesAt[rmPeer[r]] # "load" /\ inLoader # rmPeer[r]

Removing == \A r \in Remover : Removes(r)

SessionInv == SessionTypes /\ OneActive /\ Registered /\ Removing

\* Sessions are numbered from 1, and 0 is the goroutine that drops peers.
LEMMA SessionFacts == Session \subseteq Nat /\ 0 \notin Session /\ Remover = Session \cup {Dropper} /\ Dropper = 0
  BY SessionsBound DEF Session, Remover, Dropper

\* Before the first connection.
LEMMA SessionsInitInv == SessionsInit => SessionInv
  <1> SUFFICES ASSUME SessionsInit PROVE SessionInv
    BY Zenon
  <1>1. SessionTypes
    <2>1. sesWg = {s \in Session : sesAt[s] \in Counted}
      BY Zenon DEF SessionsInit, Counted
    <2>2. QED
      BY <2>1, Zenon DEF SessionsInit, SessionTypes, SessionAt
  <1>2. OneActive
    BY SessionFacts, Zenon DEF SessionsInit, OneActive
  <1>3. Registered
    BY SessionFacts, Zenon DEF SessionsInit, Registered
  <1>4. ASSUME NEW q \in Remover PROVE Removes(q)
    BY Zenon DEF SessionsInit, Removes
  <1>5. QED
    BY <1>1, <1>2, <1>3, <1>4, Zenon DEF SessionInv, Removing

\* A step that leaves the removals under way alone keeps what is known of them.
LEMMA RemovesKept ==
    ASSUME NEW q \in Remover, Removes(q), rmAt'[q] = rmAt[q], rmPeer'[q] = rmPeer[q], crossed => crossed',
           \A t \in Session : sesAt[t] \in Entered => sesAt'[t] \in Entered /\ (sesAt'[t] = "load" => sesAt[t] = "load"),
           inLoader' = inLoader \/ inLoader' = 0 \/ sesAt[inLoader'] = "load"
    PROVE  Removes(q)'
  <1>1. CASE rmPeer[q] \in Session
    <2>1. 0 # rmPeer[q]
      BY Zenon, <1>1, SessionFacts
    <2>2. sesAt[rmPeer[q]] \in Entered =>
            sesAt'[rmPeer[q]] \in Entered /\ (sesAt'[rmPeer[q]] = "load" => sesAt[rmPeer[q]] = "load")
      BY Zenon, <1>1
    <2>3. QED
      BY <1>1, <2>1, <2>2, Zenon DEF Removes
  <1>2. CASE rmPeer[q] \notin Session
    BY <1>2, Zenon DEF Removes
  <1>3. QED
    BY Zenon, <1>1, <1>2

\* A connection is made.
LEMMA ConnectInv == ASSUME SessionInv, NEW s \in Session, Connect(s) PROVE SessionInv'
  <1> USE SessionFacts DEF SessionInv, Connect, removal, stopping
  <1>1. SessionTypes'
    BY Zenon DEF SessionTypes, SessionAt, Counted
  <1>2. OneActive'
    <2>1. ASSUME NEW u \in Session, NEW t \in Session, t < u, sesAt'[u] # "none"
          PROVE  sesAt'[t] = "done"
      <3>1. CASE u = s
        <4>1. s \in Nat /\ t \in Nat /\ s > 1 /\ s - 1 \in Session
          BY <2>1, <3>1, SessionsBound DEF Session
        <4>2. sesAt[s - 1] = "done" /\ (t = s - 1 \/ t < s - 1)
          BY <2>1, <3>1, <4>1
        <4>3. sesAt[t] = "done" /\ t # s
          BY <4>1, <4>2, <2>1, <3>1, Zenon DEF OneActive
        <4>4. QED
          BY <4>3, Zenon DEF SessionTypes
      <3>2. CASE u # s
        BY <2>1, <3>2, Zenon DEF SessionTypes, OneActive
      <3>3. QED
        BY Zenon, <3>1, <3>2
    <2>2. ASSUME NEW t \in Session, rmAt'[t] # "idle"
          PROVE  sesAt'[t] = "remove"
      BY <2>2, Zenon DEF SessionTypes, OneActive
    <2>3. QED
      BY <2>1, <2>2, Zenon DEF OneActive
  <1>3. Registered'
    BY DEF SessionTypes, OneActive, Registered, Removing, Removes
  <1>4. ASSUME NEW q \in Remover PROVE Removes(q)'
    <2>1. /\ Removes(q) /\ rmAt'[q] = rmAt[q] /\ rmPeer'[q] = rmPeer[q] /\ (crossed => crossed')
          /\ \A t \in Session : sesAt[t] \in Entered => sesAt'[t] \in Entered /\ (sesAt'[t] = "load" => sesAt[t] = "load")
          /\ inLoader' = inLoader \/ inLoader' = 0 \/ sesAt[inLoader'] = "load"
      BY Zenon DEF SessionTypes, Removing, Entered
    <2>2. QED
      BY Zenon, <2>1, RemovesKept
  <1>5. QED
    BY <1>1, <1>2, <1>3, <1>4, Zenon DEF Removing

\* The server announces the peer.
LEMMA AnnounceInv == ASSUME SessionInv, NEW s \in Session, Announce(s) PROVE SessionInv'
  <1> USE SessionFacts DEF SessionInv, Announce, removal, stopping
  <1>1. SessionTypes'
    BY Zenon DEF SessionTypes, SessionAt, Counted
  <1>2. OneActive'
    BY Zenon DEF SessionTypes, OneActive
  <1>3. Registered'
    BY DEF SessionTypes, OneActive, Registered, Removing, Removes
  <1>4. ASSUME NEW q \in Remover PROVE Removes(q)'
    <2>1. /\ Removes(q) /\ rmAt'[q] = rmAt[q] /\ rmPeer'[q] = rmPeer[q] /\ (crossed => crossed')
          /\ \A t \in Session : sesAt[t] \in Entered => sesAt'[t] \in Entered /\ (sesAt'[t] = "load" => sesAt[t] = "load")
          /\ inLoader' = inLoader \/ inLoader' = 0 \/ sesAt[inLoader'] = "load"
      BY Zenon DEF SessionTypes, Removing, Entered
    <2>2. QED
      BY Zenon, <2>1, RemovesKept
  <1>5. QED
    BY <1>1, <1>2, <1>3, <1>4, Zenon DEF Removing

\* handle begins.
LEMMA HandleBeginInv == ASSUME SessionInv, NEW s \in Session, HandleBegin(s) PROVE SessionInv'
  <1> USE SessionFacts DEF SessionInv, HandleBegin, removal, stopping
  <1>1. SessionTypes'
    BY DEF SessionTypes, SessionAt, Counted
  <1>2. OneActive'
    BY Zenon DEF SessionTypes, OneActive
  <1>3. Registered'
    BY DEF SessionTypes, OneActive, Registered, Removing, Removes
  <1>4. ASSUME NEW q \in Remover PROVE Removes(q)'
    <2>1. /\ Removes(q) /\ rmAt'[q] = rmAt[q] /\ rmPeer'[q] = rmPeer[q] /\ (crossed => crossed')
          /\ \A t \in Session : sesAt[t] \in Entered => sesAt'[t] \in Entered /\ (sesAt'[t] = "load" => sesAt[t] = "load")
          /\ inLoader' = inLoader \/ inLoader' = 0 \/ sesAt[inLoader'] = "load"
      BY Zenon DEF SessionTypes, Removing, Entered
    <2>2. QED
      BY Zenon, <2>1, RemovesKept
  <1>5. QED
    BY <1>1, <1>2, <1>3, <1>4, Zenon DEF Removing

\* The handshake.
LEMMA ShakeInv == ASSUME SessionInv, NEW s \in Session, Shake(s) PROVE SessionInv'
  <1> USE SessionFacts DEF SessionInv, Shake, removal, stopping
  <1>1. SessionTypes'
    BY Zenon DEF SessionTypes, SessionAt, Counted
  <1>2. OneActive'
    BY Zenon DEF SessionTypes, OneActive
  <1>3. Registered'
    BY DEF SessionTypes, OneActive, Registered, Removing, Removes
  <1>4. ASSUME NEW q \in Remover PROVE Removes(q)'
    <2>1. /\ Removes(q) /\ rmAt'[q] = rmAt[q] /\ rmPeer'[q] = rmPeer[q] /\ (crossed => crossed')
          /\ \A t \in Session : sesAt[t] \in Entered => sesAt'[t] \in Entered /\ (sesAt'[t] = "load" => sesAt[t] = "load")
          /\ inLoader' = inLoader \/ inLoader' = 0 \/ sesAt[inLoader'] = "load"
      BY Zenon DEF SessionTypes, Removing, Entered
    <2>2. QED
      BY Zenon, <2>1, RemovesKept
  <1>5. QED
    BY <1>1, <1>2, <1>3, <1>4, Zenon DEF Removing

\* The session is registered with the protocol manager.
LEMMA RegisterInv == ASSUME SessionInv, NEW s \in Session, Register(s) PROVE SessionInv'
  <1> USE SessionFacts DEF SessionInv, Register, removal, stopping
  <1>1. SessionTypes'
    BY ZenonT(40) DEF SessionTypes, SessionAt, Counted
  <1>2. OneActive'
    BY DEF SessionTypes, OneActive
  <1>3. Registered'
    BY DEF SessionTypes, OneActive, Registered, Removing, Removes
  <1>4. ASSUME NEW q \in Remover PROVE Removes(q)'
    <2>1. /\ Removes(q) /\ rmAt'[q] = rmAt[q] /\ rmPeer'[q] = rmPeer[q] /\ (crossed => crossed')
          /\ \A t \in Session : sesAt[t] \in Entered => sesAt'[t] \in Entered /\ (sesAt'[t] = "load" => sesAt[t] = "load")
          /\ inLoader' = inLoader \/ inLoader' = 0 \/ sesAt[inLoader'] = "load"
      BY Zenon DEF SessionTypes, Removing, Entered
    <2>2. QED
      BY Zenon, <2>1, RemovesKept
  <1>5. QED
    BY <1>1, <1>2, <1>3, <1>4, Zenon DEF Removing

\* Then with the downloader.
LEMMA RegisterLoaderInv == ASSUME SessionInv, NEW s \in Session, RegisterLoader(s) PROVE SessionInv'
  <1> USE SessionFacts DEF SessionInv, RegisterLoader, removal, stopping
  <1>1. SessionTypes'
    BY Zenon DEF SessionTypes, SessionAt, Counted
  <1>2. OneActive'
    BY Zenon DEF SessionTypes, OneActive
  <1>3. Registered'
    BY DEF SessionTypes, OneActive, Registered, Removing, Removes
  <1>4. ASSUME NEW q \in Remover PROVE Removes(q)'
    <2>1. /\ Removes(q) /\ rmAt'[q] = rmAt[q] /\ rmPeer'[q] = rmPeer[q] /\ (crossed => crossed')
          /\ \A t \in Session : sesAt[t] \in Entered => sesAt'[t] \in Entered /\ (sesAt'[t] = "load" => sesAt[t] = "load")
          /\ inLoader' = inLoader \/ inLoader' = 0 \/ sesAt[inLoader'] = "load"
      BY Zenon DEF SessionTypes, Removing, Entered
    <2>2. QED
      BY Zenon, <2>1, RemovesKept
  <1>5. QED
    BY <1>1, <1>2, <1>3, <1>4, Zenon DEF Removing

\* handleMsg fails.
LEMMA ServeEndsInv == ASSUME SessionInv, NEW s \in Session, ServeEnds(s) PROVE SessionInv'
  <1> USE SessionFacts DEF SessionInv, ServeEnds, removal, stopping
  <1>1. SessionTypes'
    BY Zenon DEF SessionTypes, SessionAt, Counted
  <1>2. OneActive'
    BY Zenon DEF SessionTypes, OneActive
  <1>3. Registered'
    BY DEF SessionTypes, OneActive, Registered, Removing, Removes
  <1>4. ASSUME NEW q \in Remover PROVE Removes(q)'
    <2>1. /\ Removes(q) /\ rmAt'[q] = rmAt[q] /\ rmPeer'[q] = rmPeer[q] /\ (crossed => crossed')
          /\ \A t \in Session : sesAt[t] \in Entered => sesAt'[t] \in Entered /\ (sesAt'[t] = "load" => sesAt[t] = "load")
          /\ inLoader' = inLoader \/ inLoader' = 0 \/ sesAt[inLoader'] = "load"
      BY Zenon DEF SessionTypes, Removing, Entered
    <2>2. QED
      BY Zenon, <2>1, RemovesKept
  <1>5. QED
    BY <1>1, <1>2, <1>3, <1>4, Zenon DEF Removing

\* handle has returned.
LEMMA LeaveInv == ASSUME SessionInv, NEW s \in Session, Leave(s) PROVE SessionInv'
  <1> USE SessionFacts DEF SessionInv, Leave, removal, stopping
  <1>1. SessionTypes'
    BY Zenon DEF SessionTypes, SessionAt, Counted
  <1>2. OneActive'
    BY Zenon DEF SessionTypes, OneActive
  <1>3. Registered'
    BY DEF SessionTypes, OneActive, Registered, Removing, Removes
  <1>4. ASSUME NEW q \in Remover PROVE Removes(q)'
    <2>1. /\ Removes(q) /\ rmAt'[q] = rmAt[q] /\ rmPeer'[q] = rmPeer[q] /\ (crossed => crossed')
          /\ \A t \in Session : sesAt[t] \in Entered => sesAt'[t] \in Entered /\ (sesAt'[t] = "load" => sesAt[t] = "load")
          /\ inLoader' = inLoader \/ inLoader' = 0 \/ sesAt[inLoader'] = "load"
      BY Zenon DEF SessionTypes, Removing, Entered
    <2>2. QED
      BY Zenon, <2>1, RemovesKept
  <1>5. QED
    BY <1>1, <1>2, <1>3, <1>4, Zenon DEF Removing

\* The connection is lost.
LEMMA ConnectionLostInv == ASSUME SessionInv, NEW s \in Session, ConnectionLost(s) PROVE SessionInv'
  <1> USE SessionFacts DEF SessionInv, ConnectionLost, removal, stopping
  <1>1. SessionTypes'
    BY Zenon DEF SessionTypes, SessionAt, Counted
  <1>2. OneActive'
    BY Zenon DEF SessionTypes, OneActive
  <1>3. Registered'
    BY DEF SessionTypes, OneActive, Registered, Removing, Removes
  <1>4. ASSUME NEW q \in Remover PROVE Removes(q)'
    <2>1. /\ Removes(q) /\ rmAt'[q] = rmAt[q] /\ rmPeer'[q] = rmPeer[q] /\ (crossed => crossed')
          /\ \A t \in Session : sesAt[t] \in Entered => sesAt'[t] \in Entered /\ (sesAt'[t] = "load" => sesAt[t] = "load")
          /\ inLoader' = inLoader \/ inLoader' = 0 \/ sesAt[inLoader'] = "load"
      BY Zenon DEF SessionTypes, Removing, Entered
    <2>2. QED
      BY Zenon, <2>1, RemovesKept
  <1>5. QED
    BY <1>1, <1>2, <1>3, <1>4, Zenon DEF Removing

\* removePeer looks the peer up.
LEMMA RemoveBeginInv == ASSUME SessionInv, NEW r \in Remover, RemoveBegin(r) PROVE SessionInv'
  <1> USE SessionFacts DEF SessionInv, RemoveBegin, removal, stopping, AfterRemove, Calls
  <1>1. SessionTypes'
    <2>1. CASE inPeers # 0
      BY <2>1 DEF SessionTypes
    <2>2. CASE inPeers = 0 /\ r = Dropper
      BY <2>2, Zenon DEF SessionTypes
    <2>3. CASE inPeers = 0 /\ r # Dropper
      <3>1. r \in Session /\ sesAt[r] = "remove" /\ sesAt' = [sesAt EXCEPT ![r] = "leave"]
        BY Zenon, <2>3
      <3>2. {s \in Session : sesAt'[s] \in Counted} = {s \in Session : sesAt[s] \in Counted}
        BY <3>1, Zenon DEF SessionTypes, Counted
      <3>3. QED
        BY <2>3, <3>1, <3>2, Zenon DEF SessionTypes, SessionAt
    <2>4. QED
      BY Zenon, <2>1, <2>2, <2>3
  <1>2. OneActive'
    BY DEF SessionTypes, OneActive
  <1>3. Registered'
    BY DEF SessionTypes, OneActive, Registered, Removing, Removes
  <1>4. ASSUME NEW q \in Remover PROVE Removes(q)'
    <2>1. CASE q # r
      <3>1. /\ Removes(q) /\ rmAt'[q] = rmAt[q] /\ rmPeer'[q] = rmPeer[q] /\ (crossed => crossed')
            /\ \A t \in Session : sesAt[t] \in Entered => sesAt'[t] \in Entered /\ (sesAt'[t] = "load" => sesAt[t] = "load")
            /\ inLoader' = inLoader \/ inLoader' = 0
        BY <2>1 DEF SessionTypes, Removing, Entered
      <3>2. QED
        BY Zenon, <3>1, RemovesKept
    <2>2. CASE q = r
      <3>1. Removes(q)
        BY Zenon DEF Removing
      <3>2. CASE inPeers = 0
        BY <2>2, <3>1, <3>2, Zenon DEF SessionTypes, Removes
      <3>3. CASE inPeers # 0
        <4>1. inPeers \in Session /\ sesAt[inPeers] \in {"load", "serve", "remove"}
          BY <3>3, Zenon DEF SessionTypes, Registered
        <4>2. r # Dropper => inPeers = r
          BY <3>3, <4>1 DEF OneActive
        <4>3. rmAt'[r] = "unload" /\ rmPeer'[r] = inPeers /\ sesAt' = sesAt
          BY <3>3, Zenon DEF SessionTypes
        <4>4. QED
          BY <2>2, <4>1, <4>2, <4>3, Zenon DEF Removes, Entered
      <3>4. QED
        BY Zenon, <3>2, <3>3
    <2>3. QED
      BY Zenon, <2>1, <2>2
  <1>5. QED
    BY <1>1, <1>2, <1>3, <1>4, Zenon DEF Removing

\* It unregisters it from the downloader.
LEMMA RemoveLoaderInv == ASSUME SessionInv, NEW r \in Remover, RemoveLoader(r) PROVE SessionInv'
  <1> USE SessionFacts DEF SessionInv, RemoveLoader, removal, stopping, AfterRemove
  <1>1. SessionTypes'
    BY Zenon DEF SessionTypes, SessionAt, Counted
  <1>2. OneActive'
    BY Zenon DEF SessionTypes, OneActive
  <1>3. Registered'
    BY DEF SessionTypes, OneActive, Registered, Removing, Removes
  <1>4. ASSUME NEW q \in Remover PROVE Removes(q)'
    <2>1. CASE q # r
      <3>1. /\ Removes(q) /\ rmAt'[q] = rmAt[q] /\ rmPeer'[q] = rmPeer[q] /\ (crossed => crossed')
            /\ \A t \in Session : sesAt[t] \in Entered => sesAt'[t] \in Entered /\ (sesAt'[t] = "load" => sesAt[t] = "load")
            /\ inLoader' = inLoader \/ inLoader' = 0
        BY <2>1, Zenon DEF SessionTypes, Removing, Entered
      <3>2. QED
        BY Zenon, <3>1, RemovesKept
    <2>2. CASE q = r
      <3>1. Removes(q)
        BY Zenon DEF Removing
      <3>2. rmAt'[q] = "unregister" /\ rmPeer'[q] = rmPeer[q] /\ sesAt' = sesAt /\ inLoader' = 0
        BY <2>2, Zenon DEF SessionTypes
      <3>3. QED
        BY <2>2, <3>1, <3>2, Zenon DEF Removes
    <2>3. QED
      BY Zenon, <2>1, <2>2
  <1>5. QED
    BY <1>1, <1>2, <1>3, <1>4, Zenon DEF Removing

\* It unregisters it from the protocol manager.
LEMMA RemoveRegisteredInv == ASSUME SessionInv, NEW r \in Remover, RemoveRegistered(r) PROVE SessionInv'
  <1> USE SessionFacts DEF SessionInv, RemoveRegistered, removal, stopping, AfterRemove
  <1>1. SessionTypes'
    BY Zenon DEF SessionTypes, SessionAt, Counted
  <1>2. OneActive'
    BY Zenon DEF SessionTypes, OneActive
  <1>3. Registered'
    <2>1. Removes(r)
      BY Zenon DEF Removing
    <2>2. ~crossed' => ~crossed /\ inPeers \in {0, rmPeer[r]} /\ inLoader # rmPeer[r] /\ sesAt[rmPeer[r]] # "load"
      BY <2>1, Zenon DEF Removes
    <2>3. ~crossed' => inLoader = 0 /\ \A s \in Session : sesAt[s] # "load"
      BY <2>2, Zenon DEF SessionTypes, Registered
    <2>4. ~crossed' => \A s \in Session : sesAt[s] = "serve" /\ sesUp[s] => rmPeer[Dropper] = s
      BY <2>2, <2>3, Zenon DEF Registered
    <2>5. QED
      BY <2>3, <2>4, Zenon DEF Registered
  <1>4. ASSUME NEW q \in Remover PROVE Removes(q)'
    <2>1. CASE q # r
      <3>1. /\ Removes(q) /\ rmAt'[q] = rmAt[q] /\ rmPeer'[q] = rmPeer[q] /\ (crossed => crossed')
            /\ \A t \in Session : sesAt[t] \in Entered => sesAt'[t] \in Entered /\ (sesAt'[t] = "load" => sesAt[t] = "load")
            /\ inLoader' = inLoader \/ inLoader' = 0
        BY <2>1, Zenon DEF SessionTypes, Removing, Entered
      <3>2. QED
        BY Zenon, <3>1, RemovesKept
    <2>2. CASE q = r
      <3>1. Removes(q)
        BY Zenon DEF Removing
      <3>2. rmAt'[q] = "disconnect" /\ rmPeer'[q] = rmPeer[q] /\ sesAt' = sesAt
        BY <2>2, Zenon DEF SessionTypes
      <3>3. QED
        BY <2>2, <3>1, <3>2, Zenon DEF Removes
    <2>3. QED
      BY Zenon, <2>1, <2>2
  <1>5. QED
    BY <1>1, <1>2, <1>3, <1>4, Zenon DEF Removing

\* It disconnects it.
LEMMA RemoveDisconnectInv == ASSUME SessionInv, NEW r \in Remover, RemoveDisconnect(r) PROVE SessionInv'
  <1> USE SessionFacts DEF SessionInv, RemoveDisconnect, removal, stopping, AfterRemove
  <1>1. SessionTypes'
    <2>1. CASE r = Dropper
      BY <2>1, Zenon DEF SessionTypes
    <2>2. CASE r # Dropper
      <3>1. r \in Session /\ sesAt[r] = "remove" /\ sesAt' = [sesAt EXCEPT ![r] = "leave"]
        BY <2>2, Zenon DEF OneActive
      <3>2. {s \in Session : sesAt'[s] \in Counted} = {s \in Session : sesAt[s] \in Counted}
        BY <3>1, Zenon DEF SessionTypes, Counted
      <3>3. QED
        BY <2>2, <3>1, <3>2, Zenon DEF SessionTypes, SessionAt
    <2>3. QED
      BY Zenon, <2>1, <2>2
  <1>2. OneActive'
    BY Zenon DEF SessionTypes, OneActive
  <1>3. Registered'
    BY DEF SessionTypes, OneActive, Registered, Removing, Removes
  <1>4. ASSUME NEW q \in Remover PROVE Removes(q)'
    <2>1. CASE q # r
      <3>1. /\ Removes(q) /\ rmAt'[q] = rmAt[q] /\ rmPeer'[q] = rmPeer[q] /\ (crossed => crossed')
            /\ \A t \in Session : sesAt[t] \in Entered => sesAt'[t] \in Entered /\ (sesAt'[t] = "load" => sesAt[t] = "load")
            /\ inLoader' = inLoader \/ inLoader' = 0
        BY <2>1, Zenon DEF SessionTypes, Removing, Entered
      <3>2. QED
        BY Zenon, <3>1, RemovesKept
    <2>2. CASE q = r
      BY <2>2, Zenon DEF SessionTypes, Removes
    <2>3. QED
      BY Zenon, <2>1, <2>2
  <1>5. QED
    BY <1>1, <1>2, <1>3, <1>4, Zenon DEF Removing

\* The downloader asks for a peer to be dropped.
LEMMA DropInv == ASSUME SessionInv, Drop PROVE SessionInv'
  <1> USE SessionFacts DEF SessionInv, Drop, stopping
  <1>1. SessionTypes'
    BY Zenon DEF SessionTypes, SessionAt, Counted
  <1>2. OneActive'
    BY Zenon DEF SessionTypes, OneActive
  <1>3. Registered'
    BY Zenon DEF SessionTypes, OneActive, Registered, Removing, Removes
  <1>4. ASSUME NEW q \in Remover PROVE Removes(q)'
    <2>1. CASE q # Dropper
      <3>1. /\ Removes(q) /\ rmAt'[q] = rmAt[q] /\ rmPeer'[q] = rmPeer[q] /\ (crossed => crossed')
            /\ \A t \in Session : sesAt[t] \in Entered => sesAt'[t] \in Entered /\ (sesAt'[t] = "load" => sesAt[t] = "load")
            /\ inLoader' = inLoader \/ inLoader' = 0
        BY <2>1, Zenon DEF SessionTypes, Removing, Entered
      <3>2. QED
        BY Zenon, <3>1, RemovesKept
    <2>2. CASE q = Dropper
      <3>1. Removes(q) /\ rmAt'[q] = "called" /\ rmPeer' = rmPeer
        BY <2>2, Zenon DEF SessionTypes, Removing
      <3>2. QED
        BY <2>2, <3>1, Zenon DEF Removes
    <2>3. QED
      BY Zenon, <2>1, <2>2
  <1>5. QED
    BY <1>1, <1>2, <1>3, <1>4, Zenon DEF Removing

\* The steps of Stop.
LEMMA StopStepInv == ASSUME SessionInv, StopStep PROVE SessionInv'
  <1> USE SessionFacts DEF SessionInv, StopStep, DisconnectAll, removal
  <1>1. SessionTypes'
    BY Zenon DEF SessionTypes, SessionAt, Counted
  <1>2. OneActive'
    BY Zenon DEF SessionTypes, OneActive
  <1>3. Registered'
    <2>1. \A s \in Session : sesUp'[s] => sesUp[s]
      BY Zenon DEF SessionTypes
    <2>2. pmStop' \in {"wait", "stopped"} => peersClosed'
      BY Zenon DEF Registered
    <2>3. pmStop' = "stopped" => inPeers = 0
      BY Zenon DEF SessionTypes, Registered, Counted
    <2>4. /\ sesAt' = sesAt /\ inPeers' = inPeers /\ inLoader' = inLoader
          /\ rmAt' = rmAt /\ rmPeer' = rmPeer /\ crossed' = crossed
      BY Zenon
    <2> HIDE SessionFacts DEF StopStep
    <2>5. QED
      BY <2>1, <2>2, <2>3, <2>4, Zenon DEF Registered
  <1>4. ASSUME NEW q \in Remover PROVE Removes(q)'
    <2>1. /\ Removes(q) /\ rmAt'[q] = rmAt[q] /\ rmPeer'[q] = rmPeer[q] /\ (crossed => crossed')
          /\ \A t \in Session : sesAt[t] \in Entered => sesAt'[t] \in Entered /\ (sesAt'[t] = "load" => sesAt[t] = "load")
          /\ inLoader' = inLoader \/ inLoader' = 0 \/ sesAt[inLoader'] = "load"
      BY Zenon DEF SessionTypes, Removing, Entered
    <2>2. QED
      BY Zenon, <2>1, RemovesKept
  <1>5. QED
    BY <1>1, <1>2, <1>3, <1>4, Zenon DEF Removing

\* Every step keeps the invariant.
LEMMA SessionsNextInv == SessionInv /\ [SessionsNext]_sessionVars => SessionInv'
  <1> SUFFICES ASSUME SessionInv, [SessionsNext]_sessionVars PROVE SessionInv'
    OBVIOUS
  <1>1. CASE SessionsNext
    <2>1. ASSUME NEW s \in Session, Connect(s) \/ HandleStep(s) \/ ServeEnds(s) \/ ConnectionLost(s)
          PROVE  SessionInv'
      BY Zenon, <2>1, ConnectInv, AnnounceInv, HandleBeginInv, ShakeInv, RegisterInv, RegisterLoaderInv, LeaveInv,
         ServeEndsInv, ConnectionLostInv DEF HandleStep
    <2>2. ASSUME NEW r \in Remover, RemoveBegin(r) \/ RemoveStep(r)
          PROVE  SessionInv'
      BY <2>2, RemoveBeginInv, RemoveLoaderInv, RemoveRegisteredInv, RemoveDisconnectInv, Zenon DEF RemoveStep
    <2>3. QED
      BY <1>1, <2>1, <2>2, DropInv, StopStepInv, Zenon DEF SessionsNext
  <1>2. CASE UNCHANGED sessionVars
    BY <1>2, Zenon DEF sessionVars, removal, stopping, SessionInv, SessionTypes, OneActive, Registered, Removing, Removes
  <1>3. QED
    BY Zenon, <1>1, <1>2

\* What the invariant says of the two registers.
LEMMA SessionInvExact == SessionInv => RegistrationExact
  <1> SUFFICES ASSUME SessionInv PROVE RegistrationExact
    BY Zenon
  <1>1. ServingRegistered
    BY SessionFacts, Zenon DEF SessionInv, Registered, ServingRegistered
  <1>2. NothingLeftBehind
    BY Zenon DEF SessionInv, Registered, NothingLeftBehind
  <1>3. StoppedEmpty
    BY Zenon DEF SessionInv, Registered, StoppedEmpty
  <1>4. QED
    BY <1>1, <1>2, <1>3, Zenon DEF RegistrationExact

\* Who is registered is who is served, for any number of sessions of a node
\* one after the other and a removal by the downloader or the fetcher at any
\* time.
THEOREM RegistrationExactCorrect == SessionsSpec => []RegistrationExact
  <1>1. SessionsSpec => []SessionInv
    BY SessionsInitInv, SessionsNextInv, PTL DEF SessionsSpec
  <1>2. QED
    BY <1>1, SessionInvExact, PTL
=============================================================================
