------------------------------ MODULE Sessions ------------------------------
(***************************************************************************)
(* Sessions of the block protocol (node/protocol.go, node/peer.go,         *)
(* node/peerset.go): Run and handle for every connection, removePeer,      *)
(* which handle defers and which the downloader and the fetcher call for a *)
(* peer that misbehaved, and Stop.                                         *)
(*                                                                         *)
(* Sessions 1, 2, ... are connections of one node, one after the other:    *)
(* the p2p server accepts the node again only after Run has returned.      *)
(* They have the same peer id.  Dropper is the caller of removePeer in the *)
(* downloader or fetcher, which may be late with it.  MaxPeers is tested   *)
(* before the handshake only; peers of other nodes are not modelled.       *)
(***************************************************************************)
EXTENDS Naturals

CONSTANT MaxSessions

ASSUME SessionsBound == MaxSessions \in Nat

Session == 1..MaxSessions
Dropper == 0
Remover == Session \cup {Dropper}

VARIABLES
  sesAt,       \* Run and handle, for each session
  sesUp,       \* is the connection of the session open (p.closed)?
  inPeers,     \* the session registered in pm.peers, or 0
  inLoader,    \* the session registered in the downloader, or 0
  peersClosed, \* ps.closed
  rmAt,        \* removePeer, for each remover: idle, unload, unregister, disconnect
  rmPeer,      \* its variable peer: a session
  syncerUp,    \* the loop of syncer
  pmStop,      \* Stop: idle, more, quit, close, wait, stopped
  sesWg,       \* the sessions counted by pm.wg
  crossed      \* has Dropper removed another session than the one it looked up,
               \* or one between its two registrations?

removal == <<rmAt, rmPeer, crossed>>
stopping == <<peersClosed, syncerUp, pmStop>>
sessionVars == <<sesAt, sesUp, inPeers, inLoader, removal, stopping, sesWg>>

SessionsInit ==
  /\ sesAt = [s \in Session |-> "none"]
  /\ sesUp = [s \in Session |-> FALSE]
  /\ inPeers = 0 /\ inLoader = 0
  /\ peersClosed = FALSE /\ syncerUp = TRUE /\ pmStop = "idle"
  /\ rmAt = [r \in Remover |-> "idle"]
  /\ rmPeer = [r \in Remover |-> 0]
  /\ sesWg = {}
  /\ crossed = FALSE

-----------------------------------------------------------------------------
\* Run and handle

\* the server starts the protocol on a new connection
Connect(s) ==
  /\ sesAt[s] = "none"
  /\ s > 1 => sesAt[s - 1] = "done"
  /\ sesAt' = [sesAt EXCEPT ![s] = "run"]
  /\ sesUp' = [sesUp EXCEPT ![s] = TRUE]
  /\ UNCHANGED <<inPeers, inLoader, removal, stopping, sesWg>>

\* the select of Run: newPeerCh <- peer meets syncer, or quitSync is closed
Announce(s) ==
  /\ sesAt[s] = "run"
  /\ \/ syncerUp /\ sesAt' = [sesAt EXCEPT ![s] = "add"]
     \/ pmStop \in {"close", "wait", "stopped"} /\ sesAt' = [sesAt EXCEPT ![s] = "done"]
  /\ UNCHANGED <<sesUp, inPeers, inLoader, removal, stopping, sesWg>>

\* wg.Add(1); handle sees room for a peer, or not
HandleBegin(s) ==
  /\ sesAt[s] = "add"
  /\ sesWg' = sesWg \cup {s}
  /\ \E next \in {"shake", "leave"} : sesAt' = [sesAt EXCEPT ![s] = next]
  /\ UNCHANGED <<sesUp, inPeers, inLoader, removal, stopping>>

\* Handshake: two goroutines, a reader that checks the status and a writer,
\* and a timeout; it may fail at any time and must when the connection ends
Shake(s) ==
  /\ sesAt[s] = "shake"
  /\ \/ sesUp[s] /\ sesAt' = [sesAt EXCEPT ![s] = "register"]
     \/ sesAt' = [sesAt EXCEPT ![s] = "leave"]
  /\ UNCHANGED <<sesUp, inPeers, inLoader, removal, stopping, sesWg>>

\* peers.Register
Register(s) ==
  /\ sesAt[s] = "register"
  /\ IF peersClosed \/ inPeers # 0
     THEN /\ sesAt' = [sesAt EXCEPT ![s] = "leave"]
          /\ UNCHANGED inPeers
     ELSE /\ inPeers' = s
          /\ sesAt' = [sesAt EXCEPT ![s] = "load"]
  /\ UNCHANGED <<sesUp, inLoader, removal, stopping, sesWg>>

\* downloader.RegisterPeer, which refuses an id it has
RegisterLoader(s) ==
  /\ sesAt[s] = "load"
  /\ IF inLoader # 0 THEN UNCHANGED inLoader ELSE inLoader' = s
  /\ sesAt' = [sesAt EXCEPT ![s] = IF inLoader # 0 THEN "remove" ELSE "serve"]
  /\ UNCHANGED <<sesUp, inPeers, removal, stopping, sesWg>>

\* handleMsg fails: the connection has ended, or a message is bad
ServeEnds(s) ==
  /\ sesAt[s] = "serve"
  /\ sesAt' = [sesAt EXCEPT ![s] = "remove"]
  /\ UNCHANGED <<sesUp, inPeers, inLoader, removal, stopping, sesWg>>

\* Run returns, wg.Done, and the p2p peer closes the connection
Leave(s) ==
  /\ sesAt[s] = "leave"
  /\ sesAt' = [sesAt EXCEPT ![s] = "done"]
  /\ sesUp' = [sesUp EXCEPT ![s] = FALSE]
  /\ sesWg' = sesWg \ {s}
  /\ UNCHANGED <<inPeers, inLoader, removal, stopping>>

\* the remote side goes away
ConnectionLost(s) ==
  /\ sesUp[s]
  /\ sesUp' = [sesUp EXCEPT ![s] = FALSE]
  /\ UNCHANGED <<sesAt, inPeers, inLoader, removal, stopping, sesWg>>

-----------------------------------------------------------------------------
\* removePeer(id)

\* Its caller goes on: handle returns.
AfterRemove(r) ==
  IF r = Dropper THEN UNCHANGED sesAt ELSE sesAt' = [sesAt EXCEPT ![r] = "leave"]

Calls(r) == IF r = Dropper THEN rmAt[r] = "called" ELSE rmAt[r] = "idle" /\ sesAt[r] = "remove"

\* dropPeer in the downloader or the fetcher, about a session that serves
Drop ==
  /\ rmAt[Dropper] = "idle"
  /\ \E s \in Session : sesAt[s] = "serve"
  /\ rmAt' = [rmAt EXCEPT ![Dropper] = "called"]
  /\ UNCHANGED <<sesAt, sesUp, inPeers, inLoader, rmPeer, crossed, stopping, sesWg>>

\* peers.Peer(id)
RemoveBegin(r) ==
  /\ Calls(r)
  /\ IF inPeers = 0
     THEN /\ AfterRemove(r)
          /\ rmAt' = [rmAt EXCEPT ![r] = "idle"]
          /\ UNCHANGED <<rmPeer, crossed>>
     ELSE /\ rmAt' = [rmAt EXCEPT ![r] = "unload"]
          /\ rmPeer' = [rmPeer EXCEPT ![r] = inPeers]
          /\ UNCHANGED <<sesAt, crossed>>
  /\ UNCHANGED <<sesUp, inPeers, inLoader, stopping, sesWg>>

\* downloader.UnregisterPeer(id)
RemoveLoader(r) ==
  /\ rmAt[r] = "unload"
  /\ inLoader' = 0
  /\ rmAt' = [rmAt EXCEPT ![r] = "unregister"]
  /\ crossed' = (crossed \/ inLoader \notin {0, rmPeer[r]} \/ sesAt[rmPeer[r]] = "load")
  /\ UNCHANGED <<sesAt, sesUp, inPeers, rmPeer, stopping, sesWg>>

\* peers.Unregister(id)
RemoveRegistered(r) ==
  /\ rmAt[r] = "unregister"
  /\ inPeers' = 0
  /\ rmAt' = [rmAt EXCEPT ![r] = "disconnect"]
  /\ crossed' = (crossed \/ inPeers \notin {0, rmPeer[r]} \/ sesAt[rmPeer[r]] = "load")
  /\ UNCHANGED <<sesAt, sesUp, inLoader, rmPeer, stopping, sesWg>>

\* Mutant: the connection stays open.
RemoveDisconnectQuiet(r) ==
  /\ rmAt[r] = "disconnect"
  /\ rmAt' = [rmAt EXCEPT ![r] = "idle"]
  /\ rmPeer' = [rmPeer EXCEPT ![r] = 0]
  /\ AfterRemove(r)
  /\ UNCHANGED <<sesUp, inPeers, inLoader, crossed, stopping, sesWg>>

\* peer.Peer.Disconnect
RemoveDisconnect(r) ==
  /\ rmAt[r] = "disconnect"
  /\ sesUp' = [sesUp EXCEPT ![rmPeer[r]] = FALSE]
  /\ rmAt' = [rmAt EXCEPT ![r] = "idle"]
  /\ rmPeer' = [rmPeer EXCEPT ![r] = 0]
  /\ AfterRemove(r)
  /\ UNCHANGED <<inPeers, inLoader, crossed, stopping, sesWg>>

-----------------------------------------------------------------------------
\* Stop

\* peers.Close: what is up afterwards
DisconnectAll == [s \in Session |-> sesUp[s] /\ s # inPeers]

\* Stop is called; noMorePeers <- ends syncer (and with it the downloader and
\* the fetcher); close(quitSync); peers.Close() disconnects all and closes the
\* set; wg.Wait()
StopStep ==
  /\ \/ pmStop = "idle" /\ pmStop' = "more" /\ UNCHANGED <<syncerUp, peersClosed, sesUp>>
     \/ pmStop = "more" /\ pmStop' = "quit" /\ syncerUp' = FALSE /\ UNCHANGED <<peersClosed, sesUp>>
     \/ pmStop = "quit" /\ pmStop' = "close" /\ UNCHANGED <<syncerUp, peersClosed, sesUp>>
     \/ /\ pmStop = "close" /\ pmStop' = "wait" /\ UNCHANGED syncerUp
        /\ peersClosed' = TRUE
        /\ sesUp' = DisconnectAll
     \/ /\ pmStop = "wait" /\ sesWg = {} /\ pmStop' = "stopped"
        /\ UNCHANGED <<syncerUp, peersClosed, sesUp>>
  /\ UNCHANGED <<sesAt, inPeers, inLoader, removal, sesWg>>

HandleStep(s) == Announce(s) \/ HandleBegin(s) \/ Shake(s) \/ Register(s) \/ RegisterLoader(s) \/ Leave(s)
RemoveStep(r) == RemoveLoader(r) \/ RemoveRegistered(r) \/ RemoveDisconnect(r)

SessionsNext ==
  \/ \E s \in Session : Connect(s) \/ HandleStep(s) \/ ServeEnds(s) \/ ConnectionLost(s)
  \/ \E r \in Remover : RemoveBegin(r) \/ RemoveStep(r)
  \/ Drop \/ StopStep

\* Goroutines that can run are scheduled; handleMsg on a closed connection
\* fails.  That Stop is called is not assumed.
SessionsFair ==
  /\ \A s \in Session : /\ WF_sessionVars(HandleStep(s))
                        /\ WF_sessionVars(~sesUp[s] /\ ServeEnds(s))
                        /\ WF_sessionVars(RemoveBegin(s))
  /\ \A r \in Remover : WF_sessionVars(RemoveStep(r))
  /\ WF_sessionVars(pmStop # "idle" /\ StopStep)

SessionsSpec == SessionsInit /\ [][SessionsNext]_sessionVars /\ SessionsFair

-----------------------------------------------------------------------------
\* A session that serves an open connection is registered in both sets, or is being
\* removed, unless removePeer, which finds a peer and removes it in several
\* steps by its id alone, has crossed into another session.
ServingRegistered ==
  \A s \in Session : sesAt[s] = "serve" /\ sesUp[s] =>
    \/ crossed
    \/ inPeers = s /\ inLoader = s
    \/ \E r \in Remover : rmPeer[r] = s

\* A session that is over leaves nothing behind: the downloader would ask a
\* closed connection, and refuse the next session of the node.
NothingLeftBehind == \A s \in Session : sesAt[s] = "done" => crossed \/ (inPeers # s /\ inLoader # s)

\* When Stop has returned no session is registered any more.
StoppedEmpty == pmStop = "stopped" => inPeers = 0

\* Who is registered is who is served, from the handshake to the stop.
RegistrationExact == ServingRegistered /\ NothingLeftBehind /\ StoppedEmpty
=============================================================================
