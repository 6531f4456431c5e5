------------------------------- MODULE Server -------------------------------
(***************************************************************************)
(* The server of the peer-to-peer network (p2p/server.go): listenLoop and  *)
(* dial tasks set up connections in goroutines of their own, which pass    *)
(* two checkpoints of the loop run; run owns the table of peers; Stop      *)
(* closes the server and waits for listenLoop and run.                     *)
(*                                                                         *)
(* A connection is one of a given set, with the identity its handshake     *)
(* will show.  The mutex of the server is held for longer than one step    *)
(* only by Stop, so it is taken exactly while stopAt is "waiting".  What a *)
(* peer does is PeerRun, what a dial task is for is Dialer.                *)
(***************************************************************************)
EXTENDS Naturals, FiniteSets

CONSTANTS
  Inbound, Outbound,  \* the connections accepted and dialled
  Silent,             \* connections whose remote side stops answering in the handshake
  PeerIds, SelfId,    \* identities, and our own
  AcceptSlots         \* MaxAcceptConns

VARIABLES
  idOf,        \* the identity of each connection
  stage,       \* where SetupConn stands for each connection
  peerAt,      \* the peer of each connection: none, running, ended or gone
  srvPeers,    \* peers: the connections in run's table
  srvRun,      \* run: [at, conn, ok], conn being checked and the result
  listenAt,    \* listenLoop: slot, accept, ended
  slots,
  stopAt       \* Stop: idle, waiting (with the mutex), stopped

serverVars == <<idOf, stage, peerAt, srvPeers, srvRun, listenAt, slots, stopAt>>

Conns == Inbound \cup Outbound
Quit == stopAt # "idle"             \* srv.quit is closed, srv.running is false
MutexFree == stopAt # "waiting"
NoConn == "no connection"
Loop == [at |-> "select", conn |-> NoConn, ok |-> FALSE]

ServerInit ==
  /\ idOf \in [Conns -> PeerIds \cup {SelfId}]
  /\ stage = [c \in Conns |-> "new"]
  /\ peerAt = [c \in Conns |-> "none"]
  /\ srvPeers = {}
  /\ srvRun = Loop
  /\ listenAt = "slot"
  /\ slots = AcceptSlots
  /\ stopAt = "idle"

-----------------------------------------------------------------------------
\* listenLoop

AcceptSlot ==
  /\ listenAt = "slot" /\ slots > 0
  /\ slots' = slots - 1
  /\ listenAt' = "accept"
  /\ UNCHANGED <<idOf, stage, peerAt, srvPeers, srvRun, stopAt>>

Accept(c) ==
  /\ listenAt = "accept" /\ ~Quit
  /\ c \in Inbound /\ stage[c] = "new"
  /\ stage' = [stage EXCEPT ![c] = "enter"]
  /\ listenAt' = "slot"
  /\ UNCHANGED <<idOf, peerAt, srvPeers, srvRun, slots, stopAt>>

\* the listener has been closed
AcceptFails ==
  /\ listenAt = "accept" /\ Quit
  /\ listenAt' = "ended"
  /\ UNCHANGED <<idOf, stage, peerAt, srvPeers, srvRun, slots, stopAt>>

-----------------------------------------------------------------------------
\* SetupConn, and the task that dials

\* SetupConn returns; an accepted connection gives its slot back, and a
\* failure closes the connection, which ends a peer started on it
Finish(c, result) ==
  /\ stage' = [stage EXCEPT ![c] = result]
  /\ slots' = IF c \in Inbound THEN slots + 1 ELSE slots
  /\ peerAt' = IF result = "failed" /\ peerAt[c] = "running"
               THEN [peerAt EXCEPT ![c] = "ended"] ELSE peerAt

Dial(c) ==
  /\ c \in Outbound /\ stage[c] = "new"
  /\ stage' = [stage EXCEPT ![c] = "enter"]
  /\ UNCHANGED <<idOf, peerAt, srvPeers, srvRun, listenAt, slots, stopAt>>

\* Self() and the test of srv.running, both under the mutex
SetupBegins(c) ==
  /\ stage[c] = "enter" /\ MutexFree
  /\ IF Quit THEN Finish(c, "failed")
             ELSE /\ stage' = [stage EXCEPT ![c] = "enc"]
                  /\ UNCHANGED <<peerAt, slots>>
  /\ UNCHANGED <<idOf, srvPeers, srvRun, listenAt, stopAt>>

\* doEncHandshake and doProtoHandshake, each followed by its checkpoint; a
\* silent remote side never lets them return
Handshake(c) ==
  /\ c \notin Silent
  /\ stage[c] \in {"enc", "proto"}
  /\ \/ /\ stage' = [stage EXCEPT ![c] = IF stage[c] = "enc" THEN "post" ELSE "add"]
        /\ UNCHANGED <<peerAt, slots>>
     \/ Finish(c, "failed")
  /\ UNCHANGED <<idOf, srvPeers, srvRun, listenAt, stopAt>>

\* checkpoint takes the branch of srv.quit
SetupLeaves(c) ==
  /\ Quit
  /\ stage[c] \in {"post", "add", "wait"}
  /\ Finish(c, "failed")
  /\ UNCHANGED <<idOf, srvPeers, srvRun, listenAt, stopAt>>

-----------------------------------------------------------------------------
\* run

\* stage <- c meets the receive from posthandshake or addpeer
Checkpoint(c) ==
  /\ srvRun.at = "select"
  /\ stage[c] \in {"post", "add"}
  /\ srvRun' = [at |-> stage[c], conn |-> c, ok |-> FALSE]
  /\ stage' = [stage EXCEPT ![c] = "wait"]
  /\ UNCHANGED <<idOf, peerAt, srvPeers, listenAt, slots, stopAt>>

Connected(id) == \E p \in srvPeers : idOf[p] = id

\* Mutant: connected nodes are let through.
CheckLoose(c, ok) ==
  /\ MutexFree
  /\ ok = (Quit \/ idOf[c] # SelfId)

\* encHandshakeChecks: Self takes the mutex, but only when the first case is not met
Check(c, ok) ==
  \/ Connected(idOf[c]) /\ ok = FALSE
  \/ ~Connected(idOf[c]) /\ MutexFree /\ ok = (Quit \/ idOf[c] # SelfId)

\* encHandshakeChecks, for addpeer followed by NewPeer and runPeer
RunChecks ==
  /\ srvRun.at \in {"post", "add"}
  /\ \E ok \in BOOLEAN :
       /\ Check(srvRun.conn, ok)
       /\ LET added == IF ok /\ srvRun.at = "add" THEN {srvRun.conn} ELSE {} IN
          /\ srvPeers' = srvPeers \cup added
          /\ peerAt' = [c \in Conns |-> IF c \in added THEN "running" ELSE peerAt[c]]
          /\ srvRun' = [at |-> IF srvRun.at = "post" THEN "proto" ELSE "ok", conn |-> srvRun.conn, ok |-> ok]
  /\ UNCHANGED <<idOf, stage, listenAt, slots, stopAt>>

\* c.cont <- err
AnswerSetup ==
  /\ srvRun.at \in {"proto", "ok"}
  /\ stage[srvRun.conn] = "wait"
  /\ IF srvRun.ok /\ srvRun.at = "proto"
     THEN stage' = [stage EXCEPT ![srvRun.conn] = "proto"] /\ UNCHANGED <<peerAt, slots>>
     ELSE Finish(srvRun.conn, IF srvRun.ok THEN "ok" ELSE "failed")
  /\ srvRun' = Loop
  /\ UNCHANGED <<idOf, srvPeers, listenAt, stopAt>>

\* the connection of a peer ends by itself, or because run disconnects it
PeerEnds(c) ==
  /\ peerAt[c] = "running"
  /\ peerAt' = [peerAt EXCEPT ![c] = "ended"]
  /\ UNCHANGED <<idOf, stage, srvPeers, srvRun, listenAt, slots, stopAt>>

\* Mutant: once it stops, run receives no peers that have ended.
DelPeerEarly(c) ==
  /\ srvRun.at = "select"
  /\ peerAt[c] = "ended"
  /\ peerAt' = [peerAt EXCEPT ![c] = "gone"]
  /\ srvPeers' = srvPeers \ {c}
  /\ UNCHANGED <<idOf, stage, srvRun, listenAt, slots, stopAt>>

\* srv.delpeer <- p, in runPeer
DelPeer(c) ==
  /\ srvRun.at \in {"select", "drain"}
  /\ peerAt[c] = "ended"
  /\ peerAt' = [peerAt EXCEPT ![c] = "gone"]
  /\ srvPeers' = srvPeers \ {c}
  /\ UNCHANGED <<idOf, stage, srvRun, listenAt, slots, stopAt>>

\* the branches of srv.quit; then run disconnects all and waits for them
RunQuits ==
  /\ Quit
  /\ srvRun.at \in {"select", "proto", "ok"}
  /\ srvRun' = [Loop EXCEPT !.at = "drain"]
  /\ UNCHANGED <<idOf, stage, peerAt, srvPeers, listenAt, slots, stopAt>>

RunEnded ==
  /\ srvRun.at = "drain" /\ srvPeers = {}
  /\ srvRun' = [srvRun EXCEPT !.at = "ended"]
  /\ UNCHANGED <<idOf, stage, peerAt, srvPeers, listenAt, slots, stopAt>>

-----------------------------------------------------------------------------
\* Stop

StopBegin ==
  /\ stopAt = "idle"
  /\ stopAt' = "waiting"
  /\ UNCHANGED <<idOf, stage, peerAt, srvPeers, srvRun, listenAt, slots>>

StopReturns ==
  /\ stopAt = "waiting" /\ listenAt = "ended" /\ srvRun.at = "ended"
  /\ stopAt' = "stopped"
  /\ UNCHANGED <<idOf, stage, peerAt, srvPeers, srvRun, listenAt, slots>>

RunStep == RunChecks \/ AnswerSetup \/ RunQuits \/ RunEnded \/ \E c \in Conns : DelPeer(c)

ServerNext ==
  \/ AcceptSlot \/ AcceptFails \/ RunStep \/ StopBegin \/ StopReturns
  \/ \E c \in Conns : Accept(c) \/ Dial(c) \/ SetupBegins(c) \/ Handshake(c) \/ SetupLeaves(c) \/ Checkpoint(c) \/ PeerEnds(c)

\* Goroutines that can run are scheduled; a peer that run disconnects ends.
ServerFair ==
  /\ WF_serverVars(Quit /\ AcceptSlot) /\ WF_serverVars(AcceptFails)
  /\ WF_serverVars(RunStep)
  /\ WF_serverVars(StopReturns)
  /\ \A c \in Conns : /\ WF_serverVars(SetupBegins(c) \/ Handshake(c) \/ SetupLeaves(c))
                      /\ WF_serverVars(srvRun.at = "drain" /\ PeerEnds(c))

ServerSpec == ServerInit /\ [][ServerNext]_serverVars /\ ServerFair

-----------------------------------------------------------------------------
\* Two connections to one node that are set up at the same time both pass
\* the first checkpoint; at most one of them becomes a peer, until it has
\* ended for good.
OnePeerPerNode ==
  \A c, d \in Conns :
    c # d /\ idOf[c] = idOf[d] => ~({peerAt[c], peerAt[d]} \subseteq {"running", "ended"})

\* When Stop has returned no peer is left running, however far connections
\* had got when it was called.
NoPeerAfterStop == stopAt = "stopped" => \A c \in Conns : peerAt[c] \in {"none", "gone"}

\* run waits for the mutex that Stop holds, or listenLoop for a slot whose
\* holders wait for that mutex or for a silent remote side.
Caught ==
  /\ stopAt = "waiting"
  /\ \/ srvRun.at \in {"post", "add"}
     \/ /\ listenAt = "slot" /\ slots = 0
        /\ \A c \in Inbound : stage[c] \notin {"post", "add", "wait"}

\* Stop returns, unless it caught run between a checkpoint and the mutex or
\* all slots are lost.
StopEnds == (stopAt = "waiting") ~> (stopAt = "stopped" \/ Caught)
=============================================================================
