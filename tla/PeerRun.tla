------------------------------ MODULE PeerRun ------------------------------
(***************************************************************************)
(* The goroutines of one connection (p2p/peer.go): pingloop, loop, the     *)
(* protocol's Run and a broadcaster use the same connection and report     *)
(* their first error to runningErr; run takes one error or one Disconnect, *)
(* closes everything and waits for the others.                             *)
(*                                                                         *)
(* prAt[g] is where goroutine g stands; "cast" is another goroutine that   *)
(* writes to the peer, "quit" one that calls Disconnect.  Messages have no *)
(* content: the reader gets one for the protocol or one that ends the      *)
(* connection.  A ping that is sent changes nothing.                       *)
(***************************************************************************)
EXTENDS Naturals

VARIABLES
  prAt,
  withProto,   \* does p.running hold the protocol?
  netOK,       \* does p.rw.fd work?
  prClosed,    \* p.closed
  runningErr,  \* the number of errors in the channel
  wstart,      \* is the token that serialises writes in its channel?
  prEnd,       \* what ended run: "", "err" or "quit"
  writeErrs    \* which writes failed, "ping" or "write"

connState == <<netOK, prClosed>>
writeState == <<wstart, writeErrs>>
peerRunVars == <<prAt, withProto, connState, runningErr, writeState, prEnd>>

\* make(chan error, len(running)+1)
ErrCapTight(n) == n
ErrCap(n) == n + 1

PeerRunInit ==
  /\ withProto \in BOOLEAN
  /\ prAt = [run |-> "select", ping |-> "wait", read |-> "read", cast |-> "idle", quit |-> "idle",
             proto |-> IF withProto THEN "read" ELSE "done"]
  /\ netOK = TRUE /\ prClosed = FALSE
  /\ runningErr = 0
  /\ wstart = TRUE /\ writeErrs = {}
  /\ prEnd = ""

\* Goroutine g steps from one place to another.
Moves(g, from, to) ==
  /\ prAt[g] = from
  /\ prAt' = [prAt EXCEPT ![g] = to]
  /\ UNCHANGED withProto

Break ==
  /\ netOK /\ netOK' = FALSE
  /\ UNCHANGED <<prAt, withProto, prClosed, runningErr, writeState, prEnd>>

-----------------------------------------------------------------------------
\* run and Disconnect

TakeErr ==
  /\ Moves("run", "select", "shutdown")
  /\ runningErr > 0 /\ runningErr' = runningErr - 1
  /\ prEnd' = "err"
  /\ UNCHANGED <<connState, writeState>>

TakeQuit ==
  /\ prAt.run = "select" /\ prAt.quit = "asks"
  /\ prAt' = [prAt EXCEPT !.run = "shutdown", !.quit = "idle"]
  /\ prEnd' = "quit"
  /\ UNCHANGED <<withProto, connState, runningErr, writeState>>

\* close(p.closed); p.rw.close(err)
Shutdown ==
  /\ Moves("run", "shutdown", "wait")
  /\ prClosed' = TRUE /\ netOK' = FALSE
  /\ UNCHANGED <<runningErr, writeState, prEnd>>

\* p.wg.Wait()
Return ==
  /\ \A g \in {"ping", "read", "proto"} : prAt[g] = "done"
  /\ Moves("run", "wait", "returned")
  /\ UNCHANGED <<connState, runningErr, writeState, prEnd>>

Disconnect ==
  /\ \/ Moves("quit", "idle", "asks")
     \/ prClosed /\ Moves("quit", "asks", "idle")
  /\ UNCHANGED <<connState, runningErr, writeState, prEnd>>

-----------------------------------------------------------------------------
\* pingloop, loop with handle, and the protocol's reads

PingFails ==
  /\ ~netOK
  /\ Moves("ping", "wait", "report")
  /\ writeErrs' = writeErrs \cup {"ping"}
  /\ UNCHANGED <<connState, runningErr, wstart, prEnd>>

\* What each goroutine does once p.closed is closed, the writers aside.
StopsOnClosed ==
  /\ prClosed
  /\ \/ Moves("ping", "wait", "done")
     \/ Moves("read", "deliver", "report")
     \/ Moves("proto", "read", "report")
  /\ UNCHANGED <<connState, runningErr, writeState, prEnd>>

\* A message for the protocol (getProto finds none without one), or a read
\* error, quitMsg, or a pong that is not sent.
ReadMsg ==
  /\ \/ netOK /\ Moves("read", "read", IF withProto THEN "deliver" ELSE "report")
     \/ Moves("read", "read", "report")
  /\ UNCHANGED <<connState, runningErr, writeState, prEnd>>

\* proto.in <- msg meets protoRW.ReadMsg; the protocol answers, goes on or ends.
Deliver ==
  /\ prAt.read = "deliver" /\ prAt.proto = "read"
  /\ \E next \in {"write", "read", "report"} :
       prAt' = [prAt EXCEPT !.read = "read", !.proto = next]
  /\ UNCHANGED <<withProto, connState, runningErr, writeState, prEnd>>

\* p.runningErr <- err, the last step of a goroutine
Report ==
  /\ runningErr < ErrCap(IF withProto THEN 1 ELSE 0)
  /\ runningErr' = runningErr + 1
  /\ \E g \in {"ping", "read", "proto"} : Moves(g, "report", "done")
  /\ UNCHANGED <<connState, writeState, prEnd>>

-----------------------------------------------------------------------------
\* protoRW.WriteMsg by Run or by a broadcaster: with the token, or not at all.

AfterWrite(g) == IF g = "proto" THEN "read" ELSE "idle"
AfterError(g) == IF g = "proto" THEN "report" ELSE "idle"

Cast ==
  /\ withProto /\ prAt.run # "returned"
  /\ Moves("cast", "idle", "write")
  /\ UNCHANGED <<connState, runningErr, writeState, prEnd>>

WriteMsg(g) ==
  /\ \/ wstart /\ netOK /\ Moves(g, "write", AfterWrite(g)) /\ UNCHANGED writeState
     \/ /\ wstart /\ ~netOK /\ Moves(g, "write", "werr")
        /\ wstart' = FALSE
        /\ writeErrs' = writeErrs \cup {"write"}
     \/ prClosed /\ Moves(g, "write", AfterError(g)) /\ UNCHANGED writeState
  /\ UNCHANGED <<connState, runningErr, prEnd>>

\* rw.werr <- err; the token is not given back
ReportWrite(g) ==
  /\ runningErr < ErrCap(IF withProto THEN 1 ELSE 0)
  /\ runningErr' = runningErr + 1
  /\ Moves(g, "werr", AfterError(g))
  /\ UNCHANGED <<connState, writeState, prEnd>>

Run == TakeErr \/ TakeQuit \/ Shutdown \/ Return

PeerRunNext ==
  \/ Break \/ Run \/ Disconnect \/ PingFails \/ StopsOnClosed \/ ReadMsg \/ Deliver \/ Report \/ Cast
  \/ \E g \in {"proto", "cast"} : WriteMsg(g) \/ ReportWrite(g)

\* Goroutines that can run are scheduled; ReadMsg on a closed connection returns.
PeerRunFair ==
  /\ WF_peerRunVars(Run)
  /\ WF_peerRunVars(prClosed /\ (PingFails \/ StopsOnClosed \/ ReadMsg))
  /\ WF_peerRunVars(Report)
  /\ \A g \in {"proto", "cast"} : WF_peerRunVars(WriteMsg(g)) /\ WF_peerRunVars(ReportWrite(g))

-----------------------------------------------------------------------------
\* More errors than the channel holds: the reader and the protocol always
\* report, so it has room for as many failed writes as run took errors.
Overflows ==
  (IF "ping" \in writeErrs THEN 1 ELSE 0) + (IF "write" \in writeErrs THEN 1 ELSE 0)
    > (IF prEnd = "err" THEN 1 ELSE 0)

\* run returns once the connection is closed, so that the server learns of it
\* and frees the node's place, unless Overflows: then a goroutine waits for
\* ever to report its error and run for that goroutine.
RunEnds == prClosed ~> (prAt.run = "returned" \/ Overflows)
=============================================================================
