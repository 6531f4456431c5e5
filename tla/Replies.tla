------------------------------ MODULE Replies ------------------------------
(***************************************************************************)
(* The reply matcher of the discovery protocol (p2p/discover/udp.go): the   *)
(* goroutine loop keeps the list of requests that wait for a packet, hands  *)
(* every packet to them and answers those whose deadline has passed.  One   *)
(* timer serves all; it is set anew only when the head of the list is not   *)
(* the request it was last set for.                                         *)
(*                                                                          *)
(* container/list clears the links of an element it removes, so each of the *)
(* loops `for el := plist.Front(); el != nil; el = el.Next()` ends with the *)
(* first element it removes.                                                *)
(***************************************************************************)
EXTENDS Integers, Sequences

CONSTANTS Request,      \* calls of ping, waitping and findnode
          RequestFrom,  \* the node each of them waits for
          RequestType,  \* the packet it waits for: "pong", "ping", "neighbors"
          RespTimeout,  \* respTimeout
          BucketSize,   \* the number of neighbors that completes a findnode
          UdpTime       \* bound: the last moment of the clock

NoRequest == "none"

ASSUME RepliesConstants == RespTimeout \in Nat /\ BucketSize \in Nat /\ NoRequest \notin Request

VARIABLES plist,        \* the pending requests, oldest first
          deadline,     \* p.deadline
          received,     \* nreceived of a findnode
          outcome,      \* what was sent to errc: "open" before that
          nextTimeout,  \* the request the timer was last set for
          udpTimer,     \* when the timer will fire; 0: not running
          udpTick,      \* the moment in timeout.C; 0: the channel is empty
          udpNow,       \* the clock
          udpLoop       \* "run", "closing" (t.closing is closed), "ended"

udpVars == <<plist, deadline, received, outcome, nextTimeout, udpTimer,
             udpTick, udpNow, udpLoop>>

RepliesInit ==
  /\ plist = <<>>
  /\ deadline = [r \in Request |-> 0]
  /\ received = [r \in Request |-> 0]
  /\ outcome = [r \in Request |-> "open"]
  /\ nextTimeout = NoRequest
  /\ udpTimer = 0 /\ udpTick = 0 /\ udpNow = 1
  /\ udpLoop = "run"

Pending(r) == \E i \in DOMAIN plist : plist[i] = r

\* plist.Remove
Without(list, i) == SubSeq(list, 1, i - 1) \o SubSeq(list, i + 1, Len(list))

(***************************************************************************)
(* resetTimeout, which every pass of the loop begins with.  Deadlines carry *)
(* the monotonic clock, so none is further away than respTimeout and the    *)
(* branch for a clock that jumped back is not taken.                        *)
(***************************************************************************)

\* Mutant: the timer is set for the request that is alone in the list only.
ResetTimeoutAlone(list, dl, next) ==
  IF Len(list) # 1 \/ next = Head(list)
  THEN nextTimeout' = next /\ UNCHANGED udpTimer
  ELSE nextTimeout' = Head(list) /\ udpTimer' = dl[Head(list)]

ResetTimeout(list, dl, next) ==
  IF list = <<>> \/ next = Head(list)
  THEN nextTimeout' = next /\ UNCHANGED udpTimer
  ELSE nextTimeout' = Head(list) /\ udpTimer' = dl[Head(list)]

(***************************************************************************)
(* The steps of the loop                                                    *)
(***************************************************************************)

\* pending and the loop's receipt of it; after the close the caller answers
\* itself.
AddPending(r) ==
  /\ outcome[r] = "open" /\ ~Pending(r)
  /\ udpNow + RespTimeout <= UdpTime
  /\ \/ /\ udpLoop # "ended"
        /\ plist' = Append(plist, r)
        /\ deadline' = [deadline EXCEPT ![r] = udpNow + RespTimeout]
        /\ ResetTimeout(plist', deadline', nextTimeout)
        /\ UNCHANGED outcome
     \/ /\ udpLoop # "run"
        /\ outcome' = [outcome EXCEPT ![r] = "closed"]
        /\ UNCHANGED <<plist, deadline, nextTimeout, udpTimer>>
  /\ UNCHANGED <<received, udpTick, udpNow, udpLoop>>

\* The callbacks: a pong must carry the hash of the ping (here the ping
\* itself), a ping is always right, neighbors are counted.
Callback(r, packet, got) ==
  CASE RequestType[r] = "pong" -> packet.tok = r
    [] RequestType[r] = "ping" -> TRUE
    [] OTHER -> got >= BucketSize

Packets ==
  [from : {RequestFrom[r] : r \in Request}, ptype : {"pong"}, tok : Request, n : {0}]
    \cup [from : {RequestFrom[r] : r \in Request}, ptype : {"ping"},
          tok : {NoRequest}, n : {0}]
    \cup [from : {RequestFrom[r] : r \in Request}, ptype : {"neighbors"},
          tok : {NoRequest}, n : 1 .. BucketSize]

Matches(r, packet) == RequestFrom[r] = packet.from /\ RequestType[r] = packet.ptype

\* handleReply and the loop's branch: the matchers are called in order, up to
\* and including the first that is complete.
GotReply(packet) ==
  LET got(r) == received[r] + packet.n
      done == {i \in DOMAIN plist : /\ Matches(plist[i], packet)
                                    /\ Callback(plist[i], packet, got(plist[i]))}
      last == IF done = {} THEN Len(plist)
              ELSE CHOOSE i \in done : \A j \in done : i <= j
      called == {plist[i] : i \in {j \in 1 .. last : Matches(plist[j], packet)}}
  IN /\ udpLoop # "ended"
     /\ called # {}
     /\ received' = [r \in Request |-> IF r \in called /\ r \notin {plist[i] : i \in done}
                                       THEN got(r) ELSE received[r]]
     /\ plist' = IF done = {} THEN plist ELSE Without(plist, last)
     /\ outcome' = IF done = {} THEN outcome
                   ELSE [outcome EXCEPT ![plist[last]] = "nil"]
     /\ ResetTimeout(plist', deadline, nextTimeout)
        /\ UNCHANGED <<deadline, udpTick, udpNow, udpLoop>>

\* The positions the timeout branch answers: the first whose deadline is over.
TimedOut(now) ==
  {i \in DOMAIN plist : /\ deadline[plist[i]] <= now
                        /\ \A j \in 1 .. i - 1 : deadline[plist[j]] > now}

\* The branch of the timer.
Timeout ==
  /\ udpLoop # "ended" /\ udpTick # 0
  /\ LET gone == TimedOut(udpTick)
     IN /\ plist' = IF gone = {} THEN plist
                    ELSE Without(plist, CHOOSE i \in gone : TRUE)
        /\ outcome' = [r \in Request |-> IF \E i \in gone : plist[i] = r THEN "timeout" ELSE outcome[r]]
  /\ ResetTimeout(plist', deadline, NoRequest)
  /\ udpTick' = 0
  /\ UNCHANGED <<deadline, received, udpNow, udpLoop>>

\* The branch of t.closing, which also stops the timer.
Closed ==
  /\ udpLoop = "closing"
  /\ udpLoop' = "ended"
  /\ outcome' = [r \in Request |-> IF Pending(r) THEN "closed" ELSE outcome[r]]
  /\ plist' = <<>> /\ udpTimer' = 0 /\ udpTick' = 0
  /\ UNCHANGED <<deadline, received, nextTimeout, udpNow>>

\* close
CloseUdp ==
  /\ udpLoop = "run"
  /\ udpLoop' = "closing"
  /\ UNCHANGED <<plist, deadline, received, outcome, nextTimeout, udpTimer,
                 udpTick, udpNow>>

(***************************************************************************)
(* The runtime: the clock, and the timer that writes to its channel.  A new *)
(* setting does not remove a tick that is in the channel.                   *)
(***************************************************************************)
UdpClock ==
  /\ plist # <<>> \/ udpTimer # 0
  /\ udpNow < UdpTime
  /\ udpNow' = udpNow + 1
  /\ UNCHANGED <<plist, deadline, received, outcome, nextTimeout, udpTimer,
                 udpTick, udpLoop>>

TimerFires ==
  /\ udpTimer # 0 /\ udpTimer <= udpNow
  /\ udpTimer' = 0
  /\ udpTick' = IF udpTick = 0 THEN udpNow ELSE udpTick
  /\ UNCHANGED <<plist, deadline, received, outcome, nextTimeout, udpNow, udpLoop>>

RepliesNext ==
  \/ \E r \in Request : AddPending(r)
  \/ \E p \in Packets : GotReply(p)
  \/ Timeout \/ Closed \/ CloseUdp \/ UdpClock \/ TimerFires

\* select picks at random among the branches that are ready, so one that stays
\* ready is taken in the end; the clock and the timer go on.
RepliesFair ==
  /\ WF_udpVars(Timeout) /\ WF_udpVars(Closed)
  /\ WF_udpVars(UdpClock) /\ WF_udpVars(TimerFires)

RepliesSpec == RepliesInit /\ [][RepliesNext]_udpVars /\ RepliesFair

(***************************************************************************)
(* Properties                                                               *)
(***************************************************************************)

\* A request in the list is always under a timer: loop never waits with
\* nothing set to fire by the time the first deadline is over.  The pointer
\* nextTimeout may name a request that has left the list, the channel may
\* hold the tick of an earlier setting, and an answered head may be followed
\* by a request with a later deadline (udp.go, resetTimeout).
UnderTimer ==
  udpLoop # "ended" /\ plist # <<>> =>
    udpTick # 0 \/ (udpTimer # 0 /\ udpTimer <= deadline[Head(plist)])
=============================================================================
