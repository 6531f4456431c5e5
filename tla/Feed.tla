-------------------------------- MODULE Feed --------------------------------
(***************************************************************************)
(* A feed (feed/feed.go): senders deliver to every subscribed channel;     *)
(* subscribers come and go meanwhile.  `sendCases' is f.sendCases without  *)
(* its first case, and its first `active' elements are the slice `cases'   *)
(* of the Send in progress: the two share their memory.                    *)
(***************************************************************************)
EXTENDS Naturals, Sequences

CONSTANTS
  Listener,    \* the channels
  FeedSender,  \* each sends one value, itself
  ChanCap      \* capacity of a channel

\* The send lock, when nobody holds it.
NoSender == "unlocked"

ASSUME FeedAssumption == NoSender \notin FeedSender

VARIABLES
  inbox, sendCases, active,
  sendLock,    \* the sender that holds it, or NoSender
  sending,     \* sending[p]: "idle", "try", "select" or "done"
  at,          \* the index of the loop over TrySend
  sub,         \* sub[s]: "out", "in", "removing" or "left"
  unread,      \* unread[s]: values in the channel
  heard     \* heard[s]: the values sent on the channel, in order

feedVars == <<inbox, sendCases, active, sendLock, sending, at, sub, unread, heard>>

-----------------------------------------------------------------------------
\* cases.find and cases.delete
find(cs, s) == {i \in 1 .. Len(cs) : cs[i] = s}
delete(cs, i) == SubSeq(cs, 1, i - 1) \o SubSeq(cs, i + 1, Len(cs))

FeedInit ==
    /\ inbox = <<>> /\ sendCases = <<>> /\ active = 0
    /\ sendLock = NoSender /\ at = 0
    /\ sending = [p \in FeedSender |-> "idle"]
    /\ sub = [s \in Listener |-> "out"]
    /\ unread = [s \in Listener |-> 0]
    /\ heard = [s \in Listener |-> <<>>]

Subscribe(s) ==
    /\ sub[s] = "out"
    /\ sub' = [sub EXCEPT ![s] = "in"]
    /\ inbox' = Append(inbox, s)
    /\ UNCHANGED <<sendCases, active, sendLock, sending, at, unread, heard>>

\* remove: from the inbox, or by way of the sender or its lock.
Unsubscribe(s) ==
    /\ sub[s] = "in"
    /\ IF find(inbox, s) # {}
       THEN /\ sub' = [sub EXCEPT ![s] = "left"]
            /\ \E i \in find(inbox, s) : inbox' = delete(inbox, i)
       ELSE sub' = [sub EXCEPT ![s] = "removing"] /\ UNCHANGED inbox
    /\ UNCHANGED <<sendCases, active, sendLock, sending, at, unread, heard>>

\* No Send is in progress: case <-f.sendLock.
RemoveNow(s) ==
    /\ sub[s] = "removing" /\ sendLock = NoSender
    /\ sub' = [sub EXCEPT ![s] = "left"]
    /\ \E i \in find(sendCases, s) : sendCases' = delete(sendCases, i)
    /\ UNCHANGED <<inbox, active, sendLock, sending, at, unread, heard>>

\* A subscriber reads as long as it has not begun to leave.
Receive(s) ==
    /\ sub[s] = "in" /\ unread[s] > 0
    /\ unread' = [unread EXCEPT ![s] = @ - 1]
    /\ UNCHANGED <<inbox, sendCases, active, sendLock, sending, at, sub, heard>>

-----------------------------------------------------------------------------
\* cases.deactivate
Deactivate(cs, i, last) == [cs EXCEPT ![i] = cs[last], ![last] = cs[i]]

\* The length of `cases' after the removal of index i from f.sendCases.
ShrunkTo(i, n) == IF i <= n THEN n - 1 ELSE n

Room(s) == unread[s] < ChanCap

DeliverTo(p, i) ==
    LET s == sendCases[i]
    IN /\ unread' = [unread EXCEPT ![s] = @ + 1]
       /\ heard' = [heard EXCEPT ![s] = Append(@, p)]
       /\ sendCases' = Deactivate(sendCases, i, active)
       /\ active' = active - 1

\* Mutant: nobody waits for a Send that is in progress.
TakeSendLockOpen(p) ==
    /\ sending[p] = "idle"
    /\ sendLock' = p
    /\ sendCases' = sendCases \o inbox
    /\ inbox' = <<>>
    /\ active' = Len(sendCases')
    /\ sending' = [sending EXCEPT ![p] = "try"]
    /\ at' = 1
    /\ UNCHANGED <<sub, unread, heard>>

TakeSendLock(p) ==
    /\ sending[p] = "idle" /\ sendLock = NoSender
    /\ sendLock' = p
    /\ sendCases' = sendCases \o inbox
    /\ inbox' = <<>>
    /\ active' = Len(sendCases')
    /\ sending' = [sending EXCEPT ![p] = "try"]
    /\ at' = 1
    /\ UNCHANGED <<sub, unread, heard>>

TrySend(p) ==
    /\ sending[p] = "try"
    /\ \/ /\ at <= active /\ Room(sendCases[at])
          /\ DeliverTo(p, at)
          /\ UNCHANGED <<at, sending, sendLock>>
       \/ /\ at <= active /\ ~Room(sendCases[at])
          /\ at' = at + 1
          /\ UNCHANGED <<unread, heard, sendCases, active, sending, sendLock>>
       \/ /\ at > active
          /\ IF active = 0
             THEN sendLock' = NoSender /\ sending' = [sending EXCEPT ![p] = "done"]
             ELSE sending' = [sending EXCEPT ![p] = "select"] /\ UNCHANGED sendLock
          /\ UNCHANGED <<at, unread, heard, sendCases, active>>
    /\ UNCHANGED <<inbox, sub>>

SelectSend(p) ==
    /\ sending[p] = "select"
    /\ \E i \in 1 .. active : Room(sendCases[i]) /\ DeliverTo(p, i)
    /\ sending' = [sending EXCEPT ![p] = "try"]
    /\ at' = 1
    /\ UNCHANGED <<inbox, sendLock, sub>>

\* case 0: a subscriber hands its channel to the sender.
SelectRemove(p) ==
    /\ sending[p] = "select"
    /\ \E s \in Listener :
         /\ sub[s] = "removing"
         /\ sub' = [sub EXCEPT ![s] = "left"]
         /\ \E i \in find(sendCases, s) :
              /\ sendCases' = delete(sendCases, i)
              /\ active' = ShrunkTo(i, active)
    /\ sending' = [sending EXCEPT ![p] = "try"]
    /\ at' = 1
    /\ UNCHANGED <<inbox, sendLock, unread, heard>>

SendStep(p) == TakeSendLock(p) \/ TrySend(p) \/ SelectSend(p) \/ SelectRemove(p)

FeedNext ==
    \/ \E s \in Listener : Subscribe(s) \/ Unsubscribe(s) \/ RemoveNow(s) \/ Receive(s)
    \/ \E p \in FeedSender : SendStep(p)

FeedSpec == FeedInit /\ [][FeedNext]_feedVars

\* A sender that has begun goes on, the lock is handed on, and whoever is
\* subscribed reads: the select loops of the subscribers have no other wait.
FeedFair ==
    /\ WF_feedVars(\E p \in FeedSender : sending[p] # "idle" /\ SendStep(p))
    /\ WF_feedVars(\E s \in Listener : RemoveNow(s))
    /\ WF_feedVars(\E s \in Listener : Receive(s))

-----------------------------------------------------------------------------
(***************************************************************************)
(* All channels see the values in one order, and none twice: sends do not  *)
(* overlap (Feed.Send, sendLock).                                          *)
(***************************************************************************)
SameOrder ==
    \A s, t \in Listener :
      \A i, j \in DOMAIN heard[s] :
        i < j => /\ heard[s][i] # heard[s][j]
                 /\ ~\E k, l \in DOMAIN heard[t] :
                       k < l /\ heard[t][k] = heard[s][j] /\ heard[t][l] = heard[s][i]

(***************************************************************************)
(* When Send returns it has delivered to every channel that was subscribed *)
(* when it began and is subscribed still, whoever left during the send     *)
(* (the slices `cases' and f.sendCases).                                   *)
(***************************************************************************)
AllServed ==
    [][\A p \in FeedSender :
         sending[p] # "done" /\ sending'[p] = "done"
           => \A s \in Listener :
                sub[s] = "in" /\ find(inbox, s) = {} => find(heard[s], p) # {}]_feedVars

(***************************************************************************)
(* After Unsubscribe has returned nothing is sent on the channel any more. *)
(***************************************************************************)
SilentAfterLeave ==
    [][\A s \in Listener : sub[s] = "left" => heard'[s] = heard[s]]_feedVars

(***************************************************************************)
(* A Send in progress ends and a subscriber that leaves gets away, though  *)
(* the channel is full and nobody reads it any more: Send and remove wait  *)
(* for each other in one select.                                           *)
(***************************************************************************)
SendReturns ==
    ((\E p \in FeedSender : sending[p] \in {"try", "select"}) \/ (\E s \in Listener : sub[s] = "removing"))
      ~> (/\ \A p \in FeedSender : sending[p] \in {"idle", "done"}
          /\ \A s \in Listener : sub[s] # "removing")

\* What a feed promises its subscribers and senders, all of it at once.
FeedFaithful == []SameOrder /\ AllServed /\ SilentAfterLeave /\ SendReturns
=============================================================================
