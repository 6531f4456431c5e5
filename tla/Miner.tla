-------------------------------- MODULE Miner -------------------------------
(***************************************************************************)
(* The life cycle of the miner (consensus/miner/mining.go): Start and Stop *)
(* from any goroutine, the loop that follows the downloader, and the two   *)
(* loops of a started miner, which look up m.stopCh whenever they select.  *)
(***************************************************************************)
EXTENDS Naturals, FiniteSets

CONSTANTS
  MinerCaller,   \* goroutines that call Start and Stop
  MaxStopCh      \* bound on the calls of Start that make a channel

VARIABLES
  mining, canStart,
  stopCh,        \* number of the channel in m.stopCh; 0 is NewUranusMiner's
  closedCh,      \* channels that have been closed
  calls,         \* calls[c]: where the call of c is, or "idle"
  minerLoops,    \* every update and mintLoop started: [id, at, ch]
  wasMining,     \* the variable `minning' of the loop on sync events
  following,     \* whether that loop still runs
  panicked       \* close of a closed channel

minerVars == <<mining, canStart, stopCh, closedCh, calls, minerLoops, wasMining, following, panicked>>

SyncLoop == "loop"
Callers  == MinerCaller \cup {SyncLoop}

MinerInit ==
    /\ mining = 0 /\ canStart = 1
    /\ stopCh = 0 /\ closedCh = {}
    /\ calls = [c \in Callers |-> "idle"]
    /\ minerLoops = {}
    /\ wasMining = 0 /\ following = TRUE
    /\ panicked = FALSE

\* The loops the wait group counts.
Running == {l \in minerLoops : l.at # "ended"}

-----------------------------------------------------------------------------
\* One step of Start or Stop: from a label to the next, with what it changes.
CallGoes(c, from, to) ==
    /\ calls[c] = from
    /\ calls' = [calls EXCEPT ![c] = to]
    /\ UNCHANGED <<canStart, wasMining, following>>

StartCheck(c) ==
    /\ CallGoes(c, "start", IF canStart = 0 \/ mining = 1 THEN "idle" ELSE "make")
    /\ UNCHANGED <<mining, stopCh, closedCh, minerLoops, panicked>>

StartMake(c) ==
    /\ CallGoes(c, "make", "swap")
    /\ stopCh' = stopCh + 1
    /\ UNCHANGED <<mining, closedCh, minerLoops, panicked>>

StartSwap(c) ==
    /\ CallGoes(c, "swap", IF mining = 0 THEN "spawn" ELSE "idle")
    /\ mining' = 1
    /\ UNCHANGED <<stopCh, closedCh, minerLoops, panicked>>

StartSpawn(c) ==
    /\ CallGoes(c, "spawn", "idle")
    /\ LET n == Cardinality(minerLoops)
       IN minerLoops' = minerLoops \cup [id : {n, n + 1}, at : {"busy"}, ch : {0}]
    /\ UNCHANGED <<mining, stopCh, closedCh, panicked>>

StopSwap(c) ==
    /\ CallGoes(c, "stop", IF mining = 1 THEN "close" ELSE "idle")
    /\ mining' = 0
    /\ UNCHANGED <<stopCh, closedCh, minerLoops, panicked>>

\* Mutant: the loops are expected to see that mining is over.
StopCloseNothing(c) ==
    /\ CallGoes(c, "close", "wait")
    /\ UNCHANGED <<mining, stopCh, closedCh, minerLoops, panicked>>

StopClose(c) ==
    /\ CallGoes(c, "close", "wait")
    /\ panicked' = (stopCh \in closedCh)
    /\ closedCh' = closedCh \cup {stopCh}
    /\ UNCHANGED <<mining, stopCh, minerLoops>>

StopWait(c) ==
    /\ CallGoes(c, "wait", "idle")
    /\ Running = {}
    /\ UNCHANGED <<mining, stopCh, closedCh, minerLoops, panicked>>

CallStep(c) ==
    \/ StartCheck(c) \/ StartMake(c) \/ StartSwap(c) \/ StartSpawn(c)
    \/ StopSwap(c) \/ StopClose(c) \/ StopWait(c)

MayMake == stopCh + Cardinality({c \in Callers : calls[c] \in {"start", "make"}}) < MaxStopCh

CallStart(c) ==
    /\ MayMake
    /\ CallGoes(c, "idle", "start")
    /\ UNCHANGED <<mining, stopCh, closedCh, minerLoops, panicked>>

CallStop(c) ==
    /\ mining = 1
    /\ CallGoes(c, "idle", "stop")
    /\ UNCHANGED <<mining, stopCh, closedCh, minerLoops, panicked>>

\* StartEvent of the downloader.
SyncBegins ==
    /\ following /\ calls[SyncLoop] = "idle" /\ canStart = 1
    /\ canStart' = 0
    /\ wasMining' = mining
    /\ calls' = [calls EXCEPT ![SyncLoop] = IF mining = 1 THEN "stop" ELSE "idle"]
    /\ UNCHANGED <<mining, stopCh, closedCh, minerLoops, following, panicked>>

\* DoneEvent or FailedEvent, after which the loop is left.
SyncOver ==
    /\ following /\ calls[SyncLoop] = "idle" /\ canStart = 0
    /\ wasMining = 1 => MayMake
    /\ following' = FALSE
    /\ canStart' = 1
    /\ calls' = [calls EXCEPT ![SyncLoop] = IF wasMining = 1 THEN "start" ELSE "idle"]
    /\ UNCHANGED <<mining, stopCh, closedCh, minerLoops, wasMining, panicked>>

-----------------------------------------------------------------------------
\* update and mintLoop.  Every turn reads m.stopCh and waits for it or for a
\* block, a transaction or the slot timer.  (A select that finds the channel
\* closed and takes an event all the same looks like one that took the event
\* before the channel was closed.)
Becomes(l, new) ==
    /\ minerLoops' = (minerLoops \ {l}) \cup {new}
    /\ UNCHANGED <<mining, canStart, stopCh, closedCh, calls, wasMining, following, panicked>>

TurnBegins(l) ==
    /\ l.at = "busy"
    /\ Becomes(l, [l EXCEPT !.at = "select", !.ch = stopCh])

TurnEvent(l) ==
    /\ l.at = "select" /\ l.ch \notin closedCh
    /\ Becomes(l, [l EXCEPT !.at = "busy"])

LoopQuits(l) ==
    /\ l.at = "select" /\ l.ch \in closedCh
    /\ Becomes(l, [l EXCEPT !.at = "ended"])

MinerLoop(l) == TurnBegins(l) \/ TurnEvent(l) \/ LoopQuits(l)

MinerNext ==
    /\ ~panicked
    /\ \/ \E c \in Callers : CallStep(c)
       \/ \E c \in MinerCaller : CallStart(c) \/ CallStop(c)
       \/ SyncBegins \/ SyncOver
       \/ \E l \in minerLoops : MinerLoop(l)

\* A call that has begun goes on, and every loop gets its turn: blocks and
\* slots keep coming.
MinerFair ==
    /\ \A c \in Callers : WF_minerVars(~panicked /\ CallStep(c))
    /\ \A n \in 0 .. 2 * MaxStopCh - 1 :
         WF_minerVars(~panicked /\ \E l \in minerLoops : l.id = n /\ MinerLoop(l))

-----------------------------------------------------------------------------
(***************************************************************************)
(* A miner that is off comes to rest: Stop returns and the loops end,      *)
(* however Start, Stop and the downloader's events overlap, unless the     *)
(* miner is started again or the program ends by closing a channel twice.  *)
(***************************************************************************)
MinerRests ==
    mining = 0 ~> \/ mining = 1 \/ panicked
                  \/ Running = {} /\ \A c \in Callers : calls[c] \notin {"close", "wait"}
=============================================================================
