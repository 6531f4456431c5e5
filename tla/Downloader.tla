----------------------------- MODULE Downloader -----------------------------
(***************************************************************************)
(* Synchronisation with a peer: node/protocols/downloader.go with its      *)
(* queue (queue.go) and peer.go.                                           *)
(*                                                                         *)
(* The goroutines are the caller of Synchronise (sync), fetchHashes (hf),  *)
(* fetchBlocks (bf) and those of process.  They share the queue, the       *)
(* channels and the cancel channel, and nobody waits for process.          *)
(*                                                                         *)
(* Peers tell of one chain, so a block and its hash are named by the       *)
(* height.  Answers may be partial, late, or never come, and insertChain   *)
(* may fail.  Capacities and reputations are left out: a peer is asked for *)
(* any number of blocks up to MaxFetch, and idle peers in any order.       *)
(***************************************************************************)
EXTENDS Integers, FiniteSets

CONSTANTS Peer,
          Top,         \* bound: height of the longest chain a peer has
          CacheLimit,  \* blockCacheLimit
          MaxFetch,    \* MaxBlockFetch
          MaxHashes,   \* MaxHashFetch
          MaxQueued,   \* maxQueuedHashes
          Scopes       \* bound: records of the peers, of the height of their chain, and of what may
                       \* happen once: "again", a second synchronisation, "leave", a peer leaves, "late",
                       \* an answer to a request that has expired, "bad", a block that does not import,
                       \* "end", the node stops

ASSUME DownloadConstants ==
    /\ Top \in Nat /\ CacheLimit \in Nat /\ MaxHashes \in Nat \ {0}
    /\ \A s \in Scopes : s.peers \subseteq Peer /\ s.height \in 0 .. Top

Hash == 1 .. Top

Least(a, b) == IF a < b THEN a ELSE b
Greatest(a, b) == IF a < b THEN b ELSE a

-----------------------------------------------------------------------------
(***************************************************************************)
(* The queue.  Every operation takes a queue and returns one, as the       *)
(* methods do under q.lock.                                                *)
(*                                                                         *)
(* A hash is scheduled (hashPool) and then either waits (hashQueue, lowest *)
(* counter first) or belongs to the request of a peer (pendPool).  A block *)
(* that has come is in blockPool, and in the cache at its height.          *)
(***************************************************************************)

\* newQueue and Reset.  A peer without a request has the empty one.
EmptyQueue ==
    [hashPool  |-> {},
     hashQueue |-> {},
     index     |-> [h \in Hash |-> 0],       \* hashPool's counters, also the priorities
     counter   |-> 0,
     pendPool  |-> [p \in Peer |-> {}],
     blockPool |-> {},
     cache     |-> {},                       \* the heights whose place holds their block
     offset    |-> 0]

Outstanding(q) == UNION {q.pendPool[p] : p \in Peer}
InFlight(q)    == \E p \in Peer : q.pendPool[p] # {}
Space(q)       == CacheLimit - Cardinality(q.blockPool) - Cardinality(Outstanding(q))
Throttle(q)    == Cardinality(Outstanding(q)) >= CacheLimit - Cardinality(q.blockPool)

\* Insert of hashes in the order of heights: those that are scheduled already
\* are left out.
Inserts(q, list) == list \ q.hashPool
Insert(q, list) ==
    LET new == Inserts(q, list)
    IN [q EXCEPT !.hashPool  = @ \cup new,
                 !.hashQueue = @ \cup new,
                 !.index     = [h \in Hash |-> IF h \in new THEN q.counter + Cardinality({g \in new : g <= h})
                                                            ELSE @[h]],
                 !.counter   = @ + Cardinality(new)]

\* GetHeadBlock, in the first place of the cache.
HasHeadBlock(q) == q.offset \in q.cache

\* TakeBlocks: the blocks from the first place up to the first gap.
Ready(q) ==
    {n \in q.cache : /\ q.offset <= n /\ n < q.offset + CacheLimit
                     /\ \A i \in q.offset .. n : i \in q.cache}
TakeBlocks(q) ==
    [q EXCEPT !.blockPool = @ \ Ready(q),
              !.cache     = @ \ Ready(q),
              !.offset    = @ + Cardinality(Ready(q))]

\* Reserve takes hashes off the queue, lowest counter first, until the cache
\* has no more space or the peer's capacity is reached.  The set of hashes a
\* peer is known not to have stays empty: an answer without blocks does not
\* come here.
Before(q, h) == {g \in q.hashQueue : q.index[g] < q.index[h]}

Reservable(q, count) ==
    {h \in q.hashQueue : Cardinality(Before(q, h)) < Space(q) /\ Cardinality(Before(q, h)) < count}
Reserve(q, p, count) ==
    IF q.pendPool[p] # {} THEN q
    ELSE [q EXCEPT !.hashQueue = @ \ Reservable(q, count),
                   !.pendPool  = [@ EXCEPT ![p] = Reservable(q, count)]]

\* Requests that took too long are dropped.
Expire(q, late) ==
    [q EXCEPT !.hashQueue = @ \cup UNION {q.pendPool[p] : p \in late},
              !.pendPool  = [p \in Peer |-> IF p \in late THEN {} ELSE @[p]]]

\* Deliver.  The first block that was requested but does not fit into the
\* cache ends it, and then what has not been delivered is not put back.  A
\* request is made from a map, so the blocks come in any order, and those
\* before that one are any of those that fit.
Misfit(q, h)  == h < q.offset \/ h >= q.offset + CacheLimit
Wanted(q, p, blocks) == blocks \cap q.pendPool[p]
Invalid(q, p, blocks) == \E h \in Wanted(q, p, blocks) : Misfit(q, h)
MayDeliver(q, p, blocks) ==
    IF Invalid(q, p, blocks) THEN SUBSET {h \in Wanted(q, p, blocks) : ~ Misfit(q, h)}
    ELSE {Wanted(q, p, blocks)}

\* Mutant: what a peer has left out of its answer is not put back.
PutBackNothing(q, p, blocks, got) == q.hashQueue

PutBack(q, p, blocks, got) ==
    q.hashQueue \cup (IF Invalid(q, p, blocks) THEN {} ELSE q.pendPool[p] \ got)

Deliver(q, p, blocks, got) ==
    [q EXCEPT !.pendPool  = [@ EXCEPT ![p] = {}],
              !.hashPool  = @ \ got,
              !.hashQueue = PutBack(q, p, blocks, got),
              !.blockPool = @ \cup got,
              !.cache     = @ \cup got]

Prepare(q, offset) == [q EXCEPT !.offset = Greatest(@, offset)]

-----------------------------------------------------------------------------
VARIABLES
    q,           \* the queue
    peers,       \* registered peers
    busy,        \* peers that are not idle
    asked,       \* what each peer has been asked for and not answered
    head, goal,  \* height of the local chain and of the peers'
    sync,        \* "idle", "ancestor" or "fetch"
    hf, from,    \* fetchHashes: "off", "wait", "last", "ok", "err", and the next height
    bf, todo,    \* fetchBlocks: "off", "select", "assign", "ok", "err", and the idle peers to be asked
    finished,    \* fetchBlocks knows that no more hashes come
    processCh,   \* what the channel holds
    cancelled,   \* cancelCh is closed
    interrupt,
    proc, taken, \* process: "off", "take", "import" or "clear", and the blocks being imported
    spawned,     \* a goroutine of process is about to start
    recheck,     \* one that has finished is about to look at the queue again
    events,      \* bound: what may still happen, the first synchronisation included
    gotHashes,   \* of fetchHashes
    unheard,     \* history: that no more hashes come was not passed on
    stale        \* history: the channel held the word of an earlier synchronisation

netVars  == <<peers, busy, asked>>
procVars == <<proc, taken, spawned, recheck, head, goal>>
vars == <<q, peers, busy, asked, head, goal, sync, hf, from, bf, todo, finished, processCh, cancelled,
          interrupt, proc, taken, spawned, recheck, events, gotHashes, unheard, stale>>

DownloadInit ==
    /\ q = EmptyQueue
    /\ \E s \in Scopes : peers = s.peers /\ goal = s.height /\ events = s.events \cup {"start"}
    /\ busy = {} /\ asked = [p \in Peer |-> {}]
    /\ head = 0
    /\ sync = "idle" 
    /\ hf = "off" /\ from = 1 /\ bf = "off" /\ todo = {}
    /\ finished = FALSE /\ processCh = <<>> /\ cancelled = FALSE /\ interrupt = FALSE
    /\ proc = "off" /\ taken = {} /\ spawned = FALSE /\ recheck = FALSE
    /\ gotHashes = FALSE /\ unheard = FALSE /\ stale = FALSE

Once(event) == event \in events /\ events' = events \ {event}

\* cancel
DoCancel == cancelled' = TRUE /\ q' = EmptyQueue

-----------------------------------------------------------------------------
(* The caller *)

\* synchronise up to findAncestor.  When blocks are ready to be processed it
\* returns errPendingQueue, which changes nothing.
Synchronise(p) ==
    /\ sync = "idle" /\ ~ interrupt
    /\ ~ (q.blockPool # {} /\ HasHeadBlock(q))
    /\ q' = EmptyQueue
    /\ busy' = {}
    /\ cancelled' = FALSE
    /\ sync' = (IF p \in peers THEN "ancestor" ELSE "idle")
    /\ IF "start" \in events THEN Once("start") ELSE Once("again")
    /\ gotHashes' = FALSE /\ unheard' = FALSE /\ stale' = FALSE
    /\ UNCHANGED <<peers, asked, head, goal, hf, from, bf, todo, finished, processCh, interrupt,
                   proc, taken, spawned, recheck>>

\* findAncestor's answer: our head, or the block below it, as our head may lie
\* outside of the window it looks at.  Then both
\* goroutines start, fetchBlocks with Prepare.
AncestorFound(number) ==
    /\ number \in Greatest(0, head - 1) .. head
    /\ sync = "ancestor"
    /\ sync' = "fetch"
    /\ hf' = "wait" /\ from' = number + 1
    /\ bf' = "select" /\ finished' = FALSE
    /\ q' = Prepare(q, number + 1)
    /\ stale' = (processCh # <<>>)
    /\ UNCHANGED <<netVars, procVars, todo, processCh, cancelled, interrupt, events, gotHashes, unheard>>

\* A timeout, an empty or a wrong answer, or the cancellation.
AncestorFailed ==
    /\ sync = "ancestor"
    /\ sync' = "idle"
    /\ DoCancel
    /\ UNCHANGED <<netVars, procVars, hf, from, bf, todo, finished, processCh, interrupt, events,
                   gotHashes, unheard, stale>>

\* syncWithPeer: the first goroutine to fail cancels the other.
OneFailed ==
    /\ sync = "fetch" /\ ~ cancelled
    /\ hf = "err" \/ bf = "err"
    /\ DoCancel
    /\ UNCHANGED <<netVars, procVars, sync, hf, from, bf, todo, finished, processCh, interrupt, events,
                   gotHashes, unheard, stale>>

BothEnded ==
    /\ sync = "fetch" /\ hf \in {"ok", "err"} /\ bf \in {"ok", "err"}
    /\ sync' = "idle" /\ hf' = "off" /\ bf' = "off"
    /\ IF hf = "err" \/ bf = "err" THEN DoCancel ELSE UNCHANGED <<q, cancelled>>
    /\ UNCHANGED <<netVars, procVars, from, todo, finished, processCh, interrupt, events,
                   gotHashes, unheard, stale>>

Terminate ==
    /\ ~ interrupt /\ sync # "idle"
    /\ interrupt' = TRUE
    /\ Once("end")
    /\ DoCancel
    /\ UNCHANGED <<netVars, procVars, sync, hf, from, bf, todo, finished, processCh, gotHashes, unheard,
                   stale>>
-----------------------------------------------------------------------------
(* fetchHashes *)

hfRest == <<netVars, procVars, sync, bf, todo, finished, cancelled, interrupt, events, stale>>

\* The answer to the last request: as many hashes as there are, up to the
\* limit.
HashList == from .. Least(from + MaxHashes - 1, goal)

HashesArrive ==
    LET fresh == Inserts(q, HashList) = HashList
        queue == Insert(q, HashList)
        cont  == Cardinality(queue.hashQueue) < MaxQueued
    IN /\ hf = "wait" /\ HashList # {}
       /\ q' = queue
       /\ gotHashes' = TRUE
       /\ from' = from + Cardinality(HashList)
       /\ hf' = (IF ~ fresh THEN "err" ELSE IF cont THEN "wait" ELSE "ok")
       /\ processCh' = (IF fresh /\ processCh = <<>> THEN <<cont>> ELSE processCh)
       /\ unheard' = (unheard \/ (fresh /\ ~ cont /\ processCh # <<>>))
       /\ UNCHANGED hfRest

NoMoreHashes ==
    /\ hf = "wait"
    /\ hf' = "last"
    /\ UNCHANGED <<hfRest, q, from, processCh, gotHashes, unheard>>

\* The send of false waits for room or the cancellation.  A peer that had
\* nothing although it is said to be ahead is stalling.
TellFinished ==
    /\ hf = "last"
    /\ processCh = <<>> \/ cancelled
    /\ \/ processCh = <<>> /\ processCh' = <<FALSE>>
       \/ cancelled /\ UNCHANGED processCh
    /\ hf' = (IF ~ gotHashes /\ goal > head THEN "err" ELSE "ok")
    /\ UNCHANGED <<hfRest, q, from, gotHashes, unheard>>

\* The timeout, or the cancellation.
HashesFail ==
    /\ hf = "wait"
    /\ hf' = "err"
    /\ UNCHANGED <<hfRest, q, from, processCh, gotHashes, unheard>>

-----------------------------------------------------------------------------
(* fetchBlocks *)

bfHeld == <<head, goal, sync, hf, from, cancelled, interrupt, proc, taken, recheck, gotHashes, unheard, stale>>
bfRest == <<bfHeld, events>>

\* A peer answers a request with some of its blocks; the fetcher may have kept
\* others, and an answer without blocks is not passed on.  fetchBlocks takes it
\* from blockCh and delivers it.
BlocksArrive(p, request, blocks) ==
    LET known == p \in peers
        none    == q.pendPool[p] = {}
        bad     == Invalid(q, p, blocks)
        strange == Wanted(q, p, blocks) = {}
    IN /\ bf = "select"
       /\ request \in asked[p] /\ blocks \subseteq request /\ blocks # {}
       /\ asked' = [asked EXCEPT ![p] = @ \ {request}]
       /\ IF request = q.pendPool[p] THEN UNCHANGED events ELSE Once("late")
       /\ IF known /\ ~ none
          THEN /\ \E got \in MayDeliver(q, p, blocks) : q' = Deliver(q, p, blocks, got)
               /\ bf' = (IF bad THEN "err" ELSE "select")
               /\ busy' = (IF bad \/ strange THEN busy ELSE busy \ {p})
               /\ spawned' = (spawned \/ ~ (bad \/ strange))
          ELSE /\ busy' = (IF known THEN busy \ {p} ELSE busy)
               /\ UNCHANGED <<q, bf, spawned>>
       /\ UNCHANGED <<bfHeld, peers, todo, finished, processCh>>

\* While no synchronisation is active the answer is dropped.
BlocksDropped(p, request) ==
    /\ sync = "idle"
    /\ request \in asked[p]
    /\ asked' = [asked EXCEPT ![p] = @ \ {request}]
    /\ UNCHANGED <<bfRest, q, bf, spawned, busy, peers, todo, finished, processCh>>

HearProcess ==
    /\ bf = "select" /\ processCh # <<>>
    /\ finished' = (finished \/ ~ processCh[1])
    /\ processCh' = <<>>
    /\ UNCHANGED <<bfRest, q, bf, spawned, netVars, todo>>

AllDelivered(queue) == ~ InFlight(queue) /\ finished

\* The start of an update, which the ticker makes possible at any time: late
\* requests expire.  Their peers stay busy until they answer.
Update(late) ==
    LET queue == Expire(q, late)
    IN /\ bf = "select"
       /\ late \subseteq {p \in Peer : q.pendPool[p] # {}}
       /\ IF peers = {} THEN bf' = "err" /\ UNCHANGED <<q, todo>>
          ELSE /\ q' = queue
               /\ IF queue.hashQueue # {} THEN bf' = "assign" /\ todo' = peers \ busy
                  ELSE /\ bf' = (IF AllDelivered(queue) THEN "ok" ELSE "select")
                       /\ UNCHANGED todo
       /\ UNCHANGED <<bfRest, spawned, netVars, finished, processCh>>

\* The rest of it: one idle peer after another is asked, unless the cache is
\* taken.
AskPeer(p, count) ==
    LET queue == Reserve(q, p, count)
    IN /\ bf = "assign" /\ p \in todo /\ ~ Throttle(q)
       /\ todo' = todo \ {p}
       /\ IF queue # q
          THEN /\ q' = queue
               /\ busy' = busy \cup {p}
               /\ asked' = [asked EXCEPT ![p] = @ \cup {queue.pendPool[p]}]
          ELSE UNCHANGED <<q, busy, asked>>
       /\ UNCHANGED <<bfRest, bf, spawned, peers, finished, processCh>>

\* Mutant: fetchBlocks goes on hoping.
NobodyToAskNever == FALSE

\* errPeersUnavailable: hashes wait, nothing is on its way, and no peer took any.
NobodyToAsk == ~ Throttle(q) /\ ~ InFlight(q)

UpdateEnds ==
    /\ bf = "assign" /\ (todo = {} \/ Throttle(q))
    /\ bf' = (IF NobodyToAsk THEN "err" ELSE "select")
    /\ todo' = {}
    /\ UNCHANGED <<bfRest, q, spawned, netVars, finished, processCh>>

BlocksCancelled ==
    /\ bf = "select" /\ cancelled
    /\ bf' = "err"
    /\ UNCHANGED <<bfRest, q, spawned, netVars, todo, finished, processCh>>
-----------------------------------------------------------------------------
(* process *)

pHeld == <<asked, goal, sync, hf, from, bf, todo, finished, processCh, interrupt, gotHashes, unheard, stale>>
pRest == <<pHeld, events>>

\* Only one goroutine gets past the exchange of d.processing.
ProcessStart ==
    /\ spawned
    /\ spawned' = FALSE
    /\ proc' = (IF proc = "off" THEN "take" ELSE proc)
    /\ UNCHANGED <<pRest, q, cancelled, peers, busy, taken, recheck, head>>

Take ==
    /\ proc = "take"
    /\ q' = TakeBlocks(q)
    /\ taken' = Ready(q)
    /\ proc' = (IF Ready(q) = {} THEN "clear" ELSE "import")
    /\ UNCHANGED <<pRest, cancelled, peers, busy, spawned, recheck, head>>

\* insertChain takes blocks, here consecutive ones, that continue the local
\* chain or are in it.
Importable(blocks) == \E h \in blocks : h <= head + 1

\* A failure drops the peer that delivered the block, and cancels whatever
\* synchronisation is going on by now.
Import ==
    /\ proc = "import"
    /\ taken' = {}
    /\ \/ /\ interrupt
          /\ proc' = "clear"
          /\ UNCHANGED <<q, cancelled, peers, head, events>>
       \/ /\ ~ interrupt /\ Importable(taken)
          /\ \E last \in taken : (\A n \in taken : n <= last) /\ head' = Greatest(head, last)
          /\ proc' = "take"
          /\ UNCHANGED <<q, cancelled, peers, events>>
       \/ /\ ~ interrupt
          /\ IF Importable(taken) THEN Once("bad") ELSE UNCHANGED events
          /\ \E p \in Peer : peers' = peers \ {p}
          /\ DoCancel
          /\ proc' = "clear"
          /\ UNCHANGED head
    /\ UNCHANGED <<pHeld, busy, spawned, recheck>>

\* The deferred functions: processing is cleared first, then the queue is
\* looked at again.
ProcessDone ==
    /\ proc = "clear"
    /\ proc' = "off"
    /\ recheck' = TRUE
    /\ UNCHANGED <<pRest, q, cancelled, peers, busy, taken, spawned, head>>

Recheck ==
    /\ recheck
    /\ recheck' = FALSE
    /\ spawned' = (spawned \/ (~ interrupt /\ HasHeadBlock(q)))
    /\ UNCHANGED <<pRest, q, cancelled, peers, busy, proc, taken, head>>

PeerLeaves(p) ==
    /\ p \in peers /\ sync # "idle"
    /\ peers' = peers \ {p}
    /\ todo' = todo \ {p}
    /\ Once("leave")
    /\ UNCHANGED <<q, busy, asked, procVars, sync, hf, from, bf, finished, processCh, cancelled, interrupt,
                   gotHashes, unheard, stale>>

-----------------------------------------------------------------------------
Requests == UNION {asked[p] : p \in Peer}

HashesNext == HashesArrive \/ NoMoreHashes \/ TellFinished \/ HashesFail
BlocksNext ==
    \/ \E p \in Peer, r \in Requests : \E blocks \in SUBSET r : BlocksArrive(p, r, blocks)
    \/ HearProcess
    \/ \E late \in SUBSET Peer : Update(late)
    \/ \E p \in Peer, count \in 1 .. MaxFetch : AskPeer(p, count)
    \/ UpdateEnds
    \/ BlocksCancelled
CallerNext == (\E p \in Peer : Synchronise(p))
              \/ (\E n \in 0 .. head : AncestorFound(n)) \/ AncestorFailed \/ OneFailed \/ BothEnded
ProcessNext == ProcessStart \/ Take \/ Import \/ ProcessDone \/ Recheck

DownloadNext ==
    \/ CallerNext
    \/ HashesNext
    \/ BlocksNext
    \/ ProcessNext
    \/ Terminate
    \/ \E p \in Peer : PeerLeaves(p)
    \/ \E p \in Peer, r \in Requests : BlocksDropped(p, r)

DownloadSpec == DownloadInit /\ [][DownloadNext]_vars

Overdue == {p \in Peer : q.pendPool[p] # {}}

\* Goroutines that can run do; timers fire, so that fetchHashes gets an answer
\* or times out and a request is answered or expires.  The select of fetchBlocks
\* chooses at random among what is ready, so nothing is passed over for ever.
DownloadFairness ==
    /\ WF_vars(AncestorFailed) /\ WF_vars(OneFailed) /\ WF_vars(BothEnded)
    /\ WF_vars(HashesNext) /\ SF_vars(HearProcess) /\ SF_vars(BlocksCancelled)
    /\ SF_vars(bf = "select" /\ Update(Overdue))
    /\ WF_vars(bf = "assign" /\ BlocksNext)
    /\ WF_vars(ProcessNext)

-----------------------------------------------------------------------------
(* Properties *)

\* Every scheduled hash waits in the queue or belongs to exactly one request,
\* whatever is answered late, partly or never, and whatever expires.  Only an
\* answer that ends the synchronisation loses hashes.
HashesKept ==
    LET requested == {p \in Peer : q.pendPool[p] # {}}
    IN bf # "err" =>
          /\ q.hashPool = q.hashQueue \cup Outstanding(q)
          /\ q.hashQueue \cap Outstanding(q) = {}
          /\ \A p, r \in requested : p # r => q.pendPool[p] \cap q.pendPool[r] = {}

\* No more blocks are asked for than the cache has place for, and each has its
\* place in it: an honest peer is never taken for one that sends an invalid
\* chain.
RequestsFit ==
    /\ Cardinality(Outstanding(q)) + Cardinality(q.blockPool) <= CacheLimit
    /\ ~ cancelled => \A h \in Outstanding(q) : ~ Misfit(q, h)

\* A synchronisation ends, whichever peers answer, leave or stay silent, unless
\* the word that no more hashes come was lost in a full channel, or the channel
\* still held that of an earlier synchronisation: then fetchBlocks waits for
\* ever, or ends early and leaves fetchHashes waiting.
SyncEnds == (sync # "idle") ~> (sync = "idle" \/ unheard \/ stale)

\* The queue's books are right: no hash is lost or asked for twice, and none
\* is asked for without a place for its block.
QueueSound == HashesKept /\ RequestsFit
=============================================================================
