------------------------------- MODULE Fetcher -------------------------------
(***************************************************************************)
(* Announced and propagated blocks: node/protocols/syncer.go.              *)
(*                                                                         *)
(* loop runs in one goroutine: it forgets fetches that took too long,      *)
(* imports what it can from its queue, one block after another, and waits  *)
(* for one of its channels.  An import is a goroutine of its own and ends  *)
(* with a message to the loop.  Whether an announcement is old enough to   *)
(* be fetched, or a fetch too old, is decided by the clock: any choice.    *)
(***************************************************************************)
EXTENDS Integers, Sequences, FiniteSetsExt, SequencesExt

CONSTANTS Origin,       \* peers
          Block,        \* blocks, each for its hash; Genesis is one
          Genesis,
          Prev,         \* PreviousHash
          Number,       \* Height
          Difficulty,
          ValidBlock,   \* blocks that pass validateBlock and insertChain
          HashLimit, BlockLimit, MaxQueueDist, MaxUncleDist,
          Watched,      \* the valid block that GapCovered follows
          MaxInputs     \* bound: announcements and blocks from peers

VARIABLES
    announces,         \* of each peer, as the code counts them
    announced,         \* for each block, how many announcements of each peer wait
    fetching,          \* the peer each block is being fetched from
    queue,             \* blocks in the heap
    queues, queued,    \* per peer, how many of its blocks are queued; per block, the peer
    timer,             \* fetch is armed
    loopAt, height,    \* "expire", "drain" or "select"; the local variable of loop
    imports,           \* goroutines of insert: "none", "run" or "done" for each block
    chain,             \* blocks getBlock finds
    inputs             \* bound: inputs so far

tables    == <<announces, announced, fetching>>
heap      == <<queue, queues, queued>>
fetchVars == <<tables, heap, timer, loopAt, height, imports, chain, inputs>>

NoOrigin == "nobody"
ASSUME FetchConstants == NoOrigin \notin Origin /\ Genesis \in Block /\ Watched \in ValidBlock

FetcherInit ==
    /\ announces = [p \in Origin |-> 0]
    /\ announced = [b \in Block |-> [p \in Origin |-> 0]]
    /\ fetching = [b \in Block |-> NoOrigin]
    /\ queue = {} /\ queues = [p \in Origin |-> 0] /\ queued = [b \in Block |-> NoOrigin]
    /\ timer = TRUE
    /\ loopAt = "select" /\ height = 0
    /\ imports = [b \in Block |-> "none"] /\ chain = {Genesis}
    /\ inputs = 0

\* The head of the chain is its heaviest block.
chainHeight == Number[CHOOSE b \in chain : \A c \in chain : Difficulty[c] <= Difficulty[b]]

Announced == {b \in Block : \E p \in Origin : announced[b][p] > 0}
Fetching  == {b \in Block : fetching[b] # NoOrigin}

\* forgetHash, for a set of hashes and the fetches that replace them: the
\* counters fall for each announcement and for each fetch, although a fetch was
\* not counted when it began.
Forget(bs, new) ==
    /\ announces' = [p \in Origin |->
           announces[p] - MapThenSumSet(LAMBDA b : announced[b][p] + (IF fetching[b] = p THEN 1 ELSE 0), bs)]
    /\ announced' = [b \in Block |-> IF b \in bs THEN [p \in Origin |-> 0] ELSE announced[b]]
    /\ fetching' = [b \in Block |->
           IF b \in DOMAIN new THEN new[b] ELSE IF b \in bs THEN NoOrigin ELSE fetching[b]]

forgetHash(bs) == Forget(bs, <<>>)

forgetBlock(b) ==
    /\ queued' = [queued EXCEPT ![b] = NoOrigin]
    /\ queues' = [p \in Origin |-> queues[p] - (IF queued[b] = p THEN 1 ELSE 0)]

\* enqueue's conditions.
MayQueue(h, p, b) ==
    /\ h.queues[p] + 1 <= BlockLimit
    /\ Number[b] - chainHeight \in - MaxUncleDist .. MaxQueueDist
    /\ h.queued[b] = NoOrigin

\* enqueue of one block after another; source[b] is the peer it is charged to.
enqueue(source, list) ==
    LET Add(h, b) == IF ~ MayQueue(h, source[b], b) THEN h
                     ELSE [queue  |-> h.queue \cup {b},
                           queues |-> [h.queues EXCEPT ![source[b]] = @ + 1],
                           queued |-> [h.queued EXCEPT ![b] = source[b]]]
        after == FoldLeft(Add, [queue |-> queue, queues |-> queues, queued |-> queued], list)
    IN queue' = after.queue /\ queues' = after.queues /\ queued' = after.queued

-----------------------------------------------------------------------------
(* loop *)

\* Mutant: the height of an earlier turn is used.
ExpiredStale(late) ==
    /\ loopAt = "expire" /\ late \subseteq Fetching
    /\ forgetHash(late)
    /\ loopAt' = "drain"
    /\ UNCHANGED <<heap, timer, imports, chain, inputs, height>>

Expired(late) ==
    /\ loopAt = "expire" /\ late \subseteq Fetching
    /\ forgetHash(late)
    /\ height' = chainHeight
    /\ loopAt' = "drain"
    /\ UNCHANGED <<heap, timer, imports, chain, inputs>>

\* One turn of the inner loop.  The lightest block is taken; one that is too
\* high, or whose parent is not known, goes back and ends the loop.
Drain(b) ==
    /\ loopAt = "drain"
    /\ b \in queue /\ \A c \in queue : Difficulty[b] <= Difficulty[c]
    /\ IF Number[b] > height + 1
       THEN loopAt' = "select" /\ UNCHANGED <<heap, imports>>
       ELSE IF Number[b] + MaxUncleDist < height \/ b \in chain
       THEN queue' = queue \ {b} /\ forgetBlock(b) /\ UNCHANGED <<loopAt, imports>>
       ELSE IF Prev[b] \notin chain
       THEN loopAt' = "select" /\ UNCHANGED <<heap, imports>>
       ELSE /\ queue' = queue \ {b}
            /\ imports' = [imports EXCEPT ![b] = "run"]
            /\ UNCHANGED <<loopAt, queues, queued>>
    /\ UNCHANGED <<tables, timer, height, chain, inputs>>

DrainEnds ==
    /\ loopAt = "drain" /\ queue = {}
    /\ loopAt' = "select"
    /\ UNCHANGED <<tables, heap, timer, height, imports, chain, inputs>>

Wake == loopAt = "select" /\ loopAt' = "expire" /\ UNCHANGED <<height, imports, chain>>
Input == inputs < MaxInputs /\ inputs' = inputs + 1

\* Notify.  reschedule sets the timer when the table was empty before.
Notify(p, b) ==
    /\ Wake /\ Input
    /\ IF announces[p] + 1 > HashLimit \/ fetching[b] # NoOrigin
       THEN UNCHANGED <<tables, timer>>
       ELSE /\ announces' = [announces EXCEPT ![p] = @ + 1]
            /\ announced' = [announced EXCEPT ![b][p] = @ + 1]
            /\ timer' = (timer \/ Announced \subseteq {b})
            /\ UNCHANGED fetching
    /\ UNCHANGED heap

Enqueue(p, b) ==
    /\ Wake /\ Input
    /\ enqueue([c \in {b} |-> p], <<b>>)
    /\ UNCHANGED <<tables, timer>>

Done(b) ==
    /\ loopAt = "select" /\ loopAt' = "expire"
    /\ imports[b] = "done" /\ imports' = [imports EXCEPT ![b] = "none"]
    /\ forgetHash({b})
    /\ forgetBlock(b)
    /\ UNCHANGED <<queue, timer, height, chain, inputs>>

\* The timer: announcements that are old enough turn into requests, each to one
\* of the peers that announced the block.
Fetch(due, from) ==
    /\ Wake /\ timer
    /\ due \subseteq Announced
    /\ from \in [due \ chain -> Origin]
    /\ \A b \in due \ chain : announced[b][from[b]] > 0
    /\ Forget(due, from)
    /\ timer' = (Announced \ due # {})
    /\ UNCHANGED <<heap, inputs>>

\* Filter: of the blocks of a message those that are being fetched are queued,
\* and the others go to the downloader.
Filter(list) ==
    LET Asked(b) == fetching[b] # NoOrigin /\ queued[b] = NoOrigin
    IN /\ Wake /\ Input
       /\ forgetHash({b \in ToSet(list) : Asked(b) /\ b \in chain})
       /\ enqueue(fetching, SelectSeq(list, LAMBDA b : Asked(b) /\ b \notin chain))
       /\ UNCHANGED timer

-----------------------------------------------------------------------------
\* insert's goroutine up to its last message.  The parent was found before it
\* started, and blocks are not removed.
Insert1(b) ==
    /\ imports[b] = "run"
    /\ imports' = [imports EXCEPT ![b] = "done"]
    /\ chain' = (IF b \in ValidBlock THEN chain \cup {b} ELSE chain)
    /\ UNCHANGED <<tables, heap, timer, loopAt, height, inputs>>

\* The downloader or the miner adds a block.
ChainGrows(b) ==
    /\ Input
    /\ b \in ValidBlock \ chain /\ Prev[b] \in chain
    /\ chain' = chain \cup {b}
    /\ UNCHANGED <<tables, heap, timer, loopAt, height, imports>>

LoopNext == (\E late \in SUBSET Block : Expired(late)) \/ (\E b \in Block : Drain(b)) \/ DrainEnds
Answers == {<<b>> : b \in Block} \cup {<<b, c>> : b, c \in Block}

FetcherNext ==
    \/ LoopNext
    \/ \E p \in Origin, b \in Block \ {Genesis} : Notify(p, b) \/ Enqueue(p, b)
    \/ \E b \in Block : Done(b) \/ Insert1(b) \/ ChainGrows(b)
    \/ \E due \in SUBSET Block : \E from \in [due \ chain -> Origin] : Fetch(due, from)
    \/ \E list \in Answers : Filter(list)

FetcherFairness ==
    /\ WF_fetchVars(LoopNext)
    /\ WF_fetchVars(\E b \in Block : Insert1(b))
    /\ WF_fetchVars(\E b \in Block : Done(b))

-----------------------------------------------------------------------------
(* Properties *)

\* A valid block one above our head whose parent we have is imported at the next
\* turn of the loop after a peer has sent it, unless a lighter block whose
\* parent is missing keeps the loop from coming to it.
GapCovered ==
    (/\ loopAt = "expire" /\ Watched \in queue
     /\ Prev[Watched] \in chain /\ Number[Watched] <= chainHeight + 1)
        ~> \/ Watched \in chain
           \/ \E c \in queue : Difficulty[c] < Difficulty[Watched] /\ Prev[c] \notin chain
=============================================================================
