---------------------------- MODULE Confirmation ----------------------------
(***************************************************************************)
(* Confirmed and BFT-confirmed headers (consensus/dpos/dpos.go).           *)
(* updateConfirmedBlockHeader is called from VerifySeal by the importer    *)
(* and from Seal by the miner, handleConfirmed runs in a goroutine of its  *)
(* own; no lock orders them.  Meanwhile the head moves over a tree of      *)
(* blocks, and the process may restart.                                    *)
(***************************************************************************)
EXTENDS Integers, FiniteSets, Sequences, SequencesExt

CONSTANTS
  ConfBlock, ConfParent, ConfHeight,  \* the tree; the block of height 0 is the genesis
  MinerOf,                            \* the miner of a block
  ConsensusSize,                      \* Option.consensusSize()
  ConfCaller, Importer,               \* the goroutines that verify or seal; the one that verifies
  Voter, Me                           \* addresses that send Confirmed messages; d.coinbase

VARIABLES
  isDpos,          \* DposContext.IsDpos
  active,          \* the callers there are: a node that does not mine has one
  votes,           \* whether d.coinbase is a validator and others send messages
  confHead,        \* chain.CurrentBlock
  byHeight,        \* chain.GetBlockByHeight
  confirmed,       \* d.confirmedBlockHeader, or NoBlock
  confirmedRec,    \* the record confirmedBlockHead
  bftConfirmeds,   \* the cache: height voted for by an address, or -1
  bftConfirmed,    \* d.bftConfirmedBlockHeader
  confAt, curHeader, validatorMap,    \* a caller's place and variables
  handlerAt        \* the goroutine of Init: "wait" or "bft"

confVars == <<isDpos, active, votes, confHead, byHeight, confirmed, confirmedRec, bftConfirmeds, bftConfirmed,
              confAt, curHeader, validatorMap, handlerAt>>

NoBlock == "none"
Genesis == CHOOSE b \in ConfBlock : ConfHeight[b] = 0
ConfHeights == {ConfHeight[b] : b \in ConfBlock}

\* The block and those below it, from the genesis.
ConfPath[b \in ConfBlock] == IF b = Genesis THEN <<b>> ELSE Append(ConfPath[ConfParent[b]], b)

ConfInit ==
    /\ isDpos = FALSE /\ active \in {{Importer}, ConfCaller} /\ votes = (Cardinality(active) = 1)
    /\ confHead = Genesis
    /\ byHeight = [h \in ConfHeights |-> IF h = 0 THEN Genesis ELSE NoBlock]
    /\ confirmed = NoBlock /\ confirmedRec = NoBlock
    /\ bftConfirmeds = [a \in Voter |-> -1] /\ bftConfirmed = NoBlock
    /\ confAt = [c \in ConfCaller |-> "idle"]
    /\ curHeader = [c \in ConfCaller |-> Genesis]
    /\ validatorMap = [c \in ConfCaller |-> {}]
    /\ handlerAt = "wait"

conf == <<confirmed, confirmedRec>>
chain == <<isDpos, active, votes, confHead, byHeight>>
bft == <<bftConfirmeds, bftConfirmed>>
local == <<curHeader, validatorMap>>

\* A caller's variables matter during the loop and the assignment after it.
SetLocal(c, cur, miners) ==
    /\ curHeader' = [curHeader EXCEPT ![c] = cur]
    /\ validatorMap' = [validatorMap EXCEPT ![c] = miners]

Forget(c) == SetLocal(c, Genesis, {})

ConfGoto(c, label) == confAt' = [confAt EXCEPT ![c] = label]

\* The chain gets another head; heights above it keep their entries.
HeadMoves(b) ==
    /\ b # confHead
    /\ confHead' = b
    /\ byHeight' = [h \in ConfHeights |-> IF h <= ConfHeight[b] THEN ConfPath[b][h + 1] ELSE byHeight[h]]
    /\ UNCHANGED <<isDpos, active, votes, conf, bft, confAt, local, handlerAt>>

BecomesDpos ==
    /\ ~isDpos /\ isDpos' = TRUE
    /\ UNCHANGED <<active, votes, confHead, byHeight, conf, bft, confAt, local, handlerAt>>

\* loadConfirmedBlockHeader
LoadConfirmed == IF confirmedRec = NoBlock THEN Genesis ELSE confirmedRec

UpdateBegins(c) ==
    /\ confAt[c] = "idle"
    /\ ConfGoto(c, IF confirmed = NoBlock THEN "load" ELSE "mode")
    /\ UNCHANGED <<chain, conf, bft, local, handlerAt>>

UpdateLoads(c) ==
    /\ confAt[c] = "load"
    /\ confirmed' = LoadConfirmed
    /\ ConfGoto(c, "mode")
    /\ UNCHANGED <<chain, confirmedRec, bft, local, handlerAt>>

UpdateMode(c) ==
    /\ confAt[c] = "mode"
    /\ IF isDpos
       THEN SetLocal(c, confHead, {}) /\ ConfGoto(c, "walk") /\ UNCHANGED confirmed
       ELSE confirmed' = confHead /\ ConfGoto(c, "store") /\ UNCHANGED local
    /\ UNCHANGED <<chain, confirmedRec, bft, handlerAt>>

\* Mutant: blocks are counted, not miners.
EnoughBlocks(c, miners) == ConfHeight[confHead] - ConfHeight[curHeader[c]] + 1 >= ConsensusSize

Enough(c, miners) == Cardinality(miners) >= ConsensusSize

LoopEnds(c) == ConfHeight[confirmed] > ConfHeight[curHeader[c]]

\* One turn of the loop, down to the comparison of the heights.
UpdateWalks(c) ==
    /\ confAt[c] = "walk"
    /\ LET cur == curHeader[c] miners == validatorMap[c] \cup {MinerOf[cur]} IN
         IF LoopEnds(c) THEN ConfGoto(c, "idle") /\ Forget(c)
         ELSE IF Enough(c, miners) THEN ConfGoto(c, "set") /\ SetLocal(c, cur, {})
         ELSE IF cur = Genesis THEN ConfGoto(c, "idle") /\ Forget(c)
         ELSE SetLocal(c, ConfParent[cur], miners) /\ UNCHANGED confAt
    /\ UNCHANGED <<chain, conf, bft, handlerAt>>

UpdateSets(c) ==
    /\ confAt[c] = "set"
    /\ IF ConfHeight[confirmed] # ConfHeight[curHeader[c]]
       THEN confirmed' = curHeader[c] /\ ConfGoto(c, "store")
       ELSE ConfGoto(c, "idle") /\ UNCHANGED confirmed
    /\ Forget(c)
    /\ UNCHANGED <<chain, confirmedRec, bft, handlerAt>>

\* storeConfirmedBlockHeader: the vote of this node, if it is a validator
StoreVote(c) ==
    /\ confAt[c] = "store"
    /\ IF votes THEN bftConfirmeds' = [bftConfirmeds EXCEPT ![Me] = ConfHeight[confirmed]] /\ ConfGoto(c, "bft")
       ELSE ConfGoto(c, "put") /\ UNCHANGED bftConfirmeds
    /\ UNCHANGED <<chain, conf, bftConfirmed, local, handlerAt>>

StorePut(c) ==
    /\ confAt[c] = "put"
    /\ confirmedRec' = confirmed
    /\ ConfGoto(c, "idle")
    /\ UNCHANGED <<chain, confirmed, bft, local, handlerAt>>

Heard == {a \in Voter : bftConfirmeds[a] >= 0}

IrreversibleAt(n) == (n - 1) \div 3 + 1

\* storeBFTConfirmedBlockHeader
StoreBFT ==
    LET irreversibles == SortSeq(SetToSeq({<<bftConfirmeds[a], a>> : a \in Heard}), LAMBDA x, y : x[1] < y[1])
    IN bftConfirmed' = byHeight[irreversibles[IrreversibleAt(Len(irreversibles))][1]]

CallerBFT(c) ==
    /\ confAt[c] = "bft"
    /\ StoreBFT /\ ConfGoto(c, "put")
    /\ UNCHANGED <<chain, conf, bftConfirmeds, local, handlerAt>>

\* handleConfirmed
HandleConfirmed(a, b) ==
    /\ votes /\ handlerAt = "wait"
    /\ byHeight[ConfHeight[b]] = b
    /\ bftConfirmeds' = [bftConfirmeds EXCEPT ![a] = ConfHeight[b]]
    /\ handlerAt' = "bft"
    /\ UNCHANGED <<chain, conf, bftConfirmed, confAt, local>>

HandlerBFT ==
    /\ handlerAt = "bft" /\ handlerAt' = "wait"
    /\ StoreBFT
    /\ UNCHANGED <<chain, conf, bftConfirmeds, confAt, local>>

ConfRestart ==
    /\ confirmed' = confirmedRec
    /\ bftConfirmeds' = [a \in Voter |-> -1]
    /\ confAt' = [c \in ConfCaller |-> "idle"] /\ handlerAt' = "wait"
    /\ curHeader' = [c \in ConfCaller |-> Genesis] /\ validatorMap' = [c \in ConfCaller |-> {}]
    /\ UNCHANGED <<chain, confirmedRec, bftConfirmed>>

ConfNext ==
    \/ \E b \in ConfBlock : HeadMoves(b)
    \/ BecomesDpos \/ HandlerBFT \/ ConfRestart
    \/ \E c \in active : UpdateBegins(c) \/ UpdateLoads(c) \/ UpdateMode(c) \/ UpdateWalks(c)
                             \/ UpdateSets(c) \/ StoreVote(c) \/ CallerBFT(c) \/ StorePut(c)
    \/ \E a \in Voter \ {Me}, b \in ConfBlock \ {Genesis} : HandleConfirmed(a, b)

-----------------------------------------------------------------------------
MinersFrom(b, top) == {MinerOf[ConfPath[top][i]] : i \in ConfHeight[b] + 1 .. ConfHeight[top] + 1}

\* What is confirmed has its quorum.  Once DPoS is active a block becomes
\* confirmed only if consensusSize different validators have built on it,
\* itself included, on one branch (updateConfirmedBlockHeader); and more than
\* two thirds of the validators heard of have confirmed the height that is
\* chosen by messages, or a greater one (storeBFTConfirmedBlockHeader).
ConfirmedJustified ==
    [][/\ isDpos /\ confirmed' # confirmed =>
             \/ confirmed' \in {confirmedRec, Genesis}
             \/ \E top \in ConfBlock :
                  /\ confirmed' \in Range(ConfPath[top])
                  /\ Cardinality(MinersFrom(confirmed', top)) >= ConsensusSize
       /\ bftConfirmed' # bftConfirmed =>
             3 * Cardinality({a \in Heard : bftConfirmeds[a] >= ConfHeight[bftConfirmed']})
               > 2 * Cardinality(Heard)]_confVars
=============================================================================
