----------------------------- MODULE Blockchain -----------------------------
(***************************************************************************)
(* Fork choice and block storage of one node: core/blockchain.go over      *)
(* core/ledger.  Two goroutines write blocks: the importer (InsertChain,   *)
(* serialised by bc.chainmu) and the miner (generateBlock).  Both end in   *)
(* WriteBlockWithState, which runs under bc.mu and issues its database     *)
(* writes one by one; a step of this module is one such write (or a group  *)
(* of adjacent writes whose split no reader and no restart can observe).   *)
(*                                                                         *)
(* The tree of blocks that can ever exist is a constant.  A block is an    *)
(* opaque value; Parent, Height, Slot and Root are its header fields.      *)
(***************************************************************************)
EXTENDS Integers, Sequences

CONSTANTS Block,    \* every block that may reach this node
          Genesis,  \* the genesis block
          Parent,   \* header.PreviousHash of every block but the genesis
          Height,   \* header.Height
          Slot,     \* (header.TimeStamp - genesis time) \div BlockInterval
          Root,     \* header.StateRoot: two blocks may have the same root
          Own,      \* the blocks this node seals; the others are received
          None      \* the absent value

Writer  == {"insert", "mine"}

\* ValidateHeader of a header and its parent's: consecutive heights, growing
\* timestamps (hence slots that do not decrease), the difficulty of its slot.
\* The blocks of the model are those that pass it.
ValidateHeader(b) == /\ Height[b] = Height[Parent[b]] + 1
                     /\ Slot[b] >= Slot[Parent[b]]
                     /\ Slot[b] >= Slot[Genesis]

ASSUME BlockTree ==
    /\ Genesis \in Block
    /\ None \notin Block \cup Writer
    /\ Own \subseteq Block \ {Genesis}
    /\ Parent \in [Block \ {Genesis} -> Block]
    /\ Height \in [Block -> Nat]
    /\ Slot \in [Block -> Nat]
    /\ DOMAIN Root = Block
    /\ Height[Genesis] = 0
    /\ \A b \in Block \ {Genesis} : ValidateHeader(b)

Heights == {Height[b] : b \in Block}
NoTd    == -1

\* Dpos.CalcDifficulty: one more than the number of slots since the genesis,
\* so that a block of a later slot weighs more whatever its height.
CalcDifficulty(b) == Slot[b] - Slot[Genesis] + 1

VARIABLES
    header,    \* blocks whose header record is in the database
    txs,       \* blocks whose transaction list is in the database
    receipts,  \* blocks whose receipts are in the database
    td,        \* total difficulty record of a block, or NoTd
    state,     \* state roots committed to the database
    canon,     \* height -> legitimate (canonical) hash, or None
    head,      \* the head block hash record
    cur,       \* bc.currentBlock
    mu,        \* the writer that holds bc.mu, or None
    pc,        \* where each writer is
    blk,       \* the block each writer is writing, or None
    prev,      \* WriteBlockWithState's currentBlock
    adopt,     \* WriteBlockWithState's reorg flag
    status,    \* what WriteBlockWithState returned to each writer
    oldBlock, newBlock, newChain   \* reorg's variables

disk == <<header, txs, receipts, td, state, canon, head>>
walk == <<oldBlock, newBlock, newChain>>
vars == <<disk, cur, mu, pc, blk, prev, adopt, status, walk>>

Init ==
    /\ header = {Genesis} /\ txs = {Genesis} /\ receipts = {Genesis}
    /\ td = [b \in Block |-> IF b = Genesis THEN 0 ELSE NoTd]
    /\ state = {Root[Genesis]}
    /\ canon = [h \in Heights |-> IF h = 0 THEN Genesis ELSE None]
    /\ head = Genesis /\ cur = Genesis
    /\ mu = None
    /\ pc = [w \in Writer |-> "idle"]
    /\ blk = [w \in Writer |-> None]
    /\ prev = Genesis /\ adopt = FALSE
    /\ status = [w \in Writer |-> FALSE]
    /\ oldBlock = Genesis /\ newBlock = Genesis /\ newChain = <<>>

Goto(w, l) == pc' = [pc EXCEPT ![w] = l]

\* HasBlock and HasState.
HasBlock(b) == b \in header
HasState(b) == Root[b] \in state

ValidateTxs(b) ==
    CASE HasBlock(b) /\ HasState(b) -> "ErrKnownBlock"
      [] ~(HasBlock(b) /\ HasState(b)) /\ ~HasBlock(Parent[b]) -> "ErrUnknownAncestor"
      [] ~(HasBlock(b) /\ HasState(b)) /\ HasBlock(Parent[b]) /\ ~HasState(Parent[b]) -> "ErrPrunedAncestor"
      [] OTHER -> "nil"

\* insertChain up to WriteBlockWithState.  A block that does not validate is
\* dropped and changes nothing (ErrPrunedAncestor, which would, is excluded by
\* StoredComplete).  Execution leaves the state in memory: Finalize's
\* TrieDB().Commit finds no node to write, the nodes get there with
\* state.Commit below.
ValidateAndExec(b) ==
    /\ pc["insert"] = "idle"
    /\ b \notin Own \cup {Genesis}
    /\ ValidateTxs(b) = "nil"
    /\ blk' = [blk EXCEPT !["insert"] = b]
    /\ Goto("insert", "ready")
    /\ UNCHANGED <<disk, cur, mu, prev, adopt, status, walk>>

\* generateBlock from the check that the head is still the parent it built on
\* (GetCurrentInfo, which waits for bc.mu) to Seal.  bc.mu is free afterwards:
\* the head may move before the block is written.
Seal(b) ==
    /\ pc["mine"] = "idle"
    /\ mu = None
    /\ b \in Own \ header
    /\ Parent[b] = cur
    /\ blk' = [blk EXCEPT !["mine"] = b]
    /\ Goto("mine", "ready")
    /\ UNCHANGED <<disk, cur, mu, prev, adopt, status, walk>>

\* Mutant: the total is the head's plus the block's.
WriteTdOnHead(w) ==
    /\ pc[w] = "ready"
    /\ mu = None
    /\ td[Parent[blk[w]]] # NoTd
    /\ mu' = w
    /\ prev' = cur
    /\ td' = [td EXCEPT ![blk[w]] = td[cur] + CalcDifficulty(blk[w])]
    /\ Goto(w, "commit")
    /\ UNCHANGED <<header, txs, receipts, state, canon, head, cur, blk, adopt, status, walk>>

\* Mutant: bc.mu is not taken.
WriteTdUnlocked(w) ==
    /\ pc[w] = "ready"
    /\ td[Parent[blk[w]]] # NoTd
    /\ mu' = w
    /\ prev' = cur
    /\ td' = [td EXCEPT ![blk[w]] = td[Parent[blk[w]]] + CalcDifficulty(blk[w])]
    /\ Goto(w, "commit")
    /\ UNCHANGED <<header, txs, receipts, state, canon, head, cur, blk, adopt, status, walk>>

\* WriteBlockWithState: take bc.mu, write the total difficulty.  (Without a
\* parent difficulty it returns ErrUnknownAncestor; StoredComplete shows that
\* this does not happen.)
WriteTd(w) ==
    /\ pc[w] = "ready"
    /\ mu = None
    /\ td[Parent[blk[w]]] # NoTd
    /\ mu' = w
    /\ prev' = cur
    /\ td' = [td EXCEPT ![blk[w]] = td[Parent[blk[w]]] + CalcDifficulty(blk[w])]
    /\ Goto(w, "commit")
    /\ UNCHANGED <<header, txs, receipts, state, canon, head, cur, blk, adopt, status, walk>>

\* DposContext.CommitTo, state.Commit and triedb.Commit.
CommitState(w) ==
    /\ pc[w] = "commit"
    /\ state' = state \cup {Root[blk[w]]}
    /\ Goto(w, "choose")
    /\ UNCHANGED <<header, txs, receipts, td, canon, head, cur, mu, blk, prev, adopt, status, walk>>

\* Mutant: no preference for the lower of two equally heavy blocks.
BeatsByTd(b, c)  == td[b] > td[c]
\* The fork choice: the heavier chain, of two equal ones the shorter, of two
\* of one height a coin.
Beats(b, c) == \/ td[b] > td[c]
               \/ td[b] = td[c] /\ Height[b] < Height[c]

Ties(b, c) == td[b] = td[c] /\ Height[b] = Height[c]

\* Decide, and enter reorg unless the block extends the head.
Choose(w) ==
    /\ pc[w] = "choose"
    /\ \/ adopt' = TRUE /\ (Beats(blk[w], cur) \/ Ties(blk[w], cur))
       \/ adopt' = FALSE /\ ~Beats(blk[w], cur)
    /\ oldBlock' = cur /\ newBlock' = blk[w] /\ newChain' = <<>>
    /\ Goto(w, IF adopt' /\ Parent[blk[w]] # cur THEN "walk" ELSE "store")
    /\ UNCHANGED <<disk, cur, mu, blk, prev, status>>

\* reorg, one step back: the higher branch first, then both, collecting the
\* new branch from its tip down.
ReorgWalk(w) ==
    /\ pc[w] = "walk"
    /\ oldBlock # newBlock
    /\ oldBlock' = IF Height[oldBlock] >= Height[newBlock]
                   THEN Parent[oldBlock] ELSE oldBlock
    /\ IF Height[newBlock] >= Height[oldBlock]
       THEN newBlock' = Parent[newBlock] /\ newChain' = Append(newChain, newBlock)
       ELSE UNCHANGED <<newBlock, newChain>>
    /\ UNCHANGED <<disk, cur, mu, pc, blk, prev, adopt, status>>

\* Mutant: the lowest block of the new chain is forgotten.
ReorgFoundShort(w) ==
    /\ pc[w] = "walk"
    /\ oldBlock = newBlock
    /\ newChain' = IF Len(newChain) > 1 THEN SubSeq(newChain, 1, Len(newChain) - 1) ELSE newChain
    /\ Goto(w, "canon")
    /\ UNCHANGED <<disk, cur, mu, blk, prev, adopt, status, oldBlock, newBlock>>

ReorgFound(w) ==
    /\ pc[w] = "walk"
    /\ oldBlock = newBlock
    /\ Goto(w, "canon")
    /\ UNCHANGED <<disk, cur, mu, blk, prev, adopt, status, walk>>

\* WriteLegitimateHashAndHeadBlockHash, two writes, then currentBlock.Store;
\* reorg does this for the new chain from the fork up, the plain extension of
\* the head once, for its own block.
PutLegitimateHash(w) ==
    /\ pc[w] = "canon"
    /\ LET b == newChain[Len(newChain)]
       IN  canon' = [canon EXCEPT ![Height[b]] = b]
    /\ Goto(w, "head")
    /\ UNCHANGED <<header, txs, receipts, td, state, head, cur, mu, blk, prev, adopt, status, walk>>

PutHeadBlockHash(w) ==
    /\ pc[w] = "head"
    /\ LET b == newChain[Len(newChain)]
       IN  head' = b /\ cur' = b
    /\ newChain' = SubSeq(newChain, 1, Len(newChain) - 1)
    /\ Goto(w, IF Len(newChain) > 1 THEN "canon"
               ELSE IF Parent[blk[w]] = prev THEN "release" ELSE "store")
    /\ UNCHANGED <<header, txs, receipts, td, state, canon, mu, blk, prev, adopt, status, oldBlock, newBlock>>

\* WriteBlockAndReceipts: header, transactions, receipts.  It follows reorg.
PutHeader(w) ==
    /\ pc[w] = "store"
    /\ header' = header \cup {blk[w]}
    /\ Goto(w, "txs")
    /\ UNCHANGED <<txs, receipts, td, state, canon, head, cur, mu, blk, prev, adopt, status, walk>>

PutTransactions(w) ==
    /\ pc[w] = "txs"
    /\ txs' = txs \cup {blk[w]}
    /\ Goto(w, "receipts")
    /\ UNCHANGED <<header, receipts, td, state, canon, head, cur, mu, blk, prev, adopt, status, walk>>

\* The last write of the block; a block that extends the head is then made
\* the head.
PutReceipts(w) ==
    /\ pc[w] = "receipts"
    /\ receipts' = receipts \cup {blk[w]}
    /\ IF adopt /\ Parent[blk[w]] = prev
       THEN newChain' = <<blk[w]>> /\ Goto(w, "canon")
       ELSE UNCHANGED newChain /\ Goto(w, "release")
    /\ UNCHANGED <<header, txs, td, state, canon, head, cur, mu, blk, prev, adopt, status, oldBlock, newBlock>>

\* Mutant: bc.mu is not released.
ReleaseLocked(w) ==
    /\ pc[w] = "release"
    /\ status' = [status EXCEPT ![w] = adopt /\ Parent[blk[w]] # prev]
    /\ Goto(w, "post")
    /\ UNCHANGED <<disk, cur, mu, blk, prev, adopt, walk>>

\* Return from WriteBlockWithState: the deferred bc.mu.Unlock, and a status
\* that is TRUE when the block was adopted by a reorg.
Release(w) ==
    /\ pc[w] = "release"
    /\ mu' = None
    /\ status' = [status EXCEPT ![w] = adopt /\ Parent[blk[w]] # prev]
    /\ Goto(w, "post")
    /\ UNCHANGED <<disk, cur, blk, prev, adopt, walk>>

\* A writer posts its event without bc.mu: insertChain picks the feed by the
\* status, generateBlock ignores it (TxPool has the events).
PostEvent(w) ==
    /\ pc[w] = "post"
    /\ blk' = [blk EXCEPT ![w] = None]
    /\ Goto(w, "idle")
    /\ UNCHANGED <<disk, cur, mu, prev, adopt, status, walk>>

Write(w) == \/ WriteTd(w) \/ CommitState(w) \/ Choose(w) \/ ReorgWalk(w) \/ ReorgFound(w)
            \/ PutLegitimateHash(w) \/ PutHeadBlockHash(w)
            \/ PutHeader(w) \/ PutTransactions(w) \/ PutReceipts(w)
            \/ Release(w) \/ PostEvent(w)

Next == \/ \E b \in Block : ValidateAndExec(b) \/ Seal(b)
        \/ \E w \in Writer : Write(w)

Fairness == \A w \in Writer : WF_vars(Write(w))

Spec == Init /\ [][Next]_vars /\ Fairness

-----------------------------------------------------------------------------
\* The types of all variables.
TypeOK ==
    /\ header \subseteq Block /\ txs \subseteq Block /\ receipts \subseteq Block
    /\ td \in [Block -> Nat \cup {NoTd}]
    /\ state \subseteq {Root[b] : b \in Block}
    /\ canon \in [Heights -> Block \cup {None}]
    /\ head \in Block /\ cur \in Block /\ prev \in Block
    /\ mu \in Writer \cup {None}
    /\ pc \in [Writer -> {"idle", "ready", "commit", "choose", "walk", "canon", "head",
                          "store", "txs", "receipts", "release", "post"}]
    /\ blk \in [Writer -> Block \cup {None}]
    /\ adopt \in BOOLEAN /\ status \in [Writer -> BOOLEAN]
    /\ oldBlock \in Block /\ newBlock \in Block /\ newChain \in Seq(Block)

\* A stored header comes with its difficulty, its state and its stored parent,
\* and its difficulty is its parent's plus its own: the ErrPrunedAncestor and
\* missing-difficulty paths of insertChain and WriteBlockWithState, and reorg's
\* "Invalid new chain", are never taken.
StoredComplete ==
    \A b \in header :
        /\ td[b] # NoTd
        /\ Root[b] \in state
        /\ b # Genesis => /\ Parent[b] \in header
                          /\ td[b] = td[Parent[b]] + CalcDifficulty(b)

\* Whoever reads bc.currentBlock without a lock, in the middle of a reorg too,
\* gets a block that has a difficulty, a state, and stored ancestors.
CurrentBlockUsable ==
    /\ td[cur] # NoTd
    /\ Root[cur] \in state
    /\ cur \in header \/ (mu # None /\ cur = blk[mu] /\ Parent[cur] \in header)

\* Between two writes the legitimate hashes up to the head are exactly the
\* chain from the genesis to the current block, which is the stored head:
\* reorg rewrites all the heights it has to.
LegitimateChain ==
    mu = None =>
        /\ head = cur
        /\ canon[0] = Genesis
        /\ canon[Height[cur]] = cur
        /\ \A h \in 1 .. Height[cur] :
              canon[h] \in header \ {Genesis} /\ canon[h - 1] = Parent[canon[h]]

\* Between two writes no stored block is heavier than the head, and none of
\* the head's weight is lower: the order in which blocks arrive, and the miner
\* losing its race with the importer, do not matter.
HeadHeaviest ==
    mu = None => \A b \in header : /\ td[b] <= td[cur]
                                   /\ td[b] = td[cur] => Height[b] >= Height[cur]

\* The head as the users of the chain may rely on it: while a writer holds
\* bc.mu the outcome of its write is not yet decided for them.
PublishedHead == IF mu = None THEN cur ELSE prev

\* A write never makes the chain lighter, however far down it reorganises.
HeadNeverLighter == [][td'[PublishedHead'] >= td[PublishedHead]]_vars

\* Blocks in the database, except the one being written.
PublishedBlocks == IF mu = None THEN header ELSE header \ {blk[mu]}

FC == INSTANCE ForkChoice WITH
        Difficulty <- [b \in Block |-> CalcDifficulty(b)],
        stored <- PublishedBlocks,
        weight <- [b \in Block |-> IF b \in PublishedBlocks THEN td[b] ELSE NoTd],
        best   <- PublishedHead

\* The writes of WriteBlockWithState and reorg, taken together, accept one
\* block and choose between it and the old head, as if they were one step.
ImplementsForkChoice == FC!Spec

\* Every block handed to WriteBlockWithState is stored in the end, with its
\* body, whatever the other writer does.
Stored == \A w \in Writer : \A b \in Block :
    (pc[w] = "ready" /\ blk[w] = b) ~> (b \in header /\ b \in txs /\ b \in receipts)
=============================================================================
