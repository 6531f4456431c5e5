-------------------------- MODULE BlockchainCrash ---------------------------
(***************************************************************************)
(* Blockchain on a node that may stop between any two database writes and  *)
(* be started again.  The database survives; the current block, the locks  *)
(* and the goroutines do not.  Starting is NewBlockChain: preCheck,        *)
(* CheckLastBlock and loadLastState.                                       *)
(***************************************************************************)
EXTENDS Blockchain

CONSTANT MaxCrashes   \* bound on the number of stops

VARIABLES crashes,    \* stops so far
          up          \* FALSE once a start has panicked

crashVars == <<vars, crashes, up>>

CrashInit == Init /\ crashes = 0 /\ up = TRUE

Run == up /\ Next /\ UNCHANGED <<crashes, up>>

\* loadLastState: from the head record back to a block whose state is there.
Rewound[b \in Block] == IF HasState(b) \/ b = Genesis THEN b ELSE Rewound[Parent[b]]
LoadLastState(b) == IF HasState(b) THEN b ELSE Rewound[Parent[b]]

\* Mutant: the head record is trusted.
RestartTrusting ==
    /\ up
    /\ crashes < MaxCrashes
    /\ crashes' = crashes + 1
    /\ cur' = head
    /\ mu' = None
    /\ pc' = [w \in Writer |-> "idle"]
    /\ blk' = [w \in Writer |-> None]
    /\ status' = [w \in Writer |-> FALSE]
    /\ prev' = Genesis /\ adopt' = FALSE
    /\ oldBlock' = Genesis /\ newBlock' = Genesis /\ newChain' = <<>>
    /\ UNCHANGED <<disk, up>>

\* CheckLastBlock: the block of the head record.  When that block is missing
\* it calls ResetChain, whose RewindChain reads the height of the missing
\* block: a nil dereference, and the process ends.
Restart ==
    /\ up
    /\ crashes < MaxCrashes
    /\ crashes' = crashes + 1
    /\ up' = (head \in header)
    /\ cur' = IF head \in header THEN LoadLastState(head) ELSE cur
    /\ mu' = None
    /\ pc' = [w \in Writer |-> "idle"]
    /\ blk' = [w \in Writer |-> None]
    /\ status' = [w \in Writer |-> FALSE]
    /\ prev' = Genesis /\ adopt' = FALSE
    /\ oldBlock' = Genesis /\ newBlock' = Genesis /\ newChain' = <<>>
    /\ UNCHANGED disk

CrashNext == Run \/ Restart

CrashSpec == CrashInit /\ [][CrashNext]_crashVars
-----------------------------------------------------------------------------
\* A head nobody is replacing survives a stop, and so do all stored blocks:
\* the node resumes at the block it had published.
HeadDurable ==
    [][crashes' # crashes /\ mu = None => up' /\ cur' = cur]_crashVars

\* No stop and no rewrite of a half-written block changes a recorded total
\* difficulty or loses a header.
RecordsDurable ==
    [][/\ header \subseteq header'
       /\ \A b \in Block : td[b] # NoTd => td'[b] = td[b]]_crashVars

\* After a start too, bc.currentBlock is a block that can be built on.
RestartUsable == up => CurrentBlockUsable

\* CheckLastBlock's comment: the last block is right or the chain is reset
\* with the genesis block; either way the node starts.
StartsAgain == up
=============================================================================
