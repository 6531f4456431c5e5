---------------------------- MODULE CrashProofs -----------------------------
(***************************************************************************)
(* What survives stops between any two database writes, for every tree of  *)
(* blocks and any number of stops.  The legitimate hashes and the choice   *)
(* of the heaviest head do not survive, so the invariant is weaker than    *)
(* that of BlockchainInv: it keeps the database and where a writer is.     *)
(***************************************************************************)
EXTENDS BlockchainCrash, BlockchainInv

\* A total difficulty, once written, is the one a second attempt would write.
TdSound ==
    \A b \in Block \ {Genesis} : td[b] # NoTd =>
        Parent[b] \in header /\ td[b] = td[Parent[b]] + CalcDifficulty(b)

\* What writer w has done, from the lock on: the head moves to stored blocks
\* and to the block that is being written.
Headed(w) ==
    /\ prev \in header \ {blk[w]}
    /\ cur \in header \cup {blk[w]}
    /\ td[blk[w]] # NoTd
    /\ pc[w] # "commit" => Root[blk[w]] \in state
    /\ pc[w] \in {"commit", "choose", "walk"} => cur = prev
    /\ pc[w] \in {"commit", "choose", "walk", "store"} => blk[w] \notin header
    /\ pc[w] \in {"txs", "receipts", "release"} => blk[w] \in header

\* The new branch has stored blocks, and the block.
Branch(w) == \A i \in 1 .. Len(newChain) : newChain[i] \in (header \cup {blk[w]}) \ {Genesis}

\* reorg's search, and the switch to the new branch.
Branching(w) ==
    /\ pc[w] = "walk" =>
          /\ Parent[blk[w]] # prev
          /\ oldBlock \in header /\ newBlock \in header \cup {blk[w]}
          /\ Len(newChain) = 0 => newBlock = blk[w]
          /\ Branch(w)
    /\ pc[w] \in {"canon", "head"} =>
          /\ Len(newChain) > 0
          /\ Parent[blk[w]] = prev <=> blk[w] \in header
          /\ Parent[blk[w]] = prev => Len(newChain) = 1
          /\ Branch(w)

\* While the node runs.
Running ==
    /\ head = cur
    /\ mu = None => cur \in header
    /\ \A w \in Writer : mu = w => Headed(w) /\ Branching(w)

Records == TypeOK /\ LockInv /\ DataInv /\ TdSound
UpInv == Records /\ Running
CrashInv == Records /\ up \in BOOLEAN /\ (up => Running)
-----------------------------------------------------------------------------
\* Taking up a block and posting its event, without the lock.
LEMMA OutsideInv ==
    ASSUME UpInv, NEW w \in Writer, pc[w] \notin Held, NEW l \in {"idle", "ready"}, NEW x \in Block \cup {None},
           l = "ready" => x \in Block \ {Genesis} /\ Parent[x] \in header /\ x \notin header /\ (x \in Own <=> w = "mine"),
           pc' = [pc EXCEPT ![w] = l], blk' = [blk EXCEPT ![w] = x],
           UNCHANGED <<disk, cur, mu, prev, adopt, status, walk>>
    PROVE  UpInv'
  <1>1. /\ header' = header /\ td' = td /\ state' = state /\ canon' = canon /\ head' = head /\ txs' = txs
        /\ receipts' = receipts /\ cur' = cur /\ mu' = mu /\ prev' = prev /\ adopt' = adopt /\ status' = status
        /\ oldBlock' = oldBlock /\ newBlock' = newBlock /\ newChain' = newChain
    BY Zenon DEF disk, walk
  <1>2. pc'[w] = l /\ blk'[w] = x /\ \A v \in Writer \ {w} : pc'[v] = pc[v] /\ blk'[v] = blk[v]
    BY Zenon DEF UpInv, Records, TypeOK
  <1>3. TypeOK'
    BY <1>1, Zenon DEF UpInv, Records, TypeOK
  <1>4. LockInv'
    BY <1>1, <1>2 DEF UpInv, Records, LockInv, Held
  <1>5. DataInv' /\ TdSound'
    BY <1>1, Zenon DEF UpInv, Records, DataInv, StoredComplete, TdSound
  <1>6. ASSUME NEW v \in Writer, mu' = v PROVE Headed(v)' /\ Branching(v)'
    <2>1. v # w
      BY <1>1, <1>6, Zenon DEF UpInv, Records, LockInv
    <2>2. pc'[v] = pc[v] /\ blk'[v] = blk[v] /\ Headed(v) /\ Branching(v)
      BY <1>1, <1>2, <1>6, <2>1, Zenon DEF UpInv, Running
    <2>3. Headed(v)'
      BY <1>1, <2>2 DEF Headed
    <2>4. Branching(v)'
      BY <1>1, <2>2 DEF Branching, Branch
    <2>5. QED
      BY Zenon, <2>3, <2>4
  <1>7. QED
    BY <1>1, <1>3, <1>4, <1>5, <1>6, Zenon DEF UpInv, Records, Running

\* insertChain takes up a block.
LEMMA ValidateAndExecUp == ASSUME UpInv, NEW b \in Block, ValidateAndExec(b) PROVE UpInv'
  <1>1. b # Genesis /\ b \notin header /\ Parent[b] \in header /\ b \notin Own /\ pc["insert"] = "idle"
    BY Zenon DEF ValidateAndExec, ValidateTxs, HasBlock, HasState, UpInv, Records, DataInv, StoredComplete
  <1>2. "idle" \notin Held /\ "insert" \in Writer /\ "insert" # "mine"
    BY Zenon DEF Held, Writer
  <1>3. QED
    BY <1>1, <1>2, OutsideInv, Zenon DEF ValidateAndExec, Goto

\* generateBlock takes up a block on the head.
LEMMA SealUp == ASSUME UpInv, NEW b \in Block, Seal(b) PROVE UpInv'
  <1>1. b # Genesis /\ b \notin header /\ Parent[b] \in header /\ b \in Own /\ pc["mine"] = "idle"
    BY BlockTree, Zenon DEF Seal, UpInv, Running
  <1>2. "idle" \notin Held /\ "mine" \in Writer
    BY Zenon DEF Held, Writer
  <1>3. QED
    BY <1>1, <1>2, OutsideInv, Zenon DEF Seal, Goto

\* The end of a write, after the lock.
LEMMA PostEventUp == ASSUME UpInv, NEW w \in Writer, PostEvent(w) PROVE UpInv'
  <1>1. pc[w] \notin Held
    BY Zenon DEF PostEvent, Held
  <1>2. QED
    BY <1>1, OutsideInv, Zenon DEF PostEvent, Goto

-----------------------------------------------------------------------------
\* What is known of the writer that holds bc.mu.
LEMMA UpHolder ==
    ASSUME UpInv, NEW w \in Writer, pc[w] \in Held
    PROVE  /\ mu = w /\ mu # None
           /\ Headed(w) /\ Branching(w)
           /\ blk[w] \in Block \ {Genesis}
           /\ Parent[blk[w]] \in header
           /\ header \subseteq Block
           /\ \A v \in Writer \ {w} : pc[v] \notin Held /\ (pc[v] # "idle" => blk[v] # blk[w])
  <1>1. mu = w /\ mu # None
    BY BlockTree, Zenon DEF UpInv, Records, LockInv
  <1>2. pc[w] # "idle"
    BY Zenon DEF Held
  <1>3. \A v \in Writer \ {w} : pc[v] \notin Held /\ (pc[v] # "idle" => blk[v] # blk[w])
    BY <1>1, <1>2, Zenon DEF UpInv, Records, LockInv, Writer
  <1>4. QED
    BY <1>1, <1>2, <1>3, Zenon DEF UpInv, Records, LockInv, TypeOK, Running

\* A step of the holder under the lock leaves these to show.
LEMMA UpStep ==
    ASSUME UpInv, NEW w \in Writer, pc[w] \in Held, NEW l \in Held,
           pc' = [pc EXCEPT ![w] = l], blk' = blk, mu' = mu,
           header \subseteq header', header' \subseteq header \cup {blk[w]}
    PROVE  /\ LockInv'
           /\ pc'[w] = l
           /\ TypeOK' /\ DataInv' /\ TdSound' /\ head' = cur' /\ Headed(w)' /\ Branching(w)' => UpInv'
  <1>1. pc'[w] = l /\ \A v \in Writer \ {w} : pc'[v] = pc[v]
    BY Zenon DEF UpInv, Records, TypeOK
  <1>2. LockInv'
    BY <1>1, UpHolder DEF UpInv, Records, LockInv, Held
  <1>3. mu' # None /\ \A v \in Writer : mu' = v => v = w
    BY Zenon, UpHolder
  <1>4. QED
    BY <1>1, <1>2, <1>3, Zenon DEF UpInv, Records, Running

\* A step of the holder that stores no block and changes no difficulty.
LEMMA UpQuiet ==
    ASSUME UpInv, NEW w \in Writer, pc[w] \in Held, NEW l \in Held,
           pc' = [pc EXCEPT ![w] = l], blk' = blk, mu' = mu,
           header' = header, td' = td, state \subseteq state'
    PROVE  /\ Headed(w) /\ Branching(w) /\ blk[w] \in Block \ {Genesis}
           /\ pc'[w] = l
           /\ /\ TypeOK' /\ Headed(w)' /\ Branching(w)'
              /\ head' = cur' \/ (head' = head /\ cur' = cur)
              => UpInv'
  <1>1. DataInv' /\ TdSound'
    BY Zenon DEF UpInv, Records, DataInv, StoredComplete, TdSound
  <1>2. head = cur
    BY Zenon DEF UpInv, Running
  <1>3. QED
    BY <1>1, <1>2, UpHolder, UpStep, Zenon

\* Of a block's own difficulty and its parent's, the second is recorded first.
LEMMA TdKept ==
    ASSUME UpInv, NEW x \in Block \ {Genesis}, x \notin header, Parent[x] \in header,
           td' = [td EXCEPT ![x] = td[Parent[x]] + CalcDifficulty(x)], header' = header, state' = state
    PROVE  /\ td' \in [Block -> Nat \cup {NoTd}] /\ td'[x] # NoTd
           /\ \A b \in Block \ {x} : td'[b] = td[b]
           /\ DataInv' /\ TdSound'
  <1>1. /\ td \in [Block -> Nat \cup {NoTd}] /\ header \subseteq Block
        /\ StoredComplete /\ Genesis \in header /\ td[Genesis] = 0 /\ TdSound
    BY Zenon DEF UpInv, Records, TypeOK, DataInv
  <1>2. td[Parent[x]] \in Nat /\ CalcDifficulty(x) \in Nat /\ Parent[x] # x /\ Genesis \in Block
    BY <1>1, TreeFacts DEF StoredComplete
  <1>3. td[Parent[x]] + CalcDifficulty(x) \in Nat
    BY <1>2
  <1>4. /\ td' \in [Block -> Nat \cup {NoTd}]
        /\ td'[x] = td[Parent[x]] + CalcDifficulty(x)
        /\ \A b \in Block \ {x} : td'[b] = td[b]
    BY Zenon, <1>1, <1>3
  <1>5. td'[x] # NoTd
    BY <1>3, <1>4, BlockTree DEF NoTd
  <1>6. StoredComplete'
    BY <1>1, <1>4 DEF StoredComplete
  <1>7. TdSound'
    <2> SUFFICES ASSUME NEW b \in Block \ {Genesis}, td'[b] # NoTd
                 PROVE  Parent[b] \in header' /\ td'[b] = td'[Parent[b]] + CalcDifficulty(b)
      BY Zenon DEF TdSound
    <2>1. CASE b = x
      BY Zenon, <2>1, <1>1, <1>2, <1>4
    <2>2. CASE b # x
      <3>1. Parent[b] \in header /\ td[b] = td[Parent[b]] + CalcDifficulty(b)
        BY <2>2, <1>1, <1>4, Zenon DEF TdSound
      <3>2. Parent[b] \in Block \ {x}
        BY Zenon, <3>1, <1>1
      <3>3. QED
        BY Zenon, <3>1, <3>2, <2>2, <1>4
    <2>3. QED
      BY Zenon, <2>1, <2>2
  <1>8. QED
    BY <1>1, <1>4, <1>5, <1>6, <1>7, Zenon DEF DataInv

\* WriteBlockWithState takes the lock and writes the total difficulty.
LEMMA WriteTdUp == ASSUME UpInv, NEW w \in Writer, WriteTd(w) PROVE UpInv'
  <1> DEFINE x == blk[w]
  <1>1. /\ pc[w] = "ready" /\ mu = None /\ mu' = w /\ prev' = cur /\ pc' = [pc EXCEPT ![w] = "commit"]
        /\ td' = [td EXCEPT ![x] = td[Parent[x]] + CalcDifficulty(x)]
        /\ header' = header /\ txs' = txs /\ receipts' = receipts /\ state' = state /\ canon' = canon
        /\ head' = head /\ cur' = cur /\ blk' = blk /\ adopt' = adopt /\ status' = status
        /\ oldBlock' = oldBlock /\ newBlock' = newBlock /\ newChain' = newChain
    BY Zenon DEF WriteTd, Goto, walk
  <1>2. x \in Block \ {Genesis} /\ Parent[x] \in header /\ x \notin header /\ cur \in header
    BY <1>1, Zenon DEF UpInv, Records, Running, LockInv
  <1> HIDE DEF x
  <1>3. td' \in [Block -> Nat \cup {NoTd}] /\ td'[x] # NoTd /\ DataInv' /\ TdSound'
    BY Zenon, <1>1, <1>2, TdKept
  <1>4. TypeOK'
    BY <1>1, <1>3, Zenon DEF UpInv, Records, TypeOK
  <1>5. pc'[w] = "commit" /\ \A v \in Writer \ {w} : pc'[v] = pc[v]
    BY <1>1, Zenon DEF UpInv, Records, TypeOK
  <1>6. LockInv'
    <2>1. \A v \in Writer : pc[v] \notin Held
      BY <1>1, BlockTree, Zenon DEF UpInv, Records, LockInv
    <2>2. pc[w] # "idle" /\ "commit" \in Held /\ "commit" # "ready"
      BY <1>1, Zenon DEF Held
    <2>3. QED
      BY <1>1, <1>5, <2>1, <2>2 DEF UpInv, Records, LockInv
  <1>7. Headed(w)' /\ Branching(w)'
    BY <1>1, <1>2, <1>3, <1>5, Zenon DEF Headed, Branching, x
  <1>8. mu' # None /\ \A v \in Writer : mu' = v => v = w
    BY Zenon, <1>1, BlockTree
  <1>9. head' = cur'
    BY <1>1, Zenon DEF UpInv, Running
  <1>10. QED
    BY <1>3, <1>4, <1>6, <1>7, <1>8, <1>9, Zenon DEF UpInv, Records, Running

\* The state of the block reaches the database.
LEMMA CommitStateUp == ASSUME UpInv, NEW w \in Writer, CommitState(w) PROVE UpInv'
  <1> DEFINE x == blk[w]
  <1>1. /\ pc[w] = "commit" /\ pc' = [pc EXCEPT ![w] = "choose"] /\ state' = state \cup {Root[x]}
        /\ header' = header /\ txs' = txs /\ receipts' = receipts /\ td' = td /\ canon' = canon /\ mu' = mu
        /\ head' = head /\ cur' = cur /\ blk' = blk /\ adopt' = adopt /\ status' = status /\ prev' = prev
        /\ oldBlock' = oldBlock /\ newBlock' = newBlock /\ newChain' = newChain
    BY Zenon DEF CommitState, Goto, walk
  <1>2. pc[w] \in Held /\ "choose" \in Held
    BY <1>1, Zenon DEF Held
  <1>3. x \in Block /\ Headed(w) /\ pc'[w] = "choose"
    BY Zenon, <1>1, <1>2, UpQuiet
  <1> HIDE DEF x
  <1>4. TypeOK'
    BY <1>1, <1>3, Zenon DEF UpInv, Records, TypeOK
  <1>5. Headed(w)' /\ Branching(w)'
    BY <1>1, <1>3, Zenon DEF Headed, Branching, x
  <1>6. QED
    BY Zenon, <1>1, <1>2, <1>4, <1>5, UpQuiet

\* The fork choice: whichever way it falls, nothing is written.
LEMMA ChooseUp == ASSUME UpInv, NEW w \in Writer, Choose(w) PROVE UpInv'
  <1> DEFINE l == IF adopt' /\ Parent[blk[w]] # cur THEN "walk" ELSE "store"
  <1>1. /\ pc[w] = "choose" /\ pc' = [pc EXCEPT ![w] = l] /\ adopt' \in BOOLEAN
        /\ oldBlock' = cur /\ newBlock' = blk[w] /\ newChain' = <<>>
        /\ header' = header /\ txs' = txs /\ receipts' = receipts /\ td' = td /\ canon' = canon /\ mu' = mu
        /\ head' = head /\ cur' = cur /\ blk' = blk /\ state' = state /\ status' = status /\ prev' = prev
    BY Zenon DEF Choose, Goto, disk
  <1>2. pc[w] \in Held /\ l \in Held /\ l \in {"walk", "store"} /\ (l = "walk" => Parent[blk[w]] # cur)
    BY <1>1, Zenon DEF Held
  <1> HIDE DEF l
  <1>3. blk[w] \in Block /\ Headed(w) /\ pc'[w] = l
    BY Zenon, <1>1, <1>2, UpQuiet
  <1>4. TypeOK'
    BY <1>1, <1>2, <1>3 DEF UpInv, Records, TypeOK
  <1>5. Headed(w)'
    BY <1>1, <1>2, <1>3, Zenon DEF Headed
  <1>6. Branching(w)'
    BY <1>1, <1>2, <1>3 DEF Headed, Branching, Branch
  <1>7. QED
    BY Zenon, <1>1, <1>2, <1>4, <1>5, <1>6, UpQuiet

\* A step of reorg's search stays within the stored blocks.
LEMMA ReorgWalkUp == ASSUME UpInv, NEW w \in Writer, ReorgWalk(w) PROVE UpInv'
  <1>1. /\ pc[w] = "walk" /\ oldBlock # newBlock /\ pc' = pc
        /\ oldBlock' = IF Height[oldBlock] >= Height[newBlock] THEN Parent[oldBlock] ELSE oldBlock
        /\ \/ Height[newBlock] >= Height[oldBlock] /\ newBlock' = Parent[newBlock] /\ newChain' = Append(newChain, newBlock)
           \/ newBlock' = newBlock /\ newChain' = newChain
        /\ header' = header /\ txs' = txs /\ receipts' = receipts /\ td' = td /\ canon' = canon /\ mu' = mu
        /\ head' = head /\ cur' = cur /\ blk' = blk /\ state' = state /\ status' = status /\ prev' = prev
        /\ adopt' = adopt
    BY Zenon DEF ReorgWalk, disk
  <1>2. pc[w] \in Held
    BY <1>1, Zenon DEF Held
  <1>3. /\ Headed(w) /\ Branching(w) /\ blk[w] \in Block \ {Genesis} /\ Parent[blk[w]] \in header /\ header \subseteq Block
        /\ oldBlock \in header /\ newBlock \in header \cup {blk[w]} /\ newChain \in Seq(Block)
        /\ Len(newChain) = 0 => newBlock = blk[w]
        /\ Branch(w)
    BY <1>1, <1>2, UpHolder, Zenon DEF Branching, UpInv, Records, TypeOK
  <1>4. Height[oldBlock] \in Nat /\ Height[newBlock] \in Nat /\ (Height[oldBlock] = 0 <=> oldBlock = Genesis)
           /\ (Height[newBlock] = 0 <=> newBlock = Genesis)
    BY Zenon, <1>3, TreeFacts
  <1>5. \A b \in header : b # Genesis => Parent[b] \in header
    BY Zenon DEF UpInv, Records, DataInv, StoredComplete
  <1>6. oldBlock' \in header
    BY <1>1, <1>3, <1>4, <1>5
  <1>7. newBlock' \in header \cup {blk[w]} /\ (newBlock' # newBlock => newBlock # Genesis)
           /\ (newChain' # newChain => newBlock # Genesis)
    BY <1>1, <1>3, <1>4, <1>5
  <1>8. newBlock \in Block
    BY Zenon, <1>3
  <1>9. /\ newChain' \in Seq(Block)
        /\ \A i \in 1 .. Len(newChain') : newChain'[i] \in (header \cup {blk[w]}) \ {Genesis}
        /\ Len(newChain') = 0 => newBlock' = blk[w]
    <2>1. CASE newChain' = newChain /\ newBlock' = newBlock
      BY <2>1, <1>3, Zenon DEF Branch
    <2>2. CASE newChain' = Append(newChain, newBlock) /\ newChain' # newChain
      <3>1. /\ newChain' \in Seq(Block) /\ Len(newChain') = Len(newChain) + 1 /\ Len(newChain) \in Nat
            /\ newChain'[Len(newChain) + 1] = newBlock
            /\ \A i \in 1 .. Len(newChain) : newChain'[i] = newChain[i]
        BY <2>2, <1>3, <1>8
      <3>2. ASSUME NEW i \in 1 .. Len(newChain') PROVE newChain'[i] \in (header \cup {blk[w]}) \ {Genesis}
        <4>1. i = Len(newChain) + 1 \/ i \in 1 .. Len(newChain)
          BY <3>1
        <4>2. QED
          BY <4>1, <3>1, <2>2, <1>3, <1>7, Zenon DEF Branch
      <3>3. QED
        BY <3>1, <3>2
    <2>3. newChain' = Append(newChain, newBlock) => newChain' # newChain
      BY <1>3, <1>8
    <2>4. QED
      BY Zenon, <2>1, <2>2, <2>3, <1>1
  <1>10. TypeOK'
    BY <1>1, <1>3, <1>6, <1>7, <1>9, Zenon DEF UpInv, Records, TypeOK
  <1>11. DataInv' /\ TdSound'
    BY <1>1, Zenon DEF UpInv, Records, DataInv, StoredComplete, TdSound
  <1>12. LockInv' /\ mu' # None /\ (\A v \in Writer : mu' = v => v = w) /\ head' = cur'
    BY <1>1, <1>2, UpHolder, Zenon DEF UpInv, Records, LockInv, Running
  <1>13. Headed(w)'
    BY <1>1, <1>3, Zenon DEF Headed
  <1>14. Branching(w)'
    BY <1>1, <1>3, <1>6, <1>7, <1>9, Zenon DEF Branching, Branch
  <1>15. QED
    BY <1>10, <1>11, <1>12, <1>13, <1>14, Zenon DEF UpInv, Records, Running

\* The search ends, with a block to switch to.
LEMMA ReorgFoundUp == ASSUME UpInv, NEW w \in Writer, ReorgFound(w) PROVE UpInv'
  <1>1. /\ pc[w] = "walk" /\ oldBlock = newBlock /\ pc' = [pc EXCEPT ![w] = "canon"]
        /\ oldBlock' = oldBlock /\ newBlock' = newBlock /\ newChain' = newChain
        /\ header' = header /\ txs' = txs /\ receipts' = receipts /\ td' = td /\ canon' = canon /\ mu' = mu
        /\ head' = head /\ cur' = cur /\ blk' = blk /\ state' = state /\ status' = status /\ prev' = prev
        /\ adopt' = adopt
    BY Zenon DEF ReorgFound, Goto, disk, walk
  <1>2. pc[w] \in Held /\ "canon" \in Held
    BY <1>1, Zenon DEF Held
  <1>3. Headed(w) /\ Branching(w) /\ pc'[w] = "canon"
    BY Zenon, <1>1, <1>2, UpQuiet
  <1>4. TypeOK'
    BY <1>1, Zenon DEF UpInv, Records, TypeOK
  <1>5. Headed(w)'
    BY <1>1, <1>3, Zenon DEF Headed
  <1>6. newChain \in Seq(Block) /\ blk[w] \notin header /\ Len(newChain) # 0
    BY <1>1, <1>3, Zenon DEF Headed, Branching, UpInv, Records, TypeOK
  <1>7. Len(newChain) > 0
    BY <1>6
  <1>8. Branching(w)'
    BY <1>1, <1>3, <1>6, <1>7, Zenon DEF Branching, Branch
  <1>9. QED
    BY Zenon, <1>1, <1>2, <1>4, <1>5, <1>8, UpQuiet

\* The next block of the new branch.
LEMMA UpLast ==
    ASSUME UpInv, NEW w \in Writer, pc[w] \in {"canon", "head"}
    PROVE  /\ pc[w] \in Held
           /\ newChain \in Seq(Block) /\ Len(newChain) \in Nat /\ Len(newChain) > 0
           /\ newChain[Len(newChain)] \in header \cup {blk[w]} /\ newChain[Len(newChain)] \in Block
           /\ Parent[blk[w]] = prev => Len(newChain) = 1
           /\ Parent[blk[w]] = prev <=> blk[w] \in header
           /\ Branch(w)
  <1>1. pc[w] \in Held
    BY Zenon DEF Held
  <1>2. Branching(w) /\ newChain \in Seq(Block)
    BY <1>1, UpHolder, Zenon DEF UpInv, Records, TypeOK
  <1>3. Len(newChain) \in Nat /\ Len(newChain) > 0
    BY <1>2 DEF Branching
  <1>4. Branch(w) /\ Len(newChain) \in 1 .. Len(newChain)
    BY <1>2, <1>3 DEF Branching
  <1>5. QED
    BY <1>1, <1>2, <1>3, <1>4 DEF Branching, Branch

\* A legitimate hash is replaced.
LEMMA PutLegitimateHashUp == ASSUME UpInv, NEW w \in Writer, PutLegitimateHash(w) PROVE UpInv'
  <1> DEFINE b == newChain[Len(newChain)]
  <1>1. /\ pc[w] = "canon" /\ pc' = [pc EXCEPT ![w] = "head"] /\ canon' = [canon EXCEPT ![Height[b]] = b]
        /\ oldBlock' = oldBlock /\ newBlock' = newBlock /\ newChain' = newChain
        /\ header' = header /\ txs' = txs /\ receipts' = receipts /\ td' = td /\ mu' = mu
        /\ head' = head /\ cur' = cur /\ blk' = blk /\ state' = state /\ status' = status /\ prev' = prev
        /\ adopt' = adopt
    BY Zenon DEF PutLegitimateHash, Goto, walk
  <1>2. pc[w] \in Held /\ "head" \in Held /\ b \in Block
    BY <1>1, UpLast, Zenon DEF Held
  <1> HIDE DEF b
  <1>3. Headed(w) /\ Branching(w) /\ pc'[w] = "head"
    BY Zenon, <1>1, <1>2, UpQuiet
  <1>4. TypeOK'
    BY <1>1, <1>2, Zenon DEF UpInv, Records, TypeOK
  <1>5. Headed(w)'
    BY <1>1, <1>3, Zenon DEF Headed
  <1>6. Branching(w)'
    BY <1>1, <1>3, Zenon DEF Branching, Branch
  <1>7. QED
    BY Zenon, <1>1, <1>2, <1>4, <1>5, <1>6, UpQuiet

\* The head moves to a stored block, or to the block being written.
LEMMA PutHeadBlockHashUp == ASSUME UpInv, NEW w \in Writer, PutHeadBlockHash(w) PROVE UpInv'
  <1> DEFINE b == newChain[Len(newChain)]
             l == IF Len(newChain) > 1 THEN "canon" ELSE IF Parent[blk[w]] = prev THEN "release" ELSE "store"
  <1>1. /\ pc[w] = "head" /\ pc' = [pc EXCEPT ![w] = l] /\ head' = b /\ cur' = b
        /\ newChain' = SubSeq(newChain, 1, Len(newChain) - 1)
        /\ oldBlock' = oldBlock /\ newBlock' = newBlock
        /\ header' = header /\ txs' = txs /\ receipts' = receipts /\ td' = td /\ mu' = mu
        /\ canon' = canon /\ blk' = blk /\ state' = state /\ status' = status /\ prev' = prev
        /\ adopt' = adopt
    BY Zenon DEF PutHeadBlockHash, Goto
  <1>2. /\ b \in Block /\ b \in header \cup {blk[w]} /\ Branch(w) /\ pc[w] \in Held
        /\ Parent[blk[w]] = prev => Len(newChain) = 1
        /\ Parent[blk[w]] = prev <=> blk[w] \in header
        /\ newChain \in Seq(Block) /\ Len(newChain) \in Nat /\ Len(newChain) > 0
    BY Zenon, <1>1, UpLast
  <1>3. /\ l \in {"canon", "release", "store"} /\ l \in Held
        /\ l = "canon" => Len(newChain) > 1
        /\ l = "release" => Parent[blk[w]] = prev
        /\ l = "store" => Parent[blk[w]] # prev
    BY <1>2, Zenon DEF Held
  <1> HIDE DEF b, l
  <1>4. Headed(w) /\ pc'[w] = l
    BY Zenon, <1>1, <1>2, <1>3, UpQuiet
  <1>5. /\ newChain' \in Seq(Block) /\ Len(newChain') = Len(newChain) - 1
        /\ \A i \in 1 .. Len(newChain') : newChain'[i] = newChain[i] /\ i \in 1 .. Len(newChain)
    <2>1. Len(newChain) - 1 \in Nat /\ Len(newChain) - 1 < Len(newChain)
      BY <1>2
    <2> DEFINE k == Len(newChain) - 1
               t == SubSeq(newChain, 1, k)
    <2>2. t \in Seq(Block) /\ Len(t) = k /\ \A i \in 1 .. k : t[i] = newChain[i]
      <3> HIDE DEF k
      <3>1. QED
        BY <2>1, <1>2, PrefixFacts, ZenonT(40) DEF k
    <2>3. newChain' = t
      BY Zenon, <1>1
    <2> HIDE DEF t
    <2>4. QED
      BY <2>1, <2>2, <2>3, <1>2
  <1>6. TypeOK'
    BY <1>1, <1>2, <1>3, <1>5, Zenon DEF UpInv, Records, TypeOK
  <1>7. Headed(w)'
    BY <1>1, <1>2, <1>3, <1>4, Zenon DEF Headed
  <1>8. Branching(w)'
    <2>1. Branch(w)'
      BY <1>1, <1>2, <1>5, Zenon DEF Branch
    <2>2. l = "canon" => Len(newChain') > 0 /\ Parent[blk[w]] # prev
      BY <1>2, <1>3, <1>5
    <2>3. QED
      BY <1>1, <1>2, <1>3, <1>4, <2>1, <2>2, Zenon DEF Branching
  <1>9. QED
    BY <1>1, <1>2, <1>3, <1>6, <1>7, <1>8, UpQuiet, Zenon

\* The block is stored, after its difficulty and its state.
LEMMA PutHeaderUp == ASSUME UpInv, NEW w \in Writer, PutHeader(w) PROVE UpInv'
  <1> DEFINE x == blk[w]
  <1>1. /\ pc[w] = "store" /\ pc' = [pc EXCEPT ![w] = "txs"] /\ header' = header \cup {x}
        /\ oldBlock' = oldBlock /\ newBlock' = newBlock /\ newChain' = newChain
        /\ canon' = canon /\ txs' = txs /\ receipts' = receipts /\ td' = td /\ mu' = mu
        /\ head' = head /\ cur' = cur /\ blk' = blk /\ state' = state /\ status' = status /\ prev' = prev
        /\ adopt' = adopt
    BY Zenon DEF PutHeader, Goto, walk
  <1>2. pc[w] \in Held /\ "txs" \in Held
    BY <1>1, Zenon DEF Held
  <1>3. /\ Headed(w) /\ LockInv' /\ pc'[w] = "txs"
        /\ x \in Block \ {Genesis} /\ Parent[x] \in header
    BY Zenon, <1>1, <1>2, UpHolder, UpStep
  <1>4. td[x] # NoTd /\ Root[x] \in state
    BY <1>1, <1>3, Zenon DEF Headed
  <1>5. td[x] = td[Parent[x]] + CalcDifficulty(x)
    BY <1>3, <1>4, Zenon DEF UpInv, Records, TdSound
  <1>6. Headed(w)' /\ Branching(w)'
    BY <1>1, <1>3, <1>4, Zenon DEF Headed, Branching
  <1> HIDE DEF x
  <1>7. TypeOK'
    BY <1>1, <1>3, Zenon DEF UpInv, Records, TypeOK
  <1>8. DataInv'
    BY <1>1, <1>3, <1>4, <1>5, Zenon DEF UpInv, Records, DataInv, StoredComplete
  <1>9. TdSound'
    BY <1>1, Zenon DEF UpInv, Records, TdSound
  <1>10. head' = cur' /\ header \subseteq header'
    BY <1>1, Zenon DEF UpInv, Running
  <1>11. QED
    BY <1>1, <1>2, <1>6, <1>7, <1>8, <1>9, <1>10, UpStep, Zenon DEF x

\* The transactions of the block.
LEMMA PutTransactionsUp == ASSUME UpInv, NEW w \in Writer, PutTransactions(w) PROVE UpInv'
  <1>1. /\ pc[w] = "txs" /\ pc' = [pc EXCEPT ![w] = "receipts"] /\ txs' = txs \cup {blk[w]}
        /\ oldBlock' = oldBlock /\ newBlock' = newBlock /\ newChain' = newChain
        /\ canon' = canon /\ header' = header /\ receipts' = receipts /\ td' = td /\ mu' = mu
        /\ head' = head /\ cur' = cur /\ blk' = blk /\ state' = state /\ status' = status /\ prev' = prev
        /\ adopt' = adopt
    BY Zenon DEF PutTransactions, Goto, walk
  <1>2. pc[w] \in Held /\ "receipts" \in Held
    BY <1>1, Zenon DEF Held
  <1>3. Headed(w) /\ pc'[w] = "receipts" /\ blk[w] \in Block
    BY ZenonT(40), <1>1, <1>2, UpQuiet
  <1>4. TypeOK'
    BY <1>1, <1>3, Zenon DEF UpInv, Records, TypeOK
  <1>5. Headed(w)' /\ Branching(w)'
    BY <1>1, <1>3, Zenon DEF Headed, Branching
  <1>6. QED
    BY <1>1, <1>2, <1>4, <1>5, UpQuiet, Zenon

\* The receipts; a block that extends the head becomes the head next.
LEMMA PutReceiptsUp == ASSUME UpInv, NEW w \in Writer, PutReceipts(w) PROVE UpInv'
  <1> DEFINE extends == adopt /\ Parent[blk[w]] = prev
             l == IF extends THEN "canon" ELSE "release"
  <1>1. /\ pc[w] = "receipts" /\ pc' = [pc EXCEPT ![w] = l] /\ receipts' = receipts \cup {blk[w]}
        /\ newChain' = IF extends THEN <<blk[w]>> ELSE newChain
        /\ oldBlock' = oldBlock /\ newBlock' = newBlock
        /\ canon' = canon /\ header' = header /\ txs' = txs /\ td' = td /\ mu' = mu
        /\ head' = head /\ cur' = cur /\ blk' = blk /\ state' = state /\ status' = status /\ prev' = prev
        /\ adopt' = adopt
    BY Zenon DEF PutReceipts, Goto
  <1>2. pc[w] \in Held /\ l \in Held /\ l \in {"canon", "release"}
    BY <1>1, Zenon DEF Held
  <1>3. l = "canon" => newChain' = <<blk[w]>> /\ Parent[blk[w]] = prev
    BY Zenon, <1>1
  <1>4. newChain' = <<blk[w]>> \/ newChain' = newChain
    BY Zenon, <1>1
  <1> HIDE DEF extends, l
  <1>5. Headed(w) /\ pc'[w] = l /\ blk[w] \in Block \ {Genesis}
    BY ZenonT(40), <1>1, <1>2, UpQuiet
  <1>6. TypeOK'
    BY <1>1, <1>2, <1>4, <1>5 DEF UpInv, Records, TypeOK
  <1>7. Headed(w)'
    BY <1>1, <1>2, <1>5, Zenon DEF Headed
  <1>8. Branching(w)'
    <2>1. l = "canon" => Len(newChain') = 1 /\ newChain'[1] = blk[w] /\ blk[w] \in header
      BY <1>1, <1>3, <1>5 DEF Headed
    <2>2. l = "canon" => Branch(w)'
      BY <1>1, <1>5, <2>1 DEF Branch
    <2>3. QED
      BY <1>1, <1>2, <1>3, <1>5, <2>1, <2>2 DEF Branching
  <1>9. QED
    BY <1>1, <1>2, <1>6, <1>7, <1>8, UpQuiet, Zenon

\* The lock is free again, and the head is a stored block.
LEMMA ReleaseUp == ASSUME UpInv, NEW w \in Writer, Release(w) PROVE UpInv'
  <1>1. /\ pc[w] = "release" /\ pc' = [pc EXCEPT ![w] = "post"] /\ mu' = None
        /\ status' = [status EXCEPT ![w] = adopt /\ Parent[blk[w]] # prev]
        /\ oldBlock' = oldBlock /\ newBlock' = newBlock /\ newChain' = newChain
        /\ canon' = canon /\ header' = header /\ txs' = txs /\ td' = td /\ receipts' = receipts
        /\ head' = head /\ cur' = cur /\ blk' = blk /\ state' = state /\ prev' = prev
        /\ adopt' = adopt
    BY Zenon DEF Release, Goto, disk, walk
  <1>2. pc[w] \in Held /\ "post" \notin Held /\ "post" # "ready"
    BY <1>1, Zenon DEF Held
  <1>3. Headed(w) /\ \A v \in Writer \ {w} : pc[v] \notin Held
    BY Zenon, <1>2, UpHolder
  <1>4. pc'[w] = "post" /\ \A v \in Writer \ {w} : pc'[v] = pc[v]
    BY <1>1, Zenon DEF UpInv, Records, TypeOK
  <1>5. (adopt /\ Parent[blk[w]] # prev) \in BOOLEAN
    BY Zenon
  <1>6. TypeOK'
    BY <1>1, <1>5, Zenon DEF UpInv, Records, TypeOK
  <1>7. \A v \in Writer : v # None
    BY Zenon, BlockTree
  <1>8. LockInv'
    BY <1>1, <1>2, <1>3, <1>4, <1>7 DEF UpInv, Records, LockInv, Held
  <1>9. DataInv' /\ TdSound'
    BY <1>1, ZenonT(40) DEF UpInv, Records, DataInv, StoredComplete, TdSound
  <1>10. Running'
    BY <1>1, <1>3, <1>7, Zenon DEF UpInv, Running, Headed
  <1>11. QED
    BY <1>6, <1>8, <1>9, <1>10, Zenon DEF UpInv, Records
-----------------------------------------------------------------------------
\* Every step of a running node.
LEMMA NextUp == ASSUME UpInv, Next PROVE UpInv'
  <1>1. ASSUME NEW b \in Block, ValidateAndExec(b) \/ Seal(b) PROVE UpInv'
    BY Zenon, <1>1, ValidateAndExecUp, SealUp
  <1>2. ASSUME NEW w \in Writer, Write(w) PROVE UpInv'
    BY <1>2, WriteTdUp, CommitStateUp, ChooseUp, ReorgWalkUp, ReorgFoundUp, PutLegitimateHashUp, PutHeadBlockHashUp,
       PutHeaderUp, PutTransactionsUp, PutReceiptsUp, ReleaseUp, PostEventUp, Zenon DEF Write
  <1>3. QED
    BY <1>1, <1>2, Zenon DEF Next

\* A start finds the head record's block whole, if it finds it.
LEMMA RestartInv == ASSUME CrashInv, Restart PROVE CrashInv' /\ (head \in header => cur' = head)
  <1>1. /\ up' = (head \in header) /\ cur' = (IF head \in header THEN LoadLastState(head) ELSE cur)
        /\ mu' = None /\ pc' = [v \in Writer |-> "idle"] /\ blk' = [v \in Writer |-> None]
        /\ status' = [v \in Writer |-> FALSE] /\ prev' = Genesis /\ adopt' = FALSE
        /\ oldBlock' = Genesis /\ newBlock' = Genesis /\ newChain' = <<>>
        /\ canon' = canon /\ header' = header /\ txs' = txs /\ td' = td /\ receipts' = receipts
        /\ head' = head /\ state' = state
    BY Zenon DEF Restart, disk
  <1>2. head \in header => LoadLastState(head) = head
    BY Zenon DEF LoadLastState, HasState, CrashInv, Records, DataInv, StoredComplete
  <1>3. cur' \in Block /\ Genesis \in Block
    BY <1>1, <1>2, BlockTree, Zenon DEF CrashInv, Records, TypeOK
  <1>4. TypeOK'
    <2>1. /\ pc' \in [Writer -> {"idle", "ready", "commit", "choose", "walk", "canon", "head",
                              "store", "txs", "receipts", "release", "post"}]
          /\ blk' \in [Writer -> Block \cup {None}] /\ status' \in [Writer -> BOOLEAN]
      BY Zenon, <1>1
    <2>2. newChain' \in Seq(Block)
      <3>1. newChain' = <<>>
        BY Zenon, <1>1
      <3>2. QED
        BY <3>1
    <2>3. adopt' \in BOOLEAN /\ mu' \in Writer \cup {None}
      BY Zenon, <1>1
    <2>4. QED
      BY <1>1, <1>3, <2>1, <2>2, <2>3, ZenonT(40) DEF CrashInv, Records, TypeOK
  <1>5. LockInv'
    <2>1. \A v \in Writer : v # None /\ pc'[v] = "idle"
      BY Zenon, <1>1, BlockTree
    <2>2. QED
      BY <2>1, <1>1, Zenon DEF LockInv, Held
  <1>6. DataInv' /\ TdSound'
    BY <1>1, Zenon DEF CrashInv, Records, DataInv, StoredComplete, TdSound
  <1>7. up' \in BOOLEAN
    BY <1>1
  <1>8. up' => Running'
    BY <1>1, <1>2, BlockTree, Zenon DEF Running
  <1>9. QED
    BY <1>1, <1>2, <1>4, <1>5, <1>6, <1>7, <1>8, Zenon DEF CrashInv, Records

\* CrashInv is inductive.
LEMMA CrashInvStep == ASSUME CrashInv, [CrashNext]_crashVars PROVE CrashInv'
  <1>1. CASE Run
    <2>1. UpInv /\ Next /\ up' = up /\ up
      BY <1>1, Zenon DEF Run, CrashInv, UpInv
    <2>2. UpInv'
      BY Zenon, <2>1, NextUp
    <2>3. QED
      BY <2>1, <2>2, Zenon DEF CrashInv, UpInv
  <1>2. CASE Restart
    BY Zenon, <1>2, RestartInv
  <1>3. CASE UNCHANGED crashVars
    <2>1. /\ canon' = canon /\ header' = header /\ txs' = txs /\ td' = td /\ receipts' = receipts
          /\ head' = head /\ state' = state /\ cur' = cur /\ mu' = mu /\ pc' = pc /\ blk' = blk /\ prev' = prev
          /\ adopt' = adopt /\ status' = status /\ oldBlock' = oldBlock /\ newBlock' = newBlock
          /\ newChain' = newChain /\ up' = up
      BY <1>3, Zenon DEF crashVars, vars, disk, walk
    <2>2. TypeOK'
      BY <2>1, Zenon DEF CrashInv, Records, TypeOK
    <2>3. LockInv' /\ DataInv' /\ TdSound'
      BY <2>1, Zenon DEF CrashInv, Records, LockInv, DataInv, StoredComplete, TdSound
    <2>4. up' => Running'
      BY <2>1 DEF CrashInv, Running, Headed, Branching, Branch
    <2>5. QED
      BY <2>1, <2>2, <2>3, <2>4, Zenon DEF CrashInv, Records
  <1>4. QED
    BY <1>1, <1>2, <1>3, Zenon DEF CrashNext
-----------------------------------------------------------------------------
\* CrashInv holds at every moment, before and after stops.
LEMMA CrashInvCorrect == CrashSpec => []CrashInv
  <1>1. CrashInit => CrashInv
    <2> SUFFICES ASSUME CrashInit PROVE CrashInv
      BY Zenon
    <2>1. IInv /\ up = TRUE
      BY InitInv, Zenon DEF CrashInit
    <2>2. /\ header = {Genesis} /\ td = [b \in Block |-> IF b = Genesis THEN 0 ELSE NoTd] /\ mu = None
          /\ head = Genesis /\ cur = Genesis
      BY Zenon DEF CrashInit, Init
    <2>3. TdSound
      BY <2>2, Zenon DEF TdSound
    <2>4. Running
      BY <2>2, BlockTree, Zenon DEF Running
    <2>5. QED
      BY <2>1, <2>3, <2>4, Zenon DEF CrashInv, Records, IInv
  <1>2. CrashInv /\ [CrashNext]_crashVars => CrashInv'
    BY Zenon, CrashInvStep
  <1>3. QED
    BY <1>1, <1>2, PTL DEF CrashSpec

\* However often the node stops between two writes, a stored block keeps its
\* difficulty, its state and its stored parent: a start never meets
\* ErrPrunedAncestor (insertChain, WriteBlockWithState).
THEOREM StoredCompleteDurable == CrashSpec => []StoredComplete
  <1>1. CrashInv => StoredComplete
    BY Zenon DEF CrashInv, Records, DataInv
  <1>2. QED
    BY <1>1, CrashInvCorrect, PTL

\* After any number of stops bc.currentBlock of a node that is up is a block
\* with a difficulty, a state and a stored parent (loadLastState).
THEOREM RestartUsableCorrect == CrashSpec => []RestartUsable
  <1>1. CrashInv => RestartUsable
    <2> SUFFICES ASSUME CrashInv, up PROVE CurrentBlockUsable
      BY Zenon DEF RestartUsable
    <2>1. UpInv
      BY Zenon DEF CrashInv, UpInv
    <2>2. CASE cur \in header
      BY <2>2, <2>1, Zenon DEF UpInv, Records, DataInv, StoredComplete, CurrentBlockUsable
    <2>3. CASE cur \notin header
      <3>1. mu # None /\ mu \in Writer /\ pc[mu] \in Held
        BY <2>1, <2>3, Zenon DEF UpInv, Records, Running, TypeOK, LockInv
      <3>2. Headed(mu) /\ Parent[blk[mu]] \in header
        BY Zenon, <2>1, <3>1, UpHolder
      <3>3. cur = blk[mu] /\ pc[mu] # "commit"
        BY <2>3, <3>2, Zenon DEF Headed
      <3>4. QED
        BY <3>1, <3>2, <3>3, Zenon DEF Headed, CurrentBlockUsable
    <2>4. QED
      BY Zenon, <2>2, <2>3
  <1>2. QED
    BY <1>1, CrashInvCorrect, PTL

\* A node that stops while no write is under way starts again, with the head
\* it had (CheckLastBlock, loadLastState).
THEOREM HeadDurableCorrect == CrashSpec => HeadDurable
  <1>1. CrashInv /\ [CrashNext]_crashVars => [crashes' # crashes /\ mu = None => up' /\ cur' = cur]_crashVars
    <2> SUFFICES ASSUME CrashInv, CrashNext, crashes' # crashes, mu = None PROVE up' /\ cur' = cur
      BY Zenon
    <2>1. Restart /\ up
      BY Zenon DEF CrashNext, Run, Restart
    <2>2. head = cur /\ cur \in header
      BY <2>1, Zenon DEF CrashInv, Running
    <2>3. cur' = head /\ up' = (head \in header)
      BY <2>1, <2>2, RestartInv, Zenon DEF Restart
    <2>4. QED
      BY Zenon, <2>2, <2>3
  <1>2. QED
    BY <1>1, CrashInvCorrect, PTL DEF CrashSpec, HeadDurable

\* Neither a stop nor the second attempt to write a block that a stop left
\* half-written loses a header or changes a recorded total difficulty (WriteTd).
THEOREM RecordsDurableCorrect == CrashSpec => RecordsDurable
  <1> DEFINE Kept == header \subseteq header' /\ \A b \in Block : td[b] # NoTd => td'[b] = td[b]
  <1>1. CrashInv /\ [CrashNext]_crashVars => [Kept]_crashVars
    <2> SUFFICES ASSUME CrashInv, CrashNext PROVE Kept
      BY Zenon
    <2>1. CASE Restart
      BY <2>1, Zenon DEF Restart, disk
    <2>2. ASSUME NEW b \in Block, ValidateAndExec(b) \/ Seal(b) PROVE Kept
      BY <2>2, Zenon DEF ValidateAndExec, Seal, disk
    <2>3. ASSUME NEW w \in Writer, WriteTd(w), up PROVE Kept
      <3> DEFINE x == blk[w]
      <3>1. /\ pc[w] = "ready" /\ header' = header
            /\ td' = [td EXCEPT ![x] = td[Parent[x]] + CalcDifficulty(x)] /\ td \in [Block -> Nat \cup {NoTd}]
        BY <2>3, Zenon DEF WriteTd, CrashInv, Records, TypeOK
      <3>2. x \in Block \ {Genesis}
        BY <3>1, Zenon DEF CrashInv, Records, LockInv
      <3> HIDE DEF x
      <3>3. td[x] # NoTd => td[x] = td[Parent[x]] + CalcDifficulty(x)
        BY <3>2, Zenon DEF CrashInv, Records, TdSound
      <3>4. QED
        BY Zenon, <3>1, <3>2, <3>3
    <2>4. ASSUME NEW w \in Writer, Write(w), ~WriteTd(w) PROVE Kept
      <3>1. header \subseteq header' /\ td' = td
        BY <2>4, Zenon DEF Write, CommitState, Choose, ReorgWalk, ReorgFound, PutLegitimateHash, PutHeadBlockHash,
           PutHeader, PutTransactions, PutReceipts, Release, PostEvent, disk
      <3>2. QED
        BY Zenon, <3>1
    <2>5. QED
      BY <2>1, <2>2, <2>3, <2>4, Zenon DEF CrashNext, Run, Next
  <1>2. QED
    BY <1>1, CrashInvCorrect, PTL DEF CrashSpec, RecordsDurable
=============================================================================
