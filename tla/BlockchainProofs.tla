-------------------------- MODULE BlockchainProofs --------------------------
(***************************************************************************)
(* Blockchain is correct for every block tree: its safety invariants, its  *)
(* action property, and that it implements ForkChoice.  They follow from   *)
(* the inductive invariant IInv of module BlockchainInv.                   *)
(***************************************************************************)
EXTENDS BlockchainInv


(* The search for the common block *)

\* A step of reorg's search for the common ancestor keeps the invariant.
LEMMA ReorgWalkInv == ASSUME IInv, NEW w \in Writer, ReorgWalk(w) PROVE IInv'
  <1> DEFINE b == blk[w]
  <1>1. /\ pc[w] = "walk" /\ pc[w] \in Held /\ oldBlock # newBlock
        /\ header' = header /\ td' = td /\ canon' = canon /\ head' = head /\ cur' = cur
        /\ state' = state /\ blk' = blk /\ mu' = mu /\ prev' = prev /\ adopt' = adopt
        /\ pc' = pc
    BY Zenon DEF ReorgWalk, Held, disk
  <1>2. /\ LockInv' /\ FreeInv'
        /\ HoldInv(w)' => \A v \in Writer : mu' = v => HoldInv(v)'
    <2>1. pc' = [pc EXCEPT ![w] = "walk"]
      BY <1>1, Zenon DEF IInv, TypeOK
    <2>2. QED
      BY Zenon, <1>1, <2>1, HeldStep
  <1>3. /\ b \in Block \ {Genesis} /\ b \notin header /\ header \subseteq Block
        /\ Parent[b] \in header /\ prev \in header
        /\ Locked(w) /\ Chosen(w) /\ Walking(w) /\ At(prev)
        /\ newBlock \in header \cup {b} /\ oldBlock \in header /\ newChain \in Seq(Block)
    BY <1>1, Holder, Zenon DEF HoldInv, Walking, Locked, IInv, TypeOK
  <1>4. /\ Height[oldBlock] \in Nat /\ Height[newBlock] \in Nat /\ Height[prev] \in Nat
        /\ oldBlock \in Block /\ newBlock \in Block
    BY Zenon, <1>3, TreeFacts
  \* One step of each side, from the heights and the links.
  <1>5. /\ oldBlock' \in header /\ Height[oldBlock'] <= Height[prev]
        /\ canon[Height[oldBlock']] = oldBlock'
    <2>1. CASE Height[oldBlock] >= Height[newBlock]
      <3>1. oldBlock # Genesis /\ oldBlock' = Parent[oldBlock]
        BY <2>1, <1>1, <1>4, TreeFacts DEF ReorgWalk
      <3>2. /\ Parent[oldBlock] \in header
            /\ Height[Parent[oldBlock]] \in Nat /\ Height[oldBlock] = Height[Parent[oldBlock]] + 1
        BY <3>1, <1>3, <1>4, TreeFacts, Zenon DEF IInv, DataInv, StoredComplete
      <3>3. canon[Height[oldBlock] - 1] = Parent[oldBlock]
        BY <3>2, <1>1, <1>3, <1>4 DEF Walking, At, Legit, ChainIn
      <3>4. QED
        BY <3>1, <3>2, <3>3, <1>1, <1>3, <1>4 DEF Walking
    <2>2. CASE ~(Height[oldBlock] >= Height[newBlock])
      BY <2>2, <1>1, <1>3, Zenon DEF ReorgWalk, Walking
    <2>3. QED
      BY Zenon, <2>1, <2>2
  <1>6. newBlock' \in header \cup {b} /\ Linked(b, newBlock)' /\ newChain' \in Seq(Block)
    <2>1. CASE Height[newBlock] >= Height[oldBlock]
      <3>1. /\ newBlock # Genesis /\ newBlock' = Parent[newBlock]
            /\ newChain' = Append(newChain, newBlock)
        BY <2>1, <1>1, <1>4, TreeFacts DEF ReorgWalk
      <3>2. Parent[newBlock] \in header
        BY <3>1, <1>3, Zenon DEF IInv, DataInv, StoredComplete
      <3>3. /\ newChain' \in Seq(Block) /\ Len(newChain') = Len(newChain) + 1
            /\ newChain'[Len(newChain')] = newBlock
            /\ \A i \in 1 .. Len(newChain) : newChain'[i] = newChain[i]
            /\ Len(newChain) \in Nat
        BY <3>1, <1>3, <1>4
      <3>4. Linked(b, newBlock)
        BY <1>1, <1>3, Zenon DEF Walking
      <3>5. Linked(b, newBlock)'
        BY <3>1, <3>3, <3>4, <1>1, <1>3 DEF Linked
      <3>6. QED
        BY Zenon, <3>1, <3>2, <3>3, <3>5
    <2>2. CASE ~(Height[newBlock] >= Height[oldBlock])
      BY <2>2, <1>1, <1>3, Zenon DEF ReorgWalk, Walking, Linked
    <2>3. QED
      BY Zenon, <2>1, <2>2
  <1>7. TypeOK'
    BY <1>1, <1>3, <1>5, <1>6 DEF ReorgWalk, IInv, TypeOK, disk
  <1>8. DataInv'
    BY <1>1, Zenon DEF IInv, DataInv, StoredComplete
  <1>9. HoldInv(w)'
    <2>1. Locked(w)'
      BY <1>1, <1>3, Zenon DEF Locked, Le, At
    <2>2. Chosen(w)'
      BY <1>1, <1>3, Zenon DEF Chosen, Le
    <2>3. Walking(w)'
      BY <1>1, <1>3, <1>5, <1>6, Zenon DEF Walking, At, Legit
    <2>4. QED
      BY <2>1, <2>2, <2>3, <1>1, Zenon DEF HoldInv, Switching, Storing
  <1>10. QED
    BY <1>2, <1>7, <1>8, <1>9, Zenon DEF IInv

\* The fork is a legitimate block, so the hashes are right up to it.
LEMMA ReorgFoundInv == ASSUME IInv, NEW w \in Writer, ReorgFound(w) PROVE IInv'
  <1> DEFINE b == blk[w]
  <1>1. /\ pc[w] = "walk" /\ pc[w] \in Held /\ "canon" \in Held /\ oldBlock = newBlock
        /\ header' = header /\ td' = td /\ canon' = canon /\ head' = head /\ cur' = cur
        /\ state' = state /\ blk' = blk /\ mu' = mu /\ prev' = prev /\ adopt' = adopt
        /\ newChain' = newChain /\ pc' = [pc EXCEPT ![w] = "canon"]
    BY Zenon DEF ReorgFound, Goto, Held, disk, walk
  <1>2. /\ LockInv' /\ FreeInv' /\ pc'[w] = "canon"
        /\ HoldInv(w)' => \A v \in Writer : mu' = v => HoldInv(v)'
    BY Zenon, <1>1, HeldStep
  <1>3. /\ b \in Block \ {Genesis} /\ b \notin header /\ header \subseteq Block /\ prev \in header
        /\ Locked(w) /\ Chosen(w) /\ Walking(w) /\ Linked(b, newBlock) /\ Legit(prev)
        /\ newChain \in Seq(Block) /\ oldBlock \in header /\ Parent[b] # prev
    BY <1>1, Holder, Zenon DEF HoldInv, Walking, Locked, At, IInv, TypeOK
  <1>4. TypeOK'
    BY <1>1, Zenon DEF ReorgFound, IInv, TypeOK, disk, walk
  <1>5. DataInv'
    BY <1>1, Zenon DEF IInv, DataInv, StoredComplete
  <1>6. Len(newChain) > 0 /\ newBlock = Parent[Last]
    BY <1>1, <1>3 DEF Linked, Last
  <1>7. Legit(oldBlock)
    BY <1>1, <1>3, ChainBelow, ChainMono DEF Legit, Walking
  <1>8. HoldInv(w)'
    <2>1. Locked(w)'
      BY <1>1, <1>2, <1>3, Zenon DEF Locked, Le
    <2>2. Chosen(w)'
      BY <1>1, <1>2, <1>3, Zenon DEF Chosen, Le
    <2>3. Linked(b, Parent[Last])'
      BY <1>1, <1>3, <1>6, Zenon DEF Linked, Last
    <2>4. Legit(Parent[Last])'
      BY <1>1, <1>6, <1>7, Zenon DEF Legit, Last
    <2>5. Switching(w)'
      BY <1>1, <1>2, <1>3, <1>6, <2>3, <2>4, Zenon DEF Switching, Walking
    <2>6. QED
      BY <2>1, <2>2, <2>5, <1>2, Zenon DEF HoldInv, Walking, Storing
  <1>9. QED
    BY <1>2, <1>4, <1>5, <1>8, Zenon DEF IInv

-----------------------------------------------------------------------------
(* Switching the legitimate chain and the head, one block at a time *)

\* Writing one height of the new branch (reorg) keeps the invariant.
LEMMA PutLegitimateHashInv == ASSUME IInv, NEW w \in Writer, PutLegitimateHash(w) PROVE IInv'
  <1> DEFINE b == blk[w]
  <1>1. /\ pc[w] = "canon" /\ pc[w] \in Held /\ "head" \in Held
        /\ header' = header /\ td' = td /\ head' = head /\ cur' = cur
        /\ canon' = [canon EXCEPT ![Height[Last]] = Last]
        /\ state' = state /\ blk' = blk /\ mu' = mu /\ prev' = prev /\ adopt' = adopt
        /\ newChain' = newChain /\ pc' = [pc EXCEPT ![w] = "head"]
    BY Zenon DEF PutLegitimateHash, Goto, Held, walk, Last
  <1>2. /\ LockInv' /\ FreeInv' /\ pc'[w] = "head"
        /\ HoldInv(w)' => \A v \in Writer : mu' = v => HoldInv(v)'
    BY Zenon, <1>1, HeldStep
  <1>3. /\ b \in Block \ {Genesis} /\ header \subseteq Block /\ prev \in header /\ Parent[b] \in header
        /\ Locked(w) /\ Chosen(w) /\ Switching(w) /\ Linked(b, Parent[Last]) /\ Legit(Parent[Last])
        /\ newChain \in Seq(Block) /\ Len(newChain) \in Nat \ {0}
        /\ canon \in [Heights -> Block \cup {None}]
    <2>1. newChain \in Seq(Block) /\ canon \in [Heights -> Block \cup {None}]
      BY Zenon DEF IInv, TypeOK
    <2>2. Switching(w) /\ Locked(w) /\ Chosen(w)
      BY <1>1, Holder, Zenon DEF HoldInv
    <2>3. prev \in header
      BY <2>2, Zenon DEF Locked
    <2>4. QED
      BY <1>1, <2>1, <2>2, <2>3, Holder DEF Switching
  <1>4. Last \in (header \cup {b}) \ {Genesis} /\ Last \in Block
    BY <1>3 DEF Linked, Last
  <1>5. Parent[Last] \in header
    BY <1>3, <1>4, Zenon DEF IInv, DataInv, StoredComplete
  <1>6. TypeOK'
    <2>1. canon' \in [Heights -> Block \cup {None}]
      BY Zenon, <1>1, <1>3, <1>4
    <2>2. QED
      BY <2>1, Zenon DEF PutLegitimateHash, Goto, IInv, TypeOK, walk
  <1>7. DataInv'
    BY <1>1, Zenon DEF IInv, DataInv, StoredComplete
  <1>8. Legit(Last)'
    <2>1. ChainIn(canon, header, Parent[Last])
      BY <1>3, <1>5, ChainMono, Zenon DEF Legit
    <2>2. ChainIn(canon', header \cup {Last}, Last)
      BY ZenonT(40), <2>1, <1>1, <1>3, <1>4, ChainExtend
    <2>3. QED
      BY <2>2, <1>1, Zenon DEF Legit, Last
  <1>9. HoldInv(w)'
    <2>1. Locked(w)'
      BY <1>1, <1>2, <1>3, Zenon DEF Locked, Le
    <2>2. Chosen(w)'
      BY <1>1, <1>2, <1>3, Zenon DEF Chosen, Le
    <2>3. Switching(w)'
      BY <1>1, <1>2, <1>3, <1>8, Zenon DEF Switching, Linked, Last
    <2>4. QED
      BY <2>1, <2>2, <2>3, <1>2, Zenon DEF HoldInv, Walking, Storing
  <1>10. QED
    BY <1>2, <1>6, <1>7, <1>9, Zenon DEF IInv

\* The head follows the legitimate hash; the last block of the new chain is
\* the block being written.
LEMMA PutHeadBlockHashInv == ASSUME IInv, NEW w \in Writer, PutHeadBlockHash(w) PROVE IInv'
  <1> DEFINE b == blk[w]
             n == Len(newChain)
             l == IF n > 1 THEN "canon" ELSE IF Parent[b] = prev THEN "release" ELSE "store"
  <1>1. /\ pc[w] = "head" /\ pc[w] \in Held /\ l \in Held
        /\ header' = header /\ td' = td /\ head' = Last /\ cur' = Last /\ canon' = canon
        /\ state' = state /\ blk' = blk /\ mu' = mu /\ prev' = prev /\ adopt' = adopt
    BY Zenon DEF PutHeadBlockHash, Goto, Held, Last
  <1>p. newChain' = SubSeq(newChain, 1, n - 1) /\ pc' = [pc EXCEPT ![w] = l]
    BY Zenon DEF PutHeadBlockHash, Goto
  <1>2. /\ LockInv' /\ FreeInv' /\ pc'[w] = l
        /\ HoldInv(w)' => \A v \in Writer : mu' = v => HoldInv(v)'
    BY Zenon, <1>1, <1>p, HeldStep
  <1>l. \/ n > 1 /\ l = "canon"
        \/ ~(n > 1) /\ Parent[b] = prev /\ l = "release"
        \/ ~(n > 1) /\ Parent[b] # prev /\ l = "store"
    BY Zenon
  <1> HIDE DEF l
  <1>3. /\ b \in Block \ {Genesis} /\ header \subseteq Block /\ prev \in header
        /\ Locked(w) /\ Chosen(w) /\ Switching(w) /\ Linked(b, Parent[Last]) /\ Legit(Last)
        /\ newChain \in Seq(Block) /\ n \in Nat \ {0}
        /\ adopt = TRUE /\ (b \in header <=> Parent[b] = prev) /\ (Parent[b] = prev => n = 1)
    <2>1. newChain \in Seq(Block) /\ canon \in [Heights -> Block \cup {None}]
      BY DEF IInv, TypeOK
    <2>2. Switching(w) /\ Locked(w) /\ Chosen(w)
      BY <1>1, Holder, Zenon DEF HoldInv
    <2>3. prev \in header
      BY <2>2 DEF Locked
    <2>4. QED
      BY <1>1, <2>1, <2>2, <2>3, Holder DEF Switching
  <1>4. Last \in (header \cup {b}) \ {Genesis} /\ Last \in Block
    BY <1>3 DEF Linked, Last
  <1>5. /\ newChain' \in Seq(Block) /\ Len(newChain') = n - 1
        /\ \A i \in 1 .. n - 1 : newChain'[i] = newChain[i]
    <2>1. n - 1 \in Nat /\ n - 1 < n
      BY <1>3
    <2>2. QED
      BY <1>p, <1>3, <2>1, PrefixFacts, ZenonT(40)
  <1>6. TypeOK'
    BY <1>p, <1>4, <1>5, <1>1, <1>2, <1>3, Zenon DEF PutHeadBlockHash, IInv, TypeOK, Held
  <1>7. DataInv'
    BY <1>1, Zenon DEF IInv, DataInv, StoredComplete
  <1>8. Locked(w)'
    <2>1. /\ pc'[w] \in {"canon", "release", "store"} /\ pc[w] = "head"
          /\ pc'[w] = "release" => b \in header
          /\ pc'[w] = "store" => b \notin header
      BY ZenonT(40), <1>l, <1>1, <1>2, <1>3
    <2>2. /\ header' = header /\ td' = td /\ state' = state /\ blk' = blk /\ prev' = prev
          /\ cur' \in header \cup {b} /\ Locked(w)
      BY Zenon, <1>1, <1>3, <1>4
    <2>3. QED
      BY <2>1, <2>2, Zenon DEF Locked, Le
  <1>9. Chosen(w)'
    BY <1>1, <1>3, Zenon DEF Chosen, Le
  <1>10. CASE n > 1
    <2>1. Last' = newChain[n - 1] /\ Parent[newChain[n - 1]] = Last
      BY <1>10, <1>3, <1>5 DEF Linked, Last
    <2>2. Linked(b, Parent[Last])'
      BY <1>10, <1>1, <1>3, <1>5, <2>1 DEF Linked
    <2>3. Legit(Parent[Last])'
      BY <1>1, <1>3, <2>1, Zenon DEF Legit
    <2>4. Switching(w)'
      BY <1>l, <1>10, <1>1, <1>2, <1>3, <1>5, <2>2, <2>3 DEF Switching
    <2>5. HoldInv(w)'
      BY <1>l, <1>10, <1>2, <1>8, <1>9, <2>4, Zenon DEF HoldInv, Walking, Storing
    <2>6. QED
      BY <1>2, <1>6, <1>7, <2>5, Zenon DEF IInv
  <1>11. CASE ~(n > 1)
    <2>1. Last = b
      BY <1>11, <1>3 DEF Linked, Last
    <2>2. At(b)'
      BY <1>1, <1>3, <2>1, Zenon DEF At, Legit
    <2>3. Storing(w)'
      BY <1>l, <1>11, <1>1, <1>2, <1>3, <2>2, ZenonT(40) DEF Storing
    <2>4. HoldInv(w)'
      BY <1>l, <1>11, <1>2, <1>8, <1>9, <2>3, Zenon DEF HoldInv, Walking, Switching
    <2>5. QED
      BY <1>2, <1>6, <1>7, <2>4 DEF IInv
  <1>12. QED
    BY Zenon, <1>10, <1>11


(* The writes of the block and the release of bc.mu *)

\* The block gets its header: its difficulty, its state and its parent are
\* there.
LEMMA PutHeaderInv == ASSUME IInv, NEW w \in Writer, PutHeader(w) PROVE IInv'
  <1> DEFINE b == blk[w]
  <1>1. /\ pc[w] = "store" /\ pc[w] \in Held /\ "txs" \in Held
        /\ header' = header \cup {b} /\ td' = td /\ canon' = canon /\ head' = head /\ cur' = cur
        /\ state' = state /\ blk' = blk /\ mu' = mu /\ prev' = prev /\ adopt' = adopt
        /\ pc' = [pc EXCEPT ![w] = "txs"]
    BY Zenon DEF PutHeader, Goto, Held
  <1>2. /\ LockInv' /\ FreeInv' /\ pc'[w] = "txs"
        /\ HoldInv(w)' => \A v \in Writer : mu' = v => HoldInv(v)'
    BY Zenon, <1>1, HeldStep
  <1>3. /\ b \in Block \ {Genesis} /\ b \notin header /\ header \subseteq Block
        /\ Parent[b] \in header /\ Locked(w) /\ Chosen(w) /\ Storing(w)
        /\ CalcDifficulty(b) \in Nat \ {0}
    BY <1>1, Holder, TreeFacts, Zenon DEF HoldInv, Locked
  <1>4. TypeOK'
    BY <1>1, <1>3 DEF PutHeader, Goto, IInv, TypeOK, walk
  <1>5. td[b] # NoTd /\ Root[b] \in state /\ td[b] = td[Parent[b]] + CalcDifficulty(b)
    <2>1. td[Parent[b]] \in Nat
      BY <1>3, Zenon DEF IInv, TypeOK, DataInv, StoredComplete
    <2>2. QED
      BY <1>1, <1>3, <2>1 DEF Locked, NoTd
  <1>6. DataInv'
    BY <1>1, <1>3, <1>5, Zenon DEF IInv, DataInv, StoredComplete
  <1>7. HoldInv(w)'
    <2>1. Locked(w)'
      BY <1>1, <1>2, <1>3, Zenon DEF Locked, Le
    <2>2. Chosen(w)'
      BY <1>1, <1>2, <1>3, Zenon DEF Chosen, Le
    <2>3. At(b) => At(b)'
      BY <1>1, ChainMono, Zenon DEF At, Legit
    <2>4. At(prev) => At(prev)'
      BY <1>1, ChainMono, Zenon DEF At, Legit
    <2>5. Storing(w)'
      BY <1>1, <1>2, <1>3, <2>3, <2>4, Zenon DEF Storing
    <2>6. QED
      BY <2>1, <2>2, <2>5, <1>2, Zenon DEF HoldInv, Walking, Switching
  <1>8. QED
    BY <1>2, <1>4, <1>6, <1>7, Zenon DEF IInv

\* Steps that change no variable of the invariant but the label.
LEMMA PutTransactionsInv == ASSUME IInv, NEW w \in Writer, PutTransactions(w) PROVE IInv'
  <1>1. /\ pc[w] = "txs" /\ pc[w] \in Held /\ "receipts" \in Held
        /\ header' = header /\ td' = td /\ canon' = canon /\ head' = head /\ cur' = cur
        /\ state' = state /\ blk' = blk /\ mu' = mu /\ prev' = prev /\ adopt' = adopt
        /\ pc' = [pc EXCEPT ![w] = "receipts"]
    BY Zenon DEF PutTransactions, Goto, Held
  <1>2. /\ LockInv' /\ FreeInv' /\ pc'[w] = "receipts"
        /\ HoldInv(w)' => \A v \in Writer : mu' = v => HoldInv(v)'
    BY Zenon, <1>1, HeldStep
  <1>3. Locked(w) /\ Chosen(w) /\ Storing(w) /\ blk[w] \in Block
    BY <1>1, Holder, Zenon DEF HoldInv
  <1>4. TypeOK'
    BY <1>1, <1>3, Zenon DEF PutTransactions, Goto, IInv, TypeOK, walk
  <1>5. DataInv'
    BY <1>1, Zenon DEF IInv, DataInv, StoredComplete
  <1>6. HoldInv(w)'
    <2>1. Locked(w)' /\ Chosen(w)'
      BY <1>1, <1>2, <1>3, Zenon DEF Locked, Chosen, Le
    <2>2. Storing(w)'
      BY <1>1, <1>2, <1>3, Zenon DEF Storing, At, Legit
    <2>3. QED
      BY <2>1, <2>2, <1>2, Zenon DEF HoldInv, Walking, Switching
  <1>7. QED
    BY <1>2, <1>4, <1>5, <1>6, Zenon DEF IInv

\* An extension of the head enters the switch with a chain of one block.
LEMMA PutReceiptsInv == ASSUME IInv, NEW w \in Writer, PutReceipts(w) PROVE IInv'
  <1> DEFINE b   == blk[w]
             ext == adopt = TRUE /\ Parent[b] = prev
             l   == IF ext THEN "canon" ELSE "release"
  <1>1. /\ pc[w] = "receipts" /\ pc[w] \in Held /\ l \in Held
        /\ header' = header /\ td' = td /\ canon' = canon /\ head' = head /\ cur' = cur
        /\ state' = state /\ blk' = blk /\ mu' = mu /\ prev' = prev /\ adopt' = adopt
        /\ pc' = [pc EXCEPT ![w] = l]
        /\ ext => newChain' = <<b>>
        /\ ~ext => newChain' = newChain
    BY Zenon DEF PutReceipts, Goto, Held
  <1>2. /\ LockInv' /\ FreeInv' /\ pc'[w] = l
        /\ HoldInv(w)' => \A v \in Writer : mu' = v => HoldInv(v)'
    BY Zenon, <1>1, HeldStep
  <1>3. /\ Locked(w) /\ Chosen(w) /\ Storing(w) /\ b \in Block \ {Genesis}
        /\ adopt \in BOOLEAN /\ b \in header
    BY <1>1, Holder, Zenon DEF HoldInv, IInv, TypeOK, Locked
  <1>4. TypeOK'
    <2>1. newChain' \in Seq(Block)
      <3>1. newChain \in Seq(Block) /\ <<b>> \in Seq(Block)
        BY <1>3 DEF IInv, TypeOK
      <3>2. QED
        BY Zenon, <3>1, <1>1
    <2>2. receipts' \subseteq Block /\ txs' = txs /\ status' = status
          /\ oldBlock' = oldBlock /\ newBlock' = newBlock
      BY <1>3, Zenon DEF PutReceipts, IInv, TypeOK
    <2>3. pc' \in [Writer -> {"idle", "ready", "commit", "choose", "walk", "canon", "head",
                             "store", "txs", "receipts", "release", "post"}]
      BY <1>1, Zenon DEF IInv, TypeOK
    <2>4. QED
      BY <1>1, <2>1, <2>2, <2>3, Zenon DEF IInv, TypeOK
  <1>5. DataInv'
    BY <1>1, Zenon DEF IInv, DataInv, StoredComplete
  <1>6. Locked(w)' /\ Chosen(w)'
    BY <1>1, <1>2, <1>3 DEF Locked, Chosen, Le
  <1>7. CASE ext
    <2>1. Legit(prev)
      BY <1>7, <1>1, <1>3, Zenon DEF Storing, At
    <2>2. Len(newChain') = 1 /\ newChain'[1] = b /\ Last' = b
      <3>1. newChain' = <<b>>
        BY Zenon, <1>7, <1>1
      <3>2. QED
        BY <3>1, Zenon DEF Last
    <2>3. Linked(b, Parent[Last])'
      BY <2>2, <1>1, <1>3 DEF Linked, Last
    <2>4. Legit(Parent[Last])'
      BY <2>1, <2>2, <1>7, <1>1, Zenon DEF Legit
    <2>5. Switching(w)'
      BY <2>2, <2>3, <2>4, <1>7, <1>1, <1>2, <1>3 DEF Switching
    <2>6. HoldInv(w)'
      BY <2>5, <1>6, <1>7, <1>2, Zenon DEF HoldInv, Walking, Storing
    <2>7. QED
      BY <2>6, <1>2, <1>4, <1>5, Zenon DEF IInv
  <1>8. CASE ~ext
    <2>1. Storing(w)'
      BY <1>8, <1>1, <1>2, <1>3, Zenon DEF Storing, At, Legit
    <2>2. HoldInv(w)'
      BY <2>1, <1>6, <1>8, <1>2, Zenon DEF HoldInv, Walking, Switching
    <2>3. QED
      BY <2>2, <1>2, <1>4, <1>5 DEF IInv
  <1>9. QED
    BY Zenon, <1>7, <1>8

\* Le is transitive, so the new head is not beaten by what the old one was
\* not beaten by.
LEMMA LeTrans ==
    ASSUME TypeOK, NEW c \in Block, NEW d \in Block, NEW e \in Block, Le(c, d), Le(d, e)
    PROVE  Le(c, e)
  <1>1. /\ td[c] \in Int /\ td[d] \in Int /\ td[e] \in Int
        /\ Height[c] \in Nat /\ Height[d] \in Nat /\ Height[e] \in Nat
    BY TreeFacts DEF TypeOK, NoTd
  <1>2. QED
    BY <1>1 DEF Le

\* A block is no better than itself.
LEMMA LeRefl == ASSUME TypeOK, NEW c \in Block PROVE Le(c, c)
  <1>1. td[c] \in Int /\ Height[c] \in Nat
    BY TreeFacts DEF TypeOK, NoTd
  <1>2. QED
    BY <1>1 DEF Le

\* The outcome of a write: the better of the block and the old head.
LEMMA Outcome ==
    ASSUME IInv, NEW w \in Writer, pc[w] = "release"
    PROVE  /\ cur \in header /\ At(cur) /\ blk[w] \in header
           /\ \A c \in header : Le(c, cur)
           /\ cur = IF adopt = TRUE THEN blk[w] ELSE prev
  <1> DEFINE b == blk[w]
  <1>1. pc[w] \in Held
    BY Zenon DEF Held
  <1>2. /\ Locked(w) /\ Chosen(w) /\ Storing(w) /\ b \in Block /\ header \subseteq Block
        /\ adopt \in BOOLEAN /\ TypeOK
    BY <1>1, Holder, Zenon DEF HoldInv, IInv, TypeOK
  <1>3. b \in header /\ prev \in header /\ \A c \in header \ {b} : Le(c, prev)
    BY <1>2, Zenon DEF Locked
  <1>4. CASE adopt = TRUE
    <2>1. At(b) /\ Le(prev, b)
      BY <1>4, <1>2, Zenon DEF Storing, Chosen
    <2>2. \A c \in header : Le(c, b)
      BY Zenon, <2>1, <1>2, <1>3, LeTrans, LeRefl
    <2>3. QED
      BY <1>3, <1>4, <2>1, <2>2, Zenon DEF At
  <1>5. CASE adopt = FALSE
    <2>1. At(prev) /\ Le(b, prev)
      BY <1>5, <1>2, Zenon DEF Storing, Chosen
    <2>2. QED
      BY <1>3, <1>5, <2>1, Zenon DEF At
  <1>6. QED
    BY Zenon, <1>2, <1>4, <1>5

\* Giving the lock back, with everything written, keeps the invariant.
LEMMA ReleaseInv == ASSUME IInv, NEW w \in Writer, Release(w) PROVE IInv'
  <1>1. /\ pc[w] = "release" /\ pc[w] \in Held
        /\ header' = header /\ td' = td /\ canon' = canon /\ head' = head /\ cur' = cur
        /\ state' = state /\ blk' = blk /\ mu' = None
        /\ pc' = [pc EXCEPT ![w] = "post"]
    BY Zenon DEF Release, Goto, Held, disk
  <1>2. pc'[w] = "post" /\ \A v \in Writer \ {w} : pc'[v] = pc[v] /\ pc[v] \notin Held
    BY <1>1, Holder, Zenon DEF IInv, TypeOK
  <1>3. TypeOK'
    <2>1. status' \in [Writer -> BOOLEAN]
      <3>1. status \in [Writer -> BOOLEAN]
        BY Zenon DEF IInv, TypeOK
      <3>2. QED
        BY <3>1, Zenon DEF Release
    <2>2. QED
      BY <2>1, <1>1, Zenon DEF Release, IInv, TypeOK, disk, walk
  <1>4. LockInv'
    BY <1>1, <1>2, BlockTree DEF IInv, LockInv, Held
  <1>5. DataInv'
    BY <1>1, Zenon DEF IInv, DataInv, StoredComplete
  <1>6. FreeInv'
    BY <1>1, Outcome, Zenon DEF FreeInv, At, Legit, Le
  <1>7. \A v \in Writer : mu' # v
    BY Zenon, <1>1, BlockTree
  <1>8. QED
    BY <1>3, <1>4, <1>5, <1>6, <1>7, Zenon DEF IInv

-----------------------------------------------------------------------------
\* IInv is an invariant, one case for each action.
THEOREM Invariance == Spec => []IInv
  <1>1. Init => IInv
    BY Zenon, InitInv
  <1>2. IInv /\ [Next]_vars => IInv'
    <2> SUFFICES ASSUME IInv, [Next]_vars PROVE IInv'
      BY Zenon
    <2>1. ASSUME NEW b \in Block, ValidateAndExec(b) \/ Seal(b) PROVE IInv'
      BY Zenon, <2>1, ValidateAndExecInv, SealInv
    <2>2. ASSUME NEW w \in Writer, Write(w) PROVE IInv'
      BY Zenon, <2>2, WriteTdInv, CommitStateInv, ChooseInv, ReorgWalkInv, ReorgFoundInv,
         PutLegitimateHashInv, PutHeadBlockHashInv, PutHeaderInv, PutTransactionsInv,
         PutReceiptsInv, ReleaseInv, PostEventInv DEF Write
    <2>3. CASE UNCHANGED vars
      BY Zenon, <2>3, StutterInv
    <2>4. QED
      BY <2>1, <2>2, <2>3, Zenon DEF Next
  <1>3. QED
    BY <1>1, <1>2, PTL DEF Spec

-----------------------------------------------------------------------------
(* What follows from IInv *)

\* The variables keep their types.
THEOREM TypeCorrect == Spec => []TypeOK
  <1>1. IInv => TypeOK
    BY Zenon DEF IInv
  <1>2. QED
    BY <1>1, Invariance, PTL

\* A stored block always has its difficulty, its state and its parent.
THEOREM StoredCompleteCorrect == Spec => []StoredComplete
  <1>1. IInv => StoredComplete
    BY Zenon DEF IInv, DataInv
  <1>2. QED
    BY <1>1, Invariance, PTL

\* The legitimate hashes are the chain of the head whenever bc.mu is free.
THEOREM LegitimateChainCorrect == Spec => []LegitimateChain
  <1>1. IInv => LegitimateChain
    <2> SUFFICES ASSUME IInv, mu = None PROVE
          /\ head = cur /\ canon[0] = Genesis /\ canon[Height[cur]] = cur
          /\ \A h \in 1 .. Height[cur] :
                canon[h] \in header \ {Genesis} /\ canon[h - 1] = Parent[canon[h]]
      BY Zenon DEF LegitimateChain
    <2>1. /\ cur \in header /\ header \subseteq Block /\ head = cur
          /\ ChainIn(canon, header \cup {cur}, cur) /\ Height[cur] \in Nat
      BY TreeFacts, Zenon DEF IInv, FreeInv, TypeOK, At, Legit
    <2>2. \A h \in 0 .. Height[cur] : canon[h] \in header /\ Height[canon[h]] = h
      BY <2>1, Zenon DEF ChainIn
    <2>3. canon[0] = Genesis
      <3>1. canon[0] \in Block /\ Height[canon[0]] = 0
        BY <2>1, <2>2
      <3>2. QED
        BY Zenon, <3>1, TreeFacts
    <2>4. \A h \in 1 .. Height[cur] : canon[h] \in header \ {Genesis}
      BY <2>1, <2>2, BlockTree
    <2>5. QED
      BY <2>1, <2>3, <2>4, Zenon DEF ChainIn
  <1>2. QED
    BY <1>1, Invariance, PTL

\* No stored block beats the head whenever bc.mu is free.
THEOREM HeadHeaviestCorrect == Spec => []HeadHeaviest
  <1>1. IInv => HeadHeaviest
    <2> SUFFICES ASSUME IInv, mu = None, NEW b \in header
                 PROVE td[b] <= td[cur] /\ (td[b] = td[cur] => Height[b] >= Height[cur])
      BY Zenon DEF HeadHeaviest
    <2>1. Le(b, cur) /\ td[b] \in Int /\ td[cur] \in Int
      BY DEF IInv, FreeInv, TypeOK, NoTd
    <2>2. QED
      BY <2>1 DEF Le
  <1>2. QED
    BY <1>1, Invariance, PTL

\* A lock-free reader of bc.currentBlock always gets a usable block.
THEOREM CurrentBlockUsableCorrect == Spec => []CurrentBlockUsable
  <1>1. IInv => CurrentBlockUsable
    <2> SUFFICES ASSUME IInv PROVE CurrentBlockUsable
      BY Zenon
    <2>1. CASE cur \in header
      BY <2>1, Zenon DEF IInv, DataInv, StoredComplete, CurrentBlockUsable
    <2>2. CASE cur \notin header
      <3>1. PICK w \in Writer : mu = w
        BY <2>2, Zenon DEF IInv, FreeInv, TypeOK
      <3>2. pc[w] \in Held /\ mu # None
        BY <3>1, BlockTree, Zenon DEF IInv, LockInv
      <3>3. Locked(w) /\ blk[w] \in Block \ {Genesis} /\ Parent[blk[w]] \in header
        BY <3>2, Holder, Zenon DEF HoldInv
      <3>4. cur = blk[w] /\ pc[w] # "commit" /\ Root[cur] \in state
        BY <2>2, <3>3, Zenon DEF Locked, At
      <3>5. td[Parent[cur]] \in Nat /\ CalcDifficulty(cur) \in Nat
        BY <3>3, <3>4, TreeFacts DEF IInv, DataInv, StoredComplete, TypeOK
      <3>6. td[cur] # NoTd
        BY <3>3, <3>4, <3>5 DEF Locked, NoTd
      <3>7. QED
        BY <3>1, <3>2, <3>3, <3>4, <3>6, Zenon DEF CurrentBlockUsable
    <2>3. QED
      BY Zenon, <2>1, <2>2
  <1>2. QED
    BY <1>1, Invariance, PTL
-----------------------------------------------------------------------------
\* Where the published head and blocks can change: only when a writer
\* releases bc.mu.
LEMMA PublishedStable ==
    ASSUME IInv, [Next]_vars, \A w \in Writer : ~Release(w)
    PROVE  /\ PublishedHead' = PublishedHead
           /\ PublishedBlocks' = PublishedBlocks
           /\ \A c \in PublishedBlocks : td'[c] = td[c]
  <1> USE DEF PublishedHead, PublishedBlocks
  <1>1. ASSUME NEW b \in Block, ValidateAndExec(b) \/ Seal(b)
        PROVE  /\ header' = header /\ td' = td /\ cur' = cur /\ mu' = mu /\ prev' = prev
               /\ \A w \in Writer : pc[w] \in Held => blk'[w] = blk[w]
    BY <1>1, Zenon DEF ValidateAndExec, Seal, disk, Held, IInv, TypeOK
  <1>2. ASSUME NEW w \in Writer, WriteTd(w)
        PROVE  /\ mu = None /\ mu' = w /\ prev' = cur /\ header' = header /\ blk' = blk
               /\ blk[w] \notin header /\ \A c \in header : td'[c] = td[c]
    BY <1>2 DEF WriteTd, IInv, LockInv, TypeOK
  <1>3. ASSUME NEW w \in Writer, Write(w), ~WriteTd(w), ~Release(w), ~PostEvent(w)
        PROVE  /\ mu = w /\ mu' = mu /\ prev' = prev /\ blk' = blk /\ td' = td
               /\ header' \ {blk[w]} = header \ {blk[w]}
    <2>1. pc[w] \in Held
      BY <1>3, Zenon DEF Write, Held, CommitState, Choose, ReorgWalk, ReorgFound, PutLegitimateHash,
                  PutHeadBlockHash, PutHeader, PutTransactions, PutReceipts
    <2>2. mu = w
      BY Zenon, <2>1, Holder
    <2>3. QED
      BY <1>3, <2>2, Zenon DEF Write, CommitState, Choose, ReorgWalk, ReorgFound, PutLegitimateHash,
                  PutHeadBlockHash, PutHeader, PutTransactions, PutReceipts, disk
  <1>4. ASSUME NEW w \in Writer, PostEvent(w)
        PROVE  /\ header' = header /\ td' = td /\ cur' = cur /\ mu' = mu /\ prev' = prev
               /\ \A v \in Writer : pc[v] \in Held => blk'[v] = blk[v]
    BY <1>4, Zenon DEF PostEvent, disk, Held, IInv, TypeOK
  <1>5. mu # None => mu \in Writer /\ pc[mu] \in Held
    BY Zenon DEF IInv, TypeOK, LockInv
  <1>6. None \notin Writer
    BY Zenon, BlockTree
  <1>7. ASSUME NEW b \in Block, ValidateAndExec(b) \/ Seal(b) PROVE
           /\ PublishedHead' = PublishedHead
           /\ PublishedBlocks' = PublishedBlocks
           /\ \A c \in PublishedBlocks : td'[c] = td[c]
    BY Zenon, <1>1, <1>5, <1>7
  <1>8. ASSUME NEW w \in Writer, Write(w) PROVE
           /\ PublishedHead' = PublishedHead
           /\ PublishedBlocks' = PublishedBlocks
           /\ \A c \in PublishedBlocks : td'[c] = td[c]
    <2>1. CASE WriteTd(w)
      BY Zenon, <1>2, <1>6, <2>1
    <2>2. CASE PostEvent(w)
      BY ZenonT(40), <1>4, <1>5, <2>2
    <2>3. CASE ~WriteTd(w) /\ ~PostEvent(w)
      BY Zenon, <1>3, <1>6, <1>8, <2>3
    <2>4. QED
      BY Zenon, <2>1, <2>2, <2>3
  <1>9. CASE UNCHANGED vars
    BY <1>9, Zenon DEF vars, disk
  <1>10. QED
    BY <1>7, <1>8, <1>9, Zenon DEF Next

\* The published head is a published block.
LEMMA PublishedIn == ASSUME IInv PROVE PublishedHead \in PublishedBlocks /\ PublishedBlocks \subseteq Block
  <1>1. CASE mu = None
    BY <1>1, Zenon DEF IInv, FreeInv, TypeOK, PublishedHead, PublishedBlocks
  <1>2. CASE mu # None
    <2>1. mu \in Writer /\ Locked(mu)
      BY <1>2, Zenon DEF IInv, TypeOK, HoldInv
    <2>2. QED
      BY <1>2, <2>1, Zenon DEF Locked, IInv, TypeOK, PublishedHead, PublishedBlocks
  <1>3. QED
    BY Zenon, <1>1, <1>2

\* What a release publishes.
LEMMA PublishedRelease ==
    ASSUME IInv, NEW w \in Writer, Release(w)
    PROVE  /\ PublishedHead = prev /\ PublishedBlocks = header \ {blk[w]}
           /\ PublishedHead' = cur /\ PublishedBlocks' = header /\ td' = td
  <1>1. pc[w] = "release" /\ pc[w] \in Held
    BY Zenon DEF Release, Held
  <1>2. mu = w /\ mu # None
    BY Zenon, <1>1, Holder
  <1>3. QED
    BY <1>2, Zenon DEF Release, disk, PublishedHead, PublishedBlocks

\* The published head never gets lighter.
THEOREM HeadNeverLighterCorrect == Spec => HeadNeverLighter
  <1>1. IInv /\ [Next]_vars => td'[PublishedHead'] >= td[PublishedHead]
    <2> SUFFICES ASSUME IInv, [Next]_vars PROVE td'[PublishedHead'] >= td[PublishedHead]
      BY Zenon
    <2>1. CASE \A w \in Writer : ~Release(w)
      <3>1. td[PublishedHead] \in Int
        BY PublishedIn DEF IInv, TypeOK, NoTd
      <3>2. QED
        BY <2>1, <3>1, PublishedStable, PublishedIn
    <2>2. ASSUME NEW w \in Writer, Release(w) PROVE td'[PublishedHead'] >= td[PublishedHead]
      <3>1. pc[w] = "release" /\ prev \in Block /\ cur \in Block
        BY <2>2, Zenon DEF Release, IInv, TypeOK
      <3>2. prev \in header
        BY <3>1, Holder, Zenon DEF Held, HoldInv, Locked
      <3>3. Le(prev, cur)
        BY Zenon, <3>1, <3>2, Outcome
      <3>4. td[prev] \in Int /\ td[cur] \in Int
        BY <3>1 DEF IInv, TypeOK, NoTd
      <3>5. QED
        BY <2>2, <3>3, <3>4, PublishedRelease DEF Le
    <2>3. QED
      BY Zenon, <2>1, <2>2
  <1>2. QED
    BY <1>1, Invariance, PTL DEF Spec, HeadNeverLighter

\* The abstract weights.
Weight == [b \in Block |-> IF b \in PublishedBlocks THEN td[b] ELSE NoTd]

\* The initial states map to initial states of the fork choice.
LEMMA FCInit == ASSUME Init PROVE FC!Init
  <1>1. PublishedBlocks = {Genesis} /\ PublishedHead = Genesis
    BY Zenon DEF Init, PublishedBlocks, PublishedHead
  <1>2. Weight = [b \in Block |-> IF b = Genesis THEN 0 ELSE NoTd]
    BY <1>1, Zenon DEF Init, Weight
  <1>3. QED
    BY <1>1, <1>2, Zenon DEF FC!Init, Weight

\* A release is the abstract acceptance of the block that was written.
LEMMA FCRelease ==
    ASSUME IInv, NEW w \in Writer, NEW b, b = blk[w], Release(w)
    PROVE  FC!Accept(b)
  <1> DEFINE D == [c \in Block |-> CalcDifficulty(c)]
             x == Weight[Parent[b]] + D[b]
  <1>1. pc[w] = "release" /\ pc[w] \in Held
    BY Zenon DEF Release, Held
  <1>2. /\ b \in Block \ {Genesis} /\ Parent[b] \in header /\ Locked(w) /\ Chosen(w)
        /\ adopt \in BOOLEAN /\ header \subseteq Block /\ prev \in header \ {b}
    BY <1>1, Holder, Zenon DEF HoldInv, Locked, IInv, TypeOK
  <1>3. /\ b \in header /\ cur = (IF adopt = TRUE THEN b ELSE prev)
    BY Zenon, <1>1, Outcome
  <1>4. /\ PublishedHead = prev /\ PublishedBlocks = header \ {b}
        /\ PublishedHead' = cur /\ PublishedBlocks' = header /\ td' = td
    BY Zenon, PublishedRelease
  <1>5. Parent[b] # b /\ Parent[b] \in PublishedBlocks /\ Parent[b] \in Block
    BY Zenon, <1>2, <1>4, TreeFacts
  <1>6. x = td[b] /\ Weight[prev] = td[prev]
    BY <1>2, <1>4, <1>5, Zenon DEF Weight, Locked
  <1>7. Weight' = [Weight EXCEPT ![b] = x]
    <2>1. Weight' = [c \in Block |-> IF c \in header THEN td[c] ELSE NoTd]
      BY <1>4, Zenon DEF Weight
    <2>2. Weight = [c \in Block |-> IF c \in header \ {b} THEN td[c] ELSE NoTd]
      BY <1>4, Zenon DEF Weight
    <2>3. QED
      BY Zenon, <2>1, <2>2, <1>2, <1>3, <1>6
  <1>8. /\ td[b] \in Int /\ td[prev] \in Int /\ Height[b] \in Nat /\ Height[prev] \in Nat
    BY <1>2, TreeFacts DEF IInv, TypeOK, NoTd
  <1>9. \/ cur = b /\ (FC!Beats(b, x) \/ FC!Ties(b, x))
        \/ cur = prev /\ ~FC!Beats(b, x)
    <2>1. CASE adopt = TRUE
      <3>1. Le(prev, b) /\ cur = b
        BY <2>1, <1>1, <1>2, <1>3, Zenon DEF Chosen
      <3>2. QED
        BY <3>1, <1>4, <1>6, <1>8 DEF Le, FC!Beats, FC!Ties, Weight
    <2>2. CASE adopt = FALSE
      <3>1. Le(b, prev) /\ cur = prev
        BY <2>2, <1>1, <1>2, <1>3, Zenon DEF Chosen
      <3>2. QED
        BY <3>1, <1>4, <1>6, <1>8 DEF Le, FC!Beats, Weight
    <2>3. QED
      BY ZenonT(40), <2>1, <2>2, <1>2
  <1>10. b \notin PublishedBlocks \cup {Genesis} /\ PublishedBlocks' = PublishedBlocks \cup {b}
    BY Zenon, <1>2, <1>3, <1>4
  <1>11. \/ PublishedHead' = b /\ (FC!Beats(b, x) \/ FC!Ties(b, x))
         \/ PublishedHead' = PublishedHead /\ ~FC!Beats(b, x)
    BY <1>4, <1>9, Zenon
  <1>12. QED
    BY <1>5, <1>7, <1>10, <1>11, Zenon DEF FC!Accept, Weight

\* Blockchain implements ForkChoice.
THEOREM Refinement == Spec => ImplementsForkChoice
  <1>1. Init => FC!Init
    BY Zenon, FCInit
  <1>2. IInv /\ [Next]_vars => [FC!Next]_FC!vars
    <2> SUFFICES ASSUME IInv, [Next]_vars PROVE [FC!Next]_FC!vars
      BY Zenon
    <2>1. CASE \A w \in Writer : ~Release(w)
      <3>1. /\ PublishedHead' = PublishedHead /\ PublishedBlocks' = PublishedBlocks
            /\ \A c \in PublishedBlocks : td'[c] = td[c]
        BY Zenon, <2>1, PublishedStable
      <3>2. Weight' = Weight
        BY <3>1, Zenon DEF Weight
      <3>3. QED
        BY <3>1, <3>2, Zenon DEF FC!vars, Weight
    <2>2. ASSUME NEW w \in Writer, Release(w) PROVE FC!Next
      <3>1. blk[w] \in Block
        BY <2>2, Holder, Zenon DEF Release, Held
      <3>2. PICK b \in Block : b = blk[w]
        BY Zenon, <3>1
      <3>3. FC!Accept(b)
        BY Zenon, <2>2, <3>2, FCRelease
      <3>4. QED
        BY <3>3, Zenon DEF FC!Next
    <2>3. QED
      BY Zenon, <2>1, <2>2
  <1>3. QED
    BY <1>1, <1>2, Invariance, PTL DEF Spec, ImplementsForkChoice, FC!Spec
=============================================================================
