--------------------------- MODULE BlockchainInv ----------------------------
(***************************************************************************)
(* The inductive invariant IInv of Blockchain.  It says of each label of   *)
(* WriteBlockWithState and reorg what has been written when a writer is    *)
(* there.  This module has the facts about block trees and chains, the     *)
(* initial states, and the steps up to the fork choice; BlockchainProofs   *)
(* has the steps of reorg and the rest, and what follows.                  *)
(***************************************************************************)
EXTENDS Blockchain, TLAPS
Held == {"commit", "choose", "walk", "canon", "head", "store", "txs", "receipts", "release"}

\* Block c does not beat block d.
Le(c, d) == td[c] < td[d] \/ (td[c] = td[d] /\ Height[c] >= Height[d])

\* cn is, up to the height of c, the chain from the genesis to c, within S.
ChainIn(cn, S, c) ==
    /\ cn[Height[c]] = c
    /\ \A h \in 0 .. Height[c] : cn[h] \in S /\ Height[cn[h]] = h
    /\ \A h \in 1 .. Height[c] : cn[h - 1] = Parent[cn[h]]

\* The legitimate hashes up to the height of c are the chain that ends in c.
Legit(c) == ChainIn(canon, header \cup {c}, c)

\* c is the head, in memory and in the database, with its legitimate chain.
At(c) == cur = c /\ head = c /\ Legit(c)

\* newChain runs from b down, and n comes next.
Linked(b, n) ==
    /\ Len(newChain) = 0 => n = b
    /\ Len(newChain) > 0 => /\ newChain[1] = b
                            /\ n = Parent[newChain[Len(newChain)]]
    /\ \A i \in 1 .. Len(newChain) : newChain[i] \in (header \cup {b}) \ {Genesis}
    /\ \A i \in 1 .. Len(newChain) - 1 : newChain[i + 1] = Parent[newChain[i]]

Last == newChain[Len(newChain)]

\* bc.mu excludes, and the two writers never write the same block.
LockInv ==
    \A w \in Writer :
        /\ pc[w] \in Held <=> mu = w
        /\ pc[w] # "idle" => /\ blk[w] \in Block \ {Genesis}
                             /\ Parent[blk[w]] \in header
                             /\ blk[w] \in Own <=> w = "mine"
        /\ pc[w] = "ready" => blk[w] \notin header

\* The database: StoredComplete, and the genesis.
DataInv ==
    /\ StoredComplete
    /\ Genesis \in header
    /\ td[Genesis] = 0

\* While nobody writes.
FreeInv ==
    mu = None => /\ cur \in header
                 /\ At(cur)
                 /\ \A c \in header : Le(c, cur)

\* What writer w has done, from the lock on.
Locked(w) ==
    /\ prev \in header \ {blk[w]}
    /\ cur \in header \cup {blk[w]}
    /\ \A c \in header \ {blk[w]} : Le(c, prev)
    /\ td[blk[w]] = td[Parent[blk[w]]] + CalcDifficulty(blk[w])
    /\ pc[w] # "commit" => Root[blk[w]] \in state
    /\ pc[w] \in {"commit", "choose"} => At(prev)
    /\ pc[w] \in {"commit", "choose", "walk", "store"} => blk[w] \notin header
    /\ pc[w] \in {"txs", "receipts", "release"} => blk[w] \in header

\* The fork choice, once made.
Chosen(w) ==
    pc[w] \notin {"commit", "choose"} =>
        /\ adopt = TRUE => Le(prev, blk[w])
        /\ adopt = FALSE => Le(blk[w], prev)

\* reorg's search: old blocks are legitimate, the new ones are linked.
Walking(w) ==
    pc[w] = "walk" =>
        /\ adopt = TRUE /\ Parent[blk[w]] # prev /\ At(prev)
        /\ Linked(blk[w], newBlock)
        /\ newBlock \in header \cup {blk[w]}
        /\ oldBlock \in header
        /\ Height[oldBlock] <= Height[prev]
        /\ canon[Height[oldBlock]] = oldBlock

\* The legitimate hashes are right up to the next block of the new chain.
Switching(w) ==
    pc[w] \in {"canon", "head"} =>
        /\ adopt = TRUE /\ Len(newChain) > 0
        /\ Linked(blk[w], Parent[Last])
        /\ Parent[blk[w]] = prev => Len(newChain) = 1
        /\ blk[w] \in header <=> Parent[blk[w]] = prev
        /\ pc[w] = "canon" => Legit(Parent[Last])
        /\ pc[w] = "head" => Legit(Last)

\* Where the head is while the block is stored, and in the end.
Storing(w) ==
    LET reorged == adopt = TRUE /\ Parent[blk[w]] # prev
    IN  /\ pc[w] \in {"store", "txs", "receipts"} =>
              (reorged => At(blk[w])) /\ (~reorged => At(prev))
        /\ pc[w] = "release" =>
              (adopt = TRUE => At(blk[w])) /\ (adopt = FALSE => At(prev))

HoldInv(w) == Locked(w) /\ Chosen(w) /\ Walking(w) /\ Switching(w) /\ Storing(w)

IInv == /\ TypeOK
        /\ LockInv
        /\ DataInv
        /\ FreeInv
        /\ \A w \in Writer : mu = w => HoldInv(w)
-----------------------------------------------------------------------------
\* The heights of a block and its parent.
LEMMA TreeFacts ==
    ASSUME NEW b \in Block
    PROVE  /\ Height[b] \in Nat
           /\ Height[b] \in Heights
           /\ CalcDifficulty(b) \in Nat \ {0}
           /\ Height[b] = 0 <=> b = Genesis
           /\ b # Genesis => /\ Parent[b] \in Block
                             /\ Parent[b] # b
                             /\ Height[b] = Height[Parent[b]] + 1
  BY BlockTree DEF ValidateHeader, CalcDifficulty, Heights

\* A chain within a set of blocks is one within every larger set.
LEMMA ChainMono ==
    ASSUME NEW cn, NEW S, NEW T, NEW c, ChainIn(cn, S, c), S \subseteq T
    PROVE  ChainIn(cn, T, c)
  BY Zenon DEF ChainIn

\* A chain ends at every one of its blocks.
LEMMA ChainBelow ==
    ASSUME NEW cn, NEW S \in SUBSET Block, NEW c \in Block, ChainIn(cn, S, c),
           NEW d \in Block, cn[Height[d]] = d, Height[d] <= Height[c]
    PROVE  ChainIn(cn, S, d)
  <1>1. Height[d] \in Nat /\ Height[c] \in Nat
    BY Zenon, TreeFacts
  <1>2. QED
    BY <1>1 DEF ChainIn

\* Writing x at its height extends a chain that ends in x's parent.
LEMMA ChainExtend ==
    ASSUME NEW cn \in [Heights -> Block \cup {None}], NEW S \in SUBSET Block,
           NEW x \in Block \ {Genesis}, ChainIn(cn, S, Parent[x])
    PROVE  ChainIn([cn EXCEPT ![Height[x]] = x], S \cup {x}, x)
  <1> DEFINE cm == [cn EXCEPT ![Height[x]] = x]
             p  == Parent[x]
  <1>1. /\ Height[x] \in Heights /\ Height[x] \in Nat
        /\ p \in Block /\ Height[p] \in Nat /\ Height[x] = Height[p] + 1
    BY Zenon, TreeFacts
  <1>2. cm[Height[x]] = x
    BY Zenon, <1>1
  <1>3. \A h \in 0 .. Height[p] : cm[h] = cn[h]
    <2> SUFFICES ASSUME NEW h \in 0 .. Height[p] PROVE cm[h] = cn[h]
      BY Zenon
    <2>1. Height[cn[h]] = h /\ cn[h] \in Block
      BY <1>1, Zenon DEF ChainIn
    <2>2. h \in Heights /\ h # Height[x]
      BY <1>1, <2>1, TreeFacts
    <2>3. QED
      BY Zenon, <2>2
  <1>4. cn[Height[p]] = p
    BY Zenon DEF ChainIn
  <1> HIDE DEF cm
  <1>5. \A h \in 0 .. Height[x] : cm[h] \in S \cup {x} /\ Height[cm[h]] = h
    BY <1>1, <1>2, <1>3 DEF ChainIn
  <1>6. \A h \in 1 .. Height[x] : cm[h - 1] = Parent[cm[h]]
    <2> SUFFICES ASSUME NEW h \in 1 .. Height[x] PROVE cm[h - 1] = Parent[cm[h]]
      BY Zenon
    <2>1. CASE h = Height[x]
      BY <2>1, <1>1, <1>2, <1>3, <1>4
    <2>2. CASE h # Height[x]
      <3>1. h \in 1 .. Height[p] /\ h - 1 \in 0 .. Height[p] /\ h \in 0 .. Height[p]
        BY <2>2, <1>1
      <3>2. QED
        BY <3>1, <1>3, Zenon DEF ChainIn
    <2>3. QED
      BY Zenon, <2>1, <2>2
  <1>7. QED
    BY <1>2, <1>5, <1>6, Zenon DEF ChainIn, cm

\* A prefix of a sequence.
LEMMA PrefixFacts ==
    ASSUME NEW S, NEW s \in Seq(S), NEW k \in Nat, k < Len(s)
    PROVE  /\ SubSeq(s, 1, k) \in Seq(S)
           /\ Len(SubSeq(s, 1, k)) = k
           /\ \A i \in 1 .. k : SubSeq(s, 1, k)[i] = s[i]
  <1>1. SubSeq(s, 1, k) \in Seq(S)
    OBVIOUS
  <1>2. Len(SubSeq(s, 1, k)) = k
    OBVIOUS
  <1>3. \A i \in 1 .. k : SubSeq(s, 1, k)[i] = s[i]
    OBVIOUS
  <1>4. QED
    BY Zenon, <1>1, <1>2, <1>3

\* HoldInv(v) reads nothing else.
LEMMA HoldStable ==
    ASSUME NEW v \in Writer, HoldInv(v), pc'[v] = pc[v], blk'[v] = blk[v],
           header' = header, td' = td, state' = state, canon' = canon, head' = head,
           cur' = cur, prev' = prev, adopt' = adopt,
           oldBlock' = oldBlock, newBlock' = newBlock, newChain' = newChain
    PROVE  HoldInv(v)'
  <1>1. Locked(v)'
    BY Zenon DEF HoldInv, Locked, At, Legit, Le
  <1>2. Chosen(v)'
    BY Zenon DEF HoldInv, Chosen, Le
  <1>3. Walking(v)'
    BY Zenon DEF HoldInv, Walking, Linked, At, Legit
  <1>4. Switching(v)'
    BY Zenon DEF HoldInv, Switching, Linked, Last, Legit
  <1>5. Storing(v)'
    BY Zenon DEF HoldInv, Storing, At, Legit
  <1>6. QED
    BY <1>1, <1>2, <1>3, <1>4, <1>5, Zenon DEF HoldInv

\* The invariant holds for the database with the genesis block alone.
LEMMA InitInv == Init => IInv
  <1> SUFFICES ASSUME Init PROVE IInv
    BY Zenon
  <1>1. Genesis \in Block /\ Height[Genesis] = 0 /\ 0 \in Heights /\ None \notin Writer
    BY BlockTree, Zenon DEF Heights
  <1>2. TypeOK
    <2>1. td \in [Block -> Nat \cup {NoTd}] /\ newChain \in Seq(Block)
      BY <1>1 DEF Init, NoTd
    <2>2. canon \in [Heights -> Block \cup {None}]
      BY <1>1, Zenon DEF Init
    <2>3. state \subseteq {Root[b] : b \in Block}
      BY <1>1, Zenon DEF Init
    <2>4. QED
      BY <1>1, <2>1, <2>2, <2>3, Zenon DEF Init, TypeOK
  <1>3. LockInv /\ DataInv
    BY <1>1 DEF Init, LockInv, DataInv, StoredComplete, NoTd, Held, Writer
  <1>4. FreeInv
    BY <1>1 DEF Init, FreeInv, At, Legit, ChainIn, Le
  <1>5. \A w \in Writer : mu = w => HoldInv(w)
    BY <1>1, Zenon DEF Init
  <1>6. QED
    BY <1>2, <1>3, <1>4, <1>5, Zenon DEF IInv

\* A writer that has no lock gets a block to write.
LEMMA BeginInv ==
    ASSUME IInv, NEW w \in Writer, NEW b \in Block \ {Genesis},
           pc[w] = "idle", b \in Own <=> w = "mine", b \notin header, Parent[b] \in header,
           pc' = [pc EXCEPT ![w] = "ready"], blk' = [blk EXCEPT ![w] = b],
           UNCHANGED <<disk, cur, mu, prev, adopt, status, walk>>
    PROVE  IInv'
  <1> USE DEF disk, walk
  <1>1. TypeOK'
    BY Zenon DEF IInv, TypeOK
  <1>2. LockInv'
    BY DEF IInv, LockInv, TypeOK, Held
  <1>3. DataInv' /\ FreeInv'
    BY Zenon DEF IInv, DataInv, StoredComplete, FreeInv, At, Legit, Le
  <1>4. ASSUME NEW v \in Writer, mu' = v PROVE HoldInv(v)'
    <2>1. v # w
      BY <1>4, Zenon DEF IInv, LockInv, Held
    <2>2. pc'[v] = pc[v] /\ blk'[v] = blk[v] /\ HoldInv(v)
      BY <1>4, <2>1, Zenon DEF IInv, TypeOK
    <2>3. /\ header' = header /\ td' = td /\ state' = state /\ canon' = canon /\ head' = head
          /\ cur' = cur /\ prev' = prev /\ adopt' = adopt
          /\ oldBlock' = oldBlock /\ newBlock' = newBlock /\ newChain' = newChain
      BY Zenon
    <2>4. QED
      BY Zenon, <2>2, <2>3, HoldStable
  <1>5. QED
    BY <1>1, <1>2, <1>3, <1>4, Zenon DEF IInv

\* Taking up a block (insertChain) keeps the invariant.
LEMMA ValidateAndExecInv == ASSUME IInv, NEW b \in Block, ValidateAndExec(b) PROVE IInv'
  <1>1. b # Genesis /\ b \notin header /\ Parent[b] \in header
    BY Zenon DEF ValidateAndExec, ValidateTxs, HasBlock, HasState, IInv, DataInv, StoredComplete
  <1>2. QED
    BY <1>1, BeginInv, Zenon DEF ValidateAndExec, Goto, Writer

\* Taking up a mined block (generateBlock) keeps the invariant.
LEMMA SealInv == ASSUME IInv, NEW b \in Block, Seal(b) PROVE IInv'
  <1>1. b # Genesis /\ cur \in header
    BY BlockTree, Zenon DEF Seal, IInv, FreeInv
  <1>2. QED
    BY <1>1, BeginInv, Zenon DEF Seal, Goto, Writer

\* Posting the event of a block keeps the invariant.
LEMMA PostEventInv == ASSUME IInv, NEW w \in Writer, PostEvent(w) PROVE IInv'
  <1>1. /\ pc[w] = "post" /\ pc[w] \notin Held
        /\ header' = header /\ td' = td /\ canon' = canon /\ head' = head /\ cur' = cur
        /\ state' = state /\ mu' = mu /\ prev' = prev /\ adopt' = adopt
        /\ oldBlock' = oldBlock /\ newBlock' = newBlock /\ newChain' = newChain
        /\ blk' = [blk EXCEPT ![w] = None]
        /\ pc' = [pc EXCEPT ![w] = "idle"]
    BY Zenon DEF PostEvent, Goto, Held, disk, walk
  <1>2. pc'[w] = "idle" /\ \A v \in Writer \ {w} : pc'[v] = pc[v] /\ blk'[v] = blk[v]
    BY <1>1, Zenon DEF IInv, TypeOK
  <1>3. TypeOK'
    BY <1>1, Zenon DEF PostEvent, IInv, TypeOK, disk, walk
  <1>4. LockInv'
    BY <1>1, <1>2 DEF IInv, LockInv, Held
  <1>5. DataInv' /\ FreeInv'
    BY <1>1, Zenon DEF IInv, DataInv, StoredComplete, FreeInv, At, Legit, Le
  <1>6. ASSUME NEW v \in Writer, mu' = v PROVE HoldInv(v)'
    <2>1. v # w
      BY <1>1, <1>6, Zenon DEF IInv, LockInv
    <2>2. pc'[v] = pc[v] /\ blk'[v] = blk[v] /\ HoldInv(v)
      BY <1>1, <1>2, <1>6, <2>1, Zenon DEF IInv
    <2>3. QED
      BY Zenon, <2>2, <1>1, HoldStable
  <1>7. QED
    BY <1>3, <1>4, <1>5, <1>6, Zenon DEF IInv

\* The invariant depends on the variables alone.
LEMMA StutterInv == ASSUME IInv, UNCHANGED vars PROVE IInv'
  <1> USE DEF vars, disk, walk
  <1>1. TypeOK' /\ LockInv'
    BY Zenon DEF IInv, TypeOK, LockInv
  <1>2. DataInv' /\ FreeInv'
    BY Zenon DEF IInv, DataInv, StoredComplete, FreeInv, At, Legit, Le
  <1>3. ASSUME NEW w \in Writer, mu' = w PROVE HoldInv(w)'
    <2>1. HoldInv(w)
      BY <1>3, Zenon DEF IInv
    <2>2. QED
      BY Zenon, <2>1, HoldStable
  <1>4. QED
    BY <1>1, <1>2, <1>3, Zenon DEF IInv

-----------------------------------------------------------------------------
\* What is known of the writer that holds bc.mu.
LEMMA Holder ==
    ASSUME IInv, NEW w \in Writer, pc[w] \in Held
    PROVE  /\ mu = w /\ mu # None
           /\ HoldInv(w)
           /\ blk[w] \in Block \ {Genesis}
           /\ Parent[blk[w]] \in header
           /\ header \subseteq Block
           /\ \A v \in Writer \ {w} : pc[v] \notin Held /\ (pc[v] # "idle" => blk[v] # blk[w])
  <1>1. mu = w /\ mu # None
    BY BlockTree, Zenon DEF IInv, LockInv
  <1>2. pc[w] # "idle"
    BY Zenon DEF Held
  <1>3. \A v \in Writer \ {w} : pc[v] \notin Held /\ (pc[v] # "idle" => blk[v] # blk[w])
    BY <1>1, <1>2, Zenon DEF IInv, LockInv, Writer
  <1>4. QED
    BY <1>1, <1>2, <1>3, Zenon DEF IInv, LockInv, TypeOK

\* A step of the holder to another label under the lock keeps LockInv, and
\* leaves only the holder's HoldInv to show.
LEMMA HeldStep ==
    ASSUME IInv, NEW w \in Writer, pc[w] \in Held, NEW l \in Held,
           pc' = [pc EXCEPT ![w] = l], blk' = blk, mu' = mu,
           header \subseteq header', header' \subseteq header \cup {blk[w]}
    PROVE  /\ LockInv'
           /\ FreeInv'
           /\ pc'[w] = l
           /\ HoldInv(w)' => \A v \in Writer : mu' = v => HoldInv(v)'
  <1>1. pc'[w] = l /\ \A v \in Writer \ {w} : pc'[v] = pc[v]
    BY Zenon DEF IInv, TypeOK
  <1>2. LockInv'
    BY <1>1, Holder DEF IInv, LockInv, Held
  <1>3. FreeInv'
    BY Holder, Zenon DEF FreeInv
  <1>4. QED
    BY Zenon, <1>1, <1>2, <1>3, Holder

\* Writing the total difficulty, with the lock taken, keeps the invariant.
LEMMA WriteTdInv == ASSUME IInv, NEW w \in Writer, WriteTd(w) PROVE IInv'
  <1> DEFINE b == blk[w]
  <1>1. /\ b \in Block \ {Genesis} /\ b \notin header /\ Parent[b] \in header
        /\ header \subseteq Block /\ mu = None
        /\ Parent[b] # b /\ CalcDifficulty(b) \in Nat /\ td[Parent[b]] \in Nat
    BY TreeFacts DEF IInv, LockInv, TypeOK, WriteTd, NoTd
  <1>2. td' = [td EXCEPT ![b] = td[Parent[b]] + CalcDifficulty(b)] /\ td \in [Block -> Nat \cup {NoTd}]
    BY Zenon DEF WriteTd, IInv, TypeOK
  <1>3. td'[b] = td'[Parent[b]] + CalcDifficulty(b) /\ \A c \in Block \ {b} : td'[c] = td[c]
    BY Zenon, <1>1, <1>2
  <1>4. /\ header' = header /\ state' = state /\ canon' = canon /\ head' = head /\ cur' = cur
        /\ blk' = blk /\ mu' = w /\ prev' = cur
        /\ pc' = [pc EXCEPT ![w] = "commit"] /\ pc'[w] = "commit"
    BY Zenon DEF WriteTd, Goto, IInv, TypeOK
  <1>5. TypeOK'
    <2>1. td' \in [Block -> Nat \cup {NoTd}]
      BY <1>1, <1>2
    <2>2. QED
      BY <2>1, Zenon DEF WriteTd, Goto, IInv, TypeOK, walk
  <1>6. LockInv'
    <2>1. \A v \in Writer \ {w} : pc'[v] = pc[v]
      BY <1>4, Zenon DEF IInv, TypeOK
    <2>2. pc[w] = "ready" /\ \A v \in Writer : pc[v] \notin Held
      BY <1>1, BlockTree DEF IInv, LockInv, WriteTd
    <2>3. QED
      BY <1>1, <1>4, <2>1, <2>2 DEF IInv, LockInv, Held
  <1>7. DataInv'
    BY <1>1, <1>3, <1>4 DEF IInv, DataInv, StoredComplete
  <1>8. FreeInv'
    BY <1>4, BlockTree, Zenon DEF FreeInv
  <1>9. HoldInv(w)'
    <2>1. cur \in header /\ At(cur) /\ \A c \in header : Le(c, cur)
      BY <1>1, Zenon DEF IInv, FreeInv
    <2>2. At(prev)'
      BY <2>1, <1>4, Zenon DEF At, Legit
    <2>3. \A c \in header : Le(c, prev)'
      BY <2>1, <1>1, <1>3, <1>4, Zenon DEF Le
    <2>4. Locked(w)'
      BY <2>1, <2>2, <2>3, <1>1, <1>3, <1>4, Zenon DEF Locked
    <2>5. QED
      BY <2>4, <1>4, Zenon DEF HoldInv, Chosen, Walking, Switching, Storing
  <1>10. QED
    BY <1>4, <1>5, <1>6, <1>7, <1>8, <1>9, Zenon DEF IInv

\* Committing the state of the block keeps the invariant.
LEMMA CommitStateInv == ASSUME IInv, NEW w \in Writer, CommitState(w) PROVE IInv'
  <1>1. /\ pc[w] = "commit" /\ pc[w] \in Held /\ "choose" \in Held
        /\ header' = header /\ td' = td /\ canon' = canon /\ head' = head /\ cur' = cur
        /\ state' = state \cup {Root[blk[w]]}
        /\ blk' = blk /\ mu' = mu /\ prev' = prev
    BY Zenon DEF CommitState, Goto, Held
  <1>p. pc' = [pc EXCEPT ![w] = "choose"]
    BY Zenon DEF CommitState, Goto
  <1>2. /\ LockInv' /\ FreeInv' /\ pc'[w] = "choose"
        /\ HoldInv(w)' => \A v \in Writer : mu' = v => HoldInv(v)'
    BY ZenonT(40), <1>1, <1>p, HeldStep
  <1>3. TypeOK'
    BY <1>p, <1>1, Holder DEF CommitState, Goto, IInv, TypeOK, walk
  <1>4. DataInv'
    BY <1>1, Zenon DEF IInv, DataInv, StoredComplete
  <1>5. HoldInv(w)'
    <2>1. Locked(w)'
      BY <1>1, <1>2, Holder, ZenonT(40) DEF HoldInv, Locked, At, Legit, Le
    <2>2. QED
      BY <2>1, <1>2, Zenon DEF HoldInv, Chosen, Walking, Switching, Storing
  <1>6. QED
    BY <1>2, <1>3, <1>4, <1>5, Zenon DEF IInv

\* What is adopted is not beaten by the head, what is left does not beat it.
LEMMA ChooseInv == ASSUME IInv, NEW w \in Writer, Choose(w) PROVE IInv'
  <1> DEFINE b == blk[w]
             l == IF adopt' /\ Parent[b] # cur THEN "walk" ELSE "store"
  <1>1. /\ pc[w] = "choose" /\ pc[w] \in Held /\ l \in Held
        /\ header' = header /\ td' = td /\ canon' = canon /\ head' = head /\ cur' = cur
        /\ state' = state /\ blk' = blk /\ mu' = mu /\ prev' = prev
        /\ oldBlock' = cur /\ newBlock' = b /\ newChain' = <<>>
        /\ \/ adopt' = TRUE /\ (Beats(b, cur) \/ Ties(b, cur))
           \/ adopt' = FALSE /\ ~Beats(b, cur)
    BY Zenon DEF Choose, Goto, Held, disk
  <1>p. pc' = [pc EXCEPT ![w] = l]
    BY Zenon DEF Choose, Goto
  <1>2. /\ LockInv' /\ FreeInv' /\ pc'[w] = l
        /\ HoldInv(w)' => \A v \in Writer : mu' = v => HoldInv(v)'
    BY ZenonT(40), <1>1, <1>p, HeldStep
  <1>l. \/ adopt' = TRUE /\ Parent[b] # cur /\ l = "walk"
        \/ (adopt' = FALSE \/ Parent[b] = cur) /\ l = "store"
    BY Zenon, <1>1
  <1> HIDE DEF l
  <1>3. /\ b \in Block \ {Genesis} /\ Locked(w) /\ b \notin header /\ At(prev) /\ cur = prev
        /\ prev \in header /\ header \subseteq Block
    BY <1>1, Holder, Zenon DEF HoldInv, Locked, At
  <1>4. adopt' \in BOOLEAN
    BY Zenon, <1>1
  <1>5. TypeOK'
    BY <1>p, <1>1, <1>3, <1>4 DEF Held, Choose, Goto, IInv, TypeOK, disk
  <1>6. DataInv'
    BY <1>1, Zenon DEF IInv, DataInv, StoredComplete
  <1>7. HoldInv(w)'
    <2>1. Locked(w)'
      BY <1>l, <1>1, <1>2, <1>3, ZenonT(40) DEF Locked, Le
    <2>2. Chosen(w)'
      <3>1. /\ td[b] \in Int /\ td[cur] \in Int /\ Height[b] \in Nat /\ Height[cur] \in Nat
        BY <1>3, TreeFacts DEF IInv, TypeOK, NoTd
      <3>2. adopt' = TRUE => Le(cur, b)
        BY <1>1, <3>1 DEF Beats, Ties, Le
      <3>3. adopt' = FALSE => Le(b, cur)
        BY <1>1, <3>1 DEF Beats, Le
      <3>4. QED
        BY <3>2, <3>3, <1>1, <1>3, Zenon DEF Chosen, Le
    <2>3. At(prev)'
      BY <1>1, <1>3, Zenon DEF At, Legit
    <2>4. Walking(w)'
      <3>1. Linked(b, b)'
        BY <1>1 DEF Linked
      <3>2. Height[cur] \in Nat /\ canon[Height[cur]] = cur
        BY <1>3, TreeFacts, Zenon DEF At, Legit, ChainIn
      <3>3. pc'[w] = "walk" => adopt' = TRUE /\ Parent[b] # prev
        BY <1>l, <1>2, <1>3, Zenon
      <3>4. Height[oldBlock'] <= Height[prev]
        BY <1>1, <1>3, <3>2
      <3>5. QED
        BY <1>1, <1>3, <2>3, <3>1, <3>2, <3>3, <3>4, Zenon DEF Walking
    <2>5. Switching(w)'
      BY <1>l, <1>2, Zenon DEF Switching
    <2>6. Storing(w)'
      BY <1>l, <1>1, <1>2, <1>3, <1>4, <2>3, Zenon DEF Storing
    <2>7. QED
      BY <2>1, <2>2, <2>4, <2>5, <2>6, Zenon DEF HoldInv
  <1>8. QED
    BY <1>2, <1>5, <1>6, <1>7, Zenon DEF IInv
=============================================================================
