------------------------------ MODULE MCStores ------------------------------
(***************************************************************************)
(* What a node keeps between blocks: the records on disk and a stop among  *)
(* their writes, the trie of the state, the pool of trie nodes, the pool   *)
(* of transactions, alone and with the chain it follows, and the encoding  *)
(* of it all.  A behaviour is one of one of the Parts.                     *)
(***************************************************************************)
EXTENDS BlockchainCrash, TxPool, Tries, NodePool, Rlp, TLC

CONSTANTS Parts,
          MineState,   \* the state that the miner's block leads to
          G, A1, A2, A3, B1, B2, C2, D1

VARIABLE part

\* BlockchainCrash: the tree of MCBlockchain, with other blocks of our own.
MCBlock  == {G, A1, A2, A3, B1, B2, C2, D1}
MCParent == (A1 :> G) @@ (A2 :> A1) @@ (A3 :> A2) @@ (B1 :> G) @@ (B2 :> B1)
            @@ (C2 :> B1) @@ (D1 :> G)
MCHeight == (G :> 0) @@ (A1 :> 1) @@ (A2 :> 2) @@ (A3 :> 3) @@ (B1 :> 1) @@ (B2 :> 2)
            @@ (C2 :> 2) @@ (D1 :> 1)
MCSlot   == (G :> 0) @@ (A1 :> 1) @@ (A2 :> 2) @@ (A3 :> 3) @@ (B1 :> 2) @@ (B2 :> 3)
            @@ (C2 :> 5) @@ (D1 :> 1)
MCRoot   == [b \in MCBlock |-> IF b = D1 THEN A1 ELSE b]
MCOwn    == {A2, C2}

\* TxPool: ten transactions of two accounts.
T(from, nonce, price, gas, value) ==
  [from |-> from, nonce |-> nonce, price |-> price, gas |-> gas, value |-> value, type |-> "transfer"]
MCTx == {T(1, 0, 1, 1, 0), T(1, 0, 3, 1, 0), T(1, 1, 2, 1, 0), T(1, 1, 1, 2, 1), T(1, 2, 2, 1, 0), T(1, 3, 3, 1, 0),
         [T(2, 0, 2, 1, 1) EXCEPT !.type = "undelegate"], T(2, 1, 2, 1, 0), T(2, 1, 3, 1, 0), T(2, 2, 2, 1, 0)}
MCAlloc  == [a \in {1, 2} |-> 6]
MCLocked == [a \in {1, 2} |-> IF a = 2 THEN 1 ELSE 0]

MCTriePrefix == <<7>>
MCTrieKey    == {<<0>>, <<1>>, <<4, 0>>, <<4, 9>>}
MCStarts     == {<<>>, <<1>>, <<4>>}

\* d1 and d2 are DPoS tries with a node in common; s1 and s2 are states with
\* an account a in common, whose storage is t.
MCPoolNode == {"l", "m1", "m2", "d1", "d2", "a", "b", "t", "s1", "s2"}
MCKids == [n \in MCPoolNode |->
             CASE n = "d1" -> {"l", "m1"} [] n = "d2" -> {"l", "m2"} [] n = "s1" -> {"a", "b"} [] n = "s2" -> {"a"} [] OTHER -> {}]
MCOuts == [n \in MCPoolNode |-> IF n = "a" THEN {"t"} ELSE {}]
MCPoolJobs == [c \in {"insert", "mine"} |->
                 {IF c = "insert" THEN [dpos |-> "d1", state |-> "s1"] ELSE [dpos |-> "d2", state |-> MineState]}]

\* Values of Go types, with sizes on both sides of every boundary.
U(n) == [n |-> n]
B(b) == [b |-> b]
L(l) == [l |-> l]
Opt(ty) == [t |-> "opt", of |-> ty]
Struct(fields) == [t |-> "struct", fields |-> fields]
MCStruct == Struct(<<Uint, Opt([t |-> "array", len |-> 2]), Opt(Struct(<<Uint>>)), [t |-> "tail", of |-> Interface]>>)
MCGoValues ==
    {[type |-> Uint, value |-> U(n)] : n \in {0, 1, 7, 8, 15, 16, 200, 255}} \cup
    {[type |-> [t |-> "big"], value |-> U(n)] : n \in {0, 7, 8, 255, 256, 5000}} \cup
    {[type |-> MCStruct, value |-> L(<<U(8), x, y, L(z)>>)] :
        x \in {[nil |-> TRUE], B(<<0, 0>>)}, y \in {[nil |-> TRUE], L(<<U(0)>>)},
        z \in {<<>>, <<B(<<>>), L(<<L(<<>>), B(<<1, 2, 3>>)>>)>>}} \cup
    {[type |-> Interface, value |-> v] :
        v \in {L(<<L(<<L(<<L(<<>>), B(<<9>>)>>), L(<<>>)>>), B(<<1>>)>>),
               L(<<B([i \in 1 .. 14 |-> i]), L(<<B(<<1, 2>>)>>)>>), L([i \in 1 .. 6 |-> L(<<B(<<i, i>>)>>)])}}

storeVars == <<part, crashVars, chainVars, trieVars, poolVars, input>>

StoreInit ==
    /\ part \in Parts
    /\ CrashInit /\ ChainInit /\ TrieInit /\ PoolInit
    /\ IF part = "rlp" THEN RlpInit ELSE input = <<0>>
    /\ part \notin {"transactions", "chainpool"} => curMaxGas = 1

StoreNext ==
    /\ UNCHANGED part
    /\ \/ part = "chain"        /\ CrashNext /\ UNCHANGED <<chainVars, trieVars, poolVars, input>>
       \/ /\ part = "transactions" /\ TxNext
          /\ UNCHANGED <<crashVars, trieVars, poolVars, input, stored, currentBlock, chainBlockCh>>
       \/ part = "chainpool"    /\ ChainNext /\ UNCHANGED <<crashVars, trieVars, poolVars, input>>
       \/ part = "trie"         /\ TrieNext  /\ UNCHANGED <<crashVars, chainVars, poolVars, input>>
       \/ part = "nodes"        /\ PoolNext  /\ UNCHANGED <<crashVars, chainVars, trieVars, input>>
       \/ part = "rlp"          /\ RlpNext   /\ UNCHANGED <<crashVars, chainVars, trieVars, poolVars>>

StoreSpec == StoreInit /\ [][StoreNext]_storeVars
=============================================================================
