---------------------------- MODULE MCBlockchain ----------------------------
(***************************************************************************)
(* A tree of eight blocks for Blockchain.  The branch A grows by heights,  *)
(* the branches B and C take later slots: C2 weighs as much as A3 although *)
(* it is one lower, D1 and A1 are of one height, weight and state.         *)
(*                                                                         *)
(*   G - A1 - A2 - A3         weights  2, 5, 9                             *)
(*     - B1 - B2              weights  3, 7                                *)
(*          - C2              weight   9                                   *)
(*     - D1                   weight   2           own: A2, D1            *)
(*                                                                         *)
(* Three parts share no state with it: the heap of prices, six             *)
(* transactions of three prices; the gas limit; and the records of two     *)
(* blocks that have a transaction in common.                               *)
(* A behaviour is one of one part.                                         *)
(***************************************************************************)
EXTENDS Blockchain, PriceHeap, GasLimit, Ledger, TLC

CONSTANTS G, A1, A2, A3, B1, B2, C2, D1

MCBlock  == {G, A1, A2, A3, B1, B2, C2, D1}
MCParent == (A1 :> G) @@ (A2 :> A1) @@ (A3 :> A2) @@ (B1 :> G) @@ (B2 :> B1)
            @@ (C2 :> B1) @@ (D1 :> G)
MCHeight == (G :> 0) @@ (A1 :> 1) @@ (A2 :> 2) @@ (A3 :> 3) @@ (B1 :> 1) @@ (B2 :> 2)
            @@ (C2 :> 2) @@ (D1 :> 1)
MCSlot   == (G :> 0) @@ (A1 :> 1) @@ (A2 :> 2) @@ (A3 :> 3) @@ (B1 :> 2) @@ (B2 :> 3)
            @@ (C2 :> 5) @@ (D1 :> 1)
MCRoot   == [b \in MCBlock |-> IF b = D1 THEN A1 ELSE b]
MCOwn    == {A2, D1}
MCBlockTxs == [x |-> <<1, 2>>, y |-> <<2>>]
MCPriceOf == <<1, 1, 2, 2, 3, 3>>
MCNonceOf == <<0, 1, 0, 1, 0, 0>>

VARIABLE part

MCInit ==
    /\ part \in {"chain", "prices", "gas", "ledger"}
    /\ Init /\ HeapInit /\ GasInit /\ LedgerInit
    /\ part # "prices" => incoming = 1

MCNext ==
    /\ UNCHANGED part
    /\ \/ part = "chain"  /\ Next       /\ UNCHANGED <<heapVars, gasLimit, ledgerVars>>
       \/ part = "prices" /\ HeapNext   /\ UNCHANGED <<vars, gasLimit, ledgerVars>>
       \/ part = "gas"    /\ GasNext    /\ UNCHANGED <<vars, heapVars, ledgerVars>>
       \/ part = "ledger" /\ LedgerNext /\ UNCHANGED <<vars, heapVars, gasLimit>>

MCSpec == MCInit /\ [][MCNext]_<<part, vars, heapVars, gasLimit, ledgerVars>> /\ Fairness
=============================================================================
