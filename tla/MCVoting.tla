------------------------------ MODULE MCVoting ------------------------------
(***************************************************************************)
(* Three accounts for Voting: the genesis candidate, and two accounts that *)
(* can each register and vote for any of the three.  A block holds two     *)
(* charged messages, or one and a message with payload that does not fit.  *)
(*                                                                         *)
(* Five blocks for Confirmation: a branch of three and a fork after the    *)
(* first; two miners, both needed for a quorum.  The two parts share no    *)
(* state, so a behaviour is one of one part.                               *)
(***************************************************************************)
EXTENDS Voting, Confirmation, TLC

CONSTANTS genesis, alice, bob

MCAccount == {genesis, alice, bob}
MCAlloc   == (genesis :> 0) @@ (alice :> 3) @@ (bob :> 2)

MCConfParent == ("g" :> "g") @@ ("a1" :> "g") @@ ("a2" :> "a1") @@ ("a3" :> "a2") @@ ("b2" :> "a1")
MCConfHeight == ("g" :> 0) @@ ("a1" :> 1) @@ ("a2" :> 2) @@ ("a3" :> 3) @@ ("b2" :> 2)
MCMinerOf    == ("g" :> "x") @@ ("a1" :> "x") @@ ("a2" :> "x") @@ ("a3" :> "y") @@ ("b2" :> "y")

VARIABLE part

MCInit == part \in {"voting", "confirmation"} /\ Init /\ ConfInit /\ (part = "voting" => votes)

MCNext ==
    \/ part = "voting" /\ Next /\ UNCHANGED <<part, confVars>>
    \/ part = "confirmation" /\ ConfNext /\ UNCHANGED <<part, vars>>

MCSpec == MCInit /\ [][MCNext]_<<part, vars, confVars>>
=============================================================================
