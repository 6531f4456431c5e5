----------------------------- MODULE ForkChoice -----------------------------
(***************************************************************************)
(* What core/blockchain.go promises its users: blocks are accepted one at  *)
(* a time, parents first, and the head moves only to the accepted block,   *)
(* and only when that block beats the head.  No locks, no database records *)
(* and no reorganisation in steps: Blockchain is shown to implement this.  *)
(***************************************************************************)
EXTENDS Integers

CONSTANTS Block, Genesis, Parent, Height, Difficulty, NoTd

VARIABLES stored,  \* the accepted blocks
          weight,  \* the total difficulty of the accepted blocks, or NoTd
          best     \* the head

vars == <<stored, weight, best>>

Init == /\ stored = {Genesis}
        /\ weight = [b \in Block |-> IF b = Genesis THEN 0 ELSE NoTd]
        /\ best = Genesis

\* A block of weight x beats the head if it is heavier or as heavy and lower;
\* one of the same weight and height may or may not.
Beats(b, x) == \/ x > weight[best]
               \/ x = weight[best] /\ Height[b] < Height[best]

Ties(b, x) == x = weight[best] /\ Height[b] = Height[best]

Accept(b) ==
    LET x == weight[Parent[b]] + Difficulty[b]
    IN  /\ b \notin stored \cup {Genesis}
        /\ Parent[b] \in stored
        /\ stored' = stored \cup {b}
        /\ weight' = [weight EXCEPT ![b] = x]
        /\ \/ best' = b /\ (Beats(b, x) \/ Ties(b, x))
           \/ best' = best /\ ~Beats(b, x)

Next == \E b \in Block : Accept(b)

Spec == Init /\ [][Next]_vars
=============================================================================
