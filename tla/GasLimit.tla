------------------------------ MODULE GasLimit ------------------------------
(***************************************************************************)
(* The gas limit of blocks: what the miner writes into the header          *)
(* (calcGasLimit) and what the validator of any node accepts.  The blocks  *)
(* of other miners have any limit that is accepted.                        *)
(***************************************************************************)
EXTENDS Integers

CONSTANTS
  BoundDivisor,  \* GasLimitBoundDivisor, 1024
  MinLimit,      \* MinGasLimit, 1000000
  TargetLimit,   \* GenesisGasLimit, 5000000
  LimitCap       \* 2^63 - 1

ASSUME GasConstants ==
    /\ BoundDivisor \in Nat /\ BoundDivisor > 1
    /\ MinLimit \in Nat /\ MinLimit >= 7 * BoundDivisor
    /\ TargetLimit \in Nat /\ TargetLimit >= MinLimit
    /\ LimitCap \in Nat /\ LimitCap >= TargetLimit

VARIABLE gasLimit

\* Mutant: decay without the - 1.
calcGasLimitWhole(limit, used) ==
    LET contrib == (used + used \div 2) \div BoundDivisor
        decay   == limit \div BoundDivisor
        next    == IF limit - decay + contrib < MinLimit THEN MinLimit ELSE limit - decay + contrib
    IN IF next >= TargetLimit THEN next
       ELSE IF limit + decay > TargetLimit THEN TargetLimit ELSE limit + decay

calcGasLimit(limit, used) ==
    LET contrib == (used + used \div 2) \div BoundDivisor
        decay   == limit \div BoundDivisor - 1
        next    == IF limit - decay + contrib < MinLimit THEN MinLimit ELSE limit - decay + contrib
    IN IF next >= TargetLimit THEN next
       ELSE IF limit + decay > TargetLimit THEN TargetLimit ELSE limit + decay

\* ValidateHeader on a header with limit next, after a parent with limit.
ValidGasLimit(limit, next) ==
    LET diff == IF next > limit THEN next - limit ELSE limit - next
    IN next <= LimitCap /\ diff < limit \div BoundDivisor /\ next >= MinLimit

GasInit == gasLimit = TargetLimit
OtherBlock == \E next \in MinLimit .. LimitCap : ValidGasLimit(gasLimit, next) /\ gasLimit' = next
OwnBlock == \E used \in 0 .. gasLimit : calcGasLimit(gasLimit, used) <= LimitCap /\ gasLimit' = calcGasLimit(gasLimit, used)
GasNext == OtherBlock \/ OwnBlock
GasSpec == GasInit /\ [][GasNext]_gasLimit

\* However the limit got where it is and however full the parent is, the limit
\* the miner computes passes every node's check, short of 2^63.
OwnAccepted ==
    \A used \in 0 .. gasLimit :
        calcGasLimit(gasLimit, used) <= LimitCap => ValidGasLimit(gasLimit, calcGasLimit(gasLimit, used))
=============================================================================
