------------------------------ MODULE MCParts -------------------------------
(***************************************************************************)
(* The parts of the node below the calls of the machine, and the encrypted *)
(* transport, in one run.  The words and the pairings are algorithms       *)
(* without state, which are evaluated on every input.  They share no state *)
(* here, so a behaviour is one of one part; the others keep their initial  *)
(* state.                                                                  *)
(***************************************************************************)
EXTENDS Opcodes, Metering, Rlpx, Pairings

VARIABLE part

MCPrice == [Memory |-> 3, QuadDiv |-> 4, Copy |-> 3, Sha3 |-> 2, Sha3Word |-> 6, Log |-> 3, LogData |-> 8,
            Fastest |-> 3, ExtcodeCopy |-> 7, Create |-> 9, Calls |-> 7]

MCPlainLen  == [auth |-> 5, resp |-> 4]

\* Pairings: the curve of Barreto and Naehrig for u = 1.
MCNaf == <<0, 0, 0, -1, 1>>
MCXiPowers == <<<<93, 36>>, <<1, 63>>, <<24, 12>>, <<23, 54>>, <<0, 56>>, <<0, 46>>, <<0, 57>>>>
MCGen == <<2, 42>>
MCTwistGen == <<98, 42, 47, 88>>
MCTwistOther == <<0, 3, 17, 3>>

partsVars == <<part, operands, pairVars, cells, op, meterVars, rlpxVars>>

Init ==
    /\ part \in {"table", "memory", "rlpx", "words", "pairing"}
    /\ MeterInit /\ RlpxInit
    /\ IF part = "words" THEN WordsInit ELSE operands = <<>>
    /\ IF part = "table" THEN OpcodesInit ELSE cells = [stack |-> <<>>, pool |-> <<>>, fresh |-> 1] /\ op = 0
    /\ IF part = "pairing" THEN PairInit ELSE scalar = NoScalar /\ g1 = "infinity" /\ g2 = "infinity"

Next ==
    /\ UNCHANGED <<part, operands>>
    /\ \/ /\ part = "table" /\ \E o \in DOMAIN InstructionSet : OpcodesStep(o)
          /\ UNCHANGED <<pairVars, meterVars, rlpxVars>>
       \/ part = "memory"  /\ MeterNext /\ UNCHANGED <<pairVars, cells, op, rlpxVars>>
       \/ part = "rlpx"    /\ RlpxNext  /\ UNCHANGED <<pairVars, cells, op, meterVars>>
       \/ part = "pairing" /\ PairStep  /\ UNCHANGED <<cells, op, meterVars, rlpxVars>>

Spec == Init /\ [][Next]_partsVars
=============================================================================
