---------------------------- MODULE MCExecution ----------------------------
EXTENDS Execution, TLC

CONSTANTS alice, contract, created, ripemd, miner

MCCreateAddress(from, nonce) == created

MCGas == [Step |-> 1, Log |-> 1, SstoreSet |-> 2, SstoreClear |-> 1, SstoreReset |-> 1, SstoreRefund |-> 2,
          Suicide |-> 1, CreateBySuicide |-> 1, SuicideRefund |-> 3, Calls |-> 1, CallValueTransfer |-> 2,
          CallNewAccount |-> 1, CallStipend |-> 1, Create |-> 1, CreateData |-> 1, Precompiled |-> 1]

MCBatch == {<<4>>, <<1, 2>>, <<2, 1>>}

MCGenesis == (alice :> [NewAccount EXCEPT !.balance = 9, !.nonce = 1]) @@
             (contract :> [NewAccount EXCEPT !.balance = 1, !.nonce = 1, !.code = 2, !.root = [k \in Key |-> 1]])
=============================================================================
