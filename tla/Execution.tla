----------------------------- MODULE Execution -----------------------------
(***************************************************************************)
(* A miner fills a block: commitTransaction of consensus/miner/worker.go,  *)
(* ExecTransaction of core/executor/executor.go and TransitionDb of        *)
(* core/executor/stransition.go around the machine of module EVM.          *)
(*                                                                         *)
(* Contract transactions are executed instruction by instruction.  Of the  *)
(* voting messages only what they do to the state database is here, with   *)
(* the failure of the voting tries left open: module Voting has the rest.  *)
(***************************************************************************)
EXTENDS EVM

CONSTANTS Genesis,       \* address -> account: the parent's state
          Sender, Coinbase,
          GasLimit,      \* of the block
          Intrinsic,     \* IntrinsicGas of the transactions offered
          Batch,         \* bound: the sequences of transactions offered, each given
                         \* by its tx.Gas(); the gas price is 1
          Request,       \* bound: the gas an instruction asks for in a call
          Target,        \* bound: the accounts that are called or paid
          Size           \* bound: the sizes of output

VARIABLES phase,     \* "idle", "bought", "run" or "done"
          st,        \* the StateTransition: recipient, value, gas; commitTransaction's snap
          gp,        \* the block's gas pool
          usedGas,   \* of the transactions in the block
          txs,       \* the transactions not yet offered
          saved      \* history: what was seen when each open call began
blockVars == <<phase, st, gp, usedGas, txs>>
vars      == <<evmVars, blockVars, saved>>

Amount == {0, 1}
Nobody == "nobody"    \* the recipient of a transaction that creates a contract

NoTransition == [to |-> Nobody, value |-> 0, gas |-> 0, initialGas |-> 0, snap |-> 0]

Init ==
    /\ db = NewStateDB(Genesis, {Genesis[a].code : a \in DOMAIN Genesis} \ {0})
    /\ frames = <<>>
    /\ readOnly = FALSE
    /\ result = "none"
    /\ leftOver = 0
    /\ phase = "idle"
    /\ st = NoTransition
    /\ gp = GasLimit
    /\ usedGas = 0
    /\ txs \in Batch
    /\ saved = <<>>

\* applyTransactions goes on while a transaction may fit.
Offer ==
    /\ phase = "idle"
    /\ gp >= 1
    /\ txs # <<>>
    /\ txs' = Tail(txs)

\* Mutant: a rejected transaction leaves what it did.
RejectKept(s, snap) ==
    /\ db' = s
    /\ phase' = "idle"
    /\ result' = "rejected"
    /\ leftOver' = 0
    /\ st' = NoTransition
    /\ UNCHANGED <<frames, readOnly, usedGas>>

\* commitTransaction after an error: no trace in the state, but the gas that
\* was taken from the pool is not given back.
Reject(s, snap) ==
    /\ db' = RevertToSnapshot(s, snap)
    /\ phase' = "idle"
    /\ result' = "rejected"
    /\ leftOver' = 0
    /\ st' = NoTransition
    /\ UNCHANGED <<frames, readOnly, usedGas>>

\* preCheck fails: the nonce, the balance or the gas pool.
Refuse ==
    /\ Offer
    /\ Reject(Snapshot(db), db.nextRevisionID)
    /\ UNCHANGED gp

Limit == Head(txs)

CanBuyGas == GetBalance(db, Sender) >= Limit /\ gp >= Limit

\* The gas does not pay for the transaction itself.
RefuseIntrinsic ==
    /\ Offer
    /\ CanBuyGas
    /\ \E gas \in Intrinsic : Limit < gas
    /\ Reject(SubBalance(Snapshot(db), Sender, Limit), db.nextRevisionID)
    /\ gp' = gp - Limit

\* buyGas and useGas.
BuyGas(to, value, gas) ==
    /\ Offer
    /\ CanBuyGas
    /\ Limit >= gas
    /\ gp' = gp - Limit
    /\ st' = [to |-> to, value |-> value, gas |-> Limit - gas, initialGas |-> Limit,
              snap |-> db.nextRevisionID]
    /\ db' = LET s == SubBalance(Snapshot(db), Sender, Limit)
             IN IF to = Nobody THEN s ELSE SetField(s, Sender, "nonce", GetNonce(s, Sender) + 1)
    /\ phase' = "bought"
    /\ result' = "none"
    /\ UNCHANGED <<frames, readOnly, leftOver, usedGas>>

\* TransitionDb's call of the machine.
Start ==
    /\ phase = "bought"
    /\ phase' = "run"
    /\ IF st.to = Nobody THEN Create(Sender, st.value, st.gas, <<>>)
                         ELSE Invoke("call", Sender, st.to, st.value, st.gas, <<>>)
    /\ UNCHANGED <<st, gp, usedGas, txs>>

\* An instruction of the innermost frame, or its end.
Step ==
    /\ frames # <<>>
    /\ \/ Compute
       \/ Log
       \/ \E k \in Key, v \in Word : Sstore(k, v)
       \/ \E b \in Target : SelfDestruct(b)
       \/ \E kind \in {"call", "callcode", "delegatecall", "staticcall"}, a \in Target,
             value \in Amount, gas \in Request : CallOp(kind, a, value, gas)
       \/ \E value \in Amount : CreateOp(value)
       \/ \E size \in Size : Halt(db, Top.gas, size)
       \/ Revert
       \/ Error
    /\ UNCHANGED blockVars

\* refundGas: at most half of what was used.
Refund == LET half == (st.initialGas - leftOver) \div 2 IN IF half > db.refund THEN db.refund ELSE half

\* The end of refundGas: the pool gets back what was not used.
Return(gas) == gp + gas

\* The end of TransitionDb and ExecTransaction.  A transfer that the sender
\* cannot pay is an error, a failed call is not.
Finish ==
    /\ phase = "run"
    /\ frames = <<>>
    /\ IF result = "balance"
       THEN Reject(db, st.snap) /\ UNCHANGED <<gp, txs>>
       ELSE LET gas  == leftOver + Refund
                used == st.initialGas - gas
            IN /\ db' = Finalise(AddBalance(AddBalance(db, Sender, gas), Coinbase, used), TRUE)
               /\ gp' = Return(gas)
               /\ usedGas' = usedGas + used
               /\ phase' = "idle"
               /\ result' = "none"
               /\ leftOver' = 0
               /\ st' = NoTransition
               /\ UNCHANGED <<frames, readOnly, txs>>

\* applyDposMessage for Delegate and UnDelegate, which cost no gas: the nonce
\* is set without a comparison, to that of the next transaction of the sender
\* or of one that was executed before.  Then the stake moves, and when the
\* voting tries refuse, the state is reverted.
DposMessage(nonce, delegate, fails) ==
    LET a   == Sender
        s   == Snapshot(SetField(Snapshot(db), a, "nonce", nonce + 1))
        acc == GetAccount(s, a)
        t   == IF delegate
               THEN SetField(SetField(SubBalance(s, a, 1), a, "locked", acc.locked + 1), a, "delegateTime", 1)
               ELSE SetUnDelegateTimestamp(
                        SetField(SetField(s, a, "locked", acc.locked - 1), a, "unlocked", acc.unlocked + 1), a, 1)
    IN /\ Offer
       /\ IF delegate THEN acc.balance >= 1 ELSE acc.locked >= 1
       /\ db' = Finalise(IF fails THEN RevertToSnapshot(t, s.nextRevisionID - 1) ELSE t, TRUE)
       /\ result' = "none"
       /\ UNCHANGED <<frames, readOnly, leftOver, phase, st, gp, usedGas>>

\* The block is written: CommitTo of the state.
EndBlock ==
    /\ phase = "idle"
    /\ phase' = "done"
    /\ db' = Commit(db, TRUE)
    /\ result' = "none"
    /\ UNCHANGED <<frames, readOnly, leftOver, st, gp, usedGas, txs>>

Running == phase \in {"bought", "run"}

\* A transaction and the frames it has open.
Open == IF Running THEN Depth + 1 ELSE 0

Save ==
    saved' = IF Open' > Len(saved) THEN Append(saved, View(db)) ELSE SubSeq(saved, 1, Open')

Next ==
    /\ \/ Refuse
       \/ RefuseIntrinsic
       \/ \E to \in Target \cup {Nobody}, value \in Amount, gas \in Intrinsic : BuyGas(to, value, gas)
       \/ Start
       \/ Step
       \/ Finish
       \/ \E nonce \in {0, GetNonce(db, Sender)}, delegate, fails \in BOOLEAN :
             DposMessage(nonce, delegate, fails)
       \/ EndBlock
    /\ Save

Spec == Init /\ [][Next]_vars

-----------------------------------------------------------------------------
(* Properties *)

NonceRaised(v, w) ==
    \E x \in Address : w = [v EXCEPT !.accounts[x].data.nonce = @ + 1]

Calls == INSTANCE CallStack WITH Raised <- NonceRaised, world <- View(db), outcome <- result,
                                 Failure <- {"error", "reverted", "depth", "balance", "rejected"}

\* The journal implements whole copies: a call, creation or transaction that
\* fails at any depth leaves accounts, storage, logs and the refund counter as
\* they were when it began.  The one failure that does not is a creation whose
\* code cannot be paid for ("codestore").
ImplementsCallStack == Calls!Spec

SumOf(f, S) == FoldFunctionOnSet(LAMBDA x, y : x + y, 0, f, S)

Holding(s, x) == LET acc == GetAccount(s, x) IN acc.balance + acc.locked + acc.unlocked
Tokens(s, inFlight) == SumOf([x \in Address |-> Holding(s, x)], Address) + inFlight
InFlight == IF Running THEN st.initialGas ELSE 0

\* No transaction, complete, failed or rejected, creates tokens, and none
\* destroys any, except where an account destroys itself: gas bought, returned
\* and paid to the miner adds up.
TokensConserved ==
    [][/\ Tokens(db', InFlight') <= Tokens(NewStateDB(Genesis, {}), 0)
       /\ Tokens(db', InFlight') # Tokens(db, InFlight) =>
              \E x \in Address : HasSuicided(db, x) \/ HasSuicided(db', x)]_vars

\* Whoever looks at the state elsewhere sees what this one shows: a copy of it
\* (the pool's and the API's pending state) at any moment, and a copy of the
\* copy; after Commit a state opened at the committed root, which also loads
\* every contract's code from the database.
CopiesFaithful ==
    /\ View(Copy(db)) = View(db) /\ View(Copy(Copy(db))) = View(db)
    /\ phase = "done" =>
        /\ View(NewStateDB(db.trie, db.codes)).accounts = View(db).accounts
        /\ \A x \in DOMAIN db.trie : db.trie[x].code \in db.codes \cup {0}
=============================================================================
