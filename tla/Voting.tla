------------------------------- MODULE Voting -------------------------------
(***************************************************************************)
(* Delegated voting: the candidate, delegate and vote tries of             *)
(* core/types/dposcontext.go and the account balances they go with, as     *)
(* core/executor/executor.go (applyDposMessage) changes them.  A step is   *)
(* one message of a block; the messages of all accounts interleave in any  *)
(* order.  Messages are those txpool.validateTx admits.                    *)
(*                                                                         *)
(* Left out: the sender's nonce, which applyDposMessage overwrites and     *)
(* never reads, and the difference between an empty vote list and no vote  *)
(* entry, which no operation tells apart.                                  *)
(***************************************************************************)
EXTENDS Integers

CONSTANTS Account,
          GenesisCandidate,     \* the account that cannot log out
          Alloc,                \* the balances of the genesis block
          MinDelegateState,     \* the least amount a Delegate locks
          MinDelegateDuration,  \* time from the last Delegate to an UnDelegate
          DelayDuration,        \* time from the last UnDelegate to a Redeem
          BlockGas,             \* header.GasLimit
          TxGas,                \* gas of a message without payload
          MaxAmount,            \* bound: the largest value of a message
          MaxTime               \* bound: the last block time

\* IntrinsicGas of LoginCandidate, LogoutCandidate and Redeem, without and with
\* a payload.  Delegate and UnDelegate cost nothing.
IntrinsicGas == {TxGas, TxGas + 1}
Amount       == 0 .. MaxAmount
FullWeight   == 100

ASSUME VotingConstants ==
    /\ GenesisCandidate \in Account
    /\ Alloc \in [Account -> Nat]
    /\ MinDelegateState \in Nat \ {0}
    /\ MinDelegateDuration \in Nat
    /\ DelayDuration \in Nat
    /\ BlockGas \in Nat
    /\ TxGas \in Nat \ {0}
    /\ MaxAmount \in Nat
    /\ MaxTime \in Nat

VARIABLES
    candidateTrie,   \* account -> CandidateInfo.Weight, 0 if it is no candidate
    delegateTrie,    \* the pairs <<candidate, delegator>>
    voteTrie,        \* delegator -> the candidates it votes for
    balance, locked, unlocked,       \* the three balances of an account
    delegateTime, unDelegateTime,    \* the two timestamps of an account
    gp,              \* gas left in the block
    time             \* header.TimeStamp of the block

tries    == <<candidateTrie, delegateTrie, voteTrie>>
stakes   == <<locked, unlocked, delegateTime, unDelegateTime>>
vars     == <<tries, balance, stakes, gp, time>>

Init ==
    /\ candidateTrie = [a \in Account |-> IF a = GenesisCandidate THEN FullWeight ELSE 0]
    /\ delegateTrie = {}
    /\ voteTrie = [a \in Account |-> {}]
    /\ balance = Alloc
    /\ locked = [a \in Account |-> 0]
    /\ unlocked = [a \in Account |-> 0]
    /\ delegateTime = [a \in Account |-> 0]
    /\ unDelegateTime = [a \in Account |-> 0]
    /\ gp = BlockGas
    /\ time = 0

IsCandidate(a) == candidateTrie[a] > 0
Pairs(d)       == {<<c, d>> : c \in voteTrie[d]}

-----------------------------------------------------------------------------
(* dposcontext.go *)

BecomeCandidate(a) ==
    /\ candidateTrie' = [candidateTrie EXCEPT ![a] = IF IsCandidate(a) THEN @ ELSE FullWeight]
    /\ UNCHANGED <<delegateTrie, voteTrie>>

\* Mutant: the votes for the candidate stay in the vote trie.
KickoutCandidateVotesStay(c) ==
    /\ candidateTrie' = [candidateTrie EXCEPT ![c] = 0]
    /\ delegateTrie' = {p \in delegateTrie : p[1] # c}
    /\ UNCHANGED voteTrie

\* A delegator of the delegate trie without a vote entry would end the loop
\* with an error half way; VotesConsistent excludes it.
KickoutCandidate(c) ==
    IF IsCandidate(c)
    THEN /\ candidateTrie' = [candidateTrie EXCEPT ![c] = 0]
         /\ delegateTrie' = {p \in delegateTrie : p[1] # c}
         /\ voteTrie' = [d \in Account |-> IF <<c, d>> \in delegateTrie THEN voteTrie[d] \ {c}
                                                                        ELSE voteTrie[d]]
    ELSE UNCHANGED tries

\* DposContext.Delegate, once every member of tos is known to be a candidate.
DelegateTo(d, tos) ==
    /\ delegateTrie' = (delegateTrie \ Pairs(d)) \cup {<<c, d>> : c \in tos}
    /\ voteTrie' = [voteTrie EXCEPT ![d] = tos]
    /\ UNCHANGED candidateTrie

\* DposContext.UnDelegate.
DropVotes(d) ==
    /\ delegateTrie' = delegateTrie \ Pairs(d)
    /\ voteTrie' = [voteTrie EXCEPT ![d] = {}]
    /\ UNCHANGED candidateTrie

-----------------------------------------------------------------------------
(* applyDposMessage.  The miner starts no transaction with less than TxGas *)
(* left in the block.  A message whose sender cannot pay for its gas       *)
(* changes nothing; ExecTransaction returns a receipt for it all the same. *)

\* The fee is taken from the sender and credited to nobody.
Charge(a, gas) ==
    /\ gp >= TxGas
    /\ balance[a] >= gas
    /\ gp >= gas
    /\ gp' = gp - gas

\* gp.SubGas fails after the fee is taken.
OutOfGas(a, gas) ==
    /\ gp >= TxGas
    /\ balance[a] >= gas
    /\ gp < gas
    /\ balance' = [balance EXCEPT ![a] = @ - gas]
    /\ UNCHANGED <<tries, stakes, gp, time>>

LoginCandidate(a, gas) ==
    /\ Charge(a, gas)
    /\ balance' = [balance EXCEPT ![a] = @ - gas]
    /\ BecomeCandidate(a)
    /\ UNCHANGED <<stakes, time>>

LogoutCandidate(a, gas) ==
    /\ a # GenesisCandidate
    /\ Charge(a, gas)
    /\ balance' = [balance EXCEPT ![a] = @ - gas]
    /\ KickoutCandidate(a)
    /\ UNCHANGED <<stakes, time>>

AreCandidates(tos) == \A c \in tos : IsCandidate(c)

\* Mutant: a second Delegate replaces the stake of the first.
LockReplacing(d, value) ==
    /\ balance' = [balance EXCEPT ![d] = @ - value]
    /\ locked' = [locked EXCEPT ![d] = value]
    /\ delegateTime' = [delegateTime EXCEPT ![d] = time]
    /\ UNCHANGED <<unlocked, unDelegateTime>>

Lock(d, value) ==
    /\ balance' = [balance EXCEPT ![d] = @ - value]
    /\ locked' = [locked EXCEPT ![d] = @ + value]
    /\ delegateTime' = [delegateTime EXCEPT ![d] = time]
    /\ UNCHANGED <<unlocked, unDelegateTime>>

\* A Delegate whose balance does not suffice, or which names an account that is
\* no candidate (the stake is reverted), changes nothing and costs nothing.
Delegate(d, value, tos) ==
    /\ gp >= TxGas
    /\ value >= MinDelegateState
    /\ balance[d] >= value
    /\ AreCandidates(tos)
    /\ Lock(d, value)
    /\ DelegateTo(d, tos)
    /\ UNCHANGED <<gp, time>>

Unlock(d, value) ==
    /\ locked' = [locked EXCEPT ![d] = @ - value]
    /\ unlocked' = [unlocked EXCEPT ![d] = @ + value]
    /\ unDelegateTime' = [unDelegateTime EXCEPT ![d] = IF value > 0 THEN time ELSE @]
    /\ UNCHANGED <<balance, delegateTime>>

\* An UnDelegate that fails one of these costs nothing and changes nothing.
Unlockable(d, value) ==
    value > 0 => time - delegateTime[d] >= MinDelegateDuration /\ locked[d] >= value

\* The votes go with the last of the stake.
UnDelegate(d, value) ==
    /\ gp >= TxGas
    /\ Unlockable(d, value)
    /\ Unlock(d, value)
    /\ IF locked[d] = value THEN DropVotes(d) ELSE UNCHANGED tries
    /\ UNCHANGED <<gp, time>>

Redeemable(a) == time >= unDelegateTime[a] + DelayDuration

Redeem(a, gas) ==
    /\ Charge(a, gas)
    /\ balance' = [balance EXCEPT ![a] = IF Redeemable(a) THEN @ - gas + unlocked[a] ELSE @ - gas]
    /\ unlocked' = [unlocked EXCEPT ![a] = IF Redeemable(a) THEN 0 ELSE @]
    /\ UNCHANGED <<tries, locked, delegateTime, unDelegateTime, time>>

\* The next block: a later timestamp and a full gas pool.
NextBlock ==
    /\ time' \in (time + 1) .. MaxTime
    /\ gp' = BlockGas
    /\ UNCHANGED <<tries, balance, stakes>>

Next ==
    \/ \E a \in Account :
          \/ \E gas \in IntrinsicGas : \/ OutOfGas(a, gas)
                                       \/ LoginCandidate(a, gas)
                                       \/ LogoutCandidate(a, gas)
                                       \/ Redeem(a, gas)
          \/ \E value \in Amount : \/ UnDelegate(a, value)
                                   \/ \E tos \in SUBSET Account : Delegate(a, value, tos)
    \/ NextBlock

Spec == Init /\ [][Next]_vars

-----------------------------------------------------------------------------
(* Properties *)

\* Type invariant of the tries and the balances: in particular no handler of
\* applyDposMessage takes a balance below zero.
TypeOK ==
    /\ candidateTrie \in [Account -> Nat]
    /\ delegateTrie \in SUBSET (Account \X Account)
    /\ voteTrie \in [Account -> SUBSET Account]
    /\ balance \in [Account -> Nat]
    /\ locked \in [Account -> Nat]
    /\ unlocked \in [Account -> Nat]
    /\ delegateTime \in [Account -> Nat]
    /\ unDelegateTime \in [Account -> Nat]
    /\ gp \in Nat
    /\ time \in Nat

\* The two tries that record votes say the same, and every vote is for a
\* candidate: after any sequence of logins, logouts, delegations and
\* undelegations CountVotes counts exactly the votes the delegators see, and
\* KickoutCandidate finds a vote entry for every delegator.
VotesConsistent ==
    /\ delegateTrie = {p \in Account \X Account : p[1] \in voteTrie[p[2]]}
    /\ \A d \in Account : \A c \in voteTrie[d] : IsCandidate(c)

\* Whoever has a vote has a stake behind it: no partial undelegation, logout of
\* a candidate or failed message leaves a vote whose stake is gone.
StakeBacksVotes == \A d \in Account : voteTrie[d] # {} => locked[d] > 0

Holdings(a) == balance[a] + locked[a] + unlocked[a]

\* No message creates tokens, and none destroys or moves to another account
\* more than the fee of its sender: staking, unstaking and redeeming, complete
\* or failed, only shift tokens between the three balances of one account.
HoldingsConserved ==
    [][\A a \in Account :
          Holdings(a)' # Holdings(a) =>
              /\ Holdings(a) - Holdings(a)' \in IntrinsicGas
              /\ locked' = locked
              /\ \A b \in Account \ {a} : Holdings(b)' = Holdings(b)]_vars
=============================================================================
