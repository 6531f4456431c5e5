--------------------------- MODULE AccountProofs ----------------------------
(***************************************************************************)
(* What accounts stake and what they offer.                                *)
(*                                                                         *)
(* Voting, for any set of accounts, any genesis balances and any           *)
(* durations: VotesConsistent and StakeBacksVotes are inductive together   *)
(* with the types.  The two tries agree before a message, so that the      *)
(* pairs a handler deletes are all the pairs of the delegator (Pairs) or   *)
(* of the candidate.                                                       *)
(*                                                                         *)
(* The heap of prices, for any transactions, prices and capacity: its      *)
(* guarantees rest on Covered, whatever is in the pool has an entry that   *)
(* is still in the heap, unless the call under way has just popped it.     *)
(* And the miner's gas limit is accepted, for any divisor, minimum and     *)
(* target.                                                                 *)
(***************************************************************************)
EXTENDS Voting, PriceHeap, GasLimit, FiniteSetTheorems, TLAPS

-----------------------------------------------------------------------------
(* Votes *)


IInv == TypeOK /\ VotesConsistent /\ StakeBacksVotes

\* The genesis block satisfies the inductive invariant.
LEMMA InitInv == Init => IInv
<1>1. ASSUME Init PROVE TypeOK
  BY <1>1, VotingConstants, Zenon DEF Init, TypeOK, FullWeight
<1>2. ASSUME Init PROVE VotesConsistent
  BY <1>2, Zenon DEF Init, VotesConsistent
<1>3. ASSUME Init PROVE StakeBacksVotes
  BY <1>3, Zenon DEF Init, StakeBacksVotes
<1> QED BY <1>1, <1>2, <1>3, Zenon DEF IInv

\* DposContext.BecomeCandidate keeps the tries in agreement.
LEMMA BecomeCandidateKeeps ==
  ASSUME IInv, NEW a \in Account, BecomeCandidate(a)
  PROVE  /\ candidateTrie' \in [Account -> Nat]
         /\ VotesConsistent'
         /\ voteTrie' = voteTrie /\ delegateTrie' = delegateTrie
<1>1. /\ candidateTrie' = [candidateTrie EXCEPT ![a] = IF IsCandidate(a) THEN @ ELSE FullWeight]
      /\ voteTrie' = voteTrie /\ delegateTrie' = delegateTrie
  BY Zenon DEF BecomeCandidate
<1>2. candidateTrie \in [Account -> Nat]
  BY Zenon DEF IInv, TypeOK
<1>3. candidateTrie' \in [Account -> Nat]
  BY <1>1, <1>2, Zenon DEF FullWeight
<1>4. \A c \in Account : candidateTrie[c] > 0 => candidateTrie'[c] > 0
  BY <1>1, <1>2, Zenon DEF FullWeight, IsCandidate
<1>5. VotesConsistent
  BY Zenon DEF IInv
<1>6. voteTrie \in [Account -> SUBSET Account]
  BY Zenon DEF IInv, TypeOK
<1>7. VotesConsistent'
  BY <1>1, <1>4, <1>5, <1>6, Zenon DEF VotesConsistent, IsCandidate
<1> QED BY Zenon, <1>1, <1>3, <1>7

\* KickoutCandidate takes the candidate out of both tries: its loop over the
\* delegate trie reaches every vote for the candidate.
LEMMA KickoutCandidateKeeps ==
  ASSUME IInv, NEW c \in Account, KickoutCandidate(c)
  PROVE  /\ candidateTrie' \in [Account -> Nat]
         /\ delegateTrie' \in SUBSET (Account \X Account)
         /\ voteTrie' \in [Account -> SUBSET Account]
         /\ VotesConsistent'
         /\ \A d \in Account : voteTrie'[d] \subseteq voteTrie[d]
<1>1. /\ candidateTrie \in [Account -> Nat]
      /\ delegateTrie \in SUBSET (Account \X Account)
      /\ voteTrie \in [Account -> SUBSET Account]
      /\ VotesConsistent
  BY Zenon DEF IInv, TypeOK
<1>2. CASE IsCandidate(c)
  <2>1. /\ candidateTrie' = [candidateTrie EXCEPT ![c] = 0]
        /\ delegateTrie' = {p \in delegateTrie : p[1] # c}
        /\ voteTrie' = [d \in Account |-> IF <<c, d>> \in delegateTrie THEN voteTrie[d] \ {c}
                                                                       ELSE voteTrie[d]]
    BY <1>2, Zenon DEF KickoutCandidate
  <2>2. \A d \in Account : voteTrie'[d] = voteTrie[d] \ {c}
    BY <1>1, <2>1, Zenon DEF VotesConsistent
  <2>3. delegateTrie' = {p \in Account \X Account : p[1] \in voteTrie'[p[2]]}
    BY <1>1, <2>1, <2>2, Zenon DEF VotesConsistent
  <2>4. \A d \in Account : \A e \in voteTrie'[d] : candidateTrie'[e] > 0
    BY <1>1, <2>1, <2>2, Zenon DEF VotesConsistent, IsCandidate
  <2>5. VotesConsistent'
    BY <2>3, <2>4, Zenon DEF VotesConsistent, IsCandidate
  <2>6. voteTrie' \in [Account -> SUBSET Account]
    BY Zenon, <1>1, <2>1
  <2>7. candidateTrie' \in [Account -> Nat]
    BY Zenon, <1>1, <2>1
  <2>8. delegateTrie' \in SUBSET (Account \X Account)
    BY Zenon, <1>1, <2>1
  <2> QED BY Zenon, <2>2, <2>5, <2>6, <2>7, <2>8
<1>3. CASE ~IsCandidate(c)
  <2>1. candidateTrie' = candidateTrie /\ delegateTrie' = delegateTrie /\ voteTrie' = voteTrie
    BY <1>3, Zenon DEF KickoutCandidate, tries
  <2> QED BY <1>1, <2>1, Zenon DEF VotesConsistent, IsCandidate
<1> QED BY Zenon, <1>2, <1>3

\* DposContext.Delegate replaces the old pairs of the delegator by the new ones.
LEMMA DelegateToKeeps ==
  ASSUME IInv, NEW d \in Account, NEW tos \in SUBSET Account,
         AreCandidates(tos), DelegateTo(d, tos)
  PROVE  /\ candidateTrie' = candidateTrie
         /\ delegateTrie' \in SUBSET (Account \X Account)
         /\ voteTrie' = [voteTrie EXCEPT ![d] = tos]
         /\ VotesConsistent'
<1>1. /\ delegateTrie \in SUBSET (Account \X Account)
      /\ voteTrie \in [Account -> SUBSET Account]
      /\ VotesConsistent
  BY Zenon DEF IInv, TypeOK
<1>2. /\ delegateTrie' = (delegateTrie \ Pairs(d)) \cup {<<c, d>> : c \in tos}
      /\ voteTrie' = [voteTrie EXCEPT ![d] = tos]
      /\ candidateTrie' = candidateTrie
  BY Zenon DEF DelegateTo
<1>3. delegateTrie' \in SUBSET (Account \X Account)
  BY <1>1, <1>2
<1>4. \A p \in Account \X Account : p \in Pairs(d) <=> p[2] = d /\ p[1] \in voteTrie[d]
  BY <1>1 DEF Pairs
<1>5. \A p \in Account \X Account : p \in {<<c, d>> : c \in tos} <=> p[2] = d /\ p[1] \in tos
  OBVIOUS
<1>6. \A p \in Account \X Account : p \in delegateTrie' <=> p[1] \in voteTrie'[p[2]]
  BY <1>1, <1>2, <1>4, <1>5, Zenon DEF VotesConsistent
<1>7. \A e \in Account : \A c \in voteTrie'[e] : candidateTrie'[c] > 0
  BY <1>1, <1>2, Zenon DEF VotesConsistent, AreCandidates, IsCandidate
<1>8. VotesConsistent'
  BY <1>3, <1>6, <1>7, Zenon DEF VotesConsistent, IsCandidate
<1> QED BY Zenon, <1>2, <1>3, <1>8

\* Dropping the votes is delegating to nobody.
LEMMA DropVotesKeeps ==
  ASSUME IInv, NEW d \in Account, DropVotes(d)
  PROVE  /\ candidateTrie' = candidateTrie
         /\ delegateTrie' \in SUBSET (Account \X Account)
         /\ voteTrie' = [voteTrie EXCEPT ![d] = {}]
         /\ VotesConsistent'
<1>1. DelegateTo(d, {})
  BY Zenon DEF DropVotes, DelegateTo
<1>2. AreCandidates({})
  BY Zenon DEF AreCandidates
<1> QED BY Zenon, <1>1, <1>2, DelegateToKeeps

-----------------------------------------------------------------------------

\* A message that leaves the tries and the locked balances alone keeps the
\* agreement of the tries and the stakes.
LEMMA SameTriesKeep ==
  ASSUME IInv, UNCHANGED tries, locked' = locked
  PROVE  VotesConsistent' /\ StakeBacksVotes'
<1>1. candidateTrie' = candidateTrie /\ delegateTrie' = delegateTrie /\ voteTrie' = voteTrie
  BY Zenon DEF tries
<1> QED BY <1>1, Zenon DEF IInv, VotesConsistent, StakeBacksVotes, IsCandidate

\* A message that was not paid for, or only paid for, keeps the invariant.
LEMMA OutOfGasInv ==
  ASSUME IInv, NEW a \in Account, NEW gas \in IntrinsicGas, OutOfGas(a, gas)
  PROVE  IInv'
<1>1. gas \in Nat
  BY VotingConstants DEF IntrinsicGas
<1>2. TypeOK'
  BY <1>1 DEF IInv, TypeOK, OutOfGas, tries, stakes
<1>3. VotesConsistent' /\ StakeBacksVotes'
  BY SameTriesKeep, Zenon DEF OutOfGas, stakes
<1> QED BY <1>2, <1>3, Zenon DEF IInv

\* The fee never exceeds the balance nor the gas pool.
LEMMA ChargeTypes ==
  ASSUME IInv, NEW a \in Account, NEW gas \in IntrinsicGas, Charge(a, gas)
  PROVE  /\ gp' \in Nat
         /\ [balance EXCEPT ![a] = @ - gas] \in [Account -> Nat]
<1>1. gas \in Nat /\ TxGas \in Nat
  BY VotingConstants DEF IntrinsicGas
<1> QED BY <1>1 DEF IInv, TypeOK, Charge

\* Registering a candidate keeps the invariant.
LEMMA LoginCandidateInv ==
  ASSUME IInv, NEW a \in Account, NEW gas \in IntrinsicGas, LoginCandidate(a, gas)
  PROVE  IInv'
<1>1. /\ gp' \in Nat /\ balance' \in [Account -> Nat]
      /\ UNCHANGED <<locked, unlocked, delegateTime, unDelegateTime, time>>
  BY ChargeTypes, Zenon DEF LoginCandidate, stakes
<1>2. /\ candidateTrie' \in [Account -> Nat]
      /\ VotesConsistent'
      /\ voteTrie' = voteTrie /\ delegateTrie' = delegateTrie
  BY BecomeCandidateKeeps, Zenon DEF LoginCandidate
<1>3. TypeOK'
  BY <1>1, <1>2, Zenon DEF IInv, TypeOK
<1>4. StakeBacksVotes'
  BY <1>2, Zenon DEF IInv, StakeBacksVotes, LoginCandidate, stakes
<1> QED BY <1>2, <1>3, <1>4, Zenon DEF IInv

\* A candidate that leaves takes votes away and touches no stake.
LEMMA LogoutCandidateInv ==
  ASSUME IInv, NEW a \in Account, NEW gas \in IntrinsicGas, LogoutCandidate(a, gas)
  PROVE  IInv'
<1>1. /\ gp' \in Nat /\ balance' \in [Account -> Nat]
      /\ UNCHANGED <<locked, unlocked, delegateTime, unDelegateTime, time>>
  BY ChargeTypes, Zenon DEF LogoutCandidate, stakes
<1>2. /\ candidateTrie' \in [Account -> Nat]
      /\ delegateTrie' \in SUBSET (Account \X Account)
      /\ voteTrie' \in [Account -> SUBSET Account]
      /\ VotesConsistent'
      /\ \A d \in Account : voteTrie'[d] \subseteq voteTrie[d]
  BY KickoutCandidateKeeps, Zenon DEF LogoutCandidate
<1>3. TypeOK'
  BY <1>1, <1>2, Zenon DEF IInv, TypeOK
<1>4. StakeBacksVotes'
  BY <1>2, Zenon DEF IInv, StakeBacksVotes, LogoutCandidate, stakes
<1> QED BY <1>2, <1>3, <1>4, Zenon DEF IInv

\* A delegation locks at least MinDelegateState behind its votes.
LEMMA DelegateInv ==
  ASSUME IInv, NEW d \in Account, NEW value \in Amount, NEW tos \in SUBSET Account,
         Delegate(d, value, tos)
  PROVE  IInv'
<1>1. value \in Nat /\ value > 0
  BY VotingConstants DEF Amount, Delegate
<1>2. /\ candidateTrie' = candidateTrie
      /\ delegateTrie' \in SUBSET (Account \X Account)
      /\ voteTrie' = [voteTrie EXCEPT ![d] = tos]
      /\ VotesConsistent'
  BY DelegateToKeeps, Zenon DEF Delegate
<1>3. TypeOK'
  BY <1>1, <1>2 DEF IInv, TypeOK, Delegate, Lock
<1>4. StakeBacksVotes'
  BY <1>1, <1>2 DEF IInv, TypeOK, StakeBacksVotes, Delegate, Lock
<1> QED BY <1>2, <1>3, <1>4, Zenon DEF IInv

\* An undelegation that empties the stake drops the votes with it.
LEMMA UnDelegateInv ==
  ASSUME IInv, NEW d \in Account, NEW value \in Amount, UnDelegate(d, value)
  PROVE  IInv'
<1>1. value \in Nat /\ locked[d] \in Nat /\ locked[d] - value \in Nat
  BY VotingConstants DEF Amount, UnDelegate, Unlockable, IInv, TypeOK
<1>2. /\ locked' = [locked EXCEPT ![d] = locked[d] - value]
      /\ balance' = balance /\ delegateTime' = delegateTime
      /\ gp' = gp /\ time' = time
  BY Zenon DEF UnDelegate, Unlock
<1>3. unlocked' \in [Account -> Nat] /\ unDelegateTime' \in [Account -> Nat]
  BY <1>1 DEF IInv, TypeOK, UnDelegate, Unlock
<1>4. CASE locked[d] = value
  <2>1. /\ candidateTrie' = candidateTrie
        /\ delegateTrie' \in SUBSET (Account \X Account)
        /\ voteTrie' = [voteTrie EXCEPT ![d] = {}]
        /\ VotesConsistent'
    BY <1>4, DropVotesKeeps, Zenon DEF UnDelegate
  <2>2. TypeOK'
    BY <1>1, <1>2, <1>3, <2>1, Zenon DEF IInv, TypeOK
  <2>3. StakeBacksVotes'
    BY <1>1, <1>2, <2>1, Zenon DEF IInv, TypeOK, StakeBacksVotes
  <2> QED BY <2>1, <2>2, <2>3, Zenon DEF IInv
<1>5. CASE locked[d] # value
  <2>1. candidateTrie' = candidateTrie /\ delegateTrie' = delegateTrie /\ voteTrie' = voteTrie
    BY <1>5, Zenon DEF UnDelegate, tries
  <2>2. TypeOK'
    BY <1>1, <1>2, <1>3, <2>1, Zenon DEF IInv, TypeOK
  <2>3. VotesConsistent'
    BY <2>1, Zenon DEF IInv, VotesConsistent, IsCandidate
  <2>4. StakeBacksVotes'
    BY <1>1, <1>2, <1>5, <2>1 DEF IInv, TypeOK, StakeBacksVotes
  <2> QED BY <2>2, <2>3, <2>4, Zenon DEF IInv
<1> QED BY Zenon, <1>4, <1>5

\* Redeeming moves unlocked tokens only.
LEMMA RedeemInv ==
  ASSUME IInv, NEW a \in Account, NEW gas \in IntrinsicGas, Redeem(a, gas)
  PROVE  IInv'
<1>1. gas \in Nat
  BY VotingConstants DEF IntrinsicGas
<1>2. TypeOK'
  BY <1>1 DEF IInv, TypeOK, Redeem, Charge, tries
<1>3. VotesConsistent' /\ StakeBacksVotes'
  BY SameTriesKeep, Zenon DEF Redeem
<1> QED BY <1>2, <1>3 DEF IInv

\* A new block changes the clock and the gas pool only.
LEMMA NextBlockInv ==
  ASSUME IInv, NextBlock
  PROVE  IInv'
<1>1. TypeOK'
  BY VotingConstants DEF IInv, TypeOK, NextBlock, tries, stakes
<1>2. VotesConsistent' /\ StakeBacksVotes'
  BY SameTriesKeep, Zenon DEF NextBlock, stakes
<1> QED BY <1>1, <1>2, Zenon DEF IInv

\* The invariant holds in every reachable state.
THEOREM Invariance == Spec => []IInv
<1>1. IInv /\ [Next]_vars => IInv'
  <2> SUFFICES ASSUME IInv, [Next]_vars PROVE IInv'
    BY Zenon
  <2>1. CASE UNCHANGED vars
    <3>1. TypeOK'
      BY <2>1, Zenon DEF IInv, TypeOK, vars, tries, stakes
    <3>2. VotesConsistent' /\ StakeBacksVotes'
      BY <2>1, SameTriesKeep, Zenon DEF vars, stakes
    <3> QED BY <3>1, <3>2, Zenon DEF IInv
  <2>2. CASE Next
    BY Zenon, <2>2, OutOfGasInv, LoginCandidateInv, LogoutCandidateInv, DelegateInv, UnDelegateInv,
       RedeemInv, NextBlockInv DEF Next
  <2> QED BY Zenon, <2>1, <2>2
<1> QED BY <1>1, InitInv, PTL DEF Spec

\* Every message keeps the balances natural numbers and the tries well formed:
\* no handler takes more than there is.
THEOREM TypeCorrect == Spec => []TypeOK
<1>1. IInv => TypeOK
  BY Zenon DEF IInv
<1> QED BY <1>1, Invariance, PTL

\* The delegate trie and the vote trie of dposcontext.go never disagree, and no
\* vote survives the candidate it was for.
THEOREM VotesConsistentCorrect == Spec => []VotesConsistent
<1>1. IInv => VotesConsistent
  BY Zenon DEF IInv
<1> QED BY <1>1, Invariance, PTL

\* No sequence of messages leaves a vote without a stake.
THEOREM StakeBacksVotesCorrect == Spec => []StakeBacksVotes
<1>1. IInv => StakeBacksVotes
  BY Zenon DEF IInv
<1> QED BY <1>1, Invariance, PTL

-----------------------------------------------------------------------------

\* A step that takes an amount from one account and leaves the others alone.
LEMMA FeeOnly ==
  ASSUME NEW a \in Account, NEW gas \in IntrinsicGas, Holdings(a)' = Holdings(a) - gas,
         \A b \in Account \ {a} : Holdings(b)' = Holdings(b), Holdings(a) \in Nat,
         locked' = locked
  PROVE  \A c \in Account :
            Holdings(c)' # Holdings(c) =>
                /\ Holdings(c) - Holdings(c)' \in IntrinsicGas
                /\ locked' = locked
                /\ \A b \in Account \ {c} : Holdings(b)' = Holdings(b)
<1>1. gas \in Nat
  BY VotingConstants DEF IntrinsicGas
<1>2. Holdings(a) - Holdings(a)' = gas
  BY <1>1
<1>3. SUFFICES ASSUME NEW c \in Account, Holdings(c)' # Holdings(c)
               PROVE  c = a
  BY Zenon, <1>2
<1> QED BY Zenon, <1>3

\* What an account holds is a natural number.
LEMMA HoldingsNat ==
  ASSUME IInv, NEW a \in Account
  PROVE  Holdings(a) \in Nat
BY DEF IInv, TypeOK, Holdings

\* Tokens are conserved: every message but for its fee, for any number of
\* accounts and in any order.
THEOREM HoldingsConservedCorrect == Spec => HoldingsConserved
<1> DEFINE Conserved ==
      \A a \in Account :
          Holdings(a)' # Holdings(a) =>
              /\ Holdings(a) - Holdings(a)' \in IntrinsicGas
              /\ locked' = locked
              /\ \A b \in Account \ {a} : Holdings(b)' = Holdings(b)
<1>1. ASSUME IInv, NEW a \in Account, NEW gas \in IntrinsicGas,
             OutOfGas(a, gas) \/ LoginCandidate(a, gas) \/ LogoutCandidate(a, gas)
      PROVE  Conserved
  <2>1. /\ balance' = [balance EXCEPT ![a] = balance[a] - gas]
        /\ locked' = locked /\ unlocked' = unlocked
    BY <1>1, Zenon DEF OutOfGas, LoginCandidate, LogoutCandidate, stakes
  <2>2. gas \in Nat
    BY VotingConstants DEF IntrinsicGas
  <2>3. Holdings(a)' = Holdings(a) - gas /\ \A b \in Account \ {a} : Holdings(b)' = Holdings(b)
    BY <1>1, <2>1, <2>2 DEF IInv, TypeOK, Holdings
  <2> QED BY Zenon, <1>1, <2>1, <2>3, HoldingsNat, FeeOnly
<1>2. ASSUME IInv, NEW a \in Account, NEW gas \in IntrinsicGas, Redeem(a, gas)
      PROVE  Conserved
  <2>1. /\ balance' = [balance EXCEPT ![a] = IF Redeemable(a) THEN balance[a] - gas + unlocked[a]
                                                              ELSE balance[a] - gas]
        /\ unlocked' = [unlocked EXCEPT ![a] = IF Redeemable(a) THEN 0 ELSE unlocked[a]]
        /\ locked' = locked
    BY <1>2, Zenon DEF Redeem
  <2>2. gas \in Nat
    BY VotingConstants DEF IntrinsicGas
  <2>3. Holdings(a)' = Holdings(a) - gas /\ \A b \in Account \ {a} : Holdings(b)' = Holdings(b)
    BY <1>2, <2>1, <2>2 DEF IInv, TypeOK, Holdings
  <2> QED BY Zenon, <1>2, <2>1, <2>3, HoldingsNat, FeeOnly
<1>3. ASSUME IInv, NEW d \in Account, NEW value \in Amount, NEW tos \in SUBSET Account,
             Delegate(d, value, tos)
      PROVE  Conserved
  <2>1. /\ balance' = [balance EXCEPT ![d] = balance[d] - value]
        /\ locked' = [locked EXCEPT ![d] = locked[d] + value]
        /\ unlocked' = unlocked
    BY <1>3, Zenon DEF Delegate, Lock
  <2>2. value \in Nat
    BY VotingConstants DEF Amount
  <2>3. \A b \in Account : Holdings(b)' = Holdings(b)
    BY <1>3, <2>1, <2>2 DEF IInv, TypeOK, Holdings
  <2> QED BY Zenon, <2>3
<1>4. ASSUME IInv, NEW d \in Account, NEW value \in Amount, UnDelegate(d, value)
      PROVE  Conserved
  <2>1. /\ locked' = [locked EXCEPT ![d] = locked[d] - value]
        /\ unlocked' = [unlocked EXCEPT ![d] = unlocked[d] + value]
        /\ balance' = balance
    BY <1>4, Zenon DEF UnDelegate, Unlock
  <2>2. value \in Nat
    BY VotingConstants DEF Amount
  <2>3. \A b \in Account : Holdings(b)' = Holdings(b)
    BY <1>4, <2>1, <2>2 DEF IInv, TypeOK, Holdings
  <2> QED BY Zenon, <2>3
<1>5. ASSUME NextBlock \/ UNCHANGED vars
      PROVE  Conserved
  <2>1. balance' = balance /\ locked' = locked /\ unlocked' = unlocked
    BY <1>5, Zenon DEF NextBlock, vars, stakes
  <2> QED BY <2>1, Zenon DEF Holdings
<1>6. IInv /\ [Next]_vars => [Conserved]_vars
  BY <1>1, <1>2, <1>3, <1>4, <1>5, Zenon DEF Next
<1> QED BY <1>6, Invariance, PTL DEF Spec, HoldingsConserved

-----------------------------------------------------------------------------
(* Prices and the gas limit *)


HeapTypeOK ==
    /\ all \in SUBSET Pooled /\ IsFiniteSet(all)
    /\ items \in [Pooled -> Nat]
    /\ op \in {"idle", "underpriced", "discard", "put", "cap"}
    /\ incoming \in Pooled /\ count \in Int /\ drop \in SUBSET Pooled /\ floor \in Nat

Covered == \A t \in all : items[t] > 0 \/ t \in drop

DropInv ==
    /\ op \notin {"discard", "cap"} => drop = {}
    /\ op = "discard" => \A d \in drop : \A k \in all \ drop : ~Less(k, d)

\* Discard is only ever asked for one transaction.
RoomInv ==
    /\ Cardinality(all) <= Capacity
    /\ op = "underpriced" => Cardinality(all) = Capacity
    /\ op = "discard" => /\ Cardinality(all) = Capacity
                         /\ \/ count = 1 /\ drop = {}
                            \/ count = 0 /\ \E t \in all : drop = {t}
    /\ op = "put" => Cardinality(all) < Capacity

HeapInv == HeapTypeOK /\ Covered /\ DropInv /\ RoomInv

-----------------------------------------------------------------------------
\* Removed keeps an entry for everything in the index A, and gives entries to
\* no more than transactions.
LEMMA RemovedCovers ==
    ASSUME HeapTypeOK, NEW A \in SUBSET Pooled, \A t \in A : items[t] > 0
    PROVE  /\ Removed(A).items \in [Pooled -> Nat]
           /\ \A t \in A : Removed(A).items[t] > 0
<1>1. CASE stales + 1 <= Total(items) \div 4
  BY <1>1, Zenon DEF Removed, HeapTypeOK
<1>2. CASE ~(stales + 1 <= Total(items) \div 4)
  BY <1>2 DEF Removed, HeapTypeOK
<1> QED BY Zenon, <1>1, <1>2

\* A transaction put beside the others or in place of one has an entry, and
\* the pool grows by one at most.
LEMMA PutKeeps ==
    ASSUME HeapTypeOK, Covered, drop = {}, NEW t \in Pooled, Put(t)
    PROVE  /\ all' \in SUBSET Pooled /\ IsFiniteSet(all') /\ items' \in [Pooled -> Nat]
           /\ \A u \in all' : items'[u] > 0
           /\ Cardinality(all') <= Cardinality(all) + 1
<1>1. CASE all' = all \cup {t} /\ items' = [items EXCEPT ![t] = @ + 1]
  <2>1. \A u \in all : items[u] > 0
    BY Zenon DEF Covered
  <2>2. items' \in [Pooled -> Nat] /\ \A u \in all' : items'[u] > 0
    BY <1>1, <2>1 DEF HeapTypeOK
  <2>3. IsFiniteSet(all) /\ Cardinality(all) \in Nat
    BY FS_CardinalityType, Zenon DEF HeapTypeOK
  <2>4. /\ IsFiniteSet(all \cup {t})
        /\ Cardinality(all \cup {t}) = Cardinality(all) \/ Cardinality(all \cup {t}) = Cardinality(all) + 1
    BY Zenon, <2>3, FS_AddElement
  <2>5. IsFiniteSet(all') /\ Cardinality(all') <= Cardinality(all) + 1
    BY <1>1, <2>3, <2>4
  <2> QED BY <1>1, <2>2, <2>5, Zenon DEF HeapTypeOK
<1>2. ASSUME NEW old \in all, all' = (all \ {old}) \cup {t},
             items' = [Removed(all \ {old}).items EXCEPT ![t] = @ + 1]
      PROVE  /\ all' \in SUBSET Pooled /\ IsFiniteSet(all') /\ items' \in [Pooled -> Nat]
             /\ \A u \in all' : items'[u] > 0
             /\ Cardinality(all') <= Cardinality(all) + 1
  <2> DEFINE A == all \ {old}
  <2> DEFINE its == Removed(A).items
  <2>1. its \in [Pooled -> Nat] /\ \A u \in A : its[u] > 0
    BY RemovedCovers, Zenon DEF Covered, HeapTypeOK
  <2>2. items' = [its EXCEPT ![t] = @ + 1] /\ all' = A \cup {t}
    BY Zenon, <1>2
  <2>3. IsFiniteSet(A) /\ Cardinality(A) = Cardinality(all) - 1 /\ Cardinality(all) \in Nat /\ A \subseteq Pooled
    BY FS_RemoveElement, FS_CardinalityType, Zenon DEF HeapTypeOK
  <2> HIDE DEF its, A
  <2>4. items' \in [Pooled -> Nat] /\ \A u \in all' : items'[u] > 0
    BY <2>1, <2>2, <2>3
  <2>5. IsFiniteSet(A \cup {t}) /\ (Cardinality(A \cup {t}) = Cardinality(A) \/ Cardinality(A \cup {t}) = Cardinality(A) + 1)
    BY Zenon, <2>3, FS_AddElement
  <2>6. IsFiniteSet(all') /\ Cardinality(all') <= Cardinality(all) + 1
    BY <2>2, <2>3, <2>5
  <2> QED BY Zenon, <2>2, <2>3, <2>4, <2>6
<1> QED BY <1>1, <1>2, Zenon DEF Put

-----------------------------------------------------------------------------
\* The invariant holds for the empty pool.
LEMMA HeapInitInv == HeapInit => HeapInv
<1> SUFFICES ASSUME HeapInit PROVE HeapInv BY Zenon
<1>1. IsFiniteSet(all) /\ Cardinality(all) = 0
  BY FS_EmptySet, Zenon DEF HeapInit
<1> QED BY <1>1, PriceConstants DEF HeapInit, HeapInv, HeapTypeOK, Covered, DropInv, RoomInv

\* Every operation of the pool keeps the invariant.
LEMMA NextInv == HeapInv /\ [HeapNext]_heapVars => HeapInv'
<1> SUFFICES ASSUME HeapInv, [HeapNext]_heapVars PROVE HeapInv' BY Zenon
<1> USE PriceConstants
<1>0. Cardinality(all) \in Nat
  BY FS_CardinalityType, Zenon DEF HeapInv, HeapTypeOK
<1>1. ASSUME NEW t \in Pooled, Leave(t) PROVE HeapInv'
  <2>1. drop = {} /\ \A u \in all : items[u] > 0
    BY <1>1, Zenon DEF HeapInv, DropInv, Covered, Leave
  <2>2. /\ Removed(all \ {t}).items \in [Pooled -> Nat]
        /\ \A u \in all \ {t} : Removed(all \ {t}).items[u] > 0
    BY <2>1, RemovedCovers, Zenon DEF HeapInv, HeapTypeOK
  <2>3. IsFiniteSet(all \ {t}) /\ Cardinality(all \ {t}) = Cardinality(all) - 1
    BY <1>1, FS_RemoveElement, Zenon DEF HeapInv, HeapTypeOK, Leave
  <2>4. HeapTypeOK' /\ Covered' /\ DropInv'
    BY <1>1, <2>1, <2>2, <2>3, Zenon DEF Leave, HeapInv, HeapTypeOK, Covered, DropInv
  <2>5. RoomInv'
    BY <1>0, <1>1, <2>3 DEF Leave, HeapInv, RoomInv
  <2> QED BY <2>4, <2>5, Zenon DEF HeapInv
<1>2. ASSUME NEW t \in Pooled, Add(t) PROVE HeapInv'
  <2>1. drop = {}
    BY <1>2, Zenon DEF HeapInv, DropInv, Add
  <2>2. /\ all' \in SUBSET Pooled /\ IsFiniteSet(all') /\ items' \in [Pooled -> Nat]
        /\ \A u \in all' : items'[u] > 0
        /\ Cardinality(all') <= Cardinality(all) + 1
    BY <1>2, <2>1, PutKeeps, Zenon DEF Add, HeapInv
  <2>3. HeapTypeOK' /\ Covered' /\ DropInv'
    BY <1>2, <2>1, <2>2, Zenon DEF Add, HeapInv, HeapTypeOK, Covered, DropInv
  <2>4. RoomInv'
    BY <1>0, <1>2, <2>2, FS_CardinalityType DEF Add, RoomInv
  <2> QED BY <2>3, <2>4 DEF HeapInv
<1>3. ASSUME NEW t \in Pooled, AddFull(t) PROVE HeapInv'
  BY <1>0, <1>3 DEF AddFull, heap, HeapInv, HeapTypeOK, Covered, DropInv, RoomInv
<1>4. CASE PopStale
  <2> PICK t \in Heads \ all : Popped(t)
    BY <1>4, Zenon DEF PopStale
  <2>1. t \in Pooled /\ items[t] > 0
    BY Zenon DEF Heads
  <2>2. HeapTypeOK'
    BY <1>4, <2>1 DEF PopStale, Popped, HeapInv, HeapTypeOK
  <2>3. Covered' /\ DropInv' /\ RoomInv'
    BY <1>4, <2>1, Zenon DEF PopStale, Popped, HeapInv, HeapTypeOK, Covered, DropInv, RoomInv, Less
  <2> QED BY <2>2, <2>3, Zenon DEF HeapInv
<1>5. CASE Judge
  BY <1>0, <1>5 DEF Judge, heap, HeapInv, HeapTypeOK, Covered, DropInv, RoomInv
<1>6. CASE DiscardPop
  <2> PICK t \in Heads \cap all : Popped(t) /\ drop' = drop \cup {t}
    BY <1>6, Zenon DEF DiscardPop
  <2>1. t \in Pooled /\ items[t] > 0 /\ \A u \in Pooled : items[u] > 0 => ~Less(u, t)
    BY Zenon DEF Heads
  <2>2. HeapTypeOK'
    BY <1>6, <2>1 DEF DiscardPop, Popped, HeapInv, HeapTypeOK
  <2>3. Covered'
    BY <1>6, <2>1, Zenon DEF DiscardPop, Popped, HeapInv, HeapTypeOK, Covered
  <2>4. \A d \in drop' : \A k \in all \ drop' : ~Less(k, d)
    BY <1>6, <2>1 DEF DiscardPop, HeapInv, HeapTypeOK, Covered, DropInv
  <2>5. DropInv'
    BY <1>6, <2>4, Zenon DEF DiscardPop, DropInv, Less
  <2>6. RoomInv'
    BY <1>0, <1>6 DEF DiscardPop, HeapInv, RoomInv
  <2> QED BY <2>2, <2>3, <2>5, <2>6, Zenon DEF HeapInv
<1>7. CASE DiscardEnd
  <2>1. HeapTypeOK' /\ Covered' /\ DropInv'
    <3>1. IsFiniteSet(all')
      BY <1>7, FS_Subset, Zenon DEF DiscardEnd, HeapInv, HeapTypeOK
    <3> QED BY <1>7, <3>1, Zenon DEF DiscardEnd, HeapInv, HeapTypeOK, Covered, DropInv
  <2>2. Cardinality(all) = Capacity /\ ((count = 1 /\ drop = {}) \/ (count = 0 /\ \E t \in all : drop = {t}))
    BY <1>7, Zenon DEF DiscardEnd, HeapInv, RoomInv
  <2>3. ~(count = 1 /\ drop = {})
    <3> SUFFICES ASSUME count = 1, drop = {} PROVE FALSE BY Zenon
    <3>1. Empty
      BY <1>7 DEF DiscardEnd
    <3>2. all = {}
      BY <3>1 DEF Empty, HeapInv, HeapTypeOK, Covered
    <3> QED BY Zenon, <2>2, <3>2, FS_EmptySet
  <2>4. PICK t \in all : drop = {t}
    BY Zenon, <2>2, <2>3
  <2>5. Cardinality(all') = Cardinality(all) - 1
    BY <1>7, <2>4, FS_RemoveElement, Zenon DEF DiscardEnd, HeapInv, HeapTypeOK
  <2>6. RoomInv'
    BY <1>0, <1>7, <2>2, <2>5 DEF DiscardEnd, RoomInv
  <2> QED BY <2>1, <2>6, Zenon DEF HeapInv
<1>8. CASE PutLast
  <2>1. drop = {} /\ incoming \in Pooled /\ Cardinality(all) < Capacity
    BY <1>8, Zenon DEF HeapInv, HeapTypeOK, DropInv, RoomInv, PutLast
  <2>2. /\ all' \in SUBSET Pooled /\ IsFiniteSet(all') /\ items' \in [Pooled -> Nat]
        /\ \A u \in all' : items'[u] > 0
        /\ Cardinality(all') <= Cardinality(all) + 1
    <3>1. CASE Put(incoming)
      BY <2>1, <3>1, PutKeeps, Zenon DEF HeapInv
    <3>2. CASE UNCHANGED heap
      BY <1>0, <2>1, <3>2 DEF heap, HeapInv, HeapTypeOK, Covered
    <3> QED BY <1>8, <3>1, <3>2, Zenon DEF PutLast
  <2>3. HeapTypeOK' /\ Covered' /\ DropInv'
    BY <1>8, <2>1, <2>2, Zenon DEF PutLast, HeapInv, HeapTypeOK, Covered, DropInv
  <2>4. RoomInv'
    BY <1>0, <1>8, <2>1, <2>2, FS_CardinalityType DEF PutLast, RoomInv
  <2> QED BY <2>3, <2>4, Zenon DEF HeapInv
<1>9. ASSUME NEW f \in Floors, SetGasPrice(f) PROVE HeapInv'
  BY <1>9, Zenon DEF SetGasPrice, heap, HeapInv, HeapTypeOK, Covered, DropInv, RoomInv
<1>10. CASE CapPop
  <2> PICK t \in Heads \cap all : Popped(t) /\ drop' = drop \cup {t}
    BY <1>10, Zenon DEF CapPop
  <2>1. t \in Pooled /\ items[t] > 0
    BY Zenon DEF Heads
  <2>2. HeapTypeOK'
    BY <1>10, <2>1 DEF CapPop, Popped, HeapInv, HeapTypeOK
  <2>3. Covered' /\ DropInv' /\ RoomInv'
    BY <1>10, <2>1, Zenon DEF CapPop, Popped, HeapInv, HeapTypeOK, Covered, DropInv, RoomInv
  <2> QED BY <2>2, <2>3, Zenon DEF HeapInv
<1>11. CASE CapEnd
  <2>1. IsFiniteSet(all') /\ Cardinality(all') <= Cardinality(all)
    BY <1>11, FS_Subset, Zenon DEF CapEnd, HeapInv, HeapTypeOK
  <2>2. HeapTypeOK' /\ Covered' /\ DropInv'
    BY <1>11, <2>1, Zenon DEF CapEnd, HeapInv, HeapTypeOK, Covered, DropInv
  <2>3. RoomInv'
    BY <1>0, <1>11, <2>1, FS_CardinalityType DEF CapEnd, HeapInv, RoomInv
  <2> QED BY <2>2, <2>3 DEF HeapInv
<1>12. CASE UNCHANGED heapVars
  BY <1>12, Zenon DEF heapVars, HeapInv, HeapTypeOK, Covered, DropInv, RoomInv, Less
<1> QED
  BY <1>1, <1>2, <1>3, <1>4, <1>5, <1>6, <1>7, <1>8, <1>9, <1>10, <1>11, <1>12, Zenon DEF HeapNext

\* Every reachable state of the heap and the index satisfies the invariant.
THEOREM HeapInvCorrect == HeapSpec => []HeapInv
<1> QED BY HeapInitInv, NextInv, PTL DEF HeapSpec

-----------------------------------------------------------------------------
\* priceList.Discard, called by add on a full pool, returns a cheapest
\* transaction of the pool, whatever stale entries the heap has.
THEOREM EvictsCheapestCorrect == HeapSpec => EvictsCheapest
<1>1. HeapInv /\ [HeapNext]_heapVars
        => [op = "discard" => \A d \in all \ all' : \A k \in all' : ~Less(k, d)]_heapVars
  <2> SUFFICES ASSUME HeapInv, HeapNext, op = "discard", NEW d \in all \ all', NEW k \in all'
               PROVE  ~Less(k, d)
    BY Zenon
  <2>1. DiscardEnd
    BY Zenon DEF HeapNext, Leave, Add, AddFull, PopStale, Judge, DiscardPop, PutLast, SetGasPrice, CapPop, CapEnd
  <2>2. d \in drop /\ k \in all \ drop
    BY <2>1, Zenon DEF DiscardEnd
  <2> QED BY <2>2, Zenon DEF HeapInv, DropInv
<1> QED BY <1>1, HeapInvCorrect, PTL DEF HeapSpec, EvictsCheapest

\* SetGasPrice, through priceList.Cap, leaves no transaction below the price.
THEOREM FloorKeptCorrect == HeapSpec => FloorKept
<1>1. HeapInv /\ [HeapNext]_heapVars
        => [op = "cap" /\ op' = "idle" => \A t \in all' : PriceOf[t] >= floor]_heapVars
  <2> SUFFICES ASSUME HeapInv, HeapNext, op = "cap", op' = "idle", NEW k \in all'
               PROVE  PriceOf[k] >= floor
    BY Zenon
  <2>1. CapEnd
    BY Zenon DEF HeapNext, Leave, Add, AddFull, PopStale, Judge, DiscardPop, DiscardEnd, PutLast, SetGasPrice, CapPop
  <2>2. k \in Pooled /\ items[k] > 0
    BY <2>1, Zenon DEF CapEnd, HeapInv, HeapTypeOK, Covered
  <2>3. PICK t \in Heads : PriceOf[t] >= floor
    BY <2>1, <2>2 DEF CapEnd, Empty
  <2>4. ~Less(k, t) /\ t \in Pooled
    BY <2>2, <2>3, Zenon DEF Heads
  <2> QED BY <2>2, <2>3, <2>4, PriceConstants DEF Less, HeapInv, HeapTypeOK
<1> QED BY <1>1, HeapInvCorrect, PTL DEF HeapSpec, FloorKept

\* add never lets the pool outgrow GlobalSlots + GlobalQueue: Discard makes
\* room by returning a transaction that is in the pool.
THEOREM WithinCapacityCorrect == HeapSpec => []WithinCapacity
<1>1. HeapInv => WithinCapacity
  BY Zenon DEF HeapInv, RoomInv, WithinCapacity
<1> QED BY <1>1, HeapInvCorrect, PTL

-----------------------------------------------------------------------------
(* The gas limit *)

\* What \div is, in terms the provers can calculate with.
LEMMA Division ==
    ASSUME NEW n \in Nat, NEW d \in Nat, d > 0
    PROVE  n \div d \in Nat /\ d * (n \div d) <= n /\ n < d * (n \div d) + d
  OBVIOUS

\* The contribution of a full parent is less than twice its limit's share, so
\* that the limit does not grow by as much as that share.
LEMMA ContribBound ==
    ASSUME NEW limit \in Nat, limit >= MinLimit, NEW used \in 0 .. limit
    PROVE  /\ (used + used \div 2) \div BoundDivisor \in Nat
           /\ limit \div BoundDivisor \in Nat /\ limit \div BoundDivisor >= 7
           /\ (used + used \div 2) \div BoundDivisor <= 2 * (limit \div BoundDivisor) - 2
<1> DEFINE b == BoundDivisor
<1> DEFINE q == limit \div b
<1> DEFINE u == used + used \div 2
<1> DEFINE c == u \div b
<1>1. b \in Nat /\ b > 1 /\ limit >= 7 * b
  BY GasConstants
<1>2. u \in Nat /\ 2 * u <= 3 * limit
  BY GasConstants
<1>3. q \in Nat /\ limit < b * q + b
  BY <1>1, Division
<1>4. c \in Nat /\ b * c <= u
  BY <1>1, <1>2, Division
<1> HIDE DEF b, q, u, c
<1>5. q >= 7
  <2> SUFFICES ASSUME q <= 6 PROVE FALSE BY <1>3
  <2>1. b * q <= b * 6
    BY <1>1, <1>3
  <2> QED BY <1>1, <1>3, <2>1
<1>6. 2 * c < 3 * q + 3
  <2> SUFFICES ASSUME 2 * c >= 3 * q + 3 PROVE FALSE BY <1>3, <1>4
  <2>1. b * (2 * c) >= b * (3 * q + 3)
    BY <1>1, <1>3, <1>4
  <2>2. b * (2 * c) = 2 * (b * c) /\ b * (3 * q + 3) = 3 * (b * q) + 3 * b
    BY <1>1, <1>3, <1>4
  <2>3. b * c \in Nat /\ b * q \in Nat
    BY <1>1, <1>3, <1>4
  <2> QED BY <1>1, <1>2, <1>3, <1>4, <2>1, <2>2, <2>3
<1>7. c <= 2 * q - 2
  BY <1>3, <1>4, <1>5, <1>6
<1> QED BY <1>3, <1>4, <1>5, <1>7, Zenon DEF b, q, u, c

\* calcGasLimit stays within the bounds ValidateHeader sets.
LEMMA CalcValid ==
    ASSUME NEW limit \in Nat, limit >= MinLimit, NEW used \in 0 .. limit,
           calcGasLimit(limit, used) <= LimitCap
    PROVE  ValidGasLimit(limit, calcGasLimit(limit, used)) /\ calcGasLimit(limit, used) \in Nat
<1> DEFINE q == limit \div BoundDivisor
<1> DEFINE c == (used + used \div 2) \div BoundDivisor
<1>1. q \in Nat /\ c \in Nat /\ q >= 7 /\ c <= 2 * q - 2
  BY Zenon, ContribBound
<1> DEFINE next == IF limit - (q - 1) + c < MinLimit THEN MinLimit ELSE limit - (q - 1) + c
<1> DEFINE calc == IF next >= TargetLimit THEN next
                   ELSE IF limit + (q - 1) > TargetLimit THEN TargetLimit ELSE limit + (q - 1)
<1>2. calcGasLimit(limit, used) = calc
  BY Zenon DEF calcGasLimit
<1> HIDE DEF q, c
<1>3. calc \in Int /\ calc >= MinLimit /\ calc - limit < q /\ limit - calc < q
  BY <1>1, GasConstants
<1>4. calc \in Nat /\ calc <= LimitCap
  BY <1>2, <1>3, GasConstants
<1> HIDE DEF calc
<1> QED BY <1>2, <1>3, <1>4, Zenon DEF ValidGasLimit, q

\* The limit of an accepted block is at least the minimum.
LEMMA LimitInv == GasSpec => [](gasLimit \in Nat /\ gasLimit >= MinLimit)
<1> DEFINE I == gasLimit \in Nat /\ gasLimit >= MinLimit
<1>1. GasInit => I
  BY GasConstants, Zenon DEF GasInit
<1>2. I /\ [GasNext]_gasLimit => I'
  <2> SUFFICES ASSUME I, [GasNext]_gasLimit PROVE I' BY Zenon
  <2>1. CASE OtherBlock
    BY <2>1, GasConstants DEF OtherBlock, ValidGasLimit
  <2>2. CASE OwnBlock
    <3> PICK used \in 0 .. gasLimit : /\ calcGasLimit(gasLimit, used) <= LimitCap
                                      /\ gasLimit' = calcGasLimit(gasLimit, used)
      BY <2>2, Zenon DEF OwnBlock
    <3>1. ValidGasLimit(gasLimit, gasLimit') /\ gasLimit' \in Nat
      BY Zenon, CalcValid
    <3> QED BY <3>1, Zenon DEF ValidGasLimit
  <2>3. CASE UNCHANGED gasLimit
    BY Zenon, <2>3
  <2> QED BY <2>1, <2>2, <2>3, Zenon DEF GasNext
<1> QED BY <1>1, <1>2, PTL DEF GasSpec

\* calcGasLimit of the miner and ValidateHeader of the validator agree on every
\* chain of accepted blocks.
THEOREM OwnAcceptedCorrect == GasSpec => []OwnAccepted
<1>1. gasLimit \in Nat /\ gasLimit >= MinLimit => OwnAccepted
  BY CalcValid, Zenon DEF OwnAccepted
<1> QED BY <1>1, LimitInv, PTL
=============================================================================
