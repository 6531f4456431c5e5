------------------------------ MODULE Election ------------------------------
(***************************************************************************)
(* The epochs of consensus/dpos: who may mint in a slot (CheckValidator,   *)
(* lookupValidator on the validators elected DelayEpcho epochs earlier),   *)
(* the mint counts, and what Finalize does at the turn of an epoch         *)
(* (tryElect: the weights of the outgoing validators, then the election).  *)
(* One chain; a step is a message of the pending block or the block.       *)
(*                                                                         *)
(* An account is a number, its place in the order of addresses.  Time      *)
(* counts slots of BlockInterval since the genesis.  votes[a] stands for   *)
(* the votes CountVotes adds up from the tries of module Voting: messages  *)
(* change it at will, and a logout takes the votes along (VotesConsistent  *)
(* there).  The shuffle of the elected is an arbitrary order.              *)
(***************************************************************************)
EXTENDS Integers, Sequences, FiniteSetsExt, SequencesExt

CONSTANTS Account,
          GenesisCandidate,
          MaxValidatorSize, BlockRepeat, MinStartQuantity, DelayEpcho,
          MaxWeight,   \* the weight of a new candidate, 100
          MayLogout,   \* who logs out of the candidates
          MaxVote,     \* bound: the most votes a candidate gets
          MaxTime      \* bound: the last slot

MinWeight == 10

ASSUME ElectionConstants ==
    /\ Account \subseteq Nat
    /\ GenesisCandidate \in Account
    /\ MayLogout \subseteq Account \ {GenesisCandidate}
    /\ {MaxValidatorSize, BlockRepeat} \subseteq Nat \ {0}
    /\ {MinStartQuantity, DelayEpcho, MaxVote, MaxTime} \subseteq Nat
    /\ MaxWeight % MinWeight = 0

epochInterval == BlockRepeat * MaxValidatorSize
consensusSize == (MaxValidatorSize * 2) \div 3 + 1
Epoch(t)      == t \div epochInterval
GenesisEpoch  == Epoch(0)

VARIABLES
    weight,      \* candidate trie: CandidateInfo.Weight, 0 for no candidate
    votes,       \* votes for an account
    validators,  \* epoch trie: the sequence of elected validators
    mintCnt,     \* mint count trie: blocks minted in the epoch of the last block
    time,        \* timestamp of the last block
    first,       \* timeOfFirstBlock, 0 while unknown
    elections    \* the blocks that changed the epoch trie, oldest first

vars == <<weight, votes, validators, mintCnt, time, first, elections>>

Init ==
    /\ weight = [a \in Account |-> IF a = GenesisCandidate THEN MaxWeight ELSE 0]
    /\ votes = [a \in Account |-> 0]
    /\ validators = <<GenesisCandidate>>
    /\ mintCnt = [a \in Account |-> 0]
    /\ time = 0
    /\ first = 0
    /\ elections = <<[time |-> 0, validators |-> <<GenesisCandidate>>]>>

Candidates == {a \in Account : weight[a] > 0}

-----------------------------------------------------------------------------
(* Messages of the pending block: see module Voting. *)

LoginCandidate(a) ==
    /\ weight[a] = 0
    /\ weight' = [weight EXCEPT ![a] = MaxWeight]
    /\ UNCHANGED <<votes, validators, mintCnt, time, first, elections>>

LogoutCandidate(a) ==
    /\ a \in MayLogout
    /\ weight[a] > 0
    /\ weight' = [weight EXCEPT ![a] = 0]
    /\ votes' = [votes EXCEPT ![a] = 0]
    /\ UNCHANGED <<validators, mintCnt, time, first, elections>>

Vote(a, n) ==
    /\ weight[a] > 0
    /\ votes' = [votes EXCEPT ![a] = n]
    /\ UNCHANGED <<weight, validators, mintCnt, time, first, elections>>

-----------------------------------------------------------------------------
(* Who mints *)

IsDpos(vs) == Len(vs) # 1

\* EpchoBlockHeader: the last block at least DelayEpcho epochs old, or the genesis.
EpchoValidators(now) ==
    LET old == {i \in DOMAIN elections : \/ elections[i].time <= now - DelayEpcho * epochInterval
                                         \/ i = 1}
    IN  elections[Max(old)].validators

\* The validator of a slot; none at the end of an epoch that has too few.
lookupValidator(now) ==
    LET vs     == EpchoValidators(now)
        offset == (now % epochInterval) \div BlockRepeat
    IN  IF IsDpos(vs) THEN {vs[i] : i \in {offset + 1} \cap DOMAIN vs}
                      ELSE {vs[(offset % Len(vs)) + 1]}

\* updateMintCnt: the counts are kept per epoch; older ones are never read again
\* except by the turn of the epoch that follows.
updateMintCnt(miner, now) ==
    [a \in Account |-> (IF Epoch(time) = Epoch(now) THEN mintCnt[a] ELSE 0)
                       + (IF a = miner THEN 1 ELSE 0)]

-----------------------------------------------------------------------------
(* The turn of an epoch: tryElect, one round for every epoch that passed.  *)

\* The number of blocks below which a validator counts as idle.
MinCnt(now, fst) ==
    LET epochDuration == IF now - fst < epochInterval THEN now - fst ELSE epochInterval
    IN  (epochDuration \div MaxValidatorSize) \div 2

Raised(w)  == IF w < MaxWeight THEN w + 10 ELSE w
Lowered(w) == IF w > MinWeight THEN w - 10 ELSE w

\* The weights after the outgoing validators vs were judged by their counts.
\* Nobody is ever put on needKickoutValidators, so nobody is kicked out.
kickoutValidator(w, vs, min) ==
    [a \in Account |-> IF a \notin vs THEN w[a]
                       ELSE IF mintCnt[a] < min THEN Lowered(w[a]) ELSE Raised(w[a])]

\* Mutant: one validator too few.
ElectedShort(w) ==
    LET Before(a, b) == \/ votes[a] * w[a] > votes[b] * w[b]
                        \/ votes[a] * w[a] = votes[b] * w[b] /\ a < b
    IN  {b \in Candidates : Cardinality({a \in Candidates : Before(a, b)}) < MaxValidatorSize - 1}

\* CountVotes, the sort and the cut: the candidates that fewer than
\* MaxValidatorSize candidates come before.
Elected(w) ==
    LET Before(a, b) == \/ votes[a] * w[a] > votes[b] * w[b]
                        \/ votes[a] * w[a] = votes[b] * w[b] /\ a < b
    IN  {b \in Candidates : Cardinality({a \in Candidates : Before(a, b)}) < MaxValidatorSize}

\* Otherwise tryElect returns without an error and the validators stay.
Activated == /\ Cardinality(Candidates) >= consensusSize
             /\ MapThenSumSet(LAMBDA a : votes[a], Account) >= MinStartQuantity

AfterGenesis == Epoch(time) # GenesisEpoch

\* The rounds of tryElect's loop that are begun: all of them, or the first one,
\* which finds that the vote is not activated.
Rounds(now) ==
    LET passed == IF AfterGenesis THEN Epoch(now) - Epoch(time)
                                  ELSE Min({1, Epoch(now) - Epoch(time)})
    IN  IF Activated THEN passed ELSE Min({1, passed})

\* Round i.  The iterator over the counts of the previous epoch moves on by one
\* with every round: there are at most as many judgements as there were miners.
Round(s, i, min) ==
    LET judged == AfterGenesis /\ i <= Cardinality({a \in Account : mintCnt[a] > 0})
        w      == IF judged THEN kickoutValidator(s.weight, s.validators, min) ELSE s.weight
    IN  [weight |-> w, validators |-> IF Activated THEN Elected(w) ELSE s.validators]

tryElect(now, fst) ==
    FoldLeft(LAMBDA s, i : Round(s, i, MinCnt(now, fst)),
             [weight |-> weight, validators |-> ToSet(validators)],
             [i \in 1 .. Rounds(now) |-> i])

\* Mutant: kickoutValidator gives up on a validator without a mint count.
FailsOnIdle(now) ==
    /\ AfterGenesis
    /\ Rounds(now) > 0
    /\ \E v \in ToSet(validators) : mintCnt[v] = 0

\* kickoutValidator gives up on a validator that is no candidate any more.
Fails(now) ==
    /\ AfterGenesis
    /\ Rounds(now) > 0
    /\ ~(ToSet(validators) \subseteq Candidates)

\* Slot now has a validator, and Finalize succeeds.  When it fails there is no
\* block; the next slot tries again.
CanMint(now) == now > time /\ ~Fails(now) /\ lookupValidator(now) # {}

\* generateBlock of the validator of slot now, as far as Finalize.
Mint(now) ==
    LET fst == IF first = 0 THEN time ELSE first
        res == tryElect(now, fst)
    IN  /\ CanMint(now)
        /\ time' = now
        /\ first' = fst
        /\ \E miner \in lookupValidator(now) : mintCnt' = updateMintCnt(miner, now)
        /\ weight' = res.weight
        /\ validators' \in IF Rounds(now) > 0 /\ Activated THEN SetToSeqs(res.validators)
                                                           ELSE {validators}
        /\ elections' = IF validators' = validators THEN elections
                        ELSE Append(elections, [time |-> now, validators |-> validators'])
        /\ UNCHANGED votes

Next ==
    \/ \E a \in Account : \/ LoginCandidate(a)
                          \/ LogoutCandidate(a)
                          \/ \E n \in 0 .. MaxVote : Vote(a, n)
    \/ \E now \in 1 .. MaxTime : Mint(now)

\* Some validator that is up mints sooner or later.  (Only Mint changes time:
\* this is weak fairness of Mint, without computing an election.)
Spec == Init /\ [][Next]_vars /\ WF_time(\E now \in 1 .. MaxTime : CanMint(now) /\ time' = now)

-----------------------------------------------------------------------------
(* Properties *)

\* A validator set is the genesis candidate alone or a quorum: whatever was
\* voted, logged out or skipped, no election leaves fewer than consensusSize
\* validators, and none twice.
ValidatorQuorum ==
    \/ validators = <<GenesisCandidate>>
    \/ Cardinality(ToSet(validators)) = Len(validators) /\ Len(validators) >= consensusSize

\* The blocks go on through every turn of an epoch up to the last one, unless
\* an elected validator logs out; and if it registers again they go on again.
KeepsMinting ==
    []<>(time + epochInterval > MaxTime \/ ~(ToSet(validators) \subseteq Candidates))
=============================================================================
