------------------------------- MODULE TxPool -------------------------------
(***************************************************************************)
(* The transaction pool (core/txpool): transactions that can be executed   *)
(* next ("pending"), the ones that have to wait ("queue"), and how adding, *)
(* replacing, capping, timing out and resetting to another block move      *)
(* transactions between them.                                              *)
(*                                                                         *)
(* A transaction is a record; its hash is the record itself.  A txList is  *)
(* the set of an account's transactions (one per nonce).  A block is the   *)
(* sequence of the transactions executed since the first block, one in     *)
(* each, so that its prefixes are its ancestors and its nonces and         *)
(* balances can be read off it.  tp.mu is held throughout every operation. *)
(***************************************************************************)
EXTENDS Integers, FiniteSets, Sequences, FiniteSetsExt, SequencesExt

CONSTANTS Account,
          Tx,            \* transactions: from, nonce, price, gas, value, type
          Alloc,         \* the balances at the first block
          Locked,        \* the locked balances there
          GasLimit,      \* the gas limits blocks have
          GasPrice,      \* the thresholds SetGasPrice is called with
          PriceLimit,    \* Config.PriceLimit
          PriceBump,     \* Config.PriceBump, in percent
          AccountSlots, GlobalSlots, AccountQueue, GlobalQueue,  \* Config
          ReorgDepth,    \* the literal 64 of reinjectTxs
          MaxHeight      \* bound: the height of the highest block

ASSUME TxPoolConstants ==
  /\ AccountSlots \in Nat \ {0} /\ GlobalSlots \in Nat \ {0}
  /\ AccountQueue \in Nat /\ GlobalQueue \in Nat
  /\ PriceLimit \in Nat \ {0} /\ PriceBump \in Nat \ {0}
  /\ ReorgDepth \in Nat /\ MaxHeight \in Nat
  /\ \A tx \in Tx : tx.from \in Account /\ tx.type \in {"transfer", "undelegate"}

VARIABLES pool,       \* the lists, see PoolTypeOK
          block,      \* the block the pool was last reset to
          curMaxGas,  \* the gas limit of that block
          gasPrice    \* the least price the pool accepts

txVars == <<pool, block, curMaxGas, gasPrice>>

-----------------------------------------------------------------------------
(* Transactions, and the state at a block                                  *)

Fee(tx) == tx.price * tx.gas

Cost(tx) == tx.value + Fee(tx)

Of(S, a) == {tx \in S : tx.from = a}

\* the transactions of S that tx would replace
Over(S, tx) == {old \in S : old.from = tx.from /\ old.nonce = tx.nonce}

\* what a transaction takes from the balance of its sender
Debit(tx) == IF tx.type = "undelegate" THEN Fee(tx) ELSE Cost(tx)

Nonce(b, a) == Cardinality({i \in DOMAIN b : b[i].from = a})

Balance(b, a) == Alloc[a] - MapThenSumSet(Debit, Of(ToSet(b), a))

LockedBalance(b, a) ==
  Locked[a] - MapThenSumSet(LAMBDA tx : tx.value,
                            {tx \in Of(ToSet(b), a) : tx.type = "undelegate"})

\* a transaction the executor accepts on top of b
Executable(b, tx) ==
  /\ tx.nonce = Nonce(b, tx.from)
  /\ Debit(tx) <= Balance(b, tx.from)
  /\ tx.type = "undelegate" => tx.value <= LockedBalance(b, tx.from)

Blocks == {b \in UNION {[1..n -> Tx] : n \in 0..MaxHeight} :
             \A i \in DOMAIN b : Executable(SubSeq(b, 1, i - 1), b[i])}

\* tp.currentState and tp.curMaxGas at a block with gas limit gas
State(b, gas) == [nonce   |-> [a \in Account |-> Nonce(b, a)],
                  balance |-> [a \in Account |-> Balance(b, a)],
                  locked  |-> [a \in Account |-> LockedBalance(b, a)],
                  maxGas  |-> gas]

currentState == State(block, curMaxGas)

validateTx(st, tx) ==
  /\ tx.gas <= st.maxGas
  /\ gasPrice <= tx.price
  /\ st.nonce[tx.from] <= tx.nonce
  /\ IF tx.type = "undelegate"
       THEN tx.value <= st.locked[tx.from] /\ Fee(tx) <= st.balance[tx.from]
       ELSE Cost(tx) <= st.balance[tx.from]

-----------------------------------------------------------------------------
(* txList: operations on the set L of the transactions of one account      *)

\* Add accepts a replacement only if it pays PriceBump percent more
Better(old, tx) ==
  /\ old.price < tx.price
  /\ (old.price * (100 + PriceBump)) \div 100 <= tx.price

Inserts(L, tx) == \A old \in Over(L, tx) : Better(old, tx)

\* what Forward(nonce) leaves
Forward(L, nonce) == {tx \in L : tx.nonce >= nonce}

\* what Filter removes
Unpayable(L, st) == {tx \in L : Cost(tx) > st.balance[tx.from] \/ tx.gas > st.maxGas}

\* what a strict list moves out with the transactions removed from it
Invalids(L, removed) == {tx \in L \ removed : \E r \in removed : r.nonce < tx.nonce}

\* what Cap(n) leaves: the n lowest nonces
Cap(L, n) == {tx \in L : Cardinality({u \in L : u.nonce < tx.nonce}) < n}

\* the run of consecutive nonces at the front, if it begins at start or before
Ready(L, start) ==
  IF \E tx \in L : tx.nonce <= start
    THEN {tx \in L : \A n \in Min({u.nonce : u \in L})..tx.nonce : \E u \in L : u.nonce = n}
    ELSE {}

\* Flatten
Flatten(L) == SetToSortSeq(L, LAMBDA t, u : t.nonce < u.nonce)

-----------------------------------------------------------------------------
(* Operations on the whole pool p; those on several transactions of an     *)
(* account take them as a set, for their nonces differ and none disturbs   *)
(* another                                                                 *)

\* Mutant: the transactions replaced stay in the index
enqueueTxsLeaking(p, S) ==
  LET ok   == {tx \in S : Inserts(p.queue, tx)}
      olds == UNION {Over(p.queue, tx) : tx \in ok}
  IN  [p EXCEPT !.queue = (@ \ olds) \cup ok, !.txs = @ \cup ok]

\* enqueueTx for every transaction of S
enqueueTxs(p, S) ==
  LET ok   == {tx \in S : Inserts(p.queue, tx)}
      olds == UNION {Over(p.queue, tx) : tx \in ok}
  IN  [p EXCEPT !.queue = (@ \ olds) \cup ok,
                !.txs   = (@ \ olds) \cup ok]

\* promoteTx for the transactions S of account a, lowest nonce first
promoteTxs(p, a, S) ==
  LET ok   == {tx \in S : Inserts(p.pending, tx)}
      olds == UNION {Over(p.pending, tx) : tx \in ok}
  IN  IF ok = {}
        THEN [p EXCEPT !.txs = @ \ S]
        ELSE [p EXCEPT !.pending  = (@ \ olds) \cup ok,
                       !.txs      = (@ \ (olds \cup S)) \cup ok,
                       !.beats[a] = "fresh",
                       !.nonce[a] = Max({tx.nonce : tx \in ok}) + 1]

\* the pending list of a becomes L
setPending(p, a, L) ==
  [p EXCEPT !.pending  = (@ \ Of(@, a)) \cup L,
            !.beats[a] = IF L = {} THEN "none" ELSE @]

removeTx(p, tx) ==
  LET a       == tx.from
      list    == Of(p.pending, a)
      removed == Over(list, tx)
      known   == [p EXCEPT !.txs = @ \ {tx}]
  IN  IF tx \notin p.txs THEN p
      ELSE IF removed # {}
        THEN enqueueTxs([setPending(known, a, (list \ removed) \ Invalids(list, removed))
                           EXCEPT !.nonce[a] = Min({@, tx.nonce})],
                        Invalids(list, removed))
        ELSE [known EXCEPT !.queue = @ \ Over(@, tx)]

removeTxs(p, seq) == FoldLeft(removeTx, p, seq)

-----------------------------------------------------------------------------
(* promoteQueue                                                            *)

\* what can be executed now goes from the queue of a to pending
promoteAccount(p, a, st) ==
  LET list  == Forward(Of(p.queue, a), st.nonce[a])
      rest  == list \ Unpayable(list, st)
      ready == Ready(rest, p.nonce[a])
      kept  == Cap(rest \ ready, AccountQueue)
      lost  == Of(p.queue, a) \ (ready \cup kept)
  IN  promoteTxs([p EXCEPT !.queue = (@ \ Of(@, a)) \cup kept,
                           !.txs   = @ \ lost], a, ready)

pendingLen(p, a) == Cardinality(Of(p.pending, a))

\* Mutant: the virtual nonces stay behind the transactions dropped
equalizeKeepingNonces(p, A, floor) ==
  LET len   == pendingLen(p, CHOOSE a \in A : TRUE)
      drops == UNION {Of(p.pending, a) \ Cap(Of(p.pending, a), len - 1) : a \in A}
  IN  IF Cardinality(p.pending) <= GlobalSlots \/ len <= floor THEN p
      ELSE [p EXCEPT !.pending = @ \ drops, !.txs = @ \ drops]

\* The accounts A, whose lists are equally long, lose their last transactions
\* one round after the other until GlobalSlots is met or floor is reached.
equalize(p, A, floor) ==
  LET excess == Cardinality(p.pending) - GlobalSlots
      len    == pendingLen(p, CHOOSE a \in A : TRUE)
      rounds == (excess + Cardinality(A) - 1) \div Cardinality(A)
      keep   == IF rounds < len - floor THEN len - rounds ELSE floor
      kept(a) == Cap(Of(p.pending, a), keep)
      drops   == UNION {Of(p.pending, a) \ kept(a) : a \in A}
  IN  IF excess <= 0 \/ len <= floor THEN p
      ELSE [p EXCEPT !.pending = @ \ drops,
                     !.txs     = @ \ drops,
                     !.nonce   = [a \in Account |->
                        Min({@[a]} \cup {tx.nonce : tx \in Of(drops, a)})]]

\* The longest lists are cut to the length of the next longest until
\* GlobalSlots is met, and then all of them to AccountSlots.
capPending(p) ==
  LET spammers  == SetToSortSeq({a \in Account : pendingLen(p, a) > AccountSlots},
                                LAMBDA a, b : pendingLen(p, a) > pendingLen(p, b))
      upTo(i)   == {spammers[j] : j \in 1..i}
      step(q, i) == equalize(q, upTo(i - 1), pendingLen(q, spammers[i]))
      level     == FoldLeft(step, p, [i \in 1..(Len(spammers) - 1) |-> i + 1])
  IN  IF spammers = <<>> THEN p
      ELSE equalize(level, upTo(Len(spammers)), AccountSlots)

\* The queues of the accounts, in the order given, lose what is above
\* GlobalQueue, from the highest nonce down.
capQueue(p, accounts) ==
  LET step(q, a) ==
        LET drop == Cardinality(q.queue) - GlobalQueue
            list == Of(q.queue, a)
            cut  == IF drop < Cardinality(list)
                      THEN Reverse(Flatten(list \ Cap(list, Cardinality(list) - drop)))
                      ELSE Flatten(list)
        IN  IF drop <= 0 THEN q ELSE removeTxs(q, cut)
  IN  FoldLeft(step, p, accounts)

\* The orders in which queues are cut: the latest heartbeat first.  Which of
\* two beats of the same age is the later one is left open.
Age(beat) == CASE beat = "fresh" -> 0 [] beat = "old" -> 1 [] beat = "none" -> 2

Orders == SetToSeqs(Account)

ByHeartbeat(p, order) ==
  \A i, j \in DOMAIN order : i < j => Age(p.beats[order[i]]) <= Age(p.beats[order[j]])

\* The pools promoteQueue may leave
promoteQueue(p, accounts, st) ==
  LET q == capPending(FoldSet(LAMBDA a, r : promoteAccount(r, a, st), p, accounts))
  IN  {capQueue(q, order) : order \in {o \in Orders : ByHeartbeat(q, o)}}

-----------------------------------------------------------------------------
(* Adding transactions                                                     *)

Count(p) == Cardinality(p.txs)

Limit == GlobalSlots + GlobalQueue

Underpriced(p, tx) == \A t \in p.txs : t.price >= tx.price

\* The price heap: the cheapest first and of these the highest nonce; which
\* of two equals is first is left open.
Cheaper(t, u) == t.price < u.price \/ (t.price = u.price /\ t.nonce > u.nonce)

\* The sets of n transactions that Discard may return
Discard(p, n) ==
  {S \in SUBSET p.txs : /\ Cardinality(S) = n
                        /\ \A t \in S, u \in p.txs \ S : ~ Cheaper(u, t)}

\* The pools in which there is room for one transaction
makeRoom(p) ==
  IF Count(p) < Limit THEN {p}
  ELSE {removeTxs(p, SetToSortSeq(S, Cheaper)) : S \in Discard(p, Count(p) - (Limit - 1))}

\* Of the result of add, the pool and whether the transaction is a new one
\* (nil and not replace), in which case its sender's queue is to be promoted.
Result(p, new) == [pool |-> p, new |-> new]

\* The replacement of a pending transaction, or the insertion into the queue
insert(p, tx) ==
  LET olds == Over(p.pending, tx)
  IN  IF olds = {}
        THEN Result(enqueueTxs(p, {tx}), Over(p.queue, tx) = {})
        ELSE IF Inserts(p.pending, tx)
          THEN Result([p EXCEPT !.pending = (@ \ olds) \cup {tx},
                                !.txs     = (@ \ olds) \cup {tx}], FALSE)
          ELSE Result(p, FALSE)

add(p, st, tx) ==
  IF \/ tx \in p.txs
     \/ ~ validateTx(st, tx)
     \/ Count(p) >= Limit /\ Underpriced(p, tx)
    THEN {Result(p, FALSE)}
    ELSE {insert(q, tx) : q \in makeRoom(p)}

\* The pools addTxsLocked may leave; addTx is the case of one transaction
addTxsLocked(p, st, txs) ==
  LET step(R, tx) == UNION {{[pool |-> s.pool, dirty |-> r.dirty \cup (IF s.new THEN {tx.from} ELSE {})] :
                               s \in add(r.pool, st, tx)} : r \in R}
      added == FoldLeft(step, {[pool |-> p, dirty |-> {}]}, txs)
  IN  UNION {IF r.dirty = {} THEN {r.pool} ELSE promoteQueue(r.pool, r.dirty, st) : r \in added}

-----------------------------------------------------------------------------
(* Resetting the pool to a block                                           *)

\* The transactions of the blocks left, but for those of the blocks entered,
\* from the highest block down
reinjectTxs(old, new) ==
  LET same      == Len(LongestCommonPrefix({old, new}))
      discarded == Reverse(SubSeq(old, same + 1, Len(old)))
      included  == ToSet(SubSeq(new, same + 1, Len(new)))
      depth     == IF Len(old) > Len(new) THEN Len(old) - Len(new) ELSE Len(new) - Len(old)
  IN  IF depth > ReorgDepth THEN <<>>
      ELSE SelectSeq(discarded, LAMBDA tx : tx \notin included)

\* pending keeps what can be executed one after the other from the nonce of
\* the state on; what comes after a gap goes back to the queue
demoteAccount(p, a, st) ==
  LET list   == Forward(Of(p.pending, a), st.nonce[a])
      costly == Unpayable(list, st)
      fit    == list \ (costly \cup Invalids(list, costly))
      kept   == IF \E tx \in fit : tx.nonce = st.nonce[a] THEN fit ELSE {}
      lost   == (Of(p.pending, a) \ list) \cup costly
  IN  enqueueTxs([setPending(p, a, kept) EXCEPT !.txs = @ \ lost],
                 Invalids(list, costly) \cup (fit \ kept))

demotePending(p, st) ==
  FoldSet(LAMBDA a, q : demoteAccount(q, a, st), p, {tx.from : tx \in p.pending})

\* The virtual nonces follow the last pending transactions
updateNonces(p) ==
  [p EXCEPT !.nonce = [a \in Account |->
     IF Of(p.pending, a) = {} THEN @[a] ELSE Max({tx.nonce : tx \in Of(p.pending, a)}) + 1]]

processTxslist(p, st) ==
  LET q == updateNonces(demotePending(p, st))
  IN  promoteQueue(q, {tx.from : tx \in q.queue}, st)

resetTxpoolState(p, old, new, st) ==
  UNION {processTxslist(q, st) :
           q \in addTxsLocked([p EXCEPT !.nonce = st.nonce], st, reinjectTxs(old, new))}

-----------------------------------------------------------------------------
TxInit ==
  /\ block = <<>>
  /\ curMaxGas \in GasLimit
  /\ gasPrice = PriceLimit
  /\ pool = [pending |-> {}, queue |-> {}, txs |-> {},
             nonce |-> [a \in Account |-> 0], beats |-> [a \in Account |-> "none"]]

AddTxs(txs) ==
  /\ pool' \in addTxsLocked(pool, currentState, txs)
  /\ UNCHANGED <<block, curMaxGas, gasPrice>>

\* A BlockAndLogsEvent.  They come for blocks that are not on the canonical
\* chain too, so that any block may follow any other.
BlockEvent(new, gas) ==
  /\ new # block
  /\ pool' \in resetTxpoolState(pool, block, new, State(new, gas))
  /\ block' = new
  /\ curMaxGas' = gas
  /\ UNCHANGED gasPrice

SetGasPrice(price) ==
  /\ gasPrice' = price
  /\ pool' = removeTxs(pool, SetToSortSeq({tx \in pool.txs : tx.price < price}, Cheaper))
  /\ UNCHANGED <<block, curMaxGas>>

\* The ticker of loop
Timeout ==
  /\ pool' = removeTxs(pool, SetToSeq({tx \in pool.queue : pool.beats[tx.from] # "fresh"}))
  /\ UNCHANGED <<block, curMaxGas, gasPrice>>

\* TimeoutDuration passes without a heartbeat
Elapse ==
  /\ pool' = [pool EXCEPT !.beats = [a \in Account |-> IF @[a] = "fresh" THEN "old" ELSE @[a]]]
  /\ UNCHANGED <<block, curMaxGas, gasPrice>>

TxNext ==
  \/ \E tx \in Tx : AddTxs(<<tx>>)
  \/ \E new \in Blocks, gas \in GasLimit : BlockEvent(new, gas)
  \/ \E price \in GasPrice : SetGasPrice(price)
  \/ Timeout
  \/ Elapse

TxSpec == TxInit /\ [][TxNext]_txVars

-----------------------------------------------------------------------------
(* Properties                                                              *)

\* the nonce of the first transaction of a that is not pending
NextNonce(a) == Nonce(block, a) + pendingLen(pool, a)

\* What Pending() gives the miner can be executed in order on the block the
\* pool is at: the nonces of an account are consecutive from its nonce in
\* the state on, and each transaction can be paid and fits into a block.
PendingExecutable ==
  /\ \A a \in Account : {tx.nonce : tx \in Of(pool.pending, a)} = Nonce(block, a)..(NextNonce(a) - 1)
  /\ Unpayable(pool.pending, currentState) = {}

\* The next nonce to assign is the one after the last pending transaction.
VirtualNonce == \A a \in Account : pool.nonce[a] = NextNonce(a)

\* No transaction waits in the queue that is the next one of its account:
\* promotion happens in the operation that makes it possible (promoteQueue).
NothingOverlooked == \A tx \in pool.queue : tx.nonce # NextNonce(tx.from)

Sound == PendingExecutable /\ VirtualNonce /\ NothingOverlooked

\* Adding, replacing, discarding, capping, timing out and following the chain
\* to a descendant of the block the pool is at keep all this: pending can be
\* executed, the virtual nonces are right and nothing executable waits.
\* Only a change to another branch can end it.
SoundKept == [][Sound /\ IsPrefix(block, block') => Sound']_txVars

\* The lists and the index of all transactions (tp.txs) agree: a known
\* transaction is in exactly one list, an account has one transaction for a
\* nonce in its two lists, nothing is lost from the index and nothing stays
\* in it (validateTxPoolInternals of the tests); and an account has a
\* heartbeat exactly while it has pending transactions.
IndexConsistent ==
  /\ pool.txs = pool.pending \cup pool.queue
  /\ \A tx \in pool.pending : Over(pool.pending, tx) = {tx}
  /\ \A tx \in pool.queue : Over(pool.queue, tx) = {tx} /\ Over(pool.pending, tx) = {}
  /\ \A a \in Account : pool.beats[a] = "none" <=> Of(pool.pending, a) = {}

(***************************************************************************)
(* The pool beside the chain that feeds it: insertChain posts an event for *)
(* every block it writes, and the pool's loop resets the pool to the       *)
(* blocks of the events it has subscribed to.                              *)
(***************************************************************************)

VARIABLES stored,        \* the blocks written so far
          currentBlock,  \* the head of the canonical chain
          chainBlockCh   \* the events not yet handled by TxPool.loop

chainVars == <<txVars, stored, currentBlock, chainBlockCh>>

ChainInit ==
  /\ TxInit
  /\ stored = {<<>>}
  /\ currentBlock = <<>>
  /\ chainBlockCh = <<>>

\* The events of insertChain: WriteBlockWithState reports TRUE only if it
\* reorganised the chain, and then the event is a ForkBlockEvent, to which
\* the pool has not subscribed.
PostBlockEvent(forking, b) ==
  chainBlockCh' = IF forking THEN chainBlockCh ELSE Append(chainBlockCh, b)

\* A block is written.  On top of the head it is the new head; elsewhere it
\* is if it is heavier.  Of two blocks of one height either may be (the later
\* slot is, or chance decides); a lower block that outweighs a higher one is
\* left out here, module Blockchain has it.
InsertChain(parent, tx) ==
  LET b     == Append(parent, tx)
      onTop == parent = currentBlock
  IN  /\ b \in Blocks /\ b \notin stored
      /\ stored' = stored \cup {b}
      /\ \/ /\ Len(b) >= Len(currentBlock)
            /\ currentBlock' = b
            /\ PostBlockEvent(~ onTop, b)
         \/ /\ Len(b) <= Len(currentBlock)
            /\ UNCHANGED currentBlock
            /\ PostBlockEvent(FALSE, b)
      /\ UNCHANGED txVars

\* TxPool.loop takes an event
HandleEvent ==
  /\ chainBlockCh # <<>>
  /\ chainBlockCh' = Tail(chainBlockCh)
  /\ \E gas \in GasLimit : BlockEvent(Head(chainBlockCh), gas)
  /\ UNCHANGED <<stored, currentBlock>>

ChainNext ==
  \/ \E parent \in stored, tx \in Tx : InsertChain(parent, tx)
  \/ HandleEvent
  \/ \E tx \in Tx : AddTxs(<<tx>>) /\ UNCHANGED <<stored, currentBlock, chainBlockCh>>

ChainSpec == ChainInit /\ [][ChainNext]_chainVars

\* Once it has handled all events, the pool is at the head of the chain: its
\* nonces, balances and pending transactions are those of the block the next
\* one will be built on.
PoolAtHead == chainBlockCh = <<>> => block = currentBlock
=============================================================================
