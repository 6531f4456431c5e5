------------------------------- MODULE Ledger -------------------------------
(***************************************************************************)
(* The records of blocks, transactions and receipts (core/ledger/chain.go) *)
(* and the cache of blocks in front of them (ledger.go, cache.go).         *)
(*                                                                         *)
(* A writer stores a block record by record, under bc.mu, so there is one  *)
(* at a time.  Readers call GetBlock without a lock, for any hash: that of *)
(* an announced block, say, while the block itself is being written.  A    *)
(* step is one access to the database or the cache.                        *)
(*                                                                         *)
(* A transaction may be in several blocks.  Its record (a StorageTx) and   *)
(* its receipt are stored under its own hash, so those of the block that   *)
(* is written last stay; a receipt is identified with its block.           *)
(***************************************************************************)
EXTENDS Naturals, Sequences, Functions

CONSTANTS StoredBlock,      \* the blocks that may be written
          BlockTxs,         \* the transactions of each, a sequence
          LedgerReader,
          blockCacheLimit,
          Nothing

VARIABLES headers,          \* blocks with a record keyHeader
          txHashs,          \* blocks with a record keyTxHashs
          transactions,     \* keyTransacton: the block and index a transaction is stored with
          receiptOf,        \* keyReceipt: the block the receipt is from
          writing,          \* the writer: what it does, its block and the index it is at
          blockCache,       \* most recently used first; `early': read by a call before the block was stored
          reading           \* the readers in GetBlock

ledgerVars == <<headers, txHashs, transactions, receiptOf, writing, blockCache, reading>>

StoredTx == UNION {Range(BlockTxs[b]) : b \in StoredBlock}

ASSUME LedgerConstants ==
    /\ \A b \in StoredBlock : BlockTxs[b] \in Seq(StoredTx)
    /\ Nothing \notin StoredBlock
    /\ blockCacheLimit \in Nat

NoTx    == [block |-> Nothing, index |-> 0]
NoWrite == [at |-> "idle", block |-> Nothing, next |-> 0]
NoRead  == [at |-> "idle", hash |-> Nothing, txs |-> <<>>, next |-> 0, early |-> FALSE]

LedgerInit ==
    /\ headers = {} /\ txHashs = {}
    /\ transactions = [t \in StoredTx |-> NoTx]
    /\ receiptOf = [t \in StoredTx |-> Nothing]
    /\ writing = NoWrite
    /\ blockCache = <<>>
    /\ reading = [r \in LedgerReader |-> NoRead]

InBlock == writing.next <= Len(BlockTxs[writing.block])
TxAt == BlockTxs[writing.block][writing.next]

Complete(b) == b \in headers /\ writing.block # b

-----------------------------------------------------------------------------
(* WriteBlockAndReceipts: putBlock, then putReceipts *)

putHeader(b) ==
    /\ writing = NoWrite /\ b \notin headers
    /\ headers' = headers \cup {b}
    /\ writing' = [at |-> "transactions", block |-> b, next |-> 1]
    /\ UNCHANGED <<txHashs, transactions, receiptOf, blockCache, reading>>

putTransaction ==
    /\ writing.at = "transactions" /\ InBlock
    /\ transactions' = [transactions EXCEPT ![TxAt] = [block |-> writing.block, index |-> writing.next]]
    /\ writing' = [writing EXCEPT !.next = @ + 1]
    /\ UNCHANGED <<headers, txHashs, receiptOf, blockCache, reading>>

\* Mutant: the list of hashes is written first.
putTxHashsFirst ==
    /\ writing.at = "transactions" /\ writing.block \notin txHashs
    /\ txHashs' = txHashs \cup {writing.block}
    /\ UNCHANGED <<headers, transactions, receiptOf, writing, blockCache, reading>>

putTxHashs ==
    /\ writing.at = "transactions" /\ ~InBlock
    /\ txHashs' = txHashs \cup {writing.block}
    /\ writing' = [writing EXCEPT !.at = "receipts", !.next = 1]
    /\ UNCHANGED <<headers, transactions, receiptOf, blockCache, reading>>

putReceipt ==
    /\ writing.at = "receipts" /\ writing.block \in txHashs /\ InBlock
    /\ receiptOf' = [receiptOf EXCEPT ![TxAt] = writing.block]
    /\ writing' = [writing EXCEPT !.next = @ + 1]
    /\ UNCHANGED <<headers, txHashs, transactions, blockCache, reading>>

\* putReceipts also returns when it does not find the list of the block.
WriteEnds ==
    /\ writing.at = "receipts" /\ (writing.block \notin txHashs \/ ~InBlock)
    /\ writing' = NoWrite
    /\ UNCHANGED <<headers, txHashs, transactions, receiptOf, blockCache, reading>>

-----------------------------------------------------------------------------
(* GetBlock *)

Cached(h) == \E i \in DOMAIN blockCache : blockCache[i].hash = h

\* UnLockCache.Get and Add of a hash that is there, with the new value.
MovedToFront(i, entry) ==
    <<entry>> \o SubSeq(blockCache, 1, i - 1) \o SubSeq(blockCache, i + 1, Len(blockCache))

\* Add of a new one: the oldest goes when there are too many.
PushedFront(entry) ==
    LET all == <<entry>> \o blockCache
    IN IF Len(all) > blockCacheLimit THEN SubSeq(all, 1, Len(all) - 1) ELSE all

\* cache.getBlock: a hit ends the call and moves the entry to the front.
GetBlock(r, h) ==
    /\ reading[r] = NoRead
    /\ \/ \E i \in DOMAIN blockCache :
            /\ blockCache[i].hash = h
            /\ blockCache' = MovedToFront(i, blockCache[i])
            /\ UNCHANGED reading
       \/ /\ ~Cached(h)
          /\ reading' = [reading EXCEPT ![r] = [at |-> "header", hash |-> h, txs |-> <<>>, next |-> 1, early |-> ~Complete(h)]]
          /\ UNCHANGED blockCache
    /\ UNCHANGED <<headers, txHashs, transactions, receiptOf, writing>>

Step(r, new) ==
    /\ reading' = [reading EXCEPT ![r] = new]
    /\ UNCHANGED <<headers, txHashs, transactions, receiptOf, writing, blockCache>>

getHeader(r) ==
    /\ reading[r].at = "header"
    /\ Step(r, IF reading[r].hash \in headers THEN [reading[r] EXCEPT !.at = "list"] ELSE NoRead)

\* A block without the list is returned without transactions.
getTransactions(r) ==
    /\ reading[r].at = "list"
    /\ Step(r, [reading[r] EXCEPT !.at = IF reading[r].hash \in txHashs THEN "txs" ELSE "add"])

\* A transaction that is not found is left out.
getTransaction(r) ==
    LET its == BlockTxs[reading[r].hash]
        i == reading[r].next
    IN /\ reading[r].at = "txs" /\ i <= Len(its)
       /\ Step(r, [reading[r] EXCEPT !.next = i + 1,
                                     !.txs = IF transactions[its[i]] = NoTx THEN @ ELSE Append(@, its[i])])

blockAdd(r) ==
    /\ \/ reading[r].at = "add"
       \/ reading[r].at = "txs" /\ reading[r].next > Len(BlockTxs[reading[r].hash])
    /\ LET entry == [hash |-> reading[r].hash, txs |-> reading[r].txs, early |-> reading[r].early]
       IN \/ \E i \in DOMAIN blockCache :
                /\ blockCache[i].hash = reading[r].hash
                /\ blockCache' = MovedToFront(i, entry)
          \/ /\ ~Cached(reading[r].hash)
             /\ blockCache' = PushedFront(entry)
    /\ reading' = [reading EXCEPT ![r] = NoRead]
    /\ UNCHANGED <<headers, txHashs, transactions, receiptOf, writing>>

LedgerNext ==
    \/ \E b \in StoredBlock : putHeader(b)
    \/ putTransaction \/ putTxHashs \/ putReceipt \/ WriteEnds
    \/ \E r \in LedgerReader : \/ \E h \in StoredBlock : GetBlock(r, h)
                               \/ getHeader(r) \/ getTransactions(r) \/ getTransaction(r) \/ blockAdd(r)

LedgerSpec == LedgerInit /\ [][LedgerNext]_ledgerVars

-----------------------------------------------------------------------------
(* Properties *)

\* A block in the cache, which GetBlock returns until it is evicted, has all
\* its transactions, however its reading and its writing overlapped: only a
\* call that began before the block was stored can leave one there without
\* any, and none leaves one with some (putTransactions writes the list after
\* what it names, getTransactions reads the list first).
CachedWhole ==
    \A i \in DOMAIN blockCache :
        \/ blockCache[i].txs = BlockTxs[blockCache[i].hash]
        \/ blockCache[i].early /\ blockCache[i].txs = <<>>

\* While nothing is written, every transaction of a stored block is found
\* with its place in a stored block and with the receipt of that very block,
\* although another block with the same transaction has replaced both
\* records (putTransaction, putReceipt).
LookupAgrees ==
    writing = NoWrite =>
      \A b \in headers, t \in StoredTx :
        t \in Range(BlockTxs[b]) =>
          /\ transactions[t].block \in headers
          /\ BlockTxs[transactions[t].block][transactions[t].index] = t
          /\ receiptOf[t] = transactions[t].block
=============================================================================
