---------------------------- MODULE LedgerProofs ----------------------------
(***************************************************************************)
(* The block cache and the lookup of transactions, for any blocks, any     *)
(* number of readers and any cache size.                                   *)
(***************************************************************************)
EXTENDS Ledger, TLAPS

Entry == [hash : StoredBlock, txs : Seq(StoredTx), early : BOOLEAN]
Record == {NoTx} \cup [block : StoredBlock, index : Nat \ {0}]
Writes == {NoWrite} \cup [at : {"transactions", "receipts"}, block : StoredBlock, next : Nat \ {0}]
Reads == [at : {"header", "list", "txs", "add"}, hash : StoredBlock, txs : Seq(StoredTx),
          next : Nat \ {0}, early : BOOLEAN]

LedgerTypes ==
    /\ headers \subseteq StoredBlock
    /\ txHashs \subseteq StoredBlock
    /\ transactions \in [StoredTx -> Record]
    /\ receiptOf \in [StoredTx -> StoredBlock \cup {Nothing}]
    /\ writing \in Writes
    /\ reading \in [LedgerReader -> Reads \cup {NoRead}]

Writing(b) == writing # NoWrite /\ writing.block = b

\* A list of hashes names transactions that are there.
ListsSound ==
    /\ txHashs \subseteq headers
    /\ \A b \in headers : ~Writing(b) => b \in txHashs
    /\ \A b \in txHashs : \A i \in 1 .. Len(BlockTxs[b]) : transactions[BlockTxs[b][i]] # NoTx

\* How far the writer is.
WriterSound ==
    writing # NoWrite =>
        LET b == writing.block
        IN /\ b \in headers
           /\ writing.at = "receipts" => b \in txHashs
           /\ \A i \in 1 .. Len(BlockTxs[b]) :
                 writing.at = "receipts" \/ i < writing.next => transactions[BlockTxs[b][i]].block = b
           /\ \A i \in 1 .. Len(BlockTxs[b]) :
                 writing.at = "receipts" /\ i < writing.next => receiptOf[BlockTxs[b][i]] = b

Has(b, t) == \E i \in 1 .. Len(BlockTxs[b]) : BlockTxs[b][i] = t

\* A transaction's record names a place of it, and outside of the block that
\* is being written its receipt is from there.
PlacesSound ==
    \A t \in StoredTx :
        LET place == transactions[t]
        IN /\ place # NoTx => /\ place.block \in headers
                              /\ place.index <= Len(BlockTxs[place.block])
                              /\ BlockTxs[place.block][place.index] = t
           /\ writing = NoWrite \/ ~Has(writing.block, t) => receiptOf[t] = place.block

\* A reader that began after the block was stored finds the list, and one
\* that has the list finds every transaction.
ReaderSound(x) ==
    x # NoRead =>
        /\ x.early \/ x.hash \in txHashs
        /\ x.at \in {"header", "list", "add"} => x.txs = <<>> /\ x.next = 1
        /\ x.at = "add" => x.early
        /\ x.at = "txs" => /\ x.hash \in txHashs
                           /\ x.next <= Len(BlockTxs[x.hash]) + 1
                           /\ Len(x.txs) = x.next - 1
                           /\ \A i \in 1 .. x.next - 1 : x.txs[i] = BlockTxs[x.hash][i]

ReadersSound == \A r \in LedgerReader : ReaderSound(reading[r])

\* What may be in the cache.
WholeEntry == {e \in Entry : e.txs = BlockTxs[e.hash] \/ (e.early /\ e.txs = <<>>)}

LedgerInv ==
    /\ LedgerTypes
    /\ ListsSound /\ WriterSound /\ PlacesSound
    /\ ReadersSound
    /\ blockCache \in Seq(WholeEntry)
-----------------------------------------------------------------------------
\* The transactions of a block.
LEMMA TxFacts ==
    ASSUME NEW b \in StoredBlock
    PROVE  /\ BlockTxs[b] \in Seq(StoredTx) /\ Len(BlockTxs[b]) \in Nat
           /\ \A i \in 1 .. Len(BlockTxs[b]) : BlockTxs[b][i] \in StoredTx
  <1>1. BlockTxs[b] \in Seq(StoredTx)
    BY Zenon, LedgerConstants
  <1>2. QED
    BY <1>1

\* A database without blocks.
LEMMA LedgerInitInv == LedgerInit => LedgerInv
  <1> SUFFICES ASSUME LedgerInit PROVE LedgerInv
    BY Zenon
  <1> USE DEF LedgerInit
  <1>1. LedgerTypes
    BY Zenon DEF LedgerTypes, Record, Writes
  <1>2. ListsSound /\ WriterSound /\ ReadersSound
    BY Zenon DEF ListsSound, WriterSound, ReadersSound, ReaderSound
  <1>3. PlacesSound
    BY Zenon DEF PlacesSound, NoTx
  <1>4. blockCache \in Seq(WholeEntry)
    OBVIOUS
  <1>5. QED
    BY <1>1, <1>2, <1>3, <1>4, Zenon DEF LedgerInv

\* What is known of a writer at work.
LEMMA AtWork ==
    ASSUME LedgerInv, writing.at # "idle"
    PROVE  /\ writing # NoWrite /\ writing.block \in StoredBlock /\ writing.next \in Nat \ {0}
           /\ writing.at \in {"transactions", "receipts"}
           /\ writing = [at |-> writing.at, block |-> writing.block, next |-> writing.next]
           /\ Len(BlockTxs[writing.block]) \in Nat
           /\ \A i \in 1 .. Len(BlockTxs[writing.block]) : BlockTxs[writing.block][i] \in StoredTx
  <1>1. writing \in [at : {"transactions", "receipts"}, block : StoredBlock, next : Nat \ {0}]
    BY DEF LedgerInv, LedgerTypes, Writes, NoWrite
  <1>2. writing # NoWrite
    BY DEF NoWrite
  <1>3. QED
    BY Zenon, <1>1, <1>2, TxFacts

\* A step of the writer leaves these to show.
LEMMA WriterStep ==
    ASSUME LedgerInv, blockCache' = blockCache, reading' = reading, txHashs \subseteq txHashs',
           headers' \subseteq StoredBlock, txHashs' \subseteq StoredBlock,
           transactions' \in [StoredTx -> Record], receiptOf' \in [StoredTx -> StoredBlock \cup {Nothing}],
           writing' \in Writes, ListsSound', WriterSound', PlacesSound'
    PROVE  LedgerInv'
  <1>1. LedgerTypes'
    BY Zenon DEF LedgerInv, LedgerTypes
  <1>2. ReadersSound'
    BY Zenon DEF LedgerInv, ReadersSound, ReaderSound
  <1>3. QED
    BY <1>1, <1>2, Zenon DEF LedgerInv

\* The header is written first.
LEMMA putHeaderInv == ASSUME LedgerInv, NEW b \in StoredBlock, putHeader(b) PROVE LedgerInv'
  <1>1. /\ writing = NoWrite /\ b \notin headers /\ headers' = headers \cup {b}
        /\ writing' = [at |-> "transactions", block |-> b, next |-> 1]
        /\ txHashs' = txHashs /\ transactions' = transactions /\ receiptOf' = receiptOf
        /\ blockCache' = blockCache /\ reading' = reading
    BY Zenon DEF putHeader
  <1>2. writing' \in Writes /\ writing' # NoWrite /\ writing'.block = b /\ writing'.at = "transactions" /\ writing'.next = 1
    BY <1>1 DEF Writes, NoWrite
  <1>3. ListsSound'
    BY <1>1, <1>2, Zenon DEF LedgerInv, ListsSound, Writing
  <1>4. WriterSound'
    <2>1. \A i \in 1 .. Len(BlockTxs[b]) : ~(i < 1)
      BY TxFacts
    <2>2. QED
      BY <1>1, <1>2, <2>1, Zenon DEF WriterSound
  <1>5. PlacesSound'
    BY <1>1, <1>2, Zenon DEF LedgerInv, PlacesSound
  <1>6. QED
    BY <1>1, <1>2, <1>3, <1>4, <1>5, WriterStep, Zenon DEF LedgerInv, LedgerTypes

\* A transaction and its place.
LEMMA putTransactionInv == ASSUME LedgerInv, putTransaction PROVE LedgerInv'
  <1> DEFINE b == writing.block
             n == writing.next
             t == BlockTxs[b][n]
  <1>1. /\ writing.at = "transactions" /\ n <= Len(BlockTxs[b])
        /\ transactions' = [transactions EXCEPT ![t] = [block |-> b, index |-> n]]
        /\ writing' = [writing EXCEPT !.next = n + 1]
        /\ headers' = headers /\ txHashs' = txHashs /\ receiptOf' = receiptOf
        /\ blockCache' = blockCache /\ reading' = reading
    BY Zenon DEF putTransaction, InBlock, TxAt
  <1>2. /\ writing # NoWrite /\ b \in StoredBlock /\ n \in Nat \ {0} /\ n \in 1 .. Len(BlockTxs[b])
        /\ writing = [at |-> "transactions", block |-> b, next |-> n]
        /\ Len(BlockTxs[b]) \in Nat
        /\ \A i \in 1 .. Len(BlockTxs[b]) : BlockTxs[b][i] \in StoredTx
    BY <1>1, AtWork
  <1>3. writing' = [at |-> "transactions", block |-> b, next |-> n + 1]
    BY Zenon, <1>1, <1>2
  <1>4. /\ writing' \in Writes /\ writing' # NoWrite /\ writing'.block = b /\ writing'.at = "transactions"
        /\ writing'.next = n + 1
    BY <1>2, <1>3 DEF Writes, NoWrite
  <1>5. t \in StoredTx
    BY Zenon, <1>2
  <1> DEFINE new == [block |-> b, index |-> n]
  <1>6. new \in Record /\ new # NoTx /\ new.block = b /\ new.index = n
    BY <1>2, Zenon DEF Record, NoTx
  <1>7. transactions' = [transactions EXCEPT ![t] = new] /\ transactions \in [StoredTx -> Record]
    BY <1>1, Zenon DEF LedgerInv, LedgerTypes
  <1> HIDE DEF new, t
  <1>8. /\ transactions' \in [StoredTx -> Record] /\ transactions'[t] = new
        /\ \A u \in StoredTx \ {t} : transactions'[u] = transactions[u]
    BY Zenon, <1>5, <1>6, <1>7
  <1>9. ListsSound'
    <2>1. ASSUME NEW c \in txHashs, NEW i \in 1 .. Len(BlockTxs[c]) PROVE transactions'[BlockTxs[c][i]] # NoTx
      <3>1. BlockTxs[c][i] \in StoredTx /\ transactions[BlockTxs[c][i]] # NoTx
        BY TxFacts, Zenon DEF LedgerInv, LedgerTypes, ListsSound
      <3>2. QED
        BY Zenon, <3>1, <1>6, <1>8
    <2>2. QED
      BY <1>1, <1>2, <1>4, <2>1, Zenon DEF LedgerInv, ListsSound, Writing
  <1>10. WriterSound'
    <2>1. b \in headers /\ \A i \in 1 .. Len(BlockTxs[b]) : i < n => transactions[BlockTxs[b][i]].block = b
      BY <1>1, <1>2, Zenon DEF LedgerInv, WriterSound
    <2>2. ASSUME NEW i \in 1 .. Len(BlockTxs[b]), i < n + 1 PROVE transactions'[BlockTxs[b][i]].block = b
      <3>1. CASE i = n
        BY <3>1, <1>6, <1>8, Zenon DEF t
      <3>2. CASE i # n
        <4>1. i < n
          BY <3>2, <2>2, <1>2
        <4>2. QED
          BY Zenon, <4>1, <2>1, <1>2, <1>6, <1>8
      <3>3. QED
        BY Zenon, <3>1, <3>2
    <2>3. QED
      BY <1>1, <1>4, <2>1, <2>2 DEF WriterSound
  <1>11. PlacesSound'
    <2> SUFFICES ASSUME NEW u \in StoredTx
                 PROVE  /\ transactions'[u] # NoTx =>
                              /\ transactions'[u].block \in headers
                              /\ transactions'[u].index <= Len(BlockTxs[transactions'[u].block])
                              /\ BlockTxs[transactions'[u].block][transactions'[u].index] = u
                        /\ ~Has(b, u) => receiptOf[u] = transactions'[u].block
      BY <1>1, <1>4 DEF PlacesSound, Has
    <2>1. CASE u = t
      <3>1. Has(b, u)
        BY <2>1, <1>2, Zenon DEF Has, t
      <3>2. b \in headers /\ BlockTxs[b][n] = u
        BY <2>1, <1>2, Zenon DEF LedgerInv, WriterSound, t
      <3>3. QED
        BY Zenon, <2>1, <3>1, <3>2, <1>1, <1>6, <1>8
    <2>2. CASE u # t
      <3>1. transactions'[u] = transactions[u]
        BY Zenon, <2>2, <1>8
      <3>2. QED
        BY <3>1, <1>2, Zenon DEF LedgerInv, PlacesSound
    <2>3. QED
      BY Zenon, <2>1, <2>2
  <1>12. QED
    BY <1>1, <1>4, <1>8, <1>9, <1>10, <1>11, WriterStep, Zenon DEF LedgerInv, LedgerTypes

\* The list of the hashes, once every transaction is there.
LEMMA putTxHashsInv == ASSUME LedgerInv, putTxHashs PROVE LedgerInv'
  <1> DEFINE b == writing.block
             n == writing.next
  <1>1. /\ writing.at = "transactions" /\ ~(n <= Len(BlockTxs[b]))
        /\ txHashs' = txHashs \cup {b}
        /\ writing' = [writing EXCEPT !.at = "receipts", !.next = 1]
        /\ headers' = headers /\ transactions' = transactions /\ receiptOf' = receiptOf
        /\ blockCache' = blockCache /\ reading' = reading
    BY Zenon DEF putTxHashs, InBlock
  <1>2. /\ writing # NoWrite /\ b \in StoredBlock /\ n \in Nat \ {0}
        /\ writing = [at |-> "transactions", block |-> b, next |-> n]
        /\ Len(BlockTxs[b]) \in Nat
        /\ \A i \in 1 .. Len(BlockTxs[b]) : BlockTxs[b][i] \in StoredTx
    BY Zenon, <1>1, AtWork
  <1>3. writing' = [at |-> "receipts", block |-> b, next |-> 1]
    BY Zenon, <1>1, <1>2
  <1>4. /\ writing' \in Writes /\ writing' # NoWrite /\ writing'.block = b /\ writing'.at = "receipts"
        /\ writing'.next = 1
    BY <1>2, <1>3 DEF Writes, NoWrite
  <1>5. \A i \in 1 .. Len(BlockTxs[b]) : i < n /\ ~(i < 1)
    BY <1>1, <1>2
  <1>6. b \in headers /\ \A i \in 1 .. Len(BlockTxs[b]) : transactions[BlockTxs[b][i]].block = b
    BY <1>1, <1>2, <1>5, Zenon DEF LedgerInv, WriterSound
  <1>7. NoTx.block \notin StoredBlock
    BY LedgerConstants, Zenon DEF NoTx
  <1>8. ListsSound'
    <2>1. \A i \in 1 .. Len(BlockTxs[b]) : transactions[BlockTxs[b][i]] # NoTx
      BY Zenon, <1>2, <1>6, <1>7
    <2>2. QED
      BY <1>1, <1>2, <1>4, <1>6, <2>1, Zenon DEF LedgerInv, ListsSound, Writing
  <1>9. WriterSound'
    BY <1>1, <1>4, <1>5, <1>6 DEF WriterSound
  <1>10. PlacesSound'
    BY <1>1, <1>2, <1>4 DEF LedgerInv, PlacesSound, Has
  <1>11. QED
    BY <1>1, <1>2, <1>4, <1>8, <1>9, <1>10, WriterStep, Zenon DEF LedgerInv, LedgerTypes

\* A receipt.
LEMMA putReceiptInv == ASSUME LedgerInv, putReceipt PROVE LedgerInv'
  <1> DEFINE b == writing.block
             n == writing.next
             t == BlockTxs[b][n]
  <1>1. /\ writing.at = "receipts" /\ n <= Len(BlockTxs[b])
        /\ receiptOf' = [receiptOf EXCEPT ![t] = b]
        /\ writing' = [writing EXCEPT !.next = n + 1]
        /\ headers' = headers /\ txHashs' = txHashs /\ transactions' = transactions
        /\ blockCache' = blockCache /\ reading' = reading
    BY Zenon DEF putReceipt, InBlock, TxAt
  <1>2. /\ writing # NoWrite /\ b \in StoredBlock /\ n \in Nat \ {0} /\ n \in 1 .. Len(BlockTxs[b])
        /\ writing = [at |-> "receipts", block |-> b, next |-> n]
        /\ Len(BlockTxs[b]) \in Nat
        /\ \A i \in 1 .. Len(BlockTxs[b]) : BlockTxs[b][i] \in StoredTx
    BY <1>1, AtWork
  <1>3. writing' = [at |-> "receipts", block |-> b, next |-> n + 1]
    BY Zenon, <1>1, <1>2
  <1>4. /\ writing' \in Writes /\ writing' # NoWrite /\ writing'.block = b /\ writing'.at = "receipts"
        /\ writing'.next = n + 1
    BY <1>2, <1>3 DEF Writes, NoWrite
  <1>5. t \in StoredTx /\ receiptOf \in [StoredTx -> StoredBlock \cup {Nothing}]
    BY <1>2, Zenon DEF LedgerInv, LedgerTypes
  <1> HIDE DEF t
  <1>6. /\ receiptOf' \in [StoredTx -> StoredBlock \cup {Nothing}] /\ receiptOf'[t] = b
        /\ \A u \in StoredTx \ {t} : receiptOf'[u] = receiptOf[u]
    BY Zenon, <1>1, <1>2, <1>5
  <1>7. ListsSound'
    BY <1>1, <1>2, <1>4, Zenon DEF LedgerInv, ListsSound, Writing
  <1>8. WriterSound'
    <2>1. /\ b \in headers /\ b \in txHashs
          /\ \A i \in 1 .. Len(BlockTxs[b]) : transactions[BlockTxs[b][i]].block = b
          /\ \A i \in 1 .. Len(BlockTxs[b]) : i < n => receiptOf[BlockTxs[b][i]] = b
      BY <1>1, <1>2, Zenon DEF LedgerInv, WriterSound
    <2>2. ASSUME NEW i \in 1 .. Len(BlockTxs[b]), i < n + 1 PROVE receiptOf'[BlockTxs[b][i]] = b
      <3>1. CASE i = n
        BY <3>1, <1>6, Zenon DEF t
      <3>2. CASE i # n
        <4>1. i < n
          BY <3>2, <2>2, <1>2
        <4>2. QED
          BY Zenon, <4>1, <2>1, <1>2, <1>6
      <3>3. QED
        BY Zenon, <3>1, <3>2
    <2>3. QED
      BY <1>1, <1>4, <2>1, <2>2 DEF WriterSound
  <1>9. PlacesSound'
    <2>1. Has(b, t)
      BY <1>2, Zenon DEF Has, t
    <2>2. \A u \in StoredTx : ~Has(b, u) => receiptOf'[u] = receiptOf[u]
      BY Zenon, <2>1, <1>6
    <2>3. QED
      BY <1>1, <1>2, <1>4, <2>2 DEF LedgerInv, PlacesSound, Has
  <1>10. QED
    BY <1>1, <1>4, <1>6, <1>7, <1>8, <1>9, WriterStep, Zenon DEF LedgerInv, LedgerTypes

\* The last receipt is written.
LEMMA WriteEndsInv == ASSUME LedgerInv, WriteEnds PROVE LedgerInv'
  <1> DEFINE b == writing.block
             n == writing.next
  <1>1. /\ writing.at = "receipts" /\ (b \notin txHashs \/ ~(n <= Len(BlockTxs[b])))
        /\ writing' = NoWrite /\ receiptOf' = receiptOf
        /\ headers' = headers /\ txHashs' = txHashs /\ transactions' = transactions
        /\ blockCache' = blockCache /\ reading' = reading
    BY Zenon DEF WriteEnds, InBlock
  <1>2. /\ writing # NoWrite /\ b \in StoredBlock /\ n \in Nat \ {0} /\ Len(BlockTxs[b]) \in Nat
    BY Zenon, <1>1, AtWork
  <1>3. /\ b \in txHashs
        /\ \A i \in 1 .. Len(BlockTxs[b]) : transactions[BlockTxs[b][i]].block = b
        /\ \A i \in 1 .. Len(BlockTxs[b]) : i < n => receiptOf[BlockTxs[b][i]] = b
    BY <1>1, <1>2, Zenon DEF LedgerInv, WriterSound
  <1>4. \A i \in 1 .. Len(BlockTxs[b]) : i < n
    BY <1>1, <1>2, <1>3
  <1>5. ListsSound'
    BY <1>1, <1>2, <1>3, Zenon DEF LedgerInv, ListsSound, Writing
  <1>6. WriterSound'
    BY <1>1, Zenon DEF WriterSound
  <1>7. PlacesSound'
    <2>1. \A u \in StoredTx : Has(b, u) => receiptOf[u] = transactions[u].block
      BY <1>3, <1>4 DEF Has
    <2>2. QED
      BY <1>1, <2>1, Zenon DEF LedgerInv, PlacesSound
  <1>8. writing' \in Writes
    BY <1>1, Zenon DEF Writes
  <1>9. QED
    BY <1>1, <1>5, <1>6, <1>7, <1>8, WriterStep, Zenon DEF LedgerInv, LedgerTypes
-----------------------------------------------------------------------------
\* A step of a reader leaves these to show.
LEMMA ReaderStep ==
    ASSUME LedgerInv, NEW r \in LedgerReader, NEW x \in Reads \cup {NoRead}, ReaderSound(x),
           reading' = [reading EXCEPT ![r] = x], blockCache' \in Seq(WholeEntry),
           headers' = headers, txHashs' = txHashs, transactions' = transactions, receiptOf' = receiptOf,
           writing' = writing
    PROVE  LedgerInv'
  <1>1. /\ reading' \in [LedgerReader -> Reads \cup {NoRead}] /\ reading'[r] = x
        /\ \A q \in LedgerReader \ {r} : reading'[q] = reading[q]
    BY Zenon DEF LedgerInv, LedgerTypes
  <1>2. LedgerTypes'
    BY <1>1, Zenon DEF LedgerInv, LedgerTypes
  <1>3. ListsSound' /\ WriterSound' /\ PlacesSound'
    BY Zenon DEF LedgerInv, ListsSound, WriterSound, PlacesSound, Writing
  <1>4. ReadersSound'
    BY <1>1 DEF LedgerInv, ReadersSound, ReaderSound
  <1>5. QED
    BY <1>2, <1>3, <1>4, Zenon DEF LedgerInv

\* The two ways in which the cache changes keep its entries whole.
LEMMA CacheSound ==
    ASSUME NEW e \in WholeEntry, blockCache \in Seq(WholeEntry)
    PROVE  /\ \A i \in DOMAIN blockCache : MovedToFront(i, e) \in Seq(WholeEntry)
           /\ PushedFront(e) \in Seq(WholeEntry)
  <1>1. <<e>> \in Seq(WholeEntry) /\ Len(blockCache) \in Nat
    OBVIOUS
  <1>2. ASSUME NEW i \in DOMAIN blockCache PROVE MovedToFront(i, e) \in Seq(WholeEntry)
    <2>1. i \in 1 .. Len(blockCache)
      OBVIOUS
    <2>2. SubSeq(blockCache, 1, i - 1) \in Seq(WholeEntry)
      BY <2>1
    <2>3. SubSeq(blockCache, i + 1, Len(blockCache)) \in Seq(WholeEntry)
      BY <2>1
    <2>4. QED
      BY <1>1, <2>2, <2>3 DEF MovedToFront
  <1>3. PushedFront(e) \in Seq(WholeEntry)
    <2> DEFINE all == <<e>> \o blockCache
    <2>1. all \in Seq(WholeEntry) /\ Len(all) = Len(blockCache) + 1
      BY <1>1
    <2> HIDE DEF all
    <2>2. SubSeq(all, 1, Len(all) - 1) \in Seq(WholeEntry)
      BY <1>1, <2>1
    <2>3. QED
      BY <2>1, <2>2, Zenon DEF PushedFront, all
  <1>4. QED
    BY Zenon, <1>2, <1>3

\* What is known of a reader in GetBlock.
LEMMA InGetBlock ==
    ASSUME LedgerInv, NEW r \in LedgerReader, reading[r].at # "idle"
    PROVE  reading[r] \in Reads /\ reading[r] # NoRead /\ ReaderSound(reading[r])
  BY DEF LedgerInv, LedgerTypes, ReadersSound, NoRead

\* A block that is in the cache goes to its front; for another the header is next.
LEMMA GetBlockInv == ASSUME LedgerInv, NEW r \in LedgerReader, NEW h \in StoredBlock, GetBlock(r, h) PROVE LedgerInv'
  <1>1. /\ headers' = headers /\ txHashs' = txHashs /\ transactions' = transactions /\ receiptOf' = receiptOf
        /\ writing' = writing /\ reading[r] = NoRead /\ blockCache \in Seq(WholeEntry)
    BY Zenon DEF GetBlock, LedgerInv
  <1>2. CASE \E i \in DOMAIN blockCache : blockCache' = MovedToFront(i, blockCache[i]) /\ reading' = reading
    <2>1. PICK i \in DOMAIN blockCache : blockCache' = MovedToFront(i, blockCache[i]) /\ reading' = reading
      BY Zenon, <1>2
    <2>2. blockCache[i] \in WholeEntry
      BY <1>1
    <2>3. blockCache' \in Seq(WholeEntry)
      BY Zenon, <1>1, <2>1, <2>2, CacheSound
    <2>4. reading' = [reading EXCEPT ![r] = NoRead]
      BY <1>1, <2>1, Zenon DEF LedgerInv, LedgerTypes
    <2>5. ReaderSound(NoRead)
      BY Zenon DEF ReaderSound
    <2>6. QED
      BY Zenon, <1>1, <2>3, <2>4, <2>5, ReaderStep
  <1>3. CASE blockCache' = blockCache /\ reading' = [reading EXCEPT ![r] =
                [at |-> "header", hash |-> h, txs |-> <<>>, next |-> 1, early |-> ~Complete(h)]]
    <2> DEFINE x == [at |-> "header", hash |-> h, txs |-> <<>>, next |-> 1, early |-> ~Complete(h)]
    <2>1. <<>> \in Seq(StoredTx) /\ (~Complete(h)) \in BOOLEAN
      BY DEF Complete
    <2>2. x \in Reads
      BY <2>1 DEF Reads
    <2>3. Complete(h) => h \in txHashs
      BY Zenon DEF Complete, LedgerInv, ListsSound, Writing
    <2>4. ReaderSound(x)
      BY <2>3, Zenon DEF ReaderSound
    <2> HIDE DEF x
    <2>5. QED
      BY <1>1, <1>3, <2>2, <2>4, ReaderStep, Zenon DEF x
  <1>4. QED
    BY <1>2, <1>3, Zenon DEF GetBlock

\* GetBlock reads the header.
LEMMA getHeaderInv == ASSUME LedgerInv, NEW r \in LedgerReader, getHeader(r) PROVE LedgerInv'
  <1> DEFINE x == reading[r]
             y == IF x.hash \in headers THEN [x EXCEPT !.at = "list"] ELSE NoRead
  <1>1. /\ headers' = headers /\ txHashs' = txHashs /\ transactions' = transactions /\ receiptOf' = receiptOf
        /\ writing' = writing /\ blockCache' = blockCache /\ x.at = "header"
        /\ reading' = [reading EXCEPT ![r] = y]
    BY Zenon DEF getHeader, Step
  <1>2. x \in Reads /\ x # NoRead /\ ReaderSound(x)
    BY Zenon, <1>1, InGetBlock
  <1> HIDE DEF x
  <1>3. y \in Reads \cup {NoRead} /\ ReaderSound(y)
    BY <1>1, <1>2, Zenon DEF Reads, ReaderSound, NoRead
  <1>4. QED
    BY <1>1, <1>3, ReaderStep, Zenon DEF LedgerInv

\* GetBlock reads the list of the hashes.
LEMMA getTransactionsInv == ASSUME LedgerInv, NEW r \in LedgerReader, getTransactions(r) PROVE LedgerInv'
  <1> DEFINE x == reading[r]
             y == [x EXCEPT !.at = IF x.hash \in txHashs THEN "txs" ELSE "add"]
  <1>1. /\ headers' = headers /\ txHashs' = txHashs /\ transactions' = transactions /\ receiptOf' = receiptOf
        /\ writing' = writing /\ blockCache' = blockCache /\ x.at = "list"
        /\ reading' = [reading EXCEPT ![r] = y]
    BY Zenon DEF getTransactions, Step
  <1>2. x \in Reads /\ x # NoRead /\ ReaderSound(x)
    BY Zenon, <1>1, InGetBlock
  <1> HIDE DEF x
  <1>3. x.hash \in StoredBlock /\ Len(BlockTxs[x.hash]) \in Nat
    BY <1>2, TxFacts, Zenon DEF Reads
  <1>4. x.txs = <<>> /\ x.next = 1 /\ Len(<<>>) = 0
    BY <1>1, <1>2, Zenon DEF ReaderSound
  <1>5. y \in Reads /\ y.hash = x.hash /\ y.txs = x.txs /\ y.next = x.next /\ y.early = x.early
        /\ y.at = IF x.hash \in txHashs THEN "txs" ELSE "add"
    BY <1>2, Zenon DEF Reads
  <1> HIDE DEF y
  <1>6. ReaderSound(y)
    BY <1>2, <1>3, <1>4, <1>5 DEF ReaderSound
  <1>7. QED
    BY <1>1, <1>5, <1>6, ReaderStep, Zenon DEF LedgerInv

\* GetBlock reads one transaction: it is there.
LEMMA getTransactionInv == ASSUME LedgerInv, NEW r \in LedgerReader, getTransaction(r) PROVE LedgerInv'
  <1> DEFINE x == reading[r]
             its == BlockTxs[x.hash]
             i == x.next
             y == [x EXCEPT !.next = i + 1,
                            !.txs = IF transactions[its[i]] = NoTx THEN x.txs ELSE Append(x.txs, its[i])]
  <1>1. /\ headers' = headers /\ txHashs' = txHashs /\ transactions' = transactions /\ receiptOf' = receiptOf
        /\ writing' = writing /\ blockCache' = blockCache /\ x.at = "txs" /\ i <= Len(its)
        /\ reading' = [reading EXCEPT ![r] = y]
    BY Zenon DEF getTransaction, Step
  <1>2. x \in Reads /\ x # NoRead /\ ReaderSound(x)
    BY Zenon, <1>1, InGetBlock
  <1> HIDE DEF x
  <1>3. /\ x.hash \in StoredBlock /\ x.hash \in txHashs /\ x.txs \in Seq(StoredTx) /\ i \in Nat \ {0}
        /\ its \in Seq(StoredTx) /\ Len(its) \in Nat
        /\ Len(x.txs) = i - 1 /\ \A j \in 1 .. i - 1 : x.txs[j] = its[j]
    BY <1>1, <1>2, TxFacts, Zenon DEF Reads, ReaderSound
  <1>4. its[i] \in StoredTx /\ transactions[its[i]] # NoTx
    BY <1>1, <1>3 DEF LedgerInv, ListsSound
  <1> DEFINE s == Append(x.txs, its[i])
  <1> HIDE DEF its
  <1>5. /\ s \in Seq(StoredTx) /\ Len(s) = i
        /\ \A j \in 1 .. i : s[j] = its[j]
    BY <1>3, <1>4
  <1>6. /\ y \in Reads /\ y.hash = x.hash /\ y.txs = s /\ y.next = i + 1 /\ y.early = x.early /\ y.at = "txs"
    <2>1. y = [x EXCEPT !.next = i + 1, !.txs = s]
      BY Zenon, <1>4
    <2> HIDE DEF y, s
    <2>2. i + 1 \in Nat \ {0}
      BY <1>3
    <2>3. QED
      BY <1>1, <1>2, <1>5, <2>1, <2>2, Zenon DEF Reads
  <1> HIDE DEF y, s
  <1>7. ReaderSound(y)
    BY <1>1, <1>2, <1>3, <1>5, <1>6 DEF ReaderSound, its
  <1>8. QED
    BY <1>1, <1>6, <1>7, ReaderStep, Zenon DEF LedgerInv

\* GetBlock puts what it has read into the cache.
LEMMA blockAddInv == ASSUME LedgerInv, NEW r \in LedgerReader, blockAdd(r) PROVE LedgerInv'
  <1> DEFINE x == reading[r]
             e == [hash |-> x.hash, txs |-> x.txs, early |-> x.early]
  <1>1. /\ headers' = headers /\ txHashs' = txHashs /\ transactions' = transactions /\ receiptOf' = receiptOf
        /\ writing' = writing
        /\ x.at = "add" \/ (x.at = "txs" /\ x.next > Len(BlockTxs[x.hash]))
        /\ reading' = [reading EXCEPT ![r] = NoRead]
        /\ \/ \E i \in DOMAIN blockCache : blockCache' = MovedToFront(i, e)
           \/ blockCache' = PushedFront(e)
    BY Zenon DEF blockAdd
  <1>2. x \in Reads /\ x # NoRead /\ ReaderSound(x)
    BY Zenon, <1>1, InGetBlock
  <1> HIDE DEF x
  <1>3. x.hash \in StoredBlock /\ x.txs \in Seq(StoredTx) /\ x.early \in BOOLEAN /\ x.next \in Nat
    BY <1>2, Zenon DEF Reads
  <1>4. ASSUME x.at = "add" PROVE e \in WholeEntry
    BY <1>2, <1>3, <1>4, Zenon DEF ReaderSound, WholeEntry, Entry
  <1>5. ASSUME x.at = "txs", x.next > Len(BlockTxs[x.hash]) PROVE e \in WholeEntry
    <2> DEFINE its == BlockTxs[x.hash]
    <2>1. its \in Seq(StoredTx) /\ Len(its) \in Nat
      BY Zenon, <1>3, TxFacts
    <2>2. x.next <= Len(its) + 1 /\ Len(x.txs) = x.next - 1 /\ \A i \in 1 .. x.next - 1 : x.txs[i] = its[i]
      BY <1>2, <1>5, Zenon DEF ReaderSound
    <2>3. x.next > Len(its)
      BY Zenon, <1>5
    <2> HIDE DEF its
    <2>4. x.txs = its
      BY <1>3, <2>1, <2>2, <2>3
    <2>5. QED
      BY <1>3, <2>4, Zenon DEF WholeEntry, Entry, its
  <1>6. e \in WholeEntry
    BY Zenon, <1>1, <1>4, <1>5
  <1> HIDE DEF e
  <1>7. blockCache' \in Seq(WholeEntry)
    BY Zenon, <1>1, <1>6, CacheSound DEF LedgerInv
  <1>8. ReaderSound(NoRead)
    BY Zenon DEF ReaderSound
  <1>9. QED
    BY Zenon, <1>1, <1>7, <1>8, ReaderStep

\* Every step keeps the invariant.
LEMMA LedgerNextInv == LedgerInv /\ [LedgerNext]_ledgerVars => LedgerInv'
  <1> SUFFICES ASSUME LedgerInv, [LedgerNext]_ledgerVars PROVE LedgerInv'
    BY Zenon
  <1>1. CASE LedgerNext
    BY Zenon, <1>1, putHeaderInv, putTransactionInv, putTxHashsInv, putReceiptInv, WriteEndsInv, GetBlockInv,
       getHeaderInv, getTransactionsInv, getTransactionInv, blockAddInv DEF LedgerNext
  <1>2. CASE UNCHANGED ledgerVars
    <2>1. /\ headers' = headers /\ txHashs' = txHashs /\ transactions' = transactions /\ receiptOf' = receiptOf
          /\ writing' = writing /\ blockCache' = blockCache /\ reading' = reading
      BY <1>2, Zenon DEF ledgerVars
    <2>2. QED
      <3>1. LedgerTypes' /\ ListsSound' /\ WriterSound' /\ PlacesSound' /\ ReadersSound'
        <4>1. LedgerTypes' /\ ListsSound' /\ ReadersSound'
          BY Zenon, <2>1 DEF LedgerInv, LedgerTypes, ListsSound, ReadersSound, ReaderSound, Writing
        <4>2. WriterSound' /\ PlacesSound'
          BY <2>1, Zenon DEF LedgerInv, WriterSound, PlacesSound
        <4>3. QED
          BY Zenon, <4>1, <4>2
      <3>2. QED
        BY Zenon, <2>1, <3>1 DEF LedgerInv
  <1>3. QED
    BY Zenon, <1>1, <1>2

\* The invariant holds throughout.
LEMMA LedgerInvCorrect == LedgerSpec => []LedgerInv
  BY LedgerInitInv, LedgerNextInv, PTL DEF LedgerSpec

\* The cache, whatever its size and however many readers and the writer
\* interleave, holds a block whole, or empty when the call that put it there
\* began before the block was stored (ledger.go, GetBlock and
\* putTransactions).
THEOREM CachedWholeCorrect == LedgerSpec => []CachedWhole
  <1>1. LedgerInv => CachedWhole
    BY DEF LedgerInv, CachedWhole, WholeEntry
  <1>2. QED
    BY <1>1, LedgerInvCorrect, PTL

\* Between two writes every transaction of a stored block is found at a place
\* of a stored block that holds it, with that block's receipt, whichever of
\* the blocks with it was written last (ledger.go, putTransaction,
\* putReceipts).
THEOREM LookupAgreesCorrect == LedgerSpec => []LookupAgrees
  <1>1. ASSUME LedgerInv PROVE LookupAgrees
    <2> SUFFICES ASSUME writing = NoWrite, NEW b \in headers, NEW t \in StoredTx, t \in Range(BlockTxs[b])
                 PROVE  /\ transactions[t].block \in headers
                        /\ BlockTxs[transactions[t].block][transactions[t].index] = t
                        /\ receiptOf[t] = transactions[t].block
      BY Zenon DEF LookupAgrees
    <2>1. b \in StoredBlock /\ b \in txHashs
      BY <1>1, Zenon DEF LedgerInv, LedgerTypes, ListsSound, Writing
    <2>2. PICK i \in 1 .. Len(BlockTxs[b]) : BlockTxs[b][i] = t
      BY <2>1, TxFacts DEF Range
    <2>3. transactions[t] # NoTx
      BY <1>1, <2>1, <2>2, Zenon DEF LedgerInv, ListsSound
    <2>4. QED
      BY Zenon, <1>1, <2>3 DEF LedgerInv, PlacesSound
  <1>2. QED
    BY <1>1, LedgerInvCorrect, PTL
=============================================================================
