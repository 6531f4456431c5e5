--------------------------- MODULE DownloadProofs ---------------------------
(***************************************************************************)
(* The books of the download queue are right for any peers, any chain, any *)
(* limits and any order of answers, expiries and cancellations.            *)
(*                                                                         *)
(* Books holds of every queue the program can have.  While nothing is      *)
(* cancelled, what has been scheduled is the blocks from the first place   *)
(* of the cache up to the last hash (Contiguous), in the order of heights: *)
(* then the lowest hashes that Reserve takes have a place in the cache.    *)
(***************************************************************************)
EXTENDS Downloader, FiniteSetTheorems, WellFoundedInduction, TLAPS

Queue == [hashPool : SUBSET Hash, hashQueue : SUBSET Hash, index : [Hash -> Nat], counter : Nat,
          pendPool : [Peer -> SUBSET Hash], blockPool : SUBSET Hash, cache : SUBSET Hash, offset : Nat]

\* What is scheduled waits or is asked for once, counters grow with heights,
\* and there is a place for every block that is asked for.
Books(u) ==
    /\ u.hashQueue \subseteq u.hashPool
    /\ \A p \in Peer : /\ u.pendPool[p] \subseteq u.hashPool
                       /\ u.pendPool[p] \cap u.hashQueue = {}
    /\ \A p, r \in Peer : p # r => u.pendPool[p] \cap u.pendPool[r] = {}
    /\ \A h \in u.hashPool : u.index[h] <= u.counter
    /\ \A g, h \in u.hashPool : g < h => u.index[g] < u.index[h]
    /\ Cardinality(Outstanding(u)) + Cardinality(u.blockPool) <= CacheLimit

\* Nothing that is scheduled is lost.
Kept(u) == \A h \in u.hashPool : h \in u.hashQueue \/ \E p \in Peer : h \in u.pendPool[p]

\* What is scheduled or has come are the blocks from the first place of the
\* cache up to the height next.
Contiguous(u, next) ==
    /\ 1 <= u.offset /\ u.offset <= next
    /\ u.hashPool \cup u.blockPool = u.offset .. next - 1
    /\ u.hashPool \cap u.blockPool = {}
    /\ u.cache = u.blockPool
    /\ \A p \in Peer : \A h \in u.pendPool[p] : h < u.offset + CacheLimit

Nobody(u) == \A p \in Peer : u.pendPool[p] = {}

\* Nothing is scheduled, and no place of the cache has been chosen.
Fresh(u) == u.hashPool = {} /\ u.blockPool = {} /\ u.cache = {} /\ u.offset = 0

DownloadTypes ==
    /\ q \in Queue
    /\ goal \in 0 .. Top /\ head \in Nat /\ taken \subseteq Hash
    /\ from \in Nat \ {0}
    /\ sync \in {"idle", "ancestor", "fetch"}
    /\ hf \in {"off", "wait", "last", "ok", "err"}
    /\ bf \in {"off", "select", "assign", "ok", "err"}
    /\ cancelled \in BOOLEAN

DownloadInv ==
    /\ DownloadTypes
    /\ Books(q)
    /\ \A h \in q.hashPool : h < from
    /\ bf # "err" => Kept(q)
    /\ bf \in {"off", "ok"} => Nobody(q)
    /\ sync # "fetch" => bf = "off" /\ hf = "off"
    /\ sync = "ancestor" => Fresh(q)
    /\ sync = "fetch" /\ ~ cancelled => Contiguous(q, from)
-----------------------------------------------------------------------------
(* Sets *)

\* Sets of heights are finite.
LEMMA HashSets ==
    ASSUME NEW S \in SUBSET Hash
    PROVE  IsFiniteSet(S) /\ Cardinality(S) \in Nat
  <1>1. IsFiniteSet(Hash)
    BY FS_Interval, DownloadConstants DEF Hash
  <1>2. QED
    BY Zenon, <1>1, FS_Subset, FS_CardinalityType

\* A set and a part of it.
LEMMA PartSmaller ==
    ASSUME NEW S \in SUBSET Hash, NEW T \in SUBSET S
    PROVE  Cardinality(T) <= Cardinality(S)
  BY Zenon, HashSets, FS_Subset

\* Two sets without a common element.
LEMMA SumOfParts ==
    ASSUME NEW S \in SUBSET Hash, NEW T \in SUBSET Hash
    PROVE  /\ Cardinality(S \cup T) <= Cardinality(S) + Cardinality(T)
           /\ S \cap T = {} => Cardinality(S \cup T) = Cardinality(S) + Cardinality(T)
  <1>1. IsFiniteSet(S) /\ IsFiniteSet(T) /\ Cardinality(S) \in Nat /\ Cardinality(T) \in Nat
    BY Zenon, HashSets
  <1>2. Cardinality(S \cup T) = Cardinality(S) + Cardinality(T) - Cardinality(S \cap T)
    BY Zenon, <1>1, FS_Union
  <1>3. S \cap T \in SUBSET Hash
    BY Zenon
  <1>4. Cardinality(S \cap T) \in Nat
    BY Zenon, <1>3, HashSets
  <1>5. S \cap T = {} => Cardinality(S \cap T) = 0
    BY Zenon, FS_EmptySet
  <1>6. QED
    BY <1>1, <1>2, <1>4, <1>5

\* A set of numbers that is not empty has a least element.
LEMMA LeastNumber ==
    ASSUME NEW T \in SUBSET Nat, T # {}
    PROVE  \E x \in T : \A y \in T : x <= y
  <1>1. PICK x \in T : \A y \in T : ~(<<y, x>> \in OpToRel(<, Nat))
    BY NatLessThanWellFounded, WFMin, Zenon
  <1>2. \A y \in T : ~(y < x)
    BY <1>1, Zenon DEF OpToRel
  <1>3. QED
    BY <1>2

\* A set of heights that is not empty has a greatest element.
LEMMA GreatestHash ==
    ASSUME NEW T \in SUBSET Hash, T # {}
    PROVE  \E x \in T : \A y \in T : y <= x
  <1> DEFINE D == {n \in Nat : \E y \in T : n = Top - y}
  <1>1. PICK y \in T : TRUE
    BY Zenon
  <1>2. \A z \in T : z \in Nat /\ Top - z \in Nat /\ Top - z \in D
    BY DownloadConstants DEF Hash
  <1>3. D \in SUBSET Nat /\ D # {}
    BY Zenon, <1>1, <1>2
  <1>4. PICK d \in D : \A e \in D : d <= e
    BY Zenon, <1>3, LeastNumber
  <1>5. PICK x \in T : d = Top - x
    BY Zenon, <1>4
  <1>6. \A z \in T : Top - x <= Top - z
    BY Zenon, <1>2, <1>4, <1>5
  <1>7. QED
    BY <1>2, <1>5, <1>6, DownloadConstants

\* What is asked for are heights.
LEMMA OutstandingHashes ==
    ASSUME NEW u \in Queue
    PROVE  /\ Outstanding(u) \in SUBSET Hash
           /\ Cardinality(Outstanding(u)) \in Nat /\ Cardinality(u.blockPool) \in Nat
  <1>1. Outstanding(u) \in SUBSET Hash /\ u.blockPool \in SUBSET Hash
    BY DEF Outstanding, Queue
  <1>2. QED
    BY Zenon, <1>1, HashSets
\* The parts of a queue.
LEMMA QueueParts ==
    ASSUME NEW u \in Queue
    PROVE  /\ u.hashPool \in SUBSET Hash /\ u.hashQueue \in SUBSET Hash /\ u.blockPool \in SUBSET Hash
           /\ u.cache \in SUBSET Hash /\ u.index \in [Hash -> Nat] /\ u.counter \in Nat /\ u.offset \in Nat
           /\ u.pendPool \in [Peer -> SUBSET Hash]
           /\ u = [hashPool |-> u.hashPool, hashQueue |-> u.hashQueue, index |-> u.index, counter |-> u.counter,
                   pendPool |-> u.pendPool, blockPool |-> u.blockPool, cache |-> u.cache, offset |-> u.offset]
  BY Zenon DEF Queue
-----------------------------------------------------------------------------
(* The operations of the queue *)

\* The queue is emptied.
LEMMA EmptyBooks ==
    /\ EmptyQueue \in Queue /\ Books(EmptyQueue) /\ Kept(EmptyQueue) /\ Nobody(EmptyQueue)
    /\ Fresh(EmptyQueue)
  <1>1. EmptyQueue \in Queue
    BY DownloadConstants, Zenon DEF EmptyQueue, Queue
  <1>2. /\ EmptyQueue.hashPool = {} /\ EmptyQueue.hashQueue = {} /\ EmptyQueue.blockPool = {}
        /\ EmptyQueue.cache = {} /\ EmptyQueue.offset = 0
        /\ \A p \in Peer : EmptyQueue.pendPool[p] = {}
    BY Zenon DEF EmptyQueue
  <1>3. Outstanding(EmptyQueue) = {}
    BY <1>2, Zenon DEF Outstanding
  <1>4. Cardinality(Outstanding(EmptyQueue)) + Cardinality(EmptyQueue.blockPool) <= CacheLimit
    BY <1>2, <1>3, FS_EmptySet, DownloadConstants
  <1>5. Books(EmptyQueue)
    BY <1>2, <1>4, Zenon DEF Books
  <1>6. QED
    BY <1>1, <1>2, <1>5, Zenon DEF Kept, Nobody, Fresh

\* Insert of the hashes from height a to b, all above what is scheduled.
LEMMA InsertBooks ==
    ASSUME NEW u \in Queue, Books(u), NEW a \in Nat \ {0}, NEW b \in a .. Top,
           \A h \in u.hashPool : h < a
    PROVE  /\ Insert(u, a .. b) \in Queue /\ Books(Insert(u, a .. b))
           /\ \A h \in Insert(u, a .. b).hashPool : h < b + 1
           /\ Kept(u) => Kept(Insert(u, a .. b))
           /\ Nobody(u) => Nobody(Insert(u, a .. b))
           /\ Contiguous(u, a) => Contiguous(Insert(u, a .. b), b + 1)
  <1> DEFINE new == a .. b
             v == Insert(u, new)
             x == [h \in Hash |-> IF h \in new THEN u.counter + Cardinality({g \in new : g <= h}) ELSE u.index[h]]
             n == Cardinality(new)
  <1>1. /\ new \in SUBSET Hash /\ n = b - a + 1 /\ u.hashPool \in SUBSET Hash /\ u.hashQueue \in SUBSET Hash
        /\ u.counter \in Nat /\ u.index \in [Hash -> Nat]
    <2>1. new \in SUBSET Hash
      BY DownloadConstants DEF Hash
    <2>2. n = b - a + 1
      BY FS_Interval, DownloadConstants
    <2>3. QED
      BY Zenon, QueueParts, <2>1, <2>2
  <1>2. Inserts(u, new) = new
    BY DEF Inserts
  <1>3. v = [u EXCEPT !.hashPool = u.hashPool \cup new, !.hashQueue = u.hashQueue \cup new, !.index = x,
                      !.counter = u.counter + n]
    BY <1>2, Zenon DEF Insert
  <1>4. \A h \in new : x[h] = u.counter + (h - a + 1)
    <2> SUFFICES ASSUME NEW h \in new PROVE x[h] = u.counter + (h - a + 1)
      BY Zenon
    <2>1. {g \in new : g <= h} = a .. h
      BY DownloadConstants
    <2>2. Cardinality(a .. h) = h - a + 1
      BY FS_Interval
    <2>3. QED
      BY Zenon, <1>1, <2>1, <2>2
  <1>5. /\ x \in [Hash -> Nat] /\ \A h \in Hash \ new : x[h] = u.index[h]
    <2>1. \A h \in new : u.counter + (h - a + 1) \in Nat
      BY <1>1
    <2>2. \A h \in Hash : x[h] \in Nat
      BY Zenon, <1>1, <1>4, <2>1
    <2>3. QED
      BY Zenon, <2>2
  <1> HIDE DEF x, v, n
  <1>6. /\ v.hashPool = u.hashPool \cup new /\ v.hashQueue = u.hashQueue \cup new /\ v.index = x
        /\ v.counter = u.counter + n /\ v.pendPool = u.pendPool /\ v.blockPool = u.blockPool
        /\ v.cache = u.cache /\ v.offset = u.offset
        /\ v \in Queue
    <2>1. u.hashPool \cup new \in SUBSET Hash /\ u.hashQueue \cup new \in SUBSET Hash /\ u.counter + n \in Nat
      BY <1>1
    <2>2. v \in Queue
      BY Zenon, <1>3, <1>5, <2>1 DEF Queue
    <2>3. QED
      BY Zenon, <1>3, <2>2 DEF Queue
  <1>7. Outstanding(v) = Outstanding(u)
    BY <1>6, Zenon DEF Outstanding
  <1>8. \A h \in v.hashPool : v.index[h] <= v.counter /\ h < b + 1
    <2>1. \A h \in new : x[h] <= u.counter + n /\ h < b + 1
      BY <1>1, <1>4
    <2>2. \A h \in u.hashPool : h \in Hash \ new /\ h \in Nat
      BY <1>1, DownloadConstants DEF Hash
    <2>3. \A h \in u.hashPool : x[h] <= u.counter + n /\ h < b + 1
      BY <1>1, <1>5, <2>2 DEF Books
    <2>4. QED
      BY Zenon, <1>6, <2>1, <2>3
  <1>9. \A g, h \in v.hashPool : g < h => v.index[g] < v.index[h]
    <2> SUFFICES ASSUME NEW g \in v.hashPool, NEW h \in v.hashPool, g < h PROVE x[g] < x[h]
      BY Zenon, <1>6
    <2>1. CASE h \in new
      BY <2>1, <1>1, <1>4, <1>5, <1>6 DEF Books
    <2>2. CASE h \notin new
      <3>1. h \in u.hashPool /\ h < a /\ g \notin new /\ g \in u.hashPool
        BY <2>2, <1>1, <1>6, DownloadConstants DEF Hash
      <3>2. QED
        BY <3>1, <2>2, <1>1, <1>5 DEF Books
    <2>3. QED
      BY Zenon, <2>1, <2>2
  <1>10. \A h \in new : h \notin u.hashPool
    OBVIOUS
  <1>11. Books(v)
    BY <1>6, <1>7, <1>8, <1>9, <1>10, Zenon DEF Books
  <1>12. Kept(u) => Kept(v)
    BY <1>6, Zenon DEF Kept
  <1>13. Nobody(u) => Nobody(v)
    BY <1>6, Zenon DEF Nobody
  <1>14. ASSUME Contiguous(u, a) PROVE Contiguous(v, b + 1)
    <2>1. u.offset \in Nat /\ u.blockPool \in SUBSET Hash
      BY Zenon DEF Queue
    <2>2. (u.offset .. a - 1) \cup new = u.offset .. b + 1 - 1
      BY <2>1, <1>14 DEF Contiguous
    <2>3. new \cap u.blockPool = {}
      BY <2>1, <1>14 DEF Contiguous
    <2>4. QED
      BY <1>6, <1>14, <2>1, <2>2, <2>3 DEF Contiguous
  <1>15. QED
    BY <1>6, <1>8, <1>11, <1>12, <1>13, <1>14, Zenon DEF v

\* Reserve takes no more than there is space for.
LEMMA ReservableFits ==
    ASSUME NEW u \in Queue, Books(u), NEW count
    PROVE  /\ Reservable(u, count) \in SUBSET u.hashQueue
           /\ Cardinality(Outstanding(u)) + Cardinality(Reservable(u, count)) + Cardinality(u.blockPool) <= CacheLimit
  <1> DEFINE R == Reservable(u, count)
  <1>1. R \in SUBSET u.hashQueue /\ u.hashQueue \in SUBSET Hash /\ R \in SUBSET Hash
    BY Zenon, QueueParts DEF Reservable
  <1>2. /\ Cardinality(Outstanding(u)) \in Nat /\ Cardinality(u.blockPool) \in Nat /\ Cardinality(R) \in Nat
        /\ IsFiniteSet(R)
    BY Zenon, <1>1, HashSets, OutstandingHashes
  <1>3. CASE R = {}
    <2>1. Cardinality(R) = 0
      BY Zenon, <1>3, FS_EmptySet
    <2>2. QED
      BY <1>1, <1>2, <2>1 DEF Books
  <1>4. CASE R # {}
    <2>1. PICK m \in R : \A y \in R : y <= m
      BY Zenon, <1>1, <1>4, GreatestHash
    <2>2. Cardinality(Before(u, m)) < Space(u)
      BY Zenon, <2>1 DEF Reservable
    <2>3. R \ {m} \in SUBSET Before(u, m)
      <3> SUFFICES ASSUME NEW y \in R, y # m PROVE y \in Before(u, m)
        BY Zenon
      <3>1. y \in Nat /\ m \in Nat
        BY <1>1, <2>1, DownloadConstants DEF Hash
      <3>2. y < m
        BY <2>1, <3>1
      <3>3. QED
        BY Zenon, <3>2, <2>1, <1>1 DEF Books, Before
    <2>4. Before(u, m) \in SUBSET Hash
      BY Zenon, <1>1 DEF Before
    <2>5. Cardinality(R \ {m}) <= Cardinality(Before(u, m)) /\ Cardinality(Before(u, m)) \in Nat
      BY Zenon, <2>3, <2>4, PartSmaller, HashSets
    <2>6. Cardinality(R \ {m}) = Cardinality(R) - 1
      BY Zenon, <1>2, <2>1, FS_RemoveElement
    <2>7. Space(u) = CacheLimit - Cardinality(u.blockPool) - Cardinality(Outstanding(u))
      BY Zenon DEF Space
    <2> HIDE DEF R
    <2>8. QED
      BY <1>1, <1>2, <2>2, <2>5, <2>6, <2>7, DownloadConstants DEF R
  <1>5. QED
    BY Zenon, <1>3, <1>4

\* A hash that Reserve takes has a place in the cache: the blocks below it
\* wait before it, are asked for, or have come.
LEMMA ReservablePlace ==
    ASSUME NEW u \in Queue, Books(u), Kept(u), NEW next \in Nat, Contiguous(u, next), NEW count,
           NEW h \in Reservable(u, count)
    PROVE  h < u.offset + CacheLimit
  <1> DEFINE below == u.offset .. h - 1
             B == Before(u, h)
             O == Outstanding(u)
  <1>1. /\ u.hashQueue \in SUBSET Hash /\ u.hashPool \in SUBSET Hash /\ u.blockPool \in SUBSET Hash /\ u.offset \in Nat
        /\ O \in SUBSET Hash /\ h \in u.hashQueue /\ h \in u.hashPool /\ B \in SUBSET Hash
    BY Zenon, QueueParts, OutstandingHashes DEF Reservable, Before, Books
  <1>2. h \in Nat /\ u.offset <= h /\ h < next
    <2>1. h \in u.offset .. next - 1
      BY Zenon, <1>1 DEF Contiguous
    <2>2. QED
      BY <1>1, <2>1
  <1>3. below \in SUBSET (B \cup (O \cup u.blockPool))
    <2> SUFFICES ASSUME NEW g \in below, g \notin u.blockPool PROVE g \in B \cup O
      BY Zenon
    <2>1. g \in u.hashPool /\ g < h
      BY <1>1, <1>2 DEF Contiguous
    <2>2. u.index[g] < u.index[h]
      BY Zenon, <2>1, <1>1 DEF Books
    <2>3. QED
      BY Zenon, <2>1, <2>2 DEF Kept, Before, Outstanding
  <1>4. Cardinality(below) = h - u.offset
    <2>1. u.offset \in Int /\ h - 1 \in Int
      BY <1>1, <1>2
    <2>2. Cardinality(below) = IF u.offset > h - 1 THEN 0 ELSE h - 1 - u.offset + 1
      BY Zenon, <2>1, FS_Interval
    <2>3. QED
      BY <1>1, <1>2, <2>2
  <1> HIDE DEF below, B, O
  <1>5. /\ B \cup (O \cup u.blockPool) \in SUBSET Hash /\ O \cup u.blockPool \in SUBSET Hash
    BY Zenon, <1>1
  <1>6. /\ Cardinality(below) <= Cardinality(B \cup (O \cup u.blockPool))
        /\ Cardinality(B \cup (O \cup u.blockPool)) <= Cardinality(B) + Cardinality(O \cup u.blockPool)
        /\ Cardinality(O \cup u.blockPool) <= Cardinality(O) + Cardinality(u.blockPool)
    BY Zenon, <1>1, <1>3, <1>5, PartSmaller, SumOfParts
  <1>7. /\ Cardinality(below) \in Nat /\ Cardinality(B) \in Nat /\ Cardinality(O) \in Nat
        /\ Cardinality(u.blockPool) \in Nat /\ Cardinality(O \cup u.blockPool) \in Nat
        /\ Cardinality(B \cup (O \cup u.blockPool)) \in Nat
    <2>1. below \in SUBSET Hash
      BY Zenon, <1>3, <1>5
    <2>2. QED
      BY Zenon, <1>1, <1>5, <2>1, HashSets
  <1>8. Cardinality(B) < CacheLimit - Cardinality(u.blockPool) - Cardinality(O)
    BY Zenon DEF Reservable, Space, B, O
  <1>9. QED
    BY <1>1, <1>2, <1>4, <1>6, <1>7, <1>8, DownloadConstants

\* Reserve.
LEMMA ReserveBooks ==
    ASSUME NEW u \in Queue, Books(u), NEW p \in Peer, NEW count
    PROVE  /\ Reserve(u, p, count) \in Queue /\ Books(Reserve(u, p, count))
           /\ Reserve(u, p, count).hashPool = u.hashPool
           /\ Kept(u) => Kept(Reserve(u, p, count))
           /\ \A next \in Nat : Kept(u) /\ Contiguous(u, next) => Contiguous(Reserve(u, p, count), next)
  <1> DEFINE R == Reservable(u, count)
             v == Reserve(u, p, count)
  <1>1. CASE u.pendPool[p] # {}
    BY Zenon, <1>1 DEF Reserve
  <1>2. CASE u.pendPool[p] = {}
    <2> DEFINE w == [u.pendPool EXCEPT ![p] = R]
               Q == u.hashQueue \ R
    <2>1. v = [u EXCEPT !.hashQueue = Q, !.pendPool = w]
      BY Zenon, <1>2 DEF Reserve
    <2>2. R \in SUBSET u.hashQueue /\ u.hashQueue \in SUBSET Hash /\ u.pendPool \in [Peer -> SUBSET Hash] /\ Q \in SUBSET Hash
      BY Zenon, ReservableFits, QueueParts
    <2>3. /\ w \in [Peer -> SUBSET Hash] /\ w[p] = R /\ \A r \in Peer \ {p} : w[r] = u.pendPool[r]
      BY Zenon, <2>2
    <2> HIDE DEF v, w, Q, R
    <2>4. v \in Queue
      BY Zenon, <2>1, <2>2, <2>3 DEF Queue
    <2>5. /\ v.hashQueue = Q /\ v.pendPool = w /\ v.hashPool = u.hashPool /\ v.index = u.index
          /\ v.counter = u.counter /\ v.blockPool = u.blockPool /\ v.cache = u.cache /\ v.offset = u.offset
      BY Zenon, <2>1, <2>4 DEF Queue
    <2>6. Outstanding(v) = Outstanding(u) \cup R
      <3>1. \A h : h \in Outstanding(v) => h \in Outstanding(u) \cup R
        BY Zenon, <2>3, <2>5 DEF Outstanding
      <3>2. \A h : h \in Outstanding(u) => \E r \in Peer : r # p /\ h \in u.pendPool[r]
        BY Zenon, <1>2 DEF Outstanding
      <3>3. \A h : h \in Outstanding(u) \cup R => h \in Outstanding(v)
        BY Zenon, <2>3, <2>5, <3>2 DEF Outstanding
      <3>4. QED
        BY Zenon, <3>1, <3>3
    <2>7. /\ Outstanding(u) \in SUBSET Hash /\ R \in SUBSET Hash
      BY Zenon, <2>2, OutstandingHashes
    <2>8. Cardinality(Outstanding(v)) <= Cardinality(Outstanding(u)) + Cardinality(R)
      BY Zenon, <2>6, <2>7, SumOfParts
    <2>9. Cardinality(Outstanding(v)) + Cardinality(v.blockPool) <= CacheLimit
      <3>1. Cardinality(Outstanding(u)) + Cardinality(R) + Cardinality(u.blockPool) <= CacheLimit
        BY Zenon, ReservableFits DEF R
      <3>2. /\ Cardinality(Outstanding(u)) \in Nat /\ Cardinality(R) \in Nat /\ Cardinality(u.blockPool) \in Nat
            /\ Cardinality(Outstanding(v)) \in Nat
        BY Zenon, <2>4, <2>7, HashSets, OutstandingHashes
      <3>3. QED
        BY <2>5, <2>8, <3>1, <3>2, DownloadConstants
    <2>10. \A r \in Peer : v.pendPool[r] \subseteq v.hashPool /\ v.pendPool[r] \cap v.hashQueue = {}
      BY Zenon, <2>2, <2>3, <2>5 DEF Books, Q
    <2>11. \A r, t \in Peer : r # t => v.pendPool[r] \cap v.pendPool[t] = {}
      BY Zenon, <2>2, <2>3, <2>5 DEF Books
    <2>12. Books(v)
      BY Zenon, <2>2, <2>5, <2>9, <2>10, <2>11 DEF Books, Q
    <2>13. Kept(u) => Kept(v)
      BY Zenon, <1>2, <2>3, <2>5 DEF Kept, Q
    <2>14. ASSUME NEW next \in Nat, Kept(u), Contiguous(u, next) PROVE Contiguous(v, next)
      <3>1. \A h \in R : h < u.offset + CacheLimit
        BY Zenon, <2>14, ReservablePlace DEF R
      <3>2. \A r \in Peer : \A h \in v.pendPool[r] : h < v.offset + CacheLimit
        BY Zenon, <2>3, <2>5, <2>14, <3>1 DEF Contiguous
      <3>3. QED
        BY Zenon, <2>5, <2>14, <3>2 DEF Contiguous
    <2>15. QED
      BY Zenon, <2>4, <2>5, <2>12, <2>13, <2>14 DEF v
  <1>3. QED
    BY Zenon, <1>1, <1>2

\* Expire puts the hashes of late requests back.
LEMMA ExpireBooks ==
    ASSUME NEW u \in Queue, Books(u), NEW late \in SUBSET Peer
    PROVE  /\ Expire(u, late) \in Queue /\ Books(Expire(u, late))
           /\ Expire(u, late).hashPool = u.hashPool
           /\ Kept(u) => Kept(Expire(u, late))
           /\ \A next \in Nat : Contiguous(u, next) => Contiguous(Expire(u, late), next)
  <1> DEFINE v == Expire(u, late)
             back == UNION {u.pendPool[p] : p \in late}
             Q == u.hashQueue \cup back
             w == [p \in Peer |-> IF p \in late THEN {} ELSE u.pendPool[p]]
  <1>1. v = [u EXCEPT !.hashQueue = Q, !.pendPool = w]
    BY Zenon DEF Expire
  <1>2. /\ u.hashQueue \in SUBSET Hash /\ u.hashPool \in SUBSET Hash
        /\ u.pendPool \in [Peer -> SUBSET Hash] /\ u.hashQueue \subseteq u.hashPool
    BY Zenon, QueueParts DEF Books
  <1>3. /\ back \subseteq u.hashPool /\ Q \subseteq u.hashPool /\ Q \in SUBSET Hash
    BY Zenon, <1>2 DEF Books
  <1>4. /\ w \in [Peer -> SUBSET Hash] /\ \A p \in Peer : w[p] = IF p \in late THEN {} ELSE u.pendPool[p]
    BY Zenon, <1>2
  <1>5. /\ \A p \in late : u.pendPool[p] \subseteq Q
        /\ \A h \in Q : h \in u.hashQueue \/ \E p \in late : h \in u.pendPool[p]
    BY Zenon
  <1> HIDE DEF v, w, Q
  <1>6. v \in Queue
    BY Zenon, <1>1, <1>3, <1>4 DEF Queue
  <1>7. /\ v.hashQueue = Q /\ v.pendPool = w /\ v.hashPool = u.hashPool /\ v.index = u.index
        /\ v.counter = u.counter /\ v.blockPool = u.blockPool /\ v.cache = u.cache /\ v.offset = u.offset
    BY Zenon, <1>1, <1>6 DEF Queue
  <1>8. Outstanding(v) \in SUBSET Outstanding(u)
    BY Zenon, <1>4, <1>7 DEF Outstanding
  <1>9. Cardinality(Outstanding(v)) + Cardinality(v.blockPool) <= CacheLimit
    <2>1. /\ Cardinality(Outstanding(v)) <= Cardinality(Outstanding(u)) /\ Cardinality(Outstanding(v)) \in Nat
          /\ Cardinality(Outstanding(u)) \in Nat /\ Cardinality(u.blockPool) \in Nat
      BY Zenon, <1>6, <1>8, OutstandingHashes, PartSmaller
    <2>2. QED
      BY <1>7, <2>1, DownloadConstants DEF Books
  <1>10. \A p \in Peer : v.pendPool[p] \subseteq v.hashPool /\ v.pendPool[p] \cap v.hashQueue = {}
    <2> SUFFICES ASSUME NEW p \in Peer, NEW h \in w[p] PROVE h \in u.hashPool /\ h \notin Q
      BY Zenon, <1>7
    <2>1. p \notin late /\ h \in u.pendPool[p]
      BY Zenon, <1>4
    <2>2. h \in u.hashPool /\ h \notin u.hashQueue /\ \A r \in late : h \notin u.pendPool[r]
      BY Zenon, <2>1 DEF Books
    <2>3. QED
      BY Zenon, <2>2, <1>5
  <1>11. \A r, t \in Peer : r # t => v.pendPool[r] \cap v.pendPool[t] = {}
    BY Zenon, <1>4, <1>7 DEF Books
  <1>12. Books(v)
    BY Zenon, <1>3, <1>7, <1>9, <1>10, <1>11 DEF Books
  <1>13. ASSUME Kept(u) PROVE Kept(v)
    <2> SUFFICES ASSUME NEW h \in u.hashPool, h \notin Q PROVE \E p \in Peer : h \in w[p]
      BY Zenon, <1>7 DEF Kept
    <2>1. PICK p \in Peer : h \in u.pendPool[p]
      BY Zenon, <1>13 DEF Kept, Q
    <2>2. p \notin late
      BY Zenon, <1>5, <2>1
    <2>3. QED
      BY Zenon, <1>4, <2>1, <2>2
  <1>14. ASSUME NEW next \in Nat, Contiguous(u, next) PROVE Contiguous(v, next)
    <2>1. \A p \in Peer : \A h \in v.pendPool[p] : h < v.offset + CacheLimit
      BY Zenon, <1>4, <1>7, <1>14 DEF Contiguous
    <2>2. QED
      BY Zenon, <1>7, <1>14, <2>1 DEF Contiguous
  <1>15. QED
    BY Zenon, <1>6, <1>7, <1>12, <1>13, <1>14 DEF v

\* Deliver.  What has come leaves the request for the cache; nothing is lost
\* unless the answer is invalid, and it is valid while every block that is
\* asked for has its place.
LEMMA DeliverBooks ==
    ASSUME NEW u \in Queue, Books(u), NEW p \in Peer, NEW blocks, NEW got \in MayDeliver(u, p, blocks)
    PROVE  /\ Deliver(u, p, blocks, got) \in Queue /\ Books(Deliver(u, p, blocks, got))
           /\ Deliver(u, p, blocks, got).hashPool \subseteq u.hashPool
           /\ Kept(u) /\ ~ Invalid(u, p, blocks) => Kept(Deliver(u, p, blocks, got))
           /\ \A next \in Nat : Contiguous(u, next) => Contiguous(Deliver(u, p, blocks, got), next)
  <1> DEFINE v == Deliver(u, p, blocks, got)
             P == u.hashPool \ got
             Q == PutBack(u, p, blocks, got)
             B == u.blockPool \cup got
             C == u.cache \cup got
             w == [u.pendPool EXCEPT ![p] = {}]
  <1>1. v = [u EXCEPT !.pendPool = w, !.hashPool = P, !.hashQueue = Q, !.blockPool = B, !.cache = C]
    BY Zenon DEF Deliver
  <1>2. got \subseteq u.pendPool[p]
    BY Zenon DEF MayDeliver, Wanted
  <1>3. /\ u.hashQueue \in SUBSET Hash /\ u.hashPool \in SUBSET Hash /\ u.pendPool \in [Peer -> SUBSET Hash]
        /\ u.blockPool \in SUBSET Hash /\ u.cache \in SUBSET Hash
        /\ u.hashQueue \subseteq u.hashPool /\ u.pendPool[p] \subseteq u.hashPool
        /\ u.pendPool[p] \cap u.hashQueue = {}
    BY Zenon, QueueParts DEF Books
  <1>4. /\ P \in SUBSET Hash /\ B \in SUBSET Hash /\ C \in SUBSET Hash /\ Q \in SUBSET Hash /\ Q \subseteq P
        /\ got \in SUBSET Hash
    BY Zenon, <1>2, <1>3 DEF PutBack
  <1>5. w \in [Peer -> SUBSET Hash] /\ w[p] = {} /\ \A r \in Peer \ {p} : w[r] = u.pendPool[r]
    BY Zenon, <1>3
  <1> HIDE DEF v, w, P, Q, B, C
  <1>6. v \in Queue
    BY Zenon, <1>1, <1>4, <1>5 DEF Queue
  <1>7. /\ v.hashQueue = Q /\ v.pendPool = w /\ v.hashPool = P /\ v.index = u.index
        /\ v.counter = u.counter /\ v.blockPool = B /\ v.cache = C /\ v.offset = u.offset
    BY Zenon, <1>1, <1>6 DEF Queue
  <1>8. \A r \in Peer \ {p} : u.pendPool[r] \cap u.pendPool[p] = {}
    BY Zenon DEF Books
  <1>9. Outstanding(v) \cap got = {} /\ Outstanding(v) \cup got \in SUBSET Outstanding(u)
    <2>1. \A h \in Outstanding(v) : \E r \in Peer \ {p} : h \in u.pendPool[r]
      BY Zenon, <1>5, <1>7 DEF Outstanding
    <2>2. QED
      BY Zenon, <1>2, <1>8, <2>1 DEF Outstanding
  <1>10. Cardinality(Outstanding(v)) + Cardinality(v.blockPool) <= CacheLimit
    <2>1. /\ Outstanding(v) \in SUBSET Hash /\ Outstanding(u) \in SUBSET Hash
      BY Zenon, <1>6, OutstandingHashes
    <2>2. /\ Cardinality(Outstanding(v) \cup got) = Cardinality(Outstanding(v)) + Cardinality(got)
          /\ Cardinality(Outstanding(v) \cup got) <= Cardinality(Outstanding(u))
          /\ Cardinality(B) <= Cardinality(u.blockPool) + Cardinality(got)
      BY Zenon, <1>3, <1>4, <1>9, <2>1, PartSmaller, SumOfParts DEF B
    <2>3. /\ Cardinality(Outstanding(v)) \in Nat /\ Cardinality(Outstanding(u)) \in Nat /\ Cardinality(got) \in Nat
          /\ Cardinality(B) \in Nat /\ Cardinality(u.blockPool) \in Nat
      BY Zenon, <1>3, <1>4, <2>1, HashSets
    <2>4. Cardinality(Outstanding(u)) + Cardinality(u.blockPool) <= CacheLimit
      BY Zenon DEF Books
    <2>5. QED
      BY <1>7, <2>2, <2>3, <2>4, DownloadConstants
  <1>11. \A r \in Peer : v.pendPool[r] \subseteq v.hashPool /\ v.pendPool[r] \cap v.hashQueue = {}
    <2> SUFFICES ASSUME NEW r \in Peer, NEW h \in w[r] PROVE h \in P /\ h \notin Q
      BY Zenon, <1>7
    <2>1. r # p /\ h \in u.pendPool[r]
      BY Zenon, <1>5
    <2>2. h \in u.hashPool /\ h \notin u.hashQueue /\ h \notin u.pendPool[p]
      BY Zenon, <2>1, <1>8 DEF Books
    <2>3. QED
      BY Zenon, <2>2, <1>2 DEF P, Q, PutBack
  <1>12. \A r, t \in Peer : r # t => v.pendPool[r] \cap v.pendPool[t] = {}
    BY Zenon, <1>5, <1>7 DEF Books
  <1>13. Books(v)
    <2>1. P \subseteq u.hashPool
      BY Zenon DEF P
    <2>2. QED
      BY Zenon, <1>4, <1>7, <1>10, <1>11, <1>12, <2>1 DEF Books
  <1>14. ASSUME Kept(u), ~ Invalid(u, p, blocks) PROVE Kept(v)
    <2> SUFFICES ASSUME NEW h \in P, h \notin Q PROVE \E r \in Peer : h \in w[r]
      BY Zenon, <1>7 DEF Kept
    <2>1. h \in u.hashPool /\ h \notin u.hashQueue /\ h \notin u.pendPool[p]
      BY Zenon, <1>14 DEF P, Q, PutBack
    <2>2. PICK r \in Peer : h \in u.pendPool[r]
      BY Zenon, <1>14, <2>1 DEF Kept
    <2>3. QED
      BY Zenon, <1>5, <2>1, <2>2
  <1>15. ASSUME NEW next \in Nat, Contiguous(u, next) PROVE Contiguous(v, next)
    <2>1. P \cup B = u.hashPool \cup u.blockPool /\ P \cap B = {} /\ C = B
      BY Zenon, <1>2, <1>3, <1>15 DEF Contiguous, P, B, C
    <2>2. \A r \in Peer : \A h \in v.pendPool[r] : h < v.offset + CacheLimit
      BY Zenon, <1>5, <1>7, <1>15 DEF Contiguous
    <2>3. QED
      BY Zenon, <1>7, <1>15, <2>1, <2>2 DEF Contiguous
  <1>16. QED
    BY Zenon, <1>6, <1>7, <1>13, <1>14, <1>15 DEF v, P

\* What TakeBlocks takes are the blocks from the first place up to a gap.
LEMMA ReadyInterval ==
    ASSUME NEW u \in Queue, NEW next \in Nat, Contiguous(u, next)
    PROVE  \E m \in Nat : /\ u.offset <= m /\ m <= next
                          /\ Ready(u) = u.offset .. m - 1
                          /\ Cardinality(Ready(u)) = m - u.offset
  <1> DEFINE R == Ready(u)
             gaps == {n \in Nat : u.offset <= n /\ n \notin R}
  <1>1. u.offset \in Nat /\ u.offset <= next /\ u.cache \subseteq u.offset .. next - 1
    BY Zenon, QueueParts DEF Contiguous
  <1>2. \A n \in R : n \in Nat /\ u.offset <= n /\ n < next
    BY <1>1 DEF Ready
  <1>3. next \in gaps /\ gaps \in SUBSET Nat
    BY <1>1, <1>2
  <1>4. PICK m \in gaps : \A n \in gaps : m <= n
    BY Zenon, <1>3, LeastNumber
  <1>5. m \in Nat /\ u.offset <= m /\ m <= next /\ m \notin R
    BY Zenon, <1>3, <1>4
  <1>6. \A n \in u.offset .. m - 1 : n \in R
    BY <1>1, <1>4, <1>5
  <1>7. ASSUME NEW n \in R PROVE n < m
    <2> SUFFICES ASSUME m <= n PROVE FALSE
      BY <1>2, <1>5
    <2>1. /\ n < u.offset + CacheLimit /\ \A i \in u.offset .. n : i \in u.cache
      BY Zenon DEF Ready
    <2>2. m \in u.cache /\ m < u.offset + CacheLimit /\ \A i \in u.offset .. m : i \in u.cache
      BY <1>1, <1>2, <1>5, <2>1, DownloadConstants
    <2>3. m \in R
      BY Zenon, <1>5, <2>2 DEF Ready
    <2>4. QED
      BY Zenon, <1>5, <2>3
  <1> HIDE DEF R, gaps
  <1>8. R = u.offset .. m - 1
    <2>1. \A n \in R : n \in u.offset .. m - 1
      BY <1>1, <1>2, <1>5, <1>7
    <2>2. QED
      BY Zenon, <1>6, <2>1
  <1>9. Cardinality(u.offset .. m - 1) = m - u.offset
    <2>1. u.offset \in Int /\ m - 1 \in Int
      BY <1>1, <1>5
    <2>2. Cardinality(u.offset .. m - 1) = IF u.offset > m - 1 THEN 0 ELSE m - 1 - u.offset + 1
      BY Zenon, <2>1, FS_Interval
    <2>3. QED
      BY <1>1, <1>5, <2>2
  <1>10. QED
    BY Zenon, <1>5, <1>8, <1>9 DEF R

\* TakeBlocks.
LEMMA TakeBooks ==
    ASSUME NEW u \in Queue, Books(u)
    PROVE  /\ TakeBlocks(u) \in Queue /\ Books(TakeBlocks(u))
           /\ TakeBlocks(u).hashPool = u.hashPool
           /\ Kept(u) => Kept(TakeBlocks(u))
           /\ Nobody(u) => Nobody(TakeBlocks(u))
           /\ Fresh(u) => Fresh(TakeBlocks(u))
           /\ \A next \in Nat : Contiguous(u, next) => Contiguous(TakeBlocks(u), next)
  <1> DEFINE v == TakeBlocks(u)
             R == Ready(u)
             B == u.blockPool \ R
             C == u.cache \ R
             o == u.offset + Cardinality(R)
  <1>1. v = [u EXCEPT !.blockPool = B, !.cache = C, !.offset = o]
    BY Zenon DEF TakeBlocks
  <1>2. /\ u.blockPool \in SUBSET Hash /\ u.cache \in SUBSET Hash /\ u.offset \in Nat
        /\ R \in SUBSET u.cache /\ R \in SUBSET Hash
    BY Zenon, QueueParts DEF Ready
  <1>3. B \in SUBSET u.blockPool /\ B \in SUBSET Hash /\ C \in SUBSET Hash /\ Cardinality(R) \in Nat
    BY Zenon, <1>2, HashSets
  <1>4. o \in Nat
    BY <1>2, <1>3
  <1> HIDE DEF v, B, C, o, R
  <1>5. v \in Queue
    BY Zenon, <1>1, <1>3, <1>4 DEF Queue
  <1>6. /\ v.hashQueue = u.hashQueue /\ v.pendPool = u.pendPool /\ v.hashPool = u.hashPool /\ v.index = u.index
        /\ v.counter = u.counter /\ v.blockPool = B /\ v.cache = C /\ v.offset = o
    BY Zenon, <1>1, <1>5 DEF Queue
  <1>7. Outstanding(v) = Outstanding(u)
    BY Zenon, <1>6 DEF Outstanding
  <1>8. Cardinality(Outstanding(v)) + Cardinality(v.blockPool) <= CacheLimit
    <2>1. /\ Cardinality(B) <= Cardinality(u.blockPool) /\ Cardinality(B) \in Nat /\ Cardinality(u.blockPool) \in Nat
          /\ Cardinality(Outstanding(u)) \in Nat
      BY Zenon, <1>2, <1>3, HashSets, PartSmaller, OutstandingHashes
    <2>2. QED
      BY <1>6, <1>7, <2>1, DownloadConstants DEF Books
  <1>9. Books(v)
    BY Zenon, <1>6, <1>8 DEF Books
  <1>10. (Kept(u) => Kept(v)) /\ (Nobody(u) => Nobody(v))
    BY Zenon, <1>6 DEF Kept, Nobody
  <1>11. ASSUME Fresh(u) PROVE Fresh(v)
    <2>1. R = {}
      BY Zenon, <1>2, <1>11 DEF Fresh
    <2>2. Cardinality(R) = 0
      BY Zenon, <2>1, FS_EmptySet
    <2>3. o = 0
      BY <2>2, <1>11 DEF Fresh, o
    <2>4. QED
      BY Zenon, <1>6, <1>11, <2>3 DEF Fresh, B, C
  <1>12. ASSUME NEW next \in Nat, Contiguous(u, next) PROVE Contiguous(v, next)
    <2>1. PICK m \in Nat : u.offset <= m /\ m <= next /\ R = u.offset .. m - 1 /\ Cardinality(R) = m - u.offset
      BY Zenon, <1>12, ReadyInterval DEF R
    <2>2. o = m
      BY <1>2, <2>1 DEF o
    <2>3. u.cache = u.blockPool /\ u.hashPool \cup u.blockPool = u.offset .. next - 1 /\ u.hashPool \cap u.blockPool = {}
          /\ 1 <= u.offset
      BY Zenon, <1>12 DEF Contiguous
    <2>4. u.hashPool \cup B = (u.offset .. next - 1) \ R /\ u.hashPool \cap B = {} /\ C = B
      BY Zenon, <1>2, <2>3 DEF B, C
    <2>5. (u.offset .. next - 1) \ (u.offset .. m - 1) = m .. next - 1
      BY <1>2, <2>1
    <2>6. \A p \in Peer : \A h \in u.pendPool[p] : h < m + CacheLimit
      <3> SUFFICES ASSUME NEW p \in Peer, NEW h \in u.pendPool[p] PROVE h < m + CacheLimit
        BY Zenon
      <3>1. u.pendPool[p] \in SUBSET Hash
        BY Zenon, QueueParts
      <3>2. h < u.offset + CacheLimit
        BY Zenon, <1>12 DEF Contiguous
      <3>3. QED
        BY <1>2, <2>1, <3>1, <3>2, DownloadConstants DEF Hash
    <2>7. 1 <= m
      BY <1>2, <2>1, <2>3
    <2>8. QED
      BY Zenon, <1>6, <2>1, <2>2, <2>4, <2>5, <2>6, <2>7 DEF Contiguous
  <1>13. QED
    BY Zenon, <1>5, <1>6, <1>9, <1>10, <1>11, <1>12 DEF v

\* Prepare, of a queue that has been emptied.
LEMMA PrepareBooks ==
    ASSUME NEW u \in Queue, Books(u), Fresh(u), Nobody(u), Kept(u), NEW n \in Nat \ {0}
    PROVE  /\ Prepare(u, n) \in Queue /\ Books(Prepare(u, n)) /\ Kept(Prepare(u, n))
           /\ Prepare(u, n).hashPool = {}
           /\ Contiguous(Prepare(u, n), n)
  <1> DEFINE v == Prepare(u, n)
  <1>1. Greatest(u.offset, n) = n
    BY DEF Greatest, Fresh
  <1>2. v = [u EXCEPT !.offset = n]
    BY Zenon, <1>1 DEF Prepare
  <1>3. n \in Nat
    BY Zenon
  <1> HIDE DEF v
  <1>4. v \in Queue
    BY Zenon, <1>2, <1>3 DEF Queue
  <1>5. /\ v.hashQueue = u.hashQueue /\ v.pendPool = u.pendPool /\ v.hashPool = u.hashPool /\ v.index = u.index
        /\ v.counter = u.counter /\ v.blockPool = u.blockPool /\ v.cache = u.cache /\ v.offset = n
    BY Zenon, <1>2, <1>4 DEF Queue
  <1>6. Outstanding(v) = Outstanding(u)
    BY Zenon, <1>5 DEF Outstanding
  <1>7. Books(v) /\ Kept(v) /\ v.hashPool = {}
    BY Zenon, <1>5, <1>6 DEF Books, Kept, Fresh
  <1>8. n .. n - 1 = {} /\ 1 <= n /\ n <= n
    OBVIOUS
  <1>9. Contiguous(v, n)
    BY Zenon, <1>5, <1>8 DEF Contiguous, Fresh, Nobody
  <1>10. QED
    BY Zenon, <1>4, <1>7, <1>9 DEF v
-----------------------------------------------------------------------------
(* The steps *)

\* A new node.
LEMMA DownloadInitInv == DownloadInit => DownloadInv
  <1> SUFFICES ASSUME DownloadInit PROVE DownloadInv
    BY Zenon
  <1>1. /\ q = EmptyQueue /\ head = 0 /\ sync = "idle" /\ hf = "off" /\ from = 1 /\ bf = "off" /\ cancelled = FALSE
        /\ taken = {} /\ \E s \in Scopes : goal = s.height
    BY Zenon DEF DownloadInit
  <1>2. goal \in 0 .. Top
    BY Zenon, <1>1, DownloadConstants
  <1>3. from \in Nat \ {0} /\ head \in Nat
    BY <1>1
  <1>4. DownloadTypes
    BY Zenon, <1>1, <1>2, <1>3, EmptyBooks DEF DownloadTypes
  <1>5. QED
    BY Zenon, <1>1, <1>4, EmptyBooks DEF DownloadInv, Fresh

\* A step that leaves the types of everything but the queue alone.
Other ==
    /\ goal \in 0 .. Top /\ head \in Nat /\ taken \subseteq Hash
    /\ sync \in {"idle", "ancestor", "fetch"}
    /\ hf \in {"off", "wait", "last", "ok", "err"}
    /\ bf \in {"off", "select", "assign", "ok", "err"}
    /\ cancelled \in BOOLEAN
    /\ sync # "fetch" => bf = "off" /\ hf = "off"

\* The queue is emptied, by a new synchronisation or by a cancellation.
LEMMA EmptiedInv ==
    ASSUME DownloadInv, q' = EmptyQueue, from' = from, Other', sync' = "fetch" => cancelled' = TRUE
    PROVE  DownloadInv'
  <1>1. DownloadTypes'
    BY Zenon, EmptyBooks DEF DownloadInv, DownloadTypes, Other
  <1>2. Fresh(q') /\ Kept(q') /\ Nobody(q') /\ Books(q') /\ q'.hashPool = {}
    BY Zenon, EmptyBooks DEF Fresh
  <1>3. QED
    BY Zenon, <1>1, <1>2 DEF DownloadInv, Other

\* The queue is left alone.
LEMMA SameQueueInv ==
    ASSUME DownloadInv, q' = q, from' = from, cancelled' = cancelled, Other',
           bf = "err" => bf' = "err", bf' \in {"off", "ok"} => Nobody(q),
           sync' = sync \/ sync' = "idle"
    PROVE  DownloadInv'
  <1>1. DownloadTypes'
    BY Zenon DEF DownloadInv, DownloadTypes, Other
  <1>2. QED
    BY Zenon, <1>1 DEF DownloadInv, Other

\* An operation of the queue while blocks are fetched.
LEMMA QueueStepInv ==
    ASSUME DownloadInv, q' \in Queue, Books(q'), sync = "fetch", sync' = sync, cancelled' = cancelled, Other',
           from' \in Nat \ {0}, \A h \in q'.hashPool : h < from',
           bf' # "err" => Kept(q'), bf' \in {"off", "ok"} => Nobody(q'),
           ~ cancelled => Contiguous(q', from')
    PROVE  DownloadInv'
  <1>1. DownloadTypes'
    BY Zenon DEF DownloadTypes, Other
  <1>2. QED
    BY Zenon, <1>1 DEF DownloadInv, Other

\* Types that hold in every state.
LEMMA OtherNow == DownloadInv => Other
  BY Zenon DEF DownloadInv, DownloadTypes, Other

\* synchronise.
LEMMA SynchroniseInv == ASSUME DownloadInv, NEW p \in Peer, Synchronise(p) PROVE DownloadInv'
  <1>1. /\ q' = EmptyQueue /\ from' = from /\ cancelled' = FALSE /\ sync = "idle" /\ sync' \in {"ancestor", "idle"}
        /\ goal' = goal /\ head' = head /\ taken' = taken /\ hf' = hf /\ bf' = bf
    BY Zenon DEF Synchronise
  <1>2. Other'
    BY Zenon, <1>1, OtherNow DEF Other
  <1>3. sync' # "fetch"
    BY Zenon, <1>1
  <1>4. QED
    BY Zenon, <1>1, <1>2, <1>3, EmptiedInv

\* The common ancestor is found.
LEMMA AncestorFoundInv == ASSUME DownloadInv, NEW n \in 0 .. head, AncestorFound(n) PROVE DownloadInv'
  <1>1. /\ sync = "ancestor" /\ sync' = "fetch" /\ hf' = "wait" /\ from' = n + 1 /\ bf' = "select"
        /\ q' = Prepare(q, n + 1) /\ goal' = goal /\ head' = head /\ taken' = taken /\ cancelled' = cancelled
    BY Zenon DEF AncestorFound, procVars
  <1>2. n + 1 \in Nat \ {0}
    BY DEF DownloadInv, DownloadTypes
  <1>3. /\ q \in Queue /\ Books(q) /\ Fresh(q) /\ Nobody(q) /\ Kept(q)
    BY Zenon, <1>1 DEF DownloadInv, DownloadTypes
  <1>4. /\ q' \in Queue /\ Books(q') /\ Kept(q') /\ q'.hashPool = {} /\ Contiguous(q', from')
    BY Zenon, <1>1, <1>2, <1>3, PrepareBooks
  <1>5. Other'
    BY Zenon, <1>1, OtherNow DEF Other
  <1>6. DownloadTypes'
    BY Zenon, <1>1, <1>2, <1>4, <1>5 DEF DownloadTypes, Other
  <1>7. QED
    BY Zenon, <1>1, <1>4, <1>6 DEF DownloadInv

\* A cancellation.
LEMMA CancelInv ==
    ASSUME DownloadInv, AncestorFailed \/ OneFailed \/ Terminate PROVE DownloadInv'
  <1>1. /\ q' = EmptyQueue /\ cancelled' = TRUE /\ from' = from /\ sync' \in {sync, "idle"}
        /\ sync' = sync \/ sync = "ancestor"
        /\ goal' = goal /\ head' = head /\ taken' = taken /\ hf' = hf /\ bf' = bf
    BY Zenon DEF AncestorFailed, OneFailed, Terminate, DoCancel, procVars
  <1>2. Other'
    <2>1. sync' # "fetch" => sync # "fetch"
      BY Zenon, <1>1
    <2>2. sync' \in {"idle", "ancestor", "fetch"}
      BY Zenon, <1>1, OtherNow DEF Other
    <2>3. QED
      BY Zenon, <1>1, <2>1, <2>2, OtherNow DEF Other
  <1>3. QED
    BY Zenon, <1>1, <1>2, EmptiedInv

\* Both goroutines have ended.
LEMMA BothEndedInv == ASSUME DownloadInv, BothEnded PROVE DownloadInv'
  <1>1. /\ sync = "fetch" /\ hf \in {"ok", "err"} /\ bf \in {"ok", "err"}
        /\ sync' = "idle" /\ hf' = "off" /\ bf' = "off" /\ from' = from
        /\ goal' = goal /\ head' = head /\ taken' = taken
        /\ \/ q' = EmptyQueue /\ cancelled' = TRUE
           \/ bf # "err" /\ q' = q /\ cancelled' = cancelled
    BY Zenon DEF BothEnded, DoCancel, procVars
  <1>2. Other'
    BY Zenon, <1>1, OtherNow DEF Other
  <1>3. CASE q' = EmptyQueue /\ cancelled' = TRUE
    BY Zenon, <1>1, <1>2, <1>3, EmptiedInv
  <1>4. CASE bf # "err" /\ q' = q /\ cancelled' = cancelled
    <2>1. Nobody(q)
      BY Zenon, <1>1, <1>4 DEF DownloadInv
    <2>2. QED
      BY Zenon, <1>1, <1>2, <1>4, <2>1, SameQueueInv
  <1>5. QED
    BY Zenon, <1>1, <1>3, <1>4

\* Hashes arrive.
LEMMA HashesArriveInv == ASSUME DownloadInv, HashesArrive PROVE DownloadInv'
  <1> DEFINE b == Least(from + MaxHashes - 1, goal)
  <1>1. /\ hf = "wait" /\ HashList # {} /\ q' = Insert(q, HashList) /\ from' = from + Cardinality(HashList)
        /\ hf' \in {"err", "wait", "ok"}
        /\ goal' = goal /\ head' = head /\ taken' = taken /\ sync' = sync /\ bf' = bf /\ cancelled' = cancelled
    BY Zenon DEF HashesArrive, hfRest, procVars
  <1>2. HashList = from .. b
    BY Zenon DEF HashList
  <1>3. from \in Nat \ {0} /\ goal \in 0 .. Top /\ q \in Queue /\ Books(q) /\ (\A h \in q.hashPool : h < from) /\ Other
    BY Zenon, OtherNow DEF DownloadInv, DownloadTypes
  <1>4. b \in from .. Top
    <2>1. b \in Int /\ b <= goal
      BY <1>3, DownloadConstants DEF Least
    <2>2. from <= b
      BY <1>1, <1>2, <1>3, <2>1
    <2>3. QED
      BY <1>3, <2>1, <2>2, DownloadConstants
  <1> HIDE DEF b
  <1>5. from' = b + 1
    <2>1. Cardinality(from .. b) = b - from + 1
      BY <1>3, <1>4, FS_Interval
    <2>2. QED
      BY <1>1, <1>2, <1>3, <1>4, <2>1
  <1>6. from' \in Nat \ {0}
    BY <1>3, <1>4, <1>5
  <1>7. /\ q' \in Queue /\ Books(q') /\ \A h \in q'.hashPool : h < from'
        /\ Kept(q) => Kept(q')
        /\ Nobody(q) => Nobody(q')
        /\ Contiguous(q, from) => Contiguous(q', from')
    BY Zenon, <1>1, <1>2, <1>3, <1>4, <1>5, InsertBooks
  <1>8. sync = "fetch" /\ hf' \in {"off", "wait", "last", "ok", "err"}
    <2>1. sync = "fetch"
      BY <1>1, <1>3, Zenon DEF Other
    <2>2. QED
      BY Zenon, <1>1, <2>1
  <1>9. Other'
    BY Zenon, <1>1, <1>3, <1>8 DEF Other
  <1>10. QED
    BY Zenon, <1>1, <1>6, <1>7, <1>8, <1>9, QueueStepInv DEF DownloadInv

\* The other steps of fetchHashes.
LEMMA HashesRestInv == ASSUME DownloadInv, NoMoreHashes \/ TellFinished \/ HashesFail PROVE DownloadInv'
  <1>1. /\ q' = q /\ from' = from /\ hf \in {"wait", "last"} /\ hf' \in {"last", "ok", "err"}
        /\ goal' = goal /\ head' = head /\ taken' = taken /\ sync' = sync /\ bf' = bf /\ cancelled' = cancelled
    BY Zenon DEF NoMoreHashes, TellFinished, HashesFail, hfRest, procVars
  <1>2. hf # "off" /\ hf' \in {"off", "wait", "last", "ok", "err"}
    BY Zenon, <1>1
  <1>3. Other'
    BY Zenon, <1>1, <1>2, OtherNow DEF Other
  <1>4. QED
    BY Zenon, <1>1, <1>3, SameQueueInv DEF DownloadInv

\* fetchBlocks runs only during a synchronisation.
LEMMA Fetching == ASSUME DownloadInv, bf # "off" PROVE sync = "fetch" /\ Other
  BY Zenon, OtherNow DEF Other

\* Blocks arrive.
LEMMA BlocksArriveInv ==
    ASSUME DownloadInv, NEW p \in Peer, NEW request, NEW blocks, BlocksArrive(p, request, blocks) PROVE DownloadInv'
  <1>1. /\ bf = "select" /\ from' = from
        /\ goal' = goal /\ head' = head /\ taken' = taken /\ sync' = sync /\ hf' = hf /\ cancelled' = cancelled
        /\ \/ /\ \E got \in MayDeliver(q, p, blocks) : q' = Deliver(q, p, blocks, got)
              /\ bf' = (IF Invalid(q, p, blocks) THEN "err" ELSE "select")
           \/ q' = q /\ bf' = bf
    BY Zenon DEF BlocksArrive, bfHeld
  <1>2. sync = "fetch" /\ Other /\ q \in Queue /\ Books(q) /\ Kept(q) /\ from \in Nat \ {0}
    <2>1. bf # "off" /\ bf # "err"
      BY Zenon, <1>1
    <2>2. QED
      BY Zenon, <2>1, Fetching DEF DownloadInv, DownloadTypes
  <1>3. CASE q' = q /\ bf' = bf
    <2>1. Other'
      BY Zenon, <1>1, <1>2, <1>3 DEF Other
    <2>2. QED
      BY Zenon, <1>1, <1>3, <2>1, SameQueueInv DEF DownloadInv
  <1>4. CASE /\ \E got \in MayDeliver(q, p, blocks) : q' = Deliver(q, p, blocks, got)
             /\ bf' = (IF Invalid(q, p, blocks) THEN "err" ELSE "select")
    <2>1. PICK got \in MayDeliver(q, p, blocks) : q' = Deliver(q, p, blocks, got)
      BY Zenon, <1>4
    <2>2. /\ q' \in Queue /\ Books(q') /\ q'.hashPool \subseteq q.hashPool
          /\ ~ Invalid(q, p, blocks) => Kept(q')
          /\ \A next \in Nat : Contiguous(q, next) => Contiguous(q', next)
      BY Zenon, <1>2, <2>1, DeliverBooks
    <2>3. bf' \in {"err", "select"} /\ (bf' # "err" => ~ Invalid(q, p, blocks))
      BY Zenon, <1>4
    <2>4. /\ bf' \in {"off", "select", "assign", "ok", "err"} /\ bf' \notin {"off", "ok"}
      BY Zenon, <2>3
    <2>5. Other'
      BY Zenon, <1>1, <1>2, <2>4 DEF Other
    <2>6. from \in Nat
      BY Zenon, <1>2
    <2>7. QED
      BY Zenon, <1>1, <1>2, <2>2, <2>3, <2>4, <2>5, <2>6, QueueStepInv DEF DownloadInv
  <1>5. QED
    BY Zenon, <1>1, <1>3, <1>4

\* An update begins.
LEMMA UpdateInv == ASSUME DownloadInv, NEW late \in SUBSET Peer, Update(late) PROVE DownloadInv'
  <1>1. /\ bf = "select" /\ from' = from
        /\ goal' = goal /\ head' = head /\ taken' = taken /\ sync' = sync /\ hf' = hf /\ cancelled' = cancelled
        /\ \/ q' = q /\ bf' = "err"
           \/ /\ q' = Expire(q, late)
              /\ bf' = "assign" \/ bf' = "select" \/ (bf' = "ok" /\ ~ InFlight(Expire(q, late)))
    BY Zenon DEF Update, bfRest, bfHeld, AllDelivered
  <1>2. sync = "fetch" /\ Other /\ q \in Queue /\ Books(q) /\ Kept(q) /\ from \in Nat \ {0}
    <2>1. bf # "off" /\ bf # "err"
      BY Zenon, <1>1
    <2>2. QED
      BY Zenon, <2>1, Fetching DEF DownloadInv, DownloadTypes
  <1>3. CASE q' = q /\ bf' = "err"
    <2>1. bf' \notin {"off", "ok"}
      BY Zenon, <1>3
    <2>2. Other'
      BY Zenon, <1>1, <1>2, <1>3 DEF Other
    <2>3. QED
      BY Zenon, <1>1, <1>3, <2>1, <2>2, SameQueueInv
  <1>4. CASE /\ q' = Expire(q, late)
             /\ bf' = "assign" \/ bf' = "select" \/ (bf' = "ok" /\ ~ InFlight(Expire(q, late)))
    <2>1. /\ q' \in Queue /\ Books(q') /\ q'.hashPool = q.hashPool /\ Kept(q')
          /\ \A next \in Nat : Contiguous(q, next) => Contiguous(q', next)
      BY Zenon, <1>2, <1>4, ExpireBooks
    <2>2. bf' \in {"off", "ok"} => ~ InFlight(q')
      BY Zenon, <1>4
    <2>3. bf' \in {"off", "ok"} => Nobody(q')
      BY Zenon, <2>2 DEF InFlight, Nobody
    <2>4. bf' \in {"off", "select", "assign", "ok", "err"}
      BY Zenon, <1>4
    <2>5. Other'
      BY Zenon, <1>1, <1>2, <2>4 DEF Other
    <2>6. from \in Nat
      BY Zenon, <1>2
    <2>7. QED
      BY Zenon, <1>1, <1>2, <2>1, <2>3, <2>5, <2>6, QueueStepInv DEF DownloadInv
  <1>5. QED
    BY Zenon, <1>1, <1>3, <1>4

\* A peer is asked.
LEMMA AskPeerInv == ASSUME DownloadInv, NEW p \in Peer, NEW count, AskPeer(p, count) PROVE DownloadInv'
  <1>1. /\ bf = "assign" /\ bf' = bf /\ from' = from
        /\ goal' = goal /\ head' = head /\ taken' = taken /\ sync' = sync /\ hf' = hf /\ cancelled' = cancelled
        /\ q' = q \/ q' = Reserve(q, p, count)
    BY Zenon DEF AskPeer, bfRest, bfHeld
  <1>2. sync = "fetch" /\ Other /\ q \in Queue /\ Books(q) /\ Kept(q) /\ from \in Nat \ {0} /\ bf' \notin {"off", "ok"}
    <2>1. bf # "off" /\ bf # "err" /\ bf' \notin {"off", "ok"}
      BY Zenon, <1>1
    <2>2. QED
      BY Zenon, <2>1, Fetching DEF DownloadInv, DownloadTypes
  <1>3. Other'
    BY Zenon, <1>1, <1>2 DEF Other
  <1>4. CASE q' = q
    BY Zenon, <1>1, <1>3, <1>4, SameQueueInv DEF DownloadInv
  <1>5. CASE q' = Reserve(q, p, count)
    <2>1. /\ q' \in Queue /\ Books(q') /\ q'.hashPool = q.hashPool /\ Kept(q')
          /\ \A next \in Nat : Kept(q) /\ Contiguous(q, next) => Contiguous(q', next)
      <3> DEFINE v == Reserve(q, p, count)
      <3>1. /\ v \in Queue /\ Books(v) /\ v.hashPool = q.hashPool /\ Kept(v)
            /\ \A next \in Nat : Kept(q) /\ Contiguous(q, next) => Contiguous(v, next)
        BY Zenon, <1>2, ReserveBooks
      <3> HIDE DEF v
      <3>2. q' = v
        BY Zenon, <1>5 DEF v
      <3>3. QED
        BY Zenon, <3>1, <3>2
    <2>2. from \in Nat
      BY Zenon, <1>2
    <2>3. QED
      BY Zenon, <1>1, <1>2, <1>3, <2>1, <2>2, QueueStepInv DEF DownloadInv
  <1>6. QED
    BY Zenon, <1>1, <1>4, <1>5

\* The other steps of fetchBlocks.
LEMMA BlocksRestInv ==
    ASSUME DownloadInv, HearProcess \/ UpdateEnds \/ BlocksCancelled PROVE DownloadInv'
  <1>1. /\ q' = q /\ from' = from /\ bf \in {"select", "assign"} /\ bf' \in {"select", "assign", "err"}
        /\ goal' = goal /\ head' = head /\ taken' = taken /\ sync' = sync /\ hf' = hf /\ cancelled' = cancelled
    <2>1. CASE HearProcess
      BY Zenon, <2>1 DEF HearProcess, bfRest, bfHeld
    <2>2. CASE UpdateEnds
      BY Zenon, <2>2 DEF UpdateEnds, bfRest, bfHeld
    <2>3. CASE BlocksCancelled
      BY Zenon, <2>3 DEF BlocksCancelled, bfRest, bfHeld
    <2>4. QED
      BY Zenon, <2>1, <2>2, <2>3
  <1>2. bf # "off" /\ bf # "err" /\ bf' \notin {"off", "ok"} /\ bf' \in {"off", "select", "assign", "ok", "err"}
    BY Zenon, <1>1
  <1>3. Other'
    BY Zenon, <1>1, <1>2, Fetching DEF Other
  <1>4. QED
    BY Zenon, <1>1, <1>2, <1>3, SameQueueInv

\* Steps that concern neither the queue nor the two loops.
LEMMA ElsewhereInv ==
    ASSUME DownloadInv,
           \/ ProcessStart \/ ProcessDone \/ Recheck
           \/ \E p \in Peer : PeerLeaves(p)
           \/ \E p \in Peer, r \in Requests : BlocksDropped(p, r)
           \/ UNCHANGED vars
    PROVE  DownloadInv'
  <1>1. /\ q' = q /\ from' = from /\ bf' = bf
        /\ goal' = goal /\ head' = head /\ taken' = taken /\ sync' = sync /\ hf' = hf /\ cancelled' = cancelled
    <2>1. CASE ProcessStart
      BY Zenon, <2>1 DEF ProcessStart, pRest, pHeld
    <2>2. CASE ProcessDone
      BY Zenon, <2>2 DEF ProcessDone, pRest, pHeld
    <2>3. CASE Recheck
      BY Zenon, <2>3 DEF Recheck, pRest, pHeld
    <2>4. CASE \E p \in Peer : PeerLeaves(p)
      BY Zenon, <2>4 DEF PeerLeaves, procVars
    <2>5. CASE \E p \in Peer, r \in Requests : BlocksDropped(p, r)
      BY Zenon, <2>5 DEF BlocksDropped, bfRest, bfHeld
    <2>6. CASE UNCHANGED vars
      BY Zenon, <2>6 DEF vars, procVars, netVars
    <2>7. QED
      BY Zenon, <2>1, <2>2, <2>3, <2>4, <2>5, <2>6
  <1>2. Other'
    BY Zenon, <1>1, OtherNow DEF Other
  <1>3. QED
    BY Zenon, <1>1, <1>2, SameQueueInv DEF DownloadInv

\* process takes what is ready.
LEMMA TakeInv == ASSUME DownloadInv, Take PROVE DownloadInv'
  <1>1. /\ q' = TakeBlocks(q) /\ taken' = Ready(q) /\ from' = from /\ bf' = bf
        /\ goal' = goal /\ head' = head /\ sync' = sync /\ hf' = hf /\ cancelled' = cancelled
    BY Zenon DEF Take, pRest, pHeld
  <1>2. q \in Queue /\ Books(q) /\ from \in Nat \ {0} /\ Other
    BY Zenon, OtherNow DEF DownloadInv, DownloadTypes
  <1>3. /\ q' \in Queue /\ Books(q') /\ q'.hashPool = q.hashPool
        /\ Kept(q) => Kept(q')
        /\ Nobody(q) => Nobody(q')
        /\ Fresh(q) => Fresh(q')
        /\ \A next \in Nat : Contiguous(q, next) => Contiguous(q', next)
    BY Zenon, <1>1, <1>2, TakeBooks
  <1>4. taken' \subseteq Hash
    <2>1. q.cache \subseteq Hash
      BY Zenon, <1>2 DEF Queue
    <2>2. QED
      BY <1>1, <2>1, Zenon DEF Ready
  <1>5. Other'
    BY Zenon, <1>1, <1>2, <1>4 DEF Other
  <1>6. DownloadTypes'
    BY Zenon, <1>1, <1>2, <1>3, <1>5 DEF DownloadTypes, Other
  <1>7. from \in Nat
    BY Zenon, <1>2
  <1>8. QED
    BY Zenon, <1>1, <1>3, <1>6, <1>7 DEF DownloadInv

\* process imports what it took.
LEMMA ImportInv == ASSUME DownloadInv, Import PROVE DownloadInv'
  <1>1. /\ taken' = {} /\ from' = from /\ bf' = bf
        /\ goal' = goal /\ sync' = sync /\ hf' = hf
        /\ \/ q' = q /\ cancelled' = cancelled /\ head' = head
           \/ /\ q' = q /\ cancelled' = cancelled
              /\ \E last \in taken : head' = Greatest(head, last)
           \/ q' = EmptyQueue /\ cancelled' = TRUE /\ head' = head
    BY Zenon DEF Import, pHeld, DoCancel
  <1>2. head \in Nat /\ taken \subseteq Hash /\ Other
    BY Zenon, OtherNow DEF DownloadInv, DownloadTypes
  <1>3. head' \in Nat
    BY <1>1, <1>2 DEF Greatest, Hash
  <1>4. Other'
    <2>1. taken' \subseteq Hash
      BY Zenon, <1>1
    <2>2. cancelled' \in BOOLEAN
      BY Zenon, <1>1 DEF DownloadInv, DownloadTypes
    <2>3. QED
      BY Zenon, <1>1, <1>2, <1>3, <2>1, <2>2 DEF Other
  <1>5. CASE q' = q /\ cancelled' = cancelled
    BY Zenon, <1>1, <1>4, <1>5, SameQueueInv DEF DownloadInv
  <1>6. CASE q' = EmptyQueue /\ cancelled' = TRUE
    BY Zenon, <1>1, <1>4, <1>6, EmptiedInv
  <1>7. QED
    BY Zenon, <1>1, <1>5, <1>6
-----------------------------------------------------------------------------
(* The theorem *)

\* Every step keeps the invariant.
LEMMA DownloadNextInv == ASSUME DownloadInv, [DownloadNext]_vars PROVE DownloadInv'
  <1>1. CASE CallerNext
    BY Zenon, <1>1, SynchroniseInv, AncestorFoundInv, CancelInv, BothEndedInv DEF CallerNext
  <1>2. CASE HashesNext
    BY Zenon, <1>2, HashesArriveInv, HashesRestInv DEF HashesNext
  <1>3. CASE BlocksNext
    BY Zenon, <1>3, BlocksArriveInv, UpdateInv, AskPeerInv, BlocksRestInv DEF BlocksNext
  <1>4. CASE ProcessNext
    BY Zenon, <1>4, TakeInv, ImportInv, ElsewhereInv DEF ProcessNext
  <1>5. CASE Terminate
    BY Zenon, <1>5, CancelInv
  <1>6. CASE (\E p \in Peer : PeerLeaves(p)) \/ (\E p \in Peer, r \in Requests : BlocksDropped(p, r)) \/ UNCHANGED vars
    BY Zenon, <1>6, ElsewhereInv
  <1>7. QED
    BY Zenon, <1>1, <1>2, <1>3, <1>4, <1>5, <1>6 DEF DownloadNext

\* The invariant holds in every state.
LEMMA DownloadInvCorrect == DownloadSpec => []DownloadInv
  <1>1. DownloadInv /\ [DownloadNext]_vars => DownloadInv'
    BY Zenon, DownloadNextInv
  <1>2. QED
    BY <1>1, DownloadInitInv, PTL DEF DownloadSpec

\* QueueSound holds for every number of peers, hashes, blocks and places of the
\* cache: until a delivery is refused every scheduled hash waits or is asked
\* for, never both nor of two peers, and no block is asked for without a place.
THEOREM QueueSoundCorrect == DownloadSpec => []QueueSound
  <1>1. DownloadInv => QueueSound
    <2> SUFFICES ASSUME DownloadInv PROVE QueueSound
      BY Zenon
    <2>1. /\ Books(q) /\ q \in Queue
          /\ bf # "err" => Kept(q)
          /\ sync # "fetch" => Nobody(q)
          /\ sync = "fetch" /\ ~ cancelled => Contiguous(q, from)
      BY Zenon DEF DownloadInv, DownloadTypes
    <2>2. HashesKept
      <3>1. \A h : h \in Outstanding(q) <=> \E p \in Peer : h \in q.pendPool[p]
        BY Zenon DEF Outstanding
      <3>2. q.hashQueue \subseteq q.hashPool /\ Outstanding(q) \subseteq q.hashPool
        BY Zenon, <2>1, <3>1 DEF Books
      <3>3. bf # "err" => q.hashPool \subseteq q.hashQueue \cup Outstanding(q)
        BY Zenon, <2>1, <3>1 DEF Kept
      <3>4. q.hashQueue \cap Outstanding(q) = {}
        BY Zenon, <2>1, <3>1 DEF Books
      <3>5. \A p, r \in Peer : p # r => q.pendPool[p] \cap q.pendPool[r] = {}
        BY Zenon, <2>1 DEF Books
      <3>6. bf # "err" => q.hashPool = q.hashQueue \cup Outstanding(q)
        BY Zenon, <3>2, <3>3
      <3>7. QED
        BY Zenon, <3>4, <3>5, <3>6 DEF HashesKept
    <2>3. ASSUME ~ cancelled, NEW h \in Outstanding(q) PROVE ~ Misfit(q, h)
      <3>1. PICK p \in Peer : h \in q.pendPool[p]
        BY Zenon DEF Outstanding
      <3>2. sync = "fetch"
        BY Zenon, <2>1, <3>1 DEF Nobody
      <3>3. Contiguous(q, from)
        BY Zenon, <2>1, <2>3, <3>2
      <3>4. q.pendPool[p] \subseteq q.hashPool
        BY Zenon, <2>1 DEF Books
      <3>5. q.offset <= h /\ h < q.offset + CacheLimit
        <4>1. h \in q.offset .. from - 1
          BY Zenon, <3>1, <3>3, <3>4 DEF Contiguous
        <4>2. h < q.offset + CacheLimit
          BY Zenon, <3>1, <3>3 DEF Contiguous
        <4>3. QED
          BY <4>1, <4>2
      <3>6. q.offset \in Nat /\ h \in Nat
        <4>1. q.offset \in Nat /\ q.hashPool \subseteq Hash
          BY Zenon, <2>1 DEF Queue
        <4>2. QED
          BY <3>1, <3>4, <4>1 DEF Hash
      <3>7. QED
        BY <3>5, <3>6, DownloadConstants DEF Misfit
    <2>4. QED
      BY Zenon, <2>1, <2>2, <2>3 DEF QueueSound, RequestsFit, Books
  <1>2. QED
    BY <1>1, DownloadInvCorrect, PTL
=============================================================================
