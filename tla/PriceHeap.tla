------------------------------ MODULE PriceHeap -----------------------------
(***************************************************************************)
(* The heap of prices of the transaction pool (core/txpool/list.go).  The  *)
(* pool removes transactions from its index without removing them from the *)
(* heap: their entries are stale until they are popped or the heap is      *)
(* rebuilt, and come alive again when the transaction is added again.  All *)
(* calls are made under tp.mu; a step is one round of a loop.              *)
(***************************************************************************)
EXTENDS Integers, FiniteSets, FiniteSetsExt

CONSTANTS
  Pooled,      \* transactions
  PriceOf,     \* their prices
  NonceOf,     \* their nonces
  Capacity,    \* GlobalSlots + GlobalQueue
  Floors       \* the prices SetGasPrice is called with

ASSUME PriceConstants == PriceOf \in [Pooled -> Nat] /\ NonceOf \in [Pooled -> Nat] /\ Capacity \in Nat \ {0} /\ Floors \subseteq Nat

VARIABLES
  all,       \* the index of the pool, tp.txs
  items,     \* number of entries of the heap for each transaction
  stales,    \* the heap's count of stale entries
  op,        \* the call under way
  incoming,  \* add's transaction
  count,     \* Discard's: how many are still to go
  drop,      \* what Discard or Cap is going to return
  floor      \* Cap's threshold

heap == <<all, items, stales>>
heapVars == <<all, items, stales, op, incoming, count, drop, floor>>

Total(its) == MapThenSumSet(LAMBDA t : its[t], Pooled)
Less(a, b) == PriceOf[a] < PriceOf[b] \/ (PriceOf[a] = PriceOf[b] /\ NonceOf[a] > NonceOf[b])

\* What may be on top of the heap.
Heads == {t \in Pooled : items[t] > 0 /\ \A u \in Pooled : items[u] > 0 => ~Less(u, t)}
Empty == \A t \in Pooled : items[t] = 0
Popped(t) == items' = [items EXCEPT ![t] = @ - 1]

HeapInit ==
    /\ all = {} /\ items = [t \in Pooled |-> 0] /\ stales = 0
    /\ op = "idle" /\ incoming \in Pooled /\ count = 0 /\ drop = {} /\ floor = 0

\* Removed, after the index has become A.
Removed(A) ==
    IF stales + 1 <= Total(items) \div 4 THEN [items |-> items, stales |-> stales + 1]
    ELSE [items |-> [t \in Pooled |-> IF t \in A THEN 1 ELSE 0], stales |-> 0]

\* A transaction leaves the pool because of its nonce, its balance, its age or
\* a limit of its account.
Leave(t) ==
    LET r == Removed(all \ {t})
    IN /\ op = "idle" /\ t \in all
       /\ all' = all \ {t} /\ items' = r.items /\ stales' = r.stales
       /\ UNCHANGED <<op, incoming, count, drop, floor>>

\* Where add and enqueueTx put the transaction: beside the others, or in place
\* of one.
Put(t) ==
    \/ /\ all' = all \cup {t} /\ items' = [items EXCEPT ![t] = @ + 1]
       /\ UNCHANGED stales
    \/ \E old \in all :
         LET r == Removed(all \ {old})
         IN /\ NonceOf[old] = NonceOf[t]
            /\ all' = (all \ {old}) \cup {t}
            /\ items' = [r.items EXCEPT ![t] = @ + 1]
            /\ stales' = r.stales

\* add, to a pool that is not full.
Add(t) ==
    /\ op = "idle" /\ t \notin all /\ Cardinality(all) < Capacity
    /\ Put(t)
    /\ UNCHANGED <<op, incoming, count, drop, floor>>

\* add, to a full pool: Underpriced comes first.
AddFull(t) ==
    /\ op = "idle" /\ t \notin all /\ Cardinality(all) >= Capacity
    /\ op' = "underpriced" /\ incoming' = t
    /\ UNCHANGED <<heap, count, drop, floor>>

\* A stale entry on top of the heap is taken off by all three loops.
PopStale ==
    /\ op \in {"underpriced", "cap"} \/ (op = "discard" /\ count > 0)
    /\ \E t \in Heads \ all : Popped(t)
    /\ stales' = stales - 1
    /\ UNCHANGED <<all, op, incoming, count, drop, floor>>

Judge ==
    /\ op = "underpriced"
    /\ ~Empty => Heads \cap all # {}
    /\ IF \E t \in Heads : PriceOf[t] >= PriceOf[incoming] THEN op' = "idle" /\ UNCHANGED count
       ELSE op' = "discard" /\ count' = Cardinality(all) - (Capacity - 1)
    /\ UNCHANGED <<heap, incoming, drop, floor>>

\* Mutant: the rebuilt heap is not put in order (no heap.Init).
DiscardPopAny ==
    /\ op = "discard" /\ count > 0
    /\ \E t \in all : items[t] > 0 /\ Popped(t) /\ drop' = drop \cup {t}
    /\ count' = count - 1
    /\ UNCHANGED <<all, stales, op, incoming, floor>>

DiscardPop ==
    /\ op = "discard" /\ count > 0
    /\ \E t \in Heads \cap all : Popped(t) /\ drop' = drop \cup {t}
    /\ count' = count - 1
    /\ UNCHANGED <<all, stales, op, incoming, floor>>

\* add goes on: what was discarded is removed, then the transaction put, or
\* refused because it does not pay the bump of a replacement.
DiscardEnd ==
    /\ op = "discard" /\ ~(count > 0 /\ ~Empty)
    /\ all' = all \ drop /\ drop' = {}
    /\ op' = "put"
    /\ UNCHANGED <<items, stales, incoming, count, floor>>

PutLast ==
    /\ op = "put"
    /\ Put(incoming) \/ UNCHANGED heap
    /\ op' = "idle"
    /\ UNCHANGED <<incoming, count, drop, floor>>

SetGasPrice(f) ==
    /\ op = "idle"
    /\ op' = "cap" /\ floor' = f
    /\ UNCHANGED <<heap, incoming, count, drop>>

CapPop ==
    /\ op = "cap"
    /\ \E t \in Heads \cap all : PriceOf[t] < floor /\ Popped(t) /\ drop' = drop \cup {t}
    /\ UNCHANGED <<all, stales, op, incoming, count, floor>>

CapEnd ==
    /\ op = "cap"
    /\ Empty \/ \E t \in Heads \cap all : PriceOf[t] >= floor
    /\ all' = all \ drop /\ drop' = {}
    /\ op' = "idle" /\ floor' = 0
    /\ UNCHANGED <<items, stales, incoming, count>>

HeapNext ==
    \/ \E t \in Pooled : Leave(t) \/ Add(t) \/ AddFull(t)
    \/ PopStale \/ Judge \/ DiscardPop \/ DiscardEnd \/ PutLast
    \/ \E f \in Floors : SetGasPrice(f)
    \/ CapPop \/ CapEnd

HeapSpec == HeapInit /\ [][HeapNext]_heapVars

-----------------------------------------------------------------------------
\* A full pool makes room by giving up its worst: no transaction that stays is
\* cheaper than one that is discarded, although the heap has stale entries and
\* entries that came alive again.
EvictsCheapest ==
    [][op = "discard" => \A d \in all \ all' : \A k \in all' : ~Less(k, d)]_heapVars

\* After SetGasPrice the pool has no transaction below the new price.
FloorKept ==
    [][op = "cap" /\ op' = "idle" => \A t \in all' : PriceOf[t] >= floor]_heapVars

\* The pool does not outgrow its capacity: Discard returns as many transactions
\* as it is asked for, none of them twice.
WithinCapacity == Cardinality(all) <= Capacity
=============================================================================
