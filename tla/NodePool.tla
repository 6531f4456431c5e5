------------------------------ MODULE NodePool ------------------------------
(***************************************************************************)
(* The pool of trie nodes in front of the disk (common/mtp/database.go) as *)
(* two block writers use it: Finalize commits the DPoS tries without the   *)
(* chain's lock, WriteBlockWithState the state under it, and the node may  *)
(* stop between any two batches.                                           *)
(***************************************************************************)
EXTENDS Integers, FiniteSets, SequencesExt

CONSTANTS
  PoolNode,    \* hashes of trie nodes
  Kids,        \* node -> the nodes it refers to
  Outs,        \* node -> the storage tries and codes of the accounts in it
  Committer,   \* goroutines that execute and write blocks
  PoolJobs,    \* committer -> blocks it may write: [dpos, state], the roots
  OnDisk,      \* nodes written before
  MaxPoolJobs,    \* blocks per committer
  MaxPoolCrashes

VARIABLES
  nodes,     \* node -> its children known to the pool; the domain is db.nodes
  onDisk,
  program,   \* committer -> the rest of what it does
  flush,     \* committer -> the nodes Commit has yet to write, children first
  reading,   \* the committers that hold db.lock for reading
  chainLock, \* the holder of bc.mu
  panicked,
  jobs, stops

poolVars == <<nodes, onDisk, program, flush, reading, chainLock, panicked, jobs, stops>>
Free == "free"
InPool == DOMAIN nodes

RECURSIVE PostOrder(_, _)
\* n after everything below it.
PostOrder(n, edges) ==
    LET below == SetToSeq(edges[n]) IN Append(FlattenSeq([i \in DOMAIN below |-> PostOrder(below[i], edges)]), n)
AllEdges == [n \in PoolNode |-> Kids[n] \cup Outs[n]]
Tree(root) == ToSet(PostOrder(root, AllEdges))

\* Trie.Commit over the nodes that are not clean: storage tries and codes
\* first (StateDB.Commit), then each node after its children; the leaf's
\* callback follows the store.
Stores(root, clean) ==
    LET order == SelectSeq(PostOrder(root, AllEdges), LAMBDA n : n \notin clean)
        Refs(n) == LET o == SetToSeq(Outs[n]) IN [i \in DOMAIN o |-> [op |-> "reference", n |-> n, child |-> o[i]]]
    IN FlattenSeq([i \in DOMAIN order |-> <<[op |-> "store", n |-> order[i]]>> \o Refs(order[i])])
Op(name, n) == <<[op |-> name, n |-> n]>>

\* Finalize and WriteBlockWithState.  When the DPoS tries are committed the
\* second time they have no dirty nodes left.
Writes(job, clean) ==
    Stores(job.dpos, clean) \o Op("commit", job.dpos) \o Op("commit", job.state)
      \o Op("lock", job.state) \o Op("commit", job.dpos)
      \o Stores(job.state, clean) \o Op("commit", job.state) \o Op("unlock", job.state)

PoolInit ==
    /\ nodes = <<>> /\ onDisk = OnDisk /\ reading = {} /\ chainLock = Free /\ panicked = FALSE
    /\ program = [c \in Committer |-> <<>>] /\ flush = [c \in Committer |-> <<>>]
    /\ jobs = [c \in Committer |-> 0] /\ stops = 0

\* The trie was opened on a committed root: what it did not change is on
\* disk, with everything below.
Execute(c) ==
    /\ program[c] = <<>> /\ jobs[c] < MaxPoolJobs /\ ~panicked
    /\ \E job \in PoolJobs[c] :
         \E clean \in SUBSET ((Tree(job.dpos) \cup Tree(job.state)) \cap onDisk) :
           /\ \A n \in clean : Kids[n] \cup Outs[n] \subseteq clean
           /\ program' = [program EXCEPT ![c] = Writes(job, clean)]
    /\ jobs' = [jobs EXCEPT ![c] = @ + 1]
    /\ UNCHANGED <<nodes, onDisk, flush, reading, chainLock, panicked, stops>>

Doing(c, name) == program[c] # <<>> /\ Head(program[c]).op = name /\ c \notin reading /\ ~panicked
Done(c) == program' = [program EXCEPT ![c] = Tail(@)]

\* Database.insert and reference: an unknown node is added, and the children
\* that are in the pool are noted.
dbInsert(n, p) == IF n \in DOMAIN p THEN p ELSE [m \in DOMAIN p \cup {n} |-> IF m = n THEN {} ELSE p[m]]

\* Mutant: children are not noted.
dbReferenceNot(child, parent, p) == p

dbReference(child, parent, p) == IF child \in DOMAIN p THEN [p EXCEPT ![parent] = @ \cup {child}] ELSE p

\* hasher.store: both under the lock.
Store(c) ==
    /\ Doing(c, "store") /\ reading = {}
    /\ LET n == Head(program[c]).n
       IN nodes' = FoldSet(LAMBDA k, p : dbReference(k, n, p), dbInsert(n, nodes), Kids[n])
    /\ Done(c)
    /\ UNCHANGED <<onDisk, flush, reading, chainLock, panicked, jobs, stops>>

\* Reference takes the lock for reading, after store has released it.
Reference(c) ==
    /\ Doing(c, "reference")
    /\ LET o == Head(program[c]) IN
         IF o.child \in InPool /\ o.n \notin InPool
         THEN panicked' = TRUE /\ UNCHANGED nodes
         ELSE nodes' = dbReference(o.child, o.n, nodes) /\ UNCHANGED panicked
    /\ Done(c)
    /\ UNCHANGED <<onDisk, flush, reading, chainLock, jobs, stops>>

Noted == [m \in PoolNode |-> IF m \in InPool THEN nodes[m] ELSE {}]

\* Mutant: the node goes into the batch before its children.
commitDown(n) == Reverse(PostOrder(n, Noted))

\* Database.commit: what it puts into batches, in order.
commit(n) == PostOrder(n, Noted)
InPoolOnly(s) == SelectSeq(s, LAMBDA m : m \in InPool)

CommitBegin(c) ==
    /\ Doing(c, "commit")
    /\ flush' = [flush EXCEPT ![c] = InPoolOnly(commit(Head(program[c]).n))]
    /\ reading' = reading \cup {c}
    /\ UNCHANGED <<nodes, onDisk, program, chainLock, panicked, jobs, stops>>

\* batch.Write, of as many nodes as reach IdealBatchSize, or of the rest.
BatchWrite(c) ==
    /\ c \in reading /\ flush[c] # <<>>
    /\ \E k \in DOMAIN flush[c] :
         /\ onDisk' = onDisk \cup ToSet(SubSeq(flush[c], 1, k))
         /\ flush' = [flush EXCEPT ![c] = SubSeq(@, k + 1, Len(@))]
    /\ UNCHANGED <<nodes, program, reading, chainLock, panicked, jobs, stops>>

RUnlock(c) ==
    /\ c \in reading /\ flush[c] = <<>>
    /\ reading' = reading \ {c}
    /\ program' = [program EXCEPT ![c][1].op = "uncache"]
    /\ UNCHANGED <<nodes, onDisk, flush, chainLock, panicked, jobs, stops>>

\* What is removed is what is in the pool below the node at this time.
uncache(n) == ToSet(InPoolOnly(commit(n)))
CommitEnd(c) ==
    /\ Doing(c, "uncache") /\ reading = {}
    /\ LET gone == uncache(Head(program[c]).n)
       IN nodes' = [n \in InPool \ gone |-> nodes[n]]
    /\ Done(c)
    /\ UNCHANGED <<onDisk, flush, reading, chainLock, panicked, jobs, stops>>

ChainLock(c) ==
    /\ Doing(c, "lock") /\ chainLock = Free /\ chainLock' = c /\ Done(c)
    /\ UNCHANGED <<nodes, onDisk, flush, reading, panicked, jobs, stops>>

ChainUnlock(c) ==
    /\ Doing(c, "unlock") /\ chainLock' = Free /\ Done(c)
    /\ UNCHANGED <<nodes, onDisk, flush, reading, panicked, jobs, stops>>

PoolCrash ==
    /\ stops < MaxPoolCrashes /\ stops' = stops + 1
    /\ nodes' = <<>> /\ reading' = {} /\ chainLock' = Free /\ panicked' = FALSE
    /\ program' = [c \in Committer |-> <<>>] /\ flush' = [c \in Committer |-> <<>>]
    /\ UNCHANGED <<onDisk, jobs>>

PoolNext ==
    \/ \E c \in Committer : \/ Execute(c) \/ Store(c) \/ Reference(c) \/ CommitBegin(c) \/ BatchWrite(c) \/ RUnlock(c)
                            \/ CommitEnd(c) \/ ChainLock(c) \/ ChainUnlock(c)
    \/ PoolCrash

PoolSpec == PoolInit /\ [][PoolNext]_poolVars

-----------------------------------------------------------------------------
\* When WriteBlockWithState releases the chain's lock both trees of the
\* block are on disk, even if the other writer uncached some of their nodes.
CommitDurable ==
    [][\A c \in Committer : ChainUnlock(c) => Tree(Head(program[c]).n) \subseteq onDisk]_poolVars

\* Commit takes nothing out of the pool that is not on disk: "only uncaching
\* existing data when the database write finalizes".
UncachedOnDisk == [][\A c \in Committer : CommitEnd(c) => InPool \ InPool' \subseteq onDisk]_poolVars

\* A node reaches the disk after everything it refers to, storage and code
\* included: whatever root is found after a stop, its tree is complete.  And
\* while nodes move from the pool to the disk each can be found in one of
\* them: Node never fails for a tree that is being written, and Reference
\* finds the parent that was just stored.
TreesComplete ==
    /\ \A n \in onDisk : Kids[n] \cup Outs[n] \subseteq onDisk
    /\ \A n \in InPool : Kids[n] \cup Outs[n] \subseteq InPool \cup onDisk
    /\ ~panicked
=============================================================================
