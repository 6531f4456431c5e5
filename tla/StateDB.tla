------------------------------ MODULE StateDB ------------------------------
(***************************************************************************)
(* The state database of core/state: accounts in a trie, live objects in   *)
(* front of it, and the journal that undoes changes (statedb.go,           *)
(* state_object.go, journal.go).  A database is a record; an operation is  *)
(* an operator from one database to the next.                              *)
(*                                                                         *)
(* A trie is the function it stores, so a root is the contents.  Code is 0 *)
(* (none) or a positive number.  A new account's staking fields, which the *)
(* code leaves nil, are 0.  A getter leaves the object it has loaded among *)
(* the live ones; CacheCoherent of module Execution says why that cannot   *)
(* be seen, and getters leave the database unchanged here.                 *)
(***************************************************************************)
EXTENDS Integers, Sequences, FiniteSets, SequencesExt

CONSTANTS Address,
          Key,          \* the storage slots
          Word,         \* the values of a slot, 0 among them
          Ripemd        \* the precompiled contract 3

NoStorage == [k \in Key |-> 0]

\* Account{} completed by newObject.
NewAccount ==
    [nonce |-> 0, balance |-> 0, code |-> 0, root |-> NoStorage,
     locked |-> 0, unlocked |-> 0, delegateTime |-> 0, unDelegateTime |-> 0]

newObject(data) ==
    [data |-> data, trie |-> data.root, cachedStorage |-> <<>>, dirtyStorage |-> <<>>,
     dirtyCode |-> FALSE, suicided |-> FALSE, deleted |-> FALSE]

\* stateObject.empty: the staking fields do not count.
empty(obj) == obj.data.nonce = 0 /\ obj.data.balance = 0 /\ obj.data.code = 0

\* New.
NewStateDB(trie, codes) ==
    [trie |-> trie, codes |-> codes, stateObjects |-> <<>>, stateObjectsDirty |-> {},
     refund |-> 0, logs |-> 0,
     journal |-> <<>>, dirties |-> [a \in Address |-> 0],
     validRevisions |-> <<>>, nextRevisionID |-> 0]

Exist(s, a) ==
    IF a \in DOMAIN s.stateObjects THEN ~ s.stateObjects[a].deleted ELSE a \in DOMAIN s.trie

\* getStateObject, where there is one.
Object(s, a) == IF a \in DOMAIN s.stateObjects THEN s.stateObjects[a] ELSE newObject(s.trie[a])

GetAccount(s, a)  == IF Exist(s, a) THEN Object(s, a).data ELSE NewAccount
Empty(s, a)       == Exist(s, a) => empty(Object(s, a))
GetBalance(s, a)  == GetAccount(s, a).balance
GetNonce(s, a)    == GetAccount(s, a).nonce
GetCode(s, a)     == GetAccount(s, a).code
HasSuicided(s, a) == Exist(s, a) /\ Object(s, a).suicided

\* stateObject.GetState: the cache, then the storage trie.
ObjectState(obj, k) == IF k \in DOMAIN obj.cachedStorage THEN obj.cachedStorage[k] ELSE obj.trie[k]
GetState(s, a, k)   == IF Exist(s, a) THEN ObjectState(Object(s, a), k) ELSE 0

setStateObject(s, a, obj) == [s EXCEPT !.stateObjects = (a :> obj) @@ @]

-----------------------------------------------------------------------------
(* The journal.  An entry that makes no account dirty has account NoOne.   *)

NoOne == "none"

append(s, entry) ==
    [s EXCEPT !.journal = Append(@, entry),
              !.dirties = IF entry.account \in Address THEN [@ EXCEPT ![entry.account] = @ + 1] ELSE @]

setField(obj, field, v) == [obj EXCEPT !.data[field] = v]
setCode(obj, v)         == [setField(obj, "code", v) EXCEPT !.dirtyCode = TRUE]
setState(obj, k, v) ==
    [obj EXCEPT !.cachedStorage = (k :> v) @@ @, !.dirtyStorage = (k :> v) @@ @]

Without(f, a) == [x \in DOMAIN f \ {a} |-> f[x]]

\* The revert methods of the entries.  That of a suicide, unlike the others,
\* looks whether the account is still there.
undo(s, e) ==
    LET a   == e.account
        obj == Object(s, a)
    IN CASE e.kind = "create"  -> [s EXCEPT !.stateObjects = Without(@, a), !.stateObjectsDirty = @ \ {a}]
         [] e.kind = "reset"   -> setStateObject(s, e.address, e.object)
         [] e.kind = "suicide" -> IF Exist(s, a)
                                  THEN setStateObject(s, a, [setField(obj, "balance", e.prev)
                                                                EXCEPT !.suicided = e.prevSuicided])
                                  ELSE s
         [] e.kind = "field"   -> setStateObject(s, a, setField(obj, e.field, e.prev))
         [] e.kind = "code"    -> setStateObject(s, a, setCode(obj, e.prev))
         [] e.kind = "storage" -> setStateObject(s, a, setState(obj, e.key, e.prev))
         [] e.kind = "refund"  -> [s EXCEPT !.refund = e.prev]
         [] e.kind = "log"     -> [s EXCEPT !.logs = @ - 1]
         [] e.kind = "touch"   -> s

\* One round of journal.revert's loop.
undoLast(s, e) ==
    LET u == undo(s, e)
    IN IF e.account \in Address THEN [u EXCEPT !.dirties[e.account] = @ - 1] ELSE u

revert(s, snapshot) ==
    [FoldLeft(undoLast, s, Reverse(SubSeq(s.journal, snapshot + 1, Len(s.journal))))
        EXCEPT !.journal = SubSeq(@, 1, snapshot)]

Snapshot(s) ==
    [s EXCEPT !.nextRevisionID = @ + 1,
              !.validRevisions = Append(@, [id |-> s.nextRevisionID, journalIndex |-> Len(s.journal)])]

\* It panics for a revision that is not there, which no caller asks for.
RevertToSnapshot(s, id) ==
    LET idx == CHOOSE i \in DOMAIN s.validRevisions : s.validRevisions[i].id = id
    IN [revert(s, s.validRevisions[idx].journalIndex)
           EXCEPT !.validRevisions = SubSeq(@, 1, idx - 1)]

-----------------------------------------------------------------------------
(* The setters *)

createObject(s, a) ==
    setStateObject(IF Exist(s, a)
                   THEN append(s, [kind |-> "reset", account |-> NoOne, address |-> a, object |-> Object(s, a)])
                   ELSE append(s, [kind |-> "create", account |-> a]),
                   a, newObject(NewAccount))

\* The balance is carried over to the new account.
CreateAccount(s, a) ==
    LET new == createObject(s, a)
    IN setStateObject(new, a, setField(Object(new, a), "balance", GetBalance(s, a)))

GetOrNew(s, a) == IF Exist(s, a) THEN setStateObject(s, a, Object(s, a)) ELSE createObject(s, a)

\* SetBalance, SetNonce, SetLockedBalance, SetUnLockedBalance and
\* SetDelegateTimestamp: journal the old value, then change it.
SetField(s, a, field, v) ==
    LET g   == GetOrNew(s, a)
        old == Object(g, a).data[field]
    IN setStateObject(append(g, [kind |-> "field", account |-> a, field |-> field, prev |-> old]),
                      a, setField(Object(g, a), field, v))

\* Calls setUnDelegateTimestamp, which has no journal entry.
SetUnDelegateTimestamp(s, a, v) ==
    LET g == GetOrNew(s, a)
    IN setStateObject(g, a, setField(Object(g, a), "unDelegateTime", v))

SetCode(s, a, v) ==
    LET g == GetOrNew(s, a)
    IN setStateObject(append(g, [kind |-> "code", account |-> a, prev |-> Object(g, a).data.code]),
                      a, setCode(Object(g, a), v))

SetState(s, a, k, v) ==
    LET g == GetOrNew(s, a)
    IN setStateObject(append(g, [kind |-> "storage", account |-> a, key |-> k,
                                 prev |-> ObjectState(Object(g, a), k)]),
                      a, setState(Object(g, a), k, v))

\* A touched Ripemd stays dirty whatever is undone.
touch(s, a) ==
    LET t == append(s, [kind |-> "touch", account |-> a])
    IN IF a = Ripemd THEN [t EXCEPT !.dirties[a] = @ + 1] ELSE t

AddBalance(s, a, amount) ==
    LET g == GetOrNew(s, a)
    IN IF amount # 0 THEN SetField(g, a, "balance", GetBalance(g, a) + amount)
       ELSE IF empty(Object(g, a)) THEN touch(g, a) ELSE g

SubBalance(s, a, amount) ==
    LET g == GetOrNew(s, a)
    IN IF amount = 0 THEN g ELSE SetField(g, a, "balance", GetBalance(g, a) - amount)

Suicide(s, a) ==
    IF ~ Exist(s, a) THEN s
    ELSE LET obj == Object(s, a)
         IN setStateObject(append(s, [kind |-> "suicide", account |-> a, prevSuicided |-> obj.suicided,
                                      prev |-> obj.data.balance]),
                           a, [setField(obj, "balance", 0) EXCEPT !.suicided = TRUE])

AddLog(s)         == [append(s, [kind |-> "log", account |-> NoOne]) EXCEPT !.logs = @ + 1]
AddRefund(s, gas) == [append(s, [kind |-> "refund", account |-> NoOne, prev |-> s.refund])
                         EXCEPT !.refund = @ + gas]

-----------------------------------------------------------------------------
(* Between transactions and at the end of a block *)

\* updateTrie and updateRoot: dirty slots go to the storage trie.
updateRoot(obj) ==
    LET t == obj.dirtyStorage @@ obj.trie
    IN [obj EXCEPT !.trie = t, !.data.root = t, !.dirtyStorage = <<>>]

clearJournalAndRefund(s) ==
    [s EXCEPT !.journal = <<>>, !.dirties = [a \in Address |-> 0],
              !.validRevisions = <<>>, !.refund = 0]

\* The accounts of trie without gone, with those of objects in kept.
Store(trie, objects, kept, gone) ==
    [a \in (DOMAIN trie \cup kept) \ gone |-> IF a \in kept THEN objects[a].data ELSE trie[a]]

Finalise(s, deleteEmpty) ==
    LET dirty   == {a \in DOMAIN s.stateObjects : s.dirties[a] > 0}
        gone    == {a \in dirty : LET obj == s.stateObjects[a]
                                  IN obj.suicided \/ (deleteEmpty /\ empty(obj))}
        objects == [a \in DOMAIN s.stateObjects |->
                      LET obj == s.stateObjects[a]
                      IN IF a \in gone THEN [obj EXCEPT !.deleted = TRUE]
                         ELSE IF a \in dirty THEN updateRoot(obj) ELSE obj]
    IN clearJournalAndRefund([s EXCEPT !.stateObjects = objects,
                                       !.trie = Store(@, objects, dirty \ gone, gone),
                                       !.stateObjectsDirty = @ \cup dirty])

\* Mutant: only the accounts of the last transaction are written.
CommitLastOnly(s, deleteEmpty) ==
    [Finalise(s, deleteEmpty) EXCEPT !.trie = s.trie, !.stateObjectsDirty = {}]

Commit(s, deleteEmpty) ==
    LET dirty   == s.stateObjectsDirty \cup {a \in Address : s.dirties[a] > 0}
        gone    == {a \in DOMAIN s.stateObjects :
                      LET obj == s.stateObjects[a]
                      IN obj.suicided \/ (a \in dirty /\ deleteEmpty /\ empty(obj))}
        kept    == (DOMAIN s.stateObjects \cap dirty) \ gone
        objects == [a \in DOMAIN s.stateObjects |->
                      LET obj == s.stateObjects[a]
                      IN IF a \in gone THEN [obj EXCEPT !.deleted = TRUE]
                         ELSE IF a \in kept THEN [updateRoot(obj) EXCEPT !.dirtyCode = FALSE] ELSE obj]
        codes   == {s.stateObjects[a].data.code : a \in {b \in kept : s.stateObjects[b].dirtyCode}} \ {0}
    IN clearJournalAndRefund([s EXCEPT !.stateObjects = objects,
                                       !.trie = Store(@, objects, kept, gone),
                                       !.codes = @ \cup codes,
                                       !.stateObjectsDirty = dirty \ DOMAIN s.stateObjects])

deepCopy(obj) == [obj EXCEPT !.cachedStorage = obj.dirtyStorage]

\* The live objects that are dirty, without the journal.
Copy(s) ==
    LET copied == {a \in DOMAIN s.stateObjects : s.dirties[a] > 0} \cup s.stateObjectsDirty
    IN [NewStateDB(s.trie, s.codes)
           EXCEPT !.stateObjects = [a \in copied |-> deepCopy(s.stateObjects[a])],
                  !.stateObjectsDirty = copied, !.refund = s.refund, !.logs = s.logs]

-----------------------------------------------------------------------------
(* What a caller sees of an account and of the whole state *)

AccountView(s, a) ==
    IF Exist(s, a)
    THEN LET obj == Object(s, a)
         IN [exists |-> TRUE, suicided |-> obj.suicided,
             data |-> [obj.data EXCEPT !.root = [k \in Key |-> ObjectState(obj, k)]]]
    ELSE [exists |-> FALSE, suicided |-> FALSE, data |-> NewAccount]

View(s) == [accounts |-> [a \in Address |-> AccountView(s, a)], refund |-> s.refund, logs |-> s.logs]
=============================================================================
