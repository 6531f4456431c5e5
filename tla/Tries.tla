-------------------------------- MODULE Tries -------------------------------
(***************************************************************************)
(* The Merkle trie of the state and of the DPoS records (common/mtp): keys *)
(* as nibbles, insertion and deletion on a tree whose lower parts may be   *)
(* in the database, cached hashes and flags, commits, iterators.           *)
(*                                                                         *)
(* A hash is the encoding it was taken of; a value is its length.          *)
(***************************************************************************)
EXTENDS Integers, FiniteSets, SequencesExt

CONSTANTS
  NibbleBase,  \* nibbles are 0 .. NibbleBase - 1; at least 4, for the flags of a compact key
  TriePrefix,  \* t.prefix
  TrieKey,     \* keys, sequences of bytes; none is a prefix of another
  TrieVal,     \* values, by their length
  HashLen,     \* length of a hash: a shorter encoding stays within its parent
  CacheLimit,  \* SetCacheLimit
  Starts,      \* where iterators begin
  MaxTrieOps   \* bound on the calls

Nil == [k |-> "nil"]
Value(v) == [k |-> "value", v |-> v]
Short(key, val, flags) == [k |-> "short", key |-> key, val |-> val, flags |-> flags]
Full(children, flags) == [k |-> "full", children |-> children, flags |-> flags]
Flag(h, gen, dirty) == [hash |-> h, gen |-> gen, dirty |-> dirty]
Term == NibbleBase

-----------------------------------------------------------------------------
\* Keys.
hasTerm(s) == s # <<>> /\ Last(s) = Term
decodeNibbles(s) == [i \in 1 .. Len(s) \div 2 |-> s[2 * i - 1] * NibbleBase + s[2 * i]]
Dropped(s, n) == SubSeq(s, n + 1, Len(s))

keybytesToHex(str) ==
    [i \in 1 .. 2 * Len(str) |-> IF i % 2 = 1 THEN str[(i + 1) \div 2] \div NibbleBase ELSE str[i \div 2] % NibbleBase]
      \o <<Term>>

hexToKeybytes(hex) == decodeNibbles(IF hasTerm(hex) THEN Front(hex) ELSE hex)

hexToCompact(hex) ==
    LET h    == IF hasTerm(hex) THEN Front(hex) ELSE hex
        odd  == Len(h) % 2
        flag == odd + IF hasTerm(hex) THEN 2 ELSE 0
    IN <<flag * NibbleBase + IF odd = 1 THEN h[1] ELSE 0>> \o decodeNibbles(Dropped(h, odd))

compactToHex(compact) ==
    LET base == Front(keybytesToHex(compact))
    IN Dropped(IF base[1] >= 2 THEN Append(base, Term) ELSE base, 2 - (base[1] % 2))

prefixLen(a, b) == CHOOSE n \in 0 .. Len(a) :
    /\ n <= Len(b) /\ \A i \in 1 .. n : a[i] = b[i]
    /\ n < Len(a) /\ n < Len(b) => a[n + 1] # b[n + 1]

-----------------------------------------------------------------------------
VARIABLES
  trieRoot,   \* t.root
  cachegen,
  nodeDb,     \* what db.Node finds: [hash, blob]
  content,    \* the value last given to a key, or 0
  saved,      \* the root and the content of the last commit
  trieOps

trieVars == <<trieRoot, cachegen, nodeDb, content, saved, trieOps>>

\* Encodings.  A child is Nil, a hash, or a short encoding itself.
RECURSIVE Size(_)
StringSize(n) == IF n = 1 THEN 1 ELSE n + 1
Size(b) ==
    CASE b.k = "nil"   -> 1
      [] b.k = "value" -> StringSize(b.v)
      [] b.k = "hash"  -> StringSize(HashLen)
      [] b.k = "list2" -> 1 + StringSize(Len(b.key)) + Size(b.val)
      [] b.k = "list17" -> LET sum[i \in -1 .. Term] == IF i < 0 THEN 1 ELSE sum[i - 1] + Size(b.children[i]) IN sum[Term]

RECURSIVE decodeNode(_, _, _)
decodeRef(ref, gen) == IF ref.k \in {"list2", "list17"} THEN decodeNode(Nil, ref, gen) ELSE ref
decodeNode(h, blob, gen) ==
    IF blob.k = "list2"
    THEN LET key == compactToHex(blob.key)
         IN Short(key, IF hasTerm(key) THEN blob.val ELSE decodeRef(blob.val, gen), Flag(h, gen, FALSE))
    ELSE Full([i \in 0 .. Term |-> IF i = Term THEN blob.children[i] ELSE decodeRef(blob.children[i], gen)], Flag(h, gen, FALSE))

Missing == [k |-> "missing"]
resolveHash(n) ==
    IF \E e \in nodeDb : e.hash = n THEN decodeNode(n, (CHOOSE e \in nodeDb : e.hash = n).blob, cachegen) ELSE Missing

resolve(n) == IF n.k = "hash" THEN resolveHash(n) ELSE n

-----------------------------------------------------------------------------
RECURSIVE tryGet(_, _)
Got(v, n, did) == [value |-> v, n |-> n, did |-> did]
tryGet(n, key) ==
    CASE n.k = "nil"     -> Got(0, n, FALSE)
      [] n.k = "value"   -> Got(n.v, n, FALSE)
      [] n.k = "missing" -> Got(-1, n, FALSE)
      [] n.k = "short"   ->
           IF ~IsPrefix(n.key, key) THEN Got(0, n, FALSE)
           ELSE LET r == tryGet(n.val, Dropped(key, Len(n.key)))
                IN IF r.did THEN Got(r.value, [n EXCEPT !.val = r.n, !.flags.gen = cachegen], TRUE) ELSE Got(r.value, n, FALSE)
      [] n.k = "full"    ->
           LET r == tryGet(n.children[Head(key)], Tail(key))
           IN IF r.did THEN Got(r.value, [n EXCEPT !.children[Head(key)] = r.n, !.flags.gen = cachegen], TRUE)
              ELSE Got(r.value, n, FALSE)
      [] n.k = "hash"    -> [tryGet(resolveHash(n), key) EXCEPT !.did = TRUE]

newFlag == Flag(Nil, cachegen, TRUE)
Change(n) == [dirty |-> TRUE, n |-> n]
NoChange(n) == [dirty |-> FALSE, n |-> n]

RECURSIVE insertAt(_, _, _)
insertAt(n, key, value) ==
    IF key = <<>> THEN [dirty |-> n # value, n |-> value]
    ELSE CASE n.k = "short" ->
           LET m == prefixLen(key, n.key) IN
           IF m = Len(n.key)
           THEN LET r == insertAt(n.val, Dropped(key, m), value)
                IN IF r.dirty THEN Change(Short(n.key, r.n, newFlag)) ELSE NoChange(n)
           ELSE LET branch == Full([i \in 0 .. Term |->
                                      IF i = n.key[m + 1] THEN insertAt(Nil, Dropped(n.key, m + 1), n.val).n
                                      ELSE IF i = key[m + 1] THEN insertAt(Nil, Dropped(key, m + 1), value).n ELSE Nil], newFlag)
                IN Change(IF m = 0 THEN branch ELSE Short(SubSeq(key, 1, m), branch, newFlag))
      [] n.k = "full" ->
           LET r == insertAt(n.children[Head(key)], Tail(key), value)
           IN IF r.dirty THEN Change(Full([n.children EXCEPT ![Head(key)] = r.n], newFlag)) ELSE NoChange(n)
      [] n.k = "nil" -> Change(Short(key, value, newFlag))
      [] n.k = "hash" ->
           LET rn == resolveHash(n)
               r == insertAt(rn, key, value)
           IN IF r.dirty THEN r ELSE NoChange(rn)
      [] n.k = "missing" -> NoChange(n)

\* A full node with one child left becomes a short node, one that ends in a
\* short node is joined with it.
Left(children) == {i \in 0 .. Term : children[i] # Nil}
Joined(pos, cnode, child) ==
    IF pos # Term /\ cnode.k = "short" THEN Short(<<pos>> \o cnode.key, cnode.val, newFlag) ELSE Short(<<pos>>, child, newFlag)

\* Mutant: the child is joined without the nibble that led to it.
ReducedShorter(children) ==
    LET pos == CHOOSE i \in Left(children) : TRUE
    IN IF Cardinality(Left(children)) > 1 THEN Full(children, newFlag)
       ELSE IF resolve(children[pos]).k = "short" THEN resolve(children[pos]) ELSE Joined(pos, Nil, children[pos])

Reduced(children) ==
    LET pos == CHOOSE i \in Left(children) : TRUE
    IN IF Cardinality(Left(children)) > 1 THEN Full(children, newFlag) ELSE Joined(pos, resolve(children[pos]), children[pos])

RECURSIVE deleteAt(_, _)
deleteAt(n, key) ==
    CASE n.k = "short" ->
           LET m == prefixLen(key, n.key)
               r == deleteAt(n.val, Dropped(key, m))
           IN IF m < Len(n.key) THEN NoChange(n)
              ELSE IF m = Len(key) THEN Change(Nil)
              ELSE IF ~r.dirty THEN NoChange(n)
              ELSE Change(IF r.n.k = "short" THEN Short(n.key \o r.n.key, r.n.val, newFlag) ELSE Short(n.key, r.n, newFlag))
      [] n.k = "full" ->
           LET r == deleteAt(n.children[Head(key)], Tail(key))
           IN IF r.dirty THEN Change(Reduced([n.children EXCEPT ![Head(key)] = r.n])) ELSE NoChange(n)
      [] n.k = "value" -> Change(Nil)
      [] n.k \in {"nil", "missing"} -> NoChange(n)
      [] n.k = "hash" ->
           LET rn == resolveHash(n)
               r == deleteAt(rn, key)
           IN IF r.dirty THEN r ELSE NoChange(rn)

-----------------------------------------------------------------------------
\* The hasher: the reference to a node, the node with its flags updated, and
\* what is stored.  keep: there is a database to write to.
canUnload(flags) == ~flags.dirty /\ cachegen - flags.gen >= CacheLimit

Cleaned(flags, h, keep) == Flag(h, flags.gen, flags.dirty /\ ~keep)

RECURSIVE hash(_, _, _)
store(n, collapsed, cached, below, keep, force) ==
    LET h == IF n.flags.hash # Nil THEN n.flags.hash ELSE [k |-> "hash", of |-> collapsed]
    IN IF Size(collapsed) < HashLen /\ ~force
       THEN [ref |-> collapsed, n |-> [cached EXCEPT !.flags = Cleaned(n.flags, Nil, keep)], new |-> below]
       ELSE [ref |-> h, n |-> [cached EXCEPT !.flags = Cleaned(n.flags, h, keep)],
             new |-> below \cup IF keep THEN {[hash |-> h, blob |-> collapsed]} ELSE {}]
hash(n, keep, force) ==
    IF n.k \in {"nil", "value", "hash"} THEN [ref |-> n, n |-> n, new |-> {}]
    ELSE IF n.flags.hash # Nil /\ keep /\ canUnload(n.flags) THEN [ref |-> n.flags.hash, n |-> n.flags.hash, new |-> {}]
    ELSE IF n.flags.hash # Nil /\ (~keep \/ ~n.flags.dirty) THEN [ref |-> n.flags.hash, n |-> n, new |-> {}]
    ELSE IF n.k = "short"
    THEN LET c == hash(n.val, keep, FALSE)
         IN store(n, [k |-> "list2", key |-> hexToCompact(n.key), val |-> c.ref], [n EXCEPT !.val = c.n], c.new, keep, force)
    ELSE LET c == [i \in 0 .. Term |-> hash(n.children[i], keep, FALSE)]
         IN store(n, [k |-> "list17", children |-> [i \in 0 .. Term |-> c[i].ref]], [n EXCEPT !.children = [i \in 0 .. Term |-> c[i].n]],
                  UNION {c[i].new : i \in 0 .. Term}, keep, force)

emptyRoot == [k |-> "hash", of |-> Nil]
hashRoot(keep) == IF trieRoot = Nil THEN [ref |-> emptyRoot, n |-> Nil, new |-> {}] ELSE hash(trieRoot, keep, TRUE)

hexKey(k) == keybytesToHex(TriePrefix \o k)

-----------------------------------------------------------------------------
\* Iterators: the nodes from the root to the current one, each with the child
\* to be processed next, and the path.
ItState(n, h, plen) == [node |-> resolve(n), hash |-> IF n.k = "hash" THEN n ELSE h, index |-> -1, plen |-> plen]
cache(n) == IF n.k \in {"short", "full"} THEN n.flags.hash ELSE Nil
pop(it) == [it EXCEPT !.stack = Front(it.stack), !.path = SubSeq(it.path, 1, Last(it.stack).plen)]

nextChild(parent) ==
    IF parent.node.k = "full" THEN {i \in parent.index + 1 .. Term : parent.node.children[i] # Nil}
    ELSE IF parent.node.k = "short" /\ parent.index < 0 THEN {0} ELSE {}

\* peek followed by push: the iterator at the next node, or at the end.
RECURSIVE climb(_)
climb(it) ==
    IF it.stack = <<>> THEN [it EXCEPT !.end = TRUE]
    ELSE LET parent == Last(it.stack)
             next   == nextChild(parent)
             i      == CHOOSE j \in next : \A l \in next : j <= l
             child  == IF parent.node.k = "full" THEN parent.node.children[i] ELSE parent.node.val
         IN IF next = {} THEN climb(pop(it))
            ELSE [it EXCEPT !.stack = Append([@ EXCEPT ![Len(@)].index = i], ItState(child, cache(child), Len(it.path))),
                            !.path = @ \o IF parent.node.k = "full" THEN <<i>> ELSE parent.node.key]
peek(it, descend) ==
    IF it.stack = <<>> THEN [it EXCEPT !.stack = <<ItState(it.root, it.rootHash, 0)>>]
    ELSE climb(IF descend THEN it ELSE pop(it))

ItNext(it, descend) == IF it.end THEN it ELSE peek(it, descend)

\* bytes.Compare(a, b) < 0
Less(a, b) == LET m == prefixLen(a, b) IN m < Len(b) /\ (m = Len(a) \/ a[m + 1] < b[m + 1])

\* peek alone.
Unpushed(it) ==
    LET up == pop(it) IN IF up.stack = <<>> THEN up ELSE [up EXCEPT !.stack[Len(up.stack)].index = @ - 1]

RECURSIVE seek(_, _)
seek(it, key) ==
    LET next == peek(it, IsPrefix(it.path, key))
    IN IF next.end THEN next ELSE IF ~Less(next.path, key) THEN Unpushed(next) ELSE seek(next, key)
newNodeIterator(root, h, start) ==
    seek([root |-> root, rootHash |-> h, stack |-> <<>>, path |-> <<>>, end |-> FALSE], Front(keybytesToHex(start)))

\* Iterator.Next over the rest; only: the prefix of a prefixIterator.
RECURSIVE Pairs(_, _)
Leaf(it) == hasTerm(it.path)
LeafPair(it) == <<hexToKeybytes(it.path), Last(it.stack).node.v>>
Pairs(it, only) ==
    LET next == ItNext(it, TRUE)
    IN IF next.end \/ ~IsPrefix(only, next.path) THEN <<>>
       ELSE (IF Leaf(next) THEN <<LeafPair(next)>> ELSE <<>>) \o Pairs(next, only)
newPrefixIterator(root, h, prefix) == Pairs(newNodeIterator(root, h, prefix), Front(keybytesToHex(prefix)))

\* -1, 0 or 1.  Which of two hashes is the less is arbitrary.
compareNodes(a, b) ==
    IF a.path # b.path THEN IF Less(a.path, b.path) THEN -1 ELSE 1
    ELSE IF Last(a.stack).hash # Last(b.stack).hash THEN 1
    ELSE IF Leaf(a) /\ LeafPair(a) # LeafPair(b) THEN IF LeafPair(a)[2] < LeafPair(b)[2] THEN -1 ELSE 1
    ELSE 0

\* differenceIterator.Next from the comparison on: both iterators, when b is
\* at a node that a does not have, or at its end.
RECURSIVE Differ(_, _)
Differ(a, b) ==
    IF a.end \/ b.end THEN <<a, b>>
    ELSE LET c == compareNodes(a, b)
             descend == Last(a.stack).hash = Nil
         IN IF c = 1 THEN <<a, b>>
            ELSE IF c = -1 THEN Differ(ItNext(a, TRUE), b)
            ELSE LET nb == ItNext(b, descend) IN IF nb.end THEN <<a, nb>> ELSE Differ(ItNext(a, descend), nb)
RECURSIVE NewPairs(_, _)
NewPairs(a, b) ==
    LET d == Differ(a, ItNext(b, TRUE))
    IN IF d[2].end THEN {} ELSE NewPairs(d[1], d[2]) \cup IF Leaf(d[2]) THEN {LeafPair(d[2])} ELSE {}
NewDifferenceIterator(a, b) == NewPairs(ItNext(a, TRUE), b)

-----------------------------------------------------------------------------
\* Trie.Prove: the nodes on the way to a key.
RECURSIVE OnPath(_, _)
OnPath(n, key) ==
    CASE n.k = "hash" -> OnPath(resolveHash(n), key)
      [] n.k = "short" -> <<n>> \o IF IsPrefix(n.key, key) THEN OnPath(n.val, Dropped(key, Len(n.key))) ELSE <<>>
      [] n.k = "full" -> <<n>> \o OnPath(n.children[Head(key)], Tail(key))
      [] OTHER -> <<>>
Unhashed(n) == [n EXCEPT !.flags = Flag(Nil, 0, TRUE)]

IsElement(nodes, i) == i = 1 \/ hash(Unhashed(nodes[i]), FALSE, FALSE).ref.k = "hash"
Prove(key) ==
    LET nodes == OnPath(trieRoot, key)
        Hashed(i) == hash(Unhashed(nodes[i]), FALSE, TRUE).ref
    IN {[hash |-> Hashed(i), blob |-> Hashed(i).of] : i \in {j \in DOMAIN nodes : IsElement(nodes, j)}}

-----------------------------------------------------------------------------
TrieInit ==
    /\ trieRoot = Nil /\ cachegen = 0 /\ nodeDb = {}
    /\ content = [k \in TrieKey |-> 0]
    /\ saved = [hash |-> emptyRoot, content |-> content]
    /\ trieOps = 0

TrieCall == trieOps < MaxTrieOps /\ trieOps' = trieOps + 1

TryUpdate(k, v) ==
    /\ TrieCall
    /\ LET n == insertAt(trieRoot, hexKey(k), Value(v)).n IN trieRoot' = IF n = Missing THEN trieRoot ELSE n
    /\ content' = [content EXCEPT ![k] = v]
    /\ UNCHANGED <<cachegen, nodeDb, saved>>

TryDelete(k) ==
    /\ TrieCall
    /\ LET n == deleteAt(trieRoot, hexKey(k)).n IN trieRoot' = IF n = Missing THEN trieRoot ELSE n
    /\ content' = [content EXCEPT ![k] = 0]
    /\ UNCHANGED <<cachegen, nodeDb, saved>>

TryGet(k) ==
    /\ TrieCall
    /\ LET r == tryGet(trieRoot, hexKey(k)) IN r.did /\ r.value >= 0 /\ trieRoot' = r.n
    /\ UNCHANGED <<cachegen, nodeDb, content, saved>>

Hash ==
    /\ TrieCall
    /\ trieRoot' = hashRoot(FALSE).n
    /\ UNCHANGED <<cachegen, nodeDb, content, saved>>

Commit ==
    /\ TrieCall
    /\ LET r == hashRoot(TRUE) IN
         /\ trieRoot' = r.n
         /\ nodeDb' = nodeDb \cup {e \in r.new : \A f \in nodeDb : f.hash # e.hash}
         /\ saved' = [hash |-> r.ref, content |-> content]
    /\ cachegen' = cachegen + 1
    /\ UNCHANGED content

New ==
    /\ TrieCall
    /\ trieRoot' = IF saved.hash = emptyRoot THEN Nil ELSE resolveHash(saved.hash)
    /\ cachegen' = 0 /\ content' = saved.content
    /\ UNCHANGED <<nodeDb, saved>>

TrieNext ==
    \/ \E k \in TrieKey : TryDelete(k) \/ TryGet(k) \/ \E v \in TrieVal : TryUpdate(k, v)
    \/ Hash \/ Commit \/ New

TrieSpec == TrieInit /\ [][TrieNext]_trieVars

-----------------------------------------------------------------------------
\* A reader that has a set of nodes and a root hash only.
RECURSIVE Read(_, _, _)
Read(db, ref, key) ==
    CASE ref.k = "nil"   -> 0
      [] ref.k = "value" -> ref.v
      [] ref.k = "hash"  -> IF \E e \in db : e.hash = ref THEN Read(db, (CHOOSE e \in db : e.hash = ref).blob, key) ELSE -1
      [] ref.k = "list2" -> LET kk == compactToHex(ref.key)
                            IN IF IsPrefix(kk, key) THEN Read(db, ref.val, Dropped(key, Len(kk))) ELSE 0
      [] ref.k = "list17" -> Read(db, ref.children[Head(key)], Tail(key))

\* The trie of a set of pairs, built from nothing.
RECURSIVE Canon(_)
Ref(b, force) == IF b.k \in {"nil", "value"} \/ (Size(b) < HashLen /\ ~force) THEN b ELSE [k |-> "hash", of |-> b]
Canon(pairs) ==
    LET any == CHOOSE q \in pairs : TRUE
        m   == CHOOSE l \in 0 .. Len(any[1]) : /\ \A q \in pairs : prefixLen(q[1], any[1]) >= l
                                              /\ \E q \in pairs : prefixLen(q[1], any[1]) = l
    IN IF pairs = {} THEN Nil
       ELSE IF any[1] = <<>> THEN Value(any[2])
       ELSE IF m > 0
       THEN [k |-> "list2", key |-> hexToCompact(SubSeq(any[1], 1, m)),
             val |-> Ref(Canon({<<Dropped(q[1], m), q[2]>> : q \in pairs}), FALSE)]
       ELSE [k |-> "list17", children |-> [i \in 0 .. Term |->
                Ref(Canon({<<Tail(q[1]), q[2]>> : q \in {r \in pairs : Head(r[1]) = i}}), FALSE)]]

Present == {k \in TrieKey : content[k] # 0}

\* Whatever was hashed, stored, unloaded or loaded again, TryGet finds the
\* value last written, and nothing for a key that was deleted.
TrieExact == \A k \in TrieKey : tryGet(trieRoot, hexKey(k)).value = content[k]

\* The root hash depends on the content alone: deletion joins what insertion
\* divided, and no cached hash is stale.  Nodes reach the same state root by
\* different histories.
RootCanonical ==
    LET pairs == {<<hexKey(k), content[k]>> : k \in Present}
    IN hashRoot(FALSE).ref = IF pairs = {} THEN emptyRoot ELSE Ref(Canon(pairs), TRUE)

\* A committed root can be read from the database alone, whatever was done to
\* the trie before and after.
SavedReadable ==
    \A k \in TrieKey : (saved.hash = emptyRoot /\ saved.content[k] = 0) \/ Read(nodeDb, saved.hash, hexKey(k)) = saved.content[k]

\* NodeIterator(start) gives every later pair once and in order, and
\* PrefixIterator those that begin with the prefix, which is how delegators of
\* a candidate are counted.
IterationExact ==
    LET h == hashRoot(FALSE).ref
        Pair(k) == <<TriePrefix \o k, content[k]>>
        Sorted(S) == SetToSortSeq({Pair(k) : k \in S}, LAMBDA a, b : Less(a[1], b[1]))
    IN \A s \in Starts :
         LET start == TriePrefix \o s IN
         /\ Pairs(newNodeIterator(trieRoot, h, start), <<>>) = Sorted({k \in Present : ~Less(TriePrefix \o k, start)})
         /\ newPrefixIterator(trieRoot, h, start) = Sorted({k \in Present : IsPrefix(s, k)})

\* The difference between the last commit and the present trie is what was
\* written in between: skipping equal subtrees loses nothing.
DifferenceExact ==
    LET It(root, h) == newNodeIterator(root, h, <<>>)
    IN NewDifferenceIterator(It(IF saved.hash = emptyRoot THEN Nil ELSE saved.hash, Nil), It(trieRoot, hashRoot(FALSE).ref))
         = {<<TriePrefix \o k, content[k]>> : k \in {j \in Present : content[j] # saved.content[j]}}

\* The nodes Prove collects suffice to read the key from the root hash.
ProofSuffices == \A k \in TrieKey : trieRoot # Nil => Read(Prove(hexKey(k)), hashRoot(FALSE).ref, hexKey(k)) = content[k]

\* The trie is the map that was written to it, to every reader: a lookup, an
\* iterator, a proof, the root hash, and one that has the database only.
TrieFaithful ==
    /\ TrieExact /\ RootCanonical /\ SavedReadable
    /\ IterationExact /\ DifferenceExact /\ ProofSuffices
=============================================================================
