--------------------------------- MODULE Rlp --------------------------------
(***************************************************************************)
(* The encoding of everything that is hashed, stored or sent (common/rlp): *)
(* the encoder's buffer with its list of headers, the Stream decoder with  *)
(* its stack of lists and cached kind, the decoders of the Go types, and   *)
(* Split.  Bytes are digits of a smaller base, with the same five ranges   *)
(* of a first byte.                                                        *)
(***************************************************************************)
EXTENDS Integers, SequencesExt

CONSTANTS
  Single,    \* 0x80: bytes below are their own encoding
  Small,     \* 56: content of this size or more has its size written out
  SizeLen,   \* 8: largest size of a size
  Symbol,    \* the bytes inputs are made of
  MaxInput,  \* their length
  GoValues   \* [type, value] to encode

ByteBase == Single + 2 * (Small + SizeLen)
StringTag == Single
LongStringTag == StringTag + Small - 1       \* 0xB7
ListTag == StringTag + Small + SizeLen       \* 0xC0
LongListTag == ListTag + Small - 1           \* 0xF7
Number(b) == FoldLeft(LAMBDA n, d : n * ByteBase + d, 0, b)

RECURSIVE putint(_)
putint(i) == IF i < ByteBase THEN <<i>> ELSE Append(putint(i \div ByteBase), i % ByteBase)
intsize(i) == Len(putint(i))
headsize(size) == IF size < Small THEN 1 ELSE 1 + intsize(size)
puthead(smalltag, largetag, size) ==
    IF size < Small THEN <<smalltag + size>> ELSE <<largetag + intsize(size)>> \o putint(size)

-----------------------------------------------------------------------------
\* The encoder.  str is everything but list headers, which are kept apart
\* until their sizes are known.
NewBuf == [str |-> <<>>, lheads |-> <<>>, lhsize |-> 0]
WriteStr(w, b) == [w EXCEPT !.str = @ \o b]
BufSize(w) == Len(w.str) + w.lhsize
encodeString(w, b) ==
    WriteStr(w, IF Len(b) = 1 /\ b[1] < Single THEN b ELSE puthead(StringTag, LongStringTag, Len(b)) \o b)
list(w) == [w EXCEPT !.lheads = Append(@, [offset |-> Len(w.str), size |-> w.lhsize])]

listEnd(w, i) ==
    LET size == BufSize(w) - w.lheads[i].offset - w.lheads[i].size
    IN [w EXCEPT !.lheads[i].size = size, !.lhsize = @ + headsize(size)]

HeadBytes(w, i) == puthead(ListTag, LongListTag, w.lheads[i].size)
toBytes(w) ==
    LET From(i) == IF i = 0 THEN 0 ELSE w.lheads[i].offset
        To(i) == IF i = Len(w.lheads) THEN Len(w.str) ELSE w.lheads[i + 1].offset
    IN FlattenSeq([j \in 1 .. Len(w.lheads) + 1 |->
         (IF j = 1 THEN <<>> ELSE HeadBytes(w, j - 1)) \o SubSeq(w.str, From(j - 1) + 1, To(j - 1))])

\* The writers of types.  A value is [n |-> number], [b |-> bytes],
\* [l |-> elements], or [nil |-> TRUE].
InList(w, Inner(_)) == listEnd(Inner(list(w)), Len(w.lheads) + 1)
writeUint(w, n) == encodeString(w, IF n = 0 THEN <<>> ELSE putint(n))
writeBool(w, n) == WriteStr(w, IF n = 1 THEN <<1>> ELSE <<StringTag>>)

RECURSIVE Enc(_, _, _), EncAll(_, _, _)
EncAll(w, types, vs) == IF vs = <<>> THEN w ELSE EncAll(Enc(w, Head(types), Head(vs)), Tail(types), Tail(vs))
sliceElems(w, T, vs) == EncAll(w, [i \in DOMAIN vs |-> T], vs)
makeSliceWriter(w, T, vs) == InList(w, LAMBDA u : sliceElems(u, T, vs))
makeStructWriter(w, fields, vs) == InList(w, LAMBDA u : EncAll(u, fields, vs))
makePtrWriter(w, T, v) ==
    IF v # [nil |-> TRUE] THEN Enc(w, T, v)
    ELSE IF T.t \in {"struct", "slice"} THEN InList(w, LAMBDA u : u) ELSE encodeString(w, <<>>)
Enc(w, T, v) ==
    CASE T.t \in {"uint", "big"}    -> writeUint(w, v.n)
      [] T.t = "bool"               -> writeBool(w, v.n)
      [] T.t \in {"bytes", "array"} -> encodeString(w, v.b)
      [] T.t = "slice"              -> makeSliceWriter(w, T.of, v.l)
      [] T.t = "tail"               -> sliceElems(w, T.of, v.l)
      [] T.t = "struct"             -> makeStructWriter(w, T.fields, v.l)
      [] T.t = "opt"                -> makePtrWriter(w, T.of, v)
      [] T.t = "any" -> IF DOMAIN v = {"b"} THEN encodeString(w, v.b) ELSE makeSliceWriter(w, T, v.l)
Encode(T, v) == toBytes(Enc(NewBuf, T, v))

-----------------------------------------------------------------------------
\* The Stream.  buf is the rest of the input, whose length is s.remaining.
Stream(b) == [buf |-> b, kind |-> "none", size |-> 0, byteval |-> 0, kinderr |-> "", stack |-> <<>>]
Okay(s, v) == [s |-> s, v |-> v, e |-> ""]
Err(s, e) == [s |-> s, v |-> <<>>, e |-> e]
rearm(s) == [s EXCEPT !.kind = "none"]

\* An error is returned at once; without one the reader goes on from the stream
\* and the value that were returned.
Then(r, goOn(_, _)) == IF r.e # "" THEN r ELSE goOn(r.s, r.v)
InAList(s) == s.stack # <<>>
Room(s) == Last(s.stack).size - Last(s.stack).pos

\* readFull, after willRead.
readFull(s, n) ==
    LET moved == IF InAList(s) THEN [rearm(s) EXCEPT !.stack[Len(s.stack)].pos = @ + n] ELSE rearm(s)
    IN IF InAList(s) /\ n > Room(s) THEN Err(rearm(s), "ErrElemTooLarge")
       ELSE IF n > Len(s.buf) THEN Err(moved, "ErrValueTooLarge")
       ELSE Okay([moved EXCEPT !.buf = SubSeq(@, n + 1, Len(@))], SubSeq(s.buf, 1, n))

readUint(s, n) ==
    Then(readFull(s, n), LAMBDA t, v : IF n > 1 /\ v[1] = 0 THEN Err(t, "ErrCanonSize") ELSE Okay(t, Number(v)))

WithKind(s, kind, size, byteval, e) == [s EXCEPT !.kind = kind, !.size = size, !.byteval = byteval, !.kinderr = e]

\* Mutant: a size that would fit into the first byte is accepted.
SizedAny(r, kind) == WithKind(r.s, kind, IF r.e = "" THEN r.v ELSE 0, 0, r.e)

Sized(r, kind) ==
    WithKind(r.s, kind, IF r.e = "" THEN r.v ELSE 0, 0, IF r.e = "" /\ r.v < Small THEN "ErrCanonSize" ELSE r.e)

\* b is the first byte.
HeaderKind(s, b) ==
    IF b < StringTag THEN WithKind(s, "byte", 0, b, "")
    ELSE IF b <= LongStringTag THEN WithKind(s, "string", b - StringTag, 0, "")
    ELSE IF b < ListTag THEN Sized(readUint(s, b - LongStringTag), "string")
    ELSE IF b <= LongListTag THEN WithKind(s, "list", b - ListTag, 0, "")
    ELSE Sized(readUint(s, b - LongListTag), "list")
FirstByte(s, r) ==
    IF r.e # "" THEN WithKind(r.s, "byte", 0, 0, IF InAList(s) THEN r.e ELSE "EOF") ELSE HeaderKind(r.s, r.v[1])
readKind(s) == FirstByte(s, readFull(s, 1))

\* Kind reads a header once; its error stays until the next header is due.
Known(s) == [s |-> s, v |-> <<>>, e |-> s.kinderr]
Fitting(k) ==
    LET large == IF InAList(k) THEN k.size > Room(k) ELSE k.size > Len(k.buf)
    IN IF k.kinderr = "" /\ large THEN [k EXCEPT !.kinderr = "too large"] ELSE k
Kind(s) ==
    IF s.kind # "none" THEN Known(s)
    ELSE IF InAList(s) /\ Room(s) = 0 THEN Err([s EXCEPT !.kinderr = ""], "EOL")
    ELSE Known(Fitting(readKind(s)))

\* The bytes that k announces, without a byte that is its own encoding.
StringBytes(k) ==
    Then(readFull(k, k.size), LAMBDA t, v :
        IF k.size = 1 /\ v[1] < Single THEN Err(t, "ErrCanonSize") ELSE Okay(t, [b |-> v]))
Bytes(s) ==
    Then(Kind(s), LAMBDA k, none :
        CASE k.kind = "byte" -> Okay(rearm(k), [b |-> <<k.byteval>>])
          [] k.kind = "list" -> Err(k, "ErrExpectedString")
          [] k.kind = "string" -> StringBytes(k))

RawBytes(k) ==
    LET head == IF k.kind = "string" THEN puthead(StringTag, LongStringTag, k.size) ELSE puthead(ListTag, LongListTag, k.size)
    IN Then(readFull(k, k.size), LAMBDA t, v : Okay(t, [b |-> head \o v]))
Raw(s) ==
    Then(Kind(s), LAMBDA k, none :
        IF k.kind = "byte" THEN Okay(rearm(k), [b |-> <<k.byteval>>]) ELSE RawBytes(k))

UintBytes(k) ==
    Then(readUint(k, k.size), LAMBDA t, n :
        IF k.size > 0 /\ n < Single THEN Err(t, "ErrCanonSize") ELSE Okay(t, [n |-> n]))
uint(s, max) ==
    Then(Kind(s), LAMBDA k, none :
        CASE k.kind = "list" -> Err(k, "ErrExpectedString")
          [] k.kind = "byte" -> IF k.byteval = 0 THEN Err(k, "ErrCanonInt") ELSE Okay(rearm(k), [n |-> k.byteval])
          [] k.kind = "string" -> IF k.size > max THEN Err(k, "errUintOverflow") ELSE UintBytes(k))

List(s) ==
    Then(Kind(s), LAMBDA k, none :
        IF k.kind # "list" THEN Err(k, "ErrExpectedList")
        ELSE Okay([rearm(k) EXCEPT !.stack = Append(@, [pos |-> 0, size |-> k.size]), !.size = 0], k.size))

ListEnd(s) ==
    LET tos == Last(s.stack)
        up  == [rearm(s) EXCEPT !.stack = Front(@), !.size = 0]
    IN IF Room(s) # 0 THEN Err(s, "errNotAtEOL")
       ELSE Okay(IF InAList(up) THEN [up EXCEPT !.stack[Len(up.stack)].pos = @ + tos.size] ELSE up, <<>>)

-----------------------------------------------------------------------------
\* The decoders of types.
decodeBigInt(s) ==
    Then(Bytes(s), LAMBDA t, v :
        IF v.b # <<>> /\ v.b[1] = 0 THEN Err(t, "ErrCanonInt") ELSE Okay(t, [n |-> Number(v.b)]))

decodeBool(s) == Then(uint(s, 1), LAMBDA t, v : IF v.n > 1 THEN Err(t, "invalid boolean") ELSE Okay(t, v))

\* A zero in an array of one byte is taken, but the kind is not rearmed.
ArrayBytes(k, n) ==
    Then(readFull(k, n), LAMBDA t, v :
        IF n = 1 /\ v[1] < Single THEN Err(t, "ErrCanonSize") ELSE Okay(t, [b |-> v]))
decodeByteArray(s, n) ==
    Then(Kind(s), LAMBDA k, none :
        CASE k.kind = "list" -> Err(k, "ErrExpectedString")
          [] k.kind = "byte" ->
               IF n # 1 THEN Err(k, "length") ELSE Okay(IF k.byteval = 0 THEN k ELSE rearm(k), [b |-> <<k.byteval>>])
          [] k.kind = "string" -> IF k.size # n THEN Err(k, "length") ELSE ArrayBytes(k, n))

RECURSIVE Dec(_, _), decodeSliceElems(_, _, _), Fields(_, _, _)
SliceElem(r, T, acc) ==
    IF r.e = "EOL" THEN Okay(r.s, [l |-> acc])
    ELSE Then(r, LAMBDA t, v : decodeSliceElems(t, T, Append(acc, v)))
decodeSliceElems(s, T, acc) == SliceElem(Dec(s, T), T, acc)
Ended(r) == Then(r, LAMBDA t, v : Then(ListEnd(t), LAMBDA up, none : Okay(up, v)))
decodeListSlice(s, T) ==
    Then(List(s), LAMBDA t, size : Ended(IF size = 0 THEN Okay(t, [l |-> <<>>]) ELSE decodeSliceElems(t, T, <<>>)))
Field(r, types, acc) ==
    IF r.e = "EOL" THEN Err(r.s, "too few elements")
    ELSE Then(r, LAMBDA t, v : Fields(t, Tail(types), Append(acc, v)))
Fields(s, types, acc) ==
    IF types = <<>> THEN Okay(s, [l |-> acc]) ELSE Field(Dec(s, Head(types)), types, acc)
makeStructDecoder(s, fields) == Then(List(s), LAMBDA t, size : Ended(Fields(t, fields, <<>>)))
OptionalPtr(k, T) ==
    IF k.e # "" THEN Err(rearm(k.s), k.e)
    ELSE IF k.s.size = 0 /\ k.s.kind # "byte" THEN Okay(rearm(k.s), [nil |-> TRUE]) ELSE Dec(k.s, T)
makeOptionalPtrDecoder(s, T) == OptionalPtr(Kind(s), T)
decodeInterface(s, T) ==
    Then(Kind(s), LAMBDA k, none : IF k.kind = "list" THEN decodeListSlice(k, T) ELSE Bytes(k))
Dec(s, T) ==
    CASE T.t = "uint"   -> uint(s, T.max)
      [] T.t = "big"    -> decodeBigInt(s)
      [] T.t = "bool"   -> decodeBool(s)
      [] T.t = "bytes"  -> Bytes(s)
      [] T.t = "array"  -> decodeByteArray(s, T.len)
      [] T.t = "slice"  -> decodeListSlice(s, T.of)
      [] T.t = "tail"   -> decodeSliceElems(s, T.of, <<>>)
      [] T.t = "struct" -> makeStructDecoder(s, T.fields)
      [] T.t = "opt"    -> makeOptionalPtrDecoder(s, T.of)
      [] T.t = "any"    -> decodeInterface(s, T)

DecodeBytes(b, T) ==
    Then(Dec(Stream(b), T), LAMBDA t, v : IF t.buf # <<>> THEN Err(t, "ErrMoreThanOneValue") ELSE Okay(t, v))

-----------------------------------------------------------------------------
\* raw.go works on slices, without a Stream.

readSize(b, slen) ==
    LET s == Number(SubSeq(b, 1, slen))
    IN IF slen > Len(b) THEN -1 ELSE IF s < Small \/ b[1] = 0 THEN -1 ELSE s

\* The first value of a slice (Split and readKind of raw.go), or an error.
Split(b) ==
    LET t == b[1]
        Cut(kind, tag, size) ==
            IF size < 0 \/ size > Len(b) - tag THEN [kind |-> "error"]
            ELSE [kind |-> kind, content |-> SubSeq(b, tag + 1, tag + size), rest |-> SubSeq(b, tag + size + 1, Len(b))]
    IN IF b = <<>> THEN [kind |-> "error"]
       ELSE IF t < StringTag THEN Cut("byte", 0, 1)
       ELSE IF t <= LongStringTag
       THEN Cut("string", 1, IF t = StringTag + 1 /\ Len(b) > 1 /\ b[2] < Single THEN -1 ELSE t - StringTag)
       ELSE IF t < ListTag THEN Cut("string", t - LongStringTag + 1, readSize(Tail(b), t - LongStringTag))
       ELSE IF t <= LongListTag THEN Cut("list", 1, t - ListTag)
       ELSE Cut("list", t - LongListTag + 1, readSize(Tail(b), t - LongListTag))

RECURSIVE CountValues(_)
CountValues(b) ==
    IF b = <<>> THEN 0
    ELSE LET p == Split(b) IN IF p.kind = "error" THEN -1
                              ELSE LET n == CountValues(p.rest) IN IF n < 0 THEN -1 ELSE n + 1

-----------------------------------------------------------------------------
VARIABLE input
RlpInit == input = <<>>
RlpNext == Len(input) < MaxInput /\ \E d \in Symbol : input' = Append(input, d)
RlpSpec == RlpInit /\ [][RlpNext]_input

Uint == [t |-> "uint", max |-> 2]
Interface == [t |-> "any"]
CanonicalTypes == {Uint, [t |-> "big"], [t |-> "bool"], [t |-> "bytes"], [t |-> "array", len |-> 2], [t |-> "slice", of |-> Uint], Interface,
    [t |-> "struct", fields |-> <<Uint, [t |-> "bytes"]>>], [t |-> "struct", fields |-> <<[t |-> "bytes"], [t |-> "tail", of |-> Uint]>>],
    [t |-> "slice", of |-> [t |-> "struct", fields |-> <<[t |-> "big"]>>]]}

\* An input that DecodeBytes accepts is the encoding of what it returns: a
\* value has one encoding, so that a block or transaction received has the
\* hash under which it will be stored and asked for.
Canonical == \A T \in CanonicalTypes : LET r == DecodeBytes(input, T) IN r.e = "" => Encode(T, r.v) = input

\* What is encoded is decoded to itself.
RoundTrip ==
    input = <<>> => \A p \in GoValues : LET r == DecodeBytes(Encode(p.type, p.value), p.type) IN r.e = "" /\ r.v = p.value

\* Split and the Stream read the same: where Split finds a value, Raw returns
\* its bytes, and a list has as many elements as CountValues counts, which is
\* how decodeNode tells the kinds of trie nodes apart.
SplitAgrees ==
    /\ LET p == Split(input)
           r == Raw(Stream(input))
       IN p.kind # "error" => r.e = "" /\ r.s.buf = p.rest /\ r.v.b \o p.rest = input
    /\ LET r == DecodeBytes(input, Interface)
       IN r.e = "" /\ DOMAIN r.v = {"l"} => CountValues(Split(input).content) = Len(r.v.l)

\* Encoding and decoding are inverse to one another, and both readers agree.
CodecExact == Canonical /\ RoundTrip /\ SplitAgrees
=============================================================================
