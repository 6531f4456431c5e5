------------------------------ MODULE Opcodes ------------------------------
(***************************************************************************)
(* The jump table of core/vm/jump_table.go (the Byzantium set, which the   *)
(* interpreter takes) beside the instructions of instructions.go, as far   *)
(* as the stack and the pool of big integers go.                           *)
(*                                                                         *)
(* The interpreter checks the stack once, by the table.  After that the    *)
(* gas and memory functions read the stack at fixed places and the         *)
(* instruction pops and pushes without a check.  A popped integer that is  *)
(* returned to the pool is used again for the next result, so it must not  *)
(* be on the stack, or twice in the pool.  An integer is a cell here, with *)
(* an identity and no value; the values come after it.                     *)
(***************************************************************************)
EXTENDS Integers, Sequences, FiniteSets, SequencesExt, FiniteSetsExt, Bitwise

CONSTANTS StackLimit,
          PoolLimit

Operation(pops, pushes) == [pops |-> pops, pushes |-> pushes, flags |-> {}, back |-> {}]

\* With flags among halts, jumps, writes, reverts and returns.
Flagged(operation, flags) == [operation EXCEPT !.flags = flags]

\* With the places Back(k) that gasCost, memorySize and enforceRestrictions read.
Reads(operation, back) == [operation EXCEPT !.back = back]

Const(S, operation) == [op \in S |-> operation]

-----------------------------------------------------------------------------
(* The table, by the ranges of opcodes.go *)

Arithmetic ==
    (0 :> Flagged(Operation(0, 0), {"halts"})) @@ Const({8, 9}, Operation(3, 1))
        @@ (10 :> Reads(Operation(2, 1), {1})) @@ Const(1 .. 11, Operation(2, 1))

Comparison == Const({21, 25}, Operation(1, 1)) @@ Const(16 .. 26, Operation(2, 1))

Sha3 == 32 :> Reads(Operation(2, 1), {0, 1})

Environment ==
    Const({49, 53, 59}, Operation(1, 1)) @@ Const({55, 57}, Reads(Operation(3, 0), {0, 2}))
        @@ (60 :> Reads(Operation(4, 0), {1, 3})) @@ Const(48 .. 60, Operation(0, 1))

BlockOps == (64 :> Operation(1, 1)) @@ Const(65 .. 69, Operation(0, 1))

\* POP, MLOAD, MSTORE and MSTORE8, SLOAD, SSTORE, JUMP, JUMPI, PC, MSIZE and
\* GAS, JUMPDEST.
StorageOps ==
    (80 :> Operation(1, 0)) @@ (81 :> Reads(Operation(1, 1), {0}))
        @@ Const({82, 83}, Reads(Operation(2, 0), {0})) @@ (84 :> Operation(1, 1))
        @@ (85 :> Flagged(Reads(Operation(2, 0), {0, 1}), {"writes"}))
        @@ (86 :> Flagged(Operation(1, 0), {"jumps"})) @@ (87 :> Flagged(Operation(2, 0), {"jumps"}))
        @@ Const(88 .. 90, Operation(0, 1)) @@ (91 :> Operation(0, 0))

PushOps1 == Const(96 .. 111, Operation(0, 1))
PushOps2 == Const(112 .. 127, Operation(0, 1))

\* makeDupStackFunc(n) and makeSwapStackFunc(n + 1).
DupOps  == [op \in 128 .. 143 |-> Operation(op - 127, op - 126)]
SwapOps == [op \in 144 .. 159 |-> Operation(op - 142, op - 142)]
LogOps  == [op \in 160 .. 164 |-> Flagged(Reads(Operation(2 + op - 160, 0), {0, 1}), {"writes"})]

\* CREATE, CALL, CALLCODE, RETURN, SELFDESTRUCT.
Closures ==
    (240 :> Flagged(Reads(Operation(3, 1), {1, 2}), {"writes", "returns"}))
        @@ (241 :> Flagged(Reads(Operation(7, 1), 0 .. 6), {"returns"}))
        @@ (242 :> Flagged(Reads(Operation(7, 1), {0} \cup 2 .. 6), {"returns"}))
        @@ (243 :> Flagged(Reads(Operation(2, 0), {0, 1}), {"halts"}))
        @@ (255 :> Flagged(Reads(Operation(1, 0), {0}), {"halts", "writes"}))

Homestead == 244 :> Flagged(Reads(Operation(6, 1), {0} \cup 2 .. 5), {"returns"})

\* STATICCALL, RETURNDATASIZE, RETURNDATACOPY, REVERT.
Byzantium ==
    (250 :> Flagged(Reads(Operation(6, 1), {0} \cup 2 .. 5), {"returns"}))
        @@ (61 :> Operation(0, 1)) @@ (62 :> Reads(Operation(3, 0), {0, 2}))
        @@ (253 :> Flagged(Reads(Operation(2, 0), {0, 1}), {"reverts", "returns"}))

InstructionSet ==
    Arithmetic @@ Comparison @@ Sha3 @@ Environment @@ BlockOps @@ StorageOps @@ PushOps1 @@ PushOps2
        @@ DupOps @@ SwapOps @@ LogOps @@ Closures @@ Homestead @@ Byzantium

\* makeStackFunc, makeDupStackFunc and makeSwapStackFunc.
validateStack(op, len) ==
    LET operation == InstructionSet[op]
    IN /\ len >= operation.pops
       /\ len + operation.pushes - operation.pops <= StackLimit

-----------------------------------------------------------------------------
(* The instructions: how many cells they pop, where the result goes, and   *)
(* which of the popped cells (1 was the top) return to the pool before and *)
(* after the result is made.  got is a cell taken for use in between.      *)

Shape(pops, result, put) == [pops |-> pops, result |-> result, first |-> {}, got |-> 0, put |-> put]

Keeps(i)  == [from |-> "popped", index |-> i]   \* peek, or push of a popped cell
Got       == [from |-> "pool", index |-> 0]     \* intPool.get or getZero
Fresh     == [from |-> "new", index |-> 0]
Nothing   == [from |-> "none", index |-> 0]

\* opMul, opMod, opAnd, opSdiv, opSmod, opExp, opSignExtend, opAddmod and
\* opMulmod; the others work on the second cell and return the first.
\* SIGNEXTEND pops the number only to push it again.
ArithmeticShape ==
    (0 :> Shape(0, Nothing, {})) @@ Const({2, 6, 22}, Shape(2, Keeps(1), {2}))
        @@ Const({5, 7}, Shape(2, Got, {1, 2})) @@ Const({8, 9}, Shape(3, Keeps(1), {2, 3}))
        @@ (10 :> Shape(2, Fresh, {1, 2}))
        @@ Const({21, 25}, Shape(1, Keeps(1), {}))
        @@ Const((1 .. 11) \cup (16 .. 26), Shape(2, Keeps(2), {1}))

\* opSha3; opBalance and opExtCodeSize; opCallDataLoad; the copies.
EnvironmentShape ==
    (32 :> Shape(2, Got, {1, 2})) @@ Const({49, 59}, Shape(1, Keeps(1), {}))
        @@ (53 :> Shape(1, Got, {}))
        @@ Const({55, 57}, Shape(3, Nothing, {1, 2, 3})) @@ (60 :> Shape(4, Nothing, {2, 3, 4}))
        @@ (62 :> [Shape(3, Nothing, {1, 2, 3}) EXCEPT !.got = 1])
        @@ Const({48, 50, 51}, Shape(0, Fresh, {})) @@ Const(48 .. 61, Shape(0, Got, {}))

\* opBlockhash, opCoinbase and the rest of the block.
BlockShape ==
    (64 :> [Shape(1, Got, {1}) EXCEPT !.got = 1]) @@ (65 :> Shape(0, Fresh, {}))
        @@ Const(66 .. 69, Shape(0, Got, {}))

StorageShape ==
    (80 :> Shape(1, Nothing, {1})) @@ (81 :> Shape(1, Got, {1})) @@ (82 :> Shape(2, Nothing, {1, 2}))
        @@ (83 :> Shape(2, Nothing, {})) @@ (84 :> Shape(1, Fresh, {})) @@ (85 :> Shape(2, Nothing, {2}))
        @@ (86 :> Shape(1, Nothing, {1})) @@ (87 :> Shape(2, Nothing, {1, 2}))
        @@ Const(88 .. 90, Shape(0, Got, {})) @@ (91 :> Shape(0, Nothing, {}))

PushShape == Const(96 .. 127, Shape(0, Got, {}))
DupShape  == Const(128 .. 143, Shape(0, Got, {}))
LogShape  == [op \in 160 .. 164 |-> Shape(2 + op - 160, Nothing, {1, 2})]

\* The gas of a call is returned to the pool at once.
CallShape ==
    Const({241, 242}, [Shape(7, Got, 2 .. 7) EXCEPT !.first = {1}])
        @@ Const({244, 250}, [Shape(6, Got, 2 .. 6) EXCEPT !.first = {1}])

\* Mutant: the address of a new contract is put into a cell of the pool, and
\* the cells that were popped are put there first.
CreateShapeEarly == 240 :> [Shape(3, Keeps(3), {}) EXCEPT !.first = {1, 2, 3}]

\* opCreate: the result is zero from the pool, or the new address.
CreateShape == 240 :> Shape(3, Got, {1, 2, 3})

\* opReturn and opRevert, opSuicide.
EndShape == Const({243, 253}, Shape(2, Nothing, {1, 2})) @@ (255 :> Shape(1, Nothing, {}))

Instruction ==
    ArithmeticShape @@ EnvironmentShape @@ BlockShape @@ StorageShape @@ PushShape @@ DupShape @@ LogShape
        @@ CallShape @@ CreateShape @@ EndShape

IsSwap(op) == op \in 144 .. 159

\* The depth that an instruction reaches, without a check of its own.
Reach(op) ==
    IF op \in 128 .. 143 THEN op - 127 ELSE IF IsSwap(op) THEN op - 142 ELSE Instruction[op].pops

-----------------------------------------------------------------------------
(* Execution on cells: the stack and the pool have their tops at the end.  *)

\* intPool.get: a cell of the pool, or a new one.
Pool(s) == IF s.pool = <<>> THEN [cell |-> s.fresh, rest |-> [s EXCEPT !.fresh = @ + 1]]
                            ELSE [cell |-> Last(s.pool), rest |-> [s EXCEPT !.pool = Front(@)]]

\* intPool.put: the limit is looked at once for all the cells.
put(s, cells) == IF Len(s.pool) > PoolLimit THEN s ELSE [s EXCEPT !.pool = @ \o cells]

\* stack.swap
Swapped(stack, n) ==
    LET len == Len(stack) IN [stack EXCEPT ![len] = stack[len - n + 1], ![len - n + 1] = stack[len]]

\* [cell, rest]: the cell of the result, and the state without it.
Result(s, from, popped, index) ==
    CASE from = "popped" -> [cell |-> popped[index], rest |-> s]
      [] from = "new"    -> [cell |-> s.fresh, rest |-> [s EXCEPT !.fresh = @ + 1]]
      [] from = "pool"   -> Pool(s)
      [] from = "none"   -> [cell |-> 0, rest |-> s]
Pushed(r, from) == IF from = "none" THEN r.rest ELSE [r.rest EXCEPT !.stack = Append(@, r.cell)]

\* got is the cell taken in between, and the state after that.
Finish(got, shape, popped, Picked(_)) ==
    put(Pushed(Result(got.rest, shape.result.from, popped, shape.result.index), shape.result.from),
        Picked(shape.put) \o (IF shape.got = 1 THEN <<got.cell>> ELSE <<>>))
Run(s, shape, popped) ==
    LET Picked(I) == [i \in 1 .. Cardinality(I) |-> popped[SetToSortSeq(I, <)[i]]]
        s1 == put([s EXCEPT !.stack = SubSeq(@, 1, Len(s.stack) - shape.pops)], Picked(shape.first))
    IN Finish(IF shape.got = 1 THEN Pool(s1) ELSE [cell |-> 0, rest |-> s1], shape, popped, Picked)
Perform(s, shape) == Run(s, shape, [i \in 1 .. shape.pops |-> s.stack[Len(s.stack) + 1 - i]])
execute(s, op) == IF IsSwap(op) THEN [s EXCEPT !.stack = Swapped(@, op - 142)] ELSE Perform(s, Instruction[op])
-----------------------------------------------------------------------------
VARIABLES cells,   \* the stack, the pool and the number of the next new cell
          op       \* the instruction executed, or -1

\* Any stack and any pool, with cells that are all different.
OpcodesInit ==
    /\ \E d \in 0 .. StackLimit, p \in 0 .. PoolLimit + 1 :
          cells = [stack |-> [i \in 1 .. d |-> i], pool |-> [i \in 1 .. p |-> d + i], fresh |-> d + p + 1]
    /\ op = -1

OpcodesStep(o) ==
    /\ op = -1
    /\ validateStack(o, Len(cells.stack))
    /\ cells' = execute(cells, o)
    /\ op' = o

\* No integer is at two places of the stack, twice in the pool, or in both, so
\* none is overwritten while it is in use; and the pool stays within its limit
\* but for the operands of one instruction.
CellsDistinct ==
    LET all == cells.stack \o cells.pool
    IN IsInjective(all) /\ Len(cells.pool) <= PoolLimit + 7

\* What the table checks is enough: no instruction reaches, and no gas or
\* memory function reads, below the bottom of the stack; the stack grows by
\* what the table says, within its limit; and what changes the state is marked.
TableAdequate ==
    /\ Len(cells.stack) <= StackLimit
    /\ op = -1 =>
          \A o \in DOMAIN InstructionSet : validateStack(o, Len(cells.stack)) =>
              /\ Reach(o) <= Len(cells.stack)
              /\ \A k \in InstructionSet[o].back : k < Len(cells.stack)
              /\ Len(execute(cells, o).stack)
                    = Len(cells.stack) + InstructionSet[o].pushes - InstructionSet[o].pops
    /\ \A o \in {85, 240, 255} \cup 160 .. 164 : "writes" \in InstructionSet[o].flags

\* An instruction the table lets run finds its operands, leaves the stack in
\* its limit, and leaves no integer shared between stack and pool.
StackSound == CellsDistinct /\ TableAdequate

(***************************************************************************)
(* The arithmetic of the machine: what the instructions leave on the       *)
(* stack, with the helpers of common/math/big.go.  x is the top of the     *)
(* stack, y and z are below it.                                            *)
(*                                                                         *)
(* A word has WordBytes bytes of ByteBits bits: 32 and 8 in the code,      *)
(* where the literals 31, 255 and 256 follow from them.                    *)
(***************************************************************************)

CONSTANTS ByteBits, WordBytes,
          LimbBytes   \* bytes of a big.Word, in which big integers are stored

WordBits == ByteBits * WordBytes
Modulus  == 2 ^ WordBits
Words    == 0 .. Modulus - 1

U256(x) == x % Modulus
S256(x) == IF x < Modulus \div 2 THEN x ELSE x - Modulus

Absolute(a) == IF a < 0 THEN -a ELSE a
Truth(b)    == IF b THEN 1 ELSE 0
BitAt(x, i) == (x \div 2 ^ i) % 2

opAdd(x, y) == U256(x + y)
opSub(x, y) == U256(x - y)
opMul(x, y) == U256(x * y)
opDiv(x, y) == IF y # 0 THEN U256(x \div y) ELSE 0
opMod(x, y) == IF y = 0 THEN 0 ELSE U256(x % y)

opSdiv(x, y) ==
    LET a == S256(x)
        b == S256(y)
        q == Absolute(a) \div Absolute(b)
    IN IF b = 0 \/ a = 0 THEN 0
       ELSE U256(IF (a < 0) # (b < 0) THEN -q ELSE q)

\* Mutant: the sign follows the divisor.
opSmodDivisor(x, y) ==
    LET a == S256(x)
        b == S256(y)
        r == Absolute(a) % Absolute(b)
    IN IF b = 0 THEN 0 ELSE U256(IF b < 0 THEN -r ELSE r)

opSmod(x, y) ==
    LET a == S256(x)
        b == S256(y)
        r == Absolute(a) % Absolute(b)
    IN IF b = 0 THEN 0 ELSE U256(IF a < 0 THEN -r ELSE r)

\* math.Exp: one round for every bit of the limbs of the exponent, the lowest
\* first, with the base squared in each.
Exp(base, exponent) ==
    LET limbBits == LimbBytes * ByteBits
        limbs    == CHOOSE n \in 0 .. WordBytes : /\ exponent < 2 ^ (n * limbBits)
                                                  /\ n > 0 => exponent >= 2 ^ ((n - 1) * limbBits)
        Round(s, i) == [result |-> IF BitAt(exponent, i) = 1 THEN U256(s.result * s.base) ELSE s.result,
                        base   |-> U256(s.base * s.base)]
    IN FoldLeft(Round, [result |-> 1, base |-> base], [i \in 1 .. limbs * limbBits |-> i - 1]).result

opExp(x, y) == Exp(x, y)

opSignExtend(back, num) ==
    LET bit  == back * ByteBits + ByteBits - 1
        mask == 2 ^ bit - 1
    IN IF back < WordBytes - 1
       THEN IF BitAt(num, bit) > 0 THEN num | U256(-mask - 1) ELSE num & mask
       ELSE num

opNot(x)    == U256(-x - 1)
opLt(x, y)  == Truth(x < y)
opGt(x, y)  == Truth(x > y)
opEq(x, y)  == Truth(x = y)
opIszero(x) == Truth(~ x > 0)

\* The signs are those of a comparison with 2^255.
opSlt(x, y) ==
    LET xNeg == x >= Modulus \div 2
        yNeg == y >= Modulus \div 2
    IN IF xNeg # yNeg THEN Truth(xNeg) ELSE Truth(x < y)

opSgt(x, y) ==
    LET xNeg == x >= Modulus \div 2
        yNeg == y >= Modulus \div 2
    IN IF xNeg # yNeg THEN Truth(yNeg) ELSE Truth(x > y)

opAnd(x, y) == x & y
opOr(x, y)  == x | y
opXor(x, y) == x ^^ y

\* bigEndianByteAt: the limb, and the byte within it.
ByteAt(x, n) ==
    LET limb == (x \div 2 ^ (ByteBits * LimbBytes * (n \div LimbBytes))) % 2 ^ (ByteBits * LimbBytes)
    IN (limb \div 2 ^ (ByteBits * (n % LimbBytes))) % 2 ^ ByteBits

opByte(th, val) == IF th < WordBytes THEN ByteAt(val, WordBytes - 1 - th) ELSE 0

\* The intermediate sum and product are not truncated.
opAddmod(x, y, z) == IF z > 0 THEN U256((x + y) % z) ELSE 0
opMulmod(x, y, z) == IF z > 0 THEN U256((x * y) % z) ELSE 0

\* Defined, though not in the instruction set that the interpreter takes.
opSHL(shift, value) == IF shift >= WordBits THEN 0 ELSE U256(value * 2 ^ shift)
opSHR(shift, value) == IF shift >= WordBits THEN 0 ELSE U256(value \div 2 ^ shift)

\* Rsh of a negative integer rounds down, as \div does.
opSAR(shift, value) ==
    LET v == S256(value)
    IN IF shift >= WordBits THEN (IF v > 0 THEN 0 ELSE U256(-1))
       ELSE U256(v \div 2 ^ shift)

\* PaddedBigBytes and ReadBits: big-endian, limb by limb from the lowest.
PaddedBigBytes(x, n) == [i \in 1 .. n |-> ByteAt(x, n - i)]

-----------------------------------------------------------------------------
(* What the instructions should compute, over the integers *)

VARIABLE operands   \* the two words on top of the stack

WordsInit == operands \in Words \X Words

\* The integers a with x = a mod 2^256 of each sign, and truncated division.
Signed(x)       == CHOOSE a \in -(Modulus \div 2) .. Modulus \div 2 - 1 : (a - x) % Modulus = 0
Quotient(a, b)  == CHOOSE q \in -Modulus .. Modulus :
                      /\ Absolute(q * b) <= Absolute(a)
                      /\ Absolute(a) - Absolute(q * b) < Absolute(b)
                      /\ q # 0 => (q > 0) = ((a > 0) = (b > 0))
PowerMod(x, n)  == LET p[i \in Nat] == IF i = 0 THEN 1 ELSE (p[i - 1] * x) % Modulus IN p[n]
ByteOf(x, i)    == PaddedBigBytes(x, WordBytes)[i + 1]

\* Division, remainder and comparison of signed words, powers, the extension
\* of a sign, and the choice of a byte agree with integers, for every pair of
\* words: the extremes, the most negative word divided by -1 among them.
ArithmeticExact ==
    operands # <<>> =>
    LET x == operands[1]
        y == operands[2]
        a == Signed(x)
        b == Signed(y)
    IN /\ opSdiv(x, y) = (IF b = 0 THEN 0 ELSE Quotient(a, b) % Modulus)
       /\ opSmod(x, y) = (IF b = 0 THEN 0 ELSE (a - b * Quotient(a, b)) % Modulus)
       /\ opDiv(x, y) * y + opMod(x, y) = (IF y = 0 THEN 0 ELSE x)
       /\ opSlt(x, y) = Truth(a < b) /\ opSgt(x, y) = Truth(a > b)
       /\ opExp(x, y) = PowerMod(x, y)
       /\ opAdd(opSub(x, y), y) = x
       /\ opXor(opAnd(x, y), opOr(x, y)) = opXor(x, y)
       /\ opAdd(opAnd(x, y), opOr(x, y)) = opAdd(x, y)
       /\ opNot(x) = opSub(opMul(Modulus - 1, x), 1)
       /\ opIszero(opSub(x, y)) = opEq(x, y)
       /\ opLt(x, y) + opGt(x, y) + opEq(x, y) = 1
       /\ \A z \in Words : z # 0 =>
             /\ opAddmod(x, y, z) = ((x % z) + (y % z)) % z
             /\ opMulmod(x, y, z) = ((x % z) * (y % z)) % z

\* What SIGNEXTEND keeps has the value that its lower bytes have when they are
\* signed; BYTE counts from the highest; shifts are products and quotients.
BytesExact ==
    operands # <<>> =>
    LET x    == operands[1]
        y    == operands[2]
        kept == 2 ^ (ByteBits * (x + 1))
        low  == y % kept
    IN /\ opSignExtend(x, y) = (IF x >= WordBytes THEN y
                                ELSE (IF low < kept \div 2 THEN low ELSE low - kept) % Modulus)
       /\ opByte(x, y) = (IF x < WordBytes THEN ByteOf(y, x) ELSE 0)
       /\ opSHL(x, y) = (IF x < WordBits THEN opMul(y, 2 ^ x) ELSE 0)
       /\ opSHR(x, y) = (IF x < WordBits THEN opDiv(y, 2 ^ x) ELSE 0)
       /\ y # 0 \/ x < WordBits =>
             opSAR(x, y) = (IF x < WordBits THEN Signed(y) \div 2 ^ x
                            ELSE IF Signed(y) < 0 THEN -1 ELSE 0) % Modulus

\* Every instruction on words computes what the integers and the bytes say.
WordsExact == ArithmeticExact /\ BytesExact
=============================================================================
