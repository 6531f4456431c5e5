------------------------------ MODULE Metering ------------------------------
(***************************************************************************)
(* Memory and gas of one call: the middle of the interpreter's loop        *)
(* (core/vm/interpreter.go), memory.go, memory_table.go, common.go and the *)
(* gas functions of gas_table.go whose result depends on operands.         *)
(*                                                                         *)
(* Operands are words of the stack, which may be larger than a uint64.  A  *)
(* uint64 has the values 0 .. MaxUint and wraps around.  Prices are        *)
(* constants.                                                              *)
(***************************************************************************)
EXTENDS Integers, Sequences, FiniteSets, SequencesExt, FiniteSetsExt

CONSTANTS MaxUint,      \* math.MaxUint64
          WordSize,     \* 32
          MemLimit,     \* 0xffffffffe0: sizes above are refused
          AllButOne,    \* 64
          Price,        \* record of the prices in params
          Operand,      \* bound: the words on the stack
          InitialGas    \* bound: gas of the call

VARIABLES len,      \* len(mem.store)
          fee,      \* mem.lastGasCost
          gas,      \* contract.Gas
          halted,   \* the call has failed
          last,     \* history: how far the last operation was from what it should be
          paid      \* history: gas spent on memory in all
meterVars == <<len, fee, gas, halted, last, paid>>

Overflow  == -1
Wrap(n)   == n % (MaxUint + 1)

SafeAdd(x, y) == IF x = Overflow \/ y = Overflow \/ y > MaxUint - x THEN Overflow ELSE Wrap(x + y)
SafeMul(x, y) ==
    IF x = Overflow \/ y = Overflow THEN Overflow
    ELSE IF x = 0 \/ y = 0 THEN 0
    ELSE IF y > MaxUint \div x THEN Overflow ELSE Wrap(x * y)

bigUint64(v)  == IF v > MaxUint THEN Overflow ELSE v

toWordSize(size) ==
    IF size = Overflow THEN Overflow
    ELSE IF size > MaxUint - (WordSize - 1) THEN MaxUint \div WordSize + 1
    ELSE (size + WordSize - 1) \div WordSize

calcMemSize(off, l) == IF l = 0 THEN 0 ELSE off + l

-----------------------------------------------------------------------------
(* Which memory an operation asks for; b is Back, the stack from its top.  *)

\* "return" also stands for REVERT, "copy" for CALLDATACOPY, CODECOPY and
\* RETURNDATACOPY, "call" for CALLCODE and "delegatecall" for STATICCALL.
OneRegion == {"sha3", "return", "log"}
Calls     == {"call", "delegatecall"}
MemoryOps == OneRegion \cup Calls \cup {"copy", "extcodecopy", "mload", "mstore", "mstore8", "create"}

\* Mutant: the area for what a call returns is not considered.
memorySizeNoReturn(op, b) ==
    CASE op \in OneRegion  -> calcMemSize(b[0], b[1])
      [] op = "copy"       -> calcMemSize(b[0], b[2])
      [] op = "extcodecopy" -> calcMemSize(b[1], b[3])
      [] op \in {"mload", "mstore"} -> calcMemSize(b[0], WordSize)
      [] op = "mstore8"    -> calcMemSize(b[0], 1)
      [] op = "create"     -> calcMemSize(b[1], b[2])
      [] op = "call"       -> calcMemSize(b[3], b[4])
      [] op = "delegatecall" -> calcMemSize(b[2], b[3])

memorySize(op, b) ==
    CASE op \in OneRegion  -> calcMemSize(b[0], b[1])
      [] op = "copy"       -> calcMemSize(b[0], b[2])
      [] op = "extcodecopy" -> calcMemSize(b[1], b[3])
      [] op \in {"mload", "mstore"} -> calcMemSize(b[0], WordSize)
      [] op = "mstore8"    -> calcMemSize(b[0], 1)
      [] op = "create"     -> calcMemSize(b[1], b[2])
      [] op = "call"       -> Max({calcMemSize(b[5], b[6]), calcMemSize(b[3], b[4])})
      [] op = "delegatecall" -> Max({calcMemSize(b[4], b[5]), calcMemSize(b[2], b[3])})

\* The memory that the instruction reads and writes, by the order in which it
\* pops its operands.
Region(off, size) == [off |-> off, size |-> size]
Accesses(op, b) ==
    CASE op \in OneRegion -> {Region(b[0], b[1])}
      [] op = "copy"      -> {Region(b[0], b[2])}
      [] op = "extcodecopy" -> {Region(b[1], b[3])}
      [] op \in {"mload", "mstore"} -> {Region(b[0], WordSize)}
      [] op = "mstore8"   -> {Region(b[0], 1)}
      [] op = "create"    -> {Region(b[1], b[2])}
      [] op = "call" -> {Region(b[3], b[4]), Region(b[5], b[6])}
      [] op = "delegatecall" -> {Region(b[2], b[3]), Region(b[4], b[5])}

-----------------------------------------------------------------------------
(* Gas *)

TotalFee(words) == Wrap(words * Price.Memory) + Wrap(words * words) \div Price.QuadDiv

\* memoryGasCost and the lastGasCost it leaves.
memoryGasCost(size) ==
    LET words == toWordSize(size)
        total == Wrap(TotalFee(words))
    IN IF size = 0 THEN [cost |-> 0, fee |-> fee]
       ELSE IF size > MemLimit THEN [cost |-> Overflow, fee |-> fee]
       ELSE IF words * WordSize > len THEN [cost |-> Wrap(total - fee), fee |-> total]
       ELSE [cost |-> 0, fee |-> fee]

\* callGas.  When base exceeds what there is, the difference wraps around.
callGas(available, base, request) ==
    LET left == Wrap(available - base)
        most == left - left \div AllButOne
    IN IF request > MaxUint \/ most < request THEN most ELSE request

\* gasCallDataCopy, gasReturnDataCopy, gasCodeCopy and gasExtCodeCopy.
CopyCost(base, size) == SafeAdd(base, SafeMul(toWordSize(bigUint64(size)), Price.Copy))

\* makeGasLog(0); gasSha3; gasCreate, gasMLoad and the others.
gasCost(op, b, memory) ==
    CASE op = "copy"          -> CopyCost(SafeAdd(memory, Price.Fastest), b[2])
      [] op = "extcodecopy"   -> CopyCost(SafeAdd(memory, Price.ExtcodeCopy), b[3])
      [] op = "log"           -> SafeAdd(SafeAdd(memory, Price.Log), SafeMul(bigUint64(b[1]), Price.LogData))
      [] op = "sha3"          -> SafeAdd(SafeAdd(memory, Price.Sha3),
                                         SafeMul(toWordSize(bigUint64(b[1])), Price.Sha3Word))
      [] op = "return" -> memory
      [] op \in {"mload", "mstore", "mstore8"} -> SafeAdd(memory, Price.Fastest)
      [] op = "create"        -> SafeAdd(memory, Price.Create)
      [] op \in Calls         -> SafeAdd(memory, Price.Calls)

\* What the callee gets, for the calls.
CallTemp(op, b, base) == IF op \in Calls /\ base # Overflow THEN callGas(gas, base, b[0]) ELSE 0

-----------------------------------------------------------------------------
NoFault == [beyond |-> 0, wrong |-> 0, over |-> 0]

MeterInit ==
    /\ len = 0
    /\ fee = 0
    /\ gas = InitialGas
    /\ halted = FALSE
    /\ last = NoFault
    /\ paid = 0

\* What the operation should cost, over the integers.
ExactFee(n)       == LET w == (n + WordSize - 1) \div WordSize IN w * Price.Memory + (w * w) \div Price.QuadDiv
ExactCost(op, b) ==
    LET size   == memorySize(op, b)
        Up(n)  == (n + WordSize - 1) \div WordSize
        memory == IF Up(size) * WordSize > len THEN ExactFee(size) - ExactFee(len) ELSE 0
    IN memory + CASE op = "copy"         -> Price.Fastest + Up(b[2]) * Price.Copy
                  [] op = "extcodecopy"  -> Price.ExtcodeCopy + Up(b[3]) * Price.Copy
                  [] op = "log"          -> Price.Log + b[1] * Price.LogData
                  [] op = "sha3"         -> Price.Sha3 + Up(b[1]) * Price.Sha3Word
                  [] op = "return" -> 0
                  [] op \in {"mload", "mstore", "mstore8"} -> Price.Fastest
                  [] op = "create"       -> Price.Create
                  [] op \in Calls        -> Price.Calls

\* One round of the loop: the size, its cost, the payment, the resizing, the
\* instruction.  RETURNDATACOPY may fail after all this.
MeterStep(op, b) ==
    LET size   == SafeMul(toWordSize(bigUint64(memorySize(op, b))), WordSize)
        memory == memoryGasCost(size)
        base   == IF size = Overflow THEN Overflow ELSE gasCost(op, b, memory.cost)
        temp   == CallTemp(op, b, base)
        cost   == SafeAdd(base, temp)
    IN /\ ~ halted
       /\ IF cost = Overflow \/ gas < cost
          THEN halted' = TRUE /\ last' = NoFault /\ UNCHANGED <<len, fee, gas, paid>>
          ELSE /\ gas' = gas - cost
               /\ fee' = memory.fee
               /\ len' = IF size > len THEN size ELSE len
               /\ paid' = paid + memory.cost
               /\ last' = [beyond |-> Max({calcMemSize(r.off, r.size) - len' : r \in Accesses(op, b)} \cup {0}),
                           wrong  |-> base - ExactCost(op, b),
                           over   |-> Max({temp - ((gas - base) - (gas - base) \div AllButOne), 0})]
               /\ UNCHANGED halted

\* The operands that an operation has.
Operands(op) ==
    CASE op \in OneRegion -> {0, 1} [] op = "copy" -> {0, 2} [] op = "extcodecopy" -> {1, 3}
      [] op \in {"mload", "mstore", "mstore8"} -> {0} [] op = "create" -> {1, 2}
      [] op = "call" -> {0} \cup 3 .. 6 [] op = "delegatecall" -> {0} \cup 2 .. 5

MeterNext == \E op \in MemoryOps : \E b \in [Operands(op) -> Operand] : MeterStep(op, b)

-----------------------------------------------------------------------------
(* Properties *)

\* No access of an instruction ends beyond the memory that the interpreter has
\* made for it, whatever the operands: Set and Get never slice out of range.
AccessInBounds == last.beyond = 0

\* However memory was expanded, in one step or in many, the gas spent on it is
\* the price of its size, and lastGasCost says so.
MemoryPaidOnce == ~ halted => paid = ExactFee(len) /\ fee = paid

\* A cost that is charged is the exact one: where a sum, a product or the
\* conversion of an operand exceeds 64 bits the call fails instead.
CostExact == last.wrong = 0

\* A call never gets more than all but one part of what is left after its own
\* cost, although callGas subtracts before anything has been compared.
CalleeGasCovered == last.over = 0

\* What an instruction uses has been paid for exactly: its memory, whatever
\* the order of expansions, its operands at any size, and the gas of a call.
MeteringExact == AccessInBounds /\ MemoryPaidOnce /\ CostExact /\ CalleeGasCovered
=============================================================================
