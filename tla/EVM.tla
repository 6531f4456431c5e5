-------------------------------- MODULE EVM --------------------------------
(***************************************************************************)
(* The virtual machine's calls: core/vm/evm.go, the loop of interpreter.go *)
(* and the instructions of instructions.go that change the state, with the *)
(* gas of gas_table.go, on the state database of module StateDB.           *)
(*                                                                         *)
(* Any account with code may execute any instruction at any time, so every *)
(* program is covered.  A step is one instruction of the innermost frame.  *)
(* What an instruction does to the stack is in module Opcodes; memory      *)
(* costs, which depend on values, are in module Metering.  An              *)
(* error of any kind (invalid opcode or jump, stack, out of gas, write     *)
(* protection) ends the frame in the same way, by Error.                   *)
(***************************************************************************)
EXTENDS StateDB

CONSTANTS Precompile,            \* PrecompiledContractsByzantium
          CreateAddress(_, _),   \* crypto.CreateAddress of an account and a nonce
          CallCreateDepth,
          AllButOne,             \* a call gets gas - gas / AllButOne; 64 in the code
          MaxCodeSize,
          Gas                    \* the gas of the instructions modelled, a record

VARIABLES db,         \* evm.StateDB
          frames,     \* the contracts whose Run has not returned, outermost first
          readOnly,   \* interpreter.readOnly
          result,     \* the error of a call or create that has just returned
          leftOver    \* the gas that the outermost one returned
evmVars == <<db, frames, readOnly, result, leftOver>>

Depth == Len(frames)
Top   == frames[Depth]

Transfer(s, from, to, value) == AddBalance(SubBalance(s, from, value), to, value)

\* NewContract, AsDelegate: contract.Address() is the caller's in CallCode and
\* DelegateCall.
Frame(kind, self, gas, snapshot, setsReadOnly) ==
    [kind |-> kind, self |-> self, gas |-> gas, snapshot |-> snapshot, setsReadOnly |-> setsReadOnly]

\* The caller goes on with the gas that was left and the outcome on its stack;
\* the gas of the outermost call goes to the state transition.
Resume(below, gas, s, err) ==
    /\ db' = s
    /\ frames' = IF below = <<>> THEN <<>> ELSE [below EXCEPT ![Len(below)].gas = @ + gas]
    /\ result' = err
    /\ leftOver' = IF below = <<>> THEN gas ELSE leftOver

\* run: a precompiled contract, an account without code, or the interpreter.
Run(frame, addr, code, below, s) ==
    IF addr \in Precompile /\ frame.kind # "create"
    THEN /\ \/ /\ frame.gas >= Gas.Precompiled
               /\ Resume(below, frame.gas - Gas.Precompiled, s, "nil")
            \/ Resume(below, 0, RevertToSnapshot(s, frame.snapshot), "error")
         /\ UNCHANGED readOnly
    ELSE IF code = 0 /\ frame.kind # "create"
    THEN Resume(below, frame.gas, s, "nil") /\ UNCHANGED readOnly
    ELSE /\ frames' = Append(below, frame)
         /\ readOnly' = (readOnly \/ frame.setsReadOnly)
         /\ db' = s
         /\ result' = "none"
         /\ UNCHANGED leftOver

CannotTransfer(kind, from, value) ==
    kind \in {"call", "callcode", "create"} /\ GetBalance(db, from) < value

\* Call, CallCode, DelegateCall and StaticCall.
Invoke(kind, from, addr, value, gas, below) ==
    IF Len(below) > CallCreateDepth \/ CannotTransfer(kind, from, value)
    THEN Resume(below, gas, db, IF Len(below) > CallCreateDepth THEN "depth" ELSE "balance")
         /\ UNCHANGED readOnly
    ELSE LET id     == db.nextRevisionID
             s      == Snapshot(db)
             absent == kind = "call" /\ ~ Exist(s, addr)
             moved  == IF kind = "call"
                       THEN Transfer(IF absent THEN CreateAccount(s, addr) ELSE s, from, addr, value)
                       ELSE s
             self   == IF kind \in {"call", "staticcall"} THEN addr ELSE from
         IN IF absent /\ addr \notin Precompile /\ value = 0
            THEN Resume(below, gas, s, "nil") /\ UNCHANGED readOnly
            ELSE Run(Frame(kind, self, gas, id, kind = "staticcall" /\ ~ readOnly),
                     addr, GetCode(moved, addr), below, moved)

\* The nonce is raised before the snapshot is taken, and stays raised.
Create(from, value, gas, below) ==
    IF Len(below) > CallCreateDepth \/ CannotTransfer("create", from, value)
    THEN Resume(below, gas, db, IF Len(below) > CallCreateDepth THEN "depth" ELSE "balance")
         /\ UNCHANGED readOnly
    ELSE LET nonce  == GetNonce(db, from)
             raised == SetField(db, from, "nonce", nonce + 1)
             addr   == CreateAddress(from, nonce)
             id     == raised.nextRevisionID
             fresh  == SetField(CreateAccount(Snapshot(raised), addr), addr, "nonce", 1)
         IN IF GetNonce(raised, addr) # 0 \/ GetCode(raised, addr) # 0
            THEN Resume(below, 0, raised, "collision") /\ UNCHANGED readOnly
            ELSE Run(Frame("create", addr, gas, id, FALSE), addr, 1, below,
                     Transfer(fresh, from, addr, value))

-----------------------------------------------------------------------------
(* The end of a frame *)

\* The deferred reset of readOnly.
Leave(gas, s, err) ==
    /\ Resume(Front(frames), gas, s, err)
    /\ readOnly' = (readOnly /\ ~ Top.setsReadOnly)

\* Mutant: what an exception has left behind stays.
ErrorKept == Leave(0, db, "error")

Error == Leave(0, RevertToSnapshot(db, Top.snapshot), "error")

Revert == Leave(Top.gas, RevertToSnapshot(db, Top.snapshot), "reverted")

\* RETURN, STOP and the end of the code with size bytes of output, in state s
\* with the gas left.  Create stores the output as code; when the gas does not
\* suffice for that, it keeps the state and the gas.
Halt(s, gas, size) ==
    IF Top.kind # "create" THEN Leave(gas, s, "nil")
    ELSE IF size > MaxCodeSize THEN Leave(0, RevertToSnapshot(s, Top.snapshot), "error")
    ELSE IF gas >= size * Gas.CreateData
    THEN Leave(gas - size * Gas.CreateData, SetCode(s, Top.self, size), "nil")
    ELSE Leave(gas, s, "codestore")

-----------------------------------------------------------------------------
(* Instructions.  An instruction that writes is not reached in read-only   *)
(* mode (enforceRestrictions).                                             *)

Continue(s, gas) ==
    /\ Top.gas >= gas
    /\ db' = s
    /\ frames' = [frames EXCEPT ![Depth].gas = @ - gas]
    /\ result' = "none"
    /\ UNCHANGED <<readOnly, leftOver>>

MayWrite == ~ readOnly

\* Any instruction without effect outside of its frame.
Compute == Continue(db, Gas.Step)

Log == MayWrite /\ Continue(AddLog(db), Gas.Log)

Sstore(k, v) ==
    LET old   == GetState(db, Top.self, k)
        clear == old # 0 /\ v = 0
        s     == IF clear THEN AddRefund(db, Gas.SstoreRefund) ELSE db
    IN /\ MayWrite
       /\ Continue(SetState(s, Top.self, k, v),
                   IF old = 0 /\ v # 0 THEN Gas.SstoreSet
                   ELSE IF clear THEN Gas.SstoreClear ELSE Gas.SstoreReset)

\* The balance goes to the beneficiary first; one that names itself loses it.
SelfDestruct(b) ==
    LET balance == GetBalance(db, Top.self)
        gas     == Gas.Suicide + (IF Empty(db, b) /\ balance # 0 THEN Gas.CreateBySuicide ELSE 0)
        s       == IF HasSuicided(db, Top.self) THEN db ELSE AddRefund(db, Gas.SuicideRefund)
    IN /\ MayWrite
       /\ Top.gas >= gas
       /\ Halt(Suicide(AddBalance(s, b, balance), Top.self), Top.gas - gas, 0)

\* gasCall and gasCallCode without the cost of memory.
CallBase(kind, addr, value) ==
    Gas.Calls + (IF value # 0 THEN Gas.CallValueTransfer ELSE 0)
              + (IF kind = "call" /\ value # 0 /\ Empty(db, addr) THEN Gas.CallNewAccount ELSE 0)

\* callGas: what is asked for, at most all but one part of what is left.
CallGas(available, request) ==
    LET most == available - available \div AllButOne
    IN IF most < request THEN most ELSE request

TakeCallGas(gas, temp) == gas - temp

\* opCall, opCallCode, opDelegateCall and opStaticCall.
CallOp(kind, addr, value, request) ==
    LET base == CallBase(kind, addr, value)
        temp == CallGas(Top.gas - base, request)
        gas  == temp + (IF value # 0 THEN Gas.CallStipend ELSE 0)
    IN /\ Top.gas >= base
       /\ kind \in {"delegatecall", "staticcall"} => value = 0
       /\ kind = "call" /\ value # 0 => MayWrite
       /\ Invoke(kind, Top.self, addr, value, gas,
                 [frames EXCEPT ![Depth].gas = TakeCallGas(@ - base, temp)])

CreateOp(value) ==
    LET left == Top.gas - Gas.Create
        kept == left \div AllButOne
    IN /\ MayWrite
       /\ left >= 0
       /\ Create(Top.self, value, left - kept, [frames EXCEPT ![Depth].gas = kept])
=============================================================================
