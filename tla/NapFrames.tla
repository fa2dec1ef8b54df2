------------------------------ MODULE NapFrames ------------------------------
(***************************************************************************)
(* Procedure calls of one nap virtual machine: the call frames (vm/call.c, *)
(* vm/leave.c), the register save area of pushall / popall                 *)
(* (vm/nbci_impl.c) and the base pointer, which `call' sets and `popall'   *)
(* gives back.                                                             *)
(*                                                                         *)
(* The program is abstracted to what its control does to these structures. *)
(* A compiled procedure is: pushall, body, popall, leave                   *)
(* (compiler/call_ctx.cpp).  An assembly procedure (a label of an asm      *)
(* block) has neither pushall nor popall.  A body may call any procedure   *)
(* one of its call sites names, so recursion is included.                  *)
(*                                                                         *)
(* A location of the program is a pair; the instruction pointer and the    *)
(* return addresses are locations.                                         *)
(***************************************************************************)
EXTENDS Integers, Sequences

CONSTANTS
  Procs,             \* procedures; Main is the global code of the script
  Main,
  AsmProcs,          \* the procedures written in an asm block
  Sites,             \* call instructions
  Caller,            \* [Sites -> Procs], the procedure a call is in
  Callee,            \* [Sites -> Procs], the procedure a call enters
  AsmOps,            \* the opcodes asm blocks of the global code execute
  RegKinds,          \* the kinds of registers: "int", "byte", "real"
  Values,            \* contents of registers
  MaxSp,             \* bound of the operand stack pointer
  DeepestRecursion,  \* config->deepest_recursion
  CfMod,             \* 2^32, the width of cfsize
  Garbage            \* what a read outside of ebp_stack may give

ASSUME ProcsAssumption ==
  /\ Main \in Procs
  /\ AsmProcs \subseteq Procs \ {Main}
  /\ Caller \in [Sites -> Procs]
  /\ Callee \in [Sites -> Procs \ {Main}]
  /\ AsmOps \subseteq {"popall", "leave"}
ASSUME LimitsAssumption ==
  /\ MaxSp \in Nat
  /\ DeepestRecursion \in Nat \ {0}
  /\ CfMod \in Nat /\ CfMod > DeepestRecursion
  /\ Values # {}
  /\ RegKinds \subseteq {"int", "byte", "real"}
  /\ Garbage \subseteq Int

ErrPushAll == 6      \* ERR_VM_0006
ErrPopAll  == 7      \* ERR_VM_0007
ErrCall    == 19     \* ERR_VM_0019

VARIABLES
  cc,            \* the instruction pointer
  call_frames,   \* the return addresses
  cfsize,
  regs,          \* one register of each kind that matters
  reg_stack,     \* what pushall saved: regi_stack and regb_stack
  ebp_stack,
  reg_stack_idx,
  sp,            \* stack_pointer
  bp,
  status,        \* "running", "exited", "failed" or "wild"
  error_code,
  calls          \* history: the state of the caller at each open call

vars == <<cc, call_frames, cfsize, regs, reg_stack, ebp_stack, reg_stack_idx,
          sp, bp, status, error_code, calls>>

-----------------------------------------------------------------------------
(* Locations.                                                              *)

Entry(p) == <<"entry", p>>     \* at the pushall of p
Body(p)  == <<"body", p>>
Exit(p)  == <<"exit", p>>      \* at the leave of p
After(s) == <<"after", s>>     \* behind the operand of the call s

Locations == ({"entry", "body", "exit"} \X Procs) \cup ({"after"} \X Sites)

Compiled == Procs \ (AsmProcs \cup {Main})

(* The code of p outside of its prologue and epilogue.                     *)
BodyOf(p) == {Body(p)} \cup {After(s) : s \in {t \in Sites : Caller[t] = p}}

InBody(p) == cc \in BodyOf(p)

Start(p) == IF p \in AsmProcs THEN Body(p) ELSE Entry(p)

(* What pushall saves of them.                                             *)
SavedKinds == RegKinds \cap {"int", "byte"}

Depths == 0 .. DeepestRecursion - 1

(* The stack pointer below which the running procedure never pops: its own *)
(* block marker is above it.                                               *)
FrameBase == IF calls = <<>> THEN -1 ELSE calls[Len(calls)].sp

Running == status = "running"

Fail(code) == status' = "failed" /\ error_code' = code

-----------------------------------------------------------------------------
Init ==
  /\ cc = Body(Main)
  /\ call_frames = [i \in Depths |-> Body(Main)]
  /\ cfsize = 0
  /\ regs \in [RegKinds -> Values]
  /\ reg_stack = [i \in Depths |-> [k \in SavedKinds |-> regs[k]]]
  /\ ebp_stack = [i \in Depths |-> 0]
  /\ reg_stack_idx = 0
  /\ sp = -1
  /\ bp = 0
  /\ status = "running"
  /\ error_code = 0
  /\ calls = <<>>

(* Mutant of Call: the return address goes one slot too high.              *)
CallMutant(s) ==
  /\ Running /\ InBody(Caller[s])
  /\ cfsize # DeepestRecursion
  /\ call_frames' = [call_frames EXCEPT ![cfsize + 1] = After(s)]
  /\ cfsize' = cfsize + 1
  /\ bp' = sp
  /\ cc' = Start(Callee[s])
  /\ calls' = Append(calls, [site |-> s, sp |-> sp, bp |-> bp, regs |-> regs,
                            saves |-> reg_stack_idx])
  /\ UNCHANGED <<regs, reg_stack, ebp_stack, reg_stack_idx, sp, status, error_code>>

(* nap_call, a procedure of this machine.                                  *)
Call(s) ==
  /\ Running /\ InBody(Caller[s])
  /\ cfsize # DeepestRecursion
  /\ call_frames' = [call_frames EXCEPT ![cfsize] = After(s)]
  /\ cfsize' = cfsize + 1
  /\ bp' = sp
  /\ cc' = Start(Callee[s])
  /\ calls' = Append(calls, [site |-> s, sp |-> sp, bp |-> bp, regs |-> regs,
                            saves |-> reg_stack_idx])
  /\ UNCHANGED <<regs, reg_stack, ebp_stack, reg_stack_idx, sp, status, error_code>>

(* Mutant of CallTooDeep: the limit is never met.                          *)
CallTooDeepMutant(s) ==
  /\ Running /\ InBody(Caller[s])
  /\ cfsize = DeepestRecursion
  /\ cfsize' = cfsize + 1
  /\ cc' = Start(Callee[s])
  /\ UNCHANGED <<call_frames, regs, reg_stack, ebp_stack, reg_stack_idx, sp,
                 bp, status, error_code, calls>>

CallTooDeep(s) ==
  /\ Running /\ InBody(Caller[s])
  /\ cfsize = DeepestRecursion
  /\ Fail(ErrCall)
  /\ UNCHANGED <<cc, call_frames, cfsize, regs, reg_stack, ebp_stack,
                 reg_stack_idx, sp, bp, calls>>

(* nap_save_registers.                                                     *)
PushAll(p) ==
  /\ Running /\ cc = Entry(p)
  /\ reg_stack_idx + 1 # DeepestRecursion
  /\ reg_stack' = [reg_stack EXCEPT ![reg_stack_idx] = [k \in SavedKinds |-> regs[k]]]
  /\ ebp_stack' = [ebp_stack EXCEPT ![reg_stack_idx] = bp]
  /\ reg_stack_idx' = reg_stack_idx + 1
  /\ cc' = Body(p)
  /\ UNCHANGED <<call_frames, cfsize, regs, sp, bp, status, error_code, calls>>

(* Mutant of PushAllTooDeep: the code of another error.                    *)
PushAllTooDeepCodeMutant(p) ==
  /\ Running /\ cc = Entry(p)
  /\ reg_stack_idx + 1 = DeepestRecursion
  /\ Fail(1)
  /\ UNCHANGED <<cc, call_frames, cfsize, regs, reg_stack, ebp_stack,
                 reg_stack_idx, sp, bp, calls>>

PushAllTooDeep(p) ==
  /\ Running /\ cc = Entry(p)
  /\ reg_stack_idx + 1 = DeepestRecursion
  /\ Fail(ErrPushAll)
  /\ UNCHANGED <<cc, call_frames, cfsize, regs, reg_stack, ebp_stack,
                 reg_stack_idx, sp, bp, calls>>

(* Mutants of RestoreRegisters: bp comes from the slot of the registers;   *)
(* the byte registers are not restored.                                    *)
RestoreRegistersBpMutant ==
  LET top == reg_stack_idx - 1 IN
  /\ reg_stack_idx' = top
  /\ regs' = [k \in RegKinds |-> IF k \in SavedKinds THEN reg_stack[top][k] ELSE regs[k]]
  /\ bp' = ebp_stack[top]

RestoreRegistersByteMutant ==
  LET top == reg_stack_idx - 1 IN
  /\ reg_stack_idx' = top
  /\ regs' = [k \in RegKinds |-> IF k = "int" THEN reg_stack[top][k] ELSE regs[k]]
  /\ IF top = 0 THEN bp' \in Garbage ELSE bp' = ebp_stack[top - 1]

(* nap_restore_registers once the index was found positive: the registers  *)
(* come from the slot of the matching pushall, bp from the one below it.   *)
(* The slot below the first one is not part of the array.                  *)
RestoreRegisters ==
  LET top == reg_stack_idx - 1 IN
  /\ reg_stack_idx' = top
  /\ regs' = [k \in RegKinds |-> IF k \in SavedKinds THEN reg_stack[top][k] ELSE regs[k]]
  /\ IF top = 0 THEN bp' \in Garbage ELSE bp' = ebp_stack[top - 1]

(* popall of a compiled procedure; its clrsn has emptied the operand stack *)
(* down to where the call found it.                                        *)
PopAll(p) ==
  /\ Running /\ p \in Compiled /\ InBody(p)
  /\ sp = FrameBase
  /\ reg_stack_idx # 0
  /\ RestoreRegisters
  /\ cc' = Exit(p)
  /\ UNCHANGED <<call_frames, cfsize, reg_stack, ebp_stack, sp, status, error_code, calls>>

(* popall in an asm block of the global code, where nothing is saved.      *)
PopAllNothing ==
  /\ Running /\ "popall" \in AsmOps /\ InBody(Main)
  /\ reg_stack_idx = 0
  /\ Fail(ErrPopAll)
  /\ UNCHANGED <<cc, call_frames, cfsize, regs, reg_stack, ebp_stack,
                 reg_stack_idx, sp, bp, calls>>

(* nap_leave.                                                              *)
Leave ==
  /\ Running
  /\ \/ \E p \in Compiled : cc = Exit(p)
     \/ \E p \in AsmProcs : InBody(p) /\ sp = FrameBase
  /\ cfsize # CfMod - 1
  /\ cfsize # 0
  /\ cfsize' = cfsize - 1
  /\ cc' = call_frames[cfsize - 1]
  /\ calls' = SubSeq(calls, 1, Len(calls) - 1)
  /\ UNCHANGED <<call_frames, regs, reg_stack, ebp_stack, reg_stack_idx, sp,
                 bp, status, error_code>>

(* leave in an asm block of the global code: the only check nap_leave makes *)
(* is against the largest value of cfsize, the read is outside of the array *)
(* and the machine goes on at whatever address it finds.                    *)
LeaveNothing ==
  /\ Running /\ "leave" \in AsmOps /\ InBody(Main)
  /\ cfsize = 0
  /\ cfsize # CfMod - 1
  /\ cfsize' = (cfsize - 1) % CfMod
  /\ status' = "wild"
  /\ UNCHANGED <<cc, call_frames, regs, reg_stack, ebp_stack, reg_stack_idx,
                 sp, bp, error_code, calls>>

(* The rest of a body, as far as these structures see it: it writes a      *)
(* register, pushes an entry or a marker, removes what it pushed.          *)
SetRegister(k, v) ==
  /\ Running /\ \E p \in Procs : InBody(p)
  /\ regs[k] # v
  /\ regs' = [regs EXCEPT ![k] = v]
  /\ UNCHANGED <<cc, call_frames, cfsize, reg_stack, ebp_stack, reg_stack_idx,
                 sp, bp, status, error_code, calls>>

MoveSp(to) ==
  /\ Running /\ \E p \in Procs : InBody(p)
  /\ to \in {sp - 1, sp + 1}
  /\ to >= FrameBase
  /\ sp' = to
  /\ UNCHANGED <<cc, call_frames, cfsize, regs, reg_stack, ebp_stack,
                 reg_stack_idx, bp, status, error_code, calls>>

(* exit, at the end of the global code.                                    *)
ExitProgram ==
  /\ Running /\ InBody(Main)
  /\ status' = "exited"
  /\ UNCHANGED <<cc, call_frames, cfsize, regs, reg_stack, ebp_stack,
                 reg_stack_idx, sp, bp, error_code, calls>>

Next ==
  \/ \E s \in Sites : Call(s)
  \/ \E s \in Sites : CallTooDeep(s)
  \/ \E p \in Procs : PushAll(p)
  \/ \E p \in Procs : PushAllTooDeep(p)
  \/ \E p \in Procs : PopAll(p)
  \/ PopAllNothing
  \/ Leave
  \/ LeaveNothing
  \/ \E k \in RegKinds, v \in Values : SetRegister(k, v)
  \/ \E to \in -1 .. MaxSp : MoveSp(to)
  \/ ExitProgram

Spec == Init /\ [][Next]_vars

-----------------------------------------------------------------------------
(* Properties.                                                             *)

Registers == [RegKinds -> Values]

CallRecords == [site : Sites, sp : -1 .. MaxSp, bp : Int, regs : Registers,
                saves : Nat]

(* The type of the state.                                                  *)
TypeOK ==
  /\ cc \in Locations
  /\ call_frames \in [Depths -> Locations]
  /\ cfsize \in 0 .. CfMod - 1
  /\ regs \in Registers
  /\ reg_stack \in [Depths -> [SavedKinds -> Values]]
  /\ ebp_stack \in [Depths -> Int]
  /\ reg_stack_idx \in Nat
  /\ sp \in -1 .. MaxSp
  /\ bp \in Int
  /\ status \in {"running", "exited", "failed", "wild"}
  /\ error_code \in {0, ErrPushAll, ErrPopAll, ErrCall}
  /\ calls \in Seq(CallRecords)

Top == calls[Len(calls)]

(* The two stacks have separate limits, tested in two ways (call.c:30 with *)
(* ==, nbci_impl.c:532 with + 1 ==) and separate indices; recursion through *)
(* compiled and assembly procedures moves them apart.  Whatever the mix,   *)
(* no index passes the size both arrays were allocated with, and each call *)
(* still open has its return address.                                      *)
IndicesInBounds ==
  status # "wild" =>
    /\ cfsize = Len(calls)
    /\ cfsize <= DeepestRecursion
    /\ reg_stack_idx <= DeepestRecursion - 1
    /\ reg_stack_idx <= cfsize

(* No call, however deep and whatever it calls itself, disturbs the return *)
(* address of a procedure still open below it: frame i holds the place     *)
(* behind the call instruction that opened it, and that instruction is in  *)
(* the procedure the frame below runs.                                     *)
ReturnAddressesIntact ==
  status # "wild" =>
    \A i \in 1 .. Len(calls) :
      /\ call_frames[i - 1] = After(calls[i].site)
      /\ Caller[calls[i].site] = IF i = 1 THEN Main ELSE Callee[calls[i - 1].site]

(* The base pointer, from which a body reads its parameters (bp - k), is   *)
(* the stack pointer its caller had at the call, in the whole body: also   *)
(* after calls the body made, because popall gives bp back from the slot   *)
(* of the pushall before its own.                                          *)
BpIsFrameBase ==
  Running /\ AsmProcs = {} =>
    \A p \in Compiled : InBody(p) => bp = FrameBase

(* What a call does to the procedure that made it: when the call returns,  *)
(* execution goes on behind the call instruction, the register save area   *)
(* is as high as it was, a compiled callee has left the integer and byte   *)
(* registers as they were, and bp is what it was unless the caller is the  *)
(* global code, which has no frame, or assembly is involved.               *)
CallsReturnTransparently ==
  [][ Len(calls') < Len(calls) =>
        /\ cc' = After(Top.site)
        /\ reg_stack_idx' = Top.saves
        /\ Callee[Top.site] \in Compiled =>
              \A k \in SavedKinds : regs'[k] = Top.regs[k]
        /\ AsmProcs = {} /\ Caller[Top.site] # Main => bp' = Top.bp ]_vars

=============================================================================
