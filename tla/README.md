# A specification of nap-script

nap-script is a small scripting language: a compiler (C++, `compiler/`) turns a script into the
bytecode of a register and stack machine (C, `vm/`), a runtime library (`runtime/`) lets a host
program compile and run scripts. A program can compile and run further scripts while it runs.
There are no threads: each machine executes one instruction after the other. What is hard is
elsewhere: several structures of the machine grow and shrink at different places of the generated
code and must stay in step over any sequence of calls, jumps, early exits and recursion; the
compiler is responsible for the order, the machine checks little of it.

The modules here model those structures together with the code the compiler generates for them.

## 1. Inventory

| Component | Source | State | Operations | Interacts with | What makes it correct | Module |
|---|---|---|---|---|---|---|
| Call frames, register save area | `vm/call.c`, `vm/leave.c`, `vm/nbci_impl.c:530-568` | `call_frames`, `cfsize`, `regi_stack`, `regb_stack`, `ebp_stack`, `reg_stack_idx`, `bp` | call, pushall, popall, leave | operand stack (bp), code of procedures (`compiler/call_ctx.cpp`) | each open call keeps its return address, its registers and its bp; both limits hold | `NapFrames`, `NapProgram` |
| Operand stack, variable lifetime | `vm/push.c`, `marks.c`, `clrs.c`, `store.c`, `restore.c`, `stack.c` | `stack`, `stack_pointer`, `variable_entry.instantiation` | push, marksn, clrsn, store, restore | blocks, for, break, return, calls (`compiler/evaluate.cpp`) | lexical scoping: what a block defines lives exactly as long as the block; returned arrays reach the caller | `NapStack`, `NapMemory` |
| Stack access | `vm/pop.c`, `peek.c`, `poke.c`, `serve.c` | as above | pop, peek, poke, serve | bp, parameters | a parameter is found where the caller pushed it | `NapProgram`, `NapMemory` |
| Arrays | `vm/call_intern.c`, `clidx.c`, `nbci_impl.c:1184-1242`, `mov.c` | `dimensions`, `dimension_count`, the memory of an instantiation, `regidx` | @#grow, mov reg idx, ccidx, clidx | index code in `compiler/evaluate.cpp` | indices in range reach cells of their own inside of the memory, others are refused | `NapArray`, `NapMemory` |
| Conditions | `vm/comparison.c`, `jump.c`; `compiler/opr_hndl.cpp`, `interpreter.cpp`, `evaluate.cpp` | `lbf` (one flag per machine), registers | eq, neq, lt, gt, lte, gte, jlbf, clbf | calls made inside of a condition | a jump follows what the condition means | `NapLbf` |
| Moves, arithmetic | `vm/mov.c`, `operation.c`, `unary.c`, `inc.c`, `dec.c` | registers, variables | mov, add, ..., neg, inc, dec | all operand kinds | conversions between types, widths, failure of conversions is reported | `NapProgram` (ints), `NapMemory` (strings) |
| Return values | `vm/return.c`, `nbci_impl.c:1065` | `rvi`, `rvr`, `rvb`, `rvs` | return, copying between machines | parent and child machines | a caller reads the value of its own callee | `NapProgram`, `NapMemory`, `NapChain` |
| Run loop, errors | `vm/nbci.c:405-483` | `error_code`, `error_message`, current opcode | fetch and dispatch, stop | host, parent machine | the first failing instruction stops the machine and is reported | `NapFrames`, `NapChain` |
| Machine chain | `vm/interrupts/intr_2`, `intr_3`, `intr_4`, `call.c:42-95`, `nbci_impl.c:715-784` | `parent`, chunks | compile, execute, call into the parent, extern variables | compiler, loader | a child leaves the parent able to go on | `NapChain`, `NapRuntime` |
| Loader | `vm/nbci_impl.c:106-527`, `metatbl.c`, `strtable.c`, `funtable.c`, `jmptable.c`, `classes.c` | the tables of a machine | inject, load, cleanup | file format of the assembler | a load succeeds completely or leaves nothing | `NapImage`, `NapMemory` (cleanup) |
| Assembler | `compiler/code_stream.cpp`, `code_finalizer.cpp`, `code_output.cpp` | the bytecode, jump table, label positions | emit, define label, refer to label, finalise | loader | each jump goes to its label; immediates keep their value | `NapImage` |
| Code generator | `compiler/evaluate.cpp`, `call_ctx.cpp`, `method.cpp` | call contexts, labels | compile a statement | assembler | the protocols the machine relies on | all that run compiled code |
| Parser, name resolution | `compiler/parser.cpp`, `interpreter.cpp`, `variable_holder.cpp`, `compiler.cpp` | expression trees, call contexts, variables | parse, resolve | code generator | names resolve to the innermost definition | `NapLbf`, `NapStack`, `NapImage`, in part |
| Compiler lifetime | `compiler/garbage_bin.h`, `compiler.cpp` | bins shared by the compilers of a process | create, empty | interrupt 2, runtime | no compiler frees objects of another | `NapRuntime` |
| Runtime library | `runtime/nap_runtime.cpp` | compiler, machine and chunks of a runtime | inject, execute, variables, methods | all of the above | repeated use from a host works like one script | `NapRuntime`, `NapChain` |
| Others | `vm/main.c`, `compiler/main.cpp`, `ext_gen/`, `vm/interrupts/intr_1`, `compiler/charconverter.cpp`, `iconv/`, `tests/gtest/` | | | | not modelled: I/O, formatting, generated text, third party | - |

Hard behaviours: unbounded mutual recursion against two fixed limits; block exits by break and by
nested return, which leave out or repeat rollbacks; a single instantiation per variable; arrays
that must survive the rollbacks of a return; index registers and a flag that are global to a
machine and used by nested expressions; machines within machines, where an error must find its way
up. Nothing is persisted, there are no messages and no timeouts. The hazards, each with its line and the
properties about it, are in `PROJECT.json`.

## 2. Modules

### NapFrames - calls

State as in `struct nap_vm` and its execution context: `cc`, `call_frames`, `cfsize`, the save
area (`reg_stack`, `ebp_stack`, `reg_stack_idx`), `sp`, `bp`, one register of each kind that behaves
differently, `status` and `error_code`. `calls` is a history variable: what the caller had at each
open call. A location is a pair (entry, body, exit of a procedure, or the place behind a call);
a program is a set of procedures and call sites with arbitrary recursion.

| Action | Code |
|---|---|
| `Call`, `CallTooDeep` | `call.c:27-41` |
| `PushAll`, `PushAllTooDeep` | `nap_save_registers` |
| `PopAll`, `PopAllNothing`, `RestoreRegisters` | `nap_restore_registers` |
| `Leave`, `LeaveNothing` | `nap_leave`, with the unsigned `cfsize` |
| `SetRegister`, `MoveSp` | everything else a body does, as these structures see it |
| `ExitProgram` | end of the global code |

Compiled procedures have the prologue and epilogue of `call_context::compile`. Assembly procedures
(labels in asm blocks) are called and left without pushall and popall, as the compiler allows.
The slot below the first of `ebp_stack` is memory outside of the array: reading it gives any value of
`Garbage`.

### NapStack, implementing ScopeStack - scopes

`ScopeStack` is what a programmer relies on: blocks are entered and left, the variables of a block
exist until it is left, an array a function returns can be taken once by the caller. `NapStack` is the
operand stack with its markers and definitions, driven by the code for blocks, for statements, break,
return at the end of a function or at the end of a nested block, and call expressions. A program
is a tree of blocks; control is a stack `ctl` of the open blocks. `clrsn` is the function `Clrs` on
machine states: the loop of `clrs.c` with its exits, its freeing, its marking of stored entries,
`save_sp` and the relocation. The refinement mapping takes as variables of a block the definitions
between its marker and the next (`Declared`), and as returned array the entry `restore` would pick.

### NapArray - arrays

One array of a declared shape: definition, one `Grow` per dimension (the scan of the dimensions, the
realloc with cells of unknown content), accesses through the index registers, the tests and the
formula of `deliver_flat_index`, the scope being left and entered again. What the code is right for is
named (`Regular`): the first entry of the scope, no other array used inside an access, and dimensions
that are equal or a first dimension of 1. Indices may be computed by
code that uses another array (`IndexFromArray`), and so may the operand (`OperandFromArray`); both end
with `clidx`. A cell outside of the memory is the status `wild`.

### NapLbf - conditions

A condition is a row of terms (variables, calls) and operators. `Root` is the operator the compiler
finds, `Code` what `resolve_operation` makes of it, `Program` what if and for put around it. The
machine executes that code with registers and the flag; a called function evaluates conditions of
its own (the sequence `run`), with its registers saved and restored, the flag not. `Meaning` is the
reference: the meaning of the condition for the values its terms had. This module uses Bitwise and
is only model-checked.

### NapChain - machines within machines

`vm` is the machines alive, `active` the calls of `nap_vm_run` in progress, the innermost last, each with
the reason it was started: by the host, by interrupt 3, or by a call into the parent. The root may so be
running twice: in the interrupt that runs a child and, above it, in the function the child called.
An instruction is two addresses long; which instruction stands at a `Plain` address is left open, so
that all programs are explored at once, and only the ends of the global code and of the functions have
their place. `ToInterrupt`, `ToCaller` and `ToHost` are the C code behind a run that has ended. An
error code is only zero or not, a value returned is a member of `Results`, and `lost` is history: a
function called by a child has failed, after which the parent keeps its frame for ever (`call.c:76`
pushed it, nobody pops it).

| Action | Code |
|---|---|
| `Work`, `Fail`, `Exit`, `LoopEnds`, `Astray` | `nap_vm_run`, for instructions of any kind |
| `Call`, `Return`, `Leave` | `call.c:27-41`, `return.c`, the end of a function |
| `CallParent`, `CallMissing`, `ToCaller` | `call.c:42-95`, before and after the parent's run |
| `Execute`, `CannotCreate`, `ToInterrupt` | `intr_3.c` and `nap_handle_interrupt` |
| `HostExecute`, `ToHost` | `nap_execute_code`, `nap_runtime_execute` |

### NapProgram, implementing Procedures - calls with arguments

Frames, save area and operand stack of one machine together, under the code of call expressions: the
marker of the call, its arguments, `call` (which sets bp), the marker of the function, its body, `return`,
`clrsn`, `popall`, `leave`, the result taken, the parameters with & fetched back, the arguments cleared.
Parameter i of n is the entry n - i below bp (`Slot`, `Peek`). An activation evaluates, assigns and calls
in any order, `MaxSteps` times; calls may stand in the arguments of calls. `Procedures` is what a script
relies on: each activation has parameters of its own, a call starts with the values of its arguments, its
value is what it returns, and a parameter with & is copied once to the variable that was passed. The
mapping takes as parameters of an activation the entries below the bp that is in force when it runs
(`Base`: bp for the innermost, the slot its callee's pushall has saved for the others).

| Action | Code |
|---|---|
| `Begin`, `PushValue`, `PushVariable` | `evaluate.cpp:1569-1702`, `push.c` |
| `Call`, `CallTooDeep` | `call.c:12-41` with the pushall and marksn behind it |
| `Load`, `AssignGlobal`, `AssignParam` | `mov.c`, `AssignParam` with the index of `mov.c:1477` |
| `Return`, `PopAll`, `TakeResult`, `FetchRef`, `CloseCall` | `evaluate.cpp:1714-1796`, `clrs.c`, `nap_restore_registers` |

### NapImage - from names to tables

The assembler gives each label, string, mark and variable an index while it writes the code, in the order
the script mentions them; the finalizer writes four tables behind it; the loader reads them back entry by
entry, each loop with its own way of finding the end. `code`, `jumptable`, `stringtable`, `namedmarks`,
`variables` are the lists of `code_stream`; `file` is a sequence of fields; `vm` the tables that are built;
`source` and `defined` are history, the names the script used and the places of its labels. A field of the
wrong kind is read as garbage (`ReadGarbage`), which happens: the loader copies the types of a function's
parameters and does not step over them (`funtable.c:80`).

A function is an element of `Methods`; a name may come more than once, since nothing refuses a declaration and a
definition of it (`interpreter.cpp:678-696`). Functions are compiled in this order, each behind its label (`Method`), and a
call is one of the script's own function when that has been declared by then, otherwise one of the parent's (`Declared`,
`NotDeclared`: `call_ctx.cpp:107-147`). So the same name can have labels of both kinds. The finalizer takes the prefix off the labels of
calls of the parent (`code_finalizer.cpp:194-199`) and then writes an entry of the table of functions for every label
with the name of a function (`FunEntryAt`, `code_finalizer.cpp:227-255`), while it counts functions (`code_finalizer.cpp:220`). `FunctionsFound`
says which functions are found all the same: those in their place (`InPlace`: the ones before have no parameters and no
call of the parent shares their names) whose own label comes before calls of the parent with their name (`OwnFirst`). Any allocation of the loader may fail
(`OutOfMemory`), after which the cleanup walks lists that do not exist yet.

### NapMemory - who frees what

`heap` is the set of blocks allocated, with their sizes; stack entries, instantiations, registers, the
return value and the tables hold pointers to them. Each instruction that moves strings reads texts, frees
blocks and allocates others (`Memory`), and faults when a block is not there, is too short, or is freed
through two pointers. `Owned` is the reference: who is to free each block. The program is any sequence of
definitions, string operations, blocks, nested calls with string and array arguments, and breaks, stopped
at any instruction by `Cleanup` (`nap_vm_cleanup`).

### NapRuntime - a host with several runtimes

Runtimes with their compilers and machines, scripts that execute scripts (interrupts 2 and 3, `run` is the
machines running, innermost last), the table of chunks of a machine, and the garbage bins all compilers of
a process share. A compiler is its address, and addresses are used again. `early` is history: bins were
deleted that a living compiler knew; `lost`: machines that a second `nap_runtime_execute` has replaced.

| Action | Code |
|---|---|
| `Create`, `CompileChunk`, `Execute`, `ExecuteCode`, `ShutdownRuntime` | `nap_runtime.cpp` |
| `NapExecute`, `NapExecuteBad` | `intr_2.cpp`, `intr_3.c`, for scripts that compile and that do not |
| `Fail`, `End`, `Unwind` (`Finish`) | the end of a machine, in `intr_3.c` or `nap_execute_code` |
| `Construct`, `Place`, `Empty`, `Destroy`, `Release`, `Shutdown` | `garbage_bin.h`, `garbage_bin.cpp`, `compiler.cpp` |

## 3. Runs

All bounds are constants of the configurations. Values and registers are small because no test
in this code depends on more than equality and order of them.

| Run | Result | Shows |
|---|---|---|
| `NapFramesCompiled` | holds | f, g calling each other and themselves, limit 4: every body has its own bp, and the save area is the limit that is met, with its error |
| `NapFramesMixed` | holds | g in assembly, popall and leave in the global code, limit 3: both limits are met, in every mix; return addresses and registers survive |
| `NapStackScopes` | holds, no deadlock | seven variables in nested blocks of two functions, three call expressions, break and nested returns: lexical scoping, exact rollbacks, returned arrays found |
| `NapStackRecursion` | `DefinedHasInstantiation` violated | a function with locals that calls itself loses its caller's locals |
| `NapArray` | holds | nine shapes, nested accesses, scopes entered again: what is right for all, and what only for regular arrays |
| `NapLbfPlain` | holds, no deadlock | chained comparisons with calls, nested two deep: the jump follows the condition, the flag is fresh for the next |
| `NapProgram` | holds, ends | value and reference parameters, results, calls in arguments, recursion to the limit: `Procedures` is implemented, the stack is not overrun, the program ends |
| `NapImage` | holds, the loader ends | every operand of three-item programs means what the script said; all 256 numbers of a scaled-down width; a function declared twice, one with the name of a function of the parent, one behind it: those in their place are found |
| `NapMemory` | holds | every block has one owner and is freed once; lengths fit; the cleanup |
| `NapRuntime` | holds | two runtimes, three scripts one of which does not compile: bins, compilers, machines, chunks |
| `NapChain` | holds | a root and two more machines, in any nesting of execute and calls into the parent |
| `NapChainReturn` | `RunsCode` violated | a child calls a function of the parent that executes it; the parent goes on at address 0 |

The two violations show a disagreement with what a comment says; `PROJECT.json` quotes it. The modules
contain further behaviour that the passing runs step around or that their properties exclude by name:

- NapFrames: the registers of reals are not saved by pushall (`SavedKinds`); leave without a frame is
  executed and wraps an unsigned count (`LeaveNothing`).
- NapStack: an array returned from two blocks deep is lost, though `stack.h:90-94` promises it; returned
  arrays of the instance are defined in the function's own block.
- NapArray: a scope entered a second time doubles the dimensions of its arrays, good indices then fail
  (`call_intern.c:50`); in a 3 x 2 array the index [2, 1] passes the tests and is outside of the memory
  (`nbci_impl.c:1229`); `v[i] += w[j]` clears the index registers of the target (`OperandFromArray`).
- NapLbf: `a < b && c < d` combines what the comparisons leave in registers, not their results (`Code`
  and `Combine` have it, `PlainConditions` has no such condition); eq and neq of reals have no absolute
  value (`Compares`); in `a < b <= c` the second operator is found first (`Root`); the condition of a
  for statement is not compiled when it is neither atomic nor a comparison (`Program`).
- NapProgram: an assignment to any parameter but the last goes to the last (`mov.c:1477`; the instance
  assigns last parameters only); a function with both a result and a & parameter loses its result.
- NapImage: immediates of 128 to 255, and the same range of each larger width, change sign
  (`ChangesSign`); functions behind one with parameters are read from the wrong place; a script that calls
  its parent's f before it has an f of its own finds the call of the parent by this name, and a function
  behind f is pushed out of the table (`FunctionsFound` excludes them by `InPlace` and `OwnFirst`).
- NapMemory: a program that stops inside of a scope has its markers, and arrays that are arguments,
  freed twice (status `crashed`), although `nbci_impl.c:147-148` says variables are not freed there.
- NapRuntime: the second chunk of a runtime begins with the code of the first and never gets past its
  exit; the shutdown of a runtime, or a script that does not compile, deletes the bins of the compilers
  that are alive (`early`); a second `nap_runtime_execute` loses a machine; `nap_execute_code` before the
  first `nap_runtime_execute` uses a machine that is NULL; a runtime that never compiled deletes a
  pointer nobody has set (`compiler.cpp:40`).
- NapChain: a function of the parent that fails leaves its frame, and the child goes on (`lost`).

Why the bounds are enough. NapFrames: limits 3 and 4 let calls nest below, at and beyond both
limits, from procedures of both kinds, and the width of `cfsize` only has to be larger than the
limit; the theorems below hold without the bounds. NapStack: the depth of a program without recursion is
that of its blocks, so the stack of 20 entries is never full and the state space is complete for
that program. NapArray: two writes are enough to see two indices share a cell, and indices from
-1 to 3 lie on both sides of every dimension. NapLbf: a function in a condition evaluates one condition at a
time, so two levels show everything a third would. NapProgram: recursion limit 3 has a first slot,
a slot above another, and the limit; two parameters have a last and another; f and g call each other; the stack
of 17 is what `Needed` computes for that limit and for calls nested two deep. The real limits give four entries for each
call (`nbci.h:53-54`), which `Needed` exceeds for functions with three parameters. NapImage: three items
are a label, a reference before and one behind it, or two names of a kind and a repetition; the four functions are
one that is declared twice, one whose name the parent has too, and one behind these, with a parameter. TLC finds `FunctionsFound` violated as soon as
`OwnFirst` is dropped or `InPlace` no longer speaks of calls of the parent; that the functions before have no parameters matters
only with a fifth function behind h, which the theorem covers. `Earlier` = {0, 3} are a value of `max_mark_index` below
and one above what two marks need; the widths
8, 16, 32 and 64 are scaled to 2, 4, 6 and 8 bits so that every number can be tried. NapMemory: three
scopes are a block in a function that is called, or calls inside of calls; strings of 0 to 2 characters
have a first and a last. NapRuntime: a table of one chunk is full at the first script and doubled at the
second; two runtimes, one that goes while the other lives; three addresses, so that one can be used
again while two are taken. NapChain: three machines are a root, a child that may call it
and a grandchild that may not find the function; two open calls per machine let a call into the
parent meet one that is open, and let the function called execute and be called again.

The deadlock check is off in NapFrames, NapArray, NapProgram, NapImage, NapMemory, NapRuntime and
NapChain: a machine that has exited, failed, been cleaned up or gone wild stops, a loaded image is done, and in
NapMemory and NapRuntime a program may come to the end of its bounds. Symmetry is used only in NapRuntime, which has no temporal
property.

Fairness. NapProgram assumes `WF_vars(Next)`: the loop of `nap_vm_run` (`nbci.c:405`) executes one
instruction after the other, and nothing else runs. Its bodies have no loops (`MaxSteps`), so `Terminates`
is about recursion: it must exit, or meet a limit that stops it. NapImage assumes `WF_vars(Load)`: once the
loader has begun, each of its loops takes its next step; the compiler may stop at any instruction.
The other modules claim no liveness: a script may loop.

## 4. Proofs

A proof module EXTENDS the module it is about. Each has the same shape: an inductive invariant `IInv`
made of named parts, one lemma for each action (`<Action>IInv`) with the lemmas about its data before
it, `NextIInv` that puts the actions together, the theorem `Invariance == Spec => []IInv`, and the theorems
about the properties, each of which follows from `IInv` alone, or, for an action property, from `IInv` and one
step. None of the properties is inductive by itself; each `IInv` was model-checked on the instance of the
module's run before it was proved. The theorems are about all constants that satisfy the assumptions named in
the modules. These say what a program is and that the sizes of the machine fit each other, none limits how
deep, how many or how long, and TLC evaluates them on the instances of the runs. Some theorems about `NapProgram`
and `NapStack` have hypotheses on the program besides: it avoids what the code does not get right (below). The
instances of the runs satisfy them.

| Proofs | Theorem | Property |
|---|---|---|
| `NapFramesProofs` | `TypeCorrect`, `IndicesSafe`, `ReturnAddressesSafe`, `BpSafe` | `TypeOK`, `IndicesInBounds`, `ReturnAddressesIntact`, `BpIsFrameBase` |
| | `CallsTransparent` | `CallsReturnTransparently` |
| `NapChainProofs` | `RunningMachinesAreLive`, `IdleRootIsClear` | `RunningMachinesLive`, `IdleRootHasNoFrames` |
| | `OnlyTheRootIsLeft` | `OnlyRootIsLeft` |
| | `CallsLeaveTheParent`, `ResultsArrive`, `FailuresTravel` | `CallsLeaveParent`, `ResultArrives`, `FailureTravels` |
| `NapRuntimeProofs` | `BinsAreSafe`, `CompilersAreReleased`, `MachinesAreKnown` | `BinsStay`, `CompilersGo`, `MachinesKnown` |
| | `ScriptsRun`, `TablesHold`, `OnlyGoodCodeRuns` | `RunsTheScript`, `TableHolds`, `NoBadCode` |
| `NapArrayProofs` | `DimensionsKeepCount`, `RefusalsAreJustified` | `DimensionsAgree`, `ErrorsJustified` |
| | `AccessesStayInside`, `CellsKeepValues`, `WritesAreInShape` | `AccessInMemory`, `CellsAreDistinct`, `BadIndicesWriteNothing` |
| `NapMemoryProofs` | `MemoryIsThere`, `BlocksHaveOneOwner` | `NoFault`, `OneOwner` |
| | `StringsFit`, `CleanupFreesAll` | `LengthsFit`, `CleanupIsExact` |
| `NapProgramProofs` | `StackIsEnough` | `NoOverrun` |
| | `ProceduresImplemented` | `ImplementsProcedures` (the refinement of `Procedures`) |
| `NapStackProofs` | `DefinedAreThere`, `ArraysReturned` | `DefinedHasInstantiation`, `ReturnedArrayFound` |
| | `RollbacksAreExact` | `RollbackIsExact` |
| | `ScopesImplemented` | `LexicalScoping` (the refinement of `ScopeStack`) |
| | `NoOverrun`, `MarkersStay` | `MarkersInPlace` |
| `NapImageProofs` | `EveryOperandResolves`, `EveryMarkInList` | `OperandsResolve`, `MarksInList` |
| | `EveryNumberSurvives`, `EveryFunctionFound` | `NumbersSurvive`, `FunctionsFound` |

**NapFrames.** For every program (any procedures, call sites and recursion, any set of assembly procedures),
any limit and any register contents; `cfsize` is assumed to be wide enough for the limit.
A return is right because of what was stored calls ago, so `IInv` relates
the whole history of open calls to the machine: who runs (`ControlInv`), where each frame returns
to (`FramesInv`), how high the save area was at each call (`HeightsInv`: one slot for each open
compiled call, so two calls never share a slot), what each slot holds (`SlotsInv`), and that bp is
the stack pointer of the innermost call except between popall and leave, where it is that of the next
(`BpInv`, only without assembly procedures). The bound of the save area follows from `HeightsInv` and the
test in pushall; that of the frames from the test in call. Once the machine is `wild` nothing is claimed
but the type.

**NapChain.** For any number of machines, nested as they like. The difficulty is that one machine, the root,
has several runs open at the same time, one for each call from a child. `RunsInv` says how each run follows
from the one below it, `ParentInv` that each machine but the root has a run and a parent; so the machine an
`ToInterrupt` destroys is in no other run and no machine's parent. `NestedInv` and
`OpenCallInv` say how the call frames of the root grow from run to run: those of a later run are those of the
earlier, a frame for the call from the child, and those of the calls in between. This is what makes a call
leave the parent as it was, and it needs that no function called from a child has failed (`lost`).

**NapRuntime.** For any number of runtimes, scripts, bins and addresses. `BinsInv` says what the bins know of each
address, as long as they were not deleted early: exactly the living compilers that had an object placed have an
index of a bin, and objects of no other compiler are there. Addresses that are used again are the reason it has to
say so of all addresses, not of the compilers. `RunsInv` and `CompilersInv` say whose the compilers and the machines
on the run stack are, `CodeInv` that what did not compile got into no chunk, `CountInv` that machines are only created and
destroyed in step with their owners; it is about cardinalities of finite sets. `NoneAssumption` says that NULL is
not a machine.

**NapArray.** For any shapes, any values and indices. The product of dimensions and the flat index are recursive functions
over the naturals; that they exist and what they compute is proved by induction over their length. The induction
theorems of the library take an operator, which the provers cannot instantiate, so `Least` derives the least element of a
set of naturals from the well-foundedness of `<` and `Induction` the induction over a set; a recursive function is
then constructed argument by argument (`ProductsExist`, `SumsExist`). For dimensions that are equal, or two of which the first is 1, the
flat index is a number of as many digits as the array has dimensions (`SumsBound`, `FlatInMemory`, `FlatInjective`). The state
needs only that the dimensions, the memory and the cells written belong to each other between the instructions (`DimsInv`,
`MemoryInv`, `IndexInv`, `WroteInv`).

**NapMemory.** For any variables, registers and lengths and every depth of the stack. The argument is that blocks are named
after what they were allocated for, and that each holder holds a block with its own name (`NamesInv`, `EntryInv`): the name
tells the owner (`OwnerNames`), so that no block has two (`OwnersDiffer`). Names are given by the model; that a holder keeps a block of
another name is just what a shared pointer would look like, and the reason why the properties, which compare
the pointers and not the names, are theorems and not definitions. `StackInv`, `DefsInv` and `ScopesInv` say which entry of the stack
is the definition of which variable, and that the scopes lie one above the other. `HeapStep` reduces each
instruction to the names it adds and takes away; the long proofs are those of `clrsn` (`CloseIInv`: what is freed
belongs to the entries above the mark, and what stays keeps its place) and of the cleanup (`CleanupIInv`).

**NapProgram.** For any procedures, parameters, globals and limits, with recursion. The stack is anonymous: a
value on it is a parameter only because of its distance from bp. `IInv` gives every entry its place: an
activation begins behind the marker of its function and has, one behind the other, its open calls, each
a marker and the arguments pushed so far (`LayoutInv`, `MarkerInv`, `OrderInv`), and pushall has saved the base
of each activation but the last (`ControlInv`). `PhaseInv` adds that only the last call of an activation can have all its
arguments; `EndBound` follows, how much an activation can have on the stack, and from it that `Needed` entries are
enough for any program (`StackIsEnough`). The refinement mapping reads the parameters of each activation from the
stack; `ActIn` and `CallIn` are the mapping with the stack as a parameter, so that a step which
changes the top leaves alone what is read below it. `ProceduresImplemented` has two hypotheses, both about what the code does not get
right. `OnlyLastAssigned`: an assignment to a parameter that is not the last goes to the last
(`mov.c:1477`). `ReturnsOrRefers`: a procedure does not have both a result and a & parameter, since the copy goes through the
register of the result (`evaluate.cpp:1735`). TLC finds `ImplementsProcedures` violated as soon as one of them is dropped.

**NapStack.** For any tree of blocks and functions. `IInv` describes the stack as the open blocks see
it: each has its marker at its base, the bases rise, between one marker and the next are arguments and the definitions of the
block's own variables, each variable has an instantiation exactly while it is defined, a returned array is right
above the stack pointer on the way back, and the way of a return ends at the function. Its longest lemma is about
the loop of `clrs.c`, a recursive function over the distance it has gone, by induction (`Induction`): before, under way
and behind (`Clear`, `Underway`, `Cleared`), it has taken what is above the marker and nothing below it. With it the eleven
actions are of two kinds, those that enter something and those that leave blocks (`Enters`, `Leaves`), and
the refinement of `ScopeStack` needs to say only what is visible (`Open`) and what is waiting (`Returned`) after each.
The hypothesis `Program` has three parts. `NonRecursive`: functions do not call themselves, directly or not; the run
`NapStackRecursion` shows what happens otherwise. `OwnArrays`: a returned array is defined in the function's own block; TLC
finds `ReturnedArrayFound` violated for one of a nested block (`clrs.c:122`). `ArraysTaken`: the array that a call returns is assigned.
`MarkersStay` and `NoOverrun` also need `RoomEnough`, since push does not look at the size of the stack: a slot for
each marker and variable and for the arguments of each call. For the program of the run these are 19; it has 20.

**NapImage.** For any script, functions, names and widths. The argument follows an operand from the script
to the machine. In the compiler it stands for the entry of a table that has the name of the script (`StandsFor`);
entries are only added and keep their names (`Grow`), and the entry of a label has the place of its last definition,
also when it was used before it was defined (`LabelsInv`). In the file each entry begins where those before it end
(`Layout`, about the concatenation of any number of entries), each table where the one before it ends (`ContentLayout`), and
a magic is only at the beginning of a table, so that the places in the header are right (`Locations`). The loader
stands where the next entry begins, and what it has read of a table is what the compiler had at the same
places (`LoaderInv`). The table of functions is the exception. A function may have
no entry of its own place, because calls of the parent with the name of one before it have entries too, and the
loader does not skip the types of parameters, so that behind the first function that has some it reads parts of entries. `InPlace(m)`
says that neither happens before m, `OwnFirst` that the function's own label is the first with its name, and `Exact` both.
While the next function is in its place the loader stands at its entry (`AtFunction`); when it is not, what has been read
is enough (`Enough`): no later entry is promised anything, and functions in their places never come after one that is not
(`StillEnough`). Where the loader is then in the file is not known, only that it is not behind the last field: in the file
every word of this table is followed by two more fields of its entry (`Framed`). `EveryFunctionFound` needs no assumption on the names of
functions; the first entry with a name is that of the first function of this name (`FirstMethodIs`). For the numbers, the powers of 2 are a recursive function in the module (`Pow2`),
constructed in the proof (`PowersExist`, `Pow2Is`), and `ReadBack` says when a number kept in w bits is the same with its
sign. The widths are assumed to be of increasing size (`BitsAssumption`) and the numbers to fit the largest.

Only model-checked, and why:

- Liveness: `Terminates`, `LoadEnds`, and the fairness behind them, are out of the prover's reach.
- `NapLbf` (`JumpFollowsCondition`, `FlagIsFresh`) uses Bitwise, which the prover cannot use.

## 5. Not modelled, and why

- Arithmetic on numbers, and conversions between ints, reals, bytes and strings in `mov.c` and
  `operation.c`: case analysis on operand types with C arithmetic, no state beyond the target.
- Memory of returned arrays: `restore.c:11` loses the instantiation its target had; NapStack has the
  returned arrays but no memory, NapMemory the memory but no returned arrays.
- pop and poke, which the compiler does not generate; while, whose `jnlbf` (`evaluate.cpp:910`) is an
  opcode the machine does not have; classes, whose generated code is incomplete in the source; a return
  that is not the last statement of a function body, which does not leave (`call_ctx.cpp:452`).
- Error texts: the static buffer of `nbci.c:475`, the constants freed by `nbci_impl.c:789`, the index
  `error_code - 1` of `nbci_impl.c:794`; which code a failing interrupt adds (`nbci.c:423`). The modules
  keep whether there is an error.
- A compiler that compiles a second chunk (`NapImage` compiles one with a new compiler): its tables stay, its labels of
  calls of the parent have lost their prefix, and `max_mark_index` may have been lowered by another compiler in between.
- Interrupt 4 (a chunk from a file), extern variables (a lookup by name through the parents), variables
  and methods used from the host, files in another byte order.
- Parsing and the way names are put together; printing; the command line programs; the extension generator.
- `iconv` and Google Test, which are vendored and make up most of the lines of the repository (some
  116 000 of 140 000): nap-script itself is about a sixth of it, so that the share of all lines that any
  model of it can cover stays small.

## 6. Plan

1. Done: `NapFrames`, `NapStack` with `ScopeStack`, `NapArray`, `NapLbf`, `NapChain`, `NapProgram` with
   `Procedures`, `NapImage`, `NapMemory`, `NapRuntime`; the proofs about all of them but `NapLbf`.
2. Not begun: models of extern variables, interrupt 4 and numeric conversions.
