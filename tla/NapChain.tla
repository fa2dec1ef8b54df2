------------------------------- MODULE NapChain -------------------------------
(***************************************************************************)
(* Machines within machines.  A host program runs a machine (the root) and *)
(* executes further scripts in children of it (nap_execute_code of         *)
(* runtime/nap_runtime.cpp); a running script executes further scripts in  *)
(* children of its own machine (interrupt 3).  The code of a child may     *)
(* call a function of its parent (vm/call.c), which runs the parent again, *)
(* above the child on the stack of the C program, although the parent may  *)
(* be in the middle of the interrupt that runs the child.                  *)
(*                                                                         *)
(* An instruction takes two addresses, its opcode and its operand.  Which  *)
(* instruction stands at an address is left open, but for the end of the   *)
(* global code and of the functions.  A step is an instruction, or the C   *)
(* code behind a nap_vm_run that has ended.                                *)
(***************************************************************************)
EXTENDS Integers, Sequences, SequencesExt

CONSTANTS
  MaxMachines,   \* bound of the machines alive at a time
  MaxFrames,     \* bound of the open calls of a machine
  MaxSp,         \* bound of what a script pushes
  Results,       \* values functions return
  NoResult,
  Below          \* what is in the memory before the save area

ASSUME BoundsAssumption ==
  MaxMachines \in Nat \ {0} /\ MaxFrames \in Nat /\ MaxSp \in Nat
  /\ NoResult \notin Results /\ Below \in Int

VARIABLES
  vm,       \* the machines alive, by number
  active,   \* the calls of nap_vm_run in progress, the innermost last
  status,   \* of the process: "running", "exit(5)" or "wild"
  lost      \* history: a function called by a child has failed

vars == <<vm, active, status, lost>>

-----------------------------------------------------------------------------
(* The layout of a bytecode: the header, global code up to exit, functions *)
(* up to their last instructions (clrsn, popall, leave), the tables.       *)

Header   == 0
First    == 1
ExitAt   == 5
MethodAt == 7
LeaveAt  == 9
Meta     == 11
CcMod    == 13          \* 2^64, the width of cc
Fake     == CcMod - 1   \* the return address of a call from a child

Plain == {1, 3, 7}      \* where any instruction may stand

Machines == 1 .. MaxMachines
Root     == 1
None     == 0

(* A machine; error is whether its error_code is not zero.                 *)
New(parent) ==
  [parent |-> parent, cc |-> First, frames |-> <<>>, sp |-> -1, bp |-> 0,
   error |-> FALSE, rv |-> NoResult]

(* A call of nap_vm_run: ended and failed are how its loop ended, sp and   *)
(* bp the locals parent_sp and parent_bp of nap_call, frames and result    *)
(* history: the call frames at its start, and what the function returned.  *)
Run(m, why) ==
  [vm |-> m, why |-> why, ended |-> FALSE, failed |-> FALSE, result |-> NoResult,
   sp |-> vm[m].sp, bp |-> vm[m].bp, frames |-> vm[m].frames]

Top == Last(active)
M   == Top.vm
Me  == vm[M]

Free == {m \in Machines \ DOMAIN vm : \A n \in Machines \ DOMAIN vm : m <= n}

Executing(addresses) ==
  status = "running" /\ active # <<>> /\ ~Top.ended /\ Me.cc \in addresses

Ended(why) == status = "running" /\ active # <<>> /\ Top.ended /\ Top.why = why

(* The innermost run ends, with success or failure.                        *)
End(failure) ==
  active' = [active EXCEPT ![Len(active)].ended = TRUE, ![Len(active)].failed = failure]

Without(m) == [i \in DOMAIN vm \ {m} |-> vm[i]]

Start(m, parent) == [i \in DOMAIN vm \cup {m} |-> IF i = m THEN New(parent) ELSE vm[i]]

Child(m, why) ==
  [vm |-> m, why |-> why, ended |-> FALSE, failed |-> FALSE, result |-> NoResult,
   sp |-> -1, bp |-> 0, frames |-> <<>>]

Init ==
  /\ vm = [i \in {Root} |-> New(None)]
  /\ active = <<Child(Root, "host")>>
  /\ status = "running"
  /\ lost = FALSE

-----------------------------------------------------------------------------
(* Instructions.                                                           *)

(* Any instruction that does its work, d entries on the stack.             *)
Work(d) ==
  /\ Executing(Plain)
  /\ Me.sp + d <= MaxSp
  /\ vm' = [vm EXCEPT ![M].cc = @ + 2, ![M].sp = @ + d]
  /\ UNCHANGED <<active, status, lost>>

(* Mutant of Fail: the machine is freed by its own run.                    *)
FailMutant(read) ==
  /\ Executing(Plain)
  /\ vm' = Without(M)
  /\ End(TRUE)
  /\ UNCHANGED <<status, lost>>

(* One that fails, before or after it has read its operand; a call or a    *)
(* pushall at the limit of recursion is one.  Its opcode has an error code *)
(* (restore and clidx have none, and the code generated never makes them   *)
(* fail).                                                                  *)
Fail(read) ==
  /\ Executing(Plain)
  /\ vm' = [vm EXCEPT ![M].cc = @ + read,
                      ![M].error = TRUE]
  /\ End(TRUE)
  /\ UNCHANGED <<status, lost>>

(* nap_call of a function of the machine itself, with its pushall.         *)
Call ==
  /\ Executing(Plain)
  /\ Len(Me.frames) < MaxFrames
  /\ vm' = [vm EXCEPT ![M].frames = Append(@, [ret |-> Me.cc + 2, bp |-> Me.sp]),
                      ![M].bp = Me.sp, ![M].cc = MethodAt]
  /\ UNCHANGED <<active, status, lost>>

(* The compiler finds a function in any ancestor (call_ctx.cpp:124), the   *)
(* machine only in its parent.  Here the root is the one that has it.      *)
HasMethod(m) == m = Root

(* nap_call of a function of the parent: the stack of the child is copied  *)
(* onto that of the parent, and the parent is run at the function.         *)
CallParent ==
  /\ Executing(Plain) /\ Me.parent # None /\ HasMethod(Me.parent)
  /\ Len(vm[Me.parent].frames) < MaxFrames
  /\ LET p == Me.parent  sp == vm[p].sp + Me.sp + 1 IN
       /\ vm' = [vm EXCEPT ![M].cc = @ + 2,
                           ![p].cc = MethodAt, ![p].sp = sp, ![p].bp = sp,
                           ![p].frames = Append(@, [ret |-> Fake, bp |-> sp])]
       /\ active' = Append(active, Run(p, "call"))
  /\ UNCHANGED <<status, lost>>

CallMissing ==
  /\ Executing(Plain) /\ Me.parent # None /\ ~HasMethod(Me.parent)
  /\ vm' = [vm EXCEPT ![M].cc = @ + 2,
                      ![M].error = TRUE]
  /\ End(TRUE)
  /\ UNCHANGED <<status, lost>>

(* The end of a function that returns x: return and the rest.              *)
Return(x) ==
  /\ Executing(Plain) /\ Me.cc >= MethodAt
  /\ vm' = [vm EXCEPT ![M].cc = LeaveAt, ![M].rv = x]
  /\ active' = [active EXCEPT ![Len(active)].result =
                  IF Len(Me.frames) = Len(Top.frames) + 1 THEN x ELSE @]
  /\ UNCHANGED <<status, lost>>

(* Mutant of Leave: the frame stays.                                       *)
LeaveMutant ==
  /\ Executing({LeaveAt})
  /\ vm' = [vm EXCEPT ![M].cc = Last(Me.frames).ret, ![M].sp = Last(Me.frames).bp]
  /\ UNCHANGED <<active, status, lost>>

(* clrsn, popall and leave.  clrsn goes back to the marker of the function,*)
(* popall takes bp from the slot below, for the first outside of the save  *)
(* area.                                                                   *)
Leave ==
  /\ Executing({LeaveAt})
  /\ LET n == Len(Me.frames) IN
       vm' = [vm EXCEPT ![M].cc = Me.frames[n].ret, ![M].frames = Front(@),
                        ![M].sp = Me.frames[n].bp,
                        ![M].bp = IF n > 1 THEN Me.frames[n - 1].bp ELSE Below]
  /\ UNCHANGED <<active, status, lost>>

Exit ==
  /\ Executing({ExitAt})
  /\ vm' = [vm EXCEPT ![M].cc = @ + 1]
  /\ End(FALSE)
  /\ UNCHANGED <<status, lost>>

(* The loop of nap_vm_run ends at an address behind the code.              *)
LoopEnds ==
  /\ Executing(Meta .. CcMod - 1)
  /\ End(FALSE)
  /\ UNCHANGED <<vm, status, lost>>

(* An address where no instruction begins.  The header is no opcode the    *)
(* machine has, and the process ends; elsewhere it does whatever it finds. *)
Astray ==
  /\ Executing(0 .. Meta - 1 \ (Plain \cup {ExitAt, LeaveAt}))
  /\ status' = IF Me.cc = Header THEN "exit(5)" ELSE "wild"
  /\ UNCHANGED <<vm, active, lost>>

(* Interrupt 3 runs a child; the instruction pointer of the parent stays   *)
(* at the number of the interrupt.                                         *)
Execute(m) ==
  /\ Executing(Plain) /\ m \in Free
  /\ vm' = [Start(m, M) EXCEPT ![M].cc = @ + 1]
  /\ active' = Append(active, Child(m, "execute"))
  /\ UNCHANGED <<status, lost>>

(* nap_vm_inject gives no machine.                                         *)
CannotCreate ==
  /\ Executing(Plain)
  /\ vm' = [vm EXCEPT ![M].cc = @ + 1,
                      ![M].error = TRUE]
  /\ End(TRUE)
  /\ UNCHANGED <<status, lost>>

-----------------------------------------------------------------------------
(* The C code behind a run that has ended.                                 *)

(* Mutant of ToInterrupt: the error of the child is not taken over.        *)
ToInterruptMutant ==
  /\ Ended("execute")
  /\ LET p == Me.parent IN
       vm' = [Without(M) EXCEPT ![p].cc = (@ + 1) % CcMod]
  /\ active' = Front(active)
  /\ UNCHANGED <<status, lost>>

(* In interrupt 3.  An error of the child is one of its parent, whose run  *)
(* ends.                                                                   *)
ToInterrupt ==
  /\ Ended("execute")
  /\ LET p == Me.parent  n == Len(active) - 1 IN
       IF Me.error
       THEN /\ vm' = [Without(M) EXCEPT ![p].error = TRUE]
            /\ active' = [Front(active) EXCEPT ![n].ended = TRUE, ![n].failed = TRUE]
       ELSE /\ vm' = [Without(M) EXCEPT ![p].cc = (@ + 1) % CcMod]
            /\ active' = Front(active)
  /\ UNCHANGED <<status, lost>>

(* Mutants of ToCaller: bp stays; the return value is not fetched; the     *)
(* error of the parent is taken over and the child goes on.                *)
ToCallerBpMutant ==
  /\ Ended("call")
  /\ LET c == active[Len(active) - 1].vm IN
       vm' = [vm EXCEPT ![M].sp = Top.sp, ![c].rv = Me.rv]
  /\ active' = Front(active)
  /\ lost' = (lost \/ Top.failed)
  /\ UNCHANGED status

ToCallerRvMutant ==
  /\ Ended("call")
  /\ vm' = [vm EXCEPT ![M].sp = Top.sp, ![M].bp = Top.bp]
  /\ active' = Front(active)
  /\ lost' = (lost \/ Top.failed)
  /\ UNCHANGED status

(* In nap_call of the child, whatever has become of the function.          *)
ToCaller ==
  /\ Ended("call")
  /\ LET c == active[Len(active) - 1].vm IN
       vm' = [vm EXCEPT ![M].sp = Top.sp, ![M].bp = Top.bp, ![c].rv = Me.rv]
  /\ active' = Front(active)
  /\ lost' = (lost \/ Top.failed)
  /\ UNCHANGED status

(* In nap_runtime_execute, or in nap_execute_code, which takes over the    *)
(* error or the return values.                                             *)
ToHost ==
  /\ Ended("host")
  /\ vm' = IF M = Root THEN vm
           ELSE IF Me.error THEN [Without(M) EXCEPT ![Root].error = TRUE]
           ELSE [Without(M) EXCEPT ![Root].rv = Me.rv]
  /\ active' = Front(active)
  /\ UNCHANGED <<status, lost>>

(* nap_execute_code, when no machine runs.                                 *)
HostExecute(m) ==
  /\ status = "running" /\ active = <<>> /\ m \in Free
  /\ vm' = Start(m, Root)
  /\ active' = <<Child(m, "host")>>
  /\ UNCHANGED <<status, lost>>

Next ==
  \/ \E d \in {0, 1} : Work(d)
  \/ \E read \in {1, 2} : Fail(read)
  \/ Call
  \/ CallParent
  \/ CallMissing
  \/ \E x \in Results : Return(x)
  \/ Leave
  \/ Exit
  \/ LoopEnds
  \/ Astray
  \/ \E m \in Free : Execute(m)
  \/ CannotCreate
  \/ ToInterrupt
  \/ ToCaller
  \/ ToHost
  \/ \E m \in Free : HostExecute(m)

Spec == Init /\ [][Next]_vars

-----------------------------------------------------------------------------
(* Properties.                                                             *)

Addresses == 0 .. CcMod - 1

(* A machine of which a run is in progress is alive, and so are all its    *)
(* ancestors, on whose functions and variables it may call; however the    *)
(* runs of root and children are nested, a machine is freed only when no   *)
(* run of it is left.                                                      *)
RunningMachinesLive ==
  \A i \in 1 .. Len(active) :
    /\ active[i].vm \in DOMAIN vm
    /\ vm[active[i].vm].parent # None => vm[active[i].vm].parent \in DOMAIN vm

(* A function of the parent that has returned leaves the parent's stack    *)
(* pointer, base pointer and call frames as the call found them, whatever  *)
(* it called and executed itself (call.c:89-91 puts back only the first    *)
(* two; a function that fails leaves its frames, and the property is about *)
(* programs none of whose functions called by children have failed).       *)
CallsLeaveParent ==
  [][ Len(active') < Len(active) /\ Top.why = "call" /\ ~lost' =>
        /\ vm'[M].frames = Top.frames
        /\ vm'[M].sp = Top.sp
        /\ vm'[M].bp = Top.bp ]_vars

(* The child that called a function of its parent finds the value that     *)
(* call returned, also when functions of the parent were called in         *)
(* between by machines the function executed (call.c:93).                  *)
ResultArrives ==
  [][ Len(active') < Len(active) /\ Top.why = "call" /\ ~lost' /\ Top.result # NoResult =>
        vm'[Last(active').vm].rv = Top.result ]_vars

(* A script that fails makes the script that executed it fail, and so on   *)
(* to the host or to the call into a parent (intr_3.c:29, nbci_impl.c:710).*)
FailureTravels ==
  [][ Len(active') < Len(active) /\ Top.why = "execute" /\ Top.failed =>
        Last(active').failed ]_vars

(* When control is with the host and no error was recorded in the root, no *)
(* call of the root is open: the host may call its functions for ever      *)
(* without filling its call frames, which call.c:76 does not check.        *)
IdleRootHasNoFrames ==
  status = "running" /\ active = <<>> /\ ~vm[Root].error => vm[Root].frames = <<>>

(* vm/call.c:71: that the return address of a call from a child is no      *)
(* address "will not affect the correct functionality".  The machine that  *)
(* runs is at an instruction, or its run is over.                          *)
RunsCode ==
  Executing(Addresses) => Me.cc \in Plain \cup {ExitAt, LeaveAt} \cup Meta .. CcMod - 1
=============================================================================
