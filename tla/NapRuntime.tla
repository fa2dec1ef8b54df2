------------------------------ MODULE NapRuntime ------------------------------
(***************************************************************************)
(* A host program with several runtimes (runtime/nap_runtime.cpp), the     *)
(* compilers they and their scripts create (compiler/compiler.cpp, vm/     *)
(* interrupts/intr_2 and intr_3), and the garbage bins all compilers of a  *)
(* process share (compiler/garbage_bin.h).                                 *)
(*                                                                         *)
(* A compiler is known by its address, and an address is used again when   *)
(* its compiler is gone.  A script is a name; what its instructions do is  *)
(* left out, but that it may execute other scripts, end or fail.           *)
(* Allocations succeed.  There is one type of bin, each behaves like it.   *)
(***************************************************************************)
EXTENDS Naturals, Sequences, FiniteSets, SequencesExt

CONSTANTS
  Runtimes,      \* what the host has variables for
  Addresses,     \* where a compiler can be
  Scripts, Bad,  \* Bad: the scripts that do not compile
  None,
  TableSize,     \* MAX_BYTECODE_CHUNKS
  MaxBins,       \* bound: bins in a process
  MaxChunks,     \* bound: scripts the compilers of the runtimes have read
  MaxLost,       \* bound: machines a host replaces
  MaxScripts,    \* bound: scripts a machine executes
  MaxDepth       \* bound: machines running at once

ASSUME RuntimeAssumption ==
  /\ Bad \subseteq Scripts /\ None \notin Addresses \cup Scripts
  /\ TableSize \in Nat \ {0} /\ MaxBins \in Nat

(* NULL is no machine.                                                     *)
ASSUME NoneAssumption ==
  None \notin [chunks : Seq(Seq(Scripts)), allocated : Nat, reg0 : Nat]

VARIABLES
  runtimes,   \* the runtimes alive: compiler, vm, chunks
  compilers,  \* the compilers alive: what they have read, and mErrorCode
  bin,        \* the bins
  run,        \* the machines running, the innermost last
  machines,   \* how many machines are allocated
  status,     \* "running", or "wild" after the use of memory that is not there
  early,      \* history: bins were deleted that a living compiler knew
  lost        \* history: machines the host has replaced

vars == <<runtimes, compilers, bin, run, machines, status, early, lost>>

-----------------------------------------------------------------------------
(* The bins.  minstance is the list of the bins (items); pinstances finds  *)
(* the bin of a compiler.  stale are the compilers that hold a reference   *)
(* to a list that has been deleted.                                        *)

EmptyBins ==
  [minstance |-> FALSE, items |-> {}, pinstances |-> [a \in Addresses |-> 0],
   objects |-> {}, stale |-> {}, leaked |-> FALSE, fault |-> FALSE]

NewBin(g) ==
  {b \in 1 .. MaxBins :
     /\ b \notin g.items
     /\ \A a \in Addresses : g.pinstances[a] # b}

(* A compiler takes its reference to the list when it is made.             *)
Construct(g, a) == [g EXCEPT !.minstance = TRUE, !.stale = @ \ {a}]

(* instance(a).place(object, a)                                            *)
Place(g, a) ==
  LET old == g.pinstances[a]
      new == CHOOSE b \in NewBin(g) : TRUE
  IN  IF old = 0
      THEN [g EXCEPT !.minstance = TRUE, !.items = @ \cup {new},
                     !.pinstances[a] = new, !.objects = @ \cup {<<a, new>>}]
      ELSE IF old \in g.items
      THEN [g EXCEPT !.objects = @ \cup {<<a, old>>}]
      ELSE [g EXCEPT !.fault = TRUE]

(* Mutant of Empty: the objects go, the entry for the address stays.       *)
EmptyMutant(g, a) == [g EXCEPT !.objects = {o \in @ : o[1] # a}]

(* Each bin of the list deletes what it has of a, and whichever it is, it   *)
(* clears the entry of a.                                                  *)
Empty(g, a) ==
  [g EXCEPT !.objects = {o \in @ : o[1] # a},
            !.pinstances[a] = IF g.items = {} THEN @ ELSE 0]

(* ~nap_compiler                                                           *)
Destroy(g, a) ==
  IF ~g.minstance THEN g
  ELSE IF a \in g.stale THEN [g EXCEPT !.fault = TRUE]
  ELSE Empty(g, a)

(* garbage_bin_bin::release and shutdown: the bins are deleted; what is in  *)
(* them is not, and nobody knows it any more.                              *)
Release(g) ==
  [g EXCEPT !.items = {}, !.objects = {}, !.leaked = @ \/ g.objects # {}]

Shutdown(g, alive) ==
  IF ~g.minstance THEN g
  ELSE [Release(g) EXCEPT !.minstance = FALSE, !.stale = alive]

-----------------------------------------------------------------------------
(* The compilers.                                                          *)

Without(f, x) == [y \in DOMAIN f \ {x} |-> f[y]]
With(f, x, v) == [y \in DOMAIN f \cup {x} |-> IF y = x THEN v ELSE f[y]]

NewCompiler == [read |-> <<>>, error |-> FALSE]

Free == Addresses \ DOMAIN compilers

(* Mutant of Read: an earlier error is forgotten.                          *)
ReadMutant(c, s) == [read |-> Append(c.read, s), error |-> s \in Bad]

(* set_source and compile: the expressions and the bytecode are added to   *)
(* what the compiler has, and an error stays.                              *)
Read(c, s) == [read |-> Append(c.read, s), error |-> c.error \/ s \in Bad]

(* Compiling puts objects in the bins or not.                              *)
Compiled(g, a) == {g} \cup (IF g.pinstances[a] = 0 /\ NewBin(g) = {} THEN {} ELSE {Place(g, a)})

(* The bytecode has the code of all scripts the compiler has read, one     *)
(* after the other; the code of the first ends with exit.                  *)
Delivered(c) == c.read
Executed(chunk) == Head(chunk)

Others(a) == DOMAIN compilers \ {a}

-----------------------------------------------------------------------------
(* Machines.                                                               *)

NewMachine == [chunks |-> <<>>, allocated |-> TableSize, reg0 |-> 0]

(* Mutant of AddChunk: the test is one too late.                           *)
AddChunkMutant(m, chunk) ==
  [chunks    |-> Append(m.chunks, chunk),
   allocated |-> IF Len(m.chunks) > m.allocated THEN 2 * m.allocated ELSE m.allocated,
   reg0      |-> Len(m.chunks)]

(* The chunk goes into the table of the machine, which is doubled when it  *)
(* is full, and its index into register 0.                                 *)
AddChunk(m, chunk) ==
  [chunks    |-> Append(m.chunks, chunk),
   allocated |-> IF Len(m.chunks) + 1 > m.allocated THEN 2 * m.allocated ELSE m.allocated,
   reg0      |-> Len(m.chunks)]

(* Mutant of Chosen: always the first chunk.                               *)
ChosenMutant(m) == m.chunks[1]

Chosen(m) == m.chunks[m.reg0 + 1]

(* The cleanup walks the whole table; what realloc has added is not zero.  *)
CleanupOutcomes(m) == IF m.allocated > TableSize THEN {"running", "wild"} ELSE {"running"}

(* A machine that runs a chunk.  asked is the script it was compiled from,  *)
(* compiler that of nap_execute_code, which waits for the end.             *)
Run(kind, r, compiler, asked, chunk) ==
  [kind |-> kind, of |-> r, compiler |-> compiler, asked |-> asked, chunk |-> chunk,
   vm |-> NewMachine, failed |-> FALSE]

Running == status = "running"
InHost  == Running /\ run = <<>>
Top     == Last(run)
InRun   == Running /\ run # <<>> /\ ~Top.failed

(* The machine that executes: that of the runtime, or a child.             *)
Machine == IF Top.kind = "execute" THEN runtimes[Top.of].vm ELSE Top.vm

After(g) == IF g.fault THEN "wild" ELSE "running"

Init ==
  /\ runtimes = <<>> /\ compilers = <<>>
  /\ bin = EmptyBins
  /\ run = <<>>
  /\ machines = 0
  /\ status = "running"
  /\ early = FALSE
  /\ lost = 0

-----------------------------------------------------------------------------
(* The host.                                                               *)

(* nap_runtime_create                                                      *)
Create(r) ==
  /\ InHost /\ r \notin DOMAIN runtimes
  /\ \E a \in Free :
       /\ compilers' = With(compilers, a, NewCompiler)
       /\ bin' = Construct(bin, a)
       /\ runtimes' = With(runtimes, r, [compiler |-> a, vm |-> None, chunks |-> <<>>])
  /\ UNCHANGED <<run, machines, status, early, lost>>

(* nap_runtime_compile                                                     *)
CompileChunk(r, s) ==
  LET a == runtimes[r].compiler
      c == Read(compilers[a], s)
  IN
  /\ InHost /\ r \in DOMAIN runtimes
  /\ \E g \in Compiled(bin, a) : bin' = g /\ status' = After(g)
  /\ compilers' = [compilers EXCEPT ![a] = c]
  /\ FoldFunction(LAMBDA x, n : Len(x.read) + n, 0, compilers') <= MaxChunks
  /\ runtimes' = IF c.error THEN runtimes
                 ELSE [runtimes EXCEPT ![r].chunks = Append(@, Delivered(c))]
  /\ UNCHANGED <<run, machines, early, lost>>

(* nap_runtime_execute: the machine before is not cleaned up.  A chunk is   *)
(* named for the last of its scripts.                                      *)
Execute(r, chunk) ==
  /\ InHost /\ r \in DOMAIN runtimes /\ chunk \in Range(runtimes[r].chunks)
  /\ lost' = IF runtimes[r].vm = None THEN lost ELSE lost + 1
  /\ lost' <= MaxLost
  /\ runtimes' = [runtimes EXCEPT ![r].vm = NewMachine]
  /\ run' = <<Run("execute", r, None, Last(chunk), chunk)>>
  /\ machines' = machines + 1
  /\ UNCHANGED <<compilers, bin, status, early>>

(* nap_execute_code.  The compiler of a script that does not compile goes   *)
(* at once.  Without a machine of the runtime vm is NULL.                  *)
ExecuteCode(r, s) ==
  LET c == Read(NewCompiler, s)
      vm == runtimes[r].vm
  IN
  /\ InHost /\ r \in DOMAIN runtimes
  /\ \E a \in Free : \E g \in Compiled(Construct(bin, a), a) :
       \/ /\ c.error
          /\ bin' = Destroy(g, a)
          /\ status' = After(bin')
          /\ UNCHANGED <<runtimes, compilers, run, machines>>
       \/ /\ ~c.error /\ vm = None
          /\ status' = "wild"
          /\ UNCHANGED <<runtimes, compilers, bin, run, machines>>
       \/ /\ ~c.error /\ vm # None
          /\ Len(vm.chunks) < MaxScripts
          /\ bin' = g
          /\ status' = After(g)
          /\ compilers' = With(compilers, a, c)
          /\ runtimes' = [runtimes EXCEPT ![r].vm = AddChunk(vm, Delivered(c))]
          /\ run' = <<Run("code", r, a, s, Chosen(runtimes'[r].vm))>>
          /\ machines' = machines + 1
  /\ UNCHANGED <<early, lost>>

(* nap_runtime_shutdown.  The parser of a compiler that has never had a     *)
(* source is a pointer nobody has set.                                     *)
ShutdownRuntime(r) ==
  LET a  == runtimes[r].compiler
      vm == runtimes[r].vm
  IN
  /\ InHost /\ r \in DOMAIN runtimes
  /\ bin' = Shutdown(Destroy(bin, a), Others(a))
  /\ early' = (early \/ Others(a) # {})
  /\ status' \in {After(bin')}
                \cup (IF compilers[a].read = <<>> THEN {"wild"} ELSE {})
                \cup (IF vm = None THEN {} ELSE CleanupOutcomes(vm))
  /\ bin'.fault => status' = "wild"
  /\ compilers' = Without(compilers, a)
  /\ runtimes' = Without(runtimes, r)
  /\ machines' = IF vm = None THEN machines ELSE machines - 1
  /\ UNCHANGED <<run, lost>>

-----------------------------------------------------------------------------
(* The scripts.                                                            *)

(* nap_execute in a script: interrupt 2 compiles and interrupt 3 runs.      *)
NapExecute(s) ==
  LET c == Read(NewCompiler, s)
      m == AddChunk(Machine, Delivered(c))
      child == Run("script", Top.of, None, s, Chosen(m))
  IN
  /\ InRun /\ ~c.error
  /\ Len(run) < MaxDepth /\ Len(Machine.chunks) < MaxScripts
  /\ \E a \in Free : \E g \in Compiled(Construct(bin, a), a) :
       bin' = Destroy(Empty(g, a), a) /\ status' = After(bin')
  /\ IF Top.kind = "execute"
     THEN /\ runtimes' = [runtimes EXCEPT ![Top.of].vm = m]
          /\ run' = Append(run, child)
     ELSE /\ run' = Append([run EXCEPT ![Len(run)].vm = m], child)
          /\ UNCHANGED runtimes
  /\ machines' = machines + 1
  /\ UNCHANGED <<compilers, early, lost>>

(* The script does not compile: the interrupt deletes the bins of all       *)
(* compilers, and the machine stops.                                       *)
NapExecuteBad(s) ==
  /\ InRun /\ Read(NewCompiler, s).error
  /\ \E a \in Free : \E g \in Compiled(Construct(bin, a), a) :
       bin' = Release(Destroy(g, a)) /\ status' = After(bin')
  /\ early' = (early \/ \E b \in DOMAIN compilers : bin.pinstances[b] # 0)
  /\ run' = [run EXCEPT ![Len(run)].failed = TRUE]
  /\ UNCHANGED <<runtimes, compilers, machines, lost>>

(* Another instruction fails.                                              *)
Fail ==
  /\ InRun
  /\ run' = [run EXCEPT ![Len(run)].failed = TRUE]
  /\ UNCHANGED <<runtimes, compilers, bin, machines, status, early, lost>>

(* Mutants of Finish: a failure returns before the machine, or before the   *)
(* compiler, is released.                                                  *)
FinishMachineMutant ==
  LET below == Front(run) IN
  /\ run' = IF below # <<>> /\ Top.failed
            THEN [below EXCEPT ![Len(below)].failed = TRUE] ELSE below
  /\ IF Top.kind = "execute"
     THEN UNCHANGED <<machines, compilers, bin, status>>
     ELSE /\ machines' = IF Top.failed THEN machines ELSE machines - 1
          /\ status' \in CleanupOutcomes(Top.vm)
          /\ IF Top.kind = "script" THEN UNCHANGED <<compilers, bin>>
             ELSE /\ compilers' = Without(compilers, Top.compiler)
                  /\ bin' = Destroy(bin, Top.compiler)

FinishCompilerMutant ==
  LET below == Front(run) IN
  /\ run' = IF below # <<>> /\ Top.failed
            THEN [below EXCEPT ![Len(below)].failed = TRUE] ELSE below
  /\ IF Top.kind = "execute"
     THEN UNCHANGED <<machines, compilers, bin, status>>
     ELSE /\ machines' = machines - 1
          /\ status' \in CleanupOutcomes(Top.vm)
          /\ IF Top.kind = "script" \/ Top.failed THEN UNCHANGED <<compilers, bin>>
             ELSE /\ compilers' = Without(compilers, Top.compiler)
                  /\ bin' = Destroy(bin, Top.compiler)

(* A child that has ended is cleaned up, and a failure is one of its        *)
(* parent; nap_execute_code releases its compiler.                         *)
Finish ==
  LET below == Front(run) IN
  /\ run' = IF below # <<>> /\ Top.failed
            THEN [below EXCEPT ![Len(below)].failed = TRUE] ELSE below
  /\ IF Top.kind = "execute"
     THEN UNCHANGED <<machines, compilers, bin, status>>
     ELSE /\ machines' = machines - 1
          /\ IF Top.kind = "script" THEN UNCHANGED <<compilers, bin>>
             ELSE /\ compilers' = Without(compilers, Top.compiler)
                  /\ bin' = Destroy(bin, Top.compiler)
          /\ status' \in CleanupOutcomes(Top.vm) \cup {After(bin')}
          /\ bin'.fault => status' = "wild"

End ==
  /\ InRun
  /\ Finish
  /\ UNCHANGED <<runtimes, early, lost>>

Unwind ==
  /\ Running /\ run # <<>> /\ Top.failed
  /\ Finish
  /\ UNCHANGED <<runtimes, early, lost>>

Next ==
  \/ \E r \in Runtimes : Create(r) \/ ShutdownRuntime(r)
  \/ \E r \in DOMAIN runtimes :
       \/ \E s \in Scripts : CompileChunk(r, s) \/ ExecuteCode(r, s)
       \/ \E chunk \in Range(runtimes[r].chunks) : Execute(r, chunk)
  \/ \E s \in Scripts : NapExecute(s) \/ NapExecuteBad(s)
  \/ Fail
  \/ End
  \/ Unwind

Spec == Init /\ [][Next]_vars

-----------------------------------------------------------------------------
(* Properties.                                                             *)

(* Bins that are gone are used only after they have been deleted under a    *)
(* living compiler: by interrupt 2 when a script does not compile          *)
(* (intr_2.cpp:79), or by the shutdown of another runtime                  *)
(* (nap_runtime.cpp:264).  In all other programs addresses may be used     *)
(* again as they come.                                                     *)
BinsStay == bin.fault => early

(* When the host has control the compilers of scripts are gone, however     *)
(* deep a script has failed (nap_runtime.cpp:387-479); the objects of a    *)
(* compiler go with it, and none is left in a bin that is deleted, but     *)
(* where bins go under a living compiler.                                  *)
CompilersGo ==
  /\ InHost => DOMAIN compilers = {runtimes[r].compiler : r \in DOMAIN runtimes}
  /\ Running => /\ {o[1] : o \in bin.objects} \subseteq DOMAIN compilers
                /\ bin.leaked => early

(* The machines are those of the runtimes, the children that are running,   *)
(* and those the host has replaced, which nobody frees                     *)
(* (nap_runtime.cpp:134).                                                  *)
MachinesKnown ==
  Running =>
    machines = Cardinality({r \in DOMAIN runtimes : runtimes[r].vm # None})
               + Cardinality({i \in DOMAIN run : run[i].kind # "execute"}) + lost

(* A machine runs the script that was asked for, with machines that have    *)
(* run several scripts below it; but the second chunk of a runtime runs    *)
(* the code of the first.                                                  *)
RunsTheScript ==
  \A i \in DOMAIN run :
    \/ Executed(run[i].chunk) = run[i].asked
    \/ run[i].kind = "execute" /\ Len(run[i].chunk) > 1

(* No chunk is written behind the end of its table (intr_2.cpp:54).         *)
TableHolds ==
  /\ \A r \in DOMAIN runtimes :
       runtimes[r].vm # None => Len(runtimes[r].vm.chunks) <= runtimes[r].vm.allocated
  /\ \A i \in DOMAIN run : Len(run[i].vm.chunks) <= run[i].vm.allocated

(* No code of a script that does not compile is executed, as part of a      *)
(* later chunk either (mErrorCode, compiler.cpp:133).                      *)
NoBadCode ==
  /\ \A r \in DOMAIN runtimes : \A c \in Range(runtimes[r].chunks) : Range(c) \cap Bad = {}
  /\ \A i \in DOMAIN run : Range(run[i].chunk) \cap Bad = {}
=============================================================================
