------------------------------ MODULE NapProgram ------------------------------
(***************************************************************************)
(* Calls with arguments: the operand stack, the base pointer, the register *)
(* save area and the frames of a nap machine together, under the code the  *)
(* compiler generates for call expressions (compiler/evaluate.cpp          *)
(* 1569-1750) and for functions (compiler/call_ctx.cpp 411-454).           *)
(*                                                                         *)
(* A call pushes a marker and its arguments; call sets bp to the stack     *)
(* pointer, so that parameter i of n is the entry n - i below bp; the      *)
(* function pushes a marker of its own.  Parameters are ints.  The         *)
(* procedures and whom they call are constants, what they do is not: an    *)
(* activation evaluates, assigns and calls in any order, MaxSteps times.   *)
(***************************************************************************)
EXTENDS Integers, Sequences, FiniteSets, FiniteSetsExt

CONSTANTS
  Procs, Main,
  Params,            \* [Procs -> Nat], the number of parameters
  Refs,              \* [Procs -> SUBSET Nat], the parameters declared with &
  Returns,           \* [Procs -> BOOLEAN]
  Assigns,           \* [Procs -> SUBSET Nat], the parameters a body assigns
  Callees,             \* [Procs -> SUBSET Procs]
  Globals, NoGlobal,
  Values, NoValue,
  DeepestRecursion,  \* config->deepest_recursion
  StackSize,         \* STACK_INIT
  MaxSteps,          \* bound: expressions a body evaluates
  MaxNesting,        \* bound: calls in the arguments of calls
  Garbage            \* what the slot below the first of ebp_stack may hold

ASSUME ProgramAssumption ==
  /\ Main \in Procs /\ IsFiniteSet(Procs)
  /\ Params \in [Procs -> Nat]
  /\ \A p \in Procs : Refs[p] \subseteq 1 .. Params[p] /\ Assigns[p] \subseteq 1 .. Params[p]
  /\ Returns \in [Procs -> BOOLEAN]
  /\ Callees \in [Procs -> SUBSET (Procs \ {Main})]
  /\ Params[Main] = 0
  /\ NoGlobal \notin Globals /\ NoValue \notin Values
ASSUME LimitsAssumption ==
  DeepestRecursion \in Nat \ {0} /\ StackSize \in Nat \ {0}
  /\ MaxSteps \in Nat /\ MaxNesting \in Nat /\ Garbage \subseteq Int

VARIABLES
  stack,       \* stack[0 .. stack_pointer], as a sequence
  bp,          \* the length of the stack bp stands for
  saved,       \* regi_stack and ebp_stack, up to reg_stack_idx
  ctl,         \* where the program is: call_frames, and the calls being compiled
  global,      \* the values of the global variables
  regi,        \* the int register of this level
  known,       \* whether it holds the value of the expression just evaluated
  rvi,
  status       \* "running", "exited", "failed" or "overrun"

vars == <<stack, bp, saved, ctl, global, regi, known, rvi, status>>

-----------------------------------------------------------------------------
Arg(v)        == [kind |-> "arg", of |-> v]
CallMarker(q) == [kind |-> "call", of |-> q]
FunMarker(q)  == [kind |-> "fun", of |-> q]

(* The last expression of a procedure with a result is that of its return. *)
Steps(p) == IF Returns[p] THEN MaxSteps + 1 ELSE MaxSteps

Activation(p) == [proc |-> p, left |-> Steps(p), calls |-> <<>>]

Cfsize == Len(ctl) - 1
Depth  == Len(ctl)
Top    == ctl[Depth]
NCalls == Len(Top.calls)
Here   == Top.calls[NCalls]      \* the call expression the program is in

Running    == status = "running"
InBody     == Running /\ NCalls = 0
InCall(ph) == Running /\ NCalls # 0 /\ Here.phase = ph

(* The parameter the next argument is for, and whether it is passed by     *)
(* value.                                                                  *)
NextPar == Len(Here.into) + 1
ByValue == NextPar \in (1 .. Params[Here.callee]) \ Refs[Here.callee]

(* A new expression may start: in a statement, or as an argument.          *)
Expression == \/ InBody /\ Top.left > 0
              \/ InCall("args") /\ ByValue /\ ~known

(* The value of an expression may be assigned.                             *)
Assigning == InBody /\ known /\ (Returns[Top.proc] => Top.left > 0)

Step(a)     == IF NCalls = 0 THEN [a EXCEPT !.left = @ - 1] ELSE a
WithCall(c) == [ctl EXCEPT ![Depth].calls[NCalls] = c]

(* The entry of parameter i of p below a base.                             *)
Slot(p, base, i) == base - (Params[p] - i)

(* peek bp int n - i                                                       *)
Peek(i) == stack[Slot(Top.proc, bp, i)].of

Init ==
  /\ stack = <<>>
  /\ bp = 1
  /\ saved = <<>>
  /\ ctl = <<Activation(Main)>>
  /\ global \in [Globals -> Values]
  /\ regi \in Values
  /\ known = FALSE
  /\ rvi \in Values
  /\ status = "running"

(* mov reg int, of a number, of a global variable, of a parameter          *)
Load ==
  /\ Expression
  /\ regi' \in Values \cup {global[g] : g \in Globals}
                      \cup {Peek(i) : i \in 1 .. Params[Top.proc]}
  /\ known' = TRUE
  /\ ctl' = [ctl EXCEPT ![Depth] = Step(@)]
  /\ UNCHANGED <<stack, bp, saved, global, rvi, status>>

AssignGlobal(g) ==
  /\ Assigning
  /\ global' = [global EXCEPT ![g] = regi]
  /\ known' = FALSE
  /\ UNCHANGED <<stack, bp, saved, ctl, regi, rvi, status>>

(* mov peek bp int n - i, reg int: the index is an operand of the - that    *)
(* belongs to the other branch of the conditional, so it is not used.      *)
AssignParam(i) ==
  /\ Assigning
  /\ i \in Assigns[Top.proc]
  /\ stack' = [stack EXCEPT ![bp].of = regi]
  /\ known' = FALSE
  /\ UNCHANGED <<bp, saved, ctl, global, regi, rvi, status>>

(* marksn of a call expression                                             *)
Begin(q) ==
  /\ Expression /\ NCalls < MaxNesting
  /\ NCalls = 0 /\ Top.left = 1 /\ Returns[Top.proc] => Returns[q]
  /\ NCalls # 0 => Returns[q]
  /\ q \in Callees[Top.proc]
  /\ stack' = Append(stack, CallMarker(q))
  /\ ctl' = [ctl EXCEPT ![Depth] =
       [Step(Top) EXCEPT !.calls = Append(@,
          [callee |-> q, at |-> Len(stack) + 1, into |-> <<>>, phase |-> "args", todo |-> {}])]]
  /\ known' = FALSE
  /\ status' = IF Len(stack) = StackSize THEN "overrun" ELSE status
  /\ UNCHANGED <<bp, saved, global, regi, rvi>>

(* push reg int                                                            *)
PushValue ==
  /\ InCall("args") /\ known /\ ByValue
  /\ stack' = Append(stack, Arg(regi))
  /\ ctl' = WithCall([Here EXCEPT !.into = Append(@, NoGlobal)])
  /\ known' = FALSE
  /\ status' = IF Len(stack) = StackSize THEN "overrun" ELSE status
  /\ UNCHANGED <<bp, saved, global, regi, rvi>>

(* mov reg int g, push reg int: the argument of a reference parameter is a  *)
(* variable, and the compiler remembers which.                             *)
PushVariable(g) ==
  /\ InCall("args") /\ ~known
  /\ NextPar \in Refs[Here.callee]
  /\ stack' = Append(stack, Arg(global[g]))
  /\ regi' = global[g]
  /\ ctl' = WithCall([Here EXCEPT !.into = Append(@, g)])
  /\ status' = IF Len(stack) = StackSize THEN "overrun" ELSE status
  /\ UNCHANGED <<bp, saved, global, known, rvi>>

ArgumentsDone == InCall("args") /\ ~known /\ Len(Here.into) = Params[Here.callee]

(* Mutant of TooDeep: pushall has no limit.                                *)
TooDeepMutant == Cfsize = DeepestRecursion

TooDeep == Cfsize = DeepestRecursion \/ Len(saved) + 1 = DeepestRecursion

(* call; pushall and the marksn of the function                            *)
Call ==
  /\ ArgumentsDone /\ ~TooDeep
  /\ bp' = Len(stack)
  /\ saved' = Append(saved, [regi |-> regi, bp |-> bp'])
  /\ ctl' = Append(WithCall([Here EXCEPT !.phase = "active"]), Activation(Here.callee))
  /\ stack' = Append(stack, FunMarker(Here.callee))
  /\ status' = IF Len(stack) = StackSize THEN "overrun" ELSE status
  /\ UNCHANGED <<global, regi, known, rvi>>

CallTooDeep ==
  /\ ArgumentsDone /\ TooDeep
  /\ status' = "failed"
  /\ UNCHANGED <<stack, bp, saved, ctl, global, regi, known, rvi>>

(* clrsn: what is left below the last of these markers.                    *)
Below(marker) ==
  LET at == {k \in 1 .. Len(stack) : stack[k] = marker} IN
  IF at = {} THEN <<>> ELSE SubSeq(stack, 1, Max(at) - 1)

(* Mutant of PopAll: bp comes from the slot of the registers.              *)
PopAllMutant ==
  LET n == Len(saved) IN
  /\ saved' = SubSeq(saved, 1, n - 1)
  /\ regi' = saved[n].regi
  /\ bp' = saved[n].bp

(* popall: registers from the slot of this call, bp from the one below.    *)
PopAll ==
  LET n == Len(saved) IN
  /\ saved' = SubSeq(saved, 1, n - 1)
  /\ regi' = saved[n].regi
  /\ IF n = 1 THEN bp' \in Garbage ELSE bp' = saved[n - 1].bp

(* Mutant of Return: the address in the frame is that of the call itself.  *)
ReturnAgainMutant ==
  LET p == Top.proc
      caller == ctl[Depth - 1].calls
  IN
  /\ InBody /\ Depth > 1
  /\ Returns[p] => known /\ Top.left = 0
  /\ rvi' = IF Returns[p] THEN regi ELSE rvi
  /\ stack' = Below(FunMarker(p))
  /\ PopAll
  /\ ctl' = [SubSeq(ctl, 1, Depth - 1) EXCEPT ![Depth - 1].calls[Len(caller)].phase = "args"]
  /\ known' = FALSE
  /\ UNCHANGED <<global, status>>

(* return reg int if there is a value; clrsn, popall, leave                *)
Return ==
  LET p == Top.proc
      caller == ctl[Depth - 1].calls
      c == caller[Len(caller)]
  IN
  /\ InBody /\ Depth > 1
  /\ Returns[p] => known /\ Top.left = 0
  /\ rvi' = IF Returns[p] THEN regi ELSE rvi
  /\ stack' = Below(FunMarker(p))
  /\ PopAll
  /\ ctl' = [SubSeq(ctl, 1, Depth - 1) EXCEPT ![Depth - 1].calls[Len(caller)] =
               [c EXCEPT !.phase = "back", !.todo = Refs[p]]]
  /\ known' = FALSE
  /\ UNCHANGED <<global, status>>

(* mov reg int rv int                                                      *)
TakeResult ==
  /\ InCall("back")
  /\ regi' = IF Returns[Here.callee] THEN rvi ELSE regi
  /\ known' = Returns[Here.callee]
  /\ ctl' = WithCall([Here EXCEPT !.phase = "refs"])
  /\ UNCHANGED <<stack, bp, saved, global, rvi, status>>

(* mov reg int peek sp int n - i, mov g reg int: the parameters with & come *)
(* in the order of a map whose keys are pointers.                          *)
FetchRef(i) ==
  /\ InCall("refs") /\ i \in Here.todo
  /\ regi' = stack[Slot(Here.callee, Len(stack), i)].of
  /\ global' = [global EXCEPT ![Here.into[i]] = regi']
  /\ ctl' = WithCall([Here EXCEPT !.todo = @ \ {i}])
  /\ UNCHANGED <<stack, bp, saved, known, rvi, status>>

(* clrsn of the call expression                                            *)
CloseCall ==
  /\ InCall("refs") /\ Here.todo = {}
  /\ stack' = Below(CallMarker(Here.callee))
  /\ ctl' = [ctl EXCEPT ![Depth].calls = SubSeq(@, 1, NCalls - 1)]
  /\ UNCHANGED <<bp, saved, global, regi, known, rvi, status>>

ExitProgram ==
  /\ InBody /\ Depth = 1
  /\ status' = "exited"
  /\ UNCHANGED <<stack, bp, saved, ctl, global, regi, known, rvi>>

Next ==
  \/ Load
  \/ \E g \in Globals : AssignGlobal(g)
  \/ \E p \in Procs : \E i \in Assigns[p] : AssignParam(i)
  \/ \E q \in Procs : Begin(q)
  \/ PushValue
  \/ \E g \in Globals : PushVariable(g)
  \/ Call
  \/ CallTooDeep
  \/ Return
  \/ TakeResult
  \/ \E i \in UNION {Refs[p] : p \in Procs} : FetchRef(i)
  \/ CloseCall
  \/ ExitProgram

(* The loop of nap_vm_run executes one instruction after the other         *)
(* (nbci.c:405).                                                           *)
Spec == Init /\ [][Next]_vars /\ WF_vars(Next)

-----------------------------------------------------------------------------
(* Properties.                                                             *)

(* The parameters of the procedure that has most of them.                  *)
Most == Max({Params[p] : p \in Procs})

(* What the deepest recursion can have on the stack: for each activation,  *)
(* MaxNesting calls, one in an argument of the other, of which only the    *)
(* innermost has all its arguments; and the marker of the function, which  *)
(* the activation at the top has no more room for.                         *)
Needed ==
  LET calls == MaxNesting * Most + 1
  IN  (DeepestRecursion - 1) * (calls + 1) + calls

(* No push looks at the size of the stack (push.c:315): it is the          *)
(* recursion limit that must be met first, however deep calls go and       *)
(* however many are in the arguments of others (nbci_impl.c:534).  The     *)
(* limits of nbci.h:53 leave room for four entries of each call.           *)
NoOverrun == StackSize >= Needed => status # "overrun"

(* A program without loops ends: it exits or a limit stops it, however it  *)
(* recurses.                                                               *)
Terminates == <>(status # "running")

-----------------------------------------------------------------------------
(* The machine implements calls with parameters of their own.  The base of *)
(* an activation is what its pushall has saved; for the running one it is  *)
(* bp.                                                                     *)

Base(a) == IF a = Depth THEN bp ELSE saved[a - 1].bp

ParamsOf(a) ==
  [i \in 1 .. Params[ctl[a].proc] |-> stack[Slot(ctl[a].proc, Base(a), i)].of]

CallOf(c) ==
  [callee |-> c.callee,
   args   |-> IF c.phase = "active" THEN <<>>
              ELSE [i \in 1 .. Len(c.into) |-> stack[c.at + i].of],
   into   |-> c.into,
   phase  |-> IF c.phase = "refs" THEN "back" ELSE c.phase,
   todo   |-> c.todo]

Value == IF InCall("back") /\ Returns[Here.callee] THEN rvi
         ELSE IF known THEN regi ELSE NoValue

Activations ==
  [a \in 1 .. Depth |->
    [proc   |-> ctl[a].proc,
     params |-> ParamsOf(a),
     calls  |-> [k \in 1 .. Len(ctl[a].calls) |-> CallOf(ctl[a].calls[k])]]]

Abstract == INSTANCE Procedures WITH globals <- global, acts <- Activations, value <- Value

(* Arguments, parameters, results and references behave as a script        *)
(* expects, at any depth of recursion and nesting.                         *)
ImplementsProcedures == Abstract!Spec
=============================================================================
