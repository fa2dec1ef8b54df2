------------------------------ MODULE Procedures ------------------------------
(***************************************************************************)
(* What calls promise to a script: every activation of a procedure has     *)
(* parameters of its own, which only it reads and assigns; a call starts   *)
(* with the values of its arguments; what it returns is the value of the   *)
(* call; and what it leaves in a parameter declared with & is copied to    *)
(* the variable that was passed, once, when it returns.                    *)
(***************************************************************************)
EXTENDS Naturals, Sequences, SequencesExt

CONSTANTS
  Procs, Main,
  Params,      \* [Procs -> Nat], the number of parameters
  Refs,        \* [Procs -> SUBSET Nat], the parameters declared with &
  Returns,     \* [Procs -> BOOLEAN], whether the procedure returns a value
  Assigns,     \* [Procs -> SUBSET Nat], the parameters its body assigns
  Globals, NoGlobal,
  Values, NoValue

VARIABLES
  globals,
  acts,        \* the activations, the running one last
  value        \* of the expression just evaluated

procVars == <<globals, acts, value>>

Depth == Len(acts)
Now   == acts[Depth]
Calls == Now.calls
Call  == Last(Calls)

(* The running activation, or its innermost call, replaced.                *)
WithNow(a)  == Append(Front(acts), a)
WithCall(c) == Append(Front(acts), [Now EXCEPT !.calls = Append(Front(@), c)])

Evaluating == Calls = <<>> \/ Call.phase = "args"

Init ==
  /\ globals \in [Globals -> Values]
  /\ acts = <<[proc |-> Main, params |-> <<>>, calls |-> <<>>]>>
  /\ value = NoValue

(* An atomic expression: a number, a variable, a parameter.                *)
Load ==
  /\ Evaluating
  /\ value' \in Values \cup {globals[g] : g \in Globals}
                       \cup {Now.params[i] : i \in 1 .. Len(Now.params)}
  /\ UNCHANGED <<globals, acts>>

AssignGlobal(g) ==
  /\ Evaluating /\ value # NoValue
  /\ globals' = [globals EXCEPT ![g] = value]
  /\ value' = NoValue
  /\ UNCHANGED acts

AssignParam(i) ==
  /\ Evaluating /\ value # NoValue
  /\ i \in 1 .. Len(Now.params) /\ i \in Assigns[Now.proc]
  /\ acts' = WithNow([Now EXCEPT !.params =
               [j \in DOMAIN @ |-> IF j = i THEN value ELSE @[j]]])
  /\ value' = NoValue
  /\ UNCHANGED globals

Begin(q) ==
  /\ Evaluating
  /\ acts' = WithNow([Now EXCEPT !.calls =
       Append(@, [callee |-> q, args |-> <<>>, into |-> <<>>, phase |-> "args", todo |-> {}])])
  /\ value' = NoValue
  /\ UNCHANGED globals

(* The next argument of the call: a value, or a variable for a parameter   *)
(* declared with &.                                                        *)
Argument(v, g) ==
  /\ Calls # <<>> /\ Call.phase = "args"
  /\ Len(Call.args) < Params[Call.callee]
  /\ (g = NoGlobal) = (Len(Call.args) + 1 \notin Refs[Call.callee])
  /\ acts' = WithCall([Call EXCEPT !.args = Append(@, v), !.into = Append(@, g)])
  /\ value' = NoValue
  /\ UNCHANGED globals

Enter ==
  /\ Calls # <<>> /\ Call.phase = "args"
  /\ Len(Call.args) = Params[Call.callee]
  /\ acts' = Append(WithCall([Call EXCEPT !.phase = "active", !.args = <<>>]),
                    [proc |-> Call.callee, params |-> Call.args, calls |-> <<>>])
  /\ value' = NoValue
  /\ UNCHANGED globals

(* The activation ends; its parameters are handed to the call.             *)
Return ==
  LET caller == acts[Depth - 1]
      ended  == [Last(caller.calls) EXCEPT !.phase = "back", !.args = Now.params,
                                           !.todo = Refs[Now.proc]]
  IN
  /\ Depth > 1 /\ Calls = <<>>
  /\ Returns[Now.proc] => value # NoValue
  /\ acts' = Append(SubSeq(acts, 1, Depth - 2),
                    [caller EXCEPT !.calls = Append(Front(@), ended)])
  /\ value' = IF Returns[Now.proc] THEN value ELSE NoValue
  /\ UNCHANGED globals

CopyBack(i) ==
  /\ Calls # <<>> /\ Call.phase = "back" /\ i \in Call.todo
  /\ globals' = [globals EXCEPT ![Call.into[i]] = Call.args[i]]
  /\ acts' = WithCall([Call EXCEPT !.todo = @ \ {i}])
  /\ UNCHANGED value

End ==
  /\ Calls # <<>> /\ Call.phase = "back" /\ Call.todo = {}
  /\ acts' = WithNow([Now EXCEPT !.calls = Front(@)])
  /\ UNCHANGED <<globals, value>>

Next ==
  \/ Load
  \/ \E g \in Globals : AssignGlobal(g)
  \/ \E p \in Procs : \E i \in 1 .. Params[p] : AssignParam(i)
  \/ \E q \in Procs : Begin(q)
  \/ value # NoValue /\ Argument(value, NoGlobal)
  \/ \E g \in Globals : Argument(globals[g], g)
  \/ Enter
  \/ Return
  \/ \E i \in UNION {Refs[p] : p \in Procs} : CopyBack(i)
  \/ End

Spec == Init /\ [][Next]_procVars
=============================================================================
