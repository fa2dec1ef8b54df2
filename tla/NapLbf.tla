-------------------------------- MODULE NapLbf --------------------------------
(***************************************************************************)
(* Conditions: how the compiler takes an expression apart                  *)
(* (compiler/opr_hndl.cpp), the code it makes of it                        *)
(* (resolve_operation, resolve_if_keyword and resolve_for_keyword of       *)
(* compiler/evaluate.cpp), and what that code does with the registers and  *)
(* the last boolean flag of the machine (vm/comparison.c, vm/jump.c).      *)
(*                                                                         *)
(* The flag is one per machine.  A function called from the middle of a    *)
(* condition evaluates its own conditions with it.                         *)
(*                                                                         *)
(* A condition is a row of terms with operators between them; a term is a  *)
(* variable or a function call.  Values are small integers.                *)
(***************************************************************************)
EXTENDS Integers, Sequences, Bitwise

CONSTANTS
  Conditions,  \* records of stmt ("if", "for"), type ("int",
               \* "real"), terms (a sequence of "var" and "call") and ops
  Values, Undefined,
  MaxDepth     \* bound of the conditions in evaluation at a time

Levels == 0 .. 5

Comparisons == {"eq", "neq", "lte", "gte", "lt", "gt"}
Operators   == Comparisons \cup {"and", "or"}

ASSUME ConditionsAssumption ==
  /\ MaxDepth \in Nat /\ Values \subseteq Nat /\ Undefined \notin Values
  /\ \A c \in Conditions :
       /\ c.stmt \in {"if", "for"} /\ c.type \in {"int", "real"}
       /\ c.terms \in Seq({"var", "call"})
       /\ c.ops \in Seq(Operators) /\ Len(c.terms) = Len(c.ops) + 1
       \* pushall does not save the real registers (see NapFrames)
       /\ c.type = "real" => \A i \in 1 .. Len(c.terms) : c.terms[i] = "var"

VARIABLES
  lbf,   \* "undecided", "false" or "true"
  reg,   \* the registers of one type
  run    \* the conditions in evaluation, the innermost last: the condition,
         \* the code still to execute, the registers pushall saved on the
         \* way in, and the values the terms had (history)

vars == <<lbf, reg, run>>

-----------------------------------------------------------------------------
(* The compiler.  An instruction is <<opcode, level, argument>>.           *)

(* Mutant of Root: the last operator, not the first.                       *)
RootMutant(c, i, j) ==
  CHOOSE r \in i .. j - 1 : \A q \in i .. j - 1 : q <= r

(* get_operator on the terms i to j: the operators are looked for one kind *)
(* after the other; of the kind found the first one is taken.              *)
Root(c, i, j) ==
  LET Has(op) == \E q \in i .. j - 1 : c.ops[q] = op
      kind == CASE Has("or")  -> "or"
                [] ~Has("or") /\ Has("and") -> "and"
                [] OTHER ->
                     LET order == <<"eq", "neq", "lte", "gte", "lt", "gt">>
                         first == CHOOSE k \in 1 .. 6 :
                                    Has(order[k]) /\ \A l \in 1 .. k - 1 : ~Has(order[l])
                     IN  order[first]
  IN  CHOOSE r \in i .. j - 1 : c.ops[r] = kind /\ \A q \in i .. r - 1 : c.ops[q] # kind

Atomic(c, i, j) == i = j /\ c.terms[i] = "var"

(* resolve_operation: the left operand goes to the register of the level,  *)
(* through the next one if it is not atomic.                               *)
Code(c, level) ==
  LET n == Len(c.terms)
      comp[i \in 1 .. n, j \in 1 .. n, l \in Levels] ==
        IF i = j THEN << <<c.terms[i], l, i>> >>
        ELSE LET r     == Root(c, i, j)
                 left  == IF Atomic(c, i, r) THEN comp[i, r, l]
                          ELSE comp[i, r, l + 1] \o << <<"move", l, 0>> >>
                 right == IF Atomic(c, r + 1, j) THEN << <<c.ops[r], l, r + 1>> >>
                          ELSE comp[r + 1, j, l + 1] \o << <<c.ops[r], l, 0>> >>
             IN  left \o right
  IN  comp[1, n, level]

(* is_logical_operation                                                    *)
Logical(c) ==
  Len(c.terms) > 1 /\ c.ops[Root(c, 1, Len(c.terms))] \in Comparisons

TestZero == << <<"nonzero", 0, 0>>, <<"jlbf", 0, 0>> >>

(* The code of a statement up to the jump.  A for statement does not       *)
(* compile a condition that is neither atomic nor a comparison.            *)
Program(c) ==
  CASE Logical(c) -> Code(c, 0) \o << <<"jlbf", 0, 0>> >>
    [] Atomic(c, 1, Len(c.terms)) -> Code(c, 0) \o TestZero
    [] OTHER ->
         (IF c.stmt = "if" THEN Code(c, 1) ELSE <<>>)
           \o << <<"move", 0, 0>> >> \o TestZero

-----------------------------------------------------------------------------
(* The machine.                                                            *)

Top == run[Len(run)]

Instr == Head(Top.code)

Executing(ops) == run # <<>> /\ Top.code # <<>> /\ Instr[1] \in ops

(* The activation on top has executed its instruction.                     *)
Stepped == [run EXCEPT ![Len(run)].code = Tail(@)]

Opened(c) ==
  [cond |-> c, code |-> Program(c), saved |-> reg,
   vals |-> [i \in 1 .. Len(c.terms) |-> Undefined]]

(* The result of a comparison.  Reals are compared by their difference.    *)
Compares(type, op, x, y) ==
  CASE op = "eq"  -> IF type = "real" THEN x - y <= 0 ELSE x = y
    [] op = "neq" -> IF type = "real" THEN x - y > 0 ELSE x # y
    [] op = "lt"  -> x < y
    [] op = "gt"  -> x > y
    [] op = "lte" -> x <= y
    [] op = "gte" -> x >= y

(* What a comparison makes of the flag.                                    *)
Flag(holds) == IF holds /\ lbf # "false" THEN "true" ELSE "false"

Init == lbf = "undecided" /\ reg \in [Levels -> {Undefined}] /\ run = <<>>

(* The next statement of the global code.                                  *)
Start(c) ==
  /\ run = <<>>
  /\ run' = <<Opened(c)>>
  /\ UNCHANGED <<lbf, reg>>

(* mov reg, variable                                                       *)
Load(v) ==
  /\ Executing({"var"})
  /\ reg' = [reg EXCEPT ![Instr[2]] = v]
  /\ run' = [Stepped EXCEPT ![Len(run)].vals[Instr[3]] = v]
  /\ UNCHANGED lbf

(* mov reg, next reg                                                       *)
Move ==
  /\ Executing({"move"})
  /\ reg' = [reg EXCEPT ![Instr[2]] = reg[Instr[2] + 1]]
  /\ run' = Stepped
  /\ UNCHANGED lbf

(* A comparison with a variable or with the next register.                 *)
Compare(v) ==
  /\ Executing(Comparisons)
  /\ LET l == Instr[2]  i == Instr[3]
         y == IF i = 0 THEN reg[l + 1] ELSE v IN
       /\ y = v
       /\ lbf' = Flag(Compares(Top.cond.type, Instr[1], reg[l], y))
       /\ run' = IF i = 0 THEN Stepped ELSE [Stepped EXCEPT ![Len(run)].vals[i] = v]
  /\ UNCHANGED reg

(* && and || are compiled as & and |.                                      *)
Combine(v) ==
  /\ Executing({"and", "or"})
  /\ LET l == Instr[2]  i == Instr[3]
         y == IF i = 0 THEN reg[l + 1] ELSE v IN
       /\ y = v
       /\ reg' = [reg EXCEPT ![l] = IF Instr[1] = "and" THEN @ & y ELSE @ | y]
       /\ run' = IF i = 0 THEN Stepped ELSE [Stepped EXCEPT ![Len(run)].vals[i] = v]
  /\ UNCHANGED lbf

CompareWithZero ==
  /\ Executing({"nonzero"})
  /\ lbf' = Flag(reg[Instr[2]] # 0)
  /\ run' = Stepped
  /\ UNCHANGED reg

(* Mutant of Jump: the flag keeps its value.                               *)
JumpMutant ==
  /\ Executing({"jlbf"})
  /\ run' = Stepped
  /\ UNCHANGED <<lbf, reg>>

(* jlbf                                                                    *)
Jump ==
  /\ Executing({"jlbf"})
  /\ lbf' = "undecided"
  /\ run' = Stepped
  /\ UNCHANGED reg

(* call and pushall, and the function begins to evaluate a condition.      *)
Call(c) ==
  /\ Executing({"call"}) /\ Len(run) < MaxDepth
  /\ run' = Append(run, Opened(c))
  /\ UNCHANGED <<lbf, reg>>

(* The value v of a called function arrives in the register of the call.   *)
Deliver(v, frame, restored) ==
  LET call == Head(run[frame].code) IN
  /\ reg' = [restored EXCEPT ![call[2]] = v]
  /\ run' = [SubSeq(run, 1, frame) EXCEPT ![frame].code = Tail(@), ![frame].vals[call[3]] = v]
  /\ UNCHANGED lbf

(* popall and leave.                                                       *)
Return(v) ==
  /\ Len(run) > 1 /\ Top.code = <<>>
  /\ Deliver(v, Len(run) - 1, Top.saved)

(* A call of a function that evaluates no condition.                       *)
CallPlain(v) == Executing({"call"}) /\ Deliver(v, Len(run), reg)

EndStatement ==
  /\ Len(run) = 1 /\ Top.code = <<>>
  /\ run' = <<>>
  /\ UNCHANGED <<lbf, reg>>

Next ==
  \/ \E c \in Conditions : Start(c)
  \/ \E v \in Values : Load(v)
  \/ Move
  \/ \E v \in Values \cup {Undefined} : Compare(v)
  \/ \E v \in Values \cup {Undefined} : Combine(v)
  \/ CompareWithZero
  \/ Jump
  \/ \E c \in Conditions : Call(c)
  \/ \E v \in Values : Return(v)
  \/ \E v \in Values : CallPlain(v)
  \/ EndStatement

Spec == Init /\ [][Next]_vars

-----------------------------------------------------------------------------
(* Properties.                                                             *)

(* The parts of the terms 1 to n between two operators of ops.             *)
Parts(c, lo, hi, ops) ==
  {p \in (lo .. hi) \X (lo .. hi) :
     /\ p[1] <= p[2]
     /\ p[1] = lo \/ c.ops[p[1] - 1] \in ops
     /\ p[2] = hi \/ c.ops[p[2]] \in ops
     /\ \A q \in p[1] .. p[2] - 1 : c.ops[q] \notin ops}

Equal(op, x, y) ==
  CASE op = "eq" -> x = y [] op = "neq" -> x # y [] op = "lt" -> x < y
    [] op = "gt" -> x > y [] op = "lte" -> x <= y [] op = "gte" -> x >= y

(* What a condition means: comparisons hold between neighbours, a number   *)
(* alone is not zero, && binds stronger than ||.                           *)
Meaning(c, vals) ==
  \E p \in Parts(c, 1, Len(c.terms), {"or"}) :
    \A q \in Parts(c, p[1], p[2], {"and"}) :
      IF q[1] = q[2] THEN vals[q[1]] # 0
      ELSE \A r \in q[1] .. q[2] - 1 : Equal(c.ops[r], vals[r], vals[r + 1])

(* When the code of a condition comes to its jump, the flag says what the  *)
(* condition means for the values its terms had, whatever the functions    *)
(* called on the way did with the registers and with the flag.  It is      *)
(* never undecided there, which jlbf takes for set (jump.c:27).            *)
JumpFollowsCondition ==
  Executing({"jlbf"}) => lbf = IF Meaning(Top.cond, Top.vals) THEN "true" ELSE "false"

(* doc/doc.ad, lbf: the first jlbf clears the flag so that it can be used  *)
(* safely by the next operation.  When no condition is in evaluation,      *)
(* nothing of an earlier one is left in the flag; a function called in a   *)
(* condition finds it clear as well.                                       *)
FlagIsFresh ==
  run # <<>> /\ Top.code = Program(Top.cond) => lbf = "undecided"

=============================================================================
