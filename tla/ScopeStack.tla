------------------------------ MODULE ScopeStack ------------------------------
(***************************************************************************)
(* What the operand stack of a nap machine promises to compiled programs:  *)
(* lexical scoping.  A block that is entered starts with no variables, the *)
(* variables it declares exist until it is left, leaving it (at its end,   *)
(* with break, or with return) ends the blocks inside it with it, and an   *)
(* array a function returns is there for its caller to take, until the     *)
(* caller takes it.                                                        *)
(***************************************************************************)
EXTENDS Naturals, Sequences

CONSTANTS Blocks, MainBlock, Vars, NoVar,
          ReturnVar    \* the array a function returns, or NoVar

VARIABLES open,        \* the blocks entered and not left, and what they declare
          returned     \* an array on its way to the caller

scopeVars == <<open, returned>>

Opened(b) == [block |-> b, declares |-> {}]

Init == open = <<Opened(MainBlock)>> /\ returned = NoVar

Enter(b) ==
  /\ open' = Append(open, Opened(b))
  /\ UNCHANGED returned

Declare(v) ==
  /\ \A i \in 1 .. Len(open) : v \notin open[i].declares
  /\ open' = [open EXCEPT ![Len(open)].declares = @ \cup {v}]
  /\ UNCHANGED returned

(* Block number i and the blocks inside it are left.  The array of the     *)
(* function i may be has been declared in it, so it would go with it.      *)
Leave(i) ==
  LET v == ReturnVar[open[i].block] IN
  /\ i > 1
  /\ open' = SubSeq(open, 1, i - 1)
  /\ IF v = NoVar THEN UNCHANGED returned
     ELSE v \in open[i].declares /\ returned = NoVar /\ returned' = v

Take ==
  /\ returned # NoVar
  /\ returned' = NoVar
  /\ UNCHANGED open

Next ==
  \/ \E b \in Blocks : Enter(b)
  \/ \E v \in Vars : Declare(v)
  \/ \E i \in 1 .. Len(open) : Leave(i)
  \/ Take

Spec == Init /\ [][Next]_scopeVars
=============================================================================
