------------------------------- MODULE NapStack -------------------------------
(***************************************************************************)
(* The operand stack of a nap machine: markers (vm/marks.c), pushed values *)
(* and variable definitions (vm/push.c), the rollback to a marker          *)
(* (vm/clrs.c), and arrays that survive the rollback because their         *)
(* function returns them (vm/store.c, vm/restore.c, vm/stack.c), driven by *)
(* the code the compiler generates for blocks, loops, break, return and    *)
(* calls (compiler/evaluate.cpp, compiler/call_ctx.cpp).                   *)
(*                                                                         *)
(* A program is its tree of blocks.  Each block has a marker: functions,   *)
(* for statements, bodies (of if and for) and call expressions.  The       *)
(* global code has none.  What a statement computes does not matter here,  *)
(* which variable it defines does.                                         *)
(***************************************************************************)
EXTENDS Integers, Sequences

CONSTANTS
  Blocks, MainBlock,
  Kind,        \* [Blocks -> {"main", "fun", "for", "body", "call"}]
  Father,      \* the block a block is written in; a function has itself
  Callee,      \* the function a call block calls
  Vars, NoVar,
  ScopeOf,     \* [Vars -> Blocks], the block that defines a variable
  ReturnVar,   \* [Blocks -> Vars \cup {NoVar}], the array a function returns
  Target,      \* [Blocks -> Vars \cup {NoVar}], where a call puts the array
  MaxArgs,     \* bound of the values pushed for one call
  StackSize    \* config->stack_size

ASSUME ProgramAssumption ==
  /\ MainBlock \in Blocks
  /\ Kind \in [Blocks -> {"main", "fun", "for", "body", "call"}]
  /\ \A b \in Blocks : Kind[b] = "main" <=> b = MainBlock
  /\ Father \in [Blocks -> Blocks]
  /\ NoVar \notin Vars
  /\ ScopeOf \in [Vars -> Blocks]
  /\ ReturnVar \in [Blocks -> Vars \cup {NoVar}]
  /\ Target \in [Blocks -> Vars \cup {NoVar}]
  /\ \A b \in Blocks :
       /\ Kind[b] = "call" => Callee[b] \in Blocks /\ Kind[Callee[b]] = "fun"
       /\ Kind[b] # "fun" => ReturnVar[b] = NoVar
ASSUME SizeAssumption == MaxArgs \in Nat /\ StackSize \in Nat \ {0}

VARIABLES
  stack,
  sp,          \* stack_pointer
  inst,        \* variable_entry.instantiation: "none", "live" or "stored"
  ctl,         \* the open blocks: where the program is
  returning,   \* between a nested return and the leave it ends in
  fault        \* "none", or what stopped the machine

vars == <<stack, sp, inst, ctl, returning, fault>>

-----------------------------------------------------------------------------
(* Stack entries.  `of' is the block of a marker and the var_def of a      *)
(* variable definition.                                                    *)

Entry(kind, of) == [kind |-> kind, of |-> of, stored |-> FALSE]

Null      == Entry("null", NoVar)
Temp      == Entry("temp", NoVar)
Marker(b) == Entry("marker", b)
Def(v)    == Entry("var", v)

Slots == 0 .. StackSize - 1

(* The stored entries that start right above p.                            *)
StoredAbove(st, p) ==
  {q \in p + 1 .. StackSize - 1 : \A r \in p + 1 .. q : st[r].stored}

(* Mutant of Relocate: nothing moves.                                      *)
RelocateMutant(st, p) == st

(* relocate_stored_elements                                                *)
Relocate(st, p) ==
  LET moved == StoredAbove(st, p) IN
  [q \in Slots |-> IF q + 1 \in moved THEN st[q + 1]
                   ELSE IF q \in moved THEN Null ELSE st[q]]

-----------------------------------------------------------------------------
(* clrsn.  A machine state m is a record of stack, sp, inst, fault and     *)
(* save_sp, the level above which there may be stored entries.             *)

Here == [stack |-> stack, sp |-> sp, inst |-> inst, fault |-> fault, save_sp |-> sp]

(* Mutant of Stops: any marker ends the rollback.                          *)
StopsMutant(m, b) ==
  m.fault # "none" \/ m.sp = -1 \/ m.stack[m.sp].kind \in {"null", "marker"}

Stops(m, b) ==
  \/ m.fault # "none"
  \/ m.sp = -1
  \/ m.stack[m.sp] = Null
  \/ m.stack[m.sp] = Marker(b)

(* A slot that is given up, and the stored entries above it moved down.    *)
GiveUp(m, slot) ==
  LET st == [m.stack EXCEPT ![m.sp] = slot] IN
  [m EXCEPT !.stack = IF m.sp < m.save_sp THEN Relocate(st, m.sp) ELSE st,
            !.sp = @ - 1]

EraseDef(m) ==
  LET e == m.stack[m.sp] IN
  CASE m.inst[e.of] = "none" -> [m EXCEPT !.fault = "null instantiation"]
    [] m.inst[e.of] = "stored" ->
         [m EXCEPT !.stack[m.sp].stored = TRUE, !.sp = @ - 1]
    [] m.inst[e.of] = "live" ->
         LET freed == [m EXCEPT !.inst[e.of] = "none"] IN
         IF e.stored THEN [freed EXCEPT !.sp = @ - 1] ELSE GiveUp(freed, Null)

EraseOther(m) ==
  LET e == m.stack[m.sp] IN
  GiveUp(IF m.sp = m.save_sp - 1 THEN [m EXCEPT !.save_sp = @ - 1] ELSE m,
         IF e.kind = "marker" THEN e ELSE Null)

Erase(m) == IF m.stack[m.sp].kind = "var" THEN EraseDef(m) ELSE EraseOther(m)

Rollback(m0, b) ==
  LET loop[n \in 0 .. StackSize] ==
        IF n = 0 THEN m0
        ELSE LET m == loop[n - 1] IN IF Stops(m, b) THEN m ELSE Erase(m)
  IN  loop[m0.sp + 1]

(* Mutant of Clrs: the stack pointer goes down once more at the marker.    *)
ClrsMutant(m0, b) ==
  LET m == Rollback(m0, b) IN
  IF m.fault = "none" /\ m.sp > 0 THEN [GiveUp(m, Null) EXCEPT !.sp = @ - 1] ELSE m

Clrs(m0, b) ==
  LET m == Rollback(m0, b) IN
  CASE m.fault # "none" -> m
    [] m.fault = "none" /\ m.sp = -1 -> [m EXCEPT !.fault = "stack underflow"]
    [] m.fault = "none" /\ m.sp # -1 ->
         IF m.stack[m.sp].kind = "marker" THEN GiveUp(m, Null) ELSE m

Becomes(m) ==
  stack' = m.stack /\ sp' = m.sp /\ inst' = m.inst /\ fault' = m.fault

(* nap_store: the array v will survive the rollbacks of the return.        *)
Store(m, v) ==
  CASE v = NoVar -> m
    [] v # NoVar /\ m.inst[v] = "none" -> [m EXCEPT !.fault = "not initialised"]
    [] v # NoVar /\ m.inst[v] # "none" -> [m EXCEPT !.inst[v] = "stored"]

-----------------------------------------------------------------------------
Running == fault = "none"

Top  == ctl[Len(ctl)]
In(kind) == Running /\ ~returning /\ Kind[Top.block] = kind

(* Where statements and expressions can be.                                *)
AtCode == /\ Running /\ ~returning
          /\ Top.phase = "run"

(* A name is known to the compiler behind its definition, to the end of    *)
(* the block it is defined in.                                             *)
Visible(v) == \E i \in 1 .. Len(ctl) : \E q \in ctl[i].base + 1 .. sp :
                 ctl[i].block = ScopeOf[v] /\ stack[q].kind = "var" /\ stack[q].of = v

Init ==
  /\ stack = [q \in Slots |-> Null]
  /\ sp = -1
  /\ inst = [v \in Vars |-> "none"]
  /\ ctl = <<[block |-> MainBlock, base |-> -1, phase |-> "run"]>>
  /\ returning = FALSE
  /\ fault = "none"

(* stack[++ sp] = e, with no check of the size.                            *)
Put(e) ==
  IF sp + 1 < StackSize
  THEN stack' = [stack EXCEPT ![sp + 1] = e] /\ sp' = sp + 1 /\ UNCHANGED fault
  ELSE fault' = "overrun" /\ UNCHANGED <<stack, sp>>

Opened(b) == [block |-> b, base |-> sp + 1, phase |-> "run"]

(* marksn of a for statement, of a body or of a call expression.           *)
Marks(b) ==
  /\ AtCode
  /\ Kind[b] \in {"for", "body", "call"} /\ Father[b] = Top.block
  /\ Kind[b] = "call" /\ Target[b] # NoVar => Visible(Target[b])
  /\ Put(Marker(b))
  /\ ctl' = Append(ctl, Opened(b))
  /\ UNCHANGED <<inst, returning>>

(* push of an argument.                                                    *)
PushArg ==
  /\ AtCode /\ Kind[Top.block] = "call"
  /\ sp - Top.base < MaxArgs
  /\ Put(Temp)
  /\ UNCHANGED <<inst, ctl, returning>>

(* call, pushall, and marksn of the function.                              *)
Call ==
  /\ AtCode /\ Kind[Top.block] = "call"
  /\ LET f == Callee[Top.block] IN
       /\ Put(Marker(f))
       /\ ctl' = Append([ctl EXCEPT ![Len(ctl)].phase = "called"], Opened(f))
  /\ UNCHANGED <<inst, returning>>

(* Mutant of Define: no instantiation is made.                             *)
DefineMutant(v) ==
  /\ AtCode /\ ScopeOf[v] = Top.block
  /\ \A q \in Top.base + 1 .. sp : stack[q] # Def(v)
  /\ Put(Def(v))
  /\ UNCHANGED <<inst, ctl, returning>>

(* push int v: a definition makes a new instantiation, whatever the        *)
(* variable had.  A block defines each of its variables once.              *)
Define(v) ==
  /\ AtCode /\ ScopeOf[v] = Top.block
  /\ \A q \in Top.base + 1 .. sp : stack[q] # Def(v)
  /\ Put(Def(v))
  /\ inst' = [inst EXCEPT ![v] = "live"]
  /\ UNCHANGED <<ctl, returning>>

(* The blocks above number i have been left.  A call expression whose      *)
(* function has been left waits for restore if the function returns an     *)
(* array.                                                                  *)
LeftTo(i, f) ==
  LET down == SubSeq(ctl, 1, i) IN
  IF Kind[f] # "fun" THEN down
  ELSE [down EXCEPT ![i].phase = IF ReturnVar[f] = NoVar THEN "done" ELSE "back"]

(* clrsn at the end of a for statement, of a body, or of a call expression *)
(* whose call has returned.                                                *)
Close ==
  /\ Running /\ ~returning
  /\ \/ Kind[Top.block] \in {"for", "body"}
     \/ Kind[Top.block] = "call" /\ Top.phase = "done"
  /\ Becomes(Clrs(Here, Top.block))
  /\ ctl' = LeftTo(Len(ctl) - 1, Top.block)
  /\ UNCHANGED returning

(* The end of a function, with its return as the last statement: store if  *)
(* it returns an array, clrsn, popall, leave.                              *)
ReturnAtEnd ==
  /\ In("fun")
  /\ ReturnVar[Top.block] # NoVar => Visible(ReturnVar[Top.block])
  /\ LET f == Top.block IN
       /\ Becomes(Clrs(Store(Here, ReturnVar[f]), f))
       /\ ctl' = LeftTo(Len(ctl) - 1, f)
  /\ UNCHANGED returning

(* The function the program is in; 0 for the global code.                  *)
FunIndex ==
  LET funs == {i \in 1 .. Len(ctl) : Kind[ctl[i].block] = "fun"} IN
  IF funs = {} THEN 0 ELSE CHOOSE i \in funs : \A j \in funs : j <= i

(* A return that is the last statement of a body: store, the clrsn of the  *)
(* body, then one of each block around it, to the function.                *)
ReturnNested ==
  /\ In("body") /\ FunIndex # 0
  /\ LET v == ReturnVar[ctl[FunIndex].block] IN
       /\ v # NoVar => Visible(v)
       /\ Becomes(Clrs(Store(Here, v), Top.block))
  /\ ctl' = LeftTo(Len(ctl) - 1, Top.block)
  /\ returning' = TRUE

(* One of those clrsn.  A for statement is no call context and gets none:  *)
(* its marker goes with the block around it.                               *)
Unwind ==
  /\ Running /\ returning
  /\ \E i \in 1 .. Len(ctl) :
       LET b == ctl[i].block IN
       /\ Kind[b] \in {"body", "fun"}
       /\ \A j \in i + 1 .. Len(ctl) : Kind[ctl[j].block] = "for"
       /\ Becomes(Clrs(Here, b))
       /\ ctl' = LeftTo(i - 1, b)
       /\ returning' = (Kind[b] # "fun")

(* Mutant of Break: the jump goes behind the clrsn of the for statement.   *)
BreakMutant ==
  /\ In("body")
  /\ \E i \in 1 .. Len(ctl) :
       /\ Kind[ctl[i].block] = "for"
       /\ \A j \in i + 1 .. Len(ctl) : Kind[ctl[j].block] = "body"
       /\ ctl' = LeftTo(i - 1, ctl[i].block)
  /\ UNCHANGED <<stack, sp, inst, fault, returning>>

(* break: a jump to the end of the for statement around the body, where    *)
(* its clrsn is.  The bodies in between get none.                          *)
Break ==
  /\ In("body")
  /\ \E i \in 1 .. Len(ctl) :
       LET b == ctl[i].block IN
       /\ Kind[b] = "for"
       /\ \A j \in i + 1 .. Len(ctl) : Kind[ctl[j].block] = "body"
       /\ Becomes(Clrs(Here, b))
       /\ ctl' = LeftTo(i - 1, b)
  /\ UNCHANGED returning

(* nap_restore: the last of the stored entries above sp, or what is there  *)
(* if there is none.                                                       *)
RestoreSlot ==
  LET above == StoredAbove(stack, sp) IN
  IF above = {} THEN sp + 1 ELSE CHOOSE q \in above : \A r \in above : r <= q

Restore ==
  /\ Running /\ Top.phase = "back"
  /\ LET t == Target[Top.block]
         e == stack[RestoreSlot] IN
       IF inst[t] = "none" THEN fault' = "not initialised" /\ UNCHANGED <<stack, inst, ctl>>
       ELSE IF e.kind # "var" \/ inst[e.of] = "none" \/ e.of = t
       THEN fault' = "no array" /\ UNCHANGED <<stack, inst, ctl>>
       ELSE /\ stack' = [stack EXCEPT ![RestoreSlot] = Null]
            /\ inst' = [inst EXCEPT ![t] = "live"]
            /\ ctl' = [ctl EXCEPT ![Len(ctl)].phase = "done"]
            /\ UNCHANGED fault
  /\ UNCHANGED <<sp, returning>>

Next ==
  \/ \E b \in Blocks : Marks(b)
  \/ PushArg
  \/ Call
  \/ \E v \in Vars : Define(v)
  \/ Close
  \/ ReturnAtEnd
  \/ ReturnNested
  \/ Unwind
  \/ Break
  \/ Restore

Spec == Init /\ [][Next]_vars

-----------------------------------------------------------------------------
(* Properties.                                                             *)

(* However its blocks are left, a compiled program whose functions do not   *)
(* call themselves never follows a null pointer or rolls back past the     *)
(* bottom of its stack (clrs.c:22); the rollbacks that break and return    *)
(* leave out, or do twice, never cost a block that is still open its       *)
(* marker: the next rollback of that block will find it (clrs.c:30).       *)
MarkersInPlace ==
  /\ fault = "none"
  /\ \A i \in 2 .. Len(ctl) :
       /\ ctl[i].base <= sp
       /\ stack[ctl[i].base] = Marker(ctl[i].block)
       /\ ctl[i - 1].base < ctl[i].base

(* Leaving blocks, by whatever jump, takes the stack pointer back to where *)
(* the outermost block left was entered: nothing leaks, nothing is lost.   *)
RollbackIsExact ==
  [][ Len(ctl') < Len(ctl) /\ fault' = "none" =>
        sp' = ctl[Len(ctl') + 1].base - 1 ]_vars

DefsOf(v) == {q \in 0 .. sp : stack[q].kind = "var" /\ stack[q].of = v}

(* A variable defined in a block that is still open has its instantiation; *)
(* clrsn frees it when the variable goes out of scope and not before       *)
(* (clrs.c:39, clrs.c:58).                                                 *)
DefinedHasInstantiation ==
  fault = "none" => \A v \in Vars : DefsOf(v) # {} => inst[v] # "none"

(* When a function that returns an array has been left, restore finds that *)
(* array above the stack pointer, and no other (stack.h:90-94).            *)
ReturnedArrayFound ==
  Top.phase = "back" /\ fault = "none" =>
    /\ stack[RestoreSlot].kind = "var"
    /\ stack[RestoreSlot].of = ReturnVar[Callee[Top.block]]
    /\ inst[stack[RestoreSlot].of] = "stored"

-----------------------------------------------------------------------------
(* The machine implements lexical scoping: the variables of a block are    *)
(* the definitions between its marker and the next.                        *)

Declared(i) ==
  LET last == IF i = Len(ctl) THEN sp ELSE ctl[i + 1].base - 1 IN
  {v \in Vars : \E q \in ctl[i].base + 1 .. last : q \in DefsOf(v)}

Scopes == INSTANCE ScopeStack WITH
  open     <- [i \in 1 .. Len(ctl) |-> [block |-> ctl[i].block, declares |-> Declared(i)]],
  returned <- IF Top.phase = "back" THEN stack[RestoreSlot].of ELSE NoVar

(* Blocks behave as lexical scopes, and returned arrays reach the caller.  *)
LexicalScoping == Scopes!Spec
=============================================================================
