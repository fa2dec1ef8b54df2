---------------------------- MODULE NapStackProofs ----------------------------
(***************************************************************************)
(* Proofs about NapStack, for programs whose functions do not call         *)
(* themselves (NonRecursive), return arrays they have defined themselves   *)
(* (OwnArrays) and whose returned arrays are assigned (ArraysTaken).       *)
(*                                                                         *)
(* The inductive invariant divides the stack into segments: an open block  *)
(* has its marker at its base, and what is between it and the next marker  *)
(* is its own (Chain, Contents). As the rank of the blocks falls, none is  *)
(* open twice, so that a rollback that looks for the marker of a block     *)
(* finds the right one. Instances says which variables have an             *)
(* instantiation; Saved, where the array is that a return leaves above the *)
(* stack pointer; TargetsThere, that the variable it is assigned to        *)
(* exists.                                                                 *)
(*                                                                         *)
(* The rollback is a recursive function over the slots. Underway is what   *)
(* its loop keeps; ClrsIs says what it ends with, from a stack as Clear    *)
(* describes it. Every action that leaves blocks, at their end, by break,  *)
(* by return or by one of the rollbacks behind a return, is shown to be an *)
(* instance of Leaves, and every one that enters a block an instance of    *)
(* Enters.                                                                 *)
(*                                                                         *)
(* ScopesImplemented is the refinement of ScopeStack. For NoOverrun every  *)
(* slot is shown to have a use of its own (a marker, an argument of a      *)
(* call, a definition), so that the stack is never higher than there are   *)
(* uses.                                                                   *)
(***************************************************************************)
EXTENDS NapStack, FiniteSets, FiniteSetTheorems, WellFoundedInduction, TLAPS

(* A rank that falls from a block to the blocks written in it, and from a  *)
(* call expression to the function it calls.                               *)
Descends(rank) ==
  \A b \in Blocks :
    /\ Kind[b] \in {"for", "body", "call"} => rank[b] < rank[Father[b]]
    /\ Kind[b] = "call" => rank[Callee[b]] < rank[b]

(* The functions of the program do not call themselves, directly or        *)
(* through others. A variable has one instantiation                        *)
(* (variable_entry.instantiation): a second activation of its function     *)
(* takes the one of the first (run NapStackRecursion).                     *)
NonRecursive == \E rank \in [Blocks -> Nat] : Descends(rank)

(* One such rank.                                                          *)
Rank == CHOOSE rank \in [Blocks -> Nat] : Descends(rank)

(* A function returns an array it has defined itself, in no block inside   *)
(* it. An array of an inner block is stored, but lies above the marker of  *)
(* that block and not right above that of the function (clrs.c:122).       *)
OwnArrays == \A f \in Blocks : ReturnVar[f] # NoVar => ScopeOf[ReturnVar[f]] = f

(* The array a call returns is assigned: restore is compiled with the      *)
(* variable it is assigned to.                                             *)
ArraysTaken ==
  \A c \in Blocks :
    Kind[c] = "call" /\ ReturnVar[Callee[c]] # NoVar => Target[c] # NoVar

(* The programs the theorems are about.                                    *)
Program == NonRecursive /\ OwnArrays /\ ArraysTaken

(* The number of open blocks, what the model records about them, and what  *)
(* the cells of the stack and of the instantiations hold.                  *)
Depth == Len(ctl)
Phases == {"run", "called", "done", "back"}
Frames == [block : Blocks, base : Int, phase : Phases]
Instantiations == {"none", "live", "stored"}
Entries == [kind : {"null", "temp", "marker", "var"},
            of : Blocks \cup Vars \cup {NoVar}, stored : BOOLEAN]

(* The types of the variables.                                             *)
Typed ==
  /\ stack \in [Slots -> Entries]
  /\ sp \in -1 .. StackSize - 1
  /\ inst \in [Vars -> Instantiations]
  /\ ctl \in Seq(Frames) /\ Depth > 0
  /\ returning \in BOOLEAN

(* The open blocks: each but the first has its marker at its base, bases   *)
(* rise and ranks fall from block to block, a function is inside the call  *)
(* expression that called it, and only the innermost block can wait for    *)
(* restore.                                                                *)
Chain ==
  /\ ctl[1].block = MainBlock /\ ctl[1].base = -1
  /\ \A i \in 2 .. Depth :
       /\ ctl[i].base \in 0 .. sp
       /\ stack[ctl[i].base] = Marker(ctl[i].block)
       /\ Kind[ctl[i].block] # "main"
       /\ Kind[ctl[i].block] = "fun" =>
            Kind[ctl[i - 1].block] = "call" /\ Callee[ctl[i - 1].block] = ctl[i].block
  /\ \A i, j \in 1 .. Depth : i < j =>
       ctl[i].base < ctl[j].base /\ Rank[ctl[j].block] < Rank[ctl[i].block]
  /\ \A i \in 1 .. Depth :
       ctl[i].phase = "back" => i = Depth /\ Kind[ctl[i].block] = "call"

(* Slot q lies in the segment of block i: above its marker and below that  *)
(* of the next.                                                            *)
Within(i, q) == ctl[i].base < q /\ \A j \in i + 1 .. Depth : q < ctl[j].base

(* What is in the stack: markers at the bases, arguments in the segments   *)
(* of call expressions, and in the segment of a block definitions of its   *)
(* own variables, each once.                                               *)
Contents ==
  /\ \A q \in 0 .. sp : \E i \in 1 .. Depth :
       \/ i > 1 /\ q = ctl[i].base
       \/ /\ Within(i, q)
          /\ \/ stack[q] = Temp /\ Kind[ctl[i].block] = "call"
             \/ \E v \in Vars : stack[q] = Def(v) /\ ScopeOf[v] = ctl[i].block
  /\ \A q, r \in 0 .. sp : stack[q].kind = "var" /\ stack[r] = stack[q] => q = r

(* Block k is the function the program is in.                              *)
LastFun(k) ==
  /\ k \in 1 .. Depth /\ Kind[ctl[k].block] = "fun"
  /\ \A j \in k + 1 .. Depth : Kind[ctl[j].block] # "fun"

(* With the instantiations i0, each variable defined in the stack has one, *)
(* which is stored only while its function is being left (ret) and returns *)
(* it; and the array that the function being left returns is stored and in *)
(* the stack.                                                              *)
InstancesOf(i0, ret) ==
  /\ \A q \in 0 .. sp : \A v \in Vars : stack[q] = Def(v) =>
       \/ i0[v] = "live"
       \/ /\ i0[v] = "stored" /\ ret
          /\ \E k \in 1 .. Depth : LastFun(k) /\ v = ReturnVar[ctl[k].block]
  /\ ret => \E k \in 1 .. Depth :
       /\ LastFun(k)
       /\ ReturnVar[ctl[k].block] # NoVar =>
            /\ i0[ReturnVar[ctl[k].block]] = "stored"
            /\ \E q \in 0 .. sp : stack[q] = Def(ReturnVar[ctl[k].block])

(* This holds of the instantiations of the machine.                        *)
Instances == InstancesOf(inst, returning)

(* The entry of an array that stays above the stack pointer.               *)
Stored(v) == [kind |-> "var", of |-> v, stored |-> TRUE]

(* Above the stack pointer nothing is stored, but right above it the array *)
(* of a function that has been left, while its caller has not taken it.    *)
Saved ==
  /\ \A q \in sp + 1 .. StackSize - 1 : stack[q].stored => Top.phase = "back" /\ q = sp + 1
  /\ Top.phase = "back" =>
       LET v == ReturnVar[Callee[Top.block]] IN
       /\ ~returning /\ v # NoVar /\ inst[v] = "stored" /\ sp + 1 < StackSize
       /\ stack[sp + 1] = Stored(v)

(* The variable that takes the array of a call is defined below the marker *)
(* of the call.                                                            *)
TargetsThere ==
  \A i \in 1 .. Depth :
    Kind[ctl[i].block] = "call" /\ Target[ctl[i].block] # NoVar =>
      \E q \in 0 .. ctl[i].base - 1 : stack[q] = Def(Target[ctl[i].block])

(* What holds of a machine that has not stopped.                           *)
Good == Chain /\ Contents /\ Instances /\ Saved /\ TargetsThere

(* The inductive invariant. A machine stops only when its stack is full.   *)
IInv == Typed /\ fault \in {"none", "overrun"} /\ (fault = "none" => Good)

-----------------------------------------------------------------------------
(* Induction.                                                              *)

(* A set of natural numbers has a least element.                           *)
LEMMA Least ==
  ASSUME NEW T \in SUBSET Nat, T # {}
  PROVE  \E x \in T : \A y \in T : x <= y
<1> DEFINE R == OpToRel(<, Nat)
<1>1. IsWellFoundedOn(R, Nat)
  BY NatLessThanWellFounded
<1>2. \A x, y \in Nat : y < x => <<y, x>> \in R
  BY DEF OpToRel
<1> HIDE DEF R
<1>3. T \subseteq Nat
  OBVIOUS
<1>4. PICK x \in T : \A y \in T : ~ (<<y, x>> \in R)
  BY <1>1, <1>3, WFMin
<1>5. \A y \in T : ~ (y < x)
  BY <1>2, <1>3, <1>4
<1> QED
  BY <1>3, <1>5

(* Induction over the natural numbers, for a set.                          *)
LEMMA Induction ==
  ASSUME NEW S, 0 \in S, \A n \in Nat : n \in S => n + 1 \in S
  PROVE  \A n \in Nat : n \in S
<1> SUFFICES ASSUME Nat \ S # {}
             PROVE  FALSE
  OBVIOUS
<1>1. PICK x \in Nat \ S : \A y \in Nat \ S : x <= y
  BY Least
<1>2. x # 0 /\ x - 1 \in Nat
  BY <1>1
<1>3. x - 1 \in S
  BY <1>1, <1>2
<1>4. (x - 1) + 1 \in S
  BY <1>2, <1>3
<1> QED
  BY <1>2, <1>4

-----------------------------------------------------------------------------
(* The rollback.                                                           *)

(* The states clrsn goes through.                                          *)
Machines == [stack : [Slots -> Entries], sp : -1 .. StackSize - 1,
             inst : [Vars -> Instantiations], fault : {"none"}, save_sp : Int]

(* What a rollback of block b starts from: the marker of b at p, above it  *)
(* no other marker of b, definitions whose variables are live but for the  *)
(* one at d (the array that is returned, -1 for none), which is stored and *)
(* has only definitions between it and the marker; nothing stored above    *)
(* the stack pointer.                                                      *)
Clear(m0, b, p, d) ==
  /\ m0 \in Machines /\ m0.save_sp = m0.sp
  /\ p \in 0 .. m0.sp /\ m0.stack[p] = Marker(b)
  /\ \A q \in p + 1 .. m0.sp :
       \/ m0.stack[q] = Temp
       \/ \E c \in Blocks : c # b /\ m0.stack[q] = Marker(c)
       \/ \E v \in Vars : /\ m0.stack[q] = Def(v)
                          /\ q # d => m0.inst[v] = "live"
                          /\ q = d => m0.inst[v] = "stored"
  /\ \/ d = -1
     \/ d \in p + 1 .. m0.sp /\ \A q \in p + 1 .. d : m0.stack[q].kind = "var"
  /\ \A q, r \in 0 .. m0.sp : m0.stack[q].kind = "var" /\ m0.stack[r] = m0.stack[q] => q = r
  /\ \A q \in m0.sp + 1 .. StackSize - 1 : ~m0.stack[q].stored

(* What the loop of clrsn keeps: the stack is as before up to the stack    *)
(* pointer, and once d has been passed, the array is stored right above    *)
(* it. Instantiations of variables that are not passed are as before.      *)
Underway(m0, m, p, d) ==
  /\ m \in Machines
  /\ m.sp \in p .. m0.sp /\ m.sp <= m.save_sp
  /\ \A q \in 0 .. m.sp : m.stack[q] = m0.stack[q]
  /\ \A q \in m.sp + 1 .. StackSize - 1 : m.stack[q].stored => m.sp < d /\ q = m.sp + 1
  /\ m.sp < d => m.sp < m.save_sp /\ m.stack[m.sp + 1] = Stored(m0.stack[d].of)
  /\ \A v \in Vars : (\A q \in m.sp + 1 .. m0.sp : m0.stack[q] = Def(v) => q = d)
                       => m.inst[v] = m0.inst[v]

(* What the rollback ends with: the stack below the marker, with the array *)
(* that is returned right above it.                                        *)
Cleared(m0, r, p, d) ==
  /\ r.stack \in [Slots -> Entries] /\ r.inst \in [Vars -> Instantiations]
  /\ r.sp = p - 1 /\ r.fault = "none"
  /\ \A q \in 0 .. p - 1 : r.stack[q] = m0.stack[q]
  /\ \A q \in p .. StackSize - 1 : r.stack[q].stored => d # -1 /\ q = p
  /\ d # -1 => r.stack[p] = Stored(m0.stack[d].of)
  /\ \A v \in Vars : (\A q \in p + 1 .. m0.sp : m0.stack[q] = Def(v) => q = d)
                       => r.inst[v] = m0.inst[v]

(* relocate_stored_elements moves nothing when nothing is stored above.    *)
LEMMA RelocateNone ==
  ASSUME NEW st \in [Slots -> Entries], NEW p \in Slots,
         \A q \in p + 1 .. StackSize - 1 : ~st[q].stored
  PROVE  Relocate(st, p) = st
<1>1. StoredAbove(st, p) = {}
  <2> SUFFICES ASSUME NEW q \in p + 1 .. StackSize - 1, \A r \in p + 1 .. q : st[r].stored
               PROVE  FALSE
    BY DEF StoredAbove
  <2>1. q \in p + 1 .. q
    BY SizeAssumption DEF Slots
  <2> QED
    BY <2>1
<1>2. Relocate(st, p) = [q \in Slots |-> st[q]]
  BY <1>1 DEF Relocate
<1> QED
  BY <1>2

(* It moves the one stored entry above p down to p.                        *)
LEMMA RelocateOne ==
  ASSUME NEW st \in [Slots -> Entries], NEW p \in Slots, p + 1 \in Slots,
         st[p + 1].stored, \A q \in p + 2 .. StackSize - 1 : ~st[q].stored
  PROVE  Relocate(st, p) =
           [q \in Slots |-> IF q = p THEN st[p + 1] ELSE IF q = p + 1 THEN Null ELSE st[q]]
<1>1. StoredAbove(st, p) = {p + 1}
  <2>1. ASSUME NEW q \in p + 1 .. StackSize - 1, \A r \in p + 1 .. q : st[r].stored
        PROVE  q = p + 1
    BY <2>1, SizeAssumption DEF Slots
  <2>2. p + 1 \in p + 1 .. StackSize - 1 /\ \A r \in p + 1 .. p + 1 : r = p + 1
    BY SizeAssumption DEF Slots
  <2> QED
    BY <2>1, <2>2 DEF StoredAbove
<1>2. Relocate(st, p) =
        [q \in Slots |-> IF q + 1 \in {p + 1} THEN st[q + 1]
                         ELSE IF q \in {p + 1} THEN Null ELSE st[q]]
  BY <1>1 DEF Relocate
<1>3. \A q \in Slots : q + 1 \in {p + 1} <=> q = p
  BY SizeAssumption DEF Slots
<1> QED
  BY <1>2, <1>3

(* The fields of a machine state.                                          *)
LEMMA MachineIs ==
  ASSUME NEW m \in Machines
  PROVE  /\ m = [stack |-> m.stack, sp |-> m.sp, inst |-> m.inst, fault |-> m.fault,
                 save_sp |-> m.save_sp]
         /\ m.stack \in [Slots -> Entries] /\ m.sp \in Int /\ m.sp >= -1 /\ m.sp < StackSize
         /\ m.inst \in [Vars -> Instantiations] /\ m.fault = "none" /\ m.save_sp \in Int
BY SizeAssumption DEF Machines

(* What GiveUp does, field by field.                                       *)
LEMMA GiveUpIs ==
  ASSUME NEW m \in Machines, m.sp \in Slots, NEW slot \in Entries
  PROVE  LET st == [m.stack EXCEPT ![m.sp] = slot] IN
         /\ GiveUp(m, slot) =
              [stack |-> IF m.sp < m.save_sp THEN Relocate(st, m.sp) ELSE st,
               sp |-> m.sp - 1, inst |-> m.inst, fault |-> m.fault, save_sp |-> m.save_sp]
         /\ st \in [Slots -> Entries]
<1> DEFINE st == [m.stack EXCEPT ![m.sp] = slot]
           x == IF m.sp < m.save_sp THEN Relocate(st, m.sp) ELSE st
           k == [m EXCEPT !.stack = x]
<1>1. st \in [Slots -> Entries]
  BY MachineIs
<1> HIDE DEF x
<1>2. k = [stack |-> x, sp |-> m.sp, inst |-> m.inst, fault |-> m.fault, save_sp |-> m.save_sp]
  BY MachineIs
<1>3. GiveUp(m, slot) = [k EXCEPT !.sp = @ - 1]
  BY DEF GiveUp, x
<1> HIDE DEF k
<1>4. [k EXCEPT !.sp = @ - 1] =
        [stack |-> x, sp |-> m.sp - 1, inst |-> m.inst, fault |-> m.fault, save_sp |-> m.save_sp]
  BY <1>2
<1> QED
  BY <1>1, <1>3, <1>4 DEF x

(* The fields of the entries.                                              *)
LEMMA EntryFacts ==
  /\ \A kind, of : Entry(kind, of).kind = kind /\ Entry(kind, of).of = of
                   /\ Entry(kind, of).stored = FALSE
  /\ Null \in Entries /\ Temp \in Entries
  /\ \A b \in Blocks : Marker(b) \in Entries
  /\ \A v \in Vars : Def(v) \in Entries /\ Stored(v) \in Entries
  /\ \A v : Stored(v).kind = "var" /\ Stored(v).of = v /\ Stored(v).stored
BY DEF Entry, Null, Temp, Marker, Def, Stored, Entries

(* Entries of different kinds differ, and none is stored when it is        *)
(* pushed.                                                                 *)
LEMMA Different ==
  /\ Null.kind = "null" /\ Temp.kind = "temp"
  /\ \A b : Marker(b).kind = "marker" /\ Marker(b).of = b
  /\ \A v : Def(v).kind = "var" /\ Def(v).of = v
  /\ ~Null.stored /\ ~Temp.stored /\ (\A b : ~Marker(b).stored) /\ (\A v : ~Def(v).stored)
BY EntryFacts DEF Null, Temp, Marker, Def

(* A temporary or a marker is given up, with nothing stored above it.      *)
LEMMA EraseOtherIs ==
  ASSUME NEW m \in Machines, m.sp \in Slots, m.sp <= m.save_sp,
         m.stack[m.sp].kind \in {"temp", "marker"}, ~m.stack[m.sp].stored,
         \A q \in m.sp + 1 .. StackSize - 1 : ~m.stack[q].stored
  PROVE  \E slot \in Entries, s \in Int :
           /\ ~slot.stored /\ m.sp - 1 <= s
           /\ Erase(m) = [stack |-> [m.stack EXCEPT ![m.sp] = slot], sp |-> m.sp - 1,
                          inst |-> m.inst, fault |-> m.fault, save_sp |-> s]
<1> DEFINE e == m.stack[m.sp]
           slot == IF e.kind = "marker" THEN e ELSE Null
           k == IF m.sp = m.save_sp - 1 THEN [m EXCEPT !.save_sp = @ - 1] ELSE m
           st == [m.stack EXCEPT ![m.sp] = slot]
<1>1. slot \in Entries /\ ~slot.stored
  BY MachineIs, EntryFacts, Different
<1>2. /\ k \in Machines /\ k.stack = m.stack /\ k.sp = m.sp /\ k.inst = m.inst
      /\ k.fault = m.fault /\ m.sp - 1 <= k.save_sp /\ k.save_sp \in Int
  BY MachineIs DEF Machines
<1>3. Erase(m) = GiveUp(k, slot)
  BY DEF Erase, EraseOther
<1> HIDE DEF k, slot
<1>4. /\ GiveUp(k, slot) =
           [stack |-> IF k.sp < k.save_sp THEN Relocate(st, k.sp) ELSE st,
            sp |-> m.sp - 1, inst |-> m.inst, fault |-> m.fault, save_sp |-> k.save_sp]
      /\ st \in [Slots -> Entries]
  BY <1>1, <1>2, GiveUpIs
<1>5. \A q \in m.sp + 1 .. StackSize - 1 : q # m.sp /\ q \in Slots
  BY SizeAssumption DEF Slots
<1>6. \A q \in m.sp + 1 .. StackSize - 1 : ~st[q].stored
  BY <1>5, MachineIs
<1>7. Relocate(st, k.sp) = st
  BY <1>2, <1>4, <1>6, RelocateNone
<1>8. Erase(m) = [stack |-> st, sp |-> m.sp - 1, inst |-> m.inst, fault |-> m.fault,
                  save_sp |-> k.save_sp]
  BY <1>3, <1>4, <1>7
<1> QED
  BY <1>1, <1>2, <1>8

(* The definition of a variable is given up, and what is stored above it   *)
(* moves into its slot.                                                    *)
Moved(m, p) ==
  [q \in Slots |-> IF q = p THEN m.stack[p + 1] ELSE IF q = p + 1 THEN Null ELSE m.stack[q]]

(* The instantiation of the variable at the stack pointer is freed.        *)
Freed(m) == [v \in Vars |-> IF v = m.stack[m.sp].of THEN "none" ELSE m.inst[v]]

(* GiveUp of a slot with one entry stored above it.                        *)
LEMMA GiveUpOne ==
  ASSUME NEW m \in Machines, m.sp \in Slots, m.sp + 1 \in Slots, m.sp < m.save_sp,
         m.stack[m.sp + 1].stored,
         \A q \in m.sp + 2 .. StackSize - 1 : ~m.stack[q].stored
  PROVE  GiveUp(m, Null) = [stack |-> Moved(m, m.sp), sp |-> m.sp - 1,
                            inst |-> m.inst, fault |-> m.fault, save_sp |-> m.save_sp]
<1> DEFINE st == [m.stack EXCEPT ![m.sp] = Null]
<1>1. /\ GiveUp(m, Null) =
           [stack |-> IF m.sp < m.save_sp THEN Relocate(st, m.sp) ELSE st,
            sp |-> m.sp - 1, inst |-> m.inst, fault |-> m.fault, save_sp |-> m.save_sp]
      /\ st \in [Slots -> Entries]
  BY EntryFacts, GiveUpIs
<1>2. m.sp # m.sp + 1 /\ \A q \in m.sp + 2 .. StackSize - 1 : q # m.sp /\ q \in Slots
  BY SizeAssumption DEF Slots
<1>3. st[m.sp + 1] = m.stack[m.sp + 1] /\ \A q \in Slots : q # m.sp => st[q] = m.stack[q]
  BY <1>2, MachineIs
<1>4. \A q \in m.sp + 2 .. StackSize - 1 : ~st[q].stored
  BY <1>2, <1>3
<1>5. st[m.sp + 1].stored
  BY <1>3
<1> HIDE DEF st
<1>6. Relocate(st, m.sp) =
        [q \in Slots |-> IF q = m.sp THEN st[m.sp + 1]
                         ELSE IF q = m.sp + 1 THEN Null ELSE st[q]]
  BY <1>1, <1>4, <1>5, RelocateOne
<1>7. Relocate(st, m.sp) = Moved(m, m.sp)
  BY <1>3, <1>6 DEF Moved
<1> QED
  BY <1>1, <1>7

(* GiveUp of a slot with nothing stored above it.                          *)
LEMMA GiveUpNone ==
  ASSUME NEW m \in Machines, m.sp \in Slots,
         \A q \in m.sp + 1 .. StackSize - 1 : ~m.stack[q].stored
  PROVE  GiveUp(m, Null) = [stack |-> [m.stack EXCEPT ![m.sp] = Null], sp |-> m.sp - 1,
                            inst |-> m.inst, fault |-> m.fault, save_sp |-> m.save_sp]
<1> DEFINE st == [m.stack EXCEPT ![m.sp] = Null]
<1>1. /\ GiveUp(m, Null) =
           [stack |-> IF m.sp < m.save_sp THEN Relocate(st, m.sp) ELSE st,
            sp |-> m.sp - 1, inst |-> m.inst, fault |-> m.fault, save_sp |-> m.save_sp]
      /\ st \in [Slots -> Entries]
  BY EntryFacts, GiveUpIs
<1>2. \A q \in m.sp + 1 .. StackSize - 1 : q # m.sp /\ q \in Slots
  BY SizeAssumption DEF Slots
<1>3. \A q \in m.sp + 1 .. StackSize - 1 : ~st[q].stored
  BY <1>2, MachineIs
<1> HIDE DEF st
<1>4. Relocate(st, m.sp) = st
  BY <1>1, <1>3, RelocateNone
<1> QED
  BY <1>1, <1>4 DEF st

(* What erasing a live variable starts with: its instantiation is freed.   *)
LEMMA EraseLive ==
  ASSUME NEW m \in Machines, m.sp \in Slots, NEW v \in Vars, m.stack[m.sp] = Def(v),
         m.inst[v] = "live"
  PROVE  /\ Erase(m) = GiveUp([m EXCEPT !.inst = Freed(m)], Null)
         /\ [m EXCEPT !.inst = Freed(m)] \in Machines
         /\ Freed(m) \in [Vars -> Instantiations]
<1>1. m.stack[m.sp].kind = "var" /\ m.stack[m.sp].of = v /\ ~m.stack[m.sp].stored
  BY Different
<1>2. Freed(m) = [m.inst EXCEPT ![v] = "none"]
  BY <1>1, MachineIs DEF Freed
<1>3. [m EXCEPT !.inst[m.stack[m.sp].of] = "none"] = [m EXCEPT !.inst = Freed(m)]
  BY <1>1, <1>2
<1>4. Freed(m) \in [Vars -> Instantiations]
  BY MachineIs DEF Freed, Instantiations
<1>5. [m EXCEPT !.inst = Freed(m)] \in Machines
  BY <1>4 DEF Machines
<1>6. EraseDef(m) = IF m.stack[m.sp].stored
                    THEN [[m EXCEPT !.inst[m.stack[m.sp].of] = "none"] EXCEPT !.sp = @ - 1]
                    ELSE GiveUp([m EXCEPT !.inst[m.stack[m.sp].of] = "none"], Null)
  BY <1>1 DEF EraseDef
<1> QED
  BY <1>1, <1>3, <1>4, <1>5, <1>6 DEF Erase

(* The array that is returned stays, as a stored entry.                    *)
LEMMA EraseStored ==
  ASSUME NEW m \in Machines, m.sp \in Slots, NEW v \in Vars, m.stack[m.sp] = Def(v),
         m.inst[v] = "stored"
  PROVE  Erase(m) = [stack |-> [m.stack EXCEPT ![m.sp] = Stored(v)], sp |-> m.sp - 1,
                     inst |-> m.inst, fault |-> m.fault, save_sp |-> m.save_sp]
<1>1. m.stack[m.sp].kind = "var" /\ m.stack[m.sp].of = v /\ ~m.stack[m.sp].stored
  BY Different
<1> DEFINE k == [m EXCEPT !.stack[m.sp].stored = TRUE]
<1>2. Erase(m) = [k EXCEPT !.sp = @ - 1]
  BY <1>1 DEF Erase, EraseDef
<1>3. [Def(v) EXCEPT !.stored = TRUE] = Stored(v)
  <2> DEFINE x == FALSE
             y == TRUE
  <2>1. Def(v) = [kind |-> "var", of |-> v, stored |-> x]
    BY DEF Def, Entry
  <2>2. Stored(v) = [kind |-> "var", of |-> v, stored |-> y]
    BY DEF Stored
  <2> SUFFICES [Def(v) EXCEPT !.stored = y] = Stored(v)
    OBVIOUS
  <2> HIDE DEF x, y
  <2> QED
    BY <2>1, <2>2
<1>4. [m.stack EXCEPT ![m.sp].stored = TRUE] = [m.stack EXCEPT ![m.sp] = Stored(v)]
  BY <1>3, MachineIs
<1>5. k = [m EXCEPT !.stack = [m.stack EXCEPT ![m.sp].stored = TRUE]]
  OBVIOUS
<1> DEFINE x == [m.stack EXCEPT ![m.sp] = Stored(v)]
<1>6. k = [m EXCEPT !.stack = x]
  BY <1>4, <1>5
<1> HIDE DEF k, x
<1>7. k = [stack |-> x, sp |-> m.sp, inst |-> m.inst, fault |-> m.fault, save_sp |-> m.save_sp]
  BY <1>6, MachineIs
<1>8. [k EXCEPT !.sp = @ - 1] =
        [stack |-> x, sp |-> m.sp - 1, inst |-> m.inst, fault |-> m.fault, save_sp |-> m.save_sp]
  BY <1>7
<1> QED
  BY <1>2, <1>8 DEF x

(* The numbers in Clear, for arithmetic.                                   *)
LEMMA ClearFacts ==
  ASSUME NEW m0, NEW b \in Blocks, NEW p, NEW d, Clear(m0, b, p, d)
  PROVE  /\ m0 \in Machines /\ m0.save_sp = m0.sp /\ m0.sp \in Int /\ m0.sp < StackSize
         /\ p \in Int /\ 0 <= p /\ p <= m0.sp /\ d \in Int /\ d <= m0.sp
         /\ d = -1 \/ p < d
         /\ m0.stack[p] = Marker(b)
BY SizeAssumption DEF Clear, Machines

(* The rollback stops at its marker, and not before.                       *)
LEMMA StopsThere ==
  ASSUME NEW m0, NEW m, NEW b \in Blocks, NEW p, NEW d, Clear(m0, b, p, d),
         Underway(m0, m, p, d)
  PROVE  Stops(m, b) <=> m.sp = p
<1>0. /\ p \in Int /\ 0 <= p /\ p <= m0.sp /\ m0.sp \in Int /\ m0.sp < StackSize
      /\ m0.stack[p] = Marker(b)
  BY ClearFacts
<1>1. m \in Machines /\ m.sp \in p .. m0.sp /\ m.stack[m.sp] = m0.stack[m.sp]
  <2>1. m \in Machines /\ m.sp \in p .. m0.sp /\ \A q \in 0 .. m.sp : m.stack[q] = m0.stack[q]
    BY DEF Underway
  <2>2. m.sp \in 0 .. m.sp
    BY <2>1, <1>0
  <2> QED
    BY <2>1, <2>2
<1>2. CASE m.sp = p
  BY <1>1, <1>2, <1>0 DEF Stops
<1>3. CASE m.sp # p
  <2>1. m.sp \in p + 1 .. m0.sp
    BY <1>1, <1>3, <1>0
  <2>2. \/ m0.stack[m.sp] = Temp
        \/ \E c \in Blocks : c # b /\ m0.stack[m.sp] = Marker(c)
        \/ \E v \in Vars : m0.stack[m.sp] = Def(v)
    BY <2>1 DEF Clear
  <2>3. m0.stack[m.sp] # Null /\ m0.stack[m.sp] # Marker(b)
    BY <2>2, Different
  <2>4. m.fault = "none" /\ m.sp # -1
    BY <1>1, <2>1, <1>0, MachineIs
  <2> QED
    BY <1>1, <1>3, <2>3, <2>4 DEF Stops
<1> QED
  BY <1>2, <1>3

(* The machine in the middle of the loop, for arithmetic.                  *)
LEMMA UnderwayFacts ==
  ASSUME NEW m0, NEW m, NEW b \in Blocks, NEW p, NEW d, Clear(m0, b, p, d),
         Underway(m0, m, p, d), m.sp # p
  PROVE  /\ m \in Machines /\ m.sp \in Slots /\ m.sp \in p + 1 .. m0.sp
         /\ m.stack[m.sp] = m0.stack[m.sp]
         /\ m.sp \in Int /\ m.save_sp \in Int /\ m.sp <= m.save_sp
         /\ m.stack \in [Slots -> Entries] /\ m.inst \in [Vars -> Instantiations]
         /\ m.fault = "none" /\ m.sp <= StackSize - 1
<1>0. /\ p \in Int /\ 0 <= p /\ p <= m0.sp /\ m0.sp \in Int /\ m0.sp < StackSize
      /\ m0.stack[p] = Marker(b)
  BY ClearFacts
<1>1. m \in Machines /\ m.sp \in p .. m0.sp /\ \A q \in 0 .. m.sp : m.stack[q] = m0.stack[q]
  BY DEF Underway
<1>2. m.sp \in p + 1 .. m0.sp /\ m.sp \in 0 .. m.sp
  BY <1>1, <1>0
<1>3. m.sp \in Slots
  BY <1>2, <1>0, SizeAssumption DEF Slots
<1> QED
  BY <1>0, <1>1, <1>2, <1>3, MachineIs, SizeAssumption DEF Underway

(* One step of the loop.                                                   *)
LEMMA EraseStep ==
  ASSUME NEW m0, NEW m, NEW b \in Blocks, NEW p, NEW d, Clear(m0, b, p, d),
         Underway(m0, m, p, d), m.sp # p
  PROVE  Underway(m0, Erase(m), p, d) /\ Erase(m).sp = m.sp - 1
<1> DEFINE s == m.sp
           r == Erase(m)
<1>1. /\ m \in Machines /\ s \in Slots /\ s \in p + 1 .. m0.sp
      /\ m.stack[s] = m0.stack[s]
      /\ s \in Int /\ m.save_sp \in Int /\ s <= m.save_sp
      /\ m.stack \in [Slots -> Entries] /\ m.inst \in [Vars -> Instantiations]
      /\ m.fault = "none" /\ s <= StackSize - 1
  BY UnderwayFacts
<1>2. /\ \A q \in 0 .. s : m.stack[q] = m0.stack[q]
      /\ \A q \in s + 1 .. StackSize - 1 : m.stack[q].stored => s < d /\ q = s + 1
      /\ s < d => s < m.save_sp /\ m.stack[s + 1] = Stored(m0.stack[d].of)
      /\ \A v \in Vars : (\A q \in s + 1 .. m0.sp : m0.stack[q] = Def(v) => q = d)
                           => m.inst[v] = m0.inst[v]
  BY DEF Underway
<1>3. /\ p \in Int /\ 0 <= p /\ d \in Int /\ d <= m0.sp /\ (d = -1 \/ p < d)
      /\ m0.sp \in Int /\ m0.sp < StackSize
  BY ClearFacts
<1>4. \/ m0.stack[s] = Temp
      \/ \E c \in Blocks : c # b /\ m0.stack[s] = Marker(c)
      \/ \E v \in Vars : /\ m0.stack[s] = Def(v)
                         /\ s # d => m0.inst[v] = "live"
                         /\ s = d => m0.inst[v] = "stored"
  BY <1>1 DEF Clear
<1>5. d # -1 => m0.stack[d].kind = "var" /\ \A q \in p + 1 .. d : m0.stack[q].kind = "var"
  BY <1>3 DEF Clear
<1>6. \A q \in s .. StackSize - 1 : q \in Slots /\ (q = s \/ q \in s + 1 .. StackSize - 1)
  BY <1>1, SizeAssumption DEF Slots
<1>7. \A v \in Vars : (\A q \in s .. m0.sp : m0.stack[q] = Def(v) => q = d)
        => /\ m.inst[v] = m0.inst[v]
           /\ m0.stack[s] = Def(v) => s = d
  BY <1>1, <1>2, <1>3
<1>8. \A q \in 0 .. s - 1 : q \in 0 .. s /\ q \in Slots /\ q # s
  BY <1>1, SizeAssumption DEF Slots
<1>9. /\ (s - 1) + 1 = s /\ s - 1 \in p .. m0.sp /\ s - 1 \in -1 .. StackSize - 1
      /\ s - 1 < s /\ s - 1 \in Int
  BY <1>1, <1>3, SizeAssumption
<1>10. SUFFICES ASSUME TRUE
       PROVE  /\ r.stack \in [Slots -> Entries] /\ r.sp = s - 1
              /\ r.inst \in [Vars -> Instantiations] /\ r.fault = "none"
              /\ r.save_sp \in Int /\ s - 1 <= r.save_sp
              /\ r = [stack |-> r.stack, sp |-> r.sp, inst |-> r.inst, fault |-> r.fault,
                      save_sp |-> r.save_sp]
              /\ \A q \in 0 .. s - 1 : r.stack[q] = m0.stack[q]
              /\ \A q \in s .. StackSize - 1 : r.stack[q].stored => s - 1 < d /\ q = s
              /\ s - 1 < d => s - 1 < r.save_sp /\ r.stack[s] = Stored(m0.stack[d].of)
              /\ \A v \in Vars : (\A q \in s .. m0.sp : m0.stack[q] = Def(v) => q = d)
                                   => r.inst[v] = m0.inst[v]
  <2> HIDE DEF r, s
  <2>1. r \in Machines
    BY <1>9, <1>10 DEF Machines
  <2>2. Underway(m0, r, p, d)
    BY ONLY <1>9, <1>10, <2>1 DEF Underway
  <2> QED
    BY <1>10, <2>2 DEF r, s
<1>11. CASE s > d /\ m0.stack[s].kind \in {"temp", "marker"}
  <2>1. ~m.stack[s].stored /\ m.stack[s].kind \in {"temp", "marker"}
    BY <1>1, <1>4, <1>11, Different
  <2>2. \A q \in s + 1 .. StackSize - 1 : ~m.stack[q].stored
    BY <1>1, <1>2, <1>3, <1>11
  <2>3. PICK slot \in Entries, x \in Int :
           /\ ~slot.stored /\ s - 1 <= x
           /\ r = [stack |-> [m.stack EXCEPT ![s] = slot], sp |-> s - 1,
                   inst |-> m.inst, fault |-> m.fault, save_sp |-> x]
    BY <1>1, <2>1, <2>2, EraseOtherIs
  <2>4. ~(s - 1 < d)
    BY <1>1, <1>3, <1>11
  <2> HIDE DEF r, s
  <2>5. \A q \in s .. StackSize - 1 : ~r.stack[q].stored
    BY <1>1, <1>6, <2>2, <2>3
  <2>6. \A q \in 0 .. s - 1 : r.stack[q] = m0.stack[q]
    BY <1>1, <1>2, <1>8, <2>3
  <2>7. r.stack \in [Slots -> Entries]
    BY <1>1, <2>3
  <2> QED
    BY <1>1, <1>7, <2>3, <2>4, <2>5, <2>6, <2>7
<1>12. CASE s = d
  <2>1. PICK v \in Vars : m0.stack[s] = Def(v) /\ m0.inst[v] = "stored"
    <3>1. m0.stack[s].kind = "var"
      BY <1>1, <1>3, <1>5, <1>12
    <3> QED
      BY <1>4, <1>12, <3>1, Different
  <2>2. m.inst[v] = "stored"
    <3>1. \A q \in s + 1 .. m0.sp : m0.stack[q] # m0.stack[s]
      <4>1. \A q \in s + 1 .. m0.sp : q \in 0 .. m0.sp /\ s \in 0 .. m0.sp /\ q # s
        BY <1>1, <1>3
      <4>2. m0.stack[s].kind = "var"
        BY <2>1, Different
      <4> QED
        BY <4>1, <4>2 DEF Clear
    <3> QED
      BY <1>2, <2>1, <3>1
  <2>3. r = [stack |-> [m.stack EXCEPT ![s] = Stored(v)], sp |-> s - 1,
             inst |-> m.inst, fault |-> m.fault, save_sp |-> m.save_sp]
    BY <1>1, <2>1, <2>2, EraseStored
  <2> HIDE DEF r, s
  <2>4. \A q \in s + 1 .. StackSize - 1 : ~m.stack[q].stored /\ q \in Slots /\ q # s
    BY <1>1, <1>2, <1>3, <1>12, SizeAssumption DEF Slots
  <2>5. \A q \in s .. StackSize - 1 : r.stack[q].stored => q = s
    BY <1>6, <2>3, <2>4
  <2>6. \A q \in 0 .. s - 1 : r.stack[q] = m0.stack[q]
    BY <1>1, <1>2, <1>8, <2>3
  <2>7. r.stack \in [Slots -> Entries]
    BY <1>1, <2>3, EntryFacts
  <2>8. r.stack[s] = Stored(m0.stack[d].of)
    BY <1>1, <1>12, <2>1, <2>3, Different
  <2>9. s - 1 < d /\ s - 1 < m.save_sp
    BY <1>1, <1>3, <1>12
  <2> QED
    BY <1>1, <1>7, <2>3, <2>5, <2>6, <2>7, <2>8, <2>9
<1>13. CASE s # d /\ m0.stack[s].kind = "var"
  <2>1. PICK v \in Vars : m0.stack[s] = Def(v) /\ m0.inst[v] = "live"
    BY <1>4, <1>13, Different
  <2>2. m.inst[v] = "live"
    <3>1. \A q \in s + 1 .. m0.sp : m0.stack[q] # m0.stack[s]
      <4>1. \A q \in s + 1 .. m0.sp : q \in 0 .. m0.sp /\ s \in 0 .. m0.sp /\ q # s
        BY <1>1, <1>3
      <4>2. m0.stack[s].kind = "var"
        BY <2>1, Different
      <4> QED
        BY <4>1, <4>2 DEF Clear
    <3> QED
      BY <1>2, <2>1, <3>1
  <2> DEFINE f == [m EXCEPT !.inst = Freed(m)]
  <2>3. r = GiveUp(f, Null) /\ f \in Machines /\ Freed(m) \in [Vars -> Instantiations]
    BY <1>1, <2>1, <2>2, EraseLive
  <2>4. /\ f.stack = m.stack /\ f.sp = s /\ f.inst = Freed(m) /\ f.fault = "none"
        /\ f.save_sp = m.save_sp
    BY <1>1, MachineIs
  <2>5. \A w \in Vars : (\A q \in s .. m0.sp : m0.stack[q] = Def(w) => q = d)
                          => Freed(m)[w] = m0.inst[w]
    <3> SUFFICES ASSUME NEW w \in Vars, \A q \in s .. m0.sp : m0.stack[q] = Def(w) => q = d
                 PROVE  Freed(m)[w] = m0.inst[w]
      OBVIOUS
    <3>1. m.inst[w] = m0.inst[w] /\ m0.stack[s] # Def(w)
      BY <1>7, <1>13
    <3>2. w # v /\ m.stack[m.sp].of = v
      BY <1>1, <2>1, <3>1, Different
    <3> QED
      BY <3>1, <3>2 DEF Freed
  <2> HIDE DEF f
  <2>6. CASE s < d
    <3>1. s < m.save_sp /\ m.stack[s + 1] = Stored(m0.stack[d].of)
      BY <1>2, <2>6
    <3>2. s + 1 \in Slots /\ s + 1 # s
      BY <1>1, <1>3, <2>6, SizeAssumption DEF Slots
    <3>3. \A q \in s + 2 .. StackSize - 1 : ~m.stack[q].stored
      BY <1>1, <1>2
    <3>4. m.stack[s + 1].stored
      BY <3>1, EntryFacts
    <3>5. r = [stack |-> Moved(f, s), sp |-> s - 1, inst |-> Freed(m),
               fault |-> "none", save_sp |-> m.save_sp]
      BY <1>1, <2>3, <2>4, <3>1, <3>2, <3>3, <3>4, GiveUpOne
    <3>6. Moved(f, s) = [q \in Slots |-> IF q = s THEN m.stack[s + 1]
                                         ELSE IF q = s + 1 THEN Null ELSE m.stack[q]]
      BY <2>4 DEF Moved
    <3> HIDE DEF r, s
    <3>7. Moved(f, s) \in [Slots -> Entries]
      BY <1>1, <3>2, <3>6, EntryFacts
    <3>8. \A q \in 0 .. s - 1 : q # s + 1
      BY <1>1
    <3>9. \A q \in 0 .. s - 1 : Moved(f, s)[q] = m0.stack[q]
      BY <1>2, <1>8, <3>6, <3>8
    <3>10. Moved(f, s)[s] = Stored(m0.stack[d].of)
      BY <1>1, <3>1, <3>6
    <3>11. \A q \in s .. StackSize - 1 : q = s \/ q = s + 1 \/ q \in s + 2 .. StackSize - 1
      BY <1>1
    <3>12. \A q \in s + 2 .. StackSize - 1 : q # s /\ q # s + 1 /\ q \in Slots
      BY <1>1, SizeAssumption DEF Slots
    <3>13. \A q \in s .. StackSize - 1 : Moved(f, s)[q].stored => q = s
      BY <3>2, <3>3, <3>6, <3>11, <3>12, Different
    <3>14. s - 1 < d /\ s - 1 < m.save_sp /\ s - 1 <= m.save_sp
      BY <1>1, <1>3, <2>6, <3>1
    <3> QED
      BY <1>1, <2>3, <2>5, <3>5, <3>7, <3>9, <3>10, <3>13, <3>14
  <2>7. CASE d < s
    <3>1. \A q \in s + 1 .. StackSize - 1 : ~m.stack[q].stored
      BY <1>1, <1>2, <1>3, <2>7
    <3>2. r = [stack |-> [m.stack EXCEPT ![s] = Null], sp |-> s - 1, inst |-> Freed(m),
               fault |-> "none", save_sp |-> m.save_sp]
      BY <1>1, <2>3, <2>4, <3>1, GiveUpNone
    <3> HIDE DEF r, s
    <3>3. \A q \in s .. StackSize - 1 : ~r.stack[q].stored
      BY <1>1, <1>6, <3>1, <3>2, Different
    <3>4. \A q \in 0 .. s - 1 : r.stack[q] = m0.stack[q]
      BY <1>1, <1>2, <1>8, <3>2
    <3>5. r.stack \in [Slots -> Entries]
      BY <1>1, <3>2, EntryFacts
    <3>6. ~(s - 1 < d) /\ s - 1 <= m.save_sp
      BY <1>1, <1>3, <2>7
    <3> QED
      BY <1>1, <2>3, <2>5, <3>2, <3>3, <3>4, <3>5, <3>6
  <2> QED
    BY <1>1, <1>3, <1>13, <2>6, <2>7
<1>14. \/ s > d /\ m0.stack[s].kind \in {"temp", "marker"}
       \/ s = d
       \/ s # d /\ m0.stack[s].kind = "var"
  <2>1. m0.stack[s].kind \in {"temp", "marker", "var"}
    BY <1>4, Different
  <2>2. s < d => m0.stack[s].kind = "var"
    BY <1>1, <1>3, <1>5
  <2> QED
    BY <1>1, <1>3, <2>1, <2>2
<1> QED
  BY <1>11, <1>12, <1>13, <1>14

(* The recursive function of Rollback, over the first n steps.             *)
Steps(f, m0, b, n) ==
  f = [k \in 0 .. n |-> IF k = 0 THEN m0
                        ELSE LET m == f[k - 1] IN IF Stops(m, b) THEN m ELSE Erase(m)]

(* Such functions exist: they are made step by step.                       *)
LEMMA StepsExist ==
  ASSUME NEW m0, NEW b
  PROVE  \A n \in Nat : \E f : Steps(f, m0, b, n)
<1> DEFINE S == {n \in Nat : \E f : Steps(f, m0, b, n)}
<1>1. 0 \in S
  <2> DEFINE f == [k \in 0 .. 0 |-> m0]
  <2>1. Steps(f, m0, b, 0)
    BY DEF Steps
  <2> QED
    BY <2>1
<1>2. ASSUME NEW n \in Nat, n \in S
      PROVE  n + 1 \in S
  <2>1. PICK f : Steps(f, m0, b, n)
    BY <1>2
  <2> DEFINE Then(m) == IF Stops(m, b) THEN m ELSE Erase(m)
             x == Then(f[n])
             g == [k \in 0 .. n + 1 |-> IF k = n + 1 THEN x ELSE f[k]]
  <2> HIDE DEF Then
  <2>2. \A k \in 0 .. n : f[k] = IF k = 0 THEN m0 ELSE Then(f[k - 1])
    BY <2>1 DEF Steps, Then
  <2>3. (n + 1) - 1 = n /\ n + 1 # 0 /\ n \in 0 .. n + 1 /\ n # n + 1
    OBVIOUS
  <2>4. g[n + 1] = Then(g[(n + 1) - 1])
    BY <2>3
  <2>5. ASSUME NEW k \in 0 .. n
        PROVE  g[k] = IF k = 0 THEN m0 ELSE Then(g[k - 1])
    <3>1. g[k] = f[k]
      OBVIOUS
    <3>2. k # 0 => g[k - 1] = f[k - 1]
      OBVIOUS
    <3> QED
      BY <2>2, <3>1, <3>2
  <2>6. \A k \in 0 .. n + 1 : k \in 0 .. n \/ k = n + 1
    OBVIOUS
  <2>7. g = [k \in 0 .. n + 1 |-> g[k]]
    OBVIOUS
  <2> HIDE DEF g
  <2>8. \A k \in 0 .. n + 1 : g[k] = IF k = 0 THEN m0 ELSE Then(g[k - 1])
    BY <2>3, <2>4, <2>5, <2>6
  <2>9. Steps(g, m0, b, n + 1)
    BY <2>7, <2>8 DEF Steps, Then
  <2> QED
    BY <2>9
<1> HIDE DEF S
<1>3. \A n \in Nat : n \in S
  BY <1>1, <1>2, Induction
<1> QED
  BY <1>3 DEF S

(* Rollback takes its result from one.                                     *)
LEMMA RollbackIs ==
  ASSUME NEW m0, NEW b
  PROVE  \E f : Steps(f, m0, b, StackSize) /\ Rollback(m0, b) = f[m0.sp + 1]
<1> DEFINE f == CHOOSE g : Steps(g, m0, b, StackSize)
<1>1. Steps(f, m0, b, StackSize)
  BY StepsExist, SizeAssumption
<1>2. Rollback(m0, b) = f[m0.sp + 1]
  BY DEF Steps, Rollback
<1> QED
  BY <1>1, <1>2

(* The loop begins with what it keeps.                                     *)
LEMMA UnderwayAtStart ==
  ASSUME NEW m0, NEW b \in Blocks, NEW p, NEW d, Clear(m0, b, p, d)
  PROVE  Underway(m0, m0, p, d)
<1>1. /\ m0 \in Machines /\ m0.save_sp = m0.sp /\ m0.sp \in Int
      /\ p \in Int /\ 0 <= p /\ p <= m0.sp /\ d \in Int /\ d <= m0.sp
  BY ClearFacts
<1>2. \A q \in m0.sp + 1 .. StackSize - 1 : ~m0.stack[q].stored
  BY DEF Clear
<1>3. ~(m0.sp < d) /\ m0.sp \in p .. m0.sp /\ m0.sp <= m0.save_sp
  BY <1>1
<1> QED
  BY <1>1, <1>2, <1>3 DEF Underway

(* The rollback ends at its marker.                                        *)
LEMMA RollbackEnds ==
  ASSUME NEW m0, NEW b \in Blocks, NEW p, NEW d, Clear(m0, b, p, d)
  PROVE  Underway(m0, Rollback(m0, b), p, d) /\ Rollback(m0, b).sp = p
<1>1. PICK f : Steps(f, m0, b, StackSize) /\ Rollback(m0, b) = f[m0.sp + 1]
  BY RollbackIs
<1>2. /\ m0 \in Machines /\ m0.sp \in Int /\ m0.sp < StackSize
      /\ p \in Int /\ 0 <= p /\ p <= m0.sp
  BY ClearFacts
<1> DEFINE S == {n \in Nat : n <= m0.sp + 1 =>
                   Underway(m0, f[n], p, d) /\ (f[n].sp = p \/ f[n].sp = m0.sp - n)}
<1>3. 0 \in S
  <2>1. f[0] = m0
    BY <1>1, SizeAssumption DEF Steps
  <2> QED
    BY <1>2, <2>1, UnderwayAtStart
<1>4. ASSUME NEW n \in Nat, n \in S
      PROVE  n + 1 \in S
  <2> SUFFICES ASSUME n + 1 <= m0.sp + 1
               PROVE  /\ Underway(m0, f[n + 1], p, d)
                      /\ f[n + 1].sp = p \/ f[n + 1].sp = m0.sp - (n + 1)
    OBVIOUS
  <2>1. n <= m0.sp + 1 /\ n + 1 \in 0 .. StackSize /\ n + 1 # 0 /\ (n + 1) - 1 = n
    BY <1>2, SizeAssumption
  <2>2. Underway(m0, f[n], p, d) /\ (f[n].sp = p \/ f[n].sp = m0.sp - n)
    BY <1>4, <2>1
  <2>3. f[n + 1] = IF Stops(f[n], b) THEN f[n] ELSE Erase(f[n])
    BY <1>1, <2>1 DEF Steps
  <2>4. CASE f[n].sp = p
    BY <2>2, <2>3, <2>4, StopsThere
  <2>5. CASE f[n].sp # p
    <3>1. f[n + 1] = Erase(f[n])
      BY <2>2, <2>3, <2>5, StopsThere
    <3>2. Underway(m0, f[n + 1], p, d) /\ f[n + 1].sp = f[n].sp - 1
      BY <2>2, <2>5, <3>1, EraseStep
    <3> QED
      BY <1>2, <2>2, <2>5, <3>2
  <2> QED
    BY <2>4, <2>5
<1> HIDE DEF S
<1>5. \A n \in Nat : n \in S
  BY <1>3, <1>4, Induction
<1>6. m0.sp + 1 \in Nat /\ m0.sp - (m0.sp + 1) # p /\ m0.sp + 1 <= m0.sp + 1
  BY <1>2
<1>7. m0.sp + 1 \in S
  BY <1>5, <1>6
<1> DEFINE k == m0.sp + 1
<1>8. k <= m0.sp + 1 /\ m0.sp - k # p
  BY <1>6
<1>9. k \in S
  BY <1>7
<1> HIDE DEF k
<1>10. k <= m0.sp + 1 => Underway(m0, f[k], p, d) /\ (f[k].sp = p \/ f[k].sp = m0.sp - k)
  BY <1>9 DEF S
<1>11. Underway(m0, f[k], p, d) /\ f[k].sp = p
  <2>1. f[k].sp \in p .. m0.sp
    BY <1>8, <1>10 DEF Underway
  <2>2. f[k].sp # m0.sp - k
    BY <1>2, <2>1 DEF k
  <2> QED
    BY <1>8, <1>10, <2>2
<1> QED
  BY <1>1, <1>11 DEF k

(* A rollback to a marker of the stack takes off what is above the marker, *)
(* and the marker, and leaves what is below.                               *)
LEMMA ClrsIs ==
  ASSUME NEW m0, NEW b \in Blocks, NEW p, NEW d, Clear(m0, b, p, d)
  PROVE  Cleared(m0, Clrs(m0, b), p, d)
<1> DEFINE m == Rollback(m0, b)
           r == Clrs(m0, b)
<1>1. Underway(m0, m, p, d) /\ m.sp = p
  BY RollbackEnds
<1>2. /\ m0 \in Machines /\ m0.sp \in Int /\ m0.sp < StackSize
      /\ p \in Int /\ 0 <= p /\ p <= m0.sp /\ d \in Int /\ d <= m0.sp /\ (d = -1 \/ p < d)
      /\ m0.stack[p] = Marker(b)
  BY ClearFacts
<1>3. /\ m \in Machines
      /\ \A q \in 0 .. p : m.stack[q] = m0.stack[q]
      /\ \A q \in p + 1 .. StackSize - 1 : m.stack[q].stored => p < d /\ q = p + 1
      /\ p < d => p < m.save_sp /\ m.stack[p + 1] = Stored(m0.stack[d].of)
      /\ \A v \in Vars : (\A q \in p + 1 .. m0.sp : m0.stack[q] = Def(v) => q = d)
                           => m.inst[v] = m0.inst[v]
  BY <1>1 DEF Underway
<1>4. /\ m.stack \in [Slots -> Entries] /\ m.inst \in [Vars -> Instantiations]
      /\ m.fault = "none"
  BY <1>3, MachineIs
<1>5. p \in Slots /\ p \in 0 .. p /\ p # -1
  BY <1>2, SizeAssumption DEF Slots
<1>6. m.stack[p].kind = "marker"
  BY <1>2, <1>3, <1>5, Different
<1>7. r = GiveUp(m, Null)
  <2> HIDE DEF m
  <2>1. Clrs(m0, b) = CASE m.fault # "none" -> m
    [] m.fault = "none" /\ m.sp = -1 -> [m EXCEPT !.fault = "stack underflow"]
    [] m.fault = "none" /\ m.sp # -1 ->
         IF m.stack[m.sp].kind = "marker" THEN GiveUp(m, Null) ELSE m
    BY DEF Clrs, m
  <2> QED
    BY <1>1, <1>4, <1>5, <1>6, <2>1
<1>8. \A q \in 0 .. p - 1 : q \in 0 .. p /\ q \in Slots /\ q # p /\ q # p + 1
  BY <1>2, SizeAssumption DEF Slots
<1>9. \A q \in p .. StackSize - 1 : q \in Slots /\ (q = p \/ q \in p + 1 .. StackSize - 1)
  BY <1>2, SizeAssumption DEF Slots
<1>10. CASE d = -1
  <2>1. \A q \in p + 1 .. StackSize - 1 : ~m.stack[q].stored
    BY <1>2, <1>3, <1>10
  <2>2. r = [stack |-> [m.stack EXCEPT ![p] = Null], sp |-> p - 1, inst |-> m.inst,
             fault |-> "none", save_sp |-> m.save_sp]
    BY <1>1, <1>3, <1>4, <1>5, <1>7, <2>1, GiveUpNone
  <2> HIDE DEF r, m
  <2>3. \A q \in p .. StackSize - 1 : ~r.stack[q].stored
    BY <1>4, <1>9, <2>1, <2>2, Different
  <2>4. \A q \in 0 .. p - 1 : r.stack[q] = m0.stack[q]
    BY <1>3, <1>4, <1>8, <2>2
  <2>5. r.stack \in [Slots -> Entries]
    BY <1>4, <2>2, EntryFacts
  <2>6. r.inst = m.inst /\ r.sp = p - 1 /\ r.fault = "none"
    BY <2>2
  <2>7. Cleared(m0, r, p, d)
    BY ONLY <1>3, <1>4, <1>10, <2>3, <2>4, <2>5, <2>6 DEF Cleared
  <2> QED
    BY <2>7 DEF r
<1>11. CASE d # -1
  <2>1. p < d /\ p + 1 \in Slots /\ p + 1 # p
    BY <1>2, <1>11, SizeAssumption DEF Slots
  <2>2. p < m.save_sp /\ m.stack[p + 1] = Stored(m0.stack[d].of)
    BY <1>3, <2>1
  <2>3. m.stack[p + 1].stored
    BY <2>2, EntryFacts
  <2>4. \A q \in p + 2 .. StackSize - 1 : q \in p + 1 .. StackSize - 1 /\ q # p + 1
    BY <1>2
  <2>5. \A q \in p + 2 .. StackSize - 1 : ~m.stack[q].stored
    BY <1>3, <2>4
  <2>6. r = [stack |-> Moved(m, p), sp |-> p - 1, inst |-> m.inst,
             fault |-> "none", save_sp |-> m.save_sp]
    BY <1>1, <1>3, <1>4, <1>5, <1>7, <2>1, <2>2, <2>3, <2>5, GiveUpOne
  <2> HIDE DEF r, m
  <2>7. r.inst = m.inst /\ r.sp = p - 1 /\ r.fault = "none"
    BY <2>6
  <2>8. r.stack = [q \in Slots |-> IF q = p THEN m.stack[p + 1]
                                   ELSE IF q = p + 1 THEN Null ELSE m.stack[q]]
    BY <2>6 DEF Moved
  <2>9. r.stack \in [Slots -> Entries]
    BY <1>4, <2>1, <2>8, EntryFacts
  <2>10. \A q \in 0 .. p - 1 : r.stack[q] = m0.stack[q]
    BY <1>3, <1>8, <2>8
  <2>11. r.stack[p] = Stored(m0.stack[d].of)
    BY <1>5, <2>2, <2>8
  <2>12. \A q \in p .. StackSize - 1 : r.stack[q].stored => q = p
    <3>1. \A q \in p .. StackSize - 1 : q = p \/ q = p + 1 \/ q \in p + 2 .. StackSize - 1
      BY <1>2
    <3>2. ~r.stack[p + 1].stored
      BY <2>1, <2>8, Different
    <3>3. \A q \in p + 2 .. StackSize - 1 : q \in Slots /\ q # p /\ q # p + 1
      BY <1>2, SizeAssumption DEF Slots
    <3>4. \A q \in p + 2 .. StackSize - 1 : ~r.stack[q].stored
      BY <2>5, <2>8, <3>3
    <3> QED
      BY <3>1, <3>2, <3>4
  <2>13. Cleared(m0, r, p, d)
    BY ONLY <1>3, <1>4, <1>11, <2>7, <2>9, <2>10, <2>11, <2>12 DEF Cleared
  <2> QED
    BY <2>13 DEF r
<1> QED
  BY <1>10, <1>11

-----------------------------------------------------------------------------
(* The blocks that are open.                                               *)

(* Rank is a rank.                                                         *)
LEMMA RankFacts ==
  ASSUME NonRecursive
  PROVE  Rank \in [Blocks -> Nat] /\ Descends(Rank)
BY DEF NonRecursive, Rank

(* The types of the open blocks and of the stack, one by one.              *)
LEMMA CtlFacts ==
  ASSUME Typed
  PROVE  /\ Depth \in Nat /\ Depth > 0 /\ Depth \in 1 .. Depth /\ Depth = Len(ctl)
         /\ ctl = [i \in 1 .. Depth |-> ctl[i]]
         /\ \A i \in 1 .. Depth : /\ ctl[i] \in Frames /\ ctl[i].block \in Blocks
                                  /\ ctl[i].base \in Int /\ ctl[i].phase \in Phases
         /\ Top = ctl[Depth]
         /\ sp \in Int /\ -1 <= sp /\ sp < StackSize
         /\ stack \in [Slots -> Entries] /\ inst \in [Vars -> Instantiations]
<1>1. ctl \in Seq(Frames) /\ Depth = Len(ctl) /\ Depth \in Nat /\ Depth > 0
  BY DEF Typed, Depth
<1>2. ctl = [i \in 1 .. Depth |-> ctl[i]] /\ \A i \in 1 .. Depth : ctl[i] \in Frames
  BY <1>1
<1>3. \A x \in Frames : x.block \in Blocks /\ x.base \in Int /\ x.phase \in Phases
  BY DEF Frames
<1>4. Depth \in 1 .. Depth /\ Top = ctl[Depth]
  BY <1>1 DEF Top
<1>5. /\ sp \in Int /\ -1 <= sp /\ sp < StackSize
      /\ stack \in [Slots -> Entries] /\ inst \in [Vars -> Instantiations]
  BY SizeAssumption DEF Typed
<1> QED
  BY <1>1, <1>2, <1>3, <1>4, <1>5

(* A block is open once.                                                   *)
LEMMA OpenOnce ==
  ASSUME Typed, Chain, NonRecursive
  PROVE  \A i, j \in 1 .. Depth : ctl[i].block = ctl[j].block => i = j
<1>1. \A i \in 1 .. Depth : i \in Int /\ Rank[ctl[i].block] \in Nat
  BY CtlFacts, RankFacts
<1>2. \A i, j \in 1 .. Depth : i < j => Rank[ctl[j].block] < Rank[ctl[i].block]
  BY DEF Chain
<1> QED
  BY <1>1, <1>2

(* A slot lies in one segment, and is then no base.                        *)
LEMMA OneSegment ==
  ASSUME Typed, Chain, NEW q \in Int, NEW i \in 1 .. Depth, NEW j \in 1 .. Depth,
         Within(i, q)
  PROVE  Within(j, q) => i = j
<1>1. i < j => q < ctl[j].base
  BY CtlFacts DEF Within
<1>2. Within(j, q) /\ j < i => q < ctl[i].base
  BY CtlFacts DEF Within
<1> QED
  BY <1>1, <1>2, CtlFacts DEF Within

(* The variable of a definition is one of the block of its segment.        *)
LEMMA DefSegment ==
  ASSUME Typed, Chain, Contents, NonRecursive, NEW q \in 0 .. sp, NEW v \in Vars,
         stack[q] = Def(v), NEW i \in 1 .. Depth, ctl[i].block = ScopeOf[v]
  PROVE  Within(i, q)
<1>1. PICK j \in 1 .. Depth :
        \/ j > 1 /\ q = ctl[j].base
        \/ /\ Within(j, q)
           /\ \/ stack[q] = Temp /\ Kind[ctl[j].block] = "call"
              \/ \E w \in Vars : stack[q] = Def(w) /\ ScopeOf[w] = ctl[j].block
  BY DEF Contents
<1>2. ~(j > 1 /\ q = ctl[j].base)
  <2>1. j > 1 => j \in 2 .. Depth
    BY CtlFacts
  <2>2. j > 1 => stack[ctl[j].base] = Marker(ctl[j].block)
    BY <2>1 DEF Chain
  <2> QED
    BY <2>2, Different
<1>3. Within(j, q) /\ ScopeOf[v] = ctl[j].block
  BY <1>1, <1>2, Different
<1> QED
  BY <1>3, OpenOnce

(* The function the program is in is one.                                  *)
LEMMA OneLastFun ==
  ASSUME Typed, NEW i, NEW j, LastFun(i), LastFun(j)
  PROVE  i = j
<1>1. /\ i \in 1 .. Depth /\ Kind[ctl[i].block] = "fun"
      /\ j \in 1 .. Depth /\ Kind[ctl[j].block] = "fun"
      /\ Depth \in Nat
  BY CtlFacts DEF LastFun
<1>2. j \notin i + 1 .. Depth /\ i \notin j + 1 .. Depth
  BY <1>1 DEF LastFun
<1> QED
  BY <1>1, <1>2

(* Nothing is stored but what a call waits for.                            *)
LEMMA NothingSaved ==
  ASSUME Saved, Top.phase # "back"
  PROVE  \A q \in sp + 1 .. StackSize - 1 : ~stack[q].stored
BY DEF Saved

-----------------------------------------------------------------------------
(* Blocks are entered.                                                     *)

(* e has been pushed, and there was room.                                  *)
Pushed(e) ==
  /\ sp + 1 \in Slots /\ sp' = sp + 1 /\ e \in Entries
  /\ stack' = [stack EXCEPT ![sp + 1] = e]

(* A push leaves what is below, and what is above the next slot.           *)
LEMMA PushedFacts ==
  ASSUME Typed, NEW e, Pushed(e)
  PROVE  /\ stack' \in [Slots -> Entries] /\ sp' = sp + 1 /\ sp' \in -1 .. StackSize - 1
         /\ \A q \in 0 .. sp : stack'[q] = stack[q]
         /\ stack'[sp + 1] = e
         /\ \A q \in 0 .. sp' : q = sp + 1 \/ q \in 0 .. sp
         /\ \A q \in sp' + 1 .. StackSize - 1 : /\ q \in sp + 1 .. StackSize - 1
                                                /\ stack'[q] = stack[q]
<1>1. sp \in Int /\ -1 <= sp /\ stack \in [Slots -> Entries]
  BY CtlFacts
<1>2. \A q \in 0 .. sp : q \in Slots /\ q # sp + 1
  BY <1>1, SizeAssumption DEF Slots, Pushed
<1>3. \A q \in sp + 2 .. StackSize - 1 :
        q \in Slots /\ q # sp + 1 /\ q \in sp + 1 .. StackSize - 1
  BY <1>1, SizeAssumption DEF Slots
<1>4. sp + 1 \in -1 .. StackSize - 1 /\ sp' + 1 = sp + 2
  BY <1>1, SizeAssumption DEF Slots, Pushed
<1>5. \A q \in 0 .. sp' : q = sp + 1 \/ q \in 0 .. sp
  BY <1>1 DEF Pushed
<1> QED
  BY <1>1, <1>2, <1>3, <1>4, <1>5 DEF Pushed

(* The blocks of c are those of ctl.                                       *)
SameBlocks(c) ==
  /\ c \in Seq(Frames) /\ Len(c) = Depth
  /\ \A i \in 1 .. Depth : c[i].block = ctl[i].block /\ c[i].base = ctl[i].base

(* The function the program is in depends on the blocks alone.             *)
LEMMA LastFunSame ==
  ASSUME Typed, SameBlocks(ctl')
  PROVE  \A k : LastFun(k) <=> LastFun(k)'
<1>1. Depth' = Depth /\ \A i \in 1 .. Depth : ctl'[i].block = ctl[i].block
  BY DEF SameBlocks, Depth
<1>2. Depth \in Nat
  BY CtlFacts
<1>3. \A k \in 1 .. Depth : \A j \in k + 1 .. Depth : j \in 1 .. Depth
  BY <1>2
<1>4. \A k : LastFun(k)' <=> /\ k \in 1 .. Depth /\ Kind[ctl'[k].block] = "fun"
                             /\ \A j \in k + 1 .. Depth : Kind[ctl'[j].block] # "fun"
  BY <1>1 DEF LastFun
<1> QED
  BY <1>1, <1>3, <1>4 DEF LastFun

(* Block b is opened on the blocks c: those that were open, the last       *)
(* perhaps with another phase (call.c, marks.c).                           *)
Opens(b, c) ==
  /\ b \in Blocks /\ Kind[b] # "main" /\ Rank[b] < Rank[Top.block]
  /\ Kind[b] = "fun" => Kind[Top.block] = "call" /\ Callee[Top.block] = b
  /\ Kind[b] = "call" /\ Target[b] # NoVar => \E q \in 0 .. sp : stack[q] = Def(Target[b])
  /\ SameBlocks(c) /\ \A i \in 1 .. Depth : c[i].phase # "back"
  /\ ctl' = Append(c, [block |-> b, base |-> sp + 1, phase |-> "run"])

(* The open blocks afterwards.                                             *)
LEMMA OpenFacts ==
  ASSUME Typed, NEW b, NEW c, Opens(b, c)
  PROVE  /\ ctl' \in Seq(Frames) /\ Depth' = Depth + 1
         /\ \A i \in 1 .. Depth : /\ ctl'[i].block = ctl[i].block
                                  /\ ctl'[i].base = ctl[i].base
                                  /\ ctl'[i].phase # "back"
         /\ /\ ctl'[Depth + 1].block = b /\ ctl'[Depth + 1].base = sp + 1
            /\ ctl'[Depth + 1].phase = "run"
         /\ \A i \in 1 .. Depth' : i = Depth + 1 \/ i \in 1 .. Depth
         /\ Top' = ctl'[Depth + 1]
<1> DEFINE x == [block |-> b, base |-> sp + 1, phase |-> "run"]
<1>1. c \in Seq(Frames) /\ Len(c) = Depth /\ Depth \in Nat
  BY CtlFacts DEF Opens, SameBlocks
<1>2. x \in Frames
  BY CtlFacts DEF Opens, Frames, Phases
<1>3. x.block = b /\ x.base = sp + 1 /\ x.phase = "run" /\ ctl' = Append(c, x)
  BY DEF Opens
<1> HIDE DEF x
<1>4. ctl' \in Seq(Frames) /\ Len(ctl') = Depth + 1
  BY <1>1, <1>2, <1>3
<1>5. ctl'[Depth + 1] = x
  BY <1>1, <1>2, <1>3
<1>6. \A i \in 1 .. Depth : ctl'[i] = c[i]
  BY <1>1, <1>2, <1>3
<1>7. Depth' = Depth + 1 /\ Top' = ctl'[Depth + 1]
  BY <1>4 DEF Depth, Top
<1>8. \A i \in 1 .. Depth' : i = Depth + 1 \/ i \in 1 .. Depth
  BY <1>1, <1>7
<1> QED
  BY <1>3, <1>4, <1>5, <1>6, <1>7, <1>8 DEF Opens, SameBlocks

(* Bases are in the stack, below the next one.                             *)
LEMMA BaseFacts ==
  ASSUME Typed, Chain
  PROVE  \A i \in 1 .. Depth :
           /\ ctl[i].base \in Int /\ -1 <= ctl[i].base /\ ctl[i].base <= sp
           /\ i # 1 => 0 <= ctl[i].base
<1>1. \A i \in 1 .. Depth : i = 1 \/ i \in 2 .. Depth
  BY CtlFacts
<1>2. ctl[1].base = -1 /\ \A i \in 2 .. Depth : ctl[i].base \in 0 .. sp
  BY DEF Chain
<1> QED
  BY <1>1, <1>2, CtlFacts

(* A block whose marker has been pushed leaves the machine in order.       *)
LEMMA OpenGood ==
  ASSUME Typed, Good, NonRecursive, Top.phase = "run", ~returning,
         NEW b, NEW c, Pushed(Marker(b)), Opens(b, c), UNCHANGED <<inst, returning>>
  PROVE  Typed' /\ Good'
<1> DEFINE D == Depth
<1>1. /\ D \in Nat /\ D > 0 /\ D \in 1 .. D /\ Top = ctl[D] /\ sp \in Int /\ -1 <= sp
      /\ \A i \in 1 .. D : /\ ctl[i].block \in Blocks /\ ctl[i].base \in Int
                           /\ ctl[i].phase \in Phases
  BY CtlFacts
<1>2. /\ stack' \in [Slots -> Entries] /\ sp' = sp + 1 /\ sp' \in -1 .. StackSize - 1
      /\ \A q \in 0 .. sp : stack'[q] = stack[q]
      /\ stack'[sp + 1] = Marker(b)
      /\ \A q \in 0 .. sp' : q = sp + 1 \/ q \in 0 .. sp
      /\ \A q \in sp' + 1 .. StackSize - 1 : /\ q \in sp + 1 .. StackSize - 1
                                             /\ stack'[q] = stack[q]
  BY PushedFacts
<1>3. /\ ctl' \in Seq(Frames) /\ Depth' = D + 1
      /\ \A i \in 1 .. D : /\ ctl'[i].block = ctl[i].block
                           /\ ctl'[i].base = ctl[i].base
                           /\ ctl'[i].phase # "back"
      /\ /\ ctl'[D + 1].block = b /\ ctl'[D + 1].base = sp + 1
         /\ ctl'[D + 1].phase = "run"
      /\ \A i \in 1 .. Depth' : i = D + 1 \/ i \in 1 .. D
      /\ Top' = ctl'[D + 1]
  BY OpenFacts
<1>4. Chain /\ Contents /\ Instances /\ Saved /\ TargetsThere
  BY DEF Good
<1>5. /\ b \in Blocks /\ Kind[b] # "main" /\ Rank[b] < Rank[Top.block]
      /\ Kind[b] = "fun" => Kind[Top.block] = "call" /\ Callee[Top.block] = b
      /\ Kind[b] = "call" /\ Target[b] # NoVar => \E q \in 0 .. sp : stack[q] = Def(Target[b])
  BY DEF Opens
<1>6. \A i \in 1 .. D : /\ -1 <= ctl[i].base /\ ctl[i].base <= sp
                        /\ i # 1 => 0 <= ctl[i].base
  BY <1>4, BaseFacts
<1> HIDE DEF D
<1>7. Typed'
  BY <1>1, <1>2, <1>3 DEF Typed, D
<1>8. Chain'
  <2>1. ctl'[1].block = MainBlock /\ ctl'[1].base = -1
    BY <1>1, <1>3, <1>4 DEF Chain
  <2>2. ASSUME NEW i \in 2 .. Depth'
        PROVE  /\ ctl'[i].base \in 0 .. sp'
               /\ stack'[ctl'[i].base] = Marker(ctl'[i].block)
               /\ Kind[ctl'[i].block] # "main"
               /\ Kind[ctl'[i].block] = "fun" =>
                    /\ Kind[ctl'[i - 1].block] = "call"
                    /\ Callee[ctl'[i - 1].block] = ctl'[i].block
    <3>1. CASE i = D + 1
      <4>1. i - 1 = D
        BY <1>1, <3>1
      <4>2. sp + 1 \in 0 .. sp'
        BY <1>1, <1>2
      <4>3. ctl'[i - 1].block = Top.block
        BY <1>1, <1>3, <4>1
      <4> QED
        BY <1>2, <1>3, <1>5, <3>1, <4>2, <4>3
    <3>2. CASE i # D + 1
      <4>1. i \in 2 .. D /\ i \in 1 .. D /\ i - 1 \in 1 .. D
        BY <1>1, <1>3, <3>2
      <4>2. /\ ctl[i].base \in 0 .. sp
            /\ stack[ctl[i].base] = Marker(ctl[i].block)
            /\ Kind[ctl[i].block] # "main"
            /\ Kind[ctl[i].block] = "fun" =>
                 Kind[ctl[i - 1].block] = "call" /\ Callee[ctl[i - 1].block] = ctl[i].block
        BY <1>4, <4>1 DEF Chain, D
      <4>3. ctl[i].base \in 0 .. sp'
        BY <1>1, <1>2, <4>2
      <4> QED
        BY <1>2, <1>3, <4>1, <4>2, <4>3
    <3> QED
      BY <3>1, <3>2
  <2>3. ASSUME NEW i \in 1 .. Depth', NEW j \in 1 .. Depth', i < j
        PROVE  ctl'[i].base < ctl'[j].base /\ Rank[ctl'[j].block] < Rank[ctl'[i].block]
    <3>1. i \in 1 .. D
      BY <1>1, <1>3, <2>3
    <3>2. CASE j = D + 1
      <4>1. ctl'[i].base < sp + 1
        BY <1>1, <1>3, <1>6, <3>1
      <4>2. Rank[ctl[D].block] < Rank[ctl[i].block] \/ i = D
        BY <1>1, <1>4, <3>1 DEF Chain, D
      <4>3. Rank[b] \in Nat /\ Rank[ctl[D].block] \in Nat /\ Rank[ctl[i].block] \in Nat
        BY <1>1, <1>5, <3>1, RankFacts
      <4>4. Rank[b] < Rank[ctl[i].block]
        BY <1>1, <1>5, <4>2, <4>3
      <4> QED
        BY <1>3, <3>1, <3>2, <4>1, <4>4
    <3>3. CASE j # D + 1
      <4>1. j \in 1 .. D
        BY <1>3, <3>3
      <4>2. ctl[i].base < ctl[j].base /\ Rank[ctl[j].block] < Rank[ctl[i].block]
        BY <1>4, <2>3, <3>1, <4>1 DEF Chain, D
      <4> QED
        BY <1>3, <3>1, <4>1, <4>2
    <3> QED
      BY <3>2, <3>3
  <2>4. \A i \in 1 .. Depth' : ctl'[i].phase # "back"
    BY <1>3
  <2> QED
    BY <2>1, <2>2, <2>3, <2>4 DEF Chain
<1>9. \A i \in 1 .. D : \A q \in 0 .. sp : Within(i, q) => Within(i, q)'
  <2> SUFFICES ASSUME NEW i \in 1 .. D, NEW q \in 0 .. sp, Within(i, q)
               PROVE  ctl'[i].base < q /\ \A j \in i + 1 .. Depth' : q < ctl'[j].base
    BY DEF Within
  <2>1. ctl'[i].base < q
    BY <1>3 DEF Within
  <2>2. ASSUME NEW j \in i + 1 .. Depth'
        PROVE  q < ctl'[j].base
    <3>1. j = D + 1 \/ (j \in 1 .. D /\ j \in i + 1 .. D)
      BY <1>1, <1>3
    <3>2. j = D + 1 => q < ctl'[j].base
      BY <1>1, <1>3
    <3>3. j \in 1 .. D /\ j \in i + 1 .. D => q < ctl'[j].base
      BY <1>3 DEF Within, D
    <3> QED
      BY <3>1, <3>2, <3>3
  <2> QED
    BY <2>1, <2>2
<1>10. Contents'
  <2>1. ASSUME NEW q \in 0 .. sp'
        PROVE  \E i \in 1 .. Depth' :
                 \/ i > 1 /\ q = ctl'[i].base
                 \/ /\ Within(i, q)'
                    /\ \/ stack'[q] = Temp /\ Kind[ctl'[i].block] = "call"
                       \/ \E v \in Vars : stack'[q] = Def(v) /\ ScopeOf[v] = ctl'[i].block
    <3>1. CASE q = sp + 1
      <4>1. D + 1 \in 1 .. Depth' /\ D + 1 > 1
        BY <1>1, <1>3
      <4> QED
        BY <1>3, <3>1, <4>1
    <3>2. CASE q \in 0 .. sp
      <4>1. PICK i \in 1 .. D :
              \/ i > 1 /\ q = ctl[i].base
              \/ /\ Within(i, q)
                 /\ \/ stack[q] = Temp /\ Kind[ctl[i].block] = "call"
                    \/ \E v \in Vars : stack[q] = Def(v) /\ ScopeOf[v] = ctl[i].block
        BY <1>4, <3>2 DEF Contents, D
      <4>2. i \in 1 .. Depth'
        BY <1>1, <1>3
      <4> QED
        BY <1>2, <1>3, <1>9, <3>2, <4>1, <4>2
    <3> QED
      BY <1>2, <3>1, <3>2
  <2>2. ASSUME NEW q \in 0 .. sp', NEW r \in 0 .. sp', stack'[q].kind = "var",
               stack'[r] = stack'[q]
        PROVE  q = r
    <3>1. q \in 0 .. sp /\ r \in 0 .. sp
      BY <1>2, <2>2, Different
    <3> QED
      BY <1>2, <1>4, <2>2, <3>1 DEF Contents
  <2> QED
    BY <2>1, <2>2 DEF Contents
<1>11. Instances'
  <2>1. \A q \in 0 .. sp : \A v \in Vars : stack[q] = Def(v) => inst[v] = "live"
    BY <1>4 DEF Instances, InstancesOf
  <2>2. \A q \in 0 .. sp' : \A v \in Vars : stack'[q] = Def(v) => inst'[v] = "live"
    BY <1>2, <2>1, Different
  <2> QED
    BY <2>2 DEF Instances, InstancesOf
<1>12. Saved'
  <2>1. \A q \in sp + 1 .. StackSize - 1 : ~stack[q].stored
    BY <1>4, NothingSaved
  <2>2. \A q \in sp' + 1 .. StackSize - 1 : ~stack'[q].stored
    BY <1>2, <2>1
  <2>3. Top'.phase # "back"
    BY <1>3
  <2> QED
    BY <2>2, <2>3 DEF Saved
<1>13. TargetsThere'
  <2> SUFFICES ASSUME NEW i \in 1 .. Depth', Kind[ctl'[i].block] = "call",
                      Target[ctl'[i].block] # NoVar
               PROVE  \E q \in 0 .. ctl'[i].base - 1 : stack'[q] = Def(Target[ctl'[i].block])
    BY DEF TargetsThere
  <2>1. CASE i = D + 1
    <3>1. PICK q \in 0 .. sp : stack[q] = Def(Target[b])
      BY <1>3, <1>5, <2>1
    <3>2. q \in 0 .. (sp + 1) - 1
      BY <1>1
    <3> QED
      BY <1>2, <1>3, <2>1, <3>1, <3>2
  <2>2. CASE i \in 1 .. D
    <3>1. PICK q \in 0 .. ctl[i].base - 1 : stack[q] = Def(Target[ctl[i].block])
      BY <1>3, <1>4, <2>2 DEF TargetsThere, D
    <3>2. q \in 0 .. sp
      BY <1>1, <1>6, <2>2
    <3> QED
      BY <1>2, <1>3, <2>2, <3>1, <3>2
  <2> QED
    BY <1>3, <2>1, <2>2
<1> QED
  BY <1>7, <1>8, <1>10, <1>11, <1>12, <1>13 DEF Good

(* What is pushed inside a block: an argument, or a definition.            *)
Pushes(e) ==
  \/ e = Temp /\ Kind[Top.block] = "call" /\ UNCHANGED inst
  \/ \E v \in Vars :
       /\ e = Def(v) /\ ScopeOf[v] = Top.block
       /\ \A q \in Top.base + 1 .. sp : stack[q] # Def(v)
       /\ inst' = [inst EXCEPT ![v] = "live"]

(* So does what is pushed inside a block.                                  *)
LEMMA PushGood ==
  ASSUME Typed, Good, NonRecursive, Top.phase = "run", ~returning,
         NEW e, Pushed(e), Pushes(e), UNCHANGED <<ctl, returning>>
  PROVE  Typed' /\ Good'
<1> DEFINE D == Depth
<1>1. /\ D \in Nat /\ D > 0 /\ D \in 1 .. D /\ Top = ctl[D] /\ sp \in Int /\ -1 <= sp
      /\ inst \in [Vars -> Instantiations]
      /\ \A i \in 1 .. D : /\ ctl[i].block \in Blocks /\ ctl[i].base \in Int
                           /\ ctl[i].phase \in Phases
  BY CtlFacts
<1>2. /\ stack' \in [Slots -> Entries] /\ sp' = sp + 1 /\ sp' \in -1 .. StackSize - 1
      /\ \A q \in 0 .. sp : stack'[q] = stack[q]
      /\ stack'[sp + 1] = e
      /\ \A q \in 0 .. sp' : q = sp + 1 \/ q \in 0 .. sp
      /\ \A q \in sp' + 1 .. StackSize - 1 : /\ q \in sp + 1 .. StackSize - 1
                                             /\ stack'[q] = stack[q]
  BY PushedFacts
<1>3. Depth' = D /\ Top' = Top /\ ctl' = ctl
  BY DEF Depth, Top
<1>4. Chain /\ Contents /\ Instances /\ Saved /\ TargetsThere
  BY DEF Good
<1>5. \A i \in 1 .. D : /\ -1 <= ctl[i].base /\ ctl[i].base <= sp
                        /\ i # 1 => 0 <= ctl[i].base
  BY <1>4, BaseFacts
<1>6. \A q \in 0 .. sp : \A v \in Vars : stack[q] = Def(v) => inst[v] = "live"
  BY <1>4 DEF Instances, InstancesOf
(* A variable that is defined now was not defined before.                  *)
<1>7. ASSUME NEW v \in Vars, e = Def(v), NEW q \in 0 .. sp
      PROVE  stack[q] # Def(v)
  <2> SUFFICES ASSUME stack[q] = Def(v)
               PROVE  FALSE
    OBVIOUS
  <2>1. ScopeOf[v] = Top.block /\ \A r \in Top.base + 1 .. sp : stack[r] # Def(v)
    BY <1>7, Different DEF Pushes
  <2>2. Within(D, q)
    BY <1>1, <1>4, <2>1, DefSegment
  <2>3. q \in Top.base + 1 .. sp
    BY <1>1, <2>2 DEF Within
  <2> QED
    BY <2>1, <2>3
<1>8. inst' \in [Vars -> Instantiations]
  BY <1>1 DEF Pushes, Instantiations
<1> HIDE DEF D
<1>9. Typed'
  BY <1>1, <1>2, <1>3, <1>8 DEF Typed, D
<1>10. Chain'
  <2>1. \A i \in 2 .. D : ctl[i].base \in 0 .. sp' /\ stack'[ctl[i].base] = stack[ctl[i].base]
    <3> SUFFICES ASSUME NEW i \in 2 .. D
                 PROVE  ctl[i].base \in 0 .. sp' /\ stack'[ctl[i].base] = stack[ctl[i].base]
      OBVIOUS
    <3>1. ctl[i].base \in 0 .. sp
      BY <1>4 DEF Chain, D
    <3> QED
      BY <1>1, <1>2, <3>1
  <2> QED
    BY <1>3, <1>4, <2>1 DEF Chain, D
<1>11. \A i, q : Within(i, q)' <=> Within(i, q)
  BY <1>3 DEF Within, D
<1>12. Contents'
  <2>1. ASSUME NEW q \in 0 .. sp'
        PROVE  \E i \in 1 .. D :
                 \/ i > 1 /\ q = ctl[i].base
                 \/ /\ Within(i, q)
                    /\ \/ stack'[q] = Temp /\ Kind[ctl[i].block] = "call"
                       \/ \E v \in Vars : stack'[q] = Def(v) /\ ScopeOf[v] = ctl[i].block
    <3>1. CASE q = sp + 1
      <4>1. Within(D, q)
        <5>1. Top.base < q /\ D + 1 .. D = {}
          BY <1>1, <1>5, <3>1
        <5> QED
          BY <1>1, <5>1 DEF Within, D
      <4>2. \/ e = Temp /\ Kind[ctl[D].block] = "call"
            \/ \E v \in Vars : e = Def(v) /\ ScopeOf[v] = ctl[D].block
        BY <1>1 DEF Pushes
      <4> QED
        BY <1>1, <1>2, <3>1, <4>1, <4>2
    <3>2. CASE q \in 0 .. sp
      BY <1>2, <1>4, <3>2 DEF Contents, D
    <3> QED
      BY <1>2, <3>1, <3>2
  <2>2. ASSUME NEW q \in 0 .. sp', NEW r \in 0 .. sp', stack'[q].kind = "var",
               stack'[r] = stack'[q]
        PROVE  q = r
    <3>1. CASE q \in 0 .. sp /\ r \in 0 .. sp
      BY <1>2, <1>4, <2>2, <3>1 DEF Contents
    <3>2. ASSUME q = sp + 1 \/ r = sp + 1
          PROVE  q = r
      <4>1. stack'[q] = e /\ stack'[r] = e
        BY <1>2, <2>2, <3>2
      <4>2. PICK v \in Vars : e = Def(v)
        BY <2>2, <4>1, Different DEF Pushes
      <4>3. \A x \in 0 .. sp : stack'[x] # e
        BY <1>2, <1>7, <4>2
      <4> QED
        BY <1>2, <4>1, <4>3
    <3> QED
      BY <1>2, <3>1, <3>2
  <2> QED
    BY <1>3, <1>11, <2>1, <2>2 DEF Contents
<1>13. Instances'
  <2>1. ASSUME NEW q \in 0 .. sp', NEW w \in Vars, stack'[q] = Def(w)
        PROVE  inst'[w] = "live"
    <3>1. CASE e = Temp /\ UNCHANGED inst
      <4>1. q \in 0 .. sp
        BY <1>2, <2>1, <3>1, Different
      <4> QED
        BY <1>2, <1>6, <2>1, <3>1, <4>1
    <3>2. ASSUME NEW v \in Vars, e = Def(v), inst' = [inst EXCEPT ![v] = "live"]
          PROVE  inst'[w] = "live"
      <4>1. CASE w = v
        BY <1>1, <3>2, <4>1
      <4>2. CASE w # v
        <5>1. q # sp + 1
          BY <1>2, <2>1, <3>2, <4>2, Different
        <5>2. inst[w] = "live"
          BY <1>2, <1>6, <2>1, <5>1
        <5> QED
          BY <1>1, <3>2, <4>2, <5>2
      <4> QED
        BY <4>1, <4>2
    <3> QED
      BY <3>1, <3>2 DEF Pushes
  <2> QED
    BY <2>1 DEF Instances, InstancesOf
<1>14. Saved'
  <2>1. \A q \in sp' + 1 .. StackSize - 1 : ~stack'[q].stored
    BY <1>2, <1>4, NothingSaved
  <2> QED
    BY <1>3, <2>1 DEF Saved
<1>15. TargetsThere'
  <2> SUFFICES ASSUME NEW i \in 1 .. D, Kind[ctl[i].block] = "call",
                      Target[ctl[i].block] # NoVar
               PROVE  \E q \in 0 .. ctl[i].base - 1 : stack'[q] = Def(Target[ctl[i].block])
    BY <1>3 DEF TargetsThere, D
  <2>1. PICK q \in 0 .. ctl[i].base - 1 : stack[q] = Def(Target[ctl[i].block])
    BY <1>4 DEF TargetsThere, D
  <2>2. q \in 0 .. sp
    BY <1>1, <1>5
  <2> QED
    BY <1>2, <2>1, <2>2
<1> QED
  BY <1>9, <1>10, <1>12, <1>13, <1>14, <1>15 DEF Good

-----------------------------------------------------------------------------
(* Blocks are left.                                                        *)

(* The state clrsn starts from, with the instantiations i0: those of the   *)
(* machine, or what store has made of them.                                *)
MachineNow(i0) == [stack |-> stack, sp |-> sp, inst |-> i0, fault |-> "none", save_sp |-> sp]

(* Block i and the ones inside it are left, with the instantiations i0;    *)
(* ret says that it is by a return.                                        *)
Leaves(i, i0, ret) ==
  /\ i \in 2 .. Depth
  /\ \A j \in i + 1 .. Depth : Kind[ctl[j].block] # "fun"
  /\ Kind[ctl[i].block] = "fun" => ret
  /\ InstancesOf(i0, ret)
  /\ i0 \in [Vars -> Instantiations] /\ ret \in BOOLEAN
  /\ Becomes(Clrs(MachineNow(i0), ctl[i].block))
  /\ ctl' = LeftTo(i - 1, ctl[i].block)
  /\ returning' = (ret /\ Kind[ctl[i].block] # "fun")

(* The array that is returned when block i is left, or NoVar.              *)
ReturnedFrom(i) == ReturnVar[ctl[i].block]

(* The numbers and blocks of Leaves. Only a function returns an array.     *)
LEMMA LeavesFacts ==
  ASSUME Typed, NEW i, NEW i0, NEW ret, Leaves(i, i0, ret)
  PROVE  /\ i \in Int /\ i \in 1 .. Depth /\ i > 1 /\ i - 1 \in 1 .. Depth
         /\ ctl[i].block \in Blocks
         /\ ReturnedFrom(i) \in Vars \cup {NoVar}
         /\ ReturnedFrom(i) # NoVar => Kind[ctl[i].block] = "fun" /\ ret
<1>1. i \in 1 .. Depth /\ i \in Int /\ i > 1 /\ i - 1 \in 1 .. Depth
  BY CtlFacts DEF Leaves
<1>2. ctl[i].block \in Blocks
  BY <1>1, CtlFacts
<1> QED
  BY <1>1, <1>2, ProgramAssumption DEF ReturnedFrom, Leaves

(* What lies above the marker of block i.                                  *)
LEMMA AboveMarker ==
  ASSUME Typed, Chain, Contents, NonRecursive, NEW i \in 2 .. Depth,
         NEW q \in ctl[i].base + 1 .. sp
  PROVE  \/ \E j \in i + 1 .. Depth : q = ctl[j].base /\ stack[q] = Marker(ctl[j].block)
         \/ \E j \in i .. Depth :
              /\ Within(j, q)
              /\ \/ stack[q] = Temp /\ Kind[ctl[j].block] = "call"
                 \/ \E v \in Vars : stack[q] = Def(v) /\ ScopeOf[v] = ctl[j].block
<1>1. i \in 1 .. Depth /\ i \in Int /\ ctl[i].base \in Int /\ 0 <= ctl[i].base /\ i > 1
      /\ sp \in Int
  BY BaseFacts, CtlFacts
<1>2. q \in 0 .. sp /\ q \in Int
  BY <1>1
<1>3. PICK j \in 1 .. Depth :
        \/ j > 1 /\ q = ctl[j].base
        \/ /\ Within(j, q)
           /\ \/ stack[q] = Temp /\ Kind[ctl[j].block] = "call"
              \/ \E v \in Vars : stack[q] = Def(v) /\ ScopeOf[v] = ctl[j].block
  BY <1>2 DEF Contents
<1>4. CASE j > 1 /\ q = ctl[j].base
  <2>1. j \in 2 .. Depth
    BY <1>4, CtlFacts
  <2>2. stack[q] = Marker(ctl[j].block)
    BY <1>4, <2>1 DEF Chain
  <2>3. ~(j <= i)
    <3>1. j < i => ctl[j].base < ctl[i].base
      BY <1>1 DEF Chain
    <3>2. ctl[j].base \in Int /\ j \in Int /\ ctl[i].base < ctl[j].base
      BY <1>1, <1>4, CtlFacts
    <3>3. j # i
      BY <1>1, <3>2
    <3> QED
      BY <1>1, <3>1, <3>2, <3>3
  <2>4. j \in i + 1 .. Depth
    BY <1>1, <2>1, <2>3, CtlFacts
  <2> QED
    BY <1>4, <2>2, <2>4
<1>5. CASE Within(j, q)
  <2>1. j < i => q < ctl[i].base
    BY <1>1, <1>5, CtlFacts DEF Within
  <2>2. j \in i .. Depth
    BY <1>1, <2>1, CtlFacts
  <2>3. j > 1 /\ q # ctl[j].base
    BY <1>1, <1>5, <2>2, CtlFacts DEF Within
  <2> QED
    BY <1>3, <1>5, <2>2, <2>3
<1> QED
  BY <1>3, <1>4, <1>5

(* The array that is returned is defined in the segment of its function,   *)
(* with nothing but definitions below it.                                  *)
LEMMA ArrayInSegment ==
  ASSUME Typed, Good, Program, NEW i, NEW i0, NEW ret, Leaves(i, i0, ret),
         ReturnedFrom(i) # NoVar
  PROVE  /\ i0[ReturnedFrom(i)] = "stored"
         /\ \E d \in ctl[i].base + 1 .. sp :
              /\ stack[d] = Def(ReturnedFrom(i)) /\ Within(i, d)
              /\ \A q \in ctl[i].base + 1 .. d : stack[q].kind = "var"
<1> DEFINE v == ReturnedFrom(i)
<1>1. /\ i \in Int /\ i \in 1 .. Depth /\ i \in 2 .. Depth /\ i > 1 /\ ctl[i].block \in Blocks
      /\ v \in Vars /\ Kind[ctl[i].block] = "fun" /\ ret
      /\ \A j \in i + 1 .. Depth : Kind[ctl[j].block] # "fun"
  BY LeavesFacts DEF Leaves
<1>2. Chain /\ Contents /\ NonRecursive /\ OwnArrays
  BY DEF Good, Program
<1>3. LastFun(i)
  BY <1>1 DEF LastFun
<1>4. PICK k \in 1 .. Depth :
        /\ LastFun(k)
        /\ ReturnVar[ctl[k].block] # NoVar =>
            /\ i0[ReturnVar[ctl[k].block]] = "stored"
            /\ \E q \in 0 .. sp : stack[q] = Def(ReturnVar[ctl[k].block])
  BY <1>1 DEF Leaves, InstancesOf
<1>5. k = i
  BY <1>3, <1>4, OneLastFun
<1>6. i0[v] = "stored" /\ \E q \in 0 .. sp : stack[q] = Def(v)
  BY <1>4, <1>5 DEF ReturnedFrom
<1>7. PICK d \in 0 .. sp : stack[d] = Def(v)
  BY <1>6
<1>8. ScopeOf[v] = ctl[i].block
  BY <1>1, <1>2 DEF OwnArrays, ReturnedFrom
<1>9. Within(i, d)
  BY <1>1, <1>2, <1>7, <1>8, DefSegment
<1>10. ctl[i].base \in Int /\ sp \in Int /\ 0 <= ctl[i].base
  BY <1>1, <1>2, BaseFacts, CtlFacts
<1>11. d \in ctl[i].base + 1 .. sp
  BY <1>9, <1>10 DEF Within
<1> HIDE DEF v
<1>12. ASSUME NEW q \in ctl[i].base + 1 .. d
       PROVE  stack[q].kind = "var"
  <2>1. q \in ctl[i].base + 1 .. sp /\ q \in Int /\ q <= d /\ d \in Int
    BY <1>10, <1>11
  <2>2. \A j \in i + 1 .. Depth : q < ctl[j].base
    BY <1>1, <1>9, <2>1, CtlFacts DEF Within
  <2>3. \A j \in i .. Depth : j = i \/ j \in i + 1 .. Depth
    BY <1>1
  <2>4. \A j \in i .. Depth : Within(j, q) => j = i
    BY <1>1, <2>1, <2>2, <2>3, CtlFacts DEF Within
  <2>5. \A j \in i + 1 .. Depth : q # ctl[j].base
    BY <1>1, <2>1, <2>2, CtlFacts
  <2>6. \E w \in Vars : stack[q] = Def(w)
    BY <1>1, <1>2, <2>1, <2>4, <2>5, AboveMarker
  <2> QED
    BY <2>6, Different
<1> QED
  BY <1>6, <1>7, <1>9, <1>11, <1>12 DEF v

(* The rollback of block i starts from a stack as Clear describes it.      *)
LEMMA LeavesClear ==
  ASSUME Typed, Good, Program, Top.phase # "back", NEW i, NEW i0, NEW ret, Leaves(i, i0, ret)
  PROVE  \E d : /\ Clear(MachineNow(i0), ctl[i].block, ctl[i].base, d)
                /\ d = -1 <=> ReturnedFrom(i) = NoVar
                /\ d # -1 => stack[d] = Def(ReturnedFrom(i)) /\ d \in 0 .. sp
<1> DEFINE b == ctl[i].block
           p == ctl[i].base
           v == ReturnedFrom(i)
           m0 == MachineNow(i0)
<1>1. /\ i \in Int /\ i \in 1 .. Depth /\ i \in 2 .. Depth /\ i > 1 /\ b \in Blocks
      /\ v \in Vars \cup {NoVar}
      /\ v # NoVar => Kind[b] = "fun" /\ ret
      /\ \A j \in i + 1 .. Depth : Kind[ctl[j].block] # "fun"
  BY LeavesFacts DEF Leaves
<1>2. Chain /\ Contents /\ Instances /\ Saved /\ NonRecursive /\ OwnArrays
  BY DEF Good, Program
<1>3. /\ sp \in Int /\ -1 <= sp /\ sp < StackSize /\ p \in Int /\ 0 <= p /\ p <= sp
      /\ stack \in [Slots -> Entries]
  BY <1>1, <1>2, BaseFacts, CtlFacts
<1>4. PICK d : \/ v = NoVar /\ d = -1
               \/ /\ v # NoVar /\ d \in p + 1 .. sp /\ i0[v] = "stored"
                  /\ stack[d] = Def(v) /\ Within(i, d)
                  /\ \A q \in p + 1 .. d : stack[q].kind = "var"
  <2>1. CASE v = NoVar
    BY <2>1
  <2>2. CASE v # NoVar
    BY <2>2, ArrayInSegment
  <2> QED
    BY <2>1, <2>2
<1>5. m0 \in Machines /\ m0.stack = stack /\ m0.sp = sp /\ m0.inst = i0 /\ m0.save_sp = sp
  <2>1. sp \in -1 .. StackSize - 1 /\ i0 \in [Vars -> Instantiations]
    BY DEF Typed, Leaves
  <2> QED
    BY <1>3, <2>1 DEF MachineNow, Machines
<1>6. p \in 0 .. sp /\ stack[p] = Marker(b)
  BY <1>1, <1>2, <1>3 DEF Chain
<1>7. \A q, r \in 0 .. sp : stack[q].kind = "var" /\ stack[r] = stack[q] => q = r
  BY <1>2 DEF Contents
<1>8. \A q \in sp + 1 .. StackSize - 1 : ~stack[q].stored
  BY <1>2, NothingSaved
<1> HIDE DEF m0, b, p, v
<1>9. ASSUME NEW q \in p + 1 .. sp
      PROVE  \/ stack[q] = Temp
             \/ \E c \in Blocks : c # b /\ stack[q] = Marker(c)
             \/ \E w \in Vars : /\ stack[q] = Def(w)
                                /\ q # d => i0[w] = "live"
                                /\ q = d => i0[w] = "stored"
  <2>0. q \in 0 .. sp /\ q \in Int
    BY <1>3
  <2>1. CASE \E j \in i + 1 .. Depth : q = ctl[j].base /\ stack[q] = Marker(ctl[j].block)
    <3>1. PICK j \in i + 1 .. Depth : q = ctl[j].base /\ stack[q] = Marker(ctl[j].block)
      BY <2>1
    <3>2. j \in 1 .. Depth /\ j # i
      BY <1>1
    <3>3. ctl[j].block \in Blocks /\ ctl[j].block # b
      BY <1>1, <1>2, <3>2, OpenOnce, CtlFacts DEF b
    <3> QED
      BY <3>1, <3>3
  <2>2. CASE \E j \in i .. Depth :
              /\ Within(j, q)
              /\ \/ stack[q] = Temp /\ Kind[ctl[j].block] = "call"
                 \/ \E w \in Vars : stack[q] = Def(w) /\ ScopeOf[w] = ctl[j].block
    <3>1. PICK j \in i .. Depth :
              /\ Within(j, q)
              /\ \/ stack[q] = Temp /\ Kind[ctl[j].block] = "call"
                 \/ \E w \in Vars : stack[q] = Def(w) /\ ScopeOf[w] = ctl[j].block
      BY <2>2
    <3>2. ASSUME NEW w \in Vars, stack[q] = Def(w), ScopeOf[w] = ctl[j].block
          PROVE  (q # d => i0[w] = "live") /\ (q = d => i0[w] = "stored")
      <4>1. CASE q = d
        <5>1. v # NoVar /\ stack[d] = Def(v) /\ i0[v] = "stored"
          BY <1>3, <1>4, <4>1, <2>0
        <5>2. w = v
          BY <3>2, <4>1, <5>1, Different
        <5> QED
          BY <4>1, <5>1, <5>2
      <4>2. CASE q # d
        <5> SUFFICES ASSUME i0[w] # "live"
                     PROVE  FALSE
          BY <4>2
        <5>1. PICK k \in 1 .. Depth : LastFun(k) /\ w = ReturnVar[ctl[k].block] /\ ret
          BY <2>0, <3>2 DEF Leaves, InstancesOf
        <5>2. w # NoVar
          BY ProgramAssumption
        <5>3. ctl[k].block \in Blocks /\ ScopeOf[w] = ctl[k].block
          BY <1>2, <5>1, <5>2, CtlFacts DEF OwnArrays
        <5>4. j \in 1 .. Depth
          BY <1>1
        <5>5. k = j
          BY <1>2, <3>2, <5>3, <5>4, OpenOnce
        <5>6. k = i
          <6>1. Kind[ctl[k].block] = "fun"
            BY <5>1 DEF LastFun
          <6>2. k \in i + 1 .. Depth \/ k = i
            BY <1>1, <5>5
          <6> QED
            BY <1>1, <6>1, <6>2
        <5>7. w = v
          BY <5>1, <5>6 DEF v, ReturnedFrom
        <5>8. d \in 0 .. sp /\ stack[d] = Def(w)
          BY <1>3, <1>4, <5>2, <5>7
        <5> QED
          BY <1>7, <2>0, <3>2, <4>2, <5>8, Different
      <4> QED
        BY <4>1, <4>2
    <3> QED
      BY <3>1, <3>2
  <2>3. \/ \E j \in i + 1 .. Depth : q = ctl[j].base /\ stack[q] = Marker(ctl[j].block)
        \/ \E j \in i .. Depth :
              /\ Within(j, q)
              /\ \/ stack[q] = Temp /\ Kind[ctl[j].block] = "call"
                 \/ \E w \in Vars : stack[q] = Def(w) /\ ScopeOf[w] = ctl[j].block
    BY <1>1, <1>2, AboveMarker DEF p
  <2> QED
    BY <2>1, <2>2, <2>3
<1>10. \/ d = -1
       \/ d \in p + 1 .. sp /\ \A q \in p + 1 .. d : stack[q].kind = "var"
  BY <1>4
<1>11. Clear(m0, b, p, d)
  BY ONLY <1>5, <1>6, <1>7, <1>8, <1>9, <1>10 DEF Clear
<1>12. /\ d = -1 <=> v = NoVar
       /\ d # -1 => stack[d] = Def(v) /\ d \in 0 .. sp
  BY <1>3, <1>4
<1> QED
  BY <1>11, <1>12 DEF m0, b, p, v

(* What is left when block i has been left: the stack below its marker,    *)
(* and above it the array its function returns.                            *)
Left(i, i0, ret) ==
  /\ stack' \in [Slots -> Entries] /\ inst' \in [Vars -> Instantiations]
  /\ sp' = ctl[i].base - 1 /\ fault' = "none"
  /\ \A q \in 0 .. sp' : stack'[q] = stack[q]
  /\ \A q \in sp' + 1 .. StackSize - 1 :
       stack'[q].stored => ReturnedFrom(i) # NoVar /\ q = sp' + 1
  /\ ReturnedFrom(i) # NoVar =>
       /\ stack'[sp' + 1] = Stored(ReturnedFrom(i)) /\ inst'[ReturnedFrom(i)] = "stored"
       /\ \A q \in 0 .. sp' : stack[q] # Def(ReturnedFrom(i))
       /\ \E q \in ctl[i].base + 1 .. sp : Within(i, q) /\ stack[q] = Def(ReturnedFrom(i))
  /\ \A q \in 0 .. sp' : \A v \in Vars : stack[q] = Def(v) => inst'[v] = i0[v]
  /\ returning' = (ret /\ Kind[ctl[i].block] # "fun")

(* Leaving block i ends so: LeavesClear and ClrsIs together.               *)
LEMMA LeftFacts ==
  ASSUME Typed, Good, Program, Top.phase # "back", NEW i, NEW i0, NEW ret, Leaves(i, i0, ret)
  PROVE  Left(i, i0, ret)
<1> DEFINE b == ctl[i].block
           p == ctl[i].base
           v == ReturnedFrom(i)
           m0 == MachineNow(i0)
           r == Clrs(m0, b)
<1>1. /\ i \in Int /\ i \in 1 .. Depth /\ i > 1 /\ b \in Blocks
      /\ v \in Vars \cup {NoVar}
  BY LeavesFacts
<1>2. Chain /\ Contents
  BY DEF Good
<1>3. /\ sp \in Int /\ p \in Int /\ 0 <= p /\ p <= sp
  BY <1>1, <1>2, BaseFacts, CtlFacts
<1>4. PICK d : /\ Clear(m0, b, p, d)
               /\ d = -1 <=> v = NoVar
               /\ d # -1 => stack[d] = Def(v) /\ d \in 0 .. sp
  BY LeavesClear
<1>5. Cleared(m0, r, p, d)
  BY <1>1, <1>4, ClrsIs
<1>6. /\ stack' = r.stack /\ sp' = r.sp /\ inst' = r.inst /\ fault' = r.fault
      /\ returning' = (ret /\ Kind[ctl[i].block] # "fun")
  BY DEF Leaves, Becomes
<1>7. m0.stack = stack /\ m0.sp = sp /\ m0.inst = i0
  BY DEF MachineNow
<1> HIDE DEF r, m0, v, b, p
<1>8. /\ r.stack \in [Slots -> Entries] /\ r.inst \in [Vars -> Instantiations]
      /\ r.sp = p - 1 /\ r.fault = "none"
      /\ \A q \in 0 .. p - 1 : r.stack[q] = stack[q]
      /\ \A q \in p .. StackSize - 1 : r.stack[q].stored => d # -1 /\ q = p
      /\ d # -1 => r.stack[p] = Stored(stack[d].of)
      /\ \A w \in Vars : (\A q \in p + 1 .. sp : stack[q] = Def(w) => q = d)
                           => r.inst[w] = i0[w]
  BY <1>5, <1>7 DEF Cleared
<1>9. (p - 1) + 1 = p /\ \A q \in 0 .. p - 1 : q \in 0 .. sp /\ q \in Int /\ q < p
  BY <1>3
<1>10. \A q, x \in 0 .. sp : stack[q].kind = "var" /\ stack[x] = stack[q] => q = x
  BY <1>2 DEF Contents
<1>11. \A q \in 0 .. p - 1 : \A w \in Vars : stack[q] = Def(w) => r.inst[w] = i0[w]
  <2> SUFFICES ASSUME NEW q \in 0 .. p - 1, NEW w \in Vars, stack[q] = Def(w)
               PROVE  \A x \in p + 1 .. sp : stack[x] # Def(w)
    BY <1>8
  <2> SUFFICES ASSUME NEW x \in p + 1 .. sp, stack[x] = Def(w)
               PROVE  FALSE
    OBVIOUS
  <2>1. x \in 0 .. sp /\ q \in 0 .. sp /\ x # q
    BY <1>3, <1>9
  <2> QED
    BY <1>10, <2>1, Different
<1>12. ASSUME v # NoVar
       PROVE  /\ r.stack[p] = Stored(v) /\ r.inst[v] = "stored"
              /\ \A q \in 0 .. p - 1 : stack[q] # Def(v)
              /\ \E q \in p + 1 .. sp : Within(i, q) /\ stack[q] = Def(v)
  <2>1. /\ i0[v] = "stored"
        /\ \E q \in p + 1 .. sp : stack[q] = Def(v) /\ Within(i, q)
    BY <1>12, ArrayInSegment DEF v, p
  <2>2. PICK x \in p + 1 .. sp : stack[x] = Def(v) /\ Within(i, x)
    BY <2>1
  <2>3. d # -1 /\ stack[d] = Def(v) /\ d \in 0 .. sp /\ v \in Vars
    BY <1>1, <1>4, <1>12
  <2>4. x \in 0 .. sp /\ \A q \in 0 .. p - 1 : q # x
    BY <1>3, <1>9
  <2>5. r.stack[p] = Stored(v)
    BY <1>8, <2>3, Different
  <2>6. \A q \in 0 .. sp : stack[q] = Def(v) => q = d
    BY <1>10, <2>3, Different
  <2>7. x = d /\ \A q \in 0 .. p - 1 : stack[q] # Def(v)
    BY <1>9, <2>2, <2>4, <2>6
  <2>8. \A q \in p + 1 .. sp : q \in 0 .. sp
    BY <1>3
  <2>9. r.inst[v] = i0[v]
    BY <1>8, <2>3, <2>6, <2>8
  <2> QED
    BY <2>1, <2>2, <2>5, <2>7, <2>9
<1>13. \A q \in p .. StackSize - 1 : r.stack[q].stored => v # NoVar /\ q = p
  BY <1>4, <1>8
<1>14. sp' = p - 1 /\ sp' + 1 = p
  BY <1>6, <1>8, <1>9
<1>15. /\ stack' \in [Slots -> Entries] /\ inst' \in [Vars -> Instantiations]
       /\ fault' = "none"
       /\ \A q \in 0 .. p - 1 : stack'[q] = stack[q]
       /\ \A q \in p .. StackSize - 1 : stack'[q].stored => v # NoVar /\ q = p
       /\ v # NoVar =>
            /\ stack'[p] = Stored(v) /\ inst'[v] = "stored"
            /\ \A q \in 0 .. p - 1 : stack[q] # Def(v)
            /\ \E q \in p + 1 .. sp : Within(i, q) /\ stack[q] = Def(v)
       /\ \A q \in 0 .. p - 1 : \A w \in Vars : stack[q] = Def(w) => inst'[w] = i0[w]
  BY <1>6, <1>8, <1>11, <1>12, <1>13
<1> QED
  BY ONLY <1>6, <1>14, <1>15 DEF Left, v, p

(* The blocks that are still open.                                         *)
LEMMA LeftTo1 ==
  ASSUME Typed, NEW i \in 2 .. Depth, NEW f \in Blocks, ctl' = LeftTo(i - 1, f)
  PROVE  /\ ctl' \in Seq(Frames) /\ Depth' = i - 1
         /\ \A j \in 1 .. i - 1 : /\ ctl'[j].block = ctl[j].block
                                  /\ ctl'[j].base = ctl[j].base
         /\ \A j \in 1 .. i - 2 : ctl'[j].phase = ctl[j].phase
         /\ Top' = ctl'[i - 1]
         /\ Kind[f] # "fun" => Top'.phase = ctl[i - 1].phase
         /\ Kind[f] = "fun" => Top'.phase = IF ReturnVar[f] = NoVar THEN "done" ELSE "back"
<1> DEFINE n == i - 1
           down == SubSeq(ctl, 1, n)
           x == IF ReturnVar[f] = NoVar THEN "done" ELSE "back"
<1>1. ctl \in Seq(Frames) /\ n \in 1 .. Len(ctl) /\ n \in Nat /\ Len(ctl) = Depth
      /\ Depth \in Nat
  BY CtlFacts DEF Typed, Depth
<1>2. down \in Seq(Frames) /\ Len(down) = n /\ \A j \in 1 .. n : down[j] = ctl[j]
  <2>1. /\ SubSeq(ctl, 1, n) \in Seq(Frames) /\ Len(SubSeq(ctl, 1, n)) = n
        /\ \A j \in 1 .. n : SubSeq(ctl, 1, n)[j] = ctl[j]
    BY ONLY <1>1
  <2> QED
    BY <2>1
<1>3. n \in 1 .. n /\ i - 2 = n - 1 /\ \A j \in 1 .. n - 1 : j \in 1 .. n /\ j # n
  BY <1>1
<1> HIDE DEF down
<1>4. CASE Kind[f] # "fun"
  <2>1. ctl' = down
    BY <1>4 DEF LeftTo, down
  <2>2. Depth' = n /\ Top' = ctl'[n]
    BY <1>2, <2>1 DEF Depth, Top
  <2> QED
    BY <1>2, <1>3, <1>4, <2>1, <2>2
<1>5. CASE Kind[f] = "fun"
  <2>1. ctl' = [down EXCEPT ![n].phase = x]
    BY <1>5 DEF LeftTo, down
  <2>2. x \in Phases
    BY DEF Phases
  <2>3. down[n] \in Frames
    BY <1>2, <1>3
  <2> DEFINE e == [down[n] EXCEPT !.phase = x]
  <2>4. e \in Frames /\ e.block = down[n].block /\ e.base = down[n].base /\ e.phase = x
    BY <2>2, <2>3 DEF Frames
  <2>5. ctl' = [down EXCEPT ![n] = e]
    BY <2>1
  <2> HIDE DEF e, x
  <2>6. ctl' \in Seq(Frames) /\ Len(ctl') = n /\ ctl'[n] = e
        /\ \A j \in 1 .. n - 1 : ctl'[j] = down[j]
    BY <1>2, <1>3, <2>4, <2>5
  <2>7. Depth' = n /\ Top' = ctl'[n]
    BY <2>6 DEF Depth, Top
  <2>8. \A j \in 1 .. n : j = n \/ j \in 1 .. n - 1
    BY <1>1
  <2>9. \A j \in 1 .. n : /\ ctl'[j].block = ctl[j].block
                          /\ ctl'[j].base = ctl[j].base
    BY <1>2, <1>3, <2>4, <2>6, <2>8
  <2>10. \A j \in 1 .. n - 1 : ctl'[j].phase = ctl[j].phase
    BY <1>2, <1>3, <2>6
  <2> QED
    BY <1>3, <1>5, <2>4, <2>6, <2>7, <2>9, <2>10 DEF x
<1> QED
  BY <1>4, <1>5

(* A machine that has left blocks is in order.                             *)
LEMMA LeaveGood ==
  ASSUME Typed, Good, Program, Top.phase # "back", NEW i, NEW i0, NEW ret, Leaves(i, i0, ret)
  PROVE  Typed' /\ Good'
<1> DEFINE b == ctl[i].block
           p == ctl[i].base
           v == ReturnedFrom(i)
           n == i - 1
<1>1. /\ i \in Int /\ i \in 1 .. Depth /\ i \in 2 .. Depth /\ i > 1 /\ b \in Blocks
      /\ n \in 1 .. Depth /\ n \in Nat /\ i - 2 = n - 1 /\ i = n + 1
      /\ v \in Vars \cup {NoVar} /\ ret \in BOOLEAN
      /\ v # NoVar => Kind[b] = "fun" /\ ret
      /\ Kind[b] = "fun" => ret
      /\ \A j \in i + 1 .. Depth : Kind[ctl[j].block] # "fun"
      /\ InstancesOf(i0, ret)
  <2>1. /\ i \in Int /\ i \in 1 .. Depth /\ i > 1 /\ n \in 1 .. Depth /\ b \in Blocks
        /\ v \in Vars \cup {NoVar}
        /\ v # NoVar => Kind[b] = "fun" /\ ret
    BY LeavesFacts
  <2>2. /\ i \in 2 .. Depth /\ ret \in BOOLEAN
        /\ Kind[b] = "fun" => ret
        /\ \A j \in i + 1 .. Depth : Kind[ctl[j].block] # "fun"
        /\ InstancesOf(i0, ret)
    BY DEF Leaves
  <2>3. n \in Nat /\ i - 2 = n - 1 /\ i = n + 1
    BY <2>1
  <2> QED
    BY <2>1, <2>2, <2>3
<1>2. Chain /\ Contents /\ Instances /\ Saved /\ TargetsThere /\ NonRecursive /\ OwnArrays
  BY DEF Good, Program
<1>3. /\ Depth \in Nat /\ Depth \in 1 .. Depth /\ Top = ctl[Depth] /\ sp \in Int
      /\ sp < StackSize /\ stack \in [Slots -> Entries]
      /\ \A j \in 1 .. Depth : ctl[j].block \in Blocks
  BY CtlFacts
<1>4. \A j \in 1 .. Depth : /\ ctl[j].base \in Int /\ -1 <= ctl[j].base /\ ctl[j].base <= sp
                            /\ j # 1 => 0 <= ctl[j].base
  BY <1>2, BaseFacts
<1>5. p \in Int /\ 0 <= p /\ p <= sp
  BY <1>1, <1>4
<1>6. /\ stack' \in [Slots -> Entries] /\ inst' \in [Vars -> Instantiations]
      /\ sp' = p - 1 /\ fault' = "none"
      /\ \A q \in 0 .. sp' : stack'[q] = stack[q]
      /\ \A q \in sp' + 1 .. StackSize - 1 : stack'[q].stored => v # NoVar /\ q = sp' + 1
      /\ v # NoVar =>
           /\ stack'[sp' + 1] = Stored(v) /\ inst'[v] = "stored"
           /\ \A q \in 0 .. sp' : stack[q] # Def(v)
      /\ \A q \in 0 .. sp' : \A w \in Vars : stack[q] = Def(w) => inst'[w] = i0[w]
      /\ returning' = (ret /\ Kind[b] # "fun")
  BY LeftFacts DEF Left
<1>7. /\ ctl' \in Seq(Frames) /\ Depth' = n
      /\ \A j \in 1 .. n : ctl'[j].block = ctl[j].block /\ ctl'[j].base = ctl[j].base
      /\ \A j \in 1 .. n - 1 : ctl'[j].phase = ctl[j].phase
      /\ Top' = ctl'[n]
      /\ Kind[b] # "fun" => Top'.phase = ctl[n].phase
      /\ Kind[b] = "fun" => Top'.phase = IF v = NoVar THEN "done" ELSE "back"
  <2>1. ctl' = LeftTo(i - 1, b)
    BY DEF Leaves
  <2>2. /\ ctl' \in Seq(Frames) /\ Depth' = i - 1
        /\ \A j \in 1 .. i - 1 : /\ ctl'[j].block = ctl[j].block
                                 /\ ctl'[j].base = ctl[j].base
        /\ \A j \in 1 .. i - 2 : ctl'[j].phase = ctl[j].phase
        /\ Top' = ctl'[i - 1]
        /\ Kind[b] # "fun" => Top'.phase = ctl[i - 1].phase
        /\ Kind[b] = "fun" => Top'.phase = IF ReturnVar[b] = NoVar THEN "done" ELSE "back"
    BY <1>1, <2>1, LeftTo1
  <2> QED
    BY <1>1, <2>2 DEF ReturnedFrom
<1>8. \A j \in 1 .. n : j \in 1 .. Depth /\ j < i /\ j # Depth /\ j \in Int
  BY <1>1, <1>3
<1>9. \A q \in 0 .. sp' : q \in 0 .. sp /\ q \in Int /\ q < p
  BY <1>3, <1>5, <1>6
<1>10. \A j \in 1 .. n : ctl[j].base < p
  BY <1>1, <1>2, <1>8 DEF Chain
<1>11. sp' \in Int /\ sp' \in -1 .. StackSize - 1
  BY <1>3, <1>5, <1>6, SizeAssumption
<1>12. Kind[b] = "fun" => Kind[ctl[n].block] = "call" /\ Callee[ctl[n].block] = b
  BY <1>1, <1>2 DEF Chain
<1> HIDE DEF b, p, n, v
<1>13. Typed'
  BY <1>1, <1>6, <1>7, <1>11 DEF Typed
<1>14. Chain'
  <2>1. 1 \in 1 .. n
    BY <1>1
  <2>2. ctl'[1].block = MainBlock /\ ctl'[1].base = -1
    BY <1>2, <1>7, <2>1 DEF Chain
  <2>3. ASSUME NEW j \in 2 .. n
        PROVE  /\ ctl'[j].base \in 0 .. sp'
               /\ stack'[ctl'[j].base] = Marker(ctl'[j].block)
               /\ Kind[ctl'[j].block] # "main"
               /\ Kind[ctl'[j].block] = "fun" =>
                    /\ Kind[ctl'[j - 1].block] = "call"
                    /\ Callee[ctl'[j - 1].block] = ctl'[j].block
    <3>1. j \in 1 .. n /\ j \in 2 .. Depth /\ j - 1 \in 1 .. n /\ j # 1
      BY <1>1, <1>8
    <3>2. /\ ctl[j].base \in 0 .. sp
          /\ stack[ctl[j].base] = Marker(ctl[j].block)
          /\ Kind[ctl[j].block] # "main"
          /\ Kind[ctl[j].block] = "fun" =>
               Kind[ctl[j - 1].block] = "call" /\ Callee[ctl[j - 1].block] = ctl[j].block
      BY <1>2, <3>1 DEF Chain
    <3>3. ctl[j].base \in 0 .. sp'
      BY <1>5, <1>6, <1>10, <3>1, <3>2
    <3> QED
      BY <1>6, <1>7, <3>1, <3>2, <3>3
  <2>4. \A j, k \in 1 .. n : j < k =>
          ctl'[j].base < ctl'[k].base /\ Rank[ctl'[k].block] < Rank[ctl'[j].block]
    BY <1>2, <1>7, <1>8 DEF Chain
  <2>5. ASSUME NEW j \in 1 .. n, ctl'[j].phase = "back"
        PROVE  j = n /\ Kind[ctl'[j].block] = "call"
    <3>1. \A k \in 1 .. n : ctl[k].phase # "back"
      BY <1>2, <1>8 DEF Chain
    <3>2. j = n
      <4>1. j # n => j \in 1 .. n - 1
        BY <1>1
      <4> QED
        BY <1>7, <2>5, <3>1, <4>1
    <3>3. Kind[b] = "fun"
      BY <1>7, <2>5, <3>1, <3>2
    <3> QED
      BY <1>7, <1>12, <3>2, <3>3
  <2> QED
    BY <1>7, <2>2, <2>3, <2>4, <2>5 DEF Chain
<1>15. \A j \in 1 .. n : \A q \in 0 .. sp' : Within(j, q) => Within(j, q)'
  <2> SUFFICES ASSUME NEW j \in 1 .. n, NEW q \in 0 .. sp', Within(j, q)
               PROVE  ctl'[j].base < q /\ \A k \in j + 1 .. n : q < ctl'[k].base
    BY <1>7 DEF Within
  <2>1. \A k \in j + 1 .. n : k \in 1 .. n /\ k \in j + 1 .. Depth
    BY <1>1, <1>8
  <2> QED
    BY <1>7, <2>1 DEF Within
(* What was in the stack below block i belongs to one of the blocks left.  *)
<1>16. ASSUME NEW q \in 0 .. sp', NEW j \in 1 .. Depth,
              (j > 1 /\ q = ctl[j].base) \/ Within(j, q)
       PROVE  j \in 1 .. n
  <2>1. j > i => p < ctl[j].base
    BY <1>1, <1>2 DEF Chain, p
  <2>2. j = i => p = ctl[j].base
    BY DEF p
  <2>3. ctl[j].base <= q /\ q < p /\ ctl[j].base \in Int /\ q \in Int
    BY <1>4, <1>9, <1>16 DEF Within
  <2>4. ~(i <= j)
    BY <1>1, <1>5, <2>1, <2>2, <2>3
  <2> QED
    BY <1>1, <2>4
<1>17. Contents'
  <2>1. ASSUME NEW q \in 0 .. sp'
        PROVE  \E j \in 1 .. n :
                 \/ j > 1 /\ q = ctl'[j].base
                 \/ /\ Within(j, q)'
                    /\ \/ stack'[q] = Temp /\ Kind[ctl'[j].block] = "call"
                       \/ \E w \in Vars : stack'[q] = Def(w) /\ ScopeOf[w] = ctl'[j].block
    <3>1. PICK j \in 1 .. Depth :
            \/ j > 1 /\ q = ctl[j].base
            \/ /\ Within(j, q)
               /\ \/ stack[q] = Temp /\ Kind[ctl[j].block] = "call"
                  \/ \E w \in Vars : stack[q] = Def(w) /\ ScopeOf[w] = ctl[j].block
      BY <1>2, <1>9 DEF Contents
    <3>2. j \in 1 .. n
      BY <1>16, <3>1
    <3> QED
      BY <1>6, <1>7, <1>15, <3>1, <3>2
  <2>2. \A q, r \in 0 .. sp' : stack'[q].kind = "var" /\ stack'[r] = stack'[q] => q = r
    BY <1>2, <1>6, <1>9 DEF Contents
  <2> QED
    BY <1>7, <2>1, <2>2 DEF Contents
(* The function that is returned from is still open if block i is none.    *)
<1>18. ASSUME NEW k \in 1 .. Depth, LastFun(k)
       PROVE  /\ Kind[b] = "fun" => k = i
              /\ Kind[b] # "fun" => k \in 1 .. n /\ LastFun(k)'
  <2>1. Kind[b] = "fun" => LastFun(i)
    BY <1>1 DEF LastFun, b
  <2>2. Kind[b] = "fun" => k = i
    BY <1>18, <2>1, OneLastFun
  <2>3. ASSUME Kind[b] # "fun"
        PROVE  k \in 1 .. n
    <3>1. k # i /\ k \notin i + 1 .. Depth
      BY <1>1, <1>18, <2>3 DEF LastFun, b
    <3> QED
      BY <1>1, <1>3, <3>1
  <2>4. ASSUME k \in 1 .. n
        PROVE  LastFun(k)'
    <3>1. \A j \in k + 1 .. n : j \in 1 .. n /\ j \in k + 1 .. Depth
      BY <1>1, <1>8
    <3> QED
      BY <1>7, <1>18, <2>4, <3>1 DEF LastFun
  <2> QED
    BY <2>2, <2>3, <2>4
<1>19. Instances'
  <2>1. ASSUME NEW q \in 0 .. sp', NEW w \in Vars, stack'[q] = Def(w)
        PROVE  \/ inst'[w] = "live"
               \/ /\ inst'[w] = "stored" /\ returning'
                  /\ \E k \in 1 .. n : LastFun(k)' /\ w = ReturnVar[ctl'[k].block]
    <3>1. stack[q] = Def(w) /\ q \in 0 .. sp /\ inst'[w] = i0[w]
      BY <1>6, <1>9, <2>1
    <3>2. CASE i0[w] = "live"
      BY <3>1, <3>2
    <3>3. CASE i0[w] # "live"
      <4>1. i0[w] = "stored" /\ ret
        BY <1>1, <3>1, <3>3 DEF InstancesOf
      <4>2. PICK k \in 1 .. Depth : LastFun(k) /\ w = ReturnVar[ctl[k].block]
        BY <1>1, <3>1, <3>3 DEF InstancesOf
      <4>3. Kind[b] # "fun"
        <5> SUFFICES ASSUME Kind[b] = "fun"
                     PROVE  FALSE
          OBVIOUS
        <5>1. w = v /\ v # NoVar
          BY <1>18, <4>2, ProgramAssumption DEF v, ReturnedFrom
        <5> QED
          BY <1>6, <3>1, <5>1
      <4>4. k \in 1 .. n /\ LastFun(k)'
        BY <1>18, <4>2, <4>3
      <4> QED
        BY <1>6, <1>7, <3>1, <4>1, <4>2, <4>3, <4>4
    <3> QED
      BY <3>2, <3>3
  <2>2. ASSUME returning'
        PROVE  \E k \in 1 .. n :
                 /\ LastFun(k)'
                 /\ ReturnVar[ctl'[k].block] # NoVar =>
                      /\ inst'[ReturnVar[ctl'[k].block]] = "stored"
                      /\ \E q \in 0 .. sp' : stack'[q] = Def(ReturnVar[ctl'[k].block])
    <3>1. ret /\ Kind[b] # "fun"
      BY <1>6, <2>2
    <3>2. PICK k \in 1 .. Depth :
            /\ LastFun(k)
            /\ ReturnVar[ctl[k].block] # NoVar =>
                 /\ i0[ReturnVar[ctl[k].block]] = "stored"
                 /\ \E q \in 0 .. sp : stack[q] = Def(ReturnVar[ctl[k].block])
      BY <1>1, <3>1 DEF InstancesOf
    <3>3. k \in 1 .. n /\ LastFun(k)'
      BY <1>18, <3>1, <3>2
    <3>4. ASSUME ReturnVar[ctl[k].block] # NoVar
          PROVE  /\ inst'[ReturnVar[ctl[k].block]] = "stored"
                 /\ \E q \in 0 .. sp' : stack'[q] = Def(ReturnVar[ctl[k].block])
      <4> DEFINE w == ReturnVar[ctl[k].block]
      <4>1. ctl[k].block \in Blocks /\ w \in Vars
        BY <1>3, <3>4, ProgramAssumption
      <4>2. ScopeOf[w] = ctl[k].block
        BY <1>2, <3>4, <4>1 DEF OwnArrays
      <4>3. PICK q \in 0 .. sp : stack[q] = Def(w)
        BY <3>2, <3>4
      <4>4. Within(k, q)
        BY <1>2, <4>1, <4>2, <4>3, DefSegment
      <4>5. q < p
        <5>1. i \in k + 1 .. Depth
          BY <1>1, <1>8, <3>3
        <5> QED
          BY <4>4, <5>1 DEF Within, p
      <4>6. q \in 0 .. sp'
        BY <1>5, <1>6, <4>5
      <4> QED
        BY <1>6, <3>2, <3>4, <4>1, <4>3, <4>6
    <3> QED
      BY <1>7, <3>3, <3>4
  <2> QED
    BY <1>7, <2>1, <2>2 DEF Instances, InstancesOf
<1>20. Saved'
  <2>1. Top'.phase = "back" <=> v # NoVar
    <3>1. ctl[n].phase # "back"
      BY <1>1, <1>2, <1>8 DEF Chain
    <3> QED
      BY <1>1, <1>7, <3>1
  <2>2. Top'.phase = "back" =>
          LET w == ReturnVar[Callee[Top'.block]] IN
          /\ ~returning' /\ w # NoVar /\ inst'[w] = "stored" /\ sp' + 1 < StackSize
          /\ stack'[sp' + 1] = Stored(w)
    <3> SUFFICES ASSUME v # NoVar
                 PROVE  /\ ~returning' /\ ReturnVar[Callee[Top'.block]] = v
                        /\ inst'[v] = "stored" /\ sp' + 1 < StackSize
                        /\ stack'[sp' + 1] = Stored(v)
      BY <2>1
    <3>1. Top'.block = ctl[n].block
      BY <1>1, <1>7
    <3>2. Callee[Top'.block] = b
      BY <1>1, <1>12, <3>1
    <3>3. sp' + 1 < StackSize
      BY <1>3, <1>5, <1>6, SizeAssumption
    <3> QED
      BY <1>1, <1>6, <3>2, <3>3 DEF v, ReturnedFrom, b
  <2>3. \A q \in sp' + 1 .. StackSize - 1 : stack'[q].stored => Top'.phase = "back" /\ q = sp' + 1
    BY <1>6, <2>1
  <2> QED
    BY <2>2, <2>3 DEF Saved
<1>21. TargetsThere'
  <2> SUFFICES ASSUME NEW j \in 1 .. n, Kind[ctl[j].block] = "call", Target[ctl[j].block] # NoVar
               PROVE  \E q \in 0 .. ctl[j].base - 1 : stack'[q] = Def(Target[ctl[j].block])
    BY <1>7 DEF TargetsThere
  <2>1. PICK q \in 0 .. ctl[j].base - 1 : stack[q] = Def(Target[ctl[j].block])
    BY <1>2, <1>8 DEF TargetsThere
  <2>2. q \in 0 .. sp'
    BY <1>4, <1>5, <1>6, <1>8, <1>10
  <2> QED
    BY <1>6, <2>1, <2>2
<1> QED
  BY <1>13, <1>14, <1>17, <1>19, <1>20, <1>21 DEF Good

-----------------------------------------------------------------------------
(* The actions.                                                            *)

(* A machine that runs is in order.                                        *)
LEMMA InRun ==
  ASSUME IInv, Running
  PROVE  Typed /\ Good /\ fault = "none" /\ Chain /\ Contents /\ Instances /\ Saved
         /\ TargetsThere
BY DEF IInv, Running, Good

(* A push finds room, or is the overrun of the stack.                      *)
LEMMA PutCases ==
  ASSUME Typed, fault = "none", NEW e \in Entries, Put(e)
  PROVE  \/ Pushed(e) /\ fault' = "none"
         \/ UNCHANGED <<stack, sp>> /\ fault' = "overrun"
<1>1. sp + 1 < StackSize => sp + 1 \in Slots
  BY CtlFacts, SizeAssumption DEF Slots
<1> QED
  BY <1>1 DEF Put, Pushed

(* After an overrun only the types are claimed.                            *)
LEMMA OverrunIInv ==
  ASSUME Typed, UNCHANGED <<stack, sp>>, fault' = "overrun",
         inst' \in [Vars -> Instantiations], returning' \in BOOLEAN,
         ctl' \in Seq(Frames), Len(ctl') > 0
  PROVE  IInv'
BY DEF IInv, Typed, Depth

(* An entry for a variable is its definition.                              *)
LEMMA DefIs ==
  ASSUME Typed, Chain, Contents, NEW q \in 0 .. sp, stack[q].kind = "var"
  PROVE  stack[q].of \in Vars /\ stack[q] = Def(stack[q].of)
<1>1. PICK j \in 1 .. Depth :
        \/ j > 1 /\ q = ctl[j].base
        \/ /\ Within(j, q)
           /\ \/ stack[q] = Temp /\ Kind[ctl[j].block] = "call"
              \/ \E v \in Vars : stack[q] = Def(v) /\ ScopeOf[v] = ctl[j].block
  BY DEF Contents
<1>2. ~(j > 1 /\ q = ctl[j].base)
  <2>1. j > 1 => j \in 2 .. Depth
    BY CtlFacts
  <2>2. j > 1 => stack[ctl[j].base] = Marker(ctl[j].block)
    BY <2>1 DEF Chain
  <2> QED
    BY <2>2, Different
<1> QED
  BY <1>1, <1>2, Different

(* A name that can be seen is that of a variable defined in the stack.     *)
LEMMA VisibleIs ==
  ASSUME Typed, Chain, Contents, NEW v, Visible(v)
  PROVE  v \in Vars /\ \E q \in 0 .. sp : stack[q] = Def(v)
<1>1. PICK i \in 1 .. Depth : \E q \in ctl[i].base + 1 .. sp :
         stack[q].kind = "var" /\ stack[q].of = v
  BY CtlFacts DEF Visible
<1>2. PICK q \in ctl[i].base + 1 .. sp : stack[q].kind = "var" /\ stack[q].of = v
  BY <1>1
<1>3. ctl[i].base \in Int /\ -1 <= ctl[i].base /\ sp \in Int
  BY BaseFacts, CtlFacts
<1>4. q \in 0 .. sp
  BY <1>3
<1> QED
  BY <1>2, <1>4, DefIs

(* A machine that does not wait for restore has no block that does.        *)
LEMMA NoneBack ==
  ASSUME Typed, Chain, Top.phase # "back"
  PROVE  \A i \in 1 .. Depth : ctl[i].phase # "back"
BY CtlFacts DEF Chain

(* Block b is entered, by marksn or by call.                               *)
Enters(b) ==
  /\ Running /\ ~returning /\ Top.phase = "run" /\ b \in Blocks
  /\ Put(Marker(b))
  /\ \E c : Opens(b, c)
  /\ UNCHANGED <<inst, returning>>

(* marksn enters a block.                                                  *)
LEMMA MarksEnters ==
  ASSUME IInv, Program, NEW b \in Blocks, Marks(b)
  PROVE  Enters(b)
<1>1. /\ Running /\ ~returning /\ Top.phase = "run"
      /\ Kind[b] \in {"for", "body", "call"} /\ Father[b] = Top.block
      /\ Kind[b] = "call" /\ Target[b] # NoVar => Visible(Target[b])
      /\ Put(Marker(b))
      /\ ctl' = Append(ctl, Opened(b))
      /\ UNCHANGED <<inst, returning>>
  BY DEF Marks, AtCode
<1>2. Typed /\ Chain /\ Contents /\ NonRecursive
  BY <1>1, InRun DEF Program
<1>3. SameBlocks(ctl) /\ \A i \in 1 .. Depth : ctl[i].phase # "back"
  BY <1>1, <1>2, NoneBack DEF SameBlocks, Typed, Depth
<1>4. Rank[b] < Rank[Top.block]
  BY <1>1, <1>2, RankFacts DEF Descends
<1>5. Kind[b] = "call" /\ Target[b] # NoVar => \E q \in 0 .. sp : stack[q] = Def(Target[b])
  BY <1>1, <1>2, VisibleIs
<1>6. Opens(b, ctl)
  BY <1>1, <1>3, <1>4, <1>5 DEF Opens, Opened
<1> QED
  BY <1>1, <1>6 DEF Enters

(* call and the marksn of the function enter the function.                 *)
LEMMA CallEnters ==
  ASSUME IInv, Program, Call
  PROVE  Enters(Callee[Top.block])
<1> DEFINE f == Callee[Top.block]
           c == [ctl EXCEPT ![Len(ctl)].phase = "called"]
<1>1. /\ Running /\ ~returning /\ Top.phase = "run" /\ Kind[Top.block] = "call"
      /\ Put(Marker(f))
      /\ ctl' = Append(c, Opened(f))
      /\ UNCHANGED <<inst, returning>>
  BY DEF Call, AtCode
<1>2. Typed /\ Chain /\ NonRecursive
  BY <1>1, InRun DEF Program
<1>3. Top.block \in Blocks /\ f \in Blocks /\ Kind[f] = "fun"
  BY <1>1, <1>2, CtlFacts, ProgramAssumption
<1>4. SameBlocks(c) /\ \A i \in 1 .. Depth : c[i].phase # "back"
  <2>1. ctl \in Seq(Frames) /\ Depth = Len(ctl) /\ Depth \in 1 .. Depth /\ ctl[Depth] \in Frames
    BY <1>2, CtlFacts DEF Typed
  <2> DEFINE e == [ctl[Depth] EXCEPT !.phase = "called"]
  <2>2. e \in Frames /\ e.block = ctl[Depth].block /\ e.base = ctl[Depth].base
        /\ e.phase = "called"
    BY <2>1 DEF Frames, Phases
  <2>3. c = [ctl EXCEPT ![Depth] = e]
    BY <2>1
  <2>4. \A i \in 1 .. Depth : ctl[i].phase # "back"
    BY <1>1, <1>2, NoneBack
  <2> HIDE DEF e, c
  <2>5. c \in Seq(Frames) /\ Len(c) = Depth /\ c[Depth] = e
        /\ \A i \in 1 .. Depth : i # Depth => c[i] = ctl[i]
    BY <2>1, <2>2, <2>3
  <2> QED
    BY <2>2, <2>4, <2>5 DEF SameBlocks
<1> HIDE DEF c
<1>5. Rank[f] < Rank[Top.block]
  BY <1>1, <1>2, <1>3, RankFacts DEF Descends
<1>6. Opens(f, c)
  BY <1>1, <1>3, <1>4, <1>5 DEF Opens, Opened
<1> QED
  BY <1>1, <1>3, <1>6 DEF Enters

(* Entering a block keeps the invariant.                                   *)
LEMMA EntersIInv ==
  ASSUME IInv, Program, NEW b, Enters(b)
  PROVE  IInv'
<1>1. /\ Running /\ ~returning /\ Top.phase = "run" /\ b \in Blocks
      /\ Put(Marker(b)) /\ UNCHANGED <<inst, returning>>
  BY DEF Enters
<1>2. Typed /\ Good /\ fault = "none" /\ NonRecursive
  BY <1>1, InRun DEF Program
<1>3. PICK c : Opens(b, c)
  BY DEF Enters
<1>4. CASE Pushed(Marker(b)) /\ fault' = "none"
  <2>1. Typed' /\ Good'
    BY <1>1, <1>2, <1>3, <1>4, OpenGood
  <2> QED
    BY <1>4, <2>1 DEF IInv
<1>5. CASE UNCHANGED <<stack, sp>> /\ fault' = "overrun"
  <2>1. ctl' \in Seq(Frames) /\ Len(ctl') = Depth + 1 /\ Depth \in Nat
    BY <1>2, <1>3, OpenFacts, CtlFacts DEF Depth
  <2>2. inst' \in [Vars -> Instantiations] /\ returning' \in BOOLEAN
    BY <1>1, <1>2 DEF Typed
  <2> QED
    BY <1>2, <1>5, <2>1, <2>2, OverrunIInv
<1> QED
  BY <1>1, <1>2, <1>4, <1>5, PutCases, EntryFacts

(* push of an argument keeps the invariant.                                *)
LEMMA PushArgIInv ==
  ASSUME IInv, Program, PushArg
  PROVE  IInv'
<1>1. /\ Running /\ ~returning /\ Top.phase = "run" /\ Kind[Top.block] = "call"
      /\ Put(Temp) /\ UNCHANGED <<inst, ctl, returning>>
  BY DEF PushArg, AtCode
<1>2. Typed /\ Good /\ fault = "none" /\ NonRecursive
  BY <1>1, InRun DEF Program
<1>3. CASE Pushed(Temp) /\ fault' = "none"
  <2>1. Pushes(Temp)
    BY <1>1 DEF Pushes
  <2>2. Typed' /\ Good'
    BY <1>1, <1>2, <1>3, <2>1, PushGood
  <2> QED
    BY <1>3, <2>2 DEF IInv
<1>4. CASE UNCHANGED <<stack, sp>> /\ fault' = "overrun"
  <2>1. /\ inst' \in [Vars -> Instantiations] /\ returning' \in BOOLEAN
        /\ ctl' \in Seq(Frames) /\ Len(ctl') > 0
    BY <1>1, <1>2 DEF Typed, Depth
  <2> QED
    BY <1>2, <1>4, <2>1, OverrunIInv
<1> QED
  BY <1>1, <1>2, <1>3, <1>4, PutCases, EntryFacts

(* A definition keeps the invariant.                                       *)
LEMMA DefineIInv ==
  ASSUME IInv, Program, NEW v \in Vars, Define(v)
  PROVE  IInv'
<1>1. /\ Running /\ ~returning /\ Top.phase = "run" /\ ScopeOf[v] = Top.block
      /\ \A q \in Top.base + 1 .. sp : stack[q] # Def(v)
      /\ Put(Def(v)) /\ inst' = [inst EXCEPT ![v] = "live"]
      /\ UNCHANGED <<ctl, returning>>
  BY DEF Define, AtCode
<1>2. Typed /\ Good /\ fault = "none" /\ NonRecursive
  BY <1>1, InRun DEF Program
<1>3. CASE Pushed(Def(v)) /\ fault' = "none"
  <2>1. Pushes(Def(v))
    BY <1>1 DEF Pushes
  <2>2. Typed' /\ Good'
    BY <1>1, <1>2, <1>3, <2>1, PushGood
  <2> QED
    BY <1>3, <2>2 DEF IInv
<1>4. CASE UNCHANGED <<stack, sp>> /\ fault' = "overrun"
  <2>1. /\ inst' \in [Vars -> Instantiations] /\ returning' \in BOOLEAN
        /\ ctl' \in Seq(Frames) /\ Len(ctl') > 0
    BY <1>1, <1>2 DEF Typed, Depth, Instantiations
  <2> QED
    BY <1>2, <1>4, <2>1, OverrunIInv
<1> QED
  BY <1>1, <1>2, <1>3, <1>4, PutCases, EntryFacts

(* The blocks that are left by an action, with what its store does first.  *)
LeavesSome == \E i, i0, ret : Leaves(i, i0, ret)

(* clrsn starts from the state of the machine.                             *)
LEMMA HereIs ==
  ASSUME fault = "none"
  PROVE  Here = MachineNow(inst)
BY DEF Here, MachineNow

(* The innermost block can be left when it is not the global code.         *)
LEMMA TopLeft ==
  ASSUME Typed, Chain, Kind[Top.block] # "main"
  PROVE  /\ Depth \in 2 .. Depth /\ Depth + 1 .. Depth = {} /\ Len(ctl) = Depth
         /\ Top = ctl[Depth] /\ Top.block \in Blocks
<1>1. Depth \in Nat /\ Depth > 0 /\ Top = ctl[Depth] /\ Len(ctl) = Depth /\ Depth \in 1 .. Depth
  BY CtlFacts
<1>2. Depth # 1
  BY <1>1, ProgramAssumption DEF Chain
<1> QED
  BY <1>1, <1>2, CtlFacts

(* The clrsn at the end of a block leaves that block.                      *)
LEMMA CloseLeaves ==
  ASSUME IInv, Close
  PROVE  LeavesSome /\ Top.phase # "back" /\ Running
<1>1. /\ Running /\ ~returning
      /\ \/ Kind[Top.block] \in {"for", "body"}
         \/ Kind[Top.block] = "call" /\ Top.phase = "done"
      /\ Becomes(Clrs(Here, Top.block))
      /\ ctl' = LeftTo(Len(ctl) - 1, Top.block)
      /\ UNCHANGED returning
  BY DEF Close
<1>2. Typed /\ Chain /\ Instances /\ fault = "none"
  BY <1>1, InRun
<1>3. Kind[Top.block] # "main" /\ Kind[Top.block] # "fun"
  BY <1>1
<1>4. /\ Depth \in 2 .. Depth /\ Depth + 1 .. Depth = {} /\ Len(ctl) = Depth
      /\ Top = ctl[Depth] /\ Top.block \in Blocks
  BY <1>2, <1>3, TopLeft
<1>5. Becomes(Clrs(MachineNow(inst), Top.block))
  BY <1>1, <1>2, HereIs
<1>6. inst \in [Vars -> Instantiations] /\ FALSE \in BOOLEAN /\ returning = FALSE
  BY <1>1, <1>2 DEF Typed
<1>7. InstancesOf(inst, FALSE)
  BY <1>2, <1>6 DEF Instances
<1>8. Leaves(Depth, inst, FALSE)
  BY <1>1, <1>3, <1>4, <1>5, <1>6, <1>7 DEF Leaves
<1>9. Top.phase # "back"
  BY <1>1, <1>2, <1>4, CtlFacts DEF Chain
<1> QED
  BY <1>1, <1>8, <1>9 DEF LeavesSome

(* store marks the array that is returned.                                 *)
LEMMA StoreIs ==
  ASSUME Typed, Good, fault = "none", ~returning, NEW k \in 1 .. Depth, LastFun(k),
         NEW v, v = ReturnVar[ctl[k].block], v # NoVar => Visible(v)
  PROVE  \E i0 \in [Vars -> Instantiations] :
           InstancesOf(i0, TRUE) /\ Store(Here, v) = MachineNow(i0)
<1>1. Chain /\ Contents /\ Instances
  BY DEF Good
<1>2. \A q \in 0 .. sp : \A w \in Vars : stack[q] = Def(w) => inst[w] = "live"
  BY <1>1 DEF Instances, InstancesOf
<1>3. CASE v = NoVar
  <2>1. Store(Here, v) = MachineNow(inst)
    BY <1>3, HereIs DEF Store
  <2>2. InstancesOf(inst, TRUE)
    BY <1>2, <1>3 DEF InstancesOf
  <2> QED
    BY <2>1, <2>2, CtlFacts
<1>4. CASE v # NoVar
  <2>1. v \in Vars /\ \E q \in 0 .. sp : stack[q] = Def(v)
    BY <1>1, <1>4, VisibleIs
  <2>2. inst[v] = "live"
    BY <1>2, <2>1
  <2> DEFINE i0 == [inst EXCEPT ![v] = "stored"]
  <2>3. i0 \in [Vars -> Instantiations] /\ i0[v] = "stored"
        /\ \A w \in Vars : w # v => i0[w] = inst[w]
    BY <2>1, CtlFacts DEF Instantiations
  <2>4. Store(Here, v) = MachineNow(i0)
    <3>1. Here.inst[v] = "live"
      BY <2>2 DEF Here
    <3>2. Store(Here, v) = [Here EXCEPT !.inst[v] = "stored"]
      BY <1>4, <3>1 DEF Store
    <3> QED
      BY <3>2 DEF Here, MachineNow
  <2> HIDE DEF i0
  <2>5. InstancesOf(i0, TRUE)
    <3>1. ASSUME NEW q \in 0 .. sp, NEW w \in Vars, stack[q] = Def(w)
          PROVE  \/ i0[w] = "live"
                 \/ i0[w] = "stored" /\ w = v
      BY <1>2, <2>3, <3>1
    <3> QED
      BY <2>1, <2>3, <3>1 DEF InstancesOf
  <2> QED
    BY <2>3, <2>4, <2>5
<1> QED
  BY <1>3, <1>4

(* A return at the end of a function leaves the function.                  *)
LEMMA ReturnAtEndLeaves ==
  ASSUME IInv, ReturnAtEnd
  PROVE  LeavesSome /\ Top.phase # "back" /\ Running
<1> DEFINE f == Top.block
           v == ReturnVar[f]
<1>1. /\ Running /\ ~returning /\ Kind[f] = "fun"
      /\ v # NoVar => Visible(v)
      /\ Becomes(Clrs(Store(Here, v), f))
      /\ ctl' = LeftTo(Len(ctl) - 1, f)
      /\ UNCHANGED returning
  BY DEF ReturnAtEnd, In
<1>2. Typed /\ Good /\ Chain /\ fault = "none"
  BY <1>1, InRun
<1>3. /\ Depth \in 2 .. Depth /\ Depth + 1 .. Depth = {} /\ Len(ctl) = Depth
      /\ Top = ctl[Depth] /\ f \in Blocks /\ Depth \in 1 .. Depth
  BY <1>1, <1>2, TopLeft, CtlFacts
<1>4. LastFun(Depth)
  BY <1>1, <1>3 DEF LastFun
<1>5. PICK i0 \in [Vars -> Instantiations] :
        InstancesOf(i0, TRUE) /\ Store(Here, v) = MachineNow(i0)
  BY <1>1, <1>2, <1>3, <1>4, StoreIs
<1>6. Becomes(Clrs(MachineNow(i0), f))
  BY <1>1, <1>5
<1>7. returning' = FALSE
  BY <1>1, <1>2 DEF Typed
<1>8. Leaves(Depth, i0, TRUE)
  BY <1>1, <1>3, <1>5, <1>6, <1>7 DEF Leaves
<1>9. Top.phase # "back"
  BY <1>1, <1>2, <1>3 DEF Chain
<1> QED
  BY <1>1, <1>8, <1>9 DEF LeavesSome

(* FunIndex is the innermost function.                                     *)
LEMMA FunIndexIs ==
  ASSUME Typed, FunIndex # 0
  PROVE  LastFun(FunIndex) /\ FunIndex \in 1 .. Depth
<1> DEFINE funs == {i \in 1 .. Len(ctl) : Kind[ctl[i].block] = "fun"}
           T == {m \in Nat : Depth - m \in funs}
<1>1. Depth \in Nat /\ Depth = Len(ctl)
  BY CtlFacts
<1>2. funs # {} /\ FunIndex = CHOOSE i \in funs : \A j \in funs : j <= i
  BY DEF FunIndex
<1>3. T # {}
  <2>1. PICK i \in funs : TRUE
    BY <1>2
  <2>2. Depth - i \in Nat /\ Depth - (Depth - i) = i
    BY <1>1
  <2> QED
    BY <2>1, <2>2
<1>4. PICK m \in T : \A y \in T : m <= y
  BY <1>3, Least
<1>5. \A j \in funs : j <= Depth - m
  <2> SUFFICES ASSUME NEW j \in funs
               PROVE  j <= Depth - m
    OBVIOUS
  <2>1. Depth - j \in Nat /\ Depth - (Depth - j) = j /\ j \in Int
    BY <1>1
  <2>2. m <= Depth - j /\ m \in Nat
    BY <1>4, <2>1
  <2> QED
    BY <1>1, <2>1, <2>2
<1>6. Depth - m \in funs
  BY <1>4
<1> HIDE DEF funs
<1>7. FunIndex \in funs /\ \A j \in funs : j <= FunIndex
  BY <1>2, <1>5, <1>6
<1>8. FunIndex \in 1 .. Depth /\ Kind[ctl[FunIndex].block] = "fun"
  BY <1>1, <1>7 DEF funs
<1>9. \A j \in FunIndex + 1 .. Depth : Kind[ctl[j].block] # "fun"
  <2> SUFFICES ASSUME NEW j \in FunIndex + 1 .. Depth, Kind[ctl[j].block] = "fun"
               PROVE  FALSE
    OBVIOUS
  <2>1. j \in funs /\ ~(j <= FunIndex)
    BY <1>1, <1>8 DEF funs
  <2> QED
    BY <1>7, <2>1
<1> QED
  BY <1>8, <1>9 DEF LastFun

(* A return at the end of a body stores the array and leaves the body.     *)
LEMMA ReturnNestedLeaves ==
  ASSUME IInv, ReturnNested
  PROVE  LeavesSome /\ Top.phase # "back" /\ Running
<1> DEFINE b == Top.block
           v == ReturnVar[ctl[FunIndex].block]
<1>1. /\ Running /\ ~returning /\ Kind[b] = "body" /\ FunIndex # 0
      /\ v # NoVar => Visible(v)
      /\ Becomes(Clrs(Store(Here, v), b))
      /\ ctl' = LeftTo(Len(ctl) - 1, b)
      /\ returning' = TRUE
  BY DEF ReturnNested, In
<1>2. Typed /\ Good /\ Chain /\ fault = "none"
  BY <1>1, InRun
<1>3. /\ Depth \in 2 .. Depth /\ Depth + 1 .. Depth = {} /\ Len(ctl) = Depth
      /\ Top = ctl[Depth] /\ b \in Blocks /\ Depth \in 1 .. Depth
  BY <1>1, <1>2, TopLeft, CtlFacts
<1>4. LastFun(FunIndex) /\ FunIndex \in 1 .. Depth
  BY <1>1, <1>2, FunIndexIs
<1>5. PICK i0 \in [Vars -> Instantiations] :
        InstancesOf(i0, TRUE) /\ Store(Here, v) = MachineNow(i0)
  BY <1>1, <1>2, <1>4, StoreIs
<1>6. Becomes(Clrs(MachineNow(i0), b))
  BY <1>1, <1>5
<1>7. Leaves(Depth, i0, TRUE)
  BY <1>1, <1>3, <1>5, <1>6 DEF Leaves
<1>8. Top.phase # "back"
  BY <1>1, <1>2, <1>3 DEF Chain
<1> QED
  BY <1>1, <1>7, <1>8 DEF LeavesSome

(* The rollbacks behind it leave the blocks around the body, up to the     *)
(* function; for statements, which get none, go with the block around      *)
(* them.                                                                   *)
LEMMA UnwindLeaves ==
  ASSUME IInv, Unwind
  PROVE  LeavesSome /\ Top.phase # "back" /\ Running
<1>1. Running /\ returning
  BY DEF Unwind
<1>2. PICK i \in 1 .. Len(ctl) :
         /\ Kind[ctl[i].block] \in {"body", "fun"}
         /\ \A j \in i + 1 .. Len(ctl) : Kind[ctl[j].block] = "for"
         /\ Becomes(Clrs(Here, ctl[i].block))
         /\ ctl' = LeftTo(i - 1, ctl[i].block)
         /\ returning' = (Kind[ctl[i].block] # "fun")
  BY DEF Unwind
<1>3. Typed /\ Good /\ Chain /\ Instances /\ fault = "none"
  BY <1>1, InRun
<1>4. Depth \in Nat /\ Len(ctl) = Depth /\ Top = ctl[Depth] /\ Depth \in 1 .. Depth
  BY <1>3, CtlFacts
<1>5. i \in 2 .. Depth /\ i \in 1 .. Depth
  <2>1. i # 1
    BY <1>2, <1>3, ProgramAssumption DEF Chain
  <2> QED
    BY <1>4, <2>1
<1>6. returning = TRUE /\ inst \in [Vars -> Instantiations]
  BY <1>1, <1>3 DEF Typed
<1>7. InstancesOf(inst, TRUE) /\ Becomes(Clrs(MachineNow(inst), ctl[i].block))
  BY <1>2, <1>3, <1>6, HereIs DEF Instances
<1>8. Leaves(i, inst, TRUE)
  BY <1>2, <1>4, <1>5, <1>6, <1>7 DEF Leaves
<1>9. Top.phase # "back"
  <2>1. Depth = i \/ Depth \in i + 1 .. Depth
    BY <1>4, <1>5
  <2>2. Kind[Top.block] # "call"
    BY <1>2, <1>4, <2>1
  <2> QED
    BY <1>3, <1>4, <2>2 DEF Chain
<1> QED
  BY <1>1, <1>8, <1>9 DEF LeavesSome

(* break leaves the for statement with the bodies in it.                   *)
LEMMA BreakLeaves ==
  ASSUME IInv, Break
  PROVE  LeavesSome /\ Top.phase # "back" /\ Running
<1>1. Running /\ ~returning /\ Kind[Top.block] = "body" /\ UNCHANGED returning
  BY DEF Break, In
<1>2. PICK i \in 1 .. Len(ctl) :
         /\ Kind[ctl[i].block] = "for"
         /\ \A j \in i + 1 .. Len(ctl) : Kind[ctl[j].block] = "body"
         /\ Becomes(Clrs(Here, ctl[i].block))
         /\ ctl' = LeftTo(i - 1, ctl[i].block)
  BY DEF Break
<1>3. Typed /\ Good /\ Chain /\ Instances /\ fault = "none"
  BY <1>1, InRun
<1>4. Depth \in Nat /\ Len(ctl) = Depth /\ Top = ctl[Depth] /\ Depth \in 1 .. Depth
  BY <1>3, CtlFacts
<1>5. i \in 2 .. Depth /\ i \in 1 .. Depth
  <2>1. i # 1
    BY <1>2, <1>3, ProgramAssumption DEF Chain
  <2> QED
    BY <1>4, <2>1
<1>6. returning = FALSE /\ returning' = FALSE /\ inst \in [Vars -> Instantiations]
  BY <1>1, <1>3 DEF Typed
<1>7. InstancesOf(inst, FALSE) /\ Becomes(Clrs(MachineNow(inst), ctl[i].block))
  BY <1>2, <1>3, <1>6, HereIs DEF Instances
<1>8. Leaves(i, inst, FALSE)
  BY <1>2, <1>4, <1>5, <1>6, <1>7 DEF Leaves
<1>9. Top.phase # "back"
  BY <1>1, <1>3, <1>4 DEF Chain
<1> QED
  BY <1>1, <1>8, <1>9 DEF LeavesSome

(* Leaving blocks keeps the invariant.                                     *)
LEMMA LeavesIInv ==
  ASSUME IInv, Program, Running, Top.phase # "back", LeavesSome
  PROVE  IInv'
<1>1. Typed /\ Good
  BY InRun
<1>2. PICK i, i0, ret : Leaves(i, i0, ret)
  BY DEF LeavesSome
<1>3. Typed' /\ Good'
  BY <1>1, <1>2, LeaveGood
<1>4. fault' = "none"
  BY <1>1, <1>2, LeftFacts DEF Left
<1> QED
  BY <1>3, <1>4 DEF IInv

(* restore finds the array of the function that has been left.             *)
LEMMA RestoreSlotIs ==
  ASSUME Typed, Saved, Top.phase = "back"
  PROVE  /\ RestoreSlot = sp + 1 /\ sp + 1 \in Slots
         /\ stack[sp + 1] = Stored(ReturnVar[Callee[Top.block]])
<1>1. /\ stack[sp + 1] = Stored(ReturnVar[Callee[Top.block]])
      /\ sp + 1 < StackSize
      /\ \A q \in sp + 1 .. StackSize - 1 : stack[q].stored => q = sp + 1
  BY DEF Saved
<1>2. sp \in Int /\ -1 <= sp /\ stack \in [Slots -> Entries]
  BY CtlFacts
<1>3. sp + 1 \in Slots
  BY <1>1, <1>2, SizeAssumption DEF Slots
<1>4. stack[sp + 1].stored
  BY <1>1, EntryFacts
<1>5. StoredAbove(stack, sp) = {sp + 1}
  <2>1. ASSUME NEW q \in sp + 1 .. StackSize - 1, \A r \in sp + 1 .. q : stack[r].stored
        PROVE  q = sp + 1
    <3>1. q \in sp + 1 .. q
      BY <1>2, SizeAssumption
    <3> QED
      BY <1>1, <2>1, <3>1
  <2>2. sp + 1 \in sp + 1 .. StackSize - 1 /\ \A r \in sp + 1 .. sp + 1 : r = sp + 1
    BY <1>2, <1>3, SizeAssumption DEF Slots
  <2> QED
    BY <1>4, <2>1, <2>2 DEF StoredAbove
<1>6. RestoreSlot = CHOOSE q \in {sp + 1} : \A r \in {sp + 1} : r <= q
  BY <1>5 DEF RestoreSlot
<1>7. sp + 1 <= sp + 1
  BY <1>2
<1> QED
  BY <1>1, <1>3, <1>6, <1>7

(* What restore does.                                                      *)
LEMMA RestoreFacts ==
  ASSUME IInv, Program, Restore
  PROVE  /\ Typed /\ Good /\ fault' = "none" /\ Top.phase = "back" /\ ~returning
         /\ Target[Top.block] \in Vars
         /\ RestoreSlot = sp + 1 /\ sp + 1 \in Slots
         /\ stack[sp + 1] = Stored(ReturnVar[Callee[Top.block]])
         /\ stack' = [stack EXCEPT ![sp + 1] = Null]
         /\ inst' = [inst EXCEPT ![Target[Top.block]] = "live"]
         /\ ctl' = [ctl EXCEPT ![Len(ctl)].phase = "done"]
         /\ UNCHANGED <<sp, returning>>
<1> DEFINE t == Target[Top.block]
           v == ReturnVar[Callee[Top.block]]
<1>1. Running /\ Top.phase = "back" /\ UNCHANGED <<sp, returning>>
  BY DEF Restore
<1>2. /\ Typed /\ Good /\ fault = "none" /\ Chain /\ Contents /\ Instances /\ Saved
      /\ TargetsThere /\ NonRecursive /\ OwnArrays /\ ArraysTaken
  BY <1>1, InRun DEF Program
<1>3. Depth \in 1 .. Depth /\ Top = ctl[Depth] /\ Top.block \in Blocks /\ Depth \in Nat
  BY <1>2, CtlFacts
<1>4. Kind[Top.block] = "call" /\ Callee[Top.block] \in Blocks
  BY <1>1, <1>2, <1>3, ProgramAssumption DEF Chain
<1>5. ~returning /\ v # NoVar /\ inst[v] = "stored" /\ v \in Vars
  BY <1>1, <1>2, <1>4, ProgramAssumption DEF Saved
<1>6. /\ RestoreSlot = sp + 1 /\ sp + 1 \in Slots /\ stack[sp + 1] = Stored(v)
  BY <1>1, <1>2, RestoreSlotIs
<1>7. t # NoVar /\ t \in Vars
  BY <1>2, <1>3, <1>4, <1>5, ProgramAssumption DEF ArraysTaken
<1>8. PICK q \in 0 .. Top.base - 1 : stack[q] = Def(t)
  BY <1>2, <1>3, <1>4, <1>7 DEF TargetsThere
<1>9. q \in 0 .. sp
  <2>1. Top.base \in Int /\ Top.base <= sp /\ sp \in Int
    BY <1>2, <1>3, BaseFacts, CtlFacts
  <2> QED
    BY <2>1
<1>10. inst[t] # "none"
  BY <1>2, <1>7, <1>8, <1>9 DEF Instances, InstancesOf
<1>11. t # v
  <2> SUFFICES ASSUME t = v
               PROVE  FALSE
    OBVIOUS
  <2>1. ScopeOf[t] = Callee[Top.block]
    BY <1>2, <1>4, <1>5 DEF OwnArrays
  <2>2. PICK j \in 1 .. Depth :
          \/ j > 1 /\ q = ctl[j].base
          \/ /\ Within(j, q)
             /\ \/ stack[q] = Temp /\ Kind[ctl[j].block] = "call"
                \/ \E w \in Vars : stack[q] = Def(w) /\ ScopeOf[w] = ctl[j].block
    BY <1>2, <1>9 DEF Contents
  <2>3. ~(j > 1 /\ q = ctl[j].base)
    <3>1. j > 1 => j \in 2 .. Depth
      BY <1>3
    <3>2. j > 1 => stack[ctl[j].base] = Marker(ctl[j].block)
      BY <1>2, <3>1 DEF Chain
    <3> QED
      BY <1>8, <3>2, Different
  <2>4. ctl[j].block = Callee[Top.block]
    BY <1>8, <2>1, <2>2, <2>3, Different
  <2>5. Rank[Callee[Top.block]] < Rank[Top.block]
    BY <1>2, <1>3, <1>4, RankFacts DEF Descends
  <2>6. j < Depth => Rank[Top.block] < Rank[ctl[j].block]
    BY <1>2, <1>3 DEF Chain
  <2>7. Rank[Callee[Top.block]] \in Nat /\ Rank[Top.block] \in Nat
    BY <1>2, <1>3, <1>4, RankFacts
  <2> QED
    BY <1>3, <2>4, <2>5, <2>6, <2>7
<1>12. stack[RestoreSlot].kind = "var" /\ stack[RestoreSlot].of = v
  BY <1>6, EntryFacts
<1>13. /\ stack' = [stack EXCEPT ![RestoreSlot] = Null]
       /\ inst' = [inst EXCEPT ![t] = "live"]
       /\ ctl' = [ctl EXCEPT ![Len(ctl)].phase = "done"]
       /\ UNCHANGED fault
  BY <1>5, <1>10, <1>11, <1>12 DEF Restore
<1> QED
  BY <1>1, <1>2, <1>5, <1>6, <1>7, <1>13

(* restore keeps the invariant: the array is taken, and nothing is left    *)
(* above the stack pointer.                                                *)
LEMMA RestoreIInv ==
  ASSUME IInv, Program, Restore
  PROVE  IInv'
<1> DEFINE t == Target[Top.block]
           D == Depth
<1>1. /\ Typed /\ Good /\ fault' = "none" /\ Top.phase = "back" /\ ~returning
      /\ t \in Vars /\ sp + 1 \in Slots
      /\ stack' = [stack EXCEPT ![sp + 1] = Null]
      /\ inst' = [inst EXCEPT ![t] = "live"]
      /\ ctl' = [ctl EXCEPT ![Len(ctl)].phase = "done"]
      /\ UNCHANGED <<sp, returning>>
  BY RestoreFacts
<1>2. Chain /\ Contents /\ Instances /\ Saved /\ TargetsThere
  BY <1>1 DEF Good
<1>3. /\ D \in Nat /\ D > 0 /\ D \in 1 .. D /\ Top = ctl[D] /\ sp \in Int /\ -1 <= sp
      /\ D = Len(ctl) /\ ctl \in Seq(Frames) /\ ctl[D] \in Frames
      /\ stack \in [Slots -> Entries] /\ inst \in [Vars -> Instantiations]
  BY <1>1, CtlFacts DEF Typed
<1>4. /\ ctl' \in Seq(Frames) /\ Depth' = D /\ ctl'[D].phase = "done"
      /\ \A i \in 1 .. D : /\ ctl'[i].block = ctl[i].block /\ ctl'[i].base = ctl[i].base
                           /\ ctl'[i].phase # "back"
      /\ Top' = ctl'[D]
  <2> DEFINE e == [ctl[D] EXCEPT !.phase = "done"]
  <2>1. e \in Frames /\ e.block = ctl[D].block /\ e.base = ctl[D].base /\ e.phase = "done"
    BY <1>3 DEF Frames, Phases
  <2>2. ctl' = [ctl EXCEPT ![D] = e]
    BY <1>1, <1>3
  <2> HIDE DEF e
  <2>3. ctl' \in Seq(Frames) /\ Len(ctl') = D /\ ctl'[D] = e
        /\ \A i \in 1 .. D : i # D => ctl'[i] = ctl[i]
    BY <1>3, <2>1, <2>2
  <2>4. Depth' = D /\ Top' = ctl'[D]
    BY <2>3 DEF Depth, Top
  <2>5. \A i \in 1 .. D : i # D => ctl[i].phase # "back"
    BY <1>2 DEF Chain
  <2> QED
    BY <2>1, <2>3, <2>4, <2>5
<1>5. /\ stack' \in [Slots -> Entries] /\ sp' = sp
      /\ \A q \in 0 .. sp : stack'[q] = stack[q]
  <2>1. \A q \in 0 .. sp : q \in Slots /\ q # sp + 1
    BY <1>1, <1>3, SizeAssumption DEF Slots
  <2> QED
    BY <1>1, <1>3, <2>1, EntryFacts
<1>6. \A q \in sp + 1 .. StackSize - 1 : ~stack'[q].stored
  <2>1. \A q \in sp + 1 .. StackSize - 1 : q \in Slots
    BY <1>3, SizeAssumption DEF Slots
  <2>2. \A q \in sp + 1 .. StackSize - 1 : q # sp + 1 => ~stack[q].stored
    BY <1>2 DEF Saved
  <2> QED
    BY <1>1, <1>3, <2>1, <2>2, Different
<1>7. /\ inst' \in [Vars -> Instantiations]
      /\ \A w \in Vars : inst[w] = "live" => inst'[w] = "live"
  BY <1>1, <1>3 DEF Instantiations
<1>8. \A i \in 1 .. D : /\ ctl[i].base \in Int /\ -1 <= ctl[i].base /\ ctl[i].base <= sp
                        /\ i # 1 => 0 <= ctl[i].base
  BY <1>1, <1>2, BaseFacts
<1> HIDE DEF D
<1>9. Typed'
  BY <1>1, <1>3, <1>4, <1>5, <1>7 DEF Typed
<1>10. Chain'
  <2>1. \A i \in 2 .. D : i \in 1 .. D /\ i - 1 \in 1 .. D /\ ctl[i].base \in 0 .. sp
    BY <1>3, <1>8
  <2>2. ctl'[1].block = MainBlock /\ ctl'[1].base = -1
    BY <1>2, <1>3, <1>4 DEF Chain
  <2>3. ASSUME NEW i \in 2 .. D
        PROVE  /\ ctl'[i].base \in 0 .. sp'
               /\ stack'[ctl'[i].base] = Marker(ctl'[i].block)
               /\ Kind[ctl'[i].block] # "main"
               /\ Kind[ctl'[i].block] = "fun" =>
                    /\ Kind[ctl'[i - 1].block] = "call"
                    /\ Callee[ctl'[i - 1].block] = ctl'[i].block
    <3>1. /\ ctl[i].base \in 0 .. sp
          /\ stack[ctl[i].base] = Marker(ctl[i].block)
          /\ Kind[ctl[i].block] # "main"
          /\ Kind[ctl[i].block] = "fun" =>
               Kind[ctl[i - 1].block] = "call" /\ Callee[ctl[i - 1].block] = ctl[i].block
      BY <1>2 DEF Chain, D
    <3>2. ctl'[i].block = ctl[i].block /\ ctl'[i].base = ctl[i].base
          /\ ctl'[i - 1].block = ctl[i - 1].block
      BY <1>4, <2>1
    <3> QED
      BY <1>5, <3>1, <3>2
  <2>4. \A i, j \in 1 .. D : i < j =>
          ctl'[i].base < ctl'[j].base /\ Rank[ctl'[j].block] < Rank[ctl'[i].block]
    BY <1>2, <1>4 DEF Chain, D
  <2> QED
    BY <1>4, <2>2, <2>3, <2>4 DEF Chain
<1>11. \A i \in 1 .. D : \A q : Within(i, q) => Within(i, q)'
  <2>1. \A i \in 1 .. D : \A j \in i + 1 .. D : j \in 1 .. D
    BY <1>3
  <2> QED
    BY <1>4, <2>1 DEF Within, D
<1>12. Contents'
  <2>1. ASSUME NEW q \in 0 .. sp
        PROVE  \E i \in 1 .. D :
                 \/ i > 1 /\ q = ctl'[i].base
                 \/ /\ Within(i, q)'
                    /\ \/ stack'[q] = Temp /\ Kind[ctl'[i].block] = "call"
                       \/ \E v \in Vars : stack'[q] = Def(v) /\ ScopeOf[v] = ctl'[i].block
    <3>1. PICK i \in 1 .. D :
            \/ i > 1 /\ q = ctl[i].base
            \/ /\ Within(i, q)
               /\ \/ stack[q] = Temp /\ Kind[ctl[i].block] = "call"
                  \/ \E v \in Vars : stack[q] = Def(v) /\ ScopeOf[v] = ctl[i].block
      BY <1>2 DEF Contents, D
    <3>2. /\ ctl'[i].block = ctl[i].block /\ ctl'[i].base = ctl[i].base
          /\ Within(i, q) => Within(i, q)'
          /\ stack'[q] = stack[q]
      BY <1>4, <1>5, <1>11
    <3> QED
      BY <3>1, <3>2
  <2>2. \A q, r \in 0 .. sp : stack'[q].kind = "var" /\ stack'[r] = stack'[q] => q = r
    BY <1>2, <1>5 DEF Contents
  <2> QED
    BY <1>4, <1>5, <2>1, <2>2 DEF Contents
<1>13. Instances'
  <2>1. \A q \in 0 .. sp' : \A w \in Vars : stack'[q] = Def(w) => inst'[w] = "live"
    BY <1>1, <1>2, <1>5, <1>7 DEF Instances, InstancesOf
  <2> QED
    BY <1>1, <2>1 DEF Instances, InstancesOf
<1>14. Saved'
  BY <1>3, <1>4, <1>5, <1>6 DEF Saved
<1>15. TargetsThere'
  <2>1. \A i \in 1 .. D : \A q \in 0 .. ctl[i].base - 1 : q \in 0 .. sp
    BY <1>3, <1>8
  <2> QED
    BY <1>2, <1>4, <1>5, <2>1 DEF TargetsThere, D
<1>16. Good'
  BY <1>10, <1>12, <1>13, <1>14, <1>15 DEF Good
<1> QED
  BY <1>1, <1>9, <1>16 DEF IInv

(* A machine begins in order.                                              *)
LEMMA InitIInv ==
  ASSUME Init
  PROVE  IInv
<1> DEFINE c == [block |-> MainBlock, base |-> -1, phase |-> "run"]
<1>1. /\ stack = [q \in Slots |-> Null] /\ sp = -1 /\ inst = [v \in Vars |-> "none"]
      /\ ctl = <<c>> /\ returning = FALSE /\ fault = "none"
  BY DEF Init
<1>2. c \in Frames /\ c.block = MainBlock /\ c.base = -1 /\ c.phase = "run"
  BY ProgramAssumption DEF Frames, Phases
<1> HIDE DEF c
<1>3. ctl \in Seq(Frames) /\ Depth = 1 /\ ctl[1] = c /\ Top = c /\ Len(ctl) = 1
  BY <1>1, <1>2 DEF Depth, Top
<1>4. 0 .. sp = {} /\ \A i \in 1 .. Depth : i = 1
  BY <1>1, <1>3
<1>5. Typed
  <2>1. sp \in -1 .. StackSize - 1
    BY <1>1, SizeAssumption
  <2>2. stack \in [Slots -> Entries]
    BY <1>1, EntryFacts
  <2>3. inst \in [Vars -> Instantiations]
    BY <1>1 DEF Instantiations
  <2>4. returning \in BOOLEAN
    BY <1>1
  <2>5. Depth > 0
    BY <1>3
  <2> QED
    BY <1>3, <2>1, <2>2, <2>3, <2>4, <2>5 DEF Typed
<1>6. Chain
  <2>1. 2 .. Depth = {} /\ \A i, j \in 1 .. Depth : ~(i < j)
    BY <1>3
  <2> QED
    BY <1>2, <1>3, <1>4, <2>1 DEF Chain
<1>7. Contents
  BY <1>4 DEF Contents
<1>8. Instances
  BY <1>1, <1>4 DEF Instances, InstancesOf
<1>9. Saved
  <2>1. \A q \in sp + 1 .. StackSize - 1 : q \in Slots
    BY <1>1, SizeAssumption DEF Slots
  <2> QED
    BY <1>1, <1>2, <1>3, <2>1, Different DEF Saved
<1>10. TargetsThere
  BY <1>2, <1>3, <1>4, ProgramAssumption DEF TargetsThere
<1> QED
  BY <1>1, <1>5, <1>6, <1>7, <1>8, <1>9, <1>10 DEF IInv, Good

(* Steps of nothing keep the invariant.                                    *)
LEMMA StutterIInv ==
  ASSUME IInv, UNCHANGED vars
  PROVE  IInv'
<1>1. /\ stack' = stack /\ sp' = sp /\ inst' = inst /\ ctl' = ctl
      /\ returning' = returning /\ fault' = fault
  BY DEF vars
<1>2. Depth' = Depth /\ Top' = Top
  BY <1>1 DEF Depth, Top
<1>3. \A i, q : Within(i, q)' = Within(i, q)
  BY <1>1, <1>2 DEF Within
<1>4. \A k : LastFun(k)' = LastFun(k)
  BY <1>1, <1>2 DEF LastFun
<1>5. Typed' = Typed
  BY <1>1, <1>2 DEF Typed
<1>6. Chain' = Chain
  BY <1>1, <1>2 DEF Chain
<1>7. Contents' = Contents
  BY <1>1, <1>2, <1>3 DEF Contents
<1>8. Instances' = Instances
  BY <1>1, <1>2, <1>4 DEF Instances, InstancesOf
<1>9. Saved' = Saved
  BY <1>1, <1>2 DEF Saved
<1>10. TargetsThere' = TargetsThere
  BY <1>1, <1>2 DEF TargetsThere
<1> QED
  BY <1>1, <1>5, <1>6, <1>7, <1>8, <1>9, <1>10 DEF IInv, Good

(* Every step keeps the invariant.                                         *)
LEMMA NextIInv ==
  ASSUME Program, IInv, [Next]_vars
  PROVE  IInv'
<1>1. CASE \E b \in Blocks : Marks(b)
  BY <1>1, MarksEnters, EntersIInv
<1>2. CASE PushArg
  BY <1>2, PushArgIInv
<1>3. CASE Call
  BY <1>3, CallEnters, EntersIInv
<1>4. CASE \E v \in Vars : Define(v)
  BY <1>4, DefineIInv
<1>5. CASE Close
  BY <1>5, CloseLeaves, LeavesIInv
<1>6. CASE ReturnAtEnd
  BY <1>6, ReturnAtEndLeaves, LeavesIInv
<1>7. CASE ReturnNested
  BY <1>7, ReturnNestedLeaves, LeavesIInv
<1>8. CASE Unwind
  BY <1>8, UnwindLeaves, LeavesIInv
<1>9. CASE Break
  BY <1>9, BreakLeaves, LeavesIInv
<1>10. CASE Restore
  BY <1>10, RestoreIInv
<1>11. CASE UNCHANGED vars
  BY <1>11, StutterIInv
<1> QED
  BY <1>1, <1>2, <1>3, <1>4, <1>5, <1>6, <1>7, <1>8, <1>9, <1>10, <1>11 DEF Next

(* The invariant holds of every program in Program, whatever its blocks    *)
(* and the size of its stack: there is no null instantiation (clrs.c:58),  *)
(* no stack underflow (clrs.c:22), no array that store or restore does not *)
(* find; only the stack may be too small.                                  *)
THEOREM Invariance ==
  ASSUME Program
  PROVE  Spec => []IInv
<1>1. Init => IInv
  BY InitIInv
<1>2. IInv /\ [Next]_vars => IInv'
  BY NextIInv
<1> QED
  BY <1>1, <1>2, PTL DEF Spec

-----------------------------------------------------------------------------

(* A variable defined in a block that is open has its instantiation        *)
(* (clrs.c:39, clrs.c:58).                                                 *)
THEOREM DefinedAreThere ==
  ASSUME Program
  PROVE  Spec => []DefinedHasInstantiation
<1>1. IInv => DefinedHasInstantiation
  <2> SUFFICES ASSUME IInv, fault = "none", NEW v \in Vars, NEW q \in DefsOf(v)
               PROVE  inst[v] # "none"
    BY DEF DefinedHasInstantiation
  <2>1. Typed /\ Chain /\ Contents /\ Instances
    BY DEF IInv, Good
  <2>2. q \in 0 .. sp /\ stack[q].kind = "var" /\ stack[q].of = v
    BY DEF DefsOf
  <2>3. stack[q] = Def(v)
    BY <2>1, <2>2, DefIs
  <2> QED
    BY <2>1, <2>2, <2>3 DEF Instances, InstancesOf
<1> QED
  BY Invariance, <1>1, PTL

(* When a function that returns an array has been left, restore finds it,  *)
(* and no other (stack.h:90-94, restore.c).                                *)
THEOREM ArraysReturned ==
  ASSUME Program
  PROVE  Spec => []ReturnedArrayFound
<1>1. IInv => ReturnedArrayFound
  <2> SUFFICES ASSUME IInv, Top.phase = "back", fault = "none"
               PROVE  /\ stack[RestoreSlot].kind = "var"
                      /\ stack[RestoreSlot].of = ReturnVar[Callee[Top.block]]
                      /\ inst[stack[RestoreSlot].of] = "stored"
    BY DEF ReturnedArrayFound
  <2>1. Typed /\ Saved
    BY DEF IInv, Good
  <2>2. /\ RestoreSlot = sp + 1
        /\ stack[sp + 1] = Stored(ReturnVar[Callee[Top.block]])
    BY <2>1, RestoreSlotIs
  <2>3. inst[ReturnVar[Callee[Top.block]]] = "stored"
    BY <2>1 DEF Saved
  <2> QED
    BY <2>2, <2>3, EntryFacts
<1> QED
  BY Invariance, <1>1, PTL

(* A step either leaves blocks as Leaves says, or leaves none.             *)
LEMMA StepLeaves ==
  ASSUME Program, IInv, [Next]_vars
  PROVE  \/ LeavesSome /\ Top.phase # "back" /\ Running
         \/ Len(ctl') >= Len(ctl)
<1>0. Typed /\ ctl \in Seq(Frames) /\ Len(ctl) = Depth /\ Depth \in Nat
  BY CtlFacts DEF IInv, Typed
<1>1. ASSUME NEW b, Enters(b)
      PROVE  Len(ctl') >= Len(ctl)
  <2>1. Depth' = Depth + 1
    BY <1>0, <1>1, OpenFacts DEF Enters
  <2> QED
    BY <1>0, <2>1 DEF Depth
<1>2. ASSUME UNCHANGED ctl
      PROVE  Len(ctl') >= Len(ctl)
  BY <1>0, <1>2
<1>3. CASE Call \/ \E b \in Blocks : Marks(b)
  BY <1>1, <1>3, CallEnters, MarksEnters
<1>4. CASE Close \/ ReturnAtEnd \/ ReturnNested \/ Unwind \/ Break
  BY <1>4, CloseLeaves, ReturnAtEndLeaves, ReturnNestedLeaves, UnwindLeaves, BreakLeaves
<1>5. CASE Restore
  <2>1. ctl' = [ctl EXCEPT ![Len(ctl)].phase = "done"]
    BY <1>5, RestoreFacts
  <2>2. Len(ctl') = Len(ctl)
    BY <1>0, <2>1
  <2> QED
    BY <1>0, <2>2
<1>6. CASE PushArg \/ (\E v \in Vars : Define(v)) \/ UNCHANGED vars
  <2>1. UNCHANGED ctl
    BY <1>6 DEF PushArg, Define, vars
  <2> QED
    BY <1>2, <2>1
<1> QED
  BY <1>3, <1>4, <1>5, <1>6 DEF Next

(* Leaving blocks, at their end, by break or by return, takes the stack    *)
(* pointer back to where the outermost of them was entered (clrs.c).       *)
THEOREM RollbacksAreExact ==
  ASSUME Program
  PROVE  Spec => RollbackIsExact
<1> DEFINE A == Len(ctl') < Len(ctl) /\ fault' = "none" =>
                  sp' = ctl[Len(ctl') + 1].base - 1
<1>1. IInv /\ [Next]_vars => A
  <2> SUFFICES ASSUME IInv, [Next]_vars, Len(ctl') < Len(ctl)
               PROVE  sp' = ctl[Len(ctl') + 1].base - 1
    OBVIOUS
  <2>0. Typed /\ Len(ctl) \in Nat
    BY CtlFacts DEF IInv
  <2>1. \/ LeavesSome /\ Top.phase # "back" /\ Running
        \/ Len(ctl') >= Len(ctl)
    BY StepLeaves
  <2>2. CASE LeavesSome /\ Top.phase # "back" /\ Running
    <3>1. Good
      BY <2>2, InRun
    <3>2. PICK i, i0, ret : Leaves(i, i0, ret)
      BY <2>2 DEF LeavesSome
    <3>3. sp' = ctl[i].base - 1
      BY <2>0, <2>2, <3>1, <3>2, LeftFacts DEF Left
    <3>4. i \in 2 .. Depth /\ ctl[i].block \in Blocks /\ ctl' = LeftTo(i - 1, ctl[i].block)
          /\ i \in Int
      BY <2>0, <3>2, LeavesFacts DEF Leaves
    <3>5. Depth' = i - 1
      BY <2>0, <3>4, LeftTo1
    <3>6. Len(ctl') + 1 = i
      BY <3>4, <3>5 DEF Depth
    <3> QED
      BY <3>3, <3>6
  <2>3. CASE Len(ctl') >= Len(ctl)
    <3>1. Len(ctl') \in Nat
      <4>1. IInv'
        BY NextIInv
      <4> QED
        BY <4>1 DEF IInv, Typed
    <3> QED
      BY <2>0, <2>3, <3>1
  <2> QED
    BY <2>1, <2>2, <2>3
<1>2. IInv /\ [Next]_vars => [A]_vars
  BY <1>1
<1> QED
  BY Invariance, <1>2, PTL DEF Spec, RollbackIsExact

-----------------------------------------------------------------------------
(* Lexical scoping.                                                        *)

(* The last slot of the segment of block i.                                *)
Last(i) == IF i = Len(ctl) THEN sp ELSE ctl[i + 1].base - 1

(* What block i has declared.                                              *)
LEMMA DeclaredIs ==
  ASSUME NEW i
  PROVE  Declared(i) = {v \in Vars : \E q \in ctl[i].base + 1 .. Last(i) : q \in DefsOf(v)}
BY DEF Declared, Last

(* The slots of a segment.                                                 *)
LEMMA LastFacts ==
  ASSUME Typed, Chain, NEW i \in 1 .. Depth
  PROVE  /\ Last(i) \in Int /\ Last(i) <= sp /\ -1 <= ctl[i].base /\ ctl[i].base \in Int
         /\ \A q \in 0 .. sp : Within(i, q) => q \in ctl[i].base + 1 .. Last(i)
<1>1. /\ Depth \in Nat /\ Depth = Len(ctl) /\ sp \in Int
      /\ ctl[i].base \in Int /\ -1 <= ctl[i].base
  BY BaseFacts, CtlFacts
<1>2. CASE i = Depth
  <2>1. Last(i) = sp
    BY <1>1, <1>2 DEF Last
  <2> QED
    BY <1>1, <2>1 DEF Within
<1>3. CASE i # Depth
  <2>1. i + 1 \in 1 .. Depth /\ i + 1 \in i + 1 .. Depth
    BY <1>1, <1>3
  <2>2. ctl[i + 1].base \in Int /\ ctl[i + 1].base <= sp
    BY <2>1, BaseFacts
  <2>3. Last(i) = ctl[i + 1].base - 1
    BY <1>1, <1>3 DEF Last
  <2>4. \A q \in 0 .. sp : Within(i, q) => ctl[i].base < q /\ q < ctl[i + 1].base
    BY <2>1 DEF Within
  <2>5. \A q \in 0 .. sp : Within(i, q) => q \in ctl[i].base + 1 .. Last(i)
    <3> SUFFICES ASSUME NEW q \in 0 .. sp, Within(i, q)
                 PROVE  q \in ctl[i].base + 1 .. Last(i)
      OBVIOUS
    <3>1. ctl[i].base < q /\ q < ctl[i + 1].base
      BY <2>4
    <3> QED
      BY <1>1, <2>2, <2>3, <3>1
  <2>6. Last(i) \in Int /\ Last(i) <= sp
    BY <1>1, <2>2, <2>3
  <2> QED
    BY <1>1, <2>5, <2>6
<1> QED
  BY <1>2, <1>3

(* A segment whose bounds and entries stay keeps what it declares.         *)
LEMMA DeclaredSame ==
  ASSUME Typed, Chain, NEW i \in 1 .. Depth, ctl'[i].base = ctl[i].base,
         Last(i)' = Last(i), sp' \in Int, Last(i) <= sp',
         \A q \in 0 .. Last(i) : stack'[q] = stack[q]
  PROVE  Declared(i)' = Declared(i)
<1>1. /\ Last(i) \in Int /\ Last(i) <= sp /\ -1 <= ctl[i].base /\ ctl[i].base \in Int
      /\ sp \in Int
  BY LastFacts, CtlFacts
<1>2. ASSUME NEW v \in Vars, NEW q \in ctl[i].base + 1 .. Last(i)
      PROVE  q \in DefsOf(v) <=> q \in DefsOf(v)'
  <2>1. q \in 0 .. Last(i) /\ q \in 0 .. sp /\ q \in 0 .. sp'
    BY <1>1
  <2>2. stack'[q] = stack[q]
    BY <2>1
  <2> QED
    BY <2>1, <2>2 DEF DefsOf
<1>3. Declared(i)' = {v \in Vars : \E q \in ctl'[i].base + 1 .. Last(i)' : q \in DefsOf(v)'}
  BY DEF Declared, Last
<1>4. Declared(i) = {v \in Vars : \E q \in ctl[i].base + 1 .. Last(i) : q \in DefsOf(v)}
  BY DeclaredIs
<1> QED
  BY <1>2, <1>3, <1>4

(* What the blocks and the array on its way are in the abstract machine.   *)
Scope(i) == [block |-> ctl[i].block, declares |-> Declared(i)]
Open == [i \in 1 .. Len(ctl) |-> Scope(i)]
Returned == IF Top.phase = "back" THEN stack[RestoreSlot].of ELSE NoVar

(* What the abstract machine records about its blocks.                     *)
ScopeRecords == [block : Blocks, declares : SUBSET Vars]

(* The abstract blocks as a sequence.                                      *)
OpenFine ==
  /\ Open \in Seq(ScopeRecords) /\ Len(Open) = Depth
  /\ \A i \in 1 .. Depth : /\ Open[i] = Scope(i) /\ Scope(i).block = ctl[i].block
                           /\ Scope(i).declares = Declared(i)

(* They are one as long as the types are right.                            *)
LEMMA OpenIs == Typed => OpenFine
<1> SUFFICES ASSUME Typed
             PROVE  OpenFine
  OBVIOUS
<1>1. Depth = Len(ctl) /\ Depth \in Nat /\ \A i \in 1 .. Depth : ctl[i].block \in Blocks
  BY CtlFacts
<1>2. \A i \in 1 .. Depth : Declared(i) \in SUBSET Vars
  BY DeclaredIs
<1>3. \A i \in 1 .. Depth : Scope(i) \in ScopeRecords
  BY <1>1, <1>2 DEF Scope, ScopeRecords
<1>4. Open = [i \in 1 .. Depth |-> Scope(i)]
  BY <1>1 DEF Open
<1> QED
  BY <1>1, <1>3, <1>4 DEF Scope, OpenFine

(* The same in the state after a step.                                     *)
LEMMA OpenIsNext == Typed' => OpenFine'
BY OpenIs, PTL

(* Sequences with the same elements are the same.                          *)
LEMMA SameSequence ==
  ASSUME NEW S, NEW s \in Seq(S), NEW t \in Seq(S), Len(s) = Len(t),
         \A i \in 1 .. Len(s) : s[i] = t[i]
  PROVE  s = t
OBVIOUS

(* Entering a block is Enter.                                              *)
LEMMA EntersScope ==
  ASSUME IInv, Program, NEW b, Enters(b)
  PROVE  Scopes!Enter(b)
<1> DEFINE x == [block |-> b, declares |-> {}]
<1>1. /\ Running /\ Top.phase = "run" /\ b \in Blocks /\ Put(Marker(b))
  BY DEF Enters
<1>2. Typed /\ Chain /\ Good /\ fault = "none"
  BY <1>1, InRun
<1>0. PICK D : D = Depth
  OBVIOUS
<1>3. PICK c : Opens(b, c)
  BY DEF Enters
<1>4. /\ ctl' \in Seq(Frames) /\ Depth' = D + 1
      /\ \A i \in 1 .. D : /\ ctl'[i].block = ctl[i].block /\ ctl'[i].base = ctl[i].base
      /\ ctl'[D + 1].block = b /\ ctl'[D + 1].base = sp + 1 /\ ctl'[D + 1].phase = "run"
      /\ \A i \in 1 .. Depth' : i = D + 1 \/ i \in 1 .. D
      /\ Top' = ctl'[D + 1]
  BY <1>0, <1>2, <1>3, OpenFacts
<1>5. /\ D \in Nat /\ D > 0 /\ D = Len(ctl) /\ Depth' = D + 1 /\ Depth' = Len(ctl')
      /\ sp \in Int /\ -1 <= sp
  BY <1>0, <1>2, <1>4, CtlFacts DEF Depth
<1>6. /\ sp' \in Int /\ sp <= sp' /\ sp' <= sp + 1 /\ \A q \in 0 .. sp : stack'[q] = stack[q]
  <2>1. Marker(b) \in Entries
    BY <1>1, EntryFacts
  <2>2. \/ Pushed(Marker(b)) \/ UNCHANGED <<stack, sp>>
    BY <1>1, <1>2, <2>1, PutCases
  <2> QED
    BY <1>2, <1>5, <2>2, PushedFacts
<1>7. Typed'
  BY EntersIInv DEF IInv
<1>8. ASSUME NEW i \in 1 .. D
      PROVE  Scope(i)' = Scope(i)
  <2>1. Last(i)' = Last(i)
    <3>1. CASE i = D
      <4>1. Last(i) = sp /\ Last(i)' = ctl'[i + 1].base - 1
        BY <1>4, <1>5, <3>1 DEF Last
      <4> QED
        BY <1>4, <1>5, <3>1, <4>1
    <3>2. CASE i # D
      <4>1. i + 1 \in 1 .. D /\ i # Len(ctl')
        BY <1>4, <1>5, <3>2
      <4> QED
        BY <1>4, <1>5, <3>2, <4>1 DEF Last
    <3> QED
      BY <3>1, <3>2
  <2>2. Last(i) \in Int /\ Last(i) <= sp
    BY <1>0, <1>2, LastFacts
  <2>3. \A q \in 0 .. Last(i) : stack'[q] = stack[q]
    BY <1>5, <1>6, <2>2
  <2>4. Last(i) <= sp'
    BY <1>5, <1>6, <2>2
  <2>5. Declared(i)' = Declared(i)
    BY <1>0, <1>2, <1>4, <1>6, <2>1, <2>3, <2>4, DeclaredSame
  <2> QED
    BY <1>4, <2>5 DEF Scope
<1>9. Scope(D + 1)' = x
  <2>1. Last(D + 1)' = sp'
    BY <1>4, <1>5 DEF Last
  <2>2. Declared(D + 1)' =
          {v \in Vars : \E q \in ctl'[D + 1].base + 1 .. Last(D + 1)' : q \in DefsOf(v)'}
    BY DEF Declared, Last
  <2>3. ctl'[D + 1].base + 1 .. Last(D + 1)' = {}
    BY <1>4, <1>5, <1>6, <2>1
  <2>4. Declared(D + 1)' = {}
    BY <2>2, <2>3
  <2> QED
    BY <1>4, <2>4 DEF Scope
<1> HIDE DEF x
<1>10. /\ Open \in Seq(ScopeRecords) /\ Len(Open) = D
       /\ \A i \in 1 .. D : Open[i] = Scope(i)
  BY <1>0, <1>2, OpenIs DEF OpenFine
<1>11. /\ Open' \in Seq(ScopeRecords) /\ Len(Open') = D + 1
       /\ \A i \in 1 .. D + 1 : Open'[i] = Scope(i)'
  BY <1>4, <1>7, OpenIsNext DEF OpenFine
<1>12. x \in ScopeRecords
  BY <1>1 DEF x, ScopeRecords
<1>13. Open' = Append(Open, x)
  <2> DEFINE a == Append(Open, x)
  <2>1. /\ a \in Seq(ScopeRecords) /\ Len(a) = D + 1 /\ a[D + 1] = x
        /\ \A i \in 1 .. D : a[i] = Open[i]
    BY <1>5, <1>10, <1>12
  <2>2. \A i \in 1 .. D + 1 : i \in 1 .. D \/ i = D + 1
    BY <1>5
  <2> HIDE DEF a
  <2>3. \A i \in 1 .. D + 1 : Open'[i] = a[i]
    BY <1>8, <1>9, <1>10, <1>11, <2>1, <2>2
  <2>4. Open' = a
    BY <1>11, <2>1, <2>3, SameSequence
  <2> QED
    BY <2>4 DEF a
<1>14. Returned = NoVar /\ Returned' = NoVar
  BY <1>1, <1>4 DEF Returned
<1> QED
  BY <1>13, <1>14 DEF Scopes!Enter, Scopes!Opened, Open, Scope, Returned, x

(* What stays the same when no block is entered or left and the stack      *)
(* keeps what it has: the scopes of the blocks i for which Last stays.     *)
LEMMA ScopesStay ==
  ASSUME Typed, Chain, Typed', Depth' = Depth, sp <= sp',
         \A i \in 1 .. Depth : ctl'[i].block = ctl[i].block /\ ctl'[i].base = ctl[i].base,
         \A q \in 0 .. sp : stack'[q] = stack[q]
  PROVE  \A i \in 1 .. Depth : i # Depth \/ sp' = sp => Scope(i)' = Scope(i)
<1>0. PICK D : D = Depth
  OBVIOUS
<1>1. /\ D \in Nat /\ D = Len(ctl) /\ D = Len(ctl') /\ sp \in Int /\ sp' \in Int /\ -1 <= sp
  BY <1>0, CtlFacts, SizeAssumption DEF Depth, Typed
<1>2. ASSUME NEW i \in 1 .. D, i # D \/ sp' = sp
      PROVE  Scope(i)' = Scope(i)
  <2>1. Last(i)' = Last(i)
    <3>1. CASE i = D
      BY <1>1, <1>2, <3>1 DEF Last
    <3>2. CASE i # D
      <4>1. i + 1 \in 1 .. D
        BY <1>1, <3>2
      <4> QED
        BY <1>0, <1>1, <3>2, <4>1 DEF Last
    <3> QED
      BY <3>1, <3>2
  <2>2. Last(i) \in Int /\ Last(i) <= sp
    BY <1>0, LastFacts
  <2>3. \A q \in 0 .. Last(i) : stack'[q] = stack[q]
    BY <1>1, <2>2
  <2>4. Last(i) <= sp'
    BY <1>1, <2>2
  <2>5. Declared(i)' = Declared(i)
    BY <1>0, <1>1, <2>1, <2>3, <2>4, DeclaredSame
  <2> QED
    BY <1>0, <2>5 DEF Scope
<1> QED
  BY <1>0, <1>2

(* The abstract blocks stay when the scopes do.                            *)
LEMMA OpenStays ==
  ASSUME Typed, Typed', Depth' = Depth, \A i \in 1 .. Depth : Scope(i)' = Scope(i)
  PROVE  Open' = Open
<1>0. PICK D : D = Depth
  OBVIOUS
<1>1. Open \in Seq(ScopeRecords) /\ Len(Open) = D /\ \A i \in 1 .. D : Open[i] = Scope(i)
  BY <1>0, OpenIs DEF OpenFine
<1>2. Open' \in Seq(ScopeRecords) /\ Len(Open') = D /\ \A i \in 1 .. D : Open'[i] = Scope(i)'
  BY <1>0, OpenIsNext DEF OpenFine
<1> QED
  BY <1>0, <1>1, <1>2, SameSequence

(* An argument is nothing to the scopes.                                   *)
LEMMA PushArgScope ==
  ASSUME IInv, Program, PushArg
  PROVE  UNCHANGED <<Open, Returned>>
<1>0. PICK D : D = Depth
  OBVIOUS
<1>1. /\ Running /\ Top.phase = "run" /\ Put(Temp) /\ UNCHANGED ctl
  BY DEF PushArg, AtCode
<1>2. Typed /\ Chain /\ fault = "none" /\ Typed'
  BY <1>1, InRun, PushArgIInv DEF IInv
<1>3. Depth' = D /\ Top' = Top
  BY <1>0, <1>1 DEF Depth, Top
<1>4. D \in Nat /\ D > 0 /\ D \in 1 .. D /\ D = Len(ctl) /\ sp \in Int /\ -1 <= sp
  BY <1>0, <1>2, CtlFacts
<1>5. CASE Pushed(Temp)
  <2>1. /\ sp' = sp + 1 /\ stack'[sp + 1] = Temp
        /\ \A q \in 0 .. sp : stack'[q] = stack[q]
        /\ \A q \in 0 .. sp' : q = sp + 1 \/ q \in 0 .. sp
    BY <1>2, <1>5, PushedFacts
  <2>2. \A i \in 1 .. D : i # D => Scope(i)' = Scope(i)
    BY <1>0, <1>1, <1>2, <1>3, <1>4, <2>1, ScopesStay
  <2>3. Scope(D)' = Scope(D)
    <3>1. ASSUME NEW v \in Vars, NEW q \in 0 .. sp'
          PROVE  q \in DefsOf(v)' <=> q \in DefsOf(v)
      <4>1. CASE q = sp + 1
        <5>1. stack'[q].kind # "var"
          BY <2>1, <4>1, Different
        <5>2. q \notin 0 .. sp
          BY <1>4, <4>1
        <5> QED
          BY <5>1, <5>2 DEF DefsOf
      <4>2. CASE q \in 0 .. sp
        BY <2>1, <4>2 DEF DefsOf
      <4> QED
        BY <2>1, <4>1, <4>2
    <3>2. ctl[D].base \in Int /\ -1 <= ctl[D].base
      BY <1>0, <1>2, <1>4, BaseFacts
    <3>3. Declared(D) = {v \in Vars : \E q \in ctl[D].base + 1 .. sp : q \in DefsOf(v)}
      BY <1>4 DEF Declared
    <3>4. Declared(D)' = {v \in Vars : \E q \in ctl[D].base + 1 .. sp + 1 : q \in DefsOf(v)'}
      BY <1>1, <1>4, <2>1 DEF Declared
    <3>5. \A v \in Vars : DefsOf(v) \subseteq 0 .. sp
      BY DEF DefsOf
    <3>6. \A q \in ctl[D].base + 1 .. sp + 1 : q \in 0 .. sp'
      BY <1>4, <2>1, <3>2
    <3>7. \A q \in ctl[D].base + 1 .. sp + 1 : q \in 0 .. sp => q \in ctl[D].base + 1 .. sp
      BY <1>4, <3>2
    <3>8. \A q \in ctl[D].base + 1 .. sp : q \in ctl[D].base + 1 .. sp + 1
      BY <1>4, <3>2
    <3>9. Declared(D)' = Declared(D)
      BY <3>1, <3>3, <3>4, <3>5, <3>6, <3>7, <3>8
    <3> QED
      BY <1>1, <3>9 DEF Scope
  <2>4. \A i \in 1 .. D : Scope(i)' = Scope(i)
    BY <2>2, <2>3
  <2>5. Open' = Open
    BY <1>0, <1>2, <1>3, <2>4, OpenStays
  <2> QED
    BY <1>1, <1>3, <2>5 DEF Returned
<1>6. CASE UNCHANGED <<stack, sp>>
  BY <1>1, <1>3, <1>6 DEF Open, Scope, Declared, DefsOf, Returned
<1> QED
  BY <1>1, <1>2, <1>5, <1>6, PutCases, EntryFacts

(* A variable that its block has not defined is not defined in the stack.  *)
LEMMA NotDefined ==
  ASSUME Typed, Chain, Contents, NonRecursive, NEW v \in Vars, ScopeOf[v] = Top.block,
         \A q \in Top.base + 1 .. sp : stack[q] # Def(v)
  PROVE  \A q \in 0 .. sp : stack[q] # Def(v)
<1> SUFFICES ASSUME NEW q \in 0 .. sp, stack[q] = Def(v)
             PROVE  FALSE
  OBVIOUS
<1>1. Depth \in 1 .. Depth /\ Top = ctl[Depth] /\ sp \in Int
      /\ Top.base \in Int /\ -1 <= Top.base
  BY BaseFacts, CtlFacts
<1>2. Within(Depth, q)
  BY <1>1, DefSegment
<1>3. q \in Top.base + 1 .. sp
  BY <1>1, <1>2 DEF Within
<1> QED
  BY <1>3

(* A definition is Declare. When it overruns the stack, nothing is         *)
(* declared.                                                               *)
LEMMA DefineScope ==
  ASSUME IInv, Program, NEW v \in Vars, Define(v)
  PROVE  Scopes!Declare(v) \/ UNCHANGED <<Open, Returned>>
<1>0. PICK D : D = Depth
  OBVIOUS
<1>1. /\ Running /\ Top.phase = "run" /\ Put(Def(v)) /\ UNCHANGED ctl
      /\ ScopeOf[v] = Top.block /\ \A q \in Top.base + 1 .. sp : stack[q] # Def(v)
  BY DEF Define, AtCode
<1>2. Typed /\ Chain /\ Contents /\ NonRecursive /\ fault = "none" /\ Typed'
  BY <1>1, InRun, DefineIInv DEF IInv, Program
<1>3. Depth' = D /\ Top' = Top
  BY <1>0, <1>1 DEF Depth, Top
<1>4. D \in Nat /\ D > 0 /\ D \in 1 .. D /\ D = Len(ctl) /\ sp \in Int /\ -1 <= sp
  BY <1>0, <1>2, CtlFacts
<1>5. CASE Pushed(Def(v))
  <2>1. /\ sp' = sp + 1 /\ stack'[sp + 1] = Def(v)
        /\ \A q \in 0 .. sp : stack'[q] = stack[q]
        /\ \A q \in 0 .. sp' : q = sp + 1 \/ q \in 0 .. sp
    BY <1>2, <1>5, PushedFacts
  <2>2. \A i \in 1 .. D : i # D => Scope(i)' = Scope(i)
    BY <1>0, <1>1, <1>2, <1>3, <1>4, <2>1, ScopesStay
  <2>3. Declared(D)' = Declared(D) \cup {v}
    <3>1. ASSUME NEW w \in Vars, NEW q \in 0 .. sp'
          PROVE  q \in DefsOf(w)' <=> q \in DefsOf(w) \/ (w = v /\ q = sp + 1)
      <4>1. CASE q = sp + 1
        <5>1. q \in DefsOf(w)' <=> w = v
          <6>1. stack'[q].kind = "var" /\ stack'[q].of = v
            BY <2>1, <4>1, Different
          <6> QED
            BY <6>1 DEF DefsOf
        <5>2. q \notin DefsOf(w)
          BY <1>4, <4>1 DEF DefsOf
        <5> QED
          BY <4>1, <5>1, <5>2
      <4>2. CASE q \in 0 .. sp
        <5>1. q # sp + 1
          BY <1>4, <4>2
        <5> QED
          BY <2>1, <4>2, <5>1 DEF DefsOf
      <4> QED
        BY <2>1, <4>1, <4>2
    <3>2. ctl[D].base \in Int /\ -1 <= ctl[D].base /\ ctl[D].base <= sp
      BY <1>0, <1>2, <1>4, BaseFacts
    <3>3. Declared(D) = {w \in Vars : \E q \in ctl[D].base + 1 .. sp : q \in DefsOf(w)}
      BY <1>4 DEF Declared
    <3>4. Declared(D)' = {w \in Vars : \E q \in ctl[D].base + 1 .. sp + 1 : q \in DefsOf(w)'}
      BY <1>1, <1>4, <2>1 DEF Declared
    <3>5. \A w \in Vars : DefsOf(w) \subseteq 0 .. sp
      BY DEF DefsOf
    <3>6. \A q \in ctl[D].base + 1 .. sp + 1 : q \in 0 .. sp'
      BY <1>4, <2>1, <3>2
    <3>7. \A q \in ctl[D].base + 1 .. sp + 1 : q \in 0 .. sp => q \in ctl[D].base + 1 .. sp
      BY <1>4, <3>2
    <3>8. \A q \in ctl[D].base + 1 .. sp : q \in ctl[D].base + 1 .. sp + 1
      BY <1>4, <3>2
    <3>9. sp + 1 \in ctl[D].base + 1 .. sp + 1
      BY <1>4, <3>2
    <3> QED
      BY <3>1, <3>3, <3>4, <3>5, <3>6, <3>7, <3>8, <3>9
  <2>4. /\ Open \in Seq(ScopeRecords) /\ Len(Open) = D
        /\ \A i \in 1 .. D : Open[i] = Scope(i) /\ Open[i].declares = Declared(i)
        /\ Open' \in Seq(ScopeRecords) /\ Len(Open') = D
        /\ \A i \in 1 .. D : Open'[i] = Scope(i)'
    BY <1>0, <1>2, <1>3, OpenIs, OpenIsNext DEF OpenFine
  <2>5. \A i \in 1 .. D : v \notin Open[i].declares
    <3>1. \A q \in 0 .. sp : ~(stack[q].kind = "var" /\ stack[q].of = v)
      BY <1>1, <1>2, NotDefined, DefIs
    <3> QED
      BY <2>4, <3>1, DeclaredIs DEF DefsOf
  <2>6. Open' = [Open EXCEPT ![Len(Open)].declares = @ \cup {v}]
    <3> DEFINE x == [Open[D] EXCEPT !.declares = @ \cup {v}]
               t == [Open EXCEPT ![D] = x]
    <3>1. Open[D] = [block |-> ctl[D].block, declares |-> Declared(D)]
      BY <1>4, <2>4 DEF Scope
    <3>2. x = [block |-> ctl[D].block, declares |-> Declared(D) \cup {v}]
      BY <3>1
    <3>3. Scope(D)' = x
      BY <1>1, <2>3, <3>2 DEF Scope
    <3>4. Open'[D] = x
      BY <1>4, <2>4, <3>3
    <3>5. x \in ScopeRecords
      BY <1>4, <2>4, <3>4
    <3> HIDE DEF x
    <3>6. t \in Seq(ScopeRecords) /\ Len(t) = D /\ t[D] = x
          /\ \A i \in 1 .. D : i # D => t[i] = Open[i]
      BY <1>4, <2>4, <3>5
    <3> HIDE DEF t
    <3>7. \A i \in 1 .. D : Open'[i] = t[i]
      BY <2>2, <2>4, <3>4, <3>6
    <3>8. Open' = t
      BY <2>4, <3>6, <3>7, SameSequence
    <3> QED
      BY <2>4, <3>8 DEF t, x
  <2>7. UNCHANGED Returned
    BY <1>1, <1>3 DEF Returned
  <2>8. \A i \in 1 .. Len(Open) : v \notin Open[i].declares
    BY <2>4, <2>5
  <2> QED
    BY <2>6, <2>7, <2>8 DEF Scopes!Declare, Open, Scope, Returned
<1>6. CASE UNCHANGED <<stack, sp>>
  BY <1>1, <1>3, <1>6 DEF Open, Scope, Declared, DefsOf, Returned
<1> QED
  BY <1>1, <1>2, <1>5, <1>6, PutCases, EntryFacts

(* The array on its way is the one of the function that was called.        *)
ReturnedFine ==
  Returned = IF Top.phase = "back" THEN ReturnVar[Callee[Top.block]] ELSE NoVar

(* It is what restore will pick (RestoreSlotIs).                           *)
LEMMA ReturnedIs == Typed /\ Saved => ReturnedFine
<1> SUFFICES ASSUME Typed, Saved
             PROVE  ReturnedFine
  OBVIOUS
<1>1. CASE Top.phase = "back"
  <2>1. stack[RestoreSlot] = Stored(ReturnVar[Callee[Top.block]])
    BY <1>1, RestoreSlotIs
  <2> QED
    BY <1>1, <2>1, EntryFacts DEF Returned, ReturnedFine
<1>2. CASE Top.phase # "back"
  BY <1>2 DEF Returned, ReturnedFine
<1> QED
  BY <1>1, <1>2

(* The same in the state after a step.                                     *)
LEMMA ReturnedIsNext == Typed' /\ Saved' => ReturnedFine'
BY ReturnedIs, PTL

(* Leaving blocks is Leave.                                                *)
LEMMA LeavesScope ==
  ASSUME IInv, Program, Running, Top.phase # "back", LeavesSome
  PROVE  \E i \in 1 .. Len(Open) : Scopes!Leave(i)
<1>1. /\ Typed /\ Good /\ Chain /\ Contents /\ Saved
  BY InRun
<1>2. PICK i, i0, ret : Leaves(i, i0, ret)
  BY DEF LeavesSome
<1> DEFINE n == i - 1
           b == ctl[i].block
           v == ReturnVar[ctl[i].block]
<1>3. /\ i \in Int /\ i \in 1 .. Depth /\ i \in 2 .. Depth /\ i > 1 /\ n \in 1 .. Depth
      /\ n \in Nat /\ b \in Blocks
      /\ v \in Vars \cup {NoVar}
      /\ v # NoVar => Kind[b] = "fun"
      /\ ctl' = LeftTo(i - 1, b)
  BY <1>1, <1>2, LeavesFacts DEF ReturnedFrom, Leaves
<1>4. Left(i, i0, ret)
  BY <1>1, <1>2, LeftFacts
<1>5. /\ sp' = ctl[i].base - 1
      /\ \A q \in 0 .. sp' : stack'[q] = stack[q]
      /\ v # NoVar => \E q \in ctl[i].base + 1 .. sp : Within(i, q) /\ stack[q] = Def(v)
  BY <1>4 DEF Left, ReturnedFrom
<1>6. IInv' /\ fault' = "none"
  BY <1>2, <1>4, LeavesIInv DEF Left
<1>7. Typed' /\ Saved'
  BY <1>6 DEF IInv, Good
<1>8. /\ Depth' = n /\ n = Len(ctl')
      /\ \A j \in 1 .. n : ctl'[j].block = ctl[j].block /\ ctl'[j].base = ctl[j].base
      /\ Top' = ctl'[n]
      /\ Kind[b] # "fun" => Top'.phase = ctl[n].phase
      /\ Kind[b] = "fun" => Top'.phase = IF v = NoVar THEN "done" ELSE "back"
  <2>1. /\ Depth' = i - 1
        /\ \A j \in 1 .. i - 1 : /\ ctl'[j].block = ctl[j].block
                                 /\ ctl'[j].base = ctl[j].base
        /\ Top' = ctl'[i - 1]
        /\ Kind[b] # "fun" => Top'.phase = ctl[i - 1].phase
        /\ Kind[b] = "fun" => Top'.phase = IF ReturnVar[b] = NoVar THEN "done" ELSE "back"
    BY <1>1, <1>3, LeftTo1
  <2> QED
    BY <2>1 DEF Depth
<1>9. /\ Depth \in Nat /\ Depth = Len(ctl) /\ sp \in Int /\ -1 <= sp
      /\ ctl[i].base \in Int /\ 0 <= ctl[i].base /\ ctl[i].base <= sp
      /\ \A j \in 1 .. Depth : ctl[j].base \in Int
  BY <1>1, <1>3, BaseFacts, CtlFacts
<1>10. ASSUME NEW j \in 1 .. n
       PROVE  Scope(j)' = Scope(j)
  <2>0. j \in 1 .. Depth /\ j \in Int /\ j # Depth
    BY <1>3, <1>9
  <2>1. Last(j)' = Last(j)
    <3>1. CASE j = n
      <4>1. j + 1 = i
        BY <1>3, <3>1
      <4>2. Last(j) = ctl[i].base - 1
        BY <1>9, <2>0, <4>1 DEF Last
      <4>3. Last(j)' = sp'
        BY <1>8, <3>1 DEF Last
      <4> QED
        BY <1>5, <4>2, <4>3
    <3>2. CASE j # n
      <4>1. j + 1 \in 1 .. n
        BY <1>3, <3>2
      <4> QED
        BY <1>8, <1>9, <2>0, <3>2, <4>1 DEF Last
    <3> QED
      BY <3>1, <3>2
  <2>2. Last(j) \in Int /\ Last(j) <= sp
    BY <1>1, <2>0, LastFacts
  <2>3. Last(j) <= sp'
    <3>1. j + 1 = i \/ j + 1 < i
      BY <1>3
    <3>2. j + 1 \in 1 .. Depth /\ Last(j) = ctl[j + 1].base - 1
      BY <1>3, <1>9, <2>0 DEF Last
    <3>3. j + 1 < i => ctl[j + 1].base < ctl[i].base
      BY <1>1, <1>3, <3>2 DEF Chain
    <3>4. /\ ctl[j + 1].base \in Int /\ ctl[i].base \in Int
          /\ ctl[j + 1].base <= ctl[i].base
      BY <1>9, <3>1, <3>2, <3>3
    <3>5. sp' = ctl[i].base - 1 /\ Last(j) = ctl[j + 1].base - 1
      BY <1>5, <3>2
    <3> QED
      BY ONLY <3>4, <3>5
  <2>4. sp' \in Int
    BY <1>5, <1>9
  <2>5. \A q \in 0 .. Last(j) : stack'[q] = stack[q]
    BY <1>5, <2>2, <2>3, <2>4
  <2>6. Declared(j)' = Declared(j)
    BY <1>1, <1>8, <2>0, <2>1, <2>3, <2>4, <2>5, DeclaredSame
  <2> QED
    BY <1>8, <2>6 DEF Scope
<1>11. /\ Open \in Seq(ScopeRecords) /\ Len(Open) = Depth
       /\ \A j \in 1 .. Depth : Open[j] = Scope(j)
       /\ Open[i].block = b /\ Open[i].declares = Declared(i)
       /\ Open' \in Seq(ScopeRecords) /\ Len(Open') = n
       /\ \A j \in 1 .. n : Open'[j] = Scope(j)'
  BY <1>1, <1>3, <1>7, <1>8, OpenIs, OpenIsNext DEF OpenFine
<1>12. Open' = SubSeq(Open, 1, i - 1)
  <2> DEFINE t == SubSeq(Open, 1, n)
  <2>1. t \in Seq(ScopeRecords) /\ Len(t) = n /\ \A j \in 1 .. n : t[j] = Open[j]
    BY <1>3, <1>9, <1>11
  <2>2. \A j \in 1 .. n : j \in 1 .. Depth
    BY <1>3, <1>9
  <2> HIDE DEF t
  <2>3. \A j \in 1 .. n : Open'[j] = t[j]
    BY <1>10, <1>11, <2>1, <2>2
  <2>4. Open' = t
    BY <1>11, <2>1, <2>3, SameSequence
  <2> QED
    BY <2>4 DEF t
<1>13. Returned = NoVar
  BY DEF Returned
<1>14. Returned' = v
  <2>1. Returned' = IF Top'.phase = "back" THEN ReturnVar[Callee[Top'.block]] ELSE NoVar
    BY <1>7, ReturnedIsNext DEF ReturnedFine
  <2>2. CASE v = NoVar
    <3>1. ctl[n].phase # "back"
      BY <1>1, <1>3, <1>9 DEF Chain
    <3>2. Top'.phase # "back"
      BY <1>8, <2>2, <3>1
    <3> QED
      BY <2>1, <2>2, <3>2
  <2>3. CASE v # NoVar
    <3>1. Kind[b] = "fun" /\ Top'.phase = "back"
      BY <1>3, <1>8, <2>3
    <3>2. Callee[ctl[n].block] = b
      BY <1>1, <1>3, <3>1 DEF Chain
    <3>3. Top'.block = ctl[n].block
      BY <1>3, <1>8
    <3> QED
      BY <2>1, <3>1, <3>2, <3>3
  <2> QED
    BY <2>2, <2>3
<1>15. v # NoVar => v \in Open[i].declares
  <2> SUFFICES ASSUME v # NoVar
               PROVE  v \in Declared(i)
    BY <1>11
  <2>1. PICK q \in ctl[i].base + 1 .. sp : Within(i, q) /\ stack[q] = Def(v)
    BY <1>5
  <2>2. q \in 0 .. sp
    BY <1>9
  <2>3. q \in ctl[i].base + 1 .. Last(i)
    BY <1>1, <1>3, <2>1, <2>2, LastFacts
  <2>4. q \in DefsOf(v) /\ v \in Vars
    BY <1>3, <2>1, <2>2, Different DEF DefsOf
  <2> QED
    BY <2>3, <2>4, DeclaredIs
<1> HIDE DEF n, b
<1>16. Scopes!Leave(i)
  <2>1. ReturnVar[Open[i].block] = v
    BY <1>11 DEF b
  <2> QED
    BY <1>3, <1>12, <1>13, <1>14, <1>15, <2>1
    DEF Scopes!Leave, Open, Scope, Returned
<1> QED
  BY <1>3, <1>11, <1>16

(* restore is Take.                                                        *)
LEMMA RestoreScope ==
  ASSUME IInv, Program, Restore
  PROVE  Scopes!Take
<1>1. /\ Typed /\ Good /\ fault' = "none" /\ Top.phase = "back"
      /\ sp + 1 \in Slots
      /\ stack' = [stack EXCEPT ![sp + 1] = Null]
      /\ ctl' = [ctl EXCEPT ![Len(ctl)].phase = "done"]
      /\ UNCHANGED sp
  BY RestoreFacts
<1>2. Chain /\ Saved
  BY <1>1 DEF Good
<1>3. Typed'
  BY RestoreIInv DEF IInv
<1>4. /\ Depth \in Nat /\ Depth > 0 /\ Depth \in 1 .. Depth /\ Depth = Len(ctl)
      /\ Top = ctl[Depth] /\ Top.block \in Blocks
      /\ sp \in Int /\ -1 <= sp /\ stack \in [Slots -> Entries]
      /\ ctl \in Seq(Frames) /\ ctl[Depth] \in Frames
  BY <1>1, CtlFacts DEF Typed
<1>5. /\ Depth' = Depth /\ Top'.phase = "done"
      /\ \A i \in 1 .. Depth : ctl'[i].block = ctl[i].block /\ ctl'[i].base = ctl[i].base
  <2> DEFINE e == [ctl[Depth] EXCEPT !.phase = "done"]
  <2>1. e \in Frames /\ e.block = ctl[Depth].block /\ e.base = ctl[Depth].base /\ e.phase = "done"
    BY <1>4 DEF Frames, Phases
  <2>2. ctl' = [ctl EXCEPT ![Depth] = e]
    BY <1>1, <1>4
  <2>3. Len(ctl') = Len(ctl)
    BY <1>4, <2>2
  <2> HIDE DEF e
  <2>4. ctl'[Depth] = e /\ \A i \in 1 .. Depth : i # Depth => ctl'[i] = ctl[i]
    BY <1>4, <2>2
  <2>5. Depth' = Depth /\ Top' = ctl'[Depth]
    BY <1>4, <2>3 DEF Depth, Top
  <2> QED
    BY <2>1, <2>4, <2>5
<1>6. \A q \in 0 .. sp : stack'[q] = stack[q]
  <2>1. \A q \in 0 .. sp : q \in Slots /\ q # sp + 1
    BY <1>1, <1>4, SizeAssumption DEF Slots
  <2> QED
    BY <1>1, <1>4, <2>1
<1>7. \A i \in 1 .. Depth : Scope(i)' = Scope(i)
  BY <1>1, <1>2, <1>3, <1>4, <1>5, <1>6, ScopesStay
<1>8. Open' = Open
  BY <1>1, <1>3, <1>5, <1>7, OpenStays
<1>9. Returned # NoVar
  <2>1. Returned = ReturnVar[Callee[Top.block]]
    BY <1>1, <1>2, ReturnedIs DEF ReturnedFine
  <2> QED
    BY <1>1, <1>2, <2>1 DEF Saved
<1>10. Returned' = NoVar
  BY <1>5 DEF Returned
<1> QED
  BY <1>8, <1>9, <1>10 DEF Scopes!Take, Open, Scope, Returned

(* A machine begins with the global code and nothing declared.             *)
LEMMA InitScope ==
  ASSUME Init
  PROVE  Scopes!Init
<1>1. Typed
  BY InitIInv DEF IInv
<1>2. /\ sp = -1 /\ ctl = <<[block |-> MainBlock, base |-> -1, phase |-> "run"]>>
  BY DEF Init
<1>3. Len(ctl) = 1 /\ ctl[1].block = MainBlock /\ Top.phase = "run"
  BY <1>2 DEF Top
<1>4. Declared(1) = {}
  <2>1. \A v \in Vars : DefsOf(v) = {}
    BY <1>2 DEF DefsOf
  <2> QED
    BY <2>1, DeclaredIs
<1>5. Open = [i \in 1 .. 1 |-> [block |-> MainBlock, declares |-> {}]]
  BY <1>3, <1>4 DEF Open, Scope
<1>6. Open = <<[block |-> MainBlock, declares |-> {}]>>
  BY <1>5
<1>7. Returned = NoVar
  BY <1>3 DEF Returned
<1> QED
  BY <1>6, <1>7 DEF Scopes!Init, Scopes!Opened, Open, Scope, Returned

(* Every step of the machine is one of the abstract machine, or none.      *)
LEMMA NextScopes ==
  ASSUME Program, IInv, [Next]_vars
  PROVE  [Scopes!Next]_Scopes!scopeVars
<1>1. ASSUME NEW b \in Blocks, Enters(b)
      PROVE  Scopes!Next
  BY <1>1, EntersScope DEF Scopes!Next
<1>2. CASE Call \/ \E b \in Blocks : Marks(b)
  <2>1. \E b \in Blocks : Enters(b)
    BY <1>2, CallEnters, MarksEnters DEF Enters
  <2> QED
    BY <1>1, <2>1
<1>3. CASE UNCHANGED <<Open, Returned>>
  BY <1>3 DEF Scopes!scopeVars, Open, Scope, Returned
<1>4. CASE PushArg
  BY <1>3, <1>4, PushArgScope
<1>5. CASE \E v \in Vars : Define(v)
  BY <1>3, <1>5, DefineScope DEF Scopes!Next
<1>6. CASE Close \/ ReturnAtEnd \/ ReturnNested \/ Unwind \/ Break
  <2>1. LeavesSome /\ Top.phase # "back" /\ Running
    BY <1>6, CloseLeaves, ReturnAtEndLeaves, ReturnNestedLeaves, UnwindLeaves, BreakLeaves
  <2>2. \E i \in 1 .. Len(Open) : Scopes!Leave(i)
    BY <2>1, LeavesScope
  <2> QED
    BY <2>2 DEF Scopes!Next, Open, Scope
<1>7. CASE Restore
  BY <1>7, RestoreScope DEF Scopes!Next
<1>8. CASE UNCHANGED vars
  <2>1. UNCHANGED <<stack, sp, ctl>>
    BY <1>8 DEF vars
  <2> QED
    BY <1>3, <2>1 DEF Open, Scope, Declared, DefsOf, Returned, Top, RestoreSlot
<1> QED
  BY <1>2, <1>4, <1>5, <1>6, <1>7, <1>8 DEF Next

(* The operand stack gives compiled programs lexical scoping, with         *)
(* returned arrays that reach the caller: the variables of a block are the *)
(* definitions between its marker and the next, through every break and    *)
(* nested return.                                                          *)
THEOREM ScopesImplemented ==
  ASSUME Program
  PROVE  Spec => LexicalScoping
<1>1. Init => Scopes!Init
  BY InitScope
<1>2. IInv /\ [Next]_vars => [Scopes!Next]_Scopes!scopeVars
  BY NextScopes
<1> QED
  BY Invariance, <1>1, <1>2, PTL DEF Spec, LexicalScoping, Scopes!Spec

-----------------------------------------------------------------------------
(* The size of the stack.                                                  *)

(* The call expressions.                                                   *)
Calls == {b \in Blocks : Kind[b] = "call"}

(* The stack has room for a marker of each block but the global code,      *)
(* MaxArgs arguments of each call expression, and each variable. The code  *)
(* does not check that it has (push.c); config->stack_size is given by the *)
(* host.                                                                   *)
RoomEnough ==
  /\ IsFiniteSet(Blocks) /\ IsFiniteSet(Vars)
  /\ StackSize >=
       (Cardinality(Blocks) - 1) + Cardinality(Calls) * MaxArgs + Cardinality(Vars)

(* What a slot can be used for: the marker of a block, an argument of a    *)
(* call, a definition of a variable.                                       *)
MarkerUses == (Blocks \ {MainBlock}) \X {0}
ArgUses    == Calls \X (1 .. MaxArgs)
DefUses    == Vars \X {-1}
Uses       == MarkerUses \cup ArgUses \cup DefUses

(* The stack has room for all uses.                                        *)
LEMMA UsesCount ==
  ASSUME RoomEnough
  PROVE  IsFiniteSet(Uses) /\ Cardinality(Uses) <= StackSize /\ Cardinality(Uses) \in Nat
<1>1. /\ IsFiniteSet(Blocks) /\ IsFiniteSet(Vars) /\ MainBlock \in Blocks
      /\ MaxArgs \in Nat /\ StackSize \in Nat
  BY ProgramAssumption, SizeAssumption DEF RoomEnough
<1>2. /\ IsFiniteSet(Blocks \ {MainBlock})
      /\ Cardinality(Blocks \ {MainBlock}) = Cardinality(Blocks) - 1
  BY <1>1, FS_RemoveElement
<1>3. IsFiniteSet(Calls)
  <2>1. Calls \in SUBSET Blocks
    BY DEF Calls
  <2> QED
    BY <1>1, <2>1, FS_Subset
<1>4. /\ Cardinality(Blocks) \in Nat /\ Cardinality(Vars) \in Nat /\ Cardinality(Calls) \in Nat
      /\ Cardinality(Blocks \ {MainBlock}) \in Nat
  BY <1>1, <1>2, <1>3, FS_CardinalityType
<1>5. /\ IsFiniteSet({0}) /\ Cardinality({0}) = 1
      /\ IsFiniteSet({-1}) /\ Cardinality({-1}) = 1
  BY FS_Singleton
<1>6. /\ IsFiniteSet(1 .. MaxArgs) /\ Cardinality(1 .. MaxArgs) = MaxArgs
  BY <1>1, FS_Interval
<1>7. IsFiniteSet(MarkerUses) /\ Cardinality(MarkerUses) = Cardinality(Blocks) - 1
  <2>1. /\ IsFiniteSet(MarkerUses)
        /\ Cardinality(MarkerUses) = Cardinality(Blocks \ {MainBlock}) * Cardinality({0})
    BY <1>2, <1>5, FS_Product DEF MarkerUses
  <2> QED
    BY <1>2, <1>4, <1>5, <2>1
<1>8. IsFiniteSet(ArgUses) /\ Cardinality(ArgUses) = Cardinality(Calls) * MaxArgs
  BY <1>3, <1>6, FS_Product DEF ArgUses
<1>9. IsFiniteSet(DefUses) /\ Cardinality(DefUses) = Cardinality(Vars)
  <2>1. IsFiniteSet(DefUses) /\ Cardinality(DefUses) = Cardinality(Vars) * Cardinality({-1})
    BY <1>1, <1>5, FS_Product DEF DefUses
  <2> QED
    BY <1>4, <1>5, <2>1
<1> DEFINE a == Cardinality(MarkerUses)
           c == Cardinality(ArgUses)
           d == Cardinality(DefUses)
<1>10. /\ IsFiniteSet(MarkerUses \cup ArgUses)
       /\ Cardinality(MarkerUses \cup ArgUses) <= a + c
  <2>1. /\ IsFiniteSet(MarkerUses \cup ArgUses)
        /\ Cardinality(MarkerUses \cup ArgUses)
             = a + c - Cardinality(MarkerUses \cap ArgUses)
    BY <1>7, <1>8, FS_Union
  <2>2. Cardinality(MarkerUses \cap ArgUses) \in Nat
    <3>1. MarkerUses \cap ArgUses \in SUBSET MarkerUses
      OBVIOUS
    <3>2. IsFiniteSet(MarkerUses \cap ArgUses)
      BY <1>7, <3>1, FS_Subset
    <3> QED
      BY <3>2, FS_CardinalityType
  <2>3. a \in Nat /\ c \in Nat
    BY <1>7, <1>8, FS_CardinalityType
  <2> QED
    BY <2>1, <2>2, <2>3
<1>11. IsFiniteSet(Uses) /\ Cardinality(Uses) <= a + c + d
  <2> DEFINE m == MarkerUses \cup ArgUses
  <2>1. /\ IsFiniteSet(Uses)
        /\ Cardinality(Uses) = Cardinality(m) + d - Cardinality(m \cap DefUses)
    BY <1>9, <1>10, FS_Union DEF Uses
  <2>2. Cardinality(m \cap DefUses) \in Nat
    <3>1. m \cap DefUses \in SUBSET m
      OBVIOUS
    <3>2. IsFiniteSet(m \cap DefUses)
      BY <1>10, <3>1, FS_Subset
    <3> QED
      BY <3>2, FS_CardinalityType
  <2>3. a \in Nat /\ c \in Nat /\ d \in Nat /\ Cardinality(m) \in Nat
    BY <1>7, <1>8, <1>9, <1>10, FS_CardinalityType
  <2>4. Cardinality(m) <= a + c
    BY <1>10
  <2> HIDE DEF a, c, d, m
  <2> QED
    BY <2>1, <2>2, <2>3, <2>4
<1>12. Cardinality(Uses) \in Nat /\ a \in Nat /\ c \in Nat /\ d \in Nat
  BY <1>7, <1>8, <1>9, <1>11, FS_CardinalityType
<1>13. StackSize >= a + c + d
  BY <1>7, <1>8, <1>9 DEF RoomEnough
<1> HIDE DEF a, c, d
<1> QED
  BY <1>1, <1>11, <1>12, <1>13

(* A call pushes MaxArgs arguments at most.                                *)
Args ==
  \A i \in 1 .. Depth : \A q \in 0 .. sp : Within(i, q) /\ stack[q] = Temp =>
    Kind[ctl[i].block] = "call" /\ q - ctl[i].base <= MaxArgs

(* Slot q is used for k.                                                   *)
UsedFor(q, k) ==
  \/ \E i \in 2 .. Depth : q = ctl[i].base /\ k = <<ctl[i].block, 0>>
  \/ \E i \in 1 .. Depth : /\ Within(i, q) /\ stack[q] = Temp
                           /\ k = <<ctl[i].block, q - ctl[i].base>>
  \/ \E v \in Vars : stack[q] = Def(v) /\ k = <<v, -1>>

(* Every slot of the stack is used for something.                          *)
LEMMA EachUsed ==
  ASSUME Typed, Chain, Contents, Args, NEW q \in 0 .. sp
  PROVE  \E k \in Uses : UsedFor(q, k)
<1>1. PICK i \in 1 .. Depth :
       \/ i > 1 /\ q = ctl[i].base
       \/ /\ Within(i, q)
          /\ \/ stack[q] = Temp /\ Kind[ctl[i].block] = "call"
             \/ \E v \in Vars : stack[q] = Def(v) /\ ScopeOf[v] = ctl[i].block
  BY DEF Contents
<1>2. ctl[i].block \in Blocks /\ ctl[i].base \in Int /\ q \in Int /\ i \in Int
  BY CtlFacts
<1>3. CASE i > 1 /\ q = ctl[i].base
  <2>1. i \in 2 .. Depth
    BY <1>3, CtlFacts
  <2>2. ctl[i].block # MainBlock
    BY <2>1, ProgramAssumption DEF Chain
  <2>3. <<ctl[i].block, 0>> \in Uses
    BY <1>2, <2>2 DEF Uses, MarkerUses
  <2> QED
    BY <1>3, <2>1, <2>3 DEF UsedFor
<1>4. CASE Within(i, q) /\ stack[q] = Temp
  <2>1. q - ctl[i].base <= MaxArgs /\ Kind[ctl[i].block] = "call"
    BY <1>4 DEF Args
  <2>2. q - ctl[i].base \in 1 .. MaxArgs
    BY <1>2, <1>4, <2>1, SizeAssumption DEF Within
  <2>3. <<ctl[i].block, q - ctl[i].base>> \in Uses
    BY <1>2, <2>1, <2>2 DEF Uses, ArgUses, Calls
  <2> QED
    BY <1>4, <2>3 DEF UsedFor
<1>5. ASSUME NEW v \in Vars, stack[q] = Def(v)
      PROVE  \E k \in Uses : UsedFor(q, k)
  <2>1. <<v, -1>> \in Uses
    BY DEF Uses, DefUses
  <2> QED
    BY <1>5, <2>1 DEF UsedFor
<1> QED
  BY <1>1, <1>3, <1>4, <1>5

(* No two slots are used for the same.                                     *)
LEMMA UsedOnce ==
  ASSUME Typed, Chain, Contents, NonRecursive, NEW q \in 0 .. sp, NEW r \in 0 .. sp, NEW k,
         UsedFor(q, k), UsedFor(r, k)
  PROVE  q = r
<1>0. q \in Int /\ r \in Int
  OBVIOUS
<1>1. ASSUME NEW i \in 2 .. Depth, q = ctl[i].base, k = <<ctl[i].block, 0>>
      PROVE  q = r
  <2>1. ~ \E v \in Vars : stack[r] = Def(v) /\ k = <<v, -1>>
    BY <1>1
  <2>2. ~ \E j \in 1 .. Depth : Within(j, r) /\ k = <<ctl[j].block, r - ctl[j].base>>
    BY <1>1, CtlFacts DEF Within
  <2>3. PICK j \in 2 .. Depth : r = ctl[j].base /\ ctl[j].block = ctl[i].block
    BY <1>1, <2>1, <2>2 DEF UsedFor
  <2>4. i \in 1 .. Depth /\ j \in 1 .. Depth
    BY CtlFacts
  <2> QED
    BY <1>1, <2>3, <2>4, OpenOnce
<1>2. ASSUME NEW i \in 1 .. Depth, Within(i, q), k = <<ctl[i].block, q - ctl[i].base>>
      PROVE  q = r
  <2>1. q - ctl[i].base \in Int /\ q - ctl[i].base > 0 /\ ctl[i].base \in Int
    BY <1>2, CtlFacts DEF Within
  <2>2. PICK j \in 1 .. Depth : k = <<ctl[j].block, r - ctl[j].base>>
    BY <1>2, <2>1 DEF UsedFor
  <2>3. i = j
    BY <1>2, <2>2, OpenOnce
  <2> QED
    BY <1>0, <1>2, <2>1, <2>2, <2>3
<1>3. ASSUME NEW v \in Vars, stack[q] = Def(v), k = <<v, -1>>
      PROVE  q = r
  <2>1. ~ \E j \in 1 .. Depth : Within(j, r) /\ k = <<ctl[j].block, r - ctl[j].base>>
    BY <1>3, CtlFacts DEF Within
  <2>2. stack[r] = Def(v)
    BY <1>3, <2>1 DEF UsedFor
  <2>3. stack[q].kind = "var" /\ stack[r] = stack[q]
    BY <1>3, <2>2, Different
  <2> QED
    BY <2>3 DEF Contents
<1> QED
  BY <1>1, <1>2, <1>3 DEF UsedFor

(* While there is a use that no slot has, there is room.                   *)
LEMMA Room ==
  ASSUME RoomEnough, Typed, Chain, Contents, Args, NonRecursive,
         NEW k \in Uses, \A q \in 0 .. sp : ~UsedFor(q, k)
  PROVE  sp + 1 < StackSize
<1> DEFINE T == Uses \ {k}
           f == [q \in 0 .. sp |-> CHOOSE u \in Uses : UsedFor(q, u)]
<1>1. sp \in Int /\ -1 <= sp /\ StackSize \in Int
  BY CtlFacts, SizeAssumption
<1>2. IsFiniteSet(Uses) /\ Cardinality(Uses) <= StackSize /\ Cardinality(Uses) \in Nat
  BY UsesCount
<1>3. IsFiniteSet(T) /\ Cardinality(T) = Cardinality(Uses) - 1
  BY <1>2, FS_RemoveElement
<1>4. \A q \in 0 .. sp : f[q] \in Uses /\ UsedFor(q, f[q])
  BY EachUsed
<1>5. \A q \in 0 .. sp : f[q] \in T
  BY <1>4
<1> HIDE DEF T
<1>6. f \in [0 .. sp -> T]
  BY <1>5
<1> HIDE DEF f
<1>7. \A q, r \in 0 .. sp : f[q] = f[r] => q = r
  BY <1>4, UsedOnce
<1>8. f \in Injection(0 .. sp, T)
  BY <1>6, <1>7 DEF Injection, IsInjective
<1>9. Cardinality(0 .. sp) <= Cardinality(T)
  BY <1>3, <1>8, FS_Injection
<1>10. Cardinality(0 .. sp) = sp + 1
  BY <1>1, FS_Interval
<1> QED
  BY <1>1, <1>2, <1>3, <1>9, <1>10

(* The invariant when the stack is large enough.                           *)
FitInv == IInv /\ fault = "none" /\ Args

(* A push of something there is no slot for yet finds room.                *)
LEMMA FitRoom ==
  ASSUME FitInv, Program, RoomEnough, NEW k \in Uses, \A q \in 0 .. sp : ~UsedFor(q, k),
         NEW e \in Entries, Put(e)
  PROVE  Pushed(e) /\ fault' = "none"
<1>1. Typed /\ Chain /\ Contents /\ NonRecursive /\ Args
  BY DEF FitInv, IInv, Good, Program
<1>2. sp + 1 < StackSize
  BY <1>1, Room
<1>3. sp + 1 \in Slots
  BY <1>1, <1>2, CtlFacts, SizeAssumption DEF Slots
<1> QED
  BY <1>2, <1>3 DEF Put, Pushed, FitInv

(* The blocks stay, and so do the uses of their slots.                     *)
LEMMA ArgsStay ==
  ASSUME Typed, Chain, Args, Depth' \in Nat, Depth' <= Depth, sp' \in Int, sp' <= sp,
         \A i \in 1 .. Depth' : ctl'[i].block = ctl[i].block /\ ctl'[i].base = ctl[i].base,
         Depth' = Depth \/ (Depth' + 1 \in 1 .. Depth /\ sp' < ctl[Depth' + 1].base),
         \A q \in 0 .. sp' : stack'[q] = stack[q]
  PROVE  Args'
<1>0. PICK n : n = Depth'
  OBVIOUS
<1>1. Depth \in Nat /\ sp \in Int /\ n \in Nat /\ n <= Depth
      /\ \A i \in 1 .. Depth : ctl[i].base \in Int
  BY <1>0, CtlFacts
<1>2. ASSUME NEW i \in 1 .. n, NEW q \in 0 .. sp', Within(i, q)', stack'[q] = Temp
      PROVE  Kind[ctl'[i].block] = "call" /\ q - ctl'[i].base <= MaxArgs
  <2>1. i \in 1 .. Depth /\ q \in 0 .. sp /\ stack[q] = Temp
    BY <1>1, <1>2
  <2>2. ctl[i].base < q
    BY <1>0, <1>2 DEF Within
  <2>3. ASSUME NEW j \in i + 1 .. Depth
        PROVE  q < ctl[j].base
    <3>1. CASE j \in i + 1 .. n
      <4>1. ctl'[j].base = ctl[j].base
        BY <1>0, <3>1
      <4> QED
        BY <1>0, <1>2, <3>1, <4>1 DEF Within
    <3>2. CASE j \notin i + 1 .. n
      <4>1. n # Depth /\ n + 1 \in 1 .. Depth /\ sp' < ctl[n + 1].base
        BY <1>0, <1>1, <3>2
      <4>2. j = n + 1 \/ n + 1 < j
        BY <1>1, <3>2
      <4>3. j \in 1 .. Depth
        BY <1>1
      <4>4. n + 1 < j => ctl[n + 1].base < ctl[j].base
        BY <4>1, <4>3 DEF Chain
      <4> QED
        BY <1>1, <4>1, <4>2, <4>3, <4>4
    <3> QED
      BY <3>1, <3>2
  <2>4. Within(i, q)
    BY <2>2, <2>3 DEF Within
  <2>5. Kind[ctl[i].block] = "call" /\ q - ctl[i].base <= MaxArgs
    BY <2>1, <2>4 DEF Args
  <2> QED
    BY <1>0, <2>5
<1> QED
  BY <1>0, <1>2 DEF Args

(* Entering a block finds room for its marker: the block was not open.     *)
LEMMA EntersFit ==
  ASSUME FitInv, Program, RoomEnough, NEW b, Enters(b)
  PROVE  FitInv'
<1>1. /\ Running /\ ~returning /\ Top.phase = "run" /\ b \in Blocks
      /\ Put(Marker(b)) /\ IInv
  BY DEF Enters, FitInv
<1>2. Typed /\ Chain /\ Contents /\ NonRecursive /\ Args
  BY <1>1, InRun DEF Program, FitInv
<1>3. PICK c : Opens(b, c)
  BY DEF Enters
<1>4. Kind[b] # "main" /\ Rank[b] < Rank[Top.block]
  BY <1>3 DEF Opens
<1>5. Depth \in Nat /\ Depth > 0 /\ Depth \in 1 .. Depth /\ Top = ctl[Depth]
      /\ sp \in Int /\ -1 <= sp
      /\ \A i \in 1 .. Depth : ctl[i].block \in Blocks /\ ctl[i].base \in Int
  BY <1>2, CtlFacts
<1>6. \A i \in 1 .. Depth : ctl[i].block # b
  <2> SUFFICES ASSUME NEW i \in 1 .. Depth, ctl[i].block = b
               PROVE  FALSE
    OBVIOUS
  <2>1. i < Depth => Rank[Top.block] < Rank[b]
    BY <1>2, <1>5 DEF Chain
  <2>2. Rank[b] \in Nat /\ Rank[Top.block] \in Nat
    BY <1>1, <1>2, <1>5, RankFacts
  <2> QED
    BY <1>4, <1>5, <2>1, <2>2
<1>7. <<b, 0>> \in Uses
  BY <1>1, <1>4, ProgramAssumption DEF Uses, MarkerUses
<1>8. ASSUME NEW q \in 0 .. sp
      PROVE  ~UsedFor(q, <<b, 0>>)
  <2>1. \A i \in 2 .. Depth : ctl[i].block # b
    BY <1>5, <1>6
  <2> QED
    BY <1>5, <1>6, <2>1 DEF UsedFor
<1>9. Pushed(Marker(b)) /\ fault' = "none"
  BY <1>1, <1>7, <1>8, FitRoom, EntryFacts
<1>10. /\ sp' = sp + 1 /\ stack'[sp + 1] = Marker(b)
       /\ \A q \in 0 .. sp : stack'[q] = stack[q]
       /\ \A q \in 0 .. sp' : q = sp + 1 \/ q \in 0 .. sp
  BY <1>2, <1>9, PushedFacts
<1>11. /\ Depth' = Depth + 1
       /\ \A i \in 1 .. Depth : ctl'[i].block = ctl[i].block /\ ctl'[i].base = ctl[i].base
       /\ ctl'[Depth + 1].base = sp + 1
       /\ \A i \in 1 .. Depth' : i = Depth + 1 \/ i \in 1 .. Depth
  BY <1>2, <1>3, OpenFacts
<1>12. Args'
  <2> SUFFICES ASSUME NEW i \in 1 .. Depth', NEW q \in 0 .. sp', Within(i, q)',
                      stack'[q] = Temp
               PROVE  Kind[ctl'[i].block] = "call" /\ q - ctl'[i].base <= MaxArgs
    BY DEF Args
  <2>1. q \in 0 .. sp
    BY <1>10, Different
  <2>2. ctl'[i].base < q /\ \A j \in i + 1 .. Depth' : q < ctl'[j].base
    BY DEF Within
  <2>3. i \in 1 .. Depth
    BY <1>5, <1>11, <2>1, <2>2
  <2>4. \A j \in i + 1 .. Depth : j \in 1 .. Depth /\ j \in i + 1 .. Depth'
    BY <1>5, <1>11, <2>3
  <2>5. Within(i, q)
    BY <1>11, <2>2, <2>3, <2>4 DEF Within
  <2> QED
    BY <1>2, <1>10, <1>11, <2>1, <2>3, <2>5 DEF Args
<1>13. IInv'
  BY <1>1, EntersIInv
<1> QED
  BY <1>9, <1>12, <1>13 DEF FitInv

(* push of an argument finds room: there were fewer than MaxArgs.          *)
LEMMA PushFit ==
  ASSUME FitInv, Program, RoomEnough, PushArg
  PROVE  FitInv'
<1>1. /\ Running /\ Top.phase = "run" /\ Kind[Top.block] = "call"
      /\ sp - Top.base < MaxArgs /\ Put(Temp) /\ UNCHANGED ctl /\ IInv
  BY DEF PushArg, AtCode, FitInv
<1>2. Typed /\ Chain /\ Contents /\ NonRecursive /\ Args
  BY <1>1, InRun DEF Program, FitInv
<1>3. Depth \in Nat /\ Depth > 0 /\ Depth \in 1 .. Depth /\ Top = ctl[Depth]
      /\ sp \in Int /\ -1 <= sp /\ Top.base <= sp /\ Top.block \in Blocks
      /\ \A i \in 1 .. Depth : ctl[i].base \in Int
  BY <1>2, BaseFacts, CtlFacts
<1> DEFINE a == sp + 1 - Top.base
<1>4. a \in 1 .. MaxArgs
  BY <1>1, <1>3, SizeAssumption
<1>5. <<Top.block, a>> \in Uses
  BY <1>1, <1>3, <1>4 DEF Uses, ArgUses, Calls
<1>6. ASSUME NEW q \in 0 .. sp
      PROVE  ~UsedFor(q, <<Top.block, a>>)
  <2> SUFFICES ASSUME UsedFor(q, <<Top.block, a>>)
               PROVE  FALSE
    OBVIOUS
  <2>1. a # 0 /\ a # -1
    BY <1>4
  <2>2. PICK i \in 1 .. Depth : ctl[i].block = Top.block /\ q - ctl[i].base = a
    BY <2>1 DEF UsedFor
  <2>3. i = Depth
    BY <1>2, <1>3, <2>2, OpenOnce
  <2> QED
    BY <1>3, <2>2, <2>3
<1>7. Pushed(Temp) /\ fault' = "none"
  BY <1>1, <1>5, <1>6, FitRoom, EntryFacts
<1>8. /\ sp' = sp + 1
      /\ \A q \in 0 .. sp : stack'[q] = stack[q]
      /\ \A q \in 0 .. sp' : q = sp + 1 \/ q \in 0 .. sp
  BY <1>2, <1>7, PushedFacts
<1>9. Depth' = Depth /\ \A i, q : Within(i, q)' <=> Within(i, q)
  BY <1>1 DEF Depth, Within
<1>10. Args'
  <2> SUFFICES ASSUME NEW i \in 1 .. Depth, NEW q \in 0 .. sp', Within(i, q),
                      stack'[q] = Temp
               PROVE  Kind[ctl[i].block] = "call" /\ q - ctl[i].base <= MaxArgs
    BY <1>1, <1>9 DEF Args
  <2>1. CASE q \in 0 .. sp
    BY <1>2, <1>8, <2>1 DEF Args
  <2>2. CASE q = sp + 1
    <3>1. i = Depth
      <4>1. i # Depth => Depth \in i + 1 .. Depth
        BY <1>3
      <4>2. i # Depth => q < ctl[Depth].base
        BY <4>1 DEF Within
      <4> QED
        BY <1>3, <2>2, <4>2
    <3> QED
      BY <1>1, <1>3, <2>2, <3>1, SizeAssumption
  <2> QED
    BY <1>8, <2>1, <2>2
<1>11. IInv'
  BY <1>1, PushArgIInv
<1> QED
  BY <1>7, <1>10, <1>11 DEF FitInv

(* A definition finds room: the variable was not defined.                  *)
LEMMA DefineFit ==
  ASSUME FitInv, Program, RoomEnough, NEW v \in Vars, Define(v)
  PROVE  FitInv'
<1>1. /\ Running /\ Top.phase = "run" /\ Put(Def(v)) /\ UNCHANGED ctl /\ IInv
      /\ ScopeOf[v] = Top.block /\ \A q \in Top.base + 1 .. sp : stack[q] # Def(v)
  BY DEF Define, AtCode, FitInv
<1>2. Typed /\ Chain /\ Contents /\ NonRecursive /\ Args
  BY <1>1, InRun DEF Program, FitInv
<1>3. \A q \in 0 .. sp : stack[q] # Def(v)
  BY <1>1, <1>2, NotDefined
<1>4. <<v, -1>> \in Uses
  BY DEF Uses, DefUses
<1>5. ASSUME NEW q \in 0 .. sp
      PROVE  ~UsedFor(q, <<v, -1>>)
  <2>1. ~ \E i \in 1 .. Depth : Within(i, q) /\ <<v, -1>> = <<ctl[i].block, q - ctl[i].base>>
    BY <1>2, CtlFacts DEF Within
  <2> QED
    BY <1>3, <2>1 DEF UsedFor
<1>6. Pushed(Def(v)) /\ fault' = "none"
  BY <1>1, <1>4, <1>5, FitRoom, EntryFacts
<1>7. /\ sp' = sp + 1 /\ stack'[sp + 1] = Def(v)
      /\ \A q \in 0 .. sp : stack'[q] = stack[q]
      /\ \A q \in 0 .. sp' : q = sp + 1 \/ q \in 0 .. sp
  BY <1>2, <1>6, PushedFacts
<1>8. Depth' = Depth /\ \A i, q : Within(i, q)' <=> Within(i, q)
  BY <1>1 DEF Depth, Within
<1>9. Args'
  <2> SUFFICES ASSUME NEW i \in 1 .. Depth, NEW q \in 0 .. sp', Within(i, q),
                      stack'[q] = Temp
               PROVE  Kind[ctl[i].block] = "call" /\ q - ctl[i].base <= MaxArgs
    BY <1>1, <1>8 DEF Args
  <2>1. q \in 0 .. sp
    BY <1>7, Different
  <2> QED
    BY <1>2, <1>7, <2>1 DEF Args
<1>10. IInv'
  BY <1>1, DefineIInv
<1> QED
  BY <1>6, <1>9, <1>10 DEF FitInv

(* Leaving blocks only makes room.                                         *)
LEMMA LeavesFit ==
  ASSUME FitInv, Program, Running, Top.phase # "back", LeavesSome
  PROVE  FitInv'
<1>1. IInv /\ Args
  BY DEF FitInv
<1>2. Typed /\ Good /\ Chain
  BY <1>1, InRun
<1>3. PICK i, i0, ret : Leaves(i, i0, ret)
  BY DEF LeavesSome
<1>4. i \in 2 .. Depth /\ i \in Int /\ ctl[i].block \in Blocks
      /\ ctl' = LeftTo(i - 1, ctl[i].block)
  BY <1>2, <1>3, LeavesFacts DEF Leaves
<1>5. sp' = ctl[i].base - 1 /\ fault' = "none" /\ \A q \in 0 .. sp' : stack'[q] = stack[q]
  BY <1>2, <1>3, LeftFacts DEF Left
<1>6. /\ Depth' = i - 1
      /\ \A j \in 1 .. i - 1 : ctl'[j].block = ctl[j].block /\ ctl'[j].base = ctl[j].base
  BY <1>2, <1>4, LeftTo1
<1>7. /\ Depth \in Nat /\ sp \in Int /\ i \in 1 .. Depth
      /\ ctl[i].base \in Int /\ ctl[i].base <= sp
  BY <1>2, <1>4, BaseFacts, CtlFacts
<1>8. /\ Depth' \in Nat /\ Depth' <= Depth /\ sp' \in Int /\ sp' <= sp
      /\ Depth' + 1 \in 1 .. Depth /\ sp' < ctl[Depth' + 1].base
  BY <1>4, <1>5, <1>6, <1>7
<1>9. Args'
  BY <1>1, <1>2, <1>5, <1>6, <1>8, ArgsStay
<1>10. IInv'
  BY <1>1, LeavesIInv
<1> QED
  BY <1>5, <1>9, <1>10 DEF FitInv

(* restore leaves the uses as they are.                                    *)
LEMMA RestoreFit ==
  ASSUME FitInv, Program, Restore
  PROVE  FitInv'
<1>1. IInv /\ Args
  BY DEF FitInv
<1>2. /\ Typed /\ Good /\ fault' = "none" /\ sp + 1 \in Slots
      /\ stack' = [stack EXCEPT ![sp + 1] = Null]
      /\ ctl' = [ctl EXCEPT ![Len(ctl)].phase = "done"]
      /\ UNCHANGED sp
  BY <1>1, RestoreFacts
<1>3. Chain
  BY <1>2 DEF Good
<1>4. /\ Depth \in Nat /\ Depth \in 1 .. Depth /\ Depth = Len(ctl)
      /\ sp \in Int /\ stack \in [Slots -> Entries]
      /\ ctl \in Seq(Frames) /\ ctl[Depth] \in Frames
  BY <1>2, CtlFacts DEF Typed
<1>5. /\ Depth' = Depth
      /\ \A i \in 1 .. Depth : ctl'[i].block = ctl[i].block /\ ctl'[i].base = ctl[i].base
  <2> DEFINE e == [ctl[Depth] EXCEPT !.phase = "done"]
  <2>1. e.block = ctl[Depth].block /\ e.base = ctl[Depth].base
    BY <1>4 DEF Frames, Phases
  <2>2. ctl' = [ctl EXCEPT ![Depth] = e]
    BY <1>2, <1>4
  <2>3. Len(ctl') = Len(ctl)
    BY <1>4, <2>2
  <2> HIDE DEF e
  <2>4. ctl'[Depth] = e /\ \A i \in 1 .. Depth : i # Depth => ctl'[i] = ctl[i]
    BY <1>4, <2>2
  <2> QED
    BY <1>4, <2>1, <2>3, <2>4 DEF Depth
<1>6. \A q \in 0 .. sp : stack'[q] = stack[q]
  <2>1. \A q \in 0 .. sp : q \in Slots /\ q # sp + 1
    BY <1>2, <1>4, SizeAssumption DEF Slots
  <2> QED
    BY <1>2, <1>4, <2>1
<1>7. Args'
  BY <1>1, <1>2, <1>3, <1>4, <1>5, <1>6, ArgsStay
<1>8. IInv'
  BY <1>1, RestoreIInv
<1> QED
  BY <1>2, <1>7, <1>8 DEF FitInv

(* The stack is empty at first.                                            *)
LEMMA InitFit ==
  ASSUME Init
  PROVE  FitInv
<1>1. IInv /\ fault = "none" /\ sp = -1
  BY InitIInv DEF Init
<1>2. Args
  BY <1>1 DEF Args
<1> QED
  BY <1>1, <1>2 DEF FitInv

(* Every step keeps the stack large enough.                                *)
LEMMA NextFit ==
  ASSUME Program, RoomEnough, FitInv, [Next]_vars
  PROVE  FitInv'
<1>0. IInv
  BY DEF FitInv
<1>1. CASE Call \/ \E b \in Blocks : Marks(b)
  <2>1. \E b \in Blocks : Enters(b)
    BY <1>0, <1>1, CallEnters, MarksEnters DEF Enters
  <2> QED
    BY <2>1, EntersFit
<1>2. CASE PushArg
  BY <1>2, PushFit
<1>3. CASE \E v \in Vars : Define(v)
  BY <1>3, DefineFit
<1>4. CASE Close \/ ReturnAtEnd \/ ReturnNested \/ Unwind \/ Break
  <2>1. LeavesSome /\ Top.phase # "back" /\ Running
    BY <1>0, <1>4, CloseLeaves, ReturnAtEndLeaves, ReturnNestedLeaves, UnwindLeaves,
       BreakLeaves
  <2> QED
    BY <2>1, LeavesFit
<1>5. CASE Restore
  BY <1>5, RestoreFit
<1>6. CASE UNCHANGED vars
  <2>1. UNCHANGED <<stack, sp, ctl, fault>> /\ IInv'
    BY <1>0, <1>6, StutterIInv DEF vars
  <2>2. Args'
    BY <2>1 DEF FitInv, Args, Within, Depth
  <2> QED
    BY <2>1, <2>2 DEF FitInv
<1> QED
  BY <1>1, <1>2, <1>3, <1>4, <1>5, <1>6 DEF Next

(* A stack that is large enough for the program is never overrun, and the  *)
(* invariant holds throughout.                                             *)
THEOREM NoOverrun ==
  ASSUME Program, RoomEnough
  PROVE  Spec => []FitInv
<1>1. Init => FitInv
  BY InitFit
<1>2. FitInv /\ [Next]_vars => FitInv'
  BY NextFit
<1> QED
  BY <1>1, <1>2, PTL DEF Spec

(* However its blocks are left, a block that is still open has its marker, *)
(* and the program never follows a null pointer, rolls back past the       *)
(* bottom of its stack or overruns it (clrs.c:22, clrs.c:30, push.c).      *)
THEOREM MarkersStay ==
  ASSUME Program, RoomEnough
  PROVE  Spec => []MarkersInPlace
<1>1. FitInv => MarkersInPlace
  <2> SUFFICES ASSUME FitInv
               PROVE  MarkersInPlace
    OBVIOUS
  <2>1. Typed /\ fault = "none" /\ Chain
    BY DEF FitInv, IInv, Good
  <2>2. ASSUME NEW i \in 2 .. Len(ctl)
        PROVE  /\ ctl[i].base <= sp
               /\ stack[ctl[i].base] = Marker(ctl[i].block)
               /\ ctl[i - 1].base < ctl[i].base
    <3>1. i \in 2 .. Depth /\ i - 1 \in 1 .. Depth /\ i \in 1 .. Depth /\ i - 1 < i
      BY <2>1, CtlFacts
    <3> QED
      BY <2>1, <3>1, BaseFacts DEF Chain
  <2> QED
    BY <2>1, <2>2 DEF MarkersInPlace
<1> QED
  BY NoOverrun, <1>1, PTL

=============================================================================
