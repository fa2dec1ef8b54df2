---------------------------- MODULE NapMemoryProofs ----------------------------
(***************************************************************************)
(* Proofs about NapMemory, for every set of variables, registers and       *)
(* lengths and every depth of the stack.                                   *)
(*                                                                         *)
(* A block carries the name of what it was allocated for, and the          *)
(* invariant says that each holder has a block of its own name             *)
(* (NamesInv, EntryInv).  So the name tells the owner, and no block has    *)
(* two (OwnersDiffer).  What is left for each instruction is to say which  *)
(* names it adds and which it takes away (HeapStep): the blocks that are   *)
(* there are then still those that have an owner, and the lengths are      *)
(* still within them.                                                      *)
(***************************************************************************)
EXTENDS NapMemory, SequenceTheorems, TLAPS

-----------------------------------------------------------------------------
(* What an entry pushed on the stack, or a scope entered, changes.         *)
LEMMA Pushed ==
  ASSUME NEW S, NEW s \in Seq(S), NEW e
  PROVE  /\ Append(s, e) \in Seq(Range(Append(s, e)))
         /\ Len(s) \in Nat /\ DOMAIN s = 1 .. Len(s)
         /\ Len(Append(s, e)) = Len(s) + 1 /\ DOMAIN Append(s, e) = 1 .. Len(s) + 1
         /\ \A i \in 1 .. Len(s) : Append(s, e)[i] = s[i]
         /\ Append(s, e)[Len(s) + 1] = e
<1> DEFINE T == S \cup {e}
           t == Append(s, e)
<1>1. s \in Seq(T) /\ e \in T
  BY SeqMonotonic
<1> HIDE DEF T
<1>2. /\ t \in Seq(T) /\ Len(t) = Len(s) + 1 /\ t[Len(s) + 1] = e
      /\ \A i \in 1 .. Len(s) : t[i] = s[i]
  BY <1>1, AppendProperties
<1>3. /\ Len(s) \in Nat /\ DOMAIN s = 1 .. Len(s)
      /\ DOMAIN t = 1 .. Len(s) + 1
  BY <1>2, LenProperties
<1>4. t \in Seq(Range(t))
  BY <1>2, SeqOfRange
<1> QED
  BY <1>2, <1>3, <1>4

(* What is left of it when it is cut off.                                  *)
LEMMA CutOff ==
  ASSUME NEW S, NEW s \in Seq(S), NEW n \in 1 .. Len(s)
  PROVE  /\ SubSeq(s, 1, n - 1) \in Seq(S)
         /\ SubSeq(s, 1, n - 1) \in Seq(Range(SubSeq(s, 1, n - 1)))
         /\ Len(s) \in Nat /\ DOMAIN s = 1 .. Len(s)
         /\ Len(SubSeq(s, 1, n - 1)) = n - 1 /\ DOMAIN SubSeq(s, 1, n - 1) = 1 .. n - 1
         /\ \A i \in 1 .. n - 1 : SubSeq(s, 1, n - 1)[i] = s[i]
<1> DEFINE t == SubSeq(s, 1, n - 1)
<1>1. Len(s) \in Nat /\ DOMAIN s = 1 .. Len(s)
  BY LenProperties
<1>2. \A i \in 1 .. n - 1 : s[i] \in S
  BY <1>1, ElementOfSeq
<1>3. /\ t \in Seq(S) /\ Len(t) = IF 1 <= n - 1 THEN (n - 1) - 1 + 1 ELSE 0
      /\ \A i \in 1 .. (n - 1) - 1 + 1 : t[i] = s[1 + i - 1]
  BY <1>1, <1>2, SubSeqProperties
<1>4. Len(t) = n - 1 /\ \A i \in 1 .. n - 1 : t[i] = s[i]
  BY <1>1, <1>3
<1>5. DOMAIN t = 1 .. n - 1 /\ t \in Seq(Range(t))
  BY <1>3, <1>4, LenProperties, SeqOfRange
<1> QED
  BY <1>1, <1>3, <1>4, <1>5

-----------------------------------------------------------------------------
(* The invariant.  It is about a machine that runs: what is left of one    *)
(* that has been cleaned up is in CleanupIsExact.                          *)
(* A string with its length.                                               *)
IsText(t) == t = Text(t.value, t.len) /\ t.len \in Nat

(* An entry of the stack, with all its fields.                             *)
IsEntry(e) == e = Entry(e.kind, e.block, e.value, e.len, e.of)

(* An instantiation.                                                       *)
IsInst(x) == x = [block |-> x.block, value |-> x.value, len |-> x.len] /\ x.len \in Nat

(* A block that was allocated for this, or none.                           *)
For(b, for, of) == b[1] = for /\ b[2] = of

(* The kinds of scopes.                                                    *)
ScopeKinds == {"block", "call", "called", "body"}

(* The types of the variables.                                             *)
TypeOK ==
  /\ inst = [v \in Variables |-> inst[v]] /\ \A v \in Variables : IsInst(inst[v])
  /\ regs = [r \in Registers |-> regs[r]] /\ \A r \in Registers : IsText(regs[r])
  /\ IsText(rv)
  /\ heap = [b \in DOMAIN heap |-> heap[b]] /\ \A b \in DOMAIN heap : heap[b] \in Nat
  /\ scopes \in Seq(ScopeKinds)

(* Each holder has a block that was allocated for it.                      *)
NamesInv ==
  /\ \A v \in Variables :
       \/ inst[v].block = Null /\ inst[v].value = Null /\ inst[v].len = 0
       \/ For(inst[v].block, "instantiation", v) /\ For(inst[v].value, "value", v)
  /\ \A r \in Registers : regs[r].value = Null \/ For(regs[r].value, "register", r)
  /\ rv.value = Null \/ For(rv.value, "return", 0)

(* What the entries of the stack are.                                      *)
EntryInv(i) ==
  LET e == stack[i] IN
    /\ IsEntry(e) /\ e.len \in Nat
    /\ \/ e.kind = "marker" /\ e.block = Marker(e.of) /\ e.value = Null
       \/ /\ e.kind = "def" /\ For(e.block, "entry", e.of) /\ e.of \in Strings \cup Arrays
          /\ inst[e.of].block # Null
       \/ /\ e.kind = "value" /\ For(e.block, "argument entry", i - 1)
          /\ For(e.value, "argument", i - 1)
       \/ /\ e.kind = "array" /\ For(e.block, "argument entry", i - 1)
          /\ e.of \in Arrays /\ e.value = VariableEntry(e.of)
          /\ \E j \in 1 .. i - 1 : stack[j].kind = "def" /\ stack[j].of = e.of

(* The whole stack.                                                        *)
StackInv == stack \in Seq(Range(stack)) /\ \A i \in DOMAIN stack : EntryInv(i)

(* A variable is defined once, and has an instantiation only then; except  *)
(* for the array parameter.                                                *)
DefsInv ==
  /\ \A i, j \in DOMAIN stack :
       stack[i].kind = "def" /\ stack[j].kind = "def" /\ stack[i].of = stack[j].of => i = j
  /\ \A v \in Strings \cup Arrays : inst[v].block # Null => Defined(v)

(* The markers are those of the scopes, in their order; arguments are      *)
(* above a marker, and functions inside of a call.                         *)
IsMarker(i) == stack[i].kind = "marker"

(* Scopes and markers.                                                     *)
ScopesInv ==
  /\ \A i \in DOMAIN stack : IsMarker(i) => stack[i].of \in DOMAIN scopes
  /\ \A n \in DOMAIN scopes : \E i \in DOMAIN stack : IsMarker(i) /\ stack[i].of = n
  /\ \A i, j \in DOMAIN stack :
       IsMarker(i) /\ IsMarker(j) /\ i < j => stack[i].of < stack[j].of
  /\ \A i \in DOMAIN stack :
       stack[i].kind \in {"value", "array"} => \E j \in 1 .. i - 1 : IsMarker(j)
  /\ \A n \in DOMAIN scopes : scopes[n] = "body" => n > 1

(* The blocks that are there are those that have an owner, and have the    *)
(* size they are used with.                                                *)
HeapInv == DOMAIN heap = Blocks(Owned)

(* Instantiations and entries of the string table have their size, and     *)
(* strings their length.                                                   *)
SizesInv ==
  /\ \A v \in Variables : inst[v].block # Null => heap[inst[v].block] = 1
  /\ \A n \in Literals : heap[Literal(n)] = n
  /\ LengthsFit

(* The inductive invariant.                                                *)
IInv ==
  /\ status \in {"running", "released", "crashed"}
  /\ Running => /\ TypeOK /\ NamesInv /\ StackInv /\ DefsInv /\ ScopesInv
                /\ HeapInv /\ SizesInv
  /\ CleanupIsExact

-----------------------------------------------------------------------------
(* The blocks that have an owner.                                          *)
(* The blocks of the tables of the machine.                                *)
TableBlocks == Tables \cup {Literal(n) : n \in Literals}

(* The block belongs to entry i: it is the entry, or the value of an       *)
(* argument.                                                               *)
OwnedByEntry(b, i) ==
  \/ stack[i].kind # "marker" /\ b = stack[i].block
  \/ stack[i].kind = "value" /\ b = stack[i].value

(* The block has an owner.                                                 *)
Owner(b) ==
  /\ b # Null
  /\ \/ b \in TableBlocks
     \/ \E v \in Variables : b = inst[v].block \/ b = inst[v].value
     \/ \E i \in DOMAIN stack : OwnedByEntry(b, i)
     \/ \E r \in Registers : b = regs[r].value
     \/ b = rv.value

(* A pointer is in a set of those of a holder, or of a family of holders.  *)
LEMMA PointerIs ==
  ASSUME NEW kind, NEW holder, NEW block
  PROVE  /\ \A p : p \in Pointer(kind, holder, block) <=>
                     block # Null /\ p = <<<<kind, holder>>, block>>
         /\ \A b : b \in Blocks(Pointer(kind, holder, block)) <=> b # Null /\ b = block
<1>1. \A p : p \in Pointer(kind, holder, block) <=>
               block # Null /\ p = <<<<kind, holder>>, block>>
  BY DEF Pointer
<1>2. CASE block = Null
  BY <1>2, <1>1 DEF Blocks
<1>3. CASE block # Null
  <2>1. Pointer(kind, holder, block) = {<<<<kind, holder>>, block>>}
    BY <1>3 DEF Pointer
  <2>2. Blocks(Pointer(kind, holder, block)) = {block}
    BY <2>1 DEF Blocks
  <2> QED
    BY <1>1, <1>3, <2>2
<1> QED
  BY <1>2, <1>3

(* The blocks of Owned are those that have an owner.                       *)
LEMMA OwnerIs == \A b : b \in Blocks(Owned) <=> Owner(b)
<1> SUFFICES ASSUME NEW b
             PROVE  b \in Blocks(Owned) <=> Owner(b)
  OBVIOUS
<1> DEFINE A == FreedTables
           B == InstantiationPointers
           C == EntryPointers({i \in DOMAIN stack : stack[i].kind # "marker"})
           D == ArgumentPointers({i \in DOMAIN stack : stack[i].kind = "value"})
           E == RegisterPointers
           F == ReturnPointer
<1>1. b \in Blocks(A) <=> b # Null /\ b \in TableBlocks
  <2>1. b \in Blocks(A) <=> \E t \in TableBlocks : b \in Blocks(Pointer("table", t, t))
    BY DEF FreedTables, TableBlocks, Blocks
  <2> QED
    BY <2>1, PointerIs
<1>2. b \in Blocks(B) <=> b # Null /\ \E v \in Variables : b = inst[v].block \/ b = inst[v].value
  <2>1. b \in Blocks(B) <=>
          \E v \in Variables : \/ b \in Blocks(Pointer("instantiation", v, inst[v].block))
                               \/ b \in Blocks(Pointer("value", v, inst[v].value))
    BY DEF InstantiationPointers, InstantiationOf, Blocks
  <2> QED
    BY <2>1, PointerIs
<1>3. b \in Blocks(C) <=>
        b # Null /\ \E i \in DOMAIN stack : stack[i].kind # "marker" /\ b = stack[i].block
  <2>1. b \in Blocks(C) <=>
          \E i \in DOMAIN stack :
            stack[i].kind # "marker" /\ b \in Blocks(Pointer("entry", i, stack[i].block))
    BY DEF EntryPointers, Blocks
  <2> QED
    BY <2>1, PointerIs
<1>4. b \in Blocks(D) <=>
        b # Null /\ \E i \in DOMAIN stack : stack[i].kind = "value" /\ b = stack[i].value
  <2>1. b \in Blocks(D) <=>
          \E i \in DOMAIN stack :
            stack[i].kind = "value" /\ b \in Blocks(Pointer("argument", i, stack[i].value))
    BY DEF ArgumentPointers, Blocks
  <2> QED
    BY <2>1, PointerIs
<1>5. b \in Blocks(E) <=> b # Null /\ \E r \in Registers : b = regs[r].value
  <2>1. b \in Blocks(E) <=>
          \E r \in Registers : b \in Blocks(Pointer("register", r, regs[r].value))
    BY DEF RegisterPointers, Blocks
  <2> QED
    BY <2>1, PointerIs
<1>6. b \in Blocks(F) <=> b # Null /\ b = rv.value
  BY PointerIs DEF ReturnPointer
<1>7. b \in Blocks(Owned) <=> \/ b \in Blocks(A) \/ b \in Blocks(B) \/ b \in Blocks(C)
                              \/ b \in Blocks(D) \/ b \in Blocks(E) \/ b \in Blocks(F)
  <2>1. Owned = A \cup B \cup C \cup D \cup E \cup F
    BY DEF Owned
  <2> HIDE DEF A, B, C, D, E, F
  <2> QED
    BY <2>1 DEF Blocks
<1> HIDE DEF A, B, C, D, E, F
<1> QED
  BY <1>1, <1>2, <1>3, <1>4, <1>5, <1>6, <1>7 DEF Owner, OwnedByEntry

(* The name of a block tells its owner.                                    *)
LEMMA TableNames ==
  /\ \A b \in TableBlocks : b[1] \in {"variable", "marker", "literal"} /\ b # Null
  /\ \A v \in Variables : VariableEntry(v) \in TableBlocks
  /\ \A n \in Literals : Literal(n) \in TableBlocks
  BY DEF TableBlocks, Tables, VariableEntry, Marker, Literal, Null

(* The owner is the one the name says.                                     *)
OwnerByName(b) ==
  \/ b \in TableBlocks /\ b[1] \in {"variable", "marker", "literal"}
  \/ b[1] = "instantiation" /\ b[2] \in Variables /\ b = inst[b[2]].block
  \/ b[1] = "value" /\ b[2] \in Variables /\ b = inst[b[2]].value
  \/ /\ b[1] = "entry"
     /\ \E i \in DOMAIN stack :
          stack[i].kind = "def" /\ stack[i].of = b[2] /\ b = stack[i].block
  \/ /\ b[1] = "argument entry"
     /\ \E i \in DOMAIN stack :
          stack[i].kind \in {"value", "array"} /\ i - 1 = b[2] /\ b = stack[i].block
  \/ /\ b[1] = "argument"
     /\ \E i \in DOMAIN stack :
          stack[i].kind = "value" /\ i - 1 = b[2] /\ b = stack[i].value
  \/ b[1] = "register" /\ b[2] \in Registers /\ b = regs[b[2]].value
  \/ b[1] = "return" /\ b = rv.value

(* When every holder has a block of its own name, a block has an owner     *)
(* exactly when the one its name says holds it.                            *)
LEMMA OwnerNames == NamesInv /\ StackInv => \A b : Owner(b) <=> OwnerByName(b)
<1> SUFFICES ASSUME NamesInv, StackInv, NEW b
             PROVE  Owner(b) <=> OwnerByName(b)
  OBVIOUS
<1>1. CASE b \in TableBlocks
  BY <1>1, TableNames DEF Owner, OwnerByName
<1>2. ASSUME NEW v \in Variables, b = inst[v].block \/ b = inst[v].value, b # Null
      PROVE  \/ b[1] = "instantiation" /\ b[2] \in Variables /\ b = inst[b[2]].block
             \/ b[1] = "value" /\ b[2] \in Variables /\ b = inst[b[2]].value
  BY <1>2 DEF NamesInv, For
<1>3. ASSUME NEW i \in DOMAIN stack, OwnedByEntry(b, i)
      PROVE  \/ b[1] = "entry" /\ stack[i].kind = "def" /\ stack[i].of = b[2] /\ b = stack[i].block
             \/ /\ b[1] = "argument entry"
                /\ stack[i].kind \in {"value", "array"} /\ i - 1 = b[2] /\ b = stack[i].block
             \/ b[1] = "argument" /\ stack[i].kind = "value" /\ i - 1 = b[2] /\ b = stack[i].value
  BY <1>3 DEF StackInv, EntryInv, OwnedByEntry, For
<1>4. ASSUME NEW r \in Registers, b = regs[r].value, b # Null
      PROVE  b[1] = "register" /\ b[2] \in Registers /\ b = regs[b[2]].value
  BY <1>4 DEF NamesInv, For
<1>5. ASSUME b = rv.value, b # Null
      PROVE  b[1] = "return"
  BY <1>5 DEF NamesInv, For
<1>6. ASSUME Owner(b)
      PROVE  OwnerByName(b)
  <2>1. CASE \E i \in DOMAIN stack : OwnedByEntry(b, i)
    BY <1>3, <2>1 DEF OwnerByName
  <2>2. CASE \E v \in Variables : b = inst[v].block \/ b = inst[v].value
    BY <1>2, <1>6, <2>2 DEF OwnerByName, Owner
  <2> QED
    BY <1>1, <1>4, <1>5, <1>6, <2>1, <2>2 DEF OwnerByName, Owner
<1>7. ASSUME OwnerByName(b)
      PROVE  Owner(b)
  <2>1. b # Null
    <3>1. Null[1] = "null"
      BY DEF Null
    <3>2. b[1] # "null"
      BY <1>7 DEF OwnerByName
    <3> QED
      BY <3>1, <3>2
  <2>2. ASSUME NEW i \in DOMAIN stack,
               \/ stack[i].kind \in {"def", "value", "array"} /\ b = stack[i].block
               \/ stack[i].kind = "value" /\ b = stack[i].value
        PROVE  Owner(b)
    BY <2>1, <2>2 DEF Owner, OwnedByEntry
  <2>3. CASE b[1] \in {"entry", "argument entry", "argument"}
    BY <1>7, <2>2, <2>3 DEF OwnerByName
  <2>4. CASE b[1] \notin {"entry", "argument entry", "argument"}
    BY <1>7, <2>1, <2>4 DEF OwnerByName, Owner
  <2> QED
    BY <2>3, <2>4
<1> QED
  BY <1>6, <1>7

(* The same for the blocks of Owned, in one lemma.                         *)
LEMMA OwnedNames ==
  NamesInv /\ StackInv => \A b : /\ b \in Blocks(Owned) <=> OwnerByName(b)
                                 /\ Owner(b) <=> OwnerByName(b)
  BY OwnerIs, OwnerNames

(* The holder a block belongs to, by its name.                             *)
PlaceOf(v) == CHOOSE i \in DOMAIN stack : stack[i].kind = "def" /\ stack[i].of = v

(* The first part of the pointer to a block, from the name of the block.   *)
Holder(b) ==
  CASE b[1] \in {"variable", "marker", "literal"} -> <<"table", b>>
    [] b[1] = "instantiation"  -> <<"instantiation", b[2]>>
    [] b[1] = "value"          -> <<"value", b[2]>>
    [] b[1] = "entry"          -> <<"entry", PlaceOf(b[2])>>
    [] b[1] = "argument entry" -> <<"entry", b[2] + 1>>
    [] b[1] = "argument"       -> <<"argument", b[2] + 1>>
    [] b[1] = "register"       -> <<"register", b[2]>>
    [] b[1] = "return"         -> <<"return", 0>>

(* No block has two owners.                                                *)
LEMMA OwnersDiffer ==
  ASSUME NamesInv, StackInv, DefsInv
  PROVE  Distinct(Owned)
<1>1. ASSUME NEW p \in FreedTables
      PROVE  p = <<Holder(p[2]), p[2]>>
  <2>1. PICK b \in TableBlocks : p \in Pointer("table", b, b)
    BY DEF FreedTables, TableBlocks
  <2>2. p = <<<<"table", b>>, b>> /\ p[2] = b
    BY <2>1, PointerIs
  <2> QED
    BY <2>2, TableNames DEF Holder
<1>2. ASSUME NEW p \in InstantiationPointers
      PROVE  p = <<Holder(p[2]), p[2]>>
  <2>1. PICK v \in Variables : \/ p \in Pointer("instantiation", v, inst[v].block)
                               \/ p \in Pointer("value", v, inst[v].value)
    BY DEF InstantiationPointers, InstantiationOf
  <2>2. CASE p \in Pointer("instantiation", v, inst[v].block)
    <3>1. p = <<<<"instantiation", v>>, inst[v].block>> /\ inst[v].block # Null
      BY <2>2, PointerIs
    <3>2. inst[v].block[1] = "instantiation" /\ inst[v].block[2] = v
      BY <3>1 DEF NamesInv, For
    <3> QED
      BY <3>1, <3>2 DEF Holder
  <2>3. CASE p \in Pointer("value", v, inst[v].value)
    <3>1. p = <<<<"value", v>>, inst[v].value>> /\ inst[v].value # Null
      BY <2>3, PointerIs
    <3>2. inst[v].value[1] = "value" /\ inst[v].value[2] = v
      BY <3>1 DEF NamesInv, For
    <3> QED
      BY <3>1, <3>2 DEF Holder
  <2> QED
    BY <2>1, <2>2, <2>3
<1>3. ASSUME NEW p \in EntryPointers({i \in DOMAIN stack : stack[i].kind # "marker"})
      PROVE  p = <<Holder(p[2]), p[2]>>
  <2>1. PICK i \in DOMAIN stack : stack[i].kind # "marker" /\ p \in Pointer("entry", i, stack[i].block)
    BY DEF EntryPointers
  <2>2. p = <<<<"entry", i>>, stack[i].block>>
    BY <2>1, PointerIs
  <2>3. i \in Int
    BY LenProperties DEF StackInv
  <2>4. CASE stack[i].kind = "def"
    <3>1. stack[i].block[1] = "entry" /\ stack[i].block[2] = stack[i].of
      BY <2>4 DEF StackInv, EntryInv, For
    <3>2. PlaceOf(stack[i].of) = i
      BY <2>4 DEF DefsInv, PlaceOf
    <3> QED
      BY <2>2, <3>1, <3>2 DEF Holder
  <2>5. CASE stack[i].kind # "def"
    <3>1. stack[i].block[1] = "argument entry" /\ stack[i].block[2] = i - 1
      BY <2>1, <2>5 DEF StackInv, EntryInv, For
    <3>2. (i - 1) + 1 = i
      BY <2>3
    <3> QED
      BY <2>2, <3>1, <3>2 DEF Holder
  <2> QED
    BY <2>4, <2>5
<1>4. ASSUME NEW p \in ArgumentPointers({i \in DOMAIN stack : stack[i].kind = "value"})
      PROVE  p = <<Holder(p[2]), p[2]>>
  <2>1. PICK i \in DOMAIN stack : stack[i].kind = "value" /\ p \in Pointer("argument", i, stack[i].value)
    BY DEF ArgumentPointers
  <2>2. p = <<<<"argument", i>>, stack[i].value>>
    BY <2>1, PointerIs
  <2>3. stack[i].value[1] = "argument" /\ stack[i].value[2] = i - 1
    BY <2>1 DEF StackInv, EntryInv, For
  <2>4. i \in Int
    BY LenProperties DEF StackInv
  <2>5. (i - 1) + 1 = i
    BY <2>4
  <2> QED
    BY <2>2, <2>3, <2>5 DEF Holder
<1>5. ASSUME NEW p \in RegisterPointers
      PROVE  p = <<Holder(p[2]), p[2]>>
  <2>1. PICK r \in Registers : p \in Pointer("register", r, regs[r].value)
    BY DEF RegisterPointers
  <2>2. p = <<<<"register", r>>, regs[r].value>> /\ regs[r].value # Null
    BY <2>1, PointerIs
  <2>3. regs[r].value[1] = "register" /\ regs[r].value[2] = r
    BY <2>2 DEF NamesInv, For
  <2> QED
    BY <2>2, <2>3 DEF Holder
<1>6. ASSUME NEW p \in ReturnPointer
      PROVE  p = <<Holder(p[2]), p[2]>>
  <2>1. p = <<<<"return", 0>>, rv.value>> /\ rv.value # Null
    BY PointerIs DEF ReturnPointer
  <2>2. rv.value[1] = "return"
    BY <2>1 DEF NamesInv, For
  <2> QED
    BY <2>1, <2>2 DEF Holder
<1>7. \A p \in Owned : p = <<Holder(p[2]), p[2]>>
  BY <1>1, <1>2, <1>3, <1>4, <1>5, <1>6 DEF Owned
<1> QED
  BY <1>7 DEF Distinct

-----------------------------------------------------------------------------
(* An instruction that reads only what is there and frees only what has an *)
(* owner goes on; the blocks it has not freed stay as they are.            *)
LEMMA MemoryStep ==
  ASSUME IInv, Running, NEW reads, NEW frees, NEW new, Memory(reads, frees, new),
         \A t \in reads : Readable(t), frees \subseteq Owned,
         \A b \in DOMAIN new : new[b] \in Nat
  PROVE  /\ status' = "running"
         /\ DOMAIN heap' = (DOMAIN heap \ Blocks(frees)) \cup DOMAIN new
         /\ heap' = [b \in DOMAIN heap' |-> heap'[b]]
         /\ \A b \in DOMAIN heap' : heap'[b] \in Nat
         /\ \A b \in DOMAIN new : heap'[b] = new[b]
         /\ \A b \in DOMAIN heap : b \notin Blocks(frees) /\ b \notin DOMAIN new =>
              b \in DOMAIN heap' /\ heap'[b] = heap[b]
<1>1. TypeOK /\ NamesInv /\ StackInv /\ DefsInv /\ HeapInv
  BY DEF IInv
<1>2. Distinct(frees)
  BY <1>1, OwnersDiffer DEF Distinct
<1>3. Blocks(frees) \subseteq DOMAIN heap
  BY <1>1 DEF HeapInv, Blocks
<1>4. status' = "running"
  BY <1>2, <1>3 DEF Memory, Freeable
<1>5. heap' = [b \in (DOMAIN heap \ Blocks(frees)) \cup DOMAIN new |->
                 IF b \in DOMAIN new THEN new[b] ELSE heap[b]]
  BY DEF Memory
<1>6. \A b \in DOMAIN heap : heap[b] \in Nat
  BY <1>1 DEF TypeOK
<1> QED
  BY <1>4, <1>5, <1>6

(* A text is still there, or it is a new one, or there is none.            *)
Held(t, old, new) ==
  \/ t = old /\ t.value \notin DOMAIN new
  \/ t.value \in DOMAIN new /\ t.len <= new[t.value]
  \/ t.value = Null /\ t.len = 0

(* The string of an instantiation or of an argument.                       *)
ValueOf(x) == Text(x.value, x.len)

(* The blocks that are there after an instruction have an owner, if those  *)
(* that have an owner are those that had one and were not freed, and the   *)
(* new ones; the texts of all holders can be read.                         *)
LEMMA HeapStep ==
  ASSUME IInv, Running, NEW reads, NEW frees, NEW new, Memory(reads, frees, new),
         \A t \in reads : Readable(t), frees \subseteq Owned,
         \A b \in DOMAIN new : new[b] \in Nat,
         NamesInv', StackInv',
         \A b : OwnerByName(b)' <=>
           (OwnerByName(b) /\ b \notin Blocks(frees)) \/ b \in DOMAIN new,
         \A v \in Variables :
           /\ inst'[v].block # Null => \/ /\ inst'[v].block = inst[v].block
                                          /\ inst'[v].block \notin DOMAIN new
                                       \/ /\ inst'[v].block \in DOMAIN new
                                          /\ new[inst'[v].block] = 1
           /\ Held(ValueOf(inst'[v]), ValueOf(inst[v]), new),
         \A r \in Registers : Held(regs'[r], regs[r], new),
         \A i \in DOMAIN stack' : stack'[i].kind = "value" =>
           \/ /\ i \in DOMAIN stack /\ stack[i].kind = "value"
              /\ Held(ValueOf(stack'[i]), ValueOf(stack[i]), new)
           \/ stack'[i].value \in DOMAIN new /\ stack'[i].len <= new[stack'[i].value],
         Held(rv', rv, new),
         \A n \in Literals : Literal(n) \notin DOMAIN new
  PROVE  HeapInv' /\ SizesInv'
<1>1. TypeOK /\ NamesInv /\ StackInv /\ HeapInv /\ SizesInv
  BY DEF IInv
<1>2. \A b : b \in Blocks(Owned) <=> OwnerByName(b)
  BY <1>1, OwnerIs, OwnerNames
<1>3. (NamesInv /\ StackInv => \A b : /\ b \in Blocks(Owned) <=> OwnerByName(b)
                                      /\ Owner(b) <=> OwnerByName(b))'
  BY OwnedNames, PTL
<1>4. \A b : b \in Blocks(Owned') <=> OwnerByName(b)'
  BY <1>3
<1>5. /\ status' = "running"
      /\ DOMAIN heap' = (DOMAIN heap \ Blocks(frees)) \cup DOMAIN new
      /\ \A b \in DOMAIN new : heap'[b] = new[b]
      /\ \A b \in DOMAIN heap : b \notin Blocks(frees) /\ b \notin DOMAIN new =>
           b \in DOMAIN heap' /\ heap'[b] = heap[b]
  BY ONLY IInv, Running, Memory(reads, frees, new), \A t \in reads : Readable(t),
          frees \subseteq Owned, \A b \in DOMAIN new : new[b] \in Nat, MemoryStep
<1>6. DOMAIN heap = Blocks(Owned)
  BY <1>1 DEF HeapInv
<1>7. DOMAIN heap' = Blocks(Owned')
  <2>1. \A b : b \in DOMAIN heap' <=> b \in Blocks(Owned')
    BY <1>2, <1>4, <1>5, <1>6
  <2> QED
    BY <2>1
<1>8. HeapInv'
  BY <1>7 DEF HeapInv
<1> DEFINE Kept(b) == \/ b \in DOMAIN new
                      \/ b \in DOMAIN heap /\ b \in DOMAIN heap' /\ heap'[b] = heap[b]
<1>9. \A b : Owner(b)' => Kept(b)
  BY <1>2, <1>3, <1>5, <1>6
<1>10. Null \notin DOMAIN heap
  <2>1. ~Owner(Null)
    BY DEF Owner
  <2> QED
    BY <1>1, <1>6, <2>1, OwnedNames
<1>11. /\ \A n \in Literals : Kept(Literal(n))
       /\ \A v \in Variables : inst'[v].block # Null => Kept(inst'[v].block)
       /\ \A v \in Variables : inst'[v].value # Null => Kept(inst'[v].value)
       /\ \A r \in Registers : regs'[r].value # Null => Kept(regs'[r].value)
       /\ rv'.value # Null => Kept(rv'.value)
       /\ \A i \in DOMAIN stack' :
            stack'[i].kind = "value" /\ stack'[i].value # Null => Kept(stack'[i].value)
  <2>1. ASSUME NEW b, b # Null,
               \/ b \in TableBlocks
               \/ \E v \in Variables : b = inst'[v].block \/ b = inst'[v].value
               \/ \E r \in Registers : b = regs'[r].value
               \/ b = rv'.value
               \/ \E i \in DOMAIN stack' : stack'[i].kind = "value" /\ b = stack'[i].value
        PROVE  Kept(b)
    <3>1. Owner(b)'
      BY <2>1 DEF Owner, OwnedByEntry
    <3> QED
      BY <1>9, <3>1
  <2> HIDE DEF Kept
  <2> QED
    BY <2>1, TableNames
<1>12. ASSUME NEW t, NEW old, Held(t, old, new), Readable(old), t.value # Null => Kept(t.value)
       PROVE  \/ t.len = 0 /\ t.value = Null
              \/ t.value \in DOMAIN heap' /\ t.len <= heap'[t.value]
  <2>1. CASE t = old /\ t.value \notin DOMAIN new
    BY <1>10, <1>12, <2>1 DEF Readable
  <2>2. CASE t.value \in DOMAIN new /\ t.len <= new[t.value]
    BY <1>5, <2>2
  <2>3. CASE t.value = Null /\ t.len = 0
    BY <2>3
  <2> QED
    BY <1>12, <2>1, <2>2, <2>3 DEF Held
<1>13. /\ \A v \in Variables : inst[v].block # Null => heap[inst[v].block] = 1
       /\ \A n \in Literals : heap[Literal(n)] = n
       /\ \A q \in Registers : Readable(regs[q])
       /\ \A v \in Variables : Readable(ValueOf(inst[v]))
       /\ \A i \in DOMAIN stack : stack[i].kind = "value" => Readable(ValueOf(stack[i]))
       /\ Readable(rv)
  BY <1>1 DEF SizesInv, LengthsFit, ValueOf
<1> DEFINE Fits(value, len) == \/ len = 0 /\ value = Null
                               \/ value \in DOMAIN heap' /\ len <= heap'[value]
<1>14. \A x : ValueOf(x).value = x.value /\ ValueOf(x).len = x.len
  BY DEF ValueOf, Text
<1>15. ASSUME NEW v \in Variables
       PROVE  /\ inst'[v].block # Null => heap'[inst'[v].block] = 1
              /\ Fits(inst'[v].value, inst'[v].len)
  <2>1. inst'[v].block # Null => heap'[inst'[v].block] = 1
    BY <1>5, <1>11, <1>13
  <2>2. Readable(ValueOf(inst[v])) /\ Held(ValueOf(inst'[v]), ValueOf(inst[v]), new)
    BY <1>13
  <2>3. ValueOf(inst'[v]).value # Null => Kept(ValueOf(inst'[v]).value)
    BY <1>11, <1>14
  <2> QED
    BY <1>12, <1>14, <2>1, <2>2, <2>3
<1>16. ASSUME NEW q \in Registers
       PROVE  Fits(regs'[q].value, regs'[q].len)
  BY <1>11, <1>12, <1>13
<1>17. ASSUME NEW i \in DOMAIN stack', stack'[i].kind = "value"
       PROVE  Fits(stack'[i].value, stack'[i].len)
  <2>1. CASE /\ i \in DOMAIN stack /\ stack[i].kind = "value"
             /\ Held(ValueOf(stack'[i]), ValueOf(stack[i]), new)
    <3>1. Readable(ValueOf(stack[i]))
      BY <1>13, <2>1
    <3>2. ValueOf(stack'[i]).value # Null => Kept(ValueOf(stack'[i]).value)
      BY <1>11, <1>14, <1>17
    <3> QED
      BY <1>12, <1>14, <2>1, <3>1, <3>2
  <2>2. CASE stack'[i].value \in DOMAIN new /\ stack'[i].len <= new[stack'[i].value]
    BY <1>5, <2>2
  <2> QED
    BY <1>17, <2>1, <2>2
<1>18. Fits(rv'.value, rv'.len)
  BY <1>11, <1>12, <1>13
<1>19. \A n \in Literals : heap'[Literal(n)] = n
  BY <1>11, <1>13
<1>20. LengthsFit'
  BY <1>15, <1>16, <1>17, <1>18 DEF LengthsFit, Readable, Text
<1> QED
  BY <1>8, <1>15, <1>19, <1>20 DEF SizesInv

-----------------------------------------------------------------------------
(* The steps.  What changes nothing but where a value is.                  *)

(* IInv of a machine that runs, from its parts.                            *)
LEMMA RunningIInv ==
  ASSUME status' = "running",
         TypeOK', NamesInv', StackInv', DefsInv', ScopesInv', HeapInv', SizesInv'
  PROVE  IInv'
  BY DEF IInv, Running, CleanupIsExact

(* The stack and the scopes are as they were, and so are the instantiations *)
(* but for their values.                                                   *)
LEMMA StackSame ==
  ASSUME StackInv, DefsInv, ScopesInv, UNCHANGED <<stack, scopes>>,
         \A v \in Variables : inst'[v].block = inst[v].block
  PROVE  StackInv' /\ DefsInv' /\ ScopesInv'
<1>1. \A v \in Strings \cup Arrays : v \in Variables
  BY DEF Variables
<1>2. StackInv'
  <2>1. ASSUME NEW i \in DOMAIN stack
        PROVE  EntryInv(i)'
    <3>1. EntryInv(i)
      BY DEF StackInv
    <3>2. stack[i].of \in Strings \cup Arrays => inst'[stack[i].of].block = inst[stack[i].of].block
      BY <1>1
    <3> QED
      BY <3>1, <3>2 DEF EntryInv
  <2> QED
    BY <2>1 DEF StackInv
<1>3. DefsInv'
  BY <1>1 DEF DefsInv, Defined
<1>4. ScopesInv'
  BY DEF ScopesInv, IsMarker
<1> QED
  BY <1>2, <1>3, <1>4

(* A register gets a string of its own, and frees the one it had.          *)
LEMMA RegisterIInv ==
  ASSUME IInv, Running, NEW r \in Registers, NEW len \in Nat, NEW b, For(b, "register", r),
         NEW reads, \A t \in reads : Readable(t),
         Memory(reads, Pointer("register", r, regs[r].value), Only(b, len)),
         regs' = [regs EXCEPT ![r] = Text(b, len)],
         UNCHANGED <<stack, inst, rv, grown, scopes>>
  PROVE  IInv'
<1> DEFINE old == regs[r].value
           frees == Pointer("register", r, old)
           new == Only(b, len)
<1>1. /\ TypeOK /\ NamesInv /\ StackInv /\ DefsInv /\ ScopesInv
  BY DEF IInv
<1>2. DOMAIN new = {b} /\ new[b] = len
  BY DEF Only
<1>3. frees \subseteq Owned
  BY DEF Owned, RegisterPointers
<1>4. \A c : c \in Blocks(frees) <=> c # Null /\ c = old
  BY PointerIs
<1>5. Memory(reads, frees, new)
  BY DEF frees, new
<1> HIDE DEF frees, new
<1>6. \A c \in DOMAIN new : new[c] \in Nat
  BY <1>2
<1>7. /\ status' = "running"
      /\ heap' = [c \in DOMAIN heap' |-> heap'[c]]
      /\ \A c \in DOMAIN heap' : heap'[c] \in Nat
  BY ONLY IInv, Running, \A t \in reads : Readable(t), <1>3, <1>5, <1>6, MemoryStep
<1>8. /\ regs' = [q \in Registers |-> regs'[q]]
      /\ regs'[r].value = b /\ regs'[r].len = len /\ IsText(regs'[r])
      /\ \A q \in Registers : q # r => regs'[q] = regs[q]
  BY <1>1 DEF TypeOK, Text, IsText
<1>9. TypeOK'
  BY <1>1, <1>7, <1>8 DEF TypeOK
<1>10. NamesInv'
  BY <1>1, <1>8 DEF NamesInv
<1>11. StackInv' /\ DefsInv' /\ ScopesInv'
  BY <1>1, StackSame
<1>12. b # Null /\ b[1] = "register" /\ b[2] = r
  BY DEF For, Null
<1>13. old # Null => old[1] = "register" /\ old[2] = r
  BY <1>1 DEF NamesInv, For
<1>14. ASSUME NEW c
       PROVE  OwnerByName(c)' <=> (OwnerByName(c) /\ c \notin Blocks(frees)) \/ c \in DOMAIN new
  <2>1. c[1] = "register" => c # Null
    BY DEF Null
  <2>2. c \notin TableBlocks \/ c[1] # "register"
    BY TableNames
  <2>3. CASE c[1] = "register"
    <3>1. OwnerByName(c)' <=> c[2] \in Registers /\ c = regs'[c[2]].value
      BY <2>2, <2>3 DEF OwnerByName
    <3>2. OwnerByName(c) <=> c[2] \in Registers /\ c = regs[c[2]].value
      BY <2>2, <2>3 DEF OwnerByName
    <3>3. CASE c[2] = r
      BY <1>2, <1>4, <1>8, <1>12, <2>1, <2>3, <3>1, <3>2, <3>3
    <3>4. CASE c[2] # r
      BY <1>2, <1>4, <1>8, <1>12, <1>13, <3>1, <3>2, <3>4
    <3> QED
      BY <3>3, <3>4
  <2>4. CASE c[1] # "register"
    <3>1. OwnerByName(c)' <=> OwnerByName(c)
      BY <2>4 DEF OwnerByName
    <3> QED
      BY <1>2, <1>4, <1>12, <1>13, <2>4, <3>1
  <2> QED
    BY <2>3, <2>4
<1>15. \A v \in Variables :
         /\ inst'[v].block # Null => inst'[v].block = inst[v].block /\ inst'[v].block \notin DOMAIN new
         /\ Held(ValueOf(inst'[v]), ValueOf(inst[v]), new)
  BY <1>1, <1>2, <1>12 DEF NamesInv, For, Held, ValueOf, Text, Null
<1>16. \A q \in Registers : Held(regs'[q], regs[q], new)
  BY <1>1, <1>2, <1>8, <1>12 DEF NamesInv, For, Held
<1>17. \A i \in DOMAIN stack' : stack'[i].kind = "value" =>
         i \in DOMAIN stack /\ stack[i].kind = "value" /\ Held(ValueOf(stack'[i]), ValueOf(stack[i]), new)
  BY <1>1, <1>2, <1>12 DEF StackInv, EntryInv, For, Held, ValueOf, Text
<1>18. Held(rv', rv, new)
  BY <1>1, <1>2, <1>12 DEF NamesInv, For, Held
<1>19. \A n \in Literals : Literal(n) \notin DOMAIN new
  BY <1>2, <1>12 DEF Literal
<1>20. HeapInv' /\ SizesInv'
  BY ONLY IInv, Running, \A t \in reads : Readable(t), <1>3, <1>5, <1>6, <1>10, <1>11,
          <1>14, <1>15, <1>16, <1>17, <1>18, <1>19, HeapStep
<1> QED
  BY <1>7, <1>9, <1>10, <1>11, <1>20, RunningIInv

(* The return value gets a string of its own.                              *)
LEMMA ReturnIInv ==
  ASSUME IInv, Running, NEW len \in Nat, NEW b, For(b, "return", 0),
         NEW reads, \A t \in reads : Readable(t),
         Memory(reads, ReturnPointer, Only(b, len)),
         rv' = Text(b, len),
         UNCHANGED <<stack, inst, regs, grown, scopes>>
  PROVE  IInv'
<1> DEFINE old == rv.value
           frees == ReturnPointer
           new == Only(b, len)
<1>1. /\ TypeOK /\ NamesInv /\ StackInv /\ DefsInv /\ ScopesInv
  BY DEF IInv
<1>2. DOMAIN new = {b} /\ new[b] = len
  BY DEF Only
<1>3. frees \subseteq Owned
  BY DEF Owned
<1>4. \A c : c \in Blocks(frees) <=> c # Null /\ c = old
  BY PointerIs DEF ReturnPointer
<1>5. Memory(reads, frees, new)
  BY DEF frees, new
<1> HIDE DEF frees, new
<1>6. \A c \in DOMAIN new : new[c] \in Nat
  BY <1>2
<1>7. /\ status' = "running"
      /\ heap' = [c \in DOMAIN heap' |-> heap'[c]]
      /\ \A c \in DOMAIN heap' : heap'[c] \in Nat
  BY ONLY IInv, Running, \A t \in reads : Readable(t), <1>3, <1>5, <1>6, MemoryStep
<1>8. rv'.value = b /\ rv'.len = len /\ IsText(rv')
  BY DEF Text, IsText
<1>9. TypeOK'
  BY <1>1, <1>7, <1>8 DEF TypeOK
<1>10. NamesInv'
  BY <1>1, <1>8 DEF NamesInv
<1>11. StackInv' /\ DefsInv' /\ ScopesInv'
  BY <1>1, StackSame
<1>12. b # Null /\ b[1] = "return" /\ b[2] = 0
  BY DEF For, Null
<1>13. old # Null => old[1] = "return"
  BY <1>1 DEF NamesInv, For
<1>14. ASSUME NEW c
       PROVE  OwnerByName(c)' <=> (OwnerByName(c) /\ c \notin Blocks(frees)) \/ c \in DOMAIN new
  <2>1. c[1] = "return" => c # Null
    BY DEF Null
  <2>2. c \notin TableBlocks \/ c[1] # "return"
    BY TableNames
  <2>3. CASE c[1] = "return"
    <3>1. OwnerByName(c)' <=> c = rv'.value
      BY <2>2, <2>3 DEF OwnerByName
    <3>2. OwnerByName(c) <=> c = rv.value
      BY <2>2, <2>3 DEF OwnerByName
    <3> QED
      BY <1>2, <1>4, <1>8, <2>1, <2>3, <3>1, <3>2
  <2>4. CASE c[1] # "return"
    <3>1. OwnerByName(c)' <=> OwnerByName(c)
      BY <2>4 DEF OwnerByName
    <3> QED
      BY <1>2, <1>4, <1>12, <1>13, <2>4, <3>1
  <2> QED
    BY <2>3, <2>4
<1>15. \A v \in Variables :
         /\ inst'[v].block # Null => inst'[v].block = inst[v].block /\ inst'[v].block \notin DOMAIN new
         /\ Held(ValueOf(inst'[v]), ValueOf(inst[v]), new)
  BY <1>1, <1>2, <1>12 DEF NamesInv, For, Held, ValueOf, Text, Null
<1>16. \A q \in Registers : Held(regs'[q], regs[q], new)
  BY <1>1, <1>2, <1>12 DEF NamesInv, For, Held
<1>17. \A i \in DOMAIN stack' : stack'[i].kind = "value" =>
         i \in DOMAIN stack /\ stack[i].kind = "value" /\ Held(ValueOf(stack'[i]), ValueOf(stack[i]), new)
  BY <1>1, <1>2, <1>12 DEF StackInv, EntryInv, For, Held, ValueOf, Text
<1>18. Held(rv', rv, new)
  BY <1>2, <1>8 DEF Held
<1>19. \A n \in Literals : Literal(n) \notin DOMAIN new
  BY <1>2, <1>12 DEF Literal
<1>20. HeapInv' /\ SizesInv'
  BY ONLY IInv, Running, \A t \in reads : Readable(t), <1>3, <1>5, <1>6, <1>10, <1>11,
          <1>14, <1>15, <1>16, <1>17, <1>18, <1>19, HeapStep
<1> QED
  BY <1>7, <1>9, <1>10, <1>11, <1>20, RunningIInv

(* A variable that is defined gets another value and frees the one it had. *)
LEMMA ValueIInv ==
  ASSUME IInv, Running, NEW v \in Variables, inst[v].block # Null,
         NEW len \in Nat, NEW b, For(b, "value", v),
         NEW reads, \A t \in reads : Readable(t),
         Memory(reads, Pointer("value", v, inst[v].value), Only(b, len)),
         SetValue(v, b, len),
         UNCHANGED <<stack, regs, rv, scopes>>
  PROVE  IInv'
<1> DEFINE old == inst[v].value
           frees == Pointer("value", v, old)
           new == Only(b, len)
<1>1. /\ TypeOK /\ NamesInv /\ StackInv /\ DefsInv /\ ScopesInv
  BY DEF IInv
<1>2. DOMAIN new = {b} /\ new[b] = len
  BY DEF Only
<1>3. frees \subseteq Owned
  BY DEF Owned, InstantiationPointers, InstantiationOf
<1>4. \A c : c \in Blocks(frees) <=> c # Null /\ c = old
  BY PointerIs
<1>5. Memory(reads, frees, new)
  BY DEF frees, new
<1> HIDE DEF frees, new
<1>6. \A c \in DOMAIN new : new[c] \in Nat
  BY <1>2
<1>7. /\ status' = "running"
      /\ heap' = [c \in DOMAIN heap' |-> heap'[c]]
      /\ \A c \in DOMAIN heap' : heap'[c] \in Nat
  BY ONLY IInv, Running, \A t \in reads : Readable(t), <1>3, <1>5, <1>6, MemoryStep
<1>8. /\ inst' = [w \in Variables |-> inst'[w]]
      /\ inst'[v].value = b /\ inst'[v].len = len /\ inst'[v].block = inst[v].block
      /\ IsInst(inst'[v])
      /\ \A w \in Variables : w # v => inst'[w] = inst[w]
  BY <1>1 DEF TypeOK, SetValue, IsInst
<1>9. TypeOK'
  BY <1>1, <1>7, <1>8 DEF TypeOK
<1>10. NamesInv'
  BY <1>1, <1>8 DEF NamesInv
<1>11. StackInv' /\ DefsInv' /\ ScopesInv'
  <2>1. \A w \in Variables : inst'[w].block = inst[w].block
    BY <1>8
  <2> QED
    BY <1>1, <2>1, StackSame
<1>12. b # Null /\ b[1] = "value" /\ b[2] = v
  BY DEF For, Null
<1>13. old # Null /\ old[1] = "value" /\ old[2] = v
  BY <1>1 DEF NamesInv, For, Null
<1>14. ASSUME NEW c
       PROVE  OwnerByName(c)' <=> (OwnerByName(c) /\ c \notin Blocks(frees)) \/ c \in DOMAIN new
  <2>1. c[1] = "value" => c # Null
    BY DEF Null
  <2>2. c \notin TableBlocks \/ c[1] # "value"
    BY TableNames
  <2>3. CASE c[1] = "value"
    <3>1. OwnerByName(c)' <=> c[2] \in Variables /\ c = inst'[c[2]].value
      BY <2>2, <2>3 DEF OwnerByName
    <3>2. OwnerByName(c) <=> c[2] \in Variables /\ c = inst[c[2]].value
      BY <2>2, <2>3 DEF OwnerByName
    <3>3. CASE c[2] = v
      BY <1>2, <1>4, <1>8, <1>12, <2>1, <2>3, <3>1, <3>2, <3>3
    <3>4. CASE c[2] # v
      BY <1>2, <1>4, <1>8, <1>12, <1>13, <3>1, <3>2, <3>4
    <3> QED
      BY <3>3, <3>4
  <2>4. CASE c[1] # "value"
    <3>1. \A w \in Variables : inst'[w].block = inst[w].block
      BY <1>8
    <3>2. OwnerByName(c)' <=> OwnerByName(c)
      BY <2>4, <3>1 DEF OwnerByName
    <3> QED
      BY <1>2, <1>4, <1>12, <1>13, <2>4, <3>2
  <2> QED
    BY <2>3, <2>4
<1>15. ASSUME NEW w \in Variables
       PROVE  /\ inst'[w].block # Null => inst'[w].block = inst[w].block /\ inst'[w].block \notin DOMAIN new
              /\ Held(ValueOf(inst'[w]), ValueOf(inst[w]), new)
  <2>1. inst'[w].block = inst[w].block /\ inst[w].block # b
    BY <1>1, <1>8, <1>12 DEF NamesInv, For
  <2>2. CASE w = v
    <3>1. ValueOf(inst'[w]).value = b /\ ValueOf(inst'[w]).len = len
      BY <1>8, <2>2 DEF ValueOf, Text
    <3> QED
      BY <1>2, <2>1, <3>1 DEF Held
  <2>3. CASE w # v
    <3>1. inst[w].value # b
      BY <1>1, <1>12, <2>3 DEF NamesInv, For
    <3> QED
      BY <1>2, <1>8, <2>1, <2>3, <3>1 DEF Held, ValueOf, Text
  <2> QED
    BY <2>2, <2>3
<1>16. \A q \in Registers : Held(regs'[q], regs[q], new)
  BY <1>1, <1>2, <1>12 DEF NamesInv, For, Held
<1>17. \A i \in DOMAIN stack' : stack'[i].kind = "value" =>
         i \in DOMAIN stack /\ stack[i].kind = "value" /\ Held(ValueOf(stack'[i]), ValueOf(stack[i]), new)
  BY <1>1, <1>2, <1>12 DEF StackInv, EntryInv, For, Held, ValueOf, Text
<1>18. Held(rv', rv, new)
  BY <1>1, <1>2, <1>12 DEF NamesInv, For, Held
<1>19. \A n \in Literals : Literal(n) \notin DOMAIN new
  BY <1>2, <1>12 DEF Literal
<1>20. HeapInv' /\ SizesInv'
  BY ONLY IInv, Running, \A t \in reads : Readable(t), <1>3, <1>5, <1>6, <1>10, <1>11,
          <1>14, <1>15, <1>16, <1>17, <1>18, <1>19, HeapStep
<1> QED
  BY <1>7, <1>9, <1>10, <1>11, <1>20, RunningIInv

-----------------------------------------------------------------------------
(* Steps that push something on the stack.                                 *)

(* Nothing is allocated or freed.                                          *)
LEMMA QuietMemory ==
  ASSUME IInv, Running, UNCHANGED <<heap, status>>
  PROVE  Memory({}, {}, <<>>)
<1>1. heap = [b \in DOMAIN heap |-> heap[b]]
  BY DEF IInv, TypeOK
<1>2. Blocks({}) = {} /\ Distinct({})
  BY DEF Blocks, Distinct
<1>3. DOMAIN <<>> = {}
  OBVIOUS
<1> QED
  BY <1>1, <1>2, <1>3 DEF Memory, Freeable, Running

(* A marker is pushed, and its scope opened.                               *)
LEMMA MarkStack ==
  ASSUME TypeOK, StackInv, DefsInv, ScopesInv, NEW kind \in ScopeKinds, Mark(kind),
         kind = "body" => scopes # <<>>,
         \A v \in Strings \cup Arrays : inst'[v].block = inst[v].block
  PROVE  /\ StackInv' /\ DefsInv' /\ ScopesInv' /\ scopes' \in Seq(ScopeKinds)
         /\ DOMAIN stack' = 1 .. Len(stack) + 1 /\ DOMAIN stack = 1 .. Len(stack)
         /\ \A i \in DOMAIN stack : stack'[i] = stack[i]
         /\ Len(stack) \in Nat /\ stack'[Len(stack) + 1].kind = "marker"
<1> DEFINE k == Len(stack)
           n == Len(scopes)
           e == Entry("marker", Marker(n + 1), Null, 0, n + 1)
<1>1. stack' = Append(stack, e) /\ scopes' = Append(scopes, kind)
  BY DEF Mark
<1>2. scopes \in Seq(ScopeKinds) /\ stack \in Seq(Range(stack))
  BY DEF TypeOK, StackInv
<1>3. /\ k \in Nat /\ DOMAIN stack = 1 .. k
      /\ stack' \in Seq(Range(stack')) /\ Len(stack') = k + 1 /\ DOMAIN stack' = 1 .. k + 1
      /\ \A i \in 1 .. k : stack'[i] = stack[i]
      /\ stack'[k + 1] = e
  BY <1>1, <1>2, Pushed
<1>4. /\ scopes' \in Seq(ScopeKinds) /\ n \in Nat
      /\ DOMAIN scopes = 1 .. n /\ DOMAIN scopes' = 1 .. n + 1
      /\ \A m \in 1 .. n : scopes'[m] = scopes[m]
      /\ scopes'[n + 1] = kind
  BY <1>1, <1>2, AppendProperties, LenProperties
<1>5. /\ IsEntry(e) /\ e.kind = "marker" /\ e.block = Marker(n + 1) /\ e.value = Null
      /\ e.len = 0 /\ e.of = n + 1
  BY DEF Entry, IsEntry
<1> HIDE DEF k, n, e
<1>6. StackInv'
  <2>1. ASSUME NEW i \in 1 .. k
        PROVE  EntryInv(i)'
    <3>1. EntryInv(i)
      BY <1>3, <2>1 DEF StackInv
    <3>2. \A j \in 1 .. i - 1 : j \in 1 .. k
      BY <1>3
    <3> QED
      BY <1>3, <3>1, <3>2 DEF EntryInv
  <2>2. ASSUME NEW i, i = k + 1
        PROVE  EntryInv(i)'
    <3>1. stack'[i] = e
      BY <1>3, <2>2
    <3>2. /\ stack'[i].kind = "marker" /\ stack'[i].block = Marker(stack'[i].of)
          /\ stack'[i].value = Null /\ stack'[i].len = 0
      BY <1>5, <3>1
    <3>3. IsEntry(stack'[i])
      BY <1>5, <3>1
    <3>4. IsEntry(stack[i])'
      BY <3>3 DEF IsEntry
    <3> QED
      BY <3>2, <3>4 DEF EntryInv
  <2>3. ASSUME NEW i \in DOMAIN stack'
        PROVE  EntryInv(i)'
    <3>1. i \in 1 .. k \/ i = k + 1
      BY <1>3
    <3> QED
      BY <2>1, <2>2, <3>1
  <2> QED
    BY <1>3, <2>3 DEF StackInv
<1>7. DefsInv'
  <2>1. \A i \in DOMAIN stack' : stack'[i].kind = "def" => i \in DOMAIN stack /\ stack'[i] = stack[i]
    BY <1>3, <1>5
  <2>2. \A i \in DOMAIN stack : i \in DOMAIN stack' /\ stack'[i] = stack[i]
    BY <1>3
  <2> QED
    BY <2>1, <2>2 DEF DefsInv, Defined
<1>8. ScopesInv'
  <2>1. \A i \in DOMAIN stack' : i = k + 1 \/ (i \in DOMAIN stack /\ i < k + 1 /\ stack'[i] = stack[i])
    BY <1>3
  <2>2. \A i \in DOMAIN stack : i \in DOMAIN stack' /\ i < k + 1 /\ stack'[i] = stack[i]
    BY <1>3
  <2>3. k + 1 \in DOMAIN stack' /\ stack'[k + 1] = e /\ k \in Nat
    BY <1>3
  <2>4. \A i \in DOMAIN stack' : stack'[i].kind = "marker" => stack'[i].of \in DOMAIN scopes'
    BY <1>4, <1>5, <2>1, <2>3 DEF ScopesInv, IsMarker
  <2>5. ASSUME NEW m \in DOMAIN scopes'
        PROVE  \E i \in DOMAIN stack' : stack'[i].kind = "marker" /\ stack'[i].of = m
    <3>1. CASE m = n + 1
      BY <1>5, <2>3, <3>1
    <3>2. CASE m # n + 1
      <4>1. m \in DOMAIN scopes
        BY <1>4, <3>2
      <4> QED
        BY <2>2, <4>1 DEF ScopesInv, IsMarker
    <3> QED
      BY <3>1, <3>2
  <2>6. ASSUME NEW i \in DOMAIN stack', NEW j \in DOMAIN stack', stack'[i].kind = "marker",
               stack'[j].kind = "marker", i < j
        PROVE  stack'[i].of < stack'[j].of
    <3>1. i \in DOMAIN stack /\ stack'[i] = stack[i]
      BY <1>3, <2>6
    <3>2. stack[i].of \in 1 .. n
      BY <1>4, <2>6, <3>1 DEF ScopesInv, IsMarker
    <3>3. CASE j = k + 1
      BY <1>4, <1>5, <2>3, <3>1, <3>2, <3>3
    <3>4. CASE j # k + 1
      BY <2>1, <2>6, <3>1, <3>4 DEF ScopesInv, IsMarker
    <3> QED
      BY <3>3, <3>4
  <2>7. ASSUME NEW i \in DOMAIN stack', stack'[i].kind \in {"value", "array"}
        PROVE  \E j \in 1 .. i - 1 : stack'[j].kind = "marker"
    <3>1. i \in DOMAIN stack /\ stack'[i] = stack[i]
      BY <1>5, <2>1, <2>3, <2>7
    <3>2. PICK j \in 1 .. i - 1 : stack[j].kind = "marker"
      BY <2>7, <3>1 DEF ScopesInv, IsMarker
    <3>3. stack'[j] = stack[j]
      BY <1>3, <3>1
    <3> QED
      BY <3>2, <3>3
  <2>8. ASSUME NEW m \in DOMAIN scopes', scopes'[m] = "body"
        PROVE  m > 1
    <3>1. CASE m = n + 1
      <4>1. scopes # <<>>
        BY <1>4, <2>8, <3>1
      <4>2. n > 0
        BY <1>2, <4>1, EmptySeq DEF n
      <4> QED
        BY <1>4, <3>1, <4>2
    <3>2. CASE m # n + 1
      <4>1. m \in DOMAIN scopes /\ scopes'[m] = scopes[m]
        BY <1>4, <3>2
      <4> QED
        BY <2>8, <4>1 DEF ScopesInv
    <3> QED
      BY <3>1, <3>2
  <2> QED
    BY <2>4, <2>5, <2>6, <2>7, <2>8 DEF ScopesInv, IsMarker
<1> QED
  BY <1>3, <1>4, <1>5, <1>6, <1>7, <1>8 DEF k

(* A block or a function without array parameter is entered, or a call     *)
(* begun.                                                                  *)
LEMMA MarkIInv ==
  ASSUME IInv, Running, NEW kind \in ScopeKinds, Mark(kind),
         kind = "body" => scopes # <<>>,
         UNCHANGED <<heap, inst, regs, rv, grown, status>>
  PROVE  IInv'
<1>1. TypeOK /\ NamesInv /\ StackInv /\ DefsInv /\ ScopesInv
  BY DEF IInv
<1>2. Memory({}, {}, <<>>)
  BY QuietMemory
<1>3. /\ StackInv' /\ DefsInv' /\ ScopesInv' /\ scopes' \in Seq(ScopeKinds)
      /\ DOMAIN stack' = 1 .. Len(stack) + 1 /\ DOMAIN stack = 1 .. Len(stack)
      /\ \A i \in DOMAIN stack : stack'[i] = stack[i]
      /\ Len(stack) \in Nat /\ stack'[Len(stack) + 1].kind = "marker"
  BY <1>1, MarkStack
<1>4. TypeOK' /\ NamesInv'
  BY <1>1, <1>3 DEF TypeOK, NamesInv
<1>5. /\ \A i \in DOMAIN stack : i \in DOMAIN stack' /\ stack'[i] = stack[i]
      /\ \A i \in DOMAIN stack' : stack'[i].kind # "marker" => i \in DOMAIN stack /\ stack'[i] = stack[i]
  BY <1>3
<1>6. DOMAIN <<>> = {} /\ \A b : b \notin Blocks({})
  BY DEF Blocks
<1>7. ASSUME NEW b
      PROVE  OwnerByName(b)' <=> (OwnerByName(b) /\ b \notin Blocks({})) \/ b \in DOMAIN <<>>
  <2>1. (\E i \in DOMAIN stack' : stack'[i].kind = "def" /\ stack'[i].of = b[2] /\ b = stack'[i].block)
          <=> \E i \in DOMAIN stack : stack[i].kind = "def" /\ stack[i].of = b[2] /\ b = stack[i].block
    BY <1>5
  <2>2. (\E i \in DOMAIN stack' :
           stack'[i].kind \in {"value", "array"} /\ i - 1 = b[2] /\ b = stack'[i].block)
          <=> \E i \in DOMAIN stack :
                stack[i].kind \in {"value", "array"} /\ i - 1 = b[2] /\ b = stack[i].block
    BY <1>5
  <2>3. (\E i \in DOMAIN stack' : stack'[i].kind = "value" /\ i - 1 = b[2] /\ b = stack'[i].value)
          <=> \E i \in DOMAIN stack : stack[i].kind = "value" /\ i - 1 = b[2] /\ b = stack[i].value
    BY <1>5
  <2>4. OwnerByName(b)' <=> OwnerByName(b)
    BY <2>1, <2>2, <2>3 DEF OwnerByName
  <2> QED
    BY <1>6, <2>4
<1>8. \A t, new : t.value \notin DOMAIN new => Held(t, t, new)
  BY DEF Held
<1>9. \A v \in Variables :
         /\ inst'[v].block # Null => inst'[v].block = inst[v].block /\ inst'[v].block \notin DOMAIN <<>>
         /\ Held(ValueOf(inst'[v]), ValueOf(inst[v]), <<>>)
  BY <1>6, <1>8
<1>10. \A r \in Registers : Held(regs'[r], regs[r], <<>>)
  BY <1>6, <1>8
<1>11. \A i \in DOMAIN stack' : stack'[i].kind = "value" =>
         i \in DOMAIN stack /\ stack[i].kind = "value" /\ Held(ValueOf(stack'[i]), ValueOf(stack[i]), <<>>)
  BY <1>5, <1>6, <1>8
<1>12. Held(rv', rv, <<>>) /\ \A n \in Literals : Literal(n) \notin DOMAIN <<>>
  BY <1>6, <1>8
<1>13. HeapInv' /\ SizesInv'
  <2>1. /\ \A t \in {} : Readable(t)
        /\ {} \subseteq Owned /\ \A b \in DOMAIN <<>> : <<>>[b] \in Nat
    BY <1>6
  <2> QED
    BY ONLY IInv, Running, <1>2, <2>1, <1>3, <1>4, <1>7, <1>9, <1>10, <1>11, <1>12, HeapStep
<1> QED
  BY <1>1, <1>3, <1>4, <1>13, RunningIInv DEF Running

(* A name that is in no other use.                                         *)
LEMMA NewName == \A for, of, old : For(New(for, of, old), for, of)
  BY DEF New, For

(* An entry is pushed that is no marker.                                   *)
LEMMA PushStack ==
  ASSUME TypeOK, StackInv, DefsInv, ScopesInv, NEW e,
         stack' = Append(stack, e), UNCHANGED scopes,
         e.kind # "marker",
         e.kind \in {"value", "array"} => scopes # <<>>,
         e.kind = "def" => ~Defined(e.of),
         \A i : i = Len(stack) + 1 => EntryInv(i)',
         \A v \in Strings \cup Arrays :
           /\ inst[v].block # Null => inst'[v].block # Null
           /\ inst'[v].block # Null => inst[v].block # Null \/ (e.kind = "def" /\ e.of = v)
  PROVE  /\ StackInv' /\ DefsInv' /\ ScopesInv'
         /\ DOMAIN stack' = 1 .. Len(stack) + 1 /\ DOMAIN stack = 1 .. Len(stack)
         /\ \A i \in DOMAIN stack : stack'[i] = stack[i]
         /\ Len(stack) \in Nat /\ stack'[Len(stack) + 1] = e
<1> DEFINE k == Len(stack)
<1>2. scopes \in Seq(ScopeKinds) /\ stack \in Seq(Range(stack))
  BY DEF TypeOK, StackInv
<1>3. /\ k \in Nat /\ DOMAIN stack = 1 .. k
      /\ stack' \in Seq(Range(stack')) /\ Len(stack') = k + 1 /\ DOMAIN stack' = 1 .. k + 1
      /\ \A i \in 1 .. k : stack'[i] = stack[i]
      /\ stack'[k + 1] = e
  BY <1>2, Pushed
<1> HIDE DEF k
<1>4. /\ \A i \in DOMAIN stack' : i = k + 1 \/ (i \in DOMAIN stack /\ i < k + 1 /\ stack'[i] = stack[i])
      /\ \A i \in DOMAIN stack : i \in DOMAIN stack' /\ i < k + 1 /\ stack'[i] = stack[i]
      /\ k + 1 \in DOMAIN stack' /\ stack'[k + 1] = e
  BY <1>3
<1>6. StackInv'
  <2>1. ASSUME NEW i \in 1 .. k
        PROVE  EntryInv(i)'
    <3>1. EntryInv(i)
      BY <1>3, <2>1 DEF StackInv
    <3>2. \A j \in 1 .. i - 1 : j \in 1 .. k
      BY <1>3
    <3>3. stack'[i] = stack[i] /\ i \in DOMAIN stack
      BY <1>3
    <3>4. stack[i].kind = "array" /\ (\E j \in 1 .. i - 1 : stack[j].kind = "def" /\ stack[j].of = stack[i].of)
            => \E j \in 1 .. i - 1 : stack'[j].kind = "def" /\ stack'[j].of = stack[i].of
      BY <1>3, <3>2
    <3>5. stack[i].kind = "def" /\ stack[i].of \in Strings \cup Arrays /\ inst[stack[i].of].block # Null
            => inst'[stack[i].of].block # Null
      OBVIOUS
    <3>6. CASE stack[i].kind \in {"marker", "value"}
      BY <3>1, <3>3, <3>6 DEF EntryInv
    <3>7. CASE stack[i].kind = "def"
      BY <3>1, <3>3, <3>5, <3>7 DEF EntryInv
    <3>8. CASE stack[i].kind = "array"
      <4>1. /\ IsEntry(stack[i]) /\ stack[i].len \in Nat
            /\ For(stack[i].block, "argument entry", i - 1)
            /\ stack[i].of \in Arrays /\ stack[i].value = VariableEntry(stack[i].of)
            /\ \E j \in 1 .. i - 1 : stack[j].kind = "def" /\ stack[j].of = stack[i].of
        BY <3>1, <3>8 DEF EntryInv
      <4>2. \E j \in 1 .. i - 1 : stack'[j].kind = "def" /\ stack'[j].of = stack[i].of
        BY <3>4, <3>8, <4>1
      <4>3. IsEntry(stack[i])'
        BY <3>3, <4>1 DEF IsEntry
      <4>4. /\ stack'[i].kind = "array" /\ stack'[i].len \in Nat /\ stack'[i].of \in Arrays
            /\ stack'[i].value = VariableEntry(stack'[i].of)
            /\ stack'[i].block[1] = "argument entry" /\ stack'[i].block[2] = i - 1
        BY <3>3, <3>8, <4>1 DEF For
      <4>5. \E j \in 1 .. i - 1 : stack'[j].kind = "def" /\ stack'[j].of = stack'[i].of
        BY <3>3, <4>2
      <4> QED
        BY <4>3, <4>4, <4>5 DEF EntryInv, For
    <3>9. stack[i].kind \in {"marker", "def", "value", "array"}
      BY <3>1 DEF EntryInv
    <3> QED
      BY <3>6, <3>7, <3>8, <3>9
  <2>3. ASSUME NEW i \in DOMAIN stack'
        PROVE  EntryInv(i)'
    <3>1. i \in 1 .. k \/ i = k + 1
      BY <1>3
    <3> QED
      BY <2>1, <3>1 DEF k
  <2> QED
    BY <1>3, <2>3 DEF StackInv
<1>7. DefsInv'
  <2>1. ASSUME NEW i \in DOMAIN stack', NEW j \in DOMAIN stack',
               stack'[i].kind = "def", stack'[j].kind = "def", stack'[i].of = stack'[j].of
        PROVE  i = j
    <3>1. ASSUME NEW m \in DOMAIN stack, e.kind = "def"
          PROVE  ~(stack[m].kind = "def" /\ stack[m].of = e.of)
      BY <3>1 DEF Defined
    <3>2. CASE i = k + 1 /\ j = k + 1
      BY <3>2
    <3>3. CASE i = k + 1 /\ j \in DOMAIN stack
      BY <1>4, <2>1, <3>1, <3>3
    <3>4. CASE j = k + 1 /\ i \in DOMAIN stack
      BY <1>4, <2>1, <3>1, <3>4
    <3>5. CASE i \in DOMAIN stack /\ j \in DOMAIN stack
      BY <1>4, <2>1, <3>5 DEF DefsInv
    <3> QED
      BY <1>4, <3>2, <3>3, <3>4, <3>5
  <2>2. ASSUME NEW v \in Strings \cup Arrays, inst'[v].block # Null
        PROVE  Defined(v)'
    <3>1. CASE inst[v].block # Null
      <4>1. PICK i \in DOMAIN stack : stack[i].kind = "def" /\ stack[i].of = v
        BY <3>1 DEF DefsInv, Defined
      <4> QED
        BY <1>4, <4>1 DEF Defined
    <3>2. CASE e.kind = "def" /\ e.of = v
      BY <1>4, <3>2 DEF Defined
    <3> QED
      BY <2>2, <3>1, <3>2
  <2> QED
    BY <2>1, <2>2 DEF DefsInv
<1>8. ScopesInv'
  <2>1. \A i \in DOMAIN stack' : stack'[i].kind = "marker" => i \in DOMAIN stack /\ stack'[i] = stack[i]
    BY <1>4
  <2>2. \A i \in DOMAIN stack : i \in DOMAIN stack' /\ stack'[i] = stack[i]
    BY <1>4
  <2>3. \A i \in DOMAIN stack' : stack'[i].kind = "marker" => stack'[i].of \in DOMAIN scopes'
    BY <2>1 DEF ScopesInv, IsMarker
  <2>4. \A n \in DOMAIN scopes' : \E i \in DOMAIN stack' : stack'[i].kind = "marker" /\ stack'[i].of = n
    BY <2>2 DEF ScopesInv, IsMarker
  <2>5. \A i, j \in DOMAIN stack' :
          stack'[i].kind = "marker" /\ stack'[j].kind = "marker" /\ i < j => stack'[i].of < stack'[j].of
    BY <2>1 DEF ScopesInv, IsMarker
  <2>6. ASSUME NEW i \in DOMAIN stack', stack'[i].kind \in {"value", "array"}
        PROVE  \E j \in 1 .. i - 1 : stack'[j].kind = "marker"
    <3>1. CASE i \in DOMAIN stack
      <4>1. PICK j \in 1 .. i - 1 : stack[j].kind = "marker"
        BY <1>4, <2>6, <3>1 DEF ScopesInv, IsMarker
      <4>2. stack'[j] = stack[j]
        BY <1>3, <3>1
      <4> QED
        BY <4>1, <4>2
    <3>2. CASE i = k + 1
      <4>1. scopes # <<>>
        BY <1>4, <2>6, <3>2
      <4>2. 1 \in DOMAIN scopes
        BY <1>2, <4>1, EmptySeq, LenProperties
      <4>3. PICK j \in DOMAIN stack : stack[j].kind = "marker"
        BY <4>2 DEF ScopesInv, IsMarker
      <4>4. j \in 1 .. i - 1 /\ stack'[j] = stack[j]
        BY <1>3, <3>2
      <4> QED
        BY <4>3, <4>4
    <3> QED
      BY <1>4, <3>1, <3>2
  <2>7. \A m \in DOMAIN scopes' : scopes'[m] = "body" => m > 1
    BY DEF ScopesInv
  <2> QED
    BY <2>3, <2>4, <2>5, <2>6, <2>7 DEF ScopesInv, IsMarker
<1> QED
  BY <1>3, <1>6, <1>7, <1>8 DEF k

(* The entries that own a block, after a push.                             *)
LEMMA PushedOwners ==
  ASSUME NEW e, NEW b, Len(stack) \in Nat,
         DOMAIN stack' = 1 .. Len(stack) + 1, DOMAIN stack = 1 .. Len(stack),
         \A i \in DOMAIN stack : stack'[i] = stack[i],
         stack'[Len(stack) + 1] = e
  PROVE  /\ (\E i \in DOMAIN stack' : stack'[i].kind = "def" /\ stack'[i].of = b[2] /\ b = stack'[i].block)
              <=> \/ \E i \in DOMAIN stack : stack[i].kind = "def" /\ stack[i].of = b[2] /\ b = stack[i].block
                  \/ e.kind = "def" /\ e.of = b[2] /\ b = e.block
         /\ (\E i \in DOMAIN stack' :
               stack'[i].kind \in {"value", "array"} /\ i - 1 = b[2] /\ b = stack'[i].block)
              <=> \/ \E i \in DOMAIN stack :
                       stack[i].kind \in {"value", "array"} /\ i - 1 = b[2] /\ b = stack[i].block
                  \/ e.kind \in {"value", "array"} /\ Len(stack) = b[2] /\ b = e.block
         /\ (\E i \in DOMAIN stack' : stack'[i].kind = "value" /\ i - 1 = b[2] /\ b = stack'[i].value)
              <=> \/ \E i \in DOMAIN stack : stack[i].kind = "value" /\ i - 1 = b[2] /\ b = stack[i].value
                  \/ e.kind = "value" /\ Len(stack) = b[2] /\ b = e.value
<1> DEFINE k == Len(stack)
<1>1. /\ \A i \in DOMAIN stack' : i = k + 1 \/ (i \in DOMAIN stack /\ stack'[i] = stack[i])
      /\ \A i \in DOMAIN stack : i \in DOMAIN stack' /\ stack'[i] = stack[i]
      /\ k + 1 \in DOMAIN stack' /\ stack'[k + 1] = e /\ (k + 1) - 1 = k
  OBVIOUS
<1> HIDE DEF k
<1>2. (\E i \in DOMAIN stack' : stack'[i].kind = "def" /\ stack'[i].of = b[2] /\ b = stack'[i].block)
         <=> \/ \E i \in DOMAIN stack : stack[i].kind = "def" /\ stack[i].of = b[2] /\ b = stack[i].block
             \/ e.kind = "def" /\ e.of = b[2] /\ b = e.block
  BY <1>1
<1>3. (\E i \in DOMAIN stack' :
          stack'[i].kind \in {"value", "array"} /\ i - 1 = b[2] /\ b = stack'[i].block)
         <=> \/ \E i \in DOMAIN stack :
                  stack[i].kind \in {"value", "array"} /\ i - 1 = b[2] /\ b = stack[i].block
             \/ e.kind \in {"value", "array"} /\ k = b[2] /\ b = e.block
  BY <1>1
<1>4. (\E i \in DOMAIN stack' : stack'[i].kind = "value" /\ i - 1 = b[2] /\ b = stack'[i].value)
         <=> \/ \E i \in DOMAIN stack : stack[i].kind = "value" /\ i - 1 = b[2] /\ b = stack[i].value
             \/ e.kind = "value" /\ k = b[2] /\ b = e.value
  BY <1>1
<1> QED
  BY <1>2, <1>3, <1>4 DEF k

(* A string is pushed as an argument: its entry and its value are new.      *)
LEMMA PushStringIInv ==
  ASSUME IInv, Running, NEW r \in Registers, PushString(r)
  PROVE  IInv'
<1> DEFINE k   == Len(stack)
           b   == New("argument entry", k, {})
           c   == New("argument", k, {})
           len == regs[r].len
           new == [d \in {b, c} |-> IF d = b THEN 1 ELSE len]
           e   == Entry("value", b, c, len, 0)
           reads == {regs[r]}
           frees == {}
<1>1. TypeOK /\ NamesInv /\ StackInv /\ DefsInv /\ ScopesInv
  BY DEF IInv
<1>2. /\ Memory(reads, frees, new) /\ stack' = Append(stack, e)
      /\ UNCHANGED <<inst, regs, rv, scopes>> /\ scopes # <<>>
  BY DEF PushString, InCall
<1>3. For(b, "argument entry", k) /\ For(c, "argument", k) /\ b # c
  <2>1. For(b, "argument entry", k)
    BY NewName
  <2>2. For(c, "argument", k)
    BY NewName
  <2> QED
    BY <2>1, <2>2 DEF For
<1>4. /\ IsEntry(e) /\ e.kind = "value" /\ e.block = b /\ e.value = c /\ e.len = len
  BY DEF Entry, IsEntry
<1>5. len \in Nat /\ Readable(regs[r])
  BY <1>1 DEF TypeOK, IsText, IInv, SizesInv, LengthsFit
<1>6. k \in Nat
  BY <1>1, LenProperties DEF StackInv
<1>7. DOMAIN new = {b, c} /\ new[b] = 1 /\ new[c] = len
  BY <1>3
<1> HIDE DEF k, b, c, len, new, e
<1>8. ASSUME NEW i, i = Len(stack) + 1
      PROVE  EntryInv(i)'
  <2>1. /\ stack'[i] = e /\ i - 1 = k
    BY <1>1, <1>2, <1>6, <1>8, Pushed DEF StackInv, k
  <2>2. /\ stack'[i].kind = "value" /\ stack'[i].len \in Nat
        /\ For(stack'[i].block, "argument entry", i - 1) /\ For(stack'[i].value, "argument", i - 1)
    BY <1>3, <1>4, <1>5, <2>1
  <2>3. IsEntry(stack[i])'
    BY <1>4, <2>1 DEF IsEntry
  <2> QED
    BY <2>2, <2>3 DEF EntryInv, For
<1>9. /\ StackInv' /\ DefsInv' /\ ScopesInv'
      /\ DOMAIN stack' = 1 .. Len(stack) + 1 /\ DOMAIN stack = 1 .. Len(stack)
      /\ \A i \in DOMAIN stack : stack'[i] = stack[i]
      /\ Len(stack) \in Nat /\ stack'[Len(stack) + 1] = e
  <2>1. e.kind = "value" /\ e.kind # "marker" /\ e.kind # "def"
    BY <1>4
  <2>2. \A v \in Strings \cup Arrays :
           /\ inst[v].block # Null => inst'[v].block # Null
           /\ inst'[v].block # Null => inst[v].block # Null \/ (e.kind = "def" /\ e.of = v)
    BY <1>2
  <2> QED
    BY <1>1, <1>2, <1>8, <2>1, <2>2, PushStack
<1>10. \A d \in DOMAIN new : new[d] \in Nat
  BY <1>5, <1>7
<1> HIDE DEF reads, frees
<1>11. /\ \A t \in reads : Readable(t)
       /\ frees \subseteq Owned
  BY <1>5 DEF reads, frees
<1>12. /\ status' = "running"
       /\ heap' = [d \in DOMAIN heap' |-> heap'[d]]
       /\ \A d \in DOMAIN heap' : heap'[d] \in Nat
  BY ONLY IInv, Running, <1>2, <1>10, <1>11, MemoryStep
<1>13. TypeOK' /\ NamesInv'
  BY <1>1, <1>2, <1>12 DEF TypeOK, NamesInv
<1>14. ASSUME NEW d
       PROVE  OwnerByName(d)' <=> (OwnerByName(d) /\ d \notin Blocks(frees)) \/ d \in DOMAIN new
  <2>1. d \notin Blocks(frees)
    BY DEF Blocks, frees
  <2>2. d \in DOMAIN new <=> \/ d[1] = "argument entry" /\ k = d[2] /\ d = e.block
                             \/ d[1] = "argument" /\ k = d[2] /\ d = e.value
    BY <1>3, <1>4, <1>7 DEF For
  <2>3. OwnerByName(d)' <=> \/ OwnerByName(d)
                            \/ d[1] = "argument entry" /\ k = d[2] /\ d = e.block
                            \/ d[1] = "argument" /\ k = d[2] /\ d = e.value
    <3>1. e.kind = "value" /\ e.kind # "def" /\ e.kind \in {"value", "array"}
      BY <1>4
    <3>2. k = Len(stack)
      BY DEF k
    <3>3. /\ (\E i \in DOMAIN stack' : stack'[i].kind = "def" /\ stack'[i].of = d[2] /\ d = stack'[i].block)
              <=> \/ \E i \in DOMAIN stack : stack[i].kind = "def" /\ stack[i].of = d[2] /\ d = stack[i].block
                  \/ e.kind = "def" /\ e.of = d[2] /\ d = e.block
          /\ (\E i \in DOMAIN stack' :
               stack'[i].kind \in {"value", "array"} /\ i - 1 = d[2] /\ d = stack'[i].block)
              <=> \/ \E i \in DOMAIN stack :
                       stack[i].kind \in {"value", "array"} /\ i - 1 = d[2] /\ d = stack[i].block
                  \/ e.kind \in {"value", "array"} /\ Len(stack) = d[2] /\ d = e.block
          /\ (\E i \in DOMAIN stack' : stack'[i].kind = "value" /\ i - 1 = d[2] /\ d = stack'[i].value)
              <=> \/ \E i \in DOMAIN stack : stack[i].kind = "value" /\ i - 1 = d[2] /\ d = stack[i].value
                  \/ e.kind = "value" /\ Len(stack) = d[2] /\ d = e.value
      <4>1. /\ Len(stack) \in Nat
            /\ DOMAIN stack' = 1 .. Len(stack) + 1 /\ DOMAIN stack = 1 .. Len(stack)
            /\ \A i \in DOMAIN stack : stack'[i] = stack[i]
            /\ stack'[Len(stack) + 1] = e
        BY <1>9
      <4>2. (\E i \in DOMAIN stack' : stack'[i].kind = "def" /\ stack'[i].of = d[2] /\ d = stack'[i].block)
              <=> \/ \E i \in DOMAIN stack : stack[i].kind = "def" /\ stack[i].of = d[2] /\ d = stack[i].block
                  \/ e.kind = "def" /\ e.of = d[2] /\ d = e.block
        BY ONLY <4>1, PushedOwners
      <4>3. (\E i \in DOMAIN stack' :
               stack'[i].kind \in {"value", "array"} /\ i - 1 = d[2] /\ d = stack'[i].block)
              <=> \/ \E i \in DOMAIN stack :
                       stack[i].kind \in {"value", "array"} /\ i - 1 = d[2] /\ d = stack[i].block
                  \/ e.kind \in {"value", "array"} /\ Len(stack) = d[2] /\ d = e.block
        BY ONLY <4>1, PushedOwners
      <4>4. (\E i \in DOMAIN stack' : stack'[i].kind = "value" /\ i - 1 = d[2] /\ d = stack'[i].value)
              <=> \/ \E i \in DOMAIN stack : stack[i].kind = "value" /\ i - 1 = d[2] /\ d = stack[i].value
                  \/ e.kind = "value" /\ Len(stack) = d[2] /\ d = e.value
        BY ONLY <4>1, PushedOwners
      <4> QED
        BY ONLY <4>2, <4>3, <4>4
    <3>4. /\ (\E i \in DOMAIN stack' : stack'[i].kind = "def" /\ stack'[i].of = d[2] /\ d = stack'[i].block)
              <=> \E i \in DOMAIN stack : stack[i].kind = "def" /\ stack[i].of = d[2] /\ d = stack[i].block
          /\ (\E i \in DOMAIN stack' :
               stack'[i].kind \in {"value", "array"} /\ i - 1 = d[2] /\ d = stack'[i].block)
              <=> \/ \E i \in DOMAIN stack :
                       stack[i].kind \in {"value", "array"} /\ i - 1 = d[2] /\ d = stack[i].block
                  \/ k = d[2] /\ d = e.block
          /\ (\E i \in DOMAIN stack' : stack'[i].kind = "value" /\ i - 1 = d[2] /\ d = stack'[i].value)
              <=> \/ \E i \in DOMAIN stack : stack[i].kind = "value" /\ i - 1 = d[2] /\ d = stack[i].value
                  \/ k = d[2] /\ d = e.value
      BY ONLY <3>1, <3>2, <3>3
    <3>5. CASE d[1] \in {"argument entry", "argument"}
      BY <3>4, <3>5 DEF OwnerByName
    <3>6. CASE d[1] \notin {"argument entry", "argument"}
      BY <1>2, <3>4, <3>6 DEF OwnerByName
    <3> QED
      BY <3>5, <3>6
  <2> QED
    BY <2>1, <2>2, <2>3
<1>15. \A t : t.value \notin DOMAIN new => Held(t, t, new)
  BY DEF Held
<1>16. /\ \A d \in DOMAIN new : d[1] \in {"argument entry", "argument"} /\ d[2] = k
       /\ Null[1] = "null" /\ Null \notin DOMAIN new
  <2>1. b[1] = "argument entry" /\ b[2] = k /\ c[1] = "argument" /\ c[2] = k
    BY <1>3 DEF For
  <2>2. \A d \in DOMAIN new : d[1] \in {"argument entry", "argument"} /\ d[2] = k
    BY <1>7, <2>1
  <2>3. Null[1] = "null"
    BY DEF Null
  <2> QED
    BY <2>2, <2>3
<1>17. ASSUME NEW v \in Variables
       PROVE  /\ inst'[v].block # Null => inst'[v].block = inst[v].block /\ inst'[v].block \notin DOMAIN new
              /\ Held(ValueOf(inst'[v]), ValueOf(inst[v]), new)
  <2>1. inst[v].block \notin DOMAIN new /\ inst[v].value \notin DOMAIN new
    <3>1. \/ inst[v].block = Null /\ inst[v].value = Null
          \/ inst[v].block[1] = "instantiation" /\ inst[v].value[1] = "value"
      BY <1>1 DEF NamesInv, For
    <3> QED
      BY <1>16, <3>1
  <2>2. ValueOf(inst[v]).value = inst[v].value
    BY DEF ValueOf, Text
  <2> QED
    BY <1>2, <1>15, <2>1, <2>2
<1>18. ASSUME NEW q \in Registers
       PROVE  Held(regs'[q], regs[q], new)
  <2>1. regs[q].value \notin DOMAIN new
    BY <1>1, <1>16 DEF NamesInv, For
  <2> QED
    BY <1>2, <1>15, <2>1
<1>19. ASSUME NEW i \in DOMAIN stack', stack'[i].kind = "value"
       PROVE  \/ /\ i \in DOMAIN stack /\ stack[i].kind = "value"
                 /\ Held(ValueOf(stack'[i]), ValueOf(stack[i]), new)
              \/ stack'[i].value \in DOMAIN new /\ stack'[i].len <= new[stack'[i].value]
  <2>1. CASE i = k + 1
    BY <1>4, <1>5, <1>7, <1>9, <2>1 DEF k
  <2>2. CASE i # k + 1
    <3>1. i \in DOMAIN stack /\ stack'[i] = stack[i] /\ i - 1 # k
      BY <1>9, <2>2 DEF k
    <3>2. stack[i].value[2] = i - 1
      BY <1>1, <1>19, <3>1 DEF StackInv, EntryInv, For
    <3> QED
      BY <1>15, <1>16, <1>19, <3>1, <3>2 DEF ValueOf, Text
  <2> QED
    BY <2>1, <2>2
<1>20. Held(rv', rv, new)
  <2>1. rv.value \notin DOMAIN new
    BY <1>1, <1>16 DEF NamesInv, For
  <2> QED
    BY <1>2, <1>15, <2>1
<1>21. \A n \in Literals : Literal(n) \notin DOMAIN new
  BY <1>16 DEF Literal
<1>22. HeapInv' /\ SizesInv'
  BY ONLY IInv, Running, <1>2, <1>9, <1>10, <1>11, <1>13, <1>14, <1>17, <1>18, <1>19, <1>20, <1>21, HeapStep
<1> QED
  BY <1>9, <1>12, <1>13, <1>22, RunningIInv

(* An array is pushed: its entry is new, the array is not.                 *)
LEMMA PushArrayIInv ==
  ASSUME IInv, Running, NEW a \in Arrays, PushArray(a)
  PROVE  IInv'
<1> DEFINE k   == Len(stack)
           b   == New("argument entry", k, {})
           new == Only(b, 1)
           e   == Entry("array", b, VariableEntry(a), 0, a)
           reads == {}
           frees == {}
<1>1. TypeOK /\ NamesInv /\ StackInv /\ DefsInv /\ ScopesInv
  BY DEF IInv
<1>2. /\ Memory(reads, frees, new) /\ stack' = Append(stack, e)
      /\ UNCHANGED <<inst, regs, rv, scopes>> /\ scopes # <<>>
  BY DEF PushArray, InCall
<1>3. For(b, "argument entry", k) /\ b[1] = "argument entry" /\ b[2] = k
  <2>1. For(b, "argument entry", k)
    BY NewName
  <2> QED
    BY <2>1 DEF For
<1>4. /\ IsEntry(e) /\ e.kind = "array" /\ e.block = b /\ e.value = VariableEntry(a) /\ e.len = 0
      /\ e.of = a
  BY DEF Entry, IsEntry
<1>5. PICK p \in DOMAIN stack : stack[p].kind = "def" /\ stack[p].of = a
  BY DEF PushArray, Defined
<1>6. k \in Nat
  BY <1>1, LenProperties DEF StackInv
<1>7. DOMAIN new = {b} /\ new[b] = 1
  BY DEF Only
<1> HIDE DEF k, b, new, e
<1>8. ASSUME NEW i, i = Len(stack) + 1
      PROVE  EntryInv(i)'
  <2>1. /\ stack'[i] = e /\ i - 1 = k
    BY <1>1, <1>2, <1>6, <1>8, Pushed DEF StackInv, k
  <2>2. /\ stack'[i].kind = "array" /\ stack'[i].len = 0 /\ stack'[i].of \in Arrays
        /\ stack'[i].of = a /\ stack'[i].value = VariableEntry(stack'[i].of)
        /\ For(stack'[i].block, "argument entry", i - 1)
    BY <1>3, <1>4, <2>1
  <2>4. p \in 1 .. i - 1 /\ stack'[p] = stack[p]
    BY <1>1, <1>2, <1>5, <1>8, Pushed DEF StackInv, k
  <2>5. \E j \in 1 .. i - 1 : stack'[j].kind = "def" /\ stack'[j].of = stack'[i].of
    BY <1>5, <2>2, <2>4
  <2>6. stack'[i].len \in Nat
    <3>1. stack'[i].len = 0
      BY <2>2
    <3> QED
      BY <3>1
  <2>7. stack'[i].block[1] = "argument entry" /\ stack'[i].block[2] = i - 1
    BY <2>2 DEF For
  <2>3. IsEntry(stack[i])'
    BY <1>4, <2>1 DEF IsEntry
  <2> QED
    BY <2>2, <2>3, <2>5, <2>6, <2>7 DEF EntryInv, For
<1>9. /\ StackInv' /\ DefsInv' /\ ScopesInv'
      /\ DOMAIN stack' = 1 .. Len(stack) + 1 /\ DOMAIN stack = 1 .. Len(stack)
      /\ \A i \in DOMAIN stack : stack'[i] = stack[i]
      /\ Len(stack) \in Nat /\ stack'[Len(stack) + 1] = e
  <2>1. e.kind = "array" /\ e.kind # "marker" /\ e.kind # "def"
    BY <1>4
  <2>2. \A v \in Strings \cup Arrays :
           /\ inst[v].block # Null => inst'[v].block # Null
           /\ inst'[v].block # Null => inst[v].block # Null \/ (e.kind = "def" /\ e.of = v)
    BY <1>2
  <2> QED
    BY <1>1, <1>2, <1>8, <2>1, <2>2, PushStack
<1>10. \A d \in DOMAIN new : new[d] \in Nat
  BY <1>7
<1> HIDE DEF reads, frees
<1>11. /\ \A t \in reads : Readable(t)
       /\ frees \subseteq Owned
  BY DEF reads, frees
<1>12. /\ status' = "running"
       /\ heap' = [d \in DOMAIN heap' |-> heap'[d]]
       /\ \A d \in DOMAIN heap' : heap'[d] \in Nat
  BY ONLY IInv, Running, <1>2, <1>10, <1>11, MemoryStep
<1>13. TypeOK' /\ NamesInv'
  BY <1>1, <1>2, <1>12 DEF TypeOK, NamesInv
<1>14. ASSUME NEW d
       PROVE  OwnerByName(d)' <=> (OwnerByName(d) /\ d \notin Blocks(frees)) \/ d \in DOMAIN new
  <2>1. d \notin Blocks(frees)
    BY DEF Blocks, frees
  <2>2. d \in DOMAIN new <=> d[1] = "argument entry" /\ k = d[2] /\ d = e.block
    BY <1>3, <1>4, <1>7
  <2>3. OwnerByName(d)' <=> \/ OwnerByName(d)
                            \/ d[1] = "argument entry" /\ k = d[2] /\ d = e.block
    <3>1. e.kind # "value" /\ e.kind # "def" /\ e.kind \in {"value", "array"}
      BY <1>4
    <3>2. k = Len(stack)
      BY DEF k
    <3>3. /\ (\E i \in DOMAIN stack' : stack'[i].kind = "def" /\ stack'[i].of = d[2] /\ d = stack'[i].block)
              <=> \/ \E i \in DOMAIN stack : stack[i].kind = "def" /\ stack[i].of = d[2] /\ d = stack[i].block
                  \/ e.kind = "def" /\ e.of = d[2] /\ d = e.block
          /\ (\E i \in DOMAIN stack' :
               stack'[i].kind \in {"value", "array"} /\ i - 1 = d[2] /\ d = stack'[i].block)
              <=> \/ \E i \in DOMAIN stack :
                       stack[i].kind \in {"value", "array"} /\ i - 1 = d[2] /\ d = stack[i].block
                  \/ e.kind \in {"value", "array"} /\ Len(stack) = d[2] /\ d = e.block
          /\ (\E i \in DOMAIN stack' : stack'[i].kind = "value" /\ i - 1 = d[2] /\ d = stack'[i].value)
              <=> \/ \E i \in DOMAIN stack : stack[i].kind = "value" /\ i - 1 = d[2] /\ d = stack[i].value
                  \/ e.kind = "value" /\ Len(stack) = d[2] /\ d = e.value
      <4>1. /\ Len(stack) \in Nat
            /\ DOMAIN stack' = 1 .. Len(stack) + 1 /\ DOMAIN stack = 1 .. Len(stack)
            /\ \A i \in DOMAIN stack : stack'[i] = stack[i]
            /\ stack'[Len(stack) + 1] = e
        BY <1>9
      <4>2. (\E i \in DOMAIN stack' : stack'[i].kind = "def" /\ stack'[i].of = d[2] /\ d = stack'[i].block)
              <=> \/ \E i \in DOMAIN stack : stack[i].kind = "def" /\ stack[i].of = d[2] /\ d = stack[i].block
                  \/ e.kind = "def" /\ e.of = d[2] /\ d = e.block
        BY ONLY <4>1, PushedOwners
      <4>3. (\E i \in DOMAIN stack' :
               stack'[i].kind \in {"value", "array"} /\ i - 1 = d[2] /\ d = stack'[i].block)
              <=> \/ \E i \in DOMAIN stack :
                       stack[i].kind \in {"value", "array"} /\ i - 1 = d[2] /\ d = stack[i].block
                  \/ e.kind \in {"value", "array"} /\ Len(stack) = d[2] /\ d = e.block
        BY ONLY <4>1, PushedOwners
      <4>4. (\E i \in DOMAIN stack' : stack'[i].kind = "value" /\ i - 1 = d[2] /\ d = stack'[i].value)
              <=> \/ \E i \in DOMAIN stack : stack[i].kind = "value" /\ i - 1 = d[2] /\ d = stack[i].value
                  \/ e.kind = "value" /\ Len(stack) = d[2] /\ d = e.value
        BY ONLY <4>1, PushedOwners
      <4> QED
        BY ONLY <4>2, <4>3, <4>4
    <3>4. /\ (\E i \in DOMAIN stack' : stack'[i].kind = "def" /\ stack'[i].of = d[2] /\ d = stack'[i].block)
              <=> \E i \in DOMAIN stack : stack[i].kind = "def" /\ stack[i].of = d[2] /\ d = stack[i].block
          /\ (\E i \in DOMAIN stack' :
               stack'[i].kind \in {"value", "array"} /\ i - 1 = d[2] /\ d = stack'[i].block)
              <=> \/ \E i \in DOMAIN stack :
                       stack[i].kind \in {"value", "array"} /\ i - 1 = d[2] /\ d = stack[i].block
                  \/ k = d[2] /\ d = e.block
          /\ (\E i \in DOMAIN stack' : stack'[i].kind = "value" /\ i - 1 = d[2] /\ d = stack'[i].value)
              <=> \E i \in DOMAIN stack : stack[i].kind = "value" /\ i - 1 = d[2] /\ d = stack[i].value
      BY ONLY <3>1, <3>2, <3>3
    <3>5. CASE d[1] \in {"argument entry", "argument"}
      BY <3>4, <3>5 DEF OwnerByName
    <3>6. CASE d[1] \notin {"argument entry", "argument"}
      BY <1>2, <3>4, <3>6 DEF OwnerByName
    <3> QED
      BY <3>5, <3>6
  <2> QED
    BY <2>1, <2>2, <2>3
<1>15. \A t : t.value \notin DOMAIN new => Held(t, t, new)
  BY DEF Held
<1>16. /\ \A d \in DOMAIN new : d[1] = "argument entry"
       /\ Null[1] = "null" /\ Null \notin DOMAIN new
  <2>2. \A d \in DOMAIN new : d[1] = "argument entry"
    BY <1>3, <1>7
  <2>3. Null[1] = "null"
    BY DEF Null
  <2> QED
    BY <2>2, <2>3
<1>17. ASSUME NEW v \in Variables
       PROVE  /\ inst'[v].block # Null => inst'[v].block = inst[v].block /\ inst'[v].block \notin DOMAIN new
              /\ Held(ValueOf(inst'[v]), ValueOf(inst[v]), new)
  <2>1. inst[v].block \notin DOMAIN new /\ inst[v].value \notin DOMAIN new
    <3>1. \/ inst[v].block = Null /\ inst[v].value = Null
          \/ inst[v].block[1] = "instantiation" /\ inst[v].value[1] = "value"
      BY <1>1 DEF NamesInv, For
    <3> QED
      BY <1>16, <3>1
  <2>2. ValueOf(inst[v]).value = inst[v].value
    BY DEF ValueOf, Text
  <2> QED
    BY <1>2, <1>15, <2>1, <2>2
<1>18. ASSUME NEW q \in Registers
       PROVE  Held(regs'[q], regs[q], new)
  <2>1. regs[q].value \notin DOMAIN new
    BY <1>1, <1>16 DEF NamesInv, For
  <2> QED
    BY <1>2, <1>15, <2>1
<1>19. ASSUME NEW i \in DOMAIN stack', stack'[i].kind = "value"
       PROVE  /\ i \in DOMAIN stack /\ stack[i].kind = "value"
              /\ Held(ValueOf(stack'[i]), ValueOf(stack[i]), new)
  <2>1. i \in DOMAIN stack /\ stack'[i] = stack[i]
    BY <1>4, <1>9, <1>19
  <2>2. stack[i].value[1] = "argument"
    BY <1>1, <1>19, <2>1 DEF StackInv, EntryInv, For
  <2> QED
    BY <1>15, <1>16, <1>19, <2>1, <2>2 DEF ValueOf, Text
<1>20. Held(rv', rv, new)
  <2>1. rv.value \notin DOMAIN new
    BY <1>1, <1>16 DEF NamesInv, For
  <2> QED
    BY <1>2, <1>15, <2>1
<1>21. \A n \in Literals : Literal(n) \notin DOMAIN new
  BY <1>16 DEF Literal
<1>22. HeapInv' /\ SizesInv'
  BY ONLY IInv, Running, <1>2, <1>9, <1>10, <1>11, <1>13, <1>14, <1>17, <1>18, <1>19, <1>20, <1>21, HeapStep
<1> QED
  BY <1>9, <1>12, <1>13, <1>22, RunningIInv

(* A variable is defined: its value, its instantiation and the entry are   *)
(* new; it had none of them before, for it was not defined.                *)
LEMMA DefineIInv ==
  ASSUME IInv, Running, NEW v \in Strings \cup Arrays, Define(v)
  PROVE  IInv'
<1> DEFINE k     == Len(stack)
           value == New("value", v, {})
           ins   == New("instantiation", v, {})
           b     == New("entry", v, {})
           e     == Entry("def", b, value, 0, v)
           new   == [d \in {value, ins, b} |-> IF d = value /\ v \notin Arrays THEN 0 ELSE 1]
           reads == {}
           frees == {}
<1>1. TypeOK /\ NamesInv /\ StackInv /\ DefsInv /\ ScopesInv
  BY DEF IInv
<1>2. /\ Memory(reads, frees, new) /\ stack' = Append(stack, e)
      /\ inst' = [inst EXCEPT ![v] = [block |-> ins, value |-> value, len |-> 0]]
      /\ UNCHANGED <<regs, rv, scopes>> /\ ~Defined(v)
  BY DEF Define
<1>3. /\ value[1] = "value" /\ value[2] = v
      /\ ins[1] = "instantiation" /\ ins[2] = v
      /\ b[1] = "entry" /\ b[2] = v
      /\ Null[1] = "null"
  <2>1. For(value, "value", v)
    BY NewName
  <2>2. For(ins, "instantiation", v)
    BY NewName
  <2>3. For(b, "entry", v)
    BY NewName
  <2>4. Null[1] = "null"
    BY DEF Null
  <2> QED
    BY <2>1, <2>2, <2>3, <2>4 DEF For
<1>4. /\ IsEntry(e) /\ e.kind = "def" /\ e.block = b /\ e.of = v /\ e.len = 0
  BY DEF Entry, IsEntry
<1>5. v \in Variables
  BY DEF Variables
<1>6. k \in Nat
  BY <1>1, LenProperties DEF StackInv
<1>7. /\ DOMAIN new = {value, ins, b}
      /\ new[value] \in Nat /\ new[ins] = 1 /\ new[b] = 1
  <2>1. value # ins /\ value # b
    BY <1>3
  <2>2. new[value] = 0 \/ new[value] = 1
    OBVIOUS
  <2>3. new[ins] = 1 /\ new[b] = 1
    BY <2>1
  <2> HIDE DEF new
  <2>4. new[value] \in Nat
    BY <2>2
  <2> QED
    BY <2>3, <2>4 DEF new
<1> HIDE DEF k, value, ins, b, e, new, reads, frees
<1>8. /\ inst' = [w \in Variables |-> inst'[w]]
      /\ inst'[v].value = value /\ inst'[v].block = ins /\ inst'[v].len = 0 /\ IsInst(inst'[v])
      /\ \A w \in Variables : w # v => inst'[w] = inst[w]
  BY <1>1, <1>2, <1>5 DEF TypeOK, IsInst
<1>9. inst[v].block = Null /\ inst[v].value = Null
  BY <1>1, <1>2, <1>3, <1>5 DEF DefsInv, NamesInv, For
<1>10. ASSUME NEW j, j = Len(stack) + 1
       PROVE  EntryInv(j)'
  <2>1. stack'[j] = e
    BY <1>1, <1>2, <1>6, <1>10, Pushed DEF StackInv, k
  <2>2. /\ stack'[j].kind = "def" /\ stack'[j].of = v /\ stack'[j].of \in Strings \cup Arrays
        /\ stack'[j].block[1] = "entry" /\ stack'[j].block[2] = v
    BY <1>3, <1>4, <2>1
  <2>3. IsEntry(stack[j])'
    BY <1>4, <2>1 DEF IsEntry
  <2>4. stack'[j].len \in Nat
    <3>1. stack'[j].len = 0
      BY <1>4, <2>1
    <3> QED
      BY <3>1
  <2>5. inst'[v].block # Null
    BY <1>3, <1>8
  <2> QED
    BY <2>2, <2>3, <2>4, <2>5 DEF EntryInv, For
<1>11. /\ StackInv' /\ DefsInv' /\ ScopesInv'
       /\ DOMAIN stack' = 1 .. Len(stack) + 1 /\ DOMAIN stack = 1 .. Len(stack)
       /\ \A j \in DOMAIN stack : stack'[j] = stack[j]
       /\ Len(stack) \in Nat /\ stack'[Len(stack) + 1] = e
  <2>1. e.kind # "marker" /\ e.kind \notin {"value", "array"} /\ ~Defined(e.of)
    BY <1>2, <1>4
  <2>2. ASSUME NEW w \in Strings \cup Arrays
        PROVE  /\ inst[w].block # Null => inst'[w].block # Null
               /\ inst'[w].block # Null => inst[w].block # Null \/ (e.kind = "def" /\ e.of = w)
    <3>1. CASE w = v
      BY <1>4, <1>9, <3>1
    <3>2. CASE w # v
      BY <1>8, <3>2 DEF Variables
    <3> QED
      BY <3>1, <3>2
  <2> QED
    BY <1>1, <1>2, <1>10, <2>1, <2>2, PushStack
<1>12. \A d \in DOMAIN new : new[d] \in Nat
  BY <1>7
<1>13. /\ \A t \in reads : Readable(t)
       /\ frees \subseteq Owned
  BY DEF reads, frees
<1>14. /\ status' = "running"
       /\ heap' = [d \in DOMAIN heap' |-> heap'[d]]
       /\ \A d \in DOMAIN heap' : heap'[d] \in Nat
  BY ONLY IInv, Running, <1>2, <1>12, <1>13, MemoryStep
<1>15. TypeOK'
  <2>1. \A w \in Variables : IsInst(inst'[w])
    BY <1>1, <1>8 DEF TypeOK
  <2> QED
    BY <1>1, <1>2, <1>8, <1>14, <2>1 DEF TypeOK
<1>16. NamesInv'
  <2>1. ASSUME NEW w \in Variables
        PROVE  \/ inst'[w].block = Null /\ inst'[w].value = Null /\ inst'[w].len = 0
               \/ For(inst'[w].block, "instantiation", w) /\ For(inst'[w].value, "value", w)
    <3>1. CASE w = v
      BY <1>3, <1>8, <3>1 DEF For
    <3>2. CASE w # v
      BY <1>1, <1>8, <3>2 DEF NamesInv
    <3> QED
      BY <3>1, <3>2
  <2> QED
    BY <1>1, <1>2, <2>1 DEF NamesInv
<1>17. ASSUME NEW d
       PROVE  OwnerByName(d)' <=> (OwnerByName(d) /\ d \notin Blocks(frees)) \/ d \in DOMAIN new
  <2>1. d \notin Blocks(frees)
    BY DEF Blocks, frees
  <2>2. d \in DOMAIN new <=> d \in {value, ins, b}
    BY <1>7
  <2>3. /\ (\E j \in DOMAIN stack' : stack'[j].kind = "def" /\ stack'[j].of = d[2] /\ d = stack'[j].block)
              <=> \/ \E j \in DOMAIN stack : stack[j].kind = "def" /\ stack[j].of = d[2] /\ d = stack[j].block
                  \/ v = d[2] /\ d = b
        /\ (\E j \in DOMAIN stack' :
               stack'[j].kind \in {"value", "array"} /\ j - 1 = d[2] /\ d = stack'[j].block)
              <=> \E j \in DOMAIN stack :
                    stack[j].kind \in {"value", "array"} /\ j - 1 = d[2] /\ d = stack[j].block
        /\ (\E j \in DOMAIN stack' : stack'[j].kind = "value" /\ j - 1 = d[2] /\ d = stack'[j].value)
              <=> \E j \in DOMAIN stack : stack[j].kind = "value" /\ j - 1 = d[2] /\ d = stack[j].value
    <3>1. e.kind = "def" /\ e.kind # "value" /\ e.kind \notin {"value", "array"} /\ e.block = b /\ e.of = v
      BY <1>4
    <3>2. /\ (\E i \in DOMAIN stack' : stack'[i].kind = "def" /\ stack'[i].of = d[2] /\ d = stack'[i].block)
              <=> \/ \E i \in DOMAIN stack : stack[i].kind = "def" /\ stack[i].of = d[2] /\ d = stack[i].block
                  \/ e.kind = "def" /\ e.of = d[2] /\ d = e.block
          /\ (\E i \in DOMAIN stack' :
               stack'[i].kind \in {"value", "array"} /\ i - 1 = d[2] /\ d = stack'[i].block)
              <=> \/ \E i \in DOMAIN stack :
                       stack[i].kind \in {"value", "array"} /\ i - 1 = d[2] /\ d = stack[i].block
                  \/ e.kind \in {"value", "array"} /\ Len(stack) = d[2] /\ d = e.block
          /\ (\E i \in DOMAIN stack' : stack'[i].kind = "value" /\ i - 1 = d[2] /\ d = stack'[i].value)
              <=> \/ \E i \in DOMAIN stack : stack[i].kind = "value" /\ i - 1 = d[2] /\ d = stack[i].value
                  \/ e.kind = "value" /\ Len(stack) = d[2] /\ d = e.value
      <4>1. /\ Len(stack) \in Nat
            /\ DOMAIN stack' = 1 .. Len(stack) + 1 /\ DOMAIN stack = 1 .. Len(stack)
            /\ \A i \in DOMAIN stack : stack'[i] = stack[i]
            /\ stack'[Len(stack) + 1] = e
        BY <1>11
      <4>2. (\E i \in DOMAIN stack' : stack'[i].kind = "def" /\ stack'[i].of = d[2] /\ d = stack'[i].block)
              <=> \/ \E i \in DOMAIN stack : stack[i].kind = "def" /\ stack[i].of = d[2] /\ d = stack[i].block
                  \/ e.kind = "def" /\ e.of = d[2] /\ d = e.block
        BY ONLY <4>1, PushedOwners
      <4>3. (\E i \in DOMAIN stack' :
               stack'[i].kind \in {"value", "array"} /\ i - 1 = d[2] /\ d = stack'[i].block)
              <=> \/ \E i \in DOMAIN stack :
                       stack[i].kind \in {"value", "array"} /\ i - 1 = d[2] /\ d = stack[i].block
                  \/ e.kind \in {"value", "array"} /\ Len(stack) = d[2] /\ d = e.block
        BY ONLY <4>1, PushedOwners
      <4>4. (\E i \in DOMAIN stack' : stack'[i].kind = "value" /\ i - 1 = d[2] /\ d = stack'[i].value)
              <=> \/ \E i \in DOMAIN stack : stack[i].kind = "value" /\ i - 1 = d[2] /\ d = stack[i].value
                  \/ e.kind = "value" /\ Len(stack) = d[2] /\ d = e.value
        BY ONLY <4>1, PushedOwners
      <4> QED
        BY ONLY <4>2, <4>3, <4>4
    <3> QED
      BY ONLY <3>1, <3>2
  <2>4. d[1] = "instantiation" /\ d[2] \in Variables /\ d = inst'[d[2]].block
          <=> (d[1] = "instantiation" /\ d[2] \in Variables /\ d = inst[d[2]].block) \/ d = ins
    BY <1>3, <1>5, <1>8, <1>9
  <2>5. d[1] = "value" /\ d[2] \in Variables /\ d = inst'[d[2]].value
          <=> (d[1] = "value" /\ d[2] \in Variables /\ d = inst[d[2]].value) \/ d = value
    BY <1>3, <1>5, <1>8, <1>9
  <2>6. /\ d = b => d[1] = "entry" /\ v = d[2]
        /\ d = ins => d[1] = "instantiation"
        /\ d = value => d[1] = "value"
    BY <1>3
  <2>7. OwnerByName(d)' <=> OwnerByName(d) \/ d \in {value, ins, b}
    BY <1>2, <2>3, <2>4, <2>5, <2>6 DEF OwnerByName
  <2> QED
    BY <2>1, <2>2, <2>7
<1>18. \A t : t.value \notin DOMAIN new => Held(t, t, new)
  BY DEF Held
<1>19. /\ \A d \in DOMAIN new : d[1] \in {"value", "instantiation", "entry"} /\ d[2] = v
       /\ Null \notin DOMAIN new
  BY <1>3, <1>7
<1>20. ASSUME NEW w \in Variables
       PROVE  /\ inst'[w].block # Null => \/ /\ inst'[w].block = inst[w].block
                                             /\ inst'[w].block \notin DOMAIN new
                                          \/ /\ inst'[w].block \in DOMAIN new
                                             /\ new[inst'[w].block] = 1
              /\ Held(ValueOf(inst'[w]), ValueOf(inst[w]), new)
  <2>1. \A x : ValueOf(x).value = x.value /\ ValueOf(x).len = x.len
    BY DEF ValueOf, Text
  <2>2. CASE w = v
    <3>1. new[value] \in Nat /\ 0 <= new[value]
      BY <1>7
    <3>2. inst'[w].value = value /\ inst'[w].len = 0 /\ inst'[w].block = ins
      BY <1>8, <2>2
    <3>3. Held(ValueOf(inst'[w]), ValueOf(inst[w]), new)
      BY <1>7, <2>1, <3>1, <3>2 DEF Held
    <3> QED
      BY <1>7, <3>2, <3>3
  <2>3. CASE w # v
    <3>1. inst[w].block \notin DOMAIN new /\ inst[w].value \notin DOMAIN new
      BY <1>1, <1>19, <2>3 DEF NamesInv, For
    <3> QED
      BY <1>8, <1>18, <2>1, <2>3, <3>1
  <2> QED
    BY <2>2, <2>3
<1>21. ASSUME NEW q \in Registers
       PROVE  Held(regs'[q], regs[q], new)
  <2>1. regs[q].value \notin DOMAIN new
    BY <1>1, <1>19 DEF NamesInv, For
  <2> QED
    BY <1>2, <1>18, <2>1
<1>22. ASSUME NEW j \in DOMAIN stack', stack'[j].kind = "value"
       PROVE  /\ j \in DOMAIN stack /\ stack[j].kind = "value"
              /\ Held(ValueOf(stack'[j]), ValueOf(stack[j]), new)
  <2>1. j \in DOMAIN stack /\ stack'[j] = stack[j]
    BY <1>4, <1>11, <1>22
  <2>2. stack[j].value[1] = "argument"
    BY <1>1, <1>22, <2>1 DEF StackInv, EntryInv, For
  <2> QED
    BY <1>18, <1>19, <1>22, <2>1, <2>2 DEF ValueOf, Text
<1>23. Held(rv', rv, new)
  <2>1. rv.value \notin DOMAIN new
    BY <1>1, <1>19 DEF NamesInv, For
  <2> QED
    BY <1>2, <1>18, <2>1
<1>24. \A n \in Literals : Literal(n) \notin DOMAIN new
  BY <1>19 DEF Literal
<1>25. HeapInv' /\ SizesInv'
  BY ONLY IInv, Running, <1>2, <1>11, <1>12, <1>13, <1>16, <1>17, <1>20, <1>21, <1>22, <1>23, <1>24, HeapStep
<1> QED
  BY <1>11, <1>14, <1>15, <1>16, <1>25, RunningIInv

-----------------------------------------------------------------------------
(* Steps that give a holder another string.                                *)

(* What a string is taken from can be read.                                *)
LEMMA SourcesReadable ==
  ASSUME IInv, Running, NEW t \in Sources
  PROVE  t.len \in Nat /\ Readable(t)
<1>1. TypeOK /\ NamesInv /\ StackInv /\ HeapInv /\ SizesInv
  BY DEF IInv
<1>2. \A value, len : Text(value, len).value = value /\ Text(value, len).len = len
  BY DEF Text
<1>3. CASE \E n \in Literals : t = Text(Literal(n), n)
  <2>1. PICK n \in Literals : t = Text(Literal(n), n)
    BY <1>3
  <2>2. t.value = Literal(n) /\ t.len = n
    BY <1>2, <2>1
  <2>3. Literal(n) \in DOMAIN heap
    BY <1>1, TableNames, OwnerIs DEF HeapInv, Owner
  <2>4. heap[Literal(n)] = n
    BY <1>1 DEF SizesInv
  <2>5. n \in Nat /\ n <= n
    BY MemoryAssumption DEF MemoryAssumption
  <2> QED
    BY <2>2, <2>3, <2>4, <2>5 DEF Readable
<1>4. CASE \E r \in Registers : t = regs[r]
  BY <1>1, <1>4 DEF TypeOK, IsText, SizesInv, LengthsFit
<1>5. CASE \E v \in Strings : t = Text(inst[v].value, inst[v].len)
  <2>1. PICK v \in Variables : t = Text(inst[v].value, inst[v].len)
    BY <1>5 DEF Variables
  <2>2. inst[v].len \in Nat
    BY <1>1 DEF TypeOK, IsInst
  <2>3. Readable(t)
    BY <1>1, <2>1 DEF SizesInv, LengthsFit
  <2> QED
    BY <1>2, <2>1, <2>2, <2>3
<1>6. CASE \E i \in DOMAIN stack : stack[i].kind = "value" /\ t = Text(stack[i].value, stack[i].len)
  <2>1. PICK i \in DOMAIN stack : stack[i].kind = "value" /\ t = Text(stack[i].value, stack[i].len)
    BY <1>6
  <2>2. stack[i].len \in Nat
    BY <1>1 DEF StackInv, EntryInv
  <2>3. Readable(t)
    BY <1>1, <2>1 DEF SizesInv, LengthsFit
  <2> QED
    BY <1>2, <2>1, <2>2, <2>3
<1> QED
  BY <1>3, <1>4, <1>5, <1>6 DEF Sources, Arguments

(* So can the registers and the values of variables, up to their length;   *)
(* a variable that is defined has an instantiation.                        *)
LEMMA HoldersReadable ==
  ASSUME IInv, Running
  PROVE  /\ \A r \in Registers : regs[r].len \in Nat /\ Readable(regs[r])
         /\ \A v \in Variables : inst[v].len \in Nat
         /\ \A v \in Variables, len \in Nat : 0 < len /\ len <= inst[v].len =>
              Readable(Text(inst[v].value, len))
         /\ \A v \in Variables : Readable(Text(inst[v].value, inst[v].len))
         /\ \A v \in Variables : inst[v].block # Null => Readable(Text(inst[v].block, 1))
         /\ \A i \in DOMAIN stack : stack[i].kind = "def" => inst[stack[i].of].block # Null
         /\ \A i \in DOMAIN stack : stack[i].kind = "array" =>
              stack[i].of \in Arrays /\ Defined(stack[i].of)
<1>1. TypeOK /\ NamesInv /\ StackInv /\ HeapInv /\ SizesInv
  BY DEF IInv
<1>2. \A value, len : Text(value, len).value = value /\ Text(value, len).len = len
  BY DEF Text
<1>3. \A r \in Registers : regs[r].len \in Nat /\ Readable(regs[r])
  BY <1>1 DEF TypeOK, IsText, SizesInv, LengthsFit
<1>4. \A v \in Variables : inst[v].len \in Nat /\ Readable(Text(inst[v].value, inst[v].len))
  BY <1>1 DEF TypeOK, IsInst, SizesInv, LengthsFit
<1>5. ASSUME NEW v \in Variables, NEW len \in Nat, 0 < len, len <= inst[v].len
      PROVE  Readable(Text(inst[v].value, len))
  <2>1. inst[v].value \in DOMAIN heap /\ inst[v].len <= heap[inst[v].value] /\ inst[v].len \in Nat
    BY <1>2, <1>4, <1>5 DEF Readable
  <2>2. heap[inst[v].value] \in Nat
    BY <1>1, <2>1 DEF TypeOK
  <2>3. len <= heap[inst[v].value]
    BY <1>5, <2>1, <2>2
  <2> QED
    BY <1>2, <2>1, <2>3 DEF Readable
<1>6. ASSUME NEW v \in Variables, inst[v].block # Null
      PROVE  Readable(Text(inst[v].block, 1))
  <2>1. inst[v].block \in DOMAIN heap
    BY <1>1, <1>6, OwnerIs DEF HeapInv, Owner
  <2>2. heap[inst[v].block] = 1
    BY <1>1, <1>6 DEF SizesInv
  <2> QED
    BY <1>2, <2>1, <2>2 DEF Readable
<1>7. \A i \in DOMAIN stack : stack[i].kind = "def" => inst[stack[i].of].block # Null
  BY <1>1 DEF StackInv, EntryInv
<1>8. ASSUME NEW i \in DOMAIN stack, stack[i].kind = "array"
      PROVE  stack[i].of \in Arrays /\ Defined(stack[i].of)
  <2>1. stack[i].of \in Arrays /\ \E j \in 1 .. i - 1 : stack[j].kind = "def" /\ stack[j].of = stack[i].of
    BY <1>1, <1>8 DEF StackInv, EntryInv
  <2>2. DOMAIN stack = 1 .. Len(stack) /\ Len(stack) \in Nat
    BY <1>1, LenProperties DEF StackInv
  <2>3. \A j \in 1 .. i - 1 : j \in DOMAIN stack
    BY <2>2
  <2> QED
    BY <2>1, <2>3 DEF Defined
<1> QED
  BY <1>3, <1>4, <1>5, <1>6, <1>7, <1>8

(* A register gets a copy of a string.                                     *)
LEMMA LoadIInv ==
  ASSUME IInv, Running, NEW r \in Registers, NEW t \in Sources, Load(r, t)
  PROVE  IInv'
<1> DEFINE b == New("register", r, Pointer("register", r, regs[r].value))
           reads == {t, regs[r]}
<1>1. For(b, "register", r)
  BY NewName
<1>2. t.len \in Nat /\ \A x \in reads : Readable(x)
  BY SourcesReadable, HoldersReadable
<1>3. /\ Memory(reads, Pointer("register", r, regs[r].value), Only(b, t.len))
      /\ regs' = [regs EXCEPT ![r] = Text(b, t.len)]
      /\ UNCHANGED <<stack, inst, rv, grown, scopes>>
  BY DEF Load, SetRegister
<1> HIDE DEF b, reads
<1> QED
  BY <1>1, <1>2, <1>3, RegisterIInv

(* A register gets a part of a string: the part ends within the string.    *)
LEMMA LoadPartIInv ==
  ASSUME IInv, Running, NEW r \in Registers, NEW v \in Strings,
         NEW i \in Indices, NEW j \in Indices, LoadPart(r, v, i, j)
  PROVE  IInv'
<1> DEFINE b == New("register", r, Pointer("register", r, regs[r].value))
           t == Text(inst[v].value, j + 1)
           reads == {t, regs[r]}
<1>1. For(b, "register", r)
  BY NewName
<1>2. v \in Variables /\ i \in Nat /\ j \in Nat
  BY MemoryAssumption DEF Variables, Indices, MemoryAssumption
<1>3. i <= j /\ j < inst[v].len
  BY DEF LoadPart
<1>4. inst[v].len \in Nat
  BY <1>2, HoldersReadable
<1>5. j + 1 \in Nat /\ 0 < j + 1 /\ j + 1 <= inst[v].len /\ j - i + 1 \in Nat
  BY <1>2, <1>3, <1>4
<1>6. Readable(t) /\ Readable(regs[r])
  BY <1>2, <1>5, HoldersReadable
<1>7. /\ Memory(reads, Pointer("register", r, regs[r].value), Only(b, j - i + 1))
      /\ regs' = [regs EXCEPT ![r] = Text(b, j - i + 1)]
      /\ UNCHANGED <<stack, inst, rv, grown, scopes>>
  BY DEF LoadPart, SetRegister
<1> HIDE DEF b, t, reads
<1>8. \A x \in reads : Readable(x)
  BY <1>6 DEF reads
<1> QED
  BY <1>1, <1>5, <1>7, <1>8, RegisterIInv

(* A register gets the concatenation of its string and another.            *)
LEMMA AddIInv ==
  ASSUME IInv, Running, NEW r \in Registers, NEW t \in Sources, Add(r, t)
  PROVE  IInv'
<1> DEFINE b == New("register", r, Pointer("register", r, regs[r].value))
           len == regs[r].len + t.len
           reads == {regs[r], t}
<1>1. For(b, "register", r)
  BY NewName
<1>2. t.len \in Nat /\ regs[r].len \in Nat /\ \A x \in reads : Readable(x)
  BY SourcesReadable, HoldersReadable
<1>3. /\ Memory(reads, Pointer("register", r, regs[r].value), Only(b, len))
      /\ regs' = [regs EXCEPT ![r] = Text(b, len)]
      /\ UNCHANGED <<stack, inst, rv, grown, scopes>>
  BY DEF Add
<1>4. len \in Nat
  BY <1>2
<1> HIDE DEF b, reads, len
<1> QED
  BY <1>1, <1>2, <1>3, <1>4, RegisterIInv

(* The return value gets a copy of a register.                             *)
LEMMA ReturnStringIInv ==
  ASSUME IInv, Running, NEW r \in Registers, ReturnString(r)
  PROVE  IInv'
<1> DEFINE b == New("return", 0, Pointer("return", 0, rv.value))
<1>1. For(b, "return", 0)
  BY NewName
<1>2. regs[r].len \in Nat /\ \A x \in {regs[r]} : Readable(x)
  BY HoldersReadable
<1>3. /\ Memory({regs[r]}, ReturnPointer, Only(b, regs[r].len))
      /\ rv' = Text(b, regs[r].len)
      /\ UNCHANGED <<stack, inst, regs, grown, scopes>>
  BY DEF ReturnString, ReturnPointer
<1> HIDE DEF b
<1> QED
  BY <1>1, <1>2, <1>3, ReturnIInv

(* A variable that is defined has an instantiation.                        *)
LEMMA DefinedHasBlock ==
  ASSUME IInv, Running, NEW v, Defined(v)
  PROVE  inst[v].block # Null
  BY HoldersReadable DEF Defined

(* A variable gets a copy of a register.                                   *)
LEMMA StoreIInv ==
  ASSUME IInv, Running, NEW v \in Strings, NEW r \in Registers, Store(v, r)
  PROVE  IInv'
<1> DEFINE b == New("value", v, Pointer("value", v, inst[v].value))
<1>1. For(b, "value", v)
  BY NewName
<1>2. v \in Variables /\ inst[v].block # Null
  BY DefinedHasBlock DEF Store, Variables
<1>3. regs[r].len \in Nat /\ \A x \in {regs[r]} : Readable(x)
  BY HoldersReadable
<1>4. /\ Memory({regs[r]}, Pointer("value", v, inst[v].value), Only(b, regs[r].len))
      /\ SetValue(v, b, regs[r].len)
      /\ UNCHANGED <<stack, regs, rv, scopes>>
  BY DEF Store
<1> HIDE DEF b
<1> QED
  BY <1>1, <1>2, <1>3, <1>4, ValueIInv

(* A part of a variable is replaced: the new length is never negative, as  *)
(* the end of the part is within the string.                               *)
LEMMA ReplaceIInv ==
  ASSUME IInv, Running, NEW r \in Registers, NEW v \in Strings, NEW i \in Indices,
         NEW j \in 0 .. MaxLength + 1, Replace(v, r, i, j)
  PROVE  IInv'
<1> DEFINE b   == New("value", v, Pointer("value", v, inst[v].value))
           end == IF j >= inst[v].len THEN inst[v].len - 1 ELSE j
           len == inst[v].len - (end - i - 1) + regs[r].len
           t   == Text(inst[v].value, inst[v].len)
           reads == {t, regs[r]}
<1>1. For(b, "value", v)
  BY NewName
<1>2. v \in Variables /\ inst[v].block # Null /\ i \in Nat /\ j \in Nat
  <2>1. i \in Nat /\ j \in Nat
    BY MemoryAssumption DEF Indices, MemoryAssumption
  <2> QED
    BY <2>1, DefinedHasBlock DEF Replace, Variables
<1>3. inst[v].len \in Nat /\ regs[r].len \in Nat /\ Readable(t) /\ Readable(regs[r])
  BY <1>2, HoldersReadable
<1>4. i <= j /\ i < inst[v].len
  BY DEF Replace
<1>5. len \in Nat
  <2>1. end \in Int /\ end <= inst[v].len - 1
    BY <1>2, <1>3
  <2> HIDE DEF end
  <2> QED
    BY <1>2, <1>3, <1>4, <2>1
<1>6. /\ Memory(reads, Pointer("value", v, inst[v].value), Only(b, len))
      /\ SetValue(v, b, len)
      /\ UNCHANGED <<stack, regs, rv, scopes>>
  BY DEF Replace
<1> HIDE DEF b, len, t, reads
<1>7. \A x \in reads : Readable(x)
  BY <1>3 DEF reads
<1> QED
  BY <1>1, <1>2, <1>5, <1>6, <1>7, ValueIInv

(* An array grows, in its place or in another.                             *)
LEMMA GrowIInv ==
  ASSUME IInv, Running, NEW a \in Arrays, NEW n \in Sizes, Grow(a, n)
  PROVE  IInv'
<1>1. a \in Variables /\ inst[a].block # Null /\ n \in Nat
  BY DefinedHasBlock, MemoryAssumption DEF Grow, Variables, MemoryAssumption
<1>2. PICK b \in {inst[a].value, New("value", a, Pointer("value", a, inst[a].value))} :
        /\ Memory({}, Pointer("value", a, inst[a].value), Only(b, n))
        /\ SetValue(a, b, n)
  BY DEF Grow
<1>3. For(b, "value", a)
  <2>1. For(inst[a].value, "value", a)
    BY <1>1 DEF IInv, NamesInv
  <2>2. For(New("value", a, Pointer("value", a, inst[a].value)), "value", a)
    BY NewName
  <2> QED
    BY <2>1, <2>2
<1>4. UNCHANGED <<stack, regs, rv, scopes>> /\ \A x \in {} : Readable(x)
  BY DEF Grow
<1> QED
  BY <1>1, <1>2, <1>3, <1>4, ValueIInv

(* The array that was passed gets a copy of the cells of the parameter.    *)
LEMMA ServeIInv ==
  ASSUME IInv, Running, Serve
  PROVE  IInv'
<1>1. PICK i \in ArrayArguments(Len(scopes)) :
        LET a == stack[i].of
            p == inst[Parameter]
            b == New("value", a, Pointer("value", a, inst[a].value))
        IN  /\ Memory({Text(p.value, p.len), Text(inst[a].block, 1)}, Pointer("value", a, inst[a].value), Only(b, p.len))
            /\ SetValue(a, b, p.len)
  BY DEF Serve
<1> DEFINE a == stack[i].of
           p == inst[Parameter]
           b == New("value", a, Pointer("value", a, inst[a].value))
           reads == {Text(p.value, p.len), Text(inst[a].block, 1)}
<1>2. i \in DOMAIN stack /\ stack[i].kind = "array"
  BY <1>1 DEF ArrayArguments, Arguments
<1>3. a \in Variables /\ Parameter \in Variables
  BY <1>2, HoldersReadable DEF Variables
<1>4. inst[a].block # Null
  BY <1>2, HoldersReadable, DefinedHasBlock
<1>5. /\ Memory(reads, Pointer("value", a, inst[a].value), Only(b, p.len))
      /\ SetValue(a, b, p.len)
  BY <1>1
<1>6. For(b, "value", a)
  BY NewName
<1>7. p.len \in Nat
  BY <1>3, HoldersReadable
<1>8. \A x \in reads : Readable(x)
  BY <1>3, <1>4, HoldersReadable
<1>9. UNCHANGED <<stack, regs, rv, scopes>>
  BY DEF Serve
<1> HIDE DEF a, p, b, reads
<1> QED
  BY <1>3, <1>4, <1>5, <1>6, <1>7, <1>8, <1>9, ValueIInv

(* A step that changes nothing.                                            *)
LEMMA StutterIInv ==
  ASSUME IInv, UNCHANGED <<heap, stack, inst, regs, rv, scopes, status>>
  PROVE  IInv'
<1>1. heap' = heap /\ stack' = stack /\ inst' = inst /\ regs' = regs /\ rv' = rv
      /\ scopes' = scopes /\ status' = status
  OBVIOUS
<1>2. Blocks(Owned)' = Blocks(Owned)
  BY <1>1 DEF Owned, Blocks, FreedTables, InstantiationPointers, InstantiationOf, EntryPointers,
              ArgumentPointers, RegisterPointers, ReturnPointer
<1>3. TypeOK' <=> TypeOK
  BY <1>1 DEF TypeOK
<1>4. NamesInv' <=> NamesInv
  BY <1>1 DEF NamesInv
<1>5. StackInv' <=> StackInv
  BY <1>1 DEF StackInv, EntryInv
<1>6. DefsInv' <=> DefsInv
  BY <1>1 DEF DefsInv, Defined
<1>7. ScopesInv' <=> ScopesInv
  BY <1>1 DEF ScopesInv, IsMarker
<1>8. HeapInv' <=> HeapInv
  BY <1>1, <1>2 DEF HeapInv
<1>9. SizesInv' <=> SizesInv
  BY <1>1 DEF SizesInv, LengthsFit, Readable, Running
<1> QED
  BY <1>1, <1>3, <1>4, <1>5, <1>6, <1>7, <1>8, <1>9 DEF IInv, Running, CleanupIsExact

(* Characters are overwritten in place, within the string.                 *)
LEMMA WriteAtIInv ==
  ASSUME IInv, Running, NEW v \in Strings, NEW r \in Registers, NEW i \in Indices, WriteAt(v, r, i)
  PROVE  IInv'
<1> DEFINE t == Text(inst[v].value, i + regs[r].len)
           frees == {}
<1>1. v \in Variables /\ i \in Nat
  BY MemoryAssumption DEF Indices, MemoryAssumption, Variables
<1>2. inst[v].len \in Nat /\ regs[r].len \in Nat /\ Readable(regs[r])
  BY <1>1, HoldersReadable
<1>3. i < inst[v].len /\ i + regs[r].len <= inst[v].len
  BY DEF WriteAt
<1>4. Readable(t)
  <2>1. inst[v].value \in DOMAIN heap /\ inst[v].len <= heap[inst[v].value]
    <3>1. Readable(Text(inst[v].value, inst[v].len))
      BY <1>1, HoldersReadable
    <3> QED
      BY <1>1, <1>2, <1>3, <3>1 DEF Readable, Text
  <2>2. heap[inst[v].value] \in Nat
    BY <2>1 DEF IInv, TypeOK
  <2>3. i + regs[r].len <= heap[inst[v].value]
    BY <1>1, <1>2, <1>3, <2>1, <2>2
  <2> QED
    BY <2>1, <2>3 DEF Readable, Text
<1>5. Memory({t, regs[r]}, frees, <<>>)
  BY DEF WriteAt
<1>6. UNCHANGED <<stack, inst, regs, rv, scopes>>
  BY DEF WriteAt
<1> HIDE DEF t
<1>7. heap' = heap /\ status' = "running"
  <2>1. Blocks(frees) = {} /\ Distinct(frees) /\ DOMAIN <<>> = {}
    BY DEF Blocks, Distinct, frees
  <2>2. \A x \in {t, regs[r]} : Readable(x)
    BY <1>2, <1>4
  <2>3. heap = [b \in DOMAIN heap |-> heap[b]]
    BY DEF IInv, TypeOK
  <2> HIDE DEF frees
  <2> QED
    BY <1>5, <2>1, <2>2, <2>3 DEF Memory, Freeable
<1> QED
  BY <1>6, <1>7, StutterIInv DEF Running

(* The array parameter gets another instantiation, with a copy of an array. *)
LEMMA EnterWithArrayIInv ==
  ASSUME IInv, Running, EnterWithArray
  PROVE  IInv'
<1> DEFINE P     == Parameter
           frees == InstantiationOf(P)
           value == New("value", P, InstantiationOf(P))
           ins   == New("instantiation", P, InstantiationOf(P))
<1>1. TypeOK /\ NamesInv /\ StackInv /\ DefsInv /\ ScopesInv
  BY DEF IInv
<1>2. PICK p \in ArrayArguments(Len(scopes)) :
        LET a == inst[stack[p].of] IN
          /\ Memory({Text(a.value, a.len)}, frees,
                    [b \in {value, ins} |-> IF b = ins THEN 1 ELSE a.len])
          /\ inst' = [inst EXCEPT ![P] = [block |-> ins, value |-> value, len |-> a.len]]
  BY DEF EnterWithArray
<1> DEFINE a     == inst[stack[p].of]
           len   == a.len
           new   == [b \in {value, ins} |-> IF b = ins THEN 1 ELSE len]
           reads == {Text(a.value, len)}
<1>3. /\ Memory(reads, frees, new)
      /\ inst' = [inst EXCEPT ![P] = [block |-> ins, value |-> value, len |-> len]]
  BY <1>2
<1>4. /\ value[1] = "value" /\ value[2] = P
      /\ ins[1] = "instantiation" /\ ins[2] = P
      /\ Null[1] = "null"
  <2>1. For(value, "value", P)
    BY NewName
  <2>2. For(ins, "instantiation", P)
    BY NewName
  <2>3. Null[1] = "null"
    BY DEF Null
  <2> QED
    BY <2>1, <2>2, <2>3 DEF For
<1>5. P \in Variables /\ stack[p].of \in Variables
  <2>1. p \in DOMAIN stack /\ stack[p].kind = "array"
    BY <1>2 DEF ArrayArguments, Arguments
  <2> QED
    BY <2>1, HoldersReadable DEF Variables
<1>6. len \in Nat /\ \A t \in reads : Readable(t)
  BY <1>5, HoldersReadable
<1>7. /\ DOMAIN new = {value, ins}
      /\ new[value] = len /\ new[ins] = 1
  BY <1>4
<1> HIDE DEF value, ins, a, len, new, reads
<1>8. /\ inst' = [w \in Variables |-> inst'[w]]
      /\ inst'[P].value = value /\ inst'[P].block = ins /\ inst'[P].len = len /\ IsInst(inst'[P])
      /\ \A w \in Variables : w # P => inst'[w] = inst[w]
  BY <1>1, <1>3, <1>5, <1>6 DEF TypeOK, IsInst
<1>9. \A d : d \in Blocks(frees) <=> d # Null /\ (d = inst[P].block \/ d = inst[P].value)
  <2>1. \A d : d \in Blocks(frees) <=> \/ d \in Blocks(Pointer("instantiation", P, inst[P].block))
                                       \/ d \in Blocks(Pointer("value", P, inst[P].value))
    BY DEF InstantiationOf, Blocks
  <2> QED
    BY <2>1, PointerIs
<1>10. frees \subseteq Owned
  BY <1>5 DEF Owned, InstantiationPointers
<1> HIDE DEF frees
<1>11. /\ StackInv' /\ DefsInv' /\ ScopesInv' /\ scopes' \in Seq(ScopeKinds)
       /\ DOMAIN stack' = 1 .. Len(stack) + 1 /\ DOMAIN stack = 1 .. Len(stack)
       /\ \A j \in DOMAIN stack : stack'[j] = stack[j]
       /\ Len(stack) \in Nat /\ stack'[Len(stack) + 1].kind = "marker"
  <2>1. Mark("body") /\ "body" \in ScopeKinds /\ scopes # <<>>
    BY DEF EnterWithArray, InCall, ScopeKinds
  <2>2. \A v \in Strings \cup Arrays : inst'[v].block = inst[v].block
    BY <1>8, MemoryAssumption DEF Variables, MemoryAssumption
  <2> QED
    BY <1>1, <2>1, <2>2, MarkStack
<1>12. /\ \A j \in DOMAIN stack : j \in DOMAIN stack' /\ stack'[j] = stack[j]
       /\ \A j \in DOMAIN stack' : stack'[j].kind # "marker" => j \in DOMAIN stack /\ stack'[j] = stack[j]
  BY <1>11
<1>13. UNCHANGED <<regs, rv>>
  BY DEF EnterWithArray
<1>14. \A d \in DOMAIN new : new[d] \in Nat
  BY <1>6, <1>7
<1>15. /\ status' = "running"
       /\ heap' = [d \in DOMAIN heap' |-> heap'[d]]
       /\ \A d \in DOMAIN heap' : heap'[d] \in Nat
  BY ONLY IInv, Running, <1>3, <1>6, <1>10, <1>14, MemoryStep
<1>16. TypeOK'
  <2>1. \A w \in Variables : IsInst(inst'[w])
    BY <1>1, <1>8 DEF TypeOK
  <2> QED
    BY <1>1, <1>8, <1>11, <1>13, <1>15, <2>1 DEF TypeOK
<1>17. NamesInv'
  <2>1. ASSUME NEW w \in Variables
        PROVE  \/ inst'[w].block = Null /\ inst'[w].value = Null /\ inst'[w].len = 0
               \/ For(inst'[w].block, "instantiation", w) /\ For(inst'[w].value, "value", w)
    <3>1. CASE w = P
      BY <1>4, <1>8, <3>1 DEF For
    <3>2. CASE w # P
      BY <1>1, <1>8, <3>2 DEF NamesInv
    <3> QED
      BY <3>1, <3>2
  <2> QED
    BY <1>1, <1>13, <2>1 DEF NamesInv
<1>18. inst[P].block # Null \/ inst[P].value # Null =>
         /\ inst[P].block[1] = "instantiation" /\ inst[P].block[2] = P
         /\ inst[P].value[1] = "value" /\ inst[P].value[2] = P
  BY <1>1, <1>5 DEF NamesInv, For
<1>19. ASSUME NEW d
       PROVE  OwnerByName(d)' <=> (OwnerByName(d) /\ d \notin Blocks(frees)) \/ d \in DOMAIN new
  <2>1. d \in Blocks(frees) =>
          \/ d[1] = "instantiation" /\ d[2] = P /\ d = inst[P].block
          \/ d[1] = "value" /\ d[2] = P /\ d = inst[P].value
    BY <1>9, <1>18
  <2>2. d \in DOMAIN new <=> d \in {value, ins}
    BY <1>7
  <2>3. /\ (\E j \in DOMAIN stack' : stack'[j].kind = "def" /\ stack'[j].of = d[2] /\ d = stack'[j].block)
              <=> \E j \in DOMAIN stack : stack[j].kind = "def" /\ stack[j].of = d[2] /\ d = stack[j].block
        /\ (\E j \in DOMAIN stack' :
               stack'[j].kind \in {"value", "array"} /\ j - 1 = d[2] /\ d = stack'[j].block)
              <=> \E j \in DOMAIN stack :
                    stack[j].kind \in {"value", "array"} /\ j - 1 = d[2] /\ d = stack[j].block
        /\ (\E j \in DOMAIN stack' : stack'[j].kind = "value" /\ j - 1 = d[2] /\ d = stack'[j].value)
              <=> \E j \in DOMAIN stack : stack[j].kind = "value" /\ j - 1 = d[2] /\ d = stack[j].value
    BY <1>12
  <2>4. d # Null \/ d[1] = "null"
    BY <1>4
  <2>5. d[1] = "instantiation" /\ d[2] \in Variables /\ d = inst'[d[2]].block
          <=> \/ d[1] = "instantiation" /\ d[2] \in Variables /\ d = inst[d[2]].block /\ d \notin Blocks(frees)
              \/ d = ins
    BY <1>4, <1>5, <1>8, <1>9, <2>1, <2>4
  <2>6. d[1] = "value" /\ d[2] \in Variables /\ d = inst'[d[2]].value
          <=> \/ d[1] = "value" /\ d[2] \in Variables /\ d = inst[d[2]].value /\ d \notin Blocks(frees)
              \/ d = value
    BY <1>4, <1>5, <1>8, <1>9, <2>1, <2>4
  <2>7. /\ d = ins => d[1] = "instantiation"
        /\ d = value => d[1] = "value"
        /\ d \in Blocks(frees) => d[1] \in {"instantiation", "value"}
    BY <1>4, <2>1
  <2>8. CASE d[1] = "instantiation"
    <3>1. d \notin TableBlocks
      BY <2>8, TableNames
    <3> QED
      BY <2>2, <2>5, <2>7, <2>8, <3>1 DEF OwnerByName
  <2>9. CASE d[1] = "value"
    <3>1. d \notin TableBlocks
      BY <2>9, TableNames
    <3> QED
      BY <2>2, <2>6, <2>7, <2>9, <3>1 DEF OwnerByName
  <2>10. CASE d[1] \notin {"instantiation", "value"}
    <3>1. d \notin Blocks(frees) /\ d \notin DOMAIN new
      BY <2>2, <2>7, <2>10
    <3>2. OwnerByName(d)' <=> OwnerByName(d)
      BY <1>13, <2>3, <2>10 DEF OwnerByName
    <3> QED
      BY <3>1, <3>2
  <2> QED
    BY <2>8, <2>9, <2>10
<1>20. \A t : t.value \notin DOMAIN new => Held(t, t, new)
  BY DEF Held
<1>21. /\ \A d \in DOMAIN new : d[1] \in {"value", "instantiation"} /\ d[2] = P
       /\ Null \notin DOMAIN new
  BY <1>4, <1>7
<1>22. ASSUME NEW w \in Variables
       PROVE  /\ inst'[w].block # Null => \/ /\ inst'[w].block = inst[w].block
                                             /\ inst'[w].block \notin DOMAIN new
                                          \/ /\ inst'[w].block \in DOMAIN new
                                             /\ new[inst'[w].block] = 1
              /\ Held(ValueOf(inst'[w]), ValueOf(inst[w]), new)
  <2>1. \A x : ValueOf(x).value = x.value /\ ValueOf(x).len = x.len
    BY DEF ValueOf, Text
  <2>2. CASE w = P
    <3>1. len <= new[value]
      BY <1>6, <1>7
    <3>2. inst'[w].value = value /\ inst'[w].len = len /\ inst'[w].block = ins
      BY <1>8, <2>2
    <3>3. Held(ValueOf(inst'[w]), ValueOf(inst[w]), new)
      BY <1>7, <2>1, <3>1, <3>2 DEF Held
    <3> QED
      BY <1>7, <3>2, <3>3
  <2>3. CASE w # P
    <3>1. inst[w].block \notin DOMAIN new /\ inst[w].value \notin DOMAIN new
      BY <1>1, <1>21, <2>3 DEF NamesInv, For
    <3> QED
      BY <1>8, <1>20, <2>1, <2>3, <3>1
  <2> QED
    BY <2>2, <2>3
<1>23. ASSUME NEW q \in Registers
       PROVE  Held(regs'[q], regs[q], new)
  <2>1. regs[q].value \notin DOMAIN new
    BY <1>1, <1>21 DEF NamesInv, For
  <2> QED
    BY <1>13, <1>20, <2>1
<1>24. ASSUME NEW j \in DOMAIN stack', stack'[j].kind = "value"
       PROVE  /\ j \in DOMAIN stack /\ stack[j].kind = "value"
              /\ Held(ValueOf(stack'[j]), ValueOf(stack[j]), new)
  <2>1. j \in DOMAIN stack /\ stack'[j] = stack[j]
    BY <1>12, <1>24
  <2>2. stack[j].value[1] = "argument"
    BY <1>1, <1>24, <2>1 DEF StackInv, EntryInv, For
  <2> QED
    BY <1>20, <1>21, <1>24, <2>1, <2>2 DEF ValueOf, Text
<1>25. Held(rv', rv, new)
  <2>1. rv.value \notin DOMAIN new
    BY <1>1, <1>21 DEF NamesInv, For
  <2> QED
    BY <1>13, <1>20, <2>1
<1>26. \A n \in Literals : Literal(n) \notin DOMAIN new
  BY <1>21 DEF Literal
<1>27. HeapInv' /\ SizesInv'
  BY ONLY IInv, Running, <1>3, <1>6, <1>10, <1>11, <1>14, <1>17, <1>19, <1>22, <1>23, <1>24, <1>25, <1>26, HeapStep
<1> QED
  BY <1>11, <1>15, <1>16, <1>17, <1>27, RunningIInv

-----------------------------------------------------------------------------
(* The end of a scope.                                                     *)

(* The marker of a scope is where Place looks for it, and nowhere else.    *)
LEMMA PlaceIs ==
  ASSUME StackInv, ScopesInv, NEW n \in DOMAIN scopes
  PROVE  /\ Place(n) \in DOMAIN stack
         /\ stack[Place(n)].kind = "marker" /\ stack[Place(n)].of = n
<1>1. PICK i \in DOMAIN stack : stack[i].kind = "marker" /\ stack[i].of = n
  BY DEF ScopesInv, IsMarker
<1>2. stack[i].block = Marker(n)
  BY <1>1 DEF StackInv, EntryInv, For, Marker
<1>3. Place(n) \in DOMAIN stack /\ stack[Place(n)].block = Marker(n)
  BY <1>2 DEF Place
<1>4. Marker(n)[1] = "marker" /\ Marker(n)[2] = n
  BY DEF Marker
<1>5. EntryInv(Place(n))
  BY <1>3 DEF StackInv
<1>6. stack[Place(n)].kind = "marker"
  BY <1>3, <1>4, <1>5 DEF EntryInv, For
<1>7. stack[Place(n)].block = Marker(stack[Place(n)].of)
  BY <1>5, <1>6 DEF EntryInv
<1>8. Marker(stack[Place(n)].of)[2] = stack[Place(n)].of
  BY DEF Marker
<1> QED
  BY <1>3, <1>4, <1>6, <1>7, <1>8

(* The definitions that go with a scope.                                   *)
Leaving(place) ==
  {stack[i].of : i \in {k \in place + 1 .. Len(stack) : stack[k].kind = "def"}}

(* What is below the marker of a scope is a stack for the scopes around it. *)
LEMMA CloseStack ==
  ASSUME TypeOK, StackInv, DefsInv, ScopesInv, NEW n \in DOMAIN scopes,
         NEW place, place = Place(n),
         stack' = SubSeq(stack, 1, place - 1),
         inst' = [v \in Variables |-> IF v \in Leaving(place) THEN Nothing ELSE inst[v]],
         scopes' = IF scopes[n] = "body"
                   THEN [SubSeq(scopes, 1, n - 1) EXCEPT ![n - 1] = "called"]
                   ELSE SubSeq(scopes, 1, n - 1)
  PROVE  /\ StackInv' /\ DefsInv' /\ ScopesInv' /\ scopes' \in Seq(ScopeKinds)
         /\ Len(stack) \in Nat /\ place \in 1 .. Len(stack) /\ stack[place].kind = "marker"
         /\ DOMAIN stack = 1 .. Len(stack) /\ DOMAIN stack' = 1 .. place - 1
         /\ \A i \in 1 .. place - 1 : stack'[i] = stack[i]
<1>1. scopes \in Seq(ScopeKinds) /\ stack \in Seq(Range(stack))
  BY DEF TypeOK, StackInv
<1>2. /\ place \in DOMAIN stack
      /\ stack[place].kind = "marker" /\ stack[place].of = n
  BY PlaceIs
<1>3. DOMAIN stack = 1 .. Len(stack) /\ Len(stack) \in Nat
      /\ DOMAIN scopes = 1 .. Len(scopes) /\ Len(scopes) \in Nat
  BY <1>1, LenProperties
<1>4. /\ stack' \in Seq(Range(stack')) /\ DOMAIN stack' = 1 .. place - 1
      /\ \A i \in 1 .. place - 1 : stack'[i] = stack[i]
  BY <1>1, <1>2, <1>3, CutOff
<1> DEFINE below == SubSeq(scopes, 1, n - 1)
<1>5. /\ below \in Seq(ScopeKinds) /\ DOMAIN below = 1 .. n - 1
      /\ \A m \in 1 .. n - 1 : below[m] = scopes[m]
  BY <1>1, <1>3, CutOff
<1> HIDE DEF below
<1>6. /\ scopes' \in Seq(ScopeKinds) /\ DOMAIN scopes' = 1 .. n - 1
      /\ \A m \in 1 .. n - 1 : scopes'[m] = scopes[m] \/ scopes'[m] = "called"
  <2>1. CASE scopes[n] = "body"
    <3>1. n - 1 \in 1 .. n - 1
      BY <1>3, <2>1 DEF ScopesInv
    <3>2. scopes' = [below EXCEPT ![n - 1] = "called"] /\ "called" \in ScopeKinds
      BY <2>1 DEF below, ScopeKinds
    <3>3. Len(below) = n - 1
      BY <1>3, <1>5, LenProperties
    <3>4. scopes' \in Seq(ScopeKinds)
      BY <1>5, <3>1, <3>2, <3>3, ExceptSeq
    <3> QED
      BY <1>5, <3>2, <3>4
  <2>2. CASE scopes[n] # "body"
    BY <1>5, <2>2 DEF below
  <2> QED
    BY <2>1, <2>2
<1>7. /\ \A i \in DOMAIN stack' : i \in DOMAIN stack /\ i < place /\ stack'[i] = stack[i]
      /\ \A i \in DOMAIN stack : i < place => i \in DOMAIN stack' /\ stack'[i] = stack[i]
      /\ \A i \in DOMAIN stack : i < place \/ i = place \/ i \in place + 1 .. Len(stack)
      /\ \A i \in place + 1 .. Len(stack) : i \in DOMAIN stack /\ ~(i < place)
  <2>1. place \in 1 .. Len(stack) /\ Len(stack) \in Nat
    BY <1>2, <1>3
  <2>2. \A i \in DOMAIN stack' : i \in DOMAIN stack /\ i < place /\ stack'[i] = stack[i]
    BY <1>3, <1>4, <2>1
  <2>3. \A i \in DOMAIN stack : i < place => i \in DOMAIN stack' /\ stack'[i] = stack[i]
    <3>1. \A i \in DOMAIN stack : i < place => i \in 1 .. place - 1
      BY <1>3, <2>1
    <3> QED
      BY <1>4, <3>1
  <2>4. /\ \A i \in DOMAIN stack : i < place \/ i = place \/ i \in place + 1 .. Len(stack)
        /\ \A i \in place + 1 .. Len(stack) : i \in DOMAIN stack /\ ~(i < place)
    BY <1>3, <2>1
  <2> QED
    BY <2>2, <2>3, <2>4
<1>8. \A v : v \in Leaving(place) <=>
        \E i \in place + 1 .. Len(stack) : stack[i].kind = "def" /\ stack[i].of = v
  BY DEF Leaving
<1>9. ASSUME NEW i \in DOMAIN stack', stack[i].kind = "def"
      PROVE  stack[i].of \notin Leaving(place)
  BY <1>7, <1>8, <1>9 DEF DefsInv
<1>10. StackInv'
  <2>1. ASSUME NEW i \in DOMAIN stack'
        PROVE  EntryInv(i)'
    <3>1. EntryInv(i) /\ stack'[i] = stack[i]
      BY <1>7 DEF StackInv
    <3>2. stack[i].kind = "def" /\ stack[i].of \in Strings \cup Arrays
            => inst'[stack[i].of] = inst[stack[i].of]
      BY <1>9 DEF Variables
    <3>3. stack[i].kind = "array" /\ (\E j \in 1 .. i - 1 : stack[j].kind = "def" /\ stack[j].of = stack[i].of)
            => \E j \in 1 .. i - 1 : stack'[j].kind = "def" /\ stack'[j].of = stack[i].of
      <4>1. \A j \in 1 .. i - 1 : stack'[j] = stack[j]
        BY <1>2, <1>3, <1>4
      <4> QED
        BY <4>1
    <3> QED
      BY <3>1, <3>2, <3>3 DEF EntryInv
  <2> QED
    BY <1>4, <2>1 DEF StackInv
<1>11. DefsInv'
  <2>1. ASSUME NEW i \in DOMAIN stack', NEW j \in DOMAIN stack',
               stack'[i].kind = "def", stack'[j].kind = "def", stack'[i].of = stack'[j].of
        PROVE  i = j
    <3>1. i \in DOMAIN stack /\ j \in DOMAIN stack /\ stack'[i] = stack[i] /\ stack'[j] = stack[j]
      BY <1>7
    <3> QED
      BY <2>1, <3>1 DEF DefsInv
  <2>2. ASSUME NEW v \in Strings \cup Arrays, inst'[v].block # Null
        PROVE  Defined(v)'
    <3>1. v \notin Leaving(place) /\ inst'[v] = inst[v]
      BY <2>2 DEF Nothing, Variables
    <3>2. PICK i \in DOMAIN stack : stack[i].kind = "def" /\ stack[i].of = v
      BY <2>2, <3>1 DEF DefsInv, Defined
    <3>3. i < place
      BY <1>2, <1>7, <1>8, <3>1, <3>2
    <3> QED
      BY <1>7, <3>2, <3>3 DEF Defined
  <2> QED
    BY <2>1, <2>2 DEF DefsInv
<1>12. ScopesInv'
  <2>1. ASSUME NEW i \in DOMAIN stack', stack'[i].kind = "marker"
        PROVE  stack'[i].of \in DOMAIN scopes'
    <3>1. i \in DOMAIN stack /\ i < place /\ stack'[i] = stack[i]
      BY <1>7
    <3>2. stack[i].of \in 1 .. Len(scopes) /\ stack[i].of < n
      <4>1. stack[i].of \in DOMAIN scopes
        BY <2>1, <3>1 DEF ScopesInv, IsMarker
      <4>2. stack[i].of < stack[place].of
        BY <1>2, <2>1, <3>1 DEF ScopesInv, IsMarker
      <4> QED
        BY <1>2, <1>3, <4>1, <4>2
    <3>3. \A m \in 1 .. Len(scopes) : m < n => m \in 1 .. n - 1
      BY <1>3
    <3>4. stack[i].of \in 1 .. n - 1
      BY <3>2, <3>3
    <3> QED
      BY <1>6, <3>1, <3>4
  <2>2. ASSUME NEW m \in DOMAIN scopes'
        PROVE  \E i \in DOMAIN stack' : stack'[i].kind = "marker" /\ stack'[i].of = m
    <3>1. m \in DOMAIN scopes /\ m < n /\ m # n /\ ~(n < m)
      BY <1>3, <1>6
    <3>2. PICK i \in DOMAIN stack : stack[i].kind = "marker" /\ stack[i].of = m
      BY <3>1 DEF ScopesInv, IsMarker
    <3>3. ~(place < i)
      BY <1>2, <3>1, <3>2 DEF ScopesInv, IsMarker
    <3>4. i # place
      BY <1>2, <3>1, <3>2
    <3>5. i < place
      BY <1>2, <1>3, <3>3, <3>4
    <3> QED
      BY <1>7, <3>2, <3>5
  <2>3. ASSUME NEW i \in DOMAIN stack', NEW j \in DOMAIN stack',
               stack'[i].kind = "marker", stack'[j].kind = "marker", i < j
        PROVE  stack'[i].of < stack'[j].of
    <3>1. i \in DOMAIN stack /\ j \in DOMAIN stack /\ stack'[i] = stack[i] /\ stack'[j] = stack[j]
      BY <1>7
    <3> QED
      BY <2>3, <3>1 DEF ScopesInv, IsMarker
  <2>4. ASSUME NEW i \in DOMAIN stack', stack'[i].kind \in {"value", "array"}
        PROVE  \E j \in 1 .. i - 1 : stack'[j].kind = "marker"
    <3>1. PICK j \in 1 .. i - 1 : stack[j].kind = "marker"
      BY <1>7, <2>4 DEF ScopesInv, IsMarker
    <3>2. stack'[j] = stack[j]
      BY <1>2, <1>3, <1>4
    <3> QED
      BY <3>1, <3>2
  <2>5. ASSUME NEW m \in DOMAIN scopes', scopes'[m] = "body"
        PROVE  m > 1
    <3>1. m \in DOMAIN scopes /\ scopes'[m] = scopes[m]
      BY <1>3, <1>6, <2>5
    <3> QED
      BY <2>5, <3>1 DEF ScopesInv
  <2>6. \A i : IsMarker(i)' <=> stack'[i].kind = "marker"
    BY DEF IsMarker
  <2>7. \A i, j \in DOMAIN stack' : IsMarker(i)' /\ IsMarker(j)' /\ i < j => stack'[i].of < stack'[j].of
    BY <2>3, <2>6
  <2>8. /\ \A i \in DOMAIN stack' : IsMarker(i)' => stack'[i].of \in DOMAIN scopes'
        /\ \A m \in DOMAIN scopes' : \E i \in DOMAIN stack' : IsMarker(i)' /\ stack'[i].of = m
    BY <2>1, <2>2, <2>6
  <2>9. ASSUME NEW i \in DOMAIN stack', stack'[i].kind \in {"value", "array"}
        PROVE  \E j \in 1 .. i - 1 : IsMarker(j)'
    <3>1. PICK j \in 1 .. i - 1 : stack'[j].kind = "marker"
      BY <2>4, <2>9
    <3> QED
      BY <2>6, <3>1
  <2> QED
    BY <2>5, <2>7, <2>8, <2>9 DEF ScopesInv
<1> QED
  BY <1>2, <1>3, <1>4, <1>6, <1>10, <1>11, <1>12

(* What clrsn frees, by the names of the blocks: the instantiations and    *)
(* the values of the definitions that go, and what their entries and those *)
(* of arguments own.                                                       *)
Going(b, i) ==
  \/ stack[i].kind = "def" /\ (b = inst[stack[i].of].block \/ b = inst[stack[i].of].value)
  \/ stack[i].kind # "marker" /\ b = stack[i].block
  \/ stack[i].kind = "value" /\ b = stack[i].value

(* They are the blocks of Freed.                                           *)
LEMMA FreedIs ==
  ASSUME StackInv, NEW i \in DOMAIN stack
  PROVE  \A b : b \in Blocks(Freed(i)) <=> b # Null /\ Going(b, i)
<1> SUFFICES ASSUME NEW b
             PROVE  b \in Blocks(Freed(i)) <=> b # Null /\ Going(b, i)
  OBVIOUS
<1> DEFINE e == stack[i]
<1>1. e.kind \in {"def", "value", "array", "marker"}
  BY DEF StackInv, EntryInv
<1>2. CASE e.kind = "def"
  <2>1. Freed(i) = InstantiationOf(e.of) \cup Pointer("entry", i, e.block)
    BY <1>2 DEF Freed
  <2>2. b \in Blocks(Freed(i)) <=> \/ b \in Blocks(Pointer("instantiation", e.of, inst[e.of].block))
                                   \/ b \in Blocks(Pointer("value", e.of, inst[e.of].value))
                                   \/ b \in Blocks(Pointer("entry", i, e.block))
    BY <2>1 DEF Blocks, InstantiationOf
  <2> QED
    BY <1>2, <2>2, PointerIs DEF Going
<1>3. CASE e.kind = "value"
  <2>1. Freed(i) = Pointer("argument", i, e.value) \cup Pointer("entry", i, e.block)
    BY <1>3 DEF Freed
  <2>2. b \in Blocks(Freed(i)) <=> \/ b \in Blocks(Pointer("argument", i, e.value))
                                   \/ b \in Blocks(Pointer("entry", i, e.block))
    BY <2>1 DEF Blocks
  <2> QED
    BY <1>3, <2>2, PointerIs DEF Going
<1>4. CASE e.kind = "array"
  <2>1. Freed(i) = Pointer("entry", i, e.block)
    BY <1>4 DEF Freed
  <2> QED
    BY <1>4, <2>1, PointerIs DEF Going
<1>5. CASE e.kind = "marker"
  <2>1. Freed(i) = {}
    BY <1>5 DEF Freed
  <2> QED
    BY <1>5, <2>1 DEF Going, Blocks
<1> QED
  BY <1>1, <1>2, <1>3, <1>4, <1>5

(* It is the memory of what owns it.                                       *)
LEMMA FreedIsOwned ==
  ASSUME StackInv, NEW i \in DOMAIN stack
  PROVE  Freed(i) \subseteq Owned
<1> DEFINE e == stack[i]
<1>1. e.kind \in {"def", "value", "array", "marker"}
  BY DEF StackInv, EntryInv
<1>2. CASE e.kind = "def"
  <2>1. e.of \in Variables
    BY <1>2 DEF StackInv, EntryInv, Variables
  <2>2. InstantiationOf(e.of) \subseteq InstantiationPointers
    BY <2>1 DEF InstantiationPointers
  <2>3. Pointer("entry", i, e.block) \subseteq EntryPointers({k \in DOMAIN stack : stack[k].kind # "marker"})
    BY <1>2 DEF EntryPointers
  <2> QED
    BY <1>2, <2>2, <2>3 DEF Freed, Owned
<1>3. CASE e.kind = "value"
  <2>1. Pointer("entry", i, e.block) \subseteq EntryPointers({k \in DOMAIN stack : stack[k].kind # "marker"})
    BY <1>3 DEF EntryPointers
  <2>2. Pointer("argument", i, e.value)
          \subseteq ArgumentPointers({k \in DOMAIN stack : stack[k].kind = "value"})
    BY <1>3 DEF ArgumentPointers
  <2> QED
    BY <1>3, <2>1, <2>2 DEF Freed, Owned
<1>4. CASE e.kind = "array"
  <2>1. Pointer("entry", i, e.block) \subseteq EntryPointers({k \in DOMAIN stack : stack[k].kind # "marker"})
    BY <1>4 DEF EntryPointers
  <2> QED
    BY <1>4, <2>1 DEF Freed, Owned
<1>5. CASE e.kind = "marker"
  BY <1>5 DEF Freed
<1> QED
  BY <1>1, <1>2, <1>3, <1>4, <1>5

(* A scope is left: each definition goes with its instantiation, each      *)
(* argument with its value, and what stays has no part in them.            *)
LEMMA CloseIInv ==
  ASSUME IInv, Running, NEW n \in DOMAIN scopes, Close(n)
  PROVE  IInv'
<1> DEFINE place == Place(n)
           gone  == place + 1 .. Len(stack)
           defs  == Leaving(place)
           reads == {Text(inst[v].block, 1) : v \in defs}
           frees == UNION {Freed(i) : i \in gone}
           new   == <<>>
<1>1. TypeOK /\ NamesInv /\ StackInv /\ DefsInv /\ ScopesInv
  BY DEF IInv
<1>2. /\ Memory(reads, frees, new)
      /\ inst' = [v \in Variables |-> IF v \in defs THEN Nothing ELSE inst[v]]
      /\ stack' = SubSeq(stack, 1, place - 1)
      /\ scopes' = IF scopes[n] = "body"
                   THEN [SubSeq(scopes, 1, n - 1) EXCEPT ![n - 1] = "called"]
                   ELSE SubSeq(scopes, 1, n - 1)
      /\ UNCHANGED <<regs, rv>>
  BY DEF Close, Leaving
<1> HIDE DEF place, defs
<1>3. /\ StackInv' /\ DefsInv' /\ ScopesInv' /\ scopes' \in Seq(ScopeKinds)
      /\ Len(stack) \in Nat /\ place \in 1 .. Len(stack) /\ stack[place].kind = "marker"
      /\ DOMAIN stack = 1 .. Len(stack) /\ DOMAIN stack' = 1 .. place - 1
      /\ \A i \in 1 .. place - 1 : stack'[i] = stack[i]
  BY <1>1, <1>2, CloseStack DEF place, defs
<1>4. /\ \A i \in gone : i \in DOMAIN stack /\ i \notin DOMAIN stack'
      /\ \A i \in DOMAIN stack' : i \in DOMAIN stack /\ stack'[i] = stack[i]
      /\ \A i \in DOMAIN stack : stack[i].kind # "marker" => i \in gone \/ i \in DOMAIN stack'
  BY <1>3
<1>5. \A v : v \in defs <=> \E i \in gone : stack[i].kind = "def" /\ stack[i].of = v
  BY DEF defs, Leaving
<1> HIDE DEF gone
<1>6. \A b : b \in Blocks(frees) <=> b # Null /\ \E i \in gone : Going(b, i)
  <2>1. \A b : b \in Blocks(frees) <=> \E i \in gone : b \in Blocks(Freed(i))
    BY DEF Blocks
  <2> QED
    BY <1>1, <1>4, <2>1, FreedIs
<1>7. frees \subseteq Owned
  BY <1>1, <1>4, FreedIsOwned
<1>8. \A t \in reads : Readable(t)
  <2>1. ASSUME NEW v \in defs
        PROVE  Readable(Text(inst[v].block, 1))
    <3>1. PICK i \in DOMAIN stack : stack[i].kind = "def" /\ stack[i].of = v
      BY <1>4, <1>5
    <3>2. v \in Variables /\ inst[v].block # Null
      BY <1>1, <3>1 DEF StackInv, EntryInv, Variables
    <3> QED
      BY <3>2, HoldersReadable
  <2> QED
    BY <2>1
<1>9. DOMAIN new = {} /\ \A d \in DOMAIN new : new[d] \in Nat
  OBVIOUS
<1> HIDE DEF frees, reads, new
<1>10. /\ status' = "running"
       /\ heap' = [d \in DOMAIN heap' |-> heap'[d]]
       /\ \A d \in DOMAIN heap' : heap'[d] \in Nat
  BY ONLY IInv, Running, <1>2, <1>7, <1>8, <1>9, MemoryStep
<1>11. /\ inst' = [v \in Variables |-> inst'[v]]
       /\ \A v \in Variables : v \in defs => inst'[v].block = Null /\ inst'[v].value = Null /\ inst'[v].len = 0
       /\ \A v \in Variables : v \notin defs => inst'[v] = inst[v]
  BY <1>2 DEF Nothing
<1>12. TypeOK'
  <2>1. ASSUME NEW v \in Variables
        PROVE  IsInst(inst'[v])
    <3>1. CASE v \in defs
      <4>1. inst'[v] = Nothing
        BY <1>2, <3>1
      <4> QED
        BY <4>1 DEF IsInst, Nothing
    <3>2. CASE v \notin defs
      BY <1>1, <1>11, <3>2 DEF TypeOK
    <3> QED
      BY <3>1, <3>2
  <2> QED
    BY <1>1, <1>2, <1>3, <1>10, <1>11, <2>1 DEF TypeOK
<1>13. NamesInv'
  BY <1>1, <1>2, <1>11 DEF NamesInv
<1>14. Null[1] = "null"
  BY DEF Null
<1>15. ASSUME NEW i \in gone, NEW b, b # Null, Going(b, i)
       PROVE  \/ /\ stack[i].kind = "def" /\ b[1] = "instantiation" /\ b[2] = stack[i].of
                 /\ b = inst[b[2]].block
              \/ /\ stack[i].kind = "def" /\ b[1] = "value" /\ b[2] = stack[i].of
                 /\ b = inst[b[2]].value
              \/ stack[i].kind = "def" /\ b[1] = "entry" /\ b[2] = stack[i].of /\ b = stack[i].block
              \/ /\ stack[i].kind \in {"value", "array"} /\ b[1] = "argument entry"
                 /\ i - 1 = b[2] /\ b = stack[i].block
              \/ stack[i].kind = "value" /\ b[1] = "argument" /\ i - 1 = b[2] /\ b = stack[i].value
  <2>1. EntryInv(i)
    BY <1>1, <1>4 DEF StackInv
  <2>2. CASE stack[i].kind = "def"
    <3>1. stack[i].of \in Variables
      BY <2>1, <2>2 DEF EntryInv, Variables
    <3>2. \/ inst[stack[i].of].block = Null /\ inst[stack[i].of].value = Null
          \/ /\ For(inst[stack[i].of].block, "instantiation", stack[i].of)
             /\ For(inst[stack[i].of].value, "value", stack[i].of)
      BY <1>1, <3>1 DEF NamesInv
    <3> QED
      BY <1>15, <2>1, <2>2, <3>2 DEF EntryInv, For, Going
  <2>3. CASE stack[i].kind # "def"
    BY <1>15, <2>1, <2>3 DEF EntryInv, For, Going
  <2> QED
    BY <2>2, <2>3
<1>16. ASSUME NEW b
       PROVE  OwnerByName(b)' <=> (OwnerByName(b) /\ b \notin Blocks(frees)) \/ b \in DOMAIN new
  <2>1. b \notin DOMAIN new
    BY <1>9
  <2>2. b \in Blocks(frees) => b[1] \in {"instantiation", "value", "entry", "argument entry", "argument"}
    BY <1>6, <1>15
  <2>3. CASE b[1] = "instantiation"
    <3>1. b \notin TableBlocks /\ b # Null
      BY <1>14, <2>3, TableNames
    <3>2. b \in Blocks(frees) => b[2] \in defs /\ b = inst[b[2]].block
      <4>1. SUFFICES ASSUME b \in Blocks(frees)
                     PROVE  b[2] \in defs /\ b = inst[b[2]].block
        OBVIOUS
      <4>2. PICK i \in gone : Going(b, i)
        BY <1>6, <4>1
      <4>3. stack[i].kind = "def" /\ b[2] = stack[i].of /\ b = inst[b[2]].block
        BY <1>15, <2>3, <3>1, <4>2
      <4> QED
        BY <1>5, <4>3
    <3>3. b[2] \in defs /\ b = inst[b[2]].block => b \in Blocks(frees)
      BY <1>5, <1>6, <3>1 DEF Going
    <3>4. b[2] \in Variables /\ b = inst'[b[2]].block
            <=> b[2] \in Variables /\ b = inst[b[2]].block /\ b[2] \notin defs
      BY <1>11, <3>1
    <3>5. OwnerByName(b)' <=> b[2] \in Variables /\ b = inst'[b[2]].block
      BY <2>3, <3>1 DEF OwnerByName
    <3>6. OwnerByName(b) <=> b[2] \in Variables /\ b = inst[b[2]].block
      BY <2>3, <3>1 DEF OwnerByName
    <3> QED
      BY <2>1, <3>2, <3>3, <3>4, <3>5, <3>6
  <2>4. CASE b[1] = "value"
    <3>1. b \notin TableBlocks /\ b # Null
      BY <1>14, <2>4, TableNames
    <3>2. b \in Blocks(frees) => b[2] \in defs /\ b = inst[b[2]].value
      <4>1. SUFFICES ASSUME b \in Blocks(frees)
                     PROVE  b[2] \in defs /\ b = inst[b[2]].value
        OBVIOUS
      <4>2. PICK i \in gone : Going(b, i)
        BY <1>6, <4>1
      <4>3. stack[i].kind = "def" /\ b[2] = stack[i].of /\ b = inst[b[2]].value
        BY <1>15, <2>4, <3>1, <4>2
      <4> QED
        BY <1>5, <4>3
    <3>3. b[2] \in defs /\ b = inst[b[2]].value => b \in Blocks(frees)
      BY <1>5, <1>6, <3>1 DEF Going
    <3>4. b[2] \in Variables /\ b = inst'[b[2]].value
            <=> b[2] \in Variables /\ b = inst[b[2]].value /\ b[2] \notin defs
      BY <1>11, <3>1
    <3>5. OwnerByName(b)' <=> b[2] \in Variables /\ b = inst'[b[2]].value
      BY <2>4, <3>1 DEF OwnerByName
    <3>6. OwnerByName(b) <=> b[2] \in Variables /\ b = inst[b[2]].value
      BY <2>4, <3>1 DEF OwnerByName
    <3> QED
      BY <2>1, <3>2, <3>3, <3>4, <3>5, <3>6
  <2>5. CASE b[1] = "entry"
    <3>1. b \notin TableBlocks /\ b # Null
      BY <1>14, <2>5, TableNames
    <3>2. b \in Blocks(frees) <=> \E i \in gone : stack[i].kind = "def" /\ stack[i].of = b[2] /\ b = stack[i].block
      <4>1. ASSUME NEW i \in gone, stack[i].kind = "def", b = stack[i].block
            PROVE  Going(b, i)
        BY <4>1 DEF Going
      <4> QED
        BY <1>6, <1>15, <2>5, <3>1, <4>1
    <3>3. (\E i \in DOMAIN stack' : stack'[i].kind = "def" /\ stack'[i].of = b[2] /\ b = stack'[i].block)
            <=> \E i \in DOMAIN stack' : stack[i].kind = "def" /\ stack[i].of = b[2] /\ b = stack[i].block
      BY <1>4
    <3>4. ASSUME NEW i \in DOMAIN stack', NEW j \in gone, stack[i].kind = "def", stack[i].of = b[2],
                 stack[j].kind = "def", stack[j].of = b[2]
          PROVE  FALSE
      <4>1. i \in DOMAIN stack /\ j \in DOMAIN stack /\ j \notin DOMAIN stack'
        BY <1>4
      <4>2. i = j
        BY <1>1, <3>4, <4>1 DEF DefsInv
      <4> QED
        BY <4>1, <4>2
    <3>5. (\E i \in DOMAIN stack : stack[i].kind = "def" /\ stack[i].of = b[2] /\ b = stack[i].block)
            <=> \/ \E i \in DOMAIN stack' : stack[i].kind = "def" /\ stack[i].of = b[2] /\ b = stack[i].block
                \/ \E i \in gone : stack[i].kind = "def" /\ stack[i].of = b[2] /\ b = stack[i].block
      BY <1>4
    <3>6. OwnerByName(b)' <=>
            \E i \in DOMAIN stack' : stack'[i].kind = "def" /\ stack'[i].of = b[2] /\ b = stack'[i].block
      BY <2>5, <3>1 DEF OwnerByName
    <3>7. OwnerByName(b) <=>
            \E i \in DOMAIN stack : stack[i].kind = "def" /\ stack[i].of = b[2] /\ b = stack[i].block
      BY <2>5, <3>1 DEF OwnerByName
    <3> QED
      BY <2>1, <3>2, <3>3, <3>4, <3>5, <3>6, <3>7
  <2>6. CASE b[1] \in {"argument entry", "argument"}
    <3> DEFINE Has(i) == \/ /\ b[1] = "argument entry" /\ stack[i].kind \in {"value", "array"}
                            /\ i - 1 = b[2] /\ b = stack[i].block
                         \/ /\ b[1] = "argument" /\ stack[i].kind = "value"
                            /\ i - 1 = b[2] /\ b = stack[i].value
    <3>1. b \notin TableBlocks /\ b # Null
      BY <1>14, <2>6, TableNames
    <3>2. b \in Blocks(frees) <=> \E i \in gone : Has(i)
      <4>1. ASSUME NEW i \in gone, Has(i)
            PROVE  Going(b, i)
        BY <4>1 DEF Going
      <4>2. ASSUME NEW i \in gone, Going(b, i)
            PROVE  Has(i)
        BY <1>15, <2>6, <3>1, <4>2
      <4> HIDE DEF Has
      <4> QED
        BY <1>6, <3>1, <4>1, <4>2
    <3>3. OwnerByName(b)' <=> \E i \in DOMAIN stack' : Has(i)
      <4>1. OwnerByName(b)' <=>
              \E i \in DOMAIN stack' :
                \/ /\ b[1] = "argument entry" /\ stack'[i].kind \in {"value", "array"}
                   /\ i - 1 = b[2] /\ b = stack'[i].block
                \/ /\ b[1] = "argument" /\ stack'[i].kind = "value"
                   /\ i - 1 = b[2] /\ b = stack'[i].value
        BY <2>6, <3>1 DEF OwnerByName
      <4> QED
        BY <1>4, <4>1
    <3>4. OwnerByName(b) <=> \E i \in DOMAIN stack : Has(i)
      BY <2>6, <3>1 DEF OwnerByName
    <3>5. ASSUME NEW i \in DOMAIN stack', NEW j \in gone, Has(i), Has(j)
          PROVE  FALSE
      <4>1. i \in Int /\ j \in Int /\ i # j
        BY <1>3, <1>4
      <4>2. i - 1 = j - 1
        BY <3>5
      <4> QED
        BY <4>1, <4>2
    <3>6. \A i \in DOMAIN stack : Has(i) => i \in gone \/ i \in DOMAIN stack'
      BY <1>4
    <3>7. \A i \in gone : i \in DOMAIN stack
      BY <1>4
    <3>8. \A i \in DOMAIN stack' : i \in DOMAIN stack
      BY <1>4
    <3> HIDE DEF Has
    <3> QED
      BY <2>1, <3>2, <3>3, <3>4, <3>5, <3>6, <3>7, <3>8
  <2>7. CASE b[1] \notin {"instantiation", "value", "entry", "argument entry", "argument"}
    <3>1. OwnerByName(b)' <=> OwnerByName(b)
      BY <1>2, <2>7 DEF OwnerByName
    <3> QED
      BY <2>1, <2>2, <2>7, <3>1
  <2> QED
    BY <2>3, <2>4, <2>5, <2>6, <2>7
<1>17. \A t : Held(t, t, new)
  BY <1>9 DEF Held
<1>18. ASSUME NEW w \in Variables
       PROVE  /\ inst'[w].block # Null => inst'[w].block = inst[w].block /\ inst'[w].block \notin DOMAIN new
              /\ Held(ValueOf(inst'[w]), ValueOf(inst[w]), new)
  <2>1. CASE w \in defs
    <3>1. ValueOf(inst'[w]).value = Null /\ ValueOf(inst'[w]).len = 0
      BY <1>11, <2>1 DEF ValueOf, Text
    <3> QED
      BY <1>11, <2>1, <3>1 DEF Held
  <2>2. CASE w \notin defs
    BY <1>9, <1>11, <1>17, <2>2
  <2> QED
    BY <2>1, <2>2
<1>19. \A q \in Registers : Held(regs'[q], regs[q], new)
  BY <1>2, <1>17
<1>20. \A i \in DOMAIN stack' : stack'[i].kind = "value" =>
         i \in DOMAIN stack /\ stack[i].kind = "value" /\ Held(ValueOf(stack'[i]), ValueOf(stack[i]), new)
  BY <1>4, <1>17
<1>21. Held(rv', rv, new)
  BY <1>2, <1>17
<1>22. \A m \in Literals : Literal(m) \notin DOMAIN new
  BY <1>9
<1>23. HeapInv' /\ SizesInv'
  BY ONLY IInv, Running, <1>2, <1>3, <1>7, <1>8, <1>9, <1>13, <1>16, <1>18, <1>19, <1>20, <1>21, <1>22, HeapStep
<1> QED
  BY <1>3, <1>10, <1>12, <1>13, <1>23, RunningIInv

-----------------------------------------------------------------------------
(* The end of the machine.                                                 *)

(* The machine is cleaned up: all that has an owner is freed, and when no  *)
(* scope is open nothing is freed twice, for then only definitions are on  *)
(* the stack.                                                              *)
LEMMA CleanupIInv ==
  ASSUME IInv, Running, Cleanup
  PROVE  IInv'
<1>1. TypeOK /\ NamesInv /\ StackInv /\ DefsInv /\ ScopesInv /\ HeapInv
  BY DEF IInv
<1> DEFINE entries   == EntryPointers(DOMAIN stack)
           arguments == ArgumentPointers({i \in DOMAIN stack : stack[i].kind # "def"})
           owned     == EntryPointers({i \in DOMAIN stack : stack[i].kind # "marker"})
           values    == ArgumentPointers({i \in DOMAIN stack : stack[i].kind = "value"})
           rest      == FreedTables \cup InstantiationPointers \cup RegisterPointers \cup ReturnPointer
<1>2. FreedAtEnd = rest \cup entries \cup arguments /\ Owned = rest \cup owned \cup values
  BY DEF FreedAtEnd, Owned
<1>3. owned \subseteq entries /\ values \subseteq arguments
  <2>1. owned \subseteq entries
    BY DEF EntryPointers
  <2>2. values \subseteq arguments
    BY DEF ArgumentPointers
  <2> QED
    BY <2>1, <2>2
<1>4. ASSUME scopes = <<>>
      PROVE  entries = owned /\ arguments = values
  <2>1. DOMAIN scopes = {}
    BY <1>4
  <2>2. \A i \in DOMAIN stack : stack[i].kind # "marker"
    BY <1>1, <2>1 DEF ScopesInv, IsMarker
  <2>3. \A i \in DOMAIN stack : \A j \in 1 .. i - 1 : j \in DOMAIN stack
    <3>1. DOMAIN stack = 1 .. Len(stack) /\ Len(stack) \in Nat
      BY <1>1, LenProperties DEF StackInv
    <3> QED
      BY <3>1
  <2>4. \A i \in DOMAIN stack : stack[i].kind \notin {"value", "array"}
    BY <1>1, <2>2, <2>3 DEF ScopesInv, IsMarker
  <2>5. \A i \in DOMAIN stack : stack[i].kind = "def"
    <3>1. \A i \in DOMAIN stack : stack[i].kind \in {"def", "value", "array", "marker"}
      BY <1>1 DEF StackInv, EntryInv
    <3> QED
      BY <2>2, <2>4, <3>1
  <2>6. {i \in DOMAIN stack : stack[i].kind # "marker"} = DOMAIN stack
    BY <2>2
  <2>7. /\ {i \in DOMAIN stack : stack[i].kind # "def"} = {}
        /\ {i \in DOMAIN stack : stack[i].kind = "value"} = {}
    BY <2>4, <2>5
  <2> QED
    BY <2>6, <2>7
<1> HIDE DEF entries, arguments, owned, values, rest
<1>5. Blocks(Owned) \subseteq Blocks(FreedAtEnd)
  BY <1>2, <1>3 DEF Blocks
<1>6. heap' = <<>>
  <2>1. DOMAIN heap \ Blocks(FreedAtEnd) = {}
    BY <1>1, <1>5 DEF HeapInv
  <2>2. heap' = [b \in {} |-> heap[b]]
    BY <2>1 DEF Cleanup
  <2> QED
    BY <2>2
<1>7. ASSUME scopes = <<>>
      PROVE  Freeable(FreedAtEnd)
  <2>1. FreedAtEnd = Owned
    BY <1>2, <1>4, <1>7
  <2>2. Distinct(Owned) /\ Blocks(Owned) = DOMAIN heap
    BY <1>1, OwnersDiffer DEF HeapInv
  <2> QED
    BY <2>1, <2>2 DEF Freeable
<1>8. /\ status' = IF Freeable(FreedAtEnd) THEN "released" ELSE "crashed"
      /\ scopes' = scopes
  BY DEF Cleanup
<1> QED
  BY <1>6, <1>7, <1>8 DEF IInv, Running, CleanupIsExact

-----------------------------------------------------------------------------
(* The machine starts with the tables alone.                               *)
LEMMA InitIInv == Init => IInv
<1> SUFFICES ASSUME Init
             PROVE  IInv
  OBVIOUS
<1>1. /\ heap = [b \in TableBlocks |-> IF b \in Tables THEN 1 ELSE b[2]]
      /\ DOMAIN heap = TableBlocks
      /\ stack = <<>> /\ scopes = <<>> /\ status = "running"
      /\ inst = [v \in Variables |-> Nothing]
      /\ regs = [r \in Registers |-> Text(Null, 0)]
      /\ rv = Text(Null, 0)
  BY DEF Init, TableBlocks
<1>2. \A n \in Literals : /\ Literal(n) \in TableBlocks /\ Literal(n) \notin Tables
                          /\ Literal(n)[2] = n /\ n \in Nat
  BY MemoryAssumption DEF TableBlocks, Tables, Literal, VariableEntry, Marker, MemoryAssumption
<1>3. \A n \in Literals : heap[Literal(n)] = n
  BY <1>1, <1>2
<1>4. \A b \in DOMAIN heap : heap[b] \in Nat
  <2>1. ASSUME NEW b \in TableBlocks
        PROVE  heap[b] \in Nat
    <3>1. CASE b \in Tables
      <4>1. heap[b] = 1
        BY <1>1, <3>1
      <4> QED
        BY <4>1
    <3>2. CASE b \notin Tables
      <4>1. PICK n \in Literals : b = Literal(n)
        BY <3>2 DEF TableBlocks
      <4> QED
        BY <1>2, <1>3, <4>1
    <3> QED
      BY <3>1, <3>2
  <2> QED
    BY <1>1, <2>1
<1>5. Text(Null, 0).value = Null /\ Text(Null, 0).len = 0 /\ IsText(Text(Null, 0))
  BY DEF Text, IsText
<1>6. Nothing.block = Null /\ Nothing.value = Null /\ Nothing.len = 0 /\ IsInst(Nothing)
  BY DEF Nothing, IsInst
<1>7. DOMAIN stack = {} /\ DOMAIN scopes = {}
  BY <1>1
<1>8. TypeOK
  <2>1. \A v \in Variables : IsInst(inst[v])
    BY <1>1, <1>6
  <2>2. \A r \in Registers : IsText(regs[r])
    BY <1>1, <1>5
  <2>3. heap = [b \in DOMAIN heap |-> heap[b]] /\ inst = [v \in Variables |-> inst[v]]
        /\ regs = [r \in Registers |-> regs[r]]
    BY <1>1
  <2>4. scopes \in Seq(ScopeKinds)
    BY <1>1
  <2> QED
    BY <1>1, <1>4, <1>5, <2>1, <2>2, <2>3, <2>4 DEF TypeOK
<1>9. NamesInv
  BY <1>1, <1>5, <1>6 DEF NamesInv
<1>10. StackInv
  <2>1. stack \in Seq(Range(stack))
    BY <1>1
  <2> QED
    BY <1>7, <2>1 DEF StackInv
<1>11. DefsInv
  BY <1>1, <1>6, <1>7 DEF DefsInv, Variables
<1>12. ScopesInv
  BY <1>7 DEF ScopesInv
<1>13. HeapInv
  <2>1. \A b : Owner(b) <=> b \in TableBlocks
    BY <1>1, <1>5, <1>6, <1>7, TableNames DEF Owner
  <2> QED
    BY <1>1, <2>1, OwnerIs DEF HeapInv
<1>14. SizesInv
  <2>1. /\ \A r \in Registers : Readable(regs[r])
        /\ \A v \in Variables : Readable(Text(inst[v].value, inst[v].len))
        /\ Readable(rv)
    BY <1>1, <1>5, <1>6 DEF Readable
  <2>2. LengthsFit
    BY <1>7, <2>1 DEF LengthsFit
  <2> QED
    BY <1>1, <1>3, <1>6, <2>2 DEF SizesInv
<1> QED
  BY <1>1, <1>8, <1>9, <1>10, <1>11, <1>12, <1>13, <1>14 DEF IInv, CleanupIsExact

(* Every step keeps the invariant.                                         *)
LEMMA NextIInv == IInv /\ [Next]_vars => IInv'
<1> SUFFICES ASSUME IInv, [Next]_vars
             PROVE  IInv'
  OBVIOUS
<1>1. ASSUME NEW v \in Strings \cup Arrays, Define(v)
      PROVE  IInv'
  <2>1. Running
    BY <1>1 DEF Define
  <2> QED
    BY <1>1, <2>1, DefineIInv
<1>2. ASSUME NEW a \in Arrays, NEW n \in Sizes, Grow(a, n)
      PROVE  IInv'
  <2>1. Running
    BY <1>2 DEF Grow
  <2> QED
    BY <1>2, <2>1, GrowIInv
<1>3. ASSUME NEW r \in Registers, NEW t \in Sources, Load(r, t)
      PROVE  IInv'
  <2>1. Running
    BY <1>3 DEF Load
  <2> QED
    BY <1>3, <2>1, LoadIInv
<1>4. ASSUME NEW r \in Registers, NEW v \in Strings, NEW i \in Indices, NEW j \in Indices,
             LoadPart(r, v, i, j)
      PROVE  IInv'
  <2>1. Running
    BY <1>4 DEF LoadPart
  <2> QED
    BY <1>4, <2>1, LoadPartIInv
<1>5. ASSUME NEW r \in Registers, NEW t \in Sources, Add(r, t)
      PROVE  IInv'
  <2>1. Running
    BY <1>5 DEF Add
  <2> QED
    BY <1>5, <2>1, AddIInv
<1>6. ASSUME NEW r \in Registers, NEW v \in Strings, Store(v, r)
      PROVE  IInv'
  <2>1. Running
    BY <1>6 DEF Store
  <2> QED
    BY <1>6, <2>1, StoreIInv
<1>7. ASSUME NEW r \in Registers, NEW v \in Strings, NEW i \in Indices, WriteAt(v, r, i)
      PROVE  IInv'
  <2>1. Running
    BY <1>7 DEF WriteAt
  <2> QED
    BY <1>7, <2>1, WriteAtIInv
<1>8. ASSUME NEW r \in Registers, NEW v \in Strings, NEW i \in Indices,
             NEW j \in 0 .. MaxLength + 1, Replace(v, r, i, j)
      PROVE  IInv'
  <2>1. Running
    BY <1>8 DEF Replace
  <2> QED
    BY <1>8, <2>1, ReplaceIInv
<1>9. ASSUME NEW r \in Registers, ReturnString(r)
      PROVE  IInv'
  <2>1. Running
    BY <1>9 DEF ReturnString
  <2> QED
    BY <1>9, <2>1, ReturnStringIInv
<1>10. CASE OpenBlock
  BY <1>10, MarkIInv DEF OpenBlock, ScopeKinds
<1>11. CASE OpenCall
  BY <1>11, MarkIInv DEF OpenCall, ScopeKinds
<1>12. ASSUME NEW r \in Registers, PushString(r)
       PROVE  IInv'
  <2>1. Running
    BY <1>12 DEF PushString
  <2> QED
    BY <1>12, <2>1, PushStringIInv
<1>13. ASSUME NEW a \in Arrays, PushArray(a)
       PROVE  IInv'
  <2>1. Running
    BY <1>13 DEF PushArray
  <2> QED
    BY <1>13, <2>1, PushArrayIInv
<1>14. CASE EnterPlain
  BY <1>14, MarkIInv DEF EnterPlain, InCall, ScopeKinds
<1>15. CASE EnterWithArray
  BY <1>15, EnterWithArrayIInv DEF EnterWithArray
<1>16. CASE Serve
  BY <1>16, ServeIInv DEF Serve
<1>17. ASSUME NEW n \in DOMAIN scopes, Close(n)
       PROVE  IInv'
  <2>1. Running
    BY <1>17 DEF Close
  <2> QED
    BY <1>17, <2>1, CloseIInv
<1>18. CASE Cleanup
  BY <1>18, CleanupIInv DEF Cleanup
<1>19. CASE UNCHANGED vars
  BY <1>19, StutterIInv DEF vars
<1> QED
  BY <1>1, <1>2, <1>3, <1>4, <1>5, <1>6, <1>7, <1>8, <1>9, <1>10, <1>11, <1>12,
     <1>13, <1>14, <1>15, <1>16, <1>17, <1>18, <1>19 DEF Next

-----------------------------------------------------------------------------
(* The inductive invariant holds in every state.                           *)
THEOREM Invariance == Spec => []IInv
  BY InitIInv, NextIInv, PTL DEF Spec

(* No instruction reads, wipes or frees memory that is not there: the      *)
(* NAP_MEM_FREE and memcpy calls of the vm find what they name, in any     *)
(* order of definitions, calls, breaks and string operations.              *)
THEOREM MemoryIsThere == Spec => []NoFault
<1>1. IInv => NoFault
  BY DEF IInv, NoFault
<1> QED
  BY <1>1, Invariance, PTL

(* While the machine runs every block has exactly one owner: no string is  *)
(* shared between registers, variables, arguments and the return value     *)
(* (vm/nbci_impl.c nap_set_regs, vm/mov.c, vm/return.c), and none is lost. *)
THEOREM BlocksHaveOneOwner == Spec => []OneOwner
<1>1. IInv => OneOwner
  BY OwnersDiffer DEF IInv, OneOwner, HeapInv
<1> QED
  BY <1>1, Invariance, PTL

(* The length kept with a string never exceeds its memory (vm/mov.c        *)
(* move_string_into_substring and its siblings).                           *)
THEOREM StringsFit == Spec => []LengthsFit
<1>1. IInv => LengthsFit
  BY DEF IInv, SizesInv, LengthsFit
<1> QED
  BY <1>1, Invariance, PTL

(* nap_vm_cleanup leaves no memory behind, and frees something twice only  *)
(* when the program stopped inside of a scope.                             *)
THEOREM CleanupFreesAll == Spec => []CleanupIsExact
<1>1. IInv => CleanupIsExact
  BY DEF IInv
<1> QED
  BY <1>1, Invariance, PTL
=============================================================================
