------------------------------ MODULE NapMemory ------------------------------
(***************************************************************************)
(* The memory one nap machine allocates, who owns each piece of it, and    *)
(* when it is freed: definitions and their instantiations (vm/push.c,      *)
(* vm/clrs.c), strings in variables, registers, arguments and the return   *)
(* value (vm/mov.c, vm/operation.c, vm/return.c, vm/nbci_impl.c), arrays   *)
(* passed as arguments (vm/push.c, vm/peek.c, vm/serve.c) and the cleanup  *)
(* of the machine (vm/nbci_impl.c).                                        *)
(*                                                                         *)
(* A block of memory has a size, in characters or cells, and no content.   *)
(* The program is any that the compiler can produce without recursion and  *)
(* returned arrays: it enters and leaves blocks and calls in the order of  *)
(* compiler/evaluate.cpp, and may stop at any instruction.                 *)
(***************************************************************************)
EXTENDS Integers, Sequences, SequencesExt

CONSTANTS
  Strings, Arrays,  \* the variables, by what they hold
  Parameter,        \* the array parameter of the functions that have one
  Registers,        \* string registers
  Marks,            \* the marker codes; scopes that are open at the same
                    \* time have different ones, here that of their depth
  Literals,         \* the lengths of the strings in the string table
  Sizes,            \* bound: the numbers of cells of arrays
  MaxLength,        \* bound: the length of a string
  MaxStack          \* bound: entries on the stack

ASSUME MemoryAssumption ==
  /\ Strings \cap Arrays = {} /\ Parameter \notin Strings \cup Arrays
  /\ Marks \in SUBSET Nat /\ Literals \subseteq 0 .. MaxLength
  /\ Sizes \subseteq 1 .. MaxLength
  /\ MaxLength \in Nat \ {0} /\ MaxStack \in Nat

VARIABLES
  heap,     \* the blocks that are allocated, each with its size
  stack,    \* the operand stack up to the stack pointer
  inst,     \* variable_entry.instantiation of each variable
  regs,     \* the string registers
  rv,       \* the string return value
  grown,    \* the arrays that have dimensions
  scopes,   \* the scopes the program is in, the innermost last
  status    \* "running", "released"; "fault" and "crashed" when memory was
            \* used that is not there
vars == <<heap, stack, inst, regs, rv, grown, scopes, status>>

Variables == Strings \cup Arrays \cup {Parameter}

-----------------------------------------------------------------------------
(* Blocks of memory.  A block is named for what it was allocated for, with *)
(* a number that tells apart two blocks allocated for the same purpose.    *)
Null == <<"null", 0, 0>>

VariableEntry(v) == <<"variable", v, 1>>
Marker(m)        == <<"marker", m, 1>>
Literal(n)       == <<"literal", n, 1>>

Text(value, len) == [value |-> value, len |-> len]

(* The pointer that a holder has to a block; no pointer when it is NULL.   *)
Pointer(kind, holder, block) ==
  IF block = Null THEN {} ELSE {<<<<kind, holder>>, block>>}

Blocks(pointers) == {p[2] : p \in pointers}

(* memcpy and memset of len characters: the block must be there and have   *)
(* them.                                                                   *)
Readable(text) ==
  \/ text.len = 0 /\ text.value = Null
  \/ text.value \in DOMAIN heap /\ text.len <= heap[text.value]

Distinct(pointers) == \A p, q \in pointers : p[2] = q[2] => p = q

(* free: each block is allocated, and freed through one pointer.           *)
Freeable(pointers) == Distinct(pointers) /\ Blocks(pointers) \subseteq DOMAIN heap

(* One instruction reads some texts, frees some blocks and allocates       *)
(* others; new gives their sizes.                                          *)
Memory(reads, frees, new) ==
  /\ heap' = [b \in (DOMAIN heap \ Blocks(frees)) \cup DOMAIN new |->
                IF b \in DOMAIN new THEN new[b] ELSE heap[b]]
  /\ status' = IF (\A t \in reads : Readable(t)) /\ Freeable(frees)
               THEN "running" ELSE "fault"

InstantiationOf(v) ==
  Pointer("instantiation", v, inst[v].block) \cup Pointer("value", v, inst[v].value)

InstantiationPointers == UNION { InstantiationOf(v) : v \in Variables }
EntryPointers(S)      == UNION { Pointer("entry", i, stack[i].block) : i \in S }
ArgumentPointers(S)   == UNION { Pointer("argument", i, stack[i].value) : i \in S }
RegisterPointers      == UNION { Pointer("register", r, regs[r].value) : r \in Registers }
ReturnPointer         == Pointer("return", 0, rv.value)

(* All the pointers there are, those of definitions to a value that may be *)
(* gone included.                                                          *)
Pointers ==
  EntryPointers(DOMAIN stack) \cup ArgumentPointers(DOMAIN stack)
    \cup InstantiationPointers \cup RegisterPointers \cup ReturnPointer

(* A block that nobody but the pointers in old, which are freed with it,   *)
(* knows.                                                                  *)
New(for, of, old) ==
  LET known == (DOMAIN heap \ Blocks(old)) \cup Blocks(Pointers \ old)
      free  == {n \in 1 .. 4 : <<for, of, n>> \notin known}
  IN  <<for, of, CHOOSE n \in free : \A m \in free : n <= m>>

Only(b, size) == [c \in {b} |-> size]

-----------------------------------------------------------------------------
Nothing == [block |-> Null, value |-> Null, len |-> 0]

(* The entries of the machine after nap_vm_inject: metadata and markers.   *)
Tables ==
  { VariableEntry(v) : v \in Variables } \cup { Marker(m) : m \in Marks }

Init ==
  /\ heap = [b \in Tables \cup { Literal(n) : n \in Literals } |->
               IF b \in Tables THEN 1 ELSE b[2]]
  /\ stack = <<>>
  /\ inst = [v \in Variables |-> Nothing]
  /\ regs = [r \in Registers |-> Text(Null, 0)]
  /\ rv = Text(Null, 0)
  /\ grown = {}
  /\ scopes = <<>>
  /\ status = "running"

Running == status = "running"
Room    == Len(stack) < MaxStack

(* The program is in a statement: in the global code, a block or a body.   *)
InStatement == scopes # <<>> => Last(scopes) \in {"block", "body"}
InCall      == scopes # <<>> /\ Last(scopes) = "call"

Entry(kind, block, value, len, of) ==
  [kind |-> kind, block |-> block, value |-> value, len |-> len, of |-> of]

(* marksn.                                                                 *)
Mark(kind) ==
  LET m == Len(scopes) + 1 IN
    /\ m \in Marks /\ Room
    /\ stack' = Append(stack, Entry("marker", Marker(m), Null, 0, m))
    /\ scopes' = Append(scopes, kind)

Defined(v) == \E i \in DOMAIN stack : stack[i].kind = "def" /\ stack[i].of = v

(* The place on the stack of the marker of scope n.                        *)
Place(n) == CHOOSE i \in DOMAIN stack : stack[i].block = Marker(n)

(* The arguments of the call that is scope n.                              *)
Arguments(n) ==
  {i \in DOMAIN stack : i > Place(n) /\ (n < Len(scopes) => i < Place(n + 1))}

ArrayArguments(n) == {i \in Arguments(n) : stack[i].kind = "array"}

(* The calls whose arguments the code can peek at: that of the innermost   *)
(* function, or one whose function has just returned.                      *)
PeekedCalls ==
  {n \in DOMAIN scopes :
     \/ n = Len(scopes) /\ scopes[n] = "called"
     \/ /\ n < Len(scopes) /\ scopes[n + 1] = "body"
        /\ \A k \in n + 2 .. Len(scopes) : scopes[k] # "body"}

(* What a string can be taken from.                                        *)
Sources ==
  { Text(Literal(n), n) : n \in Literals }
    \cup { regs[r] : r \in Registers }
    \cup { Text(inst[v].value, inst[v].len) : v \in {w \in Strings : Defined(w)} }
    \cup { Text(stack[i].value, stack[i].len) :
             i \in {j \in UNION {Arguments(n) : n \in PeekedCalls} :
                      stack[j].kind = "value"} }

-----------------------------------------------------------------------------
(* Definitions.                                                            *)

(* push string v, push int a: the entry and the instantiation share the    *)
(* block of the value.  Without recursion v is not defined yet.            *)
Define(v) ==
  /\ Running /\ InStatement /\ Room /\ ~Defined(v)
  /\ LET value == New("value", v, {})
         i     == New("instantiation", v, {})
         e     == New("entry", v, {})
     IN  /\ Memory({}, {}, [b \in {value, i, e} |->
                              IF b = value /\ v \notin Arrays THEN 0 ELSE 1])
         /\ inst' = [inst EXCEPT ![v] = [block |-> i, value |-> value, len |-> 0]]
         /\ stack' = Append(stack, Entry("def", e, value, 0, v))
  /\ UNCHANGED <<regs, rv, grown, scopes>>

(* The instantiation of v gets another value.                              *)
SetValue(v, b, len) ==
  inst' = [inst EXCEPT ![v] = [block |-> inst[v].block, value |-> b, len |-> len]]

(* @#grow of a new array to n cells: realloc leaves the block where it is  *)
(* or moves it.                                                            *)
Grow(a, n) ==
  /\ Running /\ InStatement /\ Defined(a) /\ inst[a].len = 0
  /\ \E b \in {inst[a].value, New("value", a, Pointer("value", a, inst[a].value))} :
       /\ Memory({}, Pointer("value", a, inst[a].value), Only(b, n))
       /\ SetValue(a, b, n)
  /\ grown' = grown \cup {a}
  /\ UNCHANGED <<stack, regs, rv, scopes>>

-----------------------------------------------------------------------------
(* Strings.                                                                *)

(* Mutant of SetRegister: the register takes the block of the source.      *)
SetRegisterMutant(r, text, len) ==
  /\ Memory({text, regs[r]}, Pointer("register", r, regs[r].value), <<>>)
  /\ regs' = [regs EXCEPT ![r] = text]

(* nap_set_regs with the first characters of the text: a copy of its own;  *)
(* the old one is wiped before it is freed.                                *)
SetRegister(r, text, len) ==
  LET b == New("register", r, Pointer("register", r, regs[r].value)) IN
    /\ Memory({text, regs[r]}, Pointer("register", r, regs[r].value), Only(b, len))
    /\ regs' = [regs EXCEPT ![r] = Text(b, len)]

Load(r, text) ==
  /\ Running /\ SetRegister(r, text, text.len)
  /\ UNCHANGED <<stack, inst, rv, grown, scopes>>

(* s[i] and s[i, j]: the end of the text read is that of the last          *)
(* character.  An index out of range fails.                                *)
LoadPart(r, v, i, j) ==
  /\ Running /\ Defined(v) /\ i <= j /\ j < inst[v].len
  /\ SetRegister(r, Text(inst[v].value, j + 1), j - i + 1)
  /\ UNCHANGED <<stack, inst, rv, grown, scopes>>

(* Mutant of Add: memory for the operand alone.                            *)
AddMutant(r, text) ==
  /\ Running
  /\ LET b   == New("register", r, Pointer("register", r, regs[r].value))
         len == regs[r].len + text.len
     IN  /\ len <= MaxLength
         /\ Memory({regs[r], text}, Pointer("register", r, regs[r].value), Only(b, text.len))
         /\ regs' = [regs EXCEPT ![r] = Text(b, len)]
  /\ UNCHANGED <<stack, inst, rv, grown, scopes>>

(* add reg string r, text (do_string_operation).                           *)
Add(r, text) ==
  /\ Running
  /\ LET b   == New("register", r, Pointer("register", r, regs[r].value))
         len == regs[r].len + text.len
     IN  /\ len <= MaxLength
         /\ Memory({regs[r], text}, Pointer("register", r, regs[r].value), Only(b, len))
         /\ regs' = [regs EXCEPT ![r] = Text(b, len)]
  /\ UNCHANGED <<stack, inst, rv, grown, scopes>>

(* mov v, reg string r.                                                    *)
Store(v, r) ==
  /\ Running /\ Defined(v)
  /\ LET b == New("value", v, Pointer("value", v, inst[v].value)) IN
       /\ Memory({regs[r]}, Pointer("value", v, inst[v].value), Only(b, regs[r].len))
       /\ SetValue(v, b, regs[r].len)
  /\ UNCHANGED <<stack, regs, rv, grown, scopes>>

(* mov v[i], reg string r, where the string fits.                          *)
WriteAt(v, r, i) ==
  /\ Running /\ Defined(v) /\ i < inst[v].len /\ i + regs[r].len <= inst[v].len
  /\ Memory({Text(inst[v].value, i + regs[r].len), regs[r]}, {}, <<>>)
  /\ UNCHANGED <<stack, inst, regs, rv, grown, scopes>>

(* mov v[i, j], reg string r (move_string_into_substring).  The new length *)
(* is two more than what is copied; the rest is zero.                      *)
Replace(v, r, i, j) ==
  /\ Running /\ Defined(v) /\ i <= j /\ i < inst[v].len
  /\ LET b   == New("value", v, Pointer("value", v, inst[v].value))
         end == IF j >= inst[v].len THEN inst[v].len - 1 ELSE j
         len == inst[v].len - (end - i - 1) + regs[r].len
     IN  /\ len <= MaxLength
         /\ Memory({Text(inst[v].value, inst[v].len), regs[r]}, Pointer("value", v, inst[v].value), Only(b, len))
         /\ SetValue(v, b, len)
  /\ UNCHANGED <<stack, regs, rv, grown, scopes>>

(* return reg string r.                                                    *)
ReturnString(r) ==
  /\ Running /\ InStatement /\ \E n \in DOMAIN scopes : scopes[n] = "body"
  /\ LET b == New("return", 0, Pointer("return", 0, rv.value)) IN
       /\ Memory({regs[r]}, Pointer("return", 0, rv.value), Only(b, regs[r].len))
       /\ rv' = Text(b, regs[r].len)
  /\ UNCHANGED <<stack, inst, regs, grown, scopes>>

-----------------------------------------------------------------------------
(* Scopes, calls and arguments.                                            *)

OpenBlock ==
  /\ Running /\ InStatement
  /\ Mark("block")
  /\ UNCHANGED <<heap, inst, regs, rv, grown, status>>

OpenCall ==
  /\ Running /\ (InCall \/ InStatement)
  /\ Mark("call")
  /\ UNCHANGED <<heap, inst, regs, rv, grown, status>>

(* push reg string r.                                                      *)
PushString(r) ==
  /\ Running /\ InCall /\ Room
  /\ LET e == New("argument entry", Len(stack), {})
         b == New("argument", Len(stack), {})
     IN  /\ Memory({regs[r]}, {}, [c \in {e, b} |-> IF c = e THEN 1 ELSE regs[r].len])
         /\ stack' = Append(stack, Entry("value", e, b, regs[r].len, 0))
  /\ UNCHANGED <<inst, regs, rv, grown, scopes>>

(* push a: the entry holds the metadata of the array itself.               *)
PushArray(a) ==
  /\ Running /\ InCall /\ Room /\ Defined(a) /\ a \in grown
  /\ ArrayArguments(Len(scopes)) = {}
  /\ LET e == New("argument entry", Len(stack), {}) IN
       /\ Memory({}, {}, Only(e, 1))
       /\ stack' = Append(stack, Entry("array", e, VariableEntry(a), 0, a))
  /\ UNCHANGED <<inst, regs, rv, grown, scopes>>

(* The function is entered; it has no array parameter.                     *)
EnterPlain ==
  /\ Running /\ InCall
  /\ ArrayArguments(Len(scopes)) = {}
  /\ Mark("body")
  /\ UNCHANGED <<heap, inst, regs, rv, grown, status>>

ParameterInUse ==
  \E n \in DOMAIN scopes :
    /\ scopes[n] = "body" /\ ArrayArguments(n - 1) # {}

(* The function has an array parameter: peek gives it an instantiation     *)
(* with a copy of the cells.  Nothing frees it when the function returns.  *)
EnterWithArray ==
  /\ Running /\ InCall /\ ~ParameterInUse
  /\ \E i \in ArrayArguments(Len(scopes)) :
       LET a     == inst[stack[i].of]
           value == New("value", Parameter, InstantiationOf(Parameter))
           new   == New("instantiation", Parameter, InstantiationOf(Parameter))
       IN  /\ Memory({Text(a.value, a.len)}, InstantiationOf(Parameter),
                     [b \in {value, new} |-> IF b = new THEN 1 ELSE a.len])
           /\ inst' = [inst EXCEPT ![Parameter] = [block |-> new, value |-> value, len |-> a.len]]
  /\ Mark("body")
  /\ UNCHANGED <<regs, rv, grown>>

(* serve: the array that was passed takes a copy of the parameter's cells. *)
Serve ==
  /\ Running /\ scopes # <<>> /\ Last(scopes) = "called"
  /\ \E i \in ArrayArguments(Len(scopes)) :
       LET a == stack[i].of
           p == inst[Parameter]
           b == New("value", a, Pointer("value", a, inst[a].value))
       IN  /\ Memory({Text(p.value, p.len), Text(inst[a].block, 1)}, Pointer("value", a, inst[a].value), Only(b, p.len))
           /\ SetValue(a, b, p.len)
  /\ UNCHANGED <<stack, regs, rv, grown, scopes>>

(* Mutant of Freed: the value of a definition is freed through both        *)
(* pointers.                                                               *)
FreedTwiceMutant(i) ==
  LET e == stack[i] IN
    CASE e.kind = "def"    -> InstantiationOf(e.of) \cup Pointer("entry", i, e.block)
                                \cup Pointer("argument", i, e.value)
      [] e.kind = "value"  -> Pointer("argument", i, e.value) \cup Pointer("entry", i, e.block)
      [] e.kind = "array"  -> Pointer("entry", i, e.block)
      [] e.kind = "marker" -> {}

(* What clrsn frees for an entry: a definition goes with its               *)
(* instantiation, the value of an array argument stays, and so do markers. *)
Freed(i) ==
  LET e == stack[i] IN
    CASE e.kind = "def"    -> InstantiationOf(e.of) \cup Pointer("entry", i, e.block)
      [] e.kind = "value"  -> Pointer("argument", i, e.value) \cup Pointer("entry", i, e.block)
      [] e.kind = "array"  -> Pointer("entry", i, e.block)
      [] e.kind = "marker" -> {}

(* The scopes whose end the code can reach: the innermost, and with break  *)
(* a block around it.                                                      *)
Closable(n) ==
  \/ n = Len(scopes) /\ scopes[n] # "call"
  \/ \A k \in n .. Len(scopes) : scopes[k] = "block"

(* clrsn with the marker of scope n.  A definition without instantiation   *)
(* would be a NULL pointer.                                                *)
Close(n) ==
  /\ Running /\ Closable(n)
  /\ LET gone == Place(n) + 1 .. Len(stack)
         defs == {stack[i].of : i \in {k \in gone : stack[k].kind = "def"}}
     IN  /\ Memory({Text(inst[v].block, 1) : v \in defs},
                   UNION {Freed(i) : i \in gone}, <<>>)
         /\ inst' = [v \in Variables |-> IF v \in defs THEN Nothing ELSE inst[v]]
  /\ stack' = SubSeq(stack, 1, Place(n) - 1)
  /\ scopes' = IF scopes[n] = "body"
               THEN [SubSeq(scopes, 1, n - 1) EXCEPT ![n - 1] = "called"]
               ELSE SubSeq(scopes, 1, n - 1)
  /\ UNCHANGED <<regs, rv, grown>>

-----------------------------------------------------------------------------
(* The end of the machine.                                                 *)

(* The pointers of the tables of the machine.                              *)
FreedTables ==
  UNION { Pointer("table", b, b) : b \in Tables \cup {Literal(n) : n \in Literals} }

(* Mutant of FreedAtEnd: the return value is forgotten.                    *)
FreedAtEndMutant ==
  FreedTables \cup InstantiationPointers \cup EntryPointers(DOMAIN stack)
    \cup ArgumentPointers({i \in DOMAIN stack : stack[i].kind # "def"})
    \cup RegisterPointers

(* What nap_vm_cleanup frees: markers, metadata with the instantiations,   *)
(* the stack, where every entry that is no definition goes with its value, *)
(* strings, registers and the return value.                                *)
FreedAtEnd ==
  FreedTables \cup InstantiationPointers \cup EntryPointers(DOMAIN stack)
    \cup ArgumentPointers({i \in DOMAIN stack : stack[i].kind # "def"})
    \cup RegisterPointers \cup ReturnPointer

(* The program ends, exits or fails, at any instruction, and the machine   *)
(* is cleaned up.                                                          *)
Cleanup ==
  /\ Running
  /\ heap' = [b \in DOMAIN heap \ Blocks(FreedAtEnd) |-> heap[b]]
  /\ status' = IF Freeable(FreedAtEnd) THEN "released" ELSE "crashed"
  /\ stack' = <<>> /\ grown' = {} /\ rv' = Text(Null, 0)
  /\ inst' = [v \in Variables |-> Nothing]
  /\ regs' = [r \in Registers |-> Text(Null, 0)]
  /\ UNCHANGED scopes

Indices == 0 .. MaxLength - 1

Next ==
  \/ \E v \in Strings \cup Arrays : Define(v)
  \/ \E a \in Arrays, n \in Sizes : Grow(a, n)
  \/ \E r \in Registers, text \in Sources : Load(r, text)
  \/ \E r \in Registers, v \in Strings, i, j \in Indices : LoadPart(r, v, i, j)
  \/ \E r \in Registers, text \in Sources : Add(r, text)
  \/ \E r \in Registers, v \in Strings : Store(v, r)
  \/ \E r \in Registers, v \in Strings, i \in Indices : WriteAt(v, r, i)
  \/ \E r \in Registers, v \in Strings, i \in Indices, j \in 0 .. MaxLength + 1 : Replace(v, r, i, j)
  \/ \E r \in Registers : ReturnString(r)
  \/ OpenBlock
  \/ OpenCall
  \/ \E r \in Registers : PushString(r)
  \/ \E a \in Arrays : PushArray(a)
  \/ EnterPlain
  \/ EnterWithArray
  \/ Serve
  \/ \E n \in DOMAIN scopes : Close(n)
  \/ Cleanup

Spec == Init /\ [][Next]_vars

-----------------------------------------------------------------------------
(* Properties.                                                             *)

(* The blocks with who frees them: the tables, the entries of the stack,   *)
(* the values of arguments, instantiations and their values, registers and *)
(* the return value.  The value of a definition belongs to the             *)
(* instantiation, that of an array argument to the tables.                 *)
Owned ==
  FreedTables \cup InstantiationPointers
    \cup EntryPointers({i \in DOMAIN stack : stack[i].kind # "marker"})
    \cup ArgumentPointers({i \in DOMAIN stack : stack[i].kind = "value"})
    \cup RegisterPointers \cup ReturnPointer

(* No instruction reads, wipes or frees memory that is not there           *)
(* (NAP_MEM_FREE, nbci_impl.h:45), in any order of definitions, calls,     *)
(* breaks and string operations.                                           *)
NoFault == status # "fault"

(* Every block has one owner: no copy is shared (nbci_impl.c:1101), and     *)
(* nothing is lost, through all that replaces, returns and frees values    *)
(* (clrs.c:43-51, peek.c:42).                                              *)
OneOwner == Running => Distinct(Owned) /\ DOMAIN heap = Blocks(Owned)

(* A length never says more than its block holds (mov.c:55, 1670).         *)
LengthsFit ==
  Running =>
    /\ \A r \in Registers : Readable(regs[r])
    /\ \A v \in Variables : Readable(Text(inst[v].value, inst[v].len))
    /\ \A i \in DOMAIN stack :
         stack[i].kind = "value" => Readable(Text(stack[i].value, stack[i].len))
    /\ Readable(rv)

(* A machine that has been cleaned up holds no memory.  The cleanup frees   *)
(* something twice only when the program stopped inside of a scope: a      *)
(* marker on the stack is also one of the list of the marks, and an array  *)
(* that is an argument one of the variables (nbci_impl.c:116 and 150).     *)
CleanupIsExact ==
  /\ status = "released" => heap = <<>>
  /\ status = "crashed" => scopes # <<>>
=============================================================================
