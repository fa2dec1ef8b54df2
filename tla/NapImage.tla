-------------------------------- MODULE NapImage --------------------------------
(***************************************************************************)
(* From the names of a script to the tables of a machine: the assembler     *)
(* (compiler/code_stream.cpp) turns names into indices while it writes the *)
(* code, the finalizer (compiler/code_finalizer.cpp) writes the tables     *)
(* behind it, and the loader (vm/nbci_impl.c 271-527 and the vm/...table.c *)
(* files) reads them back, entry by entry.                                 *)
(*                                                                         *)
(* The file is a sequence of fields, and positions in it count fields: a    *)
(* field of the code is an instruction with one operand.  The loader knows *)
(* only where it is; a field that is not of the size it expects is read    *)
(* as garbage.                                                             *)
(***************************************************************************)
EXTENDS Integers, Sequences, SequencesExt

CONSTANTS
  Labels,          \* the labels of if and for, unique names
  Methods,         \* sequence of [name, pars]: the functions, in their order
  ParentMethods,   \* names of functions of the parent machine
  Strings, Marks, Variables,
  Literals,        \* the numbers of the scripts
  Numbers,         \* all numbers
  Bits,            \* [{"byte", "short", "long", "huge"} -> Nat], the widths
  Earlier,         \* the values max_mark_index may have from earlier compilers
  MaxItems         \* bound: the instructions and labels of the code

MethodNames == {Methods[m].name : m \in DOMAIN Methods}

(* A name may come more than once: a declaration and its definition.       *)
ASSUME MethodsAssumption == Methods \in Seq([name : MethodNames, pars : 0 .. 255])

(* The label of a function is global.f, those of if and for are global_0,  *)
(* global_1, ...; no function has such a name.                             *)
ASSUME LabelsAssumption == Labels \cap MethodNames = {}

ASSUME EarlierAssumption == Earlier \subseteq Nat

(* 2 ^ k, for the proofs.                                                  *)
Pow2[k \in Nat] == IF k = 0 THEN 1 ELSE 2 * Pow2[k - 1]

ASSUME BitsAssumption ==
  /\ Bits \in [{"byte", "short", "long", "huge"} -> Nat \ {0}]
  /\ Bits.byte < Bits.short /\ Bits.short < Bits.long /\ Bits.long < Bits.huge
  /\ Literals \subseteq Numbers
  /\ Numbers \subseteq -(Pow2[Bits.huge - 1]) .. Pow2[Bits.huge - 1] - 1

VARIABLES
  code, jumptable, stringtable, namedmarks, variables, max_mark_index,
  at,            \* the method being compiled, 0 in the global code
  source,        \* history: the code with names for operands
  defined,       \* history: where each label has been defined
  file,          \* what has been written behind the code
  vm,            \* the tables of the machine
  cloc,          \* the position of the loader in file
  status         \* "compile", the table being loaded, "loaded" or "crashed"

compilerVars == <<code, jumptable, stringtable, namedmarks, variables, max_mark_index,
                  at, source, defined>>
vars == <<compilerVars, file, vm, cloc, status>>

-----------------------------------------------------------------------------
(* enum LabelEntryType                                                     *)
General == 0
CallLabel == 1
ParentCall == 3

LastOf(hits) == IF hits = {} THEN 0 ELSE CHOOSE i \in hits : \A j \in hits : j <= i

(* The last entry of a table with this name, 0 if there is none.           *)
Find(table, name) == LastOf({i \in 1 .. Len(table) : table[i].name = name})

(* Labels for functions of the parent begin with - and are unique.         *)
FindLabel(name) ==
  LastOf({i \in 1 .. Len(jumptable) : ~jumptable[i].parent /\ jumptable[i].name = name})

LabelEntry(name, location, type) ==
  [name |-> name, parent |-> FALSE, location |-> location, type |-> type]

(* Positions start behind the header.                                      *)
Ftell == Len(code) + 1

EmptyMachine == [metatable |-> <<>>, stringtable |-> <<>>, jumptable |-> <<>>,
                 funtable |-> <<>>, funtable_size |-> 0, left |-> 0, max_marks |-> 0]

Init ==
  /\ code = <<>> /\ jumptable = <<>> /\ stringtable = <<>>
  /\ namedmarks = <<>> /\ variables = <<>>
  /\ max_mark_index \in Earlier
  /\ at = 0
  /\ source = <<>> /\ defined = <<>>
  /\ file = <<>> /\ vm = EmptyMachine /\ cloc = 1
  /\ status = "compile"

(* get_method finds the first function of a name.                          *)
FirstMethod(name) ==
  CHOOSE m \in DOMAIN Methods :
    Methods[m].name = name /\ \A k \in 1 .. m - 1 : Methods[k].name # name

(* A name is that of a function of the script if the function has been     *)
(* declared before; the global code may go on behind every function.       *)
Declared(f) == at > 0 => FirstMethod(f) <= at

NotDeclared(f) ==
  \/ f \notin MethodNames
  \/ at > 0 /\ at < FirstMethod(f)
  \/ at = 0 /\ \A i \in 1 .. Len(source) :
                 source[i].op = "call" => FirstMethod(source[i].name) < FirstMethod(f)

Emitting == status = "compile" /\ Len(source) + Len(defined) < MaxItems + at

Emit(op, operand, name) ==
  /\ code' = Append(code, [op |-> op, operand |-> operand, size |-> "word"])
  /\ source' = Append(source, [op |-> op, name |-> name, number |-> 0])
  /\ UNCHANGED <<at, defined, file, vm, cloc, status>>

-----------------------------------------------------------------------------
(* The assembler.                                                          *)

(* :name: - the place of a label that is referred to, or a new label.      *)
DefineLabel(name) ==
  LET i == FindLabel(name) IN
  /\ jumptable' =
       IF i = 0 THEN Append(jumptable, LabelEntry(name, Ftell, General))
       ELSE [jumptable EXCEPT ![i].location = Ftell]
  /\ defined' = Append(defined, [name |-> name, location |-> Ftell])

(* Mutant of LabelIndex: the first reference is written as if the label     *)
(* were behind those that are known.                                       *)
LabelIndexMutant(name) ==
  IF FindLabel(name) = 0 THEN Len(jumptable) + 1 ELSE FindLabel(name) - 1

(* The index of a label: that of a known one, or of the next entry.        *)
LabelIndex(name) ==
  IF FindLabel(name) = 0 THEN Len(jumptable) ELSE FindLabel(name) - 1

Refer(name, type) ==
  jumptable' = IF FindLabel(name) # 0 THEN jumptable
               ELSE Append(jumptable, LabelEntry(name, 0, type))

Label(l) ==
  /\ Emitting /\ Find(defined, l) = 0
  /\ DefineLabel(l)
  /\ UNCHANGED <<code, stringtable, namedmarks, variables, max_mark_index, at, source,
                 file, vm, cloc, status>>

Jump(l) ==
  /\ Emitting
  /\ Emit("jump", LabelIndex(l), l)
  /\ Refer(l, General)
  /\ UNCHANGED <<stringtable, namedmarks, variables, max_mark_index>>

Call(f) ==
  /\ Emitting /\ Declared(f)
  /\ Emit("call", LabelIndex(f), f)
  /\ Refer(f, CallLabel)
  /\ UNCHANGED <<stringtable, namedmarks, variables, max_mark_index>>

(* Every call of a function of the parent has a label of its own: its       *)
(* name has the unique name of a context made for the call.                *)
CallOfParent(f) ==
  /\ Emitting /\ NotDeclared(f)
  /\ Emit("parent", Len(jumptable), f)
  /\ jumptable' = Append(jumptable, [name |-> f, parent |-> TRUE, location |-> 0,
                                     type |-> CallLabel])
  /\ UNCHANGED <<stringtable, namedmarks, variables, max_mark_index>>

(* Every mention of a string makes an entry.                               *)
String(s) ==
  /\ Emitting
  /\ Emit("string", Len(stringtable), s)
  /\ stringtable' = Append(stringtable, [index |-> Len(stringtable), string |-> s])
  /\ UNCHANGED <<jumptable, namedmarks, variables, max_mark_index>>

(* Mutant of Mark: the largest index is that of the last mark mentioned.   *)
MarkMutant(m) ==
  LET i == Find(namedmarks, m) IN
  /\ Emitting
  /\ Emit("mark", IF i = 0 THEN Len(namedmarks) ELSE i - 1, m)
  /\ namedmarks' = IF i = 0 THEN Append(namedmarks, [name |-> m]) ELSE namedmarks
  /\ max_mark_index' = IF i = 0 THEN Len(namedmarks) ELSE i - 1
  /\ UNCHANGED <<jumptable, stringtable, variables>>

(* marksn, clrsn                                                           *)
Mark(m) ==
  LET i == Find(namedmarks, m) IN
  /\ Emitting
  /\ Emit("mark", IF i = 0 THEN Len(namedmarks) ELSE i - 1, m)
  /\ IF i = 0
     THEN /\ namedmarks' = Append(namedmarks, [name |-> m])
          /\ max_mark_index' = Len(namedmarks)
     ELSE UNCHANGED <<namedmarks, max_mark_index>>
  /\ UNCHANGED <<jumptable, stringtable, variables>>

Variable(x) ==
  LET i == Find(variables, x) IN
  /\ Emitting
  /\ Emit("var", IF i = 0 THEN Len(variables) ELSE variables[i].meta_location, x)
  /\ variables' = IF i # 0 THEN variables
                  ELSE Append(variables, [meta_location |-> Len(variables), name |-> x])
  /\ UNCHANGED <<jumptable, stringtable, namedmarks, max_mark_index>>

(* Mutant of Size: the unsigned value has not been widened.                *)
SizeMutant(n) ==
  LET u == n % Pow2[Bits.short] IN
  IF u < Pow2[Bits.byte] THEN "byte" ELSE "short"

(* The size of an immediate, chosen by the unsigned value.                 *)
Size(n) ==
  LET u == n % Pow2[Bits.huge] IN
  IF u < Pow2[Bits.byte] THEN "byte"
  ELSE IF u < Pow2[Bits.short] THEN "short"
  ELSE IF u < Pow2[Bits.long] - 1 THEN "long"
  ELSE "huge"

Immediate(n) == [op |-> "number", operand |-> n % Pow2[Bits[Size(n)]], size |-> Size(n)]

Number(n) ==
  /\ Emitting
  /\ code' = Append(code, Immediate(n))
  /\ source' = Append(source, [op |-> "number", name |-> "none", number |-> n])
  /\ UNCHANGED <<jumptable, stringtable, namedmarks, variables, max_mark_index, at, defined,
                 file, vm, cloc, status>>

(* The label of the next function; what follows is its body.               *)
Method ==
  /\ status = "compile" /\ at < Len(Methods)
  /\ at' = at + 1
  /\ DefineLabel(Methods[at + 1].name)
  /\ UNCHANGED <<code, stringtable, namedmarks, variables, max_mark_index, source,
                 file, vm, cloc, status>>

-----------------------------------------------------------------------------
(* The finalizer.                                                          *)

Word(v)  == [size |-> "word", value |-> v, text |-> "none"]
Byte(v)  == [size |-> "byte", value |-> v, text |-> "none"]
Name(s)  == [size |-> "name", value |-> 0, text |-> s]     \* a length and the characters
Magic(s) == [size |-> "magic", value |-> 0, text |-> s]    \* a word of four characters

FileOf(entry(_), n) == FlattenSeq([i \in 1 .. n |-> entry(i)])

MetaEntry(i) == <<Word(variables[i].meta_location), Name(variables[i].name)>>

StrEntry(i) == <<Word(stringtable[i].index), Name(stringtable[i].string)>>

JmpEntry(i) ==
  LET e == jumptable[i]
      type == IF e.parent THEN ParentCall ELSE e.type
  IN  <<Word(e.location), Byte(type)>>
        \o IF type = General THEN <<>>
           ELSE <<Name(e.name)>>

(* Every label with the name of the function makes an entry, and those of  *)
(* the calls of a function of the parent have lost what was before it.     *)
FunEntryAt(m, j) ==
  IF jumptable[j].name # Methods[m].name THEN <<>>
  ELSE <<Word(j - 1), Name(Methods[m].name), Byte(Methods[m].pars)>>
         \o [p \in 1 .. Methods[m].pars |-> Byte(1)]

FunEntry(m) == FlattenSeq([j \in 1 .. Len(jumptable) |-> FunEntryAt(m, j)])

Table(name, counts, entry(_), n) == <<Magic(name)>> \o counts \o FileOf(entry, n)

(* There are no classes.                                                   *)
Content ==
  Table("meta", <<Word(Len(variables))>>, MetaEntry, Len(variables))
    \o Table("str", <<Word(Len(stringtable))>>, StrEntry, Len(stringtable))
    \o Table("jmp", <<Word(Len(jumptable)), Word(max_mark_index)>>, JmpEntry, Len(jumptable))
    \o Table("fun", <<Word(Len(Methods))>>, FunEntry, Len(Methods))
    \o <<Magic("class"), Word(0)>>

Finalize ==
  /\ status = "compile" /\ at = Len(Methods)
  /\ \A i \in 1 .. Len(jumptable) : jumptable[i].location # 0 \/ jumptable[i].parent
  /\ file' = Content
  /\ status' = "meta"
  /\ UNCHANGED <<compilerVars, vm, cloc>>

-----------------------------------------------------------------------------
(* The loader.                                                             *)

Loading == {"meta", "metas", "str", "strs", "jmp", "jmps", "fun", "funs", "class"}

(* finalize_locations has put the place of each table into the header.     *)
Location(table) == CHOOSE i \in 1 .. Len(file) : file[i] = Magic(table)

Field(i) == file[cloc + i].value
Text(i)  == file[cloc + i].text

Enter(table, entries, first, next) ==
  /\ status = table
  /\ cloc' = Location(table) + first
  /\ status' = IF file[Location(table) + 1].value = 0 THEN next ELSE entries
  /\ UNCHANGED <<compilerVars, file>>

Done(next) ==
  /\ status' = next
  /\ UNCHANGED <<compilerVars, file, vm, cloc>>

Crash ==
  /\ status' = "crashed"
  /\ file' = <<>> /\ vm' = EmptyMachine /\ cloc' = 1
  /\ UNCHANGED compilerVars

Read(fields) ==
  /\ cloc' = cloc + fields
  /\ UNCHANGED <<compilerVars, file, status>>

EnterMeta == Enter("meta", "metas", 2, "str") /\ UNCHANGED vm

ReadVariable ==
  /\ status = "metas" /\ file[cloc] # Magic("str")
  /\ vm' = [vm EXCEPT !.metatable = Append(@, [index |-> Field(0), name |-> Text(1)])]
  /\ Read(2)

EndMeta == status = "metas" /\ file[cloc] = Magic("str") /\ Done("str")

EnterStrings == Enter("str", "strs", 2, "jmp") /\ UNCHANGED vm

ReadString ==
  /\ status = "strs" /\ file[cloc] # Magic("jmp")
  /\ vm' = [vm EXCEPT !.stringtable = Append(@, [index |-> Field(0), name |-> Text(1)])]
  /\ Read(2)

(* Mutant of EndStrings: it waits for the table of the functions.          *)
EndStringsMutant == status = "strs" /\ file[cloc] = Magic("fun") /\ Done("jmp")

EndStrings == status = "strs" /\ file[cloc] = Magic("jmp") /\ Done("jmp")

(* The jump table is counted.                                              *)
EnterJumps ==
  /\ Enter("jmp", "jmps", 3, "fun")
  /\ vm' = [vm EXCEPT !.left = file[Location("jmp") + 1].value,
                      !.max_marks = file[Location("jmp") + 2].value]

ReadJump ==
  LET named == Field(1) # General IN
  /\ status = "jmps" /\ vm.left > 0
  /\ vm' = [vm EXCEPT !.left = @ - 1,
                      !.jumptable = Append(@, [location |-> Field(0), type |-> Field(1),
                                               label_name |-> IF named THEN Text(2) ELSE "none"])]
  /\ Read(IF named THEN 3 ELSE 2)

EndJumps == status = "jmps" /\ vm.left = 0 /\ Done("fun")

(* One entry more than there are functions.                                *)
EnterFunctions ==
  /\ Enter("fun", "funs", 2, "class")
  /\ vm' = [vm EXCEPT !.funtable_size = file[Location("fun") + 1].value,
                      !.left = file[Location("fun") + 1].value + 1]

(* Mutant of ReadFunction: the number of parameters is not skipped.        *)
ReadFunctionMutant ==
  /\ status = "funs" /\ vm.left > 0 /\ file[cloc].size = "word"
  /\ vm' = [vm EXCEPT !.left = @ - 1,
                      !.funtable = Append(@, [jmptable_index |-> Field(0), name |-> Text(1),
                                              parameter_count |-> Field(2)])]
  /\ Read(2)

(* The parameters are copied and not skipped.                              *)
ReadFunction ==
  /\ status = "funs" /\ vm.left > 0 /\ file[cloc].size = "word"
  /\ vm' = [vm EXCEPT !.left = @ - 1,
                      !.funtable = Append(@, [jmptable_index |-> Field(0), name |-> Text(1),
                                              parameter_count |-> Field(2)])]
  /\ Read(3)

(* From parameters or the table of the classes an entry of garbage is read, *)
(* and the length of its name may take the reader out of the memory.  The   *)
(* end of the content ends the loop too.                                   *)
ReadGarbage ==
  /\ status = "funs" /\ vm.left > 0 /\ file[cloc].size # "word"
  /\ \/ /\ vm' = [vm EXCEPT !.left = @ - 1,
                            !.funtable = Append(@, [jmptable_index |-> 0, name |-> "garbage",
                                                    parameter_count |-> 0])]
        /\ UNCHANGED <<compilerVars, file, cloc, status>>
     \/ /\ vm' = [vm EXCEPT !.left = 0]
        /\ UNCHANGED <<compilerVars, file, cloc, status>>
     \/ Crash

EndFunctions == status = "funs" /\ vm.left = 0 /\ Done("class")

(* No classes; the code, the stacks and the marks are set up.              *)
Complete ==
  /\ status = "class"
  /\ Done("loaded")

(* An allocation fails; the cleanup walks the list of the marks, which the *)
(* last lines of nap_vm_inject make, and the process ends.                 *)
OutOfMemory ==
  /\ status \in Loading
  /\ Crash

Compile ==
  \/ \E l \in Labels : Label(l) \/ Jump(l)
  \/ \E f \in MethodNames : Call(f)
  \/ \E f \in ParentMethods : CallOfParent(f)
  \/ \E s \in Strings : String(s)
  \/ \E m \in Marks : Mark(m)
  \/ \E x \in Variables : Variable(x)
  \/ \E n \in Literals : Number(n)
  \/ Method
  \/ Finalize

Load ==
  \/ EnterMeta \/ ReadVariable \/ EndMeta
  \/ EnterStrings \/ ReadString \/ EndStrings
  \/ EnterJumps \/ ReadJump \/ EndJumps
  \/ EnterFunctions \/ ReadFunction \/ ReadGarbage \/ EndFunctions
  \/ Complete

Next == Compile \/ Load \/ OutOfMemory

(* nap_vm_inject is a sequence of loops, each of which takes its next step. *)
Spec == Init /\ [][Next]_vars /\ WF_vars(Load)

-----------------------------------------------------------------------------
(* Properties.                                                             *)

Loaded == status = "loaded"

InTable(i, table) == i + 1 \in 1 .. Len(table)

Entry(i, table) == table[i + 1]

(* What the machine makes of the operand of an instruction.                *)
LabelReached(i, l) ==
  /\ InTable(i, vm.jumptable)
  /\ Entry(i, vm.jumptable).type # ParentCall
  /\ Entry(i, vm.jumptable).location = defined[Find(defined, l)].location

Resolves(i, table, name) ==
  InTable(i, table) /\ Entry(i, table).index = i /\ Entry(i, table).name = name

(* Every operand of the loaded program means what the script said.  Jumps   *)
(* and calls go to where their label was placed, whether that was before or *)
(* after they were written and whoever mentioned the label first; calls of *)
(* the parent go by name; variables and strings are in the tables the      *)
(* loader has built, at their index, under their name.                     *)
OperandsResolve ==
  Loaded => \A i \in 1 .. Len(code) :
    /\ code[i].op \in {"jump", "call"} => LabelReached(code[i].operand, source[i].name)
    /\ code[i].op = "parent" =>
         /\ InTable(code[i].operand, vm.jumptable)
         /\ Entry(code[i].operand, vm.jumptable).type = ParentCall
         /\ Entry(code[i].operand, vm.jumptable).label_name = source[i].name
    /\ code[i].op = "var" => Resolves(code[i].operand, vm.metatable, source[i].name)
    /\ code[i].op = "string" => Resolves(code[i].operand, vm.stringtable, source[i].name)

(* The list of the marks has an element for every mark of the code,        *)
(* whatever other compilers have left in max_mark_index, which is static,  *)
(* before this one began (Earlier), and two marks share one only if they   *)
(* have the same name.                                                     *)
MarksInList ==
  Loaded => \A i, j \in 1 .. Len(code) :
    code[i].op = "mark" =>
      /\ code[i].operand <= vm.max_marks
      /\ code[j].op = "mark" =>
           ((code[i].operand = code[j].operand) = (source[i].name = source[j].name))

(* nap_read_immediate_int                                                  *)
ReadImmediate(c) ==
  LET w == Bits[c.size] IN
  IF c.operand < Pow2[w - 1] THEN c.operand ELSE c.operand - Pow2[w]

(* The numbers between the limit of a size for signed numbers and that for *)
(* unsigned ones: they are written with the size, and read as negative.    *)
ChangesSign(n) ==
  \/ n \in Pow2[Bits.byte - 1] .. Pow2[Bits.byte] - 1
  \/ n \in Pow2[Bits.short - 1] .. Pow2[Bits.short] - 1
  \/ n \in Pow2[Bits.long - 1] .. Pow2[Bits.long] - 2

Survives(n) == ReadImmediate(Immediate(n)) = n

UnlessChanged == \A n \in Numbers : ChangesSign(n) \/ Survives(n)

(* The machine reads the number that was written, for every other number,  *)
(* at both ends of each size and for negative ones.                        *)
NumbersSurvive ==
  /\ UnlessChanged
  /\ \A i \in 1 .. Len(code) : code[i].op = "number" =>
       ReadImmediate(code[i]) = ReadImmediate(Immediate(source[i].number))

(* nap_vm_get_method                                                       *)
Found(name) ==
  LET hits == {i \in 1 .. Len(vm.funtable) : i <= vm.funtable_size /\ vm.funtable[i].name = name}
  IN  IF hits = {} THEN 0 ELSE CHOOSE i \in hits : \A j \in hits : i <= j

(* The calls of functions of the parent that have this name.               *)
ParentCalls(name) == {j \in 1 .. Len(jumptable) : jumptable[j].parent /\ jumptable[j].name = name}

(* The entries before those of the function m are as many as the functions *)
(* before it, and the loader skips them.                                   *)
InPlace(m) ==
  \A k \in 1 .. m - 1 : Methods[k].pars = 0 /\ ParentCalls(Methods[k].name) = {}

(* No call of a function of the parent has this name before the script has *)
(* a label for its own.                                                    *)
OwnFirst(name) == \A j \in ParentCalls(name) : FindLabel(name) < j

(* A function, declared more than once or not, is found by its name, with  *)
(* the place of its code, if it is in its place in the table and the       *)
(* script has not called a function of the parent of this name before its  *)
(* own.  Such a call has an entry with the name too (code_finalizer.cpp     *)
(* 227-255): it is the first to be found, or it takes the place of another *)
(* function.                                                               *)
FunctionsFound ==
  Loaded => \A m \in DOMAIN Methods :
    LET name == Methods[m].name IN
    m = FirstMethod(name) /\ InPlace(m) /\ OwnFirst(name) =>
      /\ Found(name) # 0
      /\ LabelReached(vm.funtable[Found(name)].jmptable_index, name)
      /\ vm.funtable[Found(name)].parameter_count = Methods[m].pars

(* The loops of the loader look for the end of their tables in different   *)
(* ways; whatever has been written, they find it.                          *)
LoadEnds == status \in Loading ~> status \in {"loaded", "crashed"}
=============================================================================
