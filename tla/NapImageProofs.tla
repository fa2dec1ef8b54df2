---------------------------- MODULE NapImageProofs ----------------------------
(***************************************************************************)
(* Proofs about NapImage, for every script, every list of functions and    *)
(* every choice of the widths.                                             *)
(*                                                                         *)
(* The compiler: an operand stands for the entry of a table with the name  *)
(* that the script has (StandsFor), entries are only added and keep their  *)
(* names (Grow), and the entry of a label has the place of its last        *)
(* definition (LabelsInv).                                                 *)
(*                                                                         *)
(* The file: each entry begins where those before it end (Layout), each    *)
(* table where the one before it ends (ContentLayout), and a magic is only *)
(* at the beginning of a table, so each is found (Locations).              *)
(*                                                                         *)
(* The loader: what it has read of a table is what the compiler had at the *)
(* same places, and it stands where the next entry begins (LoaderInv), but *)
(* in the table of the functions: there it is behind the first function    *)
(* that is not in its place when it has read as many entries (AtFunction,  *)
(* Enough), and stays before the table of the classes.                     *)
(***************************************************************************)
EXTENDS NapImage, SequenceTheorems, WellFoundedInduction, TLAPS

(* The values of the variables.                                            *)
Ops == {"jump", "call", "parent", "string", "mark", "var", "number"}

(* Names, and what else is in a field.                                     *)
Texts ==
  {"none", "garbage", "meta", "str", "jmp", "fun", "class"}
    \cup MethodNames \cup Labels \cup ParentMethods \cup Strings \cup Marks \cup Variables

Instructions ==
  [op : Ops, operand : Nat, size : {"word", "byte", "short", "long", "huge"}]

Mentions == [op : Ops, name : Texts, number : Int]

LabelEntries ==
  [name : Texts, parent : BOOLEAN, location : Nat, type : {General, CallLabel}]

StringEntries == [index : Nat, string : Texts]

VariableEntries == [meta_location : Nat, name : Texts]

MarkEntries == [name : Texts]

Places == [name : Texts, location : Nat \ {0}]

Fields == [size : {"word", "byte", "name", "magic"}, value : Int, text : Texts]

Named == [index : Int, name : Texts]

LoadedLabels == [location : Int, type : Int, label_name : Texts]

LoadedFunctions == [jmptable_index : Int, name : Texts, parameter_count : Int]

Machines ==
  [metatable : Seq(Named), stringtable : Seq(Named),
   jumptable : Seq(LoadedLabels),
   funtable : Seq(LoadedFunctions),
   funtable_size : Int, left : Int, max_marks : Int]

(* The status while nap_vm_inject runs and when it is done.                *)
InVm == Loading \cup {"loaded"}

CompilerTypeOK ==
  /\ code \in Seq(Instructions)
  /\ source \in Seq(Mentions)
  /\ jumptable \in Seq(LabelEntries)
  /\ stringtable \in Seq(StringEntries)
  /\ namedmarks \in Seq(MarkEntries)
  /\ variables \in Seq(VariableEntries)
  /\ max_mark_index \in Nat
  /\ at \in 0 .. Len(Methods)
  /\ defined \in Seq(Places)

TypeOK ==
  /\ CompilerTypeOK
  /\ file \in Seq(Fields) /\ vm \in Machines /\ cloc \in Nat
  /\ status \in InVm \cup {"compile", "crashed"}

(* The compiler.  Of the labels that are not of the parent, each has one   *)
(* entry, which has the place where it was last defined, or none; a label   *)
(* that has been defined has an entry.                                     *)
PlaceOf(name) == IF Find(defined, name) = 0 THEN 0 ELSE defined[Find(defined, name)].location

LabelsInv ==
  /\ \A i, j \in 1 .. Len(jumptable) :
       ~jumptable[i].parent /\ ~jumptable[j].parent /\ jumptable[i].name = jumptable[j].name
         => i = j
  /\ \A i \in 1 .. Len(jumptable) :
       ~jumptable[i].parent => jumptable[i].location = PlaceOf(jumptable[i].name)
  /\ \A i \in 1 .. Len(defined) :
       \E j \in 1 .. Len(jumptable) :
         ~jumptable[j].parent /\ jumptable[j].name = defined[i].name

MethodsInv == \A m \in 1 .. at : FindLabel(Methods[m].name) # 0

IndicesInv ==
  /\ \A i \in 1 .. Len(variables) : variables[i].meta_location = i - 1
  /\ \A i \in 1 .. Len(stringtable) : stringtable[i].index = i - 1
  /\ \A i, j \in 1 .. Len(namedmarks) : namedmarks[i].name = namedmarks[j].name => i = j
  /\ Len(namedmarks) > 0 => max_mark_index = Len(namedmarks) - 1

(* What an operand stands for while the tables grow.                       *)
StandsFor(c, s) ==
  /\ c.op = s.op
  /\ c.op \in {"jump", "call"} =>
       /\ InTable(c.operand, jumptable)
       /\ ~Entry(c.operand, jumptable).parent /\ Entry(c.operand, jumptable).name = s.name
  /\ c.op = "parent" =>
       /\ InTable(c.operand, jumptable)
       /\ Entry(c.operand, jumptable).parent /\ Entry(c.operand, jumptable).name = s.name
  /\ c.op = "string" =>
       /\ InTable(c.operand, stringtable) /\ Entry(c.operand, stringtable).string = s.name
  /\ c.op = "mark" =>
       /\ InTable(c.operand, namedmarks) /\ Entry(c.operand, namedmarks).name = s.name
  /\ c.op = "var" =>
       /\ InTable(c.operand, variables) /\ Entry(c.operand, variables).name = s.name
  /\ c.op = "number" => c = Immediate(s.number)

OperandsInv ==
  /\ Len(source) = Len(code)
  /\ \A i \in 1 .. Len(code) : StandsFor(code[i], source[i])

CompilerInv == LabelsInv /\ MethodsInv /\ IndicesInv /\ OperandsInv

(* The file: where its tables are, counted in fields.                      *)
StrAt == 3 + 2 * Len(variables)
JmpAt == StrAt + 2 + 2 * Len(stringtable)
FunAt == JmpAt + 3 + Len(FileOf(JmpEntry, Len(jumptable)))

FileInv ==
  status \in InVm =>
    /\ file = Content
    /\ at = Len(Methods)
    /\ \A i \in 1 .. Len(jumptable) : jumptable[i].location # 0 \/ jumptable[i].parent

(* The loader.  A table is what has been read of it.                       *)
LoadedVariable(i) == [index |-> variables[i].meta_location, name |-> variables[i].name]

LoadedString(i) == [index |-> stringtable[i].index, name |-> stringtable[i].string]

LabelType(e) == IF e.parent THEN ParentCall ELSE e.type

LoadedLabel(i) ==
  [location |-> jumptable[i].location, type |-> LabelType(jumptable[i]),
   label_name |-> IF LabelType(jumptable[i]) = General THEN "none" ELSE jumptable[i].name]

LoadedFunction(m) ==
  [jmptable_index |-> FindLabel(Methods[m].name) - 1, name |-> Methods[m].name,
   parameter_count |-> Methods[m].pars]

Copied(table, loaded(_), n) ==
  Len(table) <= n /\ \A i \in 1 .. Len(table) : table[i] = loaded(i)

VariablesRead ==
  /\ Copied(vm.metatable, LoadedVariable, Len(variables))
  /\ status = "meta" => vm.metatable = <<>>
  /\ status = "metas" => cloc = 3 + 2 * Len(vm.metatable)
  /\ status \notin {"meta", "metas"} => Len(vm.metatable) = Len(variables)

StringsRead ==
  /\ Copied(vm.stringtable, LoadedString, Len(stringtable))
  /\ status \in {"meta", "metas", "str"} => vm.stringtable = <<>>
  /\ status = "strs" => cloc = StrAt + 2 + 2 * Len(vm.stringtable)
  /\ status \notin {"meta", "metas", "str", "strs"} =>
       Len(vm.stringtable) = Len(stringtable)

JumpsRead ==
  /\ Copied(vm.jumptable, LoadedLabel, Len(jumptable))
  /\ status \in {"meta", "metas", "str", "strs", "jmp"} => vm.jumptable = <<>>
  /\ status = "jmps" =>
       /\ cloc = JmpAt + 3 + Len(FileOf(JmpEntry, Len(vm.jumptable)))
       /\ vm.left = Len(jumptable) - Len(vm.jumptable)
  /\ status \in {"jmps", "fun", "funs", "class", "loaded"} => vm.max_marks = max_mark_index
  /\ status \in {"fun", "funs", "class", "loaded"} => Len(vm.jumptable) = Len(jumptable)

(* What is read of the function m is what was written.                     *)
Exact(m) == InPlace(m) /\ OwnFirst(Methods[m].name)

(* k entries are those of all functions that are in their places, or more. *)
Enough(k) == k < Len(Methods) => ~InPlace(k + 1)

(* The loader stands at the beginning of the next function.                *)
AtFunction ==
  LET k == Len(vm.funtable) IN
  /\ k < Len(Methods) /\ InPlace(k + 1)
  /\ cloc = FunAt + 2 + 3 * k
  /\ vm.left = Len(Methods) + 1 - k

FunctionsRead ==
  /\ \A m \in 1 .. Len(vm.funtable) :
       m <= Len(Methods) /\ Exact(m) => vm.funtable[m] = LoadedFunction(m)
  /\ status \in InVm \ {"funs", "class", "loaded"} => vm.funtable = <<>>
  /\ status = "funs" =>
       /\ cloc \in FunAt + 2 .. Len(file) - 1
       /\ AtFunction \/ Enough(Len(vm.funtable))
  /\ status \in {"class", "loaded"} => Enough(Len(vm.funtable))
  /\ status \in {"funs", "class", "loaded"} => vm.funtable_size = Len(Methods)

LoaderInv == VariablesRead /\ StringsRead /\ JumpsRead /\ FunctionsRead

IInv ==
  /\ TypeOK
  /\ CompilerInv
  /\ FileInv
  /\ status = "compile" => file = <<>> /\ vm = EmptyMachine /\ cloc = 1
  /\ status \in InVm => LoaderInv

-----------------------------------------------------------------------------
(* Induction over the naturals, for sets.                                  *)
LEMMA Least ==
  ASSUME NEW T \in SUBSET Nat, T # {}
  PROVE  \E x \in T : \A y \in T : x <= y
<1> DEFINE R == OpToRel(<, Nat)
<1>1. IsWellFoundedOn(R, Nat)
  BY NatLessThanWellFounded
<1>2. \A x, y \in Nat : y < x => <<y, x>> \in R
  BY DEF OpToRel
<1> HIDE DEF R
<1>3. T \subseteq Nat
  OBVIOUS
<1>4. PICK x \in T : \A y \in T : ~ (<<y, x>> \in R)
  BY <1>1, <1>3, WFMin
<1>5. \A y \in T : ~ (y < x)
  BY <1>2, <1>3, <1>4
<1> QED
  BY <1>3, <1>5

(* Induction over the naturals: a set that has 0 and with every number the *)
(* next one has them all.                                                  *)
LEMMA Induction ==
  ASSUME NEW S, 0 \in S, \A n \in Nat : n \in S => n + 1 \in S
  PROVE  \A n \in Nat : n \in S
<1> SUFFICES ASSUME Nat \ S # {}
             PROVE  FALSE
  OBVIOUS
<1>1. PICK x \in Nat \ S : \A y \in Nat \ S : x <= y
  BY Least
<1>2. x # 0 /\ x - 1 \in Nat
  BY <1>1
<1>3. x - 1 \in S
  BY <1>1, <1>2
<1>4. (x - 1) + 1 \in S
  BY <1>2, <1>3
<1> QED
  BY <1>2, <1>4

-----------------------------------------------------------------------------
(* Sequences that are put one behind the other (FlattenSeq).               *)
Then(a, b) == a \o b

Flattens(f, s, n) ==
  f = [i \in 1 .. n |-> IF i = 1 THEN s[i] ELSE Then(f[i - 1], s[i])]

LEMMA FlattensExist ==
  ASSUME NEW s
  PROVE  \A n \in Nat : \E f : Flattens(f, s, n)
<1> DEFINE S == {n \in Nat : \E f : Flattens(f, s, n)}
<1>1. 0 \in S
  <2>1. Flattens([i \in 1 .. 0 |-> s[i]], s, 0)
    BY DEF Flattens
  <2> QED
    BY <2>1
<1>2. ASSUME NEW n \in Nat, n \in S
      PROVE  n + 1 \in S
  <2>1. PICK f : Flattens(f, s, n)
    BY <1>2
  <2> DEFINE g == [i \in 1 .. n + 1 |->
                     IF i = n + 1 THEN IF i = 1 THEN s[i] ELSE Then(f[n], s[i]) ELSE f[i]]
  <2>2. Flattens(g, s, n + 1)
    BY <2>1 DEF Flattens
  <2> QED
    BY <2>2
<1> HIDE DEF S
<1>3. \A n \in Nat : n \in S
  BY <1>1, <1>2, Induction
<1> QED
  BY <1>3 DEF S

LEMMA FlattenIs ==
  ASSUME NEW n \in Nat \ {0}, NEW s, DOMAIN s = 1 .. n, Len(s) = n
  PROVE  \E f : Flattens(f, s, n) /\ FlattenSeq(s) = f[n]
<1> DEFINE f == CHOOSE g : Flattens(g, s, n)
<1>1. Flattens(f, s, n)
  BY FlattensExist
<1>2. FlattenSeq(s) = f[n]
  BY DEF Flattens, FlattenSeq, Then
<1> QED
  BY <1>1, <1>2

LEMMA FlattenEmpty ==
  ASSUME NEW S, NEW s \in [1 .. 0 -> S]
  PROVE  FlattenSeq(s) = <<>>
<1>1. s = <<>> /\ Len(s) = 0
  OBVIOUS
<1> QED
  BY <1>1 DEF FlattenSeq

(* The last sequence is behind the others.                                 *)
LEMMA FlattenStep ==
  ASSUME NEW S, NEW n \in Nat, NEW s \in [1 .. n + 1 -> Seq(S)]
  PROVE  FlattenSeq(s) = FlattenSeq([i \in 1 .. n |-> s[i]]) \o s[n + 1]
<1> DEFINE t == [i \in 1 .. n |-> s[i]]
<1>1. Len(s) = n + 1 /\ DOMAIN s = 1 .. n + 1 /\ t \in [1 .. n -> Seq(S)] /\ Len(t) = n
  OBVIOUS
<1>2. PICK f : Flattens(f, s, n + 1) /\ FlattenSeq(s) = f[n + 1]
  BY <1>1, FlattenIs
<1>3. CASE n = 0
  <2>1. FlattenSeq(t) = <<>>
    BY <1>1, <1>3, FlattenEmpty
  <2>2. f[1] = s[1]
    BY <1>2, <1>3 DEF Flattens
  <2>3. s[1] \in Seq(S)
    BY <1>3
  <2>4. <<>> \o s[1] = s[1]
    BY <2>3, ConcatEmptySeq
  <2> QED
    BY <1>2, <1>3, <2>1, <2>2, <2>4
<1>4. CASE n # 0
  <2>1. PICK g : Flattens(g, t, n) /\ FlattenSeq(t) = g[n]
    BY <1>1, <1>4, FlattenIs
  <2> DEFINE P == {k \in Nat : k \in 1 .. n => f[k] = g[k]}
  <2>2. 0 \in P
    OBVIOUS
  <2>3. ASSUME NEW k \in Nat, k \in P
        PROVE  k + 1 \in P
    <3> SUFFICES ASSUME k + 1 \in 1 .. n
                 PROVE  f[k + 1] = g[k + 1]
      OBVIOUS
    <3>1. f[k + 1] = IF k + 1 = 1 THEN s[k + 1] ELSE Then(f[k], s[k + 1])
      BY <1>2 DEF Flattens
    <3>2. g[k + 1] = IF k + 1 = 1 THEN t[k + 1] ELSE Then(g[k], t[k + 1])
      BY <2>1 DEF Flattens
    <3>3. t[k + 1] = s[k + 1]
      OBVIOUS
    <3>4. k + 1 # 1 => f[k] = g[k]
      BY <2>3
    <3> QED
      BY <3>1, <3>2, <3>3, <3>4
  <2> HIDE DEF P
  <2>4. \A k \in Nat : k \in P
    BY <2>2, <2>3, Induction
  <2>5. f[n] = g[n]
    BY <1>4, <2>4 DEF P
  <2>6. f[n + 1] = Then(f[n], s[n + 1])
    BY <1>2, <1>4 DEF Flattens
  <2> QED
    BY <1>2, <2>1, <2>5, <2>6 DEF Then
<1> QED
  BY <1>3, <1>4

(* Each of the sequences is where those before it end.                     *)
Prefix(s, k) == FlattenSeq([i \in 1 .. k |-> s[i]])

Laid(s, S, n) ==
  /\ Prefix(s, n) \in Seq(S)
  /\ \A k \in 0 .. n - 1 :
       /\ Prefix(s, k) \in Seq(S)
       /\ Len(Prefix(s, k + 1)) = Len(Prefix(s, k)) + Len(s[k + 1])
       /\ Len(Prefix(s, k + 1)) <= Len(Prefix(s, n))
       /\ \A j \in 1 .. Len(s[k + 1]) :
            Prefix(s, n)[Len(Prefix(s, k)) + j] = s[k + 1][j]

LEMMA PrefixEmpty ==
  ASSUME NEW s
  PROVE  Prefix(s, 0) = <<>>
<1>1. [i \in 1 .. 0 |-> s[i]] \in [1 .. 0 -> {}]
  OBVIOUS
<1> QED
  BY <1>1, FlattenEmpty DEF Prefix

LEMMA PrefixStep ==
  ASSUME NEW S, NEW n \in Nat, NEW s \in [1 .. n -> Seq(S)], NEW k \in 0 .. n - 1
  PROVE  Prefix(s, k + 1) = Prefix(s, k) \o s[k + 1]
<1> DEFINE t == [i \in 1 .. k + 1 |-> s[i]]
<1>1. t \in [1 .. k + 1 -> Seq(S)] /\ t[k + 1] = s[k + 1]
  OBVIOUS
<1>2. [i \in 1 .. k |-> t[i]] = [i \in 1 .. k |-> s[i]]
  OBVIOUS
<1> HIDE DEF t
<1>3. k \in Nat
  OBVIOUS
<1>4. FlattenSeq(t) = FlattenSeq([i \in 1 .. k |-> t[i]]) \o t[k + 1]
  BY <1>1, <1>3, FlattenStep
<1> QED
  BY <1>1, <1>2, <1>4 DEF Prefix, t

LEMMA Layout ==
  ASSUME NEW S, NEW n \in Nat, NEW s \in [1 .. n -> Seq(S)]
  PROVE  Laid(s, S, n)
<1> DEFINE P == {m \in Nat : m <= n => Laid(s, S, m)}
<1>1. 0 \in P
  <2>1. Prefix(s, 0) \in Seq(S)
    <3>1. <<>> \in Seq(S)
      OBVIOUS
    <3> QED
      BY <3>1, PrefixEmpty, Zenon
  <2> QED
    BY <2>1 DEF Laid
<1>2. ASSUME NEW m \in Nat, m \in P
      PROVE  m + 1 \in P
  <2> SUFFICES ASSUME m + 1 <= n
               PROVE  Laid(s, S, m + 1)
    OBVIOUS
  <2> DEFINE a == Prefix(s, m)
             b == s[m + 1]
  <2>1. Laid(s, S, m)
    BY <1>2
  <2>2. Prefix(s, m + 1) = a \o b
    <3>1. m \in 0 .. n - 1
      OBVIOUS
    <3> QED
      BY <3>1, PrefixStep
  <2>3. a \in Seq(S) /\ b \in Seq(S)
    BY <2>1 DEF Laid
  <2>4. /\ a \o b \in Seq(S)
        /\ Len(a \o b) = Len(a) + Len(b)
        /\ \A j \in 1 .. Len(a) : (a \o b)[j] = a[j]
        /\ \A j \in 1 .. Len(b) : (a \o b)[Len(a) + j] = b[j]
    BY <2>3, ConcatProperties
  <2>5. Len(a) \in Nat /\ Len(b) \in Nat
    BY <2>3
  <2> DEFINE Good(k) ==
        /\ Prefix(s, k) \in Seq(S)
        /\ Len(Prefix(s, k + 1)) = Len(Prefix(s, k)) + Len(s[k + 1])
        /\ Len(Prefix(s, k + 1)) <= Len(Prefix(s, m + 1))
        /\ \A j \in 1 .. Len(s[k + 1]) :
             Prefix(s, m + 1)[Len(Prefix(s, k)) + j] = s[k + 1][j]
  <2> SUFFICES ASSUME NEW k \in 0 .. m
               PROVE  Good(k)
    <3>0. (m + 1) - 1 = m
      BY m \in Nat
    <3>1. \A k \in 0 .. (m + 1) - 1 : Good(k)
      BY <3>0, Zenon
    <3>2. Prefix(s, m + 1) \in Seq(S)
      BY <2>2, <2>4, Zenon
    <3> QED
      BY <3>1, <3>2, Zenon DEF Laid
  <2>6. CASE k = m
    BY <2>2, <2>3, <2>4, <2>5, <2>6
  <2>7. CASE k # m
    <3>1. k \in 0 .. m - 1
      BY <2>7
    <3>2. /\ Prefix(s, k) \in Seq(S)
          /\ Len(Prefix(s, k + 1)) = Len(Prefix(s, k)) + Len(s[k + 1])
          /\ Len(Prefix(s, k + 1)) <= Len(a)
          /\ \A j \in 1 .. Len(s[k + 1]) : a[Len(Prefix(s, k)) + j] = s[k + 1][j]
      BY <2>1, <3>1 DEF Laid
    <3>3. s[k + 1] \in Seq(S)
      BY <3>1
    <3> DEFINE p == Len(Prefix(s, k))
               q == Len(s[k + 1])
    <3>4. p \in Nat /\ q \in Nat
      BY <3>2, <3>3
    <3>5. Len(Prefix(s, k + 1)) <= Len(a) + Len(b)
      BY <2>5, <3>2, <3>4
    <3>6. ASSUME NEW j \in 1 .. q
          PROVE  Prefix(s, m + 1)[p + j] = s[k + 1][j]
      <4>1. p + j \in 1 .. Len(a)
        <5>1. p + q <= Len(a)
          BY <3>2
        <5> HIDE DEF a, p, q
        <5> QED
          BY <2>5, <3>4, <5>1
      <4>2. a[p + j] = s[k + 1][j]
        BY <3>2
      <4> HIDE DEF a, b, p, q
      <4> QED
        BY <2>2, <2>4, <4>1, <4>2
    <3> HIDE DEF a, b, p, q
    <3> QED
      BY <2>2, <2>4, <3>2, <3>5, <3>6 DEF p, q
  <2> QED
    BY <2>6, <2>7
<1> HIDE DEF P
<1>3. \A m \in Nat : m \in P
  BY <1>1, <1>2, Induction
<1> QED
  BY <1>3 DEF P

-----------------------------------------------------------------------------
(* The file is made of parts, one behind the other.                        *)
Part(f, n, p) ==
  /\ n + Len(p) <= Len(f)
  /\ \A j \in 1 .. Len(p) : f[n + j] = p[j]

(* Where there may be a magic.                                             *)
MagicsIn(f, P) == \A i \in 1 .. Len(f) : f[i].size = "magic" => i \in P

LEMMA PartOfPart ==
  ASSUME NEW f \in Seq(Fields), NEW p \in Seq(Fields), NEW q \in Seq(Fields),
         NEW n \in Nat, NEW m \in Nat, Part(f, n, p), Part(p, m, q)
  PROVE  Part(f, n + m, q)
<1>1. Len(f) \in Nat /\ Len(p) \in Nat /\ Len(q) \in Nat
  OBVIOUS
<1>2. n + Len(p) <= Len(f) /\ m + Len(q) <= Len(p)
  BY DEF Part
<1>3. (n + m) + Len(q) <= Len(f)
  BY <1>1, <1>2
<1>4. ASSUME NEW j \in 1 .. Len(q)
      PROVE  f[(n + m) + j] = q[j]
  <2>1. m + j \in 1 .. Len(p)
    BY <1>1, <1>2
  <2>2. f[n + (m + j)] = p[m + j] /\ p[m + j] = q[j]
    BY <2>1 DEF Part
  <2>3. n + (m + j) = (n + m) + j
    OBVIOUS
  <2> QED
    BY <2>2, <2>3
<1> QED
  BY <1>3, <1>4 DEF Part

LEMMA Concat ==
  ASSUME NEW a \in Seq(Fields), NEW b \in Seq(Fields), NEW P, NEW Q,
         MagicsIn(a, P), MagicsIn(b, Q)
  PROVE  /\ a \o b \in Seq(Fields)
         /\ Len(a \o b) = Len(a) + Len(b)
         /\ Part(a \o b, 0, a)
         /\ Part(a \o b, Len(a), b)
         /\ MagicsIn(a \o b, P \cup {Len(a) + i : i \in Q})
<1> DEFINE c == a \o b
<1>1. /\ c \in Seq(Fields)
      /\ Len(c) = Len(a) + Len(b)
      /\ \A j \in 1 .. Len(a) : c[j] = a[j]
      /\ \A j \in 1 .. Len(b) : c[Len(a) + j] = b[j]
  BY ConcatProperties
<1>2. Len(a) \in Nat /\ Len(b) \in Nat
  OBVIOUS
<1> HIDE DEF c
<1>3. Part(c, 0, a)
  <2>1. \A j \in 1 .. Len(a) : 0 + j = j
    OBVIOUS
  <2>2. 0 + Len(a) <= Len(c)
    BY <1>1, <1>2
  <2> QED
    BY <1>1, <2>1, <2>2 DEF Part
<1>4. Part(c, Len(a), b)
  <2>1. Len(a) + Len(b) <= Len(c)
    BY <1>1, <1>2
  <2> QED
    BY <1>1, <2>1 DEF Part
<1>5. ASSUME NEW i \in 1 .. Len(c), c[i].size = "magic"
      PROVE  i \in P \cup {Len(a) + j : j \in Q}
  <2>1. CASE i <= Len(a)
    <3>1. i \in 1 .. Len(a)
      BY <1>2, <2>1
    <3>2. c[i] = a[i]
      BY <1>1, <3>1
    <3> QED
      BY <1>5, <3>1, <3>2 DEF MagicsIn
  <2>2. CASE ~(i <= Len(a))
    <3>1. PICK j : j = i - Len(a)
      OBVIOUS
    <3>2. j \in 1 .. Len(b) /\ i = Len(a) + j
      BY <1>1, <1>2, <2>2, <3>1
    <3>3. c[i] = b[j]
      BY <1>1, <3>2
    <3>4. j \in Q
      BY <1>5, <3>2, <3>3 DEF MagicsIn
    <3> QED
      BY <3>2, <3>4
  <2> QED
    BY <2>1, <2>2
<1>6. MagicsIn(c, P \cup {Len(a) + i : i \in Q})
  BY <1>5 DEF MagicsIn
<1> QED
  BY <1>1, <1>3, <1>4, <1>6 DEF c

(* Five tables.                                                            *)
LEMMA FiveTables ==
  ASSUME NEW a \in Seq(Fields), NEW b \in Seq(Fields), NEW c \in Seq(Fields),
         NEW d \in Seq(Fields), NEW e \in Seq(Fields),
         MagicsIn(a, {1}), MagicsIn(b, {1}), MagicsIn(c, {1}), MagicsIn(d, {1}),
         MagicsIn(e, {1}),
         NEW f, f = a \o b \o c \o d \o e
  PROVE  /\ f \in Seq(Fields)
         /\ Part(f, 0, a)
         /\ Part(f, Len(a), b)
         /\ Part(f, Len(a) + Len(b), c)
         /\ Part(f, Len(a) + Len(b) + Len(c), d)
         /\ Part(f, Len(a) + Len(b) + Len(c) + Len(d), e)
         /\ MagicsIn(f, {1, Len(a) + 1, Len(a) + Len(b) + 1, Len(a) + Len(b) + Len(c) + 1,
                         Len(a) + Len(b) + Len(c) + Len(d) + 1})
<1> DEFINE g == a \o b
           h == g \o c
           k == h \o d
           G == {1, Len(a) + 1}
           H == G \cup {Len(a) + Len(b) + 1}
           K == H \cup {Len(a) + Len(b) + Len(c) + 1}
           L == K \cup {Len(a) + Len(b) + Len(c) + Len(d) + 1}
<1>0. Len(a) \in Nat /\ Len(b) \in Nat /\ Len(c) \in Nat /\ Len(d) \in Nat /\ Len(e) \in Nat
  OBVIOUS
<1>1. /\ g \in Seq(Fields) /\ Len(g) = Len(a) + Len(b)
      /\ Part(g, 0, a) /\ Part(g, Len(a), b)
      /\ MagicsIn(g, {1} \cup {Len(a) + i : i \in {1}})
  BY Concat
<1>2. {1} \cup {Len(a) + i : i \in {1}} = G
  OBVIOUS
<1> HIDE DEF g, G
<1>3. /\ h \in Seq(Fields) /\ Len(h) = Len(g) + Len(c)
      /\ Part(h, 0, g) /\ Part(h, Len(g), c)
      /\ MagicsIn(h, G \cup {Len(g) + i : i \in {1}})
  BY <1>1, <1>2, Concat
<1>4. G \cup {Len(g) + i : i \in {1}} = H
  BY <1>1
<1> HIDE DEF h, H
<1>5. /\ k \in Seq(Fields) /\ Len(k) = Len(h) + Len(d)
      /\ Part(k, 0, h) /\ Part(k, Len(h), d)
      /\ MagicsIn(k, H \cup {Len(h) + i : i \in {1}})
  BY <1>3, <1>4, Concat
<1>6. H \cup {Len(h) + i : i \in {1}} = K
  BY <1>1, <1>3
<1> HIDE DEF k, K
<1>7. /\ f \in Seq(Fields)
      /\ Part(f, 0, k) /\ Part(f, Len(k), e)
      /\ MagicsIn(f, K \cup {Len(k) + i : i \in {1}})
  <2>1. f = k \o e
    BY DEF g, h, k
  <2>2. MagicsIn(k, K)
    BY <1>5, <1>6
  <2>3. k \in Seq(Fields)
    BY <1>5
  <2>4. /\ k \o e \in Seq(Fields)
        /\ Part(k \o e, 0, k) /\ Part(k \o e, Len(k), e)
        /\ MagicsIn(k \o e, K \cup {Len(k) + i : i \in {1}})
    BY <2>2, <2>3, Concat
  <2> QED
    BY <2>1, <2>4, Zenon
<1>8. K \cup {Len(k) + i : i \in {1}} = L
  BY <1>1, <1>3, <1>5
<1>9. Part(f, 0, h) /\ Part(f, Len(h), d)
  <2>1. Len(h) \in Nat /\ 0 + 0 = 0 /\ 0 + Len(h) = Len(h)
    BY <1>3
  <2>2. /\ f \in Seq(Fields) /\ k \in Seq(Fields) /\ h \in Seq(Fields)
        /\ Part(f, 0, k) /\ Part(k, 0, h) /\ Part(k, Len(h), d)
    BY <1>3, <1>5, <1>7
  <2>3. Part(f, 0 + 0, h)
    BY <2>2, PartOfPart
  <2>4. Part(f, 0 + Len(h), d)
    BY <2>1, <2>2, PartOfPart
  <2> QED
    BY <2>1, <2>3, <2>4
<1>10. Part(f, 0, g) /\ Part(f, Len(g), c)
  <2>1. Len(g) \in Nat /\ 0 + 0 = 0 /\ 0 + Len(g) = Len(g)
    BY <1>1
  <2>2. /\ f \in Seq(Fields) /\ h \in Seq(Fields) /\ g \in Seq(Fields)
        /\ Part(f, 0, h) /\ Part(h, 0, g) /\ Part(h, Len(g), c)
    BY <1>1, <1>3, <1>7, <1>9
  <2>3. Part(f, 0 + 0, g)
    BY <2>2, PartOfPart
  <2>4. Part(f, 0 + Len(g), c)
    BY <2>1, <2>2, PartOfPart
  <2> QED
    BY <2>1, <2>3, <2>4
<1>11. Part(f, 0, a) /\ Part(f, Len(a), b)
  <2>1. Len(a) \in Nat /\ 0 + 0 = 0 /\ 0 + Len(a) = Len(a)
    OBVIOUS
  <2> QED
    BY <1>1, <1>7, <1>10, <2>1, PartOfPart
<1>12. L = {1, Len(a) + 1, Len(a) + Len(b) + 1, Len(a) + Len(b) + Len(c) + 1,
            Len(a) + Len(b) + Len(c) + Len(d) + 1}
  BY DEF G, H, K
<1> HIDE DEF L
<1>13. /\ Len(g) = Len(a) + Len(b)
       /\ Len(h) = Len(a) + Len(b) + Len(c)
       /\ Len(k) = Len(a) + Len(b) + Len(c) + Len(d)
  BY <1>1, <1>3, <1>5
<1> QED
  BY <1>7, <1>8, <1>9, <1>10, <1>11, <1>12, <1>13

LEMMA FiveLengths ==
  ASSUME NEW a \in Seq(Fields), NEW b \in Seq(Fields), NEW c \in Seq(Fields),
         NEW d \in Seq(Fields), NEW e \in Seq(Fields)
  PROVE  Len(a \o b \o c \o d \o e) = Len(a) + Len(b) + Len(c) + Len(d) + Len(e)
<1> DEFINE g == a \o b
           h == g \o c
           k == h \o d
<1>1. g \in Seq(Fields) /\ Len(g) = Len(a) + Len(b)
  BY ConcatProperties
<1> HIDE DEF g
<1>2. h \in Seq(Fields) /\ Len(h) = Len(g) + Len(c)
  BY <1>1, ConcatProperties
<1> HIDE DEF h
<1>3. k \in Seq(Fields) /\ Len(k) = Len(h) + Len(d)
  BY <1>2, ConcatProperties
<1> HIDE DEF k
<1>4. Len(k \o e) = Len(k) + Len(e)
  BY <1>3, ConcatProperties
<1>5. Len(k \o e) = Len(a) + Len(b) + Len(c) + Len(d) + Len(e)
  BY <1>1, <1>2, <1>3, <1>4
<1> QED
  BY <1>5, Zenon DEF g, h, k

(* A table: a magic, its counts and its entries.                           *)
Plain == {f \in Fields : f.size # "magic"}

TableOf(n, h, b) == <<Magic(n)>> \o h \o b

LEMMA TableLayout ==
  ASSUME NEW n \in Texts, NEW h \in Seq(Plain), NEW b \in Seq(Plain),
         NEW t, t = TableOf(n, h, b)
  PROVE  /\ t \in Seq(Fields)
         /\ Len(t) = 1 + Len(h) + Len(b)
         /\ t[1] = Magic(n)
         /\ Part(t, 1, h)
         /\ Part(t, 1 + Len(h), b)
         /\ MagicsIn(t, {1})
<1> DEFINE m == <<Magic(n)>>
           g == m \o h
<1>1. Magic(n) \in Fields
  BY DEF Magic, Fields
<1>2. m \in Seq(Fields) /\ Len(m) = 1 /\ m[1] = Magic(n)
  <2>1. PICK x : x = Magic(n)
    OBVIOUS
  <2>2. x \in Fields
    BY <1>1, <2>1
  <2>3. ASSUME NEW S, x \in S
        PROVE  <<x>> \in Seq(S)
    BY <2>3
  <2>4. <<x>> \in Seq(Fields)
    BY <2>2, <2>3
  <2>5. Len(<<x>>) = 1 /\ <<x>>[1] = x
    OBVIOUS
  <2> QED
    BY <2>1, <2>4, <2>5
<1>3. MagicsIn(m, {1})
  BY <1>2 DEF MagicsIn
<1>4. h \in Seq(Fields) /\ MagicsIn(h, {})
  BY DEF Plain, MagicsIn
<1>5. b \in Seq(Fields) /\ MagicsIn(b, {})
  BY DEF Plain, MagicsIn
<1> HIDE DEF m
<1>6. /\ g \in Seq(Fields) /\ Len(g) = 1 + Len(h)
      /\ Part(g, 0, m) /\ Part(g, 1, h)
      /\ MagicsIn(g, {1} \cup {Len(m) + i : i \in {}})
  BY <1>2, <1>3, <1>4, Concat
<1>7. {1} \cup {Len(m) + i : i \in {}} = {1}
  OBVIOUS
<1> HIDE DEF g
<1>8. /\ t \in Seq(Fields) /\ Len(t) = Len(g) + Len(b)
      /\ Part(t, 0, g) /\ Part(t, Len(g), b)
      /\ MagicsIn(t, {1} \cup {Len(g) + i : i \in {}})
  <2>1. t = g \o b
    BY DEF g, m, TableOf
  <2>2. MagicsIn(g, {1})
    BY <1>6, <1>7
  <2>3. g \in Seq(Fields)
    BY <1>6
  <2>4. /\ g \o b \in Seq(Fields) /\ Len(g \o b) = Len(g) + Len(b)
        /\ Part(g \o b, 0, g) /\ Part(g \o b, Len(g), b)
        /\ MagicsIn(g \o b, {1} \cup {Len(g) + i : i \in {}})
    BY <1>5, <2>2, <2>3, Concat
  <2> QED
    BY <2>1, <2>4, Zenon
<1>9. {1} \cup {Len(g) + i : i \in {}} = {1}
  OBVIOUS
<1>10. Part(t, 0, m) /\ Part(t, 1, h)
  <2>1. 0 + 0 = 0 /\ 0 + 1 = 1
    OBVIOUS
  <2> QED
    BY <1>2, <1>4, <1>6, <1>8, <2>1, PartOfPart
<1>11. t[1] = Magic(n)
  <2>1. 1 \in 1 .. Len(m) /\ 0 + 1 = 1
    BY <1>2
  <2>2. t[0 + 1] = m[1]
    BY <1>10, <2>1, Zenon DEF Part
  <2> QED
    BY <1>2, <2>1, <2>2, Zenon
<1> QED
  BY <1>6, <1>8, <1>9, <1>10, <1>11

-----------------------------------------------------------------------------
(* The entries of the tables.                                              *)
LEMMA EqualEntries ==
  ASSUME NEW S, NEW n \in Nat, NEW s \in [1 .. n -> Seq(S)], NEW c \in {2, 3},
         NEW m \in 0 .. n, \A i \in 1 .. m : Len(s[i]) = c
  PROVE  \A k \in 0 .. m : Len(Prefix(s, k)) = c * k
<1> DEFINE P == {k \in Nat : k <= m => Len(Prefix(s, k)) = c * k}
<1>1. 0 \in P
  <2>1. Len(Prefix(s, 0)) = 0
    BY PrefixEmpty
  <2>2. c * 0 = 0
    OBVIOUS
  <2> QED
    BY <2>1, <2>2
<1>2. ASSUME NEW k \in Nat, k \in P
      PROVE  k + 1 \in P
  <2> SUFFICES ASSUME k + 1 <= m
               PROVE  Len(Prefix(s, k + 1)) = c * (k + 1)
    OBVIOUS
  <2>1. k \in 0 .. n - 1 /\ k + 1 \in 1 .. m
    OBVIOUS
  <2>2. Laid(s, S, n)
    BY Layout
  <2>3. Len(Prefix(s, k + 1)) = Len(Prefix(s, k)) + Len(s[k + 1])
    BY <2>1, <2>2 DEF Laid
  <2>4. Len(Prefix(s, k)) = c * k
    BY <1>2
  <2>5. Len(s[k + 1]) = c
    BY <2>1
  <2>6. c * k + c = c * (k + 1)
    OBVIOUS
  <2> QED
    BY <2>3, <2>4, <2>5, <2>6
<1> HIDE DEF P
<1>3. \A k \in Nat : k \in P
  BY <1>1, <1>2, Induction
<1> QED
  BY <1>3 DEF P

LEMMA FieldTypes ==
  /\ \A v \in Int : Word(v) \in Plain /\ Byte(v) \in Plain
  /\ \A s \in Texts : Name(s) \in Plain
<1>1. "none" \in Texts
  BY DEF Texts
<1>2. \A v \in Int : Word(v) \in Fields /\ Byte(v) \in Fields
  BY <1>1 DEF Word, Byte, Fields
<1>3. \A s \in Texts : Name(s) \in Fields
  BY DEF Name, Fields
<1>4. \A v : Word(v).size # "magic" /\ Byte(v).size # "magic" /\ Name(v).size # "magic"
  BY DEF Word, Byte, Name
<1> QED
  BY <1>2, <1>3, <1>4 DEF Plain

LEMMA Pair ==
  ASSUME NEW S, NEW x \in S, NEW y \in S
  PROVE  <<x, y>> \in Seq(S) /\ Len(<<x, y>>) = 2 /\ <<x, y>>[1] = x /\ <<x, y>>[2] = y
OBVIOUS

LEMMA Single ==
  ASSUME NEW S, NEW x \in S
  PROVE  <<x>> \in Seq(S) /\ Len(<<x>>) = 1 /\ <<x>>[1] = x
OBVIOUS

LEMMA Triple ==
  ASSUME NEW S, NEW x \in S, NEW y \in S, NEW z \in S
  PROVE  /\ <<x, y, z>> \in Seq(S) /\ Len(<<x, y, z>>) = 3
         /\ <<x, y, z>>[1] = x /\ <<x, y, z>>[2] = y /\ <<x, y, z>>[3] = z
OBVIOUS

LEMMA MetaEntryIs ==
  ASSUME CompilerTypeOK, NEW i \in 1 .. Len(variables)
  PROVE  /\ MetaEntry(i) \in Seq(Plain) /\ Len(MetaEntry(i)) = 2
         /\ MetaEntry(i)[1] = Word(variables[i].meta_location)
         /\ MetaEntry(i)[2] = Name(variables[i].name)
<1>1. variables[i].meta_location \in Int /\ variables[i].name \in Texts
  <2>1. variables[i] \in VariableEntries
    BY DEF CompilerTypeOK
  <2> QED
    BY <2>1 DEF VariableEntries
<1>2. Word(variables[i].meta_location) \in Plain /\ Name(variables[i].name) \in Plain
  BY <1>1, FieldTypes
<1> QED
  BY <1>2, Pair, Zenon DEF MetaEntry

LEMMA StrEntryIs ==
  ASSUME CompilerTypeOK, NEW i \in 1 .. Len(stringtable)
  PROVE  /\ StrEntry(i) \in Seq(Plain) /\ Len(StrEntry(i)) = 2
         /\ StrEntry(i)[1] = Word(stringtable[i].index)
         /\ StrEntry(i)[2] = Name(stringtable[i].string)
<1>1. stringtable[i].index \in Int /\ stringtable[i].string \in Texts
  <2>1. stringtable[i] \in StringEntries
    BY DEF CompilerTypeOK
  <2> QED
    BY <2>1 DEF StringEntries
<1>2. Word(stringtable[i].index) \in Plain /\ Name(stringtable[i].string) \in Plain
  BY <1>1, FieldTypes
<1> QED
  BY <1>2, Pair, Zenon DEF StrEntry

LEMMA JmpEntryIs ==
  ASSUME CompilerTypeOK, NEW i \in 1 .. Len(jumptable)
  PROVE  LET type == LabelType(jumptable[i]) IN
         /\ JmpEntry(i) \in Seq(Plain)
         /\ Len(JmpEntry(i)) = IF type = General THEN 2 ELSE 3
         /\ JmpEntry(i)[1] = Word(jumptable[i].location)
         /\ JmpEntry(i)[2] = Byte(type)
         /\ type # General => JmpEntry(i)[3] = Name(jumptable[i].name)
<1> DEFINE type == LabelType(jumptable[i])
           x == Word(jumptable[i].location)
           y == Byte(type)
           z == Name(jumptable[i].name)
<1>1. jumptable[i] \in LabelEntries
  BY DEF CompilerTypeOK
<1>2. jumptable[i].location \in Int /\ jumptable[i].name \in Texts /\ type \in Int
  BY <1>1 DEF LabelEntries, LabelType, General, CallLabel, ParentCall
<1>3. x \in Plain /\ y \in Plain /\ z \in Plain
  BY <1>2, FieldTypes
<1>4. JmpEntry(i) = <<x, y>> \o IF type = General THEN <<>> ELSE <<z>>
  BY DEF JmpEntry, LabelType
<1> HIDE DEF x, y, z, type
<1>5. <<x, y>> \in Seq(Plain)
  BY <1>3, Pair
<1>6. CASE type = General
  <2>1. JmpEntry(i) = <<x, y>>
    BY <1>4, <1>5, <1>6, ConcatEmptySeq
  <2> QED
    BY <1>3, <1>6, <2>1, Pair DEF x, y, type
<1>7. CASE type # General
  <2> DEFINE a == <<x, y>>
             b == <<z>>
  <2>1. a \in Seq(Plain) /\ Len(a) = 2 /\ a[1] = x /\ a[2] = y
    BY <1>3, Pair
  <2>2. b \in Seq(Plain) /\ Len(b) = 1 /\ b[1] = z
    BY <1>3, Single
  <2>3. JmpEntry(i) = a \o b
    BY <1>4, <1>7
  <2> HIDE DEF a, b
  <2>4. /\ a \o b \in Seq(Plain) /\ Len(a \o b) = 2 + 1
        /\ \A j \in 1 .. 2 : (a \o b)[j] = a[j]
        /\ \A j \in 1 .. 1 : (a \o b)[2 + j] = b[j]
    <3>1. a \in Seq(Plain) /\ b \in Seq(Plain)
      BY <2>1, <2>2
    <3>2. /\ a \o b \in Seq(Plain) /\ Len(a \o b) = Len(a) + Len(b)
          /\ \A j \in 1 .. Len(a) : (a \o b)[j] = a[j]
          /\ \A j \in 1 .. Len(b) : (a \o b)[Len(a) + j] = b[j]
      BY <3>1, ConcatProperties
    <3>3. Len(a) = 2 /\ Len(b) = 1
      BY <2>1, <2>2
    <3> QED
      BY <3>2, <3>3, Zenon
  <2>5. (a \o b)[1] = x /\ (a \o b)[2] = y /\ (a \o b)[3] = z
    <3>1. 1 \in 1 .. 2 /\ 2 \in 1 .. 2 /\ 1 \in 1 .. 1 /\ 2 + 1 = 3
      OBVIOUS
    <3> QED
      BY <2>1, <2>2, <2>4, <3>1, Zenon
  <2> QED
    BY <1>7, <2>3, <2>4, <2>5 DEF x, y, z, type
<1> QED
  BY <1>6, <1>7, Zenon

LEMMA FindIs ==
  ASSUME NEW S, NEW t \in Seq(S), NEW hits, hits \subseteq 1 .. Len(t)
  PROVE  /\ LastOf(hits) \in 0 .. Len(t)
         /\ LastOf(hits) = 0 <=> hits = {}
         /\ hits # {} => LastOf(hits) \in hits /\ \A i \in hits : i <= LastOf(hits)
<1>0. Len(t) \in Nat
  OBVIOUS
<1>1. CASE hits = {}
  BY <1>0, <1>1 DEF LastOf
<1>2. CASE hits # {}
  <2> DEFINE P == {Len(t) - i : i \in hits}
  <2>1. P \in SUBSET Nat /\ P # {}
    BY <1>0, <1>2
  <2>2. PICK n \in P : \A m \in P : n <= m
    BY <2>1, Least
  <2>3. PICK i \in hits : n = Len(t) - i
    BY <2>2
  <2>4. \A j \in hits : j <= i
    <3> SUFFICES ASSUME NEW j \in hits
                 PROVE  j <= i
      OBVIOUS
    <3>1. n <= Len(t) - j
      BY <2>2
    <3>2. i \in Nat /\ j \in Nat
      OBVIOUS
    <3> QED
      BY <1>0, <2>3, <3>1, <3>2
  <2> HIDE DEF P
  <2>5. LastOf(hits) \in hits /\ \A j \in hits : j <= LastOf(hits)
    BY <1>2, <2>4, Zenon DEF LastOf
  <2>6. LastOf(hits) \in 1 .. Len(t)
    BY <2>5
  <2> QED
    BY <1>0, <1>2, <2>5, <2>6
<1> QED
  BY <1>1, <1>2

LEMMA FindLabelIs ==
  ASSUME CompilerTypeOK, NEW name
  PROVE  /\ FindLabel(name) \in 0 .. Len(jumptable)
         /\ FindLabel(name) # 0 => /\ ~jumptable[FindLabel(name)].parent
                                   /\ jumptable[FindLabel(name)].name = name
         /\ FindLabel(name) = 0 =>
              \A i \in 1 .. Len(jumptable) : jumptable[i].parent \/ jumptable[i].name # name
<1> DEFINE hits == {i \in 1 .. Len(jumptable) : ~jumptable[i].parent /\ jumptable[i].name = name}
<1>1. hits \subseteq 1 .. Len(jumptable) /\ jumptable \in Seq(LabelEntries)
  BY DEF CompilerTypeOK
<1>2. FindLabel(name) = LastOf(hits)
  BY DEF FindLabel
<1> HIDE DEF hits
<1>3. /\ LastOf(hits) \in 0 .. Len(jumptable)
      /\ LastOf(hits) = 0 <=> hits = {}
      /\ hits # {} => LastOf(hits) \in hits
  BY <1>1, FindIs
<1> QED
  BY <1>2, <1>3 DEF hits

LEMMA MethodTypes ==
  /\ Len(Methods) \in Nat
  /\ \A m \in 1 .. Len(Methods) :
       /\ m \in DOMAIN Methods
       /\ Methods[m].name \in MethodNames /\ Methods[m].name \in Texts
       /\ Methods[m].pars \in Nat
<1> DEFINE S == [name : MethodNames, pars : 0 .. 255]
<1> HIDE DEF S
<1>1. Methods \in Seq(S)
  BY MethodsAssumption DEF S
<1>2. Len(Methods) \in Nat /\ DOMAIN Methods = 1 .. Len(Methods)
  BY <1>1
<1>3. \A m \in 1 .. Len(Methods) : Methods[m] \in S
  BY <1>1
<1>4. ASSUME NEW x \in S
      PROVE  x.name \in MethodNames /\ x.pars \in Nat
  <2>1. x.name \in MethodNames /\ x.pars \in 0 .. 255
    BY DEF S
  <2> QED
    BY <2>1
<1>5. \A m \in 1 .. Len(Methods) : Methods[m].name \in MethodNames /\ Methods[m].pars \in Nat
  BY <1>3, <1>4
<1> QED
  BY <1>2, <1>5 DEF Texts

(* Entries of functions: they begin with a number, and a number has two    *)
(* fields behind it.                                                       *)
Framed(s) ==
  /\ Len(s) > 0 => s[1].size = "word"
  /\ \A p \in 1 .. Len(s) : s[p].size = "word" => p + 2 <= Len(s)

LEMMA FramedConcat ==
  ASSUME NEW a \in Seq(Plain), NEW b \in Seq(Plain), Framed(a), Framed(b)
  PROVE  Framed(a \o b)
<1>1. PICK f : f = a \o b
  OBVIOUS
<1>2. /\ Len(f) = Len(a) + Len(b)
      /\ \A j \in 1 .. Len(a) : f[j] = a[j]
      /\ \A j \in 1 .. Len(b) : f[Len(a) + j] = b[j]
  BY <1>1, ConcatProperties
<1>3. Len(a) \in Nat /\ Len(b) \in Nat
  OBVIOUS
<1>4. ASSUME NEW p \in 1 .. Len(f), f[p].size = "word"
      PROVE  p + 2 <= Len(f)
  <2>1. CASE p <= Len(a)
    <3>1. p \in 1 .. Len(a)
      BY <1>3, <2>1
    <3>2. p + 2 <= Len(a)
      BY <1>2, <1>4, <3>1 DEF Framed
    <3> QED
      BY <1>2, <1>3, <3>2
  <2>2. CASE p > Len(a)
    <3>1. PICK q : q = p - Len(a)
      OBVIOUS
    <3>2. q \in 1 .. Len(b) /\ p = Len(a) + q
      BY <1>2, <1>3, <2>2, <3>1
    <3>3. b[q].size = "word"
      BY <1>2, <1>4, <3>2
    <3>4. q + 2 <= Len(b)
      BY <3>2, <3>3 DEF Framed
    <3> QED
      BY <1>2, <1>3, <3>2, <3>4
  <2> QED
    BY <1>3, <2>1, <2>2
<1>5. Len(f) > 0 => f[1].size = "word"
  <2>1. CASE Len(a) > 0
    <3>1. 1 \in 1 .. Len(a)
      BY <1>3, <2>1
    <3> QED
      BY <1>2, <2>1, <3>1 DEF Framed
  <2>2. CASE Len(a) = 0 /\ Len(b) > 0
    <3>1. 1 \in 1 .. Len(b) /\ 0 + 1 = 1
      BY <1>3, <2>2
    <3>2. f[1] = b[1]
      BY <1>2, <2>2, <3>1
    <3> QED
      BY <2>2, <3>2 DEF Framed
  <2> QED
    BY <1>2, <1>3, <2>1, <2>2
<1> QED
  BY <1>1, <1>4, <1>5 DEF Framed

LEMMA FramedPrefix ==
  ASSUME NEW n \in Nat, NEW s \in [1 .. n -> Seq(Plain)], \A i \in 1 .. n : Framed(s[i])
  PROVE  Framed(Prefix(s, n))
<1> DEFINE P == {k \in Nat : k <= n => Framed(Prefix(s, k))}
<1>1. 0 \in P
  <2>1. Framed(<<>>)
    BY DEF Framed
  <2> QED
    BY <2>1, PrefixEmpty
<1>2. ASSUME NEW k \in Nat, k \in P
      PROVE  k + 1 \in P
  <2> SUFFICES ASSUME k + 1 <= n
               PROVE  Framed(Prefix(s, k + 1))
    OBVIOUS
  <2>1. k \in 0 .. n - 1 /\ k + 1 \in 1 .. n
    OBVIOUS
  <2>2. Prefix(s, k + 1) = Prefix(s, k) \o s[k + 1]
    BY <2>1, PrefixStep
  <2>3. Prefix(s, k) \in Seq(Plain)
    BY <2>1, Layout DEF Laid
  <2>4. s[k + 1] \in Seq(Plain) /\ Framed(s[k + 1])
    BY <2>1
  <2>5. Framed(Prefix(s, k))
    BY <1>2
  <2> QED
    BY <2>2, <2>3, <2>4, <2>5, FramedConcat
<1> HIDE DEF P
<1>3. \A k \in Nat : k \in P
  BY <1>1, <1>2, Induction
<1> QED
  BY <1>3 DEF P

(* Where nothing is added.                                                 *)
LEMMA EmptyEntries ==
  ASSUME NEW S, NEW n \in Nat, NEW s \in [1 .. n -> Seq(S)], NEW a \in 0 .. n,
         NEW b \in a .. n, \A i \in a + 1 .. b : Len(s[i]) = 0
  PROVE  Len(Prefix(s, b)) = Len(Prefix(s, a))
<1> DEFINE P == {k \in Nat : a + k <= b => Len(Prefix(s, a + k)) = Len(Prefix(s, a))}
<1>1. 0 \in P
  <2>1. a + 0 = a
    OBVIOUS
  <2> QED
    BY <2>1
<1>2. ASSUME NEW k \in Nat, k \in P
      PROVE  k + 1 \in P
  <2> SUFFICES ASSUME a + (k + 1) <= b
               PROVE  Len(Prefix(s, a + (k + 1))) = Len(Prefix(s, a))
    OBVIOUS
  <2>1. a + k \in 0 .. n - 1 /\ (a + k) + 1 = a + (k + 1) /\ a + (k + 1) \in a + 1 .. b
    OBVIOUS
  <2>2. Laid(s, S, n)
    BY Layout
  <2>3. Len(Prefix(s, (a + k) + 1)) = Len(Prefix(s, a + k)) + Len(s[(a + k) + 1])
    BY <2>1, <2>2 DEF Laid
  <2>4. Len(s[(a + k) + 1]) = 0
    BY <2>1
  <2>5. Len(Prefix(s, a + k)) \in Nat
    <3>1. Prefix(s, a + k) \in Seq(S)
      BY <2>1, <2>2 DEF Laid
    <3> QED
      BY <3>1
  <2>6. Len(Prefix(s, a + k)) = Len(Prefix(s, a))
    BY <1>2
  <2> QED
    BY <2>1, <2>3, <2>4, <2>5, <2>6
<1> HIDE DEF P
<1>3. \A k \in Nat : k \in P
  BY <1>1, <1>2, Induction
<1>4. b - a \in Nat /\ a + (b - a) = b
  OBVIOUS
<1>5. b - a \in P
  BY <1>3, <1>4
<1> QED
  BY <1>4, <1>5 DEF P

LEMMA FunEntryAtIs ==
  ASSUME CompilerTypeOK, NEW m \in 1 .. Len(Methods), NEW i \in 1 .. Len(jumptable)
  PROVE  /\ FunEntryAt(m, i) \in Seq(Plain) /\ Framed(FunEntryAt(m, i))
         /\ jumptable[i].name # Methods[m].name => Len(FunEntryAt(m, i)) = 0
         /\ jumptable[i].name = Methods[m].name =>
              /\ Len(FunEntryAt(m, i)) = 3 + Methods[m].pars
              /\ FunEntryAt(m, i)[1] = Word(i - 1)
              /\ FunEntryAt(m, i)[2] = Name(Methods[m].name)
              /\ FunEntryAt(m, i)[3] = Byte(Methods[m].pars)
<1> DEFINE n == Methods[m].pars
           x == Word(i - 1)
           y == Name(Methods[m].name)
           z == Byte(n)
           p == [k \in 1 .. n |-> Byte(1)]
<1>0. CASE jumptable[i].name # Methods[m].name
  <2>1. FunEntryAt(m, i) = <<>>
    BY <1>0 DEF FunEntryAt
  <2>2. <<>> \in Seq(Plain) /\ Framed(<<>>) /\ Len(<<>>) = 0
    BY DEF Framed
  <2> QED
    BY <1>0, <2>1, <2>2
<1> SUFFICES ASSUME jumptable[i].name = Methods[m].name
             PROVE  /\ FunEntryAt(m, i) \in Seq(Plain) /\ Framed(FunEntryAt(m, i))
                    /\ Len(FunEntryAt(m, i)) = 3 + n
                    /\ FunEntryAt(m, i)[1] = x /\ FunEntryAt(m, i)[2] = y
                    /\ FunEntryAt(m, i)[3] = z
  BY <1>0
<1>1. Methods[m].name \in Texts /\ n \in Nat
  BY MethodTypes
<1>2. i - 1 \in Int
  OBVIOUS
<1>3. x \in Plain /\ y \in Plain /\ z \in Plain /\ Byte(1) \in Plain
  <2>1. 1 \in Int
    OBVIOUS
  <2>2. n \in Int
    BY <1>1
  <2> HIDE DEF n
  <2> QED
    BY <1>1, <1>2, <2>1, <2>2, FieldTypes, Zenon DEF x, y, z
<1>4. FunEntryAt(m, i) = <<x, y, z>> \o p
  BY DEF FunEntryAt
<1>5. /\ x.size = "word" /\ y.size # "word" /\ z.size # "word"
      /\ Byte(1).size # "word"
  BY DEF Word, Name, Byte
<1> HIDE DEF x, y, z, n
<1>6. p \in Seq(Plain) /\ Len(p) = n /\ \A k \in 1 .. n : p[k].size # "word"
  <2>1. PICK b : b = Byte(1)
    OBVIOUS
  <2>2. p = [k \in 1 .. n |-> b]
    BY <2>1
  <2> HIDE DEF p
  <2>3. b \in Plain /\ b.size # "word"
    BY <1>3, <1>5, <2>1
  <2> QED
    BY <1>1, <2>2, <2>3
<1> HIDE DEF p
<1>7. /\ <<x, y, z>> \in Seq(Plain) /\ Len(<<x, y, z>>) = 3
      /\ <<x, y, z>>[1] = x /\ <<x, y, z>>[2] = y /\ <<x, y, z>>[3] = z
  BY <1>3, Triple
<1> DEFINE q == <<x, y, z>>
<1> HIDE DEF q
<1>8. q \in Seq(Plain) /\ Len(q) = 3 /\ q[1] = x /\ q[2] = y /\ q[3] = z
  BY <1>7 DEF q
<1>9. PICK f : f = q \o p
  OBVIOUS
<1>10. /\ f \in Seq(Plain) /\ Len(f) = 3 + n
       /\ \A j \in 1 .. 3 : f[j] = q[j]
       /\ \A j \in 1 .. n : f[3 + j] = p[j]
  <2>1. /\ q \o p \in Seq(Plain) /\ Len(q \o p) = Len(q) + Len(p)
        /\ \A j \in 1 .. Len(q) : (q \o p)[j] = q[j]
        /\ \A j \in 1 .. Len(p) : (q \o p)[Len(q) + j] = p[j]
    <3>1. q \in Seq(Plain) /\ p \in Seq(Plain)
      BY <1>6, <1>8
    <3> QED
      BY <3>1, ConcatProperties
  <2>2. Len(q) = 3 /\ Len(p) = n
    BY <1>6, <1>8
  <2> QED
    BY <1>9, <2>1, <2>2, Zenon
<1>11. f[1] = x /\ f[2] = y /\ f[3] = z
  <2>1. 1 \in 1 .. 3 /\ 2 \in 1 .. 3 /\ 3 \in 1 .. 3
    OBVIOUS
  <2> QED
    BY <1>8, <1>10, <2>1
<1>12. Framed(f)
  <2>1. ASSUME NEW j \in 1 .. Len(f), f[j].size = "word"
        PROVE  j + 2 <= Len(f)
    <3>1. CASE j > 3
      <4>1. PICK k : k = j - 3
        OBVIOUS
      <4>2. k \in 1 .. n /\ j = 3 + k
        BY <1>1, <1>10, <3>1, <4>1
      <4> QED
        BY <1>6, <1>10, <2>1, <4>2
    <3>2. CASE j = 1
      BY <1>1, <1>10, <3>2
    <3>3. CASE j = 2 \/ j = 3
      BY <1>5, <1>11, <2>1, <3>3
    <3> QED
      BY <1>1, <1>10, <3>1, <3>2, <3>3
  <2> QED
    BY <1>5, <1>11, <2>1 DEF Framed
<1>13. FunEntryAt(m, i) = f
  BY <1>4, <1>9 DEF q
<1> QED
  BY <1>10, <1>11, <1>12, <1>13, Zenon

(* All functions have been compiled.                                       *)
AllCompiled == CompilerInv /\ at = Len(Methods)

(* The labels with the name of a function: its own, and those of calls of  *)
(* the parent.                                                             *)
LEMMA LabelsOf ==
  ASSUME CompilerTypeOK, AllCompiled, NEW m \in 1 .. Len(Methods)
  PROVE  LET l == FindLabel(Methods[m].name) IN
         /\ l \in 1 .. Len(jumptable) /\ jumptable[l].name = Methods[m].name
         /\ \A i \in 1 .. Len(jumptable) :
              jumptable[i].name = Methods[m].name => i = l \/ i \in ParentCalls(Methods[m].name)
<1> DEFINE l == FindLabel(Methods[m].name)
<1>1. LabelsInv /\ MethodsInv /\ at = Len(Methods)
  BY DEF AllCompiled, CompilerInv
<1>2. l # 0
  BY <1>1 DEF MethodsInv
<1>3. l \in 0 .. Len(jumptable) /\ ~jumptable[l].parent /\ jumptable[l].name = Methods[m].name
  BY <1>2, FindLabelIs
<1>4. Len(jumptable) \in Nat
  BY DEF CompilerTypeOK
<1> HIDE DEF l
<1>5. l \in 1 .. Len(jumptable)
  BY <1>2, <1>3, <1>4
<1>6. ASSUME NEW i \in 1 .. Len(jumptable), jumptable[i].name = Methods[m].name,
             ~jumptable[i].parent
      PROVE  i = l
  BY <1>1, <1>3, <1>5, <1>6 DEF LabelsInv
<1>7. ASSUME NEW i \in 1 .. Len(jumptable), jumptable[i].name = Methods[m].name,
             jumptable[i].parent
      PROVE  i \in ParentCalls(Methods[m].name)
  BY <1>7 DEF ParentCalls
<1> QED
  BY <1>3, <1>5, <1>6, <1>7 DEF l

LEMMA FunEntryIs ==
  ASSUME CompilerTypeOK, AllCompiled, NEW m \in 1 .. Len(Methods)
  PROVE  /\ FunEntry(m) \in Seq(Plain) /\ Framed(FunEntry(m))
         /\ Len(FunEntry(m)) >= 3
         /\ ParentCalls(Methods[m].name) = {} => Len(FunEntry(m)) = 3 + Methods[m].pars
         /\ OwnFirst(Methods[m].name) =>
              /\ FunEntry(m)[1] = Word(FindLabel(Methods[m].name) - 1)
              /\ FunEntry(m)[2] = Name(Methods[m].name)
              /\ FunEntry(m)[3] = Byte(Methods[m].pars)
<1> DEFINE n == Len(jumptable)
           l == FindLabel(Methods[m].name)
           s == [i \in 1 .. n |-> FunEntryAt(m, i)]
           b == Prefix(s, n)
<1>1. n \in Nat /\ Methods[m].pars \in Nat
  BY MethodTypes DEF CompilerTypeOK
<1>2. \A i \in 1 .. n : s[i] = FunEntryAt(m, i) /\ s[i] \in Seq(Plain) /\ Framed(s[i])
  BY FunEntryAtIs
<1>3. s \in [1 .. n -> Seq(Plain)]
  BY <1>2
<1>4. b = FunEntry(m)
  <2>1. [i \in 1 .. n |-> s[i]] = s
    OBVIOUS
  <2> QED
    BY <2>1, Zenon DEF Prefix, FunEntry
<1>5. /\ l \in 1 .. n
      /\ \A i \in 1 .. n :
           jumptable[i].name = Methods[m].name => i = l \/ i \in ParentCalls(Methods[m].name)
  BY LabelsOf
<1>6. /\ Len(s[l]) = 3 + Methods[m].pars /\ s[l][1] = Word(l - 1)
      /\ s[l][2] = Name(Methods[m].name) /\ s[l][3] = Byte(Methods[m].pars)
  <2>1. jumptable[l].name = Methods[m].name
    BY LabelsOf
  <2> HIDE DEF l
  <2> QED
    BY <1>2, <1>5, <2>1, FunEntryAtIs
<1>7. \A i \in 1 .. n : jumptable[i].name # Methods[m].name => Len(s[i]) = 0
  BY <1>2, FunEntryAtIs
<1> HIDE DEF n, s, l
<1>8. Laid(s, Plain, n)
  BY <1>1, <1>3, Layout
<1>9. Framed(b) /\ b \in Seq(Plain) /\ Len(b) \in Nat
  <2>1. b \in Seq(Plain)
    BY <1>8 DEF Laid
  <2>2. Framed(b)
    BY <1>1, <1>2, <1>3, FramedPrefix
  <2> HIDE DEF b
  <2> QED
    BY <2>1, <2>2
<1> DEFINE p == Prefix(s, l - 1)
<1>10. /\ p \in Seq(Plain) /\ Len(Prefix(s, l)) = Len(p) + Len(s[l])
       /\ Len(Prefix(s, l)) <= Len(b)
       /\ \A j \in 1 .. Len(s[l]) : b[Len(p) + j] = s[l][j]
  <2>1. l - 1 \in 0 .. n - 1 /\ (l - 1) + 1 = l
    BY <1>1, <1>5
  <2> QED
    BY <1>8, <2>1 DEF Laid
<1>11. Len(p) \in Nat
  BY <1>10
<1>12. ASSUME OwnFirst(Methods[m].name)
       PROVE  Len(p) = 0
  <2>1. ASSUME NEW i \in 0 + 1 .. l - 1
        PROVE  Len(s[i]) = 0
    <3>1. i \in 1 .. n /\ i < l /\ i # l
      BY <1>1, <1>5
    <3>2. i \notin ParentCalls(Methods[m].name)
      BY <1>5, <1>12, <3>1 DEF OwnFirst, l
    <3> QED
      BY <1>5, <1>7, <3>1, <3>2
  <2>2. PICK q : q = l - 1
    OBVIOUS
  <2>3. Len(Prefix(s, q)) = Len(Prefix(s, 0))
    <3>1. n \in Nat /\ 0 \in 0 .. n /\ q \in 0 .. n
      BY <1>1, <1>5, <2>2
    <3>2. \A i \in 0 + 1 .. q : Len(s[i]) = 0
      BY <2>1, <2>2
    <3> QED
      BY <1>3, <3>1, <3>2, EmptyEntries
  <2>4. Prefix(s, 0) = <<>>
    BY PrefixEmpty
  <2> QED
    BY <2>2, <2>3, <2>4
<1>13. ASSUME ParentCalls(Methods[m].name) = {}
       PROVE  Len(b) = 3 + Methods[m].pars
  <2>1. OwnFirst(Methods[m].name)
    BY <1>13 DEF OwnFirst
  <2>2. Len(p) = 0
    BY <1>12, <2>1
  <2>3. ASSUME NEW i \in l + 1 .. n
        PROVE  Len(s[i]) = 0
    <3>1. i \in 1 .. n /\ i # l
      BY <1>1, <1>5
    <3> QED
      BY <1>5, <1>7, <1>13, <3>1
  <2>4. l \in 0 .. n /\ n \in l .. n
    BY <1>1, <1>5
  <2>5. Len(b) = Len(Prefix(s, l))
    BY <1>1, <1>3, <2>3, <2>4, EmptyEntries
  <2> QED
    BY <1>1, <1>6, <1>10, <2>2, <2>5
<1> HIDE DEF b, p
<1>14. Len(b) >= 3
  BY <1>1, <1>6, <1>9, <1>10, <1>11
<1>15. ASSUME OwnFirst(Methods[m].name)
       PROVE  b[1] = s[l][1] /\ b[2] = s[l][2] /\ b[3] = s[l][3]
  <2>1. 1 \in 1 .. Len(s[l]) /\ 2 \in 1 .. Len(s[l]) /\ 3 \in 1 .. Len(s[l])
    BY <1>1, <1>6
  <2>2. Len(p) = 0 /\ 0 + 1 = 1 /\ 0 + 2 = 2 /\ 0 + 3 = 3
    BY <1>12, <1>15
  <2> QED
    BY <1>10, <2>1, <2>2
<1> QED
  BY <1>4, <1>6, <1>9, <1>13, <1>14, <1>15 DEF l
-----------------------------------------------------------------------------
(* The file that is written, table by table.                               *)
MetaLayout(f) ==
  /\ f[1] = Magic("meta") /\ f[2].value = Len(variables)
  /\ \A k \in 0 .. Len(variables) - 1 :
       /\ f[3 + 2 * k] = Word(variables[k + 1].meta_location)
       /\ f[3 + 2 * k + 1] = Name(variables[k + 1].name)

StrLayout(f) ==
  /\ f[StrAt] = Magic("str") /\ f[StrAt + 1].value = Len(stringtable)
  /\ \A k \in 0 .. Len(stringtable) - 1 :
       /\ f[StrAt + 2 + 2 * k] = Word(stringtable[k + 1].index)
       /\ f[StrAt + 2 + 2 * k + 1] = Name(stringtable[k + 1].string)

JmpLayout(f) ==
  /\ f[JmpAt] = Magic("jmp") /\ f[JmpAt + 1].value = Len(jumptable)
  /\ f[JmpAt + 2].value = max_mark_index
  /\ \A k \in 0 .. Len(jumptable) - 1 :
       LET c == JmpAt + 3 + Len(FileOf(JmpEntry, k))
           type == LabelType(jumptable[k + 1])
       IN  /\ f[c] = Word(jumptable[k + 1].location) /\ f[c + 1] = Byte(type)
           /\ type # General => f[c + 2] = Name(jumptable[k + 1].name)
           /\ JmpAt + 3 + Len(FileOf(JmpEntry, k + 1)) = c + (IF type = General THEN 2 ELSE 3)
           /\ Len(FileOf(JmpEntry, k)) \in Nat

FunLayout(f) ==
  /\ FunAt \in Nat
  /\ f[FunAt] = Magic("fun") /\ f[FunAt + 1].value = Len(Methods)
  /\ \A k \in 0 .. Len(Methods) - 1 :
       InPlace(k + 1) =>
         LET c == FunAt + 2 + 3 * k IN
         /\ f[c].size = "word"
         /\ OwnFirst(Methods[k + 1].name) =>
              /\ f[c] = Word(FindLabel(Methods[k + 1].name) - 1)
              /\ f[c + 1] = Name(Methods[k + 1].name)
              /\ f[c + 2] = Byte(Methods[k + 1].pars)
  /\ FunAt + 2 \in 1 .. Len(f) - 1
  /\ \A p \in FunAt + 2 .. Len(f) - 1 : f[p].size = "word" => p + 3 <= Len(f) - 1

(* Where a magic is, it is that of the table.                              *)
MagicsLayout(f) ==
  /\ f \in Seq(Fields) /\ StrAt \in 1 .. Len(f) /\ JmpAt \in 1 .. Len(f) /\ FunAt \in 1 .. Len(f)
  /\ 1 \in 1 .. Len(f)
  /\ \E c : f[c] = Magic("class") /\ MagicsIn(f, {1, StrAt, JmpAt, FunAt, c})

MetaTable == <<Magic("meta")>> \o <<Word(Len(variables))>> \o FileOf(MetaEntry, Len(variables))
StrTable == <<Magic("str")>> \o <<Word(Len(stringtable))>> \o FileOf(StrEntry, Len(stringtable))
JmpTable ==
  <<Magic("jmp")>> \o <<Word(Len(jumptable)), Word(max_mark_index)>>
    \o FileOf(JmpEntry, Len(jumptable))
FunTable == <<Magic("fun")>> \o <<Word(Len(Methods))>> \o FileOf(FunEntry, Len(Methods))
ClassTable == <<Magic("class"), Word(0)>>

LEMMA ContentTables == Content = MetaTable \o StrTable \o JmpTable \o FunTable \o ClassTable
BY DEF Content, Table, MetaTable, StrTable, JmpTable, FunTable, ClassTable

(* Each table by itself.                                                   *)
LEMMA MetaTableIs ==
  ASSUME CompilerTypeOK
  PROVE  /\ MetaTable \in Seq(Fields) /\ Len(MetaTable) = 2 + 2 * Len(variables)
         /\ MagicsIn(MetaTable, {1})
         /\ MetaTable[1] = Magic("meta") /\ MetaTable[2] = Word(Len(variables))
         /\ \A k \in 0 .. Len(variables) - 1 :
              /\ MetaTable[3 + 2 * k] = Word(variables[k + 1].meta_location)
              /\ MetaTable[4 + 2 * k] = Name(variables[k + 1].name)
<1> DEFINE n == Len(variables)
           s == [i \in 1 .. n |-> MetaEntry(i)]
           h == <<Word(n)>>
           b == Prefix(s, n)
<1>1. n \in Nat
  BY DEF CompilerTypeOK
<1>2. \A i \in 1 .. n : /\ s[i] = MetaEntry(i) /\ s[i] \in Seq(Plain) /\ Len(s[i]) = 2
                        /\ s[i][1] = Word(variables[i].meta_location)
                        /\ s[i][2] = Name(variables[i].name)
  BY MetaEntryIs
<1>3. s \in [1 .. n -> Seq(Plain)]
  BY <1>2
<1>4. b = FileOf(MetaEntry, n)
  <2>1. [i \in 1 .. n |-> s[i]] = s
    OBVIOUS
  <2> QED
    BY <2>1, Zenon DEF Prefix, FileOf
<1>5. Word(n) \in Plain
  BY <1>1, FieldTypes
<1>6. h \in Seq(Plain) /\ Len(h) = 1 /\ h[1] = Word(n)
  BY <1>5, Single
<1> HIDE DEF n, s, h
<1>7. Laid(s, Plain, n)
  BY <1>1, <1>3, Layout
<1>8. \A k \in 0 .. n : Len(Prefix(s, k)) = 2 * k
  <2>1. n \in 0 .. n /\ 2 \in {2, 3}
    BY <1>1
  <2>2. \A i \in 1 .. n : Len(s[i]) = 2
    BY <1>2
  <2> QED
    BY <1>1, <1>3, <2>1, <2>2, EqualEntries
<1>9. b \in Seq(Plain) /\ Len(b) = 2 * n
  BY <1>1, <1>7, <1>8 DEF Laid
<1>10. "meta" \in Texts
  BY DEF Texts
<1>11. MetaTable = TableOf("meta", h, b)
  BY <1>4, Zenon DEF MetaTable, TableOf, h, n
<1> HIDE DEF b
<1>12. /\ MetaTable \in Seq(Fields) /\ Len(MetaTable) = 1 + Len(h) + Len(b)
       /\ MetaTable[1] = Magic("meta")
       /\ Part(MetaTable, 1, h) /\ Part(MetaTable, 1 + Len(h), b)
       /\ MagicsIn(MetaTable, {1})
  <2>1. h \in Seq(Plain) /\ b \in Seq(Plain)
    BY <1>6, <1>9
  <2> QED
    BY <1>10, <1>11, <2>1, TableLayout
<1>13. MetaTable[2] = Word(n)
  <2>1. 1 \in 1 .. Len(h) /\ 1 + 1 = 2
    BY <1>6
  <2> QED
    BY <1>6, <1>12, <2>1 DEF Part
<1>14. ASSUME NEW k \in 0 .. n - 1
       PROVE  /\ MetaTable[3 + 2 * k] = Word(variables[k + 1].meta_location)
              /\ MetaTable[4 + 2 * k] = Name(variables[k + 1].name)
  <2>1. k + 1 \in 1 .. n /\ k \in 0 .. n
    BY <1>1
  <2>2. \A j \in 1 .. 2 : b[2 * k + j] = s[k + 1][j]
    <3>1. Len(Prefix(s, k)) = 2 * k /\ Len(s[k + 1]) = 2
      BY <1>2, <1>8, <2>1
    <3>2. \A j \in 1 .. Len(s[k + 1]) :
            Prefix(s, n)[Len(Prefix(s, k)) + j] = s[k + 1][j]
      BY <1>7 DEF Laid
    <3> QED
      BY <3>1, <3>2, Zenon DEF b
  <2>3. 2 * k + 1 \in 1 .. 2 * n /\ 2 * k + 2 \in 1 .. 2 * n
    BY <1>1
  <2>4. /\ (1 + 1) + (2 * k + 1) = 3 + 2 * k
        /\ (1 + 1) + (2 * k + 2) = 4 + 2 * k
    OBVIOUS
  <2>5. MetaTable[(1 + 1) + (2 * k + 1)] = b[2 * k + 1]
    BY <1>6, <1>9, <1>12, <2>3 DEF Part
  <2>6. MetaTable[(1 + 1) + (2 * k + 2)] = b[2 * k + 2]
    BY <1>6, <1>9, <1>12, <2>3 DEF Part
  <2>7. b[2 * k + 1] = s[k + 1][1] /\ b[2 * k + 2] = s[k + 1][2]
    BY <2>2
  <2>8. /\ s[k + 1][1] = Word(variables[k + 1].meta_location)
        /\ s[k + 1][2] = Name(variables[k + 1].name)
    BY <1>2, <2>1
  <2> QED
    BY <2>4, <2>5, <2>6, <2>7, <2>8
<1>15. Len(MetaTable) = 2 + 2 * n
  BY <1>1, <1>6, <1>9, <1>12
<1> QED
  BY <1>12, <1>13, <1>14, <1>15 DEF n

LEMMA StrTableIs ==
  ASSUME CompilerTypeOK
  PROVE  /\ StrTable \in Seq(Fields) /\ Len(StrTable) = 2 + 2 * Len(stringtable)
         /\ MagicsIn(StrTable, {1})
         /\ StrTable[1] = Magic("str") /\ StrTable[2] = Word(Len(stringtable))
         /\ \A k \in 0 .. Len(stringtable) - 1 :
              /\ StrTable[3 + 2 * k] = Word(stringtable[k + 1].index)
              /\ StrTable[4 + 2 * k] = Name(stringtable[k + 1].string)
<1> DEFINE n == Len(stringtable)
           s == [i \in 1 .. n |-> StrEntry(i)]
           h == <<Word(n)>>
           b == Prefix(s, n)
<1>1. n \in Nat
  BY DEF CompilerTypeOK
<1>2. \A i \in 1 .. n : /\ s[i] = StrEntry(i) /\ s[i] \in Seq(Plain) /\ Len(s[i]) = 2
                        /\ s[i][1] = Word(stringtable[i].index)
                        /\ s[i][2] = Name(stringtable[i].string)
  BY StrEntryIs
<1>3. s \in [1 .. n -> Seq(Plain)]
  BY <1>2
<1>4. b = FileOf(StrEntry, n)
  <2>1. [i \in 1 .. n |-> s[i]] = s
    OBVIOUS
  <2> QED
    BY <2>1, Zenon DEF Prefix, FileOf
<1>5. Word(n) \in Plain
  BY <1>1, FieldTypes
<1>6. h \in Seq(Plain) /\ Len(h) = 1 /\ h[1] = Word(n)
  BY <1>5, Single
<1> HIDE DEF n, s, h
<1>7. Laid(s, Plain, n)
  BY <1>1, <1>3, Layout
<1>8. \A k \in 0 .. n : Len(Prefix(s, k)) = 2 * k
  <2>1. n \in 0 .. n /\ 2 \in {2, 3}
    BY <1>1
  <2>2. \A i \in 1 .. n : Len(s[i]) = 2
    BY <1>2
  <2> QED
    BY <1>1, <1>3, <2>1, <2>2, EqualEntries
<1>9. b \in Seq(Plain) /\ Len(b) = 2 * n
  BY <1>1, <1>7, <1>8 DEF Laid
<1>10. "str" \in Texts
  BY DEF Texts
<1>11. StrTable = TableOf("str", h, b)
  BY <1>4, Zenon DEF StrTable, TableOf, h, n
<1> HIDE DEF b
<1>12. /\ StrTable \in Seq(Fields) /\ Len(StrTable) = 1 + Len(h) + Len(b)
       /\ StrTable[1] = Magic("str")
       /\ Part(StrTable, 1, h) /\ Part(StrTable, 1 + Len(h), b)
       /\ MagicsIn(StrTable, {1})
  <2>1. h \in Seq(Plain) /\ b \in Seq(Plain)
    BY <1>6, <1>9
  <2> QED
    BY <1>10, <1>11, <2>1, TableLayout
<1>13. StrTable[2] = Word(n)
  <2>1. 1 \in 1 .. Len(h) /\ 1 + 1 = 2
    BY <1>6
  <2> QED
    BY <1>6, <1>12, <2>1 DEF Part
<1>14. ASSUME NEW k \in 0 .. n - 1
       PROVE  /\ StrTable[3 + 2 * k] = Word(stringtable[k + 1].index)
              /\ StrTable[4 + 2 * k] = Name(stringtable[k + 1].string)
  <2>1. k + 1 \in 1 .. n /\ k \in 0 .. n
    BY <1>1
  <2>2. \A j \in 1 .. 2 : b[2 * k + j] = s[k + 1][j]
    <3>1. Len(Prefix(s, k)) = 2 * k /\ Len(s[k + 1]) = 2
      BY <1>2, <1>8, <2>1
    <3>2. \A j \in 1 .. Len(s[k + 1]) :
            Prefix(s, n)[Len(Prefix(s, k)) + j] = s[k + 1][j]
      BY <1>7 DEF Laid
    <3> QED
      BY <3>1, <3>2, Zenon DEF b
  <2>3. 2 * k + 1 \in 1 .. 2 * n /\ 2 * k + 2 \in 1 .. 2 * n
    BY <1>1
  <2>4. /\ (1 + 1) + (2 * k + 1) = 3 + 2 * k
        /\ (1 + 1) + (2 * k + 2) = 4 + 2 * k
    OBVIOUS
  <2>5. StrTable[(1 + 1) + (2 * k + 1)] = b[2 * k + 1]
    BY <1>6, <1>9, <1>12, <2>3 DEF Part
  <2>6. StrTable[(1 + 1) + (2 * k + 2)] = b[2 * k + 2]
    BY <1>6, <1>9, <1>12, <2>3 DEF Part
  <2>7. b[2 * k + 1] = s[k + 1][1] /\ b[2 * k + 2] = s[k + 1][2]
    BY <2>2
  <2>8. /\ s[k + 1][1] = Word(stringtable[k + 1].index)
        /\ s[k + 1][2] = Name(stringtable[k + 1].string)
    BY <1>2, <2>1
  <2> QED
    BY <2>4, <2>5, <2>6, <2>7, <2>8
<1>15. Len(StrTable) = 2 + 2 * n
  BY <1>1, <1>6, <1>9, <1>12
<1> QED
  BY <1>12, <1>13, <1>14, <1>15 DEF n

LEMMA JmpTableIs ==
  ASSUME CompilerTypeOK
  PROVE  /\ JmpTable \in Seq(Fields)
         /\ Len(JmpTable) = 3 + Len(FileOf(JmpEntry, Len(jumptable)))
         /\ MagicsIn(JmpTable, {1})
         /\ JmpTable[1] = Magic("jmp") /\ JmpTable[2] = Word(Len(jumptable))
         /\ JmpTable[3] = Word(max_mark_index)
         /\ Len(FileOf(JmpEntry, Len(jumptable))) \in Nat
         /\ \A k \in 0 .. Len(jumptable) - 1 :
              LET c == Len(FileOf(JmpEntry, k))
                  type == LabelType(jumptable[k + 1])
              IN  /\ c \in Nat
                  /\ c + Len(JmpEntry(k + 1)) <= Len(FileOf(JmpEntry, Len(jumptable)))
                  /\ Len(FileOf(JmpEntry, k + 1)) = c + Len(JmpEntry(k + 1))
                  /\ \A j \in 1 .. Len(JmpEntry(k + 1)) :
                       JmpTable[3 + c + j] = JmpEntry(k + 1)[j]
<1> DEFINE n == Len(jumptable)
           s == [i \in 1 .. n |-> JmpEntry(i)]
           h == <<Word(n), Word(max_mark_index)>>
           b == Prefix(s, n)
<1>1. n \in Nat /\ max_mark_index \in Nat
  BY DEF CompilerTypeOK
<1>2. \A i \in 1 .. n : s[i] = JmpEntry(i) /\ s[i] \in Seq(Plain)
  BY JmpEntryIs
<1>3. s \in [1 .. n -> Seq(Plain)]
  BY <1>2
<1>4. \A k \in 0 .. n : Prefix(s, k) = FileOf(JmpEntry, k)
  <2> SUFFICES ASSUME NEW k \in 0 .. n
               PROVE  Prefix(s, k) = FileOf(JmpEntry, k)
    OBVIOUS
  <2>1. [i \in 1 .. k |-> s[i]] = [i \in 1 .. k |-> JmpEntry(i)]
    BY <1>1, <1>2
  <2> QED
    BY <2>1, Zenon DEF Prefix, FileOf
<1>5. Word(n) \in Plain /\ Word(max_mark_index) \in Plain
  BY <1>1, FieldTypes
<1>6. /\ h \in Seq(Plain) /\ Len(h) = 2
      /\ h[1] = Word(n) /\ h[2] = Word(max_mark_index)
  BY <1>5, Pair
<1> HIDE DEF n, s, h
<1>7. Laid(s, Plain, n)
  BY <1>1, <1>3, Layout
<1>8. n \in 0 .. n
  BY <1>1
<1>9. b \in Seq(Plain) /\ b = FileOf(JmpEntry, n)
  BY <1>4, <1>7, <1>8 DEF Laid
<1>10. "jmp" \in Texts
  BY DEF Texts
<1>11. JmpTable = TableOf("jmp", h, b)
  BY <1>9, Zenon DEF JmpTable, TableOf, h, n
<1> HIDE DEF b
<1>12. /\ JmpTable \in Seq(Fields) /\ Len(JmpTable) = 1 + Len(h) + Len(b)
       /\ JmpTable[1] = Magic("jmp")
       /\ Part(JmpTable, 1, h) /\ Part(JmpTable, 1 + Len(h), b)
       /\ MagicsIn(JmpTable, {1})
  <2>1. h \in Seq(Plain) /\ b \in Seq(Plain)
    BY <1>6, <1>9
  <2> QED
    BY <1>10, <1>11, <2>1, TableLayout
<1>13. JmpTable[2] = Word(n) /\ JmpTable[3] = Word(max_mark_index)
  <2>1. 1 \in 1 .. Len(h) /\ 2 \in 1 .. Len(h) /\ 1 + 1 = 2 /\ 1 + 2 = 3
    BY <1>6
  <2> QED
    BY <1>6, <1>12, <2>1 DEF Part
<1>14. Len(b) \in Nat
  BY <1>9
<1>15. ASSUME NEW k \in 0 .. n - 1, NEW c, c = Len(FileOf(JmpEntry, k))
       PROVE  /\ c \in Nat
              /\ c + Len(JmpEntry(k + 1)) <= Len(b)
              /\ Len(FileOf(JmpEntry, k + 1)) = c + Len(JmpEntry(k + 1))
              /\ \A j \in 1 .. Len(JmpEntry(k + 1)) :
                   JmpTable[3 + c + j] = JmpEntry(k + 1)[j]
  <2>1. k + 1 \in 1 .. n /\ k \in 0 .. n /\ k + 1 \in 0 .. n
    BY <1>1
  <2>2. s[k + 1] = JmpEntry(k + 1) /\ s[k + 1] \in Seq(Plain)
    BY <1>2, <2>1
  <2>3. /\ Prefix(s, k) \in Seq(Plain)
        /\ Len(Prefix(s, k + 1)) = Len(Prefix(s, k)) + Len(s[k + 1])
        /\ Len(Prefix(s, k + 1)) <= Len(b)
        /\ \A j \in 1 .. Len(s[k + 1]) : b[Len(Prefix(s, k)) + j] = s[k + 1][j]
    BY <1>7 DEF Laid, b
  <2>4. c = Len(Prefix(s, k)) /\ Len(FileOf(JmpEntry, k + 1)) = Len(Prefix(s, k + 1))
    BY <1>4, <1>15, <2>1
  <2>5. c \in Nat /\ Len(JmpEntry(k + 1)) \in Nat
    BY <2>2, <2>3, <2>4
  <2>6. c + Len(JmpEntry(k + 1)) <= Len(b)
    BY <2>2, <2>3, <2>4
  <2>7. ASSUME NEW j \in 1 .. Len(JmpEntry(k + 1))
        PROVE  JmpTable[3 + c + j] = JmpEntry(k + 1)[j]
    <3>1. c + j \in 1 .. Len(b)
      BY <1>14, <2>5, <2>6
    <3>2. JmpTable[(1 + 2) + (c + j)] = b[c + j]
      BY <1>6, <1>12, <3>1 DEF Part
    <3>3. (1 + 2) + (c + j) = 3 + c + j
      BY <2>5
    <3>4. b[c + j] = JmpEntry(k + 1)[j]
      BY <2>2, <2>3, <2>4
    <3> QED
      BY <3>2, <3>3, <3>4
  <2> QED
    BY <2>2, <2>3, <2>4, <2>5, <2>6, <2>7
<1>16. Len(JmpTable) = 3 + Len(b)
  BY <1>6, <1>12, <1>14
<1> QED
  BY <1>9, <1>12, <1>13, <1>14, <1>15, <1>16 DEF n

LEMMA FunTableIs ==
  ASSUME CompilerTypeOK, AllCompiled
  PROVE  /\ FunTable \in Seq(Fields)
         /\ MagicsIn(FunTable, {1})
         /\ FunTable[1] = Magic("fun") /\ FunTable[2] = Word(Len(Methods))
         /\ Len(FunTable) >= 2
         /\ \A k \in 0 .. Len(Methods) - 1 :
              InPlace(k + 1) =>
                /\ 2 + 3 * k + Len(FunEntry(k + 1)) <= Len(FunTable)
                /\ \A j \in 1 .. Len(FunEntry(k + 1)) :
                     FunTable[2 + 3 * k + j] = FunEntry(k + 1)[j]
         /\ \A p \in 3 .. Len(FunTable) :
              FunTable[p].size = "word" => p + 2 <= Len(FunTable)
<1> DEFINE n == Len(Methods)
           s == [i \in 1 .. n |-> FunEntry(i)]
           h == <<Word(n)>>
           b == Prefix(s, n)
<1>1. n \in Nat
  BY MethodTypes
<1>2. \A i \in 1 .. n : /\ s[i] = FunEntry(i) /\ s[i] \in Seq(Plain)
                        /\ Framed(s[i])
                        /\ ParentCalls(Methods[i].name) = {} =>
                             Len(s[i]) = 3 + Methods[i].pars
  BY FunEntryIs
<1>3. s \in [1 .. n -> Seq(Plain)]
  BY <1>2
<1>4. b = FileOf(FunEntry, n)
  <2>1. [i \in 1 .. n |-> s[i]] = s
    OBVIOUS
  <2> QED
    BY <2>1, Zenon DEF Prefix, FileOf
<1>5. Word(n) \in Plain
  BY <1>1, FieldTypes
<1>6. h \in Seq(Plain) /\ Len(h) = 1 /\ h[1] = Word(n)
  BY <1>5, Single
<1> HIDE DEF n, s, h
<1>7. Laid(s, Plain, n)
  BY <1>1, <1>3, Layout
<1>8. ASSUME NEW k \in 0 .. n, InPlace(k + 1)
      PROVE  Len(Prefix(s, k)) = 3 * k
  <2>1. k \in 0 .. n /\ 3 \in {2, 3}
    BY <1>1
  <2>2. ASSUME NEW i \in 1 .. k
        PROVE  Len(s[i]) = 3
    <3>1. i \in 1 .. n /\ i \in 1 .. (k + 1) - 1
      BY <1>1
    <3>2. Methods[i].pars = 0 /\ ParentCalls(Methods[i].name) = {}
      BY <1>8, <3>1 DEF InPlace
    <3>3. Len(s[i]) = 3 + Methods[i].pars
      BY <1>2, <3>1, <3>2
    <3> QED
      BY <3>2, <3>3
  <2>3. k \in 0 .. k
    BY <1>1
  <2> QED
    BY <1>1, <1>3, <2>1, <2>2, <2>3, EqualEntries
<1>9. b \in Seq(Plain)
  BY <1>1, <1>7 DEF Laid
<1>10. "fun" \in Texts
  BY DEF Texts
<1>11. FunTable = TableOf("fun", h, b)
  BY <1>4, Zenon DEF FunTable, TableOf, h, n
<1>12. Framed(b)
  BY <1>1, <1>2, <1>3, FramedPrefix
<1> HIDE DEF b
<1>14. /\ FunTable \in Seq(Fields) /\ Len(FunTable) = 1 + Len(h) + Len(b)
       /\ FunTable[1] = Magic("fun")
       /\ Part(FunTable, 1, h) /\ Part(FunTable, 1 + Len(h), b)
       /\ MagicsIn(FunTable, {1})
  <2>1. h \in Seq(Plain) /\ b \in Seq(Plain)
    BY <1>6, <1>9
  <2> QED
    BY <1>10, <1>11, <2>1, TableLayout
<1>15. FunTable[2] = Word(n)
  <2>1. 1 \in 1 .. Len(h) /\ 1 + 1 = 2
    BY <1>6
  <2> QED
    BY <1>6, <1>14, <2>1 DEF Part
<1>16. Len(b) \in Nat
  BY <1>9
<1>17. Len(FunTable) = 2 + Len(b)
  BY <1>6, <1>14, <1>16
<1>18. ASSUME NEW k \in 0 .. n - 1, InPlace(k + 1)
       PROVE  /\ 2 + 3 * k + Len(FunEntry(k + 1)) <= Len(FunTable)
              /\ \A j \in 1 .. Len(FunEntry(k + 1)) :
                   FunTable[2 + 3 * k + j] = FunEntry(k + 1)[j]
  <2>1. k + 1 \in 1 .. n /\ k \in 0 .. n /\ k \in Nat
    BY <1>1
  <2>2. s[k + 1] = FunEntry(k + 1) /\ s[k + 1] \in Seq(Plain)
    BY <1>2, <2>1
  <2>3. /\ Len(Prefix(s, k + 1)) = Len(Prefix(s, k)) + Len(s[k + 1])
        /\ Len(Prefix(s, k + 1)) <= Len(b)
        /\ \A j \in 1 .. Len(s[k + 1]) : b[Len(Prefix(s, k)) + j] = s[k + 1][j]
    BY <1>7 DEF Laid, b
  <2>4. Len(Prefix(s, k)) = 3 * k
    BY <1>8, <1>18, <2>1
  <2>5. Len(FunEntry(k + 1)) \in Nat
    BY <2>2
  <2>6. 3 * k + Len(FunEntry(k + 1)) <= Len(b)
    BY <2>2, <2>3, <2>4
  <2>7. ASSUME NEW j \in 1 .. Len(FunEntry(k + 1))
        PROVE  FunTable[2 + 3 * k + j] = FunEntry(k + 1)[j]
    <3>1. 3 * k + j \in 1 .. Len(b)
      BY <1>16, <2>1, <2>5, <2>6
    <3>2. FunTable[(1 + 1) + (3 * k + j)] = b[3 * k + j]
      BY <1>6, <1>14, <3>1 DEF Part
    <3>3. (1 + 1) + (3 * k + j) = 2 + 3 * k + j
      BY <2>1
    <3>4. b[3 * k + j] = FunEntry(k + 1)[j]
      BY <2>2, <2>3, <2>4
    <3> QED
      BY <3>2, <3>3, <3>4
  <2>8. 2 + 3 * k + Len(FunEntry(k + 1)) <= Len(FunTable)
    BY <1>16, <1>17, <2>1, <2>5, <2>6
  <2> QED
    BY <2>7, <2>8
<1>19. ASSUME NEW p \in 3 .. Len(FunTable), FunTable[p].size = "word"
       PROVE  p + 2 <= Len(FunTable)
  <2>1. PICK q : q = p - 2
    OBVIOUS
  <2>2. q \in 1 .. Len(b) /\ p = 2 + q
    BY <1>16, <1>17, <2>1
  <2>3. FunTable[(1 + 1) + q] = b[q]
    BY <1>6, <1>14, <2>2 DEF Part
  <2>4. b[q].size = "word"
    <3>1. (1 + 1) + q = p
      BY <2>2
    <3> QED
      BY <1>19, <2>3, <3>1
  <2>5. q + 2 <= Len(b)
    BY <1>12, <2>2, <2>4 DEF Framed
  <2> QED
    BY <1>16, <1>17, <2>2, <2>5
<1>20. Len(FunTable) >= 2
  BY <1>16, <1>17
<1> QED
  BY <1>14, <1>15, <1>18, <1>19, <1>20 DEF n

LEMMA ClassTableIs ==
  /\ ClassTable \in Seq(Fields) /\ Len(ClassTable) = 2
  /\ MagicsIn(ClassTable, {1})
  /\ ClassTable[1] = Magic("class")
<1>1. PICK x : x = Magic("class")
  OBVIOUS
<1>2. PICK y : y = Word(0)
  OBVIOUS
<1>3. x \in Fields
  BY <1>1 DEF Magic, Fields, Texts
<1>4. y \in Fields /\ y.size # "magic"
  <2>1. 0 \in Int
    OBVIOUS
  <2>2. Word(0) \in Plain
    BY <2>1, FieldTypes
  <2> QED
    BY <1>2, <2>2 DEF Plain
<1>5. /\ <<x, y>> \in Seq(Fields) /\ Len(<<x, y>>) = 2
      /\ <<x, y>>[1] = x /\ <<x, y>>[2] = y
  BY <1>3, <1>4, Pair
<1> DEFINE p == <<x, y>>
<1>6. p = ClassTable
  BY <1>1, <1>2, Zenon DEF ClassTable
<1> HIDE DEF p
<1>7. p \in Seq(Fields) /\ Len(p) = 2 /\ p[1] = x /\ p[2] = y
  BY <1>5 DEF p
<1>8. MagicsIn(p, {1})
  BY <1>4, <1>7 DEF MagicsIn
<1> QED
  BY <1>1, <1>6, <1>7, <1>8, Zenon

(* All tables together.                                                    *)
LEMMA PartAt ==
  ASSUME NEW f, NEW n \in Nat, NEW p \in Seq(Fields), Part(f, n, p),
         NEW j \in 1 .. Len(p)
  PROVE  f[n + j] = p[j]
BY DEF Part

LEMMA ContentLayout ==
  ASSUME CompilerTypeOK, AllCompiled
  PROVE  /\ MetaLayout(Content) /\ StrLayout(Content) /\ JmpLayout(Content)
         /\ FunLayout(Content) /\ MagicsLayout(Content)
<1> DEFINE f == Content
           a == MetaTable
           b == StrTable
           c == JmpTable
           d == FunTable
           e == ClassTable
           nv == Len(variables)
           ns == Len(stringtable)
           nj == Len(jumptable)
           nm == Len(Methods)
           lj == Len(FileOf(JmpEntry, nj))
<1>0. nv \in Nat /\ ns \in Nat /\ nj \in Nat /\ nm \in Nat /\ max_mark_index \in Nat
  BY MethodTypes DEF CompilerTypeOK
<1>1. /\ a \in Seq(Fields) /\ Len(a) = 2 + 2 * nv /\ MagicsIn(a, {1})
      /\ a[1] = Magic("meta") /\ a[2] = Word(nv)
      /\ \A k \in 0 .. nv - 1 : /\ a[3 + 2 * k] = Word(variables[k + 1].meta_location)
                                /\ a[4 + 2 * k] = Name(variables[k + 1].name)
  BY MetaTableIs
<1>2. /\ b \in Seq(Fields) /\ Len(b) = 2 + 2 * ns /\ MagicsIn(b, {1})
      /\ b[1] = Magic("str") /\ b[2] = Word(ns)
      /\ \A k \in 0 .. ns - 1 : /\ b[3 + 2 * k] = Word(stringtable[k + 1].index)
                                /\ b[4 + 2 * k] = Name(stringtable[k + 1].string)
  BY StrTableIs
<1>3. /\ c \in Seq(Fields) /\ Len(c) = 3 + lj /\ MagicsIn(c, {1}) /\ lj \in Nat
      /\ c[1] = Magic("jmp") /\ c[2] = Word(nj) /\ c[3] = Word(max_mark_index)
      /\ \A k \in 0 .. nj - 1 :
           LET l == Len(FileOf(JmpEntry, k))
           IN  /\ l \in Nat
               /\ l + Len(JmpEntry(k + 1)) <= lj
               /\ Len(FileOf(JmpEntry, k + 1)) = l + Len(JmpEntry(k + 1))
               /\ \A j \in 1 .. Len(JmpEntry(k + 1)) : c[3 + l + j] = JmpEntry(k + 1)[j]
  BY JmpTableIs
<1>4. /\ d \in Seq(Fields) /\ MagicsIn(d, {1})
      /\ d[1] = Magic("fun") /\ d[2] = Word(nm) /\ Len(d) >= 2
      /\ \A k \in 0 .. nm - 1 :
           InPlace(k + 1) =>
             /\ 2 + 3 * k + Len(FunEntry(k + 1)) <= Len(d)
             /\ \A j \in 1 .. Len(FunEntry(k + 1)) : d[2 + 3 * k + j] = FunEntry(k + 1)[j]
      /\ \A p \in 3 .. Len(d) : d[p].size = "word" => p + 2 <= Len(d)
  BY FunTableIs
<1>5. /\ e \in Seq(Fields) /\ Len(e) = 2 /\ MagicsIn(e, {1}) /\ e[1] = Magic("class")
  BY ClassTableIs
<1>6. f = a \o b \o c \o d \o e
  BY ContentTables
<1>7. \A v : Word(v).value = v
  BY DEF Word
<1> HIDE DEF f, a, b, c, d, e, nv, ns, nj, nm, lj
<1>8. /\ f \in Seq(Fields)
      /\ Part(f, 0, a)
      /\ Part(f, Len(a), b)
      /\ Part(f, Len(a) + Len(b), c)
      /\ Part(f, Len(a) + Len(b) + Len(c), d)
      /\ Part(f, Len(a) + Len(b) + Len(c) + Len(d), e)
      /\ MagicsIn(f, {1, Len(a) + 1, Len(a) + Len(b) + 1, Len(a) + Len(b) + Len(c) + 1,
                      Len(a) + Len(b) + Len(c) + Len(d) + 1})
  <2>1. a \in Seq(Fields) /\ MagicsIn(a, {1})
    BY <1>1, Zenon
  <2>2. b \in Seq(Fields) /\ MagicsIn(b, {1})
    BY <1>2, Zenon
  <2>3. c \in Seq(Fields) /\ MagicsIn(c, {1})
    BY <1>3, Zenon
  <2>4. d \in Seq(Fields) /\ MagicsIn(d, {1})
    BY <1>4, Zenon
  <2>5. e \in Seq(Fields) /\ MagicsIn(e, {1})
    BY <1>5, Zenon
  <2> QED
    BY <1>6, <2>1, <2>2, <2>3, <2>4, <2>5, FiveTables, ZenonT(40)
<1>9. /\ Len(a) \in Nat /\ Len(a) + Len(b) \in Nat /\ Len(a) + Len(b) + Len(c) \in Nat
      /\ Len(d) \in Nat
      /\ StrAt = Len(a) + 1
      /\ JmpAt = Len(a) + Len(b) + 1
      /\ FunAt = Len(a) + Len(b) + Len(c) + 1
  <2>1. StrAt = 3 + 2 * nv /\ JmpAt = StrAt + 2 + 2 * ns /\ FunAt = JmpAt + 3 + lj
    BY Zenon DEF StrAt, JmpAt, FunAt, nv, ns, nj, lj
  <2>2. Len(a) = 2 + 2 * nv /\ Len(b) = 2 + 2 * ns /\ Len(c) = 3 + lj /\ lj \in Nat
    BY <1>1, <1>2, <1>3
  <2>3. Len(d) \in Nat
    BY <1>4
  <2> QED
    BY <1>0, <2>1, <2>2, <2>3
<1>10. MetaLayout(f)
  <2>1. \A j \in 1 .. Len(a) : f[0 + j] = a[j]
    BY <1>8 DEF Part
  <2>2. 1 \in 1 .. Len(a) /\ 2 \in 1 .. Len(a)
    BY <1>0, <1>1
  <2>3. f[1] = Magic("meta") /\ f[2] = Word(nv)
    <3>1. 0 + 1 = 1 /\ 0 + 2 = 2
      OBVIOUS
    <3> QED
      BY <1>1, <2>1, <2>2, <3>1, Zenon
  <2>4. ASSUME NEW k \in 0 .. nv - 1
        PROVE  /\ f[3 + 2 * k] = Word(variables[k + 1].meta_location)
               /\ f[3 + 2 * k + 1] = Name(variables[k + 1].name)
    <3>1. 3 + 2 * k \in 1 .. Len(a) /\ 4 + 2 * k \in 1 .. Len(a)
      BY <1>0, <1>1
    <3>2. 0 + (3 + 2 * k) = 3 + 2 * k /\ 0 + (4 + 2 * k) = 3 + 2 * k + 1
      OBVIOUS
    <3>3. f[0 + (3 + 2 * k)] = a[3 + 2 * k] /\ f[0 + (4 + 2 * k)] = a[4 + 2 * k]
      BY <2>1, <3>1
    <3> QED
      BY <1>1, <3>2, <3>3
  <2> QED
    BY <1>7, <2>3, <2>4 DEF MetaLayout, nv
<1>11. StrLayout(f)
  <2>1. \A j \in 1 .. Len(b) : f[Len(a) + j] = b[j]
    BY <1>8 DEF Part
  <2>2. 1 \in 1 .. Len(b) /\ 2 \in 1 .. Len(b)
    BY <1>0, <1>2
  <2>3. f[StrAt] = Magic("str") /\ f[StrAt + 1] = Word(ns)
    <3>1. Len(a) + 1 = StrAt /\ Len(a) + 2 = StrAt + 1
      BY <1>9
    <3> QED
      BY <1>2, <2>1, <2>2, <3>1, Zenon
  <2>4. ASSUME NEW k \in 0 .. ns - 1
        PROVE  /\ f[StrAt + 2 + 2 * k] = Word(stringtable[k + 1].index)
               /\ f[StrAt + 2 + 2 * k + 1] = Name(stringtable[k + 1].string)
    <3>1. 3 + 2 * k \in 1 .. Len(b) /\ 4 + 2 * k \in 1 .. Len(b)
      BY <1>0, <1>2
    <3>2. Len(a) + (3 + 2 * k) = StrAt + 2 + 2 * k /\ Len(a) + (4 + 2 * k) = StrAt + 2 + 2 * k + 1
      BY <1>9
    <3>3. f[Len(a) + (3 + 2 * k)] = b[3 + 2 * k] /\ f[Len(a) + (4 + 2 * k)] = b[4 + 2 * k]
      BY <2>1, <3>1
    <3> QED
      BY <1>2, <3>2, <3>3
  <2> QED
    BY <1>7, <2>3, <2>4 DEF StrLayout, ns
<1>12. JmpLayout(f)
  <2> DEFINE n == Len(a) + Len(b)
  <2>0. n \in Nat /\ JmpAt = n + 1
    BY <1>9
  <2>1. \A j \in 1 .. Len(c) : f[n + j] = c[j]
    BY <1>8 DEF Part
  <2> HIDE DEF n
  <2>2. 1 \in 1 .. Len(c) /\ 2 \in 1 .. Len(c) /\ 3 \in 1 .. Len(c)
    BY <1>3
  <2>3. f[JmpAt] = Magic("jmp") /\ f[JmpAt + 1] = Word(nj) /\ f[JmpAt + 2] = Word(max_mark_index)
    <3>1. n + 1 = JmpAt /\ n + 2 = JmpAt + 1 /\ n + 3 = JmpAt + 2
      BY <2>0
    <3> QED
      BY <1>3, <2>1, <2>2, <3>1, Zenon
  <2>4. ASSUME NEW k \in 0 .. nj - 1, NEW l, l = Len(FileOf(JmpEntry, k)),
               NEW type, type = LabelType(jumptable[k + 1])
        PROVE  /\ f[JmpAt + 3 + l] = Word(jumptable[k + 1].location)
               /\ f[JmpAt + 3 + l + 1] = Byte(type)
               /\ type # General => f[JmpAt + 3 + l + 2] = Name(jumptable[k + 1].name)
               /\ JmpAt + 3 + Len(FileOf(JmpEntry, k + 1))
                    = JmpAt + 3 + l + (IF type = General THEN 2 ELSE 3)
               /\ l \in Nat
    <3>1. /\ l \in Nat
          /\ l + Len(JmpEntry(k + 1)) <= lj
          /\ Len(FileOf(JmpEntry, k + 1)) = l + Len(JmpEntry(k + 1))
          /\ \A j \in 1 .. Len(JmpEntry(k + 1)) : c[3 + l + j] = JmpEntry(k + 1)[j]
      BY <1>3, <2>4
    <3>2. k + 1 \in 1 .. Len(jumptable)
      BY <1>0 DEF nj
    <3>3. /\ Len(JmpEntry(k + 1)) = IF type = General THEN 2 ELSE 3
          /\ JmpEntry(k + 1)[1] = Word(jumptable[k + 1].location)
          /\ JmpEntry(k + 1)[2] = Byte(type)
          /\ type # General => JmpEntry(k + 1)[3] = Name(jumptable[k + 1].name)
      BY <2>4, <3>2, JmpEntryIs
    <3>4. ASSUME NEW j \in 1 .. Len(JmpEntry(k + 1))
          PROVE  f[JmpAt + 3 + l + (j - 1)] = JmpEntry(k + 1)[j]
      <4>1. 3 + l + j \in 1 .. Len(c)
        BY <1>3, <3>1, <3>3
      <4>2. f[n + (3 + l + j)] = c[3 + l + j]
        BY <2>1, <4>1
      <4>3. n + (3 + l + j) = JmpAt + 3 + l + (j - 1)
        BY <2>0, <3>1
      <4> QED
        BY <3>1, <4>2, <4>3
    <3>5. JmpAt \in Int
      BY <2>0
    <3>6. JmpAt + 3 + l + (1 - 1) = JmpAt + 3 + l /\ 2 - 1 = 1 /\ 3 - 1 = 2
      BY <3>1, <3>5
    <3>7. f[JmpAt + 3 + l] = JmpEntry(k + 1)[1] /\ f[JmpAt + 3 + l + 1] = JmpEntry(k + 1)[2]
      <4>1. 1 \in 1 .. Len(JmpEntry(k + 1)) /\ 2 \in 1 .. Len(JmpEntry(k + 1))
        BY <3>3
      <4>2. /\ f[JmpAt + 3 + l + (1 - 1)] = JmpEntry(k + 1)[1]
            /\ f[JmpAt + 3 + l + (2 - 1)] = JmpEntry(k + 1)[2]
        BY <3>4, <4>1
      <4> QED
        BY <3>6, <4>2, Zenon
    <3>8. type # General => f[JmpAt + 3 + l + 2] = JmpEntry(k + 1)[3]
      <4> SUFFICES ASSUME type # General
                   PROVE  f[JmpAt + 3 + l + 2] = JmpEntry(k + 1)[3]
        OBVIOUS
      <4>1. 3 \in 1 .. Len(JmpEntry(k + 1))
        BY <3>3
      <4>2. f[JmpAt + 3 + l + (3 - 1)] = JmpEntry(k + 1)[3]
        BY <3>4, <4>1
      <4> QED
        BY <3>6, <4>2, Zenon
    <3>9. JmpAt + 3 + Len(FileOf(JmpEntry, k + 1))
            = JmpAt + 3 + l + (IF type = General THEN 2 ELSE 3)
      <4>1. PICK w : w = IF type = General THEN 2 ELSE 3
        OBVIOUS
      <4>2. w \in Nat
        BY <4>1
      <4>3. Len(FileOf(JmpEntry, k + 1)) = l + w
        BY <3>1, <3>3, <4>1
      <4>4. JmpAt + 3 + (l + w) = JmpAt + 3 + l + w
        BY <3>1, <3>5, <4>2
      <4> QED
        BY <4>1, <4>3, <4>4
    <3> QED
      BY <3>1, <3>3, <3>7, <3>8, <3>9
  <2> QED
    BY <1>7, <2>3, <2>4 DEF JmpLayout, nj
<1>13. FunLayout(f)
  <2> DEFINE n == Len(a) + Len(b) + Len(c)
  <2>0. n \in Nat /\ FunAt = n + 1
    BY <1>9
  <2>1. \A j \in 1 .. Len(d) : f[n + j] = d[j]
    BY <1>8 DEF Part
  <2>2. \A j \in 1 .. Len(e) : f[n + Len(d) + j] = e[j]
    BY <1>8 DEF Part
  <2> HIDE DEF n
  <2>3. 1 \in 1 .. Len(d) /\ 2 \in 1 .. Len(d)
    BY <1>4, <1>9
  <2>4. f[FunAt] = Magic("fun") /\ f[FunAt + 1] = Word(nm)
    <3>1. n + 1 = FunAt /\ n + 2 = FunAt + 1
      BY <2>0
    <3> QED
      BY <1>4, <2>1, <2>3, <3>1, Zenon
  <2>5. ASSUME NEW k \in 0 .. nm - 1, InPlace(k + 1), NEW p, p = FunAt + 2 + 3 * k
        PROVE  /\ f[p].size = "word"
               /\ OwnFirst(Methods[k + 1].name) =>
                    /\ f[p] = Word(FindLabel(Methods[k + 1].name) - 1)
                    /\ f[p + 1] = Name(Methods[k + 1].name)
                    /\ f[p + 2] = Byte(Methods[k + 1].pars)
    <3>1. k + 1 \in 1 .. Len(Methods)
      BY <1>0 DEF nm
    <3>2. /\ FunEntry(k + 1) \in Seq(Plain) /\ Len(FunEntry(k + 1)) >= 3
          /\ Framed(FunEntry(k + 1))
          /\ OwnFirst(Methods[k + 1].name) =>
               /\ FunEntry(k + 1)[1] = Word(FindLabel(Methods[k + 1].name) - 1)
               /\ FunEntry(k + 1)[2] = Name(Methods[k + 1].name)
               /\ FunEntry(k + 1)[3] = Byte(Methods[k + 1].pars)
      BY <3>1, FunEntryIs
    <3>3. Len(FunEntry(k + 1)) \in Nat
      BY <3>2
    <3>4. /\ 2 + 3 * k + Len(FunEntry(k + 1)) <= Len(d)
          /\ \A j \in 1 .. Len(FunEntry(k + 1)) : d[2 + 3 * k + j] = FunEntry(k + 1)[j]
      BY <1>4, <2>5
    <3>5. ASSUME NEW j \in 1 .. Len(FunEntry(k + 1))
          PROVE  f[p + (j - 1)] = FunEntry(k + 1)[j]
      <4>1. 2 + 3 * k + j \in 1 .. Len(d)
        <5>1. Len(FunEntry(k + 1)) \in Nat
          BY <3>2, <3>3
        <5>2. Len(d) \in Nat
          BY <1>9
        <5>3. 2 + 3 * k + Len(FunEntry(k + 1)) <= Len(d)
          BY <3>4
        <5>4. j \in 1 .. Len(FunEntry(k + 1)) /\ k \in Nat
          BY <1>0
        <5> QED
          BY <5>1, <5>2, <5>3, <5>4
      <4>2. f[n + (2 + 3 * k + j)] = d[2 + 3 * k + j]
        BY <2>1, <4>1
      <4>3. n + (2 + 3 * k + j) = p + (j - 1)
        BY <2>0, <2>5
      <4> QED
        BY <3>4, <4>2, <4>3
    <3>6. p + (1 - 1) = p /\ 2 - 1 = 1 /\ 3 - 1 = 2
      BY <2>0, <2>5
    <3>7. /\ 1 \in 1 .. Len(FunEntry(k + 1)) /\ 2 \in 1 .. Len(FunEntry(k + 1))
          /\ 3 \in 1 .. Len(FunEntry(k + 1))
      BY <3>2, <3>3
    <3>8. /\ f[p + (1 - 1)] = FunEntry(k + 1)[1] /\ f[p + (2 - 1)] = FunEntry(k + 1)[2]
          /\ f[p + (3 - 1)] = FunEntry(k + 1)[3]
      BY <3>5, <3>7
    <3>9. f[p] = FunEntry(k + 1)[1] /\ f[p + 1] = FunEntry(k + 1)[2]
          /\ f[p + 2] = FunEntry(k + 1)[3]
      BY <3>6, <3>8, Zenon
    <3>10. FunEntry(k + 1)[1].size = "word"
      BY <3>2, <3>3 DEF Framed
    <3> QED
      BY <3>2, <3>9, <3>10, Zenon
  <2>6. Len(f) = n + Len(d) + 2 /\ Len(d) \in Nat
    <3>1. Len(f) = Len(a) + Len(b) + Len(c) + Len(d) + Len(e)
      <4>1. /\ a \in Seq(Fields) /\ b \in Seq(Fields) /\ c \in Seq(Fields)
            /\ d \in Seq(Fields) /\ e \in Seq(Fields)
        BY <1>1, <1>2, <1>3, <1>4, <1>5, Zenon
      <4>2. Len(a \o b \o c \o d \o e) = Len(a) + Len(b) + Len(c) + Len(d) + Len(e)
        BY <4>1, FiveLengths
      <4> QED
        BY <1>6, <4>2, Zenon
    <3> QED
      BY <1>5, <1>9, <3>1 DEF n
  <2>7. FunAt \in Nat /\ FunAt + 2 \in 1 .. Len(f) - 1
    BY <1>4, <2>0, <2>6
  <2>8. ASSUME NEW p \in FunAt + 2 .. Len(f) - 1, f[p].size = "word"
        PROVE  p + 3 <= Len(f) - 1
    <3>1. PICK q : q = p - n
      OBVIOUS
    <3>2. q \in 3 .. Len(d) + 1 /\ p = n + q
      BY <2>0, <2>6, <3>1
    <3>3. q # Len(d) + 1
      <4> SUFFICES ASSUME q = Len(d) + 1
                   PROVE  FALSE
        OBVIOUS
      <4>1. 1 \in 1 .. Len(e)
        BY <1>5
      <4>2. f[n + Len(d) + 1] = Magic("class")
        BY <1>5, <2>2, <4>1
      <4>3. n + Len(d) + 1 = p
        BY <2>0, <2>6, <3>2
      <4> QED
        BY <2>8, <4>2, <4>3 DEF Magic
    <3>4. q \in 3 .. Len(d) /\ q \in 1 .. Len(d)
      BY <2>6, <3>2, <3>3
    <3>5. d[q].size = "word"
      BY <2>1, <2>8, <3>2, <3>4
    <3>6. q + 2 <= Len(d)
      BY <1>4, <3>4, <3>5
    <3> QED
      BY <2>0, <2>6, <3>2, <3>6
  <2> QED
    BY <1>7, <2>4, <2>5, <2>7, <2>8 DEF FunLayout, nm
<1>14. MagicsLayout(f)
  <2> DEFINE p == Len(a) + Len(b) + Len(c) + Len(d) + 1
  <2>1. f[p] = Magic("class")
    <3>1. 1 \in 1 .. Len(e)
      BY <1>5
    <3> QED
      BY <1>5, <1>8, <3>1 DEF Part
  <2>2. {1, Len(a) + 1, Len(a) + Len(b) + 1, Len(a) + Len(b) + Len(c) + 1, p}
          = {1, StrAt, JmpAt, FunAt, p}
    BY <1>9
  <2>3. MagicsIn(f, {1, StrAt, JmpAt, FunAt, p})
    BY <1>8, <2>2
  <2>4. Len(a) + Len(b) + Len(c) + Len(d) + Len(e) <= Len(f) /\ Len(f) \in Nat
    BY <1>8 DEF Part
  <2>5. /\ StrAt \in 1 .. Len(f) /\ JmpAt \in 1 .. Len(f)
        /\ FunAt \in 1 .. Len(f) /\ 1 \in 1 .. Len(f)
    <3>1. /\ Len(a) >= 2 /\ Len(b) >= 2 /\ Len(c) >= 2 /\ Len(d) >= 2 /\ Len(e) = 2
          /\ Len(b) \in Nat /\ Len(c) \in Nat /\ Len(e) \in Nat
      BY <1>0, <1>1, <1>2, <1>3, <1>4, <1>5
    <3> QED
      BY <1>9, <2>4, <3>1
  <2> QED
    BY <1>8, <2>1, <2>3, <2>5 DEF MagicsLayout
<1> QED
  BY <1>10, <1>11, <1>12, <1>13, <1>14 DEF f

(* The loader finds each table.                                            *)
LEMMA Locations ==
  ASSUME CompilerTypeOK, AllCompiled, file = Content
  PROVE  /\ Location("meta") = 1 /\ Location("str") = StrAt
         /\ Location("jmp") = JmpAt /\ Location("fun") = FunAt
<1>1. /\ MetaLayout(file) /\ StrLayout(file) /\ JmpLayout(file)
      /\ FunLayout(file) /\ MagicsLayout(file)
  BY ContentLayout
<1>2. PICK c : file[c] = Magic("class") /\ MagicsIn(file, {1, StrAt, JmpAt, FunAt, c})
  BY <1>1 DEF MagicsLayout
<1>3. /\ file[1] = Magic("meta") /\ file[StrAt] = Magic("str")
      /\ file[JmpAt] = Magic("jmp") /\ file[FunAt] = Magic("fun")
  BY <1>1 DEF MetaLayout, StrLayout, JmpLayout, FunLayout
<1>4. \A s, t : Magic(s) = Magic(t) => s = t
  BY DEF Magic
<1>5. \A s : Magic(s).size = "magic"
  BY DEF Magic
<1>6. \A t : \A i \in 1 .. Len(file) :
        file[i] = Magic(t) => i \in {1, StrAt, JmpAt, FunAt, c}
  BY <1>2, <1>5 DEF MagicsIn
<1>7. /\ 1 \in 1 .. Len(file) /\ StrAt \in 1 .. Len(file)
      /\ JmpAt \in 1 .. Len(file) /\ FunAt \in 1 .. Len(file)
  BY <1>1 DEF MagicsLayout
<1>8. /\ \A i \in 1 .. Len(file) : file[i] = Magic("meta") => i = 1
      /\ \A i \in 1 .. Len(file) : file[i] = Magic("str") => i = StrAt
      /\ \A i \in 1 .. Len(file) : file[i] = Magic("jmp") => i = JmpAt
      /\ \A i \in 1 .. Len(file) : file[i] = Magic("fun") => i = FunAt
  <2>1. /\ Magic("meta") # Magic("str") /\ Magic("meta") # Magic("jmp")
        /\ Magic("meta") # Magic("fun") /\ Magic("meta") # Magic("class")
        /\ Magic("str") # Magic("jmp") /\ Magic("str") # Magic("fun")
        /\ Magic("str") # Magic("class") /\ Magic("jmp") # Magic("fun")
        /\ Magic("jmp") # Magic("class") /\ Magic("fun") # Magic("class")
    BY <1>4
  <2> QED
    BY <1>2, <1>3, <1>6, <2>1
<1> QED
  BY <1>3, <1>7, <1>8 DEF Location

-----------------------------------------------------------------------------
(* The loader.                                                             *)
LEMMA FileLayout ==
  ASSUME IInv, status \in InVm
  PROVE  /\ MetaLayout(file) /\ StrLayout(file) /\ JmpLayout(file)
         /\ FunLayout(file) /\ MagicsLayout(file)
         /\ Location("meta") = 1 /\ Location("str") = StrAt
         /\ Location("jmp") = JmpAt /\ Location("fun") = FunAt
<1>1. CompilerTypeOK /\ AllCompiled /\ file = Content
  BY DEF IInv, TypeOK, FileInv, AllCompiled
<1> QED
  BY <1>1, ContentLayout, Locations

LEMMA CountTypes ==
  ASSUME CompilerTypeOK
  PROVE  /\ Len(variables) \in Nat /\ Len(stringtable) \in Nat /\ Len(jumptable) \in Nat
         /\ StrAt \in Nat /\ JmpAt \in Nat
<1>1. Len(variables) \in Nat /\ Len(stringtable) \in Nat /\ Len(jumptable) \in Nat
  BY DEF CompilerTypeOK
<1> QED
  BY <1>1 DEF StrAt, JmpAt

LEMMA CompilerStays ==
  ASSUME UNCHANGED compilerVars
  PROVE  /\ CompilerTypeOK => CompilerTypeOK'
         /\ CompilerInv => CompilerInv'
         /\ Content' = Content
         /\ StrAt' = StrAt /\ JmpAt' = JmpAt /\ FunAt' = FunAt
         /\ \A k : FileOf(JmpEntry, k)' = FileOf(JmpEntry, k)
<1>0. /\ code' = code /\ jumptable' = jumptable /\ stringtable' = stringtable
      /\ namedmarks' = namedmarks /\ variables' = variables
      /\ max_mark_index' = max_mark_index /\ at' = at /\ source' = source
      /\ defined' = defined
  BY DEF compilerVars
<1>1. CompilerTypeOK => CompilerTypeOK'
  BY <1>0 DEF CompilerTypeOK
<1>2. LabelsInv => LabelsInv'
  <2>1. \A name : PlaceOf(name)' = PlaceOf(name)
    BY <1>0 DEF PlaceOf, Find
  <2> QED
    BY <1>0, <2>1 DEF LabelsInv
<1>3. MethodsInv => MethodsInv'
  BY <1>0 DEF MethodsInv, FindLabel
<1>4. IndicesInv => IndicesInv'
  BY <1>0 DEF IndicesInv
<1>5. OperandsInv => OperandsInv'
  BY <1>0 DEF OperandsInv, StandsFor
<1>6. \A k : FileOf(JmpEntry, k)' = FileOf(JmpEntry, k)
  BY <1>0 DEF FileOf, JmpEntry
<1>7. StrAt' = StrAt
  BY <1>0 DEF StrAt
<1>8. JmpAt' = JmpAt
  BY <1>0, <1>7 DEF JmpAt
<1>9. FunAt' = FunAt
  BY <1>0, <1>6, <1>8, Zenon DEF FunAt
<1>10. Content' = Content
  BY <1>0, Zenon DEF Content, Table, FileOf, MetaEntry, StrEntry, JmpEntry, FunEntry,
                     FunEntryAt
<1> QED
  BY <1>1, <1>2, <1>3, <1>4, <1>5, <1>6, <1>7, <1>8, <1>9, <1>10 DEF CompilerInv

(* A step of the loader: what has to be shown of it.                       *)
LEMMA LoaderStep ==
  ASSUME IInv, status \in InVm, UNCHANGED <<compilerVars, file>>,
         status' \in InVm, vm' \in Machines, cloc' \in Nat,
         VariablesRead', StringsRead', JumpsRead', FunctionsRead'
  PROVE  IInv'
<1>1. CompilerTypeOK /\ CompilerInv /\ file \in Seq(Fields)
  BY DEF IInv, TypeOK
<1>2. UNCHANGED compilerVars /\ file' = file
  OBVIOUS
<1>3. CompilerTypeOK' /\ CompilerInv' /\ Content' = Content
  BY <1>1, <1>2, CompilerStays
<1>4. TypeOK'
  BY <1>1, <1>2, <1>3 DEF TypeOK
<1>5. FileInv'
  <2>1. /\ file = Content /\ at = Len(Methods)
        /\ \A i \in 1 .. Len(jumptable) : jumptable[i].location # 0 \/ jumptable[i].parent
    BY DEF IInv, FileInv
  <2>2. jumptable' = jumptable /\ at' = at
    BY DEF compilerVars
  <2> QED
    BY <1>2, <1>3, <2>1, <2>2 DEF FileInv
<1>6. status' # "compile"
  BY DEF InVm, Loading
<1> QED
  BY <1>3, <1>4, <1>5, <1>6 DEF IInv, LoaderInv

(* Tables that are not being read.                                         *)
LEMMA VariablesStay ==
  ASSUME VariablesRead, UNCHANGED compilerVars, vm'.metatable = vm.metatable,
         status' \notin {"meta", "metas"}, status \notin {"meta", "metas"}
  PROVE  VariablesRead'
<1>1. variables' = variables
  BY DEF compilerVars
<1> QED
  BY <1>1 DEF VariablesRead, Copied, LoadedVariable

LEMMA StringsStay ==
  ASSUME StringsRead, UNCHANGED compilerVars, vm'.stringtable = vm.stringtable,
         status' # "strs",
         status' \in {"meta", "metas", "str"} => status \in {"meta", "metas", "str"},
         status' \notin {"meta", "metas", "str", "strs"} =>
           status \notin {"meta", "metas", "str", "strs"}
  PROVE  StringsRead'
<1>1. stringtable' = stringtable
  BY DEF compilerVars
<1> QED
  BY <1>1 DEF StringsRead, Copied, LoadedString

LEMMA JumpsStay ==
  ASSUME JumpsRead, UNCHANGED compilerVars, vm'.jumptable = vm.jumptable,
         vm'.max_marks = vm.max_marks, status' \in InVm, status' # "jmps",
         status' \in {"meta", "metas", "str", "strs", "jmp"} =>
           status \in {"meta", "metas", "str", "strs", "jmp"},
         status' \in {"fun", "funs", "class", "loaded"} =>
           status \in {"fun", "funs", "class", "loaded"}
  PROVE  JumpsRead'
<1>1. jumptable' = jumptable /\ max_mark_index' = max_mark_index
  BY DEF compilerVars
<1> QED
  BY <1>1 DEF JumpsRead, Copied, LoadedLabel, LabelType

LEMMA FunctionsStay ==
  ASSUME FunctionsRead, UNCHANGED compilerVars, vm'.funtable = vm.funtable,
         status \in InVm \ {"funs", "class", "loaded"},
         status' \in InVm \ {"funs", "class", "loaded"}
  PROVE  FunctionsRead'
<1>1. vm.funtable = <<>>
  BY DEF FunctionsRead
<1>2. Len(vm'.funtable) = 0
  BY <1>1
<1> QED
  BY <1>1, <1>2 DEF FunctionsRead

-----------------------------------------------------------------------------
LEMMA EnterMetaIInv ==
  ASSUME IInv, EnterMeta
  PROVE  IInv'
<1>1. /\ status = "meta" /\ status \in InVm
      /\ UNCHANGED <<compilerVars, file>> /\ vm' = vm
      /\ cloc' = Location("meta") + 2
      /\ status' = IF file[Location("meta") + 1].value = 0 THEN "str" ELSE "metas"
  BY DEF EnterMeta, Enter, InVm, Loading
<1>2. /\ file[2].value = Len(variables) /\ Location("meta") = 1
  BY <1>1, FileLayout DEF MetaLayout
<1>3. cloc' = 3 /\ status' = IF Len(variables) = 0 THEN "str" ELSE "metas"
  BY <1>1, <1>2
<1>4. VariablesRead /\ StringsRead /\ JumpsRead /\ FunctionsRead
  BY <1>1 DEF IInv, LoaderInv
<1>5. UNCHANGED compilerVars /\ variables' = variables
  BY <1>1 DEF compilerVars
<1>6. VariablesRead'
  <2>1. vm.metatable = <<>> /\ Copied(vm.metatable, LoadedVariable, Len(variables))
    BY <1>1, <1>4 DEF VariablesRead
  <2>2. Len(vm.metatable) = 0 /\ Len(variables) \in Nat
    BY <2>1, CountTypes DEF IInv, TypeOK
  <2>3. Copied(vm.metatable, LoadedVariable, Len(variables))'
    BY <1>1, <1>5, <2>1, <2>2 DEF Copied
  <2> QED
    BY <1>1, <1>3, <1>5, <2>2, <2>3 DEF VariablesRead
<1>7. status' \in InVm
  BY <1>3 DEF InVm, Loading
<1>8. StringsRead'
  BY <1>1, <1>3, <1>4, <1>5, StringsStay
<1>9. JumpsRead'
  BY <1>1, <1>3, <1>4, <1>5, <1>7, JumpsStay
<1>10. FunctionsRead'
  <2>1. /\ status \in InVm \ {"funs", "class", "loaded"}
        /\ status' \in InVm \ {"funs", "class", "loaded"}
    BY <1>1, <1>3, <1>7
  <2> QED
    BY <1>1, <1>4, <1>5, <2>1, FunctionsStay
<1>11. vm' \in Machines /\ cloc' \in Nat
  BY <1>1, <1>3 DEF IInv, TypeOK
<1> QED
  BY <1>1, <1>6, <1>7, <1>8, <1>9, <1>10, <1>11, LoaderStep

(* What the loader reads of a machine after it has changed a field.        *)
LEMMA MachineParts ==
  ASSUME NEW m \in Machines
  PROVE  /\ m.metatable \in Seq(Named) /\ m.stringtable \in Seq(Named)
         /\ m.jumptable \in Seq(LoadedLabels) /\ m.funtable \in Seq(LoadedFunctions)
         /\ m.funtable_size \in Int /\ m.left \in Int /\ m.max_marks \in Int
BY DEF Machines

LEMMA AddVariable ==
  ASSUME NEW m \in Machines, NEW r \in Named, NEW n,
         n = [m EXCEPT !.metatable = Append(@, r)]
  PROVE  /\ n \in Machines /\ n.metatable = Append(m.metatable, r)
         /\ n.stringtable = m.stringtable /\ n.jumptable = m.jumptable
         /\ n.funtable = m.funtable /\ n.funtable_size = m.funtable_size
         /\ n.left = m.left /\ n.max_marks = m.max_marks
<1>1. PICK t : t = Append(m.metatable, r)
  OBVIOUS
<1>2. m.metatable \in Seq(Named)
  BY MachineParts
<1>3. t \in Seq(Named)
  BY <1>1, <1>2
<1>4. n = [m EXCEPT !.metatable = t]
  BY <1>1
<1> QED
  BY <1>1, <1>3, <1>4 DEF Machines

LEMMA AddString ==
  ASSUME NEW m \in Machines, NEW r \in Named, NEW n,
         n = [m EXCEPT !.stringtable = Append(@, r)]
  PROVE  /\ n \in Machines /\ n.stringtable = Append(m.stringtable, r)
         /\ n.metatable = m.metatable /\ n.jumptable = m.jumptable
         /\ n.funtable = m.funtable /\ n.funtable_size = m.funtable_size
         /\ n.left = m.left /\ n.max_marks = m.max_marks
<1>1. PICK t : t = Append(m.stringtable, r)
  OBVIOUS
<1>2. m.stringtable \in Seq(Named)
  BY MachineParts
<1>3. t \in Seq(Named)
  BY <1>1, <1>2
<1>4. n = [m EXCEPT !.stringtable = t]
  BY <1>1
<1> QED
  BY <1>1, <1>3, <1>4 DEF Machines

LEMMA SetLeft ==
  ASSUME NEW m \in Machines, NEW l \in Int, NEW n, n = [m EXCEPT !.left = l]
  PROVE  /\ n \in Machines /\ n.left = l
         /\ n.metatable = m.metatable /\ n.stringtable = m.stringtable
         /\ n.jumptable = m.jumptable /\ n.funtable = m.funtable
         /\ n.funtable_size = m.funtable_size /\ n.max_marks = m.max_marks
BY DEF Machines

LEMMA AddLabel ==
  ASSUME NEW m \in Machines, NEW r \in LoadedLabels, NEW n,
         n = [m EXCEPT !.jumptable = Append(@, r)]
  PROVE  /\ n \in Machines /\ n.jumptable = Append(m.jumptable, r)
         /\ n.metatable = m.metatable /\ n.stringtable = m.stringtable
         /\ n.funtable = m.funtable /\ n.funtable_size = m.funtable_size
         /\ n.left = m.left /\ n.max_marks = m.max_marks
<1>1. PICK t : t = Append(m.jumptable, r)
  OBVIOUS
<1>2. m.jumptable \in Seq(LoadedLabels)
  BY MachineParts
<1>3. t \in Seq(LoadedLabels)
  BY <1>1, <1>2
<1>4. n = [m EXCEPT !.jumptable = t]
  BY <1>1
<1> QED
  BY <1>1, <1>3, <1>4 DEF Machines

LEMMA AddFunction ==
  ASSUME NEW m \in Machines, NEW r \in LoadedFunctions, NEW n,
         n = [m EXCEPT !.funtable = Append(@, r)]
  PROVE  /\ n \in Machines /\ n.funtable = Append(m.funtable, r)
         /\ n.metatable = m.metatable /\ n.stringtable = m.stringtable
         /\ n.jumptable = m.jumptable /\ n.funtable_size = m.funtable_size
         /\ n.left = m.left /\ n.max_marks = m.max_marks
<1>1. PICK t : t = Append(m.funtable, r)
  OBVIOUS
<1>2. m.funtable \in Seq(LoadedFunctions)
  BY MachineParts
<1>3. t \in Seq(LoadedFunctions)
  BY <1>1, <1>2
<1>4. n = [m EXCEPT !.funtable = t]
  BY <1>1
<1> QED
  BY <1>1, <1>3, <1>4 DEF Machines

LEMMA SetMarks ==
  ASSUME NEW m \in Machines, NEW x \in Int, NEW n, n = [m EXCEPT !.max_marks = x]
  PROVE  /\ n \in Machines /\ n.max_marks = x
         /\ n.metatable = m.metatable /\ n.stringtable = m.stringtable
         /\ n.jumptable = m.jumptable /\ n.funtable = m.funtable
         /\ n.funtable_size = m.funtable_size /\ n.left = m.left
BY DEF Machines

LEMMA SetSize ==
  ASSUME NEW m \in Machines, NEW x \in Int, NEW n, n = [m EXCEPT !.funtable_size = x]
  PROVE  /\ n \in Machines /\ n.funtable_size = x
         /\ n.metatable = m.metatable /\ n.stringtable = m.stringtable
         /\ n.jumptable = m.jumptable /\ n.funtable = m.funtable
         /\ n.left = m.left /\ n.max_marks = m.max_marks
BY DEF Machines

(* An entry that is read is the next one.                                  *)
LEMMA CopyOne ==
  ASSUME NEW S, NEW t \in Seq(S), NEW r \in S, NEW u, u = Append(t, r)
  PROVE  /\ Len(u) = Len(t) + 1 /\ u[Len(t) + 1] = r /\ Len(t) \in Nat
         /\ \A i \in 1 .. Len(t) : u[i] = t[i]
         /\ \A i \in 1 .. Len(u) : i = Len(t) + 1 \/ i \in 1 .. Len(t)
<1>1. /\ Len(u) = Len(t) + 1 /\ u[Len(t) + 1] = r
      /\ \A i \in 1 .. Len(t) : u[i] = t[i]
  BY AppendProperties
<1>2. Len(t) \in Nat
  OBVIOUS
<1> QED
  BY <1>1, <1>2

LEMMA ReadVariableIInv ==
  ASSUME IInv, ReadVariable
  PROVE  IInv'
<1> DEFINE k == Len(vm.metatable)
           n == Len(variables)
           r == [index |-> Field(0), name |-> Text(1)]
<1>1. /\ status = "metas" /\ file[cloc] # Magic("str")
      /\ UNCHANGED <<compilerVars, file>> /\ status' = status
      /\ vm' = [vm EXCEPT !.metatable = Append(@, r)]
      /\ cloc' = cloc + 2
  BY DEF ReadVariable, Read
<1>2. status \in InVm
  BY <1>1 DEF InVm, Loading
<1>3. MetaLayout(file) /\ StrLayout(file)
  BY <1>2, FileLayout
<1>4. CompilerTypeOK /\ vm \in Machines
  BY DEF IInv, TypeOK
<1>5. VariablesRead /\ StringsRead /\ JumpsRead /\ FunctionsRead
  BY <1>2 DEF IInv, LoaderInv
<1>6. n \in Nat /\ StrAt = 3 + 2 * n
  BY <1>4, CountTypes DEF StrAt
<1>7. k \in Nat /\ vm.metatable \in Seq(Named)
  <2>1. vm.metatable \in Seq(Named)
    BY <1>4, MachineParts
  <2> QED
    BY <2>1
<1>8. /\ k <= n /\ cloc = 3 + 2 * k
      /\ \A i \in 1 .. k : vm.metatable[i] = LoadedVariable(i)
  BY <1>1, <1>5 DEF VariablesRead, Copied
<1>9. k < n
  <2>1. SUFFICES ASSUME k = n
                 PROVE  FALSE
    BY <1>6, <1>7, <1>8
  <2>2. cloc = StrAt
    BY <1>6, <1>8, <2>1
  <2> QED
    BY <1>1, <1>3, <2>2 DEF StrLayout
<1>10. r = LoadedVariable(k + 1)
  <2>1. k \in 0 .. n - 1
    BY <1>6, <1>7, <1>9
  <2>2. /\ file[3 + 2 * k] = Word(variables[k + 1].meta_location)
        /\ file[3 + 2 * k + 1] = Name(variables[k + 1].name)
    BY <1>3, <2>1 DEF MetaLayout
  <2>3. cloc + 0 = 3 + 2 * k /\ cloc + 1 = 3 + 2 * k + 1
    BY <1>7, <1>8
  <2>4. Field(0) = variables[k + 1].meta_location /\ Text(1) = variables[k + 1].name
    BY <2>2, <2>3 DEF Field, Text, Word, Name
  <2> QED
    BY <2>4 DEF LoadedVariable
<1>11. r \in Named
  <2>1. k + 1 \in 1 .. n
    BY <1>6, <1>7, <1>9
  <2>2. variables[k + 1] \in VariableEntries
    BY <1>4, <2>1 DEF CompilerTypeOK
  <2>3. LoadedVariable(k + 1) \in Named
    BY <2>2 DEF LoadedVariable, VariableEntries, Named
  <2> QED
    BY <1>10, <2>3
<1> HIDE DEF r
<1>12. /\ vm' \in Machines /\ vm'.metatable = Append(vm.metatable, r)
       /\ vm'.stringtable = vm.stringtable /\ vm'.jumptable = vm.jumptable
       /\ vm'.funtable = vm.funtable /\ vm'.max_marks = vm.max_marks
  BY <1>1, <1>4, <1>11, AddVariable
<1>13. PICK t : t = vm'.metatable
  OBVIOUS
<1>14. /\ Len(t) = k + 1 /\ t[k + 1] = r
       /\ \A i \in 1 .. k : t[i] = vm.metatable[i]
       /\ \A i \in 1 .. Len(t) : i = k + 1 \/ i \in 1 .. k
  BY <1>7, <1>11, <1>12, <1>13, CopyOne
<1>15. UNCHANGED compilerVars /\ variables' = variables
  BY <1>1 DEF compilerVars
<1>16. VariablesRead'
  <2>1. Len(t) <= n /\ \A i \in 1 .. Len(t) : t[i] = LoadedVariable(i)
    BY <1>6, <1>7, <1>8, <1>9, <1>10, <1>14
  <2>2. \A i : LoadedVariable(i)' = LoadedVariable(i)
    BY <1>15 DEF LoadedVariable
  <2>3. cloc' = 3 + 2 * Len(t)
    BY <1>1, <1>7, <1>8, <1>14
  <2> HIDE DEF k, n
  <2>4. Copied(vm.metatable, LoadedVariable, Len(variables))'
    BY <1>13, <1>15, <2>1, <2>2 DEF Copied, n
  <2> QED
    BY <1>1, <1>13, <2>3, <2>4 DEF VariablesRead
<1>17. StringsRead'
  BY <1>1, <1>5, <1>12, <1>15, StringsStay
<1>18. JumpsRead'
  BY <1>1, <1>2, <1>5, <1>12, <1>15, JumpsStay
<1>19. FunctionsRead'
  <2>1. /\ status \in InVm \ {"funs", "class", "loaded"}
        /\ status' \in InVm \ {"funs", "class", "loaded"}
    BY <1>1, <1>2
  <2> QED
    BY <1>5, <1>12, <1>15, <2>1, FunctionsStay
<1>20. cloc' \in Nat
  BY <1>1, <1>7, <1>8
<1> QED
  BY <1>1, <1>2, <1>12, <1>16, <1>17, <1>18, <1>19, <1>20, LoaderStep

LEMMA EndMetaIInv ==
  ASSUME IInv, EndMeta
  PROVE  IInv'
<1> DEFINE k == Len(vm.metatable)
           n == Len(variables)
<1>1. /\ status = "metas" /\ file[cloc] = Magic("str") /\ status' = "str"
      /\ UNCHANGED <<compilerVars, file>> /\ vm' = vm /\ cloc' = cloc
  BY DEF EndMeta, Done
<1>2. status \in InVm /\ status' \in InVm
  BY <1>1 DEF InVm, Loading
<1>3. MetaLayout(file)
  BY <1>2, FileLayout
<1>4. CompilerTypeOK /\ vm \in Machines /\ cloc \in Nat
  BY DEF IInv, TypeOK
<1>5. VariablesRead /\ StringsRead /\ JumpsRead /\ FunctionsRead
  BY <1>2 DEF IInv, LoaderInv
<1>6. n \in Nat
  BY <1>4, CountTypes
<1>7. k \in Nat
  <2>1. vm.metatable \in Seq(Named)
    BY <1>4, MachineParts
  <2> QED
    BY <2>1
<1>8. k <= n /\ cloc = 3 + 2 * k
  BY <1>1, <1>5 DEF VariablesRead, Copied
<1>9. k = n
  <2>1. SUFFICES ASSUME k \in 0 .. n - 1
                 PROVE  FALSE
    BY <1>6, <1>7, <1>8
  <2>2. file[3 + 2 * k] = Word(variables[k + 1].meta_location)
    BY <1>3, <2>1 DEF MetaLayout
  <2>3. Word(variables[k + 1].meta_location).size # Magic("str").size
    BY DEF Word, Magic
  <2> QED
    BY <1>1, <1>8, <2>2, <2>3
<1>10. UNCHANGED compilerVars /\ variables' = variables
  BY <1>1 DEF compilerVars
<1>11. VariablesRead'
  <2>1. Copied(vm.metatable, LoadedVariable, Len(variables))
    BY <1>5 DEF VariablesRead
  <2>2. Copied(vm.metatable, LoadedVariable, Len(variables))'
    BY <1>1, <1>10, <2>1 DEF Copied, LoadedVariable
  <2> QED
    BY <1>1, <1>9, <1>10, <2>2 DEF VariablesRead
<1>12. StringsRead'
  BY <1>1, <1>5, <1>10, StringsStay
<1>13. JumpsRead'
  BY <1>1, <1>2, <1>5, <1>10, JumpsStay
<1>14. FunctionsRead'
  <2>1. /\ status \in InVm \ {"funs", "class", "loaded"}
        /\ status' \in InVm \ {"funs", "class", "loaded"}
    BY <1>1, <1>2
  <2> QED
    BY <1>1, <1>5, <1>10, <2>1, FunctionsStay
<1> QED
  BY <1>1, <1>2, <1>4, <1>11, <1>12, <1>13, <1>14, LoaderStep

LEMMA ReadStringIInv ==
  ASSUME IInv, ReadString
  PROVE  IInv'
<1> DEFINE k == Len(vm.stringtable)
           n == Len(stringtable)
           r == [index |-> Field(0), name |-> Text(1)]
<1>1. /\ status = "strs" /\ file[cloc] # Magic("jmp")
      /\ UNCHANGED <<compilerVars, file>> /\ status' = status
      /\ vm' = [vm EXCEPT !.stringtable = Append(@, r)]
      /\ cloc' = cloc + 2
  BY DEF ReadString, Read
<1>2. status \in InVm
  BY <1>1 DEF InVm, Loading
<1>3. StrLayout(file) /\ JmpLayout(file)
  BY <1>2, FileLayout
<1>4. CompilerTypeOK /\ vm \in Machines
  BY DEF IInv, TypeOK
<1>5. VariablesRead /\ StringsRead /\ JumpsRead /\ FunctionsRead
  BY <1>2 DEF IInv, LoaderInv
<1>6. n \in Nat /\ StrAt \in Nat /\ JmpAt = StrAt + 2 + 2 * n
  BY <1>4, CountTypes DEF JmpAt
<1>7. k \in Nat /\ vm.stringtable \in Seq(Named)
  <2>1. vm.stringtable \in Seq(Named)
    BY <1>4, MachineParts
  <2> QED
    BY <2>1
<1>8. /\ k <= n /\ cloc = StrAt + 2 + 2 * k
      /\ \A i \in 1 .. k : vm.stringtable[i] = LoadedString(i)
  BY <1>1, <1>5 DEF StringsRead, Copied
<1>9. k < n
  <2>1. SUFFICES ASSUME k = n
                 PROVE  FALSE
    BY <1>6, <1>7, <1>8
  <2>2. cloc = JmpAt
    BY <1>6, <1>8, <2>1
  <2> QED
    BY <1>1, <1>3, <2>2 DEF JmpLayout
<1>10. r = LoadedString(k + 1)
  <2>1. k \in 0 .. n - 1
    BY <1>6, <1>7, <1>9
  <2>2. /\ file[StrAt + 2 + 2 * k] = Word(stringtable[k + 1].index)
        /\ file[StrAt + 2 + 2 * k + 1] = Name(stringtable[k + 1].string)
    BY <1>3, <2>1 DEF StrLayout
  <2>3. cloc + 0 = StrAt + 2 + 2 * k /\ cloc + 1 = StrAt + 2 + 2 * k + 1
    BY <1>7, <1>8
  <2>4. Field(0) = stringtable[k + 1].index /\ Text(1) = stringtable[k + 1].string
    BY <2>2, <2>3 DEF Field, Text, Word, Name
  <2> QED
    BY <2>4 DEF LoadedString
<1>11. r \in Named
  <2>1. k + 1 \in 1 .. n
    BY <1>6, <1>7, <1>9
  <2>2. stringtable[k + 1] \in StringEntries
    BY <1>4, <2>1 DEF CompilerTypeOK
  <2>3. LoadedString(k + 1) \in Named
    BY <2>2 DEF LoadedString, StringEntries, Named
  <2> QED
    BY <1>10, <2>3
<1> HIDE DEF r
<1>12. /\ vm' \in Machines /\ vm'.stringtable = Append(vm.stringtable, r)
       /\ vm'.metatable = vm.metatable /\ vm'.jumptable = vm.jumptable
       /\ vm'.funtable = vm.funtable /\ vm'.max_marks = vm.max_marks
  BY <1>1, <1>4, <1>11, AddString
<1>13. PICK t : t = vm'.stringtable
  OBVIOUS
<1>14. /\ Len(t) = k + 1 /\ t[k + 1] = r
       /\ \A i \in 1 .. k : t[i] = vm.stringtable[i]
       /\ \A i \in 1 .. Len(t) : i = k + 1 \/ i \in 1 .. k
  BY <1>7, <1>11, <1>12, <1>13, CopyOne
<1>15. UNCHANGED compilerVars /\ stringtable' = stringtable
  BY <1>1 DEF compilerVars
<1>16. StringsRead'
  <2>1. Len(t) <= n /\ \A i \in 1 .. Len(t) : t[i] = LoadedString(i)
    BY <1>6, <1>7, <1>8, <1>9, <1>10, <1>14
  <2>2. \A i : LoadedString(i)' = LoadedString(i)
    BY <1>15 DEF LoadedString
  <2>3. cloc' = StrAt' + 2 + 2 * Len(t)
    <3>1. StrAt' = StrAt
      BY <1>15, CompilerStays
    <3>2. cloc' = StrAt + 2 + 2 * Len(t)
      BY <1>1, <1>6, <1>7, <1>8, <1>14
    <3> QED
      BY <3>1, <3>2
  <2> HIDE DEF k, n
  <2>4. Copied(vm.stringtable, LoadedString, Len(stringtable))'
    BY <1>13, <1>15, <2>1, <2>2 DEF Copied, n
  <2> QED
    BY <1>1, <1>13, <2>3, <2>4 DEF StringsRead
<1>17. VariablesRead'
  BY <1>1, <1>5, <1>12, <1>15, VariablesStay
<1>18. JumpsRead'
  BY <1>1, <1>2, <1>5, <1>12, <1>15, JumpsStay
<1>19. FunctionsRead'
  <2>1. /\ status \in InVm \ {"funs", "class", "loaded"}
        /\ status' \in InVm \ {"funs", "class", "loaded"}
    BY <1>1, <1>2
  <2> QED
    BY <1>5, <1>12, <1>15, <2>1, FunctionsStay
<1>20. cloc' \in Nat
  BY <1>1, <1>6, <1>7, <1>8
<1> QED
  BY <1>1, <1>2, <1>12, <1>16, <1>17, <1>18, <1>19, <1>20, LoaderStep

LEMMA EnterStringsIInv ==
  ASSUME IInv, EnterStrings
  PROVE  IInv'
<1>1. /\ status = "str" /\ status \in InVm
      /\ UNCHANGED <<compilerVars, file>> /\ vm' = vm
      /\ cloc' = Location("str") + 2
      /\ status' = IF file[Location("str") + 1].value = 0 THEN "jmp" ELSE "strs"
  BY DEF EnterStrings, Enter, InVm, Loading
<1>2. file[StrAt + 1].value = Len(stringtable) /\ Location("str") = StrAt
  BY <1>1, FileLayout DEF StrLayout
<1>3. cloc' = StrAt + 2 /\ status' = IF Len(stringtable) = 0 THEN "jmp" ELSE "strs"
  BY <1>1, <1>2
<1>4. VariablesRead /\ StringsRead /\ JumpsRead /\ FunctionsRead
  BY <1>1 DEF IInv, LoaderInv
<1>5. UNCHANGED compilerVars /\ stringtable' = stringtable
  BY <1>1 DEF compilerVars
<1>6. Len(stringtable) \in Nat /\ StrAt \in Nat
  BY CountTypes DEF IInv, TypeOK
<1>7. StringsRead'
  <2>1. vm.stringtable = <<>> /\ Copied(vm.stringtable, LoadedString, Len(stringtable))
    BY <1>1, <1>4 DEF StringsRead
  <2>2. Len(vm.stringtable) = 0
    BY <2>1
  <2>3. Copied(vm.stringtable, LoadedString, Len(stringtable))'
    BY <1>1, <1>5, <1>6, <2>1, <2>2 DEF Copied
  <2>4. status' = "strs" => cloc' = StrAt' + 2 + 2 * Len(vm'.stringtable)
    <3>1. StrAt' = StrAt
      BY <1>5, CompilerStays
    <3>2. StrAt + 2 = StrAt + 2 + 2 * 0
      BY <1>6
    <3> QED
      BY <1>1, <1>3, <2>2, <3>1, <3>2
  <2> QED
    BY <1>1, <1>3, <1>5, <2>2, <2>3, <2>4 DEF StringsRead
<1>8. status' \in InVm
  BY <1>3 DEF InVm, Loading
<1>9. VariablesRead'
  BY <1>1, <1>3, <1>4, <1>5, VariablesStay
<1>10. JumpsRead'
  BY <1>1, <1>3, <1>4, <1>5, <1>8, JumpsStay
<1>11. FunctionsRead'
  <2>1. /\ status \in InVm \ {"funs", "class", "loaded"}
        /\ status' \in InVm \ {"funs", "class", "loaded"}
    BY <1>1, <1>3, <1>8
  <2> QED
    BY <1>1, <1>4, <1>5, <2>1, FunctionsStay
<1>12. vm' \in Machines /\ cloc' \in Nat
  BY <1>1, <1>3, <1>6 DEF IInv, TypeOK
<1> QED
  BY <1>1, <1>7, <1>8, <1>9, <1>10, <1>11, <1>12, LoaderStep

LEMMA EndStringsIInv ==
  ASSUME IInv, EndStrings
  PROVE  IInv'
<1> DEFINE k == Len(vm.stringtable)
           n == Len(stringtable)
<1>1. /\ status = "strs" /\ file[cloc] = Magic("jmp") /\ status' = "jmp"
      /\ UNCHANGED <<compilerVars, file>> /\ vm' = vm /\ cloc' = cloc
  BY DEF EndStrings, Done
<1>2. status \in InVm /\ status' \in InVm
  BY <1>1 DEF InVm, Loading
<1>3. StrLayout(file)
  BY <1>2, FileLayout
<1>4. CompilerTypeOK /\ vm \in Machines /\ cloc \in Nat
  BY DEF IInv, TypeOK
<1>5. VariablesRead /\ StringsRead /\ JumpsRead /\ FunctionsRead
  BY <1>2 DEF IInv, LoaderInv
<1>6. n \in Nat /\ StrAt \in Nat
  BY <1>4, CountTypes
<1>7. k \in Nat
  <2>1. vm.stringtable \in Seq(Named)
    BY <1>4, MachineParts
  <2> QED
    BY <2>1
<1>8. k <= n /\ cloc = StrAt + 2 + 2 * k
  BY <1>1, <1>5 DEF StringsRead, Copied
<1>9. k = n
  <2>1. SUFFICES ASSUME k \in 0 .. n - 1
                 PROVE  FALSE
    BY <1>6, <1>7, <1>8
  <2>2. file[StrAt + 2 + 2 * k] = Word(stringtable[k + 1].index)
    BY <1>3, <2>1 DEF StrLayout
  <2>3. Word(stringtable[k + 1].index).size # Magic("jmp").size
    BY DEF Word, Magic
  <2> QED
    BY <1>1, <1>8, <2>2, <2>3
<1>10. UNCHANGED compilerVars /\ stringtable' = stringtable
  BY <1>1 DEF compilerVars
<1>11. StringsRead'
  <2>1. Copied(vm.stringtable, LoadedString, Len(stringtable))
    BY <1>5 DEF StringsRead
  <2>2. Copied(vm.stringtable, LoadedString, Len(stringtable))'
    BY <1>1, <1>10, <2>1 DEF Copied, LoadedString
  <2> QED
    BY <1>1, <1>9, <1>10, <2>2 DEF StringsRead
<1>12. VariablesRead'
  BY <1>1, <1>5, <1>10, VariablesStay
<1>13. JumpsRead'
  BY <1>1, <1>2, <1>5, <1>10, JumpsStay
<1>14. FunctionsRead'
  <2>1. /\ status \in InVm \ {"funs", "class", "loaded"}
        /\ status' \in InVm \ {"funs", "class", "loaded"}
    BY <1>1, <1>2
  <2> QED
    BY <1>1, <1>5, <1>10, <2>1, FunctionsStay
<1> QED
  BY <1>1, <1>2, <1>4, <1>11, <1>12, <1>13, <1>14, LoaderStep

LEMMA NoLabels == Len(FileOf(JmpEntry, 0)) = 0
<1>1. [i \in 1 .. 0 |-> JmpEntry(i)] \in [1 .. 0 -> {}]
  OBVIOUS
<1>2. FileOf(JmpEntry, 0) = <<>>
  BY <1>1, FlattenEmpty, Zenon DEF FileOf
<1> QED
  BY <1>2

LEMMA EnterJumpsIInv ==
  ASSUME IInv, EnterJumps
  PROVE  IInv'
<1>1. /\ status = "jmp" /\ status \in InVm
      /\ UNCHANGED <<compilerVars, file>>
      /\ vm' = [vm EXCEPT !.left = file[Location("jmp") + 1].value,
                          !.max_marks = file[Location("jmp") + 2].value]
      /\ cloc' = Location("jmp") + 3
      /\ status' = IF file[Location("jmp") + 1].value = 0 THEN "fun" ELSE "jmps"
  BY DEF EnterJumps, Enter, InVm, Loading
<1>2. /\ file[JmpAt + 1].value = Len(jumptable) /\ file[JmpAt + 2].value = max_mark_index
      /\ Location("jmp") = JmpAt
  BY <1>1, FileLayout DEF JmpLayout
<1>3. /\ cloc' = JmpAt + 3 /\ status' = IF Len(jumptable) = 0 THEN "fun" ELSE "jmps"
      /\ vm' = [vm EXCEPT !.left = Len(jumptable), !.max_marks = max_mark_index]
  BY <1>1, <1>2
<1>4. VariablesRead /\ StringsRead /\ JumpsRead /\ FunctionsRead
  BY <1>1 DEF IInv, LoaderInv
<1>5. /\ UNCHANGED compilerVars /\ jumptable' = jumptable
      /\ max_mark_index' = max_mark_index
  BY <1>1 DEF compilerVars
<1>6. Len(jumptable) \in Nat /\ JmpAt \in Nat /\ max_mark_index \in Nat /\ vm \in Machines
  BY CountTypes DEF IInv, TypeOK, CompilerTypeOK
<1>7. /\ vm' \in Machines /\ vm'.left = Len(jumptable) /\ vm'.max_marks = max_mark_index
      /\ vm'.metatable = vm.metatable /\ vm'.stringtable = vm.stringtable
      /\ vm'.jumptable = vm.jumptable /\ vm'.funtable = vm.funtable
  <2>1. Len(jumptable) \in Int /\ max_mark_index \in Int
    BY <1>6
  <2>2. PICK k : k = [vm EXCEPT !.left = Len(jumptable)]
    OBVIOUS
  <2>3. vm' = [k EXCEPT !.max_marks = max_mark_index]
    BY <1>3, <2>2, Zenon
  <2>4. /\ k \in Machines /\ k.left = Len(jumptable)
        /\ k.metatable = vm.metatable /\ k.stringtable = vm.stringtable
        /\ k.jumptable = vm.jumptable /\ k.funtable = vm.funtable
    BY <1>6, <2>1, <2>2, SetLeft
  <2> QED
    BY <2>1, <2>3, <2>4, SetMarks
<1>8. JumpsRead'
  <2>1. vm.jumptable = <<>>
    BY <1>1, <1>4 DEF JumpsRead
  <2>2. Len(vm.jumptable) = 0 /\ Len(vm'.jumptable) = 0
    BY <1>7, <2>1
  <2>3. Copied(vm.jumptable, LoadedLabel, Len(jumptable))'
    BY <1>5, <1>6, <2>2 DEF Copied
  <2>4. status' = "jmps" =>
          /\ cloc' = JmpAt' + 3 + Len(FileOf(JmpEntry, Len(vm.jumptable))')
          /\ vm'.left = Len(jumptable') - Len(vm'.jumptable)
    <3>1. JmpAt' = JmpAt /\ FileOf(JmpEntry, 0)' = FileOf(JmpEntry, 0)
      BY <1>5, CompilerStays
    <3>2. Len(FileOf(JmpEntry, Len(vm.jumptable))') = 0
      BY <2>2, <3>1, NoLabels
    <3>3. JmpAt + 3 = JmpAt + 3 + 0 /\ Len(jumptable) = Len(jumptable) - 0
      BY <1>6
    <3> QED
      BY <1>3, <1>5, <1>7, <2>2, <3>1, <3>2, <3>3
  <2> QED
    BY <1>3, <1>5, <1>7, <2>2, <2>3, <2>4 DEF JumpsRead
<1>9. status' \in InVm
  BY <1>3 DEF InVm, Loading
<1>10. VariablesRead'
  BY <1>1, <1>3, <1>4, <1>5, <1>7, VariablesStay
<1>11. StringsRead'
  BY <1>1, <1>3, <1>4, <1>5, <1>7, StringsStay
<1>12. FunctionsRead'
  <2>1. /\ status \in InVm \ {"funs", "class", "loaded"}
        /\ status' \in InVm \ {"funs", "class", "loaded"}
    BY <1>1, <1>3, <1>9
  <2> QED
    BY <1>4, <1>5, <1>7, <2>1, FunctionsStay
<1>13. cloc' \in Nat
  BY <1>3, <1>6
<1> QED
  BY <1>1, <1>7, <1>8, <1>9, <1>10, <1>11, <1>12, <1>13, LoaderStep

LEMMA ReadJumpIInv ==
  ASSUME IInv, ReadJump
  PROVE  IInv'
<1> DEFINE k == Len(vm.jumptable)
           n == Len(jumptable)
           c == JmpAt + 3 + Len(FileOf(JmpEntry, k))
           e == jumptable[k + 1]
           named == Field(1) # General
           r == [location |-> Field(0), type |-> Field(1),
                 label_name |-> IF named THEN Text(2) ELSE "none"]
<1>1. /\ status = "jmps" /\ vm.left > 0
      /\ UNCHANGED <<compilerVars, file>> /\ status' = status
      /\ vm' = [vm EXCEPT !.left = @ - 1, !.jumptable = Append(@, r)]
      /\ cloc' = cloc + (IF named THEN 3 ELSE 2)
  BY DEF ReadJump, Read
<1>2. status \in InVm
  BY <1>1 DEF InVm, Loading
<1>3. JmpLayout(file)
  BY <1>2, FileLayout
<1>4. CompilerTypeOK /\ vm \in Machines
  BY DEF IInv, TypeOK
<1>5. VariablesRead /\ StringsRead /\ JumpsRead /\ FunctionsRead
  BY <1>2 DEF IInv, LoaderInv
<1>6. n \in Nat /\ JmpAt \in Nat
  BY <1>4, CountTypes
<1>7. k \in Nat /\ vm.jumptable \in Seq(LoadedLabels)
  <2>1. vm.jumptable \in Seq(LoadedLabels)
    BY <1>4, MachineParts
  <2> QED
    BY <2>1
<1>8. /\ k <= n /\ cloc = c /\ vm.left = n - k /\ vm.max_marks = max_mark_index
      /\ \A i \in 1 .. k : vm.jumptable[i] = LoadedLabel(i)
  BY <1>1, <1>5 DEF JumpsRead, Copied
<1>9. k \in 0 .. n - 1 /\ k + 1 \in 1 .. n
  BY <1>1, <1>6, <1>7, <1>8
<1>10. e \in LabelEntries
  BY <1>4, <1>9 DEF CompilerTypeOK
<1>11. LabelType(e) \in Int /\ e.location \in Int /\ e.name \in Texts
  BY <1>10 DEF LabelEntries, LabelType, General, CallLabel, ParentCall
<1>12. /\ file[c] = Word(e.location) /\ file[c + 1] = Byte(LabelType(e))
       /\ LabelType(e) # General => file[c + 2] = Name(e.name)
       /\ JmpAt + 3 + Len(FileOf(JmpEntry, k + 1))
            = c + (IF LabelType(e) = General THEN 2 ELSE 3)
       /\ Len(FileOf(JmpEntry, k)) \in Nat
  BY <1>3, <1>9 DEF JmpLayout
<1>13. /\ Field(0) = e.location /\ Field(1) = LabelType(e)
       /\ LabelType(e) # General => Text(2) = e.name
  <2>1. c \in Nat
    BY <1>6, <1>12
  <2>2. cloc + 0 = c /\ cloc + 1 = c + 1 /\ cloc + 2 = c + 2
    BY <1>8, <2>1
  <2> HIDE DEF c, e
  <2> QED
    BY <1>12, <2>2 DEF Field, Text, Word, Byte, Name
<1>14. r = LoadedLabel(k + 1)
  <2> HIDE DEF k
  <2> QED
    BY <1>13 DEF LoadedLabel
<1>15. r \in LoadedLabels
  <2>1. "none" \in Texts
    BY DEF Texts
  <2>2. LoadedLabel(k + 1) \in LoadedLabels
    <3> HIDE DEF k
    <3> QED
      BY <1>11, <2>1 DEF LoadedLabel, LoadedLabels
  <2> QED
    BY <1>14, <2>2
<1>16. cloc' = JmpAt + 3 + Len(FileOf(JmpEntry, k + 1)) /\ cloc' \in Nat
  <2> HIDE DEF k, r, e
  <2>1. cloc' = c + (IF LabelType(e) = General THEN 2 ELSE 3)
    BY <1>1, <1>8, <1>13
  <2> QED
    BY <1>6, <1>12, <2>1
<1> HIDE DEF r
<1>17. /\ vm' \in Machines /\ vm'.jumptable = Append(vm.jumptable, r)
       /\ vm'.left = vm.left - 1
       /\ vm'.metatable = vm.metatable /\ vm'.stringtable = vm.stringtable
       /\ vm'.funtable = vm.funtable /\ vm'.max_marks = vm.max_marks
  <2>1. PICK m : m = [vm EXCEPT !.left = vm.left - 1]
    OBVIOUS
  <2>2. vm' = [m EXCEPT !.jumptable = Append(@, r)]
    BY <1>1, <2>1, Zenon
  <2>3. vm.left - 1 \in Int
    BY <1>4, MachineParts
  <2>4. /\ m \in Machines /\ m.left = vm.left - 1 /\ m.jumptable = vm.jumptable
        /\ m.metatable = vm.metatable /\ m.stringtable = vm.stringtable
        /\ m.funtable = vm.funtable /\ m.max_marks = vm.max_marks
    BY <1>4, <2>1, <2>3, SetLeft
  <2> QED
    BY <1>15, <2>2, <2>4, AddLabel
<1>18. PICK t : t = vm'.jumptable
  OBVIOUS
<1>19. /\ Len(t) = k + 1 /\ t[k + 1] = r
       /\ \A i \in 1 .. k : t[i] = vm.jumptable[i]
       /\ \A i \in 1 .. Len(t) : i = k + 1 \/ i \in 1 .. k
  BY <1>7, <1>15, <1>17, <1>18, CopyOne
<1>20. /\ UNCHANGED compilerVars /\ jumptable' = jumptable
       /\ max_mark_index' = max_mark_index
  BY <1>1 DEF compilerVars
<1>21. JumpsRead'
  <2>1. Len(t) <= n /\ \A i \in 1 .. Len(t) : t[i] = LoadedLabel(i)
    BY <1>6, <1>7, <1>8, <1>9, <1>14, <1>19
  <2>2. \A i : LoadedLabel(i)' = LoadedLabel(i)
    BY <1>20 DEF LoadedLabel, LabelType
  <2>3. cloc' = JmpAt' + 3 + Len(FileOf(JmpEntry, Len(vm.jumptable))')
    <3>1. PICK p : p = k + 1
      OBVIOUS
    <3>2. JmpAt' = JmpAt /\ FileOf(JmpEntry, p)' = FileOf(JmpEntry, p)
      BY <1>20, CompilerStays
    <3>3. Len(vm.jumptable)' = p
      BY <1>18, <1>19, <3>1
    <3>4. cloc' = JmpAt + 3 + Len(FileOf(JmpEntry, p))
      BY <1>16, <3>1
    <3>5. FileOf(JmpEntry, Len(vm.jumptable))' = FileOf(JmpEntry, p)
      BY <3>2, <3>3, Zenon
    <3> QED
      BY <3>2, <3>4, <3>5, Zenon
  <2>4. vm'.left = n - Len(t)
    BY <1>6, <1>7, <1>8, <1>17, <1>19
  <2> HIDE DEF k, n
  <2>5. Copied(vm.jumptable, LoadedLabel, Len(jumptable))'
    BY <1>18, <1>20, <2>1, <2>2 DEF Copied, n
  <2> QED
    BY <1>1, <1>8, <1>17, <1>18, <1>20, <2>3, <2>4, <2>5 DEF JumpsRead, n
<1>22. VariablesRead'
  BY <1>1, <1>5, <1>17, <1>20, VariablesStay
<1>23. StringsRead'
  BY <1>1, <1>5, <1>17, <1>20, StringsStay
<1>24. FunctionsRead'
  <2>1. /\ status \in InVm \ {"funs", "class", "loaded"}
        /\ status' \in InVm \ {"funs", "class", "loaded"}
    BY <1>1, <1>2
  <2> QED
    BY <1>5, <1>17, <1>20, <2>1, FunctionsStay
<1> QED
  BY <1>1, <1>2, <1>16, <1>17, <1>21, <1>22, <1>23, <1>24, LoaderStep

LEMMA EndJumpsIInv ==
  ASSUME IInv, EndJumps
  PROVE  IInv'
<1> DEFINE k == Len(vm.jumptable)
           n == Len(jumptable)
<1>1. /\ status = "jmps" /\ vm.left = 0 /\ status' = "fun"
      /\ UNCHANGED <<compilerVars, file>> /\ vm' = vm /\ cloc' = cloc
  BY DEF EndJumps, Done
<1>2. status \in InVm /\ status' \in InVm
  BY <1>1 DEF InVm, Loading
<1>3. CompilerTypeOK /\ vm \in Machines /\ cloc \in Nat
  BY DEF IInv, TypeOK
<1>4. VariablesRead /\ StringsRead /\ JumpsRead /\ FunctionsRead
  BY <1>2 DEF IInv, LoaderInv
<1>5. n \in Nat
  BY <1>3, CountTypes
<1>6. k \in Nat
  <2>1. vm.jumptable \in Seq(LoadedLabels)
    BY <1>3, MachineParts
  <2> QED
    BY <2>1
<1>7. k = n
  <2>1. vm.left = n - k
    BY <1>1, <1>4 DEF JumpsRead
  <2> QED
    BY <1>1, <1>5, <1>6, <2>1
<1>8. /\ UNCHANGED compilerVars /\ jumptable' = jumptable
      /\ max_mark_index' = max_mark_index
  BY <1>1 DEF compilerVars
<1>9. JumpsRead'
  <2>1. Copied(vm.jumptable, LoadedLabel, Len(jumptable)) /\ vm.max_marks = max_mark_index
    BY <1>1, <1>4 DEF JumpsRead
  <2>2. Copied(vm.jumptable, LoadedLabel, Len(jumptable))'
    BY <1>1, <1>8, <2>1 DEF Copied, LoadedLabel, LabelType
  <2> QED
    BY <1>1, <1>7, <1>8, <2>1, <2>2 DEF JumpsRead
<1>10. VariablesRead'
  BY <1>1, <1>4, <1>8, VariablesStay
<1>11. StringsRead'
  BY <1>1, <1>4, <1>8, StringsStay
<1>12. FunctionsRead'
  <2>1. /\ status \in InVm \ {"funs", "class", "loaded"}
        /\ status' \in InVm \ {"funs", "class", "loaded"}
    BY <1>1, <1>2
  <2> QED
    BY <1>1, <1>4, <1>8, <2>1, FunctionsStay
<1> QED
  BY <1>1, <1>2, <1>3, <1>9, <1>10, <1>11, <1>12, LoaderStep

(* The other tables while the functions are read.                          *)
LEMMA TablesStay ==
  ASSUME IInv, UNCHANGED compilerVars,
         status \in {"fun", "funs", "class"}, status' \in {"funs", "class", "loaded"},
         vm'.metatable = vm.metatable, vm'.stringtable = vm.stringtable,
         vm'.jumptable = vm.jumptable, vm'.max_marks = vm.max_marks
  PROVE  VariablesRead' /\ StringsRead' /\ JumpsRead'
<1>1. status \in InVm /\ status' \in InVm
  BY DEF InVm, Loading
<1>2. VariablesRead /\ StringsRead /\ JumpsRead
  BY <1>1 DEF IInv, LoaderInv
<1>3. VariablesRead'
  BY <1>2, VariablesStay
<1>4. StringsRead'
  BY <1>2, StringsStay
<1>5. JumpsRead'
  BY <1>1, <1>2, JumpsStay
<1> QED
  BY <1>3, <1>4, <1>5

LEMMA FunctionsCompiled ==
  ASSUME UNCHANGED compilerVars
  PROVE  /\ \A m : LoadedFunction(m)' = LoadedFunction(m)
         /\ \A m : Exact(m)' = Exact(m)
         /\ \A k : InPlace(k)' = InPlace(k)
         /\ \A k : Enough(k)' = Enough(k)
         /\ Enough(Len(vm.funtable))' = Enough(Len(vm'.funtable))
         /\ InPlace(Len(vm.funtable) + 1)' = InPlace(Len(vm'.funtable) + 1)
         /\ FunAt' = FunAt
<1>1. jumptable' = jumptable
  BY DEF compilerVars
<1>2. \A m : LoadedFunction(m)' = LoadedFunction(m)
  BY <1>1 DEF LoadedFunction, FindLabel
<1>3. \A k : InPlace(k)' = InPlace(k)
  BY <1>1 DEF InPlace, ParentCalls
<1>4. \A k : Enough(k)' = Enough(k)
  BY <1>1 DEF Enough, InPlace, ParentCalls
<1>5. \A m : Exact(m)' = Exact(m)
  BY <1>1 DEF Exact, InPlace, OwnFirst, ParentCalls, FindLabel
<1>6. Enough(Len(vm.funtable))' = Enough(Len(vm'.funtable))
  BY <1>1 DEF Enough, InPlace, ParentCalls
<1>7. InPlace(Len(vm.funtable) + 1)' = InPlace(Len(vm'.funtable) + 1)
  BY <1>1 DEF InPlace, ParentCalls
<1> QED
  BY <1>2, <1>3, <1>4, <1>5, <1>6, <1>7, CompilerStays

(* The table of the functions after a step that reads of it.               *)
LEMMA FunctionsStep ==
  ASSUME UNCHANGED compilerVars, status' = "funs", vm'.funtable_size = Len(Methods),
         NEW t, t = vm'.funtable,
         \A m \in 1 .. Len(t) : m <= Len(Methods) /\ Exact(m) => t[m] = LoadedFunction(m),
         cloc' \in FunAt + 2 .. Len(file') - 1,
         \/ /\ Len(t) < Len(Methods) /\ InPlace(Len(t) + 1)
            /\ cloc' = FunAt + 2 + 3 * Len(t) /\ vm'.left = Len(Methods) + 1 - Len(t)
         \/ Enough(Len(t))
  PROVE  FunctionsRead'
<1>1. FunAt' = FunAt
  BY FunctionsCompiled
<1>2. (AtFunction \/ Enough(Len(vm.funtable)))'
  <2>1. CASE Enough(Len(t))
    BY <2>1, FunctionsCompiled
  <2>2. CASE /\ Len(t) < Len(Methods) /\ InPlace(Len(t) + 1)
             /\ cloc' = FunAt + 2 + 3 * Len(t) /\ vm'.left = Len(Methods) + 1 - Len(t)
    <3>1. InPlace(Len(vm.funtable) + 1)'
      BY <2>2, FunctionsCompiled
    <3> QED
      BY <1>1, <2>2, <3>1 DEF AtFunction
  <2> QED
    BY <2>1, <2>2
<1>3. \A m \in 1 .. Len(vm'.funtable) :
        m <= Len(Methods) /\ Exact(m)' => vm'.funtable[m] = LoadedFunction(m)'
  BY FunctionsCompiled
<1> QED
  BY <1>1, <1>2, <1>3 DEF FunctionsRead

LEMMA StillEnough ==
  ASSUME NEW k \in Nat, Enough(k)
  PROVE  Enough(k + 1)
<1> SUFFICES ASSUME k + 1 < Len(Methods)
             PROVE  ~InPlace((k + 1) + 1)
  BY DEF Enough
<1>1. k < Len(Methods)
  BY MethodTypes
<1>2. PICK i \in 1 .. (k + 1) - 1 : ~(Methods[i].pars = 0 /\ ParentCalls(Methods[i].name) = {})
  BY <1>1 DEF Enough, InPlace
<1>3. i \in 1 .. ((k + 1) + 1) - 1
  BY <1>2
<1> QED
  BY <1>2, <1>3 DEF InPlace

LEMMA EnterFunctionsIInv ==
  ASSUME IInv, EnterFunctions
  PROVE  IInv'
<1>1. /\ status = "fun" /\ status \in InVm
      /\ UNCHANGED <<compilerVars, file>>
      /\ vm' = [vm EXCEPT !.funtable_size = file[Location("fun") + 1].value,
                          !.left = file[Location("fun") + 1].value + 1]
      /\ cloc' = Location("fun") + 2
      /\ status' = IF file[Location("fun") + 1].value = 0 THEN "class" ELSE "funs"
  BY DEF EnterFunctions, Enter, InVm, Loading
<1>2. /\ file[FunAt + 1].value = Len(Methods) /\ Location("fun") = FunAt /\ FunAt \in Nat
  BY <1>1, FileLayout DEF FunLayout
<1>3. /\ cloc' = FunAt + 2 /\ status' = IF Len(Methods) = 0 THEN "class" ELSE "funs"
      /\ vm' = [vm EXCEPT !.funtable_size = Len(Methods), !.left = Len(Methods) + 1]
  BY <1>1, <1>2
<1>4. Len(Methods) \in Nat /\ vm \in Machines /\ UNCHANGED compilerVars
  BY <1>1, MethodTypes DEF IInv, TypeOK
<1>5. /\ vm' \in Machines /\ vm'.left = Len(Methods) + 1 /\ vm'.funtable_size = Len(Methods)
      /\ vm'.metatable = vm.metatable /\ vm'.stringtable = vm.stringtable
      /\ vm'.jumptable = vm.jumptable /\ vm'.funtable = vm.funtable
      /\ vm'.max_marks = vm.max_marks
  <2>1. PICK k : k = [vm EXCEPT !.funtable_size = Len(Methods)]
    OBVIOUS
  <2>2. vm' = [k EXCEPT !.left = Len(Methods) + 1]
    BY <1>3, <2>1, Zenon
  <2>3. Len(Methods) \in Int /\ Len(Methods) + 1 \in Int
    BY <1>4
  <2>4. /\ k \in Machines /\ k.funtable_size = Len(Methods)
        /\ k.metatable = vm.metatable /\ k.stringtable = vm.stringtable
        /\ k.jumptable = vm.jumptable /\ k.funtable = vm.funtable
        /\ k.max_marks = vm.max_marks
    BY <1>4, <2>1, <2>3, SetSize
  <2> QED
    BY <2>2, <2>3, <2>4, SetLeft
<1>6. status' \in {"funs", "class"} /\ status' \in InVm
  BY <1>3 DEF InVm, Loading
<1>7. FunctionsRead'
  <2>1. vm'.funtable = <<>> /\ Len(vm'.funtable) = 0
    BY <1>1, <1>5 DEF IInv, LoaderInv, FunctionsRead
  <2>2. CASE Len(Methods) = 0
    <3>1. Enough(0)
      BY <2>2 DEF Enough
    <3>2. Enough(Len(vm.funtable))'
      BY <1>4, <2>1, <3>1, FunctionsCompiled
    <3> QED
      BY <1>3, <1>5, <2>1, <2>2, <3>2 DEF FunctionsRead
  <2>3. CASE Len(Methods) # 0
    <3>1. InPlace(0 + 1) /\ 0 < Len(Methods)
      BY <1>4, <2>3 DEF InPlace
    <3>2. cloc' \in FunAt + 2 .. Len(file') - 1 /\ cloc' = FunAt + 2 + 3 * 0
      BY <1>1, <1>2, <1>3, FileLayout DEF FunLayout
    <3>3. vm'.left = Len(Methods) + 1 - 0
      BY <1>4, <1>5
    <3>4. status' = "funs"
      BY <1>3, <2>3
    <3>5. PICK t : t = vm'.funtable
      OBVIOUS
    <3>6. Len(t) = 0 /\ \A m \in 1 .. Len(t) : FALSE
      BY <2>1, <3>5
    <3> QED
      BY <1>4, <1>5, <3>1, <3>2, <3>3, <3>4, <3>5, <3>6, FunctionsStep
  <2> QED
    BY <2>2, <2>3
<1>8. VariablesRead' /\ StringsRead' /\ JumpsRead'
  BY <1>1, <1>4, <1>5, <1>6, TablesStay
<1>9. cloc' \in Nat
  BY <1>2, <1>3
<1> QED
  BY <1>1, <1>5, <1>6, <1>7, <1>8, <1>9, LoaderStep

LEMMA ReadFunctionIInv ==
  ASSUME IInv, ReadFunction
  PROVE  IInv'
<1> DEFINE k == Len(vm.funtable)
           n == Len(Methods)
           r == [jmptable_index |-> Field(0), name |-> Text(1), parameter_count |-> Field(2)]
<1>1. /\ status = "funs" /\ vm.left > 0 /\ file[cloc].size = "word"
      /\ UNCHANGED <<compilerVars, file>> /\ status' = status
      /\ vm' = [vm EXCEPT !.left = @ - 1, !.funtable = Append(@, r)]
      /\ cloc' = cloc + 3
  BY DEF ReadFunction, Read
<1>2. status \in InVm
  BY <1>1 DEF InVm, Loading
<1>3. FunLayout(file)
  BY <1>2, FileLayout
<1>4. CompilerTypeOK /\ vm \in Machines /\ n \in Nat /\ UNCHANGED compilerVars
  BY <1>1, MethodTypes DEF IInv, TypeOK
<1>5. FunctionsRead
  BY <1>2 DEF IInv, LoaderInv
<1>6. k \in Nat /\ vm.funtable \in Seq(LoadedFunctions)
  <2>1. vm.funtable \in Seq(LoadedFunctions)
    BY <1>4, MachineParts
  <2> QED
    BY <2>1
<1>7. /\ FunAt \in Nat /\ cloc \in FunAt + 2 .. Len(file) - 1
      /\ cloc + 3 \in FunAt + 2 .. Len(file) - 1
      /\ file \in Seq(Fields) /\ Len(file) \in Nat /\ cloc \in Nat
  <2>1. file \in Seq(Fields) /\ cloc \in Nat
    BY DEF IInv, TypeOK
  <2>2. FunAt \in Nat /\ cloc \in FunAt + 2 .. Len(file) - 1
    BY <1>1, <1>3, <1>5 DEF FunLayout, FunctionsRead
  <2>3. cloc + 3 <= Len(file) - 1
    BY <1>1, <1>3, <2>2 DEF FunLayout
  <2> QED
    BY <2>1, <2>2, <2>3
<1>8. \/ /\ k < n /\ InPlace(k + 1) /\ cloc = FunAt + 2 + 3 * k
         /\ vm.left = n + 1 - k
      \/ Enough(k)
  BY <1>1, <1>5 DEF FunctionsRead, AtFunction
<1>9. ASSUME k + 1 <= n, Exact(k + 1)
      PROVE  r = LoadedFunction(k + 1)
  <2>1. k < n /\ k \in 0 .. n - 1
    BY <1>4, <1>6, <1>9
  <2>2. InPlace(k + 1) /\ OwnFirst(Methods[k + 1].name)
    BY <1>9 DEF Exact
  <2>3. cloc = FunAt + 2 + 3 * k
    BY <1>8, <2>1, <2>2 DEF Enough
  <2>4. /\ file[cloc] = Word(FindLabel(Methods[k + 1].name) - 1)
        /\ file[cloc + 1] = Name(Methods[k + 1].name)
        /\ file[cloc + 2] = Byte(Methods[k + 1].pars)
    BY <1>3, <2>1, <2>2, <2>3 DEF FunLayout
  <2>5. file[cloc + 0] = file[cloc]
    BY <1>7
  <2> HIDE DEF k
  <2> QED
    BY <2>4, <2>5 DEF Field, Text, Word, Byte, Name, LoadedFunction
<1>10. r \in LoadedFunctions
  <2>1. /\ cloc + 0 \in 1 .. Len(file) /\ cloc + 1 \in 1 .. Len(file)
        /\ cloc + 2 \in 1 .. Len(file)
    BY <1>7
  <2>2. /\ file[cloc + 0] \in Fields /\ file[cloc + 1] \in Fields
        /\ file[cloc + 2] \in Fields
    BY <1>7, <2>1
  <2> QED
    BY <2>2 DEF Fields, Field, Text, LoadedFunctions
<1> HIDE DEF r
<1>11. /\ vm' \in Machines /\ vm'.funtable = Append(vm.funtable, r)
       /\ vm'.left = vm.left - 1 /\ vm'.funtable_size = vm.funtable_size
       /\ vm'.metatable = vm.metatable /\ vm'.stringtable = vm.stringtable
       /\ vm'.jumptable = vm.jumptable /\ vm'.max_marks = vm.max_marks
  <2>1. PICK m : m = [vm EXCEPT !.left = vm.left - 1]
    OBVIOUS
  <2>2. vm' = [m EXCEPT !.funtable = Append(@, r)]
    BY <1>1, <2>1, Zenon
  <2>3. vm.left - 1 \in Int
    BY <1>4, MachineParts
  <2>4. /\ m \in Machines /\ m.left = vm.left - 1 /\ m.funtable = vm.funtable
        /\ m.metatable = vm.metatable /\ m.stringtable = vm.stringtable
        /\ m.jumptable = vm.jumptable /\ m.max_marks = vm.max_marks
        /\ m.funtable_size = vm.funtable_size
    BY <1>4, <2>1, <2>3, SetLeft
  <2> QED
    BY <1>10, <2>2, <2>4, AddFunction
<1>12. PICK t : t = vm'.funtable
  OBVIOUS
<1>13. /\ Len(t) = k + 1 /\ t[k + 1] = r
       /\ \A i \in 1 .. k : t[i] = vm.funtable[i]
       /\ \A i \in 1 .. Len(t) : i = k + 1 \/ i \in 1 .. k
  BY <1>6, <1>10, <1>11, <1>12, CopyOne
<1>14. \A m \in 1 .. Len(t) : m <= n /\ Exact(m) => t[m] = LoadedFunction(m)
  <2>1. \A m \in 1 .. k : m <= n /\ Exact(m) => vm.funtable[m] = LoadedFunction(m)
    BY <1>5 DEF FunctionsRead
  <2> HIDE DEF k, n
  <2> QED
    BY <1>9, <1>13, <2>1
<1>15. \/ /\ Len(t) < n /\ InPlace(Len(t) + 1)
          /\ cloc' = FunAt + 2 + 3 * Len(t) /\ vm'.left = n + 1 - Len(t)
       \/ Enough(Len(t))
  <2>1. CASE Enough(k)
    BY <1>6, <1>13, <2>1, StillEnough
  <2>2. CASE /\ k < n /\ InPlace(k + 1) /\ cloc = FunAt + 2 + 3 * k
             /\ vm.left = n + 1 - k
    <3>1. CASE k + 1 < n /\ InPlace((k + 1) + 1)
      <4>1. cloc' = FunAt + 2 + 3 * (k + 1) /\ vm'.left = n + 1 - (k + 1)
        <5>1. /\ cloc' = cloc + 3 /\ cloc = FunAt + 2 + 3 * k
              /\ vm'.left = vm.left - 1 /\ vm.left = n + 1 - k
          BY <1>1, <1>11, <2>2
        <5>2. k \in Nat /\ n \in Nat /\ FunAt \in Nat
          BY <1>4, <1>6, <1>7
        <5> HIDE DEF k, n
        <5> QED
          BY <5>1, <5>2
      <4> QED
        BY <1>13, <3>1, <4>1
    <3>2. CASE ~(k + 1 < n /\ InPlace((k + 1) + 1))
      BY <1>13, <3>2 DEF Enough
    <3> QED
      BY <3>1, <3>2
  <2> QED
    BY <1>8, <2>1, <2>2
<1>16. FunctionsRead'
  <2>1. vm'.funtable_size = n
    BY <1>1, <1>5, <1>11 DEF FunctionsRead
  <2>2. cloc' \in FunAt + 2 .. Len(file') - 1 /\ status' = "funs"
    BY <1>1, <1>7
  <2> QED
    BY <1>4, <1>12, <1>14, <1>15, <2>1, <2>2, FunctionsStep
<1>17. VariablesRead' /\ StringsRead' /\ JumpsRead'
  BY <1>1, <1>4, <1>11, TablesStay
<1>18. cloc' \in Nat
  BY <1>1, <1>7
<1> QED
  BY <1>1, <1>2, <1>11, <1>16, <1>17, <1>18, LoaderStep

(* The loader stands where no function begins.                             *)
LEMMA GarbageIsBehind ==
  ASSUME IInv, status = "funs", file[cloc].size # "word" \/ vm.left = 0
  PROVE  /\ Enough(Len(vm.funtable)) /\ Len(vm.funtable) \in Nat
         /\ cloc \in FunAt + 2 .. Len(file) - 1
         /\ \A m \in 1 .. Len(vm.funtable) :
              m <= Len(Methods) /\ Exact(m) => vm.funtable[m] = LoadedFunction(m)
         /\ vm.funtable_size = Len(Methods)
<1> DEFINE k == Len(vm.funtable)
           n == Len(Methods)
<1>1. status \in InVm
  BY DEF InVm, Loading
<1>2. FunLayout(file)
  BY <1>1, FileLayout
<1>3. FunctionsRead
  BY <1>1 DEF IInv, LoaderInv
<1>4. k \in Nat /\ n \in Nat
  <2>1. vm.funtable \in Seq(LoadedFunctions)
    BY MachineParts DEF IInv, TypeOK
  <2> QED
    BY <2>1, MethodTypes
<1>5. ~AtFunction
  <2> SUFFICES ASSUME AtFunction
               PROVE  FALSE
    OBVIOUS
  <2>1. k < n /\ InPlace(k + 1) /\ cloc = FunAt + 2 + 3 * k /\ vm.left = n + 1 - k
    BY DEF AtFunction
  <2>2. vm.left > 0
    <3> HIDE DEF k, n
    <3> QED
      BY <1>4, <2>1
  <2>3. k \in 0 .. n - 1
    BY <1>4, <2>1
  <2>4. file[cloc].size = "word"
    BY <1>2, <2>1, <2>3 DEF FunLayout
  <2> QED
    BY <2>2, <2>4
<1> QED
  BY <1>3, <1>4, <1>5 DEF FunctionsRead

LEMMA CrashIInv ==
  ASSUME IInv, Crash
  PROVE  IInv'
<1>1. /\ status' = "crashed" /\ file' = <<>> /\ vm' = EmptyMachine /\ cloc' = 1
      /\ UNCHANGED compilerVars
  BY DEF Crash
<1>2. CompilerTypeOK' /\ CompilerInv'
  BY <1>1, CompilerStays DEF IInv, TypeOK
<1>3. EmptyMachine \in Machines
  BY DEF EmptyMachine, Machines
<1>4. TypeOK'
  BY <1>1, <1>2, <1>3 DEF TypeOK
<1>5. status' \notin InVm /\ status' # "compile"
  BY <1>1 DEF InVm, Loading
<1> QED
  BY <1>2, <1>4, <1>5 DEF IInv, FileInv

LEMMA ReadGarbageIInv ==
  ASSUME IInv, ReadGarbage
  PROVE  IInv'
<1> DEFINE k == Len(vm.funtable)
           n == Len(Methods)
           r == [jmptable_index |-> 0, name |-> "garbage", parameter_count |-> 0]
<1>1. status = "funs" /\ vm.left > 0 /\ file[cloc].size # "word" /\ status \in InVm
  BY DEF ReadGarbage, InVm, Loading
<1>2. /\ Enough(k) /\ k \in Nat /\ vm.funtable_size = n
      /\ cloc \in FunAt + 2 .. Len(file) - 1
      /\ \A m \in 1 .. k : m <= n /\ Exact(m) => vm.funtable[m] = LoadedFunction(m)
  BY <1>1, GarbageIsBehind
<1>3. n \in Nat /\ vm \in Machines /\ cloc \in Nat
  BY MethodTypes DEF IInv, TypeOK
<1>4. CASE Crash
  BY <1>4, CrashIInv
<1>5. CASE /\ vm' = [vm EXCEPT !.left = 0]
           /\ UNCHANGED <<compilerVars, file, cloc, status>>
  <2>1. /\ vm' \in Machines /\ vm'.metatable = vm.metatable
        /\ vm'.stringtable = vm.stringtable /\ vm'.jumptable = vm.jumptable
        /\ vm'.funtable = vm.funtable /\ vm'.funtable_size = vm.funtable_size
        /\ vm'.max_marks = vm.max_marks
    <3>1. 0 \in Int
      OBVIOUS
    <3> QED
      BY <1>3, <1>5, <3>1, SetLeft
  <2>2. UNCHANGED compilerVars /\ file' = file /\ cloc' = cloc /\ status' = status
    BY <1>5
  <2>3. VariablesRead' /\ StringsRead' /\ JumpsRead'
    BY <1>1, <2>1, <2>2, TablesStay
  <2>4. vm'.funtable_size = n /\ status' = "funs" /\ cloc' \in FunAt + 2 .. Len(file') - 1
    BY <1>1, <1>2, <2>1, <2>2
  <2>5. PICK t : t = vm'.funtable
    OBVIOUS
  <2>6. FunctionsRead'
    BY <1>2, <2>1, <2>2, <2>4, <2>5, FunctionsStep
  <2> QED
    BY <1>1, <1>3, <2>1, <2>2, <2>3, <2>6, LoaderStep
<1>6. CASE /\ vm' = [vm EXCEPT !.left = @ - 1, !.funtable = Append(@, r)]
           /\ UNCHANGED <<compilerVars, file, cloc, status>>
  <2>1. r \in LoadedFunctions
    BY DEF LoadedFunctions, Texts
  <2> HIDE DEF r
  <2>2. /\ vm' \in Machines /\ vm'.funtable = Append(vm.funtable, r)
        /\ vm'.funtable_size = vm.funtable_size
        /\ vm'.metatable = vm.metatable /\ vm'.stringtable = vm.stringtable
        /\ vm'.jumptable = vm.jumptable /\ vm'.max_marks = vm.max_marks
    <3>1. PICK m : m = [vm EXCEPT !.left = vm.left - 1]
      OBVIOUS
    <3>2. vm' = [m EXCEPT !.funtable = Append(@, r)]
      BY <1>6, <3>1, Zenon
    <3>3. vm.left - 1 \in Int
      BY <1>3, MachineParts
    <3>4. /\ m \in Machines /\ m.funtable = vm.funtable
          /\ m.metatable = vm.metatable /\ m.stringtable = vm.stringtable
          /\ m.jumptable = vm.jumptable /\ m.max_marks = vm.max_marks
          /\ m.funtable_size = vm.funtable_size
      BY <1>3, <3>1, <3>3, SetLeft
    <3> QED
      BY <2>1, <3>2, <3>4, AddFunction
  <2>3. PICK t : t = vm'.funtable
    OBVIOUS
  <2>4. /\ Len(t) = k + 1 /\ \A i \in 1 .. k : t[i] = vm.funtable[i]
        /\ \A i \in 1 .. Len(t) : i = k + 1 \/ i \in 1 .. k
    <3>1. vm.funtable \in Seq(LoadedFunctions)
      BY <1>3, MachineParts
    <3> QED
      BY <2>1, <2>2, <2>3, <3>1, CopyOne
  <2>5. UNCHANGED compilerVars /\ file' = file /\ cloc' = cloc /\ status' = status
    BY <1>6
  <2>6. VariablesRead' /\ StringsRead' /\ JumpsRead'
    BY <1>1, <2>2, <2>5, TablesStay
  <2>7. Enough(k) /\ Enough(k + 1)
    BY <1>2, StillEnough
  <2>8. vm'.funtable_size = n /\ status' = "funs" /\ cloc' \in FunAt + 2 .. Len(file') - 1
    BY <1>1, <1>2, <2>2, <2>5
  <2>9. \A m \in 1 .. Len(t) : m <= n /\ Exact(m) => t[m] = LoadedFunction(m)
    <3> SUFFICES ASSUME NEW m \in 1 .. Len(t), m <= n, Exact(m)
                 PROVE  t[m] = LoadedFunction(m)
      OBVIOUS
    <3>1. CASE m \in 1 .. k
      BY <1>2, <2>4, <3>1
    <3>2. CASE m = k + 1
      <4>1. k < n
        BY <1>2, <1>3, <3>2
      <4> QED
        BY <2>7, <3>2, <4>1 DEF Enough, Exact
    <3> QED
      BY <2>4, <3>1, <3>2
  <2>10. FunctionsRead'
    BY <2>3, <2>4, <2>5, <2>7, <2>8, <2>9, FunctionsStep
  <2> QED
    BY <1>1, <1>3, <2>2, <2>5, <2>6, <2>10, LoaderStep
<1> QED
  BY <1>4, <1>5, <1>6 DEF ReadGarbage

LEMMA EndFunctionsIInv ==
  ASSUME IInv, EndFunctions
  PROVE  IInv'
<1>1. /\ status = "funs" /\ vm.left = 0 /\ status' = "class"
      /\ UNCHANGED <<compilerVars, file>> /\ vm' = vm /\ cloc' = cloc
  BY DEF EndFunctions, Done
<1>2. status \in InVm /\ status' \in InVm
  BY <1>1 DEF InVm, Loading
<1>3. vm \in Machines /\ cloc \in Nat /\ UNCHANGED compilerVars
  BY <1>1 DEF IInv, TypeOK
<1>4. /\ Enough(Len(vm.funtable)) /\ vm.funtable_size = Len(Methods)
      /\ \A m \in 1 .. Len(vm.funtable) :
           m <= Len(Methods) /\ Exact(m) => vm.funtable[m] = LoadedFunction(m)
  BY <1>1, GarbageIsBehind
<1>5. FunctionsRead'
  <2>1. /\ Enough(Len(vm.funtable))'
        /\ \A m \in 1 .. Len(vm'.funtable) :
             m <= Len(Methods) /\ Exact(m)' => vm'.funtable[m] = LoadedFunction(m)'
    BY <1>1, <1>3, <1>4, FunctionsCompiled
  <2> QED
    BY <1>1, <1>4, <2>1 DEF FunctionsRead
<1>6. VariablesRead' /\ StringsRead' /\ JumpsRead'
  BY <1>1, <1>3, TablesStay
<1> QED
  BY <1>1, <1>2, <1>3, <1>5, <1>6, LoaderStep

LEMMA CompleteIInv ==
  ASSUME IInv, Complete
  PROVE  IInv'
<1>1. /\ status = "class" /\ status' = "loaded"
      /\ UNCHANGED <<compilerVars, file>> /\ vm' = vm /\ cloc' = cloc
  BY DEF Complete, Done
<1>2. status \in InVm /\ status' \in InVm
  BY <1>1 DEF InVm, Loading
<1>3. vm \in Machines /\ cloc \in Nat /\ UNCHANGED compilerVars
  BY <1>1 DEF IInv, TypeOK
<1>4. /\ Enough(Len(vm.funtable)) /\ vm.funtable_size = Len(Methods)
      /\ \A m \in 1 .. Len(vm.funtable) :
           m <= Len(Methods) /\ Exact(m) => vm.funtable[m] = LoadedFunction(m)
  BY <1>1, <1>2 DEF IInv, LoaderInv, FunctionsRead
<1>5. FunctionsRead'
  <2>1. /\ Enough(Len(vm.funtable))'
        /\ \A m \in 1 .. Len(vm'.funtable) :
             m <= Len(Methods) /\ Exact(m)' => vm'.funtable[m] = LoadedFunction(m)'
    BY <1>1, <1>3, <1>4, FunctionsCompiled
  <2> QED
    BY <1>1, <1>4, <2>1 DEF FunctionsRead
<1>6. VariablesRead' /\ StringsRead' /\ JumpsRead'
  BY <1>1, <1>3, TablesStay
<1> QED
  BY <1>1, <1>2, <1>3, <1>5, <1>6, LoaderStep

LEMMA LoadIInv ==
  ASSUME IInv, Load
  PROVE  IInv'
BY EnterMetaIInv, ReadVariableIInv, EndMetaIInv, EnterStringsIInv, ReadStringIInv,
   EndStringsIInv, EnterJumpsIInv, ReadJumpIInv, EndJumpsIInv, EnterFunctionsIInv,
   ReadFunctionIInv, ReadGarbageIInv, EndFunctionsIInv, CompleteIInv DEF Load

-----------------------------------------------------------------------------
(* The compiler: the tables grow, and what an operand stands for stays.    *)
LEMMA CompilerStep ==
  ASSUME IInv, status = "compile", status' = "compile", UNCHANGED <<file, vm, cloc>>,
         CompilerTypeOK', LabelsInv', MethodsInv', IndicesInv', OperandsInv'
  PROVE  IInv'
<1>1. file' = file /\ vm' = vm /\ cloc' = cloc
  OBVIOUS
<1>2. TypeOK'
  BY <1>1 DEF IInv, TypeOK
<1>3. status' \notin InVm
  BY DEF InVm, Loading
<1> QED
  BY <1>1, <1>2, <1>3 DEF IInv, FileInv, CompilerInv

LEMMA CompilerParts ==
  ASSUME IInv
  PROVE  /\ CompilerTypeOK /\ LabelsInv /\ MethodsInv /\ IndicesInv /\ OperandsInv
         /\ Len(code) \in Nat /\ Len(source) \in Nat /\ Len(jumptable) \in Nat
         /\ Len(stringtable) \in Nat /\ Len(namedmarks) \in Nat
         /\ Len(variables) \in Nat /\ Len(defined) \in Nat
<1>1. CompilerTypeOK /\ LabelsInv /\ MethodsInv /\ IndicesInv /\ OperandsInv
  BY DEF IInv, TypeOK, CompilerInv
<1> QED
  BY <1>1 DEF CompilerTypeOK

(* Entries are added at the end and keep their names.                      *)
Grow ==
  /\ Len(jumptable') \in Nat /\ Len(jumptable) <= Len(jumptable')
  /\ \A i \in 1 .. Len(jumptable) :
       jumptable'[i].parent = jumptable[i].parent /\ jumptable'[i].name = jumptable[i].name
  /\ Len(stringtable') \in Nat /\ Len(stringtable) <= Len(stringtable')
  /\ \A i \in 1 .. Len(stringtable) : stringtable'[i] = stringtable[i]
  /\ Len(namedmarks') \in Nat /\ Len(namedmarks) <= Len(namedmarks')
  /\ \A i \in 1 .. Len(namedmarks) : namedmarks'[i] = namedmarks[i]
  /\ Len(variables') \in Nat /\ Len(variables) <= Len(variables')
  /\ \A i \in 1 .. Len(variables) : variables'[i] = variables[i]

LEMMA StandsStill ==
  ASSUME IInv, Grow, NEW c \in Instructions, NEW s \in Mentions, StandsFor(c, s)
  PROVE  StandsFor(c, s)'
<1>1. c.operand \in Nat
  BY DEF Instructions
<1> DEFINE k == c.operand + 1
<1>2. k = c.operand + 1 /\ k \in Nat
  BY <1>1
<1>0. /\ Len(jumptable) \in Nat /\ Len(stringtable) \in Nat /\ Len(namedmarks) \in Nat
      /\ Len(variables) \in Nat
  BY CompilerParts
<1> HIDE DEF k
<1>3. c.op \in {"jump", "call", "parent"} =>
        /\ InTable(c.operand, jumptable) => InTable(c.operand, jumptable)'
        /\ InTable(c.operand, jumptable) =>
             /\ Entry(c.operand, jumptable)'.parent = Entry(c.operand, jumptable).parent
             /\ Entry(c.operand, jumptable)'.name = Entry(c.operand, jumptable).name
  BY <1>0, <1>2, Zenon, SMT DEF Grow, InTable, Entry
<1>4. InTable(c.operand, stringtable) =>
        /\ InTable(c.operand, stringtable)'
        /\ Entry(c.operand, stringtable)' = Entry(c.operand, stringtable)
  BY <1>0, <1>2 DEF Grow, InTable, Entry
<1>5. InTable(c.operand, namedmarks) =>
        /\ InTable(c.operand, namedmarks)'
        /\ Entry(c.operand, namedmarks)' = Entry(c.operand, namedmarks)
  BY <1>0, <1>2 DEF Grow, InTable, Entry
<1>6. InTable(c.operand, variables) =>
        /\ InTable(c.operand, variables)'
        /\ Entry(c.operand, variables)' = Entry(c.operand, variables)
  BY <1>0, <1>2 DEF Grow, InTable, Entry
<1> QED
  BY <1>3, <1>4, <1>5, <1>6 DEF StandsFor

LEMMA OperandsStay ==
  ASSUME IInv, Grow, code' = code, source' = source
  PROVE  OperandsInv'
<1>1. CompilerTypeOK /\ OperandsInv
  BY CompilerParts
<1>2. \A i \in 1 .. Len(code) : code[i] \in Instructions /\ source[i] \in Mentions
  BY <1>1 DEF CompilerTypeOK, OperandsInv
<1>3. \A i \in 1 .. Len(code) : StandsFor(code[i], source[i])
  BY <1>1 DEF OperandsInv
<1>4. Len(source') = Len(code')
  BY <1>1 DEF OperandsInv
<1>5. ASSUME NEW i \in 1 .. Len(code)
      PROVE  StandsFor(code[i], source[i])'
  <2>1. PICK c, s : c = code[i] /\ s = source[i]
    OBVIOUS
  <2>2. StandsFor(c, s)'
    BY <1>2, <1>3, <2>1, StandsStill
  <2>3. c = code[i]' /\ s = source[i]'
    BY <2>1
  <2>4. StandsFor(code[i], source[i])' = StandsFor(c, s)'
    BY <2>3 DEF StandsFor
  <2> QED
    BY <2>2, <2>4
<1> QED
  BY <1>4, <1>5 DEF OperandsInv

LEMMA OperandsEmitted ==
  ASSUME IInv, Grow, NEW c \in Instructions, NEW s \in Mentions,
         code' = Append(code, c), source' = Append(source, s), StandsFor(c, s)'
  PROVE  OperandsInv'
<1>1. CompilerTypeOK /\ OperandsInv
  BY CompilerParts
<1>2. \A i \in 1 .. Len(code) : code[i] \in Instructions /\ source[i] \in Mentions
  BY <1>1 DEF CompilerTypeOK, OperandsInv
<1>3. \A i \in 1 .. Len(code) : StandsFor(code[i], source[i])
  BY <1>1 DEF OperandsInv
<1>4. code \in Seq(Instructions) /\ source \in Seq(Mentions) /\ Len(source) = Len(code)
  BY <1>1 DEF CompilerTypeOK, OperandsInv
<1>5. PICK d, t : d = code' /\ t = source'
  OBVIOUS
<1>6. /\ Len(d) = Len(code) + 1 /\ d[Len(code) + 1] = c
      /\ \A i \in 1 .. Len(code) : d[i] = code[i]
      /\ \A i \in 1 .. Len(d) : i = Len(code) + 1 \/ i \in 1 .. Len(code)
  BY <1>4, <1>5, CopyOne
<1>7. /\ Len(t) = Len(source) + 1 /\ t[Len(source) + 1] = s
      /\ \A i \in 1 .. Len(source) : t[i] = source[i]
  BY <1>4, <1>5, CopyOne
<1>8. ASSUME NEW i \in 1 .. Len(d)
      PROVE  StandsFor(code[i], source[i])'
  <2>1. PICK e, u : e = d[i] /\ u = t[i]
    OBVIOUS
  <2>2. StandsFor(code[i], source[i])' = StandsFor(e, u)'
    BY <1>5, <2>1 DEF StandsFor
  <2>3. CASE i = Len(code) + 1
    <3>1. e = c /\ u = s
      BY <1>4, <1>6, <1>7, <2>1, <2>3
    <3>2. StandsFor(e, u)'
      BY <3>1
    <3> QED
      BY <2>2, <3>2
  <2>4. CASE i \in 1 .. Len(code)
    <3>1. e = code[i] /\ u = source[i]
      BY <1>4, <1>6, <1>7, <2>1, <2>4
    <3>2. StandsFor(e, u)'
      BY <1>2, <1>3, <2>4, <3>1, StandsStill
    <3> QED
      BY <2>2, <3>2
  <2> QED
    BY <1>6, <2>3, <2>4
<1>9. Len(source') = Len(code')
  BY <1>4, <1>5, <1>6, <1>7
<1> QED
  BY <1>5, <1>8, <1>9 DEF OperandsInv

(* The tables that stay.                                                   *)
LEMMA LabelsStay ==
  ASSUME LabelsInv, MethodsInv, jumptable' = jumptable, defined' = defined, at' = at
  PROVE  LabelsInv' /\ MethodsInv'
BY DEF LabelsInv, MethodsInv, PlaceOf, Find, FindLabel

LEMMA FoundIn ==
  ASSUME NEW S, NEW t \in Seq(S), NEW name,
         NEW i \in 1 .. Len(t), t[i].name = name
  PROVE  Find(t, name) # 0
<1> DEFINE hits == {j \in 1 .. Len(t) : t[j].name = name}
<1>1. hits \subseteq 1 .. Len(t) /\ hits # {}
  OBVIOUS
<1>2. Find(t, name) = LastOf(hits)
  BY DEF Find
<1> HIDE DEF hits
<1> QED
  BY <1>1, <1>2, FindIs

LEMMA FindNames ==
  ASSUME NEW S, NEW t \in Seq(S), NEW name
  PROVE  /\ Find(t, name) \in 0 .. Len(t)
         /\ Find(t, name) # 0 => t[Find(t, name)].name = name
<1> DEFINE hits == {j \in 1 .. Len(t) : t[j].name = name}
<1>1. hits \subseteq 1 .. Len(t)
  OBVIOUS
<1>2. Find(t, name) = LastOf(hits)
  BY DEF Find
<1> HIDE DEF hits
<1>3. /\ LastOf(hits) \in 0 .. Len(t)
      /\ LastOf(hits) = 0 <=> hits = {}
      /\ hits # {} => LastOf(hits) \in hits
  BY <1>1, FindIs
<1> QED
  BY <1>2, <1>3 DEF hits

(* A definition is the place of its label from now on.                     *)
LEMMA FindAppended ==
  ASSUME NEW S, NEW t \in Seq(S), NEW e \in S, NEW u, u = Append(t, e)
  PROVE  Find(u, e.name) = Len(t) + 1
<1>1. /\ Len(u) = Len(t) + 1 /\ u[Len(t) + 1] = e /\ Len(t) \in Nat
  BY CopyOne
<1> DEFINE hits == {j \in 1 .. Len(u) : u[j].name = e.name}
<1>2. Len(t) + 1 \in hits /\ hits \subseteq 1 .. Len(u)
  BY <1>1
<1>3. Find(u, e.name) = LastOf(hits)
  BY DEF Find
<1>4. u \in Seq(S)
  BY AppendProperties
<1> HIDE DEF hits
<1>5. LastOf(hits) \in hits /\ \A i \in hits : i <= LastOf(hits)
  BY <1>2, <1>4, FindIs
<1>6. LastOf(hits) \in 1 .. Len(u) /\ Len(t) + 1 <= LastOf(hits)
  BY <1>2, <1>5
<1> QED
  BY <1>1, <1>3, <1>6

LEMMA FindOther ==
  ASSUME NEW t, NEW u, NEW x, Len(t) \in Nat, Len(u) = Len(t) + 1,
         \A i \in 1 .. Len(t) : u[i] = t[i], u[Len(t) + 1].name # x
  PROVE  Find(u, x) = Find(t, x)
<1>1. /\ \A i \in 1 .. Len(u) : i = Len(t) + 1 \/ i \in 1 .. Len(t)
      /\ \A i : i \in 1 .. Len(t) => i \in 1 .. Len(u)
  OBVIOUS
<1>2. {i \in 1 .. Len(u) : u[i].name = x} = {i \in 1 .. Len(t) : t[i].name = x}
  BY <1>1, Zenon
<1> QED
  BY <1>2, Zenon DEF Find

LEMMA PlaceDefined ==
  ASSUME IInv, NEW name \in Texts, NEW p \in Nat \ {0},
         defined' = Append(defined, [name |-> name, location |-> p])
  PROVE  /\ defined' \in Seq(Places)
         /\ PlaceOf(name)' = p
         /\ \A x : x # name => PlaceOf(x)' = PlaceOf(x)
<1> DEFINE e == [name |-> name, location |-> p]
<1>1. defined \in Seq(Places)
  BY CompilerParts DEF CompilerTypeOK
<1>2. e \in Places /\ e.name = name /\ e.location = p
  BY DEF Places
<1>3. PICK d : d = defined'
  OBVIOUS
<1> HIDE DEF e
<1>4. d = Append(defined, e)
  BY <1>3 DEF e
<1>5. d \in Seq(Places)
  BY <1>1, <1>2, <1>4, AppendProperties
<1>6. /\ Len(d) = Len(defined) + 1 /\ d[Len(defined) + 1] = e /\ Len(defined) \in Nat
      /\ \A i \in 1 .. Len(defined) : d[i] = defined[i]
  BY <1>1, <1>2, <1>4, CopyOne
<1>7. /\ Find(d, name) = Len(defined) + 1
      /\ \A x : x # name => Find(d, x) = Find(defined, x)
  <2>1. e \in Places
    BY <1>2
  <2>2. Find(d, e.name) = Len(defined) + 1
    BY <1>1, <1>4, <2>1, FindAppended
  <2>3. \A x : x # e.name => Find(d, x) = Find(defined, x)
    <3> SUFFICES ASSUME NEW x, x # e.name
                 PROVE  Find(d, x) = Find(defined, x)
      OBVIOUS
    <3>1. d[Len(defined) + 1].name # x
      BY <1>6
    <3> QED
      BY <1>6, <3>1, FindOther
  <2> QED
    BY <1>2, <2>2, <2>3
<1>8. \A x : PlaceOf(x)' = IF Find(d, x) = 0 THEN 0 ELSE d[Find(d, x)].location
  BY <1>3 DEF PlaceOf, Find
<1>9. PlaceOf(name)' = p
  BY <1>2, <1>6, <1>7, <1>8
<1>10. ASSUME NEW x, x # name
       PROVE  PlaceOf(x)' = PlaceOf(x)
  <2>1. Find(defined, x) \in 0 .. Len(defined)
    BY <1>1, FindNames
  <2>2. Find(d, x) = Find(defined, x)
    BY <1>7, <1>10
  <2>3. Find(defined, x) # 0 => d[Find(defined, x)] = defined[Find(defined, x)]
    BY <1>6, <2>1
  <2>4. PlaceOf(x)' = IF Find(defined, x) = 0 THEN 0 ELSE d[Find(defined, x)].location
    BY <1>8, <2>2
  <2> QED
    BY <2>3, <2>4 DEF PlaceOf
<1> QED
  BY <1>3, <1>5, <1>9, <1>10

LEMMA LabelThere ==
  ASSUME CompilerTypeOK', NEW name, NEW i \in 1 .. Len(jumptable'),
         ~jumptable'[i].parent, jumptable'[i].name = name
  PROVE  FindLabel(name)' # 0
<1>1. PICK t : t = jumptable'
  OBVIOUS
<1> DEFINE hits == {j \in 1 .. Len(t) : ~t[j].parent /\ t[j].name = name}
<1>2. hits \subseteq 1 .. Len(t) /\ hits # {} /\ t \in Seq(LabelEntries)
  BY <1>1 DEF CompilerTypeOK
<1>3. FindLabel(name)' = LastOf(hits)
  BY <1>1 DEF FindLabel
<1> HIDE DEF hits
<1> QED
  BY <1>2, <1>3, FindIs

(* The labels that the compiler knows it knows later.                      *)
LEMMA MethodsStay ==
  ASSUME IInv, CompilerTypeOK', Len(jumptable) <= Len(jumptable'),
         \A i \in 1 .. Len(jumptable) :
           jumptable'[i].parent = jumptable[i].parent /\ jumptable'[i].name = jumptable[i].name
  PROVE  \A x : FindLabel(x) # 0 => FindLabel(x)' # 0
<1> SUFFICES ASSUME NEW x, FindLabel(x) # 0
             PROVE  FindLabel(x)' # 0
  OBVIOUS
<1>1. /\ FindLabel(x) \in 1 .. Len(jumptable) /\ ~jumptable[FindLabel(x)].parent
      /\ jumptable[FindLabel(x)].name = x
  BY CompilerParts, FindLabelIs
<1>2. PICK i : i = FindLabel(x)
  OBVIOUS
<1>3. Len(jumptable) \in Nat /\ Len(jumptable') \in Nat
  BY CompilerParts DEF CompilerTypeOK
<1>4. i \in 1 .. Len(jumptable') /\ ~jumptable'[i].parent /\ jumptable'[i].name = x
  BY <1>1, <1>2, <1>3
<1> QED
  BY <1>4, LabelThere

(* A new entry, for a label that has none or for a function of the parent. *)
LEMMA LabelsAppended ==
  ASSUME IInv, CompilerTypeOK', at' = at, defined' = defined, NEW e \in LabelEntries,
         jumptable' = Append(jumptable, e),
         ~e.parent => FindLabel(e.name) = 0 /\ e.location = 0
  PROVE  LabelsInv' /\ MethodsInv'
<1> DEFINE n == Len(jumptable)
<1>1. jumptable \in Seq(LabelEntries) /\ LabelsInv /\ MethodsInv
  BY CompilerParts DEF CompilerTypeOK
<1>2. PICK t : t = jumptable'
  OBVIOUS
<1>3. /\ Len(t) = n + 1 /\ t[n + 1] = e /\ n \in Nat
      /\ \A i \in 1 .. n : t[i] = jumptable[i]
      /\ \A i \in 1 .. Len(t) : i = n + 1 \/ i \in 1 .. n
  BY <1>1, <1>2, CopyOne
<1>4. ~e.parent => \A i \in 1 .. n : jumptable[i].parent \/ jumptable[i].name # e.name
  BY FindLabelIs, CompilerParts
<1>5. \A x : PlaceOf(x)' = PlaceOf(x)
  BY DEF PlaceOf, Find
<1>6. ~e.parent => PlaceOf(e.name) = 0
  <2> SUFFICES ASSUME ~e.parent, Find(defined, e.name) # 0
               PROVE  FALSE
    BY DEF PlaceOf
  <2> DEFINE i == Find(defined, e.name)
  <2>1. i \in 1 .. Len(defined) /\ defined[i].name = e.name
    <3>1. defined \in Seq(Places)
      BY CompilerParts DEF CompilerTypeOK
    <3> QED
      BY <3>1, FindNames
  <2> HIDE DEF i
  <2>2. PICK j \in 1 .. n : ~jumptable[j].parent /\ jumptable[j].name = defined[i].name
    BY <1>1, <2>1 DEF LabelsInv
  <2> QED
    BY <1>4, <2>1, <2>2
<1> HIDE DEF n
<1>7. \A i, j \in 1 .. Len(t) :
        ~t[i].parent /\ ~t[j].parent /\ t[i].name = t[j].name => i = j
  <2>1. \A i, j \in 1 .. n :
          ~jumptable[i].parent /\ ~jumptable[j].parent
            /\ jumptable[i].name = jumptable[j].name => i = j
    BY <1>1 DEF LabelsInv, n
  <2> QED
    BY <1>3, <1>4, <2>1
<1>8. \A i \in 1 .. Len(t) : ~t[i].parent => t[i].location = PlaceOf(t[i].name)'
  <2>1. \A i \in 1 .. n :
          ~jumptable[i].parent => jumptable[i].location = PlaceOf(jumptable[i].name)
    BY <1>1 DEF LabelsInv, n
  <2> QED
    BY <1>3, <1>5, <1>6, <2>1
<1>9. \A i \in 1 .. Len(defined) :
        \E j \in 1 .. Len(t) : ~t[j].parent /\ t[j].name = defined[i].name
  <2> SUFFICES ASSUME NEW i \in 1 .. Len(defined)
               PROVE  \E j \in 1 .. Len(t) : ~t[j].parent /\ t[j].name = defined[i].name
    OBVIOUS
  <2>1. PICK j \in 1 .. n : ~jumptable[j].parent /\ jumptable[j].name = defined[i].name
    BY <1>1 DEF LabelsInv, n
  <2>2. j \in 1 .. Len(t)
    BY <1>3
  <2> QED
    BY <1>3, <2>1, <2>2
<1>10. LabelsInv'
  <2>1. \A i \in 1 .. Len(t) : t[i].name = jumptable'[i].name
    BY <1>2
  <2>2. \A i \in 1 .. Len(jumptable') : ~jumptable'[i].parent =>
          jumptable'[i].location = PlaceOf(jumptable[i].name)'
    <3> SUFFICES ASSUME NEW i \in 1 .. Len(jumptable'), ~jumptable'[i].parent
                 PROVE  jumptable'[i].location = PlaceOf(jumptable[i].name)'
      OBVIOUS
    <3>1. PICK x : x = jumptable'[i].name
      OBVIOUS
    <3>2. PlaceOf(jumptable[i].name)' = PlaceOf(x)'
      BY <3>1 DEF PlaceOf, Find
    <3>3. jumptable'[i].location = PlaceOf(x)'
      BY <1>2, <1>8, <3>1
    <3> QED
      BY <3>2, <3>3
  <2> QED
    BY <1>2, <1>7, <1>9, <2>2 DEF LabelsInv
<1>11. MethodsInv'
  <2>1. /\ Len(jumptable) <= Len(jumptable')
        /\ \A i \in 1 .. Len(jumptable) :
             /\ jumptable'[i].parent = jumptable[i].parent
             /\ jumptable'[i].name = jumptable[i].name
    BY <1>2, <1>3 DEF n
  <2>2. \A x : FindLabel(x) # 0 => FindLabel(x)' # 0
    BY <2>1, MethodsStay
  <2> QED
    BY <1>1, <2>2 DEF MethodsInv, FindLabel
<1> QED
  BY <1>10, <1>11

(* :name:                                                                  *)
LEMMA LabelDefined ==
  ASSUME IInv, NEW name \in Texts, DefineLabel(name)
  PROVE  /\ jumptable' \in Seq(LabelEntries) /\ defined' \in Seq(Places)
         /\ Len(jumptable) <= Len(jumptable')
         /\ \A i \in 1 .. Len(jumptable) :
              /\ jumptable'[i].parent = jumptable[i].parent
              /\ jumptable'[i].name = jumptable[i].name
         /\ \E i \in 1 .. Len(jumptable') :
              ~jumptable'[i].parent /\ jumptable'[i].name = name
         /\ LabelsInv'
<1> DEFINE n == Len(jumptable)
           k == FindLabel(name)
<1>1. jumptable \in Seq(LabelEntries) /\ LabelsInv /\ Len(code) \in Nat /\ n \in Nat
  BY CompilerParts DEF CompilerTypeOK
<1>2. PICK t, d : t = jumptable' /\ d = defined'
  OBVIOUS
<1>3. PICK p : p = Ftell
  OBVIOUS
<1>4. p \in Nat \ {0} /\ p \in Nat
  BY <1>1, <1>3 DEF Ftell
<1>5. /\ d = Append(defined, [name |-> name, location |-> p])
      /\ t = IF k = 0 THEN Append(jumptable, LabelEntry(name, p, General))
             ELSE [jumptable EXCEPT ![k].location = p]
  BY <1>2, <1>3 DEF DefineLabel
<1>6. /\ defined' \in Seq(Places) /\ PlaceOf(name)' = p
      /\ \A x : x # name => PlaceOf(x)' = PlaceOf(x)
  BY <1>2, <1>4, <1>5, PlaceDefined
<1>7. /\ k \in 0 .. n
      /\ k # 0 => ~jumptable[k].parent /\ jumptable[k].name = name
      /\ k = 0 => \A i \in 1 .. n : jumptable[i].parent \/ jumptable[i].name # name
  BY FindLabelIs, CompilerParts
<1> HIDE DEF n, k
<1>8. /\ t \in Seq(LabelEntries) /\ Len(t) \in Nat /\ n <= Len(t)
      /\ \A i \in 1 .. n : t[i].parent = jumptable[i].parent /\ t[i].name = jumptable[i].name
      /\ \A i \in 1 .. n : i = k \/ t[i].location = jumptable[i].location
      /\ \E i \in 1 .. Len(t) : ~t[i].parent /\ t[i].name = name /\ t[i].location = p
      /\ \A i \in 1 .. Len(t) : i \in 1 .. n \/ (t[i].name = name /\ k = 0 /\ i = n + 1)
      /\ k # 0 => t[k].location = p
      /\ Len(t) = n \/ t[Len(t)].location = p
  <2>1. CASE k = 0
    <3>1. PICK e : e = LabelEntry(name, p, General)
      OBVIOUS
    <3>2. e \in LabelEntries /\ ~e.parent /\ e.name = name /\ e.location = p
      BY <1>4, <3>1 DEF LabelEntry, LabelEntries, General
    <3>3. t = Append(jumptable, e)
      BY <1>5, <2>1, <3>1
    <3>4. t \in Seq(LabelEntries)
      BY <1>1, <3>2, <3>3, AppendProperties
    <3>5. /\ Len(t) = n + 1 /\ t[n + 1] = e
          /\ \A i \in 1 .. n : t[i] = jumptable[i]
          /\ \A i \in 1 .. Len(t) : i = n + 1 \/ i \in 1 .. n
      BY <1>1, <3>2, <3>3, CopyOne DEF n
    <3> QED
      BY <1>1, <2>1, <3>2, <3>4, <3>5
  <2>2. CASE k # 0
    <3>1. k \in 1 .. n
      BY <1>1, <1>7, <2>2
    <3>2. PICK e : e = [jumptable[k] EXCEPT !.location = p]
      OBVIOUS
    <3>3. jumptable[k] \in LabelEntries
      BY <1>1, <3>1 DEF n
    <3>4. /\ e \in LabelEntries /\ e.name = jumptable[k].name
          /\ e.parent = jumptable[k].parent /\ e.location = p
      BY <1>4, <3>2, <3>3 DEF LabelEntries
    <3>5. t = [jumptable EXCEPT ![k] = e]
      BY <1>5, <2>2, <3>2, Zenon
    <3>6. /\ t \in Seq(LabelEntries) /\ Len(t) = n
          /\ \A i \in 1 .. n : t[i] = IF i = k THEN e ELSE jumptable[i]
      BY <1>1, <3>1, <3>4, <3>5, ExceptSeq DEF n
    <3> QED
      BY <1>1, <1>7, <3>1, <3>4, <3>6
  <2> QED
    BY <2>1, <2>2
<1>9. \A i, j \in 1 .. Len(t) :
        ~t[i].parent /\ ~t[j].parent /\ t[i].name = t[j].name => i = j
  <2>1. \A i, j \in 1 .. n :
          ~jumptable[i].parent /\ ~jumptable[j].parent
            /\ jumptable[i].name = jumptable[j].name => i = j
    BY <1>1 DEF LabelsInv, n
  <2> QED
    BY <1>7, <1>8, <2>1
<1>10. \A i \in 1 .. Len(t) :
         /\ ~t[i].parent /\ t[i].name = name => t[i].location = p
         /\ ~t[i].parent /\ t[i].name # name => t[i].location = PlaceOf(t[i].name)
  <2> SUFFICES ASSUME NEW i \in 1 .. Len(t), ~t[i].parent
               PROVE  /\ t[i].name = name => t[i].location = p
                      /\ t[i].name # name => t[i].location = PlaceOf(t[i].name)
    OBVIOUS
  <2>1. t[i].name = name => t[i].location = p
    BY <1>8, <1>9
  <2>2. ASSUME t[i].name # name
        PROVE  t[i].location = PlaceOf(t[i].name)
    <3>1. i \in 1 .. n
      BY <1>8, <2>2
    <3>2. i # k
      BY <1>7, <1>8, <2>2, <3>1
    <3>3. t[i].name = jumptable[i].name /\ t[i].location = jumptable[i].location
          /\ ~jumptable[i].parent
      BY <1>8, <3>1, <3>2
    <3>4. jumptable[i].location = PlaceOf(jumptable[i].name)
      BY <1>1, <3>1, <3>3 DEF LabelsInv, n
    <3> QED
      BY <3>3, <3>4
  <2> QED
    BY <2>1, <2>2
<1>11. \A i \in 1 .. Len(jumptable') : ~jumptable'[i].parent =>
         jumptable'[i].location = PlaceOf(jumptable[i].name)'
  <2> SUFFICES ASSUME NEW i \in 1 .. Len(jumptable'), ~jumptable'[i].parent
               PROVE  jumptable'[i].location = PlaceOf(jumptable[i].name)'
    OBVIOUS
  <2>1. PICK x : x = jumptable'[i].name
    OBVIOUS
  <2>2. PlaceOf(jumptable[i].name)' = PlaceOf(x)'
    BY <2>1 DEF PlaceOf, Find
  <2>3. i \in 1 .. Len(t) /\ ~t[i].parent /\ t[i].name = x
        /\ t[i].location = jumptable'[i].location
    BY <1>2, <2>1
  <2>4. CASE x = name
    BY <1>6, <1>10, <2>2, <2>3, <2>4
  <2>5. CASE x # name
    BY <1>6, <1>10, <2>2, <2>3, <2>5
  <2> QED
    BY <2>4, <2>5
<1>12. \A i \in 1 .. Len(d) :
         \E j \in 1 .. Len(t) : ~t[j].parent /\ t[j].name = d[i].name
  <2>1. defined \in Seq(Places)
    BY CompilerParts DEF CompilerTypeOK
  <2>2. PICK e : e = [name |-> name, location |-> p]
    OBVIOUS
  <2>3. e \in Places /\ e.name = name /\ d = Append(defined, e)
    BY <1>4, <1>5, <2>2 DEF Places
  <2>4. /\ d[Len(defined) + 1] = e
        /\ \A i \in 1 .. Len(defined) : d[i] = defined[i]
        /\ \A i \in 1 .. Len(d) : i = Len(defined) + 1 \/ i \in 1 .. Len(defined)
    BY <2>1, <2>3, CopyOne
  <2>5. SUFFICES ASSUME NEW i \in 1 .. Len(d)
                 PROVE  \E j \in 1 .. Len(t) : ~t[j].parent /\ t[j].name = d[i].name
    OBVIOUS
  <2>6. CASE i = Len(defined) + 1
    BY <1>8, <2>3, <2>4, <2>6
  <2>7. CASE i \in 1 .. Len(defined)
    <3>1. PICK j \in 1 .. n : ~jumptable[j].parent /\ jumptable[j].name = defined[i].name
      BY <1>1, <2>7 DEF LabelsInv, n
    <3>2. j \in 1 .. Len(t)
      BY <1>1, <1>8
    <3> QED
      BY <1>8, <2>4, <2>7, <3>1, <3>2
  <2> QED
    BY <2>4, <2>6, <2>7
<1>13. LabelsInv'
  BY <1>2, <1>9, <1>11, <1>12 DEF LabelsInv
<1> QED
  BY <1>2, <1>6, <1>8, <1>13 DEF n

-----------------------------------------------------------------------------
(* The instructions.                                                       *)
LEMMA Emitted ==
  ASSUME IInv, NEW op \in Ops, NEW k \in Nat, NEW name \in Texts, Emit(op, k, name)
  PROVE  /\ \E c \in Instructions, s \in Mentions :
              /\ code' = Append(code, c) /\ source' = Append(source, s)
              /\ c.op = op /\ c.operand = k /\ s.op = op /\ s.name = name
         /\ code' \in Seq(Instructions) /\ source' \in Seq(Mentions)
         /\ at' = at /\ defined' = defined /\ UNCHANGED <<file, vm, cloc>> /\ status' = status
<1>1. code \in Seq(Instructions) /\ source \in Seq(Mentions)
  BY CompilerParts DEF CompilerTypeOK
<1>2. PICK c : c = [op |-> op, operand |-> k, size |-> "word"]
  OBVIOUS
<1>3. PICK s : s = [op |-> op, name |-> name, number |-> 0]
  OBVIOUS
<1>4. c \in Instructions /\ c.op = op /\ c.operand = k
  BY <1>2 DEF Instructions
<1>5. s \in Mentions /\ s.op = op /\ s.name = name
  BY <1>3 DEF Mentions
<1>6. code' = Append(code, c) /\ source' = Append(source, s)
  BY <1>2, <1>3 DEF Emit
<1>7. code' \in Seq(Instructions) /\ source' \in Seq(Mentions)
  BY <1>1, <1>4, <1>5, <1>6, AppendProperties
<1>8. at' = at /\ defined' = defined /\ UNCHANGED <<file, vm, cloc>> /\ status' = status
  BY DEF Emit
<1> QED
  BY <1>4, <1>5, <1>6, <1>7, <1>8

(* jump and call: the entry of the label is there, or is made.             *)
LEMMA Referred ==
  ASSUME IInv, NEW name \in Texts, NEW type \in {General, CallLabel}, Refer(name, type)
  PROVE  /\ jumptable' \in Seq(LabelEntries)
         /\ LabelIndex(name) \in Nat
         /\ Len(jumptable) <= Len(jumptable')
         /\ \A i \in 1 .. Len(jumptable) : jumptable'[i] = jumptable[i]
         /\ LabelIndex(name) + 1 \in 1 .. Len(jumptable')
         /\ ~jumptable'[LabelIndex(name) + 1].parent
         /\ jumptable'[LabelIndex(name) + 1].name = name
         /\ CompilerTypeOK' /\ at' = at /\ defined' = defined => LabelsInv' /\ MethodsInv'
<1> DEFINE n == Len(jumptable)
           k == FindLabel(name)
<1>1. jumptable \in Seq(LabelEntries) /\ n \in Nat
  BY CompilerParts DEF CompilerTypeOK
<1>2. k \in 0 .. n /\ (k # 0 => ~jumptable[k].parent /\ jumptable[k].name = name)
  BY FindLabelIs, CompilerParts
<1>3. CASE k # 0
  <2>1. jumptable' = jumptable /\ LabelIndex(name) = k - 1
    BY <1>3 DEF Refer, LabelIndex
  <2> HIDE DEF k
  <2>2. (k - 1) + 1 = k /\ k - 1 \in Nat /\ k \in 1 .. n
    BY <1>1, <1>2, <1>3
  <2>3. at' = at /\ defined' = defined => LabelsInv' /\ MethodsInv'
    BY <2>1, CompilerParts, LabelsStay
  <2> QED
    BY <1>1, <1>2, <1>3, <2>1, <2>2, <2>3
<1>4. CASE k = 0
  <2>1. PICK e : e = LabelEntry(name, 0, type)
    OBVIOUS
  <2>2. e \in LabelEntries /\ ~e.parent /\ e.name = name /\ e.location = 0
    BY <2>1 DEF LabelEntry, LabelEntries
  <2>3. jumptable' = Append(jumptable, e) /\ LabelIndex(name) = n
    BY <1>4, <2>1 DEF Refer, LabelIndex
  <2>4. jumptable' \in Seq(LabelEntries)
    BY <1>1, <2>2, <2>3, AppendProperties
  <2>5. PICK t : t = jumptable'
    OBVIOUS
  <2>6. /\ Len(t) = n + 1 /\ t[n + 1] = e
        /\ \A i \in 1 .. n : t[i] = jumptable[i]
    BY <1>1, <2>2, <2>3, <2>5, CopyOne
  <2>7. CompilerTypeOK' /\ at' = at /\ defined' = defined => LabelsInv' /\ MethodsInv'
    BY <1>4, <2>2, <2>3, LabelsAppended
  <2> HIDE DEF n, k
  <2>8. n <= Len(t) /\ n + 1 \in 1 .. Len(t)
    BY <1>1, <2>6
  <2> QED
    BY <1>1, <2>2, <2>3, <2>4, <2>5, <2>6, <2>7, <2>8 DEF n
<1> QED
  BY <1>3, <1>4

(* The other tables stay.                                                  *)
LEMMA OnlyLabels ==
  ASSUME IInv, UNCHANGED <<stringtable, namedmarks, variables, max_mark_index>>,
         at' = at, code' \in Seq(Instructions), source' \in Seq(Mentions),
         jumptable' \in Seq(LabelEntries), defined' \in Seq(Places),
         Len(jumptable) <= Len(jumptable'),
         \A i \in 1 .. Len(jumptable) :
           jumptable'[i].parent = jumptable[i].parent /\ jumptable'[i].name = jumptable[i].name
  PROVE  CompilerTypeOK' /\ IndicesInv' /\ Grow
<1>1. stringtable' = stringtable /\ namedmarks' = namedmarks /\ variables' = variables
      /\ max_mark_index' = max_mark_index
  OBVIOUS
<1>2. CompilerTypeOK'
  BY <1>1, CompilerParts DEF CompilerTypeOK
<1>3. IndicesInv'
  BY <1>1, CompilerParts DEF IndicesInv
<1>4. Len(jumptable') \in Nat
  OBVIOUS
<1>5. Grow
  BY <1>1, <1>4, CompilerParts DEF Grow
<1> QED
  BY <1>2, <1>3, <1>5

LEMMA ReferIInv ==
  ASSUME IInv, Emitting, NEW op \in {"jump", "call"}, NEW name \in Texts,
         NEW type \in {General, CallLabel},
         Emit(op, LabelIndex(name), name), Refer(name, type),
         UNCHANGED <<stringtable, namedmarks, variables, max_mark_index>>
  PROVE  IInv'
<1>1. PICK k : k = LabelIndex(name)
  OBVIOUS
<1>2. k \in Nat /\ op \in Ops
  BY <1>1, Referred DEF Ops
<1>3. /\ code' \in Seq(Instructions) /\ source' \in Seq(Mentions)
      /\ at' = at /\ defined' = defined /\ UNCHANGED <<file, vm, cloc>> /\ status' = status
  BY <1>1, <1>2, Emitted
<1>4. PICK c \in Instructions, s \in Mentions :
        /\ code' = Append(code, c) /\ source' = Append(source, s)
        /\ c.op = op /\ c.operand = k /\ s.op = op /\ s.name = name
  BY <1>1, <1>2, Emitted
<1>5. /\ jumptable' \in Seq(LabelEntries) /\ Len(jumptable) <= Len(jumptable')
      /\ \A i \in 1 .. Len(jumptable) : jumptable'[i] = jumptable[i]
      /\ k + 1 \in 1 .. Len(jumptable')
      /\ ~jumptable'[k + 1].parent /\ jumptable'[k + 1].name = name
  BY <1>1, Referred
<1>6. CompilerTypeOK' /\ IndicesInv' /\ Grow
  <2>1. defined' \in Seq(Places)
    BY <1>3, CompilerParts DEF CompilerTypeOK
  <2> QED
    BY <1>3, <1>5, <2>1, OnlyLabels
<1>7. LabelsInv' /\ MethodsInv'
  BY <1>3, <1>6, Referred
<1>8. StandsFor(c, s)'
  BY <1>4, <1>5 DEF StandsFor, InTable, Entry
<1>9. OperandsInv'
  BY <1>4, <1>6, <1>8, OperandsEmitted
<1> QED
  BY <1>3, <1>6, <1>7, <1>9, CompilerStep DEF Emitting

LEMMA JumpIInv ==
  ASSUME IInv, NEW l \in Labels, Jump(l)
  PROVE  IInv'
<1>1. l \in Texts
  BY DEF Texts
<1> QED
  BY <1>1, ReferIInv DEF Jump, General, CallLabel

LEMMA CallIInv ==
  ASSUME IInv, NEW f \in MethodNames, Call(f)
  PROVE  IInv'
<1>1. f \in Texts
  BY DEF Texts
<1> QED
  BY <1>1, ReferIInv DEF Call, General, CallLabel

LEMMA CallOfParentIInv ==
  ASSUME IInv, NEW f \in ParentMethods, CallOfParent(f)
  PROVE  IInv'
<1> DEFINE k == Len(jumptable)
<1>1. /\ Emit("parent", k, f) /\ Emitting
      /\ UNCHANGED <<stringtable, namedmarks, variables, max_mark_index>>
  BY DEF CallOfParent
<1>2. k \in Nat /\ "parent" \in Ops /\ f \in Texts /\ jumptable \in Seq(LabelEntries)
  BY CompilerParts DEF Ops, Texts, CompilerTypeOK
<1>3. /\ code' \in Seq(Instructions) /\ source' \in Seq(Mentions)
      /\ at' = at /\ defined' = defined /\ UNCHANGED <<file, vm, cloc>> /\ status' = status
  BY <1>1, <1>2, Emitted
<1>4. PICK c \in Instructions, s \in Mentions :
        /\ code' = Append(code, c) /\ source' = Append(source, s)
        /\ c.op = "parent" /\ c.operand = k /\ s.op = "parent" /\ s.name = f
  BY <1>1, <1>2, Emitted
<1>5. PICK e : e = [name |-> f, parent |-> TRUE, location |-> 0, type |-> CallLabel]
  OBVIOUS
<1>6. e \in LabelEntries /\ e.parent /\ e.name = f
  BY <1>2, <1>5 DEF LabelEntries, CallLabel
<1>7. jumptable' = Append(jumptable, e)
  BY <1>5 DEF CallOfParent
<1>8. PICK t : t = jumptable'
  OBVIOUS
<1>9. /\ t \in Seq(LabelEntries) /\ Len(t) = k + 1 /\ t[k + 1] = e
      /\ \A i \in 1 .. k : t[i] = jumptable[i]
  BY <1>2, <1>6, <1>7, <1>8, CopyOne, AppendProperties
<1>10. CompilerTypeOK' /\ IndicesInv' /\ Grow
  <2>1. defined' \in Seq(Places)
    BY <1>3, CompilerParts DEF CompilerTypeOK
  <2>2. Len(jumptable) <= Len(jumptable')
    BY <1>2, <1>8, <1>9
  <2> QED
    BY <1>1, <1>3, <1>8, <1>9, <2>1, <2>2, OnlyLabels
<1>11. LabelsInv' /\ MethodsInv'
  BY <1>3, <1>6, <1>7, <1>10, LabelsAppended
<1>12. StandsFor(c, s)'
  <2>1. c.operand + 1 = k + 1 /\ k + 1 \in 1 .. Len(t)
    BY <1>2, <1>4, <1>9
  <2> HIDE DEF k
  <2> QED
    BY <1>4, <1>6, <1>8, <1>9, <2>1 DEF StandsFor, InTable, Entry
<1>13. OperandsInv'
  BY <1>4, <1>10, <1>12, OperandsEmitted
<1> QED
  BY <1>1, <1>3, <1>10, <1>11, <1>13, CompilerStep DEF Emitting

LEMMA StringIInv ==
  ASSUME IInv, NEW s \in Strings, String(s)
  PROVE  IInv'
<1> DEFINE k == Len(stringtable)
<1>1. /\ Emit("string", k, s) /\ Emitting
      /\ jumptable' = jumptable /\ namedmarks' = namedmarks /\ variables' = variables
      /\ max_mark_index' = max_mark_index
  BY DEF String
<1>2. k \in Nat /\ "string" \in Ops /\ s \in Texts /\ stringtable \in Seq(StringEntries)
  BY CompilerParts DEF Ops, Texts, CompilerTypeOK
<1>3. /\ code' \in Seq(Instructions) /\ source' \in Seq(Mentions)
      /\ at' = at /\ defined' = defined /\ UNCHANGED <<file, vm, cloc>> /\ status' = status
  BY <1>1, <1>2, Emitted
<1>4. PICK c \in Instructions, m \in Mentions :
        /\ code' = Append(code, c) /\ source' = Append(source, m)
        /\ c.op = "string" /\ c.operand = k /\ m.op = "string" /\ m.name = s
  BY <1>1, <1>2, Emitted
<1>5. PICK e : e = [index |-> k, string |-> s]
  OBVIOUS
<1>6. e \in StringEntries /\ e.string = s /\ e.index = k
  BY <1>2, <1>5 DEF StringEntries
<1>7. stringtable' = Append(stringtable, e)
  BY <1>5 DEF String
<1>8. PICK t : t = stringtable'
  OBVIOUS
<1>9. /\ t \in Seq(StringEntries) /\ Len(t) = k + 1 /\ t[k + 1] = e
      /\ \A i \in 1 .. k : t[i] = stringtable[i]
      /\ \A i \in 1 .. Len(t) : i = k + 1 \/ i \in 1 .. k
  BY <1>2, <1>6, <1>7, <1>8, CopyOne, AppendProperties
<1>10. CompilerTypeOK'
  BY <1>1, <1>3, <1>8, <1>9, CompilerParts DEF CompilerTypeOK
<1> HIDE DEF k
<1>11. IndicesInv'
  <2>1. \A i \in 1 .. k : stringtable[i].index = i - 1
    BY CompilerParts DEF IndicesInv, k
  <2>2. \A i \in 1 .. Len(t) : t[i].index = i - 1
    BY <1>2, <1>6, <1>9, <2>1
  <2> QED
    BY <1>1, <1>8, <2>2, CompilerParts DEF IndicesInv
<1>12. Grow
  <2>1. k <= Len(t) /\ Len(t) \in Nat
    BY <1>2, <1>9
  <2> QED
    BY <1>1, <1>8, <1>9, <2>1, CompilerParts DEF Grow, k
<1>13. LabelsInv' /\ MethodsInv'
  BY <1>1, <1>3, CompilerParts, LabelsStay
<1>14. StandsFor(c, m)'
  <2>1. c.operand + 1 = k + 1 /\ k + 1 \in 1 .. Len(t)
    BY <1>2, <1>4, <1>9
  <2> QED
    BY <1>4, <1>6, <1>8, <1>9, <2>1 DEF StandsFor, InTable, Entry
<1>15. OperandsInv'
  BY <1>4, <1>12, <1>14, OperandsEmitted
<1> QED
  BY <1>1, <1>3, <1>10, <1>11, <1>13, <1>15, CompilerStep DEF Emitting

LEMMA MarkIInv ==
  ASSUME IInv, NEW x \in Marks, Mark(x)
  PROVE  IInv'
<1> DEFINE i == Find(namedmarks, x)
           n == Len(namedmarks)
<1>1. PICK k : k = IF i = 0 THEN n ELSE i - 1
  OBVIOUS
<1>2. /\ Emit("mark", k, x) /\ Emitting
      /\ jumptable' = jumptable /\ stringtable' = stringtable /\ variables' = variables
      /\ i = 0 => namedmarks' = Append(namedmarks, [name |-> x]) /\ max_mark_index' = n
      /\ i # 0 => namedmarks' = namedmarks /\ max_mark_index' = max_mark_index
  BY <1>1 DEF Mark
<1>3. namedmarks \in Seq(MarkEntries) /\ n \in Nat /\ x \in Texts /\ "mark" \in Ops
  BY CompilerParts DEF CompilerTypeOK, Texts, Ops
<1>4. /\ i \in 0 .. n /\ (i # 0 => namedmarks[i].name = x)
      /\ i = 0 => \A j \in 1 .. n : namedmarks[j].name # x
  BY <1>3, FindNames, FoundIn
<1> HIDE DEF i
<1>5. k \in Nat
  BY <1>1, <1>3, <1>4
<1>6. /\ code' \in Seq(Instructions) /\ source' \in Seq(Mentions)
      /\ at' = at /\ defined' = defined /\ UNCHANGED <<file, vm, cloc>> /\ status' = status
  BY <1>2, <1>3, <1>5, Emitted
<1>7. PICK c \in Instructions, m \in Mentions :
        /\ code' = Append(code, c) /\ source' = Append(source, m)
        /\ c.op = "mark" /\ c.operand = k /\ m.op = "mark" /\ m.name = x
  BY <1>2, <1>3, <1>5, Emitted
<1>8. PICK t : t = namedmarks'
  OBVIOUS
<1>9. /\ \A j, l \in 1 .. n : namedmarks[j].name = namedmarks[l].name => j = l
      /\ n > 0 => max_mark_index = n - 1
      /\ max_mark_index \in Nat
  BY CompilerParts DEF IndicesInv, CompilerTypeOK
<1>10. /\ t \in Seq(MarkEntries) /\ Len(t) \in Nat /\ n <= Len(t)
       /\ \A j \in 1 .. n : t[j] = namedmarks[j]
       /\ k + 1 \in 1 .. Len(t) /\ t[k + 1].name = x
       /\ \A j, l \in 1 .. Len(t) : t[j].name = t[l].name => j = l
       /\ Len(t) > 0 => max_mark_index' = Len(t) - 1
       /\ max_mark_index' \in Nat
  <2>1. CASE i = 0
    <3>1. PICK e : e = [name |-> x]
      OBVIOUS
    <3>2. e \in MarkEntries /\ e.name = x
      BY <1>3, <3>1 DEF MarkEntries
    <3>3. t = Append(namedmarks, e) /\ max_mark_index' = n
      BY <1>2, <1>8, <2>1, <3>1
    <3>4. /\ t \in Seq(MarkEntries) /\ Len(t) = n + 1 /\ t[n + 1] = e
          /\ \A j \in 1 .. n : t[j] = namedmarks[j]
          /\ \A j \in 1 .. Len(t) : j = n + 1 \/ j \in 1 .. n
      BY <1>3, <3>2, <3>3, CopyOne, AppendProperties
    <3> HIDE DEF n
    <3>5. \A j, l \in 1 .. Len(t) : t[j].name = t[l].name => j = l
      BY <1>4, <1>9, <2>1, <3>2, <3>4
    <3>6. k = n
      BY <1>1, <2>1
    <3> QED
      BY <1>3, <3>2, <3>3, <3>4, <3>5, <3>6
  <2>2. CASE i # 0
    <3>1. t = namedmarks /\ max_mark_index' = max_mark_index
      BY <1>2, <1>8, <2>2
    <3> HIDE DEF n
    <3>2. k = i - 1 /\ k + 1 = i /\ i \in 1 .. n
      BY <1>1, <1>3, <1>4, <2>2
    <3>3. Len(t) = n
      BY <3>1 DEF n
    <3> QED
      BY <1>3, <1>4, <1>9, <2>2, <3>1, <3>2, <3>3
  <2> QED
    BY <2>1, <2>2
<1>11. CompilerTypeOK'
  BY <1>2, <1>6, <1>8, <1>10, CompilerParts DEF CompilerTypeOK
<1>12. IndicesInv'
  BY <1>2, <1>8, <1>10, CompilerParts DEF IndicesInv
<1>13. Grow
  BY <1>2, <1>8, <1>10, CompilerParts DEF Grow
<1>14. LabelsInv' /\ MethodsInv'
  BY <1>2, <1>6, CompilerParts, LabelsStay
<1>15. StandsFor(c, m)'
  BY <1>7, <1>8, <1>10 DEF StandsFor, InTable, Entry
<1>16. OperandsInv'
  BY <1>7, <1>13, <1>15, OperandsEmitted
<1> QED
  BY <1>2, <1>6, <1>11, <1>12, <1>14, <1>16, CompilerStep DEF Emitting

LEMMA VariableIInv ==
  ASSUME IInv, NEW x \in Variables, Variable(x)
  PROVE  IInv'
<1> DEFINE i == Find(variables, x)
           n == Len(variables)
<1>1. PICK k : k = IF i = 0 THEN n ELSE variables[i].meta_location
  OBVIOUS
<1>2. /\ Emit("var", k, x) /\ Emitting
      /\ jumptable' = jumptable /\ stringtable' = stringtable /\ namedmarks' = namedmarks
      /\ max_mark_index' = max_mark_index
      /\ i = 0 => variables' = Append(variables, [meta_location |-> n, name |-> x])
      /\ i # 0 => variables' = variables
  BY <1>1 DEF Variable
<1>3. variables \in Seq(VariableEntries) /\ n \in Nat /\ x \in Texts /\ "var" \in Ops
  BY CompilerParts DEF CompilerTypeOK, Texts, Ops
<1>4. i \in 0 .. n /\ (i # 0 => variables[i].name = x)
  BY <1>3, FindNames
<1>5. \A j \in 1 .. n : variables[j].meta_location = j - 1
  BY CompilerParts DEF IndicesInv
<1> HIDE DEF i
<1>6. k = (IF i = 0 THEN n ELSE i - 1) /\ k \in Nat
  BY <1>1, <1>3, <1>4, <1>5
<1>7. /\ code' \in Seq(Instructions) /\ source' \in Seq(Mentions)
      /\ at' = at /\ defined' = defined /\ UNCHANGED <<file, vm, cloc>> /\ status' = status
  BY <1>2, <1>3, <1>6, Emitted
<1>8. PICK c \in Instructions, m \in Mentions :
        /\ code' = Append(code, c) /\ source' = Append(source, m)
        /\ c.op = "var" /\ c.operand = k /\ m.op = "var" /\ m.name = x
  BY <1>2, <1>3, <1>6, Emitted
<1>9. PICK t : t = variables'
  OBVIOUS
<1>10. /\ t \in Seq(VariableEntries) /\ Len(t) \in Nat /\ n <= Len(t)
       /\ \A j \in 1 .. n : t[j] = variables[j]
       /\ k + 1 \in 1 .. Len(t) /\ t[k + 1].name = x
       /\ \A j \in 1 .. Len(t) : t[j].meta_location = j - 1
  <2>1. CASE i = 0
    <3>1. PICK e : e = [meta_location |-> n, name |-> x]
      OBVIOUS
    <3>2. e \in VariableEntries /\ e.name = x /\ e.meta_location = n
      BY <1>3, <3>1 DEF VariableEntries
    <3>3. t = Append(variables, e)
      BY <1>2, <1>9, <2>1, <3>1
    <3>4. /\ t \in Seq(VariableEntries) /\ Len(t) = n + 1 /\ t[n + 1] = e
          /\ \A j \in 1 .. n : t[j] = variables[j]
          /\ \A j \in 1 .. Len(t) : j = n + 1 \/ j \in 1 .. n
      BY <1>3, <3>2, <3>3, CopyOne, AppendProperties
    <3> HIDE DEF n
    <3>5. k = n
      BY <1>6, <2>1
    <3> QED
      BY <1>3, <1>5, <3>2, <3>4, <3>5
  <2>2. CASE i # 0
    <3>1. t = variables
      BY <1>2, <1>9, <2>2
    <3> HIDE DEF n
    <3>2. k = i - 1 /\ k + 1 = i /\ i \in 1 .. n
      BY <1>3, <1>4, <1>6, <2>2
    <3>3. Len(t) = n
      BY <3>1 DEF n
    <3> QED
      BY <1>3, <1>4, <1>5, <2>2, <3>1, <3>2, <3>3
  <2> QED
    BY <2>1, <2>2
<1>11. CompilerTypeOK'
  BY <1>2, <1>7, <1>9, <1>10, CompilerParts DEF CompilerTypeOK
<1>12. IndicesInv'
  BY <1>2, <1>9, <1>10, CompilerParts DEF IndicesInv
<1>13. Grow
  BY <1>2, <1>9, <1>10, CompilerParts DEF Grow
<1>14. LabelsInv' /\ MethodsInv'
  BY <1>2, <1>7, CompilerParts, LabelsStay
<1>15. StandsFor(c, m)'
  BY <1>8, <1>9, <1>10 DEF StandsFor, InTable, Entry
<1>16. OperandsInv'
  BY <1>8, <1>13, <1>15, OperandsEmitted
<1> QED
  BY <1>2, <1>7, <1>11, <1>12, <1>14, <1>16, CompilerStep DEF Emitting

LEMMA LabelIInv ==
  ASSUME IInv, NEW l \in Labels, Label(l)
  PROVE  IInv'
<1>1. /\ Emitting /\ DefineLabel(l) /\ code' = code /\ source' = source /\ at' = at
      /\ UNCHANGED <<stringtable, namedmarks, variables, max_mark_index>>
      /\ UNCHANGED <<file, vm, cloc>> /\ status' = status
  BY DEF Label
<1>2. l \in Texts
  BY DEF Texts
<1>3. CompilerTypeOK' /\ IndicesInv' /\ Grow
  <2>1. code' \in Seq(Instructions) /\ source' \in Seq(Mentions)
    BY <1>1, CompilerParts DEF CompilerTypeOK
  <2> QED
    BY <1>1, <1>2, <2>1, LabelDefined, OnlyLabels
<1>4. LabelsInv'
  BY <1>1, <1>2, LabelDefined
<1>5. MethodsInv'
  <2>1. \A x : FindLabel(x) # 0 => FindLabel(x)' # 0
    BY <1>1, <1>2, <1>3, LabelDefined, MethodsStay
  <2> QED
    BY <1>1, <2>1, CompilerParts DEF MethodsInv, FindLabel
<1>6. OperandsInv'
  BY <1>1, <1>3, OperandsStay
<1> QED
  BY <1>1, <1>3, <1>4, <1>5, <1>6, CompilerStep DEF Emitting

LEMMA MethodIInv ==
  ASSUME IInv, Method
  PROVE  IInv'
<1> DEFINE name == Methods[at + 1].name
<1>1. /\ status = "compile" /\ at < Len(Methods) /\ at' = at + 1
      /\ DefineLabel(name) /\ code' = code /\ source' = source
      /\ UNCHANGED <<stringtable, namedmarks, variables, max_mark_index>>
      /\ UNCHANGED <<file, vm, cloc>> /\ status' = status
  BY DEF Method
<1>2. at \in 0 .. Len(Methods) /\ Len(Methods) \in Nat
  BY CompilerParts, MethodTypes DEF CompilerTypeOK
<1>3. PICK x : x = name
  OBVIOUS
<1>4. at + 1 \in 1 .. Len(Methods) /\ x \in Texts /\ DefineLabel(x)
  BY <1>1, <1>2, <1>3, MethodTypes
<1>5. /\ jumptable' \in Seq(LabelEntries) /\ defined' \in Seq(Places)
      /\ Len(jumptable) <= Len(jumptable')
      /\ \A i \in 1 .. Len(jumptable) :
           /\ jumptable'[i].parent = jumptable[i].parent
           /\ jumptable'[i].name = jumptable[i].name
      /\ \E i \in 1 .. Len(jumptable') : ~jumptable'[i].parent /\ jumptable'[i].name = x
      /\ LabelsInv'
  BY <1>4, LabelDefined
<1>6. stringtable' = stringtable /\ namedmarks' = namedmarks /\ variables' = variables
      /\ max_mark_index' = max_mark_index
  BY <1>1
<1>7. CompilerTypeOK'
  <2>1. at' \in 0 .. Len(Methods)
    BY <1>1, <1>2
  <2> QED
    BY <1>1, <1>5, <1>6, <2>1, CompilerParts DEF CompilerTypeOK
<1>8. IndicesInv'
  BY <1>6, CompilerParts DEF IndicesInv
<1>9. Grow
  <2>1. Len(jumptable') \in Nat
    BY <1>5
  <2> QED
    BY <1>5, <1>6, <2>1, CompilerParts DEF Grow
<1>10. MethodsInv'
  <2>1. \A y : FindLabel(y) # 0 => FindLabel(y)' # 0
    BY <1>5, <1>7, MethodsStay
  <2>2. FindLabel(x)' # 0
    BY <1>5, <1>7, LabelThere
  <2>3. ASSUME NEW m \in 1 .. at'
        PROVE  FindLabel(Methods[m].name)' # 0
    <3>1. CASE m \in 1 .. at
      BY <2>1, <3>1, CompilerParts DEF MethodsInv, FindLabel
    <3>2. CASE m = at + 1
      <4>1. Methods[m].name = x
        BY <1>3, <3>2
      <4>2. FindLabel(Methods[m].name)' = FindLabel(x)'
        BY <4>1 DEF FindLabel
      <4> QED
        BY <2>2, <4>2
    <3> QED
      BY <1>1, <1>2, <3>1, <3>2
  <2> QED
    BY <2>3 DEF MethodsInv
<1>11. OperandsInv'
  BY <1>1, <1>9, OperandsStay
<1> QED
  BY <1>1, <1>5, <1>7, <1>8, <1>10, <1>11, CompilerStep

-----------------------------------------------------------------------------
(* The powers of two.                                                      *)
Double(x) == 2 * x

Powers(g, n) == g = [k \in 0 .. n |-> IF k = 0 THEN 1 ELSE Double(g[k - 1])]

LEMMA PowersExist == \A n \in Nat : \E g : Powers(g, n)
<1> DEFINE S == {n \in Nat : \E g : Powers(g, n)}
<1>1. 0 \in S
  <2>1. Powers([k \in 0 .. 0 |-> 1], 0)
    BY DEF Powers
  <2> QED
    BY <2>1
<1>2. ASSUME NEW n \in Nat, n \in S
      PROVE  n + 1 \in S
  <2>1. PICK g : Powers(g, n)
    BY <1>2
  <2> DEFINE h == [k \in 0 .. n + 1 |->
                     IF k = n + 1 THEN IF k = 0 THEN 1 ELSE Double(g[n]) ELSE g[k]]
  <2>2. Powers(h, n + 1)
    BY <2>1 DEF Powers
  <2> QED
    BY <2>2
<1> HIDE DEF S
<1>3. \A n \in Nat : n \in S
  BY <1>1, <1>2, Induction
<1> QED
  BY <1>3 DEF S

LEMMA PowersAgree ==
  ASSUME NEW m \in Nat, NEW n \in Nat, NEW g, NEW h, Powers(g, m), Powers(h, n)
  PROVE  \A k \in Nat : k <= m /\ k <= n => g[k] = h[k]
<1> DEFINE S == {k \in Nat : k <= m /\ k <= n => g[k] = h[k]}
<1>1. 0 \in S
  BY DEF Powers
<1>2. ASSUME NEW k \in Nat, k \in S
      PROVE  k + 1 \in S
  <2> SUFFICES ASSUME k + 1 <= m, k + 1 <= n
               PROVE  g[k + 1] = h[k + 1]
    OBVIOUS
  <2>1. g[k] = h[k]
    BY <1>2
  <2>2. g[k + 1] = Double(g[k]) /\ h[k + 1] = Double(h[k])
    BY DEF Powers
  <2> QED
    BY <2>1, <2>2
<1> HIDE DEF S
<1>3. \A k \in Nat : k \in S
  BY <1>1, <1>2, Induction
<1> QED
  BY <1>3 DEF S

LEMMA Pow2Is ==
  /\ Pow2[0] = 1
  /\ \A k \in Nat : Pow2[k + 1] = 2 * Pow2[k]
<1> DEFINE Is(f) == f = [k \in Nat |-> IF k = 0 THEN 1 ELSE 2 * f[k - 1]]
<1>1. \E f : Is(f)
  <2> DEFINE G(n) == CHOOSE g : Powers(g, n)
             f == [k \in Nat |-> G(k)[k]]
  <2>1. \A n \in Nat : Powers(G(n), n)
    BY PowersExist
  <2> HIDE DEF G
  <2>2. \A k \in Nat : f[k] = IF k = 0 THEN 1 ELSE 2 * f[k - 1]
    <3> SUFFICES ASSUME NEW k \in Nat
                 PROVE  f[k] = IF k = 0 THEN 1 ELSE 2 * f[k - 1]
      OBVIOUS
    <3>1. Powers(G(k), k)
      BY <2>1
    <3>2. CASE k = 0
      BY <3>1, <3>2 DEF Powers
    <3>3. CASE k # 0
      <4>1. k - 1 \in Nat /\ k - 1 <= k /\ k - 1 <= k - 1 /\ k \in 0 .. k
        BY <3>3
      <4>2. Powers(G(k - 1), k - 1)
        BY <2>1, <4>1
      <4>3. G(k)[k - 1] = G(k - 1)[k - 1]
        BY <3>1, <4>1, <4>2, PowersAgree
      <4>4. G(k)[k] = Double(G(k)[k - 1])
        BY <3>1, <3>3, <4>1 DEF Powers
      <4>5. f[k - 1] = G(k - 1)[k - 1] /\ f[k] = G(k)[k]
        BY <4>1
      <4> HIDE DEF f
      <4> QED
        BY <3>3, <4>3, <4>4, <4>5 DEF Double
    <3> QED
      BY <3>2, <3>3
  <2>3. f = [k \in Nat |-> IF k = 0 THEN 1 ELSE 2 * f[k - 1]]
    <3>1. [k \in Nat |-> f[k]] = [k \in Nat |-> IF k = 0 THEN 1 ELSE 2 * f[k - 1]]
      BY <2>2
    <3>2. f = [k \in Nat |-> f[k]]
      OBVIOUS
    <3> QED
      BY <3>1, <3>2, Zenon
  <2>4. Is(f)
    BY <2>3
  <2> QED
    BY <2>4
<1>2. Pow2 = CHOOSE f : Is(f)
  BY Zenon DEF Pow2
<1>3. Is(Pow2)
  BY <1>1, <1>2, Zenon
<1>4. \A k \in Nat : Pow2[k] = IF k = 0 THEN 1 ELSE 2 * Pow2[k - 1]
  BY <1>3
<1> HIDE DEF Is
<1>5. \A k \in Nat : k + 1 \in Nat /\ k + 1 # 0 /\ (k + 1) - 1 = k
  OBVIOUS
<1> QED
  BY <1>4, <1>5

LEMMA Pow2Type == \A k \in Nat : Pow2[k] \in Nat \ {0}
<1> DEFINE S == {k \in Nat : Pow2[k] \in Nat \ {0}}
<1>1. 0 \in S
  BY Pow2Is
<1>2. ASSUME NEW k \in Nat, k \in S
      PROVE  k + 1 \in S
  BY <1>2, Pow2Is
<1> HIDE DEF S
<1>3. \A k \in Nat : k \in S
  BY <1>1, <1>2, Induction
<1> QED
  BY <1>3 DEF S

LEMMA Pow2Grows == \A j, k \in Nat : j < k => 2 * Pow2[j] <= Pow2[k]
<1> SUFFICES ASSUME NEW j \in Nat
             PROVE  \A k \in Nat : j < k => 2 * Pow2[j] <= Pow2[k]
  OBVIOUS
<1> DEFINE S == {k \in Nat : j < k => 2 * Pow2[j] <= Pow2[k]}
<1>1. 0 \in S
  OBVIOUS
<1>2. ASSUME NEW k \in Nat, k \in S
      PROVE  k + 1 \in S
  <2>1. Pow2[k + 1] = 2 * Pow2[k] /\ Pow2[k] \in Nat \ {0} /\ Pow2[j] \in Nat \ {0}
    BY Pow2Is, Pow2Type
  <2>2. j < k + 1 => j = k \/ j < k
    OBVIOUS
  <2>3. CASE j = k
    BY <2>1, <2>3
  <2>4. CASE j < k
    BY <1>2, <2>1, <2>4
  <2> QED
    BY <2>2, <2>3, <2>4
<1> HIDE DEF S
<1>3. \A k \in Nat : k \in S
  BY <1>1, <1>2, Induction
<1> QED
  BY <1>3 DEF S

(* The widths, and what fits in them.                                      *)
LEMMA Widths ==
  \A s \in {"byte", "short", "long", "huge"} :
    /\ Bits[s] \in Nat \ {0} /\ Bits[s] - 1 \in Nat
    /\ Pow2[Bits[s]] = 2 * Pow2[Bits[s] - 1]
    /\ Pow2[Bits[s] - 1] \in Nat \ {0} /\ Pow2[Bits[s]] \in Nat \ {0}
<1> SUFFICES ASSUME NEW s \in {"byte", "short", "long", "huge"}
             PROVE  /\ Bits[s] \in Nat \ {0} /\ Bits[s] - 1 \in Nat
                    /\ Pow2[Bits[s]] = 2 * Pow2[Bits[s] - 1]
                    /\ Pow2[Bits[s] - 1] \in Nat \ {0} /\ Pow2[Bits[s]] \in Nat \ {0}
  OBVIOUS
<1>1. Bits[s] \in Nat \ {0}
  BY BitsAssumption
<1>2. PICK k : k = Bits[s] - 1
  OBVIOUS
<1>3. k \in Nat /\ Bits[s] = k + 1
  BY <1>1, <1>2
<1>4. Pow2[k + 1] = 2 * Pow2[k] /\ Pow2[k] \in Nat \ {0} /\ Pow2[k + 1] \in Nat \ {0}
  BY <1>3, Pow2Is, Pow2Type
<1> QED
  BY <1>1, <1>2, <1>3, <1>4

LEMMA SizeType ==
  ASSUME NEW n
  PROVE  Size(n) \in {"byte", "short", "long", "huge"}
BY DEF Size

LEMMA ImmediateType ==
  ASSUME NEW n \in Int
  PROVE  Immediate(n) \in Instructions /\ Immediate(n).op = "number"
<1>1. PICK s : s = Size(n)
  OBVIOUS
<1>2. s \in {"byte", "short", "long", "huge"}
  BY <1>1, SizeType
<1>3. PICK p : p = Pow2[Bits[s]]
  OBVIOUS
<1>4. p \in Nat \ {0}
  BY <1>2, <1>3, Widths
<1>5. n % p \in Nat
  BY <1>4
<1>6. Immediate(n) = [op |-> "number", operand |-> n % p, size |-> s]
  BY <1>1, <1>3 DEF Immediate
<1> QED
  BY <1>2, <1>5, <1>6 DEF Instructions, Ops

LEMMA NumberIInv ==
  ASSUME IInv, NEW n \in Literals, Number(n)
  PROVE  IInv'
<1>1. n \in Int
  BY BitsAssumption
<1>2. PICK c : c = Immediate(n)
  OBVIOUS
<1>3. c \in Instructions /\ c.op = "number"
  BY <1>1, <1>2, ImmediateType
<1>4. PICK s : s = [op |-> "number", name |-> "none", number |-> n]
  OBVIOUS
<1>5. s \in Mentions /\ s.op = "number" /\ s.number = n
  BY <1>1, <1>4 DEF Mentions, Ops, Texts
<1>6. /\ Emitting /\ code' = Append(code, c) /\ source' = Append(source, s)
      /\ jumptable' = jumptable /\ stringtable' = stringtable /\ namedmarks' = namedmarks
      /\ variables' = variables /\ max_mark_index' = max_mark_index /\ at' = at
      /\ defined' = defined /\ UNCHANGED <<file, vm, cloc>> /\ status' = status
  BY <1>2, <1>4 DEF Number
<1>7. code \in Seq(Instructions) /\ source \in Seq(Mentions)
  BY CompilerParts DEF CompilerTypeOK
<1>8. code' \in Seq(Instructions) /\ source' \in Seq(Mentions)
  BY <1>3, <1>5, <1>6, <1>7, AppendProperties
<1>9. CompilerTypeOK'
  BY <1>6, <1>8, CompilerParts DEF CompilerTypeOK
<1>10. IndicesInv'
  BY <1>6, CompilerParts DEF IndicesInv
<1>11. Grow
  BY <1>6, CompilerParts DEF Grow
<1>12. LabelsInv' /\ MethodsInv'
  BY <1>6, CompilerParts, LabelsStay
<1>13. StandsFor(c, s)'
  BY <1>2, <1>3, <1>5 DEF StandsFor
<1>14. OperandsInv'
  BY <1>3, <1>5, <1>6, <1>11, <1>13, OperandsEmitted
<1> QED
  BY <1>6, <1>9, <1>10, <1>12, <1>14, CompilerStep DEF Emitting

-----------------------------------------------------------------------------
(* The finalizer, and all steps.                                           *)
LEMMA EmptyTables ==
  /\ EmptyMachine \in Machines
  /\ EmptyMachine.metatable = <<>> /\ EmptyMachine.stringtable = <<>>
  /\ EmptyMachine.jumptable = <<>> /\ EmptyMachine.funtable = <<>>
BY DEF EmptyMachine, Machines

LEMMA FinalizeIInv ==
  ASSUME IInv, Finalize
  PROVE  IInv'
<1>1. /\ status = "compile" /\ at = Len(Methods) /\ file' = Content /\ status' = "meta"
      /\ \A i \in 1 .. Len(jumptable) : jumptable[i].location # 0 \/ jumptable[i].parent
      /\ UNCHANGED compilerVars /\ vm' = vm /\ cloc' = cloc
  BY DEF Finalize
<1>2. vm = EmptyMachine /\ cloc = 1
  BY <1>1 DEF IInv
<1>3. CompilerTypeOK /\ CompilerInv
  BY DEF IInv, TypeOK
<1>4. CompilerTypeOK' /\ CompilerInv' /\ Content' = Content
  BY <1>1, <1>3, CompilerStays
<1>5. file' \in Seq(Fields)
  <2>1. AllCompiled
    BY <1>1, <1>3 DEF AllCompiled
  <2> QED
    BY <1>1, <1>3, <2>1, ContentLayout DEF MagicsLayout
<1>6. /\ vm' \in Machines
      /\ vm'.metatable = <<>> /\ vm'.stringtable = <<>>
      /\ vm'.jumptable = <<>> /\ vm'.funtable = <<>>
  BY <1>1, <1>2, EmptyTables
<1>7. TypeOK'
  BY <1>1, <1>2, <1>4, <1>5, <1>6 DEF TypeOK, InVm, Loading
<1>8. FileInv'
  <2>1. jumptable' = jumptable /\ at' = at
    BY <1>1 DEF compilerVars
  <2> QED
    BY <1>1, <1>4, <2>1 DEF FileInv
<1>9. /\ Len(vm'.metatable) = 0 /\ Len(vm'.stringtable) = 0
      /\ Len(vm'.jumptable) = 0 /\ Len(vm'.funtable) = 0
  BY <1>6
<1>10. /\ Len(variables') \in Nat /\ Len(stringtable') \in Nat /\ Len(jumptable') \in Nat
  BY <1>4 DEF CompilerTypeOK
<1>11. VariablesRead' /\ StringsRead' /\ JumpsRead' /\ FunctionsRead'
  <2>1. VariablesRead'
    BY <1>1, <1>6, <1>9, <1>10 DEF VariablesRead, Copied
  <2>2. StringsRead'
    BY <1>1, <1>6, <1>9, <1>10 DEF StringsRead, Copied
  <2>3. JumpsRead'
    BY <1>1, <1>6, <1>9, <1>10 DEF JumpsRead, Copied
  <2>4. FunctionsRead'
    BY <1>1, <1>6, <1>9 DEF FunctionsRead
  <2> QED
    BY <2>1, <2>2, <2>3, <2>4
<1> QED
  BY <1>1, <1>4, <1>7, <1>8, <1>11 DEF IInv, LoaderInv

LEMMA InitIInv ==
  ASSUME Init
  PROVE  IInv
<1>1. /\ code = <<>> /\ jumptable = <<>> /\ stringtable = <<>> /\ namedmarks = <<>>
      /\ variables = <<>> /\ max_mark_index \in Nat /\ at = 0 /\ source = <<>>
      /\ defined = <<>> /\ file = <<>> /\ vm = EmptyMachine /\ cloc = 1
      /\ status = "compile"
  BY EarlierAssumption DEF Init
<1>2. CompilerTypeOK
  BY <1>1, MethodTypes DEF CompilerTypeOK
<1>3. TypeOK
  BY <1>1, <1>2, EmptyTables DEF TypeOK
<1>4. /\ Len(code) = 0 /\ Len(jumptable) = 0 /\ Len(stringtable) = 0
      /\ Len(namedmarks) = 0 /\ Len(variables) = 0 /\ Len(source) = 0 /\ Len(defined) = 0
  BY <1>1
<1>5. LabelsInv /\ MethodsInv /\ IndicesInv /\ OperandsInv
  BY <1>1, <1>4 DEF LabelsInv, MethodsInv, IndicesInv, OperandsInv
<1>6. status \notin InVm
  BY <1>1 DEF InVm, Loading
<1> QED
  BY <1>1, <1>3, <1>5, <1>6 DEF IInv, CompilerInv, FileInv

LEMMA CompileIInv ==
  ASSUME IInv, Compile
  PROVE  IInv'
<1>1. ASSUME NEW l \in Labels, Label(l) \/ Jump(l)
      PROVE  IInv'
  BY <1>1, LabelIInv, JumpIInv
<1>2. ASSUME NEW f \in MethodNames, Call(f)
      PROVE  IInv'
  BY <1>2, CallIInv
<1>3. ASSUME NEW f \in ParentMethods, CallOfParent(f)
      PROVE  IInv'
  BY <1>3, CallOfParentIInv
<1>4. ASSUME NEW s \in Strings, String(s)
      PROVE  IInv'
  BY <1>4, StringIInv
<1>5. ASSUME NEW m \in Marks, Mark(m)
      PROVE  IInv'
  BY <1>5, MarkIInv
<1>6. ASSUME NEW x \in Variables, Variable(x)
      PROVE  IInv'
  BY <1>6, VariableIInv
<1>7. ASSUME NEW n \in Literals, Number(n)
      PROVE  IInv'
  BY <1>7, NumberIInv
<1>8. CASE Method
  BY <1>8, MethodIInv
<1>9. CASE Finalize
  BY <1>9, FinalizeIInv
<1> QED
  BY <1>1, <1>2, <1>3, <1>4, <1>5, <1>6, <1>7, <1>8, <1>9 DEF Compile

LEMMA StutterIInv ==
  ASSUME IInv, UNCHANGED vars
  PROVE  IInv'
<1>1. /\ UNCHANGED compilerVars /\ file' = file /\ vm' = vm /\ cloc' = cloc
      /\ status' = status
  BY DEF vars
<1>2. CompilerTypeOK' /\ CompilerInv' /\ Content' = Content
  BY <1>1, CompilerStays DEF IInv, TypeOK
<1>3. TypeOK'
  BY <1>1, <1>2 DEF IInv, TypeOK
<1>4. FileInv'
  <2>1. jumptable' = jumptable /\ at' = at
    BY <1>1 DEF compilerVars
  <2> QED
    BY <1>1, <1>2, <2>1 DEF IInv, FileInv
<1>5. LoaderInv => LoaderInv'
  <2>0. /\ jumptable' = jumptable /\ stringtable' = stringtable /\ variables' = variables
        /\ max_mark_index' = max_mark_index
    BY <1>1 DEF compilerVars
  <2>1. VariablesRead => VariablesRead'
    BY <1>1, <2>0 DEF VariablesRead, Copied, LoadedVariable
  <2>2. StringsRead => StringsRead'
    BY <1>1, <2>0, CompilerStays DEF StringsRead, Copied, LoadedString
  <2>3. JumpsRead => JumpsRead'
    <3> SUFFICES ASSUME JumpsRead
                 PROVE  JumpsRead'
      OBVIOUS
    <3>1. Copied(vm.jumptable, LoadedLabel, Len(jumptable))'
      BY <1>1, <2>0 DEF JumpsRead, Copied, LoadedLabel, LabelType
    <3>2. PICK p : p = Len(vm.jumptable)
      OBVIOUS
    <3>3. FileOf(JmpEntry, p)' = FileOf(JmpEntry, p) /\ JmpAt' = JmpAt
      BY <1>1, CompilerStays
    <3>4. Len(vm.jumptable)' = p
      BY <1>1, <3>2
    <3>5. FileOf(JmpEntry, Len(vm.jumptable))' = FileOf(JmpEntry, p)
      BY <3>3, <3>4, Zenon
    <3>6. Len(FileOf(JmpEntry, Len(vm.jumptable)))' = Len(FileOf(JmpEntry, p))
      BY <3>5, Zenon
    <3> QED
      BY <1>1, <2>0, <3>1, <3>2, <3>3, <3>4, <3>6 DEF JumpsRead
  <2>4. FunctionsRead => FunctionsRead'
    <3> SUFFICES ASSUME FunctionsRead
                 PROVE  FunctionsRead'
      OBVIOUS
    <3>1. FunAt' = FunAt
      BY <1>1, FunctionsCompiled
    <3>2. AtFunction => AtFunction'
      <4>1. InPlace(Len(vm.funtable) + 1)' = InPlace(Len(vm.funtable) + 1)
        BY <1>1, FunctionsCompiled
      <4> QED
        BY <1>1, <3>1, <4>1 DEF AtFunction
    <3>3. Enough(Len(vm.funtable))' = Enough(Len(vm.funtable))
      BY <1>1, FunctionsCompiled
    <3>4. \A m \in 1 .. Len(vm'.funtable) :
            m <= Len(Methods) /\ Exact(m)' => vm'.funtable[m] = LoadedFunction(m)'
      BY <1>1, FunctionsCompiled DEF FunctionsRead
    <3> QED
      BY <1>1, <3>1, <3>2, <3>3, <3>4 DEF FunctionsRead
  <2> QED
    BY <2>1, <2>2, <2>3, <2>4 DEF LoaderInv
<1> QED
  BY <1>1, <1>2, <1>3, <1>4, <1>5 DEF IInv

LEMMA NextIInv ==
  ASSUME IInv, [Next]_vars
  PROVE  IInv'
<1>1. CASE Compile
  BY <1>1, CompileIInv
<1>2. CASE Load
  BY <1>2, LoadIInv
<1>3. CASE OutOfMemory
  BY <1>3, CrashIInv DEF OutOfMemory
<1>4. CASE UNCHANGED vars
  BY <1>4, StutterIInv
<1> QED
  BY <1>1, <1>2, <1>3, <1>4 DEF Next

(* The compiler keeps its tables in step with the code, and the loader with *)
(* the file.                                                               *)
THEOREM Invariance == Spec => []IInv
<1>1. Init => IInv
  BY InitIInv
<1>2. IInv /\ [Next]_vars => IInv'
  BY NextIInv
<1> QED
  BY <1>1, <1>2, PTL DEF Spec

-----------------------------------------------------------------------------
(* The machine that has been loaded.                                       *)
LEMMA LoadedTables ==
  ASSUME IInv, Loaded
  PROVE  /\ CompilerTypeOK /\ CompilerInv /\ at = Len(Methods)
         /\ \A i \in 1 .. Len(jumptable) : jumptable[i].location # 0 \/ jumptable[i].parent
         /\ Len(vm.metatable) = Len(variables)
         /\ \A i \in 1 .. Len(variables) : vm.metatable[i] = LoadedVariable(i)
         /\ Len(vm.stringtable) = Len(stringtable)
         /\ \A i \in 1 .. Len(stringtable) : vm.stringtable[i] = LoadedString(i)
         /\ Len(vm.jumptable) = Len(jumptable)
         /\ \A i \in 1 .. Len(jumptable) : vm.jumptable[i] = LoadedLabel(i)
         /\ vm.max_marks = max_mark_index
<1>1. status = "loaded" /\ status \in InVm
  BY DEF Loaded, InVm
<1>2. VariablesRead /\ StringsRead /\ JumpsRead
  BY <1>1 DEF IInv, LoaderInv
<1>3. /\ CompilerTypeOK /\ CompilerInv /\ at = Len(Methods)
      /\ \A i \in 1 .. Len(jumptable) : jumptable[i].location # 0 \/ jumptable[i].parent
  BY <1>1 DEF IInv, TypeOK, FileInv
<1>4. /\ Len(vm.metatable) = Len(variables)
      /\ \A i \in 1 .. Len(variables) : vm.metatable[i] = LoadedVariable(i)
  BY <1>1, <1>2 DEF VariablesRead, Copied
<1>5. /\ Len(vm.stringtable) = Len(stringtable)
      /\ \A i \in 1 .. Len(stringtable) : vm.stringtable[i] = LoadedString(i)
  BY <1>1, <1>2 DEF StringsRead, Copied
<1>6. /\ Len(vm.jumptable) = Len(jumptable)
      /\ \A i \in 1 .. Len(jumptable) : vm.jumptable[i] = LoadedLabel(i)
      /\ vm.max_marks = max_mark_index
  BY <1>1, <1>2 DEF JumpsRead, Copied
<1> QED
  BY <1>3, <1>4, <1>5, <1>6

LEMMA LabelIsReached ==
  ASSUME IInv, Loaded, NEW i, i \in Int, i + 1 \in 1 .. Len(jumptable),
         ~jumptable[i + 1].parent
  PROVE  LabelReached(i, jumptable[i + 1].name)
<1> DEFINE k == i + 1
           e == jumptable[k]
<1>1. vm.jumptable[k] = LoadedLabel(k) /\ Len(vm.jumptable) = Len(jumptable)
  BY LoadedTables
<1>2. e.location # 0 /\ e.location = PlaceOf(e.name) /\ e \in LabelEntries
  BY LoadedTables DEF CompilerInv, LabelsInv, CompilerTypeOK
<1> HIDE DEF k
<1>3. e.location = defined[Find(defined, e.name)].location
  BY <1>2, Zenon DEF PlaceOf
<1>4. LoadedLabel(k).location = e.location /\ LoadedLabel(k).type = e.type
  BY DEF LoadedLabel, LabelType, k
<1>5. e.type # ParentCall
  BY <1>2 DEF LabelEntries, General, CallLabel, ParentCall
<1>6. k \in 1 .. Len(jumptable)
  BY DEF k
<1> QED
  BY <1>1, <1>3, <1>4, <1>5, <1>6 DEF LabelReached, InTable, Entry, k

LEMMA OperandsMean ==
  ASSUME IInv
  PROVE  OperandsResolve
<1> SUFFICES ASSUME Loaded, NEW i \in 1 .. Len(code)
             PROVE
    /\ code[i].op \in {"jump", "call"} => LabelReached(code[i].operand, source[i].name)
    /\ code[i].op = "parent" =>
         /\ InTable(code[i].operand, vm.jumptable)
         /\ Entry(code[i].operand, vm.jumptable).type = ParentCall
         /\ Entry(code[i].operand, vm.jumptable).label_name = source[i].name
    /\ code[i].op = "var" => Resolves(code[i].operand, vm.metatable, source[i].name)
    /\ code[i].op = "string" => Resolves(code[i].operand, vm.stringtable, source[i].name)
  BY DEF OperandsResolve
<1>1. PICK c, s : c = code[i] /\ s = source[i]
  OBVIOUS
<1>2. StandsFor(c, s)
  BY <1>1, CompilerParts DEF OperandsInv
<1>3. c.operand \in Nat
  <2>1. code \in Seq(Instructions)
    BY CompilerParts DEF CompilerTypeOK
  <2>2. c \in Instructions
    BY <1>1, <2>1
  <2> QED
    BY <2>2 DEF Instructions
<1>4. PICK o : o = c.operand
  OBVIOUS
<1>5. PICK k : k = o + 1
  OBVIOUS
<1>6. k - 1 = o /\ k \in Int /\ o \in Int
  BY <1>3, <1>4, <1>5
<1>7. ASSUME c.op \in {"jump", "call"}
      PROVE  LabelReached(o, s.name)
  <2>1. /\ o + 1 \in 1 .. Len(jumptable) /\ ~jumptable[o + 1].parent
        /\ jumptable[o + 1].name = s.name
    BY <1>2, <1>4, <1>7 DEF StandsFor, InTable, Entry
  <2> QED
    BY <1>6, <2>1, LabelIsReached
<1>8. ASSUME c.op = "parent"
      PROVE  /\ InTable(o, vm.jumptable)
             /\ Entry(o, vm.jumptable).type = ParentCall
             /\ Entry(o, vm.jumptable).label_name = s.name
  <2>1. k \in 1 .. Len(jumptable) /\ jumptable[k].parent /\ jumptable[k].name = s.name
    BY <1>2, <1>4, <1>5, <1>8 DEF StandsFor, InTable, Entry
  <2>2. vm.jumptable[k] = LoadedLabel(k) /\ Len(vm.jumptable) = Len(jumptable)
    BY <2>1, LoadedTables
  <2>3. LoadedLabel(k).type = ParentCall /\ LoadedLabel(k).label_name = s.name
    BY <2>1 DEF LoadedLabel, LabelType, General, ParentCall
  <2> QED
    BY <1>5, <2>1, <2>2, <2>3 DEF InTable, Entry
<1>9. ASSUME c.op = "var"
      PROVE  Resolves(o, vm.metatable, s.name)
  <2>1. k \in 1 .. Len(variables) /\ variables[k].name = s.name
    BY <1>2, <1>4, <1>5, <1>9 DEF StandsFor, InTable, Entry
  <2>2. vm.metatable[k] = LoadedVariable(k) /\ Len(vm.metatable) = Len(variables)
    BY <2>1, LoadedTables
  <2>3. variables[k].meta_location = o
    BY <1>6, <2>1, CompilerParts DEF IndicesInv
  <2> QED
    BY <1>5, <2>1, <2>2, <2>3 DEF Resolves, InTable, Entry, LoadedVariable
<1>10. ASSUME c.op = "string"
       PROVE  Resolves(o, vm.stringtable, s.name)
  <2>1. k \in 1 .. Len(stringtable) /\ stringtable[k].string = s.name
    BY <1>2, <1>4, <1>5, <1>10 DEF StandsFor, InTable, Entry
  <2>2. vm.stringtable[k] = LoadedString(k) /\ Len(vm.stringtable) = Len(stringtable)
    BY <2>1, LoadedTables
  <2>3. stringtable[k].index = o
    BY <1>6, <2>1, CompilerParts DEF IndicesInv
  <2> QED
    BY <1>5, <2>1, <2>2, <2>3 DEF Resolves, InTable, Entry, LoadedString
<1> QED
  BY <1>1, <1>4, <1>7, <1>8, <1>9, <1>10

(* Every operand of a loaded program means what the script said.           *)
THEOREM EveryOperandResolves == Spec => []OperandsResolve
BY Invariance, OperandsMean, PTL

LEMMA MarksAreListed ==
  ASSUME IInv
  PROVE  MarksInList
<1> SUFFICES ASSUME Loaded, NEW i \in 1 .. Len(code), NEW j \in 1 .. Len(code),
                    code[i].op = "mark"
             PROVE
    /\ code[i].operand <= vm.max_marks
    /\ code[j].op = "mark" =>
         ((code[i].operand = code[j].operand) = (source[i].name = source[j].name))
  BY DEF MarksInList
<1>1. \A k \in 1 .. Len(code) : code[k].op = "mark" =>
        /\ code[k].operand \in Nat
        /\ code[k].operand + 1 \in 1 .. Len(namedmarks)
        /\ namedmarks[code[k].operand + 1].name = source[k].name
  <2> SUFFICES ASSUME NEW k \in 1 .. Len(code), code[k].op = "mark"
               PROVE  /\ code[k].operand \in Nat
                      /\ code[k].operand + 1 \in 1 .. Len(namedmarks)
                      /\ namedmarks[code[k].operand + 1].name = source[k].name
    OBVIOUS
  <2>1. code[k] \in Instructions /\ StandsFor(code[k], source[k])
    BY CompilerParts DEF CompilerTypeOK, OperandsInv
  <2> QED
    BY <2>1 DEF Instructions, StandsFor, InTable, Entry
<1>2. PICK o, x : o = code[i].operand /\ x = source[i].name
  OBVIOUS
<1>3. o \in Nat /\ o + 1 \in 1 .. Len(namedmarks) /\ namedmarks[o + 1].name = x
  BY <1>1, <1>2
<1>4. Len(namedmarks) \in Nat
  BY CompilerParts
<1>5. vm.max_marks = Len(namedmarks) - 1
  <2>1. Len(namedmarks) > 0
    BY <1>3, <1>4
  <2> QED
    BY <2>1, LoadedTables, CompilerParts DEF IndicesInv
<1>6. o <= vm.max_marks
  BY <1>3, <1>4, <1>5
<1>7. ASSUME code[j].op = "mark"
      PROVE  (o = code[j].operand) <=> (x = source[j].name)
  <2>1. PICK p, y : p = code[j].operand /\ y = source[j].name
    OBVIOUS
  <2>2. p \in Nat /\ p + 1 \in 1 .. Len(namedmarks) /\ namedmarks[p + 1].name = y
    BY <1>1, <1>7, <2>1
  <2>3. o = p => x = y
    BY <1>3, <2>2
  <2>4. ASSUME x = y
        PROVE  o = p
    <3>1. o + 1 = p + 1
      BY <1>3, <2>2, <2>4, CompilerParts DEF IndicesInv
    <3> QED
      BY <1>3, <2>2, <3>1
  <2> QED
    BY <2>1, <2>3, <2>4
<1>8. code[j].op = "mark" =>
        ((code[i].operand = code[j].operand) = (source[i].name = source[j].name))
  BY <1>2, <1>7, Zenon
<1> QED
  BY <1>2, <1>6, <1>8

(* The list of the marks has an element for every mark, whatever a compiler *)
(* that is new finds in max_mark_index.                                    *)
THEOREM EveryMarkInList == Spec => []MarksInList
BY Invariance, MarksAreListed, PTL

-----------------------------------------------------------------------------
(* Immediates.  A number that is not negative and less than the limit of a  *)
(* size is itself in that size; a negative one needs the widest.           *)
LEMMA Remainders ==
  ASSUME NEW m \in Nat \ {0}, NEW n \in Int
  PROVE  /\ n \in 0 .. m - 1 => n % m = n
         /\ n \in -m .. -1 => n % m = n + m
<1>1. n \in 0 .. m - 1 => n % m = n
  OBVIOUS
<1>2. n \in -m .. -1 => n % m = n + m
  OBVIOUS
<1> QED
  BY <1>1, <1>2

LEMMA Limits ==
  /\ 2 * Pow2[Bits.byte] <= Pow2[Bits.short]
  /\ 2 * Pow2[Bits.short] <= Pow2[Bits.long]
  /\ 2 * Pow2[Bits.long] <= Pow2[Bits.huge]
<1>1. /\ Bits.byte \in Nat /\ Bits.short \in Nat /\ Bits.long \in Nat /\ Bits.huge \in Nat
      /\ Bits.byte < Bits.short /\ Bits.short < Bits.long /\ Bits.long < Bits.huge
  BY BitsAssumption
<1> QED
  BY <1>1, Pow2Grows

(* What is read of a number that was written in a size it fits.            *)
LEMMA ReadBack ==
  ASSUME NEW n \in Int, NEW s, s = Size(n), NEW w, w = Pow2[Bits[s]],
         NEW h, h = Pow2[Bits[s] - 1]
  PROVE  /\ w = 2 * h /\ h \in Nat \ {0}
         /\ n \in 0 .. h - 1 => Survives(n)
         /\ s = "huge" /\ n \in -h .. -1 => Survives(n)
<1>1. s \in {"byte", "short", "long", "huge"}
  BY SizeType
<1>2. w = 2 * h /\ h \in Nat \ {0} /\ w \in Nat \ {0}
  BY <1>1, Widths
<1>3. Immediate(n) = [op |-> "number", operand |-> n % w, size |-> s]
  BY DEF Immediate
<1>4. ReadImmediate(Immediate(n)) = IF n % w < h THEN n % w ELSE (n % w) - w
  <2>1. PICK r : r = n % w
    OBVIOUS
  <2>2. PICK c : c = Immediate(n)
    OBVIOUS
  <2>3. c.operand = r /\ c.size = s
    BY <1>3, <2>1, <2>2
  <2>4. ReadImmediate(c) = IF r < h THEN r ELSE r - w
    BY <2>3 DEF ReadImmediate
  <2> QED
    BY <2>1, <2>2, <2>4
<1>5. n \in 0 .. h - 1 => n % w = n
  <2>1. n \in 0 .. h - 1 => n \in 0 .. w - 1
    BY <1>2
  <2> QED
    BY <1>2, <2>1, Remainders
<1>6. n \in -h .. -1 => n % w = n + w
  <2>1. n \in -h .. -1 => n \in -w .. -1
    BY <1>2
  <2> QED
    BY <1>2, <2>1, Remainders
<1>7. n \in 0 .. h - 1 => Survives(n)
  BY <1>2, <1>4, <1>5 DEF Survives
<1>8. n \in -h .. -1 => Survives(n)
  <2> SUFFICES ASSUME n \in -h .. -1
               PROVE  Survives(n)
    OBVIOUS
  <2>1. n % w = n + w /\ ~(n + w < h) /\ (n + w) - w = n
    BY <1>2, <1>6
  <2> QED
    BY <1>4, <2>1 DEF Survives
<1> QED
  BY <1>2, <1>7, <1>8

LEMMA NumbersAreRead == UnlessChanged
<1> SUFFICES ASSUME NEW n \in Numbers, ~ChangesSign(n)
             PROVE  Survives(n)
  BY DEF UnlessChanged
<1>1. PICK b, s, l, h :
        /\ b = Pow2[Bits.byte - 1] /\ s = Pow2[Bits.short - 1]
        /\ l = Pow2[Bits.long - 1] /\ h = Pow2[Bits.huge - 1]
  OBVIOUS
<1>2. /\ b \in Nat \ {0} /\ s \in Nat \ {0} /\ l \in Nat \ {0} /\ h \in Nat \ {0}
      /\ Pow2[Bits.byte] = 2 * b /\ Pow2[Bits.short] = 2 * s
      /\ Pow2[Bits.long] = 2 * l /\ Pow2[Bits.huge] = 2 * h
  BY <1>1, Widths
<1>3. 2 * b <= s /\ 2 * s <= l /\ 2 * l <= h
  BY <1>2, Limits
<1>4. n \in -h .. h - 1 /\ n \in Int
  BY <1>1, <1>2, BitsAssumption
<1>5. PICK u : u = n % Pow2[Bits.huge]
  OBVIOUS
<1>6. u = IF n < 0 THEN n + 2 * h ELSE n
  <2>1. u = n % (2 * h) /\ 2 * h \in Nat \ {0}
    BY <1>2, <1>5
  <2>2. n \in 0 .. (2 * h) - 1 \/ n \in -(2 * h) .. -1
    BY <1>2, <1>4
  <2> QED
    BY <1>4, <2>1, <2>2, Remainders
<1>7. Size(n) = IF u < 2 * b THEN "byte" ELSE IF u < 2 * s THEN "short"
                ELSE IF u < 2 * l - 1 THEN "long" ELSE "huge"
  BY <1>2, <1>5 DEF Size
<1>8. n \notin b .. 2 * b - 1 /\ n \notin s .. 2 * s - 1 /\ n \notin l .. 2 * l - 2
  BY <1>1, <1>2 DEF ChangesSign
<1>9. CASE u < 2 * b
  <2>1. Size(n) = "byte" /\ n \in 0 .. b - 1
    BY <1>2, <1>3, <1>4, <1>6, <1>7, <1>8, <1>9
  <2> QED
    BY <1>1, <1>4, <2>1, ReadBack
<1>10. CASE ~(u < 2 * b) /\ u < 2 * s
  <2>1. Size(n) = "short" /\ n \in 0 .. s - 1
    BY <1>2, <1>3, <1>4, <1>6, <1>7, <1>8, <1>10
  <2> QED
    BY <1>1, <1>4, <2>1, ReadBack
<1>11. CASE ~(u < 2 * b) /\ ~(u < 2 * s) /\ u < 2 * l - 1
  <2>1. Size(n) = "long" /\ n \in 0 .. l - 1
    BY <1>2, <1>3, <1>4, <1>6, <1>7, <1>8, <1>11
  <2> QED
    BY <1>1, <1>4, <2>1, ReadBack
<1>12. CASE ~(u < 2 * b) /\ ~(u < 2 * s) /\ ~(u < 2 * l - 1)
  <2>1. Size(n) = "huge" /\ (n \in 0 .. h - 1 \/ n \in -h .. -1)
    BY <1>2, <1>4, <1>7, <1>12
  <2> QED
    BY <1>1, <1>4, <2>1, ReadBack
<1> QED
  BY <1>9, <1>10, <1>11, <1>12

LEMMA NumbersAreKept ==
  ASSUME IInv
  PROVE  NumbersSurvive
<1>1. ASSUME NEW i \in 1 .. Len(code), code[i].op = "number"
      PROVE  ReadImmediate(code[i]) = ReadImmediate(Immediate(source[i].number))
  <2>1. code[i] = Immediate(source[i].number)
    BY <1>1, CompilerParts DEF OperandsInv, StandsFor
  <2> QED
    BY <2>1
<1> QED
  BY <1>1, NumbersAreRead DEF NumbersSurvive

(* Every number but those between the limits is read as it was written,    *)
(* for every choice of the widths.                                         *)
THEOREM EveryNumberSurvives == Spec => []NumbersSurvive
BY Invariance, NumbersAreKept, PTL

-----------------------------------------------------------------------------
(* The functions.                                                          *)
LEMMA FirstMethodIs ==
  ASSUME NEW m \in DOMAIN Methods, m = FirstMethod(Methods[m].name)
  PROVE  \A k \in 1 .. m - 1 : Methods[k].name # Methods[m].name
<1> DEFINE name == Methods[m].name
           hits == {i \in 1 .. Len(Methods) : Methods[i].name = name}
<1>1. m \in hits /\ hits \subseteq Nat /\ DOMAIN Methods = 1 .. Len(Methods)
  BY MethodTypes, MethodsAssumption
<1>2. PICK l \in hits : \A i \in hits : l <= i
  <2> HIDE DEF hits
  <2> QED
    BY <1>1, Least
<1>3. \A k \in 1 .. l - 1 : Methods[k].name # name
  <2> SUFFICES ASSUME NEW k \in 1 .. l - 1, Methods[k].name = name
               PROVE  FALSE
    OBVIOUS
  <2>1. k \in hits /\ k < l
    BY <1>1
  <2> QED
    BY <1>1, <1>2, <2>1
<1>4. l \in DOMAIN Methods /\ Methods[l].name = name
  BY <1>1, <1>2
<1> HIDE DEF hits
<1>5. \A k \in 1 .. FirstMethod(name) - 1 : Methods[k].name # name
  BY <1>3, <1>4, Zenon DEF FirstMethod
<1> QED
  BY <1>5

LEMMA FunctionsAreFound ==
  ASSUME IInv
  PROVE  FunctionsFound
<1> SUFFICES ASSUME Loaded, NEW m \in DOMAIN Methods,
                    m = FirstMethod(Methods[m].name), InPlace(m),
                    OwnFirst(Methods[m].name)
             PROVE
      /\ Found(Methods[m].name) # 0
      /\ LabelReached(vm.funtable[Found(Methods[m].name)].jmptable_index, Methods[m].name)
      /\ vm.funtable[Found(Methods[m].name)].parameter_count = Methods[m].pars
  BY DEF FunctionsFound
<1> DEFINE n == Len(Methods)
           k == Len(vm.funtable)
           name == Methods[m].name
<1>1. n \in Nat /\ m \in 1 .. n
  BY MethodTypes, MethodsAssumption
<1>2. status = "loaded" /\ status \in InVm
  BY DEF Loaded, InVm
<1>3. FunctionsRead
  BY <1>2 DEF IInv, LoaderInv
<1>4. k \in Nat
  <2>1. vm.funtable \in Seq(LoadedFunctions)
    BY MachineParts DEF IInv, TypeOK
  <2> QED
    BY <2>1
<1>5. /\ Enough(k) /\ vm.funtable_size = n
      /\ \A i \in 1 .. k : i <= n /\ Exact(i) => vm.funtable[i] = LoadedFunction(i)
  BY <1>2, <1>3 DEF FunctionsRead
<1>6. \A i \in 1 .. m : InPlace(i) /\ Exact(i)
  <2> SUFFICES ASSUME NEW i \in 1 .. m
               PROVE  InPlace(i) /\ OwnFirst(Methods[i].name)
    BY DEF Exact
  <2>1. \A j \in 1 .. i - 1 : j \in 1 .. m - 1
    BY <1>1
  <2>2. InPlace(i)
    BY <2>1 DEF InPlace
  <2>3. i = m \/ i \in 1 .. m - 1
    BY <1>1
  <2>4. ASSUME i \in 1 .. m - 1
        PROVE  OwnFirst(Methods[i].name)
    BY <2>4 DEF InPlace, OwnFirst
  <2> QED
    BY <2>2, <2>3, <2>4
<1> HIDE DEF k, n
<1>7. m \in 1 .. k
  <2> SUFFICES ASSUME k < m
               PROVE  FALSE
    BY <1>1, <1>4
  <2>1. k < n /\ k + 1 \in 1 .. m
    BY <1>1, <1>4
  <2> QED
    BY <1>5, <1>6, <2>1 DEF Enough, n
<1>8. \A i \in 1 .. m : vm.funtable[i] = LoadedFunction(i)
  BY <1>1, <1>4, <1>5, <1>6, <1>7
<1>9. \A i \in 1 .. m : LoadedFunction(i).name = name => i = m
  <2> SUFFICES ASSUME NEW i \in 1 .. m, LoadedFunction(i).name = name
               PROVE  i = m
    OBVIOUS
  <2>1. i \in 1 .. n /\ Methods[i].name = Methods[m].name
    BY <1>1 DEF LoadedFunction
  <2>2. CASE i \in 1 .. m - 1
    BY <1>1, <2>1, <2>2, FirstMethodIs
  <2> QED
    BY <1>1, <2>2
<1>10. Found(name) = m
  <2> DEFINE hits == {i \in 1 .. k : i <= vm.funtable_size /\ vm.funtable[i].name = name}
  <2>1. m \in hits
    <3>1. m \in 1 .. m /\ m <= n
      BY <1>1
    <3>2. vm.funtable[m].name = LoadedFunction(m).name
      BY <1>8, <3>1
    <3>3. vm.funtable[m].name = name
      BY <3>2 DEF LoadedFunction
    <3> QED
      BY <1>5, <1>7, <3>1, <3>3
  <2>2. \A i \in hits : m <= i
    <3> SUFFICES ASSUME NEW i \in hits, i < m
                 PROVE  FALSE
      BY <1>1, <1>4
    <3>1. i \in 1 .. m
      BY <1>1, <1>4
    <3>2. LoadedFunction(i).name = name
      BY <1>8, <3>1
    <3> QED
      BY <1>1, <1>9, <3>1, <3>2
  <2>3. \A i \in hits : i \in Nat
    BY <1>4
  <2>4. Found(name) = IF hits = {} THEN 0 ELSE CHOOSE i \in hits : \A j \in hits : i <= j
    BY DEF Found, k
  <2> HIDE DEF hits, name
  <2>5. Found(name) \in hits /\ \A j \in hits : Found(name) <= j
    <3>1. Found(name) = CHOOSE i \in hits : \A j \in hits : i <= j
      BY <2>1, <2>4
    <3>2. \E i \in hits : \A j \in hits : i <= j
      BY <2>1, <2>2
    <3> QED
      BY <3>1, <3>2, Zenon
  <2>6. m <= Found(name) /\ Found(name) <= m
    BY <2>1, <2>2, <2>5
  <2> QED
    BY <1>1, <2>3, <2>5, <2>6
<1>11. vm.funtable[m] = LoadedFunction(m) /\ m # 0
  BY <1>1, <1>8
<1>12. LabelReached(FindLabel(name) - 1, name)
  <2>1. FindLabel(name) # 0
    BY <1>1, LoadedTables DEF CompilerInv, MethodsInv, n
  <2>2. /\ FindLabel(name) \in 0 .. Len(jumptable) /\ Len(jumptable) \in Nat
        /\ ~jumptable[FindLabel(name)].parent /\ jumptable[FindLabel(name)].name = name
    BY <2>1, FindLabelIs, CompilerParts
  <2>3. PICK f : f = FindLabel(name)
    OBVIOUS
  <2> HIDE DEF name
  <2>4. f - 1 \in Int /\ (f - 1) + 1 = f /\ f \in 1 .. Len(jumptable)
    BY <2>1, <2>2, <2>3
  <2>5. LabelReached(f - 1, jumptable[(f - 1) + 1].name)
    BY <2>2, <2>3, <2>4, LabelIsReached
  <2> QED
    BY <2>2, <2>3, <2>4, <2>5
<1>13. /\ LoadedFunction(m).jmptable_index = FindLabel(name) - 1
       /\ LoadedFunction(m).parameter_count = Methods[m].pars
  BY DEF LoadedFunction
<1> QED
  BY <1>10, <1>11, <1>12, <1>13

(* A function that has its place in the table, and whose own label comes   *)
(* before those of calls of the parent with its name, is found by its name: *)
(* with the place of its code and its parameters, for every sequence of     *)
(* functions, names that come more than once included.                     *)
THEOREM EveryFunctionFound == Spec => []FunctionsFound
BY Invariance, FunctionsAreFound, PTL

=============================================================================
