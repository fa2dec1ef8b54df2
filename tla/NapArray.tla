------------------------------- MODULE NapArray -------------------------------
(***************************************************************************)
(* One array variable of a nap machine: the dimensions @#grow gives it     *)
(* (vm/call_intern.c), the index registers an access goes through          *)
(* (vm/clidx.c and the code of compiler/evaluate.cpp that fills them), and *)
(* the cell deliver_flat_index (vm/nbci_impl.c) picks.                     *)
(*                                                                         *)
(* The array has a declared shape.  The program defines it, adds its       *)
(* dimensions one by one, reads and writes cells, and leaves the scope.    *)
(***************************************************************************)
EXTENDS Integers, Sequences, FiniteSets

CONSTANTS
  Shapes,      \* declared shapes, sequences of dimensions
  Values, Junk,
  Nested,      \* for each shape, the uses of another array inside an
               \* access: a set of "index", "operand"
  Indices,     \* bound: the indices the program computes, good and bad
  MaxScopes,   \* bound: how often the scope of the array is entered
  MaxWrites,   \* bound: how many cells the program writes, for each shape
  MaxDims      \* the size of ve->dimensions

ASSUME ShapesAssumption ==
  /\ MaxDims \in Nat /\ Indices \subseteq Int
  /\ \A s \in Shapes : s \in Seq(Nat \ {0}) /\ Len(s) < MaxDims
  /\ Junk \notin Values /\ 0 \in Values
  /\ Nested \in [Shapes -> SUBSET {"index", "operand"}]

VARIABLES
  shape,            \* what the program declares
  dimensions, dimension_count,
  memory,           \* instantiation->value, <<>> when there is none
  regidx,
  phase,            \* where the program is: "out", "dims", "in", "index",
                    \* or "operand"
  grown,            \* the dimensions added since the definition
  want,             \* the indices the program has evaluated
  wrote,            \* history: what the program wrote where
  scopes,           \* the number of scopes entered
  status            \* "running", "count", "range" (errors) or "wild"

vars == <<shape, dimensions, dimension_count, memory, regidx, phase, grown,
          want, wrote, scopes, status>>

-----------------------------------------------------------------------------
Dims == 0 .. MaxDims - 1

Product(f, n) ==
  LET p[k \in 0 .. n] == IF k = 0 THEN 1 ELSE p[k - 1] * f[k - 1] IN p[n]

(* The scan of grow: the first dimension that is not positive.             *)
FirstFree ==
  CHOOSE d \in 0 .. MaxDims - 2 :
    /\ d = MaxDims - 2 \/ dimensions[d] <= 0
    /\ \A e \in 0 .. d - 1 : dimensions[e] > 0

(* Mutants of OutOfRange: no lower bound; the last element is refused.      *)
OutOfRangeNegativeMutant(used) == \E i \in 0 .. used - 1 : regidx[i] >= dimensions[i]

OutOfRangeLastMutant(used) ==
  \E i \in 0 .. used - 1 : regidx[i] < 0 \/ regidx[i] >= dimensions[i] - 1

OutOfRange(used) == \E i \in 0 .. used - 1 : regidx[i] < 0 \/ regidx[i] >= dimensions[i]

(* Mutant of FlatIndex: the indices are just added up.                     *)
FlatIndexMutant(idx, dims, used) ==
  LET sum[k \in 0 .. used] == IF k = 0 THEN 0 ELSE sum[k - 1] + idx[k - 1]
  IN  sum[used]

(* The flat index: index number i counts with the product of the first     *)
(* used - i - 1 dimensions.                                                *)
FlatIndex(idx, dims, used) ==
  LET sum[k \in 0 .. used] ==
        IF k = 0 THEN 0 ELSE sum[k - 1] + Product(dims, used - k) * idx[k - 1]
  IN  sum[used]

Init ==
  /\ shape \in Shapes
  /\ dimensions = [d \in Dims |-> 0]
  /\ dimension_count = 0
  /\ memory = <<>>
  /\ regidx = [d \in Dims |-> 0]
  /\ phase = "out"
  /\ grown = 0
  /\ want = <<>>
  /\ wrote = <<>>
  /\ scopes = 0
  /\ status = "running"

At(p) == status = "running" /\ phase = p

(* push int v: one cell, zero; the dimensions stay as they are.            *)
Define ==
  /\ At("out") /\ scopes < MaxScopes
  /\ memory' = [c \in {0} |-> 0]
  /\ phase' = "dims"
  /\ grown' = 0
  /\ scopes' = scopes + 1
  /\ UNCHANGED <<shape, dimensions, dimension_count, regidx, want, wrote, status>>

(* Mutants of Grow: the memory is made for the new dimension alone; the    *)
(* count goes the wrong way.                                               *)
GrowMemoryMutant ==
  /\ At("dims") /\ grown < Len(shape)
  /\ LET n == shape[grown + 1] IN
       /\ memory' = [c \in 0 .. n - 1 |-> IF c \in DOMAIN memory THEN memory[c] ELSE Junk]
       /\ dimensions' = [dimensions EXCEPT ![FirstFree] = n]
  /\ dimension_count' = dimension_count + 1
  /\ grown' = grown + 1
  /\ UNCHANGED <<shape, regidx, phase, want, wrote, scopes, status>>

GrowCountMutant ==
  /\ At("dims") /\ grown < Len(shape)
  /\ LET n    == shape[grown + 1]
         size == n * Product(dimensions, FirstFree) IN
       /\ memory' = [c \in 0 .. size - 1 |-> IF c \in DOMAIN memory THEN memory[c] ELSE Junk]
       /\ dimensions' = [dimensions EXCEPT ![FirstFree] = n]
  /\ dimension_count' = dimension_count - 1
  /\ grown' = grown + 1
  /\ UNCHANGED <<shape, regidx, phase, want, wrote, scopes, status>>

(* @#grow with the next dimension.  The new cells are not initialised.     *)
Grow ==
  /\ At("dims") /\ grown < Len(shape)
  /\ LET n    == shape[grown + 1]
         size == n * Product(dimensions, FirstFree) IN
       /\ memory' = [c \in 0 .. size - 1 |-> IF c \in DOMAIN memory THEN memory[c] ELSE Junk]
       /\ dimensions' = [dimensions EXCEPT ![FirstFree] = n]
  /\ dimension_count' = dimension_count + 1
  /\ grown' = grown + 1
  /\ UNCHANGED <<shape, regidx, phase, want, wrote, scopes, status>>

Declared ==
  /\ At("dims") /\ grown = Len(shape)
  /\ phase' = "in"
  /\ UNCHANGED <<shape, dimensions, dimension_count, memory, regidx, grown,
                 want, wrote, scopes, status>>

(* clrsn: the instantiation goes, the dimensions stay.                     *)
LeaveScope ==
  /\ At("in")
  /\ memory' = <<>>
  /\ wrote' = <<>>
  /\ phase' = "out"
  /\ UNCHANGED <<shape, dimensions, dimension_count, regidx, grown, want, scopes, status>>

StartAccess ==
  /\ At("in")
  /\ phase' = "index"
  /\ want' = <<>>
  /\ UNCHANGED <<shape, dimensions, dimension_count, memory, regidx, grown,
                 wrote, scopes, status>>

(* The compiler takes any number of indices; Len(shape) + 1 is the bound.   *)
MoreIndices == At("index") /\ Len(want) <= Len(shape)

(* The next index, from a value or a register: mov reg idx k, n.           *)
Index(n) ==
  /\ MoreIndices
  /\ regidx' = [regidx EXCEPT ![Len(want)] = n]
  /\ want' = Append(want, n)
  /\ UNCHANGED <<shape, dimensions, dimension_count, memory, phase, grown,
                 wrote, scopes, status>>

(* The next index is a cell of another array: the code for it uses the     *)
(* index registers and ends with clidx.                                    *)
IndexFromArray(n) ==
  /\ MoreIndices /\ "index" \in Nested[shape]
  /\ regidx' = [[d \in Dims |-> 0] EXCEPT ![Len(want)] = n]
  /\ want' = Append(want, n)
  /\ UNCHANGED <<shape, dimensions, dimension_count, memory, phase, grown,
                 wrote, scopes, status>>

Indexed == want # <<>> /\ (At("index") \/ At("operand"))

(* v[...] += w[...] ++: the code for the operand comes behind that for the *)
(* indices of the target and ends with clidx.                              *)
OperandFromArray ==
  /\ At("index") /\ want # <<>> /\ "operand" \in Nested[shape]
  /\ regidx' = [d \in Dims |-> 0]
  /\ phase' = "operand"
  /\ UNCHANGED <<shape, dimensions, dimension_count, memory, grown,
                 want, wrote, scopes, status>>

Flat == FlatIndex(regidx, dimensions, Len(want))

Deliverable == Len(want) = dimension_count /\ ~OutOfRange(Len(want))

(* deliver_flat_index refuses; the instruction fails.                      *)
AccessFails ==
  /\ Indexed /\ ~Deliverable
  /\ status' = IF Len(want) # dimension_count THEN "count" ELSE "range"
  /\ UNCHANGED <<shape, dimensions, dimension_count, memory, regidx, phase,
                 grown, want, wrote, scopes>>

(* A write to the cell, and clidx.                                         *)
Write(x) ==
  /\ Indexed /\ Deliverable /\ Flat \in DOMAIN memory
  /\ Cardinality(DOMAIN wrote \cup {want}) <= MaxWrites[shape]
  /\ memory' = [memory EXCEPT ![Flat] = x]
  /\ wrote' = [i \in DOMAIN wrote \cup {want} |-> IF i = want THEN x ELSE wrote[i]]
  /\ regidx' = [d \in Dims |-> 0]
  /\ phase' = "in"
  /\ want' = <<>>
  /\ UNCHANGED <<shape, dimensions, dimension_count, grown, scopes, status>>

(* The cell is not part of the memory of the array.                        *)
AccessOutside ==
  /\ Indexed /\ Deliverable /\ Flat \notin DOMAIN memory
  /\ status' = "wild"
  /\ UNCHANGED <<shape, dimensions, dimension_count, memory, regidx, phase,
                 grown, want, wrote, scopes>>

Next ==
  \/ Define
  \/ Grow
  \/ Declared
  \/ LeaveScope
  \/ StartAccess
  \/ \E n \in Indices : Index(n)
  \/ \E n \in Indices : IndexFromArray(n)
  \/ OperandFromArray
  \/ AccessFails
  \/ \E x \in Values : Write(x)
  \/ AccessOutside

Spec == Init /\ [][Next]_vars

-----------------------------------------------------------------------------
(* Properties.                                                             *)

(* The number of dimensions is kept three times: as a count, as the zero   *)
(* that ends the dimensions, and in the size of the memory.  For every     *)
(* shape and however often the scope is entered they agree, as long as     *)
(* the scan of grow ends at a zero and not at its limit                    *)
(* (call_intern.c:50).                                                     *)
DimensionsAgree ==
  phase # "out" /\ grown > 0 /\ dimension_count < MaxDims - 1 =>
    /\ dimension_count = FirstFree
    /\ DOMAIN memory = 0 .. Product(dimensions, FirstFree) - 1

InShape(w) ==
  Len(w) = Len(shape) /\ \A i \in 1 .. Len(shape) : w[i] \in 0 .. shape[i] - 1

(* The arrays the code is right for: the first time their scope is         *)
(* entered, with no other array used inside an access, and of one          *)
(* dimension, or of equal dimensions, or of a first dimension of 1.        *)
Regular ==
  /\ scopes = 1 /\ Nested[shape] = {}
  /\ \/ \A d \in DOMAIN shape : shape[d] = shape[1]
     \/ shape[1] = 1 /\ Len(shape) = 2

(* An index out of range is reported only when the program computed one,   *)
(* even when the index registers were cleared under it; and an access in   *)
(* the range of a regular shape fails in no other way                      *)
(* (nbci_impl.c:1179-1182).                                                *)
ErrorsJustified ==
  /\ status = "range" => ~InShape(want)
  /\ Regular /\ status = "count" => ~InShape(want)

(* The cell of an access is in the memory of the array                     *)
(* (nbci_impl.c:1168, flat_memory[N * M * K]).                             *)
AccessInMemory == Regular => status # "wild"

(* Every cell keeps what the program wrote into it, whatever it writes     *)
(* into the others: no two index tuples share a cell.                      *)
CellsAreDistinct ==
  Regular /\ phase = "in" =>
    \A w \in DOMAIN wrote :
      memory[FlatIndex([k \in 0 .. Len(w) - 1 |-> w[k + 1]], dimensions, Len(w))] = wrote[w]

(* No write goes through with an index outside of the shape.               *)
BadIndicesWriteNothing ==
  [][ Regular /\ DOMAIN wrote' # {} /\ memory' # memory => InShape(want) ]_vars
=============================================================================
