--------------------------- MODULE NapProgramProofs ---------------------------
(***************************************************************************)
(* Proofs about NapProgram.  The values on the stack are the parameters of  *)
(* activations and the arguments of calls, found by their distance from bp *)
(* and from the marker of the call.  The inductive invariant says where    *)
(* each of them is (LayoutInv, MarkerInv, OrderInv): an activation begins   *)
(* behind the marker of its function, and has on the stack, one behind the *)
(* other, the calls whose expressions are being evaluated, each a marker   *)
(* and its arguments; the activation above it begins where the last of     *)
(* them ends, at the base that pushall has saved (ControlInv).  PhaseInv    *)
(* says that only the last call of an activation can have all its          *)
(* arguments.                                                              *)
(*                                                                         *)
(* StackIsEnough: with at most MaxNesting calls for an activation, of which *)
(* one has all its arguments, an activation has at most                    *)
(* MaxNesting * Most + 1 entries (EndBound), and the marker of the next one *)
(* is one more.  Needed is what so many activations as the limit of the    *)
(* recursion allows have.                                                  *)
(*                                                                         *)
(* ProceduresImplemented: the refinement mapping reads the abstract        *)
(* activations from the stack.  What an activation or a call shows of it   *)
(* is written with the stack as a parameter (ActIn, CallIn), so that a step *)
(* that leaves some entries alone leaves alone what is read from them      *)
(* (WaitingStay, LocalStep, InnerStep).                                    *)
(***************************************************************************)
EXTENDS NapProgram, FiniteSetTheorems, SequenceTheorems, WellFoundedInduction, TLAPS

(* The values of the variables.                                            *)
Entries == [kind : {"arg"}, of : Values] \cup [kind : {"call", "fun"}, of : Procs]

CallRecords ==
  [callee : Procs, at : Nat, into : Seq(Globals \cup {NoGlobal}),
   phase : {"args", "active", "back", "refs"}, todo : SUBSET Nat]

ActivationRecords == [proc : Procs, left : Nat, calls : Seq(CallRecords)]

TypeOK ==
  /\ stack \in Seq(Entries)
  /\ bp \in Int
  /\ saved \in Seq([regi : Values, bp : Int])
  /\ ctl \in Seq(ActivationRecords) /\ Len(ctl) > 0
  /\ global \in [Globals -> Values]
  /\ regi \in Values /\ known \in BOOLEAN /\ rvi \in Values
  /\ status \in {"running", "exited", "failed", "overrun"}

(* A call expression, the last of its activation or not, in the activation *)
(* that runs or not.  Only the last one can have all its arguments.        *)
Phase(c, last, top) ==
  /\ c.phase = "active" <=> last /\ ~top
  /\ ~last => c.phase = "args" /\ Len(c.into) < Params[c.callee]
  /\ IF c.phase = "args" THEN Len(c.into) <= Params[c.callee]
                         ELSE Len(c.into) = Params[c.callee]
  /\ c.todo \subseteq Refs[c.callee]

PhaseInv ==
  \A a \in 1 .. Depth : \A k \in 1 .. Len(ctl[a].calls) :
    Phase(ctl[a].calls[k], k = Len(ctl[a].calls), a = Depth)

ControlInv ==
  /\ Len(saved) = Depth - 1 /\ Depth <= DeepestRecursion
  /\ ctl[1].proc = Main
  /\ Depth > 1 => bp = saved[Depth - 1].bp
  /\ \A a \in 1 .. Depth - 1 :
       LET n == Len(ctl[a].calls) IN
       n > 0 /\ ctl[a].calls[n].callee = ctl[a + 1].proc

KnownInv ==
  NCalls > 0 =>
    /\ Here.phase = "back" => ~known
    /\ Here.phase = "refs" => known = Returns[Here.callee]

(* The entries of an activation begin behind the marker of its function.   *)
Start(a) == IF a = 1 THEN 0 ELSE saved[a - 1].bp + 1
End(a)   == IF a = Depth THEN Len(stack) ELSE saved[a].bp

(* The last entry of the first k calls of an activation.                   *)
After(act, start, k) ==
  IF k = 0 THEN start ELSE act.calls[k].at + Len(act.calls[k].into)

(* The calls of an activation lie one behind the other between start and   *)
(* end, each a marker and its arguments.                                   *)
Layout(act, start, end, st) ==
  LET n == Len(act.calls) IN
  /\ n <= MaxNesting
  /\ end = After(act, start, n)
  /\ \A k \in 1 .. n :
       /\ act.calls[k].at = After(act, start, k - 1) + 1
       /\ act.calls[k].at <= start + (k - 1) * Most + 1
       /\ st[act.calls[k].at] = CallMarker(act.calls[k].callee)
       /\ \A i \in 1 .. Len(act.calls[k].into) :
            st[act.calls[k].at + i].kind = "arg" /\ st[act.calls[k].at + i].of \in Values
  /\ \A k, l \in 0 .. n : k < l => After(act, start, k) < After(act, start, l)

LayoutInv == \A a \in 1 .. Depth : Layout(ctl[a], Start(a), End(a), stack)

MarkerInv ==
  \A a \in 2 .. Depth :
    /\ Start(a) \in 1 .. Len(stack)
    /\ stack[Start(a)] = FunMarker(ctl[a].proc)
    /\ Start(a) <= (a - 1) * (MaxNesting * Most + 2)

OrderInv == \A a, b \in 1 .. Depth : a < b => End(a) < Start(b)

SizeInv == status = "overrun" => Len(stack) > StackSize

IInv == /\ TypeOK /\ PhaseInv /\ ControlInv /\ KnownInv
        /\ LayoutInv /\ MarkerInv /\ OrderInv /\ SizeInv

-----------------------------------------------------------------------------
(* A finite set of numbers has a largest.                                  *)
LEMMA MaxExists ==
  ASSUME NEW S \in SUBSET Nat, IsFiniteSet(S), S # {}
  PROVE  \E x \in S : \A y \in S : x >= y
<1> DEFINE R == StrictSubsetOrdering(S)
           Bad == {U \in SUBSET S : U # {} /\ ~ \E x \in U : \A y \in U : x >= y}
<1>1. IsWellFoundedOn(R, SUBSET S)
  BY FS_StrictSubsetOrderingWellFounded, FS_FiniteSubsetsOfFinite
<1>2. \A U, V \in SUBSET S : U \subseteq V /\ U # V => <<U, V>> \in R
  BY DEF StrictSubsetOrdering
<1> HIDE DEF R
<1> SUFFICES ASSUME Bad # {} PROVE FALSE
  OBVIOUS
<1>3. Bad \subseteq SUBSET S
  OBVIOUS
<1> HIDE DEF Bad
<1>4. PICK U \in Bad : \A V \in Bad : ~ (<<V, U>> \in R)
  BY <1>1, <1>3, WFMin
<1>5. U \in SUBSET S /\ U # {} /\ ~ \E x \in U : \A y \in U : x >= y
  BY <1>4 DEF Bad
<1>6. PICK x : x \in U
  BY <1>5
<1> DEFINE V == U \ {x}
<1>7. V \in SUBSET S /\ V # U /\ V \subseteq U
  BY <1>5, <1>6
<1>8. <<V, U>> \in R
  BY <1>2, <1>5, <1>7
<1>9. V \notin Bad
  BY <1>4, <1>8
<1>10. V = {} \/ \E z \in V : \A y \in V : z >= y
  BY <1>7, <1>9 DEF Bad
<1>11. U \subseteq Nat
  BY <1>5
<1>12. CASE V = {}
  <2>1. \A y \in U : x >= y
    BY <1>11, <1>12
  <2> QED
    BY <1>5, <1>6, <2>1
<1>13. CASE \E z \in V : \A y \in V : z >= y
  <2>1. PICK z \in V : \A y \in V : z >= y
    BY <1>13
  <2>2. \A y \in U : y = x \/ y \in V
    OBVIOUS
  <2>3. CASE z >= x
    BY <1>5, <2>1, <2>2, <2>3
  <2>4. CASE ~ (z >= x)
    <3>1. \A y \in U : x >= y
      BY <1>6, <1>11, <2>1, <2>2, <2>4
    <3> QED
      BY <1>5, <1>6, <3>1
  <2> QED
    BY <2>3, <2>4
<1> QED
  BY <1>10, <1>12, <1>13

(* Most bounds the parameters.                                             *)
LEMMA MostFacts == Most \in Nat /\ \A p \in Procs : Params[p] \in Nat /\ Params[p] <= Most
<1> DEFINE S == {Params[p] : p \in Procs}
<1>1. \A p \in Procs : Params[p] \in Nat
  BY ProgramAssumption
<1>2. S \subseteq Nat /\ S # {}
  BY <1>1, ProgramAssumption
<1>3. IsFiniteSet(S)
  <2> DEFINE f == [p \in Procs |-> Params[p]]
  <2>1. f \in Surjection(Procs, S)
    BY DEF Surjection
  <2>2. IsFiniteSet(Procs)
    BY ProgramAssumption
  <2> HIDE DEF f, S
  <2> QED
    BY <2>1, <2>2, FS_Surjection
<1>4. \A p \in Procs : Params[p] \in S
  OBVIOUS
<1> HIDE DEF S
<1>5. \E x \in S : \A y \in S : x >= y
  BY <1>2, <1>3, MaxExists
<1>6. Most = CHOOSE x \in S : \A y \in S : x >= y
  BY DEF Most, Max, S
<1>7. Most \in S /\ \A y \in S : Most >= y
  BY <1>5, <1>6
<1> QED
  BY <1>1, <1>2, <1>4, <1>7

-----------------------------------------------------------------------------
(* Sequences.  A stack cut off.                                            *)
LEMMA CutOff ==
  ASSUME NEW S, NEW s \in Seq(S), NEW n \in 0 .. Len(s)
  PROVE  /\ SubSeq(s, 1, n) \in Seq(S) /\ Len(SubSeq(s, 1, n)) = n
         /\ \A i \in 1 .. n : SubSeq(s, 1, n)[i] = s[i]
<1>1. Len(s) \in Nat /\ n \in Int
  BY LenProperties
<1>2. \A i \in 1 .. n : s[i] \in S
  BY <1>1, ElementOfSeq
<1>3. /\ SubSeq(s, 1, n) \in Seq(S)
      /\ Len(SubSeq(s, 1, n)) = IF 1 <= n THEN n - 1 + 1 ELSE 0
      /\ \A i \in 1 .. n - 1 + 1 : SubSeq(s, 1, n)[i] = s[1 + i - 1]
  BY <1>1, <1>2, SubSeqProperties
<1> QED
  BY <1>1, <1>3

(* A function that is a sequence of a length.                              *)
Listed(s, n) == s = [i \in 1 .. n |-> s[i]]

(* A function listed over 1 .. n is a sequence of length n.                *)
LEMMA IsSequence ==
  ASSUME NEW n \in Nat, NEW s, Listed(s, n)
  PROVE  /\ s \in Seq({s[i] : i \in 1 .. n}) /\ Len(s) = n /\ DOMAIN s = 1 .. n
<1> DEFINE S == {s[i] : i \in 1 .. n}
<1>1. \A i \in 1 .. n : s[i] \in S
  OBVIOUS
<1> HIDE DEF S
<1>2. s \in [1 .. n -> S]
  BY <1>1 DEF Listed
<1>3. s \in Seq(S)
  BY <1>2, SeqDef
<1>4. DOMAIN s = 1 .. n /\ DOMAIN s = 1 .. Len(s) /\ Len(s) \in Nat
  BY <1>2, <1>3, LenProperties
<1>5. Len(s) = n
  BY <1>4
<1> QED
  BY <1>3, <1>4, <1>5 DEF S

(* A sequence with an element more, or with another last one.              *)
LEMMA AppendIs ==
  ASSUME NEW n \in Nat, NEW s, Listed(s, n),
         NEW t, Listed(t, n + 1),
         \A i \in 1 .. n : t[i] = s[i]
  PROVE  t = Append(s, t[n + 1])
<1> DEFINE S == {s[i] : i \in 1 .. n} \cup {t[n + 1]}
           u == Append(s, t[n + 1])
<1>1. s \in Seq(S) /\ t[n + 1] \in S /\ Len(s) = n
  <2> DEFINE T == {s[i] : i \in 1 .. n}
  <2>1. s \in Seq(T) /\ Len(s) = n
    BY IsSequence
  <2>2. T \subseteq S /\ t[n + 1] \in S
    OBVIOUS
  <2> HIDE DEF T, S
  <2> QED
    BY <2>1, <2>2, SeqMonotonic
<1>2. \A i \in 1 .. n : s[i] \in S
  OBVIOUS
<1> HIDE DEF S
<1>3. \A i \in 1 .. n + 1 : t[i] \in S
  <2> TAKE i \in 1 .. n + 1
  <2>1. i \in 1 .. n \/ i = n + 1
    OBVIOUS
  <2> QED
    BY <1>1, <1>2, <2>1
<1>4. t \in [1 .. n + 1 -> S]
  BY <1>3 DEF Listed
<1>5. t \in Seq(S) /\ Len(t) = n + 1
  <2>1. t \in Seq(S)
    BY <1>4, SeqDef
  <2>2. DOMAIN t = 1 .. n + 1 /\ DOMAIN t = 1 .. Len(t) /\ Len(t) \in Nat
    BY <1>4, <2>1, LenProperties
  <2> QED
    BY <2>1, <2>2
<1>6. /\ u \in Seq(S) /\ Len(u) = n + 1
      /\ \A i \in 1 .. n : u[i] = s[i]
      /\ u[n + 1] = t[n + 1]
  BY <1>1, AppendProperties
<1> HIDE DEF u
<1>7. \A i \in 1 .. n + 1 : t[i] = u[i]
  <2> TAKE i \in 1 .. n + 1
  <2>1. i \in 1 .. n \/ i = n + 1
    OBVIOUS
  <2> QED
    BY <1>6, <2>1
<1>8. t = u
  BY <1>5, <1>6, <1>7, SeqEqual
<1> QED
  BY <1>8 DEF u

(* A sequence that differs in the last element only is the front of the    *)
(* other with an element appended.                                         *)
LEMMA ReplaceLast ==
  ASSUME NEW n \in Nat \ {0}, NEW s, Listed(s, n),
         NEW t, Listed(t, n),
         \A i \in 1 .. n - 1 : t[i] = s[i]
  PROVE  t = Append(SubSeq(s, 1, n - 1), t[n])
<1> DEFINE S == {s[i] : i \in 1 .. n}
           f == SubSeq(s, 1, n - 1)
<1>1. s \in Seq(S) /\ Len(s) = n
  BY IsSequence
<1> HIDE DEF S
<1>2. f \in Seq(S) /\ Len(f) = n - 1 /\ \A i \in 1 .. n - 1 : f[i] = s[i]
  <2>1. n - 1 \in 0 .. Len(s)
    BY <1>1
  <2> QED
    BY <1>1, <2>1, CutOff
<1> HIDE DEF f
<1>3. Listed(f, n - 1)
  BY <1>2, LenProperties DEF Listed
<1>4. \A i \in 1 .. n - 1 : t[i] = f[i]
  BY <1>2
<1>5. PICK m \in Nat : m = n - 1
  OBVIOUS
<1>6. n = m + 1
  BY <1>5
<1>7. t = Append(f, t[n])
  <2>1. /\ Listed(f, m) /\ Listed(t, m + 1)
        /\ \A i \in 1 .. m : t[i] = f[i]
    BY <1>3, <1>4, <1>5, <1>6
  <2>2. t = Append(f, t[m + 1])
    BY <1>5, <2>1, AppendIs
  <2> QED
    BY <1>6, <2>2
<1> QED
  BY <1>7 DEF f

(* Two functions on the same interval with equal values are equal.         *)
LEMMA SameFunction ==
  ASSUME NEW n \in Nat, NEW s, Listed(s, n),
         NEW t, Listed(t, n),
         \A i \in 1 .. n : t[i] = s[i]
  PROVE  t = s
<1>1. [i \in 1 .. n |-> t[i]] = [i \in 1 .. n |-> s[i]]
  OBVIOUS
<1> QED
  BY <1>1 DEF Listed

-----------------------------------------------------------------------------
(* Where the program is.                                                   *)
LEMMA TopFacts ==
  IInv =>
    /\ Depth \in Nat /\ Depth >= 1
    /\ Top \in ActivationRecords /\ Top.proc \in Procs /\ Top.left \in Nat
    /\ Top.calls \in Seq(CallRecords)
    /\ Len(stack) \in Nat /\ NCalls \in Nat
    /\ NCalls > 0 => Here \in CallRecords
<1> SUFFICES ASSUME IInv
             PROVE  /\ Depth \in Nat /\ Depth >= 1
                    /\ Top \in ActivationRecords /\ Top.proc \in Procs /\ Top.left \in Nat
                    /\ Top.calls \in Seq(CallRecords)
                    /\ Len(stack) \in Nat /\ NCalls \in Nat
                    /\ NCalls > 0 => Here \in CallRecords
  OBVIOUS
<1>1. Depth \in Nat /\ Depth >= 1 /\ Len(stack) \in Nat
  BY LenProperties DEF IInv, TypeOK, Depth
<1>2. Top \in ActivationRecords
  BY <1>1, ElementOfSeq DEF IInv, TypeOK, Depth, Top
<1>3. Top.proc \in Procs /\ Top.left \in Nat /\ Top.calls \in Seq(CallRecords)
  BY <1>2 DEF ActivationRecords
<1>4. NCalls \in Nat
  BY <1>3, LenProperties DEF NCalls
<1>5. NCalls > 0 => Here \in CallRecords
  BY <1>3, <1>4, ElementOfSeq DEF Here, NCalls
<1> QED
  BY <1>1, <1>2, <1>3, <1>4, <1>5

(* The activations and their calls.                                        *)
LEMMA CallFacts ==
  ASSUME IInv, NEW a \in 1 .. Depth
  PROVE  /\ ctl[a] \in ActivationRecords /\ ctl[a].proc \in Procs
         /\ ctl[a].calls \in Seq(CallRecords) /\ Len(ctl[a].calls) \in Nat
         /\ \A k \in 1 .. Len(ctl[a].calls) :
              /\ ctl[a].calls[k] \in CallRecords /\ ctl[a].calls[k].callee \in Procs
              /\ Len(ctl[a].calls[k].into) \in Nat /\ ctl[a].calls[k].at \in Nat
<1>1. ctl[a] \in ActivationRecords
  BY ElementOfSeq DEF IInv, TypeOK, Depth
<1>2. ctl[a].proc \in Procs /\ ctl[a].calls \in Seq(CallRecords)
  BY <1>1 DEF ActivationRecords
<1>3. Len(ctl[a].calls) \in Nat
  BY <1>2, LenProperties
<1>4. ASSUME NEW k \in 1 .. Len(ctl[a].calls)
      PROVE  /\ ctl[a].calls[k] \in CallRecords /\ ctl[a].calls[k].callee \in Procs
             /\ Len(ctl[a].calls[k].into) \in Nat /\ ctl[a].calls[k].at \in Nat
  <2>1. ctl[a].calls[k] \in CallRecords
    BY <1>2, ElementOfSeq
  <2>2. /\ ctl[a].calls[k].callee \in Procs /\ ctl[a].calls[k].at \in Nat
        /\ ctl[a].calls[k].into \in Seq(Globals \cup {NoGlobal})
    BY <2>1 DEF CallRecords
  <2> QED
    BY <2>1, <2>2, LenProperties
<1> QED
  BY <1>1, <1>2, <1>3, <1>4

(* Stated once, since the sums met below are of fields of records.         *)
LEMMA SumOfNat == \A x, y \in Nat : x + y \in Nat
OBVIOUS

(* Where the entries of an activation are.                                 *)
LEMMA Places ==
  ASSUME IInv, NEW a \in 1 .. Depth
  PROVE  /\ Start(a) \in Nat /\ End(a) \in Nat
         /\ Start(a) <= End(a) /\ End(a) <= Len(stack)
         /\ \A k \in 1 .. Len(ctl[a].calls) :
              /\ Start(a) < ctl[a].calls[k].at
              /\ ctl[a].calls[k].at + Len(ctl[a].calls[k].into) <= End(a)
         /\ \A k, l \in 1 .. Len(ctl[a].calls) : k < l =>
              ctl[a].calls[k].at + Len(ctl[a].calls[k].into) < ctl[a].calls[l].at
<1> DEFINE n == Len(ctl[a].calls)
           A(k) == After(ctl[a], Start(a), k)
<1>1. Depth \in Nat /\ Depth >= 1 /\ Len(stack) \in Nat
  BY TopFacts
<1>2. \A b \in 1 .. Depth : Start(b) \in Nat
  BY <1>1 DEF IInv, MarkerInv, Start
<1>3. \A b \in 1 .. Depth : Layout(ctl[b], Start(b), End(b), stack)
  BY DEF IInv, LayoutInv
<1>4. ASSUME NEW b \in 1 .. Depth
      PROVE  Start(b) <= End(b) /\ End(b) \in Nat
  <2> DEFINE m == Len(ctl[b].calls)
  <2>1. m \in Nat /\ \A k \in 1 .. m : Len(ctl[b].calls[k].into) \in Nat /\ ctl[b].calls[k].at \in Nat
    BY CallFacts
  <2>2. /\ End(b) = After(ctl[b], Start(b), m)
        /\ \A k, l \in 0 .. m : k < l => After(ctl[b], Start(b), k) < After(ctl[b], Start(b), l)
    BY <1>3 DEF Layout
  <2>3. After(ctl[b], Start(b), 0) = Start(b)
    BY DEF After
  <2>4. After(ctl[b], Start(b), m) \in Nat
    <3>1. m = 0 \/ m \in 1 .. m
      BY <2>1
    <3>2. Start(b) \in Nat
      BY <1>2
    <3> HIDE DEF m
    <3>3. CASE m = 0
      BY <2>3, <3>2, <3>3
    <3>4. CASE m \in 1 .. m
      <4>1. After(ctl[b], Start(b), m) = ctl[b].calls[m].at + Len(ctl[b].calls[m].into)
        BY <2>1, <3>4 DEF After
      <4>2. ctl[b].calls[m].at \in Nat /\ Len(ctl[b].calls[m].into) \in Nat
        BY <2>1, <3>4
      <4>3. ctl[b].calls[m].at + Len(ctl[b].calls[m].into) \in Nat
        BY <4>2, SumOfNat
      <4> QED
        BY <4>1, <4>3, Zenon
    <3> QED
      BY <3>1, <3>3, <3>4
  <2> HIDE DEF m
  <2>5. m = 0 \/ After(ctl[b], Start(b), 0) < After(ctl[b], Start(b), m)
    BY <2>1, <2>2
  <2> QED
    BY <1>2, <2>2, <2>3, <2>4, <2>5
<1>5. End(a) <= Len(stack)
  <2>1. End(Depth) = Len(stack) /\ Start(Depth) <= End(Depth)
    BY <1>1, <1>4 DEF End
  <2>2. a # Depth => End(a) < Start(Depth)
    BY <1>1 DEF IInv, OrderInv
  <2>3. Start(Depth) \in Nat /\ End(a) \in Nat
    BY <1>1, <1>2, <1>4
  <2> QED
    BY <1>1, <2>1, <2>2, <2>3
<1>6. /\ n \in Nat
      /\ \A k \in 1 .. n : Len(ctl[a].calls[k].into) \in Nat /\ ctl[a].calls[k].at \in Nat
  BY CallFacts
<1>7. /\ End(a) = A(n)
      /\ \A k \in 1 .. n : ctl[a].calls[k].at = A(k - 1) + 1
      /\ \A k, l \in 0 .. n : k < l => A(k) < A(l)
  BY <1>3 DEF Layout
<1>8. /\ A(0) = Start(a)
      /\ \A k \in 1 .. n : A(k) = ctl[a].calls[k].at + Len(ctl[a].calls[k].into)
  BY DEF After
<1> HIDE DEF A, n
<1>9. \A k \in 0 .. n : A(k) \in Nat
  <2> TAKE k \in 0 .. n
  <2>1. k = 0 \/ k \in 1 .. n
    BY <1>6
  <2>2. CASE k = 0
    BY <1>2, <1>8, <2>2
  <2>3. CASE k \in 1 .. n
    <3>1. A(k) = ctl[a].calls[k].at + Len(ctl[a].calls[k].into)
      BY <1>8, <2>3
    <3>2. ctl[a].calls[k].at \in Nat /\ Len(ctl[a].calls[k].into) \in Nat
      BY <1>6, <2>3
    <3>3. ctl[a].calls[k].at + Len(ctl[a].calls[k].into) \in Nat
      BY <3>2, SumOfNat
    <3> QED
      BY <3>1, <3>3, Zenon
  <2> QED
    BY <2>1, <2>2, <2>3
<1>10. ASSUME NEW k \in 1 .. n
       PROVE  /\ Start(a) < ctl[a].calls[k].at
              /\ ctl[a].calls[k].at + Len(ctl[a].calls[k].into) <= End(a)
  <2>1. k - 1 \in 0 .. n /\ 0 \in 0 .. n /\ n \in 0 .. n
    BY <1>6
  <2>2. A(0) \in Nat /\ A(k - 1) \in Nat /\ A(k) \in Nat /\ A(n) \in Nat
    BY <1>9, <2>1
  <2>3. 0 = k - 1 \/ A(0) < A(k - 1)
    BY <1>7, <2>1
  <2>4. k = n \/ A(k) < A(n)
    BY <1>6, <1>7, <2>1
  <2>5. /\ ctl[a].calls[k].at = A(k - 1) + 1
        /\ A(k) = ctl[a].calls[k].at + Len(ctl[a].calls[k].into)
    BY <1>7, <1>8
  <2> QED
    BY <1>7, <1>8, <2>2, <2>3, <2>4, <2>5
<1>11. ASSUME NEW k \in 1 .. n, NEW l \in 1 .. n, k < l
       PROVE  ctl[a].calls[k].at + Len(ctl[a].calls[k].into) < ctl[a].calls[l].at
  <2>1. l - 1 \in 0 .. n /\ k <= l - 1
    BY <1>6, <1>11
  <2>2. A(k) \in Nat /\ A(l - 1) \in Nat
    BY <1>9, <2>1
  <2>3. k = l - 1 \/ A(k) < A(l - 1)
    BY <1>6, <1>7, <2>1
  <2>4. /\ ctl[a].calls[l].at = A(l - 1) + 1
        /\ A(k) = ctl[a].calls[k].at + Len(ctl[a].calls[k].into)
    BY <1>7, <1>8
  <2> QED
    BY <2>2, <2>3, <2>4
<1> QED
  BY <1>2, <1>4, <1>5, <1>10, <1>11 DEF n

(* Two entries that are the same, or both an argument.                     *)
SameEntry(e, f) == e = f \/ (e.kind = "arg" /\ f.kind = "arg" /\ f.of \in Values)

(* A layout depends on the places and the arguments of the calls only.     *)
LEMMA LayoutSame ==
  ASSUME NEW act, NEW act2, NEW start, NEW end, NEW st, NEW st2,
         Layout(act, start, end, st),
         Len(act2.calls) = Len(act.calls),
         \A k \in 1 .. Len(act.calls) :
           /\ act2.calls[k].at = act.calls[k].at
           /\ act2.calls[k].into = act.calls[k].into
           /\ act2.calls[k].callee = act.calls[k].callee
           /\ SameEntry(st[act.calls[k].at], st2[act.calls[k].at])
           /\ \A i \in 1 .. Len(act.calls[k].into) :
                SameEntry(st[act.calls[k].at + i], st2[act.calls[k].at + i]),
         Len(act.calls) \in Nat
  PROVE  Layout(act2, start, end, st2)
<1> DEFINE n == Len(act.calls)
<1>1. \A k \in 0 .. n : After(act2, start, k) = After(act, start, k)
  <2> TAKE k \in 0 .. n
  <2>1. k = 0 \/ k \in 1 .. n
    OBVIOUS
  <2> QED
    BY <2>1 DEF After
<1>2. /\ n <= MaxNesting
      /\ end = After(act, start, n)
      /\ \A k, l \in 0 .. n : k < l => After(act, start, k) < After(act, start, l)
  BY DEF Layout
<1>3. ASSUME NEW k \in 1 .. n
      PROVE  /\ act2.calls[k].at = After(act2, start, k - 1) + 1
             /\ act2.calls[k].at <= start + (k - 1) * Most + 1
             /\ st2[act2.calls[k].at] = CallMarker(act2.calls[k].callee)
             /\ \A i \in 1 .. Len(act2.calls[k].into) :
                  /\ st2[act2.calls[k].at + i].kind = "arg"
                  /\ st2[act2.calls[k].at + i].of \in Values
  <2>1. /\ act.calls[k].at = After(act, start, k - 1) + 1
        /\ act.calls[k].at <= start + (k - 1) * Most + 1
        /\ st[act.calls[k].at] = CallMarker(act.calls[k].callee)
        /\ \A i \in 1 .. Len(act.calls[k].into) :
             st[act.calls[k].at + i].kind = "arg" /\ st[act.calls[k].at + i].of \in Values
    BY DEF Layout
  <2>2. k - 1 \in 0 .. n
    OBVIOUS
  <2>3. st2[act.calls[k].at] = st[act.calls[k].at]
    BY <2>1 DEF SameEntry, CallMarker
  <2>4. \A i \in 1 .. Len(act.calls[k].into) :
          st2[act.calls[k].at + i].kind = "arg" /\ st2[act.calls[k].at + i].of \in Values
    BY <2>1 DEF SameEntry
  <2> QED
    BY <1>1, <2>1, <2>2, <2>3, <2>4
<1>4. n \in 0 .. n
  OBVIOUS
<1>5. /\ end = After(act2, start, n)
      /\ \A k, l \in 0 .. n : k < l => After(act2, start, k) < After(act2, start, l)
  BY <1>1, <1>2, <1>4
<1> QED
  BY <1>2, <1>3, <1>5 DEF Layout

-----------------------------------------------------------------------------
(* Steps of the running activation: the others, and what is saved, stay.   *)
StaysIn ==
  /\ Depth' = Depth /\ saved' = saved /\ bp' = bp
  /\ \A a \in 1 .. Depth - 1 : ctl'[a] = ctl[a]
  /\ ctl'[Depth].proc = ctl[Depth].proc
  /\ Start(Depth) <= Len(stack')
  /\ \A j \in 1 .. Start(Depth) : SameEntry(stack[j], stack'[j])

(* What lies above s and ends at or below e, which is below t, lies in 1   *)
(* .. t.                                                                   *)
LEMMA Between ==
  ASSUME NEW s \in Nat, NEW x \in Nat, NEW n \in Nat, NEW e \in Nat, NEW t \in Nat,
         s < x, x + n <= e, e < t
  PROVE  x \in 1 .. t /\ \A i \in 1 .. n : x + i \in 1 .. t
OBVIOUS

(* A step of the running activation keeps the invariant if it leaves the   *)
(* activation with its calls laid out to the top of the stack.             *)
LEMMA TopStep ==
  ASSUME IInv, StaysIn, TypeOK', KnownInv', SizeInv',
         Layout(ctl'[Depth], Start(Depth), Len(stack'), stack'),
         \A k \in 1 .. Len(ctl'[Depth].calls) :
           Phase(ctl'[Depth].calls[k], k = Len(ctl'[Depth].calls), TRUE)
  PROVE  IInv'
<1>1. Depth \in Nat /\ Depth >= 1 /\ Len(stack) \in Nat /\ Len(stack') \in Nat
  BY TopFacts, LenProperties DEF TypeOK
<1>2. /\ Depth' = Depth /\ saved' = saved /\ bp' = bp
      /\ \A a \in 1 .. Depth - 1 : ctl'[a] = ctl[a]
      /\ ctl'[Depth].proc = ctl[Depth].proc
      /\ Start(Depth) <= Len(stack')
      /\ \A j \in 1 .. Start(Depth) : SameEntry(stack[j], stack'[j])
  BY DEF StaysIn
<1>3. \A a \in 1 .. Depth : Start(a)' = Start(a)
  BY <1>2 DEF Start
<1>4. \A a \in 1 .. Depth : End(a)' = IF a = Depth THEN Len(stack') ELSE End(a)
  BY <1>2 DEF End
<1>5. \A a \in 1 .. Depth : a = Depth \/ a \in 1 .. Depth - 1
  BY <1>1
<1>6. \A a \in 1 .. Depth : Start(a) \in Nat /\ End(a) \in Nat /\ Start(a) <= End(a)
  BY Places
<1>7. \A a \in 1 .. Depth - 1 : End(a) < Start(Depth)
  BY <1>1 DEF IInv, OrderInv
<1>8. PhaseInv'
  <2> SUFFICES ASSUME NEW a \in 1 .. Depth
               PROVE  \A k \in 1 .. Len(ctl'[a].calls) :
                        Phase(ctl'[a].calls[k], k = Len(ctl'[a].calls), a = Depth)
    BY <1>2 DEF PhaseInv, Phase
  <2>1. CASE a = Depth
    BY <2>1
  <2>2. CASE a \in 1 .. Depth - 1
    BY <1>2, <2>2 DEF IInv, PhaseInv
  <2> QED
    BY <1>5, <2>1, <2>2
<1>9. ControlInv'
  <2>1. /\ Len(saved) = Depth - 1 /\ Depth <= DeepestRecursion
        /\ ctl[1].proc = Main
        /\ Depth > 1 => bp = saved[Depth - 1].bp
        /\ \A a \in 1 .. Depth - 1 :
             /\ Len(ctl[a].calls) > 0
             /\ ctl[a].calls[Len(ctl[a].calls)].callee = ctl[a + 1].proc
    BY DEF IInv, ControlInv
  <2>2. \A a \in 1 .. Depth : ctl'[a].proc = ctl[a].proc
    BY <1>2, <1>5
  <2>3. ctl'[1].proc = Main
    BY <1>1, <2>1, <2>2
  <2>4. ASSUME NEW a \in 1 .. Depth - 1
        PROVE  /\ Len(ctl'[a].calls) > 0
               /\ ctl'[a].calls[Len(ctl'[a].calls)].callee = ctl'[a + 1].proc
    <3>1. a + 1 \in 1 .. Depth
      BY <1>1
    <3> QED
      BY <1>2, <2>1, <2>2, <3>1
  <2> QED
    BY <1>2, <2>1, <2>3, <2>4 DEF ControlInv
<1>10. LayoutInv'
  <2> SUFFICES ASSUME NEW a \in 1 .. Depth
               PROVE  Layout(ctl'[a], Start(a)', End(a)', stack')
    BY <1>2 DEF LayoutInv, Layout
  <2>1. CASE a = Depth
    BY <1>3, <1>4, <2>1
  <2>2. CASE a \in 1 .. Depth - 1
    <3>1. Layout(ctl[a], Start(a), End(a), stack)
      BY DEF IInv, LayoutInv
    <3>2. Len(ctl[a].calls) \in Nat
      BY CallFacts
    <3>3. ASSUME NEW k \in 1 .. Len(ctl[a].calls)
          PROVE  /\ SameEntry(stack[ctl[a].calls[k].at], stack'[ctl[a].calls[k].at])
                 /\ \A i \in 1 .. Len(ctl[a].calls[k].into) :
                      SameEntry(stack[ctl[a].calls[k].at + i], stack'[ctl[a].calls[k].at + i])
      <4>1. /\ Start(a) < ctl[a].calls[k].at
            /\ ctl[a].calls[k].at + Len(ctl[a].calls[k].into) <= End(a)
        BY Places
      <4>2. Len(ctl[a].calls[k].into) \in Nat /\ ctl[a].calls[k].at \in Nat
        BY CallFacts
      <4>3. End(a) < Start(Depth) /\ Start(a) \in Nat /\ End(a) \in Nat /\ Start(Depth) \in Nat
        BY <1>1, <1>6, <1>7, <2>2
      <4>4. /\ ctl[a].calls[k].at \in 1 .. Start(Depth)
            /\ \A i \in 1 .. Len(ctl[a].calls[k].into) :
                 ctl[a].calls[k].at + i \in 1 .. Start(Depth)
        <5> DEFINE x == ctl[a].calls[k].at
                   n == Len(ctl[a].calls[k].into)
                   s == Start(a)
                   e == End(a)
                   t == Start(Depth)
        <5>1. s \in Nat /\ x \in Nat /\ n \in Nat /\ e \in Nat /\ t \in Nat
          BY <4>2, <4>3
        <5>2. s < x /\ x + n <= e /\ e < t
          BY <4>1, <4>3
        <5> HIDE DEF x, n, s, e, t
        <5>3. x \in 1 .. t /\ \A i \in 1 .. n : x + i \in 1 .. t
          BY <5>1, <5>2
        <5> QED
          BY <5>3 DEF x, n, t
      <4> QED
        BY <1>2, <4>4
    <3>4. ctl'[a] = ctl[a]
      BY <1>2, <2>2
    <3>5. Layout(ctl'[a], Start(a), End(a), stack')
      BY <3>1, <3>2, <3>3, <3>4, LayoutSame
    <3> QED
      BY <1>1, <1>3, <1>4, <2>2, <3>5
  <2> QED
    BY <1>5, <2>1, <2>2
<1>11. MarkerInv'
  <2> SUFFICES ASSUME NEW a \in 2 .. Depth
               PROVE  /\ Start(a) \in 1 .. Len(stack')
                      /\ stack'[Start(a)] = FunMarker(ctl'[a].proc)
                      /\ Start(a) <= (a - 1) * (MaxNesting * Most + 2)
    <3>1. \A a \in 2 .. Depth : Start(a)' = Start(a)
      BY <1>1, <1>3
    <3> QED
      BY <1>2, <3>1 DEF MarkerInv, FunMarker
  <2>1. /\ Start(a) \in 1 .. Len(stack)
        /\ stack[Start(a)] = FunMarker(ctl[a].proc)
        /\ Start(a) <= (a - 1) * (MaxNesting * Most + 2)
    BY DEF IInv, MarkerInv
  <2>2. Start(a) <= Start(Depth)
    BY <1>1, <1>5, <1>6, <1>7
  <2>3. Start(a) \in 1 .. Start(Depth) /\ Start(Depth) \in Nat
    BY <1>1, <1>6, <2>1, <2>2
  <2>4. stack'[Start(a)] = FunMarker(ctl[a].proc)
    BY <1>2, <2>1, <2>3 DEF SameEntry, FunMarker
  <2>5. ctl'[a].proc = ctl[a].proc
    BY <1>1, <1>2, <1>5
  <2>6. Start(a) \in 1 .. Len(stack')
    BY <1>1, <1>2, <2>3
  <2> QED
    BY <2>1, <2>4, <2>5, <2>6
<1>12. OrderInv'
  <2> SUFFICES ASSUME NEW a \in 1 .. Depth, NEW b \in 1 .. Depth, a < b
               PROVE  End(a)' < Start(b)'
    BY <1>2 DEF OrderInv
  <2>1. End(a) < Start(b) /\ a # Depth
    BY <1>1 DEF IInv, OrderInv
  <2> QED
    BY <1>3, <1>4, <2>1
<1> QED
  BY <1>8, <1>9, <1>10, <1>11, <1>12 DEF IInv

(* The parameters of an activation are the arguments of the call that      *)
(* started it.                                                             *)
LEMMA ParamFacts ==
  ASSUME IInv, NEW a \in 2 .. Depth
  PROVE  LET n == Len(ctl[a - 1].calls)
             c == ctl[a - 1].calls[n]
             p == ctl[a].proc
         IN  /\ a - 1 \in 1 .. Depth - 1 /\ n \in Nat /\ n > 0 /\ c \in CallRecords
             /\ c.callee = p /\ p \in Procs /\ c.phase = "active"
             /\ Params[p] \in Nat /\ Len(c.into) = Params[p]
             /\ Base(a) = c.at + Params[p] /\ Base(a) = End(a - 1) /\ Base(a) + 1 = Start(a)
             /\ c.at \in Nat /\ c.at > 0 /\ Base(a) < Len(stack)
             /\ \A i \in 1 .. Params[p] :
                  /\ Slot(p, Base(a), i) = c.at + i
                  /\ c.at + i \in 1 .. Base(a)
                  /\ stack[c.at + i].kind = "arg" /\ stack[c.at + i].of \in Values
<1> DEFINE b == a - 1
           n == Len(ctl[b].calls)
           c == ctl[b].calls[n]
           p == ctl[a].proc
<1>1. Depth \in Nat /\ b \in 1 .. Depth - 1 /\ b \in 1 .. Depth /\ b + 1 = a /\ b # Depth
  BY TopFacts
<1>2. n \in Nat /\ n > 0 /\ c.callee = p /\ n \in 1 .. n
  <2>1. \A d \in 1 .. Depth - 1 :
          Len(ctl[d].calls) > 0 /\ ctl[d].calls[Len(ctl[d].calls)].callee = ctl[d + 1].proc
    BY DEF IInv, ControlInv
  <2>2. n \in Nat
    BY <1>1, CallFacts
  <2> QED
    BY <1>1, <2>1, <2>2
<1>3. c \in CallRecords /\ c.at \in Nat /\ p \in Procs /\ Len(c.into) \in Nat
  BY <1>1, <1>2, CallFacts
<1>4. c.phase = "active" /\ Len(c.into) = Params[p]
  <2>1. Phase(ctl[b].calls[n], n = Len(ctl[b].calls), b = Depth)
    BY <1>1, <1>2 DEF IInv, PhaseInv
  <2> QED
    BY <1>1, <1>2, <2>1 DEF Phase
<1>5. Params[p] \in Nat
  BY <1>3, MostFacts
<1>6. Base(a) = saved[b].bp
  <2>1. a = Depth => bp = saved[Depth - 1].bp
    BY <1>1 DEF IInv, ControlInv
  <2> QED
    BY <2>1 DEF Base
<1>7. End(b) = saved[b].bp /\ Start(a) = saved[b].bp + 1
  BY <1>1 DEF End, Start
<1>8. End(b) = c.at + Len(c.into)
  <2>1. Layout(ctl[b], Start(b), End(b), stack)
    BY <1>1 DEF IInv, LayoutInv
  <2>2. End(b) = After(ctl[b], Start(b), n)
    BY <2>1 DEF Layout
  <2>3. After(ctl[b], Start(b), n) = c.at + Len(c.into)
    BY <1>2 DEF After
  <2> QED
    BY <2>2, <2>3
<1>9. \A i \in 1 .. Len(c.into) : stack[c.at + i].kind = "arg" /\ stack[c.at + i].of \in Values
  <2>1. Layout(ctl[b], Start(b), End(b), stack)
    BY <1>1 DEF IInv, LayoutInv
  <2> QED
    BY <1>2, <2>1 DEF Layout
<1>10. c.at > 0
  <2>1. Start(b) \in Nat /\ Start(b) < c.at
    BY <1>1, <1>2, Places
  <2> QED
    BY <1>3, <2>1
<1>11. Base(a) < Len(stack)
  <2>1. Start(a) \in 1 .. Len(stack)
    BY DEF IInv, MarkerInv
  <2>2. Len(stack) \in Nat
    BY TopFacts
  <2>3. Start(a) = Base(a) + 1 /\ Base(a) \in Nat
    <3>1. Base(a) = c.at + Len(c.into) /\ Start(a) = Base(a) + 1
      BY <1>6, <1>7, <1>8
    <3>2. c.at \in Nat /\ Len(c.into) \in Nat
      BY <1>3
    <3> HIDE DEF c
    <3> QED
      BY <3>1, <3>2
  <2> QED
    BY <2>1, <2>2, <2>3
<1>12. Base(a) = c.at + Params[p]
  BY <1>4, <1>6, <1>7, <1>8
<1>13. ASSUME NEW i \in 1 .. Params[p]
       PROVE  /\ Slot(p, Base(a), i) = c.at + i
              /\ c.at + i \in 1 .. Base(a)
  <2> DEFINE x == c.at
             m == Params[p]
  <2>1. x \in Nat /\ m \in Nat /\ Base(a) = x + m /\ i \in 1 .. m
    BY <1>3, <1>5, <1>12
  <2>2. Slot(p, Base(a), i) = Base(a) - (m - i)
    BY DEF Slot
  <2> HIDE DEF x, m
  <2>3. Base(a) - (m - i) = x + i /\ x + i \in 1 .. Base(a)
    BY <2>1
  <2> QED
    BY <2>2, <2>3 DEF x
<1> HIDE DEF c, n, p, b
<1>14. /\ b \in 1 .. Depth - 1 /\ n \in Nat /\ n > 0 /\ c \in CallRecords
       /\ c.callee = p /\ p \in Procs /\ c.phase = "active"
       /\ Params[p] \in Nat /\ Len(c.into) = Params[p]
       /\ Base(a) = c.at + Params[p] /\ Base(a) = End(b) /\ Base(a) + 1 = Start(a)
       /\ c.at \in Nat /\ c.at > 0 /\ Base(a) < Len(stack)
  BY <1>1, <1>2, <1>3, <1>4, <1>5, <1>6, <1>7, <1>10, <1>11, <1>12
<1>15. \A i \in 1 .. Params[p] :
                  /\ Slot(p, Base(a), i) = c.at + i
                  /\ c.at + i \in 1 .. Base(a)
                  /\ stack[c.at + i].kind = "arg" /\ stack[c.at + i].of \in Values
  BY <1>4, <1>9, <1>13
<1> QED
  BY <1>14, <1>15 DEF b, c, n, p

(* The activation that runs, if it is a call.                              *)
LEMMA TopParams ==
  ASSUME IInv, NEW i \in 1 .. Params[Top.proc]
  PROVE  /\ Depth > 1 /\ bp \in Nat /\ bp = Base(Depth)
         /\ Slot(Top.proc, bp, i) \in 1 .. bp /\ bp < Len(stack)
         /\ stack[Slot(Top.proc, bp, i)].kind = "arg"
         /\ stack[Slot(Top.proc, bp, i)].of \in Values
         /\ i = Params[Top.proc] => Slot(Top.proc, bp, i) = bp
<1>1. Depth \in Nat /\ Depth >= 1 /\ Top.proc \in Procs /\ Top = ctl[Depth]
  BY TopFacts DEF Top
<1>2. Depth > 1
  <2>1. Depth = 1 => Top.proc = Main
    BY <1>1 DEF IInv, ControlInv
  <2>2. Params[Main] = 0
    BY ProgramAssumption
  <2> QED
    BY <1>1, <2>1, <2>2
<1>3. Depth \in 2 .. Depth
  BY <1>1, <1>2
<1>4. bp = Base(Depth)
  BY DEF Base
<1> DEFINE c == ctl[Depth - 1].calls[Len(ctl[Depth - 1].calls)]
<1>5. /\ Params[Top.proc] \in Nat
      /\ Base(Depth) = c.at + Params[Top.proc] /\ c.at \in Nat /\ Base(Depth) < Len(stack)
      /\ \A j \in 1 .. Params[Top.proc] :
                  /\ Slot(Top.proc, Base(Depth), j) = c.at + j
                  /\ c.at + j \in 1 .. Base(Depth)
                  /\ stack[c.at + j].kind = "arg" /\ stack[c.at + j].of \in Values
  BY <1>1, <1>3, ParamFacts
<1> HIDE DEF c
<1> QED
  BY <1>2, <1>4, <1>5

-----------------------------------------------------------------------------
(* Steps that move neither stack nor calls.                                *)
Quiet ==
  /\ ctl' \in Seq(ActivationRecords) /\ Len(ctl') = Depth
  /\ \A a \in 1 .. Depth - 1 : ctl'[a] = ctl[a]
  /\ ctl'[Depth].proc = Top.proc /\ Len(ctl'[Depth].calls) = NCalls
  /\ \A k \in 1 .. NCalls - 1 : ctl'[Depth].calls[k] = Top.calls[k]
  /\ NCalls > 0 =>
       /\ ctl'[Depth].calls[NCalls].at = Here.at
       /\ ctl'[Depth].calls[NCalls].into = Here.into
       /\ ctl'[Depth].calls[NCalls].callee = Here.callee
       /\ Phase(ctl'[Depth].calls[NCalls], TRUE, TRUE)
  /\ stack' \in Seq(Entries) /\ Len(stack') = Len(stack)
  /\ \A j \in 1 .. Len(stack) : SameEntry(stack[j], stack'[j])
  /\ saved' = saved /\ bp' = bp

(* A step that moves nothing on the stack, and changes the innermost call  *)
(* in its phase only, keeps the invariant.                                 *)
LEMMA QuietIInv ==
  ASSUME IInv, Quiet, global' \in [Globals -> Values], regi' \in Values, known' \in BOOLEAN,
         rvi' \in Values, status' \in {"running", "exited", "failed"}, KnownInv'
  PROVE  IInv'
<1>1. /\ Depth \in Nat /\ Depth >= 1 /\ Top.calls \in Seq(CallRecords)
      /\ Len(stack) \in Nat /\ NCalls \in Nat /\ Depth \in 1 .. Depth
      /\ Top = ctl[Depth] /\ NCalls = Len(ctl[Depth].calls) /\ Here = ctl[Depth].calls[NCalls]
  BY TopFacts DEF Top, NCalls, Here
<1>2. StaysIn
  <2>1. Start(Depth) <= Len(stack') /\ Start(Depth) \in Nat
    <3>1. End(Depth) = Len(stack) /\ Start(Depth) <= End(Depth) /\ Start(Depth) \in Nat
      BY <1>1, Places DEF End
    <3> QED
      BY <3>1 DEF Quiet
  <2>2. \A j \in 1 .. Start(Depth) : SameEntry(stack[j], stack'[j])
    BY <1>1, <2>1 DEF Quiet
  <2> QED
    BY <1>1, <2>1, <2>2 DEF Quiet, StaysIn, Depth
<1>3. TypeOK'
  BY <1>1 DEF Quiet, TypeOK, IInv
<1>4. SizeInv'
  BY DEF SizeInv
<1>5. \A k \in 1 .. NCalls : k = NCalls \/ k \in 1 .. NCalls - 1
  BY <1>1
<1>6. Layout(ctl'[Depth], Start(Depth), Len(stack'), stack')
  <2>1. Layout(ctl[Depth], Start(Depth), Len(stack), stack)
    BY <1>1 DEF IInv, LayoutInv, End
  <2>2. ASSUME NEW k \in 1 .. Len(ctl[Depth].calls)
        PROVE  /\ ctl'[Depth].calls[k].at = ctl[Depth].calls[k].at
               /\ ctl'[Depth].calls[k].into = ctl[Depth].calls[k].into
               /\ ctl'[Depth].calls[k].callee = ctl[Depth].calls[k].callee
    <3>1. CASE k = NCalls
      <4>1. NCalls > 0
        BY <1>1, <3>1
      <4> QED
        BY <1>1, <3>1, <4>1 DEF Quiet
    <3>2. CASE k \in 1 .. NCalls - 1
      BY <1>1, <3>2 DEF Quiet
    <3> QED
      BY <1>1, <1>5, <3>1, <3>2
  <2>3. ASSUME NEW k \in 1 .. Len(ctl[Depth].calls)
        PROVE  /\ SameEntry(stack[ctl[Depth].calls[k].at], stack'[ctl[Depth].calls[k].at])
               /\ \A i \in 1 .. Len(ctl[Depth].calls[k].into) :
                    SameEntry(stack[ctl[Depth].calls[k].at + i], stack'[ctl[Depth].calls[k].at + i])
    <3> DEFINE x == ctl[Depth].calls[k].at
               n == Len(ctl[Depth].calls[k].into)
               s == Start(Depth)
               e == End(Depth)
               t == Len(stack)
    <3>1. x \in Nat /\ n \in Nat /\ s \in Nat /\ s < x /\ x + n <= e /\ e \in Nat /\ e <= t /\ t \in Nat
      BY <1>1, Places, CallFacts
    <3>2. \A j \in 1 .. t : SameEntry(stack[j], stack'[j])
      BY DEF Quiet
    <3> HIDE DEF x, n, s, e, t
    <3>3. x \in 1 .. t /\ \A i \in 1 .. n : x + i \in 1 .. t
      BY <3>1
    <3>4. SameEntry(stack[x], stack'[x]) /\ \A i \in 1 .. n : SameEntry(stack[x + i], stack'[x + i])
      BY <3>2, <3>3
    <3> QED
      BY <3>4 DEF x, n
  <2>4. Layout(ctl'[Depth], Start(Depth), Len(stack), stack')
    <3>1. Len(ctl'[Depth].calls) = Len(ctl[Depth].calls) /\ Len(ctl[Depth].calls) \in Nat
      BY <1>1 DEF Quiet
    <3> QED
      BY <2>1, <2>2, <2>3, <3>1, LayoutSame
  <2> QED
    BY <2>4 DEF Quiet
<1>7. ASSUME NEW k \in 1 .. Len(ctl'[Depth].calls)
      PROVE  Phase(ctl'[Depth].calls[k], k = Len(ctl'[Depth].calls), TRUE)
  <2>1. Len(ctl'[Depth].calls) = NCalls
    BY DEF Quiet
  <2>2. CASE k = NCalls
    <3>1. NCalls > 0
      BY <1>1, <2>1, <2>2
    <3>2. Phase(ctl'[Depth].calls[NCalls], TRUE, TRUE)
      BY <3>1 DEF Quiet
    <3> QED
      BY <2>1, <2>2, <3>2
  <2>3. CASE k \in 1 .. NCalls - 1
    <3>1. Phase(ctl[Depth].calls[k], k = Len(ctl[Depth].calls), Depth = Depth)
      BY <1>1, <2>1 DEF IInv, PhaseInv
    <3>2. ctl'[Depth].calls[k] = ctl[Depth].calls[k]
      BY <1>1, <2>3 DEF Quiet
    <3>3. (k = Len(ctl'[Depth].calls)) = (k = Len(ctl[Depth].calls)) /\ (Depth = Depth) = TRUE
      BY <1>1, <2>1
    <3> QED
      BY <3>1, <3>2, <3>3
  <2> QED
    BY <1>5, <2>1, <2>2, <2>3
<1> QED
  BY <1>2, <1>3, <1>4, <1>6, <1>7, TopStep

(* The running activation replaced.                                        *)
LEMMA TopReplaced ==
  ASSUME IInv, NEW x \in ActivationRecords, ctl' = [ctl EXCEPT ![Depth] = x]
  PROVE  /\ ctl' \in Seq(ActivationRecords) /\ Len(ctl') = Depth /\ Depth' = Depth
         /\ \A a \in 1 .. Depth - 1 : ctl'[a] = ctl[a]
         /\ ctl'[Depth] = x
<1>1. Depth \in Nat /\ Depth >= 1 /\ Depth = Len(ctl) /\ ctl \in Seq(ActivationRecords)
  BY TopFacts DEF IInv, TypeOK, Depth
<1>2. Depth \in 1 .. Len(ctl)
  BY <1>1
<1>3. /\ ctl' \in Seq(ActivationRecords) /\ Len(ctl') = Len(ctl)
      /\ \A j \in 1 .. Len(ctl) : ctl'[j] = IF j = Depth THEN x ELSE ctl[j]
  BY <1>1, <1>2, ExceptSeq
<1>4. \A j \in 1 .. Depth - 1 : j \in 1 .. Len(ctl) /\ j # Depth
  BY <1>1
<1>5. Depth' = Len(ctl')
  BY DEF Depth
<1> QED
  BY <1>1, <1>2, <1>3, <1>4, <1>5

(* Its innermost call replaced.                                            *)
LEMMA CallReplaced ==
  ASSUME IInv, NCalls > 0, NEW c \in CallRecords, ctl' = WithCall(c)
  PROVE  /\ ctl' \in Seq(ActivationRecords) /\ Len(ctl') = Depth /\ Depth' = Depth
         /\ \A a \in 1 .. Depth - 1 : ctl'[a] = ctl[a]
         /\ ctl'[Depth].proc = Top.proc /\ ctl'[Depth].left = Top.left
         /\ Len(ctl'[Depth].calls) = NCalls
         /\ \A k \in 1 .. NCalls - 1 : ctl'[Depth].calls[k] = Top.calls[k]
         /\ ctl'[Depth].calls[NCalls] = c
<1> DEFINE s == [Top.calls EXCEPT ![NCalls] = c]
           x == [Top EXCEPT !.calls = s]
<1>1. /\ Depth \in Nat /\ Depth >= 1 /\ Top \in ActivationRecords /\ NCalls \in Nat
      /\ Top.calls \in Seq(CallRecords) /\ Top = ctl[Depth] /\ NCalls = Len(Top.calls)
      /\ ctl \in Seq(ActivationRecords)
  BY TopFacts DEF Top, NCalls, IInv, TypeOK
<1>2. /\ s \in Seq(CallRecords) /\ Len(s) = NCalls
      /\ \A k \in 1 .. NCalls : s[k] = IF k = NCalls THEN c ELSE Top.calls[k]
  <2>1. NCalls \in 1 .. Len(Top.calls)
    BY <1>1
  <2> QED
    BY <1>1, <2>1, ExceptSeq
<1>3. ctl' = [ctl EXCEPT ![Depth] = x]
  BY <1>1 DEF WithCall
<1> HIDE DEF s
<1>4. /\ x \in ActivationRecords /\ x.proc = Top.proc /\ x.left = Top.left /\ x.calls = s
  BY <1>1, <1>2 DEF ActivationRecords
<1> HIDE DEF x
<1>5. /\ ctl' \in Seq(ActivationRecords) /\ Len(ctl') = Depth /\ Depth' = Depth
      /\ \A a \in 1 .. Depth - 1 : ctl'[a] = ctl[a]
      /\ ctl'[Depth] = x
  BY <1>3, <1>4, TopReplaced
<1>6. \A k \in 1 .. NCalls - 1 : s[k] = Top.calls[k]
  BY <1>1, <1>2
<1>7. s[NCalls] = c
  BY <1>1, <1>2
<1> QED
  BY <1>2, <1>4, <1>5, <1>6, <1>7

(* The phases of the innermost call.                                       *)
LEMMA HereFacts ==
  ASSUME IInv, NCalls > 0
  PROVE  /\ Here \in CallRecords /\ Here.callee \in Procs /\ Here.at \in Nat
         /\ Here.into \in Seq(Globals \cup {NoGlobal}) /\ Len(Here.into) \in Nat
         /\ Params[Here.callee] \in Nat
         /\ Here.phase \in {"args", "back", "refs"}
         /\ Here.todo \subseteq Refs[Here.callee]
         /\ Here.todo \subseteq 1 .. Params[Here.callee]
         /\ Len(Here.into) <= Params[Here.callee]
         /\ Here.phase # "args" => Len(Here.into) = Params[Here.callee]
<1>1. Here \in CallRecords /\ Depth \in Nat /\ Depth >= 1 /\ NCalls \in Nat
  BY TopFacts
<1>2. /\ Here.callee \in Procs /\ Here.at \in Nat
      /\ Here.into \in Seq(Globals \cup {NoGlobal})
      /\ Here.phase \in {"args", "active", "back", "refs"}
  BY <1>1 DEF CallRecords
<1>3. Len(Here.into) \in Nat /\ Params[Here.callee] \in Nat
  BY <1>2, LenProperties, MostFacts
<1>4. Phase(ctl[Depth].calls[NCalls], NCalls = Len(ctl[Depth].calls), Depth = Depth)
  <2>1. Depth \in 1 .. Depth /\ NCalls \in 1 .. Len(ctl[Depth].calls)
    BY <1>1 DEF NCalls, Top
  <2> QED
    BY <2>1 DEF IInv, PhaseInv
<1>5. Phase(Here, TRUE, TRUE)
  BY <1>4 DEF Here, Top, NCalls, Phase
<1>6. Refs[Here.callee] \subseteq 1 .. Params[Here.callee]
  BY <1>2, ProgramAssumption
<1>7. Here.todo \subseteq Refs[Here.callee]
  BY <1>5 DEF Phase
<1>8. Here.todo \subseteq 1 .. Params[Here.callee]
  BY <1>6, <1>7
<1> QED
  BY <1>1, <1>2, <1>3, <1>5, <1>7, <1>8 DEF Phase

-----------------------------------------------------------------------------
(* The actions that move neither.                                          *)
LEMMA SameStack == \A e : SameEntry(e, e)
BY DEF SameEntry

(* The value of an expression goes into the register.                      *)
LEMMA LoadIInv == IInv /\ Load => IInv'
<1> SUFFICES ASSUME IInv, Load
             PROVE  IInv'
  OBVIOUS
<1> DEFINE x == Step(Top)
<1>1. /\ Depth \in Nat /\ Depth >= 1 /\ Top \in ActivationRecords /\ Top = ctl[Depth]
      /\ NCalls \in Nat /\ NCalls = Len(Top.calls) /\ Here = Top.calls[NCalls]
      /\ Len(stack) \in Nat
  BY TopFacts DEF Top, NCalls, Here
<1>2. /\ x \in ActivationRecords /\ x.proc = Top.proc /\ x.calls = Top.calls
  <2>1. NCalls = 0 => Top.left - 1 \in Nat
    BY <1>1 DEF Load, Expression, InBody, InCall, ActivationRecords
  <2> QED
    BY <1>1, <2>1 DEF Step, ActivationRecords
<1>3. ctl' = [ctl EXCEPT ![Depth] = x]
  BY <1>1 DEF Load
<1> HIDE DEF x
<1>4. /\ ctl' \in Seq(ActivationRecords) /\ Len(ctl') = Depth /\ Depth' = Depth
      /\ \A a \in 1 .. Depth - 1 : ctl'[a] = ctl[a]
      /\ ctl'[Depth] = x
  BY <1>2, <1>3, TopReplaced
<1>5. NCalls > 0 => Here.phase = "args" /\ Phase(Here, TRUE, TRUE)
  <2>1. NCalls > 0 => Here.phase = "args"
    BY <1>1 DEF Load, Expression, InBody, InCall
  <2> QED
    BY <2>1, HereFacts DEF Phase
<1>6. Quiet
  <2>1. stack' = stack /\ saved' = saved /\ bp' = bp /\ stack \in Seq(Entries)
    BY DEF Load, IInv, TypeOK
  <2> QED
    BY <1>1, <1>2, <1>4, <1>5, <2>1, SameStack DEF Quiet
<1>7. regi' \in Values
  <2>1. \A i \in 1 .. Params[Top.proc] : Peek(i) \in Values
    BY TopParams DEF Peek
  <2>2. \A g \in Globals : global[g] \in Values
    BY DEF IInv, TypeOK
  <2> QED
    BY <2>1, <2>2 DEF Load
<1>8. KnownInv'
  <2>1. NCalls' = NCalls /\ Here' = Here
    BY <1>1, <1>2, <1>4 DEF NCalls, Here, Top
  <2> QED
    BY <1>1, <1>5, <2>1 DEF KnownInv
<1>9. /\ global' \in [Globals -> Values] /\ known' \in BOOLEAN
      /\ rvi' \in Values /\ status' \in {"running", "exited", "failed"}
  BY DEF Load, Expression, InBody, InCall, Running, IInv, TypeOK
<1> QED
  BY <1>6, <1>7, <1>8, <1>9, QuietIInv

(* Nothing but registers, globals and the stack entry of a parameter.      *)
LEMMA StillQuiet ==
  ASSUME IInv, UNCHANGED <<ctl, saved, bp>>,
         stack' \in Seq(Entries), Len(stack') = Len(stack),
         \A j \in 1 .. Len(stack) : SameEntry(stack[j], stack'[j])
  PROVE  Quiet /\ NCalls' = NCalls /\ Here' = Here /\ Depth' = Depth
<1>1. /\ Depth \in Nat /\ Depth >= 1 /\ Top = ctl[Depth] /\ NCalls \in Nat
      /\ NCalls = Len(Top.calls) /\ Here = Top.calls[NCalls]
      /\ Depth = Len(ctl) /\ ctl \in Seq(ActivationRecords)
  BY TopFacts DEF Top, NCalls, Here, Depth, IInv, TypeOK
<1>2. NCalls > 0 => Phase(Here, TRUE, TRUE)
  BY HereFacts DEF Phase
<1>3. NCalls' = NCalls /\ Here' = Here /\ Depth' = Depth
  BY DEF NCalls, Here, Top, Depth
<1> QED
  BY <1>1, <1>2, <1>3 DEF Quiet

(* An assignment to a variable takes the value from the register.          *)
LEMMA AssignGlobalIInv == \A g \in Globals : IInv /\ AssignGlobal(g) => IInv'
<1> SUFFICES ASSUME NEW g \in Globals, IInv, AssignGlobal(g)
             PROVE  IInv'
  OBVIOUS
<1>1. Quiet /\ NCalls' = NCalls /\ Here' = Here
  <2>1. stack' = stack /\ stack \in Seq(Entries) /\ UNCHANGED <<ctl, saved, bp>>
    BY DEF AssignGlobal, IInv, TypeOK
  <2> QED
    BY <2>1, SameStack, StillQuiet
<1>2. NCalls = 0
  BY DEF AssignGlobal, Assigning, InBody
<1>3. KnownInv'
  BY <1>1, <1>2 DEF KnownInv
<1>4. /\ global' \in [Globals -> Values] /\ regi' \in Values /\ known' \in BOOLEAN
      /\ rvi' \in Values /\ status' \in {"running", "exited", "failed"}
  BY DEF AssignGlobal, Assigning, InBody, Running, IInv, TypeOK
<1> QED
  BY <1>1, <1>3, <1>4, QuietIInv

(* What the assignment to a parameter does to the stack.                   *)
LEMMA AssignedStack ==
  ASSUME IInv, NEW i \in 1 .. Params[Top.proc], stack' = [stack EXCEPT ![bp].of = regi]
  PROVE  /\ bp \in 1 .. Len(stack) /\ stack' \in Seq(Entries) /\ Len(stack') = Len(stack)
         /\ \A j \in 1 .. Len(stack) : j # bp => stack'[j] = stack[j]
         /\ stack'[bp] = Arg(regi) /\ stack[bp].kind = "arg"
<1>1. Len(stack) \in Nat /\ stack \in Seq(Entries) /\ regi \in Values /\ Top.proc \in Procs
  BY TopFacts DEF IInv, TypeOK
<1>2. Params[Top.proc] \in Nat /\ Params[Top.proc] \in 1 .. Params[Top.proc]
  BY <1>1, MostFacts
<1>3. bp \in 1 .. Len(stack) /\ stack[bp].kind = "arg"
  <2>1. /\ bp \in Nat /\ bp < Len(stack) /\ stack[bp].kind = "arg" /\ bp \in 1 .. bp
    BY <1>2, TopParams
  <2> QED
    BY <1>1, <2>1
<1>4. stack[bp] \in Entries
  BY <1>1, <1>3, ElementOfSeq
<1>5. [stack[bp] EXCEPT !.of = regi] = Arg(regi) /\ Arg(regi) \in Entries
  BY <1>1, <1>3, <1>4 DEF Entries, Arg
<1>6. stack' = [stack EXCEPT ![bp] = Arg(regi)]
  BY <1>3, <1>5
<1> QED
  BY <1>1, <1>3, <1>5, <1>6, ExceptSeq

(* An assignment to a parameter changes what an entry of the stack holds,  *)
(* and not its kind.                                                       *)
LEMMA AssignParamIInv ==
  \A p \in Procs : \A i \in Assigns[p] : IInv /\ AssignParam(i) => IInv'
<1> SUFFICES ASSUME NEW p \in Procs, NEW i \in Assigns[p], IInv, AssignParam(i)
             PROVE  IInv'
  OBVIOUS
<1>1. i \in 1 .. Params[Top.proc]
  <2>1. Top.proc \in Procs
    BY TopFacts
  <2>2. i \in Assigns[Top.proc]
    BY DEF AssignParam
  <2> QED
    BY <2>1, <2>2, ProgramAssumption
<1>2. /\ stack' \in Seq(Entries) /\ Len(stack') = Len(stack)
      /\ \A j \in 1 .. Len(stack) : j # bp => stack'[j] = stack[j]
      /\ stack'[bp] = Arg(regi) /\ stack[bp].kind = "arg"
  BY <1>1, AssignedStack DEF AssignParam
<1>3. \A j \in 1 .. Len(stack) : SameEntry(stack[j], stack'[j])
  <2>1. regi \in Values
    BY DEF IInv, TypeOK
  <2> QED
    BY <1>2, <2>1 DEF SameEntry, Arg
<1>4. Quiet /\ NCalls' = NCalls /\ Here' = Here
  <2>1. UNCHANGED <<ctl, saved, bp>>
    BY DEF AssignParam
  <2> QED
    BY <1>2, <1>3, <2>1, StillQuiet
<1>5. NCalls = 0
  BY DEF AssignParam, Assigning, InBody
<1>6. KnownInv'
  BY <1>4, <1>5 DEF KnownInv
<1>7. /\ global' \in [Globals -> Values] /\ regi' \in Values /\ known' \in BOOLEAN
      /\ rvi' \in Values /\ status' \in {"running", "exited", "failed"}
  BY DEF AssignParam, Assigning, InBody, Running, IInv, TypeOK
<1> QED
  BY <1>4, <1>6, <1>7, QuietIInv

(* The program stops: at the limit of recursion, or with exit.             *)
LEMMA StopIInv == IInv /\ (CallTooDeep \/ ExitProgram) => IInv'
<1> SUFFICES ASSUME IInv, CallTooDeep \/ ExitProgram
             PROVE  IInv'
  OBVIOUS
<1>1. /\ UNCHANGED <<stack, bp, saved, ctl, global, regi, known, rvi>>
      /\ status' \in {"exited", "failed"}
  BY DEF CallTooDeep, ExitProgram
<1>2. Quiet /\ NCalls' = NCalls /\ Here' = Here
  <2>1. stack' = stack /\ stack \in Seq(Entries) /\ UNCHANGED <<ctl, saved, bp>>
    BY <1>1 DEF IInv, TypeOK
  <2> QED
    BY <2>1, SameStack, StillQuiet
<1>3. KnownInv'
  BY <1>1, <1>2 DEF KnownInv, IInv
<1>4. /\ global' \in [Globals -> Values] /\ regi' \in Values /\ known' \in BOOLEAN
      /\ rvi' \in Values /\ status' \in {"running", "exited", "failed"}
  BY <1>1 DEF IInv, TypeOK
<1> QED
  BY <1>2, <1>3, <1>4, QuietIInv

(* The result of a call goes into the register.                            *)
LEMMA TakeResultIInv == IInv /\ TakeResult => IInv'
<1> SUFFICES ASSUME IInv, TakeResult
             PROVE  IInv'
  OBVIOUS
<1> DEFINE c == [Here EXCEPT !.phase = "refs"]
<1>1. NCalls \in Nat /\ NCalls > 0 /\ Here.phase = "back" /\ Here \in CallRecords
  BY TopFacts DEF TakeResult, InCall
<1>2. /\ c \in CallRecords /\ c.at = Here.at /\ c.into = Here.into /\ c.callee = Here.callee
      /\ c.todo = Here.todo /\ c.phase = "refs"
  BY <1>1 DEF CallRecords
<1>3. ctl' = WithCall(c)
  BY DEF TakeResult
<1> HIDE DEF c
<1>4. Phase(c, TRUE, TRUE)
  BY <1>1, <1>2, HereFacts DEF Phase
<1>5. /\ ctl' \in Seq(ActivationRecords) /\ Len(ctl') = Depth /\ Depth' = Depth
      /\ \A a \in 1 .. Depth - 1 : ctl'[a] = ctl[a]
      /\ ctl'[Depth].proc = Top.proc
      /\ Len(ctl'[Depth].calls) = NCalls
      /\ \A k \in 1 .. NCalls - 1 : ctl'[Depth].calls[k] = Top.calls[k]
      /\ ctl'[Depth].calls[NCalls] = c
  BY <1>1, <1>2, <1>3, CallReplaced
<1>6. Quiet
  <2>1. stack' = stack /\ saved' = saved /\ bp' = bp /\ stack \in Seq(Entries)
    BY DEF TakeResult, IInv, TypeOK
  <2> QED
    BY <1>2, <1>4, <1>5, <2>1, SameStack DEF Quiet
<1>7. KnownInv'
  <2>1. NCalls' = NCalls /\ Here' = c
    BY <1>5 DEF NCalls, Here, Top
  <2>2. known' = Returns[c.callee]
    BY <1>2 DEF TakeResult
  <2> QED
    BY <1>2, <2>1, <2>2 DEF KnownInv
<1>8. /\ global' \in [Globals -> Values] /\ regi' \in Values /\ known' \in BOOLEAN
      /\ rvi' \in Values /\ status' \in {"running", "exited", "failed"}
  <2>1. Returns[Here.callee] \in BOOLEAN
    BY <1>1, HereFacts, ProgramAssumption
  <2> QED
    BY <2>1 DEF TakeResult, InCall, Running, IInv, TypeOK
<1> QED
  BY <1>6, <1>7, <1>8, QuietIInv

(* The innermost call is at the top of the stack.                          *)
LEMMA HereArgs ==
  ASSUME IInv, NCalls > 0
  PROVE  /\ Here.at > 0 /\ Len(stack) = Here.at + Len(Here.into)
         /\ stack[Here.at] = CallMarker(Here.callee)
         /\ \A i \in 1 .. Len(Here.into) :
              /\ Here.at + i \in 1 .. Len(stack)
              /\ stack[Here.at + i].kind = "arg" /\ stack[Here.at + i].of \in Values
         /\ Start(Depth) < Here.at
<1>1. /\ Depth \in Nat /\ Depth >= 1 /\ NCalls \in Nat /\ Top = ctl[Depth]
      /\ NCalls = Len(ctl[Depth].calls) /\ Here = ctl[Depth].calls[NCalls]
      /\ Len(stack) \in Nat
  BY TopFacts DEF Top, NCalls, Here
<1>2. Depth \in 1 .. Depth /\ NCalls \in 1 .. Len(ctl[Depth].calls)
  BY <1>1
<1>3. Layout(ctl[Depth], Start(Depth), Len(stack), stack)
  BY <1>2 DEF IInv, LayoutInv, End
<1>4. /\ Len(stack) = Here.at + Len(Here.into)
      /\ stack[Here.at] = CallMarker(Here.callee)
      /\ \A i \in 1 .. Len(Here.into) :
           stack[Here.at + i].kind = "arg" /\ stack[Here.at + i].of \in Values
  <2>1. Len(stack) = After(ctl[Depth], Start(Depth), NCalls)
    BY <1>1, <1>3 DEF Layout
  <2>2. After(ctl[Depth], Start(Depth), NCalls) = Here.at + Len(Here.into)
    BY <1>1, <1>2 DEF After
  <2>3. stack[Here.at] = CallMarker(Here.callee)
    BY <1>1, <1>2, <1>3 DEF Layout
  <2>4. \A i \in 1 .. Len(Here.into) :
          stack[Here.at + i].kind = "arg" /\ stack[Here.at + i].of \in Values
    BY <1>1, <1>2, <1>3 DEF Layout
  <2> QED
    BY <2>1, <2>2, <2>3, <2>4
<1>5. Start(Depth) \in Nat /\ Start(Depth) < Here.at
  BY <1>1, <1>2, Places
<1>6. Here.at \in Nat /\ Len(Here.into) \in Nat
  BY HereFacts
<1> DEFINE x == Here.at
           n == Len(Here.into)
           s == Start(Depth)
           t == Len(stack)
<1>7. /\ s \in Nat /\ x \in Nat /\ n \in Nat /\ t = x + n /\ s < x
  BY <1>4, <1>5, <1>6
<1> HIDE DEF x, n, s, t
<1>8. x > 0 /\ \A i \in 1 .. n : x + i \in 1 .. t
  BY <1>7
<1> QED
  BY <1>4, <1>5, <1>8 DEF x, n, t

(* A reference parameter is fetched from its entry, which is still there.  *)
LEMMA FetchRefIInv ==
  \A i \in UNION {Refs[p] : p \in Procs} : IInv /\ FetchRef(i) => IInv'
<1> SUFFICES ASSUME NEW i \in UNION {Refs[p] : p \in Procs}, IInv, FetchRef(i)
             PROVE  IInv'
  OBVIOUS
<1> DEFINE c == [Here EXCEPT !.todo = @ \ {i}]
<1>1. /\ NCalls \in Nat /\ NCalls > 0 /\ Here.phase = "refs" /\ Here \in CallRecords
      /\ i \in Here.todo
  BY TopFacts DEF FetchRef, InCall
<1>2. /\ c \in CallRecords /\ c.at = Here.at /\ c.into = Here.into /\ c.callee = Here.callee
      /\ c.todo = Here.todo \ {i} /\ c.phase = "refs"
  BY <1>1 DEF CallRecords
<1>3. ctl' = WithCall(c)
  BY DEF FetchRef
<1> HIDE DEF c
<1>4. Phase(c, TRUE, TRUE)
  BY <1>1, <1>2, HereFacts DEF Phase
<1>5. /\ ctl' \in Seq(ActivationRecords) /\ Len(ctl') = Depth /\ Depth' = Depth
      /\ \A a \in 1 .. Depth - 1 : ctl'[a] = ctl[a]
      /\ ctl'[Depth].proc = Top.proc
      /\ Len(ctl'[Depth].calls) = NCalls
      /\ \A k \in 1 .. NCalls - 1 : ctl'[Depth].calls[k] = Top.calls[k]
      /\ ctl'[Depth].calls[NCalls] = c
  BY <1>1, <1>2, <1>3, CallReplaced
<1>6. Quiet
  <2>1. stack' = stack /\ saved' = saved /\ bp' = bp /\ stack \in Seq(Entries)
    BY DEF FetchRef, IInv, TypeOK
  <2> QED
    BY <1>2, <1>4, <1>5, <2>1, SameStack DEF Quiet
<1>7. KnownInv'
  <2>1. NCalls' = NCalls /\ Here' = c
    BY <1>5 DEF NCalls, Here, Top
  <2>2. known' = Returns[c.callee]
    BY <1>1, <1>2 DEF FetchRef, IInv, KnownInv
  <2> QED
    BY <1>2, <2>1, <2>2 DEF KnownInv
<1>8. regi' \in Values
  <2>1. i \in 1 .. Params[Here.callee] /\ Len(Here.into) = Params[Here.callee]
        /\ Params[Here.callee] \in Nat /\ Here.at \in Nat
    BY <1>1, HereFacts
  <2>2. Len(stack) = Here.at + Len(Here.into) /\ stack[Here.at + i].of \in Values
    BY <1>1, <2>1, HereArgs
  <2>3. Slot(Here.callee, Len(stack), i) = Here.at + i
    <3> DEFINE x == Here.at
               n == Params[Here.callee]
    <3>1. x \in Nat /\ n \in Nat /\ i \in 1 .. n /\ Len(stack) = x + n
      BY <2>1, <2>2
    <3>2. Slot(Here.callee, Len(stack), i) = Len(stack) - (n - i)
      BY DEF Slot
    <3> HIDE DEF x, n
    <3>3. Slot(Here.callee, Len(stack), i) = x + i
      BY <3>1, <3>2
    <3> QED
      BY <3>3 DEF x
  <2> QED
    BY <2>2, <2>3 DEF FetchRef
<1>9. /\ global' \in [Globals -> Values] /\ known' \in BOOLEAN
      /\ rvi' \in Values /\ status' \in {"running", "exited", "failed"}
  BY <1>8 DEF FetchRef, InCall, Running, IInv, TypeOK
<1> QED
  BY <1>6, <1>7, <1>8, <1>9, QuietIInv

-----------------------------------------------------------------------------
(* Steps that push an entry.                                               *)
LEMMA PushedStack ==
  ASSUME IInv, NEW e \in Entries, stack' = Append(stack, e)
  PROVE  /\ stack' \in Seq(Entries) /\ Len(stack') = Len(stack) + 1 /\ Len(stack) \in Nat
         /\ \A j \in 1 .. Len(stack) : stack'[j] = stack[j]
         /\ stack'[Len(stack) + 1] = e
<1>1. stack \in Seq(Entries) /\ Len(stack) \in Nat
  BY TopFacts DEF IInv, TypeOK
<1> QED
  BY <1>1, AppendProperties

(* The size is seen only when it is too late.                              *)
LEMMA PushedSize ==
  ASSUME IInv, Running, Len(stack') = Len(stack) + 1,
         status' = IF Len(stack) = StackSize THEN "overrun" ELSE status
  PROVE  SizeInv' /\ status' \in {"running", "exited", "failed", "overrun"}
<1>1. Len(stack) \in Nat /\ StackSize \in Nat
  BY TopFacts, LimitsAssumption
<1> QED
  BY <1>1 DEF SizeInv, Running

(* The calls of an activation and their arguments, when the stack is       *)
(* longer and the last call, or an argument of it, is new.                 *)
LEMMA StayPushed ==
  ASSUME IInv, Depth' = Depth, saved' = saved, bp' = bp,
         \A a \in 1 .. Depth - 1 : ctl'[a] = ctl[a], ctl'[Depth].proc = Top.proc,
         Len(stack') = Len(stack) + 1,
         \A j \in 1 .. Len(stack) : stack'[j] = stack[j]
  PROVE  StaysIn
<1>1. Depth \in 1 .. Depth /\ Len(stack) \in Nat /\ Top = ctl[Depth]
  BY TopFacts DEF Top
<1>2. Start(Depth) \in Nat /\ Start(Depth) <= End(Depth) /\ End(Depth) = Len(stack)
  BY <1>1, Places DEF End
<1>3. \A j \in 1 .. Start(Depth) : SameEntry(stack[j], stack'[j])
  BY <1>1, <1>2 DEF SameEntry
<1> QED
  BY <1>1, <1>2, <1>3 DEF StaysIn

(* The last of n calls has one argument more.                              *)
Grown(act, act2, start, end, st, st2, n) ==
  /\ start \in Nat /\ end \in Nat /\ Layout(act, start, end, st)
  /\ n \in Nat \ {0} /\ n = Len(act.calls) /\ Len(act2.calls) = n
  /\ \A k \in 1 .. n :
       /\ act.calls[k].at \in Nat /\ Len(act.calls[k].into) \in Nat
       /\ start < act.calls[k].at
       /\ act.calls[k].at + Len(act.calls[k].into) <= end
  /\ \A k \in 1 .. n - 1 : act2.calls[k] = act.calls[k]
  /\ act2.calls[n].at = act.calls[n].at
  /\ act2.calls[n].callee = act.calls[n].callee
  /\ Len(act2.calls[n].into) = Len(act.calls[n].into) + 1
  /\ \A j \in 1 .. end : st2[j] = st[j]
  /\ st2[end + 1].kind = "arg" /\ st2[end + 1].of \in Values

(* An argument at the top of the stack belongs to the last call.           *)
LEMMA LayoutGrown ==
  ASSUME NEW act, NEW act2, NEW start, NEW end, NEW st, NEW st2, NEW n,
         Grown(act, act2, start, end, st, st2, n)
  PROVE  Layout(act2, start, end + 1, st2)
<1>0. /\ start \in Nat /\ end \in Nat /\ Layout(act, start, end, st)
      /\ n \in Nat \ {0} /\ n = Len(act.calls) /\ Len(act2.calls) = n
      /\ \A k \in 1 .. n :
           /\ act.calls[k].at \in Nat /\ Len(act.calls[k].into) \in Nat
           /\ start < act.calls[k].at
           /\ act.calls[k].at + Len(act.calls[k].into) <= end
      /\ \A k \in 1 .. n - 1 : act2.calls[k] = act.calls[k]
      /\ act2.calls[n].at = act.calls[n].at
      /\ act2.calls[n].callee = act.calls[n].callee
      /\ Len(act2.calls[n].into) = Len(act.calls[n].into) + 1
      /\ \A j \in 1 .. end : st2[j] = st[j]
      /\ st2[end + 1].kind = "arg" /\ st2[end + 1].of \in Values
  BY DEF Grown
<1> USE <1>0
<1> DEFINE A == [k \in 0 .. n |-> After(act, start, k)]
           B == [k \in 0 .. n |-> After(act2, start, k)]
<1>1. n \in 1 .. n /\ \A k \in 0 .. n : k = 0 \/ k \in 1 .. n - 1 \/ k = n
  OBVIOUS
<1>a. /\ n <= MaxNesting /\ end = After(act, start, n)
      /\ \A k, l \in 0 .. n : k < l => After(act, start, k) < After(act, start, l)
  BY DEF Layout
<1>b. \A k \in 0 .. n : A[k] = After(act, start, k)
  OBVIOUS
<1>c. end = A[n] /\ \A k, l \in 0 .. n : k < l => A[k] < A[l]
  <2> HIDE DEF A
  <2>1. end = A[n]
    BY <1>a, <1>b
  <2> SUFFICES ASSUME NEW k \in 0 .. n, NEW l \in 0 .. n, k < l
               PROVE  A[k] < A[l]
    BY <2>1
  <2> QED
    BY <1>a, <1>b
<1>2. /\ \A k \in 1 .. n :
           /\ act.calls[k].at = After(act, start, k - 1) + 1
           /\ act.calls[k].at <= start + (k - 1) * Most + 1
           /\ st[act.calls[k].at] = CallMarker(act.calls[k].callee)
           /\ \A i \in 1 .. Len(act.calls[k].into) :
                st[act.calls[k].at + i].kind = "arg" /\ st[act.calls[k].at + i].of \in Values
  BY DEF Layout
<1>3. /\ A[0] = start /\ A[n] = act.calls[n].at + Len(act.calls[n].into)
      /\ \A k \in 1 .. n - 1 : A[k] = act.calls[k].at + Len(act.calls[k].into)
  BY <1>1 DEF After
<1>4. /\ B[0] = start /\ B[n] = act.calls[n].at + (Len(act.calls[n].into) + 1)
      /\ \A k \in 1 .. n - 1 : B[k] = act.calls[k].at + Len(act.calls[k].into)
  <2>1. 0 \in 0 .. n /\ n \in 0 .. n /\ n # 0
    OBVIOUS
  <2>2. B[0] = start /\ B[n] = act2.calls[n].at + Len(act2.calls[n].into)
    BY <2>1 DEF After
  <2>3. ASSUME NEW k \in 1 .. n - 1
        PROVE  B[k] = act.calls[k].at + Len(act.calls[k].into)
    <3>1. k \in 0 .. n /\ k # 0 /\ act2.calls[k] = act.calls[k]
      OBVIOUS
    <3> QED
      BY <3>1 DEF After
  <2> QED
    BY <2>2, <2>3
<1>5. \A k \in 1 .. n : After(act, start, k - 1) = A[k - 1] /\ After(act2, start, k - 1) = B[k - 1]
  OBVIOUS
<1>6. After(act2, start, n) = B[n]
  OBVIOUS
<1> HIDE DEF A, B
<1>7. \A k \in 0 .. n - 1 : B[k] = A[k]
  <2> TAKE k \in 0 .. n - 1
  <2>1. k = 0 \/ k \in 1 .. n - 1
    OBVIOUS
  <2> QED
    BY <1>3, <1>4, <2>1
<1>8. B[n] = A[n] + 1
  <2> DEFINE x == act.calls[n].at
             m == Len(act.calls[n].into)
  <2>1. x \in Nat /\ m \in Nat /\ A[n] = x + m /\ B[n] = x + (m + 1)
    BY <1>1, <1>3, <1>4
  <2> HIDE DEF x, m
  <2> QED
    BY <2>1
<1>9. \A k \in 0 .. n : A[k] \in Int
  <2>1. \A k \in 1 .. n : act.calls[k].at + Len(act.calls[k].into) \in Int
    <3> TAKE k \in 1 .. n
    <3>1. act.calls[k].at \in Nat /\ Len(act.calls[k].into) \in Nat
      OBVIOUS
    <3> QED
      BY <3>1
  <2> TAKE k \in 0 .. n
  <2>2. CASE k = 0
    BY <1>3, <2>2
  <2>3. CASE k \in 1 .. n - 1
    <3>1. A[k] = act.calls[k].at + Len(act.calls[k].into) /\ k \in 1 .. n
      BY <1>3, <2>3
    <3> QED
      BY <2>1, <3>1
  <2>4. CASE k = n
    BY <1>1, <1>3, <2>1, <2>4
  <2> QED
    BY <1>1, <2>2, <2>3, <2>4
<1>10. \A k, l \in 0 .. n : k < l => B[k] < B[l]
  <2> TAKE k, l \in 0 .. n
  <2> HAVE k < l
  <2>a. k \in 0 .. n - 1
    OBVIOUS
  <2>1. B[k] = A[k] /\ A[k] < A[l] /\ A[k] \in Int /\ A[l] \in Int
    BY <1>c, <1>7, <1>9, <2>a
  <2>2. l \in 0 .. n - 1 \/ l = n
    OBVIOUS
  <2>3. B[l] = A[l] \/ B[l] = A[l] + 1
    BY <1>7, <1>8, <2>2
  <2> QED
    BY <2>1, <2>3
<1>11. end + 1 = B[n]
  BY <1>c, <1>8
<1>12. ASSUME NEW k \in 1 .. n
       PROVE  /\ act2.calls[k].at = After(act2, start, k - 1) + 1
              /\ act2.calls[k].at <= start + (k - 1) * Most + 1
              /\ st2[act2.calls[k].at] = CallMarker(act2.calls[k].callee)
  <2>1. act2.calls[k].at = act.calls[k].at /\ act2.calls[k].callee = act.calls[k].callee
    <3>1. k = n \/ k \in 1 .. n - 1
      OBVIOUS
    <3> QED
      BY <3>1
  <2>2. k - 1 \in 0 .. n - 1
    OBVIOUS
  <2>3. act.calls[k].at \in 1 .. end
    <3> DEFINE x == act.calls[k].at
               m == Len(act.calls[k].into)
    <3>1. x \in Nat /\ m \in Nat /\ start < x /\ x + m <= end
      OBVIOUS
    <3> HIDE DEF x, m
    <3>2. x \in 1 .. end
      BY <3>1
    <3> QED
      BY <3>2 DEF x
  <2>4. After(act, start, k - 1) = A[k - 1] /\ After(act2, start, k - 1) = B[k - 1]
        /\ B[k - 1] = A[k - 1]
    BY <1>5, <1>7, <2>2
  <2>5. st2[act.calls[k].at] = st[act.calls[k].at]
    BY <2>3
  <2>6. /\ act.calls[k].at = After(act, start, k - 1) + 1
        /\ act.calls[k].at <= start + (k - 1) * Most + 1
        /\ st[act.calls[k].at] = CallMarker(act.calls[k].callee)
    BY <1>2
  <2> QED
    BY <2>1, <2>4, <2>5, <2>6
<1>13. ASSUME NEW k \in 1 .. n, NEW i \in 1 .. Len(act2.calls[k].into)
       PROVE  st2[act2.calls[k].at + i].kind = "arg" /\ st2[act2.calls[k].at + i].of \in Values
  <2> DEFINE x == act.calls[k].at
             m == Len(act.calls[k].into)
  <2>1. /\ x \in Nat /\ m \in Nat /\ start < x /\ x + m <= end
        /\ \A j \in 1 .. m : st[x + j].kind = "arg" /\ st[x + j].of \in Values
    BY <1>2
  <2>2. act2.calls[k].at = x
    <3>1. k = n \/ k \in 1 .. n - 1
      OBVIOUS
    <3> QED
      BY <3>1
  <2>3. i \in 1 .. m \/ (k = n /\ i = m + 1)
    <3>1. CASE k = n
      BY <2>1, <3>1
    <3>2. CASE k \in 1 .. n - 1
      BY <3>2
    <3> QED
      BY <1>1, <3>1, <3>2
  <2>4. k = n => x + m = end
    BY <1>c, <1>3
  <2> HIDE DEF x, m
  <2>5. CASE i \in 1 .. m
    <3>1. x + i \in 1 .. end
      BY <2>1, <2>5
    <3> QED
      BY <2>1, <2>2, <2>5, <3>1
  <2>6. CASE k = n /\ i = m + 1
    <3>1. x + i = end + 1
      BY <2>1, <2>4, <2>6
    <3> QED
      BY <2>2, <3>1
  <2> QED
    BY <2>3, <2>5, <2>6
<1>14. \A k, l \in 0 .. n : k < l => After(act2, start, k) < After(act2, start, l)
  BY <1>10 DEF B
<1>15. end + 1 = After(act2, start, n)
  BY <1>6, <1>11
<1> QED
  BY <1>a, <1>12, <1>13, <1>14, <1>15 DEF Layout

(* An argument pushed: only the last call grows.                           *)
Pushes(v, g) ==
  /\ InCall("args") /\ NextPar <= Params[Here.callee]
  /\ stack' = Append(stack, Arg(v))
  /\ ctl' = WithCall([Here EXCEPT !.into = Append(@, g)])
  /\ status' = IF Len(stack) = StackSize THEN "overrun" ELSE status
  /\ saved' = saved /\ bp' = bp /\ global' = global
  /\ regi' \in Values /\ known' \in BOOLEAN /\ rvi' = rvi

(* Either push of an argument.                                             *)
LEMMA ArgumentIInv ==
  ASSUME IInv, NEW v \in Values, NEW g \in Globals \cup {NoGlobal}, Pushes(v, g)
  PROVE  IInv'
<1> DEFINE c == [Here EXCEPT !.into = Append(@, g)]
           n == Len(Here.into)
<1>1. /\ NCalls \in Nat /\ NCalls > 0 /\ Here.phase = "args" /\ Here \in CallRecords /\ Running
      /\ Depth \in Nat /\ Depth >= 1 /\ Top = ctl[Depth] /\ Len(stack) \in Nat
      /\ NCalls = Len(ctl[Depth].calls) /\ Here = ctl[Depth].calls[NCalls]
  BY TopFacts DEF Pushes, InCall, Top, NCalls, Here
<1>2. /\ Append(Here.into, g) \in Seq(Globals \cup {NoGlobal}) /\ n \in Nat
      /\ Len(Append(Here.into, g)) = n + 1
  BY <1>1, HereFacts, AppendProperties
<1>3. /\ c \in CallRecords /\ c.at = Here.at /\ c.into = Append(Here.into, g)
      /\ c.callee = Here.callee /\ c.todo = Here.todo /\ c.phase = "args"
  BY <1>1, <1>2 DEF CallRecords
<1>4. ctl' = WithCall(c)
  BY DEF Pushes
<1> HIDE DEF c, n
<1>5. /\ ctl' \in Seq(ActivationRecords) /\ Len(ctl') = Depth /\ Depth' = Depth
      /\ \A a \in 1 .. Depth - 1 : ctl'[a] = ctl[a]
      /\ ctl'[Depth].proc = Top.proc
      /\ Len(ctl'[Depth].calls) = NCalls
      /\ \A k \in 1 .. NCalls - 1 : ctl'[Depth].calls[k] = Top.calls[k]
      /\ ctl'[Depth].calls[NCalls] = c
  BY <1>1, <1>3, <1>4, CallReplaced
<1>6. /\ stack' \in Seq(Entries) /\ Len(stack') = Len(stack) + 1
      /\ \A j \in 1 .. Len(stack) : stack'[j] = stack[j]
      /\ stack'[Len(stack) + 1] = Arg(v)
  <2>1. Arg(v) \in Entries /\ stack' = Append(stack, Arg(v))
    BY DEF Arg, Entries, Pushes
  <2> QED
    BY <2>1, PushedStack
<1>7. SizeInv' /\ status' \in {"running", "exited", "failed", "overrun"}
  BY <1>1, <1>6, PushedSize DEF Pushes
<1>8. TypeOK'
  <2>1. /\ bp' \in Int /\ saved' \in Seq([regi : Values, bp : Int])
        /\ global' \in [Globals -> Values]
        /\ regi' \in Values /\ known' \in BOOLEAN /\ rvi' \in Values
    BY DEF TypeOK, IInv, Pushes
  <2>2. Len(ctl') > 0
    BY <1>5, <1>1
  <2> QED
    BY <1>5, <1>6, <1>7, <2>1, <2>2 DEF TypeOK
<1>9. KnownInv'
  <2>1. NCalls' = NCalls /\ Here' = c
    BY <1>5 DEF NCalls, Here, Top
  <2> QED
    BY <1>3, <2>1 DEF KnownInv
<1>10. StaysIn
  BY <1>5, <1>6, StayPushed DEF Pushes
<1>11. \A k \in 1 .. NCalls : k = NCalls \/ k \in 1 .. NCalls - 1
  BY <1>1
<1>12. ASSUME NEW k \in 1 .. Len(ctl'[Depth].calls)
       PROVE  Phase(ctl'[Depth].calls[k], k = Len(ctl'[Depth].calls), TRUE)
  <2>1. CASE k = NCalls
    <3>1. Phase(c, TRUE, TRUE)
      <4>1. Len(c.into) <= Params[c.callee]
        BY <1>2, <1>3 DEF NextPar, Pushes, n
      <4> QED
        BY <1>1, <1>3, <4>1, HereFacts DEF Phase
    <3> QED
      BY <1>5, <2>1, <3>1
  <2>2. CASE k \in 1 .. NCalls - 1
    <3>1. Phase(ctl[Depth].calls[k], k = Len(ctl[Depth].calls), Depth = Depth)
      <4>1. Depth \in 1 .. Depth /\ k \in 1 .. Len(ctl[Depth].calls)
        BY <1>1, <1>5
      <4> QED
        BY <4>1 DEF IInv, PhaseInv
    <3>2. ctl'[Depth].calls[k] = ctl[Depth].calls[k]
      BY <1>1, <1>5, <2>2
    <3>3. (k = Len(ctl'[Depth].calls)) = (k = Len(ctl[Depth].calls)) /\ (Depth = Depth) = TRUE
      BY <1>1, <1>5
    <3> QED
      BY <3>1, <3>2, <3>3
  <2> QED
    BY <1>5, <1>11, <2>1, <2>2
<1>13. Layout(ctl'[Depth], Start(Depth), Len(stack'), stack')
  <2>1. Layout(ctl[Depth], Start(Depth), Len(stack), stack)
    BY <1>1 DEF IInv, LayoutInv, End
  <2>2. /\ Start(Depth) \in Nat
        /\ \A k \in 1 .. NCalls :
             /\ ctl[Depth].calls[k].at \in Nat /\ Len(ctl[Depth].calls[k].into) \in Nat
             /\ Start(Depth) < ctl[Depth].calls[k].at
             /\ ctl[Depth].calls[k].at + Len(ctl[Depth].calls[k].into) <= Len(stack)
    <3>1. Depth \in 1 .. Depth /\ End(Depth) = Len(stack)
      BY <1>1 DEF End
    <3> QED
      BY <1>1, <3>1, Places, CallFacts
  <2>3. /\ \A k \in 1 .. NCalls - 1 : ctl'[Depth].calls[k] = ctl[Depth].calls[k]
        /\ ctl'[Depth].calls[NCalls].at = ctl[Depth].calls[NCalls].at
        /\ ctl'[Depth].calls[NCalls].callee = ctl[Depth].calls[NCalls].callee
        /\ Len(ctl'[Depth].calls[NCalls].into) = Len(ctl[Depth].calls[NCalls].into) + 1
    BY <1>1, <1>2, <1>3, <1>5 DEF n
  <2>4. stack'[Len(stack) + 1].kind = "arg" /\ stack'[Len(stack) + 1].of \in Values
    BY <1>6 DEF Arg
  <2>5. NCalls \in Nat \ {0} /\ NCalls = Len(ctl[Depth].calls) /\ Len(ctl'[Depth].calls) = NCalls
    BY <1>1, <1>5
  <2>6. Layout(ctl'[Depth], Start(Depth), Len(stack) + 1, stack')
    <3> DEFINE act == ctl[Depth]
               act2 == ctl'[Depth]
               start == Start(Depth)
               end == Len(stack)
               st2 == stack'
    <3>1. Grown(act, act2, start, end, stack, st2, NCalls)
      BY <1>1, <1>6, <2>1, <2>2, <2>3, <2>4, <2>5 DEF Grown
    <3> HIDE DEF act, act2, start, end, st2
    <3>2. Layout(act2, start, end + 1, st2)
      BY <3>1, LayoutGrown
    <3> QED
      BY <3>2 DEF act2, start, end, st2
  <2> QED
    BY <1>6, <2>6
<1> QED
  BY <1>7, <1>8, <1>9, <1>10, <1>12, <1>13, TopStep

(* The push of a value.                                                    *)
LEMMA PushValueIInv == IInv /\ PushValue => IInv'
<1> SUFFICES ASSUME IInv, PushValue
             PROVE  IInv'
  OBVIOUS
<1>1. NCalls > 0 /\ regi \in Values /\ NoGlobal \in Globals \cup {NoGlobal} /\ NCalls \in Nat
  BY TopFacts DEF PushValue, InCall, IInv, TypeOK
<1>2. NextPar <= Params[Here.callee]
  <2>1. Params[Here.callee] \in Nat
    BY <1>1, HereFacts
  <2> QED
    BY <2>1 DEF PushValue, ByValue
<1>3. Pushes(regi, NoGlobal)
  BY <1>1, <1>2 DEF PushValue, Pushes
<1> QED
  BY <1>1, <1>3, ArgumentIInv

(* The push of a variable, which may be passed by reference.               *)
LEMMA PushVariableIInv == \A g \in Globals : IInv /\ PushVariable(g) => IInv'
<1> SUFFICES ASSUME NEW g \in Globals, IInv, PushVariable(g)
             PROVE  IInv'
  OBVIOUS
<1>1. NCalls > 0 /\ global[g] \in Values /\ NCalls \in Nat /\ known \in BOOLEAN
  BY TopFacts DEF PushVariable, InCall, IInv, TypeOK
<1>2. NextPar <= Params[Here.callee]
  <2>1. Params[Here.callee] \in Nat /\ Here.callee \in Procs
    BY <1>1, HereFacts
  <2>2. NextPar \in 1 .. Params[Here.callee]
    BY <2>1, ProgramAssumption DEF PushVariable
  <2> QED
    BY <2>1, <2>2
<1>3. Pushes(global[g], g)
  BY <1>1, <1>2 DEF PushVariable, Pushes
<1> QED
  BY <1>1, <1>3, ArgumentIInv

-----------------------------------------------------------------------------
(* A call begins: a marker, and no argument yet.                           *)
LEMMA NextTimes == \A m, q \in Nat : (m + 1) * q = m * q + q /\ m * q \in Nat
OBVIOUS

(* Arguments keep a call from growing beyond Most entries: the end of an   *)
(* activation, and of one whose last call lacks an argument.               *)
LEMMA EndBound ==
  ASSUME IInv, NEW a \in 1 .. Depth
  PROVE  /\ End(a) <= Start(a) + MaxNesting * Most + 1
         /\ LET n == Len(ctl[a].calls) IN
            n = 0 \/ Len(ctl[a].calls[n].into) < Params[ctl[a].calls[n].callee] =>
              End(a) <= Start(a) + n * Most
<1> DEFINE n == Len(ctl[a].calls)
           x == ctl[a].calls[n].at
           m == Len(ctl[a].calls[n].into)
           p == Params[ctl[a].calls[n].callee]
<1>1. n \in Nat /\ Most \in Nat /\ MaxNesting \in Nat /\ Start(a) \in Nat
  BY CallFacts, MostFacts, Places, LimitsAssumption
<1>2. Layout(ctl[a], Start(a), End(a), stack)
  BY DEF IInv, LayoutInv
<1>3. n <= MaxNesting /\ End(a) = After(ctl[a], Start(a), n)
  BY <1>2 DEF Layout
<1>4. n = 0 => End(a) = Start(a)
  BY <1>3 DEF After
<1>5. ASSUME n > 0
      PROVE  /\ End(a) = x + m /\ x \in Nat /\ m \in Nat /\ p \in Nat
             /\ x <= Start(a) + (n - 1) * Most + 1
             /\ p <= Most /\ m <= p
  <2>1. n \in 1 .. n
    BY <1>1, <1>5
  <2>2. x <= Start(a) + (n - 1) * Most + 1 /\ End(a) = x + m
    <3>1. x <= Start(a) + (n - 1) * Most + 1
      BY <1>2, <2>1 DEF Layout
    <3>2. n # 0
      BY <1>5
    <3> QED
      BY <1>3, <3>1, <3>2 DEF After
  <2>3. x \in Nat /\ m \in Nat /\ ctl[a].calls[n].callee \in Procs
    BY <2>1, CallFacts
  <2>4. p \in Nat /\ p <= Most
    BY <2>3, MostFacts
  <2>5. m <= p
    <3>1. Phase(ctl[a].calls[n], n = Len(ctl[a].calls), a = Depth)
      BY <2>1 DEF IInv, PhaseInv
    <3> QED
      BY <2>3, <2>4, <3>1 DEF Phase
  <2> QED
    BY <2>2, <2>3, <2>4, <2>5
<1> HIDE DEF n, x, m, p
<1>6. ASSUME n > 0
      PROVE  (n - 1) * Most + Most = n * Most /\ (n - 1) * Most \in Nat /\ n * Most \in Nat
  <2>1. n - 1 \in Nat /\ (n - 1) + 1 = n
    BY <1>1, <1>6
  <2> QED
    BY <1>1, <2>1, NextTimes
<1>7. n * Most <= MaxNesting * Most /\ n * Most \in Nat /\ MaxNesting * Most \in Nat
  <2>1. \A i, j, q \in Nat : i <= j => i * q <= j * q /\ i * q \in Nat /\ j * q \in Nat
    OBVIOUS
  <2> QED
    BY <1>1, <1>3, <2>1
<1>8. CASE n = 0
  BY <1>1, <1>4, <1>7, <1>8 DEF n
<1>9. CASE n > 0
  <2>1. End(a) <= Start(a) + n * Most + 1
    BY <1>1, <1>5, <1>6, <1>9
  <2>2. m < p => End(a) <= Start(a) + n * Most
    BY <1>1, <1>5, <1>6, <1>9
  <2>3. End(a) \in Nat
    BY <1>5, <1>9
  <2>4. End(a) <= Start(a) + MaxNesting * Most + 1
    BY <1>1, <1>7, <2>1, <2>3
  <2> QED
    BY <1>9, <2>2, <2>4 DEF n, m, p
<1> QED
  BY <1>1, <1>8, <1>9

(* A call more, with no arguments.                                         *)
Begun(act, act2, start, end, st, st2, n) ==
  /\ start \in Nat /\ end \in Nat /\ Layout(act, start, end, st)
  /\ n \in Nat /\ n = Len(act.calls) /\ Len(act2.calls) = n + 1 /\ n < MaxNesting
  /\ \A k \in 1 .. n :
       /\ act.calls[k].at \in Nat /\ Len(act.calls[k].into) \in Nat
       /\ start < act.calls[k].at
       /\ act.calls[k].at + Len(act.calls[k].into) <= end
  /\ \A k \in 1 .. n : act2.calls[k] = act.calls[k]
  /\ act2.calls[n + 1].at = end + 1 /\ Len(act2.calls[n + 1].into) = 0
  /\ \A j \in 1 .. end : st2[j] = st[j]
  /\ st2[end + 1] = CallMarker(act2.calls[n + 1].callee)
  /\ end <= start + n * Most

(* A marker at the top of the stack begins a call without arguments.       *)
LEMMA LayoutBegun ==
  ASSUME NEW act, NEW act2, NEW start, NEW end, NEW st, NEW st2, NEW n,
         Begun(act, act2, start, end, st, st2, n)
  PROVE  Layout(act2, start, end + 1, st2)
<1>1. /\ start \in Nat /\ end \in Nat
      /\ n \in Nat /\ n = Len(act.calls) /\ Len(act2.calls) = n + 1 /\ n < MaxNesting
      /\ MaxNesting \in Nat
      /\ \A k \in 1 .. n : act2.calls[k] = act.calls[k]
      /\ act2.calls[n + 1].at = end + 1 /\ Len(act2.calls[n + 1].into) = 0
      /\ \A j \in 1 .. end : st2[j] = st[j]
      /\ st2[end + 1] = CallMarker(act2.calls[n + 1].callee)
      /\ end <= start + n * Most
  BY LimitsAssumption DEF Begun
<1>2. \A k \in 1 .. n :
        /\ act.calls[k].at \in Nat /\ Len(act.calls[k].into) \in Nat
        /\ start < act.calls[k].at
        /\ act.calls[k].at + Len(act.calls[k].into) <= end
  BY DEF Begun
<1>3. /\ end = After(act, start, n)
      /\ \A k, l \in 0 .. n : k < l => After(act, start, k) < After(act, start, l)
  BY <1>1 DEF Begun, Layout
<1>4. \A k \in 1 .. n :
        /\ act.calls[k].at = After(act, start, k - 1) + 1
        /\ act.calls[k].at <= start + (k - 1) * Most + 1
        /\ st[act.calls[k].at] = CallMarker(act.calls[k].callee)
        /\ \A i \in 1 .. Len(act.calls[k].into) :
             st[act.calls[k].at + i].kind = "arg" /\ st[act.calls[k].at + i].of \in Values
  BY <1>1 DEF Begun, Layout
<1>5. \A k \in 0 .. n : After(act2, start, k) = After(act, start, k)
  <2> TAKE k \in 0 .. n
  <2>1. k = 0 \/ k \in 1 .. n
    BY <1>1
  <2> QED
    BY <1>1, <2>1 DEF After
<1>6. After(act2, start, n + 1) = end + 1
  <2>1. n + 1 # 0
    BY <1>1
  <2>2. After(act2, start, n + 1) = (end + 1) + 0
    BY <1>1, <2>1 DEF After
  <2> QED
    BY <1>1, <2>2
<1>7. \A k \in 0 .. n : After(act, start, k) \in Int /\ After(act, start, k) <= end
  <2> TAKE k \in 0 .. n
  <2>1. CASE k = n
    BY <1>1, <1>3, <2>1
  <2>2. CASE k = 0
    <3>1. After(act, start, 0) = start
      BY DEF After
    <3>2. n = 0 \/ After(act, start, 0) < After(act, start, n)
      BY <1>1, <1>3
    <3>3. n = 0 => end = start
      BY <1>3, <3>1
    <3> QED
      BY <1>1, <1>3, <2>2, <3>1, <3>2, <3>3
  <2>3. CASE k \in 1 .. n
    <3> DEFINE x == act.calls[k].at
               m == Len(act.calls[k].into)
    <3>1. x \in Nat /\ m \in Nat /\ x + m <= end
      BY <1>2, <2>3
    <3>2. After(act, start, k) = x + m
      BY <1>1, <2>3 DEF After
    <3> HIDE DEF x, m
    <3>3. x + m \in Int
      BY <3>1
    <3> QED
      BY <3>1, <3>2, <3>3
  <2>4. k = 0 \/ k \in 1 .. n
    BY <1>1
  <2> QED
    BY <2>2, <2>3, <2>4
<1>8. ASSUME NEW k \in 0 .. n + 1, NEW l \in 0 .. n + 1, k < l
      PROVE  After(act2, start, k) < After(act2, start, l)
  <2>1. k \in 0 .. n
    BY <1>1, <1>8
  <2>2. CASE l \in 0 .. n
    BY <1>3, <1>5, <1>8, <2>1, <2>2
  <2>3. CASE l = n + 1
    <3>1. After(act2, start, k) \in Int /\ After(act2, start, k) <= end
      BY <1>5, <1>7, <2>1
    <3> QED
      BY <1>1, <1>6, <2>3, <3>1
  <2>4. l \in 0 .. n \/ l = n + 1
    BY <1>1
  <2> QED
    BY <2>2, <2>3, <2>4
<1>9. ASSUME NEW k \in 1 .. n + 1
      PROVE  /\ act2.calls[k].at = After(act2, start, k - 1) + 1
             /\ act2.calls[k].at <= start + (k - 1) * Most + 1
             /\ st2[act2.calls[k].at] = CallMarker(act2.calls[k].callee)
             /\ \A i \in 1 .. Len(act2.calls[k].into) :
                  st2[act2.calls[k].at + i].kind = "arg" /\ st2[act2.calls[k].at + i].of \in Values
  <2>1. CASE k \in 1 .. n
    <3> DEFINE x == act.calls[k].at
               m == Len(act.calls[k].into)
    <3>1. x \in Nat /\ m \in Nat /\ x + m <= end /\ start < x
      BY <1>2, <2>1
    <3>2. act2.calls[k] = act.calls[k]
      BY <1>1, <2>1
    <3>3. k - 1 \in 0 .. n
      BY <1>1, <2>1
    <3>4. After(act2, start, k - 1) = After(act, start, k - 1)
      BY <1>5, <3>3
    <3>5. /\ x = After(act, start, k - 1) + 1
          /\ x <= start + (k - 1) * Most + 1
          /\ st[x] = CallMarker(act.calls[k].callee)
          /\ \A i \in 1 .. m : st[x + i].kind = "arg" /\ st[x + i].of \in Values
      BY <1>4, <2>1
    <3>6. act2.calls[k].at = x /\ Len(act2.calls[k].into) = m
      BY <3>2
    <3> HIDE DEF x, m
    <3>7. x \in 1 .. end /\ \A i \in 1 .. m : x + i \in 1 .. end
      BY <1>1, <3>1
    <3>8. st2[x] = st[x] /\ \A i \in 1 .. m : st2[x + i] = st[x + i]
      BY <1>1, <3>7
    <3> QED
      BY <3>2, <3>4, <3>5, <3>6, <3>8
  <2>2. CASE k = n + 1
    <3>1. k - 1 = n /\ After(act2, start, n) = end
      BY <1>1, <1>3, <1>5, <2>2
    <3>2. end + 1 <= start + n * Most + 1
      <4>1. n * Most \in Nat
        BY <1>1, MostFacts, NextTimes
      <4> QED
        BY <1>1, <4>1
    <3>3. act2.calls[k].at = end + 1 /\ k - 1 = n /\ Len(act2.calls[k].into) = 0
          /\ st2[end + 1] = CallMarker(act2.calls[k].callee)
      BY <1>1, <2>2
    <3>4. \A i \in 1 .. 0 : FALSE
      OBVIOUS
    <3>5. /\ act2.calls[k].at = After(act2, start, k - 1) + 1
          /\ st2[act2.calls[k].at] = CallMarker(act2.calls[k].callee)
      BY ONLY <3>1, <3>3
    <3>6. act2.calls[k].at <= start + (k - 1) * Most + 1
      BY ONLY <3>2, <3>3
    <3> QED
      BY <3>3, <3>4, <3>5, <3>6
  <2>3. k \in 1 .. n \/ k = n + 1
    BY <1>1
  <2> QED
    BY <2>1, <2>2, <2>3
<1>10. n + 1 <= MaxNesting
  BY <1>1
<1> QED
  BY <1>1, <1>6, <1>8, <1>9, <1>10 DEF Layout

(* A call expression puts its marker on the stack.                         *)
LEMMA BeginIInv == \A q \in Procs : IInv /\ Begin(q) => IInv'
<1> SUFFICES ASSUME NEW q \in Procs, IInv, Begin(q)
             PROVE  IInv'
  OBVIOUS
<1> DEFINE c == [callee |-> q, at |-> Len(stack) + 1, into |-> <<>>, phase |-> "args", todo |-> {}]
           s == Append(Top.calls, c)
           x == [Step(Top) EXCEPT !.calls = s]
<1>1. /\ Depth \in Nat /\ Depth >= 1 /\ Top \in ActivationRecords /\ Top = ctl[Depth]
      /\ NCalls \in Nat /\ NCalls = Len(Top.calls) /\ Here = Top.calls[NCalls]
      /\ Len(stack) \in Nat /\ Top.calls \in Seq(CallRecords) /\ Depth \in 1 .. Depth
  BY TopFacts DEF Top, NCalls, Here
<1>2. /\ c \in CallRecords /\ c.callee = q /\ c.at = Len(stack) + 1 /\ Len(c.into) = 0
      /\ c.phase = "args" /\ c.todo = {}
  <2>1. <<>> \in Seq(Globals \cup {NoGlobal}) /\ Len(<<>>) = 0
    BY EmptySeq
  <2> QED
    BY <1>1, <2>1 DEF CallRecords
<1> HIDE DEF c
<1>3. /\ s \in Seq(CallRecords) /\ Len(s) = NCalls + 1
      /\ \A k \in 1 .. NCalls : s[k] = Top.calls[k]
      /\ s[NCalls + 1] = c
  BY <1>1, <1>2, AppendProperties
<1>4. /\ Running /\ NCalls < MaxNesting /\ Expression /\ stack' = Append(stack, CallMarker(q))
      /\ status' = IF Len(stack) = StackSize THEN "overrun" ELSE status
      /\ saved' = saved /\ bp' = bp /\ global' = global /\ regi' = regi /\ rvi' = rvi
      /\ known' = FALSE
  BY DEF Begin, Expression, InBody, InCall
<1>5. ctl' = [ctl EXCEPT ![Depth] = x]
  <2>1. NCalls = 0 => Step(Top).calls = Top.calls
    BY <1>1 DEF Step, ActivationRecords
  <2>2. NCalls # 0 => Step(Top).calls = Top.calls
    BY DEF Step
  <2>3. Step(Top).calls = Top.calls
    BY <2>1, <2>2
  <2>4. [Step(Top) EXCEPT !.calls = Append(Step(Top).calls, c)] = x
    BY <2>3
  <2>5. ctl' = [ctl EXCEPT ![Depth] = [Step(Top) EXCEPT !.calls = Append(@, c)]]
    BY DEF Begin, c
  <2> HIDE DEF x
  <2> QED
    BY <2>4, <2>5
<1> HIDE DEF s
<1>6. x \in ActivationRecords /\ x.proc = Top.proc /\ x.calls = s
  <2>1. NCalls = 0 => Top.left - 1 \in Nat
    BY <1>1, <1>4 DEF Expression, InBody, InCall, ActivationRecords
  <2> QED
    BY <1>1, <1>3, <2>1 DEF Step, ActivationRecords
<1> HIDE DEF x
<1>7. /\ ctl' \in Seq(ActivationRecords) /\ Len(ctl') = Depth /\ Depth' = Depth
      /\ \A a \in 1 .. Depth - 1 : ctl'[a] = ctl[a]
      /\ ctl'[Depth] = x
  BY <1>5, <1>6, TopReplaced
<1>8. /\ stack' \in Seq(Entries) /\ Len(stack') = Len(stack) + 1
      /\ \A j \in 1 .. Len(stack) : stack'[j] = stack[j]
      /\ stack'[Len(stack) + 1] = CallMarker(q)
  <2>1. CallMarker(q) \in Entries
    BY DEF CallMarker, Entries
  <2> QED
    BY <1>4, <2>1, PushedStack
<1>9. SizeInv' /\ status' \in {"running", "exited", "failed", "overrun"}
  BY <1>4, <1>8, PushedSize
<1>10. TypeOK'
  <2>1. /\ bp' \in Int /\ saved' \in Seq([regi : Values, bp : Int])
        /\ global' \in [Globals -> Values]
        /\ regi' \in Values /\ known' \in BOOLEAN /\ rvi' \in Values
    BY <1>4 DEF TypeOK, IInv
  <2>2. Len(ctl') > 0
    BY <1>7, <1>1
  <2> QED
    BY <1>7, <1>8, <1>9, <2>1, <2>2 DEF TypeOK
<1>11. NCalls' = NCalls + 1 /\ Here' = c
  BY <1>3, <1>6, <1>7 DEF NCalls, Here, Top
<1>12. KnownInv'
  BY <1>2, <1>11 DEF KnownInv
<1>13. StaysIn
  BY <1>4, <1>6, <1>7, <1>8, StayPushed
(* The call that was last waits for the value of this one.                 *)
<1>14. NCalls > 0 => Here.phase = "args" /\ Len(Here.into) < Params[Here.callee]
  <2> SUFFICES ASSUME NCalls > 0
               PROVE  Here.phase = "args" /\ Len(Here.into) < Params[Here.callee]
    OBVIOUS
  <2>1. Here.phase = "args" /\ ByValue
    BY <1>1, <1>4 DEF Expression, InBody, InCall
  <2>2. Params[Here.callee] \in Nat /\ Len(Here.into) \in Nat
    BY HereFacts
  <2> QED
    BY <2>1, <2>2 DEF ByValue, NextPar
<1>15. ASSUME NEW k \in 1 .. Len(ctl'[Depth].calls)
       PROVE  Phase(ctl'[Depth].calls[k], k = Len(ctl'[Depth].calls), TRUE)
  <2>1. Len(ctl'[Depth].calls) = NCalls + 1
    BY <1>3, <1>6, <1>7
  <2>2. CASE k = NCalls + 1
    <3>1. Params[q] \in Nat
      BY MostFacts
    <3>2. Phase(c, TRUE, TRUE)
      BY <1>2, <3>1 DEF Phase
    <3> QED
      BY <1>3, <1>6, <1>7, <2>1, <2>2, <3>2
  <2>3. CASE k \in 1 .. NCalls
    <3>1. Phase(ctl[Depth].calls[k], k = Len(ctl[Depth].calls), Depth = Depth)
      BY <1>1, <2>3 DEF IInv, PhaseInv
    <3>2. ctl'[Depth].calls[k] = ctl[Depth].calls[k]
      BY <1>1, <1>3, <1>6, <1>7, <2>3
    <3>3. ctl[Depth].calls[k].phase = "args"
          /\ Len(ctl[Depth].calls[k].into) < Params[ctl[Depth].calls[k].callee]
      <4>1. CASE k = NCalls
        BY <1>1, <1>14, <2>3, <4>1
      <4>2. CASE k # NCalls
        BY <1>1, <3>1, <4>2 DEF Phase
      <4> QED
        BY <4>1, <4>2
    <3>4. k # Len(ctl'[Depth].calls)
      BY <1>1, <2>1, <2>3
    <3>5. Phase(ctl[Depth].calls[k], FALSE, TRUE)
      BY <3>1, <3>3 DEF Phase
    <3> QED
      BY <3>2, <3>4, <3>5
  <2>4. k = NCalls + 1 \/ k \in 1 .. NCalls
    BY <1>1, <2>1
  <2> QED
    BY <2>2, <2>3, <2>4
<1>16. Layout(ctl'[Depth], Start(Depth), Len(stack'), stack')
  <2> DEFINE act == ctl[Depth]
             act2 == ctl'[Depth]
             start == Start(Depth)
             end == Len(stack)
             st2 == stack'
  <2>1. End(Depth) = Len(stack)
    BY DEF End
  <2>2. /\ start \in Nat /\ Layout(act, start, end, stack)
        /\ \A k \in 1 .. NCalls :
             /\ act.calls[k].at \in Nat /\ Len(act.calls[k].into) \in Nat
             /\ start < act.calls[k].at
             /\ act.calls[k].at + Len(act.calls[k].into) <= end
    <3>1. start \in Nat
      BY <1>1, Places
    <3>2. Layout(act, start, end, stack)
      BY <1>1, <2>1 DEF IInv, LayoutInv
    <3> QED
      BY <1>1, <2>1, <3>1, <3>2, Places, CallFacts
  <2>3. end <= start + NCalls * Most
    BY <1>1, <1>14, <2>1, EndBound
  <2>4. /\ Len(act2.calls) = NCalls + 1
        /\ \A k \in 1 .. NCalls : act2.calls[k] = act.calls[k]
        /\ act2.calls[NCalls + 1] = c
    BY <1>1, <1>3, <1>6, <1>7
  <2>5. Begun(act, act2, start, end, stack, st2, NCalls)
    <3>1. /\ end \in Nat /\ NCalls \in Nat /\ NCalls = Len(act.calls) /\ NCalls < MaxNesting
      BY <1>1, <1>4
    <3>2. act2.calls[NCalls + 1].at = end + 1 /\ Len(act2.calls[NCalls + 1].into) = 0
          /\ act2.calls[NCalls + 1].callee = q
      BY <1>2, <2>4
    <3>3. \A j \in 1 .. end : st2[j] = stack[j]
      BY <1>8
    <3>4. st2[end + 1] = CallMarker(q)
      BY <1>8
    <3> HIDE DEF act, act2, start, end, st2
    <3> QED
      BY <2>2, <2>3, <2>4, <3>1, <3>2, <3>3, <3>4 DEF Begun
  <2> HIDE DEF act, act2, start, end, st2
  <2>6. Layout(act2, start, end + 1, st2)
    BY <2>5, LayoutBegun
  <2> QED
    BY <1>8, <2>6 DEF act2, start, end, st2
<1> QED
  BY <1>9, <1>10, <1>12, <1>13, <1>15, <1>16, TopStep

-----------------------------------------------------------------------------
(* clrsn cuts the stack below the last marker.                             *)
LEMMA BelowIs ==
  ASSUME NEW m, NEW k \in 1 .. Len(stack), Len(stack) \in Nat, stack[k] = m,
         \A j \in k + 1 .. Len(stack) : stack[j] # m
  PROVE  Below(m) = SubSeq(stack, 1, k - 1)
<1> DEFINE at == {i \in 1 .. Len(stack) : stack[i] = m}
<1>1. k \in at /\ \A i \in at : k >= i
  OBVIOUS
<1>2. at # {}
  BY <1>1
<1>3. at \subseteq Int
  OBVIOUS
<1> HIDE DEF at
<1>4. Max(at) = k
  <2>1. Max(at) = CHOOSE x \in at : \A y \in at : x >= y
    BY DEF Max
  <2>2. Max(at) \in at /\ \A y \in at : Max(at) >= y
    BY <1>1, <2>1
  <2>3. Max(at) >= k /\ k >= Max(at) /\ Max(at) \in Int
    BY <1>1, <1>3, <2>2
  <2> HIDE DEF Max
  <2> QED
    BY <2>3
<1>5. Below(m) = IF at = {} THEN <<>> ELSE SubSeq(stack, 1, Max(at) - 1)
  BY DEF Below, at
<1> QED
  BY <1>2, <1>4, <1>5

(* The layout without the last call.                                       *)
LEMMA LayoutCut ==
  ASSUME NEW act, NEW act2, NEW start \in Nat, NEW end \in Nat, NEW st, NEW st2,
         NEW n \in Nat \ {0}, n = Len(act.calls),
         Layout(act, start, end, st), Len(act2.calls) = n - 1,
         \A k \in 1 .. n - 1 : act2.calls[k] = act.calls[k],
         \A k \in 1 .. n :
           /\ act.calls[k].at \in Nat /\ Len(act.calls[k].into) \in Nat
           /\ start < act.calls[k].at,
         \A k \in 1 .. n - 1 :
           act.calls[k].at + Len(act.calls[k].into) < act.calls[n].at,
         \A j \in 1 .. act.calls[n].at - 1 : st2[j] = st[j]
  PROVE  Layout(act2, start, act.calls[n].at - 1, st2)
<1> DEFINE e == act.calls[n].at - 1
<1>1. /\ n <= MaxNesting
      /\ \A k, l \in 0 .. n : k < l => After(act, start, k) < After(act, start, l)
      /\ \A k \in 1 .. n :
           /\ act.calls[k].at = After(act, start, k - 1) + 1
           /\ act.calls[k].at <= start + (k - 1) * Most + 1
           /\ st[act.calls[k].at] = CallMarker(act.calls[k].callee)
           /\ \A i \in 1 .. Len(act.calls[k].into) :
                st[act.calls[k].at + i].kind = "arg" /\ st[act.calls[k].at + i].of \in Values
  BY DEF Layout
<1>2. \A k \in 0 .. n - 1 : After(act2, start, k) = After(act, start, k)
  <2> TAKE k \in 0 .. n - 1
  <2>1. k = 0 \/ k \in 1 .. n - 1
    OBVIOUS
  <2> QED
    BY <2>1 DEF After
<1>3. After(act, start, n - 1) \in Int
  <2>1. CASE n = 1
    <3>1. n - 1 = 0
      BY <2>1
    <3> QED
      BY <3>1 DEF After
  <2>2. CASE n > 1
    <3> DEFINE x == act.calls[n - 1].at
               m == Len(act.calls[n - 1].into)
    <3>1. n - 1 \in 1 .. n /\ n - 1 # 0
      BY <2>2
    <3>2. After(act, start, n - 1) = x + m
      BY <3>1 DEF After
    <3>3. x \in Nat /\ m \in Nat
      BY <3>1
    <3> HIDE DEF x, m
    <3>4. x + m \in Int
      BY <3>3
    <3> QED
      BY <3>2, <3>4
  <2>3. n = 1 \/ n > 1
    <3>1. n \in Nat \ {0}
      OBVIOUS
    <3> QED
      BY ONLY <3>1
  <2> QED
    BY <2>1, <2>2, <2>3
<1>4. e = After(act2, start, n - 1)
  <2>1. n \in 1 .. n /\ n - 1 \in 0 .. n - 1
    OBVIOUS
  <2>2. act.calls[n].at = After(act, start, n - 1) + 1 /\ act.calls[n].at \in Nat
    BY <1>1, <2>1
  <2>3. After(act2, start, n - 1) = After(act, start, n - 1)
    BY <1>2, <2>1
  <2> QED
    BY <1>3, <2>2, <2>3
<1>5. \A k, l \in 0 .. n - 1 : k < l => After(act2, start, k) < After(act2, start, l)
  <2> TAKE k, l \in 0 .. n - 1
  <2>1. k \in 0 .. n /\ l \in 0 .. n
    OBVIOUS
  <2> QED
    BY <1>1, <1>2, <2>1
<1>6. ASSUME NEW k \in 1 .. n - 1
      PROVE  /\ act2.calls[k].at = After(act2, start, k - 1) + 1
             /\ act2.calls[k].at <= start + (k - 1) * Most + 1
             /\ st2[act2.calls[k].at] = CallMarker(act2.calls[k].callee)
             /\ \A i \in 1 .. Len(act2.calls[k].into) :
                  st2[act2.calls[k].at + i].kind = "arg" /\ st2[act2.calls[k].at + i].of \in Values
  <2> DEFINE x == act.calls[k].at
             m == Len(act.calls[k].into)
             y == act.calls[n].at
  <2>1. k \in 1 .. n /\ n \in 1 .. n /\ k - 1 \in 0 .. n - 1
    OBVIOUS
  <2>2. x \in Nat /\ m \in Nat /\ y \in Nat /\ x + m < y /\ start < x
    BY <2>1
  <2>3. /\ x = After(act, start, k - 1) + 1
        /\ x <= start + (k - 1) * Most + 1
        /\ st[x] = CallMarker(act.calls[k].callee)
        /\ \A i \in 1 .. m : st[x + i].kind = "arg" /\ st[x + i].of \in Values
    BY <1>1, <2>1
  <2>4. act2.calls[k] = act.calls[k] /\ act2.calls[k].at = x /\ Len(act2.calls[k].into) = m
    OBVIOUS
  <2>5. After(act2, start, k - 1) = After(act, start, k - 1)
    BY <1>2, <2>1
  <2>6. \A j \in 1 .. y - 1 : st2[j] = st[j]
    OBVIOUS
  <2> HIDE DEF x, m, y
  <2>7. x \in 1 .. y - 1 /\ \A i \in 1 .. m : x + i \in 1 .. y - 1
    BY <2>2
  <2>8. st2[x] = st[x] /\ \A i \in 1 .. m : st2[x + i] = st[x + i]
    BY <2>6, <2>7
  <2>9. /\ x = After(act2, start, k - 1) + 1
        /\ st2[x] = CallMarker(act2.calls[k].callee)
    BY ONLY <2>3, <2>4, <2>5, <2>8
  <2>10. \A i \in 1 .. m : st2[x + i].kind = "arg" /\ st2[x + i].of \in Values
    BY ONLY <2>3, <2>8
  <2>11. x <= start + (k - 1) * Most + 1
    BY <2>3
  <2> QED
    BY ONLY <2>4, <2>9, <2>10, <2>11
<1>7. n - 1 <= MaxNesting /\ Len(act2.calls) = n - 1
  <2>1. MaxNesting \in Nat
    BY LimitsAssumption
  <2> QED
    BY <1>1, <2>1
<1> HIDE DEF e
<1>8. Layout(act2, start, e, st2)
  BY <1>4, <1>5, <1>6, <1>7 DEF Layout
<1> QED
  BY <1>8 DEF e

(* The end of a call expression: what is above its marker is arguments.    *)
LEMMA ClosedStack ==
  ASSUME IInv, NCalls > 0, stack' = Below(CallMarker(Here.callee))
  PROVE  /\ Here.at \in Nat \ {0} /\ Here.at <= Len(stack) /\ Len(stack) \in Nat
         /\ stack' = SubSeq(stack, 1, Here.at - 1)
         /\ stack' \in Seq(Entries) /\ Len(stack') = Here.at - 1
         /\ \A j \in 1 .. Here.at - 1 : stack'[j] = stack[j]
<1> DEFINE x == Here.at
           n == Len(Here.into)
           t == Len(stack)
           m == CallMarker(Here.callee)
<1>1. x \in Nat /\ n \in Nat /\ t \in Nat /\ stack \in Seq(Entries)
  BY TopFacts, HereFacts DEF IInv, TypeOK
<1>2. /\ x > 0 /\ t = x + n /\ stack[x] = m
      /\ \A i \in 1 .. n : stack[x + i].kind = "arg"
  BY HereArgs
<1>3. \A i \in 1 .. n : stack[x + i] # m
  BY <1>2 DEF CallMarker
<1>4. Below(m) = SubSeq(stack, 1, x - 1)
  <2> HIDE DEF x, n, m
  <2>1. \A j \in x + 1 .. t : j - x \in 1 .. n /\ x + (j - x) = j
    BY <1>1, <1>2
  <2>2. \A j \in x + 1 .. t : stack[j] # m
    BY <1>3, <2>1
  <2>3. x \in 1 .. t
    BY <1>1, <1>2
  <2> QED
    BY <1>1, <1>2, <2>2, <2>3, BelowIs DEF t
<1> HIDE DEF x, n, t, m
<1>5. x - 1 \in 0 .. t /\ x \in Nat \ {0} /\ x <= t
  BY <1>1, <1>2
<1>6. stack' = SubSeq(stack, 1, x - 1)
  BY <1>4 DEF m
<1>7. stack' \in Seq(Entries) /\ Len(stack') = x - 1 /\ \A j \in 1 .. x - 1 : stack'[j] = stack[j]
  BY <1>1, <1>5, <1>6, CutOff DEF t
<1> QED
  BY <1>1, <1>5, <1>6, <1>7 DEF x, t

(* What CloseCall does to the calls.                                       *)
LEMMA ClosedCalls ==
  ASSUME IInv, NCalls > 0, ctl' = [ctl EXCEPT ![Depth].calls = SubSeq(@, 1, NCalls - 1)]
  PROVE  /\ ctl' \in Seq(ActivationRecords) /\ Len(ctl') = Depth /\ Depth' = Depth
         /\ \A a \in 1 .. Depth - 1 : ctl'[a] = ctl[a]
         /\ ctl'[Depth].proc = Top.proc /\ ctl'[Depth].left = Top.left
         /\ Len(ctl'[Depth].calls) = NCalls - 1
         /\ \A k \in 1 .. NCalls - 1 : ctl'[Depth].calls[k] = Top.calls[k]
<1> DEFINE s == SubSeq(Top.calls, 1, NCalls - 1)
           x == [Top EXCEPT !.calls = s]
<1>1. /\ Depth \in Nat /\ Depth >= 1 /\ Top \in ActivationRecords /\ NCalls \in Nat
      /\ Top.calls \in Seq(CallRecords) /\ Top = ctl[Depth] /\ NCalls = Len(Top.calls)
  BY TopFacts DEF Top, NCalls
<1>2. s \in Seq(CallRecords) /\ Len(s) = NCalls - 1 /\ \A k \in 1 .. NCalls - 1 : s[k] = Top.calls[k]
  <2>1. NCalls - 1 \in 0 .. Len(Top.calls)
    BY <1>1
  <2> QED
    BY <1>1, <2>1, CutOff
<1>3. ctl' = [ctl EXCEPT ![Depth] = x]
  BY <1>1
<1> HIDE DEF s
<1>4. x \in ActivationRecords /\ x.proc = Top.proc /\ x.left = Top.left /\ x.calls = s
  BY <1>1, <1>2 DEF ActivationRecords
<1> HIDE DEF x
<1>5. /\ ctl' \in Seq(ActivationRecords) /\ Len(ctl') = Depth /\ Depth' = Depth
      /\ \A a \in 1 .. Depth - 1 : ctl'[a] = ctl[a]
      /\ ctl'[Depth] = x
  BY <1>3, <1>4, TopReplaced
<1> QED
  BY <1>2, <1>4, <1>5

(* The end of a call expression takes its marker and arguments from the    *)
(* stack; the call around it is at the top again.                          *)
LEMMA CloseCallIInv == IInv /\ CloseCall => IInv'
<1> SUFFICES ASSUME IInv, CloseCall
             PROVE  IInv'
  OBVIOUS
<1>1. /\ Depth \in Nat /\ Depth >= 1 /\ Top = ctl[Depth] /\ Depth \in 1 .. Depth
      /\ NCalls \in Nat /\ NCalls > 0 /\ NCalls = Len(Top.calls) /\ Here = Top.calls[NCalls]
  BY TopFacts DEF Top, NCalls, Here, CloseCall, InCall
<1>2. /\ Here.at \in Nat \ {0} /\ stack' \in Seq(Entries) /\ Len(stack') = Here.at - 1
      /\ \A j \in 1 .. Here.at - 1 : stack'[j] = stack[j]
      /\ Here.at <= Len(stack) /\ Len(stack) \in Nat
  BY <1>1, ClosedStack DEF CloseCall
<1>3. /\ ctl' \in Seq(ActivationRecords) /\ Len(ctl') = Depth /\ Depth' = Depth
      /\ \A a \in 1 .. Depth - 1 : ctl'[a] = ctl[a]
      /\ ctl'[Depth].proc = Top.proc
      /\ Len(ctl'[Depth].calls) = NCalls - 1
      /\ \A k \in 1 .. NCalls - 1 : ctl'[Depth].calls[k] = Top.calls[k]
  BY <1>1, ClosedCalls DEF CloseCall
<1>4. Start(Depth) \in Nat /\ Start(Depth) < Here.at
  BY <1>1, Places, HereArgs
<1>5. StaysIn
  <2>1. Start(Depth) <= Len(stack')
    BY <1>2, <1>4
  <2>2. \A j \in 1 .. Start(Depth) : SameEntry(stack[j], stack'[j])
    BY <1>2, <1>4, SameStack
  <2>3. saved' = saved /\ bp' = bp
    BY DEF CloseCall
  <2> QED
    BY <1>1, <1>3, <2>1, <2>2, <2>3 DEF StaysIn
<1>6. TypeOK'
  <2>1. Len(ctl') > 0
    BY <1>1, <1>3
  <2> QED
    BY <1>2, <1>3, <2>1 DEF TypeOK, IInv, CloseCall
<1>7. SizeInv'
  <2>1. status' = "running"
    BY DEF CloseCall, InCall, Running
  <2> QED
    BY <2>1 DEF SizeInv
(* The calls that remain are those that were not the last.                 *)
<1>8. ASSUME NEW k \in 1 .. NCalls - 1
      PROVE  /\ Phase(Top.calls[k], FALSE, TRUE)
             /\ Top.calls[k].phase = "args" /\ Phase(Top.calls[k], TRUE, TRUE)
  <2>1. k \in 1 .. Len(ctl[Depth].calls) /\ k # Len(ctl[Depth].calls)
    BY <1>1
  <2>2. Phase(Top.calls[k], FALSE, TRUE)
    <3>1. Phase(ctl[Depth].calls[k], k = Len(ctl[Depth].calls), Depth = Depth)
      BY <1>1, <2>1 DEF IInv, PhaseInv
    <3> QED
      BY <1>1, <2>1, <3>1 DEF Phase
  <2> QED
    BY <2>2 DEF Phase
<1>9. ASSUME NEW k \in 1 .. Len(ctl'[Depth].calls)
      PROVE  Phase(ctl'[Depth].calls[k], k = Len(ctl'[Depth].calls), TRUE)
  <2>1. k \in 1 .. NCalls - 1
    BY <1>3
  <2>2. Phase(Top.calls[k], FALSE, TRUE) /\ Phase(Top.calls[k], TRUE, TRUE)
    BY <1>8, <2>1
  <2>3. ctl'[Depth].calls[k] = Top.calls[k]
    BY <1>3, <2>1
  <2>4. CASE k = Len(ctl'[Depth].calls)
    <3>1. (k = Len(ctl'[Depth].calls)) = TRUE
      BY <2>4
    <3> QED
      BY <2>2, <2>3, <3>1
  <2>5. CASE k # Len(ctl'[Depth].calls)
    <3>1. (k = Len(ctl'[Depth].calls)) = FALSE
      BY <2>5
    <3> QED
      BY <2>2, <2>3, <3>1
  <2> QED
    BY <2>4, <2>5
<1>10. KnownInv'
  <2>1. NCalls' = NCalls - 1
    BY <1>3 DEF NCalls, Top
  <2>2. ASSUME NCalls' > 0
        PROVE  Here'.phase = "args"
    <3>1. NCalls - 1 \in 1 .. NCalls - 1
      BY <1>1, <2>1, <2>2
    <3>2. Here' = ctl'[Depth].calls[NCalls - 1]
      BY <1>3, <2>1 DEF Here, Top
    <3> QED
      BY <1>3, <1>8, <3>1, <3>2
  <2> QED
    BY <2>2 DEF KnownInv
<1>11. Layout(ctl'[Depth], Start(Depth), Len(stack'), stack')
  <2> DEFINE act == ctl[Depth]
             act2 == ctl'[Depth]
             start == Start(Depth)
             end == Len(stack)
             st2 == stack'
             n == NCalls
  <2>1. /\ start \in Nat /\ end \in Nat /\ n \in Nat \ {0} /\ n = Len(act.calls)
        /\ Layout(act, start, end, stack) /\ Len(act2.calls) = n - 1
        /\ \A k \in 1 .. n - 1 : act2.calls[k] = act.calls[k]
    <3>1. Layout(act, start, end, stack)
      BY <1>1 DEF IInv, LayoutInv, End
    <3> QED
      BY <1>1, <1>2, <1>3, <1>4, <3>1
  <2>2. \A k \in 1 .. n :
          /\ act.calls[k].at \in Nat /\ Len(act.calls[k].into) \in Nat
          /\ start < act.calls[k].at
    BY <1>1, CallFacts, Places
  <2>3. \A k \in 1 .. n - 1 :
          act.calls[k].at + Len(act.calls[k].into) < act.calls[n].at
    <3>1. \A k, l \in 1 .. Len(ctl[Depth].calls) : k < l =>
            ctl[Depth].calls[k].at + Len(ctl[Depth].calls[k].into) < ctl[Depth].calls[l].at
      BY <1>1, Places
    <3>2. \A k \in 1 .. n - 1 : k \in 1 .. n /\ n \in 1 .. n /\ k < n
      BY <1>1
    <3> QED
      BY <1>1, <3>1, <3>2
  <2>4. \A j \in 1 .. act.calls[n].at - 1 : st2[j] = stack[j]
    BY <1>1, <1>2
  <2>5. Len(stack') = act.calls[n].at - 1
    BY <1>1, <1>2
  <2> HIDE DEF act, act2, start, end, st2, n
  <2>6. Layout(act2, start, act.calls[n].at - 1, st2)
    BY <2>1, <2>2, <2>3, <2>4, LayoutCut
  <2> QED
    BY <2>5, <2>6 DEF act, act2, start, st2, n
<1> QED
  BY <1>5, <1>6, <1>7, <1>9, <1>10, <1>11, TopStep

-----------------------------------------------------------------------------
(* A call: the activation that runs waits, and one begins above its        *)
(* arguments.                                                              *)
LEMMA CalledFacts ==
  ASSUME IInv, Call
  PROVE  /\ NCalls > 0 /\ Running /\ Here.phase = "args" /\ ~known
         /\ Len(Here.into) = Params[Here.callee]
         /\ Depth' = Depth + 1 /\ ctl' \in Seq(ActivationRecords) /\ Len(ctl') = Depth + 1
         /\ \A a \in 1 .. Depth - 1 : ctl'[a] = ctl[a]
         /\ ctl'[Depth].proc = Top.proc /\ Len(ctl'[Depth].calls) = NCalls
         /\ \A k \in 1 .. NCalls - 1 : ctl'[Depth].calls[k] = Top.calls[k]
         /\ ctl'[Depth].calls[NCalls] = [Here EXCEPT !.phase = "active"]
         /\ ctl'[Depth + 1] = Activation(Here.callee)
         /\ Activation(Here.callee) \in ActivationRecords
         /\ stack' \in Seq(Entries) /\ Len(stack') = Len(stack) + 1
         /\ \A j \in 1 .. Len(stack) : stack'[j] = stack[j]
         /\ stack'[Len(stack) + 1] = FunMarker(Here.callee)
         /\ bp' = Len(stack)
         /\ Len(saved) = Depth - 1 /\ Len(saved') = Depth
         /\ saved' \in Seq([regi : Values, bp : Int])
         /\ \A a \in 1 .. Depth - 1 : saved'[a] = saved[a]
         /\ saved'[Depth].bp = Len(stack) /\ saved'[Depth].regi = regi
<1> DEFINE c == [Here EXCEPT !.phase = "active"]
           w == WithCall(c)
           q == Here.callee
<1>1. /\ Depth \in Nat /\ Depth >= 1 /\ NCalls \in Nat /\ NCalls > 0 /\ Running
      /\ Here.phase = "args" /\ ~known /\ Len(Here.into) = Params[Here.callee]
      /\ Len(stack) \in Nat
  BY TopFacts DEF Call, ArgumentsDone, InCall
<1>2. c \in CallRecords /\ q \in Procs
  BY <1>1, HereFacts DEF CallRecords
<1>3. Activation(q) \in ActivationRecords
  <2>1. Steps(q) \in Nat
    BY LimitsAssumption DEF Steps
  <2>2. <<>> \in Seq(CallRecords)
    BY EmptySeq
  <2> QED
    BY <1>2, <2>1, <2>2 DEF Activation, ActivationRecords
<1> HIDE DEF c
<1> DEFINE s == [Top.calls EXCEPT ![NCalls] = c]
           x == [Top EXCEPT !.calls = s]
<1>4. /\ Top \in ActivationRecords /\ Top.calls \in Seq(CallRecords) /\ Top = ctl[Depth]
      /\ NCalls = Len(Top.calls) /\ ctl \in Seq(ActivationRecords) /\ Depth = Len(ctl)
  BY TopFacts DEF Top, NCalls, IInv, TypeOK, Depth
<1>5. /\ s \in Seq(CallRecords) /\ Len(s) = NCalls
      /\ \A k \in 1 .. NCalls : s[k] = IF k = NCalls THEN c ELSE Top.calls[k]
  <2>1. NCalls \in 1 .. Len(Top.calls)
    BY <1>1, <1>4
  <2> QED
    BY <1>2, <1>4, <2>1, ExceptSeq
<1>6. w = [ctl EXCEPT ![Depth] = x]
  BY <1>4 DEF WithCall
<1> HIDE DEF s, w
<1>7. x \in ActivationRecords /\ x.proc = Top.proc /\ x.calls = s
  BY <1>4, <1>5 DEF ActivationRecords
<1> HIDE DEF x
<1>8. /\ w \in Seq(ActivationRecords) /\ Len(w) = Depth
      /\ \A j \in 1 .. Depth : w[j] = IF j = Depth THEN x ELSE ctl[j]
  <2>1. Depth \in 1 .. Len(ctl)
    BY <1>1, <1>4
  <2> QED
    BY <1>4, <1>6, <1>7, <2>1, ExceptSeq
<1>9. ctl' = Append(w, Activation(q))
  BY DEF Call, w, c
<1>10. /\ ctl' \in Seq(ActivationRecords) /\ Len(ctl') = Depth + 1
       /\ \A j \in 1 .. Depth : ctl'[j] = w[j]
       /\ ctl'[Depth + 1] = Activation(q)
  BY <1>3, <1>8, <1>9, AppendProperties
<1>11. \A a \in 1 .. Depth - 1 : a \in 1 .. Depth /\ a # Depth
  BY <1>1
<1>12. \A k \in 1 .. NCalls - 1 : k \in 1 .. NCalls /\ k # NCalls
  BY <1>1
<1>13. ctl'[Depth] = x /\ Depth \in 1 .. Depth /\ NCalls \in 1 .. NCalls
  BY <1>1, <1>8, <1>10
<1>14. Depth' = Depth + 1
  BY <1>10 DEF Depth
<1>15. /\ stack' \in Seq(Entries) /\ Len(stack') = Len(stack) + 1
       /\ \A j \in 1 .. Len(stack) : stack'[j] = stack[j]
       /\ stack'[Len(stack) + 1] = FunMarker(q)
  <2>1. FunMarker(q) \in Entries /\ stack' = Append(stack, FunMarker(q))
    BY <1>2 DEF FunMarker, Entries, Call
  <2> QED
    BY <2>1, PushedStack
<1>16. bp' = Len(stack)
  BY DEF Call
<1>17. /\ Len(saved) = Depth - 1 /\ Len(saved') = Depth
       /\ saved' \in Seq([regi : Values, bp : Int])
       /\ \A a \in 1 .. Depth - 1 : saved'[a] = saved[a]
       /\ saved'[Depth] = [regi |-> regi, bp |-> Len(stack)]
  <2>1. Len(saved) = Depth - 1 /\ saved \in Seq([regi : Values, bp : Int])
        /\ [regi |-> regi, bp |-> Len(stack)] \in [regi : Values, bp : Int]
    BY <1>1 DEF IInv, TypeOK, ControlInv
  <2>2. saved' = Append(saved, [regi |-> regi, bp |-> Len(stack)])
    BY <1>16 DEF Call
  <2>3. /\ saved' \in Seq([regi : Values, bp : Int]) /\ Len(saved') = Len(saved) + 1
        /\ \A a \in 1 .. Len(saved) : saved'[a] = saved[a]
        /\ saved'[Len(saved) + 1] = [regi |-> regi, bp |-> Len(stack)]
    BY <2>1, <2>2, AppendProperties
  <2>4. Len(saved) + 1 = Depth
    BY <1>1, <2>1
  <2> QED
    BY <2>1, <2>3, <2>4
<1>18. \A a \in 1 .. Depth - 1 : ctl'[a] = ctl[a]
  BY <1>8, <1>10, <1>11
<1>19. /\ ctl'[Depth].proc = Top.proc /\ Len(ctl'[Depth].calls) = NCalls
       /\ \A k \in 1 .. NCalls - 1 : ctl'[Depth].calls[k] = Top.calls[k]
       /\ ctl'[Depth].calls[NCalls] = c
  BY <1>5, <1>7, <1>12, <1>13
<1>20. saved'[Depth].bp = Len(stack) /\ saved'[Depth].regi = regi
  BY <1>17
<1> QED
  BY <1>1, <1>3, <1>10, <1>14, <1>15, <1>16, <1>17, <1>18, <1>19, <1>20 DEF c

(* A call: pushall saves the base, the marker of the function begins a new *)
(* activation, and the one below waits for it with a call that has all its *)
(* arguments.                                                              *)
LEMMA CallIInv == IInv /\ Call => IInv'
<1> SUFFICES ASSUME IInv, Call, NEW D, D = Depth, NEW t, t = Len(stack)
             PROVE  IInv'
  OBVIOUS
<1> DEFINE c == [Here EXCEPT !.phase = "active"]
<1>1. /\ D \in Nat /\ D >= 1 /\ Top = ctl[D] /\ NCalls \in Nat /\ t \in Nat
      /\ NCalls = Len(Top.calls) /\ Here = Top.calls[NCalls] /\ D \in 1 .. D
      /\ NCalls \in 1 .. NCalls
  BY TopFacts, CalledFacts DEF Top, NCalls, Here
<1>2. /\ Here \in CallRecords /\ Here.callee \in Procs /\ Params[Here.callee] \in Nat
      /\ Here.todo \subseteq Refs[Here.callee]
  BY CalledFacts, HereFacts
<1>3. /\ c \in CallRecords /\ c.at = Here.at /\ c.into = Here.into /\ c.callee = Here.callee
      /\ c.todo = Here.todo /\ c.phase = "active"
  BY <1>2 DEF CallRecords
<1> HIDE DEF c
<1>4. /\ Depth' = D + 1
      /\ \A a \in 1 .. D - 1 : ctl'[a] = ctl[a]
      /\ ctl'[D].proc = Top.proc /\ Len(ctl'[D].calls) = NCalls
      /\ \A k \in 1 .. NCalls - 1 : ctl'[D].calls[k] = Top.calls[k]
      /\ ctl'[D].calls[NCalls] = c
      /\ ctl'[D + 1].proc = Here.callee /\ ctl'[D + 1].calls = <<>>
      /\ Len(ctl'[D + 1].calls) = 0
  BY CalledFacts DEF Activation, c
<1>5. /\ Len(stack') = t + 1 /\ bp' = t
      /\ \A j \in 1 .. t : stack'[j] = stack[j]
      /\ stack'[t + 1] = FunMarker(Here.callee)
      /\ Len(saved') = D /\ saved'[D].bp = t
      /\ \A a \in 1 .. D - 1 : saved'[a] = saved[a]
  BY CalledFacts
<1>6. \A a \in 1 .. D + 1 : a = D + 1 \/ a = D \/ a \in 1 .. D - 1
  BY <1>1
(* The entries of the activations that wait are where they were.           *)
<1>7. /\ \A a \in 1 .. D : Start(a)' = Start(a) /\ End(a)' = End(a)
      /\ Start(D + 1)' = t + 1 /\ End(D + 1)' = t + 1 /\ End(D) = t
  <2>1. \A a \in 1 .. D : a = 1 \/ a - 1 \in 1 .. D - 1
    BY <1>1
  <2>2. \A a \in 1 .. D : Start(a)' = Start(a)
    BY <1>5, <2>1 DEF Start
  <2>3. \A a \in 1 .. D - 1 : End(a)' = End(a)
    <3>1. \A a \in 1 .. D - 1 : a # D /\ a # D + 1
      BY <1>1
    <3> QED
      BY <1>4, <1>5, <3>1 DEF End
  <2>4. End(D)' = t /\ End(D) = t /\ D # D + 1
    BY <1>1, <1>4, <1>5 DEF End
  <2>5. \A a \in 1 .. D : a = D \/ a \in 1 .. D - 1
    BY <1>1
  <2>6. Start(D + 1)' = t + 1
    <3>1. D + 1 # 1 /\ (D + 1) - 1 = D
      BY <1>1
    <3> QED
      BY <1>5, <3>1 DEF Start
  <2>7. End(D + 1)' = t + 1
    BY <1>4, <1>5 DEF End
  <2>8. \A a \in 1 .. D : End(a)' = End(a)
    BY <2>3, <2>4, <2>5
  <2> QED
    BY <2>2, <2>4, <2>6, <2>7, <2>8
<1>8. TypeOK'
  <2>1. Len(ctl') > 0
    BY <1>1, CalledFacts
  <2>2. status' \in {"running", "exited", "failed", "overrun"}
    BY CalledFacts, PushedSize DEF Call
  <2>3. /\ ctl' \in Seq(ActivationRecords) /\ stack' \in Seq(Entries)
        /\ saved' \in Seq([regi : Values, bp : Int])
    BY CalledFacts
  <2>4. bp' \in Int
    BY <1>1, <1>5
  <2>5. /\ global' \in [Globals -> Values] /\ regi' \in Values /\ known' \in BOOLEAN
        /\ rvi' \in Values
    BY DEF TypeOK, IInv, Call
  <2> QED
    BY <2>1, <2>2, <2>3, <2>4, <2>5 DEF TypeOK
<1>9. SizeInv'
  BY CalledFacts, PushedSize DEF Call
<1>10. KnownInv'
  <2>1. NCalls' = 0
    BY <1>4 DEF NCalls, Top
  <2> QED
    BY <2>1 DEF KnownInv
<1>11. PhaseInv'
  <2> SUFFICES ASSUME NEW a \in 1 .. D + 1, NEW k \in 1 .. Len(ctl'[a].calls)
               PROVE  Phase(ctl'[a].calls[k], k = Len(ctl'[a].calls), a = D + 1)
    BY <1>4 DEF PhaseInv, Phase
  <2>1. CASE a = D + 1
    BY <1>4, <2>1
  <2>2. CASE a \in 1 .. D - 1
    <3>1. Phase(ctl[a].calls[k], k = Len(ctl[a].calls), a = Depth)
      <4>1. a \in 1 .. Depth /\ k \in 1 .. Len(ctl[a].calls)
        BY <1>1, <1>4, <2>2
      <4> QED
        BY <4>1 DEF IInv, PhaseInv
    <3>2. (a = Depth) = FALSE /\ (a = D + 1) = FALSE
      BY <1>1, <2>2
    <3>3. ctl'[a] = ctl[a]
      BY <1>4, <2>2
    <3> QED
      BY <3>1, <3>2, <3>3
  <2>3. CASE a = D
    <3>1. k \in 1 .. NCalls /\ (a = D + 1) = FALSE
      BY <1>1, <1>4, <2>3
    <3>2. Phase(Top.calls[k], k = NCalls, TRUE)
      <4>1. Phase(ctl[D].calls[k], k = Len(ctl[D].calls), D = Depth)
        BY <1>1, <3>1 DEF IInv, PhaseInv
      <4> QED
        BY <1>1, <4>1
    <3>3. CASE k = NCalls
      <4>1. Phase(c, TRUE, FALSE)
        <5>1. Len(c.into) = Params[c.callee]
          BY <1>3, CalledFacts
        <5> QED
          BY <1>2, <1>3, <5>1 DEF Phase
      <4>2. (k = Len(ctl'[a].calls)) = TRUE
        BY <1>4, <2>3, <3>3
      <4> QED
        BY <1>4, <2>3, <3>1, <3>3, <4>1, <4>2
    <3>4. CASE k \in 1 .. NCalls - 1
      <4>1. (k = NCalls) = FALSE
        BY <1>1, <3>4
      <4>2. Phase(Top.calls[k], FALSE, FALSE)
        <5>1. Phase(Top.calls[k], FALSE, TRUE)
          BY <3>2, <4>1
        <5> QED
          BY <5>1 DEF Phase
      <4>3. ctl'[a].calls[k] = Top.calls[k] /\ (k = Len(ctl'[a].calls)) = FALSE
        BY <1>4, <2>3, <3>4, <4>1
      <4> QED
        BY <3>1, <4>2, <4>3
    <3>5. k = NCalls \/ k \in 1 .. NCalls - 1
      BY <1>1, <3>1
    <3> QED
      BY <3>3, <3>4, <3>5
  <2> QED
    BY <1>6, <2>1, <2>2, <2>3
<1>12. ControlInv'
  <2>1. /\ Len(saved) = D - 1 /\ D <= DeepestRecursion /\ ctl[1].proc = Main
        /\ \A a \in 1 .. D - 1 :
             /\ Len(ctl[a].calls) > 0
             /\ ctl[a].calls[Len(ctl[a].calls)].callee = ctl[a + 1].proc
    BY DEF IInv, ControlInv
  <2>2. D + 1 <= DeepestRecursion
    <3>1. Len(saved) + 1 # DeepestRecursion
      BY DEF Call, TooDeep
    <3>2. DeepestRecursion \in Nat
      BY LimitsAssumption
    <3> QED
      BY <1>1, <2>1, <3>1, <3>2
  <2>3. \A a \in 1 .. D : ctl'[a].proc = ctl[a].proc
    <3>1. \A a \in 1 .. D : a = D \/ a \in 1 .. D - 1
      BY <1>1
    <3> QED
      BY <1>1, <1>4, <3>1
  <2>4. ctl'[1].proc = Main
    BY <1>1, <2>1, <2>3
  <2>5. ASSUME NEW a \in 1 .. D
        PROVE  /\ Len(ctl'[a].calls) > 0
               /\ ctl'[a].calls[Len(ctl'[a].calls)].callee = ctl'[a + 1].proc
    <3>1. CASE a = D
      <4>1. Len(ctl'[D].calls) = NCalls /\ NCalls > 0 /\ ctl'[D].calls[NCalls] = c
        BY <1>1, <1>4
      <4>2. c.callee = ctl'[D + 1].proc
        BY <1>3, <1>4
      <4> QED
        BY <3>1, <4>1, <4>2
    <3>2. CASE a \in 1 .. D - 1
      <4>1. a + 1 \in 1 .. D
        BY <1>1, <3>2
      <4> QED
        BY <1>4, <2>1, <2>3, <3>2, <4>1
    <3>3. a = D \/ a \in 1 .. D - 1
      BY <1>1
    <3> QED
      BY <3>1, <3>2, <3>3
  <2>6. (D + 1) - 1 = D
    BY <1>1
  <2> QED
    BY <1>4, <1>5, <2>2, <2>4, <2>5, <2>6 DEF ControlInv
<1>13. LayoutInv'
  <2> SUFFICES ASSUME NEW a \in 1 .. D + 1
               PROVE  Layout(ctl'[a], Start(a)', End(a)', stack')
    BY <1>4 DEF LayoutInv, Layout
  <2>1. CASE a = D + 1
    <3>1. Layout(ctl'[D + 1], t + 1, t + 1, stack')
      <4>1. 0 <= MaxNesting
        BY LimitsAssumption
      <4>2. 1 .. 0 = {} /\ \A k, l \in 0 .. 0 : ~ (k < l)
        OBVIOUS
      <4> QED
        BY <1>4, <4>1, <4>2 DEF Layout, After
    <3> QED
      BY <1>7, <2>1, <3>1
  <2>2. CASE a \in 1 .. D
    <3>1. Layout(ctl[a], Start(a), End(a), stack)
      BY <2>2 DEF IInv, LayoutInv
    <3>2. Len(ctl[a].calls) \in Nat
      BY <2>2, CallFacts
    <3>3. ASSUME NEW k \in 1 .. Len(ctl[a].calls)
          PROVE  /\ stack'[ctl[a].calls[k].at] = stack[ctl[a].calls[k].at]
                 /\ \A i \in 1 .. Len(ctl[a].calls[k].into) :
                      stack'[ctl[a].calls[k].at + i] = stack[ctl[a].calls[k].at + i]
      <4> DEFINE x == ctl[a].calls[k].at
                 n == Len(ctl[a].calls[k].into)
                 s == Start(a)
                 e == End(a)
      <4>1. x \in Nat /\ n \in Nat /\ s \in Nat /\ s < x /\ x + n <= e /\ e \in Nat /\ e <= t
        BY <2>2, Places, CallFacts
      <4> HIDE DEF x, n, s, e
      <4>2. x \in 1 .. t /\ \A i \in 1 .. n : x + i \in 1 .. t
        BY <1>1, <4>1
      <4>3. stack'[x] = stack[x] /\ \A i \in 1 .. n : stack'[x + i] = stack[x + i]
        BY <1>5, <4>2
      <4> QED
        BY <4>3 DEF x, n
    <3>4. /\ Len(ctl'[a].calls) = Len(ctl[a].calls)
          /\ \A k \in 1 .. Len(ctl[a].calls) :
               /\ ctl'[a].calls[k].at = ctl[a].calls[k].at
               /\ ctl'[a].calls[k].into = ctl[a].calls[k].into
               /\ ctl'[a].calls[k].callee = ctl[a].calls[k].callee
      <4>1. CASE a = D
        <5>1. \A k \in 1 .. NCalls : k = NCalls \/ k \in 1 .. NCalls - 1
          BY <1>1
        <5>2. ctl[a] = Top /\ Len(Top.calls) = NCalls
          BY <1>1, <4>1 DEF Top, NCalls
        <5>3. \A k \in 1 .. NCalls - 1 : ctl'[a].calls[k] = Top.calls[k]
          BY <1>4, <4>1
        <5>4. ctl'[a].calls[NCalls] = c /\ Here = Top.calls[NCalls]
          BY <1>4, <4>1 DEF Here
        <5> DEFINE z == ctl'[a].calls[NCalls]
        <5>5. z.at = Here.at /\ z.into = Here.into /\ z.callee = Here.callee
          BY <1>3, <5>4
        <5> HIDE DEF z
        <5>6. Len(ctl'[a].calls) = NCalls
          BY <1>4, <4>1
        <5> QED
          BY <5>1, <5>2, <5>3, <5>4, <5>5, <5>6 DEF z
      <4>2. CASE a \in 1 .. D - 1
        BY <1>4, <4>2
      <4>3. a = D \/ a \in 1 .. D - 1
        BY <1>1, <2>2
      <4> QED
        BY <4>1, <4>2, <4>3
    <3> DEFINE act == ctl[a]
               act2 == ctl'[a]
               start == Start(a)
               end == End(a)
               st2 == stack'
    <3>6. \A k \in 1 .. Len(act.calls) :
            /\ act2.calls[k].at = act.calls[k].at
            /\ act2.calls[k].into = act.calls[k].into
            /\ act2.calls[k].callee = act.calls[k].callee
            /\ SameEntry(stack[act.calls[k].at], st2[act.calls[k].at])
            /\ \A i \in 1 .. Len(act.calls[k].into) :
                 SameEntry(stack[act.calls[k].at + i], st2[act.calls[k].at + i])
      BY <3>3, <3>4 DEF SameEntry
    <3>7. Layout(act, start, end, stack) /\ Len(act2.calls) = Len(act.calls)
          /\ Len(act.calls) \in Nat
      BY <3>1, <3>2, <3>4
    <3> HIDE DEF act, act2, start, end, st2
    <3>8. Layout(act2, start, end, st2)
      BY <3>6, <3>7, LayoutSame
    <3>5. Layout(ctl'[a], Start(a), End(a), stack')
      BY <3>8 DEF act2, start, end, st2
    <3> QED
      BY <1>7, <2>2, <3>5
  <2>3. a = D + 1 \/ a \in 1 .. D
    BY <1>1
  <2> QED
    BY <2>1, <2>2, <2>3
<1>14. MarkerInv'
  <2> SUFFICES ASSUME NEW a \in 2 .. D + 1
               PROVE  /\ Start(a)' \in 1 .. Len(stack')
                      /\ stack'[Start(a)'] = FunMarker(ctl'[a].proc)
                      /\ Start(a)' <= (a - 1) * (MaxNesting * Most + 2)
    BY <1>4 DEF MarkerInv, FunMarker
  <2>1. CASE a = D + 1
    <3> DEFINE m == MaxNesting * Most
    <3>1. Start(D) \in Nat /\ t <= Start(D) + m + 1 /\ m \in Nat
      <4>1. MaxNesting \in Nat /\ Most \in Nat
        BY LimitsAssumption, MostFacts
      <4> QED
        BY <1>1, <1>7, <4>1, Places, EndBound, NextTimes
    <3>2. Start(D) <= (D - 1) * (m + 2)
      <4>1. CASE D = 1
        <5>1. Start(D) = 0 /\ D - 1 = 0
          BY <4>1 DEF Start
        <5>2. 0 * (m + 2) = 0
          BY <3>1
        <5> QED
          BY <5>1, <5>2
      <4>2. CASE D \in 2 .. D
        BY <4>2 DEF IInv, MarkerInv
      <4>3. D = 1 \/ D \in 2 .. D
        BY <1>1
      <4> QED
        BY <4>1, <4>2, <4>3
    <3> HIDE DEF m
    <3>3. D * (m + 2) = (D - 1) * (m + 2) + (m + 2) /\ (D - 1) * (m + 2) \in Nat
      <4> DEFINE i == D - 1
                 q == m + 2
      <4>1. i \in Nat /\ i + 1 = D /\ q \in Nat
        BY <1>1, <3>1
      <4> HIDE DEF i, q
      <4>2. (i + 1) * q = i * q + q /\ i * q \in Nat
        BY <4>1, NextTimes
      <4>3. D * q = i * q + q
        BY <4>1, <4>2
      <4> QED
        BY <4>2, <4>3 DEF i, q
    <3>4. t + 1 <= D * (m + 2)
      BY <1>1, <3>1, <3>2, <3>3
    <3>5. (D + 1) - 1 = D /\ t + 1 \in 1 .. t + 1
      BY <1>1
    <3> QED
      BY <1>4, <1>5, <1>7, <2>1, <3>4, <3>5 DEF m
  <2>2. CASE a \in 2 .. D
    <3>1. /\ Start(a) \in 1 .. t
          /\ stack[Start(a)] = FunMarker(ctl[a].proc)
          /\ Start(a) <= (a - 1) * (MaxNesting * Most + 2)
      BY <2>2 DEF IInv, MarkerInv
    <3>2. ctl'[a].proc = ctl[a].proc
      <4>1. a = D \/ a \in 1 .. D - 1
        BY <1>1, <2>2
      <4> QED
        BY <1>1, <1>4, <4>1
    <3>3. Start(a)' = Start(a)
      BY <1>1, <1>7, <2>2
    <3>4. Start(a) \in 1 .. t + 1
      BY <1>1, <3>1
    <3> QED
      BY <1>5, <3>1, <3>2, <3>3, <3>4
  <2>3. a = D + 1 \/ a \in 2 .. D
    BY <1>1
  <2> QED
    BY <2>1, <2>2, <2>3
<1>15. OrderInv'
  <2> SUFFICES ASSUME NEW a \in 1 .. D + 1, NEW b \in 1 .. D + 1, a < b
               PROVE  End(a)' < Start(b)'
    BY <1>4 DEF OrderInv
  <2>1. a \in 1 .. D
    BY <1>1
  <2>2. CASE b \in 1 .. D
    <3>1. End(a) < Start(b)
      BY <2>1, <2>2 DEF IInv, OrderInv
    <3> QED
      BY <1>7, <2>1, <2>2, <3>1
  <2>3. CASE b = D + 1
    <3>1. End(a) \in Nat /\ End(a) <= t
      BY <2>1, Places
    <3> QED
      BY <1>1, <1>7, <2>1, <2>3, <3>1
  <2>4. b \in 1 .. D \/ b = D + 1
    BY <1>1
  <2> QED
    BY <2>2, <2>3, <2>4
<1> QED
  BY <1>8, <1>9, <1>10, <1>11, <1>12, <1>13, <1>14, <1>15 DEF IInv

-----------------------------------------------------------------------------
(* A return: the activation below goes on, above the arguments of its      *)
(* call, with the base its pushall has saved.                              *)
Returned(b) == [b EXCEPT !.phase = "back", !.todo = Refs[Top.proc]]

OthersStay(a, n) == \A k \in 1 .. n - 1 : ctl'[a].calls[k] = ctl[a].calls[k]

(* What a return leaves: the activation E below with its n calls.          *)
ReturnStep(E, n) ==
  /\ E \in Nat /\ E >= 1 /\ NCalls = 0 /\ Running /\ n \in Nat /\ n > 0
  /\ ctl[E].calls[n] \in CallRecords /\ ctl[E].calls[n].callee = Top.proc
  /\ Depth' = E /\ ctl' \in Seq(ActivationRecords) /\ Len(ctl') = E
  /\ \A a \in 1 .. E - 1 : ctl'[a] = ctl[a]
  /\ ctl'[E].proc = ctl[E].proc /\ Len(ctl'[E].calls) = n
  /\ OthersStay(E, n)
  /\ ctl'[E].calls[n] = Returned(ctl[E].calls[n]) /\ Returned(ctl[E].calls[n]) \in CallRecords
  /\ Len(stack) \in Nat \ {0}
  /\ stack' \in Seq(Entries) /\ Len(stack') = Len(stack) - 1
  /\ \A j \in 1 .. Len(stack) - 1 : stack'[j] = stack[j]
  /\ saved[E].bp = Len(stack) - 1 /\ Len(saved) = E
  /\ saved' \in Seq([regi : Values, bp : Int]) /\ Len(saved') = E - 1
  /\ \A a \in 1 .. E - 1 : saved'[a] = saved[a]
  /\ regi' = saved[E].regi /\ saved[E].regi \in Values
  /\ bp' \in Int /\ (E > 1 => bp' = saved[E - 1].bp)

(* A return finds the marker of its function at the top of the stack, and   *)
(* above it nothing.                                                       *)
LEMMA ReturnedFacts ==
  ASSUME IInv, Return, NEW E, E = Depth - 1, NEW n, n = Len(ctl[E].calls)
  PROVE  ReturnStep(E, n)
<1> DEFINE c == Returned(ctl[E].calls[n])
           p == Top.proc
           t == Len(stack)
           f == SubSeq(ctl, 1, E)
           s == [ctl[E].calls EXCEPT ![n] = c]
           x == [ctl[E] EXCEPT !.calls = s]
<1>1. /\ Depth \in Nat /\ Depth > 1 /\ NCalls = 0 /\ Running /\ E \in Nat /\ E >= 1
      /\ t \in Nat /\ Top = ctl[Depth] /\ p \in Procs /\ Depth = E + 1
      /\ E \in 1 .. Depth /\ Depth \in 2 .. Depth /\ Depth \in 1 .. Depth /\ E # Depth
  <2>1. Depth \in Nat /\ t \in Nat /\ p \in Procs
    BY TopFacts
  <2>2. Depth > 1 /\ NCalls = 0 /\ Running
    BY DEF Return, InBody
  <2> QED
    BY <2>1, <2>2 DEF Top
<1>2. /\ n \in Nat /\ n > 0 /\ ctl[E].calls[n] \in CallRecords /\ ctl[E].calls[n].callee = p
  BY <1>1, ParamFacts
<1>3. c \in CallRecords
  <2>1. Refs[p] \in SUBSET Nat
    <3>1. Refs[p] \subseteq 1 .. Params[p]
      BY <1>1, ProgramAssumption
    <3>2. \A i \in 1 .. Params[p] : i \in Nat
      BY <1>1, MostFacts
    <3> QED
      BY <3>1, <3>2
  <2> QED
    BY <1>2, <2>1 DEF CallRecords, Returned
<1> HIDE DEF c
<1>4. /\ ctl[E] \in ActivationRecords /\ ctl[E].calls \in Seq(CallRecords)
      /\ ctl \in Seq(ActivationRecords) /\ Len(ctl) = Depth
  BY <1>1, CallFacts DEF IInv, TypeOK, Depth
<1>5. /\ s \in Seq(CallRecords) /\ Len(s) = n
      /\ \A k \in 1 .. n : s[k] = IF k = n THEN c ELSE ctl[E].calls[k]
  <2>1. n \in 1 .. Len(ctl[E].calls)
    BY <1>2
  <2> QED
    BY <1>3, <1>4, <2>1, ExceptSeq
<1>6. f \in Seq(ActivationRecords) /\ Len(f) = E /\ \A a \in 1 .. E : f[a] = ctl[a]
  <2>1. E \in 0 .. Len(ctl)
    BY <1>1, <1>4
  <2> QED
    BY <1>4, <2>1, CutOff
<1>7. ctl' = [f EXCEPT ![E] = x]
  <2>1. f[E] = ctl[E] /\ E \in 1 .. E
    BY <1>1, <1>6
  <2>2. ctl' = [f EXCEPT ![E].calls[n] = c]
    BY DEF Return, Returned, c
  <2> HIDE DEF f
  <2> QED
    BY <2>1, <2>2
<1> HIDE DEF f, s
<1>8. x \in ActivationRecords /\ x.proc = ctl[E].proc /\ x.calls = s
  BY <1>4, <1>5 DEF ActivationRecords
<1> HIDE DEF x
<1>9. /\ ctl' \in Seq(ActivationRecords) /\ Len(ctl') = E
      /\ \A a \in 1 .. E : ctl'[a] = IF a = E THEN x ELSE f[a]
  <2>1. E \in 1 .. Len(f)
    BY <1>1, <1>6
  <2> QED
    BY <1>6, <1>7, <1>8, <2>1, ExceptSeq
<1>10. /\ Depth' = E /\ ctl'[E] = x
       /\ \A a \in 1 .. E - 1 : ctl'[a] = ctl[a]
  <2>1. E \in 1 .. E /\ \A a \in 1 .. E - 1 : a \in 1 .. E /\ a # E
    BY <1>1
  <2> QED
    BY <1>6, <1>9, <2>1 DEF Depth
<1>11. /\ ctl'[E].proc = ctl[E].proc /\ Len(ctl'[E].calls) = n
       /\ OthersStay(E, n)
       /\ ctl'[E].calls[n] = c
  <2>1. n \in 1 .. n /\ \A k \in 1 .. n - 1 : k \in 1 .. n /\ k # n
    BY <1>2
  <2> QED
    BY <1>5, <1>8, <1>10, <2>1 DEF OthersStay
(* The marker of the function is at the top of the stack.                  *)
<1>12. End(Depth) = t /\ Start(Depth) = t /\ t > 0 /\ stack[t] = FunMarker(p)
  <2>1. Layout(ctl[Depth], Start(Depth), End(Depth), stack)
    BY <1>1 DEF IInv, LayoutInv
  <2>2. End(Depth) = Start(Depth) /\ End(Depth) = t
    BY <1>1, <2>1 DEF Layout, After, NCalls, End
  <2>3. Start(Depth) \in 1 .. t /\ stack[Start(Depth)] = FunMarker(ctl[Depth].proc)
    BY <1>1 DEF IInv, MarkerInv
  <2> QED
    BY <1>1, <2>2, <2>3
<1>13. stack' = SubSeq(stack, 1, t - 1)
  <2>1. t \in 1 .. t /\ \A j \in t + 1 .. t : stack[j] # FunMarker(p)
    BY <1>1, <1>12
  <2>2. Below(FunMarker(p)) = SubSeq(stack, 1, t - 1)
    BY <1>1, <1>12, <2>1, BelowIs
  <2> QED
    BY <2>2 DEF Return
<1>14. /\ stack' \in Seq(Entries) /\ Len(stack') = t - 1
       /\ \A j \in 1 .. t - 1 : stack'[j] = stack[j]
  <2>1. stack \in Seq(Entries) /\ t - 1 \in 0 .. t
    BY <1>1, <1>12 DEF IInv, TypeOK
  <2> QED
    BY <1>13, <2>1, CutOff
<1>15. Len(saved) = E /\ saved \in Seq([regi : Values, bp : Int])
  BY <1>1 DEF IInv, ControlInv, TypeOK
<1>16. saved[E] \in [regi : Values, bp : Int] /\ (E > 1 => saved[E - 1] \in [regi : Values, bp : Int])
  <2>1. E \in 1 .. E /\ (E > 1 => E - 1 \in 1 .. E)
    BY <1>1
  <2> QED
    BY <1>15, <2>1, ElementOfSeq
<1>17. saved[E].bp = t - 1
  <2>1. Start(Depth) = saved[Depth - 1].bp + 1
    BY <1>1 DEF Start
  <2>2. saved[E].bp + 1 = t /\ saved[E].bp \in Int
    BY <1>1, <1>12, <1>16, <2>1
  <2> QED
    BY <1>1, <2>2
<1>18. /\ saved' \in Seq([regi : Values, bp : Int]) /\ Len(saved') = E - 1
       /\ \A a \in 1 .. E - 1 : saved'[a] = saved[a]
  <2>1. E - 1 \in 0 .. Len(saved)
    BY <1>1, <1>15
  <2>2. saved' = SubSeq(saved, 1, E - 1)
    BY <1>15 DEF Return, PopAll
  <2> QED
    BY <1>15, <2>1, <2>2, CutOff
<1>19. regi' = saved[E].regi /\ saved[E].regi \in Values
  BY <1>15, <1>16 DEF Return, PopAll
<1>20. bp' \in Int /\ (E > 1 => bp' = saved[E - 1].bp)
  <2>1. IF E = 1 THEN bp' \in Garbage ELSE bp' = saved[E - 1].bp
    BY <1>15 DEF Return, PopAll
  <2>2. CASE E = 1
    <3>1. bp' \in Garbage /\ Garbage \subseteq Int
      BY <2>1, <2>2, LimitsAssumption
    <3>2. ~ (E > 1)
      BY <2>2
    <3>3. bp' \in Int
      BY <3>1
    <3> QED
      BY <3>2, <3>3
  <2>3. CASE E > 1
    BY <1>16, <2>1, <2>3
  <2>4. E = 1 \/ E > 1
    BY <1>1
  <2> QED
    BY <2>2, <2>3, <2>4
<1>21. t \in Nat \ {0}
  BY <1>1, <1>12
<1> HIDE DEF t, p
<1> QED
  BY <1>1, <1>2, <1>3, <1>9, <1>10, <1>11, <1>14, <1>15, <1>17, <1>18, <1>19, <1>20, <1>21
  DEF c, p, t, ReturnStep

(* A return: the activation below has the layout it was left with.         *)
LEMMA ReturnIInv == IInv /\ Return => IInv'
<1> SUFFICES ASSUME IInv, Return, NEW E, E = Depth - 1, NEW t, t = Len(stack),
                    NEW n, n = Len(ctl[E].calls)
             PROVE  IInv'
  OBVIOUS
<1>0. ReturnStep(E, n)
  BY ReturnedFacts
<1> DEFINE b == ctl[E].calls[n]
           c == Returned(b)
<1>1. /\ E \in Nat /\ E >= 1 /\ Running /\ n \in Nat /\ n > 0
      /\ b \in CallRecords /\ b.callee = Top.proc
      /\ t \in Nat \ {0} /\ Depth = E + 1 /\ E \in 1 .. Depth /\ E # Depth
  <2>1. Depth \in Nat
    BY TopFacts
  <2>2. E \in Nat /\ E >= 1 /\ Running /\ n \in Nat /\ n > 0
        /\ b \in CallRecords /\ b.callee = Top.proc
        /\ t \in Nat \ {0}
    BY <1>0 DEF ReturnStep
  <2> QED
    BY <2>1, <2>2
<1>2. /\ c \in CallRecords /\ c.at = b.at /\ c.into = b.into /\ c.callee = b.callee
      /\ c.todo = Refs[Top.proc] /\ c.phase = "back"
  <2>1. c \in CallRecords
    BY <1>0 DEF ReturnStep
  <2> QED
    BY <1>1, <2>1 DEF CallRecords, Returned
<1>3. /\ Depth' = E /\ ctl' \in Seq(ActivationRecords) /\ Len(ctl') = E
      /\ \A a \in 1 .. E - 1 : ctl'[a] = ctl[a]
      /\ ctl'[E].proc = ctl[E].proc /\ Len(ctl'[E].calls) = n
      /\ \A k \in 1 .. n - 1 : ctl'[E].calls[k] = ctl[E].calls[k]
      /\ ctl'[E].calls[n] = c
  <2>1. /\ Depth' = E /\ ctl' \in Seq(ActivationRecords) /\ Len(ctl') = E
        /\ \A a \in 1 .. E - 1 : ctl'[a] = ctl[a]
        /\ ctl'[E].proc = ctl[E].proc
    BY <1>0 DEF ReturnStep
  <2>2. Len(ctl'[E].calls) = n
    BY <1>0 DEF ReturnStep
  <2>3. \A k \in 1 .. n - 1 : ctl'[E].calls[k] = ctl[E].calls[k]
    <3>1. OthersStay(E, n)
      BY <1>0 DEF ReturnStep
    <3> QED
      BY <3>1 DEF OthersStay
  <2>4. ctl'[E].calls[n] = c
    BY <1>0 DEF ReturnStep
  <2> QED
    BY <2>1, <2>2, <2>3, <2>4
<1> HIDE DEF b, c
<1>4. /\ stack' \in Seq(Entries) /\ Len(stack') = t - 1
      /\ \A j \in 1 .. t - 1 : stack'[j] = stack[j]
  BY <1>0 DEF ReturnStep
<1>5. /\ saved[E].bp = t - 1 /\ Len(saved) = E
      /\ saved' \in Seq([regi : Values, bp : Int]) /\ Len(saved') = E - 1
      /\ \A a \in 1 .. E - 1 : saved'[a] = saved[a]
      /\ regi' = saved[E].regi /\ saved[E].regi \in Values
      /\ bp' \in Int /\ (E > 1 => bp' = saved[E - 1].bp)
  BY <1>0 DEF ReturnStep
<1>6. \A a \in 1 .. E : (a = E \/ a \in 1 .. E - 1) /\ a \in 1 .. Depth
  BY <1>1
<1>7. \A a \in 1 .. E : Start(a)' = Start(a) /\ End(a)' = End(a)
  <2>1. \A a \in 1 .. E : a = 1 \/ a - 1 \in 1 .. E - 1
    BY <1>1
  <2>2. \A a \in 1 .. E : Start(a)' = Start(a)
    BY <1>5, <2>1 DEF Start
  <2>3. \A a \in 1 .. E - 1 : End(a)' = End(a)
    <3>1. \A a \in 1 .. E - 1 : a # E /\ a # Depth
      BY <1>1
    <3> QED
      BY <1>3, <1>5, <3>1 DEF End
  <2>4. End(E)' = t - 1 /\ End(E) = t - 1
    BY <1>1, <1>3, <1>4, <1>5 DEF End
  <2>5. \A a \in 1 .. E : End(a)' = End(a)
    BY <1>6, <2>3, <2>4
  <2> QED
    BY <2>2, <2>5
<1>8. TypeOK'
  <2>1. Len(ctl') > 0
    BY <1>1, <1>3
  <2>2. /\ global' \in [Globals -> Values] /\ known' \in BOOLEAN /\ rvi' \in Values
        /\ status' \in {"running", "exited", "failed", "overrun"}
    BY DEF TypeOK, IInv, Return
  <2> QED
    BY <1>3, <1>4, <1>5, <2>1, <2>2 DEF TypeOK
<1>9. SizeInv'
  BY <1>1 DEF SizeInv, Return, Running
<1>10. KnownInv'
  <2>1. NCalls' = n /\ Here' = c /\ known' = FALSE
    BY <1>3 DEF NCalls, Top, Here, Return
  <2> QED
    BY <1>2, <2>1 DEF KnownInv
<1>11. PhaseInv'
  <2> SUFFICES ASSUME NEW a \in 1 .. E, NEW k \in 1 .. Len(ctl'[a].calls)
               PROVE  Phase(ctl'[a].calls[k], k = Len(ctl'[a].calls), a = E)
    BY <1>3 DEF PhaseInv, Phase
  <2>1. CASE a \in 1 .. E - 1
    <3>1. Phase(ctl[a].calls[k], k = Len(ctl[a].calls), a = Depth)
      <4>1. a \in 1 .. Depth /\ k \in 1 .. Len(ctl[a].calls)
        BY <1>3, <1>6, <2>1
      <4> QED
        BY <4>1 DEF IInv, PhaseInv
    <3>2. (a = Depth) = FALSE /\ (a = E) = FALSE
      BY <1>1, <2>1
    <3> QED
      BY <1>3, <2>1, <3>1, <3>2
  <2>2. CASE a = E
    <3>1. k \in 1 .. n /\ (a = E) = TRUE /\ (a = Depth) = FALSE
      BY <1>1, <1>3, <2>2
    <3>2. Phase(ctl[E].calls[k], k = n, FALSE)
      <4>1. Phase(ctl[E].calls[k], k = Len(ctl[E].calls), E = Depth)
        BY <1>1, <3>1 DEF IInv, PhaseInv
      <4>2. (E = Depth) = FALSE
        BY <1>1
      <4> QED
        BY <4>1, <4>2
    <3>3. CASE k = n
      <4>1. Phase(b, TRUE, FALSE)
        BY <3>2, <3>3 DEF b
      <4>2. b.phase = "active" /\ Len(b.into) = Params[b.callee]
        BY <4>1 DEF Phase
      <4>3. Refs[Top.proc] \subseteq 1 .. Params[Top.proc]
        BY TopFacts, ProgramAssumption
      <4>4. Phase(c, TRUE, TRUE)
        BY <1>1, <1>2, <4>2, <4>3 DEF Phase
      <4>5. (k = Len(ctl'[a].calls)) = TRUE
        BY <1>3, <2>2, <3>3
      <4> QED
        BY <1>3, <2>2, <3>1, <3>3, <4>4, <4>5
    <3>4. CASE k \in 1 .. n - 1
      <4>1. (k = n) = FALSE
        BY <1>1, <3>4
      <4>2. Phase(ctl[E].calls[k], FALSE, TRUE)
        <5>1. Phase(ctl[E].calls[k], FALSE, FALSE)
          BY <3>2, <4>1
        <5> QED
          BY <5>1 DEF Phase
      <4>3. ctl'[a].calls[k] = ctl[E].calls[k] /\ (k = Len(ctl'[a].calls)) = FALSE
        BY <1>3, <2>2, <3>4, <4>1
      <4> QED
        BY <3>1, <4>2, <4>3
    <3>5. k = n \/ k \in 1 .. n - 1
      BY <1>1, <3>1
    <3> QED
      BY <3>3, <3>4, <3>5
  <2> QED
    BY <1>6, <2>1, <2>2
<1>12. ControlInv'
  <2>1. /\ Depth <= DeepestRecursion /\ ctl[1].proc = Main
        /\ \A a \in 1 .. Depth - 1 :
             /\ Len(ctl[a].calls) > 0
             /\ ctl[a].calls[Len(ctl[a].calls)].callee = ctl[a + 1].proc
    BY DEF IInv, ControlInv
  <2>2. E <= DeepestRecursion
    BY <1>1, <2>1, LimitsAssumption
  <2>3. \A a \in 1 .. E : ctl'[a].proc = ctl[a].proc
    BY <1>3, <1>6
  <2>4. ctl'[1].proc = Main
    BY <1>1, <2>1, <2>3
  <2>5. ASSUME NEW a \in 1 .. E - 1
        PROVE  /\ Len(ctl'[a].calls) > 0
               /\ ctl'[a].calls[Len(ctl'[a].calls)].callee = ctl'[a + 1].proc
    <3>1. a + 1 \in 1 .. E /\ a \in 1 .. Depth - 1
      BY <1>1
    <3> QED
      BY <1>3, <2>1, <2>3, <3>1
  <2>6. E > 1 => bp' = saved'[E - 1].bp
    <3>1. E > 1 => E - 1 \in 1 .. E - 1
      BY <1>1
    <3> QED
      BY <1>5, <3>1
  <2> QED
    BY <1>3, <1>5, <2>2, <2>4, <2>5, <2>6 DEF ControlInv
<1>13. LayoutInv'
  <2> SUFFICES ASSUME NEW a \in 1 .. E
               PROVE  Layout(ctl'[a], Start(a)', End(a)', stack')
    BY <1>3 DEF LayoutInv, Layout
  <2>1. Layout(ctl[a], Start(a), End(a), stack)
    BY <1>6 DEF IInv, LayoutInv
  <2>2. Len(ctl[a].calls) \in Nat
    BY <1>6, CallFacts
  <2>3. ASSUME NEW k \in 1 .. Len(ctl[a].calls)
        PROVE  /\ stack'[ctl[a].calls[k].at] = stack[ctl[a].calls[k].at]
               /\ \A i \in 1 .. Len(ctl[a].calls[k].into) :
                    stack'[ctl[a].calls[k].at + i] = stack[ctl[a].calls[k].at + i]
    <3> DEFINE x == ctl[a].calls[k].at
               m == Len(ctl[a].calls[k].into)
               s == Start(a)
               e == End(a)
    <3>1. /\ x \in Nat /\ m \in Nat /\ s \in Nat /\ s < x /\ x + m <= e
          /\ e \in Nat
      BY <1>6, Places, CallFacts
    <3>2. e < t
      <4>1. a < Depth /\ Depth \in 1 .. Depth /\ a \in 1 .. Depth
        BY <1>1
      <4>2. e < Start(Depth)
        BY <4>1 DEF IInv, OrderInv
      <4>3. Start(Depth) <= t /\ Start(Depth) \in Nat
        <5>1. Start(Depth) \in Nat /\ Start(Depth) <= End(Depth) /\ End(Depth) <= Len(stack)
              /\ End(Depth) \in Nat
          BY <4>1, Places
        <5> QED
          BY <1>1, <5>1
      <4> QED
        BY <1>1, <3>1, <4>2, <4>3
    <3> HIDE DEF x, m, s, e
    <3>3. x \in 1 .. t - 1 /\ \A i \in 1 .. m : x + i \in 1 .. t - 1
      BY <1>1, <3>1, <3>2
    <3>4. stack'[x] = stack[x] /\ \A i \in 1 .. m : stack'[x + i] = stack[x + i]
      BY <1>4, <3>3
    <3> QED
      BY <3>4 DEF x, m
  <2>4. /\ Len(ctl'[a].calls) = Len(ctl[a].calls)
        /\ \A k \in 1 .. Len(ctl[a].calls) :
             /\ ctl'[a].calls[k].at = ctl[a].calls[k].at
             /\ ctl'[a].calls[k].into = ctl[a].calls[k].into
             /\ ctl'[a].calls[k].callee = ctl[a].calls[k].callee
    <3>1. CASE a = E
      <4>1. \A k \in 1 .. n : k = n \/ k \in 1 .. n - 1
        BY <1>1
      <4>2. n = Len(ctl[a].calls) /\ b = ctl[a].calls[n]
        BY <3>1 DEF b
      <4> QED
        BY <1>2, <1>3, <3>1, <4>1, <4>2
    <3>2. CASE a \in 1 .. E - 1
      BY <1>3, <3>2
    <3> QED
      BY <1>6, <3>1, <3>2
  <2> DEFINE act == ctl[a]
             act2 == ctl'[a]
             start == Start(a)
             end == End(a)
             st2 == stack'
  <2>5. \A k \in 1 .. Len(act.calls) :
          /\ act2.calls[k].at = act.calls[k].at
          /\ act2.calls[k].into = act.calls[k].into
          /\ act2.calls[k].callee = act.calls[k].callee
          /\ SameEntry(stack[act.calls[k].at], st2[act.calls[k].at])
          /\ \A i \in 1 .. Len(act.calls[k].into) :
               SameEntry(stack[act.calls[k].at + i], st2[act.calls[k].at + i])
    BY <2>3, <2>4 DEF SameEntry
  <2>6. Layout(act, start, end, stack) /\ Len(act2.calls) = Len(act.calls)
        /\ Len(act.calls) \in Nat
    BY <2>1, <2>2, <2>4
  <2> HIDE DEF act, act2, start, end, st2
  <2>7. Layout(act2, start, end, st2)
    BY <2>5, <2>6, LayoutSame
  <2>8. Layout(ctl'[a], Start(a), End(a), stack')
    BY <2>7 DEF act2, start, end, st2
  <2> QED
    BY <1>7, <2>8
<1>14. MarkerInv'
  <2> SUFFICES ASSUME NEW a \in 2 .. E
               PROVE  /\ Start(a)' \in 1 .. Len(stack')
                      /\ stack'[Start(a)'] = FunMarker(ctl'[a].proc)
                      /\ Start(a)' <= (a - 1) * (MaxNesting * Most + 2)
    BY <1>3 DEF MarkerInv, FunMarker
  <2>1. a \in 2 .. Depth /\ a \in 1 .. E /\ a \in 1 .. Depth /\ Depth \in 1 .. Depth /\ a < Depth
    BY <1>1
  <2>2. /\ Start(a) \in 1 .. t
        /\ stack[Start(a)] = FunMarker(ctl[a].proc)
        /\ Start(a) <= (a - 1) * (MaxNesting * Most + 2)
    BY <2>1 DEF IInv, MarkerInv
  <2>3. Start(a) \in 1 .. t - 1
    <3>1. Start(a) <= End(a) /\ End(a) < Start(Depth) /\ Start(Depth) <= End(Depth)
          /\ End(Depth) <= t
          /\ Start(Depth) \in Nat /\ End(a) \in Nat /\ End(Depth) \in Nat
      BY <2>1, Places DEF IInv, OrderInv
    <3> QED
      BY <1>1, <2>2, <3>1
  <2>4. ctl'[a].proc = ctl[a].proc
    BY <1>3, <1>6, <2>1
  <2> QED
    BY <1>4, <1>7, <2>1, <2>2, <2>3, <2>4
<1>15. OrderInv'
  <2> SUFFICES ASSUME NEW x \in 1 .. E, NEW y \in 1 .. E, x < y
               PROVE  End(x)' < Start(y)'
    BY <1>3 DEF OrderInv
  <2>1. End(x) < Start(y)
    BY <1>6 DEF IInv, OrderInv
  <2> QED
    BY <1>7, <2>1
<1> QED
  BY <1>8, <1>9, <1>10, <1>11, <1>12, <1>13, <1>14, <1>15 DEF IInv

-----------------------------------------------------------------------------
(* A program starts in the global code with an empty stack.                *)
LEMMA InitIInv == Init => IInv
<1> SUFFICES ASSUME Init
             PROVE  IInv
  OBVIOUS
<1>1. Activation(Main) \in ActivationRecords /\ Activation(Main).proc = Main
      /\ Activation(Main).calls = <<>>
  <2>1. Steps(Main) \in Nat /\ Main \in Procs
    BY LimitsAssumption, ProgramAssumption DEF Steps
  <2>2. <<>> \in Seq(CallRecords)
    BY EmptySeq
  <2> QED
    BY <2>1, <2>2 DEF Activation, ActivationRecords
<1>2. ctl = <<Activation(Main)>> /\ stack = <<>> /\ saved = <<>> /\ bp = 1
  BY DEF Init
<1>3. Depth = 1 /\ Len(stack) = 0 /\ Len(saved) = 0 /\ ctl[1] = Activation(Main)
      /\ ctl \in Seq(ActivationRecords)
  <2> HIDE DEF Activation
  <2> QED
    BY <1>1, <1>2 DEF Depth
<1>4. Len(ctl[1].calls) = 0 /\ Top = ctl[1] /\ NCalls = 0
  BY <1>1, <1>3 DEF NCalls, Top
<1>5. TypeOK
  <2>1. stack \in Seq(Entries) /\ saved \in Seq([regi : Values, bp : Int])
    BY <1>2, EmptySeq
  <2>2. Len(ctl) > 0
    BY <1>3 DEF Depth
  <2>3. /\ bp \in Int /\ global \in [Globals -> Values] /\ regi \in Values
        /\ known \in BOOLEAN /\ rvi \in Values
        /\ status \in {"running", "exited", "failed", "overrun"}
    <3>1. bp = 1 /\ global \in [Globals -> Values] /\ regi \in Values
          /\ known = FALSE /\ rvi \in Values /\ status = "running"
      BY DEF Init
    <3>2. bp \in Int
      BY <3>1
    <3>3. known \in BOOLEAN
      BY <3>1, Zenon
    <3> QED
      BY <3>1, <3>2, <3>3
  <2> QED
    BY <1>3, <2>1, <2>2, <2>3 DEF TypeOK
<1>6. PhaseInv /\ KnownInv
  BY <1>3, <1>4 DEF PhaseInv, KnownInv
<1>7. ControlInv
  <2>1. 1 <= DeepestRecursion
    BY LimitsAssumption
  <2> QED
    BY <1>1, <1>3, <2>1 DEF ControlInv
<1>8. Start(1) = 0 /\ End(1) = 0
  BY <1>3 DEF Start, End
<1>9. LayoutInv
  <2>1. Layout(ctl[1], 0, 0, stack)
    <3>1. 0 <= MaxNesting
      BY LimitsAssumption
    <3>2. 1 .. 0 = {} /\ \A k, l \in 0 .. 0 : ~ (k < l)
      OBVIOUS
    <3> QED
      BY <1>4, <3>1, <3>2 DEF Layout, After
  <2>2. \A a \in 1 .. Depth : a = 1
    BY <1>3
  <2> QED
    BY <1>8, <2>1, <2>2 DEF LayoutInv
<1>10. MarkerInv /\ OrderInv
  <2>1. \A a \in 1 .. Depth : a = 1
    BY <1>3
  <2>2. 2 .. Depth = {}
    BY <1>3
  <2> QED
    BY <2>1, <2>2 DEF MarkerInv, OrderInv
<1>11. SizeInv
  BY DEF SizeInv, Init
<1> QED
  BY <1>5, <1>6, <1>7, <1>9, <1>10, <1>11 DEF IInv

(* A step that changes nothing.                                            *)
LEMMA StutterIInv == IInv /\ UNCHANGED vars => IInv'
<1> SUFFICES ASSUME IInv, UNCHANGED vars
             PROVE  IInv'
  OBVIOUS
<1>1. UNCHANGED <<stack, bp, saved, ctl, global, regi, known, rvi, status>>
  BY DEF vars
<1>2. UNCHANGED Depth /\ UNCHANGED NCalls /\ UNCHANGED Here
  BY <1>1 DEF Depth, NCalls, Here, Top
<1>3. \A a : Start(a)' = Start(a) /\ End(a)' = End(a)
  BY <1>1, <1>2 DEF Start, End
<1>4. TypeOK'
  BY <1>1 DEF IInv, TypeOK
<1>5. PhaseInv' /\ ControlInv'
  <2>1. PhaseInv'
    <3> SUFFICES ASSUME NEW a \in 1 .. Depth, NEW k \in 1 .. Len(ctl'[a].calls)
                 PROVE  Phase(ctl'[a].calls[k], k = Len(ctl'[a].calls), a = Depth)
      BY <1>2 DEF PhaseInv, Phase
    <3> QED
      BY <1>1 DEF IInv, PhaseInv
  <2>2. ControlInv'
    BY <1>1, <1>2 DEF IInv, ControlInv
  <2> QED
    BY <2>1, <2>2
<1>6. KnownInv' /\ SizeInv'
  BY <1>1, <1>2 DEF IInv, KnownInv, SizeInv
<1>7. LayoutInv'
  <2> SUFFICES ASSUME NEW a \in 1 .. Depth
               PROVE  Layout(ctl'[a], Start(a)', End(a)', stack')
    BY <1>2 DEF LayoutInv, Layout
  <2>1. Layout(ctl[a], Start(a), End(a), stack)
    BY DEF IInv, LayoutInv
  <2> QED
    BY <1>1, <1>3, <2>1
<1>8. MarkerInv' /\ OrderInv'
  BY <1>1, <1>2, <1>3 DEF IInv, MarkerInv, OrderInv, FunMarker
<1> QED
  BY <1>4, <1>5, <1>6, <1>7, <1>8 DEF IInv

(* The invariant is inductive.                                             *)
LEMMA NextIInv == IInv /\ [Next]_vars => IInv'
<1> SUFFICES ASSUME IInv, [Next]_vars
             PROVE  IInv'
  OBVIOUS
<1>1. CASE Load
  BY <1>1, LoadIInv
<1>2. CASE \E g \in Globals : AssignGlobal(g)
  BY <1>2, AssignGlobalIInv
<1>3. CASE \E p \in Procs : \E i \in Assigns[p] : AssignParam(i)
  BY <1>3, AssignParamIInv
<1>4. CASE \E q \in Procs : Begin(q)
  BY <1>4, BeginIInv
<1>5. CASE PushValue
  BY <1>5, PushValueIInv
<1>6. CASE \E g \in Globals : PushVariable(g)
  BY <1>6, PushVariableIInv
<1>7. CASE Call
  BY <1>7, CallIInv
<1>8. CASE CallTooDeep \/ ExitProgram
  BY <1>8, StopIInv
<1>9. CASE Return
  BY <1>9, ReturnIInv
<1>10. CASE TakeResult
  BY <1>10, TakeResultIInv
<1>11. CASE \E i \in UNION {Refs[p] : p \in Procs} : FetchRef(i)
  BY <1>11, FetchRefIInv
<1>12. CASE CloseCall
  BY <1>12, CloseCallIInv
<1>13. CASE UNCHANGED vars
  BY <1>13, StutterIInv
<1> QED
  BY <1>1, <1>2, <1>3, <1>4, <1>5, <1>6, <1>7, <1>8, <1>9, <1>10, <1>11, <1>12, <1>13 DEF Next

(* Whatever a program does, the calls it is in lie one behind the other on *)
(* the stack, each with its marker and the arguments it has so far.        *)
THEOREM Invariance == Spec => []IInv
<1>1. Init => IInv
  BY InitIInv
<1>2. IInv /\ [Next]_vars => IInv'
  BY NextIInv
<1> QED
  BY <1>1, <1>2, PTL DEF Spec

(* The entries of the activation that runs end where the stack does.       *)
LEMMA StackBound == IInv => Len(stack) \in Nat /\ Len(stack) <= Needed
<1> SUFFICES ASSUME IInv
             PROVE  Len(stack) \in Nat /\ Len(stack) <= Needed
  OBVIOUS
<1> DEFINE m == MaxNesting * Most
           D == Depth
           R == DeepestRecursion
           t == Len(stack)
           s == Start(Depth)
<1>1. /\ D \in Nat /\ D >= 1 /\ t \in Nat /\ D <= R /\ R \in Nat
  BY TopFacts, LimitsAssumption DEF IInv, ControlInv
<1>2. m \in Nat
  BY MostFacts, LimitsAssumption, NextTimes
<1>3. s \in Nat /\ t <= s + m + 1
  <2>1. D \in 1 .. D /\ End(D) = t
    BY <1>1 DEF End
  <2> QED
    BY <2>1, Places, EndBound
<1>4. s <= (D - 1) * (m + 2)
  <2>1. CASE D = 1
    <3>1. s = 0 /\ D - 1 = 0
      BY <2>1 DEF Start
    <3>2. 0 * (m + 2) = 0
      BY <1>2
    <3> QED
      BY <3>1, <3>2
  <2>2. CASE D \in 2 .. D
    BY <2>2 DEF IInv, MarkerInv
  <2>3. D = 1 \/ D \in 2 .. D
    BY <1>1
  <2> QED
    BY <2>1, <2>2, <2>3
<1>5. Needed = (R - 1) * ((m + 1) + 1) + (m + 1)
  BY DEF Needed
<1> HIDE DEF m, D, R, t, s
<1>6. \A i, j, q \in Nat : i <= j => i * q <= j * q /\ i * q \in Nat /\ j * q \in Nat
  OBVIOUS
<1>7. D - 1 \in Nat /\ R - 1 \in Nat /\ D - 1 <= R - 1 /\ m + 2 \in Nat /\ (m + 1) + 1 = m + 2
  BY <1>1, <1>2
<1>8. /\ (D - 1) * (m + 2) <= (R - 1) * (m + 2)
      /\ (D - 1) * (m + 2) \in Nat /\ (R - 1) * (m + 2) \in Nat
  BY <1>6, <1>7
<1>9. t <= (R - 1) * (m + 2) + (m + 1)
  BY <1>1, <1>2, <1>3, <1>4, <1>8
<1> QED
  BY <1>1, <1>5, <1>7, <1>9 DEF t

(* A stack of Needed entries is enough for every program: the limit of     *)
(* recursion stops it before a push is out of the stack.                   *)
THEOREM StackIsEnough == Spec => []NoOverrun
<1>1. IInv => NoOverrun
  <2> SUFFICES ASSUME IInv, StackSize >= Needed, status = "overrun"
               PROVE  FALSE
    BY DEF NoOverrun
  <2>1. Len(stack) \in Nat /\ Len(stack) <= Needed /\ Len(stack) > StackSize
    BY StackBound DEF IInv, SizeInv
  <2>2. StackSize \in Nat
    BY LimitsAssumption
  <2>3. Needed \in Int
    <3>1. MaxNesting * Most + 1 \in Int
      BY MostFacts, LimitsAssumption, NextTimes
    <3>2. \A i, j \in Int : i * j \in Int
      OBVIOUS
    <3> DEFINE c == MaxNesting * Most + 1
    <3>3. Needed = (DeepestRecursion - 1) * (c + 1) + c
      BY DEF Needed
    <3> HIDE DEF c
    <3>4. c \in Int /\ DeepestRecursion - 1 \in Int
      BY <3>1, LimitsAssumption DEF c
    <3>5. (DeepestRecursion - 1) * (c + 1) \in Int
      BY <3>2, <3>4
    <3> QED
      BY <3>3, <3>4, <3>5
  <2> QED
    BY <2>1, <2>2, <2>3
<1> QED
  BY Invariance, <1>1, PTL

-----------------------------------------------------------------------------
(* The refinement: the abstract activations as functions of the calls and  *)
(* the stack.                                                              *)
CallIn(c, st) ==
  [callee |-> c.callee,
   args   |-> IF c.phase = "active" THEN <<>>
              ELSE [i \in 1 .. Len(c.into) |-> st[c.at + i].of],
   into   |-> c.into,
   phase  |-> IF c.phase = "refs" THEN "back" ELSE c.phase,
   todo   |-> c.todo]

ParamsIn(p, base, st) == [i \in 1 .. Params[p] |-> st[Slot(p, base, i)].of]

CallsIn(calls, st) == [k \in 1 .. Len(calls) |-> CallIn(calls[k], st)]

ActIn(act, base, st) ==
  [proc   |-> act.proc,
   params |-> ParamsIn(act.proc, base, st),
   calls  |-> CallsIn(act.calls, st)]

(* The refinement mapping in these terms, before and after a step.         *)
LEMMA ActivationsAre ==
  /\ Activations = [a \in 1 .. Depth |-> ActIn(ctl[a], Base(a), stack)]
  /\ Activations' = [a \in 1 .. Depth' |-> ActIn(ctl'[a], Base(a)', stack')]
<1>1. Activations = [a \in 1 .. Depth |-> ActIn(ctl[a], Base(a), stack)]
  BY DEF Activations, ActIn, CallsIn, CallIn, CallOf, ParamsIn, ParamsOf
<1>2. Activations' = [a \in 1 .. Depth' |-> ActIn(ctl'[a], Base(a)', stack')]
  BY DEF Activations, ActIn, CallsIn, CallIn, CallOf, ParamsIn, ParamsOf, Slot
<1> QED
  BY <1>1, <1>2

(* What is listed over 1 .. n has length n.                                *)
LEMMA Lists ==
  \A n \in Nat : \A s : Listed(s, n) => Len(s) = n
BY IsSequence

(* The abstract state of a program that runs.                              *)
LEMMA AbstractNow ==
  ASSUME IInv
  PROVE  /\ Listed(Activations, Depth) /\ Len(Activations) = Depth
         /\ Abstract!Depth = Depth /\ Abstract!Now = ActIn(Top, bp, stack)
         /\ Abstract!Calls = CallsIn(Top.calls, stack)
         /\ Listed(Abstract!Calls, NCalls) /\ Len(Abstract!Calls) = NCalls
         /\ Abstract!Calls = <<>> <=> NCalls = 0
         /\ NCalls > 0 => Abstract!Call = CallIn(Here, stack)
<1>1. Depth \in Nat /\ Depth >= 1 /\ NCalls \in Nat /\ Top = ctl[Depth] /\ NCalls = Len(Top.calls)
      /\ Here = Top.calls[NCalls] /\ Depth \in 1 .. Depth
  BY TopFacts DEF Top, NCalls, Here
<1>2. Listed(Activations, Depth)
  BY ActivationsAre DEF Listed
<1>3. Len(Activations) = Depth
  BY <1>1, <1>2, Lists
<1>4. Abstract!Depth = Depth
  BY <1>3 DEF Abstract!Depth
<1>5. Abstract!Now = Activations[Depth]
  BY <1>4 DEF Abstract!Now
<1>6. Activations[Depth] = ActIn(Top, bp, stack)
  <2>1. Base(Depth) = bp
    BY DEF Base
  <2> QED
    BY <1>1, <2>1, ActivationsAre
<1>7. Abstract!Calls = CallsIn(Top.calls, stack)
  BY <1>5, <1>6 DEF Abstract!Calls, ActIn
<1>8. Listed(Abstract!Calls, NCalls)
  BY <1>1, <1>7 DEF Listed, CallsIn
<1>9. Len(Abstract!Calls) = NCalls
  BY <1>1, <1>8, Lists
<1>10. Abstract!Calls = <<>> <=> NCalls = 0
  <2>1. Abstract!Calls \in Seq({Abstract!Calls[i] : i \in 1 .. NCalls})
    BY <1>1, <1>8, IsSequence
  <2> QED
    BY <1>1, <1>9, <2>1, EmptySeq
<1>11. NCalls > 0 => Abstract!Call = CallIn(Here, stack)
  <2> SUFFICES ASSUME NCalls > 0
               PROVE  Abstract!Call = CallIn(Here, stack)
    OBVIOUS
  <2>1. Abstract!Call = Abstract!Calls[NCalls]
    BY <1>9 DEF Abstract!Call, Abstract!Last
  <2>2. CallsIn(Top.calls, stack)[NCalls] = CallIn(Top.calls[NCalls], stack)
    BY <1>1 DEF CallsIn
  <2> QED
    BY <1>1, <1>7, <2>1, <2>2
<1> QED
  BY <1>2, <1>3, <1>4, <1>5, <1>6, <1>7, <1>8, <1>9, <1>10, <1>11

(* What a call shows depends on its arguments.                             *)
LEMMA CallInSame ==
  ASSUME NEW c, NEW st, NEW st2,
         c.phase # "active" => \A i \in 1 .. Len(c.into) : st2[c.at + i] = st[c.at + i]
  PROVE  CallIn(c, st2) = CallIn(c, st)
<1>1. CASE c.phase = "active"
  BY <1>1 DEF CallIn
<1>2. CASE c.phase # "active"
  <2>1. [i \in 1 .. Len(c.into) |-> st2[c.at + i].of] = [i \in 1 .. Len(c.into) |-> st[c.at + i].of]
    BY <1>2
  <2> QED
    BY <1>2, <2>1 DEF CallIn
<1> QED
  BY <1>1, <1>2

(* Where the base of an activation is, and what is read below it.          *)
LEMMA BaseFacts ==
  ASSUME IInv, NEW a \in 2 .. Depth
  PROVE  /\ Base(a) \in Nat /\ Base(a) + 1 = Start(a) /\ Base(a) = End(a - 1)
         /\ ctl[a].proc \in Procs
         /\ \A i \in 1 .. Params[ctl[a].proc] : Slot(ctl[a].proc, Base(a), i) \in 1 .. Base(a)
<1> DEFINE n == Len(ctl[a - 1].calls)
           c == ctl[a - 1].calls[n]
           p == ctl[a].proc
<1>1. /\ p \in Procs /\ Params[p] \in Nat /\ c.at \in Nat
      /\ Base(a) = c.at + Params[p] /\ Base(a) = End(a - 1) /\ Base(a) + 1 = Start(a)
      /\ \A i \in 1 .. Params[p] : Slot(p, Base(a), i) = c.at + i /\ c.at + i \in 1 .. Base(a)
  BY ParamFacts
<1> HIDE DEF n, c, p
<1>2. Base(a) \in Nat
  BY <1>1
<1>3. \A i \in 1 .. Params[p] : Slot(p, Base(a), i) \in 1 .. Base(a)
  BY <1>1
<1> QED
  BY <1>1, <1>2, <1>3 DEF p

(* The parameters of the running activation are below its base.            *)
LEMMA TopParamsStay ==
  ASSUME IInv, Depth > 1 => \A j \in 1 .. bp : stack'[j] = stack[j]
  PROVE  ParamsIn(Top.proc, bp, stack') = ParamsIn(Top.proc, bp, stack)
<1>1. ASSUME NEW i \in 1 .. Params[Top.proc]
      PROVE  stack'[Slot(Top.proc, bp, i)] = stack[Slot(Top.proc, bp, i)]
  <2>1. Depth > 1 /\ Slot(Top.proc, bp, i) \in 1 .. bp
    BY TopParams
  <2> QED
    BY <2>1
<1> QED
  BY <1>1 DEF ParamsIn

(* The activations that wait read nothing at or above the last argument of *)
(* the running one.                                                        *)
LEMMA WaitingStay ==
  ASSUME IInv, NEW a \in 1 .. Depth - 1, \A j \in 1 .. bp - 1 : stack'[j] = stack[j]
  PROVE  ActIn(ctl[a], Base(a), stack') = ActIn(ctl[a], Base(a), stack)
<1> DEFINE n == Len(ctl[a].calls)
           p == ctl[a].proc
<1>1. /\ Depth \in Nat /\ a \in 1 .. Depth /\ Depth \in 2 .. Depth /\ a # Depth
      /\ a + 1 \in 2 .. Depth /\ a < Depth
  BY TopFacts
<1>2. End(a) \in Nat /\ End(a) <= bp /\ bp \in Nat
  <2>1. bp = Base(Depth)
    BY DEF Base
  <2>2. bp \in Nat /\ bp + 1 = Start(Depth)
    BY <1>1, <2>1, BaseFacts
  <2>3. End(a) < Start(Depth) /\ End(a) \in Nat
    BY <1>1, Places DEF IInv, OrderInv
  <2> QED
    BY <2>2, <2>3
<1>3. Start(a) \in Nat /\ Start(a) <= End(a)
  BY <1>1, Places
<1>4. ASSUME NEW i \in 1 .. Params[p]
      PROVE  stack'[Slot(p, Base(a), i)] = stack[Slot(p, Base(a), i)]
  <2>1. a \in 2 .. Depth
    <3>1. a = 1 => p = Main
      BY DEF IInv, ControlInv
    <3>2. Params[Main] = 0
      BY ProgramAssumption
    <3>3. a # 1
      BY <3>1, <3>2
    <3> QED
      BY <1>1, <3>3
  <2>2. /\ Base(a) \in Nat /\ Base(a) + 1 = Start(a) /\ Slot(p, Base(a), i) \in 1 .. Base(a)
    BY <2>1, BaseFacts
  <2>3. Slot(p, Base(a), i) \in 1 .. bp - 1
    BY <1>2, <1>3, <2>2
  <2> QED
    BY <2>3
<1>5. ParamsIn(p, Base(a), stack') = ParamsIn(p, Base(a), stack)
  <2> HIDE DEF p
  <2> QED
    BY <1>4 DEF ParamsIn
<1>6. ASSUME NEW k \in 1 .. n
      PROVE  CallIn(ctl[a].calls[k], stack') = CallIn(ctl[a].calls[k], stack)
  <2> DEFINE x == ctl[a].calls[k].at
             m == Len(ctl[a].calls[k].into)
             y == ctl[a].calls[n].at
  <2>1. n \in Nat /\ n \in 1 .. n /\ x \in Nat /\ m \in Nat /\ y \in Nat
    <3>1. n \in Nat
      BY <1>1, CallFacts
    <3>2. n \in 1 .. n
      BY <3>1
    <3> HIDE DEF n
    <3> QED
      BY <1>1, <3>1, <3>2, CallFacts DEF n
  <2>2. Phase(ctl[a].calls[k], k = n, a = Depth)
    BY <1>1 DEF IInv, PhaseInv
  <2>3. CASE k = n
    <3>1. ctl[a].calls[k].phase = "active"
      BY <1>1, <2>2, <2>3 DEF Phase
    <3> QED
      BY <3>1, CallInSame
  <2>4. CASE k # n
    <3>1. k < n
      BY <2>1, <2>4
    <3>2. x + m < y /\ y + Len(ctl[a].calls[n].into) <= End(a) /\ x > Start(a)
      BY <1>1, <2>1, <3>1, Places
    <3>3. Len(ctl[a].calls[n].into) \in Nat
      BY <1>1, <2>1, CallFacts
    <3> DEFINE l == Len(ctl[a].calls[n].into)
               e == End(a)
    <3>a. x \in Nat /\ m \in Nat /\ y \in Nat /\ l \in Nat /\ e \in Nat
          /\ x + m < y /\ y + l <= e /\ e <= bp /\ bp \in Nat
      BY <1>2, <2>1, <3>2, <3>3
    <3> HIDE DEF x, m, y, l, e
    <3>4. x + m <= bp - 1 /\ x \in Nat /\ x > 0
      <4>1. Start(a) \in Nat /\ x > Start(a)
        BY <1>3, <3>2
      <4> QED
        BY <3>a, <4>1
    <3>5. \A i \in 1 .. m : x + i \in 1 .. bp - 1
      BY <1>2, <2>1, <3>4
    <3>6. \A i \in 1 .. m : stack'[x + i] = stack[x + i]
      BY <3>5
    <3> QED
      BY <3>6, CallInSame DEF x, m
  <2> QED
    BY <2>3, <2>4
<1>7. CallsIn(ctl[a].calls, stack') = CallsIn(ctl[a].calls, stack)
  BY <1>6 DEF CallsIn
<1> QED
  BY <1>5, <1>7 DEF ActIn

-----------------------------------------------------------------------------
(* The running activation, or its innermost call, replaced.                *)
LEMMA WithNowIs ==
  ASSUME IInv, NEW acts2, Listed(acts2, Depth),
         \A a \in 1 .. Depth - 1 : acts2[a] = Activations[a]
  PROVE  acts2 = Abstract!WithNow(acts2[Depth])
<1>1. Listed(Activations, Depth) /\ Len(Activations) = Depth /\ Depth \in Nat \ {0}
  BY AbstractNow, TopFacts
<1>2. acts2 = Append(SubSeq(Activations, 1, Depth - 1), acts2[Depth])
  BY <1>1, ReplaceLast
<1> QED
  BY <1>1, <1>2 DEF Abstract!WithNow, Abstract!Front

(* The abstract calls of the running activation with another last one.     *)
LEMMA CallsAre ==
  ASSUME IInv, NCalls > 0, NEW calls2, Listed(calls2, NCalls),
         \A k \in 1 .. NCalls - 1 : calls2[k] = Abstract!Calls[k]
  PROVE  calls2 = Append(Abstract!Front(Abstract!Calls), calls2[NCalls])
<1>1. Listed(Abstract!Calls, NCalls) /\ Len(Abstract!Calls) = NCalls /\ NCalls \in Nat \ {0}
  BY AbstractNow, TopFacts
<1>2. calls2 = Append(SubSeq(Abstract!Calls, 1, NCalls - 1), calls2[NCalls])
  BY <1>1, ReplaceLast
<1> QED
  BY <1>1, <1>2 DEF Abstract!Front

(* Steps of the running activation.                                        *)
Local ==
  /\ Depth' = Depth /\ saved' = saved /\ bp' = bp
  /\ \A a \in 1 .. Depth - 1 : ctl'[a] = ctl[a]
  /\ Depth > 1 => \A j \in 1 .. bp - 1 : stack'[j] = stack[j]

(* A step of the running activation is a step of the abstract one.         *)
LEMMA LocalStep ==
  ASSUME IInv, Local
  PROVE  /\ Activations' = Abstract!WithNow(ActIn(ctl'[Depth], bp, stack'))
         /\ ActIn(ctl'[Depth], bp, stack') = ActIn(Top, bp, stack) => Activations' = Activations
<1>1. Depth \in Nat /\ Depth >= 1 /\ Depth \in 1 .. Depth /\ Depth' = Depth /\ Top = ctl[Depth]
  BY TopFacts DEF Local, Top
<1>2. /\ Activations = [a \in 1 .. Depth |-> ActIn(ctl[a], Base(a), stack)]
      /\ Activations' = [a \in 1 .. Depth |-> ActIn(ctl'[a], Base(a)', stack')]
  BY <1>1, ActivationsAre
<1>3. \A a \in 1 .. Depth : Base(a)' = Base(a)
  BY DEF Local, Base
<1>4. ASSUME NEW a \in 1 .. Depth - 1
      PROVE  Activations'[a] = Activations[a]
  <2>1. a \in 1 .. Depth /\ Depth > 1
    BY <1>1
  <2>2. ctl'[a] = ctl[a] /\ Base(a)' = Base(a)
    BY <1>3, <2>1 DEF Local
  <2>3. ActIn(ctl[a], Base(a), stack') = ActIn(ctl[a], Base(a), stack)
    BY <2>1, WaitingStay DEF Local
  <2> QED
    BY <1>2, <2>1, <2>2, <2>3
<1>5. Activations'[Depth] = ActIn(ctl'[Depth], bp, stack') /\ Activations[Depth] = ActIn(Top, bp, stack)
  <2>1. Base(Depth) = bp /\ Base(Depth)' = bp
    BY <1>1, <1>3 DEF Base
  <2> QED
    BY <1>1, <1>2, <1>3, <2>1
<1>6. Listed(Activations', Depth) /\ Listed(Activations, Depth)
  BY <1>2 DEF Listed
<1>7. Activations' = Abstract!WithNow(ActIn(ctl'[Depth], bp, stack'))
  <2> DEFINE acts2 == Activations'
  <2>1. Listed(acts2, Depth) /\ \A a \in 1 .. Depth - 1 : acts2[a] = Activations[a]
    BY <1>4, <1>6
  <2> HIDE DEF acts2
  <2>2. acts2 = Abstract!WithNow(acts2[Depth])
    BY <2>1, WithNowIs
  <2> QED
    BY <1>5, <2>2 DEF acts2
<1>8. ASSUME ActIn(ctl'[Depth], bp, stack') = ActIn(Top, bp, stack)
      PROVE  Activations' = Activations
  <2> DEFINE acts2 == Activations'
  <2>1. \A a \in 1 .. Depth : acts2[a] = Activations[a]
    <3>1. \A a \in 1 .. Depth : a = Depth \/ a \in 1 .. Depth - 1
      BY <1>1
    <3> QED
      BY <1>4, <1>5, <1>8, <3>1
  <2>2. Listed(acts2, Depth)
    BY <1>6
  <2> HIDE DEF acts2
  <2>3. acts2 = Activations
    BY <1>1, <1>6, <2>1, <2>2, SameFunction
  <2> QED
    BY <2>3 DEF acts2
<1> QED
  BY <1>7, <1>8

(* Steps of the innermost call: the others stay.                           *)
Inner ==
  /\ NCalls > 0 /\ Depth' = Depth /\ saved' = saved /\ bp' = bp
  /\ \A a \in 1 .. Depth - 1 : ctl'[a] = ctl[a]
  /\ ctl'[Depth].proc = Top.proc /\ Len(ctl'[Depth].calls) = NCalls
  /\ \A k \in 1 .. NCalls - 1 : ctl'[Depth].calls[k] = Top.calls[k]
  /\ \A j \in 1 .. Here.at - 1 : stack'[j] = stack[j]

(* What is below the innermost call, of this activation and the others.    *)
LEMMA BelowHere ==
  ASSUME IInv, NCalls > 0, \A j \in 1 .. Here.at - 1 : stack'[j] = stack[j]
  PROVE  /\ Depth > 1 => \A j \in 1 .. bp : stack'[j] = stack[j]
         /\ Depth > 1 => \A j \in 1 .. bp - 1 : stack'[j] = stack[j]
         /\ ParamsIn(Top.proc, bp, stack') = ParamsIn(Top.proc, bp, stack)
         /\ \A k \in 1 .. NCalls - 1 : CallIn(Top.calls[k], stack') = CallIn(Top.calls[k], stack)
<1>1. /\ Depth \in Nat /\ Depth >= 1 /\ NCalls \in Nat /\ Top = ctl[Depth]
      /\ NCalls = Len(Top.calls) /\ Here = Top.calls[NCalls] /\ Depth \in 1 .. Depth
      /\ NCalls \in 1 .. NCalls
  BY TopFacts DEF Top, NCalls, Here
<1>2. Depth > 1 => bp \in Nat /\ bp < Here.at
  <2> SUFFICES ASSUME Depth > 1
               PROVE  bp \in Nat /\ bp < Here.at
    OBVIOUS
  <2>1. bp = Base(Depth) /\ Depth \in 2 .. Depth
    BY <1>1 DEF Base
  <2>2. bp \in Nat /\ bp + 1 = Start(Depth)
    BY <2>1, BaseFacts
  <2>3. Start(Depth) < Here.at /\ Here.at \in Nat
    BY HereArgs, HereFacts
  <2> QED
    BY <2>2, <2>3
<1>3. Here.at \in Nat
  BY HereFacts
<1>4. Depth > 1 => \A j \in 1 .. bp : stack'[j] = stack[j]
  BY <1>2, <1>3
<1>5. Depth > 1 => \A j \in 1 .. bp - 1 : stack'[j] = stack[j]
  BY <1>2, <1>4
<1>6. ASSUME NEW k \in 1 .. NCalls - 1
      PROVE  CallIn(Top.calls[k], stack') = CallIn(Top.calls[k], stack)
  <2> DEFINE x == Top.calls[k].at
             m == Len(Top.calls[k].into)
             y == Here.at
  <2>1. k \in 1 .. Len(ctl[Depth].calls) /\ k < NCalls
    BY <1>1
  <2>2. x \in Nat /\ m \in Nat /\ x + m < y /\ y \in Nat
    BY <1>1, <1>3, <2>1, CallFacts, Places
  <2> HIDE DEF x, m, y
  <2>3. \A i \in 1 .. m : x + i \in 1 .. y - 1
    BY <2>2
  <2>4. \A i \in 1 .. m : stack'[x + i] = stack[x + i]
    BY <2>3 DEF y
  <2> QED
    BY <2>4, CallInSame DEF x, m
<1>7. ParamsIn(Top.proc, bp, stack') = ParamsIn(Top.proc, bp, stack)
  BY <1>4, TopParamsStay
<1> QED
  BY <1>4, <1>5, <1>6, <1>7

(* A step of the innermost call is a step of the abstract call.            *)
LEMMA InnerStep ==
  ASSUME IInv, Inner
  PROVE  /\ Activations' = Abstract!WithCall(CallIn(ctl'[Depth].calls[NCalls], stack'))
         /\ CallIn(ctl'[Depth].calls[NCalls], stack') = CallIn(Here, stack) =>
              Activations' = Activations
<1> DEFINE act2 == ctl'[Depth]
           calls2 == CallsIn(act2.calls, stack')
           c2 == CallIn(act2.calls[NCalls], stack')
<1>1. /\ NCalls > 0 /\ NCalls \in Nat /\ NCalls \in 1 .. NCalls /\ NCalls = Len(Top.calls)
      /\ Here = Top.calls[NCalls]
  BY TopFacts DEF Inner, NCalls, Here
<1>2. /\ Depth > 1 => \A j \in 1 .. bp - 1 : stack'[j] = stack[j]
      /\ ParamsIn(Top.proc, bp, stack') = ParamsIn(Top.proc, bp, stack)
      /\ \A k \in 1 .. NCalls - 1 : CallIn(Top.calls[k], stack') = CallIn(Top.calls[k], stack)
  BY BelowHere DEF Inner
<1>3. Local
  BY <1>2 DEF Local, Inner
<1>4. act2.proc = Top.proc /\ Len(act2.calls) = NCalls
      /\ \A k \in 1 .. NCalls - 1 : act2.calls[k] = Top.calls[k]
  BY DEF Inner
<1>5. Listed(calls2, NCalls) /\ calls2[NCalls] = c2
  <2> HIDE DEF act2
  <2> QED
    BY <1>1, <1>4 DEF Listed, CallsIn
<1>6. /\ Abstract!Calls = CallsIn(Top.calls, stack) /\ Listed(Abstract!Calls, NCalls)
      /\ Abstract!Now = ActIn(Top, bp, stack) /\ Abstract!Call = CallIn(Here, stack)
  BY <1>1, AbstractNow
<1>7. \A k \in 1 .. NCalls - 1 : calls2[k] = Abstract!Calls[k]
  <2> HIDE DEF act2
  <2> TAKE k \in 1 .. NCalls - 1
  <2>1. k \in 1 .. NCalls
    BY <1>1
  <2>2. calls2[k] = CallIn(act2.calls[k], stack')
    BY <1>4, <2>1 DEF CallsIn
  <2>3. Abstract!Calls[k] = CallIn(Top.calls[k], stack)
    BY <1>1, <1>6, <2>1 DEF CallsIn
  <2> QED
    BY <1>2, <1>4, <2>2, <2>3
<1>8. ActIn(act2, bp, stack') =
        [proc |-> Top.proc, params |-> ParamsIn(Top.proc, bp, stack), calls |-> calls2]
  <2> HIDE DEF act2
  <2> QED
    BY <1>2, <1>4 DEF ActIn
<1> HIDE DEF calls2, act2, c2
<1>9. calls2 = Append(Abstract!Front(Abstract!Calls), c2)
  BY <1>1, <1>5, <1>7, CallsAre
<1>10. ActIn(act2, bp, stack') = [Abstract!Now EXCEPT !.calls = Append(Abstract!Front(@), c2)]
  <2>1. Abstract!Now = [proc |-> Top.proc, params |-> ParamsIn(Top.proc, bp, stack),
                        calls |-> Abstract!Calls]
    BY <1>6 DEF ActIn
  <2>2. [Abstract!Now EXCEPT !.calls = Append(Abstract!Front(Abstract!Now.calls), c2)] =
          [proc |-> Top.proc, params |-> ParamsIn(Top.proc, bp, stack),
           calls |-> Append(Abstract!Front(Abstract!Now.calls), c2)]
    <3> DEFINE now == Abstract!Now
               par == ParamsIn(Top.proc, bp, stack)
               proc == Top.proc
               old == Abstract!Calls
               new == Append(Abstract!Front(Abstract!Now.calls), c2)
    <3>1. now = [proc |-> proc, params |-> par, calls |-> old]
      BY <2>1
    <3> HIDE DEF now, par, proc, old, new
    <3>2. [now EXCEPT !.calls = new] = [proc |-> proc, params |-> par, calls |-> new]
      BY ONLY <3>1
    <3> QED
      BY <3>2 DEF now, par, proc, new
  <2>3. Abstract!Now.calls = Abstract!Calls
    BY DEF Abstract!Calls
  <2>4. [Abstract!Now EXCEPT !.calls = Append(Abstract!Front(Abstract!Now.calls), c2)] =
          ActIn(act2, bp, stack')
    BY <1>8, <1>9, <2>2, <2>3
  <2> QED
    BY <2>4
<1>11. Activations' = Abstract!WithNow(ActIn(act2, bp, stack'))
  BY <1>3, LocalStep DEF act2
<1>12. Activations' = Abstract!WithCall(c2)
  BY <1>10, <1>11 DEF Abstract!WithNow, Abstract!WithCall
<1>13. ASSUME c2 = CallIn(Here, stack)
       PROVE  Activations' = Activations
  <2>1. \A k \in 1 .. NCalls : k = NCalls \/ k \in 1 .. NCalls - 1
    BY <1>1
  <2>2. Abstract!Calls[NCalls] = CallIn(Here, stack)
    BY <1>1, <1>6 DEF CallsIn
  <2>3. \A k \in 1 .. NCalls : calls2[k] = Abstract!Calls[k]
    BY <1>5, <1>7, <1>13, <2>1, <2>2
  <2>4. calls2 = Abstract!Calls
    BY <1>1, <1>5, <1>6, <2>3, SameFunction
  <2>5. ActIn(act2, bp, stack') = ActIn(Top, bp, stack)
    BY <1>6, <1>8, <2>4 DEF ActIn
  <2> QED
    BY <1>3, <2>5, LocalStep DEF act2
<1> QED
  BY <1>12, <1>13 DEF c2, act2

-----------------------------------------------------------------------------
(* Every step is one of the abstract machine, or changes nothing there.    *)
LEMMA NoValueNext ==
  known' = FALSE /\ (NCalls' # 0 => Here'.phase # "back") => Value' = NoValue
BY DEF Value, InCall

(* Outside of a call that is back the value is that of the register.       *)
LEMMA ValueNow ==
  ~ InCall("back") => Value = IF known THEN regi ELSE NoValue
BY DEF Value

(* Where an expression may start the abstract machine evaluates.           *)
LEMMA EvaluatingNow ==
  ASSUME IInv, NCalls = 0 \/ (NCalls # 0 /\ Here.phase = "args")
  PROVE  Abstract!Evaluating /\ ~ InCall("back")
<1>1. NCalls \in Nat
  BY TopFacts
<1>2. CASE NCalls = 0
  BY <1>2, AbstractNow DEF Abstract!Evaluating, InCall
<1>3. CASE NCalls # 0 /\ Here.phase = "args"
  <2>1. Abstract!Call = CallIn(Here, stack)
    BY <1>1, <1>3, AbstractNow
  <2>2. Abstract!Call.phase = "args"
    BY <1>3, <2>1 DEF CallIn
  <2> QED
    BY <1>3, <2>2 DEF Abstract!Evaluating, InCall
<1> QED
  BY <1>2, <1>3

(* The value of an expression is that of the abstract machine.             *)
LEMMA LoadSim == IInv /\ Load => Abstract!Load
<1> SUFFICES ASSUME IInv, Load
             PROVE  Abstract!Load
  OBVIOUS
<1> DEFINE x == Step(Top)
<1>1. /\ Depth \in Nat /\ Depth >= 1 /\ Top \in ActivationRecords /\ Top = ctl[Depth]
      /\ NCalls \in Nat /\ NCalls = Len(Top.calls) /\ Here = Top.calls[NCalls] /\ Top.proc \in Procs
  BY TopFacts DEF Top, NCalls, Here
<1>2. /\ x \in ActivationRecords /\ x.proc = Top.proc /\ x.calls = Top.calls
  <2>1. NCalls = 0 => Top.left - 1 \in Nat
    BY <1>1 DEF Load, Expression, InBody, InCall, ActivationRecords
  <2> QED
    BY <1>1, <2>1 DEF Step, ActivationRecords
<1>3. ctl' = [ctl EXCEPT ![Depth] = x]
  BY <1>1 DEF Load
<1> HIDE DEF x
<1>4. /\ Len(ctl') = Depth /\ Depth' = Depth
      /\ \A a \in 1 .. Depth - 1 : ctl'[a] = ctl[a]
      /\ ctl'[Depth] = x
  BY <1>2, <1>3, TopReplaced
<1>5. NCalls = 0 \/ (NCalls # 0 /\ Here.phase = "args")
  BY DEF Load, Expression, InBody, InCall
<1>6. Activations' = Activations
  <2>1. Local
    BY <1>4 DEF Local, Load
  <2>2. ActIn(ctl'[Depth], bp, stack') = ActIn(Top, bp, stack)
    BY <1>2, <1>4 DEF ActIn, Load
  <2> QED
    BY <2>1, <2>2, LocalStep
<1>7. Value' = regi'
  <2>1. NCalls' = NCalls /\ Here' = Here
    BY <1>1, <1>2, <1>4 DEF NCalls, Here, Top
  <2>2. ~ InCall("back")'
    BY <1>5, <2>1 DEF InCall
  <2> QED
    BY <2>2 DEF Value, Load
<1>8. regi' \in Values \cup {global[g] : g \in Globals}
                \cup {Abstract!Now.params[i] : i \in 1 .. Len(Abstract!Now.params)}
  <2>1. Abstract!Now.params = ParamsIn(Top.proc, bp, stack)
    BY AbstractNow DEF ActIn
  <2>2. Len(Abstract!Now.params) = Params[Top.proc]
    <3>1. Listed(ParamsIn(Top.proc, bp, stack), Params[Top.proc])
      BY DEF Listed, ParamsIn
    <3>2. Params[Top.proc] \in Nat
      BY <1>1, MostFacts
    <3> QED
      BY <2>1, <3>1, <3>2, Lists
  <2>3. \A i \in 1 .. Params[Top.proc] : Abstract!Now.params[i] = Peek(i)
    BY <2>1 DEF ParamsIn, Peek
  <2> QED
    BY <2>2, <2>3 DEF Load
<1>9. Abstract!Evaluating
  BY <1>5, EvaluatingNow
<1>10. UNCHANGED global
  BY DEF Load
<1> QED
  BY <1>6, <1>7, <1>8, <1>9, <1>10 DEF Abstract!Load

(* A variable gets the value of the expression.                            *)
LEMMA AssignGlobalSim == \A g \in Globals : IInv /\ AssignGlobal(g) => Abstract!AssignGlobal(g)
<1> SUFFICES ASSUME NEW g \in Globals, IInv, AssignGlobal(g)
             PROVE  Abstract!AssignGlobal(g)
  OBVIOUS
<1>1. NCalls = 0 /\ known /\ regi \in Values
  BY DEF AssignGlobal, Assigning, InBody, IInv, TypeOK
<1>2. Abstract!Evaluating /\ Value = regi /\ Value # NoValue
  <2>1. Abstract!Evaluating /\ ~ InCall("back")
    BY <1>1, EvaluatingNow
  <2>2. Value = regi
    BY <1>1, <2>1, ValueNow
  <2> QED
    BY <1>1, <2>1, <2>2, ProgramAssumption
<1>3. Depth' = Depth /\ NCalls' = NCalls /\ Top' = Top
  BY DEF AssignGlobal, Depth, NCalls, Top
<1>4. Activations' = Activations
  <2>1. Local
    BY <1>3 DEF Local, AssignGlobal
  <2>2. ActIn(ctl'[Depth], bp, stack') = ActIn(Top, bp, stack)
    BY DEF AssignGlobal, Top
  <2> QED
    BY <2>1, <2>2, LocalStep
<1>5. Value' = NoValue
  BY <1>1, <1>3, NoValueNext DEF AssignGlobal
<1>6. global' = [global EXCEPT ![g] = Value]
  BY <1>2 DEF AssignGlobal
<1> QED
  BY <1>2, <1>4, <1>5, <1>6 DEF Abstract!AssignGlobal

(* Only the last parameter of a procedure is assigned.  Of the others the  *)
(* compiler takes the entry of the last.                                   *)
OnlyLastAssigned == \A p \in Procs : Assigns[p] \subseteq {Params[p]}

(* Fetching a reference parameter does not disturb a value that was        *)
(* returned.                                                               *)
ReturnsOrRefers == \A p \in Procs : Returns[p] => Refs[p] = {}

(* The last parameter gets the value of the expression: the entry the code *)
(* writes is its own.                                                      *)
LEMMA AssignParamSim ==
  ASSUME OnlyLastAssigned
  PROVE  \A i : IInv /\ AssignParam(i) => i \in 1 .. Params[Top.proc] /\ Abstract!AssignParam(i)
<1> SUFFICES ASSUME NEW i, IInv, AssignParam(i)
             PROVE  i \in 1 .. Params[Top.proc] /\ Abstract!AssignParam(i)
  OBVIOUS
<1>1. NCalls = 0 /\ known /\ regi \in Values /\ Top.proc \in Procs /\ i \in Assigns[Top.proc]
  BY TopFacts DEF AssignParam, Assigning, InBody, IInv, TypeOK
<1>2. i = Params[Top.proc] /\ i \in 1 .. Params[Top.proc] /\ i \in Nat
  <2>1. i = Params[Top.proc] /\ i \in 1 .. Params[Top.proc]
    BY <1>1, ProgramAssumption DEF OnlyLastAssigned
  <2> QED
    BY <1>1, <2>1, MostFacts
<1>3. Abstract!Evaluating /\ Value = regi /\ Value # NoValue
  <2>1. Abstract!Evaluating /\ ~ InCall("back")
    BY <1>1, EvaluatingNow
  <2>2. Value = regi
    BY <1>1, <2>1, ValueNow
  <2> QED
    BY <1>1, <2>1, <2>2, ProgramAssumption
<1>4. Depth' = Depth /\ NCalls' = NCalls /\ Top' = Top /\ ctl' = ctl /\ saved' = saved /\ bp' = bp
      /\ Top = ctl[Depth]
  BY DEF AssignParam, Depth, NCalls, Top
<1>5. /\ bp \in 1 .. Len(stack) /\ bp \in Nat /\ Len(stack') = Len(stack)
      /\ \A j \in 1 .. Len(stack) : j # bp => stack'[j] = stack[j]
      /\ stack'[bp] = Arg(regi)
  <2>1. stack' = [stack EXCEPT ![bp].of = regi]
    BY DEF AssignParam
  <2>2. /\ bp \in 1 .. Len(stack) /\ Len(stack') = Len(stack)
        /\ \A j \in 1 .. Len(stack) : j # bp => stack'[j] = stack[j]
        /\ stack'[bp] = Arg(regi)
    BY <1>2, <2>1, AssignedStack
  <2>3. bp \in Nat
    BY <1>2, TopParams
  <2> QED
    BY <2>2, <2>3
<1>6. Local
  <2>1. \A j \in 1 .. bp - 1 : stack'[j] = stack[j]
    <3>1. Len(stack) \in Nat
      BY TopFacts
    <3>2. \A j \in 1 .. bp - 1 : j \in 1 .. Len(stack) /\ j # bp
      BY <1>5, <3>1
    <3> QED
      BY <1>5, <3>2
  <2> QED
    BY <1>4, <2>1 DEF Local
<1> DEFINE q == ParamsIn(Top.proc, bp, stack)
           q2 == [j \in DOMAIN q |-> IF j = i THEN Value ELSE q[j]]
<1>7. ParamsIn(Top.proc, bp, stack') = q2
  <2>1. DOMAIN q = 1 .. Params[Top.proc]
    BY DEF ParamsIn
  <2>2. ASSUME NEW j \in 1 .. Params[Top.proc]
        PROVE  stack'[Slot(Top.proc, bp, j)].of =
                 IF j = i THEN Value ELSE stack[Slot(Top.proc, bp, j)].of
    <3>1. CASE j = i
      <4>1. Slot(Top.proc, bp, j) = bp
        BY <1>2, <3>1, TopParams
      <4> QED
        BY <1>3, <1>5, <3>1, <4>1 DEF Arg
    <3>2. CASE j # i
      <4>1. Slot(Top.proc, bp, j) = bp - (Params[Top.proc] - j)
        BY DEF Slot
      <4>2. Slot(Top.proc, bp, j) \in 1 .. bp /\ Slot(Top.proc, bp, j) # bp
        <5>1. Slot(Top.proc, bp, j) \in 1 .. bp
          BY TopParams
        <5>2. j \in Nat /\ Params[Top.proc] \in Nat /\ j # Params[Top.proc] /\ bp \in Nat
          BY <1>2, <1>5, <3>2
        <5> QED
          BY <4>1, <5>1, <5>2
      <4>3. Slot(Top.proc, bp, j) \in 1 .. Len(stack)
        BY <1>5, <4>2, TopFacts
      <4> QED
        BY <1>5, <3>2, <4>2, <4>3
    <3> QED
      BY <3>1, <3>2
  <2>3. q2 = [j \in 1 .. Params[Top.proc] |-> IF j = i THEN Value ELSE stack[Slot(Top.proc, bp, j)].of]
    BY <2>1 DEF ParamsIn
  <2> HIDE DEF q2
  <2> QED
    BY <2>2, <2>3 DEF ParamsIn
<1>8. Abstract!Now = [proc |-> Top.proc, params |-> q, calls |-> CallsIn(Top.calls, stack)]
  BY AbstractNow DEF ActIn
<1>9. CallsIn(Top.calls, stack') = CallsIn(Top.calls, stack)
  <2>1. Len(Top.calls) = 0
    BY <1>1 DEF NCalls
  <2> QED
    BY <2>1 DEF CallsIn
<1>10. Activations' = Abstract!WithNow(
         [Abstract!Now EXCEPT !.params = [j \in DOMAIN @ |-> IF j = i THEN Value ELSE @[j]]])
  <2>1. Activations' = Abstract!WithNow(ActIn(Top, bp, stack'))
    BY <1>4, <1>6, LocalStep
  <2>2. ActIn(Top, bp, stack') = [proc |-> Top.proc, params |-> q2, calls |-> CallsIn(Top.calls, stack)]
    BY <1>7, <1>9 DEF ActIn
  <2>3. Abstract!Now.params = q
    BY <1>8
  <2>4. [Abstract!Now EXCEPT !.params = q2] =
          [proc |-> Top.proc, params |-> q2, calls |-> CallsIn(Top.calls, stack)]
    <3> HIDE DEF q, q2
    <3> QED
      BY <1>8
  <2>5. Activations' = Abstract!WithNow([Abstract!Now EXCEPT !.params = q2])
    BY <2>1, <2>2, <2>4
  <2> HIDE DEF q
  <2> QED
    BY <2>3, <2>5
<1>11. Len(Abstract!Now.params) = Params[Top.proc]
  <2>1. Listed(q, Params[Top.proc])
    BY DEF Listed, ParamsIn
  <2>2. Params[Top.proc] \in Nat
    BY <1>2
  <2>3. Len(q) = Params[Top.proc]
    BY <2>1, <2>2, Lists
  <2> QED
    BY <1>8, <2>3
<1>12. Value' = NoValue /\ i \in Assigns[Abstract!Now.proc]
  BY <1>1, <1>4, <1>8, NoValueNext DEF AssignParam
<1>13. UNCHANGED global
  BY DEF AssignParam
<1> HIDE DEF q
<1> QED
  BY <1>2, <1>3, <1>10, <1>11, <1>12, <1>13 DEF Abstract!AssignParam

(* A marker on the stack begins an abstract call.                          *)
LEMMA BeginSim == \A q \in Procs : IInv /\ Begin(q) => Abstract!Begin(q)
<1> SUFFICES ASSUME NEW q \in Procs, IInv, Begin(q)
             PROVE  Abstract!Begin(q)
  OBVIOUS
<1> DEFINE c == [callee |-> q, at |-> Len(stack) + 1, into |-> <<>>, phase |-> "args", todo |-> {}]
           s == Append(Top.calls, c)
           x == [Step(Top) EXCEPT !.calls = s]
           d == [callee |-> q, args |-> <<>>, into |-> <<>>, phase |-> "args", todo |-> {}]
<1>1. /\ Depth \in Nat /\ Depth >= 1 /\ Top \in ActivationRecords /\ Top = ctl[Depth]
      /\ NCalls \in Nat /\ NCalls = Len(Top.calls) /\ Here = Top.calls[NCalls]
      /\ Len(stack) \in Nat /\ Top.calls \in Seq(CallRecords) /\ Depth \in 1 .. Depth
  BY TopFacts DEF Top, NCalls, Here
<1>2. /\ c \in CallRecords /\ c.phase = "args" /\ CallIn(c, stack') = d
  <2>1. <<>> \in Seq(Globals \cup {NoGlobal}) /\ Len(<<>>) = 0
    BY EmptySeq
  <2>2. [i \in 1 .. Len(<<>>) |-> stack'[c.at + i].of] = <<>>
    <3> DEFINE f == [i \in 1 .. Len(<<>>) |-> stack'[c.at + i].of]
    <3>1. Listed(f, 0)
      BY <2>1 DEF Listed
    <3> HIDE DEF f
    <3>2. f \in Seq({f[i] : i \in 1 .. 0}) /\ Len(f) = 0
      BY <3>1, IsSequence
    <3>3. f = <<>>
      BY <3>2, EmptySeq
    <3> QED
      BY <3>3 DEF f
  <2>3. c.phase = "args" /\ c.callee = q /\ c.into = <<>> /\ c.todo = {}
    OBVIOUS
  <2>4. c \in CallRecords
    BY <1>1, <2>1 DEF CallRecords
  <2> HIDE DEF c
  <2>5. CallIn(c, stack') = d
    BY <2>2, <2>3 DEF CallIn
  <2> QED
    BY <2>3, <2>4, <2>5
<1> HIDE DEF c
<1>3. /\ s \in Seq(CallRecords) /\ Len(s) = NCalls + 1
      /\ \A k \in 1 .. NCalls : s[k] = Top.calls[k]
      /\ s[NCalls + 1] = c
  BY <1>1, <1>2, AppendProperties
<1>4. /\ Expression /\ stack' = Append(stack, CallMarker(q))
      /\ saved' = saved /\ bp' = bp /\ global' = global /\ known' = FALSE
      /\ NCalls = 0 \/ (NCalls # 0 /\ Here.phase = "args")
  BY DEF Begin, Expression, InBody, InCall
<1>5. ctl' = [ctl EXCEPT ![Depth] = x]
  <2>1. NCalls = 0 => Step(Top).calls = Top.calls
    BY <1>1 DEF Step, ActivationRecords
  <2>2. NCalls # 0 => Step(Top).calls = Top.calls
    BY DEF Step
  <2>3. Step(Top).calls = Top.calls
    BY <2>1, <2>2
  <2>4. [Step(Top) EXCEPT !.calls = Append(Step(Top).calls, c)] = x
    BY <2>3
  <2>5. ctl' = [ctl EXCEPT ![Depth] = [Step(Top) EXCEPT !.calls = Append(@, c)]]
    BY DEF Begin, c
  <2> HIDE DEF x
  <2> QED
    BY <2>4, <2>5
<1> HIDE DEF s
<1>6. x \in ActivationRecords /\ x.proc = Top.proc /\ x.calls = s
  <2>1. NCalls = 0 => Top.left - 1 \in Nat
    BY <1>1, <1>4 DEF Expression, InBody, InCall, ActivationRecords
  <2> QED
    BY <1>1, <1>3, <2>1 DEF Step, ActivationRecords
<1> HIDE DEF x
<1>7. /\ Len(ctl') = Depth /\ Depth' = Depth
      /\ \A a \in 1 .. Depth - 1 : ctl'[a] = ctl[a]
      /\ ctl'[Depth] = x
  BY <1>5, <1>6, TopReplaced
<1>8. \A j \in 1 .. Len(stack) : stack'[j] = stack[j]
  <2>1. CallMarker(q) \in Entries
    BY DEF CallMarker, Entries
  <2> QED
    BY <1>4, <2>1, PushedStack
<1>9. Depth > 1 => \A j \in 1 .. bp : stack'[j] = stack[j]
  <2>1. Depth > 1 => bp \in Nat /\ bp < Len(stack)
    <3> SUFFICES ASSUME Depth > 1
                 PROVE  bp \in Nat /\ bp < Len(stack)
      OBVIOUS
    <3>1. bp = Base(Depth) /\ Depth \in 2 .. Depth
      BY <1>1 DEF Base
    <3>2. bp \in Nat /\ bp + 1 = Start(Depth)
      BY <3>1, BaseFacts
    <3>3. Start(Depth) \in 1 .. Len(stack)
      BY <3>1 DEF IInv, MarkerInv
    <3> QED
      BY <1>1, <3>2, <3>3
  <2> QED
    BY <1>1, <1>8, <2>1
<1>10. Local
  <2>1. Depth > 1 => \A j \in 1 .. bp - 1 : stack'[j] = stack[j]
    <3>1. Depth > 1 => bp \in Nat
      BY <1>1, BaseFacts DEF Base
    <3> QED
      BY <1>9, <3>1
  <2> QED
    BY <1>4, <1>7, <2>1 DEF Local
<1>11. ASSUME NEW k \in 1 .. NCalls
       PROVE  CallIn(Top.calls[k], stack') = CallIn(Top.calls[k], stack)
  <2> DEFINE a == Top.calls[k].at
             m == Len(Top.calls[k].into)
             t == Len(stack)
  <2>1. k \in 1 .. Len(ctl[Depth].calls)
    BY <1>1
  <2>2. a \in Nat /\ m \in Nat /\ a + m <= t /\ t \in Nat /\ a > 0
    <3>1. /\ Start(Depth) \in Nat /\ Start(Depth) < ctl[Depth].calls[k].at
          /\ ctl[Depth].calls[k].at + Len(ctl[Depth].calls[k].into) <= End(Depth)
          /\ ctl[Depth].calls[k].at \in Nat /\ Len(ctl[Depth].calls[k].into) \in Nat
      BY <1>1, <2>1, CallFacts, Places
    <3>2. End(Depth) = t
      BY DEF End
    <3> QED
      BY <1>1, <3>1, <3>2
  <2> HIDE DEF a, m, t
  <2>3. \A i \in 1 .. m : a + i \in 1 .. t
    BY <2>2
  <2>4. \A i \in 1 .. m : stack'[a + i] = stack[a + i]
    BY <1>8, <2>3 DEF t
  <2> QED
    BY <2>4, CallInSame DEF a, m
<1> DEFINE calls2 == CallsIn(s, stack')
<1>12. /\ Abstract!Calls = CallsIn(Top.calls, stack) /\ Listed(Abstract!Calls, NCalls)
       /\ Abstract!Now = ActIn(Top, bp, stack)
  BY AbstractNow
<1>13. calls2 = Append(Abstract!Calls, d)
  <2>1. Listed(calls2, NCalls + 1) /\ calls2[NCalls + 1] = d
    <3>1. NCalls + 1 \in 1 .. NCalls + 1
      BY <1>1
    <3> HIDE DEF d
    <3> QED
      BY <1>2, <1>3, <3>1 DEF Listed, CallsIn
  <2>2. \A k \in 1 .. NCalls : calls2[k] = Abstract!Calls[k]
    <3> HIDE DEF d
    <3> TAKE k \in 1 .. NCalls
    <3>1. k \in 1 .. NCalls + 1
      BY <1>1
    <3>2. calls2[k] = CallIn(s[k], stack') /\ Abstract!Calls[k] = CallIn(Top.calls[k], stack)
      BY <1>1, <1>3, <1>12, <3>1 DEF CallsIn
    <3> QED
      BY <1>3, <1>11, <3>2
  <2> HIDE DEF calls2, d
  <2> DEFINE u == Abstract!Calls
             n == NCalls
  <2>3. n \in Nat /\ Listed(u, n) /\ Listed(calls2, n + 1) /\ \A k \in 1 .. n : calls2[k] = u[k]
    BY <1>1, <1>12, <2>1, <2>2
  <2> HIDE DEF u, n
  <2>4. calls2 = Append(u, calls2[n + 1])
    BY ONLY <2>3, AppendIs
  <2>5. calls2[n + 1] = d
    BY <2>1 DEF n
  <2> QED
    BY <2>4, <2>5 DEF u
<1>14. ActIn(x, bp, stack') =
         [proc |-> Top.proc, params |-> ParamsIn(Top.proc, bp, stack), calls |-> calls2]
  BY <1>6, <1>9, TopParamsStay DEF ActIn
<1> HIDE DEF calls2, d
<1>15. ActIn(x, bp, stack') = [Abstract!Now EXCEPT !.calls = Append(@, d)]
  <2>1. Abstract!Now = [proc |-> Top.proc, params |-> ParamsIn(Top.proc, bp, stack),
                        calls |-> Abstract!Calls]
    BY <1>12 DEF ActIn
  <2>2. [Abstract!Now EXCEPT !.calls = Append(Abstract!Now.calls, d)] =
          [proc |-> Top.proc, params |-> ParamsIn(Top.proc, bp, stack),
           calls |-> Append(Abstract!Now.calls, d)]
    <3> DEFINE now == Abstract!Now
               par == ParamsIn(Top.proc, bp, stack)
               proc == Top.proc
               old == Abstract!Calls
               new == Append(Abstract!Now.calls, d)
    <3>1. now = [proc |-> proc, params |-> par, calls |-> old]
      BY <2>1
    <3> HIDE DEF now, par, proc, old, new
    <3>2. [now EXCEPT !.calls = new] = [proc |-> proc, params |-> par, calls |-> new]
      BY ONLY <3>1
    <3> QED
      BY <3>2 DEF now, par, proc, new
  <2>3. Abstract!Now.calls = Abstract!Calls
    BY DEF Abstract!Calls
  <2>4. [Abstract!Now EXCEPT !.calls = Append(Abstract!Now.calls, d)] = ActIn(x, bp, stack')
    BY <1>13, <1>14, <2>2, <2>3
  <2> QED
    BY <2>4
<1>16. Activations' = Abstract!WithNow([Abstract!Now EXCEPT !.calls = Append(@, d)])
  BY <1>7, <1>10, <1>15, LocalStep
<1>17. Abstract!Evaluating
  BY <1>4, EvaluatingNow
<1>18. Value' = NoValue
  <2>1. NCalls' = NCalls + 1 /\ Here' = c
    BY <1>3, <1>6, <1>7 DEF NCalls, Here, Top
  <2> QED
    BY <1>2, <1>4, <2>1, NoValueNext
<1> QED
  BY <1>4, <1>16, <1>17, <1>18 DEF Abstract!Begin, d

(* An argument pushed, of a value or a variable.                           *)
LEMMA PushesSim ==
  ASSUME IInv, NEW v \in Values, NEW g \in Globals \cup {NoGlobal}, Pushes(v, g),
         (g = NoGlobal) = (NextPar \notin Refs[Here.callee]), known' = FALSE
  PROVE  Abstract!Argument(v, g)
<1> DEFINE c == [Here EXCEPT !.into = Append(@, g)]
           n == Len(Here.into)
           t == Len(stack)
           h == CallIn(Here, stack)
<1>1. /\ NCalls \in Nat /\ NCalls > 0 /\ Here.phase = "args" /\ Here \in CallRecords
      /\ n \in Nat /\ Here.into \in Seq(Globals \cup {NoGlobal}) /\ t \in Nat
      /\ Here.at \in Nat /\ Here.at > 0 /\ t = Here.at + n
      /\ Params[Here.callee] \in Nat
  <2>1. NCalls \in Nat /\ NCalls > 0 /\ Here.phase = "args" /\ t \in Nat
    BY TopFacts DEF Pushes, InCall
  <2> QED
    BY <2>1, HereFacts, HereArgs
<1>2. /\ Append(Here.into, g) \in Seq(Globals \cup {NoGlobal})
      /\ Len(Append(Here.into, g)) = n + 1
  BY <1>1, AppendProperties
<1>3. /\ c \in CallRecords /\ c.at = Here.at /\ c.into = Append(Here.into, g)
      /\ c.callee = Here.callee /\ c.todo = Here.todo /\ c.phase = "args"
  BY <1>1, <1>2 DEF CallRecords
<1>4. ctl' = WithCall(c)
  BY DEF Pushes
<1> HIDE DEF c
<1>5. /\ Depth' = Depth
      /\ \A a \in 1 .. Depth - 1 : ctl'[a] = ctl[a]
      /\ ctl'[Depth].proc = Top.proc
      /\ Len(ctl'[Depth].calls) = NCalls
      /\ \A k \in 1 .. NCalls - 1 : ctl'[Depth].calls[k] = Top.calls[k]
      /\ ctl'[Depth].calls[NCalls] = c
  BY <1>1, <1>3, <1>4, CallReplaced
<1>6. /\ \A j \in 1 .. t : stack'[j] = stack[j]
      /\ stack'[t + 1] = Arg(v)
  <2>1. Arg(v) \in Entries /\ stack' = Append(stack, Arg(v))
    BY DEF Arg, Entries, Pushes
  <2> QED
    BY <2>1, PushedStack
<1>7. Inner
  <2>1. \A j \in 1 .. Here.at - 1 : stack'[j] = stack[j]
    <3> DEFINE x == Here.at
    <3>1. x \in Nat /\ n \in Nat /\ t \in Nat /\ t = x + n
      BY <1>1
    <3> HIDE DEF x, n, t
    <3>2. \A j \in 1 .. x - 1 : j \in 1 .. t
      BY <3>1
    <3> QED
      BY <1>6, <3>2 DEF x
  <2> QED
    BY <1>1, <1>5, <2>1 DEF Inner, Pushes
<1>8. Activations' = Abstract!WithCall(CallIn(c, stack'))
  BY <1>5, <1>7, InnerStep
<1>9. Abstract!Call = h /\ Abstract!Calls # <<>>
  BY <1>1, AbstractNow
<1>10. /\ h.callee = Here.callee /\ h.into = Here.into /\ h.phase = "args" /\ h.todo = Here.todo
       /\ h.args = [i \in 1 .. n |-> stack[Here.at + i].of]
       /\ h = [callee |-> h.callee, args |-> h.args, into |-> h.into, phase |-> h.phase,
               todo |-> h.todo]
  BY <1>1 DEF CallIn
<1> HIDE DEF h
<1>11. Listed(h.args, n) /\ Len(h.args) = n
  <2>1. Listed(h.args, n)
    BY <1>10 DEF Listed
  <2> QED
    BY <1>1, <2>1, Lists
<1> DEFINE args2 == [i \in 1 .. n + 1 |-> stack'[Here.at + i].of]
<1>12. args2 = Append(h.args, v)
  <2> DEFINE x == Here.at
  <2>1. x \in Nat /\ n \in Nat /\ t \in Nat /\ t = x + n /\ x > 0
    BY <1>1
  <2>2. Listed(args2, n + 1)
    BY DEF Listed
  <2>3. args2[n + 1] = v
    <3>1. n + 1 \in 1 .. n + 1 /\ x + (n + 1) = t + 1
      <4> HIDE DEF x, n, t
      <4> QED
        BY <2>1
    <3>2. args2[n + 1] = stack'[x + (n + 1)].of
      BY <3>1
    <3> QED
      BY <1>6, <3>1, <3>2 DEF Arg
  <2>4. \A i \in 1 .. n : args2[i] = h.args[i]
    <3> TAKE i \in 1 .. n
    <3>1. i \in 1 .. n + 1 /\ x + i \in 1 .. t
      <4> HIDE DEF x, n, t
      <4> QED
        BY <2>1
    <3>2. args2[i] = stack'[x + i].of /\ h.args[i] = stack[x + i].of
      BY <1>10, <3>1
    <3> QED
      BY <1>6, <3>1, <3>2
  <2> HIDE DEF args2, n
  <2>5. args2 = Append(h.args, args2[n + 1])
    BY <2>1, <1>11, <2>2, <2>4, AppendIs
  <2> QED
    BY <2>3, <2>5
<1>13. CallIn(c, stack') =
         [callee |-> h.callee, args |-> Append(h.args, v), into |-> Append(h.into, g),
          phase |-> h.phase, todo |-> h.todo]
  <2>1. [i \in 1 .. Len(c.into) |-> stack'[c.at + i].of] = args2
    BY <1>2, <1>3
  <2> HIDE DEF args2
  <2> QED
    BY <1>3, <1>10, <1>12, <2>1 DEF CallIn
<1>14. CallIn(c, stack') = [h EXCEPT !.args = Append(@, v), !.into = Append(@, g)]
  <2> DEFINE p == h.callee
             q == h.args
             r == h.into
             s == h.phase
             u == h.todo
             q2 == Append(q, v)
             r2 == Append(r, g)
             k == [h EXCEPT !.args = q2]
  <2>1. h = [callee |-> p, args |-> q, into |-> r, phase |-> s, todo |-> u]
    BY <1>10
  <2>2. CallIn(c, stack') = [callee |-> p, args |-> q2, into |-> r2, phase |-> s, todo |-> u]
    BY <1>13
  <2>3. CallIn(c, stack') = [[h EXCEPT !.args = q2] EXCEPT !.into = r2]
    <3> HIDE DEF p, q, r, s, u, q2, r2
    <3>1. k = [callee |-> p, args |-> q2, into |-> r, phase |-> s, todo |-> u]
      BY ONLY <2>1
    <3> HIDE DEF k
    <3>2. [k EXCEPT !.into = r2] = [callee |-> p, args |-> q2, into |-> r2, phase |-> s, todo |-> u]
      BY ONLY <3>1
    <3>3. CallIn(c, stack') = [k EXCEPT !.into = r2]
      BY <2>2, <3>2
    <3> QED
      BY <3>3 DEF k
  <2> HIDE DEF k
  <2> QED
    BY <2>3
<1>15. Len(h.args) < Params[h.callee]
       /\ (g = NoGlobal) = (Len(h.args) + 1 \notin Refs[h.callee])
  <2>1. NextPar = n + 1 /\ NextPar <= Params[Here.callee]
    BY DEF NextPar, Pushes
  <2> HIDE DEF n
  <2>2. n < Params[Here.callee]
    BY <1>1, <2>1
  <2> QED
    BY <1>10, <1>11, <2>1, <2>2
<1>16. Value' = NoValue
  <2>1. NCalls' = NCalls /\ Here' = c
    BY <1>5 DEF NCalls, Here, Top
  <2> QED
    BY <1>3, <2>1, NoValueNext
<1>17. UNCHANGED global
  BY DEF Pushes
<1> QED
  BY <1>8, <1>9, <1>10, <1>14, <1>15, <1>16, <1>17 DEF Abstract!Argument

(* The push of a value is an argument passed by value.                     *)
LEMMA PushValueSim == IInv /\ PushValue => Value # NoValue /\ Abstract!Argument(Value, NoGlobal)
<1> SUFFICES ASSUME IInv, PushValue
             PROVE  Value # NoValue /\ Abstract!Argument(Value, NoGlobal)
  OBVIOUS
<1>1. NCalls > 0 /\ regi \in Values /\ NoGlobal \in Globals \cup {NoGlobal} /\ NCalls \in Nat
      /\ Here.phase = "args" /\ known
  BY TopFacts DEF PushValue, InCall, IInv, TypeOK
<1>2. NextPar <= Params[Here.callee] /\ NextPar \notin Refs[Here.callee]
  <2>1. Params[Here.callee] \in Nat
    BY <1>1, HereFacts
  <2> QED
    BY <2>1 DEF PushValue, ByValue
<1>3. Pushes(regi, NoGlobal) /\ known' = FALSE
  BY <1>1, <1>2 DEF PushValue, Pushes
<1>4. Value = regi
  BY <1>1, ValueNow DEF InCall
<1>5. (NoGlobal = NoGlobal) = (NextPar \notin Refs[Here.callee])
  BY <1>2
<1>6. Abstract!Argument(regi, NoGlobal)
  BY <1>1, <1>3, <1>5, PushesSim
<1> QED
  BY <1>1, <1>4, <1>6, ProgramAssumption

(* The push of a variable is an argument passed by reference.              *)
LEMMA PushVariableSim ==
  \A g \in Globals : IInv /\ PushVariable(g) => Abstract!Argument(global[g], g)
<1> SUFFICES ASSUME NEW g \in Globals, IInv, PushVariable(g)
             PROVE  Abstract!Argument(global[g], g)
  OBVIOUS
<1>1. NCalls > 0 /\ global[g] \in Values /\ NCalls \in Nat /\ known \in BOOLEAN
  BY TopFacts DEF PushVariable, InCall, IInv, TypeOK
<1>2. NextPar <= Params[Here.callee] /\ NextPar \in Refs[Here.callee]
  <2>1. Params[Here.callee] \in Nat /\ Here.callee \in Procs
    BY <1>1, HereFacts
  <2>2. NextPar \in 1 .. Params[Here.callee]
    BY <2>1, ProgramAssumption DEF PushVariable
  <2> QED
    BY <2>1, <2>2 DEF PushVariable
<1>3. Pushes(global[g], g)
  BY <1>1, <1>2 DEF PushVariable, Pushes
<1>4. known' = FALSE
  BY <1>1 DEF PushVariable
<1>5. (g = NoGlobal) = (NextPar \notin Refs[Here.callee])
  BY <1>2, ProgramAssumption
<1> QED
  BY <1>1, <1>3, <1>4, <1>5, PushesSim

-----------------------------------------------------------------------------
(* Taking the result changes nothing in the abstract machine, where it was *)
(* the value of the call as soon as the procedure had returned.            *)
LEMMA TakeResultSim == IInv /\ TakeResult => UNCHANGED <<global, Activations, Value>>
<1> SUFFICES ASSUME IInv, TakeResult
             PROVE  UNCHANGED <<global, Activations, Value>>
  OBVIOUS
<1> DEFINE c == [Here EXCEPT !.phase = "refs"]
<1>1. NCalls \in Nat /\ NCalls > 0 /\ Here.phase = "back" /\ Here \in CallRecords
      /\ Running
  BY TopFacts DEF TakeResult, InCall
<1>2. /\ c \in CallRecords /\ c.at = Here.at /\ c.into = Here.into /\ c.callee = Here.callee
      /\ c.todo = Here.todo /\ c.phase = "refs"
  BY <1>1 DEF CallRecords
<1>3. ctl' = WithCall(c)
  BY DEF TakeResult
<1> HIDE DEF c
<1>4. /\ Depth' = Depth
      /\ \A a \in 1 .. Depth - 1 : ctl'[a] = ctl[a]
      /\ ctl'[Depth].proc = Top.proc
      /\ Len(ctl'[Depth].calls) = NCalls
      /\ \A k \in 1 .. NCalls - 1 : ctl'[Depth].calls[k] = Top.calls[k]
      /\ ctl'[Depth].calls[NCalls] = c
  BY <1>1, <1>2, <1>3, CallReplaced
<1>5. stack' = stack /\ saved' = saved /\ bp' = bp /\ global' = global /\ rvi' = rvi
      /\ status' = status
  BY DEF TakeResult
<1>6. Inner
  BY <1>1, <1>4, <1>5 DEF Inner
<1>7. CallIn(c, stack') = CallIn(Here, stack)
  BY <1>1, <1>2, <1>5 DEF CallIn
<1>8. Activations' = Activations
  BY <1>4, <1>6, <1>7, InnerStep
<1>9. NCalls' = NCalls /\ Here' = c
  BY <1>4 DEF NCalls, Here, Top
<1>10. Value = IF Returns[Here.callee] THEN rvi ELSE NoValue
  <2>1. InCall("back") /\ known = FALSE
    BY <1>1 DEF InCall, IInv, KnownInv, TypeOK
  <2> QED
    BY <2>1 DEF Value
<1>11. Value' = IF Returns[Here.callee] THEN rvi ELSE NoValue
  <2>1. ~ InCall("back")'
    BY <1>2, <1>9 DEF InCall
  <2>2. Value' = IF known' THEN regi' ELSE NoValue
    BY <2>1 DEF Value
  <2> QED
    BY <2>2 DEF TakeResult
<1> QED
  BY <1>5, <1>8, <1>10, <1>11

(* A reference parameter is read above the marker of the call, and its     *)
(* fetching takes no value away, because the procedure has no result.      *)
LEMMA FetchRefSim ==
  ASSUME ReturnsOrRefers
  PROVE  \A i \in UNION {Refs[p] : p \in Procs} : IInv /\ FetchRef(i) => Abstract!CopyBack(i)
<1> SUFFICES ASSUME NEW i \in UNION {Refs[p] : p \in Procs}, IInv, FetchRef(i)
             PROVE  Abstract!CopyBack(i)
  OBVIOUS
<1> DEFINE c == [Here EXCEPT !.todo = @ \ {i}]
           h == CallIn(Here, stack)
<1>1. /\ NCalls \in Nat /\ NCalls > 0 /\ Here.phase = "refs" /\ Here \in CallRecords
      /\ i \in Here.todo
  BY TopFacts DEF FetchRef, InCall
<1>2. /\ c \in CallRecords /\ c.at = Here.at /\ c.into = Here.into /\ c.callee = Here.callee
      /\ c.todo = Here.todo \ {i} /\ c.phase = "refs"
  BY <1>1 DEF CallRecords
<1>3. ctl' = WithCall(c)
  BY DEF FetchRef
<1> HIDE DEF c
<1>4. /\ Depth' = Depth
      /\ \A a \in 1 .. Depth - 1 : ctl'[a] = ctl[a]
      /\ ctl'[Depth].proc = Top.proc
      /\ Len(ctl'[Depth].calls) = NCalls
      /\ \A k \in 1 .. NCalls - 1 : ctl'[Depth].calls[k] = Top.calls[k]
      /\ ctl'[Depth].calls[NCalls] = c
  BY <1>1, <1>2, <1>3, CallReplaced
<1>5. stack' = stack /\ saved' = saved /\ bp' = bp /\ known' = known
  BY DEF FetchRef
<1>6. Inner
  BY <1>1, <1>4, <1>5 DEF Inner
<1>7. Activations' = Abstract!WithCall(CallIn(c, stack'))
  BY <1>4, <1>6, InnerStep
<1>8. Abstract!Call = h /\ Abstract!Calls # <<>>
  BY <1>1, AbstractNow
<1>9. i \in 1 .. Params[Here.callee] /\ Len(Here.into) = Params[Here.callee]
      /\ Params[Here.callee] \in Nat /\ Here.at \in Nat /\ Here.callee \in Procs
      /\ Refs[Here.callee] # {}
  BY <1>1, HereFacts
<1>10. Slot(Here.callee, Len(stack), i) = Here.at + i
  <2> DEFINE x == Here.at
             n == Params[Here.callee]
             t == Len(stack)
  <2>1. t = Here.at + Len(Here.into)
    BY <1>1, HereArgs
  <2>2. x \in Nat /\ n \in Nat /\ i \in 1 .. n /\ t = x + n
    BY <1>9, <2>1
  <2>3. Slot(Here.callee, Len(stack), i) = t - (n - i)
    BY DEF Slot
  <2> HIDE DEF x, n, t
  <2>4. Slot(Here.callee, Len(stack), i) = x + i
    BY <2>2, <2>3
  <2> QED
    BY <2>4 DEF x
<1>11. /\ h.phase = "back" /\ h.into = Here.into /\ h.todo = Here.todo
       /\ h.args = [k \in 1 .. Len(Here.into) |-> stack[Here.at + k].of]
       /\ h = [callee |-> Here.callee, args |-> h.args, into |-> Here.into, phase |-> "back",
               todo |-> Here.todo]
  BY <1>1 DEF CallIn
<1>12. CallIn(c, stack') =
         [callee |-> Here.callee, args |-> h.args, into |-> Here.into, phase |-> "back",
          todo |-> Here.todo \ {i}]
  <2> HIDE DEF h
  <2> QED
    BY <1>2, <1>5, <1>11 DEF CallIn
<1> HIDE DEF h
<1>13. CallIn(c, stack') = [h EXCEPT !.todo = @ \ {i}]
  <2> DEFINE p == Here.callee
             q == h.args
             r == Here.into
             u == Here.todo
  <2>1. h = [callee |-> p, args |-> q, into |-> r, phase |-> "back", todo |-> u] /\ h.todo = u
    BY <1>11
  <2>2. CallIn(c, stack') = [callee |-> p, args |-> q, into |-> r, phase |-> "back",
                             todo |-> u \ {i}]
    BY <1>12
  <2> HIDE DEF p, q, r, u
  <2>3. [h EXCEPT !.todo = u \ {i}] = [callee |-> p, args |-> q, into |-> r, phase |-> "back",
                                       todo |-> u \ {i}]
    BY <2>1
  <2>4. [h EXCEPT !.todo = h.todo \ {i}] = CallIn(c, stack')
    BY <2>1, <2>2, <2>3
  <2> QED
    BY <2>4
<1>14. regi' = h.args[i]
  BY <1>9, <1>10, <1>11 DEF FetchRef
<1>15. global' = [global EXCEPT ![h.into[i]] = h.args[i]]
  BY <1>11, <1>14 DEF FetchRef
<1>16. NCalls' = NCalls /\ Here' = c
  BY <1>4 DEF NCalls, Here, Top
<1>17. known = FALSE
  <2>1. known = Returns[Here.callee]
    BY <1>1 DEF IInv, KnownInv
  <2>2. ~ Returns[Here.callee] /\ Returns[Here.callee] \in BOOLEAN
    BY <1>9, ProgramAssumption DEF ReturnsOrRefers
  <2> QED
    BY <2>1, <2>2, Zenon
<1>18. Value' = Value
  <2>1. Value = NoValue
    BY <1>1, <1>17 DEF Value, InCall
  <2>2. Value' = NoValue
    BY <1>2, <1>5, <1>16, <1>17, NoValueNext
  <2> QED
    BY <2>1, <2>2
<1> QED
  BY <1>1, <1>7, <1>8, <1>11, <1>13, <1>15, <1>18 DEF Abstract!CopyBack

(* The entries of a call go with it, and nothing below them.               *)
LEMMA CloseCallSim == IInv /\ CloseCall => Abstract!End
<1> SUFFICES ASSUME IInv, CloseCall
             PROVE  Abstract!End
  OBVIOUS
<1> DEFINE x == ctl'[Depth]
           n == NCalls - 1
           calls2 == CallsIn(x.calls, stack')
<1>1. /\ Depth \in Nat /\ Depth >= 1 /\ Depth \in 1 .. Depth /\ Top = ctl[Depth]
      /\ NCalls \in Nat /\ NCalls > 0 /\ NCalls = Len(Top.calls) /\ Here = Top.calls[NCalls]
      /\ Here.phase = "refs" /\ Here.todo = {} /\ n \in Nat
  BY TopFacts DEF Top, NCalls, Here, CloseCall, InCall
<1>2. \A j \in 1 .. Here.at - 1 : stack'[j] = stack[j]
  BY <1>1, ClosedStack DEF CloseCall
<1>3. /\ Depth' = Depth
      /\ \A a \in 1 .. Depth - 1 : ctl'[a] = ctl[a]
      /\ x.proc = Top.proc /\ Len(x.calls) = n
      /\ \A k \in 1 .. n : x.calls[k] = Top.calls[k]
  BY <1>1, ClosedCalls DEF CloseCall
<1>4. saved' = saved /\ bp' = bp /\ global' = global /\ known' = known /\ regi' = regi
  BY DEF CloseCall
<1>5. /\ Depth > 1 => \A j \in 1 .. bp - 1 : stack'[j] = stack[j]
      /\ ParamsIn(Top.proc, bp, stack') = ParamsIn(Top.proc, bp, stack)
      /\ \A k \in 1 .. n : CallIn(Top.calls[k], stack') = CallIn(Top.calls[k], stack)
  BY <1>1, <1>2, BelowHere
<1>6. Local
  BY <1>3, <1>4, <1>5 DEF Local
<1> HIDE DEF x
<1>7. /\ Abstract!Calls = CallsIn(Top.calls, stack) /\ Listed(Abstract!Calls, NCalls)
      /\ Len(Abstract!Calls) = NCalls /\ Abstract!Calls # <<>>
      /\ Abstract!Now = ActIn(Top, bp, stack) /\ Abstract!Call = CallIn(Here, stack)
  BY <1>1, AbstractNow
<1>8. calls2 = Abstract!Front(Abstract!Calls)
  <2> DEFINE u == Abstract!Calls
             f == SubSeq(u, 1, n)
             S == {u[i] : i \in 1 .. NCalls}
  <2>1. u \in Seq(S) /\ Len(u) = NCalls
    BY <1>1, <1>7, IsSequence
  <2>2. n \in 0 .. Len(u)
    BY <1>1, <1>7
  <2>3. f \in Seq(S) /\ Len(f) = n /\ \A k \in 1 .. n : f[k] = u[k]
    <3> HIDE DEF S, u, n
    <3> QED
      BY <2>1, <2>2, CutOff
  <2>4. Listed(f, n)
    <3> HIDE DEF S, f, n
    <3> QED
      BY <2>3, LenProperties, SeqDef DEF Listed
  <2>5. Listed(calls2, n)
    BY <1>3 DEF Listed, CallsIn
  <2>6. \A k \in 1 .. n : calls2[k] = f[k]
    <3> HIDE DEF f
    <3> TAKE k \in 1 .. n
    <3>1. k \in 1 .. NCalls
      BY <1>1
    <3>2. calls2[k] = CallIn(x.calls[k], stack') /\ u[k] = CallIn(Top.calls[k], stack)
      BY <1>1, <1>3, <1>7, <3>1 DEF CallsIn
    <3> QED
      BY <1>3, <1>5, <2>3, <3>2
  <2> HIDE DEF calls2, f, n, S
  <2>7. calls2 = f
    BY <1>1, <2>4, <2>5, <2>6, SameFunction
  <2> QED
    BY <1>7, <2>7 DEF Abstract!Front, f, n
<1>9. ActIn(x, bp, stack') =
        [proc |-> Top.proc, params |-> ParamsIn(Top.proc, bp, stack), calls |-> calls2]
  BY <1>3, <1>5 DEF ActIn
<1> HIDE DEF calls2
<1>10. ActIn(x, bp, stack') = [Abstract!Now EXCEPT !.calls = Abstract!Front(@)]
  <2>1. Abstract!Now = [proc |-> Top.proc, params |-> ParamsIn(Top.proc, bp, stack),
                        calls |-> Abstract!Calls]
    BY <1>7 DEF ActIn
  <2>2. [Abstract!Now EXCEPT !.calls = Abstract!Front(Abstract!Now.calls)] =
          [proc |-> Top.proc, params |-> ParamsIn(Top.proc, bp, stack),
           calls |-> Abstract!Front(Abstract!Now.calls)]
    BY <2>1
  <2>3. Abstract!Now.calls = Abstract!Calls
    BY DEF Abstract!Calls
  <2>4. [Abstract!Now EXCEPT !.calls = Abstract!Front(Abstract!Now.calls)] = ActIn(x, bp, stack')
    BY <1>8, <1>9, <2>2, <2>3
  <2> QED
    BY <2>4
<1>11. Activations' = Abstract!WithNow([Abstract!Now EXCEPT !.calls = Abstract!Front(@)])
  BY <1>6, <1>10, LocalStep DEF x
<1>12. Abstract!Call.phase = "back" /\ Abstract!Call.todo = {}
  BY <1>1, <1>7 DEF CallIn
<1>13. Value' = Value
  <2>1. Value = IF known THEN regi ELSE NoValue
    BY <1>1 DEF Value, InCall
  <2>2. NCalls' = n
    BY <1>3 DEF NCalls, Top, x
  <2>3. n # 0 => Here'.phase = "args"
    <3> SUFFICES ASSUME n # 0
                 PROVE  Here'.phase = "args"
      OBVIOUS
    <3>a. n \in 1 .. n /\ n \in 1 .. NCalls /\ n # NCalls
      <4> DEFINE m == NCalls
      <4>1. n \in Nat /\ m \in Nat /\ n = m - 1 /\ n # 0
        BY <1>1
      <4> HIDE DEF m, n
      <4>2. n \in 1 .. n /\ n \in 1 .. m /\ n # m
        BY ONLY <4>1
      <4> QED
        BY <4>2 DEF m
    <3>1. Here' = Top.calls[n]
      <4>1. n \in 1 .. n
        BY <3>a
      <4> QED
        BY <1>3, <2>2, <4>1 DEF Here, Top, x
    <3>2. n \in 1 .. NCalls /\ n # NCalls
      BY <3>a
    <3>3. Phase(ctl[Depth].calls[n], n = Len(ctl[Depth].calls), Depth = Depth)
      <4> HIDE DEF n
      <4> QED
        BY <1>1, <3>2 DEF IInv, PhaseInv
    <3> QED
      BY <1>1, <3>1, <3>2, <3>3 DEF Phase
  <2>4. ~ InCall("back")'
    BY <2>2, <2>3 DEF InCall
  <2>5. Value' = IF known' THEN regi' ELSE NoValue
    BY <2>4 DEF Value
  <2> QED
    BY <1>4, <2>1, <2>5
<1> QED
  BY <1>4, <1>7, <1>11, <1>12, <1>13 DEF Abstract!End

(* A program that ends, or is stopped, shows nothing of it.                *)
LEMMA StopSim == IInv /\ (CallTooDeep \/ ExitProgram) => UNCHANGED <<global, Activations, Value>>
<1> SUFFICES ASSUME IInv, CallTooDeep \/ ExitProgram
             PROVE  UNCHANGED <<global, Activations, Value>>
  OBVIOUS
<1>1. UNCHANGED <<stack, bp, saved, ctl, global, regi, known, rvi>>
  BY DEF CallTooDeep, ExitProgram
<1>2. NCalls = 0 \/ Here.phase = "args"
  BY DEF CallTooDeep, ExitProgram, ArgumentsDone, InBody, InCall
<1>3. UNCHANGED Depth /\ UNCHANGED NCalls /\ UNCHANGED Here
  BY <1>1 DEF Depth, NCalls, Here, Top
<1>4. Activations' = Activations
  <2>1. \A a : Base(a)' = Base(a)
    BY <1>1, <1>3 DEF Base
  <2> QED
    BY <1>1, <1>3, <2>1, ActivationsAre
<1>5. Value' = Value
  BY <1>1, <1>2, <1>3 DEF Value, InCall
<1> QED
  BY <1>1, <1>4, <1>5

(* A step that changes nothing changes nothing in the abstract machine.    *)
LEMMA StutterSim == UNCHANGED vars => UNCHANGED <<global, Activations, Value>>
<1> SUFFICES ASSUME UNCHANGED vars
             PROVE  UNCHANGED <<global, Activations, Value>>
  OBVIOUS
<1>1. UNCHANGED <<stack, bp, saved, ctl, global, regi, known, rvi, status>>
  BY DEF vars
<1>2. UNCHANGED Depth /\ UNCHANGED NCalls /\ UNCHANGED Here
  BY <1>1 DEF Depth, NCalls, Here, Top
<1>3. Activations' = Activations
  <2>1. \A a : Base(a)' = Base(a)
    BY <1>1, <1>2 DEF Base
  <2> QED
    BY <1>1, <1>2, <2>1, ActivationsAre
<1>4. Value' = Value
  BY <1>1, <1>2 DEF Value, InCall, Running
<1> QED
  BY <1>1, <1>3, <1>4

-----------------------------------------------------------------------------
(* The first activation has no parameters, so that it does not matter what *)
(* bp is in it.                                                            *)
LEMMA BaseOfMain ==
  ASSUME IInv, NEW a \in 1 .. Depth, NEW base, NEW st, a > 1 => base = Base(a)
  PROVE  ParamsIn(ctl[a].proc, base, st) = ParamsIn(ctl[a].proc, Base(a), st)
<1>1. Depth \in Nat
  BY TopFacts
<1>2. CASE a = 1
  <2>1. ctl[a].proc = Main /\ Params[Main] = 0
    BY <1>2, ProgramAssumption DEF IInv, ControlInv
  <2>2. 1 .. Params[ctl[a].proc] = {}
    BY <2>1
  <2> QED
    BY <2>2 DEF ParamsIn
<1>3. CASE a > 1
  BY <1>3
<1> QED
  BY <1>1, <1>2, <1>3

(* A call enters the procedure with the arguments as its parameters.       *)
LEMMA CallSim == IInv /\ Call => Abstract!Enter
<1> SUFFICES ASSUME IInv, Call, NEW D, D = Depth, NEW t, t = Len(stack), NEW n, n = NCalls
             PROVE  Abstract!Enter
  OBVIOUS
<1> DEFINE c == [Here EXCEPT !.phase = "active"]
           h == CallIn(Here, stack)
           q == Here.callee
           calls2 == CallsIn(ctl'[D].calls, stack')
           d == CallIn(c, stack')
           acts2 == [a \in 1 .. D |-> Activations'[a]]
<1>1. /\ D \in Nat /\ D >= 1 /\ Top = ctl[D] /\ t \in Nat /\ n \in Nat /\ n > 0
      /\ n = Len(Top.calls) /\ Here = Top.calls[n] /\ D \in 1 .. D /\ n \in 1 .. n
  <2>1. D \in Nat /\ D >= 1 /\ t \in Nat /\ n \in Nat
    BY TopFacts
  <2>2. n > 0
    BY CalledFacts
  <2>3. Top = ctl[D] /\ n = Len(Top.calls) /\ Here = Top.calls[n]
    BY DEF Top, NCalls, Here
  <2> QED
    BY <2>1, <2>2, <2>3
<1>2. /\ Here \in CallRecords /\ Here.callee \in Procs /\ Params[q] \in Nat
      /\ Here.phase = "args" /\ Len(Here.into) = Params[q] /\ ~known
      /\ Here.at \in Nat /\ Here.at > 0 /\ t = Here.at + Len(Here.into)
  <2>1. Here.phase = "args" /\ Len(Here.into) = Params[q] /\ ~known
    BY CalledFacts
  <2> QED
    BY <1>1, <2>1, HereFacts, HereArgs
<1>3. /\ c \in CallRecords /\ c.at = Here.at /\ c.into = Here.into /\ c.callee = q
      /\ c.todo = Here.todo /\ c.phase = "active"
  BY <1>2 DEF CallRecords
<1>4. /\ Depth' = D + 1
      /\ \A a \in 1 .. D - 1 : ctl'[a] = ctl[a]
      /\ ctl'[D].proc = Top.proc /\ Len(ctl'[D].calls) = n
      /\ \A k \in 1 .. n - 1 : ctl'[D].calls[k] = Top.calls[k]
      /\ ctl'[D].calls[n] = c
      /\ ctl'[D + 1].proc = q /\ ctl'[D + 1].calls = <<>>
  BY CalledFacts DEF Activation
<1> HIDE DEF c
<1>5. /\ bp' = t
      /\ \A j \in 1 .. t : stack'[j] = stack[j]
      /\ Len(saved') = D /\ \A a \in 1 .. D - 1 : saved'[a] = saved[a]
  BY CalledFacts
<1>6. /\ D > 1 => \A j \in 1 .. bp - 1 : stack'[j] = stack[j]
      /\ ParamsIn(Top.proc, bp, stack') = ParamsIn(Top.proc, bp, stack)
      /\ \A k \in 1 .. n - 1 : CallIn(Top.calls[k], stack') = CallIn(Top.calls[k], stack)
  <2>1. \A j \in 1 .. Here.at - 1 : stack'[j] = stack[j]
    <3> DEFINE x == Here.at
               m == Len(Here.into)
    <3>1. x \in Nat /\ m \in Nat /\ t = x + m
      BY <1>2
    <3> HIDE DEF x, m
    <3>2. \A j \in 1 .. x - 1 : j \in 1 .. t
      BY <1>1, <3>1
    <3> QED
      BY <1>5, <3>2 DEF x
  <2>2. NCalls > 0
    BY <1>1
  <2> QED
    BY <2>1, <2>2, BelowHere
<1>7. \A a \in 2 .. D : Base(a)' = Base(a)
  <2> TAKE a \in 2 .. D
  <2>1. a - 1 \in 1 .. D - 1 /\ a # D + 1
    BY <1>1
  <2>2. Base(a)' = saved[a - 1].bp
    BY <1>4, <1>5, <2>1 DEF Base
  <2>3. a = D => bp = saved[a - 1].bp
    BY DEF IInv, ControlInv
  <2> QED
    BY <2>2, <2>3 DEF Base
<1>8. \A a \in 1 .. D : ParamsIn(ctl[a].proc, Base(a)', stack') = ParamsIn(ctl[a].proc, Base(a), stack')
  <2> TAKE a \in 1 .. D
  <2>1. a > 1 => a \in 2 .. D
    BY <1>1
  <2>2. a > 1 => Base(a)' = Base(a)
    BY <1>7, <2>1
  <2> DEFINE base == Base(a)'
             st == stack'
  <2>3. a \in 1 .. Depth /\ (a > 1 => base = Base(a))
    BY <2>2
  <2> HIDE DEF base, st
  <2>4. ParamsIn(ctl[a].proc, base, st) = ParamsIn(ctl[a].proc, Base(a), st)
    BY <2>3, BaseOfMain
  <2> QED
    BY <2>4 DEF base, st
<1>9. /\ Activations = [a \in 1 .. D |-> ActIn(ctl[a], Base(a), stack)]
      /\ Activations' = [a \in 1 .. D + 1 |-> ActIn(ctl'[a], Base(a)', stack')]
  BY <1>4, ActivationsAre
<1>10. \A a \in 1 .. D - 1 : acts2[a] = Activations[a]
  <2> TAKE a \in 1 .. D - 1
  <2>1. a \in 1 .. D /\ a \in 1 .. D + 1 /\ D > 1 /\ a \in 1 .. Depth - 1
    BY <1>1
  <2>2. ActIn(ctl[a], Base(a)', stack') = ActIn(ctl[a], Base(a), stack')
    BY <1>8, <2>1 DEF ActIn
  <2>3. ActIn(ctl[a], Base(a), stack') = ActIn(ctl[a], Base(a), stack)
    BY <1>6, <2>1, WaitingStay
  <2>4. Activations'[a] = ActIn(ctl'[a], Base(a)', stack')
    BY <1>9, <2>1
  <2> QED
    BY <1>4, <1>9, <2>1, <2>2, <2>3, <2>4
<1>11. acts2[D] = [proc |-> Top.proc, params |-> ParamsIn(Top.proc, bp, stack), calls |-> calls2]
  <2>1. D \in 1 .. D + 1
    BY <1>1
  <2>2. acts2[D] = ActIn(ctl'[D], Base(D)', stack')
    BY <1>1, <1>9, <2>1
  <2>3. ParamsIn(Top.proc, Base(D)', stack') = ParamsIn(Top.proc, bp, stack)
    <3>1. Base(D) = bp
      BY DEF Base
    <3> QED
      BY <1>1, <1>6, <1>8, <3>1
  <2> QED
    BY <1>4, <2>2, <2>3 DEF ActIn
<1>12. /\ Abstract!Calls = CallsIn(Top.calls, stack) /\ Abstract!Calls # <<>>
       /\ Abstract!Now = ActIn(Top, bp, stack) /\ Abstract!Call = h
  BY <1>1, AbstractNow
<1>13. calls2 = Append(Abstract!Front(Abstract!Calls), d)
  <2>1. Listed(calls2, n) /\ calls2[n] = d
    BY <1>1, <1>4 DEF Listed, CallsIn
  <2>2. \A k \in 1 .. n - 1 : calls2[k] = Abstract!Calls[k]
    <3> HIDE DEF d
    <3> TAKE k \in 1 .. n - 1
    <3>1. k \in 1 .. n
      BY <1>1
    <3>2. calls2[k] = CallIn(ctl'[D].calls[k], stack') /\ Abstract!Calls[k] = CallIn(Top.calls[k], stack)
      BY <1>1, <1>4, <1>12, <3>1 DEF CallsIn
    <3> QED
      BY <1>4, <1>6, <3>2
  <2> HIDE DEF calls2, d
  <2>3. NCalls > 0 /\ Listed(calls2, NCalls) /\ \A k \in 1 .. NCalls - 1 : calls2[k] = Abstract!Calls[k]
    BY <1>1, <2>1, <2>2
  <2>4. calls2 = Append(Abstract!Front(Abstract!Calls), calls2[NCalls])
    BY <2>3, CallsAre
  <2> QED
    BY <2>1, <2>4
<1>14. d = [callee |-> q, args |-> <<>>, into |-> Here.into, phase |-> "active", todo |-> Here.todo]
  BY <1>3 DEF CallIn
<1>15. /\ h = [callee |-> q, args |-> h.args, into |-> Here.into, phase |-> "args",
               todo |-> Here.todo]
       /\ h.args = [i \in 1 .. Params[q] |-> stack[Here.at + i].of]
       /\ h.phase = "args" /\ h.callee = q
  BY <1>2 DEF CallIn
<1> HIDE DEF h, calls2, d, acts2
<1>16. d = [h EXCEPT !.phase = "active", !.args = <<>>]
  <2> DEFINE u == h.args
             r == Here.into
             w == Here.todo
             k == [h EXCEPT !.phase = "active"]
  <2>1. h = [callee |-> q, args |-> u, into |-> r, phase |-> "args", todo |-> w]
        /\ d = [callee |-> q, args |-> <<>>, into |-> r, phase |-> "active", todo |-> w]
    BY <1>14, <1>15
  <2>2. d = [[h EXCEPT !.phase = "active"] EXCEPT !.args = <<>>]
    <3> HIDE DEF q, u, r, w
    <3>1. k = [callee |-> q, args |-> u, into |-> r, phase |-> "active", todo |-> w]
      BY ONLY <2>1
    <3> HIDE DEF k
    <3>2. [k EXCEPT !.args = <<>>] =
            [callee |-> q, args |-> <<>>, into |-> r, phase |-> "active", todo |-> w]
      BY ONLY <3>1
    <3>3. d = [k EXCEPT !.args = <<>>]
      BY <2>1, <3>2
    <3> QED
      BY <3>3 DEF k
  <2> HIDE DEF k
  <2> QED
    BY <2>2
<1>17. acts2[D] = [Abstract!Now EXCEPT !.calls = Append(Abstract!Front(@), d)]
  <2>1. Abstract!Now = [proc |-> Top.proc, params |-> ParamsIn(Top.proc, bp, stack),
                        calls |-> Abstract!Calls]
    BY <1>12 DEF ActIn
  <2>2. [Abstract!Now EXCEPT !.calls = Append(Abstract!Front(Abstract!Now.calls), d)] =
          [proc |-> Top.proc, params |-> ParamsIn(Top.proc, bp, stack),
           calls |-> Append(Abstract!Front(Abstract!Now.calls), d)]
    BY <2>1
  <2>3. Abstract!Now.calls = Abstract!Calls
    BY DEF Abstract!Calls
  <2>4. [Abstract!Now EXCEPT !.calls = Append(Abstract!Front(Abstract!Now.calls), d)] = acts2[D]
    BY <1>11, <1>13, <2>2, <2>3
  <2> QED
    BY <2>4
<1>18. acts2 = Abstract!WithCall([Abstract!Call EXCEPT !.phase = "active", !.args = <<>>])
  <2>1. Listed(acts2, D)
    BY DEF Listed, acts2
  <2>2. acts2 = Abstract!WithNow(acts2[D])
    BY <1>10, <2>1, WithNowIs
  <2>3. acts2 = Abstract!WithCall(d)
    BY <1>17, <2>2 DEF Abstract!WithNow, Abstract!WithCall
  <2> QED
    BY <1>12, <1>16, <2>3
<1>19. Activations'[D + 1] = [proc |-> q, params |-> h.args, calls |-> <<>>]
  <2>1. D + 1 \in 1 .. D + 1 /\ Base(D + 1)' = t
    BY <1>1, <1>4, <1>5 DEF Base
  <2>2. ASSUME NEW i \in 1 .. Params[q]
        PROVE  stack'[Slot(q, t, i)] = stack[Here.at + i]
    <3> DEFINE x == Here.at
               m == Params[q]
    <3>1. Slot(q, t, i) = t - (m - i) /\ x \in Nat /\ m \in Nat /\ t = x + m /\ i \in 1 .. m /\ x > 0
      BY <1>2 DEF Slot
    <3> HIDE DEF x, m
    <3>2. Slot(q, t, i) = x + i /\ x + i \in 1 .. t
      BY <3>1
    <3> QED
      BY <1>5, <3>2 DEF x
  <2>3. ParamsIn(q, t, stack') = h.args
    BY <1>15, <2>2 DEF ParamsIn
  <2>4. CallsIn(<<>>, stack') = <<>>
    <3> DEFINE f == CallsIn(<<>>, stack')
    <3>1. Len(<<>>) = 0
      BY EmptySeq
    <3>2. Listed(f, 0)
      BY <3>1 DEF Listed, CallsIn
    <3> HIDE DEF f
    <3>3. f \in Seq({f[i] : i \in 1 .. 0}) /\ Len(f) = 0
      BY <3>2, IsSequence
    <3>4. f = <<>>
      BY <3>3, EmptySeq
    <3> QED
      BY <3>4 DEF f
  <2>5. Activations'[D + 1] = ActIn(ctl'[D + 1], Base(D + 1)', stack')
    BY <1>9, <2>1
  <2> QED
    BY <1>4, <2>1, <2>3, <2>4, <2>5 DEF ActIn
<1>20. Activations' = Append(acts2, Activations'[D + 1])
  <2> DEFINE b == Activations'
  <2>1. Listed(b, D + 1)
    BY <1>9 DEF Listed
  <2>2. Listed(acts2, D) /\ \A i \in 1 .. D : b[i] = acts2[i]
    BY DEF acts2, Listed
  <2> HIDE DEF b
  <2>3. b = Append(acts2, b[D + 1])
    BY <1>1, <2>1, <2>2, AppendIs
  <2> QED
    BY <2>3 DEF b
<1>21. Value' = NoValue
  <2>1. NCalls' = 0
    <3>1. Top'.calls = <<>>
      BY <1>4 DEF Top
    <3> QED
      BY <3>1 DEF NCalls
  <2>2. known' = FALSE
    BY <1>2 DEF Call, IInv, TypeOK
  <2> QED
    BY <2>1, <2>2, NoValueNext
<1>22. Len(h.args) = Params[q]
  <2>1. Listed(h.args, Params[q])
    BY <1>15 DEF Listed
  <2> QED
    BY <1>2, <2>1, Lists
<1>23. UNCHANGED global
  BY DEF Call
<1> HIDE DEF q
<1> QED
  BY <1>12, <1>15, <1>18, <1>19, <1>20, <1>21, <1>22, <1>23 DEF Abstract!Enter

-----------------------------------------------------------------------------
(* A return hands the parameters, which are the entries of the arguments,  *)
(* to the call.                                                            *)
LEMMA ReturnSim == IInv /\ Return => Abstract!Return
<1> SUFFICES ASSUME IInv, Return, NEW D, D = Depth, NEW E, E = Depth - 1, NEW t, t = Len(stack),
                    NEW n, n = Len(ctl[E].calls), NEW p, p = Top.proc
             PROVE  Abstract!Return
  OBVIOUS
<1>0. ReturnStep(E, n)
  BY ReturnedFacts
<1> DEFINE b == ctl[E].calls[n]
           c == Returned(b)
           h == CallIn(b, stack)
           d == CallIn(c, stack')
           calls1 == CallsIn(ctl[E].calls, stack)
           calls2 == CallsIn(ctl'[E].calls, stack')
           q == ParamsIn(p, bp, stack)
           par == ParamsIn(ctl[E].proc, Base(E), stack)
<1>1. /\ E \in Nat /\ E >= 1 /\ Running /\ n \in Nat /\ n > 0 /\ NCalls = 0
      /\ b \in CallRecords /\ b.callee = p /\ p \in Procs
      /\ t \in Nat \ {0} /\ D \in Nat /\ D = E + 1 /\ E = D - 1 /\ E \in 1 .. D /\ E # D
      /\ D \in 2 .. D /\ D > 1 /\ n \in 1 .. n
  <2>1. Depth \in Nat /\ p \in Procs
    BY TopFacts
  <2>2. E \in Nat /\ E >= 1 /\ Running /\ n \in Nat /\ n > 0 /\ NCalls = 0
        /\ b \in CallRecords /\ b.callee = Top.proc
        /\ t \in Nat \ {0}
    BY <1>0 DEF ReturnStep
  <2> QED
    BY <2>1, <2>2
<1>2. /\ c \in CallRecords /\ c.at = b.at /\ c.into = b.into /\ c.callee = p
      /\ c.todo = Refs[p] /\ c.phase = "back"
  <2>1. c \in CallRecords
    BY <1>0 DEF ReturnStep
  <2> QED
    BY <1>1, <2>1 DEF CallRecords, Returned
<1>3. /\ Depth' = E
      /\ \A a \in 1 .. E - 1 : ctl'[a] = ctl[a]
      /\ ctl'[E].proc = ctl[E].proc /\ Len(ctl'[E].calls) = n
      /\ \A k \in 1 .. n - 1 : ctl'[E].calls[k] = ctl[E].calls[k]
      /\ ctl'[E].calls[n] = c
  <2>1. /\ Depth' = E
        /\ \A a \in 1 .. E - 1 : ctl'[a] = ctl[a]
        /\ ctl'[E].proc = ctl[E].proc
    BY <1>0 DEF ReturnStep
  <2>2. Len(ctl'[E].calls) = n
    BY <1>0 DEF ReturnStep
  <2>3. \A k \in 1 .. n - 1 : ctl'[E].calls[k] = ctl[E].calls[k]
    <3>1. OthersStay(E, n)
      BY <1>0 DEF ReturnStep
    <3> QED
      BY <3>1 DEF OthersStay
  <2>4. ctl'[E].calls[n] = c
    BY <1>0 DEF ReturnStep
  <2> QED
    BY <2>1, <2>2, <2>3, <2>4
<1>4. /\ \A j \in 1 .. t - 1 : stack'[j] = stack[j]
      /\ saved[E].bp = t - 1
      /\ \A a \in 1 .. E - 1 : saved'[a] = saved[a]
      /\ E > 1 => bp' = saved[E - 1].bp
  BY <1>0 DEF ReturnStep
<1>5. bp = t - 1 /\ Base(D) = bp
  <2>1. bp = saved[E].bp
    BY <1>1 DEF IInv, ControlInv
  <2> QED
    BY <1>4, <2>1 DEF Base
(* The activations that wait.                                              *)
<1>6. \A a \in 1 .. E : ActIn(ctl[a], Base(a), stack') = ActIn(ctl[a], Base(a), stack)
  <2> TAKE a \in 1 .. E
  <2>1. a \in 1 .. Depth - 1 /\ \A j \in 1 .. bp - 1 : j \in 1 .. t - 1
    BY <1>1, <1>5
  <2> QED
    BY <1>4, <2>1, WaitingStay
<1>7. \A a \in 2 .. E : Base(a)' = Base(a)
  <2> TAKE a \in 2 .. E
  <2>1. a # D /\ (a = E \/ a - 1 \in 1 .. E - 1) /\ (a = E => E > 1)
    BY <1>1
  <2>2. a # E => Base(a)' = saved[a - 1].bp
    BY <1>3, <1>4, <2>1 DEF Base
  <2>3. a = E => Base(a)' = saved[a - 1].bp
    BY <1>3, <1>4, <2>1 DEF Base
  <2> QED
    BY <2>1, <2>2, <2>3 DEF Base
<1>8. \A a \in 1 .. E : ParamsIn(ctl[a].proc, Base(a)', stack') = ParamsIn(ctl[a].proc, Base(a), stack')
  <2> TAKE a \in 1 .. E
  <2>1. a > 1 => a \in 2 .. E
    BY <1>1
  <2>2. a > 1 => Base(a)' = Base(a)
    BY <1>7, <2>1
  <2> DEFINE base == Base(a)'
             st == stack'
  <2>3. a \in 1 .. Depth /\ (a > 1 => base = Base(a))
    BY <1>1, <2>2
  <2> HIDE DEF base, st
  <2>4. ParamsIn(ctl[a].proc, base, st) = ParamsIn(ctl[a].proc, Base(a), st)
    BY <2>3, BaseOfMain
  <2> QED
    BY <2>4 DEF base, st
<1>9. /\ Activations = [a \in 1 .. D |-> ActIn(ctl[a], Base(a), stack)]
      /\ Activations' = [a \in 1 .. E |-> ActIn(ctl'[a], Base(a)', stack')]
  BY <1>3, ActivationsAre
<1>10. \A a \in 1 .. E - 1 : Activations'[a] = Activations[a]
  <2> TAKE a \in 1 .. E - 1
  <2>1. a \in 1 .. D /\ a \in 1 .. E
    BY <1>1
  <2>2. ActIn(ctl[a], Base(a)', stack') = ActIn(ctl[a], Base(a), stack')
    BY <1>8, <2>1 DEF ActIn
  <2>3. Activations'[a] = ActIn(ctl'[a], Base(a)', stack') /\ Activations[a] = ActIn(ctl[a], Base(a), stack)
    BY <1>9, <2>1
  <2> QED
    BY <1>3, <1>6, <2>1, <2>2, <2>3
<1>11. /\ Activations[E] = [proc |-> ctl[E].proc, params |-> par, calls |-> calls1]
       /\ ParamsIn(ctl[E].proc, Base(E), stack') = par
       /\ CallsIn(ctl[E].calls, stack') = calls1
  <2>1. E \in 1 .. E
    BY <1>1
  <2>2. ActIn(ctl[E], Base(E), stack') = ActIn(ctl[E], Base(E), stack)
    BY <1>6, <2>1
  <2>3. Activations[E] = ActIn(ctl[E], Base(E), stack)
    BY <1>1, <1>9
  <2> QED
    BY <2>2, <2>3 DEF ActIn
<1>12. Activations'[E] = [proc |-> ctl[E].proc, params |-> par, calls |-> calls2]
  <2>1. E \in 1 .. E
    BY <1>1
  <2>2. Activations'[E] = ActIn(ctl'[E], Base(E)', stack')
    BY <1>9, <2>1
  <2>3. ParamsIn(ctl[E].proc, Base(E)', stack') = par
    BY <1>8, <1>11, <2>1
  <2> QED
    BY <1>3, <2>2, <2>3 DEF ActIn
<1>13. Listed(calls1, n) /\ Len(calls1) = n /\ calls1[n] = h
  <2>1. Listed(calls1, n) /\ calls1[n] = h
    BY <1>1 DEF Listed, CallsIn
  <2> QED
    BY <1>1, <2>1, Lists
<1>14. calls2 = Append(Abstract!Front(calls1), d)
  <2>1. Listed(calls2, n) /\ calls2[n] = d
    <3> HIDE DEF d, c
    <3> QED
      BY <1>1, <1>3 DEF Listed, CallsIn, d
  <2>2. \A k \in 1 .. n - 1 : calls2[k] = calls1[k]
    <3> HIDE DEF d, c
    <3> TAKE k \in 1 .. n - 1
    <3>1. k \in 1 .. n
      BY <1>1
    <3>2. calls2[k] = CallIn(ctl'[E].calls[k], stack')
      BY <1>3, <3>1 DEF CallsIn
    <3>3. CallsIn(ctl[E].calls, stack')[k] = CallIn(ctl[E].calls[k], stack')
      BY <3>1 DEF CallsIn
    <3> QED
      BY <1>3, <1>11, <3>2, <3>3
  <2> HIDE DEF calls1, calls2, d
  <2>3. n \in Nat \ {0}
    BY <1>1
  <2>4. calls2 = Append(SubSeq(calls1, 1, n - 1), calls2[n])
    BY <1>13, <2>1, <2>2, <2>3, ReplaceLast
  <2> QED
    BY <1>13, <2>1, <2>4 DEF Abstract!Front
(* What the call shows now.                                                *)
<1>15. /\ b.phase = "active" /\ Len(b.into) = Params[p]
       /\ \A i \in 1 .. Params[p] :
            Slot(p, bp, i) = b.at + i /\ b.at + i \in 1 .. bp
  <2>1. D \in 2 .. Depth /\ E = D - 1
    BY <1>1
  <2>2. /\ ctl[D - 1].calls[Len(ctl[D - 1].calls)].phase = "active"
        /\ Len(ctl[D - 1].calls[Len(ctl[D - 1].calls)].into) = Params[ctl[D].proc]
    BY <2>1, ParamFacts
  <2>3. \A i \in 1 .. Params[ctl[D].proc] :
          /\ Slot(ctl[D].proc, Base(D), i) = ctl[D - 1].calls[Len(ctl[D - 1].calls)].at + i
          /\ ctl[D - 1].calls[Len(ctl[D - 1].calls)].at + i \in 1 .. Base(D)
    BY <2>1, ParamFacts
  <2>4. ctl[D].proc = p /\ b = ctl[D - 1].calls[Len(ctl[D - 1].calls)]
    BY <2>1 DEF Top
  <2> HIDE DEF b
  <2> QED
    BY <1>5, <2>2, <2>3, <2>4
<1>16. [i \in 1 .. Len(b.into) |-> stack'[b.at + i].of] = q
  <2>1. \A i \in 1 .. Params[p] : stack'[b.at + i] = stack[Slot(p, bp, i)]
    <3> TAKE i \in 1 .. Params[p]
    <3> DEFINE x == b.at + i
    <3>1. Slot(p, bp, i) = x /\ x \in 1 .. bp
      BY <1>15
    <3> HIDE DEF x
    <3>2. stack'[x] = stack[x]
      BY <1>4, <1>5, <3>1
    <3> QED
      BY <3>1, <3>2 DEF x
  <2> HIDE DEF b
  <2> QED
    BY <1>15, <2>1 DEF ParamsIn
<1>17. d = [callee |-> p, args |-> q, into |-> b.into, phase |-> "back", todo |-> Refs[p]]
  <2> HIDE DEF c, b, q
  <2> QED
    BY <1>2, <1>16 DEF CallIn
<1>18. h = [callee |-> p, args |-> <<>>, into |-> b.into, phase |-> "active", todo |-> b.todo]
  <2> HIDE DEF b
  <2> QED
    BY <1>1, <1>15 DEF CallIn
<1>19. d = [h EXCEPT !.phase = "back", !.args = q, !.todo = Refs[p]]
  <2> DEFINE r == b.into
             u == b.todo
             w == Refs[p]
             k == [h EXCEPT !.phase = "back"]
             l == [k EXCEPT !.args = q]
  <2>1. h = [callee |-> p, args |-> <<>>, into |-> r, phase |-> "active", todo |-> u]
        /\ d = [callee |-> p, args |-> q, into |-> r, phase |-> "back", todo |-> w]
    BY <1>17, <1>18
  <2>2. d = [[[h EXCEPT !.phase = "back"] EXCEPT !.args = q] EXCEPT !.todo = w]
    <3> HIDE DEF h, d, r, u, w, q
    <3>1. k = [callee |-> p, args |-> <<>>, into |-> r, phase |-> "back", todo |-> u]
      BY ONLY <2>1
    <3> HIDE DEF k
    <3>2. l = [callee |-> p, args |-> q, into |-> r, phase |-> "back", todo |-> u]
      BY ONLY <3>1
    <3> HIDE DEF l
    <3>3. [l EXCEPT !.todo = w] =
            [callee |-> p, args |-> q, into |-> r, phase |-> "back", todo |-> w]
      BY ONLY <3>2
    <3>4. d = [l EXCEPT !.todo = w]
      BY <2>1, <3>3
    <3> QED
      BY <3>4 DEF k, l
  <2> HIDE DEF d, k, l, h, q
  <2> QED
    BY <2>2
<1> HIDE DEF h, d, calls1, calls2, q, par, c, b
(* The activations are those below the caller, and the caller.             *)
<1>20. Activations' = Append(SubSeq(Activations, 1, D - 2), Activations'[E])
  <2> DEFINE f == SubSeq(Activations, 1, E - 1)
             S == {Activations[i] : i \in 1 .. D}
             s == Activations'
  <2>1. Listed(Activations, D) /\ Listed(s, (E - 1) + 1) /\ D - 2 = E - 1
    BY <1>1, <1>9 DEF Listed
  <2>2. Activations \in Seq(S) /\ Len(Activations) = D
    BY <1>1, <2>1, IsSequence
  <2>3. E - 1 \in 0 .. D
    BY <1>1
  <2>4. f \in Seq(S) /\ Len(f) = E - 1 /\ \A a \in 1 .. E - 1 : f[a] = Activations[a]
    <3> HIDE DEF S
    <3> QED
      BY <2>2, <2>3, CutOff
  <2>5. Listed(f, E - 1)
    <3> HIDE DEF S, f
    <3> QED
      BY <2>4, LenProperties, SeqDef DEF Listed
  <2>6. \A i \in 1 .. E - 1 : s[i] = f[i]
    BY <1>10, <2>4
  <2>7. E - 1 \in Nat /\ (E - 1) + 1 = E
    BY <1>1
  <2> HIDE DEF f, S, s
  <2>8. s = Append(f, s[(E - 1) + 1])
    BY <2>1, <2>5, <2>6, <2>7, AppendIs
  <2> QED
    BY <2>1, <2>7, <2>8 DEF f, s
<1>21. Activations'[E] = [Activations[E] EXCEPT !.calls = Append(Abstract!Front(@), d)]
  <2> DEFINE x == Activations[E]
             y == Activations'[E]
             g == ctl[E].proc
  <2>1. x = [proc |-> g, params |-> par, calls |-> calls1]
        /\ y = [proc |-> g, params |-> par, calls |-> Append(Abstract!Front(calls1), d)]
    BY <1>11, <1>12, <1>14
  <2> DEFINE z == Append(Abstract!Front(calls1), d)
  <2> HIDE DEF x, y, g
  <2>2. x.calls = calls1
    BY <2>1
  <2>3. [x EXCEPT !.calls = z] = [proc |-> g, params |-> par, calls |-> z]
    <3> HIDE DEF z
    <3> QED
      BY ONLY <2>1
  <2>4. y = [x EXCEPT !.calls = Append(Abstract!Front(x.calls), d)]
    BY <2>1, <2>2, <2>3
  <2>5. y = [x EXCEPT !.calls = Append(Abstract!Front(@), d)]
    BY <2>4
  <2> QED
    BY <2>5 DEF x, y
<1>22. /\ Abstract!Depth = D /\ Abstract!Calls = <<>>
       /\ Abstract!Now.params = q /\ Abstract!Now.proc = p
  BY <1>1, AbstractNow DEF ActIn, q
<1>23. Abstract!Last(Activations[E].calls) = h
  BY <1>11, <1>13 DEF Abstract!Last
<1>24. Value = IF known THEN regi ELSE NoValue
  BY <1>1, ValueNow DEF InCall
<1>25. Returns[p] => known /\ Value = regi /\ regi \in Values /\ Value # NoValue
  BY <1>24, ProgramAssumption DEF Return, IInv, TypeOK
<1>26. Value' = IF Returns[p] THEN Value ELSE NoValue
  <2>1. NCalls' = n /\ Here' = c
    BY <1>3 DEF NCalls, Here, Top
  <2>2. InCall("back")' /\ known' = FALSE /\ Here'.callee = p
    <3>1. Running' /\ known' = FALSE
      BY <1>1 DEF Return, Running
    <3>2. NCalls' # 0 /\ Here'.phase = "back" /\ Here'.callee = p
      BY <1>1, <1>2, <2>1
    <3> QED
      BY <3>1, <3>2 DEF InCall
  <2>3. Value' = IF Returns[p] THEN rvi' ELSE NoValue
    BY <2>2 DEF Value
  <2> QED
    BY <1>25, <2>3 DEF Return
<1>27. UNCHANGED global
  BY DEF Return
<1>28. Activations' = Append(SubSeq(Activations, 1, Abstract!Depth - 2),
         [Activations[Abstract!Depth - 1] EXCEPT !.calls = Append(Abstract!Front(@),
           [Abstract!Last(Activations[Abstract!Depth - 1].calls) EXCEPT
              !.phase = "back", !.args = Abstract!Now.params, !.todo = Refs[Abstract!Now.proc]])]
  )
  <2>1. Abstract!Depth - 1 = E
    BY <1>1, <1>22
  <2> QED
    BY <1>19, <1>20, <1>21, <1>22, <1>23, <2>1
<1> QED
  BY <1>1, <1>22, <1>25, <1>26, <1>27, <1>28 DEF Abstract!Return

-----------------------------------------------------------------------------
(* A program starts in an initial state of the abstract machine.           *)
LEMMA InitSim == Init => Abstract!Init
<1> SUFFICES ASSUME Init
             PROVE  Abstract!Init
  OBVIOUS
<1> DEFINE e == [proc |-> Main, params |-> <<>>, calls |-> <<>>]
<1>1. IInv
  BY InitIInv
<1>2. ctl = <<Activation(Main)>> /\ known = FALSE /\ global \in [Globals -> Values]
  BY DEF Init
<1>3. /\ Depth = 1 /\ ctl[1] = Activation(Main) /\ Activation(Main).proc = Main
      /\ Activation(Main).calls = <<>>
  <2>1. Activation(Main).proc = Main /\ Activation(Main).calls = <<>>
    BY DEF Activation
  <2> HIDE DEF Activation
  <2> QED
    BY <1>2, <2>1 DEF Depth
<1>4. NCalls = 0
  BY <1>3 DEF NCalls, Top
(* Functions of nothing are sequences of nothing.                          *)
<1>5. \A f : Listed(f, 0) => f = <<>>
  <2> TAKE f
  <2> SUFFICES ASSUME Listed(f, 0)
               PROVE  f = <<>>
    OBVIOUS
  <2>1. f \in Seq({f[i] : i \in 1 .. 0}) /\ Len(f) = 0
    BY IsSequence
  <2> QED
    BY <2>1, EmptySeq
<1>6. ActIn(ctl[1], Base(1), stack) = e
  <2>1. ParamsIn(Main, Base(1), stack) = <<>>
    <3>1. Params[Main] = 0
      BY ProgramAssumption
    <3>2. Listed(ParamsIn(Main, Base(1), stack), 0)
      BY <3>1 DEF Listed, ParamsIn
    <3> QED
      BY <1>5, <3>2
  <2>2. CallsIn(<<>>, stack) = <<>>
    <3>1. Listed(CallsIn(<<>>, stack), 0)
      BY EmptySeq DEF Listed, CallsIn
    <3> QED
      BY <1>5, <3>1
  <2> QED
    BY <1>3, <2>1, <2>2 DEF ActIn
<1>7. Activations = <<e>>
  <2> DEFINE u == Activations
             w == <<e>>
  <2>1. u = [a \in 1 .. 1 |-> ActIn(ctl[a], Base(a), stack)]
    BY <1>3, ActivationsAre
  <2>2. Listed(u, 1) /\ u[1] = e
    <3> HIDE DEF e
    <3>1. Listed(u, 1)
      BY <2>1 DEF Listed
    <3> QED
      BY <1>6, <2>1, <3>1
  <2>3. Listed(w, 1) /\ w[1] = e
    <3> HIDE DEF e
    <3> QED
      BY DEF Listed
  <2> HIDE DEF u, w, e
  <2>4. \A i \in 1 .. 1 : u[i] = w[i]
    BY <2>2, <2>3
  <2>5. u = w
    BY <2>2, <2>3, <2>4, SameFunction
  <2> QED
    BY <2>5 DEF u, w
<1>8. Value = NoValue
  BY <1>2, <1>4 DEF Value, InCall
<1> QED
  BY <1>2, <1>7, <1>8 DEF Abstract!Init

(* Every step is one of the abstract machine, or changes nothing there.    *)
LEMMA NextSim ==
  ASSUME OnlyLastAssigned, ReturnsOrRefers
  PROVE  IInv /\ [Next]_vars => [Abstract!Next]_(Abstract!procVars)
<1> SUFFICES ASSUME IInv, [Next]_vars
             PROVE  Abstract!Next \/ UNCHANGED <<global, Activations, Value>>
  BY DEF Abstract!procVars
<1>1. CASE Load
  BY <1>1, LoadSim DEF Abstract!Next
<1>2. CASE \E g \in Globals : AssignGlobal(g)
  BY <1>2, AssignGlobalSim DEF Abstract!Next
<1>3. CASE \E p \in Procs : \E i \in Assigns[p] : AssignParam(i)
  <2>1. PICK i : AssignParam(i)
    BY <1>3
  <2>2. i \in 1 .. Params[Top.proc] /\ Abstract!AssignParam(i)
    BY <2>1, AssignParamSim
  <2>3. Top.proc \in Procs
    BY TopFacts
  <2> QED
    BY <2>2, <2>3 DEF Abstract!Next
<1>4. CASE \E q \in Procs : Begin(q)
  BY <1>4, BeginSim DEF Abstract!Next
<1>5. CASE PushValue
  BY <1>5, PushValueSim DEF Abstract!Next
<1>6. CASE \E g \in Globals : PushVariable(g)
  BY <1>6, PushVariableSim DEF Abstract!Next
<1>7. CASE Call
  BY <1>7, CallSim DEF Abstract!Next
<1>8. CASE CallTooDeep \/ ExitProgram
  BY <1>8, StopSim
<1>9. CASE Return
  BY <1>9, ReturnSim DEF Abstract!Next
<1>10. CASE TakeResult
  BY <1>10, TakeResultSim
<1>11. CASE \E i \in UNION {Refs[p] : p \in Procs} : FetchRef(i)
  BY <1>11, FetchRefSim DEF Abstract!Next
<1>12. CASE CloseCall
  BY <1>12, CloseCallSim DEF Abstract!Next
<1>13. CASE UNCHANGED vars
  BY <1>13, StutterSim
<1> QED
  BY <1>1, <1>2, <1>3, <1>4, <1>5, <1>6, <1>7, <1>8, <1>9, <1>10, <1>11, <1>12, <1>13 DEF Next

(* Calls behave as a script expects, at any depth of recursion and of      *)
(* calls in arguments: for programs that assign only the last of the       *)
(* parameters of a procedure, and whose procedures do not return a value   *)
(* and have parameters declared with & as well.                            *)
THEOREM ProceduresImplemented ==
  ASSUME OnlyLastAssigned, ReturnsOrRefers
  PROVE  Spec => ImplementsProcedures
<1>1. Init => Abstract!Init
  BY InitSim
<1>2. IInv /\ [Next]_vars => [Abstract!Next]_(Abstract!procVars)
  BY NextSim
<1> QED
  BY Invariance, <1>1, <1>2, PTL DEF Spec, ImplementsProcedures, Abstract!Spec
=============================================================================
