--------------------------- MODULE NapRuntimeProofs ---------------------------
(***************************************************************************)
(* Proofs about NapRuntime, for every number of runtimes, compilers,       *)
(* scripts, bins and machines.                                             *)
(*                                                                         *)
(* The invariant says which compilers are alive (CompilersInv), what the   *)
(* machines that run are and what they run (RunsInv), that no table of a   *)
(* machine is overfull (TablesInv), that what did not compile is in no     *)
(* chunk (CodeInv), what the bins hold (BinsInv), and how many machines    *)
(* there are (CountInv).                                                   *)
(***************************************************************************)
EXTENDS NapRuntime, FiniteSetTheorems, SequenceTheorems, TLAPS

(* The values of the variables.                                            *)
Chunks == Seq(Scripts)

MachineRecords == [chunks : Seq(Chunks), allocated : Nat, reg0 : Nat]

RuntimeRecords ==
  [compiler : Addresses, vm : MachineRecords \cup {None}, chunks : Seq(Chunks)]

CompilerRecords == [read : Chunks, error : BOOLEAN]

RunRecords ==
  [kind : {"execute", "code", "script"}, of : Runtimes, compiler : Addresses \cup {None},
   asked : Scripts, chunk : Chunks, vm : MachineRecords, failed : BOOLEAN]

BinRecords ==
  [minstance : BOOLEAN, items : SUBSET (1 .. MaxBins), pinstances : [Addresses -> 0 .. MaxBins],
   objects : SUBSET (Addresses \X (1 .. MaxBins)), stale : SUBSET Addresses,
   leaked : BOOLEAN, fault : BOOLEAN]

TypeOK ==
  /\ runtimes \in [DOMAIN runtimes -> RuntimeRecords]
  /\ DOMAIN runtimes \subseteq Runtimes /\ IsFiniteSet(DOMAIN runtimes)
  /\ compilers \in [DOMAIN compilers -> CompilerRecords]
  /\ DOMAIN compilers \subseteq Addresses
  /\ bin \in BinRecords
  /\ run \in Seq(RunRecords)
  /\ machines \in Int /\ lost \in Int
  /\ status \in {"running", "wild"} /\ early \in BOOLEAN

(* The lowest machine was started by the host, all others by the one below *)
(* it; their runtime is alive, and if its own machine runs it is there.    *)
(* Such a child has been given the script that was asked for.              *)
RunInv(i) ==
  /\ run[i].kind = "script" <=> i > 1
  /\ run[i].of \in DOMAIN runtimes
  /\ run[i].kind = "execute" =>
       /\ runtimes[run[i].of].vm # None
       /\ Len(run[i].chunk) > 0 /\ run[i].asked = Last(run[i].chunk)
  /\ run[i].kind # "execute" => run[i].chunk = <<run[i].asked>>

RunsInv == \A i \in 1 .. Len(run) : RunInv(i)

(* The compilers alive are those of the runtimes, each its own, and that   *)
(* of nap_execute_code, which waits for its machine.                       *)
CompilersInv ==
  /\ \A r, q \in DOMAIN runtimes : runtimes[r].compiler = runtimes[q].compiler => r = q
  /\ \A r \in DOMAIN runtimes : runtimes[r].compiler \in DOMAIN compilers
  /\ \A i \in 1 .. Len(run) :
       run[i].kind = "code" =>
         /\ run[i].compiler \in DOMAIN compilers
         /\ \A r \in DOMAIN runtimes : runtimes[r].compiler # run[i].compiler
  /\ \A a \in DOMAIN compilers :
       \/ \E r \in DOMAIN runtimes : runtimes[r].compiler = a
       \/ \E i \in 1 .. Len(run) : run[i].kind = "code" /\ run[i].compiler = a

(* A table has room for what is in it.                                     *)
Holds(m) == m.allocated > 0 /\ Len(m.chunks) <= m.allocated

TablesInv ==
  /\ \A r \in DOMAIN runtimes : runtimes[r].vm # None => Holds(runtimes[r].vm)
  /\ \A i \in 1 .. Len(run) : Holds(run[i].vm)

(* A compiler without an error has read only what compiles.                *)
Good(c) == \A k \in 1 .. Len(c) : c[k] \notin Bad

CodeInv ==
  /\ \A a \in DOMAIN compilers : ~compilers[a].error => Good(compilers[a].read)
  /\ \A r \in DOMAIN runtimes : \A k \in 1 .. Len(runtimes[r].chunks) :
       Len(runtimes[r].chunks[k]) > 0 /\ Good(runtimes[r].chunks[k])
  /\ \A i \in 1 .. Len(run) : Good(run[i].chunk)

(* What the bins g hold belongs to the compilers A, which are known.       *)
Owned(g, A) ==
  /\ ~g.minstance => g.items = {} /\ g.objects = {}
  /\ \A o \in g.objects : o[1] \in A /\ g.pinstances[o[1]] # 0

(* Nothing has gone wrong with the bins, and every compiler that is known  *)
(* is one of A and has its bin.                                            *)
Intact(g, A) ==
  /\ ~g.fault /\ ~g.leaked /\ g.stale = {}
  /\ \A a \in Addresses : g.pinstances[a] # 0 => a \in A /\ g.pinstances[a] \in g.items

BinsInv ==
  /\ Running => Owned(bin, DOMAIN compilers)
  /\ ~early => Intact(bin, DOMAIN compilers)

(* The machines allocated are those the runtimes have, the children that   *)
(* run, and those the host has replaced.                                   *)
Owners   == {r \in DOMAIN runtimes : runtimes[r].vm # None}
Children == {i \in 1 .. Len(run) : run[i].kind # "execute"}

CountInv == machines = Cardinality(Owners) + Cardinality(Children) + lost

IInv ==
  TypeOK /\ RunsInv /\ CompilersInv /\ TablesInv /\ CodeInv /\ BinsInv /\ CountInv

-----------------------------------------------------------------------------
(* The bins.  A compiler is made: it is known to nobody yet.               *)
LEMMA BinsConstruct ==
  ASSUME NEW g \in BinRecords, NEW a \in Addresses, NEW A, NEW h, h = Construct(g, a)
  PROVE  /\ h \in BinRecords /\ h.pinstances = g.pinstances
         /\ Owned(g, A) => Owned(h, A \cup {a})
         /\ Intact(g, A) => Intact(h, A \cup {a})
<1>1. h \in BinRecords
  BY DEF Construct, BinRecords
<1>2. /\ h.pinstances = g.pinstances /\ h.items = g.items /\ h.objects = g.objects
      /\ h.leaked = g.leaked /\ h.fault = g.fault /\ h.minstance /\ h.stale = g.stale \ {a}
  BY DEF Construct, BinRecords
<1> QED
  BY <1>1, <1>2 DEF Owned, Intact

(* It compiles: what it has placed is its own, the other compilers keep    *)
(* their bins.                                                             *)
LEMMA BinsCompile ==
  ASSUME NEW g \in BinRecords, NEW a \in Addresses, NEW A, a \in A, NEW h \in Compiled(g, a)
  PROVE  /\ h \in BinRecords
         /\ \A b \in Addresses : b # a => h.pinstances[b] = g.pinstances[b]
         /\ Owned(g, A) => Owned(h, A)
         /\ Intact(g, A) => Intact(h, A)
<1> DEFINE old == g.pinstances[a]
           new == CHOOSE b \in NewBin(g) : TRUE
<1>1. /\ g.pinstances \in [Addresses -> 0 .. MaxBins] /\ g.items \subseteq 1 .. MaxBins
      /\ g.objects \subseteq Addresses \X (1 .. MaxBins) /\ old \in 0 .. MaxBins
      /\ g.minstance \in BOOLEAN
  BY DEF BinRecords
<1>2. CASE h = g
  BY <1>2
<1>3. CASE old = 0 /\ h # g
  <2>1. NewBin(g) # {} /\ h = Place(g, a)
    BY <1>3 DEF Compiled
  <2>2. new \in NewBin(g)
    BY <2>1
  <2>3. new \in 1 .. MaxBins /\ new # 0
    BY <2>2, RuntimeAssumption DEF NewBin
  <2> DEFINE p == [g.pinstances EXCEPT ![a] = new]
             i == g.items \cup {new}
             o == g.objects \cup {<<a, new>>}
  <2>4. h = [g EXCEPT !.minstance = TRUE, !.items = i, !.pinstances = p, !.objects = o]
    BY <1>3, <2>1 DEF Place, BinRecords
  <2>5. /\ p \in [Addresses -> 0 .. MaxBins] /\ i \in SUBSET (1 .. MaxBins)
        /\ o \in SUBSET (Addresses \X (1 .. MaxBins))
        /\ p[a] = new /\ \A b \in Addresses : b # a => p[b] = g.pinstances[b]
    <3>1. new \in 0 .. MaxBins
      BY <2>3, RuntimeAssumption
    <3> HIDE DEF new
    <3>2. p \in [Addresses -> 0 .. MaxBins]
      BY <1>1, <3>1
    <3>3. p[a] = new /\ \A b \in Addresses : b # a => p[b] = g.pinstances[b]
      BY <1>1
    <3>4. i \in SUBSET (1 .. MaxBins) /\ o \in SUBSET (Addresses \X (1 .. MaxBins))
      BY <1>1, <2>3
    <3> QED
      BY <3>2, <3>3, <3>4
  <2> HIDE DEF p, i, o
  <2>6. h \in BinRecords
    BY <2>4, <2>5 DEF BinRecords
  <2>7. /\ h.pinstances = p /\ h.items = i /\ h.objects = o /\ h.minstance
        /\ h.leaked = g.leaked /\ h.fault = g.fault /\ h.stale = g.stale
    BY <2>4 DEF BinRecords
  <2>8. ASSUME Owned(g, A) PROVE Owned(h, A)
    <3>1. \A x \in o : x \in g.objects \/ x = <<a, new>>
      BY DEF o
    <3>2. \A x \in g.objects : x[1] \in Addresses
      BY <1>1
    <3>3. \A x \in o : x[1] \in A /\ p[x[1]] # 0
      BY <2>3, <2>5, <2>8, <3>1, <3>2 DEF Owned
    <3> QED
      BY <2>7, <3>3 DEF Owned
  <2>9. ASSUME Intact(g, A) PROVE Intact(h, A)
    BY <2>3, <2>5, <2>7, <2>9 DEF Intact, i
  <2> QED
    BY <2>5, <2>6, <2>7, <2>8, <2>9
<1>4. CASE old # 0 /\ old \in g.items /\ h # g
  <2> DEFINE o == g.objects \cup {<<a, old>>}
  <2>1. h = [g EXCEPT !.objects = o]
    BY <1>4 DEF Compiled, Place
  <2>2. o \in SUBSET (Addresses \X (1 .. MaxBins))
    BY <1>1, <1>4
  <2>3. \A x \in o : x \in g.objects \/ x = <<a, old>>
    OBVIOUS
  <2> HIDE DEF o
  <2>4. h \in BinRecords
    BY <2>1, <2>2 DEF BinRecords
  <2>5. /\ h.pinstances = g.pinstances /\ h.items = g.items /\ h.objects = o
        /\ h.minstance = g.minstance /\ h.leaked = g.leaked /\ h.fault = g.fault
        /\ h.stale = g.stale
    BY <2>1 DEF BinRecords
  <2>6. Owned(g, A) => Owned(h, A)
    BY <1>4, <2>3, <2>5 DEF Owned
  <2>7. Intact(g, A) => Intact(h, A)
    BY <2>5 DEF Intact
  <2> QED
    BY <2>4, <2>5, <2>6, <2>7
<1>5. CASE old # 0 /\ old \notin g.items /\ h # g
  <2>1. h = [g EXCEPT !.fault = TRUE]
    BY <1>5 DEF Compiled, Place
  <2>2. h \in BinRecords
    BY <2>1 DEF BinRecords
  <2>3. /\ h.pinstances = g.pinstances /\ h.items = g.items /\ h.objects = g.objects
        /\ h.minstance = g.minstance
    BY <2>1 DEF BinRecords
  <2>4. ~Intact(g, A)
    BY <1>5 DEF Intact
  <2> QED
    BY <2>2, <2>3, <2>4 DEF Owned
<1> QED
  BY <1>2, <1>3, <1>4, <1>5

(* Its objects are deleted, and its entry goes.                            *)
LEMMA BinsEmpty ==
  ASSUME NEW g \in BinRecords, NEW a \in Addresses, NEW A, NEW h, h = Empty(g, a)
  PROVE  /\ h \in BinRecords
         /\ \A b \in Addresses : b # a => h.pinstances[b] = g.pinstances[b]
         /\ Owned(g, A) => Owned(h, A \ {a})
         /\ Intact(g, A) => Intact(h, A \ {a})
<1> DEFINE o == {x \in g.objects : x[1] # a}
           p == [g.pinstances EXCEPT ![a] = IF g.items = {} THEN @ ELSE 0]
<1>1. h = [g EXCEPT !.objects = o, !.pinstances = p]
  BY DEF Empty, BinRecords
<1>2. /\ o \in SUBSET (Addresses \X (1 .. MaxBins))
      /\ p \in [Addresses -> 0 .. MaxBins]
      /\ \A b \in Addresses : b # a => p[b] = g.pinstances[b]
      /\ g.items # {} => p[a] = 0
      /\ g.items = {} => p[a] = g.pinstances[a]
      /\ \A x \in o : x \in g.objects /\ x[1] # a /\ x[1] \in Addresses
  BY RuntimeAssumption DEF BinRecords
<1> HIDE DEF o, p
<1>3. h \in BinRecords
  BY <1>1, <1>2 DEF BinRecords
<1>4. /\ h.pinstances = p /\ h.items = g.items /\ h.objects = o
      /\ h.minstance = g.minstance /\ h.leaked = g.leaked /\ h.fault = g.fault
      /\ h.stale = g.stale
  BY <1>1 DEF BinRecords
<1>5. ASSUME Owned(g, A) PROVE Owned(h, A \ {a})
  <2>1. ~g.minstance => o = {}
    BY <1>2, <1>5 DEF Owned
  <2> QED
    BY <1>2, <1>4, <1>5, <2>1 DEF Owned
<1>6. ASSUME Intact(g, A) PROVE Intact(h, A \ {a})
  BY <1>2, <1>4, <1>6 DEF Intact
<1> QED
  BY <1>2, <1>3, <1>4, <1>5, <1>6

(* The compiler is destroyed.                                              *)
LEMMA BinsDestroy ==
  ASSUME NEW g \in BinRecords, NEW a \in Addresses, NEW A, NEW h, h = Destroy(g, a)
  PROVE  /\ h \in BinRecords
         /\ \A b \in Addresses : b # a => h.pinstances[b] = g.pinstances[b]
         /\ Owned(g, A) /\ ~h.fault => Owned(h, A \ {a})
         /\ Owned(g, A) /\ Intact(g, A) => Intact(h, A \ {a})
<1>1. CASE ~g.minstance
  <2>1. h = g
    BY <1>1 DEF Destroy
  <2> QED
    BY <1>1, <2>1 DEF Owned, Intact
<1>2. CASE g.minstance /\ a \in g.stale
  <2>1. h = [g EXCEPT !.fault = TRUE]
    BY <1>2 DEF Destroy
  <2>2. h \in BinRecords
    BY <2>1 DEF BinRecords
  <2>3. h.pinstances = g.pinstances /\ h.fault
    BY <2>1 DEF BinRecords
  <2> QED
    BY <1>2, <2>2, <2>3 DEF Intact
<1>3. CASE g.minstance /\ a \notin g.stale
  BY <1>3, BinsEmpty DEF Destroy
<1> QED
  BY <1>1, <1>2, <1>3

(* The bins are deleted.  What is left in them leaks.                      *)
LEMMA BinsRelease ==
  ASSUME NEW g \in BinRecords, NEW A, NEW h, h = Release(g)
  PROVE  /\ h \in BinRecords /\ Owned(h, A)
         /\ h.minstance = g.minstance /\ h.stale = g.stale /\ h.fault = g.fault
         /\ h.pinstances = g.pinstances
         /\ h.leaked = (g.leaked \/ g.objects # {})
         /\ h.items = {} /\ h.objects = {}
<1>1. h \in BinRecords
  BY DEF Release, BinRecords
<1>2. /\ h.minstance = g.minstance /\ h.stale = g.stale /\ h.fault = g.fault
      /\ h.pinstances = g.pinstances
      /\ h.leaked = (g.leaked \/ g.objects # {})
      /\ h.items = {} /\ h.objects = {}
  BY DEF Release, BinRecords
<1> QED
  BY <1>1, <1>2 DEF Owned

(* A runtime shuts all bins down, while the compilers alive have a         *)
(* reference to them.                                                      *)
LEMMA BinsShutdown ==
  ASSUME NEW g \in BinRecords, NEW alive \in SUBSET Addresses, NEW A, NEW h,
         h = Shutdown(g, alive)
  PROVE  /\ h \in BinRecords /\ (h.fault <=> g.fault)
         /\ Owned(g, A) => Owned(h, A)
         /\ alive = {} /\ Owned(g, alive) /\ Intact(g, alive) => Intact(h, alive)
<1>1. CASE ~g.minstance
  BY <1>1 DEF Shutdown
<1>2. CASE g.minstance
  <2> DEFINE k == Release(g)
  <2>1. h = [k EXCEPT !.minstance = FALSE, !.stale = alive]
    BY <1>2 DEF Shutdown
  <2>2. /\ k \in BinRecords /\ k.fault = g.fault /\ k.pinstances = g.pinstances
        /\ k.leaked = (g.leaked \/ g.objects # {}) /\ k.items = {} /\ k.objects = {}
    BY BinsRelease
  <2> HIDE DEF k
  <2>3. h \in BinRecords
    BY <2>1, <2>2 DEF BinRecords
  <2>4. /\ h.fault = g.fault /\ h.pinstances = g.pinstances /\ h.stale = alive
        /\ h.leaked = (g.leaked \/ g.objects # {}) /\ h.items = {} /\ h.objects = {}
    BY <2>1, <2>2 DEF BinRecords
  <2>5. Owned(h, A)
    BY <2>4 DEF Owned
  <2>6. ASSUME alive = {}, Owned(g, alive), Intact(g, alive)
        PROVE  Intact(h, alive)
    <3>1. g.objects = {} /\ \A b \in Addresses : g.pinstances[b] = 0
      BY <2>6 DEF Owned, Intact
    <3> QED
      BY <2>4, <2>6, <3>1 DEF Intact
  <2> QED
    BY <2>3, <2>4, <2>5, <2>6
<1> QED
  BY <1>1, <1>2

(* The compiler of a script, from its making to its end.                   *)
LEMMA BinsScript ==
  ASSUME NEW g \in BinRecords, NEW a \in Addresses, NEW A, a \notin A, Owned(g, A),
         NEW h \in Compiled(Construct(g, a), a)
  PROVE  /\ h \in BinRecords
         /\ \A b \in Addresses : b # a => h.pinstances[b] = g.pinstances[b]
         /\ Owned(h, A \cup {a})
         /\ Intact(g, A) => Intact(h, A \cup {a})
<1> DEFINE c == Construct(g, a)
<1>1. /\ c \in BinRecords /\ c.pinstances = g.pinstances /\ Owned(c, A \cup {a})
      /\ Intact(g, A) => Intact(c, A \cup {a})
  BY BinsConstruct
<1> HIDE DEF c
<1>2. h \in Compiled(c, a) /\ a \in A \cup {a}
  BY DEF c
<1> QED
  BY <1>1, <1>2, BinsCompile

(* A compiler that comes, compiles and goes leaves the bins as they were.  *)
LEMMA BinsScriptGone ==
  ASSUME NEW g \in BinRecords, NEW a \in Addresses, NEW A, a \notin A, Owned(g, A),
         NEW h \in Compiled(Construct(g, a), a), NEW k,
         k = Destroy(h, a) \/ k = Destroy(Empty(h, a), a)
  PROVE  /\ k \in BinRecords
         /\ \A b \in Addresses : b # a => k.pinstances[b] = g.pinstances[b]
         /\ ~k.fault => Owned(k, A)
         /\ Intact(g, A) => Intact(k, A)
<1> DEFINE B == A \cup {a}
           e == Empty(h, a)
<1>1. /\ h \in BinRecords
      /\ \A b \in Addresses : b # a => h.pinstances[b] = g.pinstances[b]
      /\ Owned(h, B)
      /\ Intact(g, A) => Intact(h, B)
  BY BinsScript
<1>2. B \ {a} = A /\ A \ {a} = A
  OBVIOUS
<1> HIDE DEF B
<1>3. CASE k = Destroy(h, a)
  <2>1. /\ k \in BinRecords
        /\ \A b \in Addresses : b # a => k.pinstances[b] = h.pinstances[b]
        /\ Owned(h, B) /\ ~k.fault => Owned(k, B \ {a})
        /\ Owned(h, B) /\ Intact(h, B) => Intact(k, B \ {a})
    <3> DEFINE d == Destroy(h, a)
    <3>1. /\ d \in BinRecords
          /\ \A b \in Addresses : b # a => d.pinstances[b] = h.pinstances[b]
          /\ Owned(h, B) /\ ~d.fault => Owned(d, B \ {a})
          /\ Owned(h, B) /\ Intact(h, B) => Intact(d, B \ {a})
      BY <1>1, BinsDestroy
    <3> HIDE DEF d
    <3>2. k = d
      BY <1>3 DEF d
    <3> QED
      BY <3>1, <3>2
  <2> QED
    BY <1>1, <1>2, <2>1
<1>4. CASE k = Destroy(e, a)
  <2>1. /\ e \in BinRecords
        /\ \A b \in Addresses : b # a => e.pinstances[b] = h.pinstances[b]
        /\ Owned(e, B \ {a})
        /\ Intact(g, A) => Intact(e, B \ {a})
    BY <1>1, BinsEmpty
  <2> HIDE DEF e
  <2> QED
    BY <1>1, <1>2, <1>4, <2>1, BinsDestroy
<1> QED
  BY <1>3, <1>4

-----------------------------------------------------------------------------
(* Machines and scripts.  A new machine is one, and has room.              *)
LEMMA NewMachineFacts ==
  NewMachine \in MachineRecords /\ Holds(NewMachine) /\ NewMachine # None
<1>1. <<>> \in Seq(Chunks) /\ Len(<<>>) = 0
  BY EmptySeq
<1>2. NewMachine \in MachineRecords
  BY <1>1, RuntimeAssumption DEF NewMachine, MachineRecords
<1>3. Holds(NewMachine)
  BY <1>1, RuntimeAssumption DEF NewMachine, Holds
<1> QED
  BY <1>2, <1>3, NoneAssumption DEF MachineRecords, Chunks

(* A machine has room for one more chunk, and register 0 chooses it.       *)
LEMMA AddChunkFacts ==
  ASSUME NEW m \in MachineRecords, Holds(m), NEW c \in Chunks, NEW k, k = AddChunk(m, c)
  PROVE  k \in MachineRecords /\ Holds(k) /\ k # None /\ Chosen(k) = c
<1> DEFINE s == Append(m.chunks, c)
           w == IF Len(m.chunks) + 1 > m.allocated THEN 2 * m.allocated ELSE m.allocated
<1>1. /\ m.chunks \in Seq(Chunks) /\ m.allocated \in Nat /\ m.allocated > 0
      /\ Len(m.chunks) \in Nat /\ Len(m.chunks) <= m.allocated
  BY LenProperties DEF MachineRecords, Holds
<1>2. s \in Seq(Chunks) /\ Len(s) = Len(m.chunks) + 1 /\ s[Len(m.chunks) + 1] = c
  BY <1>1, AppendProperties
<1>3. w \in Nat /\ w > 0 /\ Len(s) <= w
  BY <1>1, <1>2
<1>4. k = [chunks |-> s, allocated |-> w, reg0 |-> Len(m.chunks)]
  BY DEF AddChunk
<1> HIDE DEF s, w
<1>5. k \in MachineRecords
  BY <1>1, <1>2, <1>3, <1>4 DEF MachineRecords
<1>6. Holds(k) /\ Chosen(k) = c
  BY <1>2, <1>3, <1>4 DEF Holds, Chosen
<1> QED
  BY <1>5, <1>6, NoneAssumption DEF MachineRecords, Chunks

(* An error of a compiler stays, and without one all it has read compiles. *)
LEMMA ReadFacts ==
  ASSUME NEW c \in CompilerRecords, NEW s \in Scripts, NEW k, k = Read(c, s)
  PROVE  /\ k \in CompilerRecords /\ Len(k.read) > 0
         /\ (~c.error => Good(c.read)) /\ ~k.error => Good(k.read)
<1> DEFINE x == Append(c.read, s)
<1>1. c.read \in Seq(Scripts) /\ Len(c.read) \in Nat /\ c.error \in BOOLEAN
  BY LenProperties DEF CompilerRecords, Chunks
<1>2. /\ x \in Seq(Scripts) /\ Len(x) = Len(c.read) + 1
      /\ \A i \in 1 .. Len(c.read) : x[i] = c.read[i]
      /\ x[Len(c.read) + 1] = s
  BY <1>1, AppendProperties
<1> DEFINE e == c.error \/ s \in Bad
<1>3. k = [read |-> x, error |-> e] /\ e \in BOOLEAN /\ (e <=> c.error \/ s \in Bad)
  BY DEF Read
<1> HIDE DEF x, e
<1>4. k.read = x /\ k.error = e
  BY <1>3
<1>5. k.read = x /\ (k.error <=> c.error \/ s \in Bad) /\ k.error \in BOOLEAN
  BY <1>3, <1>4
<1>6. k \in CompilerRecords
  BY <1>2, <1>3, <1>5 DEF CompilerRecords, Chunks
<1>7. ASSUME ~c.error => Good(c.read), ~k.error
      PROVE  Good(k.read)
  <2>1. \A i \in 1 .. Len(x) : i \in 1 .. Len(c.read) \/ i = Len(c.read) + 1
    BY <1>1, <1>2
  <2> QED
    BY <1>2, <1>5, <1>7, <2>1 DEF Good
<1> QED
  BY <1>1, <1>2, <1>5, <1>6, <1>7

(* What a new compiler has.                                                *)
LEMMA NewCompilerFacts ==
  /\ NewCompiler \in CompilerRecords /\ ~NewCompiler.error /\ Good(NewCompiler.read)
  /\ \A s \in Scripts : Delivered(Read(NewCompiler, s)) = <<s>>
<1>1. <<>> \in Chunks
  BY EmptySeq DEF Chunks
<1>2. NewCompiler.read = <<>> /\ NewCompiler.error = FALSE
  BY DEF NewCompiler
<1>3. NewCompiler \in CompilerRecords
  BY <1>1 DEF NewCompiler, CompilerRecords
<1>4. Good(<<>>)
  BY DEF Good
<1>5. ASSUME NEW s \in Scripts
      PROVE  Delivered(Read(NewCompiler, s)) = <<s>>
  <2>1. Delivered(Read(NewCompiler, s)) = Append(<<>>, s)
    BY <1>2 DEF Read, Delivered
  <2> QED
    BY <2>1
<1> QED
  BY <1>2, <1>3, <1>4, <1>5

(* The sets that are counted are finite.                                   *)
LEMMA CountFacts ==
  ASSUME TypeOK
  PROVE  /\ IsFiniteSet(Owners) /\ Cardinality(Owners) \in Nat
         /\ IsFiniteSet(Children) /\ Cardinality(Children) \in Nat
         /\ Len(run) \in Nat /\ DOMAIN run = 1 .. Len(run)
<1>1. Len(run) \in Nat /\ DOMAIN run = 1 .. Len(run)
  BY LenProperties DEF TypeOK
<1>2. IsFiniteSet(Owners)
  BY FS_Subset DEF TypeOK, Owners
<1>3. IsFiniteSet(Children)
  <2>1. IsFiniteSet(1 .. Len(run))
    BY <1>1, FS_Interval
  <2>2. Children \in SUBSET (1 .. Len(run))
    BY DEF Children
  <2> QED
    BY <2>1, <2>2, FS_Subset
<1> QED
  BY <1>1, <1>2, <1>3, FS_CardinalityType

(* When the host has control nothing runs.                                 *)
LEMMA HostFacts ==
  ASSUME IInv, InHost
  PROVE  /\ Running /\ run = <<>> /\ Len(run) = 0 /\ Children = {}
         /\ runtimes \in [DOMAIN runtimes -> RuntimeRecords]
         /\ compilers \in [DOMAIN compilers -> CompilerRecords]
         /\ DOMAIN compilers \subseteq Addresses /\ bin \in BinRecords
         /\ Owned(bin, DOMAIN compilers)
         /\ ~early => Intact(bin, DOMAIN compilers)
<1>1. Running /\ run = <<>> /\ Len(run) = 0
  BY DEF InHost
<1>2. Children = {}
  BY <1>1 DEF Children
<1> QED
  BY <1>1, <1>2 DEF IInv, TypeOK, BinsInv

-----------------------------------------------------------------------------
(* The host.  A runtime is created with its compiler and without machine.  *)
LEMMA CreateIInv ==
  ASSUME IInv, NEW r \in Runtimes, Create(r)
  PROVE  IInv'
<1>1. PICK a \in Free :
        /\ compilers' = With(compilers, a, NewCompiler)
        /\ bin' = Construct(bin, a)
        /\ runtimes' = With(runtimes, r, [compiler |-> a, vm |-> None, chunks |-> <<>>])
  BY DEF Create
<1>2. /\ InHost /\ r \notin DOMAIN runtimes /\ a \in Addresses /\ a \notin DOMAIN compilers
      /\ run' = run /\ machines' = machines /\ lost' = lost /\ status' = status
      /\ early' = early /\ TypeOK /\ IInv
  BY DEF Create, Free, IInv
<1>3. /\ Running /\ run = <<>> /\ Len(run) = 0
      /\ runtimes \in [DOMAIN runtimes -> RuntimeRecords]
      /\ compilers \in [DOMAIN compilers -> CompilerRecords]
      /\ DOMAIN compilers \subseteq Addresses /\ bin \in BinRecords
      /\ Owned(bin, DOMAIN compilers)
      /\ ~early => Intact(bin, DOMAIN compilers)
  BY <1>2, HostFacts
<1> DEFINE x == [compiler |-> a, vm |-> None, chunks |-> <<>>]
<1>4. <<>> \in Seq(Chunks)
  BY EmptySeq
<1>5. x \in RuntimeRecords
  BY <1>2, <1>4 DEF RuntimeRecords
<1>6. x.compiler = a /\ x.vm = None /\ Len(x.chunks) = 0
  OBVIOUS
<1> HIDE DEF x
<1>7. /\ DOMAIN runtimes' = DOMAIN runtimes \cup {r} /\ runtimes'[r] = x
      /\ \A q \in DOMAIN runtimes : runtimes'[q] = runtimes[q]
      /\ runtimes' \in [DOMAIN runtimes \cup {r} -> RuntimeRecords]
  BY <1>1, <1>2, <1>3, <1>5 DEF With, x
<1>8. /\ DOMAIN compilers' = DOMAIN compilers \cup {a} /\ compilers'[a] = NewCompiler
      /\ \A b \in DOMAIN compilers : compilers'[b] = compilers[b]
      /\ compilers' \in [DOMAIN compilers \cup {a} -> CompilerRecords]
  BY <1>1, <1>2, <1>3, NewCompilerFacts DEF With
<1>9. /\ bin' \in BinRecords /\ Owned(bin', DOMAIN compilers')
      /\ ~early' => Intact(bin', DOMAIN compilers')
  BY <1>1, <1>2, <1>3, <1>8, BinsConstruct
<1>10. TypeOK'
  BY <1>2, <1>3, <1>7, <1>8, <1>9, FS_AddElement DEF TypeOK
<1>11. RunsInv'
  BY <1>2, <1>3 DEF RunsInv
<1>12. CompilersInv'
  BY <1>2, <1>3, <1>6, <1>7, <1>8 DEF CompilersInv, IInv
<1>13. TablesInv'
  BY <1>2, <1>3, <1>6, <1>7 DEF TablesInv, IInv
<1>14. CodeInv'
  BY <1>2, <1>3, <1>6, <1>7, <1>8, NewCompilerFacts DEF CodeInv, IInv
<1>15. BinsInv'
  BY <1>9 DEF BinsInv
<1>16. CountInv'
  <2>1. Owners' = Owners
    BY <1>6, <1>7 DEF Owners
  <2>2. Children' = Children
    BY <1>2 DEF Children
  <2> QED
    BY <1>2, <2>1, <2>2 DEF CountInv, IInv
<1> QED
  BY <1>10, <1>11, <1>12, <1>13, <1>14, <1>15, <1>16 DEF IInv

(* The compiler of a runtime reads one more script; what it delivers is    *)
(* one more chunk of the runtime.                                          *)
LEMMA CompileChunkIInv ==
  ASSUME IInv, NEW r \in DOMAIN runtimes, NEW s \in Scripts, CompileChunk(r, s)
  PROVE  IInv'
<1> DEFINE a == runtimes[r].compiler
           c == Read(compilers[a], s)
           x == [runtimes[r] EXCEPT !.chunks = Append(runtimes[r].chunks, c.read)]
<1>1. /\ InHost /\ run' = run /\ machines' = machines /\ lost' = lost
      /\ early' = early /\ TypeOK /\ IInv
      /\ bin' \in Compiled(bin, a) /\ status' = After(bin')
      /\ compilers' = [compilers EXCEPT ![a] = c]
  BY DEF CompileChunk, IInv
<1>2. /\ Running /\ run = <<>> /\ Len(run) = 0
      /\ runtimes \in [DOMAIN runtimes -> RuntimeRecords]
      /\ compilers \in [DOMAIN compilers -> CompilerRecords]
      /\ DOMAIN compilers \subseteq Addresses /\ bin \in BinRecords
      /\ Owned(bin, DOMAIN compilers)
      /\ ~early => Intact(bin, DOMAIN compilers)
      /\ a \in DOMAIN compilers /\ a \in Addresses /\ runtimes[r] \in RuntimeRecords
      /\ compilers[a] \in CompilerRecords
  BY <1>1, HostFacts DEF IInv, CompilersInv
<1>3. /\ c \in CompilerRecords /\ Len(c.read) > 0
      /\ (~compilers[a].error => Good(compilers[a].read)) /\ ~c.error => Good(c.read)
  BY <1>2, ReadFacts
<1>4. ~c.error => Good(c.read)
  BY <1>1, <1>2, <1>3 DEF IInv, CodeInv
<1>5. /\ Append(runtimes[r].chunks, c.read) \in Seq(Chunks) /\ Len(runtimes[r].chunks) \in Nat
      /\ Len(Append(runtimes[r].chunks, c.read)) = Len(runtimes[r].chunks) + 1
      /\ \A k \in 1 .. Len(runtimes[r].chunks) :
           Append(runtimes[r].chunks, c.read)[k] = runtimes[r].chunks[k]
      /\ Append(runtimes[r].chunks, c.read)[Len(runtimes[r].chunks) + 1] = c.read
  BY <1>2, <1>3, AppendProperties, LenProperties DEF RuntimeRecords, CompilerRecords
<1>6. /\ x \in RuntimeRecords /\ x.compiler = a /\ x.vm = runtimes[r].vm
      /\ x.chunks = Append(runtimes[r].chunks, c.read)
  BY <1>2, <1>5 DEF RuntimeRecords
<1>7. /\ runtimes' = runtimes \/ runtimes' = [runtimes EXCEPT ![r] = x]
      /\ c.error => runtimes' = runtimes
  BY DEF CompileChunk, Delivered
<1> HIDE DEF x, c
<1>8. /\ DOMAIN runtimes' = DOMAIN runtimes
      /\ runtimes' \in [DOMAIN runtimes -> RuntimeRecords]
      /\ \A q \in DOMAIN runtimes : /\ runtimes'[q].compiler = runtimes[q].compiler
                                    /\ runtimes'[q].vm = runtimes[q].vm
                                    /\ q # r => runtimes'[q] = runtimes[q]
      /\ runtimes'[r] = runtimes[r] \/ (runtimes'[r] = x /\ ~c.error)
  BY <1>2, <1>6, <1>7
<1>9. /\ DOMAIN compilers' = DOMAIN compilers /\ compilers'[a] = c
      /\ \A b \in DOMAIN compilers : b # a => compilers'[b] = compilers[b]
      /\ compilers' \in [DOMAIN compilers -> CompilerRecords]
  BY <1>1, <1>2, <1>3
<1>10. /\ bin' \in BinRecords /\ Owned(bin', DOMAIN compilers')
       /\ ~early' => Intact(bin', DOMAIN compilers')
  BY <1>1, <1>2, <1>9, BinsCompile
<1>11. status' \in {"running", "wild"}
  BY <1>1 DEF After
<1> HIDE DEF a
<1>12. TypeOK'
  BY <1>1, <1>2, <1>8, <1>9, <1>10, <1>11 DEF TypeOK
<1>13. RunsInv'
  BY <1>1, <1>2 DEF RunsInv
<1>14. CompilersInv'
  <2>1. \A b \in DOMAIN compilers : \E q \in DOMAIN runtimes : runtimes'[q].compiler = b
    <3>1. \A b \in DOMAIN compilers : \E q \in DOMAIN runtimes : runtimes[q].compiler = b
      BY <1>1, <1>2 DEF CompilersInv, IInv
    <3> QED
      BY <1>8, <3>1
  <2>2. \A q, p \in DOMAIN runtimes : runtimes'[q].compiler = runtimes'[p].compiler => q = p
    BY <1>1, <1>8 DEF CompilersInv, IInv
  <2>3. \A q \in DOMAIN runtimes : runtimes'[q].compiler \in DOMAIN compilers
    BY <1>1, <1>8 DEF CompilersInv, IInv
  <2> QED
    BY <1>1, <1>2, <1>8, <1>9, <2>1, <2>2, <2>3 DEF CompilersInv
<1>15. TablesInv'
  BY <1>1, <1>2, <1>8 DEF TablesInv, IInv
<1>16. CodeInv'
  <2>1. \A b \in DOMAIN compilers : ~compilers'[b].error => Good(compilers'[b].read)
    BY <1>1, <1>4, <1>9 DEF CodeInv, IInv
  <2>2. ASSUME NEW k \in 1 .. Len(x.chunks), ~c.error
        PROVE  Len(x.chunks[k]) > 0 /\ Good(x.chunks[k])
    <3>1. k \in 1 .. Len(runtimes[r].chunks) \/ k = Len(runtimes[r].chunks) + 1
      BY <1>5, <1>6
    <3> QED
      BY <1>1, <1>3, <1>4, <1>5, <1>6, <2>2, <3>1 DEF CodeInv, IInv
  <2>3. \A q \in DOMAIN runtimes : \A k \in 1 .. Len(runtimes'[q].chunks) :
          Len(runtimes'[q].chunks[k]) > 0 /\ Good(runtimes'[q].chunks[k])
    BY <1>1, <1>8, <2>2 DEF CodeInv, IInv
  <2> QED
    BY <1>1, <1>2, <1>8, <1>9, <2>1, <2>3 DEF CodeInv
<1>17. BinsInv'
  BY <1>10 DEF BinsInv
<1>18. CountInv'
  <2>1. Owners' = Owners
    BY <1>8 DEF Owners
  <2>2. Children' = Children
    BY <1>1 DEF Children
  <2> QED
    BY <1>1, <2>1, <2>2 DEF CountInv, IInv
<1> QED
  BY <1>12, <1>13, <1>14, <1>15, <1>16, <1>17, <1>18 DEF IInv

(* A chunk of a runtime runs on a new machine of it.                       *)
LEMMA ExecuteIInv ==
  ASSUME IInv, NEW r \in DOMAIN runtimes, NEW chunk \in Range(runtimes[r].chunks),
         Execute(r, chunk)
  PROVE  IInv'
<1> DEFINE x == [runtimes[r] EXCEPT !.vm = NewMachine]
           y == Run("execute", r, None, Last(chunk), chunk)
<1>1. /\ InHost /\ status' = status /\ compilers' = compilers /\ bin' = bin
      /\ early' = early /\ TypeOK /\ IInv /\ machines' = machines + 1
      /\ lost' = IF runtimes[r].vm = None THEN lost ELSE lost + 1
      /\ run' = <<y>> /\ runtimes' = [runtimes EXCEPT ![r] = x]
  BY DEF Execute, IInv
<1>2. /\ Running /\ run = <<>> /\ Len(run) = 0 /\ Children = {}
      /\ runtimes \in [DOMAIN runtimes -> RuntimeRecords]
      /\ runtimes[r] \in RuntimeRecords /\ r \in Runtimes
  BY <1>1, HostFacts DEF TypeOK
<1>3. PICK k \in 1 .. Len(runtimes[r].chunks) : chunk = runtimes[r].chunks[k]
  BY <1>2, LenProperties DEF Range, RuntimeRecords
<1>4. chunk \in Chunks /\ Len(chunk) > 0 /\ Good(chunk)
  <2>1. chunk \in Chunks
    BY <1>2, <1>3, ElementOfSeq DEF RuntimeRecords
  <2> QED
    BY <1>1, <1>3, <2>1 DEF IInv, CodeInv
<1>5. Last(chunk) \in Scripts
  <2>1. Len(chunk) \in 1 .. Len(chunk)
    BY <1>4, LenProperties DEF Chunks
  <2> QED
    BY <1>4, <2>1, ElementOfSeq DEF Last, Chunks
<1>6. y \in RunRecords
  BY <1>2, <1>4, <1>5, NewMachineFacts DEF Run, RunRecords
<1>7. /\ y.kind = "execute" /\ y.of = r /\ y.asked = Last(chunk) /\ y.chunk = chunk
      /\ y.vm = NewMachine
  BY DEF Run
<1>8. /\ x \in RuntimeRecords /\ x.compiler = runtimes[r].compiler /\ x.vm = NewMachine
      /\ x.chunks = runtimes[r].chunks
  BY <1>2, NewMachineFacts DEF RuntimeRecords
<1> HIDE DEF x, y
<1>9. /\ DOMAIN runtimes' = DOMAIN runtimes
      /\ runtimes' \in [DOMAIN runtimes -> RuntimeRecords]
      /\ runtimes'[r] = x
      /\ \A q \in DOMAIN runtimes : /\ runtimes'[q].compiler = runtimes[q].compiler
                                    /\ runtimes'[q].chunks = runtimes[q].chunks
                                    /\ q # r => runtimes'[q] = runtimes[q]
  BY <1>1, <1>2, <1>8
<1>10. run' \in Seq(RunRecords) /\ Len(run') = 1 /\ run'[1] = y
  BY <1>1, <1>6
<1>11. TypeOK'
  BY <1>1, <1>9, <1>10 DEF TypeOK
<1>12. RunsInv'
  <2>1. ASSUME NEW i, i = 1
        PROVE  RunInv(i)'
    BY <1>4, <1>7, <1>8, <1>9, <1>10, <2>1, NewMachineFacts DEF RunInv
  <2> QED
    BY <1>10, <2>1 DEF RunsInv
<1>13. CompilersInv'
  BY <1>1, <1>2, <1>7, <1>9, <1>10 DEF IInv, CompilersInv
<1>14. TablesInv'
  BY <1>1, <1>7, <1>8, <1>9, <1>10, NewMachineFacts DEF IInv, TablesInv
<1>15. CodeInv'
  BY <1>1, <1>4, <1>7, <1>9, <1>10 DEF IInv, CodeInv
<1>16. BinsInv'
  BY <1>1 DEF IInv, BinsInv, Running
<1>17. CountInv'
  <2>1. Owners' = Owners \cup {r} /\ (r \in Owners <=> runtimes[r].vm # None)
    BY <1>8, <1>9, NewMachineFacts DEF Owners
  <2>2. Children' = {}
    BY <1>7, <1>10 DEF Children
  <2>3. /\ IsFiniteSet(Owners) /\ Cardinality(Owners) \in Nat
        /\ lost \in Int /\ machines = Cardinality(Owners) + 0 + lost
    BY <1>1, <1>2, CountFacts, FS_EmptySet DEF IInv, CountInv, TypeOK
  <2>4. Cardinality(Owners') = IF r \in Owners THEN Cardinality(Owners)
                               ELSE Cardinality(Owners) + 1
    BY <2>1, <2>3, FS_AddElement
  <2>5. Cardinality(Children') = 0
    BY <2>2, FS_EmptySet
  <2> QED
    BY <1>1, <2>1, <2>3, <2>4, <2>5 DEF CountInv
<1> QED
  BY <1>11, <1>12, <1>13, <1>14, <1>15, <1>16, <1>17 DEF IInv

(* A script of the host that runs: its compiler waits below its machine.   *)
LEMMA ExecuteCodeRuns ==
  ASSUME IInv, NEW r \in DOMAIN runtimes, NEW s \in Scripts, NEW a \in Free,
         NEW g \in Compiled(Construct(bin, a), a), InHost,
         ~Read(NewCompiler, s).error, runtimes[r].vm # None,
         bin' = g, status' = After(g),
         compilers' = With(compilers, a, Read(NewCompiler, s)),
         runtimes' = [runtimes EXCEPT ![r].vm = AddChunk(runtimes[r].vm, <<s>>)],
         run' = <<Run("code", r, a, s, Chosen(runtimes'[r].vm))>>,
         machines' = machines + 1, early' = early, lost' = lost
  PROVE  IInv'
<1> DEFINE c == Read(NewCompiler, s)
           m == AddChunk(runtimes[r].vm, <<s>>)
           x == [runtimes[r] EXCEPT !.vm = m]
           y == Run("code", r, a, s, Chosen(runtimes'[r].vm))
<1>1. /\ Running /\ run = <<>> /\ Len(run) = 0 /\ Children = {}
      /\ runtimes \in [DOMAIN runtimes -> RuntimeRecords]
      /\ runtimes[r] \in RuntimeRecords /\ r \in Runtimes
      /\ compilers \in [DOMAIN compilers -> CompilerRecords]
      /\ DOMAIN compilers \subseteq Addresses /\ bin \in BinRecords
      /\ Owned(bin, DOMAIN compilers)
      /\ ~early => Intact(bin, DOMAIN compilers)
      /\ a \in Addresses /\ a \notin DOMAIN compilers
  BY HostFacts DEF IInv, TypeOK, Free
<1>2. <<s>> \in Chunks /\ Len(<<s>>) = 1 /\ <<s>>[1] = s
  BY DEF Chunks
<1>3. runtimes[r].vm \in MachineRecords /\ Holds(runtimes[r].vm)
  BY <1>1 DEF RuntimeRecords, IInv, TablesInv
<1>4. m \in MachineRecords /\ Holds(m) /\ m # None /\ Chosen(m) = <<s>>
  BY <1>2, <1>3, AddChunkFacts
<1>5. c \in CompilerRecords /\ c.read = <<s>> /\ Good(<<s>>)
  <2>1. c.read = <<s>>
    BY NewCompilerFacts DEF Delivered
  <2>2. c \in CompilerRecords /\ Good(c.read)
    BY NewCompilerFacts, ReadFacts
  <2> QED
    BY <2>1, <2>2
<1> HIDE DEF c, m
<1>6. /\ x \in RuntimeRecords /\ x.compiler = runtimes[r].compiler /\ x.vm = m
      /\ x.chunks = runtimes[r].chunks
  BY <1>1, <1>4 DEF RuntimeRecords
<1>7. runtimes' = [runtimes EXCEPT ![r] = x]
  BY DEF m
<1> HIDE DEF x
<1>8. /\ DOMAIN runtimes' = DOMAIN runtimes
      /\ runtimes' \in [DOMAIN runtimes -> RuntimeRecords]
      /\ runtimes'[r] = x
      /\ \A q \in DOMAIN runtimes : /\ runtimes'[q].compiler = runtimes[q].compiler
                                    /\ runtimes'[q].chunks = runtimes[q].chunks
                                    /\ (runtimes'[q].vm = None <=> runtimes[q].vm = None)
                                    /\ q # r => runtimes'[q] = runtimes[q]
  BY <1>1, <1>4, <1>6, <1>7
<1>9. /\ y.kind = "code" /\ y.of = r /\ y.compiler = a /\ y.asked = s /\ y.chunk = <<s>>
      /\ y.vm = NewMachine
  BY <1>4, <1>6, <1>8 DEF Run
<1>10. y \in RunRecords
  BY <1>1, <1>2, <1>4, <1>6, <1>8, NewMachineFacts DEF Run, RunRecords
<1> HIDE DEF y
<1>11. run' \in Seq(RunRecords) /\ Len(run') = 1 /\ run'[1] = y
  BY <1>10 DEF y
<1>12. /\ DOMAIN compilers' = DOMAIN compilers \cup {a} /\ compilers'[a] = c
       /\ \A b \in DOMAIN compilers : compilers'[b] = compilers[b]
       /\ compilers' \in [DOMAIN compilers \cup {a} -> CompilerRecords]
  BY <1>1, <1>5 DEF With, c
<1>13. /\ bin' \in BinRecords /\ Owned(bin', DOMAIN compilers')
       /\ ~early' => Intact(bin', DOMAIN compilers')
  <2> DEFINE A == DOMAIN compilers
  <2>1. a \in Addresses /\ a \notin A /\ Owned(bin, A) /\ bin \in BinRecords
    BY <1>1
  <2>2. /\ g \in BinRecords /\ Owned(g, A \cup {a})
        /\ Intact(bin, A) => Intact(g, A \cup {a})
    BY <2>1, BinsScript
  <2> QED
    BY <1>1, <1>12, <2>2
<1>14. status' \in {"running", "wild"}
  BY DEF After
<1>15. TypeOK'
  BY <1>1, <1>8, <1>11, <1>12, <1>13, <1>14 DEF TypeOK, IInv
<1>16. RunsInv'
  <2>1. ASSUME NEW i, i = 1
        PROVE  RunInv(i)'
    BY <1>8, <1>9, <1>11, <2>1 DEF RunInv
  <2> QED
    BY <1>11, <2>1 DEF RunsInv
<1>17. CompilersInv'
  BY <1>1, <1>8, <1>9, <1>11, <1>12 DEF IInv, CompilersInv
<1>18. TablesInv'
  <2>1. ASSUME NEW q \in DOMAIN runtimes, runtimes'[q].vm # None
        PROVE  Holds(runtimes'[q].vm)
    BY <1>4, <1>6, <1>8, <2>1 DEF IInv, TablesInv
  <2>2. Holds(run'[1].vm)
    BY <1>9, <1>11, NewMachineFacts
  <2> QED
    BY <1>8, <1>11, <2>1, <2>2 DEF TablesInv
<1>19. CodeInv'
  BY <1>1, <1>5, <1>8, <1>9, <1>11, <1>12 DEF IInv, CodeInv
<1>20. BinsInv'
  BY <1>13 DEF BinsInv
<1>21. CountInv'
  <2>1. Owners' = Owners
    BY <1>8 DEF Owners
  <2>2. Children' = {1}
    BY <1>9, <1>11 DEF Children
  <2>3. /\ Cardinality(Owners) \in Nat /\ lost \in Int
        /\ machines = Cardinality(Owners) + 0 + lost
    BY <1>1, CountFacts, FS_EmptySet DEF IInv, CountInv, TypeOK
  <2>4. Cardinality(Children') = 1
    BY <2>2, FS_Singleton
  <2> QED
    BY <2>1, <2>3, <2>4 DEF CountInv
<1> QED
  BY <1>15, <1>16, <1>17, <1>18, <1>19, <1>20, <1>21 DEF IInv

(* A script of the host that does not compile, or has no machine, is gone. *)
LEMMA ExecuteCodeIInv ==
  ASSUME IInv, NEW r \in DOMAIN runtimes, NEW s \in Scripts, ExecuteCode(r, s)
  PROVE  IInv'
<1> DEFINE c == Read(NewCompiler, s)
<1>1. InHost /\ early' = early /\ lost' = lost
  BY DEF ExecuteCode
<1> DEFINE Gone(a, g) ==
             /\ runtimes' = runtimes /\ compilers' = compilers /\ run' = run
             /\ machines' = machines
             /\ \/ bin' = Destroy(g, a) /\ status' = After(bin')
                \/ bin' = bin /\ status' = "wild"
           Runs(a, g) ==
             /\ ~c.error /\ runtimes[r].vm # None
             /\ bin' = g
             /\ status' = After(g)
             /\ compilers' = With(compilers, a, c)
             /\ runtimes' = [runtimes EXCEPT ![r].vm = AddChunk(runtimes[r].vm, Delivered(c))]
             /\ run' = <<Run("code", r, a, s, Chosen(runtimes'[r].vm))>>
             /\ machines' = machines + 1
<1>2. \E a \in Free : \E g \in Compiled(Construct(bin, a), a) : Gone(a, g) \/ Runs(a, g)
  BY DEF ExecuteCode
<1>3. PICK a \in Free : \E g \in Compiled(Construct(bin, a), a) : Gone(a, g) \/ Runs(a, g)
  BY <1>2
<1>4. PICK g \in Compiled(Construct(bin, a), a) : Gone(a, g) \/ Runs(a, g)
  BY <1>3
<1>5. Delivered(c) = <<s>>
  BY NewCompilerFacts
<1>6. CASE Runs(a, g)
  BY <1>1, <1>5, <1>6, ExecuteCodeRuns
<1>7. CASE Gone(a, g)
  <2>1. /\ Running /\ bin \in BinRecords /\ Owned(bin, DOMAIN compilers)
        /\ ~early => Intact(bin, DOMAIN compilers)
        /\ a \in Addresses /\ a \notin DOMAIN compilers
    BY <1>1, HostFacts DEF Free
  <2>2. /\ runtimes' = runtimes /\ compilers' = compilers /\ run' = run
        /\ machines' = machines
        /\ \/ bin' = Destroy(g, a) /\ status' = After(bin')
           \/ bin' = bin /\ status' = "wild"
    BY <1>7
  <2>3. /\ bin' \in BinRecords /\ status' \in {"running", "wild"}
        /\ status' = "running" => Owned(bin', DOMAIN compilers')
        /\ ~early' => Intact(bin', DOMAIN compilers')
    <3>1. CASE bin' = bin /\ status' = "wild"
      BY <1>1, <2>1, <2>2, <3>1
    <3>2. CASE bin' = Destroy(g, a) /\ status' = After(bin')
      BY <1>1, <2>1, <2>2, <3>2, BinsScriptGone DEF After
    <3> QED
      BY <2>2, <3>1, <3>2
  <2>4. TypeOK'
    BY <1>1, <2>2, <2>3 DEF IInv, TypeOK
  <2>5. RunsInv' /\ CompilersInv' /\ TablesInv' /\ CodeInv'
    <3>1. RunsInv'
      BY <2>2 DEF IInv, RunsInv, RunInv
    <3>2. CompilersInv'
      BY <2>2 DEF IInv, CompilersInv
    <3>3. TablesInv' /\ CodeInv'
      BY <2>2 DEF IInv, TablesInv, CodeInv
    <3> QED
      BY <3>1, <3>2, <3>3
  <2>6. BinsInv'
    BY <2>3 DEF BinsInv, Running
  <2>7. CountInv'
    BY <1>1, <2>2 DEF IInv, CountInv, Owners, Children
  <2> QED
    BY <2>4, <2>5, <2>6, <2>7 DEF IInv
<1> QED
  BY <1>4, <1>6, <1>7

(* A runtime is shut down: its compiler goes, the bins go, and its machine *)
(* if it has one.                                                          *)
LEMMA ShutdownRuntimeIInv ==
  ASSUME IInv, NEW r \in Runtimes, ShutdownRuntime(r)
  PROVE  IInv'
<1> DEFINE a == runtimes[r].compiler
           d == Destroy(bin, a)
           D == DOMAIN compilers \ {a}
<1>1. /\ InHost /\ r \in DOMAIN runtimes /\ run' = run /\ lost' = lost /\ TypeOK /\ IInv
      /\ bin' = Shutdown(d, D)
      /\ early' = (early \/ D # {})
      /\ bin'.fault => status' = "wild"
      /\ compilers' = Without(compilers, a)
      /\ runtimes' = Without(runtimes, r)
      /\ machines' = IF runtimes[r].vm = None THEN machines ELSE machines - 1
  BY DEF ShutdownRuntime, IInv, Others
<1>2. status' \in {"running", "wild"}
  BY DEF ShutdownRuntime, After, CleanupOutcomes
<1>3. /\ Running /\ run = <<>> /\ Len(run) = 0 /\ Children = {}
      /\ runtimes \in [DOMAIN runtimes -> RuntimeRecords]
      /\ compilers \in [DOMAIN compilers -> CompilerRecords]
      /\ DOMAIN compilers \subseteq Addresses /\ bin \in BinRecords
      /\ Owned(bin, DOMAIN compilers)
      /\ ~early => Intact(bin, DOMAIN compilers)
      /\ a \in DOMAIN compilers /\ a \in Addresses
      /\ \A q \in DOMAIN runtimes : runtimes[q].compiler = a => q = r
  BY <1>1, HostFacts DEF IInv, CompilersInv
<1>4. /\ DOMAIN runtimes' = DOMAIN runtimes \ {r}
      /\ \A q \in DOMAIN runtimes \ {r} : runtimes'[q] = runtimes[q]
      /\ runtimes' \in [DOMAIN runtimes \ {r} -> RuntimeRecords]
  BY <1>1, <1>3 DEF Without
<1>5. /\ DOMAIN compilers' = D
      /\ \A b \in D : compilers'[b] = compilers[b]
      /\ compilers' \in [D -> CompilerRecords]
  BY <1>1, <1>3 DEF Without
<1>6. /\ d \in BinRecords
      /\ ~d.fault => Owned(d, D)
      /\ ~early => Intact(d, D)
  BY <1>3, BinsDestroy
<1> HIDE DEF d, D, a
<1>7. D \in SUBSET Addresses
  BY <1>3 DEF D
<1>8. /\ bin' \in BinRecords /\ (bin'.fault <=> d.fault)
      /\ Owned(d, D) => Owned(bin', D)
      /\ D = {} /\ Owned(d, D) /\ Intact(d, D) => Intact(bin', D)
  BY <1>1, <1>6, <1>7, BinsShutdown
<1>9. TypeOK'
  <2>1. IsFiniteSet(DOMAIN runtimes \ {r})
    BY <1>1, FS_RemoveElement DEF TypeOK
  <2>2. machines' \in Int
    BY <1>1 DEF TypeOK
  <2>3. early' \in BOOLEAN
    BY <1>1 DEF TypeOK
  <2> QED
    BY <1>1, <1>2, <1>4, <1>5, <1>7, <1>8, <2>1, <2>2, <2>3 DEF TypeOK
<1>10. RunsInv'
  BY <1>1, <1>3 DEF RunsInv
<1>11. CompilersInv'
  <2>1. \A q \in DOMAIN runtimes' : q \in DOMAIN runtimes /\ q # r /\ runtimes'[q] = runtimes[q]
    BY <1>4
  <2>2. \A q \in DOMAIN runtimes' : runtimes'[q].compiler \in D
    BY <1>1, <1>3, <2>1 DEF IInv, CompilersInv, D
  <2>3. \A b \in D : \E q \in DOMAIN runtimes' : runtimes'[q].compiler = b
    BY <1>1, <1>3, <1>4 DEF IInv, CompilersInv, D, a
  <2> QED
    BY <1>1, <1>3, <1>5, <2>1, <2>2, <2>3 DEF IInv, CompilersInv
<1>12. TablesInv'
  BY <1>1, <1>3, <1>4 DEF IInv, TablesInv
<1>13. CodeInv'
  <2>1. \A b \in D : b \in DOMAIN compilers
    BY DEF D
  <2> QED
    BY <1>1, <1>3, <1>4, <1>5, <2>1 DEF IInv, CodeInv
<1>14. BinsInv'
  <2>1. Running' => Owned(bin', DOMAIN compilers')
    BY <1>1, <1>5, <1>6, <1>8 DEF Running
  <2>2. ASSUME ~early'
        PROVE  Intact(bin', DOMAIN compilers')
    <3>1. D = {} /\ Intact(d, D)
      BY <1>1, <1>6, <2>2
    <3>2. ~d.fault
      BY <3>1 DEF Intact
    <3> QED
      BY <1>5, <1>6, <1>8, <3>1, <3>2
  <2> QED
    BY <2>1, <2>2 DEF BinsInv
<1>15. CountInv'
  <2>1. Owners' = Owners \ {r} /\ (r \in Owners <=> runtimes[r].vm # None)
    BY <1>1, <1>4 DEF Owners
  <2>2. Children' = Children
    BY <1>1 DEF Children
  <2>3. /\ IsFiniteSet(Owners) /\ Cardinality(Owners) \in Nat /\ Cardinality(Children) \in Nat
        /\ lost \in Int /\ machines = Cardinality(Owners) + Cardinality(Children) + lost
    BY <1>1, CountFacts DEF IInv, CountInv, TypeOK
  <2>4. Cardinality(Owners') = IF r \in Owners THEN Cardinality(Owners) - 1
                               ELSE Cardinality(Owners)
    BY <2>1, <2>3, FS_RemoveElement
  <2> QED
    BY <1>1, <2>1, <2>2, <2>3, <2>4 DEF CountInv
<1> QED
  BY <1>9, <1>10, <1>11, <1>12, <1>13, <1>14, <1>15 DEF IInv

-----------------------------------------------------------------------------
(* The scripts.  A sequence without its last element.                      *)
LEMMA FrontProperties ==
  ASSUME NEW S, NEW s \in Seq(S), Len(s) > 0
  PROVE  /\ Front(s) \in Seq(S)
         /\ Len(Front(s)) = Len(s) - 1
         /\ \A i \in 1 .. Len(s) - 1 : Front(s)[i] = s[i]
<1> DEFINE n == Len(s) - 1
<1>1. Len(s) \in Nat /\ n \in Nat /\ \A i \in 1 .. n : s[i] \in S
  BY LenProperties, ElementOfSeq
<1>2. Front(s) = SubSeq(s, 1, n)
  BY DEF Front
<1> HIDE DEF n
<1>3. /\ SubSeq(s, 1, n) \in Seq(S)
      /\ Len(SubSeq(s, 1, n)) = IF 1 <= n THEN n - 1 + 1 ELSE 0
      /\ \A i \in 1 .. n - 1 + 1 : SubSeq(s, 1, n)[i] = s[1 + i - 1]
  BY <1>1, SubSeqProperties
<1>4. /\ Len(Front(s)) = n
      /\ \A i \in 1 .. n : Front(s)[i] = s[i]
  BY <1>1, <1>2, <1>3
<1> QED
  BY <1>2, <1>3, <1>4 DEF n

(* The innermost run.                                                      *)
LEMMA TopFacts ==
  ASSUME IInv, run # <<>>
  PROVE  /\ run \in Seq(RunRecords) /\ Len(run) \in Nat /\ Len(run) > 0
         /\ Len(run) \in 1 .. Len(run) /\ Top = run[Len(run)] /\ Top \in RunRecords
         /\ \A i \in 1 .. Len(run) : run[i] \in RunRecords
         /\ \A i \in 1 .. Len(run) : RunInv(i)
         /\ runtimes \in [DOMAIN runtimes -> RuntimeRecords] /\ Top.of \in DOMAIN runtimes
         /\ compilers \in [DOMAIN compilers -> CompilerRecords]
         /\ DOMAIN compilers \subseteq Addresses /\ bin \in BinRecords
<1>1. run \in Seq(RunRecords) /\ Len(run) \in Nat /\ Len(run) > 0
  BY LenProperties, EmptySeq DEF IInv, TypeOK
<1>2. Len(run) \in 1 .. Len(run) /\ Top = run[Len(run)]
  BY <1>1 DEF Top, Last
<1>3. \A i \in 1 .. Len(run) : run[i] \in RunRecords /\ RunInv(i)
  BY <1>1, ElementOfSeq DEF IInv, RunsInv
<1> QED
  BY <1>1, <1>2, <1>3 DEF IInv, TypeOK, RunInv

(* A child is started: its machine is new, and the chunk it runs is the    *)
(* one that has just been added to the table of its parent, whichever      *)
(* machine that is.                                                        *)
LEMMA ChildStarts ==
  ASSUME IInv, NEW s \in Scripts, s \notin Bad, run # <<>>, NEW m \in MachineRecords,
         Holds(m), m # None, NEW y, y = Run("script", Top.of, None, s, <<s>>),
         \/ /\ Top.kind = "execute"
            /\ runtimes' = [runtimes EXCEPT ![Top.of].vm = m]
            /\ run' = Append(run, y)
         \/ /\ Top.kind # "execute"
            /\ run' = Append([run EXCEPT ![Len(run)].vm = m], y)
            /\ runtimes' = runtimes
  PROVE  /\ run' \in Seq(RunRecords) /\ Len(run') = Len(run) + 1
         /\ run'[Len(run) + 1] = y
         /\ \A i \in 1 .. Len(run) :
              /\ run'[i].kind = run[i].kind /\ run'[i].of = run[i].of
              /\ run'[i].compiler = run[i].compiler /\ run'[i].asked = run[i].asked
              /\ run'[i].chunk = run[i].chunk
              /\ Holds(run'[i].vm)
         /\ DOMAIN runtimes' = DOMAIN runtimes
         /\ runtimes' \in [DOMAIN runtimes -> RuntimeRecords]
         /\ \A q \in DOMAIN runtimes :
              /\ runtimes'[q].compiler = runtimes[q].compiler
              /\ runtimes'[q].chunks = runtimes[q].chunks
              /\ runtimes'[q].vm = None <=> runtimes[q].vm = None
              /\ runtimes'[q].vm # None => Holds(runtimes'[q].vm)
<1> DEFINE n == Len(run)
           z == [Top EXCEPT !.vm = m]
           x == [runtimes[Top.of] EXCEPT !.vm = m]
<1>1. /\ run \in Seq(RunRecords) /\ n \in Nat /\ n > 0 /\ n \in 1 .. n
      /\ Top = run[n] /\ Top \in RunRecords
      /\ runtimes \in [DOMAIN runtimes -> RuntimeRecords] /\ Top.of \in DOMAIN runtimes
      /\ Top.of \in Runtimes /\ runtimes[Top.of] \in RuntimeRecords
      /\ \A i \in 1 .. n : Holds(run[i].vm)
      /\ \A q \in DOMAIN runtimes : runtimes[q].vm # None => Holds(runtimes[q].vm)
      /\ RunInv(n)
  BY TopFacts DEF IInv, TypeOK, TablesInv, RunRecords
<1>2. <<s>> \in Chunks
  BY DEF Chunks
<1>3. y \in RunRecords
  BY <1>1, <1>2, NewMachineFacts DEF Run, RunRecords
<1>4. CASE Top.kind = "execute"
  <2>1. runtimes' = [runtimes EXCEPT ![Top.of] = x] /\ run' = Append(run, y)
    BY <1>4
  <2>2. /\ x \in RuntimeRecords /\ x.compiler = runtimes[Top.of].compiler /\ x.vm = m
        /\ x.chunks = runtimes[Top.of].chunks
    BY <1>1 DEF RuntimeRecords
  <2> HIDE DEF x
  <2>3. runtimes[Top.of].vm # None
    BY <1>1, <1>4 DEF RunInv
  <2>4. /\ run' \in Seq(RunRecords) /\ Len(run') = n + 1 /\ run'[n + 1] = y
        /\ \A i \in 1 .. n : run'[i] = run[i]
    BY <1>1, <1>3, <2>1, AppendProperties
  <2>5. /\ DOMAIN runtimes' = DOMAIN runtimes
        /\ runtimes' \in [DOMAIN runtimes -> RuntimeRecords]
        /\ runtimes'[Top.of] = x
        /\ \A q \in DOMAIN runtimes : q # Top.of => runtimes'[q] = runtimes[q]
    BY <1>1, <2>1, <2>2
  <2> QED
    BY <1>1, <2>2, <2>3, <2>4, <2>5
<1>5. CASE Top.kind # "execute"
  <2> DEFINE t == [run EXCEPT ![n] = z]
  <2>1. runtimes' = runtimes /\ run' = Append(t, y)
    BY <1>1, <1>5
  <2>2. /\ z \in RunRecords /\ z.kind = Top.kind /\ z.of = Top.of /\ z.vm = m
        /\ z.compiler = Top.compiler /\ z.asked = Top.asked /\ z.chunk = Top.chunk
    BY <1>1 DEF RunRecords
  <2> HIDE DEF z
  <2>3. /\ t \in Seq(RunRecords) /\ Len(t) = n
        /\ \A i \in 1 .. n : t[i] = IF i = n THEN z ELSE run[i]
    BY <1>1, <2>2, ExceptSeq
  <2> HIDE DEF t
  <2>4. /\ run' \in Seq(RunRecords) /\ Len(run') = n + 1 /\ run'[n + 1] = y
        /\ \A i \in 1 .. n : run'[i] = t[i]
    BY <1>3, <2>1, <2>3, AppendProperties
  <2>5. \A i \in 1 .. n : /\ run'[i].kind = run[i].kind /\ run'[i].of = run[i].of
                          /\ run'[i].compiler = run[i].compiler
                          /\ run'[i].asked = run[i].asked
                          /\ run'[i].chunk = run[i].chunk
                          /\ Holds(run'[i].vm)
    BY <1>1, <2>2, <2>3, <2>4
  <2> QED
    BY <1>1, <2>1, <2>4, <2>5
<1> QED
  BY <1>4, <1>5

(* A script executes another: the compiler of that one is gone when it     *)
(* starts.                                                                 *)
LEMMA NapExecuteIInv ==
  ASSUME IInv, NEW s \in Scripts, NapExecute(s)
  PROVE  IInv'
<1> DEFINE c == Read(NewCompiler, s)
           m == AddChunk(Machine, Delivered(c))
           y == Run("script", Top.of, None, s, Chosen(m))
           n == Len(run)
<1>1. /\ InRun /\ ~c.error /\ machines' = machines + 1
      /\ compilers' = compilers /\ early' = early /\ lost' = lost
      /\ \E a \in Free : \E g \in Compiled(Construct(bin, a), a) :
           bin' = Destroy(Empty(g, a), a) /\ status' = After(bin')
  BY DEF NapExecute
<1>2. \/ /\ Top.kind = "execute"
         /\ runtimes' = [runtimes EXCEPT ![Top.of].vm = m]
         /\ run' = Append(run, y)
      \/ /\ Top.kind # "execute"
         /\ run' = Append([run EXCEPT ![Len(run)].vm = m], y)
         /\ runtimes' = runtimes
  BY DEF NapExecute
<1>3. Running /\ run # <<>> /\ s \notin Bad
  BY <1>1, NewCompilerFacts DEF InRun, Read
<1>4. /\ run \in Seq(RunRecords) /\ n \in Nat /\ n > 0 /\ n \in 1 .. n
      /\ Top = run[n] /\ Top \in RunRecords
      /\ \A i \in 1 .. n : RunInv(i)
      /\ runtimes \in [DOMAIN runtimes -> RuntimeRecords] /\ Top.of \in DOMAIN runtimes
      /\ DOMAIN compilers \subseteq Addresses /\ bin \in BinRecords
  BY <1>3, TopFacts
<1>5. Machine \in MachineRecords /\ Holds(Machine)
  <2>1. CASE Top.kind = "execute"
    <3>1. runtimes[Top.of].vm # None /\ runtimes[Top.of] \in RuntimeRecords
      BY <1>4, <2>1 DEF RunInv
    <3> QED
      BY <1>4, <2>1, <3>1 DEF Machine, IInv, TablesInv, RuntimeRecords
  <2>2. CASE Top.kind # "execute"
    BY <1>4, <2>2 DEF Machine, IInv, TablesInv, RunRecords
  <2> QED
    BY <2>1, <2>2
<1>6. <<s>> \in Chunks /\ Delivered(c) = <<s>> /\ Good(<<s>>)
  BY <1>3, NewCompilerFacts DEF Chunks, Good
<1>7. m \in MachineRecords /\ Holds(m) /\ m # None /\ Chosen(m) = <<s>>
  BY <1>5, <1>6, AddChunkFacts
<1>8. /\ y = Run("script", Top.of, None, s, <<s>>)
      /\ y.kind = "script" /\ y.of = Top.of /\ y.asked = s /\ y.chunk = <<s>>
      /\ y.vm = NewMachine
  BY <1>7 DEF Run
<1> HIDE DEF c, m, y
<1>9. /\ run' \in Seq(RunRecords) /\ Len(run') = n + 1
      /\ run'[n + 1] = y
      /\ \A i \in 1 .. n :
           /\ run'[i].kind = run[i].kind /\ run'[i].of = run[i].of
           /\ run'[i].compiler = run[i].compiler /\ run'[i].asked = run[i].asked
           /\ run'[i].chunk = run[i].chunk
           /\ Holds(run'[i].vm)
      /\ DOMAIN runtimes' = DOMAIN runtimes
      /\ runtimes' \in [DOMAIN runtimes -> RuntimeRecords]
      /\ \A q \in DOMAIN runtimes :
           /\ runtimes'[q].compiler = runtimes[q].compiler
           /\ runtimes'[q].chunks = runtimes[q].chunks
           /\ runtimes'[q].vm = None <=> runtimes[q].vm = None
           /\ runtimes'[q].vm # None => Holds(runtimes'[q].vm)
  BY <1>2, <1>3, <1>7, <1>8, ChildStarts
<1>10. /\ bin' \in BinRecords /\ status' \in {"running", "wild"}
       /\ status' = "running" => Owned(bin', DOMAIN compilers')
       /\ ~early' => Intact(bin', DOMAIN compilers')
  <2> DEFINE A == DOMAIN compilers
  <2>1. PICK a \in Free : \E g \in Compiled(Construct(bin, a), a) :
          bin' = Destroy(Empty(g, a), a) /\ status' = After(bin')
    BY <1>1
  <2>2. PICK g \in Compiled(Construct(bin, a), a) :
          bin' = Destroy(Empty(g, a), a) /\ status' = After(bin')
    BY <2>1
  <2>3. a \in Addresses /\ a \notin A /\ Owned(bin, A) /\ (~early => Intact(bin, A))
    BY <1>3 DEF Free, IInv, BinsInv
  <2>4. /\ bin' \in BinRecords /\ (~bin'.fault => Owned(bin', A))
        /\ Intact(bin, A) => Intact(bin', A)
    BY <1>4, <2>2, <2>3, BinsScriptGone
  <2> QED
    BY <1>1, <2>2, <2>3, <2>4 DEF After
<1>11. 1 .. n + 1 = (1 .. n) \cup {n + 1} /\ n + 1 \notin 1 .. n
  BY <1>4
<1> HIDE DEF n
<1>12. TypeOK'
  BY <1>1, <1>9, <1>10 DEF IInv, TypeOK
<1>13. RunsInv'
  <2>1. ASSUME NEW i \in 1 .. n
        PROVE  RunInv(i)'
    <3>1. RunInv(i)
      BY <1>4
    <3>2. /\ run'[i].kind = run[i].kind /\ run'[i].of = run[i].of
          /\ run'[i].asked = run[i].asked /\ run'[i].chunk = run[i].chunk
      BY <1>9
    <3> QED
      BY <1>9, <3>1, <3>2 DEF RunInv
  <2>2. ASSUME NEW i, i = n + 1
        PROVE  RunInv(i)'
    <3>1. /\ run'[i].kind = "script" /\ run'[i].of = Top.of /\ run'[i].asked = s
          /\ run'[i].chunk = <<s>> /\ i > 1
      BY <1>4, <1>8, <1>9, <2>2
    <3> QED
      BY <1>4, <1>9, <3>1 DEF RunInv
  <2> QED
    BY <1>9, <1>11, <2>1, <2>2 DEF RunsInv
<1>14. CompilersInv'
  <2>1. \A i \in 1 .. Len(run') : run'[i].kind = "code" =>
          /\ i \in 1 .. n /\ run[i].kind = "code" /\ run'[i].compiler = run[i].compiler
    BY <1>8, <1>9, <1>11
  <2>2. \A i \in 1 .. n : i \in 1 .. Len(run') /\ run'[i].kind = run[i].kind
                          /\ run'[i].compiler = run[i].compiler
    BY <1>9, <1>11
  <2>3. \A i \in 1 .. Len(run') : run'[i].kind = "code" =>
          /\ run'[i].compiler \in DOMAIN compilers
          /\ \A r \in DOMAIN runtimes : runtimes[r].compiler # run'[i].compiler
    BY <2>1 DEF IInv, CompilersInv, n
  <2>4. ASSUME NEW b \in DOMAIN compilers
        PROVE  \/ \E r \in DOMAIN runtimes : runtimes[r].compiler = b
               \/ \E i \in 1 .. Len(run') : run'[i].kind = "code" /\ run'[i].compiler = b
    BY <2>2 DEF IInv, CompilersInv, n
  <2>5. /\ \A r, q \in DOMAIN runtimes : runtimes[r].compiler = runtimes[q].compiler => r = q
        /\ \A r \in DOMAIN runtimes : runtimes[r].compiler \in DOMAIN compilers
    BY DEF IInv, CompilersInv
  <2> QED
    BY <1>1, <1>9, <2>3, <2>4, <2>5 DEF CompilersInv
<1>15. TablesInv'
  <2>1. Holds(run'[n + 1].vm)
    BY <1>8, <1>9, NewMachineFacts
  <2>2. \A i \in 1 .. Len(run') : Holds(run'[i].vm)
    BY <1>9, <1>11, <2>1
  <2> QED
    BY <1>9, <2>2 DEF TablesInv
<1>16. CodeInv'
  <2>1. \A i \in 1 .. Len(run') : Good(run'[i].chunk)
    <3>1. \A i \in 1 .. n : Good(run[i].chunk)
      BY DEF IInv, CodeInv, n
    <3>2. Good(run'[n + 1].chunk)
      BY <1>6, <1>8, <1>9
    <3> QED
      BY <1>9, <1>11, <3>1, <3>2
  <2> QED
    BY <1>1, <1>9, <2>1 DEF IInv, CodeInv
<1>17. BinsInv'
  BY <1>10 DEF BinsInv, Running
<1>18. CountInv'
  <2>1. Owners' = Owners
    BY <1>9 DEF Owners
  <2>2. Children' = Children \cup {n + 1} /\ n + 1 \notin Children
    BY <1>8, <1>9, <1>11 DEF Children, n
  <2>3. /\ IsFiniteSet(Children) /\ Cardinality(Children) \in Nat
        /\ Cardinality(Owners) \in Nat /\ lost \in Int
        /\ machines = Cardinality(Owners) + Cardinality(Children) + lost
    BY CountFacts DEF IInv, CountInv, TypeOK
  <2>4. Cardinality(Children') = Cardinality(Children) + 1
    BY <2>2, <2>3, FS_AddElement
  <2> QED
    BY <1>1, <2>1, <2>3, <2>4 DEF CountInv
<1> QED
  BY <1>12, <1>13, <1>14, <1>15, <1>16, <1>17, <1>18 DEF IInv

(* A run is marked as failed: nothing else of the runs changes.            *)
Mark(s) == [s EXCEPT ![Len(s)].failed = TRUE]

(* The runs of t are those of s, but for what has failed.                  *)
Alike(s, t) ==
  /\ Len(t) = Len(s)
  /\ \A i \in 1 .. Len(s) :
       /\ t[i].kind = s[i].kind /\ t[i].of = s[i].of
       /\ t[i].compiler = s[i].compiler /\ t[i].asked = s[i].asked
       /\ t[i].chunk = s[i].chunk /\ t[i].vm = s[i].vm

(* Mark changes the last run only, and only that it has failed.            *)
LEMMA Marked ==
  ASSUME NEW s \in Seq(RunRecords), Len(s) > 0, NEW t, t = Mark(s)
  PROVE  t \in Seq(RunRecords) /\ Alike(s, t)
<1> DEFINE n == Len(s)
           z == [s[n] EXCEPT !.failed = TRUE]
<1>1. n \in Nat /\ n \in 1 .. n /\ s[n] \in RunRecords
  BY LenProperties, ElementOfSeq
<1>2. t = [s EXCEPT ![n] = z]
  BY DEF Mark
<1>3. /\ z \in RunRecords /\ z.kind = s[n].kind /\ z.of = s[n].of
      /\ z.compiler = s[n].compiler /\ z.asked = s[n].asked
      /\ z.chunk = s[n].chunk /\ z.vm = s[n].vm
  BY <1>1 DEF RunRecords
<1> HIDE DEF z
<1> DEFINE w == [s EXCEPT ![n] = z]
<1>4. /\ w \in Seq(RunRecords) /\ Len(w) = Len(s)
      /\ \A i \in 1 .. Len(s) : w[i] = IF i = n THEN z ELSE s[i]
  BY <1>1, <1>3, ExceptSeq
<1>5. t = w
  BY <1>2
<1> HIDE DEF w
<1>6. \A i \in 1 .. Len(s) : t[i] = s[i] \/ (i = n /\ t[i] = z)
  BY <1>4, <1>5
<1> QED
  BY <1>3, <1>4, <1>5, <1>6 DEF Alike

(* What holds of the runs holds when some of the innermost have ended or   *)
(* failed.                                                                 *)
LEMMA RunsKept ==
  ASSUME IInv, runtimes' = runtimes, run' \in Seq(RunRecords), Len(run') <= Len(run),
         \A i \in 1 .. Len(run') :
           /\ run'[i].kind = run[i].kind /\ run'[i].of = run[i].of
           /\ run'[i].compiler = run[i].compiler /\ run'[i].asked = run[i].asked
           /\ run'[i].chunk = run[i].chunk /\ run'[i].vm = run[i].vm
  PROVE  /\ RunsInv' /\ TablesInv' /\ Owners' = Owners
         /\ \A i \in 1 .. Len(run') : Good(run'[i].chunk)
         /\ \A i \in 1 .. Len(run') : i \in 1 .. Len(run)
         /\ Children' = {i \in Children : i \in 1 .. Len(run')}
<1>1. Len(run) \in Nat /\ Len(run') \in Nat
  BY LenProperties DEF IInv, TypeOK
<1>2. \A i \in 1 .. Len(run') : i \in 1 .. Len(run)
  BY <1>1
<1>3. RunsInv'
  <2>1. ASSUME NEW i \in 1 .. Len(run')
        PROVE  RunInv(i)'
    <3>1. RunInv(i)
      BY <1>2 DEF IInv, RunsInv
    <3>2. /\ run'[i].kind = run[i].kind /\ run'[i].of = run[i].of
          /\ run'[i].asked = run[i].asked /\ run'[i].chunk = run[i].chunk
      OBVIOUS
    <3> QED
      BY <3>1, <3>2 DEF RunInv
  <2> QED
    BY <2>1 DEF RunsInv
<1>4. TablesInv'
  BY <1>2 DEF IInv, TablesInv
<1>5. Owners' = Owners
  BY DEF Owners
<1>6. \A i \in 1 .. Len(run') : Good(run'[i].chunk)
  BY <1>2 DEF IInv, CodeInv
<1>7. Children' = {i \in Children : i \in 1 .. Len(run')}
  BY <1>2 DEF Children
<1> QED
  BY <1>2, <1>3, <1>4, <1>5, <1>6, <1>7

(* The innermost machine has failed, and the bins are as good as before.   *)
LEMMA FailedIInv ==
  ASSUME IInv, InRun, run' = Mark(run),
         UNCHANGED <<runtimes, compilers, machines, lost>>,
         bin' \in BinRecords, status' \in {"running", "wild"}, early' \in BOOLEAN,
         status' = "running" => Owned(bin', DOMAIN compilers),
         ~early' => Intact(bin', DOMAIN compilers)
  PROVE  IInv'
<1>1. /\ run \in Seq(RunRecords) /\ Len(run) \in Nat /\ Len(run) > 0
  BY TopFacts DEF InRun
<1>2. /\ run' \in Seq(RunRecords) /\ Len(run') = Len(run)
      /\ \A i \in 1 .. Len(run) :
           /\ run'[i].kind = run[i].kind /\ run'[i].of = run[i].of
           /\ run'[i].compiler = run[i].compiler /\ run'[i].asked = run[i].asked
           /\ run'[i].chunk = run[i].chunk /\ run'[i].vm = run[i].vm
  <2>1. run' \in Seq(RunRecords) /\ Alike(run, run')
    BY <1>1, Marked
  <2> QED
    BY <2>1 DEF Alike
<1>3. /\ RunsInv' /\ TablesInv' /\ Owners' = Owners
      /\ \A i \in 1 .. Len(run') : Good(run'[i].chunk)
      /\ Children' = {i \in Children : i \in 1 .. Len(run')}
  BY <1>1, <1>2, RunsKept
<1>4. TypeOK'
  BY <1>2 DEF IInv, TypeOK
<1>5. CompilersInv'
  BY <1>2 DEF IInv, CompilersInv
<1>6. CodeInv'
  BY <1>3 DEF IInv, CodeInv
<1>7. BinsInv'
  BY DEF BinsInv, Running
<1>8. CountInv'
  <2>1. Children' = Children
    BY <1>2, <1>3 DEF Children
  <2> QED
    BY <1>3, <2>1 DEF IInv, CountInv
<1> QED
  BY <1>3, <1>4, <1>5, <1>6, <1>7, <1>8 DEF IInv

(* The machine that runs fails.                                            *)
LEMMA FailIInv ==
  ASSUME IInv, Fail
  PROVE  IInv'
<1>1. /\ InRun /\ Running /\ run' = Mark(run)
      /\ UNCHANGED <<runtimes, compilers, bin, machines, status, early, lost>>
  BY DEF Fail, InRun, Mark
<1> QED
  BY <1>1, FailedIInv DEF IInv, TypeOK, BinsInv

(* A script does not compile: the bins go, and if they do not go under a   *)
(* compiler that has one, they are empty.                                  *)
LEMMA NapExecuteBadIInv ==
  ASSUME IInv, NEW s \in Scripts, NapExecuteBad(s)
  PROVE  IInv'
<1> DEFINE A == DOMAIN compilers
<1>1. /\ InRun /\ Running /\ run' = Mark(run)
      /\ UNCHANGED <<runtimes, compilers, machines, lost>>
      /\ early' = (early \/ \E b \in A : bin.pinstances[b] # 0)
      /\ \E a \in Free : \E g \in Compiled(Construct(bin, a), a) :
           bin' = Release(Destroy(g, a)) /\ status' = After(bin')
  BY DEF NapExecuteBad, InRun, Mark
<1>2. A \subseteq Addresses /\ bin \in BinRecords /\ Owned(bin, A) /\ (~early => Intact(bin, A))
  BY <1>1 DEF IInv, TypeOK, BinsInv
<1>3. PICK a \in Free : \E g \in Compiled(Construct(bin, a), a) :
        bin' = Release(Destroy(g, a)) /\ status' = After(bin')
  BY <1>1
<1>4. PICK g \in Compiled(Construct(bin, a), a) :
        bin' = Release(Destroy(g, a)) /\ status' = After(bin')
  BY <1>3
<1>5. a \in Addresses /\ a \notin A
  BY DEF Free
<1> DEFINE k == Destroy(g, a)
<1>6. /\ k \in BinRecords
      /\ \A b \in Addresses : b # a => k.pinstances[b] = bin.pinstances[b]
      /\ ~k.fault => Owned(k, A)
      /\ Intact(bin, A) => Intact(k, A)
  BY <1>2, <1>5, BinsScriptGone
<1>7. bin' = Release(k)
  BY <1>4
<1> HIDE DEF k, A
<1>8. /\ bin' \in BinRecords /\ Owned(bin', A)
      /\ bin'.stale = k.stale /\ bin'.fault = k.fault
      /\ bin'.pinstances = k.pinstances
      /\ bin'.leaked = (k.leaked \/ k.objects # {})
  BY <1>6, <1>7, BinsRelease
<1>9. ASSUME ~early'
      PROVE  Intact(bin', A)
  <2>1. Intact(k, A) /\ \A b \in A : bin.pinstances[b] = 0
    BY <1>1, <1>2, <1>6, <1>9
  <2>2. \A b \in Addresses : k.pinstances[b] = 0
    BY <1>2, <1>5, <1>6, <2>1 DEF Intact
  <2>3. k.objects = {}
    <3>1. Owned(k, A) /\ k.objects \subseteq Addresses \X (1 .. MaxBins)
      BY <1>6, <2>1 DEF Intact, BinRecords
    <3> QED
      BY <2>2, <3>1 DEF Owned
  <2> QED
    BY <1>8, <2>1, <2>2, <2>3 DEF Intact
<1>10. early' \in BOOLEAN
  BY <1>1 DEF IInv, TypeOK
<1>11. status' \in {"running", "wild"}
  BY <1>4 DEF After
<1> QED
  BY <1>1, <1>8, <1>9, <1>10, <1>11, FailedIInv DEF A

(* What a run leaves to the one below it.                                  *)
LEMMA FinishRuns ==
  ASSUME IInv, run # <<>>, Finish, runtimes' = runtimes
  PROVE  /\ run' \in Seq(RunRecords) /\ Len(run') = Len(run) - 1
         /\ \A i \in 1 .. Len(run) - 1 :
              /\ run'[i].kind = run[i].kind /\ run'[i].of = run[i].of
              /\ run'[i].compiler = run[i].compiler /\ run'[i].asked = run[i].asked
              /\ run'[i].chunk = run[i].chunk /\ run'[i].vm = run[i].vm
<1> DEFINE n == Len(run)
           below == Front(run)
<1>1. run \in Seq(RunRecords) /\ n \in Nat /\ n > 0
  BY TopFacts
<1>2. /\ below \in Seq(RunRecords) /\ Len(below) = n - 1
      /\ \A i \in 1 .. n - 1 : below[i] = run[i]
  BY <1>1, FrontProperties
<1>3. \/ run' = below
      \/ below # <<>> /\ run' = Mark(below)
  BY DEF Finish, Mark
<1> HIDE DEF below
<1>4. CASE run' = below
  BY <1>2, <1>4
<1>5. CASE below # <<>> /\ run' = Mark(below)
  <2>1. Len(below) > 0
    BY <1>1, <1>2, <1>5, LenProperties, EmptySeq
  <2>2. run' \in Seq(RunRecords) /\ Alike(below, run')
    BY <1>2, <1>5, <2>1, Marked
  <2> QED
    BY <1>2, <2>2 DEF Alike
<1> QED
  BY <1>3, <1>4, <1>5

(* A run ends: a machine of the runtime stays, that of a child goes, and   *)
(* below that of the host its compiler.                                    *)
LEMMA FinishIInv ==
  ASSUME IInv, Running, run # <<>>, Finish, UNCHANGED <<runtimes, early, lost>>
  PROVE  IInv'
<1> DEFINE n == Len(run)
<1>1. /\ run \in Seq(RunRecords) /\ n \in Nat /\ n > 0 /\ n \in 1 .. n
      /\ Top = run[n] /\ Top \in RunRecords /\ RunInv(n)
      /\ \A i \in 1 .. n : RunInv(i)
      /\ compilers \in [DOMAIN compilers -> CompilerRecords]
      /\ DOMAIN compilers \subseteq Addresses /\ bin \in BinRecords
  BY TopFacts
<1>2. /\ run' \in Seq(RunRecords) /\ Len(run') = n - 1
      /\ \A i \in 1 .. n - 1 :
           /\ run'[i].kind = run[i].kind /\ run'[i].of = run[i].of
           /\ run'[i].compiler = run[i].compiler /\ run'[i].asked = run[i].asked
           /\ run'[i].chunk = run[i].chunk /\ run'[i].vm = run[i].vm
  BY FinishRuns
<1>3. /\ RunsInv' /\ TablesInv' /\ Owners' = Owners
      /\ \A i \in 1 .. Len(run') : Good(run'[i].chunk)
      /\ Children' = {i \in Children : i \in 1 .. Len(run')}
  BY <1>1, <1>2, RunsKept
<1>4. Children \subseteq 1 .. n /\ (n \in Children <=> run[n].kind # "execute")
  BY <1>1 DEF Children
<1>5. Children' = Children \ {n}
  <2>1. \A i \in 1 .. n : i \in 1 .. n - 1 <=> i # n
    BY <1>1
  <2> QED
    BY <1>2, <1>3, <1>4, <2>1
<1>6. run[n].kind = "script" <=> n > 1
  BY <1>1 DEF RunInv
<1>7. Owned(bin, DOMAIN compilers) /\ (~early => Intact(bin, DOMAIN compilers))
  BY DEF IInv, BinsInv
<1>8. CountInv'
  <2>1. /\ IsFiniteSet(Children) /\ Cardinality(Children) \in Nat
        /\ Cardinality(Owners) \in Nat /\ lost \in Int
        /\ machines = Cardinality(Owners) + Cardinality(Children) + lost
    BY CountFacts DEF IInv, CountInv, TypeOK
  <2>2. Cardinality(Children') = IF run[n].kind # "execute" THEN Cardinality(Children) - 1
                                 ELSE Cardinality(Children)
    BY <1>4, <1>5, <2>1, FS_RemoveElement
  <2>3. machines' = IF run[n].kind # "execute" THEN machines - 1 ELSE machines
    BY <1>1 DEF Finish
  <2> QED
    BY <1>3, <2>1, <2>2, <2>3 DEF CountInv
<1>9. status' \in {"running", "wild"} /\ machines' \in Int
  BY DEF Finish, IInv, TypeOK, Running, After, CleanupOutcomes
<1>10. CASE run[n].kind # "code"
  <2>1. compilers' = compilers /\ bin' = bin
    BY <1>1, <1>10 DEF Finish, RunRecords
  <2>2. TypeOK'
    BY <1>2, <1>9, <2>1 DEF IInv, TypeOK
  <2>3. CompilersInv'
    <3>1. \A i \in 1 .. n : run[i].kind = "code" => i \in 1 .. n - 1
      BY <1>1, <1>10
    <3>2. \A i \in 1 .. n - 1 : i \in 1 .. n
      BY <1>1
    <3>3. \A i \in 1 .. Len(run') : run'[i].kind = "code" =>
            /\ run'[i].compiler \in DOMAIN compilers
            /\ \A r \in DOMAIN runtimes : runtimes[r].compiler # run'[i].compiler
      BY <1>2, <3>2 DEF IInv, CompilersInv
    <3>4. ASSUME NEW b \in DOMAIN compilers
          PROVE  \/ \E r \in DOMAIN runtimes : runtimes[r].compiler = b
                 \/ \E i \in 1 .. Len(run') : run'[i].kind = "code" /\ run'[i].compiler = b
      BY <1>2, <3>1 DEF IInv, CompilersInv
    <3> QED
      BY <2>1, <3>3, <3>4 DEF IInv, CompilersInv
  <2>4. CodeInv'
    BY <1>3, <2>1 DEF IInv, CodeInv
  <2>5. BinsInv'
    BY <1>7, <2>1 DEF BinsInv
  <2> QED
    BY <1>3, <1>8, <2>2, <2>3, <2>4, <2>5 DEF IInv
<1>11. CASE run[n].kind = "code"
  <2> DEFINE a == run[n].compiler
             D == DOMAIN compilers \ {a}
  <2>1. n = 1 /\ Len(run') = 0
    BY <1>1, <1>2, <1>6, <1>11
  <2>2. /\ a \in DOMAIN compilers /\ a \in Addresses
        /\ \A r \in DOMAIN runtimes : runtimes[r].compiler # a
    BY <1>1, <1>11 DEF IInv, CompilersInv
  <2>3. compilers' = Without(compilers, a) /\ bin' = Destroy(bin, a)
        /\ (bin'.fault => status' = "wild")
    BY <1>1, <1>11 DEF Finish
  <2>4. /\ DOMAIN compilers' = D
        /\ \A b \in D : compilers'[b] = compilers[b]
        /\ compilers' \in [D -> CompilerRecords]
    BY <1>1, <2>3 DEF Without
  <2>5. /\ bin' \in BinRecords
        /\ ~bin'.fault => Owned(bin', D)
        /\ ~early => Intact(bin', D)
    BY <1>1, <1>7, <2>2, <2>3, BinsDestroy
  <2>6. TypeOK'
    BY <1>1, <1>2, <1>9, <2>4, <2>5 DEF IInv, TypeOK
  <2>7. CompilersInv'
    <3>1. \A b \in D : \E r \in DOMAIN runtimes : runtimes[r].compiler = b
      <4>1. \A i \in 1 .. n : i = n
        BY <2>1
      <4> QED
        BY <4>1 DEF IInv, CompilersInv
    <3>2. \A r \in DOMAIN runtimes : runtimes[r].compiler \in D
      BY <2>2 DEF IInv, CompilersInv
    <3> QED
      BY <2>1, <2>4, <3>1, <3>2 DEF IInv, CompilersInv
  <2>8. CodeInv'
    BY <1>3, <2>4 DEF IInv, CodeInv
  <2>9. BinsInv'
    BY <2>3, <2>4, <2>5 DEF BinsInv, Running
  <2> QED
    BY <1>3, <1>8, <2>6, <2>7, <2>8, <2>9 DEF IInv
<1> QED
  BY <1>10, <1>11

-----------------------------------------------------------------------------
(* A process starts with nothing.                                          *)
LEMMA InitIInv == Init => IInv
<1> SUFFICES ASSUME Init
             PROVE  IInv
  OBVIOUS
<1>1. /\ runtimes = <<>> /\ compilers = <<>> /\ bin = EmptyBins /\ run = <<>>
      /\ machines = 0 /\ status = "running" /\ early = FALSE /\ lost = 0
  BY DEF Init
<1>2. /\ DOMAIN runtimes = {} /\ DOMAIN compilers = {} /\ Len(run) = 0
      /\ runtimes \in [DOMAIN runtimes -> RuntimeRecords]
      /\ compilers \in [DOMAIN compilers -> CompilerRecords]
      /\ run \in Seq(RunRecords)
  BY <1>1, EmptySeq
<1>3. /\ EmptyBins \in BinRecords /\ EmptyBins.items = {} /\ EmptyBins.objects = {}
      /\ EmptyBins.stale = {} /\ ~EmptyBins.leaked /\ ~EmptyBins.fault
      /\ \A a \in Addresses : EmptyBins.pinstances[a] = 0
  BY RuntimeAssumption DEF EmptyBins, BinRecords
<1>4. TypeOK
  <2>1. IsFiniteSet(DOMAIN runtimes) /\ DOMAIN runtimes \subseteq Runtimes
    BY <1>2, FS_EmptySet
  <2>2. DOMAIN compilers \subseteq Addresses /\ bin \in BinRecords
    BY <1>1, <1>2, <1>3
  <2>3. machines \in Int /\ lost \in Int /\ status \in {"running", "wild"}
    BY <1>1
  <2>4. early \in BOOLEAN
    BY <1>1
  <2> QED
    BY <1>2, <2>1, <2>2, <2>3, <2>4 DEF TypeOK
<1>5. RunsInv /\ CompilersInv
  BY <1>2 DEF RunsInv, CompilersInv
<1>6. TablesInv /\ CodeInv
  BY <1>2 DEF TablesInv, CodeInv
<1>7. BinsInv
  BY <1>1, <1>3 DEF BinsInv, Owned, Intact
<1>8. CountInv
  <2>1. Owners = {} /\ Children = {}
    BY <1>2 DEF Owners, Children
  <2> QED
    BY <1>1, <2>1, FS_EmptySet DEF CountInv
<1> QED
  BY <1>4, <1>5, <1>6, <1>7, <1>8 DEF IInv

(* A step that changes nothing.                                            *)
LEMMA StutterIInv ==
  ASSUME IInv, UNCHANGED vars
  PROVE  IInv'
<1>1. TypeOK'
  BY DEF IInv, TypeOK, vars
<1>2. RunsInv'
  BY DEF IInv, RunsInv, RunInv, vars
<1>3. CompilersInv'
  BY DEF IInv, CompilersInv, vars
<1>4. TablesInv' /\ CodeInv'
  BY DEF IInv, TablesInv, CodeInv, vars
<1>5. BinsInv'
  BY DEF IInv, BinsInv, Running, vars
<1>6. CountInv'
  BY DEF IInv, CountInv, Owners, Children, vars
<1> QED
  BY <1>1, <1>2, <1>3, <1>4, <1>5, <1>6 DEF IInv

(* Every step keeps the invariant.                                         *)
LEMMA NextIInv == IInv /\ [Next]_vars => IInv'
<1> SUFFICES ASSUME IInv, [Next]_vars
             PROVE  IInv'
  OBVIOUS
<1>1. ASSUME NEW r \in Runtimes, Create(r)
      PROVE  IInv'
  BY <1>1, CreateIInv
<1>2. ASSUME NEW r \in Runtimes, ShutdownRuntime(r)
      PROVE  IInv'
  BY <1>2, ShutdownRuntimeIInv
<1>3. ASSUME NEW r \in DOMAIN runtimes, NEW s \in Scripts, CompileChunk(r, s)
      PROVE  IInv'
  BY <1>3, CompileChunkIInv
<1>4. ASSUME NEW r \in DOMAIN runtimes, NEW s \in Scripts, ExecuteCode(r, s)
      PROVE  IInv'
  BY <1>4, ExecuteCodeIInv
<1>5. ASSUME NEW r \in DOMAIN runtimes, NEW chunk \in Range(runtimes[r].chunks),
             Execute(r, chunk)
      PROVE  IInv'
  BY <1>5, ExecuteIInv
<1>6. ASSUME NEW s \in Scripts, NapExecute(s)
      PROVE  IInv'
  BY <1>6, NapExecuteIInv
<1>7. ASSUME NEW s \in Scripts, NapExecuteBad(s)
      PROVE  IInv'
  BY <1>7, NapExecuteBadIInv
<1>8. ASSUME Fail
      PROVE  IInv'
  BY <1>8, FailIInv
<1>9. ASSUME End \/ Unwind
      PROVE  IInv'
  BY <1>9, FinishIInv DEF End, Unwind, InRun
<1>10. CASE UNCHANGED vars
  BY <1>10, StutterIInv
<1> QED
  BY <1>1, <1>2, <1>3, <1>4, <1>5, <1>6, <1>7, <1>8, <1>9, <1>10 DEF Next

(* The invariant holds of every program, whatever its scripts do and       *)
(* however the host mixes its runtimes.                                    *)
THEOREM Invariance == Spec => []IInv
<1>1. Init => IInv
  BY InitIInv
<1>2. IInv /\ [Next]_vars => IInv'
  BY NextIInv
<1> QED
  BY <1>1, <1>2, PTL DEF Spec

-----------------------------------------------------------------------------
(* Bins that are gone are used only after they have been deleted under a   *)
(* living compiler (garbage_bin.h), however addresses are used again.      *)
THEOREM BinsAreSafe == Spec => []BinsStay
<1>1. IInv => BinsStay
  BY DEF IInv, BinsInv, Intact, BinsStay
<1> QED
  BY <1>1, Invariance, PTL

(* When the host has control the compilers of scripts are gone, and what   *)
(* is in the bins is always that of a living compiler                      *)
(* (nap_runtime.cpp:387-479).                                              *)
THEOREM CompilersAreReleased == Spec => []CompilersGo
<1>1. IInv => CompilersGo
  <2> SUFFICES ASSUME IInv
               PROVE  CompilersGo
    OBVIOUS
  <2>1. ASSUME InHost
        PROVE  DOMAIN compilers = {runtimes[r].compiler : r \in DOMAIN runtimes}
    <3>1. Len(run) = 0
      BY <2>1, HostFacts
    <3>2. \A a \in DOMAIN compilers : \E r \in DOMAIN runtimes : runtimes[r].compiler = a
      BY <3>1 DEF IInv, CompilersInv
    <3>3. \A r \in DOMAIN runtimes : runtimes[r].compiler \in DOMAIN compilers
      BY DEF IInv, CompilersInv
    <3> QED
      BY <3>2, <3>3
  <2>2. ASSUME Running
        PROVE  {o[1] : o \in bin.objects} \subseteq DOMAIN compilers
    BY <2>2 DEF IInv, BinsInv, Owned
  <2>3. bin.leaked => early
    BY DEF IInv, BinsInv, Intact
  <2> QED
    BY <2>1, <2>2, <2>3 DEF CompilersGo
<1> QED
  BY <1>1, Invariance, PTL

(* The machines are those of the runtimes, the children that are running,  *)
(* and those the host has replaced (nap_runtime.cpp:134).                  *)
THEOREM MachinesAreKnown == Spec => []MachinesKnown
<1>1. IInv => MachinesKnown
  <2> SUFFICES ASSUME IInv
               PROVE  MachinesKnown
    OBVIOUS
  <2>1. DOMAIN run = 1 .. Len(run)
    BY CountFacts DEF IInv
  <2>2. Children = {i \in DOMAIN run : run[i].kind # "execute"}
    BY <2>1 DEF Children
  <2> QED
    BY <2>2 DEF IInv, CountInv, Owners, MachinesKnown
<1> QED
  BY <1>1, Invariance, PTL

(* A machine runs the script that was asked for, but the second chunk of a *)
(* runtime runs the code of the first (compiler.cpp:133).                  *)
THEOREM ScriptsRun == Spec => []RunsTheScript
<1>1. IInv => RunsTheScript
  <2> SUFFICES ASSUME IInv, NEW i \in DOMAIN run
               PROVE  \/ Executed(run[i].chunk) = run[i].asked
                      \/ run[i].kind = "execute" /\ Len(run[i].chunk) > 1
    BY DEF RunsTheScript
  <2>1. DOMAIN run = 1 .. Len(run) /\ run \in Seq(RunRecords)
    BY CountFacts DEF IInv, TypeOK
  <2>2. RunInv(i) /\ run[i] \in RunRecords
    BY <2>1, ElementOfSeq DEF IInv, RunsInv
  <2>3. CASE run[i].kind # "execute"
    <3>1. run[i].chunk = <<run[i].asked>>
      BY <2>2, <2>3 DEF RunInv
    <3>2. Head(<<run[i].asked>>) = run[i].asked
      OBVIOUS
    <3> QED
      BY <3>1, <3>2 DEF Executed
  <2>4. CASE run[i].kind = "execute"
    <3>1. /\ Len(run[i].chunk) > 0 /\ run[i].asked = run[i].chunk[Len(run[i].chunk)]
          /\ Len(run[i].chunk) \in Nat
      BY <2>2, <2>4, LenProperties DEF RunInv, RunRecords, Chunks, Last
    <3>2. Len(run[i].chunk) = 1 => Executed(run[i].chunk) = run[i].chunk[1]
      <4>1. \A c \in Seq(Scripts) : Len(c) = 1 => Head(c) = c[1]
        OBVIOUS
      <4> QED
        BY <2>2, <4>1 DEF Executed, RunRecords, Chunks
    <3>3. \A k \in Nat : k > 0 => k = 1 \/ k > 1
      OBVIOUS
    <3>4. Len(run[i].chunk) = 1 \/ Len(run[i].chunk) > 1
      BY <3>1, <3>3
    <3>5. CASE Len(run[i].chunk) = 1
      BY <3>1, <3>2, <3>5
    <3> QED
      BY <2>4, <3>4, <3>5
  <2> QED
    BY <2>3, <2>4
<1> QED
  BY <1>1, Invariance, PTL

(* No chunk is written behind the end of its table (intr_2.cpp:54).        *)
THEOREM TablesHold == Spec => []TableHolds
<1>1. IInv => TableHolds
  <2> SUFFICES ASSUME IInv
               PROVE  TableHolds
    OBVIOUS
  <2>1. DOMAIN run = 1 .. Len(run)
    BY CountFacts DEF IInv
  <2> QED
    BY <2>1 DEF IInv, TablesInv, Holds, TableHolds
<1> QED
  BY <1>1, Invariance, PTL

(* What does not compile is in no chunk of a runtime and in none that      *)
(* runs, as part of a later chunk either (compiler.cpp:133).               *)
THEOREM OnlyGoodCodeRuns == Spec => []NoBadCode
<1>1. IInv => NoBadCode
  <2> SUFFICES ASSUME IInv
               PROVE  NoBadCode
    OBVIOUS
  <2>1. ASSUME NEW c \in Chunks, Good(c)
        PROVE  Range(c) \cap Bad = {}
    <3>1. DOMAIN c = 1 .. Len(c)
      BY LenProperties DEF Chunks
    <3> QED
      BY <2>1, <3>1 DEF Good, Range
  <2>2. ASSUME NEW r \in DOMAIN runtimes, NEW c \in Range(runtimes[r].chunks)
        PROVE  c \in Chunks /\ Good(c)
    <3>1. runtimes[r].chunks \in Seq(Chunks)
      BY DEF IInv, TypeOK, RuntimeRecords
    <3>2. PICK k \in 1 .. Len(runtimes[r].chunks) : c = runtimes[r].chunks[k]
      BY <3>1, LenProperties DEF Range
    <3> QED
      BY <3>1, <3>2, ElementOfSeq DEF IInv, CodeInv
  <2>3. ASSUME NEW i \in DOMAIN run
        PROVE  run[i].chunk \in Chunks /\ Good(run[i].chunk)
    <3>1. DOMAIN run = 1 .. Len(run) /\ run \in Seq(RunRecords)
      BY CountFacts DEF IInv, TypeOK
    <3>2. run[i] \in RunRecords /\ i \in 1 .. Len(run)
      BY <3>1, ElementOfSeq
    <3>3. run[i].chunk \in Chunks
      BY <3>2 DEF RunRecords
    <3> QED
      BY <3>2, <3>3 DEF IInv, CodeInv
  <2> QED
    BY <2>1, <2>2, <2>3 DEF NoBadCode
<1> QED
  BY <1>1, Invariance, PTL
=============================================================================
