---------------------------- MODULE NapChainProofs ----------------------------
(***************************************************************************)
(* Proofs about NapChain, for every number of machines, of open calls and  *)
(* of values.                                                              *)
(*                                                                         *)
(* The invariant says how the machines alive hang together (ParentInv),    *)
(* how each run in progress follows from the one below it (RunsInv), where *)
(* the open calls of a machine return to (PlacesInv), at which address a   *)
(* machine waits for the script it executes (WaitingInv), how the calls    *)
(* from children lie on the call frames of the root (NestedInv,            *)
(* OpenCallInv), and what the root looks like as long as nothing in it has *)
(* failed (IdleInv). Only the root is called from children, so only its    *)
(* call frames need to be followed from run to run.                        *)
(***************************************************************************)
EXTENDS NapChain, SequenceTheorems, TLAPS

(* The values of the variables.                                            *)
Frames == Seq([ret : Addresses, bp : Int])

MachineRecords ==
  [parent : Machines \cup {None}, cc : Addresses, frames : Frames, sp : Int, bp : Int,
   error : BOOLEAN, rv : Results \cup {NoResult}]

RunRecords ==
  [vm : Machines, why : {"host", "execute", "call"}, ended : BOOLEAN, failed : BOOLEAN,
   result : Results \cup {NoResult}, sp : Int, bp : Int, frames : Frames]

TypeOK ==
  /\ vm \in [DOMAIN vm -> MachineRecords]
  /\ DOMAIN vm \subseteq Machines /\ Root \in DOMAIN vm
  /\ active \in Seq(RunRecords)
  /\ status \in {"running", "exit(5)", "wild"}
  /\ lost \in BOOLEAN

(* The root is the only machine without a parent; the parents of the       *)
(* others are alive, and each of them has a run in progress.               *)
ParentInv ==
  \A m \in DOMAIN vm :
    /\ m = Root <=> vm[m].parent = None
    /\ m # Root => /\ vm[m].parent \in DOMAIN vm
                   /\ \E i \in 1 .. Len(active) : active[i].vm = m

(* How run i follows from the one below it: the host's run is the lowest;  *)
(* a script is executed in a new child of the machine below it, which no   *)
(* lower run concerns; a call from a child is one of the root. Only the    *)
(* innermost run has ended, and a run that has failed has left an error    *)
(* code in its machine.                                                    *)
RunInv(i) ==
    /\ active[i].vm \in DOMAIN vm
    /\ active[i].why = "host" <=> i = 1
    /\ i = 1 /\ active[i].vm # Root => vm[active[i].vm].parent = Root
    /\ active[i].why = "execute" =>
         /\ vm[active[i].vm].parent = active[i - 1].vm
         /\ \A j \in 1 .. i - 1 :
              active[j].vm # active[i].vm /\ vm[active[j].vm].parent # active[i].vm
    /\ active[i].why = "call" => active[i].vm = Root /\ vm[active[i - 1].vm].parent = Root
    /\ active[i].ended => i = Len(active)
    /\ active[i].failed => active[i].ended /\ vm[active[i].vm].error

RunsInv == \A i \in 1 .. Len(active) : RunInv(i)

(* A machine that is in a function has a frame; a function called from     *)
(* within a function is not the first.                                     *)
Places(m) ==
  /\ m.cc \in MethodAt .. LeaveAt + 1 => Len(m.frames) > 0
  /\ \A k \in 1 .. Len(m.frames) :
       /\ m.frames[k].ret \in {3, ExitAt, LeaveAt, Fake}
       /\ m.frames[k].ret = LeaveAt => k > 1

(* Every machine alive is where its call frames allow it to be.            *)
PlacesInv == \A m \in DOMAIN vm : Places(vm[m])

(* f are the call frames g, above them that of a call from a child, and    *)
(* above that those of calls in functions; Clean: and of no other calls.   *)
Above(f, g) ==
  /\ Len(f) >= Len(g)
  /\ \A k \in 1 .. Len(g) : f[k] = g[k]
  /\ Len(f) > Len(g) => f[Len(g) + 1].ret = Fake
  /\ \A k \in Len(g) + 1 .. Len(f) : f[k].ret \in {LeaveAt, Fake}

Clean(f, g) == \A k \in Len(g) + 2 .. Len(f) : f[k].ret = LeaveAt

(* Run i is the innermost run of the root.                                 *)
Innermost(i) ==
  active[i].vm = Root /\ \A j \in i + 1 .. Len(active) : active[j].vm # Root

(* Of two calls of the root, one in the other, the inner one finds the     *)
(* frame of the outer one.                                                 *)
NestedInv ==
  \A i, j \in 1 .. Len(active) :
    /\ i < j /\ active[i].why = "call" /\ active[j].why = "call"
    /\ \A k \in i + 1 .. j - 1 : active[k].vm # Root
    => /\ Above(active[j].frames, active[i].frames)
       /\ Len(active[j].frames) > Len(active[i].frames)
       /\ ~lost => Clean(active[j].frames, active[i].frames)

(* A machine that has executed a child is between the two addresses of the *)
(* interrupt, but for what calls from below have made of the root.         *)
WaitingInv ==
  \A i \in 1 .. Len(active) - 1 :
    active[i + 1].why = "execute" /\ (active[i].vm = Root => Innermost(i)) =>
      vm[active[i].vm].cc \in {2, 4, 8, LeaveAt, Fake}

(* The root in a function that a child has called and in all it calls: it  *)
(* runs, it is in an interrupt, or it has returned.                        *)
CallControl(root, run, above) ==
  /\ Above(root.frames, run.frames)
  /\ root.cc \in {Header, Fake} \cup MethodAt .. LeaveAt + 1
  /\ run.ended => root.cc \in {8, LeaveAt, Fake}
  /\ Len(root.frames) = Len(run.frames) => root.cc = Fake /\ above = 0

(* The same, as long as no function called from a child has failed; and    *)
(* once the function has returned a value, the machine only leaves it.     *)
CleanControl(root, run, above) ==
  /\ Clean(root.frames, run.frames)
  /\ root.cc # LeaveAt + 1
  /\ root.cc = Fake /\ above = 0 => Len(root.frames) = Len(run.frames)
  /\ run.ended => root.cc = Fake
  /\ above > 0 => root.cc \in {8, Fake} /\ run.result = NoResult
  /\ run.result # NoResult =>
       /\ root.rv = run.result
       /\ \/ root.cc = LeaveAt /\ Len(root.frames) = Len(run.frames) + 1
          \/ root.cc = Fake

(* The innermost run of the root, if a child has called it, sees the root  *)
(* in the function that was called or behind it; in the runs of the root   *)
(* below it no function has returned a value yet.                          *)
OpenCallInv ==
  \A i \in 1 .. Len(active) :
    active[i].why = "call" =>
      /\ Innermost(i) => CallControl(vm[Root], active[i], Len(active) - i)
      /\ Innermost(i) /\ ~lost /\ ~active[i].failed =>
           CleanControl(vm[Root], active[i], Len(active) - i)
      /\ ~Innermost(i) /\ ~lost => active[i].result = NoResult

(* The root runs its global code, or a function of it, or has been called  *)
(* from a child in the middle of an interrupt, and never comes to an end.  *)
HostControl(root, run, above) ==
  /\ \/ root.frames = <<>> /\ root.cc \in First .. ExitAt + 1
     \/ /\ Len(root.frames) > 0 /\ root.cc \in MethodAt .. LeaveAt /\ ~run.ended
        /\ \A k \in 1 .. Len(root.frames) :
             root.frames[k].ret \in IF k = 1 THEN {3, ExitAt} ELSE {LeaveAt}
     \/ root.cc = Header /\ ~run.ended
     \/ root.cc = Fake /\ above > 0
  /\ above > 0 => root.cc \in {2, 4, 8, Fake}

(* As long as nothing in the root has failed, it has call frames only when *)
(* it runs.                                                                *)
IdleInv ==
  ~vm[Root].error =>
    /\ ~lost
    /\ (\A i \in 1 .. Len(active) : active[i].vm # Root) => vm[Root].frames = <<>>
    /\ \A i \in 1 .. Len(active) :
         active[i].why = "call" /\ (\A j \in 1 .. i - 1 : active[j].vm # Root) =>
           active[i].frames = <<>>
    /\ Len(active) > 0 /\ Innermost(1) =>
         HostControl(vm[Root], active[1], Len(active) - 1)

(* The parts about all machines, those about the root, and the whole.      *)
Inner == ParentInv /\ RunsInv /\ PlacesInv /\ WaitingInv
RootInv == NestedInv /\ OpenCallInv /\ IdleInv

IInv == TypeOK /\ Inner /\ RootInv

-----------------------------------------------------------------------------
(* The root is a machine number, and the addresses are numbers.            *)
LEMMA RootFacts == Root \in Machines /\ None \notin Machines /\ Root # None
  BY BoundsAssumption DEF Root, None, Machines

(* What is left of a sequence without its last element.                    *)
LEMMA FrontProperties ==
  ASSUME NEW S, NEW s \in Seq(S), Len(s) > 0
  PROVE  /\ Front(s) \in Seq(S)
         /\ Len(Front(s)) = Len(s) - 1
         /\ \A i \in 1 .. Len(s) - 1 : Front(s)[i] = s[i]
<1> DEFINE n == Len(s) - 1
<1>1. Len(s) \in Nat /\ n \in Nat /\ \A i \in 1 .. n : s[i] \in S
  BY LenProperties, ElementOfSeq
<1>2. Front(s) = SubSeq(s, 1, n)
  BY DEF Front
<1> HIDE DEF n
<1>3. /\ SubSeq(s, 1, n) \in Seq(S)
      /\ Len(SubSeq(s, 1, n)) = IF 1 <= n THEN n - 1 + 1 ELSE 0
      /\ \A i \in 1 .. n - 1 + 1 : SubSeq(s, 1, n)[i] = s[1 + i - 1]
  BY <1>1, SubSeqProperties
<1>4. /\ Len(Front(s)) = n
      /\ \A i \in 1 .. n : Front(s)[i] = s[i]
  BY <1>1, <1>2, <1>3
<1> QED
  BY <1>2, <1>3, <1>4 DEF n

(* The innermost run.                                                      *)
LEMMA TopFacts ==
  ASSUME TypeOK, Inner, active # <<>>
  PROVE  /\ Len(active) \in Nat /\ Len(active) > 0
         /\ Top = active[Len(active)] /\ Top \in RunRecords
         /\ M = Top.vm /\ M \in DOMAIN vm /\ M \in Machines
         /\ Me = vm[M] /\ Me \in MachineRecords
<1>1. Len(active) \in Nat /\ Len(active) > 0
  BY EmptySeq, LenProperties DEF TypeOK
<1>2. Top = active[Len(active)] /\ Top \in RunRecords
  BY <1>1, ElementOfSeq DEF TypeOK, Top, Last
<1> QED
  BY <1>1, <1>2 DEF TypeOK, Inner, RunsInv, RunInv, M, Me

(* An instruction that runs or ends no other machine changes the machine   *)
(* that runs, to m, and the run, to r, and both remember a failure.  Of    *)
(* the root it is to be shown that the run that executes it is in order.   *)
RootInOrder(m, r) ==
  /\ r.why = "call" => CallControl(m, r, 0)
  /\ r.why = "call" /\ ~lost /\ ~r.failed => CleanControl(m, r, 0)
  /\ ~m.error /\ Len(active) = 1 => HostControl(m, r, 0)

(* What an instruction does whose whole effect is such a change.           *)
Local(m, r) ==
  /\ active # <<>> /\ ~Top.ended
  /\ m \in MachineRecords /\ r \in RunRecords
  /\ vm' = [vm EXCEPT ![M] = m]
  /\ active' = [active EXCEPT ![Len(active)] = r]
  /\ m.parent = Me.parent /\ (Me.error => m.error)
  /\ r.vm = M /\ r.why = Top.why /\ r.frames = Top.frames
  /\ r.failed => r.ended /\ m.error
  /\ Places(m)
  /\ M = Root => RootInOrder(m, r)
  /\ status' \in {"running", "exit(5)", "wild"} /\ lost' = lost

(* Its effect on every machine and on every run.                           *)
LEMMA LocalEffect ==
  ASSUME TypeOK, Inner, NEW m, NEW r, Local(m, r)
  PROVE  /\ vm' \in [DOMAIN vm -> MachineRecords] /\ DOMAIN vm' = DOMAIN vm
         /\ active' \in Seq(RunRecords) /\ Len(active') = Len(active)
         /\ \A x \in DOMAIN vm : vm'[x] = IF x = M THEN m ELSE vm[x]
         /\ \A i \in 1 .. Len(active) :
              active'[i] = IF i = Len(active) THEN r ELSE active[i]
<1>1. Len(active) \in 1 .. Len(active) /\ active \in Seq(RunRecords)
  BY TopFacts DEF Local, TypeOK
<1>2. r \in RunRecords /\ active' = [active EXCEPT ![Len(active)] = r]
  BY DEF Local
<1>3. /\ active' \in Seq(RunRecords) /\ Len(active') = Len(active)
      /\ \A i \in 1 .. Len(active) :
           active'[i] = IF i = Len(active) THEN r ELSE active[i]
  BY <1>1, <1>2, ExceptSeq
<1> QED
  BY <1>3, TopFacts DEF Local, TypeOK

(* Such an instruction keeps the parts about all machines.                 *)
LEMMA LocalRuns ==
  ASSUME TypeOK, Inner, NEW m, NEW r, Local(m, r)
  PROVE  TypeOK' /\ Inner'
<1>1. /\ Len(active) \in Nat /\ Len(active) > 0 /\ M = active[Len(active)].vm
      /\ M \in DOMAIN vm /\ active \in Seq(RunRecords) /\ Me = vm[M]
      /\ Top = active[Len(active)]
  BY TopFacts DEF Local, TypeOK
<1>2. TypeOK'
  BY LocalEffect DEF Local, TypeOK
<1>3. \A x \in DOMAIN vm : vm'[x].parent = vm[x].parent
                          /\ (vm[x].error => vm'[x].error)
  BY <1>1, LocalEffect DEF Local
<1>4. \A j \in 1 .. Len(active) :
        active'[j].vm = active[j].vm /\ active'[j].why = active[j].why
  BY <1>1, LocalEffect DEF Local
<1>5. ParentInv'
  BY <1>1, <1>3, <1>4, LocalEffect DEF Inner, ParentInv
<1>6. RunsInv'
  <2> SUFFICES ASSUME NEW i \in 1 .. Len(active)
               PROVE  RunInv(i)'
    BY LocalEffect DEF RunsInv
  <2>1. RunInv(i) /\ \A j \in 1 .. Len(active) : active[j].vm \in DOMAIN vm
    BY DEF Inner, RunsInv, RunInv
  <2>2. i # 1 => i - 1 \in 1 .. Len(active)
    BY <1>1
  <2>3. \A j \in 1 .. i - 1 : j \in 1 .. Len(active)
    BY <1>1
  <2>4. active'[i].ended => i = Len(active)
    BY <1>1, <2>1, LocalEffect DEF RunInv
  <2>5. active'[i].failed => active'[i].ended /\ vm'[active'[i].vm].error
    BY <1>1, <1>3, <2>1, LocalEffect DEF Local, RunInv
  <2>6. \A j \in 1 .. Len(active) :
          active'[j].vm \in DOMAIN vm' /\ vm'[active'[j].vm].parent = vm[active[j].vm].parent
    BY <1>3, <1>4, <2>1, LocalEffect
  <2>7. Len(active') = Len(active) /\ DOMAIN vm' = DOMAIN vm
    BY LocalEffect
  <2> QED
    BY <1>1, <1>4, <2>1, <2>2, <2>3, <2>4, <2>5, <2>6, <2>7 DEF RunInv
<1>7. PlacesInv'
  BY LocalEffect DEF Local, Inner, PlacesInv
<1>8. WaitingInv'
  <2> SUFFICES ASSUME NEW i \in 1 .. Len(active) - 1, active'[i + 1].why = "execute",
                      active'[i].vm = Root => Innermost(i)'
               PROVE  vm'[active'[i].vm].cc \in {2, 4, 8, LeaveAt, Fake}
    BY LocalEffect DEF WaitingInv
  <2>1. i \in 1 .. Len(active) /\ i + 1 \in 1 .. Len(active) /\ i # Len(active)
        /\ Len(active) \in 1 .. Len(active) /\ i \in 1 .. Len(active) - 1 /\ i # 0
        /\ Len(active) \in i + 1 .. Len(active) /\ \A j \in i + 1 .. Len(active) : j \in 1 .. Len(active)
    BY <1>1
  <2>2. active[i + 1].why = "execute" /\ (active[i].vm = Root => Innermost(i))
    BY <1>4, <2>1, LocalEffect DEF Innermost
  <2>3. vm[active[i].vm].cc \in {2, 4, 8, LeaveAt, Fake}
    BY <2>2 DEF Inner, WaitingInv
  <2>4. RunInv(Len(active)) /\ active[i].vm \in DOMAIN vm
    BY <2>1 DEF Inner, RunsInv, RunInv
  <2>5. active[i].vm # M
    <3>1. active[Len(active)].why \in {"host", "execute", "call"}
      BY <1>1, TopFacts DEF Local, RunRecords
    <3>2. active[i].vm = Root => M # Root
      BY <1>1, <2>1, <2>2 DEF Innermost
    <3> QED
      BY <1>1, <2>1, <2>4, <3>1, <3>2 DEF RunInv
  <2> QED
    BY <1>4, <2>1, <2>3, <2>4, <2>5, LocalEffect
<1> QED
  BY <1>2, <1>5, <1>6, <1>7, <1>8 DEF Inner

(* Such an instruction of a child leaves the root as it is.                *)
LEMMA LocalChild ==
  ASSUME IInv, NEW m, NEW r, Local(m, r), M # Root
  PROVE  RootInv'
<1> DEFINE n == Len(active)
<1>1. /\ n \in Nat /\ n > 0 /\ M = active[n].vm /\ TypeOK /\ Inner
      /\ \A i \in 1 .. n : RunInv(i)
  BY TopFacts DEF Local, IInv, Inner, RunsInv
<1>2. vm'[Root] = vm[Root]
  BY <1>1, LocalEffect DEF TypeOK
<1>3. active[n].why # "call" /\ Top = active[n]
  BY <1>1, TopFacts DEF Local, RunInv
<1>4. /\ \A i \in 1 .. n : /\ active[i].why = "call" \/ active[i].vm = Root => active'[i] = active[i]
                           /\ active'[i].vm = active[i].vm /\ active'[i].why = active[i].why
      /\ Len(active') = n /\ lost' = lost
  BY <1>1, <1>3, LocalEffect DEF Local
<1>5. \A i \in 1 .. n : Innermost(i)' = Innermost(i)
  BY <1>1, <1>4 DEF Innermost
<1>6. NestedInv'
  <2> SUFFICES ASSUME NEW i \in 1 .. n, NEW j \in 1 .. n, i < j,
                      active[i].why = "call", active[j].why = "call",
                      \A k \in i + 1 .. j - 1 : active'[k].vm # Root
               PROVE  /\ Above(active[j].frames, active[i].frames)
                      /\ Len(active[j].frames) > Len(active[i].frames)
                      /\ ~lost => Clean(active[j].frames, active[i].frames)
    BY <1>4 DEF NestedInv
  <2>1. \A k \in i + 1 .. j - 1 : active[k].vm # Root
    BY <1>1, <1>4
  <2> QED
    BY <2>1 DEF IInv, RootInv, NestedInv
<1>7. OpenCallInv'
  BY <1>2, <1>4, <1>5 DEF IInv, RootInv, OpenCallInv
<1>8. IdleInv'
  <2>1. Innermost(1) => 1 \in 1 .. n /\ active'[1] = active[1]
    BY <1>1, <1>4 DEF Innermost
  <2>2. n > 0 /\ (Innermost(1)' <=> Innermost(1))
    BY <1>1, <1>5
  <2>3. ~vm[Root].error =>
          /\ ~lost
          /\ (\A i \in 1 .. n : active'[i].vm # Root) => vm[Root].frames = <<>>
          /\ \A i \in 1 .. n :
               active'[i].why = "call" /\ (\A j \in 1 .. i - 1 : active'[j].vm # Root) =>
                 active'[i].frames = <<>>
    BY <1>1, <1>4 DEF IInv, RootInv, IdleInv
  <2> QED
    BY <1>1, <1>2, <1>4, <2>1, <2>2, <2>3 DEF IInv, RootInv, IdleInv
<1> QED
  BY <1>6, <1>7, <1>8 DEF RootInv

(* Such an instruction of the root changes the innermost of its runs.      *)
LEMMA LocalRoot ==
  ASSUME IInv, NEW m, NEW r, Local(m, r), M = Root
  PROVE  RootInv'
<1> DEFINE n == Len(active)
<1>1. /\ n \in Nat /\ n > 0 /\ M = active[n].vm /\ TypeOK /\ Inner /\ Top = active[n]
      /\ Me = vm[Root] /\ \A i \in 1 .. n : RunInv(i)
  BY TopFacts DEF Local, IInv, Inner, RunsInv
<1>2. /\ \A i \in 1 .. n : /\ i < n => active'[i] = active[i]
                           /\ active'[i].vm = active[i].vm /\ active'[i].why = active[i].why
                           /\ active'[i].frames = active[i].frames
      /\ Len(active') = n /\ lost' = lost /\ active'[n] = r
  BY <1>1, LocalEffect DEF Local
<1>3. vm'[Root] = m /\ (vm[Root].error => m.error) /\ n - n = 0
  <2>1. vm'[Root] = m
    BY <1>1, LocalEffect DEF TypeOK
  <2>2. n - n = 0
    BY <1>1
  <2>3. Me.error => m.error
    BY DEF Local
  <2> QED
    BY <1>1, <2>1, <2>2, <2>3
<1>4. \A i \in 1 .. n : (Innermost(i) <=> i = n) /\ (Innermost(i)' <=> i = n)
  BY <1>1, <1>2 DEF Innermost
<1>5. RootInOrder(m, r)
  BY DEF Local
<1>6. NestedInv'
  <2> SUFFICES ASSUME NEW i \in 1 .. n, NEW j \in 1 .. n, i < j,
                      active[i].why = "call", active[j].why = "call",
                      \A k \in i + 1 .. j - 1 : active'[k].vm # Root
               PROVE  /\ Above(active[j].frames, active[i].frames)
                      /\ Len(active[j].frames) > Len(active[i].frames)
                      /\ ~lost => Clean(active[j].frames, active[i].frames)
    BY <1>2 DEF NestedInv
  <2>1. \A k \in i + 1 .. j - 1 : active[k].vm # Root
    BY <1>1, <1>2
  <2> QED
    BY <2>1 DEF IInv, RootInv, NestedInv
<1>7. OpenCallInv'
  <2> SUFFICES ASSUME NEW i \in 1 .. n, active[i].why = "call"
               PROVE  /\ i = n => CallControl(m, r, 0)
                      /\ i = n /\ ~lost /\ ~r.failed => CleanControl(m, r, 0)
                      /\ i # n /\ ~lost => active'[i].result = NoResult
    BY <1>2, <1>3, <1>4 DEF OpenCallInv
  <2>1. i # n /\ ~lost => active'[i].result = NoResult
    BY <1>1, <1>2, <1>4 DEF IInv, RootInv, OpenCallInv
  <2> QED
    BY <1>1, <1>2, <1>5, <2>1 DEF RootInOrder
<1>8. IdleInv'
  BY <1>1, <1>2, <1>3, <1>4, <1>5 DEF IInv, RootInv, IdleInv, RootInOrder
<1> QED
  BY <1>6, <1>7, <1>8 DEF RootInv

(* Such an instruction keeps the invariant.                                *)
LEMMA LocalIInv ==
  ASSUME IInv, NEW m, NEW r, Local(m, r)
  PROVE  IInv'
  BY LocalRuns, LocalChild, LocalRoot DEF IInv

(* The machine and the run that execute an instruction.                    *)
LEMMA Instruction ==
  ASSUME IInv, active # <<>>, ~Top.ended
  PROVE  /\ TypeOK /\ Inner /\ ~Top.failed
         /\ Len(active) \in Nat /\ Len(active) > 0 /\ Top = active[Len(active)]
         /\ Top \in RunRecords /\ M = Top.vm /\ M \in DOMAIN vm
         /\ Me = vm[M] /\ Me \in MachineRecords /\ Places(Me)
         /\ active = [active EXCEPT ![Len(active)] = Top]
         /\ vm = [vm EXCEPT ![M] = Me]
         /\ M = Root => RootInOrder(Me, Top)
<1>1. /\ Len(active) \in Nat /\ Len(active) > 0 /\ Top = active[Len(active)] /\ M = Top.vm
      /\ TypeOK /\ Inner /\ RunInv(Len(active)) /\ Me = vm[M] /\ M \in DOMAIN vm
      /\ Top \in RunRecords /\ Me \in MachineRecords
  BY TopFacts DEF IInv, Inner, RunsInv
<1>2. ~Top.failed /\ Places(Me)
  BY <1>1 DEF RunInv, Inner, PlacesInv
<1>3. active = [active EXCEPT ![Len(active)] = Top] /\ vm = [vm EXCEPT ![M] = Me]
  BY <1>1 DEF TypeOK
<1>4. ASSUME M = Root PROVE RootInOrder(Me, Top)
  <2>1. Innermost(Len(active))
    BY <1>1, <1>4 DEF Innermost
  <2>2. Len(active) - Len(active) = 0 /\ Len(active) \in 1 .. Len(active)
    BY <1>1
  <2>3. Len(active) = 1 => Len(active) - 1 = 0
    BY <1>1
  <2> QED
    BY <1>1, <1>2, <1>4, <2>1, <2>2, <2>3
       DEF IInv, RootInv, OpenCallInv, IdleInv, RootInOrder
<1> QED
  BY <1>1, <1>2, <1>3, <1>4

(* An instruction that works leaves the machine between two instructions.  *)
LEMMA WorkIInv ==
  ASSUME IInv, NEW d \in {0, 1}, Work(d)
  PROVE  IInv'
<1> DEFINE m == [Me EXCEPT !.cc = Me.cc + 2, !.sp = Me.sp + d]
<1>1. active # <<>> /\ ~Top.ended /\ Me.cc \in Plain
  BY DEF Work, Executing
<1>2. Me.cc + 2 \in Addresses /\ Me.sp + d \in Int
  BY <1>1, Instruction DEF MachineRecords, Plain, Addresses, CcMod
<1>3. m \in MachineRecords /\ vm' = [vm EXCEPT ![M] = m]
  BY <1>1, <1>2, Instruction DEF Work, MachineRecords
<1>4. Places(m)
  BY <1>1, Instruction DEF Places, Plain, MethodAt, LeaveAt, MachineRecords
<1>5. /\ m.parent = Me.parent /\ m.cc = Me.cc + 2 /\ m.frames = Me.frames /\ m.rv = Me.rv
      /\ m.error = Me.error
  BY <1>1, Instruction DEF MachineRecords
<1>6. ASSUME M = Root
      PROVE  RootInOrder(m, Top)
  <2>1. RootInOrder(Me, Top)
    BY <1>1, <1>6, Instruction
  <2> QED
    BY <1>1, <1>5, <2>1
       DEF RootInOrder, CallControl, CleanControl, HostControl, Plain, Header, First, ExitAt,
           MethodAt, LeaveAt, Fake, CcMod
<1>7. active' = [active EXCEPT ![Len(active)] = Top]
  BY <1>1, Instruction DEF Work
<1>8. Local(m, Top)
  BY <1>1, <1>3, <1>4, <1>5, <1>6, <1>7, Instruction DEF Local, Work, TypeOK
<1> QED
  BY <1>8, LocalIInv

(* One that fails ends its run and leaves an error code in its machine.    *)
LEMMA FailIInv ==
  ASSUME IInv, NEW read \in {1, 2}, Fail(read)
  PROVE  IInv'
<1> DEFINE m == [Me EXCEPT !.cc = Me.cc + read, !.error = TRUE]
           r == [Top EXCEPT !.ended = TRUE, !.failed = TRUE]
<1>1. active # <<>> /\ ~Top.ended /\ Me.cc \in Plain
  BY DEF Fail, Executing
<1>2. Me.cc + read \in Addresses
  BY <1>1 DEF Plain, Addresses, CcMod
<1>3. m \in MachineRecords /\ vm' = [vm EXCEPT ![M] = m]
  BY <1>1, <1>2, Instruction DEF Fail, MachineRecords
<1>4. r \in RunRecords /\ active' = [active EXCEPT ![Len(active)] = r]
  BY <1>1, Instruction DEF Fail, End, RunRecords, TypeOK
<1>5. m.parent = Me.parent /\ m.cc = Me.cc + read /\ m.frames = Me.frames /\ m.error = TRUE
  BY <1>1, Instruction DEF MachineRecords
<1>6. r.vm = Top.vm /\ r.why = Top.why /\ r.frames = Top.frames /\ r.ended = TRUE /\ r.failed = TRUE
  BY <1>1, Instruction DEF RunRecords
<1>7. Places(m)
  BY <1>1, <1>5, Instruction DEF Places, Plain, MethodAt, LeaveAt, MachineRecords
<1>8. ASSUME M = Root
      PROVE  RootInOrder(m, r)
  <2>1. RootInOrder(Me, Top)
    BY <1>1, <1>8, Instruction
  <2> QED
    BY <1>1, <1>5, <1>6, <2>1 DEF RootInOrder, CallControl, Plain, Header, MethodAt, LeaveAt, Fake, CcMod
<1>9. Local(m, r)
  BY <1>1, <1>3, <1>4, <1>5, <1>6, <1>7, <1>8, Instruction DEF Local, Fail, TypeOK
<1> QED
  BY <1>9, LocalIInv

(* A call lays its frame on those of the machine that runs; in the root    *)
(* called by a child, it lies above the frame of that call.                *)
LEMMA CallIInv ==
  ASSUME IInv, Call
  PROVE  IInv'
<1> DEFINE f == [ret |-> Me.cc + 2, bp |-> Me.sp]
           m == [Me EXCEPT !.frames = Append(Me.frames, f), !.bp = Me.sp, !.cc = MethodAt]
<1>1. active # <<>> /\ ~Top.ended /\ Me.cc \in Plain
  BY DEF Call, Executing
<1>2. f \in [ret : Addresses, bp : Int] /\ MethodAt \in Addresses
  BY <1>1, Instruction DEF MachineRecords, Plain, Addresses, CcMod, MethodAt
<1>3. /\ Append(Me.frames, f) \in Frames /\ Len(Me.frames) \in Nat
      /\ Len(Append(Me.frames, f)) = Len(Me.frames) + 1
      /\ \A k \in 1 .. Len(Me.frames) : Append(Me.frames, f)[k] = Me.frames[k]
      /\ Append(Me.frames, f)[Len(Me.frames) + 1].ret = Me.cc + 2
  BY <1>1, <1>2, Instruction, AppendProperties DEF MachineRecords, Frames
<1>4. m \in MachineRecords /\ vm' = [vm EXCEPT ![M] = m]
  <2>1. vm' = [vm EXCEPT ![M] = m]
    BY <1>1, Instruction DEF Call
  <2> HIDE DEF f
  <2>2. m \in MachineRecords
    BY <1>1, <1>2, <1>3, Instruction DEF MachineRecords
  <2> QED
    BY <2>1, <2>2
<1>5. /\ m.parent = Me.parent /\ m.cc = MethodAt /\ m.frames = Append(Me.frames, f)
      /\ m.error = Me.error /\ m.rv = Me.rv
  BY <1>1, Instruction DEF MachineRecords
<1> HIDE DEF m, f
<1>6. Places(m)
  <2> DEFINE l == Len(Me.frames)
  <2>1. Places(Me) /\ l \in Nat
    BY <1>1, <1>3, Instruction
  <2>2. m.cc \notin {LeaveAt + 1} /\ Len(m.frames) = l + 1 /\ l + 1 > 0
    BY <1>3, <1>5 DEF MethodAt, LeaveAt
  <2>3. Me.cc + 2 \in {3, ExitAt, LeaveAt} /\ (Me.cc + 2 = LeaveAt => l > 0)
    BY <1>1, <2>1 DEF Places, Plain, MethodAt, LeaveAt, ExitAt
  <2>4. m.frames[l + 1].ret = Me.cc + 2 /\ \A k \in 1 .. l : m.frames[k] = Me.frames[k]
    BY <1>3, <1>5
  <2>5. \A k \in 1 .. l + 1 : k \in 1 .. l \/ k = l + 1
    BY <2>1
  <2>6. \A k \in 1 .. l : /\ m.frames[k].ret \in {3, ExitAt, LeaveAt, Fake}
                          /\ m.frames[k].ret = LeaveAt => k > 1
    BY <2>1, <2>4 DEF Places
  <2>7. l > 0 => l + 1 > 1
    BY <2>1
  <2> HIDE DEF l
  <2> QED
    BY <2>2, <2>3, <2>4, <2>5, <2>6, <2>7 DEF Places
<1>7. ASSUME M = Root
      PROVE  RootInOrder(m, Top)
  <2>1. RootInOrder(Me, Top)
    BY <1>1, <1>7, Instruction
  <2>2. Len(Top.frames) \in Nat
    BY <1>1, Instruction DEF RunRecords, Frames
  <2>3. ASSUME Top.why = "call"
        PROVE  CallControl(m, Top, 0) /\ (~lost => CleanControl(m, Top, 0))
    <3>1. CallControl(Me, Top, 0) /\ (~lost => CleanControl(Me, Top, 0))
      BY <1>1, <2>1, <2>3, Instruction DEF RootInOrder
    <3>2. /\ Above(Me.frames, Top.frames) /\ Me.cc = MethodAt
          /\ Len(Me.frames) # Len(Top.frames)
          /\ ~lost => Clean(Me.frames, Top.frames) /\ Top.result = NoResult
      BY <1>1, <3>1
         DEF CallControl, CleanControl, Plain, Header, MethodAt, LeaveAt, Fake, CcMod
    <3>3. Above(m.frames, Top.frames) /\ (~lost => Clean(m.frames, Top.frames))
      <4> DEFINE g == Len(Top.frames)
                 l == Len(Me.frames)
      <4>1. /\ l \in Nat /\ g \in Nat /\ l >= g /\ l # g /\ Len(m.frames) = l + 1
            /\ m.frames[l + 1].ret = LeaveAt
            /\ \A k \in 1 .. l : m.frames[k] = Me.frames[k]
        BY <1>3, <1>5, <2>2, <3>2 DEF Above, MethodAt, LeaveAt
      <4>2. /\ \A k \in 1 .. g : Me.frames[k] = Top.frames[k]
            /\ Me.frames[g + 1].ret = Fake
            /\ \A k \in g + 1 .. l : Me.frames[k].ret \in {LeaveAt, Fake}
            /\ ~lost => \A k \in g + 2 .. l : Me.frames[k].ret = LeaveAt
        BY <2>2, <3>2, <4>1 DEF Above, Clean
      <4> HIDE DEF g, l
      <4>3. /\ l + 1 >= g /\ g + 1 \in 1 .. l
            /\ \A k \in 1 .. g : k \in 1 .. l
            /\ \A k \in g + 1 .. l + 1 : k = l + 1 \/ (k \in g + 1 .. l /\ k \in 1 .. l)
            /\ \A k \in g + 2 .. l + 1 : k = l + 1 \/ (k \in g + 2 .. l /\ k \in 1 .. l)
        <5>1. l > g
          BY <4>1
        <5>2. l + 1 >= g /\ g + 1 \in 1 .. l /\ \A k \in 1 .. g : k \in 1 .. l
          BY <4>1, <5>1
        <5>3. \A k \in g + 1 .. l + 1 : k = l + 1 \/ (k \in g + 1 .. l /\ k \in 1 .. l)
          BY <4>1, <5>1
        <5>4. \A k \in g + 2 .. l + 1 : k = l + 1 \/ (k \in g + 2 .. l /\ k \in 1 .. l)
          BY <4>1, <5>1
        <5> QED
          BY <5>2, <5>3, <5>4
      <4>4. \A k \in g + 1 .. l + 1 : m.frames[k].ret \in {LeaveAt, Fake}
        BY <4>1, <4>2, <4>3
      <4>5. ~lost => \A k \in g + 2 .. l + 1 : m.frames[k].ret = LeaveAt
        BY <4>1, <4>2, <4>3
      <4>6. m.frames[g + 1].ret = Fake /\ \A k \in 1 .. g : m.frames[k] = Top.frames[k]
        BY <4>1, <4>2, <4>3
      <4> QED
        BY <4>1, <4>3, <4>4, <4>5, <4>6 DEF Above, Clean, g
    <3>4. Len(m.frames) # Len(Top.frames)
      BY <1>3, <1>5, <2>2, <3>2 DEF Above
    <3> QED
      BY <1>1, <1>3, <1>5, <3>1, <3>2, <3>3, <3>4
         DEF CallControl, CleanControl, MethodAt, LeaveAt, Fake, CcMod
  <2>4. ~m.error /\ Len(active) = 1 => HostControl(m, Top, 0)
    BY <1>1, <1>3, <1>5, <2>1 DEF RootInOrder, HostControl, Plain, Header, First, ExitAt,
           MethodAt, LeaveAt, Fake, CcMod
  <2> QED
    BY <2>3, <2>4 DEF RootInOrder
<1>8. active' = [active EXCEPT ![Len(active)] = Top]
  BY <1>1, Instruction DEF Call
<1>9. Local(m, Top)
  BY <1>1, <1>4, <1>5, <1>6, <1>7, <1>8, Instruction DEF Local, Call, TypeOK
<1> QED
  BY <1>9, LocalIInv

(* Neither a missing function nor a missing machine is told from any other *)
(* failure.                                                                *)
LEMMA CallMissingIInv == IInv /\ CallMissing => IInv'
  BY FailIInv DEF CallMissing, Fail

(* Without a machine for it, the script is not executed, which fails.      *)
LEMMA CannotCreateIInv == IInv /\ CannotCreate => IInv'
  BY FailIInv DEF CannotCreate, Fail

(* A return value is the result of the run when it is given by the         *)
(* function the run was started for, at depth one above its frames.        *)
LEMMA ReturnIInv ==
  ASSUME IInv, NEW x \in Results, Return(x)
  PROVE  IInv'
<1> DEFINE m == [Me EXCEPT !.cc = LeaveAt, !.rv = x]
           y == IF Len(Me.frames) = Len(Top.frames) + 1 THEN x ELSE Top.result
           r == [Top EXCEPT !.result = y]
<1>1. active # <<>> /\ ~Top.ended /\ Me.cc = MethodAt
  BY Instruction DEF Return, Executing, Plain, MethodAt, MachineRecords, Addresses, CcMod
<1>2. m \in MachineRecords /\ vm' = [vm EXCEPT ![M] = m]
  <2>1. LeaveAt \in Addresses /\ x \in Results \cup {NoResult}
    BY DEF LeaveAt, Addresses, CcMod
  <2>2. m \in MachineRecords
    BY <1>1, <2>1, Instruction DEF MachineRecords
  <2>3. vm' = [vm EXCEPT ![M] = m]
    BY <1>1, Instruction DEF Return
  <2> QED
    BY <2>2, <2>3
<1>3. y \in Results \cup {NoResult}
  BY <1>1, Instruction DEF RunRecords
<1>4. active' = [active EXCEPT ![Len(active)] = r]
  BY <1>1, Instruction DEF Return, TypeOK
<1> HIDE DEF y
<1>5. r \in RunRecords
  BY <1>1, <1>3, Instruction DEF RunRecords
<1>6. m.parent = Me.parent /\ m.cc = LeaveAt /\ m.frames = Me.frames /\ m.error = Me.error /\ m.rv = x
  BY <1>1, Instruction DEF MachineRecords
<1>7. r.vm = Top.vm /\ r.why = Top.why /\ r.frames = Top.frames /\ r.result = y
      /\ r.ended = Top.ended /\ r.failed = Top.failed
  BY <1>1, Instruction DEF RunRecords
<1> HIDE DEF m, r
<1>8. Places(m)
  BY <1>1, <1>6, Instruction DEF Places, MethodAt, LeaveAt
<1>9. ASSUME M = Root
      PROVE  RootInOrder(m, r)
  <2>1. RootInOrder(Me, Top)
    BY <1>1, <1>9, Instruction
  <2>2. Len(Top.frames) \in Nat /\ Len(Me.frames) \in Nat
    BY <1>1, Instruction DEF RunRecords, MachineRecords, Frames
  <2>3. ASSUME r.why = "call"
        PROVE  CallControl(m, r, 0) /\ (~lost => CleanControl(m, r, 0))
    <3>1. CallControl(Me, Top, 0) /\ (~lost => CleanControl(Me, Top, 0))
      BY <1>1, <1>7, <2>1, <2>3, Instruction DEF RootInOrder
    <3>2. CallControl(m, r, 0)
      BY <1>1, <1>6, <1>7, <3>1 DEF CallControl, MethodAt, LeaveAt, Fake, CcMod
    <3>3. ~lost => Clean(m.frames, r.frames) /\ Top.result = NoResult
      BY <1>1, <1>6, <1>7, <3>1 DEF CleanControl, MethodAt, LeaveAt, Fake, CcMod
    <3>4. ~lost => CleanControl(m, r, 0)
      BY <1>1, <1>6, <1>7, <3>3 DEF CleanControl, LeaveAt, Fake, CcMod, y
    <3> QED
      BY <3>2, <3>4
  <2>4. ~m.error /\ Len(active) = 1 => HostControl(m, r, 0)
    BY <1>1, <1>6, <1>7, <2>1 DEF RootInOrder, HostControl, Header, First, ExitAt, MethodAt,
         LeaveAt, Fake, CcMod
  <2> QED
    BY <2>3, <2>4 DEF RootInOrder
<1>10. Local(m, r)
  BY <1>1, <1>2, <1>4, <1>5, <1>6, <1>7, <1>8, <1>9, Instruction DEF Local, Return, TypeOK
<1> QED
  BY <1>10, LocalIInv

(* Leaving a function takes its frame away; of the function that a child   *)
(* has called, it leads to the address behind all code.                    *)
LEMMA LeaveIInv ==
  ASSUME IInv, Leave
  PROVE  IInv'
<1> DEFINE n == Len(Me.frames)
           b == IF n > 1 THEN Me.frames[n - 1].bp ELSE Below
           m == [Me EXCEPT !.cc = Me.frames[n].ret, !.frames = Front(Me.frames),
                           !.sp = Me.frames[n].bp, !.bp = b]
<1>1. active # <<>> /\ ~Top.ended /\ Me.cc = LeaveAt
  BY DEF Leave, Executing
<1>2. /\ n \in Nat /\ n > 0 /\ Me.frames \in Frames
      /\ \A k \in 1 .. n : /\ Me.frames[k] \in [ret : Addresses, bp : Int]
                           /\ Me.frames[k].ret \in {3, ExitAt, LeaveAt, Fake}
                           /\ Me.frames[k].ret = LeaveAt => k > 1
  <2>1. Me.frames \in Frames /\ Places(Me)
    BY <1>1, Instruction DEF MachineRecords
  <2>2. n \in Nat /\ \A k \in 1 .. n : Me.frames[k] \in [ret : Addresses, bp : Int]
    BY <2>1, LenProperties, ElementOfSeq DEF Frames
  <2> QED
    BY <1>1, <2>1, <2>2 DEF Places, MethodAt, LeaveAt
<1>3. /\ Me.frames[n].ret \in Addresses /\ Me.frames[n].bp \in Int /\ b \in Int
  BY <1>2, BoundsAssumption
<1>4. vm' = [vm EXCEPT ![M] = m]
  BY <1>1, Instruction DEF Leave
<1> HIDE DEF b, n
<1>5. /\ Front(Me.frames) \in Frames /\ Len(Front(Me.frames)) = n - 1
      /\ \A k \in 1 .. n - 1 : Front(Me.frames)[k] = Me.frames[k]
  BY <1>2, FrontProperties DEF Frames, n
<1>6. m \in MachineRecords
  BY <1>1, <1>3, <1>5, Instruction DEF MachineRecords
<1>7. m.parent = Me.parent /\ m.cc = Me.frames[n].ret /\ m.frames = Front(Me.frames)
      /\ m.error = Me.error /\ m.rv = Me.rv
  BY <1>1, Instruction DEF MachineRecords
<1> HIDE DEF m
<1>8. Places(m)
  BY <1>2, <1>5, <1>7 DEF Places, MethodAt, LeaveAt, ExitAt, Fake, CcMod
<1>9. ASSUME M = Root
      PROVE  RootInOrder(m, Top)
  <2>1. RootInOrder(Me, Top)
    BY <1>1, <1>9, Instruction
  <2>2. Len(Top.frames) \in Nat
    BY <1>1, Instruction DEF RunRecords, Frames
  <2>3. ASSUME Top.why = "call"
        PROVE  CallControl(m, Top, 0) /\ (~lost => CleanControl(m, Top, 0))
    <3>1. CallControl(Me, Top, 0) /\ (~lost => CleanControl(Me, Top, 0))
      BY <1>1, <2>1, <2>3, Instruction DEF RootInOrder
    <3>2. /\ n > Len(Top.frames)
          /\ \A k \in 1 .. Len(Top.frames) : Me.frames[k] = Top.frames[k]
          /\ Me.frames[Len(Top.frames) + 1].ret = Fake
          /\ \A k \in Len(Top.frames) + 1 .. n : Me.frames[k].ret \in {LeaveAt, Fake}
          /\ ~lost => \A k \in Len(Top.frames) + 2 .. n : Me.frames[k].ret = LeaveAt
      BY <1>1, <1>2, <2>2, <3>1
         DEF CallControl, CleanControl, Above, Clean, MethodAt, LeaveAt, Fake, CcMod, n
    <3>3. /\ Me.frames[n].ret \in {LeaveAt, Fake}
          /\ n = Len(Top.frames) + 1 => Me.frames[n].ret = Fake
          /\ ~lost /\ n # Len(Top.frames) + 1 => Me.frames[n].ret = LeaveAt
      BY <1>2, <2>2, <3>2
    <3>4. Above(m.frames, Top.frames) /\ (~lost => Clean(m.frames, Top.frames))
      <4> DEFINE g == Len(Top.frames)
      <4>1. Len(m.frames) = n - 1 /\ \A k \in 1 .. n - 1 : m.frames[k] = Me.frames[k]
        BY <1>5, <1>7
      <4>2. g \in Nat /\ n \in Nat /\ n > g
        BY <1>2, <2>2, <3>2
      <4>3. \A k \in 1 .. g : k \in 1 .. n - 1
        BY <4>2
      <4>4. \A k \in 1 .. g : m.frames[k] = Top.frames[k]
        BY <3>2, <4>1, <4>3
      <4>5. n - 1 > g => g + 1 \in 1 .. n - 1
        BY <4>2
      <4>6. n - 1 > g => m.frames[g + 1].ret = Fake
        BY <3>2, <4>1, <4>5
      <4>7. \A k \in g + 1 .. n - 1 : k \in 1 .. n - 1 /\ k \in g + 1 .. n
        BY <4>2
      <4>8. \A k \in g + 1 .. n - 1 : m.frames[k].ret \in {LeaveAt, Fake}
        BY <3>2, <4>1, <4>7
      <4>9. \A k \in g + 2 .. n - 1 : k \in 1 .. n - 1 /\ k \in g + 2 .. n
        BY <4>2
      <4>10. ~lost => \A k \in g + 2 .. n - 1 : m.frames[k].ret = LeaveAt
        BY <3>2, <4>1, <4>9
      <4> QED
        BY <4>1, <4>2, <4>4, <4>6, <4>8, <4>10 DEF Above, Clean
    <3>5. CallControl(m, Top, 0)
      BY <1>1, <1>2, <1>5, <1>7, <2>2, <3>2, <3>3, <3>4
         DEF CallControl, MethodAt, LeaveAt, Fake, CcMod
    <3>6. ~lost => CleanControl(m, Top, 0)
      BY <1>1, <1>2, <1>5, <1>7, <2>2, <3>1, <3>2, <3>3, <3>4
         DEF CleanControl, LeaveAt, Fake, CcMod, n
    <3> QED
      BY <3>5, <3>6
  <2>4. ASSUME ~m.error, Len(active) = 1
        PROVE  HostControl(m, Top, 0)
    <3>1. \A k \in 1 .. n : Me.frames[k].ret \in IF k = 1 THEN {3, ExitAt} ELSE {LeaveAt}
      BY <1>1, <1>7, <2>1, <2>4 DEF RootInOrder, HostControl, First, ExitAt, Header, LeaveAt, Fake, CcMod, n
    <3>2. CASE n = 1
      <4>1. m.frames = <<>>
        BY <1>5, <1>7, <3>2, EmptySeq DEF Frames
      <4> QED
        BY <1>7, <3>1, <3>2, <4>1 DEF HostControl, First, ExitAt
    <3>3. CASE n > 1
      BY <1>1, <1>2, <1>5, <1>7, <3>1, <3>3 DEF HostControl, MethodAt, LeaveAt
    <3> QED
      BY <1>2, <3>2, <3>3
  <2> QED
    BY <2>3, <2>4 DEF RootInOrder
<1>10. active' = [active EXCEPT ![Len(active)] = Top]
  BY <1>1, Instruction DEF Leave
<1>11. Local(m, Top)
  BY <1>1, <1>4, <1>6, <1>7, <1>8, <1>9, <1>10, Instruction DEF Local, Leave, TypeOK
<1> QED
  BY <1>11, LocalIInv

(* The ends of a run: exit, and the loop that finds itself behind the code.*)
LEMMA EndIInv ==
  ASSUME IInv, Exit \/ LoopEnds
  PROVE  IInv'
<1> DEFINE c == IF Exit THEN Me.cc + 1 ELSE Me.cc
           m == [Me EXCEPT !.cc = c]
           r == [Top EXCEPT !.ended = TRUE, !.failed = FALSE]
<1>1. active # <<>> /\ ~Top.ended /\ (Exit => Me.cc = ExitAt) /\ (~Exit => Me.cc \in Meta .. CcMod - 1)
  BY DEF Exit, LoopEnds, Executing
<1>2. c \in Addresses /\ (Exit => c = ExitAt + 1) /\ (~Exit => c \in Meta .. CcMod - 1)
  BY <1>1 DEF ExitAt, Meta, CcMod, Addresses
<1>3. vm' = [vm EXCEPT ![M] = m]
  <2>1. CASE Exit
    BY <1>1, <2>1, Instruction DEF Exit, MachineRecords, TypeOK
  <2>2. CASE ~Exit
    <3>1. m = Me
      BY <1>1, <2>2, Instruction DEF MachineRecords
    <3> QED
      BY <1>1, <2>2, <3>1, Instruction DEF LoopEnds
  <2> QED
    BY <2>1, <2>2
<1> HIDE DEF c
<1>4. m \in MachineRecords
  BY <1>1, <1>2, Instruction DEF MachineRecords
<1>5. r \in RunRecords /\ active' = [active EXCEPT ![Len(active)] = r]
  <2>1. End(FALSE)
    BY <1>1 DEF Exit, LoopEnds
  <2>2. active \in Seq(RunRecords) /\ Len(active) \in 1 .. Len(active)
    BY <1>1, Instruction DEF TypeOK
  <2>3. active' = [active EXCEPT ![Len(active)] = r]
    BY <1>1, <2>1, <2>2, Instruction DEF End
  <2>4. r \in RunRecords
    BY <1>1, Instruction DEF RunRecords
  <2> QED
    BY <2>3, <2>4
<1>6. m.parent = Me.parent /\ m.cc = c /\ m.frames = Me.frames /\ m.error = Me.error /\ m.rv = Me.rv
  BY <1>1, Instruction DEF MachineRecords
<1>7. r.vm = Top.vm /\ r.why = Top.why /\ r.frames = Top.frames /\ r.result = Top.result
      /\ r.ended = TRUE /\ r.failed = FALSE
  BY <1>1, Instruction DEF RunRecords
<1> HIDE DEF m, r
<1>8. Places(m)
  BY <1>1, <1>2, <1>6, Instruction DEF Places, MethodAt, LeaveAt, ExitAt, Meta, CcMod
<1>9. ASSUME M = Root
      PROVE  RootInOrder(m, r)
  <2>1. RootInOrder(Me, Top) /\ ~Top.failed
    BY <1>1, <1>9, Instruction
  <2>2. ASSUME Top.why = "call"
        PROVE  CallControl(m, r, 0) /\ (~lost => CleanControl(m, r, 0))
    <3>1. CallControl(Me, Top, 0) /\ (~lost => CleanControl(Me, Top, 0))
      BY <2>1, <2>2 DEF RootInOrder
    <3>2. ~Exit /\ Me.cc = Fake
      BY <1>1, <3>1 DEF CallControl, Header, ExitAt, MethodAt, LeaveAt, Meta, Fake, CcMod
    <3>3. m.cc = Fake
      BY <1>6, <3>2 DEF c
    <3> QED
      BY <1>6, <1>7, <3>1, <3>2, <3>3
         DEF CallControl, CleanControl, LeaveAt, Fake, CcMod
  <2>3. ~m.error /\ Len(active) = 1 => HostControl(m, r, 0)
    BY <1>1, <1>2, <1>6, <1>7, <2>1 DEF RootInOrder, HostControl, Header, First, ExitAt,
         MethodAt, LeaveAt, Meta, Fake, CcMod
  <2> QED
    BY <1>7, <2>2, <2>3 DEF RootInOrder
<1>10. UNCHANGED <<status, lost>>
  BY DEF Exit, LoopEnds
<1>11. Local(m, r)
  BY <1>1, <1>3, <1>4, <1>5, <1>6, <1>7, <1>8, <1>9, <1>10, Instruction DEF Local, TypeOK
<1> QED
  BY <1>11, LocalIInv

(* What runs astray changes the status of the process only.                *)
LEMMA AstrayIInv ==
  ASSUME IInv, Astray
  PROVE  IInv'
<1>1. active # <<>> /\ ~Top.ended /\ UNCHANGED <<vm, active, lost>>
      /\ status' \in {"running", "exit(5)", "wild"}
  BY DEF Astray, Executing
<1>2. Local(Me, Top)
  BY <1>1, Instruction DEF Local
<1> QED
  BY <1>2, LocalIInv

(* One more run.                                                           *)
LEMMA PushEffect ==
  ASSUME TypeOK, NEW r \in RunRecords, active' = Append(active, r)
  PROVE  /\ Len(active) \in Nat /\ Len(active') = Len(active) + 1
         /\ active' \in Seq(RunRecords)
         /\ \A i \in 1 .. Len(active) : active'[i] = active[i]
         /\ active'[Len(active) + 1] = r
  BY AppendProperties, LenProperties DEF TypeOK

(* The runs below it stay as they are.                                     *)
LEMMA PushRuns ==
  ASSUME IInv, active # <<>>, ~Top.ended, NEW r \in RunRecords, active' = Append(active, r),
         DOMAIN vm \subseteq DOMAIN vm',
         \A x \in DOMAIN vm : vm'[x].parent = vm[x].parent /\ vm'[x].error = vm[x].error
  PROVE  /\ \A i \in 1 .. Len(active) :
              /\ RunInv(i) /\ ~active[i].ended /\ ~active[i].failed
              /\ active[i].vm = Root => active[i].why # "execute"
         /\ \A i \in 1 .. Len(active) : RunInv(i)'
<1> DEFINE n == Len(active)
<1>1. /\ TypeOK /\ Inner /\ n \in Nat /\ n > 0 /\ active[n] = Top
  BY Instruction DEF IInv
<1>2. /\ Len(active') = n + 1
      /\ \A i \in 1 .. n : active'[i] = active[i]
  BY <1>1, PushEffect
<1>3. \A i \in 1 .. n : RunInv(i) /\ ~active[i].ended /\ ~active[i].failed
                         /\ (active[i].vm = Root => active[i].why # "execute")
  BY <1>1, RootFacts DEF Inner, RunsInv, RunInv, ParentInv
<1>4. ASSUME NEW i \in 1 .. n
      PROVE  RunInv(i)'
  <2>1. /\ active'[i] = active[i] /\ (i # 1 => active'[i - 1] = active[i - 1])
        /\ i # n + 1 /\ (i # 1 => i - 1 \in 1 .. n)
        /\ \A j \in 1 .. i - 1 : j \in 1 .. n /\ active'[j] = active[j]
    BY <1>1, <1>2
  <2>2. \A j \in 1 .. n : active[j].vm \in DOMAIN vm
    BY <1>3 DEF RunInv
  <2>3. RunInv(i) /\ ~active[i].ended /\ ~active[i].failed
    BY <1>3
  <2>4. active[i].why = "execute" =>
          \A j \in 1 .. i - 1 : /\ active'[j].vm # active[i].vm
                               /\ vm'[active'[j].vm].parent # active[i].vm
    BY <2>1, <2>2, <2>3 DEF RunInv
  <2> QED
    BY <2>1, <2>2, <2>3, <2>4 DEF RunInv
<1> QED
  BY <1>3, <1>4

(* A call of the parent lays a frame on those of the root.                 *)
LEMMA CallParentIInv ==
  ASSUME IInv, CallParent
  PROVE  IInv'
<1> DEFINE n == Len(active)
           t == vm[Root].sp + Me.sp + 1
           f == [ret |-> Fake, bp |-> t]
           c == [Me EXCEPT !.cc = Me.cc + 2]
           p == [vm[Root] EXCEPT !.cc = MethodAt, !.sp = t, !.bp = t,
                                 !.frames = Append(vm[Root].frames, f)]
           r == Run(Root, "call")
<1>1. active # <<>> /\ ~Top.ended /\ Me.cc \in Plain /\ Me.parent = Root
  BY DEF CallParent, Executing, HasMethod
<1>2. /\ TypeOK /\ Inner /\ RootInv /\ n \in Nat /\ n > 0 /\ active[n].vm = M /\ M \in DOMAIN vm
      /\ Me = vm[M] /\ Me \in MachineRecords /\ Places(Me) /\ Root \in DOMAIN vm
      /\ vm[Root] \in MachineRecords /\ DOMAIN vm \subseteq Machines
      /\ vm \in [DOMAIN vm -> MachineRecords] /\ active[n] = Top
  BY <1>1, Instruction DEF IInv, TypeOK
<1>3. M # Root
  BY <1>1, <1>2, RootFacts DEF Inner, ParentInv
<1>4. vm[Root].frames \in Frames /\ vm[Root].sp \in Int /\ vm[Root].bp \in Int
  BY <1>2 DEF MachineRecords
<1>5. t \in Int /\ f \in [ret : Addresses, bp : Int] /\ MethodAt \in Addresses
  BY <1>2, <1>4 DEF MachineRecords, Addresses, Fake, CcMod, MethodAt
<1>6. Me.cc + 2 \in Addresses
  BY <1>1 DEF Plain, Addresses, CcMod
<1>7. vm' = [vm EXCEPT ![M] = c, ![Root] = p]
  <2>1. vm' = [vm EXCEPT ![M].cc = @ + 2,
                         ![Root].cc = MethodAt, ![Root].sp = t, ![Root].bp = t,
                         ![Root].frames = Append(@, f)]
    BY <1>1 DEF CallParent
  <2> HIDE DEF t, f
  <2> QED
    BY <1>2, <1>3, <2>1
<1> HIDE DEF t
<1>8. f.ret = Fake
  OBVIOUS
<1> HIDE DEF f
<1>9. /\ Append(vm[Root].frames, f) \in Frames /\ Len(vm[Root].frames) \in Nat
      /\ Len(Append(vm[Root].frames, f)) = Len(vm[Root].frames) + 1
      /\ \A k \in 1 .. Len(vm[Root].frames) : Append(vm[Root].frames, f)[k] = vm[Root].frames[k]
      /\ Append(vm[Root].frames, f)[Len(vm[Root].frames) + 1] = f
  BY <1>4, <1>5, AppendProperties, LenProperties DEF Frames
<1>10. c \in MachineRecords /\ p \in MachineRecords
  BY <1>2, <1>5, <1>6, <1>9 DEF MachineRecords
<1>11. /\ c.parent = Me.parent /\ c.cc = Me.cc + 2 /\ c.frames = Me.frames /\ c.error = Me.error
       /\ p.parent = vm[Root].parent /\ p.cc = MethodAt /\ p.error = vm[Root].error
       /\ p.frames = Append(vm[Root].frames, f)
  BY <1>2 DEF MachineRecords
<1>12. r \in RunRecords
  <2>1. vm[Root].sp \in Int /\ vm[Root].bp \in Int /\ Root \in Machines
    BY <1>2, <1>4
  <2> QED
    BY <1>4, <2>1 DEF Run, RunRecords
<1>13. /\ r.vm = Root /\ r.why = "call" /\ ~r.ended /\ ~r.failed /\ r.result = NoResult
       /\ r.frames = vm[Root].frames
  BY DEF Run
<1>14. active' = Append(active, r)
  BY <1>1 DEF CallParent
<1> HIDE DEF c, p, r
<1>15. /\ DOMAIN vm' = DOMAIN vm /\ vm' \in [DOMAIN vm -> MachineRecords]
       /\ \A x \in DOMAIN vm : vm'[x] = IF x = M THEN c ELSE IF x = Root THEN p ELSE vm[x]
  BY <1>2, <1>3, <1>7, <1>10
<1>16. /\ Len(active') = n + 1 /\ active' \in Seq(RunRecords)
       /\ \A i \in 1 .. n : active'[i] = active[i]
       /\ active'[n + 1] = r
  BY <1>2, <1>12, <1>14, PushEffect
<1>17. UNCHANGED <<status, lost>>
  BY DEF CallParent
<1>18. TypeOK'
  BY <1>2, <1>10, <1>15, <1>16, <1>17 DEF TypeOK
<1>19. \A x \in DOMAIN vm : vm'[x].parent = vm[x].parent /\ vm'[x].error = vm[x].error
  BY <1>2, <1>11, <1>15
<1>20. ParentInv'
  BY <1>2, <1>15, <1>16, <1>19 DEF Inner, ParentInv
<1>21. /\ \A i \in 1 .. n : /\ RunInv(i) /\ ~active[i].ended /\ ~active[i].failed
                            /\ active[i].vm = Root => active[i].why # "execute"
       /\ \A i \in 1 .. n : RunInv(i)'
  BY <1>1, <1>12, <1>14, <1>15, <1>19, PushRuns
<1>22. RunsInv'
  <2>1. \A i \in 1 .. n : RunInv(i)'
    BY <1>21
  <2>2. ASSUME NEW i, i = n + 1
        PROVE  RunInv(i)'
    <3>1. i # 1 /\ active'[i] = r /\ active'[i - 1].vm = M /\ Len(active') = i
      BY <1>2, <1>16, <2>2
    <3> QED
      BY <1>1, <1>2, <1>13, <1>15, <1>19, <3>1 DEF RunInv
  <2>3. \A i \in 1 .. Len(active') : i \in 1 .. n \/ i = n + 1
    BY <1>2, <1>16
  <2> QED
    BY <2>1, <2>2, <2>3 DEF RunsInv
<1>23. PlacesInv'
  <2>1. Places(c)
    BY <1>1, <1>2, <1>11 DEF Places, Plain, MethodAt, LeaveAt, MachineRecords
  <2>2. Places(p)
    BY <1>2, <1>8, <1>9, <1>11 DEF Inner, PlacesInv, Places, ExitAt, LeaveAt, Fake, CcMod
  <2> QED
    BY <1>2, <1>15, <2>1, <2>2 DEF Inner, PlacesInv
<1>24. WaitingInv'
  <2> SUFFICES ASSUME NEW i \in 1 .. n, active'[i + 1].why = "execute",
                      active'[i].vm = Root => Innermost(i)'
               PROVE  vm'[active'[i].vm].cc \in {2, 4, 8, LeaveAt, Fake}
    BY <1>2, <1>16 DEF WaitingInv
  <2>1. i # n /\ i \in 1 .. n - 1 /\ i + 1 \in 1 .. n /\ n \in 1 .. n /\ n + 1 \in i + 1 .. n + 1
    BY <1>2, <1>13, <1>16
  <2>2. active[i].vm # Root
    BY <1>13, <1>16, <2>1 DEF Innermost
  <2>3. vm[active[i].vm].cc \in {2, 4, 8, LeaveAt, Fake} /\ active[i].vm \in DOMAIN vm
    BY <1>2, <1>16, <1>21, <2>1, <2>2 DEF Inner, WaitingInv, RunInv
  <2>4. active[i].vm # M
    <3>1. active[n].why \in {"host", "execute", "call"} /\ RunInv(n)
      BY <1>2, <1>21, Instruction, <1>1 DEF RunRecords
    <3> QED
      BY <1>2, <1>3, <2>1, <3>1 DEF RunInv
  <2> QED
    BY <1>15, <1>16, <2>2, <2>3, <2>4
<1>25. \A i \in 1 .. n : ~(Innermost(i)') /\ (Innermost(i) <=> /\ active[i].vm = Root
                            /\ \A j \in i + 1 .. n : active[j].vm # Root)
  BY <1>2, <1>13, <1>16 DEF Innermost
<1>26. \A i \in 1 .. n :
         active[i].why = "call" /\ Innermost(i) =>
           /\ Above(vm[Root].frames, active[i].frames)
           /\ Len(vm[Root].frames) > Len(active[i].frames)
           /\ ~lost => Clean(vm[Root].frames, active[i].frames)
  <2> SUFFICES ASSUME NEW i \in 1 .. n, active[i].why = "call", Innermost(i)
               PROVE  /\ Above(vm[Root].frames, active[i].frames)
                      /\ Len(vm[Root].frames) > Len(active[i].frames)
                      /\ ~lost => Clean(vm[Root].frames, active[i].frames)
    OBVIOUS
  <2>1. CallControl(vm[Root], active[i], n - i)
    BY <1>2 DEF RootInv, OpenCallInv
  <2>2. ~lost => CleanControl(vm[Root], active[i], n - i)
    BY <1>2, <1>21 DEF RootInv, OpenCallInv
  <2>3. n - i # 0
    BY <1>2, <1>3 DEF Innermost
  <2>4. Len(active[i].frames) \in Nat
    <3>1. active[i] \in RunRecords
      BY <1>2, ElementOfSeq DEF TypeOK
    <3> QED
      BY <3>1, LenProperties DEF RunRecords, Frames
  <2> QED
    BY <1>9, <2>1, <2>2, <2>3, <2>4 DEF CallControl, CleanControl, Above
<1>27. NestedInv'
  <2> SUFFICES ASSUME NEW i \in 1 .. n + 1, NEW j \in 1 .. n + 1, i < j,
                      active'[i].why = "call", active'[j].why = "call",
                      \A k \in i + 1 .. j - 1 : active'[k].vm # Root
               PROVE  /\ Above(active'[j].frames, active'[i].frames)
                      /\ Len(active'[j].frames) > Len(active'[i].frames)
                      /\ ~lost => Clean(active'[j].frames, active'[i].frames)
    BY <1>16, <1>17 DEF NestedInv
  <2>1. i \in 1 .. n /\ (j \in 1 .. n \/ j = n + 1)
    BY <1>2
  <2>2. CASE j \in 1 .. n
    <3>1. \A k \in i + 1 .. j - 1 : active[k].vm # Root
      BY <1>2, <1>16, <2>1, <2>2
    <3> QED
      BY <1>2, <1>16, <2>1, <2>2, <3>1 DEF RootInv, NestedInv
  <2>3. CASE j = n + 1
    <3>1. active[i].vm = Root
      BY <1>16, <1>21, <2>1 DEF RunInv
    <3>2. Innermost(i)
      BY <1>2, <1>16, <2>1, <2>3, <3>1 DEF Innermost
    <3> QED
      BY <1>13, <1>16, <1>26, <2>1, <2>3, <3>2
  <2> QED
    BY <2>1, <2>2, <2>3
<1>28. CallControl(p, r, 0) /\ CleanControl(p, r, 0)
  BY <1>8, <1>9, <1>11, <1>13
     DEF CallControl, CleanControl, Above, Clean, MethodAt, LeaveAt, Fake, CcMod
<1>29. OpenCallInv'
  <2>1. ASSUME NEW i \in 1 .. n, active[i].why = "call", ~lost
        PROVE  active[i].result = NoResult
    <3>1. i # n
      BY <1>2, <1>3, <1>21, <2>1 DEF RunInv
    <3>2. n - i > 0
      BY <1>2, <3>1
    <3> QED
      BY <1>2, <1>21, <2>1, <3>2 DEF RootInv, OpenCallInv, CleanControl
  <2>2. vm'[Root] = p /\ n + 1 - (n + 1) = 0
    BY <1>2, <1>3, <1>15
  <2>3. \A i \in 1 .. Len(active') : i \in 1 .. n \/ i = n + 1
    BY <1>2, <1>16
  <2>4. ASSUME NEW i, i = n + 1
        PROVE  Innermost(i)' /\ active'[i] = r /\ Len(active') - i = 0
    BY <1>2, <1>13, <1>16, <2>4 DEF Innermost
  <2> QED
    BY <1>16, <1>17, <1>25, <1>28, <2>1, <2>2, <2>3, <2>4 DEF OpenCallInv
<1>30. IdleInv'
  <2>1. vm'[Root].error = vm[Root].error
    BY <1>2, <1>19
  <2>2. ~Innermost(1)' /\ n + 1 \in 1 .. n + 1 /\ active'[n + 1].vm = Root
    BY <1>2, <1>13, <1>16, <1>25
  <2>3. ASSUME ~vm[Root].error, NEW i \in 1 .. n + 1, active'[i].why = "call",
               \A j \in 1 .. i - 1 : active'[j].vm # Root
        PROVE  active'[i].frames = <<>>
    <3>1. CASE i \in 1 .. n
      <4>1. \A j \in 1 .. i - 1 : active[j].vm # Root
        BY <1>2, <1>16, <2>3, <3>1
      <4> QED
        BY <1>2, <1>16, <2>3, <3>1, <4>1 DEF RootInv, IdleInv
    <3>2. CASE i = n + 1
      <4>1. \A j \in 1 .. n : active[j].vm # Root
        BY <1>2, <1>16, <2>3, <3>2
      <4> QED
        BY <1>2, <1>13, <1>16, <2>3, <3>2, <4>1 DEF RootInv, IdleInv
    <3> QED
      BY <1>2, <3>1, <3>2
  <2> QED
    BY <1>2, <1>16, <1>17, <2>1, <2>2, <2>3 DEF RootInv, IdleInv
<1> QED
  BY <1>18, <1>20, <1>22, <1>23, <1>24, <1>27, <1>29, <1>30 DEF IInv, Inner, RootInv

(* Interrupt 3 lays a child on top.                                        *)
LEMMA ExecuteIInv ==
  ASSUME IInv, NEW m \in Free, Execute(m)
  PROVE  IInv'
<1> DEFINE n == Len(active)
           c == [Me EXCEPT !.cc = Me.cc + 1]
           r == Child(m, "execute")
<1>1. active # <<>> /\ ~Top.ended /\ Me.cc \in Plain /\ m \in Machines /\ m \notin DOMAIN vm
  BY DEF Execute, Executing, Free
<1>2. /\ TypeOK /\ Inner /\ RootInv /\ n \in Nat /\ n > 0 /\ active[n].vm = M /\ M \in DOMAIN vm
      /\ Me = vm[M] /\ Me \in MachineRecords /\ Places(Me) /\ Root \in DOMAIN vm
      /\ DOMAIN vm \subseteq Machines /\ M \in Machines
      /\ vm \in [DOMAIN vm -> MachineRecords] /\ active[n] = Top /\ (M = Root => RootInOrder(Me, Top))
  BY <1>1, Instruction DEF IInv, TypeOK
<1>3. m # M /\ m # Root /\ m # None
  BY <1>1, <1>2, RootFacts
<1>4. Me.cc + 1 \in Addresses /\ First \in Addresses
  BY <1>1 DEF Plain, Addresses, CcMod, First
<1>5. c \in MachineRecords
  BY <1>2, <1>4 DEF MachineRecords
<1>6. New(M) \in MachineRecords
  <2>1. <<>> \in Frames
    BY EmptySeq DEF Frames
  <2> QED
    BY <1>2, <1>4, <2>1 DEF New, MachineRecords
<1>7. c.parent = Me.parent /\ c.cc = Me.cc + 1 /\ c.frames = Me.frames /\ c.error = Me.error
      /\ c.rv = Me.rv
  BY <1>2 DEF MachineRecords
<1>8. New(M).parent = M /\ New(M).cc = First /\ New(M).frames = <<>>
  BY DEF New
<1>9. /\ DOMAIN vm' = DOMAIN vm \cup {m}
      /\ \A x \in DOMAIN vm : vm'[x] = IF x = M THEN c ELSE vm[x]
      /\ vm'[m] = New(M)
      /\ vm' \in [DOMAIN vm \cup {m} -> MachineRecords]
  <2>1. vm' = [Start(m, M) EXCEPT ![M].cc = @ + 1]
    BY DEF Execute
  <2>2. Start(m, M)[M] = Me
    BY <1>2, <1>3 DEF Start
  <2>3. vm' = [Start(m, M) EXCEPT ![M] = c]
    BY <1>2, <2>1, <2>2 DEF Start
  <2> HIDE DEF c
  <2>4. /\ DOMAIN vm' = DOMAIN vm \cup {m}
        /\ \A x \in DOMAIN vm : vm'[x] = IF x = M THEN c ELSE vm[x]
        /\ vm'[m] = New(M)
    BY <1>1, <1>2, <1>3, <2>3 DEF Start
  <2>5. \A x \in DOMAIN vm \cup {m} : vm'[x] \in MachineRecords
    BY <1>2, <1>5, <1>6, <2>4
  <2> QED
    BY <2>3, <2>4, <2>5 DEF Start
<1>10. r \in RunRecords
  <2>1. <<>> \in Frames
    BY EmptySeq DEF Frames
  <2> QED
    BY <1>1, <2>1 DEF Child, RunRecords
<1>11. /\ r.vm = m /\ r.why = "execute" /\ ~r.ended /\ ~r.failed
  BY DEF Child
<1>12. active' = Append(active, r) /\ UNCHANGED <<status, lost>>
  BY DEF Execute
<1> HIDE DEF c, r
<1>13. /\ Len(active') = n + 1 /\ active' \in Seq(RunRecords)
       /\ \A i \in 1 .. n : active'[i] = active[i]
       /\ active'[n + 1] = r
  BY <1>2, <1>10, <1>12, PushEffect
<1>14. TypeOK'
  BY <1>1, <1>2, <1>9, <1>12, <1>13 DEF TypeOK
<1>15. \A x \in DOMAIN vm : vm'[x].parent = vm[x].parent /\ vm'[x].error = vm[x].error
  BY <1>2, <1>7, <1>9
<1>16. /\ \A i \in 1 .. n : /\ RunInv(i) /\ ~active[i].ended /\ ~active[i].failed
                            /\ active[i].vm = Root => active[i].why # "execute"
       /\ \A i \in 1 .. n : RunInv(i)'
  BY <1>1, <1>9, <1>10, <1>12, <1>15, PushRuns
<1>17. \A i \in 1 .. n : active[i].vm \in DOMAIN vm /\ active[i].vm # m
  BY <1>1, <1>16 DEF RunInv
<1>18. ParentInv'
  <2>1. ASSUME NEW x \in DOMAIN vm
        PROVE  /\ x = Root <=> vm'[x].parent = None
               /\ x # Root => /\ vm'[x].parent \in DOMAIN vm
                              /\ \E i \in 1 .. n + 1 : active'[i].vm = x
    <3>1. x # Root => \E i \in 1 .. n : active[i].vm = x
      BY <1>2 DEF Inner, ParentInv
    <3>2. x # Root => \E i \in 1 .. n + 1 : active'[i].vm = x
      BY <1>2, <1>13, <3>1
    <3> QED
      BY <1>2, <1>15, <3>2 DEF Inner, ParentInv
  <2>2. n + 1 \in 1 .. n + 1 /\ vm'[m].parent = M /\ M # None
    BY <1>2, <1>8, <1>9, RootFacts
  <2> QED
    BY <1>2, <1>3, <1>9, <1>11, <1>13, <2>1, <2>2 DEF ParentInv
<1>19. RunsInv'
  <2>1. ASSUME NEW i, i = n + 1
        PROVE  RunInv(i)'
    <3>1. i # 1 /\ active'[i] = r /\ active'[i - 1].vm = M /\ Len(active') = i
          /\ \A j \in 1 .. i - 1 : j \in 1 .. n /\ active'[j] = active[j]
      BY <1>2, <1>13, <2>1
    <3>2. \A j \in 1 .. n : vm[active[j].vm].parent # m
      BY <1>1, <1>2, <1>3, <1>17 DEF Inner, ParentInv
    <3>3. vm'[active'[i].vm].parent = M /\ active'[i].vm = m
      BY <1>8, <1>9, <1>11, <3>1
    <3>4. \A j \in 1 .. i - 1 :
            active'[j].vm # active'[i].vm /\ vm'[active'[j].vm].parent # active'[i].vm
      BY <1>15, <1>17, <3>1, <3>2, <3>3
    <3> QED
      BY <1>9, <1>11, <3>1, <3>3, <3>4 DEF RunInv
  <2>2. \A i \in 1 .. Len(active') : i \in 1 .. n \/ i = n + 1
    BY <1>2, <1>13
  <2> QED
    BY <1>16, <2>1, <2>2 DEF RunsInv
<1>20. PlacesInv'
  <2>1. Places(c)
    BY <1>1, <1>2, <1>7 DEF Places, Plain, MethodAt, LeaveAt, MachineRecords
  <2>2. Places(New(M))
    BY <1>8 DEF Places, First, MethodAt, LeaveAt
  <2> QED
    BY <1>2, <1>9, <2>1, <2>2 DEF Inner, PlacesInv
<1>21. \A i \in 1 .. n : Innermost(i)' <=> Innermost(i)
  <2> SUFFICES ASSUME NEW i \in 1 .. n
               PROVE  Innermost(i)' <=> Innermost(i)
    OBVIOUS
  <2>1. \A j \in i + 1 .. n + 1 : (j \in i + 1 .. n /\ j \in 1 .. n) \/ j = n + 1
    BY <1>2
  <2>2. \A j \in i + 1 .. n : j \in i + 1 .. n + 1 /\ j \in 1 .. n
    BY <1>2
  <2> QED
    BY <1>3, <1>11, <1>13, <2>1, <2>2 DEF Innermost
<1>22. \A i \in 1 .. n : i < n /\ active[i].vm = M => M = Root /\ ~Innermost(i)
  <2>1. active[n].why \in {"host", "execute", "call"} /\ RunInv(n)
    BY <1>1, <1>2, <1>16, Instruction DEF RunRecords
  <2> QED
    BY <1>2, <2>1 DEF RunInv, Innermost
<1>23. WaitingInv'
  <2> SUFFICES ASSUME NEW i \in 1 .. n, active'[i + 1].why = "execute",
                      active'[i].vm = Root => Innermost(i)'
               PROVE  vm'[active'[i].vm].cc \in {2, 4, 8, LeaveAt, Fake}
    BY <1>2, <1>13 DEF WaitingInv
  <2>1. CASE i = n
    BY <1>1, <1>2, <1>7, <1>9, <1>13, <2>1 DEF Plain
  <2>2. CASE i # n
    <3>1. i \in 1 .. n - 1 /\ i + 1 \in 1 .. n /\ i < n
      BY <1>2, <2>2
    <3>2. vm[active[i].vm].cc \in {2, 4, 8, LeaveAt, Fake} /\ active[i].vm # M
      BY <1>2, <1>13, <1>21, <1>22, <3>1 DEF Inner, WaitingInv
    <3> QED
      BY <1>9, <1>13, <1>17, <3>2
  <2> QED
    BY <2>1, <2>2
<1>24. NestedInv'
  <2> SUFFICES ASSUME NEW i \in 1 .. n + 1, NEW j \in 1 .. n + 1, i < j,
                      active'[i].why = "call", active'[j].why = "call",
                      \A k \in i + 1 .. j - 1 : active'[k].vm # Root
               PROVE  /\ Above(active'[j].frames, active'[i].frames)
                      /\ Len(active'[j].frames) > Len(active'[i].frames)
                      /\ ~lost => Clean(active'[j].frames, active'[i].frames)
    BY <1>12, <1>13 DEF NestedInv
  <2>1. i \in 1 .. n /\ j \in 1 .. n
    BY <1>2, <1>11, <1>13
  <2>2. \A k \in i + 1 .. j - 1 : active[k].vm # Root
    BY <1>2, <1>13, <2>1
  <2> QED
    BY <1>2, <1>13, <2>1, <2>2 DEF RootInv, NestedInv
<1>25. M # Root => vm'[Root] = vm[Root]
  BY <1>2, <1>9
<1>26. ASSUME NEW i \in 1 .. n, active[i].why = "call"
       PROVE  /\ Innermost(i) => CallControl(vm'[Root], active[i], n + 1 - i)
              /\ Innermost(i) /\ ~lost => CleanControl(vm'[Root], active[i], n + 1 - i)
              /\ ~lost => active[i].result = NoResult
  <2>1. CASE i = n
    <3>1. M = Root /\ CallControl(Me, Top, 0) /\ (~lost => CleanControl(Me, Top, 0))
      BY <1>2, <1>16, <1>26, <2>1 DEF RunInv, RootInOrder
    <3>2. vm'[Root] = c /\ n + 1 - i > 0 /\ Top = active[i]
      BY <1>2, <1>9, <2>1, <3>1
    <3>3. CallControl(c, Top, n + 1 - i)
      BY <1>1, <1>2, <1>7, <1>16, <2>1, <3>1, <3>2
         DEF CallControl, Plain, Header, MethodAt, LeaveAt, Fake, CcMod
    <3>4. ~lost => Top.result = NoResult
      BY <1>1, <3>1 DEF CleanControl, Plain, LeaveAt, Fake, CcMod
    <3>5. ~lost => CleanControl(c, Top, n + 1 - i)
      BY <1>1, <1>2, <1>7, <1>16, <2>1, <3>1, <3>2, <3>4
         DEF CallControl, CleanControl, Plain, Header, MethodAt, LeaveAt, Fake, CcMod
    <3> QED
      BY <3>2, <3>3, <3>4, <3>5
  <2>2. CASE i # n
    <3>1. active[i].vm = Root /\ n - i > 0 /\ n + 1 - i > 0 /\ n - i # 0 /\ n + 1 - i # 0
      BY <1>2, <1>16, <1>26, <2>2 DEF RunInv
    <3>2. ~lost => active[i].result = NoResult
      BY <1>2, <1>16, <1>26, <3>1 DEF RootInv, OpenCallInv, CleanControl
    <3>3. ASSUME Innermost(i)
          PROVE  /\ CallControl(vm'[Root], active[i], n + 1 - i)
                 /\ ~lost => CleanControl(vm'[Root], active[i], n + 1 - i)
      <4>1. M # Root
        BY <1>2, <2>2, <3>3 DEF Innermost
      <4>2. /\ CallControl(vm[Root], active[i], n - i)
            /\ ~lost => CleanControl(vm[Root], active[i], n - i)
        BY <1>2, <1>16, <1>26, <3>3 DEF RootInv, OpenCallInv
      <4> QED
        BY <1>25, <3>1, <4>1, <4>2 DEF CallControl, CleanControl
    <3> QED
      BY <3>2, <3>3
  <2> QED
    BY <2>1, <2>2
<1>27. OpenCallInv'
  <2>1. \A i \in 1 .. Len(active') : i \in 1 .. n \/ i = n + 1
    BY <1>2, <1>13
  <2>2. active'[n + 1].why # "call"
    BY <1>11, <1>13
  <2> QED
    BY <1>12, <1>13, <1>16, <1>21, <1>26, <2>1, <2>2 DEF OpenCallInv
<1>28. IdleInv'
  <2>1. vm'[Root].error = vm[Root].error
    BY <1>2, <1>15
  <2>2. (\A i \in 1 .. n + 1 : active'[i].vm # Root) =>
          M # Root /\ \A i \in 1 .. n : active[i].vm # Root
    BY <1>2, <1>13
  <2>3. ASSUME ~vm[Root].error, NEW i \in 1 .. n + 1, active'[i].why = "call",
               \A j \in 1 .. i - 1 : active'[j].vm # Root
        PROVE  active'[i].frames = <<>>
    <3>1. i \in 1 .. n /\ \A j \in 1 .. i - 1 : active[j].vm # Root
      BY <1>2, <1>11, <1>13, <2>3
    <3> QED
      BY <1>2, <1>13, <2>3, <3>1 DEF RootInv, IdleInv
  <2>4. ASSUME ~vm[Root].error, Innermost(1)
        PROVE  HostControl(vm'[Root], active[1], n)
    <3>1. HostControl(vm[Root], active[1], n - 1)
      BY <1>2, <2>4 DEF RootInv, IdleInv
    <3>2. CASE n = 1
      <4>1. M = Root /\ vm'[Root] = c /\ Me = vm[Root]
        BY <1>2, <1>9, <2>4, <3>2 DEF Innermost
      <4>2. ~active[1].ended /\ n - 1 = 0
        BY <1>16, <3>2
      <4>3. HostControl(Me, active[1], 0)
        BY <3>1, <4>1, <4>2
      <4>4. HostControl(c, active[1], 1)
        BY <1>1, <1>7, <4>2, <4>3
           DEF HostControl, Plain, First, ExitAt, Header, MethodAt, LeaveAt, Fake, CcMod
      <4> QED
        BY <3>2, <4>1, <4>4
    <3>3. CASE n > 1
      <4>1. M # Root
        BY <1>2, <2>4, <3>3 DEF Innermost
      <4> QED
        BY <1>2, <1>25, <3>1, <3>3, <4>1 DEF HostControl
    <3>4. n = 1 \/ n > 1
      BY <1>2
    <3> QED
      BY <3>2, <3>3, <3>4
  <2>5. n + 1 > 0 /\ n + 1 - 1 = n /\ (Innermost(1)' <=> Innermost(1)) /\ active'[1] = active[1]
    BY <1>2, <1>13, <1>21
  <2> QED
    BY <1>2, <1>12, <1>13, <1>25, <2>1, <2>2, <2>3, <2>4, <2>5 DEF RootInv, IdleInv
<1> QED
  BY <1>14, <1>18, <1>19, <1>20, <1>23, <1>24, <1>27, <1>28 DEF IInv, Inner, RootInv

(* The host lays a child on nothing.                                       *)
LEMMA HostExecuteIInv ==
  ASSUME IInv, NEW m \in Free, HostExecute(m)
  PROVE  IInv'
<1> DEFINE r == Child(m, "host")
<1>1. /\ active = <<>> /\ m \in Machines /\ m \notin DOMAIN vm
      /\ vm' = Start(m, Root) /\ active' = <<r>> /\ UNCHANGED <<status, lost>>
  BY DEF HostExecute, Free
<1>2. /\ TypeOK /\ Inner /\ RootInv /\ Root \in DOMAIN vm /\ m # Root /\ m # None
      /\ Len(active) = 0 /\ DOMAIN vm \subseteq Machines
      /\ vm \in [DOMAIN vm -> MachineRecords]
  BY <1>1, RootFacts DEF IInv, TypeOK
<1>3. <<>> \in Frames
  BY EmptySeq DEF Frames
<1>4. New(Root) \in MachineRecords
  <2>1. First \in Addresses /\ Root \in Machines
    BY RootFacts DEF First, Addresses, CcMod
  <2> QED
    BY <1>3, <2>1 DEF New, MachineRecords
<1>5. New(Root).parent = Root /\ New(Root).cc = First /\ New(Root).frames = <<>>
  BY DEF New
<1>6. r \in RunRecords
  BY <1>1, <1>3 DEF Child, RunRecords
<1>7. r.vm = m /\ r.why = "host" /\ ~r.ended /\ ~r.failed
  BY DEF Child
<1> HIDE DEF r
<1>8. /\ DOMAIN vm' = DOMAIN vm \cup {m}
      /\ \A x \in DOMAIN vm : vm'[x] = vm[x]
      /\ vm'[m] = New(Root)
      /\ vm' \in [DOMAIN vm \cup {m} -> MachineRecords]
  BY <1>1, <1>2, <1>4 DEF Start
<1>9. Len(active') = 1 /\ active' \in Seq(RunRecords) /\ active'[1] = r
  BY <1>1, <1>6
<1>10. TypeOK'
  BY <1>1, <1>2, <1>8, <1>9 DEF TypeOK
<1>11. \A x \in DOMAIN vm : x = Root /\ vm[x].parent = None
  BY <1>2 DEF Inner, ParentInv
<1>12. ParentInv'
  BY <1>2, <1>5, <1>7, <1>8, <1>9, <1>11, RootFacts DEF ParentInv
<1>13. RunsInv'
  <2>1. ASSUME NEW i, i = 1
        PROVE  RunInv(i)'
    BY <1>5, <1>7, <1>8, <1>9, <2>1 DEF RunInv
  <2> QED
    BY <1>9, <2>1 DEF RunsInv
<1>14. PlacesInv'
  <2>1. Places(New(Root))
    BY <1>5 DEF Places, First, MethodAt, LeaveAt
  <2> QED
    BY <1>2, <1>8, <2>1 DEF Inner, PlacesInv
<1>15. WaitingInv'
  BY <1>9 DEF WaitingInv
<1>16. NestedInv' /\ OpenCallInv'
  BY <1>7, <1>9 DEF NestedInv, OpenCallInv
<1>17. IdleInv'
  <2>1. ~Innermost(1)' /\ ~(active'[1].why = "call") /\ vm'[Root] = vm[Root]
    BY <1>2, <1>7, <1>8, <1>9 DEF Innermost
  <2>2. ~vm[Root].error => ~lost /\ vm[Root].frames = <<>>
    BY <1>2 DEF RootInv, IdleInv
  <2> QED
    BY <1>1, <1>9, <2>1, <2>2 DEF IdleInv
<1> QED
  BY <1>10, <1>12, <1>13, <1>14, <1>15, <1>16, <1>17 DEF IInv, Inner, RootInv

(* A run that has ended.                                                   *)
LEMMA EndedFacts ==
  ASSUME IInv, NEW why, Ended(why)
  PROVE  /\ TypeOK /\ Inner /\ RootInv /\ Top.why = why /\ Top.ended
         /\ Len(active) \in Nat /\ Len(active) > 0 /\ Top = active[Len(active)]
         /\ Top \in RunRecords /\ M = Top.vm /\ M \in DOMAIN vm
         /\ Me = vm[M] /\ Me \in MachineRecords
         /\ Front(active) \in Seq(RunRecords) /\ Len(Front(active)) = Len(active) - 1
         /\ \A i \in 1 .. Len(active) - 1 : Front(active)[i] = active[i]
         /\ \A i \in 1 .. Len(active) :
              /\ RunInv(i)
              /\ i < Len(active) => ~active[i].ended /\ ~active[i].failed
<1>1. active # <<>> /\ Top.why = why /\ Top.ended
  BY DEF Ended
<1>2. TypeOK /\ Inner /\ RootInv
  BY DEF IInv
<1>3. Len(active) \in Nat /\ Len(active) > 0
  BY <1>1, <1>2, TopFacts
<1>4. /\ Front(active) \in Seq(RunRecords) /\ Len(Front(active)) = Len(active) - 1
      /\ \A i \in 1 .. Len(active) - 1 : Front(active)[i] = active[i]
  BY <1>2, <1>3, FrontProperties DEF TypeOK
<1>5. \A i \in 1 .. Len(active) :
        /\ RunInv(i)
        /\ i < Len(active) => ~active[i].ended /\ ~active[i].failed
  BY <1>2, <1>3 DEF Inner, RunsInv, RunInv
<1> QED
  BY <1>1, <1>2, <1>3, <1>4, <1>5, TopFacts

(* The host's own run has ended: no run and no machine but the root is     *)
(* left.                                                                   *)
LEMMA ToHostIInv ==
  ASSUME IInv, ToHost
  PROVE  IInv'
<1> DEFINE n == Len(active)
           e == [vm[Root] EXCEPT !.error = TRUE]
           v == [vm[Root] EXCEPT !.rv = Me.rv]
<1>1. Ended("host") /\ active' = Front(active) /\ UNCHANGED <<status, lost>>
  BY DEF ToHost
<1>2. /\ TypeOK /\ Inner /\ RootInv /\ n = 1 /\ active[1].vm = M /\ active[1].ended
      /\ M \in DOMAIN vm /\ Me = vm[M] /\ Me \in MachineRecords
  <2>1. RunInv(n) /\ n > 0 /\ n \in Nat /\ active[n].why = "host" /\ Top = active[n]
    BY <1>1, EndedFacts
  <2>2. n = 1
    BY <2>1 DEF RunInv
  <2> QED
    BY <1>1, <2>1, <2>2, EndedFacts
<1>3. /\ Root \in DOMAIN vm /\ vm[Root] \in MachineRecords /\ DOMAIN vm \subseteq Machines
      /\ vm \in [DOMAIN vm -> MachineRecords]
  BY <1>2 DEF TypeOK
<1>4. /\ Len(active') = 0 /\ active' \in Seq(RunRecords)
  BY <1>1, <1>2, EndedFacts
<1>5. \A x \in DOMAIN vm : x = Root \/ x = M
  BY <1>2 DEF Inner, ParentInv
<1>6. /\ e \in MachineRecords /\ e.parent = vm[Root].parent /\ e.cc = vm[Root].cc
      /\ e.frames = vm[Root].frames /\ e.error = TRUE
      /\ v \in MachineRecords /\ v.parent = vm[Root].parent /\ v.cc = vm[Root].cc
      /\ v.frames = vm[Root].frames /\ v.error = vm[Root].error
  BY <1>2, <1>3 DEF MachineRecords
<1>7. /\ DOMAIN vm' = {Root} /\ vm' \in [{Root} -> MachineRecords]
      /\ vm'[Root] \in {vm[Root], e, v} /\ (M = Root => vm'[Root] = vm[Root])
  <2>1. CASE M = Root
    <3>1. vm' = vm /\ DOMAIN vm = {Root}
      BY <1>3, <1>5, <2>1 DEF ToHost
    <3> QED
      BY <1>3, <3>1
  <2>2. CASE M # Root
    <3>1. vm' = [Without(M) EXCEPT ![Root].error = TRUE] \/ vm' = [Without(M) EXCEPT ![Root].rv = Me.rv]
      BY <2>2 DEF ToHost
    <3>2. Without(M) = [x \in {Root} |-> vm[x]]
      BY <1>3, <1>5, <2>2 DEF Without
    <3>3. vm' = [x \in {Root} |-> e] \/ vm' = [x \in {Root} |-> v]
      BY <3>1, <3>2
    <3> HIDE DEF e, v
    <3> QED
      BY <1>6, <2>2, <3>3
  <2> QED
    BY <2>1, <2>2
<1> HIDE DEF e, v
<1>8. TypeOK'
  BY <1>1, <1>2, <1>3, <1>4, <1>7 DEF TypeOK
<1>9. ParentInv'
  BY <1>2, <1>3, <1>6, <1>7 DEF Inner, ParentInv
<1>10. RunsInv' /\ WaitingInv' /\ NestedInv' /\ OpenCallInv'
  BY <1>4 DEF RunsInv, WaitingInv, NestedInv, OpenCallInv
<1>11. PlacesInv'
  BY <1>3, <1>2, <1>6, <1>7 DEF Inner, PlacesInv, Places
<1>12. IdleInv'
  <2>1. ASSUME ~vm'[Root].error
        PROVE  ~lost /\ vm'[Root].frames = <<>>
    <3>1. ~vm[Root].error /\ vm'[Root].frames = vm[Root].frames
      BY <1>6, <1>7, <2>1
    <3>2. CASE M = Root
      <4>1. Innermost(1) /\ n - 1 = 0
        BY <1>2, <3>2 DEF Innermost
      <4>2. HostControl(vm[Root], active[1], 0) /\ ~lost
        BY <1>2, <3>1, <4>1 DEF RootInv, IdleInv
      <4> QED
        BY <1>2, <3>1, <4>2 DEF HostControl
    <3>3. CASE M # Root
      BY <1>2, <3>1, <3>3 DEF RootInv, IdleInv
    <3> QED
      BY <3>2, <3>3
  <2> QED
    BY <1>1, <1>4, <2>1 DEF IdleInv
<1> QED
  BY <1>8, <1>9, <1>10, <1>11, <1>12 DEF IInv, Inner, RootInv


(* A call from a child has ended: the root is what it was, or the call     *)
(* below it finds more frames than its own.                                *)
LEMMA ToCallerIInv ==
  ASSUME IInv, ToCaller
  PROVE  IInv'
<1> DEFINE n == Len(active)
           h == active[n - 1].vm
           t == [vm[Root] EXCEPT !.sp = Top.sp, !.bp = Top.bp]
           c == [vm[h] EXCEPT !.rv = vm[Root].rv]
<1>1. Ended("call") /\ active' = Front(active) /\ UNCHANGED status
      /\ lost' = (lost \/ Top.failed)
  BY DEF ToCaller
<1>2. /\ TypeOK /\ Inner /\ RootInv /\ n \in Nat /\ n > 0 /\ active[n] = Top
      /\ Top \in RunRecords /\ Top.ended /\ Top.why = "call"
      /\ \A i \in 1 .. n : RunInv(i) /\ (i < n => ~active[i].ended /\ ~active[i].failed)
  BY <1>1, EndedFacts
<1>3. /\ Root \in DOMAIN vm /\ DOMAIN vm \subseteq Machines
      /\ \A x \in DOMAIN vm : vm[x] \in MachineRecords
      /\ vm \in [DOMAIN vm -> MachineRecords] /\ active \in Seq(RunRecords)
  BY <1>2 DEF TypeOK
<1>4. n > 1 /\ M = Root /\ vm[h].parent = Root /\ h \in DOMAIN vm /\ h # Root
  <2>1. RunInv(n) /\ n # 1
    BY <1>2 DEF RunInv
  <2>2. n - 1 \in 1 .. n /\ n > 1
    <3>1. \A x \in Nat : x > 0 /\ x # 1 => x - 1 \in 1 .. x /\ x > 1
      OBVIOUS
    <3> QED
      BY <1>2, <2>1, <3>1
  <2> QED
    BY <1>1, <1>2, <2>1, <2>2, EndedFacts, RootFacts DEF RunInv, Inner, ParentInv
<1>5. /\ Len(active') = n - 1 /\ active' \in Seq(RunRecords)
      /\ \A i \in 1 .. n - 1 : active'[i] = active[i]
  BY <1>1, EndedFacts
<1>6. vm' = [vm EXCEPT ![Root] = t, ![h] = c]
  BY <1>1, <1>3, <1>4, EndedFacts DEF ToCaller
<1>7. Top.sp \in Int /\ Top.bp \in Int /\ vm[Root].rv \in Results \cup {NoResult}
  BY <1>2, <1>3 DEF RunRecords, MachineRecords
<1>8. /\ t \in MachineRecords /\ t.parent = vm[Root].parent /\ t.cc = vm[Root].cc
      /\ t.frames = vm[Root].frames /\ t.error = vm[Root].error /\ t.rv = vm[Root].rv
  BY <1>3, <1>7 DEF MachineRecords
<1>9. /\ c \in MachineRecords /\ c.parent = vm[h].parent /\ c.cc = vm[h].cc
      /\ c.frames = vm[h].frames /\ c.error = vm[h].error
  BY <1>3, <1>4, <1>7 DEF MachineRecords
<1> HIDE DEF t, c, h
<1>10. /\ DOMAIN vm' = DOMAIN vm /\ vm' \in [DOMAIN vm -> MachineRecords]
       /\ vm'[Root] = t
       /\ \A x \in DOMAIN vm : /\ vm'[x].parent = vm[x].parent /\ vm'[x].cc = vm[x].cc
                               /\ vm'[x].frames = vm[x].frames /\ vm'[x].error = vm[x].error
  BY <1>3, <1>4, <1>6, <1>8, <1>9
<1>11. TypeOK'
  BY <1>1, <1>2, <1>3, <1>5, <1>10 DEF TypeOK
<1>12. active[n].vm = Root
  BY <1>2 DEF RunInv
<1>13. ParentInv'
  <2>1. ASSUME NEW x \in DOMAIN vm, x # Root
        PROVE  \E i \in 1 .. n - 1 : active[i].vm = x
    BY <1>2, <1>12, <2>1 DEF Inner, ParentInv
  <2> QED
    BY <1>2, <1>5, <1>10, <2>1 DEF Inner, ParentInv
<1>14. RunsInv'
  <2> SUFFICES ASSUME NEW i \in 1 .. n - 1
               PROVE  RunInv(i)'
    BY <1>5 DEF RunsInv
  <2>1. /\ active'[i] = active[i] /\ (i # 1 => active'[i - 1] = active[i - 1])
        /\ i < n /\ i \in 1 .. n /\ (i # 1 => i - 1 \in 1 .. n)
        /\ \A j \in 1 .. i - 1 : j \in 1 .. n /\ active'[j] = active[j]
    BY <1>2, <1>5
  <2>2. \A j \in 1 .. n : /\ active[j].vm \in DOMAIN vm
                           /\ vm'[active[j].vm].parent = vm[active[j].vm].parent
                           /\ vm'[active[j].vm].error = vm[active[j].vm].error
    BY <1>2, <1>10 DEF RunInv
  <2>3. RunInv(i) /\ ~active[i].ended /\ ~active[i].failed
    BY <1>2, <2>1
  <2>4. active[i].why = "execute" =>
          \A j \in 1 .. i - 1 : /\ active'[j].vm # active[i].vm
                               /\ vm'[active'[j].vm].parent # active[i].vm
    BY <2>1, <2>2, <2>3 DEF RunInv
  <2> QED
    BY <1>10, <2>1, <2>2, <2>3, <2>4 DEF RunInv
<1>15. PlacesInv'
  BY <1>2, <1>10 DEF Inner, PlacesInv, Places
<1>16. /\ CallControl(vm[Root], Top, 0)
       /\ ~lost' => CleanControl(vm[Root], Top, 0)
  <2>1. Innermost(n) /\ n - n = 0 /\ n \in 1 .. n
    BY <1>2, <1>12 DEF Innermost
  <2> QED
    BY <1>1, <1>2, <2>1 DEF RootInv, OpenCallInv
<1>17. vm[Root].cc \in {8, LeaveAt, Fake}
  BY <1>2, <1>16 DEF CallControl
<1>18. WaitingInv'
  <2> SUFFICES ASSUME NEW i \in 1 .. n - 2, active[i + 1].why = "execute"
               PROVE  vm'[active[i].vm].cc \in {2, 4, 8, LeaveAt, Fake}
    BY <1>2, <1>5 DEF WaitingInv
  <2>1. i \in 1 .. n - 1 /\ i \in 1 .. n
    BY <1>2
  <2>2. active[i].vm # Root => vm[active[i].vm].cc \in {2, 4, 8, LeaveAt, Fake}
    BY <1>2, <2>1 DEF Inner, WaitingInv
  <2> QED
    BY <1>2, <1>10, <1>17, <2>1, <2>2 DEF RunInv
<1>19. NestedInv'
  <2>1. ~lost' => ~lost
    BY <1>1
  <2> SUFFICES ASSUME NEW i \in 1 .. n - 1, NEW j \in 1 .. n - 1, i < j,
                      active[i].why = "call", active[j].why = "call",
                      \A k \in i + 1 .. j - 1 : active'[k].vm # Root
               PROVE  /\ Above(active[j].frames, active[i].frames)
                      /\ Len(active[j].frames) > Len(active[i].frames)
                      /\ ~lost => Clean(active[j].frames, active[i].frames)
    BY <1>5, <2>1 DEF NestedInv
  <2>2. i \in 1 .. n /\ j \in 1 .. n /\ \A k \in i + 1 .. j - 1 : active[k].vm # Root
    <3>1. i \in 1 .. n /\ j \in 1 .. n /\ \A k \in i + 1 .. j - 1 : k \in 1 .. n - 1
      BY <1>2
    <3> QED
      BY <1>5, <3>1
  <2> QED
    BY <1>2, <2>2 DEF RootInv, NestedInv
<1>20. ASSUME NEW i \in 1 .. n - 1, active[i].why = "call"
       PROVE  /\ i < n - 1 /\ i \in 1 .. n
              /\ ~lost => active[i].result = NoResult
              /\ Innermost(i)' => \A k \in i + 1 .. n - 1 : active[k].vm # Root
  <2>1. i \in 1 .. n /\ active[i].vm = Root
    BY <1>2, <1>20 DEF RunInv
  <2>2. i # n - 1
    BY <1>4, <2>1 DEF h
  <2>3. ~Innermost(i)
    BY <1>2, <1>12 DEF Innermost
  <2>4. ~lost => active[i].result = NoResult
    BY <1>2, <1>20, <2>1, <2>3 DEF RootInv, OpenCallInv
  <2>5. Innermost(i)' => \A k \in i + 1 .. n - 1 : active[k].vm # Root
    BY <1>2, <1>5 DEF Innermost
  <2> QED
    BY <1>2, <2>1, <2>2, <2>4, <2>5
<1>21. ASSUME NEW i \in 1 .. n - 1, active[i].why = "call",
              \A k \in i + 1 .. n - 1 : active[k].vm # Root
       PROVE  /\ CallControl(t, active[i], n - 1 - i)
              /\ ~lost' => CleanControl(t, active[i], n - 1 - i)
  <2> DEFINE f == vm[Root].frames
             g == Top.frames
             k == active[i].frames
  <2>1. f \in Frames /\ g \in Frames /\ k \in Frames
    <3>1. i \in 1 .. Len(active)
      BY <1>2
    <3>2. active[i] \in RunRecords
      BY <1>3, <3>1, ElementOfSeq
    <3> QED
      BY <1>2, <1>3, <3>2 DEF MachineRecords, RunRecords
  <2>2. Len(f) \in Nat /\ Len(g) \in Nat /\ Len(k) \in Nat
    BY <2>1, LenProperties DEF Frames
  <2>3. Above(g, k) /\ Len(g) > Len(k) /\ (~lost => Clean(g, k))
    BY <1>2, <1>20, <1>21 DEF RootInv, NestedInv
  <2>4. Above(f, g) /\ (~lost' => Len(f) = Len(g) /\ vm[Root].cc = Fake)
    BY <1>2, <1>16 DEF CallControl, CleanControl
  <2> HIDE DEF f, g, k
  <2>5. Above(f, k) /\ Len(f) > Len(k)
    <3>1. \A j \in 1 .. Len(k) : j \in 1 .. Len(g)
      BY <2>2, <2>3
    <3>2. \A j \in Len(k) + 1 .. Len(f) : (j \in 1 .. Len(g) /\ j \in Len(k) + 1 .. Len(g)) \/ j \in Len(g) + 1 .. Len(f)
      BY <2>2, <2>3
    <3>3. Len(k) + 1 \in 1 .. Len(g)
      BY <2>2, <2>3
    <3>4. Len(f) >= Len(g) /\ Len(f) > Len(k)
      BY <2>2, <2>3, <2>4 DEF Above
    <3>5. \A j \in 1 .. Len(g) : f[j] = g[j]
      BY <2>4 DEF Above
    <3>6. \A j \in 1 .. Len(k) : f[j] = k[j]
      BY <2>3, <3>1, <3>5 DEF Above
    <3>7. f[Len(k) + 1].ret = Fake
      BY <2>3, <3>3, <3>5 DEF Above
    <3>8. \A j \in Len(k) + 1 .. Len(f) : f[j].ret \in {LeaveAt, Fake}
      BY <2>3, <2>4, <3>2, <3>5 DEF Above
    <3> QED
      BY <2>2, <3>4, <3>6, <3>7, <3>8 DEF Above
  <2>6. ~lost' => Clean(f, k)
    <3>1. \A j \in Len(k) + 2 .. Len(g) : j \in 1 .. Len(g)
      BY <2>2
    <3> QED
      BY <1>1, <2>2, <2>3, <2>4, <3>1 DEF Above, Clean
  <2>7. t.frames = f /\ active[i].frames = k /\ t.cc = vm[Root].cc /\ ~active[i].ended
    BY <1>2, <1>8, <1>20, <1>21 DEF f, k
  <2>8. n - 1 - i > 0
    BY <1>2, <1>20, <1>21
  <2>9. CallControl(t, active[i], n - 1 - i)
    BY <1>17, <2>2, <2>5, <2>7 DEF CallControl, MethodAt, LeaveAt
  <2>10. ASSUME ~lost' PROVE CleanControl(t, active[i], n - 1 - i)
    <3>1. ~lost /\ t.cc = Fake /\ active[i].result = NoResult
      BY <1>1, <1>20, <1>21, <2>4, <2>7, <2>10
    <3>2. Clean(t.frames, active[i].frames)
      BY <2>6, <2>7, <2>10
    <3>3. Fake # LeaveAt + 1
      BY DEF Fake, CcMod, LeaveAt
    <3> QED
      BY <2>7, <2>8, <3>1, <3>2, <3>3 DEF CleanControl
  <2> QED
    BY <2>9, <2>10
<1>22. OpenCallInv'
  <2> SUFFICES ASSUME NEW i \in 1 .. n - 1, active[i].why = "call"
               PROVE  /\ Innermost(i)' => CallControl(t, active[i], n - 1 - i)
                      /\ Innermost(i)' /\ ~lost' => CleanControl(t, active[i], n - 1 - i)
                      /\ ~lost' => active[i].result = NoResult
    BY <1>5, <1>10 DEF OpenCallInv
  <2>1. ~lost' => ~lost
    BY <1>1
  <2> QED
    BY <1>20, <1>21, <2>1
<1>23. IdleInv'
  <2>1. t.error = vm[Root].error /\ t.frames = vm[Root].frames /\ t.cc = vm[Root].cc
    BY <1>8
  <2>2. ASSUME ~vm[Root].error
        PROVE  ~lost /\ ~lost'
    <3>1. ~Top.failed
      BY <1>2, <1>12, <2>2 DEF RunInv
    <3> QED
      BY <1>1, <1>2, <2>2, <3>1 DEF RootInv, IdleInv
  <2>3. ASSUME ~vm[Root].error, \A i \in 1 .. n - 1 : active[i].vm # Root
        PROVE  vm[Root].frames = <<>>
    <3>1. Top.frames = <<>>
      BY <1>2, <2>3 DEF RootInv, IdleInv
    <3>2. Len(vm[Root].frames) = Len(Top.frames)
      BY <1>2, <1>16, <2>2, <2>3 DEF CallControl, CleanControl
    <3>3. vm[Root].frames \in Frames
      BY <1>3 DEF MachineRecords
    <3> QED
      BY <3>1, <3>2, <3>3, EmptySeq DEF Frames
  <2>4. ASSUME NEW i \in 1 .. n - 1, ~vm[Root].error, active[i].why = "call",
               \A j \in 1 .. i - 1 : active'[j].vm # Root
        PROVE  active[i].frames = <<>>
    <3>1. i \in 1 .. n /\ \A j \in 1 .. i - 1 : active[j].vm # Root
      BY <1>2, <1>5, <2>4
    <3> QED
      BY <1>2, <2>4, <3>1 DEF RootInv, IdleInv
  <2>5. ASSUME ~vm[Root].error, Innermost(1)'
        PROVE  HostControl(t, active[1], n - 1 - 1)
    <3>1. 1 \in 1 .. n - 1 /\ active[1].vm = Root
      BY <1>2, <1>4, <1>5, <2>5 DEF Innermost
    <3>2. n - 1 # 1
      BY <1>4, <3>1 DEF h
    <3>3. vm[Root].cc = Fake
      BY <1>2, <1>16, <2>2, <2>5 DEF CallControl, CleanControl
    <3>4. \A x \in Nat : x > 1 /\ x - 1 # 1 => x - 1 - 1 > 0
      OBVIOUS
    <3>5. n - 1 - 1 > 0
      BY <1>2, <1>4, <3>2, <3>4
    <3> QED
      BY <2>1, <3>3, <3>5 DEF HostControl
  <2>6. 1 \in 1 .. n - 1 /\ active'[1] = active[1]
    BY <1>2, <1>4, <1>5
  <2> QED
    BY <1>5, <1>10, <2>1, <2>2, <2>3, <2>4, <2>5, <2>6 DEF IdleInv
<1> QED
  BY <1>11, <1>13, <1>14, <1>15, <1>18, <1>19, <1>22, <1>23 DEF IInv, Inner, RootInv

(* The script that interrupt 3 has executed has ended.  It was above every *)
(* run of its parent, so nothing that is left refers to its machine.       *)
LEMMA ToInterruptIInv ==
  ASSUME IInv, ToInterrupt
  PROVE  IInv'
<1> DEFINE n == Len(active)
           p == active[n - 1].vm
           bad == [vm[p] EXCEPT !.error = TRUE]
           next == [vm[p] EXCEPT !.cc = (@ + 1) % CcMod]
           failed == [active[n - 1] EXCEPT !.ended = TRUE, !.failed = TRUE]
<1>1. Ended("execute") /\ UNCHANGED <<status, lost>>
  BY DEF ToInterrupt
<1>2. /\ TypeOK /\ Inner /\ RootInv /\ n \in Nat /\ n > 0 /\ active[n] = Top
      /\ Top \in RunRecords /\ Top.ended /\ Top.why = "execute" /\ Top.vm = M
      /\ M \in DOMAIN vm /\ Me = vm[M] /\ Me \in MachineRecords
      /\ \A i \in 1 .. n : RunInv(i) /\ (i < n => ~active[i].ended /\ ~active[i].failed)
  BY <1>1, EndedFacts
<1>3. /\ Root \in DOMAIN vm /\ DOMAIN vm \subseteq Machines
      /\ \A x \in DOMAIN vm : vm[x] \in MachineRecords
      /\ vm \in [DOMAIN vm -> MachineRecords] /\ active \in Seq(RunRecords)
  BY <1>2 DEF TypeOK
<1>4. /\ n > 1 /\ n - 1 \in 1 .. n /\ n - 1 \in 1 .. n - 1
      /\ Me.parent = p /\ p \in DOMAIN vm /\ p # M /\ M # Root
      /\ \A j \in 1 .. n - 1 : active[j].vm # M /\ vm[active[j].vm].parent # M
  <2>1. RunInv(n) /\ n # 1 /\ active[n].why = "execute" /\ active[n].vm = M
    BY <1>2 DEF RunInv
  <2>2. n - 1 \in 1 .. n /\ n - 1 \in 1 .. n - 1 /\ n > 1
    <3>1. \A x \in Nat : x > 0 /\ x # 1 =>
                           x - 1 \in 1 .. x /\ x - 1 \in 1 .. x - 1 /\ x > 1
      OBVIOUS
    <3> QED
      BY <1>2, <2>1, <3>1
  <2>3. RunInv(n - 1)
    BY <1>2, <2>2
  <2>4. Me.parent = p /\ \A j \in 1 .. n - 1 : active[j].vm # M /\ vm[active[j].vm].parent # M
    BY <1>2, <2>1 DEF RunInv
  <2>5. p \in DOMAIN vm /\ p # None
    BY <1>3, <2>3, RootFacts DEF RunInv
  <2> QED
    BY <1>2, <2>2, <2>4, <2>5, RootFacts DEF Inner, ParentInv
<1>5. active[n - 1] \in RunRecords /\ vm[p] \in MachineRecords
  BY <1>2, <1>3, <1>4, ElementOfSeq
<1>6. /\ failed \in RunRecords /\ failed.vm = p /\ failed.why = active[n - 1].why
      /\ failed.frames = active[n - 1].frames /\ failed.ended /\ failed.failed
      /\ failed.result = active[n - 1].result
  BY <1>5 DEF RunRecords
<1>7. /\ bad \in MachineRecords /\ bad.parent = vm[p].parent /\ bad.cc = vm[p].cc
      /\ bad.frames = vm[p].frames /\ bad.error /\ bad.rv = vm[p].rv
  BY <1>5 DEF MachineRecords
<1>8. vm[p].cc \in {2, 4, 8, LeaveAt, Fake}
  <2>1. active[n - 1].vm = Root => Innermost(n - 1)
    <3>1. \A j \in n - 1 + 1 .. n : j = n
      BY <1>2
    <3> QED
      BY <1>2, <1>4, <3>1 DEF Innermost
  <2>2. n - 1 + 1 = n
    BY <1>2
  <2> QED
    BY <1>2, <1>4, <2>1, <2>2 DEF Inner, WaitingInv
<1>9. /\ next \in MachineRecords /\ next.parent = vm[p].parent /\ next.frames = vm[p].frames
      /\ next.error = vm[p].error /\ next.rv = vm[p].rv
      /\ vm[p].cc = 2 => next.cc = 3
      /\ vm[p].cc = 4 => next.cc = 5
      /\ vm[p].cc = 8 => next.cc = 9
      /\ vm[p].cc = LeaveAt => next.cc = LeaveAt + 1
      /\ vm[p].cc = Fake => next.cc = Header
  <2> DEFINE a == (vm[p].cc + 1) % CcMod
  <2>1. /\ a \in Addresses
        /\ vm[p].cc = 2 => a = 3
        /\ vm[p].cc = 4 => a = 5
        /\ vm[p].cc = 8 => a = 9
        /\ vm[p].cc = LeaveAt => a = LeaveAt + 1
        /\ vm[p].cc = Fake => a = Header
    <3>1. 3 % 13 = 3 /\ 5 % 13 = 5 /\ 9 % 13 = 9 /\ 10 % 13 = 10 /\ 13 % 13 = 0
      OBVIOUS
    <3> QED
      BY <1>8, <3>1 DEF LeaveAt, Fake, Header, CcMod, Addresses
  <2>2. next = [vm[p] EXCEPT !.cc = a]
    OBVIOUS
  <2> HIDE DEF a
  <2> QED
    BY <1>5, <2>1, <2>2 DEF MachineRecords
<1> HIDE DEF bad, next, failed
<1>10. PICK c \in {bad, next}, r \in {failed, active[n - 1]} :
         /\ vm' = [Without(M) EXCEPT ![p] = c]
         /\ \/ c = bad /\ r = failed
            \/ c = next /\ r = active[n - 1]
         /\ Me.error <=> r = failed /\ c = bad
         /\ active' \in Seq(RunRecords) /\ Len(active') = n - 1
         /\ \A i \in 1 .. n - 1 : active'[i] = IF i = n - 1 THEN r ELSE active[i]
  <2> DEFINE F == Front(active)
  <2>1. /\ F \in Seq(RunRecords) /\ Len(F) = n - 1
        /\ \A i \in 1 .. n - 1 : F[i] = active[i]
    BY <1>1, EndedFacts
  <2>2. Without(M)[p] = vm[p] /\ Me.error \in BOOLEAN
    BY <1>2, <1>4 DEF Without, MachineRecords
  <2>3. CASE Me.error
    <3>1. /\ vm' = [Without(M) EXCEPT ![p] = bad]
          /\ active' = [F EXCEPT ![n - 1] = failed]
      BY <1>4, <2>1, <2>2, <2>3 DEF ToInterrupt, bad, failed
    <3> HIDE DEF F
    <3>2. /\ active' \in Seq(RunRecords) /\ Len(active') = n - 1
          /\ \A i \in 1 .. n - 1 : active'[i] = IF i = n - 1 THEN failed ELSE active[i]
      BY <1>4, <1>6, <2>1, <3>1, ExceptSeq
    <3> QED
      BY <2>3, <3>1, <3>2
  <2>4. CASE ~Me.error
    <3>1. vm' = [Without(M) EXCEPT ![p] = next] /\ active' = F
      BY <1>4, <2>1, <2>2, <2>4 DEF ToInterrupt, next
    <3>2. active[n - 1] # failed
      BY <1>2, <1>4, <1>6
    <3> QED
      BY <2>1, <2>4, <3>1, <3>2
  <2> QED
    BY <2>2, <2>3, <2>4
<1>11. /\ c \in MachineRecords /\ c.parent = vm[p].parent /\ c.frames = vm[p].frames
       /\ c.rv = vm[p].rv /\ (vm[p].error => c.error) /\ (r.failed => c.error)
       /\ r.vm = p /\ r.why = active[n - 1].why /\ r.frames = active[n - 1].frames
       /\ r.result = active[n - 1].result /\ (r.failed <=> r.ended)
       /\ r.ended => c = bad /\ r = failed
  BY <1>2, <1>4, <1>6, <1>7, <1>9, <1>10
<1> DEFINE D == DOMAIN vm \ {M}
<1>12. /\ DOMAIN vm' = D /\ vm' \in [D -> MachineRecords]
       /\ \A x \in D : vm'[x] = IF x = p THEN c ELSE vm[x]
       /\ p \in D /\ Root \in D
  BY <1>3, <1>4, <1>10, <1>11 DEF Without
<1>13. \A x \in D : vm'[x].parent = vm[x].parent /\ vm'[x].frames = vm[x].frames
                   /\ (vm[x].error => vm'[x].error)
  BY <1>11, <1>12
<1>14. \A i \in 1 .. n - 1 :
         /\ i \in 1 .. n /\ active'[i].vm = active[i].vm /\ active'[i].why = active[i].why
         /\ active'[i].frames = active[i].frames /\ active'[i].result = active[i].result
         /\ active[i].vm \in D
  <2>1. \A i \in 1 .. n - 1 : i \in 1 .. n
    BY <1>2
  <2> QED
    BY <1>2, <1>4, <1>10, <1>11, <2>1 DEF RunInv
<1>15. TypeOK'
  BY <1>1, <1>2, <1>3, <1>10, <1>12 DEF TypeOK
<1>16. ParentInv'
  <2>1. ASSUME NEW x \in D, x # Root
        PROVE  /\ \E i \in 1 .. n - 1 : active[i].vm = x
               /\ vm[x].parent \in D
    <3>1. PICK i \in 1 .. n : active[i].vm = x
      BY <2>1 , <1>2 DEF Inner, ParentInv
    <3>2. i \in 1 .. n - 1
      BY <1>2, <2>1, <3>1
    <3> QED
      BY <1>2, <1>4, <2>1, <3>1, <3>2 DEF Inner, ParentInv
  <2>2. ASSUME NEW x \in D
        PROVE  /\ x = Root <=> vm[x].parent = None
               /\ x # Root => /\ vm[x].parent \in D
                              /\ \E i \in 1 .. n - 1 : active'[i].vm = x
    <3>1. x = Root <=> vm[x].parent = None
      BY <1>2, <2>2 DEF Inner, ParentInv
    <3> QED
      BY <1>14, <2>1, <2>2, <3>1
  <2> QED
    BY <1>10, <1>12, <1>13, <2>2 DEF ParentInv
<1>17. RunsInv'
  <2> SUFFICES ASSUME NEW i \in 1 .. n - 1
               PROVE  RunInv(i)'
    BY <1>10 DEF RunsInv
  <2>1. /\ i \in 1 .. n /\ RunInv(i) /\ (i # 1 => i - 1 \in 1 .. n - 1)
        /\ \A j \in 1 .. i - 1 : j \in 1 .. n - 1
        /\ i < n /\ ~active[i].ended /\ ~active[i].failed
        /\ i # n - 1 => active'[i] = active[i]
    <3>1. i \in 1 .. n /\ i < n /\ (i # 1 => i - 1 \in 1 .. n - 1)
          /\ \A j \in 1 .. i - 1 : j \in 1 .. n - 1
      BY <1>2
    <3> QED
      BY <1>2, <1>10, <3>1
  <2>2. active'[i].ended => i = n - 1
    BY <2>1
  <2>3. active'[i].failed => active'[i].ended /\ vm'[active'[i].vm].error
    BY <1>10, <1>11, <1>12, <2>1
  <2>4. \A j \in 1 .. n - 1 :
          active'[j].vm = active[j].vm /\ active[j].vm \in D
          /\ vm'[active'[j].vm].parent = vm[active[j].vm].parent
    BY <1>13, <1>14
  <2> HIDE DEF D
  <2>5. active[i].why = "execute" =>
          /\ active'[i - 1].vm = active[i - 1].vm
          /\ \A j \in 1 .. i - 1 : /\ active'[j].vm # active[i].vm
                                  /\ vm'[active'[j].vm].parent # active[i].vm
    BY <2>1, <2>4 DEF RunInv
  <2>6. active[i].why = "call" =>
          active[i].vm = Root /\ vm'[active'[i - 1].vm].parent = Root
    BY <2>1, <2>4 DEF RunInv
  <2>7. active'[i].why = active[i].why /\ active'[i].vm = active[i].vm
    BY <1>14
  <2> QED
    BY <1>10, <1>12, <2>1, <2>2, <2>3, <2>4, <2>5, <2>6, <2>7 DEF RunInv
<1>18. PlacesInv'
  <2>1. Places(c)
    <3>1. Places(vm[p])
      BY <1>2, <1>4 DEF Inner, PlacesInv
    <3>2. c = bad => c.cc = vm[p].cc
      BY <1>7
    <3>3. c = next => /\ vm[p].cc \in {2, 4, Fake} => c.cc \in {3, 5, Header}
                      /\ vm[p].cc \in {8, LeaveAt} => vm[p].cc \in MethodAt .. LeaveAt + 1
      BY <1>9 DEF MethodAt, LeaveAt
    <3>4. c.cc \in MethodAt .. LeaveAt + 1 => vm[p].cc \in MethodAt .. LeaveAt + 1
      BY <1>8, <1>10, <3>2, <3>3 DEF MethodAt, LeaveAt, Header
    <3> QED
      BY <1>11, <3>1, <3>4 DEF Places
  <2> QED
    BY <1>2, <1>12, <2>1 DEF Inner, PlacesInv
<1>19. \A i \in 1 .. n - 1 : Innermost(i)' <=> Innermost(i)
  <2> SUFFICES ASSUME NEW i \in 1 .. n - 1
               PROVE  (\A j \in i + 1 .. n - 1 : active'[j].vm # Root)
                      <=> (\A j \in i + 1 .. n : active[j].vm # Root)
    BY <1>10, <1>14 DEF Innermost
  <2>1. \A j \in i + 1 .. n : j = n \/ j \in i + 1 .. n - 1
    BY <1>2
  <2>2. \A j \in i + 1 .. n - 1 : j \in i + 1 .. n /\ j \in 1 .. n - 1
    BY <1>2
  <2> QED
    BY <1>2, <1>4, <1>14, <2>1, <2>2
<1>20. WaitingInv'
  <2> SUFFICES ASSUME NEW i \in 1 .. n - 2, active'[i + 1].why = "execute",
                      active'[i].vm = Root => Innermost(i)'
               PROVE  vm'[active'[i].vm].cc \in {2, 4, 8, LeaveAt, Fake}
    <3>1. n - 1 - 1 = n - 2
      BY <1>2
    <3> QED
      BY <1>10, <3>1 DEF WaitingInv
  <2>1. /\ i \in 1 .. n - 1 /\ i + 1 \in 1 .. n - 1 /\ n - 1 \in i + 1 .. n - 1
        /\ n - 1 \in i + 1 .. n /\ i \in 1 .. n - 1 - 1 /\ n - 1 # 1
    BY <1>2
  <2>2. vm[active[i].vm].cc \in {2, 4, 8, LeaveAt, Fake}
    BY <1>2, <1>14, <1>19, <2>1 DEF Inner, WaitingInv
  <2>3. active[i].vm # p
    <3>1. active[i].vm = Root => p # Root
      BY <1>14, <1>19, <2>1 DEF Innermost
    <3>2. RunInv(n - 1) /\ active[n - 1].why \in {"host", "execute", "call"}
      BY <1>2, <1>4, <1>5 DEF RunRecords
    <3> QED
      BY <2>1, <3>1, <3>2 DEF RunInv
  <2> QED
    BY <1>12, <1>14, <2>1, <2>2, <2>3
<1>21. NestedInv'
  <2> SUFFICES ASSUME NEW i \in 1 .. n - 1, NEW j \in 1 .. n - 1, i < j,
                      active[i].why = "call", active[j].why = "call",
                      \A k \in i + 1 .. j - 1 : active'[k].vm # Root
               PROVE  /\ Above(active[j].frames, active[i].frames)
                      /\ Len(active[j].frames) > Len(active[i].frames)
                      /\ ~lost => Clean(active[j].frames, active[i].frames)
    BY <1>1, <1>10, <1>14 DEF NestedInv
  <2>1. i \in 1 .. n /\ j \in 1 .. n /\ \A k \in i + 1 .. j - 1 : active[k].vm # Root
    <3>1. i \in 1 .. n /\ j \in 1 .. n /\ \A k \in i + 1 .. j - 1 : k \in 1 .. n - 1
      BY <1>2
    <3> QED
      BY <1>14, <3>1
  <2> QED
    BY <1>2, <2>1 DEF RootInv, NestedInv
<1>22. OpenCallInv'
  <2> SUFFICES ASSUME NEW i \in 1 .. n - 1, active[i].why = "call"
               PROVE  /\ Innermost(i) => CallControl(vm'[Root], active'[i], n - 1 - i)
                      /\ Innermost(i) /\ ~lost /\ ~active'[i].failed =>
                           CleanControl(vm'[Root], active'[i], n - 1 - i)
                      /\ ~Innermost(i) /\ ~lost => active[i].result = NoResult
    <3>1. lost' = lost
      BY <1>1
    <3>2. \A j \in 1 .. n - 1 : active'[j].why = active[j].why /\ active'[j].result = active[j].result
      BY <1>14
    <3> QED
      BY <1>10, <1>19, <3>1, <3>2 DEF OpenCallInv
  <2>1. i \in 1 .. n /\ i < n /\ active[i].vm = Root /\ ~active[i].failed /\ ~active[i].ended
    BY <1>2, <1>14 DEF RunInv
  <2>2. /\ Innermost(i) => CallControl(vm[Root], active[i], n - i)
        /\ Innermost(i) /\ ~lost => CleanControl(vm[Root], active[i], n - i)
        /\ ~Innermost(i) /\ ~lost => active[i].result = NoResult
    BY <1>2, <2>1 DEF RootInv, OpenCallInv
  <2>3. n - i > 0 /\ n - i # 0
    BY <1>2, <2>1
  <2>4. CASE p # Root
    <3>1. vm'[Root] = vm[Root]
      BY <1>12, <2>4
    <3>2. i # n - 1
      BY <2>1, <2>4
    <3>3. n - 1 - i > 0
      BY <1>2, <3>2
    <3>4. active'[i] = active[i]
      BY <1>10, <3>2
    <3>5. Innermost(i) => CallControl(vm'[Root], active'[i], n - 1 - i)
      BY <2>2, <2>3, <3>1, <3>4 DEF CallControl
    <3>6. Innermost(i) /\ ~lost => CleanControl(vm'[Root], active'[i], n - 1 - i)
      BY <2>2, <2>3, <3>1, <3>3, <3>4 DEF CleanControl
    <3> QED
      BY <2>2, <3>5, <3>6
  <2>5. CASE p = Root
    <3> SUFFICES ASSUME Innermost(i)
                 PROVE  /\ CallControl(c, r, 0)
                        /\ ~lost /\ ~r.failed => CleanControl(c, r, 0)
      <4>1. Innermost(i) => i = n - 1
        <5>1. i # n - 1 => n - 1 \in i + 1 .. n
          BY <1>2
        <5> QED
          BY <2>5, <5>1 DEF Innermost
      <4>2. Innermost(i) => n - 1 - i = 0 /\ active'[i] = r /\ vm'[Root] = c
        BY <1>2, <1>4, <1>10, <1>12, <2>5, <4>1
      <4> QED
        BY <2>2, <4>2
    <3>1. i = n - 1
      <4>1. i # n - 1 => n - 1 \in i + 1 .. n
        BY <1>2
      <4> QED
        BY <2>5, <4>1 DEF Innermost
    <3>2. /\ r.frames = active[i].frames /\ r.result = active[i].result
          /\ c.frames = vm[Root].frames
      BY <1>11, <2>5, <3>1
    <3>3. /\ CallControl(vm[Root], active[i], n - i)
          /\ ~lost => CleanControl(vm[Root], active[i], n - i)
      BY <2>2
    <3>4. vm[Root].cc \in {8, LeaveAt, Fake}
      BY <1>8, <2>5, <3>3 DEF CallControl, Header, MethodAt, LeaveAt, Fake, CcMod
    <3>5. c.cc \in {Header, Fake} \cup MethodAt .. LeaveAt + 1
      BY <1>7, <1>9, <1>10, <2>5, <3>4 DEF Header, MethodAt, LeaveAt, Fake, CcMod
    <3>6. r.ended => c.cc \in {8, LeaveAt, Fake}
      BY <1>7, <1>11, <2>5, <3>4
    <3>7. CallControl(c, r, 0)
      BY <2>3, <3>2, <3>3, <3>5, <3>6 DEF CallControl
    <3>8. ASSUME ~lost, ~r.failed PROVE CleanControl(c, r, 0)
      <4>1. c = next
        BY <1>6, <1>10, <3>8
      <4>2. vm[Root].cc \in {8, Fake} /\ active[i].result = NoResult
        BY <2>3, <3>3, <3>8 DEF CleanControl
      <4>3. c.cc \in {LeaveAt, Header}
        BY <1>9, <2>5, <4>1, <4>2 DEF LeaveAt
      <4>4. c.cc # LeaveAt + 1 /\ c.cc # Fake
        BY <4>3 DEF LeaveAt, Header, Fake, CcMod
      <4>5. Clean(c.frames, r.frames)
        BY <3>2, <3>3, <3>8 DEF CleanControl
      <4>6. ~r.ended /\ r.result = NoResult
        BY <1>11, <3>2, <3>8, <4>2
      <4> QED
        BY <4>4, <4>5, <4>6 DEF CleanControl
    <3> QED
      BY <3>7, <3>8
  <2> QED
    BY <2>4, <2>5
<1>23. IdleInv'
  <2>1. \A i \in 1 .. n : i = n \/ i \in 1 .. n - 1
    BY <1>2
  <2>2. vm'[Root].frames = vm[Root].frames /\ (vm[Root].error => vm'[Root].error)
    BY <1>12, <1>13
  <2>3. ASSUME ~vm[Root].error, \A i \in 1 .. n - 1 : active'[i].vm # Root
        PROVE  vm[Root].frames = <<>>
    <3>1. \A i \in 1 .. n : active[i].vm # Root
      BY <1>2, <1>4, <1>14, <2>1, <2>3
    <3> QED
      BY <1>2, <2>3, <3>1 DEF RootInv, IdleInv
  <2>4. ASSUME NEW i \in 1 .. n - 1, ~vm[Root].error, active[i].why = "call",
               \A j \in 1 .. i - 1 : active'[j].vm # Root
        PROVE  active[i].frames = <<>>
    <3>1. i \in 1 .. n /\ \A j \in 1 .. i - 1 : j \in 1 .. n - 1
      BY <1>2
    <3>2. \A j \in 1 .. i - 1 : active[j].vm # Root
      BY <1>14, <2>4, <3>1
    <3> QED
      BY <1>2, <2>4, <3>1, <3>2 DEF RootInv, IdleInv
  <2>5. ASSUME ~vm'[Root].error, Innermost(1)
        PROVE  HostControl(vm'[Root], active'[1], n - 1 - 1)
    <3>1. n > 0 /\ n - 1 > 0 /\ 1 \in 1 .. n /\ 1 \in 1 .. n - 1 /\ 1 < n /\ ~vm[Root].error
      BY <1>2, <1>4, <2>2, <2>5
    <3>2. HostControl(vm[Root], active[1], n - 1) /\ ~active[1].ended /\ active[1].vm = Root
      BY <1>2, <2>5, <3>1 DEF RootInv, IdleInv, Innermost
    <3>3. CASE p # Root
      <4>1. n - 1 # 1
        BY <3>2, <3>3
      <4>2. \A x \in Nat : x > 1 /\ x - 1 # 1 => x - 1 - 1 > 0
        OBVIOUS
      <4>3. n - 1 - 1 > 0
        BY <1>2, <1>4, <4>1, <4>2
      <4>4. vm'[Root] = vm[Root] /\ active'[1] = active[1]
        BY <1>10, <1>12, <3>1, <3>3, <4>1
      <4> QED
        BY <3>1, <3>2, <4>3, <4>4 DEF HostControl
    <3>4. CASE p = Root
      <4>1. n - 1 = 1
        <5>1. \A x \in Nat : x > 1 /\ x - 1 # 1 => x - 1 \in 1 + 1 .. x
          OBVIOUS
        <5> QED
          BY <1>2, <1>4, <2>5, <3>4, <5>1 DEF Innermost
      <4>2. vm'[Root] = c /\ active'[1] = r /\ c # bad
        BY <1>7, <1>10, <1>12, <2>5, <3>1, <3>4, <4>1
      <4>3. c = next /\ r = active[1]
        BY <1>10, <4>1, <4>2
      <4>4. HostControl(c, active[1], 0) => HostControl(vm'[Root], active'[1], n - 1 - 1)
        <5>1. n - 1 - 1 = 0
          BY <1>2, <4>1
        <5> QED
          BY <4>2, <4>3, <5>1
      <4>5. vm[Root].cc \in {2, 4, 8, Fake}
        BY <3>1, <3>2 DEF HostControl
      <4>6. c.frames = vm[Root].frames
        BY <1>11, <3>4
      <4>7. CASE vm[Root].cc = Fake
        <5>1. c.cc = Header
          BY <1>9, <3>4, <4>3, <4>7
        <5> QED
          BY <3>2, <4>4, <5>1 DEF HostControl
      <4>8. CASE vm[Root].cc = 8
        <5>1. c.cc = LeaveAt
          BY <1>9, <3>4, <4>3, <4>8 DEF LeaveAt
        <5>2. /\ Len(c.frames) > 0
              /\ \A k \in 1 .. Len(c.frames) :
                   c.frames[k].ret \in IF k = 1 THEN {3, ExitAt} ELSE {LeaveAt}
          BY <3>2, <4>6, <4>8 DEF HostControl, First, ExitAt, Header, Fake, CcMod
        <5> QED
          BY <3>2, <4>4, <5>1, <5>2 DEF HostControl, MethodAt, LeaveAt
      <4>9. CASE vm[Root].cc \in {2, 4}
        <5>1. c.cc \in {3, 5}
          BY <1>9, <3>4, <4>3, <4>9
        <5>2. c.frames = <<>>
          BY <3>2, <4>6, <4>9 DEF HostControl, MethodAt, LeaveAt, Header, Fake, CcMod
        <5> QED
          BY <4>4, <5>1, <5>2 DEF HostControl, First, ExitAt
      <4> QED
        BY <4>5, <4>7, <4>8, <4>9
    <3> QED
      BY <3>3, <3>4
  <2>6. 1 \in 1 .. n - 1 /\ (Innermost(1)' <=> Innermost(1))
    BY <1>2, <1>4, <1>19
  <2>7. ~vm[Root].error => ~lost
    BY <1>2 DEF RootInv, IdleInv
  <2> QED
    BY <1>1, <1>10, <1>14, <2>2, <2>3, <2>4, <2>5, <2>6, <2>7 DEF IdleInv
<1> QED
  BY <1>15, <1>16, <1>17, <1>18, <1>20, <1>21, <1>22, <1>23 DEF IInv, Inner, RootInv

-----------------------------------------------------------------------------
(* The host has started its script in the root.                            *)
LEMMA InitIInv == Init => IInv
<1> SUFFICES ASSUME Init PROVE IInv
  OBVIOUS
<1> DEFINE r == Child(Root, "host")
<1>1. /\ vm = [i \in {Root} |-> New(None)] /\ active = <<r>>
      /\ status = "running" /\ lost = FALSE
  BY DEF Init
<1>2. <<>> \in Frames /\ First \in Addresses
  BY EmptySeq DEF Frames, First, Addresses, CcMod
<1>3. New(None) \in MachineRecords
  BY <1>2 DEF New, MachineRecords
<1>4. New(None).parent = None /\ New(None).cc = First /\ New(None).frames = <<>>
  BY DEF New
<1>5. r \in RunRecords
  BY <1>2, RootFacts DEF Child, RunRecords
<1>6. r.vm = Root /\ r.why = "host" /\ ~r.ended /\ ~r.failed
  BY DEF Child
<1> HIDE DEF r
<1>7. /\ DOMAIN vm = {Root} /\ vm[Root] = New(None)
      /\ vm \in [{Root} -> MachineRecords]
  BY <1>1, <1>3
<1>8. Len(active) = 1 /\ active \in Seq(RunRecords) /\ active[1] = r
  BY <1>1, <1>5
<1>9. TypeOK
  BY <1>1, <1>7, <1>8, RootFacts DEF TypeOK
<1>10. ParentInv
  BY <1>4, <1>7 DEF ParentInv
<1>11. RunsInv
  <2>1. ASSUME NEW i, i = 1
        PROVE  RunInv(i)
    BY <1>4, <1>6, <1>7, <1>8, <2>1 DEF RunInv
  <2> QED
    BY <1>8, <2>1 DEF RunsInv
<1>12. PlacesInv
  BY <1>4, <1>7 DEF PlacesInv, Places, First, MethodAt, LeaveAt
<1>13. WaitingInv
  BY <1>8 DEF WaitingInv
<1>14. NestedInv /\ OpenCallInv
  BY <1>6, <1>8 DEF NestedInv, OpenCallInv
<1>15. IdleInv
  <2>1. Len(active) - 1 = 0
    BY <1>8
  <2>2. HostControl(vm[Root], active[1], 0)
    BY <1>4, <1>7 DEF HostControl, First, ExitAt
  <2> QED
    BY <1>1, <1>4, <1>6, <1>7, <1>8, <2>1, <2>2 DEF IdleInv
<1> QED
  BY <1>9, <1>10, <1>11, <1>12, <1>13, <1>14, <1>15 DEF IInv, Inner, RootInv

(* Nothing in the invariant is lost when nothing happens.                  *)
LEMMA StutterIInv == IInv /\ UNCHANGED vars => IInv'
<1> SUFFICES ASSUME IInv, UNCHANGED vars PROVE IInv'
  OBVIOUS
<1>1. vm' = vm /\ active' = active /\ status' = status /\ lost' = lost
  BY DEF vars
<1>2. TypeOK'
  BY <1>1 DEF IInv, TypeOK
<1>3. ParentInv'
  BY <1>1 DEF IInv, Inner, ParentInv
<1>4. RunsInv'
  BY <1>1 DEF IInv, Inner, RunsInv, RunInv
<1>5. PlacesInv'
  BY <1>1 DEF IInv, Inner, PlacesInv
<1>6. \A i : Innermost(i)' <=> Innermost(i)
  BY <1>1 DEF Innermost
<1>7. WaitingInv'
  BY <1>1, <1>6 DEF IInv, Inner, WaitingInv
<1>8. NestedInv'
  BY <1>1 DEF IInv, RootInv, NestedInv
<1>9. OpenCallInv'
  BY <1>1, <1>6 DEF IInv, RootInv, OpenCallInv
<1>10. IdleInv'
  BY <1>1, <1>6 DEF IInv, RootInv, IdleInv
<1> QED
  BY <1>2, <1>3, <1>4, <1>5, <1>7, <1>8, <1>9, <1>10 DEF IInv, Inner, RootInv

(* Every instruction, every return of the C code and every call of the     *)
(* host preserves the invariant.                                           *)
LEMMA NextIInv ==
  ASSUME IInv, Next
  PROVE  IInv'
<1>1. CASE \E d \in {0, 1} : Work(d)
  BY <1>1, WorkIInv
<1>2. CASE \E read \in {1, 2} : Fail(read)
  BY <1>2, FailIInv
<1>3. CASE Call
  BY <1>3, CallIInv
<1>4. CASE CallParent
  BY <1>4, CallParentIInv
<1>5. CASE CallMissing
  BY <1>5, CallMissingIInv
<1>6. CASE \E x \in Results : Return(x)
  BY <1>6, ReturnIInv
<1>7. CASE Leave
  BY <1>7, LeaveIInv
<1>8. CASE Exit \/ LoopEnds
  BY <1>8, EndIInv
<1>9. CASE Astray
  BY <1>9, AstrayIInv
<1>10. CASE \E m \in Free : Execute(m)
  BY <1>10, ExecuteIInv
<1>11. CASE CannotCreate
  BY <1>11, CannotCreateIInv
<1>12. CASE ToInterrupt
  BY <1>12, ToInterruptIInv
<1>13. CASE ToCaller
  BY <1>13, ToCallerIInv
<1>14. CASE ToHost
  BY <1>14, ToHostIInv
<1>15. CASE \E m \in Free : HostExecute(m)
  BY <1>15, HostExecuteIInv
<1> QED
  BY <1>1, <1>2, <1>3, <1>4, <1>5, <1>6, <1>7, <1>8, <1>9, <1>10, <1>11, <1>12, <1>13,
     <1>14, <1>15 DEF Next

(* The inductive invariant holds of every behaviour.                       *)
THEOREM Invariance == Spec => []IInv
<1>1. IInv /\ [Next]_vars => IInv'
  BY NextIInv, StutterIInv
<1> QED
  BY InitIInv, <1>1, PTL DEF Spec

(* However deep scripts execute scripts and call functions of their        *)
(* parents, the machine of a run in progress and its parent are alive.     *)
THEOREM RunningMachinesAreLive == Spec => []RunningMachinesLive
<1>1. IInv => RunningMachinesLive
  BY RootFacts DEF IInv, Inner, RunsInv, RunInv, ParentInv, RunningMachinesLive
<1> QED
  BY Invariance, <1>1, PTL

(* When no run is in progress every child has been freed: no script leaves *)
(* its machine behind, however it ended.                                   *)
OnlyRootIsLeft == active = <<>> => DOMAIN vm = {Root}

(* nap_runtime_execute and nap_execute_code leave no child alive.          *)
THEOREM OnlyTheRootIsLeft == Spec => []OnlyRootIsLeft
<1>1. IInv => OnlyRootIsLeft
  BY DEF IInv, TypeOK, Inner, ParentInv, OnlyRootIsLeft
<1> QED
  BY Invariance, <1>1, PTL

(* As long as nothing in the root has failed, it has no open call when the *)
(* host has control.                                                       *)
THEOREM IdleRootIsClear == Spec => []IdleRootHasNoFrames
<1>1. IInv => IdleRootHasNoFrames
  BY DEF IInv, RootInv, IdleInv, IdleRootHasNoFrames
<1> QED
  BY Invariance, <1>1, PTL

-----------------------------------------------------------------------------
(* Only the C code behind an ended run removes a run.                      *)
LEMMA OnlyEndedRunsAreLeft ==
  ASSUME IInv, [Next]_vars, Len(active') < Len(active)
  PROVE  ToInterrupt \/ ToCaller \/ ToHost
<1>1. active \in Seq(RunRecords) /\ Len(active) \in Nat
  BY LenProperties DEF IInv, TypeOK
<1>2. ASSUME NEW failure, End(failure)
      PROVE  Len(active') = Len(active)
  BY <1>1, <1>2 DEF End
<1>3. ASSUME NEW r, active' = Append(active, r)
      PROVE  Len(active') = Len(active) + 1
  BY <1>1, <1>3
<1>4. ASSUME NEW x, Return(x)
      PROVE  Len(active') = Len(active)
  BY <1>1, <1>4 DEF Return
<1>5. ASSUME NEW m \in Free, HostExecute(m)
      PROVE  Len(active) = 0 /\ Len(active') = 1
  BY <1>5 DEF HostExecute
<1>6. CASE UNCHANGED vars
  BY <1>1, <1>6 DEF vars
<1>7. CASE \/ \E d \in {0, 1} : Work(d)
           \/ Call \/ Leave \/ Astray
  BY <1>1, <1>7 DEF Work, Call, Leave, Astray
<1>8. CASE \/ \E read \in {1, 2} : Fail(read)
           \/ CallMissing \/ Exit \/ LoopEnds \/ CannotCreate
  <2>1. \E failure : End(failure)
    BY <1>8 DEF Fail, CallMissing, Exit, LoopEnds, CannotCreate
  <2> QED
    BY <1>1, <1>2, <2>1
<1>9. CASE CallParent \/ \E m \in Free : Execute(m)
  <2>1. \E r : active' = Append(active, r)
    BY <1>9 DEF CallParent, Execute
  <2> QED
    BY <1>1, <1>3, <2>1
<1>10. CASE \/ \E x \in Results : Return(x)
            \/ \E m \in Free : HostExecute(m)
  BY <1>1, <1>4, <1>5, <1>10
<1> QED
  BY <1>6, <1>7, <1>8, <1>9, <1>10 DEF Next

(* Behind a call from a child the root has its old stack and base pointer, *)
(* and the child has the return value of the root; unless a function has   *)
(* failed, the call frames are the old ones and the value is the result.   *)
LEMMA CallReturns ==
  ASSUME IInv, ToCaller
  PROVE  /\ vm'[M].sp = Top.sp /\ vm'[M].bp = Top.bp
         /\ ~lost' => vm'[M].frames = Top.frames
         /\ ~lost' /\ Top.result # NoResult => vm'[Last(active').vm].rv = Top.result
<1> DEFINE n == Len(active)
           h == active[n - 1].vm
           g == Top.frames
<1>1. Ended("call") /\ active' = Front(active) /\ lost' = (lost \/ Top.failed)
  BY DEF ToCaller
<1>2. /\ TypeOK /\ Inner /\ RootInv /\ n \in Nat /\ n > 0 /\ active[n] = Top
      /\ Top \in RunRecords /\ Top.ended /\ Top.why = "call" /\ Top.vm = M
      /\ \A i \in 1 .. n : RunInv(i)
  BY <1>1, EndedFacts
<1>3. /\ vm \in [DOMAIN vm -> MachineRecords] /\ Root \in DOMAIN vm
      /\ vm[Root] \in MachineRecords
  BY <1>2 DEF TypeOK
<1>4. M = Root /\ n # 1 /\ vm[h].parent = Root
  BY <1>2 DEF RunInv
<1>5. n - 1 \in 1 .. n /\ n - 1 \in Nat /\ n - 1 > 0
  <2>1. \A x \in Nat : x > 0 /\ x # 1 => x - 1 \in 1 .. x /\ x - 1 \in Nat /\ x - 1 > 0
    OBVIOUS
  <2> QED
    BY <1>2, <1>4, <2>1
<1>6. h \in DOMAIN vm /\ h # Root
  <2>1. RunInv(n - 1)
    BY <1>2, <1>5
  <2>2. vm[Root].parent = None /\ Root # None
    BY <1>2, <1>3, RootFacts DEF Inner, ParentInv
  <2> QED
    BY <1>4, <2>1, <2>2 DEF RunInv
<1>7. Last(active').vm = h
  <2>1. Len(active') = n - 1 /\ active'[n - 1] = active[n - 1]
    <3>1. n - 1 \in 1 .. n - 1
      BY <1>5
    <3> QED
      BY <1>1, <3>1, EndedFacts
  <2> QED
    BY <2>1 DEF Last
<1>8. vm' = [vm EXCEPT ![Root].sp = Top.sp, ![Root].bp = Top.bp, ![h].rv = vm[Root].rv]
  BY <1>1, <1>4, EndedFacts DEF ToCaller
<1> HIDE DEF h, g
<1>9. /\ vm'[Root].sp = Top.sp /\ vm'[Root].bp = Top.bp
      /\ vm'[Root].frames = vm[Root].frames /\ vm'[h].rv = vm[Root].rv
  BY <1>3, <1>6, <1>8 DEF MachineRecords
<1>10. ASSUME ~lost'
       PROVE  /\ vm[Root].frames = Top.frames
              /\ Top.result # NoResult => vm[Root].rv = Top.result
  <2>1. ~lost /\ ~Top.failed
    BY <1>1, <1>10
  <2>2. Innermost(n) /\ n - n = 0 /\ n \in 1 .. n
    BY <1>2, <1>4 DEF Innermost
  <2>3. CallControl(vm[Root], Top, 0) /\ CleanControl(vm[Root], Top, 0)
    BY <1>2, <2>1, <2>2 DEF RootInv, OpenCallInv
  <2>4. Len(vm[Root].frames) = Len(Top.frames) /\ Above(vm[Root].frames, Top.frames)
    BY <1>2, <2>3 DEF CallControl, CleanControl
  <2>5. vm[Root].frames \in Frames /\ Top.frames \in Frames
    BY <1>2, <1>3 DEF MachineRecords, RunRecords
  <2>6. vm[Root].frames = Top.frames
    BY <2>4, <2>5, SeqEqual DEF Above, Frames
  <2> QED
    BY <2>3, <2>6 DEF CleanControl
<1> QED
  BY <1>4, <1>7, <1>9, <1>10

(* A function of the parent that has returned leaves the parent as the     *)
(* call found it, at any depth of calls and scripts.                       *)
THEOREM CallsLeaveTheParent == Spec => CallsLeaveParent
<1> DEFINE A == Len(active') < Len(active) /\ Top.why = "call" /\ ~lost' =>
                  /\ vm'[M].frames = Top.frames
                  /\ vm'[M].sp = Top.sp
                  /\ vm'[M].bp = Top.bp
<1>1. IInv /\ [Next]_vars => A
  BY OnlyEndedRunsAreLeft, CallReturns DEF ToInterrupt, ToHost, Ended
<1>2. IInv /\ [Next]_vars => [A]_vars
  BY <1>1
<1> QED
  BY Invariance, <1>2, PTL DEF Spec, CallsLeaveParent

(* The child that called the function finds the value of that very call.   *)
THEOREM ResultsArrive == Spec => ResultArrives
<1> DEFINE A == Len(active') < Len(active) /\ Top.why = "call" /\ ~lost'
                /\ Top.result # NoResult => vm'[Last(active').vm].rv = Top.result
<1>1. IInv /\ [Next]_vars => A
  BY OnlyEndedRunsAreLeft, CallReturns DEF ToInterrupt, ToHost, Ended
<1>2. IInv /\ [Next]_vars => [A]_vars
  BY <1>1
<1> QED
  BY Invariance, <1>2, PTL DEF Spec, ResultArrives

(* The failure of a script is one of the script that executed it.          *)
THEOREM FailuresTravel == Spec => FailureTravels
<1> DEFINE A == Len(active') < Len(active) /\ Top.why = "execute" /\ Top.failed =>
                  Last(active').failed
<1>1. ASSUME IInv, ToInterrupt, Top.failed
      PROVE  Last(active').failed
  <2> DEFINE n == Len(active)
             F == Front(active)
  <2>1. /\ Ended("execute") /\ n \in Nat /\ n > 0 /\ active[n] = Top /\ Me = vm[M]
        /\ RunInv(n) /\ Top.vm = M /\ Top.why = "execute"
        /\ F \in Seq(RunRecords) /\ Len(F) = n - 1
    <3>1. Ended("execute")
      BY <1>1 DEF ToInterrupt
    <3> QED
      BY <1>1, <3>1, EndedFacts
  <2>2. n # 1 /\ Me.error
    BY <1>1, <2>1 DEF RunInv
  <2>3. n - 1 \in 1 .. n - 1
    <3>1. \A x \in Nat : x > 0 /\ x # 1 => x - 1 \in 1 .. x - 1
      OBVIOUS
    <3> QED
      BY <2>1, <2>2, <3>1
  <2>4. active' = [F EXCEPT ![n - 1].ended = TRUE, ![n - 1].failed = TRUE]
    BY <1>1, <2>2 DEF ToInterrupt
  <2> HIDE DEF F
  <2>5. F[n - 1] \in RunRecords
    BY <2>1, <2>3, ElementOfSeq
  <2>6. active' = [F EXCEPT ![n - 1] = [F[n - 1] EXCEPT !.ended = TRUE, !.failed = TRUE]]
    BY <2>4
  <2>7. [F[n - 1] EXCEPT !.ended = TRUE, !.failed = TRUE].failed
    BY <2>5 DEF RunRecords
  <2>8. DOMAIN F = 1 .. n - 1 /\ Len(active') = n - 1
    BY <2>1, <2>6
  <2> QED
    BY <2>3, <2>6, <2>7, <2>8 DEF Last
<1>2. IInv /\ [Next]_vars => A
  BY <1>1, OnlyEndedRunsAreLeft DEF ToCaller, ToHost, Ended
<1>3. IInv /\ [Next]_vars => [A]_vars
  BY <1>2
<1> QED
  BY Invariance, <1>3, PTL DEF Spec, FailureTravels
=============================================================================
