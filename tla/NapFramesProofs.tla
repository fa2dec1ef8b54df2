--------------------------- MODULE NapFramesProofs ---------------------------
(***************************************************************************)
(* Proofs about NapFrames, for every program, every limit and every depth. *)
(*                                                                         *)
(* The invariant relates the machine to the history `calls': who is        *)
(* running (ControlInv), where each open call returns to (FramesInv), how  *)
(* high the register save area was at each call (HeightsInv), what each    *)
(* slot of it holds (SlotsInv), and, in programs without assembly          *)
(* procedures, what bp is (BpInv).                                         *)
(***************************************************************************)
EXTENDS NapFrames, TLAPS

Current == IF calls = <<>> THEN Main ELSE Callee[Top.site]

IsCompiled(c) == Callee[c.site] \in Compiled

Saved(c) == IF IsCompiled(c) THEN 1 ELSE 0

ControlInv ==
  \/ InBody(Current)
  \/ Current \in Compiled /\ cc \in {Entry(Current), Exit(Current)}

FramesInv ==
  /\ cfsize = Len(calls)
  /\ cfsize <= DeepestRecursion
  /\ \A i \in 1 .. Len(calls) :
       /\ call_frames[i - 1] = After(calls[i].site)
       /\ Caller[calls[i].site] = IF i = 1 THEN Main ELSE Callee[calls[i - 1].site]

HeightsInv ==
  /\ reg_stack_idx <= DeepestRecursion - 1
  /\ reg_stack_idx = IF calls = <<>> THEN 0
                     ELSE IF InBody(Current) THEN Top.saves + Saved(Top) ELSE Top.saves
  /\ \A i \in 1 .. Len(calls) :
       /\ calls[i].saves <= DeepestRecursion - 1
       /\ calls[i].saves <= i - 1
       /\ calls[i].saves = IF i = 1 THEN 0 ELSE calls[i - 1].saves + Saved(calls[i - 1])
  /\ \A i, j \in 1 .. Len(calls) :
       i < j /\ IsCompiled(calls[i]) => calls[i].saves < calls[j].saves

(* Slot calls[i].saves is filled by the pushall of the procedure call i    *)
(* entered, and read by its popall.                                        *)
SlotsInv ==
  /\ \A i \in 1 .. Len(calls) :
       IsCompiled(calls[i]) /\ (i < Len(calls) \/ InBody(Current)) =>
         /\ \A k \in SavedKinds : reg_stack[calls[i].saves][k] = calls[i].regs[k]
         /\ ebp_stack[calls[i].saves] = calls[i].sp
  /\ Current \in Compiled /\ cc = Entry(Current) => regs = Top.regs /\ bp = Top.sp
  /\ Current \in Compiled /\ cc = Exit(Current) =>
       \A k \in SavedKinds : regs[k] = Top.regs[k]

BpInv ==
  AsmProcs = {} =>
    /\ \A i \in 1 .. Len(calls) :
         /\ IsCompiled(calls[i])
         /\ i > 1 => calls[i].bp = calls[i - 1].sp
    /\ Len(calls) > 0 =>
         IF cc = Exit(Current)
         THEN Len(calls) > 1 => bp = calls[Len(calls) - 1].sp
         ELSE bp = Top.sp

Inner == ControlInv /\ FramesInv /\ HeightsInv /\ SlotsInv /\ BpInv

IInv == TypeOK /\ (status # "wild" => Inner)

-----------------------------------------------------------------------------
(* Locations of different procedures, and of different parts of one, are   *)
(* different.                                                              *)
LEMMA Places ==
  ASSUME NEW p \in Procs
  PROVE  /\ BodyOf(p) \subseteq Locations
         /\ Entry(p) \in Locations /\ Exit(p) \in Locations
         /\ Entry(p) # Exit(p)
         /\ \A q \in Procs : Entry(q) \notin BodyOf(p) /\ Exit(q) \notin BodyOf(p)
         /\ \A q \in Procs : Entry(p) = Entry(q) => p = q
         /\ \A q \in Procs : Exit(p) = Exit(q) => p = q
         /\ \A q \in Procs : p # q => BodyOf(p) \cap BodyOf(q) = {}
  BY ProcsAssumption DEF BodyOf, Entry, Exit, Body, After, Locations

(* The place behind a call is in the body of the procedure that calls.     *)
LEMMA AfterPlace ==
  ASSUME NEW s \in Sites
  PROVE  After(s) \in Locations /\ After(s) \in BodyOf(Caller[s])
  BY ProcsAssumption DEF BodyOf, After, Locations

(* A procedure starts at its pushall, or in its body if it is assembly.    *)
LEMMA StartPlace ==
  ASSUME NEW p \in Procs \ {Main}
  PROVE  /\ Start(p) \in Locations
         /\ p \notin Compiled => Start(p) \in BodyOf(p)
         /\ p \in Compiled => Start(p) = Entry(p)
  BY DEF Start, Compiled, BodyOf, Body, Entry, Locations

(* The machine nap_vm_inject makes satisfies the invariant.                *)
LEMMA InitIInv == Init => IInv
<1> SUFFICES ASSUME Init PROVE IInv
  OBVIOUS
<1>1. Body(Main) \in BodyOf(Main) /\ Body(Main) \in Locations
  BY ProcsAssumption DEF BodyOf, Body, Locations
<1>2. TypeOK
  <2>1. calls \in Seq(CallRecords)
    BY DEF Init
  <2> QED
    BY <1>1, <2>1, LimitsAssumption DEF Init, TypeOK, Registers, SavedKinds
<1>3. Inner
  BY <1>1, LimitsAssumption
     DEF Init, Inner, ControlInv, FramesInv, HeightsInv, SlotsInv, BpInv,
         Current, InBody, Compiled
<1> QED
  BY <1>2, <1>3 DEF IInv

(* The procedure that runs is one of the program; code in its body is of no *)
(* other procedure.                                                        *)
LEMMA CurrentFacts ==
  ASSUME TypeOK, Inner
  PROVE  /\ Current \in Procs
         /\ calls # <<>> => Current # Main
         /\ \A p \in Procs : InBody(p) => p = Current
         /\ \A p \in Procs : cc = Entry(p) \/ cc = Exit(p) =>
              p = Current /\ p \in Compiled /\ ~InBody(p)
<1>1. Current \in Procs /\ (calls # <<>> => Current # Main)
  <2>1. CASE calls = <<>>
    BY <2>1, ProcsAssumption DEF Current
  <2>2. CASE calls # <<>>
    <3>1. Top \in CallRecords
      BY <2>2 DEF TypeOK, Top
    <3>2. Top.site \in Sites
      BY <3>1 DEF CallRecords
    <3> QED
      BY <2>2, <3>2, ProcsAssumption DEF Current
  <2> QED
    BY <2>1, <2>2
<1>2. \A p \in Procs : InBody(p) => p = Current
  BY <1>1, Places DEF Inner, ControlInv, InBody, Compiled
<1>3. ASSUME NEW p \in Procs, cc = Entry(p) \/ cc = Exit(p)
      PROVE  p = Current /\ p \in Compiled /\ ~InBody(p)
  <2>1. ~InBody(p) /\ ~InBody(Current)
    BY <1>1, <1>3, Places DEF InBody
  <2>2. Current \in Compiled /\ cc \in {Entry(Current), Exit(Current)}
    BY <2>1 DEF Inner, ControlInv
  <2>3. \A q \in Procs : Entry(p) # Exit(q) /\ Entry(q) # Exit(p)
    BY DEF Entry, Exit
  <2>4. p = Current
    BY <1>1, <1>3, <2>2, <2>3, Places
  <2> QED
    BY <2>1, <2>2, <2>4
<1> QED
  BY <1>1, <1>2, <1>3

(* The parts of the record of an open call.                                *)
LEMMA RecordTypes ==
  ASSUME TypeOK, NEW i \in 1 .. Len(calls)
  PROVE  /\ calls[i].site \in Sites /\ calls[i].sp \in Int /\ calls[i].bp \in Int
         /\ calls[i].regs \in Registers /\ calls[i].saves \in Nat
<1>1. calls[i] \in CallRecords
  BY DEF TypeOK
<1> QED
  BY <1>1, LimitsAssumption DEF CallRecords

(* A call stacks a return address and leaves every slot alone.             *)
LEMMA CallIInv ==
  ASSUME IInv, NEW s \in Sites, Call(s)
  PROVE  IInv'
<1> DEFINE c == [site |-> s, sp |-> sp, bp |-> bp, regs |-> regs, saves |-> reg_stack_idx]
           n == Len(calls)
<1>1. Inner /\ TypeOK /\ status = "running" /\ status' = "running" /\ InBody(Caller[s])
  BY DEF IInv, Call, Running
<1>2. Caller[s] = Current /\ Current \in Procs
  BY <1>1, CurrentFacts, ProcsAssumption
<1>3. /\ Callee[s] \in Procs \ {Main}
      /\ cc' = Start(Callee[s])
      /\ calls' = Append(calls, c) /\ c \in CallRecords
      /\ n \in Nat /\ cfsize = n /\ n < DeepestRecursion
      /\ UNCHANGED <<regs, reg_stack, ebp_stack, reg_stack_idx, sp>>
  BY <1>1, ProcsAssumption, LimitsAssumption
     DEF Call, TypeOK, CallRecords, Inner, FramesInv
<1>4. /\ Len(calls') = n + 1 /\ calls'[n + 1] = c
      /\ \A i \in 1 .. n : calls'[i] = calls[i]
      /\ calls' # <<>> /\ Top' = c /\ Current' = Callee[s]
  <2>1. Len(calls') = n + 1 /\ calls'[n + 1] = c /\ \A i \in 1 .. n : calls'[i] = calls[i]
    BY <1>1, <1>3 DEF TypeOK
  <2>2. calls' # <<>>
    BY <2>1, <1>3
  <2>3. Top' = c
    BY <2>1 DEF Top
  <2>4. c.site = s
    OBVIOUS
  <2>5. Current' = Callee[s]
    BY <2>2, <2>3, <2>4 DEF Current
  <2> QED
    BY <2>1, <2>2, <2>3, <2>5
<1>5. TypeOK'
  <2>1. calls' \in Seq(CallRecords)
    BY <1>1, <1>3 DEF TypeOK
  <2>2. cc' \in Locations
    BY <1>3, StartPlace
  <2>3. call_frames' \in [Depths -> Locations]
    BY <1>1, AfterPlace DEF Call, TypeOK
  <2>4. cfsize' \in 0 .. CfMod - 1 /\ bp' \in Int
    BY <1>1, <1>3, LimitsAssumption DEF Call, TypeOK
  <2> QED
    BY <1>1, <1>3, <2>1, <2>2, <2>3, <2>4 DEF TypeOK, Call
<1>6. ControlInv'
  BY <1>3, <1>4, StartPlace DEF ControlInv, InBody
<1>7. InBody(Current)' <=> Callee[s] \notin Compiled
  BY <1>3, <1>4, StartPlace, Places DEF InBody
<1>8. FramesInv'
  <2>1. cfsize' = Len(calls') /\ cfsize' <= DeepestRecursion
    BY <1>3, <1>4, LimitsAssumption DEF Call
  <2>2. call_frames' = [call_frames EXCEPT ![n] = After(s)] /\ n \in Depths
    BY <1>3, LimitsAssumption DEF Call, Depths
  <2>3. ASSUME NEW i \in 1 .. n + 1
        PROVE  /\ call_frames'[i - 1] = After(calls'[i].site)
               /\ Caller[calls'[i].site] = IF i = 1 THEN Main ELSE Callee[calls'[i - 1].site]
    <3>1. CASE i = n + 1
      <4>1. call_frames'[n] = After(s)
        BY <1>1, <2>2 DEF TypeOK
      <4>2. CASE n = 0
        BY <1>1, <1>2, <1>4, <3>1, <4>1, <4>2 DEF TypeOK, Current
      <4>3. CASE n # 0
        <5>1. Current = Callee[calls[n].site] /\ calls'[n] = calls[n]
          BY <1>1, <1>3, <1>4, <4>3 DEF TypeOK, Current, Top
        <5> QED
          BY <1>2, <1>3, <1>4, <3>1, <4>1, <4>3, <5>1
      <4> QED
        BY <4>2, <4>3
    <3>2. CASE i \in 1 .. n
      BY <1>1, <1>3, <1>4, <2>2, <3>2 DEF TypeOK, Inner, FramesInv, Depths
    <3> QED
      BY <1>3, <3>1, <3>2
  <2> QED
    BY <1>4, <2>1, <2>3 DEF FramesInv
<1>9. HeightsInv'
  <2>1. reg_stack_idx' <= DeepestRecursion - 1
    BY <1>1, <1>3 DEF Inner, HeightsInv
  <2>2. reg_stack_idx' = IF InBody(Current)' THEN Top'.saves + Saved(Top)' ELSE Top'.saves
    BY <1>1, <1>3, <1>4, <1>7, ProcsAssumption DEF TypeOK, Saved, IsCompiled
  <2>3. /\ n = 0 => reg_stack_idx = 0
        /\ n > 0 => reg_stack_idx = calls[n].saves + Saved(calls[n])
    BY <1>1, <1>2, <1>3 DEF TypeOK, Inner, HeightsInv, Top
  <2>4. n > 0 => calls[n].saves \in Nat /\ calls[n].saves <= n - 1 /\ Saved(calls[n]) \in 0 .. 1
    BY <1>1, <1>3, RecordTypes DEF Inner, HeightsInv, Saved
  <2>5. ASSUME NEW i \in 1 .. n + 1
        PROVE  /\ calls'[i].saves <= DeepestRecursion - 1
               /\ calls'[i].saves <= i - 1
               /\ calls'[i].saves = IF i = 1 THEN 0
                                    ELSE calls'[i - 1].saves + Saved(calls'[i - 1])
    <3>1. CASE i = n + 1
      BY <1>1, <1>3, <1>4, <2>3, <2>4, <3>1 DEF Inner, HeightsInv, TypeOK
    <3>2. CASE i \in 1 .. n
      BY <1>1, <1>3, <1>4, <3>2 DEF Inner, HeightsInv
    <3> QED
      BY <1>3, <3>1, <3>2
  <2>6. ASSUME NEW i \in 1 .. n + 1, NEW j \in 1 .. n + 1, i < j, IsCompiled(calls'[i])
        PROVE  calls'[i].saves < calls'[j].saves
    <3>1. i \in 1 .. n /\ calls'[i] = calls[i]
      BY <1>3, <1>4, <2>6
    <3>2. CASE j \in 1 .. n
      BY <1>1, <1>3, <1>4, <2>6, <3>1, <3>2 DEF Inner, HeightsInv
    <3>3. CASE j = n + 1
      <4>1. calls'[j].saves = reg_stack_idx
        BY <1>4, <3>3
      <4>2. CASE i = n
        BY <1>3, <2>3, <2>4, <2>6, <3>1, <4>1, <4>2 DEF Saved
      <4>3. CASE i < n
        <5>1. calls[i].saves \in Nat
          BY <1>1, <1>3, <3>1, RecordTypes
        <5>2. IsCompiled(calls[i]) /\ n \in 1 .. n
          BY <1>3, <2>6, <3>1, <4>3 DEF IsCompiled
        <5>3. calls[i].saves < calls[n].saves
          BY <1>1, <1>3, <3>1, <4>3, <5>2 DEF Inner, HeightsInv
        <5> QED
          BY <1>3, <2>3, <2>4, <3>1, <4>1, <4>3, <5>1, <5>3
      <4> QED
        BY <1>3, <3>1, <4>2, <4>3
    <3> QED
      BY <1>3, <3>2, <3>3
  <2> QED
    BY <1>4, <2>1, <2>2, <2>5, <2>6 DEF HeightsInv, Saved, IsCompiled
<1>10. SlotsInv'
  <2>1. cc' = Entry(Current') \/ cc' = Exit(Current') => regs' = Top'.regs /\ bp' = Top'.sp
    BY <1>3, <1>4 DEF Call
  <2>2. ASSUME NEW i \in 1 .. n + 1, IsCompiled(calls'[i]), i < n + 1 \/ InBody(Current)'
        PROVE  /\ \A k \in SavedKinds : reg_stack[calls'[i].saves][k] = calls'[i].regs[k]
               /\ ebp_stack[calls'[i].saves] = calls'[i].sp
    <3>1. i # n + 1
      BY <1>4, <1>7, <2>2 DEF IsCompiled
    <3>2. i \in 1 .. n /\ calls'[i] = calls[i] /\ (i < n \/ InBody(Current))
      BY <1>1, <1>2, <1>3, <1>4, <3>1
    <3> QED
      BY <1>1, <2>2, <3>2 DEF Inner, SlotsInv, IsCompiled
  <2> QED
    BY <1>3, <1>4, <2>1, <2>2 DEF SlotsInv, IsCompiled
<1>11. BpInv'
  <2> SUFFICES ASSUME AsmProcs = {}
               PROVE  /\ \A i \in 1 .. n + 1 :
                           /\ IsCompiled(calls'[i])
                           /\ i > 1 => calls'[i].bp = calls'[i - 1].sp
                      /\ IF cc' = Exit(Current') THEN n + 1 > 1 => bp' = calls'[n].sp
                         ELSE bp' = Top'.sp
    BY <1>3, <1>4 DEF BpInv, IsCompiled
  <2>1. Callee[s] \in Compiled
    BY <1>3 DEF Compiled
  <2>2. bp' = Top'.sp /\ cc' # Exit(Current')
    BY <1>3, <1>4, <2>1, StartPlace, Places DEF Call
  <2>3. ASSUME NEW i \in 1 .. n + 1
        PROVE  IsCompiled(calls'[i]) /\ (i > 1 => calls'[i].bp = calls'[i - 1].sp)
    <3>1. CASE i = n + 1
      <4>1. IsCompiled(calls'[i]) /\ calls'[i].bp = bp
        BY <1>4, <2>1, <3>1 DEF IsCompiled
      <4>2. n > 0 => bp = calls[n].sp
        BY <1>1, <1>2, <1>3, Places DEF Inner, BpInv, InBody, Top
      <4> QED
        BY <1>3, <1>4, <3>1, <4>1, <4>2
    <3>2. CASE i \in 1 .. n
      BY <1>1, <1>3, <1>4, <3>2 DEF Inner, BpInv, IsCompiled
    <3> QED
      BY <1>3, <3>1, <3>2
  <2> QED
    BY <2>2, <2>3
<1> QED
  BY <1>5, <1>6, <1>8, <1>9, <1>10, <1>11 DEF IInv, Inner

(* Steps that leave the control and both stacks alone.                     *)
LEMMA QuietIInv ==
  ASSUME IInv, status # "wild", TypeOK', cc' \in {cc} /\ (regs' = regs \/ InBody(Current)),
         UNCHANGED <<call_frames, cfsize, reg_stack, ebp_stack, reg_stack_idx, bp, calls>>
  PROVE  IInv'
<1>1. Inner /\ cc' = cc /\ Current' = Current /\ Top' = Top
  BY DEF IInv, Current, Top
<1>2. ControlInv' /\ (InBody(Current)' <=> InBody(Current))
  BY <1>1 DEF Inner, ControlInv, InBody
<1>3. FramesInv' /\ BpInv'
  BY <1>1 DEF Inner, FramesInv, BpInv, IsCompiled
<1>4. HeightsInv'
  BY <1>1, <1>2 DEF Inner, HeightsInv, Saved, IsCompiled
<1>5. SlotsInv'
  <2>1. regs' = regs \/ (cc # Entry(Current) /\ cc # Exit(Current))
    BY <1>1, CurrentFacts DEF IInv
  <2> QED
    BY <1>1, <1>2, <2>1 DEF Inner, SlotsInv, IsCompiled
<1> QED
  BY <1>2, <1>3, <1>4, <1>5 DEF IInv, Inner

(* pushall fills the slot above those of the procedures still open.        *)
LEMMA PushAllIInv ==
  ASSUME IInv, NEW p \in Procs, PushAll(p)
  PROVE  IInv'
<1> DEFINE n == Len(calls)
           idx == reg_stack_idx
<1>1. Inner /\ TypeOK /\ status' = "running"
  BY DEF IInv, PushAll, Running
<1>2. p = Current /\ p \in Compiled /\ ~InBody(p)
  BY <1>1, CurrentFacts DEF PushAll
<1>3. n \in Nat /\ n > 0 /\ calls # <<>>
  BY <1>1, <1>2 DEF TypeOK, Current, Compiled
<1>4. IsCompiled(calls[n]) /\ Top = calls[n] /\ idx = calls[n].saves
  BY <1>1, <1>2, <1>3 DEF Inner, HeightsInv, Current, Top, IsCompiled
<1>5. /\ idx \in Depths /\ idx + 1 <= DeepestRecursion - 1
      /\ regs = Top.regs /\ bp = Top.sp
  BY <1>1, <1>2, LimitsAssumption
     DEF Inner, HeightsInv, SlotsInv, PushAll, TypeOK, Depths
<1>6. /\ cc' = Body(p) /\ Body(p) \in BodyOf(p)
      /\ reg_stack' = [reg_stack EXCEPT ![idx] = [k \in SavedKinds |-> regs[k]]]
      /\ ebp_stack' = [ebp_stack EXCEPT ![idx] = bp]
      /\ reg_stack_idx' = idx + 1
      /\ UNCHANGED <<call_frames, cfsize, regs, sp, bp, status, error_code, calls>>
  BY DEF PushAll, BodyOf
<1>7. Current' = p /\ Top' = Top /\ InBody(Current)'
  BY <1>2, <1>6 DEF Current, Top, InBody
<1>8. TypeOK'
  <2>1. [k \in SavedKinds |-> regs[k]] \in [SavedKinds -> Values]
    BY <1>1 DEF TypeOK, Registers, SavedKinds
  <2>2. cc' \in Locations
    BY <1>6, Places
  <2>3. reg_stack' \in [Depths -> [SavedKinds -> Values]]
    BY <1>1, <1>6, <2>1 DEF TypeOK
  <2>4. bp \in Int /\ ebp_stack \in [Depths -> Int] /\ idx \in Nat
    BY <1>1 DEF TypeOK
  <2>5. ebp_stack' \in [Depths -> Int]
    BY <1>6, <2>4
  <2>6. reg_stack_idx' \in Nat
    BY <1>6, <2>4
  <2> QED
    BY <1>1, <1>6, <2>2, <2>3, <2>5, <2>6 DEF TypeOK
<1>9. ControlInv' /\ FramesInv'
  BY <1>1, <1>6, <1>7 DEF Inner, ControlInv, FramesInv
<1>10. HeightsInv'
  <2>1. reg_stack_idx' = Top'.saves + Saved(Top)'
    BY <1>4, <1>6, <1>7 DEF Saved, IsCompiled
  <2> QED
    BY <1>1, <1>3, <1>5, <1>6, <1>7, <2>1 DEF Inner, HeightsInv, Saved, IsCompiled
<1>11. SlotsInv'
  <2>1. cc' # Entry(p) /\ cc' # Exit(p)
    BY <1>6, Places
  <2>2. ASSUME NEW i \in 1 .. n, IsCompiled(calls[i])
        PROVE  /\ \A k \in SavedKinds : reg_stack'[calls[i].saves][k] = calls[i].regs[k]
               /\ ebp_stack'[calls[i].saves] = calls[i].sp
    <3>1. CASE i = n
      BY <1>1, <1>4, <1>5, <1>6, <3>1 DEF TypeOK
    <3>2. CASE i < n
      <4>1. calls[i].saves < idx /\ calls[i].saves \in Depths
        BY <1>1, <1>3, <1>4, <1>5, <2>2, <3>2, RecordTypes DEF Inner, HeightsInv, Depths
      <4>2. /\ reg_stack'[calls[i].saves] = reg_stack[calls[i].saves]
            /\ ebp_stack'[calls[i].saves] = ebp_stack[calls[i].saves]
        BY <1>1, <1>6, <4>1 DEF TypeOK
      <4> QED
        BY <1>1, <2>2, <3>2, <4>2 DEF Inner, SlotsInv
    <3> QED
      BY <1>3, <3>1, <3>2
  <2> QED
    BY <1>6, <1>7, <2>1, <2>2 DEF SlotsInv, IsCompiled
<1>12. BpInv'
  <2>1. cc # Exit(p) /\ cc' # Exit(p)
    BY <1>6, Places DEF PushAll
  <2> QED
    BY <1>1, <1>2, <1>6, <1>7, <2>1 DEF Inner, BpInv, IsCompiled
<1> QED
  BY <1>8, <1>9, <1>10, <1>11, <1>12 DEF IInv, Inner

(* popall reads the slot of the pushall of the same call, and bp from the  *)
(* slot of the caller.                                                     *)
LEMMA PopAllFacts ==
  ASSUME TypeOK, Inner, NEW p \in Procs, PopAll(p)
  PROVE  /\ p = Current /\ Len(calls) > 0 /\ Top = calls[Len(calls)]
         /\ IsCompiled(Top) /\ reg_stack_idx = Top.saves + 1 /\ Top.saves \in Depths
         /\ reg_stack_idx' = Top.saves /\ regs' \in Registers /\ bp' \in Int
         /\ \A k \in SavedKinds : regs'[k] = Top.regs[k]
         /\ AsmProcs = {} /\ Len(calls) > 1 => bp' = calls[Len(calls) - 1].sp
<1> DEFINE n == Len(calls)
           top == reg_stack_idx - 1
<1>1. p = Current /\ p \in Compiled /\ InBody(Current) /\ RestoreRegisters
  BY CurrentFacts DEF PopAll
<1>2. n \in Nat /\ n > 0 /\ calls # <<>> /\ Top = calls[n] /\ IsCompiled(Top)
  BY <1>1 DEF TypeOK, Current, Compiled, Top, IsCompiled
<1>3. reg_stack_idx = Top.saves + 1 /\ Top.saves \in Nat
  BY <1>1, <1>2, RecordTypes DEF Inner, HeightsInv, Saved
<1>4. top = Top.saves /\ top \in Depths
  BY <1>3, LimitsAssumption DEF Inner, HeightsInv, Depths
<1>5. /\ reg_stack_idx' = top
      /\ regs' = [k \in RegKinds |-> IF k \in SavedKinds THEN reg_stack[top][k] ELSE regs[k]]
      /\ IF top = 0 THEN bp' \in Garbage ELSE bp' = ebp_stack[top - 1]
  BY <1>1 DEF RestoreRegisters
<1>6. regs' \in Registers
  BY <1>4, <1>5 DEF TypeOK, Registers, SavedKinds
<1>7. bp' \in Int
  <2>1. CASE top = 0
    BY <1>5, <2>1, LimitsAssumption
  <2>2. CASE top # 0
    BY <1>4, <1>5, <2>2, LimitsAssumption DEF TypeOK, Depths
  <2> QED
    BY <2>1, <2>2
<1>8. \A k \in SavedKinds : regs'[k] = Top.regs[k]
  <2>1. \A k \in SavedKinds : regs'[k] = reg_stack[top][k]
    BY <1>5 DEF SavedKinds
  <2> QED
    BY <1>1, <1>2, <1>4, <2>1 DEF Inner, SlotsInv
<1>9. ASSUME AsmProcs = {}, n > 1
      PROVE  bp' = calls[n - 1].sp
  <2>1. n - 1 \in 1 .. n /\ n - 1 < n /\ IsCompiled(calls[n - 1])
    BY <1>2, <1>9 DEF Inner, BpInv
  <2>2. Top.saves = calls[n - 1].saves + 1 /\ calls[n - 1].saves \in Nat
    BY <1>2, <1>9, <2>1, RecordTypes DEF Inner, HeightsInv, Saved
  <2>3. ebp_stack[calls[n - 1].saves] = calls[n - 1].sp
    BY <2>1 DEF Inner, SlotsInv
  <2> QED
    BY <1>4, <1>5, <2>2, <2>3
<1> QED
  BY <1>1, <1>2, <1>3, <1>4, <1>5, <1>6, <1>7, <1>8, <1>9

(* popall gives back what the pushall of the same call saved.              *)
LEMMA PopAllIInv ==
  ASSUME IInv, NEW p \in Procs, PopAll(p)
  PROVE  IInv'
<1> DEFINE n == Len(calls)
<1>1. Inner /\ TypeOK /\ status' = "running"
  BY DEF IInv, PopAll, Running
<1>2. /\ p = Current /\ n > 0 /\ n \in Nat /\ calls # <<>>
      /\ reg_stack_idx = Top.saves + 1 /\ Top.saves \in Nat
      /\ reg_stack_idx' = Top.saves /\ regs' \in Registers /\ bp' \in Int
      /\ \A k \in SavedKinds : regs'[k] = Top.regs[k]
      /\ AsmProcs = {} /\ n > 1 => bp' = calls[n - 1].sp
  BY <1>1, PopAllFacts DEF TypeOK, Depths
<1>3. /\ cc' = Exit(p) /\ p \in Compiled
      /\ UNCHANGED <<call_frames, cfsize, reg_stack, ebp_stack, sp, status, error_code, calls>>
  BY DEF PopAll
<1>4. Current' = Current /\ Top' = Top /\ ~InBody(Current)' /\ cc' # Entry(Current)
  BY <1>2, <1>3, Places DEF Current, Top, InBody
<1>5. TypeOK'
  BY <1>1, <1>2, <1>3, Places DEF TypeOK
<1>6. ControlInv' /\ FramesInv'
  BY <1>1, <1>2, <1>3, <1>4 DEF Inner, ControlInv, FramesInv
<1>7. HeightsInv'
  BY <1>1, <1>2, <1>3, <1>4, LimitsAssumption DEF Inner, HeightsInv, Saved, IsCompiled
<1>8. SlotsInv'
  BY <1>1, <1>2, <1>3, <1>4 DEF Inner, SlotsInv, IsCompiled
<1>9. BpInv'
  BY <1>1, <1>2, <1>3, <1>4 DEF Inner, BpInv, IsCompiled
<1> QED
  BY <1>5, <1>6, <1>7, <1>8, <1>9 DEF IInv, Inner

(* leave removes the top frame; the code it goes back to is in the body of *)
(* the procedure that made the call.                                       *)
LEMMA LeaveFacts ==
  ASSUME TypeOK, Inner, Leave
  PROVE  /\ Len(calls) > 0 /\ Len(calls') = Len(calls) - 1
         /\ \A i \in 1 .. Len(calls) - 1 : calls'[i] = calls[i]
         /\ calls' \in Seq(CallRecords)
         /\ Top = calls[Len(calls)]
         /\ cfsize' = Len(calls) - 1
         /\ cc' = After(Top.site) /\ cc' \in Locations
         /\ Current' = Caller[Top.site] /\ InBody(Current)' /\ Current' \in Procs
         /\ reg_stack_idx = Top.saves
         /\ IsCompiled(Top) => cc = Exit(Current)
<1> DEFINE n == Len(calls)
<1>1. n \in Nat /\ cfsize = n /\ n > 0 /\ calls # <<>> /\ Top = calls[n]
  BY DEF TypeOK, Inner, FramesInv, Leave, Top
<1>2. calls' = SubSeq(calls, 1, n - 1) /\ cfsize' = n - 1 /\ cc' = call_frames[n - 1]
  BY <1>1 DEF Leave
<1>3. /\ Len(calls') = n - 1 /\ calls' \in Seq(CallRecords)
      /\ \A i \in 1 .. n - 1 : calls'[i] = calls[i]
  BY <1>1, <1>2 DEF TypeOK
<1>4. Top.site \in Sites /\ cc' = After(Top.site) /\ cc' \in Locations
  BY <1>1, <1>2, RecordTypes, AfterPlace DEF Inner, FramesInv
<1>5. Current' = Caller[Top.site]
  <2>1. CASE n = 1
    BY <1>1, <1>3, <2>1 DEF Current, Inner, FramesInv
  <2>2. CASE n > 1
    <3>1. calls' # <<>> /\ calls'[n - 1] = calls[n - 1] /\ Top' = calls[n - 1]
      BY <1>1, <1>3, <2>2 DEF Top
    <3> QED
      BY <1>1, <2>2, <3>1 DEF Current, Inner, FramesInv
  <2> QED
    BY <1>1, <2>1, <2>2
<1>6. InBody(Current)' /\ Current' \in Procs
  BY <1>4, <1>5, AfterPlace, ProcsAssumption DEF InBody
<1>7. reg_stack_idx = Top.saves /\ (IsCompiled(Top) => cc = Exit(Current))
  <2>1. Current \in Procs /\ Current = Callee[Top.site] /\ Top.saves \in Nat
    BY <1>1, CurrentFacts, RecordTypes DEF Current
  <2>2. CASE \E p \in Compiled : cc = Exit(p)
    BY <1>1, <2>1, <2>2, CurrentFacts DEF Inner, HeightsInv, Compiled
  <2>3. CASE \E p \in AsmProcs : InBody(p)
    <3>1. Current \in AsmProcs /\ InBody(Current)
      BY <2>3, CurrentFacts, ProcsAssumption
    <3>2. ~IsCompiled(Top)
      BY <2>1, <3>1 DEF IsCompiled, Compiled
    <3> QED
      BY <1>1, <2>1, <3>1, <3>2 DEF Inner, HeightsInv, Saved
  <2> QED
    BY <2>2, <2>3 DEF Leave
<1> QED
  BY <1>1, <1>2, <1>3, <1>4, <1>5, <1>6, <1>7

(* leave removes one frame and the history of one call.                    *)
LEMMA LeaveIInv ==
  ASSUME IInv, Leave
  PROVE  IInv'
<1> DEFINE n == Len(calls)
<1>1. Inner /\ TypeOK /\ status' = "running" /\ n \in Nat
  BY DEF IInv, Leave, Running, TypeOK
<1>2. UNCHANGED <<call_frames, regs, reg_stack, ebp_stack, reg_stack_idx, sp,
                  bp, status, error_code>>
  BY DEF Leave
<1>3. /\ n > 0 /\ Len(calls') = n - 1 /\ cfsize' = n - 1
      /\ \A i \in 1 .. n - 1 : calls'[i] = calls[i]
      /\ calls' \in Seq(CallRecords)
      /\ cc' \in Locations /\ InBody(Current)' /\ Current' \in Procs
      /\ Top = calls[n] /\ reg_stack_idx = Top.saves
  BY <1>1, LeaveFacts
<1>4. cc' # Entry(Current') /\ cc' # Exit(Current')
  BY <1>3, Places DEF InBody
<1>5. n > 1 => calls' # <<>> /\ Top' = calls[n - 1]
  BY <1>1, <1>3 DEF Top
<1>6. TypeOK'
  <2>1. cfsize' \in 0 .. CfMod - 1
    BY <1>1, <1>3, LimitsAssumption DEF TypeOK, Inner, FramesInv
  <2> QED
    BY <1>1, <1>2, <1>3, <2>1 DEF TypeOK
<1>7. ControlInv'
  BY <1>3 DEF ControlInv
<1>13. ASSUME NEW i \in 1 .. n - 1
       PROVE  /\ i \in 1 .. n /\ calls'[i] = calls[i]
              /\ i > 1 => i - 1 \in 1 .. n - 1 /\ calls'[i - 1] = calls[i - 1]
  BY <1>1, <1>3
<1>8. FramesInv'
  <2>1. \A i \in 1 .. n - 1 :
          /\ call_frames[i - 1] = After(calls'[i].site)
          /\ Caller[calls'[i].site] = IF i = 1 THEN Main ELSE Callee[calls'[i - 1].site]
    BY <1>1, <1>13 DEF Inner, FramesInv
  <2> QED
    BY <1>1, <1>2, <1>3, <2>1, LimitsAssumption DEF Inner, FramesInv
<1>9. HeightsInv'
  <2>1. reg_stack_idx' = IF calls' = <<>> THEN 0 ELSE Top'.saves + Saved(Top)'
    <3>1. CASE n = 1
      BY <1>1, <1>2, <1>3, <3>1 DEF Inner, HeightsInv
    <3>2. CASE n > 1
      BY <1>1, <1>2, <1>3, <1>5, <3>2 DEF Inner, HeightsInv, Saved, IsCompiled
    <3> QED
      BY <1>1, <1>3, <3>1, <3>2
  <2>2. ASSUME NEW i \in 1 .. n - 1
        PROVE  /\ calls'[i].saves <= DeepestRecursion - 1
               /\ calls'[i].saves <= i - 1
               /\ calls'[i].saves = IF i = 1 THEN 0
                                    ELSE calls'[i - 1].saves + Saved(calls'[i - 1])
    <3>1. /\ calls[i].saves <= DeepestRecursion - 1
          /\ calls[i].saves <= i - 1
          /\ calls[i].saves = IF i = 1 THEN 0 ELSE calls[i - 1].saves + Saved(calls[i - 1])
      BY <1>1, <1>13 DEF Inner, HeightsInv
    <3>2. CASE i = 1
      BY <1>13, <3>1, <3>2
    <3>3. CASE i > 1
      BY <1>13, <3>1, <3>3
    <3> QED
      BY <1>1, <3>2, <3>3
  <2>3. ASSUME NEW i \in 1 .. n - 1, NEW j \in 1 .. n - 1, i < j, IsCompiled(calls'[i])
        PROVE  calls'[i].saves < calls'[j].saves
    <3>1. /\ i \in 1 .. n /\ calls'[i] = calls[i]
          /\ j \in 1 .. n /\ calls'[j] = calls[j]
      BY <1>13
    <3> QED
      BY <1>1, <2>3, <3>1 DEF Inner, HeightsInv
  <2> QED
    BY <1>1, <1>2, <1>3, <2>1, <2>2, <2>3 DEF Inner, HeightsInv, Saved, IsCompiled
<1>10. SlotsInv'
  BY <1>1, <1>2, <1>3, <1>4 DEF Inner, SlotsInv, IsCompiled
<1>11. BpInv'
  <2> SUFFICES ASSUME AsmProcs = {}
               PROVE  /\ \A i \in 1 .. n - 1 :
                           IsCompiled(calls'[i]) /\ (i > 1 => calls'[i].bp = calls'[i - 1].sp)
                      /\ n - 1 > 0 => bp' = Top'.sp
    BY <1>1, <1>3, <1>4 DEF BpInv, IsCompiled
  <2>1. cc = Exit(Current)
    BY <1>1, <1>3, LeaveFacts DEF Inner, BpInv
  <2>2. \A i \in 1 .. n - 1 :
          IsCompiled(calls'[i]) /\ (i > 1 => calls'[i].bp = calls'[i - 1].sp)
    BY <1>1, <1>13 DEF Inner, BpInv, IsCompiled
  <2>3. n - 1 > 0 => bp' = Top'.sp
    BY <1>1, <1>2, <1>3, <1>5, <2>1 DEF Inner, BpInv
  <2> QED
    BY <2>2, <2>3
<1> QED
  BY <1>6, <1>7, <1>8, <1>9, <1>10, <1>11 DEF IInv, Inner

(* The invariant is inductive.                                             *)
LEMMA NextIInv == IInv /\ [Next]_vars => IInv'
<1> SUFFICES ASSUME IInv, [Next]_vars
             PROVE  IInv'
  OBVIOUS
<1> USE DEF IInv
<1>1. ASSUME NEW s \in Sites, Call(s) PROVE IInv'
  BY <1>1, CallIInv
<1>2. ASSUME NEW s \in Sites, CallTooDeep(s) PROVE IInv'
  <2>1. TypeOK'
    BY <1>2 DEF CallTooDeep, Fail, TypeOK
  <2> QED
    BY <1>2, <2>1, QuietIInv DEF CallTooDeep, Running
<1>3. ASSUME NEW p \in Procs, PushAll(p) PROVE IInv'
  BY <1>3, PushAllIInv
<1>4. ASSUME NEW p \in Procs, PushAllTooDeep(p) PROVE IInv'
  <2>1. TypeOK'
    BY <1>4 DEF PushAllTooDeep, Fail, TypeOK
  <2> QED
    BY <1>4, <2>1, QuietIInv DEF PushAllTooDeep, Running
<1>5. ASSUME NEW p \in Procs, PopAll(p) PROVE IInv'
  BY <1>5, PopAllIInv
<1>6. CASE PopAllNothing
  <2>1. TypeOK'
    BY <1>6 DEF PopAllNothing, Fail, TypeOK
  <2> QED
    BY <1>6, <2>1, QuietIInv DEF PopAllNothing, Running
<1>7. CASE Leave
  BY <1>7, LeaveIInv
<1>8. CASE LeaveNothing
  <2>1. cfsize' \in 0 .. CfMod - 1 /\ status' = "wild"
    BY <1>8, LimitsAssumption DEF LeaveNothing
  <2> QED
    BY <1>8, <2>1 DEF LeaveNothing, TypeOK
<1>9. ASSUME NEW k \in RegKinds, NEW v \in Values, SetRegister(k, v) PROVE IInv'
  <2>1. regs' \in Registers
    BY <1>9 DEF SetRegister, TypeOK, Registers
  <2>2. TypeOK'
    BY <1>9, <2>1 DEF SetRegister, TypeOK
  <2>3. InBody(Current)
    BY <1>9, CurrentFacts DEF SetRegister, Running
  <2> QED
    BY <1>9, <2>2, <2>3, QuietIInv DEF SetRegister, Running
<1>10. ASSUME NEW to \in -1 .. MaxSp, MoveSp(to) PROVE IInv'
  <2>1. TypeOK'
    BY <1>10 DEF MoveSp, TypeOK
  <2> QED
    BY <1>10, <2>1, QuietIInv DEF MoveSp, Running
<1>11. CASE ExitProgram
  <2>1. TypeOK'
    BY <1>11 DEF ExitProgram, TypeOK
  <2> QED
    BY <1>11, <2>1, QuietIInv DEF ExitProgram, Running
<1>12. CASE UNCHANGED vars
  <2>1. TypeOK'
    BY <1>12 DEF vars, TypeOK
  <2>2. CASE status = "wild"
    BY <1>12, <2>1, <2>2 DEF vars
  <2>3. CASE status # "wild"
    BY <1>12, <2>1, <2>3, QuietIInv DEF vars
  <2> QED
    BY <2>2, <2>3
<1> QED
  BY <1>1, <1>2, <1>3, <1>4, <1>5, <1>6, <1>7, <1>8, <1>9, <1>10, <1>11, <1>12
     DEF Next

(* The inductive invariant holds in every state of every program: the two  *)
(* stacks hold exactly what the open calls put there.                      *)
THEOREM Invariance == Spec => []IInv
  BY InitIInv, NextIInv, PTL DEF Spec

(* The state has its type, for every program and every limit.              *)
THEOREM TypeCorrect == Spec => []TypeOK
<1>1. IInv => TypeOK
  BY DEF IInv
<1> QED
  BY <1>1, Invariance, PTL

(* Neither stack is ever indexed past the size it was allocated with, in   *)
(* any mix of compiled and assembly procedures.                            *)
THEOREM IndicesSafe == Spec => []IndicesInBounds
<1>1. IInv => IndicesInBounds
  <2> SUFFICES ASSUME IInv, status # "wild"
               PROVE  reg_stack_idx <= cfsize
    BY DEF IInv, Inner, FramesInv, HeightsInv, IndicesInBounds
  <2>1. TypeOK /\ Inner /\ cfsize = Len(calls) /\ Len(calls) \in Nat
    BY DEF IInv, Inner, FramesInv, TypeOK
  <2>2. CASE calls = <<>>
    BY <2>1, <2>2 DEF Inner, HeightsInv
  <2>3. CASE calls # <<>>
    <3>1. Len(calls) \in 1 .. Len(calls) /\ Top = calls[Len(calls)]
      BY <2>1, <2>3 DEF TypeOK, Top
    <3>2. Top.saves \in Nat /\ Top.saves <= Len(calls) - 1
      BY <2>1, <3>1, RecordTypes DEF Inner, HeightsInv
    <3> QED
      BY <2>1, <2>3, <3>2 DEF Inner, HeightsInv, Saved
  <2> QED
    BY <2>2, <2>3
<1> QED
  BY <1>1, Invariance, PTL

(* However deep a program recurses, no return address of a procedure still *)
(* open is lost.                                                           *)
THEOREM ReturnAddressesSafe == Spec => []ReturnAddressesIntact
<1>1. IInv => ReturnAddressesIntact
  BY DEF IInv, Inner, FramesInv, ReturnAddressesIntact
<1> QED
  BY <1>1, Invariance, PTL

(* Without assembly procedures every body finds its parameters where its   *)
(* caller pushed them, before and after the calls it makes.                *)
THEOREM BpSafe == Spec => []BpIsFrameBase
<1>1. IInv => BpIsFrameBase
  <2> SUFFICES ASSUME IInv, Running, AsmProcs = {}, NEW p \in Compiled, InBody(p)
               PROVE  bp = FrameBase
    BY DEF BpIsFrameBase
  <2>1. TypeOK /\ Inner /\ p = Current /\ p # Main /\ p \in Procs
    BY CurrentFacts DEF IInv, Running, Compiled
  <2>2. calls # <<>> /\ Len(calls) > 0
    BY <2>1 DEF Current, TypeOK
  <2>3. cc # Exit(Current)
    BY <2>1, Places DEF InBody
  <2> QED
    BY <2>1, <2>2, <2>3 DEF Inner, BpInv, FrameBase, Top
<1> QED
  BY <1>1, Invariance, PTL

(* A call, with everything it calls, leaves the state of its caller as the *)
(* caller left it.                                                         *)
THEOREM CallsTransparent == Spec => CallsReturnTransparently
<1> DEFINE P == Len(calls') < Len(calls) =>
                  /\ cc' = After(Top.site)
                  /\ reg_stack_idx' = Top.saves
                  /\ Callee[Top.site] \in Compiled =>
                        \A k \in SavedKinds : regs'[k] = Top.regs[k]
                  /\ AsmProcs = {} /\ Caller[Top.site] # Main => bp' = Top.bp
<1>1. IInv /\ [Next]_vars => [P]_vars
  <2> SUFFICES ASSUME IInv, Next, Len(calls') < Len(calls) PROVE P
    BY DEF vars
  <2>1. TypeOK /\ Len(calls) \in Nat
    BY DEF IInv, TypeOK
  <2>2. Leave
    <3>1. \A s \in Sites : ~Call(s)
      BY <2>1 DEF Call, TypeOK
    <3> QED
      BY <2>1, <3>1
         DEF Next, CallTooDeep, PushAll, PushAllTooDeep, PopAll, PopAllNothing,
             LeaveNothing, SetRegister, MoveSp, ExitProgram
  <2>3. Inner
    BY <2>2 DEF IInv, Leave, Running
  <2>4. cc' = After(Top.site) /\ reg_stack_idx' = Top.saves /\ UNCHANGED <<regs, bp>>
    BY <2>1, <2>2, <2>3, LeaveFacts DEF Leave
  <2>5. Len(calls) > 0 /\ calls # <<>> /\ Top = calls[Len(calls)]
    BY <2>1, <2>2, <2>3, LeaveFacts
  <2>6. ASSUME Callee[Top.site] \in Compiled
        PROVE  \A k \in SavedKinds : regs'[k] = Top.regs[k]
    <3>1. cc = Exit(Current) /\ Current \in Compiled
      BY <2>1, <2>2, <2>3, <2>5, <2>6, LeaveFacts DEF IsCompiled, Current
    <3> QED
      BY <2>3, <2>4, <3>1 DEF Inner, SlotsInv
  <2>7. ASSUME AsmProcs = {}, Caller[Top.site] # Main
        PROVE  bp' = Top.bp
    <3>1. Len(calls) > 1 /\ Len(calls) \in 1 .. Len(calls)
      BY <2>1, <2>3, <2>5, <2>7 DEF Inner, FramesInv
    <3>2. cc = Exit(Current)
      BY <2>1, <2>2, <2>3, <2>5, <2>7, LeaveFacts DEF Inner, BpInv
    <3> QED
      BY <2>3, <2>4, <2>5, <2>7, <3>1, <3>2 DEF Inner, BpInv
  <2> QED
    BY <2>4, <2>6, <2>7
<1> QED
  BY <1>1, Invariance, PTL DEF Spec, CallsReturnTransparently
=============================================================================
