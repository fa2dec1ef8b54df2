----------------------------- MODULE MCNapProgram -----------------------------
(***************************************************************************)
(* A program for NapProgram:                                               *)
(*                                                                         *)
(*   void f(int a, int& b) { f(g(.., ..), z) ... g(.., ..) ... b = ..; }   *)
(*   int g(int a, int b)   { ... f(.., z) ... b = ..; return ..; }         *)
(*   ... f(.., z) ...                                                      *)
(***************************************************************************)
EXTENDS NapProgram

ParamsOfProcs == [p \in Procs |-> IF p = "main" THEN 0 ELSE 2]
RefsOfProcs   == [p \in Procs |-> IF p = "f" THEN {2} ELSE {}]
ReturnsOf     == [p \in Procs |-> p = "g"]
AssignsOf     == [p \in Procs |-> IF p = "main" THEN {} ELSE {2}]
CalleesOf     == [p \in Procs |-> IF p = "f" THEN {"f", "g"} ELSE {"f"}]
=============================================================================
