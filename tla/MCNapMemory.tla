----------------------------- MODULE MCNapMemory -----------------------------
(***************************************************************************)
(* An instance of NapMemory: one string, one array, one register and three *)
(* scopes, enough for a block in a function that is called, and for calls  *)
(* inside of calls.                                                        *)
(***************************************************************************)
EXTENDS NapMemory

MCStrings   == {"s"}
MCArrays    == {"a"}
MCRegisters == {0}
MCMarks     == 1 .. 3
MCSizes     == {2}
MCLiterals  == {1}
=============================================================================
