----------------------------- MODULE MCNapFrames -----------------------------
(***************************************************************************)
(* Instances of NapFrames.  In the compiled instance the global code calls *)
(* f, f calls g and g calls itself and f; in the mixed instance g is an    *)
(* assembly procedure, so that the call frames and the register save area  *)
(* grow at different rates and each meets its own limit.                   *)
(***************************************************************************)
EXTENDS NapFrames

MCCaller == [s \in Sites |->
  CASE s = "m" -> "main" [] s = "a" -> "f" [] s = "b" -> "g" [] s = "c" -> "g"]

MCCallee == [s \in Sites |->
  CASE s = "m" -> "f" [] s = "a" -> "g" [] s = "b" -> "g" [] s = "c" -> "f"]

NoProcs   == {}
OnlyG     == {"g"}
MCGarbage == {-7}
=============================================================================
