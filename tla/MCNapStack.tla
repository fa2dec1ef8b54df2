------------------------------ MODULE MCNapStack ------------------------------
(***************************************************************************)
(* Programs for NapStack.  The first:                                      *)
(*                                                                         *)
(*   int[2] f(int a) {            int h(int a) {                           *)
(*     int x[2];                    int w;                                 *)
(*     for (int i; ...) {           if (..) { int u; return u; }           *)
(*       int y;                     return w;                              *)
(*       if (..) {                }                                        *)
(*         int z; h(z);                                                    *)
(*         break | return x;      int g[2];                                *)
(*       }                        g = f(h(1));                             *)
(*     }                                                                   *)
(*     return x;                                                           *)
(*   }                                                                     *)
(*                                                                         *)
(* In the second a function with a local variable calls itself.             *)
(***************************************************************************)
EXTENDS NapStack

FatherOf ==
  [b \in Blocks |->
    CASE b \in {"main", "cf"} -> "main"
      [] b = "ch" -> "cf"
      [] b \in {"f", "for"} -> "f"
      [] b = "body" -> "for"
      [] b = "if" -> "body"
      [] b = "cz" -> "if"
      [] b \in {"h", "ifh"} -> "h"]

KindOf ==
  [b \in Blocks |->
    CASE b = "main" -> "main"
      [] b \in {"f", "h"} -> "fun"
      [] b = "for" -> "for"
      [] b \in {"body", "if", "ifh"} -> "body"
      [] b \in {"cf", "ch", "cz"} -> "call"]

CalleeOf == [b \in Blocks |-> IF b = "cf" THEN "f" ELSE "h"]

Scope ==
  [v \in Vars |-> CASE v = "g" -> "main" [] v = "x" -> "f" [] v = "i" -> "for"
                    [] v = "y" -> "body" [] v = "z" -> "if" [] v = "w" -> "h"
                    [] v = "u" -> "ifh"]

Returns == [b \in Blocks |-> IF b = "f" THEN "x" ELSE "novar"]
Targets == [b \in Blocks |-> IF b = "cf" THEN "g" ELSE "novar"]

(* h calls itself.                                                         *)
RecFatherOf == [FatherOf EXCEPT !["cz"] = "h"]
NoArrays    == [b \in Blocks |-> "novar"]
RecCalleeOf == [b \in Blocks |-> "h"]
=============================================================================
