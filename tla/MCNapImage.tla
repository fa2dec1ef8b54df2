------------------------------ MODULE MCNapImage ------------------------------
(***************************************************************************)
(* Instances of NapImage.  The widths 8, 16, 32 and 64 are scaled down; all *)
(* numbers of the largest are tried.                                       *)
(***************************************************************************)
EXTENDS NapImage

(* g is declared and defined, f is a function of the parent before it is   *)
(* one of the script.                                                      *)
FourMethods ==
  <<[name |-> "g", pars |-> 0], [name |-> "g", pars |-> 0],
    [name |-> "f", pars |-> 0], [name |-> "h", pars |-> 1]>>
SmallBits == [byte |-> 2, short |-> 4, long |-> 6, huge |-> 8]
AllNumbers == -128 .. 127
Literal == {5}
=============================================================================
