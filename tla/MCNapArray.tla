------------------------------ MODULE MCNapArray ------------------------------
(***************************************************************************)
(* Instances of NapArray.  The even shapes are accessed plainly: they have *)
(* one dimension, or dimensions that are equal, or a first dimension of 1. *)
(* The accesses to the uneven shapes use other arrays.                     *)
(***************************************************************************)
EXTENDS NapArray

EvenShapes   == {<<1>>, <<3>>, <<2, 2>>, <<3, 3>>, <<1, 3>>, <<2, 2, 2>>}
UnevenShapes == {<<3, 2>>, <<2, 3>>, <<2>>}
AllShapes    == EvenShapes \cup UnevenShapes
MCIndices    == -1 .. 3
MCNested     ==
  [s \in Shapes |-> IF s \in UnevenShapes THEN {"index", "operand"} ELSE {}]
MCWrites     == [s \in Shapes |-> IF s \in UnevenShapes THEN 1 ELSE 2]
=============================================================================
