------------------------------- MODULE MCNapLbf -------------------------------
(***************************************************************************)
(* Conditions for NapLbf.  The compiler is right about the plain ones: it  *)
(* finds the first of their operators first, because no operator comes     *)
(* before one of a kind it looks for earlier; and one | of two numbers is  *)
(* as much as ||, which one & is not.                                      *)
(***************************************************************************)
EXTENDS NapLbf

Cond(stmt, type, terms, ops) == [stmt |-> stmt, type |-> type, terms |-> terms, ops |-> ops]

If(terms, ops) == Cond("if", "int", terms, ops)

PlainConditions ==
  { If(<<"var">>, <<>>), If(<<"call">>, <<>>),
    If(<<"var", "call">>, <<"lt">>), If(<<"call", "var">>, <<"gte">>),
    If(<<"var", "var", "call">>, <<"lt", "lt">>),
    If(<<"call", "call", "var">>, <<"eq", "lte">>),
    If(<<"var", "call">>, <<"or">>),
    Cond("if", "real", <<"var", "var", "var">>, <<"gt", "gt">>),
    Cond("for", "int", <<"var">>, <<>>),
    Cond("for", "int", <<"var", "call">>, <<"neq">>) }
=============================================================================
