---------------------------- MODULE MCVarScopes ----------------------------
(* One variable with two values: the bookkeeping of different names is     *)
(* separate in every map of the code.                                      *)
EXTENDS VarScopes
=============================================================================
