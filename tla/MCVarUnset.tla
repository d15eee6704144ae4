---------------------------- MODULE MCVarUnset -----------------------------
(* VarScopes, and which names the last command unset that no call in        *)
(* progress had declared and no prefix assignment held.                     *)
EXTENDS VarScopes

VARIABLE removed

ObservedInit == Init /\ removed = {}

ObservedUnset(n) ==
  /\ Runs /\ UnsetVar(n)
  /\ removed' = IF Scopes(n) = {} /\ ~Bound(n) THEN {n} ELSE {}
  /\ UNCHANGED <<frames, thrown, plain>>

ObservedNext == \/ \E n \in Names : ObservedUnset(n)
                \/ Next /\ removed' = {}

ObservedSpec == ObservedInit /\ [][ObservedNext]_<<vars, removed>>

(* "unset VAR - remove variable" (src/src/interpreter/builtins/unset.ts:5): *)
(* an unset of a name that no call in progress has declared, and no prefix  *)
(* assignment holds, leaves it without a value.                             *)
UnsetRemoves == \A n \in removed : env[n] = Unset
=============================================================================
