---------------------------- MODULE DynamicScope ----------------------------
(***************************************************************************)
(* What shell variables promise a script (src/src/interpreter/types.ts,    *)
(* LocalScopingState): every call in progress may have a cell of its own   *)
(* for a name, an operation on a name touches the innermost cell and no    *)
(* other, a call takes its cells with it, and nothing that happens in a    *)
(* subshell, a command substitution or a pipeline is seen outside.         *)
(* VarScopes, which has one map of values and saves what a declaration     *)
(* hides, is shown to implement it.                                        *)
(***************************************************************************)
EXTENDS Naturals, Sequences

CONSTANTS Names,    \* variables
          Values,   \* their values
          Unset,    \* a cell without a value
          NoCell    \* no cell of this name in a scope

VARIABLES global,   \* the cells outside every call
          scopes,   \* the cells of the calls in progress, outermost first
          shells    \* what the shells around this one hold

vars == <<global, scopes, shells>>

Contents == Values \cup {Unset}

Init == /\ global \in [Names -> Contents]
        /\ scopes = <<>>
        /\ shells = <<>>

Declaring(n) == {i \in DOMAIN scopes : scopes[i][n] # NoCell}

Innermost(n, i) == i \in Declaring(n) /\ \A j \in Declaring(n) : j <= i

(* An assignment, or an unset that leaves the cell. *)
Write(n) ==
  /\ \E v \in Contents :
       \/ /\ Declaring(n) = {}
          /\ global' = [global EXCEPT ![n] = v]
          /\ UNCHANGED scopes
       \/ \E i \in DOMAIN scopes :
            /\ Innermost(n, i)
            /\ scopes' = [scopes EXCEPT ![i][n] = v]
            /\ UNCHANGED global
  /\ UNCHANGED shells

Declare(n) ==
  /\ scopes # <<>>
  /\ \E v \in Contents : scopes' = [scopes EXCEPT ![Len(scopes)][n] = v]
  /\ UNCHANGED <<global, shells>>

(* An unset that removes the cell. *)
Remove(n) ==
  /\ \E i \in DOMAIN scopes :
       Innermost(n, i) /\ scopes' = [scopes EXCEPT ![i][n] = NoCell]
  /\ UNCHANGED <<global, shells>>

Enter ==
  /\ scopes' = Append(scopes, [n \in Names |-> NoCell])
  /\ UNCHANGED <<global, shells>>

Leave ==
  /\ scopes # <<>>
  /\ scopes' = SubSeq(scopes, 1, Len(scopes) - 1)
  /\ UNCHANGED <<global, shells>>

Fork ==
  /\ shells' = Append(shells, [global |-> global, scopes |-> scopes])
  /\ UNCHANGED <<global, scopes>>

Join ==
  /\ shells # <<>>
  /\ global' = shells[Len(shells)].global
  /\ scopes' = shells[Len(shells)].scopes
  /\ shells' = SubSeq(shells, 1, Len(shells) - 1)

Next ==
  \/ \E n \in Names : Write(n) \/ Declare(n) \/ Remove(n)
  \/ Enter \/ Leave
  \/ Fork \/ Join

Spec == Init /\ [][Next]_vars

=============================================================================
