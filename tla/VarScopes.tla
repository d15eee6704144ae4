----------------------------- MODULE VarScopes -----------------------------
(***************************************************************************)
(* Shell variables: one map of values (env) and the bookkeeping of         *)
(* LocalScopingState (src/src/interpreter/types.ts) that gives it dynamic  *)
(* scope: the values that `local` hides, the cells of one name that one    *)
(* call declares several times, the depth of the last declaration, and     *)
(* the bindings of prefix assignments (x=1 cmd).  A script runs local,     *)
(* unset, assignments, function calls, prefixed commands, subshells and    *)
(* command substitutions, and leaves them by return, exit and break.       *)
(***************************************************************************)
EXTENDS Integers, Sequences, FiniteSets

CONSTANTS Names, Values, Unset, NoCell,
          MaxCalls,    \* bound: calls in progress
          MaxOthers,   \* bound: other constructs in progress
          MaxCells,    \* bound: cells of a name on localVarStack
          MaxBindings  \* bound: entries of tempEnvBindings, also leaked ones

ASSUME BoundsAssumption ==
  /\ MaxCalls \in Nat /\ MaxOthers \in Nat
  /\ MaxCells \in Nat /\ MaxBindings \in Nat

ASSUME MarkersAssumption == Unset \notin Values /\ NoCell \notin Values \cup {Unset}

VARIABLES
  env,                 \* state.env
  localScopes,         \* for each call, the value that a local hides
  localVarDepth,       \* the call depth of the last local, 0 for none
  localVarStack,       \* the saved values of each name, NoCell for no entry
  fullyUnsetLocals,    \* the scope in which the last cell was unset
  tempEnvBindings,     \* for each prefixed command, the values below it
  touched,             \* accessedTempEnvVars and mutatedTempEnvVars: the code
                       \* only asks whether a name is in one of them
  frames,              \* the constructs in progress, the JavaScript stack
  thrown,              \* the control-flow error on its way up
  plain                \* names the script neither prefixes nor declares
                       \* local in a substitution or a pipeline

books == <<localScopes, localVarDepth, localVarStack, fullyUnsetLocals>>
temps == <<tempEnvBindings, touched>>
vars == <<env, books, temps, frames, thrown, plain>>

Contents == Values \cup {Unset}
Scope == [Names -> Contents \cup {NoCell}]
NoScope == [n \in Names |-> NoCell]
Cell == [value : Contents, scopeIndex : Nat]

Depth == Len(localScopes)          \* callDepth, and scopeIndex + 1
Last(s) == s[Len(s)]
Front(s) == SubSeq(s, 1, Len(s) - 1)

(* Subshells save the scopes, substitutions and pipelines the values only. *)
Kinds == {"call", "prefix", "subshell", "piece"}

Is(kind) == frames # <<>> /\ Last(frames).kind = kind
Runs == thrown = "none"
Room(kind) == IF kind = "call" THEN Depth < MaxCalls
              ELSE Len(frames) - Depth < MaxOthers

Init == /\ env \in [Names -> Contents]
        /\ localScopes = <<>>
        /\ localVarDepth = [n \in Names |-> 0]
        /\ localVarStack = [n \in Names |-> NoCell]
        /\ fullyUnsetLocals = [n \in Names |-> NoCell]
        /\ tempEnvBindings = <<>>
        /\ touched = {}
        /\ frames = <<>>
        /\ thrown = "none"
        /\ plain \in SUBSET Names

-----------------------------------------------------------------------------
(* Prefix bindings *)

Binding(n) == {i \in DOMAIN tempEnvBindings : tempEnvBindings[i][n] # NoCell}

Bound(n) == Binding(n) # {}

InnerBinding(n) == CHOOSE i \in Binding(n) : \A j \in Binding(n) : j <= i

Underlying(n) == tempEnvBindings[InnerBinding(n)][n]

(* What a local declaration hides. *)
Hidden(n) == IF Bound(n) THEN Underlying(n) ELSE env[n]

(* In a construct that saves the values without the scopes, in no call that *)
(* was made in it. *)
InPiece == \E i \in DOMAIN frames :
             /\ frames[i].kind = "piece"
             /\ \A j \in (i + 1) .. Len(frames) : frames[j].kind # "call"

InAnyPiece == \E i \in DOMAIN frames : frames[i].kind = "piece"

-----------------------------------------------------------------------------
(* Commands *)

Assign(n, v) ==
  /\ env' = [env EXCEPT ![n] = v]
  /\ touched' = IF Bound(n) THEN touched \cup {n} ELSE touched
  /\ UNCHANGED <<books, tempEnvBindings>>

Read(n) ==
  /\ env[n] # Unset /\ Bound(n)
  /\ touched' = touched \cup {n}
  /\ UNCHANGED <<env, books, tempEnvBindings>>

HasStack(n) == localVarStack[n] # NoCell

(* A bug: the index of the call around. *)
PushedOuter(n, v) ==
  Append(IF HasStack(n) THEN localVarStack[n] ELSE <<>>,
         [value |-> v, scopeIndex |-> Depth - 2])

Pushed(n, v) ==
  Append(IF HasStack(n) THEN localVarStack[n] ELSE <<>>,
         [value |-> v, scopeIndex |-> Depth - 1])

(* A bug: a second local of a call hides the first one's value. *)
DeclaredAgain(n) == [localScopes EXCEPT ![Depth][n] = Hidden(n)]

Declared(n) ==
  IF localScopes[Depth][n] # NoCell THEN localScopes
  ELSE [localScopes EXCEPT ![Depth][n] = Hidden(n)]

MayDeclare(n) == Depth > 0 /\ (n \in plain => ~InPiece)

Local(n, v) ==
  /\ MayDeclare(n)
  /\ HasStack(n) => Len(localVarStack[n]) < MaxCells
  /\ localVarStack' = [localVarStack EXCEPT
       ![n] = Pushed(n, IF n \in touched THEN env[n] ELSE Hidden(n))]
  /\ localScopes' = Declared(n)
  /\ env' = [env EXCEPT ![n] = v]
  /\ localVarDepth' = [localVarDepth EXCEPT ![n] = Depth]
  /\ UNCHANGED <<fullyUnsetLocals, temps>>

LocalBare(n) ==
  /\ MayDeclare(n)
  /\ localScopes' = Declared(n)
  /\ env' = IF localScopes[Depth][n] # NoCell \/ Bound(n) THEN env
            ELSE [env EXCEPT ![n] = Unset]
  /\ localVarDepth' = [localVarDepth EXCEPT ![n] = Depth]
  /\ UNCHANGED <<localVarStack, fullyUnsetLocals, temps>>

-----------------------------------------------------------------------------
(* unset *)

Deleted(n) == [env EXCEPT ![n] = Unset]

(* handleTempEnvUnset: the value below the prefix assignment comes back. *)
Revealed(n) ==
  /\ env' = [env EXCEPT ![n] = Underlying(n)]
  /\ tempEnvBindings' = [tempEnvBindings EXCEPT ![InnerBinding(n)][n] = NoCell]

(* performCellUnset, a name with saved cells: the last one is removed. *)
PopCell(n) ==
  LET entry == Last(localVarStack[n])
      rest == Front(localVarStack[n])
  IN IF rest # <<>>
     THEN /\ env' = [env EXCEPT ![n] = entry.value]
          /\ localVarStack' = [localVarStack EXCEPT ![n] = rest]
          /\ localVarDepth' = [localVarDepth EXCEPT ![n] = Last(rest).scopeIndex + 1]
          /\ UNCHANGED <<fullyUnsetLocals, tempEnvBindings>>
     ELSE /\ localVarStack' = [localVarStack EXCEPT ![n] = NoCell]
          /\ localVarDepth' = [localVarDepth EXCEPT ![n] = 0]
          /\ fullyUnsetLocals' = [fullyUnsetLocals EXCEPT ![n] = entry.scopeIndex]
          /\ IF Bound(n) THEN Revealed(n)
             ELSE /\ env' = [env EXCEPT ![n] = entry.value]
                  /\ UNCHANGED tempEnvBindings

(* A name whose cells a local-unset has used up. *)
NoMoreCells(n) ==
  /\ env' = Deleted(n)
  /\ localVarStack' = [localVarStack EXCEPT ![n] = NoCell]
  /\ localVarDepth' = [localVarDepth EXCEPT ![n] = 0]
  /\ fullyUnsetLocals' = [fullyUnsetLocals EXCEPT ![n] = 0]
  /\ UNCHANGED tempEnvBindings

Scopes(n) == {i \in DOMAIN localScopes : localScopes[i][n] # NoCell}

InnerScope(n) == CHOOSE i \in Scopes(n) : \A j \in Scopes(n) : j <= i

OuterDepth(n) ==
  LET outer == Scopes(n) \ {InnerScope(n)}
  IN IF outer = {} THEN 0 ELSE CHOOSE i \in outer : \A j \in outer : j <= i

(* A name without saved cells: the scope that declares it gives it up. *)
DropFromScope(n) ==
  /\ IF Scopes(n) = {} THEN UNCHANGED <<env, localScopes, localVarDepth>>
     ELSE /\ env' = [env EXCEPT ![n] = localScopes[InnerScope(n)][n]]
          /\ localScopes' = [localScopes EXCEPT ![InnerScope(n)][n] = NoCell]
          /\ localVarDepth' = [localVarDepth EXCEPT ![n] = OuterDepth(n)]
  /\ UNCHANGED <<localVarStack, fullyUnsetLocals, tempEnvBindings>>

CellUnset(n) ==
  IF HasStack(n)
  THEN /\ IF localVarStack[n] # <<>> THEN PopCell(n) ELSE NoMoreCells(n)
       /\ UNCHANGED localScopes
  ELSE DropFromScope(n)

(* The declaring call itself unsets the name. *)
ValueUnset(n) ==
  /\ IF n \in touched /\ HasStack(n) /\ localVarStack[n] # <<>>
     THEN /\ env' = [env EXCEPT ![n] = Last(localVarStack[n]).value]
          /\ localVarStack' = [localVarStack EXCEPT ![n] = Front(@)]
     ELSE env' = Deleted(n) /\ UNCHANGED localVarStack
  /\ UNCHANGED <<localScopes, localVarDepth, fullyUnsetLocals, tempEnvBindings>>

Dynamic(n) == localVarDepth[n] # 0 /\ localVarDepth[n] # Depth

UnsetVar(n) ==
  /\ n \in plain => ~InAnyPiece
  /\ IF Dynamic(n) THEN CellUnset(n)
     ELSE IF fullyUnsetLocals[n] # NoCell
     THEN env' = Deleted(n) /\ UNCHANGED <<books, tempEnvBindings>>
     ELSE IF localVarDepth[n] # 0 THEN ValueUnset(n)
     ELSE IF Bound(n) THEN Revealed(n) /\ UNCHANGED books
     ELSE env' = Deleted(n) /\ UNCHANGED <<books, tempEnvBindings>>
  /\ UNCHANGED touched

Command(n) ==
  /\ Runs
  /\ \/ \E v \in Values : Assign(n, v) \/ Local(n, v)
     \/ LocalBare(n) \/ UnsetVar(n) \/ Read(n)
  /\ UNCHANGED <<frames, thrown, plain>>

-----------------------------------------------------------------------------
(* Constructs: on their way in *)

Push(frame) ==
  /\ Runs /\ Room(frame.kind)
  /\ frames' = Append(frames, frame)
  /\ UNCHANGED <<thrown, plain>>

(* callFunction *)
Call ==
  /\ Push([kind |-> "call"])
  /\ localScopes' = Append(localScopes, NoScope)
  /\ UNCHANGED <<env, localVarDepth, localVarStack, fullyUnsetLocals, temps>>

(* n=v cmd; cmd is a builtin, a function or eval. *)
Prefix(n, v) ==
  /\ n \notin plain /\ Len(tempEnvBindings) < MaxBindings
  /\ Push([kind |-> "prefix", name |-> n, value |-> env[n]])
  /\ env' = [env EXCEPT ![n] = v]
  /\ tempEnvBindings' = Append(tempEnvBindings, [NoScope EXCEPT ![n] = env[n]])
  /\ UNCHANGED <<books, touched>>

Subshell ==
  /\ Push([kind |-> "subshell", env |-> env, scopes |-> localScopes,
           depth |-> localVarDepth, stack |-> localVarStack, fully |-> fullyUnsetLocals])
  /\ UNCHANGED <<env, books, temps>>

(* A command substitution, or a command of a pipeline: the code saves the   *)
(* values only, the scopes are recorded for Shells.                         *)
Piece ==
  /\ Push([kind |-> "piece", env |-> env, scopes |-> localScopes])
  /\ UNCHANGED <<env, books, temps>>

-----------------------------------------------------------------------------
(* Constructs: on their way out *)

(* A bug: only the last cell of the scope goes. *)
TrimmedOnce(s) ==
  IF s = <<>> THEN NoCell
  ELSE IF Last(s).scopeIndex # Depth - 1 THEN s
  ELSE IF Len(s) = 1 THEN NoCell ELSE Front(s)

(* The cells of the scope that ends go, from the top of the stack only. *)
Trimmed(s) ==
  LET kept == {i \in DOMAIN s : s[i].scopeIndex # Depth - 1}
      top == IF kept = {} THEN 0 ELSE CHOOSE i \in kept : \A j \in kept : j <= i
  IN IF top = 0 THEN NoCell ELSE SubSeq(s, 1, top)

Cleanup ==
  /\ env' = [n \in Names |-> IF Last(localScopes)[n] = NoCell THEN env[n]
                             ELSE Last(localScopes)[n]]
  /\ localScopes' = Front(localScopes)
  /\ localVarStack' = [n \in Names |->
       IF HasStack(n) THEN Trimmed(localVarStack[n]) ELSE NoCell]
  /\ fullyUnsetLocals' = [n \in Names |->
       IF fullyUnsetLocals[n] = Depth - 1 THEN NoCell ELSE fullyUnsetLocals[n]]
  /\ UNCHANGED <<localVarDepth, temps>>

(* Prefix assignments are undone when the command returns a result... *)
Restore ==
  LET f == Last(frames)
  IN /\ env' = IF fullyUnsetLocals[f.name] # NoCell THEN env
               ELSE [env EXCEPT ![f.name] = f.value]
     /\ tempEnvBindings' = Front(tempEnvBindings)
     /\ UNCHANGED <<books, touched>>

(* ...and not when it throws. *)
NotRestored == UNCHANGED <<env, books, temps>>

RestoreShell ==
  LET f == Last(frames)
  IN /\ env' = f.env /\ localScopes' = f.scopes
     /\ localVarDepth' = f.depth /\ localVarStack' = f.stack
     /\ fullyUnsetLocals' = f.fully
     /\ UNCHANGED temps

RestoreValues == env' = Last(frames).env /\ UNCHANGED <<books, temps>>

Pop == frames' = Front(frames) /\ UNCHANGED plain

(* The construct ends with a result. *)
End ==
  /\ Runs
  /\ \/ Is("call") /\ Cleanup
     \/ Is("prefix") /\ Restore
     \/ Is("subshell") /\ RestoreShell
     \/ Is("piece") /\ RestoreValues
  /\ Pop /\ UNCHANGED thrown

(* return, exit, and the break of a loop around the prefixed command. *)
Throw ==
  /\ Runs
  /\ \/ thrown' = "return" /\ Depth > 0
     \/ thrown' = "exit" /\ frames # <<>>
     \/ thrown' = "break" /\ Is("prefix")
  /\ UNCHANGED <<env, books, temps, frames, plain>>

Caught(kind) == CASE thrown = "return" -> kind \in {"call", "subshell"}
                  [] thrown = "exit" -> kind \in {"subshell", "piece"}
                  [] thrown = "break" -> kind = "prefix"

Unwind ==
  /\ ~Runs /\ frames # <<>>
  /\ \/ Is("call") /\ Cleanup
     \/ Is("prefix") /\ NotRestored
     \/ Is("subshell") /\ RestoreShell
     \/ Is("piece") /\ RestoreValues
  /\ Pop
  /\ thrown' = IF Caught(Last(frames).kind) THEN "none" ELSE thrown

Next ==
  \/ \E n \in Names : Command(n)
  \/ Call \/ Subshell \/ Piece
  \/ \E n \in Names, v \in Values : Prefix(n, v)
  \/ End \/ Throw \/ Unwind

Spec == Init /\ [][Next]_vars

-----------------------------------------------------------------------------
(* Properties *)

TypeOK ==
  /\ env \in [Names -> Contents]
  /\ localScopes \in Seq(Scope)
  /\ localVarDepth \in [Names -> Nat]
  /\ localVarStack \in [Names -> Seq(Cell) \cup {NoCell}]
  /\ fullyUnsetLocals \in [Names -> Nat \cup {NoCell}]
  /\ tempEnvBindings \in Seq(Scope)
  /\ touched \subseteq Names
  /\ \A i \in DOMAIN frames : frames[i].kind \in Kinds
  /\ thrown \in {"none", "return", "exit", "break"}
  /\ plain \subseteq Names

(* The cells of a name are in the order of the calls that declared them,    *)
(* and none of them, nor a record of the last one's unset, outlives its     *)
(* call: clearLocalVarStackForScope looks at the top of each stack only,    *)
(* and a record left over would keep a later prefix assignment in place.    *)
BooksMatchCalls ==
  \A n \in Names :
    /\ HasStack(n) => \A i \in DOMAIN localVarStack[n] :
         /\ localVarStack[n][i].scopeIndex < Depth
         /\ \A j \in 1 .. i :
              localVarStack[n][j].scopeIndex <= localVarStack[n][i].scopeIndex
    /\ fullyUnsetLocals[n] # NoCell => fullyUnsetLocals[n] < Depth

(* The cell of scope i, read off what the scopes inside it hide. *)
CellOf(n, e, scopes, i) ==
  LET inner == {j \in (i + 1) .. Len(scopes) : scopes[j][n] # NoCell}
  IN IF inner = {} THEN e[n]
     ELSE scopes[CHOOSE j \in inner : \A k \in inner : j <= k][n]

CellsGlobal(e, scopes) ==
  [n \in Names |-> IF n \in plain THEN CellOf(n, e, scopes, 0) ELSE Unset]

CellsScopes(e, scopes) ==
  [i \in DOMAIN scopes |-> [n \in Names |->
     IF n \in plain /\ scopes[i][n] # NoCell THEN CellOf(n, e, scopes, i) ELSE NoCell]]

(* The d-th smallest element of S. *)
Nth(S, d) == CHOOSE i \in S : Cardinality({j \in S : j <= i}) = d

Forks == {i \in DOMAIN frames : frames[i].kind \in {"subshell", "piece"}}

Shells ==
  [d \in 1 .. Cardinality(Forks) |->
     LET f == frames[Nth(Forks, d)]
     IN [global |-> CellsGlobal(f.env, f.scopes), scopes |-> CellsScopes(f.env, f.scopes)]]

Cells == INSTANCE DynamicScope
  WITH global <- CellsGlobal(env, localScopes),
       scopes <- CellsScopes(env, localScopes),
       shells <- Shells

(* Variables that a script neither prefixes nor declares local in a         *)
(* substitution have dynamic scope as if every call had cells of its own.   *)
ImplementsScopes == Cells!Spec

=============================================================================
