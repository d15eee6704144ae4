------------------------------ MODULE FsCalls ------------------------------
(***************************************************************************)
(* Calls of async file-system methods and the interleaving of several      *)
(* callers.  A method runs without interruption between two awaits; a call *)
(* is the stack of its invocations (frames), the innermost first.  A frame *)
(* says what its invocation waits for (pc) and what it knows: has (an      *)
(* answer of exists), res (one of stat or read), kids (one of readdir, the *)
(* names still to be handled) and ret (how the invocation it awaited       *)
(* ended: "ok" or the error it threw).                                     *)
(***************************************************************************)
EXTENDS FsContract

CONSTANTS
  Callers,     \* who calls the file system
  Targets,     \* the paths they name
  LinkTargets, \* what symbolic links point to
  NameOrder,   \* the names, in the order readdir sorts them
  Ops,         \* the operations called
  MaxCalls,    \* bound: calls made in one behaviour
  MaxMixed     \* bound: later calls than this one start when no other runs

ASSUME CallsAssumption ==
  /\ MaxCalls \in Nat /\ MaxMixed \in Nat
  /\ LinkTargets \subseteq Targets

VARIABLES
  calls,  \* the call of each caller
  made,   \* calls made so far; the number of a call is what it writes
  calm    \* no two calls overlapped so far and each was well formed

Names == ToSet(NameOrder)

(* A directory has a name once.  Nobody names the root itself as an        *)
(* operand.                                                                *)
ASSUME TargetsAssumption ==
  /\ NameOrder \in Seq(Names)
  /\ IsInjective(NameOrder)
  /\ Targets \subseteq Seq(Names) \ {Root}

(* The names in S, in the order of readdir.                                *)
Sorted(S) ==
  LET upto[n \in 0..Len(NameOrder)] ==
        IF n = 0 THEN <<>>
        ELSE IF NameOrder[n] \in S THEN Append(upto[n - 1], NameOrder[n])
        ELSE upto[n - 1]
  IN upto[Len(NameOrder)]

NoOptions == [rec |-> FALSE, force |-> FALSE]

Recursive == [rec |-> TRUE, force |-> FALSE]

Req(op, p, q, o) == [op |-> op, p |-> p, q |-> q, o |-> o]

Request ==
  [op : {"mkdir"}, p : Targets, q : {Root}, o : {NoOptions, Recursive}]
    \cup [op : {"write", "append", "chmod", "utimes"}, p : Targets,
          q : {Root}, o : {NoOptions}]
    \cup [op : {"rm"}, p : Targets, q : {Root},
          o : {NoOptions, Recursive, [rec |-> TRUE, force |-> TRUE]}]
    \cup [op : {"cp"}, p : Targets, q : Targets, o : {NoOptions, Recursive}]
    \cup [op : {"mv", "link"}, p : Targets, q : Targets, o : {NoOptions}]
    \cup [op : {"symlink"}, p : Targets, q : LinkTargets, o : {NoOptions}]

(* The requests made.  Copying a directory into itself never ends (each    *)
(* level lists the copy made one level above), so that is not called.      *)
Requests ==
  {r \in Request :
     /\ r.op \in Ops
     /\ ~(r.op \in {"cp", "mv"} /\ Below(r.q, r.p))
     /\ r.op = "cp" => r.p # r.q
     /\ r.op = "symlink" => ~Under(r.p, r.q)}

Frame(fs, r, pc) ==
  [fs |-> fs, op |-> r.op, p |-> r.p, q |-> r.q, o |-> r.o, pc |-> pc,
   has |-> FALSE, res |-> None, kids |-> <<>>, ret |-> "ok"]

Idle(out) ==
  [stack |-> <<>>, req |-> [op |-> "none"], id |-> 0, out |-> out, before |-> <<>>]

Busy(c) == calls[c].stack # <<>>

Quiet == \A c \in Callers : ~Busy(c)

Top(c) == Head(calls[c].stack)

At(c, fs, op, pc) == Busy(c) /\ Top(c).fs = fs /\ Top(c).op = op /\ Top(c).pc = pc

MayCall(c) ==
  /\ ~Busy(c)
  /\ made < MaxCalls
  /\ made >= MaxMixed => Quiet

(* Caller c calls the file system: its frames, the request and the tree it *)
(* finds (kept while calls are calm, when it is what the promise is about).*)
Call(c, r, frames, tree, sensible) ==
  /\ made' = made + 1
  /\ calm' = (calm /\ sensible /\ Quiet)
  /\ calls' = [calls EXCEPT ![c] =
       [stack |-> frames, req |-> r, id |-> made', out |-> "none",
        before |-> IF calm' THEN tree ELSE <<>>]]

(* The invocation of c goes on waiting, for something else.                *)
Await(c, frame) ==
  calls' = [calls EXCEPT ![c].stack = <<frame>> \o Tail(@)]

(* The invocation of c calls another one and awaits it.                    *)
Invoke(c, frame, frames) ==
  calls' = [calls EXCEPT ![c].stack = frames \o <<frame>> \o Tail(@)]

(* The invocation of c ends: with "ok" or with the error it throws.        *)
Return(c, out) ==
  LET rest == Tail(calls[c].stack)
  IN calls' = [calls EXCEPT ![c] =
       IF rest = <<>> THEN Idle(out)
       ELSE [@ EXCEPT !.stack = <<[Head(rest) EXCEPT !.ret = out]>> \o Tail(rest)]]

Ends(c) == Busy(c) /\ calls'[c].stack = <<>>

CallsOK ==
  /\ made \in 0..MaxCalls /\ calm \in BOOLEAN
  /\ \A c \in Callers : Busy(c) => calls[c].req \in Requests /\ calls[c].id \in 1..made

InitCalls ==
  /\ calls = [c \in Callers |-> Idle("none")]
  /\ made = 0
  /\ calm = TRUE

=============================================================================
