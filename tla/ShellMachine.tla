----------------------------- MODULE ShellMachine -----------------------------
(***************************************************************************)
(* The tree-walking interpreter behind one Bash.exec call, as a pushdown   *)
(* machine.  The JavaScript call stack of the awaited executeX functions   *)
(* is `stack`, a frame per function in progress; `ctl` says what moves     *)
(* next (the top frame runs, receives a result, or receives a thrown       *)
(* ControlFlowError); `sh` is ctx.state, the one mutable record that every *)
(* frame shares.  The program being run is chosen as it is executed: each  *)
(* action of the "command" section is one form of the abstract syntax,     *)
(* and `Forms` says which of them a run lets the program use.              *)
(*                                                                         *)
(* Data is abstracted to what control and scoping can tell apart: an exit  *)
(* status is 0 or 1, the environment is the value of one variable, the     *)
(* function table is whether one function is defined.  Output, globbing,   *)
(* redirections and positional parameters are left out.                    *)
(***************************************************************************)
EXTENDS Integers, Sequences, FiniteSets

CONSTANTS
  Forms,                \* the syntactic forms the modelled programs use
  MaxCommandCount,      \* limits.maxCommandCount
  MaxCallDepth,         \* limits.maxCallDepth
  MaxLoopIterations,    \* limits.maxLoopIterations
  MaxSubstitutionDepth, \* limits.maxSubstitutionDepth
  MaxPipelines,         \* bound: pipelines joined by && and || in a statement
  MaxSegments,          \* bound: commands in a pipeline
  MaxLevel,             \* bound: the n of `break n` and `continue n`
  LastPipe,             \* shopt -s lastpipe
  Defined, Strict,      \* the script begins with a definition of f, with set -e
  Values, InitialValue, \* values of the shell variable, and its first value
  Dirs, InitialDir      \* directories of the file system, and options.cwd

ASSUME LimitsAssumption ==
  /\ MaxCommandCount \in Nat /\ MaxCommandCount >= 3
  /\ MaxCallDepth \in Nat
  /\ MaxLoopIterations \in Nat
  /\ MaxSubstitutionDepth \in Nat
ASSUME BoundsAssumption ==
  /\ MaxPipelines \in Nat \ {0}
  /\ MaxSegments \in Nat \ {0}
  /\ MaxLevel \in Nat \ {0}
ASSUME DataAssumption ==
  /\ LastPipe \in BOOLEAN /\ Defined \in BOOLEAN /\ Strict \in BOOLEAN
  /\ InitialValue \in Values
  /\ InitialDir \in Dirs

VARIABLES
  stack,  \* the interpreter functions in progress, innermost last
  ctl,    \* what happens next
  sh      \* InterpreterState

vars == <<stack, ctl, sh>>

-----------------------------------------------------------------------------
(* The state.                                                              *)

LoopKinds     == {"for", "while", "until"}
BoundaryKinds == {"subshell", "ush"}
ScriptUsers   == {"eval", "source", "ush", "subst"}
Kinds == LoopKinds \cup BoundaryKinds \cup ScriptUsers \cup
  {"script", "list", "cond", "if", "case", "group", "call", "simple", "stmt", "pipe"}
\* `by` is history, kept for the properties: who set the status of a result.
\* "own": the command itself, and no statement ended inside it; "mixed": the
\* command itself, after a statement inside it (a substitution, an earlier
\* command of the pipeline) ended; "inner": a statement nested in it.
Makers == {"own", "mixed", "inner"}
Phases == {"", "next", "cond", "body", "value", "words", "run"} \cup Makers

ScopeExits == {"break", "continue", "return"}
Expansion  == {"nounset", "badsub", "arith"}
Errors == ScopeExits \cup Expansion \cup {"exit", "errexit", "limit", "subexit", "parse"}

Status == {0, 1}

ShellState ==
  [loopDepth: Nat, parentHasLoop: BOOLEAN, callDepth: Nat, scopes: Nat,
   sourceDepth: Nat, substDepth: Nat, inCondition: BOOLEAN,
   errexitSafe: BOOLEAN, errexit: BOOLEAN, pipefail: BOOLEAN,
   lastExit: Status, count: Nat, env: Values, cwd: Dirs, fns: BOOLEAN]

\* The state of a new Interpreter: Bash.exec copies this.state, whose fields
\* no execution assigns except commandCount.
Fresh ==
  [loopDepth |-> 0, parentHasLoop |-> FALSE, callDepth |-> 0, scopes |-> 0,
   sourceDepth |-> 0, substDepth |-> 0, inCondition |-> FALSE,
   errexitSafe |-> FALSE, errexit |-> Strict, pipefail |-> FALSE,
   lastExit |-> 0, env |-> InitialValue,
   count |-> 1 + (IF Defined THEN 1 ELSE 0) + (IF Strict THEN 1 ELSE 0),
   cwd |-> InitialDir, fns |-> Defined]

\* A frame: which function (k), where in it (ph), its counters and local
\* variables, and the part of ctx.state it saved (sv; Fresh elsewhere).
FrameState ==
  [k: Kinds, ph: Phases, n: Nat, m: Nat, code: Status, aux: Nat,
   flag: BOOLEAN, sv: ShellState]

Frame(k, ph) ==
  [k |-> k, ph |-> ph, n |-> 0, m |-> 0, code |-> 0, aux |-> 0,
   flag |-> FALSE, sv |-> Fresh]

ControlState ==
  [t: {"run", "ret", "throw", "resolved", "rejected"}, e: Errors \cup {"none"},
   lv: Nat, code: Status, by: Makers]

Run == [t |-> "run", e |-> "none", lv |-> 0, code |-> 0, by |-> "inner"]
Result(c, by) == [t |-> "ret", e |-> "none", lv |-> 0, code |-> c, by |-> by]
Thrown(e, lv, c) == [t |-> "throw", e |-> e, lv |-> lv, code |-> c, by |-> "inner"]
Finished(t) == [t |-> t, e |-> "none", lv |-> 0, code |-> 0, by |-> "inner"]

\* Every variable has its type; a depth that is taken off twice leaves Nat.
TypeOK ==
  /\ stack \in Seq(FrameState)
  /\ ctl \in ControlState
  /\ sh \in ShellState

-----------------------------------------------------------------------------
(* Moves of the machine.                                                   *)

Top == stack[Len(stack)]
Below == SubSeq(stack, 1, Len(stack) - 1)

Running(K)   == ctl.t = "run" /\ stack # <<>> /\ Top.k \in K
Returned(K)  == ctl.t = "ret" /\ stack # <<>> /\ Top.k \in K
Throwing(K)  == ctl.t = "throw" /\ stack # <<>> /\ Top.k \in K

Update(f)    == [stack EXCEPT ![Len(stack)] = f]
Call(f)      == stack' = Append(stack, f) /\ ctl' = Run
CallFrom(g, f) == stack' = Append(Update(g), f) /\ ctl' = Run
Stay(f)      == stack' = Update(f) /\ ctl' = Run
Return(c)    == stack' = Below /\ ctl' = Result(c, "inner")
Forward(c)   == stack' = Below /\ ctl' = Result(c, IF Top.n > 1 /\ ctl.by = "own"
                                                  THEN "mixed" ELSE ctl.by)
Finish(c)    == stack' = Below /\ ctl' = Result(c, IF Top.m = 0 THEN "own" ELSE "mixed")
Throw(e, c)  == stack' = Below /\ ctl' = Thrown(e, 0, c)
ThrowHere(e) == ctl' = Thrown(e, 0, 1) /\ UNCHANGED stack
Rethrow      == stack' = Below /\ UNCHANGED ctl

-----------------------------------------------------------------------------
(* Statement lists: the loops over StatementNode[] in executeScript,       *)
(* executeStatements, executeCondition, executeGroup, executeSubshell, and *)
(* the bodies and conditions of the loop constructs.                       *)

TakesStatements(f) ==
  \/ f.k \in {"script", "list", "cond", "group", "subshell"}
  \/ f.k \in LoopKinds /\ f.ph = "body"
  \/ f.k = "while" /\ f.ph = "cond"

\* commandCount + 1; past the limit its value is told from nothing else, so it
\* stops at MaxCommandCount + 1.
Counted == IF sh.count > MaxCommandCount THEN sh.count ELSE sh.count + 1

\* Mutant of ExecuteStatement: errexitSafe is not reset.
StatementKeepsSafe ==
  /\ ctl.t = "run" /\ stack # <<>> /\ TakesStatements(Top)
  /\ Counted <= MaxCommandCount
  /\ Call(Frame("stmt", "own"))
  /\ sh' = [sh EXCEPT !.count = Counted]

\* executeStatement: the command limit, a deferred syntax error, the reset of
\* errexitSafe.
ExecuteStatement ==
  /\ ctl.t = "run" /\ stack # <<>> /\ TakesStatements(Top)
  /\ \/ /\ Counted > MaxCommandCount
        /\ ThrowHere("limit")
        /\ sh' = [sh EXCEPT !.count = Counted]
     \/ /\ Counted <= MaxCommandCount
        /\ "deferred" \in Forms
        /\ ThrowHere("parse")
        /\ sh' = [sh EXCEPT !.count = Counted]
     \/ /\ Counted <= MaxCommandCount
        /\ Call(Frame("stmt", "own"))
        /\ sh' = [sh EXCEPT !.count = Counted, !.errexitSafe = FALSE]

StatementReturned ==
  /\ ctl.t = "ret" /\ stack # <<>> /\ TakesStatements(Top)
  /\ IF Top.k = "while" /\ Top.ph = "cond"
     THEN Stay([Top EXCEPT !.aux = ctl.code, !.flag = TRUE])
     ELSE Stay([Top EXCEPT !.code = ctl.code, !.flag = TRUE])
  /\ sh' = IF Top.k = "script" THEN [sh EXCEPT !.lastExit = ctl.code] ELSE sh

ScriptEnds ==
  /\ Running({"script"})
  /\ Return(Top.code)
  /\ UNCHANGED sh

\* executeScript's catch clause.
ScriptCatches ==
  /\ Throwing({"script"})
  /\ \/ /\ ctl.e \in {"exit", "limit", "return", "subexit", "parse"}
        /\ Rethrow /\ UNCHANGED sh
     \/ /\ ctl.e \in {"errexit", "nounset", "badsub"}
        /\ LET c == IF ctl.e = "errexit" THEN ctl.code ELSE 1 IN
             /\ Return(c)
             /\ sh' = [sh EXCEPT !.lastExit = c]
     \/ /\ ctl.e = "arith"
        /\ Stay([Top EXCEPT !.code = 1])
        /\ sh' = [sh EXCEPT !.lastExit = 1]
     \/ /\ ctl.e \in {"break", "continue"}
        /\ IF sh.loopDepth > 0 THEN Rethrow ELSE Stay(Top)
        /\ UNCHANGED sh

\* executeStatements: bodies of if and case.
ListEnds ==
  /\ Running({"list"}) /\ Top.flag
  /\ Return(Top.code)
  /\ UNCHANGED sh

ListCatches ==
  /\ Throwing({"list"})
  /\ IF ctl.e \in Expansion \cup {"parse"} THEN Return(1) ELSE Rethrow
  /\ UNCHANGED sh

\* executeCondition: inCondition is saved on entry and restored in a finally.
Condition == [Frame("cond", "") EXCEPT !.sv.inCondition = sh.inCondition]

\* Mutant of ConditionLeaves: the flag is cleared and not given back.
ConditionClears ==
  /\ \/ Running({"cond"}) /\ Top.flag /\ Return(Top.code)
     \/ Throwing({"cond"}) /\ Rethrow
  /\ sh' = [sh EXCEPT !.inCondition = FALSE]

ConditionLeaves ==
  /\ \/ Running({"cond"}) /\ Top.flag /\ Return(Top.code)
     \/ Throwing({"cond"}) /\ Rethrow
  /\ sh' = [sh EXCEPT !.inCondition = Top.sv.inCondition]

-----------------------------------------------------------------------------
(* One statement: pipelines joined by && and ||.                           *)

\* A pipeline whose operator matches the status so far runs, one whose
\* operator does not is skipped; `aux` is lastExecutedIndex.
NextPipeline ==
  /\ Running({"stmt"})
  /\ Top.n = 0 \/ ("andor" \in Forms /\ Top.n < MaxPipelines)
  /\ \/ \E negated \in {FALSE} \cup (IF "not" \in Forms THEN {TRUE} ELSE {}),
           commands \in 1 .. (IF "pipe" \in Forms THEN MaxSegments ELSE 1) :
          CallFrom([Top EXCEPT !.n = @ + 1, !.flag = negated],
                   [Frame("pipe", "") EXCEPT !.m = commands, !.flag = negated])
     \/ (Top.n > 0 /\ Stay([Top EXCEPT !.n = @ + 1]))
  /\ UNCHANGED sh

PipelineReturned ==
  /\ Returned({"stmt"})
  /\ Stay([Top EXCEPT !.code = ctl.code, !.aux = Top.n,
                      !.ph = IF Top.ph = "own" \/ ctl.by # "own" THEN ctl.by ELSE "mixed"])
  /\ sh' = [sh EXCEPT !.lastExit = ctl.code]

\* The errexit test at the end of executeStatement.
StatementEnds ==
  /\ Running({"stmt"}) /\ Top.n > 0
  /\ LET shortCircuited == Top.aux < Top.n
         fires == /\ sh.errexit /\ Top.code # 0 /\ ~shortCircuited
                  /\ ~Top.flag /\ ~sh.inCondition /\ ~sh.errexitSafe
     IN /\ IF fires THEN Throw("errexit", Top.code) ELSE Return(Top.code)
        /\ sh' = [sh EXCEPT !.errexitSafe = shortCircuited \/ Top.flag \/ @]

StatementThrows ==
  /\ Throwing({"stmt"}) /\ Rethrow /\ UNCHANGED sh

-----------------------------------------------------------------------------
(* Pipelines.  The environment is saved around each command that runs in a *)
(* subshell context; `code` is pipefailExitCode.                           *)

RunsInSubshell(p) == p.m > 1 /\ (p.n < p.m \/ ~LastPipe)

\* The pipeline calls executeCommand on its next command.
Segment == [Top EXCEPT !.n = @ + 1, !.sv.env = sh.env]
Command(form) == Running({"pipe"}) /\ Top.n < Top.m /\ form \in Forms
Start(f) == CallFrom(Segment, f)

CollectSegment(c) ==
  LET pf   == IF c # 0 THEN c ELSE Top.code
      last == IF sh.pipefail /\ pf # 0 THEN pf ELSE c
  IN /\ IF Top.n < Top.m
        THEN Stay([Top EXCEPT !.code = pf])
        ELSE Forward(IF Top.flag THEN 1 - last ELSE last)
     /\ sh' = IF RunsInSubshell(Top) THEN [sh EXCEPT !.env = Top.sv.env] ELSE sh

SegmentReturned == Returned({"pipe"}) /\ CollectSegment(ctl.code)

\* Mutant of SegmentThrows: the environment is restored on success only.
SegmentThrowLeaks ==
  /\ Throwing({"pipe"})
  /\ \/ ctl.e = "badsub" /\ CollectSegment(1)
     \/ ctl.e # "badsub" /\ Rethrow /\ UNCHANGED sh

SegmentThrows ==
  /\ Throwing({"pipe"})
  /\ \/ ctl.e = "badsub" /\ CollectSegment(1)
     \/ ctl.e \in {"exit", "errexit"} /\ Top.m > 1 /\ CollectSegment(ctl.code)
     \/ /\ ctl.e # "badsub" /\ ~(ctl.e \in {"exit", "errexit"} /\ Top.m > 1)
        /\ Rethrow
        /\ sh' = IF RunsInSubshell(Top) THEN [sh EXCEPT !.env = Top.sv.env] ELSE sh

-----------------------------------------------------------------------------
(* Compound commands.                                                      *)

\* A command of the pipeline: if, case, a loop, { }, ( ) or f().
EnterIf   == Command("if") /\ Start(Frame("if", "cond")) /\ UNCHANGED sh
EnterCase == Command("case") /\ Start(Frame("case", "next")) /\ UNCHANGED sh
EnterGroup == Command("group") /\ Start(Frame("group", "")) /\ UNCHANGED sh
DefineFunction ==
  /\ Command("def")
  /\ stack' = Update(Segment) /\ ctl' = Result(0, "own")
  /\ sh' = [sh EXCEPT !.fns = TRUE]

\* A redirection of the command fails to open (status 1), or a word of it, the
\* list of a for or the subject of a case, fails to expand.
CompoundFails ==
  /\ \E form \in {"for", "case", "subshell"} : Command(form)
  /\ stack' = Update(Segment)
  /\ \/ ctl' = Result(1, "own")
     \/ /\ {"for", "case"} \cap Forms # {}
        /\ \E e \in Expansion \cap Forms : ctl' = Thrown(e, 0, 1)
  /\ UNCHANGED sh

\* executeIf.
EvaluateIfCondition ==
  /\ Running({"if"}) /\ Top.ph = "cond"
  /\ Call(Condition)
  /\ sh' = [sh EXCEPT !.inCondition = TRUE]

IfReturned ==
  /\ Returned({"if"})
  /\ \/ Top.ph = "body" /\ Return(ctl.code)
     \/ /\ Top.ph = "cond"
        /\ CallFrom([Top EXCEPT !.ph = "body"], Frame("list", ""))
     \/ Top.ph = "cond" /\ ctl.code # 0 /\ Stay(Top)
     \/ Top.ph = "cond" /\ ctl.code # 0 /\ Return(0)
  /\ UNCHANGED sh

\* executeCase: the body of an item that matches, no item that matches any
\* more, an empty body; and the terminators ;; (leave) and ;& or ;;& (go on).
CaseItem ==
  /\ Running({"case"})
  /\ Call(Frame("list", "")) \/ Return(Top.code) \/ Return(0)
  /\ UNCHANGED sh

CaseReturned ==
  /\ Returned({"case"})
  /\ Return(ctl.code) \/ Stay([Top EXCEPT !.code = ctl.code])
  /\ UNCHANGED sh

BranchThrows ==
  /\ Throwing({"if", "case"}) /\ Rethrow /\ UNCHANGED sh

\* executeGroup.
GroupEnds ==
  /\ Running({"group"}) /\ Top.flag
  /\ Return(Top.code)
  /\ UNCHANGED sh

\* Mutant of GroupCatches: an ExecutionLimitError is any other error.
GroupSwallowsLimit ==
  /\ Throwing({"group"})
  /\ IF ctl.e \in ScopeExits \cup {"errexit", "exit"} THEN Rethrow ELSE Return(1)
  /\ UNCHANGED sh

GroupCatches ==
  /\ Throwing({"group"})
  /\ IF ctl.e \in ScopeExits \cup {"limit", "errexit", "exit"}
     THEN Rethrow ELSE Return(1)
  /\ UNCHANGED sh

-----------------------------------------------------------------------------
(* Loops: executeFor (and executeCStyleFor), executeWhile, executeUntil.   *)

EnterLoop(k) ==
  /\ Command(k)
  /\ Start(Frame(k, "next"))
  /\ sh' = [sh EXCEPT !.loopDepth = @ + 1]

OutOfLoop == [sh EXCEPT !.loopDepth = @ - 1]

\* The iteration limit, then the condition (or, for `for`, the next word).
NextIteration ==
  /\ Running(LoopKinds) /\ Top.ph = "next"
  /\ IF Top.n + 1 > MaxLoopIterations
     THEN Throw("limit", 1) /\ sh' = OutOfLoop
     ELSE LET f == [Top EXCEPT !.n = @ + 1, !.flag = FALSE] IN
          \/ /\ Top.k = "for"
             /\ Stay([f EXCEPT !.ph = "body"])
             /\ UNCHANGED sh
          \/ /\ Top.k = "while"
             /\ Stay([f EXCEPT !.ph = "cond", !.sv.inCondition = sh.inCondition])
             /\ sh' = [sh EXCEPT !.inCondition = TRUE]
          \/ /\ Top.k = "until"
             /\ CallFrom([f EXCEPT !.ph = "cond"], Condition)
             /\ sh' = [sh EXCEPT !.inCondition = TRUE]

ForEnds ==
  /\ Running({"for"}) /\ Top.ph = "next"
  /\ Return(Top.code)
  /\ sh' = OutOfLoop

\* for (( ; ; )): an expression of its header fails, inside the loop's finally.
ForHeaderThrows ==
  /\ Running({"for"}) /\ Top.ph = "next"
  /\ \E e \in Expansion \cap Forms : Throw(e, 1)
  /\ sh' = OutOfLoop

WhileTested ==
  /\ Running({"while"}) /\ Top.ph = "cond" /\ Top.flag
  /\ LET tested == [sh EXCEPT !.inCondition = Top.sv.inCondition] IN
     IF Top.aux = 0
     THEN Stay([Top EXCEPT !.ph = "body", !.flag = FALSE]) /\ sh' = tested
     ELSE Return(Top.code) /\ sh' = [tested EXCEPT !.loopDepth = @ - 1]

UntilTested ==
  /\ Returned({"until"}) /\ Top.ph = "cond"
  /\ IF ctl.code # 0
     THEN Stay([Top EXCEPT !.ph = "body"]) /\ UNCHANGED sh
     ELSE Return(Top.code) /\ sh' = OutOfLoop

LoopBodyEnds ==
  /\ Running(LoopKinds) /\ Top.ph = "body" /\ Top.flag
  /\ Stay([Top EXCEPT !.ph = "next"])
  /\ UNCHANGED sh

\* break and continue of a while condition act on this loop, the rest of the
\* errors leave it through the finally clauses.
WhileConditionThrows ==
  /\ Throwing({"while"}) /\ Top.ph = "cond"
  /\ LET tested == [sh EXCEPT !.inCondition = Top.sv.inCondition] IN
     \/ /\ ctl.e \in {"break", "continue"} /\ ctl.lv > 1 /\ sh.loopDepth > 1
        /\ stack' = Below /\ ctl' = [ctl EXCEPT !.lv = @ - 1]
        /\ sh' = [tested EXCEPT !.loopDepth = @ - 1]
     \/ /\ ctl.e = "break" /\ ~(ctl.lv > 1 /\ sh.loopDepth > 1)
        /\ Return(Top.code)
        /\ sh' = [tested EXCEPT !.loopDepth = @ - 1]
     \/ /\ ctl.e = "continue" /\ ~(ctl.lv > 1 /\ sh.loopDepth > 1)
        /\ Stay([Top EXCEPT !.ph = "next"])
        /\ sh' = tested
     \/ /\ ctl.e \notin {"break", "continue"}
        /\ Rethrow
        /\ sh' = [tested EXCEPT !.loopDepth = @ - 1]

\* Mutant of UntilConditionThrows: loopDepth-- is not in a finally.
UntilForgetsDepth ==
  /\ Throwing({"until"}) /\ Top.ph = "cond"
  /\ Rethrow
  /\ UNCHANGED sh

UntilConditionThrows ==
  /\ Throwing({"until"}) /\ Top.ph = "cond"
  /\ Rethrow
  /\ sh' = OutOfLoop

\* handleLoopError on an error of the body.
LoopBodyThrows ==
  /\ Throwing(LoopKinds) /\ Top.ph = "body"
  /\ \/ /\ ctl.e \in {"break", "continue"} /\ ctl.lv > 1 /\ sh.loopDepth > 1
        /\ stack' = Below /\ ctl' = [ctl EXCEPT !.lv = @ - 1]
        /\ sh' = OutOfLoop
     \/ /\ ctl.e = "break" /\ ~(ctl.lv > 1 /\ sh.loopDepth > 1)
        /\ Return(Top.code) /\ sh' = OutOfLoop
     \/ /\ ctl.e = "continue" /\ ~(ctl.lv > 1 /\ sh.loopDepth > 1)
        /\ Stay([Top EXCEPT !.ph = "next"]) /\ UNCHANGED sh
     \/ /\ ctl.e \in {"return", "errexit", "exit", "limit"}
        /\ Rethrow /\ sh' = OutOfLoop
     \/ /\ ctl.e \in Expansion \cup {"subexit", "parse"}
        /\ Return(1) /\ sh' = OutOfLoop

-----------------------------------------------------------------------------
(* Subshells: executeSubshell.                                             *)

EnterSubshell ==
  [Frame("subshell", "") EXCEPT !.sv = [sh EXCEPT !.count = Fresh.count,
     !.lastExit = 0, !.errexitSafe = FALSE, !.callDepth = 0,
     !.sourceDepth = 0, !.substDepth = 0, !.inCondition = FALSE]]

InSubshell == [sh EXCEPT !.parentHasLoop = sh.loopDepth > 0, !.loopDepth = 0]

\* Mutant of RestoreFrom: the options are shared with the subshell.
RestoreForgetsOptions(sv) ==
  [sh EXCEPT !.env = sv.env, !.cwd = sv.cwd, !.fns = sv.fns, !.scopes = sv.scopes,
             !.loopDepth = sv.loopDepth, !.parentHasLoop = sv.parentHasLoop]

RestoreFrom(sv) ==
  [sh EXCEPT !.env = sv.env, !.cwd = sv.cwd, !.errexit = sv.errexit,
             !.pipefail = sv.pipefail, !.fns = sv.fns, !.scopes = sv.scopes,
             !.loopDepth = sv.loopDepth, !.parentHasLoop = sv.parentHasLoop]

RunSubshell ==
  /\ Command("subshell") /\ Start(EnterSubshell) /\ sh' = InSubshell

SubshellEnds ==
  /\ Running({"subshell"}) /\ Top.flag
  /\ Return(Top.code)
  /\ sh' = RestoreFrom(Top.sv)

SubshellCatches ==
  /\ Throwing({"subshell"})
  /\ \/ ctl.e = "limit" /\ Rethrow
     \/ ctl.e \in {"subexit", "break", "continue"} /\ Return(0)
     \/ ctl.e \in {"exit", "return", "errexit"} /\ Return(ctl.code)
     \/ ctl.e \in Expansion \cup {"parse"} /\ Return(1)
  /\ sh' = RestoreFrom(Top.sv)

-----------------------------------------------------------------------------
(* Simple commands: executeSimpleCommandInner.                             *)

\* `x=v` alone: processAssignments expands the value with expandWord and once
\* more with expandWordToBytes, so each $(...) in it is run twice.
BeginAssignment ==
  /\ Command("assign")
  /\ \E n \in {0} \cup (IF "subst" \in Forms THEN {2} ELSE {}) :
       Start([Frame("simple", "value") EXCEPT !.n = n, !.m = n])
  /\ UNCHANGED sh

\* `[x=v] cmd [$(...)]`: a prefix assignment is made before the words expand.
BeginCommand ==
  /\ Running({"pipe"}) /\ Top.n < Top.m
  /\ \E n \in {0} \cup (IF "subst" \in Forms THEN {1} ELSE {}) :
       LET f == [Frame("simple", "words") EXCEPT !.n = n, !.m = n] IN
       \/ Start(f) /\ UNCHANGED sh
       \/ /\ "prefix" \in Forms
          /\ Start([f EXCEPT !.flag = TRUE, !.sv.env = sh.env])
          /\ \E v \in Values : sh' = [sh EXCEPT !.env = v]

\* executeCommandSubstitutionBytes.
Substitute ==
  /\ Running({"simple"}) /\ Top.ph \in {"value", "words"} /\ Top.n > 0
  /\ IF sh.substDepth >= MaxSubstitutionDepth
     THEN ThrowHere("limit") /\ UNCHANGED sh
     ELSE /\ CallFrom([Top EXCEPT !.n = @ - 1],
                      [Frame("subst", "") EXCEPT !.sv.env = sh.env, !.sv.cwd = sh.cwd,
                                                 !.sv.substDepth = sh.substDepth])
          /\ sh' = [sh EXCEPT !.substDepth = @ + 1]

SubstitutionLeaves ==
  LET restored == [sh EXCEPT !.env = Top.sv.env, !.cwd = Top.sv.cwd,
                             !.substDepth = Top.sv.substDepth]
  IN \/ /\ Returned({"subst"}) \/ (Throwing({"subst"}) /\ ctl.e = "exit")
        /\ Return(ctl.code)
        /\ sh' = [restored EXCEPT !.lastExit = ctl.code]
     \/ /\ Throwing({"subst"}) /\ ctl.e # "exit"
        /\ Rethrow
        /\ sh' = restored

\* A substitution is done, or another word of the command fails to expand.
WordExpanded ==
  /\ Returned({"simple"}) /\ Top.ph \in {"value", "words"}
  /\ Stay(Top) /\ UNCHANGED sh

WordFails ==
  /\ Running({"simple"}) /\ Top.ph \in {"value", "words"}
  /\ \E e \in Expansion \cap Forms : Throw(e, 1)
  /\ UNCHANGED sh

\* An assignment-only command has the status lastExitCode.
Assign ==
  /\ Running({"simple"}) /\ Top.ph = "value" /\ Top.n = 0
  /\ Finish(sh.lastExit)
  /\ \E v \in Values : sh' = [sh EXCEPT !.env = v]

Ready(form) ==
  Running({"simple"}) /\ Top.ph = "words" /\ Top.n = 0 /\ form \in Forms

\* After runCommand the prefix assignment is undone; a throw skips that.
Undone(s) == IF Top.flag THEN [s EXCEPT !.env = Top.sv.env] ELSE s

\* true, false and every external command: a status and no effect on sh.
Builtin ==
  /\ Ready("cmd")
  /\ \E c \in Status : Finish(c)
  /\ sh' = Undone(sh)

ChangeDir ==
  /\ Ready("cd")
  /\ Finish(0)
  /\ \E d \in Dirs : sh' = Undone([sh EXCEPT !.cwd = d])

SetOption ==
  /\ Ready("set")
  /\ Finish(0)
  /\ \E on \in BOOLEAN :
       \/ sh' = Undone([sh EXCEPT !.errexit = on])
       \/ "pipefail" \in Forms /\ sh' = Undone([sh EXCEPT !.pipefail = on])

\* handleBreak, handleContinue; a bad operand is an ExitError.
LoopExit(e) ==
  /\ Ready(e)
  /\ \/ /\ sh.loopDepth = 0 /\ sh.parentHasLoop
        /\ Throw("subexit", 0)
        /\ UNCHANGED sh
     \/ /\ sh.loopDepth = 0 /\ ~sh.parentHasLoop
        /\ Finish(0)
        /\ sh' = Undone(sh)
     \/ /\ sh.loopDepth > 0
        /\ stack' = Below
        /\ \/ \E n \in 1 .. MaxLevel : ctl' = Thrown(e, n, 0)
           \/ ctl' = Thrown("exit", 0, 1)
        /\ UNCHANGED sh

\* Mutant of ReturnBuiltin: the test of callDepth and sourceDepth is dropped.
ReturnAnywhere ==
  /\ Ready("return")
  /\ \E c \in Status : Throw("return", c)
  /\ UNCHANGED sh

\* handleReturn, handleExit; the operand, or lastExitCode, is the status.
ReturnBuiltin ==
  /\ Ready("return")
  /\ IF sh.callDepth = 0 /\ sh.sourceDepth = 0
     THEN Finish(1) /\ sh' = Undone(sh)
     ELSE /\ \E c \in Status : Throw("return", c)
          /\ UNCHANGED sh

ExitBuiltin ==
  /\ Ready("exit")
  /\ \E c \in Status : Throw("exit", c)
  /\ UNCHANGED sh

\* runCommand enters a function, eval, source or a script file.
Dispatched == [Top EXCEPT !.ph = "run"]

\* Mutant of CallFunction: the limit's path undoes what cleanup undoes as well.
CallCleansTwice ==
  /\ Ready("call") /\ sh.fns
  /\ IF sh.callDepth + 1 > MaxCallDepth
     THEN /\ stack' = Update(Dispatched) /\ ctl' = Thrown("limit", 0, 1)
          /\ sh' = [sh EXCEPT !.callDepth = @ - 1, !.scopes = @ - 1]
     ELSE /\ CallFrom(Dispatched, Frame("call", ""))
          /\ sh' = [sh EXCEPT !.callDepth = @ + 1, !.scopes = @ + 1]

\* callFunction.
CallFunction ==
  /\ Ready("call") /\ sh.fns
  /\ IF sh.callDepth + 1 > MaxCallDepth
     THEN /\ stack' = Update(Dispatched) /\ ctl' = Thrown("limit", 0, 1)
          /\ UNCHANGED sh
     ELSE /\ CallFrom(Dispatched, Frame("call", ""))
          /\ sh' = [sh EXCEPT !.callDepth = @ + 1, !.scopes = @ + 1]

\* The body of a function is { } or ( ).
RunFunctionBody ==
  /\ Running({"call"})
  /\ \/ Call(Frame("group", "")) /\ UNCHANGED sh
     \/ "subshell" \in Forms /\ Call(EnterSubshell) /\ sh' = InSubshell

OutOfFunction == [sh EXCEPT !.callDepth = @ - 1, !.scopes = @ - 1]

FunctionLeaves ==
  /\ \/ Returned({"call"}) /\ Return(ctl.code)
     \/ Throwing({"call"}) /\ IF ctl.e = "return" THEN Return(ctl.code) ELSE Rethrow
  /\ sh' = OutOfFunction

\* f() { ... } > word: an ambiguous target is an error of the call, but a word
\* that throws does so before the try statement that cleanup belongs to.
FunctionRedirectFails ==
  /\ Running({"call"}) /\ "fredir" \in Forms
  /\ \/ Return(1) /\ sh' = OutOfFunction
     \/ \E e \in Expansion \cap Forms : Throw(e, 1) /\ UNCHANGED sh

\* handleEval, handleSource, executeUserScript.
Evaluate ==
  /\ Ready("eval") /\ CallFrom(Dispatched, Frame("eval", "")) /\ UNCHANGED sh

Source ==
  /\ Ready("source") /\ CallFrom(Dispatched, Frame("source", ""))
  /\ sh' = [sh EXCEPT !.sourceDepth = @ + 1]

RunUserScript ==
  /\ Ready("ush")
  /\ CallFrom(Dispatched, [EnterSubshell EXCEPT !.k = "ush", !.sv.fns = FALSE, !.sv.scopes = 0])
  /\ sh' = InSubshell

RunScript ==
  /\ Running(ScriptUsers)
  /\ Call(Frame("script", ""))
  /\ UNCHANGED sh

EvalLeaves ==
  /\ \/ Returned({"eval"}) /\ Return(ctl.code)
     \/ Throwing({"eval"}) /\ IF ctl.e = "parse" THEN Return(1) ELSE Rethrow
  /\ UNCHANGED sh

SourceLeaves ==
  /\ \/ Returned({"source"}) /\ Return(ctl.code)
     \/ /\ Throwing({"source"})
        /\ \/ ctl.e = "return" /\ Return(ctl.code)
           \/ ctl.e = "parse" /\ Return(1)
           \/ ctl.e \notin {"return", "parse"} /\ Rethrow
  /\ sh' = [sh EXCEPT !.sourceDepth = @ - 1]

UserScriptLeaves ==
  /\ \/ Returned({"ush"}) /\ Return(ctl.code)
     \/ Throwing({"ush"}) /\ IF ctl.e = "parse" THEN Return(1) ELSE Rethrow
  /\ sh' = [RestoreFrom(Top.sv) EXCEPT !.fns = sh.fns, !.scopes = sh.scopes]

CommandReturned ==
  /\ Returned({"simple"}) /\ Top.ph = "run"
  /\ Return(ctl.code)
  /\ sh' = Undone(sh)

CommandThrows ==
  /\ Throwing({"simple"}) /\ Rethrow /\ UNCHANGED sh

-----------------------------------------------------------------------------
(* Bash.exec: the outcome of the promise, and the next call.               *)

Init == stack = <<Frame("script", "")>> /\ ctl = Run /\ sh = Fresh

Settled == ctl.t \in {"resolved", "rejected"}

ExecSettles ==
  /\ stack = <<>> /\ ctl.t \in {"ret", "throw"}
  /\ ctl' = IF ctl.t = "ret" \/ ctl.e \in {"exit", "limit", "arith", "parse"}
            THEN Finished("resolved") ELSE Finished("rejected")
  /\ UNCHANGED <<stack, sh>>

ExecAgain ==
  /\ Settled
  /\ stack' = <<Frame("script", "")>> /\ ctl' = Run /\ sh' = Fresh

Lists ==
  \/ ExecuteStatement \/ StatementReturned
  \/ ScriptEnds \/ ScriptCatches \/ ListEnds \/ ListCatches \/ ConditionLeaves
Statements ==
  \/ NextPipeline \/ PipelineReturned \/ StatementEnds \/ StatementThrows
  \/ SegmentReturned \/ SegmentThrows
Compounds ==
  \/ EnterIf \/ EnterCase \/ EnterGroup \/ DefineFunction \/ CompoundFails
  \/ EvaluateIfCondition \/ IfReturned \/ CaseItem \/ CaseReturned \/ BranchThrows
  \/ GroupEnds \/ GroupCatches \/ RunSubshell \/ SubshellEnds \/ SubshellCatches
Loops ==
  \/ \E k \in LoopKinds : EnterLoop(k)
  \/ NextIteration \/ ForEnds \/ ForHeaderThrows \/ WhileTested \/ UntilTested \/ LoopBodyEnds
  \/ WhileConditionThrows \/ UntilConditionThrows \/ LoopBodyThrows
Simples ==
  \/ BeginAssignment \/ BeginCommand \/ Substitute \/ SubstitutionLeaves
  \/ WordExpanded \/ WordFails \/ Assign
  \/ Builtin \/ ChangeDir \/ SetOption
  \/ \E e \in {"break", "continue"} : LoopExit(e)
  \/ ReturnBuiltin \/ ExitBuiltin \/ CommandReturned \/ CommandThrows
Callers ==
  \/ CallFunction \/ RunFunctionBody \/ FunctionLeaves \/ FunctionRedirectFails
  \/ Evaluate \/ Source \/ RunUserScript \/ RunScript
  \/ EvalLeaves \/ SourceLeaves \/ UserScriptLeaves

Step == Lists \/ Statements \/ Compounds \/ Loops \/ Simples \/ Callers \/ ExecSettles
Next == Step \/ ExecAgain

\* Every await in the interpreter is of work the interpreter itself started,
\* so an execution that can move does move.
Spec == Init /\ [][Next]_vars /\ WF_vars(Step)

-----------------------------------------------------------------------------
(* Properties.                                                             *)

\* The frames of a kind among the first i, and the loops that break and continue
\* may act on: those above the innermost subshell or script file.
FramesOf(s, K, i) == {j \in 1 .. i : s[j].k \in K}
LoopsIn(s, i) ==
  {j \in FramesOf(s, LoopKinds, i) : \A b \in (j + 1) .. i : s[b].k \notin BoundaryKinds}

\* The frames whose own statements run under inCondition.
TestsCondition(f) == f.k = "cond" \/ (f.k = "while" /\ f.ph = "cond")
ConditionFrames(s, i) == {j \in 1 .. i : TestsCondition(s[j])}

LoopDepthMatches == sh.loopDepth = Cardinality(LoopsIn(stack, Len(stack)))
\* "Current function call depth" (types.ts): as many as there are calls in progress.
CallDepthMatches ==
  /\ sh.callDepth = Cardinality(FramesOf(stack, {"call"}, Len(stack)))
  /\ sh.scopes = sh.callDepth
SourceDepthMatches == sh.sourceDepth = Cardinality(FramesOf(stack, {"source"}, Len(stack)))
SubstDepthMatches == sh.substDepth = Cardinality(FramesOf(stack, {"subst"}, Len(stack)))
ConditionMatches == sh.inCondition <=> ConditionFrames(stack, Len(stack)) # {}

\* The counters and flags of ControlFlowState, which every construct bumps on
\* its way in and puts back on every way out (a result, a caught error, an error
\* passing through a finally), always tell which constructs are in progress.
DepthsMatchStack ==
  /\ LoopDepthMatches
  /\ CallDepthMatches
  /\ SourceDepthMatches
  /\ SubstDepthMatches
  /\ ConditionMatches

HandlerOf(e) == IF e = "return" THEN {"call", "source"} ELSE {"subshell"}

\* A ReturnError is only thrown where a function or a sourced file will catch
\* it, a SubshellExitError only where a subshell will.
ThrownHasHandler ==
  ctl.t = "throw" /\ ctl.e \in {"return", "subexit"} =>
    FramesOf(stack, HandlerOf(ctl.e), Len(stack)) # {}

Promise == INSTANCE ExecPromise WITH
  Limit <- MaxCommandCount, First <- Fresh.count, started <- sh.count,
  phase <- IF ctl.t = "resolved" THEN "resolved"
           ELSE IF ctl.t = "throw" /\ ctl.e = "limit" THEN "aborting" ELSE "running"

\* Whatever the script, one exec starts a bounded number of commands, starts
\* none after an ExecutionLimitError (no catch clause between the command and
\* Bash.exec swallows it), and always resolves.
ImplementsPromise == Promise!Spec

\* The last command of the statement failed by itself, with set -e, outside the
\* places where executeStatement says errexit does not apply.
Failed(makers) ==
  /\ Running({"stmt"}) /\ Top.ph \in makers /\ Top.code # 0 /\ sh.errexit
  /\ Top.aux = Top.n /\ ~Top.flag /\ ConditionFrames(stack, Len(stack)) = {}

\* set -e ends the script on such a failure: errexitSafe, which statements nested
\* in a compound command hand up to it, is never left over from another command.
ErrexitHonoured ==
  [][Failed({"own"}) /\ Len(stack') < Len(stack) => ctl'.t = "throw"]_vars

\* An ErrexitError never arises under an if, while or until condition, however
\* deep the functions, groups, subshells and substitutions inside it: inCondition
\* is given back to the outer condition when an inner one ends.
ErrexitOutsideConditions ==
  ctl.t = "throw" /\ ctl.e = "errexit" => ConditionFrames(stack, Len(stack)) = {}

Visible(s) == <<s.env, s.cwd, s.errexit, s.pipefail, s.fns>>

\* Nothing a subshell did to variables, directory, options or functions is seen
\* by its parent, whichever of the eight ways executeSubshell is left by.
SubshellIsolates ==
  [][\A i \in FramesOf(stack, {"subshell"}, Len(stack)) :
       Len(stack') < i => Visible(sh') = Visible(stack[i].sv)]_vars

Isolates(f) ==
  \/ f.k \in {"subshell", "subst", "ush"}
  \/ f.k = "pipe" /\ RunsInSubshell(f)

\* Assignments made in a subshell, a command substitution, a script file or a
\* command of a pipeline do not reach the parent, also when it ends by an error
\* on its way to an outer construct.
EnvironmentKept ==
  [][\A i \in 1 .. Len(stack) :
       Isolates(stack[i]) /\ Len(stack') < i => sh'.env = stack[i].sv.env]_vars

=============================================================================
