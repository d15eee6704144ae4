----------------------------- MODULE ExecCalls -----------------------------
(***************************************************************************)
(* Calls of Bash.exec (src/src/Bash.ts) that overlap: those the host makes *)
(* on one or several Bash objects, and those a command of a running script *)
(* makes (ctx.exec): bash -c, env, time and find wait for one, xargs -P    *)
(* for several, timeout races one against a timer.  What a script does     *)
(* inside is ShellMachine's; here a command of it is one step that counts, *)
(* and what matters is what the executions share: the environment of the   *)
(* Bash object, which exec copies, and the box that patches the globals of *)
(* the process while scripts run (src/src/security/defense-in-depth-box.ts).*)
(***************************************************************************)
EXTENDS Naturals, FiniteSets

CONSTANTS
  Shells,      \* the Bash objects of the process
  Config,      \* their defenseInDepth option: "on", "off" or "absent"
  MaxExecs,    \* bound: calls of exec in one behaviour
  MaxCount,    \* executionLimits.maxCommandCount
  MaxProcs     \* xargs -P

ASSUME ExecAssumption ==
  /\ MaxExecs \in Nat /\ MaxCount \in Nat /\ MaxProcs \in Nat
  /\ Shells # {} /\ Config \in [Shells -> {"on", "off", "absent"}]

Execs == 1..MaxExecs

Host == 0

VARIABLES
  used,     \* calls made so far: 1..used
  st,       \* where each call is
  shell,    \* the Bash object it was made on
  parent,   \* the execution whose command made it, or Host
  count,    \* commandCount in the copy of the state it runs on
  sets,     \* the executions whose assignments its environment holds
  how,      \* how its command waits for the calls it made
  on,       \* those calls
  box,      \* the DefenseInDepthBox: "none", or whether its config is enabled
  refs,     \* its refCount
  patched,  \* the patches are applied
  handles   \* the executions that hold a handle of the enabled box

callVars == <<used, st, shell, parent, count, sets, how, on>>

boxVars == <<box, refs, patched, handles>>

vars == <<callVars, boxVars>>

Over(e) == st[e] \in {"resolved", "rejected"}

Running(e) == st[e] \in {"running", "calling"}

-----------------------------------------------------------------------------
(* The box.                                                                *)

(* getInstance: the first call creates the box and decides its config.     *)
BoxFor(s) == IF box = "none" THEN Config[s] ELSE box

(* activate, for a set E of executions of shell s that begin.              *)
Activate(E, s) ==
  IF Config[s] = "absent" \/ E = {} THEN UNCHANGED boxVars
  ELSE /\ box' = BoxFor(s)
       /\ IF BoxFor(s) = "on"
          THEN /\ refs' = refs + Cardinality(E)
               /\ patched' = (IF refs = 0 THEN TRUE ELSE patched)
               /\ handles' = handles \cup E
          ELSE UNCHANGED <<refs, patched, handles>>

(* Mutants: a handle that does nothing counts too; the first execution to  *)
(* end takes the patches off.                                              *)
DeactivateUncounted(e) ==
  /\ refs' = refs - 1
  /\ patched' = (IF refs = 1 THEN FALSE ELSE patched)
  /\ handles' = handles \ {e}
  /\ UNCHANGED box

DeactivateAll(e) ==
  /\ IF e \in handles
     THEN refs' = refs - 1 /\ patched' = FALSE
     ELSE UNCHANGED <<refs, patched>>
  /\ handles' = handles \ {e}
  /\ UNCHANGED box

(* deactivate, in the finally clause of exec.                              *)
Deactivate(e) ==
  /\ IF e \in handles
     THEN /\ refs' = refs - 1
          /\ patched' = (IF refs = 1 THEN FALSE ELSE patched)
     ELSE UNCHANGED <<refs, patched>>
  /\ handles' = handles \ {e}
  /\ UNCHANGED box

-----------------------------------------------------------------------------
(* exec.                                                                   *)

Fresh(n) == (used + 1)..(used + n)

(* What exec does before its first await.  callDepth of the object's own   *)
(* state is 0 whatever runs, so its commandCount starts again: the copy    *)
(* begins with this call as the only command.  An empty script ends here,  *)
(* and a call with cwd and an environment without PWD asks for the real    *)
(* path first.  The copy has an environment of its own, with what was      *)
(* passed to it.                                                           *)
Begins(kind) ==
  CASE MaxCount < 1 \/ kind = "blank" -> "resolved"
    [] MaxCount >= 1 /\ kind = "realpath" -> "entering"
    [] OTHER -> "running"

Exec(E, s, by, passed, kind) ==
  /\ used' = used + Cardinality(E)
  /\ shell' = [e \in Execs |-> IF e \in E THEN s ELSE shell[e]]
  /\ parent' = [e \in Execs |-> IF e \in E THEN by ELSE parent[e]]
  /\ sets' = [e \in Execs |-> IF e \in E THEN passed ELSE sets[e]]
  /\ Activate(IF Begins(kind) = "running" THEN E ELSE {}, s)

HostCall(s) ==
  \E kind \in {"blank", "realpath", "plain"} :
    /\ used < MaxExecs
    /\ Exec(Fresh(1), s, Host, {}, kind)
    /\ st' = [st EXCEPT ![used + 1] = Begins(kind)]
    /\ count' = [count EXCEPT ![used + 1] = 1]
    /\ UNCHANGED <<how, on>>

(* After the await of realpath the state is copied and the script begins.  *)
Entered(e) ==
  /\ st[e] = "entering"
  /\ st' = [st EXCEPT ![e] = "running"]
  /\ Activate({e}, shell[e])
  /\ UNCHANGED <<used, shell, parent, count, sets, how, on>>

(* The next command of the script of e fits its limit.                     *)
Command(e) ==
  /\ st[e] = "running"
  /\ count[e] < MaxCount

Plain(e) ==
  /\ Command(e)
  /\ count' = [count EXCEPT ![e] = @ + 1]
  /\ UNCHANGED <<used, st, shell, parent, sets, how, on, boxVars>>

(* Mutant: the environment of the copy is the object's own.                *)
AssignShared(e) ==
  /\ Command(e)
  /\ count' = [count EXCEPT ![e] = @ + 1]
  /\ sets' = [x \in Execs |-> IF shell[x] = shell[e] THEN sets[x] \cup {e} ELSE sets[x]]
  /\ UNCHANGED <<used, st, shell, parent, how, on, boxVars>>

Assign(e) ==
  /\ Command(e)
  /\ count' = [count EXCEPT ![e] = @ + 1]
  /\ sets' = [sets EXCEPT ![e] = @ \cup {e}]
  /\ UNCHANGED <<used, st, shell, parent, how, on, boxVars>>

(* A command calls ctx.exec, which is exec of the same object.  bash -c    *)
(* and time pass variables and the directory; the others the directory.    *)
Nest(e, way, n, passed, kind) ==
  /\ Command(e)
  /\ used + n <= MaxExecs
  /\ Exec(Fresh(n), shell[e], e, passed, kind)
  /\ st' = [x \in Execs |-> IF x = e THEN "calling"
                            ELSE IF x \in Fresh(n) THEN Begins(kind) ELSE st[x]]
  /\ count' = [x \in Execs |-> IF x = e THEN count[e] + 1
                               ELSE IF x \in Fresh(n) THEN 1 ELSE count[x]]
  /\ how' = [how EXCEPT ![e] = way]
  /\ on' = [on EXCEPT ![e] = Fresh(n)]

(* bash -c, time, env, find -exec: the blank script and the real path too. *)
BashC(e) == \E kind \in {"blank", "realpath", "plain"} : Nest(e, "await", 1, sets[e], kind)

(* xargs -P; one at a time it is like bash -c without the variables.       *)
Xargs(e) == \E n \in 2..MaxProcs : Nest(e, "await", n, {}, "plain")

Timeout(e) == Nest(e, "race", 1, {}, "plain")

(* Mutant: a call that rejects is waited for in vain.                      *)
ResumeWhenResolved(e) ==
  /\ st[e] = "calling"
  /\ \A x \in on[e] : st[x] = "resolved"
  /\ st' = [st EXCEPT ![e] = "running"]
  /\ how' = [how EXCEPT ![e] = "none"]
  /\ on' = [on EXCEPT ![e] = {}]
  /\ UNCHANGED <<used, shell, parent, count, sets, boxVars>>

(* The command of e goes on: Promise.all as soon as every call ended or    *)
(* one rejected (the command then fails, the script does not).             *)
Resume(e) ==
  /\ st[e] = "calling"
  /\ \/ \A x \in on[e] : Over(x)
     \/ \E x \in on[e] : st[x] = "rejected"
  /\ st' = [st EXCEPT ![e] = "running"]
  /\ how' = [how EXCEPT ![e] = "none"]
  /\ on' = [on EXCEPT ![e] = {}]
  /\ UNCHANGED <<used, shell, parent, count, sets, boxVars>>

(* The timer wins the race of timeout, whose call goes on.                 *)
TimerWins(e) ==
  /\ st[e] = "calling" /\ how[e] = "race"
  /\ \E x \in on[e] : ~Over(x)
  /\ st' = [st EXCEPT ![e] = "running"]
  /\ how' = [how EXCEPT ![e] = "none"]
  /\ on' = [on EXCEPT ![e] = {}]
  /\ UNCHANGED <<used, shell, parent, count, sets, boxVars>>

(* The script ends: it is done, it exits, an error ends it, or its next    *)
(* command would be one too many.  The finally clause runs on every way.   *)
End(e, out) ==
  /\ st[e] = "running"
  /\ st' = [st EXCEPT ![e] = out]
  /\ Deactivate(e)
  /\ UNCHANGED <<used, shell, parent, count, sets, how, on>>

-----------------------------------------------------------------------------

Init ==
  /\ used = 0
  /\ st = [e \in Execs |-> "new"]
  /\ shell = [e \in Execs |-> CHOOSE s \in Shells : TRUE]
  /\ parent = [e \in Execs |-> Host]
  /\ count = [e \in Execs |-> 0]
  /\ sets = [e \in Execs |-> {}]
  /\ how = [e \in Execs |-> "none"]
  /\ on = [e \in Execs |-> {}]
  /\ box = "none"
  /\ refs = 0
  /\ patched = FALSE
  /\ handles = {}

(* What the event loop does sooner or later for a call in progress.        *)
Progress(e) ==
  \/ Entered(e)
  \/ Plain(e) \/ Assign(e)
  \/ BashC(e) \/ Xargs(e) \/ Timeout(e)
  \/ Resume(e)
  \/ End(e, "resolved") \/ End(e, "rejected")

(* The host makes no more calls.                                           *)
Finished == used = MaxExecs /\ UNCHANGED vars

Next ==
  \/ \E s \in Shells : HostCall(s)
  \/ \E e \in Execs : Progress(e) \/ TimerWins(e)
  \/ Finished

(* Fairness: the event loop runs every callback that is ready.             *)
Spec == Init /\ [][Next]_vars /\ \A e \in Execs : WF_vars(Progress(e))

-----------------------------------------------------------------------------
(* Properties.                                                             *)

(* Type invariant: ids, counters and sets have the shapes the code gives   *)
(* them; no execution runs more commands than its limit; refCount is never *)
(* negative (the code has a guard for that).                               *)
TypeOK ==
  /\ used \in 0..MaxExecs
  /\ st \in [Execs -> {"new", "entering", "running", "calling", "resolved", "rejected"}]
  /\ shell \in [Execs -> Shells]
  /\ parent \in [Execs -> Execs \cup {Host}]
  /\ count \in [Execs -> 0..(MaxCount + 1)]
  /\ sets \in [Execs -> SUBSET Execs]
  /\ how \in [Execs -> {"none", "await", "race"}]
  /\ on \in [Execs -> SUBSET Execs]
  /\ box \in {"none", "on", "off"}
  /\ refs \in Nat
  /\ patched \in BOOLEAN
  /\ handles \in SUBSET Execs

(* The globals of the process are patched exactly while some script of a   *)
(* guarded Bash object runs, also when executions of several objects       *)
(* overlap, nest, outlive the command that started them, or fail: the last *)
(* one to end takes the patches off and no other one does.                 *)
PatchesMatchExecutions ==
  patched <=> /\ box = "on"
              /\ \E e \in Execs : Running(e) /\ Config[shell[e]] # "absent"

(* A variable set in one execution never shows in another one, be it its   *)
(* caller, its sibling or a call that waits for a path: an environment     *)
(* changes by the commands of its own script only, and a new one holds at  *)
(* most what its caller's held.                                            *)
EnvironmentIsolated ==
  [][\A x \in Execs : sets'[x] # sets[x] =>
       \/ st[x] = "running" /\ sets'[x] = sets[x] \cup {x}
       \/ st[x] = "new" /\ parent'[x] # Host /\ sets'[x] \subseteq sets[parent'[x]]]_vars

(* Each call of exec ends, whatever the calls it waits for and the calls   *)
(* that go on without it do: commandCount bounds the script and a nested   *)
(* call never waits for its caller.                                        *)
EveryCallEnds == \A e \in Execs : (st[e] # "new") ~> Over(e)

=============================================================================
