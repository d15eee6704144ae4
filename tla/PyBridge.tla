------------------------------ MODULE PyBridge ------------------------------
(***************************************************************************)
(* A python3 script runs in a worker thread and needs the file system,     *)
(* which is asynchronous and lives in the main thread.  Each of its file   *)
(* operations is a request in a SharedArrayBuffer: the worker fills it in, *)
(* sets the status to READY and sleeps in Atomics.wait, for five seconds   *)
(* at most; the loop of FsBridgeHandler.run answers in the same buffer.    *)
(* The two threads take turns only as long as no operation takes longer.   *)
(*                                                                         *)
(* A request is told from the others by its number: a field of the buffer  *)
(* holds the number of the request it was written for.  The opcodes are    *)
(* abstracted to what their handlers do with the buffer: "read" answers    *)
(* with a result, "write" takes data and has none, "exit" ends the loop.   *)
(***************************************************************************)
EXTENDS Integers, Sequences

CONSTANT MaxRequests  \* bound: file operations of the script, its exit included

ASSUME RequestsAssumption == MaxRequests \in Nat \ {0}

Requests == 1 .. MaxRequests
OpKinds == {"read", "write", "exit"}

VARIABLES
  buf,      \* the SharedArrayBuffer
  script,   \* the worker thread, in SyncFsBackend.execSync
  host,     \* the main thread, in FsBridgeHandler.run
  kind,     \* history: what each request asks for
  got,      \* history: what execSync returned for each request
  effects   \* history: the calls of the file system that were made

vars == <<buf, script, host, kind, got, effects>>

\* DATA_BUFFER holds the data of a request, or the result of one.
Regions == [what: {"blank", "data", "result"}, of: 0 .. MaxRequests]
Blank == [what |-> "blank", of |-> 0]

\* `by` is history: the request whose handler set the status.
Buffer == [op: 0 .. MaxRequests, path: 0 .. MaxRequests, region: Regions,
           status: {"PENDING", "READY", "SUCCESS", "ERROR"}, by: 0 .. MaxRequests]
\* "early": execSync returned an error with the status still READY.
Returns == [how: {"none", "thrown", "timeout", "early", "ok", "error"}, by: 0 .. MaxRequests, region: Regions]
NoReturn == [how |-> "none", by |-> 0, region |-> Blank]
ScriptState == [pc: {"python", "reset", "fill", "ready", "wait", "asleep", "woken", "done"},
                n: 0 .. MaxRequests]
HostState == [pc: {"loop", "seen", "read", "await", "answer", "notify", "stopped"},
              op: 0 .. MaxRequests, path: 0 .. MaxRequests, region: Regions,
              ok: BOOLEAN]
Effects == [op: Requests, path: 0 .. MaxRequests, region: Regions]

TypeOK ==
  /\ buf \in Buffer
  /\ script \in ScriptState
  /\ host \in HostState
  /\ kind \in [Requests -> OpKinds]
  /\ got \in [Requests -> Returns]
  /\ effects \in Seq(Effects)

Init ==
  /\ buf = [op |-> 0, path |-> 0, region |-> Blank, status |-> "PENDING", by |-> 0]
  /\ script = [pc |-> "python", n |-> 0]
  /\ host = [pc |-> "loop", op |-> 0, path |-> 0, region |-> Blank, ok |-> TRUE]
  /\ kind \in [Requests -> OpKinds]
  /\ got = [i \in Requests |-> NoReturn]
  /\ effects = <<>>

-----------------------------------------------------------------------------
(* The worker: execSync.                                                   *)

Goes(pc) == script' = [script EXCEPT !.pc = pc]

\* The script calls for its next operation; reset() stores the opcode first.
Request ==
  /\ script.pc = "python" /\ script.n < MaxRequests
  /\ script' = [pc |-> "reset", n |-> script.n + 1]
  /\ buf' = [buf EXCEPT !.op = 0]
  /\ UNCHANGED <<host, kind, got, effects>>

\* Mutants of ResetStatus: the request is announced before it is filled in; an
\* empty path has the length -1.
ResetAndAnnounce ==
  /\ script.pc = "reset" /\ Goes("fill")
  /\ buf' = [buf EXCEPT !.status = "READY", !.path = 0]
  /\ UNCHANGED <<host, kind, got, effects>>

ResetToMinusOne ==
  /\ script.pc = "reset" /\ Goes("fill")
  /\ buf' = [buf EXCEPT !.status = "PENDING", !.path = -1]
  /\ UNCHANGED <<host, kind, got, effects>>

ResetStatus ==
  /\ script.pc = "reset" /\ Goes("fill")
  /\ buf' = [buf EXCEPT !.status = "PENDING", !.path = 0]
  /\ UNCHANGED <<host, kind, got, effects>>

FillIn ==
  /\ script.pc = "fill" /\ Goes("ready")
  /\ buf' = [buf EXCEPT !.op = script.n, !.path = script.n,
                        !.region = IF kind[script.n] = "write"
                                   THEN [what |-> "data", of |-> script.n] ELSE @]
  /\ UNCHANGED <<host, kind, got, effects>>

\* A path or data that do not fit: setPath or setData throws, and execSync with it.
DoesNotFit ==
  /\ script.pc = "fill" /\ kind[script.n] # "exit" /\ Goes("python")
  /\ buf' = [buf EXCEPT !.op = script.n]
  /\ got' = [got EXCEPT ![script.n].how = "thrown"]
  /\ UNCHANGED <<host, kind, effects>>

SetReady ==
  /\ script.pc = "ready" /\ Goes("wait")
  /\ buf' = [buf EXCEPT !.status = "READY"]
  /\ UNCHANGED <<host, kind, got, effects>>

\* Atomics.wait: it does not sleep if the status is no longer READY.
Wait ==
  /\ script.pc = "wait"
  /\ Goes(IF buf.status = "READY" THEN "asleep" ELSE "woken")
  /\ UNCHANGED <<buf, host, kind, got, effects>>

ReturnFrom(r) ==
  /\ got' = [got EXCEPT ![script.n] = r]
  /\ Goes(IF kind[script.n] = "exit" THEN "done" ELSE "python")
  /\ UNCHANGED <<buf, host, kind, effects>>

\* Mutant of TimeOut: the wait has no timeout of its own.
TimeOutWhileServed ==
  /\ script.pc = "asleep" /\ host.pc = "loop"
  /\ ReturnFrom([NoReturn EXCEPT !.how = "timeout"])

\* Five seconds have gone by.
TimeOut ==
  /\ script.pc = "asleep"
  /\ ReturnFrom([NoReturn EXCEPT !.how = "timeout"])

Answered ==
  /\ script.pc = "woken"
  /\ ReturnFrom([how |-> CASE buf.status = "SUCCESS" -> "ok"
                           [] buf.status = "READY" -> "early"
                           [] OTHER -> "error",
                 by |-> buf.by, region |-> buf.region])

-----------------------------------------------------------------------------
(* The main thread: run and handleOperation.                               *)

\* waitUntilReady returns: there is always a notify after the status is READY.
SeeReady ==
  /\ host.pc = "loop" /\ buf.status = "READY"
  /\ host' = [host EXCEPT !.pc = "seen"]
  /\ UNCHANGED <<buf, script, kind, got, effects>>

\* Mutant of GiveUp: the time is looked at when there is a request.
GiveUpAtRequest ==
  /\ host.pc = "loop" /\ buf.status = "READY"
  /\ host' = [host EXCEPT !.pc = "stopped"]
  /\ UNCHANGED <<buf, script, kind, got, effects>>

\* maxPythonTimeoutMs is over; it is looked at between operations.
GiveUp ==
  /\ host.pc = "loop"
  /\ host' = [host EXCEPT !.pc = "stopped"]
  /\ UNCHANGED <<buf, script, kind, got, effects>>

GetOpCode ==
  /\ host.pc = "seen"
  /\ host' = [host EXCEPT !.pc = IF buf.op = 0 THEN "answer" ELSE "read",
                          !.op = buf.op, !.ok = FALSE]
  /\ UNCHANGED <<buf, script, kind, got, effects>>

\* The handler reads its operands, and calls the file system or ends the loop.
Handle ==
  /\ host.pc = "read"
  /\ host' = [host EXCEPT !.pc = IF kind[host.op] = "exit" THEN "answer" ELSE "await",
                          !.path = buf.path, !.ok = TRUE,
                          !.region = IF kind[host.op] = "write" THEN buf.region ELSE Blank]
  /\ UNCHANGED <<buf, script, kind, got, effects>>

\* The promise of the file system is resolved, with the effect done, or rejected;
\* the handler writes the result, if it has one, or the message of the error.
Resume ==
  /\ host.pc = "await"
  /\ \E ok \in BOOLEAN :
       /\ host' = [host EXCEPT !.pc = "answer", !.ok = ok]
       /\ buf' = IF ok /\ kind[host.op] = "write" THEN buf
                 ELSE [buf EXCEPT !.region = [what |-> "result", of |-> host.op]]
       /\ effects' = IF ok THEN Append(effects, [op |-> host.op, path |-> host.path,
                                                region |-> host.region])
                     ELSE effects
  /\ UNCHANGED <<script, kind, got>>

\* Mutant of SetStatus: an operation that failed has succeeded.
SetStatusSuccess ==
  /\ host.pc = "answer"
  /\ buf' = [buf EXCEPT !.status = "SUCCESS", !.by = host.op]
  /\ host' = [host EXCEPT !.pc = "notify"]
  /\ UNCHANGED <<script, kind, got, effects>>

SetStatus ==
  /\ host.pc = "answer"
  /\ buf' = [buf EXCEPT !.status = IF host.ok THEN "SUCCESS" ELSE "ERROR", !.by = host.op]
  /\ host' = [host EXCEPT !.pc = "notify"]
  /\ UNCHANGED <<script, kind, got, effects>>

\* Whoever sleeps on the status is woken, whatever the status is.
Notify ==
  /\ host.pc = "notify"
  /\ host' = [host EXCEPT !.pc = IF host.op # 0 /\ kind[host.op] = "exit"
                                THEN "stopped" ELSE "loop"]
  /\ script' = IF script.pc = "asleep" THEN [script EXCEPT !.pc = "woken"] ELSE script
  /\ UNCHANGED <<buf, kind, got, effects>>

-----------------------------------------------------------------------------
ExecSync ==
  \/ ResetStatus \/ FillIn \/ DoesNotFit \/ SetReady \/ Wait \/ TimeOut \/ Answered
Handler == SeeReady \/ GiveUp \/ GetOpCode \/ Handle \/ Resume \/ SetStatus \/ Notify
Next == Request \/ ExecSync \/ Handler

\* Threads run, timers fire, and the calls of the file system end (fetch has a
\* timeout of its own); when the script asks for something is its own affair.
Fairness == WF_vars(ExecSync) /\ WF_vars(Handler)

Spec == Init /\ [][Next]_vars /\ Fairness

-----------------------------------------------------------------------------
(* Properties.                                                             *)

\* execSync gave up a request that the main thread may still answer: its time was
\* over, or the notify for an earlier request came late and woke it.
Abandoned == \E i \in Requests : got[i].how \in {"timeout", "early"}

\* Until a request is abandoned, execSync returns the answer to its own request,
\* with its own result or error, although requests and results share DATA_BUFFER.
Synchronous ==
  ~Abandoned => \A i \in Requests : got[i].how \in {"ok", "error"} =>
    /\ got[i].by = i
    /\ (got[i].how = "error" \/ kind[i] = "read") =>
         got[i].region = [what |-> "result", of |-> i]

\* What the file system is asked to do is one request, whole.
Whole(e) ==
  /\ e.path = e.op
  /\ kind[e.op] = "write" => e.region = [what |-> "data", of |-> e.op]

\* Until a request is abandoned, the calls of the file system are the requests of the script, whole,
\* in its order and each at most once, and one that returned "ok" was made.
EffectsInOrder ==
  ~Abandoned =>
    /\ \A j \in DOMAIN effects : Whole(effects[j])
    /\ \A j, k \in DOMAIN effects : j < k => effects[j].op < effects[k].op
    /\ \A i \in Requests : got[i].how = "ok" /\ kind[i] # "exit" =>
         \E j \in DOMAIN effects : effects[j].op = i

\* execSync always returns, also when the main thread has given up the script.
EveryRequestReturns ==
  script.pc \in {"reset", "fill", "ready", "wait", "asleep", "woken"}
    ~> script.pc \in {"python", "done"}

\* FsBridgeHandler.run always ends, also when the script does not.
LoopEnds == <>(host.pc = "stopped")
=============================================================================
