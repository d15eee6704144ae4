---------------------------- MODULE PyBridgeProofs ----------------------------
(***************************************************************************)
(* What TLAPS proves of PyBridge, for any number of requests: its types,   *)
(* and, until execSync abandons a request, that it returns the answer to   *)
(* its own request and that the file system sees the requests of the       *)
(* script, whole, in order and at most once.                               *)
(*                                                                         *)
(* The invariant behind it says whose turn it is.  The buffer has no lock; *)
(* the status is what keeps the two threads off each other's fields, and   *)
(* only while nobody writes READY or reads it at the wrong time.           *)
(***************************************************************************)
EXTENDS PyBridge, TLAPS

DataOf(i) == [what |-> "data", of |-> i]
ResultOf(i) == [what |-> "result", of |-> i]

-----------------------------------------------------------------------------
(* The invariant.                                                          *)

Waiting == {"wait", "asleep", "woken"}

\* The main thread handles requests that were made.
Serving == host.pc \in {"read", "await"} => host.op \in Requests

\* What holds also after a request was abandoned.  A request that has not
\* returned has no answer, so an abandoned request stays abandoned.
Base ==
  /\ script.pc # "python" => script.n \in Requests
  /\ \A i \in Requests :
       i > script.n \/ (i = script.n /\ script.pc \notin {"python", "done"}) =>
         got[i] = NoReturn

\* The operands of the request are in the buffer.
FilledIn ==
  /\ buf.op = script.n /\ buf.path = script.n
  /\ kind[script.n] = "write" => buf.region = DataOf(script.n)

\* The buffer belongs to the worker; the main thread waits for READY, is about
\* to notify the sleeper of the last request, or has given up.
WorkersTurn ==
  /\ script.pc \notin Waiting
  /\ buf.status # "READY"
  /\ host.pc \in {"loop", "notify", "stopped"}
  /\ script.pc = "ready" => FilledIn

\* The buffer belongs to the main thread: it has not looked at the request, or
\* it serves this one and no other.
MainsTurn ==
  /\ script.pc \in Waiting
  /\ buf.status = "READY"
  /\ \/ host.pc \in {"loop", "notify", "stopped", "seen"} /\ FilledIn
     \/ host.pc = "read" /\ FilledIn /\ host.op = script.n
     \/ /\ host.pc = "await" /\ FilledIn
        /\ host.op = script.n /\ host.path = script.n
        /\ kind[script.n] # "exit"
        /\ kind[script.n] = "write" => host.region = DataOf(script.n)
     \/ /\ host.pc = "answer" /\ host.op = script.n
        /\ kind[script.n] = "exit" => host.ok
        /\ ~host.ok \/ kind[script.n] = "read" => buf.region = ResultOf(script.n)

\* The answer is in the buffer, and the worker has yet to take it.
AnswerGiven ==
  /\ script.pc \in Waiting
  /\ buf.status \in {"SUCCESS", "ERROR"}
  /\ buf.by = script.n
  /\ host.pc \in {"loop", "notify", "stopped"}
  /\ buf.status = "ERROR" \/ kind[script.n] = "read" => buf.region = ResultOf(script.n)

Turns == WorkersTurn \/ MainsTurn \/ AnswerGiven

\* execSync has returned own answers.
Own(i) ==
  got[i].how \in {"ok", "error"} =>
    /\ got[i].by = i
    /\ got[i].how = "error" \/ kind[i] = "read" => got[i].region = ResultOf(i)

\* The file system has been called for request i.
Made(i) == \E j \in DOMAIN effects : effects[j].op = i

\* The pending request has had its effect.
Effected ==
  /\ script.pc \in Waiting
  /\ kind[script.n] # "exit"
  /\ \/ buf.status = "READY" /\ host.pc = "answer" /\ host.ok
     \/ buf.status = "SUCCESS"

\* The pending request has had no effect yet.
NotEffected ==
  \/ script.pc \in {"reset", "fill", "ready"}
  \/ /\ script.pc \in Waiting /\ buf.status = "READY"
     /\ ~(host.pc = "answer" /\ host.ok)

Ordered ==
  /\ \A j \in DOMAIN effects : Whole(effects[j])
  /\ \A j, k \in DOMAIN effects : j < k => effects[j].op < effects[k].op
  /\ \A j \in DOMAIN effects : effects[j].op <= script.n
  /\ NotEffected => \A j \in DOMAIN effects : effects[j].op < script.n

Accounted ==
  /\ Effected => Made(script.n)
  /\ \A i \in Requests : got[i].how = "ok" /\ kind[i] # "exit" => Made(i)

InTurn == Turns /\ (\A i \in Requests : Own(i)) /\ Ordered /\ Accounted

TurnTaking == Serving /\ Base /\ (~Abandoned => InTurn)
-----------------------------------------------------------------------------
(* Types.                                                                  *)

\* The main thread only handles a request whose number it read from the buffer.
LEMMA ServingStep == TypeOK /\ Serving /\ [Next]_vars => Serving'
<1> SUFFICES ASSUME TypeOK, Serving, [Next]_vars
             PROVE  Serving'
  OBVIOUS
<1>1. CASE Request \/ ExecSync \/ UNCHANGED vars
  BY <1>1 DEF Serving, Request, ExecSync, ResetStatus, FillIn, DoesNotFit, SetReady, Wait,
              TimeOut, Answered, ReturnFrom, Requests, vars
<1>2. CASE GetOpCode
  BY <1>2, RequestsAssumption DEF GetOpCode, Serving, TypeOK, HostState, Buffer, Requests
<1>3. CASE SeeReady \/ GiveUp \/ Handle \/ Resume \/ SetStatus \/ Notify
  BY <1>3 DEF SeeReady, GiveUp, Handle, Resume, SetStatus, Notify, Serving, TypeOK, HostState,
              Requests
<1> QED
  BY <1>1, <1>2, <1>3 DEF Next, Handler

\* Every step keeps the types.
LEMMA TypeStep == TypeOK /\ Serving /\ [Next]_vars => TypeOK'
<1> SUFFICES ASSUME TypeOK, Serving, [Next]_vars
             PROVE  TypeOK'
  OBVIOUS
<1> USE RequestsAssumption DEF Requests
<1>0. 0 \in 0 .. MaxRequests
  OBVIOUS
<1>1. CASE Request
  <2>1. buf' \in Buffer
    BY <1>1, <1>0 DEF Request, TypeOK, Buffer
  <2>2. script' \in ScriptState
    BY <1>1 DEF Request, TypeOK, ScriptState
  <2> QED
    BY <1>1, <2>1, <2>2 DEF Request, TypeOK
<1>2. CASE ExecSync
  <2>1. CASE ResetStatus
    <3>1. buf' \in Buffer
      BY <2>1, <1>0 DEF ResetStatus, TypeOK, Buffer
    <3>2. script' \in ScriptState
      BY <2>1 DEF ResetStatus, Goes, TypeOK, ScriptState
    <3> QED
      BY <2>1, <3>1, <3>2 DEF ResetStatus, TypeOK
  <2>2. CASE FillIn
    BY <2>2 DEF FillIn, Goes, TypeOK, Buffer, ScriptState, Regions
  <2>3. CASE DoesNotFit
    BY <2>3 DEF DoesNotFit, Goes, TypeOK, Buffer, ScriptState, Returns
  <2>4. CASE SetReady
    BY <2>4 DEF SetReady, Goes, TypeOK, Buffer, ScriptState
  <2>5. CASE Wait
    BY <2>5 DEF Wait, Goes, TypeOK, Buffer, ScriptState
  <2>6. ASSUME NEW r \in Returns, ReturnFrom(r)
        PROVE  TypeOK'
    BY <2>6 DEF ReturnFrom, Goes, TypeOK, ScriptState
  <2>7. CASE TimeOut
    <3>1. [NoReturn EXCEPT !.how = "timeout"] \in Returns
      BY DEF NoReturn, Returns, Regions, Blank
    <3> QED
      BY <2>7, <2>6, <3>1 DEF TimeOut
  <2>8. CASE Answered
    <3>1. [how |-> CASE buf.status = "SUCCESS" -> "ok"
                     [] buf.status = "READY" -> "early"
                     [] OTHER -> "error",
           by |-> buf.by, region |-> buf.region] \in Returns
      BY DEF TypeOK, Buffer, Returns
    <3> QED
      BY <2>8, <2>6, <3>1 DEF Answered
  <2> QED
    BY <1>2, <2>1, <2>2, <2>3, <2>4, <2>5, <2>7, <2>8 DEF ExecSync
<1>3. CASE Handler
  <2>1. CASE SeeReady \/ GiveUp
    BY <2>1 DEF SeeReady, GiveUp, TypeOK, HostState
  <2>2. CASE GetOpCode
    BY <2>2 DEF GetOpCode, TypeOK, HostState, Buffer, Regions
  <2>3. CASE Handle
    <3>1. Blank \in Regions
      BY DEF Blank, Regions
    <3>2. host' \in HostState
      BY <2>3, <3>1 DEF Handle, TypeOK, HostState, Buffer
    <3> QED
      BY <2>3, <3>2 DEF Handle, TypeOK
  <2>4. CASE Resume
    <3>1. PICK ok \in BOOLEAN :
            /\ host' = [host EXCEPT !.pc = "answer", !.ok = ok]
            /\ buf' = IF ok /\ kind[host.op] = "write" THEN buf
                      ELSE [buf EXCEPT !.region = [what |-> "result", of |-> host.op]]
            /\ effects' = IF ok THEN Append(effects, [op |-> host.op, path |-> host.path,
                                                     region |-> host.region])
                          ELSE effects
      BY <2>4 DEF Resume
    <3>2. host' \in HostState /\ buf' \in Buffer
      BY <3>1 DEF TypeOK, HostState, Buffer, Regions
    <3>3. [op |-> host.op, path |-> host.path, region |-> host.region] \in Effects
      BY <2>4 DEF Resume, Serving, TypeOK, HostState, Effects
    <3>4. effects' \in Seq(Effects)
      BY <3>1, <3>3 DEF TypeOK
    <3> QED
      BY <2>4, <3>2, <3>4 DEF Resume, TypeOK
  <2>5. CASE SetStatus
    BY <2>5 DEF SetStatus, TypeOK, HostState, Buffer
  <2>6. CASE Notify
    BY <2>6 DEF Notify, TypeOK, HostState, ScriptState
  <2> QED
    BY <1>3, <2>1, <2>2, <2>3, <2>4, <2>5, <2>6 DEF Handler
<1>4. CASE UNCHANGED vars
  BY <1>4 DEF vars, TypeOK
<1> QED
  BY <1>1, <1>2, <1>3, <1>4 DEF Next

-----------------------------------------------------------------------------
(* Once abandoned.                                                         *)

\* A request that has not returned has no answer yet, whatever was abandoned.
LEMMA BaseStep == TypeOK /\ Base /\ [Next]_vars => Base'
<1> SUFFICES ASSUME TypeOK, Base, [Next]_vars
             PROVE  Base'
  OBVIOUS
<1> USE RequestsAssumption DEF Requests
<1>1. script.n \in 0 .. MaxRequests /\ script.n \in Int
  BY DEF TypeOK, ScriptState
<1>2. CASE Request
  <2>1. script' = [pc |-> "reset", n |-> script.n + 1] /\ UNCHANGED <<host, got>>
    BY <1>2 DEF Request
  <2>2. script'.n = script.n + 1 /\ script'.pc = "reset" /\ script'.n \in Requests
    BY <1>1, <1>2, <2>1 DEF Request
  <2>3. \A i \in Requests : i >= script.n + 1 => i > script.n
    BY <1>1
  <2> QED
    BY <2>1, <2>2, <2>3, <1>1 DEF Base
<1>3. CASE ResetStatus \/ FillIn \/ SetReady \/ Wait
  BY <1>1, <1>3 DEF ResetStatus, FillIn, SetReady, Wait, Goes, Base, TypeOK, ScriptState
<1>4. CASE DoesNotFit
  BY <1>1, <1>4 DEF DoesNotFit, Goes, Base, TypeOK, ScriptState
<1>5. ASSUME NEW r, script.pc \in {"asleep", "woken"}, ReturnFrom(r)
      PROVE  Base'
  BY <1>1, <1>5 DEF ReturnFrom, Goes, Base, TypeOK, ScriptState
<1>6. CASE TimeOut \/ Answered
  BY <1>5, <1>6 DEF TimeOut, Answered
<1>7. CASE Handler
  <2>1. CASE Notify
    BY <1>1, <2>1 DEF Notify, Base, TypeOK, ScriptState
  <2>2. CASE SeeReady \/ GiveUp \/ GetOpCode \/ Handle \/ Resume \/ SetStatus
    BY <2>2 DEF SeeReady, GiveUp, GetOpCode, Handle, Resume, SetStatus, Base
  <2> QED
    BY <1>7, <2>1, <2>2 DEF Handler
<1>8. CASE UNCHANGED vars
  BY <1>8 DEF vars, Base
<1> QED
  BY <1>2, <1>3, <1>4, <1>6, <1>7, <1>8 DEF Next, ExecSync

\* A request that was abandoned stays abandoned: execSync returned, and it
\* returns once for each request.
LEMMA AbandonedLasts == TypeOK /\ Base /\ [Next]_vars /\ Abandoned => Abandoned'
<1> SUFFICES ASSUME TypeOK, Base, [Next]_vars,
                    NEW i \in Requests, got[i].how \in {"timeout", "early"}
             PROVE  got'[i].how \in {"timeout", "early"}
  BY DEF Abandoned
<1>1. got[i] # NoReturn
  BY DEF NoReturn
<1>2. i = script.n => script.pc \in {"python", "done"}
  BY <1>1 DEF Base
<1>3. CASE got' = got
  BY <1>3
<1>4. ASSUME NEW r, got' = [got EXCEPT ![script.n] = r], script.pc \notin {"python", "done"}
      PROVE  got'[i].how \in {"timeout", "early"}
  BY <1>2, <1>4 DEF TypeOK
<1>5. CASE TimeOut \/ Answered
  BY <1>4, <1>5 DEF TimeOut, Answered, ReturnFrom
<1>6. CASE DoesNotFit
  <2>1. got' = [got EXCEPT ![script.n].how = "thrown"] /\ i # script.n
    BY <1>2, <1>6 DEF DoesNotFit
  <2> QED
    BY <2>1 DEF TypeOK
<1> QED
  BY <1>3, <1>5, <1>6 DEF Next, Request, ExecSync, ResetStatus, FillIn, SetReady, Wait, Handler,
     SeeReady, GiveUp, GetOpCode, Handle, Resume, SetStatus, Notify, vars

-----------------------------------------------------------------------------
(* Until then.                                                             *)

\* What was done was done for numbered requests.
LEMMA EffectNumbers == TypeOK => \A j \in DOMAIN effects : effects[j].op \in Int
<1>1. TypeOK => \A j \in DOMAIN effects : effects[j] \in Effects
  BY DEF TypeOK
<1>2. \A e \in Effects : e.op \in Int
  BY RequestsAssumption DEF Effects, Requests
<1> QED
  BY <1>1, <1>2

\* A step that calls no file system keeps the order, if it does not forget that
\* the pending request has had its effect.
LEMMA OrderedKept ==
  ASSUME TypeOK, TypeOK', Ordered, UNCHANGED <<kind, effects>>, script'.n >= script.n,
         NotEffected' => NotEffected \/ script'.n > script.n
  PROVE  Ordered'
<1>1. script.n \in Int /\ script'.n \in Int /\ \A j \in DOMAIN effects : effects[j].op \in Int
  <2>1. script.n \in Int /\ script'.n \in Int
    BY RequestsAssumption DEF TypeOK, ScriptState
  <2> QED
    BY <2>1, EffectNumbers
<1>2. \A j \in DOMAIN effects : Whole(effects[j])'
  BY DEF Ordered, Whole
<1>3. \A j \in DOMAIN effects : effects[j].op <= script'.n
  BY <1>1 DEF Ordered
<1>4. NotEffected' => \A j \in DOMAIN effects : effects[j].op < script'.n
  BY <1>1 DEF Ordered
<1> QED
  BY <1>2, <1>3, <1>4 DEF Ordered

\* Such a step keeps the account, if an "ok" it adds is of a request that had its effect.
LEMMA AccountedKept ==
  ASSUME Accounted, UNCHANGED <<kind, effects>>,
         Effected' => Effected /\ UNCHANGED script.n,
         \A i \in Requests : got'[i].how = "ok" /\ kind[i] # "exit" =>
            got[i].how = "ok" \/ (Effected /\ i = script.n)
  PROVE  Accounted'
BY DEF Accounted, Made

\* The worker makes its request.
LEMMA RequestStep ==
  ASSUME TypeOK, TypeOK', Base', InTurn,
         Request \/ ResetStatus \/ FillIn \/ SetReady \/ DoesNotFit
  PROVE  InTurn'
<1> USE RequestsAssumption DEF Requests
<1>1. UNCHANGED <<kind, effects, host>> /\ script'.n >= script.n /\ script.pc \notin Waiting
  BY DEF Request, ResetStatus, FillIn, SetReady, DoesNotFit, Goes, TypeOK, ScriptState, Waiting
<1>2. WorkersTurn
  BY <1>1 DEF InTurn, Turns, MainsTurn, AnswerGiven
<1>3. Turns'
  <2>1. CASE Request \/ ResetStatus
    <3>1. script'.pc \in {"reset", "fill"}
      BY <2>1 DEF Request, ResetStatus, Goes, TypeOK, ScriptState
    <3>2. buf'.status # "READY"
      BY <1>2, <2>1 DEF Request, ResetStatus, WorkersTurn, TypeOK, Buffer
    <3> QED
      BY <1>1, <1>2, <3>1, <3>2 DEF WorkersTurn, Waiting, Turns
  <2>2. CASE FillIn
    BY <1>2, <2>2 DEF FillIn, Goes, WorkersTurn, FilledIn, DataOf, Waiting, Turns, TypeOK, Buffer,
       ScriptState
  <2>3. CASE SetReady
    BY <1>2, <2>3 DEF SetReady, Goes, WorkersTurn, MainsTurn, FilledIn, Waiting, Turns, TypeOK,
       Buffer, ScriptState
  <2>4. CASE DoesNotFit
    BY <1>2, <2>4 DEF DoesNotFit, Goes, WorkersTurn, Waiting, Turns, TypeOK, Buffer, ScriptState
  <2> QED
    BY <2>1, <2>2, <2>3, <2>4
<1>4. Ordered'
  <2>1. NotEffected' => NotEffected \/ script'.n > script.n
    BY <1>1 DEF Request, ResetStatus, FillIn, SetReady, DoesNotFit, Goes, NotEffected, Waiting,
       TypeOK, ScriptState
  <2> QED
    BY <1>1, <2>1, OrderedKept DEF InTurn
<1>5. Accounted' /\ \A i \in Requests : Own(i)'
  <2>1. ~Effected'
    BY <1>2, <1>1 DEF Request, ResetStatus, FillIn, SetReady, DoesNotFit, Goes, Effected, Waiting,
       WorkersTurn, TypeOK, ScriptState, Buffer
  <2>2. \A i \in Requests : got'[i] = got[i] \/ got'[i].how = "thrown"
    <3>1. got' = got \/ got' = [got EXCEPT ![script.n].how = "thrown"]
      BY DEF Request, ResetStatus, FillIn, SetReady, DoesNotFit
    <3> QED
      BY <3>1 DEF TypeOK, Returns
  <2>3. Accounted'
    BY <1>1, <2>1, <2>2, AccountedKept DEF InTurn
  <2> QED
    BY <1>1, <2>2, <2>3 DEF InTurn, Own
<1> QED
  BY <1>3, <1>4, <1>5 DEF InTurn

\* It waits, and returns with the answer to the request.
LEMMA ReturnStep ==
  ASSUME TypeOK, TypeOK', Base, InTurn, ~Abandoned', Wait \/ TimeOut \/ Answered
  PROVE  InTurn'
<1> USE RequestsAssumption DEF Requests
<1>1. /\ UNCHANGED <<kind, effects, host, buf, script.n>>
      /\ script.pc \in Waiting /\ script.n \in Requests
  BY DEF Wait, TimeOut, Answered, ReturnFrom, Goes, TypeOK, ScriptState, Waiting, Base
<1>2. CASE Wait
  <2>1. script'.pc \in Waiting /\ UNCHANGED got
    BY <1>2 DEF Wait, Goes, Waiting, TypeOK, ScriptState
  <2>2. Turns'
    BY <1>1, <2>1 DEF InTurn, Turns, WorkersTurn, MainsTurn, AnswerGiven, FilledIn
  <2>3. (NotEffected' => NotEffected) /\ (Effected' => Effected)
    BY <1>1, <2>1 DEF NotEffected, Effected, Waiting
  <2>4. script'.n >= script.n
    BY <1>1
  <2>5. Ordered'
    BY <1>1, <2>3, <2>4, OrderedKept DEF InTurn
  <2>6. Accounted'
    BY <1>1, <2>1, <2>3, AccountedKept DEF InTurn
  <2> QED
    BY <1>1, <2>1, <2>2, <2>5, <2>6 DEF InTurn, Own
<1>3. CASE TimeOut
  <2>1. got'[script.n].how = "timeout"
    BY <1>1, <1>3 DEF TimeOut, ReturnFrom, NoReturn, TypeOK
  <2> QED
    BY <1>1, <2>1 DEF Abandoned
<1>4. CASE Answered
  <2> DEFINE r == [how |-> CASE buf.status = "SUCCESS" -> "ok"
                             [] buf.status = "READY" -> "early"
                             [] OTHER -> "error",
                   by |-> buf.by, region |-> buf.region]
  <2>1. got' = [got EXCEPT ![script.n] = r] /\ script'.pc \in {"python", "done"}
    BY <1>4 DEF Answered, ReturnFrom, Goes, TypeOK, ScriptState
  <2>2. got'[script.n] = r /\ \A i \in Requests : i # script.n => got'[i] = got[i]
    BY <1>1, <2>1 DEF TypeOK
  <2>3. buf.status # "READY"
    <3>1. CASE buf.status = "READY"
      <4>1. r.how = "early"
        BY <3>1
      <4> QED
        BY <1>1, <2>2, <4>1 DEF Abandoned
    <3> QED
      BY <3>1
  <2>4. AnswerGiven
    BY <1>1, <2>3 DEF InTurn, Turns, WorkersTurn, MainsTurn
  <2>5. /\ r.by = script.n /\ r.region = buf.region
        /\ r.how = IF buf.status = "SUCCESS" THEN "ok" ELSE "error"
    BY <2>3, <2>4 DEF AnswerGiven
  <2> HIDE DEF r
  <2>6. Turns'
    BY <1>1, <2>1, <2>4 DEF AnswerGiven, WorkersTurn, Turns, Waiting
  <2>7. \A i \in Requests : Own(i)'
    BY <1>1, <2>2, <2>4, <2>5 DEF InTurn, Own, AnswerGiven
  <2>8. ~NotEffected' /\ ~Effected'
    BY <2>1 DEF NotEffected, Effected, Waiting
  <2>9. script'.n >= script.n
    BY <1>1
  <2>10. Ordered'
    BY <1>1, <2>8, <2>9, OrderedKept DEF InTurn
  <2>11. \A i \in Requests : got'[i].how = "ok" /\ kind[i] # "exit" =>
           got[i].how = "ok" \/ (Effected /\ i = script.n)
    BY <1>1, <2>2, <2>5 DEF Effected
  <2>12. Accounted'
    BY <1>1, <2>8, <2>11, AccountedKept DEF InTurn
  <2> QED
    BY <2>6, <2>7, <2>10, <2>12 DEF InTurn
<1> QED
  BY <1>2, <1>3, <1>4

\* The main thread serves the request that is in the buffer, or notifies.
LEMMA HandlerStep ==
  ASSUME TypeOK, TypeOK', Base, Serving, InTurn, Handler
  PROVE  InTurn'
<1> USE RequestsAssumption DEF Requests
<1>0. /\ UNCHANGED <<kind, got>>
      /\ \/ script' = script
         \/ script.pc = "asleep" /\ script' = [script EXCEPT !.pc = "woken"]
  BY DEF Handler, SeeReady, GiveUp, GetOpCode, Handle, Resume, SetStatus, Notify
<1>1. UNCHANGED <<kind, got, script.n>> /\ script'.n >= script.n
  <2>1. script'.n = script.n /\ script.n \in Int
    BY <1>0 DEF TypeOK, ScriptState
  <2> QED
    BY <1>0, <2>1
<1>2. script.pc \in Waiting <=> script'.pc \in Waiting
  BY <1>0 DEF TypeOK, ScriptState, Waiting
<1>3. script.pc \in Waiting => script.n \in Requests
  BY DEF Base, Waiting
<1>4. \A i \in Requests : Own(i)'
  BY <1>1 DEF InTurn, Own
<1>5. CASE SeeReady \/ GiveUp \/ GetOpCode \/ Handle \/ Notify
  <2>1. UNCHANGED <<buf, effects>>
    BY <1>5 DEF SeeReady, GiveUp, GetOpCode, Handle, Notify
  <2>2. Turns'
    <3>1. CASE SeeReady \/ GiveUp
      BY <3>1 DEF SeeReady, GiveUp, InTurn, Turns, WorkersTurn, MainsTurn, AnswerGiven, FilledIn,
         TypeOK, HostState
    <3>2. CASE GetOpCode
      BY <1>3, <3>2 DEF GetOpCode, InTurn, Turns, WorkersTurn, MainsTurn, AnswerGiven, FilledIn,
         TypeOK, HostState
    <3>3. CASE Handle
      BY <1>3, <3>3 DEF Handle, InTurn, Turns, WorkersTurn, MainsTurn, AnswerGiven, FilledIn,
         TypeOK, HostState
    <3>4. CASE Notify
      <4>1. host'.pc \in {"loop", "stopped"}
        BY <3>4 DEF Notify, TypeOK, HostState
      <4>2. UNCHANGED <<buf, kind>> /\ host.pc = "notify"
        BY <3>4 DEF Notify
      <4>3. script.pc = "ready" <=> script'.pc = "ready"
        BY <3>4 DEF Notify, TypeOK, ScriptState
      <4> QED
        BY <1>1, <1>2, <4>1, <4>2, <4>3 DEF InTurn, Turns, WorkersTurn, MainsTurn, AnswerGiven, FilledIn
    <3> QED
      BY <1>5, <3>1, <3>2, <3>3, <3>4
  <2>3. Effected' => Effected
    <3>1. CASE Handle
      <4>1. MainsTurn /\ host.op = script.n
        BY <3>1 DEF Handle, InTurn, Turns, WorkersTurn, MainsTurn, AnswerGiven
      <4>2. host'.pc = "answer" => kind[script.n] = "exit"
        BY <3>1, <4>1 DEF Handle, TypeOK, HostState
      <4>3. buf.status = "READY"
        BY <4>1 DEF MainsTurn
      <4> QED
        BY <1>1, <2>1, <4>2, <4>3 DEF Effected
    <3>2. CASE ~Handle
      <4>1. ~(host'.pc = "answer" /\ host'.ok)
        BY <1>5, <3>2 DEF SeeReady, GiveUp, GetOpCode, Notify, TypeOK, HostState
      <4> QED
        BY <1>1, <1>2, <2>1, <4>1 DEF Effected
    <3> QED
      BY <3>1, <3>2
  <2>4. NotEffected' => NotEffected
    <3>1. host.pc # "answer"
      BY <1>5 DEF SeeReady, GiveUp, GetOpCode, Handle, Notify
    <3>2. script'.pc \in {"reset", "fill", "ready"} => script'.pc = script.pc
      BY <1>5 DEF SeeReady, GiveUp, GetOpCode, Handle, Notify, TypeOK, ScriptState
    <3> QED
      BY <1>2, <2>1, <3>1, <3>2 DEF NotEffected
  <2>5. Ordered'
    BY <1>1, <2>1, <2>4, OrderedKept DEF InTurn
  <2>6. Accounted'
    BY <1>1, <2>1, <2>3, AccountedKept DEF InTurn
  <2> QED
    BY <1>4, <2>2, <2>5, <2>6 DEF InTurn
<1>6. CASE Resume
  <2>1. PICK ok \in BOOLEAN :
          /\ host' = [host EXCEPT !.pc = "answer", !.ok = ok]
          /\ buf' = IF ok /\ kind[host.op] = "write" THEN buf
                    ELSE [buf EXCEPT !.region = ResultOf(host.op)]
          /\ effects' = IF ok THEN Append(effects, [op |-> host.op, path |-> host.path,
                                                   region |-> host.region])
                        ELSE effects
    BY <1>6 DEF Resume, ResultOf
  <2>2. host.pc = "await" /\ UNCHANGED script
    BY <1>6 DEF Resume
  <2>3. /\ script.pc \in Waiting /\ buf.status = "READY" /\ FilledIn
        /\ host.op = script.n /\ host.path = script.n /\ kind[script.n] # "exit"
        /\ kind[script.n] = "write" => host.region = DataOf(script.n)
    BY <2>2 DEF InTurn, Turns, WorkersTurn, MainsTurn, AnswerGiven
  <2>4. /\ host'.pc = "answer" /\ host'.ok = ok /\ host'.op = script.n
        /\ buf'.status = "READY" /\ (~ok \/ kind[script.n] = "read" => buf'.region = ResultOf(script.n))
    BY <2>1, <2>3 DEF TypeOK, HostState, Buffer
  <2>5. Turns'
    BY <1>1, <2>2, <2>3, <2>4 DEF MainsTurn, Turns
  <2>6. NotEffected
    BY <2>2, <2>3 DEF NotEffected
  <2>7. CASE ~ok
    <3>1. UNCHANGED effects /\ ~Effected'
      BY <2>1, <2>4, <2>7 DEF Effected
    <3>2. Ordered'
      BY <1>1, <2>6, <3>1, OrderedKept DEF InTurn
    <3>3. Accounted'
      BY <1>1, <3>1, AccountedKept DEF InTurn
    <3> QED
      BY <1>4, <2>5, <3>2, <3>3 DEF InTurn
  <2>8. CASE ok
    <3> DEFINE e == [op |-> host.op, path |-> host.path, region |-> host.region]
    <3>1. effects' = Append(effects, e)
      BY <2>1, <2>8
    <3>2. Len(effects) \in Nat /\ DOMAIN effects = 1 .. Len(effects)
      BY DEF TypeOK
    <3>3. /\ DOMAIN effects' = 1 .. Len(effects) + 1
          /\ effects'[Len(effects) + 1] = e
          /\ \A j \in DOMAIN effects : effects'[j] = effects[j]
      BY <3>1, <3>2 DEF TypeOK
    <3>4. e.op = script.n /\ e.path = script.n /\ e.region = host.region
      BY <2>3
    <3> HIDE DEF e
    <3>5. \A j \in DOMAIN effects : effects[j].op < script.n
      BY <2>6 DEF InTurn, Ordered
    <3>6. Whole(e)
      BY <2>3, <3>4 DEF Whole, DataOf
    <3>7. \A j \in DOMAIN effects' : Whole(effects[j])'
      <4>1. \A j \in DOMAIN effects : Whole(effects[j])
        BY DEF InTurn, Ordered
      <4>2. \A j \in DOMAIN effects' : j \in DOMAIN effects \/ j = Len(effects) + 1
        BY <3>2, <3>3
      <4> QED
        BY <1>1, <3>3, <3>6, <4>1, <4>2 DEF Whole
    <3>8. \A j, k \in DOMAIN effects' : j < k => effects'[j].op < effects'[k].op
      BY <3>2, <3>3, <3>4, <3>5 DEF InTurn, Ordered
    <3>9. \A j \in DOMAIN effects' : effects'[j].op <= script'.n
      <4>1. script.n \in Int /\ script'.n = script.n
        BY <1>1 DEF TypeOK, ScriptState
      <4>2. \A j \in DOMAIN effects' : effects'[j].op < script.n \/ effects'[j].op = script.n
        BY <3>2, <3>3, <3>4, <3>5
      <4>3. \A j \in DOMAIN effects' : effects'[j].op \in Int
        BY <3>2, <3>3, <3>4, <4>1, EffectNumbers
      <4> QED
        BY <4>1, <4>2, <4>3
    <3>10. ~NotEffected'
      BY <2>2, <2>3, <2>4, <2>8 DEF NotEffected, Waiting
    <3>11. \A i : Made(i) \/ i = script.n => \E j \in DOMAIN effects' : effects'[j].op = i
      BY <3>2, <3>3, <3>4 DEF Made
    <3>12. Accounted'
      <4>1. script'.n = script.n /\ kind' = kind /\ got' = got
        BY <1>1
      <4> QED
        BY <4>1, <3>11 DEF InTurn, Accounted, Made
    <3>13. Ordered'
      BY <3>7, <3>8, <3>9, <3>10 DEF Ordered
    <3> QED
      BY <1>4, <2>5, <3>12, <3>13 DEF InTurn
  <2> QED
    BY <2>7, <2>8
<1>7. CASE SetStatus
  <2>1. /\ host.pc = "answer" /\ host'.pc = "notify"
        /\ buf'.status = (IF host.ok THEN "SUCCESS" ELSE "ERROR")
        /\ buf'.by = host.op /\ buf'.region = buf.region
        /\ UNCHANGED <<script, effects>>
    BY <1>7 DEF SetStatus, TypeOK, HostState, Buffer
  <2>2. MainsTurn /\ host.op = script.n
    BY <2>1 DEF InTurn, Turns, WorkersTurn, MainsTurn, AnswerGiven
  <2>3. Turns'
    BY <1>1, <2>1, <2>2 DEF MainsTurn, AnswerGiven, Turns
  <2>4. Effected' => Effected
    BY <1>1, <2>1, <2>2 DEF Effected, MainsTurn
  <2>5. ~NotEffected'
    BY <2>1, <2>2 DEF NotEffected, MainsTurn, Waiting
  <2>6. Ordered'
    BY <1>1, <2>1, <2>5, OrderedKept DEF InTurn
  <2>7. Accounted'
    BY <1>1, <2>1, <2>4, AccountedKept DEF InTurn
  <2> QED
    BY <1>4, <2>3, <2>6, <2>7 DEF InTurn
<1> QED
  BY <1>5, <1>6, <1>7 DEF Handler

\* The invariant is preserved: by every step until a request is abandoned, and
\* vacuously, but for the numbers of the requests, from then on.
LEMMA TurnTakingStep == TypeOK /\ TypeOK' /\ TurnTaking /\ [Next]_vars => TurnTaking'
<1> SUFFICES ASSUME TypeOK, TypeOK', TurnTaking, [Next]_vars
             PROVE  TurnTaking'
  OBVIOUS
<1>1. Serving' /\ Base'
  BY ServingStep, BaseStep DEF TurnTaking
<1>2. ASSUME ~Abandoned'
      PROVE  InTurn'
  <2>1. InTurn
    BY <1>2, AbandonedLasts DEF TurnTaking
  <2>2. CASE UNCHANGED vars
    <3>1. UNCHANGED <<buf, script, host, kind, got, effects>>
      BY <2>2 DEF vars
    <3> QED
      BY <2>1, <3>1 DEF InTurn, Turns, WorkersTurn, MainsTurn, AnswerGiven, FilledIn, Own, Ordered,
         Accounted, Made, Effected, NotEffected, Whole
  <2> QED
    BY <1>1, <1>2, <2>1, <2>2, RequestStep, ReturnStep, HandlerStep DEF Next, ExecSync, TurnTaking
<1> QED
  BY <1>1, <1>2 DEF TurnTaking

\* The types and the invariant hold when the worker has asked for nothing.
LEMMA Start == Init => TypeOK /\ TurnTaking
<1> SUFFICES ASSUME Init
             PROVE  TypeOK /\ TurnTaking
  OBVIOUS
<1> USE RequestsAssumption DEF Requests
<1>1. 0 \in 0 .. MaxRequests
  OBVIOUS
<1>2. Blank \in Regions
  BY <1>1 DEF Blank, Regions
<1>3. NoReturn \in Returns
  BY <1>1, <1>2 DEF NoReturn, Returns
<1>4. TypeOK
  <2>1. buf \in Buffer /\ script \in ScriptState /\ host \in HostState
    BY <1>1, <1>2 DEF Init, Buffer, ScriptState, HostState
  <2>2. kind \in [Requests -> OpKinds] /\ got \in [Requests -> Returns]
    BY <1>3 DEF Init
  <2>3. effects \in Seq(Effects)
    BY DEF Init
  <2> QED
    BY <2>1, <2>2, <2>3 DEF TypeOK
<1>5. Serving /\ Base
  BY DEF Init, Serving, Base
<1>6. Turns
  BY DEF Init, Turns, WorkersTurn, Waiting
<1>7. (\A i \in Requests : Own(i)) /\ Accounted
  BY DEF Init, Own, Accounted, Effected, Waiting, NoReturn
<1>8. Ordered
  <2>1. DOMAIN effects = {}
    BY DEF Init
  <2> QED
    BY <2>1 DEF Ordered
<1> QED
  BY <1>4, <1>5, <1>6, <1>7, <1>8 DEF TurnTaking, InTurn

LEMMA Invariant == Spec => [](TypeOK /\ TurnTaking)
<1>1. TypeOK /\ TurnTaking /\ [Next]_vars => (TypeOK /\ TurnTaking)'
  BY TypeStep, TurnTakingStep DEF TurnTaking
<1> QED
  BY Start, <1>1, PTL DEF Spec

-----------------------------------------------------------------------------
(* The theorems.                                                           *)

\* Every variable of the two threads keeps its type: the number in a field of
\* the buffer is always that of a request, or 0, with any number of requests.
THEOREM TypeCorrect == Spec => []TypeOK
BY Invariant, PTL

\* Until a request is abandoned, execSync returns the answer to its own request,
\* with its own result or error.
THEOREM AnswersAreOwn == Spec => []Synchronous
<1>1. TypeOK /\ TurnTaking => Synchronous
  BY DEF TurnTaking, InTurn, Own, ResultOf, Synchronous
<1> QED
  BY Invariant, <1>1, PTL

\* Until a request is abandoned, the file system is called for the requests of the
\* script, whole, in its order and at most once, and for every one that succeeded.
THEOREM EffectsAreOrdered == Spec => []EffectsInOrder
<1>1. TypeOK /\ TurnTaking => EffectsInOrder
  BY DEF TurnTaking, InTurn, Ordered, Accounted, Made, EffectsInOrder
<1> QED
  BY Invariant, <1>1, PTL
=============================================================================
