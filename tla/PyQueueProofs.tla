---------------------------- MODULE PyQueueProofs ----------------------------
(***************************************************************************)
(* What TLAPS proves of PyQueue: its types; that scripts never overlap and *)
(* each call is settled by its own result, until a worker posts a notice   *)
(* or an "error" event gives up an execution that a thread still has; and  *)
(* that no call is ever forgotten.                                         *)
(***************************************************************************)
EXTENDS PyQueue, TLAPS

-----------------------------------------------------------------------------
(* Types.                                                                  *)

\* A message leaves the outbox of a thread, or enters it.
LEMMA OutboxTail ==
  ASSUME NEW t \in Thread, t.outbox # <<>>
  PROVE  /\ Head(t.outbox) \in Calls \cup {Notice}
         /\ [t EXCEPT !.outbox = Tail(@)] \in Thread
<1>1. t.outbox \in Seq(Calls \cup {Notice})
  BY DEF Thread
<1>2. Tail(t.outbox) \in Seq(Calls \cup {Notice}) /\ Head(t.outbox) \in Calls \cup {Notice}
  BY <1>1
<1> QED
  BY <1>2 DEF Thread

\* A message posted to an outbox keeps it a sequence of messages, and adds itself.
LEMMA OutboxAppend ==
  ASSUME NEW t \in Thread, NEW m \in Calls \cup {Notice}, NEW S \in SUBSET Calls
  PROVE  [t EXCEPT !.tasks = S, !.outbox = Append(@, m)] \in Thread
<1>1. t.outbox \in Seq(Calls \cup {Notice})
  BY DEF Thread
<1>2. Append(t.outbox, m) \in Seq(Calls \cup {Notice})
  BY <1>1
<1> QED
  BY <1>2 DEF Thread

\* The timer of an idle worker is armed.
LEMMA IdleTyped ==
  ASSUME TypeOK
  PROVE  /\ ScheduleTermination => idle' \in [latest: BOOLEAN, lost: Nat]
         /\ Elapsed => idle' \in [latest: BOOLEAN, lost: Nat]
<1>1. idle \in [latest: BOOLEAN, lost: Nat] /\ idle.lost \in Nat /\ idle.latest \in BOOLEAN
  BY DEF TypeOK
<1>2. idle.lost + (IF idle.latest THEN 1 ELSE 0) \in Nat
  BY <1>1
<1>3. idle.lost > 0 => idle.lost - 1 \in Nat
  BY <1>1
<1>4. ScheduleTermination => idle' \in [latest: BOOLEAN, lost: Nat]
  BY <1>2 DEF ScheduleTermination
<1>5. Elapsed => idle' \in [latest: BOOLEAN, lost: Nat]
  <2>1. [idle EXCEPT !.latest = FALSE] \in [latest: BOOLEAN, lost: Nat]
    BY <1>1
  <2>2. idle.lost > 0 => [idle EXCEPT !.lost = @ - 1] \in [latest: BOOLEAN, lost: Nat]
    BY <1>1, <1>3
  <2> QED
    BY <2>1, <2>2 DEF Elapsed
<1> QED
  BY <1>4, <1>5

\* The types of the variables that processNextExecution assigns.
MainTyped ==
  /\ queue \in Seq(Calls)
  /\ current \in Calls \cup {None}
  /\ shared \in Workers \cup {None}
  /\ idle \in [latest: BOOLEAN, lost: Nat]
  /\ worker \in [Workers -> Thread]

\* A thread that is given a task is a thread, and so is one that is started.
LEMMA TaskTyped ==
  ASSUME NEW t \in Thread, NEW c \in Calls
  PROVE  /\ [t EXCEPT !.tasks = @ \cup {c}] \in Thread
         /\ [t EXCEPT !.st = "live", !.tasks = {c}] \in Thread
BY DEF Thread

\* processNextExecution keeps the types, whatever queue and threads it is given.
LEMMA ProcessNextTyped ==
  ASSUME NEW q \in Seq(Calls), NEW cur \in Calls \cup {None},
         NEW ws \in [Workers -> Thread], MainTyped, ProcessNext(q, cur, ws)
  PROVE  MainTyped'
<1>1. CASE cur # None \/ q = <<>>
  BY <1>1 DEF ProcessNext, MainTyped
<1>2. CASE ~(cur # None \/ q = <<>>)
  <2>1. Head(q) \in Calls /\ Tail(q) \in Seq(Calls)
    BY <1>2
  <2>2. worker' \in [Workers -> Thread] /\ shared' \in Workers \cup {None}
    <3>1. CASE /\ shared # None
               /\ worker' = IF ws[shared].st = "live"
                            THEN [ws EXCEPT ![shared].tasks = @ \cup {Head(q)}] ELSE ws
               /\ UNCHANGED shared
      <4>1. shared \in Workers
        BY <3>1 DEF MainTyped
      <4>2. [ws[shared] EXCEPT !.tasks = @ \cup {Head(q)}] \in Thread
        BY <4>1, <2>1, TaskTyped
      <4> QED
        BY <3>1, <4>1, <4>2
    <3>2. ASSUME NEW w \in Workers, shared' = w,
                 worker' = [ws EXCEPT ![w].st = "live", ![w].tasks = {Head(q)}]
          PROVE  worker' \in [Workers -> Thread] /\ shared' \in Workers \cup {None}
      <4>1. [ws[w] EXCEPT !.st = "live", !.tasks = {Head(q)}] \in Thread
        BY <2>1, TaskTyped
      <4> QED
        BY <3>2, <4>1
    <3> QED
      BY <1>2, <3>1, <3>2 DEF ProcessNext
  <2>3. queue' \in Seq(Calls) /\ current' \in Calls \cup {None}
    BY <1>2, <2>1 DEF ProcessNext
  <2>4. idle' \in [latest: BOOLEAN, lost: Nat]
    BY <1>2 DEF ProcessNext, MainTyped
  <2> QED
    BY <2>2, <2>3, <2>4 DEF MainTyped
<1> QED
  BY <1>1, <1>2

\* Settling promises with the result of a call, or with another outcome.
LEMMA SettleTyped ==
  ASSUME TypeOK, NEW cs, NEW r \in {"timeout", "crash", Notice} \cup Calls, Settle(cs, r)
  PROVE  outcome' \in [Calls -> {"new", "pending", "timeout", "crash", Notice} \cup Calls]
BY DEF Settle, TypeOK

\* The head of an outbox is a message, and the rest of it an outbox.
LEMMA OutboxTyped ==
  ASSUME TypeOK, NEW w \in Workers, worker[w].outbox # <<>>
  PROVE  /\ Head(worker[w].outbox) \in Calls \cup {Notice}
         /\ [worker EXCEPT ![w].outbox = Tail(@)] \in [Workers -> Thread]
BY OutboxTail DEF TypeOK

\* Every step keeps the types.
LEMMA TypeStep == TypeOK /\ [Next]_vars => TypeOK'
<1> SUFFICES ASSUME TypeOK, [Next]_vars
             PROVE  TypeOK'
  OBVIOUS
<1> USE NamesAssumption
<1>1. ASSUME NEW c \in Calls, Execute(c)
      PROVE  TypeOK'
  <2>1. MainTyped /\ Append(queue, c) \in Seq(Calls)
    BY DEF TypeOK, MainTyped
  <2>2. MainTyped'
    BY <1>1, <2>1, ProcessNextTyped DEF Execute, MainTyped
  <2> QED
    BY <1>1, <2>2 DEF Execute, MainTyped, history, TypeOK
<1>2. ASSUME NEW c \in Calls, CallTimer(c)
      PROVE  TypeOK'
  BY <1>2, SettleTyped DEF CallTimer, mainVars, history, TypeOK
<1>3. ASSUME NEW w \in Workers, OnMessage(w)
      PROVE  TypeOK'
  <2> DEFINE ws == [worker EXCEPT ![w].outbox = Tail(@)]
  <2>1. /\ Head(worker[w].outbox) \in Calls \cup {Notice}
        /\ ws \in [Workers -> Thread]
    BY <1>3, OutboxTyped DEF OnMessage
  <2>2. outcome' \in [Calls -> {"new", "pending", "timeout", "crash", Notice} \cup Calls]
    BY <1>3, <2>1, SettleTyped DEF OnMessage
  <2>3. MainTyped'
    <3> USE DEF OnMessage
    <3> MainTyped
      BY DEF TypeOK, MainTyped
    <3>1. CASE queue # <<>>
      BY <1>3, <2>1, <3>1, ProcessNextTyped DEF MainTyped
    <3>2. CASE queue = <<>>
      BY <1>3, <2>1, <3>2, IdleTyped DEF MainTyped
    <3> QED
      BY <3>1, <3>2
  <2> QED
    BY <1>3, <2>2, <2>3 DEF OnMessage, MainTyped, history, TypeOK
<1>4. ASSUME NEW w \in Workers, OnError(w)
      PROVE  TypeOK'
  <2>1. outcome' \in [Calls -> {"new", "pending", "timeout", "crash", Notice} \cup Calls]
    BY <1>4, SettleTyped DEF OnError
  <2>2. [worker[w] EXCEPT !.st = "stopping"] \in Thread
    BY SMTT(30) DEF TypeOK, Thread
  <2> QED
    BY <1>4, <2>1, <2>2 DEF OnError, TypeOK
<1>5. ASSUME NEW w \in Workers, OnExit(w)
      PROVE  TypeOK'
  <2>1. [worker[w] EXCEPT !.st = "gone", !.outbox = <<>>] \in Thread
    <3>1. worker[w] \in Thread /\ <<>> \in Seq(Calls \cup {Notice})
      BY DEF TypeOK
    <3> QED
      BY <3>1 DEF Thread
  <2> QED
    BY <1>5, <2>1 DEF OnExit, history, TypeOK
<1>6. CASE IdleTimer
  <2>1. idle' \in [latest: BOOLEAN, lost: Nat]
    BY <1>6, IdleTyped DEF IdleTimer
  <2>2. shared \in Workers =>
          [worker[shared] EXCEPT !.st = IF @ = "crashed" THEN @ ELSE "stopping",
                                 !.tasks = {}] \in Thread
    BY DEF TypeOK, Thread
  <2>3. worker' \in [Workers -> Thread] /\ shared' \in Workers \cup {None}
    BY ZenonT(60), <1>6, <2>2 DEF IdleTimer, Terminate, TypeOK
  <2> QED
    BY <1>6, <2>1, <2>3 DEF IdleTimer, history, TypeOK
<1>7. ASSUME NEW w \in Workers, End(w)
      PROVE  TypeOK'
  <2>1. PICK c \in worker[w].tasks :
          worker' = [worker EXCEPT ![w].tasks = @ \ {c}, ![w].outbox = Append(@, c)]
    BY <1>7 DEF End
  <2>2. [worker[w] EXCEPT !.tasks = @ \ {c}, !.outbox = Append(@, c)] \in Thread
    <3>1. worker[w] \in Thread /\ worker[w].tasks \in SUBSET Calls
      BY DEF TypeOK, Thread
    <3>2. c \in Calls /\ worker[w].tasks \ {c} \in SUBSET Calls
      BY <3>1
    <3> QED
      BY <3>1, <3>2, OutboxAppend
  <2>3. worker' \in [Workers -> Thread]
    BY <2>1, <2>2 DEF TypeOK
  <2> QED
    BY <1>7, <2>3 DEF End, mainVars, history, TypeOK
<1>8. ASSUME NEW w \in Workers, Violate(w)
      PROVE  TypeOK'
  <2>1. [worker[w] EXCEPT !.outbox = Append(@, Notice)] \in Thread
    <3>1. worker[w] \in Thread /\ worker[w].outbox \in Seq(Calls \cup {Notice})
      BY DEF TypeOK, Thread
    <3>2. Append(worker[w].outbox, Notice) \in Seq(Calls \cup {Notice})
      BY <3>1
    <3> QED
      BY <3>1, <3>2 DEF Thread
  <2>2. notices' \in 0 .. MaxNotices
    BY <1>8 DEF Violate, TypeOK
  <2> QED
    BY <1>8, <2>1, <2>2 DEF Violate, mainVars, TypeOK
<1>9. ASSUME NEW w \in Workers, Crash(w)
      PROVE  TypeOK'
  <2>1. [worker[w] EXCEPT !.st = "crashed", !.tasks = {}] \in Thread
    BY DEF TypeOK, Thread
  <2> QED
    BY <1>9, <2>1 DEF Crash, mainVars, history, TypeOK
<1>10. CASE UNCHANGED vars
  BY <1>10 DEF vars, mainVars, history, TypeOK
<1> QED
  BY <1>1, <1>2, <1>3, <1>4, <1>5, <1>6, <1>7, <1>8, <1>9, <1>10
  DEF Next, Caller, Main, WorkerThreads

\* The initial state has the types.
LEMMA InitTyped == Init => TypeOK
<1> SUFFICES ASSUME Init
             PROVE  TypeOK
  OBVIOUS
<1>1. NoThread \in Thread
  <2>1. <<>> \in Seq(Calls \cup {Notice})
    OBVIOUS
  <2> QED
    BY <2>1 DEF NoThread, Thread
<1>2. worker \in [Workers -> Thread]
  BY <1>1 DEF Init
<1>3. queue \in Seq(Calls) /\ givenUp \in BOOLEAN
  <2>1. <<>> \in Seq(Calls)
    OBVIOUS
  <2> QED
    BY <2>1 DEF Init
<1>4. notices \in 0 .. MaxNotices
  BY NamesAssumption DEF Init
<1> QED
  BY <1>2, <1>3, <1>4 DEF Init, TypeOK

\* Every variable keeps its type, for any number of calls, workers and notices.
THEOREM TypeCorrect == Spec => []TypeOK
<1> QED
  BY InitTyped, TypeStep, PTL DEF Spec

-----------------------------------------------------------------------------
(* One execution at a time.                                                *)

\* A thread without work, and one that has the execution cur: its input, or its
\* result.
Empty(t) == t.tasks = {} /\ t.outbox = <<>>
Carries(t, cur) ==
  \/ t.tasks = {cur} /\ t.outbox = <<>>
  \/ t.tasks = {} /\ t.outbox = <<cur>>

\* What the threads have is the execution in progress, in one of them.
OneCarrier(ws, cur) ==
  /\ \A w \in Workers : Empty(ws[w]) \/ (cur # None /\ Carries(ws[w], cur))
  /\ \A v, w \in Workers : ~Empty(ws[v]) /\ ~Empty(ws[w]) => v = w

Answers(out) == \A c \in Calls : out[c] \in Calls \cup {Notice} => out[c] = c

\* OneCarrier is what makes OwnAnswer inductive: a message that comes is the
\* result of the execution in progress.
IInv == TypeOK /\ (InStep => OneCarrier(worker, current) /\ Answers(outcome))

\* With no execution in progress, processNextExecution gives the next one to one
\* thread.
LEMMA ProcessNextCarries ==
  ASSUME NEW q \in Seq(Calls), NEW cur \in Calls \cup {None},
         NEW ws \in [Workers -> Thread], shared \in Workers \cup {None},
         OneCarrier(ws, cur), ProcessNext(q, cur, ws)
  PROVE  OneCarrier(worker', current')
<1> USE NamesAssumption
<1>1. CASE cur # None \/ q = <<>>
  BY <1>1 DEF ProcessNext
<1>2. CASE ~(cur # None \/ q = <<>>)
  <2>1. /\ current' = Head(q) /\ current' # None /\ Head(q) \in Calls
        /\ \A w \in Workers : Empty(ws[w])
    BY <1>2 DEF ProcessNext, OneCarrier
  <2>2. CASE worker' = ws
    BY <2>1, <2>2 DEF OneCarrier
  <2>3. ASSUME NEW w \in Workers, NEW t \in Thread, worker' = [ws EXCEPT ![w] = t],
               t.tasks = {Head(q)}, t.outbox = <<>>
        PROVE  OneCarrier(worker', current')
    <3>1. worker'[w] = t /\ \A v \in Workers \ {w} : worker'[v] = ws[v]
      BY <2>3
    <3>2. Carries(worker'[w], current') /\ \A v \in Workers \ {w} : Empty(worker'[v])
      BY <3>1, <2>1, <2>3 DEF Carries
    <3> QED
      BY <2>1, <3>2 DEF OneCarrier
  <2>4. CASE /\ shared # None /\ ws[shared].st = "live"
             /\ worker' = [ws EXCEPT ![shared].tasks = @ \cup {Head(q)}]
    <3>1. shared \in Workers /\ Empty(ws[shared])
      BY <2>1, <2>4
    <3> DEFINE t == [ws[shared] EXCEPT !.tasks = @ \cup {Head(q)}]
    <3>2. t \in Thread /\ worker' = [ws EXCEPT ![shared] = t]
      BY <3>1, <2>1, <2>4, TaskTyped
    <3>3. t.tasks = {Head(q)} /\ t.outbox = <<>>
      BY <3>1 DEF Empty, Thread
    <3> HIDE DEF t
    <3> QED
      BY <2>3, <3>1, <3>2, <3>3
  <2>5. ASSUME NEW w \in Workers,
               worker' = [ws EXCEPT ![w].st = "live", ![w].tasks = {Head(q)}]
        PROVE  OneCarrier(worker', current')
    <3> DEFINE t == [ws[w] EXCEPT !.st = "live", !.tasks = {Head(q)}]
    <3>1. t \in Thread /\ worker' = [ws EXCEPT ![w] = t]
      BY <2>1, <2>5, TaskTyped
    <3>2. t.tasks = {Head(q)} /\ t.outbox = <<>>
      BY <2>1 DEF Empty, Thread
    <3> HIDE DEF t
    <3> QED
      BY <2>3, <3>1, <3>2
  <2> QED
    BY <1>2, <2>2, <2>4, <2>5 DEF ProcessNext
<1> QED
  BY <1>1, <1>2

\* Promises that are settled by a timer, a crash or their own result.
LEMMA SettleAnswers ==
  ASSUME TypeOK, Answers(outcome), NEW cs, NEW r, Settle(cs, r),
         r \in {"timeout", "crash"} \/ (r \in Calls /\ cs = {r})
  PROVE  Answers(outcome')
BY NamesAssumption DEF Settle, Answers, TypeOK

\* A message that comes while OneCarrier holds is the result of the execution in
\* progress, and leaves every thread empty.
LEMMA MessageIsResult ==
  ASSUME TypeOK, OneCarrier(worker, current), NEW w \in Workers,
         worker[w].outbox # <<>>
  PROVE  /\ current \in Calls /\ Head(worker[w].outbox) = current
         /\ \A v \in Workers : Empty([worker EXCEPT ![w].outbox = Tail(@)][v])
<1>1. ~Empty(worker[w])
  BY DEF Empty
<1>2. worker[w].tasks = {} /\ worker[w].outbox = <<current>> /\ current # None
  BY <1>1 DEF OneCarrier, Carries
<1>3. current \in Calls /\ Head(worker[w].outbox) = current /\ Tail(worker[w].outbox) = <<>>
  BY <1>2 DEF TypeOK
<1>4. \A v \in Workers : v # w => Empty(worker[v])
  BY <1>1 DEF OneCarrier
<1>5. /\ [worker EXCEPT ![w].outbox = Tail(@)] \in [Workers -> Thread]
      /\ \A v \in Workers : v # w => [worker EXCEPT ![w].outbox = Tail(@)][v] = worker[v]
      /\ [worker EXCEPT ![w].outbox = Tail(@)][w] = [worker[w] EXCEPT !.outbox = Tail(@)]
  BY OutboxTyped DEF TypeOK
<1>6. /\ [worker[w] EXCEPT !.outbox = Tail(@)].tasks = {}
      /\ [worker[w] EXCEPT !.outbox = Tail(@)].outbox = <<>>
  BY <1>2, <1>3 DEF TypeOK, Thread
<1> QED
  BY <1>3, <1>4, <1>5, <1>6 DEF Empty

\* When no thread has anything, OneCarrier holds of every execution in progress.
LEMMA EmptyThreads ==
  ASSUME NEW ws, NEW cur, \A w \in Workers : Empty(ws[w])
  PROVE  OneCarrier(ws, cur)
BY DEF OneCarrier

\* No step takes back what the histories record.
LEMMA InStepBackwards == TypeOK /\ [Next]_vars /\ InStep' => InStep
<1> SUFFICES ASSUME TypeOK, [Next]_vars, InStep'
             PROVE  InStep
  OBVIOUS
<1>1. \A c \in Calls : Execute(c) \/ CallTimer(c) => UNCHANGED history
  BY DEF Execute, CallTimer
<1>2. \A w \in Workers : OnMessage(w) \/ OnExit(w) \/ End(w) \/ Crash(w) => UNCHANGED history
  BY DEF OnMessage, OnExit, End, Crash
<1>3. IdleTimer \/ UNCHANGED vars => UNCHANGED history
  BY DEF IdleTimer, vars
<1>4. \A w \in Workers : OnError(w) => notices' = notices /\ (givenUp => givenUp')
  BY DEF OnError
<1>5. \A w \in Workers : ~Violate(w)
  <2>1. \A w \in Workers : Violate(w) => notices' = notices + 1
    BY DEF Violate
  <2>2. notices \in Nat /\ notices' = 0
    BY DEF TypeOK, InStep
  <2> QED
    BY <2>1, <2>2
<1>6. UNCHANGED history \/ (notices' = notices /\ (givenUp => givenUp'))
  BY <1>1, <1>2, <1>3, <1>4, <1>5 DEF Next, Caller, Main, WorkerThreads
<1> QED
  BY <1>6 DEF InStep, history

\* Every step keeps OneCarrier and Answers while the histories are clean.
LEMMA CarrierStep == IInv /\ [Next]_vars => IInv'
<1> SUFFICES ASSUME IInv, [Next]_vars, InStep'
             PROVE  OneCarrier(worker, current)' /\ Answers(outcome)'
  BY TypeStep DEF IInv
<1> USE NamesAssumption
<1> TypeOK /\ TypeOK'
  BY TypeStep DEF IInv
<1>0. InStep
  BY InStepBackwards
<1>00. OneCarrier(worker, current) /\ Answers(outcome)
  BY <1>0 DEF IInv
<1>1. ASSUME NEW c \in Calls, Execute(c)
      PROVE  OneCarrier(worker, current)' /\ Answers(outcome)'
  <2>1. OneCarrier(worker', current')
    <3>1. /\ Append(queue, c) \in Seq(Calls)
          /\ current \in Calls \cup {None} /\ shared \in Workers \cup {None}
          /\ worker \in [Workers -> Thread]
      BY DEF TypeOK
    <3> QED
      BY <1>1, <1>00, <3>1, ProcessNextCarries DEF Execute
  <2>2. Answers(outcome')
    BY <1>1, <1>00 DEF Execute, Answers, TypeOK
  <2> QED
    BY <2>1, <2>2
<1>2. ASSUME NEW c \in Calls, CallTimer(c)
      PROVE  OneCarrier(worker, current)' /\ Answers(outcome)'
  BY <1>2, <1>00, SettleAnswers DEF CallTimer, mainVars
<1>3. ASSUME NEW w \in Workers, OnMessage(w)
      PROVE  OneCarrier(worker, current)' /\ Answers(outcome)'
  <2> DEFINE ws == [worker EXCEPT ![w].outbox = Tail(@)]
  <2>1. worker[w].outbox # <<>>
    BY <1>3 DEF OnMessage
  <2>2. /\ Head(worker[w].outbox) = current /\ current \in Calls
        /\ \A v \in Workers : Empty(ws[v])
    BY <2>1, <1>00, MessageIsResult
  <2>3. Settle({current}, current) /\ Answers(outcome')
    BY <1>3, <2>2, <1>00, SettleAnswers DEF OnMessage
  <2>4. OneCarrier(worker', current')
    <3>1. CASE queue # <<>>
      <4>1. ws \in [Workers -> Thread] /\ OneCarrier(ws, None)
        BY <2>1, <2>2, OutboxTyped, EmptyThreads
      <4>2. ProcessNext(queue, None, ws)
        BY <1>3, <3>1 DEF OnMessage
      <4>3. queue \in Seq(Calls) /\ shared \in Workers \cup {None}
        BY DEF TypeOK
      <4> HIDE DEF ws
      <4> QED
        BY <4>1, <4>2, <4>3, ProcessNextCarries
    <3>2. CASE queue = <<>>
      <4>1. worker' = ws
        BY <1>3, <3>2 DEF OnMessage
      <4> HIDE DEF ws
      <4> QED
        BY <4>1, <2>2, EmptyThreads
    <3> QED
      BY <3>1, <3>2
  <2> QED
    BY <2>3, <2>4
<1>4. ASSUME NEW w \in Workers, OnError(w)
      PROVE  OneCarrier(worker, current)' /\ Answers(outcome)'
  <2>1. \A v \in Workers : Empty(worker[v])
    BY <1>4 DEF OnError, InStep, Busy, Empty
  <2>2. /\ \A v \in Workers : v # w => worker'[v] = worker[v]
        /\ worker'[w].tasks = worker[w].tasks /\ worker'[w].outbox = worker[w].outbox
    BY <1>4 DEF OnError, TypeOK, Thread
  <2>3. \A v \in Workers : Empty(worker'[v])
    BY <2>1, <2>2 DEF Empty
  <2>4. Answers(outcome')
    BY <1>4, <1>00, SettleAnswers DEF OnError
  <2> QED
    BY <2>3, <2>4, EmptyThreads
<1>5. ASSUME NEW w \in Workers, OnExit(w)
      PROVE  OneCarrier(worker, current)' /\ Answers(outcome)'
  <2>1. /\ \A v \in Workers : v # w => worker'[v] = worker[v]
        /\ worker'[w].tasks = worker[w].tasks /\ worker'[w].outbox = <<>>
        /\ current' = current /\ outcome' = outcome
    BY <1>5 DEF OnExit, TypeOK, Thread
  <2>2. Empty(worker'[w]) \/ (Carries(worker[w], current) /\ Carries(worker'[w], current))
    BY <2>1, <1>00 DEF OneCarrier, Empty, Carries
  <2> QED
    BY <2>1, <2>2, <1>00 DEF OneCarrier, Empty, Carries
<1>6. CASE IdleTimer
  <2>1. CASE shared # None /\ current = None /\ queue = <<>>
    <3>1. \A v \in Workers : Empty(worker[v])
      BY <1>00, <2>1 DEF OneCarrier
    <3>2. shared \in Workers /\ Terminate(shared)
      BY <1>6, <2>1 DEF IdleTimer, TypeOK
    <3>3. /\ \A v \in Workers : v # shared => worker'[v] = worker[v]
          /\ worker'[shared].tasks = {} /\ worker'[shared].outbox = worker[shared].outbox
      BY <3>2 DEF Terminate, TypeOK, Thread
    <3>4. \A v \in Workers : Empty(worker'[v])
      BY <3>1, <3>3 DEF Empty
    <3> QED
      BY <3>4, <1>6, <1>00, EmptyThreads DEF IdleTimer
  <2>2. CASE ~(shared # None /\ current = None /\ queue = <<>>)
    BY <1>6, <2>2, <1>00 DEF IdleTimer
  <2> QED
    BY <2>1, <2>2
<1>7. ASSUME NEW w \in Workers, End(w)
      PROVE  OneCarrier(worker, current)' /\ Answers(outcome)'
  <2>1. PICK c \in worker[w].tasks :
          worker' = [worker EXCEPT ![w].tasks = @ \ {c}, ![w].outbox = Append(@, c)]
    BY <1>7 DEF End
  <2>2. /\ worker[w].tasks = {current} /\ worker[w].outbox = <<>> /\ c = current
        /\ current # None /\ \A v \in Workers : v # w => Empty(worker[v])
    BY <1>7, <2>1, <1>00 DEF End, OneCarrier, Empty, Carries
  <2>3. worker'[w] = [worker[w] EXCEPT !.tasks = {current} \ {current},
                                       !.outbox = Append(<<>>, current)]
    BY <2>1, <2>2 DEF TypeOK
  <2>4. worker'[w].tasks = {} /\ worker'[w].outbox = <<current>>
    BY <2>2, <2>3 DEF TypeOK, Thread
  <2>5. \A v \in Workers : v # w => worker'[v] = worker[v]
    BY <2>1 DEF TypeOK
  <2>6. current' = current /\ outcome' = outcome
    BY <1>7 DEF End, mainVars
  <2> QED
    BY <2>2, <2>4, <2>5, <2>6, <1>00 DEF OneCarrier, Carries
<1>8. ASSUME NEW w \in Workers, Violate(w)
      PROVE  FALSE
  BY <1>8, <1>0 DEF Violate, InStep
<1>9. ASSUME NEW w \in Workers, Crash(w)
      PROVE  OneCarrier(worker, current)' /\ Answers(outcome)'
  <2>1. /\ \A v \in Workers : v # w => worker'[v] = worker[v]
        /\ worker'[w].tasks = {} /\ worker'[w].outbox = worker[w].outbox
    BY <1>9 DEF Crash, TypeOK, Thread
  <2>2. current' = current /\ outcome' = outcome
    BY <1>9 DEF Crash, mainVars
  <2>3. /\ Empty(worker[w]) => Empty(worker'[w])
        /\ Carries(worker[w], current) =>
             Empty(worker'[w]) \/ Carries(worker'[w], current)
    BY <2>1 DEF Empty, Carries
  <2> QED
    BY <2>1, <2>2, <2>3, <1>00 DEF OneCarrier
<1>10. CASE UNCHANGED vars
  BY <1>10, <1>00 DEF vars, mainVars
<1> QED
  BY <1>1, <1>2, <1>3, <1>4, <1>5, <1>6, <1>7, <1>8, <1>9, <1>10
  DEF Next, Caller, Main, WorkerThreads

\* IInv holds in every reachable state.
LEMMA CarrierInvariance == Spec => []IInv
<1>1. Init => IInv
  <2>1. Init => TypeOK
    BY InitTyped
  <2>2. Init => OneCarrier(worker, current) /\ Answers(outcome)
    BY NamesAssumption DEF Init, NoThread, OneCarrier, Empty, Answers
  <2> QED
    BY <2>1, <2>2 DEF IInv
<1> QED
  BY <1>1, CarrierStep, PTL DEF Spec

\* Scripts never overlap: whatever the order of messages, timers, crashes and exit
\* events, the threads hold the execution in progress only, in one of them.
THEOREM SerializedCorrect == Spec => []Serialized
<1>1. IInv => Serialized
  <2> SUFFICES ASSUME IInv, InStep
               PROVE  /\ \A w \in Workers : Held(w) \subseteq {current}
                      /\ \A v, w \in Workers : Held(v) # {} /\ Held(w) # {} => v = w
    BY DEF Serialized
  <2>1. \A w \in Workers : Empty(worker[w]) => Held(w) = {}
    BY DEF Empty, Held, Range
  <2>2. \A w \in Workers : Carries(worker[w], current) => Held(w) \subseteq {current}
    BY DEF Carries, Held, Range
  <2> QED
    BY <2>1, <2>2 DEF IInv, OneCarrier
<1> QED
  BY <1>1, CarrierInvariance, PTL

\* No call is settled with the result of another.
THEOREM OwnAnswerCorrect == Spec => []OwnAnswer
<1>1. IInv => OwnAnswer
  BY DEF IInv, Answers, OwnAnswer
<1> QED
  BY <1>1, CarrierInvariance, PTL

-----------------------------------------------------------------------------
(* Nobody is forgotten, notices or not.                                    *)

\* A live thread has the execution, or a crashed one owes its "error" event.
Attended(ws, s, cur) ==
  /\ s # None => ws[s].st \in {"live", "crashed"}
  /\ cur # None => \E w \in Workers :
       \/ ws[w].st = "live" /\ (cur \in ws[w].tasks \/ cur \in Range(ws[w].outbox))
       \/ ws[w].st = "crashed"

\* Who is queued or in progress has called, and who waits is one of them.
Places(out, q, cur) ==
  /\ IsInjective(q) /\ cur \notin Range(q)
  /\ \A c \in Range(q) \cup ({cur} \ {None}) : out[c] # "new"
  /\ \A c \in Calls : out[c] = "pending" => c \in Range(q) \cup {cur}

QInv ==
  /\ TypeOK
  /\ Attended(worker, shared, current)
  /\ Places(outcome, queue, current)
  /\ queue # <<>> => current # None

\* The ranges of a queue that a call joins, and of one that its head leaves.
LEMMA QueueJoined ==
  ASSUME NEW q \in Seq(Calls), NEW c \in Calls, c \notin Range(q), IsInjective(q)
  PROVE  /\ Range(Append(q, c)) = Range(q) \cup {c}
         /\ IsInjective(Append(q, c)) /\ Append(q, c) # <<>>
<1>1. /\ Append(q, c) \in Seq(Calls) /\ Len(Append(q, c)) = Len(q) + 1
      /\ \A i \in 1 .. Len(q) : Append(q, c)[i] = q[i]
      /\ Append(q, c)[Len(q) + 1] = c /\ Len(q) \in Nat
  OBVIOUS
<1>2. DOMAIN q = 1 .. Len(q) /\ DOMAIN Append(q, c) = 1 .. Len(q) + 1
  BY <1>1
<1> QED
  BY <1>1, <1>2 DEF Range, IsInjective

\* Serving the head of a queue without duplicates leaves the others, each once.
LEMMA QueueLeft ==
  ASSUME NEW q \in Seq(Calls), q # <<>>, IsInjective(q)
  PROVE  /\ Head(q) \in Calls /\ Tail(q) \in Seq(Calls)
         /\ Range(q) = Range(Tail(q)) \cup {Head(q)}
         /\ Head(q) \notin Range(Tail(q)) /\ IsInjective(Tail(q))
<1>1. /\ Head(q) = q[1] /\ Head(q) \in Calls /\ Tail(q) \in Seq(Calls)
      /\ Len(q) \in Nat \ {0} /\ Len(Tail(q)) = Len(q) - 1
      /\ \A i \in 1 .. Len(q) - 1 : Tail(q)[i] = q[i + 1]
  OBVIOUS
<1>2. DOMAIN q = 1 .. Len(q) /\ DOMAIN Tail(q) = 1 .. Len(q) - 1
  BY <1>1
<1>3. \A j \in 1 .. Len(q) : j = 1 \/ (j - 1 \in 1 .. Len(q) - 1 /\ Tail(q)[j - 1] = q[j])
  BY <1>1
<1>4. Range(q) \subseteq Range(Tail(q)) \cup {Head(q)}
  <2> SUFFICES ASSUME NEW j \in 1 .. Len(q)
               PROVE  q[j] = Head(q) \/ q[j] \in Range(Tail(q))
    BY <1>2 DEF Range
  <2>1. CASE j = 1
    BY <2>1, <1>1
  <2>2. CASE j - 1 \in 1 .. Len(q) - 1 /\ Tail(q)[j - 1] = q[j]
    BY <2>2, <1>2 DEF Range
  <2> QED
    BY <2>1, <2>2, <1>3
<1>5. Range(Tail(q)) \cup {Head(q)} \subseteq Range(q)
  BY <1>1, <1>2 DEF Range
<1>6. Head(q) \notin Range(Tail(q))
  BY <1>1, <1>2 DEF Range, IsInjective
<1>7. IsInjective(Tail(q))
  <2> SUFFICES ASSUME NEW i \in 1 .. Len(q) - 1, NEW j \in 1 .. Len(q) - 1,
                      Tail(q)[i] = Tail(q)[j]
               PROVE  i = j
    BY <1>2 DEF IsInjective
  <2>1. q[i + 1] = q[j + 1] /\ i + 1 \in DOMAIN q /\ j + 1 \in DOMAIN q
    BY <1>1, <1>2
  <2>2. i + 1 = j + 1
    BY <2>1 DEF IsInjective
  <2> QED
    BY <2>2
<1> QED
  BY <1>1, <1>4, <1>5, <1>6, <1>7

\* A message appended to an outbox is in it, and so are those before it.
LEMMA OutboxJoined ==
  ASSUME NEW q \in Seq(Calls \cup {Notice}), NEW m \in Calls \cup {Notice}
  PROVE  Range(Append(q, m)) = Range(q) \cup {m}
<1>1. /\ Append(q, m) \in Seq(Calls \cup {Notice}) /\ Len(Append(q, m)) = Len(q) + 1
      /\ \A i \in 1 .. Len(q) : Append(q, m)[i] = q[i]
      /\ Append(q, m)[Len(q) + 1] = m /\ Len(q) \in Nat
  OBVIOUS
<1>2. DOMAIN q = 1 .. Len(q) /\ DOMAIN Append(q, m) = 1 .. Len(q) + 1
  BY <1>1
<1> QED
  BY <1>1, <1>2 DEF Range

\* processNextExecution keeps everybody in place and the execution attended.
LEMMA ProcessNextForgetsNone ==
  ASSUME NEW out, NEW q \in Seq(Calls), NEW cur \in Calls \cup {None},
         NEW ws \in [Workers -> Thread], shared \in Workers \cup {None},
         Attended(ws, shared, cur), Places(out, q, cur), ProcessNext(q, cur, ws)
  PROVE  /\ Attended(worker', shared', current')
         /\ Places(out, queue', current')
         /\ queue' # <<>> => current' # None
<1> USE NamesAssumption
<1>1. CASE cur # None \/ q = <<>>
  BY <1>1 DEF ProcessNext
<1>2. CASE ~(cur # None \/ q = <<>>)
  <2>1. queue' = Tail(q) /\ current' = Head(q) /\ cur = None
    BY <1>2 DEF ProcessNext
  <2>2. /\ Head(q) \in Calls
        /\ Range(q) = Range(Tail(q)) \cup {Head(q)}
        /\ Head(q) \notin Range(Tail(q)) /\ IsInjective(Tail(q))
    BY <1>2, QueueLeft DEF Places
  <2>3. current' # None
    BY <2>1, <2>2
  <2>4. Places(out, queue', current')
    BY <2>1, <2>2 DEF Places
  <2>5. PICK w \in Workers :
          /\ shared' = w
          /\ \/ worker'[w].st = "live" /\ Head(q) \in worker'[w].tasks
             \/ worker'[w].st = "crashed"
    <3>1. CASE /\ shared # None
               /\ worker' = IF ws[shared].st = "live"
                            THEN [ws EXCEPT ![shared].tasks = @ \cup {Head(q)}] ELSE ws
               /\ UNCHANGED shared
      <4>1. shared \in Workers /\ ws[shared].st \in {"live", "crashed"}
        BY <3>1 DEF Attended
      <4>2. /\ worker'[shared].st = ws[shared].st
            /\ ws[shared].st = "live" => Head(q) \in worker'[shared].tasks
        BY <3>1, <4>1, <2>2 DEF Thread
      <4> QED
        BY <3>1, <4>1, <4>2
    <3>2. ASSUME NEW w \in Workers, shared' = w,
                 worker' = [ws EXCEPT ![w].st = "live", ![w].tasks = {Head(q)}]
          PROVE  \E x \in Workers :
                   /\ shared' = x
                   /\ \/ worker'[x].st = "live" /\ Head(q) \in worker'[x].tasks
                      \/ worker'[x].st = "crashed"
      <4>1. worker'[w].st = "live" /\ worker'[w].tasks = {Head(q)}
        BY <3>2 DEF Thread
      <4> QED
        BY <3>2, <4>1
    <3> QED
      BY <1>2, <3>1, <3>2 DEF ProcessNext
  <2>6. Attended(worker', shared', current')
    BY <2>1, <2>5 DEF Attended
  <2> QED
    BY <2>3, <2>4, <2>6
<1> QED
  BY <1>1, <1>2

\* Settled promises leave nobody waiting elsewhere; the execution in progress can
\* go once it is settled, and everyone once all are.
LEMMA SettlePlaces ==
  ASSUME TypeOK, NEW cs, NEW r \in {"timeout", "crash", Notice} \cup Calls, Settle(cs, r),
         Places(outcome, queue, current)
  PROVE  /\ Places(outcome', queue, current)
         /\ current \in cs => Places(outcome', queue, None)
         /\ {current} \cup Range(queue) \subseteq cs => Places(outcome', <<>>, None)
<1> USE NamesAssumption
<1>1. \A c \in Calls : /\ outcome'[c] = "pending" <=> (outcome[c] = "pending" /\ c \notin cs)
                       /\ outcome'[c] = "new" <=> outcome[c] = "new"
  BY DEF Settle, TypeOK
<1>2. Range(queue) \subseteq Calls /\ None \notin Range(queue)
  BY DEF TypeOK, Range
<1>3. Range(<<>>) = {} /\ IsInjective(<<>>)
  BY DEF Range, IsInjective
<1>4. current \in Calls \cup {None}
  BY DEF TypeOK
<1> QED
  BY <1>1, <1>2, <1>3, <1>4 DEF Places

\* Threads that keep what they have, or crash, keep the execution attended.
LEMMA StillAttended ==
  ASSUME NEW ws, NEW ws2, NEW s \in Workers \cup {None}, NEW cur, Attended(ws, s, cur),
         \A v \in Workers :
           \/ ws2[v].st = "crashed"
           \/ /\ ws2[v].st = ws[v].st
              /\ ws[v].tasks \cup Range(ws[v].outbox)
                   \subseteq ws2[v].tasks \cup Range(ws2[v].outbox)
  PROVE  Attended(ws2, s, cur)
<1>1. s # None => ws2[s].st \in {"live", "crashed"}
  BY DEF Attended
<1>2. ASSUME cur # None
      PROVE  \E w \in Workers :
               \/ ws2[w].st = "live" /\ (cur \in ws2[w].tasks \/ cur \in Range(ws2[w].outbox))
               \/ ws2[w].st = "crashed"
  <2>1. PICK w \in Workers :
          \/ ws[w].st = "live" /\ (cur \in ws[w].tasks \/ cur \in Range(ws[w].outbox))
          \/ ws[w].st = "crashed"
    BY <1>2 DEF Attended
  <2> WITNESS w \in Workers
  <2> QED
    BY <2>1
<1> QED
  BY <1>1, <1>2 DEF Attended

\* Every step keeps QInv.
LEMMA QueueStep == QInv /\ [Next]_vars => QInv'
<1> SUFFICES ASSUME QInv, [Next]_vars
             PROVE  /\ Attended(worker, shared, current)'
                    /\ Places(outcome, queue, current)'
                    /\ (queue # <<>> => current # None)'
  BY TypeStep DEF QInv
<1> USE NamesAssumption
<1> DEFINE Goal == /\ Attended(worker, shared, current)'
                   /\ Places(outcome, queue, current)'
                   /\ (queue # <<>> => current # None)'
<1>00. /\ TypeOK /\ Attended(worker, shared, current)
       /\ Places(outcome, queue, current) /\ (queue # <<>> => current # None)
  BY DEF QInv
<1>0. /\ queue \in Seq(Calls) /\ Range(queue) \subseteq Calls
      /\ current \in Calls \cup {None} /\ shared \in Workers \cup {None}
      /\ worker \in [Workers -> Thread]
  BY <1>00 DEF TypeOK, Range
<1>1. ASSUME NEW c \in Calls, Execute(c)
      PROVE  Goal
  <2>1. c \notin Range(queue) /\ c # current /\ outcome[c] = "new"
    BY <1>1, <1>00 DEF Execute, Places
  <2>2. /\ Append(queue, c) \in Seq(Calls) /\ IsInjective(Append(queue, c))
        /\ Range(Append(queue, c)) = Range(queue) \cup {c}
    BY <2>1, <1>0, <1>00, QueueJoined DEF Places
  <2>3. \A d \in Calls : outcome'[d] = IF d = c THEN "pending" ELSE outcome[d]
    BY <1>1, <1>00 DEF Execute, TypeOK
  <2>4. Places(outcome', Append(queue, c), current)
    BY <2>1, <2>2, <2>3, <1>0, <1>00 DEF Places
  <2> QED
    BY <1>1, <2>2, <2>4, <1>0, <1>00, ProcessNextForgetsNone DEF Execute
<1>2. ASSUME NEW c \in Calls, CallTimer(c)
      PROVE  Goal
  BY <1>2, <1>00, SettlePlaces DEF CallTimer, mainVars
<1>3. ASSUME NEW w \in Workers, OnMessage(w)
      PROVE  Goal
  <2> DEFINE ws == [worker EXCEPT ![w].outbox = Tail(@)]
  <2>1. Head(worker[w].outbox) \in Calls \cup {Notice} /\ ws \in [Workers -> Thread]
    BY <1>3, <1>00, OutboxTyped DEF OnMessage
  <2>2. Places(outcome', queue, None)
    BY <1>3, <2>1, <1>00, SettlePlaces DEF OnMessage
  <2>3. \A v \in Workers : ws[v].st = worker[v].st
    BY <1>0 DEF Thread
  <2>4. Attended(ws, shared, None)
    BY <2>3, <1>0, <1>00 DEF Attended
  <2>5. CASE queue # <<>>
    <3>1. ProcessNext(queue, None, ws)
      BY <1>3, <2>5 DEF OnMessage
    <3> HIDE DEF ws
    <3> QED
      BY <3>1, <2>1, <2>2, <2>4, <1>0, ProcessNextForgetsNone
  <2>6. CASE queue = <<>>
    <3>1. worker' = ws /\ current' = None /\ queue' = queue /\ shared' = shared
      BY <1>3, <2>6 DEF OnMessage
    <3> HIDE DEF ws
    <3> QED
      BY <3>1, <2>2, <2>4, <2>6
  <2> QED
    BY <2>5, <2>6
<1>4. ASSUME NEW w \in Workers, OnError(w)
      PROVE  Goal
  <2>1. /\ queue' = <<>> /\ current' = None /\ shared' = None
        /\ Settle({current} \cup Range(queue), "crash")
    BY <1>4 DEF OnError
  <2>2. Places(outcome', <<>>, None)
    BY <2>1, <1>00, SettlePlaces
  <2> QED
    BY <2>1, <2>2 DEF Attended
<1>5. ASSUME NEW w \in Workers, OnExit(w)
      PROVE  Goal
  <2>1. /\ worker[w].st = "stopping" /\ shared' = None
        /\ \A v \in Workers : v # w => worker'[v] = worker[v]
        /\ queue' = queue /\ current' = current /\ outcome' = outcome
    BY <1>5, <1>0 DEF OnExit
  <2>2. Attended(worker', shared', current')
    BY <2>1, <1>00 DEF Attended
  <2> QED
    BY <2>1, <2>2, <1>00
<1>6. CASE IdleTimer
  <2>1. queue' = queue /\ current' = current /\ outcome' = outcome
    BY <1>6 DEF IdleTimer
  <2>2. CASE shared # None /\ current = None /\ queue = <<>>
    <3>1. shared' = None
      BY <1>6, <2>2 DEF IdleTimer, Terminate
    <3> QED
      BY <2>1, <2>2, <3>1, <1>00 DEF Attended
  <2>3. CASE ~(shared # None /\ current = None /\ queue = <<>>)
    BY <1>6, <2>1, <2>3, <1>00 DEF IdleTimer
  <2> QED
    BY <2>2, <2>3
<1>7. ASSUME NEW w \in Workers, End(w)
      PROVE  Goal
  <2>1. PICK c \in worker[w].tasks :
          worker' = [worker EXCEPT ![w].tasks = @ \ {c}, ![w].outbox = Append(@, c)]
    BY <1>7 DEF End
  <2>2. UNCHANGED <<outcome, queue, current, shared>>
    BY <1>7 DEF End, mainVars
  <2>3. /\ \A v \in Workers : v # w => worker'[v] = worker[v]
        /\ worker'[w].st = worker[w].st /\ worker'[w].tasks = worker[w].tasks \ {c}
        /\ worker'[w].outbox = Append(worker[w].outbox, c)
    BY <2>1, <1>0 DEF Thread
  <2>4. worker[w].outbox \in Seq(Calls \cup {Notice}) /\ c \in Calls
    BY <1>0 DEF Thread
  <2>5. Range(worker'[w].outbox) = Range(worker[w].outbox) \cup {c}
    BY <2>3, <2>4, OutboxJoined
  <2> QED
    <3>1. Attended(worker', shared, current)
      BY <2>3, <2>5, <1>0, <1>00, StillAttended
    <3> QED
      BY <2>2, <3>1, <1>00
<1>8. ASSUME NEW w \in Workers, Violate(w)
      PROVE  Goal
  <2>1. UNCHANGED <<outcome, queue, current, shared>>
    BY <1>8 DEF Violate, mainVars
  <2>2. /\ \A v \in Workers : v # w => worker'[v] = worker[v]
        /\ worker'[w].st = worker[w].st /\ worker'[w].tasks = worker[w].tasks
        /\ worker'[w].outbox = Append(worker[w].outbox, Notice)
    BY <1>8, <1>0 DEF Violate, Thread
  <2>3. worker[w].outbox \in Seq(Calls \cup {Notice})
    BY <1>0 DEF Thread
  <2>4. Range(worker'[w].outbox) = Range(worker[w].outbox) \cup {Notice}
    BY <2>2, <2>3, OutboxJoined
  <2> QED
    <3>1. Attended(worker', shared, current)
      BY <2>2, <2>4, <1>0, <1>00, StillAttended
    <3> QED
      BY <2>1, <3>1, <1>00
<1>9. ASSUME NEW w \in Workers, Crash(w)
      PROVE  Goal
  <2>1. UNCHANGED <<outcome, queue, current, shared>>
    BY <1>9 DEF Crash, mainVars
  <2>2. /\ \A v \in Workers : v # w => worker'[v] = worker[v]
        /\ worker'[w].st = "crashed"
    BY <1>9, <1>0 DEF Crash, Thread
  <2>3. Attended(worker', shared, current)
    BY <2>2, <1>0, <1>00, StillAttended
  <2> QED
    BY <2>1, <2>2, <2>3, <1>00
<1>10. CASE UNCHANGED vars
  BY <1>10, <1>00 DEF vars, mainVars
<1> QED
  BY <1>1, <1>2, <1>3, <1>4, <1>5, <1>6, <1>7, <1>8, <1>9, <1>10
  DEF Next, Caller, Main, WorkerThreads

\* Whoever waits is queued once or in progress, and the execution in progress has a
\* thread that will end it, for any number of calls, workers and notices.
THEOREM NoneForgottenCorrect == Spec => []NoneForgotten
<1>1. Init => QInv
  <2>1. Init => TypeOK
    BY InitTyped
  <2>2. Init => /\ Attended(worker, shared, current)
                /\ Places(outcome, queue, current)
                /\ (queue # <<>> => current # None)
    BY NamesAssumption DEF Init, Attended, Places, Range, IsInjective
  <2> QED
    BY <2>1, <2>2 DEF QInv
<1>2. QInv => NoneForgotten
  <2> SUFFICES ASSUME QInv
               PROVE  NoneForgotten
    OBVIOUS
  <2>1. current # None => current # Notice
    BY NamesAssumption DEF QInv, TypeOK
  <2> QED
    BY <2>1 DEF QInv, Attended, Places, NoneForgotten, Held, Queued
<1> QED
  BY <1>1, <1>2, QueueStep, PTL DEF Spec
=============================================================================
