------------------------------- MODULE PyQueue -------------------------------
(***************************************************************************)
(* python3 commands share one worker thread.  A call queues its input and  *)
(* awaits `workerPromise`, which a message of the worker, its death or a   *)
(* timer settles; the queue is served one at a time.  The main thread runs *)
(* one handler at a time: each of its handlers and timers is an action,    *)
(* and so is each step of a worker thread.  A script is abstracted to what *)
(* it posts: a result when it is over, and possibly notices of a blocked   *)
(* global, before or (by a callback it left behind) after that.  Its file  *)
(* operations are served on the side (PyBridge).                           *)
(***************************************************************************)
EXTENDS Integers, Sequences, Functions

CONSTANTS
  Calls,       \* the python3 commands of the process
  Workers,     \* bound: worker threads it may start; a call starts at most one
  MaxNotices,  \* bound: "security-violation" messages of the workers
  None, Notice

ASSUME NamesAssumption ==
  /\ None \notin Calls \cup Workers
  /\ Notice \notin Calls \cup {None}
  /\ {"new", "pending", "timeout", "crash"} \cap (Calls \cup {Notice}) = {}
  /\ MaxNotices \in Nat

VARIABLES
  outcome,  \* workerPromise of a call: "new", "pending", or what settled it
  queue,    \* executionQueue
  current,  \* currentExecution
  shared,   \* sharedWorker
  idle,     \* the idle timers that are armed: workerIdleTimeout, and lost ones
  worker,   \* the threads
  notices,  \* history: the notices posted so far
  givenUp   \* history: an "error" event was handled while a thread still had an
            \* input, or a message that was not delivered yet

mainVars == <<queue, current, shared, idle>>
history == <<notices, givenUp>>
vars == <<outcome, mainVars, worker, history>>

\* tasks are the inputs posted to the thread whose async "message" listener has
\* not ended, begun or not; outbox are its messages that are not delivered yet.
Thread == [st: {"none", "live", "crashed", "stopping", "gone"},
           tasks: SUBSET Calls, outbox: Seq(Calls \cup {Notice})]
NoThread == [st |-> "none", tasks |-> {}, outbox |-> <<>>]

TypeOK ==
  /\ outcome \in [Calls -> {"new", "pending", "timeout", "crash", Notice} \cup Calls]
  /\ queue \in Seq(Calls)
  /\ current \in Calls \cup {None}
  /\ shared \in Workers \cup {None}
  /\ idle \in [latest: BOOLEAN, lost: Nat]
  /\ worker \in [Workers -> Thread]
  /\ notices \in 0 .. MaxNotices
  /\ givenUp \in BOOLEAN

Init ==
  /\ outcome = [c \in Calls |-> "new"]
  /\ queue = <<>> /\ current = None
  /\ shared = None
  /\ idle = [latest |-> FALSE, lost |-> 0]
  /\ worker = [w \in Workers |-> NoThread]
  /\ notices = 0 /\ givenUp = FALSE

-----------------------------------------------------------------------------
(* The queue.                                                              *)

\* Threads have no order: which of those that are left is started does not matter.
NextThread(ws) == CHOOSE w \in Workers : ws[w].st = "none"

\* processNextExecution and getOrCreateWorker, once the queue is q, the current
\* execution cur and the threads ws.  What is posted to a dead thread is lost.
ProcessNext(q, cur, ws) ==
  IF cur # None \/ q = <<>>
  THEN queue' = q /\ current' = cur /\ worker' = ws /\ UNCHANGED <<shared, idle>>
  ELSE /\ queue' = Tail(q)
       /\ current' = Head(q)
       /\ idle' = [idle EXCEPT !.latest = FALSE]
       /\ \/ /\ shared # None
             /\ worker' = IF ws[shared].st = "live"
                          THEN [ws EXCEPT ![shared].tasks = @ \cup {Head(q)}] ELSE ws
             /\ UNCHANGED shared
          \/ /\ shared = None
             /\ \E w \in Workers :
                  /\ ws[w].st = "none" /\ w = NextThread(ws)
                  /\ shared' = w
                  /\ worker' = [ws EXCEPT ![w].st = "live", ![w].tasks = {Head(q)}]

\* Mutant of Execute: an execution that can start at once is not queued.
ExecuteAtOnce(c) ==
  /\ outcome[c] = "new"
  /\ outcome' = [outcome EXCEPT ![c] = "pending"]
  /\ IF shared # None
     THEN /\ worker' = [worker EXCEPT ![shared].tasks = @ \cup {c}]
          /\ UNCHANGED <<queue, current, shared, idle>>
     ELSE ProcessNext(Append(queue, c), current, worker)
  /\ UNCHANGED history

\* executePython: up to the await.
Execute(c) ==
  /\ outcome[c] = "new"
  /\ outcome' = [outcome EXCEPT ![c] = "pending"]
  /\ ProcessNext(Append(queue, c), current, worker)
  /\ UNCHANGED history

\* A promise that is settled stays as it is.
Settle(cs, result) ==
  outcome' = [c \in Calls |->
    IF c \in cs /\ outcome[c] = "pending" THEN result ELSE outcome[c]]

ScheduleTermination ==
  idle' = [latest |-> TRUE, lost |-> idle.lost + (IF idle.latest THEN 1 ELSE 0)]

\* What a thread has at work or on its way to the main thread.
Busy(w) == worker[w].tasks # {} \/ worker[w].outbox # <<>>

\* The "message" listener, whatever the message is and whichever worker sent it.
\* A dead thread's messages come until its "exit" event: events and messages have
\* ports of their own.
OnMessage(w) ==
  /\ worker[w].outbox # <<>> /\ worker[w].st # "gone"
  /\ Settle({current}, Head(worker[w].outbox))
  /\ LET ws == [worker EXCEPT ![w].outbox = Tail(@)]
     IN IF queue # <<>>
        THEN ProcessNext(queue, None, ws)
        ELSE /\ ScheduleTermination
             /\ current' = None /\ worker' = ws
             /\ UNCHANGED <<queue, shared>>
  /\ UNCHANGED history

\* The "error" listener, and the "exit" listener, whichever worker it is.
OnError(w) ==
  /\ worker[w].st = "crashed"
  /\ Settle({current} \cup Range(queue), "crash")
  /\ queue' = <<>> /\ current' = None /\ shared' = None
  /\ worker' = [worker EXCEPT ![w].st = "stopping"]
  /\ givenUp' = (givenUp \/ \E v \in Workers : Busy(v))
  /\ UNCHANGED <<idle, notices>>

OnExit(w) ==
  /\ worker[w].st = "stopping"
  /\ shared' = None
  /\ worker' = [worker EXCEPT ![w].st = "gone", ![w].outbox = <<>>]
  /\ UNCHANGED <<queue, current, idle, outcome, history>>

-----------------------------------------------------------------------------
(* Timers of the main thread.                                              *)

\* worker.terminate() stops the thread; its "exit" event comes later, and so does
\* the "error" event of one that had crashed.
Terminate(w) ==
  /\ worker' = [worker EXCEPT ![w].st = IF @ = "crashed" THEN @ ELSE "stopping",
                              ![w].tasks = {}]
  /\ shared' = None

\* Mutant of Elapsed: a timer that was replaced fires again and again.
ElapsedAgain ==
  \/ idle.latest /\ idle' = [idle EXCEPT !.latest = FALSE]
  \/ idle' = [idle EXCEPT !.lost = @ - 1]

Elapsed ==
  \/ idle.latest /\ idle' = [idle EXCEPT !.latest = FALSE]
  \/ idle.lost > 0 /\ idle' = [idle EXCEPT !.lost = @ - 1]

\* Mutant of IdleTimer: only the queue is looked at.
IdleTimerHasty ==
  /\ Elapsed
  /\ IF shared # None /\ queue = <<>>
     THEN Terminate(shared) ELSE UNCHANGED <<shared, worker>>
  /\ UNCHANGED <<queue, current, outcome, history>>

\* The callback of scheduleWorkerTermination.
IdleTimer ==
  /\ Elapsed
  /\ IF shared # None /\ current = None /\ queue = <<>>
     THEN Terminate(shared) ELSE UNCHANGED <<shared, worker>>
  /\ UNCHANGED <<queue, current, outcome, history>>

\* Mutants of CallTimer: the time of a call counts from when it starts; the timer
\* gives up the execution in progress.
CallTimerWhenStarted(c) ==
  /\ outcome[c] = "pending" /\ current = c
  /\ Settle({c}, "timeout")
  /\ UNCHANGED <<mainVars, worker, history>>

CallTimerFrees(c) ==
  /\ outcome[c] = "pending"
  /\ Settle({c}, "timeout")
  /\ current' = IF current = c THEN None ELSE current
  /\ UNCHANGED <<queue, shared, idle, worker, history>>

\* The timer of a call; the call stays queued or in progress.
CallTimer(c) ==
  /\ outcome[c] = "pending"
  /\ Settle({c}, "timeout")
  /\ UNCHANGED <<mainVars, worker, history>>

-----------------------------------------------------------------------------
(* A worker thread.  Its listener awaits: those of two inputs may overlap  *)
(* and end in any order.                                                   *)

\* runPython is over, one way or another, and its result is posted.
End(w) ==
  /\ worker[w].st = "live"
  /\ \E c \in worker[w].tasks :
       worker' = [worker EXCEPT ![w].tasks = @ \ {c}, ![w].outbox = Append(@, c)]
  /\ UNCHANGED <<outcome, mainVars, history>>

\* A callback that a script left behind may do so after its result.
Violate(w) ==
  /\ worker[w].st = "live" /\ notices < MaxNotices
  /\ notices' = notices + 1
  /\ worker' = [worker EXCEPT ![w].outbox = Append(@, Notice)]
  /\ UNCHANGED <<outcome, mainVars, givenUp>>

\* An uncaught error, or the memory limit, ends the thread: while a script runs,
\* after its result is posted or when it is idle (by a callback left behind).  What
\* it posted is still delivered.
Crash(w) ==
  /\ worker[w].st = "live"
  /\ worker' = [worker EXCEPT ![w].st = "crashed", ![w].tasks = {}]
  /\ UNCHANGED <<outcome, mainVars, history>>

-----------------------------------------------------------------------------
Caller == \E c \in Calls : Execute(c)
Main ==
  \/ \E c \in Calls : CallTimer(c)
  \/ \E w \in Workers : OnMessage(w) \/ OnError(w) \/ OnExit(w)
  \/ IdleTimer
WorkerThreads == \E w \in Workers : End(w) \/ Violate(w) \/ Crash(w)

Next == Caller \/ Main \/ WorkerThreads

\* A timer that is armed fires and an event that is queued is handled: that is
\* Node's event loop.  A worker owes nothing: its script may never end.
Fairness ==
  /\ \A c \in Calls : WF_vars(CallTimer(c))
  /\ \A w \in Workers :
       WF_vars(OnMessage(w)) /\ WF_vars(OnError(w)) /\ WF_vars(OnExit(w))
  /\ WF_vars(IdleTimer)

Spec == Init /\ [][Next]_vars /\ Fairness

-----------------------------------------------------------------------------
(* Properties.                                                             *)

Held(w) == worker[w].tasks \cup (Range(worker[w].outbox) \ {Notice})
Queued == Range(queue)

\* The two things that the listeners of python3.ts mistake have not happened: a
\* message that is no result, and an "error" event while some thread still has the
\* execution it gives up, or its result.
InStep == notices = 0 /\ ~givenUp

\* Until then, an input that was posted and whose result has not come back is the
\* execution in progress, in one thread: scripts never overlap, also when calls time
\* out, workers die at work or idle, inputs are posted to a dead one, and idle timers
\* and exit events come late.
Serialized ==
  InStep =>
    /\ \A w \in Workers : Held(w) \subseteq {current}
    /\ \A v, w \in Workers : Held(v) # {} /\ Held(w) # {} => v = w

\* Until then no call is settled with another call's result.
OwnAnswer ==
  InStep => \A c \in Calls : outcome[c] \in Calls \cup {Notice} => outcome[c] = c

\* A call that waits is in one place: queued once, or in progress.  When others
\* wait, one is in progress, and some event can still end it: a live thread has it, or
\* that thread's "error" event is to come.
NoneForgotten ==
  /\ \A c \in Calls : outcome[c] = "pending" => c \in Queued \cup {current}
  /\ IsInjective(queue) /\ current \notin Queued
  /\ queue # <<>> => current # None
  /\ current # None => \E w \in Workers :
       (worker[w].st = "live" /\ current \in Held(w)) \/ worker[w].st = "crashed"

\* Every call is settled, whatever the worker does: a script that never ends holds
\* up the queue, and those behind it are settled by their own timers.
EveryCallSettles ==
  \A c \in Calls : outcome[c] = "pending" ~> outcome[c] # "pending"

=============================================================================
