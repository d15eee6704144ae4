# just-bash: a TLA+ model of the shell, its file systems and its concurrent parts

just-bash is a bash interpreter written in TypeScript that runs on a virtual file
system: `new Bash(options).exec(script)` parses a script, walks its syntax tree and
resolves to stdout, stderr and an exit code. There is no process, no signal and no
kernel behind it, so everything a shell gets from the operating system — a subshell's
own copy of the environment, a file that two layers and a list of deletions make up,
descriptors, a limit on runaway scripts — is done by saving, restoring, merging and
throwing inside one JavaScript program. That is what this project models. Paths below
are relative to the repository.

## Inventory

| Component | State | Operations | Interacts with | Modules |
|---|---|---|---|---|
| Bash API (`src/src/Bash.ts`) | `this.state`, limits, commands, file system | `exec` (any number, also concurrently, and nested through `ctx.exec`) | copies its state for an Interpreter, activates the defense box | `ExecPromise`, `ShellMachine`, `ExecCalls` |
| Interpreter core (`src/src/interpreter/`) | `ctx.state`: `ControlFlowState`, `ShellOptions`, environment, directory, functions, counters | `executeScript`, `executeStatement`, `executePipeline`, `executeIf`, the three loops, groups, subshells, functions, the control-flow builtins | its functions call each other and throw `ControlFlowError`s past each other | `ShellMachine` |
| Expansion (`expansion.ts`) | `substitutionDepth` | expands words; `$(...)` calls back into `executeScript` | file system, interpreter | `ShellMachine`, `VarScopes` |
| Local scoping (`builtins/local.ts`, `unset.ts`, `variable-assignment.ts`, `functions.ts`) | `localScopes`, `localVarStack`, `localVarDepth`, `fullyUnsetLocals`, `tempEnvBindings` | `local`, `unset`, assignments, prefix assignments | functions, subshells, substitutions | `VarScopes` implements `DynamicScope` |
| Redirections (`redirections.ts`) | `fileDescriptors`, `nextFd`, `noclobber` | `applyRedirections`, `preOpenOutputRedirects`, `processFdVariableRedirections`, `exec` | every command, file system | `Redirections` against `Descriptors` |
| In-memory file system (`fs/in-memory-fs/`) | `data`: path to entry, links | the `IFileSystem` operations | commands, bridge | `InMemoryFs` |
| Overlay file system (`fs/overlay-fs/`) | `memory`, `deleted`, over a host directory | the same | host disk | `OverlayFs` against `FsContract` |
| Mountable file system (`fs/mountable-fs/`) | the base, `mounts` | the same, `mount`, `unmount`, copies across | other file systems | `MountableFs` over `InMemoryFs`, against `FsContract` |
| python3 (`commands/python3/`) | one shared worker, a queue, the execution in progress; a `SharedArrayBuffer` per execution | `executePython`, worker messages, timers; a request and answer protocol with `Atomics` | two threads, the file system | `PyQueue`, `PyBridge` |
| Defense box (`security/defense-in-depth-box.ts`) | global patches, a reference count | `getInstance`, `activate`, `deactivate` | all executions of the process | `ExecCalls` |
| timeout, xargs, bash -c, env, find -exec | none of their own | nested `exec`: one, a batch, a race with a timer | Bash API | `ExecCalls` |
| Read-write file system | the host's disk | thin layer over node:fs | | none |
| sqlite3 | one worker per query | query with a timeout | file system | none |
| Network | allow-list | fetch with checked redirects | curl, bridge | none |
| Sandbox API | a promise per command | `runCommand`, `wait` | Bash API | none |
| awk, sed, jq, grep... | the text they work on | sequential engines | file system | none |
| Lexer, parser, CLI | none between calls | text to syntax tree; argument handling | Bash API | none |

What is hard about them: an error that passes several constructs, each with its own
`catch` and counters to put back (interpreter, scoping); output that is moved after
the fact (redirections); a tree spread over layers and stores, changed by operations
that await between looking and writing (file systems); timers and a thread that can
each be late (python3); state shared by calls that believe they are alone (Bash API,
defense box). PROJECT.json lists these hazards with their lines.

The properties that make each component correct: constructs balance their depths,
thrown errors find the handler they were thrown for, subshells isolate, `set -e` fires
exactly where it should, limits cannot be caught, `exec` always resolves
(interpreter); a name means the innermost cell in progress, whatever way calls are
left (scoping); output goes where a table of descriptors would send it
(redirections); what callers see is one plain tree changed by one operation at a
time, and a call touches what it names (file systems); every caller gets its own
answer, once, and one worker runs at a time (python3); patches are in place while any
guarded execution runs and gone after the last (defense box).

## Modules

* `ShellMachine.tla` — the interpreter as a pushdown machine. `stack` is the
  JavaScript call stack of awaited `executeX` functions, one frame per function in
  progress; `ctl` says whether the top frame runs, receives a result or receives a
  thrown error; `sh` is `ctx.state`. The program is not fixed: while a frame runs,
  an action chooses the next piece of syntax from `Forms`, so a run checks every
  script of the forms and lengths its bounds allow, with every exit status.

  | Frame `k` | Function |
  |---|---|
  | `script`, `list`, `cond` | `executeScript`, `executeStatements`, `executeCondition` |
  | `stmt`, `pipe`, `simple` | `executeStatement`, `executePipeline`, `executeSimpleCommandInner` |
  | `if`, `case`, `for`, `while`, `until`, `group` | `executeIf`, `executeCase`, `executeFor` and `executeCStyleFor`, `executeWhile`, `executeUntil`, `executeGroup` |
  | `subshell`, `ush` | `executeSubshell`, `executeUserScript` |
  | `call`, `eval`, `source`, `subst` | `callFunction`, `handleEval`, `handleSource`, `executeCommandSubstitutionBytes` |

  Errors are the classes of `errors.ts`: `break`, `continue`, `return` (their three),
  `exit`, `errexit`, `limit` (ExecutionLimitError), `subexit` (SubshellExitError),
  `nounset`, `badsub`, `arith` (expansion) and `parse`. Each frame has the actions of
  its function: what it starts, what it does with a result (`XReturned`, `XEnds`),
  and what its `catch` and `finally` clauses do with each error (`XCatches`,
  `XThrows`). `by` in a result is history the code does not keep: it tells
  `ErrexitHonoured` whether a failing command contained other statements.
* `ExecPromise.tla` — what one `exec` promises: a bounded number of commands, none
  after a limit error, and a promise that resolves. `ShellMachine` implements it
  (`ImplementsPromise`, through `INSTANCE ... WITH`).
* `ShellMachineProofs.tla` — the proofs about `ShellMachine`, from facts about counting
  the frames of a stack to `set -e`.
* `PyQueue.tla` — the calls of python3 in one process (`python3.ts`) and the worker
  threads that serve them (the end of `worker.ts`). `queue`, `current` and `shared`
  are `executionQueue`, `currentExecution` and `sharedWorker`; `outcome[c]` is the
  promise of a call; `idle` counts the idle timers that are armed, the one that
  `workerIdleTimeout` refers to and those it was overwritten over; `worker[w]` is a
  thread with the inputs posted to it and the messages it has posted. Each listener
  and each timer callback of the main thread is one action (`OnMessage`, `OnError`,
  `OnExit`, `IdleTimer`, `CallTimer`, `Execute`), with every call it makes;
  `worker.terminate()` and the `exit` event it leads to are two steps, so anything may
  happen in between. A thread ends a script, posts a notice of a blocked global or
  crashes. The last two it may do at any time, also after its result and when it is idle,
  for a script may leave callbacks on Pyodide's event loop (`worker.ts:1194-1204`). What a
  dead thread had posted is delivered before or after its `error` event (they come over
  ports of their own) until its `exit` event; what is posted to it is lost. `givenUp` is
  a history variable: an `error` event was handled while some thread had an input or an
  undelivered message.
* `PyBridge.tla` — one execution's `SharedArrayBuffer` and the two threads on it:
  `script` is where `SyncFsBackend.execSync` is, `host` where `FsBridgeHandler.run`
  is, `buf` the buffer by its regions. Steps are as fine as the threads can see each
  other: the opcode is cleared, the status is cleared, the request is filled in, the
  status is set, the worker looks and sleeps; the handler reads, awaits, writes, sets
  the status and notifies. Requests are numbered, and a region of the buffer is the
  number of the request it was written for: the code has no such number, which is
  what the properties are about.
* `PyQueueProofs.tla`, `PyBridgeProofs.tla` — the proofs about `PyQueue` and `PyBridge`.
* `ExecCalls.tla` — calls of `Bash.exec` that overlap. `st[e]` is where call `e` is in
  `exec` (before its `realpath`, in its `try`, waiting for calls its command made,
  settled), `parent`, `how` and `on` say which command made it and how that one waits:
  for one (`BashC`: bash -c, env, time, find), for a batch by `Promise.all` (`Xargs`),
  or in a race (`Timeout`, `TimerWins`). `count` is `commandCount`, `sets` the executions
  whose assignments an environment holds. `box`, `refs`, `patched`, `handles` are the
  singleton's configuration, `refCount`, whether `applyPatches` is in force, and the
  handles given out. `End` is the `catch` and `finally` of `exec` with `deactivate`.
* `ExecCallsProofs.tla` — the proofs about `ExecCalls`.
* `DynamicScope.tla`, `VarScopes.tla` — the first is what shell variables promise: cells
  of their own for every call, an operation on a name touches the innermost one, a
  subshell, substitution or pipeline gives everything back. The second is the code: one
  map `env` and the books of `LocalScopingState`, which keep the values that
  declarations hide. Its actions are `Assign`, `Local`, `LocalBare`, `UnsetVar`
  (with `CellUnset` for `performCellUnset`, `Dynamic` and `ValueUnset`), `Call`,
  `Prefix`, `Subshell`, `Piece` (substitutions and pipeline commands, which save values
  only), their ends, and `Throw`/`Unwind` for `return`, `exit` and `break`. The
  refinement (`Cells`) reads the cell of a call off the value that the next call inside
  saved. `MCVarUnset` observes the last `unset`. `VarScopesProofs.tla` holds the proofs,
  that of the refinement included.
* `Descriptors.tla`, `Redirections.tla` — the first is the reference: a table of
  descriptors, changed from left to right before a command runs. The second is the
  code: a command returns two texts, and `Applied` (`applyRedirections`) moves them one
  redirection after the other once the command is over; `fds` is `fileDescriptors`,
  with its marks `__file__`, `__file_append__` and `__dupout__`. Commands are `Simple`,
  `Bare` (redirections only), `Exec`, and compounds that `Begin` and are over by `End`
  or by an error that carries their output (`Leave`, `Exit`). Each command writes one
  piece on each stream; `history` remembers where the table says it belongs.
* `FsPaths.tla`, `FsCalls.tla`, `FsContract.tla` — paths and entries; what the
  operations of all file systems share (a call is a stack of invocations, each with its
  operands, the step it awaits, and the answer it asked for, which may be stale when it
  is used); and what `fs/interface.ts` promises of an operation on an abstract tree:
  when a request makes sense (`WellFormed`), how it ends (`Outcome`), what it leaves
  (`Effect`) and which paths it may touch (`Footprint`).
* `OverlayFs.tla` — `memory` and `deleted` over a host tree `Lower`. Each operation is
  one action per stretch of code between two awaits, for two callers; the recursion of
  `rm`, `cp` and `mv` is their invocations' own stack. `Tree` is what the layers look
  like from outside. `OverlayFsProofs.tla` holds the proofs.
* `InMemoryFs.tla`, `MountableFs.tla` — the operations of a store (most of them do not
  await and are one step), and the file system that routes each path to one of several
  stores: `mounts` changes between the steps of calls (`Mount`, `Unmount`), `mv` and
  `cp` across stores are `crossMountCopy`, step by step.
* `OverlayFsProofs.tla`, `MountableFsProofs.tla`, `FsLemmas.tla` — the proofs about the
  two, and the lemmas about paths, trees, requests and sorted lists that both need.
* `MC*.tla` — the instances for TLC: host trees, stores, redirection lists.

## Runs

| Run | Shows |
|---|---|
| `shell_control` | every mixture of 16 forms (loops, conditions, groups, subshells, functions, source, eval, break, continue, return, exit, nounset failures) of up to six commands: types, depths, handlers, and the refinement of `ExecPromise` with its liveness |
| `shell_errexit` | `set -e` against `&&`/`\|\|`, `!`, conditions, functions, substitutions, prefix assignments and failing redirections of functions |
| `shell_scopes` | what leaves a subshell, a substitution, a pipeline command, a script file |
| `var_scopes` | dynamic scoping: `VarScopes` implements `DynamicScope`, and no saved cell outlives its call |
| `var_unset` | violation: after a function with a local of that name, `unset` of a global does nothing |
| `redirections` | output ends up where descriptors would put it; it is never doubled, and dropped only where an error, a truncation or a file opened twice explains it |
| `redirections_compounds` | violation: `while ...; done > f` leaves f alone |
| `overlay_fs` | two callers, three calls: the overlay is one plain tree, changed as `FsContract` says; moves lose nothing; queries agree; calls that overlap touch only what they name |
| `mountable_fs` | the same of several stores behind mount points, with mounts and unmounts between steps, and what a mount hides is left alone |
| `exec_calls` | three executions of two Bash objects, concurrent and nested: patches are counted right, environments do not mix, every call settles |
| `py_queue` | three calls with results, timeouts, crashes at work and idle, notices, idle terminations and late messages, error and exit events in every order: no call lost from the queue, every call settled; no two scripts at once and own answers until a listener mistakes a notice or an error event (observations 17 and 19) |
| `py_bridge` | three file operations of every kind, with errors, operands that do not fit and both timeouts: own answers, whole and ordered effects, no thread left asleep |

What the mutants in PROJECT.json change (a forgotten restore, a swallowed error, a
dropped guard, a count not taken) is what each property was seen to catch.

**Bounds of the shell.** `MaxCommandCount` is the code's own limit and bounds the length
of a run: six commands (`shell_control`) are enough for a loop in a condition in a
subshell in a function with a control-flow builtin at the bottom; five and four suffice
where a statement has more alternatives. `MaxCallDepth = 1`, `MaxSubstitutionDepth = 1`
and `MaxLoopIterations` 1 or 2 put every limit within reach of the same runs.
`MaxLevel = 2` distinguishes `break` from `break 2`; `MaxSegments = 2` the last command
of a pipeline from the others; `MaxPipelines = 2` a list that was cut short from one
that was not; two values and two directories tell a leak from its absence. Statuses are
0 and 1: the code compares them with 0 only. Each run uses the forms its question needs;
together they use all of them.

**Bounds of the variables.** One name: no operation relates two names. One value and
`Unset` make every leak a difference. Two calls, one subshell, substitution or prefixed
command in progress at a time (`MaxOthers`), two saved cells of a name and one binding:
a cell below another call's, a return through a prefixed command, an unset of a
caller's local all happen. Two larger instances (of 3.3 and 2.6 million
states) were run to the end once, with the same result.

**Bounds of the redirections.** Two files, descriptors 1 to 5, of which `{v}>`
allocates 4 and 5 (10 and up in the code), three commands begun, two of which write,
compounds two deep: a pair of redirections in a compound in a compound, `exec` before a
command before another. The lists are those of `MCRedirections`: each operator alone,
and the pairs and triples that scripts use.

**Bounds of the file systems.** Two callers and three calls (overlay) or two (mounts):
a removal, what is made again and what looks at it; the last two may overlap
(`MaxMixed`). Mounts change while one call is in progress, or none (`MaxBeside`): with two,
no property that compares trees says anything. The host tree of the overlay has a directory with a file, and a file that
is too large to read; the stores of the mounts have a mount in a directory that only the
mount makes, and one that can be mounted over a directory with a file. Two callers are
interchangeable, hence the symmetry; these runs check no liveness.

**Bounds of the calls.** Three executions (a call, one it nests and one beside them, or
a batch of two), three commands each, a batch of two at a time, an object that enables
the box and one that configures it off: whichever runs first decides.

`py_queue` has three calls, one in progress and two behind it, which is where the order
of the queue begins to matter; a call starts at most one worker, so three workers are
all there can be (they are taken in a fixed order, `NextThread`: threads have no other
identity). One notice is enough to break the pairing of messages and executions.
`py_bridge` has three requests: one that is abandoned, the next, and one more that
inherits what that left behind.

**Fairness.** Of `ShellMachine`: `WF_vars(Step)`. The interpreter awaits only promises of
work it started itself (the commands of the model return), so an execution that can move
moves; the next `exec` is a choice of the caller. `ExecCalls`: `WF_vars(Progress(e))` of
each call, that the event loop runs the callbacks that are ready; neither the host's
calls nor the timer of `timeout` are fair, so `EveryCallEnds` needs no timer. `PyQueue`
assumes that armed timers fire and queued events are handled and nothing of a worker,
whose script may never end: `EveryCallSettles` rests on the timers alone. `PyBridge`
assumes that both threads run, that the timer of `Atomics.wait` fires and that the
promises of the file system settle; when the script asks for a file operation is its own
affair. The timeout of `run` may come at any time it is looked at, which is between
operations. The models of variables, redirections and file systems have no liveness to
state: their steps are sequential or end with the calls.

`py_queue` and `py_bridge` have `CHECK_DEADLOCK FALSE` because they come to an end (every
call settled; script and loop over), `var_scopes` and `redirections` because a bound on
their length ends them. In the others an end is a step of its own (`Finished`).

## What the properties leave out

A property that held of everything the code does would say less than these:

* `KeepsContract`, `MoveKeepsContent`, `NothingHidden` hold while calls do not overlap
  and make sense (`calm`, `WellFormed`); of calls that overlap, `StaysInFootprint` says
  what remains true.
* `ImplementsScopes` is stated for names that a script neither prefixes nor declares in a
  substitution or pipeline (`plain`): for the others the code follows no discipline of
  scopes (observations 5 and 6 below).
* `FollowsDescriptors` says where output goes for the redirections of `Plain` and
  `PlainExec`; that it is never doubled it says of all.
* `Serialized` and `OwnAnswer` are stated while `InStep`: until a worker posts a
  `security-violation` message, and until an `error` event is handled while a thread
  still has an input or an undelivered message. Both are false of the code after that
  (observations 17 and 19). Every other crash is covered: at work or idle, with a result
  that is delivered first, with inputs posted to the dead thread, after any number of
  timeouts, idle terminations and late exit events. `NoneForgotten` and
  `EveryCallSettles` have no condition.
* The properties of `PyBridge` are stated until an operation is abandoned.

## What is proved

TLAPS proves the following, for all values of the constants.

**`ShellMachine`** (any `Forms`, any limits and depths):

* `TypeCorrect`: `Spec => []TypeOK`. As depths are naturals, this says that no way out
  of a construct takes a depth off twice.
* `DepthsCorrect`: `Spec => []DepthsMatchStack` when no function is defined with a
  redirection (`"fredir" \notin Forms`); `OtherDepthsCorrect` is the rest of the
  property without that condition. The condition is needed (observation 1).
* `ErrexitCorrect`: `Spec => []ErrexitOutsideConditions`.

* `SubshellsIsolate` (`SubshellIsolates`), `EnvironmentIsKept` (`EnvironmentKept`):
  whatever leaves a subshell, a substitution, a script file or a command of a pipeline,
  what its frame saved is given back. `SubshellsGiveBackWhatTheyFound` adds that what was
  saved is the state in which the frame was entered and is not touched meanwhile.
* `ThrownIsHandled` (`ThrownHasHandler`), `NeverRejected`, `PromiseIsKept`: what is thrown
  has a frame below it that catches it, `exec` never rejects, and every step of
  `ShellMachine` is a step of `ExecPromise` or a stutter. All three need
  `"fredir" \notin Forms` (observation 1: a stale `callDepth` lets `return` throw where
  nothing catches) and `"ush" \notin Forms` (observation 2: `while ./script; do ...` with a
  script that runs `break` throws a SubshellExitError nothing catches). The runs that
  check these properties leave the same forms out.
* `CommandsAreBounded`: `commandCount` stays at or below its limit plus one.
* `ErrexitIsHonoured` (`ErrexitHonoured`): with `set -e`, a statement whose last pipeline
  is one plain command, and which fails outside of conditions, ends the script.

`DepthsMatchStack` is not inductive: when a frame is left, the code restores a value it
saved, and nothing says that the saved value is what the frames below amount to.
`IInv == TypeOK /\ Counts(stack, sh)` adds that: `Tracks` says that the depths in `sh`
count the frames of the stack, and `SavedAt` that what frame i saved counts the frames
below i. `Counts` is a predicate of a stack and a state, so the lemmas about it are about
the four moves of the machine (a frame is pushed, popped, replaced by one of the same
kind, or popped with a restore), and each action of `Next` is one use of them.

The results about how frames are left rest on a second description of the steps, `Moves`:
each step enters a frame (and `Saves` says what that frame keeps), leaves one (`Leave`, and
what it gives back) or goes on in the one on top. Over it, `Outcome` says that a `return`
in flight has a function or sourced file under it and a SubshellExitError a subshell
(`ThrownHasHandler`), that loops below a subshell are known to it (`ParentLoops`), and that
what ends the bottom frame is caught by `exec` (`EndsWell`).
`ErrexitHonoured` speaks of `errexitSafe`, one flag that statements at every depth set and
clear. Its invariant `Accounts` says when the flag can be trusted: `AtFault` describes the
stacks in which the statement in progress has started one plain command that has run no
other statement, and in those `errexitSafe` is as `executeStatement` reset it.

**`PyQueue`** (any calls, workers and number of notices): `TypeCorrect`,
`SerializedCorrect`, `OwnAnswerCorrect`, `NoneForgottenCorrect`. `Serialized` speaks of
the inputs and messages of threads, and is kept only because a result on its way has
exactly one thread behind it. The invariant `IInv` says so while `InStep`: the only input
or message of all threads, dead ones included, is that of `current`, held once
(`OneCarrier`), and an outcome that is a message is the call's own (`Answers`). What the
proof shows beyond `InStep` itself is that no timeout, idle timer, exit event, crash or
call ever makes two inputs or results at once, so that the `error` event of `InStep` and
the notice are the only two ways in which the listeners of the code can go wrong.
`NoneForgotten` needs no such restriction, and its invariant `QInv` says where a waiting
call is (`Places`) and that a thread that is alive, or whose error event is still to come,
attends to the current execution (`Attended`): the idle timer, whose callback must look at
`currentExecution`, and the late exit event are the steps that could break it. They assume
`NamesAssumption` only, that the tags of the model are different names.

**`ExecCalls`** (any number of Bash objects, any mixture of options, any number of calls
and commands): `TypeCorrect`, `PatchesCorrect` (`Spec => []PatchesMatchExecutions`) and
`EnvironmentCorrect` (the action property). The patches are in place while `refCount` is
positive, and that says nothing of who runs: the inductive invariant `Invariance` adds
that `refCount` is the number of handles held (`BoxCounts`, with cardinalities), that the
handles are held by exactly the running executions of guarded objects while the box is
enabled (`HandlesHeld`), and that calls not made yet hold nothing (`Unused`). Each action
either leaves who runs alone, or starts one execution with a handle or none, or ends one.

**`PyBridge`** (any number of requests): `TypeCorrect`, `AnswersAreOwn` (`Synchronous`),
`EffectsAreOrdered` (`EffectsInOrder`). They speak of the numbers in the regions of the
buffer, which the protocol never compares, so the invariant `TurnTaking` has to say where
both threads are: until an operation is abandoned the buffer is the worker's, the main
thread's with the operands of the pending request in it, or holds the answer to that
request (`WorkersTurn`, `MainsTurn`, `AnswerGiven`); what was returned was its own
(`Own`); and the effects are whole, one per request and in their order (`Ordered`,
`Accounted`). Once an operation is abandoned only `Serving` and `Base` remain, which is
observation 18.

**`VarScopes`** (any names, values and depth of calls): `TypeCorrect`, `BooksAreRight`
(`BooksMatchCalls`) and the refinement `ScopesAreDynamic` (`ImplementsScopes`). The code
has no cells, only one map and saved values, and the refinement mapping reads the cell of
a call off what the next call inside saved. The invariant `IInv` makes that legible: a
cell saved belongs to a call in progress, in their order, and likewise in what a subshell
will give back (`BooksFit`, `SavedFit`); there is one scope per call, now and when a
construct that saves the scopes began (`Heights`); no prefix assignment holds a plain name
(`NoPrefix`); and what the calls around a substitution hide of plain names is still
the same at its end (`Kept`). Each step of `Next` is then shown to be a step of
`DynamicScope` or to leave the cells as they are.

**`OverlayFs`** (any names, host tree and number of callers; calls may overlap in any
way): `TypeCorrect` and `FootprintKept` (`Spec => StaysInFootprint`). A step of a deep
recursion says nothing of the request it serves, so `CallsFit` says it of every frame of
every stack: its shape is that of its operation and await (`Shaped`), and what the frame
may still do is within the footprint of the request (`Belongs`): the frames of an `rm` are
below its operand, those of a `cp` copy to below its target, the `mkdir` of a
parent is an ancestor of it. No claim is made about the answers the frames hold, which may
be stale.

`NothingIsHidden` (`Spec => []NothingHidden`) does need the answers, for the layers are no
tree by construction: a white-out that `rm` left out, or a `mkdir` over what `exists` said
was missing, would show entries without a directory. Its invariant `CalmInv` sees the
layers as one function from paths to kinds (`Kinds`), so that the steps that change
something come down to two: `Raised` (a path gets a kind, its ancestors become directories)
and `Razed` (a path goes, below which there was nothing). While calls are calm, what exists
hangs on directories (`Hangs`); no entry of `memory` has a white-out (`Tidy`); at most one
call runs; and its stack is `Sound`: each waiting invocation can still rely on what it
needs (`Kept`: a `cp` that its source holds no link and that what is below its target has
the kind of what it copies, an `rm` that the names it has still to remove exist), each was
called by the one below it (`CalledBy`: the children an `rm` has not listed are gone), and
the answers of the one on top are not stale (`Ready`). That `rm -r` removes a directory
with nothing left in it, and that `cp` and `mkdir -p` create below directories, follow at
the end of each recursion.

`PathsAreRight` and `ListingsAreRight` (while calls are calm) are two of the three parts
of `QueriesAgree`: `getAllPaths` finds what `exists` finds, and `readdir` lists what
`getAllPaths` finds, directory by directory. Here the white-outs could bite. The walk over
the host tree stops at a removed directory and may do so only because a directory made
again over it has all it shows in `memory`; `readdir` looks at the marks of the names it
lists and of the directory itself, and would fail for a directory that went while
something below it still shows. `Tidy` and `Hangs` say that neither happens; an `rm -r`
that marked only the directory (the mutant `RmListMarksTop`) breaks all three parts.

`ContractKept` (`Spec => KeepsContract`) and `MovesKeepContent` (`Spec =>
[]MoveKeepsContent`) compare the tree at the end of a call, and at each of its awaits,
with the one it found. Besides `CalmInv` they need to know what a stack of invocations has
achieved so far. `PromiseInv` says it of what is seen at each path now and of what was
seen when the call began: nothing but what the call names has changed (`Framed`); what is
there of the target is what the source had at the path it comes from (`Mirrors`); each
waiting invocation still owes its part and no other (`Owes`, chained along the stack by
`Linked`: a `cp` has copied the children before the one it waits for, an `rm` inside a
`mv` has all of the source at its target); and the one on top can rely on its answers
(`Goes`). When the last invocation returns, its part is the whole call (`Delivers`), and
`ContractMet` turns that into the contract, which speaks of trees: `OutcomeMet` for the
answer, `EffectMet` for the tree, one lemma per operation. A file too large to read is
told from the others by its content (`HugeIsOwn`): `Unread` finds the files
that cannot be read in the tree, while the code finds out by their size on the host.

All these theorems assume `LowerIsTree` (the host's entries have names and none is below
a file), `TargetsAssumption` (the names are listed once; operands are paths of them, none
of them the root, which is how the model calls the operations) and `HugeIsOwn` (a host
file above the limit holds something that no other file and no call writes; it only names
the file, for contents are tokens in the model).

**`MountableFs`** (any names, stores and what they hold, any mount points, callers and
calls, mounts and unmounts between any two steps): `TypeCorrect`, `FootprintKept`
(`StaysInFootprint`), `MountsAreShields` (`MountsShield`) and `QueriesAreRight`
(`Spec => []QueriesAgree`). A store sees its own paths
only, so the invariant `IInv` speaks of them as they are seen from outside (`Whole`): the
mounts lie apart and belong to different stores (`MountsInv`), which makes routing a path
and joining it to its mount point inverse to each other, and every invocation, seen from
outside, owns its paths as in `OverlayFs` (`Belongs`), until something is mounted or
unmounted. While calls are calm, an invocation on the base works where nothing is mounted
(`Open`, and `Clear` for what descends): that is what `mv`, `cp` and `rm` check before they
hand a whole directory to the base, and what no step after the check may lose. Each step
turns the caller's stack into one that fits (`Turns`) and changes one store, within what
the call may change (`Change`). They assume that the mounts given to the constructor are
not nested and at different stores (`MountedAssumption`), the shape of the stores
(`MountAssumption`) and of the operands.

**Only model-checked**: `Redirections` as a whole, for a proof of its own would have to
name what every nesting of compounds leaves open; of `MountableFs` `KeepsContract`
and `MoveKeepsContent`, for which the argument of `OverlayFs` would have to be made once
more over several stores and their own recursions; of `OverlayFs` the third
part of `QueriesAgree` (`RealpathsAgree`), which rests on what the recursive `Final` and
`Follow` and their folds compute for every path. All liveness (`EveryCallSettles`, `EveryRequestReturns`,
`LoopEnds`, `EveryCallEnds`, the fairness of `ExecPromise`) is outside the prover's
reach. Induction is used where it is over numbers (the smallest element of a set of them,
from `WellFoundedInduction`); what a recursive function or a fold computes for every input
is not proved.

## Findings

1. `unset.ts:522` (`var_unset`). `cleanup` of `callFunction` does not clear
   `localVarDepth`. After `x=1; f() { local x=2; }; f`, `unset x` takes x for another
   call's local, finds no cell, and x keeps its value.
2. `control-flow.ts:42, 259, 402` (`redirections_compounds`). `executeIf`,
   `executeWhile` and `executeUntil` do not apply the redirections the parser gives
   them. The test "redirect while" passes because the loop's output on stdout is the
   text that `cat out` should have printed.

## Observations

What the code does, met while modelling, that a maintainer may want to know. The models
contain it unless the line says otherwise.

Control flow and calls:

1. `functions.ts:202`: the redirections of a function definition are expanded after
   `callDepth++` and before the `try`: a throw leaves `callDepth` and a scope behind.
2. `subshell-group.ts:406`: `executeUserScript` sets `parentHasLoopContext` and does not
   catch the `SubshellExitError` it enables; in a loop condition `exec` rejects.
3. `pipeline-execution.ts:103`: `return` in a pipeline is rethrown; the comment at 86-87
   says it only affects that segment. `interpreter.ts:633`: `x=5` keeps the previous
   status; the comment at 622 gives substitutions as the reason.
4. `simple-command-assignments.ts:97`: `x=$(cmd)` runs cmd twice.
   `pipeline-execution.ts:60`: `groupStdin` is lost by later commands (not modelled).
5. `interpreter.ts:1098`: prefix assignments are undone after `runCommand` returns;
   `break`, `return`, `exit` or an errexit in the command skips it. `x=1 x=2 cmd` leaves
   1. The sets of changed prefix variables are never cleared.
6. `expansion.ts:825`: substitutions and pipelines restore values but not scopes, so
   `y=$(local x=2)` leaves x in the caller's scope.
7. `Bash.ts:513`: copies of the state share `readonlyVars`, `exportedVars` and the shopt
   options: after `exec('readonly X=1')` a later `exec('X=2')` fails, though
   `src/README.md:60` says that each `exec()` is isolated (not modelled).
8. `Bash.ts:440`: a nested `exec` restarts `commandCount`. `timeout.ts:9`: the command
   goes on after the timeout. The first configuration of the box wins, for all objects.

Redirections (`redirections.ts`), compared with descriptors:

9. `cmd >f 2>&1` leaves stderr on stdout, `2>&1 >f` sends both to f, `3>&1 1>&2 2>&3`
   exchanges nothing, `1>&1` moves stderr to stdout (the comment says no-op), `>f >g`
   writes to f, `3>f` on a command does nothing.
10. `exec 3>>f; echo >&3` is a bad descriptor; `exec 3>&1; exec >f; echo >&3` goes to f;
    `exec &>f` does nothing; closing the source of a duplicate loses the duplicate; `N>&M-`
    on a command changes the shell's table; subshells do not save it.
11. With noclobber a compound or bare `> new` makes the file, then refuses it, and the
    output is lost; `exec` and `{v}>` ignore noclobber. Commands run before their failing
    redirection is noticed.
12. `{ echo a >>f; } >f` loses a. A group or loop left by `return` or `exit` skips its
    redirections.

File systems:

13. Overlay: `appendFile` to a file that is too large replaces it (458); `rm` of a
    directory that is not empty succeeds without `recursive` (854); `getAllPaths` finds no
    host file when the mount point is not `/` (not modelled); only links of the last name
    are followed, while `realpath` follows all; writing below a file turns the file into a
    directory (302); modes are reset by append, cp and mv.
14. In memory: `cp` ignores links, so `mv` of a link removes it (549); writing to a link
    replaces it; `mv a a` removes a; `cp -r` into itself does not end.
15. Mounts: `realpath` fails for a directory that only mounts make, though `stat` finds it;
    `getAllPaths` lists entries that mounts hide; copies of a directory leave out what is
    mounted in it.
16. All: an append is a read and a write, `mkdir` a look and a write, chmod likewise: of
    two at once one may be lost.

python3:

17. `python3.ts:183-211`: the listeners do not look at which worker they hear of. The exit
    event of any worker clears `sharedWorker`, also when a new one is there; the next
    execution starts a third beside it. An error event gives up whatever execution is
    current. If a worker posts its result and dies (an error in a callback the script left
    behind), and the error event is handled first, the call is answered as crashed, the
    next call starts on a new worker, and the late message settles it with the result of
    the call before and starts the one after it beside it. The same comes of the error
    event of an idle worker that the idle timer terminated, or an older worker's exit event
    replaced, before it was handled.
18. `sync-fs-backend.ts:46`: a request has no identity; after a timeout the next one takes
    the late answer, or the late notification, for its own.
19. `worker.ts:1212`: a `security-violation` message settles the execution in progress.

## Not modelled

In `ShellMachine`: `exec`, `command`, `builtin`, posix mode, arrays and `declare`,
background jobs (the code runs them in the foreground), output. In `VarScopes`: arrays,
namerefs, `declare`, `readonly`, `export`. In `Redirections`: input redirections,
here-documents and here-strings, `<>`, `/dev/null` and `/dev/full`, globbing of targets,
`case`, `(( ))` and `[[ ]]` (which do as `for` does). In the file systems: times, `readOnly`,
lazy files, encodings, links on the host and mount points of the overlay below the root,
stores of a mountable file system other than in-memory ones. In `ExecCalls`: what a script
does (one step counts), what the patches patch, the async context, `forceDeactivate`,
which no code outside tests calls. In the python modules: what a call prints, the loading
of Pyodide, a worker that ends without an `error` event (by `process.exit`), the Python
side of the file system, and the memory model of `Atomics` (all accesses that order
matters for are atomic).

The components without a module: sqlite3 has one thread per query and shares nothing
between queries; the network layer is a loop that keeps no state; the Sandbox API is a
promise around one `exec`; the text commands, the lexer and the parser are sequential
functions of text, whose state is the text; the read-write file system is the host's.
They are most of the lines of the repository and few of its hazards.

## Plan

1. Proofs: `Redirections` (`TypeOK`, that nothing is written twice).
2. Models: standard input (here-documents, `groupStdin`, `read -u`) with `Redirections`.
