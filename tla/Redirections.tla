---------------------------- MODULE Redirections ----------------------------
(***************************************************************************)
(* Output redirections. The interpreter has no open files: a command       *)
(* returns what it wrote on stdout and stderr, and applyRedirections moves *)
(* that, one redirection after the other, once the command is over. What   *)
(* exec and {v}> open stays in state.fileDescriptors, as marks.            *)
(***************************************************************************)
EXTENDS Descriptors, Functions, FiniteSets

CONSTANTS
  FirstFree,    \* the first descriptor {v}> allocates (10 in the code)
  Lists,        \* the redirection lists of simple commands
  BareLists,    \* of no command at all
  CompoundLists,
  ExecLists,    \* of exec
  MaxSteps,     \* bound: commands begun
  MaxCommands,  \* bound: commands that write
  MaxDepth      \* bound: compound commands inside each other

VARIABLES
  files,      \* ctx.fs: what each file that exists holds
  fds,        \* state.fileDescriptors
  nextFd,     \* state.nextFd
  noclobber,  \* state.options.noclobber
  stack,      \* the script and the compound commands in progress, with the
              \* stdout and stderr their bodies returned so far
  status,     \* the exit code of the last command
  written,    \* commands that wrote
  steps,
  history     \* of the script: due, where each piece of output belongs, what
              \* was redirected last, and whether the script is plain

vars == <<files, fds, nextFd, noclobber, stack, status, written, steps, history>>

Kinds == {"group", "subshell", "for", "function", "while"}

\* Each command writes a piece on stdout and a piece on stderr.
Streams == {"out", "err"}
Piece(n, s) == <<n, s>>

FileMark(f) == [k |-> "file", f |-> f, n |-> 0]
AppendMark(f) == [k |-> "append", f |-> f, n |-> 0]
DupMark(n) == [k |-> "dup", f |-> "", n |-> n]

Frame(k, rs, t) == [k |-> k, rs |-> rs, out |-> <<>>, err |-> <<>>, table |-> t]
Top == Last(stack)

\* What applyRedirections works on: a result, the file system, the marks.
Result(o, e, fs, ds, code) ==
  [out |-> o, err |-> e, files |-> fs, fds |-> ds, code |-> code]

-----------------------------------------------------------------------------
(* The moves applyRedirections is made of.                                 *)

With(f, x, v) == [y \in DOMAIN f \cup {x} |-> IF y = x THEN v ELSE f[y]]

Without(f, x) == [y \in DOMAIN f \ {x} |-> f[y]]

Merge(a, from, to) == [a EXCEPT ![to] = @ \o a[from], ![from] = <<>>]

Held(fs, f) == IF f \in DOMAIN fs THEN fs[f] ELSE <<>>

Put(a, s, f, append) ==
  [a EXCEPT !.files = With(@, f, (IF append THEN Held(a.files, f) ELSE <<>>) \o a[s]),
            ![s] = <<>>]

RefusedWithoutNoclobber(fs, r) == r.to = "dir"

\* checkOutputRedirectTarget: a directory, or a file that noclobber protects.
Refused(fs, r) ==
  \/ r.to = "dir"
  \/ noclobber /\ r.op \in Truncates \ {">|"} /\ r.to \in DOMAIN fs \cup Devices

Stream(r) == IF Fd(r) = 2 THEN "err" ELSE "out"

ToFile(a, r) ==
  IF Fd(r) > 2 THEN a
  ELSE IF r.to = "/dev/stdout" THEN IF Fd(r) = 2 THEN Merge(a, "err", "out") ELSE a
  ELSE IF r.to = "/dev/stderr" THEN IF Fd(r) = 1 THEN Merge(a, "out", "err") ELSE a
  ELSE IF Refused(a.files, r)
       THEN [a EXCEPT !.code = 1, !.out = IF Fd(r) = 1 THEN <<>> ELSE @]
       ELSE Put(a, Stream(r), r.to, r.op = ">>")

\* &>, &>> and >& with a word: an error replaces what there was of stderr.
BothToFile(a, r) ==
  IF Refused(a.files, r) THEN [a EXCEPT !.code = 1, !.out = <<>>, !.err = <<>>]
  ELSE IF IsBoth(r) THEN Put(Merge(a, "err", "out"), "out", r.to, r.op = "&>>")
  ELSE IF Fd(r) <= 2 THEN Put(a, Stream(r), r.to, FALSE) ELSE a

\* A descriptor that exec or {v}> opened. What exec opened with >> is not found.
ToMark(a, r) ==
  LET none == [k |-> "none"]
      mark(d) == IF d \in DOMAIN a.fds THEN a.fds[d] ELSE none
      m == mark(r.n)
      f == IF m.k = "dup" THEN mark(m.n) ELSE m
  IN IF m.k \in {"none", "append"} THEN [a EXCEPT !.code = 1, !.out = <<>>]
     ELSE IF m.k = "dup" /\ m.n = 2 /\ Fd(r) = 1 THEN Merge(a, "out", "err")
     ELSE IF f.k = "file" /\ (m.k = "dup" => m.n > 2) /\ Fd(r) <= 2
          THEN Put(a, Stream(r), f.f, TRUE)
          ELSE a

DupKeepsStdout(a, r) ==
  IF r.n = 2 THEN IF Fd(r) = 1 THEN [a EXCEPT !.err = @ \o a.out] ELSE a
  ELSE IF r.n = 1 THEN Merge(a, "err", "out")
  ELSE ToMark(a, r)

\* >&n. Any descriptor that is sent to 1 takes stderr along, 1 itself too.
Dup(a, r) ==
  IF r.n = 2 THEN IF Fd(r) = 1 THEN Merge(a, "out", "err") ELSE a
  ELSE IF r.n = 1 THEN Merge(a, "err", "out")
  ELSE ToMark(a, r)

\* >&n-, which changes the marks of the shell.
Move(a, r) ==
  IF r.n \in DOMAIN a.fds
  THEN [a EXCEPT !.fds = LET moved == With(@, Fd(r), a.fds[r.n])
                         IN IF r.n > 2 THEN Without(moved, r.n) ELSE moved]
  ELSE IF r.n <= 2 THEN [a EXCEPT !.fds = With(@, Fd(r), DupMark(r.n))]
  ELSE [a EXCEPT !.code = 1]

Redirect(a, r) ==
  CASE r.var \/ r.op = "close" -> a
    [] ~r.var /\ r.op \in OneStream -> ToFile(a, r)
    [] ~r.var /\ r.op \in {"&>", "&>>", ">&"} -> BothToFile(a, r)
    [] ~r.var /\ r.op = "dup" -> Dup(a, r)
    [] ~r.var /\ r.op = "move" -> Move(a, r)

\* What exec redirected for good: stdout first, then stderr.
Persist(a, d) ==
  LET s == IF d = 2 THEN "err" ELSE "out"
      other == IF d = 2 THEN "out" ELSE "err"
  IN IF d \notin DOMAIN a.fds THEN a
     ELSE IF a.fds[d].k # "dup" THEN Put(a, s, a.fds[d].f, TRUE)
     ELSE IF a.fds[d].n = 3 - d THEN Merge(a, s, other)
     ELSE a

Applied(a, rs) == Persist(Persist(FoldLeft(Redirect, a, rs), 1), 2)

-----------------------------------------------------------------------------
(* Before a command runs.                                                  *)

\* preOpenOutputRedirects empties files until one is refused.
PreOpened(fs, rs) ==
  LET opens(r) == r.op \in Truncates /\ (r.op = ">&" => r.fd = 0)
      open(o, r) ==
        IF ~o.ok \/ ~opens(r) THEN o
        ELSE IF Refused(o.files, r) THEN [o EXCEPT !.ok = FALSE]
        ELSE IF r.to \in Devices THEN o
        ELSE [o EXCEPT !.files = With(@, r.to, <<>>)]
  IN FoldLeft(open, [ok |-> TRUE, files |-> fs], rs)

AllocateAgain(s, r) ==
  IF r.var /\ r.op = ">"
  THEN [s EXCEPT !.fds = With(@, s.next, FileMark(r.to)), !.files = With(@, r.to, <<>>)]
  ELSE s

\* processFdVariableRedirections: {v}>f allocates, {v}>&- closes fd, the value of v.
Allocate(s, r) ==
  IF ~r.var THEN s
  ELSE IF r.op = "close" THEN [s EXCEPT !.fds = Without(@, r.fd)]
  ELSE [fds |-> IF r.op = "dup"
                THEN IF r.n \in DOMAIN s.fds THEN With(s.fds, s.next, s.fds[r.n]) ELSE s.fds
                ELSE With(s.fds, s.next, FileMark(r.to)),
        files |-> IF r.op = ">" THEN With(s.files, r.to, <<>>) ELSE s.files,
        next |-> s.next + 1]

Allocated(rs) ==
  FoldLeft(Allocate, [fds |-> fds, files |-> files, next |-> nextFd], rs)

\* exec with redirections only.
ExecOne(s, r) ==
  CASE r.op \in {">", ">|"} ->
         [fds |-> With(s.fds, Fd(r), FileMark(r.to)), files |-> With(s.files, r.to, <<>>)]
    [] r.op = ">>" -> [s EXCEPT !.fds = With(@, Fd(r), AppendMark(r.to))]
    [] r.op = "dup" -> [s EXCEPT !.fds = With(@, Fd(r), DupMark(r.n))]
    [] r.op = "close" -> [s EXCEPT !.fds = Without(@, Fd(r))]
    [] r.op = "move" ->
         [s EXCEPT !.fds = Without(With(@, Fd(r), IF r.n \in DOMAIN s.fds THEN s.fds[r.n]
                                                  ELSE DupMark(r.n)), r.n)]
    [] r.op \in {"&>", "&>>", ">&"} -> s

-----------------------------------------------------------------------------
(* History: where each piece belongs, and which scripts are plain.         *)

\* A piece in a file that is emptied is gone. What the commands of a plain
\* script write goes where the table of their command says.
Lost(due, fs) == [c \in DOMAIN due |-> IF due[c] \in fs THEN "gone" ELSE due[c]]

Dues(due, t, n) ==
  [c \in DOMAIN due \cup {Piece(n, s) : s \in Streams} |->
     IF c \in DOMAIN due THEN due[c]
     ELSE LET d == t[IF c[2] = "out" THEN 1 ELSE 2] IN IF d = "closed" THEN "gone" ELSE d]

\* Files that something of the script is still writing to.
Open == {f \in Files :
           \/ \E d \in DOMAIN fds : fds[d].k # "dup" /\ fds[d].f = f
           \/ \E i \in DOMAIN stack : \E j \in DOMAIN stack[i].rs : stack[i].rs[j].to = f}

PreOpens(k) == k \in {"bare", "subshell", "for"}

\* The redirections of a command of kind k that come out as in Descriptors,
\* whatever the command and its place in the script.
PlainOne(r, k) ==
  CASE r.op = "dup" /\ ~r.var ->
         \/ <<Fd(r), r.n>> \in {<<1, 2>>, <<2, 1>>}
         \/ r.n > 2 /\ r.n \in DOMAIN fds /\ Fd(r) <= 2 /\ fds[r.n].k = "file"
         \/ /\ r.n > 2 /\ r.n \in DOMAIN fds /\ fds[r.n].k = "dup"
            /\ Len(stack) = 1 /\ {1, 2} \cap DOMAIN fds = {}
            /\ <<Fd(r), fds[r.n].n>> \in {<<1, 1>>, <<1, 2>>, <<2, 2>>}
    [] r.op \in OneStream \cup {"&>", "&>>", ">&"} /\ ~r.var ->
         \/ r.to \in Devices /\ Fd(r) <= 2
         \/ /\ r.to \in Files \ Open /\ Fd(r) <= 2 /\ ~Refused(files, r)
            /\ noclobber /\ PreOpens(k) => r.op \in {">|", ">>", "&>>"}
    [] r.var -> Len(stack) = 1 /\ k \in {"simple", "exec"} /\ r.op \in {">", ">>"} /\ r.to \notin Open
                  /\ (noclobber => r.to \notin DOMAIN files)
    [] OTHER -> FALSE

\* Two at once, only if each is one stream to one file of its own.
Plain(rs, k) ==
  /\ \A i \in DOMAIN rs : PlainOne(rs[i], k)
  /\ Len(rs) <= 2
  /\ Len(rs) = 2 => /\ \A i \in 1 .. 2 : rs[i].op \in OneStream /\ rs[i].to \in Files /\ ~rs[i].var
                    /\ Fd(rs[1]) # Fd(rs[2]) /\ rs[1].to # rs[2].to
  /\ k \in Kinds /\ rs # <<>> => {1, 2} \cap DOMAIN fds = {}

PlainExec(rs) ==
  LET r == rs[1]
      dups == {d \in DOMAIN fds : fds[d].k = "dup"}
  IN /\ Len(stack) = 1 /\ Len(rs) = 1
     /\ \/ r.var /\ PlainOne(r, "exec")
        \/ /\ ~r.var /\ r.op \in OneStream /\ r.to \notin Open /\ dups = {}
           /\ r.op = ">>" => Fd(r) <= 2
           /\ noclobber /\ r.op = ">" => r.to \notin DOMAIN files
        \/ ~r.var /\ r.op = "dup" /\ r.n <= 2 /\ {1, 2} \cap DOMAIN fds = {} /\ Fd(r) # r.n
              /\ (Fd(r) > 2 \/ dups = {})
        \/ ~r.var /\ r.op = "close" /\ Fd(r) > 2 /\ dups = {}

\* last: the redirections a step applied, and the files it may empty whatever
\* noclobber says. bypassed: how compounds were over whose redirections were not
\* applied: they ended, or were left.
Remember(due, rs, free, plain, bypassed) ==
  history' = [due |-> due, last |-> rs, free |-> free,
              plain |-> history.plain /\ plain, bypassed |-> history.bypassed \cup bypassed]

-----------------------------------------------------------------------------
(* The commands.                                                           *)

Tick == steps < MaxSteps /\ steps' = steps + 1

\* What a command returns is collected by the command it is in.
Returns(below, a) ==
  /\ stack' = [below EXCEPT ![Len(below)].out = @ \o a.out, ![Len(below)].err = @ \o a.err]
  /\ files' = a.files /\ fds' = a.fds /\ status' = a.code

NewTable(t, rs) ==
  [d \in DOMAIN t |->
     IF \E i \in DOMAIN rs : rs[i].var /\ rs[i].op \in {">", ">>"} /\ d = nextFd
     THEN rs[CHOOSE i \in DOMAIN rs : rs[i].var].to ELSE t[d]]

Simple(rs) ==
  /\ Tick /\ written < MaxCommands /\ written' = written + 1
  /\ LET s == Allocated(rs)
         o == <<Piece(written', "out")>>
         e == <<Piece(written', "err")>>
         t == NewTable(Top.table, rs)
     IN /\ s.next <= MaxFd + 1 /\ nextFd' = s.next
        /\ Returns([stack EXCEPT ![Len(stack)].table = t],
                   Applied(Result(o, e, s.files, s.fds, 0), rs))
        /\ Remember(Dues(Lost(history.due, Emptied(rs)), Table(t, rs), written'), rs,
                    {}, Plain(rs, "simple"), {})
  /\ UNCHANGED noclobber

\* Redirections without a command.
Bare(rs) ==
  /\ Tick
  /\ LET p == PreOpened(files, rs)
         a == Result(<<>>, <<>>, p.files, fds, 0)
     IN Returns(stack, IF p.ok THEN Applied(a, rs) ELSE [a EXCEPT !.code = 1])
  /\ Remember(Lost(history.due, Emptied(rs)), rs, {}, Plain(rs, "bare"), {})
  /\ UNCHANGED <<nextFd, noclobber, written>>

Exec(rs) ==
  /\ Tick
  /\ LET s == Allocated(rs)
         x == FoldLeft(ExecOne, [fds |-> s.fds, files |-> s.files],
                       SelectSeq(rs, LAMBDA r : ~r.var))
     IN /\ s.next <= MaxFd + 1 /\ nextFd' = s.next
        /\ files' = x.files /\ fds' = x.fds
  /\ stack' = [stack EXCEPT ![Len(stack)].table = Table(NewTable(@, rs), rs)]
  /\ status' = 0
  /\ Remember(Lost(history.due, Emptied(rs)), rs, Emptied(rs), PlainExec(rs), {})
  /\ UNCHANGED <<noclobber, written>>

\* A compound command begins; if, while and until leave their redirections alone.
Begin(k, rs) ==
  LET p == IF PreOpens(k) THEN PreOpened(files, rs) ELSE [ok |-> TRUE, files |-> files]
      s == Allocated(rs)
  IN /\ Tick /\ Len(stack) <= MaxDepth
     /\ IF k = "group"
        THEN s.next <= MaxFd + 1 /\ nextFd' = s.next /\ files' = s.files /\ fds' = s.fds
        ELSE files' = p.files /\ UNCHANGED <<nextFd, fds>>
     /\ stack' = IF p.ok THEN Append(stack, Frame(k, rs, Table(Top.table, rs))) ELSE stack
     /\ status' = IF p.ok THEN status ELSE 1
     /\ Remember(Lost(history.due, Emptied(rs)), rs, {},
                 Plain(rs, k) /\ \A i \in DOMAIN rs : ~rs[i].var, {})
     /\ UNCHANGED <<noclobber, written>>

Ended(i, o, e) ==
  LET a == Result(o, e, files, fds, status)
  IN /\ Returns(SubSeq(stack, 1, i - 1),
                IF stack[i].k = "while" THEN a ELSE Applied(a, stack[i].rs))
     /\ UNCHANGED <<nextFd, noclobber, written, steps>>

Left(I) == IF \E i \in I : stack[i].rs # <<>> THEN {"left"} ELSE {}

End ==
  /\ Len(stack) > 1
  /\ Ended(Len(stack), Top.out, Top.err)
  /\ Remember(history.due, Top.rs, {}, TRUE,
              IF Top.k = "while" /\ Top.rs # <<>> THEN {"ended"} ELSE {})

\* return, and exit in a subshell: the output of the commands they leave goes
\* with the error to the command that catches it (prependOutput).
Catches(w) == {i \in 2 .. Len(stack) :
                 stack[i].k = "subshell" \/ (w = "return" /\ stack[i].k = "function")}

Prepended(i, s) == FlattenSeq([j \in 1 .. Len(stack) - i + 1 |-> stack[i + j - 1][s]])

Leave(w) ==
  /\ Catches(w) # {}
  /\ LET i == CHOOSE x \in Catches(w) : \A y \in Catches(w) : y <= x
     IN /\ Ended(i, Prepended(i, "out"), Prepended(i, "err"))
        /\ Remember(history.due, stack[i].rs, {}, TRUE, Left(i + 1 .. Len(stack)))

\* exit elsewhere: Bash.exec returns what the error carries.
Exit ==
  /\ steps' = MaxSteps
  /\ Len(stack) > 1 /\ Catches("exit") = {}
  /\ stack' = <<[Head(stack) EXCEPT !.out = Prepended(1, "out"), !.err = Prepended(1, "err")]>>
  /\ Remember(history.due, <<>>, {}, TRUE, Left(2 .. Len(stack)))
  /\ UNCHANGED <<files, fds, nextFd, noclobber, status, written>>

Init ==
  /\ files = <<>> /\ fds = <<>> /\ nextFd = FirstFree
  /\ noclobber \in BOOLEAN
  /\ stack = <<Frame("script", <<>>, Inherited)>>
  /\ status = 0 /\ written = 0 /\ steps = 0
  /\ history = [due |-> <<>>, last |-> <<>>, free |-> {}, plain |-> TRUE, bypassed |-> {}]

Next ==
  \/ \E rs \in Lists : Simple(rs)
  \/ \E rs \in BareLists : Bare(rs)
  \/ \E rs \in ExecLists : Exec(rs)
  \/ \E k \in Kinds, rs \in CompoundLists : Begin(k, rs)
  \/ End
  \/ \E w \in {"return", "exit"} : Leave(w)
  \/ Exit

Spec == Init /\ [][Next]_vars

-----------------------------------------------------------------------------
(* Properties.                                                             *)

\* Every text that output can be in: files, and what commands in progress hold.
Texts ==
  [h \in ({0} \X (DOMAIN files)) \cup ((DOMAIN stack) \X Streams) |->
     IF h[1] = 0 THEN files[h[2]] ELSE stack[h[1]][h[2]]]

Pieces == {Piece(n, s) : n \in 1 .. written, s \in Streams}

Marks == {FileMark(f) : f \in Files} \cup {AppendMark(f) : f \in Files}
           \cup {DupMark(n) : n \in 1 .. MaxFd}

\* Files, marks and results have their types, and no descriptor is in use that
\* {v}> has yet to allocate.
TypeOK ==
  /\ DOMAIN files \subseteq Files
  /\ \A text \in Range(Texts) : text \in Seq(Pieces)
  /\ \A d \in DOMAIN fds : fds[d] \in Marks /\ d \in 1 .. nextFd - 1
  /\ nextFd \in FirstFree .. MaxFd + 1 /\ status \in {0, 1}
  /\ \A i \in DOMAIN stack : stack[i].k \in Kinds \cup {"script"}

Everything == UNION {ToSet(text) : text \in Range(Texts)}

\* No output is written twice, whatever the redirections.
WrittenOnce ==
  FoldFunction(LAMBDA text, n : n + Len(text), 0, Texts) = Cardinality(Everything)

Found(c) == LET texts == Texts IN {h \in DOMAIN texts : c \in ToSet(texts[h])}

\* Between the commands of a script, each piece of output is where the table
\* of the command that wrote it says.
Follows ==
  Len(stack) = 1 =>
    \A c \in Pieces : {h[2] : h \in Found(c)} = {history.due[c]} \ {"gone"}

\* Moving output afterwards comes to the same as descriptors would, in plain
\* scripts whose compound commands apply their redirections.
FollowsDescriptors ==
  WrittenOnce /\ (history.plain /\ history.bypassed = {} => Follows)

\* The redirections of a compound command are applied to what its body wrote when
\* it ends: "while ...; done > f" writes f.
CompoundsRedirected == history.plain /\ "left" \notin history.bypassed => Follows

\* Output disappears with an error, or from a file that a redirection of the
\* step empties (with noclobber only >|, {v}> and exec may), or because the step
\* opens one file twice. A redirection that follows another drops nothing else.
DropsExplained ==
  [][LET new == {Piece(n, s) : n \in written + 1 .. written', s \in Streams}
         last == history.last'
         emptied == history.free'
                      \cup {last[i].to : i \in {j \in DOMAIN last : /\ last[j].op \in Truncates
                                                             /\ noclobber => last[j].op = ">|" \/ last[j].var}}
     IN \A c \in (Everything \cup new) \ Everything' :
          \/ status' = 1
          \/ \E f \in emptied \cap DOMAIN files : c \in ToSet(files[f])
          \/ \E i, j \in DOMAIN last : i # j /\ last[i].to = last[j].to /\ last[i].to \in emptied]_vars
=============================================================================
