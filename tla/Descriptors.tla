---------------------------- MODULE Descriptors ----------------------------
(***************************************************************************)
(* What redirections mean in a shell: a command has a table that gives     *)
(* each descriptor the place it writes to; its redirections change a copy  *)
(* of the table from left to right before it runs; a compound command      *)
(* hands its table to the commands of its body, and exec changes the table *)
(* of the shell itself.                                                    *)
(***************************************************************************)
EXTENDS Naturals, SequencesExt

CONSTANTS
  Files,   \* the names of regular files
  MaxFd    \* the highest descriptor a script names

Devices == {"/dev/stdout", "/dev/stderr"}

\* A redirection: op with the descriptor fd (0: none is written) and the file
\* to or the descriptor n; var: {v}>file, which allocates a descriptor. A word
\* after >& is a file, a number ("dup"), a number and a dash ("move") or a dash.
Redirection(op, fd, to, n, var) == [op |-> op, fd |-> fd, to |-> to, n |-> n, var |-> var]

OneStream == {">", ">|", ">>"}
Truncates == {">", ">|", "&>", ">&"}
Fd(r) == IF r.fd = 0 THEN 1 ELSE r.fd
IsBoth(r) == r.op \in {"&>", "&>>"} \/ (r.op = ">&" /\ r.fd = 0)

\* The place a file operand names: a device is what the descriptor is.
Place(t, to) ==
  IF to = "/dev/stdout" THEN t[1] ELSE IF to = "/dev/stderr" THEN t[2] ELSE to

Followed(t, r) ==
  CASE r.var -> t
    [] ~r.var /\ IsBoth(r) -> [t EXCEPT ![1] = r.to, ![2] = r.to]
    [] ~r.var /\ ~IsBoth(r) /\ r.op \in OneStream \cup {">&"} ->
         [t EXCEPT ![Fd(r)] = Place(t, r.to)]
    [] ~r.var /\ r.op = "dup" -> [t EXCEPT ![Fd(r)] = t[r.n]]
    [] ~r.var /\ r.op = "move" -> [t EXCEPT ![Fd(r)] = t[r.n], ![r.n] = "closed"]
    [] ~r.var /\ r.op = "close" -> [t EXCEPT ![Fd(r)] = "closed"]

Table(t, rs) == FoldLeft(Followed, t, rs)

\* The table a script starts with.
Inherited == [d \in 1 .. MaxFd |-> IF d = 1 THEN "out" ELSE IF d = 2 THEN "err" ELSE "closed"]

\* Files that a list of redirections empties when it opens them.
Emptied(rs) ==
  {f \in Files : \E i \in DOMAIN rs : rs[i].op \in Truncates /\ rs[i].to = f}
=============================================================================
