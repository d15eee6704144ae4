----------------------------- MODULE FsContract -----------------------------
(***************************************************************************)
(* What the operations of IFileSystem (src/src/fs/interface.ts) promise,   *)
(* on an abstract tree: a function from the paths that exist to their      *)
(* entries, changed by one operation at a time.  The file systems are      *)
(* checked against it.                                                     *)
(*                                                                         *)
(* The promise covers kinds, contents and link targets (Plain).  It says   *)
(* nothing of modes: the file systems disagree on which mode a copy or an  *)
(* appended file gets.  A request is [op, p, q, o]; id is what it writes.  *)
(***************************************************************************)
EXTENDS FsPaths

Plain(t) == [p \in DOMAIN t |-> [t[p] EXCEPT !.m = "default"]]

Exists(t, p) == p = Root \/ p \in DOMAIN t

IsDir(t, p) == p = Root \/ (p \in DOMAIN t /\ t[p].t = "dir")

IsFile(t, p) == p \in DOMAIN t /\ t[p].t = "file"

Inside(t, d) == {p \in DOMAIN t : Below(p, d)}

(* Every path that exists hangs on directories that exist.                 *)
IsTree(t) == \A p \in DOMAIN t : p = Root \/ IsDir(t, Parent(p))

-----------------------------------------------------------------------------
(* Well-formed requests: those the interface gives a meaning to.  What is  *)
(* created hangs on directories, a file does not take the place of a       *)
(* directory nor a directory that of anything, only an empty directory is  *)
(* removed without the recursive option, and links are not named.          *)

Creatable(t, p) == \A d \in Ancestors(p) : Exists(t, d) => IsDir(t, d)

FileFits(t, p) == Creatable(t, p) /\ ~IsDir(t, p)

NoLinks(t, p) ==
  \A x \in Inside(t, p) \cup Ancestors(p) \cup {p} :
    Exists(t, x) => t[x].t # "link"

TreeFits(t, p, q) ==
  IF IsDir(t, p) THEN Creatable(t, q) /\ ~Exists(t, q) ELSE FileFits(t, q)

WellFormed(t, r) ==
  /\ r.op \notin {"rm", "mv"} => NoLinks(t, r.p)
  /\ CASE r.op = "mkdir" -> Creatable(t, r.p) /\ (Exists(t, r.p) => IsDir(t, r.p))
       [] r.op \in {"write", "append", "symlink"} -> FileFits(t, r.p)
       [] r.op = "rm" -> r.o.rec \/ Inside(t, r.p) = {}
       [] r.op \in {"cp", "mv"} -> /\ TreeFits(t, r.p, r.q)
                                   /\ ~Under(r.p, r.q)
                                   /\ NoLinks(t, r.p) /\ NoLinks(t, r.q)
       [] r.op = "link" -> FileFits(t, r.q) /\ NoLinks(t, r.q)
       [] OTHER -> TRUE

-----------------------------------------------------------------------------
(* The operations.                                                         *)

WithDirs(t, p) == WithNew(t, Ancestors(p))

Create(t, p, n) == Set(WithDirs(t, p), p, n)

Minus(t, p) == [x \in {y \in DOMAIN t : ~Under(y, p)} |-> t[x]]

Copy(t, p, q) ==
  LET copies == {Moved(y, p, q) : y \in Inside(t, p) \cup {p}}
  IN WithDirs([x \in copies \cup DOMAIN t |->
                 IF x \in copies THEN t[Moved(x, q, p)] ELSE t[x]], q)

(* How a request ends; unread says which files cannot be read.             *)
Outcome(r, t, unread) ==
  LET there == Exists(t, r.p) IN
  CASE r.op \in {"write", "append"} -> "ok"
    [] r.op = "mkdir" /\ there -> IF r.o.rec THEN "ok" ELSE "EEXIST"
    [] r.op = "mkdir" /\ ~there ->
         IF r.o.rec \/ Exists(t, Parent(r.p)) THEN "ok" ELSE "ENOENT"
    [] r.op = "symlink" -> IF there THEN "EEXIST" ELSE "ok"
    [] r.op = "rm" -> IF there \/ r.o.force THEN "ok" ELSE "ENOENT"
    [] r.op \in {"cp", "mv", "link", "chmod", "utimes"} /\ ~there -> "ENOENT"
    [] r.op = "cp" /\ there /\ IsDir(t, r.p) /\ ~r.o.rec -> "EISDIR"
    [] r.op = "link" /\ there /\ IsDir(t, r.p) -> "EPERM"
    [] r.op = "link" /\ there /\ ~IsDir(t, r.p) /\ Exists(t, r.q) -> "EEXIST"
    [] OTHER -> IF \E x \in unread \cap DOMAIN t :
                     x = r.p \/ (r.op \in {"cp", "mv"} /\ Under(x, r.p))
                THEN "EFBIG" ELSE "ok"

(* The tree a request that ends well leaves.                               *)
Effect(r, t, id) ==
  CASE r.op = "mkdir" -> IF Exists(t, r.p) THEN t ELSE Create(t, r.p, Dir("default"))
    [] r.op = "write" -> Create(t, r.p, File(<<id>>, "default"))
    [] r.op = "append" ->
         Create(t, r.p, File(Append(IF IsFile(t, r.p) THEN t[r.p].c ELSE <<>>, id),
                             "default"))
    [] r.op = "symlink" -> Create(t, r.p, Link(r.q))
    [] r.op = "rm" -> Minus(t, r.p)
    [] r.op = "cp" -> Copy(t, r.p, r.q)
    [] r.op = "mv" -> Minus(Copy(t, r.p, r.q), r.p)
    [] r.op = "link" -> Create(t, r.q, t[r.p])
    [] OTHER -> t

(* The paths a request may change: those it names, what is below them when *)
(* the operation descends, and missing parents of what it creates.         *)
Footprint(r, p) ==
  \/ p \in {r.p} \cup Ancestors(r.p) /\ r.op \in {"mkdir", "write", "append", "symlink"}
  \/ p \in {r.q} \cup Ancestors(r.q) /\ r.op \in {"link", "cp", "mv"}
  \/ Under(p, r.p) /\ r.op \in {"rm", "mv"}
  \/ Under(p, r.q) /\ r.op \in {"cp", "mv"}
  \/ p = r.p /\ r.op \in {"chmod", "utimes"}

=============================================================================
