----------------------------- MODULE OverlayFs -----------------------------
(***************************************************************************)
(* The copy-on-write file system of src/src/fs/overlay-fs/overlay-fs.ts:   *)
(* a host tree that is only read (Lower), the entries written so far       *)
(* (memory) and the paths removed so far (deleted).                        *)
(*                                                                         *)
(* Every operation is an async method.  What it does between two awaits is *)
(* one step here, and the steps of the calls of two callers (two commands  *)
(* of one shell, or two exec calls of the host) interleave.  The host tree *)
(* never changes, so the answer of a query (exists, stat, readFileBuffer,  *)
(* readdir) is fixed when it is asked: it is computed in the step that     *)
(* asks and used, possibly stale, in the next one.                         *)
(***************************************************************************)
EXTENDS FsCalls

CONSTANTS
  Lower,       \* the host tree: path -> entry (directories and files)
  Huge         \* host files larger than maxFileReadSize

ASSUME LowerIsTree ==
  \A p \in DOMAIN Lower :
    /\ p \in Seq(Names)
    /\ Lower[p] \in Entry(Nat, {})
    /\ \A d \in Ancestors(p) : d \in DOMAIN Lower /\ Lower[d].t = "dir"

(* What is written or copied has a content that can be told from that of a *)
(* file too large to read: the latter holds something no call writes and   *)
(* no readable host file holds.                                            *)
ASSUME HugeIsOwn ==
  \A p \in Huge :
    /\ p \in DOMAIN Lower /\ Lower[p].t = "file"
    /\ \E w \in ToSet(Lower[p].c) :
         /\ w \notin 1..MaxCalls
         /\ \A x \in DOMAIN Lower \ Huge : Lower[x].t = "file" => w \notin ToSet(Lower[x].c)

VARIABLES
  memory,   \* this.memory
  deleted   \* this.deleted

vars == <<memory, deleted, calls, made, calm>>

-----------------------------------------------------------------------------
(* What the tree looks like from outside.                                  *)

Visible(p) ==
  /\ p \notin deleted
  /\ p \in DOMAIN memory \cup DOMAIN Lower

EntryAt(p) == IF p \in DOMAIN memory THEN memory[p] ELSE Lower[p]

Lstat(p) == IF Visible(p) THEN EntryAt(p) ELSE Err("ENOENT")

(* Where the links of the memory layer lead from p: the code follows the   *)
(* last name only, and stops at a path it has seen.                        *)
Final[p \in Seq(STRING), seen \in SUBSET Seq(STRING)] ==
  IF p \in seen \/ Lstat(p).t # "link" THEN p
  ELSE Final[Lstat(p).to, seen \cup {p}]

FinalOf(p) == IF Lstat(p).t = "link" THEN Final[p, {}] ELSE p

Stat(p) ==
  LET n == Lstat(FinalOf(p))
  IN IF n.t = "link" THEN Err("ELOOP") ELSE n

Read(p) ==
  LET n == Stat(p)
      at == FinalOf(p)
  IN CASE n.t = "dir" -> Err("EISDIR")
       [] n.t = "file" /\ at \in Huge /\ at \notin DOMAIN memory -> Err("EFBIG")
       [] OTHER -> n

(* The names readdirCore collects for the directory d: the direct children *)
(* in memory, then those of the host directory, minus the deleted ones.    *)
ListAt(d) ==
  Sorted({k \in Names : /\ Child(d, k) \notin deleted
                         /\ Child(d, k) \in DOMAIN memory \cup DOMAIN Lower})

(* readdir of p: the resolved path decides (resolveForReaddir), and a path *)
(* that is neither in memory nor on the host is an error unless a link led *)
(* to it (then the listing is empty).                                      *)
Readdir(p) ==
  LET at == FinalOf(p)
  IN CASE at \in deleted -> [ok |-> FALSE, kids |-> <<>>]
       [] at \notin deleted /\ at \in DOMAIN memory \cup DOMAIN Lower ->
            [ok |-> TRUE, kids |-> ListAt(at)]
       [] OTHER -> [ok |-> at # p, kids |-> <<>>]

(* realpath resolves a path name by name; the host tree has no links.  A   *)
(* link in memory replaces what was resolved so far, a link met twice is a *)
(* loop.                                                                   *)
Resolved(e, p, seen) == [e |-> e, at |-> p, seen |-> seen]

Follow[p \in Seq(STRING), seen \in SUBSET Seq(STRING)] ==
  CASE p \in seen -> Resolved("ELOOP", p, seen)
    [] p \notin seen /\ ~Visible(p) -> Resolved("ENOENT", p, seen)
    [] p \notin seen /\ Visible(p) /\ EntryAt(p).t = "link" ->
         Follow[EntryAt(p).to, seen \cup {p}]
    [] OTHER -> Resolved("ok", p, seen)

Realpath(p) ==
  FoldLeft(LAMBDA r, k : IF r.e = "ok" THEN Follow[Child(r.at, k), r.seen] ELSE r,
           Resolved("ok", Root, {}), p)

(* scanRealFs does not descend into a deleted directory.                   *)
Scanned == {p \in DOMAIN Lower : (Ancestors(p) \cup {p}) \cap deleted = {}}

AllPaths == (DOMAIN memory \ deleted) \cup Scanned

Known == DOMAIN memory \cup DOMAIN Lower \cup Targets

Tree == [p \in {x \in Known : Visible(x)} |-> EntryAt(p)]

-----------------------------------------------------------------------------
(* Changes of the two layers.                                              *)

(* ensureParentDirs climbs from the parent of p until it meets a directory *)
(* in memory: what it climbs over.                                         *)
ParentChain(p) ==
  {d \in Ancestors(p) :
     \A e \in Ancestors(p) : Below(e, d) => e \notin DOMAIN memory}

WithParents(p) == WithNew(memory, ParentChain(p))

(* Mutant: the white-outs of the parents stay.                             *)
PutKeepsParentsDeleted(p, n) ==
  /\ memory' = Set(WithParents(p), p, n)
  /\ deleted' = deleted \ {p}

(* writeFile, and the end of appendFile, symlink and link.                 *)
Put(p, n) ==
  /\ memory' = Set(WithParents(p), p, n)
  /\ deleted' = deleted \ (ParentChain(p) \cup {p})

(* Mutant: a new directory brings back what was removed in the old one.    *)
MakeDirRevives(p) ==
  /\ memory' = Set(memory, p, Dir("default"))
  /\ deleted' = {x \in deleted : ~Under(x, p)}

MakeDir(p) ==
  /\ memory' = Set(memory, p, Dir("default"))
  /\ deleted' = deleted \ {p}

(* chmod and utimes of a host entry copy it up and leave deleted alone.    *)
CopyUp(p, n) ==
  /\ memory' = Set(memory, p, n)
  /\ UNCHANGED deleted

(* Mutant: an entry of the memory layer needs no white-out.                *)
MarkDeletedBelow(p) ==
  /\ deleted' = IF p \in DOMAIN memory THEN deleted ELSE deleted \cup {p}
  /\ memory' = Without(memory, p)

MarkDeleted(p) ==
  /\ deleted' = deleted \cup {p}
  /\ memory' = Without(memory, p)

-----------------------------------------------------------------------------
(* The frames an invocation starts with: each operation first asks whether *)
(* its path exists, but append reads it and mv starts its copy.            *)
Enter(r) ==
  LET copy == Req("cp", r.p, r.q, Recursive) IN
  CASE r.op = "append" -> <<[Frame("overlay", r, "read") EXCEPT !.res = Read(r.p)]>>
    [] r.op = "write" -> <<Frame("overlay", r, "written")>>
    [] r.op = "mv" ->
         <<[Frame("overlay", copy, "exists") EXCEPT !.has = Visible(r.p)],
           Frame("overlay", r, "cp")>>
    [] OTHER -> <<[Frame("overlay", r, "exists") EXCEPT !.has = Visible(r.p)]>>

(* The invocation of c is at the await pc of the operation op.             *)
Runs(c, op, pc) == At(c, "overlay", op, pc)

Throw(c, e) == Return(c, e) /\ UNCHANGED <<memory, deleted>>

(* The files of the tree t that cannot be read.                            *)
Unread(t) == {p \in Huge \cap DOMAIN t : t[p] = Lower[p]}

(* appendFile takes a file it cannot read for an empty one.                *)
Sensible(t, r) == WellFormed(t, r) /\ ~(r.op = "append" /\ r.p \in Unread(t))

Begin(c) ==
  /\ MayCall(c)
  /\ \E r \in Requests :
       /\ Call(c, r, Enter(r), Tree, Sensible(Tree, r))
       /\ IF r.op = "write" THEN Put(r.p, File(<<made'>>, "default"))
          ELSE UNCHANGED <<memory, deleted>>

Written(c) == Runs(c, "write", "written") /\ Throw(c, "ok")

AppendRead(c) ==
  /\ Runs(c, "append", "read")
  /\ LET f == Top(c)
         old == IF f.res.t = "file" THEN f.res.c ELSE <<>>
     IN Put(f.p, File(Append(old, calls[c].id), "default"))
  /\ Return(c, "ok")

MkdirExists(c) ==
  /\ Runs(c, "mkdir", "exists")
  /\ LET f == Top(c) IN
     \/ /\ f.has
        /\ Throw(c, IF f.o.rec THEN "ok" ELSE "EEXIST")
     \/ /\ ~f.has /\ Parent(f.p) = Root
        /\ MakeDir(f.p) /\ Return(c, "ok")
     \/ /\ ~f.has /\ Parent(f.p) # Root
        /\ Await(c, [f EXCEPT !.pc = "parent", !.has = Visible(Parent(f.p))])
        /\ UNCHANGED <<memory, deleted>>

MkdirParent(c) ==
  /\ Runs(c, "mkdir", "parent")
  /\ LET f == Top(c) IN
     \/ /\ f.has
        /\ MakeDir(f.p) /\ Return(c, "ok")
     \/ /\ ~f.has /\ ~f.o.rec
        /\ Throw(c, "ENOENT")
     \/ /\ ~f.has /\ f.o.rec
        /\ Invoke(c, [f EXCEPT !.pc = "made"], Enter(Req("mkdir", Parent(f.p), Root, f.o)))
        /\ UNCHANGED <<memory, deleted>>

MkdirMade(c) ==
  /\ Runs(c, "mkdir", "made")
  /\ MakeDir(Top(c).p)
  /\ Return(c, "ok")

RmExists(c) ==
  /\ Runs(c, "rm", "exists")
  /\ LET f == Top(c) IN
     \/ /\ ~f.has
        /\ Throw(c, IF f.o.force THEN "ok" ELSE "ENOENT")
     \/ /\ f.has
        /\ Await(c, [f EXCEPT !.pc = "stat", !.res = Stat(f.p)])
        /\ UNCHANGED <<memory, deleted>>

(* The end of rm: also where an error inside its try statement leads.      *)
RmMark(c) == MarkDeleted(Top(c).p) /\ Return(c, "ok")

RmStat(c) ==
  /\ Runs(c, "rm", "stat")
  /\ LET f == Top(c)
         list == Readdir(f.p)
     IN
     \/ /\ f.res.t # "dir" \/ ~list.ok
        /\ RmMark(c)
     \/ /\ f.res.t = "dir" /\ list.ok
        /\ Await(c, [f EXCEPT !.pc = "list", !.res = None, !.kids = list.kids])
        /\ UNCHANGED <<memory, deleted>>

(* Mutant: a directory is marked and what is in it is left to its mark.     *)
RmListMarksTop(c) ==
  /\ Runs(c, "rm", "list")
  /\ RmMark(c)

RmList(c) ==
  /\ Runs(c, "rm", "list")
  /\ LET f == Top(c) IN
     \/ /\ f.kids = <<>> \/ ~f.o.rec \/ f.ret # "ok"
        /\ RmMark(c)
     \/ /\ f.kids # <<>> /\ f.o.rec /\ f.ret = "ok"
        /\ Invoke(c, [f EXCEPT !.kids = Tail(@)],
                  Enter(Req("rm", Child(f.p, Head(f.kids)), Root, f.o)))
        /\ UNCHANGED <<memory, deleted>>

CpExists(c) ==
  /\ Runs(c, "cp", "exists")
  /\ LET f == Top(c) IN
     \/ /\ ~f.has
        /\ Throw(c, "ENOENT")
     \/ /\ f.has
        /\ Await(c, [f EXCEPT !.pc = "stat", !.res = Stat(f.p)])
        /\ UNCHANGED <<memory, deleted>>

CpStat(c) ==
  /\ Runs(c, "cp", "stat")
  /\ LET f == Top(c) IN
     \/ /\ f.res.t = "err"
        /\ Throw(c, f.res.e)
     \/ /\ f.res.t = "file"
        /\ Await(c, [f EXCEPT !.pc = "read", !.res = Read(f.p)])
        /\ UNCHANGED <<memory, deleted>>
     \/ /\ f.res.t = "dir" /\ ~f.o.rec
        /\ Throw(c, "EISDIR")
     \/ /\ f.res.t = "dir" /\ f.o.rec
        /\ Invoke(c, [f EXCEPT !.pc = "mkdir", !.res = None], Enter(Req("mkdir", f.q, Root, f.o)))
        /\ UNCHANGED <<memory, deleted>>

CpRead(c) ==
  /\ Runs(c, "cp", "read")
  /\ LET f == Top(c) IN
     \/ /\ f.res.t # "file"
        /\ Throw(c, f.res.e)
     \/ /\ f.res.t = "file"
        /\ Put(f.q, File(f.res.c, "default"))
        /\ Return(c, "ok")

CpMkdir(c) ==
  /\ Runs(c, "cp", "mkdir")
  /\ LET f == Top(c)
         list == Readdir(f.p)
     IN
     \/ /\ ~list.ok
        /\ Throw(c, "ENOENT")
     \/ /\ list.ok
        /\ Await(c, [f EXCEPT !.pc = "list", !.res = None, !.kids = list.kids])
        /\ UNCHANGED <<memory, deleted>>

CpList(c) ==
  /\ Runs(c, "cp", "list")
  /\ LET f == Top(c) IN
     \/ /\ f.ret # "ok"
        /\ Throw(c, f.ret)
     \/ /\ f.ret = "ok" /\ f.kids = <<>>
        /\ Throw(c, "ok")
     \/ /\ f.ret = "ok" /\ f.kids # <<>>
        /\ Invoke(c, [f EXCEPT !.kids = Tail(@)],
                  Enter(Req("cp", Child(f.p, Head(f.kids)), Child(f.q, Head(f.kids)), f.o)))
        /\ UNCHANGED <<memory, deleted>>

(* Mutant: the source is removed even if the copy failed.                  *)
MvCopiedOrNot(c) ==
  /\ Runs(c, "mv", "cp")
  /\ Invoke(c, [Top(c) EXCEPT !.pc = "rm"], Enter(Req("rm", Top(c).p, Root, Recursive)))
  /\ UNCHANGED <<memory, deleted>>

MvCopied(c) ==
  /\ Runs(c, "mv", "cp")
  /\ LET f == Top(c) IN
     \/ /\ f.ret # "ok"
        /\ Throw(c, f.ret)
     \/ /\ f.ret = "ok"
        /\ Invoke(c, [f EXCEPT !.pc = "rm"],
                  Enter(Req("rm", f.p, Root, Recursive)))
        /\ UNCHANGED <<memory, deleted>>

MvRemoved(c) == Runs(c, "mv", "rm") /\ Throw(c, Top(c).ret)

(* chmod and utimes differ in what they set.                               *)
Touched(op, m) == IF op = "chmod" THEN "changed" ELSE m

AttrExists(c, op) ==
  /\ Runs(c, op, "exists")
  /\ LET f == Top(c) IN
     \/ /\ ~f.has
        /\ Throw(c, "ENOENT")
     \/ /\ f.has /\ f.p \in DOMAIN memory
        /\ memory' = [memory EXCEPT ![f.p].m = Touched(op, @)]
        /\ UNCHANGED deleted
        /\ Return(c, "ok")
     \/ /\ f.has /\ f.p \notin DOMAIN memory
        /\ Await(c, [f EXCEPT !.pc = "stat", !.res = Stat(f.p)])
        /\ UNCHANGED <<memory, deleted>>

AttrStat(c, op) ==
  /\ Runs(c, op, "stat")
  /\ LET f == Top(c) IN
     \/ /\ f.res.t = "err"
        /\ Throw(c, f.res.e)
     \/ /\ f.res.t = "file"
        /\ Await(c, [f EXCEPT !.pc = "read", !.kids = <<f.res.m>>, !.res = Read(f.p)])
        /\ UNCHANGED <<memory, deleted>>
     \/ /\ f.res.t = "dir"
        /\ CopyUp(f.p, Dir(Touched(op, f.res.m)))
        /\ Return(c, "ok")

(* Mutant: what the read of a host file answers is copied up unseen.       *)
AttrReadUnchecked(c, op) ==
  /\ Runs(c, op, "read")
  /\ CopyUp(Top(c).p, Top(c).res)
  /\ Return(c, "ok")

AttrRead(c, op) ==
  /\ Runs(c, op, "read")
  /\ LET f == Top(c) IN
     \/ /\ f.res.t # "file"
        /\ Throw(c, f.res.e)
     \/ /\ f.res.t = "file"
        /\ CopyUp(f.p, File(f.res.c, Touched(op, f.kids[1])))
        /\ Return(c, "ok")

SymlinkExists(c) ==
  /\ Runs(c, "symlink", "exists")
  /\ LET f == Top(c) IN
     \/ /\ f.has
        /\ Throw(c, "EEXIST")
     \/ /\ ~f.has
        /\ Put(f.p, Link(f.q)) /\ Return(c, "ok")

LinkExists(c) ==
  /\ Runs(c, "link", "exists")
  /\ LET f == Top(c) IN
     \/ /\ ~f.has
        /\ Throw(c, "ENOENT")
     \/ /\ f.has
        /\ Await(c, [f EXCEPT !.pc = "stat", !.res = Stat(f.p)])
        /\ UNCHANGED <<memory, deleted>>

LinkStat(c) ==
  /\ Runs(c, "link", "stat")
  /\ LET f == Top(c) IN
     \/ /\ f.res.t = "err"
        /\ Throw(c, f.res.e)
     \/ /\ f.res.t = "dir"
        /\ Throw(c, "EPERM")
     \/ /\ f.res.t = "file"
        /\ Await(c, [f EXCEPT !.pc = "new", !.kids = <<f.res.m>>, !.has = Visible(f.q)])
        /\ UNCHANGED <<memory, deleted>>

LinkNew(c) ==
  /\ Runs(c, "link", "new")
  /\ LET f == Top(c) IN
     \/ /\ f.has
        /\ Throw(c, "EEXIST")
     \/ /\ ~f.has
        /\ Await(c, [f EXCEPT !.pc = "read", !.res = Read(f.p)])
        /\ UNCHANGED <<memory, deleted>>

LinkRead(c) ==
  /\ Runs(c, "link", "read")
  /\ LET f == Top(c) IN
     \/ /\ f.res.t # "file"
        /\ Throw(c, f.res.e)
     \/ /\ f.res.t = "file"
        /\ Put(f.q, File(f.res.c, f.kids[1])) /\ Return(c, "ok")

-----------------------------------------------------------------------------

Step(c) ==
  \/ Written(c) \/ AppendRead(c)
  \/ MkdirExists(c) \/ MkdirParent(c) \/ MkdirMade(c)
  \/ RmExists(c) \/ RmStat(c) \/ RmList(c)
  \/ CpExists(c) \/ CpStat(c) \/ CpRead(c) \/ CpMkdir(c) \/ CpList(c)
  \/ MvCopied(c) \/ MvRemoved(c)
  \/ \E op \in {"chmod", "utimes"} :
       AttrExists(c, op) \/ AttrStat(c, op) \/ AttrRead(c, op)
  \/ SymlinkExists(c)
  \/ LinkExists(c) \/ LinkStat(c) \/ LinkNew(c) \/ LinkRead(c)

Init ==
  /\ InitCalls
  /\ memory = [p \in {Root} |-> Dir("default")]
  /\ deleted = {}

Finished == made = MaxCalls /\ Quiet /\ UNCHANGED vars

Next ==
  \/ \E c \in Callers : Begin(c) \/ (Step(c) /\ UNCHANGED <<made, calm>>)
  \/ Finished

Spec == Init /\ [][Next]_vars

-----------------------------------------------------------------------------
(* Properties.                                                             *)

Contents == (1..made) \cup UNION {ToSet(n.c) : n \in {m \in Range(Lower) : m.t = "file"}}

(* Type invariant: entries, white-outs and frames have the shapes the code *)
(* gives them.                                                             *)
TypeOK ==
  /\ CallsOK
  /\ Range(memory) \subseteq Entry(Contents, LinkTargets)
  /\ Root \in DOMAIN memory /\ Root \notin deleted
  /\ deleted \subseteq Seq(Names)

(* As long as calls do not overlap and make sense, each one ends the way   *)
(* the interface says and leaves the tree the interface says, whatever was *)
(* removed, recreated, moved or copied up before: the two layers and the   *)
(* white-outs never show.  A call that fails leaves the tree as it was     *)
(* (but for the part of a copy made before a file that cannot be read, and *)
(* then the source is untouched).                                          *)
KeepsContract ==
  [][\A c \in Callers : Ends(c) /\ calm =>
       LET r == calls[c].req
           t == calls[c].before
           out == calls'[c].out
       IN /\ out = Outcome(r, t, Unread(t))
          /\ out = "ok" => Plain(Tree') = Plain(Effect(r, t, calls[c].id))
          /\ out \notin {"ok", "EFBIG"} => Tree' = t
          /\ out = "EFBIG" =>
               \A p \in DOMAIN t : Under(p, r.p) => p \in DOMAIN Tree' /\ Tree'[p] = t[p]
    ]_vars

(* A move copies everything before it removes anything: at each moment the *)
(* content of each file that is being moved can be read at its old path or *)
(* at its new one.                                                         *)
MoveKeepsContent ==
  \A c \in Callers : Busy(c) /\ calls[c].req.op = "mv" /\ calm =>
    LET r == calls[c].req
        t == calls[c].before
    IN \A p \in DOMAIN t : Under(p, r.p) /\ t[p].t = "file" =>
         \E x \in {p, Moved(p, r.p, r.q)} :
           x \in DOMAIN Tree /\ Tree[x].t = "file" /\ Tree[x].c = t[p].c

(* Whatever overlaps, the steps of a call change only what its operands    *)
(* name: no removed entry comes back, and no entry goes or changes, but    *)
(* where a running call may create, remove or change it.                   *)
StaysInFootprint ==
  [][\A c \in Callers : calls'[c] # calls[c] /\ <<memory, deleted>>' # <<memory, deleted>> =>
       LET r == IF Busy(c) THEN calls[c].req ELSE calls'[c].req
       IN \A p \in Known \cup Known' : Lstat(p)' # Lstat(p) => Footprint(r, p)
    ]_vars

(* While calls do not overlap, an entry is visible only below directories  *)
(* that are: removing a directory leaves nothing behind that a later mkdir *)
(* or write would bring back.                                              *)
NothingHidden == calm => IsTree(Tree)

(* The queries describe one tree, with the host directory, the memory      *)
(* layer and the white-outs disagreeing.  While calls do not overlap,      *)
(* readdir finds what getAllPaths finds, directory by directory, though    *)
(* the one looks at the marks of the names it lists and the other at those *)
(* of the directories it walks through (a link lists the names of another  *)
(* directory).                                                             *)
ListingsAgree ==
  calm =>
    LET all == AllPaths IN
    \A p \in Known \ {Root} : Lstat(Parent(p)).t # "link" =>
      LET list == Readdir(Parent(p))
      IN p \in all <=> (list.ok /\ Last(p) \in ToSet(list.kids))

(* And getAllPaths finds all of the tree, which is what exists says is     *)
(* there, and nothing else.                                                *)
PathsAgree == calm => AllPaths = DOMAIN Tree

(* While calls do not overlap, a path can be resolved by realpath exactly  *)
(* if stat finds something, the same as at the real path (stat follows no  *)
(* link of a directory on the way, so none is named).                      *)
RealpathsAgree ==
  calm =>
    LET tree == Tree IN
    \A p \in Known : (\A d \in Ancestors(p) : Lstat(d).t # "link") =>
      LET r == Realpath(p)
      IN /\ (r.e = "ok") <=> (Stat(p).t # "err")
         /\ r.e = "ok" => tree[r.at] = Stat(p)

(* All queries agree with each other, in these three ways.                 *)
QueriesAgree == ListingsAgree /\ PathsAgree /\ RealpathsAgree

=============================================================================
