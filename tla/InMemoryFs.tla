----------------------------- MODULE InMemoryFs -----------------------------
(***************************************************************************)
(* The in-memory file system of src/src/fs/in-memory-fs/in-memory-fs.ts:   *)
(* one map from paths to entries per instance (Stores).  Its operations    *)
(* await nothing but each other, so all but rm, cp and mv, which recurse,  *)
(* are one step.  The first step of an invocation (pc "start") is what it  *)
(* does when it is called.                                                 *)
(***************************************************************************)
EXTENDS FsCalls

CONSTANT Stores   \* the instances

VARIABLE data     \* this.data of each instance

-----------------------------------------------------------------------------
(* Links.  A path is resolved name by name; a link met on the way replaces *)
(* what was resolved so far, and a path met twice is a loop.               *)

IsLink(t, p) == p \in DOMAIN t /\ t[p].t = "link"

Follow(t, p, seen) ==
  LET f[x \in Seq(STRING), s \in SUBSET Seq(STRING)] ==
        IF ~IsLink(t, x) THEN [ok |-> TRUE, at |-> x, seen |-> s]
        ELSE IF x \in s THEN [ok |-> FALSE, at |-> x, seen |-> s]
        ELSE f[t[x].to, s \cup {x}]
  IN f[p, seen]

(* The path p itself where there is no link at it.                         *)
Chase(t, p, seen) ==
  IF IsLink(t, p) THEN Follow(t, p, seen) ELSE [ok |-> TRUE, at |-> p, seen |-> seen]

(* resolvePathWithSymlinks.                                                *)
Resolve(t, p) ==
  LET upto[n \in 0..Len(p)] ==
        IF n = 0 THEN [ok |-> TRUE, at |-> Root, seen |-> {}]
        ELSE LET r == upto[n - 1]
             IN IF r.ok THEN Chase(t, Child(r.at, p[n]), r.seen) ELSE r
  IN upto[Len(p)]

Look(t, p) == IF p \in DOMAIN t THEN t[p] ELSE Err("ENOENT")

MemExists(t, p) == LET r == Resolve(t, p) IN r.ok /\ r.at \in DOMAIN t

MemStat(t, p) == LET r == Resolve(t, p) IN IF r.ok THEN Look(t, r.at) ELSE Err("ELOOP")

(* lstat resolves the links of the directories on the way only.            *)
MemLstat(t, p) ==
  IF p = Root THEN Look(t, p)
  ELSE LET r == Resolve(t, Parent(p))
       IN IF r.ok THEN Look(t, Child(r.at, Last(p))) ELSE Err("ELOOP")

MemRead(t, p) ==
  LET n == MemStat(t, p) IN IF n.t = "dir" THEN Err("EISDIR") ELSE n

MemReadlink(t, p) ==
  LET n == Look(t, p) IN IF n.t \in {"file", "dir"} THEN Err("EINVAL") ELSE n

(* readdir follows the links of its last name only.                        *)
MemReaddir(t, p) ==
  LET r == Chase(t, p, {})
      n == IF r.ok THEN Look(t, r.at) ELSE Err("ELOOP")
  IN CASE n.t = "err" -> [e |-> n.e, kids |-> <<>>]
       [] n.t = "file" -> [e |-> "ENOTDIR", kids |-> <<>>]
       [] OTHER -> [e |-> "ok",
                    kids |-> Sorted({k \in Names : Child(r.at, k) \in DOMAIN t})]

MemRealpath(t, p) ==
  LET r == Resolve(t, p)
  IN [ok |-> r.ok /\ r.at \in DOMAIN t, at |-> r.at]

-----------------------------------------------------------------------------
(* The synchronous operations: the entries they leave and how they end.    *)

(* The directories ensureParentDirs makes: it climbs from the parent of p  *)
(* until it meets an entry, of whatever kind.                              *)
Missing(t, p) ==
  {d \in Ancestors(p) : \A e \in Ancestors(p) : Under(e, d) => e \notin DOMAIN t}

MemPut(t, p, n) == Set(WithNew(t, Missing(t, p)), p, n)

Done(t, out) == [t |-> t, out |-> out]

MemMkdir(t, p, rec) ==
  CASE p \in DOMAIN t /\ (t[p].t = "file" \/ ~rec) -> Done(t, "EEXIST")
    [] p \in DOMAIN t /\ t[p].t # "file" /\ rec -> Done(t, "ok")
    [] p \notin DOMAIN t /\ ~rec /\ Parent(p) # Root /\ Parent(p) \notin DOMAIN t ->
         Done(t, "ENOENT")
    [] OTHER -> Done(MemPut(t, p, Dir("default")), "ok")

MemAppend(t, p, id) ==
  LET n == Look(t, p) IN
  CASE n.t = "dir" -> Done(t, "EISDIR")
    [] n.t = "file" -> Done(Set(t, p, [n EXCEPT !.c = Append(@, id)]), "ok")
    [] OTHER -> Done(MemPut(t, p, File(<<id>>, "default")), "ok")

MemChmod(t, p, m) ==
  IF p \in DOMAIN t THEN Done([t EXCEPT ![p].m = m], "ok") ELSE Done(t, "ENOENT")

MemSymlink(t, p, to) ==
  IF p \in DOMAIN t THEN Done(t, "EEXIST") ELSE Done(MemPut(t, p, Link(to)), "ok")

MemLink(t, p, q) ==
  LET n == Look(t, p) IN
  CASE n.t = "err" -> Done(t, "ENOENT")
    [] n.t \in {"dir", "link"} -> Done(t, "EPERM")
    [] n.t = "file" /\ q \in DOMAIN t -> Done(t, "EEXIST")
    [] OTHER -> Done(MemPut(t, q, n), "ok")

MemSync(t, r, id) ==
  CASE r.op = "write" -> Done(MemPut(t, r.p, File(<<id>>, "default")), "ok")
    [] r.op = "append" -> MemAppend(t, r.p, id)
    [] r.op = "mkdir" -> MemMkdir(t, r.p, r.o.rec)
    [] r.op = "chmod" -> MemChmod(t, r.p, "changed")
    [] r.op = "utimes" -> Done(t, IF MemExists(t, r.p) THEN "ok" ELSE "ENOENT")
    [] r.op = "symlink" -> MemSymlink(t, r.p, r.q)
    [] r.op = "link" -> MemLink(t, r.p, r.q)

SyncOps == {"write", "append", "mkdir", "chmod", "utimes", "symlink", "link"}

-----------------------------------------------------------------------------
(* The steps of an invocation on an instance.                              *)

InStore(c, op, pc) == Busy(c) /\ Top(c).fs \in Stores /\ Top(c).op = op /\ Top(c).pc = pc

Entries(c) == data[Top(c).fs]

Becomes(c, t) == data' = [data EXCEPT ![Top(c).fs] = t]

Enter(fs, r) == <<Frame(fs, r, "start")>>

Sync(c, op) ==
  /\ InStore(c, op, "start")
  /\ LET end == MemSync(Entries(c), Top(c), calls[c].id)
     IN Becomes(c, end.t) /\ Return(c, end.out)

RmStart(c) ==
  /\ InStore(c, "rm", "start")
  /\ LET f == Top(c)
         n == Look(Entries(c), f.p)
     IN
     \/ /\ n.t = "err"
        /\ Return(c, IF f.o.force THEN "ok" ELSE "ENOENT") /\ UNCHANGED data
     \/ /\ n.t \in {"file", "link"}
        /\ Becomes(c, Without(Entries(c), f.p)) /\ Return(c, "ok")
     \/ /\ n.t = "dir"
        /\ Await(c, [f EXCEPT !.pc = "list", !.kids = MemReaddir(Entries(c), f.p).kids])
        /\ UNCHANGED data

RmList(c) ==
  /\ InStore(c, "rm", "list")
  /\ LET f == Top(c) IN
     \/ /\ f.ret # "ok"
        /\ Return(c, f.ret) /\ UNCHANGED data
     \/ /\ f.ret = "ok" /\ f.kids = <<>>
        /\ Becomes(c, Without(Entries(c), f.p)) /\ Return(c, "ok")
     \/ /\ f.ret = "ok" /\ f.kids # <<>> /\ ~f.o.rec
        /\ Return(c, "ENOTEMPTY") /\ UNCHANGED data
     \/ /\ f.ret = "ok" /\ f.kids # <<>> /\ f.o.rec
        /\ Invoke(c, [f EXCEPT !.kids = Tail(@)],
                  Enter(f.fs, Req("rm", Child(f.p, Head(f.kids)), Root, f.o)))
        /\ UNCHANGED data

(* A link is neither a file nor a directory to cp: nothing is copied.      *)
CpStart(c) ==
  /\ InStore(c, "cp", "start")
  /\ LET f == Top(c)
         n == Look(Entries(c), f.p)
         made_dir == MemMkdir(Entries(c), f.q, TRUE)
     IN
     \/ /\ n.t = "err"
        /\ Return(c, "ENOENT") /\ UNCHANGED data
     \/ /\ n.t = "file"
        /\ Becomes(c, MemPut(Entries(c), f.q, n)) /\ Return(c, "ok")
     \/ /\ n.t = "link"
        /\ Return(c, "ok") /\ UNCHANGED data
     \/ /\ n.t = "dir" /\ ~f.o.rec
        /\ Return(c, "EISDIR") /\ UNCHANGED data
     \/ /\ n.t = "dir" /\ f.o.rec
        /\ Becomes(c, made_dir.t)
        /\ IF made_dir.out = "ok" THEN Await(c, [f EXCEPT !.pc = "mkdir"])
           ELSE Return(c, made_dir.out)

CpMkdir(c) ==
  /\ InStore(c, "cp", "mkdir")
  /\ LET f == Top(c)
         list == MemReaddir(Entries(c), f.p)
     IN IF list.e = "ok" THEN Await(c, [f EXCEPT !.pc = "list", !.kids = list.kids])
        ELSE Return(c, list.e)
  /\ UNCHANGED data

CpList(c) ==
  /\ InStore(c, "cp", "list")
  /\ LET f == Top(c) IN
     \/ /\ f.ret # "ok" \/ f.kids = <<>>
        /\ Return(c, f.ret)
     \/ /\ f.ret = "ok" /\ f.kids # <<>>
        /\ Invoke(c, [f EXCEPT !.kids = Tail(@)],
                  Enter(f.fs, Req("cp", Child(f.p, Head(f.kids)), Child(f.q, Head(f.kids)), f.o)))
  /\ UNCHANGED data

MvStart(c) ==
  /\ InStore(c, "mv", "start")
  /\ LET f == Top(c)
     IN Invoke(c, [f EXCEPT !.pc = "cp"], Enter(f.fs, Req("cp", f.p, f.q, Recursive)))
  /\ UNCHANGED data

MvCopied(c) ==
  /\ InStore(c, "mv", "cp")
  /\ LET f == Top(c) IN
     \/ /\ f.ret # "ok"
        /\ Return(c, f.ret)
     \/ /\ f.ret = "ok"
        /\ Invoke(c, [f EXCEPT !.pc = "rm"], Enter(f.fs, Req("rm", f.p, Root, Recursive)))
  /\ UNCHANGED data

MvRemoved(c) ==
  /\ InStore(c, "mv", "rm")
  /\ Return(c, Top(c).ret)
  /\ UNCHANGED data

StoreStep(c) ==
  /\ Busy(c) /\ Top(c).fs \in Stores
  /\ \/ \E op \in SyncOps : Sync(c, op)
     \/ RmStart(c) \/ RmList(c)
     \/ CpStart(c) \/ CpMkdir(c) \/ CpList(c)
     \/ MvStart(c) \/ MvCopied(c) \/ MvRemoved(c)

=============================================================================
