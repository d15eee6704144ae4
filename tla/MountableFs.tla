---------------------------- MODULE MountableFs ----------------------------
(***************************************************************************)
(* The unified name space of src/src/fs/mountable-fs/mountable-fs.ts: a    *)
(* base file system and others mounted at paths of it.  Each operation is  *)
(* routed by its path when it is called; copies and moves between two file *)
(* systems are made of the operations of this one.  The host may mount and *)
(* unmount at any time, also between two steps of a call.                  *)
(***************************************************************************)
EXTENDS InMemoryFs

CONSTANTS
  Base,         \* the base file system
  MountPoints,  \* paths the host mounts at
  Initial,      \* the entries of each store when it is created
  Mounted,      \* the mounts given to the constructor
  MaxRemounts,  \* bound: later calls of mount and unmount
  MaxBeside     \* bound: calls in progress during and after those

(* A new file system holds its root and hangs entries at paths of names;   *)
(* validateMount lets nothing be mounted at the root or inside a mount.    *)
ASSUME MountAssumption ==
  /\ Base \in Stores /\ "mount" \notin Stores
  /\ MaxRemounts \in Nat /\ MaxBeside \in Nat
  /\ MountPoints \subseteq Seq(Names) \ {Root}
  /\ DOMAIN Initial = Stores
  /\ \A s \in Stores : Root \in DOMAIN Initial[s] /\ DOMAIN Initial[s] \subseteq Seq(Names)
  /\ \A s \in Stores : \A p \in DOMAIN Initial[s] : Initial[s][p] \in Entry(Nat, Seq(Names))

ASSUME MountedAssumption ==
  /\ DOMAIN Mounted \subseteq Seq(Names) \ {Root}
  /\ \A mp \in DOMAIN Mounted : Mounted[mp] \in Stores \ {Base}
  /\ \A mp, other \in DOMAIN Mounted :
       (Mounted[mp] = Mounted[other] => mp = other) /\ ~Below(mp, other)

VARIABLES
  mounts,    \* this.mounts: mount point -> store
  remounts   \* calls of mount and unmount so far

vars == <<data, calls, made, calm, mounts, remounts>>

-----------------------------------------------------------------------------
(* Routing.                                                                *)

IsMount(p) == p \in DOMAIN mounts

(* The mounts below the directory d (getChildMountPoints, whole paths).    *)
MountsBelow(d) == {mp \in DOMAIN mounts : Below(mp, d)}

(* No two mounts are nested, so at most one contains p.                    *)
Route(p) ==
  LET over == {mp \in DOMAIN mounts : Under(p, mp)}
  IN IF over = {} THEN [fs |-> Base, p |-> p]
     ELSE LET mp == CHOOSE mp \in over : TRUE
          IN [fs |-> mounts[mp], p |-> Moved(p, mp, Root)]

(* Mutant: the operation goes to the base file system.                     *)
RoutedToBase(r) == Enter(Base, r)

Routed(r) ==
  LET path == Route(r.p)
      to == Route(r.q)
  IN Enter(path.fs, Req(r.op, path.p,
                        IF r.op \in {"cp", "mv", "link"} THEN to.p ELSE r.q, r.o))

SameStore(r) == Route(r.p).fs = Route(r.q).fs

Lstat(p) ==
  LET to == Route(p)
      n == MemLstat(data[to.fs], to.p)
  IN IF n.t = "err" /\ MountsBelow(p) # {} THEN Dir("default") ELSE n

Stat(p) ==
  LET to == Route(p)
      n == MemStat(data[to.fs], to.p)
  IN IF n.t = "err" /\ MountsBelow(p) # {} THEN Dir("default") ELSE n

ExistsNow(p) ==
  \/ IsMount(p) \/ MountsBelow(p) # {}
  \/ LET to == Route(p) IN MemExists(data[to.fs], to.p)

(* Mutant: the mounts below the directory are not listed.                  *)
ReaddirOfStore(d) == MemReaddir(data[Route(d).fs], Route(d).p)

(* readdir: the entries of the store and the mounts directly below; only a *)
(* missing directory is forgiven, when mounts make it one.                 *)
Readdir(d) ==
  LET to == Route(d)
      list == MemReaddir(data[to.fs], to.p)
      virtual == {mp[Len(d) + 1] : mp \in MountsBelow(d)}
  IN IF list.e \notin {"ok", "ENOENT"} \/ (list.e = "ENOENT" /\ virtual = {})
     THEN list
     ELSE [e |-> "ok",
           kids |-> Sorted(ToSet(list.kids) \cup virtual)]

-----------------------------------------------------------------------------
(* The tree seen from outside.                                             *)

Virtual == UNION {Ancestors(mp) : mp \in DOMAIN mounts}

Hidden(p) == \E mp \in DOMAIN mounts : Under(p, mp)

(* getAllPaths, which lists what the mounts hide as well.                  *)
AllPaths ==
  DOMAIN data[Base] \cup Virtual \cup DOMAIN mounts
    \cup UNION {{mp \o p : p \in DOMAIN data[mounts[mp]]} : mp \in DOMAIN mounts}

Known == {p \in AllPaths : Hidden(p) => Route(p).p \in DOMAIN data[Route(p).fs]}

(* realpath: the store of the path resolves its links.                     *)
Realpath(p) ==
  LET to == Route(p)
      r == MemRealpath(data[to.fs], to.p)
      mount == SubSeq(p, 1, Len(p) - Len(to.p))
  IN IF IsMount(p) THEN [ok |-> TRUE, at |-> p]
     ELSE [r EXCEPT !.at = mount \o @]

Entry1(p) ==
  LET to == Route(p)
      n == Look(data[to.fs], to.p)
  IN IF n.t = "err" THEN Dir("default") ELSE n

Tree == [p \in Known |-> Entry1(p)]

(* Requests the interface gives a meaning to here: a directory that is     *)
(* there only because of mounts is made or removed as a whole or not named *)
(* at all, mkdir makes nothing directly in one unless told to make parents *)
(* too, and a mount point or what contains one is not copied.              *)
OnlyVirtual(p) == p \notin DOMAIN data[Base] /\ p \in Virtual

Sensible(t, r) ==
  /\ WellFormed(t, r)
  /\ r.op \in {"cp", "mv"} => MountsBelow(r.p) = {} /\ ~IsMount(r.p)
  /\ OnlyVirtual(r.p) => r.op = "rm" \/ (r.op = "mkdir" /\ r.o.rec)
  /\ r.op = "mkdir" /\ ~r.o.rec => ~OnlyVirtual(Parent(r.p))

-----------------------------------------------------------------------------
(* Calls.                                                                  *)

(* Mutant: a hard link to another file system is passed on.                *)
SettledButLink(r) ==
  LET mount == IsMount(r.p)
      above == MountsBelow(r.p) # {}
  IN CASE r.op = "mkdir" /\ (mount \/ above) /\ r.o.rec -> "ok"
       [] r.op = "mkdir" /\ mount /\ ~r.o.rec -> "EEXIST"
       [] r.op = "rm" /\ (mount \/ above) -> "EBUSY"
       [] r.op = "mv" /\ mount -> "EBUSY"
       [] OTHER -> "no"

(* How an operation ends that is not passed on to a store.                 *)
Settled(r) ==
  LET mount == IsMount(r.p)
      above == MountsBelow(r.p) # {}
  IN CASE r.op = "mkdir" /\ (mount \/ above) /\ r.o.rec -> "ok"
       [] r.op = "mkdir" /\ mount /\ ~r.o.rec -> "EEXIST"
       [] r.op = "rm" /\ (mount \/ above) -> "EBUSY"
       [] r.op = "mv" /\ mount -> "EBUSY"
       [] r.op = "link" /\ ~SameStore(r) -> "EXDEV"
       [] OTHER -> "no"

(* A cross-mount copy starts by an lstat.                                  *)
Cross(r) == [Frame("mount", r, "lstat") EXCEPT !.res = Lstat(r.p)]

(* The frames of an operation when it is called: settled at once, between  *)
(* two stores (cp, mv), or an operation of the store its path is in.       *)
Pass(r) ==
  LET copy == Req("cp", r.p, r.q, Recursive) IN
  IF Settled(r) # "no"
  THEN <<[Frame("mount", r, "settled") EXCEPT !.ret = Settled(r)]>>
  ELSE CASE r.op = "cp" /\ ~SameStore(r) -> <<Cross(r)>>
         [] r.op = "mv" /\ ~SameStore(r) -> <<Cross(copy), Frame("mount", r, "cp")>>
         [] OTHER -> Routed(r)

(* Bound: no two copies overlap.  Two that copy into each other's source   *)
(* (cp /d /v/m/x and mv /v /d) go deeper and deeper and never end.         *)
Copying == \E c \in Callers : Busy(c) /\ calls[c].req.op \in {"cp", "mv"}

Running == {c \in Callers : Busy(c)}

Begin(c) ==
  /\ MayCall(c)
  /\ remounts > 0 => Cardinality(Running) < MaxBeside
  /\ LET t == Tree
     IN \E r \in Requests :
          /\ r.op \in {"cp", "mv"} => ~Copying
          /\ Call(c, r, Pass(r), t, Sensible(t, r))
  /\ UNCHANGED <<data, mounts, remounts>>

OnMount(c, op, pc) == At(c, "mount", op, pc)

MountSettled(c) ==
  /\ \E op \in {"mkdir", "rm", "mv", "link"} : OnMount(c, op, "settled")
  /\ Return(c, Top(c).ret)

MountMvCopied(c) ==
  /\ OnMount(c, "mv", "cp")
  /\ LET f == Top(c) IN
     \/ /\ f.ret # "ok"
        /\ Return(c, f.ret)
     \/ /\ f.ret = "ok"
        /\ Invoke(c, [f EXCEPT !.pc = "rm"],
                  Pass(Req("rm", f.p, Root, Recursive)))

MountMvRemoved(c) == OnMount(c, "mv", "rm") /\ Return(c, Top(c).ret)

ReadNow(p) == MemRead(data[Route(p).fs], Route(p).p)

(* The node a file is copied as: the content read now, the mode of lstat.  *)
WithMode(n, m) == IF n.t = "file" THEN [n EXCEPT !.m = m] ELSE n

CrossLstat(c) ==
  /\ OnMount(c, "cp", "lstat")
  /\ LET f == Top(c) IN
     \/ /\ f.res.t = "err"
        /\ Return(c, f.res.e)
     \/ /\ f.res.t = "file"
        /\ Await(c, [f EXCEPT !.pc = "read", !.res = WithMode(ReadNow(f.p), f.res.m)])
     \/ /\ f.res.t = "dir" /\ ~f.o.rec
        /\ Return(c, "EISDIR")
     \/ /\ f.res.t = "dir" /\ f.o.rec
        /\ Invoke(c, [f EXCEPT !.pc = "mkdir", !.res = None],
                  Pass(Req("mkdir", f.q, Root, Recursive)))
     \/ /\ f.res.t = "link"
        /\ Await(c, [f EXCEPT !.pc = "readlink",
                       !.res = MemReadlink(data[Route(f.p).fs], Route(f.p).p)])

(* Mutant: the new directory is listed instead of the old one.             *)
CrossMkdirListsNew(c) ==
  /\ OnMount(c, "cp", "mkdir")
  /\ Await(c, [Top(c) EXCEPT !.pc = "list", !.kids = Readdir(Top(c).q).kids])

CrossMkdir(c) ==
  /\ OnMount(c, "cp", "mkdir")
  /\ LET f == Top(c)
         list == Readdir(f.p)
     IN
     \/ /\ f.ret # "ok"
        /\ Return(c, f.ret)
     \/ /\ f.ret = "ok" /\ list.e # "ok"
        /\ Return(c, list.e)
     \/ /\ f.ret = "ok" /\ list.e = "ok"
        /\ Await(c, [f EXCEPT !.pc = "list", !.kids = list.kids])

CrossList(c) ==
  /\ OnMount(c, "cp", "list")
  /\ LET f == Top(c) IN
     \/ /\ f.ret # "ok" \/ f.kids = <<>>
        /\ Return(c, f.ret)
     \/ /\ f.ret = "ok" /\ f.kids # <<>>
        /\ Invoke(c, [f EXCEPT !.kids = Tail(@)],
                  <<Cross(Req("cp", Child(f.p, Head(f.kids)), Child(f.q, Head(f.kids)), f.o))>>)

(* Mutant: the copy ends up in the base file system.                       *)
InBase(q, end) == data' = [data EXCEPT ![Base] = end.t]

(* What a cross-mount copy does to the store of its destination.           *)
InRoute(q, end) == data' = [data EXCEPT ![Route(q).fs] = end.t]

CrossRead(c) ==
  /\ OnMount(c, "cp", "read")
  /\ LET f == Top(c)
         to == Route(f.q)
     IN
     \/ /\ f.res.t # "file"
        /\ Return(c, f.res.e) /\ UNCHANGED data
     \/ /\ f.res.t = "file"
        /\ InRoute(f.q, Done(MemPut(data[to.fs], to.p, File(f.res.c, "default")), "ok"))
        /\ Await(c, [f EXCEPT !.pc = "written"])

CrossWritten(c) ==
  /\ OnMount(c, "cp", "written")
  /\ LET f == Top(c)
         end == MemChmod(data[Route(f.q).fs], Route(f.q).p, f.res.m)
     IN InRoute(f.q, end) /\ Return(c, end.out)

CrossReadlink(c) ==
  /\ OnMount(c, "cp", "readlink")
  /\ LET f == Top(c)
         end == MemSymlink(data[Route(f.q).fs], Route(f.q).p, f.res.to)
     IN
     \/ /\ f.res.t # "link"
        /\ Return(c, f.res.e) /\ UNCHANGED data
     \/ /\ f.res.t = "link"
        /\ InRoute(f.q, end) /\ Return(c, end.out)

MountStep(c) ==
  /\ Busy(c) /\ Top(c).fs = "mount"
  /\ \/ /\ \/ MountSettled(c) \/ MountMvCopied(c) \/ MountMvRemoved(c)
           \/ CrossLstat(c) \/ CrossMkdir(c) \/ CrossList(c)
        /\ UNCHANGED data
     \/ CrossRead(c) \/ CrossWritten(c) \/ CrossReadlink(c)

-----------------------------------------------------------------------------
(* The host mounts and unmounts; it mounts a file system at one place, and *)
(* validateMount refuses nested mounts.                                    *)

(* Mutant: only mounts above the new one are refused.                      *)
MountOver(mp, s) ==
  /\ remounts < MaxRemounts /\ Cardinality(Running) <= MaxBeside
  /\ s \notin Range(mounts)
  /\ \A other \in DOMAIN mounts : ~Below(mp, other)
  /\ mounts' = Set(mounts, mp, s)
  /\ remounts' = remounts + 1
  /\ calm' = (calm /\ Quiet /\ Creatable(Tree, mp))
  /\ UNCHANGED <<data, calls, made>>

Mount(mp, s) ==
  /\ remounts < MaxRemounts /\ Cardinality(Running) <= MaxBeside
  /\ s \notin Range(mounts)
  /\ \A other \in DOMAIN mounts : ~Below(mp, other) /\ ~Below(other, mp)
  /\ mounts' = Set(mounts, mp, s)
  /\ remounts' = remounts + 1
  /\ calm' = (calm /\ Quiet /\ Creatable(Tree, mp))
  /\ UNCHANGED <<data, calls, made>>

Unmount(mp) ==
  /\ remounts < MaxRemounts /\ Cardinality(Running) <= MaxBeside
  /\ IsMount(mp)
  /\ mounts' = Without(mounts, mp)
  /\ remounts' = remounts + 1
  /\ calm' = (calm /\ Quiet)
  /\ UNCHANGED <<data, calls, made>>

Init ==
  /\ InitCalls
  /\ data = Initial
  /\ mounts = Mounted
  /\ remounts = 0

Finished == made = MaxCalls /\ Quiet /\ UNCHANGED vars

Next ==
  \/ \E c \in Callers : Begin(c)
  \/ \E c \in Callers : (StoreStep(c) \/ MountStep(c)) /\ UNCHANGED <<made, calm, mounts, remounts>>
  \/ \E mp \in MountPoints : Unmount(mp) \/ \E s \in Stores \ {Base} : Mount(mp, s)
  \/ Finished

Spec == Init /\ [][Next]_vars

-----------------------------------------------------------------------------
(* Properties.                                                             *)

(* Type invariant: entries, mounts and frames have the shapes the code     *)
(* gives them, and mounts are not nested.                                  *)
TypeOK ==
  /\ CallsOK
  /\ \A s \in Stores : Root \in DOMAIN data[s] /\ DOMAIN data[s] \subseteq Seq(Names)
  /\ DOMAIN mounts \subseteq MountPoints \cup DOMAIN Mounted
  /\ \A mp, other \in DOMAIN mounts : ~Below(mp, other)
  /\ remounts \in 0..MaxRemounts

(* What the routing refuses, besides what the interface says.              *)
Refused(r) ==
  CASE r.op = "rm" /\ (IsMount(r.p) \/ MountsBelow(r.p) # {}) -> "EBUSY"
    [] r.op = "mv" /\ IsMount(r.p) -> "EBUSY"
    [] r.op = "link" /\ ~SameStore(r) -> "EXDEV"
    [] OTHER -> "no"

(* As long as calls do not overlap, the host mounts nothing meanwhile and  *)
(* each request makes sense, a call ends the way the interface says and    *)
(* leaves the tree the interface says, across the boundaries of the file   *)
(* systems; a call that fails changes nothing.                             *)
KeepsContract ==
  [][\A c \in Callers : Ends(c) /\ calm =>
       LET r == calls[c].req
           t == calls[c].before
           out == calls'[c].out
       IN /\ out = IF Refused(r) = "no" THEN Outcome(r, t, {}) ELSE Refused(r)
          /\ Plain(Tree') = IF out = "ok" THEN Plain(Effect(r, t, calls[c].id)) ELSE Plain(t)
    ]_vars

(* A move copies everything before it removes anything, also between two   *)
(* file systems: at each moment the content of each file that is moved can *)
(* be read at its old path or at its new one.                              *)
MoveKeepsContent ==
  \A c \in Callers : Busy(c) /\ calls[c].req.op = "mv" /\ calm =>
    LET r == calls[c].req
        t == calls[c].before
    IN \A p \in DOMAIN t : Under(p, r.p) /\ t[p].t = "file" =>
         \E x \in {p, Moved(p, r.p, r.q)} :
           x \in Known /\ Tree[x].t = "file" /\ Tree[x].c = t[p].c

(* Whatever overlaps, as long as nothing was mounted or unmounted after    *)
(* the creation, the steps of a call change only what its operands name:   *)
(* a path is never resolved into another file system than its own.         *)
StaysInFootprint ==
  [][\A c \in Callers : remounts = 0 /\ calls'[c] # calls[c] /\ data' # data =>
       LET t == Tree
           u == Tree'
       IN \A p \in DOMAIN t \cup DOMAIN u :
            Look(u, p) # Look(t, p) => Footprint(calls[c].req, p)
    ]_vars

(* What the base file system holds below a mount point is out of reach     *)
(* while something is mounted there, and is there again after unmounting.  *)
MountsShield ==
  [][calm => \A p \in DOMAIN data[Base] \cup DOMAIN data'[Base] :
       data' # data /\ Hidden(p) => Look(data'[Base], p) = Look(data[Base], p)]_vars

(* The queries describe one tree: what readdir lists, what lstat finds and *)
(* what exists says agree on each directory, be it of the base, of a mount *)
(* or there because of mounts (where every entry hangs on a directory),    *)
(* and realpath finds what stat finds, but for directories that only       *)
(* mounts make and for links of the base to what a mount hides.            *)
QueriesAgree ==
  LET t == Tree IN
  (IsTree(t) /\ \A s \in Stores : IsTree(data[s])) =>
    /\ \A d \in DOMAIN t : t[d].t = "dir" =>
         LET list == Readdir(d)
         IN /\ list.e = "ok"
            /\ ToSet(list.kids) = {k \in Names : Child(d, k) \in DOMAIN t}
    /\ \A p \in DOMAIN t :
         LET n == Stat(p)
             r == Realpath(p)
         IN /\ t[p].t # "link" => ExistsNow(p) /\ n.t # "err"
            /\ ~OnlyVirtual(p) => /\ r.ok <=> n.t # "err"
                                  /\ r.ok /\ (Hidden(p) \/ ~Hidden(r.at)) => Look(t, r.at) = n

=============================================================================
