-------------------------- MODULE MountableFsProofs --------------------------
(***************************************************************************)
(* Proofs about MountableFs: its type invariant, that the steps of a call  *)
(* change only what its operands name, that what a mount hides of the base *)
(* stays untouched, and that the queries describe one tree.                *)
(***************************************************************************)
EXTENDS MountableFs, FsLemmas, SequenceTheorems, TLAPS

-----------------------------------------------------------------------------
(* The inductive invariant.                                                *)

(* Where the store s is mounted; the base, and what is not mounted, is at  *)
(* the root.                                                               *)
Home(s) ==
  IF \E mp \in DOMAIN mounts : mounts[mp] = s
  THEN CHOOSE mp \in DOMAIN mounts : mounts[mp] = s
  ELSE Root

(* The path x of the invocation f, seen from outside.                      *)
Whole(f, x) == IF f.fs = "mount" THEN x ELSE Home(f.fs) \o x

IsFrame(f) ==
  f = [fs |-> f.fs, op |-> f.op, p |-> f.p, q |-> f.q, o |-> f.o, pc |-> f.pc,
       has |-> f.has, res |-> f.res, kids |-> f.kids, ret |-> f.ret]

(* What an invocation knows has the shape its next step relies on.         *)
Shaped(f) ==
  /\ IsFrame(f)
  /\ f.fs \in Stores \cup {"mount"}
  /\ f.p \in Seq(Names) /\ f.q \in Seq(Names) /\ f.kids \in Seq(Names)
  /\ f.op \in {"rm", "mv"} => f.p # Root

(* How an invocation of the call r got its paths: seen from outside they   *)
(* are those of the call or paths below them.                              *)
Owns(op, p, q, r) ==
  /\ op \in {"write", "append", "chmod", "utimes", "symlink"} => r.op = op /\ p = r.p
  /\ op = "link" => r.op = "link" /\ q = r.q
  /\ op = "rm" => r.op \in {"rm", "mv"} /\ Under(p, r.p)
  /\ op = "cp" => r.op \in {"cp", "mv"} /\ Under(q, r.q)
  /\ op = "mv" => r.op = "mv" /\ p = r.p /\ q = r.q
  /\ op = "mkdir" => \/ r.op = "mkdir" /\ p = r.p
                     \/ r.op \in {"cp", "mv"} /\ Under(p, r.q)

Belongs(f, r) == Owns(f.op, Whole(f, f.p), Whole(f, f.q), r)

(* No mount contains p or lies in it.                                      *)
Clear(p) == \A mp \in DOMAIN mounts : ~Under(p, mp) /\ ~Under(mp, p)

(* An invocation on the base works where no mount hides it.                *)
Open(f) ==
  f.fs = Base =>
    /\ f.op \in SyncOps \ {"link"} => ~Hidden(f.p)
    /\ f.op \in {"link", "cp", "mv"} => ~Hidden(f.q)
    /\ f.op \in {"rm", "mv"} => Clear(f.p)
    /\ f.op = "cp" /\ f.pc # "start" => Clear(f.q)

(* A copy in the base that is about to begin: a directory is copied where  *)
(* there is nothing mounted.                                               *)
Fresh(f, t) ==
  f.fs = Base /\ f.op \in {"cp", "mv"} /\ f.pc = "start" /\ Look(t, f.p).t = "dir" => Clear(f.q)

(* The invocation f of the call r: one that waits for another one, and the *)
(* innermost one, t being what the base holds.                             *)
Behind(f, r, b) ==
  /\ Shaped(f) /\ f.pc # "start"
  /\ remounts = 0 => Belongs(f, r)
  /\ b => Open(f)

OnTop(f, r, t, b) ==
  /\ Shaped(f)
  /\ remounts = 0 => Belongs(f, r)
  /\ b => Open(f) /\ Fresh(f, t)

(* The invocations that wait, and all those of a call.                     *)
Waiting(s, r, b) == \E F : s \in Seq(F) /\ \A f \in F : Behind(f, r, b)

StackFits(s, r, t, b) ==
  s # <<>> => \E h, u : s = <<h>> \o u /\ OnTop(h, r, t, b) /\ Waiting(u, r, b)

IsCall(x) ==
  x = [stack |-> x.stack, req |-> x.req, id |-> x.id, out |-> x.out,
       before |-> x.before]

CallFits(x, t, b) == IsCall(x) /\ StackFits(x.stack, x.req, t, b)

CallsFit ==
  /\ DOMAIN calls = Callers
  /\ \A c \in Callers : CallFits(calls[c], data[Base], calm)

(* The mounts lie apart and belong to different file systems.              *)
MountsInv ==
  /\ remounts \in 0..MaxRemounts
  /\ DOMAIN mounts \subseteq Seq(Names) \ {Root}
  /\ DOMAIN mounts \subseteq MountPoints \cup DOMAIN Mounted
  /\ \A mp \in DOMAIN mounts : mounts[mp] \in Stores \ {Base}
  /\ \A mp, other \in DOMAIN mounts :
       (mounts[mp] = mounts[other] => mp = other) /\ ~Below(mp, other)

StoresInv ==
  /\ DOMAIN data = Stores
  /\ \A s \in Stores : Root \in DOMAIN data[s] /\ DOMAIN data[s] \subseteq Seq(Names)

(* Calls that never overlapped.                                            *)
Solo == calm => \A c, d \in Callers : Busy(c) /\ Busy(d) => c = d

IInv == MountsInv /\ StoresInv /\ CallsOK /\ CallsFit /\ Solo

-----------------------------------------------------------------------------
(* Stacks.                                                                 *)

LEMMA Stacked ==
  ASSUME NEW F, NEW u \in Seq(F), NEW h
  PROVE  /\ <<h>> \o u \in Seq(F \cup {h}) /\ <<h>> \o u # <<>>
         /\ Head(<<h>> \o u) = h /\ Tail(<<h>> \o u) = u
<1> DEFINE G == F \cup {h}
<1>1. u \in Seq(G) /\ <<h>> \in Seq(G) /\ Len(<<h>>) = 1 /\ <<h>>[1] = h
  <2>1. u \in Seq(G)
    BY SeqMonotonic
  <2>2. h \in G
    OBVIOUS
  <2> HIDE DEF G
  <2> QED  BY <2>1, <2>2
<1> HIDE DEF G
<1>2. /\ <<h>> \o u \in Seq(G) /\ Len(<<h>> \o u) = 1 + Len(u)
      /\ \A i \in 1 .. 1 + Len(u) : (<<h>> \o u)[i] = IF i <= 1 THEN <<h>>[i] ELSE u[i - 1]
      /\ Len(u) \in Nat
  BY <1>1, ConcatProperties, LenProperties
<1> DEFINE s == <<h>> \o u
<1>3. s \in Seq(G) /\ Len(s) = 1 + Len(u) /\ s[1] = h
      /\ \A i \in 1 .. Len(u) : s[i + 1] = u[i]
  <2>1. 1 \in 1 .. 1 + Len(u) /\ \A i \in 1 .. Len(u) : i + 1 \in 1 .. 1 + Len(u) /\ ~(i + 1 <= 1) /\ i + 1 - 1 = i
    BY <1>2
  <2> QED  BY <1>1, <1>2, <2>1
<1> HIDE DEF s
<1>4. s # <<>>
  BY <1>2, <1>3
<1>5. /\ Head(s) = s[1] /\ Tail(s) \in Seq(G) /\ Len(Tail(s)) = Len(s) - 1
      /\ \A i \in 1 .. Len(Tail(s)) : Tail(s)[i] = s[i + 1]
  BY <1>3, <1>4, HeadTailProperties
<1>6. Tail(s) = u
  BY <1>1, <1>2, <1>3, <1>5, SeqEqual
<1> QED
  BY <1>3, <1>4, <1>5, <1>6 DEF s, G

LEMMA Unstacked ==
  ASSUME NEW F, NEW u \in Seq(F), u # <<>>
  PROVE  Head(u) \in F /\ Tail(u) \in Seq(F) /\ u = <<Head(u)>> \o Tail(u)
<1>1. /\ Head(u) \in F /\ Tail(u) \in Seq(F)
      /\ Head(u) = u[1] /\ Len(Tail(u)) = Len(u) - 1 /\ Len(u) \in Nat
      /\ \A i \in 1 .. Len(Tail(u)) : Tail(u)[i] = u[i + 1]
  BY HeadTailProperties, LenProperties
<1> DEFINE h == Head(u)
           v == Tail(u)
<1>2. <<h>> \in Seq(F) /\ Len(<<h>>) = 1 /\ <<h>>[1] = h
  BY <1>1
<1> HIDE DEF h, v
<1>3. /\ <<h>> \o v \in Seq(F) /\ Len(<<h>> \o v) = 1 + Len(v)
      /\ \A i \in 1 .. 1 + Len(v) : (<<h>> \o v)[i] = IF i <= 1 THEN <<h>>[i] ELSE v[i - 1]
  BY <1>1, <1>2, ConcatProperties DEF v
<1>4. Len(<<h>> \o v) = Len(u)
  BY <1>1, <1>3 DEF v
<1>5. ASSUME NEW i \in 1 .. Len(u) PROVE (<<h>> \o v)[i] = u[i]
  <2>1. CASE i = 1
    BY <1>1, <1>2, <1>3, <1>4, <2>1 DEF h, v
  <2>2. CASE i # 1
    <3>1. i \in 1 .. 1 + Len(v) /\ ~(i <= 1) /\ i - 1 \in 1 .. Len(v) /\ i - 1 + 1 = i
      BY <1>1, <1>4, <1>3, <2>2 DEF v
    <3> QED  BY <1>1, <1>3, <3>1 DEF v
  <2> QED  BY <2>1, <2>2
<1>6. <<h>> \o v = u
  BY <1>3, <1>4, <1>5, SeqEqual
<1> QED
  BY <1>1, <1>6 DEF h, v

LEMMA WaitingEmpty == \A r, b : Waiting(<<>>, r, b)
<1> TAKE r, b
<1> DEFINE F == {}
<1>1. <<>> \in Seq(F) /\ \A f \in F : Behind(f, r, b)
  OBVIOUS
<1> HIDE DEF F
<1> QED
  BY <1>1 DEF Waiting

LEMMA Push ==
  ASSUME NEW b, NEW r, NEW u, Waiting(u, r, b), NEW g, Behind(g, r, b)
  PROVE  Waiting(<<g>> \o u, r, b)
<1>1. PICK F : u \in Seq(F) /\ \A f \in F : Behind(f, r, b)
  BY DEF Waiting
<1>2. <<g>> \o u \in Seq(F \cup {g})
  BY <1>1, Stacked
<1>3. \A f \in F \cup {g} : Behind(f, r, b)
  BY <1>1
<1> QED
  BY <1>2, <1>3 DEF Waiting

LEMMA Pop ==
  ASSUME NEW b, NEW r, NEW u, Waiting(u, r, b), u # <<>>
  PROVE  Behind(Head(u), r, b) /\ Waiting(Tail(u), r, b)
<1>1. PICK F : u \in Seq(F) /\ \A f \in F : Behind(f, r, b)
  BY DEF Waiting
<1>2. Head(u) \in F /\ Tail(u) \in Seq(F)
  BY <1>1, Unstacked
<1> QED
  BY <1>1, <1>2 DEF Waiting

LEMMA TopOf ==
  ASSUME NEW s, NEW b, NEW r, NEW t, StackFits(s, r, t, b), s # <<>>
  PROVE  OnTop(Head(s), r, t, b) /\ Waiting(Tail(s), r, b)
<1>1. PICK h, u : s = <<h>> \o u /\ OnTop(h, r, t, b) /\ Waiting(u, r, b)
  BY DEF StackFits
<1>2. PICK F : u \in Seq(F)
  BY <1>1 DEF Waiting
<1>3. Head(<<h>> \o u) = h /\ Tail(<<h>> \o u) = u
  BY <1>2, Stacked
<1> QED
  BY <1>1, <1>3

LEMMA OnTopOf ==
  ASSUME NEW u, NEW b, NEW r, NEW t, NEW h, OnTop(h, r, t, b), Waiting(u, r, b)
  PROVE  StackFits(<<h>> \o u, r, t, b)
BY DEF StackFits

LEMMA StackedTwice ==
  ASSUME NEW u, NEW b, NEW r, Waiting(u, r, b), NEW h, NEW g
  PROVE  <<h>> \o <<g>> \o u = <<h>> \o (<<g>> \o u)
<1>1. PICK F : u \in Seq(F)
  BY DEF Waiting
<1> DEFINE G == F \cup {h, g}
<1>2. h \in G /\ g \in G /\ u \in Seq(G)
  <2>1. F \subseteq G
    OBVIOUS
  <2>2. Seq(F) \subseteq Seq(G)
    BY <2>1, SeqMonotonic
  <2> QED  BY <1>1, <2>2
<1> HIDE DEF G
<1>3. <<h>> \in Seq(G) /\ <<g>> \in Seq(G)
  BY <1>2
<1> QED
  BY <1>2, <1>3, ConcatAssociative

LEMMA BehindOnTop ==
  ASSUME NEW f, NEW b, NEW r, NEW t, Behind(f, r, b)
  PROVE  OnTop(f, r, t, b)
BY DEF Behind, OnTop, Fresh

-----------------------------------------------------------------------------
(* Routing.                                                                *)

LEMMA HomeTyped ==
  ASSUME MountsInv, NEW s
  PROVE  Home(s) \in Seq(Names)
<1>1. Root \in Seq(Names)
  BY JoinRoot, EmptySeq DEF Root
<1>2. CASE \E mp \in DOMAIN mounts : mounts[mp] = s
  <2>1. (CHOOSE mp \in DOMAIN mounts : mounts[mp] = s) \in DOMAIN mounts
    BY <1>2
  <2> QED  BY <1>2, <2>1 DEF Home, MountsInv
<1> QED
  BY <1>1, <1>2 DEF Home

LEMMA HomeOf ==
  ASSUME MountsInv
  PROVE  Home(Base) = Root /\ \A mp \in DOMAIN mounts : Home(mounts[mp]) = mp
<1>1. Home(Base) = Root
  BY DEF MountsInv, Home
<1>2. ASSUME NEW mp \in DOMAIN mounts PROVE Home(mounts[mp]) = mp
  <2> DEFINE m == CHOOSE x \in DOMAIN mounts : mounts[x] = mounts[mp]
  <2>1. m \in DOMAIN mounts /\ mounts[m] = mounts[mp]
    OBVIOUS
  <2>2. m = mp
    <3> HIDE DEF m
    <3> QED  BY <2>1 DEF MountsInv
  <2> QED  BY <2>2 DEF Home
<1> QED
  BY <1>1, <1>2

\* An operation goes to the file system its path is in, and its path there
\* below the mount point is the path.
LEMMA RouteIs ==
  ASSUME MountsInv, NEW p \in Seq(Names)
  PROVE  /\ Route(p).fs \in Stores /\ Route(p).p \in Seq(Names)
         /\ Home(Route(p).fs) \o Route(p).p = p
         /\ Route(p).fs = Base <=> ~Hidden(p)
         /\ ~Hidden(p) => Route(p).p = p
         /\ Route(p).p = Root => p = Root \/ IsMount(p)
<1> DEFINE over == {mp \in DOMAIN mounts : Under(p, mp)}
<1>1. Hidden(p) <=> over # {}
  BY DEF Hidden
<1>2. Home(Base) = Root /\ \A mp \in DOMAIN mounts : Home(mounts[mp]) = mp
  BY HomeOf
<1>3. CASE over = {}
  <2>1. Route(p).fs = Base /\ Route(p).p = p
    BY <1>3 DEF Route
  <2>2. Root \o p = p
    BY JoinRoot
  <2>3. Base \in Stores
    BY MountAssumption
  <2> QED  BY <1>1, <1>2, <1>3, <2>1, <2>2, <2>3
<1>4. CASE over # {}
  <2> DEFINE mp == CHOOSE m \in over : TRUE
  <2>1. mp \in over
    BY <1>4
  <2>2. Route(p).fs = mounts[mp] /\ Route(p).p = Moved(p, mp, Root)
    BY <1>4 DEF Route
  <2> HIDE DEF mp
  <2>3. mp \in DOMAIN mounts /\ mp \in Seq(Names) /\ Under(p, mp)
        /\ mounts[mp] \in Stores /\ mounts[mp] # Base
    BY <2>1 DEF MountsInv
  <2>4. Moved(p, mp, Root) \in Seq(Names) /\ mp \o Moved(p, mp, Root) = p
    BY <2>3, SplitIs
  <2>5. Moved(p, mp, Root) = Root => p = mp
    <3>1. mp \o Root = mp
      BY <2>3, JoinRoot
    <3> QED  BY <2>4, <3>1
  <2> HIDE DEF over
  <2> QED  BY <1>1, <1>2, <1>4, <2>2, <2>3, <2>4, <2>5 DEF IsMount
<1> QED
  BY <1>3, <1>4

(* p and its ancestors, which are made when they are missing.              *)
Chain(p) == {p} \cup Ancestors(p)

LEMMA ChainIs ==
  ASSUME NEW p \in Seq(Names), NEW x \in Chain(p)
  PROVE  /\ x \in Seq(Names) /\ Under(p, x)
         /\ \A h \in Seq(Names) : h \o x \in Chain(h \o p)
<1>1. x \in Seq(Names) /\ Under(p, x)
  BY AncestorContains, UnderSelf DEF Chain
<1>2. ASSUME NEW h \in Seq(Names) PROVE h \o x \in Chain(h \o p)
  <2>1. CASE x = p
    BY <2>1 DEF Chain
  <2>2. CASE x \in Ancestors(p)
    BY <2>2, AncestorsJoin DEF Chain
  <2> QED  BY <2>1, <2>2 DEF Chain
<1> QED
  BY <1>1, <1>2

\* What no mount hides lies in directories that none hides.
LEMMA ChainOpen ==
  ASSUME MountsInv, NEW p \in Seq(Names), ~Hidden(p), NEW x \in Chain(p)
  PROVE  ~Hidden(x)
<1> SUFFICES ASSUME NEW mp \in DOMAIN mounts, Under(x, mp) PROVE FALSE
  BY DEF Hidden
<1>1. x \in Seq(Names) /\ Under(p, x) /\ mp \in Seq(Names)
  BY ChainIs DEF MountsInv
<1>2. Under(p, mp)
  BY <1>1, UnderTrans
<1> QED
  BY <1>2 DEF Hidden

LEMMA ClearOpen ==
  ASSUME NEW p, Clear(p)
  PROVE  ~Hidden(p)
BY DEF Clear, Hidden

\* Nothing is mounted at, above or below p: p is no mount point, no mount
\* hides it and none lies below.
LEMMA ClearIs ==
  ASSUME MountsInv, NEW p \in Seq(Names), ~Hidden(p), MountsBelow(p) = {}
  PROVE  Clear(p)
<1> SUFFICES ASSUME NEW mp \in DOMAIN mounts PROVE ~Under(p, mp) /\ ~Under(mp, p)
  BY DEF Clear
<1>1. ~Under(p, mp)
  BY DEF Hidden
<1>2. ~Below(mp, p)
  BY DEF MountsBelow
<1>3. mp # p
  <2>1. Under(p, p)
    BY UnderSelf
  <2> QED  BY <1>1, <2>1
<1>4. ~Under(mp, p)
  BY <1>2, <1>3 DEF Under, Below, IsStrictPrefix
<1> QED
  BY <1>1, <1>4

LEMMA ClearChild ==
  ASSUME MountsInv, NEW p \in Seq(Names), NEW k \in Names, Clear(p)
  PROVE  Clear(Child(p, k))
<1> SUFFICES ASSUME NEW mp \in DOMAIN mounts
             PROVE  ~Under(Child(p, k), mp) /\ ~Under(mp, Child(p, k))
  BY DEF Clear
<1>1. mp \in Seq(Names) /\ ~Under(p, mp) /\ ~Under(mp, p)
  BY DEF Clear, MountsInv
<1>2. Child(p, k) \in Seq(Names) /\ Under(Child(p, k), p)
  BY ChildIs, ChildIn
<1>3. ~Under(Child(p, k), mp)
  BY <1>1, ChildBetween
<1>4. ~Under(mp, Child(p, k))
  BY <1>1, <1>2, UnderTrans
<1> QED
  BY <1>3, <1>4

-----------------------------------------------------------------------------
(* Stores.                                                                 *)

(* The entries u are the entries t but for paths in A; the root stays.     *)
Alters(u, t, A) ==
  /\ Root \in DOMAIN t => Root \in DOMAIN u
  /\ \A x : x \notin A => /\ x \in DOMAIN u <=> x \in DOMAIN t
                          /\ x \in DOMAIN t => u[x] = t[x]

LEMMA AltersNothing == \A t, A : Alters(t, t, A)
BY DEF Alters

LEMMA PutAlters == \A t, p, n : Alters(MemPut(t, p, n), t, Chain(p))
<1> SUFFICES ASSUME NEW t, NEW p, NEW n PROVE Alters(MemPut(t, p, n), t, Chain(p))
  OBVIOUS
<1> DEFINE w == WithNew(t, Missing(t, p))
           u == MemPut(t, p, n)
<1>1. /\ DOMAIN w = DOMAIN t \cup Missing(t, p)
      /\ \A x \in DOMAIN t : w[x] = t[x]
  BY DEF WithNew
<1>2. Missing(t, p) \subseteq Ancestors(p)
  BY DEF Missing
<1>3. /\ DOMAIN u = DOMAIN w \cup {p}
      /\ \A x \in DOMAIN w : x # p => u[x] = w[x]
  <2> HIDE DEF w
  <2>1. u = Set(w, p, n)
    BY DEF MemPut, w
  <2> HIDE DEF u
  <2> QED  BY <2>1 DEF Set
<1> HIDE DEF w, u
<1>4. Alters(u, t, Chain(p))
  BY <1>1, <1>2, <1>3 DEF Alters, Chain
<1> QED
  BY <1>4 DEF u

LEMMA WithoutAlters ==
  ASSUME NEW t, NEW p, p # Root
  PROVE  Alters(Without(t, p), t, {p})
BY DEF Without, Alters

LEMMA ChmodAlters == \A t, p, m : Alters(MemChmod(t, p, m).t, t, {p})
<1> SUFFICES ASSUME NEW t, NEW p, NEW m PROVE Alters(MemChmod(t, p, m).t, t, {p})
  OBVIOUS
<1>1. MemChmod(t, p, m).t = IF p \in DOMAIN t THEN [t EXCEPT ![p].m = m] ELSE t
  BY DEF MemChmod, Done
<1> DEFINE u == MemChmod(t, p, m).t
<1>2. DOMAIN u = DOMAIN t /\ \A x \in DOMAIN t : x # p => u[x] = t[x]
  BY <1>1
<1> HIDE DEF u
<1>3. Alters(u, t, {p})
  BY <1>2 DEF Alters
<1> QED
  BY <1>3 DEF u

LEMMA MkdirAlters == \A t, p, rec : Alters(MemMkdir(t, p, rec).t, t, Chain(p))
<1> SUFFICES ASSUME NEW t, NEW p, NEW rec PROVE Alters(MemMkdir(t, p, rec).t, t, Chain(p))
  OBVIOUS
<1>1. MemMkdir(t, p, rec).t \in {t, MemPut(t, p, Dir("default"))}
  BY Zenon DEF MemMkdir, Done
<1> QED
  BY <1>1, AltersNothing, PutAlters

LEMMA SymlinkAlters == \A t, p, to : Alters(MemSymlink(t, p, to).t, t, Chain(p))
<1> SUFFICES ASSUME NEW t, NEW p, NEW to PROVE Alters(MemSymlink(t, p, to).t, t, Chain(p))
  OBVIOUS
<1>1. MemSymlink(t, p, to).t \in {t, MemPut(t, p, Link(to))}
  BY DEF MemSymlink, Done
<1> QED
  BY <1>1, AltersNothing, PutAlters

LEMMA LinkAlters == \A t, p, q : Alters(MemLink(t, p, q).t, t, Chain(q))
<1> SUFFICES ASSUME NEW t, NEW p, NEW q PROVE Alters(MemLink(t, p, q).t, t, Chain(q))
  OBVIOUS
<1>1. MemLink(t, p, q).t \in {t, MemPut(t, q, Look(t, p))}
  BY Zenon DEF MemLink, Done
<1> QED
  BY <1>1, AltersNothing, PutAlters

LEMMA AppendAlters == \A t, p, id : Alters(MemAppend(t, p, id).t, t, Chain(p))
<1> SUFFICES ASSUME NEW t, NEW p, NEW id PROVE Alters(MemAppend(t, p, id).t, t, Chain(p))
  OBVIOUS
<1>1. \E n, m : MemAppend(t, p, id).t \in {t, Set(t, p, n), MemPut(t, p, m)}
  BY Zenon DEF MemAppend, Done
<1>2. \A n : Alters(Set(t, p, n), t, Chain(p))
  BY DEF Set, Alters, Chain
<1> QED
  BY <1>1, <1>2, AltersNothing, PutAlters

(* The paths an operation that is one step may change.                     *)
Touched(f) ==
  CASE f.op = "link" -> Chain(f.q)
    [] f.op \in {"chmod", "utimes"} -> {f.p}
    [] OTHER -> Chain(f.p)

LEMMA SyncAlters ==
  ASSUME NEW t, NEW f, f.op \in SyncOps, NEW id
  PROVE  Alters(MemSync(t, f, id).t, t, Touched(f))
<1> DEFINE u == MemSync(t, f, id).t
<1>1. CASE f.op = "write"
  <2>1. u = MemPut(t, f.p, File(<<id>>, "default")) /\ Touched(f) = Chain(f.p)
    BY <1>1 DEF MemSync, Done, Touched
  <2> QED  BY <2>1, PutAlters
<1>2. CASE f.op = "append"
  <2>1. u = MemAppend(t, f.p, id).t /\ Touched(f) = Chain(f.p)
    BY <1>2 DEF MemSync, Touched
  <2> QED  BY <2>1, AppendAlters
<1>3. CASE f.op = "mkdir"
  <2>1. u = MemMkdir(t, f.p, f.o.rec).t /\ Touched(f) = Chain(f.p)
    BY <1>3 DEF MemSync, Touched
  <2> QED  BY <2>1, MkdirAlters
<1>4. CASE f.op = "chmod"
  <2>1. u = MemChmod(t, f.p, "changed").t /\ Touched(f) = {f.p}
    BY <1>4 DEF MemSync, Touched
  <2> QED  BY <2>1, ChmodAlters
<1>5. CASE f.op = "utimes"
  <2>1. u = t /\ Touched(f) = {f.p}
    BY <1>5 DEF MemSync, Done, Touched
  <2> QED  BY <2>1, AltersNothing
<1>6. CASE f.op = "symlink"
  <2>1. u = MemSymlink(t, f.p, f.q).t /\ Touched(f) = Chain(f.p)
    BY <1>6 DEF MemSync, Touched
  <2> QED  BY <2>1, SymlinkAlters
<1>7. CASE f.op = "link"
  <2>1. u = MemLink(t, f.p, f.q).t /\ Touched(f) = Chain(f.q)
    BY <1>7 DEF MemSync, Touched
  <2> QED  BY <2>1, LinkAlters
<1> QED
  BY <1>1, <1>2, <1>3, <1>4, <1>5, <1>6, <1>7 DEF SyncOps

LEMMA ListTyped == \A t, p : MemReaddir(t, p).kids \in Seq(Names)
<1> SUFFICES ASSUME NEW t, NEW p PROVE MemReaddir(t, p).kids \in Seq(Names)
  OBVIOUS
<1>1. <<>> \in Seq(Names)
  OBVIOUS
<1>2. MemReaddir(t, p).kids = <<>> \/ \E S : MemReaddir(t, p).kids = Sorted(S)
  BY Zenon DEF MemReaddir
<1> QED
  BY <1>1, <1>2, SortedTyped

LEMMA ReaddirTyped == \A d : Readdir(d).kids \in Seq(Names)
<1> SUFFICES ASSUME NEW d PROVE Readdir(d).kids \in Seq(Names)
  OBVIOUS
<1>1. \/ Readdir(d).kids = MemReaddir(data[Route(d).fs], Route(d).p).kids
      \/ \E S : Readdir(d).kids = Sorted(S)
  BY Zenon DEF Readdir
<1> QED
  BY <1>1, ListTyped, SortedTyped

-----------------------------------------------------------------------------
(* What a step changes, seen from outside.                                 *)

(* The call r may change the paths A of the store s.                       *)
Within(r, s, A) ==
  /\ A \subseteq Seq(Names)
  /\ remounts = 0 => \A x \in A : Footprint(r, Home(s) \o x)
  /\ calm /\ s = Base => \A x \in A : ~Hidden(x)

Becoming(s, u) == data' = [data EXCEPT ![s] = u]

(* A step changes nothing, or in one store what the call r may change.     *)
Change(r) ==
  \/ UNCHANGED data
  \/ \E s \in Stores : \E u, A :
       Becoming(s, u) /\ Alters(u, data[s], A) /\ Within(r, s, A)

LEMMA ChangeStores ==
  ASSUME StoresInv, NEW r, Change(r)
  PROVE  StoresInv'
<1>1. CASE UNCHANGED data
  BY <1>1 DEF StoresInv
<1>2. ASSUME NEW s \in Stores, NEW u, NEW A, Becoming(s, u), Alters(u, data[s], A),
             Within(r, s, A)
      PROVE  StoresInv'
  <2>1. DOMAIN data' = Stores /\ data'[s] = u
        /\ \A x \in Stores : x # s => data'[x] = data[x]
    BY <1>2 DEF StoresInv, Becoming
  <2>2. Root \in DOMAIN u /\ DOMAIN u \subseteq DOMAIN data[s] \cup A
    BY <1>2 DEF StoresInv, Alters
  <2>3. DOMAIN u \subseteq Seq(Names)
    BY <1>2, <2>2 DEF StoresInv, Within
  <2> QED  BY <2>1, <2>2, <2>3 DEF StoresInv
<1> QED
  BY <1>1, <1>2 DEF Change

LEMMA RouteHidden ==
  ASSUME MountsInv, NEW p \in Seq(Names), Hidden(p)
  PROVE  \E mp \in DOMAIN mounts : Route(p).fs = mounts[mp] /\ p = mp \o Route(p).p
<1> DEFINE over == {mp \in DOMAIN mounts : Under(p, mp)}
           mp == CHOOSE m \in over : TRUE
<1>1. over # {}
  BY DEF Hidden
<1>2. mp \in over
  BY <1>1
<1>3. mp \in DOMAIN mounts /\ Route(p).fs = mounts[mp]
  BY <1>1, <1>2 DEF Route
<1>4. Home(mounts[mp]) = mp
  <2> HIDE DEF mp
  <2> QED  BY <1>3, HomeOf
<1>5. Home(Route(p).fs) \o Route(p).p = p
  BY RouteIs
<1> HIDE DEF mp, over
<1> QED
  BY <1>3, <1>4, <1>5

\* What is mounted at mp lies in mp.
LEMMA MountedHidden ==
  ASSUME MountsInv, NEW mp \in DOMAIN mounts, NEW x \in Seq(Names)
  PROVE  mp \o x \in Seq(Names) /\ Hidden(mp \o x) /\ Hidden(mp)
<1>1. mp \in Seq(Names) /\ mp \o x \in Seq(Names)
  BY JoinIs DEF MountsInv
<1>2. Len(mp) <= Len(mp \o x) /\ \A i \in 1 .. Len(mp) : mp[i] = (mp \o x)[i]
  BY <1>1, JoinIs
<1>3. Under(mp \o x, mp) /\ Under(mp, mp)
  BY <1>1, <1>2, UnderIs, UnderSelf
<1> QED
  BY <1>1, <1>3 DEF Hidden

Apart == MountsInv /\ StoresInv

(* The paths that are known: what the store of the path holds, and in the *)
(* base the directories that mounts make.                                  *)
KnownHere ==
  /\ Known \subseteq Seq(Names)
  /\ \A p \in Seq(Names) :
       p \in Known <=>
         IF Hidden(p) THEN Route(p).p \in DOMAIN data[Route(p).fs]
         ELSE p \in DOMAIN data[Base] \cup Virtual

LEMMA KnownIs == Apart => KnownHere
<1> SUFFICES ASSUME Apart PROVE KnownHere
  OBVIOUS
<1>1. MountsInv /\ StoresInv
  BY DEF Apart
<1>2. ASSUME NEW mp \in DOMAIN mounts
      PROVE  /\ mp \in Seq(Names) /\ Hidden(mp) /\ Ancestors(mp) \subseteq Seq(Names)
             /\ \A x \in DOMAIN data[mounts[mp]] : mp \o x \in Seq(Names) /\ Hidden(mp \o x)
  <2>1. mp \in Seq(Names) /\ DOMAIN data[mounts[mp]] \subseteq Seq(Names)
    BY <1>1 DEF MountsInv, StoresInv
  <2>2. Root \in Seq(Names)
    BY JoinRoot, EmptySeq DEF Root
  <2>3. Ancestors(mp) \subseteq Seq(Names)
    BY <2>1, AncestorIs
  <2> QED  BY <1>1, <2>1, <2>2, <2>3, MountedHidden
<1>3. AllPaths \subseteq Seq(Names)
  <2>1. DOMAIN data[Base] \subseteq Seq(Names)
    BY <1>1, MountAssumption DEF StoresInv
  <2>2. Virtual \subseteq Seq(Names)
    BY <1>2 DEF Virtual
  <2>3. ASSUME NEW mp \in DOMAIN mounts
        PROVE  {mp \o x : x \in DOMAIN data[mounts[mp]]} \subseteq Seq(Names)
    BY <1>2
  <2>4. DOMAIN mounts \subseteq Seq(Names)
    BY <1>2
  <2> DEFINE Inner(mp) == {mp \o x : x \in DOMAIN data[mounts[mp]]}
  <2>5. AllPaths = DOMAIN data[Base] \cup Virtual \cup DOMAIN mounts
                     \cup UNION {Inner(mp) : mp \in DOMAIN mounts}
    BY Zenon DEF AllPaths
  <2>6. \A mp \in DOMAIN mounts : Inner(mp) \subseteq Seq(Names)
    BY <2>3
  <2> HIDE DEF Inner
  <2> QED  BY <2>1, <2>2, <2>4, <2>5, <2>6
<1>4. ASSUME NEW p \in Seq(Names), Hidden(p)
      PROVE  p \in Known <=> Route(p).p \in DOMAIN data[Route(p).fs]
  <2>1. PICK mp \in DOMAIN mounts : Route(p).fs = mounts[mp] /\ p = mp \o Route(p).p
    BY <1>1, <1>4, RouteHidden
  <2>2. ASSUME Route(p).p \in DOMAIN data[Route(p).fs] PROVE p \in AllPaths
    <3>1. p \in {mp \o x : x \in DOMAIN data[mounts[mp]]}
      BY <2>1, <2>2
    <3> QED  BY <3>1 DEF AllPaths
  <2> QED  BY <1>4, <2>2 DEF Known
<1>5. ASSUME NEW p \in Seq(Names), ~Hidden(p)
      PROVE  p \in Known <=> p \in DOMAIN data[Base] \cup Virtual
  <2>1. p \notin DOMAIN mounts
    BY <1>2, <1>5
  <2> DEFINE Inner(mp) == {mp \o x : x \in DOMAIN data[mounts[mp]]}
  <2>2. AllPaths = DOMAIN data[Base] \cup Virtual \cup DOMAIN mounts
                     \cup UNION {Inner(mp) : mp \in DOMAIN mounts}
    BY Zenon DEF AllPaths
  <2>3. ASSUME NEW mp \in DOMAIN mounts PROVE p \notin Inner(mp)
    BY <1>2, <1>5
  <2> HIDE DEF Inner
  <2>4. p \in AllPaths <=> p \in DOMAIN data[Base] \cup Virtual
    BY <2>1, <2>2, <2>3
  <2> QED  BY <1>5, <2>4 DEF Known
<1> QED
  BY <1>3, <1>4, <1>5 DEF Known, KnownHere

LEMMA KnownNext == Apart' => KnownHere'
BY KnownIs, PTL

\* Where the store of a path stays the same, what is seen there does.
LEMMA SeenSame ==
  ASSUME Apart, Apart', mounts' = mounts, NEW p \in Seq(Names),
         Route(p).p \in DOMAIN data'[Route(p).fs] <=> Route(p).p \in DOMAIN data[Route(p).fs],
         Route(p).p \in DOMAIN data[Route(p).fs] =>
           data'[Route(p).fs][Route(p).p] = data[Route(p).fs][Route(p).p]
  PROVE  Look(Tree', p) = Look(Tree, p)
<1>1. /\ Route(p)' = Route(p) /\ Virtual' = Virtual /\ Hidden(p)' = Hidden(p)
  BY DEF Route, Virtual, Hidden
<1>2. p \in Known <=> p \in Known'
  <2>1. CASE Hidden(p)
    BY <1>1, <2>1, KnownIs, KnownNext DEF KnownHere
  <2>2. CASE ~Hidden(p)
    <3>1. Route(p).fs = Base /\ Route(p).p = p
      BY <2>2, RouteIs DEF Apart
    <3> QED  BY <1>1, <2>2, <3>1, KnownIs, KnownNext DEF KnownHere
  <2> QED  BY <2>1, <2>2
<1>3. Entry1(p)' = Entry1(p)
  BY <1>1 DEF Entry1, Look
<1>4. Look(Tree, p) = IF p \in Known THEN Entry1(p) ELSE Err("ENOENT")
  BY DEF Look, Tree
<1>5. Look(Tree', p) = IF p \in Known' THEN Entry1(p)' ELSE Err("ENOENT")
  BY DEF Look, Tree
<1> QED
  BY <1>2, <1>3, <1>4, <1>5

\* The footprint of a call on the tree.
LEMMA ChangeSeen ==
  ASSUME Apart, Apart', mounts' = mounts, remounts = 0, NEW r, Change(r),
         NEW p \in DOMAIN Tree \cup DOMAIN Tree', Look(Tree', p) # Look(Tree, p)
  PROVE  Footprint(r, p)
<1>1. p \in Seq(Names)
  <2>1. p \in Known \cup Known'
    BY DEF Tree
  <2> QED  BY <2>1, KnownIs, KnownNext DEF KnownHere
<1>2. /\ Route(p).fs \in Stores /\ Home(Route(p).fs) \o Route(p).p = p
  BY <1>1, RouteIs DEF Apart
<1>3. CASE UNCHANGED data
  BY <1>1, <1>3, SeenSame
<1>4. ASSUME NEW s \in Stores, NEW u, NEW A, Becoming(s, u), Alters(u, data[s], A),
             Within(r, s, A)
      PROVE  Footprint(r, p)
  <2>1. DOMAIN data = Stores
    BY DEF Apart, StoresInv
  <2>2. data'[s] = u /\ \A x \in Stores : x # s => data'[x] = data[x]
    BY <1>4, <2>1 DEF Becoming
  <2>3. Route(p).fs = s /\ Route(p).p \in A
    <3>1. SUFFICES ASSUME ~(Route(p).fs = s /\ Route(p).p \in A)
                   PROVE  FALSE
      OBVIOUS
    <3>2. CASE Route(p).fs # s
      BY <1>1, <1>2, <2>2, <3>2, SeenSame
    <3>3. CASE Route(p).fs = s /\ Route(p).p \notin A
      <4>1. /\ Route(p).p \in DOMAIN u <=> Route(p).p \in DOMAIN data[s]
            /\ Route(p).p \in DOMAIN data[s] => u[Route(p).p] = data[s][Route(p).p]
        BY <1>4, <3>3 DEF Alters
      <4> QED  BY <1>1, <2>2, <3>3, <4>1, SeenSame
    <3> QED  BY <3>1, <3>2, <3>3
  <2> QED  BY <1>2, <1>4, <2>3 DEF Within
<1> QED
  BY <1>3, <1>4 DEF Change

\* What mounts hide of the base stays.
LEMMA ChangeShields ==
  ASSUME StoresInv, calm, NEW r, Change(r), NEW p, Hidden(p)
  PROVE  Look(data'[Base], p) = Look(data[Base], p)
<1>1. CASE UNCHANGED data
  BY <1>1
<1>2. ASSUME NEW s \in Stores, NEW u, NEW A, Becoming(s, u), Alters(u, data[s], A),
             Within(r, s, A)
      PROVE  Look(data'[Base], p) = Look(data[Base], p)
  <2>1. DOMAIN data = Stores /\ Base \in Stores
    BY MountAssumption DEF StoresInv
  <2>2. data'[s] = u /\ \A x \in Stores : x # s => data'[x] = data[x]
    BY <1>2, <2>1 DEF Becoming
  <2>3. CASE s # Base
    BY <2>1, <2>2, <2>3
  <2>4. CASE s = Base
    <3>1. p \notin A
      BY <1>2, <2>4 DEF Within
    <3> QED  BY <1>2, <2>2, <2>4, <3>1 DEF Alters, Look
  <2> QED  BY <2>3, <2>4
<1> QED
  BY <1>1, <1>2 DEF Change

-----------------------------------------------------------------------------
(* Invocations.                                                            *)

(* g is the invocation f with other answers.                               *)
Edited(g, f, pc, kids) ==
  /\ IsFrame(g)
  /\ g.fs = f.fs /\ g.op = f.op /\ g.p = f.p /\ g.q = f.q
  /\ g.pc = pc /\ g.kids = kids

LEMMA Edits ==
  ASSUME NEW f, IsFrame(f)
  PROVE  /\ \A ret : Edited([f EXCEPT !.ret = ret], f, f.pc, f.kids)
         /\ \A kids : Edited([f EXCEPT !.kids = kids], f, f.pc, kids)
         /\ \A pc : Edited([f EXCEPT !.pc = pc], f, pc, f.kids)
         /\ \A pc, kids : Edited([f EXCEPT !.pc = pc, !.kids = kids], f, pc, kids)
         /\ \A pc, res : Edited([f EXCEPT !.pc = pc, !.res = res], f, pc, f.kids)
<1>1. f = [fs |-> f.fs, op |-> f.op, p |-> f.p, q |-> f.q, o |-> f.o, pc |-> f.pc,
           has |-> f.has, res |-> f.res, kids |-> f.kids, ret |-> f.ret]
  BY DEF IsFrame
<1>2. ASSUME NEW ret PROVE Edited([f EXCEPT !.ret = ret], f, f.pc, f.kids)
  <2>1. [f EXCEPT !.ret = ret] =
          [fs |-> f.fs, op |-> f.op, p |-> f.p, q |-> f.q, o |-> f.o, pc |-> f.pc,
           has |-> f.has, res |-> f.res, kids |-> f.kids, ret |-> ret]
    BY <1>1
  <2> QED  BY <2>1 DEF Edited, IsFrame
<1>3. ASSUME NEW kids PROVE Edited([f EXCEPT !.kids = kids], f, f.pc, kids)
  <2>1. [f EXCEPT !.kids = kids] =
          [fs |-> f.fs, op |-> f.op, p |-> f.p, q |-> f.q, o |-> f.o, pc |-> f.pc,
           has |-> f.has, res |-> f.res, kids |-> kids, ret |-> f.ret]
    BY <1>1
  <2> QED  BY <2>1 DEF Edited, IsFrame
<1>4. ASSUME NEW pc PROVE Edited([f EXCEPT !.pc = pc], f, pc, f.kids)
  <2>1. [f EXCEPT !.pc = pc] =
          [fs |-> f.fs, op |-> f.op, p |-> f.p, q |-> f.q, o |-> f.o, pc |-> pc,
           has |-> f.has, res |-> f.res, kids |-> f.kids, ret |-> f.ret]
    BY <1>1
  <2> QED  BY <2>1 DEF Edited, IsFrame
<1>5. ASSUME NEW pc, NEW kids PROVE Edited([f EXCEPT !.pc = pc, !.kids = kids], f, pc, kids)
  <2> DEFINE h == [f EXCEPT !.pc = pc]
  <2>1. [f EXCEPT !.pc = pc, !.kids = kids] = [h EXCEPT !.kids = kids]
    OBVIOUS
  <2>2. Edited(h, f, pc, f.kids)
    BY <1>4
  <2> HIDE DEF h
  <2>3. [h EXCEPT !.kids = kids] =
          [fs |-> h.fs, op |-> h.op, p |-> h.p, q |-> h.q, o |-> h.o, pc |-> h.pc,
           has |-> h.has, res |-> h.res, kids |-> kids, ret |-> h.ret]
    BY <2>2 DEF Edited, IsFrame
  <2> QED  BY <2>1, <2>2, <2>3 DEF Edited, IsFrame
<1>6. ASSUME NEW pc, NEW res PROVE Edited([f EXCEPT !.pc = pc, !.res = res], f, pc, f.kids)
  <2> DEFINE h == [f EXCEPT !.pc = pc]
  <2>1. [f EXCEPT !.pc = pc, !.res = res] = [h EXCEPT !.res = res]
    OBVIOUS
  <2>2. Edited(h, f, pc, f.kids)
    BY <1>4
  <2> HIDE DEF h
  <2>3. [h EXCEPT !.res = res] =
          [fs |-> h.fs, op |-> h.op, p |-> h.p, q |-> h.q, o |-> h.o, pc |-> h.pc,
           has |-> h.has, res |-> res, kids |-> h.kids, ret |-> h.ret]
    BY <2>2 DEF Edited, IsFrame
  <2> QED  BY <2>1, <2>2, <2>3 DEF Edited, IsFrame
<1> QED
  BY <1>2, <1>3, <1>4, <1>5, <1>6

(* A copy in the base goes on below what nothing is mounted in.            *)
CopiesClear(f, b) == b /\ f.fs = Base /\ f.op = "cp" => Clear(f.q)

LEMMA EditedBehind ==
  ASSUME NEW b, NEW f, NEW g, NEW r, NEW t, NEW pc, NEW kids \in Seq(Names),
         OnTop(f, r, t, b), Edited(g, f, pc, kids), pc # "start", CopiesClear(f, b)
  PROVE  Behind(g, r, b)
<1>1. Shaped(g)
  BY DEF OnTop, Shaped, Edited
<1>2. \A x : Whole(g, x) = Whole(f, x)
  BY DEF Whole, Edited
<1>3. Belongs(f, r) => Belongs(g, r)
  BY <1>2 DEF Belongs, Edited
<1>4. b => Open(g)
  BY DEF OnTop, Open, CopiesClear, Edited
<1> QED
  BY <1>1, <1>3, <1>4 DEF Behind, OnTop, Edited

(* What the invocations of c do next fits.                                 *)
Turns(c) ==
  \E x : /\ calls' = [calls EXCEPT ![c] = x]
         /\ CallFits(x, data'[Base], calm)
         /\ x.stack # <<>> => x.req = calls[c].req /\ x.id = calls[c].id

LEMMA TopFacts ==
  ASSUME IInv, NEW c \in Callers, Busy(c)
  PROVE  /\ OnTop(Top(c), calls[c].req, data[Base], calm)
         /\ Waiting(Tail(calls[c].stack), calls[c].req, calm)
         /\ calls[c].req \in Requests
         /\ Top(c).p \in Seq(Names) /\ Top(c).q \in Seq(Names) /\ Top(c).kids \in Seq(Names)
         /\ IsFrame(Top(c))
<1>1. StackFits(calls[c].stack, calls[c].req, data[Base], calm) /\ calls[c].stack # <<>>
  BY DEF IInv, CallsFit, CallFits, Busy
<1>2. OnTop(Top(c), calls[c].req, data[Base], calm) /\ Waiting(Tail(calls[c].stack), calls[c].req, calm)
  BY <1>1, TopOf DEF Top
<1>3. calls[c].req \in Requests
  BY DEF IInv, CallsOK
<1> QED
  BY <1>2, <1>3 DEF OnTop, Shaped

LEMMA StackSet ==
  ASSUME IInv, NEW c \in Callers, NEW s, StackFits(s, calls[c].req, data'[Base], calm),
         calls' = [calls EXCEPT ![c].stack = s]
  PROVE  Turns(c)
<1> DEFINE y == calls[c]
           x == [stack |-> s, req |-> y.req, id |-> y.id, out |-> y.out, before |-> y.before]
<1>1. IsCall(y) /\ DOMAIN calls = Callers
  BY DEF IInv, CallsFit, CallFits
<1>2. calls' = [calls EXCEPT ![c] = x]
  <2>1. calls' = [calls EXCEPT ![c] = [y EXCEPT !.stack = s]]
    BY <1>1
  <2>2. [y EXCEPT !.stack = s] = x
    <3> HIDE DEF y
    <3> QED  BY <1>1 DEF IsCall
  <2> QED  BY <2>1, <2>2
<1>3. IsCall(x) /\ x.stack = s /\ x.req = calls[c].req /\ x.id = calls[c].id
  BY DEF IsCall
<1> HIDE DEF x
<1> QED
  BY <1>2, <1>3 DEF Turns, CallFits

LEMMA AwaitTurns ==
  ASSUME IInv, NEW c \in Callers, Busy(c), NEW g, Behind(g, calls[c].req, calm), Await(c, g)
  PROVE  Turns(c)
<1> DEFINE s == <<g>> \o Tail(calls[c].stack)
<1>1. OnTop(g, calls[c].req, data'[Base], calm)
  BY BehindOnTop
<1>2. StackFits(s, calls[c].req, data'[Base], calm)
  BY <1>1, TopFacts, OnTopOf
<1>3. calls' = [calls EXCEPT ![c].stack = s]
  BY DEF Await
<1> HIDE DEF s
<1> QED
  BY <1>2, <1>3, StackSet

LEMMA InvokeTurns ==
  ASSUME IInv, NEW c \in Callers, Busy(c), NEW g, Behind(g, calls[c].req, calm),
         NEW n, OnTop(n, calls[c].req, data'[Base], calm), Invoke(c, g, <<n>>)
  PROVE  Turns(c)
<1> DEFINE u == Tail(calls[c].stack)
           s == <<n>> \o (<<g>> \o u)
<1>1. Waiting(u, calls[c].req, calm)
  BY TopFacts
<1>2. Waiting(<<g>> \o u, calls[c].req, calm)
  <2> HIDE DEF u
  <2> QED  BY <1>1, Push
<1>3. StackFits(s, calls[c].req, data'[Base], calm)
  <2> HIDE DEF u
  <2> QED  BY <1>2, OnTopOf
<1>4. <<n>> \o <<g>> \o u = s
  <2> HIDE DEF u
  <2> QED  BY <1>1, StackedTwice
<1>5. calls' = [calls EXCEPT ![c].stack = s]
  <2>1. calls' = [calls EXCEPT ![c].stack = <<n>> \o <<g>> \o u]
    BY DEF Invoke
  <2> HIDE DEF u, s
  <2> QED  BY <1>4, <2>1
<1> HIDE DEF s, u
<1> QED
  BY <1>3, <1>5, StackSet

LEMMA ReturnTurns ==
  ASSUME IInv, NEW c \in Callers, Busy(c), NEW out, Return(c, out)
  PROVE  Turns(c)
<1> DEFINE u == Tail(calls[c].stack)
<1>1. Waiting(u, calls[c].req, calm)
  BY TopFacts
<1>2. CASE u = <<>>
  <2>1. calls' = [calls EXCEPT ![c] = Idle(out)]
    BY <1>2 DEF Return
  <2>2. Idle(out).stack = <<>> /\ IsCall(Idle(out))
    BY DEF Idle, IsCall
  <2> QED  BY <2>1, <2>2 DEF Turns, CallFits, StackFits
<1>3. CASE u # <<>>
  <2> DEFINE f == Head(u)
             g == [f EXCEPT !.ret = out]
  <2>1. Behind(f, calls[c].req, calm) /\ Waiting(Tail(u), calls[c].req, calm)
    <3> HIDE DEF u
    <3> QED  BY <1>1, <1>3, Pop
  <2>2. Behind(g, calls[c].req, calm)
    <3> HIDE DEF f
    <3>1. Edited(g, f, f.pc, f.kids) /\ f.kids \in Seq(Names) /\ f.pc # "start"
      BY <2>1, Edits DEF Behind, Shaped
    <3>2. OnTop(f, calls[c].req, data[Base], calm) /\ CopiesClear(f, calm)
      BY <2>1, BehindOnTop DEF Behind, Open, CopiesClear
    <3> HIDE DEF g
    <3> QED  BY <3>1, <3>2, EditedBehind
  <2>3. OnTop(g, calls[c].req, data'[Base], calm)
    <3> HIDE DEF f, g, u
    <3> QED  BY <2>2, BehindOnTop
  <2>4. StackFits(<<g>> \o Tail(u), calls[c].req, data'[Base], calm)
    <3> HIDE DEF f, g, u
    <3> QED  BY <2>1, <2>3, OnTopOf
  <2>5. calls' = [calls EXCEPT ![c].stack = <<g>> \o Tail(u)]
    BY <1>3 DEF Return
  <2> HIDE DEF f, g, u
  <2> QED  BY <2>4, <2>5, StackSet
<1> QED
  BY <1>2, <1>3

-----------------------------------------------------------------------------
(* New invocations.                                                        *)

LEMMA MountIsNoStore == Base \in Stores /\ Base # "mount" /\ \A s \in Stores : s # "mount"
BY MountAssumption

\* The frame of an operation.
LEMMA FrameIs ==
  ASSUME NEW fs, NEW r, NEW pc
  PROVE  LET n == Frame(fs, r, pc)
         IN /\ IsFrame(n)
            /\ n.fs = fs /\ n.op = r.op /\ n.p = r.p /\ n.q = r.q /\ n.pc = pc
            /\ n.kids = <<>>
BY DEF Frame, IsFrame

LEMMA FrameShaped ==
  ASSUME NEW n, IsFrame(n), n.fs \in Stores \cup {"mount"},
         n.p \in Seq(Names), n.q \in Seq(Names), n.kids = <<>>,
         n.op \in {"rm", "mv"} => n.p # Root
  PROVE  Shaped(n)
<1>1. <<>> \in Seq(Names)
  OBVIOUS
<1> QED
  BY <1>1 DEF Shaped

(* r is called on the way of the call req, with paths seen from outside.   *)
Suits(r, req) ==
  /\ r.p \in Seq(Names) /\ r.q \in Seq(Names)
  /\ r.op \in {"rm", "mv"} => r.p # Root
  /\ remounts = 0 => Owns(r.op, r.p, r.q, req)

\* An invocation of the mounted file system itself.
LEMMA MountFrameFits ==
  ASSUME NEW r, NEW req, Suits(r, req), NEW g, NEW b, IsFrame(g), g.fs = "mount", g.op = r.op,
         g.p = r.p, g.q = r.q, g.kids = <<>>, g.pc # "start"
  PROVE  Behind(g, req, b)
<1>1. Shaped(g)
  BY FrameShaped DEF Suits
<1>2. remounts = 0 => Belongs(g, req)
  BY DEF Suits, Belongs, Whole
<1>3. Open(g)
  BY MountIsNoStore DEF Open
<1> QED
  BY <1>1, <1>2, <1>3 DEF Behind

(* What makes a copy or a move inside the base keep clear of the mounts, t *)
(* being what the base holds.                                              *)
Spares(r, t) ==
  r.op \in {"cp", "mv"} /\ ~Hidden(r.p) =>
    /\ r.op = "mv" => Clear(r.p)
    /\ Look(t, r.p).t = "dir" => Clear(r.q)

LEMMA NotSettled ==
  ASSUME NEW r, Settled(r) = "no"
  PROVE  /\ r.op = "rm" => ~IsMount(r.p) /\ MountsBelow(r.p) = {}
         /\ r.op = "mv" => ~IsMount(r.p)
         /\ r.op = "link" => SameStore(r)
<1>1. CASE r.op = "rm"
  <2>1. Settled(r) = IF IsMount(r.p) \/ MountsBelow(r.p) # {} THEN "EBUSY" ELSE "no"
    BY <1>1 DEF Settled
  <2> QED  BY <1>1, <2>1
<1>2. CASE r.op = "mv"
  <2>1. Settled(r) = IF IsMount(r.p) THEN "EBUSY" ELSE "no"
    BY <1>2 DEF Settled
  <2> QED  BY <1>2, <2>1
<1>3. CASE r.op = "link"
  <2>1. Settled(r) = IF SameStore(r) THEN "no" ELSE "EXDEV"
    BY <1>3 DEF Settled
  <2> QED  BY <1>3, <2>1
<1> QED
  BY <1>1, <1>2, <1>3

\* An operation that is passed on to the store of its path.
LEMMA RoutedFits ==
  ASSUME MountsInv, NEW r, NEW req, NEW t, NEW b, Suits(r, req), Settled(r) = "no",
         r.op \in {"cp", "mv"} => SameStore(r), b => Spares(r, t)
  PROVE  \E n : Routed(r) = <<n>> /\ OnTop(n, req, t, b)
<1> DEFINE path == Route(r.p)
           to == Route(r.q)
           two == r.op \in {"cp", "mv", "link"}
           q == IF two THEN to.p ELSE r.q
           x == Req(r.op, path.p, q, r.o)
           n == Frame(path.fs, x, "start")
<1>1. /\ r.p \in Seq(Names) /\ r.q \in Seq(Names)
      /\ path.fs \in Stores /\ path.p \in Seq(Names) /\ Home(path.fs) \o path.p = r.p
      /\ path.fs = Base <=> ~Hidden(r.p)
      /\ ~Hidden(r.p) => path.p = r.p
      /\ path.p = Root => r.p = Root \/ IsMount(r.p)
      /\ to.fs \in Stores /\ to.p \in Seq(Names) /\ Home(to.fs) \o to.p = r.q
      /\ to.fs = Base <=> ~Hidden(r.q)
      /\ ~Hidden(r.q) => to.p = r.q
  BY RouteIs DEF Suits
<1>2. two => path.fs = to.fs
  BY NotSettled DEF SameStore
<1>3. q \in Seq(Names)
  BY <1>1
<1>4. Routed(r) = <<n>>
  BY DEF Routed, Enter
<1>5. /\ IsFrame(n) /\ n.fs = path.fs /\ n.op = r.op /\ n.p = path.p /\ n.q = q
      /\ n.pc = "start" /\ n.kids = <<>>
  <2>1. x.op = r.op /\ x.p = path.p /\ x.q = q
    BY DEF Req
  <2> HIDE DEF x, path, q
  <2> QED  BY <2>1, FrameIs
<1>6. n.op \in {"rm", "mv"} => n.p # Root
  <2> HIDE DEF n, q, to, path
  <2>1. r.op \in {"rm", "mv"} => r.p # Root /\ ~IsMount(r.p)
    BY NotSettled DEF Suits
  <2> QED  BY <1>1, <1>5, <2>1
<1>7. two => q = to.p
  OBVIOUS
<1> HIDE DEF n, q, path, to
<1>8. Shaped(n)
  BY <1>1, <1>3, <1>5, <1>6, FrameShaped
<1>9. remounts = 0 => Belongs(n, req)
  <2>1. Whole(n, n.p) = r.p
    BY <1>1, <1>5, MountIsNoStore DEF Whole
  <2>2. two => Whole(n, n.q) = r.q
    BY <1>1, <1>2, <1>5, <1>7, MountIsNoStore DEF Whole
  <2> QED  BY <1>5, <2>1, <2>2 DEF Suits, Belongs, Owns
<1>10. ASSUME b PROVE Open(n)
  <2> SUFFICES ASSUME path.fs = Base PROVE Open(n)
    BY <1>5 DEF Open
  <2>1. ~Hidden(r.p) /\ n.p = r.p
    BY <1>1, <1>5
  <2>2. two => ~Hidden(n.q)
    BY <1>1, <1>2, <1>5, <1>7
  <2>3. r.op = "rm" => Clear(r.p)
    BY <1>1, <2>1, NotSettled, ClearIs
  <2>4. r.op = "mv" => Clear(r.p)
    BY <1>10, <2>1 DEF Spares
  <2> QED  BY <1>5, <2>1, <2>2, <2>3, <2>4 DEF Open
<1>11. ASSUME b PROVE Fresh(n, t)
  <2> SUFFICES ASSUME path.fs = Base, r.op \in {"cp", "mv"}, Look(t, n.p).t = "dir"
               PROVE  Clear(n.q)
    BY <1>5 DEF Fresh
  <2>1. ~Hidden(r.p) /\ n.p = r.p /\ n.q = r.q
    BY <1>1, <1>2, <1>5, <1>7
  <2> QED  BY <1>11, <2>1 DEF Spares
<1>12. OnTop(n, req, t, b)
  BY <1>8, <1>9, <1>10, <1>11 DEF OnTop
<1> QED
  BY <1>4, <1>12

\* What a cross-mount copy begins with.
LEMMA CrossFits ==
  ASSUME NEW r, NEW req, NEW b, Suits(r, req)
  PROVE  Behind(Cross(r), req, b)
<1> DEFINE f == Frame("mount", r, "lstat")
           g == Cross(r)
<1>1. /\ IsFrame(f) /\ f.fs = "mount" /\ f.op = r.op /\ f.p = r.p /\ f.q = r.q
      /\ f.pc = "lstat" /\ f.kids = <<>>
  BY FrameIs
<1>2. g = [f EXCEPT !.res = Lstat(r.p)]
  BY DEF Cross
<1>3. /\ IsFrame(g) /\ g.fs = "mount" /\ g.op = r.op /\ g.p = r.p /\ g.q = r.q
      /\ g.pc = "lstat" /\ g.kids = <<>>
  <2> HIDE DEF f, g
  <2> DEFINE x == Lstat(r.p)
  <2>1. [f EXCEPT !.res = x] =
          [fs |-> f.fs, op |-> f.op, p |-> f.p, q |-> f.q, o |-> f.o, pc |-> f.pc,
           has |-> f.has, res |-> x, kids |-> f.kids, ret |-> f.ret]
    <3> HIDE DEF x
    <3> QED  BY <1>1 DEF IsFrame
  <2> HIDE DEF x
  <2> QED  BY <1>1, <1>2, <2>1 DEF IsFrame, x
<1> HIDE DEF f, g
<1>4. Behind(g, req, b)
  BY <1>3, MountFrameFits
<1> QED
  BY <1>4 DEF g

\* An operation that ends at once is one invocation.
LEMMA SettledFits ==
  ASSUME NEW r, NEW req, NEW t, NEW b, Suits(r, req), Settled(r) # "no"
  PROVE  \E n : Pass(r) = <<n>> /\ OnTop(n, req, t, b)
<1> DEFINE f == Frame("mount", r, "settled")
           n == [f EXCEPT !.ret = Settled(r)]
<1>1. Pass(r) = <<n>>
  BY DEF Pass
<1>2. /\ IsFrame(f) /\ f.fs = "mount" /\ f.op = r.op /\ f.p = r.p /\ f.q = r.q
      /\ f.pc = "settled" /\ f.kids = <<>>
  BY FrameIs
<1>3. Edited(n, f, f.pc, f.kids)
  <2> HIDE DEF f
  <2> QED  BY <1>2, Edits
<1> HIDE DEF f, n
<1>4. Behind(n, req, b)
  BY <1>2, <1>3, MountFrameFits DEF Edited
<1> QED
  BY <1>1, <1>4, BehindOnTop

\* An operation that is neither a copy nor a move is one invocation.
LEMMA PassFits ==
  ASSUME MountsInv, NEW r, NEW req, NEW t, NEW b, Suits(r, req), r.op \notin {"cp", "mv"}
  PROVE  \E n : Pass(r) = <<n>> /\ OnTop(n, req, t, b)
<1>1. CASE Settled(r) # "no"
  BY <1>1, SettledFits
<1>2. CASE Settled(r) = "no"
  <2>1. Pass(r) = Routed(r)
    BY <1>2 DEF Pass
  <2>2. Spares(r, t)
    BY DEF Spares
  <2> QED  BY <1>2, <2>1, <2>2, RoutedFits
<1> QED
  BY <1>1, <1>2

-----------------------------------------------------------------------------
(* What the steps of a call may change.                                    *)

LEMMA OwnsFootprint ==
  ASSUME NEW op, NEW p \in Seq(Names), NEW q \in Seq(Names), NEW r,
         r.p \in Seq(Names), r.q \in Seq(Names), Owns(op, p, q, r)
  PROVE  /\ op \in {"write", "append", "symlink", "mkdir"} =>
              \A x \in Chain(p) : Footprint(r, x)
         /\ op \in {"rm", "chmod", "utimes"} => Footprint(r, p)
         /\ op \in {"cp", "link"} => \A x \in Chain(q) : Footprint(r, x)
<1>1. ASSUME NEW y \in Seq(Names), Under(y, r.q), r.op \in {"cp", "mv"}
      PROVE  \A x \in Chain(y) : Footprint(r, x)
  <2>1. ASSUME NEW x \in Ancestors(y) PROVE Under(x, r.q) \/ x \in Ancestors(r.q)
    BY <1>1, <2>1, AncestorsUnder
  <2> QED  BY <1>1, <2>1 DEF Footprint, Chain
<1>2. CASE op \in {"write", "append", "symlink"}
  BY <1>2 DEF Owns, Footprint, Chain
<1>3. CASE op = "mkdir"
  <2>1. CASE r.op = "mkdir" /\ p = r.p
    BY <1>3, <2>1 DEF Footprint, Chain
  <2>2. CASE r.op \in {"cp", "mv"} /\ Under(p, r.q)
    BY <1>1, <1>3, <2>2
  <2> QED  BY <1>3, <2>1, <2>2 DEF Owns
<1>4. CASE op \in {"rm", "chmod", "utimes"}
  BY <1>4 DEF Owns, Footprint
<1>5. CASE op = "link"
  BY <1>5 DEF Owns, Footprint, Chain
<1>6. CASE op = "cp"
  BY <1>1, <1>6 DEF Owns
<1> QED
  BY <1>2, <1>3, <1>4, <1>5, <1>6

LEMMA ChainWithin ==
  ASSUME MountsInv, NEW r, NEW s, NEW p \in Seq(Names),
         remounts = 0 => \A x \in Chain(Home(s) \o p) : Footprint(r, x),
         calm /\ s = Base => ~Hidden(p)
  PROVE  Within(r, s, Chain(p))
<1>1. Home(s) \in Seq(Names)
  BY HomeTyped
<1>2. \A x \in Chain(p) : x \in Seq(Names) /\ Home(s) \o x \in Chain(Home(s) \o p)
  BY <1>1, ChainIs
<1>3. calm /\ s = Base => \A x \in Chain(p) : ~Hidden(x)
  BY ChainOpen
<1> QED
  BY <1>2, <1>3 DEF Within

LEMMA PathWithin ==
  ASSUME MountsInv, NEW r, NEW s, NEW p \in Seq(Names),
         remounts = 0 => Footprint(r, Home(s) \o p),
         calm /\ s = Base => ~Hidden(p)
  PROVE  Within(r, s, {p})
BY DEF Within

LEMMA RequestPaths ==
  ASSUME NEW r \in Requests
  PROVE  r.p \in Seq(Names) /\ r.q \in Seq(Names)
BY RequestIs

\* What an invocation on a store changes is what the call may change.
LEMMA FrameWithin ==
  ASSUME MountsInv, NEW f, NEW r \in Requests, NEW t, OnTop(f, r, t, calm), f.fs \in Stores
  PROVE  /\ f.op \in SyncOps => Within(r, f.fs, Touched(f))
         /\ f.op = "rm" => Within(r, f.fs, {f.p})
         /\ f.op = "cp" => Within(r, f.fs, Chain(f.q))
<1> DEFINE s == f.fs
           p == Home(s) \o f.p
           q == Home(s) \o f.q
<1>1. f.p \in Seq(Names) /\ f.q \in Seq(Names) /\ r.p \in Seq(Names) /\ r.q \in Seq(Names)
  BY RequestPaths DEF OnTop, Shaped
<1>2. p \in Seq(Names) /\ q \in Seq(Names)
  BY <1>1, HomeTyped, JoinIs
<1>3. remounts = 0 => Owns(f.op, p, q, r)
  <2>1. Whole(f, f.p) = p /\ Whole(f, f.q) = q
    BY MountIsNoStore DEF Whole
  <2> HIDE DEF p, q
  <2> QED  BY <2>1 DEF OnTop, Belongs
<1>4. remounts = 0 =>
        /\ f.op \in {"write", "append", "symlink", "mkdir"} => \A x \in Chain(p) : Footprint(r, x)
        /\ f.op \in {"rm", "chmod", "utimes"} => Footprint(r, p)
        /\ f.op \in {"cp", "link"} => \A x \in Chain(q) : Footprint(r, x)
  <2> HIDE DEF p, q
  <2> QED  BY <1>1, <1>2, <1>3, OwnsFootprint
<1>5. calm /\ s = Base =>
        /\ f.op \in SyncOps \ {"link"} => ~Hidden(f.p)
        /\ f.op \in {"link", "cp"} => ~Hidden(f.q)
        /\ f.op = "rm" => ~Hidden(f.p)
  BY ClearOpen DEF OnTop, Open
<1>6. CASE f.op \in {"write", "append", "symlink", "mkdir"}
  <2>1. Touched(f) = Chain(f.p) /\ f.op \in SyncOps \ {"link"}
    BY <1>6 DEF Touched, SyncOps
  <2>2. Within(r, s, Chain(f.p))
    BY <1>1, <1>4, <1>5, <1>6, <2>1, ChainWithin
  <2> QED  BY <1>6, <2>1, <2>2
<1>7. CASE f.op \in {"chmod", "utimes"}
  <2>1. Touched(f) = {f.p} /\ f.op \in SyncOps \ {"link"}
    BY <1>7 DEF Touched, SyncOps
  <2>2. Within(r, s, {f.p})
    BY <1>1, <1>4, <1>5, <1>7, <2>1, PathWithin
  <2> QED  BY <1>7, <2>1, <2>2
<1>8. CASE f.op = "rm"
  BY <1>1, <1>4, <1>5, <1>8, PathWithin DEF SyncOps
<1>9. CASE f.op = "link"
  <2>1. Touched(f) = Chain(f.q)
    BY <1>9 DEF Touched
  <2>2. Within(r, s, Chain(f.q))
    BY <1>1, <1>4, <1>5, <1>9, ChainWithin
  <2> QED  BY <1>9, <2>1, <2>2
<1>10. CASE f.op = "cp"
  BY <1>1, <1>4, <1>5, <1>10, ChainWithin DEF SyncOps
<1> QED
  BY <1>6, <1>7, <1>8, <1>9, <1>10 DEF SyncOps

\* What a copy between two stores changes, where its destination is now.
LEMMA CrossWithin ==
  ASSUME MountsInv, NEW f, NEW r \in Requests, NEW t, OnTop(f, r, t, calm),
         f.fs = "mount", f.op = "cp"
  PROVE  Within(r, Route(f.q).fs, Chain(Route(f.q).p))
<1> DEFINE to == Route(f.q)
<1>1. f.p \in Seq(Names) /\ f.q \in Seq(Names) /\ r.p \in Seq(Names) /\ r.q \in Seq(Names)
  BY RequestPaths DEF OnTop, Shaped
<1>2. /\ to.p \in Seq(Names) /\ Home(to.fs) \o to.p = f.q
      /\ to.fs = Base => ~Hidden(f.q)
      /\ ~Hidden(f.q) => to.p = f.q
  BY <1>1, RouteIs
<1>3. remounts = 0 => Owns("cp", f.p, f.q, r)
  BY DEF OnTop, Belongs, Whole
<1>4. remounts = 0 => \A x \in Chain(f.q) : Footprint(r, x)
  BY <1>1, <1>3, OwnsFootprint
<1> HIDE DEF to
<1>5. Within(r, to.fs, Chain(to.p))
  BY <1>2, <1>4, ChainWithin
<1> QED
  BY <1>5 DEF to

-----------------------------------------------------------------------------
(* The steps of an invocation on a store.                                  *)

Moves(c) == Turns(c) /\ Change(calls[c].req)

LEMMA Quietly ==
  ASSUME IInv, NEW c \in Callers, UNCHANGED data, Turns(c)
  PROVE  Moves(c)
BY DEF Moves, Change

LEMMA BecomesMoves ==
  ASSUME IInv, NEW c \in Callers, Top(c).fs \in Stores, Turns(c),
         NEW u, NEW A, Becomes(c, u), Alters(u, Entries(c), A),
         Within(calls[c].req, Top(c).fs, A)
  PROVE  Moves(c)
BY DEF Moves, Change, Becomes, Becoming, Entries

LEMMA ReturnMoves ==
  ASSUME IInv, NEW c \in Callers, Busy(c), NEW out, Return(c, out), UNCHANGED data
  PROVE  Moves(c)
BY ReturnTurns, Quietly

LEMMA AwaitMoves ==
  ASSUME IInv, NEW c \in Callers, Busy(c), NEW g, NEW pc, NEW kids \in Seq(Names),
         Edited(g, Top(c), pc, kids), pc # "start", CopiesClear(Top(c), calm),
         Await(c, g), UNCHANGED data
  PROVE  Moves(c)
<1>1. Behind(g, calls[c].req, calm)
  BY TopFacts, EditedBehind
<1> QED
  BY <1>1, AwaitTurns, Quietly

LEMMA InvokeMoves ==
  ASSUME IInv, NEW c \in Callers, Busy(c), NEW g, NEW pc, NEW kids \in Seq(Names),
         Edited(g, Top(c), pc, kids), pc # "start", CopiesClear(Top(c), calm),
         NEW n, OnTop(n, calls[c].req, data[Base], calm),
         Invoke(c, g, <<n>>), UNCHANGED data
  PROVE  Moves(c)
<1>1. Behind(g, calls[c].req, calm)
  BY TopFacts, EditedBehind
<1>2. OnTop(n, calls[c].req, data'[Base], calm)
  OBVIOUS
<1> QED
  BY <1>1, <1>2, InvokeTurns, Quietly

LEMMA SyncMoves ==
  ASSUME IInv, NEW c \in Callers, NEW op \in SyncOps, Sync(c, op)
  PROVE  Moves(c)
<1> DEFINE f == Top(c)
           end == MemSync(Entries(c), f, calls[c].id)
<1>1. Busy(c) /\ f.fs \in Stores /\ f.op \in SyncOps /\ Becomes(c, end.t) /\ Return(c, end.out)
  BY DEF Sync, InStore
<1>2. OnTop(f, calls[c].req, data[Base], calm) /\ calls[c].req \in Requests
  BY <1>1, TopFacts
<1> HIDE DEF f
<1>3. Alters(end.t, Entries(c), Touched(f))
  BY <1>1, SyncAlters
<1>4. Within(calls[c].req, f.fs, Touched(f))
  BY <1>1, <1>2, FrameWithin DEF IInv
<1> HIDE DEF end
<1>5. Turns(c)
  BY <1>1, ReturnTurns
<1> QED
  BY <1>1, <1>3, <1>4, <1>5, BecomesMoves DEF f

(* The call r may get to rm or cp of p on the store s.                     *)
MayEnter(s, op, p, q, r) ==
  /\ s \in Stores /\ op \in {"rm", "cp"} /\ p \in Seq(Names) /\ q \in Seq(Names)
  /\ op = "rm" => p # Root
  /\ remounts = 0 => Owns(op, Home(s) \o p, Home(s) \o q, r)
  /\ calm /\ s = Base =>
       /\ op = "rm" => Clear(p)
       /\ op = "cp" => ~Hidden(q) /\ (Look(data[Base], p).t = "dir" => Clear(q))

\* The invocation of rm or cp on the store of the one that calls it.
LEMMA NewFits ==
  ASSUME MountsInv, NEW s, NEW op, NEW p, NEW q, NEW o, NEW r, MayEnter(s, op, p, q, r)
  PROVE  \E n : Enter(s, Req(op, p, q, o)) = <<n>> /\ OnTop(n, r, data[Base], calm)
<1> DEFINE x == Req(op, p, q, o)
           n == Frame(s, x, "start")
<1>1. Enter(s, x) = <<n>>
  BY DEF Enter
<1>2. x.op = op /\ x.p = p /\ x.q = q
  BY DEF Req
<1> HIDE DEF x
<1>3. /\ IsFrame(n) /\ n.fs = s /\ n.op = op /\ n.p = p /\ n.q = q /\ n.pc = "start"
      /\ n.kids = <<>>
  BY <1>2, FrameIs
<1> HIDE DEF n
<1>4. Shaped(n)
  BY <1>3, FrameShaped DEF MayEnter
<1>5. remounts = 0 => Belongs(n, r)
  <2>1. Whole(n, n.p) = Home(s) \o p /\ Whole(n, n.q) = Home(s) \o q
    BY <1>3, MountIsNoStore DEF Whole, MayEnter
  <2> QED  BY <1>3, <2>1 DEF Belongs, MayEnter
<1>6. calm => Open(n) /\ Fresh(n, data[Base])
  BY <1>3, ClearOpen DEF Open, Fresh, SyncOps, MayEnter
<1>7. OnTop(n, r, data[Base], calm)
  BY <1>4, <1>5, <1>6 DEF OnTop
<1> QED
  BY <1>1, <1>7 DEF x

(* What the innermost invocation on a store knows.                         *)
LEMMA StoreFacts ==
  ASSUME IInv, NEW c \in Callers, Busy(c), Top(c).fs \in Stores
  PROVE  LET f == Top(c)
             r == calls[c].req
             p == Home(f.fs) \o f.p
             q == Home(f.fs) \o f.q
         IN /\ MountsInv
            /\ IsFrame(f) /\ r \in Requests
            /\ f.p \in Seq(Names) /\ f.q \in Seq(Names) /\ f.kids \in Seq(Names)
            /\ p \in Seq(Names) /\ q \in Seq(Names) /\ Home(f.fs) \in Seq(Names)
            /\ r.p \in Seq(Names) /\ r.q \in Seq(Names)
            /\ f.op \in {"rm", "mv"} => f.p # Root
            /\ remounts = 0 => Owns(f.op, p, q, r)
            /\ calm => Open(f) /\ Fresh(f, data[Base])
            /\ f.pc # "start" \/ f.op # "cp" => CopiesClear(f, calm)
<1> DEFINE f == Top(c)
           r == calls[c].req
           p == Home(f.fs) \o f.p
           q == Home(f.fs) \o f.q
<1>1. OnTop(f, r, data[Base], calm) /\ r \in Requests
      /\ f.p \in Seq(Names) /\ f.q \in Seq(Names) /\ f.kids \in Seq(Names) /\ IsFrame(f)
  BY TopFacts
<1>2. MountsInv
  BY DEF IInv
<1>3. Home(f.fs) \in Seq(Names) /\ p \in Seq(Names) /\ q \in Seq(Names)
  BY <1>1, <1>2, HomeTyped, JoinIs
<1>4. f.op \in {"rm", "mv"} => f.p # Root
  BY <1>1 DEF OnTop, Shaped
<1>5. remounts = 0 => Owns(f.op, p, q, r)
  <2>1. Whole(f, f.p) = p /\ Whole(f, f.q) = q
    BY MountIsNoStore DEF Whole
  <2> HIDE DEF f, p, q, r
  <2> QED  BY <1>1, <2>1 DEF OnTop, Belongs
<1>6. calm => Open(f) /\ Fresh(f, data[Base])
  BY <1>1 DEF OnTop
<1>7. f.pc # "start" \/ f.op # "cp" => CopiesClear(f, calm)
  <2> HIDE DEF f
  <2> QED  BY <1>6 DEF Open, CopiesClear
<1>8. r.p \in Seq(Names) /\ r.q \in Seq(Names)
  BY <1>1, RequestPaths
<1> QED
  BY <1>1, <1>2, <1>3, <1>4, <1>5, <1>6, <1>7, <1>8

LEMMA ChildOwned ==
  ASSUME NEW r, r.p \in Seq(Names), r.q \in Seq(Names), NEW h \in Seq(Names),
         NEW p \in Seq(Names), NEW k \in Names
  PROVE  /\ \A x, y : Owns("rm", h \o p, x, r) => Owns("rm", h \o Child(p, k), y, r)
         /\ \A x, y : Owns("cp", x, h \o p, r) => Owns("cp", y, h \o Child(p, k), r)
<1>1. h \o Child(p, k) = Child(h \o p, k) /\ h \o p \in Seq(Names)
  <2> DEFINE S == Names
  <2>1. h \in Seq(S) /\ p \in Seq(S) /\ k \in S
    OBVIOUS
  <2> HIDE DEF S
  <2>2. h \o Child(p, k) = Child(h \o p, k)
    BY ONLY <2>1, ChildJoin
  <2>3. h \o p \in Seq(Names)
    BY JoinIs
  <2> QED  BY <2>2, <2>3
<1>2. Under(h \o p, r.p) => Under(h \o Child(p, k), r.p)
  BY <1>1, ChildUnder
<1>3. Under(h \o p, r.q) => Under(h \o Child(p, k), r.q)
  BY <1>1, ChildUnder
<1> QED
  BY <1>2, <1>3 DEF Owns

LEMMA HeadTyped ==
  ASSUME NEW kids \in Seq(Names), kids # <<>>
  PROVE  Head(kids) \in Names /\ Tail(kids) \in Seq(Names)
BY HeadTailProperties

LEMMA RmMoves ==
  ASSUME IInv, NEW c \in Callers, RmStart(c) \/ RmList(c)
  PROVE  Moves(c)
<1> DEFINE f == Top(c)
           r == calls[c].req
           H == Home(f.fs)
<1>1. Busy(c) /\ f.fs \in Stores /\ f.op = "rm"
  BY DEF RmStart, RmList, InStore
<1>2. /\ MountsInv
      /\ IsFrame(f) /\ r \in Requests
      /\ f.p \in Seq(Names) /\ f.kids \in Seq(Names)
      /\ H \o f.p \in Seq(Names) /\ H \in Seq(Names)
      /\ r.p \in Seq(Names) /\ r.q \in Seq(Names)
      /\ f.p # Root
      /\ remounts = 0 => Owns("rm", H \o f.p, H \o f.q, r)
      /\ calm => Open(f)
      /\ CopiesClear(f, calm)
  BY <1>1, StoreFacts
<1>3. OnTop(f, r, data[Base], calm)
  BY <1>1, TopFacts
<1>4. ASSUME Becomes(c, Without(Entries(c), f.p)), Return(c, "ok")
      PROVE  Moves(c)
  <2>1. Alters(Without(Entries(c), f.p), Entries(c), {f.p})
    BY <1>2, WithoutAlters
  <2>2. Within(r, f.fs, {f.p})
    <3> HIDE DEF f, r
    <3> QED  BY <1>1, <1>2, <1>3, FrameWithin
  <2>3. Turns(c)
    BY <1>1, <1>4, ReturnTurns
  <2> QED  BY <1>1, <1>4, <2>1, <2>2, <2>3, BecomesMoves
<1>5. ASSUME NEW out, Return(c, out), UNCHANGED data PROVE Moves(c)
  BY <1>1, <1>5, ReturnMoves
<1>6. CASE RmStart(c)
  <2> DEFINE kids == MemReaddir(Entries(c), f.p).kids
             g == [f EXCEPT !.pc = "list", !.kids = kids]
  <2>1. CASE Await(c, g) /\ UNCHANGED data
    <3>1. kids \in Seq(Names)
      BY ListTyped
    <3>2. Edited(g, f, "list", kids)
      <4> HIDE DEF f, kids
      <4> QED  BY <1>2, Edits
    <3> HIDE DEF g, kids
    <3> QED  BY <1>1, <1>2, <2>1, <3>1, <3>2, AwaitMoves
  <2>2. \/ \E out : Return(c, out) /\ UNCHANGED data
        \/ Becomes(c, Without(Entries(c), f.p)) /\ Return(c, "ok")
        \/ Await(c, g) /\ UNCHANGED data
    BY <1>6 DEF RmStart
  <2> HIDE DEF g
  <2> QED  BY <1>4, <1>5, <2>1, <2>2
<1>7. CASE RmList(c)
  <2> DEFINE k == Head(f.kids)
             g == [f EXCEPT !.kids = Tail(f.kids)]
             s == Enter(f.fs, Req("rm", Child(f.p, k), Root, f.o))
  <2>1. ASSUME f.kids # <<>>, f.pc = "list", Invoke(c, g, s), UNCHANGED data
        PROVE  Moves(c)
    <3>1. k \in Names /\ Tail(f.kids) \in Seq(Names)
      BY <1>2, <2>1, HeadTyped
    <3>2. Edited(g, f, "list", Tail(f.kids))
      <4>1. Edited(g, f, f.pc, Tail(f.kids))
        <5> HIDE DEF f
        <5> QED  BY <1>2, Edits
      <4> QED  BY <2>1, <4>1
    <3> HIDE DEF g, k
    <3>3. Child(f.p, k) \in Seq(Names) /\ Child(f.p, k) # Root /\ Root \in Seq(Names)
      BY <1>2, <3>1, ChildIs, JoinRoot
    <3>4. remounts = 0 => Owns("rm", H \o Child(f.p, k), H \o Root, r)
      <4> DEFINE p == f.p
      <4>1. /\ p \in Seq(Names) /\ k \in Names /\ H \in Seq(Names)
            /\ r.p \in Seq(Names) /\ r.q \in Seq(Names)
            /\ remounts = 0 => \E x : Owns("rm", H \o p, x, r)
        BY <1>2, <3>1
      <4> HIDE DEF H, r, p
      <4>2. remounts = 0 => \A y : Owns("rm", H \o Child(p, k), y, r)
        BY <4>1, ChildOwned
      <4> QED  BY <4>2 DEF p
    <3>5. calm /\ f.fs = Base => Clear(Child(f.p, k))
      BY <1>1, <1>2, <3>1, ClearChild DEF Open
    <3>6. MayEnter(f.fs, "rm", Child(f.p, k), Root, r)
      BY <1>1, <3>3, <3>4, <3>5 DEF MayEnter
    <3>7. \E n : s = <<n>> /\ OnTop(n, r, data[Base], calm)
      <4> DEFINE fs == f.fs
                 p == Child(f.p, k)
                 q == Root
                 o == f.o
                 op == "rm"
      <4>1. MountsInv /\ MayEnter(fs, op, p, q, r)
        BY <1>2, <3>6
      <4> HIDE DEF fs, p, q, o, op, r
      <4>2. \E n : Enter(fs, Req(op, p, q, o)) = <<n>> /\ OnTop(n, r, data[Base], calm)
        BY <4>1, NewFits
      <4> QED  BY <4>2 DEF fs, p, q, o, op
    <3> HIDE DEF s, f, r
    <3> QED  BY <1>1, <1>2, <2>1, <3>1, <3>2, <3>7, InvokeMoves DEF f, r
  <2>2. \/ \E out : Return(c, out) /\ UNCHANGED data
        \/ Becomes(c, Without(Entries(c), f.p)) /\ Return(c, "ok")
        \/ f.kids # <<>> /\ f.pc = "list" /\ Invoke(c, g, s) /\ UNCHANGED data
    BY <1>7 DEF RmList, InStore
  <2> HIDE DEF g, s
  <2> QED  BY <1>4, <1>5, <2>1, <2>2
<1> QED
  BY <1>6, <1>7


LEMMA CpMoves ==
  ASSUME IInv, NEW c \in Callers, CpStart(c) \/ CpMkdir(c) \/ CpList(c)
  PROVE  Moves(c)
<1> DEFINE f == Top(c)
           r == calls[c].req
           H == Home(f.fs)
<1>1. Busy(c) /\ f.fs \in Stores /\ f.op = "cp"
  BY DEF CpStart, CpMkdir, CpList, InStore
<1>2. /\ MountsInv
      /\ IsFrame(f) /\ r \in Requests
      /\ f.p \in Seq(Names) /\ f.q \in Seq(Names) /\ f.kids \in Seq(Names)
      /\ H \in Seq(Names)
      /\ r.p \in Seq(Names) /\ r.q \in Seq(Names)
      /\ remounts = 0 => Owns("cp", H \o f.p, H \o f.q, r)
      /\ calm => Open(f) /\ Fresh(f, data[Base])
      /\ f.pc # "start" => CopiesClear(f, calm)
  BY <1>1, StoreFacts
<1>3. OnTop(f, r, data[Base], calm)
  BY <1>1, TopFacts
<1>4. Within(r, f.fs, Chain(f.q))
  <2> HIDE DEF f, r
  <2> QED  BY <1>1, <1>2, <1>3, FrameWithin
<1>5. ASSUME NEW out, Return(c, out), UNCHANGED data PROVE Moves(c)
  BY <1>1, <1>5, ReturnMoves
<1>6. CASE CpStart(c)
  <2> DEFINE n == Look(Entries(c), f.p)
             end == MemMkdir(Entries(c), f.q, TRUE)
             g == [f EXCEPT !.pc = "mkdir"]
  <2>1. CASE Becomes(c, MemPut(Entries(c), f.q, n)) /\ Return(c, "ok")
    <3>1. Alters(MemPut(Entries(c), f.q, n), Entries(c), Chain(f.q))
      BY PutAlters
    <3>2. Turns(c)
      BY <1>1, <2>1, ReturnTurns
    <3> QED  BY <1>1, <1>4, <2>1, <3>1, <3>2, BecomesMoves
  <2>2. CASE f.pc = "start" /\ n.t = "dir" /\ Becomes(c, end.t) /\ (Await(c, g) \/ Return(c, end.out))
    <3>1. Alters(end.t, Entries(c), Chain(f.q))
      BY MkdirAlters
    <3>2. CASE Return(c, end.out)
      <4>1. Turns(c)
        BY <1>1, <3>2, ReturnTurns
      <4> HIDE DEF n, end, g
      <4> QED  BY <1>1, <1>4, <2>2, <3>1, <4>1, BecomesMoves
    <3>3. CASE Await(c, g)
      <4>1. Edited(g, f, "mkdir", f.kids)
        <5> HIDE DEF f
        <5> QED  BY <1>2, Edits
      <4>2. CopiesClear(f, calm)
        <5>1. f.fs = Base => Look(data[Base], f.p).t = "dir"
          BY <2>2 DEF Entries
        <5> HIDE DEF f, n
        <5> QED  BY <1>1, <1>2, <2>2, <5>1 DEF CopiesClear, Fresh
      <4>3. Behind(g, r, calm)
        <5> HIDE DEF f, g, r
        <5> QED  BY <1>2, <1>3, <4>1, <4>2, EditedBehind
      <4> HIDE DEF g
      <4>4. Turns(c)
        BY <1>1, <3>3, <4>3, AwaitTurns
      <4> HIDE DEF n, end
      <4> QED  BY <1>1, <1>4, <2>2, <3>1, <4>4, BecomesMoves
    <3> QED  BY <2>2, <3>2, <3>3
  <2>3. \/ \E out : Return(c, out) /\ UNCHANGED data
        \/ Becomes(c, MemPut(Entries(c), f.q, n)) /\ Return(c, "ok")
        \/ f.pc = "start" /\ n.t = "dir" /\ Becomes(c, end.t) /\ (Await(c, g) \/ Return(c, end.out))
    BY <1>6 DEF CpStart, InStore
  <2> HIDE DEF g, n, end
  <2> QED  BY <1>5, <2>1, <2>2, <2>3
<1>7. CASE CpMkdir(c)
  <2> DEFINE kids == MemReaddir(Entries(c), f.p).kids
             g == [f EXCEPT !.pc = "list", !.kids = kids]
  <2>1. CASE f.pc # "start" /\ Await(c, g) /\ UNCHANGED data
    <3>1. kids \in Seq(Names)
      BY ListTyped
    <3>2. Edited(g, f, "list", kids)
      <4> HIDE DEF f, kids
      <4> QED  BY <1>2, Edits
    <3> HIDE DEF g, kids
    <3> QED  BY <1>1, <1>2, <2>1, <3>1, <3>2, AwaitMoves
  <2>2. \/ \E out : Return(c, out) /\ UNCHANGED data
        \/ f.pc # "start" /\ Await(c, g) /\ UNCHANGED data
    BY <1>7 DEF CpMkdir, InStore
  <2> HIDE DEF g
  <2> QED  BY <1>5, <2>1, <2>2
<1>8. CASE CpList(c)
  <2> DEFINE k == Head(f.kids)
             g == [f EXCEPT !.kids = Tail(f.kids)]
             s == Enter(f.fs, Req("cp", Child(f.p, k), Child(f.q, k), f.o))
  <2>1. ASSUME f.kids # <<>>, f.pc = "list", Invoke(c, g, s), UNCHANGED data
        PROVE  Moves(c)
    <3>1. k \in Names /\ Tail(f.kids) \in Seq(Names)
      BY <1>2, <2>1, HeadTyped
    <3>2. Edited(g, f, "list", Tail(f.kids))
      <4>1. Edited(g, f, f.pc, Tail(f.kids))
        <5> HIDE DEF f
        <5> QED  BY <1>2, Edits
      <4> QED  BY <2>1, <4>1
    <3> HIDE DEF g, k
    <3>3. Child(f.p, k) \in Seq(Names) /\ Child(f.q, k) \in Seq(Names)
      BY <1>2, <3>1, ChildIs
    <3>4. remounts = 0 => Owns("cp", H \o Child(f.p, k), H \o Child(f.q, k), r)
      <4> DEFINE q == f.q
      <4>1. /\ q \in Seq(Names) /\ k \in Names /\ H \in Seq(Names)
            /\ r.p \in Seq(Names) /\ r.q \in Seq(Names)
            /\ remounts = 0 => \E x : Owns("cp", x, H \o q, r)
        BY <1>2, <3>1
      <4> HIDE DEF H, r, q
      <4>2. remounts = 0 => \A y : Owns("cp", y, H \o Child(q, k), r)
        BY <4>1, ChildOwned
      <4> QED  BY <4>2 DEF q
    <3>5. calm /\ f.fs = Base => Clear(Child(f.q, k))
      BY <1>1, <1>2, <2>1, <3>1, ClearChild DEF CopiesClear
    <3>6. MayEnter(f.fs, "cp", Child(f.p, k), Child(f.q, k), r)
      BY <1>1, <3>3, <3>4, <3>5, ClearOpen DEF MayEnter
    <3>7. \E n : s = <<n>> /\ OnTop(n, r, data[Base], calm)
      <4> DEFINE fs == f.fs
                 p == Child(f.p, k)
                 q == Child(f.q, k)
                 o == f.o
                 op == "cp"
      <4>1. MountsInv /\ MayEnter(fs, op, p, q, r)
        BY <1>2, <3>6
      <4> HIDE DEF fs, p, q, o, op, r
      <4>2. \E n : Enter(fs, Req(op, p, q, o)) = <<n>> /\ OnTop(n, r, data[Base], calm)
        BY <4>1, NewFits
      <4> QED  BY <4>2 DEF fs, p, q, o, op
    <3>8. CopiesClear(f, calm)
      BY <1>2, <2>1
    <3> HIDE DEF s, f, r
    <3> QED  BY <1>1, <1>2, <2>1, <3>1, <3>2, <3>7, <3>8, InvokeMoves DEF f, r
  <2>2. \/ \E out : Return(c, out) /\ UNCHANGED data
        \/ f.kids # <<>> /\ f.pc = "list" /\ Invoke(c, g, s) /\ UNCHANGED data
    BY <1>8 DEF CpList, InStore
  <2> HIDE DEF g, s
  <2> QED  BY <1>5, <2>1, <2>2
<1> QED
  BY <1>6, <1>7, <1>8

LEMMA MvMoves ==
  ASSUME IInv, NEW c \in Callers, MvStart(c) \/ MvCopied(c) \/ MvRemoved(c)
  PROVE  Moves(c)
<1> DEFINE f == Top(c)
           r == calls[c].req
           H == Home(f.fs)
<1>1. Busy(c) /\ f.fs \in Stores /\ f.op = "mv"
  BY DEF MvStart, MvCopied, MvRemoved, InStore
<1>2. /\ MountsInv
      /\ IsFrame(f) /\ r \in Requests
      /\ f.p \in Seq(Names) /\ f.q \in Seq(Names) /\ f.kids \in Seq(Names)
      /\ H \o f.p \in Seq(Names) /\ H \o f.q \in Seq(Names)
      /\ f.p # Root
      /\ remounts = 0 => Owns("mv", H \o f.p, H \o f.q, r)
      /\ calm => Open(f) /\ Fresh(f, data[Base])
      /\ CopiesClear(f, calm)
  BY <1>1, StoreFacts
<1>3. ASSUME NEW out, Return(c, out), UNCHANGED data PROVE Moves(c)
  BY <1>1, <1>3, ReturnMoves
<1>4. \A pc : Edited([f EXCEPT !.pc = pc], f, pc, f.kids)
  <2> HIDE DEF f
  <2> QED  BY <1>2, Edits
<1>5. ASSUME NEW op, NEW q, NEW pc, pc # "start", MayEnter(f.fs, op, f.p, q, r),
             Invoke(c, [f EXCEPT !.pc = pc], Enter(f.fs, Req(op, f.p, q, Recursive))),
             UNCHANGED data
      PROVE  Moves(c)
  <2> DEFINE g == [f EXCEPT !.pc = pc]
             s == Enter(f.fs, Req(op, f.p, q, Recursive))
  <2>1. Edited(g, f, pc, f.kids) /\ Invoke(c, g, s)
    BY <1>4, <1>5
  <2>2. \E n : s = <<n>> /\ OnTop(n, r, data[Base], calm)
    <3> HIDE DEF f, r
    <3> QED  BY <1>2, <1>5, NewFits
  <2> HIDE DEF g, s, f, r
  <2> QED  BY <1>1, <1>2, <1>5, <2>1, <2>2, InvokeMoves DEF f, r
<1>6. CASE MvStart(c)
  <2>1. f.pc = "start" /\ UNCHANGED data
        /\ Invoke(c, [f EXCEPT !.pc = "cp"], Enter(f.fs, Req("cp", f.p, f.q, Recursive)))
    BY <1>6 DEF MvStart, InStore
  <2>2. remounts = 0 => Owns("cp", H \o f.p, H \o f.q, r)
    <3> DEFINE x == H \o f.p
               y == H \o f.q
    <3>1. y \in Seq(Names) /\ (remounts = 0 => Owns("mv", x, y, r))
      BY <1>2
    <3> HIDE DEF x, y, r
    <3>2. Under(y, y)
      BY <3>1, UnderSelf
    <3>3. remounts = 0 => Owns("cp", x, y, r)
      BY <3>1, <3>2 DEF Owns
    <3> QED  BY <3>3 DEF x, y
  <2>3. calm /\ f.fs = Base => ~Hidden(f.q) /\ (Look(data[Base], f.p).t = "dir" => Clear(f.q))
    BY <1>1, <1>2, <2>1 DEF Open, Fresh
  <2>4. MayEnter(f.fs, "cp", f.p, f.q, r)
    BY <1>1, <1>2, <2>2, <2>3 DEF MayEnter
  <2> QED  BY <1>5, <2>1, <2>4
<1>7. CASE MvCopied(c)
  <2>1. \/ \E out : Return(c, out) /\ UNCHANGED data
        \/ Invoke(c, [f EXCEPT !.pc = "rm"], Enter(f.fs, Req("rm", f.p, Root, Recursive)))
           /\ UNCHANGED data
    BY <1>7 DEF MvCopied
  <2>2. remounts = 0 => Owns("rm", H \o f.p, H \o Root, r)
    <3> DEFINE x == H \o f.p
               y == H \o f.q
    <3>1. x \in Seq(Names) /\ (remounts = 0 => Owns("mv", x, y, r))
      BY <1>2
    <3> HIDE DEF x, y, r
    <3>2. Under(x, x)
      BY <3>1, UnderSelf
    <3>3. \A z : remounts = 0 => Owns("rm", x, z, r)
      BY <3>1, <3>2 DEF Owns
    <3> QED  BY <3>3 DEF x
  <2>3. calm /\ f.fs = Base => Clear(f.p)
    BY <1>1, <1>2 DEF Open
  <2>4. Root \in Seq(Names)
    BY <1>2, JoinRoot
  <2>5. MayEnter(f.fs, "rm", f.p, Root, r)
    BY <1>1, <1>2, <2>2, <2>3, <2>4 DEF MayEnter
  <2> QED  BY <1>3, <1>5, <2>1, <2>5
<1>8. CASE MvRemoved(c)
  BY <1>3, <1>8 DEF MvRemoved
<1> QED
  BY <1>6, <1>7, <1>8

LEMMA StoreStepMoves ==
  ASSUME IInv, NEW c \in Callers, StoreStep(c)
  PROVE  Moves(c)
BY SyncMoves, RmMoves, CpMoves, MvMoves DEF StoreStep


-----------------------------------------------------------------------------
(* The steps of an invocation of the mounted file system itself.           *)

LEMMA MountFacts ==
  ASSUME IInv, NEW c \in Callers, Busy(c), Top(c).fs = "mount"
  PROVE  LET f == Top(c)
             r == calls[c].req
         IN /\ MountsInv
            /\ IsFrame(f) /\ r \in Requests
            /\ f.p \in Seq(Names) /\ f.q \in Seq(Names) /\ f.kids \in Seq(Names)
            /\ r.p \in Seq(Names) /\ r.q \in Seq(Names)
            /\ f.op \in {"rm", "mv"} => f.p # Root
            /\ remounts = 0 => Owns(f.op, f.p, f.q, r)
            /\ CopiesClear(f, calm)
            /\ OnTop(f, r, data[Base], calm)
<1> DEFINE f == Top(c)
           r == calls[c].req
<1>1. OnTop(f, r, data[Base], calm) /\ r \in Requests
      /\ f.p \in Seq(Names) /\ f.q \in Seq(Names) /\ f.kids \in Seq(Names) /\ IsFrame(f)
  BY TopFacts
<1>2. MountsInv
  BY DEF IInv
<1>3. f.op \in {"rm", "mv"} => f.p # Root
  BY <1>1 DEF OnTop, Shaped
<1>4. remounts = 0 => Owns(f.op, f.p, f.q, r)
  BY <1>1 DEF OnTop, Belongs, Whole
<1>5. CopiesClear(f, calm)
  BY MountIsNoStore DEF CopiesClear
<1>6. r.p \in Seq(Names) /\ r.q \in Seq(Names)
  BY <1>1, RequestPaths
<1> QED
  BY <1>1, <1>2, <1>3, <1>4, <1>5, <1>6

\* The invocation of an operation that is neither a copy nor a move.
LEMMA PassMoves ==
  ASSUME IInv, NEW c \in Callers, Busy(c), Top(c).fs = "mount", NEW g, NEW pc, pc # "start",
         Edited(g, Top(c), pc, Top(c).kids), NEW x, x.op \notin {"cp", "mv"},
         Suits(x, calls[c].req), Invoke(c, g, Pass(x)), UNCHANGED data
  PROVE  Moves(c)
<1>1. MountsInv /\ Top(c).kids \in Seq(Names) /\ CopiesClear(Top(c), calm)
  BY MountFacts
<1>2. \E n : Pass(x) = <<n>> /\ OnTop(n, calls[c].req, data[Base], calm)
  BY <1>1, PassFits
<1> QED
  BY <1>1, <1>2, InvokeMoves

LEMMA MountMvMoves ==
  ASSUME IInv, NEW c \in Callers, MountSettled(c) \/ MountMvCopied(c) \/ MountMvRemoved(c),
         UNCHANGED data
  PROVE  Moves(c)
<1> DEFINE f == Top(c)
           r == calls[c].req
<1>1. Busy(c) /\ f.fs = "mount"
  BY DEF MountSettled, MountMvCopied, MountMvRemoved, OnMount, At
<1>2. ASSUME NEW out, Return(c, out) PROVE Moves(c)
  BY <1>1, <1>2, ReturnMoves
<1>3. CASE MountSettled(c) \/ MountMvRemoved(c)
  BY <1>2, <1>3 DEF MountSettled, MountMvRemoved
<1>4. CASE MountMvCopied(c)
  <2> DEFINE x == Req("rm", f.p, Root, Recursive)
             g == [f EXCEPT !.pc = "rm"]
  <2>1. f.op = "mv" /\ (\/ \E out : Return(c, out)
                        \/ Invoke(c, g, Pass(x)))
    BY <1>4 DEF MountMvCopied, OnMount, At
  <2>2. /\ MountsInv /\ IsFrame(f) /\ f.p \in Seq(Names) /\ f.kids \in Seq(Names) /\ f.p # Root
        /\ remounts = 0 => Owns("mv", f.p, f.q, r)
    BY <1>1, <2>1, MountFacts
  <2>3. Edited(g, f, "rm", f.kids)
    <3> HIDE DEF f
    <3> QED  BY <2>2, Edits
  <2>4. Suits(x, r)
    <3>1. x.op = "rm" /\ x.p = f.p /\ x.q = Root
      BY DEF Req
    <3>2. Under(f.p, f.p) /\ Root \in Seq(Names)
      BY <2>2, UnderSelf, JoinRoot
    <3>3. remounts = 0 => Owns("rm", f.p, Root, r)
      BY <2>2, <3>2 DEF Owns
    <3> HIDE DEF x, f, r
    <3> QED  BY <2>2, <3>1, <3>2, <3>3 DEF Suits
  <2>5. x.op \notin {"cp", "mv"}
    BY DEF Req
  <2> HIDE DEF g, x
  <2> QED  BY <1>1, <1>2, <2>1, <2>3, <2>4, <2>5, PassMoves
<1> QED
  BY <1>3, <1>4

LEMMA CrossLstatMoves ==
  ASSUME IInv, NEW c \in Callers, CrossLstat(c), UNCHANGED data
  PROVE  Moves(c)
<1> DEFINE f == Top(c)
           r == calls[c].req
           x == Req("mkdir", f.q, Root, Recursive)
<1>1. Busy(c) /\ f.fs = "mount" /\ f.op = "cp"
  BY DEF CrossLstat, OnMount, At
<1>2. /\ MountsInv /\ IsFrame(f) /\ f.q \in Seq(Names) /\ f.kids \in Seq(Names)
      /\ remounts = 0 => Owns("cp", f.p, f.q, r)
      /\ CopiesClear(f, calm)
  BY <1>1, MountFacts
<1>3. \A pc, res : Edited([f EXCEPT !.pc = pc, !.res = res], f, pc, f.kids)
  <2> HIDE DEF f
  <2> QED  BY <1>2, Edits
<1>4. ASSUME NEW out, Return(c, out) PROVE Moves(c)
  BY <1>1, <1>4, ReturnMoves
<1>5. ASSUME NEW pc, pc # "start", NEW res, Await(c, [f EXCEPT !.pc = pc, !.res = res])
      PROVE  Moves(c)
  <2> DEFINE g == [f EXCEPT !.pc = pc, !.res = res]
  <2>1. Edited(g, f, pc, f.kids) /\ Await(c, g)
    BY <1>3, <1>5
  <2> HIDE DEF g
  <2> QED  BY <1>1, <1>2, <1>5, <2>1, AwaitMoves
<1>6. CASE Invoke(c, [f EXCEPT !.pc = "mkdir", !.res = None], Pass(x))
  <2> DEFINE g == [f EXCEPT !.pc = "mkdir", !.res = None]
  <2>1. Edited(g, f, "mkdir", f.kids) /\ Invoke(c, g, Pass(x))
    BY <1>3, <1>6
  <2>2. x.op = "mkdir" /\ x.p = f.q /\ x.q = Root
    BY DEF Req
  <2>3. remounts = 0 => Owns("mkdir", f.q, Root, r)
    BY <1>2 DEF Owns
  <2>4. Root \in Seq(Names)
    BY <1>2, JoinRoot
  <2>5. Suits(x, r)
    <3> HIDE DEF x, f, r
    <3> QED  BY <1>2, <2>2, <2>3, <2>4 DEF Suits
  <2> HIDE DEF g, x
  <2> QED  BY <1>1, <2>1, <2>2, <2>5, PassMoves
<1>7. \/ \E out : Return(c, out)
      \/ \E res : Await(c, [f EXCEPT !.pc = "read", !.res = res])
      \/ \E res : Await(c, [f EXCEPT !.pc = "readlink", !.res = res])
      \/ Invoke(c, [f EXCEPT !.pc = "mkdir", !.res = None], Pass(x))
  BY DEF CrossLstat
<1> QED
  BY <1>4, <1>5, <1>6, <1>7

LEMMA CrossListMoves ==
  ASSUME IInv, NEW c \in Callers, CrossMkdir(c) \/ CrossList(c), UNCHANGED data
  PROVE  Moves(c)
<1> DEFINE f == Top(c)
           r == calls[c].req
<1>1. Busy(c) /\ f.fs = "mount" /\ f.op = "cp"
  BY DEF CrossMkdir, CrossList, OnMount, At
<1>2. /\ MountsInv /\ IsFrame(f) /\ f.p \in Seq(Names) /\ f.q \in Seq(Names)
      /\ f.kids \in Seq(Names) /\ r.q \in Seq(Names)
      /\ remounts = 0 => Owns("cp", f.p, f.q, r)
      /\ CopiesClear(f, calm)
  BY <1>1, MountFacts
<1>3. ASSUME NEW out, Return(c, out) PROVE Moves(c)
  BY <1>1, <1>3, ReturnMoves
<1>4. CASE CrossMkdir(c)
  <2> DEFINE kids == Readdir(f.p).kids
             g == [f EXCEPT !.pc = "list", !.kids = kids]
  <2>1. CASE Await(c, g)
    <3>1. kids \in Seq(Names)
      BY ReaddirTyped
    <3>2. Edited(g, f, "list", kids)
      <4> HIDE DEF f, kids
      <4> QED  BY <1>2, Edits
    <3> HIDE DEF g, kids
    <3> QED  BY <1>1, <1>2, <2>1, <3>1, <3>2, AwaitMoves
  <2>2. (\E out : Return(c, out)) \/ Await(c, g)
    BY <1>4 DEF CrossMkdir
  <2> HIDE DEF g
  <2> QED  BY <1>3, <2>1, <2>2
<1>5. CASE CrossList(c)
  <2> DEFINE k == Head(f.kids)
             g == [f EXCEPT !.kids = Tail(f.kids)]
             x == Req("cp", Child(f.p, k), Child(f.q, k), f.o)
  <2>1. ASSUME f.kids # <<>>, f.pc = "list", Invoke(c, g, <<Cross(x)>>)
        PROVE  Moves(c)
    <3>1. k \in Names /\ Tail(f.kids) \in Seq(Names)
      BY <1>2, <2>1, HeadTyped
    <3>2. Edited(g, f, "list", Tail(f.kids))
      <4>1. Edited(g, f, f.pc, Tail(f.kids))
        <5> HIDE DEF f
        <5> QED  BY <1>2, Edits
      <4> QED  BY <2>1, <4>1
    <3> HIDE DEF g, k
    <3>3. x.op = "cp" /\ x.p = Child(f.p, k) /\ x.q = Child(f.q, k)
      BY DEF Req
    <3>4. Child(f.p, k) \in Seq(Names) /\ Child(f.q, k) \in Seq(Names)
      BY <1>2, <3>1, ChildIs
    <3>5. Under(f.q, r.q) => Under(Child(f.q, k), r.q)
      BY <1>2, <3>1, ChildUnder
    <3>6. remounts = 0 => Owns("cp", Child(f.p, k), Child(f.q, k), r)
      BY <1>2, <3>5 DEF Owns
    <3>7. Suits(x, r)
      <4> HIDE DEF x, f, r
      <4> QED  BY <3>3, <3>4, <3>6 DEF Suits
    <3> HIDE DEF x
    <3>8. OnTop(Cross(x), r, data[Base], calm)
      <4>1. Behind(Cross(x), r, calm)
        BY <3>7, CrossFits
      <4> QED  BY <4>1, BehindOnTop
    <3> HIDE DEF f, r
    <3> QED  BY <1>1, <1>2, <2>1, <3>1, <3>2, <3>8, InvokeMoves DEF f, r
  <2>2. \/ \E out : Return(c, out)
        \/ f.kids # <<>> /\ f.pc = "list" /\ Invoke(c, g, <<Cross(x)>>)
    BY <1>5 DEF CrossList, OnMount, At
  <2> HIDE DEF g, x
  <2> QED  BY <1>3, <2>1, <2>2
<1> QED
  BY <1>4, <1>5

\* A step of a copy between two stores that changes the destination's.
LEMMA InRouteMoves ==
  ASSUME IInv, NEW c \in Callers, Busy(c), Top(c).fs = "mount", Top(c).op = "cp", Turns(c),
         NEW end, InRoute(Top(c).q, end),
         Alters(end.t, data[Route(Top(c).q).fs], Chain(Route(Top(c).q).p))
  PROVE  Moves(c)
<1> DEFINE f == Top(c)
           r == calls[c].req
           s == Route(f.q).fs
           A == Chain(Route(f.q).p)
<1>1. MountsInv /\ r \in Requests /\ f.q \in Seq(Names) /\ OnTop(f, r, data[Base], calm)
  BY MountFacts
<1>2. Within(r, s, A)
  <2> HIDE DEF f, r
  <2> QED  BY <1>1, CrossWithin DEF f
<1>3. s \in Stores
  <2> HIDE DEF f
  <2> QED  BY <1>1, RouteIs
<1>4. Becoming(s, end.t) /\ Alters(end.t, data[s], A)
  BY DEF InRoute, Becoming
<1> HIDE DEF s, A
<1>5. Change(r)
  BY <1>2, <1>3, <1>4 DEF Change
<1> QED
  BY <1>5 DEF Moves

LEMMA CrossWriteMoves ==
  ASSUME IInv, NEW c \in Callers, CrossRead(c) \/ CrossWritten(c) \/ CrossReadlink(c)
  PROVE  Moves(c)
<1> DEFINE f == Top(c)
           r == calls[c].req
           s == Route(f.q).fs
           y == Route(f.q).p
<1>1. Busy(c) /\ f.fs = "mount" /\ f.op = "cp"
  BY DEF CrossRead, CrossWritten, CrossReadlink, OnMount, At
<1>2. /\ MountsInv /\ IsFrame(f) /\ f.kids \in Seq(Names) /\ CopiesClear(f, calm)
      /\ OnTop(f, r, data[Base], calm)
  BY <1>1, MountFacts
<1>3. ASSUME NEW out, Return(c, out), UNCHANGED data PROVE Moves(c)
  BY <1>1, <1>3, ReturnMoves
<1>4. CASE CrossRead(c)
  <2> DEFINE end == Done(MemPut(data[s], y, File(f.res.c, "default")), "ok")
             g == [f EXCEPT !.pc = "written"]
  <2>1. CASE InRoute(f.q, end) /\ Await(c, g)
    <3>1. Edited(g, f, "written", f.kids)
      <4> HIDE DEF f
      <4> QED  BY <1>2, Edits
    <3>2. Behind(g, r, calm)
      <4> HIDE DEF f, g, r
      <4> QED  BY <1>2, <3>1, EditedBehind
    <3>3. Turns(c)
      <4> HIDE DEF g
      <4> QED  BY <1>1, <2>1, <3>2, AwaitTurns
    <3>4. Alters(end.t, data[s], Chain(y))
      BY PutAlters DEF Done
    <3> HIDE DEF end, g
    <3> QED  BY <1>1, <2>1, <3>3, <3>4, InRouteMoves
  <2>2. \/ \E out : Return(c, out) /\ UNCHANGED data
        \/ InRoute(f.q, end) /\ Await(c, g)
    BY <1>4 DEF CrossRead
  <2> HIDE DEF end, g
  <2> QED  BY <1>3, <2>1, <2>2
<1>5. CASE CrossWritten(c)
  <2> DEFINE end == MemChmod(data[s], y, f.res.m)
  <2>1. InRoute(f.q, end) /\ Return(c, end.out)
    BY <1>5 DEF CrossWritten
  <2>2. Alters(end.t, data[s], Chain(y))
    <3>1. Alters(end.t, data[s], {y})
      BY ChmodAlters
    <3>2. y \in Chain(y)
      BY DEF Chain
    <3> HIDE DEF end, s, y
    <3> QED  BY <3>1, <3>2 DEF Alters
  <2>3. Turns(c)
    BY <1>1, <2>1, ReturnTurns
  <2> HIDE DEF end
  <2> QED  BY <1>1, <2>1, <2>2, <2>3, InRouteMoves
<1>6. CASE CrossReadlink(c)
  <2> DEFINE end == MemSymlink(data[s], y, f.res.to)
  <2>1. CASE InRoute(f.q, end) /\ Return(c, end.out)
    <3>1. Alters(end.t, data[s], Chain(y))
      BY SymlinkAlters
    <3>2. Turns(c)
      BY <1>1, <2>1, ReturnTurns
    <3> HIDE DEF end
    <3> QED  BY <1>1, <2>1, <3>1, <3>2, InRouteMoves
  <2>2. \/ \E out : Return(c, out) /\ UNCHANGED data
        \/ InRoute(f.q, end) /\ Return(c, end.out)
    BY <1>6 DEF CrossReadlink
  <2> HIDE DEF end
  <2> QED  BY <1>3, <2>1, <2>2
<1> QED
  BY <1>4, <1>5, <1>6

LEMMA MountStepMoves ==
  ASSUME IInv, NEW c \in Callers, MountStep(c)
  PROVE  Moves(c)
BY MountMvMoves, CrossLstatMoves, CrossListMoves, CrossWriteMoves DEF MountStep


-----------------------------------------------------------------------------
(* The invariant is kept by the steps of a call.                           *)

\* What fits goes on fitting while the mounts stay.
LEMMA Kept ==
  ASSUME UNCHANGED <<mounts, remounts>>
  PROVE  \A x, t, b : CallFits(x, t, b) => CallFits(x, t, b)'
<1>1. \A s : Home(s)' = Home(s)
  BY DEF Home
<1>2. \A f, x : Whole(f, x)' = Whole(f, x)
  BY <1>1 DEF Whole
<1>3. \A p : (Hidden(p)' <=> Hidden(p)) /\ (Clear(p)' <=> Clear(p))
  BY DEF Hidden, Clear
<1>4. \A f : Open(f) => Open(f)'
  BY <1>3 DEF Open
<1>5. \A f, t : Fresh(f, t) => Fresh(f, t)'
  BY <1>3 DEF Fresh
<1>6. \A f, r : Belongs(f, r) => Belongs(f, r)'
  BY <1>2 DEF Belongs
<1>7. \A f, r, b : Behind(f, r, b) => Behind(f, r, b)'
  BY <1>4, <1>6 DEF Behind
<1>8. \A f, r, t, b : OnTop(f, r, t, b) => OnTop(f, r, t, b)'
  BY <1>4, <1>5, <1>6 DEF OnTop
<1>9. \A s, r, b : Waiting(s, r, b) => Waiting(s, r, b)'
  BY <1>7 DEF Waiting
<1>10. \A s, r, t, b : StackFits(s, r, t, b) => StackFits(s, r, t, b)'
  BY <1>8, <1>9 DEF StackFits
<1> QED
  BY <1>10 DEF CallFits

\* Once calls overlap nothing is said of where the mounts are.
LEMMA Looser ==
  ASSUME NEW x, NEW t, NEW u, NEW a, NEW b, ~b, CallFits(x, t, a)
  PROVE  CallFits(x, u, b)
<1>1. \A f, r : Behind(f, r, a) => Behind(f, r, b)
  BY DEF Behind
<1>2. \A f, r : OnTop(f, r, t, a) => OnTop(f, r, u, b)
  BY DEF OnTop
<1>3. \A s, r : Waiting(s, r, a) => Waiting(s, r, b)
  BY <1>1 DEF Waiting
<1>4. \A s, r : StackFits(s, r, t, a) => StackFits(s, r, u, b)
  BY <1>2, <1>3 DEF StackFits
<1> QED
  BY <1>4 DEF CallFits

\* Nor, once the host mounted or unmounted, of how an invocation got its paths.
LEMMA Freed ==
  ASSUME NEW x, NEW t, NEW u, NEW a, NEW b, ~b, remounts' # 0, CallFits(x, t, a)
  PROVE  CallFits(x, u, b)'
<1>1. \A f, r : Behind(f, r, a) => Behind(f, r, b)'
  BY DEF Behind
<1>2. \A f, r : OnTop(f, r, t, a) => OnTop(f, r, u, b)'
  BY DEF OnTop
<1>3. \A s, r : Waiting(s, r, a) => Waiting(s, r, b)'
  BY <1>1 DEF Waiting
<1>4. \A s, r : StackFits(s, r, t, a) => StackFits(s, r, u, b)'
  BY <1>2, <1>3 DEF StackFits
<1> QED
  BY <1>4 DEF CallFits

LEMMA IdleFits ==
  /\ \A x, t, b : IsCall(x) /\ x.stack = <<>> => CallFits(x, t, b)
  /\ \A x, t, b : IsCall(x) /\ x.stack = <<>> => CallFits(x, t, b)'
BY DEF CallFits, StackFits

\* The call x takes the place of that of c.
LEMMA Replaced ==
  ASSUME IInv, NEW c \in Callers, NEW x, calls' = [calls EXCEPT ![c] = x]
  PROVE  /\ DOMAIN calls' = Callers /\ calls'[c] = x
         /\ \A d \in Callers : d # c => calls'[d] = calls[d]
BY DEF IInv, CallsFit

LEMMA StepFits ==
  ASSUME IInv, NEW c \in Callers, Busy(c), Moves(c), UNCHANGED <<made, calm, mounts, remounts>>
  PROVE  IInv' /\ \A d \in Callers : d # c => calls'[d] = calls[d]
<1>1. PICK x : /\ calls' = [calls EXCEPT ![c] = x]
               /\ CallFits(x, data'[Base], calm)
               /\ x.stack # <<>> => x.req = calls[c].req /\ x.id = calls[c].id
  BY DEF Moves, Turns
<1>2. /\ DOMAIN calls' = Callers /\ calls'[c] = x
      /\ \A d \in Callers : d # c => calls'[d] = calls[d]
  BY <1>1, Replaced
<1>3. MountsInv'
  BY DEF IInv, MountsInv
<1>4. StoresInv'
  BY ChangeStores DEF IInv, Moves
<1>5. CallsOK'
  BY <1>1, <1>2 DEF IInv, CallsOK, Busy
<1>6. CallsFit'
  <2>1. CallFits(calls'[c], data'[Base], calm)
    BY <1>1, <1>2
  <2>2. ASSUME NEW d \in Callers, d # c PROVE CallFits(calls'[d], data'[Base], calm)
    <3>1. CallFits(calls[d], data[Base], calm) /\ calls'[d] = calls[d]
      BY <1>2, <2>2 DEF IInv, CallsFit
    <3>2. CASE ~calm
      BY <3>1, <3>2, Looser
    <3>3. CASE calm
      <4>1. ~Busy(d)
        BY <2>2, <3>3 DEF IInv, Solo
      <4> QED  BY <3>1, <4>1, IdleFits DEF Busy, CallFits
    <3> QED  BY <3>2, <3>3
  <2>3. \A d \in Callers : CallFits(calls'[d], data'[Base], calm')
    BY <2>1, <2>2
  <2> QED  BY <1>2, <2>3, Kept DEF CallsFit
<1>7. Solo'
  BY <1>2 DEF IInv, Solo, Busy
<1> QED
  BY <1>2, <1>3, <1>4, <1>5, <1>6, <1>7 DEF IInv

LEMMA StutterFits ==
  ASSUME IInv, UNCHANGED vars
  PROVE  IInv'
<1>1. MountsInv' /\ StoresInv' /\ CallsOK' /\ Solo'
  BY DEF IInv, MountsInv, StoresInv, CallsOK, Solo, Busy, vars
<1>2. CallsFit'
  BY Kept DEF IInv, CallsFit, vars
<1> QED
  BY <1>1, <1>2 DEF IInv


-----------------------------------------------------------------------------
(* A call begins.                                                          *)

\* A directory that a sensible request copies inside the base goes where
\* nothing is mounted: the destination is no directory that mounts make.
LEMMA SensibleSpares ==
  ASSUME Apart, NEW r \in Requests, Sensible(Tree, r), SameStore(r)
  PROVE  Spares(r, data[Base])
<1> SUFFICES ASSUME r.op \in {"cp", "mv"}, ~Hidden(r.p)
             PROVE  /\ r.op = "mv" => Clear(r.p)
                    /\ Look(data[Base], r.p).t = "dir" => Clear(r.q)
  BY DEF Spares
<1>1. r.p \in Seq(Names) /\ r.q \in Seq(Names) /\ MountsInv
  BY RequestPaths DEF Apart
<1>2. TreeFits(Tree, r.p, r.q) /\ MountsBelow(r.p) = {}
  BY DEF Sensible, WellFormed
<1>3. Clear(r.p)
  BY <1>1, <1>2, ClearIs
<1>4. ASSUME Look(data[Base], r.p).t = "dir" PROVE Clear(r.q)
  <2>1. Route(r.p).fs = Base /\ Route(r.p).p = r.p /\ ~Hidden(r.q)
    BY <1>1, RouteIs DEF SameStore
  <2>2. r.p \in DOMAIN data[Base]
    BY <1>4 DEF Look, Err
  <2>3. r.p \in Known
    BY <1>1, <2>2, KnownIs DEF KnownHere
  <2>4. Entry1(r.p) = Look(data[Base], r.p)
    BY <1>4, <2>1 DEF Entry1
  <2>5. IsDir(Tree, r.p)
    BY <1>4, <2>3, <2>4 DEF IsDir, Tree
  <2>6. r.q # Root /\ r.q \notin Known
    BY <1>2, <2>5 DEF TreeFits, Exists, Tree
  <2>7. r.q \notin Virtual
    BY <1>1, <2>1, <2>6, KnownIs DEF KnownHere
  <2>8. MountsBelow(r.q) = {}
    <3> SUFFICES ASSUME NEW mp \in DOMAIN mounts, Below(mp, r.q) PROVE FALSE
      BY DEF MountsBelow
    <3>1. mp \in Seq(Names)
      BY <1>1 DEF MountsInv
    <3>2. r.q \in Ancestors(mp)
      BY <1>1, <2>6, <3>1, BelowAncestor
    <3> QED  BY <2>7, <3>2 DEF Virtual
  <2> QED  BY <1>1, <2>1, <2>8, ClearIs
<1> QED
  BY <1>3, <1>4

\* What a call is asked to do is its own business.
LEMMA SuitsItself ==
  ASSUME NEW r \in Requests
  PROVE  Suits(r, r) /\ (r.op = "mv" => Suits(Req("cp", r.p, r.q, Recursive), r))
<1>1. r.p \in Seq(Names) /\ r.q \in Seq(Names) /\ r.p # Root
  BY RequestIs
<1>2. Under(r.p, r.p) /\ Under(r.q, r.q)
  BY <1>1, UnderSelf
<1>3. Owns(r.op, r.p, r.q, r)
  BY <1>2 DEF Owns
<1>4. r.op = "mv" => Owns("cp", r.p, r.q, r)
  BY <1>2 DEF Owns
<1> DEFINE x == Req("cp", r.p, r.q, Recursive)
<1>5. x.op = "cp" /\ x.p = r.p /\ x.q = r.q
  BY DEF Req
<1> HIDE DEF x
<1>6. Suits(r, r)
  BY <1>1, <1>3 DEF Suits
<1>7. r.op = "mv" => Suits(x, r)
  BY <1>1, <1>4, <1>5 DEF Suits
<1> QED
  BY <1>6, <1>7 DEF x

LEMMA OneFits ==
  ASSUME NEW n, NEW r, NEW t, NEW b, OnTop(n, r, t, b)
  PROVE  StackFits(<<n>>, r, t, b)
<1>1. <<n>> = <<n>> \o <<>>
  <2> DEFINE F == {n}
  <2>1. <<n>> \in Seq(F)
    OBVIOUS
  <2> HIDE DEF F
  <2> QED  BY <2>1, ConcatEmptySeq
<1>2. StackFits(<<n>> \o <<>>, r, t, b)
  BY WaitingEmpty, OnTopOf
<1> QED
  BY <1>1, <1>2

LEMMA TwoFit ==
  ASSUME NEW n, NEW g, NEW r, NEW t, NEW b, Behind(n, r, b), Behind(g, r, b)
  PROVE  StackFits(<<n, g>>, r, t, b)
<1>1. <<n, g>> = <<n>> \o (<<g>> \o <<>>)
  <2> DEFINE F == {n, g}
  <2>1. <<g>> \in Seq(F) /\ <<n>> \in Seq(F)
    OBVIOUS
  <2>2. <<g>> \o <<>> = <<g>>
    <3> HIDE DEF F
    <3> QED  BY <2>1, ConcatEmptySeq
  <2>3. <<n, g>> = <<n>> \o <<g>>
    <3>1. /\ <<n, g>> \in Seq(F) /\ Len(<<n, g>>) = 2 /\ <<n, g>>[1] = n /\ <<n, g>>[2] = g
          /\ Len(<<n>>) = 1 /\ <<n>>[1] = n /\ Len(<<g>>) = 1 /\ <<g>>[1] = g
      OBVIOUS
    <3> DEFINE h == <<n>>
               p == <<g>>
               s == <<n, g>>
    <3> HIDE DEF F, h, p, s
    <3>2. /\ h \o p \in Seq(F) /\ Len(h \o p) = 2
          /\ (h \o p)[1] = n /\ (h \o p)[2] = g
      BY <2>1, <3>1, JoinIs DEF h, p
    <3>3. s \in Seq(F) /\ Len(s) = 2 /\ s[1] = n /\ s[2] = g
      BY <3>1 DEF s
    <3>4. s = h \o p
      BY <3>2, <3>3, SeqEqual
    <3> QED  BY <3>4 DEF s, h, p
  <2> QED  BY <2>2, <2>3
<1>2. Waiting(<<g>> \o <<>>, r, b)
  BY WaitingEmpty, Push
<1>3. StackFits(<<n>> \o (<<g>> \o <<>>), r, t, b)
  BY <1>2, BehindOnTop, OnTopOf
<1> QED
  BY <1>1, <1>3

\* The invocations a call begins with.
LEMMA PassedFits ==
  ASSUME Apart, NEW r \in Requests, NEW b, b => Sensible(Tree, r)
  PROVE  StackFits(Pass(r), r, data[Base], b)
<1> DEFINE copy == Req("cp", r.p, r.q, Recursive)
           g == Frame("mount", r, "cp")
<1>1. Suits(r, r) /\ (r.op = "mv" => Suits(copy, r)) /\ MountsInv
  BY SuitsItself DEF Apart
<1>2. CASE Settled(r) # "no"
  <2>1. \E n : Pass(r) = <<n>> /\ OnTop(n, r, data[Base], b)
    BY <1>1, <1>2, SettledFits
  <2> QED  BY <2>1, OneFits
<1>3. CASE Settled(r) = "no" /\ r.op = "cp" /\ ~SameStore(r)
  <2>1. Pass(r) = <<Cross(r)>>
    BY <1>3 DEF Pass
  <2>2. OnTop(Cross(r), r, data[Base], b)
    BY <1>1, CrossFits, BehindOnTop
  <2> QED  BY <2>1, <2>2, OneFits
<1>4. CASE Settled(r) = "no" /\ r.op = "mv" /\ ~SameStore(r)
  <2>1. Pass(r) = <<Cross(copy), g>>
    BY <1>4 DEF Pass
  <2>2. Behind(Cross(copy), r, b)
    <3> HIDE DEF copy
    <3> QED  BY <1>1, <1>4, CrossFits
  <2>3. IsFrame(g) /\ g.fs = "mount" /\ g.op = r.op /\ g.p = r.p /\ g.q = r.q
        /\ g.pc = "cp" /\ g.kids = <<>>
    BY FrameIs
  <2> HIDE DEF g, copy
  <2>4. Behind(g, r, b)
    BY <1>1, <2>3, MountFrameFits
  <2> QED  BY <2>1, <2>2, <2>4, TwoFit
<1>5. CASE Settled(r) = "no" /\ (r.op \in {"cp", "mv"} => SameStore(r))
  <2>1. Pass(r) = Routed(r)
    BY <1>5 DEF Pass
  <2>2. b => Spares(r, data[Base])
    <3>1. CASE r.op \in {"cp", "mv"}
      BY <1>5, <3>1, SensibleSpares
    <3>2. CASE r.op \notin {"cp", "mv"}
      BY <3>2 DEF Spares
    <3> QED  BY <3>1, <3>2
  <2>3. \E n : Pass(r) = <<n>> /\ OnTop(n, r, data[Base], b)
    BY <1>1, <1>5, <2>1, <2>2, RoutedFits
  <2> QED  BY <2>3, OneFits
<1> QED
  BY <1>2, <1>3, <1>4, <1>5

LEMMA BeginFits ==
  ASSUME IInv, NEW c \in Callers, Begin(c)
  PROVE  IInv'
<1>1. PICK r \in Requests : Call(c, r, Pass(r), Tree, Sensible(Tree, r))
  BY DEF Begin
<1>2. MayCall(c) /\ UNCHANGED <<data, mounts, remounts>>
  BY DEF Begin
<1> DEFINE x == [stack |-> Pass(r), req |-> r, id |-> made', out |-> "none",
                 before |-> IF calm' THEN Tree ELSE <<>>]
<1>3. /\ calls' = [calls EXCEPT ![c] = x]
      /\ made' = made + 1
      /\ calm' = (calm /\ Sensible(Tree, r) /\ Quiet)
  BY <1>1 DEF Call
<1>4. IsCall(x) /\ x.stack = Pass(r) /\ x.req = r /\ x.id = made'
  BY DEF IsCall
<1> HIDE DEF x
<1>5. /\ DOMAIN calls' = Callers /\ calls'[c] = x
      /\ \A d \in Callers : d # c => calls'[d] = calls[d]
  BY <1>3, Replaced
<1>6. MountsInv' /\ StoresInv'
  BY <1>2 DEF IInv, MountsInv, StoresInv
<1>7. CallsOK'
  <2>1. made \in 0 .. MaxCalls /\ made < MaxCalls /\ MaxCalls \in Nat
    BY <1>2, CallsAssumption DEF IInv, CallsOK, MayCall
  <2>2. made' \in 0 .. MaxCalls /\ made' \in 1 .. made' /\ calm' \in BOOLEAN
    BY <1>3, <2>1
  <2>3. ASSUME NEW d \in Callers, Busy(d)'
        PROVE  calls'[d].req \in Requests /\ calls'[d].id \in 1 .. made'
    <3>1. CASE d = c
      BY <1>4, <1>5, <2>2, <3>1
    <3>2. CASE d # c
      <4>1. Busy(d) /\ calls'[d] = calls[d]
        BY <1>5, <2>3, <3>2 DEF Busy
      <4>2. calls[d].req \in Requests /\ calls[d].id \in 1 .. made
        BY <4>1 DEF IInv, CallsOK
      <4> QED  BY <1>3, <2>1, <4>1, <4>2
    <3> QED  BY <3>1, <3>2
  <2> QED  BY <2>2, <2>3 DEF CallsOK
<1>8. CallsFit'
  <2>1. StackFits(Pass(r), r, data[Base], calm')
    <3> DEFINE b == calm'
    <3>1. b => Sensible(Tree, r)
      BY <1>3
    <3> HIDE DEF b
    <3>2. StackFits(Pass(r), r, data[Base], b)
      BY <3>1, PassedFits DEF IInv, Apart
    <3> QED  BY <3>2 DEF b
  <2>2. CallFits(calls'[c], data'[Base], calm')
    BY <1>2, <1>4, <1>5, <2>1 DEF CallFits
  <2>3. ASSUME NEW d \in Callers, d # c PROVE CallFits(calls'[d], data'[Base], calm')
    <3>1. CallFits(calls[d], data[Base], calm) /\ calls'[d] = calls[d]
      BY <1>5, <2>3 DEF IInv, CallsFit
    <3>2. CASE ~calm'
      BY <3>1, <3>2, Looser
    <3>3. CASE calm'
      <4>1. ~Busy(d)
        BY <1>3, <3>3 DEF Quiet
      <4> QED  BY <3>1, <4>1, IdleFits DEF Busy, CallFits
    <3> QED  BY <3>2, <3>3
  <2>4. \A d \in Callers : CallFits(calls'[d], data'[Base], calm')
    BY <2>2, <2>3
  <2> QED  BY <1>2, <1>5, <2>4, Kept DEF CallsFit
<1>9. Solo'
  BY <1>3, <1>5 DEF Solo, Busy, Quiet
<1> QED
  BY <1>6, <1>7, <1>8, <1>9 DEF IInv


-----------------------------------------------------------------------------
(* The host mounts and unmounts.                                           *)

LEMMA RemountFits ==
  ASSUME IInv, NEW mp,
         Unmount(mp) \/ (mp \in MountPoints /\ \E s \in Stores \ {Base} : Mount(mp, s))
  PROVE  IInv'
<1>1. /\ UNCHANGED <<data, calls, made>> /\ remounts' = remounts + 1
      /\ remounts < MaxRemounts /\ calm' \in BOOLEAN /\ (calm' => Quiet)
  BY DEF Mount, Unmount, IInv, CallsOK
<1>2. remounts' \in 0 .. MaxRemounts /\ remounts' # 0
  BY <1>1, MountAssumption DEF IInv, MountsInv
<1>3. MountsInv'
  <2>1. CASE Unmount(mp)
    <3>1. /\ DOMAIN mounts' \subseteq DOMAIN mounts
          /\ \A x \in DOMAIN mounts' : mounts'[x] = mounts[x]
      BY <2>1 DEF Unmount, Without
    <3> QED  BY <1>2, <3>1 DEF IInv, MountsInv
  <2>2. ASSUME mp \in MountPoints, NEW s \in Stores \ {Base}, Mount(mp, s)
        PROVE  MountsInv'
    <3>1. /\ DOMAIN mounts' = DOMAIN mounts \cup {mp}
          /\ \A x \in DOMAIN mounts' : mounts'[x] = IF x = mp THEN s ELSE mounts[x]
      BY <2>2 DEF Mount, Set
    <3>2. /\ \A x \in DOMAIN mounts : mounts[x] # s
          /\ \A x \in DOMAIN mounts : ~Below(mp, x) /\ ~Below(x, mp)
      BY <2>2 DEF Mount, Range
    <3>3. ~Below(mp, mp)
      BY DEF Below, IsStrictPrefix
    <3>4. mp \in Seq(Names) \ {Root}
      BY <2>2, MountAssumption
    <3> QED  BY <1>2, <2>2, <3>1, <3>2, <3>3, <3>4 DEF IInv, MountsInv
  <2> QED  BY <2>1, <2>2
<1>4. StoresInv' /\ CallsOK'
  BY <1>1 DEF IInv, StoresInv, CallsOK, Busy
<1>5. CallsFit'
  <2>1. DOMAIN calls' = Callers
    BY <1>1 DEF IInv, CallsFit
  <2>2. ASSUME NEW d \in Callers PROVE CallFits(calls[d], data[Base], calm)'
    <3>1. CallFits(calls[d], data[Base], calm) /\ calls'[d] = calls[d]
      BY <1>1 DEF IInv, CallsFit
    <3>2. CASE ~calm'
      BY <1>2, <3>1, <3>2, Freed
    <3>3. CASE calm'
      <4>1. calls[d].stack = <<>>
        BY <1>1, <3>3 DEF Quiet, Busy
      <4> QED  BY <3>1, <4>1, IdleFits DEF CallFits
    <3> QED  BY <3>2, <3>3
  <2> QED  BY <2>1, <2>2 DEF CallsFit
<1>6. Solo'
  BY <1>1 DEF Solo, Busy, Quiet
<1> QED
  BY <1>3, <1>4, <1>5, <1>6 DEF IInv

-----------------------------------------------------------------------------
(* The theorems.                                                           *)

LEMMA Begins == Init => IInv
<1> SUFFICES ASSUME Init PROVE IInv
  OBVIOUS
<1>1. /\ calls = [c \in Callers |-> Idle("none")] /\ made = 0 /\ calm = TRUE
      /\ data = Initial /\ mounts = Mounted /\ remounts = 0
  BY DEF Init, InitCalls
<1>2. MountsInv
  BY <1>1, MountAssumption, MountedAssumption DEF MountsInv
<1>3. StoresInv
  BY <1>1, MountAssumption DEF StoresInv
<1>4. Idle("none").stack = <<>> /\ IsCall(Idle("none"))
  BY DEF Idle, IsCall
<1>5. \A c \in Callers : ~Busy(c)
  BY <1>1, <1>4 DEF Busy
<1>6. CallsOK
  BY <1>1, <1>5, CallsAssumption DEF CallsOK
<1>7. CallsFit
  BY <1>1, <1>4, IdleFits DEF CallsFit
<1>8. Solo
  BY <1>5 DEF Solo
<1> QED
  BY <1>2, <1>3, <1>6, <1>7, <1>8 DEF IInv

(* A step that changes what the stores hold is one of a call, which alone  *)
(* moves, changes what the call may change, and leaves the mounts.         *)
Advances ==
  data' # data =>
    \E c \in Callers :
      /\ Change(calls[c].req)
      /\ UNCHANGED <<mounts, remounts>>
      /\ \A d \in Callers : d # c => calls'[d] = calls[d]

LEMMA NextFits ==
  ASSUME IInv, [Next]_vars
  PROVE  IInv' /\ Advances
<1>1. ASSUME NEW c \in Callers, Begin(c) PROVE IInv' /\ Advances
  <2>1. UNCHANGED data
    BY <1>1 DEF Begin
  <2> QED  BY <1>1, <2>1, BeginFits DEF Advances
<1>2. ASSUME NEW c \in Callers, StoreStep(c) \/ MountStep(c),
             UNCHANGED <<made, calm, mounts, remounts>>
      PROVE  IInv' /\ Advances
  <2>1. Busy(c)
    BY <1>2 DEF StoreStep, MountStep
  <2>2. Moves(c)
    BY <1>2, StoreStepMoves, MountStepMoves
  <2>3. IInv' /\ \A d \in Callers : d # c => calls'[d] = calls[d]
    BY <1>2, <2>1, <2>2, StepFits
  <2>4. Change(calls[c].req)
    BY <2>2 DEF Moves
  <2> QED  BY <1>2, <2>3, <2>4 DEF Advances
<1>3. ASSUME NEW mp \in MountPoints, Unmount(mp) \/ \E s \in Stores \ {Base} : Mount(mp, s)
      PROVE  IInv' /\ Advances
  <2>1. UNCHANGED data
    BY <1>3 DEF Mount, Unmount
  <2> QED  BY <1>3, <2>1, RemountFits DEF Advances
<1>4. CASE Finished \/ UNCHANGED vars
  <2>1. UNCHANGED vars
    BY <1>4 DEF Finished
  <2>2. UNCHANGED data
    BY <2>1 DEF vars
  <2> QED  BY <2>1, <2>2, StutterFits DEF Advances
<1> QED
  BY <1>1, <1>2, <1>3, <1>4 DEF Next

LEMMA Inductive == IInv /\ [Next]_vars => IInv'
BY NextFits

LEMMA Always == Spec => []IInv
BY Begins, Inductive, PTL DEF Spec

LEMMA InvTypes == IInv => TypeOK
BY DEF IInv, MountsInv, StoresInv, TypeOK

(* The type invariant: whatever calls, mounts and unmounts come in between,*)
(* every store keeps its root and holds normalised paths only, no mount    *)
(* lies in another one, and every call in progress is one that was made.   *)
THEOREM TypeCorrect == Spec => []TypeOK
BY Always, InvTypes, PTL

(* What StaysInFootprint says of one step.                                 *)
FootprintStep ==
  \A c \in Callers : remounts = 0 /\ calls'[c] # calls[c] /\ data' # data =>
    \A p \in DOMAIN Tree \cup DOMAIN Tree' :
      Look(Tree', p) # Look(Tree, p) => Footprint(calls[c].req, p)

LEMMA FootprintStepHolds == IInv /\ IInv' /\ [Next]_vars => FootprintStep
<1> SUFFICES ASSUME IInv, IInv', [Next]_vars,
                    NEW c \in Callers, remounts = 0, calls'[c] # calls[c], data' # data,
                    NEW p \in DOMAIN Tree \cup DOMAIN Tree', Look(Tree', p) # Look(Tree, p)
             PROVE  Footprint(calls[c].req, p)
  BY DEF FootprintStep
<1>1. PICK d \in Callers : /\ Change(calls[d].req)
                           /\ UNCHANGED <<mounts, remounts>>
                           /\ \A e \in Callers : e # d => calls'[e] = calls[e]
  BY NextFits DEF Advances
<1>2. d = c
  BY <1>1
<1>3. Apart /\ Apart'
  BY DEF IInv, Apart
<1> QED
  BY <1>1, <1>2, <1>3, ChangeSeen

LEMMA FootprintAlways == Spec => [][FootprintStep]_vars
BY Always, FootprintStepHolds, PTL DEF Spec

(* However the steps of calls interleave, as long as nothing was mounted   *)
(* or unmounted after the creation a step of a call changes, in the tree   *)
(* seen from outside, only what its operands name: the routing of every    *)
(* operation, of copies and moves between two file systems too, never      *)
(* takes a path into another file system than its own.                     *)
THEOREM FootprintKept == Spec => StaysInFootprint
<1>1. FootprintStep =>
        \A c \in Callers : remounts = 0 /\ calls'[c] # calls[c] /\ data' # data =>
          LET t == Tree
              u == Tree'
          IN \A p \in DOMAIN t \cup DOMAIN u :
               Look(u, p) # Look(t, p) => Footprint(calls[c].req, p)
  BY Zenon DEF FootprintStep
<1> QED
  BY <1>1, FootprintAlways, PTL DEF StaysInFootprint

(* What MountsShield says of one step.                                     *)
ShieldStep ==
  calm => \A p \in DOMAIN data[Base] \cup DOMAIN data'[Base] :
    data' # data /\ Hidden(p) => Look(data'[Base], p) = Look(data[Base], p)

LEMMA ShieldStepHolds == IInv /\ [Next]_vars => ShieldStep
<1> SUFFICES ASSUME IInv, [Next]_vars, calm, NEW p, data' # data, Hidden(p)
             PROVE  Look(data'[Base], p) = Look(data[Base], p)
  BY DEF ShieldStep
<1>1. PICK c \in Callers : Change(calls[c].req)
  BY NextFits DEF Advances
<1>2. StoresInv
  BY DEF IInv
<1> QED
  BY <1>1, <1>2, ChangeShields

(* While calls do not overlap, nothing is mounted or unmounted beside them *)
(* and each makes sense, what the base file system holds below a mount     *)
(* point is out of the reach of every operation, the recursive ones and    *)
(* those that make missing directories included.                           *)
THEOREM MountsAreShields == Spec => MountsShield
<1>1. IInv /\ [Next]_vars => ShieldStep
  BY ShieldStepHolds
<1>2. Spec => [][ShieldStep]_vars
  BY <1>1, Always, PTL DEF Spec
<1> QED
  BY <1>2, PTL DEF MountsShield, ShieldStep

-----------------------------------------------------------------------------
(* What the stores hold.                                                   *)

(* n is a file, a directory or a link.                                     *)
IsEntry(n) == "t" \in DOMAIN n /\ n.t \in {"file", "dir", "link"}

AreEntries(t) == \A x \in DOMAIN t : IsEntry(t[x])

(* Each store holds entries, never the answer of a query that failed.      *)
EntriesInv == DOMAIN data = Stores /\ \A s \in Stores : AreEntries(data[s])

LEMMA NewEntries ==
  /\ \A m : IsEntry(Dir(m))
  /\ \A c, m : IsEntry(File(c, m))
  /\ \A to : IsEntry(Link(to))
BY DEF IsEntry, Dir, File, Link

LEMMA SetEntries ==
  ASSUME NEW t, AreEntries(t), NEW p, NEW n, IsEntry(n)
  PROVE  AreEntries(Set(t, p, n))
<1>1. DOMAIN Set(t, p, n) = DOMAIN t \cup {p}
      /\ \A x \in DOMAIN Set(t, p, n) : Set(t, p, n)[x] = IF x = p THEN n ELSE t[x]
  BY DEF Set
<1> QED
  BY <1>1 DEF AreEntries

LEMMA PutEntries ==
  ASSUME NEW t, AreEntries(t), NEW p, NEW n, IsEntry(n)
  PROVE  AreEntries(MemPut(t, p, n))
<1> DEFINE w == WithNew(t, Missing(t, p))
<1>1. DOMAIN w = DOMAIN t \cup Missing(t, p)
      /\ \A x \in DOMAIN w : w[x] = IF x \in DOMAIN t THEN t[x] ELSE Dir("default")
  BY DEF WithNew
<1>2. MemPut(t, p, n) = Set(w, p, n)
  BY DEF MemPut
<1> HIDE DEF w
<1>3. AreEntries(w)
  BY <1>1, NewEntries DEF AreEntries
<1> QED
  BY <1>2, <1>3, SetEntries

LEMMA WithoutEntries ==
  ASSUME NEW t, AreEntries(t), NEW p
  PROVE  AreEntries(Without(t, p))
BY DEF Without, AreEntries

LEMMA ChmodEntries ==
  ASSUME NEW t, AreEntries(t), NEW p, NEW m
  PROVE  AreEntries(MemChmod(t, p, m).t)
<1>1. CASE p \notin DOMAIN t
  BY <1>1 DEF MemChmod, Done
<1>2. CASE p \in DOMAIN t
  <2> DEFINE n == [t[p] EXCEPT !.m = m]
             u == [t EXCEPT ![p] = n]
  <2>1. MemChmod(t, p, m).t = u
    BY <1>2 DEF MemChmod, Done
  <2>2. DOMAIN n = DOMAIN t[p] /\ ("t" \in DOMAIN t[p] => n["t"] = t[p]["t"])
    OBVIOUS
  <2>3. IsEntry(n)
    <3>1. IsEntry(t[p])
      BY <1>2 DEF AreEntries
    <3> HIDE DEF n
    <3> QED  BY <2>2, <3>1 DEF IsEntry
  <2> HIDE DEF n
  <2>4. DOMAIN u = DOMAIN t /\ \A x \in DOMAIN t : u[x] = IF x = p THEN n ELSE t[x]
    OBVIOUS
  <2> HIDE DEF u
  <2> QED  BY <2>1, <2>3, <2>4 DEF AreEntries
<1> QED
  BY <1>1, <1>2

LEMMA MkdirEntries ==
  ASSUME NEW t, AreEntries(t), NEW p, NEW rec
  PROVE  AreEntries(MemMkdir(t, p, rec).t)
<1>1. MemMkdir(t, p, rec).t \in {t, MemPut(t, p, Dir("default"))}
  BY Zenon DEF MemMkdir, Done
<1> QED
  BY <1>1, NewEntries, PutEntries

LEMMA SymlinkEntries ==
  ASSUME NEW t, AreEntries(t), NEW p, NEW to
  PROVE  AreEntries(MemSymlink(t, p, to).t)
<1>1. MemSymlink(t, p, to).t \in {t, MemPut(t, p, Link(to))}
  BY DEF MemSymlink, Done
<1> QED
  BY <1>1, NewEntries, PutEntries

\* What is found is an entry.
LEMMA FoundEntry ==
  ASSUME NEW t, AreEntries(t), NEW p
  PROVE  /\ Look(t, p).t # "err" <=> p \in DOMAIN t
         /\ p \in DOMAIN t => Look(t, p) = t[p] /\ IsEntry(t[p])
BY DEF Look, Err, AreEntries, IsEntry

LEMMA LinkEntries ==
  ASSUME NEW t, AreEntries(t), NEW p, NEW q
  PROVE  AreEntries(MemLink(t, p, q).t)
<1> DEFINE n == Look(t, p)
<1>1. CASE n.t = "err"
  BY <1>1 DEF MemLink, Done
<1>2. CASE n.t # "err"
  <2>1. MemLink(t, p, q).t \in {t, MemPut(t, q, n)}
    BY Zenon DEF MemLink, Done
  <2>2. IsEntry(n)
    BY <1>2, FoundEntry
  <2> HIDE DEF n
  <2> QED  BY <2>1, <2>2, PutEntries
<1> QED
  BY <1>1, <1>2

LEMMA AppendEntries ==
  ASSUME NEW t, AreEntries(t), NEW p, NEW id
  PROVE  AreEntries(MemAppend(t, p, id).t)
<1> DEFINE n == Look(t, p)
           n2 == [n EXCEPT !.c = Append(@, id)]
           f == File(<<id>>, "default")
<1>1. MemAppend(t, p, id).t = IF n.t = "dir" THEN t
                              ELSE IF n.t = "file" THEN Set(t, p, n2) ELSE MemPut(t, p, f)
  <2>1. CASE n.t = "dir"
    BY <2>1 DEF MemAppend, Done
  <2>2. CASE n.t = "file"
    BY <2>2 DEF MemAppend, Done
  <2>3. CASE n.t # "dir" /\ n.t # "file"
    BY <2>3 DEF MemAppend, Done
  <2> QED  BY <2>1, <2>2, <2>3
<1>2. CASE n.t = "file"
  <2>1. IsEntry(n)
    BY <1>2, FoundEntry
  <2>2. DOMAIN n2 = DOMAIN n /\ ("t" \in DOMAIN n => n2["t"] = n["t"])
    <3> HIDE DEF n
    <3> QED  OBVIOUS
  <2> HIDE DEF n2, n
  <2>3. IsEntry(n2)
    BY <2>1, <2>2 DEF IsEntry
  <2> QED  BY <1>1, <1>2, <2>3, SetEntries
<1>3. CASE n.t # "file"
  <2> HIDE DEF n, n2, f
  <2>1. IsEntry(f)
    BY NewEntries DEF f
  <2> QED  BY <1>1, <1>3, <2>1, PutEntries
<1> QED
  BY <1>2, <1>3

LEMMA SyncEntries ==
  ASSUME NEW t, AreEntries(t), NEW f, f.op \in SyncOps, NEW id
  PROVE  AreEntries(MemSync(t, f, id).t)
<1> DEFINE u == MemSync(t, f, id).t
<1>1. CASE f.op = "write"
  <2>1. u = MemPut(t, f.p, File(<<id>>, "default"))
    BY <1>1 DEF MemSync, Done
  <2> QED  BY <2>1, NewEntries, PutEntries
<1>2. CASE f.op = "append"
  <2>1. u = MemAppend(t, f.p, id).t
    BY <1>2 DEF MemSync
  <2> QED  BY <2>1, AppendEntries
<1>3. CASE f.op = "mkdir"
  <2>1. u = MemMkdir(t, f.p, f.o.rec).t
    BY <1>3 DEF MemSync
  <2> QED  BY <2>1, MkdirEntries
<1>4. CASE f.op = "chmod"
  <2>1. u = MemChmod(t, f.p, "changed").t
    BY <1>4 DEF MemSync
  <2> QED  BY <2>1, ChmodEntries
<1>5. CASE f.op = "utimes"
  BY <1>5 DEF MemSync, Done
<1>6. CASE f.op = "symlink"
  <2>1. u = MemSymlink(t, f.p, f.q).t
    BY <1>6 DEF MemSync
  <2> QED  BY <2>1, SymlinkEntries
<1>7. CASE f.op = "link"
  <2>1. u = MemLink(t, f.p, f.q).t
    BY <1>7 DEF MemSync
  <2> QED  BY <2>1, LinkEntries
<1> QED
  BY <1>1, <1>2, <1>3, <1>4, <1>5, <1>6, <1>7 DEF SyncOps

\* One store is changed to entries.
LEMMA BecomesEntries ==
  ASSUME EntriesInv, NEW s, NEW u, data' = [data EXCEPT ![s] = u],
         s \in Stores => AreEntries(u)
  PROVE  EntriesInv'
<1>1. DOMAIN data' = Stores /\ \A x \in Stores : data'[x] = IF x = s THEN u ELSE data[x]
  BY DEF EntriesInv
<1> QED
  BY <1>1 DEF EntriesInv

LEMMA StoreStepEntries ==
  ASSUME EntriesInv, NEW c \in Callers, StoreStep(c)
  PROVE  EntriesInv'
<1> DEFINE f == Top(c)
           t == Entries(c)
<1>1. f.fs \in Stores
  BY DEF StoreStep
<1>2. AreEntries(t)
  BY <1>1 DEF EntriesInv, Entries
<1>3. \A u : AreEntries(u) /\ Becomes(c, u) => EntriesInv'
  BY BecomesEntries DEF Becomes
<1>4. UNCHANGED data => EntriesInv'
  BY DEF EntriesInv
<1>5. ASSUME NEW op \in SyncOps, Sync(c, op) PROVE EntriesInv'
  <2>1. f.op \in SyncOps /\ Becomes(c, MemSync(t, f, calls[c].id).t)
    BY <1>5 DEF Sync, InStore
  <2> QED  BY <1>2, <1>3, <2>1, SyncEntries
<1>6. CASE RmStart(c) \/ RmList(c)
  <2>1. UNCHANGED data \/ Becomes(c, Without(t, f.p))
    BY <1>6 DEF RmStart, RmList
  <2> QED  BY <1>2, <1>3, <1>4, <2>1, WithoutEntries
<1>7. CASE CpStart(c)
  <2>1. \/ UNCHANGED data
        \/ Look(t, f.p).t = "file" /\ Becomes(c, MemPut(t, f.q, Look(t, f.p)))
        \/ Becomes(c, MemMkdir(t, f.q, TRUE).t)
    BY <1>7 DEF CpStart
  <2>2. Look(t, f.p).t = "file" => IsEntry(Look(t, f.p))
    BY <1>2, FoundEntry
  <2> QED  BY <1>2, <1>3, <1>4, <2>1, <2>2, PutEntries, MkdirEntries
<1>8. CASE CpMkdir(c) \/ CpList(c) \/ MvStart(c) \/ MvCopied(c) \/ MvRemoved(c)
  BY <1>4, <1>8 DEF CpMkdir, CpList, MvStart, MvCopied, MvRemoved
<1> QED
  BY <1>5, <1>6, <1>7, <1>8 DEF StoreStep

LEMMA MountStepEntries ==
  ASSUME EntriesInv, NEW c \in Callers, MountStep(c)
  PROVE  EntriesInv'
<1> DEFINE q == Top(c).q
           s == Route(q).fs
           y == Route(q).p
           n == Top(c).res
<1>1. UNCHANGED data => EntriesInv'
  BY DEF EntriesInv
<1>2. s \in Stores => AreEntries(data[s])
  BY DEF EntriesInv
<1>3. \A end : (s \in Stores => AreEntries(end.t)) /\ InRoute(q, end) => EntriesInv'
  BY BecomesEntries DEF InRoute
<1>4. CASE CrossRead(c)
  <2>1. UNCHANGED data \/ InRoute(q, Done(MemPut(data[s], y, File(n.c, "default")), "ok"))
    BY <1>4 DEF CrossRead
  <2>2. \A u : Done(u, "ok").t = u
    BY DEF Done
  <2> QED  BY <1>1, <1>2, <1>3, <2>1, <2>2, NewEntries, PutEntries
<1>5. CASE CrossWritten(c)
  <2>1. InRoute(q, MemChmod(data[s], y, n.m))
    BY <1>5 DEF CrossWritten
  <2> QED  BY <1>2, <1>3, <2>1, ChmodEntries
<1>6. CASE CrossReadlink(c)
  <2>1. UNCHANGED data \/ InRoute(q, MemSymlink(data[s], y, n.to))
    BY <1>6 DEF CrossReadlink
  <2> QED  BY <1>1, <1>2, <1>3, <2>1, SymlinkEntries
<1> QED
  BY <1>1, <1>4, <1>5, <1>6 DEF MountStep

LEMMA EntriesInductive == EntriesInv /\ [Next]_vars => EntriesInv'
<1> SUFFICES ASSUME EntriesInv, [Next]_vars PROVE EntriesInv'
  OBVIOUS
<1>1. UNCHANGED data => EntriesInv'
  BY DEF EntriesInv
<1>2. ASSUME NEW c \in Callers, Begin(c) PROVE UNCHANGED data
  BY <1>2 DEF Begin
<1>3. ASSUME NEW mp, Unmount(mp) \/ \E s \in Stores \ {Base} : Mount(mp, s)
      PROVE  UNCHANGED data
  BY <1>3 DEF Mount, Unmount
<1>4. ASSUME UNCHANGED vars \/ Finished PROVE UNCHANGED data
  BY <1>4 DEF Finished, vars
<1> QED
  BY <1>1, <1>2, <1>3, <1>4, StoreStepEntries, MountStepEntries DEF Next

LEMMA EntriesBegin == Init => EntriesInv
<1> SUFFICES ASSUME data = Initial PROVE EntriesInv
  BY DEF Init
<1>1. \A n \in Entry(Nat, Seq(Names)) : IsEntry(n)
  BY DEF Entry, IsEntry
<1> QED
  BY <1>1, MountAssumption DEF EntriesInv, AreEntries

LEMMA EntriesAlways == Spec => []EntriesInv
BY EntriesBegin, EntriesInductive, PTL DEF Spec

-----------------------------------------------------------------------------
(* Looking up.                                                             *)

LEMMA ChaseHere ==
  ASSUME NEW t, NEW p, NEW seen, ~(p \in DOMAIN t /\ t[p].t = "link")
  PROVE  Chase(t, p, seen) = [ok |-> TRUE, at |-> p, seen |-> seen]
BY DEF Chase, IsLink

\* A path without links on it or at its end is resolved to itself.
LEMMA ResolveHere ==
  ASSUME NEW S, NEW t, NEW p \in Seq(S),
         \A n \in 1 .. Len(p) : ~(Upto(p, n) \in DOMAIN t /\ t[Upto(p, n)].t = "link")
  PROVE  Resolve(t, p) = [ok |-> TRUE, at |-> p, seen |-> {}]
<1> DEFINE L == Len(p)
           Step(f, n) == IF n = 0 THEN [ok |-> TRUE, at |-> Root, seen |-> {}]
                         ELSE LET r == f[n - 1]
                              IN IF r.ok THEN Chase(t, Child(r.at, p[n]), r.seen) ELSE r
           Is(f) == f = [n \in 0 .. L |-> Step(f, n)]
           F == CHOOSE f : Is(f)
           Here(n) == [ok |-> TRUE, at |-> Upto(p, n), seen |-> {}]
           G == [n \in 0 .. L |-> Here(n)]
<1>1. L \in Nat
  BY LenProperties
<1>2. Resolve(t, p) = F[L]
  BY DEF Resolve
<1>3. ASSUME NEW f, NEW n \in 0 .. L, n # 0 => f[n - 1] = Here(n - 1)
      PROVE  Step(f, n) = Here(n)
  <2>1. CASE n = 0
    BY <1>1, <2>1, UptoIs
  <2>2. CASE n # 0
    <3>1. Child(Upto(p, n - 1), p[n]) = Upto(p, n)
      BY <2>2, UptoIs
    <3>2. n \in 1 .. L
      BY <1>1, <2>2
    <3>3. Chase(t, Upto(p, n), {}) = Here(n)
      BY <3>2, ChaseHere
    <3> DEFINE r == f[n - 1]
    <3>4. r.ok = TRUE /\ r.at = Upto(p, n - 1) /\ r.seen = {}
      BY <1>3, <2>2
    <3>5. Step(f, n) = IF r.ok THEN Chase(t, Child(r.at, p[n]), r.seen) ELSE r
      BY <2>2
    <3> HIDE DEF r, Step, Here
    <3> QED  BY <3>1, <3>3, <3>4, <3>5
  <2> QED  BY <2>1, <2>2
<1> HIDE DEF Step
<1>4. Is(G)
  <2>1. ASSUME NEW n \in 0 .. L PROVE Step(G, n) = Here(n)
    <3>1. n # 0 => n - 1 \in 0 .. L
      BY <1>1
    <3>2. n # 0 => G[n - 1] = Here(n - 1)
      <4> HIDE DEF Here
      <4> QED  BY <3>1
    <3> HIDE DEF G, Here
    <3> QED  BY <1>3, <3>2
  <2> HIDE DEF Here
  <2> QED  BY <2>1
<1>5. Is(F)
  <2> HIDE DEF Is, G
  <2> QED  BY <1>4
<1>6. \A n \in 0 .. L : F[n] = Step(F, n)
  <2> HIDE DEF F
  <2> QED  BY <1>5
<1> DEFINE Bad == {n \in Nat : n \in 0 .. L /\ F[n] # Here(n)}
<1>7. Bad = {}
  <2> SUFFICES ASSUME Bad # {} PROVE FALSE
    OBVIOUS
  <2>1. PICK m \in Bad : \A k \in Bad : m <= k
    <3>1. Bad \subseteq Nat
      OBVIOUS
    <3> HIDE DEF Bad
    <3> QED  BY <3>1, Smallest
  <2> HIDE DEF F, Here
  <2>2. m \in Nat /\ m \in 0 .. L /\ F[m] # Here(m)
    BY <2>1
  <2>3. m # 0 => F[m - 1] = Here(m - 1)
    <3>1. m # 0 => m - 1 \in Nat /\ m - 1 \in 0 .. L /\ ~(m <= m - 1)
      BY <1>1, <2>2
    <3>2. m # 0 => m - 1 \notin Bad
      <4> HIDE DEF Bad
      <4> QED  BY <2>1, <3>1
    <3> QED  BY <3>1, <3>2
  <2> QED  BY <1>3, <1>6, <2>2, <2>3
<1>8. F[L] = Here(L)
  <2>1. L \in Nat /\ L \in 0 .. L
    BY <1>1
  <2> HIDE DEF F, Here
  <2> QED  BY <1>7, <2>1
<1>9. Upto(p, L) = p
  <2>1. L \in 0 .. L
    BY <1>1
  <2> QED  BY <2>1, UptoIs
<1> HIDE DEF F
<1> QED
  BY <1>2, <1>8, <1>9

\* What a tree holds, and is no link, is found at its path.
LEMMA FoundHere ==
  ASSUME NEW S, NEW t, DOMAIN t \subseteq Seq(S), IsTree(t), NEW p \in DOMAIN t,
         t[p].t # "link" \/ p = Root
  PROVE  Resolve(t, p) = [ok |-> TRUE, at |-> p, seen |-> {}]
<1>1. p \in Seq(S) /\ Len(p) \in Nat
  BY LenProperties
<1>2. ASSUME NEW n \in 1 .. Len(p), Upto(p, n) \in DOMAIN t, t[Upto(p, n)].t = "link"
      PROVE  FALSE
  <2>1. CASE n = Len(p)
    <3>1. n \in 0 .. Len(p)
      BY <1>1
    <3>2. Upto(p, n) = p
      BY <1>1, <2>1, <3>1, UptoIs
    <3>3. p # Root
      BY <1>1, <2>1 DEF Root
    <3> QED  BY <1>2, <3>2, <3>3
  <2>2. CASE n # Len(p)
    <3>1. n \in 1 .. Len(p) - 1
      BY <1>1, <2>2
    <3> QED  BY <1>2, <3>1, TreeAbove
  <2> QED  BY <2>1, <2>2
<1> QED
  BY <1>1, <1>2, ResolveHere

-----------------------------------------------------------------------------
(* The queries.                                                            *)

\* A path in a mount is routed to what is mounted there.
LEMMA RouteInto ==
  ASSUME MountsInv, NEW mp \in DOMAIN mounts, NEW x \in Seq(Names)
  PROVE  /\ Route(mp \o x).fs = mounts[mp] /\ Route(mp \o x).p = x
         /\ mp \o x \in Seq(Names) /\ Hidden(mp \o x)
<1> DEFINE y == mp \o x
<1>1. mp \in Seq(Names) /\ y \in Seq(Names) /\ Hidden(y)
  BY MountedHidden DEF MountsInv
<1>2. Under(y, mp)
  <2>1. Len(mp) <= Len(y) /\ \A i \in 1 .. Len(mp) : mp[i] = y[i]
    BY <1>1, JoinIs
  <2> HIDE DEF y
  <2> QED  BY <1>1, <2>1, UnderIs
<1> DEFINE over == {m \in DOMAIN mounts : Under(y, m)}
<1>3. ASSUME NEW m \in over PROVE m = mp
  <2>1. m \in DOMAIN mounts /\ m \in Seq(Names) /\ Under(y, m)
    BY <1>3 DEF MountsInv
  <2>2. Under(m, mp) \/ Under(mp, m)
    <3> HIDE DEF y
    <3> QED  BY <1>1, <1>2, <2>1, AboveBoth
  <2>3. ~Below(m, mp) /\ ~Below(mp, m)
    BY <2>1 DEF MountsInv
  <2> QED  BY <2>2, <2>3 DEF Under, Below, IsStrictPrefix
<1>4. mp \in over
  BY <1>2
<1>5. (CHOOSE m \in over : TRUE) = mp
  <2> HIDE DEF over
  <2> QED  BY <1>3, <1>4
<1>6. Route(y).fs = mounts[mp] /\ Route(y).p = Moved(y, mp, Root)
  <2>1. over # {}
    BY <1>4
  <2> QED  BY <1>5, <2>1 DEF Route
<1>7. Moved(y, mp, Root) = x
  <2>1. Root \in Seq(Names) /\ Root \o x = x
    BY JoinRoot
  <2>2. mp \in Seq(Names)
    BY <1>1
  <2> HIDE DEF over
  <2>3. \A e, u \in Seq(Names) : Moved(mp \o u, mp, e) = e \o u
    BY <2>2, MovedJoin
  <2> QED  BY <2>1, <2>3
<1> QED
  BY <1>1, <1>6, <1>7

\* No mount lies in another one.
LEMMA NoneBelowHidden ==
  ASSUME MountsInv, NEW p \in Seq(Names), Hidden(p)
  PROVE  MountsBelow(p) = {}
<1> SUFFICES ASSUME NEW m \in MountsBelow(p) PROVE FALSE
  OBVIOUS
<1>1. PICK mp \in DOMAIN mounts : Under(p, mp)
  BY DEF Hidden
<1>2. m \in DOMAIN mounts /\ Below(m, p) /\ m \in Seq(Names) /\ mp \in Seq(Names)
  BY DEF MountsBelow, MountsInv
<1>3. Under(m, p) /\ m # p
  BY <1>2 DEF Below, Under, IsStrictPrefix
<1>4. Under(m, mp)
  BY <1>1, <1>2, <1>3, UnderTrans
<1>5. m = mp
  <2>1. ~Below(m, mp)
    BY <1>2 DEF MountsInv
  <2> QED  BY <1>4, <2>1 DEF Under, Below, IsStrictPrefix
<1>6. Under(p, m) /\ Under(m, p)
  BY <1>1, <1>3, <1>5
<1>7. p = m
  <2>1. /\ Len(m) <= Len(p) /\ \A i \in 1 .. Len(m) : m[i] = p[i]
        /\ Len(p) <= Len(m) /\ Len(m) \in Nat /\ Len(p) \in Nat
    BY <1>2, <1>6, UnderIs, LenProperties
  <2>2. Len(p) = Len(m)
    BY <2>1
  <2> QED  BY <1>2, <2>1, <2>2, SeqEqual
<1> QED
  BY <1>3, <1>7

(* The trees QueriesAgree is about.                                        *)
Trees == Apart /\ EntriesInv /\ IsTree(Tree) /\ \A s \in Stores : IsTree(data[s])

\* What a path that is known stands for.
LEMMA KnownEntry ==
  ASSUME Apart, EntriesInv, NEW p \in Known
  PROVE  LET to == Route(p)
             D == data[to.fs]
         IN /\ p \in Seq(Names) /\ to.fs \in Stores /\ to.p \in Seq(Names)
            /\ AreEntries(D) /\ DOMAIN D \subseteq Seq(Names) /\ Root \in DOMAIN D
            /\ to.p \in DOMAIN D => Tree[p] = D[to.p] /\ IsEntry(D[to.p])
            /\ to.p \notin DOMAIN D =>
                 /\ Tree[p] = Dir("default") /\ ~Hidden(p) /\ p \in Virtual
                 /\ to.fs = Base /\ to.p = p
<1> DEFINE to == Route(p)
           D == data[to.fs]
<1>1. p \in Seq(Names)
  BY KnownIs DEF KnownHere
<1>2. to.fs \in Stores /\ to.p \in Seq(Names) /\ (~Hidden(p) => to.fs = Base /\ to.p = p)
  BY <1>1, RouteIs DEF Apart
<1>3. AreEntries(D) /\ DOMAIN D \subseteq Seq(Names) /\ Root \in DOMAIN D
  BY <1>2 DEF EntriesInv, Apart, StoresInv
<1>4. Tree[p] = IF Look(D, to.p).t = "err" THEN Dir("default") ELSE Look(D, to.p)
  BY DEF Tree, Entry1
<1> HIDE DEF D
<1>5. CASE to.p \in DOMAIN D
  BY <1>1, <1>2, <1>3, <1>4, <1>5, FoundEntry DEF D
<1>6. CASE to.p \notin DOMAIN D
  <2>1. Look(D, to.p).t = "err"
    BY <1>3, <1>6, FoundEntry
  <2>2. ~Hidden(p)
    BY <1>1, <1>6, KnownIs DEF KnownHere, D
  <2>3. p \in Virtual
    BY <1>1, <1>2, <1>6, <2>2, KnownIs DEF KnownHere, D
  <2> QED  BY <1>1, <1>2, <1>3, <1>4, <1>6, <2>1, <2>2, <2>3 DEF D
<1> QED
  BY <1>5, <1>6 DEF D

\* A directory that mounts make contains mounts, and one of a mount none.
LEMMA VirtualIs ==
  ASSUME MountsInv, NEW p \in Seq(Names)
  PROVE  p \in Virtual <=> p # Root /\ MountsBelow(p) # {}
<1>1. ASSUME NEW mp \in DOMAIN mounts
      PROVE  p \in Ancestors(mp) <=> p # Root /\ Below(mp, p)
  <2>1. mp \in Seq(Names)
    BY DEF MountsInv
  <2>2. ASSUME p \in Ancestors(mp) PROVE p # Root /\ Below(mp, p)
    <3>1. Under(mp, p) /\ p # Root
      BY <2>1, <2>2, AncestorContains
    <3>2. p # mp
      <4>1. Len(p) \in 1 .. Len(mp) - 1 /\ Len(mp) \in Nat
        BY <2>1, <2>2, AncestorIs, LenProperties
      <4> QED  BY <4>1
    <3> QED  BY <3>1, <3>2 DEF Under, Below, IsStrictPrefix
  <2> QED  BY <2>1, <2>2, BelowAncestor
<1> QED
  BY <1>1 DEF Virtual, MountsBelow

(* Readdir of d names what the store of d and the mounts have below it.    *)
Listed(d, k) ==
  \/ Child(Route(d).p, k) \in DOMAIN data[Route(d).fs]
  \/ \E mp \in MountsBelow(d) : mp[Len(d) + 1] = k

LEMMA ReaddirIs ==
  ASSUME Trees, NEW d \in Known, Tree[d].t = "dir"
  PROVE  Readdir(d).e = "ok" /\ ToSet(Readdir(d).kids) = {k \in Names : Listed(d, k)}
<1> DEFINE to == Route(d)
           D == data[to.fs]
           list == MemReaddir(D, to.p)
           virtual == {mp[Len(d) + 1] : mp \in MountsBelow(d)}
           kept == {k \in Names : Child(to.p, k) \in DOMAIN D}
<1>1. /\ d \in Seq(Names) /\ to.fs \in Stores /\ to.p \in Seq(Names)
      /\ AreEntries(D) /\ DOMAIN D \subseteq Seq(Names)
      /\ to.p \in DOMAIN D => Tree[d] = D[to.p] /\ IsEntry(D[to.p])
      /\ to.p \notin DOMAIN D => ~Hidden(d) /\ d \in Virtual /\ to.fs = Base /\ to.p = d
  BY KnownEntry DEF Trees
<1>2. Readdir(d) = IF list.e \notin {"ok", "ENOENT"} \/ (list.e = "ENOENT" /\ virtual = {})
                   THEN list
                   ELSE [e |-> "ok", kids |-> Sorted(ToSet(list.kids) \cup virtual)]
  BY Zenon DEF Readdir
<1>3. ~IsLink(D, to.p)
  BY <1>1 DEF IsLink
<1>4. Chase(D, to.p, {}) = [ok |-> TRUE, at |-> to.p, seen |-> {}]
  <2> HIDE DEF D, to
  <2> QED  BY <1>3 DEF Chase
<1>7. IsTree(D) /\ Root \in DOMAIN D
  BY <1>1 DEF Trees, Apart, StoresInv
<1>5. CASE to.p \in DOMAIN D
  <2> HIDE DEF D, to
  <2>1. Look(D, to.p) = D[to.p] /\ D[to.p].t = "dir"
    BY <1>1, <1>5 DEF Look
  <2>2. list = [e |-> "ok", kids |-> Sorted(kept)]
    <3> DEFINE r == Chase(D, to.p, {})
               found == {k \in Names : Child(r.at, k) \in DOMAIN D}
    <3>1. r.ok = TRUE /\ r.at = to.p
      BY <1>4
    <3>2. found = kept
      <4> HIDE DEF r
      <4> QED  BY <3>1
    <3>3. list = CASE (IF r.ok THEN Look(D, r.at) ELSE Err("ELOOP")).t = "err" ->
                        [e |-> (IF r.ok THEN Look(D, r.at) ELSE Err("ELOOP")).e, kids |-> <<>>]
                   [] (IF r.ok THEN Look(D, r.at) ELSE Err("ELOOP")).t = "file" ->
                        [e |-> "ENOTDIR", kids |-> <<>>]
                   [] OTHER -> [e |-> "ok", kids |-> Sorted(found)]
      BY Zenon DEF MemReaddir
    <3> HIDE DEF r, found, kept, list
    <3>4. (IF r.ok THEN Look(D, r.at) ELSE Err("ELOOP")).t = "dir"
      BY <2>1, <3>1
    <3> QED  BY <3>2, <3>3, <3>4
  <2> HIDE DEF list
  <2>3. Readdir(d) = [e |-> "ok", kids |-> Sorted(ToSet(list.kids) \cup virtual)]
    <3> HIDE DEF virtual, kept
    <3> QED  BY <1>2, <2>2
  <2>4. ToSet(list.kids) = kept
    <3> HIDE DEF virtual
    <3> QED  BY <2>2, SortedIs
  <2>5. ToSet(Readdir(d).kids) = Names \cap (kept \cup virtual)
    <3> HIDE DEF virtual, kept
    <3> QED  BY <2>3, <2>4, SortedIs
  <2>6. Names \cap (kept \cup virtual) = {k \in Names : Listed(d, k)}
    BY DEF Listed, D, to
  <2> QED  BY <2>3, <2>5, <2>6
<1>6. CASE to.p \notin DOMAIN D
  <2> HIDE DEF D, to
  <2>1. Look(D, to.p) = Err("ENOENT")
    BY <1>6 DEF Look
  <2>2. list = [e |-> "ENOENT", kids |-> <<>>]
    BY <1>4, <2>1 DEF MemReaddir, Err
  <2>3. virtual # {}
    BY <1>1, <1>6, VirtualIs DEF Apart, Trees
  <2> HIDE DEF list
  <2>4. Readdir(d) = [e |-> "ok", kids |-> Sorted(ToSet(list.kids) \cup virtual)]
    <3> HIDE DEF virtual
    <3> QED  BY <1>2, <2>2, <2>3
  <2>5. ToSet(list.kids) = {}
    BY <2>2 DEF ToSet
  <2>6. ToSet(Readdir(d).kids) = Names \cap virtual
    <3> HIDE DEF virtual
    <3> QED  BY <2>4, <2>5, SortedIs
  <2>7. ASSUME NEW k \in Names PROVE Child(to.p, k) \notin DOMAIN D
    <3>1. Child(to.p, k) # Root /\ Parent(Child(to.p, k)) = to.p
      <4>1. to.p \in Seq(Names)
        BY <1>1
      <4> QED  BY <4>1, ChildIs, ChildParent
    <3>2. to.p # Root
      BY <1>6, <1>7
    <3> QED  BY <1>6, <1>7, <3>1, <3>2 DEF IsTree, IsDir
  <2> QED  BY <2>4, <2>6, <2>7 DEF Listed, D, to
<1> QED
  BY <1>5, <1>6

\* The names below d, seen from outside, are those that are listed.
LEMMA ListedIsKnown ==
  ASSUME Apart, NEW d \in Seq(Names), NEW k \in Names
  PROVE  Child(d, k) \in Known <=> Listed(d, k)
<1> DEFINE to == Route(d)
           x == Child(d, k)
<1>1. /\ x \in Seq(Names) /\ x # Root /\ Len(x) = Len(d) + 1
      /\ \A i \in 1 .. Len(d) : x[i] = d[i]
      /\ Under(x, d) /\ x[Len(d) + 1] = k
      /\ Len(d) \in Nat
  <2>1. Append(d, k)[Len(d) + 1] = k
    BY AppendProperties
  <2> QED  BY <2>1, ChildIs, ChildIn, LenProperties DEF Child
<1>2. MountsInv /\ StoresInv /\ \A mp \in DOMAIN mounts : mp \in Seq(Names)
  BY DEF Apart, MountsInv
<1>3. x \in Known <=> IF Hidden(x) THEN Route(x).p \in DOMAIN data[Route(x).fs]
                      ELSE x \in DOMAIN data[Base] \cup Virtual
  BY <1>1, KnownIs DEF KnownHere
<1>4. CASE Hidden(d)
  <2>1. PICK mp \in DOMAIN mounts : to.fs = mounts[mp] /\ d = mp \o to.p
    BY <1>2, <1>4, RouteHidden
  <2>2. to.p \in Seq(Names)
    BY <1>2, RouteIs
  <2> DEFINE y == Child(to.p, k)
  <2>3. y \in Seq(Names)
    BY <2>2, ChildIs
  <2>4. x = mp \o y
    <3>1. mp \in Seq(Names)
      BY <1>2
    <3>2. \A p \in Seq(Names) : mp \o Child(p, k) = Child(mp \o p, k)
      BY <3>1, ChildJoin
    <3> QED  BY <2>1, <2>2, <3>2
  <2> HIDE DEF y
  <2>5. Route(mp \o y).fs = mounts[mp] /\ Route(mp \o y).p = y /\ Hidden(mp \o y)
    BY <1>2, <2>3, RouteInto
  <2>6. MountsBelow(d) = {}
    BY <1>2, <1>4, NoneBelowHidden
  <2>7. Listed(d, k) <=> y \in DOMAIN data[mounts[mp]]
    BY <2>1, <2>6 DEF Listed, y
  <2> QED  BY <1>3, <2>4, <2>5, <2>7
<1>5. CASE ~Hidden(d) /\ Hidden(x)
  <2>1. PICK mp \in DOMAIN mounts : Under(x, mp)
    BY <1>5 DEF Hidden
  <2>2. ~Under(d, mp) /\ Under(mp, d) /\ mp \in Seq(Names)
    <3>1. mp \in Seq(Names) /\ ~Under(d, mp)
      BY <1>2, <1>5 DEF Hidden
    <3> QED  BY <2>1, <3>1, ChildBetween
  <2>3. mp # d
    BY <2>2, UnderSelf
  <2>4. mp = x
    <3>1. /\ Len(mp) <= Len(x) /\ \A i \in 1 .. Len(mp) : mp[i] = x[i]
          /\ Len(d) <= Len(mp) /\ \A i \in 1 .. Len(d) : d[i] = mp[i]
          /\ Len(mp) \in Nat
      BY <1>1, <2>1, <2>2, UnderIs, LenProperties
    <3>2. Len(mp) # Len(d)
      BY <2>2, <2>3, <3>1, SeqEqual
    <3>3. Len(mp) = Len(x)
      BY <1>1, <3>1, <3>2
    <3> HIDE DEF x
    <3> QED  BY <1>1, <2>2, <3>1, <3>3, SeqEqual
  <2>5. Below(mp, d)
    BY <2>2, <2>3 DEF Under, Below, IsStrictPrefix
  <2>6. Listed(d, k)
    BY <1>1, <2>4, <2>5 DEF Listed, MountsBelow
  <2>7. Route(x).p = Root /\ Route(x).fs \in Stores
    <3>1. Root \in Seq(Names) /\ mp \o Root = mp
      BY <2>2, JoinRoot
    <3>2. Route(mp \o Root).p = Root
      BY <1>2, <3>1, RouteInto
    <3> QED  BY <1>1, <1>2, <2>4, <3>1, <3>2, RouteIs
  <2> QED  BY <1>2, <1>3, <1>5, <2>6, <2>7 DEF StoresInv
<1>6. CASE ~Hidden(d) /\ ~Hidden(x)
  <2>1. to.fs = Base /\ to.p = d
    BY <1>2, <1>6, RouteIs
  <2>2. ASSUME x \in Virtual PROVE \E mp \in MountsBelow(d) : mp[Len(d) + 1] = k
    <3>1. PICK mp \in DOMAIN mounts : x \in Ancestors(mp)
      BY <2>2 DEF Virtual
    <3>2. /\ mp \in Seq(Names) /\ Len(x) \in 1 .. Len(mp) - 1
          /\ \A i \in 1 .. Len(x) : x[i] = mp[i]
      BY <1>2, <3>1, AncestorIs
    <3>3. Under(mp, d)
      <4>1. Len(d) <= Len(mp) /\ \A i \in 1 .. Len(d) : d[i] = mp[i]
        BY <1>1, <3>2, LenProperties
      <4> QED  BY <3>2, <4>1, UnderIs
    <3>4. mp # d /\ mp[Len(d) + 1] = k
      <4>1. Len(d) + 1 \in 1 .. Len(x)
        BY <1>1
      <4> QED  BY <1>1, <3>2, <4>1
    <3>5. Below(mp, d)
      BY <3>3, <3>4 DEF Under, Below, IsStrictPrefix
    <3> QED  BY <3>4, <3>5 DEF MountsBelow
  <2>3. ASSUME NEW mp \in MountsBelow(d), mp[Len(d) + 1] = k PROVE x \in Virtual
    <3>1. mp \in DOMAIN mounts /\ mp \in Seq(Names) /\ Below(mp, d)
      BY <1>2 DEF MountsBelow
    <3>2. PICK m \in Names : mp = Child(d, m) \/ Child(d, m) \in Ancestors(mp)
      BY <3>1, BelowChild
    <3>3. mp[Len(d) + 1] = m
      <4>1. Len(Child(d, m)) = Len(d) + 1 /\ Child(d, m)[Len(d) + 1] = m
        <5>1. Append(d, m)[Len(d) + 1] = m
          BY AppendProperties
        <5> QED  BY <5>1, ChildIs DEF Child
      <4>2. Child(d, m) \in Ancestors(mp) =>
              \A i \in 1 .. Len(Child(d, m)) : Child(d, m)[i] = mp[i]
        BY <3>1, AncestorIs
      <4>3. Len(d) + 1 \in 1 .. Len(d) + 1
        BY <1>1
      <4> QED  BY <3>2, <4>1, <4>2, <4>3
    <3>4. m = k
      BY <2>3, <3>3
    <3>5. mp # x
      BY <1>6, <3>1, UnderSelf DEF Hidden
    <3> QED  BY <3>1, <3>2, <3>4, <3>5 DEF Virtual
  <2> QED  BY <1>3, <1>6, <2>1, <2>2, <2>3 DEF Listed
<1> QED
  BY <1>4, <1>5, <1>6

\* What a mount that is known has above it are directories of the tree.
LEMMA MountAbove ==
  ASSUME Trees, NEW p \in Seq(Names), p # Root, MountsBelow(p) # {}
  PROVE  p \in Known /\ Tree[p].t = "dir"
<1>1. PICK mp \in DOMAIN mounts : Below(mp, p) /\ mp \in Seq(Names)
  BY DEF MountsBelow, Trees, Apart, MountsInv
<1>2. p \in Ancestors(mp)
  BY <1>1, BelowAncestor
<1>3. mp \in Known
  <2>1. Root \in Seq(Names) /\ mp \o Root = mp
    BY <1>1, JoinRoot
  <2>2. Route(mp \o Root).p = Root /\ Hidden(mp \o Root)
    BY <2>1, RouteInto DEF Trees, Apart
  <2>3. Route(mp).fs \in Stores
    BY <1>1, RouteIs DEF Trees, Apart
  <2> QED  BY <1>1, <2>1, <2>2, <2>3, KnownIs DEF KnownHere, Trees, Apart, StoresInv
<1>4. DOMAIN Tree = Known /\ Known \subseteq Seq(Names)
  BY KnownIs DEF Tree, KnownHere, Trees
<1> QED
  BY <1>2, <1>3, <1>4, TreeDirs DEF Trees

(* What QueriesAgree says of the path p.                                   *)
AnswersAgree(p) ==
  LET n == Stat(p)
      r == Realpath(p)
  IN /\ Tree[p].t # "link" => ExistsNow(p) /\ n.t # "err"
     /\ ~OnlyVirtual(p) => /\ r.ok <=> n.t # "err"
                           /\ r.ok /\ (Hidden(p) \/ ~Hidden(r.at)) => Look(Tree, r.at) = n

LEMMA AnswersHold ==
  ASSUME Trees, NEW p \in Known
  PROVE  AnswersAgree(p)
<1> DEFINE to == Route(p)
           D == data[to.fs]
           R == Resolve(D, to.p)
           s == MemStat(D, to.p)
           n == Stat(p)
           r == Realpath(p)
<1>1. /\ p \in Seq(Names) /\ to.fs \in Stores /\ to.p \in Seq(Names)
      /\ AreEntries(D) /\ DOMAIN D \subseteq Seq(Names) /\ Root \in DOMAIN D
      /\ to.p \in DOMAIN D => Tree[p] = D[to.p] /\ IsEntry(D[to.p])
      /\ to.p \notin DOMAIN D =>
           Tree[p] = Dir("default") /\ ~Hidden(p) /\ p \in Virtual /\ to.fs = Base /\ to.p = p
  BY KnownEntry DEF Trees
<1>2. IsTree(D) /\ MountsInv /\ Apart
  BY <1>1 DEF Trees, Apart
<1>3. /\ s = IF R.ok THEN Look(D, R.at) ELSE Err("ELOOP")
      /\ n = IF s.t = "err" /\ MountsBelow(p) # {} THEN Dir("default") ELSE s
      /\ ExistsNow(p) <=> IsMount(p) \/ MountsBelow(p) # {} \/ (R.ok /\ R.at \in DOMAIN D)
      /\ Dir("default").t = "dir" /\ Err("ELOOP").t = "err"
  BY DEF Stat, MemStat, ExistsNow, MemExists, Dir, Err
<1> HIDE DEF n, D
<1>4. s.t # "err" <=> R.ok /\ R.at \in DOMAIN D
  <2> HIDE DEF s, R
  <2> QED  BY <1>1, <1>3, FoundEntry
<1>5. ASSUME to.p \in DOMAIN D, D[to.p].t # "link" \/ to.p = Root
      PROVE  R.ok = TRUE /\ R.at = to.p
  <2>1. R = [ok |-> TRUE, at |-> to.p, seen |-> {}]
    BY <1>1, <1>2, <1>5, FoundHere
  <2> QED  BY <2>1
<1> HIDE DEF s, R
<1>6. ASSUME Tree[p].t # "link" PROVE ExistsNow(p) /\ n.t # "err"
  <2>1. CASE to.p \in DOMAIN D
    BY <1>1, <1>3, <1>4, <1>5, <1>6, <2>1
  <2>2. CASE to.p \notin DOMAIN D
    <3>1. MountsBelow(p) # {}
      BY <1>1, <1>2, <2>2, VirtualIs
    <3> QED  BY <1>3, <3>1
  <2> QED  BY <2>1, <2>2
\* Where mounts lie below, the store has a directory as well.
<1>7. ASSUME ~OnlyVirtual(p), MountsBelow(p) # {} PROVE s.t # "err"
  <2>1. ~Hidden(p) /\ to.fs = Base /\ to.p = p
    BY <1>1, <1>2, <1>7, NoneBelowHidden, RouteIs
  <2>2. CASE p = Root
    BY <1>1, <1>4, <1>5, <2>1, <2>2
  <2>3. CASE p # Root
    <3>1. p \in Virtual /\ Tree[p].t = "dir"
      BY <1>1, <1>2, <1>7, <2>3, VirtualIs, MountAbove
    <3>2. p \in DOMAIN D
      BY <1>7, <2>1, <3>1 DEF OnlyVirtual, D
    <3> QED  BY <1>1, <1>4, <1>5, <2>1, <3>1, <3>2
  <2> QED  BY <2>2, <2>3
<1>8. ~OnlyVirtual(p) => n = s
  BY <1>3, <1>7
\* What is found in the store is seen at its path from outside.
<1>9. ASSUME NEW y \in DOMAIN D, NEW z \in Seq(Names), Route(z).fs = to.fs, Route(z).p = y
      PROVE  Look(Tree, z) = D[y]
  <2>1. z \in Known
    <3>1. CASE Hidden(z)
      BY <1>2, <1>9, <3>1, KnownIs DEF KnownHere, D
    <3>2. CASE ~Hidden(z)
      <4>1. Route(z).fs = Base /\ y = z
        BY <1>2, <1>9, <3>2, RouteIs
      <4> QED  BY <1>2, <1>9, <3>2, <4>1, KnownIs DEF KnownHere, D
    <3> QED  BY <3>1, <3>2
  <2>2. Tree[z] = D[y]
    <3>1. Route(z).p \in DOMAIN data[Route(z).fs] => Tree[z] = data[Route(z).fs][Route(z).p]
      BY <2>1, KnownEntry DEF Trees
    <3> QED  BY <1>9, <3>1 DEF D
  <2>3. z \in DOMAIN Tree
    BY <2>1 DEF Tree
  <2> QED  BY <2>2, <2>3 DEF Look
<1>10. ASSUME ~OnlyVirtual(p), IsMount(p)
       PROVE  /\ r.ok <=> n.t # "err"
              /\ r.ok => Look(Tree, r.at) = n
  <2>1. r.ok = TRUE /\ r.at = p
    BY <1>10 DEF Realpath
  <2>2. to.p = Root
    <3>1. Root \in Seq(Names) /\ p \o Root = p
      BY <1>1, JoinRoot
    <3>2. Route(p \o Root).p = Root
      BY <1>2, <1>10, <3>1, RouteInto DEF IsMount
    <3> QED  BY <3>1, <3>2
  <2>3. R.ok = TRUE /\ R.at = Root
    BY <1>1, <1>5, <2>2
  <2>4. s = D[Root]
    BY <1>1, <1>3, <2>3 DEF Look
  <2>5. Look(Tree, p) = D[Root]
    BY <1>1, <1>9, <2>2
  <2> QED  BY <1>1, <1>4, <1>8, <1>10, <2>1, <2>3, <2>4, <2>5
<1>11. ASSUME ~OnlyVirtual(p), ~IsMount(p)
       PROVE  /\ r.ok <=> n.t # "err"
              /\ r.ok /\ (Hidden(p) \/ ~Hidden(r.at)) => Look(Tree, r.at) = n
  <2> DEFINE mount == SubSeq(p, 1, Len(p) - Len(to.p))
  <2>1. (r.ok <=> R.ok /\ R.at \in DOMAIN D) /\ r.at = mount \o R.at
    BY <1>11 DEF Realpath, MemRealpath, R, D
  <2>2. ASSUME r.ok, Hidden(p) \/ ~Hidden(r.at) PROVE Look(Tree, r.at) = n
    <3>1. R.ok /\ R.at \in DOMAIN D /\ R.at \in Seq(Names) /\ n = D[R.at]
      <4>1. R.ok /\ R.at \in DOMAIN D
        BY <2>1, <2>2
      <4> QED  BY <1>1, <1>3, <1>8, <1>11, <4>1 DEF Look
    <3>2. CASE Hidden(p)
      <4>1. PICK mp \in DOMAIN mounts : to.fs = mounts[mp] /\ p = mp \o to.p
        BY <1>1, <1>2, <3>2, RouteHidden
      <4>2. mp \in Seq(Names)
        BY <1>2 DEF MountsInv
      <4>3. mount = mp
        BY <1>1, <4>1, <4>2, HeadOfJoin
      <4>4. Route(mp \o R.at).fs = mounts[mp] /\ Route(mp \o R.at).p = R.at
            /\ mp \o R.at \in Seq(Names)
        BY <1>2, <3>1, RouteInto
      <4>5. Look(Tree, mp \o R.at) = D[R.at]
        BY <1>9, <3>1, <4>1, <4>4
      <4> HIDE DEF mount
      <4> QED  BY <2>1, <3>1, <4>3, <4>5
    <3>3. CASE ~Hidden(p)
      <4>1. to.fs = Base /\ to.p = p
        BY <1>1, <1>2, <3>3, RouteIs
      <4>2. mount = Root
        <5>1. Len(p) \in Nat /\ Len(p) - Len(p) = 0
          BY <1>1, LenProperties
        <5>2. SubSeq(p, 1, 0) = <<>>
          BY SubSeqEmpty
        <5> QED  BY <4>1, <5>1, <5>2 DEF Root
      <4>3. r.at = R.at
        <5> HIDE DEF mount
        <5> QED  BY <2>1, <3>1, <4>2, JoinRoot
      <4>4. Route(R.at).fs = Base /\ Route(R.at).p = R.at
        BY <1>2, <2>2, <3>1, <3>3, <4>3, RouteIs
      <4> QED  BY <1>9, <3>1, <4>1, <4>3, <4>4
    <3> QED  BY <3>2, <3>3
  <2> QED  BY <1>4, <1>8, <1>11, <2>1, <2>2
<1> QED
  BY <1>6, <1>10, <1>11 DEF AnswersAgree, n

LEMMA QueriesHold == Apart /\ EntriesInv => QueriesAgree
<1> SUFFICES ASSUME Trees PROVE
      LET t == Tree IN
        /\ \A d \in DOMAIN t : t[d].t = "dir" =>
             LET list == Readdir(d)
             IN /\ list.e = "ok"
                /\ ToSet(list.kids) = {k \in Names : Child(d, k) \in DOMAIN t}
        /\ \A p \in DOMAIN t : AnswersAgree(p)
  BY Zenon DEF QueriesAgree, Trees, AnswersAgree
<1>1. DOMAIN Tree = Known /\ Known \subseteq Seq(Names)
  BY KnownIs DEF Tree, KnownHere, Trees
<1>2. ASSUME NEW d \in Known, Tree[d].t = "dir"
      PROVE  /\ Readdir(d).e = "ok"
             /\ ToSet(Readdir(d).kids) = {k \in Names : Child(d, k) \in Known}
  <2>1. Readdir(d).e = "ok" /\ ToSet(Readdir(d).kids) = {k \in Names : Listed(d, k)}
    BY <1>2, ReaddirIs
  <2>2. \A k \in Names : Child(d, k) \in Known <=> Listed(d, k)
    BY <1>1, ListedIsKnown DEF Trees
  <2> QED  BY <2>1, <2>2
<1> QED
  BY <1>1, <1>2, AnswersHold

(* The queries describe one tree, whatever was called, mounted and         *)
(* unmounted before and meanwhile: readdir lists what exists below a       *)
(* directory, exists and stat find what is there, and realpath finds what  *)
(* stat finds.                                                             *)
THEOREM QueriesAreRight == Spec => []QueriesAgree
<1>1. IInv => Apart
  BY DEF IInv, Apart
<1> QED
  BY <1>1, Always, EntriesAlways, QueriesHold, PTL

=============================================================================
