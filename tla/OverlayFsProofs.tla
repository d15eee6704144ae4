--------------------------- MODULE OverlayFsProofs ---------------------------
(***************************************************************************)
(* Proofs about OverlayFs: its type invariant, that the steps of a call,   *)
(* in whatever order the calls of all callers interleave, change only what *)
(* its operands name, that while calls do not overlap the two layers and   *)
(* the white-outs show a tree, and that then each call keeps its contract. *)
(***************************************************************************)
EXTENDS OverlayFs, FsLemmas, SequenceTheorems, TLAPS

-----------------------------------------------------------------------------
(* What the invocations of a call know.                                    *)

(* What an operation awaits.                                               *)
Awaits ==
  {"exists", "parent", "made", "stat", "list", "read", "written", "mkdir", "cp", "rm", "new"}

(* How operations and queries end.                                         *)
Codes == {"ok", "none", "ENOENT", "EEXIST", "EISDIR", "EPERM", "ELOOP", "EFBIG"}

(* What a query answers: an entry or an error.                             *)
Answer(writes) == Entry(writes, LinkTargets) \cup [t : {"err"}, e : Codes]

Frames(writes) ==
  [fs : {"overlay"}, op : OpNames, p : Seq(Names), q : Seq(Names), o : Options,
   pc : Awaits, has : BOOLEAN, res : Answer(writes), kids : Seq(Names \cup Modes),
   ret : Codes]

(* What an invocation knows has the shape its next step relies on: rm does *)
(* not work on the root, mkdir asks only for a parent other than the root, *)
(* a read answers a file or an error, the children still to be handled are *)
(* names, and a copied mode is one.                                        *)
Shaped(f, writes) ==
  /\ f \in Frames(writes)
  /\ f.op = "rm" => f.p # Root
  /\ f.op = "mkdir" /\ f.pc = "parent" => Parent(f.p) # Root
  /\ f.pc = "read" => f.res.t \in {"file", "err"}
  /\ f.op \in {"rm", "cp"} => f.kids \in Seq(Names)
  /\ f.op \in {"chmod", "utimes", "link"} /\ f.pc \in {"new", "read"} =>
       f.kids # <<>> /\ f.kids \in Seq(Modes)
  /\ f.op = "symlink" => f.q \in LinkTargets

(* How an invocation f of the call r got its paths: they are those of the  *)
(* call, paths below them, or missing parents of what the call creates.    *)
Belongs(f, r) ==
  /\ f.op \in {"write", "append", "chmod", "utimes", "symlink"} =>
       r.op = f.op /\ f.p = r.p
  /\ f.op = "link" => r.op = "link" /\ f.q = r.q
  /\ f.op = "rm" => r.op \in {"rm", "mv"} /\ Under(f.p, r.p)
  /\ f.op = "cp" => r.op \in {"cp", "mv"} /\ Under(f.q, r.q)
  /\ f.op = "mv" => r.op = "mv" /\ f.p = r.p /\ f.q = r.q
  /\ f.op = "mkdir" =>
       \/ r.op = "mkdir" /\ f.p \in {r.p} \cup Ancestors(r.p)
       \/ r.op \in {"cp", "mv"} /\ (Under(f.p, r.q) \/ f.p \in Ancestors(r.q))

(* A stack of invocations of the call req.                                 *)
StackFits(s, req, writes) ==
  /\ s \in Seq(Frames(writes))
  /\ \A i \in DOMAIN s : Shaped(s[i], writes) /\ Belongs(s[i], req)

(* The call of a caller.                                                   *)
IsCall(x) ==
  x = [stack |-> x.stack, req |-> x.req, id |-> x.id, out |-> x.out,
       before |-> x.before]

CallFits(x, writes) == IsCall(x) /\ StackFits(x.stack, x.req, writes)

CallsFit ==
  /\ DOMAIN calls = Callers
  /\ \A c \in Callers : CallFits(calls[c], Contents)

-----------------------------------------------------------------------------
(* Queries.                                                                *)

\* The host files are made of writes.
LEMMA LowerTyped ==
  ASSUME NEW p \in DOMAIN Lower
  PROVE  Lower[p] \in Entry(Contents, LinkTargets)
<1>1. Lower[p] \in Entry(Nat, {})
  BY LowerIsTree
<1>2. CASE Lower[p].t = "dir"
  <2>1. Lower[p] \in [t : {"dir"}, m : Modes]
    BY <1>1, <1>2 DEF Entry
  <2> QED  BY <2>1 DEF Entry
<1>3. CASE Lower[p].t = "file"
  <2>1. Lower[p] \in [t : {"file"}, c : Seq(Nat), m : Modes]
    BY <1>1, <1>3 DEF Entry
  <2> DEFINE c == Lower[p].c
  <2>2. c \in Seq(Nat) /\ Len(c) \in Nat /\ c = [i \in 1 .. Len(c) |-> c[i]]
    <3>1. c \in Seq(Nat)
      BY <2>1
    <3> HIDE DEF c
    <3> QED  BY <3>1, LenProperties
  <2>3. ToSet(c) \subseteq Contents
    <3>1. Lower[p] \in {m \in Range(Lower) : m.t = "file"}
      BY <1>3 DEF Range
    <3> QED  BY <3>1 DEF Contents
  <2>4. \A i \in 1 .. Len(c) : c[i] \in Contents
    <3>1. DOMAIN c = 1 .. Len(c)
      <4> HIDE DEF c
      <4> QED  BY <2>2
    <3> HIDE DEF c
    <3> QED  BY <2>3, <3>1 DEF ToSet
  <2>5. c \in Seq(Contents)
    <3> HIDE DEF c
    <3>1. [i \in 1 .. Len(c) |-> c[i]] \in Seq(Contents)
      BY <2>2, <2>4, IsASeq
    <3> QED  BY <2>2, <3>1
  <2>6. Lower[p] \in [t : {"file"}, c : Seq(Contents), m : Modes]
    BY <2>1, <2>5
  <2> QED  BY <2>6 DEF Entry
<1>4. Lower[p].t \in {"dir", "file"}
  BY <1>1 DEF Entry
<1> QED
  BY <1>2, <1>3, <1>4

\* The layers, as TypeOK has them.
Layers ==
  /\ Range(memory) \subseteq Entry(Contents, LinkTargets)
  /\ Root \in DOMAIN memory /\ Root \notin deleted
  /\ deleted \subseteq Seq(Names)

LEMMA ErrTyped ==
  ASSUME NEW W, NEW e \in Codes
  PROVE  Err(e) \in Answer(W)
<1>1. [t |-> "err", e |-> e] \in [t : {"err"}, e : Codes]
  OBVIOUS
<1> QED
  BY <1>1 DEF Answer, Err

LEMMA QueriesTyped ==
  ASSUME Layers, NEW p
  PROVE  /\ Visible(p) \in BOOLEAN
         /\ Lstat(p) \in Answer(Contents)
         /\ Stat(p) \in Answer(Contents)
         /\ Read(p) \in Answer(Contents) /\ Read(p).t \in {"file", "err"}
<1>1. \A x : Lstat(x) \in Answer(Contents)
  <2> TAKE x
  <2>1. CASE Visible(x)
    <3>1. x \in DOMAIN memory \/ x \in DOMAIN Lower
      BY <2>1 DEF Visible
    <3>2. x \in DOMAIN memory => memory[x] \in Entry(Contents, LinkTargets)
      BY DEF Layers, Range
    <3>3. EntryAt(x) \in Entry(Contents, LinkTargets)
      BY <3>1, <3>2, LowerTyped DEF EntryAt
    <3> QED  BY <2>1, <3>3 DEF Lstat, Answer
  <2>2. CASE ~Visible(x)
    <3>1. Err("ENOENT") \in Answer(Contents)
      BY ErrTyped DEF Codes
    <3> QED  BY <2>2, <3>1 DEF Lstat
  <2> QED  BY <2>1, <2>2
<1>2. Err("ELOOP") \in Answer(Contents) /\ Err("EISDIR") \in Answer(Contents)
      /\ Err("EFBIG") \in Answer(Contents)
  BY ErrTyped DEF Codes
<1>3. \A x : Stat(x) \in Answer(Contents)
  <2> TAKE x
  <2>1. \E y : Stat(x) = IF Lstat(y).t = "link" THEN Err("ELOOP") ELSE Lstat(y)
    BY Zenon DEF Stat
  <2> QED  BY <1>1, <1>2, <2>1
<1>4. Read(p) \in Answer(Contents) /\ Read(p).t \in {"file", "err"}
  <2>1. \E at : Read(p) =
          LET n == Stat(p)
          IN CASE n.t = "dir" -> Err("EISDIR")
               [] n.t = "file" /\ at \in Huge /\ at \notin DOMAIN memory -> Err("EFBIG")
               [] OTHER -> n
    BY Zenon DEF Read
  <2>2. Stat(p).t \in {"dir", "file", "err"}
    <3>1. \E y : Stat(p) = IF Lstat(y).t = "link" THEN Err("ELOOP") ELSE Lstat(y)
      BY Zenon DEF Stat
    <3>2. \A y : Lstat(y).t \in {"dir", "file", "link", "err"}
      BY <1>1 DEF Answer, Entry
    <3> QED  BY <3>1, <3>2 DEF Err
  <2>3. Err("EISDIR").t = "err" /\ Err("EFBIG").t = "err"
    BY DEF Err
  <2> QED  BY <1>2, <1>3, <2>1, <2>2, <2>3
<1>5. Visible(p) \in BOOLEAN
  BY DEF Visible
<1> QED
  BY <1>1, <1>3, <1>4, <1>5

\* What is known of an answer from its kind.
LEMMA AnswerIs ==
  ASSUME NEW W, NEW n \in Answer(W)
  PROVE  /\ n.t \in {"dir", "file", "link", "err"}
         /\ n.t = "err" => n.e \in Codes
         /\ n.t = "dir" => n.m \in Modes
         /\ n.t = "file" => n.c \in Seq(W) /\ n.m \in Modes
BY DEF Answer, Entry

LEMMA EntriesTyped ==
  ASSUME NEW W, NEW m \in Modes
  PROVE  /\ Dir(m) \in Entry(W, LinkTargets)
         /\ \A c \in Seq(W) : File(c, m) \in Entry(W, LinkTargets)
         /\ \A to \in LinkTargets : Link(to) \in Entry(W, LinkTargets)
BY DEF Dir, File, Link, Entry, Modes

LEMMA ListTyped ==
  ASSUME NEW p
  PROVE  Readdir(p).kids \in Seq(Names)
<1>1. \A d : ListAt(d) \in Seq(Names)
  BY SortedTyped DEF ListAt
<1>2. <<>> \in Seq(Names)
  OBVIOUS
<1>3. \E at : Readdir(p) =
        CASE at \in deleted -> [ok |-> FALSE, kids |-> <<>>]
          [] at \notin deleted /\ at \in DOMAIN memory \cup DOMAIN Lower ->
               [ok |-> TRUE, kids |-> ListAt(at)]
          [] OTHER -> [ok |-> at # p, kids |-> <<>>]
  BY Zenon DEF Readdir
<1> QED
  BY <1>1, <1>2, <1>3


-----------------------------------------------------------------------------
(* Invocations.                                                            *)

(* r is called on the way of the call req.                                 *)
Suits(r, req) ==
  /\ r \in Reqs
  /\ r.op = "rm" => r.p # Root
  /\ r.op = "symlink" => r.q \in LinkTargets
  /\ Belongs(r, req)

LEMMA RequestSuits ==
  ASSUME NEW r \in Requests
  PROVE  Suits(r, r) /\ r.op \in Ops /\ r.p # Root
<1>1. Under(r.p, r.p) /\ Under(r.q, r.q)
  BY RequestIs, UnderSelf
<1>2. Belongs(r, r)
  BY <1>1 DEF Belongs
<1> QED
  BY <1>2, RequestIs DEF Suits

LEMMA StackOne ==
  ASSUME NEW W, NEW req, NEW f, Shaped(f, W), Belongs(f, req)
  PROVE  StackFits(<<f>>, req, W)
<1>1. f \in Frames(W)
  BY DEF Shaped
<1>2. <<f>> \in Seq(Frames(W)) /\ DOMAIN <<f>> = {1} /\ <<f>>[1] = f
  BY <1>1
<1> QED
  BY <1>2 DEF StackFits

LEMMA StackTwo ==
  ASSUME NEW W, NEW req, NEW f, NEW g,
         Shaped(f, W), Belongs(f, req), Shaped(g, W), Belongs(g, req)
  PROVE  StackFits(<<f, g>>, req, W)
<1>1. f \in Frames(W) /\ g \in Frames(W)
  BY DEF Shaped
<1>2. /\ <<f, g>> \in Seq(Frames(W)) /\ DOMAIN <<f, g>> = {1, 2}
      /\ <<f, g>>[1] = f /\ <<f, g>>[2] = g
  BY <1>1
<1> QED
  BY <1>2 DEF StackFits

LEMMA StackTop ==
  ASSUME NEW W, NEW req, NEW s, StackFits(s, req, W), s # <<>>
  PROVE  /\ Head(s) \in Frames(W) /\ Shaped(Head(s), W) /\ Belongs(Head(s), req)
         /\ StackFits(Tail(s), req, W)
<1>1. s \in Seq(Frames(W)) /\ Len(s) \in Nat \ {0} /\ DOMAIN s = 1 .. Len(s)
  BY EmptySeq, LenProperties DEF StackFits
<1>2. Head(s) = s[1] /\ Tail(s) \in Seq(Frames(W)) /\ Len(Tail(s)) = Len(s) - 1
      /\ \A i \in 1 .. Len(Tail(s)) : Tail(s)[i] = s[i + 1]
  BY <1>1, HeadTailProperties
<1>3. 1 \in DOMAIN s /\ DOMAIN Tail(s) = 1 .. Len(Tail(s))
  BY <1>1, <1>2, LenProperties
<1>4. \A i \in DOMAIN Tail(s) : i + 1 \in DOMAIN s
  BY <1>1, <1>2, <1>3
<1> QED
  BY <1>1, <1>2, <1>3, <1>4 DEF StackFits, Shaped

LEMMA StackJoin ==
  ASSUME NEW W, NEW req, NEW s, NEW t, StackFits(s, req, W), StackFits(t, req, W)
  PROVE  StackFits(s \o t, req, W)
<1>1. s \in Seq(Frames(W)) /\ t \in Seq(Frames(W))
  BY DEF StackFits
<1>2. s \o t \in Seq(Frames(W)) /\ Len(s \o t) = Len(s) + Len(t)
      /\ \A i \in 1 .. Len(s) + Len(t) :
           (s \o t)[i] = IF i <= Len(s) THEN s[i] ELSE t[i - Len(s)]
  BY <1>1, ConcatProperties
<1>3. /\ Len(s) \in Nat /\ DOMAIN s = 1 .. Len(s)
      /\ Len(t) \in Nat /\ DOMAIN t = 1 .. Len(t)
      /\ DOMAIN (s \o t) = 1 .. Len(s) + Len(t)
  BY <1>1, <1>2, LenProperties
<1>4. ASSUME NEW i \in DOMAIN (s \o t)
      PROVE  Shaped((s \o t)[i], W) /\ Belongs((s \o t)[i], req)
  <2>1. CASE i <= Len(s)
    <3>1. i \in DOMAIN s /\ (s \o t)[i] = s[i]
      BY <1>2, <1>3, <2>1
    <3> QED  BY <3>1 DEF StackFits
  <2>2. CASE ~(i <= Len(s))
    <3>1. i - Len(s) \in DOMAIN t /\ (s \o t)[i] = t[i - Len(s)]
      BY <1>2, <1>3, <2>2
    <3> QED  BY <3>1 DEF StackFits
  <2> QED  BY <2>1, <2>2
<1> QED
  BY <1>2, <1>4 DEF StackFits

LEMMA StackEmpty == \A req, W : StackFits(<<>>, req, W)
<1> TAKE req, W
<1>1. <<>> \in Seq(Frames(W)) /\ DOMAIN <<>> = {}
  OBVIOUS
<1> QED
  BY <1>1 DEF StackFits

\* More writes make no difference.
LEMMA StackLater ==
  ASSUME NEW W, NEW V, W \subseteq V, NEW req, NEW s, StackFits(s, req, W)
  PROVE  StackFits(s, req, V)
<1>1. Seq(W) \subseteq Seq(V)
  BY SeqMonotonic
<1>2. Answer(W) \subseteq Answer(V)
  BY <1>1 DEF Answer, Entry
<1>3. Frames(W) \subseteq Frames(V)
  BY <1>2 DEF Frames
<1>4. Seq(Frames(W)) \subseteq Seq(Frames(V))
  BY <1>3, SeqMonotonic
<1> QED
  BY <1>3, <1>4 DEF StackFits, Shaped

(* g is the invocation f with other answers.                               *)
Alike(g, f, W) ==
  /\ g \in Frames(W)
  /\ g.op = f.op /\ g.p = f.p /\ g.q = f.q
  /\ g.op = "mkdir" /\ g.pc = "parent" => Parent(g.p) # Root
  /\ g.pc = "read" => g.res.t \in {"file", "err"}
  /\ g.op \in {"rm", "cp"} => g.kids \in Seq(Names)
  /\ g.op \in {"chmod", "utimes", "link"} /\ g.pc \in {"new", "read"} =>
       g.kids # <<>> /\ g.kids \in Seq(Modes)

LEMMA AlikeFits ==
  ASSUME NEW W, NEW req, NEW f, NEW g, Alike(g, f, W), Shaped(f, W), Belongs(f, req)
  PROVE  Shaped(g, W) /\ Belongs(g, req)
BY DEF Alike, Shaped, Belongs

(* g is f at the await pc, with the answers res and kids.                  *)
Altered(g, f, pc, res, kids, W) ==
  /\ g \in Frames(W)
  /\ g.op = f.op /\ g.p = f.p /\ g.q = f.q
  /\ g.pc = pc /\ g.res = res /\ g.kids = kids

LEMMA Alterations ==
  ASSUME NEW W, NEW f \in Frames(W)
  PROVE  /\ \A has \in BOOLEAN :
              Altered([f EXCEPT !.has = has], f, f.pc, f.res, f.kids, W)
         /\ \A res \in Answer(W) :
              Altered([f EXCEPT !.res = res], f, f.pc, res, f.kids, W)
         /\ \A ret \in Codes :
              Altered([f EXCEPT !.ret = ret], f, f.pc, f.res, f.kids, W)
         /\ \A pc \in Awaits :
              Altered([f EXCEPT !.pc = pc], f, pc, f.res, f.kids, W)
         /\ \A kids \in Seq(Names \cup Modes) :
              Altered([f EXCEPT !.kids = kids], f, f.pc, f.res, kids, W)
         /\ \A pc \in Awaits, has \in BOOLEAN :
              Altered([f EXCEPT !.pc = pc, !.has = has], f, pc, f.res, f.kids, W)
         /\ \A pc \in Awaits, res \in Answer(W) :
              Altered([f EXCEPT !.pc = pc, !.res = res], f, pc, res, f.kids, W)
         /\ \A pc \in Awaits, res \in Answer(W), kids \in Seq(Names \cup Modes) :
              Altered([f EXCEPT !.pc = pc, !.res = res, !.kids = kids], f, pc, res, kids, W)
         /\ \A pc \in Awaits, res \in Answer(W), kids \in Seq(Names \cup Modes) :
              Altered([f EXCEPT !.pc = pc, !.kids = kids, !.res = res], f, pc, res, kids, W)
         /\ \A pc \in Awaits, has \in BOOLEAN, kids \in Seq(Names \cup Modes) :
              Altered([f EXCEPT !.pc = pc, !.kids = kids, !.has = has], f, pc, f.res, kids, W)
<1>1. \A has \in BOOLEAN :
        Altered([f EXCEPT !.has = has], f, f.pc, f.res, f.kids, W)
  BY DEF Frames, Altered
<1>2. \A res \in Answer(W) :
        Altered([f EXCEPT !.res = res], f, f.pc, res, f.kids, W)
  BY DEF Frames, Altered
<1>3. \A ret \in Codes :
        Altered([f EXCEPT !.ret = ret], f, f.pc, f.res, f.kids, W)
  BY DEF Frames, Altered
<1>4. \A pc \in Awaits :
        Altered([f EXCEPT !.pc = pc], f, pc, f.res, f.kids, W)
  BY DEF Frames, Altered
<1>5. \A kids \in Seq(Names \cup Modes) :
        Altered([f EXCEPT !.kids = kids], f, f.pc, f.res, kids, W)
  BY DEF Frames, Altered
<1>6. \A pc \in Awaits, has \in BOOLEAN :
        Altered([f EXCEPT !.pc = pc, !.has = has], f, pc, f.res, f.kids, W)
  BY DEF Frames, Altered
<1>7. \A pc \in Awaits, res \in Answer(W) :
        Altered([f EXCEPT !.pc = pc, !.res = res], f, pc, res, f.kids, W)
  BY DEF Frames, Altered
<1>8. \A pc \in Awaits, res \in Answer(W), kids \in Seq(Names \cup Modes) :
        Altered([f EXCEPT !.pc = pc, !.res = res, !.kids = kids], f, pc, res, kids, W)
  BY ZenonT(60) DEF Frames, Altered
<1>9. \A pc \in Awaits, res \in Answer(W), kids \in Seq(Names \cup Modes) :
        Altered([f EXCEPT !.pc = pc, !.kids = kids, !.res = res], f, pc, res, kids, W)
  BY ZenonT(60) DEF Frames, Altered
<1>10. \A pc \in Awaits, has \in BOOLEAN, kids \in Seq(Names \cup Modes) :
        Altered([f EXCEPT !.pc = pc, !.kids = kids, !.has = has], f, pc, f.res, kids, W)
  BY ZenonT(60) DEF Frames, Altered
<1> QED
  BY <1>1, <1>2, <1>3, <1>4, <1>5, <1>6, <1>7, <1>8, <1>9, <1>10

LEMMA FrameTyped ==
  ASSUME NEW W, NEW r \in Reqs, NEW pc \in Awaits
  PROVE  /\ Frame("overlay", r, pc) \in Frames(W)
         /\ Frame("overlay", r, pc).op = r.op /\ Frame("overlay", r, pc).p = r.p
         /\ Frame("overlay", r, pc).q = r.q /\ Frame("overlay", r, pc).kids = <<>>
         /\ Frame("overlay", r, pc).pc = pc
<1>1. None \in Answer(W)
  BY ErrTyped DEF None, Codes
<1>2. <<>> \in Seq(Names \cup Modes) /\ "ok" \in Codes
  BY DEF Codes
<1> QED
  BY <1>1, <1>2 DEF Frame, Frames, Reqs

LEMMA EnterFits ==
  ASSUME Layers, NEW r, NEW req, Suits(r, req)
  PROVE  StackFits(Enter(r), req, Contents)
<1> DEFINE W == Contents
<1>1. r \in Reqs /\ r.p \in Seq(Names) /\ r.q \in Seq(Names) /\ Belongs(r, req)
  BY DEF Suits, Reqs
<1>2. /\ Visible(r.p) \in BOOLEAN
      /\ Read(r.p) \in Answer(W) /\ Read(r.p).t \in {"file", "err"}
  BY QueriesTyped
<1>3. <<>> \in Seq(Names)
  OBVIOUS
<1>4. CASE r.op = "append"
  <2> DEFINE e == Frame("overlay", r, "read")
             f == [e EXCEPT !.res = Read(r.p)]
  <2>1. f \in Frames(W) /\ f.op = r.op /\ f.p = r.p /\ f.q = r.q /\ f.res = Read(r.p)
    <3>1. e \in Frames(W) /\ e.op = r.op /\ e.p = r.p /\ e.q = r.q
      BY <1>1, FrameTyped DEF Awaits
    <3>2. Altered(f, e, e.pc, Read(r.p), e.kids, W)
      <4> HIDE DEF e, W
      <4> QED  BY <1>2, <3>1, Alterations
    <3> HIDE DEF e, f
    <3> QED  BY <3>1, <3>2 DEF Altered
  <2>2. Shaped(f, W) /\ Belongs(f, req)
    <3> HIDE DEF f
    <3> QED  BY <1>1, <1>2, <1>4, <2>1 DEF Shaped, Belongs
  <2>3. Enter(r) = <<f>>
    BY <1>4 DEF Enter
  <2> HIDE DEF f
  <2> QED  BY <2>2, <2>3, StackOne
<1>5. CASE r.op = "write"
  <2> DEFINE f == Frame("overlay", r, "written")
  <2>1. /\ f \in Frames(W) /\ f.op = r.op /\ f.p = r.p /\ f.q = r.q
        /\ f.pc = "written"
    BY <1>1, FrameTyped DEF Awaits
  <2>2. Shaped(f, W) /\ Belongs(f, req)
    <3> HIDE DEF f
    <3> QED  BY <1>1, <1>5, <2>1 DEF Shaped, Belongs
  <2>3. Enter(r) = <<f>>
    BY <1>5 DEF Enter
  <2> HIDE DEF f
  <2> QED  BY <2>2, <2>3, StackOne
<1>6. CASE r.op = "mv"
  <2> DEFINE copy == Req("cp", r.p, r.q, Recursive)
             e == Frame("overlay", copy, "exists")
             f == [e EXCEPT !.has = Visible(r.p)]
             g == Frame("overlay", r, "cp")
  <2>1. copy \in Reqs /\ copy.op = "cp" /\ copy.p = r.p /\ copy.q = r.q
    BY <1>1 DEF Req, Reqs, OpNames, Recursive, Options
  <2>2. /\ f \in Frames(W) /\ f.op = "cp" /\ f.p = r.p /\ f.q = r.q /\ f.kids = <<>>
        /\ f.pc = "exists"
    <3> HIDE DEF copy
    <3>1. /\ e \in Frames(W) /\ e.op = "cp" /\ e.p = r.p /\ e.q = r.q /\ e.kids = <<>>
          /\ e.pc = "exists"
      BY <2>1, FrameTyped DEF Awaits
    <3>2. Altered(f, e, e.pc, e.res, e.kids, W)
      <4> HIDE DEF e, W
      <4> QED  BY <1>2, <3>1, Alterations
    <3> HIDE DEF e, f
    <3> QED  BY <3>1, <3>2 DEF Altered
  <2>3. g \in Frames(W) /\ g.op = "mv" /\ g.p = r.p /\ g.q = r.q /\ g.pc = "cp"
    BY <1>1, <1>6, FrameTyped DEF Awaits
  <2>4. req.op = "mv" /\ r.p = req.p /\ r.q = req.q /\ Under(r.q, r.q)
    BY <1>1, <1>6, UnderSelf DEF Belongs
  <2>5. Shaped(f, W) /\ Belongs(f, req)
    <3> HIDE DEF f
    <3> QED  BY <1>3, <2>2, <2>4 DEF Shaped, Belongs
  <2>6. Shaped(g, W) /\ Belongs(g, req)
    <3> HIDE DEF g
    <3> QED  BY <2>3, <2>4 DEF Shaped, Belongs
  <2>7. Enter(r) = <<f, g>>
    BY <1>6 DEF Enter
  <2> HIDE DEF f, g
  <2> QED  BY <2>5, <2>6, <2>7, StackTwo
<1>7. CASE r.op \notin {"append", "write", "mv"}
  <2> DEFINE e == Frame("overlay", r, "exists")
             f == [e EXCEPT !.has = Visible(r.p)]
  <2>1. /\ f \in Frames(W) /\ f.op = r.op /\ f.p = r.p /\ f.q = r.q
        /\ f.kids = <<>> /\ f.pc = "exists"
    <3>1. e \in Frames(W) /\ e.op = r.op /\ e.p = r.p /\ e.q = r.q
          /\ e.kids = <<>> /\ e.pc = "exists"
      BY ZenonT(60), <1>1, FrameTyped DEF Awaits
    <3>2. Altered(f, e, e.pc, e.res, e.kids, W)
      <4> HIDE DEF e, W
      <4> QED  BY <1>2, <3>1, Alterations
    <3> HIDE DEF e, f
    <3> QED  BY <3>1, <3>2 DEF Altered
  <2>2. Shaped(f, W) /\ Belongs(f, req)
    <3> HIDE DEF f
    <3> QED  BY <1>1, <1>3, <2>1 DEF Suits, Shaped, Belongs
  <2>3. Enter(r) = <<f>>
    BY <1>7 DEF Enter
  <2> HIDE DEF f
  <2> QED  BY <2>2, <2>3, StackOne
<1> QED
  BY <1>4, <1>5, <1>6, <1>7


-----------------------------------------------------------------------------
(* Calls.                                                                  *)

CallsInv == CallsOK /\ CallsFit

LEMMA SameContents ==
  ASSUME UNCHANGED made
  PROVE  Contents' = Contents
BY DEF Contents

LEMMA StackSet ==
  ASSUME CallsInv, NEW c \in Callers, Busy(c), NEW t, StackFits(t, calls[c].req, Contents),
         calls' = [calls EXCEPT ![c].stack = t], UNCHANGED <<made, calm>>
  PROVE  CallsInv'
<1>1. Contents' = Contents
  BY SameContents
<1>2. DOMAIN calls' = Callers /\ \A d \in Callers : d # c => calls'[d] = calls[d]
  BY DEF CallsInv, CallsFit
<1>3. calls'[c] = [calls[c] EXCEPT !.stack = t]
  BY DEF CallsInv, CallsFit
<1>4. IsCall(calls[c])
  BY DEF CallsInv, CallsFit, CallFits
<1>5. /\ IsCall(calls'[c]) /\ calls'[c].stack = t
      /\ calls'[c].req = calls[c].req /\ calls'[c].id = calls[c].id
  <2> DEFINE x == calls[c]
  <2>1. [x EXCEPT !.stack = t] = [stack |-> t, req |-> x.req, id |-> x.id, out |-> x.out,
                                  before |-> x.before]
    <3>1. IsCall(x)
      BY <1>4
    <3> HIDE DEF x
    <3> QED  BY <3>1 DEF IsCall
  <2> QED  BY <1>3, <2>1 DEF IsCall
<1>6. CallsFit'
  <2>1. \A d \in Callers : CallFits(calls'[d], Contents)
    <3> TAKE d \in Callers
    <3>1. CASE d = c
      BY <1>5, <3>1 DEF CallFits
    <3>2. CASE d # c
      BY <1>2, <3>2 DEF CallsInv, CallsFit
    <3> QED  BY <3>1, <3>2
  <2> QED  BY <1>1, <1>2, <2>1 DEF CallsFit
<1>7. CallsOK'
  BY <1>2, <1>5 DEF CallsInv, CallsOK, Busy
<1> QED
  BY <1>6, <1>7 DEF CallsInv

LEMMA BusyTop ==
  ASSUME CallsInv, NEW c \in Callers, Busy(c)
  PROVE  /\ Top(c) \in Frames(Contents) /\ Shaped(Top(c), Contents)
         /\ Belongs(Top(c), calls[c].req)
         /\ StackFits(Tail(calls[c].stack), calls[c].req, Contents)
         /\ calls[c].req \in Requests /\ calls[c].id \in Contents
<1>1. StackFits(calls[c].stack, calls[c].req, Contents) /\ calls[c].stack # <<>>
  BY DEF CallsInv, CallsFit, CallFits, Busy
<1>2. calls[c].req \in Requests /\ calls[c].id \in Contents
  BY DEF CallsInv, CallsOK, Contents
<1> QED
  BY <1>1, <1>2, StackTop DEF Top

LEMMA AwaitFits ==
  ASSUME CallsInv, NEW c \in Callers, Busy(c), NEW g, Alike(g, Top(c), Contents),
         Await(c, g), UNCHANGED <<made, calm>>
  PROVE  CallsInv'
<1> DEFINE rest == Tail(calls[c].stack)
<1>1. /\ Shaped(Top(c), Contents) /\ Belongs(Top(c), calls[c].req)
      /\ StackFits(rest, calls[c].req, Contents)
  BY BusyTop
<1>2. Shaped(g, Contents) /\ Belongs(g, calls[c].req)
  BY <1>1, AlikeFits
<1>3. StackFits(<<g>> \o rest, calls[c].req, Contents)
  <2> HIDE DEF rest
  <2> QED  BY <1>1, <1>2, StackOne, StackJoin
<1>4. calls' = [calls EXCEPT ![c].stack = <<g>> \o rest]
  BY DEF Await
<1> HIDE DEF rest
<1> QED
  BY <1>3, <1>4, StackSet

LEMMA InvokeFits ==
  ASSUME CallsInv, NEW c \in Callers, Busy(c), NEW g, Alike(g, Top(c), Contents),
         NEW frames, StackFits(frames, calls[c].req, Contents),
         Invoke(c, g, frames), UNCHANGED <<made, calm>>
  PROVE  CallsInv'
<1> DEFINE rest == Tail(calls[c].stack)
<1>1. /\ Shaped(Top(c), Contents) /\ Belongs(Top(c), calls[c].req)
      /\ StackFits(rest, calls[c].req, Contents)
  BY BusyTop
<1>2. Shaped(g, Contents) /\ Belongs(g, calls[c].req)
  BY <1>1, AlikeFits
<1>3. StackFits(frames \o <<g>> \o rest, calls[c].req, Contents)
  <2> HIDE DEF rest
  <2>1. StackFits(frames \o <<g>>, calls[c].req, Contents)
    BY <1>2, StackOne, StackJoin
  <2> QED  BY <1>1, <2>1, StackJoin
<1>4. calls' = [calls EXCEPT ![c].stack = frames \o <<g>> \o rest]
  BY DEF Invoke
<1> HIDE DEF rest
<1> QED
  BY <1>3, <1>4, StackSet

LEMMA ReturnFits ==
  ASSUME CallsInv, NEW c \in Callers, Busy(c), NEW out \in Codes,
         Return(c, out), UNCHANGED <<made, calm>>
  PROVE  CallsInv'
<1> DEFINE rest == Tail(calls[c].stack)
<1>1. StackFits(rest, calls[c].req, Contents)
  BY BusyTop
<1>2. CASE rest = <<>>
  <2>1. calls' = [calls EXCEPT ![c] = Idle(out)]
    BY <1>2 DEF Return
  <2>2. /\ DOMAIN calls' = Callers /\ \A d \in Callers : d # c => calls'[d] = calls[d]
        /\ calls'[c] = Idle(out)
    BY <2>1 DEF CallsInv, CallsFit
  <2>3. Contents' = Contents
    BY SameContents
  <2>4. CallFits(Idle(out), Contents) /\ Idle(out).stack = <<>>
    BY StackEmpty DEF CallFits, IsCall, Idle
  <2>5. CallsFit'
    <3>1. \A d \in Callers : CallFits(calls'[d], Contents)
      BY <2>2, <2>4 DEF CallsInv, CallsFit
    <3> QED  BY <2>2, <2>3, <3>1 DEF CallsFit
  <2>6. CallsOK'
    BY <2>2, <2>4 DEF CallsInv, CallsOK, Busy
  <2> QED  BY <2>5, <2>6 DEF CallsInv
<1>3. CASE rest # <<>>
  <2> DEFINE f == Head(rest)
             g == [f EXCEPT !.ret = out]
  <2>1. /\ f \in Frames(Contents) /\ Shaped(f, Contents) /\ Belongs(f, calls[c].req)
        /\ StackFits(Tail(rest), calls[c].req, Contents)
    <3> HIDE DEF rest
    <3> QED  BY <1>1, <1>3, StackTop
  <2>2. Altered(g, f, f.pc, f.res, f.kids, Contents)
    <3> HIDE DEF f
    <3> QED  BY <2>1, Alterations
  <2>3. Shaped(g, Contents) /\ Belongs(g, calls[c].req)
    <3> HIDE DEF f, g
    <3> QED  BY <2>1, <2>2 DEF Altered, Shaped, Belongs
  <2>4. StackFits(<<g>> \o Tail(rest), calls[c].req, Contents)
    <3> HIDE DEF f, g, rest
    <3> QED  BY <2>1, <2>3, StackOne, StackJoin
  <2>5. calls' = [calls EXCEPT ![c].stack = <<g>> \o Tail(rest)]
    BY <1>3 DEF Return
  <2> HIDE DEF f, g, rest
  <2> QED  BY <2>4, <2>5, StackSet
<1> QED
  BY <1>2, <1>3


-----------------------------------------------------------------------------
(* The layers.                                                             *)

LEMMA EntryLater ==
  ASSUME NEW W, NEW V, W \subseteq V
  PROVE  Entry(W, LinkTargets) \subseteq Entry(V, LinkTargets)
<1>1. Seq(W) \subseteq Seq(V)
  BY SeqMonotonic
<1> QED
  BY <1>1 DEF Entry

LEMMA ContentsGrow ==
  ASSUME CallsOK, made' \in {made, made + 1}
  PROVE  Contents \subseteq Contents' /\ made' \in Contents' \cup {0}
<1>1. made \in Nat /\ made' \in Nat /\ made <= made'
  BY CallsAssumption DEF CallsOK
<1>2. 1 .. made \subseteq 1 .. made' /\ made' \in 1 .. made' \cup {0}
  BY <1>1
<1> QED
  BY <1>2 DEF Contents

(* Only paths that S holds look different.                                 *)
Only(S) == \A x : x \notin S => Lstat(x)' = Lstat(x)

\* Where both layers stay, what is seen stays.
LEMMA SeenSame ==
  ASSUME NEW x,
         x \in DOMAIN memory' <=> x \in DOMAIN memory,
         x \in DOMAIN memory => memory'[x] = memory[x],
         x \in deleted' <=> x \in deleted
  PROVE  Lstat(x)' = Lstat(x)
BY DEF Lstat, Visible, EntryAt

LEMMA LayersSet ==
  ASSUME Layers, Contents \subseteq Contents',
         DOMAIN memory \subseteq DOMAIN memory',
         \A x \in DOMAIN memory' :
           memory'[x] \in Entry(Contents', LinkTargets) \/ (x \in DOMAIN memory /\ memory'[x] = memory[x]),
         deleted' \subseteq deleted
  PROVE  Layers'
<1>1. Entry(Contents, LinkTargets) \subseteq Entry(Contents', LinkTargets)
  BY EntryLater
<1>2. \A x \in DOMAIN memory : memory[x] \in Entry(Contents, LinkTargets)
  BY DEF Layers, Range
<1>3. \A x \in DOMAIN memory' : memory'[x] \in Entry(Contents', LinkTargets)
  BY <1>1, <1>2
<1>4. Range(memory') \subseteq Entry(Contents', LinkTargets)
  BY <1>3 DEF Range
<1> QED
  BY <1>4 DEF Layers

LEMMA PutFits ==
  ASSUME Layers, Contents \subseteq Contents', NEW p,
         NEW n \in Entry(Contents', LinkTargets), Put(p, n)
  PROVE  Layers' /\ Only({p} \cup Ancestors(p))
<1> DEFINE w == WithParents(p)
<1>1. /\ DOMAIN w = DOMAIN memory \cup ParentChain(p)
      /\ \A x \in DOMAIN w : w[x] = IF x \in DOMAIN memory THEN memory[x] ELSE Dir("default")
  BY DEF WithParents, WithNew
<1> HIDE DEF w
<1>2. /\ DOMAIN memory' = DOMAIN w \cup {p}
      /\ \A x \in DOMAIN memory' : memory'[x] = IF x = p THEN n ELSE w[x]
      /\ deleted' = deleted \ (ParentChain(p) \cup {p})
  BY DEF Put, Set, w
<1>3. Dir("default") \in Entry(Contents', LinkTargets)
  BY EntriesTyped DEF Modes
<1>4. Layers'
  <2>1. \A x \in DOMAIN memory' :
           memory'[x] \in Entry(Contents', LinkTargets) \/ (x \in DOMAIN memory /\ memory'[x] = memory[x])
    BY <1>1, <1>2, <1>3
  <2> QED  BY <1>1, <1>2, <2>1, LayersSet
<1>5. ParentChain(p) \subseteq Ancestors(p)
  BY DEF ParentChain
<1>6. ASSUME NEW x, x \notin {p} \cup Ancestors(p)
      PROVE  Lstat(x)' = Lstat(x)
  <2>1. x \notin ParentChain(p) /\ x # p
    BY <1>5, <1>6
  <2> QED  BY <1>1, <1>2, <2>1, SeenSame
<1> QED
  BY <1>4, <1>6 DEF Only

LEMMA MakeDirFits ==
  ASSUME Layers, Contents \subseteq Contents', NEW p, MakeDir(p)
  PROVE  Layers' /\ Only({p})
<1>1. /\ DOMAIN memory' = DOMAIN memory \cup {p}
      /\ \A x \in DOMAIN memory' : memory'[x] = IF x = p THEN Dir("default") ELSE memory[x]
      /\ deleted' = deleted \ {p}
  BY DEF MakeDir, Set
<1>2. Dir("default") \in Entry(Contents', LinkTargets)
  BY EntriesTyped DEF Modes
<1>3. Layers'
  <2>1. \A x \in DOMAIN memory' :
           memory'[x] \in Entry(Contents', LinkTargets) \/ (x \in DOMAIN memory /\ memory'[x] = memory[x])
    BY <1>1, <1>2
  <2> QED  BY <1>1, <2>1, LayersSet
<1> QED
  BY <1>1, <1>3, SeenSame DEF Only

LEMMA CopyUpFits ==
  ASSUME Layers, Contents \subseteq Contents', NEW p,
         NEW n \in Entry(Contents', LinkTargets), CopyUp(p, n)
  PROVE  Layers' /\ Only({p})
<1>1. /\ DOMAIN memory' = DOMAIN memory \cup {p}
      /\ \A x \in DOMAIN memory' : memory'[x] = IF x = p THEN n ELSE memory[x]
      /\ deleted' = deleted
  BY DEF CopyUp, Set
<1>2. Layers'
  <2>1. \A x \in DOMAIN memory' :
           memory'[x] \in Entry(Contents', LinkTargets) \/ (x \in DOMAIN memory /\ memory'[x] = memory[x])
    BY <1>1
  <2> QED  BY <1>1, <2>1, LayersSet
<1> QED
  BY <1>1, <1>2, SeenSame DEF Only

LEMMA MarkDeletedFits ==
  ASSUME Layers, Contents \subseteq Contents', NEW p \in Seq(Names), p # Root, MarkDeleted(p)
  PROVE  Layers' /\ Only({p})
<1>1. /\ DOMAIN memory' = DOMAIN memory \ {p}
      /\ \A x \in DOMAIN memory' : memory'[x] = memory[x]
      /\ deleted' = deleted \cup {p}
  BY DEF MarkDeleted, Without
<1>2. Layers'
  <2>1. Entry(Contents, LinkTargets) \subseteq Entry(Contents', LinkTargets)
    BY EntryLater
  <2>2. \A x \in DOMAIN memory' : memory'[x] \in Entry(Contents', LinkTargets)
    BY <1>1, <2>1 DEF Layers, Range
  <2>3. Range(memory') \subseteq Entry(Contents', LinkTargets)
    BY <2>2 DEF Range
  <2> QED  BY <1>1, <2>3 DEF Layers
<1> QED
  BY <1>1, <1>2, SeenSame DEF Only

LEMMA LayersSame ==
  ASSUME Layers, Contents \subseteq Contents', UNCHANGED <<memory, deleted>>
  PROVE  Layers' /\ \A S : Only(S)
<1>1. Layers'
  BY LayersSet DEF Layers
<1> QED
  BY <1>1, SeenSame DEF Only


-----------------------------------------------------------------------------
(* The steps of a call.                                                    *)

(* The inductive invariant: TypeOK and CallsFit.                           *)
IInv == Layers /\ CallsInv

\* What c's step changes is what its call may change.
Stays(c) == \A x : Lstat(x)' # Lstat(x) => Footprint(calls[c].req, x)

LEMMA FootprintOf ==
  ASSUME NEW W, NEW f \in Frames(W), NEW r \in Reqs, Belongs(f, r)
  PROVE  /\ f.op \in {"write", "append", "symlink"} =>
              \A x \in {f.p} \cup Ancestors(f.p) : Footprint(r, x)
         /\ f.op \in {"mkdir", "rm", "chmod", "utimes"} => Footprint(r, f.p)
         /\ f.op \in {"cp", "link"} =>
              \A x \in {f.q} \cup Ancestors(f.q) : Footprint(r, x)
<1>1. f.p \in Seq(Names) /\ f.q \in Seq(Names) /\ r.p \in Seq(Names) /\ r.q \in Seq(Names)
  BY DEF Frames, Reqs
<1>2. CASE f.op \in {"write", "append", "symlink", "rm", "chmod", "utimes", "link"}
  BY <1>2 DEF Belongs, Footprint
<1>3. CASE f.op = "mkdir"
  BY <1>3 DEF Belongs, Footprint
<1>4. CASE f.op = "cp"
  <2>1. r.op \in {"cp", "mv"} /\ Under(f.q, r.q)
    BY <1>4 DEF Belongs
  <2>2. ASSUME NEW x \in {f.q} \cup Ancestors(f.q) PROVE Footprint(r, x)
    <3>1. Under(x, r.q) \/ x \in Ancestors(r.q)
      BY <1>1, <2>1, AncestorsUnder
    <3> QED  BY <2>1, <3>1 DEF Footprint
  <2> QED  BY <1>4, <2>2
<1>5. CASE f.op \notin {"write", "append", "symlink", "rm", "chmod", "utimes", "link", "mkdir", "cp"}
  BY <1>5
<1> QED
  BY <1>2, <1>3, <1>4, <1>5

LEMMA TopFacts ==
  ASSUME IInv, NEW c \in Callers, Busy(c)
  PROVE  /\ Top(c) \in Frames(Contents) /\ Shaped(Top(c), Contents)
         /\ Belongs(Top(c), calls[c].req)
         /\ calls[c].req \in Reqs /\ calls[c].req.p # Root
         /\ calls[c].id \in Contents
BY BusyTop, RequestSuits DEF IInv, Suits

LEMMA Quietly ==
  ASSUME IInv, NEW c \in Callers, UNCHANGED <<memory, deleted, made, calm>>, CallsInv'
  PROVE  IInv' /\ Stays(c)
<1>1. Contents \subseteq Contents'
  BY SameContents
<1>2. Layers' /\ \A S : Only(S)
  BY <1>1, LayersSame DEF IInv
<1>3. \A x : Lstat(x)' = Lstat(x)
  <2>1. Only({})
    BY <1>2
  <2> QED  BY <2>1 DEF Only
<1> QED
  BY <1>2, <1>3 DEF IInv, Stays

LEMMA ThrowStep ==
  ASSUME IInv, NEW c \in Callers, Busy(c), NEW out \in Codes, Throw(c, out),
         UNCHANGED <<made, calm>>
  PROVE  IInv' /\ Stays(c)
BY Quietly, ReturnFits DEF IInv, Throw

LEMMA AwaitStep ==
  ASSUME IInv, NEW c \in Callers, Busy(c), NEW g, Alike(g, Top(c), Contents), Await(c, g),
         UNCHANGED <<memory, deleted, made, calm>>
  PROVE  IInv' /\ Stays(c)
BY Quietly, AwaitFits DEF IInv

LEMMA InvokeStep ==
  ASSUME IInv, NEW c \in Callers, Busy(c), NEW g, Alike(g, Top(c), Contents),
         NEW r, Suits(r, calls[c].req), Invoke(c, g, Enter(r)),
         UNCHANGED <<memory, deleted, made, calm>>
  PROVE  IInv' /\ Stays(c)
<1>1. StackFits(Enter(r), calls[c].req, Contents)
  BY EnterFits DEF IInv
<1> QED
  BY <1>1, Quietly, InvokeFits DEF IInv

LEMMA ChangeStep ==
  ASSUME IInv, NEW c \in Callers, Busy(c), NEW S, Layers', Only(S),
         \A x \in S : Footprint(calls[c].req, x),
         Return(c, "ok"), UNCHANGED <<made, calm>>
  PROVE  IInv' /\ Stays(c)
<1>1. CallsInv'
  BY ReturnFits DEF IInv, Codes
<1> QED
  BY <1>1 DEF IInv, Stays, Only

LEMMA WriteSteps ==
  ASSUME IInv, NEW c \in Callers, Written(c) \/ AppendRead(c), UNCHANGED <<made, calm>>
  PROVE  IInv' /\ Stays(c)
<1>1. CASE Written(c)
  BY <1>1, ThrowStep DEF Written, Runs, At, Codes
<1>2. CASE AppendRead(c)
  <2> DEFINE f == Top(c)
             old == IF f.res.t = "file" THEN f.res.c ELSE <<>>
             n == File(Append(old, calls[c].id), "default")
  <2>1. Busy(c) /\ f.op = "append" /\ Put(f.p, n) /\ Return(c, "ok")
    BY <1>2 DEF AppendRead, Runs, At
  <2>2. /\ f \in Frames(Contents) /\ Belongs(f, calls[c].req)
        /\ calls[c].req \in Reqs /\ calls[c].id \in Contents
    BY <2>1, TopFacts
  <2>3. old \in Seq(Contents)
    <3>1. f.res \in Answer(Contents) /\ <<>> \in Seq(Contents)
      BY <2>2 DEF Frames
    <3> QED  BY <3>1, AnswerIs
  <2>4. n \in Entry(Contents, LinkTargets)
    <3> HIDE DEF old
    <3>1. Append(old, calls[c].id) \in Seq(Contents)
      BY <2>2, <2>3, AppendProperties
    <3> QED  BY <3>1, EntriesTyped DEF Modes
  <2>5. Contents' = Contents
    BY SameContents
  <2> HIDE DEF f, n
  <2>6. Layers' /\ Only({f.p} \cup Ancestors(f.p))
    BY <2>1, <2>4, <2>5, PutFits DEF IInv
  <2>7. \A x \in {f.p} \cup Ancestors(f.p) : Footprint(calls[c].req, x)
    BY <2>1, <2>2, FootprintOf
  <2> QED  BY <2>1, <2>6, <2>7, ChangeStep
<1> QED
  BY <1>1, <1>2

LEMMA MakesDir ==
  ASSUME IInv, NEW c \in Callers, Busy(c), Top(c).op = "mkdir",
         MakeDir(Top(c).p), Return(c, "ok"), UNCHANGED <<made, calm>>
  PROVE  IInv' /\ Stays(c)
<1>1. /\ Top(c) \in Frames(Contents) /\ Belongs(Top(c), calls[c].req)
      /\ calls[c].req \in Reqs
  BY TopFacts
<1>2. Contents \subseteq Contents'
  BY SameContents
<1>3. Layers' /\ Only({Top(c).p})
  BY <1>2, MakeDirFits DEF IInv
<1>4. Footprint(calls[c].req, Top(c).p)
  BY <1>1, FootprintOf
<1> QED
  BY <1>3, <1>4, ChangeStep

LEMMA MkdirSteps ==
  ASSUME IInv, NEW c \in Callers, MkdirExists(c) \/ MkdirParent(c) \/ MkdirMade(c),
         UNCHANGED <<made, calm>>
  PROVE  IInv' /\ Stays(c)
<1> DEFINE f == Top(c)
<1>1. Busy(c) /\ f.op = "mkdir"
  BY DEF MkdirExists, MkdirParent, MkdirMade, Runs, At
<1>2. /\ f \in Frames(Contents) /\ Shaped(f, Contents) /\ Belongs(f, calls[c].req)
      /\ calls[c].req \in Reqs
  BY <1>1, TopFacts
<1>3. f.p \in Seq(Names) /\ f.o \in Options /\ f.kids \in Seq(Names \cup Modes)
  BY <1>2 DEF Frames
<1>4. CASE MkdirExists(c)
  <2>1. CASE f.has /\ Throw(c, IF f.o.rec THEN "ok" ELSE "EEXIST")
    <3>1. (IF f.o.rec THEN "ok" ELSE "EEXIST") \in Codes
      BY DEF Codes
    <3> QED  BY <1>1, <2>1, <3>1, ThrowStep
  <2>2. CASE MakeDir(f.p) /\ Return(c, "ok")
    BY <1>1, <2>2, MakesDir
  <2>3. CASE /\ Parent(f.p) # Root
             /\ Await(c, [f EXCEPT !.pc = "parent", !.has = Visible(Parent(f.p))])
             /\ UNCHANGED <<memory, deleted>>
    <3> DEFINE g == [f EXCEPT !.pc = "parent", !.has = Visible(Parent(f.p))]
    <3>1. Visible(Parent(f.p)) \in BOOLEAN
      BY QueriesTyped DEF IInv
    <3>2. Altered(g, f, "parent", f.res, f.kids, Contents)
      <4> HIDE DEF f
      <4> QED  BY <1>2, <3>1, Alterations DEF Awaits
    <3>3. Alike(g, f, Contents)
      <4> HIDE DEF f, g
      <4> QED  BY <1>1, <2>3, <3>2 DEF Altered, Alike
    <3> HIDE DEF g
    <3> QED  BY <1>1, <2>3, <3>3, AwaitStep DEF g
  <2> QED  BY <1>4, <2>1, <2>2, <2>3 DEF MkdirExists
<1>5. CASE MkdirParent(c)
  <2>1. CASE MakeDir(f.p) /\ Return(c, "ok")
    BY <1>1, <2>1, MakesDir
  <2>2. CASE Throw(c, "ENOENT")
    BY <1>1, <2>2, ThrowStep DEF Codes
  <2>3. CASE /\ Parent(f.p) # Root
             /\ Invoke(c, [f EXCEPT !.pc = "made"], Enter(Req("mkdir", Parent(f.p), Root, f.o)))
             /\ UNCHANGED <<memory, deleted>>
    <3> DEFINE g == [f EXCEPT !.pc = "made"]
               r == Req("mkdir", Parent(f.p), Root, f.o)
               req == calls[c].req
    <3>1. Alike(g, f, Contents)
      <4>1. Altered(g, f, "made", f.res, f.kids, Contents)
        <5> HIDE DEF f
        <5> QED  BY <1>2, Alterations DEF Awaits
      <4> HIDE DEF f, g
      <4> QED  BY <1>1, <4>1 DEF Altered, Alike
    <3>2. Parent(f.p) \in Seq(Names) /\ Parent(f.p) \in Ancestors(f.p)
      BY <1>3, <2>3, ParentAbove
    <3>3. r \in Reqs /\ r.op = "mkdir" /\ r.p = Parent(f.p)
      <4>1. <<>> \in Seq(Names)
        OBVIOUS
      <4> QED  BY <1>3, <3>2, <4>1 DEF Req, Reqs, Root, OpNames
    <3>4. req.p \in Seq(Names) /\ req.q \in Seq(Names)
      BY <1>2 DEF Reqs
    <3>5. \/ req.op = "mkdir" /\ Parent(f.p) \in Ancestors(req.p)
          \/ req.op \in {"cp", "mv"} /\ (Under(Parent(f.p), req.q) \/ Parent(f.p) \in Ancestors(req.q))
      <4>1. \/ req.op = "mkdir" /\ f.p \in {req.p} \cup Ancestors(req.p)
            \/ req.op \in {"cp", "mv"} /\ (Under(f.p, req.q) \/ f.p \in Ancestors(req.q))
        BY <1>1, <1>2 DEF Belongs
      <4> HIDE DEF f, req
      <4> QED  BY <1>3, <3>2, <3>4, <4>1, AncestorsAbove, AncestorsUnder
    <3>6. Suits(r, req)
      <4> HIDE DEF r, req, f
      <4> QED  BY <3>3, <3>5 DEF Suits, Belongs
    <3> HIDE DEF g, r
    <3> QED  BY <1>1, <2>3, <3>1, <3>6, InvokeStep DEF g, r
  <2>4. f.pc = "parent" => Parent(f.p) # Root
    BY <1>1, <1>2 DEF Shaped
  <2> QED  BY <1>5, <2>1, <2>2, <2>3, <2>4 DEF MkdirParent, Runs, At
<1>6. CASE MkdirMade(c)
  BY <1>1, <1>6, MakesDir DEF MkdirMade
<1> QED
  BY <1>4, <1>5, <1>6


\* An invocation goes on with another answer.
LEMMA AskStep ==
  ASSUME IInv, NEW c \in Callers, Busy(c), NEW pc \in Awaits, NEW res,
         res \in Answer(Contents),
         Await(c, [Top(c) EXCEPT !.pc = pc, !.res = res]),
         Top(c).op = "mkdir" => pc # "parent",
         pc = "read" => res.t \in {"file", "err"},
         Top(c).op \in {"chmod", "utimes", "link"} /\ pc \in {"new", "read"} =>
           Top(c).kids # <<>> /\ Top(c).kids \in Seq(Modes),
         UNCHANGED <<memory, deleted, made, calm>>
  PROVE  IInv' /\ Stays(c)
<1> DEFINE f == Top(c)
           g == [f EXCEPT !.pc = pc, !.res = res]
<1>1. f \in Frames(Contents) /\ Shaped(f, Contents)
  BY TopFacts
<1>2. Altered(g, f, pc, res, f.kids, Contents)
  <2> HIDE DEF f
  <2> QED  BY <1>1, Alterations
<1>3. Alike(g, f, Contents)
  <2> HIDE DEF g
  <2> QED  BY <1>1, <1>2 DEF Altered, Alike, Shaped
<1> HIDE DEF g
<1> QED
  BY <1>3, AwaitStep DEF g

\* A listing is awaited: its names are handled next.
LEMMA ListStep ==
  ASSUME IInv, NEW c \in Callers, Busy(c), Top(c).op \in {"rm", "cp"},
         NEW kids \in Seq(Names),
         Await(c, [Top(c) EXCEPT !.pc = "list", !.res = None, !.kids = kids]),
         UNCHANGED <<memory, deleted, made, calm>>
  PROVE  IInv' /\ Stays(c)
<1> DEFINE f == Top(c)
           g == [f EXCEPT !.pc = "list", !.res = None, !.kids = kids]
<1>1. f \in Frames(Contents) /\ f.op \in {"rm", "cp"}
  BY TopFacts
<1>2. kids \in Seq(Names \cup Modes)
  BY SeqMonotonic
<1>3. None \in Answer(Contents)
  BY ErrTyped DEF None, Codes
<1>4. Altered(g, f, "list", None, kids, Contents)
  <2> HIDE DEF f
  <2> QED  BY <1>1, <1>2, <1>3, Alterations DEF Awaits
<1>5. Alike(g, f, Contents)
  <2> HIDE DEF f, g
  <2> QED  BY <1>1, <1>4 DEF Altered, Alike
<1> HIDE DEF g
<1> QED
  BY <1>5, AwaitStep DEF g

\* The next of the names is handled by a call r.
LEMMA NextChildStep ==
  ASSUME IInv, NEW c \in Callers, Busy(c), Top(c).op \in {"rm", "cp"}, Top(c).kids # <<>>,
         NEW r, Suits(r, calls[c].req),
         Invoke(c, [Top(c) EXCEPT !.kids = Tail(@)], Enter(r)),
         UNCHANGED <<memory, deleted, made, calm>>
  PROVE  IInv' /\ Stays(c)
<1> DEFINE f == Top(c)
           kids == Tail(f.kids)
           g == [f EXCEPT !.kids = kids]
<1>1. /\ f \in Frames(Contents) /\ f.op \in {"rm", "cp"} /\ f.kids \in Seq(Names)
      /\ f.pc = "read" => f.res.t \in {"file", "err"}
  BY TopFacts DEF Shaped
<1>2. kids \in Seq(Names)
  BY <1>1, HeadTailProperties
<1>3. kids \in Seq(Names \cup Modes)
  <2> HIDE DEF kids
  <2> QED  BY <1>2, SeqMonotonic
<1>4. Altered(g, f, f.pc, f.res, kids, Contents)
  <2> HIDE DEF f, kids
  <2> QED  BY <1>1, <1>3, Alterations
<1>5. Alike(g, f, Contents)
  <2> HIDE DEF f, g, kids
  <2> QED  BY <1>1, <1>2, <1>4 DEF Altered, Alike
<1>6. Invoke(c, g, Enter(r))
  OBVIOUS
<1> HIDE DEF g
<1> QED
  BY <1>5, <1>6, InvokeStep

LEMMA RmMarkStep ==
  ASSUME IInv, NEW c \in Callers, Busy(c), Top(c).op = "rm", RmMark(c), UNCHANGED <<made, calm>>
  PROVE  IInv' /\ Stays(c)
<1>1. /\ Top(c) \in Frames(Contents) /\ Belongs(Top(c), calls[c].req)
      /\ calls[c].req \in Reqs /\ Top(c).p # Root /\ Top(c).p \in Seq(Names)
  BY TopFacts DEF Shaped, Frames
<1>2. Contents \subseteq Contents'
  BY SameContents
<1>3. Layers' /\ Only({Top(c).p})
  BY <1>1, <1>2, MarkDeletedFits DEF IInv, RmMark
<1>4. Footprint(calls[c].req, Top(c).p)
  BY <1>1, FootprintOf
<1> QED
  BY <1>3, <1>4, ChangeStep DEF RmMark

\* The first name of a listing.
LEMMA FirstChild ==
  ASSUME IInv, NEW c \in Callers, Busy(c), Top(c).op \in {"rm", "cp"}, Top(c).kids # <<>>
  PROVE  Head(Top(c).kids) \in Names
BY TopFacts, HeadTailProperties DEF Shaped

LEMMA RmSteps ==
  ASSUME IInv, NEW c \in Callers, RmExists(c) \/ RmStat(c) \/ RmList(c),
         UNCHANGED <<made, calm>>
  PROVE  IInv' /\ Stays(c)
<1> DEFINE f == Top(c)
<1>1. Busy(c) /\ f.op = "rm"
  BY DEF RmExists, RmStat, RmList, Runs, At
<1>2. /\ f \in Frames(Contents) /\ Shaped(f, Contents) /\ Belongs(f, calls[c].req)
      /\ calls[c].req \in Reqs
  BY <1>1, TopFacts
<1>3. f.p \in Seq(Names) /\ f.o \in Options
  BY <1>2 DEF Frames
<1>4. CASE RmExists(c)
  <2>1. CASE Throw(c, IF f.o.force THEN "ok" ELSE "ENOENT")
    <3>1. (IF f.o.force THEN "ok" ELSE "ENOENT") \in Codes
      BY SMTT(30) DEF Codes
    <3> QED  BY <1>1, <2>1, <3>1, ThrowStep
  <2>2. CASE /\ Await(c, [f EXCEPT !.pc = "stat", !.res = Stat(f.p)])
             /\ UNCHANGED <<memory, deleted>>
    <3>1. Stat(f.p) \in Answer(Contents)
      BY QueriesTyped DEF IInv
    <3> QED  BY <1>1, <2>2, <3>1, AskStep DEF Awaits
  <2> QED  BY <1>4, <2>1, <2>2 DEF RmExists
<1>5. CASE RmStat(c)
  <2>1. CASE RmMark(c)
    BY <1>1, <2>1, RmMarkStep
  <2>2. CASE /\ Await(c, [f EXCEPT !.pc = "list", !.res = None, !.kids = Readdir(f.p).kids])
             /\ UNCHANGED <<memory, deleted>>
    BY <1>1, <2>2, ListTyped, ListStep
  <2> QED  BY <1>5, <2>1, <2>2 DEF RmStat
<1>6. CASE RmList(c)
  <2>1. CASE RmMark(c)
    BY <1>1, <2>1, RmMarkStep
  <2>2. CASE /\ f.kids # <<>>
             /\ Invoke(c, [f EXCEPT !.kids = Tail(@)],
                  Enter(Req("rm", Child(f.p, Head(f.kids)), Root, f.o)))
             /\ UNCHANGED <<memory, deleted>>
    <3> DEFINE q == Child(f.p, Head(f.kids))
               r == Req("rm", q, Root, f.o)
               req == calls[c].req
    <3>1. Head(f.kids) \in Names
      BY <1>1, <2>2, FirstChild
    <3>2. req.op \in {"rm", "mv"} /\ Under(f.p, req.p) /\ req.p \in Seq(Names)
      BY <1>1, <1>2 DEF Belongs, Reqs
    <3>3. q \in Seq(Names) /\ q # Root
      BY <1>3, <3>1, ChildIs
    <3>4. Under(q, req.p)
      BY <1>3, <3>1, <3>2, ChildUnder
    <3>5. r \in Reqs /\ r.op = "rm" /\ r.p = q
      <4> HIDE DEF q, f
      <4>1. <<>> \in Seq(Names)
        OBVIOUS
      <4> QED  BY <1>3, <3>3, <4>1 DEF Req, Reqs, Root, OpNames
    <3>6. Suits(r, req)
      <4> HIDE DEF r, req, f, q
      <4> QED  BY <3>2, <3>3, <3>4, <3>5 DEF Suits, Belongs
    <3> HIDE DEF r
    <3> QED  BY <1>1, <2>2, <3>6, NextChildStep DEF r
  <2> QED  BY <1>6, <2>1, <2>2 DEF RmList
<1> QED
  BY <1>4, <1>5, <1>6


LEMMA CpSteps ==
  ASSUME IInv, NEW c \in Callers,
         CpExists(c) \/ CpStat(c) \/ CpRead(c) \/ CpMkdir(c) \/ CpList(c),
         UNCHANGED <<made, calm>>
  PROVE  IInv' /\ Stays(c)
<1> DEFINE f == Top(c)
           req == calls[c].req
<1>1. Busy(c) /\ f.op = "cp"
  BY DEF CpExists, CpStat, CpRead, CpMkdir, CpList, Runs, At
<1>2. /\ f \in Frames(Contents) /\ Shaped(f, Contents) /\ Belongs(f, req)
      /\ req \in Reqs
  BY <1>1, TopFacts
<1>3. /\ f.p \in Seq(Names) /\ f.q \in Seq(Names) /\ f.o \in Options
      /\ f.res \in Answer(Contents) /\ f.ret \in Codes
  BY <1>2 DEF Frames
<1>4. req.op \in {"cp", "mv"} /\ Under(f.q, req.q) /\ req.q \in Seq(Names)
  BY <1>1, <1>2 DEF Belongs, Reqs
<1>5. <<>> \in Seq(Names)
  OBVIOUS
<1>6. CASE CpExists(c)
  <2>1. CASE Throw(c, "ENOENT")
    BY SMTT(30), <1>1, <2>1, ThrowStep DEF Codes
  <2>2. CASE /\ Await(c, [f EXCEPT !.pc = "stat", !.res = Stat(f.p)])
             /\ UNCHANGED <<memory, deleted>>
    <3>1. Stat(f.p) \in Answer(Contents)
      BY QueriesTyped DEF IInv
    <3> QED  BY <1>1, <2>2, <3>1, AskStep DEF Awaits
  <2> QED  BY <1>6, <2>1, <2>2 DEF CpExists
<1>7. CASE CpStat(c)
  <2>1. CASE f.res.t = "err" /\ Throw(c, f.res.e)
    <3>1. f.res.e \in Codes
      BY SMTT(30), <1>3, <2>1, AnswerIs
    <3> QED  BY <1>1, <2>1, <3>1, ThrowStep
  <2>2. CASE /\ Await(c, [f EXCEPT !.pc = "read", !.res = Read(f.p)])
             /\ UNCHANGED <<memory, deleted>>
    <3>1. Read(f.p) \in Answer(Contents) /\ Read(f.p).t \in {"file", "err"}
      BY QueriesTyped DEF IInv
    <3> QED  BY <1>1, <2>2, <3>1, AskStep DEF Awaits
  <2>3. CASE Throw(c, "EISDIR")
    BY <1>1, <2>3, ThrowStep DEF Codes
  <2>4. CASE /\ Invoke(c, [f EXCEPT !.pc = "mkdir", !.res = None],
                       Enter(Req("mkdir", f.q, Root, f.o)))
             /\ UNCHANGED <<memory, deleted>>
    <3> DEFINE g == [f EXCEPT !.pc = "mkdir", !.res = None]
               r == Req("mkdir", f.q, Root, f.o)
    <3>1. Alike(g, f, Contents)
      <4>1. None \in Answer(Contents)
        BY ErrTyped DEF None, Codes
      <4>2. Altered(g, f, "mkdir", None, f.kids, Contents)
        <5> HIDE DEF f
        <5> QED  BY <1>2, <4>1, Alterations DEF Awaits
      <4> HIDE DEF f, g
      <4> QED  BY <1>1, <1>2, <4>2 DEF Altered, Alike, Shaped
    <3>2. r \in Reqs /\ r.op = "mkdir" /\ r.p = f.q
      BY <1>3, <1>5 DEF Req, Reqs, Root, OpNames
    <3>3. Suits(r, req)
      <4> HIDE DEF r, req, f
      <4> QED  BY <1>4, <3>2 DEF Suits, Belongs
    <3> HIDE DEF g, r
    <3> QED  BY <1>1, <2>4, <3>1, <3>3, InvokeStep DEF g, r
  <2> QED  BY <1>7, <2>1, <2>2, <2>3, <2>4 DEF CpStat
<1>8. CASE CpRead(c)
  <2>1. CASE f.res.t # "file" /\ Throw(c, f.res.e)
    <3>1. f.res.e \in Codes
      <4>1. f.pc = "read"
        BY <1>8 DEF CpRead, Runs, At
      <4>2. f.res.t = "err"
        BY <1>2, <2>1, <4>1 DEF Shaped
      <4> QED  BY <1>3, <4>2, AnswerIs
    <3> QED  BY <1>1, <2>1, <3>1, ThrowStep
  <2>2. CASE f.res.t = "file" /\ Put(f.q, File(f.res.c, "default")) /\ Return(c, "ok")
    <3> DEFINE n == File(f.res.c, "default")
    <3>1. n \in Entry(Contents, LinkTargets) /\ Contents' = Contents
      BY <1>3, <2>2, AnswerIs, EntriesTyped, SameContents DEF Modes
    <3>2. \A x \in {f.q} \cup Ancestors(f.q) : Footprint(req, x)
      BY <1>1, <1>2, FootprintOf
    <3> HIDE DEF n
    <3>3. Layers' /\ Only({f.q} \cup Ancestors(f.q))
      BY <2>2, <3>1, PutFits DEF IInv, n
    <3> QED  BY <1>1, <2>2, <3>2, <3>3, ChangeStep
  <2> QED  BY <1>8, <2>1, <2>2 DEF CpRead
<1>9. CASE CpMkdir(c)
  <2>1. CASE Throw(c, "ENOENT")
    BY <1>1, <2>1, ThrowStep DEF Codes
  <2>2. CASE /\ Await(c, [f EXCEPT !.pc = "list", !.res = None, !.kids = Readdir(f.p).kids])
             /\ UNCHANGED <<memory, deleted>>
    BY <1>1, <2>2, ListTyped, ListStep
  <2> QED  BY <1>9, <2>1, <2>2 DEF CpMkdir
<1>10. CASE CpList(c)
  <2>1. CASE Throw(c, f.ret)
    BY <1>1, <1>3, <2>1, ThrowStep
  <2>2. CASE Throw(c, "ok")
    BY <1>1, <2>2, ThrowStep DEF Codes
  <2>3. CASE /\ f.kids # <<>>
             /\ Invoke(c, [f EXCEPT !.kids = Tail(@)],
                  Enter(Req("cp", Child(f.p, Head(f.kids)), Child(f.q, Head(f.kids)), f.o)))
             /\ UNCHANGED <<memory, deleted>>
    <3> DEFINE p == Child(f.p, Head(f.kids))
               q == Child(f.q, Head(f.kids))
               r == Req("cp", p, q, f.o)
    <3>1. Head(f.kids) \in Names
      BY <1>1, <2>3, FirstChild
    <3>2. p \in Seq(Names) /\ q \in Seq(Names)
      BY <1>3, <3>1, ChildIs
    <3>3. Under(q, req.q)
      BY <1>3, <1>4, <3>1, ChildUnder
    <3>4. r \in Reqs /\ r.op = "cp" /\ r.q = q
      <4> HIDE DEF p, q, f
      <4> QED  BY <1>3, <3>2 DEF Req, Reqs, OpNames
    <3>5. Suits(r, req)
      <4> HIDE DEF r, req, f, p, q
      <4> QED  BY <1>4, <3>3, <3>4 DEF Suits, Belongs
    <3> HIDE DEF r
    <3> QED  BY <1>1, <2>3, <3>5, NextChildStep DEF r
  <2> QED  BY <1>10, <2>1, <2>2, <2>3 DEF CpList
<1> QED
  BY <1>6, <1>7, <1>8, <1>9, <1>10


LEMMA MvSteps ==
  ASSUME IInv, NEW c \in Callers, MvCopied(c) \/ MvRemoved(c), UNCHANGED <<made, calm>>
  PROVE  IInv' /\ Stays(c)
<1> DEFINE f == Top(c)
           req == calls[c].req
<1>1. Busy(c) /\ f.op = "mv"
  BY DEF MvCopied, MvRemoved, Runs, At
<1>2. /\ f \in Frames(Contents) /\ Shaped(f, Contents) /\ Belongs(f, req)
      /\ req \in Reqs /\ req.p # Root
  BY <1>1, TopFacts
<1>3. f.p \in Seq(Names) /\ f.ret \in Codes
  BY <1>2 DEF Frames
<1>4. req.op = "mv" /\ f.p = req.p
  BY <1>1, <1>2 DEF Belongs
<1>5. CASE Throw(c, f.ret)
  BY <1>1, <1>3, <1>5, ThrowStep
<1>6. CASE /\ Invoke(c, [f EXCEPT !.pc = "rm"], Enter(Req("rm", f.p, Root, Recursive)))
           /\ UNCHANGED <<memory, deleted>>
  <2> DEFINE g == [f EXCEPT !.pc = "rm"]
             r == Req("rm", f.p, Root, Recursive)
  <2>1. Alike(g, f, Contents)
    <3>1. Altered(g, f, "rm", f.res, f.kids, Contents)
      <4> HIDE DEF f
      <4> QED  BY <1>2, Alterations DEF Awaits
    <3> HIDE DEF f, g
    <3> QED  BY <1>1, <3>1 DEF Altered, Alike
  <2>2. r \in Reqs /\ r.op = "rm" /\ r.p = f.p
    <3>1. <<>> \in Seq(Names)
      OBVIOUS
    <3> HIDE DEF f
    <3> QED  BY <1>3, <3>1 DEF Req, Reqs, Root, OpNames, Recursive, Options
  <2>3. Under(f.p, f.p)
    BY <1>3, UnderSelf
  <2>4. Suits(r, req)
    <3> HIDE DEF f, r, req
    <3> QED  BY <1>2, <1>4, <2>2, <2>3 DEF Suits, Belongs
  <2> HIDE DEF g, r
  <2> QED  BY <1>1, <1>6, <2>1, <2>4, InvokeStep DEF g, r
<1> QED
  BY <1>5, <1>6 DEF MvCopied, MvRemoved

\* The last step of chmod and utimes on an entry of the host.
LEMMA CopiesUp ==
  ASSUME IInv, NEW c \in Callers, Busy(c), Top(c).op \in {"chmod", "utimes"},
         NEW n \in Entry(Contents, LinkTargets),
         CopyUp(Top(c).p, n), Return(c, "ok"), UNCHANGED <<made, calm>>
  PROVE  IInv' /\ Stays(c)
<1>1. /\ Top(c) \in Frames(Contents) /\ Belongs(Top(c), calls[c].req)
      /\ calls[c].req \in Reqs
  BY TopFacts
<1>2. Contents' = Contents
  BY SameContents
<1>3. Layers' /\ Only({Top(c).p})
  BY <1>2, CopyUpFits DEF IInv
<1>4. Footprint(calls[c].req, Top(c).p)
  BY <1>1, FootprintOf
<1> QED
  BY <1>3, <1>4, ChangeStep

\* A mode that is set leaves an entry an entry.
LEMMA ModeSet ==
  ASSUME NEW W, NEW n \in Entry(W, LinkTargets), NEW m \in Modes
  PROVE  [n EXCEPT !.m = m] \in Entry(W, LinkTargets)
BY DEF Entry

LEMMA TouchedTyped ==
  ASSUME NEW op, NEW m \in Modes
  PROVE  Touched(op, m) \in Modes
BY DEF Touched, Modes

LEMMA SequenceOfOne ==
  ASSUME NEW S, NEW m \in S
  PROVE  <<m>> \in Seq(S) /\ <<m>> # <<>>
OBVIOUS

\* The mode an operation read is kept while it goes on.
LEMMA ModeStep ==
  ASSUME IInv, NEW c \in Callers, Busy(c), Top(c).op \in {"chmod", "utimes", "link"},
         NEW m \in Modes, NEW g,
         \/ \E res \in Answer(Contents) :
              /\ res.t \in {"file", "err"}
              /\ g = [Top(c) EXCEPT !.pc = "read", !.kids = <<m>>, !.res = res]
         \/ \E has \in BOOLEAN : g = [Top(c) EXCEPT !.pc = "new", !.kids = <<m>>, !.has = has],
         Await(c, g), UNCHANGED <<memory, deleted, made, calm>>
  PROVE  IInv' /\ Stays(c)
<1> DEFINE f == Top(c)
           kids == <<m>>
<1>1. f \in Frames(Contents) /\ f.op \in {"chmod", "utimes", "link"}
  BY TopFacts
<1>2. kids \in Seq(Names \cup Modes) /\ kids \in Seq(Modes) /\ kids # <<>>
  <2>1. m \in Names \cup Modes
    OBVIOUS
  <2> HIDE DEF f
  <2> QED  BY <2>1, SequenceOfOne
<1>3. \/ \E res \in Answer(Contents) :
           res.t \in {"file", "err"} /\ Altered(g, f, "read", res, kids, Contents)
      \/ Altered(g, f, "new", f.res, kids, Contents)
  <2> HIDE DEF f, kids
  <2>1. \/ \E res \in Answer(Contents) :
             /\ res.t \in {"file", "err"}
             /\ g = [f EXCEPT !.pc = "read", !.kids = kids, !.res = res]
        \/ \E has \in BOOLEAN : g = [f EXCEPT !.pc = "new", !.kids = kids, !.has = has]
    BY DEF f, kids
  <2>2. CASE \E res \in Answer(Contents) :
               /\ res.t \in {"file", "err"}
               /\ g = [f EXCEPT !.pc = "read", !.kids = kids, !.res = res]
    <3>1. PICK res \in Answer(Contents) :
            /\ res.t \in {"file", "err"}
            /\ g = [f EXCEPT !.pc = "read", !.kids = kids, !.res = res]
      BY <2>2
    <3>2. Altered([f EXCEPT !.pc = "read", !.kids = kids, !.res = res],
                  f, "read", res, kids, Contents)
      BY <1>1, <1>2, Alterations DEF Awaits
    <3> QED  BY <3>1, <3>2
  <2>3. CASE \E has \in BOOLEAN :
               g = [f EXCEPT !.pc = "new", !.kids = kids, !.has = has]
    <3>1. PICK has \in BOOLEAN : g = [f EXCEPT !.pc = "new", !.kids = kids, !.has = has]
      BY <2>3
    <3>2. Altered([f EXCEPT !.pc = "new", !.kids = kids, !.has = has],
                  f, "new", f.res, kids, Contents)
      BY <1>1, <1>2, Alterations DEF Awaits
    <3> QED  BY <3>1, <3>2
  <2> QED  BY <2>1, <2>2, <2>3
<1>4. Alike(g, f, Contents)
  <2> HIDE DEF f, kids
  <2> QED  BY <1>1, <1>2, <1>3 DEF Altered, Alike
<1> QED
  BY <1>4, AwaitStep


LEMMA AttrSteps ==
  ASSUME IInv, NEW c \in Callers, NEW op \in {"chmod", "utimes"},
         AttrExists(c, op) \/ AttrStat(c, op) \/ AttrRead(c, op), UNCHANGED <<made, calm>>
  PROVE  IInv' /\ Stays(c)
<1> DEFINE f == Top(c)
           req == calls[c].req
<1>1. Busy(c) /\ f.op = op
  BY DEF AttrExists, AttrStat, AttrRead, Runs, At
<1>2. /\ f \in Frames(Contents) /\ Shaped(f, Contents) /\ Belongs(f, req)
      /\ req \in Reqs
  BY <1>1, TopFacts
<1>3. f.p \in Seq(Names) /\ f.res \in Answer(Contents)
  BY <1>2 DEF Frames
<1>4. CASE AttrExists(c, op)
  <2>1. CASE Throw(c, "ENOENT")
    BY SMTT(30), <1>1, <2>1, ThrowStep DEF Codes
  <2>2. CASE /\ Await(c, [f EXCEPT !.pc = "stat", !.res = Stat(f.p)])
             /\ UNCHANGED <<memory, deleted>>
    <3>1. Stat(f.p) \in Answer(Contents)
      BY QueriesTyped DEF IInv
    <3> QED  BY <1>1, <2>2, <3>1, AskStep DEF Awaits
  <2>3. CASE /\ f.p \in DOMAIN memory
             /\ memory' = [memory EXCEPT ![f.p].m = Touched(op, @)]
             /\ UNCHANGED deleted /\ Return(c, "ok")
    <3> DEFINE old == memory[f.p]
               n == [old EXCEPT !.m = Touched(op, old.m)]
    <3>1. old \in Entry(Contents, LinkTargets)
      BY <2>3 DEF IInv, Layers, Range
    <3>2. old.m \in Modes
      <4> HIDE DEF old
      <4> QED  BY <3>1 DEF Entry
    <3>3. n \in Entry(Contents, LinkTargets)
      <4> HIDE DEF old
      <4> QED  BY <3>1, <3>2, ModeSet, TouchedTyped
    <3>4. memory' = [memory EXCEPT ![f.p] = n]
      BY <2>3
    <3>5. CopyUp(f.p, n)
      <4>1. DOMAIN memory \cup {f.p} = DOMAIN memory
        BY <2>3
      <4>2. memory' = [x \in DOMAIN memory |-> IF x = f.p THEN n ELSE memory[x]]
        <5> HIDE DEF n
        <5> QED  BY <3>4
      <4> HIDE DEF n
      <4> QED  BY <2>3, <4>1, <4>2 DEF CopyUp, Set
    <3> HIDE DEF n
    <3> QED  BY <1>1, <2>3, <3>3, <3>5, CopiesUp
  <2> QED  BY <1>4, <2>1, <2>2, <2>3 DEF AttrExists
<1>5. CASE AttrStat(c, op)
  <2>1. CASE f.res.t = "err" /\ Throw(c, f.res.e)
    <3>1. f.res.e \in Codes
      BY <1>3, <2>1, AnswerIs
    <3> QED  BY <1>1, <2>1, <3>1, ThrowStep
  <2>2. CASE /\ f.res.t = "file"
             /\ Await(c, [f EXCEPT !.pc = "read", !.kids = <<f.res.m>>, !.res = Read(f.p)])
             /\ UNCHANGED <<memory, deleted>>
    <3>1. Read(f.p) \in Answer(Contents) /\ Read(f.p).t \in {"file", "err"}
      BY QueriesTyped DEF IInv
    <3>2. f.res.m \in Modes
      BY <1>3, <2>2, AnswerIs
    <3> DEFINE g == [f EXCEPT !.pc = "read", !.kids = <<f.res.m>>, !.res = Read(f.p)]
    <3>3. \E res \in Answer(Contents) :
            /\ res.t \in {"file", "err"}
            /\ g = [f EXCEPT !.pc = "read", !.kids = <<f.res.m>>, !.res = res]
      BY <3>1
    <3>4. Await(c, g)
      BY <2>2
    <3> HIDE DEF g
    <3> QED  BY <1>1, <2>2, <3>2, <3>3, <3>4, ModeStep
  <2>3. CASE /\ f.res.t = "dir"
             /\ CopyUp(f.p, Dir(Touched(op, f.res.m))) /\ Return(c, "ok")
    <3>1. f.res.m \in Modes
      BY <1>3, <2>3, AnswerIs
    <3>2. Dir(Touched(op, f.res.m)) \in Entry(Contents, LinkTargets)
      <4> HIDE DEF f
      <4> QED  BY <3>1, TouchedTyped, EntriesTyped
    <3> QED  BY <1>1, <2>3, <3>2, CopiesUp
  <2> QED  BY <1>5, <2>1, <2>2, <2>3 DEF AttrStat
<1>6. CASE AttrRead(c, op)
  <2>1. /\ f.pc = "read" /\ f.kids # <<>> /\ f.kids \in Seq(Modes)
        /\ f.res.t \in {"file", "err"}
    BY <1>1, <1>2, <1>6 DEF AttrRead, Runs, At, Shaped
  <2>2. CASE f.res.t # "file" /\ Throw(c, f.res.e)
    <3>1. f.res.e \in Codes
      BY <1>3, <2>1, <2>2, AnswerIs
    <3> QED  BY <1>1, <2>2, <3>1, ThrowStep
  <2>3. CASE /\ f.res.t = "file"
             /\ CopyUp(f.p, File(f.res.c, Touched(op, f.kids[1]))) /\ Return(c, "ok")
    <3>1. f.kids[1] \in Modes
      BY <2>1, EmptySeq, LenProperties, ElementOfSeq
    <3>2. Touched(op, f.kids[1]) \in Modes
      BY <3>1, TouchedTyped
    <3>3. f.res.c \in Seq(Contents)
      BY <1>3, <2>3, AnswerIs
    <3>4. File(f.res.c, Touched(op, f.kids[1])) \in Entry(Contents, LinkTargets)
      <4> HIDE DEF f
      <4> QED  BY <3>2, <3>3, EntriesTyped
    <3> QED  BY <1>1, <2>3, <3>4, CopiesUp
  <2> QED  BY <1>6, <2>2, <2>3 DEF AttrRead
<1> QED
  BY <1>4, <1>5, <1>6

\* The last step of symlink and link.
LEMMA PutsAt ==
  ASSUME IInv, NEW c \in Callers, Busy(c), NEW p,
         \/ Top(c).op = "symlink" /\ p = Top(c).p
         \/ Top(c).op = "link" /\ p = Top(c).q,
         NEW n \in Entry(Contents, LinkTargets),
         Put(p, n), Return(c, "ok"), UNCHANGED <<made, calm>>
  PROVE  IInv' /\ Stays(c)
<1>1. /\ Top(c) \in Frames(Contents) /\ Belongs(Top(c), calls[c].req)
      /\ calls[c].req \in Reqs
  BY TopFacts
<1>2. Contents' = Contents
  BY SameContents
<1>3. Layers' /\ Only({p} \cup Ancestors(p))
  BY <1>2, PutFits DEF IInv
<1>4. \A x \in {p} \cup Ancestors(p) : Footprint(calls[c].req, x)
  BY <1>1, FootprintOf
<1> QED
  BY <1>3, <1>4, ChangeStep

LEMMA LinkSteps ==
  ASSUME IInv, NEW c \in Callers,
         SymlinkExists(c) \/ LinkExists(c) \/ LinkStat(c) \/ LinkNew(c) \/ LinkRead(c),
         UNCHANGED <<made, calm>>
  PROVE  IInv' /\ Stays(c)
<1> DEFINE f == Top(c)
           req == calls[c].req
<1>1. Busy(c) /\ f.op \in {"symlink", "link"}
  BY DEF SymlinkExists, LinkExists, LinkStat, LinkNew, LinkRead, Runs, At
<1>2. /\ f \in Frames(Contents) /\ Shaped(f, Contents) /\ Belongs(f, req)
      /\ req \in Reqs
  BY <1>1, TopFacts
<1>3. f.p \in Seq(Names) /\ f.q \in Seq(Names) /\ f.res \in Answer(Contents)
  BY <1>2 DEF Frames
<1>4. CASE SymlinkExists(c)
  <2>1. f.op = "symlink" /\ f.q \in LinkTargets
    BY <1>2, <1>4 DEF SymlinkExists, Runs, At, Shaped
  <2>2. CASE Throw(c, "EEXIST")
    BY <1>1, <2>2, ThrowStep DEF Codes
  <2>3. CASE Put(f.p, Link(f.q)) /\ Return(c, "ok")
    <3>1. Link(f.q) \in Entry(Contents, LinkTargets)
      BY <2>1, EntriesTyped DEF Modes
    <3> QED  BY <1>1, <2>1, <2>3, <3>1, PutsAt
  <2> QED  BY <1>4, <2>2, <2>3 DEF SymlinkExists
<1>5. CASE LinkExists(c)
  <2>1. CASE Throw(c, "ENOENT")
    BY SMTT(30), <1>1, <2>1, ThrowStep DEF Codes
  <2>2. CASE /\ Await(c, [f EXCEPT !.pc = "stat", !.res = Stat(f.p)])
             /\ UNCHANGED <<memory, deleted>>
    <3>1. Stat(f.p) \in Answer(Contents)
      BY QueriesTyped DEF IInv
    <3> QED  BY <1>1, <2>2, <3>1, AskStep DEF Awaits
  <2> QED  BY <1>5, <2>1, <2>2 DEF LinkExists
<1>6. CASE LinkStat(c)
  <2>1. f.op = "link"
    BY <1>6 DEF LinkStat, Runs, At
  <2>2. CASE f.res.t = "err" /\ Throw(c, f.res.e)
    <3>1. f.res.e \in Codes
      BY <1>3, <2>2, AnswerIs
    <3> QED  BY <1>1, <2>2, <3>1, ThrowStep
  <2>3. CASE Throw(c, "EPERM")
    BY <1>1, <2>3, ThrowStep DEF Codes
  <2>4. CASE /\ f.res.t = "file"
             /\ Await(c, [f EXCEPT !.pc = "new", !.kids = <<f.res.m>>, !.has = Visible(f.q)])
             /\ UNCHANGED <<memory, deleted>>
    <3>1. Visible(f.q) \in BOOLEAN
      BY QueriesTyped DEF IInv
    <3>2. f.res.m \in Modes
      BY <1>3, <2>4, AnswerIs
    <3> DEFINE g == [f EXCEPT !.pc = "new", !.kids = <<f.res.m>>, !.has = Visible(f.q)]
    <3>3. \E has \in BOOLEAN : g = [f EXCEPT !.pc = "new", !.kids = <<f.res.m>>, !.has = has]
      BY <3>1
    <3>4. Await(c, g)
      BY <2>4
    <3> HIDE DEF g
    <3> QED  BY <1>1, <2>1, <2>4, <3>2, <3>3, <3>4, ModeStep
  <2> QED  BY <1>6, <2>2, <2>3, <2>4 DEF LinkStat
<1>7. CASE LinkNew(c)
  <2>1. /\ f.op = "link" /\ f.pc = "new" /\ f.kids # <<>> /\ f.kids \in Seq(Modes)
    BY SMTT(30), <1>2, <1>7 DEF LinkNew, Runs, At, Shaped
  <2>2. CASE Throw(c, "EEXIST")
    BY <1>1, <2>2, ThrowStep DEF Codes
  <2>3. CASE /\ Await(c, [f EXCEPT !.pc = "read", !.res = Read(f.p)])
             /\ UNCHANGED <<memory, deleted>>
    <3>1. Read(f.p) \in Answer(Contents) /\ Read(f.p).t \in {"file", "err"}
      BY QueriesTyped DEF IInv
    <3> QED  BY <1>1, <2>1, <2>3, <3>1, AskStep DEF Awaits
  <2> QED  BY <1>7, <2>2, <2>3 DEF LinkNew
<1>8. CASE LinkRead(c)
  <2>1. /\ f.op = "link" /\ f.kids # <<>> /\ f.kids \in Seq(Modes)
        /\ f.res.t \in {"file", "err"}
    BY <1>2, <1>8 DEF LinkRead, Runs, At, Shaped
  <2>2. CASE f.res.t # "file" /\ Throw(c, f.res.e)
    <3>1. f.res.e \in Codes
      BY <1>3, <2>1, <2>2, AnswerIs
    <3> QED  BY <1>1, <2>2, <3>1, ThrowStep
  <2>3. CASE f.res.t = "file" /\ Put(f.q, File(f.res.c, f.kids[1])) /\ Return(c, "ok")
    <3>1. f.kids[1] \in Modes
      BY <2>1, EmptySeq, LenProperties, ElementOfSeq
    <3>2. f.res.c \in Seq(Contents)
      BY <1>3, <2>3, AnswerIs
    <3>3. File(f.res.c, f.kids[1]) \in Entry(Contents, LinkTargets)
      <4> HIDE DEF f
      <4> QED  BY <3>1, <3>2, EntriesTyped
    <3> QED  BY <1>1, <2>1, <2>3, <3>3, PutsAt
  <2> QED  BY <1>8, <2>2, <2>3 DEF LinkRead
<1> QED
  BY <1>4, <1>5, <1>6, <1>7, <1>8


LEMMA StepFits ==
  ASSUME IInv, NEW c \in Callers, Step(c), UNCHANGED <<made, calm>>
  PROVE  IInv' /\ Stays(c)
<1>1. CASE Written(c) \/ AppendRead(c)
  BY <1>1, WriteSteps
<1>2. CASE MkdirExists(c) \/ MkdirParent(c) \/ MkdirMade(c)
  BY <1>2, MkdirSteps
<1>3. CASE RmExists(c) \/ RmStat(c) \/ RmList(c)
  BY <1>3, RmSteps
<1>4. CASE CpExists(c) \/ CpStat(c) \/ CpRead(c) \/ CpMkdir(c) \/ CpList(c)
  BY <1>4, CpSteps
<1>5. CASE MvCopied(c) \/ MvRemoved(c)
  BY <1>5, MvSteps
<1>6. CASE \E op \in {"chmod", "utimes"} :
             AttrExists(c, op) \/ AttrStat(c, op) \/ AttrRead(c, op)
  BY <1>6, AttrSteps
<1>7. CASE \/ SymlinkExists(c)
           \/ LinkExists(c) \/ LinkStat(c) \/ LinkNew(c) \/ LinkRead(c)
  BY <1>7, LinkSteps
<1> QED
  BY <1>1, <1>2, <1>3, <1>4, <1>5, <1>6, <1>7 DEF Step

\* A call that begins: only a write changes something at once.
LEMMA BeginFits ==
  ASSUME IInv, NEW c \in Callers, Begin(c)
  PROVE  /\ IInv'
         /\ \A x : Lstat(x)' # Lstat(x) => Footprint(calls'[c].req, x)
         /\ \A d \in Callers : d # c => calls'[d] = calls[d]
<1>1. PICK r \in Requests :
        /\ Call(c, r, Enter(r), Tree, Sensible(Tree, r))
        /\ IF r.op = "write" THEN Put(r.p, File(<<made'>>, "default"))
           ELSE UNCHANGED <<memory, deleted>>
  BY DEF Begin
<1>2. made \in Nat /\ made < MaxCalls /\ MaxCalls \in Nat /\ made' = made + 1
  BY <1>1, CallsAssumption DEF Begin, MayCall, Call, IInv, CallsInv, CallsOK
<1>3. Contents \subseteq Contents' /\ made' \in Contents'
  BY <1>2, ContentsGrow DEF IInv, CallsInv
<1>4. Suits(r, r) /\ StackFits(Enter(r), r, Contents)
  BY RequestSuits, EnterFits DEF IInv
<1>5. /\ DOMAIN calls' = Callers /\ \A d \in Callers : d # c => calls'[d] = calls[d]
      /\ IsCall(calls'[c]) /\ calls'[c].stack = Enter(r) /\ calls'[c].req = r
      /\ calls'[c].id = made'
  <2> DEFINE x == [stack |-> Enter(r), req |-> r, id |-> made', out |-> "none",
                   before |-> IF calm' THEN Tree ELSE <<>>]
  <2>1. calls' = [calls EXCEPT ![c] = x]
    BY <1>1 DEF Call
  <2>2. IsCall(x) /\ x.stack = Enter(r) /\ x.req = r /\ x.id = made'
    BY DEF IsCall
  <2> HIDE DEF x
  <2> QED  BY <2>1, <2>2 DEF IInv, CallsInv, CallsFit
<1>6. CallsFit'
  <2>1. ASSUME NEW d \in Callers PROVE CallFits(calls'[d], Contents')
    <3>1. CASE d = c
      <4>1. StackFits(Enter(r), r, Contents')
        BY <1>3, <1>4, StackLater
      <4> QED  BY <1>5, <3>1, <4>1 DEF CallFits
    <3>2. CASE d # c
      <4>1. CallFits(calls[d], Contents)
        BY DEF IInv, CallsInv, CallsFit
      <4> QED  BY <1>3, <1>5, <3>2, <4>1, StackLater DEF CallFits
    <3> QED  BY <3>1, <3>2
  <2> QED  BY <1>5, <2>1 DEF CallsFit
<1>7. CallsOK'
  <2>1. made' \in 0 .. MaxCalls /\ calm' \in BOOLEAN /\ made' \in 1 .. made'
    BY <1>1, <1>2 DEF Call
  <2>2. ASSUME NEW d \in Callers, calls'[d].stack # <<>>
        PROVE  calls'[d].req \in Requests /\ calls'[d].id \in 1 .. made'
    <3>1. CASE d = c
      BY <1>5, <2>1, <3>1
    <3>2. CASE d # c
      <4>1. calls[d].req \in Requests /\ calls[d].id \in 1 .. made
        BY <1>5, <2>2, <3>2 DEF IInv, CallsInv, CallsOK, Busy
      <4> QED  BY <1>2, <1>5, <3>2, <4>1
    <3> QED  BY <3>1, <3>2
  <2> QED  BY <2>1, <2>2 DEF CallsOK, Busy
<1>8. Layers' /\ \A x : Lstat(x)' # Lstat(x) => Footprint(r, x)
  <2>1. CASE r.op = "write"
    <3> DEFINE n == File(<<made'>>, "default")
    <3>1. <<made'>> \in Seq(Contents')
      BY <1>3, SequenceOfOne
    <3>2. n \in Entry(Contents', LinkTargets)
      BY <3>1, EntriesTyped DEF Modes
    <3>3. Put(r.p, n)
      BY <1>1, <2>1
    <3> HIDE DEF n
    <3>4. Layers' /\ Only({r.p} \cup Ancestors(r.p))
      BY <1>3, <3>2, <3>3, PutFits DEF IInv
    <3>5. \A x \in {r.p} \cup Ancestors(r.p) : Footprint(r, x)
      BY <2>1 DEF Footprint
    <3> QED  BY <3>4, <3>5 DEF Only
  <2>2. CASE r.op # "write"
    <3>1. Layers' /\ \A S : Only(S)
      BY <1>1, <1>3, <2>2, LayersSame DEF IInv
    <3>2. Only({})
      BY <3>1
    <3> QED  BY <3>1, <3>2 DEF Only
  <2> QED  BY <2>1, <2>2
<1> QED
  BY <1>5, <1>6, <1>7, <1>8 DEF IInv, CallsInv

LEMMA StutterFits ==
  ASSUME IInv, UNCHANGED vars
  PROVE  IInv' /\ \A x : Lstat(x)' = Lstat(x)
<1>1. IInv'
  BY DEF IInv, vars, Layers, CallsInv, CallsOK, CallsFit, Busy, Contents
<1> QED
  BY <1>1, SeenSame DEF vars

LEMMA Begins == Init => IInv
<1> SUFFICES ASSUME Init PROVE IInv
  OBVIOUS
<1>1. Dir("default") \in Entry(Contents, LinkTargets)
  BY EntriesTyped DEF Modes
<1>2. Layers
  BY <1>1 DEF Init, Layers, Range
<1>3. CallsOK
  BY CallsAssumption DEF Init, InitCalls, CallsOK, Busy, Idle
<1>4. CallFits(Idle("none"), Contents)
  BY StackEmpty DEF CallFits, IsCall, Idle
<1>5. CallsFit
  BY <1>4 DEF Init, InitCalls, CallsFit
<1> QED
  BY <1>2, <1>3, <1>5 DEF IInv, CallsInv

(* The calls of the others stay.                                           *)
Alone(c) == \A d \in Callers : d # c => calls'[d] = calls[d]

LEMMA Inductive == IInv /\ [Next]_vars => IInv'
BY StepFits, BeginFits, StutterFits DEF Next, Finished

LEMMA Always == Spec => []IInv
BY Begins, Inductive, PTL DEF Spec

LEMMA InvTypes == IInv => TypeOK
BY DEF IInv, Layers, CallsInv, TypeOK

(* The type invariant of the overlay, for every host tree, every set of    *)
(* callers and paths, and however many calls are made.                     *)
THEOREM TypeCorrect == Spec => []TypeOK
BY Always, InvTypes, PTL

LEMMA OnlyCallOf ==
  ASSUME IInv, NEW c \in Callers
  PROVE  /\ \A g : Await(c, g) => Alone(c)
         /\ \A g, s : Invoke(c, g, s) => Alone(c)
         /\ \A out : Return(c, out) => Alone(c)
<1>1. DOMAIN calls = Callers
  BY DEF IInv, CallsInv, CallsFit
<1>2. \A x : calls' = [calls EXCEPT ![c] = x] => Alone(c)
  BY <1>1 DEF Alone
<1>3. \A g : Await(c, g) => Alone(c)
  BY <1>2 DEF Await
<1>4. \A g, s : Invoke(c, g, s) => Alone(c)
  BY <1>2 DEF Invoke
<1>5. \A out : Return(c, out) => Alone(c)
  BY <1>2, Zenon DEF Return
<1> QED
  BY <1>3, <1>4, <1>5

LEMMA StepIsOwn ==
  ASSUME IInv, NEW c \in Callers, Step(c)
  PROVE  Busy(c) /\ Alone(c)
<1>1. \A e : Throw(c, e) => Alone(c)
  BY OnlyCallOf DEF Throw
<1>2. RmMark(c) => Alone(c)
  BY OnlyCallOf DEF RmMark
<1>3. \A op, pc : Runs(c, op, pc) => Busy(c)
  BY DEF Runs, At
<1>4. CASE Written(c) \/ AppendRead(c)
  BY <1>1, <1>3, <1>4, OnlyCallOf DEF Written, AppendRead
<1>5. CASE MkdirExists(c) \/ MkdirParent(c) \/ MkdirMade(c)
  BY <1>1, <1>3, <1>5, OnlyCallOf DEF MkdirExists, MkdirParent, MkdirMade
<1>6. CASE RmExists(c) \/ RmStat(c) \/ RmList(c)
  BY <1>1, <1>2, <1>3, <1>6, OnlyCallOf DEF RmExists, RmStat, RmList
<1>7. CASE CpExists(c) \/ CpStat(c) \/ CpRead(c) \/ CpMkdir(c) \/ CpList(c)
  BY <1>1, <1>3, <1>7, OnlyCallOf DEF CpExists, CpStat, CpRead, CpMkdir, CpList
<1>8. CASE MvCopied(c) \/ MvRemoved(c)
  BY <1>1, <1>3, <1>8, OnlyCallOf DEF MvCopied, MvRemoved
<1>9. CASE \E op \in {"chmod", "utimes"} :
             AttrExists(c, op) \/ AttrStat(c, op) \/ AttrRead(c, op)
  BY <1>1, <1>3, <1>9, OnlyCallOf DEF AttrExists, AttrStat, AttrRead
<1>10. CASE \/ SymlinkExists(c)
            \/ LinkExists(c) \/ LinkStat(c) \/ LinkNew(c) \/ LinkRead(c)
  BY <1>1, <1>3, <1>10, OnlyCallOf DEF SymlinkExists, LinkExists, LinkStat, LinkNew, LinkRead
<1> QED
  BY <1>4, <1>5, <1>6, <1>7, <1>8, <1>9, <1>10 DEF Step

\* What StaysInFootprint says of one step.
Within ==
  \A c \in Callers : calls'[c] # calls[c] /\ <<memory, deleted>>' # <<memory, deleted>> =>
    LET r == IF Busy(c) THEN calls[c].req ELSE calls'[c].req
    IN \A p \in Known \cup Known' : Lstat(p)' # Lstat(p) => Footprint(r, p)

LEMMA StepsWithin ==
  ASSUME IInv, [Next]_vars
  PROVE  Within
<1>1. CASE UNCHANGED vars
  BY <1>1 DEF vars, Within
<1>2. ASSUME NEW d \in Callers, Begin(d)
      PROVE  Within
  <2>1. /\ \A x : Lstat(x)' # Lstat(x) => Footprint(calls'[d].req, x)
        /\ \A c \in Callers : c # d => calls'[c] = calls[c]
    BY <1>2, BeginFits
  <2>2. ~Busy(d)
    BY <1>2 DEF Begin, MayCall
  <2> QED  BY <2>1, <2>2 DEF Within
<1>3. ASSUME NEW d \in Callers, Step(d), UNCHANGED <<made, calm>>
      PROVE  Within
  <2>1. Stays(d) /\ Busy(d) /\ Alone(d)
    BY <1>3, StepFits, StepIsOwn
  <2> QED  BY <2>1 DEF Within, Stays, Alone
<1> QED
  BY <1>1, <1>2, <1>3 DEF Next, Finished

LEMMA WithinAlways == Spec => [][Within]_vars
BY Always, StepsWithin, PTL DEF Spec

(* Whatever the callers do at once, and at whatever awaits their calls     *)
(* meet, a step of a call creates, removes or changes only entries its own *)
(* operands name.                                                          *)
THEOREM FootprintKept == Spec => StaysInFootprint
<1>1. Spec => [][Within]_vars
  BY WithinAlways
<1> QED
  BY <1>1 DEF StaysInFootprint, Within

-----------------------------------------------------------------------------
(* Nothing is hidden.  The layers matter only by the kind they give each   *)
(* path; K and L are kinds before and after a step, r is the call in       *)
(* progress and f, g are invocations of it.                                *)

Paths == Seq(Names)

Kinds == [x \in Paths |-> Lstat(x).t]

(* What there is hangs on directories.                                     *)
Hangs(K) == \A x \in Paths : K[x] # "err" => \A d \in Ancestors(x) : K[d] = "dir"

Creates(K, p) == \A d \in Ancestors(p) : K[d] \in {"err", "dir"}

(* While r copies, source and target lie apart, no link is in the source,  *)
(* and what is below the target has the kind of what it is a copy of.      *)
Copying(K, r) ==
  /\ r.op \in {"cp", "mv"} /\ r.p # Root /\ r.q # Root
  /\ ~Under(r.p, r.q) /\ ~Under(r.q, r.p)
  /\ \A x \in Paths : Under(x, r.p) => K[x] # "link"
  /\ \A x \in Paths :
       Under(x, r.q) /\ K[x] # "err" /\ K[Moved(x, r.q, r.p)] # "err" =>
         (K[x] = "dir" <=> K[Moved(x, r.q, r.p)] = "dir")

(* What f needs of the tree from when it is called until it ends.          *)
Kept(K, f, r) ==
  /\ f.op = "mkdir" =>
       /\ K[f.p] \in {"err", "dir"}
       /\ f.pc = "made" => f.o.rec
       /\ r.op # "mkdir" =>
            /\ Copying(K, r)
            /\ Under(f.p, r.q) => K[Moved(f.p, r.q, r.p)] = "dir"
  /\ f.op = "cp" =>
       /\ Copying(K, r)
       /\ Under(f.p, r.p) /\ Under(f.q, r.q) /\ f.p = Moved(f.q, r.q, r.p)
       /\ f.pc \in {"mkdir", "list"} => K[f.p] = "dir" /\ f.o.rec
       /\ f.pc = "list" => K[f.q] = "dir"
  /\ f.op = "rm" =>
       /\ f.o.rec \/ \A x \in Paths : Below(x, f.p) => K[x] = "err"
       /\ f.pc \in {"exists", "stat"} => f.ret = "ok"
       /\ f.pc = "list" =>
            /\ IsInjective(f.kids)
            /\ K[f.p] = "dir" => \A k \in ToSet(f.kids) : K[Child(f.p, k)] # "err"

(* What f needs when it goes on: its answers are not stale.                *)
Ready(K, f) ==
  /\ f.op = "mkdir" =>
       /\ f.pc = "exists" => Creates(K, f.p) /\ (f.has <=> K[f.p] # "err")
       /\ f.pc = "parent" => Creates(K, f.p) /\ (f.has <=> K[Parent(f.p)] # "err")
       /\ f.pc = "made" => K[Parent(f.p)] = "dir"
  /\ f.op = "cp" =>
       /\ f.pc \in {"exists", "stat", "read"} => Creates(K, f.q)
       /\ f.pc = "exists" /\ f.has => K[f.p] # "err"
       /\ f.pc = "stat" => K[f.p] # "err" /\ f.res.t \in {"err", K[f.p]}
       /\ f.pc = "read" => K[f.p] \notin {"err", "dir"}
       /\ f.pc = "mkdir" => K[f.q] = "dir"
  /\ f.op = "rm" =>
       /\ f.pc = "exists" /\ ~f.has => K[f.p] = "err"
       /\ f.pc = "stat" /\ K[f.p] = "dir" => f.res.t = "dir"
       /\ f.pc = "list" /\ K[f.p] = "dir" =>
            /\ f.ret = "ok"
            /\ \A k \in Names : K[Child(f.p, k)] # "err" => k \in ToSet(f.kids)
  /\ f.op \in {"append", "symlink"} => Creates(K, f.p) /\ K[f.p] # "dir"
  /\ f.op = "link" => Creates(K, f.q) /\ K[f.q] # "dir"
  /\ f.op \in {"chmod", "utimes"} =>
       /\ K[f.p] # "link"
       /\ f.pc = "exists" /\ f.has => K[f.p] # "err"
       /\ f.pc = "stat" => K[f.p] # "err" /\ f.res.t \in {"err", K[f.p]}
       /\ f.pc = "read" => K[f.p] = "file"

(* f is somewhere above g on a stack.                                      *)
Over(f, g) ==
  \/ g.op = "mkdir" /\ f.op = "mkdir"
  \/ g.op = "cp" /\ f.op \in {"cp", "mkdir"}
  \/ g.op = "rm" /\ f.op = "rm" /\ Len(g.p) < Len(f.p)
  \/ g.op = "mv" /\ f.op \in {"cp", "mkdir", "rm"}

(* g called f and awaits it.                                               *)
CalledBy(K, f, g) ==
  \/ g.op = "mkdir" /\ g.pc = "made" /\ f.op = "mkdir" /\ f.o.rec /\ f.p = Parent(g.p)
  \/ g.op = "cp" /\ g.pc = "mkdir" /\ f.op = "mkdir" /\ f.o.rec /\ f.p = g.q
  \/ g.op = "cp" /\ g.pc = "list" /\ f.op = "cp"
  \/ /\ g.op = "rm" /\ g.pc = "list" /\ f.op = "rm"
     /\ \E k \in Names :
          /\ f.p = Child(g.p, k) /\ k \notin ToSet(g.kids)
          /\ K[g.p] = "dir" =>
               /\ f.pc = "exists" => K[f.p] # "err"
               /\ \A m \in Names : K[Child(g.p, m)] # "err" => m = k \/ m \in ToSet(g.kids)
  \/ g.op = "mv" /\ g.pc = "cp" /\ f.op = "cp"
  \/ g.op = "mv" /\ g.pc = "rm" /\ f.op = "rm"

Waits(K, s, r) ==
  /\ \A i \in DOMAIN s : Kept(K, s[i], r)
  /\ \A i, j \in DOMAIN s : i < j => Over(s[i], s[j])
  /\ \A i \in DOMAIN s : i > 1 => CalledBy(K, s[i - 1], s[i])

Sound(K, s, r) == Waits(K, s, r) /\ (s # <<>> => Ready(K, Head(s)))

(* No entry of the memory layer has a white-out.                           *)
Tidy == DOMAIN memory \subseteq Paths /\ DOMAIN memory \cap deleted = {}

(* The layers and calls while calls do not overlap and make sense.         *)
Clean ==
  /\ Tidy
  /\ Hangs(Kinds)
  /\ \A c, d \in Callers : Busy(c) /\ Busy(d) => c = d
  /\ \A c \in Callers : Sound(Kinds, calls[c].stack, calls[c].req)

CalmInv == calm => Clean

-----------------------------------------------------------------------------
(* Trees of kinds.                                                         *)

(* A step makes p of the kind t, and its ancestors directories.            *)
Raised(K, L, p, t) ==
  /\ L[p] = t /\ t # "err"
  /\ \A d \in Ancestors(p) : L[d] = "dir"
  /\ \A x \in Paths : x # p /\ x \notin Ancestors(p) => L[x] = K[x]

(* ... where it may be made.                                               *)
MayRaise(K, p, t) ==
  /\ p \in Paths
  /\ Creates(K, p)
  /\ t = "dir" \/ K[p] # "dir"

(* A step removes p, below which there is nothing.                         *)
Razed(K, L, p) ==
  /\ L[p] = "err"
  /\ \A x \in Paths : x # p => L[x] = K[x]
  /\ \A x \in Paths : Below(x, p) => K[x] = "err"

LEMMA AncestorPath ==
  ASSUME NEW x \in Paths, NEW d \in Ancestors(x)
  PROVE  /\ d \in Paths /\ d # Root /\ d # x /\ Below(x, d)
         /\ \A a \in Ancestors(d) : a \in Ancestors(x)
<1>1. d \in Seq(Names) /\ Under(x, d) /\ d # Root
  BY AncestorContains DEF Paths
<1>2. Len(d) \in 1 .. Len(x) - 1 /\ Len(x) \in Nat
  BY AncestorIs, LenProperties DEF Paths
<1>3. d # x
  BY <1>2
<1>4. Below(x, d)
  BY <1>1, <1>3 DEF Below, Under, IsStrictPrefix
<1>5. \A a \in Ancestors(d) : a \in Ancestors(x)
  BY AncestorsAbove DEF Paths
<1> QED
  BY <1>1, <1>3, <1>4, <1>5 DEF Paths

LEMMA RaisedHangs ==
  ASSUME NEW K, NEW L, NEW p, NEW t, Hangs(K), MayRaise(K, p, t), Raised(K, L, p, t)
  PROVE  Hangs(L)
<1> SUFFICES ASSUME NEW x \in Paths, L[x] # "err", NEW d \in Ancestors(x)
             PROVE  L[d] = "dir"
  BY DEF Hangs
<1>1. d \in Paths /\ \A a \in Ancestors(d) : a \in Ancestors(x)
  BY AncestorPath
<1>2. CASE x = p
  BY <1>2 DEF Raised
<1>3. CASE x \in Ancestors(p)
  <2>1. d \in Ancestors(p)
    BY <1>3, AncestorPath DEF MayRaise
  <2> QED  BY <2>1 DEF Raised
<1>4. CASE x # p /\ x \notin Ancestors(p)
  <2>1. K[x] # "err"
    BY <1>4 DEF Raised
  <2>2. K[d] = "dir"
    BY <2>1 DEF Hangs
  <2>3. CASE d = p
    BY <2>2, <2>3 DEF Raised, MayRaise
  <2>4. CASE d \in Ancestors(p)
    BY <2>4 DEF Raised
  <2>5. CASE d # p /\ d \notin Ancestors(p)
    BY <1>1, <2>2, <2>5 DEF Raised
  <2> QED  BY <2>3, <2>4, <2>5
<1> QED
  BY <1>2, <1>3, <1>4

LEMMA RazedHangs ==
  ASSUME NEW K, NEW L, NEW p \in Paths, Hangs(K), Razed(K, L, p)
  PROVE  Hangs(L)
<1> SUFFICES ASSUME NEW x \in Paths, L[x] # "err", NEW d \in Ancestors(x)
             PROVE  L[d] = "dir"
  BY DEF Hangs
<1>1. d \in Paths /\ Below(x, d)
  BY AncestorPath
<1>2. K[x] # "err"
  BY DEF Razed
<1>3. K[d] = "dir" /\ d # p
  BY <1>1, <1>2 DEF Hangs, Razed
<1> QED
  BY <1>1, <1>3 DEF Razed

\* Nothing is below what is no directory or has no children.
LEMMA NoneBelow ==
  ASSUME NEW K, Hangs(K), NEW p \in Paths, p # Root,
         K[p] # "dir" \/ \A k \in Names : K[Child(p, k)] = "err"
  PROVE  \A x \in Paths : Below(x, p) => K[x] = "err"
<1> SUFFICES ASSUME NEW x \in Paths, Below(x, p), K[x] # "err"
             PROVE  FALSE
  OBVIOUS
<1>1. K[p] = "dir"
  <2>1. p \in Ancestors(x)
    BY BelowAncestor DEF Paths
  <2> QED  BY <2>1 DEF Hangs
<1>2. PICK k \in Names : x = Child(p, k) \/ Child(p, k) \in Ancestors(x)
  BY BelowChild DEF Paths
<1>3. K[Child(p, k)] # "err"
  BY <1>2 DEF Hangs
<1> QED
  BY <1>1, <1>3

\* A step that raises p at or above the target of a copy, or below it like
\* what it is a copy of, leaves the source alone.
LEMMA RaisedCopying ==
  ASSUME NEW K, NEW L, NEW r, r.p \in Paths, r.q \in Paths, NEW p, NEW t,
         Hangs(K), MayRaise(K, p, t), Raised(K, L, p, t), Copying(K, r),
         Under(p, r.q) \/ p \in Ancestors(r.q),
         Under(p, r.q) => /\ K[Moved(p, r.q, r.p)] # "err"
                          /\ t = "dir" <=> K[Moved(p, r.q, r.p)] = "dir"
  PROVE  /\ Copying(L, r)
         /\ \A x \in Paths : Under(x, r.p) => L[x] = K[x]
<1> DEFINE d == r.p
           e == r.q
<1>1. d \in Seq(Names) /\ e \in Seq(Names) /\ p \in Seq(Names)
      /\ d # Root /\ ~Under(d, e) /\ ~Under(e, d)
  BY DEF Paths, Copying, MayRaise
<1>2. Under(p, e) \/ p \in Ancestors(e)
  OBVIOUS
<1>3. ASSUME NEW x \in Paths, Under(x, d)
      PROVE  L[x] = K[x]
  <2> HIDE DEF d, e
  <2>1. x \in Seq(Names)
    BY DEF Paths
  <2>2. ~Under(x, e)
    BY <1>1, <1>3, <2>1, AboveBoth
  <2>3. x \notin Ancestors(e)
    BY <1>1, <1>3, <2>1, AncestorContains, UnderTrans
  <2>4. x # p
    BY <1>2, <2>2, <2>3
  <2>5. x \notin Ancestors(p)
    BY <1>1, <1>2, <2>2, <2>3, AncestorsUnder, AncestorsAbove
  <2> QED  BY <2>4, <2>5 DEF Raised
<1>4. ASSUME NEW x \in Paths, Under(x, e), L[x] # "err", L[Moved(x, e, d)] # "err"
      PROVE  L[x] = "dir" <=> L[Moved(x, e, d)] = "dir"
  <2> DEFINE m == Moved(x, e, d)
             n == Moved(p, e, d)
  <2>1. x \in Seq(Names)
    BY DEF Paths
  <2>2. m \in Paths /\ Under(m, d)
    <3> HIDE DEF d, e
    <3> QED  BY <1>1, <1>4, <2>1, MovedUnder DEF Paths
  <2>3. L[m] = K[m]
    BY <1>3, <2>2
  <2>4. CASE x = p
    BY <1>4, <2>3, <2>4 DEF Raised
  <2>5. CASE x \in Ancestors(p)
    <3>1. Under(p, e) /\ m \in Ancestors(n)
      <4> HIDE DEF d, e
      <4> QED  BY <1>1, <1>4, <2>5, MovedAbove
    <3>2. K[n] # "err"
      BY <3>1
    <3>3. n \in Paths
      <4> HIDE DEF d, e
      <4> QED  BY <1>1, <3>1, MovedUnder DEF Paths
    <3>4. K[m] = "dir"
      <4> HIDE DEF m, n
      <4> QED  BY <3>1, <3>2, <3>3 DEF Hangs
    <3> QED  BY <2>3, <2>5, <3>4 DEF Raised
  <2>6. CASE x # p /\ x \notin Ancestors(p)
    <3>1. L[x] = K[x]
      BY <2>6 DEF Raised
    <3>2. K[x] # "err" /\ K[m] # "err"
      BY <1>4, <2>3, <3>1
    <3>3. K[x] = "dir" <=> K[m] = "dir"
      BY <1>4, <3>2 DEF Copying
    <3> QED  BY <2>3, <3>1, <3>3
  <2> QED  BY <2>4, <2>5, <2>6
<1>5. \A x \in Paths : Under(x, d) => L[x] # "link"
  BY <1>3 DEF Copying
<1> QED
  BY <1>3, <1>4, <1>5 DEF Copying

(* A step between K and L leaves the source of the copy r alone.           *)
SourceKept(K, L, r) ==
  Copying(K, r) => /\ Copying(L, r)
                   /\ \A x \in Paths : Under(x, r.p) => L[x] = K[x]

\* What f needs of the tree when another invocation has raised p ...
LEMMA KeptRaised ==
  ASSUME NEW K, NEW L, NEW r, r.p \in Paths, r.q \in Paths, NEW p, NEW t,
         MayRaise(K, p, t), Raised(K, L, p, t),
         NEW f, f.p \in Paths, f.q \in Paths, f.op # "rm", Kept(K, f, r),
         f.op = "mkdir" => t = "dir",
         SourceKept(K, L, r)
  PROVE  Kept(L, f, r)
<1>1. ASSUME f.op = "mkdir"
      PROVE  /\ L[f.p] \in {"err", "dir"} /\ (f.pc = "made" => f.o.rec)
             /\ r.op # "mkdir" =>
                  /\ Copying(L, r)
                  /\ Under(f.p, r.q) => L[Moved(f.p, r.q, r.p)] = "dir"
  <2>1. K[f.p] \in {"err", "dir"} /\ (f.pc = "made" => f.o.rec) /\ t = "dir"
    BY <1>1 DEF Kept
  <2>2. L[f.p] \in {"err", "dir"}
    BY <2>1 DEF Raised
  <2>3. ASSUME r.op # "mkdir"
        PROVE  Copying(L, r) /\ (Under(f.p, r.q) => L[Moved(f.p, r.q, r.p)] = "dir")
    <3>1. Copying(K, r) /\ (Under(f.p, r.q) => K[Moved(f.p, r.q, r.p)] = "dir")
      BY <1>1, <2>3 DEF Kept
    <3>2. Under(f.p, r.q) => Moved(f.p, r.q, r.p) \in Paths /\ Under(Moved(f.p, r.q, r.p), r.p)
      BY MovedUnder DEF Paths
    <3> QED  BY <3>1, <3>2 DEF SourceKept
  <2> QED  BY <2>1, <2>2, <2>3
<1>2. ASSUME f.op = "cp"
      PROVE  /\ Copying(L, r)
             /\ Under(f.p, r.p) /\ Under(f.q, r.q) /\ f.p = Moved(f.q, r.q, r.p)
             /\ f.pc \in {"mkdir", "list"} => L[f.p] = "dir" /\ f.o.rec
             /\ f.pc = "list" => L[f.q] = "dir"
  <2>1. /\ Copying(K, r)
        /\ Under(f.p, r.p) /\ Under(f.q, r.q) /\ f.p = Moved(f.q, r.q, r.p)
        /\ f.pc \in {"mkdir", "list"} => K[f.p] = "dir" /\ f.o.rec
        /\ f.pc = "list" => K[f.q] = "dir"
    BY <1>2 DEF Kept
  <2>2. L[f.p] = K[f.p] /\ Copying(L, r)
    BY <2>1 DEF SourceKept
  <2>3. K[f.q] = "dir" => L[f.q] = "dir"
    BY DEF Raised, MayRaise
  <2> QED  BY <2>1, <2>2, <2>3
<1> QED
  BY <1>1, <1>2 DEF Kept

\* ... and when another invocation has removed p.
LEMMA KeptRazed ==
  ASSUME NEW K, NEW L, NEW r, NEW p, Razed(K, L, p),
         NEW f, f.op \in {"rm", "mv"}, f.p \in Paths, f.p # p, Kept(K, f, r),
         f.op = "rm" /\ f.pc = "list" =>
           \A k \in ToSet(f.kids) : Child(f.p, k) \in Paths /\ Child(f.p, k) # p
  PROVE  Kept(L, f, r)
<1>1. L[f.p] = K[f.p]
  BY DEF Razed
<1>2. \A x \in Paths : K[x] = "err" => L[x] = "err"
  BY DEF Razed
<1>3. f.op = "rm" /\ f.pc = "list" =>
        \A k \in ToSet(f.kids) : L[Child(f.p, k)] = K[Child(f.p, k)]
  BY DEF Razed
<1>4. CASE f.op = "rm"
  BY <1>1, <1>2, <1>3, <1>4 DEF Kept
<1>5. CASE f.op = "mv"
  BY <1>5 DEF Kept
<1> QED
  BY <1>4, <1>5

LEMMA CalledRaised ==
  ASSUME NEW K, NEW L, NEW f, NEW g, g.op # "rm", CalledBy(K, f, g)
  PROVE  CalledBy(L, f, g)
BY DEF CalledBy

LEMMA CalledRazed ==
  ASSUME NEW K, NEW L, NEW p, Razed(K, L, p),
         NEW f, NEW g, g.p \in Paths, f.op = "rm" => f.pc # "exists", CalledBy(K, f, g)
  PROVE  CalledBy(L, f, g)
<1>1. CASE g.op # "rm"
  BY <1>1, CalledRaised
<1>2. CASE g.op = "rm"
  <2>1. g.pc = "list" /\ f.op = "rm" /\ f.pc # "exists"
    BY <1>2 DEF CalledBy
  <2>2. PICK k \in Names :
          /\ f.p = Child(g.p, k) /\ k \notin ToSet(g.kids)
          /\ K[g.p] = "dir" =>
               \A m \in Names : K[Child(g.p, m)] # "err" => m = k \/ m \in ToSet(g.kids)
    BY <1>2 DEF CalledBy
  <2>3. \A m \in Names : Child(g.p, m) \in Paths
    BY ChildIs DEF Paths
  <2>4. L[g.p] = "dir" => K[g.p] = "dir"
    BY DEF Razed
  <2>5. \A x \in Paths : L[x] # "err" => K[x] # "err"
    BY DEF Razed
  <2>6. L[g.p] = "dir" =>
          \A m \in Names : L[Child(g.p, m)] # "err" => m = k \/ m \in ToSet(g.kids)
    BY <2>2, <2>3, <2>4, <2>5
  <2>7. /\ f.p = Child(g.p, k) /\ k \notin ToSet(g.kids)
        /\ L[g.p] = "dir" =>
             /\ f.pc = "exists" => L[f.p] # "err"
             /\ \A m \in Names : L[Child(g.p, m)] # "err" => m = k \/ m \in ToSet(g.kids)
    BY <2>1, <2>2, <2>6
  <2> QED  BY <1>2, <2>1, <2>7 DEF CalledBy
<1> QED
  BY <1>1, <1>2

-----------------------------------------------------------------------------
(* Stacks.                                                                 *)

(* f is called on top of the stack s.                                      *)
OnTop(K, f, s) ==
  /\ \A j \in DOMAIN s : Over(f, s[j])
  /\ s # <<>> => CalledBy(K, f, Head(s))

LEMMA HeadIs ==
  ASSUME NEW F, NEW s \in Seq(F), s # <<>>
  PROVE  /\ Head(s) = s[1] /\ Head(s) \in F /\ Tail(s) \in Seq(F)
         /\ Len(s) \in Nat \ {0} /\ DOMAIN s = 1 .. Len(s)
         /\ DOMAIN Tail(s) = 1 .. Len(s) - 1
         /\ \A i \in 1 .. Len(s) - 1 : Tail(s)[i] = s[i + 1]
<1>1. Len(s) \in Nat \ {0} /\ DOMAIN s = 1 .. Len(s)
  BY EmptySeq, LenProperties
<1>2. Head(s) = s[1] /\ Head(s) \in F /\ Tail(s) \in Seq(F) /\ Len(Tail(s)) = Len(s) - 1
      /\ \A i \in 1 .. Len(Tail(s)) : Tail(s)[i] = s[i + 1]
  BY <1>1, HeadTailProperties, ElementOfSeq
<1> QED
  BY <1>1, <1>2, LenProperties

LEMMA ConsIs ==
  ASSUME NEW F, NEW f \in F, NEW s \in Seq(F)
  PROVE  /\ <<f>> \o s \in Seq(F) /\ <<f>> \o s # <<>>
         /\ Head(<<f>> \o s) = f /\ Tail(<<f>> \o s) = s
         /\ Len(s) \in Nat /\ DOMAIN s = 1 .. Len(s)
         /\ DOMAIN (<<f>> \o s) = 1 .. Len(s) + 1
         /\ (<<f>> \o s)[1] = f
         /\ \A i \in 1 .. Len(s) : (<<f>> \o s)[i + 1] = s[i]
<1> DEFINE t == <<f>> \o s
<1>1. <<f>> \in Seq(F) /\ Len(<<f>>) = 1 /\ <<f>>[1] = f
  OBVIOUS
<1>2. t \in Seq(F) /\ Len(t) = 1 + Len(s)
      /\ \A i \in 1 .. 1 + Len(s) : t[i] = IF i <= 1 THEN <<f>>[i] ELSE s[i - 1]
  BY <1>1, ConcatProperties
<1>3. Len(s) \in Nat /\ DOMAIN s = 1 .. Len(s) /\ DOMAIN t = 1 .. Len(t)
  BY <1>2, LenProperties
<1> HIDE DEF t
<1>4. t[1] = f /\ \A i \in 1 .. Len(s) : t[i + 1] = s[i]
  BY <1>1, <1>2, <1>3
<1>5. t # <<>>
  BY <1>2, <1>3, EmptySeq
<1>6. Head(t) = f /\ Tail(t) \in Seq(F) /\ DOMAIN Tail(t) = 1 .. Len(s)
      /\ \A i \in 1 .. Len(s) : Tail(t)[i] = s[i]
  BY <1>2, <1>3, <1>4, <1>5, HeadIs
<1>7. Tail(t) = s
  <2>1. Len(Tail(t)) = Len(s)
    BY <1>2, <1>3, <1>5, HeadTailProperties
  <2> QED  BY <1>6, <2>1, SeqEqual
<1> QED
  BY <1>2, <1>3, <1>4, <1>5, <1>6, <1>7 DEF t

LEMMA WaitsSplit ==
  ASSUME NEW F, NEW s \in Seq(F), s # <<>>, NEW K, NEW r, Waits(K, s, r)
  PROVE  /\ Kept(K, Head(s), r) /\ Waits(K, Tail(s), r) /\ OnTop(K, Head(s), Tail(s))
<1> DEFINE t == Tail(s)
<1>1. /\ Head(s) = s[1] /\ t \in Seq(F)
      /\ Len(s) \in Nat \ {0} /\ DOMAIN s = 1 .. Len(s)
      /\ DOMAIN t = 1 .. Len(s) - 1
      /\ \A i \in 1 .. Len(s) - 1 : t[i] = s[i + 1]
  BY HeadIs
<1> HIDE DEF t
<1>2. Kept(K, Head(s), r)
  BY <1>1 DEF Waits
<1>3. \A i \in DOMAIN t : i + 1 \in DOMAIN s /\ t[i] = s[i + 1]
  BY <1>1
<1>4. \A i \in DOMAIN t : Kept(K, t[i], r)
  BY <1>3 DEF Waits
<1>5. ASSUME NEW i \in DOMAIN t, NEW j \in DOMAIN t, i < j
      PROVE  Over(t[i], t[j])
  <2>1. i + 1 < j + 1
    BY <1>1, <1>5
  <2> QED  BY <1>3, <2>1 DEF Waits
<1>6. ASSUME NEW i \in DOMAIN t, i > 1
      PROVE  CalledBy(K, t[i - 1], t[i])
  <2>1. i - 1 \in DOMAIN t /\ i + 1 > 1 /\ (i + 1) - 1 = i /\ (i - 1) + 1 = i
    BY <1>1, <1>6
  <2>2. t[i - 1] = s[i] /\ t[i] = s[i + 1] /\ i + 1 \in DOMAIN s
    BY <1>3, <2>1
  <2>3. CalledBy(K, s[(i + 1) - 1], s[i + 1])
    BY <2>1, <2>2 DEF Waits
  <2> QED  BY <2>1, <2>2, <2>3
<1>7. \A j \in DOMAIN t : Over(Head(s), t[j])
  <2> TAKE j \in DOMAIN t
  <2>1. 1 \in DOMAIN s /\ j + 1 \in DOMAIN s /\ 1 < j + 1 /\ t[j] = s[j + 1]
    BY <1>1
  <2> QED  BY <1>1, <2>1 DEF Waits
<1>8. ASSUME t # <<>>
      PROVE  CalledBy(K, Head(s), Head(t))
  <2>1. Head(t) = t[1] /\ 1 \in DOMAIN t
    BY <1>1, <1>8, HeadIs
  <2>2. 2 \in DOMAIN s /\ t[1] = s[2] /\ 2 - 1 = 1
    BY <1>1, <2>1
  <2>3. CalledBy(K, s[2 - 1], s[2])
    BY <2>2 DEF Waits
  <2> QED  BY <1>1, <2>1, <2>2, <2>3
<1> QED
  BY <1>2, <1>4, <1>5, <1>6, <1>7, <1>8 DEF Waits, OnTop, t

LEMMA WaitsJoin ==
  ASSUME NEW F, NEW f \in F, NEW s \in Seq(F), NEW K, NEW r,
         Kept(K, f, r), Waits(K, s, r), OnTop(K, f, s)
  PROVE  Waits(K, <<f>> \o s, r)
<1> DEFINE t == <<f>> \o s
<1>1. /\ Len(s) \in Nat /\ DOMAIN s = 1 .. Len(s)
      /\ DOMAIN t = 1 .. Len(s) + 1 /\ t[1] = f
      /\ \A i \in 1 .. Len(s) : t[i + 1] = s[i]
  BY ConsIs
<1> HIDE DEF t
<1>2. ASSUME NEW i \in DOMAIN t, i # 1
      PROVE  i - 1 \in DOMAIN s /\ t[i] = s[i - 1] /\ i - 1 \in Nat
  BY <1>1, <1>2
<1>3. \A i \in DOMAIN t : Kept(K, t[i], r)
  BY <1>1, <1>2 DEF Waits
<1>4. ASSUME NEW i \in DOMAIN t, NEW j \in DOMAIN t, i < j
      PROVE  Over(t[i], t[j])
  <2>1. j # 1 /\ j - 1 \in DOMAIN s /\ t[j] = s[j - 1]
    BY <1>1, <1>2, <1>4
  <2>2. CASE i = 1
    BY <1>1, <2>1, <2>2 DEF OnTop
  <2>3. CASE i # 1
    <3>1. i - 1 \in DOMAIN s /\ t[i] = s[i - 1] /\ i - 1 < j - 1
      BY <1>1, <1>2, <1>4, <2>3
    <3> QED  BY <2>1, <3>1 DEF Waits
  <2> QED  BY <2>2, <2>3
<1>5. ASSUME NEW i \in DOMAIN t, i > 1
      PROVE  CalledBy(K, t[i - 1], t[i])
  <2>1. i - 1 \in DOMAIN s /\ t[i] = s[i - 1] /\ i - 1 \in Nat
    BY <1>2, <1>5
  <2>2. CASE i - 1 = 1
    <3>1. s # <<>> /\ Head(s) = s[1]
      BY <1>1, <2>1, <2>2, EmptySeq, HeadIs
    <3> QED  BY <1>1, <2>1, <2>2, <3>1 DEF OnTop
  <2>3. CASE i - 1 # 1
    <3>1. i - 1 \in DOMAIN t /\ i - 1 > 1
      BY <1>1, <2>1, <2>3
    <3>2. t[i - 1] = s[(i - 1) - 1]
      BY <1>2, <3>1
    <3>3. CalledBy(K, s[(i - 1) - 1], s[i - 1])
      BY <2>1, <3>1 DEF Waits
    <3> QED  BY <2>1, <3>2, <3>3
  <2> QED  BY <2>2, <2>3
<1> QED
  BY <1>3, <1>4, <1>5 DEF Waits, t

\* ... goes on with other answers.
LEMMA OnTopLike ==
  ASSUME NEW K, NEW s, NEW f, NEW g, OnTop(K, f, s),
         g.op = f.op, g.p = f.p, g.o = f.o, g.op = "rm" => g.pc # "exists"
  PROVE  OnTop(K, g, s)
<1>1. \A x : Over(f, x) => Over(g, x)
  BY DEF Over
<1>2. \A x : CalledBy(K, f, x) => CalledBy(K, g, x)
  BY DEF CalledBy
<1> QED
  BY <1>1, <1>2 DEF OnTop

\* What g calls is above all that g is above.
LEMMA OnTopOf ==
  ASSUME NEW W, NEW s \in Seq(Frames(W)), NEW K, NEW h \in Frames(W), NEW g \in Frames(W),
         OnTop(K, g, s), CalledBy(K, h, g), Over(h, g)
  PROVE  OnTop(K, h, <<g>> \o s)
<1>1. /\ Head(<<g>> \o s) = g
      /\ Len(s) \in Nat /\ DOMAIN s = 1 .. Len(s)
      /\ DOMAIN (<<g>> \o s) = 1 .. Len(s) + 1
      /\ (<<g>> \o s)[1] = g
      /\ \A i \in 1 .. Len(s) : (<<g>> \o s)[i + 1] = s[i]
  BY ConsIs
<1>2. Len(h.p) \in Nat /\ Len(g.p) \in Nat /\ \A i \in DOMAIN s : Len(s[i].p) \in Nat
  <2>1. \A f \in Frames(W) : Len(f.p) \in Nat
    BY LenProperties DEF Frames
  <2>2. \A i \in DOMAIN s : s[i] \in Frames(W)
    BY <1>1, ElementOfSeq
  <2> QED  BY <2>1, <2>2
<1>3. ASSUME NEW j \in DOMAIN (<<g>> \o s)
      PROVE  Over(h, (<<g>> \o s)[j])
  <2>1. CASE j = 1
    BY <1>1, <2>1
  <2>2. CASE j # 1
    <3>1. j - 1 \in DOMAIN s /\ (<<g>> \o s)[j] = s[j - 1]
      BY <1>1, <2>2
    <3> DEFINE x == s[j - 1]
    <3>2. Over(g, x) /\ Len(x.p) \in Nat
      BY <1>2, <3>1 DEF OnTop
    <3>3. Over(h, x)
      <4> HIDE DEF x
      <4> QED  BY <1>2, <3>2 DEF Over
    <3> QED  BY <3>1, <3>3
  <2> QED  BY <2>1, <2>2
<1> QED
  BY <1>1, <1>3 DEF OnTop

\* h, a mkdir or a cp, has raised p.
LEMMA WaitsRaised ==
  ASSUME NEW K, NEW L, NEW r, r.p \in Paths, r.q \in Paths, NEW p, NEW t,
         MayRaise(K, p, t), Raised(K, L, p, t),
         SourceKept(K, L, r),
         NEW h, h.op \in {"mkdir", "cp"}, h.op = "mkdir" => t = "dir",
         NEW W, NEW s \in Seq(Frames(W)), Waits(K, s, r), OnTop(K, h, s)
  PROVE  Waits(L, s, r)
<1>1. \A i \in DOMAIN s : s[i] \in Frames(W)
  BY ElementOfSeq, LenProperties
<1>2. \A i \in DOMAIN s : s[i].op # "rm" /\ (s[i].op = "mkdir" => t = "dir")
  BY DEF OnTop, Over
<1>3. \A i \in DOMAIN s : Kept(L, s[i], r)
  <2> TAKE i \in DOMAIN s
  <2> DEFINE f == s[i]
  <2>1. f.p \in Paths /\ f.q \in Paths
    BY <1>1 DEF Frames, Paths
  <2>2. Kept(K, f, r) /\ f.op # "rm" /\ (f.op = "mkdir" => t = "dir")
    BY <1>2 DEF Waits
  <2> HIDE DEF f
  <2>3. Kept(L, f, r)
    BY <2>1, <2>2, KeptRaised
  <2> QED  BY <2>3 DEF f
<1>4. \A i \in DOMAIN s : i > 1 => CalledBy(L, s[i - 1], s[i])
  BY <1>2, CalledRaised DEF Waits
<1> QED
  BY <1>3, <1>4 DEF Waits

\* h, an rm, has removed its path.
LEMMA WaitsRazed ==
  ASSUME NEW K, NEW L, NEW r, NEW h, h.op = "rm", h.p \in Paths, Razed(K, L, h.p),
         NEW W, NEW s \in Seq(Frames(W)), Waits(K, s, r), OnTop(K, h, s),
         \A i \in DOMAIN s : s[i].op = "rm" => s[i].kids \in Seq(Names)
  PROVE  Waits(L, s, r)
<1>1. /\ Len(s) \in Nat /\ DOMAIN s = 1 .. Len(s)
      /\ \A i \in DOMAIN s : s[i] \in Frames(W)
  BY ElementOfSeq, LenProperties
<1>2. /\ Len(h.p) \in Nat
      /\ \A i \in DOMAIN s : s[i].p \in Paths /\ Len(s[i].p) \in Nat
  <2>1. \A f \in Frames(W) : f.p \in Paths /\ Len(f.p) \in Nat
    BY LenProperties DEF Frames, Paths
  <2> QED  BY <1>1, <2>1, LenProperties DEF Paths
<1>3. \A i \in DOMAIN s :
        s[i].op \in {"rm", "mv"} /\ (s[i].op = "rm" => Len(s[i].p) < Len(h.p))
  BY DEF OnTop, Over
<1>4. ASSUME s # <<>>
      PROVE  1 \in DOMAIN s /\ CalledBy(K, h, s[1])
  BY <1>4, HeadIs DEF OnTop
<1>5. ASSUME NEW i \in DOMAIN s, s[i].op = "rm", s[i].pc = "list", NEW k \in ToSet(s[i].kids)
      PROVE  Child(s[i].p, k) \in Paths /\ Child(s[i].p, k) # h.p
  <2> DEFINE f == s[i]
  <2>1. f.kids \in Seq(Names) /\ f.p \in Paths
    BY <1>2, <1>5
  <2>2. k \in Names
    <3> HIDE DEF f
    <3>1. k \in ToSet(f.kids)
      BY <1>5 DEF f
    <3> QED  BY <2>1, <3>1, ElementOfSeq, LenProperties DEF ToSet
  <2>3. Child(f.p, k) \in Paths /\ Len(Child(f.p, k)) = Len(f.p) + 1
    <3> HIDE DEF f
    <3> QED  BY <2>1, <2>2, ChildIs DEF Paths
  <2>4. CASE i = 1
    <3>1. CalledBy(K, h, f)
      BY <1>4, <2>4
    <3>2. PICK m \in Names : h.p = Child(f.p, m) /\ m \notin ToSet(f.kids)
      BY <1>5, <3>1 DEF CalledBy
    <3>3. Child(f.p, k) # h.p
      <4>1. k # m
        BY <1>5, <3>2
      <4> HIDE DEF f
      <4> QED  BY <2>1, <2>2, <3>2, <4>1, ChildrenDiffer DEF Paths
    <3> QED  BY <2>3, <3>3
  <2>5. CASE i # 1
    <3>1. 1 \in DOMAIN s /\ 1 < i /\ s # <<>>
      BY <1>1, <2>5
    <3>2. Over(s[1], f)
      BY <3>1 DEF Waits
    <3>3. s[1].op = "rm" /\ Len(f.p) < Len(s[1].p)
      BY <1>3, <1>5, <3>1, <3>2 DEF Over
    <3>4. Len(f.p) + 1 < Len(h.p)
      BY <1>2, <1>3, <3>1, <3>3
    <3> QED  BY <1>2, <2>3, <3>4
  <2> QED  BY <2>4, <2>5
<1>6. \A i \in DOMAIN s : Kept(L, s[i], r)
  <2> TAKE i \in DOMAIN s
  <2> DEFINE f == s[i]
  <2>1. Kept(K, f, r) /\ f.op \in {"rm", "mv"} /\ f.p \in Paths
    BY <1>2, <1>3 DEF Waits
  <2>2. CASE f.op = "mv"
    BY <2>2 DEF Kept
  <2>3. CASE f.op = "rm"
    <3>1. f.p # h.p
      BY <1>2, <1>3, <2>3
    <3>2. f.pc = "list" => \A k \in ToSet(f.kids) : Child(f.p, k) \in Paths /\ Child(f.p, k) # h.p
      BY <1>5, <2>3
    <3> HIDE DEF f
    <3>3. Kept(L, f, r)
      BY <2>1, <3>1, <3>2, KeptRazed
    <3> QED  BY <3>3 DEF f
  <2> QED  BY <2>1, <2>2, <2>3
<1>7. \A i \in DOMAIN s : s[i].op = "rm" => s[i].pc = "list"
  <2> TAKE i \in DOMAIN s
  <2>1. CASE i = 1
    <3>1. CalledBy(K, h, s[1])
      BY <1>1, <1>4, <2>1
    <3> QED  BY <2>1, <3>1 DEF CalledBy
  <2>2. CASE i # 1
    <3>1. CalledBy(K, s[i - 1], s[i])
      BY <1>1, <2>2 DEF Waits
    <3> QED  BY <3>1 DEF CalledBy
  <2> QED  BY <2>1, <2>2
<1>8. ASSUME NEW i \in DOMAIN s, i > 1
      PROVE  CalledBy(L, s[i - 1], s[i])
  <2>1. i - 1 \in DOMAIN s /\ CalledBy(K, s[i - 1], s[i])
    BY <1>1, <1>8 DEF Waits
  <2>2. s[i - 1].op = "rm" => s[i - 1].pc # "exists"
    BY <1>7, <2>1
  <2> QED  BY <1>2, <2>1, <2>2, CalledRazed
<1> QED
  BY <1>6, <1>8 DEF Waits

\* The first of a stack learns how what it awaited ended.
LEMMA WaitsAnswered ==
  ASSUME NEW W, NEW s \in Seq(Frames(W)), s # <<>>, NEW K, NEW r, Waits(K, s, r),
         Head(s).op = "rm" => Head(s).pc = "list", NEW ret \in Codes
  PROVE  Waits(K, <<[Head(s) EXCEPT !.ret = ret]>> \o Tail(s), r)
<1> DEFINE f == Head(s)
           g == [f EXCEPT !.ret = ret]
<1>1. f \in Frames(W) /\ Tail(s) \in Seq(Frames(W))
  BY HeadIs
<1>2. /\ g \in Frames(W)
      /\ g.op = f.op /\ g.p = f.p /\ g.q = f.q /\ g.o = f.o /\ g.pc = f.pc /\ g.kids = f.kids
  <2> HIDE DEF f
  <2> QED  BY <1>1 DEF Frames
<1>3. Kept(K, f, r) /\ Waits(K, Tail(s), r) /\ OnTop(K, f, Tail(s))
  BY WaitsSplit
<1>4. f.op = "rm" => f.pc = "list"
  OBVIOUS
<1> HIDE DEF f, g
<1>5. Kept(K, g, r)
  BY <1>2, <1>3, <1>4 DEF Kept
<1>6. OnTop(K, g, Tail(s))
  BY <1>2, <1>3, <1>4, OnTopLike
<1>7. Waits(K, <<g>> \o Tail(s), r)
  BY <1>1, <1>2, <1>3, <1>5, <1>6, WaitsJoin
<1> QED
  BY <1>7 DEF f, g

\* f ends, and the stack s below it goes on: what f promised its caller.
Done(K, L, f, ret) ==
  /\ f.op = "mkdir" /\ f.o.rec => L[f.p] = "dir"
  /\ f.op = "rm" =>
       /\ L[f.p] = "err"
       /\ ret # "ok" => f.pc = "exists" /\ K[f.p] = "err"
       /\ \A x \in Paths : L[x] # "err" => K[x] = L[x]

LEMMA Answered ==
  ASSUME NEW W, NEW s \in Seq(Frames(W)), s # <<>>, NEW K, NEW L, NEW r,
         NEW f, NEW ret \in Codes, OnTop(K, f, s), Waits(L, s, r), Done(K, L, f, ret)
  PROVE  Sound(L, <<[Head(s) EXCEPT !.ret = ret]>> \o Tail(s), r)
<1> DEFINE g == Head(s)
           h == [g EXCEPT !.ret = ret]
<1>1. g \in Frames(W) /\ Tail(s) \in Seq(Frames(W))
  BY HeadIs
<1>2. /\ h \in Frames(W)
      /\ h.op = g.op /\ h.p = g.p /\ h.q = g.q /\ h.o = g.o /\ h.pc = g.pc
      /\ h.kids = g.kids /\ h.ret = ret
  <2> HIDE DEF g
  <2> QED  BY <1>1 DEF Frames
<1>3. CalledBy(K, f, g) /\ Over(f, g)
  <2>1. 1 \in DOMAIN s /\ g = s[1]
    BY HeadIs
  <2> QED  BY <2>1 DEF OnTop
<1>4. g.op = "rm" => g.pc = "list"
  BY <1>3 DEF CalledBy
<1>5. Waits(L, <<h>> \o Tail(s), r)
  BY <1>4, WaitsAnswered
<1>6. g.p \in Paths
  <2> HIDE DEF g
  <2> QED  BY <1>1 DEF Frames, Paths
<1> HIDE DEF g, h
<1>7. Ready(L, h)
  <2>1. CASE g.op = "mkdir"
    <3>1. f.op = "mkdir" /\ f.o.rec /\ f.p = Parent(g.p) /\ g.pc = "made"
      BY <1>3, <2>1 DEF CalledBy
    <3> QED  BY <1>2, <2>1, <3>1 DEF Done, Ready
  <2>2. CASE g.op = "cp"
    <3>1. g.pc = "list" \/ (g.pc = "mkdir" /\ f.op = "mkdir" /\ f.o.rec /\ f.p = g.q)
      BY <1>3, <2>2 DEF CalledBy
    <3> QED  BY <1>2, <2>2, <3>1 DEF Done, Ready
  <2>3. CASE g.op = "rm"
    <3>1. f.op = "rm" /\ g.pc = "list"
      BY <1>3, <2>3 DEF CalledBy
    <3>2. PICK k \in Names :
            /\ f.p = Child(g.p, k)
            /\ K[g.p] = "dir" =>
                 /\ f.pc = "exists" => K[f.p] # "err"
                 /\ \A m \in Names : K[Child(g.p, m)] # "err" => m = k \/ m \in ToSet(g.kids)
      BY <1>3, <2>3 DEF CalledBy
    <3>3. ASSUME L[g.p] = "dir"
          PROVE  /\ ret = "ok"
                 /\ \A m \in Names : L[Child(g.p, m)] # "err" => m \in ToSet(g.kids)
      <4>1. K[g.p] = "dir"
        BY <1>6, <3>1, <3>3 DEF Done
      <4>2. ret = "ok"
        BY <3>1, <3>2, <4>1 DEF Done
      <4>3. ASSUME NEW m \in Names, L[Child(g.p, m)] # "err"
            PROVE  m \in ToSet(g.kids)
        <5>1. Child(g.p, m) \in Paths
          BY <1>6, ChildIs DEF Paths
        <5>2. K[Child(g.p, m)] # "err"
          BY <3>1, <4>3, <5>1 DEF Done
        <5>3. Child(g.p, m) # f.p
          BY <3>1, <4>3 DEF Done
        <5> QED  BY <3>2, <4>1, <5>2, <5>3
      <4> QED  BY <4>2, <4>3
    <3> QED  BY <1>2, <2>3, <3>1, <3>3 DEF Ready
  <2>4. CASE g.op = "mv"
    BY <1>2, <2>4 DEF Ready
  <2>5. g.op \in {"mkdir", "cp", "rm", "mv"}
    BY <1>3 DEF Over
  <2> QED  BY <2>1, <2>2, <2>3, <2>4, <2>5
<1>8. <<h>> \o Tail(s) # <<>> /\ Head(<<h>> \o Tail(s)) = h
  BY <1>1, <1>2, ConsIs
<1> QED
  BY <1>5, <1>7, <1>8 DEF Sound, g, h

-----------------------------------------------------------------------------
(* Kinds in a state.                                                       *)

LEMMA KindIs ==
  ASSUME Layers, NEW x \in Paths
  PROVE  /\ Kinds[x] \in {"dir", "file", "link", "err"}
         /\ Kinds[x] = Lstat(x).t
         /\ Kinds[x] # "err" <=> Visible(x)
<1>1. Kinds[x] = Lstat(x).t
  BY DEF Kinds
<1>2. Kinds[x] \in {"dir", "file", "link", "err"}
  BY <1>1, QueriesTyped, AnswerIs
<1>3. ASSUME Visible(x)
      PROVE  Lstat(x).t # "err"
  <2>1. x \in DOMAIN memory => memory[x] \in Entry(Contents, LinkTargets)
    BY DEF Layers, Range
  <2>2. x \in DOMAIN Lower => Lower[x] \in Entry(Contents, LinkTargets)
    BY LowerTyped
  <2>3. EntryAt(x) \in Entry(Contents, LinkTargets)
    BY <1>3, <2>1, <2>2 DEF EntryAt, Visible
  <2> QED  BY <1>3, <2>3 DEF Lstat, Entry
<1>4. ~Visible(x) => Lstat(x).t = "err"
  BY DEF Lstat, Err
<1> QED
  BY <1>1, <1>2, <1>3, <1>4

\* What is in memory is what is seen.
LEMMA MemoryKind ==
  ASSUME Layers, Tidy, NEW x \in DOMAIN memory
  PROVE  x \in Paths /\ Kinds[x] = memory[x].t /\ Kinds[x] # "err"
<1>1. x \in Paths /\ Visible(x)
  BY DEF Tidy, Visible
<1> QED
  BY <1>1, KindIs DEF Lstat, EntryAt

LEMMA SameKinds ==
  ASSUME \A x \in Paths : Lstat(x)'.t = Lstat(x).t
  PROVE  Kinds' = Kinds
BY DEF Kinds

LEMMA PutRaised ==
  ASSUME Layers, Tidy, Hangs(Kinds), Contents \subseteq Contents', NEW p,
         NEW n \in Entry(Contents', LinkTargets), MayRaise(Kinds, p, n.t), Put(p, n)
  PROVE  Raised(Kinds, Kinds', p, n.t) /\ Tidy'
<1> DEFINE w == WithParents(p)
<1>1. /\ DOMAIN w = DOMAIN memory \cup ParentChain(p)
      /\ \A x \in DOMAIN w : w[x] = IF x \in DOMAIN memory THEN memory[x] ELSE Dir("default")
  BY DEF WithParents, WithNew
<1> HIDE DEF w
<1>2. /\ DOMAIN memory' = DOMAIN w \cup {p}
      /\ \A x \in DOMAIN memory' : memory'[x] = IF x = p THEN n ELSE w[x]
      /\ deleted' = deleted \ (ParentChain(p) \cup {p})
  BY DEF Put, Set, w
<1>3. p \in Paths /\ Creates(Kinds, p)
  BY DEF MayRaise
<1>4. \A d \in Ancestors(p) : d \in Paths /\ d # Root /\ d # p
  BY <1>3, AncestorPath
<1>5. ParentChain(p) \subseteq Ancestors(p)
  BY DEF ParentChain
<1>6. Tidy'
  <2>1. DOMAIN memory' \subseteq Paths
    BY <1>1, <1>2, <1>3, <1>4, <1>5 DEF Tidy
  <2>2. DOMAIN memory' \cap deleted' = {}
    BY <1>1, <1>2 DEF Tidy
  <2> QED  BY <2>1, <2>2 DEF Tidy
<1>7. Kinds'[p] = n.t
  <2>1. Visible(p)' /\ EntryAt(p)' = n
    BY <1>1, <1>2 DEF Visible, EntryAt
  <2>2. Lstat(p)' = n
    BY <2>1 DEF Lstat
  <2> QED  BY <1>3, <2>2 DEF Kinds
<1>8. ASSUME NEW d \in Ancestors(p)
      PROVE  Kinds'[d] = "dir"
  <2>1. d \in Paths /\ d # Root /\ d # p /\ Kinds[d] \in {"err", "dir"}
    BY <1>3, <1>4 DEF Creates
  <2>2. CASE d \in ParentChain(p)
    <3>1. Visible(d)' /\ EntryAt(d)' = w[d]
      BY <1>1, <1>2, <2>1, <2>2 DEF Visible, EntryAt
    <3>2. w[d].t = "dir"
      <4>1. CASE d \in DOMAIN memory
        BY <1>1, <2>1, <4>1, MemoryKind
      <4>2. CASE d \notin DOMAIN memory
        BY <1>1, <2>2, <4>2 DEF Dir
      <4> QED  BY <4>1, <4>2
    <3>3. Lstat(d)' = w[d]
      BY <3>1 DEF Lstat
    <3> QED  BY <2>1, <3>2, <3>3 DEF Kinds
  <2>3. CASE d \notin ParentChain(p)
    <3>1. PICK e \in Ancestors(p) : Below(e, d) /\ e \in DOMAIN memory
      BY <2>3 DEF ParentChain
    <3>2. e \in Paths /\ Kinds[e] # "err"
      BY <3>1, MemoryKind
    <3>3. d \in Ancestors(e)
      BY <2>1, <3>1, <3>2, BelowAncestor DEF Paths
    <3>4. Kinds[d] = "dir"
      BY <3>2, <3>3 DEF Hangs
    <3>5. Lstat(d)' = Lstat(d)
      BY <1>1, <1>2, <2>1, <2>3, SeenSame
    <3> QED  BY <2>1, <3>4, <3>5 DEF Kinds
  <2> QED  BY <2>2, <2>3
<1>9. ASSUME NEW x \in Paths, x # p, x \notin Ancestors(p)
      PROVE  Kinds'[x] = Kinds[x]
  <2>1. x \notin ParentChain(p)
    BY <1>5, <1>9
  <2>2. Lstat(x)' = Lstat(x)
    BY <1>1, <1>2, <1>9, <2>1, SeenSame
  <2> QED  BY <2>2 DEF Kinds
<1>10. n.t # "err"
  BY DEF Entry
<1> QED
  BY <1>6, <1>7, <1>8, <1>9, <1>10 DEF Raised

LEMMA MakeDirRaised ==
  ASSUME Layers, Tidy, NEW p \in Paths, \A d \in Ancestors(p) : Kinds[d] = "dir", MakeDir(p)
  PROVE  Raised(Kinds, Kinds', p, "dir") /\ Tidy'
<1>1. /\ DOMAIN memory' = DOMAIN memory \cup {p}
      /\ \A x \in DOMAIN memory' : memory'[x] = IF x = p THEN Dir("default") ELSE memory[x]
      /\ deleted' = deleted \ {p}
  BY DEF MakeDir, Set
<1>2. Tidy'
  <2>1. DOMAIN memory' \subseteq Paths
    BY <1>1 DEF Tidy
  <2>2. DOMAIN memory' \cap deleted' = {}
    BY <1>1 DEF Tidy
  <2> QED  BY <2>1, <2>2 DEF Tidy
<1>3. Kinds'[p] = "dir"
  <2>1. Visible(p)' /\ EntryAt(p)' = Dir("default")
    BY <1>1 DEF Visible, EntryAt
  <2>2. Lstat(p)'.t = "dir"
    BY <2>1 DEF Lstat, Dir
  <2> QED  BY <2>2 DEF Kinds
<1>4. ASSUME NEW x \in Paths, x # p
      PROVE  Kinds'[x] = Kinds[x]
  <2>1. Lstat(x)' = Lstat(x)
    BY <1>1, <1>4, SeenSame
  <2> QED  BY <2>1 DEF Kinds
<1>5. \A d \in Ancestors(p) : Kinds'[d] = "dir"
  BY <1>4, AncestorPath
<1> QED
  BY <1>2, <1>3, <1>4, <1>5 DEF Raised

LEMMA CopyUpSame ==
  ASSUME Layers, Tidy, NEW p \in Paths, NEW n, n.t = Kinds[p], Kinds[p] # "err", CopyUp(p, n)
  PROVE  Kinds' = Kinds /\ Tidy'
<1>1. /\ DOMAIN memory' = DOMAIN memory \cup {p}
      /\ \A x \in DOMAIN memory' : memory'[x] = IF x = p THEN n ELSE memory[x]
      /\ deleted' = deleted
  BY DEF CopyUp, Set
<1>2. Visible(p) /\ p \notin deleted
  BY KindIs DEF Visible
<1>3. Tidy'
  <2>1. DOMAIN memory' \subseteq Paths
    BY <1>1 DEF Tidy
  <2>2. DOMAIN memory' \cap deleted' = {}
    BY <1>1, <1>2 DEF Tidy
  <2> QED  BY <2>1, <2>2 DEF Tidy
<1>4. \A x \in Paths : Lstat(x)'.t = Lstat(x).t
  <2> TAKE x \in Paths
  <2>1. CASE x = p
    <3>1. Visible(p)' /\ EntryAt(p)' = n
      BY <1>1, <1>2 DEF Visible, EntryAt
    <3>2. Lstat(p)' = n
      BY <3>1 DEF Lstat
    <3> QED  BY <2>1, <3>2, KindIs
  <2>2. CASE x # p
    <3>1. Lstat(x)' = Lstat(x)
      BY <1>1, <2>2, SeenSame
    <3> QED  BY <3>1
  <2> QED  BY <2>1, <2>2
<1> QED
  BY <1>3, <1>4, SameKinds

LEMMA AttrSame ==
  ASSUME Layers, Tidy, NEW p \in DOMAIN memory, NEW m,
         memory' = [memory EXCEPT ![p].m = m], UNCHANGED deleted
  PROVE  Kinds' = Kinds /\ Tidy'
<1>1. /\ DOMAIN memory' = DOMAIN memory
      /\ \A x \in DOMAIN memory : x # p => memory'[x] = memory[x]
      /\ memory'[p] = [memory[p] EXCEPT !.m = m]
  OBVIOUS
<1>2. memory'[p].t = memory[p].t
  <2>1. memory[p] \in Entry(Contents, LinkTargets)
    BY DEF Layers, Range
  <2> QED  BY <1>1, <2>1 DEF Entry
<1>3. Tidy'
  BY <1>1 DEF Tidy
<1>4. \A x \in Paths : Lstat(x)'.t = Lstat(x).t
  <2> TAKE x \in Paths
  <2>1. CASE x = p
    <3>1. Visible(p) /\ EntryAt(p) = memory[p] /\ Visible(p)' /\ EntryAt(p)' = memory'[p]
      BY <1>1 DEF Visible, EntryAt, Tidy
    <3> QED  BY <1>2, <2>1, <3>1 DEF Lstat
  <2>2. CASE x # p
    <3>1. Lstat(x)' = Lstat(x)
      BY <1>1, <2>2, SeenSame
    <3> QED  BY <3>1
  <2> QED  BY <2>1, <2>2
<1> QED
  BY <1>3, <1>4, SameKinds

LEMMA MarkRazed ==
  ASSUME Layers, Tidy, NEW p \in Paths, \A x \in Paths : Below(x, p) => Kinds[x] = "err",
         MarkDeleted(p)
  PROVE  Razed(Kinds, Kinds', p) /\ Tidy'
<1>1. /\ DOMAIN memory' = DOMAIN memory \ {p}
      /\ \A x \in DOMAIN memory' : memory'[x] = memory[x]
      /\ deleted' = deleted \cup {p}
  BY DEF MarkDeleted, Without
<1>2. Tidy'
  BY <1>1 DEF Tidy
<1>3. Kinds'[p] = "err"
  <2>1. ~Visible(p)'
    BY <1>1 DEF Visible
  <2>2. Lstat(p)'.t = "err"
    BY <2>1 DEF Lstat, Err
  <2> QED  BY <2>2 DEF Kinds
<1>4. ASSUME NEW x \in Paths, x # p
      PROVE  Kinds'[x] = Kinds[x]
  <2>1. Lstat(x)' = Lstat(x)
    BY <1>1, <1>4, SeenSame
  <2> QED  BY <2>1 DEF Kinds
<1> QED
  BY <1>2, <1>3, <1>4 DEF Razed

\* What the queries answer on what is no link.
LEMMA StatKind ==
  ASSUME Layers, NEW p \in Paths, Kinds[p] # "link"
  PROVE  Stat(p).t = Kinds[p]
<1>1. FinalOf(p) = p
  BY KindIs DEF FinalOf
<1>2. Stat(p) = Lstat(p)
  BY <1>1, KindIs DEF Stat
<1> QED
  BY <1>2, KindIs

LEMMA ListIs ==
  ASSUME Layers, NEW p \in Paths, Kinds[p] = "dir"
  PROVE  /\ Readdir(p).ok /\ IsInjective(Readdir(p).kids)
         /\ \A k \in Names : k \in ToSet(Readdir(p).kids) <=> Kinds[Child(p, k)] # "err"
<1>1. FinalOf(p) = p /\ Visible(p)
  BY KindIs DEF FinalOf
<1>2. Readdir(p) = [ok |-> TRUE, kids |-> ListAt(p)]
  BY <1>1 DEF Readdir, Visible
<1> DEFINE S == {k \in Names : /\ Child(p, k) \notin deleted
                               /\ Child(p, k) \in DOMAIN memory \cup DOMAIN Lower}
<1>3. IsInjective(ListAt(p)) /\ ToSet(ListAt(p)) = Names \cap S
  BY SortedIs DEF ListAt
<1>4. \A k \in Names : k \in S <=> Visible(Child(p, k))
  BY DEF Visible
<1>5. \A k \in Names : Visible(Child(p, k)) <=> Kinds[Child(p, k)] # "err"
  <2> TAKE k \in Names
  <2>1. Child(p, k) \in Paths
    BY ChildIs DEF Paths
  <2> QED  BY <2>1, KindIs
<1> HIDE DEF S
<1> QED
  BY <1>2, <1>3, <1>4, <1>5

-----------------------------------------------------------------------------
(* Steps of the call in progress.                                          *)

Rest(c) == Tail(calls[c].stack)

LEMMA SoundEmpty ==
  ASSUME NEW K, NEW r
  PROVE  Sound(K, <<>>, r)
<1>1. DOMAIN <<>> = {}
  OBVIOUS
<1> QED
  BY <1>1 DEF Sound, Waits

LEMMA CleanStep ==
  ASSUME Clean, NEW c \in Callers, Busy(c), Alone(c), Tidy', Hangs(Kinds'),
         Sound(Kinds', calls'[c].stack, calls'[c].req)
  PROVE  Clean'
<1>1. \A d \in Callers : d # c => ~Busy(d) /\ calls'[d] = calls[d] /\ ~Busy(d)'
  BY DEF Clean, Alone, Busy
<1>2. \A d, e \in Callers : Busy(d)' /\ Busy(e)' => d = e
  BY <1>1
<1>3. \A d \in Callers : Sound(Kinds', calls'[d].stack, calls'[d].req)
  <2> TAKE d \in Callers
  <2>1. CASE d = c
    BY <2>1
  <2>2. CASE d # c
    <3>1. calls'[d].stack = <<>>
      BY <1>1, <2>2 DEF Busy
    <3> QED  BY <3>1, SoundEmpty
  <2> QED  BY <2>1, <2>2
<1> QED
  BY <1>2, <1>3 DEF Clean

\* What is known of the invocation c is at and of those that wait for it.
LEMMA TopSound ==
  ASSUME IInv, Clean, NEW c \in Callers, Busy(c)
  PROVE  /\ Top(c) \in Frames(Contents) /\ Shaped(Top(c), Contents)
         /\ Belongs(Top(c), calls[c].req)
         /\ Kept(Kinds, Top(c), calls[c].req) /\ Ready(Kinds, Top(c))
         /\ Rest(c) \in Seq(Frames(Contents))
         /\ Waits(Kinds, Rest(c), calls[c].req) /\ OnTop(Kinds, Top(c), Rest(c))
         /\ \A i \in DOMAIN Rest(c) : Rest(c)[i].op = "rm" => Rest(c)[i].kids \in Seq(Names)
         /\ calls[c].req \in Requests
         /\ calls[c].req.p \in Paths /\ calls[c].req.q \in Paths
<1> DEFINE s == calls[c].stack
<1>1. /\ Top(c) \in Frames(Contents) /\ Shaped(Top(c), Contents)
      /\ Belongs(Top(c), calls[c].req) /\ StackFits(Tail(s), calls[c].req, Contents)
      /\ calls[c].req \in Requests
  BY BusyTop DEF IInv
<1>2. s # <<>> /\ s \in Seq(Frames(Contents)) /\ Top(c) = Head(s)
  BY DEF IInv, CallsInv, CallsFit, CallFits, StackFits, Busy, Top
<1>3. Sound(Kinds, s, calls[c].req)
  BY DEF Clean
<1>4. Waits(Kinds, s, calls[c].req) /\ Ready(Kinds, Top(c))
  BY <1>2, <1>3 DEF Sound
<1>5. /\ Kept(Kinds, Top(c), calls[c].req) /\ Waits(Kinds, Tail(s), calls[c].req)
      /\ OnTop(Kinds, Top(c), Tail(s))
  <2> HIDE DEF s
  <2> QED  BY <1>2, <1>4, WaitsSplit
<1>6. Tail(s) \in Seq(Frames(Contents))
  BY <1>1 DEF StackFits
<1>7. \A i \in DOMAIN Tail(s) : Tail(s)[i].op = "rm" => Tail(s)[i].kids \in Seq(Names)
  BY <1>1 DEF StackFits, Shaped
<1>8. calls[c].req.p \in Paths /\ calls[c].req.q \in Paths
  BY <1>1, RequestIs DEF Paths
<1> QED
  BY <1>1, <1>4, <1>5, <1>6, <1>7, <1>8 DEF Rest

\* What the steps of a call do to its stack.
LEMMA StackAfter ==
  ASSUME IInv, NEW c \in Callers, NEW t, calls' = [calls EXCEPT ![c].stack = t]
  PROVE  calls'[c].stack = t /\ calls'[c].req = calls[c].req /\ Alone(c)
<1> DEFINE x == calls[c]
<1>1. DOMAIN calls = Callers /\ IsCall(x)
  BY DEF IInv, CallsInv, CallsFit, CallFits
<1>2. calls'[c] = [x EXCEPT !.stack = t] /\ Alone(c)
  BY <1>1 DEF Alone
<1> HIDE DEF x
<1>3. [x EXCEPT !.stack = t] = [stack |-> t, req |-> x.req, id |-> x.id, out |-> x.out,
                                before |-> x.before]
  BY <1>1 DEF IsCall
<1> QED
  BY <1>2, <1>3 DEF x

LEMMA SameLayers ==
  ASSUME UNCHANGED <<memory, deleted>>
  PROVE  Kinds' = Kinds /\ (Tidy => Tidy')
<1>1. \A x : Lstat(x)' = Lstat(x)
  BY SeenSame
<1> QED
  BY <1>1 DEF Kinds, Tidy

LEMMA AwaitClean ==
  ASSUME IInv, Clean, NEW c \in Callers, Busy(c), NEW g \in Frames(Contents),
         g.op = Top(c).op, g.p = Top(c).p, g.o = Top(c).o, g.op = "rm" => g.pc # "exists",
         Kept(Kinds, g, calls[c].req), Ready(Kinds, g),
         Await(c, g), UNCHANGED <<memory, deleted>>
  PROVE  Clean'
<1> DEFINE r == calls[c].req
           s == Rest(c)
<1>1. s \in Seq(Frames(Contents)) /\ Waits(Kinds, s, r) /\ OnTop(Kinds, Top(c), s)
  BY TopSound
<1>2. /\ calls'[c].stack = <<g>> \o s /\ calls'[c].req = r /\ Alone(c)
  <2>1. calls' = [calls EXCEPT ![c].stack = <<g>> \o s]
    BY DEF Await, Rest
  <2> HIDE DEF s
  <2> QED  BY <2>1, StackAfter
<1>3. Kept(Kinds, g, r)
  OBVIOUS
<1> HIDE DEF s, r
<1>4. OnTop(Kinds, g, s)
  BY <1>1, OnTopLike
<1>5. Waits(Kinds, <<g>> \o s, r)
  BY <1>1, <1>3, <1>4, WaitsJoin
<1>6. Head(<<g>> \o s) = g
  BY <1>1, ConsIs
<1>7. Sound(Kinds, <<g>> \o s, r)
  BY <1>5, <1>6 DEF Sound
<1>8. Kinds' = Kinds /\ Tidy' /\ Hangs(Kinds)
  BY SameLayers DEF Clean
<1> QED
  BY <1>2, <1>7, <1>8, CleanStep

LEMMA InvokeClean ==
  ASSUME IInv, Clean, NEW c \in Callers, Busy(c), NEW g \in Frames(Contents),
         g.op = Top(c).op, g.p = Top(c).p, g.o = Top(c).o, g.op = "rm" => g.pc # "exists",
         Kept(Kinds, g, calls[c].req),
         NEW h \in Frames(Contents), Kept(Kinds, h, calls[c].req), Ready(Kinds, h),
         CalledBy(Kinds, h, g), Over(h, g),
         Invoke(c, g, <<h>>), UNCHANGED <<memory, deleted>>
  PROVE  Clean'
<1> DEFINE r == calls[c].req
           s == Rest(c)
           t == <<g>> \o s
<1>1. s \in Seq(Frames(Contents)) /\ Waits(Kinds, s, r) /\ OnTop(Kinds, Top(c), s)
  BY TopSound
<1>2. /\ calls'[c].stack = <<h>> \o t /\ calls'[c].req = r /\ Alone(c)
  <2>1. calls' = [calls EXCEPT ![c].stack = <<h>> \o <<g>> \o s]
    BY DEF Invoke, Rest
  <2>2. <<h>> \in Seq(Frames(Contents)) /\ <<g>> \in Seq(Frames(Contents))
    OBVIOUS
  <2> HIDE DEF s
  <2>3. <<h>> \o <<g>> \o s = <<h>> \o t
    BY <1>1, <2>2, ConcatAssociative
  <2> HIDE DEF t
  <2> QED  BY <2>1, <2>3, StackAfter
<1>3. Kept(Kinds, g, r) /\ Kept(Kinds, h, r)
  OBVIOUS
<1> HIDE DEF s, r
<1>4. OnTop(Kinds, g, s)
  BY <1>1, OnTopLike
<1>5. Waits(Kinds, t, r)
  BY <1>1, <1>3, <1>4, WaitsJoin
<1>6. OnTop(Kinds, h, t)
  BY <1>1, <1>4, OnTopOf
<1>7. t \in Seq(Frames(Contents))
  BY <1>1, ConsIs
<1> HIDE DEF t
<1>8. Waits(Kinds, <<h>> \o t, r)
  BY <1>3, <1>5, <1>6, <1>7, WaitsJoin
<1>9. Head(<<h>> \o t) = h
  BY <1>7, ConsIs
<1>10. Sound(Kinds, <<h>> \o t, r)
  BY <1>8, <1>9 DEF Sound
<1>11. Kinds' = Kinds /\ Tidy' /\ Hangs(Kinds)
  BY SameLayers DEF Clean
<1> QED
  BY <1>2, <1>10, <1>11, CleanStep

LEMMA ReturnClean ==
  ASSUME IInv, Clean, NEW c \in Callers, Busy(c), NEW out \in Codes, Return(c, out),
         Tidy', Hangs(Kinds'), Waits(Kinds', Rest(c), calls[c].req),
         Rest(c) # <<>> => Done(Kinds, Kinds', Top(c), out)
  PROVE  Clean'
<1> DEFINE r == calls[c].req
           s == Rest(c)
<1>1. s \in Seq(Frames(Contents)) /\ OnTop(Kinds, Top(c), s) /\ Waits(Kinds', s, r)
  BY TopSound
<1>2. CASE s = <<>>
  <2>1. calls' = [calls EXCEPT ![c] = Idle(out)]
    BY <1>2 DEF Return, Rest
  <2>2. DOMAIN calls = Callers
    BY DEF IInv, CallsInv, CallsFit
  <2>3. Alone(c) /\ calls'[c].stack = <<>>
    BY <2>1, <2>2 DEF Alone, Idle
  <2> QED  BY <2>3, SoundEmpty, CleanStep
<1>3. CASE s # <<>>
  <2> DEFINE t == <<[Head(s) EXCEPT !.ret = out]>> \o Tail(s)
  <2>1. calls' = [calls EXCEPT ![c].stack = t]
    BY <1>3 DEF Return, Rest
  <2>2. calls'[c].stack = t /\ calls'[c].req = r /\ Alone(c)
    <3> HIDE DEF t
    <3> QED  BY <2>1, StackAfter
  <2>3. Sound(Kinds', t, r)
    <3>1. Done(Kinds, Kinds', Top(c), out)
      BY <1>3
    <3> HIDE DEF s, r
    <3> QED  BY <1>1, <1>3, <3>1, Answered
  <2> HIDE DEF t, r, s
  <2> QED  BY <2>2, <2>3, CleanStep
<1> QED
  BY <1>2, <1>3

\* Nobody waits for an invocation but of mkdir, cp and rm.
LEMMA Lonely ==
  ASSUME IInv, Clean, NEW c \in Callers, Busy(c), Top(c).op \notin {"mkdir", "cp", "rm"}
  PROVE  Rest(c) = <<>>
<1> SUFFICES ASSUME Rest(c) # <<>> PROVE FALSE
  OBVIOUS
<1>1. Rest(c) \in Seq(Frames(Contents)) /\ OnTop(Kinds, Top(c), Rest(c))
  BY TopSound
<1>2. 1 \in DOMAIN Rest(c)
  BY <1>1, HeadIs
<1> QED
  BY <1>1, <1>2 DEF OnTop, Over

LEMMA WaitsEmpty ==
  ASSUME NEW K, NEW r
  PROVE  Waits(K, <<>>, r)
BY SoundEmpty DEF Sound

\* An invocation ends and no kind changes.
LEMMA ReturnSame ==
  ASSUME IInv, Clean, NEW c \in Callers, Busy(c), NEW out \in Codes, Return(c, out),
         Tidy', Kinds' = Kinds, Rest(c) # <<>> => Done(Kinds, Kinds, Top(c), out)
  PROVE  Clean'
BY TopSound, ReturnClean DEF Clean

LEMMA ThrowClean ==
  ASSUME IInv, Clean, NEW c \in Callers, Busy(c), NEW out \in Codes, Throw(c, out),
         Rest(c) # <<>> => Done(Kinds, Kinds, Top(c), out)
  PROVE  Clean'
BY SameLayers, ReturnSame DEF Throw, Clean

\* An invocation ends that has raised p.
LEMMA ReturnRaised ==
  ASSUME IInv, Clean, NEW c \in Callers, Busy(c), Return(c, "ok"), Tidy',
         NEW p, NEW t, MayRaise(Kinds, p, t), Raised(Kinds, Kinds', p, t),
         Top(c).op # "rm",
         Top(c).op = "mkdir" => t = "dir" /\ p = Top(c).p,
         Top(c).op \in {"mkdir", "cp"} /\ Copying(Kinds, calls[c].req) =>
           LET r == calls[c].req IN
             /\ Under(p, r.q) \/ p \in Ancestors(r.q)
             /\ Under(p, r.q) => /\ Kinds[Moved(p, r.q, r.p)] # "err"
                                 /\ t = "dir" <=> Kinds[Moved(p, r.q, r.p)] = "dir"
  PROVE  Clean'
<1> DEFINE r == calls[c].req
           s == Rest(c)
           L == Kinds'
<1>1. /\ s \in Seq(Frames(Contents)) /\ Waits(Kinds, s, r) /\ OnTop(Kinds, Top(c), s)
      /\ r.p \in Paths /\ r.q \in Paths
  BY TopSound
<1>2. Hangs(Kinds)
  BY DEF Clean
<1>3. Hangs(L)
  <2> HIDE DEF L
  <2>1. Raised(Kinds, L, p, t)
    BY DEF L
  <2> QED  BY <1>2, <2>1, RaisedHangs
<1>4. Waits(L, s, r)
  <2>1. CASE Top(c).op \in {"mkdir", "cp"}
    <3>1. Raised(Kinds, L, p, t)
      OBVIOUS
    <3>2. SourceKept(Kinds, L, r)
      <4>1. SUFFICES ASSUME Copying(Kinds, r)
                     PROVE  /\ Copying(L, r)
                            /\ \A x \in Paths : Under(x, r.p) => L[x] = Kinds[x]
        BY DEF SourceKept
      <4>2. /\ Under(p, r.q) \/ p \in Ancestors(r.q)
            /\ Under(p, r.q) => /\ Kinds[Moved(p, r.q, r.p)] # "err"
                                /\ t = "dir" <=> Kinds[Moved(p, r.q, r.p)] = "dir"
        BY <2>1, <4>1
      <4> HIDE DEF r, L
      <4> QED  BY <1>1, <1>2, <3>1, <4>1, <4>2, RaisedCopying
    <3>3. Top(c).op \in {"mkdir", "cp"} /\ (Top(c).op = "mkdir" => t = "dir")
      BY <2>1
    <3> HIDE DEF r, L, s
    <3> QED  BY <1>1, <3>1, <3>2, <3>3, WaitsRaised
  <2>2. CASE Top(c).op \notin {"mkdir", "cp"}
    <3>1. s = <<>>
      BY <2>2, Lonely
    <3> QED  BY <3>1, WaitsEmpty
  <2> QED  BY <2>1, <2>2
<1>5. Done(Kinds, L, Top(c), "ok")
  BY DEF Done, Raised
<1>6. "ok" \in Codes
  BY DEF Codes
<1> QED
  BY <1>3, <1>4, <1>5, <1>6, ReturnClean

\* An rm ends that has removed its path.
LEMMA ReturnRazed ==
  ASSUME IInv, Clean, NEW c \in Callers, Busy(c), RmMark(c), Top(c).op = "rm",
         \A x \in Paths : Below(x, Top(c).p) => Kinds[x] = "err"
  PROVE  Clean'
<1> DEFINE r == calls[c].req
           s == Rest(c)
           f == Top(c)
<1>1. /\ s \in Seq(Frames(Contents)) /\ Waits(Kinds, s, r) /\ OnTop(Kinds, f, s)
      /\ \A i \in DOMAIN s : s[i].op = "rm" => s[i].kids \in Seq(Names)
      /\ f \in Frames(Contents)
  BY TopSound
<1>2. f.p \in Paths
  <2> HIDE DEF f
  <2> QED  BY <1>1 DEF Frames, Paths
<1>3. Layers /\ Tidy /\ Hangs(Kinds) /\ MarkDeleted(f.p) /\ Return(c, "ok")
  BY DEF IInv, Clean, RmMark
<1>4. Razed(Kinds, Kinds', f.p) /\ Tidy'
  <2> HIDE DEF f
  <2>1. \A x \in Paths : Below(x, f.p) => Kinds[x] = "err"
    BY DEF f
  <2> QED  BY <1>2, <1>3, <2>1, MarkRazed
<1> DEFINE L == Kinds'
<1>5. Hangs(L)
  <2>1. Razed(Kinds, L, f.p)
    BY <1>4
  <2> HIDE DEF f, L
  <2> QED  BY <1>2, <1>3, <2>1, RazedHangs
<1>6. Waits(L, s, r)
  <2>1. Razed(Kinds, L, f.p) /\ f.op = "rm"
    BY <1>4
  <2> HIDE DEF f, L, s, r
  <2> QED  BY <1>1, <1>2, <2>1, WaitsRazed
<1>7. Done(Kinds, L, f, "ok")
  BY <1>4 DEF Done, Razed
<1>8. "ok" \in Codes
  BY DEF Codes
<1> QED
  BY <1>3, <1>4, <1>5, <1>6, <1>7, <1>8, ReturnClean

(* g is f at the await pc, with the answers has, res and kids.             *)
Remade(g, f, pc, has, res, kids) ==
  /\ g.op = f.op /\ g.p = f.p /\ g.q = f.q /\ g.o = f.o /\ g.ret = f.ret
  /\ g.pc = pc /\ g.has = has /\ g.res = res /\ g.kids = kids

LEMMA Remakes ==
  ASSUME NEW W, NEW f \in Frames(W)
  PROVE  /\ \A pc : Remade([f EXCEPT !.pc = pc], f, pc, f.has, f.res, f.kids)
         /\ \A kids : Remade([f EXCEPT !.kids = kids], f, f.pc, f.has, f.res, kids)
         /\ \A pc, has : Remade([f EXCEPT !.pc = pc, !.has = has], f, pc, has, f.res, f.kids)
         /\ \A pc, res : Remade([f EXCEPT !.pc = pc, !.res = res], f, pc, f.has, res, f.kids)
         /\ \A pc, res, kids :
              /\ Remade([f EXCEPT !.pc = pc, !.res = res, !.kids = kids], f, pc, f.has, res, kids)
              /\ Remade([f EXCEPT !.pc = pc, !.kids = kids, !.res = res], f, pc, f.has, res, kids)
         /\ \A pc, has, kids :
              Remade([f EXCEPT !.pc = pc, !.kids = kids, !.has = has], f, pc, has, f.res, kids)
<1>1. \A pc : Remade([f EXCEPT !.pc = pc], f, pc, f.has, f.res, f.kids)
  BY DEF Frames, Remade
<1>2. \A kids : Remade([f EXCEPT !.kids = kids], f, f.pc, f.has, f.res, kids)
  BY DEF Frames, Remade
<1>3. \A pc, has : Remade([f EXCEPT !.pc = pc, !.has = has], f, pc, has, f.res, f.kids)
  BY DEF Frames, Remade
<1>4. \A pc, res : Remade([f EXCEPT !.pc = pc, !.res = res], f, pc, f.has, res, f.kids)
  BY DEF Frames, Remade
<1>5. \A pc, res, kids :
        Remade([f EXCEPT !.pc = pc, !.res = res, !.kids = kids], f, pc, f.has, res, kids)
  BY DEF Frames, Remade
<1>6. \A pc, res, kids :
        Remade([f EXCEPT !.pc = pc, !.kids = kids, !.res = res], f, pc, f.has, res, kids)
  BY DEF Frames, Remade
<1>7. \A pc, has, kids :
        Remade([f EXCEPT !.pc = pc, !.kids = kids, !.has = has], f, pc, has, f.res, kids)
  BY DEF Frames, Remade
<1> QED
  BY Zenon, <1>1, <1>2, <1>3, <1>4, <1>5, <1>6, <1>7

(* h is the invocation r starts with.                                      *)
Fresh(h, r) ==
  /\ h.op = r.op /\ h.p = r.p /\ h.q = r.q /\ h.o = r.o
  /\ h.pc = "exists" /\ h.has = Visible(r.p) /\ h.kids = <<>> /\ h.ret = "ok"

LEMMA Entered ==
  ASSUME Layers, NEW r \in Reqs, r.op \notin {"append", "write", "mv"}
  PROVE  \E h \in Frames(Contents) : Enter(r) = <<h>> /\ Fresh(h, r)
<1> DEFINE e == Frame("overlay", r, "exists")
           has == Visible(r.p)
           f == [e EXCEPT !.has = has]
<1>1. e \in Frames(Contents)
  BY FrameTyped DEF Awaits
<1>2. has \in BOOLEAN
  BY QueriesTyped
<1>3. /\ e.op = r.op /\ e.p = r.p /\ e.q = r.q /\ e.o = r.o
      /\ e.pc = "exists" /\ e.kids = <<>> /\ e.ret = "ok"
  BY DEF Frame
<1>4. Enter(r) = <<f>>
  BY DEF Enter
<1> HIDE DEF e, has
<1>5. /\ f \in Frames(Contents) /\ f.has = has
      /\ f.op = e.op /\ f.p = e.p /\ f.q = e.q /\ f.o = e.o
      /\ f.pc = e.pc /\ f.kids = e.kids /\ f.ret = e.ret
  BY <1>1, <1>2 DEF Frames
<1> HIDE DEF f
<1>6. Fresh(f, r)
  BY <1>3, <1>5 DEF Fresh, has
<1> QED
  BY <1>4, <1>5, <1>6

LEMMA ConsTyped ==
  ASSUME NEW F, NEW g, NEW s \in Seq(F), <<g>> \o s \in Seq(F)
  PROVE  g \in F
<1> DEFINE G == F \cup {g}
           t == <<g>> \o s
<1>1. s \in Seq(G) /\ g \in G
  BY SeqMonotonic
<1> HIDE DEF G
<1>2. t # <<>> /\ Head(t) = g
  BY <1>1, ConsIs
<1>3. t \in Seq(F)
  OBVIOUS
<1> HIDE DEF t
<1> QED
  BY <1>2, <1>3, HeadIs

LEMMA Typed ==
  ASSUME IInv, IInv', NEW c \in Callers, Busy(c), UNCHANGED made
  PROVE  /\ \A g : Await(c, g) => g \in Frames(Contents)
         /\ \A g, h : Invoke(c, g, <<h>>) /\ h \in Frames(Contents) => g \in Frames(Contents)
<1> DEFINE F == Frames(Contents)
           s == Rest(c)
<1>1. Contents' = Contents
  BY SameContents
<1>2. s \in Seq(F)
  BY BusyTop DEF StackFits, IInv, Rest
<1>3. calls'[c].stack \in Seq(F)
  BY <1>1 DEF IInv, CallsInv, CallsFit, CallFits, StackFits
<1> HIDE DEF F
<1>4. ASSUME NEW g, Await(c, g)
      PROVE  g \in F
  <2>1. calls' = [calls EXCEPT ![c].stack = <<g>> \o s]
    BY <1>4 DEF Await, Rest
  <2> HIDE DEF s
  <2>2. <<g>> \o s \in Seq(F)
    BY <1>3, <2>1, StackAfter
  <2> QED  BY <1>2, <2>2, ConsTyped
<1>5. ASSUME NEW g, NEW h \in F, Invoke(c, g, <<h>>)
      PROVE  g \in F
  <2> DEFINE G == F \cup {g}
             t == <<g>> \o s
  <2>1. calls' = [calls EXCEPT ![c].stack = <<h>> \o <<g>> \o s]
    BY <1>5 DEF Invoke, Rest
  <2> HIDE DEF s
  <2>2. s \in Seq(G) /\ <<h>> \in Seq(G) /\ <<g>> \in Seq(G) /\ h \in G /\ g \in G
    <3>1. Seq(F) \subseteq Seq(G) /\ h \in G /\ g \in G
      BY <1>5, SeqMonotonic
    <3> QED  BY <1>2, <3>1
  <2> HIDE DEF G
  <2>3. <<h>> \o <<g>> \o s = <<h>> \o t
    BY <2>2, ConcatAssociative
  <2>4. t \in Seq(G) /\ t # <<>> /\ Head(t) = g
    BY <2>2, ConsIs
  <2> HIDE DEF t
  <2>5. <<h>> \o t \in Seq(F)
    BY <1>3, <2>1, <2>3, StackAfter
  <2>6. Tail(<<h>> \o t) = t /\ <<h>> \o t # <<>>
    BY <2>2, <2>4, ConsIs
  <2>7. t \in Seq(F)
    BY <2>5, <2>6, HeadIs
  <2> QED  BY <2>4, <2>7, HeadIs
<1> QED
  BY <1>4, <1>5 DEF F

\* The invocation goes on waiting.
LEMMA AwaitTo ==
  ASSUME IInv, IInv', Clean, NEW c \in Callers, Busy(c), UNCHANGED <<memory, deleted, made>>,
         NEW g, NEW pc, NEW has, NEW res, NEW kids, Remade(g, Top(c), pc, has, res, kids),
         pc # "exists", Kept(Kinds, g, calls[c].req), Ready(Kinds, g), Await(c, g)
  PROVE  Clean'
<1>1. g \in Frames(Contents)
  BY Typed
<1>2. g.op = Top(c).op /\ g.p = Top(c).p /\ g.o = Top(c).o /\ g.pc # "exists"
  BY DEF Remade
<1> QED
  BY <1>1, <1>2, AwaitClean

\* The invocation calls another.
LEMMA InvokeTo ==
  ASSUME IInv, IInv', Clean, NEW c \in Callers, Busy(c), UNCHANGED <<memory, deleted, made>>,
         NEW g, NEW pc, NEW has, NEW res, NEW kids, Remade(g, Top(c), pc, has, res, kids),
         pc # "exists", Kept(Kinds, g, calls[c].req),
         NEW r \in Reqs, r.op \notin {"append", "write", "mv"}, Invoke(c, g, Enter(r)),
         \A h \in Frames(Contents) : Fresh(h, r) =>
           /\ Kept(Kinds, h, calls[c].req) /\ Ready(Kinds, h)
           /\ CalledBy(Kinds, h, g) /\ Over(h, g)
  PROVE  Clean'
<1>1. PICK h \in Frames(Contents) : Enter(r) = <<h>> /\ Fresh(h, r)
  BY Entered DEF IInv
<1>2. Invoke(c, g, <<h>>)
  BY <1>1
<1>3. g \in Frames(Contents)
  BY <1>2, Typed
<1>4. g.op = Top(c).op /\ g.p = Top(c).p /\ g.o = Top(c).o /\ g.pc # "exists"
  BY DEF Remade
<1>5. /\ Kept(Kinds, h, calls[c].req) /\ Ready(Kinds, h)
      /\ CalledBy(Kinds, h, g) /\ Over(h, g)
  BY <1>1
<1> QED
  BY <1>2, <1>3, <1>4, <1>5, InvokeClean

\* The first of names that differ is not among the others.
LEMMA TailIs ==
  ASSUME NEW T, NEW s \in Seq(T), s # <<>>
  PROVE  /\ Head(s) \in T /\ Head(s) \in ToSet(s)
         /\ ToSet(s) = {Head(s)} \cup ToSet(Tail(s))
         /\ IsInjective(s) => IsInjective(Tail(s)) /\ Head(s) \notin ToSet(Tail(s))
<1>1. /\ Head(s) = s[1] /\ Head(s) \in T /\ Tail(s) \in Seq(T)
      /\ Len(s) \in Nat \ {0} /\ DOMAIN s = 1 .. Len(s)
      /\ DOMAIN Tail(s) = 1 .. Len(s) - 1
      /\ \A i \in 1 .. Len(s) - 1 : Tail(s)[i] = s[i + 1]
  BY HeadIs
<1> DEFINE t == Tail(s)
<1>2. t \in Seq(T) /\ DOMAIN t = 1 .. Len(s) - 1
      /\ \A i \in 1 .. Len(s) - 1 : t[i] = s[i + 1]
  BY <1>1
<1> HIDE DEF t
<1>3. \A e : e \in ToSet(s) <=> \E i \in 1 .. Len(s) : s[i] = e
  BY <1>1 DEF ToSet
<1>4. \A e : e \in ToSet(t) <=> \E i \in 1 .. Len(s) - 1 : t[i] = e
  BY <1>2 DEF ToSet
<1>5. Head(s) \in ToSet(s)
  BY <1>1, <1>3
<1>6. \A e : e \in ToSet(t) => e \in ToSet(s)
  <2> SUFFICES ASSUME NEW i \in 1 .. Len(s) - 1
               PROVE  t[i] \in ToSet(s)
    BY <1>4
  <2>1. i + 1 \in 1 .. Len(s) /\ t[i] = s[i + 1]
    BY <1>1, <1>2
  <2> QED  BY <1>3, <2>1
<1>7. \A e : e \in ToSet(s) => e = Head(s) \/ e \in ToSet(t)
  <2> SUFFICES ASSUME NEW i \in 1 .. Len(s), i # 1
               PROVE  s[i] \in ToSet(t)
    BY <1>1, <1>3
  <2>1. i - 1 \in 1 .. Len(s) - 1 /\ t[i - 1] = s[i]
    BY <1>1, <1>2
  <2> QED  BY <1>4, <2>1
<1>8. ASSUME IsInjective(s)
      PROVE  IsInjective(t) /\ Head(s) \notin ToSet(t)
  <2>1. \A i, j \in 1 .. Len(s) : s[i] = s[j] => i = j
    BY <1>1, <1>8 DEF IsInjective
  <2>2. ASSUME NEW i \in 1 .. Len(s) - 1, NEW j \in 1 .. Len(s) - 1, t[i] = t[j]
        PROVE  i = j
    <3>1. i + 1 \in 1 .. Len(s) /\ j + 1 \in 1 .. Len(s) /\ s[i + 1] = s[j + 1]
      BY <1>1, <1>2, <2>2
    <3>2. i + 1 = j + 1
      BY <2>1, <3>1
    <3> QED  BY <3>2
  <2>3. IsInjective(t)
    BY <1>2, <2>2 DEF IsInjective
  <2>4. ASSUME NEW i \in 1 .. Len(s) - 1
        PROVE  t[i] # Head(s)
    <3>1. i + 1 \in 1 .. Len(s) /\ 1 \in 1 .. Len(s) /\ i + 1 # 1 /\ t[i] = s[i + 1]
      BY <1>1, <1>2
    <3>2. s[i + 1] # s[1]
      BY <2>1, <3>1
    <3> QED  BY <1>1, <3>1, <3>2
  <2> QED  BY <1>4, <2>3, <2>4
<1>9. ToSet(s) = {Head(s)} \cup ToSet(t)
  BY <1>5, <1>6, <1>7
<1> QED
  BY <1>1, <1>5, <1>8, <1>9 DEF t

LEMMA ListInjective ==
  ASSUME NEW p
  PROVE  IsInjective(Readdir(p).kids)
<1>1. \A d : IsInjective(ListAt(d))
  BY SortedIs DEF ListAt
<1>2. IsInjective(<<>>)
  BY DEF IsInjective
<1>3. \E at : Readdir(p) =
        CASE at \in deleted -> [ok |-> FALSE, kids |-> <<>>]
          [] at \notin deleted /\ at \in DOMAIN memory \cup DOMAIN Lower ->
               [ok |-> TRUE, kids |-> ListAt(at)]
          [] OTHER -> [ok |-> at # p, kids |-> <<>>]
  BY Zenon DEF Readdir
<1> QED
  BY <1>1, <1>2, <1>3

\* Directories all the way up.
LEMMA AllDirs ==
  ASSUME NEW K, Hangs(K), NEW p \in Paths, Parent(p) = Root \/ K[Parent(p)] = "dir"
  PROVE  \A d \in Ancestors(p) : K[d] = "dir"
<1> SUFFICES ASSUME NEW d \in Ancestors(p) PROVE K[d] = "dir"
  OBVIOUS
<1>1. Parent(p) # Root /\ (d = Parent(p) \/ d \in Ancestors(Parent(p)))
  BY AboveParent DEF Paths
<1>2. Parent(p) \in Paths
  BY <1>1, ParentAbove DEF Paths
<1> QED
  BY <1>1, <1>2 DEF Hangs

LEMMA CreatesAbove ==
  ASSUME NEW K, NEW p \in Paths, Creates(K, p), Parent(p) # Root
  PROVE  Parent(p) \in Paths /\ K[Parent(p)] \in {"err", "dir"} /\ Creates(K, Parent(p))
<1>1. Parent(p) \in Paths /\ Parent(p) \in Ancestors(p)
  BY ParentAbove DEF Paths
<1>2. \A d \in Ancestors(Parent(p)) : d \in Ancestors(p)
  BY <1>1, AncestorPath
<1> QED
  BY <1>1, <1>2 DEF Creates

\* The last step of mkdir.
LEMMA MakesClean ==
  ASSUME IInv, Clean, NEW c \in Callers, Busy(c), Top(c).op = "mkdir",
         MakeDir(Top(c).p), Return(c, "ok"),
         Parent(Top(c).p) = Root \/ Kinds[Parent(Top(c).p)] = "dir"
  PROVE  Clean'
<1> DEFINE r == calls[c].req
           f == Top(c)
           p == f.p
           K == Kinds
<1>1. /\ f \in Frames(Contents) /\ Belongs(f, r) /\ Kept(K, f, r)
      /\ r.p \in Paths /\ r.q \in Paths
  BY TopSound
<1>2. p \in Paths
  <2> HIDE DEF f
  <2> QED  BY <1>1 DEF Frames, Paths
<1>3. Layers /\ Tidy /\ Hangs(K)
  BY DEF IInv, Clean
<1>4. \A d \in Ancestors(p) : K[d] = "dir"
  <2>1. Parent(p) = Root \/ K[Parent(p)] = "dir"
    OBVIOUS
  <2> HIDE DEF p, K
  <2> QED  BY <1>2, <1>3, <2>1, AllDirs
<1>5. Raised(K, Kinds', p, "dir") /\ Tidy'
  <2>1. \A d \in Ancestors(p) : Kinds[d] = "dir"
    BY <1>4
  <2> HIDE DEF p
  <2> QED  BY <1>2, <1>3, <2>1, MakeDirRaised DEF p
<1>6. MayRaise(K, p, "dir")
  BY <1>2, <1>4 DEF MayRaise, Creates
<1>7. ASSUME Copying(K, r)
      PROVE  /\ Under(p, r.q) \/ p \in Ancestors(r.q)
             /\ Under(p, r.q) => /\ K[Moved(p, r.q, r.p)] # "err"
                                 /\ "dir" = "dir" <=> K[Moved(p, r.q, r.p)] = "dir"
  <2>1. r.op \in {"cp", "mv"}
    BY <1>7 DEF Copying
  <2>2. Under(p, r.q) \/ p \in Ancestors(r.q)
    BY <1>1, <2>1 DEF Belongs
  <2>3. Under(p, r.q) => K[Moved(p, r.q, r.p)] = "dir"
    BY <1>1, <2>1 DEF Kept
  <2> QED  BY <2>2, <2>3
<1> QED
  BY <1>5, <1>6, <1>7, ReturnRaised

LEMMA MkdirClean ==
  ASSUME IInv, IInv', Clean, NEW c \in Callers, MkdirExists(c) \/ MkdirParent(c) \/ MkdirMade(c),
         UNCHANGED <<made, calm>>
  PROVE  Clean'
<1> DEFINE f == Top(c)
           r == calls[c].req
           K == Kinds
<1>1. Busy(c) /\ f.op = "mkdir"
  BY DEF MkdirExists, MkdirParent, MkdirMade, Runs, At
<1>2. /\ f \in Frames(Contents) /\ Shaped(f, Contents)
      /\ Kept(K, f, r) /\ Ready(K, f) /\ r.p \in Paths /\ r.q \in Paths
  BY <1>1, TopSound
<1>3. f.p \in Paths /\ f.o \in Options
  <2> HIDE DEF f
  <2> QED  BY <1>2 DEF Frames, Paths
<1>4. Layers /\ Hangs(K)
  BY DEF IInv, Clean
<1>5. /\ K[f.p] \in {"err", "dir"}
      /\ r.op # "mkdir" =>
           /\ Copying(K, r)
           /\ Under(f.p, r.q) => K[Moved(f.p, r.q, r.p)] = "dir"
  BY <1>1, <1>2 DEF Kept
<1>6. CASE MkdirExists(c)
  <2>1. f.pc = "exists"
    BY <1>6 DEF MkdirExists, Runs, At
  <2>2. Creates(K, f.p) /\ (f.has <=> K[f.p] # "err")
    BY <1>1, <1>2, <2>1 DEF Ready
  <2>3. CASE f.has /\ Throw(c, IF f.o.rec THEN "ok" ELSE "EEXIST")
    <3>1. (IF f.o.rec THEN "ok" ELSE "EEXIST") \in Codes
      BY DEF Codes
    <3>2. K[f.p] = "dir"
      BY <1>5, <2>2, <2>3
    <3>3. \A out : Done(K, K, f, out)
      BY <1>1, <3>2 DEF Done
    <3> QED  BY <1>1, <2>3, <3>1, <3>3, ThrowClean
  <2>4. CASE Parent(f.p) = Root /\ MakeDir(f.p) /\ Return(c, "ok")
    BY <1>1, <2>4, MakesClean
  <2>5. CASE /\ Parent(f.p) # Root
             /\ Await(c, [f EXCEPT !.pc = "parent", !.has = Visible(Parent(f.p))])
             /\ UNCHANGED <<memory, deleted>>
    <3> DEFINE has == Visible(Parent(f.p))
               g == [f EXCEPT !.pc = "parent", !.has = has]
    <3>1. Remade(g, f, "parent", has, f.res, f.kids)
      <4> HIDE DEF f, has
      <4> QED  BY Zenon, <1>2, Remakes
    <3>2. Await(c, g)
      BY <2>5
    <3>3. has <=> K[Parent(f.p)] # "err"
      <4>1. Parent(f.p) \in Paths
        <5> HIDE DEF f
        <5> QED  BY <1>3, <2>5, ParentAbove DEF Paths
      <4> HIDE DEF f
      <4> QED  BY <1>4, <4>1, KindIs
    <3> HIDE DEF g, has
    <3>4. Kept(K, g, r)
      <4> HIDE DEF f, r, K
      <4> QED  BY <1>1, <1>2, <3>1 DEF Kept, Remade
    <3>5. Ready(K, g)
      <4> HIDE DEF f, K
      <4> QED  BY <1>1, <2>2, <3>1, <3>3 DEF Ready, Remade
    <3> QED  BY <1>1, <2>5, <3>1, <3>2, <3>4, <3>5, AwaitTo
  <2> QED  BY <1>6, <2>3, <2>4, <2>5 DEF MkdirExists
<1>7. CASE MkdirParent(c)
  <2>1. f.pc = "parent" /\ Parent(f.p) # Root
    BY <1>1, <1>2, <1>7 DEF MkdirParent, Runs, At, Shaped
  <2>2. Creates(K, f.p) /\ (f.has <=> K[Parent(f.p)] # "err")
    BY <1>1, <1>2, <2>1 DEF Ready
  <2>3. Parent(f.p) \in Paths /\ K[Parent(f.p)] \in {"err", "dir"} /\ Creates(K, Parent(f.p))
    <3> HIDE DEF f, K
    <3> QED  BY <1>3, <2>1, <2>2, CreatesAbove
  <2>4. CASE f.has /\ MakeDir(f.p) /\ Return(c, "ok")
    BY <1>1, <2>2, <2>3, <2>4, MakesClean
  <2>5. CASE ~f.o.rec /\ Throw(c, "ENOENT")
    <3>1. Done(K, K, f, "ENOENT")
      BY <1>1, <2>5 DEF Done
    <3> QED  BY <1>1, <2>5, <3>1, ThrowClean DEF Codes
  <2>6. CASE /\ f.o.rec
             /\ Invoke(c, [f EXCEPT !.pc = "made"], Enter(Req("mkdir", Parent(f.p), Root, f.o)))
             /\ UNCHANGED <<memory, deleted>>
    <3> DEFINE g == [f EXCEPT !.pc = "made"]
               e == Req("mkdir", Parent(f.p), Root, f.o)
    <3>1. Remade(g, f, "made", f.has, f.res, f.kids)
      <4> HIDE DEF f
      <4> QED  BY Zenon, <1>2, Remakes
    <3>2. /\ e \in Reqs /\ e.op = "mkdir" /\ e.p = Parent(f.p) /\ e.o = f.o
          /\ e.op \notin {"append", "write", "mv"}
      <4>1. <<>> \in Seq(Names)
        OBVIOUS
      <4> HIDE DEF f
      <4> QED  BY <1>3, <2>3, <4>1 DEF Req, Reqs, Root, OpNames, Paths
    <3>3. Invoke(c, g, Enter(e))
      BY <2>6
    <3> HIDE DEF g, e
    <3>4. Kept(K, g, r)
      <4> HIDE DEF f, r, K
      <4> QED  BY <1>1, <1>2, <2>6, <3>1 DEF Kept, Remade
    <3>5. ASSUME r.op # "mkdir", Under(Parent(f.p), r.q)
          PROVE  K[Moved(Parent(f.p), r.q, r.p)] = "dir"
      <4> DEFINE m == Moved(f.p, r.q, r.p)
                 n == Moved(Parent(f.p), r.q, r.p)
      <4>1. Parent(f.p) \in Ancestors(f.p) /\ r.p # Root
        <5>1. r.p # Root
          BY <1>5, <3>5 DEF Copying
        <5>2. Parent(f.p) \in Ancestors(f.p)
          <6> HIDE DEF f
          <6> QED  BY <1>3, <2>1, ParentAbove DEF Paths
        <5> QED  BY <5>1, <5>2
      <4>2. Under(f.p, r.q) /\ n \in Ancestors(m) /\ m \in Paths
        <5> HIDE DEF f, r
        <5>1. Under(f.p, r.q) /\ n \in Ancestors(m)
          BY <1>2, <1>3, <3>5, <4>1, MovedAbove DEF Paths
        <5>2. m \in Paths
          BY <1>2, <1>3, <5>1, MovedUnder DEF Paths
        <5> QED  BY <5>1, <5>2
      <4>3. K[m] = "dir"
        BY <1>5, <3>5, <4>2
      <4> HIDE DEF m, n
      <4>4. K[n] = "dir"
        BY <1>4, <4>2, <4>3 DEF Hangs
      <4> QED  BY <4>4 DEF n
    <3>6. ASSUME NEW h \in Frames(Contents), Fresh(h, e)
          PROVE  /\ Kept(K, h, r) /\ Ready(K, h)
                 /\ CalledBy(K, h, g) /\ Over(h, g)
      <4>1. /\ h.op = "mkdir" /\ h.p = Parent(f.p) /\ h.o = f.o /\ h.pc = "exists"
            /\ h.has = Visible(Parent(f.p))
        BY <3>2, <3>6 DEF Fresh
      <4>2. h.has <=> K[h.p] # "err"
        <5>1. Visible(Parent(f.p)) <=> K[Parent(f.p)] # "err"
          <6> HIDE DEF f
          <6> QED  BY <1>4, <2>3, KindIs
        <5> QED  BY <4>1, <5>1
      <4>3. r.op # "mkdir" => Copying(K, r) /\ (Under(h.p, r.q) => K[Moved(h.p, r.q, r.p)] = "dir")
        BY <1>5, <3>5, <4>1
      <4>4. K[h.p] \in {"err", "dir"} /\ Creates(K, h.p)
        BY <2>3, <4>1
      <4>5. g.op = "mkdir" /\ g.pc = "made" /\ h.o.rec /\ h.p = Parent(g.p)
        BY <1>1, <2>6, <3>1, <4>1 DEF Remade
      <4> HIDE DEF f, r, K
      <4>6. Kept(K, h, r)
        BY <4>1, <4>3, <4>4 DEF Kept
      <4>7. Ready(K, h)
        BY <4>1, <4>2, <4>4 DEF Ready
      <4> QED  BY <4>1, <4>5, <4>6, <4>7 DEF CalledBy, Over
    <3> QED  BY <1>1, <2>6, <3>1, <3>2, <3>3, <3>4, <3>6, InvokeTo
  <2> QED  BY <1>7, <2>4, <2>5, <2>6 DEF MkdirParent
<1>8. CASE MkdirMade(c)
  <2>1. f.pc = "made" /\ MakeDir(f.p) /\ Return(c, "ok")
    BY <1>8 DEF MkdirMade, Runs, At
  <2>2. K[Parent(f.p)] = "dir"
    BY <1>1, <1>2, <2>1 DEF Ready
  <2> QED  BY <1>1, <2>1, <2>2, MakesClean
<1> QED
  BY <1>6, <1>7, <1>8

\* A listing holds names only.
LEMMA ReaddirNames ==
  ASSUME NEW p
  PROVE  ToSet(Readdir(p).kids) \subseteq Names
<1>1. ToSet(<<>>) = {}
  BY DEF ToSet
<1>2. ToSet(ListAt(FinalOf(p))) \subseteq Names
  BY SortedIs DEF ListAt
<1> QED
  BY <1>1, <1>2 DEF Readdir

\* The steps of rm.
LEMMA RmClean ==
  ASSUME IInv, IInv', Clean, NEW c \in Callers, RmExists(c) \/ RmStat(c) \/ RmList(c),
         UNCHANGED <<made, calm>>
  PROVE  Clean'
<1> DEFINE f == Top(c)
           r == calls[c].req
           K == Kinds
<1>1. Busy(c) /\ f.op = "rm"
  BY DEF RmExists, RmStat, RmList, Runs, At
<1>2. /\ f \in Frames(Contents) /\ Shaped(f, Contents) /\ Kept(K, f, r) /\ Ready(K, f)
  BY <1>1, TopSound
<1>3. /\ f.p \in Paths /\ f.o \in Options /\ f.p # Root /\ f.kids \in Seq(Names)
  <2>1. f.p \in Paths /\ f.o \in Options
    <3> HIDE DEF f
    <3> QED  BY <1>2 DEF Frames, Paths
  <2> QED  BY <1>1, <1>2, <2>1 DEF Shaped
<1>4. Layers /\ Hangs(K)
  BY DEF IInv, Clean
<1>5. f.o.rec \/ \A x \in Paths : Below(x, f.p) => K[x] = "err"
  BY <1>1, <1>2 DEF Kept
<1>6. K[f.p] # "dir" => \A x \in Paths : Below(x, f.p) => K[x] = "err"
  <2> HIDE DEF f, K
  <2> QED  BY <1>3, <1>4, NoneBelow
<1>7. CASE RmExists(c)
  <2>1. f.pc = "exists"
    BY <1>7 DEF RmExists, Runs, At
  <2>2. CASE ~f.has /\ Throw(c, IF f.o.force THEN "ok" ELSE "ENOENT")
    <3>1. (IF f.o.force THEN "ok" ELSE "ENOENT") \in Codes
      BY DEF Codes
    <3>2. K[f.p] = "err"
      BY <1>1, <1>2, <2>1, <2>2 DEF Ready
    <3>3. \A out : Done(K, K, f, out)
      BY <1>1, <2>1, <3>2 DEF Done
    <3> QED  BY <1>1, <2>2, <3>1, <3>3, ThrowClean
  <2>3. CASE /\ Await(c, [f EXCEPT !.pc = "stat", !.res = Stat(f.p)])
             /\ UNCHANGED <<memory, deleted>>
    <3> DEFINE res == Stat(f.p)
               g == [f EXCEPT !.pc = "stat", !.res = res]
    <3>1. Remade(g, f, "stat", f.has, res, f.kids)
      <4> HIDE DEF f, res
      <4> QED  BY Zenon, <1>2, Remakes
    <3>2. Await(c, g)
      BY <2>3
    <3>3. K[f.p] = "dir" => res.t = "dir"
      <4> HIDE DEF f
      <4> QED  BY <1>3, <1>4, StatKind
    <3>4. f.ret = "ok"
      BY <1>1, <1>2, <2>1 DEF Kept
    <3> HIDE DEF g, res
    <3>5. Kept(K, g, r) /\ Ready(K, g)
      <4> HIDE DEF f, r, K
      <4> QED  BY <1>1, <1>5, <3>1, <3>3, <3>4 DEF Kept, Ready, Remade
    <3> QED  BY <1>1, <2>3, <3>1, <3>2, <3>5, AwaitTo
  <2> QED  BY <1>7, <2>2, <2>3 DEF RmExists
<1>8. CASE RmStat(c)
  <2>1. f.pc = "stat"
    BY <1>8 DEF RmStat, Runs, At
  <2>2. f.ret = "ok" /\ (K[f.p] = "dir" => f.res.t = "dir")
    BY <1>1, <1>2, <2>1 DEF Kept, Ready
  <2> DEFINE list == Readdir(f.p)
  <2>3. IsInjective(list.kids)
    BY ListInjective
  <2>4. K[f.p] = "dir" => /\ list.ok
                          /\ \A k \in Names : k \in ToSet(list.kids) <=> K[Child(f.p, k)] # "err"
    <3> HIDE DEF f
    <3> QED  BY <1>3, <1>4, ListIs
  <2>5. CASE (f.res.t # "dir" \/ ~list.ok) /\ RmMark(c)
    BY <1>1, <1>6, <2>2, <2>4, <2>5, ReturnRazed
  <2>6. CASE /\ Await(c, [f EXCEPT !.pc = "list", !.res = None, !.kids = list.kids])
             /\ UNCHANGED <<memory, deleted>>
    <3> DEFINE kids == list.kids
               g == [f EXCEPT !.pc = "list", !.res = None, !.kids = kids]
    <3>1. Remade(g, f, "list", f.has, None, kids)
      <4> HIDE DEF f, kids
      <4> QED  BY Zenon, <1>2, Remakes
    <3>2. Await(c, g)
      BY <2>6
    <3>3. ToSet(kids) \subseteq Names
      BY ReaddirNames
    <3>4. /\ IsInjective(kids)
          /\ K[f.p] = "dir" =>
               \A k \in Names : k \in ToSet(kids) <=> K[Child(f.p, k)] # "err"
      BY <2>3, <2>4
    <3> HIDE DEF g, kids
    <3>5. Kept(K, g, r) /\ Ready(K, g)
      <4> HIDE DEF f, r, K
      <4>1. Kept(K, g, r)
        BY <1>1, <1>5, <3>1, <3>3, <3>4 DEF Kept, Remade
      <4>2. Ready(K, g)
        BY <1>1, <2>2, <3>1, <3>4 DEF Ready, Remade
      <4> QED  BY <4>1, <4>2
    <3> QED  BY <1>1, <2>6, <3>1, <3>2, <3>5, AwaitTo
  <2> QED  BY <1>8, <2>5, <2>6 DEF RmStat
<1>9. CASE RmList(c)
  <2>1. f.pc = "list"
    BY <1>9 DEF RmList, Runs, At
  <2>2. /\ IsInjective(f.kids)
        /\ K[f.p] = "dir" =>
             /\ f.ret = "ok"
             /\ \A k \in ToSet(f.kids) : K[Child(f.p, k)] # "err"
             /\ \A k \in Names : K[Child(f.p, k)] # "err" => k \in ToSet(f.kids)
    BY <1>1, <1>2, <2>1 DEF Kept, Ready
  <2>3. CASE (f.kids = <<>> \/ ~f.o.rec \/ f.ret # "ok") /\ RmMark(c)
    <3>1. f.kids = <<>> => ToSet(f.kids) = {}
      <4> HIDE DEF f
      <4> QED  BY DEF ToSet
    <3>2. f.kids = <<>> => \A x \in Paths : Below(x, f.p) => K[x] = "err"
      <4>1. f.kids = <<>> /\ K[f.p] = "dir" => \A k \in Names : K[Child(f.p, k)] = "err"
        BY <2>2, <3>1
      <4> HIDE DEF f, K
      <4> QED  BY <1>3, <1>4, <1>6, <4>1, NoneBelow
    <3> QED  BY <1>1, <1>5, <1>6, <2>2, <2>3, <3>2, ReturnRazed
  <2>4. CASE /\ f.kids # <<>> /\ f.o.rec /\ f.ret = "ok"
             /\ Invoke(c, [f EXCEPT !.kids = Tail(@)],
                       Enter(Req("rm", Child(f.p, Head(f.kids)), Root, f.o)))
             /\ UNCHANGED <<memory, deleted>>
    <3> DEFINE k == Head(f.kids)
               kids == Tail(f.kids)
               x == Child(f.p, k)
               g == [f EXCEPT !.kids = kids]
               e == Req("rm", x, Root, f.o)
    <3>1. Remade(g, f, "list", f.has, f.res, kids)
      <4>1. Remade(g, f, f.pc, f.has, f.res, kids)
        <5> HIDE DEF f, kids
        <5> QED  BY Zenon, <1>2, Remakes
      <4> QED  BY <2>1, <4>1
    <3>2. k \in Names /\ k \in ToSet(f.kids) /\ ToSet(f.kids) = {k} \cup ToSet(kids)
          /\ IsInjective(kids) /\ k \notin ToSet(kids)
      <4> DEFINE s == f.kids
      <4>1. s \in Seq(Names) /\ s # <<>> /\ IsInjective(s)
        BY <1>3, <2>2, <2>4
      <4> HIDE DEF s
      <4>2. Head(s) \in Names /\ Head(s) \in ToSet(s)
            /\ ToSet(s) = {Head(s)} \cup ToSet(Tail(s))
            /\ IsInjective(Tail(s)) /\ Head(s) \notin ToSet(Tail(s))
        BY <4>1, TailIs
      <4> QED  BY <4>2 DEF s
    <3>3. x \in Paths /\ Len(x) = Len(f.p) + 1 /\ Len(f.p) \in Nat
      <4> HIDE DEF f, k
      <4>1. f.p \in Seq(Names) /\ k \in Names
        BY <1>3, <3>2 DEF Paths
      <4>2. x \in Seq(Names) /\ Len(x) = Len(f.p) + 1
        BY <4>1, ChildIs
      <4> QED  BY <4>1, <4>2, LenProperties DEF Paths
    <3> HIDE DEF k, kids
    <3>4. /\ e \in Reqs /\ e.op = "rm" /\ e.p = x /\ e.o = f.o
          /\ e.op \notin {"append", "write", "mv"}
      <4>1. <<>> \in Seq(Names)
        OBVIOUS
      <4> HIDE DEF f, x
      <4> QED  BY <1>3, <3>3, <4>1 DEF Req, Reqs, Root, OpNames, Paths
    <3>5. Invoke(c, g, Enter(e))
      BY <2>4 DEF k, kids
    <3> HIDE DEF g, e
    <3>6. Kept(K, g, r)
      <4> HIDE DEF f, r, K, x
      <4> QED  BY <1>1, <2>2, <2>4, <3>1, <3>2 DEF Kept, Remade
    <3>7. ASSUME NEW h \in Frames(Contents), Fresh(h, e)
          PROVE  /\ Kept(K, h, r) /\ Ready(K, h)
                 /\ CalledBy(K, h, g) /\ Over(h, g)
      <4>1. /\ h.op = "rm" /\ h.p = x /\ h.o.rec /\ h.pc = "exists" /\ h.ret = "ok"
            /\ h.has = Visible(x)
        BY <2>4, <3>4, <3>7 DEF Fresh
      <4>2. Visible(x) <=> K[x] # "err"
        <5> HIDE DEF f, x
        <5> QED  BY <1>4, <3>3, KindIs
      <4>3. /\ g.op = "rm" /\ g.pc = "list" /\ g.p = f.p /\ g.kids = kids
        BY <1>1, <3>1 DEF Remade
      <4>4. h.p = Child(g.p, k) /\ k \notin ToSet(g.kids)
        BY <3>2, <4>1, <4>3
      <4>5. K[g.p] = "dir" =>
              /\ K[h.p] # "err"
              /\ \A m \in Names : K[Child(g.p, m)] # "err" => m = k \/ m \in ToSet(g.kids)
        BY <2>2, <3>2, <4>1, <4>3
      <4>6. Len(g.p) < Len(h.p)
        BY <3>3, <4>1, <4>3
      <4> HIDE DEF f, r, K, x
      <4>7. Kept(K, h, r) /\ Ready(K, h)
        BY <4>1, <4>2 DEF Kept, Ready
      <4>8. CalledBy(K, h, g)
        BY <3>2, <4>1, <4>3, <4>4, <4>5 DEF CalledBy
      <4> QED  BY <4>1, <4>3, <4>6, <4>7, <4>8 DEF Over
    <3> QED  BY <1>1, <2>4, <3>1, <3>4, <3>5, <3>6, <3>7, InvokeTo
  <2> QED  BY <1>9, <2>3, <2>4 DEF RmList
<1> QED
  BY <1>7, <1>8, <1>9

\* The steps of cp.
LEMMA CpClean ==
  ASSUME IInv, IInv', Clean, NEW c \in Callers,
         CpExists(c) \/ CpStat(c) \/ CpRead(c) \/ CpMkdir(c) \/ CpList(c),
         UNCHANGED <<made, calm>>
  PROVE  Clean'
<1> DEFINE f == Top(c)
           r == calls[c].req
           K == Kinds
<1>1. Busy(c) /\ f.op = "cp"
  BY DEF CpExists, CpStat, CpRead, CpMkdir, CpList, Runs, At
<1>2. /\ f \in Frames(Contents) /\ Shaped(f, Contents) /\ Kept(K, f, r) /\ Ready(K, f)
      /\ r.p \in Paths /\ r.q \in Paths
  BY <1>1, TopSound
<1>3. /\ f.p \in Paths /\ f.q \in Paths /\ f.o \in Options /\ f.kids \in Seq(Names)
      /\ f.ret \in Codes /\ f.res \in Answer(Contents)
  <2>1. /\ f.p \in Paths /\ f.q \in Paths /\ f.o \in Options /\ f.ret \in Codes
        /\ f.res \in Answer(Contents)
    <3> HIDE DEF f
    <3> QED  BY <1>2 DEF Frames, Paths
  <2> QED  BY <1>1, <1>2, <2>1 DEF Shaped
<1>4. Layers /\ Hangs(K) /\ Tidy
  BY DEF IInv, Clean
<1>5. /\ Copying(K, r)
      /\ Under(f.p, r.p) /\ Under(f.q, r.q) /\ f.p = Moved(f.q, r.q, r.p)
  BY <1>1, <1>2 DEF Kept
<1>6. /\ K[f.p] # "link"
      /\ K[f.q] # "err" /\ K[f.p] # "err" => (K[f.q] = "dir" <=> K[f.p] = "dir")
  <2> HIDE DEF f, r, K
  <2> QED  BY <1>3, <1>5 DEF Copying
<1>7. \A out : Done(K, K, f, out)
  BY <1>1 DEF Done
<1>8. ASSUME NEW out \in Codes, Throw(c, out)
      PROVE  Clean'
  BY <1>1, <1>7, <1>8, ThrowClean
<1>9. f.res.t = "err" => f.res.e \in Codes
  <2> HIDE DEF f
  <2> QED  BY <1>3, AnswerIs
<1>10. CASE CpExists(c)
  <2>1. f.pc = "exists"
    BY <1>10 DEF CpExists, Runs, At
  <2>2. Creates(K, f.q) /\ (f.has => K[f.p] # "err")
    BY <1>1, <1>2, <2>1 DEF Ready
  <2>3. CASE ~f.has /\ Throw(c, "ENOENT")
    BY <1>8, <2>3 DEF Codes
  <2>4. CASE /\ f.has
             /\ Await(c, [f EXCEPT !.pc = "stat", !.res = Stat(f.p)])
             /\ UNCHANGED <<memory, deleted>>
    <3> DEFINE res == Stat(f.p)
               g == [f EXCEPT !.pc = "stat", !.res = res]
    <3>1. Remade(g, f, "stat", f.has, res, f.kids)
      <4> HIDE DEF f, res
      <4> QED  BY Zenon, <1>2, Remakes
    <3>2. Await(c, g)
      BY <2>4
    <3>3. res.t = K[f.p]
      <4> HIDE DEF f
      <4> QED  BY <1>3, <1>4, <1>6, StatKind
    <3> HIDE DEF g, res
    <3>4. Kept(K, g, r) /\ Ready(K, g)
      <4> HIDE DEF f, r, K
      <4> QED  BY <1>1, <1>5, <2>2, <2>4, <3>1, <3>3 DEF Kept, Ready, Remade
    <3> QED  BY Zenon, <1>1, <2>4, <3>1, <3>2, <3>4, AwaitTo
  <2> QED  BY <1>10, <2>3, <2>4 DEF CpExists
<1>11. CASE CpStat(c)
  <2>1. f.pc = "stat"
    BY <1>11 DEF CpStat, Runs, At
  <2>2. Creates(K, f.q) /\ K[f.p] # "err" /\ f.res.t \in {"err", K[f.p]}
    BY <1>1, <1>2, <2>1 DEF Ready
  <2>3. CASE f.res.t = "err" /\ Throw(c, f.res.e)
    BY <1>8, <1>9, <2>3
  <2>4. CASE /\ f.res.t = "file"
             /\ Await(c, [f EXCEPT !.pc = "read", !.res = Read(f.p)])
             /\ UNCHANGED <<memory, deleted>>
    <3> DEFINE res == Read(f.p)
               g == [f EXCEPT !.pc = "read", !.res = res]
    <3>1. Remade(g, f, "read", f.has, res, f.kids)
      <4> HIDE DEF f, res
      <4> QED  BY Zenon, <1>2, Remakes
    <3>2. Await(c, g)
      BY <2>4
    <3> HIDE DEF g, res
    <3>4. Kept(K, g, r) /\ Ready(K, g)
      <4> HIDE DEF f, r, K
      <4> QED  BY <1>1, <1>5, <2>2, <2>4, <3>1 DEF Kept, Ready, Remade
    <3> QED  BY <1>1, <2>4, <3>1, <3>2, <3>4, AwaitTo
  <2>5. CASE Throw(c, "EISDIR")
    BY <1>8, <2>5 DEF Codes
  <2>6. CASE /\ f.res.t = "dir" /\ f.o.rec
             /\ Invoke(c, [f EXCEPT !.pc = "mkdir", !.res = None],
                       Enter(Req("mkdir", f.q, Root, f.o)))
             /\ UNCHANGED <<memory, deleted>>
    <3> DEFINE g == [f EXCEPT !.pc = "mkdir", !.res = None]
               e == Req("mkdir", f.q, Root, f.o)
    <3>1. Remade(g, f, "mkdir", f.has, None, f.kids)
      <4> HIDE DEF f
      <4> QED  BY Zenon, <1>2, Remakes
    <3>2. /\ e \in Reqs /\ e.op = "mkdir" /\ e.p = f.q /\ e.o = f.o
          /\ e.op \notin {"append", "write", "mv"}
      <4>1. <<>> \in Seq(Names)
        OBVIOUS
      <4> HIDE DEF f
      <4> QED  BY <1>3, <4>1 DEF Req, Reqs, Root, OpNames, Paths
    <3>3. Invoke(c, g, Enter(e))
      BY <2>6
    <3>4. K[f.p] = "dir" /\ K[f.q] \in {"err", "dir"}
      BY <1>6, <2>2, <2>6
    <3> HIDE DEF g, e
    <3>5. Kept(K, g, r)
      <4> HIDE DEF f, r, K
      <4> QED  BY <1>1, <1>5, <2>6, <3>1, <3>4 DEF Kept, Remade
    <3>6. ASSUME NEW h \in Frames(Contents), Fresh(h, e)
          PROVE  /\ Kept(K, h, r) /\ Ready(K, h)
                 /\ CalledBy(K, h, g) /\ Over(h, g)
      <4>1. /\ h.op = "mkdir" /\ h.p = f.q /\ h.o.rec /\ h.pc = "exists"
            /\ h.has = Visible(f.q)
        BY <2>6, <3>2, <3>6 DEF Fresh
      <4>2. Visible(f.q) <=> K[f.q] # "err"
        <5> HIDE DEF f
        <5> QED  BY <1>3, <1>4, KindIs
      <4>3. g.op = "cp" /\ g.pc = "mkdir" /\ h.p = g.q
        BY <1>1, <3>1, <4>1 DEF Remade
      <4>4. K[Moved(h.p, r.q, r.p)] = "dir"
        BY <1>5, <3>4, <4>1
      <4> HIDE DEF f, r, K
      <4>5. Kept(K, h, r) /\ Ready(K, h)
        BY <1>5, <2>2, <3>4, <4>1, <4>2, <4>4 DEF Kept, Ready
      <4> QED  BY <4>1, <4>3, <4>5 DEF CalledBy, Over
    <3> QED  BY <1>1, <2>6, <3>1, <3>2, <3>3, <3>5, <3>6, InvokeTo
  <2> QED  BY <1>11, <2>3, <2>4, <2>5, <2>6 DEF CpStat
<1>12. CASE CpRead(c)
  <2>1. f.pc = "read"
    BY <1>12 DEF CpRead, Runs, At
  <2>2. Creates(K, f.q) /\ K[f.p] \notin {"err", "dir"} /\ f.res.t \in {"file", "err"}
    BY <1>1, <1>2, <2>1 DEF Ready, Shaped
  <2>3. CASE f.res.t # "file" /\ Throw(c, f.res.e)
    BY <1>8, <1>9, <2>2, <2>3
  <2>4. CASE /\ f.res.t = "file"
             /\ Put(f.q, File(f.res.c, "default")) /\ Return(c, "ok")
    <3> DEFINE n == File(f.res.c, "default")
               q == f.q
    <3>1. Contents' = Contents
      BY SameContents
    <3>2. n \in Entry(Contents', LinkTargets) /\ n.t = "file"
      <4>1. f.res.c \in Seq(Contents)
        <5> HIDE DEF f
        <5> QED  BY <1>3, <2>4, AnswerIs
      <4> HIDE DEF f
      <4> QED  BY <3>1, <4>1, EntriesTyped DEF File, Modes
    <3>3. MayRaise(K, q, "file")
      BY <1>3, <1>6, <2>2 DEF MayRaise
    <3>4. Put(q, n) /\ Contents \subseteq Contents'
      BY <2>4, <3>1
    <3>5. Raised(K, Kinds', q, "file") /\ Tidy'
      <4> HIDE DEF n, q
      <4> QED  BY <1>4, <3>2, <3>3, <3>4, PutRaised
    <3>6. /\ Under(q, r.q) /\ K[Moved(q, r.q, r.p)] # "err"
          /\ "file" = "dir" <=> K[Moved(q, r.q, r.p)] = "dir"
      BY <1>5, <2>2
    <3> HIDE DEF q
    <3> QED  BY <1>1, <2>4, <3>3, <3>5, <3>6, ReturnRaised
  <2> QED  BY <1>12, <2>3, <2>4 DEF CpRead
<1>13. CASE CpMkdir(c)
  <2>1. f.pc = "mkdir"
    BY <1>13 DEF CpMkdir, Runs, At
  <2>2. K[f.p] = "dir" /\ f.o.rec /\ K[f.q] = "dir"
    BY <1>1, <1>2, <2>1 DEF Kept, Ready
  <2>3. CASE Throw(c, "ENOENT")
    BY <1>8, <2>3 DEF Codes
  <2>4. CASE /\ Await(c, [f EXCEPT !.pc = "list", !.res = None, !.kids = Readdir(f.p).kids])
             /\ UNCHANGED <<memory, deleted>>
    <3> DEFINE kids == Readdir(f.p).kids
               g == [f EXCEPT !.pc = "list", !.res = None, !.kids = kids]
    <3>1. Remade(g, f, "list", f.has, None, kids)
      <4> HIDE DEF f, kids
      <4> QED  BY Zenon, <1>2, Remakes
    <3>2. Await(c, g)
      BY <2>4
    <3> HIDE DEF g, kids
    <3>3. Kept(K, g, r) /\ Ready(K, g)
      <4> HIDE DEF f, r, K
      <4> QED  BY <1>1, <1>5, <2>2, <3>1 DEF Kept, Ready, Remade
    <3> QED  BY <1>1, <2>4, <3>1, <3>2, <3>3, AwaitTo
  <2> QED  BY <1>13, <2>3, <2>4 DEF CpMkdir
<1>14. CASE CpList(c)
  <2>1. f.pc = "list"
    BY <1>14 DEF CpList, Runs, At
  <2>2. K[f.p] = "dir" /\ f.o.rec /\ K[f.q] = "dir"
    BY <1>1, <1>2, <2>1 DEF Kept
  <2>3. CASE f.ret # "ok" /\ Throw(c, f.ret)
    BY <1>3, <1>8, <2>3
  <2>4. CASE Throw(c, "ok")
    BY <1>8, <2>4 DEF Codes
  <2>5. CASE /\ f.kids # <<>>
             /\ Invoke(c, [f EXCEPT !.kids = Tail(@)],
                       Enter(Req("cp", Child(f.p, Head(f.kids)), Child(f.q, Head(f.kids)), f.o)))
             /\ UNCHANGED <<memory, deleted>>
    <3> DEFINE k == Head(f.kids)
               kids == Tail(f.kids)
               x == Child(f.p, k)
               y == Child(f.q, k)
               g == [f EXCEPT !.kids = kids]
               e == Req("cp", x, y, f.o)
    <3>1. Remade(g, f, "list", f.has, f.res, kids)
      <4>1. Remade(g, f, f.pc, f.has, f.res, kids)
        <5> HIDE DEF f, kids
        <5> QED  BY Zenon, <1>2, Remakes
      <4> QED  BY <2>1, <4>1
    <3>2. k \in Names
      <4> HIDE DEF f
      <4> QED  BY <1>3, <2>5, HeadIs
    <3> HIDE DEF k, kids
    <3>3. x \in Paths /\ y \in Paths
      <4> HIDE DEF f
      <4> QED  BY <1>3, <3>2, ChildIs DEF Paths
    <3>4. Under(x, r.p) /\ Under(y, r.q) /\ x = Moved(y, r.q, r.p)
      <4> HIDE DEF f, r
      <4>1. Under(x, r.p) /\ Under(y, r.q)
        BY <1>2, <1>3, <1>5, <3>2, ChildUnder DEF Paths
      <4>2. \A m \in Names : Moved(Child(f.q, m), r.q, r.p) = Child(Moved(f.q, r.q, r.p), m)
        BY <1>2, <1>3, <1>5, MovedChild DEF Paths
      <4> QED  BY <1>5, <3>2, <4>1, <4>2
    <3>5. Creates(K, y)
      <4> HIDE DEF f, K
      <4> SUFFICES ASSUME NEW d \in Ancestors(y)
                   PROVE  K[d] = "dir"
        BY DEF Creates
      <4>1. d = f.q \/ d \in Ancestors(f.q)
        BY <1>3, <3>2, AboveChild DEF Paths
      <4> QED  BY <1>3, <1>4, <2>2, <4>1 DEF Hangs
    <3>6. /\ e \in Reqs /\ e.op = "cp" /\ e.p = x /\ e.q = y /\ e.o = f.o
          /\ e.op \notin {"append", "write", "mv"}
      <4> HIDE DEF f, x, y
      <4> QED  BY <1>3, <3>3 DEF Req, Reqs, OpNames, Paths
    <3>7. Invoke(c, g, Enter(e))
      BY <2>5 DEF k, kids
    <3> HIDE DEF g, e
    <3>8. Kept(K, g, r)
      <4> HIDE DEF f, r, K
      <4> QED  BY <1>1, <1>5, <2>2, <3>1 DEF Kept, Remade
    <3>9. ASSUME NEW h \in Frames(Contents), Fresh(h, e)
          PROVE  /\ Kept(K, h, r) /\ Ready(K, h)
                 /\ CalledBy(K, h, g) /\ Over(h, g)
      <4>1. /\ h.op = "cp" /\ h.p = x /\ h.q = y /\ h.pc = "exists" /\ h.has = Visible(x)
        BY <3>6, <3>9 DEF Fresh
      <4>2. Visible(x) <=> K[x] # "err"
        <5> HIDE DEF f, x
        <5> QED  BY <1>4, <3>3, KindIs
      <4>3. g.op = "cp" /\ g.pc = "list"
        BY <1>1, <3>1 DEF Remade
      <4> HIDE DEF f, r, K, x, y
      <4>4. Kept(K, h, r) /\ Ready(K, h)
        BY <1>5, <3>4, <3>5, <4>1, <4>2 DEF Kept, Ready
      <4> QED  BY <4>1, <4>3, <4>4 DEF CalledBy, Over
    <3> QED  BY <1>1, <2>5, <3>1, <3>6, <3>7, <3>8, <3>9, InvokeTo
  <2> QED  BY <1>14, <2>3, <2>4, <2>5 DEF CpList
<1> QED
  BY <1>10, <1>11, <1>12, <1>13, <1>14

\* The steps of mv.
LEMMA MvClean ==
  ASSUME IInv, IInv', Clean, NEW c \in Callers, MvCopied(c) \/ MvRemoved(c),
         UNCHANGED <<made, calm>>
  PROVE  Clean'
<1> DEFINE f == Top(c)
           r == calls[c].req
           K == Kinds
<1>1. Busy(c) /\ f.op = "mv" /\ Rest(c) = <<>>
  BY Lonely DEF MvCopied, MvRemoved, Runs, At
<1>2. f \in Frames(Contents) /\ Layers
  BY <1>1, TopSound DEF IInv
<1>3. f.p \in Paths /\ f.ret \in Codes
  <2> HIDE DEF f
  <2> QED  BY <1>2 DEF Frames, Paths
<1>4. CASE Throw(c, f.ret)
  BY <1>1, <1>3, <1>4, ThrowClean
<1>5. CASE /\ Invoke(c, [f EXCEPT !.pc = "rm"], Enter(Req("rm", f.p, Root, Recursive)))
           /\ UNCHANGED <<memory, deleted>>
  <2> DEFINE g == [f EXCEPT !.pc = "rm"]
             e == Req("rm", f.p, Root, Recursive)
  <2>1. Remade(g, f, "rm", f.has, f.res, f.kids)
    <3> HIDE DEF f
    <3> QED  BY Zenon, <1>2, Remakes
  <2>2. /\ e \in Reqs /\ e.op = "rm" /\ e.p = f.p /\ e.o.rec
        /\ e.op \notin {"append", "write", "mv"}
    <3>1. <<>> \in Seq(Names)
      OBVIOUS
    <3> HIDE DEF f
    <3> QED  BY <1>3, <3>1 DEF Req, Reqs, Root, OpNames, Options, Recursive, Paths
  <2>3. Invoke(c, g, Enter(e))
    BY <1>5
  <2> HIDE DEF g, e
  <2>4. Kept(K, g, r) /\ g.op = "mv" /\ g.pc = "rm"
    <3> HIDE DEF f, r, K
    <3> QED  BY <1>1, <2>1 DEF Kept, Remade
  <2>5. ASSUME NEW h \in Frames(Contents), Fresh(h, e)
        PROVE  /\ Kept(K, h, r) /\ Ready(K, h)
               /\ CalledBy(K, h, g) /\ Over(h, g)
    <3>1. /\ h.op = "rm" /\ h.p = f.p /\ h.o.rec /\ h.pc = "exists" /\ h.ret = "ok"
          /\ h.has = Visible(f.p)
      BY <2>2, <2>5 DEF Fresh
    <3>2. Visible(f.p) <=> K[f.p] # "err"
      <4> HIDE DEF f
      <4> QED  BY <1>2, <1>3, KindIs
    <3> HIDE DEF f, r, K
    <3>3. Kept(K, h, r) /\ Ready(K, h)
      BY <3>1, <3>2 DEF Kept, Ready
    <3> QED  BY <2>4, <3>1, <3>3 DEF CalledBy, Over
  <2> QED  BY <1>1, <1>5, <2>1, <2>2, <2>3, <2>4, <2>5, InvokeTo
<1> QED
  BY <1>4, <1>5 DEF MvCopied, MvRemoved

\* A lonely invocation throws, goes on waiting, or puts an entry and ends.
LEMMA LonelyThrow ==
  ASSUME IInv, Clean, NEW c \in Callers, Busy(c), Top(c).op \notin {"mkdir", "cp", "rm"},
         NEW out \in Codes, Throw(c, out)
  PROVE  Clean'
BY Lonely, ThrowClean

LEMMA LonelyAwait ==
  ASSUME IInv, IInv', Clean, NEW c \in Callers, Busy(c), UNCHANGED <<memory, deleted, made>>,
         NEW g, NEW pc, NEW has, NEW res, NEW kids, Remade(g, Top(c), pc, has, res, kids),
         Top(c).op \notin {"mkdir", "cp", "rm"}, pc # "exists", Ready(Kinds, g), Await(c, g)
  PROVE  Clean'
<1>1. Kept(Kinds, g, calls[c].req)
  BY DEF Remade, Kept
<1> QED
  BY <1>1, AwaitTo

LEMMA LonelyPut ==
  ASSUME IInv, Clean, NEW c \in Callers, Busy(c), Top(c).op \notin {"mkdir", "cp", "rm"},
         NEW p, NEW n \in Entry(Contents, LinkTargets), MayRaise(Kinds, p, n.t), Put(p, n),
         Return(c, "ok"), UNCHANGED made
  PROVE  Clean'
<1>1. Contents' = Contents
  BY SameContents
<1>2. Layers /\ Tidy /\ Hangs(Kinds)
  BY DEF IInv, Clean
<1>3. n \in Entry(Contents', LinkTargets) /\ Contents \subseteq Contents'
  BY <1>1
<1>4. Raised(Kinds, Kinds', p, n.t) /\ Tidy'
  BY <1>2, <1>3, PutRaised
<1> QED
  BY <1>4, ReturnRaised

\* The steps of chmod and utimes.
LEMMA AttrClean ==
  ASSUME IInv, IInv', Clean, NEW c \in Callers, NEW op \in {"chmod", "utimes"},
         AttrExists(c, op) \/ AttrStat(c, op) \/ AttrRead(c, op), UNCHANGED <<made, calm>>
  PROVE  Clean'
<1> DEFINE f == Top(c)
           K == Kinds
<1>1. Busy(c) /\ f.op = op /\ Rest(c) = <<>>
  BY Lonely DEF AttrExists, AttrStat, AttrRead, Runs, At
<1>2. f \in Frames(Contents) /\ Shaped(f, Contents) /\ Ready(K, f)
  BY <1>1, TopSound
<1>3. f.p \in Paths /\ f.res \in Answer(Contents)
  <2> HIDE DEF f
  <2> QED  BY <1>2 DEF Frames, Paths
<1>4. Layers /\ Tidy
  BY DEF IInv, Clean
<1>5. K[f.p] # "link"
  BY <1>1, <1>2 DEF Ready
<1>6. ASSUME NEW out \in Codes, Throw(c, out)
      PROVE  Clean'
  BY <1>1, <1>6, LonelyThrow
<1>7. f.res.t = "err" => f.res.e \in Codes
  <2> HIDE DEF f
  <2> QED  BY <1>3, AnswerIs
<1>8. ASSUME Kinds' = K /\ Tidy', Return(c, "ok")
      PROVE  Clean'
  BY <1>1, <1>8, ReturnSame DEF Codes
<1>9. ASSUME NEW n, n.t = K[f.p], K[f.p] # "err", CopyUp(f.p, n), Return(c, "ok")
      PROVE  Clean'
  <2>1. Kinds' = K /\ Tidy'
    <3> HIDE DEF f
    <3> QED  BY <1>3, <1>4, <1>9, CopyUpSame
  <2> QED  BY <1>8, <1>9, <2>1
<1>10. CASE AttrExists(c, op)
  <2>1. f.pc = "exists"
    BY <1>10 DEF AttrExists, Runs, At
  <2>2. f.has => K[f.p] # "err"
    BY <1>1, <1>2, <2>1 DEF Ready
  <2>3. CASE Throw(c, "ENOENT")
    BY <1>6, <2>3 DEF Codes
  <2>4. CASE /\ f.p \in DOMAIN memory
             /\ memory' = [memory EXCEPT ![f.p].m = Touched(op, @)]
             /\ UNCHANGED deleted /\ Return(c, "ok")
    <3> DEFINE m == Touched(op, memory[f.p].m)
    <3>1. memory' = [memory EXCEPT ![f.p].m = m]
      BY <2>4
    <3>2. Kinds' = K /\ Tidy'
      <4> HIDE DEF f, m
      <4> QED  BY <1>4, <2>4, <3>1, AttrSame
    <3> QED  BY <1>8, <2>4, <3>2
  <2>5. CASE /\ f.has
             /\ Await(c, [f EXCEPT !.pc = "stat", !.res = Stat(f.p)])
             /\ UNCHANGED <<memory, deleted>>
    <3> DEFINE res == Stat(f.p)
               g == [f EXCEPT !.pc = "stat", !.res = res]
    <3>1. Remade(g, f, "stat", f.has, res, f.kids)
      <4> HIDE DEF f, res
      <4> QED  BY Zenon, <1>2, Remakes
    <3>2. Await(c, g)
      BY <2>5
    <3>3. res.t = K[f.p]
      <4> HIDE DEF f
      <4> QED  BY <1>3, <1>4, <1>5, StatKind
    <3> HIDE DEF g, res
    <3>4. Ready(K, g)
      <4> HIDE DEF f, K
      <4> QED  BY <1>1, <1>5, <2>2, <2>5, <3>1, <3>3 DEF Ready, Remade
    <3> QED  BY <1>1, <2>5, <3>1, <3>2, <3>4, LonelyAwait
  <2> QED  BY <1>10, <2>3, <2>4, <2>5 DEF AttrExists
<1>11. CASE AttrStat(c, op)
  <2>1. f.pc = "stat"
    BY <1>11 DEF AttrStat, Runs, At
  <2>2. K[f.p] # "err" /\ f.res.t \in {"err", K[f.p]}
    BY <1>1, <1>2, <2>1 DEF Ready
  <2>3. CASE f.res.t = "err" /\ Throw(c, f.res.e)
    BY <1>6, <1>7, <2>3
  <2>4. CASE /\ f.res.t = "file"
             /\ Await(c, [f EXCEPT !.pc = "read", !.kids = <<f.res.m>>, !.res = Read(f.p)])
             /\ UNCHANGED <<memory, deleted>>
    <3> DEFINE res == Read(f.p)
               kids == <<f.res.m>>
               g == [f EXCEPT !.pc = "read", !.kids = kids, !.res = res]
    <3>1. Remade(g, f, "read", f.has, res, kids)
      <4> HIDE DEF f, res, kids
      <4> QED  BY Zenon, <1>2, Remakes
    <3>2. Await(c, g)
      BY <2>4
    <3> HIDE DEF g, res, kids
    <3>3. Ready(K, g)
      <4> HIDE DEF f, K
      <4> QED  BY <1>1, <1>5, <2>2, <2>4, <3>1 DEF Ready, Remade
    <3> QED  BY <1>1, <2>4, <3>1, <3>2, <3>3, LonelyAwait
  <2>5. CASE /\ f.res.t = "dir"
             /\ CopyUp(f.p, Dir(Touched(op, f.res.m))) /\ Return(c, "ok")
    <3> DEFINE n == Dir(Touched(op, f.res.m))
    <3>1. n.t = K[f.p]
      BY <2>2, <2>5 DEF Dir
    <3>2. CopyUp(f.p, n)
      BY <2>5
    <3> HIDE DEF n
    <3> QED  BY <1>9, <2>2, <2>5, <3>1, <3>2
  <2> QED  BY <1>11, <2>3, <2>4, <2>5 DEF AttrStat
<1>12. CASE AttrRead(c, op)
  <2>1. f.pc = "read"
    BY <1>12 DEF AttrRead, Runs, At
  <2>2. K[f.p] = "file" /\ f.res.t \in {"file", "err"}
    BY <1>1, <1>2, <2>1 DEF Ready, Shaped
  <2>3. CASE f.res.t # "file" /\ Throw(c, f.res.e)
    BY <1>6, <1>7, <2>2, <2>3
  <2>4. CASE CopyUp(f.p, File(f.res.c, Touched(op, f.kids[1]))) /\ Return(c, "ok")
    <3> DEFINE n == File(f.res.c, Touched(op, f.kids[1]))
    <3>1. n.t = K[f.p]
      BY <2>2 DEF File
    <3>2. CopyUp(f.p, n)
      BY <2>4
    <3> HIDE DEF n
    <3> QED  BY <1>9, <2>2, <2>4, <3>1, <3>2
  <2> QED  BY <1>12, <2>3, <2>4 DEF AttrRead
<1> QED
  BY <1>10, <1>11, <1>12

\* The steps of writeFile after its first, and those of appendFile.
LEMMA WriteClean ==
  ASSUME IInv, IInv', Clean, NEW c \in Callers, Written(c) \/ AppendRead(c),
         UNCHANGED <<made, calm>>
  PROVE  Clean'
<1>1. CASE Written(c)
  BY <1>1, LonelyThrow DEF Written, Runs, At, Codes
<1>2. CASE AppendRead(c)
  <2> DEFINE f == Top(c)
             old == IF f.res.t = "file" THEN f.res.c ELSE <<>>
             n == File(Append(old, calls[c].id), "default")
             p == f.p
             K == Kinds
  <2>1. Busy(c) /\ f.op = "append" /\ Put(p, n) /\ Return(c, "ok")
    BY <1>2 DEF AppendRead, Runs, At
  <2>2. f \in Frames(Contents) /\ calls[c].id \in Contents
    BY <2>1, BusyTop DEF IInv
  <2>3. old \in Seq(Contents) /\ p \in Paths
    <3>1. f.res \in Answer(Contents) /\ <<>> \in Seq(Contents) /\ f.p \in Paths
      <4> HIDE DEF f
      <4> QED  BY <2>2 DEF Frames, Paths
    <3> QED  BY <3>1, AnswerIs
  <2>4. n \in Entry(Contents, LinkTargets) /\ n.t = "file"
    <3> HIDE DEF old
    <3>1. Append(old, calls[c].id) \in Seq(Contents)
      BY <2>2, <2>3, AppendProperties
    <3> QED  BY <3>1, EntriesTyped DEF Modes, File
  <2>5. Ready(K, f)
    BY <2>1, TopSound
  <2>6. MayRaise(K, p, n.t)
    BY <2>1, <2>3, <2>4, <2>5 DEF MayRaise, Ready
  <2>7. Top(c).op \notin {"mkdir", "cp", "rm"}
    BY <2>1
  <2> HIDE DEF f, n, p
  <2> QED  BY <2>1, <2>4, <2>6, <2>7, LonelyPut
<1> QED
  BY <1>1, <1>2

\* The steps of symlink and link.
LEMMA LinkClean ==
  ASSUME IInv, IInv', Clean, NEW c \in Callers,
         SymlinkExists(c) \/ LinkExists(c) \/ LinkStat(c) \/ LinkNew(c) \/ LinkRead(c),
         UNCHANGED <<made, calm>>
  PROVE  Clean'
<1> DEFINE f == Top(c)
           K == Kinds
<1>1. Busy(c) /\ f.op \in {"symlink", "link"} /\ f.op \notin {"mkdir", "cp", "rm"}
  BY DEF SymlinkExists, LinkExists, LinkStat, LinkNew, LinkRead, Runs, At
<1>2. f \in Frames(Contents) /\ Shaped(f, Contents) /\ Ready(K, f)
  BY <1>1, TopSound
<1>3. f.p \in Paths /\ f.q \in Paths /\ f.res \in Answer(Contents)
  <2> HIDE DEF f
  <2> QED  BY <1>2 DEF Frames, Paths
<1>4. ASSUME NEW out \in Codes, Throw(c, out)
      PROVE  Clean'
  BY <1>1, <1>4, LonelyThrow
<1>5. f.res.t = "err" => f.res.e \in Codes
  <2> HIDE DEF f
  <2> QED  BY <1>3, AnswerIs
<1>6. CASE SymlinkExists(c)
  <2>1. f.op = "symlink" /\ f.q \in LinkTargets /\ Creates(K, f.p) /\ K[f.p] # "dir"
    BY <1>2, <1>6 DEF SymlinkExists, Runs, At, Shaped, Ready
  <2>2. CASE Throw(c, "EEXIST")
    BY <1>4, <2>2 DEF Codes
  <2>3. CASE Put(f.p, Link(f.q)) /\ Return(c, "ok")
    <3> DEFINE n == Link(f.q)
               p == f.p
    <3>1. n \in Entry(Contents, LinkTargets)
      BY <2>1, EntriesTyped DEF Modes
    <3>2. MayRaise(K, p, n.t) /\ Put(p, n)
      BY <1>3, <2>1, <2>3 DEF MayRaise
    <3> HIDE DEF n, p
    <3> QED  BY <1>1, <2>3, <3>1, <3>2, LonelyPut
  <2> QED  BY <1>6, <2>2, <2>3 DEF SymlinkExists
<1>7. CASE LinkExists(c) \/ LinkStat(c) \/ LinkNew(c) \/ LinkRead(c)
  <2>1. f.op = "link" /\ Creates(K, f.q) /\ K[f.q] # "dir"
    BY <1>2, <1>7 DEF LinkExists, LinkStat, LinkNew, LinkRead, Runs, At, Ready
  <2>2. ASSUME NEW g, NEW pc, NEW has, NEW res, NEW kids, Remade(g, f, pc, has, res, kids),
               pc # "exists", Await(c, g), UNCHANGED <<memory, deleted>>
        PROVE  Clean'
    <3>1. Ready(K, g)
      <4> HIDE DEF f, K
      <4> QED  BY <2>1, <2>2 DEF Ready, Remade
    <3> QED  BY <1>1, <2>2, <3>1, LonelyAwait
  <2>3. CASE LinkExists(c)
    <3>1. CASE Throw(c, "ENOENT")
      BY <1>4, <3>1 DEF Codes
    <3>2. CASE /\ Await(c, [f EXCEPT !.pc = "stat", !.res = Stat(f.p)])
               /\ UNCHANGED <<memory, deleted>>
      <4> DEFINE res == Stat(f.p)
                 g == [f EXCEPT !.pc = "stat", !.res = res]
      <4>1. Remade(g, f, "stat", f.has, res, f.kids)
        <5> HIDE DEF f, res
        <5> QED  BY Zenon, <1>2, Remakes
      <4>2. Await(c, g)
        BY <3>2
      <4> HIDE DEF g, res
      <4> QED  BY <2>2, <3>2, <4>1, <4>2
    <3> QED  BY <2>3, <3>1, <3>2 DEF LinkExists
  <2>4. CASE LinkStat(c)
    <3>1. CASE f.res.t = "err" /\ Throw(c, f.res.e)
      BY <1>4, <1>5, <3>1
    <3>2. CASE Throw(c, "EPERM")
      BY <1>4, <3>2 DEF Codes
    <3>3. CASE /\ Await(c, [f EXCEPT !.pc = "new", !.kids = <<f.res.m>>, !.has = Visible(f.q)])
               /\ UNCHANGED <<memory, deleted>>
      <4> DEFINE has == Visible(f.q)
                 kids == <<f.res.m>>
                 g == [f EXCEPT !.pc = "new", !.kids = kids, !.has = has]
      <4>1. Remade(g, f, "new", has, f.res, kids)
        <5> HIDE DEF f, has, kids
        <5> QED  BY Zenon, <1>2, Remakes
      <4>2. Await(c, g)
        BY <3>3
      <4> HIDE DEF g, has, kids
      <4> QED  BY <2>2, <3>3, <4>1, <4>2
    <3> QED  BY <2>4, <3>1, <3>2, <3>3 DEF LinkStat
  <2>5. CASE LinkNew(c)
    <3>1. CASE Throw(c, "EEXIST")
      BY <1>4, <3>1 DEF Codes
    <3>2. CASE /\ Await(c, [f EXCEPT !.pc = "read", !.res = Read(f.p)])
               /\ UNCHANGED <<memory, deleted>>
      <4> DEFINE res == Read(f.p)
                 g == [f EXCEPT !.pc = "read", !.res = res]
      <4>1. Remade(g, f, "read", f.has, res, f.kids)
        <5> HIDE DEF f, res
        <5> QED  BY Zenon, <1>2, Remakes
      <4>2. Await(c, g)
        BY <3>2
      <4> HIDE DEF g, res
      <4> QED  BY <2>2, <3>2, <4>1, <4>2
    <3> QED  BY <2>5, <3>1, <3>2 DEF LinkNew
  <2>6. CASE LinkRead(c)
    <3>1. f.kids # <<>> /\ f.kids \in Seq(Modes) /\ f.res.t \in {"file", "err"}
      BY <1>2, <2>6 DEF LinkRead, Runs, At, Shaped
    <3>2. CASE f.res.t # "file" /\ Throw(c, f.res.e)
      BY <1>4, <1>5, <3>1, <3>2
    <3>3. CASE /\ f.res.t = "file"
               /\ Put(f.q, File(f.res.c, f.kids[1])) /\ Return(c, "ok")
      <4> DEFINE n == File(f.res.c, f.kids[1])
                 p == f.q
      <4>1. f.kids[1] \in Modes
        BY <3>1, EmptySeq, LenProperties, ElementOfSeq
      <4>2. f.res.c \in Seq(Contents)
        BY <1>3, <3>3, AnswerIs
      <4>3. n \in Entry(Contents, LinkTargets) /\ n.t = "file"
        <5> HIDE DEF f
        <5> QED  BY <4>1, <4>2, EntriesTyped DEF File
      <4>4. MayRaise(K, p, n.t) /\ Put(p, n)
        BY <1>3, <2>1, <3>3, <4>3 DEF MayRaise
      <4> HIDE DEF n, p
      <4> QED  BY <1>1, <3>3, <4>3, <4>4, LonelyPut
    <3> QED  BY <2>6, <3>2, <3>3 DEF LinkRead
  <2> QED  BY <1>7, <2>3, <2>4, <2>5, <2>6
<1> QED
  BY <1>6, <1>7

LEMMA StepClean ==
  ASSUME IInv, IInv', Clean, NEW c \in Callers, Step(c), UNCHANGED <<made, calm>>
  PROVE  Clean'
<1>1. CASE Written(c) \/ AppendRead(c)
  BY <1>1, WriteClean
<1>2. CASE MkdirExists(c) \/ MkdirParent(c) \/ MkdirMade(c)
  BY <1>2, MkdirClean
<1>3. CASE RmExists(c) \/ RmStat(c) \/ RmList(c)
  BY <1>3, RmClean
<1>4. CASE CpExists(c) \/ CpStat(c) \/ CpRead(c) \/ CpMkdir(c) \/ CpList(c)
  BY <1>4, CpClean
<1>5. CASE MvCopied(c) \/ MvRemoved(c)
  BY <1>5, MvClean
<1>6. CASE \E op \in {"chmod", "utimes"} :
             AttrExists(c, op) \/ AttrStat(c, op) \/ AttrRead(c, op)
  BY <1>6, AttrClean
<1>7. CASE \/ SymlinkExists(c)
           \/ LinkExists(c) \/ LinkStat(c) \/ LinkNew(c) \/ LinkRead(c)
  BY <1>7, LinkClean
<1> QED
  BY <1>1, <1>2, <1>3, <1>4, <1>5, <1>6, <1>7 DEF Step

-----------------------------------------------------------------------------
(* Calls that begin.                                                       *)

\* Nobody names the root as the second operand of a copy, a move or a link.
LEMMA TargetIs ==
  ASSUME NEW r \in Requests, r.op \in {"cp", "mv", "link"}
  PROVE  r.q # Root
<1>1. r \in Request /\ Root \notin Targets
  BY TargetsAssumption DEF Requests
<1> DEFINE All == {NoOptions, Recursive, [rec |-> TRUE, force |-> TRUE]}
<1>2. \A A, B, C, D : r \in [op : A, p : B, q : C, o : D] => r.op \in A /\ r.q \in C
  BY RecordIs
<1>3. \/ r.op \in {"mkdir"}
      \/ r.op \in {"write", "append", "chmod", "utimes"}
      \/ r.op \in {"rm"}
      \/ r.op \in {"cp"} /\ r.q \in Targets
      \/ r.op \in {"mv", "link"} /\ r.q \in Targets
      \/ r.op \in {"symlink"}
  BY <1>1, <1>2 DEF Request
<1> QED
  BY <1>1, <1>3

\* The visible tree, by kinds.
LEMMA TreeKinds ==
  ASSUME Layers, Tidy
  PROVE  /\ DOMAIN Tree \subseteq Paths
         /\ \A x \in Paths : x \in DOMAIN Tree <=> Kinds[x] # "err"
         /\ \A x \in DOMAIN Tree : Tree[x].t = Kinds[x]
<1>1. DOMAIN Tree = {x \in Known : Visible(x)}
  BY DEF Tree
<1>2. Known \subseteq Paths
  BY LowerIsTree, TargetsAssumption DEF Known, Tidy, Paths
<1>3. \A x : Visible(x) => x \in Known
  BY DEF Visible, Known
<1>4. \A x \in DOMAIN Tree : Tree[x].t = Kinds[x]
  BY <1>1, <1>2, KindIs DEF Tree, Lstat
<1> QED
  BY <1>1, <1>2, <1>3, <1>4, KindIs

\* What the contract asks of the tree, by kinds.
LEMMA FitsKinds ==
  ASSUME Layers, Tidy, NEW p \in Paths, p # Root
  PROVE  /\ Exists(Tree, p) <=> Kinds[p] # "err"
         /\ IsDir(Tree, p) <=> Kinds[p] = "dir"
         /\ Creatable(Tree, p) => Creates(Kinds, p)
         /\ NoLinks(Tree, p) => \A x \in Paths : Under(x, p) => Kinds[x] # "link"
         /\ Inside(Tree, p) = {} => \A x \in Paths : Below(x, p) => Kinds[x] = "err"
<1>1. \A x \in Paths : x # Root =>
        /\ Exists(Tree, x) <=> Kinds[x] # "err"
        /\ IsDir(Tree, x) <=> Kinds[x] = "dir"
  BY TreeKinds DEF Exists, IsDir
<1>2. Creatable(Tree, p) => Creates(Kinds, p)
  <2>1. \A d \in Ancestors(p) : d \in Paths /\ d # Root
    BY AncestorPath
  <2> QED  BY <1>1, <2>1 DEF Creatable, Creates
<1>3. \A x \in Paths : Below(x, p) => (x \in Inside(Tree, p) <=> Kinds[x] # "err")
  BY TreeKinds DEF Inside
<1>4. ASSUME NoLinks(Tree, p), NEW x \in Paths, Under(x, p), Kinds[x] # "err"
      PROVE  Kinds[x] # "link"
  <2>1. x \in DOMAIN Tree
    BY <1>4, TreeKinds
  <2>2. x \in Inside(Tree, p) \cup {p}
    BY <1>3, <1>4 DEF Under, Below, IsStrictPrefix
  <2>3. Tree[x].t # "link"
    BY <1>4, <2>1, <2>2 DEF NoLinks, Exists
  <2> QED  BY <2>1, <2>3, TreeKinds
<1> QED
  BY <1>1, <1>2, <1>3, <1>4

(* What a well-formed request finds.                                       *)
Starts(K, r) ==
  /\ r.op = "mkdir" => Creates(K, r.p) /\ K[r.p] \in {"err", "dir"}
  /\ r.op \in {"write", "append", "symlink"} => Creates(K, r.p) /\ K[r.p] # "dir"
  /\ r.op = "rm" => r.o.rec \/ \A x \in Paths : Below(x, r.p) => K[x] = "err"
  /\ r.op \in {"cp", "mv"} => Copying(K, r) /\ Creates(K, r.q)
  /\ r.op = "link" => Creates(K, r.q) /\ K[r.q] # "dir"
  /\ r.op \in {"chmod", "utimes"} => K[r.p] # "link"

\* A copy finds no target, or a file for a target and a source.
LEMMA CopyStarts ==
  ASSUME NEW K, Hangs(K), NEW r, r.op \in {"cp", "mv"}, r.p \in Paths, r.q \in Paths,
         r.p # Root, r.q # Root, ~Under(r.p, r.q), ~Under(r.q, r.p),
         \A x \in Paths : Under(x, r.p) => K[x] # "link",
         K[r.q] # "dir", K[r.p] = "dir" => K[r.q] = "err"
  PROVE  Copying(K, r)
<1>1. \A x \in Paths : Below(x, r.q) => K[x] = "err"
  <2> DEFINE q == r.q
  <2>1. q \in Paths /\ q # Root /\ K[q] # "dir"
    OBVIOUS
  <2> HIDE DEF q
  <2>2. \A x \in Paths : Below(x, q) => K[x] = "err"
    BY <2>1, NoneBelow
  <2> QED  BY <2>2 DEF q
<1>2. Moved(r.q, r.q, r.p) = r.p
  BY MovedSelf DEF Paths
<1>3. ASSUME NEW x \in Paths, Under(x, r.q), K[x] # "err", K[Moved(x, r.q, r.p)] # "err"
      PROVE  K[x] = "dir" <=> K[Moved(x, r.q, r.p)] = "dir"
  <2>1. x = r.q
    BY <1>1, <1>3 DEF Below, Under, IsStrictPrefix
  <2> QED  BY <1>2, <1>3, <2>1
<1> QED
  BY <1>3 DEF Copying

LEMMA WellFormedStarts ==
  ASSUME Layers, Clean, NEW r \in Requests, WellFormed(Tree, r)
  PROVE  Starts(Kinds, r)
<1> DEFINE K == Kinds
           p == r.p
           q == r.q
<1>1. p \in Paths /\ q \in Paths /\ p # Root /\ Tidy /\ Hangs(K)
  BY RequestIs DEF Paths, Clean
<1>2. r.op \in {"cp", "mv", "link"} => q # Root
  BY TargetIs
<1>3. /\ Exists(Tree, p) <=> K[p] # "err"
      /\ IsDir(Tree, p) <=> K[p] = "dir"
      /\ Creatable(Tree, p) => Creates(K, p)
      /\ NoLinks(Tree, p) => \A x \in Paths : Under(x, p) => K[x] # "link"
      /\ Inside(Tree, p) = {} => \A x \in Paths : Below(x, p) => K[x] = "err"
  <2> HIDE DEF p
  <2> QED  BY <1>1, FitsKinds
<1>4. q # Root =>
      /\ Exists(Tree, q) <=> K[q] # "err"
      /\ IsDir(Tree, q) <=> K[q] = "dir"
      /\ Creatable(Tree, q) => Creates(K, q)
  <2> HIDE DEF q
  <2> QED  BY <1>1, FitsKinds
<1>5. K[p] \in {"dir", "file", "link", "err"}
  <2> HIDE DEF p
  <2> QED  BY <1>1, KindIs
<1>6. r.op = "mkdir" => Creates(K, p) /\ K[p] \in {"err", "dir"}
  BY <1>3, <1>5 DEF WellFormed
<1>7. r.op \in {"write", "append", "symlink"} => Creates(K, p) /\ K[p] # "dir"
  BY <1>3 DEF WellFormed, FileFits
<1>8. r.op = "rm" => r.o.rec \/ \A x \in Paths : Below(x, p) => K[x] = "err"
  BY <1>3 DEF WellFormed
<1>9. r.op \in {"cp", "mv"} => Copying(K, r) /\ Creates(K, q)
  <2> SUFFICES ASSUME r.op \in {"cp", "mv"}
               PROVE  Copying(K, r) /\ Creates(K, q)
    OBVIOUS
  <2>1. TreeFits(Tree, p, q) /\ ~Under(p, q) /\ NoLinks(Tree, p)
    BY DEF WellFormed
  <2>2. Creates(K, q) /\ K[q] # "dir" /\ (K[p] = "dir" => K[q] = "err")
    BY <1>2, <1>3, <1>4, <2>1 DEF TreeFits, FileFits
  <2>3. ~Under(q, p)
    <3>1. ~Below(q, p)
      BY DEF Requests
    <3>2. p # q
      <4>1. Under(p, p)
        BY <1>1, UnderSelf DEF Paths
      <4> QED  BY <2>1, <4>1
    <3> QED  BY <3>1, <3>2 DEF Below, Under, IsStrictPrefix
  <2>4. Copying(K, r)
    BY <1>1, <1>2, <1>3, <2>1, <2>2, <2>3, CopyStarts
  <2> QED  BY <2>2, <2>4
<1>10. r.op = "link" => Creates(K, q) /\ K[q] # "dir"
  BY <1>2, <1>4 DEF WellFormed, FileFits
<1>11. r.op \in {"chmod", "utimes"} => K[p] # "link"
  <2>1. Under(p, p)
    BY <1>1, UnderSelf DEF Paths
  <2> QED  BY <1>1, <1>3, <2>1 DEF WellFormed
<1> QED
  BY <1>6, <1>7, <1>8, <1>9, <1>10, <1>11 DEF Starts

\* One invocation, and a mv with its copy.
LEMMA SoundOne ==
  ASSUME NEW F, NEW f \in F, NEW K, NEW r, Kept(K, f, r), Ready(K, f)
  PROVE  Sound(K, <<f>>, r)
<1>1. \A i \in DOMAIN <<f>> : i = 1 /\ <<f>>[i] = f
  OBVIOUS
<1>2. Head(<<f>>) = f
  OBVIOUS
<1> QED
  BY <1>1, <1>2 DEF Sound, Waits

LEMMA SoundTwo ==
  ASSUME NEW F, NEW f \in F, NEW g \in F, NEW K, NEW r,
         Kept(K, f, r), Kept(K, g, r), Ready(K, f), Over(f, g), CalledBy(K, f, g)
  PROVE  Sound(K, <<f, g>>, r)
<1> DEFINE s == <<f, g>>
<1>1. DOMAIN s = {1, 2} /\ s[1] = f /\ s[2] = g /\ Head(s) = f
  OBVIOUS
<1> HIDE DEF s
<1>2. \A i, j \in DOMAIN s : i < j => i = 1 /\ j = 2
  BY <1>1
<1>3. \A i \in DOMAIN s : i > 1 => i = 2 /\ i - 1 = 1
  BY <1>1
<1>4. Waits(K, s, r)
  BY <1>1, <1>2, <1>3 DEF Waits
<1>5. Sound(K, s, r)
  BY <1>1, <1>4 DEF Sound
<1> QED
  BY <1>5 DEF s

\* The frames a call starts with are sound.
LEMMA StartsSound ==
  ASSUME Layers, NEW r \in Requests, r.op # "write", Starts(Kinds, r)
  PROVE  Sound(Kinds, Enter(r), r)
<1> DEFINE K == Kinds
<1>1. r \in Reqs /\ r.p \in Paths /\ r.q \in Paths /\ r.op \in OpNames
  BY RequestIs DEF Paths, Reqs
<1>2. Visible(r.p) <=> K[r.p] # "err"
  BY <1>1, KindIs
<1>3. r.op \in {"cp", "mv"} =>
        Under(r.p, r.p) /\ Under(r.q, r.q) /\ r.p = Moved(r.q, r.q, r.p)
  BY <1>1, UnderSelf, MovedSelf DEF Paths
<1>4. CASE r.op = "append"
  <2> DEFINE e == Frame("overlay", r, "read")
             res == Read(r.p)
             f == [e EXCEPT !.res = res]
  <2>1. e \in Frames(Contents) /\ e.op = r.op /\ e.p = r.p /\ res \in Answer(Contents)
    BY <1>1, FrameTyped, QueriesTyped DEF Awaits
  <2>2. Enter(r) = <<f>>
    BY <1>4 DEF Enter
  <2> HIDE DEF e, res
  <2>3. f \in Frames(Contents) /\ f.op = r.op /\ f.p = r.p
    BY <2>1 DEF Frames
  <2> HIDE DEF f
  <2>4. Kept(K, f, r) /\ Ready(K, f)
    BY <1>4, <2>3 DEF Kept, Ready, Starts
  <2> QED  BY <2>2, <2>3, <2>4, SoundOne
<1>5. CASE r.op = "mv"
  <2> DEFINE copy == Req("cp", r.p, r.q, Recursive)
             e == Frame("overlay", copy, "exists")
             has == Visible(r.p)
             f == [e EXCEPT !.has = has]
             g == Frame("overlay", r, "cp")
  <2>1. copy \in Reqs /\ copy.op = "cp" /\ copy.p = r.p /\ copy.q = r.q
    BY <1>1 DEF Req, Reqs, OpNames, Recursive, Options, Paths
  <2>2. /\ e \in Frames(Contents) /\ e.op = "cp" /\ e.p = r.p /\ e.q = r.q
        /\ e.pc = "exists" /\ has \in BOOLEAN
    <3> HIDE DEF copy
    <3> QED  BY <2>1, FrameTyped, QueriesTyped DEF Awaits
  <2>3. g \in Frames(Contents) /\ g.op = "mv" /\ g.pc = "cp"
    BY <1>1, <1>5, FrameTyped DEF Awaits
  <2>4. Enter(r) = <<f, g>>
    BY <1>5 DEF Enter
  <2>5. has <=> K[r.p] # "err"
    BY <1>2
  <2> HIDE DEF e, has, g
  <2>6. /\ f \in Frames(Contents) /\ f.op = "cp" /\ f.p = r.p /\ f.q = r.q
        /\ f.pc = "exists" /\ f.has = has
    BY <2>2 DEF Frames
  <2> HIDE DEF f, K
  <2>7. Copying(K, r) /\ Creates(K, r.q)
    BY <1>5 DEF Starts, K
  <2>8. Kept(K, f, r) /\ Ready(K, f)
    BY <1>3, <1>5, <2>5, <2>6, <2>7 DEF Kept, Ready
  <2>9. Kept(K, g, r) /\ Over(f, g) /\ CalledBy(K, f, g)
    BY <2>3, <2>6 DEF Kept, Over, CalledBy
  <2>10. Sound(K, <<f, g>>, r)
    BY <2>3, <2>6, <2>8, <2>9, SoundTwo
  <2> QED  BY <2>4, <2>10 DEF K
<1>6. CASE r.op \notin {"append", "write", "mv"}
  <2>1. PICK h \in Frames(Contents) : Enter(r) = <<h>> /\ Fresh(h, r)
    BY <1>1, <1>6, Entered
  <2>2. /\ h.op = r.op /\ h.p = r.p /\ h.q = r.q /\ h.o = r.o
        /\ h.pc = "exists" /\ h.ret = "ok" /\ (h.has <=> K[h.p] # "err")
    BY <1>2, <2>1 DEF Fresh
  <2> HIDE DEF K
  <2>3. Starts(K, r)
    BY DEF K
  <2>4. Kept(K, h, r)
    BY <1>3, <1>6, <2>2, <2>3 DEF Kept, Starts
  <2>5. Ready(K, h)
    BY <1>6, <2>2, <2>3 DEF Ready, Starts
  <2>6. Sound(K, <<h>>, r)
    BY <2>4, <2>5, SoundOne
  <2> QED  BY <2>1, <2>6 DEF K
<1> QED
  BY <1>4, <1>5, <1>6

\* A write is made when it is called.
LEMMA WriteSound ==
  ASSUME NEW K, NEW r \in Requests, r.op = "write"
  PROVE  Sound(K, Enter(r), r)
<1> DEFINE f == Frame("overlay", r, "written")
<1>1. f.op = "write" /\ Enter(r) = <<f>>
  BY DEF Frame, Enter
<1> HIDE DEF f
<1>2. Kept(K, f, r) /\ Ready(K, f)
  BY <1>1 DEF Kept, Ready
<1> QED
  BY <1>1, <1>2, SoundOne

LEMMA BeginClean ==
  ASSUME IInv, CalmInv, NEW c \in Callers, Begin(c)
  PROVE  CalmInv'
<1> SUFFICES ASSUME calm' PROVE Clean'
  BY DEF CalmInv
<1>1. PICK r \in Requests :
        /\ Call(c, r, Enter(r), Tree, Sensible(Tree, r))
        /\ IF r.op = "write" THEN Put(r.p, File(<<made'>>, "default"))
           ELSE UNCHANGED <<memory, deleted>>
  BY DEF Begin
<1>2. calm /\ Quiet /\ WellFormed(Tree, r)
  BY <1>1 DEF Call, Sensible
<1>3. Layers /\ Clean /\ Tidy /\ Hangs(Kinds)
  BY <1>2 DEF IInv, CalmInv, Clean
<1>4. Starts(Kinds, r)
  BY <1>2, <1>3, WellFormedStarts
<1>5. /\ calls'[c].stack = Enter(r) /\ calls'[c].req = r
      /\ \A d \in Callers : d # c => calls'[d] = calls[d]
  <2> DEFINE x == [stack |-> Enter(r), req |-> r, id |-> made', out |-> "none",
                   before |-> IF calm' THEN Tree ELSE <<>>]
  <2>1. calls' = [calls EXCEPT ![c] = x]
    BY <1>1 DEF Call
  <2>2. x.stack = Enter(r) /\ x.req = r
    OBVIOUS
  <2> HIDE DEF x
  <2> QED  BY <2>1, <2>2 DEF IInv, CallsInv, CallsFit
<1>6. Tidy' /\ Hangs(Kinds') /\ Sound(Kinds', Enter(r), r)
  <2>1. CASE r.op = "write"
    <3> DEFINE n == File(<<made'>>, "default")
               p == r.p
    <3>1. Contents \subseteq Contents' /\ made' \in Contents'
      <4>1. made \in Nat /\ MaxCalls \in Nat /\ made' = made + 1
        BY <1>1, CallsAssumption DEF Call, IInv, CallsInv, CallsOK
      <4> QED  BY <4>1, ContentsGrow DEF IInv, CallsInv
    <3>2. <<made'>> \in Seq(Contents')
      BY <3>1, SequenceOfOne
    <3>3. n \in Entry(Contents', LinkTargets) /\ n.t = "file"
      BY <3>2, EntriesTyped DEF Modes, File
    <3>4. MayRaise(Kinds, p, n.t)
      <4>1. p \in Paths
        BY RequestIs DEF Paths
      <4> QED  BY <1>4, <2>1, <3>3, <4>1 DEF MayRaise, Starts
    <3>5. Put(p, n)
      BY <1>1, <2>1
    <3> HIDE DEF n, p
    <3>6. Raised(Kinds, Kinds', p, n.t) /\ Tidy'
      BY <1>3, <3>1, <3>3, <3>4, <3>5, PutRaised
    <3>7. Hangs(Kinds')
      BY <1>3, <3>4, <3>6, RaisedHangs
    <3>8. Sound(Kinds', Enter(r), r)
      BY <2>1, WriteSound
    <3> QED  BY <3>6, <3>7, <3>8
  <2>2. CASE r.op # "write"
    <3>1. Kinds' = Kinds /\ Tidy'
      BY <1>1, <1>3, <2>2, SameLayers
    <3>2. Sound(Kinds, Enter(r), r)
      BY <1>3, <1>4, <2>2, StartsSound
    <3> QED  BY <1>3, <3>1, <3>2
  <2> QED  BY <2>1, <2>2
<1>7. \A d \in Callers : d # c => calls'[d].stack = <<>>
  BY <1>2, <1>5 DEF Quiet, Busy
<1>8. \A d \in Callers : Sound(Kinds', calls'[d].stack, calls'[d].req)
  BY <1>5, <1>6, <1>7, SoundEmpty
<1>9. \A d, e \in Callers : Busy(d)' /\ Busy(e)' => d = e
  BY <1>7 DEF Busy
<1> QED
  BY <1>6, <1>8, <1>9 DEF Clean

-----------------------------------------------------------------------------
(* The invariant of calm calls.                                            *)

LEMMA CalmBegins == Init => CalmInv
<1> SUFFICES ASSUME Init PROVE Clean
  BY DEF CalmInv
<1>1. IInv
  BY Begins
<1>2. DOMAIN memory = {Root} /\ deleted = {}
  BY DEF Init
<1>3. Tidy
  <2>1. <<>> \in Seq(Names)
    OBVIOUS
  <2> QED  BY <1>2, <2>1 DEF Tidy, Paths, Root
<1>4. \A c \in Callers : calls[c].stack = <<>>
  BY DEF Init, InitCalls, Idle
<1>5. ASSUME NEW x \in Paths, Kinds[x] # "err", NEW d \in Ancestors(x)
      PROVE  Kinds[d] = "dir"
  <2>1. d \in Paths /\ d # Root /\ x # Root
    <3>1. d \in Paths /\ d # Root /\ Len(d) \in 1 .. Len(x) - 1
      BY AncestorPath, AncestorIs DEF Paths
    <3>2. Len(<<>>) = 0
      OBVIOUS
    <3> QED  BY <3>1, <3>2 DEF Root
  <2>2. x \in DOMAIN Lower
    BY <1>1, <1>2, <1>5, <2>1, KindIs DEF IInv, Visible
  <2>3. d \in DOMAIN Lower /\ Lower[d].t = "dir"
    BY <2>2, LowerIsTree
  <2> QED  BY <1>1, <1>2, <2>1, <2>3, KindIs DEF IInv, Visible, Lstat, EntryAt
<1>6. Hangs(Kinds)
  BY <1>5 DEF Hangs
<1> QED
  BY <1>3, <1>4, <1>6, SoundEmpty DEF Clean, Busy

LEMMA CalmStutter ==
  ASSUME CalmInv, UNCHANGED vars
  PROVE  CalmInv'
<1> SUFFICES ASSUME calm' PROVE Clean'
  BY DEF CalmInv
<1>1. Clean /\ calls' = calls /\ Tidy' /\ Kinds' = Kinds
  BY SameLayers DEF CalmInv, vars, Clean
<1> QED
  BY <1>1 DEF Clean, Busy

LEMMA CalmStep ==
  ASSUME IInv, IInv', CalmInv, [Next]_vars
  PROVE  CalmInv'
<1>1. ASSUME NEW c \in Callers, Step(c), UNCHANGED <<made, calm>>
      PROVE  CalmInv'
  BY <1>1, StepClean DEF CalmInv
<1> QED
  BY <1>1, BeginClean, CalmStutter DEF Next, Finished

LEMMA CalmAlways == Spec => []CalmInv
<1>1. IInv /\ CalmInv /\ [Next]_vars => CalmInv'
  BY Inductive, CalmStep
<1> QED
  BY <1>1, CalmBegins, Always, PTL DEF Spec

LEMMA CalmHides == IInv /\ CalmInv => NothingHidden
<1> SUFFICES ASSUME IInv, CalmInv, calm, NEW x \in DOMAIN Tree, x # Root
             PROVE  IsDir(Tree, Parent(x))
  BY DEF NothingHidden, IsTree
<1>1. Layers /\ Tidy /\ Hangs(Kinds)
  BY DEF IInv, CalmInv, Clean
<1>2. x \in Paths /\ Kinds[x] # "err"
  BY <1>1, TreeKinds
<1>3. CASE Parent(x) = Root
  BY <1>3 DEF IsDir
<1>4. CASE Parent(x) # Root
  <2>1. Parent(x) \in Ancestors(x) /\ Parent(x) \in Paths
    BY <1>2, <1>4, ParentAbove DEF Paths
  <2>2. Kinds[Parent(x)] = "dir"
    BY <1>1, <1>2, <2>1 DEF Hangs
  <2> QED  BY <1>1, <1>4, <2>1, <2>2, FitsKinds
<1> QED
  BY <1>3, <1>4

(* While calls do not overlap, whatever was removed, recreated, moved or   *)
(* copied up before, and at every await of the call in progress, an entry  *)
(* is visible only below directories that are: the white-outs of a removed *)
(* directory leave nothing behind that a later mkdir or write would show.  *)
THEOREM NothingIsHidden == Spec => []NothingHidden
BY Always, CalmAlways, CalmHides, PTL

-----------------------------------------------------------------------------
(* The queries.                                                            *)

LEMMA PathsHold == IInv /\ CalmInv => PathsAgree
<1> SUFFICES ASSUME IInv, CalmInv, calm
             PROVE  AllPaths = DOMAIN Tree
  BY DEF PathsAgree
<1>1. Layers /\ Tidy /\ Hangs(Kinds)
  BY DEF IInv, CalmInv, Clean
<1>2. DOMAIN Tree = {x \in Known : Visible(x)}
  BY DEF Tree
<1>3. \A x : Visible(x) => x \in Known
  BY DEF Visible, Known
<1>4. ASSUME NEW x, Visible(x), x \notin DOMAIN memory
      PROVE  x \in Scanned
  <2>1. x \in DOMAIN Lower /\ x \in Paths
    BY <1>4, LowerIsTree DEF Visible, Paths
  <2>2. Kinds[x] # "err"
    BY <1>1, <1>4, <2>1, KindIs
  <2>3. \A d \in Ancestors(x) : d \in Paths /\ Kinds[d] = "dir"
    BY <1>1, <2>1, <2>2, AncestorPath DEF Hangs
  <2>4. \A d \in Ancestors(x) : d \notin deleted
    BY <1>1, <2>3, KindIs DEF Visible
  <2> QED  BY <1>4, <2>1, <2>4 DEF Scanned, Visible
<1>5. \A x \in Scanned : Visible(x)
  BY DEF Scanned, Visible
<1>6. \A x \in DOMAIN memory \ deleted : Visible(x)
  BY DEF Visible
<1> QED
  BY <1>2, <1>3, <1>4, <1>5, <1>6 DEF AllPaths, Visible

(* While calls do not overlap, getAllPaths finds all that exists says is   *)
(* there and nothing else: the walk over the host tree, which stops at a   *)
(* removed directory, misses no entry written or left below one.           *)
THEOREM PathsAreRight == Spec => []PathsAgree
BY Always, CalmAlways, PathsHold, PTL

LEMMA LastOfParent ==
  ASSUME NEW S, NEW p \in Seq(S), p # Root
  PROVE  Parent(p) \in Seq(S) /\ Last(p) \in S /\ p = Child(Parent(p), Last(p))
<1> DEFINE n == Len(p)
<1>1. n \in Nat /\ n # 0
  BY LenProperties, EmptySeq DEF Root
<1>2. n \in 0 .. n /\ n - 1 \in 0 .. n /\ n \in 1 .. n
  BY <1>1
<1>3. Upto(p, n) = p /\ Parent(p) = Upto(p, n - 1) /\ Child(Upto(p, n - 1), p[n]) = p
  <2> HIDE DEF n
  <2>1. n = Len(p)
    BY DEF n
  <2>2. /\ Upto(p, n) = p /\ Parent(Upto(p, n)) = Upto(p, n - 1)
        /\ Child(Upto(p, n - 1), p[n]) = Upto(p, n)
    BY <1>1, <1>2, <2>1, UptoIs
  <2> QED  BY <2>2
<1>4. Upto(p, n - 1) \in Seq(S)
  BY <1>2, UptoIs
<1>5. p[n] \in S
  BY <1>2, ElementOfSeq
<1> QED
  BY <1>3, <1>4, <1>5 DEF Last

LEMMA ListingsHold == IInv /\ CalmInv => ListingsAgree
<1> SUFFICES ASSUME IInv, CalmInv, calm, NEW p \in Known \ {Root},
                    Lstat(Parent(p)).t # "link"
             PROVE  p \in AllPaths <=> (/\ Readdir(Parent(p)).ok
                                       /\ Last(p) \in ToSet(Readdir(Parent(p)).kids))
  BY DEF ListingsAgree
<1> DEFINE d == Parent(p)
<1>1. Layers /\ Tidy /\ Hangs(Kinds) /\ PathsAgree
  BY PathsHold DEF IInv, CalmInv, Clean
<1>2. p \in Paths
  BY <1>1, LowerIsTree, TargetsAssumption DEF Known, Tidy, Paths
<1>3. d \in Paths /\ Last(p) \in Names /\ p = Child(d, Last(p))
  BY <1>2, LastOfParent DEF Paths
<1>4. p \in AllPaths <=> Visible(p)
  BY <1>1 DEF PathsAgree, Tree
<1>5. FinalOf(d) = d
  BY DEF FinalOf
<1> DEFINE S == {k \in Names : /\ Child(d, k) \notin deleted
                               /\ Child(d, k) \in DOMAIN memory \cup DOMAIN Lower}
<1>6. ToSet(ListAt(d)) = Names \cap S
  BY SortedIs DEF ListAt
<1>7. ASSUME Visible(p)
      PROVE  Readdir(d).ok /\ Last(p) \in ToSet(Readdir(d).kids)
  <2>1. Visible(d)
    <3>1. CASE d = Root
      BY <1>1, <3>1 DEF Layers, Visible
    <3>2. CASE d # Root
      <4>1. d \in Ancestors(p) /\ Kinds[p] # "err"
        BY <1>1, <1>2, <1>7, <3>2, KindIs, ParentAbove DEF Paths
      <4>2. Kinds[d] = "dir"
        BY <1>1, <1>2, <4>1 DEF Hangs
      <4> QED  BY <1>1, <1>3, <4>2, KindIs
    <3> QED  BY <3>1, <3>2
  <2>2. Readdir(d) = [ok |-> TRUE, kids |-> ListAt(d)]
    BY <1>5, <2>1 DEF Readdir, Visible
  <2>3. Last(p) \in S
    BY <1>3, <1>7 DEF Visible
  <2> QED  BY <1>6, <2>2, <2>3
<1>8. ASSUME Last(p) \in ToSet(Readdir(d).kids)
      PROVE  Visible(p)
  <2>1. Last(p) \notin ToSet(<<>>)
    BY DEF ToSet
  <2>2. Last(p) \in ToSet(ListAt(d))
    BY <1>5, <1>8, <2>1 DEF Readdir
  <2> QED  BY <1>3, <1>6, <2>2 DEF Visible
<1> QED
  BY <1>4, <1>7, <1>8

(* While calls do not overlap, readdir and getAllPaths, which look at      *)
(* different marks, find the same paths: what readdir lists is reached by  *)
(* the walk from the root, and what the walk finds is listed by its        *)
(* directory, which shows and is one.                                      *)
THEOREM ListingsAreRight == Spec => []ListingsAgree
BY Always, CalmAlways, ListingsHold, PTL

-----------------------------------------------------------------------------
(* The contract.  What is seen at each path matters now, entries and all:  *)
(* S and T are what is seen before and after a step, B what the call found *)
(* when it began, r the call, f an invocation and g the one that waits for *)
(* it.                                                                     *)

Seen == [x \in Paths |-> Lstat(x)]

(* What is seen of the tree t.                                             *)
SeenOf(t) == [x \in Paths |-> IF x \in DOMAIN t THEN t[x] ELSE Err("ENOENT")]

KindsOf(S) == [x \in Paths |-> S[x].t]

Entries == Entry(Nat, LinkTargets) \cup {Err("ENOENT")}

(* Entries that differ at most in their modes.                             *)
Same(m, n) ==
  /\ m.t = n.t
  /\ m.t = "file" => m.c = n.c
  /\ m.t = "link" => m.to = n.to

(* A file too large to read is at y.                                       *)
Big(S, y) == y \in Huge /\ S[y] = Lower[y]

SomeBig(B, r) == \E y \in Paths : Under(y, r.p) /\ Big(B, y)

(* Only what the call names has changed.                                   *)
Framed(S, B, r) == \A x \in Paths : ~Footprint(r, x) => S[x] = B[x]

(* y, if the call copies it, has been copied.                              *)
Copied(S, B, r, y) ==
  Under(y, r.p) /\ B[y].t # "err" => Same(S[Moved(y, r.p, r.q)], B[y]) /\ ~Big(B, y)

AllCopied(S, B, r, p) == \A y \in Paths : Under(y, p) => Copied(S, B, r, y)

(* ... but for what is below d or below the children kids of p.            *)
CopiedBut(S, B, r, p, d, kids) ==
  \A y \in Paths : Under(y, p) =>
    \/ Copied(S, B, r, y)
    \/ Under(y, d)
    \/ \E k \in ToSet(kids) : Under(y, Child(p, k))

(* Below the target of a copy there is nothing but what was there before   *)
(* and copies of what is at the same place of the source.                  *)
Mirrors(S, B, r) ==
  r.op \in {"cp", "mv"} =>
    \A x \in Paths : Under(x, r.q) =>
      \/ S[x] = B[x]
      \/ B[Moved(x, r.q, r.p)].t # "err" /\ Same(S[x], B[Moved(x, r.q, r.p)])

SourceSame(S, B, r) == \A y \in Paths : Under(y, r.p) => S[y] = B[y]

(* What waits for the invocation a call begins with.                       *)
Nobody == [op |-> "none"]

CallerOf(s) == IF s = <<>> THEN Nobody ELSE Head(s)

(* What is known of f, called by g, from its call to its end.              *)
Owes(S, B, r, f, g) ==
  /\ g.op = "none" => f.op = r.op /\ f.p = r.p /\ f.q = r.q /\ f.o = r.o
  /\ g.op = "none" /\ f.op = "mkdir" /\ f.pc \in {"parent", "made"} => B[f.p].t = "err"
  /\ g.op = "none" /\ f.op = "rm" /\ f.pc # "exists" => B[f.p].t # "err"
  /\ f.op = "rm" /\ r.op = "mv" => AllCopied(S, B, r, r.p)
  /\ f.op = "cp" /\ (f.pc # "exists" \/ g.op = "cp") => B[f.p].t # "err"
  /\ f.op = "cp" /\ g.op # "none" => f.o.rec
  /\ f.op = "cp" /\ f.pc = "list" => \A k \in ToSet(f.kids) : B[Child(f.p, k)].t # "err"
  /\ f.op = "mv" =>
       /\ g.op = "none" /\ f.pc \in {"cp", "rm"}
       /\ f.pc = "rm" => B[r.p].t # "err" /\ (r.op = "mv" => AllCopied(S, B, r, r.p))
  /\ g.op = "mv" => f.p = r.p
  /\ r.op \in {"cp", "mv"} /\ g.op = "cp" /\ g.pc = "list" =>
       CopiedBut(S, B, r, g.p, f.p, g.kids)

Linked(S, B, r, s) ==
  \A i \in DOMAIN s : Owes(S, B, r, s[i], IF i = Len(s) THEN Nobody ELSE s[i + 1])

(* What is known of f when it goes on: its answers are not stale, and how  *)
(* the invocation it called has ended.                                     *)
Goes(S, B, r, f, g) ==
  /\ /\ g.op = "none" \/ (g.op = "mv" /\ f.op = "cp")
     /\ f.pc \in {"exists", "parent", "stat", "read", "new"}
     => S = B
  /\ r.op \in {"cp", "mv"} /\ (f.op \in {"cp", "mkdir"} \/ (f.op = "mv" /\ f.pc = "cp")) =>
       SourceSame(S, B, r)
  /\ f.pc = "exists" => /\ f.has <=> S[f.p].t # "err"
                        /\ f.op = "rm" /\ g.op = "mv" => f.has
  /\ f.pc = "parent" => (f.has <=> S[Parent(f.p)].t # "err")
  /\ f.pc = "stat" /\ f.op # "rm" => f.res = S[f.p] /\ S[f.p].t \in {"file", "dir"}
  /\ f.pc = "new" => S[f.p].t = "file" /\ (f.has <=> S[f.q].t # "err")
  /\ f.pc = "read" /\ f.op # "append" =>
       /\ S[f.p].t = "file"
       /\ f.res = IF Big(S, f.p) THEN Err("EFBIG") ELSE S[f.p]
  /\ f.pc = "read" /\ f.op = "append" => f.res = S[f.p] /\ S[f.p].t \in {"file", "err"}
  /\ f.pc = "read" /\ f.op = "link" => S[f.q].t = "err"
  /\ f.op = "cp" /\ f.pc = "mkdir" => f.ret = "ok"
  /\ f.op = "cp" /\ f.pc = "list" =>
       /\ f.ret \in {"ok", "EFBIG"}
       /\ f.ret = "ok" =>
            \A y \in Paths : Under(y, f.p) =>
              Copied(S, B, r, y) \/ \E k \in ToSet(f.kids) : Under(y, Child(f.p, k))
       /\ f.ret = "EFBIG" => SomeBig(B, r)
  /\ f.op = "mv" /\ f.pc = "cp" =>
       /\ f.ret \in {"ok", "ENOENT", "EFBIG"}
       /\ f.ret = "ok" => B[r.p].t # "err" /\ AllCopied(S, B, r, r.p)
       /\ f.ret = "ENOENT" => S = B /\ B[r.p].t = "err"
       /\ f.ret = "EFBIG" => B[r.p].t # "err" /\ SomeBig(B, r)
  /\ f.op = "mv" /\ f.pc = "rm" => f.ret = "ok" /\ S[r.p].t = "err"

(* What the call r found in the tree t.                                    *)
Found(t, r) ==
  /\ t = [x \in DOMAIN t |-> t[x]] /\ DOMAIN t \subseteq Paths
  /\ \A x \in Paths : SeenOf(t)[x] \in Entries
  /\ \A x \in DOMAIN t : t[x].t # "err"
  /\ Hangs(KindsOf(SeenOf(t))) /\ Starts(KindsOf(SeenOf(t)), r)
  /\ r.op \in {"cp", "mv"} /\ SeenOf(t)[r.p].t = "dir" => SeenOf(t)[r.q].t = "err"
  /\ r.op = "append" => ~Big(SeenOf(t), r.p)
  /\ r.op = "link" => SeenOf(t)[r.p].t # "link"

Honours(S, B, r, s, id) ==
  /\ Framed(S, B, r) /\ Mirrors(S, B, r)
  /\ Linked(S, B, r, s) /\ Goes(S, B, r, Head(s), CallerOf(Tail(s)))
  /\ r.op = "write" => S[r.p] = File(<<id>>, "default")

(* What no huge file is made of.                                           *)
Legible == (1..made) \cup UNION {ToSet(Lower[x].c) : x \in {y \in DOMAIN Lower \ Huge : Lower[y].t = "file"}}

Readable == \A x \in DOMAIN memory : memory[x].t = "file" => ToSet(memory[x].c) \subseteq Legible

Faithful ==
  /\ Readable
  /\ \A c \in Callers : Busy(c) =>
       /\ Found(calls[c].before, calls[c].req)
       /\ Honours(Seen, SeenOf(calls[c].before), calls[c].req, calls[c].stack, calls[c].id)

PromiseInv == calm => Faithful

(* How the call r ends.                                                    *)
Delivers(T, B, r, id, out) ==
  LET p == r.p
      q == r.q
      b == B[p].t
  IN
  /\ r.op = "write" => out = "ok" /\ T[p] = File(<<id>>, "default")
  /\ r.op = "append" =>
       out = "ok" /\ T[p] = File(Append(IF b = "file" THEN B[p].c ELSE <<>>, id), "default")
  /\ r.op = "mkdir" =>
       \/ b # "err" /\ T = B /\ out = IF r.o.rec THEN "ok" ELSE "EEXIST"
       \/ /\ b = "err" /\ T[p].t = "dir" /\ out = "ok"
          /\ r.o.rec \/ Parent(p) = Root \/ B[Parent(p)].t # "err"
       \/ /\ b = "err" /\ T = B /\ out = "ENOENT"
          /\ ~r.o.rec /\ Parent(p) # Root /\ B[Parent(p)].t = "err"
  /\ r.op = "symlink" =>
       \/ b # "err" /\ T = B /\ out = "EEXIST"
       \/ b = "err" /\ T[p] = Link(q) /\ out = "ok"
  /\ r.op = "rm" =>
       \/ b # "err" /\ T[p].t = "err" /\ out = "ok"
       \/ b = "err" /\ T = B /\ out = IF r.o.force THEN "ok" ELSE "ENOENT"
  /\ r.op \in {"cp", "mv"} =>
       \/ b = "err" /\ T = B /\ out = "ENOENT"
       \/ r.op = "cp" /\ b = "dir" /\ ~r.o.rec /\ T = B /\ out = "EISDIR"
       \/ /\ b # "err" /\ (r.op = "cp" /\ b = "dir" => r.o.rec)
          /\ SomeBig(B, r) /\ SourceSame(T, B, r) /\ out = "EFBIG"
       \/ /\ b # "err" /\ (r.op = "cp" /\ b = "dir" => r.o.rec)
          /\ AllCopied(T, B, r, p) /\ (r.op = "mv" => T[p].t = "err") /\ out = "ok"
  /\ r.op = "link" =>
       \/ b = "err" /\ T = B /\ out = "ENOENT"
       \/ b = "dir" /\ T = B /\ out = "EPERM"
       \/ b = "file" /\ B[q].t # "err" /\ T = B /\ out = "EEXIST"
       \/ b = "file" /\ B[q].t = "err" /\ Big(B, p) /\ T = B /\ out = "EFBIG"
       \/ b = "file" /\ B[q].t = "err" /\ ~Big(B, p) /\ Same(T[q], B[p]) /\ out = "ok"
  /\ r.op \in {"chmod", "utimes"} =>
       \/ b = "err" /\ T = B /\ out = "ENOENT"
       \/ b # "err" /\ Big(B, p) /\ T = B /\ out = "EFBIG"
       \/ b # "err" /\ ~Big(B, p) /\ Same(T[p], B[p]) /\ out = "ok"

-----------------------------------------------------------------------------
(* Stacks, caller by caller.                                               *)

LEMMA LinkedEmpty == \A S, B, r : Linked(S, B, r, <<>>)
<1> TAKE S, B, r
<1>1. DOMAIN <<>> = {}
  OBVIOUS
<1> QED
  BY <1>1 DEF Linked

LEMMA LinkedSplit ==
  ASSUME NEW F, NEW s \in Seq(F), s # <<>>, NEW S, NEW B, NEW r, Linked(S, B, r, s)
  PROVE  Owes(S, B, r, Head(s), CallerOf(Tail(s))) /\ Linked(S, B, r, Tail(s))
<1> DEFINE t == Tail(s)
<1>1. /\ Head(s) = s[1] /\ t \in Seq(F)
      /\ Len(s) \in Nat \ {0} /\ DOMAIN s = 1 .. Len(s)
      /\ DOMAIN t = 1 .. Len(s) - 1
      /\ \A i \in 1 .. Len(s) - 1 : t[i] = s[i + 1]
  BY HeadIs
<1>3. Len(t) = Len(s) - 1
  BY <1>1, HeadTailProperties
<1> HIDE DEF t
<1>4. Owes(S, B, r, s[1], IF 1 = Len(s) THEN Nobody ELSE s[2])
  <2>1. 1 \in DOMAIN s /\ 1 + 1 = 2
    BY <1>1
  <2>2. Owes(S, B, r, s[1], IF 1 = Len(s) THEN Nobody ELSE s[1 + 1])
    BY <2>1 DEF Linked
  <2> QED  BY <2>1, <2>2
<1>5. CallerOf(t) = IF 1 = Len(s) THEN Nobody ELSE s[2]
  <2>1. CASE 1 = Len(s)
    <3>1. t = <<>>
      BY <1>1, <1>3, <2>1, EmptySeq
    <3> QED  BY <2>1, <3>1 DEF CallerOf
  <2>2. CASE 1 # Len(s)
    <3>1. 1 \in 1 .. Len(s) - 1 /\ t # <<>>
      BY <1>1, <1>3, <2>2, EmptySeq
    <3>2. Head(t) = t[1] /\ t[1] = s[1 + 1]
      BY <1>1, <3>1, HeadIs
    <3> QED  BY <2>2, <3>1, <3>2 DEF CallerOf
  <2> QED  BY <2>1, <2>2
<1>6. ASSUME NEW i \in DOMAIN t
      PROVE  Owes(S, B, r, t[i], IF i = Len(t) THEN Nobody ELSE t[i + 1])
  <2>1. i + 1 \in DOMAIN s /\ t[i] = s[i + 1] /\ (i = Len(t) <=> i + 1 = Len(s))
    BY <1>1, <1>3
  <2>2. i # Len(t) => t[i + 1] = s[(i + 1) + 1]
    BY <1>1, <1>3
  <2>3. Owes(S, B, r, s[i + 1], IF i + 1 = Len(s) THEN Nobody ELSE s[(i + 1) + 1])
    BY <2>1 DEF Linked
  <2> QED  BY <2>1, <2>2, <2>3
<1> QED
  BY <1>1, <1>4, <1>5, <1>6 DEF Linked, t

LEMMA LinkedJoin ==
  ASSUME NEW F, NEW f \in F, NEW s \in Seq(F), NEW S, NEW B, NEW r,
         Owes(S, B, r, f, CallerOf(s)), Linked(S, B, r, s)
  PROVE  Linked(S, B, r, <<f>> \o s)
<1> DEFINE t == <<f>> \o s
<1>1. /\ Len(s) \in Nat /\ DOMAIN s = 1 .. Len(s)
      /\ t \in Seq(F) /\ DOMAIN t = 1 .. Len(s) + 1 /\ t[1] = f
      /\ \A i \in 1 .. Len(s) : t[i + 1] = s[i]
  BY ConsIs
<1>2. Len(t) = Len(s) + 1
  <2>1. <<f>> \in Seq(F) /\ Len(<<f>>) = 1
    OBVIOUS
  <2>2. Len(t) = 1 + Len(s)
    BY <2>1, ConcatProperties
  <2> QED  BY <1>1, <2>2
<1> HIDE DEF t
<1>3. Owes(S, B, r, t[1], IF 1 = Len(t) THEN Nobody ELSE t[2])
  <2>1. CASE Len(s) = 0
    <3>1. s = <<>>
      BY <1>1, <2>1, EmptySeq
    <3> QED  BY <1>1, <1>2, <2>1, <3>1 DEF CallerOf
  <2>2. CASE Len(s) # 0
    <3>1. s # <<>> /\ 1 \in 1 .. Len(s)
      BY <1>1, <2>2, EmptySeq
    <3>2. Head(s) = s[1] /\ t[1 + 1] = s[1] /\ 1 # Len(t)
      BY <1>1, <1>2, <2>2, <3>1, HeadIs
    <3> QED  BY <1>1, <3>1, <3>2 DEF CallerOf
  <2> QED  BY <2>1, <2>2
<1>4. ASSUME NEW i \in DOMAIN t, i # 1
      PROVE  Owes(S, B, r, t[i], IF i = Len(t) THEN Nobody ELSE t[i + 1])
  <2>1. i - 1 \in DOMAIN s /\ (i - 1) + 1 = i /\ (i = Len(t) <=> i - 1 = Len(s))
    BY <1>1, <1>2, <1>4
  <2>2. t[i] = s[i - 1]
    BY <1>1, <2>1
  <2>3. i # Len(t) => t[i + 1] = s[i] /\ s[i] = s[(i - 1) + 1]
    BY <1>1, <1>2, <2>1
  <2>4. Owes(S, B, r, s[i - 1], IF i - 1 = Len(s) THEN Nobody ELSE s[(i - 1) + 1])
    BY <2>1 DEF Linked
  <2> QED  BY <2>1, <2>2, <2>3, <2>4
<1>5. \A i \in DOMAIN t : Owes(S, B, r, t[i], IF i = Len(t) THEN Nobody ELSE t[i + 1])
  <2>1. 1 + 1 = 2
    OBVIOUS
  <2> QED  BY <1>3, <1>4, <2>1
<1> QED
  BY <1>5 DEF Linked, t

\* What has been copied stays copied.
LEMMA OwesLater ==
  ASSUME NEW S, NEW T, NEW B, NEW r,
         r.op \in {"cp", "mv"} =>
           \A y \in Paths : Copied(S, B, r, y) => Copied(T, B, r, y),
         NEW f, NEW g, Owes(S, B, r, f, g)
  PROVE  Owes(T, B, r, f, g)
<1>1. r.op = "mv" /\ AllCopied(S, B, r, r.p) => AllCopied(T, B, r, r.p)
  BY DEF AllCopied
<1>2. r.op \in {"cp", "mv"} /\ CopiedBut(S, B, r, g.p, f.p, g.kids)
        => CopiedBut(T, B, r, g.p, f.p, g.kids)
  BY DEF CopiedBut
<1> QED
  BY <1>1, <1>2 DEF Owes

LEMMA LinkedLater ==
  ASSUME NEW S, NEW T, NEW B, NEW r,
         r.op \in {"cp", "mv"} =>
           \A y \in Paths : Copied(S, B, r, y) => Copied(T, B, r, y),
         NEW s, Linked(S, B, r, s)
  PROVE  Linked(T, B, r, s)
<1> DEFINE g(i) == IF i = Len(s) THEN Nobody ELSE s[i + 1]
<1> SUFFICES ASSUME NEW i \in DOMAIN s
             PROVE  Owes(T, B, r, s[i], g(i))
  BY DEF Linked
<1>1. Owes(S, B, r, s[i], g(i))
  BY DEF Linked
<1> HIDE DEF g
<1> QED
  BY <1>1, OwesLater

-----------------------------------------------------------------------------
(* What is seen.                                                           *)

LEMMA ContentsAreNumbers ==
  ASSUME made \in Nat
  PROVE  Contents \subseteq Nat
<1> SUFFICES ASSUME NEW m \in Range(Lower), m.t = "file"
             PROVE  ToSet(m.c) \subseteq Nat
  BY DEF Contents
<1>1. PICK x \in DOMAIN Lower : m = Lower[x]
  BY DEF Range
<1>2. m \in Entry(Nat, {})
  BY <1>1, LowerIsTree
<1>3. m.c \in Seq(Nat)
  BY <1>2 DEF Entry
<1> QED
  BY <1>3 DEF ToSet

LEMMA EntryIs ==
  ASSUME NEW n \in Entries
  PROVE  /\ n.t \in {"dir", "file", "link", "err"}
         /\ n.t = "err" => n = Err("ENOENT")
         /\ n.t = "dir" => n.m \in Modes /\ n = Dir(n.m)
         /\ n.t = "file" => n.c \in Seq(Nat) /\ n.m \in Modes /\ n = File(n.c, n.m)
         /\ n.t = "link" => n.to \in LinkTargets /\ n.m \in Modes
                            /\ n = [t |-> "link", to |-> n.to, m |-> n.m]
BY DEF Entries, Entry, Err, Dir, File

SeenIs ==
  /\ \A x \in Paths :
       /\ Seen[x] = Lstat(x) /\ Kinds[x] = Seen[x].t /\ Seen[x] \in Entries
       /\ Visible(x) <=> Seen[x].t # "err"
  /\ KindsOf(Seen) = Kinds

LEMMA SeenHere == IInv => SeenIs
<1> SUFFICES ASSUME IInv PROVE SeenIs
  OBVIOUS
<1>1. Layers /\ made \in Nat
  BY CallsAssumption DEF IInv, CallsInv, CallsOK
<1>2. Entry(Contents, LinkTargets) \subseteq Entry(Nat, LinkTargets)
  <2>1. Seq(Contents) \subseteq Seq(Nat)
    BY <1>1, ContentsAreNumbers, SeqMonotonic
  <2> QED  BY <2>1 DEF Entry
<1>3. ASSUME NEW x \in Paths
      PROVE  /\ Seen[x] = Lstat(x) /\ Kinds[x] = Seen[x].t /\ Seen[x] \in Entries
             /\ Visible(x) <=> Seen[x].t # "err"
  <2>1. Seen[x] = Lstat(x) /\ Kinds[x] = Lstat(x).t
    BY DEF Seen, Kinds
  <2>2. Visible(x) <=> Kinds[x] # "err"
    BY <1>1, KindIs
  <2>3. Lstat(x) \in Entries
    <3>1. x \in DOMAIN memory => memory[x] \in Entry(Contents, LinkTargets)
      BY <1>1 DEF Layers, Range
    <3>2. x \in DOMAIN Lower => Lower[x] \in Entry(Contents, LinkTargets)
      BY LowerTyped
    <3>3. Visible(x) => EntryAt(x) \in Entry(Contents, LinkTargets)
      BY <3>1, <3>2 DEF Visible, EntryAt
    <3> QED  BY <1>2, <3>3 DEF Lstat, Entries
  <2> QED  BY <2>1, <2>2, <2>3
<1>4. KindsOf(Seen) = Kinds
  BY <1>3 DEF KindsOf, Kinds
<1> QED
  BY <1>3, <1>4 DEF SeenIs

LEMMA SeenNext == IInv' => SeenIs'
BY SeenHere, PTL

(* The tree t shows S.                                                     *)
Shows(t, S) ==
  /\ t = [x \in DOMAIN t |-> t[x]] /\ DOMAIN t \subseteq Paths
  /\ \A x \in Paths : x \in DOMAIN t <=> S[x].t # "err"
  /\ \A x \in DOMAIN t : t[x] = S[x]

TreeShows == Shows(Tree, Seen)

LEMMA TreeHere == IInv /\ Tidy => TreeShows
<1> SUFFICES ASSUME IInv, Tidy PROVE TreeShows
  OBVIOUS
<1>1. Layers /\ SeenIs
  BY SeenHere DEF IInv
<1>2. /\ DOMAIN Tree \subseteq Paths
      /\ \A x \in Paths : x \in DOMAIN Tree <=> Kinds[x] # "err"
  BY <1>1, TreeKinds
<1>3. Tree = [x \in DOMAIN Tree |-> Tree[x]]
  BY DEF Tree
<1>4. \A x \in DOMAIN Tree : Visible(x) /\ Tree[x] = EntryAt(x)
  BY DEF Tree
<1>5. \A x \in DOMAIN Tree : Tree[x] = Lstat(x)
  BY <1>4 DEF Lstat
<1> QED
  BY <1>1, <1>2, <1>3, <1>5 DEF SeenIs, TreeShows, Shows

LEMMA TreeNext == (IInv /\ Tidy)' => TreeShows'
BY TreeHere, PTL

\* What is seen of what shows S is S.
LEMMA ShownIs ==
  ASSUME NEW t, NEW S, S = [x \in Paths |-> S[x]], \A x \in Paths : S[x] \in Entries, Shows(t, S)
  PROVE  SeenOf(t) = S
<1>1. \A x \in Paths : S[x].t = "err" => S[x] = Err("ENOENT")
  BY EntryIs
<1>2. \A x \in Paths : (IF x \in DOMAIN t THEN t[x] ELSE Err("ENOENT")) = S[x]
  BY <1>1 DEF Shows
<1> QED
  BY <1>2 DEF SeenOf

\* A call that finds t has t to show.
LEMMA FoundShows ==
  ASSUME NEW t, NEW r, Found(t, r)
  PROVE  Shows(t, SeenOf(t))
<1>1. \A x \in Paths : SeenOf(t)[x] = IF x \in DOMAIN t THEN t[x] ELSE Err("ENOENT")
  BY DEF SeenOf
<1>2. Err("ENOENT").t = "err"
  BY DEF Err
<1>3. t = [x \in DOMAIN t |-> t[x]] /\ DOMAIN t \subseteq Paths
      /\ \A x \in DOMAIN t : t[x].t # "err"
  BY DEF Found
<1> QED
  BY <1>1, <1>2, <1>3 DEF Shows

\* Trees that show the same are the same.
LEMMA ShowsOne ==
  ASSUME NEW t, NEW u, NEW S, Shows(t, S), Shows(u, S)
  PROVE  t = u
<1>1. DOMAIN t = DOMAIN u
  BY DEF Shows
<1>2. \A x \in DOMAIN t : t[x] = u[x]
  BY <1>1 DEF Shows
<1>3. [x \in DOMAIN t |-> t[x]] = [x \in DOMAIN u |-> u[x]]
  BY <1>1, <1>2
<1> QED
  BY <1>3 DEF Shows

-----------------------------------------------------------------------------
(* What a step shows.                                                      *)

LEMMA OnlySeen ==
  ASSUME NEW Q, Only(Q)
  PROVE  \A x \in Paths : x \notin Q => Seen'[x] = Seen[x]
<1>1. \A x \in Paths : Seen'[x] = Lstat(x)' /\ Seen[x] = Lstat(x)
  BY DEF Seen
<1> QED
  BY <1>1 DEF Only

LEMMA PutSeen ==
  ASSUME NEW p \in Paths, NEW n, Put(p, n)
  PROVE  Seen'[p] = n
<1>1. p \in DOMAIN memory' /\ memory'[p] = n /\ p \notin deleted'
  BY DEF Put, Set
<1>2. Lstat(p)' = n
  BY <1>1 DEF Lstat, Visible, EntryAt
<1> QED
  BY <1>2 DEF Seen

LEMMA MakeDirSeen ==
  ASSUME NEW p \in Paths, MakeDir(p)
  PROVE  Seen'[p] = Dir("default")
<1>1. p \in DOMAIN memory' /\ memory'[p] = Dir("default") /\ p \notin deleted'
  BY DEF MakeDir, Set
<1>2. Lstat(p)' = Dir("default")
  BY <1>1 DEF Lstat, Visible, EntryAt
<1> QED
  BY <1>2 DEF Seen

LEMMA CopyUpSeen ==
  ASSUME NEW p \in Paths, p \notin deleted, NEW n, CopyUp(p, n)
  PROVE  Seen'[p] = n
<1>1. p \in DOMAIN memory' /\ memory'[p] = n /\ p \notin deleted'
  BY DEF CopyUp, Set
<1>2. Lstat(p)' = n
  BY <1>1 DEF Lstat, Visible, EntryAt
<1> QED
  BY <1>2 DEF Seen

LEMMA MarkSeen ==
  ASSUME NEW p \in Paths, MarkDeleted(p)
  PROVE  Seen'[p] = Err("ENOENT")
<1>1. p \in deleted'
  BY DEF MarkDeleted
<1>2. Lstat(p)' = Err("ENOENT")
  BY <1>1 DEF Lstat, Visible
<1> QED
  BY <1>2 DEF Seen

LEMMA SameSeen ==
  ASSUME UNCHANGED <<memory, deleted>>
  PROVE  Seen' = Seen
BY DEF Seen, Lstat, Visible, EntryAt

-----------------------------------------------------------------------------
(* Files that can be read, and files too large for it.                     *)

LEMMA LegibleGrows ==
  ASSUME made \in Nat, made' \in {made, made + 1}
  PROVE  Legible \subseteq Legible' /\ (made' # 0 => made' \in Legible')
<1>1. 1 .. made \subseteq 1 .. made' /\ (made' # 0 => made' \in 1 .. made')
  OBVIOUS
<1> QED
  BY <1>1 DEF Legible

LEMMA ReadableSet ==
  ASSUME Readable, Legible \subseteq Legible',
         \A x \in DOMAIN memory' :
           \/ x \in DOMAIN memory /\ memory'[x] = memory[x]
           \/ memory'[x].t = "file" => ToSet(memory'[x].c) \subseteq Legible'
  PROVE  Readable'
<1> SUFFICES ASSUME NEW x \in DOMAIN memory', memory'[x].t = "file"
             PROVE  ToSet(memory'[x].c) \subseteq Legible'
  BY DEF Readable
<1>1. CASE x \in DOMAIN memory /\ memory'[x] = memory[x]
  BY <1>1 DEF Readable
<1> QED
  BY <1>1

\* n can be written.
Writable(n) == n.t = "file" => ToSet(n.c) \subseteq Legible'

LEMMA PutReadable ==
  ASSUME Readable, Legible \subseteq Legible', NEW p, NEW n, Writable(n), Put(p, n)
  PROVE  Readable'
<1>1. \A x \in DOMAIN memory' :
        memory'[x] = IF x = p THEN n ELSE IF x \in DOMAIN memory THEN memory[x] ELSE Dir("default")
  BY DEF Put, Set, WithParents, WithNew
<1>2. Dir("default").t # "file"
  BY DEF Dir
<1> QED
  BY <1>1, <1>2, ReadableSet DEF Writable

LEMMA CopyUpReadable ==
  ASSUME Readable, Legible \subseteq Legible', NEW p, NEW n, Writable(n),
         memory' = Set(memory, p, n)
  PROVE  Readable'
<1>1. \A x \in DOMAIN memory' :
        IF x = p THEN memory'[x] = n ELSE x \in DOMAIN memory /\ memory'[x] = memory[x]
  BY DEF Set
<1> QED
  BY <1>1, ReadableSet DEF Writable

LEMMA MarkReadable ==
  ASSUME Readable, Legible \subseteq Legible', NEW p, MarkDeleted(p)
  PROVE  Readable'
<1>1. \A x \in DOMAIN memory' : x \in DOMAIN memory /\ memory'[x] = memory[x]
  BY DEF MarkDeleted, Without
<1> QED
  BY <1>1, ReadableSet

\* What can be read is no file too large to read.
LEMMA HugeApart ==
  ASSUME made \in 0 .. MaxCalls, NEW p \in Huge, NEW n, n.t = "file", ToSet(n.c) \subseteq Legible
  PROVE  n # Lower[p]
<1>1. PICK w \in ToSet(Lower[p].c) :
        /\ w \notin 1 .. MaxCalls
        /\ \A x \in DOMAIN Lower \ Huge : Lower[x].t = "file" => w \notin ToSet(Lower[x].c)
  BY HugeIsOwn
<1>2. 1 .. made \subseteq 1 .. MaxCalls
  BY CallsAssumption
<1>3. w \notin Legible
  BY <1>1, <1>2 DEF Legible
<1> QED
  BY <1>1, <1>3

\* What is known of the files when the layers are in order.
Large ==
  \A p \in Paths : Seen[p].t = "file" =>
    /\ Big(Seen, p) <=> p \in Huge /\ p \notin DOMAIN memory
    /\ ~Big(Seen, p) => ToSet(Seen[p].c) \subseteq Legible

LEMMA LargeHere ==
  ASSUME IInv, Readable
  PROVE  Large
<1> SUFFICES ASSUME NEW p \in Paths, Seen[p].t = "file"
             PROVE  /\ Big(Seen, p) <=> p \in Huge /\ p \notin DOMAIN memory
                    /\ ~Big(Seen, p) => ToSet(Seen[p].c) \subseteq Legible
  BY DEF Large
<1>1. SeenIs /\ made \in 0 .. MaxCalls
  BY SeenHere DEF IInv, CallsInv, CallsOK
<1>2. Visible(p) /\ Seen[p] = EntryAt(p)
  BY <1>1 DEF SeenIs, Lstat
<1>3. CASE p \in DOMAIN memory
  <2>1. Seen[p] = memory[p]
    BY <1>2, <1>3 DEF EntryAt
  <2>2. ToSet(Seen[p].c) \subseteq Legible
    BY <1>3, <2>1 DEF Readable
  <2>3. ~Big(Seen, p)
    BY <1>1, <2>2, HugeApart DEF Big
  <2> QED  BY <1>3, <2>2, <2>3
<1>4. CASE p \notin DOMAIN memory
  <2>1. p \in DOMAIN Lower /\ Seen[p] = Lower[p]
    BY <1>2, <1>4 DEF EntryAt, Visible
  <2>2. Big(Seen, p) <=> p \in Huge
    BY <2>1 DEF Big
  <2>3. p \notin Huge => ToSet(Lower[p].c) \subseteq Legible
    BY <2>1 DEF Legible
  <2> QED  BY <1>4, <2>1, <2>2, <2>3
<1> QED
  BY <1>3, <1>4

LEMMA StatIs ==
  ASSUME NEW p \in Paths, Seen[p].t # "link"
  PROVE  Stat(p) = Seen[p] /\ FinalOf(p) = p
<1>1. Seen[p] = Lstat(p)
  BY DEF Seen
<1>2. FinalOf(p) = p
  BY <1>1 DEF FinalOf
<1> QED
  BY <1>1, <1>2 DEF Stat

LEMMA ReadIs ==
  ASSUME Large, NEW p \in Paths, Seen[p].t \in {"file", "err"}
  PROVE  Read(p) = IF Seen[p].t = "file" /\ Big(Seen, p) THEN Err("EFBIG") ELSE Seen[p]
<1>1. Stat(p) = Seen[p] /\ FinalOf(p) = p
  BY StatIs
<1>2. Seen[p].t = "file" => (Big(Seen, p) <=> p \in Huge /\ p \notin DOMAIN memory)
  BY DEF Large
<1> QED
  BY <1>1, <1>2 DEF Read

-----------------------------------------------------------------------------
(* Steps of a copy.                                                        *)

\* A path that is moved and moved back is where it was.
LEMMA MovedBack ==
  ASSUME NEW d \in Paths, NEW e \in Paths, NEW x \in Paths, Under(x, d)
  PROVE  /\ Moved(x, d, e) \in Paths /\ Under(Moved(x, d, e), e)
         /\ Moved(Moved(x, d, e), e, d) = x
<1> DEFINE t == Moved(x, d, Root)
<1>1. t \in Paths /\ d \o t = x /\ Moved(x, d, e) = e \o t
  BY MovedIs DEF Paths
<1>2. Moved(x, d, e) \in Paths /\ Under(Moved(x, d, e), e)
  BY MovedUnder DEF Paths
<1> HIDE DEF t
<1>3. Moved(e \o t, e, d) = d \o t
  <2>1. d \in Seq(Names) /\ e \in Seq(Names) /\ t \in Seq(Names)
    BY <1>1 DEF Paths
  <2> QED
    BY Zenon, <2>1, MovedJoin
<1> QED
  BY <1>1, <1>2, <1>3

(* What changes below the target of the copy r becomes a copy.             *)
Spares(S, T, B, r) ==
  r.op \in {"cp", "mv"} =>
    \A x \in Paths : Under(x, r.q) /\ T[x] # S[x] =>
      B[Moved(x, r.q, r.p)].t # "err" /\ Same(T[x], B[Moved(x, r.q, r.p)])

LEMMA SparesCopied ==
  ASSUME NEW S, NEW T, NEW B, NEW r, r.p \in Paths, r.q \in Paths,
         r.op \in {"cp", "mv"}, Spares(S, T, B, r)
  PROVE  \A y \in Paths : Copied(S, B, r, y) => Copied(T, B, r, y)
<1> SUFFICES ASSUME NEW y \in Paths, Copied(S, B, r, y), Under(y, r.p), B[y].t # "err"
             PROVE  Same(T[Moved(y, r.p, r.q)], B[y]) /\ ~Big(B, y)
  BY DEF Copied
<1> DEFINE m == Moved(y, r.p, r.q)
<1>1. m \in Paths /\ Under(m, r.q) /\ Moved(m, r.q, r.p) = y
  <2> DEFINE p == r.p
             q == r.q
  <2>1. p \in Paths /\ q \in Paths /\ Under(y, p)
    OBVIOUS
  <2> HIDE DEF p, q
  <2>2. /\ Moved(y, p, q) \in Paths /\ Under(Moved(y, p, q), q)
        /\ Moved(Moved(y, p, q), q, p) = y
    BY ZenonT(40), <2>1, MovedBack
  <2> QED
    BY <2>2 DEF p, q
<1>2. Same(S[m], B[y]) /\ ~Big(B, y)
  BY DEF Copied
<1> HIDE DEF m
<1>3. T[m] # S[m] => Same(T[m], B[y])
  BY <1>1 DEF Spares
<1> QED
  BY <1>2, <1>3 DEF m

LEMMA SparesMirrors ==
  ASSUME NEW S, NEW T, NEW B, NEW r, Spares(S, T, B, r), Mirrors(S, B, r)
  PROVE  Mirrors(T, B, r)
<1> SUFFICES ASSUME r.op \in {"cp", "mv"}, NEW x \in Paths, Under(x, r.q), T[x] # B[x]
             PROVE  /\ B[Moved(x, r.q, r.p)].t # "err"
                    /\ Same(T[x], B[Moved(x, r.q, r.p)])
  BY DEF Mirrors
<1>1. CASE T[x] # S[x]
  BY <1>1 DEF Spares
<1>2. CASE T[x] = S[x]
  BY <1>2 DEF Mirrors
<1> QED
  BY <1>1, <1>2

-----------------------------------------------------------------------------
(* Steps of a call that is to keep its promise.                            *)

(* What the call of c found.                                               *)
Was(c) == SeenOf(calls[c].before)

(* What is known before a step of c, with its invocation apart.            *)
Carries(c) ==
  LET r == calls[c].req
      s == Rest(c)
  IN
  /\ Found(calls[c].before, r)
  /\ Framed(Seen, Was(c), r) /\ Mirrors(Seen, Was(c), r)
  /\ Owes(Seen, Was(c), r, Top(c), CallerOf(s)) /\ Linked(Seen, Was(c), r, s)
  /\ Goes(Seen, Was(c), r, Top(c), CallerOf(s))
  /\ r.op = "write" => Seen[r.p] = File(<<calls[c].id>>, "default")

LEMMA CarriesIs ==
  ASSUME IInv, Clean, Faithful, NEW c \in Callers, Busy(c)
  PROVE  Carries(c)
<1> DEFINE r == calls[c].req
           s == calls[c].stack
           B == Was(c)
<1>1. Found(calls[c].before, r) /\ Honours(Seen, B, r, s, calls[c].id)
  BY DEF Faithful, Was
<1>2. s \in Seq(Frames(Contents)) /\ s # <<>>
  BY DEF IInv, CallsInv, CallsFit, CallFits, StackFits, Busy
<1>3. Linked(Seen, B, r, s)
  BY <1>1 DEF Honours
<1>4. Top(c) = Head(s) /\ Rest(c) = Tail(s)
  BY DEF Top, Rest
<1> HIDE DEF s, r, B
<1>5. Owes(Seen, B, r, Head(s), CallerOf(Tail(s))) /\ Linked(Seen, B, r, Tail(s))
  BY <1>2, <1>3, LinkedSplit
<1> QED
  BY <1>1, <1>4, <1>5 DEF Carries, Honours, r, B

(* What a step of c leaves behind.                                         *)
Carried(c) ==
  LET x == calls'[c]
      r == calls[c].req
  IN
  /\ x.stack # <<>> =>
       /\ x.req = r /\ x.id = calls[c].id /\ x.before = calls[c].before
       /\ Honours(Seen', Was(c), r, x.stack, x.id)
  /\ x.stack = <<>> =>
       /\ Framed(Seen', Was(c), r) /\ Mirrors(Seen', Was(c), r)
       /\ Delivers(Seen', Was(c), r, calls[c].id, x.out)

LEMMA CallAfter ==
  ASSUME IInv, NEW c \in Callers, NEW t, calls' = [calls EXCEPT ![c].stack = t]
  PROVE  /\ calls'[c].stack = t /\ calls'[c].req = calls[c].req
         /\ calls'[c].id = calls[c].id /\ calls'[c].before = calls[c].before
<1> DEFINE x == calls[c]
<1>1. DOMAIN calls = Callers /\ IsCall(x)
  BY DEF IInv, CallsInv, CallsFit, CallFits
<1>2. calls'[c] = [x EXCEPT !.stack = t]
  BY <1>1
<1> HIDE DEF x
<1>3. [x EXCEPT !.stack = t] = [stack |-> t, req |-> x.req, id |-> x.id, out |-> x.out,
                                before |-> x.before]
  BY <1>1 DEF IsCall
<1> QED
  BY <1>2, <1>3 DEF x

LEMMA AwaitCarries ==
  ASSUME IInv, Clean, NEW c \in Callers, Busy(c), Carries(c), UNCHANGED <<memory, deleted>>,
         NEW g \in Frames(Contents), Await(c, g),
         Owes(Seen, Was(c), calls[c].req, g, CallerOf(Rest(c))),
         Goes(Seen, Was(c), calls[c].req, g, CallerOf(Rest(c)))
  PROVE  Carried(c)
<1> DEFINE r == calls[c].req
           s == Rest(c)
           B == Was(c)
           t == <<g>> \o s
<1>1. s \in Seq(Frames(Contents))
  BY TopSound
<1>2. calls' = [calls EXCEPT ![c].stack = t]
  BY DEF Await, Rest
<1>3. /\ Linked(Seen, B, r, s) /\ Owes(Seen, B, r, g, CallerOf(s))
      /\ Goes(Seen, B, r, g, CallerOf(s))
      /\ Framed(Seen, B, r) /\ Mirrors(Seen, B, r)
      /\ r.op = "write" => Seen[r.p] = File(<<calls[c].id>>, "default")
  BY DEF Carries
<1> HIDE DEF r, s, B
<1>4. t \in Seq(Frames(Contents)) /\ t # <<>> /\ Head(t) = g /\ Tail(t) = s
  BY <1>1, ConsIs
<1>5. Linked(Seen, B, r, t)
  BY <1>1, <1>3, LinkedJoin
<1> HIDE DEF t
<1>6. /\ calls'[c].stack = t /\ calls'[c].req = calls[c].req
      /\ calls'[c].id = calls[c].id /\ calls'[c].before = calls[c].before
  BY <1>2, CallAfter
<1>7. Honours(Seen, B, r, t, calls[c].id)
  BY <1>3, <1>4, <1>5 DEF Honours
<1>8. Seen' = Seen
  BY SameSeen
<1> QED
  BY <1>4, <1>6, <1>7, <1>8 DEF Carried, r, B

LEMMA InvokeCarries ==
  ASSUME IInv, Clean, NEW c \in Callers, Busy(c), Carries(c), UNCHANGED <<memory, deleted>>,
         NEW g \in Frames(Contents), NEW h \in Frames(Contents), Invoke(c, g, <<h>>),
         Owes(Seen, Was(c), calls[c].req, g, CallerOf(Rest(c))),
         Owes(Seen, Was(c), calls[c].req, h, g),
         Goes(Seen, Was(c), calls[c].req, h, g)
  PROVE  Carried(c)
<1> DEFINE r == calls[c].req
           s == Rest(c)
           B == Was(c)
           u == <<g>> \o s
           t == <<h>> \o u
<1>1. s \in Seq(Frames(Contents))
  BY TopSound
<1>2. calls' = [calls EXCEPT ![c].stack = <<h>> \o <<g>> \o s]
  BY DEF Invoke, Rest
<1>3. /\ Linked(Seen, B, r, s) /\ Owes(Seen, B, r, g, CallerOf(s))
      /\ Owes(Seen, B, r, h, g) /\ Goes(Seen, B, r, h, g)
      /\ Framed(Seen, B, r) /\ Mirrors(Seen, B, r)
      /\ r.op = "write" => Seen[r.p] = File(<<calls[c].id>>, "default")
  BY DEF Carries
<1> HIDE DEF r, s, B
<1>4. u \in Seq(Frames(Contents)) /\ u # <<>> /\ Head(u) = g
  BY <1>1, ConsIs
<1>5. <<h>> \o <<g>> \o s = t
  <2>1. <<h>> \in Seq(Frames(Contents)) /\ <<g>> \in Seq(Frames(Contents))
    OBVIOUS
  <2> QED  BY <1>1, <2>1, ConcatAssociative
<1>6. Linked(Seen, B, r, u)
  BY <1>1, <1>3, LinkedJoin
<1> HIDE DEF u
<1>7. CallerOf(u) = g
  BY <1>4 DEF CallerOf
<1>8. t # <<>> /\ Head(t) = h /\ Tail(t) = u
  BY <1>4, ConsIs
<1>9. Linked(Seen, B, r, t)
  BY <1>3, <1>4, <1>6, <1>7, LinkedJoin
<1> HIDE DEF t
<1>10. /\ calls'[c].stack = t /\ calls'[c].req = calls[c].req
       /\ calls'[c].id = calls[c].id /\ calls'[c].before = calls[c].before
  BY <1>2, <1>5, CallAfter
<1>11. Honours(Seen, B, r, t, calls[c].id)
  BY <1>3, <1>7, <1>8, <1>9 DEF Honours
<1>12. Seen' = Seen
  BY SameSeen
<1> QED
  BY <1>8, <1>10, <1>11, <1>12 DEF Carried, r, B

\* What is owed does not depend on how what was awaited ended.
LEMMA OwesAnswered ==
  ASSUME NEW W, NEW f \in Frames(W), NEW ret, NEW S, NEW B, NEW r, NEW g, Owes(S, B, r, f, g)
  PROVE  Owes(S, B, r, [f EXCEPT !.ret = ret], g)
<1> DEFINE e == [f EXCEPT !.ret = ret]
<1>1. /\ e.op = f.op /\ e.p = f.p /\ e.q = f.q /\ e.o = f.o /\ e.pc = f.pc /\ e.kids = f.kids
  BY DEF Frames
<1> HIDE DEF e
<1>2. Owes(S, B, r, e, g)
  BY <1>1 DEF Owes
<1> QED
  BY <1>2 DEF e

(* How the invocation of c ends: with what its caller awaits, or the call  *)
(* with what was promised.                                                 *)
Settles(c, out) ==
  LET r == calls[c].req
      s == Rest(c)
  IN
  /\ \A x \in Paths : Seen'[x] # Seen[x] => Footprint(r, x)
  /\ Spares(Seen, Seen', Was(c), r)
  /\ s = <<>> => Delivers(Seen', Was(c), r, calls[c].id, out)
  /\ s # <<>> =>
       /\ r.op # "write"
       /\ Goes(Seen', Was(c), r, [Head(s) EXCEPT !.ret = out], CallerOf(Tail(s)))

LEMMA ReturnCarries ==
  ASSUME IInv, Clean, NEW c \in Callers, Busy(c), Carries(c), NEW out \in Codes, Return(c, out),
         Settles(c, out)
  PROVE  Carried(c)
<1> DEFINE r == calls[c].req
           s == Rest(c)
           B == Was(c)
           T == Seen'
<1>1. s \in Seq(Frames(Contents)) /\ r.p \in Paths /\ r.q \in Paths
  BY TopSound
<1>2. Framed(T, B, r)
  <2>1. Framed(Seen, B, r)
    BY DEF Carries
  <2>2. \A x \in Paths : T[x] # Seen[x] => Footprint(r, x)
    BY DEF Settles
  <2> HIDE DEF r, B, T
  <2> QED  BY <2>1, <2>2 DEF Framed
<1>3. Spares(Seen, T, B, r) /\ Mirrors(Seen, B, r)
  BY DEF Settles, Carries
<1>4. Mirrors(T, B, r)
  <2> HIDE DEF r, B, T
  <2> QED  BY <1>3, SparesMirrors
<1>5. CASE s = <<>>
  <2>1. calls' = [calls EXCEPT ![c] = Idle(out)]
    BY <1>5 DEF Return, Rest
  <2>2. DOMAIN calls = Callers
    BY DEF IInv, CallsInv, CallsFit
  <2>3. calls'[c].stack = <<>> /\ calls'[c].out = out
    BY <2>1, <2>2 DEF Idle
  <2>4. Delivers(T, B, r, calls[c].id, out)
    BY <1>5 DEF Settles
  <2> QED  BY <1>2, <1>4, <2>3, <2>4 DEF Carried
<1>6. CASE s # <<>>
  <2> DEFINE g == [Head(s) EXCEPT !.ret = out]
             u == Tail(s)
             t == <<g>> \o u
  <2>1. calls' = [calls EXCEPT ![c].stack = t]
    BY <1>6 DEF Return, Rest
  <2>2. r.op # "write" /\ Goes(T, B, r, g, CallerOf(u))
    BY <1>6 DEF Settles
  <2>3. Linked(Seen, B, r, s)
    BY DEF Carries
  <2> HIDE DEF r, B, T, s
  <2>4. Linked(T, B, r, s)
    <3>1. r.op \in {"cp", "mv"} =>
            \A y \in Paths : Copied(Seen, B, r, y) => Copied(T, B, r, y)
      BY <1>1, <1>3, SparesCopied
    <3> QED  BY <2>3, <3>1, LinkedLater
  <2>5. Head(s) \in Frames(Contents) /\ u \in Seq(Frames(Contents))
    BY <1>1, <1>6, HeadIs
  <2>6. Owes(T, B, r, Head(s), CallerOf(u)) /\ Linked(T, B, r, u)
    BY <1>1, <1>6, <2>4, LinkedSplit
  <2>7. g \in Frames(Contents)
    BY <2>5 DEF Frames
  <2>8. Owes(T, B, r, g, CallerOf(u))
    BY <2>5, <2>6, OwesAnswered
  <2> HIDE DEF g, u
  <2>9. Linked(T, B, r, t)
    BY <2>5, <2>6, <2>7, <2>8, LinkedJoin
  <2>10. t # <<>> /\ Head(t) = g /\ Tail(t) = u
    BY <2>5, <2>7, ConsIs
  <2> HIDE DEF t
  <2>11. /\ calls'[c].stack = t /\ calls'[c].req = calls[c].req
         /\ calls'[c].id = calls[c].id /\ calls'[c].before = calls[c].before
    BY <2>1, CallAfter
  <2>12. Honours(T, B, r, t, calls[c].id)
    BY <1>2, <1>4, <2>2, <2>9, <2>10 DEF Honours
  <2> QED  BY <2>10, <2>11, <2>12 DEF Carried, r, B, T
<1> QED
  BY <1>5, <1>6

-----------------------------------------------------------------------------
(* How invocations go on and end.                                          *)

\* The invocation f goes on waiting.
LEMMA OwesLike ==
  ASSUME NEW S, NEW B, NEW r, NEW f, NEW h, Owes(S, B, r, f, h), f.op # "mv",
         NEW g, NEW pc, NEW has, NEW res, NEW kids, Remade(g, f, pc, has, res, kids),
         h.op = "none" /\ f.op = "mkdir" /\ pc \in {"parent", "made"} => B[f.p].t = "err",
         h.op = "none" /\ f.op = "rm" /\ pc # "exists" => B[f.p].t # "err",
         f.op = "cp" /\ pc # "exists" => B[f.p].t # "err",
         f.op = "cp" /\ pc = "list" => \A k \in ToSet(kids) : B[Child(f.p, k)].t # "err"
  PROVE  Owes(S, B, r, g, h)
BY DEF Owes, Remade

LEMMA AwaitTop ==
  ASSUME IInv, IInv', Clean, NEW c \in Callers, Busy(c), Carries(c),
         UNCHANGED <<memory, deleted, made>>,
         NEW g, Await(c, g),
         Owes(Seen, Was(c), calls[c].req, g, CallerOf(Rest(c))),
         Goes(Seen, Was(c), calls[c].req, g, CallerOf(Rest(c)))
  PROVE  Carried(c)
<1>1. g \in Frames(Contents)
  BY Typed
<1> QED
  BY <1>1, AwaitCarries

LEMMA InvokeTop ==
  ASSUME IInv, IInv', Clean, NEW c \in Callers, Busy(c), Carries(c),
         UNCHANGED <<memory, deleted, made>>,
         NEW g, NEW r \in Reqs, r.op \notin {"append", "write", "mv"}, Invoke(c, g, Enter(r)),
         Owes(Seen, Was(c), calls[c].req, g, CallerOf(Rest(c))),
         \A h \in Frames(Contents) : Fresh(h, r) =>
           /\ Owes(Seen, Was(c), calls[c].req, h, g)
           /\ Goes(Seen, Was(c), calls[c].req, h, g)
  PROVE  Carried(c)
<1>1. PICK h \in Frames(Contents) : Enter(r) = <<h>> /\ Fresh(h, r)
  BY Entered DEF IInv
<1>2. g \in Frames(Contents)
  BY <1>1, Typed
<1>3. /\ Owes(Seen, Was(c), calls[c].req, h, g)
      /\ Goes(Seen, Was(c), calls[c].req, h, g)
      /\ Invoke(c, g, <<h>>)
  BY <1>1
<1> QED
  BY <1>2, <1>3, InvokeCarries

(* What ends with out, called by g, has done what g awaits.                *)
Answers(T, B, r, f, g, out) ==
  /\ f.op \in {"mkdir", "cp"} /\ r.op \in {"cp", "mv"} => SourceSame(T, B, r)
  /\ f.op = "mkdir" /\ g.op = "cp" => out = "ok"
  /\ f.op = "rm" /\ g.op = "mv" => out = "ok" /\ T[r.p].t = "err"
  /\ f.op = "cp" /\ g.op = "cp" =>
       /\ out \in {"ok", "EFBIG"}
       /\ CopiedBut(T, B, r, g.p, f.p, g.kids)
       /\ out = "ok" => AllCopied(T, B, r, f.p)
       /\ out = "EFBIG" => SomeBig(B, r)
  /\ f.op = "cp" /\ g.op = "mv" =>
       /\ out \in {"ok", "ENOENT", "EFBIG"}
       /\ out = "ok" => B[r.p].t # "err" /\ AllCopied(T, B, r, r.p)
       /\ out = "ENOENT" => T = B /\ B[r.p].t = "err"
       /\ out = "EFBIG" => B[r.p].t # "err" /\ SomeBig(B, r)

LEMMA GoesAnswered ==
  ASSUME NEW W, NEW g \in Frames(W), NEW K, NEW f, CalledBy(K, f, g), NEW out,
         NEW T, NEW B, NEW r, Answers(T, B, r, f, g, out), NEW h
  PROVE  Goes(T, B, r, [g EXCEPT !.ret = out], h)
<1> DEFINE e == [g EXCEPT !.ret = out]
<1>1. /\ e.op = g.op /\ e.p = g.p /\ e.q = g.q /\ e.o = g.o /\ e.pc = g.pc /\ e.kids = g.kids
      /\ e.ret = out
  BY DEF Frames
<1> HIDE DEF e
<1>2. e.pc \notin {"exists", "parent", "stat", "read", "new"}
  BY <1>1 DEF CalledBy
<1>3. f.op = "cp" /\ g.op = "cp" /\ out = "ok" =>
        \A y \in Paths : Under(y, g.p) =>
          Copied(T, B, r, y) \/ \E k \in ToSet(g.kids) : Under(y, Child(g.p, k))
  BY DEF Answers, CopiedBut, AllCopied
<1>4. Goes(T, B, r, e, h)
  <2>1. CASE g.op = "mkdir"
    BY <1>1, <1>2, <2>1 DEF Goes, CalledBy, Answers
  <2>2. CASE g.op = "rm"
    BY <1>1, <1>2, <2>2 DEF Goes, CalledBy, Answers
  <2>3. CASE g.op = "cp"
    BY <1>1, <1>2, <1>3, <2>3 DEF Goes, CalledBy, Answers
  <2>4. CASE g.op = "mv"
    BY <1>1, <1>2, <2>4 DEF Goes, CalledBy, Answers
  <2> QED  BY <2>1, <2>2, <2>3, <2>4 DEF CalledBy
<1> QED
  BY <1>4 DEF e

\* Who waits for the invocation of c.
LEMMA CallerIs ==
  ASSUME IInv, Clean, NEW c \in Callers, Busy(c), Rest(c) # <<>>
  PROVE  /\ CallerOf(Rest(c)) = Head(Rest(c)) /\ Head(Rest(c)) \in Frames(Contents)
         /\ CalledBy(Kinds, Top(c), Head(Rest(c))) /\ Head(Rest(c)).op # "none"
         /\ Top(c).op \in {"mkdir", "cp", "rm"} /\ calls[c].req.op # "write"
<1>1. Rest(c) \in Seq(Frames(Contents)) /\ OnTop(Kinds, Top(c), Rest(c))
      /\ Belongs(Top(c), calls[c].req)
  BY TopSound
<1>2. Head(Rest(c)) \in Frames(Contents)
  BY <1>1, HeadIs
<1>3. CalledBy(Kinds, Top(c), Head(Rest(c)))
  BY <1>1 DEF OnTop
<1>4. Top(c).op \in {"mkdir", "cp", "rm"} /\ Head(Rest(c)).op # "none"
  BY <1>3 DEF CalledBy
<1> QED
  BY <1>1, <1>2, <1>3, <1>4 DEF CallerOf, Belongs

LEMMA CallerNone == CallerOf(<<>>) = Nobody /\ Nobody.op = "none"
BY DEF CallerOf, Nobody

\* The invocation of c ends.
LEMMA EndsTop ==
  ASSUME IInv, Clean, NEW c \in Callers, Busy(c), Carries(c), NEW out \in Codes, Return(c, out),
         Stays(c),
         Spares(Seen, Seen', Was(c), calls[c].req),
         Rest(c) = <<>> => Delivers(Seen', Was(c), calls[c].req, calls[c].id, out),
         Rest(c) # <<>> =>
           Answers(Seen', Was(c), calls[c].req, Top(c), Head(Rest(c)), out)
  PROVE  Carried(c)
<1>1. \A x \in Paths : Seen'[x] # Seen[x] => Footprint(calls[c].req, x)
  <2>1. \A x \in Paths : Seen'[x] = Lstat(x)' /\ Seen[x] = Lstat(x)
    BY DEF Seen
  <2> QED  BY <2>1 DEF Stays
<1>2. ASSUME Rest(c) # <<>>
      PROVE  /\ calls[c].req.op # "write"
             /\ Goes(Seen', Was(c), calls[c].req, [Head(Rest(c)) EXCEPT !.ret = out],
                     CallerOf(Tail(Rest(c))))
  <2>1. /\ Head(Rest(c)) \in Frames(Contents) /\ calls[c].req.op # "write"
        /\ CalledBy(Kinds, Top(c), Head(Rest(c)))
    BY <1>2, CallerIs
  <2>2. Answers(Seen', Was(c), calls[c].req, Top(c), Head(Rest(c)), out)
    BY <1>2
  <2> QED  BY <2>1, <2>2, GoesAnswered
<1>3. Settles(c, out)
  BY <1>1, <1>2 DEF Settles
<1> QED
  BY <1>3, ReturnCarries

\* ... and changes nothing.
LEMMA ThrowTop ==
  ASSUME IInv, Clean, NEW c \in Callers, Busy(c), Carries(c), NEW out \in Codes, Throw(c, out),
         Rest(c) = <<>> => Delivers(Seen, Was(c), calls[c].req, calls[c].id, out),
         Rest(c) # <<>> =>
           Answers(Seen, Was(c), calls[c].req, Top(c), Head(Rest(c)), out)
  PROVE  Carried(c)
<1>1. Seen' = Seen /\ Return(c, out)
  BY SameSeen DEF Throw
<1>2. Stays(c)
  BY LayersSame, SameSeen DEF Throw, Stays, Lstat, Visible, EntryAt
<1>3. Spares(Seen, Seen', Was(c), calls[c].req)
  BY <1>1 DEF Spares
<1> QED
  BY <1>1, <1>2, <1>3, EndsTop

\* What is at or above the target of a copy is not in its source.
LEMMA TargetApart ==
  ASSUME NEW K, NEW r, Copying(K, r), r.p \in Paths, r.q \in Paths, NEW x \in Paths,
         Under(x, r.q) \/ x \in Ancestors(r.q)
  PROVE  ~Under(x, r.p)
<1> SUFFICES ASSUME Under(x, r.p) PROVE FALSE
  OBVIOUS
<1>1. ~Under(r.p, r.q) /\ ~Under(r.q, r.p)
  BY DEF Copying
<1>2. CASE Under(x, r.q)
  BY <1>1, <1>2, AboveBoth DEF Paths
<1>3. CASE x \in Ancestors(r.q)
  <2>1. Under(r.q, x)
    BY <1>3, AncestorContains DEF Paths
  <2> QED  BY <1>1, <2>1, UnderTrans DEF Paths
<1> QED
  BY <1>2, <1>3

LEMMA SourceStays ==
  ASSUME NEW K, NEW r, Copying(K, r), r.p \in Paths, r.q \in Paths,
         NEW S, NEW T, NEW B, SourceSame(S, B, r),
         \A x \in Paths : T[x] # S[x] => Under(x, r.q) \/ x \in Ancestors(r.q)
  PROVE  SourceSame(T, B, r)
<1> SUFFICES ASSUME NEW y \in Paths, Under(y, r.p)
             PROVE  T[y] = B[y]
  BY DEF SourceSame
<1>1. T[y] = S[y]
  BY TargetApart
<1> QED
  BY <1>1 DEF SourceSame

\* A directory is made for a copy.
LEMMA MakesForCopy ==
  ASSUME NEW K, NEW r, Copying(K, r), r.p \in Paths, r.q \in Paths,
         NEW S, NEW T, NEW B, SourceSame(S, B, r),
         NEW p \in Paths, Under(p, r.q) \/ p \in Ancestors(r.q),
         Under(p, r.q) => S[Moved(p, r.q, r.p)].t = "dir",
         T[p] = Dir("default"), \A x \in Paths : x # p => T[x] = S[x]
  PROVE  Spares(S, T, B, r) /\ SourceSame(T, B, r)
<1>1. SourceSame(T, B, r)
  BY SourceStays
<1>2. ASSUME Under(p, r.q)
      PROVE  B[Moved(p, r.q, r.p)].t # "err" /\ Same(T[p], B[Moved(p, r.q, r.p)])
  <2>1. Moved(p, r.q, r.p) \in Paths /\ Under(Moved(p, r.q, r.p), r.p)
    BY <1>2, MovedUnder DEF Paths
  <2>2. B[Moved(p, r.q, r.p)].t = "dir"
    BY <1>2, <2>1 DEF SourceSame
  <2> QED  BY <2>2 DEF Same, Dir
<1> QED
  BY <1>1, <1>2 DEF Spares

\* What is removed is not below the target of a copy.
LEMMA RazesApart ==
  ASSUME NEW K, NEW r, r.op \in {"cp", "mv"} => Copying(K, r), r.p \in Paths, r.q \in Paths,
         NEW S, NEW T, NEW B, NEW p \in Paths, Under(p, r.p),
         \A x \in Paths : x # p => T[x] = S[x]
  PROVE  Spares(S, T, B, r)
BY TargetApart DEF Spares

\* What a call found is apart from its target.
LEMMA WasApart ==
  ASSUME NEW c \in Callers, Carries(c)
  PROVE  calls[c].req.op \in {"cp", "mv"} => Copying(KindsOf(Was(c)), calls[c].req)
BY DEF Carries, Found, Starts, Was

\* What is known of the invocation of c.
LEMMA TopIs ==
  ASSUME IInv, Clean, NEW c \in Callers, Busy(c), Carries(c)
  PROVE  /\ Owes(Seen, Was(c), calls[c].req, Top(c), CallerOf(Rest(c)))
         /\ Goes(Seen, Was(c), calls[c].req, Top(c), CallerOf(Rest(c)))
         /\ Top(c).p \in Paths /\ Top(c).q \in Paths /\ Top(c).o \in Options
         /\ Top(c) \in Frames(Contents) /\ Belongs(Top(c), calls[c].req)
         /\ Kept(Kinds, Top(c), calls[c].req) /\ Ready(Kinds, Top(c))
         /\ calls[c].req.p \in Paths /\ calls[c].req.q \in Paths
         /\ SeenIs
<1>1. /\ Owes(Seen, Was(c), calls[c].req, Top(c), CallerOf(Rest(c)))
      /\ Goes(Seen, Was(c), calls[c].req, Top(c), CallerOf(Rest(c)))
  BY DEF Carries
<1>2. Top(c).p \in Paths /\ Top(c).q \in Paths /\ Top(c).o \in Options
  BY TopSound DEF Frames, Paths
<1> QED
  BY <1>1, <1>2, TopSound, SeenHere

-----------------------------------------------------------------------------
(* The steps of mkdir.                                                     *)

LEMMA MakesCarries ==
  ASSUME IInv, Clean, NEW c \in Callers, Busy(c), Carries(c), Top(c).op = "mkdir",
         MakeDir(Top(c).p), Return(c, "ok"), Stays(c), UNCHANGED made,
         Rest(c) = <<>> =>
           /\ Was(c)[Top(c).p].t = "err"
           /\ \/ Top(c).o.rec \/ Parent(Top(c).p) = Root
              \/ Was(c)[Parent(Top(c).p)].t # "err"
  PROVE  Carried(c)
<1> DEFINE f == Top(c)
           r == calls[c].req
           B == Was(c)
           T == Seen'
<1>1. /\ Owes(Seen, B, r, f, CallerOf(Rest(c))) /\ Goes(Seen, B, r, f, CallerOf(Rest(c)))
      /\ f.p \in Paths /\ Belongs(f, r) /\ Kept(Kinds, f, r)
      /\ r.p \in Paths /\ r.q \in Paths /\ SeenIs
  BY TopIs
<1>2. T[f.p] = Dir("default")
  BY <1>1, MakeDirSeen
<1>3. \A x \in Paths : x # f.p => T[x] = Seen[x]
  <2>1. Only({f.p})
    BY SameContents, MakeDirFits DEF IInv
  <2> HIDE DEF f, T
  <2> QED  BY <2>1, OnlySeen DEF T
<1>4. f.op = "mkdir"
  OBVIOUS
<1>5. Rest(c) = <<>> =>
        /\ B[f.p].t = "err"
        /\ f.o.rec \/ Parent(f.p) = Root \/ B[Parent(f.p)].t # "err"
  OBVIOUS
<1> HIDE DEF f, r, B, T
<1>6. ASSUME r.op \in {"cp", "mv"}
      PROVE  Spares(Seen, T, B, r) /\ SourceSame(T, B, r)
  <2>1. /\ Copying(Kinds, r)
        /\ Under(f.p, r.q) => Kinds[Moved(f.p, r.q, r.p)] = "dir"
    BY <1>1, <1>4, <1>6 DEF Kept
  <2>2. Under(f.p, r.q) \/ f.p \in Ancestors(r.q)
    BY <1>1, <1>4, <1>6 DEF Belongs
  <2>3. SourceSame(Seen, B, r)
    BY <1>1, <1>4, <1>6 DEF Goes
  <2>4. Under(f.p, r.q) => Seen[Moved(f.p, r.q, r.p)].t = "dir"
    <3>1. Under(f.p, r.q) => Moved(f.p, r.q, r.p) \in Paths
      BY <1>1, MovedUnder DEF Paths
    <3> QED  BY <1>1, <2>1, <3>1 DEF SeenIs
  <2> QED  BY <1>1, <1>2, <1>3, <2>1, <2>2, <2>3, <2>4, MakesForCopy
<1>7. Spares(Seen, T, B, r)
  BY <1>6 DEF Spares
<1>8. ASSUME Rest(c) = <<>>
      PROVE  Delivers(T, B, r, calls[c].id, "ok")
  <2>1. r.op = "mkdir" /\ f.p = r.p /\ f.o = r.o
    BY <1>1, <1>4, <1>8, CallerNone DEF Owes
  <2> QED  BY <1>2, <1>5, <1>8, <2>1 DEF Delivers, Dir
<1>9. Rest(c) # <<>> => Answers(T, B, r, f, Head(Rest(c)), "ok")
  BY <1>4, <1>6 DEF Answers
<1>10. "ok" \in Codes
  BY DEF Codes
<1> QED
  BY <1>7, <1>8, <1>9, <1>10, EndsTop DEF f, r, B, T

\* A mkdir that throws, or finds its directory, is the call itself or has
\* left the source of a copy alone.
LEMMA MkdirThrows ==
  ASSUME IInv, Clean, NEW c \in Callers, Busy(c), Carries(c), Top(c).op = "mkdir",
         NEW out \in Codes, Throw(c, out),
         Rest(c) # <<>> => out = "ok",
         Rest(c) = <<>> =>
           LET b == Was(c)[Top(c).p].t IN
           /\ Seen = Was(c)
           /\ \/ b # "err" /\ out = IF Top(c).o.rec THEN "ok" ELSE "EEXIST"
              \/ /\ b = "err" /\ out = "ENOENT"
                 /\ ~Top(c).o.rec /\ Parent(Top(c).p) # Root
                 /\ Was(c)[Parent(Top(c).p)].t = "err"
  PROVE  Carried(c)
<1> DEFINE f == Top(c)
           r == calls[c].req
           B == Was(c)
<1>1. /\ Owes(Seen, B, r, f, CallerOf(Rest(c))) /\ Goes(Seen, B, r, f, CallerOf(Rest(c)))
  BY TopIs
<1>2. ASSUME Rest(c) = <<>>
      PROVE  Delivers(Seen, B, r, calls[c].id, out)
  <2>1. r.op = "mkdir" /\ f.p = r.p /\ f.o = r.o
    BY <1>1, <1>2, CallerNone DEF Owes
  <2>2. /\ Seen = B
        /\ \/ B[f.p].t # "err" /\ out = IF f.o.rec THEN "ok" ELSE "EEXIST"
           \/ /\ B[f.p].t = "err" /\ out = "ENOENT"
              /\ ~f.o.rec /\ Parent(f.p) # Root
              /\ B[Parent(f.p)].t = "err"
    BY <1>2
  <2> HIDE DEF f, r, B
  <2> QED  BY <2>1, <2>2 DEF Delivers
<1>3. ASSUME Rest(c) # <<>>
      PROVE  Answers(Seen, B, r, f, Head(Rest(c)), out)
  <2>1. f.op = "mkdir" /\ out = "ok"
    BY <1>3
  <2>2. r.op \in {"cp", "mv"} => SourceSame(Seen, B, r)
    BY <1>1, <2>1 DEF Goes
  <2> HIDE DEF f, r, B
  <2> QED  BY <2>1, <2>2 DEF Answers
<1> HIDE DEF f, r, B
<1> QED
  BY <1>2, <1>3, ThrowTop DEF f, r, B

\* Who waits for a mkdir called it to be recursive.
LEMMA NestedMkdir ==
  ASSUME IInv, Clean, NEW c \in Callers, Busy(c), Rest(c) # <<>>, Top(c).op = "mkdir"
  PROVE  Top(c).o.rec
BY CallerIs DEF CalledBy

LEMMA MkdirCarries ==
  ASSUME IInv, IInv', Clean, NEW c \in Callers, MkdirExists(c) \/ MkdirParent(c) \/ MkdirMade(c),
         UNCHANGED <<made, calm>>, Carries(c)
  PROVE  Carried(c)
<1> DEFINE f == Top(c)
           r == calls[c].req
           B == Was(c)
           g == CallerOf(Rest(c))
<1>1. Busy(c) /\ f.op = "mkdir"
  BY DEF MkdirExists, MkdirParent, MkdirMade, Runs, At
<1>2. Stays(c)
  BY MkdirSteps
<1>3. /\ Owes(Seen, B, r, f, g) /\ Goes(Seen, B, r, f, g)
      /\ f.p \in Paths /\ f.o \in Options /\ f \in Frames(Contents)
      /\ Kept(Kinds, f, r) /\ Ready(Kinds, f) /\ SeenIs
  BY <1>1, TopIs
<1>4. Rest(c) = <<>> => g.op = "none"
  BY CallerNone
<1>5. Rest(c) # <<>> => f.o.rec
  BY <1>1, NestedMkdir
<1>6. {"ok", "EEXIST", "ENOENT"} \subseteq Codes
  BY DEF Codes
<1>7. f.pc \in {"exists", "parent"} /\ g.op = "none" => Seen = B
  BY <1>3 DEF Goes
<1>8. f.pc = "exists" => (f.has <=> Seen[f.p].t # "err")
  BY <1>3 DEF Goes
<1>9. f.pc = "parent" => (f.has <=> Seen[Parent(f.p)].t # "err")
  BY <1>3 DEF Goes
<1>10. r.op \in {"cp", "mv"} => SourceSame(Seen, B, r)
  BY <1>1, <1>3 DEF Goes
<1>11. f.pc \in {"parent", "made"} /\ g.op = "none" => B[f.p].t = "err"
  BY <1>1, <1>3 DEF Owes
<1>12. CASE MkdirExists(c)
  <2>1. f.pc = "exists"
    BY <1>12 DEF MkdirExists, Runs, At
  <2>2. ASSUME f.has, Throw(c, IF f.o.rec THEN "ok" ELSE "EEXIST")
        PROVE  Carried(c)
    <3> DEFINE out == IF f.o.rec THEN "ok" ELSE "EEXIST"
    <3>1. out \in Codes
      BY <1>6
    <3>2. Rest(c) # <<>> => out = "ok"
      BY <1>5
    <3>3. Rest(c) = <<>> => Seen = B /\ B[f.p].t # "err"
      BY <1>4, <1>7, <1>8, <2>1, <2>2
    <3> QED  BY <1>1, <2>2, <3>1, <3>2, <3>3, MkdirThrows
  <2>3. ASSUME ~f.has, Parent(f.p) = Root, MakeDir(f.p), Return(c, "ok")
        PROVE  Carried(c)
    <3>1. Rest(c) = <<>> => B[f.p].t = "err"
      BY <1>4, <1>7, <1>8, <2>1, <2>3
    <3> QED  BY <1>1, <1>2, <2>3, <3>1, MakesCarries
  <2>4. ASSUME ~f.has, Parent(f.p) # Root, NEW e,
               e = [f EXCEPT !.pc = "parent", !.has = Visible(Parent(f.p))],
               Await(c, e), UNCHANGED <<memory, deleted>>
        PROVE  Carried(c)
    <3>1. Remade(e, f, "parent", Visible(Parent(f.p)), f.res, f.kids)
      BY Zenon, <1>3, <2>4, Remakes
    <3>2. g.op = "none" => B[f.p].t = "err" /\ Seen = B
      BY <1>7, <1>8, <2>1, <2>4
    <3>3. Owes(Seen, B, r, e, g)
      <4> HIDE DEF f, r, B, g
      <4>1. f.op = "mkdir"
        BY <1>1
      <4> QED  BY <1>3, <3>1, <3>2, <4>1, OwesLike
    <3>4. Visible(Parent(f.p)) <=> Seen[Parent(f.p)].t # "err"
      <4>1. Parent(f.p) \in Paths
        BY <1>3, <2>4, ParentAbove DEF Paths
      <4> QED  BY <1>3, <4>1 DEF SeenIs
    <3>5. Goes(Seen, B, r, e, g)
      <4>1. e.op = "mkdir" /\ e.pc = "parent" /\ e.p = f.p /\ e.has = Visible(Parent(f.p))
        BY <1>1, <3>1 DEF Remade
      <4> HIDE DEF f, r, B, g
      <4> QED  BY <1>10, <3>2, <3>4, <4>1 DEF Goes
    <3> QED  BY <1>1, <2>4, <3>3, <3>5, AwaitTop
  <2> QED  BY <1>12, <2>2, <2>3, <2>4 DEF MkdirExists
<1>13. CASE MkdirParent(c)
  <2>1. f.pc = "parent"
    BY <1>13 DEF MkdirParent, Runs, At
  <2>2. Parent(f.p) # Root
    BY <1>1, <2>1, TopSound DEF Shaped
  <2>3. ASSUME f.has, MakeDir(f.p), Return(c, "ok")
        PROVE  Carried(c)
    <3>1. Rest(c) = <<>> => B[f.p].t = "err" /\ B[Parent(f.p)].t # "err"
      BY <1>4, <1>7, <1>9, <1>11, <2>1, <2>3
    <3> QED  BY <1>1, <1>2, <2>3, <3>1, MakesCarries
  <2>4. ASSUME ~f.has, ~f.o.rec, Throw(c, "ENOENT")
        PROVE  Carried(c)
    <3>1. Rest(c) = <<>> => /\ Seen = B /\ B[f.p].t = "err" /\ B[Parent(f.p)].t = "err"
      BY <1>4, <1>7, <1>9, <1>11, <2>1, <2>4
    <3> QED  BY <1>1, <1>5, <1>6, <2>2, <2>4, <3>1, MkdirThrows
  <2>5. ASSUME ~f.has, f.o.rec, NEW e, NEW a, e = [f EXCEPT !.pc = "made"],
               a = Req("mkdir", Parent(f.p), Root, f.o),
               Invoke(c, e, Enter(a)), UNCHANGED <<memory, deleted>>
        PROVE  Carried(c)
    <3>1. Remade(e, f, "made", f.has, f.res, f.kids)
      BY Zenon, <1>3, <2>5, Remakes
    <3>2. Parent(f.p) \in Paths
      BY <1>3, <2>2, ParentAbove DEF Paths
    <3>3. a \in Reqs /\ a.op = "mkdir" /\ a.p = Parent(f.p)
      BY <1>3, <2>5, <3>2, JoinRoot DEF Reqs, Req, Paths, OpNames
    <3>4. Owes(Seen, B, r, e, g)
      <4> HIDE DEF f, r, B, g
      <4>1. f.op = "mkdir"
        BY <1>1
      <4>2. g.op = "none" => B[f.p].t = "err"
        BY <1>11, <2>1
      <4> QED  BY <1>3, <3>1, <4>1, <4>2, OwesLike
    <3>5. e.op = "mkdir"
      BY <1>1, <3>1 DEF Remade
    <3>6. ASSUME NEW h \in Frames(Contents), Fresh(h, a)
          PROVE  Owes(Seen, B, r, h, e) /\ Goes(Seen, B, r, h, e)
      <4>1. /\ h.op = "mkdir" /\ h.p = Parent(f.p) /\ h.pc = "exists"
            /\ h.has <=> Seen[h.p].t # "err"
        BY <1>3, <3>2, <3>3, <3>6 DEF Fresh, SeenIs
      <4> HIDE DEF f, r, B, g
      <4> QED  BY <1>10, <3>5, <4>1 DEF Owes, Goes
    <3> HIDE DEF f, r, B, g
    <3> QED  BY <1>1, <2>5, <3>3, <3>4, <3>6, InvokeTop DEF r, B, g
  <2> QED  BY <1>13, <2>3, <2>4, <2>5 DEF MkdirParent
<1>14. CASE MkdirMade(c)
  <2>1. f.pc = "made" /\ MakeDir(f.p) /\ Return(c, "ok")
    BY <1>14 DEF MkdirMade, Runs, At
  <2>2. f.o.rec
    BY <1>1, <1>3, <2>1 DEF Kept
  <2>3. Rest(c) = <<>> => B[f.p].t = "err"
    BY <1>4, <1>11, <2>1
  <2> QED  BY <1>1, <1>2, <2>1, <2>2, <2>3, MakesCarries
<1> QED
  BY <1>12, <1>13, <1>14

-----------------------------------------------------------------------------
(* The steps of rm.                                                        *)

LEMMA MarksCarries ==
  ASSUME IInv, Clean, NEW c \in Callers, Busy(c), Carries(c), Top(c).op = "rm",
         Top(c).pc # "exists", RmMark(c), Stays(c), UNCHANGED made
  PROVE  Carried(c)
<1> DEFINE f == Top(c)
           r == calls[c].req
           B == Was(c)
           T == Seen'
           g == CallerOf(Rest(c))
<1>1. /\ Owes(Seen, B, r, f, g)
      /\ f.p \in Paths /\ Belongs(f, r)
      /\ r.p \in Paths /\ r.q \in Paths
  BY TopIs
<1>2. f.op = "rm" /\ f.pc # "exists" /\ MarkDeleted(f.p) /\ Return(c, "ok")
  BY DEF RmMark
<1>3. T[f.p] = Err("ENOENT")
  BY <1>1, <1>2, MarkSeen
<1>4. \A x \in Paths : x # f.p => T[x] = Seen[x]
  <2>1. f.p # Root
    BY <1>2, TopSound DEF Shaped
  <2>2. Only({f.p})
    BY <1>1, <1>2, <2>1, SameContents, MarkDeletedFits DEF IInv, Paths
  <2> HIDE DEF f, T
  <2> QED  BY <2>2, OnlySeen DEF T
<1>5. r.op \in {"cp", "mv"} => Copying(KindsOf(B), r)
  BY WasApart
<1>6. Rest(c) = <<>> => g.op = "none"
  BY CallerNone
<1>7. Rest(c) # <<>> => g = Head(Rest(c))
  BY CallerIs
<1> HIDE DEF f, r, B, T, g
<1>8. Spares(Seen, T, B, r)
  <2>1. Under(f.p, r.p)
    BY <1>1, <1>2 DEF Belongs
  <2> QED  BY <1>1, <1>4, <1>5, <2>1, RazesApart
<1>9. ASSUME Rest(c) = <<>>
      PROVE  Delivers(T, B, r, calls[c].id, "ok")
  <2>1. r.op = "rm" /\ f.p = r.p /\ B[f.p].t # "err"
    BY <1>1, <1>2, <1>6, <1>9 DEF Owes
  <2> QED  BY <1>3, <2>1 DEF Delivers, Err
<1>10. ASSUME Rest(c) # <<>>
       PROVE  Answers(T, B, r, f, Head(Rest(c)), "ok")
  <2>1. Head(Rest(c)).op = "mv" => f.p = r.p
    BY <1>1, <1>7, <1>10 DEF Owes
  <2> QED  BY <1>2, <1>3, <2>1 DEF Answers, Err
<1>11. "ok" \in Codes
  BY DEF Codes
<1> QED
  BY <1>2, <1>8, <1>9, <1>10, <1>11, EndsTop DEF f, r, B, T

LEMMA RmCarries ==
  ASSUME IInv, IInv', Clean, NEW c \in Callers, RmExists(c) \/ RmStat(c) \/ RmList(c),
         UNCHANGED <<made, calm>>, Carries(c)
  PROVE  Carried(c)
<1> DEFINE f == Top(c)
           r == calls[c].req
           B == Was(c)
           g == CallerOf(Rest(c))
<1>1. Busy(c) /\ f.op = "rm"
  BY DEF RmExists, RmStat, RmList, Runs, At
<1>2. Stays(c)
  BY RmSteps
<1>3. /\ Owes(Seen, B, r, f, g) /\ Goes(Seen, B, r, f, g)
      /\ f.p \in Paths /\ f.o \in Options /\ f \in Frames(Contents) /\ SeenIs
  BY <1>1, TopIs
<1>4. Rest(c) = <<>> => g.op = "none"
  BY CallerNone
<1>5. Rest(c) # <<>> => g = Head(Rest(c))
  BY <1>1, CallerIs
<1>6. {"ok", "ENOENT"} \subseteq Codes
  BY DEF Codes
<1>7. CASE RmExists(c)
  <2>1. f.pc = "exists"
    BY <1>7 DEF RmExists, Runs, At
  <2>2. f.has <=> Seen[f.p].t # "err"
    BY <1>3, <2>1 DEF Goes
  <2>3. g.op = "none" => Seen = B /\ f.op = r.op /\ f.p = r.p /\ f.o = r.o
    BY <1>3, <2>1 DEF Goes, Owes
  <2>4. ASSUME ~f.has, NEW out, out = IF f.o.force THEN "ok" ELSE "ENOENT", Throw(c, out)
        PROVE  Carried(c)
    <3>1. out \in Codes
      BY <1>6, <2>4
    <3>2. ASSUME Rest(c) = <<>>
          PROVE  Delivers(Seen, B, r, calls[c].id, out)
      <4>1. Seen = B /\ B[r.p].t = "err" /\ r.op = "rm" /\ out = IF r.o.force THEN "ok" ELSE "ENOENT"
        BY <1>1, <1>4, <2>2, <2>3, <2>4, <3>2
      <4> HIDE DEF f, r, B, g
      <4> QED  BY <4>1 DEF Delivers
    <3>3. ASSUME Rest(c) # <<>>
          PROVE  Answers(Seen, B, r, f, Head(Rest(c)), out)
      <4>1. Head(Rest(c)).op # "mv"
        BY <1>1, <1>3, <1>5, <2>1, <2>4, <3>3 DEF Goes
      <4> HIDE DEF r, B, g
      <4> QED  BY <1>1, <4>1 DEF Answers
    <3> QED  BY <1>1, <2>4, <3>1, <3>2, <3>3, ThrowTop
  <2>5. ASSUME f.has, NEW e, e = [f EXCEPT !.pc = "stat", !.res = Stat(f.p)],
               Await(c, e), UNCHANGED <<memory, deleted>>
        PROVE  Carried(c)
    <3>1. Remade(e, f, "stat", f.has, Stat(f.p), f.kids)
      BY Zenon, <1>3, <2>5, Remakes
    <3>2. g.op = "none" => Seen = B /\ B[f.p].t # "err"
      BY <2>2, <2>3, <2>5
    <3>3. Owes(Seen, B, r, e, g)
      <4>1. f.op = "rm"
        BY <1>1
      <4> HIDE DEF f, r, B, g
      <4> QED  BY <1>3, <3>1, <3>2, <4>1, OwesLike
    <3>4. Goes(Seen, B, r, e, g)
      <4>1. e.op = "rm" /\ e.pc = "stat"
        BY <1>1, <3>1 DEF Remade
      <4> HIDE DEF f, r, B, g
      <4> QED  BY <3>2, <4>1 DEF Goes
    <3> QED  BY <1>1, <2>5, <3>3, <3>4, AwaitTop
  <2> QED  BY <1>7, <2>4, <2>5 DEF RmExists
<1>8. g.op = "none" /\ f.pc # "exists" => B[f.p].t # "err"
  BY <1>1, <1>3 DEF Owes
<1>9. CASE RmStat(c)
  <2>1. f.pc = "stat"
    BY <1>9 DEF RmStat, Runs, At
  <2>2. CASE RmMark(c)
    BY <1>1, <1>2, <2>1, <2>2, MarksCarries
  <2>3. ASSUME NEW kids, NEW e, e = [f EXCEPT !.pc = "list", !.res = None, !.kids = kids],
               Await(c, e), UNCHANGED <<memory, deleted>>
        PROVE  Carried(c)
    <3>1. Remade(e, f, "list", f.has, None, kids)
      BY Zenon, <1>3, <2>3, Remakes
    <3>2. Owes(Seen, B, r, e, g)
      <4>1. f.op = "rm" /\ f.pc # "exists"
        BY <1>1, <2>1
      <4> HIDE DEF f, r, B, g
      <4> QED  BY <1>3, <1>8, <3>1, <4>1, OwesLike
    <3>3. Goes(Seen, B, r, e, g)
      <4>1. e.op = "rm" /\ e.pc = "list"
        BY <1>1, <3>1 DEF Remade
      <4> HIDE DEF f, r, B, g
      <4> QED  BY <4>1 DEF Goes
    <3> QED  BY <1>1, <2>3, <3>2, <3>3, AwaitTop
  <2> QED  BY <1>9, <2>2, <2>3 DEF RmStat
<1>10. CASE RmList(c)
  <2>1. f.pc = "list"
    BY <1>10 DEF RmList, Runs, At
  <2>2. CASE RmMark(c)
    BY <1>1, <1>2, <2>1, <2>2, MarksCarries
  <2>3. ASSUME f.kids # <<>>, NEW e, NEW a, e = [f EXCEPT !.kids = Tail(f.kids)],
               a = Req("rm", Child(f.p, Head(f.kids)), Root, f.o),
               Invoke(c, e, Enter(a)), UNCHANGED <<memory, deleted>>
        PROVE  Carried(c)
    <3>1. Remade(e, f, "list", f.has, f.res, Tail(f.kids))
      BY Zenon, <1>3, <2>1, <2>3, Remakes
    <3>2. Head(f.kids) \in Names
      <4>1. f.kids \in Seq(Names)
        BY <1>1, TopSound DEF Shaped
      <4> HIDE DEF f
      <4> QED  BY <2>3, <4>1, TailIs
    <3>3. a \in Reqs /\ a.op = "rm" /\ a.p \in Paths
      BY <1>3, <2>3, <3>2, JoinRoot, ChildIs DEF Reqs, Req, Paths, OpNames
    <3>4. Owes(Seen, B, r, e, g)
      <4>1. f.op = "rm" /\ f.pc # "exists"
        BY <1>1, <2>1
      <4> HIDE DEF f, r, B, g
      <4> QED  BY <1>3, <1>8, <3>1, <4>1, OwesLike
    <3>5. e.op = "rm"
      BY <1>1, <3>1 DEF Remade
    <3>6. ASSUME NEW h \in Frames(Contents), Fresh(h, a)
          PROVE  Owes(Seen, B, r, h, e) /\ Goes(Seen, B, r, h, e)
      <4>1. /\ h.op = "rm" /\ h.pc = "exists"
            /\ h.has <=> Seen[h.p].t # "err"
        BY <1>3, <3>3, <3>6 DEF Fresh, SeenIs
      <4>2. Owes(Seen, B, r, f, g) /\ f.op = "rm"
        BY <1>1, <1>3
      <4> HIDE DEF f, r, B, g
      <4> QED  BY <3>5, <4>1, <4>2 DEF Owes, Goes
    <3> HIDE DEF f, r, B, g
    <3> QED  BY <1>1, <2>3, <3>3, <3>4, <3>6, InvokeTop DEF r, B, g
  <2> QED  BY <1>10, <2>2, <2>3 DEF RmList
<1> QED
  BY <1>7, <1>9, <1>10

-----------------------------------------------------------------------------
(* The steps of cp.                                                        *)

(* A cp ends with out.                                                     *)
CopyEnds(T, B, r, f, out) ==
  /\ SourceSame(T, B, r)
  /\ \/ out = "ok" /\ B[f.p].t # "err" /\ (B[f.p].t = "dir" => f.o.rec) /\ AllCopied(T, B, r, f.p)
     \/ out = "EFBIG" /\ B[f.p].t # "err" /\ (B[f.p].t = "dir" => f.o.rec) /\ SomeBig(B, r)
     \/ out = "ENOENT" /\ B[f.p].t = "err" /\ T = B
     \/ out = "EISDIR" /\ B[f.p].t = "dir" /\ ~f.o.rec /\ T = B

\* ... and its caller, or the call, with it.
LEMMA CopyAnswers ==
  ASSUME NEW T, NEW B, NEW r, NEW f, f.op = "cp", NEW g, Owes(T, B, r, f, g), NEW out,
         NEW K, g.op # "none" => CalledBy(K, f, g),
         r.op \in {"cp", "mv"},
         CopyEnds(T, B, r, f, out)
  PROVE  /\ g.op = "none" => \A id : Delivers(T, B, r, id, out)
         /\ g.op # "none" => Answers(T, B, r, f, g, out)
<1>1. ASSUME g.op = "none", NEW id
      PROVE  Delivers(T, B, r, id, out)
  <2>1. r.op = "cp" /\ f.p = r.p /\ f.o = r.o
    BY <1>1 DEF Owes
  <2>2. \/ out = "ok" /\ B[r.p].t # "err" /\ (B[r.p].t = "dir" => r.o.rec) /\ AllCopied(T, B, r, r.p)
        \/ /\ out = "EFBIG" /\ B[r.p].t # "err" /\ (B[r.p].t = "dir" => r.o.rec)
           /\ SomeBig(B, r) /\ SourceSame(T, B, r)
        \/ out = "ENOENT" /\ B[r.p].t = "err" /\ T = B
        \/ out = "EISDIR" /\ B[r.p].t = "dir" /\ ~r.o.rec /\ T = B
    BY <2>1 DEF CopyEnds
  <2> QED  BY <2>1, <2>2 DEF Delivers
<1>2. CASE g.op = "cp"
  <2>1. B[f.p].t # "err" /\ f.o.rec
    BY <1>2 DEF Owes
  <2>2. g.pc = "list"
    BY <1>2 DEF CalledBy
  <2>3. CopiedBut(T, B, r, g.p, f.p, g.kids)
    BY <1>2, <2>2 DEF Owes
  <2> QED  BY <1>2, <2>1, <2>3 DEF Answers, CopyEnds
<1>3. CASE g.op = "mv"
  <2>1. f.p = r.p /\ f.o.rec
    BY <1>3 DEF Owes
  <2> QED  BY <1>3, <2>1 DEF Answers, CopyEnds
<1> QED
  BY <1>1, <1>2, <1>3 DEF CalledBy

\* A file is put for a copy.
LEMMA PutsForCopy ==
  ASSUME NEW S, NEW T, NEW B, NEW r, Copying(KindsOf(S), r), r.p \in Paths, r.q \in Paths,
         SourceSame(S, B, r), Hangs(KindsOf(S)), Hangs(KindsOf(T)),
         \A x \in Paths : S[x] \in Entries,
         NEW p \in Paths, NEW q \in Paths, Under(p, r.p), Under(q, r.q), p = Moved(q, r.q, r.p),
         S[p].t = "file", ~Big(S, p), T[q] = File(S[p].c, "default"),
         \A x \in Paths : x # q /\ x \notin Ancestors(q) => T[x] = S[x]
  PROVE  Spares(S, T, B, r) /\ SourceSame(T, B, r) /\ AllCopied(T, B, r, p)
<1>1. S[p] = B[p]
  BY DEF SourceSame
<1>2. Same(T[q], B[p])
  BY <1>1 DEF Same, File
<1>3. SourceSame(T, B, r)
  <2>1. \A x \in Ancestors(q) : Under(x, r.q) \/ x \in Ancestors(r.q)
    BY AncestorsUnder DEF Paths
  <2> QED  BY <2>1, SourceStays
<1>4. r.p # Root
  BY DEF Copying
<1>5. ASSUME NEW x \in Ancestors(q), Under(x, r.q)
      PROVE  B[Moved(x, r.q, r.p)].t # "err" /\ Same(T[x], B[Moved(x, r.q, r.p)])
  <2> DEFINE m == Moved(x, r.q, r.p)
  <2>1. x \in Paths
    BY AncestorPath
  <2>2. m \in Paths /\ Under(m, r.p)
    BY <1>5, <2>1, MovedUnder DEF Paths
  <2>3. m \in Ancestors(p)
    BY <1>4, <1>5, <2>1, MovedAbove DEF Paths
  <2> HIDE DEF m
  <2>4. S[m].t = "dir"
    BY <2>2, <2>3 DEF Hangs, KindsOf
  <2>5. T[q].t # "err"
    BY DEF File
  <2>6. T[x].t = "dir"
    BY <2>1, <2>5 DEF Hangs, KindsOf
  <2>7. B[m].t = "dir"
    BY <2>2, <2>4 DEF SourceSame
  <2> QED  BY <2>6, <2>7 DEF Same, m
<1>6. Spares(S, T, B, r)
  <2>1. \A x \in Paths : T[x] # S[x] => x = q \/ x \in Ancestors(q)
    OBVIOUS
  <2>2. B[Moved(q, r.q, r.p)].t # "err" /\ Same(T[q], B[Moved(q, r.q, r.p)])
    BY <1>1, <1>2
  <2> QED  BY <1>5, <2>1, <2>2 DEF Spares
<1>7. ASSUME NEW y \in Paths, Under(y, p)
      PROVE  Copied(T, B, r, y)
  <2>1. CASE y = p
    <3>1. Moved(p, r.p, r.q) = q
      BY MovedBack
    <3>2. ~Big(B, p)
      BY <1>1 DEF Big
    <3> QED  BY <1>2, <2>1, <3>1, <3>2 DEF Copied
  <2>2. CASE y # p
    <3>1. Below(y, p)
      BY <1>7, <2>2 DEF Below, Under, IsStrictPrefix
    <3>2. p # Root
      BY <1>4, UnderIs, LenProperties, EmptySeq DEF Root, Paths
    <3>3. KindsOf(S)[y] = "err"
      BY <3>1, <3>2, NoneBelow DEF KindsOf
    <3>4. Under(y, r.p)
      BY <1>7, UnderTrans DEF Paths
    <3>5. B[y].t = "err"
      BY <3>3, <3>4 DEF SourceSame, KindsOf
    <3> QED  BY <3>5 DEF Copied
  <2> QED  BY <2>1, <2>2
<1> QED
  BY <1>3, <1>6, <1>7 DEF AllCopied

\* What is known of a cp.
CopyFacts(c) ==
  LET f == Top(c)
      r == calls[c].req
      B == Was(c)
      g == CallerOf(Rest(c))
  IN
  /\ f.op = "cp" /\ r.op \in {"cp", "mv"}
  /\ Copying(Kinds, r) /\ SourceSame(Seen, B, r)
  /\ Under(f.p, r.p) /\ Under(f.q, r.q) /\ f.p = Moved(f.q, r.q, r.p)
  /\ Seen[f.p] = B[f.p] /\ Seen[f.p].t # "link" /\ Kinds[f.p] = Seen[f.p].t
  /\ Seen[f.p].t \in {"dir", "file", "err"}
  /\ B[f.p].t = "err" => f.pc = "exists" /\ g.op # "cp"
  /\ g.op # "none" => f.o.rec /\ CalledBy(Kinds, f, g)
  /\ f.pc = "exists" /\ g.op # "cp" => Seen = B
  /\ f.pc \in {"stat", "read"} /\ g.op = "none" => Seen = B
  /\ Rest(c) = <<>> => g.op = "none"
  /\ Rest(c) # <<>> => g = Head(Rest(c)) /\ g.op # "none"

LEMMA CopyIs ==
  ASSUME IInv, Clean, NEW c \in Callers, Busy(c), Carries(c), Top(c).op = "cp"
  PROVE  CopyFacts(c)
<1> DEFINE f == Top(c)
           r == calls[c].req
           B == Was(c)
           g == CallerOf(Rest(c))
<1>1. /\ Owes(Seen, B, r, f, g) /\ Goes(Seen, B, r, f, g)
      /\ f.p \in Paths /\ Belongs(f, r) /\ Kept(Kinds, f, r) /\ SeenIs
  BY TopIs
<1>2. f.op = "cp"
  OBVIOUS
<1>3. Rest(c) = <<>> => g.op = "none"
  BY CallerNone
<1>4. Rest(c) # <<>> => g = Head(Rest(c)) /\ CalledBy(Kinds, f, g) /\ g.op # "none"
  BY CallerIs
<1> HIDE DEF f, r, B, g
<1>5. r.op \in {"cp", "mv"}
  BY <1>1, <1>2 DEF Belongs
<1>6. /\ Copying(Kinds, r)
      /\ Under(f.p, r.p) /\ Under(f.q, r.q) /\ f.p = Moved(f.q, r.q, r.p)
  BY <1>1, <1>2 DEF Kept
<1>7. SourceSame(Seen, B, r)
  BY <1>1, <1>2, <1>5 DEF Goes
<1>8. Seen[f.p] = B[f.p]
  BY <1>1, <1>6, <1>7 DEF SourceSame
<1>9. /\ Kinds[f.p] = Seen[f.p].t /\ Seen[f.p].t # "link"
      /\ Seen[f.p].t \in {"dir", "file", "err"}
  <2>1. Kinds[f.p] = Seen[f.p].t /\ Seen[f.p] \in Entries
    BY <1>1 DEF SeenIs
  <2>2. Kinds[f.p] # "link"
    BY <1>1, <1>6 DEF Copying
  <2> QED  BY <2>1, <2>2, EntryIs
<1>10. g.op \in {"none", "cp", "mv"}
  BY <1>2, <1>3, <1>4 DEF CalledBy
<1>11. B[f.p].t = "err" => f.pc = "exists" /\ g.op # "cp"
  BY <1>1, <1>2 DEF Owes
<1>12. g.op # "none" => f.o.rec
  BY <1>1, <1>2 DEF Owes
<1>13. /\ f.pc = "exists" /\ g.op # "cp" => Seen = B
       /\ f.pc \in {"stat", "read"} /\ g.op = "none" => Seen = B
  BY <1>1, <1>2, <1>10 DEF Goes
<1> QED
  BY <1>2, <1>3, <1>4, <1>5, <1>6, <1>7, <1>8, <1>9, <1>11, <1>12, <1>13
  DEF CopyFacts, f, r, B, g

\* A cp throws, or has nothing left to do.
LEMMA CopyThrows ==
  ASSUME IInv, Clean, NEW c \in Callers, Busy(c), Carries(c), Top(c).op = "cp",
         NEW out \in Codes, Throw(c, out),
         CopyEnds(Seen, Was(c), calls[c].req, Top(c), out)
  PROVE  Carried(c)
<1> DEFINE f == Top(c)
           r == calls[c].req
           B == Was(c)
           g == CallerOf(Rest(c))
<1>1. Owes(Seen, B, r, f, g)
  BY TopIs
<1>2. /\ f.op = "cp" /\ r.op \in {"cp", "mv"}
      /\ g.op # "none" => CalledBy(Kinds, f, g)
      /\ Rest(c) = <<>> => g.op = "none"
      /\ Rest(c) # <<>> => g = Head(Rest(c)) /\ g.op # "none"
  BY CopyIs DEF CopyFacts
<1>3. CopyEnds(Seen, B, r, f, out)
  OBVIOUS
<1> HIDE DEF f, r, B, g
<1>4. /\ g.op = "none" => \A id : Delivers(Seen, B, r, id, out)
      /\ g.op # "none" => Answers(Seen, B, r, f, g, out)
  BY <1>1, <1>2, <1>3, CopyAnswers
<1>5. Rest(c) = <<>> => Delivers(Seen, B, r, calls[c].id, out)
  BY <1>2, <1>4
<1>6. Rest(c) # <<>> => Answers(Seen, B, r, f, Head(Rest(c)), out)
  BY <1>2, <1>4
<1> QED
  BY <1>5, <1>6, ThrowTop DEF f, r, B

\* A cp writes its file.
LEMMA CopyPuts ==
  ASSUME IInv, IInv', Clean, Clean', NEW c \in Callers, Busy(c), Carries(c), Top(c).op = "cp",
         Seen[Top(c).p].t = "file", ~Big(Seen, Top(c).p), UNCHANGED made, Stays(c),
         Put(Top(c).q, File(Seen[Top(c).p].c, "default")), Return(c, "ok")
  PROVE  Carried(c)
<1> DEFINE f == Top(c)
           r == calls[c].req
           B == Was(c)
           g == CallerOf(Rest(c))
           T == Seen'
           n == File(Seen[f.p].c, "default")
<1>1. /\ Owes(Seen, B, r, f, g) /\ f.p \in Paths /\ f.q \in Paths
      /\ r.p \in Paths /\ r.q \in Paths /\ SeenIs
  BY TopIs
<1>2. CopyFacts(c)
  BY CopyIs
<1>3. /\ f.op = "cp" /\ r.op \in {"cp", "mv"}
      /\ g.op # "none" => f.o.rec /\ CalledBy(Kinds, f, g)
      /\ Rest(c) = <<>> => g.op = "none"
      /\ Rest(c) # <<>> => g = Head(Rest(c)) /\ g.op # "none"
      /\ Copying(Kinds, r) /\ SourceSame(Seen, B, r)
      /\ Under(f.p, r.p) /\ Under(f.q, r.q) /\ f.p = Moved(f.q, r.q, r.p)
      /\ Seen[f.p] = B[f.p]
  BY <1>2 DEF CopyFacts
<1>4. Seen[f.p].t = "file" /\ ~Big(Seen, f.p) /\ Put(f.q, n) /\ Return(c, "ok") /\ Stays(c)
  OBVIOUS
<1>5. T[f.q] = n
  BY <1>1, <1>4, PutSeen
<1>6. n \in Entry(Contents', LinkTargets)
  <2>1. Contents' = Contents
    BY SameContents
  <2>2. Seen[f.p] = Lstat(f.p)
    BY <1>1 DEF SeenIs
  <2>3. Lstat(f.p) \in Answer(Contents)
    BY QueriesTyped DEF IInv
  <2>4. Seen[f.p].c \in Seq(Contents)
    BY <1>4, <2>2, <2>3, AnswerIs
  <2> QED  BY <2>1, <2>4, EntriesTyped DEF Modes
<1>7. \A x \in Paths : x # f.q /\ x \notin Ancestors(f.q) => T[x] = Seen[x]
  <2>1. Only({f.q} \cup Ancestors(f.q))
    BY <1>4, <1>6, SameContents, PutFits DEF IInv
  <2> HIDE DEF f, T
  <2> QED  BY <2>1, OnlySeen DEF T
<1>8. KindsOf(Seen) = Kinds /\ \A x \in Paths : Seen[x] \in Entries
  BY <1>1 DEF SeenIs
<1>9. Hangs(KindsOf(Seen)) /\ Hangs(KindsOf(T))
  <2>1. Hangs(Kinds) /\ Hangs(Kinds')
    BY DEF Clean
  <2>2. KindsOf(Seen') = Kinds'
    BY SeenNext DEF SeenIs, KindsOf
  <2> QED  BY <1>8, <2>1, <2>2
<1> HIDE DEF f, r, B, g, T
<1>10. Copying(KindsOf(Seen), r)
  BY <1>3, <1>8
<1>11. Spares(Seen, T, B, r) /\ SourceSame(T, B, r) /\ AllCopied(T, B, r, f.p)
  BY <1>1, <1>3, <1>4, <1>5, <1>7, <1>8, <1>9, <1>10, PutsForCopy
<1>12. CopyEnds(T, B, r, f, "ok")
  BY <1>3, <1>4, <1>11 DEF CopyEnds
<1>13. Owes(T, B, r, f, g)
  <2>1. \A y \in Paths : Copied(Seen, B, r, y) => Copied(T, B, r, y)
    BY <1>1, <1>3, <1>11, SparesCopied
  <2> QED  BY <1>1, <2>1, OwesLater
<1>14. /\ g.op = "none" => \A id : Delivers(T, B, r, id, "ok")
       /\ g.op # "none" => Answers(T, B, r, f, g, "ok")
  BY <1>3, <1>12, <1>13, CopyAnswers
<1>15. Rest(c) = <<>> => Delivers(T, B, r, calls[c].id, "ok")
  BY <1>3, <1>14
<1>16. Rest(c) # <<>> => Answers(T, B, r, f, Head(Rest(c)), "ok")
  BY <1>3, <1>14
<1>17. "ok" \in Codes
  BY DEF Codes
<1> QED
  BY <1>4, <1>11, <1>15, <1>16, <1>17, EndsTop DEF f, r, B, T

LEMMA CpCarries ==
  ASSUME IInv, IInv', Clean, Clean', Large, NEW c \in Callers,
         CpExists(c) \/ CpStat(c) \/ CpRead(c) \/ CpMkdir(c) \/ CpList(c),
         UNCHANGED <<made, calm>>, Carries(c)
  PROVE  Carried(c)
<1> DEFINE f == Top(c)
           r == calls[c].req
           B == Was(c)
           g == CallerOf(Rest(c))
<1>1. Busy(c) /\ f.op = "cp"
  BY DEF CpExists, CpStat, CpRead, CpMkdir, CpList, Runs, At
<1>2. Stays(c)
  BY CpSteps
<1>3. /\ Owes(Seen, B, r, f, g) /\ Goes(Seen, B, r, f, g)
      /\ f.p \in Paths /\ f.q \in Paths /\ f.o \in Options /\ f \in Frames(Contents)
      /\ Kept(Kinds, f, r) /\ r.p \in Paths /\ r.q \in Paths /\ SeenIs
  BY <1>1, TopIs
<1>4. CopyFacts(c)
  BY <1>1, CopyIs
<1>5. /\ r.op \in {"cp", "mv"} /\ SourceSame(Seen, B, r)
      /\ Under(f.p, r.p) /\ Seen[f.p] = B[f.p] /\ Kinds[f.p] = Seen[f.p].t
      /\ Seen[f.p].t # "link" /\ Seen[f.p].t \in {"dir", "file", "err"}
      /\ B[f.p].t = "err" => f.pc = "exists" /\ g.op # "cp"
      /\ g.op # "none" => f.o.rec
      /\ f.pc = "exists" /\ g.op # "cp" => Seen = B
      /\ f.pc \in {"stat", "read"} /\ g.op = "none" => Seen = B
  BY <1>4 DEF CopyFacts
<1>6. {"ok", "ENOENT", "EISDIR", "EFBIG"} \subseteq Codes
  BY DEF Codes
<1>7. f.pc = "exists" => (f.has <=> Seen[f.p].t # "err")
  BY <1>3 DEF Goes
<1>8. CASE CpExists(c)
  <2>1. f.pc = "exists"
    BY <1>8 DEF CpExists, Runs, At
  <2>2. ASSUME ~f.has, Throw(c, "ENOENT")
        PROVE  Carried(c)
    <3>1. CopyEnds(Seen, B, r, f, "ENOENT")
      BY <1>5, <1>7, <2>1, <2>2 DEF CopyEnds
    <3> QED  BY <1>1, <1>6, <2>2, <3>1, CopyThrows
  <2>3. ASSUME f.has, NEW e, e = [f EXCEPT !.pc = "stat", !.res = Stat(f.p)],
               Await(c, e), UNCHANGED <<memory, deleted>>
        PROVE  Carried(c)
    <3>1. Remade(e, f, "stat", f.has, Stat(f.p), f.kids)
      BY Zenon, <1>3, <2>3, Remakes
    <3>2. Stat(f.p) = Seen[f.p] /\ Seen[f.p].t \in {"file", "dir"}
      BY <1>3, <1>5, <1>7, <2>1, <2>3, StatIs
    <3>3. Owes(Seen, B, r, e, g)
      <4>1. f.op = "cp" /\ B[f.p].t # "err"
        BY <1>1, <1>5, <3>2
      <4> HIDE DEF f, r, B, g
      <4> QED  BY <1>3, <3>1, <4>1, OwesLike
    <3>4. Goes(Seen, B, r, e, g)
      <4>1. e.op = "cp" /\ e.pc = "stat" /\ e.p = f.p /\ e.res = Seen[f.p]
        BY <1>1, <3>1, <3>2 DEF Remade
      <4>2. g.op \in {"none", "mv"} => Seen = B
        BY <1>5, <2>1
      <4> HIDE DEF f, r, B, g
      <4> QED  BY <1>5, <3>2, <4>1, <4>2 DEF Goes
    <3> QED  BY <1>1, <2>3, <3>3, <3>4, AwaitTop
  <2> QED  BY <1>8, <2>2, <2>3 DEF CpExists
<1>9. CASE CpStat(c)
  <2>1. f.pc = "stat"
    BY <1>9 DEF CpStat, Runs, At
  <2>2. f.res = Seen[f.p] /\ Seen[f.p].t \in {"file", "dir"}
    BY <1>1, <1>3, <2>1 DEF Goes
  <2>3. g.op \in {"none", "mv"} => Seen = B
    BY <1>1, <1>3, <2>1 DEF Goes
  <2>4. B[f.p].t # "err"
    BY <1>5, <2>1
  <2>5. ASSUME f.res.t = "file", NEW e, e = [f EXCEPT !.pc = "read", !.res = Read(f.p)],
               Await(c, e), UNCHANGED <<memory, deleted>>
        PROVE  Carried(c)
    <3>1. Remade(e, f, "read", f.has, Read(f.p), f.kids)
      BY Zenon, <1>3, <2>5, Remakes
    <3>2. /\ Seen[f.p].t = "file"
          /\ Read(f.p) = IF Big(Seen, f.p) THEN Err("EFBIG") ELSE Seen[f.p]
      BY <1>3, <2>2, <2>5, ReadIs
    <3>3. Owes(Seen, B, r, e, g)
      <4>1. f.op = "cp"
        BY <1>1
      <4> HIDE DEF f, r, B, g
      <4> QED  BY <1>3, <2>4, <3>1, <4>1, OwesLike
    <3>4. Goes(Seen, B, r, e, g)
      <4>1. e.op = "cp" /\ e.pc = "read" /\ e.p = f.p
            /\ e.res = IF Big(Seen, f.p) THEN Err("EFBIG") ELSE Seen[f.p]
        BY <1>1, <3>1, <3>2 DEF Remade
      <4> HIDE DEF f, r, B, g
      <4> QED  BY <1>5, <2>3, <3>2, <4>1 DEF Goes
    <3> QED  BY <1>1, <2>5, <3>3, <3>4, AwaitTop
  <2>6. ASSUME f.res.t = "dir", ~f.o.rec, Throw(c, "EISDIR")
        PROVE  Carried(c)
    <3>1. Seen = B
      BY <1>5, <2>3, <2>6
    <3>2. CopyEnds(Seen, B, r, f, "EISDIR")
      BY <1>5, <2>2, <2>6, <3>1 DEF CopyEnds
    <3> QED  BY <1>1, <1>6, <2>6, <3>2, CopyThrows
  <2>7. ASSUME f.res.t = "dir", f.o.rec, NEW e, NEW a,
               e = [f EXCEPT !.pc = "mkdir", !.res = None], a = Req("mkdir", f.q, Root, f.o),
               Invoke(c, e, Enter(a)), UNCHANGED <<memory, deleted>>
        PROVE  Carried(c)
    <3>1. Remade(e, f, "mkdir", f.has, None, f.kids)
      BY Zenon, <1>3, <2>7, Remakes
    <3>2. a \in Reqs /\ a.op = "mkdir" /\ a.p = f.q
      BY <1>3, <2>7, JoinRoot DEF Reqs, Req, Paths, OpNames
    <3>3. Owes(Seen, B, r, e, g)
      <4>1. f.op = "cp"
        BY <1>1
      <4> HIDE DEF f, r, B, g
      <4> QED  BY <1>3, <2>4, <3>1, <4>1, OwesLike
    <3>4. e.op = "cp" /\ e.pc = "mkdir"
      BY <1>1, <3>1 DEF Remade
    <3>5. ASSUME NEW h \in Frames(Contents), Fresh(h, a)
          PROVE  Owes(Seen, B, r, h, e) /\ Goes(Seen, B, r, h, e)
      <4>1. /\ h.op = "mkdir" /\ h.p = f.q /\ h.pc = "exists"
            /\ h.has <=> Seen[h.p].t # "err"
        BY <1>3, <3>2, <3>5 DEF Fresh, SeenIs
      <4> HIDE DEF f, r, B, g
      <4> QED  BY <1>5, <3>4, <4>1 DEF Owes, Goes
    <3> HIDE DEF f, r, B, g
    <3> QED  BY <1>1, <2>7, <3>2, <3>3, <3>5, InvokeTop DEF r, B, g
  <2>8. f.res.t # "err"
    BY <2>2
  <2> QED  BY <1>9, <2>5, <2>6, <2>7, <2>8 DEF CpStat
<1>10. CASE CpRead(c)
  <2>1. f.pc = "read"
    BY <1>10 DEF CpRead, Runs, At
  <2>2. Seen[f.p].t = "file" /\ f.res = IF Big(Seen, f.p) THEN Err("EFBIG") ELSE Seen[f.p]
    BY <1>1, <1>3, <2>1 DEF Goes
  <2>3. ASSUME f.res.t # "file", Throw(c, f.res.e)
        PROVE  Carried(c)
    <3>1. Big(Seen, f.p) /\ f.res.e = "EFBIG"
      BY <2>2, <2>3 DEF Err
    <3>2. SomeBig(B, r)
      BY <1>3, <1>5, <3>1 DEF SomeBig, Big
    <3>3. CopyEnds(Seen, B, r, f, "EFBIG")
      BY <1>5, <2>2, <3>2 DEF CopyEnds
    <3> QED  BY <1>1, <1>6, <2>3, <3>1, <3>3, CopyThrows
  <2>4. ASSUME f.res.t = "file", Put(f.q, File(f.res.c, "default")), Return(c, "ok")
        PROVE  Carried(c)
    <3>1. ~Big(Seen, f.p) /\ f.res = Seen[f.p]
      BY <2>2, <2>4 DEF Err
    <3> QED  BY <1>1, <1>2, <2>2, <2>4, <3>1, CopyPuts
  <2> QED  BY <1>10, <2>3, <2>4 DEF CpRead
<1>11. CASE CpMkdir(c)
  <2>1. f.pc = "mkdir"
    BY <1>11 DEF CpMkdir, Runs, At
  <2>2. f.ret = "ok"
    BY <1>1, <1>3, <2>1 DEF Goes
  <2>3. Kinds[f.p] = "dir" /\ f.o.rec
    BY <1>1, <1>3, <2>1 DEF Kept
  <2>4. Kinds[f.q] = "dir"
    BY <1>1, <2>1, TopIs DEF Ready
  <2> DEFINE kids == Readdir(f.p).kids
  <2>5. /\ Readdir(f.p).ok
        /\ \A k \in Names : k \in ToSet(kids) <=> Kinds[Child(f.p, k)] # "err"
    BY <1>3, <2>3, ListIs DEF IInv
  <2>6. ASSUME NEW e, e = [f EXCEPT !.pc = "list", !.res = None, !.kids = kids],
               Await(c, e), UNCHANGED <<memory, deleted>>
        PROVE  Carried(c)
    <3>1. Remade(e, f, "list", f.has, None, kids)
      <4> HIDE DEF kids
      <4> QED  BY Zenon, <1>3, <2>6, Remakes
    <3>2. ToSet(kids) \subseteq Names
      BY ReaddirNames
    <3> HIDE DEF kids
    <3>3. ASSUME NEW k \in Names
          PROVE  /\ Child(f.p, k) \in Paths /\ Under(Child(f.p, k), r.p)
                 /\ Kinds[Child(f.p, k)] = B[Child(f.p, k)].t
      <4>1. Child(f.p, k) \in Paths /\ Under(Child(f.p, k), r.p)
        BY <1>3, <1>5, ChildIs, ChildUnder DEF Paths
      <4> QED  BY <1>3, <1>5, <4>1 DEF SourceSame, SeenIs
    <3>4. Owes(Seen, B, r, e, g)
      <4>1. f.op = "cp" /\ B[f.p].t # "err"
        BY <1>1, <1>5, <2>1
      <4>2. \A k \in ToSet(kids) : B[Child(f.p, k)].t # "err"
        BY <2>5, <3>2, <3>3
      <4> HIDE DEF f, r, B, g
      <4> QED  BY <1>3, <3>1, <4>1, <4>2, OwesLike
    <3>5. ASSUME NEW y \in Paths, Under(y, f.p)
          PROVE  Copied(Seen, B, r, y) \/ \E k \in ToSet(kids) : Under(y, Child(f.p, k))
      <4>1. CASE y = f.p
        <5>1. Moved(f.p, r.p, r.q) = f.q
          <6>1. Under(f.q, r.q) /\ f.p = Moved(f.q, r.q, r.p)
            BY <1>4 DEF CopyFacts
          <6> HIDE DEF f, r
          <6>2. Moved(Moved(f.q, r.q, r.p), r.p, r.q) = f.q
            BY <1>3, <6>1, MovedBack
          <6> QED  BY <6>1, <6>2
        <5>2. Seen[f.q].t = "dir" /\ B[f.p].t = "dir"
          BY <1>3, <1>5, <2>3, <2>4 DEF SeenIs
        <5>3. ~Big(B, f.p)
          BY <5>2, HugeIsOwn DEF Big
        <5> QED  BY <4>1, <5>1, <5>2, <5>3 DEF Copied, Same
      <4>2. CASE y # f.p /\ B[y].t # "err"
        <5>1. Below(y, f.p)
          BY <3>5, <4>2 DEF Below, Under, IsStrictPrefix
        <5>2. PICK k \in Names : y = Child(f.p, k) \/ Child(f.p, k) \in Ancestors(y)
          BY <1>3, <5>1, BelowChild DEF Paths
        <5>3. Under(y, r.p)
          BY <1>3, <1>5, <3>5, UnderTrans DEF Paths
        <5>4. Kinds[y] # "err"
          BY <1>3, <1>5, <4>2, <5>3 DEF SourceSame, SeenIs
        <5>5. Kinds[Child(f.p, k)] # "err"
          <6>1. CASE y = Child(f.p, k)
            BY <5>4, <6>1
          <6>2. CASE Child(f.p, k) \in Ancestors(y)
            <7>1. Hangs(Kinds)
              BY DEF Clean
            <7> QED  BY <5>4, <6>2, <7>1 DEF Hangs
          <6> QED  BY <5>2, <6>1, <6>2
        <5>6. Under(y, Child(f.p, k))
          BY <5>2, UnderSelf, AncestorContains DEF Paths
        <5> QED  BY <2>5, <5>5, <5>6
      <4>3. CASE B[y].t = "err"
        BY <4>3 DEF Copied
      <4> QED  BY <4>1, <4>2, <4>3
    <3>6. Goes(Seen, B, r, e, g)
      <4>1. e.op = "cp" /\ e.pc = "list" /\ e.p = f.p /\ e.kids = kids /\ e.ret = "ok"
        BY <1>1, <2>2, <3>1 DEF Remade
      <4> HIDE DEF f, r, B, g
      <4> QED  BY <1>5, <3>5, <4>1 DEF Goes
    <3> QED  BY <1>1, <2>6, <3>4, <3>6, AwaitTop
  <2>7. Await(c, [f EXCEPT !.pc = "list", !.res = None, !.kids = kids])
        /\ UNCHANGED <<memory, deleted>>
    BY <1>11, <2>5 DEF CpMkdir
  <2> HIDE DEF kids
  <2> QED  BY <2>6, <2>7
<1>12. CASE CpList(c)
  <2>1. f.pc = "list"
    BY <1>12 DEF CpList, Runs, At
  <2>2. /\ f.ret \in {"ok", "EFBIG"}
        /\ f.ret = "ok" =>
             \A y \in Paths : Under(y, f.p) =>
               Copied(Seen, B, r, y) \/ \E k \in ToSet(f.kids) : Under(y, Child(f.p, k))
        /\ f.ret = "EFBIG" => SomeBig(B, r)
    BY <1>1, <1>3, <2>1 DEF Goes
  <2>3. f.o.rec /\ B[f.p].t # "err"
    BY <1>1, <1>3, <1>5, <2>1 DEF Kept
  <2>4. f.kids \in Seq(Names)
    BY <1>1, TopSound DEF Shaped
  <2>5. ASSUME f.ret # "ok", Throw(c, f.ret)
        PROVE  Carried(c)
    <3>1. CopyEnds(Seen, B, r, f, f.ret)
      BY <1>5, <2>2, <2>3, <2>5 DEF CopyEnds
    <3>2. f.ret \in Codes
      BY <1>6, <2>2
    <3> QED  BY <1>1, <2>5, <3>1, <3>2, CopyThrows
  <2>6. ASSUME f.ret = "ok", f.kids = <<>>, Throw(c, "ok")
        PROVE  Carried(c)
    <3>1. ToSet(f.kids) = {}
      BY <2>6 DEF ToSet
    <3>2. AllCopied(Seen, B, r, f.p)
      BY <2>2, <2>6, <3>1 DEF AllCopied
    <3>3. CopyEnds(Seen, B, r, f, "ok")
      BY <1>5, <2>3, <3>2 DEF CopyEnds
    <3> QED  BY <1>1, <1>6, <2>6, <3>3, CopyThrows
  <2>7. ASSUME f.ret = "ok", f.kids # <<>>, NEW e, NEW a, e = [f EXCEPT !.kids = Tail(f.kids)],
               a = Req("cp", Child(f.p, Head(f.kids)), Child(f.q, Head(f.kids)), f.o),
               Invoke(c, e, Enter(a)), UNCHANGED <<memory, deleted>>
        PROVE  Carried(c)
    <3> DEFINE k == Head(f.kids)
    <3>1. Remade(e, f, "list", f.has, f.res, Tail(f.kids))
      BY Zenon, <1>3, <2>1, <2>7, Remakes
    <3>2. k \in Names /\ k \in ToSet(f.kids) /\ ToSet(f.kids) = {k} \cup ToSet(Tail(f.kids))
      <4> HIDE DEF f
      <4> QED  BY <2>4, <2>7, TailIs
    <3> HIDE DEF k
    <3>3. a = Req("cp", Child(f.p, k), Child(f.q, k), f.o)
      BY <2>7 DEF k
    <3>4. /\ a \in Reqs /\ a.op = "cp" /\ a.p = Child(f.p, k) /\ a.o = f.o
          /\ Child(f.p, k) \in Paths
      BY <1>3, <3>2, <3>3, ChildIs DEF Reqs, Req, Paths, OpNames
    <3>5. \A m \in ToSet(f.kids) : B[Child(f.p, m)].t # "err"
      BY <1>1, <1>3, <2>1 DEF Owes
    <3>6. Owes(Seen, B, r, e, g)
      <4>1. f.op = "cp" /\ \A m \in ToSet(Tail(f.kids)) : B[Child(f.p, m)].t # "err"
        BY <1>1, <3>2, <3>5
      <4> HIDE DEF f, r, B, g
      <4> QED  BY <1>3, <2>3, <3>1, <4>1, OwesLike
    <3>7. e.op = "cp" /\ e.pc = "list" /\ e.p = f.p /\ e.kids = Tail(f.kids)
      BY <1>1, <3>1 DEF Remade
    <3>8. CopiedBut(Seen, B, r, f.p, Child(f.p, k), Tail(f.kids))
      BY <2>2, <2>7, <3>2 DEF CopiedBut
    <3>9. ASSUME NEW h \in Frames(Contents), Fresh(h, a)
          PROVE  Owes(Seen, B, r, h, e) /\ Goes(Seen, B, r, h, e)
      <4>1. /\ h.op = "cp" /\ h.p = Child(f.p, k) /\ h.pc = "exists" /\ h.o.rec
            /\ h.has <=> Seen[h.p].t # "err"
        BY <1>3, <2>3, <3>4, <3>9 DEF Fresh, SeenIs
      <4>2. B[h.p].t # "err" /\ CopiedBut(Seen, B, r, e.p, h.p, e.kids)
        BY <3>2, <3>5, <3>7, <3>8, <4>1
      <4> HIDE DEF f, r, B, g
      <4> QED  BY <1>5, <3>7, <4>1, <4>2 DEF Owes, Goes
    <3> HIDE DEF f, r, B, g
    <3> QED  BY Zenon, <1>1, <2>7, <3>4, <3>6, <3>9, InvokeTop DEF r, B, g
  <2> QED  BY <1>12, <2>5, <2>6, <2>7 DEF CpList
<1> QED
  BY <1>8, <1>9, <1>10, <1>11, <1>12

-----------------------------------------------------------------------------
(* The steps of mv.                                                        *)

LEMMA MvCarries ==
  ASSUME IInv, IInv', Clean, NEW c \in Callers, MvCopied(c) \/ MvRemoved(c),
         UNCHANGED <<made, calm>>, Carries(c)
  PROVE  Carried(c)
<1> DEFINE f == Top(c)
           r == calls[c].req
           B == Was(c)
           g == CallerOf(Rest(c))
<1>1. Busy(c) /\ f.op = "mv"
  BY DEF MvCopied, MvRemoved, Runs, At
<1>2. /\ Owes(Seen, B, r, f, g) /\ Goes(Seen, B, r, f, g)
      /\ f.p \in Paths /\ f.q \in Paths /\ f.o \in Options /\ f \in Frames(Contents)
      /\ Belongs(f, r) /\ r.p \in Paths /\ SeenIs
  BY <1>1, TopIs
<1>3. Rest(c) = <<>> /\ g.op = "none"
  BY <1>1, Lonely, CallerNone
<1>4. r.op = "mv" /\ f.p = r.p
  BY <1>1, <1>2 DEF Belongs
<1>5. {"ok", "ENOENT", "EFBIG"} \subseteq Codes
  BY DEF Codes
<1>6. CASE MvCopied(c)
  <2>1. f.pc = "cp"
    BY <1>6 DEF MvCopied, Runs, At
  <2>2. /\ f.ret \in {"ok", "ENOENT", "EFBIG"}
        /\ f.ret = "ok" => B[r.p].t # "err" /\ AllCopied(Seen, B, r, r.p)
        /\ f.ret = "ENOENT" => Seen = B /\ B[r.p].t = "err"
        /\ f.ret = "EFBIG" => B[r.p].t # "err" /\ SomeBig(B, r)
        /\ SourceSame(Seen, B, r)
    BY <1>1, <1>2, <1>4, <2>1 DEF Goes
  <2>3. ASSUME f.ret # "ok", Throw(c, f.ret)
        PROVE  Carried(c)
    <3>1. Delivers(Seen, B, r, calls[c].id, f.ret)
      <4> HIDE DEF f, r, B, g
      <4> QED  BY <1>4, <2>2, <2>3 DEF Delivers
    <3>2. f.ret \in Codes
      BY <1>5, <2>2
    <3> QED  BY <1>1, <1>3, <2>3, <3>1, <3>2, ThrowTop
  <2>4. ASSUME f.ret = "ok", NEW e, NEW a, e = [f EXCEPT !.pc = "rm"],
               a = Req("rm", f.p, Root, Recursive),
               Invoke(c, e, Enter(a)), UNCHANGED <<memory, deleted>>
        PROVE  Carried(c)
    <3>1. Remade(e, f, "rm", f.has, f.res, f.kids)
      BY Zenon, <1>2, <2>4, Remakes
    <3>2. a \in Reqs /\ a.op = "rm" /\ a.p = f.p
      BY <1>2, <2>4, JoinRoot DEF Reqs, Req, Paths, OpNames, Recursive, Options
    <3>3. e.op = "mv" /\ e.pc = "rm" /\ e.p = f.p /\ e.q = f.q /\ e.o = f.o
      BY <1>1, <3>1 DEF Remade
    <3>4. Owes(Seen, B, r, e, g)
      <4>1. f.op = "mv"
        BY <1>1
      <4> HIDE DEF f, r, B, g
      <4> QED  BY <1>2, <1>3, <2>2, <2>4, <3>3, <4>1 DEF Owes
    <3>5. Seen[r.p].t # "err"
      <4>1. Under(r.p, r.p)
        BY <1>2, UnderSelf DEF Paths
      <4> QED  BY <1>2, <2>2, <2>4, <4>1 DEF SourceSame
    <3>6. ASSUME NEW h \in Frames(Contents), Fresh(h, a)
          PROVE  Owes(Seen, B, r, h, e) /\ Goes(Seen, B, r, h, e)
      <4>1. /\ h.op = "rm" /\ h.p = r.p /\ h.pc = "exists" /\ h.has
            /\ Seen[h.p].t # "err"
        BY <1>2, <1>4, <3>2, <3>5, <3>6 DEF Fresh, SeenIs
      <4>2. AllCopied(Seen, B, r, r.p)
        BY <2>2, <2>4
      <4> HIDE DEF f, r, B, g
      <4> QED  BY <3>3, <4>1, <4>2 DEF Owes, Goes
    <3> HIDE DEF f, r, B, g
    <3> QED  BY <1>1, <2>4, <3>2, <3>4, <3>6, InvokeTop DEF r, B, g
  <2> QED  BY <1>6, <2>3, <2>4 DEF MvCopied
<1>7. CASE MvRemoved(c)
  <2>1. f.pc = "rm" /\ Throw(c, f.ret)
    BY <1>7 DEF MvRemoved, Runs, At
  <2>2. f.ret = "ok" /\ Seen[r.p].t = "err"
    BY <1>1, <1>2, <2>1 DEF Goes
  <2>3. B[r.p].t # "err" /\ AllCopied(Seen, B, r, r.p)
    BY <1>1, <1>2, <1>4, <2>1 DEF Owes
  <2>4. Delivers(Seen, B, r, calls[c].id, "ok")
    <3> HIDE DEF f, r, B, g
    <3> QED  BY <1>4, <2>2, <2>3 DEF Delivers
  <2> QED  BY <1>1, <1>3, <1>5, <2>1, <2>2, <2>4, ThrowTop
<1> QED
  BY <1>6, <1>7

-----------------------------------------------------------------------------
(* The steps of the operations that call no other.                         *)

\* What is known of an invocation that nothing waits for.
LoneFacts(c) ==
  LET f == Top(c)
      r == calls[c].req
      B == Was(c)
  IN
  /\ Rest(c) = <<>> /\ CallerOf(Rest(c)) = Nobody
  /\ f.op = r.op /\ f.p = r.p /\ f.q = r.q /\ f.o = r.o
  /\ f.pc \in {"exists", "stat", "read", "new"} => Seen = B

LEMMA LoneIs ==
  ASSUME IInv, Clean, NEW c \in Callers, Busy(c), Carries(c),
         Top(c).op \notin {"mkdir", "cp", "rm"}
  PROVE  LoneFacts(c)
<1>1. Rest(c) = <<>> /\ CallerOf(Rest(c)) = Nobody /\ Nobody.op = "none"
  BY Lonely, CallerNone
<1>2. /\ Owes(Seen, Was(c), calls[c].req, Top(c), Nobody)
      /\ Goes(Seen, Was(c), calls[c].req, Top(c), Nobody)
  BY <1>1, TopIs
<1> QED
  BY <1>1, <1>2 DEF LoneFacts, Owes, Goes

\* It throws, having changed nothing ...
LEMMA LoneThrows ==
  ASSUME IInv, Clean, NEW c \in Callers, Busy(c), Carries(c),
         Top(c).op \notin {"mkdir", "cp", "rm"}, NEW out \in Codes, Throw(c, out),
         Delivers(Seen, Was(c), calls[c].req, calls[c].id, out)
  PROVE  Carried(c)
BY LoneIs, ThrowTop DEF LoneFacts

\* ... or ends, having changed what it names ...
LEMMA LoneEnds ==
  ASSUME IInv, Clean, NEW c \in Callers, Busy(c), Carries(c),
         Top(c).op \notin {"mkdir", "cp", "rm", "mv"}, Return(c, "ok"), Stays(c),
         Delivers(Seen', Was(c), calls[c].req, calls[c].id, "ok")
  PROVE  Carried(c)
<1>1. Rest(c) = <<>> /\ Top(c).op = calls[c].req.op
  BY LoneIs DEF LoneFacts
<1>2. Spares(Seen, Seen', Was(c), calls[c].req)
  BY <1>1 DEF Spares
<1>3. "ok" \in Codes
  BY DEF Codes
<1> QED
  BY <1>1, <1>2, <1>3, EndsTop

\* ... or goes on waiting.
LEMMA LoneAwaits ==
  ASSUME IInv, IInv', Clean, NEW c \in Callers, Busy(c), Carries(c),
         Top(c).op \notin {"mkdir", "cp", "rm", "mv"},
         UNCHANGED <<memory, deleted, made>>,
         NEW g, NEW pc, NEW has, NEW res, NEW kids, Remade(g, Top(c), pc, has, res, kids),
         Await(c, g), Goes(Seen, Was(c), calls[c].req, g, Nobody)
  PROVE  Carried(c)
<1>1. CallerOf(Rest(c)) = Nobody
  BY LoneIs DEF LoneFacts
<1>2. Owes(Seen, Was(c), calls[c].req, Top(c), Nobody)
  BY <1>1, TopIs
<1>3. Owes(Seen, Was(c), calls[c].req, g, Nobody)
  <2> DEFINE f == Top(c)
             B == Was(c)
             r == calls[c].req
  <2>1. Owes(Seen, B, r, f, Nobody) /\ f.op \notin {"mkdir", "cp", "rm", "mv"}
        /\ Remade(g, f, pc, has, res, kids)
    BY <1>2
  <2> HIDE DEF f, B, r
  <2>2. Owes(Seen, B, r, g, Nobody)
    BY <2>1, OwesLike
  <2> QED  BY <2>2 DEF B, r
<1> QED
  BY <1>1, <1>3, AwaitTop

LEMMA WriteCarries ==
  ASSUME IInv, IInv', Clean, NEW c \in Callers, Written(c) \/ AppendRead(c),
         UNCHANGED <<made, calm>>, Carries(c)
  PROVE  Carried(c)
<1> DEFINE f == Top(c)
           r == calls[c].req
           B == Was(c)
<1>1. Busy(c) /\ f.op \in {"write", "append"}
  BY DEF Written, AppendRead, Runs, At
<1>2. Stays(c)
  BY WriteSteps
<1>3. LoneFacts(c)
  BY <1>1, LoneIs
<1>4. /\ f.op = r.op /\ f.p = r.p
      /\ f.pc = "read" => Seen = B
  BY <1>3 DEF LoneFacts
<1>5. Goes(Seen, B, r, f, CallerOf(Rest(c))) /\ r.p \in Paths
  BY <1>1, TopIs
<1>6. CASE Written(c)
  <2>1. f.op = "write" /\ Throw(c, "ok")
    BY <1>6 DEF Written, Runs, At
  <2>2. Seen[r.p] = File(<<calls[c].id>>, "default")
    BY <1>4, <2>1 DEF Carries
  <2>3. Delivers(Seen, B, r, calls[c].id, "ok")
    <3>1. r.op = "write"
      BY <1>4, <2>1
    <3> HIDE DEF r, B
    <3> QED  BY <2>2, <3>1 DEF Delivers
  <2>4. "ok" \in Codes
    BY DEF Codes
  <2> QED  BY <1>1, <2>1, <2>3, <2>4, LoneThrows
<1>7. CASE AppendRead(c)
  <2> DEFINE old == IF f.res.t = "file" THEN f.res.c ELSE <<>>
  <2>1. /\ f.op = "append" /\ f.pc = "read" /\ Return(c, "ok")
        /\ Put(f.p, File(Append(old, calls[c].id), "default"))
    BY <1>7 DEF AppendRead, Runs, At
  <2>2. f.res = Seen[f.p] /\ Seen = B
    BY <1>4, <1>5, <2>1 DEF Goes
  <2>3. Seen'[r.p] = File(Append(IF B[r.p].t = "file" THEN B[r.p].c ELSE <<>>, calls[c].id), "default")
    BY <1>4, <1>5, <2>1, <2>2, PutSeen
  <2>4. Delivers(Seen', B, r, calls[c].id, "ok")
    <3>1. r.op = "append"
      BY <1>4, <2>1
    <3> HIDE DEF r, B
    <3> QED  BY <2>3, <3>1 DEF Delivers
  <2> QED  BY <1>1, <1>2, <2>1, <2>4, LoneEnds
<1> QED
  BY <1>6, <1>7

LEMMA ModeSame ==
  ASSUME NEW W, NEW n \in Entry(W, LinkTargets), NEW m
  PROVE  Same([n EXCEPT !.m = m], n)
BY DEF Same, Entry

LEMMA AttrSeen ==
  ASSUME Layers, Tidy, NEW p \in Paths, p \in DOMAIN memory, NEW m,
         memory' = [memory EXCEPT ![p].m = m], UNCHANGED deleted
  PROVE  Same(Seen'[p], Seen[p])
<1>1. p \notin deleted /\ memory[p] \in Entry(Contents, LinkTargets)
  BY DEF Tidy, Layers, Range
<1>2. p \in DOMAIN memory' /\ memory'[p] = [memory[p] EXCEPT !.m = m] /\ p \notin deleted'
  BY <1>1
<1>3. Lstat(p)' = [memory[p] EXCEPT !.m = m] /\ Lstat(p) = memory[p]
  BY <1>1, <1>2 DEF Lstat, Visible, EntryAt
<1>4. Same([memory[p] EXCEPT !.m = m], memory[p])
  BY <1>1, ModeSame
<1> QED
  BY <1>3, <1>4 DEF Seen

\* What is in the memory layer is no host file too large to read.
LEMMA MemorySmall ==
  ASSUME Large, Clean, IInv, NEW p \in DOMAIN memory, p \in Paths
  PROVE  ~Big(Seen, p)
<1> SUFFICES ASSUME Big(Seen, p) PROVE FALSE
  OBVIOUS
<1>1. Seen[p].t = "file"
  BY HugeIsOwn DEF Big
<1> QED
  BY <1>1 DEF Large

LEMMA AttrCarries ==
  ASSUME IInv, IInv', Clean, Large, NEW c \in Callers, NEW op \in {"chmod", "utimes"},
         AttrExists(c, op) \/ AttrStat(c, op) \/ AttrRead(c, op),
         UNCHANGED <<made, calm>>, Carries(c)
  PROVE  Carried(c)
<1> DEFINE f == Top(c)
           r == calls[c].req
           B == Was(c)
<1>1. Busy(c) /\ f.op = op /\ f.op \notin {"mkdir", "cp", "rm", "mv"}
  BY DEF AttrExists, AttrStat, AttrRead, Runs, At
<1>2. Stays(c)
  BY AttrSteps
<1>3. /\ f.op = r.op /\ f.p = r.p /\ CallerOf(Rest(c)) = Nobody
      /\ f.pc \in {"exists", "stat", "read"} => Seen = B
  BY <1>1, LoneIs DEF LoneFacts
<1>4. /\ Goes(Seen, B, r, f, Nobody) /\ f.p \in Paths /\ f \in Frames(Contents)
      /\ Ready(Kinds, f) /\ SeenIs
  BY <1>1, <1>3, TopIs
<1>5. {"ok", "ENOENT", "EFBIG"} \subseteq Codes
  BY DEF Codes
<1>6. Kinds[f.p] # "link" /\ Kinds[f.p] = Seen[f.p].t /\ Seen[f.p] \in Entries
  BY <1>1, <1>4 DEF Ready, SeenIs
<1>7. r.op \in {"chmod", "utimes"}
  BY <1>1, <1>3
<1>8. CASE AttrExists(c, op)
  <2>1. f.pc = "exists"
    BY <1>8 DEF AttrExists, Runs, At
  <2>2. Seen = B /\ (f.has <=> Seen[f.p].t # "err")
    BY <1>3, <1>4, <2>1 DEF Goes
  <2>3. ASSUME ~f.has, Throw(c, "ENOENT")
        PROVE  Carried(c)
    <3>1. Delivers(Seen, B, r, calls[c].id, "ENOENT")
      <4>1. B[r.p].t = "err"
        BY <1>3, <2>2, <2>3
      <4> HIDE DEF f, r, B
      <4> QED  BY <1>7, <2>2, <4>1 DEF Delivers
    <3> QED  BY <1>1, <1>5, <2>3, <3>1, LoneThrows
  <2>4. ASSUME f.has, f.p \in DOMAIN memory,
               NEW m, memory' = [memory EXCEPT ![f.p].m = m], UNCHANGED deleted, Return(c, "ok")
        PROVE  Carried(c)
    <3>1. Same(Seen'[f.p], Seen[f.p])
      <4>1. Layers /\ Tidy
        BY DEF IInv, Clean
      <4>2. f.p \in DOMAIN memory
        BY <2>4
      <4> HIDE DEF f
      <4> QED  BY <1>4, <2>4, <4>1, <4>2, AttrSeen
    <3>2. ~Big(Seen, f.p)
      BY <1>4, <2>4, MemorySmall
    <3>3. Delivers(Seen', B, r, calls[c].id, "ok")
      <4>1. B[r.p].t # "err" /\ ~Big(B, r.p) /\ Same(Seen'[r.p], B[r.p])
        BY <1>3, <2>2, <2>4, <3>1, <3>2
      <4> HIDE DEF f, r, B
      <4> QED  BY <1>7, <4>1 DEF Delivers
    <3> QED  BY <1>1, <1>2, <2>4, <3>3, LoneEnds
  <2>5. ASSUME f.has, NEW e, e = [f EXCEPT !.pc = "stat", !.res = Stat(f.p)],
               Await(c, e), UNCHANGED <<memory, deleted>>
        PROVE  Carried(c)
    <3>1. Remade(e, f, "stat", f.has, Stat(f.p), f.kids)
      BY Zenon, <1>4, <2>5, Remakes
    <3>2. Stat(f.p) = Seen[f.p] /\ Seen[f.p].t \in {"file", "dir"}
      BY <1>4, <1>6, <2>2, <2>5, StatIs, EntryIs
    <3>3. Goes(Seen, B, r, e, Nobody)
      <4>1. e.op = f.op /\ e.pc = "stat" /\ e.p = f.p /\ e.res = Seen[f.p]
        BY <3>1, <3>2 DEF Remade
      <4>2. e.op \notin {"mkdir", "cp", "rm", "mv"}
        BY <1>1, <4>1
      <4> HIDE DEF f, r, B
      <4> QED  BY <2>2, <3>2, <4>1, <4>2 DEF Goes
    <3> HIDE DEF f, r, B
    <3> QED  BY Zenon, <1>1, <2>5, <3>1, <3>3, LoneAwaits DEF f, r, B
  <2> QED  BY <1>8, <2>3, <2>4, <2>5 DEF AttrExists
<1>9. CASE AttrStat(c, op)
  <2>1. f.pc = "stat"
    BY <1>9 DEF AttrStat, Runs, At
  <2>2. Seen = B /\ f.res = Seen[f.p] /\ Seen[f.p].t \in {"file", "dir"}
    BY <1>1, <1>3, <1>4, <2>1 DEF Goes
  <2>3. ASSUME f.res.t = "file",
               NEW e, e = [f EXCEPT !.pc = "read", !.kids = <<f.res.m>>, !.res = Read(f.p)],
               Await(c, e), UNCHANGED <<memory, deleted>>
        PROVE  Carried(c)
    <3>1. Remade(e, f, "read", f.has, Read(f.p), <<f.res.m>>)
      <4> DEFINE k == <<f.res.m>>
      <4>1. e = [f EXCEPT !.pc = "read", !.kids = k, !.res = Read(f.p)]
        BY <2>3
      <4> HIDE DEF k
      <4>2. Remade(e, f, "read", f.has, Read(f.p), k)
        BY Zenon, <1>4, <4>1, Remakes
      <4> QED  BY <4>2 DEF k
    <3>2. /\ Seen[f.p].t = "file"
          /\ Read(f.p) = IF Big(Seen, f.p) THEN Err("EFBIG") ELSE Seen[f.p]
      BY <1>4, <2>2, <2>3, ReadIs
    <3>3. Goes(Seen, B, r, e, Nobody)
      <4>1. e.op = f.op /\ e.pc = "read" /\ e.p = f.p
            /\ e.res = IF Big(Seen, f.p) THEN Err("EFBIG") ELSE Seen[f.p]
        BY <3>1, <3>2 DEF Remade
      <4>2. e.op \notin {"mkdir", "cp", "rm", "mv", "append", "link"}
        BY <1>1, <4>1
      <4> HIDE DEF f, r, B
      <4> QED  BY <2>2, <3>2, <4>1, <4>2 DEF Goes
    <3> HIDE DEF f, r, B
    <3> QED  BY <1>1, <2>3, <3>1, <3>3, LoneAwaits DEF f, r, B
  <2>4. ASSUME f.res.t = "dir", NEW m, CopyUp(f.p, Dir(m)), Return(c, "ok")
        PROVE  Carried(c)
    <3>1. f.p \notin deleted
      BY <1>4, <2>2 DEF SeenIs, Visible
    <3>2. Seen'[f.p] = Dir(m)
      BY <1>4, <2>4, <3>1, CopyUpSeen
    <3>3. Same(Dir(m), Seen[f.p])
      BY <2>2, <2>4 DEF Same, Dir
    <3>4. ~Big(B, f.p)
      BY <2>2, <2>4, HugeIsOwn DEF Big
    <3>5. Delivers(Seen', B, r, calls[c].id, "ok")
      <4>1. B[r.p].t # "err" /\ ~Big(B, r.p) /\ Same(Seen'[r.p], B[r.p])
        BY <1>3, <2>2, <2>4, <3>2, <3>3, <3>4
      <4> HIDE DEF f, r, B
      <4> QED  BY <1>7, <4>1 DEF Delivers
    <3> QED  BY <1>1, <1>2, <2>4, <3>5, LoneEnds
  <2>5. f.res.t # "err"
    BY <2>2
  <2> QED  BY <1>9, <2>3, <2>4, <2>5 DEF AttrStat
<1>10. CASE AttrRead(c, op)
  <2>1. f.pc = "read"
    BY <1>10 DEF AttrRead, Runs, At
  <2>2. /\ Seen = B /\ Seen[f.p].t = "file"
        /\ f.res = IF Big(Seen, f.p) THEN Err("EFBIG") ELSE Seen[f.p]
    BY <1>1, <1>3, <1>4, <2>1 DEF Goes
  <2>3. ASSUME f.res.t # "file", Throw(c, f.res.e)
        PROVE  Carried(c)
    <3>1. Big(Seen, f.p) /\ f.res.e = "EFBIG"
      BY <2>2, <2>3 DEF Err
    <3>2. Delivers(Seen, B, r, calls[c].id, "EFBIG")
      <4>1. B[r.p].t # "err" /\ Big(B, r.p)
        BY <1>3, <2>2, <3>1
      <4> HIDE DEF f, r, B
      <4> QED  BY <1>7, <2>2, <4>1 DEF Delivers
    <3> QED  BY <1>1, <1>5, <2>3, <3>1, <3>2, LoneThrows
  <2>4. ASSUME f.res.t = "file", NEW m, CopyUp(f.p, File(f.res.c, m)), Return(c, "ok")
        PROVE  Carried(c)
    <3>1. f.p \notin deleted
      BY <1>4, <2>2 DEF SeenIs, Visible
    <3>2. ~Big(Seen, f.p) /\ f.res = Seen[f.p]
      BY <2>2, <2>4 DEF Err
    <3>3. Seen'[f.p] = File(f.res.c, m)
      BY <1>4, <2>4, <3>1, CopyUpSeen
    <3>4. Same(File(f.res.c, m), Seen[f.p])
      BY <2>2, <3>2 DEF Same, File
    <3>5. Delivers(Seen', B, r, calls[c].id, "ok")
      <4>1. B[r.p].t # "err" /\ ~Big(B, r.p) /\ Same(Seen'[r.p], B[r.p])
        BY <1>3, <2>2, <3>2, <3>3, <3>4
      <4> HIDE DEF f, r, B
      <4> QED  BY <1>7, <4>1 DEF Delivers
    <3> QED  BY <1>1, <1>2, <2>4, <3>5, LoneEnds
  <2> QED  BY <1>10, <2>3, <2>4 DEF AttrRead
<1> QED
  BY <1>8, <1>9, <1>10

LEMMA LinkCarries ==
  ASSUME IInv, IInv', Clean, Large, NEW c \in Callers,
         SymlinkExists(c) \/ LinkExists(c) \/ LinkStat(c) \/ LinkNew(c) \/ LinkRead(c),
         UNCHANGED <<made, calm>>, Carries(c)
  PROVE  Carried(c)
<1> DEFINE f == Top(c)
           r == calls[c].req
           B == Was(c)
<1>1. Busy(c) /\ f.op \in {"symlink", "link"} /\ f.op \notin {"mkdir", "cp", "rm", "mv"}
  BY DEF SymlinkExists, LinkExists, LinkStat, LinkNew, LinkRead, Runs, At
<1>2. Stays(c)
  BY LinkSteps
<1>3. /\ f.op = r.op /\ f.p = r.p /\ f.q = r.q /\ CallerOf(Rest(c)) = Nobody
      /\ f.pc \in {"exists", "stat", "read", "new"} => Seen = B
  BY <1>1, LoneIs DEF LoneFacts
<1>4. /\ Goes(Seen, B, r, f, Nobody) /\ f.p \in Paths /\ f.q \in Paths /\ f \in Frames(Contents)
      /\ SeenIs
  BY <1>1, <1>3, TopIs
<1>5. {"ok", "ENOENT", "EFBIG", "EEXIST", "EPERM"} \subseteq Codes
  BY DEF Codes
<1>6. r.op = "link" => B[r.p].t # "link"
  BY DEF Carries, Found, Was
<1>7. CASE SymlinkExists(c)
  <2>1. f.op = "symlink" /\ f.pc = "exists"
    BY <1>7 DEF SymlinkExists, Runs, At
  <2>2. Seen = B /\ (f.has <=> Seen[f.p].t # "err")
    BY <1>3, <1>4, <2>1 DEF Goes
  <2>3. ASSUME f.has, Throw(c, "EEXIST")
        PROVE  Carried(c)
    <3>1. Delivers(Seen, B, r, calls[c].id, "EEXIST")
      <4>1. r.op = "symlink" /\ B[r.p].t # "err"
        BY <1>3, <2>1, <2>2, <2>3
      <4> HIDE DEF f, r, B
      <4> QED  BY <2>2, <4>1 DEF Delivers
    <3> QED  BY <1>1, <1>5, <2>3, <3>1, LoneThrows
  <2>4. ASSUME ~f.has, Put(f.p, Link(f.q)), Return(c, "ok")
        PROVE  Carried(c)
    <3>1. Seen'[f.p] = Link(f.q)
      BY <1>4, <2>4, PutSeen
    <3>2. Delivers(Seen', B, r, calls[c].id, "ok")
      <4>1. r.op = "symlink" /\ B[r.p].t = "err" /\ Seen'[r.p] = Link(r.q)
        BY <1>3, <2>1, <2>2, <2>4, <3>1
      <4> HIDE DEF f, r, B
      <4> QED  BY <4>1 DEF Delivers
    <3> QED  BY <1>1, <1>2, <2>4, <3>2, LoneEnds
  <2> QED  BY <1>7, <2>3, <2>4 DEF SymlinkExists
<1>8. CASE LinkExists(c)
  <2>1. f.op = "link" /\ f.pc = "exists"
    BY <1>8 DEF LinkExists, Runs, At
  <2>2. Seen = B /\ (f.has <=> Seen[f.p].t # "err")
    BY <1>3, <1>4, <2>1 DEF Goes
  <2>3. ASSUME ~f.has, Throw(c, "ENOENT")
        PROVE  Carried(c)
    <3>1. Delivers(Seen, B, r, calls[c].id, "ENOENT")
      <4>1. r.op = "link" /\ B[r.p].t = "err"
        BY <1>3, <2>1, <2>2, <2>3
      <4> HIDE DEF f, r, B
      <4> QED  BY <2>2, <4>1 DEF Delivers
    <3> QED  BY <1>1, <1>5, <2>3, <3>1, LoneThrows
  <2>4. ASSUME f.has, NEW e, e = [f EXCEPT !.pc = "stat", !.res = Stat(f.p)],
               Await(c, e), UNCHANGED <<memory, deleted>>
        PROVE  Carried(c)
    <3>1. Remade(e, f, "stat", f.has, Stat(f.p), f.kids)
      BY Zenon, <1>4, <2>4, Remakes
    <3>2. Stat(f.p) = Seen[f.p] /\ Seen[f.p].t \in {"file", "dir"}
      <4>1. Seen[f.p].t \notin {"link", "err"} /\ Seen[f.p] \in Entries
        BY <1>3, <1>4, <1>6, <2>1, <2>2, <2>4 DEF SeenIs
      <4> QED  BY <1>4, <4>1, StatIs, EntryIs
    <3>3. Goes(Seen, B, r, e, Nobody)
      <4>1. e.op = "link" /\ e.pc = "stat" /\ e.p = f.p /\ e.res = Seen[f.p]
        BY <2>1, <3>1, <3>2 DEF Remade
      <4> HIDE DEF f, r, B
      <4> QED  BY <2>2, <3>2, <4>1 DEF Goes
    <3> HIDE DEF f, r, B
    <3> QED  BY Zenon, <1>1, <2>4, <3>1, <3>3, LoneAwaits DEF f, r, B
  <2> QED  BY <1>8, <2>3, <2>4 DEF LinkExists
<1>9. CASE LinkStat(c)
  <2>1. f.op = "link" /\ f.pc = "stat"
    BY <1>9 DEF LinkStat, Runs, At
  <2>2. Seen = B /\ f.res = Seen[f.p] /\ Seen[f.p].t \in {"file", "dir"}
    BY <1>3, <1>4, <2>1 DEF Goes
  <2>3. ASSUME f.res.t = "dir", Throw(c, "EPERM")
        PROVE  Carried(c)
    <3>1. Delivers(Seen, B, r, calls[c].id, "EPERM")
      <4>1. r.op = "link" /\ B[r.p].t = "dir"
        BY <1>3, <2>1, <2>2, <2>3
      <4> HIDE DEF f, r, B
      <4> QED  BY <2>2, <4>1 DEF Delivers
    <3> QED  BY <1>1, <1>5, <2>3, <3>1, LoneThrows
  <2>4. ASSUME f.res.t = "file",
               NEW e, e = [f EXCEPT !.pc = "new", !.kids = <<f.res.m>>, !.has = Visible(f.q)],
               Await(c, e), UNCHANGED <<memory, deleted>>
        PROVE  Carried(c)
    <3>1. Remade(e, f, "new", Visible(f.q), f.res, <<f.res.m>>)
      <4> DEFINE k == <<f.res.m>>
      <4>1. e = [f EXCEPT !.pc = "new", !.kids = k, !.has = Visible(f.q)]
        BY <2>4
      <4> HIDE DEF k
      <4>2. Remade(e, f, "new", Visible(f.q), f.res, k)
        BY Zenon, <1>4, <4>1, Remakes
      <4> QED  BY <4>2 DEF k
    <3>2. Visible(f.q) <=> Seen[f.q].t # "err"
      BY <1>4 DEF SeenIs
    <3>3. Goes(Seen, B, r, e, Nobody)
      <4>1. e.op = "link" /\ e.pc = "new" /\ e.p = f.p /\ e.q = f.q /\ e.has = Visible(f.q)
        BY <2>1, <3>1 DEF Remade
      <4>2. Seen[f.p].t = "file"
        BY <2>2, <2>4
      <4> HIDE DEF f, r, B
      <4> QED  BY <2>2, <3>2, <4>1, <4>2 DEF Goes
    <3> HIDE DEF f, r, B
    <3> QED  BY <1>1, <2>4, <3>1, <3>3, LoneAwaits DEF f, r, B
  <2>5. f.res.t # "err"
    BY <2>2
  <2> QED  BY <1>9, <2>3, <2>4, <2>5 DEF LinkStat
<1>10. CASE LinkNew(c)
  <2>1. f.op = "link" /\ f.pc = "new"
    BY <1>10 DEF LinkNew, Runs, At
  <2>2. Seen = B /\ Seen[f.p].t = "file" /\ (f.has <=> Seen[f.q].t # "err")
    BY <1>3, <1>4, <2>1 DEF Goes
  <2>3. ASSUME f.has, Throw(c, "EEXIST")
        PROVE  Carried(c)
    <3>1. Delivers(Seen, B, r, calls[c].id, "EEXIST")
      <4>1. r.op = "link" /\ B[r.p].t = "file" /\ B[r.q].t # "err"
        BY <1>3, <2>1, <2>2, <2>3
      <4> HIDE DEF f, r, B
      <4> QED  BY <2>2, <4>1 DEF Delivers
    <3> QED  BY <1>1, <1>5, <2>3, <3>1, LoneThrows
  <2>4. ASSUME ~f.has, NEW e, e = [f EXCEPT !.pc = "read", !.res = Read(f.p)],
               Await(c, e), UNCHANGED <<memory, deleted>>
        PROVE  Carried(c)
    <3>1. Remade(e, f, "read", f.has, Read(f.p), f.kids)
      BY Zenon, <1>4, <2>4, Remakes
    <3>2. Read(f.p) = IF Big(Seen, f.p) THEN Err("EFBIG") ELSE Seen[f.p]
      BY <1>4, <2>2, ReadIs
    <3>3. Goes(Seen, B, r, e, Nobody)
      <4>1. e.op = "link" /\ e.pc = "read" /\ e.p = f.p /\ e.q = f.q
            /\ e.res = IF Big(Seen, f.p) THEN Err("EFBIG") ELSE Seen[f.p]
        BY <2>1, <3>1, <3>2 DEF Remade
      <4> HIDE DEF f, r, B
      <4> QED  BY <2>2, <2>4, <4>1 DEF Goes
    <3> HIDE DEF f, r, B
    <3> QED  BY Zenon, <1>1, <2>4, <3>1, <3>3, LoneAwaits DEF f, r, B
  <2> QED  BY <1>10, <2>3, <2>4 DEF LinkNew
<1>11. CASE LinkRead(c)
  <2>1. f.op = "link" /\ f.pc = "read"
    BY <1>11 DEF LinkRead, Runs, At
  <2>2. /\ Seen = B /\ Seen[f.p].t = "file" /\ Seen[f.q].t = "err"
        /\ f.res = IF Big(Seen, f.p) THEN Err("EFBIG") ELSE Seen[f.p]
    BY <1>3, <1>4, <2>1 DEF Goes
  <2>3. r.op = "link" /\ B[r.p].t = "file" /\ B[r.q].t = "err"
    BY <1>3, <2>1, <2>2
  <2>4. ASSUME f.res.t # "file", Throw(c, f.res.e)
        PROVE  Carried(c)
    <3>1. Big(Seen, f.p) /\ f.res.e = "EFBIG"
      BY <2>2, <2>4 DEF Err
    <3>2. Delivers(Seen, B, r, calls[c].id, "EFBIG")
      <4>1. Big(B, r.p)
        BY <1>3, <2>2, <3>1
      <4> HIDE DEF f, r, B
      <4> QED  BY <2>2, <2>3, <4>1 DEF Delivers
    <3> QED  BY <1>1, <1>5, <2>4, <3>1, <3>2, LoneThrows
  <2>5. ASSUME f.res.t = "file", NEW m, Put(f.q, File(f.res.c, m)), Return(c, "ok")
        PROVE  Carried(c)
    <3>1. Seen'[f.q] = File(f.res.c, m)
      BY <1>4, <2>5, PutSeen
    <3>2. ~Big(Seen, f.p) /\ f.res = Seen[f.p]
      BY <2>2, <2>5 DEF Err
    <3>3. Same(File(f.res.c, m), Seen[f.p])
      BY <2>2, <3>2 DEF Same, File
    <3>4. Delivers(Seen', B, r, calls[c].id, "ok")
      <4>1. ~Big(B, r.p) /\ Same(Seen'[r.q], B[r.p])
        BY <1>3, <2>2, <3>1, <3>2, <3>3
      <4> HIDE DEF f, r, B
      <4> QED  BY <2>3, <4>1 DEF Delivers
    <3> QED  BY <1>1, <1>2, <2>5, <3>4, LoneEnds
  <2> QED  BY <1>11, <2>4, <2>5 DEF LinkRead
<1> QED
  BY <1>7, <1>8, <1>9, <1>10, <1>11

LEMMA StepCarries ==
  ASSUME IInv, IInv', Clean, Clean', Large, NEW c \in Callers, Step(c),
         UNCHANGED <<made, calm>>, Carries(c)
  PROVE  Carried(c)
<1>1. CASE Written(c) \/ AppendRead(c)
  BY <1>1, WriteCarries
<1>2. CASE MkdirExists(c) \/ MkdirParent(c) \/ MkdirMade(c)
  BY <1>2, MkdirCarries
<1>3. CASE RmExists(c) \/ RmStat(c) \/ RmList(c)
  BY <1>3, RmCarries
<1>4. CASE CpExists(c) \/ CpStat(c) \/ CpRead(c) \/ CpMkdir(c) \/ CpList(c)
  BY <1>4, CpCarries
<1>5. CASE MvCopied(c) \/ MvRemoved(c)
  BY <1>5, MvCarries
<1>6. CASE \E op \in {"chmod", "utimes"} :
             AttrExists(c, op) \/ AttrStat(c, op) \/ AttrRead(c, op)
  BY <1>6, AttrCarries
<1>7. CASE \/ SymlinkExists(c)
           \/ LinkExists(c) \/ LinkStat(c) \/ LinkNew(c) \/ LinkRead(c)
  BY <1>7, LinkCarries
<1> QED
  BY <1>1, <1>2, <1>3, <1>4, <1>5, <1>6, <1>7 DEF Step

-----------------------------------------------------------------------------
(* What is written can be read.                                            *)

\* An answer of read can be written.
LEMMA ReadWritable ==
  ASSUME Large, Legible \subseteq Legible', NEW p \in Paths, NEW n, n = Seen[p], n.t = "file",
         ~Big(Seen, p), NEW m
  PROVE  Writable(File(n.c, m))
<1>1. ToSet(n.c) \subseteq Legible
  BY DEF Large
<1>2. File(n.c, m).c = n.c
  BY DEF File
<1> QED
  BY <1>1, <1>2 DEF Writable

\* An appended file can be read again.
LEMMA AppendWritable ==
  ASSUME Legible \subseteq Legible', NEW old \in Seq(Nat), ToSet(old) \subseteq Legible,
         NEW id \in Nat, id \in Legible
  PROVE  Writable(File(Append(old, id), "default"))
<1> DEFINE s == Append(old, id)
<1>1. /\ s \in Seq(Nat) /\ Len(s) = Len(old) + 1
      /\ \A i \in 1 .. Len(old) : s[i] = old[i]
      /\ s[Len(old) + 1] = id
  BY AppendProperties
<1>2. Len(old) \in Nat /\ DOMAIN old = 1 .. Len(old) /\ DOMAIN s = 1 .. Len(old) + 1
  BY <1>1
<1> HIDE DEF s
<1>3. ASSUME NEW i \in DOMAIN s PROVE s[i] \in Legible
  <2>1. CASE i = Len(old) + 1
    BY <1>1, <2>1
  <2>2. CASE i # Len(old) + 1
    <3>1. i \in 1 .. Len(old)
      BY <1>2, <2>2
    <3>2. s[i] = old[i] /\ old[i] \in ToSet(old)
      BY <1>1, <1>2, <3>1 DEF ToSet
    <3> QED  BY <3>2
  <2> QED  BY <2>1, <2>2
<1>4. ToSet(s) \subseteq Legible
  BY <1>3 DEF ToSet
<1>5. File(s, "default").c = s
  BY DEF File
<1> QED
  BY <1>4, <1>5 DEF Writable, s

\* A step that leaves the memory layer alone.
LEMMA SameReadable ==
  ASSUME Readable, Legible \subseteq Legible', UNCHANGED memory
  PROVE  Readable'
BY ReadableSet

LEMMA ThrowReadable ==
  ASSUME Readable, Legible \subseteq Legible', NEW c, NEW e, Throw(c, e)
  PROVE  Readable'
BY SameReadable DEF Throw

LEMMA AppendReadable ==
  ASSUME IInv, Clean, Large, Readable, Legible \subseteq Legible', NEW c \in Callers,
         AppendRead(c), Carries(c)
  PROVE  Readable'
<1> DEFINE f == Top(c)
           r == calls[c].req
           B == Was(c)
           id == calls[c].id
           old == IF f.res.t = "file" THEN f.res.c ELSE <<>>
<1>1. Busy(c) /\ f.op = "append" /\ f.pc = "read" /\ Put(f.p, File(Append(old, id), "default"))
  BY DEF AppendRead, Runs, At
<1>2. f.op = r.op /\ f.p = r.p /\ Seen = B
  BY <1>1, LoneIs DEF LoneFacts
<1>3. Goes(Seen, B, r, f, CallerOf(Rest(c))) /\ f.p \in Paths /\ SeenIs
  BY <1>1, TopIs
<1>4. f.res = Seen[f.p] /\ Seen[f.p].t \in {"file", "err"}
  BY <1>1, <1>3 DEF Goes
<1>5. ~Big(Seen, f.p)
  BY <1>1, <1>2 DEF Carries, Found, Was
<1>6. old \in Seq(Nat) /\ ToSet(old) \subseteq Legible
  <2>1. CASE f.res.t = "file"
    <3>1. Seen[f.p] \in Entries
      BY <1>3 DEF SeenIs
    <3>2. f.res.c \in Seq(Nat) /\ ToSet(f.res.c) \subseteq Legible
      BY <1>3, <1>4, <1>5, <2>1, <3>1, EntryIs DEF Large
    <3> QED  BY <2>1, <3>2
  <2>2. CASE f.res.t # "file"
    <3>1. DOMAIN <<>> = {} /\ <<>> \in Seq(Nat)
      OBVIOUS
    <3>2. old = <<>>
      BY <2>2
    <3> HIDE DEF old
    <3> QED  BY <3>1, <3>2 DEF ToSet
  <2> QED  BY <2>1, <2>2
<1>7. id \in Nat /\ id \in Legible
  <2>1. made \in Nat /\ id \in 1 .. made
    BY <1>1, CallsAssumption DEF IInv, CallsInv, CallsOK
  <2> QED  BY <2>1 DEF Legible
<1>8. Writable(File(Append(old, id), "default"))
  <2> HIDE DEF old, id
  <2> QED  BY <1>6, <1>7, AppendWritable
<1> HIDE DEF old, f
<1> QED
  BY <1>1, <1>8, PutReadable

LEMMA MkdirReadable ==
  ASSUME Readable, Legible \subseteq Legible', NEW c \in Callers,
         MkdirExists(c) \/ MkdirParent(c) \/ MkdirMade(c)
  PROVE  Readable'
<1>1. ASSUME NEW p, MakeDir(p) PROVE Readable'
  <2>1. Writable(Dir("default")) /\ memory' = Set(memory, p, Dir("default"))
    BY <1>1 DEF Writable, Dir, MakeDir
  <2> QED  BY <2>1, CopyUpReadable
<1>2. CASE MkdirExists(c)
  BY <1>1, <1>2, SameReadable DEF MkdirExists, Throw
<1>3. CASE MkdirParent(c)
  BY <1>1, <1>3, SameReadable DEF MkdirParent, Throw
<1>4. CASE MkdirMade(c)
  BY <1>1, <1>4 DEF MkdirMade
<1> QED
  BY <1>2, <1>3, <1>4

LEMMA RmReadable ==
  ASSUME Readable, Legible \subseteq Legible', NEW c \in Callers,
         RmExists(c) \/ RmStat(c) \/ RmList(c)
  PROVE  Readable'
<1>1. RmMark(c) => Readable'
  BY MarkReadable DEF RmMark
<1>2. CASE RmExists(c)
  BY <1>2, SameReadable DEF RmExists, Throw
<1>3. CASE RmStat(c)
  BY <1>1, <1>3, SameReadable DEF RmStat
<1>4. CASE RmList(c)
  BY <1>1, <1>4, SameReadable DEF RmList
<1> QED
  BY <1>2, <1>3, <1>4

\* What a read that found a file answered can be written.
LEMMA GoesWritable ==
  ASSUME IInv, Clean, Large, Legible \subseteq Legible', NEW c \in Callers, Busy(c), Carries(c),
         Top(c).pc = "read", Top(c).op # "append", Top(c).res.t = "file", NEW m
  PROVE  Writable(File(Top(c).res.c, m))
<1> DEFINE f == Top(c)
<1>1. Goes(Seen, Was(c), calls[c].req, f, CallerOf(Rest(c))) /\ f.p \in Paths
  BY TopIs
<1>2. Seen[f.p].t = "file" /\ f.res = IF Big(Seen, f.p) THEN Err("EFBIG") ELSE Seen[f.p]
  BY <1>1 DEF Goes
<1>3. ~Big(Seen, f.p) /\ f.res = Seen[f.p]
  BY <1>2 DEF Err
<1> HIDE DEF f
<1>4. Writable(File(f.res.c, m))
  BY <1>1, <1>2, <1>3, ReadWritable
<1> QED
  BY <1>4 DEF f

LEMMA CpReadable ==
  ASSUME IInv, Clean, Large, Readable, Legible \subseteq Legible', NEW c \in Callers,
         CpExists(c) \/ CpStat(c) \/ CpRead(c) \/ CpMkdir(c) \/ CpList(c), Carries(c)
  PROVE  Readable'
<1>1. CASE CpExists(c)
  BY <1>1, SameReadable DEF CpExists, Throw
<1>2. CASE CpStat(c)
  BY <1>2, SameReadable DEF CpStat, Throw
<1>3. CASE CpRead(c)
  <2>1. Busy(c) /\ Top(c).op # "append" /\ Top(c).pc = "read"
    BY <1>3 DEF CpRead, Runs, At
  <2>2. CASE Throw(c, Top(c).res.e)
    BY <2>2, ThrowReadable
  <2>3. CASE Top(c).res.t = "file" /\ Put(Top(c).q, File(Top(c).res.c, "default"))
    BY <2>1, <2>3, GoesWritable, PutReadable
  <2> QED  BY <1>3, <2>2, <2>3 DEF CpRead
<1>4. CASE CpMkdir(c)
  BY <1>4, SameReadable DEF CpMkdir, Throw
<1>5. CASE CpList(c)
  BY <1>5, SameReadable DEF CpList, Throw
<1> QED
  BY <1>1, <1>2, <1>3, <1>4, <1>5

LEMMA AttrReadable ==
  ASSUME IInv, Clean, Large, Readable, Legible \subseteq Legible', NEW c \in Callers,
         NEW op \in {"chmod", "utimes"},
         AttrExists(c, op) \/ AttrStat(c, op) \/ AttrRead(c, op), Carries(c)
  PROVE  Readable'
<1>1. CASE AttrExists(c, op)
  <2>1. ASSUME NEW p \in DOMAIN memory, NEW m, memory' = [memory EXCEPT ![p].m = m]
        PROVE  Readable'
    <3>1. memory[p] \in Entry(Contents, LinkTargets)
      BY DEF IInv, Layers, Range
    <3>2. [memory[p] EXCEPT !.m = m].t = memory[p].t
          /\ (memory[p].t = "file" => [memory[p] EXCEPT !.m = m].c = memory[p].c)
      BY <3>1 DEF Entry
    <3>3. \A x \in DOMAIN memory' :
            /\ x \in DOMAIN memory
            /\ memory'[x] = IF x = p THEN [memory[p] EXCEPT !.m = m] ELSE memory[x]
      BY <2>1
    <3>4. memory[p].t = "file" => ToSet(memory[p].c) \subseteq Legible
      BY DEF Readable
    <3> QED  BY <3>2, <3>3, <3>4, ReadableSet
  <2> QED  BY <1>1, <2>1, SameReadable DEF AttrExists, Throw
<1>2. CASE AttrStat(c, op)
  <2>1. ASSUME NEW p, NEW m, CopyUp(p, Dir(m)) PROVE Readable'
    <3>1. Writable(Dir(m)) /\ memory' = Set(memory, p, Dir(m))
      BY <2>1 DEF Writable, Dir, CopyUp
    <3> QED  BY <3>1, CopyUpReadable
  <2> QED  BY <1>2, <2>1, SameReadable DEF AttrStat, Throw
<1>3. CASE AttrRead(c, op)
  <2>1. Busy(c) /\ Top(c).op # "append" /\ Top(c).pc = "read"
    BY <1>3 DEF AttrRead, Runs, At
  <2>2. CASE Throw(c, Top(c).res.e)
    BY <2>2, ThrowReadable
  <2>3. ASSUME Top(c).res.t = "file", NEW m, CopyUp(Top(c).p, File(Top(c).res.c, m))
        PROVE  Readable'
    <3>1. Writable(File(Top(c).res.c, m))
      BY <2>1, <2>3, GoesWritable
    <3> QED  BY <2>3, <3>1, CopyUpReadable DEF CopyUp
  <2> QED  BY <1>3, <2>2, <2>3 DEF AttrRead
<1> QED
  BY <1>1, <1>2, <1>3

LEMMA LinkReadable ==
  ASSUME IInv, Clean, Large, Readable, Legible \subseteq Legible', NEW c \in Callers,
         SymlinkExists(c) \/ LinkExists(c) \/ LinkStat(c) \/ LinkNew(c) \/ LinkRead(c), Carries(c)
  PROVE  Readable'
<1>1. CASE SymlinkExists(c)
  <2>1. \A to : Writable(Link(to))
    BY DEF Writable, Link
  <2> QED  BY <1>1, <2>1, PutReadable, SameReadable DEF SymlinkExists, Throw
<1>2. CASE LinkExists(c) \/ LinkStat(c) \/ LinkNew(c)
  BY <1>2, SameReadable DEF LinkExists, LinkStat, LinkNew, Throw
<1>3. CASE LinkRead(c)
  <2>1. Busy(c) /\ Top(c).op # "append" /\ Top(c).pc = "read"
    BY <1>3 DEF LinkRead, Runs, At
  <2>2. CASE Throw(c, Top(c).res.e)
    BY <2>2, ThrowReadable
  <2>3. ASSUME Top(c).res.t = "file", NEW m, Put(Top(c).q, File(Top(c).res.c, m))
        PROVE  Readable'
    <3>1. Writable(File(Top(c).res.c, m))
      BY <2>1, <2>3, GoesWritable
    <3> QED  BY <2>3, <3>1, PutReadable
  <2> QED  BY <1>3, <2>2, <2>3 DEF LinkRead
<1> QED
  BY <1>1, <1>2, <1>3

LEMMA StepReadable ==
  ASSUME IInv, Clean, Large, Readable, NEW c \in Callers, Step(c),
         UNCHANGED <<made, calm>>, Carries(c)
  PROVE  Readable'
<1>0. Legible \subseteq Legible'
  <2>1. made \in Nat
    BY CallsAssumption DEF IInv, CallsInv, CallsOK
  <2> QED  BY <2>1, LegibleGrows
<1>1. CASE Written(c)
  BY <1>0, <1>1, ThrowReadable DEF Written
<1>2. CASE AppendRead(c)
  BY <1>0, <1>2, AppendReadable
<1>3. CASE MkdirExists(c) \/ MkdirParent(c) \/ MkdirMade(c)
  BY <1>0, <1>3, MkdirReadable
<1>4. CASE RmExists(c) \/ RmStat(c) \/ RmList(c)
  BY <1>0, <1>4, RmReadable
<1>5. CASE CpExists(c) \/ CpStat(c) \/ CpRead(c) \/ CpMkdir(c) \/ CpList(c)
  BY <1>0, <1>5, CpReadable
<1>6. CASE MvCopied(c) \/ MvRemoved(c)
  BY <1>0, <1>6, SameReadable DEF MvCopied, MvRemoved, Throw
<1>7. CASE \E op \in {"chmod", "utimes"} :
             AttrExists(c, op) \/ AttrStat(c, op) \/ AttrRead(c, op)
  BY <1>0, <1>7, AttrReadable
<1>8. CASE \/ SymlinkExists(c)
           \/ LinkExists(c) \/ LinkStat(c) \/ LinkNew(c) \/ LinkRead(c)
  BY <1>0, <1>8, LinkReadable
<1> QED
  BY <1>1, <1>2, <1>3, <1>4, <1>5, <1>6, <1>7, <1>8 DEF Step

\* A step of the call that runs keeps what is known of the others, of which none runs.
LEMMA StepFaithful ==
  ASSUME IInv, IInv', Clean, Clean', Faithful, NEW c \in Callers, Step(c),
         UNCHANGED <<made, calm>>
  PROVE  Faithful' /\ Carried(c)
<1>1. Large /\ Readable
  BY LargeHere DEF Faithful
<1>2. Busy(c)
  BY StepIsOwn
<1>3. Carries(c)
  BY <1>2, CarriesIs
<1>4. Carried(c) /\ Readable'
  BY <1>1, <1>3, StepCarries, StepReadable
<1>5. ASSUME NEW d \in Callers, Busy(d)'
      PROVE  /\ Found(calls'[d].before, calls'[d].req)
             /\ Honours(Seen', SeenOf(calls'[d].before), calls'[d].req, calls'[d].stack, calls'[d].id)
  <2>1. d = c
    <3>1. d # c => Busy(d)
      BY <1>5, StepIsOwn DEF Busy, Alone
    <3> QED  BY <1>2, <3>1 DEF Clean
  <2>2. Found(calls[c].before, calls[c].req)
    BY <1>3 DEF Carries
  <2>3. calls'[c].stack # <<>>
    BY <1>5, <2>1 DEF Busy
  <2> QED  BY <1>4, <2>1, <2>2, <2>3 DEF Carried, Was
<1> QED
  BY <1>4, <1>5 DEF Faithful

-----------------------------------------------------------------------------
(* Calls that begin.                                                       *)

LEMMA FoundHere ==
  ASSUME IInv, Clean, NEW r \in Requests, Sensible(Tree, r)
  PROVE  Found(Tree, r) /\ SeenOf(Tree) = Seen
<1> DEFINE t == Tree
<1>1. Layers /\ Tidy /\ Hangs(Kinds) /\ SeenIs /\ TreeShows
  BY SeenHere, TreeHere DEF IInv, Clean
<1>2. \A x \in Paths : Seen[x] \in Entries /\ Seen[x].t = Kinds[x]
  BY <1>1 DEF SeenIs
<1>3. SeenOf(t) = Seen
  <2>1. Seen = [x \in Paths |-> Seen[x]]
    BY DEF Seen
  <2> QED  BY <1>1, <1>2, <2>1, ShownIs DEF TreeShows
<1>4. KindsOf(Seen) = Kinds
  BY <1>1 DEF SeenIs
<1>5. WellFormed(t, r) /\ r.p \in Paths /\ r.q \in Paths /\ r.p # Root
  BY RequestIs DEF Sensible, Paths
<1>6. Starts(Kinds, r)
  BY <1>1, <1>5, WellFormedStarts
<1>7. /\ t = [x \in DOMAIN t |-> t[x]] /\ DOMAIN t \subseteq Paths
      /\ \A x \in Paths : x \in DOMAIN t <=> Seen[x].t # "err"
      /\ \A x \in DOMAIN t : t[x] = Seen[x]
  BY <1>1 DEF TreeShows, Shows
<1>8. r.op \in {"cp", "mv"} /\ Seen[r.p].t = "dir" => Seen[r.q].t = "err"
  <2> SUFFICES ASSUME r.op \in {"cp", "mv"}, Seen[r.p].t = "dir"
               PROVE  Seen[r.q].t = "err"
    OBVIOUS
  <2>1. TreeFits(t, r.p, r.q) /\ r.q # Root
    BY <1>5, TargetIs DEF WellFormed
  <2>2. IsDir(t, r.p)
    BY <1>1, <1>2, <1>5, FitsKinds
  <2>3. ~Exists(t, r.q)
    BY <2>1, <2>2 DEF TreeFits
  <2> QED  BY <1>1, <1>2, <1>5, <2>1, <2>3, FitsKinds
<1>9. r.op = "append" => ~Big(Seen, r.p)
  <2> SUFFICES ASSUME r.op = "append", Big(Seen, r.p) PROVE FALSE
    OBVIOUS
  <2>1. r.p \in Huge /\ Seen[r.p] = Lower[r.p] /\ Seen[r.p].t = "file"
    BY HugeIsOwn DEF Big
  <2>2. r.p \in Unread(t)
    BY <1>5, <1>7, <2>1 DEF Unread
  <2> QED  BY <2>2 DEF Sensible
<1>10. r.op = "link" => Seen[r.p].t # "link"
  <2> SUFFICES ASSUME r.op = "link" PROVE Seen[r.p].t # "link"
    OBVIOUS
  <2>1. NoLinks(t, r.p)
    BY <1>5 DEF WellFormed
  <2>2. Under(r.p, r.p)
    BY <1>5, UnderSelf DEF Paths
  <2> QED  BY <1>1, <1>2, <1>5, <2>1, <2>2, FitsKinds
<1> HIDE DEF t
<1>11. Found(t, r)
  BY <1>1, <1>2, <1>3, <1>4, <1>6, <1>7, <1>8, <1>9, <1>10 DEF Found
<1> QED
  BY <1>3, <1>11 DEF t

\* The stack of one invocation, and of two.
LEMMA LinkedOne ==
  ASSUME NEW F, NEW f \in F, NEW S, NEW B, NEW r, Owes(S, B, r, f, Nobody)
  PROVE  Linked(S, B, r, <<f>>) /\ Head(<<f>>) = f /\ CallerOf(Tail(<<f>>)) = Nobody
<1> DEFINE e == <<>>
<1>1. e \in Seq(F) /\ CallerOf(e) = Nobody /\ Linked(S, B, r, e)
  BY LinkedEmpty, CallerNone
<1>2. <<f>> \o e = <<f>> /\ Head(<<f>>) = f /\ Tail(<<f>>) = e
  OBVIOUS
<1> HIDE DEF e
<1>3. Linked(S, B, r, <<f>> \o e)
  BY <1>1, LinkedJoin
<1> QED
  BY <1>1, <1>2, <1>3

LEMMA LinkedTwo ==
  ASSUME NEW F, NEW f \in F, NEW g \in F, NEW S, NEW B, NEW r,
         Owes(S, B, r, f, g), Owes(S, B, r, g, Nobody)
  PROVE  Linked(S, B, r, <<f, g>>) /\ Head(<<f, g>>) = f /\ CallerOf(Tail(<<f, g>>)) = g
<1> DEFINE u == <<g>>
<1>1. Linked(S, B, r, u) /\ u \in Seq(F)
  BY LinkedOne
<1>2. CallerOf(u) = g
  BY DEF CallerOf
<1>3. <<f>> \o u = <<f, g>>
  <2>1. <<f>> \in Seq(F) /\ u \in Seq(F) /\ <<f, g>> \in Seq(F)
    OBVIOUS
  <2> DEFINE v == <<f>> \o u
             w == <<f, g>>
  <2>2. v \in Seq(F) /\ Len(v) = 2 /\ v[1] = f /\ v[2] = g
    BY <2>1, ConcatProperties
  <2>3. w \in Seq(F) /\ Len(w) = 2 /\ w[1] = f /\ w[2] = g
    OBVIOUS
  <2> HIDE DEF v, w
  <2>4. \A i \in 1 .. 2 : v[i] = w[i]
    BY <2>2, <2>3
  <2> QED  BY <2>2, <2>3, <2>4, SeqEqual DEF v, w
<1> HIDE DEF u
<1>4. Linked(S, B, r, <<f>> \o u)
  BY <1>1, <1>2, LinkedJoin
<1>5. Head(<<f>> \o u) = f /\ Tail(<<f>> \o u) = u
  BY <1>1, ConsIs
<1> QED
  BY <1>2, <1>3, <1>4, <1>5

\* A call owes nothing yet.
LEMMA NothingDone ==
  ASSUME NEW S, NEW r
  PROVE  Framed(S, S, r) /\ Mirrors(S, S, r) /\ SourceSame(S, S, r)
BY DEF Framed, Mirrors, SourceSame

LEMMA StartsHonours ==
  ASSUME IInv, Clean, Readable, NEW r \in Requests, Sensible(Tree, r), r.op # "write", NEW id
  PROVE  Honours(Seen, Seen, r, Enter(r), id)
<1> DEFINE S == Seen
<1>1. Layers /\ SeenIs /\ Large
  BY SeenHere, LargeHere DEF IInv
<1>2. r \in Reqs /\ r.p \in Paths /\ r.q \in Paths /\ r.op \in OpNames /\ r.p # Root
  BY RequestIs DEF Paths, Reqs
<1>3. Visible(r.p) <=> S[r.p].t # "err"
  BY <1>1, <1>2 DEF SeenIs
<1>4. Found(Tree, r) /\ SeenOf(Tree) = S /\ KindsOf(S) = Kinds
  BY <1>1, FoundHere DEF SeenIs
<1>5. Framed(S, S, r) /\ Mirrors(S, S, r) /\ SourceSame(S, S, r)
  BY NothingDone
<1>6. Nobody.op = "none"
  BY CallerNone
<1>7. CASE r.op = "append"
  <2> DEFINE e == Frame("overlay", r, "read")
             res == Read(r.p)
             f == [e EXCEPT !.res = res]
  <2>1. /\ e \in Frames(Contents) /\ e.op = r.op /\ e.p = r.p /\ e.q = r.q /\ e.pc = "read"
        /\ res \in Answer(Contents)
    BY <1>1, <1>2, FrameTyped, QueriesTyped DEF Awaits
  <2>2. e.o = r.o
    BY DEF Frame
  <2>3. Enter(r) = <<f>>
    BY <1>7 DEF Enter
  <2>4. S[r.p].t \in {"file", "err"}
    <3>1. Kinds[r.p] # "dir"
      BY <1>4, <1>7 DEF Found, Starts
    <3>2. Kinds[r.p] # "link"
      <4>1. NoLinks(Tree, r.p) /\ Tidy
        BY <1>7 DEF Sensible, WellFormed, Clean
      <4>2. Under(r.p, r.p)
        BY <1>2, UnderSelf DEF Paths
      <4> QED  BY <1>1, <1>2, <4>1, <4>2, FitsKinds
    <3>3. S[r.p] \in Entries /\ Kinds[r.p] = S[r.p].t
      BY <1>1, <1>2 DEF SeenIs
    <3> QED  BY <3>1, <3>2, <3>3, EntryIs
  <2>5. res = S[r.p]
    <3>1. ~Big(S, r.p)
      BY <1>4, <1>7 DEF Found
    <3> QED  BY <1>1, <1>2, <2>4, <3>1, ReadIs
  <2> HIDE DEF e, res
  <2>6. /\ f \in Frames(Contents) /\ f.op = r.op /\ f.p = r.p /\ f.q = r.q /\ f.o = r.o
        /\ f.pc = "read" /\ f.res = res
    BY <2>1, <2>2 DEF Frames
  <2> HIDE DEF f, S
  <2>7. Owes(S, S, r, f, Nobody)
    BY <1>6, <1>7, <2>6 DEF Owes
  <2>8. Goes(S, S, r, f, Nobody)
    BY <1>5, <1>6, <1>7, <2>4, <2>5, <2>6 DEF Goes
  <2>9. /\ Linked(S, S, r, <<f>>) /\ Head(<<f>>) = f /\ CallerOf(Tail(<<f>>)) = Nobody
    BY <2>6, <2>7, LinkedOne
  <2>10. Honours(S, S, r, <<f>>, id)
    BY <1>5, <1>7, <2>8, <2>9 DEF Honours
  <2> QED  BY <2>3, <2>10 DEF S
<1>8. CASE r.op = "mv"
  <2> DEFINE copy == Req("cp", r.p, r.q, Recursive)
             e == Frame("overlay", copy, "exists")
             has == Visible(r.p)
             f == [e EXCEPT !.has = has]
             g == Frame("overlay", r, "cp")
  <2>1. /\ copy \in Reqs /\ copy.op = "cp" /\ copy.p = r.p /\ copy.q = r.q /\ copy.o.rec
    BY <1>2 DEF Req, Reqs, OpNames, Recursive, Options, Paths
  <2>2. /\ e \in Frames(Contents) /\ e.op = "cp" /\ e.p = r.p /\ e.q = r.q /\ e.o.rec
        /\ e.pc = "exists" /\ has \in BOOLEAN
    <3>1. e.o = copy.o
      BY DEF Frame
    <3> HIDE DEF copy
    <3>2. "exists" \in Awaits
      BY DEF Awaits
    <3>3. /\ e \in Frames(Contents) /\ e.op = copy.op /\ e.p = copy.p /\ e.q = copy.q
          /\ e.pc = "exists"
      BY <2>1, <3>2, FrameTyped
    <3>4. has \in BOOLEAN
      BY <1>1, QueriesTyped
    <3>5. copy.op = "cp" /\ copy.p = r.p /\ copy.q = r.q /\ copy.o.rec
      BY <2>1
    <3> QED  BY <3>1, <3>3, <3>4, <3>5
  <2>3. /\ g \in Frames(Contents) /\ g.op = "mv" /\ g.pc = "cp" /\ g.p = r.p /\ g.q = r.q
        /\ g.o = r.o
    <3>1. g.o = r.o
      BY DEF Frame
    <3> QED  BY <1>2, <1>8, <3>1, FrameTyped DEF Awaits
  <2>4. Enter(r) = <<f, g>>
    BY <1>8 DEF Enter
  <2>5. has <=> S[r.p].t # "err"
    BY <1>3
  <2> HIDE DEF e, has, g
  <2>6. /\ f \in Frames(Contents) /\ f.op = "cp" /\ f.p = r.p /\ f.q = r.q /\ f.o.rec
        /\ f.pc = "exists" /\ f.has = has
    BY <2>2 DEF Frames
  <2> HIDE DEF f, S
  <2>7. Owes(S, S, r, f, g) /\ Owes(S, S, r, g, Nobody)
    BY <1>6, <1>8, <2>3, <2>6 DEF Owes
  <2>8. Goes(S, S, r, f, g)
    BY <1>5, <2>3, <2>5, <2>6 DEF Goes
  <2>9. Linked(S, S, r, <<f, g>>) /\ Head(<<f, g>>) = f /\ CallerOf(Tail(<<f, g>>)) = g
    BY <2>3, <2>6, <2>7, LinkedTwo
  <2>10. Honours(S, S, r, <<f, g>>, id)
    BY <1>5, <1>8, <2>8, <2>9 DEF Honours
  <2> QED  BY <2>4, <2>10 DEF S
<1>9. CASE r.op \notin {"append", "write", "mv"}
  <2>1. PICK h \in Frames(Contents) : Enter(r) = <<h>> /\ Fresh(h, r)
    BY <1>1, <1>2, <1>9, Entered
  <2>2. /\ h.op = r.op /\ h.p = r.p /\ h.q = r.q /\ h.o = r.o
        /\ h.pc = "exists" /\ (h.has <=> S[h.p].t # "err")
    BY <1>3, <2>1 DEF Fresh
  <2> HIDE DEF S
  <2>3. Owes(S, S, r, h, Nobody)
    BY <1>6, <1>9, <2>2 DEF Owes
  <2>4. Goes(S, S, r, h, Nobody)
    BY <1>5, <1>6, <1>9, <2>2 DEF Goes
  <2>5. /\ Linked(S, S, r, <<h>>) /\ Head(<<h>>) = h /\ CallerOf(Tail(<<h>>)) = Nobody
    BY <2>3, LinkedOne
  <2>6. Honours(S, S, r, <<h>>, id)
    BY <1>5, <1>9, <2>4, <2>5 DEF Honours
  <2> QED  BY <2>1, <2>6 DEF S
<1> QED
  BY <1>7, <1>8, <1>9

\* A write is made when it is called.
LEMMA WriteHonours ==
  ASSUME NEW S, NEW B, NEW r \in Requests, r.op = "write", NEW id, Framed(S, B, r),
         S[r.p] = File(<<id>>, "default")
  PROVE  Honours(S, B, r, Enter(r), id)
<1> DEFINE f == Frame("overlay", r, "written")
<1>1. f.op = "write" /\ f.p = r.p /\ f.q = r.q /\ f.o = r.o /\ f.pc = "written" /\ Enter(r) = <<f>>
  BY DEF Frame, Enter
<1> HIDE DEF f
<1>2. Owes(S, B, r, f, Nobody) /\ Goes(S, B, r, f, Nobody)
  BY <1>1, CallerNone DEF Owes, Goes
<1>3. Linked(S, B, r, <<f>>) /\ Head(<<f>>) = f /\ CallerOf(Tail(<<f>>)) = Nobody
  BY <1>2, LinkedOne
<1>4. Mirrors(S, B, r)
  BY DEF Mirrors
<1> QED
  BY <1>1, <1>2, <1>3, <1>4 DEF Honours

LEMMA BeginFaithful ==
  ASSUME IInv, CalmInv, PromiseInv, NEW c \in Callers, Begin(c)
  PROVE  PromiseInv'
<1> SUFFICES ASSUME calm' PROVE Faithful'
  BY DEF PromiseInv
<1>1. PICK r \in Requests :
        /\ Call(c, r, Enter(r), Tree, Sensible(Tree, r))
        /\ IF r.op = "write" THEN Put(r.p, File(<<made'>>, "default"))
           ELSE UNCHANGED <<memory, deleted>>
  BY DEF Begin
<1>2. calm /\ Quiet /\ Sensible(Tree, r) /\ made' = made + 1
  BY <1>1 DEF Call
<1>3. Clean /\ Faithful /\ Readable
  BY <1>2 DEF CalmInv, PromiseInv, Faithful
<1>4. Found(Tree, r) /\ SeenOf(Tree) = Seen
  BY <1>2, <1>3, FoundHere
<1>5. /\ calls'[c].stack = Enter(r) /\ calls'[c].req = r /\ calls'[c].id = made'
      /\ calls'[c].before = Tree
      /\ \A d \in Callers : d # c => calls'[d] = calls[d]
  <2> DEFINE x == [stack |-> Enter(r), req |-> r, id |-> made', out |-> "none",
                   before |-> IF calm' THEN Tree ELSE <<>>]
  <2>1. calls' = [calls EXCEPT ![c] = x]
    BY <1>1 DEF Call
  <2>2. x.stack = Enter(r) /\ x.req = r /\ x.id = made' /\ x.before = Tree
    OBVIOUS
  <2> HIDE DEF x
  <2> QED  BY <2>1, <2>2 DEF IInv, CallsInv, CallsFit
<1>6. Legible \subseteq Legible' /\ made' \in Legible'
  <2>1. made \in Nat /\ made' # 0
    BY <1>2, CallsAssumption DEF IInv, CallsInv, CallsOK
  <2> QED  BY <1>2, <2>1, LegibleGrows
<1>7. Readable' /\ Honours(Seen', Seen, r, Enter(r), made')
  <2>1. CASE r.op = "write"
    <3> DEFINE n == File(<<made'>>, "default")
               p == r.p
    <3>1. Writable(n)
      <4>1. n.c = <<made'>>
        BY DEF File
      <4>2. ToSet(<<made'>>) = {made'}
        BY DEF ToSet
      <4> HIDE DEF n
      <4> QED  BY <1>6, <4>1, <4>2 DEF Writable
    <3>2. Put(p, n) /\ p \in Paths
      BY <1>1, <2>1, RequestIs DEF Paths
    <3> HIDE DEF n, p
    <3>3. Readable' /\ Seen'[p] = n
      BY <1>3, <1>6, <3>1, <3>2, PutReadable, PutSeen
    <3>4. Framed(Seen', Seen, r)
      <4>1. \A x : Lstat(x)' # Lstat(x) => Footprint(r, x)
        BY <1>5, BeginFits
      <4> QED  BY <4>1 DEF Framed, Seen
    <3> QED  BY <2>1, <3>3, <3>4, WriteHonours DEF n, p
  <2>2. CASE r.op # "write"
    <3>1. UNCHANGED <<memory, deleted>>
      BY <1>1, <2>2
    <3>2. Readable' /\ Seen' = Seen
      BY <1>3, <1>6, <3>1, SameReadable, SameSeen
    <3> QED  BY <1>2, <1>3, <2>2, <3>2, StartsHonours
  <2> QED  BY <2>1, <2>2
<1>8. ASSUME NEW d \in Callers, Busy(d)'
      PROVE  d = c
  BY <1>2, <1>5, <1>8 DEF Quiet, Busy
<1>9. ASSUME NEW d \in Callers, Busy(d)'
      PROVE  /\ Found(calls'[d].before, calls'[d].req)
             /\ Honours(Seen', SeenOf(calls'[d].before), calls'[d].req, calls'[d].stack, calls'[d].id)
  BY <1>4, <1>5, <1>7, <1>8, <1>9
<1> QED
  BY <1>7, <1>9 DEF Faithful

-----------------------------------------------------------------------------
(* The promise holds.                                                      *)

LEMMA PromiseBegins == Init => PromiseInv
<1> SUFFICES ASSUME Init PROVE Faithful
  BY DEF PromiseInv
<1>1. \A x \in DOMAIN memory : memory[x].t = "dir"
  BY DEF Init, Dir
<1>2. \A c \in Callers : calls[c].stack = <<>>
  BY DEF Init, InitCalls, Idle
<1> QED
  BY <1>1, <1>2 DEF Faithful, Readable, Busy

LEMMA PromiseStutter ==
  ASSUME PromiseInv, UNCHANGED vars
  PROVE  PromiseInv'
<1> SUFFICES ASSUME calm' PROVE Faithful'
  BY DEF PromiseInv
<1>1. Faithful /\ calls' = calls /\ memory' = memory /\ made' = made
  BY DEF PromiseInv, vars
<1>2. Seen' = Seen
  BY SameSeen DEF vars
<1>3. Legible' = Legible
  BY <1>1 DEF Legible
<1> QED
  BY <1>1, <1>2, <1>3 DEF Faithful, Readable, Busy

LEMMA PromiseStep ==
  ASSUME IInv, IInv', CalmInv, CalmInv', PromiseInv, [Next]_vars
  PROVE  PromiseInv'
<1>1. ASSUME NEW c \in Callers, Step(c), UNCHANGED <<made, calm>>
      PROVE  PromiseInv'
  BY <1>1, StepFaithful DEF CalmInv, PromiseInv
<1> QED
  BY <1>1, BeginFaithful, PromiseStutter DEF Next, Finished

LEMMA PromiseAlways == Spec => []PromiseInv
<1>1. IInv /\ CalmInv /\ PromiseInv /\ [Next]_vars => PromiseInv'
  BY Inductive, CalmStep, PromiseStep
<1> QED
  BY <1>1, PromiseBegins, Always, CalmAlways, PTL DEF Spec

-----------------------------------------------------------------------------
(* A moved file.                                                           *)

LEMMA MoveHolds == IInv /\ CalmInv /\ PromiseInv => MoveKeepsContent
<1> SUFFICES ASSUME IInv, CalmInv, PromiseInv, calm,
                    NEW c \in Callers, Busy(c), calls[c].req.op = "mv",
                    NEW p \in DOMAIN calls[c].before, Under(p, calls[c].req.p),
                    calls[c].before[p].t = "file"
             PROVE  \E x \in {p, Moved(p, calls[c].req.p, calls[c].req.q)} :
                      x \in DOMAIN Tree /\ Tree[x].t = "file" /\ Tree[x].c = calls[c].before[p].c
  BY DEF MoveKeepsContent
<1> DEFINE t == calls[c].before
           r == calls[c].req
           B == Was(c)
           f == Top(c)
           q == Moved(p, r.p, r.q)
<1>1. Clean /\ Faithful /\ Tidy
  BY DEF CalmInv, PromiseInv, Clean
<1>2. Carries(c)
  BY <1>1, CarriesIs
<1>3. /\ Owes(Seen, B, r, f, CallerOf(Rest(c))) /\ Goes(Seen, B, r, f, CallerOf(Rest(c)))
      /\ Belongs(f, r) /\ r.p \in Paths /\ r.q \in Paths /\ f \in Frames(Contents)
  BY <1>1, <1>2, TopIs
<1>4. p \in Paths /\ B[p] = t[p]
  <2>1. Found(t, r)
    BY <1>2 DEF Carries
  <2> QED  BY <2>1 DEF Found, Was, SeenOf
<1>5. TreeShows
  BY <1>1, TreeHere
<1>6. ASSUME NEW x \in Paths, Same(Seen[x], B[p])
      PROVE  x \in DOMAIN Tree /\ Tree[x].t = "file" /\ Tree[x].c = t[p].c
  BY <1>4, <1>5, <1>6 DEF TreeShows, Shows, Same
<1>7. CASE SourceSame(Seen, B, r)
  <2>1. Same(Seen[p], B[p])
    BY <1>4, <1>7 DEF SourceSame, Same
  <2> QED  BY <1>4, <1>6, <2>1
<1>8. CASE AllCopied(Seen, B, r, r.p)
  <2>1. Same(Seen[q], B[p])
    BY <1>4, <1>8 DEF AllCopied, Copied
  <2>2. q \in Paths
    BY <1>3, <1>4, MovedUnder DEF Paths
  <2> QED  BY <1>6, <2>1, <2>2
<1>9. f.op \in {"cp", "mkdir", "rm", "mv"}
  BY <1>3 DEF Belongs, Frames, OpNames
<1>10. f.op \in {"cp", "mkdir"} \/ (f.op = "mv" /\ f.pc = "cp") => SourceSame(Seen, B, r)
  BY <1>3 DEF Goes
<1>11. f.op = "rm" \/ (f.op = "mv" /\ f.pc # "cp") => AllCopied(Seen, B, r, r.p)
  BY <1>3 DEF Owes
<1> QED
  BY <1>7, <1>8, <1>9, <1>10, <1>11

(* While calls do not overlap, and at every await of a mv, nested copies   *)
(* and removals included, the content of each file the mv found below its  *)
(* source can be read at the old path or at the new one: nothing is        *)
(* removed until everything has been copied.                               *)
THEOREM MovesKeepContent == Spec => []MoveKeepsContent
BY Always, CalmAlways, PromiseAlways, MoveHolds, PTL

-----------------------------------------------------------------------------
(* The effect of a call.                                                   *)

(* A tree u after a call that found t, in what is seen of them.            *)
Ended(t, u, S, T) ==
  /\ Shows(t, S) /\ Shows(u, T)
  /\ \A x \in Paths : S[x] \in Entries /\ T[x] \in Entries
  /\ Hangs(KindsOf(S)) /\ Hangs(KindsOf(T))

LEMMA PlainEntry ==
  ASSUME NEW m \in Entries, NEW n \in Entries, Same(m, n), m.t # "err"
  PROVE  [m EXCEPT !.m = "default"] = [n EXCEPT !.m = "default"]
<1>1. CASE m.t = "dir"
  <2>1. m = Dir(m.m) /\ n = Dir(n.m)
    BY <1>1, EntryIs DEF Same
  <2>2. \A a : [Dir(a) EXCEPT !.m = "default"] = Dir("default")
    BY DEF Dir
  <2> QED  BY <2>1, <2>2
<1>2. CASE m.t = "file"
  <2>1. m = File(m.c, m.m) /\ n = File(m.c, n.m)
    BY <1>2, EntryIs DEF Same
  <2>2. \A a, b : [File(a, b) EXCEPT !.m = "default"] = File(a, "default")
    BY DEF File
  <2> QED  BY <2>1, <2>2
<1>3. CASE m.t = "link"
  <2> DEFINE l(a, b) == [t |-> "link", to |-> a, m |-> b]
  <2>1. m = l(m.to, m.m) /\ n = l(m.to, n.m)
    BY <1>3, EntryIs DEF Same
  <2>2. \A a, b : [l(a, b) EXCEPT !.m = "default"] = l(a, "default")
    OBVIOUS
  <2> HIDE DEF l
  <2> QED  BY <2>1, <2>2
<1> QED
  BY <1>1, <1>2, <1>3, EntryIs

\* Trees of the same entries, but for their modes.
LEMMA PlainSame ==
  ASSUME NEW u, NEW e, DOMAIN u = DOMAIN e,
         \A x \in DOMAIN u : u[x] \in Entries /\ e[x] \in Entries /\ Same(u[x], e[x]) /\ u[x].t # "err"
  PROVE  Plain(u) = Plain(e)
<1>1. \A x \in DOMAIN u : [u[x] EXCEPT !.m = "default"] = [e[x] EXCEPT !.m = "default"]
  BY PlainEntry
<1> QED
  BY <1>1 DEF Plain

\* Where something is seen, there are directories above.
LEMMA HangsAbove ==
  ASSUME NEW S, Hangs(KindsOf(S)), NEW p \in Paths, S[p].t # "err"
  PROVE  \A d \in Ancestors(p) : d \in Paths /\ S[d].t = "dir"
<1>1. \A x \in Paths : KindsOf(S)[x] = S[x].t
  BY DEF KindsOf
<1> QED
  BY <1>1, AncestorPath DEF Hangs

\* Where nothing is seen, there is nothing below.
LEMMA NothingBelow ==
  ASSUME NEW S, Hangs(KindsOf(S)), NEW p \in Paths, p # Root, S[p].t = "err"
  PROVE  \A x \in Paths : Under(x, p) => S[x].t = "err"
<1>1. \A x \in Paths : KindsOf(S)[x] = S[x].t
  BY DEF KindsOf
<1> DEFINE K == KindsOf(S)
<1>2. K[p] # "dir"
  BY <1>1
<1> HIDE DEF K
<1>3. \A x \in Paths : Below(x, p) => K[x] = "err"
  BY <1>2, NoneBelow DEF K
<1> QED
  BY <1>1, <1>3 DEF K, Below, Under, IsStrictPrefix

LEMMA CreateMet ==
  ASSUME NEW t, NEW u, NEW S, NEW T, Ended(t, u, S, T),
         NEW p \in Paths, Creates(KindsOf(S), p),
         NEW n \in Entries, n.t # "err", Same(T[p], n),
         \A x \in Paths : x # p /\ x \notin Ancestors(p) => T[x] = S[x]
  PROVE  Plain(u) = Plain(Create(t, p, n))
<1> DEFINE e == Create(t, p, n)
<1>1. /\ DOMAIN e = DOMAIN t \cup Ancestors(p) \cup {p}
      /\ \A x \in DOMAIN e :
           e[x] = IF x = p THEN n ELSE IF x \in DOMAIN t THEN t[x] ELSE Dir("default")
  BY DEF Create, Set, WithDirs, WithNew
<1> HIDE DEF e
<1>2. /\ DOMAIN t \subseteq Paths /\ DOMAIN u \subseteq Paths
      /\ \A x \in Paths : /\ x \in DOMAIN t <=> S[x].t # "err"
                          /\ x \in DOMAIN u <=> T[x].t # "err"
                          /\ S[x] \in Entries /\ T[x] \in Entries
      /\ \A x \in DOMAIN t : t[x] = S[x]
      /\ \A x \in DOMAIN u : u[x] = T[x]
  BY DEF Ended, Shows
<1>3. T[p].t # "err" /\ T[p].t = n.t
  BY DEF Same
<1>4. \A d \in Ancestors(p) : d \in Paths /\ d # p /\ T[d].t = "dir" /\ S[d].t \in {"err", "dir"}
  <2>1. \A d \in Ancestors(p) : d \in Paths /\ d # p /\ T[d].t = "dir"
    BY <1>3, HangsAbove, AncestorPath DEF Ended
  <2>2. \A d \in Ancestors(p) : KindsOf(S)[d] \in {"err", "dir"}
    BY DEF Creates
  <2> QED  BY <2>1, <2>2 DEF KindsOf
<1>5. Dir("default") \in Entries /\ Dir("default").t = "dir"
  BY DEF Entries, Entry, Dir, Modes
<1>6. \A a, b : a.t = "dir" /\ b.t = "dir" => Same(a, b)
  BY DEF Same
<1>7. ASSUME NEW x \in Paths
      PROVE  /\ x \in DOMAIN u <=> x \in DOMAIN e
             /\ x \in DOMAIN u => u[x] \in Entries /\ e[x] \in Entries /\ Same(u[x], e[x]) /\ u[x].t # "err"
  <2>1. CASE x = p
    <3>1. x \in DOMAIN u /\ x \in DOMAIN e /\ u[x] = T[p] /\ e[x] = n
      BY <1>1, <1>2, <1>3, <2>1
    <3> QED  BY <1>2, <1>3, <3>1
  <2>2. CASE x \in Ancestors(p)
    <3>1. x \in DOMAIN u /\ x \in DOMAIN e /\ u[x] = T[x] /\ u[x].t = "dir"
      BY <1>1, <1>2, <1>4, <2>2
    <3>2. e[x] \in Entries /\ e[x].t = "dir"
      <4>1. CASE x \in DOMAIN t
        <5>1. e[x] = S[x]
          BY <1>1, <1>2, <1>4, <2>2, <3>1, <4>1
        <5> QED  BY <1>2, <1>4, <2>2, <4>1, <5>1
      <4>2. CASE x \notin DOMAIN t
        <5>1. e[x] = Dir("default")
          BY <1>1, <1>4, <2>2, <3>1, <4>2
        <5> QED  BY <1>5, <5>1
      <4> QED  BY <4>1, <4>2
    <3> QED  BY <1>2, <1>6, <3>1, <3>2
  <2>3. CASE x # p /\ x \notin Ancestors(p)
    <3>1. x \in DOMAIN u <=> x \in DOMAIN e
      BY <1>1, <1>2, <2>3
    <3>2. x \in DOMAIN u => u[x] = T[x] /\ e[x] = T[x]
      BY <1>1, <1>2, <2>3
    <3> QED  BY <1>2, <3>1, <3>2 DEF Same
  <2> QED  BY <2>1, <2>2, <2>3
<1>8. DOMAIN e \subseteq Paths
  BY <1>1, <1>2, <1>4
<1>9. DOMAIN u = DOMAIN e
  BY <1>2, <1>7, <1>8
<1>10. \A x \in DOMAIN u : u[x] \in Entries /\ e[x] \in Entries /\ Same(u[x], e[x]) /\ u[x].t # "err"
  BY <1>2, <1>7
<1> QED
  BY <1>9, <1>10, PlainSame DEF e

LEMMA MinusMet ==
  ASSUME NEW t, NEW u, NEW S, NEW T, Ended(t, u, S, T),
         NEW p \in Paths, p # Root, T[p].t = "err",
         \A x \in Paths : ~Under(x, p) => T[x] = S[x]
  PROVE  Plain(u) = Plain(Minus(t, p))
<1> DEFINE e == Minus(t, p)
<1>1. /\ DOMAIN e = {y \in DOMAIN t : ~Under(y, p)}
      /\ \A x \in DOMAIN e : e[x] = t[x]
  BY DEF Minus
<1> HIDE DEF e
<1>2. /\ DOMAIN t \subseteq Paths /\ DOMAIN u \subseteq Paths
      /\ \A x \in Paths : /\ x \in DOMAIN t <=> S[x].t # "err"
                          /\ x \in DOMAIN u <=> T[x].t # "err"
                          /\ S[x] \in Entries /\ T[x] \in Entries
      /\ \A x \in DOMAIN t : t[x] = S[x]
      /\ \A x \in DOMAIN u : u[x] = T[x]
  BY DEF Ended, Shows
<1>3. \A x \in Paths : Under(x, p) => T[x].t = "err"
  BY NothingBelow DEF Ended
<1>4. DOMAIN u = DOMAIN e
  BY <1>1, <1>2, <1>3
<1>5. \A x \in DOMAIN u : u[x] = T[x] /\ e[x] = T[x] /\ T[x] \in Entries /\ T[x].t # "err"
  BY <1>1, <1>2, <1>4
<1>6. \A x \in DOMAIN u : u[x] \in Entries /\ e[x] \in Entries /\ Same(u[x], e[x]) /\ u[x].t # "err"
  BY <1>5 DEF Same
<1> QED
  BY <1>4, <1>6, PlainSame DEF e

LEMMA TouchMet ==
  ASSUME NEW t, NEW u, NEW S, NEW T, Ended(t, u, S, T),
         NEW p \in Paths, Same(T[p], S[p]),
         \A x \in Paths : x # p => T[x] = S[x]
  PROVE  Plain(u) = Plain(t)
<1>1. \A x \in Paths : Same(T[x], S[x])
  BY DEF Same
<1>2. /\ DOMAIN t \subseteq Paths /\ DOMAIN u \subseteq Paths
      /\ \A x \in Paths : /\ x \in DOMAIN t <=> S[x].t # "err"
                          /\ x \in DOMAIN u <=> T[x].t # "err"
                          /\ S[x] \in Entries /\ T[x] \in Entries
      /\ \A x \in DOMAIN t : t[x] = S[x]
      /\ \A x \in DOMAIN u : u[x] = T[x]
  BY DEF Ended, Shows
<1>3. \A x \in Paths : x \in DOMAIN u <=> x \in DOMAIN t
  BY <1>1, <1>2 DEF Same
<1>4. DOMAIN u = DOMAIN t
  BY <1>2, <1>3
<1>5. \A x \in DOMAIN u : u[x] \in Entries /\ t[x] \in Entries /\ Same(u[x], t[x]) /\ u[x].t # "err"
  BY <1>1, <1>2, <1>4
<1> QED
  BY <1>4, <1>5, PlainSame

\* What a copy makes of t.
LEMMA CopyMakes ==
  ASSUME NEW t, DOMAIN t \subseteq Paths, NEW p \in Paths, p \in DOMAIN t, NEW q \in Paths
  PROVE  LET e == Copy(t, p, q)
             copied(x) == Under(x, q) /\ Moved(x, q, p) \in DOMAIN t
         IN /\ DOMAIN e \subseteq Paths
            /\ \A x \in Paths :
                 /\ x \in DOMAIN e <=> copied(x) \/ x \in DOMAIN t \/ x \in Ancestors(q)
                 /\ copied(x) => e[x] = t[Moved(x, q, p)]
                 /\ ~copied(x) /\ x \in DOMAIN t => e[x] = t[x]
                 /\ ~copied(x) /\ x \notin DOMAIN t /\ x \in Ancestors(q) => e[x] = Dir("default")
<1> DEFINE e == Copy(t, p, q)
           copied(x) == Under(x, q) /\ Moved(x, q, p) \in DOMAIN t
           M == {Moved(y, p, q) : y \in Inside(t, p) \cup {p}}
<1>1. \A x : x \in M <=> x \in Paths /\ copied(x)
  <2>1. \A y \in Paths : y \in Inside(t, p) \cup {p} <=> y \in DOMAIN t /\ Under(y, p)
    <3>1. Under(p, p)
      BY UnderSelf DEF Paths
    <3> QED  BY <3>1 DEF Inside, Below, Under, IsStrictPrefix
  <2>2. Inside(t, p) \subseteq Paths
    BY DEF Inside
  <2>3. ASSUME NEW x, x \in M PROVE x \in Paths /\ copied(x)
    <3>1. PICK y \in Inside(t, p) \cup {p} : x = Moved(y, p, q)
      BY <2>3
    <3>2. y \in Paths /\ y \in DOMAIN t /\ Under(y, p)
      BY <2>1, <2>2, <3>1
    <3> QED  BY <3>1, <3>2, MovedBack
  <2>4. ASSUME NEW x \in Paths, copied(x) PROVE x \in M
    <3> DEFINE y == Moved(x, q, p)
    <3>1. y \in Paths /\ Under(y, p) /\ Moved(y, p, q) = x /\ y \in DOMAIN t
      BY <2>4, MovedBack
    <3> HIDE DEF y
    <3> QED  BY <2>1, <3>1
  <2> QED  BY <2>3, <2>4
<1> DEFINE w == [x \in M \cup DOMAIN t |-> IF x \in M THEN t[Moved(x, q, p)] ELSE t[x]]
<1>4. e = WithNew(w, Ancestors(q))
  BY DEF Copy, WithDirs
<1>5. /\ DOMAIN w = M \cup DOMAIN t
      /\ \A x \in DOMAIN w : w[x] = IF x \in M THEN t[Moved(x, q, p)] ELSE t[x]
  OBVIOUS
<1> HIDE DEF M, copied
<1> HIDE DEF w, e
<1>6. /\ DOMAIN e = DOMAIN w \cup Ancestors(q)
      /\ \A x \in DOMAIN e : e[x] = IF x \in DOMAIN w THEN w[x] ELSE Dir("default")
  BY <1>4 DEF WithNew
<1>7. Ancestors(q) \subseteq Paths
  BY AncestorPath
<1>8. DOMAIN e \subseteq Paths
  BY <1>1, <1>5, <1>6, <1>7
<1>9. ASSUME NEW x \in Paths
      PROVE  /\ x \in DOMAIN e <=> copied(x) \/ x \in DOMAIN t \/ x \in Ancestors(q)
             /\ copied(x) => e[x] = t[Moved(x, q, p)]
             /\ ~copied(x) /\ x \in DOMAIN t => e[x] = t[x]
             /\ ~copied(x) /\ x \notin DOMAIN t /\ x \in Ancestors(q) => e[x] = Dir("default")
  <2>1. x \in M <=> copied(x)
    BY <1>1
  <2>2. x \in DOMAIN e <=> x \in M \/ x \in DOMAIN t \/ x \in Ancestors(q)
    BY <1>5, <1>6
  <2>3. x \in M => e[x] = t[Moved(x, q, p)]
    BY <1>5, <1>6
  <2>4. x \notin M /\ x \in DOMAIN t => e[x] = t[x]
    BY <1>5, <1>6
  <2>5. x \notin M /\ x \notin DOMAIN t /\ x \in Ancestors(q) => e[x] = Dir("default")
    BY <1>5, <1>6
  <2> QED  BY <2>1, <2>2, <2>3, <2>4, <2>5
<1> QED
  BY <1>8, <1>9 DEF e, copied

(* What is seen of a copy, once made.                                      *)
CopyMade(T, t, r) ==
  LET e == Copy(t, r.p, r.q)
  IN /\ DOMAIN e \subseteq Paths
     /\ \A x \in Paths : (r.op = "mv" => ~Under(x, r.p)) =>
          /\ x \in DOMAIN e <=> T[x].t # "err"
          /\ x \in DOMAIN e => e[x] \in Entries /\ Same(T[x], e[x])

LEMMA CopyMet ==
  ASSUME NEW t, NEW u, NEW S, NEW T, Ended(t, u, S, T),
         NEW r, r.op \in {"cp", "mv"}, r.p \in Paths, r.q \in Paths,
         S[r.p].t # "err", Creates(KindsOf(S), r.q), r.q # Root,
         Framed(T, S, r), Mirrors(T, S, r), AllCopied(T, S, r, r.p)
  PROVE  CopyMade(T, t, r)
<1> DEFINE p == r.p
           q == r.q
           e == Copy(t, p, q)
           copied(x) == Under(x, q) /\ Moved(x, q, p) \in DOMAIN t
<1>1. /\ DOMAIN t \subseteq Paths
      /\ \A x \in Paths : /\ x \in DOMAIN t <=> S[x].t # "err"
                          /\ S[x] \in Entries /\ T[x] \in Entries
      /\ \A x \in DOMAIN t : t[x] = S[x]
  BY DEF Ended, Shows
<1>2. p \in DOMAIN t
  BY <1>1
<1>3. /\ DOMAIN e \subseteq Paths
      /\ \A x \in Paths :
           /\ x \in DOMAIN e <=> copied(x) \/ x \in DOMAIN t \/ x \in Ancestors(q)
           /\ copied(x) => e[x] = t[Moved(x, q, p)]
           /\ ~copied(x) /\ x \in DOMAIN t => e[x] = t[x]
           /\ ~copied(x) /\ x \notin DOMAIN t /\ x \in Ancestors(q) => e[x] = Dir("default")
  BY <1>1, <1>2, CopyMakes
<1> HIDE DEF e
<1>4. T[q].t # "err"
  <2>1. Under(p, p) /\ Moved(p, p, q) = q
    BY UnderSelf, MovedSelf DEF Paths
  <2>2. Same(T[q], S[p])
    BY <2>1 DEF AllCopied, Copied
  <2> QED  BY <2>2 DEF Same
<1>5. ASSUME NEW x \in Ancestors(q)
      PROVE  /\ x \in Paths /\ T[x].t = "dir" /\ S[x].t \in {"err", "dir"} /\ ~Under(x, q)
  <2>1. x \in Paths /\ T[x].t = "dir"
    BY <1>4, HangsAbove DEF Ended
  <2>2. KindsOf(S)[x] \in {"err", "dir"}
    BY DEF Creates
  <2>3. ~Under(x, q)
    BY <2>1, UnderIs, AncestorIs, LenProperties DEF Paths
  <2> QED  BY <2>1, <2>2, <2>3 DEF KindsOf
<1>6. Dir("default") \in Entries /\ Dir("default").t = "dir"
  BY DEF Entries, Entry, Dir, Modes
<1>7. \A a, b : a.t = "dir" /\ b.t = "dir" => Same(a, b)
  BY DEF Same
<1>8. ASSUME NEW x \in Paths, r.op = "mv" => ~Under(x, p)
      PROVE  /\ x \in DOMAIN e <=> T[x].t # "err"
             /\ x \in DOMAIN e => e[x] \in Entries /\ Same(T[x], e[x])
  <2>1. CASE copied(x)
    <3> DEFINE y == Moved(x, q, p)
    <3>1. y \in Paths /\ Under(y, p) /\ Moved(y, p, q) = x /\ y \in DOMAIN t
      BY <2>1, MovedBack
    <3>2. e[x] = t[y] /\ x \in DOMAIN e
      BY <1>3, <2>1
    <3> HIDE DEF y
    <3>3. S[y].t # "err" /\ t[y] = S[y] /\ S[y] \in Entries
      BY <1>1, <3>1
    <3>4. Same(T[x], S[y])
      BY <3>1, <3>3 DEF AllCopied, Copied
    <3>5. T[x].t # "err"
      BY <3>3, <3>4 DEF Same
    <3> QED  BY <3>2, <3>3, <3>4, <3>5
  <2>2. CASE x \in Ancestors(q)
    <3>1. ~copied(x) /\ x \in DOMAIN e /\ T[x].t = "dir"
      BY <1>3, <1>5, <2>2
    <3>2. e[x] \in Entries /\ e[x].t = "dir"
      <4>1. CASE x \in DOMAIN t
        <5>1. e[x] = t[x] /\ t[x] = S[x]
          BY <1>1, <1>3, <3>1, <4>1
        <5> QED  BY <1>1, <1>5, <2>2, <4>1, <5>1
      <4>2. CASE x \notin DOMAIN t
        <5>1. e[x] = Dir("default")
          BY <1>3, <2>2, <3>1, <4>2
        <5> QED  BY <1>6, <5>1
      <4> QED  BY <4>1, <4>2
    <3> QED  BY <1>7, <3>1, <3>2
  <2>3. CASE ~copied(x) /\ x \notin Ancestors(q)
    <3>1. T[x] = S[x]
      <4>1. CASE Under(x, q)
        <5> DEFINE y == Moved(x, q, p)
        <5>1. y \in Paths
          BY <4>1, MovedBack
        <5>2. y \notin DOMAIN t
          BY <2>3, <4>1
        <5> HIDE DEF y
        <5>3. S[y].t = "err"
          BY <1>1, <5>1, <5>2
        <5> QED  BY <4>1, <5>3 DEF Mirrors, y
      <4>2. CASE ~Under(x, q)
        <5>1. Under(q, q)
          BY UnderSelf DEF Paths
        <5>2. ~Footprint(r, x)
          BY <1>8, <2>3, <4>2, <5>1 DEF Footprint
        <5> QED  BY <5>2 DEF Framed
      <4> QED  BY <4>1, <4>2
    <3>2. x \in DOMAIN e <=> x \in DOMAIN t
      BY <1>3, <2>3
    <3>3. x \in DOMAIN e => e[x] = T[x]
      BY <1>1, <1>3, <2>3, <3>1, <3>2
    <3> QED  BY <1>1, <3>1, <3>2, <3>3 DEF Same
  <2> QED  BY <2>1, <2>2, <2>3
<1> QED
  BY <1>3, <1>8 DEF CopyMade, e

LEMMA CpMet ==
  ASSUME NEW t, NEW u, NEW S, NEW T, Ended(t, u, S, T), NEW r, r.op = "cp", CopyMade(T, t, r)
  PROVE  Plain(u) = Plain(Copy(t, r.p, r.q))
<1> DEFINE e == Copy(t, r.p, r.q)
<1>1. /\ DOMAIN e \subseteq Paths
      /\ \A x \in Paths :
          /\ x \in DOMAIN e <=> T[x].t # "err"
          /\ x \in DOMAIN e => e[x] \in Entries /\ Same(T[x], e[x])
  BY DEF CopyMade
<1> HIDE DEF e
<1>2. /\ DOMAIN u \subseteq Paths
      /\ \A x \in Paths : (x \in DOMAIN u <=> T[x].t # "err") /\ T[x] \in Entries
      /\ \A x \in DOMAIN u : u[x] = T[x]
  BY DEF Ended, Shows
<1>3. DOMAIN u = DOMAIN e
  BY <1>1, <1>2
<1>4. \A x \in DOMAIN u : u[x] \in Entries /\ e[x] \in Entries /\ Same(u[x], e[x]) /\ u[x].t # "err"
  BY <1>1, <1>2, <1>3
<1> QED
  BY <1>3, <1>4, PlainSame DEF e

LEMMA MvMet ==
  ASSUME NEW t, NEW u, NEW S, NEW T, Ended(t, u, S, T), NEW r, r.op = "mv", CopyMade(T, t, r),
         r.p \in Paths, r.p # Root, T[r.p].t = "err"
  PROVE  Plain(u) = Plain(Minus(Copy(t, r.p, r.q), r.p))
<1> DEFINE w == Copy(t, r.p, r.q)
           e == Minus(w, r.p)
<1>1. /\ DOMAIN w \subseteq Paths
      /\ \A x \in Paths : ~Under(x, r.p) =>
          /\ x \in DOMAIN w <=> T[x].t # "err"
          /\ x \in DOMAIN w => w[x] \in Entries /\ Same(T[x], w[x])
  BY DEF CopyMade
<1> HIDE DEF w
<1>2. DOMAIN e = {x \in DOMAIN w : ~Under(x, r.p)} /\ \A x \in DOMAIN e : e[x] = w[x]
  BY DEF Minus
<1> HIDE DEF e
<1>3. /\ DOMAIN u \subseteq Paths
      /\ \A x \in Paths : (x \in DOMAIN u <=> T[x].t # "err") /\ T[x] \in Entries
      /\ \A x \in DOMAIN u : u[x] = T[x]
  BY DEF Ended, Shows
<1>4. \A x \in Paths : Under(x, r.p) => T[x].t = "err"
  BY NothingBelow DEF Ended
<1>5. DOMAIN u = DOMAIN e
  BY <1>1, <1>2, <1>3, <1>4
<1>6. \A x \in DOMAIN u : u[x] \in Entries /\ e[x] \in Entries /\ Same(u[x], e[x]) /\ u[x].t # "err"
  BY <1>1, <1>2, <1>3, <1>5
<1> QED
  BY <1>5, <1>6, PlainSame DEF e, w

\* What a call finds, in the words of the contract.
LEMMA FoundIs ==
  ASSUME NEW r \in Requests, NEW t, Found(t, r), NEW B, B = SeenOf(t)
  PROVE  /\ r.p \in Paths /\ r.q \in Paths /\ r.p # Root
         /\ r.op \in {"cp", "mv", "link"} => r.q # Root
         /\ Shows(t, B) /\ Hangs(KindsOf(B)) /\ Starts(KindsOf(B), r)
         /\ \A x \in Paths : B[x] \in Entries /\ B[x].t \in {"dir", "file", "link", "err"}
         /\ \A x \in Paths : x # Root => /\ Exists(t, x) <=> B[x].t # "err"
                                         /\ IsDir(t, x) <=> B[x].t = "dir"
                                         /\ IsFile(t, x) <=> B[x].t = "file"
         /\ \A x \in DOMAIN t : t[x] = B[x]
         /\ \A x : x \in Unread(t) <=> x \in Paths /\ Big(B, x)
         /\ Unread(t) \subseteq DOMAIN t
<1>1. r.p \in Paths /\ r.q \in Paths /\ r.p # Root /\ (r.op \in {"cp", "mv", "link"} => r.q # Root)
  BY RequestIs, TargetIs DEF Paths
<1>2. Shows(t, B)
  BY FoundShows
<1>3. \A x \in Paths : B[x] \in Entries /\ B[x].t \in {"dir", "file", "link", "err"}
  BY EntryIs DEF Found
<1>4. \A x \in Paths : x # Root => /\ Exists(t, x) <=> B[x].t # "err"
                                   /\ IsDir(t, x) <=> B[x].t = "dir"
                                   /\ IsFile(t, x) <=> B[x].t = "file"
  BY <1>2 DEF Shows, Exists, IsDir, IsFile
<1>5. DOMAIN t \subseteq Paths /\ \A x \in DOMAIN t : t[x] = B[x]
  BY <1>2 DEF Shows
<1>6. ASSUME NEW x
      PROVE  x \in Unread(t) <=> x \in Paths /\ Big(B, x)
  <2>1. x \in Unread(t) => x \in Paths /\ Big(B, x)
    BY <1>5 DEF Unread, Big
  <2>2. ASSUME x \in Paths, Big(B, x) PROVE x \in Unread(t)
    <3>1. x \in Huge /\ B[x] = Lower[x] /\ B[x].t = "file"
      BY <2>2, HugeIsOwn DEF Big
    <3>2. x \in DOMAIN t
      BY <1>2, <2>2, <3>1 DEF Shows
    <3> QED  BY <1>5, <3>1, <3>2 DEF Unread
  <2> QED  BY <2>1, <2>2
<1>7. Unread(t) \subseteq DOMAIN t
  BY DEF Unread
<1> QED
  BY <1>1, <1>2, <1>3, <1>4, <1>5, <1>6, <1>7 DEF Found

\* Too large a file is a file.
LEMMA BigIsFile == \A S, y : Big(S, y) => S[y].t = "file"
BY HugeIsOwn DEF Big

LEMMA OutcomeMet ==
  ASSUME NEW r \in Requests, NEW t, Found(t, r), NEW B, B = SeenOf(t),
         NEW T, NEW id, NEW out, Delivers(T, B, r, id, out)
  PROVE  out = Outcome(r, t, Unread(t))
<1> DEFINE p == r.p
           q == r.q
           b == B[p].t
           U == Unread(t)
<1>1. /\ p \in Paths /\ q \in Paths /\ p # Root
      /\ r.op \in {"cp", "mv", "link"} => q # Root
      /\ \A x \in Paths : B[x] \in Entries /\ B[x].t \in {"dir", "file", "link", "err"}
      /\ \A x \in Paths : x # Root => /\ Exists(t, x) <=> B[x].t # "err"
                                      /\ IsDir(t, x) <=> B[x].t = "dir"
                                      /\ IsFile(t, x) <=> B[x].t = "file"
      /\ \A x : x \in U <=> x \in Paths /\ Big(B, x)
      /\ U \subseteq DOMAIN t
  BY FoundIs
<1> HIDE DEF U
<1>2. Exists(t, p) <=> b # "err"
  BY <1>1
<1>3. IsDir(t, p) <=> b = "dir"
  BY <1>1
<1>4. r.op \in Ops /\ r.op \in OpNames
  BY RequestIs DEF Reqs
<1>5. CASE r.op \in {"write", "append"}
  BY <1>5 DEF Delivers, Outcome
<1>6. CASE r.op = "mkdir"
  <2>1. Exists(t, Parent(p)) <=> Parent(p) = Root \/ B[Parent(p)].t # "err"
    <3>1. CASE Parent(p) = Root
      BY <3>1 DEF Exists
    <3>2. CASE Parent(p) # Root
      BY <1>1, <3>2, ParentAbove DEF Paths
    <3> QED  BY <3>1, <3>2
  <2>2. CASE b # "err"
    <3>1. out = IF r.o.rec THEN "ok" ELSE "EEXIST"
      BY <1>6, <2>2 DEF Delivers
    <3> QED  BY <1>2, <1>6, <2>2, <3>1 DEF Outcome
  <2>3. CASE b = "err"
    <3>1. out = IF r.o.rec \/ Exists(t, Parent(p)) THEN "ok" ELSE "ENOENT"
      BY <1>6, <2>1, <2>3 DEF Delivers
    <3> QED  BY <1>2, <1>6, <2>3, <3>1 DEF Outcome
  <2> QED  BY <2>2, <2>3
<1>7. CASE r.op = "symlink"
  BY <1>2, <1>7 DEF Delivers, Outcome
<1>8. CASE r.op = "rm"
  <2>1. out = IF b # "err" \/ r.o.force THEN "ok" ELSE "ENOENT"
    BY <1>8 DEF Delivers
  <2> QED  BY <1>2, <1>8, <2>1 DEF Outcome
<1>9. CASE r.op \in {"cp", "mv", "link", "chmod", "utimes"} /\ b = "err"
  <2>1. out = "ENOENT"
    BY <1>9 DEF Delivers
  <2> QED  BY <1>2, <1>9, <2>1 DEF Outcome
<1>10. CASE r.op = "cp" /\ b = "dir" /\ ~r.o.rec
  <2>1. out = "EISDIR"
    BY <1>10 DEF Delivers
  <2> QED  BY <1>2, <1>3, <1>10, <2>1 DEF Outcome
<1>11. CASE r.op \in {"cp", "mv"} /\ b # "err" /\ (r.op = "cp" /\ b = "dir" => r.o.rec)
  <2>1. out = IF SomeBig(B, r) THEN "EFBIG" ELSE "ok"
    <3>1. ASSUME AllCopied(T, B, r, p), SomeBig(B, r) PROVE FALSE
      <4>1. PICK y \in Paths : Under(y, p) /\ Big(B, y)
        BY <3>1 DEF SomeBig
      <4>2. B[y].t = "file"
        BY <4>1, BigIsFile
      <4> QED  BY <3>1, <4>1, <4>2 DEF AllCopied, Copied
    <3> QED  BY <1>11, <3>1 DEF Delivers
  <2>2. SomeBig(B, r) <=>
          \E x \in U \cap DOMAIN t : x = p \/ (r.op \in {"cp", "mv"} /\ Under(x, p))
    <3>1. Under(p, p)
      BY <1>1, UnderSelf DEF Paths
    <3> QED  BY <1>1, <1>11, <3>1 DEF SomeBig
  <2>3. Outcome(r, t, U) =
          IF \E x \in U \cap DOMAIN t : x = p \/ (r.op \in {"cp", "mv"} /\ Under(x, p))
          THEN "EFBIG" ELSE "ok"
    BY <1>2, <1>3, <1>11 DEF Outcome
  <2> QED  BY <2>1, <2>2, <2>3 DEF U
<1>12. CASE r.op = "link" /\ b = "dir"
  <2>1. out = "EPERM"
    BY <1>12 DEF Delivers
  <2> QED  BY <1>2, <1>3, <1>12, <2>1 DEF Outcome
<1>13. CASE r.op = "link" /\ b = "file" /\ B[q].t # "err"
  <2>1. out = "EEXIST"
    BY <1>13 DEF Delivers
  <2>2. Exists(t, q)
    BY <1>1, <1>13
  <2> QED  BY <1>2, <1>3, <1>13, <2>1, <2>2 DEF Outcome
<1>14. CASE \/ r.op = "link" /\ b = "file" /\ B[q].t = "err"
            \/ r.op \in {"chmod", "utimes"} /\ b # "err"
  <2>1. out = IF Big(B, p) THEN "EFBIG" ELSE "ok"
    BY <1>14 DEF Delivers
  <2>2. Big(B, p) <=> \E x \in U \cap DOMAIN t : x = p \/ (r.op \in {"cp", "mv"} /\ Under(x, p))
    BY <1>1, <1>14
  <2>3. r.op = "link" => ~Exists(t, q)
    BY <1>1, <1>14
  <2>4. Outcome(r, t, U) =
          IF \E x \in U \cap DOMAIN t : x = p \/ (r.op \in {"cp", "mv"} /\ Under(x, p))
          THEN "EFBIG" ELSE "ok"
    BY <1>2, <1>3, <1>14, <2>3 DEF Outcome
  <2> QED  BY <2>1, <2>2, <2>4 DEF U
<1>15. r.op = "link" => b # "link"
  BY DEF Found
<1> QED
  BY <1>1, <1>4, <1>5, <1>6, <1>7, <1>8, <1>9, <1>10, <1>11, <1>12, <1>13, <1>14, <1>15 DEF OpNames

LEMMA EffectMet ==
  ASSUME NEW r \in Requests, NEW t, Found(t, r), NEW B, B = SeenOf(t),
         NEW u, NEW T, Shows(u, T), Hangs(KindsOf(T)), \A x \in Paths : T[x] \in Entries,
         Framed(T, B, r), Mirrors(T, B, r), NEW id \in Nat, Delivers(T, B, r, id, "ok")
  PROVE  Plain(u) = Plain(Effect(r, t, id))
<1> DEFINE p == r.p
           q == r.q
           b == B[p].t
<1>1. /\ p \in Paths /\ q \in Paths /\ p # Root
      /\ r.op \in {"cp", "mv", "link"} => q # Root
      /\ Shows(t, B) /\ Hangs(KindsOf(B)) /\ Starts(KindsOf(B), r)
      /\ \A x \in Paths : B[x] \in Entries /\ B[x].t \in {"dir", "file", "link", "err"}
      /\ \A x \in Paths : x # Root => /\ Exists(t, x) <=> B[x].t # "err"
                                      /\ IsDir(t, x) <=> B[x].t = "dir"
                                      /\ IsFile(t, x) <=> B[x].t = "file"
      /\ \A x \in DOMAIN t : t[x] = B[x]
  BY FoundIs
<1>2. Ended(t, u, B, T)
  BY <1>1 DEF Ended
<1>3. T = B => u = t
  BY <1>1, ShowsOne
<1>4. r.op \in OpNames
  BY RequestIs DEF Reqs
<1>5. \A m : Same(m, m)
  BY DEF Same
<1>6. ASSUME r.op \in {"mkdir", "write", "append", "symlink"}, Creates(KindsOf(B), p),
             NEW n \in Entries, n.t # "err", Same(T[p], n)
      PROVE  Plain(u) = Plain(Create(t, p, n))
  <2>1. \A x \in Paths : x # p /\ x \notin Ancestors(p) => T[x] = B[x]
    BY <1>6 DEF Framed, Footprint
  <2> HIDE DEF p
  <2> QED  BY <1>1, <1>2, <1>6, <2>1, CreateMet
<1>7. CASE r.op = "mkdir"
  <2>1. CASE b # "err"
    <3>1. T = B
      BY <1>7, <2>1 DEF Delivers
    <3>2. Effect(r, t, id) = t
      BY <1>1, <1>7, <2>1 DEF Effect
    <3> QED  BY <1>3, <3>1, <3>2
  <2>2. CASE b = "err"
    <3> DEFINE n == Dir("default")
    <3>1. Same(T[p], n) /\ n \in Entries /\ n.t # "err"
      BY <1>7, <2>2 DEF Delivers, Same, Dir, Entries, Entry, Modes
    <3>2. Creates(KindsOf(B), p)
      BY <1>1, <1>7 DEF Starts
    <3>3. Effect(r, t, id) = Create(t, p, n)
      BY <1>1, <1>7, <2>2 DEF Effect
    <3> QED  BY <1>6, <1>7, <3>1, <3>2, <3>3
  <2> QED  BY <2>1, <2>2
<1>8. CASE r.op \in {"write", "append"}
  <2> DEFINE c == IF r.op = "write" THEN <<id>>
                  ELSE Append(IF b = "file" THEN B[p].c ELSE <<>>, id)
             n == File(c, "default")
  <2>1. T[p] = n
    BY <1>8 DEF Delivers
  <2>2. c \in Seq(Nat)
    <3>1. b = "file" => B[p].c \in Seq(Nat)
      BY <1>1, EntryIs
    <3>2. <<>> \in Seq(Nat) /\ <<id>> \in Seq(Nat)
      OBVIOUS
    <3> QED  BY <3>1, <3>2, AppendProperties
  <2>3. Effect(r, t, id) = Create(t, p, n)
    <3>1. CASE r.op = "write"
      BY <3>1 DEF Effect
    <3>2. CASE r.op = "append"
      <4>1. IsFile(t, p) <=> b = "file"
        BY <1>1
      <4>2. IsFile(t, p) => t[p] = B[p]
        BY <1>1 DEF IsFile
      <4>3. (IF IsFile(t, p) THEN t[p].c ELSE <<>>) = (IF b = "file" THEN B[p].c ELSE <<>>)
        BY <4>1, <4>2
      <4>4. Effect(r, t, id) =
              Create(t, p, File(Append(IF IsFile(t, p) THEN t[p].c ELSE <<>>, id), "default"))
        BY <3>2 DEF Effect
      <4> QED  BY <3>2, <4>3, <4>4
    <3> QED  BY <1>8, <3>1, <3>2
  <2> HIDE DEF c
  <2>4. n \in Entries /\ n.t # "err"
    BY <2>2 DEF Entries, Entry, File, Modes
  <2>5. Creates(KindsOf(B), p)
    BY <1>1, <1>8 DEF Starts
  <2> HIDE DEF n
  <2> QED  BY <1>5, <1>6, <1>8, <2>1, <2>3, <2>4, <2>5
<1>9. CASE r.op = "symlink"
  <2> DEFINE n == Link(q)
  <2>1. T[p] = n
    BY <1>9 DEF Delivers
  <2>2. n \in Entries /\ n.t # "err"
    <3>1. q \in LinkTargets
      BY <1>9, RequestIs
    <3> QED  BY <3>1 DEF Entries, Entry, Link, Modes
  <2>3. Creates(KindsOf(B), p)
    BY <1>1, <1>9 DEF Starts
  <2>4. Effect(r, t, id) = Create(t, p, n)
    BY <1>9 DEF Effect
  <2> HIDE DEF n
  <2> QED  BY <1>5, <1>6, <1>9, <2>1, <2>2, <2>3, <2>4
<1>10. CASE r.op = "rm"
  <2>1. T[p].t = "err"
    BY <1>10 DEF Delivers
  <2>2. \A x \in Paths : ~Under(x, p) => T[x] = B[x]
    BY <1>10 DEF Framed, Footprint
  <2>3. Effect(r, t, id) = Minus(t, p)
    BY <1>10 DEF Effect
  <2> HIDE DEF p
  <2> QED  BY <1>1, <1>2, <2>1, <2>2, <2>3, MinusMet
<1>11. CASE r.op \in {"cp", "mv"}
  <2>1. b # "err" /\ AllCopied(T, B, r, p) /\ (r.op = "mv" => T[p].t = "err")
    BY <1>11 DEF Delivers
  <2>2. Creates(KindsOf(B), q)
    BY <1>1, <1>11 DEF Starts
  <2>3. CopyMade(T, t, r)
    BY <1>1, <1>2, <1>11, <2>1, <2>2, CopyMet
  <2>4. CASE r.op = "cp"
    BY <1>2, <2>3, <2>4, CpMet DEF Effect
  <2>5. CASE r.op = "mv"
    BY <1>1, <1>2, <2>1, <2>3, <2>5, MvMet DEF Effect
  <2> QED  BY <1>11, <2>4, <2>5
<1>12. CASE r.op = "link"
  <2>1. b = "file" /\ Same(T[q], B[p])
    BY <1>12 DEF Delivers
  <2>2. B[p] \in Entries /\ t[p] = B[p]
    BY <1>1, <2>1 DEF IsFile
  <2>3. Creates(KindsOf(B), q)
    BY <1>1, <1>12 DEF Starts
  <2>4. Effect(r, t, id) = Create(t, q, B[p])
    BY <1>12, <2>2 DEF Effect
  <2>5. \A x \in Paths : x # q /\ x \notin Ancestors(q) => T[x] = B[x]
    BY <1>12 DEF Framed, Footprint
  <2> DEFINE n == B[p]
  <2>6. n \in Entries /\ n.t # "err" /\ Same(T[q], n) /\ Effect(r, t, id) = Create(t, q, n)
    BY <2>1, <2>2, <2>4
  <2> HIDE DEF n, q
  <2> QED  BY <1>1, <1>2, <2>3, <2>5, <2>6, CreateMet
<1>13. CASE r.op \in {"chmod", "utimes"}
  <2>1. Same(T[p], B[p])
    BY <1>13 DEF Delivers
  <2>2. \A x \in Paths : x # p => T[x] = B[x]
    BY <1>13 DEF Framed, Footprint
  <2>3. Effect(r, t, id) = t
    BY <1>13 DEF Effect
  <2> HIDE DEF p
  <2> QED  BY <1>1, <1>2, <2>1, <2>2, <2>3, TouchMet
<1> QED
  BY <1>4, <1>7, <1>8, <1>9, <1>10, <1>11, <1>12, <1>13 DEF OpNames

\* How the call of c, that found t and leaves u, meets the contract.
Meets(r, t, u, id, out) ==
  /\ out = Outcome(r, t, Unread(t))
  /\ out = "ok" => Plain(u) = Plain(Effect(r, t, id))
  /\ out \notin {"ok", "EFBIG"} => u = t
  /\ out = "EFBIG" => \A x \in DOMAIN t : Under(x, r.p) => x \in DOMAIN u /\ u[x] = t[x]

LEMMA ContractMet ==
  ASSUME NEW r \in Requests, NEW t, Found(t, r), NEW B, B = SeenOf(t),
         NEW u, NEW T, Shows(u, T), Hangs(KindsOf(T)), \A x \in Paths : T[x] \in Entries,
         Framed(T, B, r), Mirrors(T, B, r), NEW id \in Nat, NEW out, Delivers(T, B, r, id, out)
  PROVE  Meets(r, t, u, id, out)
<1>1. Shows(t, B)
  BY FoundShows
<1>2. out = Outcome(r, t, Unread(t))
  BY OutcomeMet
<1>3. out = "ok" => Plain(u) = Plain(Effect(r, t, id))
  BY EffectMet
<1>4. r.op \in OpNames
  BY RequestIs DEF Reqs
<1>5. out \notin {"ok", "EFBIG"} => T = B
  BY <1>4 DEF Delivers, OpNames
<1>6. out = "EFBIG" => SourceSame(T, B, r)
  BY <1>4 DEF Delivers, OpNames, SourceSame
<1>7. out \notin {"ok", "EFBIG"} => u = t
  BY <1>1, <1>5, ShowsOne
<1>8. ASSUME out = "EFBIG", NEW x \in DOMAIN t, Under(x, r.p)
      PROVE  x \in DOMAIN u /\ u[x] = t[x]
  <2>1. x \in Paths /\ t[x] = B[x] /\ B[x].t # "err"
    BY <1>1 DEF Shows
  <2>2. T[x] = B[x]
    BY <1>6, <1>8, <2>1 DEF SourceSame
  <2> QED  BY <2>1, <2>2 DEF Shows
<1> QED
  BY <1>2, <1>3, <1>7, <1>8 DEF Meets

-----------------------------------------------------------------------------
(* The contract.                                                           *)

Keeps ==
  \A c \in Callers : Ends(c) /\ calm =>
    LET r == calls[c].req
        t == calls[c].before
        out == calls'[c].out
    IN /\ out = Outcome(r, t, Unread(t))
       /\ out = "ok" => Plain(Tree') = Plain(Effect(r, t, calls[c].id))
       /\ out \notin {"ok", "EFBIG"} => Tree' = t
       /\ out = "EFBIG" =>
            \A p \in DOMAIN t : Under(p, r.p) => p \in DOMAIN Tree' /\ Tree'[p] = t[p]

LEMMA EndsKeeps ==
  ASSUME IInv, IInv', CalmInv, CalmInv', PromiseInv, [Next]_vars, NEW c \in Callers, Ends(c), calm
  PROVE  Meets(calls[c].req, calls[c].before, Tree', calls[c].id, calls'[c].out)
<1>1. Clean /\ Faithful /\ Busy(c) /\ calls'[c].stack = <<>>
  BY DEF CalmInv, PromiseInv, Ends
<1>2. Step(c) /\ UNCHANGED <<made, calm>>
  <2>1. calls' # calls
    BY <1>1 DEF Busy
  <2>2. ASSUME NEW d \in Callers, Begin(d) PROVE FALSE
    <3>1. d # c
      BY <1>1, <2>2 DEF Begin, MayCall
    <3>2. calls'[c] = calls[c]
      BY <2>2, <3>1, BeginFits
    <3> QED  BY <1>1, <3>2 DEF Busy
  <2>3. ASSUME NEW d \in Callers, Step(d), UNCHANGED <<made, calm>>
        PROVE  d = c
    <3>1. Alone(d)
      BY <2>3, StepIsOwn
    <3> QED  BY <1>1, <3>1 DEF Alone, Busy
  <2> QED  BY <2>1, <2>2, <2>3 DEF Next, Finished, vars
<1>3. Clean'
  BY <1>2 DEF CalmInv
<1>4. Carried(c)
  BY <1>1, <1>2, <1>3, StepFaithful
<1> DEFINE r == calls[c].req
           t == calls[c].before
           B == Was(c)
           T == Seen'
           u == Tree'
           id == calls[c].id
           out == calls'[c].out
<1>5. Framed(T, B, r) /\ Mirrors(T, B, r) /\ Delivers(T, B, r, id, out)
  BY <1>1, <1>4 DEF Carried
<1>6. Found(t, r) /\ B = SeenOf(t)
  BY <1>1 DEF Faithful, Was
<1>7. r \in Requests /\ id \in Nat
  <2>1. made \in Nat /\ r \in Requests /\ id \in 1 .. made
    BY <1>1, CallsAssumption DEF IInv, CallsInv, CallsOK
  <2> QED  BY <2>1
<1>8. SeenIs' /\ TreeShows' /\ Hangs(Kinds')
  <2>1. Tidy'
    BY <1>3 DEF Clean
  <2> QED  BY <1>3, <2>1, SeenNext, TreeNext DEF Clean
<1>9. Hangs(KindsOf(T)) /\ Shows(u, T) /\ \A x \in Paths : T[x] \in Entries
  BY <1>8 DEF SeenIs, TreeShows
<1> HIDE DEF r, t, B, T, u, id, out
<1>10. Meets(r, t, u, id, out)
  BY <1>5, <1>6, <1>7, <1>9, ContractMet
<1> QED
  BY <1>10 DEF r, t, u, id, out

LEMMA StepKeeps ==
  ASSUME IInv, IInv', CalmInv, CalmInv', PromiseInv, [Next]_vars
  PROVE  Keeps
<1> SUFFICES ASSUME NEW c \in Callers, Ends(c), calm
             PROVE  Meets(calls[c].req, calls[c].before, Tree', calls[c].id, calls'[c].out)
  BY DEF Keeps, Meets
<1> QED
  BY EndsKeeps

(* While calls do not overlap and make sense, a call ends as the interface *)
(* says and leaves the tree the interface says, however the host tree, the *)
(* memory layer and the white-outs share it out: what was removed,         *)
(* recreated, moved, copied or copied up before makes no difference.  A    *)
(* call that fails changes nothing, and a copy that met a file too large   *)
(* to read leaves its source as it was.                                    *)
THEOREM ContractKept == Spec => KeepsContract
<1>1. IInv /\ IInv' /\ CalmInv /\ CalmInv' /\ PromiseInv /\ [Next]_vars => [Keeps]_vars
  BY StepKeeps
<1>2. Spec => [][Keeps]_vars
  BY <1>1, Always, CalmAlways, PromiseAlways, PTL DEF Spec
<1> QED
  BY <1>2 DEF KeepsContract, Keeps
=============================================================================
